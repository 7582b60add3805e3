------------------------------- MODULE Rekey --------------------------------
(***************************************************************************)
(* Key rotation between one client and the server (key.c, the rekey timer  *)
(* and the UDP handlers of vfast_client.c, the rekey handlers of           *)
(* vfast_server.c), with the handshake that starts a session and the       *)
(* reconnection that replaces it, over a UDP path in each direction.       *)
(*                                                                         *)
(* All key state of the client is touched by its I/O thread only, so the   *)
(* two buffers of vfast_handle_new_key appear as one context: the standby  *)
(* buffer is overwritten before it is read again.  Elapsed time (key age,  *)
(* byte count, retry interval, receive timeout) is a free choice.          *)
(***************************************************************************)
EXTENDS Integers, Sequences

CONSTANTS
    MaxSessions,    \* bound: sessions the server creates
    MaxFresh,       \* bound: keys drawn from the random source
    MaxInFlight,    \* bound: datagrams in flight per direction
    KidMod,         \* 256 in the code: the key id has 8 bits on the wire
    Paths           \* what the path may do: records [losses, reorder], the bound
                    \* on the datagrams it loses and whether it reorders

ASSUME RekeyAssumption ==
    /\ {MaxSessions, MaxFresh, MaxInFlight} \subseteq Nat \ {0}
    /\ KidMod \in Nat /\ KidMod > 1
    /\ Paths \subseteq [losses : Nat, reorder : BOOLEAN]

VARIABLES
    state,          \* client FSM: "idle", "hello", "auth", "connected"
    sid,            \* the session id the client uses, 0 before the first
    client,         \* the client's security context
    server,         \* the security context of each session
    sessions,       \* sessions created so far; they are 1 .. sessions
    fresh,          \* keys drawn so far
    up, down,       \* datagrams in flight, client to server and back
    path,           \* the path of this behaviour
    losses,         \* datagrams lost so far
    nullWrite,      \* vf_io_write was called with a NULL payload
    misled          \* history: sessions in which the client took a REKEY_ACK
                    \* of another session

\* A queue without its i-th datagram.
RemoveAt(q, i) == SubSeq(q, 1, i - 1) \o SubSeq(q, i + 1, Len(q))

vars == <<state, sid, client, server, sessions, fresh, up, down, path,
          losses, nullWrite, misled>>

ZeroKey == [id |-> 0, raw |-> 0]
NewKey(id) == [id |-> id, raw |-> fresh + 1]
Key == [id : Nat, raw : Nat]
Context == [active : Key, previous : Key, next : Key, pending : BOOLEAN]
ContextWith(key) ==
    [active |-> key, previous |-> ZeroKey, next |-> ZeroKey, pending |-> FALSE]

\* The pending flag is not reset.
MutCommitPending(ctx) ==
    [active |-> ctx.next, previous |-> ctx.active,
     next |-> ZeroKey, pending |-> ctx.pending]

vf_rekey_commit(ctx) ==
    [active |-> ctx.next, previous |-> ctx.active,
     next |-> ZeroKey, pending |-> FALSE]

\* The grace key is not tried.
MutGetDecryptKey(ctx, kid) == IF ctx.active.id % KidMod = kid THEN {ctx.active.raw} ELSE {}

\* vf_unpack succeeds: the key picked by the wire id is the one that sealed m.
vf_rekey_get_decrypt_key(ctx, kid) ==
    IF ctx.active.id % KidMod = kid THEN {ctx.active.raw}
    ELSE IF ctx.previous.id # 0 /\ ctx.previous.id % KidMod = kid
         THEN {ctx.previous.raw} ELSE {}
Decrypts(ctx, m) == m.key.raw \in vf_rekey_get_decrypt_key(ctx, m.key.id % KidMod)

Msg(kind, s, key, body) == [kind |-> kind, sid |-> s, key |-> key, body |-> body]
Plain(kind, s, body) == Msg(kind, s, ZeroKey, body)
Message == [kind : {"HELLO", "AUTH_REQ", "AUTH_ACK", "REKEY_REQ", "REKEY_ACK", "DATA"},
            sid : 0 .. MaxSessions, key : Key, body : Key]

Init ==
    /\ state = "idle" /\ sid = 0
    /\ client = ContextWith([id |-> 1, raw |-> 1])     \* vfast_init_secctx
    /\ server = [s \in 1 .. MaxSessions |-> ContextWith(ZeroKey)]
    /\ sessions = 0 /\ fresh = 1
    /\ up = <<>> /\ down = <<>>
    /\ path \in Paths /\ losses = 0
    /\ nullWrite = FALSE /\ misled = {}

-----------------------------------------------------------------------------
\* The path.

Room(q) == Len(q) < MaxInFlight
Deliverable(q) == IF path.reorder THEN DOMAIN q ELSE DOMAIN q \cap {1}

Lose ==
    /\ losses < path.losses
    /\ losses' = losses + 1
    /\ \/ \E i \in DOMAIN up : up' = RemoveAt(up, i) /\ UNCHANGED down
       \/ \E i \in DOMAIN down : down' = RemoveAt(down, i) /\ UNCHANGED up
    /\ UNCHANGED <<state, sid, client, server, sessions, fresh, path, nullWrite, misled>>

-----------------------------------------------------------------------------
\* The client.

SendHello ==
    /\ state = "idle" /\ Room(up)
    /\ state' = "hello"
    /\ up' = Append(up, Plain("HELLO", sid, ZeroKey))
    /\ UNCHANGED <<sid, client, server, sessions, fresh, down, path, losses, nullWrite, misled>>

\* Handshake timeout, or nothing received for FSM_TIMEOUT, whatever is still on
\* its way: the rekey timer may have sent a moment ago, the server answer late.
Timeout ==
    /\ state # "idle"
    /\ state' = "idle"
    /\ UNCHANGED <<sid, client, server, sessions, fresh, up, down, path, losses, nullWrite, misled>>

\* vfast_rekey_timer_handler; it sends nothing when no task buffer is free.
RekeyTimer ==
    /\ state = "connected"
    /\ \/ /\ ~client.pending /\ fresh < MaxFresh
          /\ client' = [client EXCEPT !.next = NewKey(client.active.id + 1),
                                      !.pending = TRUE]
          /\ fresh' = fresh + 1
       \/ client.pending /\ UNCHANGED <<client, fresh>>
    /\ up' \in {up} \cup
        (IF Room(up)
         THEN {Append(up, Msg("REKEY_REQ", sid, client'.active, client'.next))}
         ELSE {})
    /\ UNCHANGED <<state, sid, server, sessions, down, path, losses, nullWrite, misled>>

ClientSendsData ==
    /\ state = "connected" /\ Room(up)
    /\ up' = Append(up, Msg("DATA", sid, client.active, ZeroKey))
    /\ UNCHANGED <<state, sid, client, server, sessions, fresh, down, path, losses, nullWrite, misled>>

\* Answers to HELLO and AUTH_REQ are accepted in the matching state only; the
\* key context keeps its previous and next keys across a new session.
ClientHello(m) ==
    /\ m.kind = "HELLO"
    /\ state = "hello" => Room(up)
    /\ IF state = "hello"
       THEN state' = "auth" /\ up' = Append(up, Plain("AUTH_REQ", sid, ZeroKey))
       ELSE UNCHANGED <<state, up>>
    /\ UNCHANGED <<sid, client, nullWrite, misled>>

ClientAuth(m) ==
    /\ m.kind = "AUTH_ACK"
    /\ IF state = "auth"
       THEN /\ client' = [client EXCEPT !.active = m.body, !.pending = FALSE]
            /\ sid' = m.sid
            /\ state' \in {"connected", "auth"}     \* vf_tun_set_ip may fail
       ELSE UNCHANGED <<client, sid, state>>
    /\ UNCHANGED <<up, nullWrite, misled>>

\* REKEY_ACK: vfast_handle_new_key commits whatever the state is, and whichever
\* session the packet names.
ClientRekeyAck(m) ==
    /\ m.kind = "REKEY_ACK"
    /\ client' = vf_rekey_commit(client)
    /\ misled' = IF state = "connected" /\ m.sid # sid THEN misled \cup {sid} ELSE misled
    /\ UNCHANGED <<state, sid, up, nullWrite>>

\* client_handle_data passes the payload on even when it is NULL.
ClientData(m) ==
    /\ m.kind = "DATA"
    /\ nullWrite' = (nullWrite \/ (state = "connected" /\ ~Decrypts(client, m)))
    /\ UNCHANGED <<state, sid, client, up, misled>>

client_on_udp ==
    \E i \in Deliverable(down) :
        /\ \/ ClientHello(down[i]) \/ ClientAuth(down[i])
           \/ ClientRekeyAck(down[i]) \/ ClientData(down[i])
        /\ down' = RemoveAt(down, i)
        /\ UNCHANGED <<server, sessions, fresh, path, losses>>

-----------------------------------------------------------------------------
\* The server.

ServerSendsData ==
    \E s \in 1 .. sessions :
        /\ Room(down)
        /\ down' = Append(down, Msg("DATA", s, server[s].active, ZeroKey))
        /\ UNCHANGED <<state, sid, client, server, sessions, fresh, up, path, losses, nullWrite, misled>>

ServerHello(m) ==
    /\ m.kind = "HELLO" /\ Room(down)
    /\ down' = Append(down, Plain("HELLO", 0, ZeroKey))
    /\ UNCHANGED <<server, sessions, fresh>>

\* Every accepted AUTH_REQ makes a new session (until the bound is reached).
ServerAuth(m) ==
    /\ m.kind = "AUTH_REQ" /\ Room(down)
    /\ IF sessions < MaxSessions /\ fresh < MaxFresh
       THEN /\ sessions' = sessions + 1
            /\ fresh' = fresh + 1
            /\ server' = [server EXCEPT ![sessions + 1] = ContextWith(NewKey(1))]
            /\ down' = Append(down, Plain("AUTH_ACK", sessions + 1, NewKey(1)))
       ELSE UNCHANGED <<server, sessions, fresh, down>>

\* A request whose id is not newer is taken as well.
MutServerRekeyReq(m) ==
    /\ m.kind = "REKEY_REQ" /\ Room(down)
    /\ LET ctx == server[m.sid]
       IN  IF Decrypts(ctx, m)
           THEN /\ server' = [server EXCEPT ![m.sid] =
                                vf_rekey_commit([ctx EXCEPT !.next = m.body])]
                /\ down' = Append(down, Msg("REKEY_ACK", m.sid, ctx.active, ZeroKey))
           ELSE UNCHANGED <<server, down>>
    /\ UNCHANGED <<sessions, fresh>>

\* The ACK is sealed with the old key, then the new one becomes active.
ServerRekeyReq(m) ==
    /\ m.kind = "REKEY_REQ" /\ Room(down)
    /\ LET ctx == server[m.sid]
       IN  IF Decrypts(ctx, m) /\ m.body.id > ctx.active.id
           THEN /\ server' = [server EXCEPT ![m.sid] =
                                vf_rekey_commit([ctx EXCEPT !.next = m.body])]
                /\ down' = Append(down, Msg("REKEY_ACK", m.sid, ctx.active, ZeroKey))
           ELSE UNCHANGED <<server, down>>
    /\ UNCHANGED <<sessions, fresh>>

\* A DATA packet goes to the TUN device or is dropped.
ServerData(m) ==
    /\ m.kind = "DATA"
    /\ UNCHANGED <<server, sessions, fresh, down>>

server_on_udp ==
    \E i \in Deliverable(up) :
        /\ \/ ServerHello(up[i]) \/ ServerAuth(up[i])
           \/ ServerRekeyReq(up[i]) \/ ServerData(up[i])
        /\ up' = RemoveAt(up, i)
        /\ UNCHANGED <<state, sid, client, path, losses, nullWrite, misled>>

-----------------------------------------------------------------------------
Next ==
    \/ SendHello \/ Timeout \/ RekeyTimer \/ ClientSendsData \/ client_on_udp
    \/ ServerSendsData \/ server_on_udp \/ Lose

Spec == Init /\ [][Next]_vars

\* Datagrams that are not lost arrive, and the rekey timer keeps firing.
RetrySent == RekeyTimer /\ client.pending /\ up' # up
FairSpec ==
    /\ Spec
    /\ WF_vars(client_on_udp) /\ SF_vars(server_on_udp) /\ SF_vars(RetrySent)

-----------------------------------------------------------------------------
TypeOK ==
    /\ state \in {"idle", "hello", "auth", "connected"}
    /\ sid \in 0 .. sessions /\ sessions \in 0 .. MaxSessions
    /\ client \in Context
    /\ server \in [1 .. MaxSessions -> Context]
    /\ up \in Seq(Message) /\ down \in Seq(Message)
    /\ fresh \in 1 .. MaxFresh /\ path \in Paths /\ losses \in 0 .. path.losses
    /\ nullWrite \in BOOLEAN /\ misled \subseteq 1 .. sessions

(* The key a connected client encrypts with is one its session holds, as   *)
(* the active or as the grace key: vfast_handle_new_key "Commits the newly *)
(* negotiated session key" (vfast_client.c:237).                           *)
KeyHeld ==
    state = "connected" => client.active \in {server[sid].active, server[sid].previous}

(* No loss, delay or reordering of requests, acknowledgements and retries, *)
(* and no reconnection in the middle of a rotation, makes the server       *)
(* unable to read a connected client, with one exception: the client takes *)
(* a REKEY_ACK of a session it has left (vfast_client.c:397 asks neither   *)
(* for the session nor for rekey_pending) and commits the next key that    *)
(* client_handle_auth has left in its context.                             *)
KeyAgreement ==
    /\ TypeOK
    /\ sid \notin misled => KeyHeld

(* On a path that neither loses nor reorders, a rotation that was started  *)
(* finishes ("Handshake in progress", key.h:34) unless the client leaves   *)
(* the session or takes the REKEY_ACK of another.                          *)
Reliable == path.losses = 0 /\ ~path.reorder
RotationEnds ==
    (Reliable /\ client.pending /\ state = "connected")
        ~> (~client.pending \/ state # "connected" \/ sid \in misled)

(* On a path that keeps order, every packet the server receives decrypts,  *)
(* whatever is lost and whenever the client reconnects: one grace key is   *)
(* enough for what was in flight during a rotation.  (Not in a session     *)
(* with the REKEY_ACK of another: retried handshakes can delay one into it *)
(* even here.)  On one that loses nothing either, the client, too, can     *)
(* read every packet of its first session, so the payload given to         *)
(* vf_io_write exists; after a reconnection the server may still send      *)
(* packets of the session before.                                          *)
PacketsDecrypt ==
    /\ (~path.reorder /\ up # <<>> /\ Head(up).kind \in {"DATA", "REKEY_REQ"}
            /\ Head(up).sid \notin misled)
        => Decrypts(server[Head(up).sid], Head(up))
    /\ Reliable /\ sessions <= 1 => ~nullWrite

(* The payload given to vf_io_write is never NULL: io.c:286 "'data' ALWAYS *)
(* originates from the internal task_pool".                                *)
NoNullWrite == ~nullWrite
=============================================================================
