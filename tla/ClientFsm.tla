----------------------------- MODULE ClientFsm ------------------------------
(***************************************************************************)
(* The connection state machine of the client (fsm.c) and the two threads  *)
(* that write its state: the FSM worker, which loads the clock, the state  *)
(* and last_rx_time, acts and stores the next state without looking again, *)
(* and the I/O thread, whose handlers (vfast_client.c) check the state,    *)
(* work and then store.                                                    *)
(*                                                                         *)
(* The server answers HELLO and AUTH_REQ, and while it has the client's    *)
(* session it answers KEEPALIVE and sends DATA, DPD_REQUEST and REKEY_ACK: *)
(* to the state machine all of these are "OTHER" packets of the server.    *)
(* One second (FSM_TICK) is one Tick; the worker sleeps for one tick per   *)
(* round.  Each thread may be delayed for any time between two of its      *)
(* steps, and a datagram may be on its way for any time.                   *)
(***************************************************************************)
EXTENDS Integers

CONSTANTS
    FSM_AUTH_RETRY, FSM_KEEPALIVE, FSM_TIMEOUT,     \* in ticks
    Strays          \* packets arrive at any time from anywhere, such as ones that
                    \* do not decrypt

VARIABLES
    state,          \* fsm->state
    worker,         \* "load", "act", "store", "sleep"
    seen,           \* the state the worker loaded in this round, or "none"
    late,           \* in that state, the packet it waits for is overdue
    keep,           \* ... or a keepalive is due
    io,             \* the handler the I/O thread is in: "none", "hello", "auth"
    waited,         \* ticks since last_tx_hello or last_tx_auth, the later one
    kept,           \* ticks since last_tx_keep
    silent,         \* ticks since last_rx_time
    session,        \* the server has the session of the client's sid
    up, down        \* kinds of the datagrams in flight, to and from the server

workerVars == <<worker, seen, late, keep, waited, kept>>
vars == <<state, workerVars, io, silent, session, up, down>>

States == {"IDLE", "HELLO_WAIT", "AUTH_SEND", "AUTH_WAIT", "CONNECTED", "RECONNECTING"}
Connected == state = "CONNECTED"

Init ==
    /\ state = "IDLE"
    /\ worker = "load" /\ seen = "none" /\ late = FALSE /\ keep = FALSE
    /\ io = "none"
    /\ waited = 0 /\ kept = FSM_KEEPALIVE /\ silent = 0
    /\ session = FALSE
    /\ up = {} /\ down = {}

-----------------------------------------------------------------------------
\* The FSM worker.

Sends == {"IDLE", "RECONNECTING", "AUTH_SEND"}
Waits == {"HELLO_WAIT", "AUTH_WAIT"}

\* DPD looks at the last keepalive instead of the last receive.
MutLoad ==
    /\ worker = "load"
    /\ worker' = "act"
    /\ seen' = state
    /\ late' = \/ Connected /\ kept > FSM_KEEPALIVE
               \/ state \in Waits /\ waited >= FSM_AUTH_RETRY
    /\ keep' = (Connected /\ kept >= FSM_KEEPALIVE)
    /\ waited' = IF state \in Sends THEN 0 ELSE waited
    /\ kept' = IF keep' THEN 0 ELSE kept
    /\ UNCHANGED <<state, io, silent, session, up, down>>

\* All the worker compares later is read here; last_tx_hello, last_tx_auth
\* and last_tx_keep, which no other thread uses, will become this now.
Load ==
    /\ worker = "load"
    /\ worker' = "act"
    /\ seen' = state
    /\ late' = \/ Connected /\ silent >= FSM_TIMEOUT
               \/ state \in Waits /\ waited >= FSM_AUTH_RETRY
    /\ keep' = (Connected /\ kept >= FSM_KEEPALIVE)
    /\ waited' = IF state \in Sends THEN 0 ELSE waited
    /\ kept' = IF keep' THEN 0 ELSE kept
    /\ UNCHANGED <<state, io, silent, session, up, down>>

\* The worker goes on when there is no free task buffer: a packet that could
\* not be sent is one that is lost at once (Lose).
fsm_send_pkt(kind) == up' = up \cup {kind}

\* HELLO or AUTH_REQ is sent; the state is stored afterwards.
SendHandshake ==
    /\ worker = "act" /\ seen \in Sends
    /\ fsm_send_pkt(IF seen = "AUTH_SEND" THEN "AUTH_REQ" ELSE "HELLO")
    /\ worker' = "store"
    /\ UNCHANGED <<state, seen, late, keep, waited, kept, io, silent, session, down>>

\* The locals of the loop body end with it.
EndRound == worker' = "sleep" /\ seen' = "none" /\ late' = FALSE /\ keep' = FALSE

StoreWait ==
    /\ worker = "store"
    /\ state' = IF seen = "AUTH_SEND" THEN "AUTH_WAIT" ELSE "HELLO_WAIT"
    /\ EndRound
    /\ UNCHANGED <<waited, kept, io, silent, session, up, down>>

\* The wait for HELLO has no time limit.
MutCheckWait ==
    /\ worker = "act" /\ seen \in Waits
    /\ state' = IF late /\ seen = "AUTH_WAIT" THEN "IDLE" ELSE state
    /\ EndRound
    /\ UNCHANGED <<waited, kept, io, silent, session, up, down>>

\* HELLO_WAIT and AUTH_WAIT: back to IDLE after FSM_AUTH_RETRY.
CheckWait ==
    /\ worker = "act" /\ seen \in Waits
    /\ state' = IF late THEN "IDLE" ELSE state
    /\ EndRound
    /\ UNCHANGED <<waited, kept, io, silent, session, up, down>>

CheckConnection ==
    /\ worker = "act" /\ seen = "CONNECTED"
    /\ IF keep THEN fsm_send_pkt("KEEPALIVE") ELSE up' = up
    /\ state' = IF late THEN "RECONNECTING" ELSE state
    /\ EndRound
    /\ UNCHANGED <<waited, kept, io, silent, session, down>>

fsm_worker == Load \/ SendHandshake \/ StoreWait \/ CheckWait \/ CheckConnection

\* One second passes, wherever the threads are; a sleeping worker wakes up.
Older(age, limit) == IF age < limit THEN age + 1 ELSE age
Tick ==
    /\ worker' = IF worker = "sleep" THEN "load" ELSE worker
    /\ waited' = Older(waited, FSM_AUTH_RETRY)
    /\ kept' = Older(kept, FSM_KEEPALIVE)
    /\ silent' = Older(silent, FSM_TIMEOUT)
    /\ UNCHANGED <<state, seen, late, keep, io, session, up, down>>

-----------------------------------------------------------------------------
\* client_on_udp; every packet refreshes last_rx_time before it is looked at.

\* HELLO and AUTH_ACK: the handler has checked the state and the length.
Accept(kind, expected, handler) ==
    /\ io = "none" /\ kind \in down
    /\ down' = down \ {kind}
    /\ silent' = 0
    /\ io' \in IF state = expected THEN {handler, "none"} ELSE {"none"}
    /\ UNCHANGED <<state, workerVars, session, up>>

\* A HELLO is taken in any state.
MutAcceptHello == Accept("HELLO", state, "hello")

AcceptHello == Accept("HELLO", "HELLO_WAIT", "hello")
AcceptAuth == Accept("AUTH_ACK", "AUTH_WAIT", "auth")

\* ... and now stores the next one, or IDLE when the status is a refusal.
StoreHello ==
    /\ io = "hello"
    /\ state' \in {"AUTH_SEND", "IDLE"}
    /\ io' = "none"
    /\ UNCHANGED <<workerVars, silent, session, up, down>>

\* vf_tun_set_ip may fail: the session is there and the state stays.
StoreAuth ==
    /\ io = "auth"
    /\ \/ session' = TRUE /\ state' \in {"CONNECTED", state}
       \/ session' = session /\ state' = "IDLE"
    /\ io' = "none"
    /\ UNCHANGED <<workerVars, silent, up, down>>

\* KEEPALIVE, DPD_REQUEST, DATA, REKEY_ACK of the server.
AcceptOther ==
    /\ io = "none" /\ "OTHER" \in down
    /\ down' = down \ {"OTHER"}
    /\ silent' = 0
    /\ UNCHANGED <<state, workerVars, io, session, up>>

\* Whatever else arrives, from whomever.
AcceptStray ==
    /\ io = "none" /\ Strays
    /\ silent' = 0
    /\ UNCHANGED <<state, workerVars, io, session, up, down>>

client_on_udp == AcceptHello \/ AcceptAuth \/ StoreHello \/ StoreAuth \/ AcceptOther

-----------------------------------------------------------------------------
\* The server and the path.

Reply(kind) == [HELLO |-> "HELLO", AUTH_REQ |-> "AUTH_ACK", KEEPALIVE |-> "OTHER"][kind]

Answer(kind) ==
    /\ kind \in up
    /\ up' = up \ {kind}
    /\ down' = IF kind = "KEEPALIVE" /\ ~session THEN down ELSE down \cup {Reply(kind)}
    /\ UNCHANGED <<state, workerVars, io, silent, session>>

server_on_udp == \E kind \in up : Answer(kind)

\* server_on_tun, vfast_server_maintenance and vfast_handle_rekey_req.
ServerSends ==
    /\ session
    /\ down' = down \cup {"OTHER"}
    /\ UNCHANGED <<state, workerVars, io, silent, session, up>>

\* The server restarts, or reclaims the session.
SessionLost ==
    /\ session
    /\ session' = FALSE
    /\ UNCHANGED <<state, workerVars, io, silent, up, down>>

Lose ==
    /\ \/ \E kind \in up : up' = up \ {kind} /\ UNCHANGED down
       \/ \E kind \in down : down' = down \ {kind} /\ UNCHANGED up
    /\ UNCHANGED <<state, workerVars, io, silent, session>>

-----------------------------------------------------------------------------
Next ==
    \/ fsm_worker \/ Tick \/ client_on_udp \/ AcceptStray
    \/ server_on_udp \/ ServerSends \/ SessionLost \/ Lose

Spec == Init /\ [][Next]_vars

\* Both threads run, time passes, and the server answers.
Fairness ==
    /\ WF_vars(fsm_worker) /\ WF_vars(Tick)
    /\ WF_vars(client_on_udp) /\ WF_vars(server_on_udp)

FairSpec == Spec /\ Fairness

-----------------------------------------------------------------------------
\* Calm weather: nothing is lost, a request is answered and the answer handled
\* while the worker sleeps, within the second, and the answer is not a refusal.
Calm ==
    \/ fsm_worker \/ SessionLost
    \/ Tick /\ up = {} /\ down = {} /\ io = "none"
    \/ /\ worker = "sleep"
       /\ \/ server_on_udp \/ ServerSends \/ AcceptOther \/ AcceptStray
          \/ AcceptHello /\ io' = IF state = "HELLO_WAIT" THEN "hello" ELSE "none"
          \/ AcceptAuth /\ io' = IF state = "AUTH_WAIT" THEN "auth" ELSE "none"
          \/ StoreHello /\ state' = "AUTH_SEND"
          \/ StoreAuth /\ state' = "CONNECTED"

(* Whatever the two threads have overwritten of each other's work, and      *)
(* whatever late replies are still on their way, a client that is not       *)
(* connected gets connected once the weather is calm.                       *)
Reconnects == <>[][Calm]_vars => (~Connected ~> Connected)

(* A client that stays connected for good hears something again and again: *)
(* after FSM_TIMEOUT of silence the worker leaves CONNECTED, however the   *)
(* two threads interleave.  What it hears need not come from the server.   *)
SilenceNoticed == <>[]Connected => []<>(silent = 0)

(* "This prevents Dead Peer Detection (DPD) from being spoofed by garbage  *)
(* traffic" (vfast_client.c:378): a client whose session the server no     *)
(* longer has leaves CONNECTED, because nobody answers its keepalives.     *)
DeadPeerNoticed == (Connected /\ ~session) ~> ~Connected

(* The worker is in a round that began before it could see the connection. *)
Stale == worker \in {"act", "store"} /\ seen # "CONNECTED"

(* A connection ends only in a round that found FSM_TIMEOUT of silence at   *)
(* its start, or by the store of a round that was under way when it was     *)
(* made.  No handler of the I/O thread ends it, whatever late HELLO or      *)
(* AUTH_ACK arrives.                                                        *)
ConnectionKept == [][Connected /\ state' # state => late \/ Stale]_vars
=============================================================================
