----------------------------- MODULE VpnServer ------------------------------
(***************************************************************************)
(* The control plane of the server: the address pool and the session table *)
(* composed by the handlers of vfast_server.c that change them and by the  *)
(* maintenance timer of vfast.c.  All of them run on the event-loop thread *)
(* and none yields, so each handler is one step.  The network is open: a   *)
(* request of any kind may arrive from any address with any session id at  *)
(* any time, which covers loss, duplication, delay and reordering.         *)
(*                                                                         *)
(* A request that fails the cookie or the timestamp check changes nothing, *)
(* and neither do HELLO, DATA and the rekey messages (see Rekey); they are *)
(* the stuttering steps.  Packing a fixed-size handshake reply cannot fail.*)
(***************************************************************************)
EXTENDS IpPool, SessionTable

CONSTANTS
    ProbeIdle,      \* PROBE_SEC, in ticks
    DeadIdle,       \* DEAD_SEC, in ticks
    MaxBatch        \* the length of expired_list (64)

ASSUME ServerAssumption ==
    /\ Vip = Assignable
    /\ ProbeIdle \in Nat /\ DeadIdle \in Nat /\ MaxBatch \in Nat \ {0}
    /\ ProbeIdle <= DeadIdle /\ DeadIdle <= MaxIdle

VARIABLES
    granted,        \* <<vip, sid>> of the AUTH_ACKs sent, until reclaimed
    lost            \* addresses allocated for a login that then failed

poolVars == <<bitmap, next_hint, open>>
serverVars == <<poolVars, tableVars, granted, lost>>

ServerInit == PoolInit /\ TableInit /\ granted = {} /\ lost = {}

-----------------------------------------------------------------------------
\* vfast_handle_auth, after the cookie and the timestamp have been accepted.

\* The session is created, then looked up by its id; when the lookup misses
\* the address goes back to the pool and no AUTH_ACK is sent.
AuthAccepted(src) ==
    \E pos \in Pos : LET vip == IpOf(pos) IN
        /\ ScanStopsAt(pos)
        /\ next_hint' = HintAfter(pos)
        /\ UNCHANGED <<open, lost>>
        /\ \E sid \in vf_ss_generate_sid(vip) :
            LET found == ShardOf[sid] = ShardOf[vip] \/ FindSid(sid) # {}
            IN  /\ vf_ss_update(vip, sid, src)
                /\ bitmap' = IF found \/ ~InRange(vip)
                             THEN bitmap \cup {pos} ELSE bitmap \ {pos}
                /\ granted' = IF found THEN granted \cup {<<vip, sid>>}
                                       ELSE granted

\* The address is allocated before the credentials are checked.
AuthLoginFailed ==
    \E pos \in Pos :
        /\ ScanStopsAt(pos)
        /\ bitmap' = bitmap \cup {pos}
        /\ next_hint' = HintAfter(pos)
        /\ lost' = lost \cup {IpOf(pos)}
        /\ UNCHANGED <<open, tableVars, granted>>

AuthPoolEmpty ==
    /\ vf_ip_pool_alloc(NoIp)
    /\ UNCHANGED <<tableVars, granted, lost>>

\* vfast_handle_echo: the session found by id is refreshed by address.
KeepAlive(src) ==
    \E sid \in Sid \ {0} : \E s \in FindSid(sid) :
        /\ vf_ss_update(heap[s].vip, heap[s].sid, src)
        /\ UNCHANGED <<poolVars, granted, lost>>

\* VPN_DPD_RESPONSE; the packet decrypts only under a session's key.
DpdResponse(src) ==
    \E sid \in Sid \ {0} :
        /\ FindSid(sid) # {}
        /\ vf_ss_update_by_sid(sid, src)
        /\ UNCHANGED <<poolVars, granted, lost>>

-----------------------------------------------------------------------------
\* vfast_server_maintenance.

Linked == UNION {ip_table[sh] : sh \in Shards}
Expired == {o \in Linked : heap[o].idle >= ProbeIdle}

\* The walk ends one shard early.
MutGetExpired(batch) ==
    batch = {o \in Expired : \E sh \in Shards : ShardOf[heap[o].vip] < sh}

\* vf_ss_get_expired walks the shards in order and stops at MaxBatch.
vf_ss_get_expired(batch) ==
    /\ batch \subseteq Expired
    /\ Cardinality(batch) <= MaxBatch
    /\ batch # Expired => Cardinality(batch) = MaxBatch
    /\ \A o \in batch, p \in Expired \ batch :
        ShardOf[heap[o].vip] <= ShardOf[heap[p].vip]

\* Sessions that should be probed are reclaimed, and keep their entry.
MutMaintenance ==
    \E batch \in SUBSET Expired :
        LET dead == {heap[o].vip : o \in {b \in batch : heap[b].idle >= DeadIdle}}
        IN  /\ vf_ss_get_expired(batch)
            /\ FreeEach({heap[o].vip : o \in batch})
            /\ DeleteEach(dead)
            /\ granted' = {g \in granted : g[1] \notin dead}
            /\ UNCHANGED lost

\* The dead sessions of the batch are deleted and their addresses freed; the
\* others are sent a probe, which changes no session.
Maintenance ==
    \E batch \in SUBSET Expired :
        LET dead == {heap[o].vip : o \in {b \in batch : heap[b].idle >= DeadIdle}}
        IN  /\ vf_ss_get_expired(batch)
            /\ DeleteEach(dead)
            /\ FreeEach(dead)
            /\ granted' = {g \in granted : g[1] \notin dead}
            /\ UNCHANGED lost

\* Time passes for every session.
Tick ==
    /\ heap' = [o \in Obj |->
                  IF o \in live /\ heap[o].idle < MaxIdle
                  THEN [heap[o] EXCEPT !.idle = @ + 1] ELSE heap[o]]
    /\ UNCHANGED <<live, ip_table, sid_table, poolVars, granted, lost>>

-----------------------------------------------------------------------------
Auth == (\E src \in Addr : AuthAccepted(src)) \/ AuthLoginFailed \/ AuthPoolEmpty
Heartbeat == \E src \in Addr : KeepAlive(src) \/ DpdResponse(src)
ServerNext == Auth \/ Heartbeat \/ Maintenance \/ Tick

ServerSpec == ServerInit /\ [][ServerNext]_serverVars

\* The clock runs and the event loop keeps calling its timer.
ServerFairSpec == ServerSpec /\ WF_serverVars(Tick) /\ WF_serverVars(Maintenance)

-----------------------------------------------------------------------------
ServerTypeOK ==
    /\ bitmap \subseteq Pos /\ next_hint \in Pos /\ open = TRUE
    /\ TableTypeOK
    /\ granted \subseteq Vip \X Sid
    /\ lost \subseteq Vip

SessionVips == {heap[o].vip : o \in live}

(* The bitmap accounts for every address: beside the reserved positions it *)
(* marks exactly the addresses of the sessions and those lost to failed    *)
(* logins, and these are different addresses.  So no address is free while *)
(* a session uses it, whatever path created or removed the session.        *)
PoolMatchesSessions ==
    /\ bitmap = Reserved \cup {PosOf(ip) : ip \in SessionVips \cup lost}
    /\ SessionVips \cap lost = {}

(* What the AUTH_ACKs promised still holds: no address was given to two    *)
(* clients, and both lookup paths of the data plane (the id of a UDP       *)
(* packet, the destination of a TUN packet) find the one session that was  *)
(* announced to the client.                                                *)
GrantsResolve ==
    \A g \in granted :
        /\ \A h \in granted : h[1] = g[1] => h = g
        /\ \E o \in live :
            /\ heap[o].vip = g[1] /\ heap[o].sid = g[2]
            /\ FindIp(g[1]) = {o}
            /\ FindSid(g[2]) = {o}

Silent(ip) == \E o \in live : heap[o].vip = ip /\ heap[o].idle > 0

(* A client that falls silent is forgotten: unless it is refreshed again,  *)
(* its session is removed (and, by PoolMatchesSessions, its address can be *)
(* assigned anew).  The premise is needed: while more sessions are due     *)
(* than expired_list holds, those of the first shards can fill it on every *)
(* round.                                                                  *)
SilentReclaimed ==
    <>[](Cardinality(Expired) <= MaxBatch) =>
        \A ip \in Vip : Silent(ip) ~> ~Silent(ip)

(* An address that no session uses is available for other clients          *)
(* (session.c:275 "Return the virtual IP to the pool for reuse by other    *)
(* clients"; vfast_handle_auth returns it on its error path).              *)
NoAddressLost == bitmap = Reserved \cup {PosOf(ip) : ip \in SessionVips}
=============================================================================
