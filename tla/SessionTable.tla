---------------------------- MODULE SessionTable ----------------------------
(***************************************************************************)
(* The server's session table (session.c): session objects on the heap,    *)
(* linked into two hash indexes, by virtual address and by session id,     *)
(* that are split into shards with one read-write lock each.  Every        *)
(* operation below holds the lock of the one shard it touches, so it is    *)
(* one step.  This module holds the state and the operations;              *)
(* SessionSpec adds the threads, VpnServer composes it.                    *)
(***************************************************************************)
EXTENDS Integers, FiniteSets

CONSTANTS
    Vip,            \* virtual addresses
    Sid,            \* session ids, 0 ("no session") among them
    Addr,           \* physical client addresses
    Shards,         \* 0 .. VPN_SESSION_SHARD_COUNT - 1
    ShardOf,        \* vpn_get_shard_idx, see SidAlign
    Obj,            \* heap cells a session may occupy
    MaxIdle,        \* bound on the idle time that is told apart
    RandomIsFresh   \* the random bits never repeat a live id nor give 0

ASSUME SessionAssumption ==
    /\ ShardOf \in [Vip \cup Sid -> Shards]
    /\ Vip # {} /\ Sid # {} /\ Addr # {}
    /\ MaxIdle \in Nat
    /\ RandomIsFresh \in BOOLEAN

VARIABLES
    live,           \* allocated cells
    heap,           \* contents of the cells; a freed cell keeps its bytes
    ip_table,       \* per shard: the cells linked in the address index
    sid_table       \* per shard: the cells linked in the session-id index

tableVars == <<live, heap, ip_table, sid_table>>

Session == [vip : Vip, sid : Sid, addr : Addr, idle : 0 .. MaxIdle]

TableInit ==
    /\ live = {}
    /\ heap = [o \in Obj |-> CHOOSE s \in Session : TRUE]
    /\ ip_table = [sh \in Shards |-> {}]
    /\ sid_table = [sh \in Shards |-> {}]

\* HASH_FIND in the two indexes: the cells a lookup may return.
FindIp(vip) == {o \in ip_table[ShardOf[vip]] : heap[o].vip = vip}
FindSid(sid) == {o \in sid_table[ShardOf[sid]] : heap[o].sid = sid}

\* The ids vf_ss_generate_sid may return for a virtual address.
vf_ss_generate_sid(vip) ==
    {sid \in Sid :
        /\ ShardOf[sid] = ShardOf[vip]
        /\ RandomIsFresh => sid # 0 /\ \A o \in live : heap[o].sid # sid}

\* The lookup by address is skipped.
MutUpdate(vip, sid, addr) ==
    \E o \in Obj \ live :
        /\ live' = live \cup {o}
        /\ heap' = [heap EXCEPT ![o] = [vip |-> vip, sid |-> sid,
                                        addr |-> addr, idle |-> 0]]
        /\ ip_table' = [ip_table EXCEPT ![ShardOf[vip]] = @ \cup {o}]
        /\ sid_table' = [sid_table EXCEPT ![ShardOf[vip]] = @ \cup {o}]

\* A lookup that misses adds a session; one that hits renames it in place.
vf_ss_update(vip, sid, addr) ==
    \/ \E o \in Obj \ live :
        /\ FindIp(vip) = {}
        /\ live' = live \cup {o}
        /\ heap' = [heap EXCEPT ![o] = [vip |-> vip, sid |-> sid,
                                        addr |-> addr, idle |-> 0]]
        /\ ip_table' = [ip_table EXCEPT ![ShardOf[vip]] = @ \cup {o}]
        /\ sid_table' = [sid_table EXCEPT ![ShardOf[vip]] = @ \cup {o}]
    \/ \E o \in FindIp(vip) :
        /\ heap' = [heap EXCEPT ![o] = [vip |-> vip, sid |-> sid,
                                        addr |-> addr, idle |-> 0]]
        /\ UNCHANGED <<live, ip_table, sid_table>>

vf_ss_update_by_sid(sid, addr) ==
    \E o \in FindSid(sid) :
        /\ heap' = [heap EXCEPT ![o].addr = addr, ![o].idle = 0]
        /\ UNCHANGED <<live, ip_table, sid_table>>

\* The session-id index is forgotten when a session is removed.
MutDeleteEach(vips) ==
    LET gone == UNION {FindIp(vip) : vip \in vips}
    IN  /\ live' = live \ gone
        /\ ip_table' = [sh \in Shards |-> ip_table[sh] \ gone]
        /\ UNCHANGED <<heap, sid_table>>

\* vf_ss_delete called on each address of vips.
DeleteEach(vips) ==
    LET gone == UNION {FindIp(vip) : vip \in vips}
    IN  /\ live' = live \ gone
        /\ ip_table' = [sh \in Shards |-> ip_table[sh] \ gone]
        /\ sid_table' = [sh \in Shards |-> sid_table[sh] \ gone]
        /\ UNCHANGED heap

vf_ss_delete(vip) == DeleteEach({vip})

-----------------------------------------------------------------------------
TableTypeOK ==
    /\ live \subseteq Obj
    /\ heap \in [Obj -> Session]
    /\ ip_table \in [Shards -> SUBSET Obj]
    /\ sid_table \in [Shards -> SUBSET Obj]

(* The two indexes describe the same sessions: a cell is linked in the     *)
(* address index of a shard exactly when it is linked in the session-id    *)
(* index of that shard, both its keys hash to that shard (so both lookup   *)
(* paths take the same lock), every linked cell is allocated, every        *)
(* allocated cell is linked, and no two sessions share a virtual address.  *)
IndexesAgree ==
    /\ \A sh \in Shards :
        /\ ip_table[sh] = sid_table[sh]
        /\ \A o \in ip_table[sh] :
            /\ o \in live
            /\ ShardOf[heap[o].vip] = sh
            /\ ShardOf[heap[o].sid] = sh
    /\ \A o \in live : \E sh \in Shards : o \in ip_table[sh]
    /\ \A o, p \in live : heap[o].vip = heap[p].vip => o = p
=============================================================================
