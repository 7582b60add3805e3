---------------------------- MODULE SessionSpec -----------------------------
(***************************************************************************)
(* The session table under its two threads.  The I/O thread creates,       *)
(* refreshes and deletes sessions and, at shutdown, destroys the shards    *)
(* one after the other.  The management thread serves GET show <sid>       *)
(* (cmd_get_session_bysid) and GET session (vf_ss_get_total_count).        *)
(***************************************************************************)
EXTENDS SessionTable

CONSTANTS
    ShardCount,     \* VPN_SESSION_SHARD_COUNT
    MaxAdded        \* bound on the sessions that exist during one count

ASSUME ShardCountAssumption == ShardCount \in Nat \ {0} /\ Shards = 0 .. ShardCount - 1

VARIABLES
    locks,          \* shards whose rwlock is initialised
    cmd,            \* management thread: "ready", "show", "count", "counted", "stopped"
    ptr,            \* the session pointer it holds, as a set of at most one cell
    shard,          \* the next shard it counts
    total,          \* total_count
    kept,           \* cells that have been live ever since the count began
    added           \* live cells when it began, plus those created since

cmdVars == <<cmd, ptr, shard, total, kept, added>>
threadsVars == <<tableVars, locks, cmdVars>>

ThreadsInit ==
    /\ TableInit
    /\ locks = Shards
    /\ cmd = "ready"
    /\ ptr = {} /\ shard = 0 /\ total = 0
    /\ kept = {} /\ added = 0

Running == locks = Shards
Counting == cmd = "count"

-----------------------------------------------------------------------------
\* The I/O thread.

Create ==
    \E vip \in Vip, addr \in Addr : \E sid \in vf_ss_generate_sid(vip) :
        /\ Running
        /\ added < MaxAdded
        /\ vf_ss_update(vip, sid, addr)
        /\ added' = IF Counting THEN added + Cardinality(live' \ live) ELSE added
        /\ UNCHANGED <<locks, cmd, ptr, shard, total, kept>>

Refresh ==
    \E sid \in Sid, addr \in Addr :
        /\ Running
        /\ vf_ss_update_by_sid(sid, addr)
        /\ UNCHANGED <<locks, cmdVars>>

Delete ==
    \E vip \in Vip :
        /\ Running
        /\ vf_ss_delete(vip)
        /\ kept' = kept \cap live'
        /\ UNCHANGED <<locks, cmd, ptr, shard, total, added>>

\* vf_ss_destroy: the loop body for shard sh, after the event loop has ended.
DestroyShard ==
    \E sh \in locks :
        /\ \A earlier \in locks : sh <= earlier
        /\ live' = live \ ip_table[sh]
        /\ ip_table' = [ip_table EXCEPT ![sh] = {}]
        /\ sid_table' = [sid_table EXCEPT ![sh] = {}]
        /\ locks' = locks \ {sh}
        /\ kept' = kept \cap live'
        /\ UNCHANGED <<heap, cmd, ptr, shard, total, added>>

\* cmd_server_stop, called when every shard is gone, joins the thread.
StopManagement ==
    /\ locks = {}
    /\ cmd = "ready"
    /\ cmd' = "stopped"
    /\ UNCHANGED <<tableVars, locks, ptr, shard, total, kept, added>>

-----------------------------------------------------------------------------
\* The management thread.

\* GET show: the lookup holds the shard's lock, the pointer outlives it.
ShowLookup ==
    \E sid \in Sid :
        /\ cmd = "ready"
        /\ \E o \in FindSid(sid) : ptr' = {o}
        /\ cmd' = "show"
        /\ UNCHANGED <<tableVars, locks, shard, total, kept, added>>

\* The reply is formatted from *s after the lock was released.
ShowRead ==
    /\ cmd = "show"
    /\ cmd' = "ready"
    /\ ptr' = {}
    /\ UNCHANGED <<tableVars, locks, shard, total, kept, added>>

CountStart ==
    /\ cmd = "ready"
    /\ cmd' = "count"
    /\ shard' = 0 /\ total' = 0
    /\ kept' = live /\ added' = Cardinality(live)
    /\ UNCHANGED <<tableVars, locks, ptr>>

\* The loop ends one shard early.
MutCountShard ==
    /\ Counting
    /\ total' = total + Cardinality(ip_table[shard])
    /\ shard' = shard + 1
    /\ cmd' = IF shard + 1 >= ShardCount - 1 THEN "counted" ELSE "count"
    /\ UNCHANGED <<tableVars, locks, ptr, kept, added>>

\* A lock that vf_ss_destroy has destroyed can still be taken (glibc leaves it
\* unlocked); the table behind it is empty.
CountShard ==
    /\ Counting
    /\ total' = total + Cardinality(ip_table[shard])
    /\ shard' = shard + 1
    /\ cmd' = IF shard + 1 = ShardCount THEN "counted" ELSE "count"
    /\ UNCHANGED <<tableVars, locks, ptr, kept, added>>

CountReply ==
    /\ cmd = "counted"
    /\ cmd' = "ready"
    /\ total' = 0 /\ kept' = {} /\ added' = 0 /\ shard' = 0
    /\ UNCHANGED <<tableVars, locks, ptr>>

-----------------------------------------------------------------------------
Manage == ShowLookup \/ ShowRead \/ CountStart \/ CountShard \/ CountReply
vfast_clean_server == DestroyShard \/ StopManagement
ThreadsNext == Create \/ Refresh \/ Delete \/ Manage \/ vfast_clean_server
ThreadsSpec == ThreadsInit /\ [][ThreadsNext]_threadsVars

-----------------------------------------------------------------------------
TypeOK ==
    /\ TableTypeOK
    /\ locks \subseteq Shards
    /\ cmd \in {"ready", "show", "count", "counted", "stopped"}
    /\ ptr \subseteq Obj /\ shard \in 0 .. ShardCount /\ total \in Nat
    /\ kept \subseteq Obj /\ added \in Nat

(* vf_ss_get_total_count locks the shards one at a time while the I/O      *)
(* thread goes on working.  Its answer still lies between the number of    *)
(* sessions that lived through the whole scan and the number that existed  *)
(* at any moment of it.                                                    *)
CountPlausible ==
    /\ TypeOK
    /\ cmd = "counted" => Cardinality(kept) <= total /\ total <= added

(* A session is released only "after all references are removed"           *)
(* (session.c:220): the pointer from which GET show formats its reply      *)
(* still refers to an allocated session.                                   *)
NoDanglingReference == ptr \subseteq live
=============================================================================
