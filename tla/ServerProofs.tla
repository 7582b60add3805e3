---------------------------- MODULE ServerProofs ----------------------------
(***************************************************************************)
(* Proofs about the server: its two data structures and the handlers that  *)
(* work on both.                                                           *)
(*                                                                         *)
(* First, what the data structures guarantee their callers: the arithmetic *)
(* of positions and addresses of the pool and its scan, and what the       *)
(* operations of the session table preserve, for every range and pool      *)
(* size, set of addresses and ids, and shard function.                     *)
(*                                                                         *)
(* Then the pool under its callers (IpPoolSpec): the bitmap accounts       *)
(* exactly for the addresses held, and the pool implements                 *)
(* AddressAllocator.                                                       *)
(*                                                                         *)
(* Then the table under the I/O thread, the management thread and shutdown *)
(* (SessionSpec), for any number of shards.  A count in progress has seen  *)
(* the shards below "shard".  Of the sessions that live through it, those  *)
(* behind are in the total already; of those that existed during it, the   *)
(* ones ahead are still to come.                                           *)
(*                                                                         *)
(* Last, the control plane (VpnServer) for every pool, every number of     *)
(* shards, every shard function and every set of clients.  Base relates    *)
(* the pool to the table and needs nothing of the random ids; Promises     *)
(* relates the AUTH_ACKs sent to the table and needs fresh ids.            *)
(***************************************************************************)
EXTENDS VpnServer, IpPoolSpec, SessionIds, FiniteSetTheorems, TLAPS

-----------------------------------------------------------------------------
\* Arithmetic.

(* A number below the modulus is its own remainder.                        *)
LEMMA SmallMod ==
    ASSUME NEW m \in Nat \ {0}, NEW x \in 0 .. m - 1
    PROVE  x % m = x
  OBVIOUS

(* One turn around the modulus changes no remainder.                       *)
LEMMA TurnMod ==
    ASSUME NEW m \in Nat \ {0}, NEW x \in 0 .. m - 1
    PROVE  (x + m) % m = x
  OBVIOUS

(* A remainder lies below the modulus.                                     *)
LEMMA ModRange ==
    ASSUME NEW m \in Nat \ {0}, NEW x \in Nat
    PROVE  x % m \in 0 .. m - 1
  OBVIOUS

-----------------------------------------------------------------------------
\* Positions and addresses.

(* Below the top of the address space positions and addresses correspond   *)
(* one to one, and vf_ip_pool_free accepts each address of the range.      *)
LEMMA IpOfPos ==
    ASSUME NEW pos \in Pos
    PROVE  /\ IpOf(pos) = StartIp + pos
           /\ IpOf(pos) \in Nat
           /\ PosOf(IpOf(pos)) = pos
           /\ InRange(IpOf(pos))
<1>1. /\ StartIp \in Nat /\ PoolSize \in Nat \ {0} /\ IpMod \in Nat \ {0}
      /\ StartIp + PoolSize \in 0 .. IpMod - 1
  BY PoolAssumption
<1>2. StartIp + pos \in 0 .. IpMod - 1
  BY <1>1 DEF Pos
<1>3. (StartIp + pos) % IpMod = StartIp + pos
  BY <1>1, <1>2, SmallMod, Zenon
<1>4. (StartIp + PoolSize) % IpMod = StartIp + PoolSize
  BY <1>1, SmallMod, Zenon
<1> QED
  BY <1>1, <1>2, <1>3, <1>4 DEF IpOf, PosOf, InRange, Pos

(* The address 0, the "no address" result, ends in a reserved byte and is  *)
(* therefore never assignable.                                             *)
LEMMA NoIpNotAssignable == NoIp \notin Assignable
<1> SUFFICES ASSUME NEW pos \in Pos \ Reserved, IpOf(pos) = 0
             PROVE  FALSE
  BY Zenon DEF Assignable, NoIp
<1>1. 0 % LastByteMod = 0
  BY PoolAssumption, SmallMod
<1> QED
  BY <1>1, Zenon DEF Reserved, LastByte

(* An assignable address has an unreserved position, which determines it.  *)
LEMMA AssignablePos ==
    ASSUME NEW ip \in Assignable
    PROVE  /\ ip \in Nat
           /\ PosOf(ip) \in Pos \ Reserved
           /\ IpOf(PosOf(ip)) = ip
           /\ InRange(ip)
           /\ ip # NoIp
<1>1. PICK pos \in Pos \ Reserved : ip = IpOf(pos)
  BY Zenon DEF Assignable
<1> QED
  BY <1>1, IpOfPos, NoIpNotAssignable, Zenon

-----------------------------------------------------------------------------
\* The scan.

(* Starting anywhere, PoolSize probes look at every position: the scan of  *)
(* vf_ip_pool_alloc misses none although it wraps around.                  *)
LEMMA ProbesCover ==
    ASSUME next_hint \in Pos, NEW pos \in Pos
    PROVE  \E i \in Pos : Probe(i) = pos
<1>1. next_hint \in Nat /\ pos \in Nat /\ PoolSize \in Nat \ {0}
  BY PoolAssumption DEF Pos
<1>2. CASE pos >= next_hint
  <2>1. pos - next_hint \in Pos /\ next_hint + (pos - next_hint) = pos
    BY <1>1, <1>2 DEF Pos
  <2>2. pos % PoolSize = pos
    BY <1>1, SmallMod, Zenon DEF Pos
  <2> QED
    BY <2>1, <2>2, Zenon DEF Probe
<1>3. CASE pos < next_hint
  <2>1. /\ pos + PoolSize - next_hint \in Pos
        /\ next_hint + (pos + PoolSize - next_hint) = pos + PoolSize
    BY <1>1, <1>3 DEF Pos
  <2>2. (pos + PoolSize) % PoolSize = pos
    BY <1>1, TurnMod, Zenon DEF Pos
  <2> QED
    BY <2>1, <2>2, Zenon DEF Probe
<1> QED
  BY <1>1, <1>2, <1>3

(* A scan that fails has seen every bit set.                               *)
LEMMA ScanFailsFull ==
    ASSUME next_hint \in Pos, open, ScanFails
    PROVE  Pos \subseteq bitmap
<1> SUFFICES ASSUME NEW pos \in Pos
             PROVE  pos \in bitmap
  OBVIOUS
<1>1. PICK i \in Pos : Probe(i) = pos
  BY ProbesCover, Zenon
<1> QED
  BY <1>1, Zenon DEF ScanFails

(* The hint stays within the bitmap.                                       *)
LEMMA HintInPos ==
    ASSUME NEW pos \in Pos
    PROVE  HintAfter(pos) \in Pos
  BY PoolAssumption, ModRange DEF HintAfter, Pos

-----------------------------------------------------------------------------
\* The session table.


(* A lookup by address returns the allocated cells with that address.      *)
LEMMA FindIpLive ==
    ASSUME IndexesAgree, NEW vip \in Vip
    PROVE  FindIp(vip) = {o \in live : heap[o].vip = vip}
<1>1. ShardOf[vip] \in Shards
  BY SessionAssumption, Zenon
<1>2. ASSUME NEW o \in FindIp(vip)
      PROVE  o \in live /\ heap[o].vip = vip
  BY <1>1, Zenon DEF FindIp, IndexesAgree
<1>3. ASSUME NEW o \in live, heap[o].vip = vip
      PROVE  o \in FindIp(vip)
  BY <1>3, Zenon DEF FindIp, IndexesAgree
<1> QED
  BY <1>2, <1>3, Zenon

(* A lookup by session id returns the allocated cells with that id.        *)
LEMMA FindSidLive ==
    ASSUME IndexesAgree, NEW sid \in Sid
    PROVE  FindSid(sid) = {o \in live : heap[o].sid = sid}
<1>1. ShardOf[sid] \in Shards
  BY SessionAssumption, Zenon
<1>2. ASSUME NEW o \in FindSid(sid)
      PROVE  o \in live /\ heap[o].sid = sid
  BY <1>1, Zenon DEF FindSid, IndexesAgree
<1>3. ASSUME NEW o \in live, heap[o].sid = sid
      PROVE  o \in FindSid(sid)
  BY <1>3 DEF FindSid, IndexesAgree
<1> QED
  BY <1>2, <1>3, Zenon

-----------------------------------------------------------------------------
\* A table in order, and its cells of a shard.

TableInv == TableTypeOK /\ IndexesAgree /\ IsFiniteSet(live)

VipsKept == \A o \in live : heap'[o].vip = heap[o].vip

(* In a table in order, a shard links exactly its own allocated cells.     *)
LEMMA ShardCells ==
    ASSUME IndexesAgree, NEW sh \in Shards
    PROVE  /\ ip_table[sh] = {o \in live : ShardOf[heap[o].vip] = sh}
           /\ sid_table[sh] = ip_table[sh]
<1>1. \A o \in ip_table[sh] : o \in live /\ ShardOf[heap[o].vip] = sh
  BY Zenon DEF IndexesAgree
<1>2. ASSUME NEW o \in live, ShardOf[heap[o].vip] = sh
      PROVE  o \in ip_table[sh]
  <2>1. PICK s \in Shards : o \in ip_table[s]
    BY Zenon DEF IndexesAgree
  <2>2. ShardOf[heap[o].vip] = s
    BY <2>1, Zenon DEF IndexesAgree
  <2> QED BY <1>2, <2>1, <2>2, Zenon
<1>3. sid_table[sh] = ip_table[sh]
  BY Zenon DEF IndexesAgree
<1> QED BY <1>1, <1>2, <1>3, Zenon

(* vf_ss_update with an id of the shard of its address adds at most one    *)
(* cell, moves no session to another address, and keeps the table in order.*)
LEMMA UpdateTable ==
    ASSUME TableInv, NEW vip \in Vip, NEW sid \in vf_ss_generate_sid(vip),
           NEW addr \in Addr, vf_ss_update(vip, sid, addr)
    PROVE  /\ TableInv' /\ VipsKept
           /\ live' = live \/ \E o \in Obj \ live : live' = live \cup {o}
<1> DEFINE new == [vip |-> vip, sid |-> sid, addr |-> addr, idle |-> 0]
           sh == ShardOf[vip]
<1>1. sid \in Sid /\ ShardOf[sid] = sh /\ sh \in Shards
  BY SessionAssumption, Zenon DEF vf_ss_generate_sid
<1>2. new \in Session /\ new.vip = vip /\ new.sid = sid
  BY <1>1, SessionAssumption DEF Session
<1>3. /\ live \subseteq Obj /\ heap \in [Obj -> Session]
      /\ ip_table \in [Shards -> SUBSET Obj] /\ sid_table \in [Shards -> SUBSET Obj]
  BY Zenon DEF TableInv, TableTypeOK
<1>4. FindIp(vip) = {o \in live : heap[o].vip = vip}
  BY FindIpLive, Zenon DEF TableInv
<1> HIDE DEF new, sh
<1>5. ASSUME NEW o \in Obj \ live, FindIp(vip) = {},
             live' = live \cup {o}, heap' = [heap EXCEPT ![o] = new],
             ip_table' = [ip_table EXCEPT ![sh] = @ \cup {o}],
             sid_table' = [sid_table EXCEPT ![sh] = @ \cup {o}]
      PROVE  TableInv' /\ VipsKept
  <2>1. TableTypeOK'
    BY <1>1, <1>2, <1>3, <1>5, Zenon DEF TableTypeOK
  <2>2. heap'[o] = new /\ \A p \in live : p # o /\ heap'[p] = heap[p]
    BY <1>3, <1>5, Zenon
  <2>3. /\ ip_table'[sh] = ip_table[sh] \cup {o}
        /\ sid_table'[sh] = sid_table[sh] \cup {o}
        /\ \A t \in Shards \ {sh} : ip_table'[t] = ip_table[t] /\ sid_table'[t] = sid_table[t]
    BY <1>1, <1>3, <1>5, Zenon
  <2>4. ASSUME NEW t \in Shards
        PROVE  /\ ip_table'[t] = sid_table'[t]
               /\ \A p \in ip_table'[t] : /\ p \in live'
                                          /\ ShardOf[heap'[p].vip] = t
                                          /\ ShardOf[heap'[p].sid] = t
    <3>1. /\ ip_table[t] = sid_table[t]
          /\ \A p \in ip_table[t] : /\ p \in live
                                    /\ ShardOf[heap'[p].vip] = t
                                    /\ ShardOf[heap'[p].sid] = t
      BY <2>2 DEF TableInv, IndexesAgree
    <3>2. CASE t = sh
      <4>1. ShardOf[heap'[o].vip] = t /\ ShardOf[heap'[o].sid] = t
        BY <1>1, <1>2, <2>2, <3>2, Zenon DEF sh
      <4>2. ip_table'[t] = ip_table[t] \cup {o} /\ sid_table'[t] = sid_table[t] \cup {o}
        BY <2>3, <3>2, Zenon
      <4> QED BY <1>5, <3>1, <4>1, <4>2, Zenon
    <3>3. CASE t # sh
      BY <1>5, <2>3, <3>1, <3>3, Zenon
    <3> QED BY <3>2, <3>3, Zenon
  <2>5. ASSUME NEW p \in live' PROVE \E t \in Shards : p \in ip_table'[t]
    <3>1. CASE p = o
      BY <1>1, <2>3, <3>1, Zenon
    <3>2. CASE p \in live
      BY <2>3, <3>2 DEF TableInv, IndexesAgree
    <3> QED BY <1>5, <3>1, <3>2, Zenon
  <2>6. ASSUME NEW p \in live', NEW q \in live', heap'[p].vip = heap'[q].vip
        PROVE  p = q
    <3>1. \A r \in live : heap'[r].vip # vip
      BY <1>4, <1>5, <2>2, Zenon
    <3>2. heap'[o].vip = vip
      BY <1>2, <2>2, Zenon
    <3>3. CASE p \in live /\ q \in live
      BY <2>2, <2>6, <3>3 DEF TableInv, IndexesAgree
    <3> QED BY <1>5, <2>6, <3>1, <3>2, <3>3, Zenon
  <2>7. IndexesAgree'
    BY <2>4, <2>5, <2>6, Zenon DEF IndexesAgree
  <2>8. IsFiniteSet(live')
    BY <1>5, FS_AddElement, Zenon DEF TableInv
  <2> QED BY <2>1, <2>2, <2>7, <2>8, Zenon DEF TableInv, VipsKept
<1>6. ASSUME NEW o \in FindIp(vip), heap' = [heap EXCEPT ![o] = new],
             UNCHANGED <<live, ip_table, sid_table>>
      PROVE  TableInv' /\ VipsKept
  <2>1. o \in live /\ heap[o].vip = vip
    BY <1>4, <1>6, Zenon
  <2>2. heap' \in [Obj -> Session]
    BY <1>2, <1>3, <1>6, <2>1, Zenon
  <2>3. heap'[o] = new /\ \A p \in live \ {o} : heap'[p] = heap[p]
    BY <1>3, <1>6, <2>1, Zenon
  <2>4. VipsKept
    BY <1>2, <2>1, <2>3, Zenon DEF VipsKept
  <2>5. \A t \in Shards : \A p \in ip_table[t] : ShardOf[heap'[p].sid] = t
    <3> TAKE t \in Shards
    <3> TAKE p \in ip_table[t]
    <3>1. p \in live /\ ShardOf[heap[p].vip] = t /\ ShardOf[heap[p].sid] = t
      BY Zenon DEF TableInv, IndexesAgree
    <3>2. CASE p = o
      BY <1>1, <1>2, <2>1, <2>3, <3>1, <3>2, Zenon DEF sh
    <3>3. CASE p # o
      BY <2>3, <3>1, <3>3, Zenon
    <3> QED BY <3>2, <3>3, Zenon
  <2>6. IndexesAgree'
    BY <1>6, <2>4, <2>5 DEF TableInv, IndexesAgree, VipsKept
  <2> QED BY <1>6, <2>2, <2>4, <2>6, Zenon DEF TableInv, TableTypeOK
<1>7. \/ \E o \in Obj \ live :
            /\ FindIp(vip) = {}
            /\ live' = live \cup {o}
            /\ heap' = [heap EXCEPT ![o] = new]
            /\ ip_table' = [ip_table EXCEPT ![sh] = @ \cup {o}]
            /\ sid_table' = [sid_table EXCEPT ![sh] = @ \cup {o}]
      \/ \E o \in FindIp(vip) :
            /\ heap' = [heap EXCEPT ![o] = new]
            /\ UNCHANGED <<live, ip_table, sid_table>>
  BY Zenon DEF vf_ss_update, new, sh
<1> QED BY <1>5, <1>6, <1>7, Zenon

(* vf_ss_update_by_sid changes neither key of a session.                   *)
LEMMA RefreshTable ==
    ASSUME TableInv, NEW sid \in Sid, NEW addr \in Addr, vf_ss_update_by_sid(sid, addr)
    PROVE  TableInv' /\ VipsKept /\ live' = live
<1>1. PICK o \in FindSid(sid) :
        /\ heap' = [heap EXCEPT ![o].addr = addr, ![o].idle = 0]
        /\ UNCHANGED <<live, ip_table, sid_table>>
  BY Zenon DEF vf_ss_update_by_sid
<1>2. heap \in [Obj -> Session] /\ live \subseteq Obj
  BY Zenon DEF TableInv, TableTypeOK
<1>3. o \in live /\ o \in Obj
  BY <1>1, <1>2, FindSidLive, Zenon DEF TableInv
<1> DEFINE new == [[heap[o] EXCEPT !.addr = addr] EXCEPT !.idle = 0]
<1>4. new \in Session /\ new.vip = heap[o].vip /\ new.sid = heap[o].sid
  <2>1. heap[o] \in Session /\ 0 \in 0 .. MaxIdle
    BY <1>2, <1>3, SessionAssumption
  <2>2. /\ [heap[o] EXCEPT !.addr = addr] \in Session
        /\ [heap[o] EXCEPT !.addr = addr].vip = heap[o].vip
        /\ [heap[o] EXCEPT !.addr = addr].sid = heap[o].sid
    BY <2>1, Zenon DEF Session
  <2> QED BY <2>1, <2>2, Zenon DEF Session
<1>5. heap' = [heap EXCEPT ![o] = new]
  BY <1>1, <1>2, <1>3, Zenon
<1> HIDE DEF new
<1>6. /\ heap' \in [Obj -> Session]
      /\ \A p \in live : heap'[p].vip = heap[p].vip /\ heap'[p].sid = heap[p].sid
  BY <1>2, <1>3, <1>4, <1>5, Zenon
<1>7. IndexesAgree'
  <2>1. \A sh \in Shards :
          /\ ip_table[sh] = sid_table[sh]
          /\ \A p \in ip_table[sh] : /\ p \in live
                                     /\ ShardOf[heap'[p].vip] = sh
                                     /\ ShardOf[heap'[p].sid] = sh
    BY <1>6 DEF TableInv, IndexesAgree
  <2>2. \A p \in live : \E sh \in Shards : p \in ip_table[sh]
    BY Zenon DEF TableInv, IndexesAgree
  <2>3. \A p, q \in live : heap'[p].vip = heap'[q].vip => p = q
    BY <1>6 DEF TableInv, IndexesAgree
  <2> QED BY <1>1, <2>1, <2>2, <2>3, ZenonT(30) DEF IndexesAgree
<1> QED BY <1>1, <1>6, <1>7, Zenon DEF TableInv, TableTypeOK, VipsKept

(* Whatever set of cells is unlinked from both indexes and freed, the      *)
(* table stays in order: what vf_ss_delete and vf_ss_destroy do.           *)
LEMMA UnlinkTable ==
    ASSUME TableInv, NEW gone,
           live' = live \ gone, heap' = heap,
           ip_table' = [sh \in Shards |-> ip_table[sh] \ gone],
           sid_table' = [sh \in Shards |-> sid_table[sh] \ gone]
    PROVE  TableInv'
<1>1. TableTypeOK'
  BY Zenon DEF TableInv, TableTypeOK
<1>2. \A sh \in Shards : /\ ip_table'[sh] = ip_table[sh] \ gone
                        /\ sid_table'[sh] = sid_table[sh] \ gone
  OBVIOUS
<1>3. IndexesAgree'
  <2>1. \A sh \in Shards :
          /\ ip_table'[sh] = sid_table'[sh]
          /\ \A o \in ip_table'[sh] : /\ o \in live'
                                      /\ ShardOf[heap'[o].vip] = sh
                                      /\ ShardOf[heap'[o].sid] = sh
    BY <1>2, Zenon DEF TableInv, IndexesAgree
  <2>2. \A o \in live' : \E sh \in Shards : o \in ip_table'[sh]
    BY <1>2, Zenon DEF TableInv, IndexesAgree
  <2>3. \A o, p \in live' : heap'[o].vip = heap'[p].vip => o = p
    BY Zenon DEF TableInv, IndexesAgree
  <2> QED BY <2>1, <2>2, <2>3, Zenon DEF IndexesAgree
<1>4. IsFiniteSet(live')
  BY FS_Difference, Zenon DEF TableInv
<1> QED BY <1>1, <1>3, <1>4, Zenon DEF TableInv

-----------------------------------------------------------------------------
\* The inductive invariant.

PoolInv == PoolTypeOK /\ ExactAccounting

LEMMA PoolInvInit == CallsInit => PoolInv
<1> SUFFICES ASSUME CallsInit PROVE PoolInv
  OBVIOUS
<1>1. 0 \in Pos
  BY PoolAssumption DEF Pos
<1> QED
  BY <1>1, Zenon DEF CallsInit, PoolInit, PoolInv, PoolTypeOK, ExactAccounting, Reserved, NoIp

(* A successful allocation marks one clear, hence unreserved and unheld,   *)
(* position.                                                               *)
LEMMA ScanStopFacts ==
    ASSUME PoolInv, NEW pos \in Pos, ScanStopsAt(pos)
    PROVE  /\ open
           /\ pos \notin bitmap
           /\ pos \notin Reserved
           /\ IpOf(pos) \in Assignable \ held
<1>1. open /\ pos \notin bitmap
  BY Zenon DEF ScanStopsAt
<1>2. pos \notin Reserved /\ pos \notin {PosOf(ip) : ip \in held}
  BY <1>1, Zenon DEF PoolInv, ExactAccounting
<1>3. IpOf(pos) \in Assignable
  BY <1>2, Zenon DEF Assignable
<1>4. IpOf(pos) \notin held
  BY <1>2, IpOfPos, Zenon
<1> QED
  BY <1>1, <1>2, <1>3, <1>4, Zenon

LEMMA PoolInvStep == PoolInv /\ [CallsNext]_callVars => PoolInv'
<1> SUFFICES ASSUME PoolInv, [CallsNext]_callVars PROVE PoolInv'
  OBVIOUS
<1> USE DEF PoolInv
<1>1. CASE Acquire
  <2>1. PICK ip : /\ vf_ip_pool_alloc(ip) /\ ret' = ip
                  /\ held' = held \cup ({ip} \ {NoIp})
    BY <1>1, Zenon DEF Acquire
  <2>2. ASSUME NEW pos \in Pos, ScanStopsAt(pos), ip = IpOf(pos), open' = open,
               bitmap' = bitmap \cup {pos}, next_hint' = HintAfter(pos)
        PROVE  PoolInv'
    <3>1. open /\ ip \in Assignable \ held
      BY <2>2, ScanStopFacts, Zenon
    <3>2. held' = held \cup {ip} /\ PosOf(ip) = pos
      BY <2>1, <2>2, <3>1, NoIpNotAssignable, IpOfPos, Zenon
    <3>3. PoolTypeOK'
      BY <2>1, <2>2, <3>1, <3>2, HintInPos, Zenon DEF PoolTypeOK
    <3>4. ExactAccounting'
      BY <2>2, <3>1, <3>2, Zenon DEF ExactAccounting
    <3> QED
      BY <3>3, <3>4, Zenon
  <2>3. CASE ScanFails /\ ip = NoIp /\ UNCHANGED <<bitmap, next_hint, open>>
    BY <2>1, <2>3, Zenon DEF PoolTypeOK, ExactAccounting
  <2> QED
    BY <2>1, <2>2, <2>3, Zenon DEF vf_ip_pool_alloc
<1>2. CASE Release
  <2>1. PICK ip \in held : vf_ip_pool_free(ip) /\ held' = held \ {ip} /\ ret' = ret
    BY <1>2, Zenon DEF Release
  <2>2. bitmap' = IF open THEN bitmap \ {PosOf(ip)} ELSE bitmap
    BY <2>1, AssignablePos, Zenon DEF vf_ip_pool_free, FreeEach, PoolTypeOK
  <2>3. PoolTypeOK'
    BY <2>1, <2>2, Zenon DEF vf_ip_pool_free, FreeEach, PoolTypeOK
  <2>4. ASSUME NEW other \in held, PosOf(other) = PosOf(ip)
        PROVE  other = ip
    BY <2>4, <2>1, AssignablePos, Zenon DEF PoolTypeOK
  <2>5. PosOf(ip) \notin Reserved
    BY <2>1, AssignablePos, Zenon DEF PoolTypeOK
  <2>6. ExactAccounting'
    BY <2>1, <2>2, <2>4, <2>5, Zenon DEF vf_ip_pool_free, FreeEach, ExactAccounting
  <2> QED
    BY <2>3, <2>6, Zenon
<1>3. CASE Destroy
  BY <1>3, Zenon DEF Destroy, vf_ip_pool_destroy, PoolTypeOK, ExactAccounting
<1>4. CASE UNCHANGED callVars
  BY <1>4, Zenon DEF callVars, PoolTypeOK, ExactAccounting
<1> QED
  BY <1>1, <1>2, <1>3, <1>4, Zenon DEF CallsNext

LEMMA PoolInvHolds == CallsSpec => []PoolInv
  BY PoolInvInit, PoolInvStep, PTL DEF CallsSpec

(* The bitmap and the hint stay within the pool, and only unreserved       *)
(* addresses of the range are ever given out.                              *)
THEOREM PoolTypeCorrect == CallsSpec => []PoolTypeOK
<1>1. PoolInv => PoolTypeOK
  BY Zenon DEF PoolInv
<1> QED
  BY <1>1, PoolInvHolds, PTL

(* For every range and every interleaving of allocations, releases and     *)
(* destruction, vf_ip_pool_alloc and vf_ip_pool_free neither lose an       *)
(* address nor leave one free that a caller holds.                         *)
THEOREM AccountingExact == CallsSpec => []ExactAccounting
<1>1. PoolInv => ExactAccounting
  BY Zenon DEF PoolInv
<1> QED
  BY <1>1, PoolInvHolds, PTL

-----------------------------------------------------------------------------
\* The pool implements the abstract allocator.

(* Every step of the pool is a step of AddressAllocator.                   *)
LEMMA StepRefines == PoolInv /\ [CallsNext]_callVars => [Abstract!Next]_<<held, ret, open>>
<1> SUFFICES ASSUME PoolInv, [CallsNext]_callVars
             PROVE  [Abstract!Next]_<<held, ret, open>>
  OBVIOUS
<1>1. CASE Acquire
  <2>1. PICK ip : /\ vf_ip_pool_alloc(ip) /\ ret' = ip
                  /\ held' = held \cup ({ip} \ {NoIp})
    BY <1>1, Zenon DEF Acquire
  <2>2. ASSUME NEW pos \in Pos, ScanStopsAt(pos), ip = IpOf(pos), open' = open
        PROVE  Abstract!Grant
    <3>1. open /\ ip \in Assignable \ held
      BY <2>2, ScanStopFacts, Zenon
    <3>2. held' = held \cup {ip}
      BY <2>1, <3>1, NoIpNotAssignable, Zenon
    <3> QED
      BY <2>1, <2>2, <3>1, <3>2, Zenon DEF Abstract!Grant
  <2>3. ASSUME ScanFails, ip = NoIp, open' = open
        PROVE  Abstract!Refuse
    <3>1. held' = held
      BY <2>1, <2>3, Zenon
    <3>2. ASSUME open, NEW a \in Assignable
          PROVE  a \in held
      <4>1. PosOf(a) \in Pos \ Reserved
        BY <3>2, AssignablePos, Zenon
      <4>2. PosOf(a) \in bitmap
        BY <2>3, <3>2, <4>1, ScanFailsFull, Zenon DEF PoolInv, PoolTypeOK
      <4>3. PICK b \in held : PosOf(a) = PosOf(b)
        BY <3>2, <4>1, <4>2, Zenon DEF PoolInv, ExactAccounting
      <4>4. b \in Assignable
        BY <4>3, Zenon DEF PoolInv, PoolTypeOK
      <4> QED
        BY <3>2, <4>3, <4>4, AssignablePos, Zenon
    <3>3. open => held = Assignable
      BY <3>2, Zenon DEF PoolInv, PoolTypeOK
    <3> QED
      BY <2>1, <2>3, <3>1, <3>3, Zenon DEF Abstract!Refuse
  <2> QED
    BY <2>1, <2>2, <2>3, Zenon DEF vf_ip_pool_alloc, Abstract!Next
<1>2. CASE Release
  BY <1>2, Zenon DEF Release, vf_ip_pool_free, FreeEach, Abstract!Next, Abstract!Release
<1>3. CASE Destroy
  BY <1>3, Zenon DEF Destroy, vf_ip_pool_destroy, Abstract!Next, Abstract!Close
<1>4. CASE UNCHANGED callVars
  BY <1>4, Zenon DEF callVars
<1> QED
  BY <1>1, <1>2, <1>3, <1>4, Zenon DEF CallsNext

(* Bitmap, reserved positions, hint and wrap-around implement the plain    *)
(* allocator for every range: vf_ip_pool_alloc gives an address to one     *)
(* holder at a time and returns 0 only when none is left.                  *)
THEOREM Refinement == CallsSpec => RefinesAllocator
<1>1. CallsInit => Abstract!Init
  BY Zenon DEF CallsInit, PoolInit, Abstract!Init
<1> QED
  BY <1>1, PoolInvHolds, StepRefines, PTL DEF CallsSpec, RefinesAllocator, Abstract!Spec

-----------------------------------------------------------------------------
\* The rotating hint.

(* Where the scan looks and where it leaves the hint, without remainders.  *)
LEMMA ProbeAt ==
    ASSUME next_hint \in Pos, NEW i \in Pos
    PROVE  Probe(i) = IF next_hint + i < PoolSize THEN next_hint + i
                      ELSE next_hint + i - PoolSize
<1>1. next_hint \in Nat /\ i \in Nat /\ PoolSize \in Nat \ {0}
  BY PoolAssumption DEF Pos
<1>2. CASE next_hint + i < PoolSize
  <2>1. next_hint + i \in 0 .. PoolSize - 1
    BY <1>1, <1>2
  <2> QED
    BY <1>1, <1>2, <2>1, SmallMod DEF Probe
<1>3. CASE ~(next_hint + i < PoolSize)
  <2>1. /\ next_hint + i - PoolSize \in 0 .. PoolSize - 1
        /\ (next_hint + i - PoolSize) + PoolSize = next_hint + i
    BY <1>1, <1>3 DEF Pos
  <2>2. ((next_hint + i - PoolSize) + PoolSize) % PoolSize = next_hint + i - PoolSize
    BY <1>1, <2>1, TurnMod, Zenon
  <2> QED
    BY <1>3, <2>1, <2>2, Zenon DEF Probe
<1> QED
  BY <1>2, <1>3, Zenon

LEMMA HintAt ==
    ASSUME NEW pos \in Pos
    PROVE  HintAfter(pos) = IF pos + 1 < PoolSize THEN pos + 1 ELSE 0
<1>1. pos \in Nat /\ PoolSize \in Nat \ {0} /\ pos + 1 <= PoolSize
  BY PoolAssumption DEF Pos
<1>2. CASE pos + 1 < PoolSize
  <2>1. pos + 1 \in 0 .. PoolSize - 1
    BY <1>1, <1>2
  <2> QED
    BY <1>1, <1>2, <2>1, SmallMod, Zenon DEF HintAfter
<1>3. CASE ~(pos + 1 < PoolSize)
  <2>1. pos + 1 = 0 + PoolSize /\ 0 \in 0 .. PoolSize - 1
    BY <1>1, <1>3
  <2>2. (0 + PoolSize) % PoolSize = 0
    BY <1>1, <2>1, TurnMod, Zenon
  <2> QED
    BY <1>3, <2>1, <2>2, Zenon DEF HintAfter
<1> QED
  BY <1>2, <1>3, Zenon

(* The scan passes over no free address, so that the hint ends before the  *)
(* next one.                                                               *)
LEMMA ScanNears ==
    ASSUME PoolInv, NEW pos \in Pos, ScanStopsAt(pos), next_hint' = HintAfter(pos),
           NEW ip \in Assignable, ip \notin held, ip # IpOf(pos)
    PROVE  Distance(ip)' < Distance(ip)
<1> DEFINE q == PosOf(ip)
<1>1. open /\ next_hint \in Pos
  BY ScanStopFacts, Zenon DEF PoolInv, PoolTypeOK
<1>2. q \in Pos /\ q \notin Reserved /\ IpOf(q) = ip
  BY AssignablePos, Zenon
<1>3. q \notin bitmap
  <2>1. ASSUME NEW other \in held, PosOf(other) = q
        PROVE  other = ip
    BY <2>1, <1>2, AssignablePos, Zenon DEF PoolInv, PoolTypeOK
  <2> QED
    BY <1>1, <1>2, <2>1, Zenon DEF PoolInv, ExactAccounting
<1>4. PICK i \in Pos : pos = Probe(i) /\ \A j \in 0 .. i - 1 : Probe(j) \in bitmap
  BY Zenon DEF ScanStopsAt
<1>5. PICK k \in Pos : Probe(k) = q
  BY <1>1, <1>2, ProbesCover, Zenon
<1>6. k \notin 0 .. i - 1 /\ k # i
  BY <1>2, <1>3, <1>4, <1>5, Zenon
<1>7. /\ pos = IF next_hint + i < PoolSize THEN next_hint + i ELSE next_hint + i - PoolSize
      /\ q = IF next_hint + k < PoolSize THEN next_hint + k ELSE next_hint + k - PoolSize
  BY <1>1, <1>4, <1>5, ProbeAt, Zenon
<1>8. next_hint' = IF pos + 1 < PoolSize THEN pos + 1 ELSE 0
  BY HintAt, Zenon
<1>9. PosOf(ip)' = q
  BY Zenon DEF PosOf
<1> HIDE DEF q
<1>10. /\ Distance(ip) = IF q >= next_hint THEN q - next_hint ELSE q - next_hint + PoolSize
       /\ Distance(ip)' = IF q >= next_hint' THEN q - next_hint'
                          ELSE q - next_hint' + PoolSize
  BY <1>9, Zenon DEF Distance, q
<1>11. /\ PoolSize \in Nat \ {0} /\ next_hint \in 0 .. PoolSize - 1
       /\ i \in 0 .. PoolSize - 1 /\ k \in 0 .. PoolSize - 1
  BY <1>1, PoolAssumption, Zenon DEF Pos
<1>12. k > i
  BY <1>6, <1>11
<1>13. Distance(ip) = k
  BY <1>7, <1>10, <1>11
<1>14. Distance(ip)' = k - i - 1
  BY <1>7, <1>8, <1>10, <1>11, <1>12
<1> QED
  BY <1>11, <1>13, <1>14

(* For every range and pool size, each allocation brings the hint of       *)
(* vf_ip_pool_alloc nearer to each address that stays free, and no release *)
(* moves it: no address starves.                                           *)
THEOREM HintNearsAlways == CallsSpec => HintNears
<1> DEFINE Step == \A ip \in Assignable \ (held \cup held') :
                      IF held' \subseteq held THEN Distance(ip)' = Distance(ip)
                      ELSE Distance(ip)' < Distance(ip)
<1>1. ASSUME PoolInv, [CallsNext]_callVars PROVE [Step]_callVars
  <2>1. next_hint' = next_hint => \A ip : Distance(ip)' = Distance(ip)
    BY Zenon DEF Distance, PosOf
  <2>2. CASE Acquire
    <3>1. PICK ip : /\ vf_ip_pool_alloc(ip)
                    /\ held' = held \cup ({ip} \ {NoIp})
      BY <2>2, Zenon DEF Acquire
    <3>2. ASSUME NEW pos \in Pos, ScanStopsAt(pos), ip = IpOf(pos),
                 next_hint' = HintAfter(pos)
          PROVE  Step
      <4>1. ip \in Assignable \ held /\ ip # NoIp
        BY <1>1, <3>2, ScanStopFacts, NoIpNotAssignable, Zenon
      <4>2. ~(held' \subseteq held)
        BY <3>1, <4>1, Zenon
      <4>3. ASSUME NEW other \in Assignable \ (held \cup held')
            PROVE  Distance(other)' < Distance(other)
        BY <1>1, <3>1, <3>2, <4>1, <4>3, ScanNears, Zenon
      <4> QED
        BY <4>2, <4>3, Zenon
    <3>3. CASE ip = NoIp /\ next_hint' = next_hint
      BY <2>1, <3>1, <3>3, Zenon
    <3> QED
      BY <3>1, <3>2, <3>3, Zenon DEF vf_ip_pool_alloc
  <2>3. CASE Release
    BY <2>1, <2>3, Zenon DEF Release, vf_ip_pool_free, FreeEach
  <2>4. CASE Destroy
    BY <2>1, <2>4, Zenon DEF Destroy, vf_ip_pool_destroy
  <2> QED
    BY <1>1, <2>2, <2>3, <2>4, Zenon DEF CallsNext
<1> QED
  BY <1>1, PoolInvHolds, PTL DEF CallsSpec, HintNears

-----------------------------------------------------------------------------
Behind == {o \in kept : ShardOf[heap[o].vip] < shard}
Ahead == {o \in live : ShardOf[heap[o].vip] >= shard}

Tally ==
    /\ kept \subseteq live
    /\ Counting => /\ shard < ShardCount
                   /\ Cardinality(Behind) <= total
                   /\ total + Cardinality(Ahead) <= added
    /\ cmd = "counted" => Cardinality(kept) <= total /\ total <= added

Inv == TypeOK /\ TableInv /\ Tally

-----------------------------------------------------------------------------
(* The shard of an allocated cell is a number.                             *)
LEMMA CellShard ==
    ASSUME TableInv, NEW o \in live
    PROVE  ShardOf[heap[o].vip] \in 0 .. ShardCount - 1
<1>1. heap[o].vip \in Vip
  BY Zenon DEF TableInv, TableTypeOK, Session
<1> QED BY <1>1, SessionAssumption, ShardCountAssumption, Zenon

(* The sets a count is about are finite.                                   *)
LEMMA Finite ==
    ASSUME TableInv, kept \subseteq live
    PROVE  /\ IsFiniteSet(kept) /\ IsFiniteSet(Behind) /\ IsFiniteSet(Ahead)
           /\ Cardinality(kept) \in Nat /\ Cardinality(Behind) \in Nat
           /\ Cardinality(Ahead) \in Nat
<1>1. kept \in SUBSET live /\ Behind \in SUBSET live /\ Ahead \in SUBSET live
  BY Zenon DEF Behind, Ahead
<1>2. IsFiniteSet(kept) /\ IsFiniteSet(Behind) /\ IsFiniteSet(Ahead)
  BY <1>1, FS_Subset, Zenon DEF TableInv
<1> QED BY <1>2, FS_CardinalityType, Zenon

(* Sessions that go away, and renamed ones, leave a count plausible.       *)
LEMMA ShrinkTally ==
    ASSUME Inv, TableInv', live' \subseteq live, VipsKept,
           kept' = kept \cap live', UNCHANGED <<cmd, shard, total, added>>
    PROVE  Tally'
<1>1. kept' \subseteq kept /\ kept' \subseteq live'
  OBVIOUS
<1>2. Behind' \in SUBSET Behind /\ Ahead' \in SUBSET Ahead /\ kept' \in SUBSET kept
  BY <1>1, Zenon DEF Inv, Tally, Behind, Ahead, VipsKept
<1>3. /\ IsFiniteSet(kept) /\ IsFiniteSet(Behind) /\ IsFiniteSet(Ahead)
      /\ Cardinality(kept) \in Nat /\ Cardinality(Behind) \in Nat
      /\ Cardinality(Ahead) \in Nat
  BY Finite, Zenon DEF Inv, Tally
<1>4. /\ Cardinality(Behind') <= Cardinality(Behind)
      /\ Cardinality(Ahead') <= Cardinality(Ahead)
      /\ Cardinality(kept') <= Cardinality(kept)
      /\ IsFiniteSet(kept') /\ IsFiniteSet(Behind') /\ IsFiniteSet(Ahead')
  BY <1>2, <1>3, FS_Subset, Zenon
<1>5. /\ Cardinality(Behind') \in Nat /\ Cardinality(Ahead') \in Nat
      /\ Cardinality(kept') \in Nat
  BY <1>4, FS_CardinalityType, Zenon
<1>6. total \in Nat /\ added \in Nat
  BY Zenon DEF Inv, TypeOK
<1> QED BY <1>1, <1>3, <1>4, <1>5, <1>6 DEF Inv, Tally, Counting

(* A session that is created counts as one that existed.                   *)
LEMMA CreateTally ==
    ASSUME Inv, VipsKept, NEW o, o \notin live, live' = live \cup {o},
           added' = IF Counting THEN added + Cardinality(live' \ live) ELSE added,
           UNCHANGED <<cmd, shard, total, kept>>
    PROVE  Tally' /\ added' \in Nat
<1>1. Cardinality(live' \ live) = 1
  <2>1. live' \ live = {o}
    OBVIOUS
  <2> QED BY <2>1, FS_Singleton, Zenon
<1>2. /\ IsFiniteSet(Ahead) /\ Cardinality(Ahead) \in Nat
      /\ total \in Nat /\ added \in Nat
  BY Finite, Zenon DEF Inv, Tally, TypeOK
<1>3. Behind' = Behind
  BY Zenon DEF Inv, Tally, Behind, VipsKept
<1>4. Ahead' \in SUBSET (Ahead \cup {o})
  BY Zenon DEF Ahead, VipsKept
<1>5. IsFiniteSet(Ahead \cup {o}) /\ Cardinality(Ahead \cup {o}) <= Cardinality(Ahead) + 1
  <2>1. /\ IsFiniteSet(Ahead \cup {o})
        /\ Cardinality(Ahead \cup {o}) =
             IF o \in Ahead THEN Cardinality(Ahead) ELSE Cardinality(Ahead) + 1
    BY <1>2, FS_AddElement, Zenon
  <2> QED BY <1>2, <2>1
<1>6. /\ Cardinality(Ahead') <= Cardinality(Ahead \cup {o})
      /\ Cardinality(Ahead') \in Nat /\ Cardinality(Ahead \cup {o}) \in Nat
  BY <1>4, <1>5, FS_Subset, FS_CardinalityType, Zenon
<1>7. Counting => total' + Cardinality(Ahead') <= added'
  BY <1>1, <1>2, <1>5, <1>6 DEF Inv, Tally
<1>8. kept' \subseteq live'
  BY Zenon DEF Inv, Tally
<1> QED BY <1>1, <1>2, <1>3, <1>7, <1>8 DEF Inv, Tally, Counting

(* Counting a shard moves its sessions from ahead to behind.               *)
LEMMA CountTally ==
    ASSUME Inv, CountShard
    PROVE  TypeOK' /\ Tally'
<1> DEFINE here == ip_table[shard]
<1>0. /\ shard \in 0 .. ShardCount - 1 /\ shard \in Shards
      /\ total \in Nat /\ added \in Nat
  BY ShardCountAssumption DEF CountShard, Inv, Tally, TypeOK, Counting
<1>1. here = {o \in live : ShardOf[heap[o].vip] = shard}
  BY <1>0, ShardCells, Zenon DEF Inv, TableInv
<1>2. here \in SUBSET live /\ IsFiniteSet(here) /\ Cardinality(here) \in Nat
  BY <1>1, FS_Subset, FS_CardinalityType, Zenon DEF Inv, TableInv
<1>3. /\ shard' = shard + 1 /\ total' = total + Cardinality(here)
      /\ cmd' = IF shard + 1 = ShardCount THEN "counted" ELSE "count"
      /\ UNCHANGED <<live, heap, kept, added>>
  BY Zenon DEF CountShard, tableVars
<1>4. /\ IsFiniteSet(Behind) /\ IsFiniteSet(Ahead)
      /\ Cardinality(Behind) \in Nat /\ Cardinality(Ahead) \in Nat
  BY Finite, Zenon DEF Inv, Tally
<1>5. \A o \in live : ShardOf[heap[o].vip] \in 0 .. ShardCount - 1
  BY CellShard, Zenon DEF Inv
<1> HIDE DEF here
<1>6. Cardinality(Behind') <= total'
  <2>1. Behind' \in SUBSET (Behind \cup here)
    BY <1>0, <1>1, <1>3, <1>5 DEF Inv, Tally, Behind
  <2>2. /\ IsFiniteSet(Behind \cup here)
        /\ Cardinality(Behind \cup here) =
             Cardinality(Behind) + Cardinality(here) - Cardinality(Behind \cap here)
    BY <1>2, <1>4, FS_Union, Zenon
  <2>3. Cardinality(Behind \cap here) \in Nat
    BY <1>4, FS_Intersection, FS_CardinalityType, Zenon
  <2>4. /\ Cardinality(Behind') <= Cardinality(Behind \cup here)
        /\ Cardinality(Behind') \in Nat
    BY <2>1, <2>2, FS_Subset, FS_CardinalityType, Zenon
  <2>5. Cardinality(Behind) <= total
    BY Zenon DEF CountShard, Inv, Tally
  <2> QED BY <1>0, <1>2, <1>3, <1>4, <2>2, <2>3, <2>4, <2>5
<1>7. total' + Cardinality(Ahead') <= added' /\ Cardinality(Ahead') \in Nat
  <2>1. Ahead = Ahead' \cup here /\ Ahead' \cap here = {}
    BY <1>0, <1>1, <1>3, <1>5 DEF Ahead
  <2>2. IsFiniteSet(Ahead') /\ Cardinality(Ahead') \in Nat
    <3>1. Ahead' \in SUBSET Ahead
      BY <2>1, Zenon
    <3> QED BY <1>4, <3>1, FS_Subset, FS_CardinalityType, Zenon
  <2>3. Cardinality(Ahead) = Cardinality(Ahead') + Cardinality(here)
    <3>1. Cardinality(Ahead' \cup here) =
            Cardinality(Ahead') + Cardinality(here) - Cardinality(Ahead' \cap here)
      BY <1>2, <2>2, FS_Union, Zenon
    <3>2. Cardinality(Ahead' \cap here) = 0
      BY <2>1, FS_EmptySet, Zenon
    <3>3. Ahead = Ahead' \cup here
      BY <2>1, Zenon
    <3> QED BY <1>2, <2>2, <3>1, <3>2, <3>3
  <2>4. total + Cardinality(Ahead) <= added
    BY Zenon DEF CountShard, Inv, Tally
  <2> QED BY <1>0, <1>2, <1>3, <2>2, <2>3, <2>4
<1>8. shard + 1 = ShardCount => Behind' = kept'
  BY <1>0, <1>3, <1>5, ShardCountAssumption DEF Inv, Tally, Behind
<1>9. TypeOK'
  <2>1. total' \in Nat /\ shard' \in 0 .. ShardCount
    BY <1>0, <1>2, <1>3, ShardCountAssumption
  <2> QED BY <1>3, <2>1, Zenon DEF CountShard, tableVars, Inv, TypeOK, TableTypeOK
<1>10. kept' \subseteq live'
  BY <1>3, Zenon DEF Inv, Tally
<1>11. CASE shard + 1 = ShardCount
  BY <1>0, <1>2, <1>3, <1>6, <1>7, <1>8, <1>9, <1>10, <1>11 DEF Tally, Counting
<1>12. CASE shard + 1 # ShardCount
  BY <1>0, <1>3, <1>6, <1>7, <1>9, <1>10, <1>12, ShardCountAssumption
     DEF Tally, Counting
<1> QED BY <1>11, <1>12, Zenon

-----------------------------------------------------------------------------
LEMMA InvInit == ThreadsInit => Inv
<1> SUFFICES ASSUME ThreadsInit PROVE Inv
    OBVIOUS
<1>1. TableTypeOK
  <2>1. \E s : s \in Session
    <3>1. PICK v \in Vip, i \in Sid, a \in Addr : TRUE
      BY SessionAssumption, Zenon
    <3>2. [vip |-> v, sid |-> i, addr |-> a, idle |-> 0] \in Session
      BY <3>1, SessionAssumption DEF Session
    <3> QED BY <3>2, Zenon
  <2>2. (CHOOSE s \in Session : TRUE) \in Session
    BY <2>1, Zenon
  <2> QED BY <2>2, Zenon DEF ThreadsInit, TableInit, TableTypeOK
<1>2. IndexesAgree /\ IsFiniteSet(live)
  BY FS_EmptySet, Zenon DEF ThreadsInit, TableInit, IndexesAgree
<1>3. TypeOK
  BY <1>1, ShardCountAssumption DEF ThreadsInit, TypeOK
<1>4. Tally
  BY Zenon DEF ThreadsInit, Tally, Counting
<1> QED BY <1>1, <1>2, <1>3, <1>4, Zenon DEF Inv, TableInv

(* The table part of a type invariant that nothing else changes.           *)
LEMMA TypeKept ==
    ASSUME TypeOK, TableInv', locks' \subseteq locks, kept' \subseteq live',
           added' \in Nat, UNCHANGED <<cmd, ptr, shard, total>>
    PROVE  TypeOK'
  BY Zenon DEF TypeOK, TableInv, TableTypeOK

LEMMA InvCreate == Inv /\ Create => Inv'
<1> SUFFICES ASSUME Inv, Create PROVE Inv'
    OBVIOUS
<1>1. PICK vip \in Vip, addr \in Addr : \E sid \in vf_ss_generate_sid(vip) :
        /\ vf_ss_update(vip, sid, addr)
        /\ added' = IF Counting THEN added + Cardinality(live' \ live) ELSE added
        /\ UNCHANGED <<locks, cmd, ptr, shard, total, kept>>
  BY Zenon DEF Create
<1>2. PICK sid \in vf_ss_generate_sid(vip) :
        /\ vf_ss_update(vip, sid, addr)
        /\ added' = IF Counting THEN added + Cardinality(live' \ live) ELSE added
        /\ UNCHANGED <<locks, cmd, ptr, shard, total, kept>>
  BY <1>1, Zenon
<1>3. /\ TableInv' /\ VipsKept
      /\ live' = live \/ \E o \in Obj \ live : live' = live \cup {o}
  BY <1>2, UpdateTable, Zenon DEF Inv
<1>4. kept \subseteq live /\ added \in Nat
  BY Zenon DEF Inv, Tally, TypeOK
<1>5. CASE live' = live
  <2>1. added' = added
    <3>1. live' \ live = {}
      BY <1>5, Zenon
    <3>2. Cardinality(live' \ live) = 0
      BY <3>1, FS_EmptySet, Zenon
    <3> QED BY <1>2, <1>4, <3>2
  <2>2. kept' = kept \cap live'
    BY <1>2, <1>4, <1>5, Zenon
  <2>3. Tally'
    BY <1>2, <1>3, <1>5, <2>1, <2>2, ShrinkTally, Zenon
  <2>4. TypeOK'
    BY <1>2, <1>3, <1>4, <2>1, <2>2, TypeKept, Zenon DEF Inv
  <2> QED BY <1>3, <2>3, <2>4, Zenon DEF Inv
<1>6. ASSUME NEW o \in Obj \ live, live' = live \cup {o}
      PROVE  Inv'
  <2>1. Tally' /\ added' \in Nat
    BY <1>2, <1>3, <1>6, CreateTally, Zenon
  <2>2. TypeOK'
    BY <1>2, <1>3, <1>4, <1>6, <2>1, TypeKept, Zenon DEF Inv
  <2> QED BY <1>3, <2>1, <2>2, Zenon DEF Inv
<1> QED BY <1>3, <1>5, <1>6, Zenon

LEMMA InvRefresh == Inv /\ Refresh => Inv'
<1> SUFFICES ASSUME Inv, Refresh PROVE Inv'
    OBVIOUS
<1>1. PICK sid \in Sid, addr \in Addr :
        vf_ss_update_by_sid(sid, addr) /\ UNCHANGED <<locks, cmdVars>>
  BY Zenon DEF Refresh
<1>2. TableInv' /\ VipsKept /\ live' = live
  BY <1>1, RefreshTable, Zenon DEF Inv
<1>3. UNCHANGED <<locks, cmd, ptr, shard, total, kept, added>>
  BY <1>1, Zenon DEF cmdVars
<1>4. kept \subseteq live /\ added \in Nat /\ kept' = kept \cap live'
  BY <1>2, <1>3, Zenon DEF Inv, Tally, TypeOK
<1>5. Tally'
  BY <1>2, <1>3, <1>4, ShrinkTally, Zenon
<1>6. TypeOK'
  BY <1>2, <1>3, <1>4, TypeKept, Zenon DEF Inv
<1> QED BY <1>2, <1>5, <1>6, Zenon DEF Inv

(* Freeing and unlinking a set of cells, by vf_ss_delete or shard by shard.*)
LEMMA InvUnlink ==
    ASSUME Inv, NEW gone,
           live' = live \ gone, heap' = heap,
           ip_table' = [sh \in Shards |-> ip_table[sh] \ gone],
           sid_table' = [sh \in Shards |-> sid_table[sh] \ gone],
           locks' \subseteq locks, kept' = kept \cap live',
           UNCHANGED <<cmd, ptr, shard, total, added>>
    PROVE  Inv'
<1>1. TableInv'
  BY UnlinkTable, Zenon DEF Inv
<1>2. VipsKept /\ live' \subseteq live /\ added' \in Nat /\ kept' \subseteq live'
  BY Zenon DEF VipsKept, Inv, TypeOK
<1>3. Tally'
  BY <1>1, <1>2, ShrinkTally, Zenon
<1>4. TypeOK'
  BY <1>1, <1>2, TypeKept, Zenon DEF Inv
<1> QED BY <1>1, <1>3, <1>4, Zenon DEF Inv

LEMMA InvDelete == Inv /\ Delete => Inv'
<1> SUFFICES ASSUME Inv, Delete PROVE Inv'
    OBVIOUS
<1>1. PICK vip \in Vip :
        /\ vf_ss_delete(vip) /\ kept' = kept \cap live'
        /\ UNCHANGED <<locks, cmd, ptr, shard, total, added>>
  BY Zenon DEF Delete
<1> DEFINE gone == UNION {FindIp(v) : v \in {vip}}
<1>2. /\ live' = live \ gone /\ heap' = heap
      /\ ip_table' = [sh \in Shards |-> ip_table[sh] \ gone]
      /\ sid_table' = [sh \in Shards |-> sid_table[sh] \ gone]
  BY <1>1, Zenon DEF vf_ss_delete, DeleteEach
<1> HIDE DEF gone
<1> QED BY <1>1, <1>2, InvUnlink, Zenon

(* The cells of a destroyed shard are linked in no other.                  *)
LEMMA InvDestroyShard == Inv /\ DestroyShard => Inv'
<1> SUFFICES ASSUME Inv, DestroyShard PROVE Inv'
    OBVIOUS
<1>1. PICK sh \in locks :
        /\ live' = live \ ip_table[sh]
        /\ ip_table' = [ip_table EXCEPT ![sh] = {}]
        /\ sid_table' = [sid_table EXCEPT ![sh] = {}]
        /\ locks' = locks \ {sh}
        /\ kept' = kept \cap live'
        /\ UNCHANGED <<heap, cmd, ptr, shard, total, added>>
  BY Zenon DEF DestroyShard
<1>2. sh \in Shards
  BY Zenon DEF Inv, TypeOK
<1>3. /\ ip_table \in [Shards -> SUBSET Obj] /\ sid_table \in [Shards -> SUBSET Obj]
      /\ IndexesAgree
  BY Zenon DEF Inv, TableInv, TableTypeOK
<1>4. \A t \in Shards \ {sh} : /\ ip_table[t] \cap ip_table[sh] = {}
                               /\ sid_table[t] \cap ip_table[sh] = {}
  BY <1>2, <1>3 DEF IndexesAgree
<1>5. sid_table[sh] = ip_table[sh]
  BY <1>2, <1>3, Zenon DEF IndexesAgree
<1>6. ip_table' = [t \in Shards |-> ip_table[t] \ ip_table[sh]]
  BY <1>1, <1>2, <1>3, <1>4, Zenon
<1>7. sid_table' = [t \in Shards |-> sid_table[t] \ ip_table[sh]]
  BY <1>1, <1>2, <1>3, <1>4, <1>5, Zenon
<1> QED BY <1>1, <1>6, <1>7, InvUnlink, Zenon

LEMMA InvManage == Inv /\ (Manage \/ StopManagement) => Inv'
<1> SUFFICES ASSUME Inv, Manage \/ StopManagement PROVE Inv'
    OBVIOUS
<1>1. UNCHANGED tableVars
  BY Zenon DEF Manage, StopManagement, ShowLookup, ShowRead, CountStart, CountShard,
         CountReply
<1>2. TableInv'
  BY <1>1 DEF Inv, TableInv, TableTypeOK, IndexesAgree, tableVars
<1>3. CASE ShowLookup \/ ShowRead \/ StopManagement
  <2>1. /\ UNCHANGED <<locks, shard, total, kept, added>>
        /\ cmd' \in {"show", "ready", "stopped"} /\ ptr' \subseteq Obj
    <3>1. CASE ShowLookup
      <4>1. PICK sid \in Sid : \E o \in FindSid(sid) : ptr' = {o}
        BY <3>1, Zenon DEF ShowLookup
      <4>2. PICK o \in FindSid(sid) : ptr' = {o}
        BY <4>1, Zenon
      <4>3. o \in Obj
        BY <4>2, FindSidLive, Zenon DEF Inv, TableInv, TableTypeOK
      <4> QED BY <3>1, <4>2, <4>3, Zenon DEF ShowLookup
    <3>2. CASE ShowRead \/ StopManagement
      BY <3>2, Zenon DEF ShowRead, StopManagement, Inv, TypeOK
    <3> QED BY <1>3, <3>1, <3>2, Zenon
  <2>2. TypeOK' /\ Tally'
    BY <1>1, <1>2, <2>1, Zenon DEF Inv, TypeOK, Tally, Counting, TableInv, tableVars
  <2> QED BY <1>2, <2>2, Zenon DEF Inv
<1>4. CASE CountStart
  <2>1. /\ cmd' = "count" /\ shard' = 0 /\ total' = 0 /\ kept' = live
        /\ added' = Cardinality(live) /\ UNCHANGED <<locks, ptr, live, heap>>
    BY <1>4, Zenon DEF CountStart, tableVars
  <2>2. Cardinality(live) \in Nat
    BY FS_CardinalityType, Zenon DEF Inv, TableInv
  <2>3. \A o \in live : ShardOf[heap[o].vip] \in 0 .. ShardCount - 1
    BY CellShard, Zenon DEF Inv
  <2>4. Behind' = {} /\ Ahead' = live
    BY <2>1, <2>3 DEF Behind, Ahead
  <2>5. Cardinality(Behind') = 0
    BY <2>4, FS_EmptySet, Zenon
  <2>6. Tally'
    BY <2>1, <2>2, <2>4, <2>5, ShardCountAssumption DEF Tally, Counting
  <2>7. TypeOK'
    BY <1>2, <2>1, <2>2, ShardCountAssumption DEF Inv, TypeOK, TableInv, TableTypeOK
  <2> QED BY <1>2, <2>6, <2>7, Zenon DEF Inv
<1>5. CASE CountShard
  BY <1>2, <1>5, CountTally, Zenon DEF Inv
<1>6. CASE CountReply
  <2>1. /\ cmd' = "ready" /\ shard' = 0 /\ total' = 0 /\ kept' = {} /\ added' = 0
        /\ UNCHANGED <<locks, ptr>>
    BY <1>6, Zenon DEF CountReply
  <2> QED BY <1>2, <2>1, ShardCountAssumption
             DEF Inv, TypeOK, Tally, Counting, TableInv
<1> QED BY <1>3, <1>4, <1>5, <1>6, Zenon DEF Manage

LEMMA InvStep == Inv /\ [ThreadsNext]_threadsVars => Inv'
<1>1. Inv /\ UNCHANGED threadsVars => Inv'
  BY DEF threadsVars, tableVars, cmdVars, Inv, TypeOK, TableInv, TableTypeOK, IndexesAgree,
         Tally, Counting, Behind, Ahead
<1> QED BY <1>1, InvCreate, InvRefresh, InvDelete, InvDestroyShard, InvManage, Zenon
        DEF ThreadsNext, vfast_clean_server

(***************************************************************************)
(* With sessions created, renamed and deleted by the I/O thread, shown and *)
(* counted by the management thread, and destroyed shard by shard at       *)
(* shutdown, the two indexes of session.c describe the same sessions.      *)
(***************************************************************************)
THEOREM IndexesCorrect == ThreadsSpec => []IndexesAgree
<1>1. Inv => IndexesAgree
  BY Zenon DEF Inv, TableInv
<1> QED BY <1>1, InvInit, InvStep, PTL DEF ThreadsSpec

(***************************************************************************)
(* vf_ss_get_total_count, which locks one shard at a time, returns a       *)
(* number between the sessions that lived through the scan and those that  *)
(* existed during it, whatever the I/O thread does meanwhile.              *)
(***************************************************************************)
THEOREM CountCorrect == ThreadsSpec => []CountPlausible
<1>1. Inv => CountPlausible
  BY Zenon DEF Inv, Tally, CountPlausible
<1> QED BY <1>1, InvInit, InvStep, PTL DEF ThreadsSpec

-----------------------------------------------------------------------------
(***************************************************************************)
(* The bit arithmetic of vf_ss_generate_sid, for words and masks of any    *)
(* width: over all random words it yields for a virtual address exactly    *)
(* the ids in the shard of the address.                                    *)
(***************************************************************************)
LEMMA ExactForEveryWidth == Align!GeneratorExact
<1>0. Half \in Nat /\ ShardBits \in Nat /\ ShardBits <= Half
  BY WordAssumption
<1> USE <1>0
<1> SUFFICES ASSUME NEW v \in Align!Word
             PROVE  Align!Computed(v) = Align!InShard(v)
  BY Zenon DEF Align!GeneratorExact
<1> DEFINE t == Align!vpn_get_shard_idx(v)
<1>1. \A b \in t : b \in Align!ShardMask
  BY Zenon DEF Align!vpn_get_shard_idx
<1> HIDE DEF t
<1>2. ASSUME NEW raw \in Align!Word
      PROVE  /\ Align!vf_ss_generate_sid(v, raw) \in Align!Word
             /\ Align!vpn_get_shard_idx(Align!vf_ss_generate_sid(v, raw)) = t
  <2> DEFINE high == raw \cap Align!HighMask
             needed == Align!Xor(t, Align!DownHalf(high)) \cap Align!ShardMask
             w == high \cup (raw \cap Align!MidMask) \cup needed
  <2>1. Align!vf_ss_generate_sid(v, raw) = w
    BY Zenon DEF Align!vf_ss_generate_sid, t
  <2>2. w \in Align!Word
    BY <1>2, SMTT(30) DEF Align!Word, Align!HighMask, Align!MidMask, Align!ShardMask
  <2>3. ASSUME NEW b \in Align!ShardMask
        PROVE  b \in w <=> b \in needed
    BY <2>3, SMTT(30) DEF Align!HighMask, Align!MidMask, Align!ShardMask
  <2>4. ASSUME NEW b \in Align!ShardMask
        PROVE  b \in Align!DownHalf(w) <=> b \in Align!DownHalf(high)
    BY <2>4, SMTT(30)
       DEF Align!DownHalf, Align!HighMask, Align!MidMask, Align!ShardMask
  <2> HIDE DEF high, w
  <2>5. ASSUME NEW b \in Align!ShardMask
        PROVE  b \in Align!Xor(w, Align!DownHalf(w)) <=> b \in t
    BY <2>3, <2>4, <2>5, Zenon DEF Align!Xor
  <2>6. Align!vpn_get_shard_idx(w) = t
    BY <1>1, <2>5, Zenon DEF Align!vpn_get_shard_idx
  <2> QED
    BY <2>1, <2>2, <2>6, Zenon
<1>3. ASSUME NEW w \in Align!Word, Align!vpn_get_shard_idx(w) = t
      PROVE  Align!vf_ss_generate_sid(v, w) = w
  <2> DEFINE high == w \cap Align!HighMask
             needed == Align!Xor(t, Align!DownHalf(high)) \cap Align!ShardMask
  <2>1. Align!vf_ss_generate_sid(v, w) = high \cup (w \cap Align!MidMask) \cup needed
    BY Zenon DEF Align!vf_ss_generate_sid, t
  <2>2. ASSUME NEW b \in Align!ShardMask
        PROVE  b \in Align!DownHalf(w) <=> b \in Align!DownHalf(high)
    BY <2>2, SMTT(30) DEF Align!DownHalf, Align!HighMask, Align!ShardMask
  <2>3. ASSUME NEW b \in Align!ShardMask
        PROVE  b \in needed <=> b \in w
    BY <1>3, <2>2, <2>3, Zenon DEF Align!vpn_get_shard_idx, Align!Xor
  <2>4. ASSUME NEW b \in w
        PROVE  b \in Align!HighMask \/ b \in Align!MidMask \/ b \in Align!ShardMask
    BY <1>3, <2>4, SMTT(30)
       DEF Align!Word, Align!HighMask, Align!MidMask, Align!ShardMask
  <2> HIDE DEF needed
  <2>5. needed \subseteq Align!ShardMask
    BY Zenon DEF needed
  <2> QED
    BY <2>1, <2>3, <2>4, <2>5, Zenon
<1> QED
  BY <1>2, <1>3, Zenon DEF Align!Computed, Align!InShard, t

(***************************************************************************)
(* On this the model of the table rests, which draws an id from the ids of *)
(* the shard: at all times these are, for words of any even width and any  *)
(* number of shards that fits a half, the ids vf_ss_generate_sid computes. *)
(***************************************************************************)
THEOREM GeneratorCorrect == ThreadsSpec => []GeneratorExact
<1>1. ASSUME NEW vip \in Vip
      PROVE  ComputedIds[vip] = {sid \in Sid : ShardOf[sid] = ShardOf[vip]}
  <2>1. Align!Computed(WordOf[vip]) = Align!InShard(WordOf[vip])
    BY WordAssumption, ExactForEveryWidth, Zenon DEF Align!GeneratorExact
  <2> QED
    BY <2>1, WordAssumption, Zenon DEF ComputedIds, Align!InShard
<1>2. GeneratorExact
  BY <1>1, ExactForEveryWidth, Zenon DEF GeneratorExact, AllExact, vf_ss_generate_sid
<1> QED BY <1>2, PTL

-----------------------------------------------------------------------------
Base == ServerTypeOK /\ IndexesAgree /\ PoolMatchesSessions

-----------------------------------------------------------------------------
\* The session table.

(* The address of a session is an assignable one.                          *)
LEMMA LiveVip ==
    ASSUME ServerTypeOK, NEW o \in live
    PROVE  heap[o] \in Session /\ heap[o].vip \in Vip /\ heap[o].sid \in Sid
  BY Zenon DEF ServerTypeOK, TableTypeOK, Session

(* The position the scan stops at belongs to no session and no failed      *)
(* login.                                                                  *)
LEMMA ScanStopFree ==
    ASSUME Base, NEW pos \in Pos, ScanStopsAt(pos)
    PROVE  /\ pos \notin bitmap
           /\ IpOf(pos) \in Vip
           /\ PosOf(IpOf(pos)) = pos
           /\ InRange(IpOf(pos))
           /\ IpOf(pos) \notin SessionVips
           /\ IpOf(pos) \notin lost
<1>1. pos \notin bitmap
  BY Zenon DEF ScanStopsAt
<1>2. pos \notin Reserved /\ pos \notin {PosOf(ip) : ip \in SessionVips \cup lost}
  BY <1>1, Zenon DEF Base, PoolMatchesSessions
<1>3. IpOf(pos) \in Vip
  BY <1>2, ServerAssumption, Zenon DEF Assignable
<1> QED
  BY <1>1, <1>2, <1>3, IpOfPos, Zenon

-----------------------------------------------------------------------------
\* What the operations do to the table.

(* A step that changes neither key of any session, and nothing else,       *)
(* preserves Base: KEEPALIVE, DPD_RESPONSE and the passing of time.        *)
KeysKept ==
    /\ heap' \in [Obj -> Session]
    /\ \A o \in live : heap'[o].vip = heap[o].vip /\ heap'[o].sid = heap[o].sid
    /\ UNCHANGED <<live, ip_table, sid_table, poolVars, granted, lost>>

LEMMA KeysKeptBase ==
    ASSUME Base, KeysKept
    PROVE  Base'
<1>1. ServerTypeOK'
  BY Zenon DEF Base, KeysKept, ServerTypeOK, TableTypeOK, poolVars
<1>2. IndexesAgree'
  BY DEF Base, KeysKept, IndexesAgree
<1>3. SessionVips' = SessionVips
  BY Zenon DEF KeysKept, SessionVips
<1>4. PoolMatchesSessions'
  BY <1>3, Zenon DEF Base, KeysKept, PoolMatchesSessions, poolVars
<1> QED
  BY <1>1, <1>2, <1>4, Zenon DEF Base

(* The session vf_ss_update finds for the address of a linked session is   *)
(* that session: a KEEPALIVE refreshes it and renames nothing.             *)
LEMMA KeepAliveKeeps ==
    ASSUME Base, NEW src \in Addr, KeepAlive(src)
    PROVE  KeysKept
<1>0. PICK sid \in Sid \ {0} : \E s \in FindSid(sid) :
        /\ vf_ss_update(heap[s].vip, heap[s].sid, src)
        /\ UNCHANGED <<poolVars, granted, lost>>
  BY Zenon DEF KeepAlive
<1>1. PICK s \in FindSid(sid) :
        /\ vf_ss_update(heap[s].vip, heap[s].sid, src)
        /\ UNCHANGED <<poolVars, granted, lost>>
  BY <1>0, Zenon
<1>2. s \in live
  BY <1>1, FindSidLive, Zenon DEF Base
<1>3. heap[s].vip \in Vip /\ heap[s].sid \in Sid
  BY <1>2, LiveVip, Zenon DEF Base
<1>4. FindIp(heap[s].vip) = {s}
  <2>1. FindIp(heap[s].vip) = {o \in live : heap[o].vip = heap[s].vip}
    BY <1>3, FindIpLive, Zenon DEF Base
  <2> QED
    BY <1>2, <2>1 DEF Base, IndexesAgree
<1>5. /\ heap' = [heap EXCEPT ![s] = [vip |-> heap[s].vip, sid |-> heap[s].sid,
                                      addr |-> src, idle |-> 0]]
      /\ UNCHANGED <<live, ip_table, sid_table>>
  BY <1>1, <1>4, Zenon DEF vf_ss_update
<1>6. [vip |-> heap[s].vip, sid |-> heap[s].sid, addr |-> src, idle |-> 0] \in Session
  BY <1>3, SessionAssumption DEF Session
<1>7. heap \in [Obj -> Session] /\ live \subseteq Obj
  BY Zenon DEF Base, ServerTypeOK, TableTypeOK
<1> QED
  BY <1>1, <1>5, <1>6, <1>7, Zenon DEF KeysKept

(* A DPD_RESPONSE changes the address and the age of one session.          *)
LEMMA DpdResponseKeeps ==
    ASSUME Base, NEW src \in Addr, DpdResponse(src)
    PROVE  KeysKept
<1>0. PICK sid \in Sid \ {0} : \E s \in FindSid(sid) :
        /\ heap' = [heap EXCEPT ![s].addr = src, ![s].idle = 0]
        /\ UNCHANGED <<live, ip_table, sid_table, poolVars, granted, lost>>
  BY Zenon DEF DpdResponse, vf_ss_update_by_sid
<1>1. PICK s \in FindSid(sid) :
        /\ heap' = [heap EXCEPT ![s].addr = src, ![s].idle = 0]
        /\ UNCHANGED <<live, ip_table, sid_table, poolVars, granted, lost>>
  BY <1>0, Zenon
<1>2. heap \in [Obj -> Session] /\ live \subseteq Obj
  BY Zenon DEF Base, ServerTypeOK, TableTypeOK
<1>3. s \in Obj
  BY <1>1, <1>2, FindSidLive, Zenon DEF Base
<1>4. [[heap[s] EXCEPT !.addr = src] EXCEPT !.idle = 0] \in Session
  <2>1. heap[s] \in Session /\ 0 \in 0 .. MaxIdle
    BY <1>2, <1>3, SessionAssumption
  <2>2. [heap[s] EXCEPT !.addr = src] \in Session
    BY <2>1, Zenon DEF Session
  <2> QED
    BY <2>1, <2>2, Zenon DEF Session
<1>5. /\ [[heap[s] EXCEPT !.addr = src] EXCEPT !.idle = 0].vip = heap[s].vip
      /\ [[heap[s] EXCEPT !.addr = src] EXCEPT !.idle = 0].sid = heap[s].sid
  BY <1>2, <1>3, Zenon DEF Session
<1>6. heap' = [heap EXCEPT ![s] = [[heap[s] EXCEPT !.addr = src] EXCEPT !.idle = 0]]
  BY <1>1, <1>2, <1>3, Zenon
<1> QED
  BY <1>1, <1>2, <1>3, <1>4, <1>5, <1>6, Zenon DEF KeysKept

(* Time changes the age of sessions only.                                  *)
LEMMA TickKeeps ==
    ASSUME Base, Tick
    PROVE  KeysKept
<1>1. heap \in [Obj -> Session] /\ live \subseteq Obj
  BY Zenon DEF Base, ServerTypeOK, TableTypeOK
<1>2. ASSUME NEW o \in Obj
      PROVE  /\ heap'[o] \in Session
             /\ heap'[o].vip = heap[o].vip /\ heap'[o].sid = heap[o].sid
  <2>1. CASE o \in live /\ heap[o].idle < MaxIdle
    <3>1. heap'[o] = [heap[o] EXCEPT !.idle = @ + 1]
      BY <2>1, Zenon DEF Tick
    <3> QED
      BY <1>1, <2>1, <3>1, SessionAssumption DEF Session
  <2>2. CASE ~(o \in live /\ heap[o].idle < MaxIdle)
    BY <1>1, <2>2, Zenon DEF Tick
  <2> QED
    BY <2>1, <2>2, Zenon
<1> QED
  BY <1>1, <1>2, Zenon DEF Tick, KeysKept

-----------------------------------------------------------------------------
\* Logins.

(* What an accepted login does: a new cell is linked in both indexes under *)
(* an address nobody has, and its position is marked.  vf_ss_update always *)
(* takes the branch that adds, and the lookup by id always succeeds.       *)
Added(pos, sid, src, o) ==
    /\ o \notin live
    /\ live' = live \cup {o}
    /\ heap' = [heap EXCEPT ![o] = [vip |-> IpOf(pos), sid |-> sid,
                                    addr |-> src, idle |-> 0]]
    /\ ip_table' = [ip_table EXCEPT ![ShardOf[IpOf(pos)]] = @ \cup {o}]
    /\ sid_table' = [sid_table EXCEPT ![ShardOf[IpOf(pos)]] = @ \cup {o}]
    /\ bitmap' = bitmap \cup {pos}
    /\ next_hint' = HintAfter(pos)
    /\ granted' = granted \cup {<<IpOf(pos), sid>>}
    /\ UNCHANGED <<open, lost>>

LEMMA AuthAcceptedAdds ==
    ASSUME Base, NEW src \in Addr, AuthAccepted(src)
    PROVE  \E pos \in Pos : /\ ScanStopsAt(pos)
                            /\ \E sid \in vf_ss_generate_sid(IpOf(pos)), o \in Obj :
                                    Added(pos, sid, src, o)
<1>1. PICK pos \in Pos :
        /\ ScanStopsAt(pos)
        /\ next_hint' = HintAfter(pos)
        /\ UNCHANGED <<open, lost>>
        /\ \E sid \in vf_ss_generate_sid(IpOf(pos)) :
            LET found == ShardOf[sid] = ShardOf[IpOf(pos)] \/ FindSid(sid) # {}
            IN  /\ vf_ss_update(IpOf(pos), sid, src)
                /\ bitmap' = IF found \/ ~InRange(IpOf(pos))
                             THEN bitmap \cup {pos} ELSE bitmap \ {pos}
                /\ granted' = IF found THEN granted \cup {<<IpOf(pos), sid>>}
                                       ELSE granted
  BY Zenon DEF AuthAccepted
<1>2. PICK sid \in vf_ss_generate_sid(IpOf(pos)) :
        LET found == ShardOf[sid] = ShardOf[IpOf(pos)] \/ FindSid(sid) # {}
        IN  /\ vf_ss_update(IpOf(pos), sid, src)
            /\ bitmap' = IF found \/ ~InRange(IpOf(pos))
                         THEN bitmap \cup {pos} ELSE bitmap \ {pos}
            /\ granted' = IF found THEN granted \cup {<<IpOf(pos), sid>>}
                                   ELSE granted
  BY <1>1, Zenon
<1>3. ShardOf[sid] = ShardOf[IpOf(pos)]
  BY Zenon DEF vf_ss_generate_sid
<1>4. bitmap' = bitmap \cup {pos} /\ granted' = granted \cup {<<IpOf(pos), sid>>}
  BY <1>2, <1>3, Zenon
<1>5. FindIp(IpOf(pos)) = {}
  <2>1. IpOf(pos) \in Vip /\ IpOf(pos) \notin SessionVips
    BY <1>1, ScanStopFree, Zenon
  <2>2. FindIp(IpOf(pos)) = {o \in live : heap[o].vip = IpOf(pos)}
    BY <2>1, FindIpLive, Zenon DEF Base
  <2> QED
    BY <2>1, <2>2, Zenon DEF SessionVips
<1>6. PICK o \in Obj \ live :
        /\ live' = live \cup {o}
        /\ heap' = [heap EXCEPT ![o] = [vip |-> IpOf(pos), sid |-> sid,
                                        addr |-> src, idle |-> 0]]
        /\ ip_table' = [ip_table EXCEPT ![ShardOf[IpOf(pos)]] = @ \cup {o}]
        /\ sid_table' = [sid_table EXCEPT ![ShardOf[IpOf(pos)]] = @ \cup {o}]
  BY <1>2, <1>5, Zenon DEF vf_ss_update
<1>7. Added(pos, sid, src, o)
  BY <1>1, <1>4, <1>6, Zenon DEF Added
<1> QED
  BY <1>1, <1>7, Zenon

LEMMA AddedBase ==
    ASSUME Base, NEW pos \in Pos, ScanStopsAt(pos), NEW src \in Addr,
           NEW sid \in vf_ss_generate_sid(IpOf(pos)), NEW o \in Obj,
           Added(pos, sid, src, o)
    PROVE  Base'
<1> DEFINE vip == IpOf(pos)
           new == [vip |-> vip, sid |-> sid, addr |-> src, idle |-> 0]
<1>1. /\ vip \in Vip /\ PosOf(vip) = pos
      /\ vip \notin SessionVips /\ vip \notin lost
  BY ScanStopFree, Zenon
<1>2. sid \in Sid /\ ShardOf[sid] = ShardOf[vip] /\ ShardOf[vip] \in Shards
  BY <1>1, SessionAssumption, Zenon DEF vf_ss_generate_sid
<1>3. new \in Session
  BY <1>1, <1>2, SessionAssumption DEF Session
<1>4. /\ live \subseteq Obj /\ heap \in [Obj -> Session]
      /\ ip_table \in [Shards -> SUBSET Obj] /\ sid_table \in [Shards -> SUBSET Obj]
  BY Zenon DEF Base, ServerTypeOK, TableTypeOK
<1>5. /\ heap' \in [Obj -> Session] /\ heap'[o] = new
      /\ \A p \in Obj : p # o => heap'[p] = heap[p]
  BY <1>3, <1>4, Zenon DEF Added
<1>6. /\ ip_table' \in [Shards -> SUBSET Obj] /\ sid_table' \in [Shards -> SUBSET Obj]
      /\ \A sh \in Shards :
            /\ ip_table'[sh] = IF sh = ShardOf[vip] THEN ip_table[sh] \cup {o}
                                                   ELSE ip_table[sh]
            /\ sid_table'[sh] = IF sh = ShardOf[vip] THEN sid_table[sh] \cup {o}
                                                    ELSE sid_table[sh]
  BY <1>2, <1>4, Zenon DEF Added
<1>7. ServerTypeOK'
  <2>1. TableTypeOK'
    BY <1>4, <1>5, <1>6, Zenon DEF Added, TableTypeOK
  <2> QED
    BY <1>1, <1>2, <2>1, HintInPos DEF Base, ServerTypeOK, Added
<1>8. IndexesAgree'
  <2>1. o \notin live /\ live' = live \cup {o}
    BY Zenon DEF Added
  <2>2. ASSUME NEW sh \in Shards
        PROVE  /\ ip_table'[sh] = sid_table'[sh]
               /\ \A p \in ip_table'[sh] :
                    p \in live' /\ ShardOf[heap'[p].vip] = sh /\ ShardOf[heap'[p].sid] = sh
    <3>1. ip_table'[sh] = sid_table'[sh]
      BY <1>6, Zenon DEF Base, IndexesAgree
    <3>2. ASSUME NEW p \in ip_table[sh]
          PROVE  p \in live' /\ ShardOf[heap'[p].vip] = sh /\ ShardOf[heap'[p].sid] = sh
      <4>1. p \in live /\ ShardOf[heap[p].vip] = sh /\ ShardOf[heap[p].sid] = sh
        BY Zenon DEF Base, IndexesAgree
      <4> QED
        BY <1>4, <1>5, <2>1, <4>1, Zenon
    <3>3. ASSUME sh = ShardOf[vip]
          PROVE  o \in live' /\ ShardOf[heap'[o].vip] = sh /\ ShardOf[heap'[o].sid] = sh
      BY <1>2, <1>5, <2>1, <3>3
    <3> QED
      BY <1>6, <3>1, <3>2, <3>3
  <2>3. \A p \in live' : \E sh \in Shards : p \in ip_table'[sh]
    BY <1>2, <1>6, <2>1 DEF Base, IndexesAgree
  <2>4. ASSUME NEW p \in live', NEW q \in live', heap'[p].vip = heap'[q].vip
        PROVE  p = q
    <3>1. \A r \in live : heap'[r] = heap[r] /\ heap[r].vip # vip
      BY <1>1, <1>4, <1>5, <2>1, Zenon DEF SessionVips
    <3> QED
      BY <1>5, <2>1, <2>4, <3>1 DEF Base, IndexesAgree
  <2> QED
    BY <2>2, <2>3, <2>4, Zenon DEF IndexesAgree
<1>9. PoolMatchesSessions'
  <2>1. SessionVips' = SessionVips \cup {vip}
    BY <1>4, <1>5 DEF Added, SessionVips
  <2> QED
    BY <1>1, <2>1, Zenon DEF Base, PoolMatchesSessions, Added
<1> QED
  BY <1>7, <1>8, <1>9, Zenon DEF Base

(* A failed login marks a position that belongs to nobody.                 *)
LEMMA LoginFailedBase ==
    ASSUME Base, AuthLoginFailed
    PROVE  Base'
<1>1. PICK pos \in Pos :
        /\ ScanStopsAt(pos)
        /\ bitmap' = bitmap \cup {pos}
        /\ next_hint' = HintAfter(pos)
        /\ lost' = lost \cup {IpOf(pos)}
        /\ UNCHANGED <<open, tableVars, granted>>
  BY Zenon DEF AuthLoginFailed
<1>2. /\ IpOf(pos) \in Vip /\ PosOf(IpOf(pos)) = pos
      /\ IpOf(pos) \notin SessionVips
  BY <1>1, ScanStopFree, Zenon
<1>3. ServerTypeOK'
  BY <1>1, <1>2, HintInPos, Zenon DEF Base, ServerTypeOK, TableTypeOK, tableVars
<1>4. IndexesAgree' /\ SessionVips' = SessionVips
  BY <1>1 DEF Base, IndexesAgree, SessionVips, tableVars
<1>5. PoolMatchesSessions'
  BY <1>1, <1>2, <1>4, Zenon DEF Base, PoolMatchesSessions
<1> QED
  BY <1>3, <1>4, <1>5, Zenon DEF Base

(* The address 0 is not assignable, so only a failing scan returns it and  *)
(* an exhausted pool changes nothing.                                      *)
LEMMA PoolEmptyUnchanged ==
    ASSUME Base, AuthPoolEmpty
    PROVE  UNCHANGED serverVars
<1>1. ASSUME NEW pos \in Pos, ScanStopsAt(pos), NoIp = IpOf(pos)
      PROVE  FALSE
  BY <1>1, ScanStopFree, NoIpNotAssignable, ServerAssumption, Zenon
<1> QED
  BY <1>1, Zenon DEF AuthPoolEmpty, vf_ip_pool_alloc, serverVars, poolVars, tableVars

-----------------------------------------------------------------------------
\* Maintenance.

(* The cells vf_ss_delete finds for a set of addresses.                    *)
LEMMA FindEachLive ==
    ASSUME IndexesAgree, NEW vips \in SUBSET Vip
    PROVE  UNION {FindIp(vip) : vip \in vips} = {o \in live : heap[o].vip \in vips}
<1>1. \A vip \in vips : FindIp(vip) = {o \in live : heap[o].vip = vip}
  BY FindIpLive, Zenon
<1>2. ASSUME NEW o \in UNION {FindIp(vip) : vip \in vips}
      PROVE  o \in live /\ heap[o].vip \in vips
  BY <1>1, Zenon
<1>3. ASSUME NEW o \in live, heap[o].vip \in vips
      PROVE  o \in UNION {FindIp(vip) : vip \in vips}
  BY <1>1, <1>3, Zenon
<1> QED
  BY <1>2, <1>3, Zenon

(* What a maintenance run does for the addresses it finds dead: exactly    *)
(* their sessions, their bits and their promises disappear.                *)
Reclaimed(dead) ==
    /\ dead \subseteq SessionVips
    /\ live' = {o \in live : heap[o].vip \notin dead}
    /\ ip_table' = [sh \in Shards |-> {o \in ip_table[sh] : heap[o].vip \notin dead}]
    /\ sid_table' = [sh \in Shards |-> {o \in sid_table[sh] : heap[o].vip \notin dead}]
    /\ bitmap' = bitmap \ {PosOf(ip) : ip \in dead}
    /\ granted' = {g \in granted : g[1] \notin dead}
    /\ UNCHANGED <<heap, next_hint, open, lost>>

LEMMA MaintenanceReclaims ==
    ASSUME Base, Maintenance
    PROVE  \E dead : Reclaimed(dead)
<1>1. PICK batch \in SUBSET Expired :
        LET dead == {heap[o].vip : o \in {b \in batch : heap[b].idle >= DeadIdle}}
        IN  /\ vf_ss_get_expired(batch)
            /\ DeleteEach(dead)
            /\ FreeEach(dead)
            /\ granted' = {g \in granted : g[1] \notin dead}
            /\ UNCHANGED lost
  BY Zenon DEF Maintenance
<1> DEFINE dead == {heap[o].vip : o \in {b \in batch : heap[b].idle >= DeadIdle}}
           gone == UNION {FindIp(vip) : vip \in dead}
<1>2. dead \subseteq SessionVips
  <2>1. Linked \subseteq live
    BY DEF Base, IndexesAgree, Linked
  <2> QED
    BY <2>1, Zenon DEF Expired, SessionVips
<1>3. dead \subseteq Vip
  BY <1>2, LiveVip, Zenon DEF SessionVips, Base
<1>4. gone = {o \in live : heap[o].vip \in dead}
  BY <1>3, FindEachLive, Zenon DEF Base
<1>5. \A sh \in Shards : ip_table[sh] \subseteq live /\ sid_table[sh] \subseteq live
  BY Zenon DEF Base, IndexesAgree
<1>6. /\ live' = live \ gone
      /\ ip_table' = [sh \in Shards |-> ip_table[sh] \ gone]
      /\ sid_table' = [sh \in Shards |-> sid_table[sh] \ gone]
      /\ heap' = heap
  BY <1>1, Zenon DEF DeleteEach
<1>7. live' = {o \in live : heap[o].vip \notin dead}
  BY <1>4, <1>6, Zenon
<1>8. \A sh \in Shards :
        /\ ip_table[sh] \ gone = {o \in ip_table[sh] : heap[o].vip \notin dead}
        /\ sid_table[sh] \ gone = {o \in sid_table[sh] : heap[o].vip \notin dead}
  BY <1>4, <1>5, Zenon
<1>9. {i \in dead : open /\ i # NoIp /\ InRange(i)} = dead
  <2>1. open
    BY Zenon DEF Base, ServerTypeOK
  <2> QED
    BY <1>3, <2>1, AssignablePos, ServerAssumption, Zenon
<1>10. bitmap' = bitmap \ {PosOf(ip) : ip \in dead} /\ UNCHANGED <<next_hint, open>>
  BY <1>1, <1>9, Zenon DEF FreeEach
<1>11. Reclaimed(dead)
  BY <1>1, <1>2, <1>6, <1>7, <1>8, <1>10, Zenon DEF Reclaimed
<1> QED
  BY <1>11, Zenon

LEMMA ReclaimedBase ==
    ASSUME Base, NEW dead, Reclaimed(dead)
    PROVE  Base'
<1>1. ServerTypeOK'
  <2>1. TableTypeOK'
    BY Zenon DEF Base, ServerTypeOK, TableTypeOK, Reclaimed
  <2> QED
    BY <2>1, Zenon DEF Base, ServerTypeOK, Reclaimed
<1>2. IndexesAgree'
  <2>1. \A sh \in Shards :
          /\ ip_table'[sh] = {o \in ip_table[sh] : heap[o].vip \notin dead}
          /\ sid_table'[sh] = {o \in sid_table[sh] : heap[o].vip \notin dead}
    BY Zenon DEF Reclaimed
  <2>2. live' = {o \in live : heap[o].vip \notin dead} /\ heap' = heap
    BY Zenon DEF Reclaimed
  <2>3. ASSUME NEW sh \in Shards
        PROVE  /\ ip_table'[sh] = sid_table'[sh]
               /\ \A o \in ip_table'[sh] :
                    o \in live' /\ ShardOf[heap'[o].vip] = sh /\ ShardOf[heap'[o].sid] = sh
    <3>1. /\ ip_table[sh] = sid_table[sh]
          /\ \A o \in ip_table[sh] :
                o \in live /\ ShardOf[heap[o].vip] = sh /\ ShardOf[heap[o].sid] = sh
      BY Zenon DEF Base, IndexesAgree
    <3>2. ip_table'[sh] = sid_table'[sh]
      BY <2>1, <3>1, Zenon
    <3>3. ASSUME NEW o \in ip_table'[sh]
          PROVE  o \in live' /\ ShardOf[heap'[o].vip] = sh /\ ShardOf[heap'[o].sid] = sh
      BY <2>1, <2>2, <3>1, Zenon
    <3> QED
      BY <3>2, <3>3, Zenon
  <2>4. \A o \in live' : \E sh \in Shards : o \in ip_table'[sh]
    BY <2>1, <2>2 DEF Base, IndexesAgree
  <2>5. \A o, p \in live' : heap'[o].vip = heap'[p].vip => o = p
    BY <2>2, Zenon DEF Base, IndexesAgree
  <2> QED
    BY <2>3, <2>4, <2>5, Zenon DEF IndexesAgree
<1>3. SessionVips' = SessionVips \ dead
  BY Zenon DEF Reclaimed, SessionVips
<1>4. PoolMatchesSessions'
  <2>1. SessionVips \subseteq Vip /\ lost \subseteq Vip
    BY LiveVip, Zenon DEF Base, ServerTypeOK, SessionVips
  <2>2. \A ip \in Vip : PosOf(ip) \notin Reserved
    BY AssignablePos, ServerAssumption, Zenon
  <2>3. \A ip, other \in Vip : PosOf(ip) = PosOf(other) => ip = other
    BY AssignablePos, ServerAssumption, Zenon
  <2>4. dead \subseteq SessionVips /\ lost' = lost
        /\ bitmap' = bitmap \ {PosOf(ip) : ip \in dead}
    BY Zenon DEF Reclaimed
  <2>5. (SessionVips \cup lost) \ dead = SessionVips' \cup lost'
    BY <1>3, <2>4, Zenon DEF Base, PoolMatchesSessions
  <2>6. Reserved' = Reserved
    BY Zenon DEF Reserved, LastByte, IpOf, Pos
  <2>7. bitmap' = Reserved \cup {PosOf(ip) : ip \in (SessionVips \cup lost) \ dead}
    BY <2>1, <2>2, <2>3, <2>4, Zenon DEF Base, PoolMatchesSessions
  <2> QED
    BY <1>3, <2>4, <2>5, <2>6, <2>7, Zenon DEF Base, PoolMatchesSessions
<1> QED
  BY <1>1, <1>2, <1>4, Zenon DEF Base

-----------------------------------------------------------------------------
\* The theorems about pool and table.

LEMMA InitBase == ServerInit => Base
<1> SUFFICES ASSUME ServerInit PROVE Base
  OBVIOUS
<1>1. 0 \in Pos
  BY PoolAssumption DEF Pos
<1>2. (CHOOSE s \in Session : TRUE) \in Session
  <2>1. PICK v \in Vip, i \in Sid, a \in Addr : TRUE
    BY SessionAssumption, Zenon
  <2>2. [vip |-> v, sid |-> i, addr |-> a, idle |-> 0] \in Session
    BY SessionAssumption DEF Session
  <2> QED
    BY <2>2, Zenon
<1>3. ServerTypeOK
  BY <1>1, <1>2, Zenon DEF ServerInit, PoolInit, TableInit, ServerTypeOK, TableTypeOK, Reserved
<1>4. IndexesAgree
  BY Zenon DEF ServerInit, TableInit, IndexesAgree
<1>5. PoolMatchesSessions
  BY Zenon DEF ServerInit, PoolInit, TableInit, PoolMatchesSessions, SessionVips
<1> QED
  BY <1>3, <1>4, <1>5, Zenon DEF Base

LEMMA StepBase == Base /\ [ServerNext]_serverVars => Base'
<1> SUFFICES ASSUME Base, [ServerNext]_serverVars PROVE Base'
  OBVIOUS
<1>1. ASSUME NEW src \in Addr, AuthAccepted(src) PROVE Base'
  BY <1>1, AuthAcceptedAdds, AddedBase, Zenon
<1>2. CASE AuthLoginFailed
  BY <1>2, LoginFailedBase, Zenon
<1>3. CASE UNCHANGED serverVars
  BY <1>3 DEF serverVars, poolVars, tableVars, Base, ServerTypeOK, TableTypeOK, IndexesAgree,
              PoolMatchesSessions, SessionVips
<1>4. CASE AuthPoolEmpty
  BY <1>3, <1>4, PoolEmptyUnchanged, Zenon
<1>5. ASSUME NEW src \in Addr, KeepAlive(src) PROVE Base'
  BY <1>5, KeepAliveKeeps, KeysKeptBase, Zenon
<1>6. ASSUME NEW src \in Addr, DpdResponse(src) PROVE Base'
  BY <1>6, DpdResponseKeeps, KeysKeptBase, Zenon
<1>7. CASE Maintenance
  BY <1>7, MaintenanceReclaims, ReclaimedBase, Zenon
<1>8. CASE Tick
  BY <1>8, TickKeeps, KeysKeptBase, Zenon
<1> QED
  BY <1>1, <1>2, <1>3, <1>4, <1>5, <1>6, <1>7, <1>8, Zenon DEF ServerNext, Auth, Heartbeat

LEMMA BaseHolds == ServerSpec => []Base
  BY InitBase, StepBase, PTL DEF ServerSpec

(* The control plane never leaves the types of its state.                  *)
THEOREM ServerTypeCorrect == ServerSpec => []ServerTypeOK
<1>1. Base => ServerTypeOK
  BY Zenon DEF Base
<1> QED
  BY <1>1, BaseHolds, PTL

(* Whatever requests arrive and whatever maintenance removes, the bitmap   *)
(* of the pool marks exactly the reserved positions, the addresses of the  *)
(* sessions and those kept by failed logins (vfast_handle_auth,            *)
(* vfast_server_maintenance).                                              *)
THEOREM PoolMatches == ServerSpec => []PoolMatchesSessions
<1>1. Base => PoolMatchesSessions
  BY Zenon DEF Base
<1> QED
  BY <1>1, BaseHolds, PTL

(* Under every sequence of handlers the two indexes of session.c hold the  *)
(* same sessions in the same shards, and no two share an address.          *)
THEOREM ServerIndexesCorrect == ServerSpec => []IndexesAgree
<1>1. Base => IndexesAgree
  BY Zenon DEF Base
<1> QED
  BY <1>1, BaseHolds, PTL

-----------------------------------------------------------------------------
\* The promises made by AUTH_ACK, when the random ids are fresh.

Announced(g) == \E o \in live : heap[o].vip = g[1] /\ heap[o].sid = g[2]

Promises ==
    /\ \A o, p \in live : heap[o].sid = heap[p].sid => o = p
    /\ \A g \in granted : Announced(g)

LEMMA AddedPromises ==
    ASSUME Base, Promises, RandomIsFresh,
           NEW pos \in Pos, ScanStopsAt(pos), NEW src \in Addr,
           NEW sid \in vf_ss_generate_sid(IpOf(pos)), NEW o \in Obj,
           Added(pos, sid, src, o)
    PROVE  Promises'
<1>1. live \subseteq Obj /\ heap \in [Obj -> Session]
  BY Zenon DEF Base, ServerTypeOK, TableTypeOK
<1>2. /\ o \notin live /\ live' = live \cup {o}
      /\ heap'[o].vip = IpOf(pos) /\ heap'[o].sid = sid
      /\ \A p \in live : heap'[p] = heap[p]
  BY <1>1, Zenon DEF Added
<1>3. \A p \in live : heap[p].sid # sid
  BY Zenon DEF vf_ss_generate_sid
<1>4. \A p, q \in live' : heap'[p].sid = heap'[q].sid => p = q
  BY <1>2, <1>3 DEF Promises
<1>5. ASSUME NEW g \in granted'
      PROVE  \E p \in live' : heap'[p].vip = g[1] /\ heap'[p].sid = g[2]
  <2>1. CASE g \in granted
    BY <1>2, <2>1 DEF Promises, Announced
  <2>2. CASE g = <<IpOf(pos), sid>>
    BY <1>2, <2>2, Zenon
  <2> QED
    BY <2>1, <2>2, Zenon DEF Added
<1> QED
  BY <1>4, <1>5, Zenon DEF Promises, Announced

LEMMA ReclaimedPromises ==
    ASSUME Promises, NEW dead, Reclaimed(dead)
    PROVE  Promises'
<1>1. /\ live' = {o \in live : heap[o].vip \notin dead} /\ heap' = heap
      /\ granted' = {g \in granted : g[1] \notin dead}
  BY Zenon DEF Reclaimed
<1>2. ASSUME NEW g \in granted'
      PROVE  \E o \in live' : heap'[o].vip = g[1] /\ heap'[o].sid = g[2]
  BY <1>1, Zenon DEF Promises, Announced
<1> QED
  BY <1>1, <1>2, Zenon DEF Promises, Announced

LEMMA StepPromises == RandomIsFresh /\ Base /\ Promises /\ [ServerNext]_serverVars => Promises'
<1> SUFFICES ASSUME RandomIsFresh, Base, Promises, [ServerNext]_serverVars PROVE Promises'
  OBVIOUS
<1>1. ASSUME NEW src \in Addr, AuthAccepted(src) PROVE Promises'
  BY <1>1, AuthAcceptedAdds, AddedPromises, Zenon
<1>2. CASE AuthLoginFailed
  BY <1>2, Zenon DEF AuthLoginFailed, tableVars, Promises, Announced
<1>3. CASE UNCHANGED serverVars
  BY <1>3, Zenon DEF serverVars, tableVars, Promises, Announced
<1>4. CASE AuthPoolEmpty
  BY <1>3, <1>4, PoolEmptyUnchanged, Zenon
<1>5. ASSUME KeysKept PROVE Promises'
  BY <1>5 DEF KeysKept, Promises, Announced
<1>6. ASSUME NEW src \in Addr, KeepAlive(src) PROVE Promises'
  BY <1>5, <1>6, KeepAliveKeeps, Zenon
<1>7. ASSUME NEW src \in Addr, DpdResponse(src) PROVE Promises'
  BY <1>5, <1>7, DpdResponseKeeps, Zenon
<1>8. CASE Maintenance
  BY <1>8, MaintenanceReclaims, ReclaimedPromises, Zenon
<1>9. CASE Tick
  BY <1>5, <1>9, TickKeeps, Zenon
<1> QED
  BY <1>1, <1>2, <1>3, <1>4, <1>6, <1>7, <1>8, <1>9, Zenon DEF ServerNext, Auth, Heartbeat

LEMMA PromisesResolve == Base /\ Promises => GrantsResolve
<1> SUFFICES ASSUME Base, Promises, NEW g \in granted
             PROVE  /\ \A h \in granted : h[1] = g[1] => h = g
                    /\ \E o \in live :
                        /\ heap[o].vip = g[1] /\ heap[o].sid = g[2]
                        /\ FindIp(g[1]) = {o} /\ FindSid(g[2]) = {o}
  BY Zenon DEF GrantsResolve
<1>1. granted \subseteq Vip \X Sid
  BY Zenon DEF Base, ServerTypeOK
<1>2. PICK o \in live : heap[o].vip = g[1] /\ heap[o].sid = g[2]
  BY Zenon DEF Promises, Announced
<1>3. FindIp(g[1]) = {o}
  BY <1>1, <1>2, FindIpLive DEF Base, IndexesAgree
<1>4. FindSid(g[2]) = {o}
  BY <1>1, <1>2, FindSidLive DEF Base, Promises
<1>5. ASSUME NEW h \in granted, h[1] = g[1]
      PROVE  h = g
  <2>1. PICK p \in live : heap[p].vip = h[1] /\ heap[p].sid = h[2]
    BY Zenon DEF Promises, Announced
  <2>2. p = o
    BY <1>2, <1>5, <2>1 DEF Base, IndexesAgree
  <2>3. h[2] = g[2]
    BY <1>2, <2>1, <2>2, Zenon
  <2> QED
    BY <1>1, <1>5, <2>3
<1> QED
  BY <1>2, <1>3, <1>4, <1>5, Zenon

(* When vf_ss_generate_sid never draws an id in use, every AUTH_ACK that   *)
(* was sent and not reclaimed still leads, by address and by id, to the    *)
(* one session it announced, and no address was promised twice.            *)
THEOREM GrantsCorrect == RandomIsFresh /\ ServerSpec => []GrantsResolve
<1>1. ServerInit => Promises
  BY Zenon DEF ServerInit, TableInit, Promises
<1>2. RandomIsFresh /\ ServerSpec => []Promises
  <2> SUFFICES ASSUME RandomIsFresh PROVE ServerSpec => []Promises
    OBVIOUS
  <2>1. Base /\ Promises /\ [ServerNext]_serverVars => Promises'
    BY StepPromises, Zenon
  <2> QED
    BY <1>1, <2>1, BaseHolds, PTL DEF ServerSpec
<1> QED
  BY <1>2, BaseHolds, PromisesResolve, PTL
=============================================================================
