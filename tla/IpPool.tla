------------------------------- MODULE IpPool -------------------------------
(***************************************************************************)
(* The virtual-address pool of the server (ippool.c): a bitmap over the    *)
(* positions 0 .. pool_size-1 of an address range and a rotating hint.     *)
(* Every operation holds pool->lock from its first access to the bitmap to *)
(* its last, so each is one step.  Addresses are in host byte order; 0 is  *)
(* the "no address" result.  This module holds the state and the           *)
(* operations; IpPoolSpec adds the callers, VpnServer composes it.         *)
(***************************************************************************)
EXTENDS Integers

CONSTANTS
    StartIp,        \* pool->start_ip
    PoolSize,       \* pool->pool_size
    LastByteMod,    \* 256 in the code: the modulus that yields the last byte
    IpMod           \* 2^32 in the code: the width of uint32_t

\* size == 0 is rejected by vf_ip_pool_init; the range lies strictly below the
\* top of the address space, as any configured private range does.
ASSUME PoolAssumption ==
    /\ StartIp \in Nat /\ PoolSize \in Nat \ {0}
    /\ LastByteMod \in Nat \ {0} /\ IpMod \in Nat
    /\ StartIp + PoolSize < IpMod

VARIABLES
    bitmap,         \* positions whose bit is set
    next_hint,      \* where the next scan starts
    open            \* pool->bitmap # NULL

Pos == 0 .. PoolSize - 1
NoIp == 0
IpOf(pos) == (StartIp + pos) % IpMod
PosOf(ip) == ip - StartIp

\* The last address of the range refused by an off-by-one bound.
MutInRange(ip) == ip >= StartIp /\ ip < (StartIp + PoolSize - 1) % IpMod

\* The range check of vf_ip_pool_free; its upper bound is computed in uint32_t.
InRange(ip) == ip >= StartIp /\ ip < (StartIp + PoolSize) % IpMod

LastByte(pos) == IpOf(pos) % LastByteMod
Reserved == {pos \in Pos : LastByte(pos) \in {0, 1, LastByteMod - 1}}

\* The addresses a caller may ever be given.
Assignable == {IpOf(pos) : pos \in Pos \ Reserved}

\* The gateway address forgotten by the exclusion loop.
MutPoolInit ==
    /\ bitmap = {pos \in Pos : LastByte(pos) \in {0, LastByteMod - 1}}
    /\ next_hint = 0
    /\ open = TRUE

PoolInit ==
    /\ bitmap = Reserved
    /\ next_hint = 0
    /\ open = TRUE

\* The i-th position the scan looks at, and where the scan ends.
Probe(i) == (next_hint + i) % PoolSize
ScanStopsAt(pos) ==
    \E i \in Pos :
        /\ open
        /\ pos = Probe(i)
        /\ pos \notin bitmap
        /\ \A j \in 0 .. i - 1 : Probe(j) \in bitmap

\* The scan stops one position early.
MutScanFails == open => \A i \in 0 .. PoolSize - 2 : Probe(i) \in bitmap

ScanFails == open => \A i \in Pos : Probe(i) \in bitmap

\* The hint never moves.
MutHintAfter(pos) == 0

\* The hint is not wrapped around.
MutHintNoWrap(pos) == pos + 1

HintAfter(pos) == (pos + 1) % PoolSize

\* vf_ip_pool_alloc returns ip.
vf_ip_pool_alloc(ip) ==
    /\ \/ \E pos \in Pos :
            /\ ScanStopsAt(pos)
            /\ ip = IpOf(pos)
            /\ bitmap' = bitmap \cup {pos}
            /\ next_hint' = HintAfter(pos)
       \/ /\ ScanFails
          /\ ip = NoIp
          /\ UNCHANGED <<bitmap, next_hint>>
    /\ UNCHANGED open

\* vf_ip_pool_free called on each address of ips.
FreeEach(ips) ==
    /\ bitmap' = bitmap \ {PosOf(ip) : ip \in
                              {i \in ips : open /\ i # NoIp /\ InRange(i)}}
    /\ UNCHANGED <<next_hint, open>>

vf_ip_pool_free(ip) == FreeEach({ip})

\* The bitmap is released: afterwards allocations return 0, frees do nothing.
vf_ip_pool_destroy ==
    /\ open' = FALSE
    /\ bitmap' = {}
    /\ UNCHANGED next_hint
=============================================================================
