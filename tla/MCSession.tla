----------------------------- MODULE MCSession ------------------------------
(***************************************************************************)
(* Three virtual addresses and five ids, placed in four shards by the hash *)
(* of session.c on words of eight bits.  Three heap cells, interchangeable.*)
(***************************************************************************)
EXTENDS SessionIds, TLC

CONSTANTS o1, o2, o3, a1

Bits(n) == {b \in 0 .. 7 : (n \div 2^b) % 2 = 1}

MCVip == {18, 19, 33}
MCSid == {0, 2, 15, 18, 19}
MCAddr == {a1}
MCShards == 0 .. 3
MCWordOf == [x \in MCVip \cup MCSid |-> Bits(x)]
MCShardOf == [x \in MCVip \cup MCSid |->
    CHOOSE n \in MCShards : Bits(n) = Align!vpn_get_shard_idx(MCWordOf[x])]
MCObj == {o1, o2, o3}
CellSymmetry == Permutations(MCObj)
=============================================================================
