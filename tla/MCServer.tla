------------------------------ MODULE MCServer ------------------------------
(***************************************************************************)
(* Six pool positions, three of them reserved, so that three clients fill  *)
(* the pool; two shards (odd and even keys); probing after one tick and    *)
(* death after two.  expired_list is one entry too short for all sessions. *)
(***************************************************************************)
EXTENDS VpnServer, TLC

CONSTANTS o1, o2, o3, a1, a2

MCVip == Assignable
MCSid == 0 .. 4
MCShardOf == [x \in MCVip \cup MCSid |-> x % 2]
MCObj == {o1, o2, o3}
CellSymmetry == Permutations(MCObj)
=============================================================================
