------------------------------ MODULE SidAlign ------------------------------
(***************************************************************************)
(* The arithmetic that aligns a session id with the shard of its virtual   *)
(* address (vpn_get_shard_idx and vf_ss_generate_sid of session.c), on     *)
(* words of 2*Half bits.  The code has Half = 16 and 16 shards; every      *)
(* shift and mask keeps its shape.  A word is the set of the positions of  *)
(* its ones, so that ^, & and | are operations on sets.  SessionTable      *)
(* relies on the result.                                                   *)
(***************************************************************************)
EXTENDS Integers

CONSTANTS
    Half,           \* bits in half a word
    ShardBits       \* VPN_SESSION_SHARD_COUNT is 2^ShardBits

Word == SUBSET (0 .. 2 * Half - 1)
HighMask == Half .. 2 * Half - 1        \* 0xFFFF0000
MidMask == ShardBits .. Half - 1        \* 0x0000FFF0
ShardMask == 0 .. ShardBits - 1         \* VPN_SESSION_SHARD_COUNT - 1

Xor(a, b) == (a \ b) \cup (b \ a)
DownHalf(w) == {b \in 0 .. Half - 1 : b + Half \in w}       \* w >> 16

vpn_get_shard_idx(ip) == Xor(ip, DownHalf(ip)) \cap ShardMask

\* The random high half is left out of the equation for the low bits.
MutGenerateSid(v, raw) ==
    LET high == raw \cap HighMask
    IN  high \cup (raw \cap MidMask) \cup vpn_get_shard_idx(v)

vf_ss_generate_sid(v, raw) ==
    LET high == raw \cap HighMask
        needed == Xor(vpn_get_shard_idx(v), DownHalf(high)) \cap ShardMask
    IN  high \cup (raw \cap MidMask) \cup needed

-----------------------------------------------------------------------------
\* The ids computed for an address over all random words, and the words in
\* the shard of the address.
Computed(v) == {vf_ss_generate_sid(v, raw) : raw \in Word}
InShard(v) == {w \in Word : vpn_get_shard_idx(w) = vpn_get_shard_idx(v)}

(* The masks and shifts of vf_ss_generate_sid are exact: the random words  *)
(* yield for an address all the words that hash to its shard, and no other *)
(* (the assertion session.c:74 comments out).                              *)
GeneratorExact == \A v \in Word : Computed(v) = InShard(v)
=============================================================================
