----------------------------- MODULE SessionIds -----------------------------
(***************************************************************************)
(* The session table with the ids and addresses as the words they are: the *)
(* shards are those of vpn_get_shard_idx, and the ids that the table draws *)
(* for an address are compared with those that the bit arithmetic of       *)
(* vf_ss_generate_sid (SidAlign) computes for it.                          *)
(***************************************************************************)
EXTENDS SessionSpec

CONSTANTS
    Half, ShardBits,    \* see SidAlign
    WordOf              \* the bits of an address or an id

Align == INSTANCE SidAlign

ASSUME WordAssumption ==
    /\ Half \in Nat /\ ShardBits \in 0 .. Half
    /\ WordOf \in [Vip \cup Sid -> Align!Word]
    /\ \A x, y \in Vip \cup Sid :
        ShardOf[x] = ShardOf[y] <=> Align!vpn_get_shard_idx(WordOf[x])
                                        = Align!vpn_get_shard_idx(WordOf[y])

\* The ids the code may compute for each address.
AllExact == Align!GeneratorExact
ComputedIds == [vip \in Vip |->
                    {id \in Sid : WordOf[id] \in Align!Computed(WordOf[vip])}]

(* vf_ss_generate_sid yields for an address all the words that hash to its *)
(* shard and no other, so the ids vf_ss_update may link next under the     *)
(* lock of the address are those of these that the random bits may give.   *)
GeneratorExact ==
    /\ AllExact
    /\ \A vip \in Vip :
        vf_ss_generate_sid(vip) =
            {id \in ComputedIds[vip] :
                RandomIsFresh => id # 0 /\ \A o \in live : heap[o].sid # id}
=============================================================================
