------------------------------ MODULE MCRekey -------------------------------
(***************************************************************************)
(* Two sessions and up to three rotations over each of three paths: a      *)
(* reliable one, one that loses datagrams, one that loses and reorders.    *)
(* Two wire ids make the truncated key id repeat.                          *)
(***************************************************************************)
EXTENDS Rekey

MCPaths == {[losses |-> 0, reorder |-> FALSE], [losses |-> 2, reorder |-> FALSE],
            [losses |-> 2, reorder |-> TRUE]}

\* One datagram lost, the others in order.
MCLossyPath == {[losses |-> 1, reorder |-> FALSE]}
=============================================================================
