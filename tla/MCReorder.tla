------------------------------ MODULE MCReorder ------------------------------
(* Reorder for TLC: the packets that may arrive straddle the point where   *)
(* the sequence numbers wrap.                                              *)
EXTENDS Reorder, TLC

CONSTANTS Before, Beyond

AroundWrap == {SeqSpace - i : i \in 1 .. Before} \cup (0 .. Beyond)

EntrySymmetry == Permutations(Entries)

=============================================================================
