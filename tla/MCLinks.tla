------------------------------- MODULE MCLinks -------------------------------
(* Links for TLC.                                                          *)
EXTENDS Links, TLC

NameSymmetry == Permutations(Names \ Servers)

=============================================================================
