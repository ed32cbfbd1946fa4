--------------------------- MODULE MCCraqReaders ---------------------------
(* Small instances of CraqReaders for TLC.                                 *)
EXTENDS CraqReaders, TLC

Symmetry == Permutations(Value)
=============================================================================
