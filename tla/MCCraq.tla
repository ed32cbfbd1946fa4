------------------------------ MODULE MCCraq ------------------------------
(* Small instances of Craq for TLC.                                        *)
EXTENDS Craq, TLC

Symmetry == Permutations(Value)
=============================================================================
