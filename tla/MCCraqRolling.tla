--------------------------- MODULE MCCraqRolling ---------------------------
(* A small instance of CraqRolling for TLC.                                *)
EXTENDS CraqRolling

(* No action reads acks, and SomeCopy only asks whether it is empty.       *)
View ==
  <<metaVars, chunks, idemVars, pc, lockVars, inbox, chainVer, pending, acks = {}, lifeVars>>
=============================================================================
