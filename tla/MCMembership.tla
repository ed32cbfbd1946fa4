---------------------------- MODULE MCMembership ----------------------------
(* A small instance of Membership for TLC: a bootstrap node and a joiner.  *)
EXTENDS Membership
CONSTANTS n0, n1
=============================================================================
