--------------------------- MODULE MCMountClient ---------------------------
(* Three nodes, two of them registered when the mount starts.              *)
EXTENDS MountClient
TwoUrls == <<2, 1>>
DifferentRF == [n \in Node |-> IF n = 3 THEN 1 ELSE 2]
MembershipOrCalls ==
  {[log |-> 4, faults |-> 0, calls |-> FALSE],
   [log |-> 3, faults |-> 1, calls |-> FALSE],
   [log |-> 3, faults |-> 0, calls |-> TRUE],
   [log |-> 2, faults |-> 2, calls |-> TRUE]}
OneFault == {[log |-> 2, faults |-> 1, calls |-> TRUE]}
=============================================================================
