-------------------------- MODULE CommittedChunk --------------------------
(***************************************************************************)
(* What strict CRAQ promises of one chunk, seen from outside the chain:    *)
(* one register, whose versions only grow, and a success that is returned  *)
(* only for the value the register holds at that moment (ARCHITECTURE.md,  *)
(* the strict write rule and "TAIL holds the chunk = the whole chain has   *)
(* committed it").                                                         *)
(***************************************************************************)
EXTENDS Naturals

CONSTANTS Value, Absent

VARIABLES
  cver,     \* version of the register
  cval,     \* its value
  acked     \* history: the [data, ver] pairs that were acknowledged

Init == cver = 0 /\ cval = Absent /\ acked = {}

(* A put takes effect.  Versions may be skipped: a put that failed half    *)
(* way has used one up.                                                    *)
Apply(v) ==
  /\ cver' \in Nat /\ cver' > cver
  /\ cval' = v
  /\ UNCHANGED acked

(* A success is returned to the client of the put in force.                *)
Acknowledge ==
  /\ cver > 0
  /\ acked' = acked \cup {[data |-> cval, ver |-> cver]}
  /\ UNCHANGED <<cver, cval>>

Next == Acknowledge \/ \E v \in Value : Apply(v)

Spec == Init /\ [][Next]_<<cver, cval, acked>>
=============================================================================
