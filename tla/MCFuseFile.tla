----------------------------- MODULE MCFuseFile -----------------------------
(* Two parts of the data path that share nothing, in one run: the file of  *)
(* a mount, with blocks of two bytes, and the chunk store of a node.       *)
EXTENDS FuseFile, ChunkStores, TLC

VARIABLE part   \* which of the two runs; never changes

Parts ==
  /\ Init /\ StoreInit
  /\ \/ part = "file" /\ backend = "disk" /\ quota = 0
     \/ part = "store"

Step ==
  \/ part = "file" /\ Next /\ UNCHANGED <<part, storeVars>>
  \/ part = "store" /\ StoreNext /\ UNCHANGED <<part, vars>>

MCSpec == Parts /\ [][Step]_<<part, vars, storeVars>>

(* The types of both.                                                      *)
TypesOK == TypeOK /\ StoreTypeOK

(* Nothing is claimed of a file once `lost' is set: it is not followed     *)
(* any further.                                                            *)
Followed == ~lost

Symmetry == Permutations(Byte)
=============================================================================
