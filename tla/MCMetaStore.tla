---------------------------- MODULE MCMetaStore ----------------------------
(* The two layers of the metadata in one run.  The namespace: one client   *)
(* over Raft whose files expire, or two clients of a standalone node that  *)
(* work in trees of their own.  The store under it, with operations of     *)
(* every kind: a behaviour has one or the other.                           *)
EXTENDS MetaStore, ReplicatedKV, TLC

CONSTANTS c1, c2, a, b

VARIABLE part   \* which of the two runs; never changes

Use(names1, names2, raft) ==
  [names |-> (c1 :> names1) @@ (c2 :> names2), raft |-> raft, ttl |-> raft]
Safe == {Use({a, b}, {}, TRUE), Use({a}, {b}, FALSE)}

MCInit ==
  /\ MetaInit /\ KVInit
  /\ part = "namespace" \/ (part = "kv" /\ dep.raft)

MCNext ==
  \/ part = "namespace" /\ MetaNext /\ UNCHANGED <<part, kvVars>>
  \/ part = "kv" /\ KVNext /\ UNCHANGED <<part, metaVars>>

MCSpec == MCInit /\ [][MCNext]_<<part, metaVars, kvVars>>

(* The types of both.                                                      *)
TypesOK == MetaTypeOK /\ KVTypeOK

Symmetry == Permutations(Replica)
=============================================================================
