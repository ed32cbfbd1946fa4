-------------------------- MODULE MCChunkRegistry --------------------------
(* Two parts of a node's work on chunks that share nothing, in one run:    *)
(* the registry, with a chain of two nodes, and requests on their way      *)
(* along chains of three nodes that wait for one another.                  *)
EXTENDS ChunkRegistry, PutPath, TLC

CONSTANT Part

VARIABLE part   \* which of the two runs; never changes

allVars == <<part, vars, pathVars>>

(* Two puts and a deletion.                                                *)
Routes == ("a" :> <<1, 2, 3>>) @@ ("b" :> <<2, 3, 1>>) @@ ("d" :> <<1, 2>>)
Writes ==
  [p \in Request |->
     [stage |-> IF p = "d" THEN "remove" ELSE "prepare",
      chainID |-> IF p = "a" THEN 0 ELSE 1, chainVer |-> IF p = "b" THEN 0 ELSE 2,
      updateVer |-> 1, commitVer |-> 1, replicas |-> Routes[p], syncing |-> p = "b"]]

MCInit ==
  /\ part \in Part
  /\ Init /\ PathInit
  /\ IF part = "path" THEN gcOn = FALSE ELSE grpc = {}

RegistryStep(A) == part = "registry" /\ A /\ UNCHANGED <<part, pathVars>>
PathStep(A) == part = "path" /\ A /\ UNCHANGED <<part, vars>>

MCNext == RegistryStep(Next) \/ PathStep(PathNext)

MCFairSpec ==
  /\ MCInit /\ [][MCNext]_allVars
  /\ WF_allVars(RegistryStep(Repair))
  /\ \A n \in Node :
       /\ WF_allVars(RegistryStep(Apply(n)))
       /\ WF_allVars(RegistryStep(RunGC(n) \/ GCOrphans(n)))
  /\ WF_allVars(PathStep(Progress))

(* The types of both.                                                      *)
TypesOK == TypeOK /\ PathTypeOK

(* As in module PutPath: every request is answered.                        *)
EveryPutEnds == part = "path" => PutsEnd
=============================================================================
