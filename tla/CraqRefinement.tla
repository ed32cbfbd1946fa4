-------------------------- MODULE CraqRefinement --------------------------
(***************************************************************************)
(* Craq's writes implement CommittedChunk.  The register is TAIL's copy: a *)
(* put takes effect when TAIL stores its payload, since nothing fails in   *)
(* TAIL's handler after that.                                              *)
(***************************************************************************)
EXTENDS Craq

(* The version of the payload a target has stored.                         *)
HeldVer(i) == IF pc[i] = "stored" THEN ver[i] ELSE UpdateVer[i]

TailVersion == HeldVer(TAIL)
TailValue == chunks[TAIL]
OwnSuccesses == {[data |-> a.data, ver |-> a.ver] : a \in {b \in acks : ~b.cached}}

Abstract == INSTANCE CommittedChunk
              WITH cver <- TailVersion, cval <- TailValue, acked <- OwnSuccesses

(* Puts, with their lost, repeated and cached requests, are a register     *)
(* with growing versions, and HEAD's own success is for the value that     *)
(* register holds.                                                         *)
ImplementsCommittedChunk == Abstract!Spec

---------------------------------------------------------------------------
(* Why it does, when no request outlives its call.  What a handler works   *)
(* on is what it has stored ...                                            *)
Payload(i) ==
  /\ pc[i] # "idle" => call[i].data = chunks[i] /\ chunks[i] \in Value
  /\ pc[i] = "stored" => UpdateVer[i] <= ver[i]
  /\ HeldVer(i) = 0 <=> chunks[i] = Absent

(* ... and what it was sent is what its predecessor has stored, or a put.  *)
Sent(i) ==
  \A c \in inbox[i] : IF i = HEAD THEN c.req.UpdateVer = 0 /\ c.data \in Value
                                  ELSE c.live /\ c.data = chunks[i - 1]

(* Everyone before a target at work waits for it ...                       *)
Waiting(i, j) == pc[j] # "idle" \/ inbox[j] # {} => pc[i] = "forwarding" /\ (pc[j] # "idle" => call[j].live)

(* ... no target is ahead of one before it, targets with the same version  *)
(* hold the same payload ...                                               *)
Ordered(i, j) ==
  /\ HeldVer(j) <= HeldVer(i) /\ UpdateVer[j] <= UpdateVer[i]
  /\ HeldVer(j) = HeldVer(i) => chunks[j] = chunks[i]

(* ... and what a target was told, or remembers, to be committed behind it *)
(* is committed by everyone behind it.                                     *)
Behind(i, j) ==
  /\ pc[i] = "acked" => ver[i] <= CommitVer[j]
  /\ i # HEAD => \A k \in okKeys[i] : k.UpdateVer <= CommitVer[j]

ChainInv ==
  /\ \A i \in Target : Payload(i) /\ Sent(i)
  /\ \A i, j \in Target : i < j => Waiting(i, j) /\ Ordered(i, j) /\ Behind(i, j)
=============================================================================
