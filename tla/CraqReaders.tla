---------------------------- MODULE CraqReaders ----------------------------
(***************************************************************************)
(* Readers beside the writers of Craq: GetChunk (service.go:258-269) looks *)
(* at the metadata and then at the chunk store, two steps under two        *)
(* different mutexes and without the chunk lock.  A reader changes nothing *)
(* that a writer or another reader looks at, so one is enough.             *)
(***************************************************************************)
EXTENDS Craq

VARIABLE checked    \* where the reader has passed the version check, as a set

rvars == <<vars, checked>>

RInit == Init /\ checked = {}

(* getMeta, and the early return for a version that is not committed.      *)
CheckMeta(i) ==
  /\ checked = {}
  /\ Readable(i)
  /\ checked' = {i}
  /\ UNCHANGED vars

(* Chunks.Get, and the return to the client.                               *)
ReadChunk(i) ==
  /\ i \in checked
  /\ checked' = {}
  /\ UNCHANGED vars

RNext ==
  \/ WriteNext /\ UNCHANGED checked
  \/ \E i \in Target : CheckMeta(i) \/ ReadChunk(i)

RSpec == RInit /\ [][RNext]_rvars

(* The version the payload in i's store belongs to: the handler stores the *)
(* payload before it sets the metadata.                                    *)
DataVer(i) == IF pc[i] = "stored" THEN ver[i] ELSE UpdateVer[i]

(* A read, at whichever target, returns the newest put that was            *)
(* acknowledged by its own handlers before the read returns, or a newer    *)
(* one: HEAD answers only after every target holds the version.            *)
ReadsSeeAcks ==
  [][\A i \in Target : ReadChunk(i) =>
       \A a \in acks : ~a.cached => DataVer(i) >= a.ver]_rvars

=============================================================================
