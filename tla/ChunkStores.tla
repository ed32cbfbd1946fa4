---------------------------- MODULE ChunkStores ----------------------------
(***************************************************************************)
(* The chunk store of one node (pkg/chunk): MemoryStore or DiskStore, with *)
(* or without a quota.  Puts of different chunks run concurrently, those   *)
(* of one chunk one after the other (chunkLock of the service); GC deletes *)
(* chunks and the flush loop syncs them beside the puts; the process may   *)
(* be killed at any step.  A payload is its length.                        *)
(***************************************************************************)
EXTENDS Integers, FiniteSets, FiniteSetsExt

CONSTANTS
  Chunk,
  Length,     \* lengths of payloads
  Quotas,     \* values of quotaBytes, 0 for none
  MaxPuts,    \* bounds: puts and deletions,
  MaxKills    \* and times the process is killed

VARIABLES
  backend,   \* "memory" or "disk"; never changes
  quota,     \* quotaBytes; never changes
  chunks,    \* what the store holds of each chunk: a length, Absent or Torn
  tmp,       \* the same for the .tmp files of DiskStore
  mu,        \* the chunk whose Put holds DiskStore.mu, or NoChunk
  put,       \* per chunk: the Put in progress
  acked,     \* history: per chunk, the payload of the last Put that returned nil
  durable,   \* chunks whose file has been synced since it was written
  flush,     \* the Flush in progress
  peak,      \* history: the most puts that were in progress at the same time
  puts, kills

storeVars == <<backend, quota, chunks, tmp, mu, put, acked, durable, flush, peak, puts, kills>>

Absent == 0
Torn == -1        \* a file that is being written
NoChunk == "none"
NoPut == [step |-> "idle", data |-> Absent, used |-> 0, old |-> 0]
NoFlush == [step |-> "idle", todo |-> {}, owed |-> {}]

(* An empty payload is never stored, and "none" is no chunk id.            *)
ASSUME StoreConstants ==
  /\ IsFiniteSet(Chunk) /\ NoChunk \notin Chunk
  /\ IsFiniteSet(Length) /\ Length # {} /\ Length \subseteq Nat \ {0}
  /\ Quotas \subseteq Nat /\ MaxPuts \in Nat /\ MaxKills \in Nat

StoreInit ==
  /\ backend \in {"memory", "disk"} /\ quota \in Quotas
  /\ chunks = [c \in Chunk |-> Absent] /\ tmp = [c \in Chunk |-> Absent]
  /\ mu = NoChunk
  /\ put = [c \in Chunk |-> NoPut]
  /\ acked = [c \in Chunk |-> Absent] /\ durable = {}
  /\ flush = NoFlush
  /\ peak = 0 /\ puts = 0 /\ kills = 0

(* The lock is held within one step by everything but DiskStore.Put.       *)
Unlocked == mu = NoChunk

Total(held) == MapThenSumSet(LAMBDA c : held[c], Chunk)
UsageBytes == Total(chunks)

Goto(c, step) == put' = [put EXCEPT ![c].step = step]

---------------------------------------------------------------------------
(* QuotaMemory.Put and QuotaDisk.Put: the usage, the old size and the      *)
(* store are three critical sections.                                      *)

BeginPut(c, d) ==
  /\ put[c] = NoPut /\ puts < MaxPuts
  /\ puts' = puts + 1
  /\ put' = [put EXCEPT ![c] =
       [NoPut EXCEPT !.step = IF quota > 0 THEN "usage" ELSE "store", !.data = d]]
  /\ peak' = Max({peak, Cardinality({e \in Chunk : put'[e] # NoPut})})
  /\ UNCHANGED <<backend, quota, chunks, tmp, mu, acked, durable, flush, kills>>

ReadUsage(c) ==
  /\ put[c].step = "usage" /\ Unlocked
  /\ put' = [put EXCEPT ![c].step = "old", ![c].used = UsageBytes]
  /\ UNCHANGED <<backend, quota, chunks, tmp, mu, acked, durable, flush, peak, puts, kills>>

ReadOld(c) ==
  /\ put[c].step = "old" /\ Unlocked
  /\ put' = [put EXCEPT ![c].step = "check", ![c].old = chunks[c]]
  /\ UNCHANGED <<backend, quota, chunks, tmp, mu, acked, durable, flush, peak, puts, kills>>

(* Fault: the new payload is left out of the sum.                          *)
ExceedsUsed(c) == put[c].used - put[c].old > quota

Exceeds(c) == put[c].used - put[c].old + put[c].data > quota

Check(c) ==
  /\ put[c].step = "check"
  /\ IF Exceeds(c) THEN put' = [put EXCEPT ![c] = NoPut] ELSE Goto(c, "store")
  /\ UNCHANGED <<backend, quota, chunks, tmp, mu, acked, durable, flush, peak, puts, kills>>

(* MemoryStore.Put copies into the old buffer if it is large enough.       *)
StoreMemory(c) ==
  /\ backend = "memory" /\ put[c].step = "store"
  /\ chunks' = [chunks EXCEPT ![c] = put[c].data]
  /\ Goto(c, "return")
  /\ UNCHANGED <<backend, quota, tmp, mu, acked, durable, flush, peak, puts, kills>>

(* Fault: the file is written in place.                                    *)
OpenInPlace(c) ==
  /\ backend = "disk" /\ put[c].step = "store" /\ Unlocked
  /\ mu' = c /\ chunks' = [chunks EXCEPT ![c] = Torn]
  /\ Goto(c, "write")
  /\ UNCHANGED <<backend, quota, tmp, acked, durable, flush, peak, puts, kills>>

(* DiskStore.Put: WriteFile truncates the .tmp file and fills it, Rename   *)
(* puts it in the place of the chunk; nothing is synced.                   *)
OpenTmp(c) ==
  /\ backend = "disk" /\ put[c].step = "store" /\ Unlocked
  /\ mu' = c /\ tmp' = [tmp EXCEPT ![c] = Torn]
  /\ Goto(c, "write")
  /\ UNCHANGED <<backend, quota, chunks, acked, durable, flush, peak, puts, kills>>

WriteTmp(c) ==
  /\ put[c].step = "write"
  /\ tmp' = [tmp EXCEPT ![c] = put[c].data]
  /\ Goto(c, "rename")
  /\ UNCHANGED <<backend, quota, chunks, mu, acked, durable, flush, peak, puts, kills>>

Rename(c) ==
  /\ put[c].step = "rename"
  /\ chunks' = [chunks EXCEPT ![c] = tmp[c]] /\ tmp' = [tmp EXCEPT ![c] = Absent]
  /\ durable' = durable \ {c} /\ flush' = [flush EXCEPT !.owed = @ \ {c}]
  /\ mu' = NoChunk
  /\ Goto(c, "return")
  /\ UNCHANGED <<backend, quota, acked, peak, puts, kills>>

Return(c) ==
  /\ put[c].step = "return"
  /\ acked' = [acked EXCEPT ![c] = put[c].data]
  /\ put' = [put EXCEPT ![c] = NoPut]
  /\ UNCHANGED <<backend, quota, chunks, tmp, mu, durable, flush, peak, puts, kills>>

(* GC: Delete, beside any Put, even one that has stored the chunk and is   *)
(* about to return.                                                        *)
Delete(c) ==
  /\ Unlocked /\ chunks[c] # Absent /\ puts < MaxPuts
  /\ puts' = puts + 1
  /\ chunks' = [chunks EXCEPT ![c] = Absent]
  /\ acked' = [acked EXCEPT ![c] = Absent]
  /\ put' = [put EXCEPT ![c].data = IF put[c].step = "return" THEN Absent ELSE @]
  /\ durable' = durable \ {c} /\ flush' = [flush EXCEPT !.owed = @ \ {c}]
  /\ UNCHANGED <<backend, quota, tmp, mu, peak, kills>>

---------------------------------------------------------------------------
(* Flush holds no lock while it walks over the files.  The walk meets the  *)
(* chunks that are there from beginning to end; one that comes or goes     *)
(* meanwhile it may or may not meet, and one it has met and cannot open    *)
(* any more ends it with an error.  A memory store has nothing to flush.   *)

Present == {c \in Chunk : chunks[c] # Absent}

FlushStart ==
  /\ backend = "disk" /\ flush = NoFlush
  /\ flush' = [step |-> "walk", todo |-> Present, owed |-> Present]
  /\ UNCHANGED <<backend, quota, chunks, tmp, mu, put, acked, durable, peak, puts, kills>>

(* Fault: a file that cannot be opened is counted as synced.               *)
FlushSkip(c) ==
  /\ flush.step = "walk" /\ c \in flush.todo
  /\ flush' = [flush EXCEPT !.todo = @ \ {c}]
  /\ UNCHANGED <<backend, quota, chunks, tmp, mu, put, acked, durable, peak, puts, kills>>

FlushChunk(c) ==
  /\ flush.step = "walk" /\ c \in flush.todo
  /\ IF chunks[c] # Absent
     THEN durable' = durable \union {c} /\ flush' = [flush EXCEPT !.todo = @ \ {c}]
     ELSE UNCHANGED durable /\ flush' \in {NoFlush, [flush EXCEPT !.todo = @ \ {c}]}
  /\ UNCHANGED <<backend, quota, chunks, tmp, mu, put, acked, peak, puts, kills>>

(* It returns nil.                                                         *)
FlushDone ==
  /\ flush.step = "walk" /\ flush.todo = {}
  /\ flush' = NoFlush
  /\ UNCHANGED <<backend, quota, chunks, tmp, mu, put, acked, durable, peak, puts, kills>>

(* The process is killed: memory is gone, files are as they were.          *)
Kill ==
  /\ kills < MaxKills /\ kills' = kills + 1
  /\ IF backend = "memory"
     THEN chunks' = [c \in Chunk |-> Absent] /\ acked' = [c \in Chunk |-> Absent]
     ELSE UNCHANGED <<chunks, acked>>
  /\ put' = [c \in Chunk |-> NoPut] /\ mu' = NoChunk /\ flush' = NoFlush
  /\ UNCHANGED <<backend, quota, tmp, durable, peak, puts>>

PutStep(c) ==
  \/ ReadUsage(c) \/ ReadOld(c) \/ Check(c) \/ StoreMemory(c)
  \/ OpenTmp(c) \/ WriteTmp(c) \/ Rename(c) \/ Return(c)

StoreNext ==
  \/ \E c \in Chunk : (\E d \in Length : BeginPut(c, d)) \/ PutStep(c) \/ Delete(c) \/ FlushChunk(c)
  \/ FlushStart \/ FlushDone \/ Kill

StoreSpec == StoreInit /\ [][StoreNext]_storeVars

---------------------------------------------------------------------------
StoreTypeOK ==
  /\ chunks \in [Chunk -> Length \union {Absent, Torn}]
  /\ tmp \in [Chunk -> Length \union {Absent, Torn}]
  /\ mu \in Chunk \union {NoChunk} /\ durable \subseteq Chunk
  /\ \A c \in Chunk : put[c].used >= 0

(* Puts that run one at a time never exceed the quota, and n at a time     *)
(* exceed it by no more than n - 1 payloads, although the check is not     *)
(* atomic with the store and a deletion may come between the two           *)
(* (memory.go:101-113, store_open.go:21-36).                               *)
QuotaOvershoot ==
  quota > 0 => UsageBytes <= quota + (Max({peak, 1}) - 1) * Max(Length)

(* What a reader or a restart finds of a chunk is a whole payload that was *)
(* put, the last one acknowledged unless a later put is under way or was   *)
(* cut short: a kill between the write and the rename leaves a .tmp file   *)
(* that nobody reads (disk.go:47-60).                                      *)
StoredWhole ==
  \A c \in Chunk :
    /\ chunks[c] # Torn
    /\ acked[c] # Absent => chunks[c] # Absent
    /\ mu # c /\ put[c] = NoPut /\ kills = 0 => chunks[c] = acked[c]

(* A Flush that returns nil has synced every chunk that was stored when it *)
(* began and has been neither rewritten nor deleted since, although it     *)
(* walks without the lock (disk.go:92-120).                                *)
FlushedIsSynced ==
  [][flush.step = "walk" /\ flush.todo = {} /\ flush' = NoFlush /\ kills' = kills =>
       flush.owed \subseteq durable]_storeVars
=============================================================================
