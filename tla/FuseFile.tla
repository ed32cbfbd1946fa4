------------------------------ MODULE FuseFile ------------------------------
(***************************************************************************)
(* One file of one mount: File of fusefs/fs.go over the blockWriter of     *)
(* storage/block_writer.go and the ChunkStore of storage/chunk.go.  An     *)
(* application with a single thread appends, syncs, closes and shortens    *)
(* the file; the mount may die at any step, and the calls to the nodes may *)
(* fail.  close() does not wait for Release, which may publish the size    *)
(* while the application has opened the file again.                        *)
(*                                                                         *)
(* A block is stored by one PUT and the chunk service is taken at its      *)
(* word: what it acknowledged it holds.  The file lies in one logical      *)
(* chunk (meta/layout.go), of which Truncate to 0 deletes every block.     *)
(***************************************************************************)
EXTENDS Naturals, Sequences

CONSTANTS
  BlockSize,   \* bytes of a block (4 MiB)
  Byte,        \* the bytes an application writes
  Zero,        \* the byte a new buffer is filled with
  MaxSize,     \* bound on the size of the file,
  MaxWrite,    \* on the bytes of one write,
  MaxFaults,   \* on the calls that fail,
  MaxCrashes   \* and on the times the mount dies

ASSUME FileConstants ==
  /\ {BlockSize, MaxWrite} \subseteq Nat \ {0}
  /\ {MaxSize, MaxFaults, MaxCrashes} \subseteq Nat
  /\ Zero \notin Byte

VARIABLES
  remote,      \* the blocks the nodes hold; <<>> is a block that is not there
  size,        \* attr.Size in the meta store
  dirty,       \* blockWriter.dirty; <<>> is no buffer
  valid,       \* blockWriter.valid
  dirtyAttr,   \* Size of File.dirtyAttr, or NoAttr
  late,        \* the size a Release has taken and not published yet, or NoAttr
  op,          \* the request in progress
  content,     \* history: the bytes of the writes that succeeded
  synced,      \* history: the content at the last sync
  lost,        \* history: an UpdateAttr or a read before a partial write failed, or
               \* a Write read the attributes while a Release had yet to publish them
  faults, crashes

mountVars == <<dirty, valid, dirtyAttr, late, op>>
history == <<content, synced, lost>>
vars == <<remote, size, mountVars, history, faults, crashes>>

blockCount(s) == (s + BlockSize - 1) \div BlockSize
Block == 0..blockCount(MaxSize) - 1
blockIdx(off) == off \div BlockSize
blockOff(off) == off % BlockSize
NoAttr == MaxSize + MaxWrite + 1
Larger(a, b) == IF a > b THEN a ELSE b
Smaller(a, b) == IF a < b THEN a ELSE b

Idle == [kind |-> "idle", data |-> <<>>, off |-> 0, pos |-> 0, old |-> 0]

Init ==
  /\ remote = [k \in Block |-> <<>>] /\ size = 0
  /\ dirty = [k \in Block |-> <<>>] /\ valid = [k \in Block |-> 0]
  /\ dirtyAttr = NoAttr /\ late = NoAttr /\ op = Idle
  /\ content = <<>> /\ synced = <<>> /\ lost = FALSE
  /\ faults = 0 /\ crashes = 0

Fault == faults < MaxFaults /\ faults' = faults + 1
NoFault == UNCHANGED faults

---------------------------------------------------------------------------
(* ChunkStore.Read, for the whole file: what a mount gets that takes the   *)
(* size to be s and finds block k to be data[k].  It stops at the first    *)
(* byte that is missing.                                                   *)
ReadFrom(data, s) ==
  LET has(i) == blockOff(i) < Len(data[blockIdx(i)])
      n == CHOOSE m \in 0..s : (\A i \in 0..m - 1 : has(i)) /\ (m = s \/ ~has(m))
  IN  [i \in 1..n |-> data[blockIdx(i - 1)][blockOff(i - 1) + 1]]

(* readBuffered hides the stored block behind the valid part of a buffer.  *)
readBuffered ==
  [k \in Block |-> IF valid[k] > 0 THEN SubSeq(dirty[k], 1, valid[k]) ELSE remote[k]]

---------------------------------------------------------------------------
(* flushLocked.  A PUT that fails may have been stored all the same.       *)

Put(k, d) == remote' = [remote EXCEPT ![k] = d]

PutFails(k, d) == Fault /\ (Put(k, d) \/ UNCHANGED remote)

DropBuffer(k) ==
  /\ dirty' = [dirty EXCEPT ![k] = <<>>]
  /\ valid' = [valid EXCEPT ![k] = 0]

flushLocked(k) == Put(k, SubSeq(dirty[k], 1, valid[k])) /\ DropBuffer(k) /\ NoFault

flushFails(k) == PutFails(k, SubSeq(dirty[k], 1, valid[k])) /\ UNCHANGED <<dirty, valid>>

Clean == \A k \in Block : dirty[k] = <<>>

---------------------------------------------------------------------------
(* File.Write at the end of the file: the size is raised first, then the   *)
(* data goes block by block.                                               *)

Ends == op' = Idle

Write ==
  LET attr == IF dirtyAttr = NoAttr THEN size ELSE dirtyAttr IN
  /\ op = Idle
  /\ \E n \in 1..MaxWrite : \E d \in [1..n -> Byte] :
       /\ Len(content) + n <= MaxSize
       /\ op' = [kind |-> "write", data |-> d, off |-> Len(content), pos |-> 0, old |-> attr]
       /\ dirtyAttr' = Larger(attr, Len(content) + n)
  /\ lost' = (lost \/ (dirtyAttr = NoAttr /\ late # NoAttr))
  /\ UNCHANGED <<remote, size, dirty, valid, late, content, synced, faults, crashes>>

absOff == op.off + op.pos

(* Fault: a piece may run past the end of its block.                       *)
writeWhole == Len(op.data) - op.pos

writeN == Smaller(Len(op.data) - op.pos, BlockSize - blockOff(absOff))
piece == SubSeq(op.data, op.pos + 1, op.pos + writeN)
Advance == op' = [op EXCEPT !.pos = @ + writeN]
FullBlock == blockOff(absOff) = 0 /\ writeN = BlockSize

Writing == op.kind = "write" /\ op.pos < Len(op.data)

(* An aligned full block is sent at once, its buffer dropped before.       *)
WriteFast ==
  LET k == blockIdx(absOff) IN
  /\ Writing /\ FullBlock
  /\ DropBuffer(k)
  /\ \/ Put(k, piece) /\ Advance /\ NoFault
     \/ PutFails(k, piece) /\ Ends
  /\ UNCHANGED <<size, dirtyAttr, late, history, crashes>>

(* copy(buf[o:], d), with buf grown by zeros.                              *)
Overlay(buf, o, d) ==
  [i \in 1..Larger(Len(buf), o + Len(d)) |->
     IF i \in o + 1..o + Len(d) THEN d[i - o] ELSE IF i <= Len(buf) THEN buf[i] ELSE Zero]

(* Fault: the stored block is read only for a write inside the old size.   *)
NeedReadInside == blockOff(absOff) > 0 /\ op.old > absOff

needRead == blockOff(absOff) > 0 /\ op.old > blockIdx(absOff) * BlockSize

(* Any other piece goes into the block's buffer.  A new buffer starts with *)
(* the stored block if the write does not start with the block; when that  *)
(* read fails it starts with zeros.                                        *)
WriteBuffer ==
  LET k == blockIdx(absOff)
      o == blockOff(absOff)
      into(buf) == dirty' = [dirty EXCEPT ![k] = Overlay(buf, o, piece)]
      block == Overlay(remote[k], BlockSize, <<>>)
  IN
  /\ Writing /\ ~FullBlock
  /\ \/ /\ dirty[k] # <<>> \/ ~needRead
        /\ into(dirty[k]) /\ UNCHANGED lost /\ NoFault
     \/ /\ dirty[k] = <<>> /\ needRead
        /\ into(block) /\ UNCHANGED lost /\ NoFault
     \/ /\ dirty[k] = <<>> /\ needRead
        /\ into(Overlay(<<>>, BlockSize, <<>>)) /\ lost' = TRUE /\ Fault
  /\ valid' = [valid EXCEPT ![k] = Larger(@, o + writeN)]
  /\ IF valid'[k] >= BlockSize THEN op' = [op EXCEPT !.kind = "flushBlock"] ELSE Advance
  /\ UNCHANGED <<remote, size, dirtyAttr, late, content, synced, crashes>>

flushBlock ==
  /\ op.kind = "flushBlock"
  /\ \/ /\ flushLocked(blockIdx(absOff))
        /\ op' = [op EXCEPT !.kind = "write", !.pos = @ + writeN]
     \/ flushFails(blockIdx(absOff)) /\ Ends
  /\ UNCHANGED <<size, dirtyAttr, late, history, crashes>>

(* After the last piece: the small or periodic flush of all buffers, which *)
(* depends on sizes and the clock, and success.                            *)
AutoFlush ==
  /\ op.kind = "write" /\ ~Writing
  /\ \E k \in Block :
       /\ dirty[k] # <<>>
       /\ \/ flushLocked(k) /\ UNCHANGED op
          \/ flushFails(k) /\ Ends
  /\ UNCHANGED <<size, dirtyAttr, late, history, crashes>>

WriteReturns ==
  /\ op.kind = "write" /\ ~Writing
  /\ content' = content \o op.data
  /\ Ends
  /\ UNCHANGED <<remote, size, dirty, valid, dirtyAttr, late, synced, lost, faults, crashes>>

---------------------------------------------------------------------------
(* Fsync, Release and Setattr begin with FlushFile.                        *)

Begin(kind, s) ==
  /\ op = Idle
  /\ op' = [Idle EXCEPT !.kind = kind, !.off = s]
  /\ UNCHANGED <<remote, size, dirty, valid, dirtyAttr, late, content, lost, faults, crashes>>

Fsync == Begin("fsync", 0) /\ UNCHANGED synced
Release == Begin("release", 0) /\ UNCHANGED synced

(* From here on the application cannot count on what it cuts off.          *)
Setattr ==
  \E s \in 0..Len(content) :
    Begin("truncate", s) /\ synced' = SubSeq(synced, 1, Smaller(s, Len(synced)))

FlushFile ==
  /\ op.kind \in {"fsync", "release", "truncate"}
  /\ \E k \in Block :
       /\ dirty[k] # <<>>
       /\ \/ flushLocked(k) /\ UNCHANGED op
          \/ flushFails(k) /\ IF op.kind = "release" THEN op' = [op EXCEPT !.kind = "close"] ELSE Ends
  /\ UNCHANGED <<size, dirtyAttr, late, history, crashes>>

(* Fault: dirtyAttr is kept, and not published.                            *)
syncLater(ok) == UNCHANGED <<size, dirtyAttr, lost, faults>>

(* syncAttr drops dirtyAttr, publishes it, and only logs a failure.        *)
syncAttr(ok) ==
  /\ dirtyAttr' = NoAttr
  /\ \/ dirtyAttr = NoAttr /\ ok /\ UNCHANGED <<size, lost>> /\ NoFault
     \/ dirtyAttr # NoAttr /\ ok /\ size' = dirtyAttr /\ UNCHANGED lost /\ NoFault
     \/ dirtyAttr # NoAttr /\ ~ok /\ lost' = TRUE /\ Fault /\ size' \in {size, dirtyAttr}

(* A Fsync that finds the size taken by a Release succeeds as well, and    *)
(* the application cannot count on it.                                     *)
FsyncReturns ==
  /\ op.kind = "fsync" /\ Clean
  /\ \E ok \in BOOLEAN : syncAttr(ok)
  /\ synced' = IF late = NoAttr THEN content ELSE synced
  /\ Ends
  /\ UNCHANGED <<remote, dirty, valid, late, content, crashes>>

(* Release goes on to syncAttr even if a flush failed: it takes dirtyAttr  *)
(* under the lock ...                                                      *)
ReleaseTakes ==
  /\ op.kind = "close" \/ (op.kind = "release" /\ Clean)
  /\ \/ dirtyAttr = NoAttr /\ UNCHANGED late
     \/ dirtyAttr # NoAttr /\ late = NoAttr /\ late' = dirtyAttr
  /\ dirtyAttr' = NoAttr
  /\ Ends
  /\ UNCHANGED <<remote, size, dirty, valid, history, faults, crashes>>

(* ... and publishes it without, beside whatever comes next.               *)
ReleasePublishes ==
  /\ late # NoAttr /\ late' = NoAttr
  /\ \/ size' = late /\ UNCHANGED lost /\ NoFault
     \/ size' \in {size, late} /\ lost' = TRUE /\ Fault
  /\ UNCHANGED <<remote, dirty, valid, dirtyAttr, op, content, synced, crashes>>

---------------------------------------------------------------------------
(* ChunkStore.Truncate after its flush.                                    *)

oldSize == IF dirtyAttr = NoAttr THEN size ELSE dirtyAttr

(* The blocks behind the new size go, the last one is cut; errors are      *)
(* ignored.                                                                *)
TruncateBlocks ==
  LET s == op.off
      cut(k) == IF k >= blockCount(s) THEN <<>>
                ELSE IF k = blockCount(s) - 1
                     THEN SubSeq(remote[k], 1, Smaller(Len(remote[k]), s - k * BlockSize))
                     ELSE remote[k]
      all == {k \in Block : s = 0 \/ k < blockCount(oldSize)}
  IN
  /\ op.kind = "truncate" /\ Clean
  /\ \/ /\ s < oldSize
        /\ \/ /\ remote' = [k \in Block |-> IF k \in all THEN cut(k) ELSE remote[k]] /\ NoFault
           \/ /\ Fault
              /\ \E S \in SUBSET all : remote' = [k \in Block |-> IF k \in S THEN cut(k) ELSE remote[k]]
     \/ s >= oldSize /\ UNCHANGED <<remote, faults>>
  /\ dirtyAttr' = IF dirtyAttr = NoAttr THEN NoAttr ELSE s
  /\ op' = [op EXCEPT !.kind = "resize"]
  /\ content' = SubSeq(content, 1, s)
  /\ UNCHANGED <<size, dirty, valid, late, synced, lost, crashes>>

(* UpdateAttr; an error leaves dirtyAttr, with the new size, as it was.    *)
TruncateReturns ==
  /\ op.kind = "resize"
  /\ \/ size' = op.off /\ dirtyAttr' = NoAttr /\ NoFault
     \/ size' \in {size, op.off} /\ UNCHANGED dirtyAttr /\ Fault
  /\ Ends
  /\ UNCHANGED <<remote, dirty, valid, late, history, crashes>>

---------------------------------------------------------------------------
(* The mount dies; the application goes on from what it had synced.        *)
Crash ==
  /\ crashes < MaxCrashes /\ crashes' = crashes + 1
  /\ dirty' = [k \in Block |-> <<>>] /\ valid' = [k \in Block |-> 0]
  /\ dirtyAttr' = NoAttr /\ late' = NoAttr
  /\ Ends
  /\ content' = synced
  /\ UNCHANGED <<remote, size, synced, lost, faults>>

Next ==
  \/ Write \/ WriteFast \/ WriteBuffer \/ flushBlock \/ AutoFlush \/ WriteReturns
  \/ Fsync \/ Release \/ Setattr \/ FlushFile \/ FsyncReturns
  \/ ReleaseTakes \/ ReleasePublishes
  \/ TruncateBlocks \/ TruncateReturns
  \/ Crash

Spec == Init /\ [][Next]_vars

---------------------------------------------------------------------------
TypeOK ==
  /\ remote \in [Block -> Seq(Byte \cup {Zero})]
  /\ dirty \in [Block -> Seq(Byte \cup {Zero})]
  /\ \A k \in Block : Len(remote[k]) <= BlockSize /\ valid[k] <= Len(dirty[k]) /\ Len(dirty[k]) <= BlockSize
  /\ size \in 0..MaxSize /\ {dirtyAttr, late} \subseteq 0..MaxSize \cup {NoAttr}
  /\ op.kind \in {"idle", "write", "flushBlock", "fsync", "release", "close", "truncate", "resize"}
  /\ content \in Seq(Byte) /\ synced \in Seq(Byte)
  /\ lost \in BOOLEAN /\ faults \in 0..MaxFaults /\ crashes \in 0..MaxCrashes

Covers(s, t) == Len(s) >= Len(t) /\ SubSeq(s, 1, Len(t)) = t

(* What was there when Fsync returned success, and was not cut off since,  *)
(* is what any other mount reads, during later appends to the same block   *)
(* and after the mount dies; unless an UpdateAttr, or the read before a    *)
(* partial write, failed unreported (fs.go:418, block_writer.go:131), or   *)
(* the file was written while a Release had yet to publish its size.       *)
SyncedReadable == ~lost => Covers(ReadFrom(remote, size), synced)

(* The mount itself reads what it has written, as far as the published     *)
(* size goes, also in the middle of a call: a buffer never hides bytes of  *)
(* the stored block (storage/chunk.go:203, block_writer.go:75).            *)
OwnWritesReadable ==
  ~lost => Covers(ReadFrom(readBuffered, size), SubSeq(content, 1, Smaller(size, Len(content))))
=============================================================================
