--------------------------- MODULE FuseFileProofs ---------------------------
(***************************************************************************)
(* Proofs about FuseFile, for every block size, every size of the file and *)
(* of a write, and any number of failed calls and deaths of the mount.     *)
(***************************************************************************)
EXTENDS FuseFile, Induction, TLAPS

---------------------------------------------------------------------------
(* The file of a mount.  The inductive invariant: what a call in progress  *)
(* is, what the sizes cover, and where each byte is.                       *)
Kind == {"idle", "write", "flushBlock", "fsync", "release", "close", "truncate", "resize"}
FileOp == [kind : Kind, data : Seq(Byte), off : Nat, pos : Nat, old : Nat]

Appends == op.kind \in {"write", "flushBlock"}

(* A write appends, and meets a block in the middle only with its first    *)
(* piece; a block is flushed because its buffer is full.                   *)
OpInv ==
  /\ op \in FileOp
  /\ Appends =>
       /\ op.off = Len(content) /\ op.pos <= Len(op.data)
       /\ dirtyAttr # NoAttr /\ op.off + Len(op.data) <= dirtyAttr
       /\ op.pos = 0 \/ op.pos = Len(op.data) \/ blockOff(absOff) = 0
  /\ op.kind = "flushBlock" => op.pos < Len(op.data) /\ valid[blockIdx(absOff)] > 0
  /\ op.kind = "truncate" => op.off \in Len(synced)..Len(content)
  /\ op.kind = "resize" => op.off = Len(content)

Char == Byte \cup {Zero}

(* What is stored of a block fits in it, and so does its buffer; a buffer  *)
(* that is there holds valid bytes.                                        *)
BlocksOK ==
  /\ remote \in [Block -> Seq(Char)]
  /\ \A k \in Block : Len(remote[k]) <= BlockSize

BuffersOK ==
  /\ dirty \in [Block -> Seq(Char)] /\ valid \in [Block -> Nat]
  /\ \A k \in Block :
       /\ valid[k] <= Len(dirty[k]) /\ Len(dirty[k]) <= BlockSize
       /\ valid[k] > 0 <=> dirty[k] # <<>>

SizesOK ==
  /\ size \in 0..MaxSize
  /\ dirtyAttr \in 0..MaxSize \cup {NoAttr} /\ late \in 0..MaxSize \cup {NoAttr}

(* What was synced is the beginning of what was written.                   *)
HistoryOK ==
  /\ content \in Seq(Byte) /\ synced \in Seq(Byte)
  /\ Len(content) <= MaxSize /\ Len(synced) <= Len(content)
  /\ \A i \in 1..Len(synced) : synced[i] = content[i]

CountsOK == lost \in BOOLEAN /\ faults \in 0..MaxFaults /\ crashes \in 0..MaxCrashes

FileTypes == BlocksOK /\ BuffersOK /\ SizesOK /\ HistoryOK /\ CountsOK /\ OpInv

(* The size that will be published covers what was written.                *)
Published == IF dirtyAttr # NoAttr THEN dirtyAttr ELSE IF late # NoAttr THEN late ELSE size

SizeInv ==
  ~lost =>
    /\ dirtyAttr = NoAttr \/ late = NoAttr
    /\ Len(content) <= Published
    /\ Len(synced) <= size
    /\ Appends => Len(content) <= op.old

(* Byte i of the file is b in the blocks data, or as the mount sees it.    *)
Stored(data, i, b) ==
  /\ blockOff(i) < Len(data[blockIdx(i)])
  /\ data[blockIdx(i)][blockOff(i) + 1] = b

Seen(data, buf, n, i, b) ==
  IF n[blockIdx(i)] > 0
  THEN blockOff(i) < n[blockIdx(i)] /\ buf[blockIdx(i)][blockOff(i) + 1] = b
  ELSE Stored(data, i, b)

(* The bytes that have got as far as the buffers or the nodes: those of    *)
(* the content and of the write in progress.                               *)
Reach ==
  IF Appends THEN absOff + (IF op.kind = "flushBlock" THEN writeN ELSE 0) ELSE Len(content)
Expected(c, r, i) == IF i < Len(c) THEN c[i + 1] ELSE r.data[i - r.off + 1]

(* A byte that is not lost is in the buffer of its block, or stored when   *)
(* there is none; a synced byte is stored, whatever the buffer says.       *)
SeenInv == \A i \in 0..Reach - 1 : Seen(remote, dirty, valid, i, Expected(content, op, i))
SyncedInv == \A i \in 0..Len(synced) - 1 : Stored(remote, i, synced[i + 1])
BytesInv == ~lost => SeenInv /\ SyncedInv

FileInv == FileTypes /\ SizeInv /\ BytesInv

---------------------------------------------------------------------------
(* Bytes and their blocks.                                                 *)

LEMMA DivMod ==
  ASSUME NEW n \in Nat \ {0}, NEW i \in Nat
  PROVE  /\ i \div n \in Nat /\ i % n \in 0..(n - 1)
         /\ i = ((i \div n) * n) + (i % n)
OBVIOUS

LEMMA DivUnique ==
  ASSUME NEW n \in Nat \ {0}, NEW i \in Nat, NEW k \in Nat, NEW o \in 0..(n - 1), i = k * n + o
  PROVE  i \div n = k /\ i % n = o
OBVIOUS

LEMMA MulOrder ==
  ASSUME NEW n \in Nat \ {0}, NEW k \in Nat, NEW l \in Nat,
         NEW o \in 0..(n - 1), NEW p \in 0..(n - 1), k * n + o < l * n + p
  PROVE  k <= l /\ (k = l => o < p)
OBVIOUS

LEMMA Sizes ==
  /\ BlockSize \in Nat \ {0} /\ MaxWrite \in Nat \ {0}
  /\ MaxSize \in Nat /\ MaxFaults \in Nat /\ MaxCrashes \in Nat
  /\ NoAttr \in Nat /\ NoAttr \notin 0..MaxSize
BY FileConstants DEF NoAttr

(* A byte is in one block, at one place.                                   *)
LEMMA Place ==
  ASSUME NEW i \in Nat
  PROVE  /\ blockIdx(i) \in Nat /\ blockOff(i) \in 0..(BlockSize - 1)
         /\ i = (blockIdx(i) * BlockSize) + blockOff(i)
BY Sizes, DivMod DEF blockIdx, blockOff

LEMMA PlaceOrder ==
  ASSUME NEW i \in Nat, NEW j \in Nat, i < j, blockIdx(i) = blockIdx(j)
  PROVE  blockOff(i) < blockOff(j)
BY Sizes, Place

(* The bytes of one piece are in one block.                                *)
LEMMA SameBlock ==
  ASSUME NEW i \in Nat, NEW j \in Nat, j < BlockSize - blockOff(i)
  PROVE  blockIdx(i + j) = blockIdx(i) /\ blockOff(i + j) = blockOff(i) + j
<1> DEFINE k == blockIdx(i)  o == blockOff(i)
<1>1. k \in Nat /\ o \in 0..(BlockSize - 1) /\ i = k * BlockSize + o
  BY Place
<1>2. BlockSize \in Nat \ {0}
  BY Sizes
<1> HIDE DEF k, o
<1>3. i + j = k * BlockSize + (o + j) /\ o + j \in 0..(BlockSize - 1) /\ i + j \in Nat
  BY <1>1, <1>2 DEF o
<1>4. (i + j) \div BlockSize = k /\ (i + j) % BlockSize = o + j
  BY Zenon, <1>1, <1>2, <1>3, DivUnique
<1> QED BY Zenon, <1>4 DEF blockIdx, blockOff, k, o

(* The next block starts at its first byte.                                *)
LEMMA NextBlock ==
  ASSUME NEW i \in Nat
  PROVE  blockOff(i + (BlockSize - blockOff(i))) = 0
<1> DEFINE k == blockIdx(i)  o == blockOff(i)  j == i + (BlockSize - o)
<1>1. k \in Nat /\ o \in 0..(BlockSize - 1) /\ i = k * BlockSize + o
  BY Place
<1>2. BlockSize \in Nat \ {0}
  BY Sizes
<1> HIDE DEF k, o
<1>3. j \in Nat /\ j = (k + 1) * BlockSize + 0 /\ k + 1 \in Nat /\ 0 \in 0..(BlockSize - 1)
  BY <1>1, <1>2
<1> HIDE DEF j
<1>4. j % BlockSize = 0
  BY Zenon, <1>2, <1>3, DivUnique
<1> QED BY Zenon, <1>4 DEF blockOff, j, o

LEMMA BelowCount ==
  ASSUME NEW s \in Nat, NEW i \in Nat, i < s
  PROVE  /\ blockCount(s) \in Nat /\ blockIdx(i) < blockCount(s)
         /\ blockOff(i) < s - (blockIdx(i) * BlockSize)
<1> DEFINE k == blockIdx(i)  o == blockOff(i)  q == blockCount(s)  r == (s + BlockSize - 1) % BlockSize
<1>1. k \in Nat /\ o \in 0..(BlockSize - 1) /\ i = k * BlockSize + o
  BY Place
<1>2. BlockSize \in Nat \ {0}
  BY Sizes
<1>3. q \in Nat /\ r \in 0..(BlockSize - 1) /\ s + BlockSize - 1 = q * BlockSize + r
  <2> DEFINE a == s + BlockSize - 1
  <2>1. a \in Nat
    BY <1>2
  <2> HIDE DEF a
  <2>2. a \div BlockSize \in Nat /\ a % BlockSize \in 0..(BlockSize - 1)
        /\ a = ((a \div BlockSize) * BlockSize) + (a % BlockSize)
    BY Zenon, <1>2, <2>1, DivMod
  <2> QED BY Zenon, <2>2 DEF blockCount, a
<1> HIDE DEF k, o, q, r
<1>4. k * BlockSize + o < q * BlockSize + 0 /\ 0 \in 0..(BlockSize - 1)
  BY <1>1, <1>2, <1>3
<1>5. k <= q /\ (k = q => o < 0)
  BY Zenon, <1>1, <1>2, <1>3, <1>4, MulOrder
<1>6. k < q
  BY <1>1, <1>3, <1>5
<1>7. o < s - (k * BlockSize)
  BY <1>1, <1>2
<1> QED BY Zenon, <1>3, <1>6, <1>7 DEF k, o, q

LEMMA InBlock ==
  ASSUME NEW i \in Nat, i < MaxSize
  PROVE  blockIdx(i) \in Block
<1>1. blockIdx(i) \in Nat /\ blockCount(MaxSize) \in Nat /\ blockIdx(i) < blockCount(MaxSize)
  BY Sizes, Place, BelowCount
<1> QED BY <1>1 DEF Block

LEMMA OverlayIs ==
  ASSUME NEW buf \in Seq(Char), NEW o \in Nat, NEW d \in Seq(Char)
  PROVE  /\ Overlay(buf, o, d) \in Seq(Char)
         /\ Len(Overlay(buf, o, d)) = Larger(Len(buf), o + Len(d))
         /\ \A i \in 1..Larger(Len(buf), o + Len(d)) :
              Overlay(buf, o, d)[i] =
                IF i \in o + 1..o + Len(d) THEN d[i - o] ELSE IF i <= Len(buf) THEN buf[i] ELSE Zero
<1> DEFINE n == Larger(Len(buf), o + Len(d))
           f(i) == IF i \in o + 1..o + Len(d) THEN d[i - o] ELSE IF i <= Len(buf) THEN buf[i] ELSE Zero
           s == [i \in 1..n |-> f(i)]
<1>1. n \in Nat
  BY DEF Larger
<1>2. \A i \in 1..n : f(i) \in Char
  BY DEF Larger, Char
<1> HIDE DEF n, f
<1>3. s \in Seq(Char) /\ Len(s) = n /\ \A i \in 1..n : s[i] = f(i)
  BY <1>1, <1>2
<1>4. Overlay(buf, o, d) = s
  BY Zenon DEF Overlay, n, f
<1> QED BY Zenon, <1>3, <1>4 DEF n, f

LEMMA Prefix ==
  ASSUME NEW S, NEW s \in Seq(S), NEW n \in 0..Len(s)
  PROVE  /\ SubSeq(s, 1, n) \in Seq(S) /\ Len(SubSeq(s, 1, n)) = n
         /\ \A i \in 1..n : SubSeq(s, 1, n)[i] = s[i]
OBVIOUS

(* The piece that goes into one block.                                     *)
LEMMA PieceIs ==
  ASSUME OpInv, SizesOK, HistoryOK, Appends, op.pos < Len(op.data)
  PROVE  /\ absOff \in Nat /\ absOff = Len(content) + op.pos /\ op.pos \in Nat
         /\ writeN \in 1..BlockSize - blockOff(absOff)
         /\ op.pos + writeN <= Len(op.data) /\ absOff + writeN <= MaxSize
         /\ blockIdx(absOff) \in Block
         /\ op.data \in Seq(Byte)
<1>1. /\ op \in FileOp /\ op.off = Len(content) /\ op.off + Len(op.data) <= dirtyAttr
  BY Zenon DEF OpInv
<1>0. content \in Seq(Byte) /\ dirtyAttr \in 0..MaxSize
  <2>1. dirtyAttr # NoAttr
    BY Zenon DEF OpInv
  <2> QED BY Zenon, <2>1 DEF SizesOK, HistoryOK
<1>2. op.data \in Seq(Byte) /\ op.off \in Nat /\ op.pos \in Nat
  BY Zenon, <1>1 DEF FileOp
<1>3. absOff \in Nat /\ absOff = Len(content) + op.pos /\ Len(op.data) \in Nat
  BY <1>0, <1>1, <1>2 DEF absOff
<1>4. BlockSize \in Nat \ {0} /\ MaxSize \in Nat /\ blockOff(absOff) \in 0..(BlockSize - 1)
  BY Zenon, <1>3, Sizes, Place
<1> DEFINE a == absOff  o == blockOff(absOff)
<1> HIDE DEF a, o
<1>5. writeN = Smaller(Len(op.data) - op.pos, BlockSize - o)
  BY Zenon DEF writeN, o
<1>6. writeN \in 1..BlockSize - o /\ op.pos + writeN <= Len(op.data)
  <2> DEFINE n == Len(op.data)  p == op.pos
  <2>1. n \in Nat /\ p \in Nat /\ p < n /\ o \in 0..(BlockSize - 1) /\ BlockSize \in Nat
    BY Zenon, <1>2, <1>3, <1>4 DEF o
  <2> HIDE DEF n, p
  <2>2. Smaller(n - p, BlockSize - o) \in 1..BlockSize - o /\ p + Smaller(n - p, BlockSize - o) <= n
    BY <2>1 DEF Smaller
  <2> QED BY Zenon, <1>5, <2>2 DEF n, p
<1>7. absOff + writeN <= MaxSize /\ absOff < MaxSize
  <2>1. /\ Len(content) \in Nat /\ op.pos \in Nat /\ Len(op.data) \in Nat
        /\ writeN \in Nat \ {0} /\ dirtyAttr \in Nat /\ dirtyAttr <= MaxSize /\ MaxSize \in Nat
    <3>1. writeN \in Nat \ {0}
      BY <1>4, <1>6 DEF o
    <3>2. dirtyAttr \in Nat /\ dirtyAttr <= MaxSize
      BY <1>0, <1>4
    <3> QED BY <1>0, <1>2, <1>3, <1>4, <3>1, <3>2
  <2>2. /\ Len(content) + Len(op.data) <= dirtyAttr /\ op.pos + writeN <= Len(op.data)
        /\ absOff = Len(content) + op.pos
    BY Zenon, <1>1, <1>3, <1>6
  <2> DEFINE l == Len(content)  n == Len(op.data)  p == op.pos  w == writeN
  <2> HIDE DEF l, n, p, w
  <2>3. l + p + w <= MaxSize /\ l + p < MaxSize
    <3>1. l \in Nat /\ p \in Nat /\ n \in Nat /\ w \in Nat \ {0} /\ l + n <= dirtyAttr /\ p + w <= n
      BY Zenon, <2>1, <2>2 DEF l, n, p, w
    <3> QED BY <2>1, <3>1
  <2> QED BY Zenon, <2>2, <2>3 DEF l, p, w
<1>8. blockIdx(absOff) \in Block
  BY Zenon, <1>3, <1>7, InBlock
<1> QED BY Zenon, <1>2, <1>3, <1>6, <1>7, <1>8 DEF o

LEMMA PieceBytes ==
  ASSUME op.data \in Seq(Byte), op.pos \in Nat, writeN \in Nat, op.pos + writeN <= Len(op.data)
  PROVE  /\ piece \in Seq(Byte) /\ piece \in Seq(Char) /\ Len(piece) = writeN
         /\ \A j \in 1..writeN : piece[j] = op.data[op.pos + j]
<1> DEFINE d == op.data  p == op.pos  n == writeN
<1>1. d \in Seq(Byte) /\ p \in Nat /\ n \in Nat /\ p + n <= Len(d)
  OBVIOUS
<1> HIDE DEF d, p, n
<1> DEFINE s == SubSeq(d, p + 1, p + n)
<1>2. s \in Seq(Byte) /\ Len(s) = n /\ \A j \in 1..n : s[j] = d[p + j]
  BY <1>1
<1>3. s \in Seq(Char)
  BY <1>2 DEF Char
<1>4. piece = s
  BY Zenon DEF piece, d, p, n
<1> QED BY Zenon, <1>2, <1>3, <1>4 DEF d, p, n

---------------------------------------------------------------------------
(* The types: one lemma per action.                                        *)

LEMMA TypesImply == FileTypes => TypeOK
BY DEF FileTypes, BlocksOK, BuffersOK, SizesOK, HistoryOK, CountsOK, OpInv, FileOp, Kind, TypeOK, Char

LEMMA PutOK ==
  ASSUME BlocksOK, NEW k \in Block, NEW d \in Seq(Char), Len(d) <= BlockSize, Put(k, d)
  PROVE  BlocksOK'
BY DEF BlocksOK, Put

LEMMA DropOK ==
  ASSUME BuffersOK, NEW k \in Block, DropBuffer(k)
  PROVE  BuffersOK'
<1>1. <<>> \in Seq(Char) /\ Len(<<>>) = 0 /\ BlockSize \in Nat
  BY Sizes
<1> QED BY <1>1 DEF BuffersOK, DropBuffer

LEMMA FlushedIs ==
  ASSUME BuffersOK, NEW k \in Block
  PROVE  LET d == SubSeq(dirty[k], 1, valid[k])
         IN  /\ d \in Seq(Char) /\ Len(d) = valid[k] /\ Len(d) <= BlockSize
             /\ \A i \in 1..valid[k] : d[i] = dirty[k][i]
<1> DEFINE s == dirty[k]  n == valid[k]
<1>1. s \in Seq(Char) /\ n \in Nat /\ n <= Len(s) /\ Len(s) <= BlockSize /\ BlockSize \in Nat
  BY Sizes DEF BuffersOK
<1> HIDE DEF s, n
<1>2. n \in 0..Len(s) /\ n <= BlockSize
  BY <1>1
<1>3. /\ SubSeq(s, 1, n) \in Seq(Char) /\ Len(SubSeq(s, 1, n)) = n
      /\ \A i \in 1..n : SubSeq(s, 1, n)[i] = s[i]
  BY Zenon, <1>1, <1>2, Prefix
<1> QED BY Zenon, <1>2, <1>3 DEF s, n

LEMMA FaultOK ==
  ASSUME CountsOK, Fault \/ NoFault
  PROVE  faults' \in 0..MaxFaults
BY Sizes DEF CountsOK, Fault, NoFault

LEMMA FlushOK ==
  ASSUME BlocksOK, BuffersOK, CountsOK, NEW k \in Block, flushLocked(k) \/ flushFails(k)
  PROVE  BlocksOK' /\ BuffersOK' /\ faults' \in 0..MaxFaults
<1> DEFINE d == SubSeq(dirty[k], 1, valid[k])
<1>1. d \in Seq(Char) /\ Len(d) <= BlockSize
  BY Zenon, FlushedIs
<1> HIDE DEF d
<1>2. (Put(k, d) \/ UNCHANGED remote) /\ (DropBuffer(k) \/ UNCHANGED <<dirty, valid>>) /\ (Fault \/ NoFault)
  BY Zenon DEF flushLocked, flushFails, PutFails, d
<1>3. BlocksOK'
  <2>1. CASE UNCHANGED remote
    BY Zenon, <2>1 DEF BlocksOK
  <2> QED BY Zenon, <1>1, <1>2, <2>1, PutOK
<1>4. BuffersOK'
  <2>1. CASE UNCHANGED <<dirty, valid>>
    BY Zenon, <2>1 DEF BuffersOK
  <2> QED BY Zenon, <1>2, <2>1, DropOK
<1> QED BY Zenon, <1>2, <1>3, <1>4, FaultOK

LEMMA IdleIs == Idle \in FileOp /\ Idle.kind = "idle" /\ Idle.data = <<>> /\ Idle.pos = 0
<1>1. <<>> \in Seq(Byte)
  OBVIOUS
<1> QED BY <1>1 DEF Idle, FileOp, Kind

LEMMA IdleOK ==
  ASSUME Ends
  PROVE  OpInv'
BY IdleIs DEF OpInv, Ends, Appends

LEMMA InitTypes == Init => FileTypes
<1> SUFFICES ASSUME Init PROVE FileTypes
  OBVIOUS
<1>1. <<>> \in Seq(Char) /\ <<>> \in Seq(Byte) /\ Len(<<>>) = 0
  OBVIOUS
<1>2. BlocksOK
  BY <1>1, Sizes DEF Init, BlocksOK
<1>3. BuffersOK
  BY <1>1, Sizes DEF Init, BuffersOK
<1>4. SizesOK
  BY Sizes DEF Init, SizesOK
<1>7. lost \in BOOLEAN
  BY Zenon DEF Init
<1>8. CountsOK
  BY <1>7, Sizes DEF Init, CountsOK
<1>5. HistoryOK
  BY <1>1, Sizes DEF Init, HistoryOK
<1>6. OpInv
  BY IdleIs DEF OpInv, Init, Appends
<1> QED BY Zenon, <1>2, <1>3, <1>4, <1>5, <1>6, <1>8 DEF FileTypes

LEMMA WriteTypes ==
  ASSUME FileTypes, Write
  PROVE  FileTypes'
<1>0. BlocksOK /\ BuffersOK /\ SizesOK /\ HistoryOK /\ CountsOK /\ OpInv
  BY Zenon DEF FileTypes
<1> DEFINE attr == IF dirtyAttr = NoAttr THEN size ELSE dirtyAttr
<1>1. PICK n \in 1..MaxWrite : \E d \in [1..n -> Byte] :
        /\ Len(content) + n <= MaxSize
        /\ op' = [kind |-> "write", data |-> d, off |-> Len(content), pos |-> 0, old |-> attr]
        /\ dirtyAttr' = Larger(attr, Len(content) + n)
  BY Zenon DEF Write
<1>2. PICK d \in [1..n -> Byte] :
        /\ Len(content) + n <= MaxSize
        /\ op' = [kind |-> "write", data |-> d, off |-> Len(content), pos |-> 0, old |-> attr]
        /\ dirtyAttr' = Larger(attr, Len(content) + n)
  BY Zenon, <1>1
<1>3. attr \in 0..MaxSize /\ Len(content) \in Nat /\ n \in Nat
  BY <1>0, Sizes DEF SizesOK, HistoryOK
<1>4. d \in Seq(Byte) /\ Len(d) = n
  <2>1. d = [i \in 1..n |-> d[i]] /\ \A i \in 1..n : d[i] \in Byte
    BY Zenon
  <2> QED BY <1>3, <2>1
<1>5. UNCHANGED <<remote, size, dirty, valid, late, content, synced, faults, crashes>>
  BY Zenon DEF Write
<1> HIDE DEF attr
<1>6. BlocksOK' /\ BuffersOK' /\ HistoryOK'
  BY Zenon, <1>0, <1>5 DEF BlocksOK, BuffersOK, HistoryOK
<1>7. SizesOK'
  BY <1>0, <1>2, <1>3, <1>5, Sizes DEF SizesOK, Larger
<1>8. CountsOK'
  <2>1. lost' \in BOOLEAN
    BY Zenon DEF Write
  <2> QED BY Zenon, <1>0, <1>5, <2>1 DEF CountsOK
<1>9. OpInv'
  <2>1. op' \in FileOp
    BY <1>2, <1>3, <1>4 DEF FileOp, Kind
  <2>2. op'.kind = "write" /\ op'.off = Len(content) /\ op'.pos = 0 /\ op'.data = d
    BY <1>2
  <2>3. dirtyAttr' # NoAttr /\ op'.off + Len(op'.data) <= dirtyAttr' /\ op'.pos <= Len(op'.data)
    BY <1>2, <1>3, <1>4, <2>2, Sizes DEF Larger
  <2> QED BY <1>5, <2>1, <2>2, <2>3 DEF OpInv, Appends
<1> QED BY Zenon, <1>6, <1>7, <1>8, <1>9 DEF FileTypes

(* The write goes on behind the piece.                                     *)
LEMMA AdvanceOK ==
  ASSUME SizesOK, HistoryOK, OpInv, Appends, op.pos < Len(op.data),
         op' = [op EXCEPT !.kind = "write", !.pos = @ + writeN], UNCHANGED <<content, dirtyAttr>>
  PROVE  OpInv'
<1>1. /\ absOff \in Nat /\ absOff = Len(content) + op.pos /\ op.pos \in Nat
      /\ writeN \in 1..BlockSize - blockOff(absOff)
      /\ op.pos + writeN <= Len(op.data) /\ op.data \in Seq(Byte)
  BY Zenon, PieceIs
<1>2. op \in FileOp /\ op.off = Len(content) /\ dirtyAttr # NoAttr /\ op.off + Len(op.data) <= dirtyAttr
  BY Zenon DEF OpInv
<1>3. blockOff(absOff) \in 0..(BlockSize - 1) /\ BlockSize \in Nat
  BY Zenon, <1>1, Place, Sizes
<1>4. op' \in FileOp /\ op'.kind = "write" /\ op'.off = op.off /\ op'.data = op.data /\ op'.pos = op.pos + writeN
  <2>1. writeN \in Nat /\ op.pos + writeN \in Nat
    BY <1>1, <1>3
  <2> QED BY <1>2, <2>1 DEF FileOp, Kind
<1>5. op'.pos = Len(op'.data) \/ blockOff(absOff)' = 0
  <2>1. CASE writeN = Len(op.data) - op.pos
    BY <1>1, <1>4, <2>1
  <2>2. CASE writeN = BlockSize - blockOff(absOff)
    <3>1. absOff' = absOff + (BlockSize - blockOff(absOff))
      <4>1. absOff' = op'.off + op'.pos /\ absOff = op.off + op.pos
        BY Zenon DEF absOff
      <4>2. op.off \in Nat
        BY Zenon, <1>2 DEF FileOp
      <4> QED BY <1>1, <1>3, <1>4, <2>2, <4>1, <4>2
    <3>2. blockOff(absOff + (BlockSize - blockOff(absOff))) = 0
      BY Zenon, <1>1, NextBlock
    <3>3. blockOff(absOff)' = blockOff(absOff')
      BY Zenon DEF blockOff
    <3> QED BY Zenon, <3>1, <3>2, <3>3
  <2>3. writeN = Len(op.data) - op.pos \/ writeN = BlockSize - blockOff(absOff)
    BY Zenon DEF writeN, Smaller
  <2> QED BY Zenon, <2>1, <2>2, <2>3
<1>6. ~(op'.kind = "flushBlock") /\ ~(op'.kind = "truncate") /\ ~(op'.kind = "resize")
  BY <1>4
<1>7. op'.pos <= Len(op'.data)
  BY Zenon, <1>1, <1>4
<1>8. content' = content /\ dirtyAttr' = dirtyAttr /\ NoAttr' = NoAttr
  BY Zenon DEF NoAttr
<1> QED BY Zenon, <1>2, <1>4, <1>5, <1>6, <1>7, <1>8 DEF OpInv

LEMMA WriteFastTypes ==
  ASSUME FileTypes, WriteFast
  PROVE  FileTypes'
<1>0. BlocksOK /\ BuffersOK /\ SizesOK /\ HistoryOK /\ CountsOK /\ OpInv
  BY Zenon DEF FileTypes
<1>1. op.kind = "write" /\ Appends /\ op.pos < Len(op.data)
  BY Zenon DEF WriteFast, Writing, Appends
<1>2. /\ absOff \in Nat /\ op.pos \in Nat /\ op.data \in Seq(Byte)
      /\ writeN \in 1..BlockSize - blockOff(absOff)
      /\ op.pos + writeN <= Len(op.data) /\ blockIdx(absOff) \in Block
  BY Zenon, <1>0, <1>1, PieceIs
<1>3. writeN \in Nat /\ writeN <= BlockSize
  <2>1. blockOff(absOff) \in 0..(BlockSize - 1) /\ BlockSize \in Nat
    BY Zenon, <1>2, Place, Sizes
  <2> QED BY <1>2, <2>1
<1>4. piece \in Seq(Char) /\ Len(piece) <= BlockSize
  BY Zenon, <1>2, <1>3, PieceBytes
<1> DEFINE k == blockIdx(absOff)
<1>5. DropBuffer(k) /\ (Put(k, piece) \/ UNCHANGED remote) /\ (Fault \/ NoFault) /\ (Advance \/ Ends)
  BY Zenon DEF WriteFast, PutFails
<1>6. UNCHANGED <<size, dirtyAttr, late, content, synced, lost, crashes>>
  BY Zenon DEF WriteFast, history
<1>7. BlocksOK'
  <2>1. CASE UNCHANGED remote
    BY Zenon, <1>0, <2>1 DEF BlocksOK
  <2> QED BY Zenon, <1>0, <1>2, <1>4, <1>5, <2>1, PutOK
<1>8. BuffersOK'
  BY Zenon, <1>0, <1>2, <1>5, DropOK
<1>9. SizesOK' /\ HistoryOK'
  BY Zenon, <1>0, <1>6 DEF SizesOK, HistoryOK
<1>10. CountsOK'
  BY Zenon, <1>0, <1>5, <1>6, FaultOK DEF CountsOK
<1>11. OpInv'
  <2>1. CASE Advance
    <3>1. op' = [op EXCEPT !.kind = "write", !.pos = @ + writeN]
      <4>1. op \in FileOp
        BY Zenon, <1>0 DEF OpInv
      <4> QED BY <1>1, <2>1, <4>1 DEF Advance, FileOp
    <3> QED BY Zenon, <1>0, <1>1, <1>6, <3>1, AdvanceOK
  <2> QED BY Zenon, <1>5, <2>1, IdleOK
<1> QED BY Zenon, <1>7, <1>8, <1>9, <1>10, <1>11 DEF FileTypes

(* What the new content of the buffer is laid over.                        *)
LEMMA BufferIs ==
  ASSUME BlocksOK, BuffersOK, CountsOK, WriteBuffer, NEW k \in Block, k = blockIdx(absOff)
  PROVE  /\ \E buf \in Seq(Char) :
              /\ Len(buf) <= BlockSize /\ valid[k] <= Len(buf)
              /\ dirty' = [dirty EXCEPT ![k] = Overlay(buf, blockOff(absOff), piece)]
              /\ dirty[k] # <<>> => buf = dirty[k]
              /\ ~lost' /\ dirty[k] = <<>> /\ needRead =>
                   /\ Len(remote[k]) <= Len(buf)
                   /\ \A j \in 1..Len(remote[k]) : buf[j] = remote[k][j]
         /\ lost' \in BOOLEAN /\ (lost' = lost \/ lost') /\ faults' \in 0..MaxFaults
<1> DEFINE o == blockOff(absOff)
           into(buf) == dirty' = [dirty EXCEPT ![k] = Overlay(buf, o, piece)]
           block == Overlay(remote[k], BlockSize, <<>>)
           zeros == Overlay(<<>>, BlockSize, <<>>)
<1>1. \/ (dirty[k] # <<>> \/ ~needRead) /\ into(dirty[k]) /\ UNCHANGED lost /\ NoFault
      \/ dirty[k] = <<>> /\ needRead /\ into(block) /\ UNCHANGED lost /\ NoFault
      \/ dirty[k] = <<>> /\ needRead /\ into(zeros) /\ lost' = TRUE /\ Fault
  BY Zenon DEF WriteBuffer
<1>2. /\ dirty[k] \in Seq(Char) /\ Len(dirty[k]) <= BlockSize /\ valid[k] <= Len(dirty[k])
      /\ valid[k] \in Nat /\ (valid[k] > 0 <=> dirty[k] # <<>>)
      /\ remote[k] \in Seq(Char) /\ Len(remote[k]) <= BlockSize
  BY Zenon DEF BuffersOK, BlocksOK
<1>3. <<>> \in Seq(Char) /\ Len(<<>>) = 0 /\ BlockSize \in Nat
  BY Sizes
<1>4. dirty[k] = <<>> => valid[k] = 0
  BY <1>2
<1>5. /\ block \in Seq(Char) /\ Len(block) = BlockSize
      /\ \A j \in 1..Len(remote[k]) : block[j] = remote[k][j]
  <2> DEFINE r == remote[k]  e == <<>>
  <2>1. r \in Seq(Char) /\ e \in Seq(Char) /\ Len(e) = 0 /\ BlockSize \in Nat /\ Len(r) <= BlockSize
    BY Zenon, <1>2, <1>3
  <2> HIDE DEF r, e
  <2>2. /\ Overlay(r, BlockSize, e) \in Seq(Char)
        /\ Len(Overlay(r, BlockSize, e)) = Larger(Len(r), BlockSize + Len(e))
        /\ \A i \in 1..Larger(Len(r), BlockSize + Len(e)) : Overlay(r, BlockSize, e)[i] =
             IF i \in BlockSize + 1..BlockSize + Len(e) THEN e[i - BlockSize] ELSE IF i <= Len(r) THEN r[i] ELSE Zero
    BY Zenon, <2>1, OverlayIs
  <2>3. Larger(Len(r), BlockSize + Len(e)) = BlockSize
    BY <2>1 DEF Larger
  <2>4. \A j \in 1..Len(r) : j \in 1..BlockSize /\ ~(j \in BlockSize + 1..BlockSize + Len(e)) /\ j <= Len(r)
    BY <2>1
  <2> HIDE DEF block
  <2>5. block = Overlay(r, BlockSize, e)
    BY Zenon DEF block, r, e
  <2>6. block \in Seq(Char) /\ Len(block) = BlockSize /\ \A j \in 1..Len(r) : block[j] = r[j]
    BY Zenon, <2>2, <2>3, <2>4, <2>5
  <2> QED BY Zenon, <2>6 DEF r
<1>6. zeros \in Seq(Char) /\ Len(zeros) = BlockSize
  <2> DEFINE e == <<>>
  <2>1. e \in Seq(Char) /\ Len(e) = 0 /\ BlockSize \in Nat
    BY Zenon, <1>3
  <2> HIDE DEF e
  <2>2. /\ Overlay(e, BlockSize, e) \in Seq(Char)
        /\ Len(Overlay(e, BlockSize, e)) = Larger(Len(e), BlockSize + Len(e))
    BY Zenon, <2>1, OverlayIs
  <2>3. Larger(Len(e), BlockSize + Len(e)) = BlockSize
    BY <2>1 DEF Larger
  <2> QED BY Zenon, <2>2, <2>3 DEF e
<1>7. BlockSize <= BlockSize /\ 0 <= BlockSize
  BY <1>3
<1> HIDE DEF block, zeros
<1>8. CASE (dirty[k] # <<>> \/ ~needRead) /\ into(dirty[k]) /\ UNCHANGED lost /\ NoFault
  BY Zenon, <1>2, <1>8, FaultOK DEF CountsOK
<1>9. CASE dirty[k] = <<>> /\ needRead /\ into(block) /\ UNCHANGED lost /\ NoFault
  BY Zenon, <1>2, <1>4, <1>5, <1>7, <1>9, FaultOK DEF CountsOK
<1>10. CASE dirty[k] = <<>> /\ needRead /\ into(zeros) /\ lost' = TRUE /\ Fault
  BY Zenon, <1>2, <1>4, <1>6, <1>7, <1>10, FaultOK DEF CountsOK
<1> QED BY Zenon, <1>1, <1>8, <1>9, <1>10

LEMMA WriteBufferTypes ==
  ASSUME FileTypes, WriteBuffer
  PROVE  FileTypes'
<1>0. BlocksOK /\ BuffersOK /\ SizesOK /\ HistoryOK /\ CountsOK /\ OpInv
  BY Zenon DEF FileTypes
<1>1. op.kind = "write" /\ Appends /\ op.pos < Len(op.data)
  BY Zenon DEF WriteBuffer, Writing, Appends
<1> DEFINE o == blockOff(absOff)  k == blockIdx(absOff)  m == Larger(valid[k], o + writeN)
<1>2. /\ absOff \in Nat /\ op.pos \in Nat /\ op.data \in Seq(Byte)
      /\ writeN \in 1..BlockSize - o
      /\ op.pos + writeN <= Len(op.data) /\ k \in Block
  BY Zenon, <1>0, <1>1, PieceIs
<1>3. o \in 0..(BlockSize - 1) /\ BlockSize \in Nat \ {0}
  BY Zenon, <1>2, Place, Sizes
<1> HIDE DEF o, k
<1>4. writeN \in Nat /\ writeN >= 1 /\ o + writeN <= BlockSize /\ o \in Nat
  BY <1>2, <1>3
<1>5. piece \in Seq(Char) /\ Len(piece) = writeN
  BY Zenon, <1>2, <1>4, PieceBytes
<1>6. PICK buf \in Seq(Char) :
         /\ Len(buf) <= BlockSize /\ valid[k] <= Len(buf)
         /\ dirty' = [dirty EXCEPT ![k] = Overlay(buf, o, piece)]
  BY Zenon, <1>0, <1>2, BufferIs DEF k, o
<1>7. valid' = [valid EXCEPT ![k] = m]
  BY Zenon DEF WriteBuffer, k, o
<1>8. lost' \in BOOLEAN /\ faults' \in 0..MaxFaults
  BY Zenon, <1>0, <1>2, BufferIs DEF k
<1>9. UNCHANGED <<remote, size, dirtyAttr, late, content, synced, crashes>>
  BY Zenon DEF WriteBuffer
<1>10. BlocksOK' /\ SizesOK' /\ HistoryOK'
  BY Zenon, <1>0, <1>9 DEF BlocksOK, SizesOK, HistoryOK
<1>11. CountsOK'
  BY Zenon, <1>0, <1>8, <1>9 DEF CountsOK
<1>12. BuffersOK'
  <2> DEFINE b == Overlay(buf, o, piece)
  <2>1. b \in Seq(Char) /\ Len(b) = Larger(Len(buf), o + writeN)
    BY Zenon, <1>4, <1>5, OverlayIs
  <2>2. valid[k] \in Nat
    BY Zenon, <1>0, <1>2 DEF BuffersOK
  <2> HIDE DEF b
  <2>3. m \in Nat /\ m > 0 /\ m <= Len(b) /\ Len(b) <= BlockSize /\ Len(b) \in Nat
    BY <1>3, <1>4, <1>6, <2>1, <2>2 DEF Larger
  <2> HIDE DEF m
  <2>4. b # <<>>
    BY <2>3
  <2>5. dirty' = [dirty EXCEPT ![k] = b]
    BY Zenon, <1>6 DEF b
  <2> QED BY <1>0, <1>2, <1>7, <2>1, <2>3, <2>4, <2>5 DEF BuffersOK
<1>13. OpInv'
  <2>0. op \in FileOp
    BY Zenon, <1>0 DEF OpInv
  <2>1. CASE Advance
    <3>1. op' = [op EXCEPT !.kind = "write", !.pos = @ + writeN]
      BY <1>1, <2>1, <2>0 DEF Advance, FileOp
    <3> QED BY Zenon, <1>0, <1>1, <1>9, <3>1, AdvanceOK
  <2>2. CASE op' = [op EXCEPT !.kind = "flushBlock"] /\ valid'[k] >= BlockSize
    <3>1. /\ op' \in FileOp /\ op'.kind = "flushBlock" /\ op'.off = op.off
          /\ op'.pos = op.pos /\ op'.data = op.data
      BY <2>0, <2>2 DEF FileOp, Kind
    <3>2. absOff' = absOff
      BY Zenon, <3>1 DEF absOff
    <3>3. /\ op.off = Len(content) /\ op.pos <= Len(op.data)
          /\ dirtyAttr # NoAttr /\ op.off + Len(op.data) <= dirtyAttr
          /\ op.pos = 0 \/ op.pos = Len(op.data) \/ blockOff(absOff) = 0
      BY Zenon, <1>0, <1>1 DEF OpInv
    <3>4. valid'[blockIdx(absOff')] > 0
      <4>1. valid'[k] > 0
        <5>1. valid'[k] \in Nat
          BY Zenon, <1>2, <1>12 DEF BuffersOK
        <5> QED BY <1>3, <2>2, <5>1
      <4> QED BY Zenon, <4>1, <3>2 DEF k
    <3>5. ~(op'.kind = "truncate") /\ ~(op'.kind = "resize")
      BY <3>1
    <3>6. content' = content /\ dirtyAttr' = dirtyAttr /\ NoAttr' = NoAttr
      BY Zenon, <1>9 DEF NoAttr
    <3>7. (blockOff(absOff))' = blockOff(absOff) /\ (valid[blockIdx(absOff)])' = valid'[blockIdx(absOff')]
      BY Zenon, <3>2 DEF blockOff, blockIdx
    <3> QED BY Zenon, <1>1, <3>1, <3>3, <3>4, <3>5, <3>6, <3>7 DEF OpInv
  <2> QED BY Zenon, <2>1, <2>2 DEF WriteBuffer, k
<1> QED BY Zenon, <1>10, <1>11, <1>12, <1>13 DEF FileTypes

LEMMA OpKept ==
  ASSUME OpInv, UNCHANGED <<op, content, synced, dirtyAttr>>, op.kind # "flushBlock" \/ UNCHANGED valid
  PROVE  OpInv'
<1>1. absOff' = absOff /\ NoAttr' = NoAttr /\ Appends' = Appends
  BY Zenon DEF absOff, NoAttr, Appends
<1>2. (blockOff(absOff))' = blockOff(absOff) /\ (blockIdx(absOff))' = blockIdx(absOff)
  BY Zenon, <1>1 DEF blockOff, blockIdx
<1>3. op.kind = "flushBlock" => (valid[blockIdx(absOff)])' = valid[blockIdx(absOff)]
  BY Zenon, <1>2
<1>4. op' = op /\ content' = content /\ synced' = synced /\ dirtyAttr' = dirtyAttr
  BY Zenon
<1> QED BY Zenon, <1>1, <1>2, <1>3, <1>4 DEF OpInv

LEMMA FlushTypes ==
  ASSUME FileTypes, NEW k \in Block, flushLocked(k) \/ flushFails(k),
         UNCHANGED <<size, dirtyAttr, late, history, crashes>>, OpInv'
  PROVE  FileTypes'
<1>0. BlocksOK /\ BuffersOK /\ SizesOK /\ HistoryOK /\ CountsOK /\ OpInv
  BY Zenon DEF FileTypes
<1>1. UNCHANGED <<size, dirtyAttr, late, content, synced, lost, crashes>>
  BY Zenon DEF history
<1>2. BlocksOK' /\ BuffersOK' /\ faults' \in 0..MaxFaults
  BY Zenon, <1>0, FlushOK
<1>3. SizesOK' /\ HistoryOK' /\ CountsOK'
  BY Zenon, <1>0, <1>1, <1>2 DEF SizesOK, HistoryOK, CountsOK
<1> QED BY Zenon, <1>2, <1>3 DEF FileTypes

LEMMA FlushBlockTypes ==
  ASSUME FileTypes, flushBlock
  PROVE  FileTypes'
<1>0. BlocksOK /\ BuffersOK /\ SizesOK /\ HistoryOK /\ CountsOK /\ OpInv
  BY Zenon DEF FileTypes
<1>1. op.kind = "flushBlock" /\ Appends /\ op.pos < Len(op.data)
  BY Zenon, <1>0 DEF flushBlock, Appends, OpInv
<1>2. blockIdx(absOff) \in Block
  BY Zenon, <1>0, <1>1, PieceIs
<1>3. UNCHANGED <<size, dirtyAttr, late, history, crashes>> /\ UNCHANGED <<content, dirtyAttr>>
  BY Zenon DEF flushBlock, history
<1>4. OpInv'
  <2>1. CASE op' = [op EXCEPT !.kind = "write", !.pos = @ + writeN]
    BY Zenon, <1>0, <1>1, <1>3, <2>1, AdvanceOK
  <2> QED BY Zenon, <2>1, IdleOK DEF flushBlock
<1>5. flushLocked(blockIdx(absOff)) \/ flushFails(blockIdx(absOff))
  BY Zenon DEF flushBlock
<1> QED BY Zenon, <1>2, <1>3, <1>4, <1>5, FlushTypes

LEMMA AutoFlushTypes ==
  ASSUME FileTypes, AutoFlush
  PROVE  FileTypes'
<1>0. OpInv /\ op.kind = "write"
  BY Zenon DEF FileTypes, AutoFlush
<1>1. PICK k \in Block : (flushLocked(k) /\ UNCHANGED op) \/ (flushFails(k) /\ Ends)
  BY Zenon DEF AutoFlush
<1>2. UNCHANGED <<size, dirtyAttr, late, history, crashes>> /\ UNCHANGED <<content, synced, dirtyAttr>>
  BY Zenon DEF AutoFlush, history
<1>3. op.kind # "flushBlock"
  BY <1>0
<1>4. OpInv'
  BY Zenon, <1>0, <1>1, <1>2, <1>3, OpKept, IdleOK
<1> QED BY Zenon, <1>1, <1>2, <1>4, FlushTypes

LEMMA FlushFileTypes ==
  ASSUME FileTypes, FlushFile
  PROVE  FileTypes'
<1>0. OpInv /\ op.kind \in {"fsync", "release", "truncate"} /\ op \in FileOp
  BY Zenon DEF FileTypes, FlushFile, OpInv
<1>1. PICK k \in Block :
        \/ flushLocked(k) /\ UNCHANGED op
        \/ flushFails(k) /\ IF op.kind = "release" THEN op' = [op EXCEPT !.kind = "close"] ELSE Ends
  BY Zenon DEF FlushFile
<1>2. UNCHANGED <<size, dirtyAttr, late, history, crashes>> /\ UNCHANGED <<content, synced, dirtyAttr>>
  BY Zenon DEF FlushFile, history
<1>3. op.kind # "flushBlock"
  BY <1>0
<1>4. OpInv'
  <2>1. CASE UNCHANGED op
    BY Zenon, <1>0, <1>2, <1>3, <2>1, OpKept
  <2>2. CASE op' = [op EXCEPT !.kind = "close"]
    <3>1. op' \in FileOp /\ op'.kind = "close"
      BY <1>0, <2>2 DEF FileOp, Kind
    <3> QED BY <3>1 DEF OpInv, Appends
  <2> QED BY Zenon, <1>1, <2>1, <2>2, IdleOK
<1> QED BY Zenon, <1>1, <1>2, <1>4, FlushTypes

LEMMA WriteReturnsTypes ==
  ASSUME FileTypes, WriteReturns
  PROVE  FileTypes'
<1>0. BlocksOK /\ BuffersOK /\ SizesOK /\ HistoryOK /\ CountsOK /\ OpInv
  BY Zenon DEF FileTypes
<1>1. op.kind = "write" /\ Appends /\ content' = content \o op.data /\ Ends
      /\ UNCHANGED <<remote, size, dirty, valid, dirtyAttr, late, synced, lost, faults, crashes>>
  BY Zenon DEF WriteReturns, Appends
<1>2. BlocksOK' /\ BuffersOK' /\ SizesOK' /\ CountsOK'
  BY Zenon, <1>0, <1>1 DEF BlocksOK, BuffersOK, SizesOK, CountsOK
<1>3. op.data \in Seq(Byte) /\ Len(content) + Len(op.data) <= dirtyAttr /\ dirtyAttr \in 0..MaxSize
  BY Zenon, <1>0, <1>1 DEF OpInv, SizesOK, FileOp
<1>4. HistoryOK'
  <2> DEFINE c == content  d == op.data
  <2>1. c \in Seq(Byte) /\ d \in Seq(Byte) /\ content' = c \o d
    BY Zenon, <1>0, <1>1, <1>3 DEF HistoryOK
  <2> HIDE DEF c, d
  <2>2. c \o d \in Seq(Byte) /\ Len(c \o d) = Len(c) + Len(d) /\ \A i \in 1..Len(c) : (c \o d)[i] = c[i]
    BY <2>1
  <2>3. Len(c) + Len(d) <= MaxSize
    BY <1>3, Sizes, <2>1 DEF c, d
  <2>4. /\ Len(synced) <= Len(c) /\ \A i \in 1..Len(synced) : synced[i] = c[i]
        /\ synced \in Seq(Byte) /\ synced' = synced
    BY Zenon, <1>0, <1>1 DEF HistoryOK, c
  <2>5. Len(synced) <= Len(c \o d) /\ \A i \in 1..Len(synced) : i \in 1..Len(c)
    BY <2>1, <2>2, <2>4
  <2> QED BY Zenon, <2>1, <2>2, <2>3, <2>4, <2>5 DEF HistoryOK
<1>5. OpInv'
  BY Zenon, <1>1, IdleOK
<1> QED BY Zenon, <1>2, <1>4, <1>5 DEF FileTypes

LEMMA BeginTypes ==
  ASSUME FileTypes, NEW kind \in {"fsync", "release"}, Begin(kind, 0), UNCHANGED synced
  PROVE  FileTypes'
<1>1. UNCHANGED <<remote, size, dirty, valid, dirtyAttr, late, content, lost, faults, crashes>>
  BY Zenon DEF Begin
<1>2. BlocksOK' /\ BuffersOK' /\ SizesOK' /\ CountsOK' /\ HistoryOK'
  BY Zenon, <1>1 DEF FileTypes, BlocksOK, BuffersOK, SizesOK, CountsOK, HistoryOK
<1>3. op' \in FileOp /\ op'.kind = kind
  BY IdleIs DEF FileOp, Kind, Begin, Idle
<1>4. OpInv'
  BY <1>3 DEF OpInv, Appends
<1> QED BY Zenon, <1>2, <1>4 DEF FileTypes

LEMMA SetattrTypes ==
  ASSUME FileTypes, Setattr
  PROVE  FileTypes'
<1>0. BlocksOK /\ BuffersOK /\ SizesOK /\ HistoryOK /\ CountsOK /\ OpInv
  BY Zenon DEF FileTypes
<1>1. PICK s \in 0..Len(content) :
        Begin("truncate", s) /\ synced' = SubSeq(synced, 1, Smaller(s, Len(synced)))
  BY Zenon DEF Setattr
<1>2. UNCHANGED <<remote, size, dirty, valid, dirtyAttr, late, content, lost, faults, crashes>>
  BY Zenon, <1>1 DEF Begin
<1>3. BlocksOK' /\ BuffersOK' /\ SizesOK' /\ CountsOK'
  BY Zenon, <1>0, <1>2 DEF BlocksOK, BuffersOK, SizesOK, CountsOK
<1> DEFINE n == Smaller(s, Len(synced))
<1>4. /\ content \in Seq(Byte) /\ synced \in Seq(Byte) /\ Len(synced) <= Len(content)
      /\ Len(content) <= MaxSize /\ \A i \in 1..Len(synced) : synced[i] = content[i]
  BY Zenon, <1>0 DEF HistoryOK
<1>5. n \in 0..Len(synced) /\ n <= s /\ s \in Nat /\ n <= Len(content)
  BY <1>4 DEF Smaller
<1> HIDE DEF n
<1>6. /\ SubSeq(synced, 1, n) \in Seq(Byte) /\ Len(SubSeq(synced, 1, n)) = n
      /\ \A i \in 1..n : SubSeq(synced, 1, n)[i] = synced[i]
  BY Zenon, <1>4, <1>5, Prefix
<1>7. synced' = SubSeq(synced, 1, n) /\ \A i \in 1..n : i \in 1..Len(synced)
  <2>1. \A i \in 1..n : i \in 1..Len(synced)
    BY <1>4, <1>5
  <2> QED BY Zenon, <1>1, <2>1 DEF n
<1>8. HistoryOK'
  BY Zenon, <1>2, <1>4, <1>5, <1>6, <1>7 DEF HistoryOK
<1>9. op' \in FileOp /\ op'.kind = "truncate" /\ op'.off = s
  BY <1>1, <1>5, IdleIs DEF FileOp, Kind, Begin, Idle
<1>10. s \in n..Len(content)
  BY <1>4, <1>5
<1>11. Len(synced') = n /\ content' = content
  BY Zenon, <1>2, <1>6, <1>7
<1>12. OpInv'
  BY <1>9, <1>10, <1>11 DEF OpInv, Appends
<1> QED BY Zenon, <1>3, <1>8, <1>12 DEF FileTypes

LEMMA FsyncTypes ==
  ASSUME FileTypes, FsyncReturns
  PROVE  FileTypes'
<1>0. BlocksOK /\ BuffersOK /\ SizesOK /\ HistoryOK /\ CountsOK /\ OpInv
  BY Zenon DEF FileTypes
<1>1. UNCHANGED <<remote, dirty, valid, late, content, crashes>> /\ Ends
      /\ (synced' = content \/ synced' = synced)
  BY Zenon DEF FsyncReturns
<1>2. /\ dirtyAttr' = NoAttr /\ (size' = size \/ (dirtyAttr # NoAttr /\ size' = dirtyAttr))
      /\ (lost' = lost \/ lost' = TRUE) /\ (Fault \/ NoFault)
  BY Zenon DEF FsyncReturns, syncAttr
<1>3. BlocksOK' /\ BuffersOK'
  BY Zenon, <1>0, <1>1 DEF BlocksOK, BuffersOK
<1>4. SizesOK'
  BY Zenon, <1>0, <1>1, <1>2 DEF SizesOK
<1>5. HistoryOK'
  <2>1. Len(content) <= Len(content)
    BY <1>0 DEF HistoryOK
  <2> QED BY Zenon, <1>0, <1>1, <2>1 DEF HistoryOK
<1>6. CountsOK'
  BY Zenon, <1>0, <1>1, <1>2, FaultOK DEF CountsOK
<1>7. OpInv'
  BY Zenon, <1>1, IdleOK
<1> QED BY Zenon, <1>3, <1>4, <1>5, <1>6, <1>7 DEF FileTypes

LEMMA ReleaseTypes ==
  ASSUME FileTypes, ReleaseTakes \/ ReleasePublishes
  PROVE  FileTypes'
<1>0. BlocksOK /\ BuffersOK /\ SizesOK /\ HistoryOK /\ CountsOK /\ OpInv
  BY Zenon DEF FileTypes
<1>1. UNCHANGED <<remote, dirty, valid, content, synced, crashes>>
  BY Zenon DEF ReleaseTakes, ReleasePublishes, history
<1>2. BlocksOK' /\ BuffersOK' /\ HistoryOK'
  BY Zenon, <1>0, <1>1 DEF BlocksOK, BuffersOK, HistoryOK
<1>3. CASE ReleaseTakes
  <2>1. /\ (late' = late \/ late' = dirtyAttr) /\ dirtyAttr' = NoAttr /\ Ends
        /\ UNCHANGED <<size, lost, faults, crashes>>
    BY Zenon, <1>3 DEF ReleaseTakes, history
  <2> QED BY Zenon, <1>0, <1>2, <2>1, IdleOK DEF FileTypes, SizesOK, CountsOK
<1>4. CASE ReleasePublishes
  <2>1. /\ late' = NoAttr /\ dirtyAttr' = dirtyAttr /\ op' = op /\ (size' = size \/ (late # NoAttr /\ size' = late))
        /\ (lost' = lost \/ lost' = TRUE) /\ (Fault \/ NoFault)
    BY Zenon, <1>4 DEF ReleasePublishes
  <2>2. SizesOK'
    BY Zenon, <1>0, <2>1 DEF SizesOK
  <2>3. CountsOK'
    BY Zenon, <1>0, <1>1, <2>1, FaultOK DEF CountsOK
  <2>4. OpInv'
    BY Zenon, <1>0, <1>1, <2>1, OpKept
  <2> QED BY Zenon, <1>2, <2>2, <2>3, <2>4 DEF FileTypes
<1> QED BY Zenon, <1>3, <1>4

(* What a truncation to s leaves of block k.                               *)
Cut(k, s) ==
  IF k >= blockCount(s) THEN <<>>
  ELSE IF k = blockCount(s) - 1
       THEN SubSeq(remote[k], 1, Smaller(Len(remote[k]), s - k * BlockSize))
       ELSE remote[k]

LEMMA CutIs ==
  ASSUME BlocksOK, TruncateBlocks
  PROVE  /\ remote' \in [Block -> {remote[k] : k \in Block} \cup {Cut(k, op.off) : k \in Block}]
         /\ \A k \in Block : remote'[k] = remote[k] \/ remote'[k] = Cut(k, op.off)
<1> DEFINE all == {k \in Block : op.off = 0 \/ k < blockCount(oldSize)}
<1>1. \/ \E S \in SUBSET Block : remote' = [k \in Block |-> IF k \in S THEN Cut(k, op.off) ELSE remote[k]]
      \/ remote' = remote
  <2>1. all \in SUBSET Block /\ \A S \in SUBSET all : S \in SUBSET Block
    BY Zenon
  <2>2. \/ remote' = [k \in Block |-> IF k \in all THEN Cut(k, op.off) ELSE remote[k]]
        \/ \E S \in SUBSET all : remote' = [k \in Block |-> IF k \in S THEN Cut(k, op.off) ELSE remote[k]]
        \/ remote' = remote
    BY DEF TruncateBlocks, Cut
  <2> QED BY Zenon, <2>1, <2>2
<1>2. CASE remote' = remote
  BY Zenon, <1>2 DEF BlocksOK
<1>3. ASSUME NEW S \in SUBSET Block, remote' = [k \in Block |-> IF k \in S THEN Cut(k, op.off) ELSE remote[k]]
      PROVE  /\ remote' \in [Block -> {remote[k] : k \in Block} \cup {Cut(k, op.off) : k \in Block}]
             /\ \A k \in Block : remote'[k] = remote[k] \/ remote'[k] = Cut(k, op.off)
  BY Zenon, <1>3
<1> QED BY Zenon, <1>1, <1>2, <1>3

LEMMA CountBelow ==
  ASSUME NEW s \in Nat, NEW k \in Nat, k < blockCount(s)
  PROVE  s - k * BlockSize \in Nat
<1> DEFINE a == s + BlockSize - 1  q == blockCount(s)  r == a % BlockSize
<1>1. BlockSize \in Nat \ {0}
  BY Sizes
<1>2. a \in Nat
  BY <1>1
<1>3. q \in Nat /\ r \in 0..(BlockSize - 1) /\ a = (q * BlockSize) + r
  <2> HIDE DEF a
  <2>1. /\ a \div BlockSize \in Nat /\ a % BlockSize \in 0..(BlockSize - 1)
        /\ a = ((a \div BlockSize) * BlockSize) + (a % BlockSize)
    BY Zenon, <1>1, <1>2, DivMod
  <2> QED BY Zenon, <2>1 DEF blockCount, a
<1>4. k < q
  BY Zenon
<1> HIDE DEF q, r
<1>5. PICK e \in Nat : q = k + 1 + e
  <2>1. q - k - 1 \in Nat /\ q = k + 1 + (q - k - 1)
    BY <1>3, <1>4
  <2> QED BY Zenon, <2>1
<1>6. q * BlockSize = k * BlockSize + BlockSize + e * BlockSize /\ e * BlockSize \in Nat /\ k * BlockSize \in Nat
  BY <1>1, <1>5
<1> QED BY <1>1, <1>3, <1>6

LEMMA CutBlock ==
  ASSUME BlocksOK, NEW s \in Nat, NEW k \in Block
  PROVE  /\ Cut(k, s) \in Seq(Char) /\ Len(Cut(k, s)) <= BlockSize
         /\ \A j \in Nat \ {0} :
              /\ k < blockCount(s) /\ j <= Len(remote[k]) /\ j <= s - k * BlockSize
              => j <= Len(Cut(k, s)) /\ Cut(k, s)[j] = remote[k][j]
<1>1. k \in Nat /\ BlockSize \in Nat \ {0} /\ blockCount(s) \in Nat
  <2>1. BlockSize \in Nat \ {0} /\ MaxSize \in Nat
    BY Sizes
  <2>2. \A a \in Nat : a \div BlockSize \in Nat
    BY <2>1, DivMod
  <2>3. s + BlockSize - 1 \in Nat
    BY <2>1
  <2>4. k \in Nat
    BY DEF Block
  <2> QED BY Zenon, <2>1, <2>2, <2>3, <2>4 DEF blockCount
<1>2. remote[k] \in Seq(Char) /\ Len(remote[k]) <= BlockSize /\ Len(remote[k]) \in Nat
  <2>1. remote[k] \in Seq(Char) /\ Len(remote[k]) <= BlockSize
    BY Zenon DEF BlocksOK
  <2> QED BY <2>1
<1> DEFINE r == remote[k]  q == blockCount(s)
<1> HIDE DEF r, q
<1>3. CASE k >= q
  <2>1. Cut(k, s) = <<>>
    BY Zenon, <1>3 DEF Cut, q
  <2>2. <<>> \in Seq(Char) /\ Len(<<>>) <= BlockSize /\ ~(k < q)
    BY <1>1, <1>3 DEF q
  <2> QED BY Zenon, <2>1, <2>2 DEF q
<1>4. CASE k < q /\ k = q - 1
  <2> DEFINE n == Smaller(Len(r), s - k * BlockSize)
  <2>1. s - k * BlockSize \in Nat
    BY Zenon, <1>1, <1>4, CountBelow DEF q
  <2>2. n \in 0..Len(r)
    BY <1>2, <2>1 DEF Smaller, r
  <2>3. \A j \in Nat \ {0} : j <= Len(r) /\ j <= s - k * BlockSize => j <= n /\ j \in 1..n
    BY <1>2, <2>1 DEF Smaller, r
  <2> HIDE DEF n
  <2>4. ~(k >= q)
    BY <1>1, <1>4 DEF q
  <2>5. Cut(k, s) = SubSeq(r, 1, n)
    BY Zenon, <1>4, <2>4 DEF Cut, n, q, r
  <2>6. /\ SubSeq(r, 1, n) \in Seq(Char) /\ Len(SubSeq(r, 1, n)) = n
        /\ \A j \in 1..n : SubSeq(r, 1, n)[j] = r[j]
    BY Zenon, <1>2, <2>2, Prefix DEF r
  <2>7. n <= BlockSize
    BY <1>1, <1>2, <2>2 DEF r
  <2> QED BY Zenon, <2>3, <2>5, <2>6, <2>7 DEF r
<1>5. CASE k < q /\ k # q - 1
  <2>1. ~(k >= q)
    BY <1>1, <1>5 DEF q
  <2>2. Cut(k, s) = remote[k]
    BY Zenon, <1>5, <2>1 DEF Cut, q
  <2> QED BY Zenon, <1>2, <2>2
<1>6. k >= q \/ k < q
  BY <1>1 DEF q
<1> QED BY Zenon, <1>3, <1>4, <1>5, <1>6

LEMMA TruncateTypes ==
  ASSUME FileTypes, TruncateBlocks
  PROVE  FileTypes'
<1>0. BlocksOK /\ BuffersOK /\ SizesOK /\ HistoryOK /\ CountsOK /\ OpInv
  BY Zenon DEF FileTypes
<1>1. op \in FileOp /\ op.kind = "truncate" /\ op.off \in Len(synced)..Len(content)
  BY Zenon, <1>0 DEF TruncateBlocks, OpInv
<1>2. /\ dirtyAttr' = (IF dirtyAttr = NoAttr THEN NoAttr ELSE op.off)
      /\ op' = [op EXCEPT !.kind = "resize"]
      /\ content' = SubSeq(content, 1, op.off)
      /\ UNCHANGED <<size, dirty, valid, late, synced, lost, crashes>>
      /\ Fault \/ NoFault
  BY Zenon DEF TruncateBlocks, NoFault
<1>3. /\ content \in Seq(Byte) /\ synced \in Seq(Byte) /\ Len(content) <= MaxSize
      /\ \A i \in 1..Len(synced) : synced[i] = content[i]
  BY Zenon, <1>0 DEF HistoryOK
<1>4. op.off \in 0..Len(content) /\ op.off \in Nat /\ Len(synced) <= op.off /\ op.off <= MaxSize
      /\ op.off \in 0..MaxSize
  BY <1>1, <1>3, Sizes
<1>5. BlocksOK'
  <2>1. /\ remote' \in [Block -> {remote[k] : k \in Block} \cup {Cut(k, op.off) : k \in Block}]
        /\ \A k \in Block : remote'[k] = remote[k] \/ remote'[k] = Cut(k, op.off)
    BY Zenon, <1>0, CutIs
  <2>2. \A k \in Block : Cut(k, op.off) \in Seq(Char) /\ Len(Cut(k, op.off)) <= BlockSize
    BY Zenon, <1>0, <1>4, CutBlock
  <2>3. \A k \in Block : remote[k] \in Seq(Char) /\ Len(remote[k]) <= BlockSize
    BY Zenon, <1>0 DEF BlocksOK
  <2>4. \A k \in Block : remote'[k] \in Seq(Char) /\ Len(remote'[k]) <= BlockSize
    BY Zenon, <2>1, <2>2, <2>3
  <2>5. remote' = [k \in Block |-> remote'[k]]
    BY Zenon, <2>1
  <2>6. remote' \in [Block -> Seq(Char)]
    BY Zenon, <2>4, <2>5
  <2> QED BY Zenon, <2>4, <2>6 DEF BlocksOK
<1>6. BuffersOK'
  BY Zenon, <1>0, <1>2 DEF BuffersOK
<1>7. SizesOK'
  BY Zenon, <1>0, <1>2, <1>4 DEF SizesOK
<1>8. CountsOK'
  BY Zenon, <1>0, <1>2, FaultOK DEF CountsOK
<1>9. /\ content' \in Seq(Byte) /\ Len(content') = op.off
      /\ \A i \in 1..op.off : content'[i] = content[i]
  BY Zenon, <1>2, <1>3, <1>4, Prefix
<1>10. HistoryOK'
  <2>1. \A i \in 1..Len(synced) : i \in 1..op.off
    BY <1>3, <1>4
  <2> QED BY Zenon, <1>2, <1>3, <1>4, <1>9, <2>1 DEF HistoryOK
<1>11. op' \in FileOp /\ op'.kind = "resize" /\ op'.off = op.off
  BY <1>1, <1>2 DEF FileOp, Kind
<1>12. OpInv'
  BY <1>9, <1>11 DEF OpInv, Appends
<1> QED BY Zenon, <1>5, <1>6, <1>7, <1>8, <1>10, <1>12 DEF FileTypes

LEMMA TruncateReturnsTypes ==
  ASSUME FileTypes, TruncateReturns
  PROVE  FileTypes'
<1>0. BlocksOK /\ BuffersOK /\ SizesOK /\ HistoryOK /\ CountsOK /\ OpInv
  BY Zenon DEF FileTypes
<1>1. op.kind = "resize" /\ op.off = Len(content) /\ Len(content) <= MaxSize /\ content \in Seq(Byte)
  BY Zenon, <1>0 DEF TruncateReturns, OpInv, HistoryOK
<1>2. op.off \in 0..MaxSize
  BY <1>1, Sizes
<1>3. /\ size' = size \/ size' = op.off
      /\ dirtyAttr' = dirtyAttr \/ dirtyAttr' = NoAttr
      /\ Fault \/ NoFault
      /\ Ends /\ UNCHANGED <<remote, dirty, valid, late, content, synced, lost, crashes>>
  BY Zenon DEF TruncateReturns, history
<1>4. BlocksOK' /\ BuffersOK' /\ HistoryOK' /\ SizesOK'
  BY Zenon, <1>0, <1>2, <1>3 DEF BlocksOK, BuffersOK, HistoryOK, SizesOK
<1>5. CountsOK'
  BY Zenon, <1>0, <1>3, FaultOK DEF CountsOK
<1> QED BY Zenon, <1>3, <1>4, <1>5, IdleOK DEF FileTypes

LEMMA CrashTypes ==
  ASSUME FileTypes, Crash
  PROVE  FileTypes'
<1>0. BlocksOK /\ BuffersOK /\ SizesOK /\ HistoryOK /\ CountsOK /\ OpInv
  BY Zenon DEF FileTypes
<1>1. <<>> \in Seq(Char) /\ Len(<<>>) = 0
  OBVIOUS
<1>2. /\ dirty' = [k \in Block |-> <<>>] /\ valid' = [k \in Block |-> 0]
      /\ dirtyAttr' = NoAttr /\ late' = NoAttr /\ Ends /\ content' = synced
      /\ UNCHANGED <<remote, size, synced, lost, faults>>
  BY Zenon DEF Crash
<1>3. BlocksOK'
  BY Zenon, <1>0, <1>2 DEF BlocksOK
<1>4. BuffersOK'
  BY <1>1, <1>2, Sizes DEF BuffersOK
<1>5. SizesOK'
  BY Zenon, <1>0, <1>2 DEF SizesOK
<1>6. HistoryOK'
  <2>1. Len(synced) <= Len(synced) /\ Len(synced) <= MaxSize
    BY <1>0, Sizes DEF HistoryOK
  <2> QED BY Zenon, <1>0, <1>2, <2>1 DEF HistoryOK
<1>7. crashes' \in 0..MaxCrashes
  BY <1>0, Sizes DEF Crash, CountsOK
<1>8. CountsOK'
  BY Zenon, <1>0, <1>2, <1>7 DEF CountsOK
<1> QED BY Zenon, <1>2, <1>3, <1>4, <1>5, <1>6, <1>8, IdleOK DEF FileTypes

LEMMA FileStep ==
  ASSUME FileTypes, [Next]_vars
  PROVE  FileTypes'
<1>1. CASE UNCHANGED vars
  <2>1. UNCHANGED <<remote, size, dirty, valid, dirtyAttr, late, op, content, synced, lost, faults, crashes>>
    BY Zenon, <1>1 DEF vars, mountVars, history
  <2>2. OpInv'
    BY Zenon, <2>1, OpKept DEF FileTypes
  <2> QED BY Zenon, <2>1, <2>2 DEF FileTypes, BlocksOK, BuffersOK, SizesOK, HistoryOK, CountsOK
<1>2. CASE Fsync \/ Release
  BY Zenon, <1>2, BeginTypes DEF Fsync, Release
<1>3. CASE Next
  BY Zenon, <1>2, <1>3, WriteTypes, WriteFastTypes, WriteBufferTypes, FlushBlockTypes, AutoFlushTypes,
     WriteReturnsTypes, SetattrTypes, FlushFileTypes, FsyncTypes, ReleaseTypes,
     TruncateTypes, TruncateReturnsTypes, CrashTypes DEF Next
<1> QED BY Zenon, <1>1, <1>3

---------------------------------------------------------------------------
(* The sizes: one lemma per action.                                        *)

LEMMA SizeTypes ==
  ASSUME FileTypes
  PROVE  /\ size \in 0..MaxSize /\ NoAttr \in Nat /\ NoAttr > MaxSize /\ MaxSize \in Nat
         /\ dirtyAttr \in 0..MaxSize \cup {NoAttr} /\ late \in 0..MaxSize \cup {NoAttr}
         /\ Len(content) \in Nat /\ Len(synced) \in Nat /\ Len(synced) <= Len(content)
BY Sizes DEF FileTypes, SizesOK, HistoryOK, NoAttr

(* A step that writes nothing to the file and publishes nothing.           *)
LEMMA SizeKept ==
  ASSUME SizeInv, UNCHANGED <<size, dirtyAttr, late, content, synced>>, lost \in BOOLEAN, lost => lost',
         Appends' => Appends /\ op'.old = op.old
  PROVE  SizeInv'
<1>1. NoAttr' = NoAttr /\ Published' = Published
  BY Zenon DEF NoAttr, Published
<1> QED BY Zenon, <1>1 DEF SizeInv

LEMMA WriteSize ==
  ASSUME FileTypes, SizeInv, Write
  PROVE  SizeInv'
<1> SUFFICES ASSUME ~lost' PROVE SizeInv'
  BY Zenon DEF SizeInv
<1> DEFINE attr == IF dirtyAttr = NoAttr THEN size ELSE dirtyAttr
<1>1. PICK n \in 1..MaxWrite : \E d \in [1..n -> Byte] :
        /\ op' = [kind |-> "write", data |-> d, off |-> Len(content), pos |-> 0, old |-> attr]
        /\ dirtyAttr' = Larger(attr, Len(content) + n)
        /\ Len(content) + n <= MaxSize
  BY Zenon DEF Write
<1>2. op'.old = attr
  BY <1>1
<1>3. dirtyAttr' = Larger(attr, Len(content) + n) /\ Len(content) + n <= MaxSize
  BY Zenon, <1>1
<1>4. ~lost /\ ~(dirtyAttr = NoAttr /\ late # NoAttr) /\ UNCHANGED <<size, late, content, synced>>
  BY Zenon DEF Write
<1>5. /\ dirtyAttr = NoAttr \/ late = NoAttr
      /\ Len(content) <= Published /\ Len(synced) <= size
  BY Zenon, <1>4 DEF SizeInv
<1>6. Published = attr /\ late = NoAttr
  BY Zenon, <1>4, <1>5 DEF Published
<1> HIDE DEF attr
<1>7. attr \in 0..MaxSize
  BY SizeTypes DEF attr
<1>8. dirtyAttr' # NoAttr /\ Len(content) <= dirtyAttr'
  BY <1>3, <1>5, <1>6, <1>7, SizeTypes DEF Larger
<1>9. NoAttr' = NoAttr
  BY Zenon DEF NoAttr
<1> QED BY Zenon, <1>2, <1>4, <1>5, <1>6, <1>8, <1>9 DEF SizeInv, Published

LEMMA WriteReturnsSize ==
  ASSUME FileTypes, SizeInv, WriteReturns
  PROVE  SizeInv'
<1>1. /\ op.kind = "write" /\ content' = content \o op.data /\ Ends
      /\ UNCHANGED <<size, dirtyAttr, late, synced, lost>>
  BY Zenon DEF WriteReturns
<1>2. /\ op.data \in Seq(Byte) /\ content \in Seq(Byte) /\ dirtyAttr # NoAttr
      /\ Len(content) + Len(op.data) <= dirtyAttr
  BY Zenon, <1>1 DEF FileTypes, HistoryOK, OpInv, Appends, FileOp
<1>3. Len(content') <= dirtyAttr
  BY <1>1, <1>2
<1>4. ~Appends'
  BY <1>1, IdleIs DEF Ends, Appends
<1>5. NoAttr' = NoAttr
  BY Zenon DEF NoAttr
<1> QED BY Zenon, <1>1, <1>2, <1>3, <1>4, <1>5 DEF SizeInv, Published

LEMMA FsyncSize ==
  ASSUME FileTypes, SizeInv, FsyncReturns
  PROVE  SizeInv'
<1> SUFFICES ASSUME ~lost' PROVE SizeInv'
  BY Zenon DEF SizeInv
<1>0. ~(lost' = TRUE)
  OBVIOUS
<1>1. /\ ~lost /\ dirtyAttr' = NoAttr /\ UNCHANGED <<late, content>>
      /\ size' = (IF dirtyAttr = NoAttr THEN size ELSE dirtyAttr)
      /\ synced' = (IF late = NoAttr THEN content ELSE synced) /\ Ends
  BY Zenon, <1>0 DEF FsyncReturns, syncAttr
<1>2. /\ dirtyAttr = NoAttr \/ late = NoAttr
      /\ Len(content) <= Published /\ Len(synced) <= size
  BY Zenon, <1>1 DEF SizeInv
<1>3. ~Appends'
  BY <1>1, IdleIs DEF Ends, Appends
<1>4. NoAttr' = NoAttr
  BY Zenon DEF NoAttr
<1> QED BY Zenon, <1>1, <1>2, <1>3, <1>4 DEF SizeInv, Published

LEMMA ReleaseTakesSize ==
  ASSUME FileTypes, SizeInv, ReleaseTakes
  PROVE  SizeInv'
<1> SUFFICES ASSUME ~lost' PROVE SizeInv'
  BY Zenon DEF SizeInv
<1>1. /\ ~lost /\ dirtyAttr' = NoAttr /\ UNCHANGED <<size, content, synced>> /\ Ends
      /\ late' = (IF dirtyAttr = NoAttr THEN late ELSE dirtyAttr)
  BY Zenon DEF ReleaseTakes, history
<1>2. /\ dirtyAttr = NoAttr \/ late = NoAttr
      /\ Len(content) <= Published /\ Len(synced) <= size
  BY Zenon, <1>1 DEF SizeInv
<1>3. ~Appends'
  BY <1>1, IdleIs DEF Ends, Appends
<1>4. NoAttr' = NoAttr
  BY Zenon DEF NoAttr
<1> QED BY Zenon, <1>1, <1>2, <1>3, <1>4 DEF SizeInv, Published

LEMMA ReleasePublishesSize ==
  ASSUME FileTypes, SizeInv, ReleasePublishes
  PROVE  SizeInv'
<1> SUFFICES ASSUME ~lost' PROVE SizeInv'
  BY Zenon DEF SizeInv
<1>0. ~(lost' = TRUE)
  OBVIOUS
<1>1. /\ ~lost /\ late # NoAttr /\ late' = NoAttr /\ size' = late
      /\ UNCHANGED <<dirtyAttr, op, content, synced>>
  BY Zenon, <1>0 DEF ReleasePublishes
<1>2. /\ dirtyAttr = NoAttr \/ late = NoAttr
      /\ Len(content) <= Published /\ Len(synced) <= size
      /\ Appends => Len(content) <= op.old
  BY Zenon, <1>1 DEF SizeInv
<1>3. Published = late
  BY Zenon, <1>1, <1>2 DEF Published
<1>4. Len(synced) <= late
  BY <1>1, <1>2, <1>3, SizeTypes
<1>5. NoAttr' = NoAttr
  BY Zenon DEF NoAttr
<1> QED BY Zenon, <1>1, <1>2, <1>3, <1>4, <1>5 DEF SizeInv, Published, Appends

LEMMA SetattrSize ==
  ASSUME FileTypes, SizeInv, Setattr
  PROVE  SizeInv'
<1>1. PICK s \in 0..Len(content) :
        Begin("truncate", s) /\ synced' = SubSeq(synced, 1, Smaller(s, Len(synced)))
  BY Zenon DEF Setattr
<1>2. synced \in Seq(Byte) /\ Smaller(s, Len(synced)) \in 0..Len(synced)
  BY SizeTypes DEF Smaller, FileTypes, HistoryOK
<1>3. Len(synced') = Smaller(s, Len(synced))
  BY Zenon, <1>1, <1>2, Prefix
<1>4. Len(synced) <= size => Len(synced') <= size
  BY <1>2, <1>3, SizeTypes
<1>5. UNCHANGED <<size, dirtyAttr, late, content, lost>>
  BY Zenon, <1>1 DEF Begin
<1>6. ~Appends'
  BY <1>1, IdleIs DEF Begin, Idle, Appends
<1>7. NoAttr' = NoAttr
  BY Zenon DEF NoAttr
<1> QED BY Zenon, <1>4, <1>5, <1>6, <1>7 DEF SizeInv, Published

LEMMA TruncateSize ==
  ASSUME FileTypes, SizeInv, TruncateBlocks
  PROVE  SizeInv'
<1>1. /\ op.kind = "truncate" /\ op \in FileOp /\ op.off \in Len(synced)..Len(content) /\ content \in Seq(Byte)
      /\ dirtyAttr' = (IF dirtyAttr = NoAttr THEN NoAttr ELSE op.off)
      /\ op' = [op EXCEPT !.kind = "resize"]
      /\ content' = SubSeq(content, 1, op.off)
      /\ UNCHANGED <<size, late, synced, lost>>
  BY Zenon DEF TruncateBlocks, FileTypes, OpInv, HistoryOK
<1>2. op.off \in 0..Len(content) /\ op.off \in Nat /\ op.off <= Len(content)
  BY <1>1, SizeTypes
<1>3. Len(content') = op.off
  BY Zenon, <1>1, <1>2, Prefix
<1>4. Len(content) <= Published => op.off <= Published
  BY <1>2, SizeTypes DEF Published
<1>5. ~Appends'
  <2>1. op'.kind = "resize"
    BY <1>1 DEF FileOp
  <2> QED BY <2>1 DEF Appends
<1>6. NoAttr' = NoAttr
  BY Zenon DEF NoAttr
<1>7. op.off <= op.off /\ ~(op.off = NoAttr)
  <2>1. Len(content) <= MaxSize
    BY Zenon DEF FileTypes, HistoryOK
  <2> QED BY <1>2, <2>1, SizeTypes
<1> QED BY Zenon, <1>1, <1>3, <1>4, <1>5, <1>6, <1>7 DEF SizeInv, Published

LEMMA TruncateReturnsSize ==
  ASSUME FileTypes, SizeInv, TruncateReturns
  PROVE  SizeInv'
<1>1. /\ op.kind = "resize" /\ op.off = Len(content)
      /\ \/ size' = op.off /\ dirtyAttr' = NoAttr
         \/ size' \in {size, op.off} /\ dirtyAttr' = dirtyAttr
      /\ UNCHANGED <<late, content, synced, lost>> /\ Ends
  BY Zenon DEF TruncateReturns, FileTypes, OpInv, history
<1>2. ~Appends'
  BY <1>1, IdleIs DEF Ends, Appends
<1>3. NoAttr' = NoAttr
  BY Zenon DEF NoAttr
<1>4. SizeInv /\ ~lost => (dirtyAttr = NoAttr \/ late = NoAttr) /\ Len(content) <= Published /\ Len(synced) <= size
  BY Zenon DEF SizeInv
<1>5. ~lost' => Len(synced') <= size'
  BY <1>1, <1>4, SizeTypes
<1>6. ~lost' => Len(content') <= Published'
  BY <1>1, <1>3, <1>4, SizeTypes DEF Published
<1>7. ~lost' => dirtyAttr' = NoAttr' \/ late' = NoAttr'
  BY Zenon, <1>1, <1>3, <1>4
<1> QED BY Zenon, <1>2, <1>5, <1>6, <1>7 DEF SizeInv

LEMMA CrashSize ==
  ASSUME FileTypes, SizeInv, Crash
  PROVE  SizeInv'
<1>1. /\ dirtyAttr' = NoAttr /\ late' = NoAttr /\ Ends /\ content' = synced
      /\ UNCHANGED <<size, synced, lost>>
  BY Zenon DEF Crash
<1>2. ~Appends'
  BY <1>1, IdleIs DEF Ends, Appends
<1>3. NoAttr' = NoAttr
  BY Zenon DEF NoAttr
<1> QED BY Zenon, <1>1, <1>2, <1>3 DEF SizeInv, Published

LEMMA SizeStep ==
  ASSUME FileTypes, SizeInv, [Next]_vars
  PROVE  SizeInv'
<1>0. lost \in BOOLEAN /\ op \in FileOp
  BY Zenon DEF FileTypes, CountsOK, OpInv
<1>1. CASE UNCHANGED vars
  <2>1. UNCHANGED <<size, dirtyAttr, late, content, synced, lost, op>>
    BY Zenon, <1>1 DEF vars, mountVars, history
  <2> QED BY Zenon, <1>0, <2>1, SizeKept DEF Appends
<1>2. ASSUME WriteFast \/ WriteBuffer \/ flushBlock \/ AutoFlush \/ FlushFile
      PROVE  SizeInv'
  <2>0. lost' = TRUE => lost'
    OBVIOUS
  <2>1. UNCHANGED <<size, dirtyAttr, late, content, synced>> /\ (lost => lost')
    BY Zenon, <1>2, <2>0 DEF WriteFast, WriteBuffer, flushBlock, AutoFlush, FlushFile, history
  <2>2. \/ op' = op
        \/ op' = Idle
        \/ op.kind = "release" /\ op' = [op EXCEPT !.kind = "close"]
        \/ op.kind = "write" /\ op' = [op EXCEPT !.kind = "flushBlock"]
        \/ op.kind = "write" /\ op' = [op EXCEPT !.pos = @ + writeN]
        \/ op.kind = "flushBlock" /\ op' = [op EXCEPT !.kind = "write", !.pos = @ + writeN]
    BY Zenon, <1>2 DEF WriteFast, WriteBuffer, flushBlock, AutoFlush, FlushFile, Writing, Advance, Ends
  <2>3. Appends' => Appends /\ op'.old = op.old
    BY <1>0, <2>2, IdleIs DEF Appends, FileOp
  <2> QED BY Zenon, <1>0, <2>1, <2>3, SizeKept
<1>3. ASSUME Fsync \/ Release
      PROVE  SizeInv'
  <2>1. UNCHANGED <<size, dirtyAttr, late, content, synced, lost>>
    BY Zenon, <1>3 DEF Fsync, Release, Begin
  <2>2. op'.kind \in {"fsync", "release"}
    BY <1>3 DEF Fsync, Release, Begin, Idle
  <2>3. ~Appends'
    BY <2>2 DEF Appends
  <2> QED BY Zenon, <1>0, <2>1, <2>3, SizeKept
<1>4. CASE Next
  BY Zenon, <1>2, <1>3, <1>4, WriteSize, WriteReturnsSize, SetattrSize, FsyncSize, ReleaseTakesSize,
     ReleasePublishesSize, TruncateSize, TruncateReturnsSize, CrashSize DEF Next
<1> QED BY Zenon, <1>1, <1>4

---------------------------------------------------------------------------
(* The bytes: one lemma per action.                                        *)

LEMMA ReachIs ==
  ASSUME FileTypes
  PROVE  /\ Reach \in Nat /\ Len(content) \in Nat /\ Len(content) <= Reach /\ Reach <= MaxSize
         /\ Len(synced) \in Nat /\ Len(synced) <= Len(content)
         /\ MaxSize \in Nat
<1>0. SizesOK /\ HistoryOK /\ OpInv
  BY Zenon DEF FileTypes
<1>1. /\ Len(content) \in Nat /\ Len(synced) \in Nat /\ Len(synced) <= Len(content)
      /\ Len(content) <= MaxSize /\ MaxSize \in Nat
  BY <1>0, Sizes DEF HistoryOK
<1>2. CASE ~Appends
  BY <1>1, <1>2 DEF Reach
<1>3. CASE op.kind = "flushBlock"
  <2>1. Appends /\ op.pos < Len(op.data)
    BY Zenon, <1>0, <1>3 DEF OpInv, Appends
  <2>2. /\ absOff \in Nat /\ absOff = Len(content) + op.pos /\ op.pos \in Nat
        /\ writeN \in 1..BlockSize - blockOff(absOff) /\ absOff + writeN <= MaxSize
    BY Zenon, <1>0, <2>1, PieceIs
  <2>3. Reach = absOff + writeN
    BY Zenon, <1>3, <2>1 DEF Reach
  <2>4. writeN \in Nat
    <3>1. blockOff(absOff) \in 0..(BlockSize - 1) /\ BlockSize \in Nat
      BY Zenon, <2>2, Place, Sizes
    <3> QED BY <2>2, <3>1
  <2> QED BY <1>1, <2>2, <2>3, <2>4
<1>4. CASE op.kind = "write"
  <2>1. Appends /\ ~(op.kind = "flushBlock")
    BY <1>4 DEF Appends
  <2>2. /\ op.off = Len(content) /\ op.pos <= Len(op.data) /\ op \in FileOp
        /\ dirtyAttr \in 0..MaxSize /\ op.off + Len(op.data) <= dirtyAttr
    BY Zenon, <1>0, <2>1 DEF OpInv, SizesOK
  <2>3. op.pos \in Nat /\ op.data \in Seq(Byte)
    BY Zenon, <2>2 DEF FileOp
  <2>4. Reach = absOff + 0 /\ absOff = op.off + op.pos
    BY Zenon, <2>1 DEF Reach, absOff
  <2> QED BY <1>1, <2>2, <2>3, <2>4
<1> QED BY Zenon, <1>2, <1>3, <1>4 DEF Appends

(* Synced bytes are among those expected.                                  *)
LEMMA SyncedExpected ==
  ASSUME FileTypes, NEW i \in 0..Len(synced) - 1
  PROVE  i \in 0..Reach - 1 /\ Expected(content, op, i) = synced[i + 1] /\ i \in Nat /\ i < MaxSize
<1>1. i \in Nat /\ i < Len(content) /\ i \in 0..Reach - 1 /\ i < MaxSize /\ i + 1 \in 1..Len(synced)
  BY ReachIs
<1> QED BY Zenon, <1>1 DEF Expected, FileTypes, HistoryOK

LEMMA FlushBytes ==
  ASSUME FileTypes, NEW k \in Block, dirty[k] # <<>>, flushLocked(k) \/ flushFails(k),
         NEW i \in Nat, i < MaxSize, NEW b, Seen(remote, dirty, valid, i, b)
  PROVE  /\ Seen(remote', dirty', valid', i, b)
         /\ Stored(remote, i, b) => Stored(remote', i, b)
<1> DEFINE d == SubSeq(dirty[k], 1, valid[k])  j == blockIdx(i)  o == blockOff(i)
<1>0. BlocksOK /\ BuffersOK
  BY Zenon DEF FileTypes
<1>1. /\ d \in Seq(Char) /\ Len(d) = valid[k]
      /\ \A x \in 1..valid[k] : d[x] = dirty[k][x]
  BY Zenon, <1>0, FlushedIs
<1>2. valid[k] > 0 /\ valid[k] \in Nat /\ j \in Block /\ o \in Nat /\ valid[j] \in Nat
  <2>1. j \in Block /\ o \in 0..(BlockSize - 1)
    BY Zenon, InBlock, Place
  <2>2. o \in Nat
    BY <2>1, Sizes
  <2> QED BY Zenon, <1>0, <2>1, <2>2 DEF BuffersOK
<1>3. remote' = [remote EXCEPT ![k] = d] \/ (remote' = remote /\ dirty' = dirty /\ valid' = valid)
  BY Zenon DEF flushLocked, flushFails, PutFails, Put
<1>4. \/ dirty' = dirty /\ valid' = valid
      \/ /\ dirty' = [dirty EXCEPT ![k] = <<>>] /\ valid' = [valid EXCEPT ![k] = 0]
         /\ remote' = [remote EXCEPT ![k] = d]
  BY Zenon DEF flushLocked, flushFails, PutFails, DropBuffer, Put
<1>5. remote \in [Block -> Seq(Char)] /\ dirty \in [Block -> Seq(Char)] /\ valid \in [Block -> Nat]
  BY Zenon, <1>0 DEF BlocksOK, BuffersOK
<1>6. IF valid[j] > 0 THEN o < valid[j] /\ dirty[j][o + 1] = b
      ELSE o < Len(remote[j]) /\ remote[j][o + 1] = b
  BY Zenon DEF Seen, Stored
<1> HIDE DEF d, j, o
<1>7. CASE j # k
  <2>1. remote'[j] = remote[j] /\ dirty'[j] = dirty[j] /\ valid'[j] = valid[j]
    BY Zenon, <1>2, <1>3, <1>4, <1>5, <1>7
  <2> QED BY Zenon, <2>1 DEF Seen, Stored, j
<1>8. CASE j = k
  <2>1. o < valid[k] /\ dirty[k][o + 1] = b
    BY Zenon, <1>2, <1>6, <1>8
  <2>2. o < Len(d) /\ d[o + 1] = b
    <3>1. o + 1 \in 1..valid[k]
      BY <1>2, <2>1
    <3> QED BY Zenon, <1>1, <2>1, <3>1
  <2>3. remote' = [remote EXCEPT ![k] = d] => remote'[j] = d
    BY Zenon, <1>5, <1>8
  <2>4. Stored(remote, i, b) => Stored(remote', i, b)
    BY Zenon, <1>3, <2>2, <2>3 DEF Stored, j, o
  <2>5. CASE dirty' = dirty /\ valid' = valid
    BY Zenon, <1>2, <1>8, <2>1, <2>4, <2>5 DEF Seen, j, o
  <2>6. CASE valid' = [valid EXCEPT ![k] = 0] /\ remote' = [remote EXCEPT ![k] = d]
    <3>1. valid'[j] = 0 /\ ~(0 > 0)
      <4>1. ~(0 > 0)
        OBVIOUS
      <4> QED BY Zenon, <1>5, <1>8, <2>6, <4>1
    <3> QED BY Zenon, <2>2, <2>3, <2>4, <2>6, <3>1 DEF Seen, Stored, j, o
  <2> QED BY Zenon, <1>4, <2>4, <2>5, <2>6
<1> QED BY Zenon, <1>7, <1>8

(* A step that moves the bytes and keeps what is expected of them.         *)
LEMMA BytesMoved ==
  ASSUME FileTypes, BytesInv, lost => lost', lost \in BOOLEAN, UNCHANGED <<content, synced>>,
         Reach' \in Nat, Reach' <= Reach,
         \A i \in Nat : i < Reach' => Expected(content, op', i) = Expected(content, op, i),
         \A i \in Nat : \A b : i < MaxSize /\ Seen(remote, dirty, valid, i, b) =>
            /\ Seen(remote', dirty', valid', i, b)
            /\ Stored(remote, i, b) => Stored(remote', i, b)
  PROVE  BytesInv'
<1> SUFFICES ASSUME ~lost' PROVE BytesInv'
  BY Zenon DEF BytesInv
<1>1. ~lost /\ SeenInv /\ SyncedInv
  BY Zenon DEF BytesInv
<1>2. ASSUME NEW i \in 0..Reach' - 1
      PROVE  Seen(remote', dirty', valid', i, Expected(content', op', i))
  <2>0. Reach \in Nat /\ Reach <= MaxSize /\ MaxSize \in Nat
    BY Zenon, ReachIs
  <2>a. \A m, n \in Nat : \A x \in 0..m - 1 : m <= n => x \in Nat /\ x < m /\ x \in 0..n - 1
    OBVIOUS
  <2>b. i \in Nat /\ i < Reach' /\ i \in 0..Reach - 1
    BY Zenon, <2>0, <2>a
  <2>1. i \in Nat /\ i < Reach' /\ i \in 0..Reach - 1 /\ i < MaxSize
    BY <2>0, <2>b
  <2>2. Seen(remote, dirty, valid, i, Expected(content, op, i))
    BY Zenon, <1>1, <2>1 DEF SeenInv
  <2>3. content' = content
    BY Zenon
  <2> QED BY Zenon, <2>1, <2>2, <2>3
<1>3. ASSUME NEW i \in 0..Len(synced') - 1
      PROVE  Stored(remote', i, synced'[i + 1])
  <2>1. i \in 0..Len(synced) - 1 /\ synced' = synced
    BY Zenon
  <2>2. i \in 0..Reach - 1 /\ Expected(content, op, i) = synced[i + 1] /\ i \in Nat /\ i < MaxSize
    BY Zenon, <2>1, SyncedExpected
  <2>3. Seen(remote, dirty, valid, i, synced[i + 1]) /\ Stored(remote, i, synced[i + 1])
    BY Zenon, <1>1, <2>1, <2>2 DEF SeenInv, SyncedInv
  <2> QED BY Zenon, <2>1, <2>2, <2>3
<1>4. SeenInv' /\ SyncedInv'
  BY Zenon, <1>2, <1>3 DEF SeenInv, SyncedInv
<1> QED BY Zenon, <1>4 DEF BytesInv

ReachNow ==
  /\ Reach' \in Nat /\ Reach' <= Reach
  /\ \A i \in Nat : i < Reach' => Expected(content, op', i) = Expected(content, op, i)

LEMMA ReachSame ==
  ASSUME FileTypes, UNCHANGED <<op, content>>
  PROVE  ReachNow
<1>1. Reach' = Reach
  BY Zenon DEF Reach, Appends, absOff, writeN
<1>2. Reach' \in Nat /\ Reach' <= Reach
  <2>1. Reach \in Nat
    BY Zenon, ReachIs
  <2>2. Reach <= Reach
    BY <2>1
  <2> QED BY Zenon, <1>1, <2>1, <2>2
<1> QED BY Zenon, <1>2 DEF ReachNow

LEMMA ReachEnds ==
  ASSUME FileTypes, UNCHANGED content, op'.kind \notin {"write", "flushBlock"}
  PROVE  ReachNow
<1>1. Reach' = Len(content)
  BY Zenon DEF Reach, Appends
<1>2. Reach' \in Nat /\ Reach' <= Reach
  BY Zenon, <1>1, ReachIs
<1> QED BY Zenon, <1>1, <1>2 DEF ReachNow, Expected

LEMMA ReachBegins ==
  ASSUME FileTypes, UNCHANGED content, op'.kind = "write", op'.off = Len(content), op'.pos = 0
  PROVE  ReachNow
<1>1. ~(op'.kind = "flushBlock") /\ Appends'
  BY DEF Appends
<1>2. Reach' = Len(content) + 0 + 0
  BY Zenon, <1>1 DEF Reach, absOff
<1>3. Reach' = Len(content) /\ Len(content) <= Reach /\ Len(content) \in Nat
  BY <1>2, ReachIs
<1> QED BY Zenon, <1>3 DEF ReachNow, Expected

LEMMA ExpectedSame ==
  ASSUME NEW c, NEW r, NEW q, q.data = r.data, q.off = r.off
  PROVE  \A i : Expected(c, q, i) = Expected(c, r, i)
BY DEF Expected

LEMMA ReachFlushed ==
  ASSUME FileTypes, UNCHANGED content, op.kind = "flushBlock", op' = [op EXCEPT !.kind = "write", !.pos = @ + writeN]
  PROVE  ReachNow
<1>0. SizesOK /\ HistoryOK /\ OpInv /\ op \in FileOp
  BY Zenon DEF FileTypes, OpInv
<1>1. /\ op'.kind = "write" /\ op'.off = op.off /\ op'.data = op.data /\ op'.pos = op.pos + writeN
      /\ op.off \in Nat /\ op.pos \in Nat
  BY <1>0 DEF FileOp
<1>2. ~(op'.kind = "flushBlock") /\ Appends' /\ Appends
  BY <1>1 DEF Appends
<1>3. Reach' = (op.off + (op.pos + writeN)) + 0 /\ Reach = (op.off + op.pos) + writeN
  BY Zenon, <1>1, <1>2 DEF Reach, absOff
<1>4. writeN \in Nat
  <2>1. op.pos < Len(op.data)
    BY Zenon, <1>0 DEF OpInv
  <2>2. writeN \in 1..BlockSize - blockOff(absOff) /\ absOff \in Nat
    BY Zenon, <1>0, <1>2, <2>1, PieceIs
  <2>3. blockOff(absOff) \in 0..(BlockSize - 1) /\ BlockSize \in Nat
    BY Zenon, <2>2, Place, Sizes
  <2> QED BY <2>2, <2>3
<1>5. Reach' = Reach /\ Reach \in Nat /\ Reach <= Reach
  BY <1>1, <1>3, <1>4
<1>6. \A i : Expected(content, op', i) = Expected(content, op, i)
  BY Zenon, <1>1, ExpectedSame
<1> QED BY Zenon, <1>5, <1>6 DEF ReachNow

(* The bytes stay where they are.                                          *)
LEMMA BytesStay ==
  ASSUME FileTypes, BytesInv, lost => lost', UNCHANGED <<remote, dirty, valid, content, synced>>, ReachNow
  PROVE  BytesInv'
<1>1. lost \in BOOLEAN
  BY Zenon DEF FileTypes, CountsOK
<1>2. Reach' \in Nat /\ Reach' <= Reach
  BY Zenon DEF ReachNow
<1>3. \A i \in Nat : i < Reach' => Expected(content, op', i) = Expected(content, op, i)
  BY Zenon DEF ReachNow
<1>4. \A i \in Nat : \A b : i < MaxSize /\ Seen(remote, dirty, valid, i, b) =>
            /\ Seen(remote', dirty', valid', i, b)
            /\ Stored(remote, i, b) => Stored(remote', i, b)
  BY Zenon
<1> QED BY Zenon, <1>1, <1>2, <1>3, <1>4, BytesMoved

LEMMA BytesFlushed ==
  ASSUME FileTypes, BytesInv, NEW k \in Block, dirty[k] # <<>>, flushLocked(k) \/ flushFails(k),
         UNCHANGED <<content, synced, lost>>, ReachNow
  PROVE  BytesInv'
<1>1. lost \in BOOLEAN
  BY Zenon DEF FileTypes, CountsOK
<1>2. Reach' \in Nat /\ Reach' <= Reach
  BY Zenon DEF ReachNow
<1>3. \A i \in Nat : i < Reach' => Expected(content, op', i) = Expected(content, op, i)
  BY Zenon DEF ReachNow
<1>4. \A i \in Nat : \A b : i < MaxSize /\ Seen(remote, dirty, valid, i, b) =>
            /\ Seen(remote', dirty', valid', i, b)
            /\ Stored(remote, i, b) => Stored(remote', i, b)
  BY Zenon, FlushBytes
<1>5. lost => lost'
  BY Zenon
<1> QED BY Zenon, <1>1, <1>2, <1>3, <1>4, <1>5, BytesMoved

LEMMA FlushActionBytes ==
  ASSUME FileTypes, BytesInv, flushBlock \/ AutoFlush \/ FlushFile
  PROVE  BytesInv'
<1>0. op \in FileOp /\ UNCHANGED <<content, synced, lost>>
  BY Zenon DEF FileTypes, OpInv, flushBlock, AutoFlush, FlushFile, history
<1>1. op' = Idle => op'.kind \notin {"write", "flushBlock"}
  BY IdleIs
<1>2. op' = [op EXCEPT !.kind = "close"] => op'.kind \notin {"write", "flushBlock"}
  BY <1>0 DEF FileOp
<1>3. CASE flushBlock
  <2> DEFINE k == blockIdx(absOff)
  <2>1. flushLocked(k) \/ flushFails(k)
    BY Zenon, <1>3 DEF flushBlock
  <2>2. k \in Block
    <3>1. Appends /\ op.pos < Len(op.data) /\ OpInv /\ SizesOK /\ HistoryOK
      BY Zenon, <1>3 DEF flushBlock, FileTypes, OpInv, Appends
    <3> QED BY Zenon, <3>1, PieceIs
  <2>3. dirty[k] # <<>>
    <3>1. valid[k] > 0
      BY Zenon, <1>3 DEF flushBlock, FileTypes, OpInv
    <3> QED BY Zenon, <2>2, <3>1 DEF FileTypes, BuffersOK
  <2>4. ReachNow
    <3>1. CASE op' = Idle
      BY Zenon, <1>0, <1>1, <3>1, ReachEnds
    <3>2. CASE op' = [op EXCEPT !.kind = "write", !.pos = @ + writeN]
      BY Zenon, <1>0, <1>3, <3>2, ReachFlushed DEF flushBlock
    <3> QED BY Zenon, <1>3, <3>1, <3>2 DEF flushBlock, Ends
  <2> HIDE DEF k
  <2> QED BY Zenon, <1>0, <2>1, <2>2, <2>3, <2>4, BytesFlushed
<1>4. CASE AutoFlush \/ FlushFile
  <2>1. PICK k \in Block : dirty[k] # <<>> /\ (flushLocked(k) \/ flushFails(k))
    BY Zenon, <1>4 DEF AutoFlush, FlushFile
  <2>2. op' = op \/ op' = Idle \/ op' = [op EXCEPT !.kind = "close"]
    BY Zenon, <1>4 DEF AutoFlush, FlushFile, Ends
  <2>3. ReachNow
    BY Zenon, <1>0, <1>1, <1>2, <2>2, ReachEnds, ReachSame
  <2> QED BY Zenon, <1>0, <2>1, <2>3, BytesFlushed
<1> QED BY Zenon, <1>3, <1>4

LEMMA QuietBytes ==
  ASSUME FileTypes, BytesInv,
         UNCHANGED vars \/ Write \/ Fsync \/ Release \/ ReleaseTakes \/ ReleasePublishes \/ TruncateReturns
  PROVE  BytesInv'
<1>0. lost' = TRUE => lost'
  OBVIOUS
<1>1. UNCHANGED <<remote, dirty, valid, content, synced>> /\ (lost => lost')
  BY Zenon, <1>0 DEF vars, mountVars, history, Write, Fsync, Release, Begin, ReleaseTakes, ReleasePublishes, TruncateReturns
<1>2. CASE UNCHANGED vars \/ ReleasePublishes
  <2>1. op' = op
    BY Zenon, <1>2 DEF vars, mountVars, ReleasePublishes
  <2> QED BY Zenon, <1>1, <2>1, ReachSame, BytesStay
<1>3. CASE Write
  <2>1. op'.kind = "write" /\ op'.off = Len(content) /\ op'.pos = 0
    BY <1>3 DEF Write
  <2> QED BY Zenon, <1>1, <2>1, ReachBegins, BytesStay
<1>4. CASE Fsync \/ Release
  <2>1. op'.kind \notin {"write", "flushBlock"}
    BY <1>4 DEF Fsync, Release, Begin, Idle
  <2> QED BY Zenon, <1>1, <2>1, ReachEnds, BytesStay
<1>5. CASE ReleaseTakes \/ TruncateReturns
  <2>0. op' = Idle
    BY Zenon, <1>5 DEF ReleaseTakes, TruncateReturns, Ends
  <2>1. op'.kind \notin {"write", "flushBlock"}
    BY <2>0, IdleIs
  <2> QED BY Zenon, <1>1, <2>1, ReachEnds, BytesStay
<1> QED BY Zenon, <1>2, <1>3, <1>4, <1>5

(* How the invariant is shown, and used.                                   *)
LEMMA ShowBytes ==
  ASSUME ~lost' => /\ \A i \in 0..Reach' - 1 : Seen(remote', dirty', valid', i, Expected(content', op', i))
                   /\ \A i \in 0..Len(synced') - 1 : Stored(remote', i, synced'[i + 1])
  PROVE  BytesInv'
BY Zenon DEF BytesInv, SeenInv, SyncedInv

LEMMA ContentSeen ==
  ASSUME FileTypes, BytesInv, ~lost, NEW i \in 0..Len(content) - 1
  PROVE  /\ i \in Nat /\ i < MaxSize /\ i < Len(content)
         /\ Seen(remote, dirty, valid, i, content[i + 1])
<1>1. i \in Nat /\ i < MaxSize /\ i < Len(content) /\ i \in 0..Reach - 1
  BY ReachIs
<1> QED BY Zenon, <1>1 DEF BytesInv, SeenInv, Expected

LEMMA SyncedStored ==
  ASSUME BytesInv, ~lost
  PROVE  \A i \in 0..Len(synced) - 1 : Stored(remote, i, synced[i + 1])
BY Zenon DEF BytesInv, SyncedInv

LEMMA NoBuffer ==
  ASSUME NEW data, NEW buf, NEW n, NEW i \in Nat, i < MaxSize, n[blockIdx(i)] = 0, NEW b
  PROVE  Seen(data, buf, n, i, b) <=> Stored(data, i, b)
<1>1. ~(0 > 0)
  OBVIOUS
<1> QED BY Zenon, <1>1 DEF Seen

LEMMA CleanIs ==
  ASSUME FileTypes, Clean, NEW i \in Nat, i < MaxSize
  PROVE  valid[blockIdx(i)] = 0
<1>1. blockIdx(i) \in Block
  BY Zenon, InBlock
<1>2. ~(valid[blockIdx(i)] > 0) /\ valid[blockIdx(i)] \in Nat
  BY Zenon, <1>1 DEF FileTypes, BuffersOK, Clean
<1> QED BY <1>2

LEMMA IdleReach ==
  ASSUME op' = Idle
  PROVE  Reach' = Len(content')
<1>1. op'.kind \notin {"write", "flushBlock"}
  BY IdleIs
<1> QED BY Zenon, <1>1 DEF Reach, Appends

LEMMA ExpectedBelow ==
  ASSUME NEW c, Len(c) \in Nat, NEW r, NEW i \in 0..Len(c) - 1
  PROVE  Expected(c, r, i) = c[i + 1]
<1>1. i < Len(c)
  OBVIOUS
<1> QED BY Zenon, <1>1 DEF Expected

LEMMA WriteReturnsBytes ==
  ASSUME FileTypes, BytesInv, WriteReturns
  PROVE  BytesInv'
<1>1. /\ op.kind = "write" /\ ~Writing /\ content' = content \o op.data /\ op' = Idle
      /\ UNCHANGED <<remote, dirty, valid, synced, lost>>
  BY Zenon DEF WriteReturns, Ends
<1>2. Appends /\ ~(op.kind = "flushBlock")
  BY <1>1 DEF Appends
<1>3. /\ op.data \in Seq(Byte) /\ content \in Seq(Byte) /\ op.pos \in Nat /\ op.off = Len(content)
      /\ op.pos <= Len(op.data) /\ ~(op.pos < Len(op.data))
  BY Zenon, <1>1, <1>2 DEF FileTypes, OpInv, HistoryOK, FileOp, Writing
<1>4. Reach = (op.off + op.pos) + 0
  BY Zenon, <1>2 DEF Reach, absOff
<1>5. Len(content') = Reach
  <2>1. Len(content') = Len(content) + Len(op.data)
    BY <1>1, <1>3
  <2>2. Len(content) \in Nat /\ Len(op.data) \in Nat
    BY <1>3
  <2>3. Reach = Len(content) + Len(op.data)
    BY <1>3, <1>4, <2>2
  <2> QED BY Zenon, <2>1, <2>3
<1>6. Reach' = Reach
  BY Zenon, <1>1, <1>5, IdleReach
<1>7. ASSUME NEW i \in 0..Reach - 1
      PROVE  content'[i + 1] = Expected(content, op, i)
  <2>1. i \in Nat /\ i < Len(content) + Len(op.data)
    BY <1>3, <1>4
  <2>2. CASE i < Len(content)
    <3>1. content'[i + 1] = content[i + 1]
      BY <1>1, <1>3, <2>1, <2>2
    <3> QED BY Zenon, <2>2, <3>1 DEF Expected
  <2>3. CASE ~(i < Len(content))
    <3>1. content'[i + 1] = op.data[i - op.off + 1]
      BY <1>1, <1>3, <2>1, <2>3
    <3> QED BY Zenon, <2>3, <3>1 DEF Expected
  <2> QED BY Zenon, <2>2, <2>3
<1>8. ASSUME ~lost', NEW i \in 0..Reach' - 1
      PROVE  Seen(remote', dirty', valid', i, Expected(content', op', i))
  <2>1. i \in 0..Reach - 1 /\ i \in 0..Len(content') - 1 /\ ~lost
    BY Zenon, <1>1, <1>5, <1>6, <1>8
  <2>2. Seen(remote, dirty, valid, i, Expected(content, op, i))
    BY Zenon, <2>1 DEF BytesInv, SeenInv
  <2>3. Len(content') \in Nat
    BY Zenon, <1>5, ReachIs
  <2>4. Expected(content', op', i) = content'[i + 1]
    BY Zenon, <2>1, <2>3, ExpectedBelow
  <2> QED BY Zenon, <1>1, <1>7, <2>1, <2>2, <2>4
<1>9. ~lost' => \A i \in 0..Len(synced') - 1 : Stored(remote', i, synced'[i + 1])
  BY Zenon, <1>1, SyncedStored
<1> QED BY Zenon, <1>8, <1>9, ShowBytes

LEMMA SetattrBytes ==
  ASSUME FileTypes, BytesInv, Setattr
  PROVE  BytesInv'
<1>1. PICK s \in 0..Len(content) :
        Begin("truncate", s) /\ synced' = SubSeq(synced, 1, Smaller(s, Len(synced)))
  BY Zenon DEF Setattr
<1>2. synced \in Seq(Byte) /\ Smaller(s, Len(synced)) \in 0..Len(synced) /\ Len(synced) \in Nat
  BY ReachIs DEF Smaller, FileTypes, HistoryOK
<1>3. /\ Len(synced') = Smaller(s, Len(synced))
      /\ \A i \in 1..Smaller(s, Len(synced)) : synced'[i] = synced[i]
  BY Zenon, <1>1, <1>2, Prefix
<1>4. \A i \in 0..Len(synced') - 1 : i \in 0..Len(synced) - 1 /\ synced'[i + 1] = synced[i + 1]
  <2> SUFFICES ASSUME NEW i \in 0..Len(synced') - 1
               PROVE  i \in 0..Len(synced) - 1 /\ synced'[i + 1] = synced[i + 1]
    BY Zenon
  <2>1. i \in 0..Len(synced) - 1 /\ i + 1 \in 1..Smaller(s, Len(synced))
    BY <1>2, <1>3
  <2> QED BY Zenon, <1>3, <2>1
<1>5. UNCHANGED <<remote, dirty, valid, content, lost>>
  BY Zenon, <1>1 DEF Begin
<1>6. op'.kind \notin {"write", "flushBlock"}
  BY <1>1 DEF Begin, Idle
<1>7. Reach' = Len(content)
  BY Zenon, <1>5, <1>6 DEF Reach, Appends
<1>8. ~lost' => \A i \in 0..Reach' - 1 : Seen(remote', dirty', valid', i, Expected(content', op', i))
  BY Zenon, <1>5, <1>7, ContentSeen DEF Expected
<1>9. ~lost' => \A i \in 0..Len(synced') - 1 : Stored(remote', i, synced'[i + 1])
  BY Zenon, <1>4, <1>5, SyncedStored
<1> QED BY Zenon, <1>8, <1>9, ShowBytes

LEMMA FsyncBytes ==
  ASSUME FileTypes, BytesInv, FsyncReturns
  PROVE  BytesInv'
<1> SUFFICES ASSUME ~lost' PROVE BytesInv'
  BY Zenon DEF BytesInv
<1>0. ~(lost' = TRUE)
  OBVIOUS
<1>1. /\ ~lost /\ Clean /\ UNCHANGED <<remote, dirty, valid, content>> /\ op' = Idle
      /\ synced' = (IF late = NoAttr THEN content ELSE synced)
  BY Zenon, <1>0 DEF FsyncReturns, syncAttr, Ends
<1>2. Reach' = Len(content)
  BY Zenon, <1>1, IdleReach
<1>3. \A i \in 0..Reach' - 1 : Seen(remote', dirty', valid', i, Expected(content', op', i))
  BY Zenon, <1>1, <1>2, ContentSeen DEF Expected
<1>4. \A i \in 0..Len(content) - 1 : Stored(remote, i, content[i + 1])
  BY Zenon, <1>1, ContentSeen, CleanIs, NoBuffer
<1>5. \A i \in 0..Len(synced') - 1 : Stored(remote', i, synced'[i + 1])
  BY Zenon, <1>1, <1>4, SyncedStored
<1> QED BY Zenon, <1>3, <1>5, ShowBytes

LEMMA CrashBytes ==
  ASSUME FileTypes, BytesInv, Crash
  PROVE  BytesInv'
<1>1. /\ op' = Idle /\ content' = synced /\ UNCHANGED <<remote, synced, lost>>
      /\ valid' = [k \in Block |-> 0]
  BY Zenon DEF Crash, Ends
<1>2. Reach' = Len(synced)
  BY Zenon, <1>1, IdleReach
<1>3. ASSUME ~lost', NEW i \in 0..Reach' - 1
      PROVE  Seen(remote', dirty', valid', i, Expected(content', op', i))
  <2>1. i \in 0..Len(synced) - 1 /\ ~lost
    BY Zenon, <1>1, <1>2, <1>3
  <2>2. i \in Nat /\ i < MaxSize /\ Stored(remote, i, synced[i + 1]) /\ Len(synced) \in Nat
    BY Zenon, <2>1, SyncedExpected, SyncedStored, ReachIs
  <2>3. blockIdx(i) \in Block
    BY Zenon, <2>2, InBlock
  <2>4. valid'[blockIdx(i)] = 0
    BY Zenon, <1>1, <2>3
  <2>5. Expected(content', op', i) = synced[i + 1]
    BY Zenon, <1>1, <2>1, <2>2, ExpectedBelow
  <2>6. Stored(remote', i, Expected(content', op', i))
    BY Zenon, <1>1, <2>2, <2>5
  <2> QED BY Zenon, <2>2, <2>4, <2>6, NoBuffer
<1>4. ~lost' => \A i \in 0..Len(synced') - 1 : Stored(remote', i, synced'[i + 1])
  BY Zenon, <1>1, SyncedStored
<1> QED BY Zenon, <1>3, <1>4, ShowBytes

(* Truncate keeps the bytes below the new size.                            *)
LEMMA CutKeeps ==
  ASSUME FileTypes, TruncateBlocks, NEW i \in Nat, i < MaxSize, op.off \in Nat, i < op.off, NEW b, Stored(remote, i, b)
  PROVE  Stored(remote', i, b)
<1> DEFINE k == blockIdx(i)  o == blockOff(i)
<1>1. BlocksOK /\ k \in Block /\ o \in 0..(BlockSize - 1) /\ k \in Nat
  BY Zenon, InBlock, Place DEF FileTypes
<1>2. o \in Nat /\ o + 1 \in Nat \ {0}
  BY <1>1, Sizes
<1>3. o < Len(remote[k]) /\ remote[k][o + 1] = b
  BY Zenon DEF Stored
<1>4. k < blockCount(op.off) /\ o < op.off - (k * BlockSize)
  BY Zenon, BelowCount
<1>5. remote'[k] = remote[k] \/ remote'[k] = Cut(k, op.off)
  BY Zenon, <1>1, CutIs
<1> HIDE DEF k, o
<1>6. o + 1 <= Len(remote[k]) /\ o + 1 <= op.off - k * BlockSize
  <2>1. Len(remote[k]) \in Nat
    BY <1>1 DEF BlocksOK
  <2> QED BY <1>1, <1>2, <1>3, <1>4, <2>1, Sizes
<1>7. o + 1 <= Len(Cut(k, op.off)) /\ Cut(k, op.off)[o + 1] = remote[k][o + 1] /\ Cut(k, op.off) \in Seq(Char)
  BY Zenon, <1>1, <1>2, <1>4, <1>6, CutBlock
<1>8. o < Len(Cut(k, op.off))
  BY <1>2, <1>7
<1> QED BY Zenon, <1>3, <1>5, <1>7, <1>8 DEF Stored, k, o

LEMMA TruncateBytes ==
  ASSUME FileTypes, BytesInv, TruncateBlocks
  PROVE  BytesInv'
<1>1. /\ Clean /\ op.kind = "truncate" /\ op' = [op EXCEPT !.kind = "resize"]
      /\ content' = SubSeq(content, 1, op.off) /\ UNCHANGED <<dirty, valid, synced, lost>>
  BY Zenon DEF TruncateBlocks
<1>2. op \in FileOp /\ op.off \in Len(synced)..Len(content) /\ content \in Seq(Byte)
  BY Zenon, <1>1 DEF FileTypes, OpInv, HistoryOK
<1>3. op.off \in 0..Len(content) /\ op.off \in Nat /\ Len(synced) <= op.off
  BY <1>2, ReachIs
<1>4. Len(content') = op.off /\ \A i \in 1..op.off : content'[i] = content[i]
  BY Zenon, <1>1, <1>2, <1>3, Prefix
<1>5. op'.kind = "resize"
  BY <1>1, <1>2 DEF FileOp
<1>6. Reach' = op.off
  <2>1. op'.kind \notin {"write", "flushBlock"}
    BY <1>5
  <2> QED BY Zenon, <1>4, <2>1 DEF Reach, Appends
<1>7. ASSUME ~lost', NEW i \in 0..Reach' - 1
      PROVE  Seen(remote', dirty', valid', i, Expected(content', op', i))
  <2>0. i \in 0..op.off - 1 /\ i \in 0..Len(content') - 1 /\ ~lost
    BY Zenon, <1>1, <1>4, <1>6, <1>7
  <2>1. i \in 0..Len(content) - 1 /\ i < op.off /\ i + 1 \in 1..op.off
    BY <1>3, <2>0, ReachIs
  <2>2. i \in Nat /\ i < MaxSize /\ Seen(remote, dirty, valid, i, content[i + 1])
    BY Zenon, <2>0, <2>1, ContentSeen
  <2>3. valid[blockIdx(i)] = 0
    BY Zenon, <1>1, <2>2, CleanIs
  <2>4. Stored(remote, i, content[i + 1])
    BY Zenon, <2>2, <2>3, NoBuffer
  <2>5. Stored(remote', i, content[i + 1])
    BY Zenon, <1>3, <2>1, <2>2, <2>4, CutKeeps
  <2>6. Expected(content', op', i) = content[i + 1]
    BY Zenon, <1>3, <1>4, <2>0, <2>1, ExpectedBelow
  <2>7. valid'[blockIdx(i)] = 0
    BY Zenon, <1>1, <2>3
  <2>8. Stored(remote', i, Expected(content', op', i))
    BY Zenon, <2>5, <2>6
  <2> QED BY Zenon, <2>2, <2>7, <2>8, NoBuffer
<1>8. ASSUME ~lost', NEW i \in 0..Len(synced') - 1
      PROVE  Stored(remote', i, synced'[i + 1])
  <2>1. i \in 0..Len(synced) - 1 /\ ~lost
    BY Zenon, <1>1, <1>8
  <2>2. i \in Nat /\ i < MaxSize /\ Stored(remote, i, synced[i + 1])
    BY Zenon, <2>1, SyncedExpected, SyncedStored
  <2>3. i < op.off
    BY <1>3, <2>1, ReachIs
  <2>4. Stored(remote', i, synced[i + 1])
    BY Zenon, <1>3, <2>2, <2>3, CutKeeps
  <2> QED BY Zenon, <1>1, <2>4
<1> QED BY Zenon, <1>7, <1>8, ShowBytes

LEMMA OtherBlock ==
  ASSUME NEW data, NEW buf, NEW n, NEW data2, NEW buf2, NEW n2, NEW i, NEW b,
         data2[blockIdx(i)] = data[blockIdx(i)], buf2[blockIdx(i)] = buf[blockIdx(i)], n2[blockIdx(i)] = n[blockIdx(i)]
  PROVE  /\ Seen(data, buf, n, i, b) => Seen(data2, buf2, n2, i, b)
         /\ Stored(data, i, b) => Stored(data2, i, b)
BY Zenon DEF Seen, Stored

(* Where a write stands, and what the bytes of its piece are.              *)
LEMMA WritingIs ==
  ASSUME FileTypes, Writing
  PROVE  /\ absOff \in Nat /\ absOff = op.off + op.pos /\ op.off = Len(content) /\ op.pos \in Nat /\ Len(content) \in Nat
         /\ writeN \in Nat \ {0} /\ writeN <= BlockSize - blockOff(absOff)
         /\ op.pos + writeN <= Len(op.data) /\ absOff + writeN <= MaxSize /\ op.data \in Seq(Byte)
         /\ blockIdx(absOff) \in Block /\ blockOff(absOff) \in Nat /\ blockOff(absOff) < BlockSize
         /\ Reach = absOff /\ op \in FileOp /\ op.kind = "write" /\ Appends
         /\ piece \in Seq(Char) /\ Len(piece) = writeN
         /\ \A j \in 1..writeN : piece[j] = op.data[op.pos + j]
<1>0. SizesOK /\ HistoryOK /\ OpInv
  BY Zenon DEF FileTypes
<1>1. op.kind = "write" /\ op.pos < Len(op.data)
  BY Zenon DEF Writing
<1>2. Appends /\ ~(op.kind = "flushBlock")
  BY <1>1 DEF Appends
<1>3. op \in FileOp /\ op.off = Len(content)
  BY Zenon, <1>0, <1>2 DEF OpInv
<1>4. /\ absOff \in Nat /\ absOff = Len(content) + op.pos /\ op.pos \in Nat
      /\ writeN \in 1..BlockSize - blockOff(absOff)
      /\ op.pos + writeN <= Len(op.data) /\ absOff + writeN <= MaxSize
      /\ blockIdx(absOff) \in Block
      /\ op.data \in Seq(Byte)
  BY Zenon, <1>0, <1>1, <1>2, PieceIs
<1>5. blockOff(absOff) \in 0..(BlockSize - 1) /\ BlockSize \in Nat \ {0}
  BY Zenon, <1>4, Place, Sizes
<1>6. /\ writeN \in Nat \ {0} /\ writeN <= BlockSize - blockOff(absOff)
      /\ blockOff(absOff) \in Nat /\ blockOff(absOff) < BlockSize
  BY <1>4, <1>5
<1>7. writeN \in Nat
  BY <1>6
<1>8. /\ piece \in Seq(Char) /\ Len(piece) = writeN
      /\ \A j \in 1..writeN : piece[j] = op.data[op.pos + j]
  BY Zenon, <1>4, <1>7, PieceBytes
<1>9. Reach = absOff + 0
  BY Zenon, <1>2 DEF Reach
<1>10. Reach = absOff
  BY <1>4, <1>9
<1>11. Len(content) \in Nat
  BY Zenon, ReachIs
<1> QED BY Zenon, <1>1, <1>2, <1>3, <1>4, <1>6, <1>8, <1>10, <1>11

LEMMA PieceArith ==
  ASSUME NEW i \in Nat, NEW a \in Nat, NEW w \in Nat, a <= i, i < a + w
  PROVE  i - a \in Nat /\ i - a < w /\ i = a + (i - a) /\ (i - a) + 1 \in 1..w
OBVIOUS

LEMMA PieceFits ==
  ASSUME NEW j \in Nat, NEW w \in Nat, NEW r \in Nat, NEW n \in Nat, w <= n - r, j < w
  PROVE  j < n - r
OBVIOUS

LEMMA PiecePlace ==
  ASSUME NEW i \in Nat, NEW c \in Nat, NEW p \in Nat, NEW j \in Nat, i = (c + p) + j
  PROVE  p + (j + 1) = i - c + 1 /\ ~(i < c)
OBVIOUS

LEMMA PieceByte ==
  ASSUME FileTypes, Writing, NEW i \in Nat, absOff <= i, i < absOff + writeN
  PROVE  /\ blockIdx(i) = blockIdx(absOff) /\ blockOff(i) = blockOff(absOff) + (i - absOff)
         /\ i - absOff \in Nat /\ i - absOff < writeN
         /\ piece[i - absOff + 1] = Expected(content, op, i)
<1>1. /\ absOff \in Nat /\ absOff = op.off + op.pos /\ op.off = Len(content) /\ op.pos \in Nat /\ Len(content) \in Nat
      /\ writeN \in Nat \ {0} /\ writeN <= BlockSize - blockOff(absOff) /\ blockOff(absOff) \in Nat
      /\ BlockSize \in Nat
  BY Zenon, WritingIs, Sizes
<1>2. \A j \in 1..writeN : piece[j] = op.data[op.pos + j]
  BY Zenon, WritingIs
<1> DEFINE j == i - absOff
<1>3. /\ j \in Nat /\ j < BlockSize - blockOff(absOff) /\ j < writeN /\ i = absOff + j /\ j + 1 \in 1..writeN
        /\ op.pos + (j + 1) = i - Len(content) + 1 /\ ~(i < Len(content))
  <2>1. writeN \in Nat
    BY <1>1
  <2>2. absOff = Len(content) + op.pos
    BY Zenon, <1>1
  <2>3. j \in Nat /\ j < writeN /\ i = absOff + j /\ j + 1 \in 1..writeN
    BY Zenon, <1>1, <2>1, PieceArith
  <2> HIDE DEF j
  <2>4. j < BlockSize - blockOff(absOff)
    BY Zenon, <1>1, <2>1, <2>3, PieceFits
  <2>5. op.pos + (j + 1) = i - Len(content) + 1 /\ ~(i < Len(content))
    <3>1. i = (Len(content) + op.pos) + j
      BY Zenon, <2>2, <2>3
    <3>2. Len(content) \in Nat /\ op.pos \in Nat /\ j \in Nat
      BY Zenon, <1>1, <2>3
    <3> QED BY <3>1, <3>2, PiecePlace
  <2> QED BY Zenon, <2>3, <2>4, <2>5
<1>4. op.pos + (j + 1) = i - op.off + 1 /\ ~(i < Len(content))
  BY Zenon, <1>1, <1>3
<1> HIDE DEF j
<1>5. blockIdx(absOff + j) = blockIdx(absOff) /\ blockOff(absOff + j) = blockOff(absOff) + j
  BY Zenon, <1>1, <1>3, SameBlock
<1>6. piece[j + 1] = Expected(content, op, i)
  BY Zenon, <1>2, <1>3, <1>4 DEF Expected
<1>7. j = i - absOff
  BY DEF j
<1> QED BY Zenon, <1>3, <1>5, <1>6, <1>7

LEMMA ExpectedNext ==
  ASSUME op'.data = op.data, op'.off = op.off, UNCHANGED content
  PROVE  \A i : Expected(content', op', i) = Expected(content, op, i)
<1>1. \A i : Expected(content, op', i) = Expected(content, op, i)
  BY Zenon, ExpectedSame
<1> QED BY Zenon, <1>1

(* The data moves up to the end of the piece.                              *)
LEMMA ReachAdvances ==
  ASSUME FileTypes, Writing, UNCHANGED content,
         op' = [op EXCEPT !.pos = @ + writeN] \/ op' = [op EXCEPT !.kind = "flushBlock"]
  PROVE  /\ Reach' = absOff + writeN
         /\ \A i : Expected(content', op', i) = Expected(content, op, i)
<1>0. /\ op \in FileOp /\ op.kind = "write" /\ absOff \in Nat /\ absOff = op.off + op.pos /\ writeN \in Nat \ {0}
      /\ op.pos \in Nat /\ op.off = Len(content) /\ Len(content) \in Nat
  BY Zenon, WritingIs
<1>1. op'.data = op.data /\ op'.off = op.off
  BY <1>0 DEF FileOp
<1>2. \A i : Expected(content', op', i) = Expected(content, op, i)
  BY Zenon, <1>1, ExpectedNext
<1>3. CASE op' = [op EXCEPT !.pos = @ + writeN]
  <2>1. op'.kind = "write" /\ op'.pos = op.pos + writeN
    BY <1>0, <1>3 DEF FileOp
  <2>2. Appends' /\ ~(op'.kind = "flushBlock")
    BY <2>1 DEF Appends
  <2>3. Reach' = (op.off + (op.pos + writeN)) + 0
    BY Zenon, <1>1, <2>1, <2>2 DEF Reach, absOff
  <2>4. Reach' = absOff + writeN
    BY <1>0, <2>3
  <2> QED BY Zenon, <1>2, <2>4
<1>4. CASE op' = [op EXCEPT !.kind = "flushBlock"]
  <2>1. op'.kind = "flushBlock" /\ op'.pos = op.pos
    BY <1>0, <1>4 DEF FileOp
  <2>2. Appends'
    BY <2>1 DEF Appends
  <2>3. absOff' = absOff /\ writeN' = writeN
    BY Zenon, <1>1, <2>1 DEF absOff, writeN
  <2>4. Reach' = absOff + writeN
    BY Zenon, <2>1, <2>2, <2>3 DEF Reach
  <2> QED BY Zenon, <1>2, <2>4
<1> QED BY Zenon, <1>3, <1>4

LEMMA WriteFastBytes ==
  ASSUME FileTypes, BytesInv, WriteFast
  PROVE  BytesInv'
<1> DEFINE k == blockIdx(absOff)
<1>1. /\ Writing /\ FullBlock /\ DropBuffer(k) /\ UNCHANGED <<content, synced, lost>>
      /\ \/ Put(k, piece) /\ Advance
         \/ (Put(k, piece) \/ UNCHANGED remote) /\ Ends
  BY Zenon DEF WriteFast, PutFails, history
<1>2. /\ absOff \in Nat /\ writeN \in Nat \ {0} /\ k \in Block /\ Reach = absOff /\ piece \in Seq(Char)
      /\ Len(piece) = writeN /\ Len(content) \in Nat
  BY Zenon, <1>1, WritingIs
<1>3. blockOff(absOff) = 0 /\ writeN = BlockSize
  BY Zenon, <1>1 DEF FullBlock
<1>4. remote \in [Block -> Seq(Char)] /\ dirty \in [Block -> Seq(Char)] /\ valid \in [Block -> Nat]
  BY Zenon DEF FileTypes, BlocksOK, BuffersOK
<1> HIDE DEF k
<1>5. \A j \in Block : j # k => remote'[j] = remote[j] /\ dirty'[j] = dirty[j] /\ valid'[j] = valid[j]
  BY Zenon, <1>1, <1>4 DEF Put, DropBuffer
<1>6. \A i \in Nat : i < absOff => blockIdx(i) # k
  <2> SUFFICES ASSUME NEW i \in Nat, i < absOff, blockIdx(i) = k PROVE FALSE
    BY Zenon
  <2>1. blockOff(i) < blockOff(absOff) /\ blockOff(i) \in 0..(BlockSize - 1)
    BY Zenon, <1>2, PlaceOrder, Place DEF k
  <2> QED BY <1>3, <2>1, Sizes
<1>7. \A i \in Nat : \A b : i < absOff /\ i < MaxSize =>
         /\ Seen(remote, dirty, valid, i, b) => Seen(remote', dirty', valid', i, b)
         /\ Stored(remote, i, b) => Stored(remote', i, b)
  <2> SUFFICES ASSUME NEW i \in Nat, NEW b, i < absOff, i < MaxSize
               PROVE  /\ Seen(remote, dirty, valid, i, b) => Seen(remote', dirty', valid', i, b)
                      /\ Stored(remote, i, b) => Stored(remote', i, b)
    BY Zenon
  <2>1. blockIdx(i) \in Block /\ blockIdx(i) # k
    BY Zenon, <1>6, InBlock
  <2> QED BY Zenon, <1>5, <2>1, OtherBlock
<1>8. ~lost' => \A i \in 0..Len(synced') - 1 : Stored(remote', i, synced'[i + 1])
  <2> SUFFICES ASSUME ~lost', NEW i \in 0..Len(synced') - 1
               PROVE  Stored(remote', i, synced'[i + 1])
    BY Zenon
  <2>1. i \in 0..Len(synced) - 1 /\ ~lost /\ synced' = synced
    BY Zenon, <1>1
  <2>2. i \in Nat /\ i < MaxSize /\ Stored(remote, i, synced[i + 1])
    BY Zenon, <2>1, SyncedExpected, SyncedStored
  <2>3. i < absOff
    BY <1>2, <2>1, ReachIs
  <2> QED BY Zenon, <1>7, <2>1, <2>2, <2>3
<1>9. \A i \in 0..absOff - 1 : i \in Nat /\ i < absOff /\ i < MaxSize
  BY <1>2, ReachIs
<1>10. CASE Put(k, piece) /\ Advance
  <2>1. /\ Reach' = absOff + writeN
        /\ \A i : Expected(content', op', i) = Expected(content, op, i)
    <3>1. op' = [op EXCEPT !.pos = @ + writeN] /\ content' = content
      BY Zenon, <1>1, <1>10 DEF Advance
    <3> QED BY Zenon, <1>1, <3>1, ReachAdvances
  <2>2. ASSUME ~lost', NEW i \in 0..Reach' - 1
        PROVE  Seen(remote', dirty', valid', i, Expected(content', op', i))
    <3>0. i \in Nat /\ i < absOff + writeN
      <4>1. i \in 0..(absOff + writeN) - 1
        BY Zenon, <2>1
      <4> QED BY <1>2, <4>1
    <3>1. CASE i < absOff
      <4>1. i \in 0..absOff - 1 /\ ~lost
        <5>1. i \in 0..absOff - 1
          BY <1>2, <3>0, <3>1
        <5> QED BY Zenon, <1>1, <2>2, <5>1
      <4>2. Seen(remote, dirty, valid, i, Expected(content, op, i))
        BY Zenon, <1>2, <4>1 DEF BytesInv, SeenInv
      <4> QED BY Zenon, <1>7, <1>9, <2>1, <4>1, <4>2
    <3>2. CASE absOff <= i
      <4> DEFINE j == i - absOff
      <4>1. /\ blockIdx(i) = k /\ blockOff(i) = blockOff(absOff) + j /\ j \in Nat /\ j < writeN
            /\ piece[j + 1] = Expected(content, op, i)
        BY Zenon, <1>1, <3>0, <3>2, PieceByte DEF k
      <4> HIDE DEF j
      <4>2. blockOff(i) = j
        BY <1>3, <4>1
      <4>3. remote'[k] = piece /\ valid'[k] = 0
        BY Zenon, <1>1, <1>2, <1>4, <1>10 DEF Put, DropBuffer
      <4>4. Stored(remote', i, Expected(content', op', i))
        BY Zenon, <1>2, <2>1, <4>1, <4>2, <4>3 DEF Stored
      <4>5. ~(0 > 0)
        OBVIOUS
      <4> QED BY Zenon, <4>1, <4>3, <4>4, <4>5 DEF Seen
    <3> QED BY <1>2, <3>0, <3>1, <3>2
  <2> QED BY Zenon, <1>8, <2>2, ShowBytes
<1>11. CASE Ends
  <2>1. Reach' = Len(content) /\ content' = content
    BY Zenon, <1>1, <1>11, IdleReach DEF Ends
  <2>2. ASSUME ~lost', NEW i \in 0..Reach' - 1
        PROVE  Seen(remote', dirty', valid', i, Expected(content', op', i))
    <3>1. i \in 0..Len(content) - 1 /\ ~lost
      BY Zenon, <1>1, <2>1, <2>2
    <3>2. i \in Nat /\ i < MaxSize /\ i < Len(content) /\ Seen(remote, dirty, valid, i, content[i + 1])
      BY Zenon, <3>1, ContentSeen
    <3>3. i < absOff
      BY <1>2, <3>2, ReachIs
    <3>4. Expected(content', op', i) = content[i + 1]
      BY Zenon, <2>1, <3>2 DEF Expected
    <3> QED BY Zenon, <1>7, <3>2, <3>3, <3>4
  <2> QED BY Zenon, <1>8, <2>2, ShowBytes
<1> QED BY Zenon, <1>1, <1>10, <1>11

(* A write that starts inside a block whose bytes are only stored reads it. *)
LEMMA ReadNeeded ==
  ASSUME FileTypes, SizeInv, ~lost, Writing, blockOff(absOff) > 0
  PROVE  needRead
<1>1. /\ absOff \in Nat /\ op.pos \in Nat /\ absOff = op.off + op.pos /\ op.off = Len(content) /\ Len(content) \in Nat
      /\ Appends /\ op \in FileOp /\ blockOff(absOff) \in Nat
  BY Zenon, WritingIs
<1>2. ~(blockOff(absOff) = 0)
  BY <1>1
<1>3. op.pos = 0 \/ op.pos = Len(op.data) \/ blockOff(absOff) = 0
  BY Zenon, <1>1 DEF FileTypes, OpInv
<1>4. op.pos < Len(op.data) /\ op.data \in Seq(Byte)
  BY Zenon, WritingIs DEF Writing
<1>5. op.pos = 0
  BY <1>1, <1>2, <1>3, <1>4
<1>6. absOff <= op.old /\ op.old \in Nat
  <2>1. Len(content) <= op.old /\ op.old \in Nat
    BY Zenon, <1>1 DEF SizeInv, FileOp
  <2> QED BY <1>1, <1>5, <2>1
<1>7. absOff = (blockIdx(absOff) * BlockSize) + blockOff(absOff) /\ blockIdx(absOff) * BlockSize \in Nat
  <2>1. absOff = (blockIdx(absOff) * BlockSize) + blockOff(absOff) /\ blockIdx(absOff) \in Nat
    BY Zenon, <1>1, Place
  <2> QED BY <2>1, Sizes
<1>8. op.old > blockIdx(absOff) * BlockSize
  BY <1>1, <1>6, <1>7
<1> QED BY Zenon, <1>8 DEF needRead

LEMMA WriteBufferBytes ==
  ASSUME FileTypes, SizeInv, BytesInv, WriteBuffer
  PROVE  BytesInv'
<1> SUFFICES ASSUME ~lost' PROVE BytesInv'
  BY Zenon DEF BytesInv
<1> DEFINE k == blockIdx(absOff)  o == blockOff(absOff)
<1>0. BlocksOK /\ BuffersOK /\ CountsOK /\ Writing
  BY Zenon DEF FileTypes, WriteBuffer
<1>1. /\ absOff \in Nat /\ writeN \in Nat \ {0} /\ k \in Block /\ o \in Nat /\ Reach = absOff
      /\ piece \in Seq(Char) /\ Len(piece) = writeN
  BY Zenon, <1>0, WritingIs
<1>2. /\ UNCHANGED <<remote, content, synced>>
      /\ valid' = [valid EXCEPT ![k] = Larger(@, o + writeN)]
      /\ op' = [op EXCEPT !.pos = @ + writeN] \/ op' = [op EXCEPT !.kind = "flushBlock"]
  BY Zenon DEF WriteBuffer, Advance
<1>3. PICK buf \in Seq(Char) :
        /\ Len(buf) <= BlockSize /\ valid[k] <= Len(buf)
        /\ dirty' = [dirty EXCEPT ![k] = Overlay(buf, o, piece)]
        /\ dirty[k] # <<>> => buf = dirty[k]
        /\ ~lost' /\ dirty[k] = <<>> /\ needRead =>
             /\ Len(remote[k]) <= Len(buf)
             /\ \A j \in 1..Len(remote[k]) : buf[j] = remote[k][j]
  BY Zenon, <1>0, <1>1, BufferIs
<1>4. ~lost
  BY Zenon, <1>0, <1>1, BufferIs
<1>5. dirty \in [Block -> Seq(Char)] /\ valid \in [Block -> Nat] /\ remote \in [Block -> Seq(Char)]
  BY Zenon, <1>0 DEF BlocksOK, BuffersOK
<1>6. /\ Reach' = absOff + writeN
      /\ \A i : Expected(content', op', i) = Expected(content, op, i)
  BY Zenon, <1>0, <1>2, ReachAdvances
<1>7. valid[k] \in Nat /\ (valid[k] > 0 <=> dirty[k] # <<>>)
  BY Zenon, <1>0, <1>1 DEF BuffersOK
<1> DEFINE new == Overlay(buf, o, piece)
<1>8. dirty'[k] = new /\ valid'[k] = Larger(valid[k], o + writeN)
  BY Zenon, <1>1, <1>2, <1>3, <1>5
<1>9. \A j \in Block : j # k => remote'[j] = remote[j] /\ dirty'[j] = dirty[j] /\ valid'[j] = valid[j]
  BY Zenon, <1>2, <1>3, <1>5
<1>10. \A j \in 1..Larger(Len(buf), o + writeN) :
          new[j] = IF j \in o + 1..o + writeN THEN piece[j - o] ELSE IF j <= Len(buf) THEN buf[j] ELSE Zero
  <2> HIDE DEF o
  <2>1. \A j \in 1..Larger(Len(buf), o + Len(piece)) :
          Overlay(buf, o, piece)[j] =
            IF j \in o + 1..o + Len(piece) THEN piece[j - o] ELSE IF j <= Len(buf) THEN buf[j] ELSE Zero
    BY Zenon, <1>1, OverlayIs
  <2>2. Len(piece) = writeN
    BY Zenon, <1>1
  <2> QED BY Zenon, <2>1, <2>2
<1> HIDE DEF k, o, new
<1>11. /\ valid'[k] \in Nat /\ valid'[k] >= o + writeN /\ valid'[k] >= valid[k] /\ valid'[k] > 0
       /\ Larger(Len(buf), o + writeN) \in Nat
       /\ Larger(Len(buf), o + writeN) >= Len(buf) /\ Larger(Len(buf), o + writeN) >= o + writeN
  BY <1>1, <1>7, <1>8 DEF Larger
<1>12. ASSUME NEW i \in 0..Reach' - 1
       PROVE  Seen(remote', dirty', valid', i, Expected(content', op', i))
  <2> DEFINE p == blockOff(i)
  <2>0. i \in Nat /\ i < absOff + writeN
    <3>1. i \in 0..(absOff + writeN) - 1
      BY Zenon, <1>6
    <3> QED BY <1>1, <3>1
  <2>1. i < MaxSize /\ p \in Nat
    <3>1. absOff + writeN <= MaxSize
      BY Zenon, <1>0, WritingIs
    <3>2. p \in 0..(BlockSize - 1)
      BY Zenon, <2>0, Place
    <3> QED BY <1>1, <2>0, <3>1, <3>2, Sizes
  <2>2. blockIdx(i) \in Block
    BY Zenon, <2>0, <2>1, InBlock
  <2> HIDE DEF p
  <2>3. CASE absOff <= i
    <3> DEFINE j == i - absOff
    <3>1. /\ blockIdx(i) = k /\ p = o + j /\ j \in Nat /\ j < writeN
          /\ piece[j + 1] = Expected(content, op, i)
      BY Zenon, <1>0, <2>0, <2>3, PieceByte DEF k, o, p
    <3> HIDE DEF j
    <3>2. /\ p + 1 \in 1..Larger(Len(buf), o + writeN) /\ p + 1 \in o + 1..o + writeN /\ (p + 1) - o = j + 1
          /\ p < valid'[k]
      BY <1>1, <1>11, <3>1
    <3>3. new[p + 1] = Expected(content, op, i)
      BY Zenon, <1>10, <3>1, <3>2
    <3> QED BY Zenon, <1>6, <1>8, <1>11, <3>1, <3>2, <3>3 DEF Seen, p
  <2>4. ASSUME i < absOff
        PROVE  Seen(remote', dirty', valid', i, Expected(content', op', i))
    <3>1. i \in 0..Reach - 1
      BY <1>1, <2>0, <2>4
    <3>2. Seen(remote, dirty, valid, i, Expected(content, op, i))
      BY Zenon, <1>4, <3>1 DEF BytesInv, SeenInv
    <3>3. CASE blockIdx(i) # k
      BY Zenon, <1>6, <1>9, <2>2, <3>2, <3>3, OtherBlock
    <3>4. ASSUME blockIdx(i) = k
          PROVE  Seen(remote', dirty', valid', i, Expected(content', op', i))
      <4>1. p < o
        BY Zenon, <1>1, <2>0, <2>4, <3>4, PlaceOrder DEF p, o, k
      <4>2. p + 1 <= Len(buf) /\ buf[p + 1] = Expected(content, op, i)
        <5>1. CASE valid[k] > 0
          <6>1. p < valid[k] /\ dirty[k][p + 1] = Expected(content, op, i) /\ buf = dirty[k]
            BY Zenon, <1>3, <1>7, <3>2, <3>4, <5>1 DEF Seen, p
          <6>2. valid[k] <= Len(buf) /\ Len(buf) \in Nat
            BY <1>3
          <6>3. p + 1 <= Len(buf)
            BY <1>7, <2>1, <6>1, <6>2
          <6> QED BY Zenon, <6>1, <6>3
        <5>2. CASE ~(valid[k] > 0)
          <6>1. p < Len(remote[k]) /\ remote[k][p + 1] = Expected(content, op, i)
            BY Zenon, <3>2, <3>4, <5>2 DEF Seen, Stored, p
          <6>2. blockOff(absOff) > 0
            BY <1>1, <2>1, <4>1 DEF o
          <6>3. needRead
            BY Zenon, <1>0, <1>4, <6>2, ReadNeeded
          <6>4. Len(remote[k]) <= Len(buf) /\ \A j \in 1..Len(remote[k]) : buf[j] = remote[k][j]
            BY Zenon, <1>3, <1>7, <5>2, <6>3
          <6>5. Len(remote[k]) \in Nat /\ Len(buf) \in Nat
            BY <1>1, <1>5
          <6>6. p + 1 \in 1..Len(remote[k]) /\ p + 1 <= Len(buf)
            BY <2>1, <6>1, <6>4, <6>5
          <6> QED BY Zenon, <6>1, <6>4, <6>6
        <5> QED BY Zenon, <5>1, <5>2
      <4>3. Len(buf) \in Nat
        OBVIOUS
      <4>4. p + 1 \in 1..Larger(Len(buf), o + writeN) /\ p + 1 \notin o + 1..o + writeN /\ p < valid'[k]
        BY <1>1, <1>11, <2>1, <4>1, <4>2, <4>3
      <4>5. new[p + 1] = Expected(content, op, i)
        BY Zenon, <1>10, <4>2, <4>4
      <4> QED BY Zenon, <1>6, <1>8, <1>11, <3>4, <4>4, <4>5 DEF Seen, p
    <3> QED BY Zenon, <3>3, <3>4
  <2> QED BY <1>1, <2>0, <2>3, <2>4
<1>13. \A i \in 0..Len(synced') - 1 : Stored(remote', i, synced'[i + 1])
  BY Zenon, <1>2, <1>4, SyncedStored
<1> QED BY Zenon, <1>12, <1>13, ShowBytes

LEMMA BytesStep ==
  ASSUME FileTypes, SizeInv, BytesInv, [Next]_vars
  PROVE  BytesInv'
<1>1. CASE UNCHANGED vars
  BY Zenon, <1>1, QuietBytes
<1>2. CASE Next
  BY Zenon, <1>2, QuietBytes, FlushActionBytes, WriteFastBytes, WriteBufferBytes, WriteReturnsBytes, SetattrBytes,
     FsyncBytes, TruncateBytes, CrashBytes DEF Next
<1> QED BY Zenon, <1>1, <1>2

LEMMA FileInit == Init => FileInv
<1> SUFFICES ASSUME Init PROVE FileInv
  BY Zenon
<1>1. /\ content = <<>> /\ synced = <<>> /\ op = Idle /\ size = 0 /\ dirtyAttr = NoAttr /\ late = NoAttr
  BY Zenon DEF Init
<1>2. Len(content) = 0 /\ Len(synced) = 0 /\ op.kind \notin {"write", "flushBlock"} /\ 0 <= 0
  BY <1>1, IdleIs
<1>3. ~Appends
  BY Zenon, <1>2 DEF Appends
<1>4. SizeInv
  BY Zenon, <1>1, <1>2, <1>3 DEF SizeInv, Published
<1>5. Reach = 0
  BY Zenon, <1>2, <1>3 DEF Reach
<1>6. 0..(0 - 1) = {}
  OBVIOUS
<1>7. BytesInv
  BY Zenon, <1>2, <1>5, <1>6 DEF BytesInv, SeenInv, SyncedInv
<1> QED BY Zenon, <1>4, <1>7, InitTypes DEF FileInv

LEMMA FileInvStep == FileInv /\ [Next]_vars => FileInv'
BY Zenon, FileStep, SizeStep, BytesStep DEF FileInv

LEMMA FileInvariant == Spec => []FileInv
BY FileInit, FileInvStep, PTL DEF Spec

---------------------------------------------------------------------------
(* What a read returns.                                                    *)

(* A read stops at the first byte that is missing; so it covers bytes that *)
(* are all there.                                                          *)
LEMMA ReadStops ==
  ASSUME NEW data, NEW s \in Nat
  PROVE  LET has(i) == blockOff(i) < Len(data[blockIdx(i)])
         IN  \E m \in 0..s : (\A i \in 0..m - 1 : has(i)) /\ (m = s \/ ~has(m))
<1> DEFINE has(i) == blockOff(i) < Len(data[blockIdx(i)])
           S == {m \in 0..s : m = s \/ ~has(m)}
<1>1. S \subseteq Nat /\ S # {}
  <2>1. s \in S
    OBVIOUS
  <2> QED BY <2>1
<1>2. PICK m \in S : \A n \in S : m <= n
  BY Zenon, <1>1, Least
<1>3. ASSUME NEW i \in 0..m - 1
      PROVE  has(i)
  <2>1. m \in 0..s /\ i \in 0..s /\ ~(m <= i) /\ i # s
    BY <1>2
  <2> QED BY Zenon, <1>2, <2>1
<1>4. m \in 0..s /\ (m = s \/ ~has(m))
  BY Zenon, <1>2
<1> QED BY Zenon, <1>3, <1>4

LEMMA ReadCovers ==
  ASSUME NEW data, NEW s \in Nat, NEW t \in Seq(Byte), Len(t) <= s,
         \A i \in 0..Len(t) - 1 : Stored(data, i, t[i + 1])
  PROVE  Covers(ReadFrom(data, s), t)
<1> DEFINE has(i) == blockOff(i) < Len(data[blockIdx(i)])
           Stop(m) == (\A i \in 0..m - 1 : has(i)) /\ (m = s \/ ~has(m))
           n == CHOOSE m \in 0..s : Stop(m)
           r == [i \in 1..n |-> data[blockIdx(i - 1)][blockOff(i - 1) + 1]]
<1>1. ReadFrom(data, s) = r
  BY Zenon DEF ReadFrom
<1>2. n \in 0..s /\ Stop(n)
  BY Zenon, ReadStops
<1> HIDE DEF n
<1>3. Len(t) \in Nat /\ n \in Nat
  BY <1>2
<1>4. Len(t) <= n
  <2> SUFFICES ASSUME ~(Len(t) <= n) PROVE FALSE
    BY Zenon
  <2>1. n \in 0..Len(t) - 1 /\ n # s
    BY <1>2, <1>3
  <2>2. has(n)
    BY Zenon, <2>1 DEF Stored
  <2> QED BY Zenon, <1>2, <2>1, <2>2
<1>5. ASSUME NEW i \in 1..Len(t)
      PROVE  r[i] = t[i]
  <2>1. i - 1 \in 0..Len(t) - 1 /\ (i - 1) + 1 = i /\ i \in 1..n
    BY <1>3, <1>4
  <2>2. data[blockIdx(i - 1)][blockOff(i - 1) + 1] = t[(i - 1) + 1]
    BY Zenon, <2>1 DEF Stored
  <2> QED BY Zenon, <2>1, <2>2
<1> DEFINE V == {r[i] : i \in 1..n}
<1>6. r \in Seq(V) /\ Len(r) = n
  <2>1. r \in [1..n -> V] /\ DOMAIN r = 1..n
    BY Zenon
  <2> HIDE DEF r, V
  <2> QED BY <1>3, <2>1
<1> HIDE DEF r, V
<1>7. Len(r) >= Len(t) /\ SubSeq(r, 1, Len(t)) = t
  <2>1. Len(t) \in 0..Len(r)
    BY <1>3, <1>4, <1>6
  <2>2. /\ SubSeq(r, 1, Len(t)) \in Seq(V) /\ Len(SubSeq(r, 1, Len(t))) = Len(t)
        /\ \A i \in 1..Len(t) : SubSeq(r, 1, Len(t))[i] = r[i]
    BY Zenon, <1>6, <2>1, Prefix
  <2>3. SubSeq(r, 1, Len(t)) = t
    <3> DEFINE q == SubSeq(r, 1, Len(t))
    <3>1. \A i \in 1..Len(t) : q[i] = t[i]
      BY Zenon, <1>5, <2>2
    <3>2. q \in Seq(V) /\ Len(q) = Len(t)
      BY Zenon, <2>2
    <3> HIDE DEF q
    <3>3. q = t
      BY <3>1, <3>2
    <3> QED BY Zenon, <3>3 DEF q
  <2> QED BY <1>3, <1>4, <1>6, <2>3
<1> QED BY Zenon, <1>1, <1>7 DEF Covers

(* The blocks, the buffers, the sizes and the call in progress are what    *)
(* the types say (type invariant of fusefs/fs.go and block_writer.go).     *)
THEOREM FileTypeCorrect == Spec => []TypeOK
<1>1. FileInv => TypeOK
  BY Zenon, TypesImply DEF FileInv
<1> QED BY <1>1, FileInvariant, PTL

(* Whatever writes, flushes, truncations, late Releases, failed calls and  *)
(* deaths of the mount come after it, what Fsync (fs.go) has reported      *)
(* durable is what ChunkStore.Read (storage/chunk.go) returns to any mount.*)
THEOREM SyncedStaysReadable == Spec => []SyncedReadable
<1>1. FileInv => SyncedReadable
  <2> SUFFICES ASSUME FileInv, ~lost PROVE Covers(ReadFrom(remote, size), synced)
    BY Zenon DEF SyncedReadable
  <2>1. FileTypes /\ SizeInv /\ BytesInv
    BY Zenon DEF FileInv
  <2>2. size \in Nat /\ synced \in Seq(Byte)
    <3>1. size \in 0..MaxSize /\ synced \in Seq(Byte)
      BY Zenon, <2>1 DEF FileTypes, SizesOK, HistoryOK
    <3> QED BY <3>1, Sizes
  <2>3. Len(synced) <= size
    BY Zenon, <2>1 DEF SizeInv
  <2>4. \A i \in 0..Len(synced) - 1 : Stored(remote, i, synced[i + 1])
    BY Zenon, <2>1, SyncedStored
  <2> QED BY Zenon, <2>2, <2>3, <2>4, ReadCovers
<1> QED BY <1>1, FileInvariant, PTL

(* What the mount sees is what readBuffered lays before its reads.         *)
LEMMA BufferedStored ==
  ASSUME FileTypes, NEW i \in Nat, i < MaxSize, NEW b, Seen(remote, dirty, valid, i, b)
  PROVE  Stored(readBuffered, i, b)
<1> DEFINE k == blockIdx(i)  o == blockOff(i)
<1>1. k \in Block /\ o \in 0..(BlockSize - 1)
  BY Zenon, InBlock, Place
<1>2. readBuffered[k] = IF valid[k] > 0 THEN SubSeq(dirty[k], 1, valid[k]) ELSE remote[k]
  BY Zenon, <1>1 DEF readBuffered
<1>3. CASE ~(valid[k] > 0)
  BY Zenon, <1>2, <1>3 DEF Seen, Stored
<1>4. CASE valid[k] > 0
  <2>1. o < valid[k] /\ dirty[k][o + 1] = b
    BY Zenon, <1>4 DEF Seen
  <2> DEFINE d == SubSeq(dirty[k], 1, valid[k])
  <2>2. Len(d) = valid[k] /\ \A x \in 1..valid[k] : d[x] = dirty[k][x]
    BY Zenon, <1>1, FlushedIs DEF FileTypes
  <2>3. valid[k] \in Nat
    BY Zenon, <1>1 DEF FileTypes, BuffersOK
  <2>4. o + 1 \in 1..valid[k]
    <3> HIDE DEF k, o
    <3> QED BY <1>1, <2>1, <2>3, Sizes
  <2>5. readBuffered[k] = d /\ o < Len(d) /\ d[o + 1] = b
    BY Zenon, <1>2, <1>4, <2>1, <2>2, <2>4
  <2> HIDE DEF d
  <2> QED BY Zenon, <2>5 DEF Stored
<1> QED BY Zenon, <1>3, <1>4

(* A mount reads its own writes at every step of every call: no buffer of  *)
(* block_writer.go hides a stored byte that was not read into it, and no   *)
(* flush drops a buffer before its bytes are stored.                       *)
THEOREM OwnWritesStayReadable == Spec => []OwnWritesReadable
<1>1. FileInv => OwnWritesReadable
  <2> DEFINE n == Smaller(size, Len(content))  t == SubSeq(content, 1, n)
  <2> SUFFICES ASSUME FileInv, ~lost PROVE Covers(ReadFrom(readBuffered, size), t)
    BY Zenon DEF OwnWritesReadable
  <2>1. FileTypes /\ SizeInv /\ BytesInv
    BY Zenon DEF FileInv
  <2>2. size \in Nat /\ content \in Seq(Byte)
    <3>1. size \in 0..MaxSize /\ content \in Seq(Byte)
      BY Zenon, <2>1 DEF FileTypes, SizesOK, HistoryOK
    <3> QED BY <3>1, Sizes
  <2>3. n \in 0..Len(content) /\ n <= size /\ Len(content) \in Nat
    BY <2>2 DEF Smaller
  <2> HIDE DEF n
  <2>4. t \in Seq(Byte) /\ Len(t) = n /\ \A i \in 1..n : t[i] = content[i]
    BY Zenon, <2>2, <2>3, Prefix
  <2>5. ASSUME NEW i \in 0..n - 1
        PROVE  Stored(readBuffered, i, t[i + 1])
    <3>1. i \in 0..Len(content) - 1 /\ i + 1 \in 1..n
      BY <2>3
    <3>2. i \in Nat /\ i < MaxSize /\ Seen(remote, dirty, valid, i, content[i + 1])
      BY Zenon, <2>1, <3>1, ContentSeen
    <3>3. Stored(readBuffered, i, content[i + 1])
      BY Zenon, <2>1, <3>2, BufferedStored
    <3> QED BY Zenon, <2>4, <3>1, <3>3
  <2> HIDE DEF t
  <2> QED BY Zenon, <2>2, <2>3, <2>4, <2>5, ReadCovers
<1> QED BY <1>1, FileInvariant, PTL
=============================================================================
