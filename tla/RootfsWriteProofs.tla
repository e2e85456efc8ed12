-------------------------- MODULE RootfsWriteProofs --------------------------
(***************************************************************************)
(* For every partition, every ratio of image to storage blocks, every      *)
(* erase buffer and every image: an image that is refused changes nothing, *)
(* no image and no erase reaches past its partition, an image that passes  *)
(* obc_validate_sparse is never given up by the writer for want of room,   *)
(* and what ends as done is complete.                                      *)
(*                                                                         *)
(* The two readings of the image are tied together by the block at which   *)
(* the validation counted each chunk: chunk i starts where chunk i - 1     *)
(* ends, the writer is at the end of the chunk before the next one, and    *)
(* the last chunk ends within the extent that the header promised and that *)
(* was compared with the partition.                                        *)
(***************************************************************************)
EXTENDS RootfsWrite, SequenceTheorems, TLAPS

\* Where chunk i of s ends, in image blocks; 0 before the first.
End(s, i) == IF i = 0 THEN 0 ELSE s[i].from + s[i].blocks

\* The chunks follow one another without a gap, up to the total.
Layout ==
  /\ \A i \in DOMAIN chunks :
       /\ chunks[i].from = End(chunks, i - 1)
       /\ End(chunks, i) <= total
       /\ chunks[i].kind = "crc" => chunks[i].blocks = 0
  /\ total = End(chunks, Len(chunks))

\* What the header promises fits the partition.
Room == pc \in {"chunks", "write"} => header.blocks * Ratio <= Count

\* The writer is where the chunk before the next one ends.
WriterAt ==
  /\ pc \in {"header", "chunks"} => next = 1 /\ at = 0
  /\ pc = "write" => next <= Len(chunks) + 1 /\ at = End(chunks, next - 1) * Ratio
  /\ pc = "done" => next = Len(chunks) + 1 /\ at = End(chunks, next - 1) * Ratio

\* The totals were compared before the first write.
Totals == pc \in {"write", "done"} => total = header.blocks

\* The blocks of chunk i hold the image.
OnDevice(i) ==
  chunks[i].kind \in {"raw", "fill"} =>
    \A b \in DiskBlocks :
      (/\ Start + chunks[i].from * Ratio <= b
       /\ b < Start + (chunks[i].from + chunks[i].blocks) * Ratio)
      => disk[b] = "image"

\* The chunks the writer has passed are on the device.
Behind ==
  pc \in {"write", "done"} => \A i \in DOMAIN chunks : i < next => OnDevice(i)

\* What the erase has passed is zero, and it stops at the partition's end.
EraseAt ==
  /\ pc \in {"erasing", "erased"} =>
       /\ at <= Count
       /\ \A b \in DiskBlocks : Start <= b /\ b < Start + at => disk[b] = "zero"
  /\ pc = "erased" => at = Count

\* Nothing has been counted before the header is accepted.
Fresh == pc = "header" => chunks = <<>>

IInv ==
  /\ TypeOK /\ Layout /\ Room /\ WriterAt /\ Fresh
  /\ Totals /\ Behind /\ EraseAt
  /\ RejectedUntouched /\ InsidePartition /\ NeverRefused

-----------------------------------------------------------------------------
\* Multiplication by the ratio distributes and is monotone.
LEMMA Scaled ==
  ASSUME NEW a \in Nat, NEW b \in Nat, NEW c \in Nat, a + b <= c
  PROVE  /\ a * Ratio \in Nat /\ b * Ratio \in Nat /\ c * Ratio \in Nat
         /\ (a + b) * Ratio = a * Ratio + b * Ratio
         /\ a * Ratio + b * Ratio <= c * Ratio
<1>1. Ratio \in Nat
  BY RootfsAssumption
<1>2. PICK d \in Nat : c = a + b + d
  <2>1. c - (a + b) \in Nat
    OBVIOUS
  <2> QED BY <2>1
<1>3. /\ a * Ratio \in Nat /\ b * Ratio \in Nat /\ d * Ratio \in Nat
  BY <1>1, SMT
<1>4. (a + b) * Ratio = a * Ratio + b * Ratio
  BY <1>1, SMT
<1>5. (a + b + d) * Ratio = a * Ratio + b * Ratio + d * Ratio
  BY <1>1, SMT
<1> QED BY <1>2, <1>3, <1>4, <1>5

LEMMA InitIInv == ASSUME Init PROVE IInv
<1>1. chunks = <<>> /\ Len(chunks) = 0 /\ DOMAIN chunks = {}
  BY DEF Init
<1>2. chunks \in Seq(ChunkRecords)
  <2>1. <<>> \in Seq(ChunkRecords)
    OBVIOUS
  <2> QED BY <1>1, <2>1, Zenon
<1>3. header \in Headers
  BY RootfsAssumption DEF Init, Headers
<1>4. TypeOK
  BY <1>2, <1>3 DEF Init, TypeOK
<1> QED BY <1>1, <1>4
  DEF Init, IInv, Layout, Room, WriterAt, Fresh, Totals, Behind, EraseAt,
      RejectedUntouched, InsidePartition, NeverRefused, End

\* What Overlay makes of the device.
LEMMA OverlayType ==
  ASSUME TypeOK, NEW S, NEW what \in {"image", "zero"}
  PROVE  /\ Overlay(S, what) \in [DiskBlocks -> {"old", "image", "zero"}]
         /\ \A b \in DiskBlocks :
              /\ b \in S => Overlay(S, what)[b] = what
              /\ b \notin S => Overlay(S, what)[b] = disk[b]
BY DEF TypeOK, Overlay
-----------------------------------------------------------------------------
\* The first reading preserves the invariant.
LEMMA ValidateIInv == ASSUME IInv, Validate PROVE IInv'
<1> USE RootfsAssumption
<1>e. EraseAt'
  <2>1. pc' \in {"chunks", "write", "rejected"}
    BY DEF Validate, CheckHeader, CheckChunk, CheckTotals
  <2> QED BY <2>1 DEF EraseAt
<1>0. /\ header \in Headers /\ header.blocks \in Nat /\ header.size \in Nat
      /\ offset \in Nat /\ total \in Nat /\ next \in Nat /\ at \in Nat
      /\ chunks \in Seq(ChunkRecords) /\ Len(chunks) \in Nat
      /\ DOMAIN chunks = 1 .. Len(chunks)
  <2>1. chunks \in Seq(ChunkRecords) /\ header \in Headers
    BY DEF IInv, TypeOK
  <2>2. Len(chunks) \in Nat /\ DOMAIN chunks = 1 .. Len(chunks)
    BY <2>1
  <2>3. header.blocks \in Nat /\ header.size \in Nat
    BY <2>1 DEF Headers
  <2> QED BY <2>1, <2>2, <2>3 DEF IInv, TypeOK
<1>1. CASE CheckHeader
  <2>1. TypeOK'
    <3>1. HeaderFits => FileHeader <= header.size
      BY <1>0 DEF HeaderFits
    <3>2. total = 0
      BY <1>0, <1>1 DEF IInv, CheckHeader, Fresh, Layout, End
    <3> QED BY <1>0, <1>1, <3>1, <3>2 DEF IInv, TypeOK, CheckHeader
  <2>2. Room'
    BY <1>1 DEF CheckHeader, Room, HeaderFits
  <2>3. Layout' /\ WriterAt' /\ Fresh'
    BY <1>0, <1>1 DEF IInv, CheckHeader, Layout, WriterAt, Fresh, End
  <2>4. Totals' /\ Behind'
    BY <1>1 DEF CheckHeader, Totals, Behind
  <2> QED BY <1>1, <1>e, <2>1, <2>2, <2>3, <2>4
    DEF IInv, CheckHeader, RejectedUntouched, InsidePartition, NeverRefused
<1>2. ASSUME NEW kind \in Kinds, NEW n \in 0 .. MaxBlocks,
             NEW size \in 0 .. MaxSize, CheckChunk(kind, n, size)
      PROVE  IInv'
  <2>1. CASE ~ChunkFits(kind, n, size)
    <3>1. UNCHANGED <<header, offset, total, chunks, next, at, disk>> /\ pc' = "rejected"
      BY <1>2, <2>1 DEF CheckChunk
    <3>2. pc = "chunks"
      BY <1>2 DEF CheckChunk
    <3> QED BY <1>0, <1>e, <3>1, <3>2
      DEF IInv, TypeOK, Layout, Room, WriterAt, Fresh, Totals, Behind,
          RejectedUntouched, InsidePartition, NeverRefused, End
  <2>2. CASE ChunkFits(kind, n, size)
    <3> DEFINE c == [kind |-> kind, from |-> total, blocks |-> n]
    <3>1. /\ chunks' = Append(chunks, c) /\ total' = total + n
          /\ offset' = offset + size /\ pc = "chunks" /\ pc' = "chunks"
          /\ UNCHANGED <<header, next, at, disk>>
      BY <1>2, <2>2 DEF CheckChunk
    <3>2. n \in Nat /\ size \in Nat /\ c \in ChunkRecords
      BY <1>0 DEF ChunkRecords
    <3>3. /\ chunks' \in Seq(ChunkRecords)
          /\ Len(chunks') = Len(chunks) + 1
          /\ DOMAIN chunks' = 1 .. Len(chunks) + 1
          /\ \A i \in 1 .. Len(chunks) : chunks'[i] = chunks[i]
          /\ chunks'[Len(chunks) + 1] = c
      BY <1>0, <3>1, <3>2
    <3>4. offset + size <= header.size /\ total + n <= header.blocks
      BY <1>0, <2>2, <3>2 DEF ChunkFits
    <3>5. TypeOK'
      BY <1>0, <3>1, <3>2, <3>3, <3>4 DEF IInv, TypeOK
    <3>6. Layout'
      <4>1. \A i \in 0 .. Len(chunks) : End(chunks', i) = End(chunks, i)
        BY <1>0, <3>3 DEF End
      <4>2. End(chunks', Len(chunks) + 1) = total + n
        BY <1>0, <3>2, <3>3 DEF End
      <4>3. total = End(chunks, Len(chunks)) /\ total <= total'
        BY <1>0, <3>1, <3>2 DEF IInv, Layout
      <4>4. ASSUME NEW i \in 1 .. Len(chunks)
            PROVE  /\ chunks'[i].from = End(chunks', i - 1)
                   /\ End(chunks', i) <= total'
                   /\ chunks'[i].kind = "crc" => chunks'[i].blocks = 0
        <5>1. chunks[i].from = End(chunks, i - 1) /\ End(chunks, i) <= total
              /\ (chunks[i].kind = "crc" => chunks[i].blocks = 0)
          BY <1>0, <4>4 DEF IInv, Layout
        <5>2. i - 1 \in 0 .. Len(chunks) /\ i \in 0 .. Len(chunks)
          BY <1>0
        <5>3. chunks[i] \in ChunkRecords
          BY <1>0
        <5>4. End(chunks, i) \in Nat
          BY <5>3 DEF End, ChunkRecords
        <5> QED BY <1>0, <3>1, <3>2, <3>3, <4>1, <4>3, <5>1, <5>2, <5>4
      <4>5. /\ chunks'[Len(chunks) + 1].from = End(chunks', Len(chunks))
            /\ End(chunks', Len(chunks) + 1) <= total'
            /\ c.kind = "crc" => c.blocks = 0
        BY <1>0, <2>2, <3>1, <3>2, <3>3, <4>1, <4>2, <4>3 DEF ChunkFits
      <4>6. ASSUME NEW i \in DOMAIN chunks'
            PROVE  /\ chunks'[i].from = End(chunks', i - 1)
                   /\ End(chunks', i) <= total'
                   /\ chunks'[i].kind = "crc" => chunks'[i].blocks = 0
        <5>1. CASE i \in 1 .. Len(chunks)
          BY <4>4, <5>1
        <5>2. CASE i = Len(chunks) + 1
          <6>1. i - 1 = Len(chunks)
            BY <1>0, <5>2
          <6> QED BY <3>3, <4>5, <5>2, <6>1
        <5> QED BY <1>0, <3>3, <5>1, <5>2
      <4>7. total' = End(chunks', Len(chunks'))
        BY <3>1, <3>3, <4>2
      <4> QED BY <4>6, <4>7 DEF Layout
    <3>7. Room' /\ WriterAt' /\ Fresh' /\ Totals' /\ Behind'
      BY <3>1 DEF IInv, Room, WriterAt, Fresh, Totals, Behind
    <3> QED BY <1>e, <3>1, <3>5, <3>6, <3>7
      DEF IInv, RejectedUntouched, InsidePartition, NeverRefused
  <2> QED BY <2>1, <2>2
<1>3. CASE CheckTotals
  <2>1. /\ UNCHANGED <<header, offset, total, chunks, next, at, disk>>
        /\ pc = "chunks" /\ pc' \in {"write", "rejected"}
    BY <1>3 DEF CheckTotals
  <2>2. Layout' /\ Room' /\ Fresh'
    BY <2>1 DEF IInv, Layout, Room, Fresh, End
  <2>3. WriterAt'
    <3>1. next = 1 /\ at = 0
      BY <2>1 DEF IInv, WriterAt
    <3>2. End(chunks', next' - 1) * Ratio = 0
      BY <2>1, <3>1 DEF End
    <3> QED BY <1>0, <2>1, <3>1, <3>2 DEF WriterAt
  <2>4. Totals'
    BY <1>3, <2>1 DEF CheckTotals, TotalsMatch, Totals
  <2>5. Behind'
    <3>1. next' = 1
      BY <2>1 DEF IInv, WriterAt
    <3>2. \A i \in DOMAIN chunks' : ~(i < next')
      BY <1>0, <2>1, <3>1
    <3> QED BY <3>2 DEF Behind
  <2> QED BY <1>0, <1>e, <2>1, <2>2, <2>3, <2>4, <2>5
    DEF IInv, TypeOK, RejectedUntouched, InsidePartition, NeverRefused
<1> QED BY <1>1, <1>2, <1>3 DEF Validate
-----------------------------------------------------------------------------
\* The next chunk lies within the partition, and the writer is at its start.
LEMMA ChunkInside ==
  ASSUME IInv, pc = "write", next <= Len(chunks)
  PROVE  /\ next \in DOMAIN chunks /\ Chunk \in ChunkRecords
         /\ at = Chunk.from * Ratio
         /\ Chunk.blocks * Ratio \in Nat
         /\ at + Chunk.blocks * Ratio = End(chunks, next) * Ratio
         /\ Fits
<1> USE RootfsAssumption
<1>1. /\ chunks \in Seq(ChunkRecords) /\ Len(chunks) \in Nat /\ total \in Nat
      /\ next \in Nat \ {0} /\ header.blocks \in Nat
      /\ total <= header.blocks /\ header.blocks * Ratio <= Count
  <2>1. chunks \in Seq(ChunkRecords) /\ header \in Headers
    BY DEF IInv, TypeOK
  <2>2. Len(chunks) \in Nat
    BY <2>1
  <2>3. header.blocks \in Nat
    BY <2>1 DEF Headers
  <2> QED BY <2>1, <2>2, <2>3 DEF IInv, TypeOK, Room
<1>2. next \in DOMAIN chunks /\ Chunk \in ChunkRecords
  BY <1>1 DEF Chunk
<1>3. Chunk.from = End(chunks, next - 1) /\ End(chunks, next) <= total
  BY <1>2 DEF IInv, Layout, Chunk
<1>4. at = Chunk.from * Ratio
  BY <1>3 DEF IInv, WriterAt
<1>5. Chunk.from \in Nat /\ Chunk.blocks \in Nat
  BY <1>2 DEF ChunkRecords
<1>6. End(chunks, next) = Chunk.from + Chunk.blocks
  BY <1>1 DEF End, Chunk
<1>7. Chunk.from + Chunk.blocks <= header.blocks
  BY <1>1, <1>3, <1>5, <1>6
<1>8. /\ Chunk.from * Ratio \in Nat /\ Chunk.blocks * Ratio \in Nat
      /\ header.blocks * Ratio \in Nat
      /\ (Chunk.from + Chunk.blocks) * Ratio = Chunk.from * Ratio + Chunk.blocks * Ratio
      /\ Chunk.from * Ratio + Chunk.blocks * Ratio <= header.blocks * Ratio
  BY <1>1, <1>5, <1>7, Scaled
<1>9. Fits
  <2> DEFINE f == Chunk.from * Ratio
             w == Chunk.blocks * Ratio
             h == header.blocks * Ratio
  <2>1. f \in Nat /\ w \in Nat /\ h \in Nat /\ f + w <= h /\ h <= Count
    BY <1>1, <1>8
  <2>2. Fits <=> Start + f + w <= Start + Count
    BY <1>4 DEF Fits, Position, StorageStart, StorageEnd
  <2> HIDE DEF f, w, h
  <2> QED BY <2>1, <2>2
<1> QED BY <1>2, <1>4, <1>6, <1>8, <1>9

\* Blocks of the next chunk are blocks of the partition.
LEMMA CoveredInside ==
  ASSUME IInv, pc = "write", next <= Len(chunks)
  PROVE  \A b \in Covered : b \in DiskBlocks /\ Start <= b /\ b < Start + Count
<1>1. Fits /\ Chunk.blocks * Ratio \in Nat
  BY ChunkInside
<1>2. at \in Nat /\ Start \in Nat /\ Count \in Nat /\ DeviceSize \in Nat
  BY RootfsAssumption DEF IInv, TypeOK
<1> DEFINE w == Chunk.blocks * Ratio
<1>3. w \in Nat /\ Start + at + w <= Start + Count
  BY <1>1 DEF Fits, Position, StorageStart, StorageEnd
<1>4. ASSUME NEW b \in Covered
      PROVE  b \in DiskBlocks /\ Start <= b /\ b < Start + Count
  <2>1. b \in DiskBlocks /\ Start + at <= b /\ b < Start + at + w
    BY <1>4 DEF Covered, Position, StorageStart
  <2>2. b \in Nat
    BY <1>2, <2>1 DEF DiskBlocks
  <2> HIDE DEF w
  <2> QED BY <1>2, <1>3, <2>1, <2>2
<1> QED BY <1>4

\* Writing within the partition keeps to it.
LEMMA OverlayInside ==
  ASSUME IInv, NEW S, NEW what \in {"image", "zero"},
         \A b \in S : b \in DiskBlocks /\ Start <= b /\ b < Start + Count,
         disk' = Overlay(S, what)
  PROVE  InsidePartition' /\ disk' \in [DiskBlocks -> {"old", "image", "zero"}]
<1>1. /\ disk' \in [DiskBlocks -> {"old", "image", "zero"}]
      /\ \A b \in DiskBlocks : b \in S \/ disk'[b] = disk[b]
  BY OverlayType DEF IInv
<1> QED BY <1>1 DEF IInv, InsidePartition

\* The second reading preserves the invariant.
LEMMA WriteIInv == ASSUME IInv, Write PROVE IInv'
<1> USE RootfsAssumption
<1>0. /\ offset \in Nat /\ total \in Nat /\ next \in Nat \ {0} /\ at \in Nat
      /\ chunks \in Seq(ChunkRecords) /\ Len(chunks) \in Nat
      /\ pc = "write"
      /\ UNCHANGED <<header, offset, total, chunks>>
      /\ pc' \in {"write", "refused", "interrupted", "done"}
  <2>1. chunks \in Seq(ChunkRecords)
    BY DEF IInv, TypeOK
  <2>2. Len(chunks) \in Nat
    BY <2>1
  <2>3. pc = "write" /\ UNCHANGED <<header, offset, total, chunks>>
    BY DEF Write, WriteChunk, Interrupted, Written
  <2>4. pc' \in {"write", "refused", "interrupted", "done"}
    BY <2>3 DEF Write, WriteChunk, Interrupted, Written
  <2> QED BY <2>1, <2>2, <2>3, <2>4 DEF IInv, TypeOK
<1>1. Layout' /\ Fresh' /\ RejectedUntouched' /\ Room' /\ Totals' /\ EraseAt'
  BY <1>0 DEF IInv, Layout, Fresh, RejectedUntouched, Room, Totals, EraseAt, End
<1>2. CASE WriteChunk
  <2>1. next <= Len(chunks)
    BY <1>2 DEF WriteChunk
  <2>2. /\ Chunk \in ChunkRecords /\ next \in DOMAIN chunks
        /\ at + Chunk.blocks * Ratio = End(chunks, next) * Ratio
        /\ Chunk.blocks * Ratio \in Nat /\ Fits
    BY <1>0, <2>1, ChunkInside
  <2>3. /\ disk' = Overlay(Covered, "image") /\ next' = next + 1 /\ pc' = "write"
        /\ at' = IF Chunk.kind = "crc" THEN at ELSE at + Chunk.blocks * Ratio
    BY <1>0, <1>2, <2>2 DEF WriteChunk
  <2>4. at' = End(chunks, next) * Ratio /\ at' \in Nat
    <3>1. CASE Chunk.kind = "crc"
      <4>1. Chunk.blocks = 0
        BY <2>2, <3>1 DEF IInv, Layout, Chunk
      <4>2. Chunk.blocks * Ratio = 0
        BY <4>1
      <4> QED BY <1>0, <2>2, <2>3, <3>1, <4>2
    <3>2. CASE Chunk.kind # "crc"
      BY <1>0, <2>2, <2>3, <3>2
    <3> QED BY <3>1, <3>2
  <2>5. End(chunks', next' - 1) = End(chunks, next)
    <3>1. next' - 1 = next
      BY <1>0, <2>3
    <3> QED BY <1>0, <3>1 DEF End
  <2>6. WriterAt'
    BY <1>0, <2>1, <2>3, <2>4, <2>5 DEF WriterAt
  <2>7. InsidePartition' /\ disk' \in [DiskBlocks -> {"old", "image", "zero"}]
    BY <1>0, <2>1, <2>3, CoveredInside, OverlayInside
  <2>8. TypeOK'
    BY <1>0, <2>3, <2>4, <2>7 DEF IInv, TypeOK
  <2>9. Behind'
    <3>1. ASSUME NEW i \in DOMAIN chunks, i < next, NEW b \in DiskBlocks,
                 chunks[i].kind \in {"raw", "fill"},
                 Start + chunks[i].from * Ratio <= b,
                 b < Start + (chunks[i].from + chunks[i].blocks) * Ratio
          PROVE  disk'[b] = "image"
      <4>1. disk[b] = "image"
        BY <1>0, <3>1 DEF IInv, Behind, OnDevice
      <4> QED BY <2>3, <4>1 DEF Overlay
    <3>2. ASSUME NEW b \in DiskBlocks, Chunk.kind \in {"raw", "fill"},
                 Start + Chunk.from * Ratio <= b,
                 b < Start + (Chunk.from + Chunk.blocks) * Ratio
          PROVE  disk'[b] = "image"
      <4>1. at = Chunk.from * Ratio /\ Chunk.from \in Nat /\ Chunk.blocks \in Nat
        BY <1>0, <2>1, <2>2, ChunkInside DEF ChunkRecords
      <4>2. (Chunk.from + Chunk.blocks) * Ratio = at + Chunk.blocks * Ratio
        <5>1. Chunk.from + Chunk.blocks \in Nat
              /\ Chunk.from + Chunk.blocks <= Chunk.from + Chunk.blocks
          BY <4>1
        <5> QED BY <4>1, <5>1, Scaled
      <4> DEFINE w == Chunk.blocks * Ratio
      <4>3. w \in Nat /\ Start + at <= b /\ b < Start + (at + w)
        BY <2>2, <3>2, <4>1, <4>2
      <4>4. b \in Covered
        <5>1. Start + at <= b /\ b < Start + at + w
          <6> HIDE DEF w
          <6> QED BY <1>0, <3>2, <4>3 DEF DiskBlocks
        <5> QED BY <3>2, <5>1 DEF Covered, Position, StorageStart, IsData
      <4> QED BY <2>3, <4>4 DEF Overlay
    <3>3. ASSUME NEW i \in DOMAIN chunks', i < next'
          PROVE  OnDevice(i)'
      <4>1. i \in 1 .. Len(chunks) /\ (i < next \/ i = next)
        BY <1>0, <2>3, <3>3
      <4> QED BY <1>0, <3>1, <3>2, <4>1 DEF OnDevice, Chunk, DiskBlocks
    <3> QED BY <3>3 DEF Behind
  <2> QED BY <1>1, <2>3, <2>6, <2>7, <2>8, <2>9 DEF IInv, NeverRefused
<1>3. CASE Interrupted
  <2>1. next <= Len(chunks) /\ pc' = "interrupted" /\ UNCHANGED <<next, at>>
    BY <1>3 DEF Interrupted
  <2>2. PICK S \in SUBSET Covered : disk' = Overlay(S, "image")
    BY <1>3 DEF Interrupted
  <2>3. \A b \in S : b \in DiskBlocks /\ Start <= b /\ b < Start + Count
    BY <1>0, <2>1, CoveredInside
  <2>4. InsidePartition' /\ disk' \in [DiskBlocks -> {"old", "image", "zero"}]
    BY <2>2, <2>3, OverlayInside
  <2>5. TypeOK'
    BY <1>0, <2>1, <2>4 DEF IInv, TypeOK
  <2> QED BY <1>1, <2>1, <2>4, <2>5 DEF IInv, NeverRefused, WriterAt, Behind
<1>4. CASE Written
  <2>1. pc' = "done" /\ UNCHANGED <<next, at, disk>> /\ next > Len(chunks)
    BY <1>4 DEF Written
  <2>2. WriterAt'
    <3>1. next <= Len(chunks) + 1 /\ at = End(chunks, next - 1) * Ratio
      BY <1>0 DEF IInv, WriterAt
    <3>2. End(chunks', next' - 1) = End(chunks, next - 1)
      BY <1>0, <2>1 DEF End
    <3> QED BY <1>0, <2>1, <3>1, <3>2 DEF WriterAt
  <2>3. Behind'
    BY <1>0, <2>1 DEF IInv, Behind, OnDevice, DiskBlocks
  <2> QED BY <1>0, <1>1, <2>1, <2>2, <2>3
    DEF IInv, TypeOK, InsidePartition, NeverRefused
<1> QED BY <1>2, <1>3, <1>4 DEF Write

\* So does the writing of a raw file system.
LEMMA RawIInv == ASSUME IInv, Raw PROVE IInv'
<1> USE RootfsAssumption
<1>1. PICK n \in 1 .. DeviceSize : WriteRaw(n)
  BY DEF Raw
<1>2. /\ pc = "header" /\ UNCHANGED <<header, offset, total, chunks, next, at>>
      /\ pc' \in {"rejected", "raw done", "interrupted"}
  BY <1>1 DEF WriteRaw
<1>3. /\ Layout' /\ Fresh' /\ Room' /\ WriterAt' /\ NeverRefused'
      /\ Totals' /\ Behind' /\ EraseAt'
  BY <1>2 DEF IInv, Layout, Fresh, Room, WriterAt, NeverRefused, Totals,
     Behind, EraseAt, End
<1>4. CASE disk' = disk /\ pc' = "rejected"
  BY <1>2, <1>3, <1>4 DEF IInv, TypeOK, RejectedUntouched, InsidePartition
<1>5. ASSUME RawFits(n), NEW S \in SUBSET RawCovered(n), disk' = Overlay(S, "image"),
             pc' # "rejected"
      PROVE  IInv'
  <2>1. \A b \in S : b \in DiskBlocks /\ Start <= b /\ b < Start + Count
    BY <1>5 DEF RawFits, RawCovered, DiskBlocks
  <2>2. InsidePartition' /\ disk' \in [DiskBlocks -> {"old", "image", "zero"}]
    BY <1>5, <2>1, OverlayInside
  <2>3. TypeOK'
    BY <1>2, <2>2 DEF IInv, TypeOK
  <2> QED BY <1>2, <1>3, <1>5, <2>2, <2>3 DEF IInv, RejectedUntouched
<1>6. RawCovered(n) \in SUBSET RawCovered(n)
  OBVIOUS
<1> QED BY <1>1, <1>4, <1>5, <1>6 DEF WriteRaw

\* Blocks that one write of the erase zeroes are the partition's.
LEMMA ZeroedInside ==
  ASSUME IInv, pc = "erasing", at < Count
  PROVE  /\ EraseCount \in Nat /\ at + EraseCount <= Count
         /\ \A b \in Zeroed : b \in DiskBlocks /\ Start <= b /\ b < Start + Count
<1>1. at \in Nat /\ Start \in Nat /\ Count \in Nat /\ EraseBuffer \in Nat
      /\ DiskBlocks \subseteq Int
  BY RootfsAssumption DEF IInv, TypeOK, DiskBlocks
<1>2. EraseCount \in Nat /\ at + EraseCount <= Count
  BY <1>1 DEF EraseCount
<1> QED BY <1>1, <1>2 DEF Zeroed

\* So does the erase.
LEMMA EraseIInv == ASSUME IInv, Erase PROVE IInv'
<1> USE RootfsAssumption
<1>0. /\ UNCHANGED <<header, offset, total, chunks, next>>
      /\ pc' \in {"rejected", "erasing", "interrupted", "erased"}
      /\ at \in Nat
  BY DEF IInv, TypeOK, Erase, StartErase, EraseBlocks, EndErase
<1>1. /\ Layout' /\ Fresh' /\ Room' /\ WriterAt' /\ NeverRefused'
      /\ Totals' /\ Behind'
  BY <1>0 DEF IInv, Layout, Fresh, Room, WriterAt, NeverRefused, Totals,
     Behind, End
<1>2. CASE StartErase
  <2>1. pc = "header" /\ pc' \in {"rejected", "erasing"} /\ at = 0
        /\ UNCHANGED <<at, disk>>
    BY <1>2 DEF IInv, StartErase, WriterAt
  <2>2. EraseAt'
    BY <2>1 DEF EraseAt, DiskBlocks
  <2> QED BY <1>0, <1>1, <2>1, <2>2
    DEF IInv, TypeOK, RejectedUntouched, InsidePartition
<1>3. CASE EraseBlocks
  <2>1. pc = "erasing" /\ at < Count
    BY <1>3 DEF EraseBlocks
  <2>2. PICK S \in SUBSET Zeroed :
          /\ disk' = Overlay(S, "zero")
          /\ \/ S = Zeroed /\ at' = at + EraseCount /\ pc' = "erasing"
             \/ at' = at /\ pc' = "interrupted"
    BY <1>3, <2>1 DEF EraseBlocks
  <2>3. /\ EraseCount \in Nat /\ at + EraseCount <= Count
        /\ \A b \in Zeroed : b \in DiskBlocks /\ Start <= b /\ b < Start + Count
    BY <2>1, ZeroedInside
  <2>4. InsidePartition' /\ disk' \in [DiskBlocks -> {"old", "image", "zero"}]
    BY <2>2, <2>3, OverlayInside
  <2>5. EraseAt'
    <3>1. CASE pc' = "interrupted"
      BY <3>1 DEF EraseAt
    <3>2. CASE S = Zeroed /\ at' = at + EraseCount /\ pc' = "erasing"
      <4>1. ASSUME NEW b \in DiskBlocks, Start <= b, b < Start + at'
            PROVE  disk'[b] = "zero"
        <5>1. CASE b < Start + at
          <6>1. disk[b] = "zero"
            BY <2>1, <4>1, <5>1 DEF IInv, EraseAt
          <6> QED BY <2>2, <6>1 DEF Overlay
        <5>2. CASE ~(b < Start + at)
          <6>1. b \in Zeroed
            BY <1>0, <2>3, <3>2, <4>1, <5>2 DEF Zeroed, DiskBlocks
          <6> QED BY <2>2, <3>2, <6>1 DEF Overlay
        <5> QED BY <5>1, <5>2
      <4> QED BY <2>3, <3>2, <4>1 DEF EraseAt, DiskBlocks
    <3> QED BY <2>2, <3>1, <3>2
  <2>6. TypeOK'
    <3>1. at' \in Nat
      BY <1>0, <2>2, <2>3
    <3>2. TypeOK
      BY DEF IInv
    <3> QED BY <1>0, <2>4, <3>1, <3>2 DEF TypeOK
  <2> QED BY <1>1, <2>2, <2>4, <2>5, <2>6 DEF IInv, RejectedUntouched
<1>4. CASE EndErase
  <2>1. pc = "erasing" /\ pc' = "erased" /\ at = Count /\ UNCHANGED <<at, disk>>
    BY <1>4 DEF EndErase
  <2>2. EraseAt'
    BY <2>1 DEF IInv, EraseAt, DiskBlocks
  <2> QED BY <1>0, <1>1, <2>1, <2>2
    DEF IInv, TypeOK, RejectedUntouched, InsidePartition
<1> QED BY <1>2, <1>3, <1>4 DEF Erase

\* The invariant holds in every state.
LEMMA Inductive == Spec => []IInv
<1>1. IInv /\ [Next]_vars => IInv'
  <2> SUFFICES ASSUME IInv, [Next]_vars PROVE IInv'
    OBVIOUS
  <2>1. CASE Next
    BY <2>1, ValidateIInv, WriteIInv, RawIInv, EraseIInv DEF Next
  <2>2. CASE UNCHANGED vars
    BY <2>2 DEF vars, IInv, TypeOK, Layout, Room, WriterAt, Fresh, Totals,
         Behind, OnDevice, EraseAt, RejectedUntouched, InsidePartition,
         NeverRefused, End, DiskBlocks
  <2> QED BY <2>1, <2>2
<1> QED BY InitIInv, <1>1, PTL DEF Spec
-----------------------------------------------------------------------------
\* The types hold, and the first reading stays within what was downloaded and
\* within the blocks that the header promises.
THEOREM TypeOKAlways == Spec => []TypeOK
<1>1. IInv => TypeOK
  BY DEF IInv
<1> QED BY Inductive, <1>1, PTL

\* A refused image leaves the partition as it was.
THEOREM RejectedUntouchedAlways == Spec => []RejectedUntouched
<1>1. IInv => RejectedUntouched
  BY DEF IInv
<1> QED BY Inductive, <1>1, PTL

\* No image changes a block outside the partition.
THEOREM InsidePartitionAlways == Spec => []InsidePartition
<1>1. IInv => InsidePartition
  BY DEF IInv
<1> QED BY Inductive, <1>1, PTL

\* An image that was validated always fits.
THEOREM NeverRefusedAlways == Spec => []NeverRefused
<1>1. IInv => NeverRefused
  BY DEF IInv
<1> QED BY Inductive, <1>1, PTL

\* The writer is where the validation counted the chunk.
THEOREM WriterAgreesAlways == Spec => []WriterAgrees
<1>1. IInv => WriterAgrees
  <2>1. ASSUME IInv, pc = "write", next <= Len(chunks)
        PROVE  at = chunks[next].from * Ratio
    BY <2>1, ChunkInside DEF Chunk
  <2> QED BY <2>1 DEF WriterAgrees
<1> QED BY Inductive, <1>1, PTL

\* A write that ends as done has written every data chunk of the image up to
\* the extent of its header; an erase that ends has zeroed the partition.
THEOREM DoneIsCompleteAlways == Spec => []DoneIsComplete
<1>1. IInv => DoneIsComplete
  <2>1. ASSUME IInv, pc = "done"
        PROVE  at = header.blocks * Ratio /\ \A i \in DOMAIN chunks : OnDevice(i)
    <3>1. chunks \in Seq(ChunkRecords)
      BY <2>1 DEF IInv, TypeOK
    <3>2. Len(chunks) \in Nat /\ DOMAIN chunks = 1 .. Len(chunks)
      BY <3>1
    <3>3. next = Len(chunks) + 1 /\ at = End(chunks, next - 1) * Ratio
      BY <2>1 DEF IInv, WriterAt
    <3>4. next - 1 = Len(chunks)
      BY <3>2, <3>3
    <3>5. at = header.blocks * Ratio
      BY <2>1, <3>3, <3>4 DEF IInv, Layout, Totals
    <3>6. \A i \in DOMAIN chunks : i < next
      BY <3>2, <3>3
    <3> QED BY <2>1, <3>5, <3>6 DEF IInv, Behind
  <2>2. ASSUME IInv, pc = "erased", NEW b \in DiskBlocks,
               Start <= b, b < Start + Count
        PROVE  disk[b] = "zero"
    BY <2>2 DEF IInv, EraseAt
  <2> QED BY <2>1, <2>2 DEF DoneIsComplete, OnDevice
<1> QED BY Inductive, <1>1, PTL
=============================================================================
