----------------------------- MODULE RootfsWrite -----------------------------
(***************************************************************************)
(* The bulk writers of a partition.  obc_blk_write_rootfs_by_name          *)
(* (obc_blk.c): a sparse image is read once as a whole by                  *)
(* obc_validate_sparse, chunk by chunk, and then a second time by U-Boot's *)
(* write_sparse_image, which writes to the device; an ext file system that *)
(* is not sparse is written in one call.  obc_blk_mmc_erase                *)
(* (obc_blk_mmc.c): a partition is zeroed, one buffer after the other.     *)
(* The bytes of an image are arbitrary, so what the first reading finds in *)
(* a chunk is chosen when it gets there; the second finds the same.        *)
(*                                                                         *)
(* Sizes in the image are counted in words, offsets on the device in       *)
(* storage blocks; an image block is Ratio storage blocks.  write_sparse_  *)
(* image is not part of the repository: it is taken to go from chunk to    *)
(* chunk by their block counts and to refuse a write past the partition.   *)
(***************************************************************************)
EXTENDS Naturals, Sequences

CONSTANTS
  DeviceSize,                     \* storage blocks on the device
  Start, Count,                   \* the partition
  Ratio,                          \* block_size / storage_blksz
  EraseBuffer,                    \* storage blocks in the buffer of the erase
  FileHeader, ChunkHeader, Word, BlockWords,   \* sizes in the image
  MaxBlocks, MaxSize              \* bounds: counts and sizes in headers

ASSUME RootfsAssumption ==
  /\ DeviceSize \in Nat /\ Start \in Nat /\ Count \in Nat
  /\ Ratio \in Nat \ {0} /\ EraseBuffer \in Nat
  /\ FileHeader \in Nat \ {0} /\ ChunkHeader \in Nat \ {0}
  /\ Word \in Nat \ {0} /\ BlockWords \in Nat \ {0}
  /\ MaxBlocks \in Nat /\ MaxSize \in Nat

Kinds == {"raw", "fill", "skip", "crc", "unknown"}

VARIABLES
  pc,         \* where the command is
  header,     \* total_blks, total_chunks and the size of what was downloaded
  offset,     \* obc_validate_sparse: the words it has passed,
  total,      \*   total_blocks,
  chunks,     \*   and the chunks it has accepted
  next,       \* write_sparse_image: the next chunk,
  at,         \*   and the storage block it goes to, from the partition's
              \*   start; the erase counts what it has zeroed here
  disk        \* storage block -> "old", "image" or "zero"

vars == <<pc, header, offset, total, chunks, next, at, disk>>

Headers == [blocks : 0 .. MaxBlocks, chunks : Nat, size : 0 .. MaxSize]
DiskBlocks == 0 .. DeviceSize - 1

Init ==
  /\ pc = "header"
  /\ header \in [blocks : 0 .. MaxBlocks, chunks : 0 .. MaxSize, size : 0 .. MaxSize]
  /\ offset = 0 /\ total = 0 /\ chunks = <<>>
  /\ next = 1 /\ at = 0
  /\ disk = [b \in DiskBlocks |-> "old"]
-----------------------------------------------------------------------------
(* obc_validate_sparse                                                     *)

\* The header: what it promises fits the partition.
HeaderFitsWords ==                \* mutant: image blocks for storage blocks
  header.size >= FileHeader /\ header.blocks > 0 /\ header.blocks <= Count
HeaderFits ==
  /\ header.size >= FileHeader
  /\ header.blocks > 0
  /\ header.blocks * Ratio <= Count

CheckHeader ==
  /\ pc = "header"
  /\ pc' = IF HeaderFits THEN "chunks" ELSE "rejected"
  /\ offset' = FileHeader
  /\ UNCHANGED <<header, total, chunks, next, at, disk>>

\* The length a chunk must have.
ExpectedSize(kind, n) ==
  CASE kind = "raw"  -> ChunkHeader + n * BlockWords
    [] kind = "skip" -> ChunkHeader
    [] OTHER         -> ChunkHeader + Word

\* The tests of a chunk that claims n blocks and a length.
ChunkWithCrcBlocks(kind, n, size) ==   \* mutant: a CRC chunk may have blocks
  /\ kind # "unknown"
  /\ offset <= header.size /\ ChunkHeader <= header.size - offset
  /\ size >= ChunkHeader /\ size <= header.size - offset
  /\ size = ExpectedSize(kind, n)
  /\ total + n <= header.blocks
ChunkUnbounded(kind, n, size) ==       \* mutant: the sum is left to the end
  /\ kind # "unknown"
  /\ kind = "crc" => n = 0
  /\ offset <= header.size /\ ChunkHeader <= header.size - offset
  /\ size >= ChunkHeader
  /\ size = ExpectedSize(kind, n)
ChunkFits(kind, n, size) ==
  /\ kind # "unknown"
  /\ kind = "crc" => n = 0
  /\ offset <= header.size /\ ChunkHeader <= header.size - offset
  /\ size >= ChunkHeader /\ size <= header.size - offset
  /\ size = ExpectedSize(kind, n)
  /\ total + n <= header.blocks

CheckChunkWrites(kind, n, size) ==     \* mutant: written as it is read
  /\ pc = "chunks" /\ Len(chunks) < header.chunks
  /\ IF ChunkFits(kind, n, size)
     THEN /\ chunks' = Append(chunks, [kind |-> kind, from |-> total, blocks |-> n])
          /\ total' = total + n
          /\ offset' = offset + size
          /\ disk' = [b \in DiskBlocks |->
                        IF b = Start + total /\ n > 0 THEN "image" ELSE disk[b]]
          /\ UNCHANGED pc
     ELSE /\ pc' = "rejected"
          /\ UNCHANGED <<chunks, total, offset, disk>>
  /\ UNCHANGED <<header, next, at>>
CheckChunk(kind, n, size) ==
  /\ pc = "chunks" /\ Len(chunks) < header.chunks
  /\ IF ChunkFits(kind, n, size)
     THEN /\ chunks' = Append(chunks, [kind |-> kind, from |-> total, blocks |-> n])
          /\ total' = total + n
          /\ offset' = offset + size
          /\ UNCHANGED pc
     ELSE /\ pc' = "rejected"
          /\ UNCHANGED <<chunks, total, offset>>
  /\ UNCHANGED <<header, next, at, disk>>

\* The totals at the end.
TotalsUnchecked == TRUE           \* mutant: the last test is left out
TotalsMatch == total = header.blocks /\ offset = header.size

CheckTotals ==
  /\ pc = "chunks" /\ Len(chunks) = header.chunks
  /\ pc' = IF TotalsMatch THEN "write" ELSE "rejected"
  /\ UNCHANGED <<header, offset, total, chunks, next, at, disk>>
-----------------------------------------------------------------------------
(* write_sparse_image                                                      *)

\* sparse.start and sparse.size.
StorageStartOfDevice == 0         \* mutant: offsets of the whole device
StorageStart == Start
StorageEnd == StorageStart + Count

Position == StorageStart + at
Chunk == chunks[next]

IsData == Chunk.kind \in {"raw", "fill"}
Fits == Position + Chunk.blocks * Ratio <= StorageEnd

\* The device blocks a data chunk goes to, and the device with some written.
Covered ==
  IF IsData
  THEN {b \in DiskBlocks : Position <= b /\ b < Position + Chunk.blocks * Ratio}
  ELSE {}
Overlay(S, what) == [b \in DiskBlocks |-> IF b \in S THEN what ELSE disk[b]]

\* A chunk is written, or refused because it goes past the partition.
WriteChunk ==
  /\ pc = "write" /\ next <= Len(chunks)
  /\ IF IsData => Fits
     THEN /\ disk' = Overlay(Covered, "image")
          /\ at' = IF Chunk.kind = "crc" THEN at ELSE at + Chunk.blocks * Ratio
          /\ next' = next + 1
          /\ UNCHANGED pc
     ELSE /\ pc' = "refused"
          /\ UNCHANGED <<disk, at, next>>
  /\ UNCHANGED <<header, offset, total, chunks>>

\* The device or the power fails with any part of the chunk written.
Interrupted ==
  /\ pc = "write" /\ next <= Len(chunks)
  /\ IsData => Fits
  /\ \E S \in SUBSET Covered : disk' = Overlay(S, "image")
  /\ pc' = "interrupted"
  /\ UNCHANGED <<header, offset, total, chunks, next, at>>

Written ==
  /\ pc = "write" /\ next > Len(chunks)
  /\ pc' = "done"
  /\ UNCHANGED <<header, offset, total, chunks, next, at, disk>>
-----------------------------------------------------------------------------
(* The image is not sparse.                                                *)

\* n whole blocks with the magic of ext; a device that fails has written any
\* part of them.
RawFits(n) == n <= Count
RawCovered(n) == {b \in DiskBlocks : Start <= b /\ b < Start + n}

WriteRaw(n) ==
  /\ pc = "header"
  /\ \/ /\ ~RawFits(n)
        /\ pc' = "rejected" /\ UNCHANGED disk
     \/ /\ RawFits(n)
        /\ pc' = "raw done" /\ disk' = Overlay(RawCovered(n), "image")
     \/ /\ RawFits(n)
        /\ pc' = "interrupted"
        /\ \E S \in SUBSET RawCovered(n) : disk' = Overlay(S, "image")
  /\ UNCHANGED <<header, offset, total, chunks, next, at>>
-----------------------------------------------------------------------------
(* obc_blk_mmc_erase, from obcflash mmc erase.                             *)

\* Refused for want of memory or of the partition's name, and whenever a block
\* is larger than the buffer.
StartErase ==
  /\ pc = "header"
  /\ \/ pc' = "rejected"
     \/ EraseBuffer > 0 /\ pc' = "erasing"
  /\ UNCHANGED <<header, offset, total, chunks, next, at, disk>>

\* What one write zeroes: a full buffer, or what is left.
EraseCount == IF Count - at > EraseBuffer THEN EraseBuffer ELSE Count - at
Zeroed ==
  {b \in DiskBlocks : Start + at <= b /\ b < Start + at + EraseCount}

\* One write of zeroes: all of it, or the device or the power fails.
EraseBlocks ==
  /\ pc = "erasing" /\ at < Count
  /\ \/ /\ disk' = Overlay(Zeroed, "zero")
        /\ at' = at + EraseCount
        /\ UNCHANGED pc
     \/ /\ \E S \in SUBSET Zeroed : disk' = Overlay(S, "zero")
        /\ pc' = "interrupted"
        /\ UNCHANGED at
  /\ UNCHANGED <<header, offset, total, chunks, next>>

EndErase ==
  /\ pc = "erasing" /\ at = Count
  /\ pc' = "erased"
  /\ UNCHANGED <<header, offset, total, chunks, next, at, disk>>
-----------------------------------------------------------------------------
Validate ==
  \/ CheckHeader
  \/ \E kind \in Kinds, n \in 0 .. MaxBlocks, size \in 0 .. MaxSize :
       CheckChunk(kind, n, size)
  \/ CheckTotals
Write == WriteChunk \/ Interrupted \/ Written

Raw == \E n \in 1 .. DeviceSize : WriteRaw(n)

Erase == StartErase \/ EraseBlocks \/ EndErase

Next == Validate \/ Write \/ Raw \/ Erase

Spec == Init /\ [][Next]_vars
-----------------------------------------------------------------------------
ChunkRecords == [kind : Kinds, from : Nat, blocks : Nat]

\* Types, and the bounds of the first reading: it stays within what was
\* downloaded and within the blocks the header promises.
TypeOK ==
  /\ pc \in {"header", "chunks", "rejected", "write", "refused", "interrupted", "raw done",
            "done", "erasing", "erased"}
  /\ header \in Headers
  /\ offset \in Nat /\ total \in Nat
  /\ chunks \in Seq(ChunkRecords)
  /\ next \in Nat \ {0} /\ at \in Nat
  /\ disk \in [DiskBlocks -> {"old", "image", "zero"}]
  /\ pc \in {"chunks", "write"} => offset <= header.size /\ total <= header.blocks

\* An image that is refused leaves the partition as it was: nothing is
\* written before the last test of the last chunk.
RejectedUntouched ==
  pc \in {"header", "chunks", "rejected"} => \A b \in DiskBlocks : disk[b] = "old"

\* No image, however its chunks are made, and no erase changes a block of the
\* device that is not the partition's.
InsidePartition ==
  \A b \in DiskBlocks : disk[b] # "old" => Start <= b /\ b < Start + Count

\* The two readings of the image agree: the writer is at the block at which
\* the validation counted the chunk.
WriterAgrees ==
  pc = "write" /\ next <= Len(chunks) => at = chunks[next].from * Ratio

\* What was validated fits, so that the writer never gives up for want of
\* room with part of the partition overwritten.
NeverRefused == pc # "refused"

\* A finished write is the whole image: its data chunks are on the partition
\* and its extent is the one its header promised.  A finished erase has zeroed
\* every block of the partition.
DoneIsComplete ==
  /\ pc = "done" =>
       /\ at = header.blocks * Ratio
       /\ \A i \in DOMAIN chunks : chunks[i].kind \in {"raw", "fill"} =>
            \A b \in DiskBlocks :
              (/\ Start + chunks[i].from * Ratio <= b
               /\ b < Start + (chunks[i].from + chunks[i].blocks) * Ratio)
              => disk[b] = "image"
  /\ pc = "erased" =>
       \A b \in DiskBlocks : Start <= b /\ b < Start + Count => disk[b] = "zero"
=============================================================================
