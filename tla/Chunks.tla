------------------------------- MODULE Chunks -------------------------------
(***************************************************************************)
(* The arithmetic that cuts one remote file into download chunks           *)
(* (src/src/gdrive/FileIO.cpp).  Offsets, sizes and lengths are byte       *)
(* counts; the chunk size is small here and 8 MiB by default in main.cpp.  *)
(***************************************************************************)
EXTENDS Integers, Sequences

CONSTANTS BlockSize,    \* FileIO::block_download_size
          FileSize      \* m_file->getFileSize(), fixed once a file is uploaded

ASSUME SizesAssumption == /\ BlockSize \in Nat \ {0}
                          /\ FileSize \in Nat \ {0}

ChunkNumber(pos) == pos \div BlockSize
ChunkStart(pos)  == ChunkNumber(pos) * BlockSize

(* Variant: a table of FileSize / BlockSize entries.                       *)
ChunkShort == 0 .. (ChunkNumber(FileSize) - 1)

(* create_heap_handles gives the tables FileSize / BlockSize + 1 entries,  *)
(* one more than the file has chunks when BlockSize divides FileSize.      *)
Chunk == 0 .. ChunkNumber(FileSize)

(* The length a download of chunk c asks for; 0 past the end of the file.  *)
ChunkLen(c) == IF (c + 1) * BlockSize >= FileSize
               THEN FileSize - c * BlockSize
               ELSE BlockSize

(* Variant: any length will do.                                            *)
MatchesAny(n) == n # -1

(* bufferMatchesExpectedBufferSize: the test does not look at the chunk.   *)
Matches(n) == n = BlockSize \/ n = FileSize % BlockSize

LastChunk == ChunkNumber(FileSize - 1)

(* A read request as Filesystem::read passes it on: cut at the end of file *)
Clamp(off, size) == IF off + size > FileSize THEN FileSize - off ELSE size

(* getFromCloud's spillOver: the byte after the read is in another chunk.  *)
SpillsOver(off, size) == ChunkNumber(off) # ChunkNumber(off + size)
=============================================================================
