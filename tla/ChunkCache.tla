----------------------------- MODULE ChunkCache -----------------------------
(***************************************************************************)
(* Reading an uploaded file: FileIO::getFromCloud, getFromCache, download, *)
(* the read, download and write thread pools, and the in-memory            *)
(* PriorityCache that owns the chunk buffers.  One file is modelled; the   *)
(* other files that share the cache only compete for its space, which the  *)
(* chunks of this file already do to each other.                           *)
(*                                                                         *)
(* A buffer (a __no_collision_download__, here an item) is reference       *)
(* counted.  The cache's heap, the readers' local variables and a running  *)
(* pool task hold strong references; m_buffers and a queued task hold weak *)
(* ones.  Settle below is the destructor: it erases what nobody holds.     *)
(***************************************************************************)
EXTENDS Chunks, FiniteSetsExt

CONSTANTS
  Readers,        \* FUSE worker threads that read the file
  Items,          \* identities of buffers, reused when a buffer is freed
  NoItem,         \* a null or expired pointer
  MaxCache,       \* PriorityCache::maxCacheSize
  Requests,       \* the [off, size] reads the kernel may send
  AheadWindow,    \* offsets in a chunk that start a read-ahead
  ReadAhead,      \* FileIO::number_of_blocks_to_read_ahead
  Threads,        \* threads of DownloadPool, and of ReadPool
  SharedPool,     \* ReadPool and DownloadPool are one pool (the default)
  Bodies,         \* Bodies[c]: lengths of the bodies a 200/206 may carry
  Torn,           \* lengths a chunk file may show before its write ended
  Gone,           \* the server may answer 404
  OpenFails,      \* fopen of a cached chunk may fail (EMFILE)
  Evicts,         \* the disk cache may delete chunk files at any time
  Crashes         \* the process may be killed

None == -1        \* no buffer; no file on disk

ASSUME CacheAssumption ==
  /\ NoItem \notin Items
  /\ MaxCache \in Nat /\ ReadAhead \in Nat /\ Threads \in Nat \ {0}
  /\ Requests \subseteq [off : 0 .. (FileSize - 1), size : Nat]
  /\ AheadWindow \subseteq Nat
  /\ Bodies \in [Chunk -> SUBSET Nat]
  /\ Torn \subseteq Nat
  /\ {SharedPool, Gone, OpenFails, Evicts, Crashes} \subseteq BOOLEAN

VARIABLES
  weak,       \* m_file->m_buffers: chunk -> item, weak
  heap,       \* PriorityCache::cache, strong; last_access ties: any order
  cacheSize,  \* PriorityCache::cacheSize
  item,       \* the fields of each buffer, and the pool task that fills it
  rd,         \* one getFromCloud activation per reader
  held,       \* the items a reader's local shared_ptrs own
  mtx,        \* m_file->m_event, an AutoResetEvent used as a mutex
  disk        \* <cache>/download/<id>-<start>: chunk -> length or None

vars == <<weak, heap, cacheSize, item, rd, held, mtx, disk>>

Queued  == {"read", "fetch", "write"}            \* weak reference
Running == {"reading", "fetching", "writing"}    \* strong reference
Pending == {"read", "reading", "fetch", "fetching"}

Blank == [chunk |-> 0, buf |-> None, size |-> 0, invalid |-> FALSE,
          deleted |-> FALSE, token |-> FALSE, task |-> "none",
          backoff |-> FALSE]

Idle == [pc |-> "idle", off |-> 0, size |-> 0, second |-> FALSE,
         have |-> FALSE, cur |-> NoItem, cached |-> FALSE, need |-> <<>>,
         done |-> FALSE, retried |-> FALSE]

Init ==
  /\ weak = [c \in Chunk |-> NoItem]
  /\ heap = {}
  /\ cacheSize = 0
  /\ item = [i \in Items |-> Blank]
  /\ rd = [r \in Readers |-> Idle]
  /\ held = [r \in Readers |-> {}]
  /\ mtx = TRUE
  /\ disk = [c \in Chunk |-> None]

-----------------------------------------------------------------------------
(* Reference counting.                                                     *)

Live(it, hp, hd) == hp \cup {i \in Items : it[i].task \in Running}
                       \cup UNION {hd[r] : r \in Readers}

Settle(it, wk, hp, hd) ==
  LET live == Live(it, hp, hd)
  IN  /\ item' = [i \in Items |->
                    IF i \in live THEN it[i]
                    ELSE IF it[i].task \in Queued
                    THEN [Blank EXCEPT !.task = it[i].task]
                    ELSE Blank]
      /\ weak' = [c \in Chunk |-> IF wk[c] \in live THEN wk[c] ELSE NoItem]
      /\ heap' = hp
      /\ held' = hd

Unused == {i \in Items : item[i].task = "none"} \ Live(item, heap, held)

(* PriorityCache::insert, under its own mutex: push, add the size, then    *)
(* pop until the total fits.  V is the set of items popped.  A pop gives   *)
(* back buffer->size(), or the promised size while there is no buffer.     *)
Weight(x) == IF x.buf = None THEN x.size ELSE x.buf
WeightOf(it, S) == MapThenSumSet(LAMBDA i : Weight(it[i]), S)

Pops(it, hp, total, V) ==
  /\ total - WeightOf(it, V) \in 0 .. MaxCache
  /\ V # {} => \E v \in V : total - WeightOf(it, V \ {v}) > MaxCache

(* The loop in insert does not look for an empty heap: when nothing fits,  *)
(* it reads the top of an empty heap and the process dies.                 *)
Overruns(it, hp, total) == \A V \in SUBSET hp : ~Pops(it, hp, total, V)

Restart ==
  /\ weak' = [c \in Chunk |-> NoItem]
  /\ heap' = {}
  /\ cacheSize' = 0
  /\ item' = [i \in Items |-> Blank]
  /\ rd' = [r \in Readers |-> Idle]
  /\ held' = [r \in Readers |-> {}]
  /\ mtx' = TRUE

(* Put the new item i for chunk c, with fields x, in the cache and in      *)
(* m_buffers; reader r's pointers become own; the reader goes on as in.    *)
Publish(r, i, c, x, total, own, in) ==
  LET it == [item EXCEPT ![i] = x]
      hp == heap \cup {i}
  IN  \/ \E V \in SUBSET hp :
           /\ Pops(it, hp, total, V)
           /\ cacheSize' = total - WeightOf(it, V)
           /\ rd' = [rd EXCEPT ![r] = in]
           /\ Settle(it, [weak EXCEPT ![c] = i], hp \ V,
                     [held EXCEPT ![r] = own])
           /\ UNCHANGED mtx
      \/ Overruns(it, hp, total) /\ Restart

-----------------------------------------------------------------------------
(* getFromCloud, one reader.                                               *)

ChunkAt(r) == ChunkNumber(rd[r].off) + (IF rd[r].second THEN 1 ELSE 0)
Spills(r)  == SpillsOver(rd[r].off, rd[r].size)

(* The state after the current chunk was copied or found missing: on to    *)
(* the second chunk, looked up only if the first was copied, or to the     *)
(* chunks wanted ahead of time.                                            *)
NextChunk(r, x) ==
  IF ~x.second /\ Spills(r)
  THEN IF x.have
       THEN [x EXCEPT !.pc = "look", !.second = TRUE, !.cur = NoItem]
       ELSE [x EXCEPT !.pc = "ahead", !.cur = NoItem,
                      !.need = Append(@, ChunkAt(r) + 1)]
  ELSE [x EXCEPT !.pc = "ahead", !.cur = NoItem]

Missing(r) == NextChunk(r, [rd[r] EXCEPT !.need = Append(@, ChunkAt(r))])

(* A pointer local to the second look-up dies with it, and so does one     *)
(* that came from the disk; the first look-up's lives until Insert.        *)
Release(r) == IF rd[r].second \/ rd[r].cached
              THEN held[r] \ {rd[r].cur} ELSE held[r]

Return(r) == /\ rd' = [rd EXCEPT ![r] = Idle]
             /\ Settle(item, weak, heap, [held EXCEPT ![r] = {}])

StartRead(r) ==
  /\ rd[r].pc = "idle"
  /\ \E q \in Requests :
       rd' = [rd EXCEPT ![r] = [Idle EXCEPT !.pc = "begin", !.off = q.off,
                                   !.size = Clamp(q.off, q.size)]]
  /\ UNCHANGED <<weak, heap, cacheSize, item, held, mtx, disk>>

(* m_event.wait(); create_heap_handles; m_event.signal().                  *)
Enter(r) ==
  /\ rd[r].pc = "begin" /\ mtx
  /\ rd' = [rd EXCEPT ![r].pc = "look"]
  /\ UNCHANGED <<weak, heap, cacheSize, item, held, mtx, disk>>

(* Variant: a null buffer is not waited for.                               *)
LookNoWait(r) ==
  LET i == weak[ChunkAt(r)]
  IN  /\ rd[r].pc = "look"
      /\ IF i = NoItem
         THEN rd' = [rd EXCEPT ![r].pc = "probe"] /\ UNCHANGED held
         ELSE /\ rd' = [rd EXCEPT ![r].cur = i, ![r].cached = FALSE,
                          ![r].pc = "eval"]
              /\ held' = [held EXCEPT ![r] = @ \cup {i}]
      /\ UNCHANGED <<weak, heap, cacheSize, item, mtx, disk>>

(* Variant: the reader uses the item without a shared_ptr of its own.      *)
LookUnowned(r) ==
  LET i == weak[ChunkAt(r)]
  IN  /\ rd[r].pc = "look"
      /\ IF i = NoItem
         THEN rd' = [rd EXCEPT ![r].pc = "probe"]
         ELSE rd' = [rd EXCEPT ![r].cur = i, ![r].cached = FALSE,
                      ![r].pc = IF item[i].buf = None THEN "wait" ELSE "eval"]
      /\ UNCHANGED <<weak, heap, cacheSize, item, held, mtx, disk>>

(* m_buffers->at(chunk).lock()                                             *)
Look(r) ==
  LET i == weak[ChunkAt(r)]
  IN  /\ rd[r].pc = "look"
      /\ IF i = NoItem
         THEN /\ rd' = [rd EXCEPT ![r].pc = "probe"]
              /\ UNCHANGED held
         ELSE /\ rd' = [rd EXCEPT ![r].cur = i, ![r].cached = FALSE,
                          ![r].pc = IF item[i].buf \in {None, 0}
                                    THEN "wait" ELSE "eval"]
              /\ held' = [held EXCEPT ![r] = @ \cup {i}]
      /\ UNCHANGED <<weak, heap, cacheSize, item, mtx, disk>>

(* item->event.wait(), then item->event.signal() for the next waiter.      *)
Wait(r) ==
  /\ rd[r].pc = "wait" /\ item[rd[r].cur].token
  /\ item' = [item EXCEPT ![rd[r].cur].token = FALSE]
  /\ rd' = [rd EXCEPT ![r].pc = "relay"]
  /\ UNCHANGED <<weak, heap, cacheSize, held, mtx, disk>>

(* Variant: the waiter keeps the signal.                                   *)
RelayForgets(r) ==
  /\ rd[r].pc = "relay"
  /\ rd' = [rd EXCEPT ![r].pc = "eval"]
  /\ UNCHANGED <<weak, heap, cacheSize, item, held, mtx, disk>>

Relay(r) ==
  /\ rd[r].pc = "relay"
  /\ item' = [item EXCEPT ![rd[r].cur].token = TRUE]
  /\ rd' = [rd EXCEPT ![r].pc = "eval"]
  /\ UNCHANGED <<weak, heap, cacheSize, held, mtx, disk>>

Bad(x) == x.invalid \/ ~Matches(x.buf)

(* A 404 ends the read with a null buffer.                                 *)
EvalDeleted(r) ==
  /\ rd[r].pc = "eval"
  /\ Bad(item[rd[r].cur]) /\ item[rd[r].cur].deleted
  /\ Return(r)
  /\ UNCHANGED <<cacheSize, mtx, disk>>

(* Variant: setIsInvalid(), which frees the buffer, for isInvalid = true.  *)
EvalStaleFrees(r) ==
  /\ rd[r].pc = "eval"
  /\ Bad(item[rd[r].cur]) /\ ~item[rd[r].cur].deleted
  /\ rd' = [rd EXCEPT ![r] = Missing(r)]
  /\ Settle([item EXCEPT ![rd[r].cur].invalid = TRUE,
                         ![rd[r].cur].buf = None], weak, heap,
            [held EXCEPT ![r] = Release(r)])
  /\ UNCHANGED <<cacheSize, mtx, disk>>

EvalStale(r) ==
  /\ rd[r].pc = "eval"
  /\ Bad(item[rd[r].cur]) /\ ~item[rd[r].cur].deleted
  /\ rd' = [rd EXCEPT ![r] = Missing(r)]
  /\ Settle([item EXCEPT ![rd[r].cur].invalid = TRUE], weak, heap,
            [held EXCEPT ![r] = Release(r)])
  /\ UNCHANGED <<cacheSize, mtx, disk>>

EvalGood(r) ==
  /\ rd[r].pc = "eval" /\ ~Bad(item[rd[r].cur])
  /\ rd' = [rd EXCEPT ![r].pc = "copy"]
  /\ UNCHANGED <<weak, heap, cacheSize, item, held, mtx, disk>>

(* The memcpy from the item's buffer into the reply.                       *)
Copy(r) ==
  /\ rd[r].pc = "copy"
  /\ rd' = [rd EXCEPT ![r] = NextChunk(r, [rd[r] EXCEPT !.have = TRUE])]
  /\ Settle(item, weak, heap, [held EXCEPT ![r] = Release(r)])
  /\ UNCHANGED <<cacheSize, mtx, disk>>

(* getFromCache, run without m_event.                                      *)
ProbeMiss(r) ==
  /\ rd[r].pc = "probe"
  /\ OpenFails \/ disk[ChunkAt(r)] = None \/ ~Matches(disk[ChunkAt(r)])
  /\ rd' = [rd EXCEPT ![r] = Missing(r)]
  /\ UNCHANGED <<weak, heap, cacheSize, item, held, mtx, disk>>

ProbeHit(r) ==
  LET c == ChunkAt(r)
      n == disk[c]
  IN  /\ rd[r].pc = "probe"
      /\ n # None /\ Matches(n)
      /\ \E i \in Unused :
           Publish(r, i, c, [Blank EXCEPT !.chunk = c, !.buf = n, !.size = n],
                      cacheSize + n, held[r] \cup {i},
                      [rd[r] EXCEPT !.pc = "copy", !.cur = i, !.cached = TRUE])
      /\ UNCHANGED disk

(* The file goes between is_regular_file and file_size, which throws; the  *)
(* second exception of one read leaves FileIO::read with an error.         *)
Unwind(x) == IF x.retried THEN Idle ELSE [x EXCEPT !.pc = "thrown"]

ProbeThrows(r) ==
  /\ Evicts /\ rd[r].pc = "probe" /\ disk[ChunkAt(r)] # None
  /\ disk' = [disk EXCEPT ![ChunkAt(r)] = None]
  /\ rd' = [rd EXCEPT ![r] = Unwind(@)]
  /\ Settle(item, weak, heap, [held EXCEPT ![r] = {}])
  /\ UNCHANGED <<cacheSize, mtx>>

(* FileIO::read's handler signals m_event, held or not, and tries again.   *)
Retry(r) ==
  /\ rd[r].pc = "thrown"
  /\ mtx' = TRUE
  /\ rd' = [rd EXCEPT ![r] = [Idle EXCEPT !.pc = "begin", !.retried = TRUE,
                                !.off = rd[r].off, !.size = rd[r].size]]
  /\ UNCHANGED <<weak, heap, cacheSize, item, held, disk>>

(* The chunks asked for ahead of the reader.  The last chunk goes with a   *)
(* read at offset 0, whatever download_last_chunk_at_the_beginning says.   *)
(* The test for a file on disk looks at the first of the chunks only.      *)
LastChunkAhead(off) == IF off = 0 THEN <<LastChunk>> ELSE <<>>

AheadChunks(r) ==
  LET first == ChunkNumber(rd[r].off) + (IF Spills(r) THEN 2 ELSE 1)
      count == Cardinality({k \in 1 .. ReadAhead :
                              (first + k - 1) * BlockSize < FileSize})
  IN  IF /\ rd[r].off % BlockSize \in AheadWindow
         /\ count > 0 /\ disk[first] = None
      THEN [k \in 1 .. count |-> first + k - 1]
      ELSE <<>>

Ahead(r) ==
  LET need == rd[r].need \o LastChunkAhead(rd[r].off) \o AheadChunks(r)
  IN  /\ rd[r].pc = "ahead"
      /\ IF need = <<>>
         THEN Return(r)
         ELSE /\ rd' = [rd EXCEPT ![r].need = need, ![r].pc = "lock",
                                  ![r].done = (rd[r].need = <<>>)]
              /\ UNCHANGED <<item, weak, heap, held>>
      /\ UNCHANGED <<cacheSize, mtx, disk>>

(* Variant: the loop runs without waiting for m_event.                     *)
LockNoWait(r) ==
  /\ rd[r].pc = "lock"
  /\ mtx' = FALSE
  /\ rd' = [rd EXCEPT ![r].pc = "insert"]
  /\ UNCHANGED <<weak, heap, cacheSize, item, held, disk>>

Lock(r) ==
  /\ rd[r].pc = "lock" /\ mtx
  /\ mtx' = FALSE
  /\ rd' = [rd EXCEPT ![r].pc = "insert"]
  /\ UNCHANGED <<weak, heap, cacheSize, item, held, disk>>

(* Variant: no second look under the lock.                                 *)
WantedAlways(r) == rd[r].need # <<>>

(* One turn of the loop over chunksToDownload, under m_event.              *)
Wanted(r) == LET i == weak[Head(rd[r].need)]
             IN  i # NoItem => item[i].invalid

Found(r) == {weak[Head(rd[r].need)]} \ {NoItem}

InsertSkip(r) ==
  /\ rd[r].pc = "insert" /\ rd[r].need # <<>> /\ ~Wanted(r)
  /\ rd' = [rd EXCEPT ![r].need = Tail(@)]
  /\ Settle(item, weak, heap, [held EXCEPT ![r] = Found(r)])
  /\ UNCHANGED <<cacheSize, mtx, disk>>

OnDisk(c) == disk[c] # None /\ (disk[c] = BlockSize \/ c = ChunkNumber(FileSize))

Insert(r) ==
  /\ rd[r].pc = "insert" /\ rd[r].need # <<>> /\ Wanted(r)
  /\ LET c == Head(rd[r].need)
     IN  \E i \in Unused :
           Publish(r, i, c,
                [Blank EXCEPT !.chunk = c, !.size = ChunkLen(c),
                              !.task = IF OnDisk(c) THEN "read" ELSE "fetch"],
                cacheSize + ChunkLen(c), Found(r),
                [rd[r] EXCEPT !.need = Tail(@)])
  /\ UNCHANGED disk

(* The file goes between exists and file_size: the item is published but   *)
(* no task will ever fill it.                                              *)
InsertThrows(r) ==
  /\ Evicts
  /\ rd[r].pc = "insert" /\ rd[r].need # <<>> /\ Wanted(r)
  /\ LET c == Head(rd[r].need)
     IN  /\ disk[c] # None
         /\ disk' = [disk EXCEPT ![c] = None]
         /\ \E i \in Unused :
              Publish(r, i, c,
                   [Blank EXCEPT !.chunk = c, !.size = ChunkLen(c)],
                   cacheSize + ChunkLen(c), {}, Unwind(rd[r]))

(* m_event.signal(); return the buffer, or start over.                     *)
Unlock(r) ==
  /\ rd[r].pc = "insert" /\ rd[r].need = <<>>
  /\ mtx' = TRUE
  /\ rd' = [rd EXCEPT ![r] =
              IF rd[r].done THEN Idle
              ELSE [Idle EXCEPT !.pc = "begin", !.retried = rd[r].retried,
                                !.off = rd[r].off, !.size = rd[r].size]]
  /\ Settle(item, weak, heap, [held EXCEPT ![r] = {}])
  /\ UNCHANGED <<cacheSize, disk>>

-----------------------------------------------------------------------------
(* The thread pools.                                                       *)

Busy(T) == Cardinality({j \in Items : item[j].task \in T})

Slot(t) == IF SharedPool THEN Busy({"reading", "fetching"}) < Threads
                         ELSE Busy({t}) < Threads

(* A task's step on item i that leaves the fields x.                       *)
Step(i, x) == /\ Settle([item EXCEPT ![i] = x], weak, heap, held)
              /\ UNCHANGED <<cacheSize, rd, mtx>>

(* A task whose item is gone does nothing.                                 *)
Expire(i) ==
  /\ item[i].task \in Queued /\ i \notin Live(item, heap, held)
  /\ Step(i, Blank) /\ UNCHANGED disk

StartTask(i, from, to) ==
  /\ item[i].task = from /\ i \in Live(item, heap, held) /\ Slot(to)
  /\ Step(i, [item[i] EXCEPT !.task = to, !.backoff = FALSE])
  /\ UNCHANGED disk

ReadStart(i)  == StartTask(i, "read", "reading")
FetchStart(i) == StartTask(i, "fetch", "fetching")

(* Variant: the bytes are there and nobody is told.                        *)
ReadOkMute(i) ==
  /\ item[i].task = "reading" /\ disk[item[i].chunk] # None
  /\ Step(i, [item[i] EXCEPT !.task = "none", !.buf = disk[item[i].chunk]])
  /\ UNCHANGED disk

ReadOk(i) ==
  /\ item[i].task = "reading" /\ disk[item[i].chunk] # None
  /\ Step(i, [item[i] EXCEPT !.task = "none", !.token = TRUE,
                             !.buf = disk[item[i].chunk]])
  /\ UNCHANGED disk

(* Variant: the failure is signalled but not recorded.                     *)
ReadFailsSilent(i) ==
  /\ OpenFails
  /\ item[i].task = "reading" /\ disk[item[i].chunk] # None
  /\ Step(i, [item[i] EXCEPT !.task = "none", !.token = TRUE])
  /\ UNCHANGED disk

ReadFails(i) ==
  /\ OpenFails
  /\ item[i].task = "reading" /\ disk[item[i].chunk] # None
  /\ Step(i, [item[i] EXCEPT !.task = "none", !.token = TRUE, !.invalid = TRUE])
  /\ UNCHANGED disk

(* fs::permissions on a file that is gone throws out of the pool thread.   *)
ReadAborts(i) ==
  /\ item[i].task = "reading" /\ disk[item[i].chunk] = None
  /\ Restart /\ UNCHANGED disk

(* FileIO::download: buffer, event, then the deferred write to disk.       *)
FetchOk(i) ==
  /\ item[i].task = "fetching"
  /\ \E n \in Bodies[item[i].chunk] :
       Step(i, [item[i] EXCEPT !.task = "write", !.token = TRUE, !.buf = n])
  /\ UNCHANGED disk

(* A 5xx, a 401, a 416: sleep and try again with a larger backoff.  (A     *)
(* request that throws is tried again with nothing changed.)               *)
FetchError(i) ==
  /\ item[i].task = "fetching"
  /\ Step(i, [item[i] EXCEPT !.backoff = TRUE])
  /\ UNCHANGED disk

(* Variant: setIsInvalid clears the size with or without a buffer.         *)
Fetch404Unsized(i) ==
  /\ Gone /\ item[i].task = "fetching"
  /\ Step(i, IF item[i].backoff
             THEN [item[i] EXCEPT !.task = "none", !.token = TRUE, !.size = 0,
                                  !.invalid = TRUE, !.deleted = TRUE]
             ELSE [item[i] EXCEPT !.backoff = TRUE])
  /\ UNCHANGED disk

Fetch404(i) ==
  /\ Gone /\ item[i].task = "fetching"
  /\ Step(i, IF item[i].backoff
             THEN [item[i] EXCEPT !.task = "none", !.token = TRUE,
                                  !.invalid = TRUE, !.deleted = TRUE]
             ELSE [item[i] EXCEPT !.backoff = TRUE])
  /\ UNCHANGED disk

(* The one thread of WritePool.                                            *)
WriteStart(i) ==
  /\ item[i].task = "write" /\ i \in Live(item, heap, held)
  /\ Busy({"writing"}) = 0
  /\ IF item[i].invalid
     THEN Step(i, [item[i] EXCEPT !.task = "none"]) /\ UNCHANGED disk
     ELSE /\ Step(i, [item[i] EXCEPT !.task = "writing"])
          /\ \E n \in Torn : disk' = [disk EXCEPT ![item[i].chunk] = n]

WriteEnd(i) ==
  /\ item[i].task = "writing" /\ disk[item[i].chunk] # None
  /\ Step(i, [item[i] EXCEPT !.task = "none"])
  /\ disk' = [disk EXCEPT ![item[i].chunk] = item[i].buf]

(* fs::permissions on the file just written, deleted meanwhile.            *)
WriteAborts(i) ==
  /\ item[i].task = "writing" /\ disk[item[i].chunk] = None
  /\ Restart /\ UNCHANGED disk

-----------------------------------------------------------------------------
(* The environment.                                                        *)

EvictFile(c) ==
  /\ Evicts /\ disk[c] # None
  /\ disk' = [disk EXCEPT ![c] = None]
  /\ UNCHANGED <<weak, heap, cacheSize, item, rd, held, mtx>>

Crash == Crashes /\ Restart /\ UNCHANGED disk

ReaderStep(r) ==
  \/ Enter(r) \/ Look(r) \/ Wait(r) \/ Relay(r)
  \/ EvalDeleted(r) \/ EvalStale(r) \/ EvalGood(r) \/ Copy(r)
  \/ ProbeMiss(r) \/ ProbeHit(r) \/ Ahead(r)
  \/ Lock(r) \/ InsertSkip(r) \/ Insert(r) \/ Unlock(r) \/ Retry(r)

TaskStep(i) ==
  \/ Expire(i) \/ ReadStart(i) \/ FetchStart(i)
  \/ ReadOk(i) \/ ReadFails(i) \/ ReadAborts(i)
  \/ FetchOk(i) \/ FetchError(i) \/ Fetch404(i)
  \/ WriteStart(i) \/ WriteEnd(i) \/ WriteAborts(i)

Next ==
  \/ \E r \in Readers : \/ StartRead(r) \/ ReaderStep(r)
                        \/ ProbeThrows(r) \/ InsertThrows(r)
  \/ \E i \in Items : TaskStep(i)
  \/ \E c \in Chunk : EvictFile(c)
  \/ Crash

Spec == Init /\ [][Next]_vars

(* A thread that can run does; a mutex and a semaphore are not withheld    *)
(* from one thread for ever; a download the server can serve is served in  *)
(* the end (download retries without limit).  An item has one task at a    *)
(* time, so its steps need one fairness condition.                         *)
TaskProgress(i) == \/ Expire(i) \/ ReadStart(i) \/ FetchStart(i)
                   \/ ReadOk(i) \/ FetchOk(i) \/ WriteStart(i) \/ WriteEnd(i)

Fairness == /\ \A r \in Readers : SF_vars(ReaderStep(r))
            /\ \A i \in Items : SF_vars(TaskProgress(i))

FairSpec == Spec /\ Fairness
-----------------------------------------------------------------------------
(* Properties.                                                             *)

ItemType == [chunk : Chunk, buf : Nat \cup {None}, size : Nat,
             invalid : BOOLEAN, deleted : BOOLEAN, token : BOOLEAN,
             task : Queued \cup Running \cup {"none"}, backoff : BOOLEAN]

PC == {"idle", "begin", "look", "wait", "relay", "eval", "copy", "probe",
       "ahead", "lock", "insert", "thrown"}

ReaderType == [pc : PC, off : 0 .. (FileSize - 1), size : Nat,
               second : BOOLEAN, have : BOOLEAN, cur : Items \cup {NoItem},
               cached : BOOLEAN, need : Seq(Chunk), done : BOOLEAN,
               retried : BOOLEAN]

(* Every variable has the type its C++ declaration gives it, and every     *)
(* chunk number used as an index of m_buffers is inside the vector.        *)
TypeOK ==
  /\ weak \in [Chunk -> Items \cup {NoItem}]
  /\ heap \subseteq Items
  /\ cacheSize \in Nat
  /\ item \in [Items -> ItemType]
  /\ rd \in [Readers -> ReaderType]
  /\ held \in [Readers -> SUBSET Items]
  /\ mtx \in BOOLEAN
  /\ disk \in [Chunk -> Nat \cup {None}]

Relaying(i) == \E r \in Readers : rd[r].pc = "relay" /\ rd[r].cur = i

(* The auto-reset event of a buffer works as a latch: a reader that waits  *)
(* on it (getFromCloud: event.wait) still has a pool task to come that     *)
(* signals it, or finds the signal there, or some reader that took the     *)
(* signal is about to give it back.                                        *)
NoLostWakeup ==
  \A r \in Readers :
    rd[r].pc = "wait" =>
      LET i == rd[r].cur
      IN  item[i].task \in Pending \/ item[i].token \/ Relaying(i)

(* After the wait, the item either is invalid or has a buffer: the code    *)
(* dereferences item->buffer without another test (FileIO.cpp, the         *)
(* bufferMatchesExpectedBufferSize calls of getFromCloud).                 *)
NoNullDeref ==
  \A r \in Readers :
    rd[r].pc = "eval" =>
      item[rd[r].cur].invalid \/ item[rd[r].cur].buf # None

(* The inductive invariant behind the two properties above.  Open: the     *)
(* latch of i is or will be open.  Settled: what the latch waits for.      *)
Open(i) == item[i].task \in Pending \/ item[i].token \/ Relaying(i)
Settled(i) == item[i].buf # None \/ item[i].invalid

RequestInv ==
  \A r \in Readers :
    /\ rd[r].off + rd[r].size <= FileSize
    /\ rd[r].second => Spills(r)

OwnInv ==
  \A r \in Readers :
    rd[r].pc \in {"wait", "relay", "eval", "copy"} => rd[r].cur \in held[r]

WeakInv ==
  \A c \in Chunk : weak[c] # NoItem => weak[c] \in Live(item, heap, held)

SettledInv ==
  /\ \A i \in Items : item[i].token => Settled(i)
  /\ \A r \in Readers : rd[r].pc \in {"relay", "eval"} => Settled(rd[r].cur)

LatchInv ==
  \A i \in Live(item, heap, held) : item[i].buf \in {None, 0} => Open(i)

(* While a reader copies, its buffer is there and long enough for the      *)
(* bytes taken from it, and they fit in the reply.                         *)
CopyFrom(r) == IF rd[r].second THEN 0 ELSE rd[r].off % BlockSize

CopyLen(r) == IF rd[r].second
              THEN (rd[r].off + rd[r].size) % BlockSize
              ELSE IF Spills(r) THEN item[rd[r].cur].buf - CopyFrom(r)
                                ELSE rd[r].size

CopySafe ==
  \A r \in Readers :
    rd[r].pc = "copy" =>
      /\ item[rd[r].cur].buf # None
      /\ CopyLen(r) \in 0 .. rd[r].size
      /\ CopyFrom(r) + CopyLen(r) <= item[rd[r].cur].buf

(* "assert((start+size2) <= item->buffer->size())" in getFromCloud, for a  *)
(* read inside one chunk.                                                  *)
AssertHolds ==
  \A r \in Readers :
    rd[r].pc = "copy" /\ ~rd[r].second /\ ~Spills(r) =>
      CopyFrom(r) + rd[r].size <= item[rd[r].cur].buf

(* cacheSize is the sum of what popping each item of the heap gives back,  *)
(* so the loop in PriorityCache::insert ends before the heap is empty.     *)
CacheAccount == cacheSize = WeightOf(item, heap)

(* Two readers that miss the same chunk download it once.                  *)
Fetches == {i \in Live(item, heap, held) : item[i].task \in {"fetch", "fetching"}}
OneFetchPerChunk ==
  \A i, j \in Fetches : item[i].chunk = item[j].chunk => i = j

(* m_event keeps the insertion loop to one reader and is not lost, with two *)
(* exceptions: the handler of FileIO::read signals it though another       *)
(* reader is in the loop, and an exception in the loop leaves it taken.    *)
Inside == {r \in Readers : rd[r].pc = "insert"}
Apart  == (\A r, s \in Inside : r = s) /\ (mtx => Inside = {})
Lost   == ~mtx /\ Inside = {}

EventKept ==
  [][/\ Apart => Apart' \/ \E r \in Readers : Retry(r) /\ Inside # {}
     /\ Lost' => Lost \/ \E r \in Readers : InsertThrows(r)]_vars

(* A buffer a reader owns is never replaced, shrunk or freed under it.     *)
BufferStable ==
  [][\A r \in Readers : \A i \in held[r] \cap held'[r] :
       item[i].buf # None => item'[i].buf = item[i].buf]_vars

(* A buffer is added to the cache, and one is pushed out of it.            *)
PushesOut ==
  \E r \in Readers : /\ Insert(r) \/ ProbeHit(r)
                     /\ Cardinality(heap') <= Cardinality(heap)

(* Every read is answered, with data or with an error - unless there is no *)
(* end to the chunks that push each other out of the cache: getFromCloud   *)
(* starts over until it finds all of its chunks in memory.                 *)
ReadReturns ==
  \/ []<><<PushesOut>>_vars
  \/ \A r \in Readers : rd[r].pc # "idle" ~> rd[r].pc = "idle"
=============================================================================
