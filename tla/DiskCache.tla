----------------------------- MODULE DiskCache -----------------------------
(***************************************************************************)
(* The cache of chunk files on disk: FileIO's incrementCacheSize and       *)
(* deleteFilesFromCacheOnDisk, the two insert...ToCacheDatabase, the       *)
(* WritePool's tail of download, the copying of an uploaded file into the  *)
(* cache, and checkCacheSize at start-up.                                  *)
(*                                                                         *)
(* Every chunk file has size one.  FileCacheDB is a set of names: two      *)
(* documents with one name act as one, and the order of the eviction       *)
(* cursor (mtime, in seconds) is left open.                                *)
(***************************************************************************)
EXTENDS Integers, Sequences, FiniteSets, SequencesExt

CONSTANTS
  Chunks,          \* chunk files that readers download
  Parts,           \* for each upload task, the chunk files it copies
  MaxCacheOnDisk,  \* in chunks
  Batch,           \* documents to one request: 100 in the code
  MaxCrashes,      \* bound: how often the process ends
  MaxWrites,       \* bound: how many downloads are written
  Throws           \* the database may throw, once in a process

Movers  == DOMAIN Parts
Threads == {"write", "scan"} \cup Movers
Files   == Chunks \cup UNION {ToSet(Parts[u]) : u \in Movers}
NoFile  == "none"

ASSUME DiskCacheAssumption ==
  /\ MaxCacheOnDisk \in Nat /\ Batch \in Nat \ {0} /\ MaxCrashes \in Nat
  /\ MaxWrites \in Nat /\ Throws \in BOOLEAN
  /\ \A u \in Movers : Parts[u] \in Seq(Files) /\ Parts[u] # <<>>
  /\ NoFile \notin Files /\ Movers \cap {"write", "scan"} = {}

VARIABLES
  disk,       \* the files of <cache>/download
  db,         \* the names in FileCacheDB
  cacheSize,  \* FileIO::cacheSize
  mutex,      \* who holds deleteCacheMutex: a set of at most one thread
  th,         \* the threads
  dir,        \* checkCacheSize: what the iterator started with, what it has
              \* visited, the documents not sent yet
  hist        \* crashes, writes; what went wrong

vars == <<disk, db, cacheSize, mutex, th, dir, hist>>

Idle == [pc |-> "idle", file |-> NoFile, add |-> 0, ret |-> "idle",
         todo |-> {}, del |-> {}, old |-> 0, work |-> 0, next |-> 1]

(* main starts the scan and the file system at the same time.              *)
Started == [t \in Threads |-> IF t = "scan" THEN [Idle EXCEPT !.pc = "scan"]
                                            ELSE Idle]
Opened(files) == [start |-> files, seen |-> {}, pend |-> {}]

Init ==
  /\ disk = {} /\ db = {} /\ cacheSize = 0 /\ mutex = {}
  /\ th = Started /\ dir = Opened({})
  /\ hist = [up |-> TRUE, crashes |-> 0, writes |-> 0,
             early |-> FALSE, threw |-> FALSE, collided |-> FALSE]

(* disk and FileCacheDB are all that outlives the process.                 *)
Die == /\ hist' = [hist EXCEPT !.up = FALSE]
       /\ cacheSize' = 0 /\ mutex' = {} /\ th' = Started /\ dir' = Opened({})
       /\ UNCHANGED <<disk, db>>

Go(t, pc)   == th' = [th EXCEPT ![t].pc = pc]
At(t, pc)   == hist.up /\ th[t].pc = pc
AtLeast0(n) == IF n < 0 THEN 0 ELSE n

(* Back to the caller, its locals gone.                                    *)
Return(t) == th' = [th EXCEPT ![t] = [Idle EXCEPT !.pc = th[t].ret,
                                        !.file = th[t].file, !.next = th[t].next]]

(* incrementCacheSize(n), and then ret.                                    *)
Increment(t, n, ret) ==
  th' = [th EXCEPT ![t].pc = "count", ![t].add = n, ![t].ret = ret]

-----------------------------------------------------------------------------
(* incrementCacheSize: the CAS loop, then try_lock if the cache is full.   *)

Count(t) ==
  /\ At(t, "count")
  /\ LET new == AtLeast0(cacheSize + th[t].add) IN
     /\ cacheSize' = new
     /\ IF new > MaxCacheOnDisk THEN Go(t, "try") ELSE Return(t)
  /\ UNCHANGED <<disk, db, mutex, dir, hist>>

(* Variant: a second thread is let in.                                     *)
TryLockBlind(t) ==
  /\ At(t, "try")
  /\ mutex' = mutex \cup {t} /\ Go(t, "load")
  /\ UNCHANGED <<disk, db, cacheSize, dir, hist>>

TryLock(t) ==
  /\ At(t, "try")
  /\ IF mutex = {} THEN mutex' = {t} /\ Go(t, "load")
                   ELSE UNCHANGED mutex /\ Return(t)
  /\ UNCHANGED <<disk, db, cacheSize, dir, hist>>

-----------------------------------------------------------------------------
(* deleteFilesFromCacheOnDisk, by the thread that holds the mutex.         *)

BelowTarget(n) == 10 * n < 9 * MaxCacheOnDisk

Load(t) ==
  /\ At(t, "load")
  /\ th' = [th EXCEPT ![t].old = cacheSize, ![t].work = cacheSize,
                      ![t].pc = "find"]
  /\ UNCHANGED <<disk, db, cacheSize, mutex, dir, hist>>

Find(t) ==
  /\ At(t, "find")
  /\ th' = [th EXCEPT ![t].todo = db, ![t].del = {},
                      ![t].pc = IF db = {} THEN "flush" ELSE "unlink"]
  /\ UNCHANGED <<disk, db, cacheSize, mutex, dir, hist>>

(* The target is looked at after a file is deleted, not before.            *)
Unlink(t) ==
  /\ At(t, "unlink")
  /\ \E f \in th[t].todo :
       LET todo == th[t].todo \ {f}
           del  == th[t].del \cup {f}
           work == IF f \in disk THEN th[t].work - 1 ELSE th[t].work
       IN /\ disk' = disk \ {f}
          /\ th' = [th EXCEPT ![t].todo = todo, ![t].del = del, ![t].work = work,
                      ![t].pc = IF Cardinality(del) = Batch THEN "batch"
                                ELSE IF BelowTarget(work) \/ todo = {} THEN "flush"
                                ELSE "unlink"]
  /\ hist' = [hist EXCEPT !.early = @ \/ th["scan"].pc # "done"]
  /\ UNCHANGED <<db, cacheSize, mutex, dir>>

(* Variant: the loop goes on with the size it had.                         *)
BatchCountStale(t) ==
  /\ At(t, "batch")
  /\ cacheSize' = AtLeast0(cacheSize + th[t].work - th[t].old)
  /\ Go(t, "batchdelete")
  /\ UNCHANGED <<disk, db, mutex, dir, hist>>

(* Its try_lock finds the mutex taken, by itself.                          *)
BatchCount(t) ==
  /\ At(t, "batch")
  /\ LET new == AtLeast0(cacheSize + th[t].work - th[t].old) IN
     /\ cacheSize' = new
     /\ th' = [th EXCEPT ![t].old = new, ![t].work = new, ![t].pc = "batchdelete"]
  /\ UNCHANGED <<disk, db, mutex, dir, hist>>

BatchDelete(t) ==
  /\ At(t, "batchdelete")
  /\ db' = db \ th[t].del
  /\ th' = [th EXCEPT ![t].del = {},
              ![t].pc = IF BelowTarget(th[t].work) \/ th[t].todo = {}
                        THEN "flush" ELSE "unlink"]
  /\ UNCHANGED <<disk, cacheSize, mutex, dir, hist>>

Flush(t) ==
  /\ At(t, "flush")
  /\ db' = db \ th[t].del
  /\ th' = [th EXCEPT ![t].del = {}, ![t].pc = "adjust"]
  /\ UNCHANGED <<disk, cacheSize, mutex, dir, hist>>

(* ... and all over again if that was not enough.                          *)
Adjust(t) ==
  /\ At(t, "adjust")
  /\ LET new == AtLeast0(cacheSize + th[t].work - th[t].old) IN
     /\ cacheSize' = new
     /\ Go(t, IF new > MaxCacheOnDisk THEN "load" ELSE "unlock")
  /\ UNCHANGED <<disk, db, mutex, dir, hist>>

Unlock(t) ==
  /\ At(t, "unlock")
  /\ mutex' = {}
  /\ Return(t)
  /\ UNCHANGED <<disk, db, cacheSize, dir, hist>>

(* incrementCacheSize catches: what was deleted is not subtracted.         *)
EvictThrows(t) ==
  /\ Throws /\ ~hist.threw
  /\ th[t].pc \in {"find", "unlink", "batchdelete", "flush"} /\ hist.up
  /\ mutex' = {}
  /\ Return(t)
  /\ hist' = [hist EXCEPT !.threw = TRUE]
  /\ UNCHANGED <<disk, db, cacheSize, dir>>

-----------------------------------------------------------------------------
(* The WritePool's one thread, at the end of download.                     *)

(* Its document is about to be deleted by an eviction.                     *)
Leaving(f) == \E t \in Threads : f \in th[t].del

Write(f) ==
  /\ At("write", "idle") /\ hist.writes < MaxWrites
  /\ disk' = disk \cup {f}
  /\ th' = [th EXCEPT !["write"].pc = "permissions", !["write"].file = f]
  /\ hist' = [hist EXCEPT !.writes = @ + 1, !.collided = @ \/ Leaving(f)]
  /\ UNCHANGED <<db, cacheSize, mutex, dir>>

Doc ==
  /\ At("write", "permissions") /\ th["write"].file \in disk
  /\ db' = db \cup {th["write"].file}
  /\ th' = [th EXCEPT !["write"] =
              [Idle EXCEPT !.pc = "count", !.add = 1, !.ret = "idle"]]
  /\ UNCHANGED <<disk, cacheSize, mutex, dir, hist>>

(* fs::permissions of a file deleted meanwhile: no one catches.            *)
PermissionsThrow ==
  /\ At("write", "permissions") /\ th["write"].file \notin disk
  /\ Die

-----------------------------------------------------------------------------
(* move_files_to_download_after_finish_uploading, on an UploadPool thread. *)

Copy(u) ==
  /\ At(u, "idle")
  /\ LET f == Parts[u][th[u].next] IN
     /\ disk' = disk \cup {f}
     /\ hist' = [hist EXCEPT !.collided = @ \/ Leaving(f)]
  /\ th' = [th EXCEPT ![u].next = @ + 1,
                      ![u].pc = IF th[u].next = Len(Parts[u]) THEN "bulk" ELSE "idle"]
  /\ UNCHANGED <<db, cacheSize, mutex, dir>>

(* The requests sent before the size is counted: document i goes out with  *)
(* those before it when i, from zero, is a multiple of Batch.              *)
Sent(u)   == {Parts[u][i] : i \in 1 .. (1 + ((Len(Parts[u]) - 1) \div Batch) * Batch)}
Unsent(u) == ToSet(Parts[u]) \ Sent(u)

Bulk(u) ==
  /\ At(u, "bulk")
  /\ db' = db \cup Sent(u)
  /\ Increment(u, Len(Parts[u]), "rest")
  /\ UNCHANGED <<disk, cacheSize, mutex, dir, hist>>

(* Variant: the documents after the last full request are not sent.        *)
RestForgets(u) ==
  /\ At(u, "rest")
  /\ Go(u, "done")
  /\ UNCHANGED <<disk, db, cacheSize, mutex, dir, hist>>

Rest(u) ==
  /\ At(u, "rest")
  /\ db' = db \cup Unsent(u)
  /\ Go(u, "done")
  /\ UNCHANGED <<disk, cacheSize, mutex, dir, hist>>

(* The caller catches; so it does when a copied file is gone before its    *)
(* permissions are set.                                                    *)
MoveThrows(u) ==
  /\ Throws /\ ~hist.threw /\ hist.up
  /\ th[u].pc \in {"bulk", "rest"} \/ (th[u].pc = "idle" /\ th[u].next > 1)
  /\ Go(u, "done")
  /\ hist' = [hist EXCEPT !.threw = TRUE]
  /\ UNCHANGED <<disk, db, cacheSize, mutex, dir>>

-----------------------------------------------------------------------------
(* checkCacheSize, on a thread of its own.                                 *)

Visit(f) ==
  /\ At("scan", "scan") /\ f \in disk \ dir.seen
  /\ dir' = [dir EXCEPT !.seen = @ \cup {f}]
  /\ th' = [th EXCEPT !["scan"].pc = "exists", !["scan"].file = f]
  /\ UNCHANGED <<disk, db, cacheSize, mutex, hist>>

Measure ==
  /\ At("scan", "exists") /\ th["scan"].file \in disk
  /\ Increment("scan", 1, "look")
  /\ UNCHANGED <<disk, db, cacheSize, mutex, dir, hist>>

(* The file went between exists and permissions: main catches, and the     *)
(* scan is over.                                                           *)
ScanThrows ==
  /\ At("scan", "exists") /\ th["scan"].file \notin disk
  /\ Go("scan", "done")
  /\ hist' = [hist EXCEPT !.threw = TRUE]
  /\ UNCHANGED <<disk, db, cacheSize, mutex, dir>>

Look ==
  /\ At("scan", "look")
  /\ dir' = [dir EXCEPT !.pend = IF th["scan"].file \in db THEN @
                                 ELSE @ \cup {th["scan"].file}]
  /\ th' = [th EXCEPT !["scan"] = [Idle EXCEPT !.pc = "scan"]]
  /\ UNCHANGED <<disk, db, cacheSize, mutex, hist>>

(* Updates of documents that are there count too: any number of inserts    *)
(* may be in a request.                                                    *)
ScanBulk ==
  /\ At("scan", "scan") /\ dir.pend # {}
  /\ db' = db \cup dir.pend
  /\ dir' = [dir EXCEPT !.pend = {}]
  /\ UNCHANGED <<disk, cacheSize, mutex, th, hist>>

(* The iterator need not return files made after it was opened.            *)
ScanEnd ==
  /\ At("scan", "scan")
  /\ disk \cap dir.start \subseteq dir.seen
  /\ db' = db \cup dir.pend
  /\ Go("scan", "done")
  /\ dir' = Opened({})
  /\ UNCHANGED <<disk, cacheSize, mutex, hist>>

-----------------------------------------------------------------------------

Crash ==
  /\ hist.up /\ hist.crashes < MaxCrashes
  /\ Die

Restart ==
  /\ ~hist.up /\ hist.crashes < MaxCrashes
  /\ hist' = [hist EXCEPT !.up = TRUE, !.crashes = @ + 1, !.early = FALSE,
                          !.threw = FALSE, !.collided = FALSE]
  /\ dir' = Opened(disk)
  /\ UNCHANGED <<disk, db, cacheSize, mutex, th>>

Evict(t) == \/ Load(t) \/ Find(t) \/ Unlink(t) \/ BatchCount(t)
            \/ BatchDelete(t) \/ Flush(t) \/ Adjust(t) \/ Unlock(t)

Step(t) == Count(t) \/ TryLock(t) \/ Evict(t)

Move(u) == Copy(u) \/ Bulk(u) \/ Rest(u)

Scan == \/ \E f \in Files : Visit(f)
        \/ Measure \/ ScanThrows \/ Look \/ ScanEnd

Next ==
  \/ \E t \in Threads : Step(t) \/ EvictThrows(t)
  \/ \E f \in Chunks : Write(f)
  \/ Doc \/ PermissionsThrow
  \/ \E u \in Movers : Move(u) \/ MoveThrows(u)
  \/ Scan \/ ScanBulk
  \/ Crash \/ Restart

Spec == Init /\ [][Next]_vars

(* Every thread runs.                                                      *)
Fairness == /\ \A t \in Threads : WF_vars(Step(t))
            /\ \A u \in Movers : WF_vars(Move(u))
            /\ WF_vars(Doc \/ PermissionsThrow) /\ WF_vars(Scan)

FairSpec == Spec /\ Fairness

-----------------------------------------------------------------------------
(* Properties.                                                             *)

(* Every variable has its type; the counter is never negative.             *)
TypeOK ==
  /\ disk \subseteq Files /\ db \subseteq Files /\ cacheSize \in Nat
  /\ mutex \subseteq Threads /\ Cardinality(mutex) <= 1
  /\ \A t \in Threads : /\ th[t].file \in Files \cup {NoFile}
                        /\ th[t].todo \subseteq Files /\ th[t].del \subseteq Files
  /\ dir.seen \cup dir.pend \subseteq Files

(* What a thread has put on disk and not counted yet.                      *)
UncountedBy(t) ==
  CASE t = "write" -> IF th[t].pc \in {"permissions", "count"} THEN {th[t].file} ELSE {}
    [] t = "scan"  -> (dir.start \ dir.seen)
                      \cup (IF th[t].pc \in {"exists", "count"} THEN {th[t].file} ELSE {})
    [] OTHER       -> IF th[t].pc \in {"idle", "bulk", "count"}
                      THEN 1 .. (th[t].next - 1) ELSE {}

Uncounted == UNION {{t} \X UncountedBy(t) : t \in Threads}

(* The counter never says less than there is, so a cache that is too large *)
(* is noticed, as long as no file is evicted before the start-up scan has  *)
(* counted it (incrementCacheSize, deleteFilesFromCacheOnDisk).            *)
NeverUnder ==
  hist.up /\ ~hist.early /\ ~hist.threw =>
    Cardinality(disk) <= cacheSize + Cardinality(Uncounted)

Copied(u) == {Parts[u][i] : i \in 1 .. (th[u].next - 1)}

(* The files a thread still has to write a document for.                   *)
InWork ==
  (IF th["write"].pc = "permissions" THEN {th["write"].file} ELSE {})
  \cup (UNION {Copied(u) : u \in {v \in Movers : th[v].pc # "done"}})
  \cup (IF th["scan"].pc # "done" THEN dir.start ELSE {})

(* The eviction finds every file: each has a document, unless its name was *)
(* on a list of names to delete when it was written again.  After a crash  *)
(* the scan makes good what the crash left without a document.             *)
Findable ==
  hist.up /\ ~hist.collided /\ ~hist.threw => disk \ InWork \subseteq db

(* README, --cache-disk-size: "maximum size of the cache on disk".  The    *)
(* eviction brings the cache back below it.                                *)
StaysWithin ==
  (Cardinality(disk) > MaxCacheOnDisk) ~> (Cardinality(disk) <= MaxCacheOnDisk)
=============================================================================
