-------------------------- MODULE DiskCacheProofs --------------------------
(***************************************************************************)
(* What holds of DiskCache for any chunks, any uploads, any maximum and    *)
(* any number of downloads and crashes: the types and the mutex, that the  *)
(* counter never falls below what is on disk, and that every file has a    *)
(* document or will get one.                                               *)
(***************************************************************************)
EXTENDS DiskCache, FiniteSetTheorems, TLAPS

Evicting == {"load", "find", "unlink", "batch", "batchdelete", "flush", "adjust", "unlock"}
Calling  == Evicting \cup {"count", "try"}   \* in incrementCacheSize

ThreadType ==
  [pc : Calling \cup {"idle", "permissions", "scan", "exists", "look", "bulk", "rest", "done"},
   file : Files \cup {NoFile}, add : Nat, ret : {"idle", "look", "rest"},
   todo : SUBSET Files, del : SUBSET Files, old : Int, work : Int, next : Nat \ {0}]

(* A thread t whose record is r: where it can be, and what it has there.   *)
WriterIs(r) ==
  /\ r.pc \in Calling \cup {"idle", "permissions"}
  /\ r.pc \in Calling => r.ret = "idle"
  /\ r.pc = "count" => r.add = 1
  /\ r.pc = "permissions" => r.file \in Files

ScannerIs(r, seen) ==
  /\ r.pc \in Calling \cup {"scan", "exists", "look", "done"}
  /\ r.pc \in Calling => r.ret = "look"
  /\ r.pc = "count" => r.add = 1
  /\ r.pc \in Calling \cup {"exists", "look"} => r.file \in seen

MoverIs(u, r) ==
  /\ r.pc \in Calling \cup {"idle", "bulk", "rest", "done"}
  /\ r.pc \in Calling => r.ret = "rest"
  /\ r.pc = "count" => r.add = Len(Parts[u])
  /\ r.pc = "idle" => r.next <= Len(Parts[u])
  /\ r.pc \in Calling \cup {"bulk", "rest"} => r.next = Len(Parts[u]) + 1
  /\ r.next <= Len(Parts[u]) + 1

LocalOK(t, r, seen) ==
  /\ t = "write" => WriterIs(r)
  /\ t = "scan" => ScannerIs(r, seen)
  /\ t \in Movers => MoverIs(t, r)

LocalInv ==
  /\ th \in [Threads -> ThreadType]
  /\ \A t \in Threads : LocalOK(t, th[t], dir.seen)

DataInv ==
  /\ disk \subseteq Files /\ db \subseteq Files /\ cacheSize \in Nat
  /\ dir \in [start : SUBSET Files, seen : SUBSET Files, pend : SUBSET Files]
  /\ hist \in [up : BOOLEAN, crashes : Nat, writes : Nat,
               early : BOOLEAN, threw : BOOLEAN, collided : BOOLEAN]

(* Down, nothing is left in memory; a scan that is over holds nothing.     *)
DownInv ==
  /\ ~hist.up => th = Started /\ dir = Opened({}) /\ mutex = {} /\ cacheSize = 0
  /\ th["scan"].pc = "done" /\ ~hist.threw => dir.start = {}

(* deleteCacheMutex is held by the one thread that evicts.                 *)
MutexInv ==
  /\ mutex = {} \/ \E t \in Threads : mutex = {t}
  /\ \A t \in Threads : th[t].pc \in Evicting <=> t \in mutex

(* Nothing leaves the disk before the scan is over: what it started with   *)
(* is there.                                                               *)
StartInv ==
  hist.up /\ ~hist.early /\ ~hist.threw => dir.start \subseteq disk

FiniteInv == IsFiniteSet(disk) /\ IsFiniteSet(Uncounted) /\ IsFiniteSet(dir.start)

(* What t has deleted and not subtracted yet.                              *)
Taken(t) == IF th[t].pc \in Evicting \ {"load", "unlock"}
            THEN th[t].old - th[t].work ELSE 0

CountInv ==
  /\ \A t \in Threads : Taken(t) >= 0
  /\ hist.up /\ ~hist.early /\ ~hist.threw => \A t \in Threads :
       Cardinality(disk) + Taken(t) <= cacheSize + Cardinality(Uncounted)

(* The names an eviction is about to delete are not on disk.               *)
GoneInv ==
  hist.up /\ ~hist.collided => \A t \in Threads : th[t].del \cap disk = {}

(* The files that some thread owes a document: InWork, but no longer those *)
(* whose document has been sent.                                           *)
OwedBy(t) ==
  CASE t = "write" -> IF th[t].pc = "permissions" THEN {th[t].file} ELSE {}
    [] t = "scan"  -> (dir.start \ dir.seen) \cup (dir.start \cap dir.pend)
                      \cup (IF th[t].pc \in {"scan", "done"} THEN {}
                            ELSE dir.start \cap {th[t].file})
    [] OTHER       -> IF th[t].pc \in {"idle", "bulk"} THEN Copied(t)
                      ELSE IF th[t].pc = "done" THEN {} ELSE Unsent(t)

Owed == UNION {OwedBy(t) : t \in Threads}

DocInv ==
  hist.up /\ ~hist.collided /\ ~hist.threw => disk \subseteq db \cup Owed

IInv == /\ LocalInv /\ DataInv /\ DownInv /\ MutexInv /\ StartInv
        /\ FiniteInv /\ CountInv /\ GoneInv /\ DocInv

-----------------------------------------------------------------------------
(* The threads.                                                            *)

LEMMA Roles ==
  /\ "write" \in Threads /\ "scan" \in Threads /\ "write" # "scan"
  /\ "write" \notin Movers /\ "scan" \notin Movers
  /\ \A t \in Threads : t = "write" \/ t = "scan" \/ t \in Movers
  /\ \A u \in Movers : u \in Threads
BY DiskCacheAssumption DEF Threads

LEMMA PartsIn ==
  ASSUME NEW u \in Movers
  PROVE  /\ Len(Parts[u]) \in Nat \ {0}
         /\ \A i \in 1 .. Len(Parts[u]) : Parts[u][i] \in Files
         /\ ToSet(Parts[u]) = {Parts[u][i] : i \in 1 .. Len(Parts[u])}
BY DiskCacheAssumption DEF ToSet

LEMMA ThreadFields ==
  ASSUME LocalInv, NEW t \in Threads
  PROVE  /\ th[t] \in ThreadType /\ LocalOK(t, th[t], dir.seen)
         /\ th[t].file \in Files \cup {NoFile} /\ th[t].add \in Nat
         /\ th[t].ret \in {"idle", "look", "rest"}
         /\ th[t].todo \subseteq Files /\ th[t].del \subseteq Files
         /\ th[t].old \in Int /\ th[t].work \in Int /\ th[t].next \in Nat \ {0}
BY DEF LocalInv, ThreadType

(* Only t moves: the parts of the invariant that are about threads.        *)
LEMMA LocalFrame ==
  ASSUME LocalInv, NEW t \in Threads, NEW new \in ThreadType,
         th' = [th EXCEPT ![t] = new], LocalOK(t, new, dir'.seen),
         dir'.seen = dir.seen \/ t = "scan"
  PROVE  /\ LocalInv' /\ th'[t] = new
         /\ \A s \in Threads \ {t} : th'[s] = th[s]
<1>1. th' \in [Threads -> ThreadType]
  BY DEF LocalInv
<1>2. th'[t] = new /\ \A s \in Threads \ {t} : th'[s] = th[s]
  BY DEF LocalInv
<1>3. ASSUME NEW s \in Threads
      PROVE  LocalOK(s, th'[s], dir'.seen)
  <2>1. CASE s = t
    BY <1>2, <2>1
  <2>2. CASE s # t
    BY <1>2, <2>2 DEF LocalInv, LocalOK
  <2> QED BY <2>1, <2>2
<1> QED BY <1>1, <1>2, <1>3 DEF LocalInv

(* In incrementCacheSize, from one step to the next ...                    *)
LEMMA StaysCalling ==
  ASSUME NEW t \in Threads, NEW r \in ThreadType, NEW seen, LocalOK(t, r, seen),
         NEW new \in ThreadType, r.pc \in Calling, new.pc \in Calling \ {"count"},
         new.ret = r.ret, new.file = r.file, new.next = r.next
  PROVE  LocalOK(t, new, seen)
BY DEF LocalOK, WriterIs, ScannerIs, MoverIs, Calling, Evicting

(* ... and back to the caller.                                             *)
Returned(r) == [Idle EXCEPT !.pc = r.ret, !.file = r.file, !.next = r.next]

LEMMA Returns ==
  ASSUME NEW t \in Threads, NEW r \in ThreadType, NEW seen, LocalOK(t, r, seen),
         r.pc \in Calling
  PROVE  /\ Returned(r) \in ThreadType /\ LocalOK(t, Returned(r), seen)
         /\ Returned(r).pc = r.ret /\ Returned(r).pc \notin Calling
         /\ Returned(r).del = {} /\ Returned(r).file = r.file
         /\ Returned(r).next = r.next
         /\ r.ret = IF t = "write" THEN "idle" ELSE IF t = "scan" THEN "look" ELSE "rest"
<1>1. Returned(r) \in ThreadType
  <2>1. /\ r.ret \in {"idle", "look", "rest"}
        /\ r.file \in Files \cup {NoFile} /\ r.next \in Nat \ {0}
    BY DEF ThreadType
  <2>2. Idle \in ThreadType
    BY DEF Idle, ThreadType
  <2> QED BY <2>1, <2>2 DEF Returned, ThreadType
<1>2. /\ Returned(r).pc = r.ret /\ Returned(r).del = {}
      /\ Returned(r).file = r.file /\ Returned(r).next = r.next
  BY DEF Returned, Idle
<1>3. r.ret = IF t = "write" THEN "idle" ELSE IF t = "scan" THEN "look" ELSE "rest"
  BY Roles DEF LocalOK, WriterIs, ScannerIs, MoverIs
<1>4. r.ret \notin Calling
  BY <1>3 DEF Calling, Evicting
<1>5. LocalOK(t, Returned(r), seen)
  <2> HIDE DEF Returned
  <2> QED BY <1>2, <1>3, <1>4, Roles DEF LocalOK, WriterIs, ScannerIs, MoverIs
<1> QED BY <1>1, <1>2, <1>3, <1>4, <1>5

LEMMA MutexFrame ==
  ASSUME LocalInv, MutexInv, NEW t \in Threads, NEW new, mutex' = mutex,
         th' = [th EXCEPT ![t] = new],
         new.pc \in Evicting <=> th[t].pc \in Evicting
  PROVE  MutexInv'
BY DEF MutexInv, LocalInv

LEMMA DownFrame ==
  ASSUME LocalInv, DownInv, NEW t \in Threads, NEW new, hist.up, hist'.up,
         th' = [th EXCEPT ![t] = new], dir'.start = dir.start,
         hist.threw => hist'.threw, t = "scan" => new.pc # "done"
  PROVE  DownInv'
BY Roles DEF DownInv, LocalInv

LEMMA GoneFrame ==
  ASSUME LocalInv, GoneInv, NEW t \in Threads, NEW new, disk' \subseteq disk,
         hist.up, hist.collided => hist'.collided,
         th' = [th EXCEPT ![t] = new], new.del \in {{}, th[t].del}
  PROVE  GoneInv'
BY DEF GoneInv, LocalInv

(* What the other threads have not counted, and owe, stays.                *)
LEMMA OthersStay ==
  ASSUME LocalInv, NEW t \in Threads, NEW new, th' = [th EXCEPT ![t] = new],
         dir' = dir \/ t = "scan"
  PROVE  \A s \in Threads \ {t} : /\ UncountedBy(s)' = UncountedBy(s)
                                  /\ Taken(s)' = Taken(s) /\ OwedBy(s)' = OwedBy(s)
<1> TAKE s \in Threads \ {t}
<1>1. th'[s] = th[s]
  BY DEF LocalInv
<1>2. s = "scan" => dir' = dir
  OBVIOUS
<1>3. UncountedBy(s)' = UncountedBy(s)
  BY <1>1, <1>2, Roles DEF UncountedBy
<1>4. OwedBy(s)' = OwedBy(s)
  BY <1>1, <1>2, Roles DEF OwedBy, Copied, Unsent, Sent
<1> QED BY <1>1, <1>3, <1>4 DEF Taken

LEMMA UncountedStep ==
  ASSUME IsFiniteSet(Uncounted), NEW t \in Threads,
         \A s \in Threads \ {t} : UncountedBy(s)' = UncountedBy(s),
         IsFiniteSet(UncountedBy(t)), IsFiniteSet(UncountedBy(t)')
  PROVE  /\ IsFiniteSet(Uncounted')
         /\ Cardinality(Uncounted') = Cardinality(Uncounted)
              - Cardinality(UncountedBy(t)) + Cardinality(UncountedBy(t)')
         /\ {Cardinality(Uncounted), Cardinality(Uncounted'), Cardinality(UncountedBy(t)),
             Cardinality(UncountedBy(t)')} \subseteq Nat
<1> DEFINE A == {t} \X UncountedBy(t)
           B == {t} \X UncountedBy(t)'
           R == Uncounted \ A
<1>1. A \subseteq Uncounted
  BY DEF Uncounted
<1>2. Uncounted' = R \cup B
  <2>1. ASSUME NEW p \in Uncounted'
        PROVE  p \in R \cup B
    <3>1. PICK s \in Threads : \E x \in UncountedBy(s)' : p = <<s, x>>
      BY DEF Uncounted
    <3>2. CASE s = t
      BY <3>1, <3>2
    <3>3. CASE s # t
      BY <3>1, <3>3 DEF Uncounted
    <3> QED BY <3>2, <3>3
  <2>2. ASSUME NEW p \in R
        PROVE  p \in Uncounted'
    <3>1. PICK s \in Threads : \E x \in UncountedBy(s) : p = <<s, x>>
      BY DEF Uncounted
    <3>2. s # t
      BY <3>1
    <3> QED BY <3>1, <3>2 DEF Uncounted
  <2>3. B \subseteq Uncounted'
    BY DEF Uncounted
  <2> QED BY <2>1, <2>2, <2>3
<1>3. R \cap B = {}
  <2> SUFFICES ASSUME NEW p \in R, p \in B
               PROVE  FALSE
    OBVIOUS
  <2>1. PICK s \in Threads : \E x \in UncountedBy(s) : p = <<s, x>>
    BY DEF Uncounted
  <2>2. s = t
    BY <2>1
  <2> QED BY <2>1, <2>2
<1>4. /\ IsFiniteSet(A) /\ Cardinality(A) = Cardinality(UncountedBy(t))
      /\ IsFiniteSet(B) /\ Cardinality(B) = Cardinality(UncountedBy(t)')
  <2>1. IsFiniteSet({t}) /\ Cardinality({t}) = 1
    BY FS_Singleton
  <2>2. /\ IsFiniteSet(A) /\ Cardinality(A) = Cardinality({t}) * Cardinality(UncountedBy(t))
        /\ IsFiniteSet(B) /\ Cardinality(B) = Cardinality({t}) * Cardinality(UncountedBy(t)')
    BY <2>1, FS_Product
  <2>3. Cardinality(UncountedBy(t)) \in Nat /\ Cardinality(UncountedBy(t)') \in Nat
    BY FS_CardinalityType
  <2> QED BY <2>1, <2>2, <2>3
<1>5. IsFiniteSet(R) /\ Cardinality(R) = Cardinality(Uncounted) - Cardinality(Uncounted \cap A)
  BY FS_Difference
<1>6. Uncounted \cap A = A
  BY <1>1
<1>7. /\ IsFiniteSet(R \cup B)
      /\ Cardinality(R \cup B) = Cardinality(R) + Cardinality(B) - Cardinality(R \cap B)
  BY <1>4, <1>5, FS_Union
<1>8. Cardinality(R \cap B) = 0
  BY <1>3, FS_EmptySet
<1>9. /\ Cardinality(Uncounted) \in Nat /\ Cardinality(R) \in Nat /\ Cardinality(R \cup B) \in Nat
      /\ Cardinality(UncountedBy(t)) \in Nat /\ Cardinality(UncountedBy(t)') \in Nat
  BY <1>5, <1>7, FS_CardinalityType
<1> HIDE DEF A, B, R
<1>10. IsFiniteSet(Uncounted') /\ Cardinality(Uncounted') = Cardinality(R \cup B)
  BY <1>2, <1>7
<1>11. Cardinality(R \cup B) = Cardinality(Uncounted)
              - Cardinality(UncountedBy(t)) + Cardinality(UncountedBy(t)')
  <2>1. Cardinality(R) = Cardinality(Uncounted) - Cardinality(UncountedBy(t))
    BY <1>4, <1>5, <1>6
  <2>2. Cardinality(R \cup B) = Cardinality(R) + Cardinality(UncountedBy(t)')
    BY <1>4, <1>7, <1>8, <1>9
  <2> QED BY <1>9, <2>1, <2>2
<1> QED BY <1>9, <1>10, <1>11

(* What t owed and no longer owes is all that needs a document now.        *)
LEMMA OwedStep ==
  ASSUME NEW t \in Threads, \A s \in Threads \ {t} : OwedBy(s)' = OwedBy(s)
  PROVE  /\ Owed \subseteq Owed' \cup OwedBy(t)
         /\ OwedBy(t)' \subseteq Owed'
BY DEF Owed

(* A step of t that puts nothing on disk and counts nothing.               *)
LEMMA CountFrame ==
  ASSUME IInv, NEW t \in Threads, NEW new, th' = [th EXCEPT ![t] = new],
         UNCHANGED <<disk, cacheSize>>, dir' = dir \/ t = "scan", dir'.start = dir.start,
         hist.up, hist.early => hist'.early, hist.threw => hist'.threw,
         UncountedBy(t)' = UncountedBy(t), Taken(t)' \in {0, Taken(t)}
  PROVE  StartInv' /\ FiniteInv' /\ CountInv'
<1> USE DEF IInv
<1>1. \A s \in Threads : UncountedBy(s)' = UncountedBy(s) /\ Taken(s)' \in {0, Taken(s)}
  BY OthersStay
<1>2. Uncounted' = Uncounted
  BY <1>1 DEF Uncounted
<1>3. StartInv' /\ FiniteInv'
  BY <1>2 DEF StartInv, FiniteInv
<1>4. \A s \in Threads : Taken(s) \in Int
  BY ThreadFields DEF Taken
<1>5. Cardinality(disk) \in Nat /\ Cardinality(Uncounted) \in Nat /\ cacheSize \in Nat
  BY FS_CardinalityType DEF FiniteInv, DataInv
<1>6. CountInv'
  BY <1>1, <1>2, <1>4, <1>5 DEF CountInv
<1> QED BY <1>3, <1>6

(* A step of t that puts nothing on disk, and after which t owes what it   *)
(* owed, but for what it has sent.                                         *)
LEMMA DocFrame ==
  ASSUME LocalInv, DocInv, NEW t \in Threads, NEW new, th' = [th EXCEPT ![t] = new],
         dir' = dir \/ t = "scan", disk' \subseteq disk, db \subseteq db',
         hist.up, hist.collided => hist'.collided, hist.threw => hist'.threw,
         hist'.threw \/ OwedBy(t) \cap disk' \subseteq db' \cup OwedBy(t)'
  PROVE  DocInv'
<1>1. Owed \subseteq Owed' \cup OwedBy(t) /\ OwedBy(t)' \subseteq Owed'
  BY OthersStay, OwedStep
<1> QED BY <1>1 DEF DocInv

-----------------------------------------------------------------------------
(* incrementCacheSize.                                                     *)

(* What t is about to count is what it has not counted.                    *)
LEMMA Counting ==
  ASSUME IInv, NEW t \in Threads, th[t].pc = "count"
  PROVE  /\ IsFiniteSet(UncountedBy(t))
         /\ Cardinality(UncountedBy(t)) = th[t].add
              + (IF t = "scan" THEN Cardinality(dir.start \ dir.seen) ELSE 0)
<1> USE DEF IInv
<1>1. LocalOK(t, th[t], dir.seen)
  BY ThreadFields
<1>2. CASE t = "write"
  <2>1. UncountedBy(t) = {th[t].file} /\ th[t].add = 1
    BY <1>1, <1>2, Roles DEF UncountedBy, LocalOK, WriterIs
  <2>2. IsFiniteSet({th[t].file}) /\ Cardinality({th[t].file}) = 1
    BY FS_Singleton
  <2> QED BY <1>2, <2>1, <2>2, Roles
<1>3. CASE t = "scan"
  <2>1. /\ UncountedBy(t) = (dir.start \ dir.seen) \cup {th[t].file}
        /\ th[t].add = 1 /\ th[t].file \in dir.seen
    BY <1>1, <1>3, Roles DEF UncountedBy, LocalOK, ScannerIs, Calling
  <2>2. IsFiniteSet(dir.start \ dir.seen)
    BY FS_Difference DEF FiniteInv
  <2>3. Cardinality(dir.start \ dir.seen) \in Nat
    BY <2>2, FS_CardinalityType
  <2> DEFINE rest == dir.start \ dir.seen
  <2>4. /\ IsFiniteSet(rest \cup {th[t].file})
        /\ Cardinality(rest \cup {th[t].file}) = Cardinality(rest) + 1
    BY <2>1, <2>2, FS_AddElement
  <2> HIDE DEF rest
  <2>5. Cardinality(UncountedBy(t)) = Cardinality(rest) + 1 /\ IsFiniteSet(UncountedBy(t))
    BY <2>1, <2>4 DEF rest
  <2> QED BY <1>3, <2>1, <2>3, <2>5 DEF rest
<1>4. CASE t \in Movers
  <2>1. /\ UncountedBy(t) = 1 .. (th[t].next - 1)
        /\ th[t].next = Len(Parts[t]) + 1 /\ th[t].add = Len(Parts[t])
    BY <1>1, <1>4, Roles DEF UncountedBy, LocalOK, MoverIs, Calling
  <2>2. UncountedBy(t) = 1 .. Len(Parts[t]) /\ Len(Parts[t]) \in Nat \ {0}
    BY <1>4, <2>1, PartsIn
  <2> QED BY <1>4, <2>1, <2>2, FS_Interval, Roles
<1> QED BY <1>2, <1>3, <1>4, Roles

LEMMA CountStep ==
  ASSUME IInv, NEW t \in Threads, Count(t)
  PROVE  IInv'
<1> USE DEF IInv
<1> DEFINE size == AtLeast0(cacheSize + th[t].add)
           new == IF size > MaxCacheOnDisk THEN [th[t] EXCEPT !.pc = "try"] ELSE Returned(th[t])
<1>1. /\ th[t].pc = "count" /\ hist.up /\ cacheSize' = size
      /\ th' = [th EXCEPT ![t] = new]
      /\ UNCHANGED <<disk, db, mutex, dir, hist>>
  BY DEF Count, At, Go, Return, Returned
<1>2. th[t] \in ThreadType /\ th[t].add \in Nat /\ LocalOK(t, th[t], dir.seen)
  BY ThreadFields
<1>3. size = cacheSize + th[t].add /\ size \in Nat
  BY <1>2 DEF AtLeast0, DataInv
<1>4. /\ new \in ThreadType /\ LocalOK(t, new, dir.seen)
      /\ new.pc \notin Evicting \cup {"count", "done"}
      /\ new.file = th[t].file /\ new.next = th[t].next
      /\ new.del \in {{}, th[t].del}
      /\ new.pc \in {"try", IF t = "write" THEN "idle" ELSE IF t = "scan" THEN "look" ELSE "rest"}
  <2>1. th[t].pc \in Calling
    BY <1>1 DEF Calling
  <2>2. CASE size > MaxCacheOnDisk
    <3>1. new = [th[t] EXCEPT !.pc = "try"]
      BY <2>2
    <3>2. /\ new \in ThreadType /\ new.pc = "try" /\ new.ret = th[t].ret
          /\ new.file = th[t].file /\ new.next = th[t].next /\ new.del = th[t].del
      BY <1>2, <3>1 DEF ThreadType, Calling
    <3> HIDE DEF new
    <3>3. LocalOK(t, new, dir.seen)
      BY <1>2, <2>1, <3>2, StaysCalling DEF Calling
    <3> QED BY <3>2, <3>3 DEF Evicting
  <2>3. CASE ~(size > MaxCacheOnDisk)
    <3>1. new = Returned(th[t])
      BY <2>3
    <3> HIDE DEF new
    <3> QED BY <1>2, <2>1, <3>1, Returns DEF Calling, Evicting
  <2> QED BY <2>2, <2>3
<1> HIDE DEF new, size
<1>5. LocalInv' /\ th'[t] = new
  BY <1>1, <1>4, LocalFrame
<1>6. DataInv'
  BY <1>1, <1>3 DEF DataInv
<1>7. DownInv'
  BY <1>1, <1>4, DownFrame
<1>8. MutexInv'
  <2>1. th[t].pc \notin Evicting
    BY <1>1 DEF Evicting
  <2> QED BY <1>1, <1>4, <2>1, MutexFrame
<1>9. GoneInv'
  BY <1>1, <1>4, GoneFrame
<1>10. DocInv'
  <2>1. OwedBy(t)' = OwedBy(t)
    BY <1>1, <1>4, <1>5, Roles, ZenonT(60) DEF OwedBy, Unsent, Sent
  <2> QED BY <1>1, <2>1, DocFrame
<1>11. StartInv'
  BY <1>1 DEF StartInv
<1>12. /\ UncountedBy(t)' = (IF t = "scan" THEN dir.start \ dir.seen ELSE {})
       /\ IsFiniteSet(UncountedBy(t)')
  <2>1. UncountedBy(t)' = IF t = "scan" THEN dir.start \ dir.seen ELSE {}
    BY <1>1, <1>4, <1>5, Roles DEF UncountedBy
  <2>2. IsFiniteSet(dir.start \ dir.seen) /\ IsFiniteSet({})
    BY FS_Difference, FS_EmptySet DEF FiniteInv
  <2> QED BY <2>1, <2>2
<1>13. /\ \A s \in Threads \ {t} : /\ UncountedBy(s)' = UncountedBy(s)
                                  /\ Taken(s)' = Taken(s)
  BY <1>1, OthersStay
<1>14. /\ IsFiniteSet(Uncounted')
       /\ Cardinality(Uncounted') = Cardinality(Uncounted) - th[t].add
       /\ Cardinality(Uncounted) \in Nat
  <2> DEFINE left == IF t = "scan" THEN Cardinality(dir.start \ dir.seen) ELSE 0
  <2>1. Cardinality(UncountedBy(t)') = left
    BY <1>12, FS_EmptySet
  <2>2. IsFiniteSet(UncountedBy(t)) /\ Cardinality(UncountedBy(t)) = th[t].add + left
    BY <1>1, Counting
  <2>3. IsFiniteSet(Uncounted)
    BY DEF FiniteInv
  <2>4. /\ IsFiniteSet(Uncounted')
        /\ Cardinality(Uncounted') = Cardinality(Uncounted)
             - Cardinality(UncountedBy(t)) + Cardinality(UncountedBy(t)')
        /\ {Cardinality(Uncounted), Cardinality(Uncounted'), Cardinality(UncountedBy(t)),
             Cardinality(UncountedBy(t)')} \subseteq Nat
    BY <1>12, <1>13, <2>2, <2>3, UncountedStep
  <2> HIDE DEF left
  <2> QED BY <1>2, <2>1, <2>2, <2>4
<1>15. FiniteInv'
  BY <1>1, <1>14 DEF FiniteInv
<1>16. CountInv'
  <2>1. Taken(t)' = 0
    BY <1>4, <1>5 DEF Taken
  <2>2. Taken(t) = 0
    BY <1>1 DEF Taken, Evicting
  <2>3. \A s \in Threads : Taken(s)' = Taken(s) /\ Taken(s) \in Int
    BY <1>13, <2>1, <2>2, ThreadFields DEF Taken
  <2>4. Cardinality(disk) \in Nat /\ cacheSize \in Nat
    BY FS_CardinalityType DEF FiniteInv, DataInv
  <2> QED BY <1>1, <1>2, <1>3, <1>14, <2>3, <2>4 DEF CountInv
<1> QED BY <1>5, <1>6, <1>7, <1>8, <1>9, <1>10, <1>11, <1>15, <1>16

(* A step of incrementCacheSize after the count.                           *)
LEMMA CallFrame ==
  ASSUME IInv, NEW t \in Threads, NEW new \in ThreadType,
         th' = [th EXCEPT ![t] = new], UNCHANGED dir,
         th[t].pc \in Calling \ {"count"},
         \/ new = Returned(th[t])
         \/ /\ new.pc \in Calling \ {"count"}
            /\ new.ret = th[t].ret /\ new.file = th[t].file /\ new.next = th[t].next,
         hist.up, hist'.up, hist.threw => hist'.threw
  PROVE  /\ LocalInv' /\ DownInv' /\ th'[t] = new
         /\ Uncounted' = Uncounted
         /\ UncountedBy(t)' = UncountedBy(t) /\ OwedBy(t)' = OwedBy(t)
         /\ new.pc \notin Calling => new = Returned(th[t])
         /\ \A s \in Threads \ {t} : Taken(s)' = Taken(s)
         /\ \A s \in Threads : Taken(s) \in Int
<1> USE DEF IInv
<1>1. th[t] \in ThreadType /\ LocalOK(t, th[t], dir.seen)
  BY ThreadFields
<1>2. /\ LocalOK(t, new, dir.seen) /\ new.file = th[t].file
      /\ new.pc # "count" /\ new.pc # "done"
      /\ new.pc \in (Calling \ {"count"})
           \cup {IF t = "write" THEN "idle" ELSE IF t = "scan" THEN "look" ELSE "rest"}
      /\ new.pc \notin Calling => new = Returned(th[t])
  <2>1. CASE new = Returned(th[t])
    BY <1>1, <2>1, Returns DEF Calling, Evicting
  <2>2. CASE new.pc \in Calling \ {"count"} /\ new # Returned(th[t])
    BY <1>1, <2>2, StaysCalling DEF Calling, Evicting
  <2> QED BY <2>1, <2>2
<1>3. LocalInv' /\ th'[t] = new
  BY <1>2, LocalFrame
<1>4. DownInv'
  BY <1>2, DownFrame
<1>5. UncountedBy(t)' = UncountedBy(t)
  BY <1>2, <1>3, Roles DEF UncountedBy, Calling, Evicting
<1>6. OwedBy(t)' = OwedBy(t)
  BY <1>2, <1>3, Roles, ZenonT(60) DEF OwedBy, Calling, Evicting, Unsent, Sent
<1>7. \A s \in Threads \ {t} : UncountedBy(s)' = UncountedBy(s) /\ Taken(s)' = Taken(s)
  BY OthersStay
<1>8. Uncounted' = Uncounted
  BY <1>5, <1>7 DEF Uncounted
<1>9. \A s \in Threads : Taken(s) \in Int
  BY ThreadFields DEF Taken
<1> QED BY <1>2, <1>3, <1>4, <1>5, <1>6, <1>7, <1>8, <1>9

LEMMA TryLockStep ==
  ASSUME IInv, NEW t \in Threads, TryLock(t)
  PROVE  IInv'
<1> USE DEF IInv
<1> DEFINE new == IF mutex = {} THEN [th[t] EXCEPT !.pc = "load"] ELSE Returned(th[t])
<1>1. /\ th[t].pc = "try" /\ hist.up /\ th' = [th EXCEPT ![t] = new]
      /\ mutex' = IF mutex = {} THEN {t} ELSE mutex
      /\ UNCHANGED <<disk, db, cacheSize, dir, hist>>
  BY DEF TryLock, At, Go, Return, Returned
<1>2. th[t] \in ThreadType /\ LocalOK(t, th[t], dir.seen)
  BY ThreadFields
<1>3. th[t].pc \in Calling \ {"count"} /\ th[t].pc \notin Evicting
  BY <1>1 DEF Calling, Evicting
<1>4. /\ new \in ThreadType /\ new.del \in {{}, th[t].del}
      /\ mutex = {} => new.pc = "load"
      /\ mutex # {} => new.pc \notin Calling
      /\ \/ new = Returned(th[t])
         \/ /\ new.pc \in Calling \ {"count"}
            /\ new.ret = th[t].ret /\ new.file = th[t].file /\ new.next = th[t].next
  <2>1. CASE mutex = {}
    <3>1. new = [th[t] EXCEPT !.pc = "load"]
      BY <2>1
    <3> QED BY <1>2, <2>1, <3>1 DEF ThreadType, Calling, Evicting
  <2>2. CASE mutex # {}
    <3>1. new = Returned(th[t])
      BY <2>2
    <3> HIDE DEF new
    <3> QED BY <1>2, <1>3, <2>2, <3>1, Returns
  <2> QED BY <2>1, <2>2
<1> HIDE DEF new
<1>5. /\ LocalInv' /\ DownInv' /\ th'[t] = new
      /\ UncountedBy(t)' = UncountedBy(t) /\ OwedBy(t)' = OwedBy(t)
  BY <1>1, <1>3, <1>4, CallFrame
<1>6. DataInv'
  BY <1>1 DEF DataInv
<1>7. MutexInv'
  <2>1. new.pc \in Evicting <=> mutex = {}
    BY <1>4 DEF Evicting, Calling
  <2>2. CASE mutex = {}
    BY <1>1, <2>1, <2>2 DEF MutexInv, LocalInv
  <2>3. CASE mutex # {}
    BY <1>1, <1>3, <2>1, <2>3, MutexFrame
  <2> QED BY <2>2, <2>3
<1>8. GoneInv'
  BY <1>1, <1>4, GoneFrame
<1>9. DocInv'
  BY <1>1, <1>5, DocFrame
<1>10. Taken(t)' = 0
  BY <1>4, <1>5 DEF Taken, Calling
<1>11. StartInv' /\ FiniteInv' /\ CountInv'
  BY <1>1, <1>5, <1>10, CountFrame
<1> QED BY <1>5, <1>6, <1>7, <1>8, <1>9, <1>11

-----------------------------------------------------------------------------
(* deleteFilesFromCacheOnDisk.                                             *)

LEMMA LoadStep ==
  ASSUME IInv, NEW t \in Threads, Load(t)
  PROVE  IInv'
<1> USE DEF IInv
<1> DEFINE new == [th[t] EXCEPT !.old = cacheSize, !.work = cacheSize, !.pc = "find"]
<1>1. /\ th[t].pc = "load" /\ hist.up /\ th' = [th EXCEPT ![t] = new]
      /\ UNCHANGED <<disk, db, cacheSize, mutex, dir, hist>>
  BY DEF Load, At
<1>2. /\ new \in ThreadType /\ new.pc = "find" /\ new.old = new.work
      /\ new.old \in Int /\ new.ret = th[t].ret /\ new.file = th[t].file
      /\ new.next = th[t].next /\ new.del = th[t].del
  <2>1. cacheSize \in Int
    BY DEF DataInv
  <2>2. new \in ThreadType
    BY <2>1, ThreadFields DEF ThreadType, Calling, Evicting
  <2>3. th[t] \in ThreadType
    BY ThreadFields
  <2> QED BY <2>1, <2>2, <2>3 DEF ThreadType
<1> HIDE DEF new
<1>3. th[t].pc \in Evicting /\ new.pc \in Evicting /\ Evicting \subseteq Calling \ {"count"}
  BY <1>1, <1>2 DEF Calling, Evicting
<1>4. /\ LocalInv' /\ DownInv' /\ th'[t] = new
      /\ UncountedBy(t)' = UncountedBy(t) /\ OwedBy(t)' = OwedBy(t)
  BY <1>1, <1>2, <1>3, CallFrame
<1>5. DataInv' /\ MutexInv' /\ GoneInv' /\ DocInv'
  BY <1>1, <1>2, <1>3, <1>4, MutexFrame, GoneFrame, DocFrame DEF DataInv
<1>6. Taken(t)' = 0
  BY <1>2, <1>4 DEF Taken
<1>7. StartInv' /\ FiniteInv' /\ CountInv'
  BY <1>1, <1>4, <1>6, CountFrame
<1> QED BY <1>4, <1>5, <1>7

LEMMA FindStep ==
  ASSUME IInv, NEW t \in Threads, Find(t)
  PROVE  IInv'
<1> USE DEF IInv
<1> DEFINE new == [th[t] EXCEPT !.todo = db, !.del = {},
                                !.pc = IF db = {} THEN "flush" ELSE "unlink"]
<1>1. /\ th[t].pc = "find" /\ hist.up /\ th' = [th EXCEPT ![t] = new]
      /\ UNCHANGED <<disk, db, cacheSize, mutex, dir, hist>>
  BY DEF Find, At
<1>2. /\ new \in ThreadType /\ new.pc \in {"flush", "unlink"}
      /\ new.old = th[t].old /\ new.work = th[t].work
      /\ new.ret = th[t].ret /\ new.file = th[t].file
      /\ new.next = th[t].next /\ new.del = {}
  <2>1. db \subseteq Files /\ {} \subseteq Files
    BY DEF DataInv
  <2>2. th[t] \in ThreadType
    BY ThreadFields
  <2>3. new \in ThreadType
    BY <2>1, <2>2 DEF ThreadType, Calling, Evicting
  <2> QED BY <2>2, <2>3, ZenonT(60) DEF ThreadType
<1> HIDE DEF new
<1>3. th[t].pc \in Evicting /\ new.pc \in Evicting /\ Evicting \subseteq Calling \ {"count"}
  BY <1>1, <1>2 DEF Calling, Evicting
<1>4. /\ LocalInv' /\ DownInv' /\ th'[t] = new
      /\ UncountedBy(t)' = UncountedBy(t) /\ OwedBy(t)' = OwedBy(t)
  BY <1>1, <1>2, <1>3, CallFrame
<1>5. DataInv' /\ MutexInv' /\ GoneInv' /\ DocInv'
  BY <1>1, <1>2, <1>3, <1>4, MutexFrame, GoneFrame, DocFrame DEF DataInv
<1>6. Taken(t)' = Taken(t)
  BY <1>1, <1>2, <1>4 DEF Taken, Evicting
<1>7. StartInv' /\ FiniteInv' /\ CountInv'
  BY <1>1, <1>4, <1>6, CountFrame
<1> QED BY <1>4, <1>5, <1>7

(* A file goes from disk: if the scan is over, nothing is short of it.     *)
LEMMA UnlinkStep ==
  ASSUME IInv, NEW t \in Threads, Unlink(t)
  PROVE  IInv'
<1> USE DEF IInv
<1>1. PICK f \in th[t].todo :
        /\ disk' = disk \ {f}
        /\ th' = [th EXCEPT ![t].todo = th[t].todo \ {f}, ![t].del = th[t].del \cup {f},
             ![t].work = IF f \in disk THEN th[t].work - 1 ELSE th[t].work,
             ![t].pc = IF Cardinality(th[t].del \cup {f}) = Batch THEN "batch"
                       ELSE IF \/ BelowTarget(IF f \in disk THEN th[t].work - 1 ELSE th[t].work)
                               \/ th[t].todo \ {f} = {}
                       THEN "flush" ELSE "unlink"]
  BY DEF Unlink
<1>2. /\ th[t].pc = "unlink" /\ hist.up
      /\ hist' = [hist EXCEPT !.early = @ \/ th["scan"].pc # "done"]
      /\ UNCHANGED <<db, cacheSize, mutex, dir>>
  BY DEF Unlink, At
<1> DEFINE work == IF f \in disk THEN th[t].work - 1 ELSE th[t].work
           pc == IF Cardinality(th[t].del \cup {f}) = Batch THEN "batch"
                 ELSE IF BelowTarget(work) \/ th[t].todo \ {f} = {} THEN "flush" ELSE "unlink"
           new == [th[t] EXCEPT !.todo = th[t].todo \ {f}, !.del = th[t].del \cup {f},
                                !.work = work, !.pc = pc]
<1>3. th' = [th EXCEPT ![t] = new]
  BY <1>1
<1>4. f \in Files
  BY ThreadFields
<1>5. /\ new \in ThreadType /\ new.pc \in {"batch", "flush", "unlink"}
      /\ new.old = th[t].old /\ new.work = work
      /\ new.ret = th[t].ret /\ new.file = th[t].file
      /\ new.next = th[t].next /\ new.del = th[t].del \cup {f}
  <2>1. pc \in {"batch", "flush", "unlink"}
    OBVIOUS
  <2>2. work \in Int
    BY ThreadFields
  <2> HIDE DEF pc, work
  <2> QED BY <1>4, <2>1, <2>2, ThreadFields, ZenonT(60) DEF ThreadType, Calling, Evicting
<1> HIDE DEF new, pc
<1>6. th[t].pc \in Evicting /\ new.pc \in Evicting /\ Evicting \subseteq Calling \ {"count"}
  BY <1>2, <1>5 DEF Calling, Evicting
<1>7. /\ hist' \in [up : BOOLEAN, crashes : Nat, writes : Nat,
                    early : BOOLEAN, threw : BOOLEAN, collided : BOOLEAN]
      /\ hist'.up /\ hist'.threw = hist.threw /\ hist'.collided = hist.collided
      /\ hist'.early = (hist.early \/ th["scan"].pc # "done")
  BY <1>2 DEF DataInv
<1>8. /\ LocalInv' /\ DownInv' /\ th'[t] = new /\ Uncounted' = Uncounted
      /\ UncountedBy(t)' = UncountedBy(t) /\ OwedBy(t)' = OwedBy(t)
      /\ \A s \in Threads \ {t} : Taken(s)' = Taken(s)
      /\ \A s \in Threads : Taken(s) \in Int
  BY <1>2, <1>3, <1>5, <1>6, <1>7, CallFrame, ZenonT(60)
<1>9. DataInv'
  BY <1>1, <1>2, <1>7 DEF DataInv
<1>10. MutexInv'
  BY <1>2, <1>3, <1>6, MutexFrame
<1>11. GoneInv'
  BY <1>1, <1>2, <1>3, <1>5, <1>7, <1>8 DEF GoneInv, LocalInv
<1>12. DocInv'
  <2>1. disk' \subseteq disk /\ db \subseteq db' /\ dir' = dir
    BY <1>1, <1>2
  <2> QED BY <1>2, <1>3, <1>7, <1>8, <2>1, DocFrame
<1>13. StartInv'
  BY <1>2, <1>7 DEF StartInv, DownInv
<1>14. /\ IsFiniteSet(disk')
       /\ Cardinality(disk') = IF f \in disk THEN Cardinality(disk) - 1 ELSE Cardinality(disk)
       /\ Cardinality(disk) \in Nat /\ Cardinality(Uncounted) \in Nat
  BY <1>1, FS_RemoveElement, FS_CardinalityType DEF FiniteInv
<1>15. FiniteInv'
  BY <1>2, <1>8, <1>14 DEF FiniteInv
<1>16. Taken(t)' = (IF f \in disk THEN Taken(t) + 1 ELSE Taken(t))
  <2>1. Taken(t) = th[t].old - th[t].work
    BY <1>2 DEF Taken, Evicting
  <2>2. Taken(t)' = th[t].old - work
    BY <1>5, <1>8 DEF Taken, Evicting
  <2>3. th[t].old \in Int /\ th[t].work \in Int
    BY ThreadFields
  <2> QED BY <2>1, <2>2, <2>3
<1>17. CountInv'
  <2>1. cacheSize \in Nat
    BY DEF DataInv
  <2>2. \A s \in Threads : /\ Taken(s)' >= 0
                           /\ Cardinality(disk') + Taken(s)' <= Cardinality(disk) + Taken(s)
    BY <1>8, <1>14, <1>16 DEF CountInv
  <2>3. \A s \in Threads : Taken(s)' \in Int
    BY <1>8, <1>16
  <2> QED BY <1>2, <1>7, <1>8, <1>14, <2>1, <2>2, <2>3 DEF CountInv
<1> QED BY <1>8, <1>9, <1>10, <1>11, <1>12, <1>13, <1>15, <1>17

(* What the one eviction has deleted is subtracted.                        *)
LEMMA Subtract ==
  ASSUME IInv, NEW t \in Threads, th[t].pc \in Evicting \ {"load", "unlock"},
         cacheSize' = AtLeast0(cacheSize + th[t].work - th[t].old),
         disk' = disk, hist' = hist, Uncounted' = Uncounted, Taken(t)' = 0,
         \A s \in Threads \ {t} : Taken(s)' = Taken(s)
  PROVE  CountInv' /\ cacheSize' \in Nat
<1> USE DEF IInv
<1>1. /\ Taken(t) = th[t].old - th[t].work
      /\ th[t].old \in Int /\ th[t].work \in Int /\ cacheSize \in Nat
  BY ThreadFields DEF Taken, DataInv
<1>2. cacheSize' \in Nat /\ cacheSize' >= cacheSize - Taken(t)
  BY <1>1 DEF AtLeast0
<1>3. \A s \in Threads \ {t} : Taken(s) = 0
  BY DEF Taken, MutexInv
<1>4. Cardinality(disk) \in Nat /\ Cardinality(Uncounted) \in Nat
  BY FS_CardinalityType DEF FiniteInv
<1>5. \A s \in Threads : Taken(s)' = 0
  BY <1>3
<1>6. hist.up /\ ~hist.early /\ ~hist.threw =>
        Cardinality(disk) + Taken(t) <= cacheSize + Cardinality(Uncounted)
  BY DEF CountInv
<1>7. Taken(t) \in Int
  BY <1>1
<1>8. CountInv'
  BY <1>1, <1>2, <1>4, <1>5, <1>6, <1>7 DEF CountInv
<1> QED BY <1>2, <1>8

LEMMA BatchCountStep ==
  ASSUME IInv, NEW t \in Threads, BatchCount(t)
  PROVE  IInv'
<1> USE DEF IInv
<1> DEFINE size == AtLeast0(cacheSize + th[t].work - th[t].old)
           new == [th[t] EXCEPT !.old = size, !.work = size, !.pc = "batchdelete"]
<1>1. /\ th[t].pc = "batch" /\ hist.up /\ cacheSize' = size
      /\ th' = [th EXCEPT ![t] = new]
      /\ UNCHANGED <<disk, db, mutex, dir, hist>>
  BY DEF BatchCount, At
<1>2. /\ new \in ThreadType /\ new.pc = "batchdelete" /\ new.old = new.work
      /\ new.old \in Int /\ new.ret = th[t].ret /\ new.file = th[t].file
      /\ new.next = th[t].next /\ new.del = th[t].del
  <2>1. size \in Int
    BY ThreadFields DEF DataInv, AtLeast0
  <2> HIDE DEF size
  <2>2. new \in ThreadType
    BY <2>1, ThreadFields, ZenonT(60) DEF ThreadType, Calling, Evicting
  <2>3. th[t] \in ThreadType
    BY ThreadFields
  <2> QED BY <2>1, <2>2, <2>3 DEF ThreadType
<1> HIDE DEF new
<1>3. th[t].pc \in Evicting /\ new.pc \in Evicting /\ Evicting \subseteq Calling \ {"count"}
  BY <1>1, <1>2 DEF Calling, Evicting
<1>4. /\ LocalInv' /\ DownInv' /\ th'[t] = new /\ Uncounted' = Uncounted
      /\ UncountedBy(t)' = UncountedBy(t) /\ OwedBy(t)' = OwedBy(t)
      /\ \A s \in Threads \ {t} : Taken(s)' = Taken(s)
  BY <1>1, <1>2, <1>3, CallFrame
<1>5. Taken(t)' = 0
  BY <1>2, <1>4 DEF Taken
<1>6. CountInv' /\ cacheSize' \in Nat
  BY <1>1, <1>3, <1>4, <1>5, Subtract
<1>7. DataInv' /\ MutexInv' /\ GoneInv' /\ DocInv'
  BY <1>1, <1>2, <1>3, <1>4, <1>6, MutexFrame, GoneFrame, DocFrame DEF DataInv
<1>8. StartInv' /\ FiniteInv'
  BY <1>1, <1>4 DEF StartInv, FiniteInv
<1> QED BY <1>4, <1>6, <1>7, <1>8

LEMMA AdjustStep ==
  ASSUME IInv, NEW t \in Threads, Adjust(t)
  PROVE  IInv'
<1> USE DEF IInv
<1> DEFINE size == AtLeast0(cacheSize + th[t].work - th[t].old)
           pc == IF size > MaxCacheOnDisk THEN "load" ELSE "unlock"
           new == [th[t] EXCEPT !.pc = pc]
<1>1. /\ th[t].pc = "adjust" /\ hist.up /\ cacheSize' = size
      /\ th' = [th EXCEPT ![t] = new]
      /\ UNCHANGED <<disk, db, mutex, dir, hist>>
  BY DEF Adjust, At, Go
<1>2. /\ new \in ThreadType /\ new.pc \in {"load", "unlock"}
      /\ new.ret = th[t].ret /\ new.file = th[t].file
      /\ new.next = th[t].next /\ new.del = th[t].del
  <2>1. pc \in {"load", "unlock"}
    OBVIOUS
  <2> HIDE DEF pc
  <2>2. new \in ThreadType
    BY <2>1, ThreadFields DEF ThreadType, Calling, Evicting
  <2>3. th[t] \in ThreadType
    BY ThreadFields
  <2> QED BY <2>1, <2>2, <2>3 DEF ThreadType
<1> HIDE DEF new, pc
<1>3. th[t].pc \in Evicting /\ new.pc \in Evicting /\ Evicting \subseteq Calling \ {"count"}
  BY <1>1, <1>2 DEF Calling, Evicting
<1>4. /\ LocalInv' /\ DownInv' /\ th'[t] = new /\ Uncounted' = Uncounted
      /\ UncountedBy(t)' = UncountedBy(t) /\ OwedBy(t)' = OwedBy(t)
      /\ \A s \in Threads \ {t} : Taken(s)' = Taken(s)
  BY <1>1, <1>2, <1>3, CallFrame
<1>5. Taken(t)' = 0
  BY <1>2, <1>4 DEF Taken
<1>6. CountInv' /\ cacheSize' \in Nat
  BY <1>1, <1>3, <1>4, <1>5, Subtract
<1>7. DataInv' /\ MutexInv' /\ GoneInv' /\ DocInv'
  BY <1>1, <1>2, <1>3, <1>4, <1>6, MutexFrame, GoneFrame, DocFrame DEF DataInv
<1>8. StartInv' /\ FiniteInv'
  BY <1>1, <1>4 DEF StartInv, FiniteInv
<1> QED BY <1>4, <1>6, <1>7, <1>8

(* The documents of files that are gone are deleted.                       *)
LEMMA Delete ==
  ASSUME IInv, NEW t \in Threads, hist.up, hist' = hist, disk' = disk,
         db' = db \ th[t].del, Owed' = Owed
  PROVE  DocInv' /\ db' \subseteq Files
<1> USE DEF IInv
<1>1. db' \subseteq Files
  BY DEF DataInv
<1>2. DocInv'
  BY DEF DocInv, GoneInv
<1> QED BY <1>1, <1>2

LEMMA BatchDeleteStep ==
  ASSUME IInv, NEW t \in Threads, BatchDelete(t)
  PROVE  IInv'
<1> USE DEF IInv
<1> DEFINE pc == IF BelowTarget(th[t].work) \/ th[t].todo = {} THEN "flush" ELSE "unlink"
           new == [th[t] EXCEPT !.del = {}, !.pc = pc]
<1>1. /\ th[t].pc = "batchdelete" /\ hist.up /\ db' = db \ th[t].del
      /\ th' = [th EXCEPT ![t] = new]
      /\ UNCHANGED <<disk, cacheSize, mutex, dir, hist>>
  BY DEF BatchDelete, At
<1>2. /\ new \in ThreadType /\ new.pc \in {"flush", "unlink"} /\ new.del = {}
      /\ new.old = th[t].old /\ new.work = th[t].work
      /\ new.ret = th[t].ret /\ new.file = th[t].file /\ new.next = th[t].next
  <2>1. pc \in {"flush", "unlink"}
    OBVIOUS
  <2> HIDE DEF pc
  <2>2. new \in ThreadType
    BY <2>1, ThreadFields, ZenonT(60) DEF ThreadType, Calling, Evicting
  <2>3. th[t] \in ThreadType
    BY ThreadFields
  <2> QED BY <2>1, <2>2, <2>3 DEF ThreadType
<1> HIDE DEF new, pc
<1>3. th[t].pc \in Evicting /\ new.pc \in Evicting /\ Evicting \subseteq Calling \ {"count"}
  BY <1>1, <1>2 DEF Calling, Evicting
<1>4. /\ LocalInv' /\ DownInv' /\ th'[t] = new
      /\ UncountedBy(t)' = UncountedBy(t) /\ OwedBy(t)' = OwedBy(t)
  BY <1>1, <1>2, <1>3, CallFrame
<1>5. Owed' = Owed
  BY <1>1, <1>4, OthersStay DEF Owed
<1>6. DocInv' /\ db' \subseteq Files
  BY <1>1, <1>5, Delete
<1>7. DataInv' /\ MutexInv' /\ GoneInv'
  BY <1>1, <1>2, <1>3, <1>6, MutexFrame, GoneFrame DEF DataInv
<1>8. Taken(t)' = Taken(t)
  BY <1>1, <1>2, <1>4 DEF Taken, Evicting
<1>9. StartInv' /\ FiniteInv' /\ CountInv'
  BY <1>1, <1>4, <1>8, CountFrame
<1> QED BY <1>4, <1>6, <1>7, <1>9

LEMMA FlushStep ==
  ASSUME IInv, NEW t \in Threads, Flush(t)
  PROVE  IInv'
<1> USE DEF IInv
<1> DEFINE new == [th[t] EXCEPT !.del = {}, !.pc = "adjust"]
<1>1. /\ th[t].pc = "flush" /\ hist.up /\ db' = db \ th[t].del
      /\ th' = [th EXCEPT ![t] = new]
      /\ UNCHANGED <<disk, cacheSize, mutex, dir, hist>>
  BY DEF Flush, At
<1>2. /\ new \in ThreadType /\ new.pc = "adjust" /\ new.del = {}
      /\ new.old = th[t].old /\ new.work = th[t].work
      /\ new.ret = th[t].ret /\ new.file = th[t].file /\ new.next = th[t].next
  <2>1. new \in ThreadType
    BY ThreadFields, ZenonT(60) DEF ThreadType, Calling, Evicting
  <2>2. th[t] \in ThreadType
    BY ThreadFields
  <2> QED BY <2>1, <2>2 DEF ThreadType
<1> HIDE DEF new
<1>3. th[t].pc \in Evicting /\ new.pc \in Evicting /\ Evicting \subseteq Calling \ {"count"}
  BY <1>1, <1>2 DEF Calling, Evicting
<1>4. /\ LocalInv' /\ DownInv' /\ th'[t] = new
      /\ UncountedBy(t)' = UncountedBy(t) /\ OwedBy(t)' = OwedBy(t)
  BY <1>1, <1>2, <1>3, CallFrame
<1>5. Owed' = Owed
  BY <1>1, <1>4, OthersStay DEF Owed
<1>6. DocInv' /\ db' \subseteq Files
  BY <1>1, <1>5, Delete
<1>7. DataInv' /\ MutexInv' /\ GoneInv'
  BY <1>1, <1>2, <1>3, <1>6, MutexFrame, GoneFrame DEF DataInv
<1>8. Taken(t)' = Taken(t)
  BY <1>1, <1>2, <1>4 DEF Taken, Evicting
<1>9. StartInv' /\ FiniteInv' /\ CountInv'
  BY <1>1, <1>4, <1>8, CountFrame
<1> QED BY <1>4, <1>6, <1>7, <1>9

(* The mutex is given back by the one thread that has it.                  *)
LEMMA MutexBack ==
  ASSUME LocalInv, MutexInv, NEW t \in Threads, NEW new, mutex' = {},
         th' = [th EXCEPT ![t] = new], th[t].pc \in Evicting, new.pc \notin Evicting
  PROVE  MutexInv'
BY DEF MutexInv, LocalInv

LEMMA UnlockStep ==
  ASSUME IInv, NEW t \in Threads, Unlock(t)
  PROVE  IInv'
<1> USE DEF IInv
<1> DEFINE new == Returned(th[t])
<1>1. /\ th[t].pc = "unlock" /\ hist.up /\ mutex' = {} /\ th' = [th EXCEPT ![t] = new]
      /\ UNCHANGED <<disk, db, cacheSize, dir, hist>>
  BY DEF Unlock, At, Return, Returned
<1>2. th[t].pc \in Evicting /\ Evicting \subseteq Calling \ {"count"}
  BY <1>1 DEF Calling, Evicting
<1>3. /\ new \in ThreadType /\ new.pc \notin Calling /\ new.del = {}
  BY <1>2, ThreadFields, Returns
<1> HIDE DEF new
<1>4. /\ LocalInv' /\ DownInv' /\ th'[t] = new
      /\ UncountedBy(t)' = UncountedBy(t) /\ OwedBy(t)' = OwedBy(t)
  BY <1>1, <1>2, <1>3, CallFrame DEF new
<1>5. MutexInv'
  BY <1>1, <1>2, <1>3, MutexBack
<1>6. DataInv' /\ GoneInv' /\ DocInv'
  BY <1>1, <1>3, <1>4, GoneFrame, DocFrame DEF DataInv
<1>7. Taken(t)' = 0
  BY <1>2, <1>3, <1>4 DEF Taken
<1>8. StartInv' /\ FiniteInv' /\ CountInv'
  BY <1>1, <1>4, <1>7, CountFrame
<1> QED BY <1>4, <1>5, <1>6, <1>8

LEMMA EvictThrowsStep ==
  ASSUME IInv, NEW t \in Threads, EvictThrows(t)
  PROVE  IInv'
<1> USE DEF IInv
<1> DEFINE new == Returned(th[t])
<1>1. /\ th[t].pc \in {"find", "unlink", "batchdelete", "flush"} /\ hist.up
      /\ mutex' = {} /\ th' = [th EXCEPT ![t] = new]
      /\ hist' = [hist EXCEPT !.threw = TRUE]
      /\ UNCHANGED <<disk, db, cacheSize, dir>>
  BY DEF EvictThrows, Return, Returned
<1>2. th[t].pc \in Evicting /\ Evicting \subseteq Calling \ {"count"}
  BY <1>1 DEF Calling, Evicting
<1>3. /\ new \in ThreadType /\ new.pc \notin Calling /\ new.del = {}
  BY <1>2, ThreadFields, Returns
<1>4. /\ hist' \in [up : BOOLEAN, crashes : Nat, writes : Nat,
                    early : BOOLEAN, threw : BOOLEAN, collided : BOOLEAN]
      /\ hist'.up /\ hist'.threw /\ hist'.collided = hist.collided
      /\ hist'.early = hist.early
  BY <1>1 DEF DataInv
<1> HIDE DEF new
<1>5. /\ LocalInv' /\ DownInv' /\ th'[t] = new
      /\ UncountedBy(t)' = UncountedBy(t) /\ OwedBy(t)' = OwedBy(t)
  BY <1>1, <1>2, <1>3, <1>4, CallFrame DEF new
<1>6. MutexInv'
  BY <1>1, <1>2, <1>3, MutexBack
<1>7. DataInv' /\ GoneInv' /\ DocInv'
  BY <1>1, <1>3, <1>4, <1>5, GoneFrame, DocFrame DEF DataInv
<1>8. Taken(t)' = 0
  BY <1>2, <1>3, <1>5 DEF Taken
<1>9. StartInv' /\ FiniteInv' /\ CountInv'
  BY <1>1, <1>4, <1>5, <1>8, CountFrame
<1> QED BY <1>5, <1>6, <1>7, <1>9

-----------------------------------------------------------------------------
(* The write pool and the uploads.                                         *)

(* A file is put on disk by a thread that has yet to count it and to write *)
(* its document.                                                           *)
LEMMA PutOnDisk ==
  ASSUME IInv, NEW t \in Threads, NEW new, NEW f,
         th' = [th EXCEPT ![t] = new], new.del = th[t].del,
         disk' = disk \cup {f}, UNCHANGED <<db, cacheSize, dir>>,
         hist.up, hist'.up, hist'.early = hist.early, hist'.threw = hist.threw,
         hist'.collided = (hist.collided \/ Leaving(f)),
         IsFiniteSet(UncountedBy(t)), IsFiniteSet(UncountedBy(t)'),
         Cardinality(UncountedBy(t)') = Cardinality(UncountedBy(t)) + 1,
         Taken(t)' = Taken(t),
         OwedBy(t) \cup {f} \subseteq OwedBy(t)'
  PROVE  StartInv' /\ FiniteInv' /\ CountInv' /\ GoneInv' /\ DocInv'
<1> USE DEF IInv
<1>1. /\ IsFiniteSet(disk') /\ Cardinality(disk') <= Cardinality(disk) + 1
      /\ Cardinality(disk) \in Nat /\ Cardinality(disk') \in Nat
  <2>1. IsFiniteSet(disk) /\ Cardinality(disk) \in Nat
    BY FS_CardinalityType DEF FiniteInv
  <2>2. /\ IsFiniteSet(disk \cup {f})
        /\ Cardinality(disk \cup {f}) = IF f \in disk THEN Cardinality(disk)
                                                      ELSE Cardinality(disk) + 1
    BY <2>1, FS_AddElement
  <2> QED BY <2>1, <2>2
<1>2. \A s \in Threads \ {t} : /\ UncountedBy(s)' = UncountedBy(s)
                               /\ Taken(s)' = Taken(s) /\ OwedBy(s)' = OwedBy(s)
  BY OthersStay
<1>3. /\ IsFiniteSet(Uncounted')
      /\ Cardinality(Uncounted') = Cardinality(Uncounted) + 1
      /\ Cardinality(Uncounted) \in Nat
  <2>1. IsFiniteSet(Uncounted)
    BY DEF FiniteInv
  <2>2. /\ IsFiniteSet(Uncounted')
        /\ Cardinality(Uncounted') = Cardinality(Uncounted)
             - Cardinality(UncountedBy(t)) + Cardinality(UncountedBy(t)')
        /\ {Cardinality(Uncounted), Cardinality(Uncounted'), Cardinality(UncountedBy(t)),
             Cardinality(UncountedBy(t)')} \subseteq Nat
    BY <1>2, <2>1, UncountedStep
  <2> QED BY <2>2
<1>4. StartInv' /\ FiniteInv'
  BY <1>1, <1>3 DEF StartInv, FiniteInv
<1>5. CountInv'
  <2>1. \A s \in Threads : Taken(s)' = Taken(s) /\ Taken(s) \in Int
    BY <1>2, ThreadFields DEF Taken
  <2>2. cacheSize \in Nat
    BY DEF DataInv
  <2> QED BY <1>1, <1>3, <2>1, <2>2 DEF CountInv
<1>6. GoneInv'
  <2>1. \A s \in Threads : th'[s].del = th[s].del
    BY DEF LocalInv
  <2> QED BY <2>1 DEF GoneInv, Leaving
<1>7. DocInv'
  <2>1. Owed \subseteq Owed' \cup OwedBy(t) /\ OwedBy(t)' \subseteq Owed'
    BY <1>2, OwedStep
  <2> QED BY <2>1 DEF DocInv
<1> QED BY <1>4, <1>5, <1>6, <1>7

LEMMA WriteStep ==
  ASSUME IInv, NEW f \in Chunks, Write(f)
  PROVE  IInv'
<1> USE DEF IInv
<1> DEFINE t == "write"
           new == [th[t] EXCEPT !.pc = "permissions", !.file = f]
<1>1. /\ th[t].pc = "idle" /\ hist.up /\ disk' = disk \cup {f}
      /\ th' = [th EXCEPT ![t] = new]
      /\ hist' = [hist EXCEPT !.writes = @ + 1, !.collided = @ \/ Leaving(f)]
      /\ UNCHANGED <<db, cacheSize, mutex, dir>>
  BY DEF Write, At
<1>2. f \in Files /\ t \in Threads
  BY Roles DEF Files
<1>3. /\ hist' \in [up : BOOLEAN, crashes : Nat, writes : Nat,
                    early : BOOLEAN, threw : BOOLEAN, collided : BOOLEAN]
      /\ hist'.up /\ hist'.threw = hist.threw /\ hist'.early = hist.early
      /\ hist'.collided = (hist.collided \/ Leaving(f))
  <2> DEFINE odd == hist.collided \/ Leaving(f)
  <2>1. odd \in BOOLEAN
    BY DEF DataInv
  <2>2. hist' = [hist EXCEPT !.writes = @ + 1, !.collided = odd]
    BY <1>1
  <2> HIDE DEF odd
  <2>3. /\ hist' \in [up : BOOLEAN, crashes : Nat, writes : Nat,
                      early : BOOLEAN, threw : BOOLEAN, collided : BOOLEAN]
        /\ hist'.up = hist.up /\ hist'.threw = hist.threw
        /\ hist'.early = hist.early /\ hist'.collided = odd
    <3>1. hist.writes + 1 \in Nat
      BY DEF DataInv
    <3> QED BY <2>1, <2>2, <3>1 DEF DataInv
  <2> QED BY <1>1, <2>3 DEF odd
<1>4. /\ new \in ThreadType /\ new.pc = "permissions" /\ new.file = f
      /\ new.del = th[t].del
  <2>1. new \in ThreadType
    BY <1>2, ThreadFields DEF ThreadType
  <2>2. th[t] \in ThreadType
    BY <1>2, ThreadFields
  <2> QED BY <2>1, <2>2 DEF ThreadType
<1> HIDE DEF new
<1>5. LocalOK(t, new, dir.seen)
  BY <1>2, <1>4, Roles DEF LocalOK, WriterIs, Calling, Evicting
<1>6. LocalInv' /\ th'[t] = new
  BY <1>1, <1>2, <1>4, <1>5, LocalFrame
<1>7. DataInv'
  BY <1>1, <1>2, <1>3 DEF DataInv
<1>8. DownInv' /\ MutexInv'
  BY <1>1, <1>2, <1>3, <1>4, DownFrame, MutexFrame, Roles DEF Evicting
<1>9. /\ UncountedBy(t) = {} /\ UncountedBy(t)' = {f}
      /\ OwedBy(t) = {} /\ OwedBy(t)' = {f}
  BY <1>1, <1>4, <1>6 DEF UncountedBy, OwedBy
<1>10. /\ IsFiniteSet(UncountedBy(t)) /\ IsFiniteSet(UncountedBy(t)')
       /\ Cardinality(UncountedBy(t)') = Cardinality(UncountedBy(t)) + 1
  <2>1. /\ IsFiniteSet({}) /\ Cardinality({}) = 0
        /\ IsFiniteSet({f}) /\ Cardinality({f}) = 1
    BY FS_EmptySet, FS_Singleton
  <2> QED BY <1>9, <2>1
<1>11. Taken(t)' = Taken(t)
  BY <1>1, <1>4, <1>6 DEF Taken, Evicting
<1>12. StartInv' /\ FiniteInv' /\ CountInv' /\ GoneInv' /\ DocInv'
  <2>1. OwedBy(t) \cup {f} \subseteq OwedBy(t)'
    BY <1>9
  <2> QED BY <1>1, <1>2, <1>3, <1>4, <1>10, <1>11, <2>1, PutOnDisk
<1> QED BY <1>6, <1>7, <1>8, <1>12

LEMMA DocStep ==
  ASSUME IInv, Doc
  PROVE  IInv'
<1> USE DEF IInv
<1> DEFINE t == "write"
           new == [Idle EXCEPT !.pc = "count", !.add = 1, !.ret = "idle"]
<1>1. /\ th[t].pc = "permissions" /\ hist.up /\ th[t].file \in disk
      /\ db' = db \cup {th[t].file} /\ th' = [th EXCEPT ![t] = new]
      /\ UNCHANGED <<disk, cacheSize, mutex, dir, hist>>
  BY DEF Doc, At
<1>2. t \in Threads
  BY Roles
<1>3. /\ new \in ThreadType /\ new.pc = "count" /\ new.ret = "idle"
      /\ new.add = 1 /\ new.del = {}
  <2>1. Idle \in ThreadType /\ Idle.del = {}
    BY DEF Idle, ThreadType
  <2> QED BY <2>1 DEF ThreadType, Calling
<1> HIDE DEF new
<1>4. LocalOK(t, new, dir.seen)
  BY <1>3, Roles DEF LocalOK, WriterIs, Calling, Evicting
<1>5. LocalInv' /\ th'[t] = new
  BY <1>1, <1>2, <1>3, <1>4, LocalFrame
<1>6. DataInv'
  BY <1>1 DEF DataInv
<1>7. DownInv' /\ MutexInv' /\ GoneInv'
  BY <1>1, <1>2, <1>3, DownFrame, MutexFrame, GoneFrame, Roles DEF Evicting
<1>8. Taken(t)' = 0
  BY <1>3, <1>5 DEF Taken, Evicting
<1>9. OwedBy(t) \subseteq db'
  BY <1>1 DEF OwedBy
<1>10. DocInv'
  BY <1>1, <1>2, <1>9, DocFrame
<1>11. /\ UncountedBy(t) = {th[t].file} /\ UncountedBy(t)' = {new.file}
  BY <1>1, <1>3, <1>5 DEF UncountedBy
<1>12. \A s \in Threads \ {t} : UncountedBy(s)' = UncountedBy(s) /\ Taken(s)' = Taken(s)
  BY <1>1, <1>2, OthersStay
<1>13. /\ IsFiniteSet(Uncounted') /\ Cardinality(Uncounted') = Cardinality(Uncounted)
  <2>1. /\ IsFiniteSet({th[t].file}) /\ Cardinality({th[t].file}) = 1
        /\ IsFiniteSet({new.file}) /\ Cardinality({new.file}) = 1
    BY FS_Singleton
  <2>2. IsFiniteSet(Uncounted)
    BY DEF FiniteInv
  <2>3. /\ IsFiniteSet(UncountedBy(t)) /\ Cardinality(UncountedBy(t)) = 1
        /\ IsFiniteSet(UncountedBy(t)') /\ Cardinality(UncountedBy(t)') = 1
    BY <1>11, <2>1
  <2>4. /\ IsFiniteSet(Uncounted')
        /\ Cardinality(Uncounted') = Cardinality(Uncounted)
             - Cardinality(UncountedBy(t)) + Cardinality(UncountedBy(t)')
        /\ {Cardinality(Uncounted), Cardinality(Uncounted'), Cardinality(UncountedBy(t)),
             Cardinality(UncountedBy(t)')} \subseteq Nat
    BY <1>2, <1>12, <2>2, <2>3, UncountedStep
  <2> QED BY <2>3, <2>4
<1>14. StartInv' /\ FiniteInv'
  BY <1>1, <1>13 DEF StartInv, FiniteInv
<1>15. CountInv'
  <2>1. Taken(t) = 0
    BY <1>1 DEF Taken, Evicting
  <2> QED BY <1>1, <1>8, <1>12, <1>13, <2>1 DEF CountInv
<1> QED BY <1>5, <1>6, <1>7, <1>10, <1>14, <1>15

(* A process that ends leaves disk and database.                           *)
LEMMA StartedIs ==
  /\ Started \in [Threads -> ThreadType]
  /\ \A t \in Threads : /\ Started[t].del = {} /\ Started[t].next = 1
                        /\ Started[t].pc = IF t = "scan" THEN "scan" ELSE "idle"
<1>1. Idle \in ThreadType /\ [Idle EXCEPT !.pc = "scan"] \in ThreadType
  BY DEF Idle, ThreadType
<1>2. \A t \in Threads : Started[t] = IF t = "scan" THEN [Idle EXCEPT !.pc = "scan"] ELSE Idle
  BY DEF Started
<1>3. /\ Idle.del = {} /\ Idle.next = 1 /\ Idle.pc = "idle"
      /\ [Idle EXCEPT !.pc = "scan"].del = {} /\ [Idle EXCEPT !.pc = "scan"].next = 1
      /\ [Idle EXCEPT !.pc = "scan"].pc = "scan"
  BY DEF Idle
<1>4. Started \in [Threads -> ThreadType]
  BY <1>1 DEF Started
<1> HIDE DEF Started
<1> QED BY <1>2, <1>3, <1>4

(* At the start no thread has anything.                                    *)
LEMMA AtStart ==
  ASSUME th = Started
  PROVE  /\ th \in [Threads -> ThreadType] /\ \A seen : \A t \in Threads : LocalOK(t, th[t], seen)
         /\ \A t \in Threads : Taken(t) = 0 /\ th[t].pc \notin Evicting
         /\ \A t \in Threads \ {"scan"} : UncountedBy(t) = {} /\ OwedBy(t) = {}
         /\ UncountedBy("scan") = dir.start \ dir.seen
         /\ OwedBy("scan") = (dir.start \ dir.seen) \cup (dir.start \cap dir.pend)
<1>1. /\ th \in [Threads -> ThreadType]
      /\ \A t \in Threads : /\ th[t].del = {} /\ th[t].next = 1
                            /\ th[t].pc = IF t = "scan" THEN "scan" ELSE "idle"
  BY StartedIs
<1>2. ASSUME NEW seen, NEW t \in Threads
      PROVE  LocalOK(t, th[t], seen)
  <2>1. CASE t \in Movers
    BY <1>1, <2>1, PartsIn, Roles DEF LocalOK, MoverIs, Calling, Evicting
  <2>2. CASE t \notin Movers
    BY <1>1, <2>2, Roles DEF LocalOK, WriterIs, ScannerIs, Calling, Evicting
  <2> QED BY <2>1, <2>2
<1>3. \A t \in Threads : Taken(t) = 0 /\ th[t].pc \notin Evicting
  BY <1>1 DEF Taken, Evicting
<1>4. UncountedBy("write") = {} /\ OwedBy("write") = {}
  BY <1>1, Roles DEF UncountedBy, OwedBy
<1>5. /\ UncountedBy("scan") = dir.start \ dir.seen
      /\ OwedBy("scan") = (dir.start \ dir.seen) \cup (dir.start \cap dir.pend)
  BY <1>1, Roles DEF UncountedBy, OwedBy
<1>6. ASSUME NEW u \in Movers
      PROVE  UncountedBy(u) = {} /\ OwedBy(u) = {}
  <2>1. u \in Threads /\ u # "write" /\ u # "scan" /\ th[u].next = 1 /\ th[u].pc = "idle"
    BY <1>1, Roles
  <2> QED BY <2>1 DEF UncountedBy, OwedBy, Copied
<1> QED BY <1>1, <1>2, <1>3, <1>4, <1>5, <1>6, Roles

LEMMA InitInv == Init => IInv
<1> SUFFICES ASSUME Init
             PROVE  IInv
  OBVIOUS
<1>1. /\ th = Started /\ dir = Opened({}) /\ mutex = {} /\ disk = {} /\ db = {}
      /\ cacheSize = 0
      /\ hist = [up |-> TRUE, crashes |-> 0, writes |-> 0,
                 early |-> FALSE, threw |-> FALSE, collided |-> FALSE]
  BY DEF Init
<1>2. dir = [start |-> {}, seen |-> {}, pend |-> {}]
  BY <1>1 DEF Opened
<1>3. /\ LocalInv /\ \A t \in Threads : Taken(t) = 0 /\ th[t].pc \notin Evicting
      /\ \A t \in Threads : UncountedBy(t) = {}
  BY <1>1, <1>2, AtStart DEF LocalInv
<1>4. Uncounted = {}
  BY <1>3 DEF Uncounted
<1>5. DataInv
  BY <1>1, <1>2 DEF DataInv
<1>6. DownInv /\ MutexInv /\ StartInv /\ GoneInv /\ DocInv
  BY <1>1, <1>2, <1>3 DEF DownInv, MutexInv, StartInv, GoneInv, DocInv
<1>7. IsFiniteSet({}) /\ Cardinality({}) = 0
  BY FS_EmptySet
<1>8. FiniteInv /\ CountInv
  BY <1>1, <1>2, <1>3, <1>4, <1>7 DEF FiniteInv, CountInv
<1> QED BY <1>3, <1>5, <1>6, <1>8 DEF IInv

LEMMA DieStep ==
  ASSUME IInv, hist.up, Die
  PROVE  IInv'
<1> USE DEF IInv
<1>1. /\ th' = Started /\ dir' = Opened({}) /\ mutex' = {} /\ disk' = disk /\ db' = db
      /\ cacheSize' = 0 /\ hist' = [hist EXCEPT !.up = FALSE]
  BY DEF Die
<1>2. /\ hist' \in [up : BOOLEAN, crashes : Nat, writes : Nat,
                    early : BOOLEAN, threw : BOOLEAN, collided : BOOLEAN]
      /\ ~hist'.up
  BY <1>1 DEF DataInv
<1>3. dir' = [start |-> {}, seen |-> {}, pend |-> {}]
  BY <1>1 DEF Opened
<1>4. /\ LocalInv'
      /\ \A t \in Threads : /\ Taken(t)' = 0 /\ th'[t].pc \notin Evicting
                            /\ UncountedBy(t)' = {} /\ th'[t].del = {}
  <2>1. /\ th' \in [Threads -> ThreadType]
        /\ \A t \in Threads : /\ th'[t].del = {} /\ th'[t].next = 1
                              /\ th'[t].pc = IF t = "scan" THEN "scan" ELSE "idle"
    BY <1>1, StartedIs
  <2>2. ASSUME NEW t \in Threads
        PROVE  LocalOK(t, th'[t], dir'.seen)
    <3>1. CASE t \in Movers
      BY <2>1, <3>1, PartsIn, Roles DEF LocalOK, MoverIs, Calling, Evicting
    <3>2. CASE t \notin Movers
      BY <2>1, <3>2, Roles DEF LocalOK, WriterIs, ScannerIs, Calling, Evicting
    <3> QED BY <3>1, <3>2
  <2>3. \A t \in Threads : Taken(t)' = 0 /\ th'[t].pc \notin Evicting
    BY <2>1 DEF Taken, Evicting
  <2>4. UncountedBy("write")' = {} /\ UncountedBy("scan")' = {}
    BY <1>3, <2>1, Roles DEF UncountedBy
  <2>5. \A u \in Movers : UncountedBy(u)' = {}
    BY <2>1, Roles DEF UncountedBy
  <2> QED BY <2>1, <2>2, <2>3, <2>4, <2>5, Roles DEF LocalInv
<1>5. Uncounted' = {}
  BY <1>4 DEF Uncounted
<1>6. DataInv'
  BY <1>1, <1>2, <1>3 DEF DataInv
<1>7. DownInv' /\ MutexInv' /\ StartInv' /\ GoneInv' /\ DocInv'
  BY <1>1, <1>2, <1>3, <1>4 DEF DownInv, MutexInv, StartInv, GoneInv, DocInv
<1>8. FiniteInv' /\ CountInv'
  BY <1>1, <1>2, <1>3, <1>4, <1>5, FS_EmptySet DEF FiniteInv, CountInv
<1> QED BY <1>4, <1>6, <1>7, <1>8

LEMMA RestartStep ==
  ASSUME IInv, Restart
  PROVE  IInv'
<1> USE DEF IInv
<1> DEFINE t == "scan"
<1>1. /\ ~hist.up /\ dir' = Opened(disk)
      /\ hist' = [hist EXCEPT !.up = TRUE, !.crashes = @ + 1, !.early = FALSE,
                              !.threw = FALSE, !.collided = FALSE]
      /\ UNCHANGED <<disk, db, cacheSize, mutex, th>>
  BY DEF Restart
<1>2. th = Started /\ mutex = {} /\ cacheSize = 0 /\ dir = Opened({}) /\ t \in Threads
  BY <1>1, Roles DEF DownInv
<1>3. /\ dir' = [start |-> disk, seen |-> {}, pend |-> {}]
      /\ dir = [start |-> {}, seen |-> {}, pend |-> {}]
  BY <1>1, <1>2 DEF Opened
<1>4. /\ hist' \in [up : BOOLEAN, crashes : Nat, writes : Nat,
                    early : BOOLEAN, threw : BOOLEAN, collided : BOOLEAN]
      /\ hist'.up
  <2>1. hist.crashes + 1 \in Nat
    BY DEF DataInv
  <2> QED BY <1>1, <2>1 DEF DataInv
<1>5. /\ LocalInv' /\ th' = [th EXCEPT ![t] = th[t]]
      /\ \A s \in Threads : Taken(s) = 0 /\ Taken(s)' = 0 /\ th[s].pc \notin Evicting
      /\ th[t].pc = "scan" /\ UncountedBy(t) = {}
      /\ \A s \in Threads : th[s].del = {}
  BY <1>1, <1>2, <1>3, AtStart, StartedIs DEF LocalInv, Taken
<1>6. DataInv'
  BY <1>1, <1>3, <1>4 DEF DataInv
<1>7. /\ UncountedBy(t)' = disk /\ OwedBy(t)' = disk
  BY <1>1, <1>3, <1>5, Roles DEF UncountedBy, OwedBy
<1>8. \A s \in Threads \ {t} : UncountedBy(s)' = UncountedBy(s) /\ OwedBy(s)' = OwedBy(s)
  BY <1>2, <1>5, OthersStay
<1>9. /\ IsFiniteSet(Uncounted') /\ Cardinality(Uncounted') >= Cardinality(disk)
      /\ Cardinality(Uncounted') \in Nat /\ Cardinality(disk) \in Nat
  <2>1. IsFiniteSet(Uncounted) /\ IsFiniteSet(disk)
    BY DEF FiniteInv
  <2>2. /\ IsFiniteSet(UncountedBy(t)) /\ Cardinality(UncountedBy(t)) = 0
        /\ IsFiniteSet(UncountedBy(t)') /\ Cardinality(UncountedBy(t)') = Cardinality(disk)
    BY <1>5, <1>7, <2>1, FS_EmptySet
  <2>3. /\ IsFiniteSet(Uncounted')
        /\ Cardinality(Uncounted') = Cardinality(Uncounted)
             - Cardinality(UncountedBy(t)) + Cardinality(UncountedBy(t)')
        /\ {Cardinality(Uncounted), Cardinality(Uncounted'), Cardinality(UncountedBy(t)),
             Cardinality(UncountedBy(t)')} \subseteq Nat
    BY <1>2, <1>8, <2>1, <2>2, UncountedStep
  <2> QED BY <2>2, <2>3
<1>10. FiniteInv' /\ CountInv' /\ StartInv'
  BY <1>1, <1>2, <1>3, <1>5, <1>9 DEF FiniteInv, CountInv, StartInv
<1>11. DownInv' /\ MutexInv' /\ GoneInv'
  BY <1>1, <1>2, <1>4, <1>5 DEF DownInv, MutexInv, GoneInv
<1>12. DocInv'
  <2>1. disk \subseteq Owed'
    BY <1>7, <1>8, <1>2, OwedStep
  <2> QED BY <1>1, <2>1 DEF DocInv
<1> QED BY <1>5, <1>6, <1>10, <1>11, <1>12

LEMMA CopyStep ==
  ASSUME IInv, NEW u \in Movers, Copy(u)
  PROVE  IInv'
<1> USE DEF IInv
<1> DEFINE f == Parts[u][th[u].next]
           pc == IF th[u].next = Len(Parts[u]) THEN "bulk" ELSE "idle"
           new == [th[u] EXCEPT !.next = th[u].next + 1, !.pc = pc]
<1>1. /\ th[u].pc = "idle" /\ hist.up /\ disk' = disk \cup {f}
      /\ th' = [th EXCEPT ![u] = new]
      /\ hist' = [hist EXCEPT !.collided = @ \/ Leaving(f)]
      /\ UNCHANGED <<db, cacheSize, mutex, dir>>
  BY DEF Copy, At
<1>2. /\ u \in Threads /\ u # "write" /\ u # "scan" /\ th[u] \in ThreadType
      /\ th[u].next \in Nat \ {0} /\ LocalOK(u, th[u], dir.seen)
  BY ThreadFields, Roles
<1>3. /\ th[u].next \in 1 .. Len(Parts[u]) /\ f \in Files /\ Len(Parts[u]) \in Nat
  BY <1>1, <1>2, PartsIn DEF LocalOK, MoverIs
<1>4. /\ hist' \in [up : BOOLEAN, crashes : Nat, writes : Nat,
                    early : BOOLEAN, threw : BOOLEAN, collided : BOOLEAN]
      /\ hist'.up /\ hist'.threw = hist.threw /\ hist'.early = hist.early
      /\ hist'.collided = (hist.collided \/ Leaving(f))
  <2> DEFINE odd == hist.collided \/ Leaving(f)
  <2>1. odd \in BOOLEAN
    BY DEF DataInv
  <2>2. hist' = [hist EXCEPT !.collided = odd]
    BY <1>1
  <2> HIDE DEF odd
  <2>3. /\ hist' \in [up : BOOLEAN, crashes : Nat, writes : Nat,
                      early : BOOLEAN, threw : BOOLEAN, collided : BOOLEAN]
        /\ hist'.up = hist.up /\ hist'.threw = hist.threw
        /\ hist'.early = hist.early /\ hist'.collided = odd
    BY <2>1, <2>2 DEF DataInv
  <2> QED BY <1>1, <2>3 DEF odd
<1>5. /\ new \in ThreadType /\ new.pc = pc /\ new.next = th[u].next + 1
      /\ new.del = th[u].del
  <2>1. pc \in {"bulk", "idle"} /\ th[u].next + 1 \in Nat \ {0}
    BY <1>3
  <2> HIDE DEF pc
  <2> QED BY <1>2, <2>1 DEF ThreadType
<1> HIDE DEF new, f
<1>6. LocalOK(u, new, dir.seen)
  BY <1>2, <1>3, <1>5, Roles DEF LocalOK, MoverIs, Calling, Evicting
<1>7. LocalInv' /\ th'[u] = new
  BY <1>1, <1>2, <1>5, <1>6, LocalFrame
<1>8. DataInv'
  BY <1>1, <1>3, <1>4 DEF DataInv
<1>9. DownInv' /\ MutexInv'
  BY <1>1, <1>2, <1>4, <1>5, DownFrame, MutexFrame DEF Evicting
<1>10. /\ UncountedBy(u) = 1 .. (th[u].next - 1) /\ UncountedBy(u)' = 1 .. th[u].next
       /\ OwedBy(u) = {Parts[u][i] : i \in 1 .. (th[u].next - 1)}
       /\ OwedBy(u)' = {Parts[u][i] : i \in 1 .. th[u].next}
  <2>1. th'[u].next - 1 = th[u].next /\ th'[u].pc \in {"idle", "bulk"}
    BY <1>2, <1>5, <1>7
  <2>2. UncountedBy(u) = 1 .. (th[u].next - 1) /\ OwedBy(u) = Copied(u)
    BY <1>1, <1>2 DEF UncountedBy, OwedBy
  <2>3. UncountedBy(u)' = 1 .. (th'[u].next - 1) /\ OwedBy(u)' = Copied(u)'
    BY <1>2, <2>1 DEF UncountedBy, OwedBy
  <2>4. /\ Copied(u) = {Parts[u][i] : i \in 1 .. (th[u].next - 1)}
        /\ Copied(u)' = {Parts[u][i] : i \in 1 .. (th'[u].next - 1)}
    BY DEF Copied
  <2> QED BY <2>1, <2>2, <2>3, <2>4
<1>11. /\ IsFiniteSet(UncountedBy(u)) /\ IsFiniteSet(UncountedBy(u)')
       /\ Cardinality(UncountedBy(u)') = Cardinality(UncountedBy(u)) + 1
  <2> DEFINE n == th[u].next
  <2>1. n \in Int /\ n >= 1
    BY <1>2
  <2> HIDE DEF n
  <2>2. /\ IsFiniteSet(1 .. (n - 1)) /\ Cardinality(1 .. (n - 1)) = n - 1
        /\ IsFiniteSet(1 .. n) /\ Cardinality(1 .. n) = n
    BY <2>1, FS_Interval
  <2>3. UncountedBy(u) = 1 .. (n - 1) /\ UncountedBy(u)' = 1 .. n
    BY <1>10 DEF n
  <2> QED BY <2>1, <2>2, <2>3
<1>12. OwedBy(u) \cup {f} \subseteq OwedBy(u)'
  BY <1>2, <1>10 DEF f
<1>13. Taken(u)' = Taken(u)
  BY <1>1, <1>5, <1>7 DEF Taken, Evicting
<1>14. StartInv' /\ FiniteInv' /\ CountInv' /\ GoneInv' /\ DocInv'
  BY <1>1, <1>2, <1>4, <1>5, <1>11, <1>12, <1>13, PutOnDisk
<1> QED BY <1>7, <1>8, <1>9, <1>14

(* What is sent before the count, and after it, are the task's own files.  *)
LEMMA SentIn ==
  ASSUME NEW u \in Movers
  PROVE  /\ Sent(u) \subseteq Files /\ Unsent(u) \subseteq Files
         /\ ToSet(Parts[u]) \subseteq Sent(u) \cup Unsent(u)
<1> DEFINE n == Len(Parts[u])
           k == (n - 1) \div Batch
<1>1. n \in Nat \ {0} /\ Batch \in Nat \ {0}
  BY PartsIn, DiskCacheAssumption
<1>2. n - 1 \in Nat
  BY <1>1
<1> HIDE DEF n
<1>3. k \in Nat /\ k * Batch <= n - 1
  BY <1>1, <1>2, SMTT(30)
<1> HIDE DEF k
<1>4. 1 + k * Batch \in Int /\ 1 + k * Batch <= n
  BY <1>1, <1>3
<1>5. 1 .. (1 + k * Batch) \subseteq 1 .. n
  BY <1>1, <1>4
<1>6. Sent(u) = {Parts[u][i] : i \in 1 .. (1 + k * Batch)}
  BY DEF Sent, k, n
<1>7. \A i \in 1 .. n : Parts[u][i] \in Files
  BY PartsIn DEF n
<1>8. ToSet(Parts[u]) \subseteq Files
  <2>1. ToSet(Parts[u]) = {Parts[u][i] : i \in 1 .. n}
    BY PartsIn DEF n
  <2> QED BY <1>7, <2>1
<1> QED BY <1>5, <1>6, <1>7, <1>8 DEF Unsent

LEMMA BulkStep ==
  ASSUME IInv, NEW u \in Movers, Bulk(u)
  PROVE  IInv'
<1> USE DEF IInv
<1> DEFINE new == [th[u] EXCEPT !.pc = "count", !.add = Len(Parts[u]), !.ret = "rest"]
<1>1. /\ th[u].pc = "bulk" /\ hist.up /\ db' = db \cup Sent(u)
      /\ th' = [th EXCEPT ![u] = new]
      /\ UNCHANGED <<disk, cacheSize, mutex, dir, hist>>
  BY DEF Bulk, At, Increment
<1>2. /\ u \in Threads /\ u # "write" /\ u # "scan" /\ th[u] \in ThreadType
      /\ LocalOK(u, th[u], dir.seen) /\ Len(Parts[u]) \in Nat
  BY ThreadFields, Roles, PartsIn
<1>3. /\ new \in ThreadType /\ new.pc = "count" /\ new.ret = "rest"
      /\ new.add = Len(Parts[u]) /\ new.next = th[u].next /\ new.del = th[u].del
  <2>1. new \in ThreadType
    BY <1>2 DEF ThreadType, Calling
  <2> QED BY <1>2, <2>1 DEF ThreadType
<1> HIDE DEF new
<1>4. th[u].next = Len(Parts[u]) + 1 /\ LocalOK(u, new, dir.seen)
  BY <1>1, <1>2, <1>3 DEF LocalOK, MoverIs, Calling, Evicting
<1>5. LocalInv' /\ th'[u] = new
  BY <1>1, <1>2, <1>3, <1>4, LocalFrame
<1>6. DataInv'
  BY <1>1, SentIn DEF DataInv
<1>7. DownInv' /\ MutexInv' /\ GoneInv'
  BY <1>1, <1>2, <1>3, DownFrame, MutexFrame, GoneFrame DEF Evicting
<1>8. UncountedBy(u)' = UncountedBy(u) /\ Taken(u)' = 0
  BY <1>1, <1>2, <1>3, <1>5 DEF UncountedBy, Taken, Evicting
<1>9. StartInv' /\ FiniteInv' /\ CountInv'
  BY <1>1, <1>2, <1>8, CountFrame
<1>10. OwedBy(u) \subseteq db' \cup OwedBy(u)'
  <2>1. OwedBy(u) \subseteq ToSet(Parts[u])
    <3> DEFINE n == Len(Parts[u])
    <3>1. OwedBy(u) = {Parts[u][i] : i \in 1 .. (th[u].next - 1)}
      BY <1>1, <1>2 DEF OwedBy, Copied
    <3>2. ToSet(Parts[u]) = {Parts[u][i] : i \in 1 .. n}
      BY PartsIn
    <3>3. th[u].next - 1 = n
      BY <1>2, <1>4
    <3> HIDE DEF n
    <3> QED BY <3>1, <3>2, <3>3
  <2>2. OwedBy(u)' = Unsent(u)
    BY <1>2, <1>3, <1>5 DEF OwedBy, Unsent, Sent
  <2> QED BY <1>1, <2>1, <2>2, SentIn
<1>11. DocInv'
  BY <1>1, <1>2, <1>10, DocFrame
<1> QED BY <1>5, <1>6, <1>7, <1>9, <1>11

LEMMA RestStep ==
  ASSUME IInv, NEW u \in Movers, Rest(u)
  PROVE  IInv'
<1> USE DEF IInv
<1> DEFINE new == [th[u] EXCEPT !.pc = "done"]
<1>1. /\ th[u].pc = "rest" /\ hist.up /\ db' = db \cup Unsent(u)
      /\ th' = [th EXCEPT ![u] = new]
      /\ UNCHANGED <<disk, cacheSize, mutex, dir, hist>>
  BY DEF Rest, At, Go
<1>2. /\ u \in Threads /\ u # "write" /\ u # "scan" /\ th[u] \in ThreadType
      /\ LocalOK(u, th[u], dir.seen)
  BY ThreadFields, Roles
<1>3. /\ new \in ThreadType /\ new.pc = "done" /\ new.next = th[u].next
      /\ new.del = th[u].del
  <2>1. new \in ThreadType
    BY <1>2 DEF ThreadType, Calling
  <2> QED BY <1>2, <2>1 DEF ThreadType
<1> HIDE DEF new
<1>4. LocalOK(u, new, dir.seen)
  BY <1>1, <1>2, <1>3 DEF LocalOK, MoverIs, Calling, Evicting
<1>5. LocalInv' /\ th'[u] = new
  BY <1>1, <1>2, <1>3, <1>4, LocalFrame
<1>6. DataInv'
  BY <1>1, SentIn DEF DataInv
<1>7. DownInv' /\ MutexInv' /\ GoneInv'
  BY <1>1, <1>2, <1>3, DownFrame, MutexFrame, GoneFrame DEF Evicting
<1>8. UncountedBy(u)' = UncountedBy(u) /\ Taken(u)' = 0
  BY <1>1, <1>2, <1>3, <1>5 DEF UncountedBy, Taken, Evicting
<1>9. StartInv' /\ FiniteInv' /\ CountInv'
  BY <1>1, <1>2, <1>8, CountFrame
<1>10. OwedBy(u) = Unsent(u)
  BY <1>1, <1>2 DEF OwedBy
<1>11. DocInv'
  BY <1>1, <1>2, <1>10, DocFrame
<1> QED BY <1>5, <1>6, <1>7, <1>9, <1>11

(* A thread gives up: what it has not counted is forgotten.                *)
LEMMA GiveUp ==
  ASSUME IInv, NEW t \in Threads, NEW new, th' = [th EXCEPT ![t] = new],
         UNCHANGED <<disk, db, cacheSize, dir>>, hist.up, hist'.up, hist'.threw,
         hist'.collided = hist.collided, new.del = th[t].del,
         UncountedBy(t)' \subseteq UncountedBy(t), Taken(t)' = 0
  PROVE  StartInv' /\ FiniteInv' /\ CountInv' /\ GoneInv' /\ DocInv'
<1> USE DEF IInv
<1>1. \A s \in Threads \ {t} : UncountedBy(s)' = UncountedBy(s) /\ Taken(s)' = Taken(s)
  BY OthersStay
<1>2. Uncounted' \subseteq Uncounted
  BY <1>1 DEF Uncounted
<1>3. IsFiniteSet(Uncounted')
  BY <1>2, FS_Subset DEF FiniteInv
<1>4. GoneInv'
  BY GoneFrame
<1> QED BY <1>1, <1>3, <1>4 DEF StartInv, FiniteInv, CountInv, DocInv

LEMMA Thrown ==
  ASSUME DataInv, hist' = [hist EXCEPT !.threw = TRUE]
  PROVE  /\ hist' \in [up : BOOLEAN, crashes : Nat, writes : Nat,
                       early : BOOLEAN, threw : BOOLEAN, collided : BOOLEAN]
         /\ hist'.threw /\ hist'.up = hist.up
         /\ hist'.early = hist.early /\ hist'.collided = hist.collided
BY DEF DataInv

LEMMA MoveThrowsStep ==
  ASSUME IInv, NEW u \in Movers, MoveThrows(u)
  PROVE  IInv'
<1> USE DEF IInv
<1> DEFINE new == [th[u] EXCEPT !.pc = "done"]
<1>1. /\ th[u].pc \in {"bulk", "rest", "idle"} /\ hist.up
      /\ th' = [th EXCEPT ![u] = new] /\ hist' = [hist EXCEPT !.threw = TRUE]
      /\ UNCHANGED <<disk, db, cacheSize, mutex, dir>>
  BY DEF MoveThrows, Go
<1>2. /\ u \in Threads /\ u # "write" /\ u # "scan" /\ th[u] \in ThreadType
      /\ LocalOK(u, th[u], dir.seen)
  BY ThreadFields, Roles
<1>3. /\ new \in ThreadType /\ new.pc = "done" /\ new.next = th[u].next
      /\ new.del = th[u].del
  <2>1. new \in ThreadType
    BY <1>2 DEF ThreadType, Calling
  <2> QED BY <1>2, <2>1 DEF ThreadType
<1> HIDE DEF new
<1>4. LocalOK(u, new, dir.seen)
  BY <1>1, <1>2, <1>3 DEF LocalOK, MoverIs, Calling, Evicting
<1>5. LocalInv' /\ th'[u] = new
  BY <1>1, <1>2, <1>3, <1>4, LocalFrame
<1>6. /\ hist' \in [up : BOOLEAN, crashes : Nat, writes : Nat,
                    early : BOOLEAN, threw : BOOLEAN, collided : BOOLEAN]
      /\ hist'.threw /\ hist'.up = hist.up /\ hist'.collided = hist.collided
  BY <1>1, Thrown
<1>7. DataInv'
  BY <1>1, <1>6 DEF DataInv
<1>8. DownInv' /\ MutexInv'
  BY <1>1, <1>2, <1>3, <1>6, DownFrame, MutexFrame DEF Evicting
<1>9. UncountedBy(u)' = {} /\ Taken(u)' = 0
  BY <1>2, <1>3, <1>5 DEF UncountedBy, Taken, Evicting
<1>10. StartInv' /\ FiniteInv' /\ CountInv' /\ GoneInv' /\ DocInv'
  BY <1>1, <1>2, <1>3, <1>6, <1>9, GiveUp
<1> QED BY <1>5, <1>7, <1>8, <1>10

-----------------------------------------------------------------------------
(* checkCacheSize.                                                         *)

LEMMA VisitStep ==
  ASSUME IInv, NEW f, Visit(f)
  PROVE  IInv'
<1> USE DEF IInv
<1> DEFINE t == "scan"
           new == [th[t] EXCEPT !.pc = "exists", !.file = f]
<1>1. /\ th[t].pc = "scan" /\ hist.up /\ f \in disk /\ f \notin dir.seen
      /\ th' = [th EXCEPT ![t] = new]
      /\ dir' = [dir EXCEPT !.seen = @ \cup {f}]
      /\ UNCHANGED <<disk, db, cacheSize, mutex, hist>>
  BY DEF Visit, At
<1>2. /\ t \in Threads /\ f \in Files /\ th[t] \in ThreadType
  BY <1>1, ThreadFields, Roles DEF DataInv
<1>3. /\ dir' \in [start : SUBSET Files, seen : SUBSET Files, pend : SUBSET Files]
      /\ dir'.seen = dir.seen \cup {f} /\ dir'.start = dir.start /\ dir'.pend = dir.pend
  BY <1>1, <1>2 DEF DataInv
<1>4. /\ new \in ThreadType /\ new.pc = "exists" /\ new.file = f
      /\ new.del = th[t].del
  <2>1. new \in ThreadType
    BY <1>2 DEF ThreadType
  <2> QED BY <1>2, <2>1 DEF ThreadType
<1> HIDE DEF new
<1>5. LocalOK(t, new, dir'.seen)
  BY <1>3, <1>4, Roles DEF LocalOK, ScannerIs, Calling, Evicting
<1>6. LocalInv' /\ th'[t] = new
  BY <1>1, <1>2, <1>4, <1>5, LocalFrame
<1>7. DataInv'
  BY <1>1, <1>3 DEF DataInv
<1>8. DownInv' /\ MutexInv' /\ GoneInv'
  BY <1>1, <1>2, <1>3, <1>4, DownFrame, MutexFrame, GoneFrame DEF Evicting
<1>9. OwedBy(t) \subseteq OwedBy(t)'
  BY <1>1, <1>3, <1>4, <1>6, Roles DEF OwedBy
<1>10. DocInv'
  BY <1>1, <1>2, <1>9, DocFrame
<1> DEFINE left == dir.start \ dir.seen
<1>11. UncountedBy(t) = left /\ UncountedBy(t)' = left \cup {f}
  BY <1>1, <1>3, <1>4, <1>6, Roles DEF UncountedBy
<1> HIDE DEF left
<1>12. \A s \in Threads \ {t} : UncountedBy(s)' = UncountedBy(s) /\ Taken(s)' = Taken(s)
  BY <1>1, <1>2, OthersStay
<1>13. /\ IsFiniteSet(Uncounted') /\ Cardinality(Uncounted') >= Cardinality(Uncounted)
       /\ Cardinality(Uncounted) \in Nat /\ Cardinality(Uncounted') \in Nat
  <2>1. IsFiniteSet(Uncounted) /\ IsFiniteSet(left)
    BY FS_Difference DEF FiniteInv, left
  <2>2. /\ IsFiniteSet(left \cup {f}) /\ Cardinality(left) \in Nat
        /\ Cardinality(left \cup {f}) = IF f \in left THEN Cardinality(left)
                                                  ELSE Cardinality(left) + 1
    BY <2>1, FS_AddElement, FS_CardinalityType
  <2>3. /\ IsFiniteSet(UncountedBy(t)) /\ IsFiniteSet(UncountedBy(t)')
        /\ Cardinality(UncountedBy(t)') >= Cardinality(UncountedBy(t))
    BY <1>11, <2>1, <2>2
  <2>4. /\ IsFiniteSet(Uncounted')
        /\ Cardinality(Uncounted') = Cardinality(Uncounted)
             - Cardinality(UncountedBy(t)) + Cardinality(UncountedBy(t)')
        /\ {Cardinality(Uncounted), Cardinality(Uncounted'), Cardinality(UncountedBy(t)),
             Cardinality(UncountedBy(t)')} \subseteq Nat
    BY <1>2, <1>12, <2>1, <2>3, UncountedStep
  <2> QED BY <2>3, <2>4
<1>14. StartInv' /\ FiniteInv'
  BY <1>1, <1>3, <1>13 DEF StartInv, FiniteInv
<1>15. CountInv'
  <2>1. Taken(t)' = 0 /\ Taken(t) = 0
    BY <1>1, <1>4, <1>6 DEF Taken, Evicting
  <2>2. \A s \in Threads : Taken(s)' = Taken(s) /\ Taken(s) \in Int
    BY <1>12, <2>1, ThreadFields DEF Taken
  <2>3. cacheSize \in Nat /\ Cardinality(disk) \in Nat
    BY FS_CardinalityType DEF DataInv, FiniteInv
  <2> QED BY <1>1, <1>13, <2>2, <2>3 DEF CountInv
<1> QED BY <1>6, <1>7, <1>8, <1>10, <1>14, <1>15

LEMMA MeasureStep ==
  ASSUME IInv, Measure
  PROVE  IInv'
<1> USE DEF IInv
<1> DEFINE t == "scan"
           new == [th[t] EXCEPT !.pc = "count", !.add = 1, !.ret = "look"]
<1>1. /\ th[t].pc = "exists" /\ hist.up /\ th' = [th EXCEPT ![t] = new]
      /\ UNCHANGED <<disk, db, cacheSize, mutex, dir, hist>>
  BY DEF Measure, At, Increment
<1>2. /\ t \in Threads /\ th[t] \in ThreadType /\ LocalOK(t, th[t], dir.seen)
  BY ThreadFields, Roles
<1>3. /\ new \in ThreadType /\ new.pc = "count" /\ new.ret = "look" /\ new.add = 1
      /\ new.file = th[t].file /\ new.del = th[t].del
  <2>1. new \in ThreadType
    BY <1>2 DEF ThreadType, Calling
  <2> QED BY <1>2, <2>1 DEF ThreadType
<1> HIDE DEF new
<1>4. LocalOK(t, new, dir.seen)
  BY <1>1, <1>2, <1>3, Roles DEF LocalOK, ScannerIs, Calling, Evicting
<1>5. LocalInv' /\ th'[t] = new
  BY <1>1, <1>2, <1>3, <1>4, LocalFrame
<1>6. DataInv'
  BY <1>1 DEF DataInv
<1>7. DownInv' /\ MutexInv' /\ GoneInv'
  BY <1>1, <1>2, <1>3, DownFrame, MutexFrame, GoneFrame DEF Evicting
<1>8. OwedBy(t)' = OwedBy(t) /\ UncountedBy(t)' = UncountedBy(t) /\ Taken(t)' = 0
  BY <1>1, <1>3, <1>5, Roles DEF OwedBy, UncountedBy, Taken, Evicting
<1>9. StartInv' /\ FiniteInv' /\ CountInv'
  BY <1>1, <1>2, <1>8, CountFrame
<1>10. DocInv'
  BY <1>1, <1>2, <1>8, DocFrame
<1> QED BY <1>5, <1>6, <1>7, <1>9, <1>10

LEMMA ScanThrowsStep ==
  ASSUME IInv, ScanThrows
  PROVE  IInv'
<1> USE DEF IInv
<1> DEFINE t == "scan"
           new == [th[t] EXCEPT !.pc = "done"]
<1>1. /\ th[t].pc = "exists" /\ hist.up /\ th' = [th EXCEPT ![t] = new]
      /\ hist' = [hist EXCEPT !.threw = TRUE]
      /\ UNCHANGED <<disk, db, cacheSize, mutex, dir>>
  BY DEF ScanThrows, At, Go
<1>2. /\ t \in Threads /\ th[t] \in ThreadType /\ LocalOK(t, th[t], dir.seen)
  BY ThreadFields, Roles
<1>3. new \in ThreadType /\ new.pc = "done" /\ new.del = th[t].del
  <2>1. new \in ThreadType
    BY <1>2 DEF ThreadType
  <2> QED BY <1>2, <2>1 DEF ThreadType
<1> HIDE DEF new
<1>4. LocalOK(t, new, dir.seen)
  BY <1>3, Roles DEF LocalOK, ScannerIs, Calling, Evicting
<1>5. LocalInv' /\ th'[t] = new
  BY <1>1, <1>2, <1>3, <1>4, LocalFrame
<1>6. /\ hist' \in [up : BOOLEAN, crashes : Nat, writes : Nat,
                    early : BOOLEAN, threw : BOOLEAN, collided : BOOLEAN]
      /\ hist'.threw /\ hist'.up = hist.up /\ hist'.collided = hist.collided
  BY <1>1, Thrown
<1>7. DataInv' /\ DownInv'
  BY <1>1, <1>6 DEF DataInv, DownInv
<1>8. MutexInv'
  BY <1>1, <1>2, <1>3, MutexFrame DEF Evicting
<1>9. UncountedBy(t)' \subseteq UncountedBy(t) /\ Taken(t)' = 0
  BY <1>1, <1>3, <1>5, Roles DEF UncountedBy, Taken, Evicting
<1>10. StartInv' /\ FiniteInv' /\ CountInv' /\ GoneInv' /\ DocInv'
  BY <1>1, <1>2, <1>3, <1>6, <1>9, GiveUp
<1> QED BY <1>5, <1>7, <1>8, <1>10

LEMMA LookStep ==
  ASSUME IInv, Look
  PROVE  IInv'
<1> USE DEF IInv
<1> DEFINE t == "scan"
           new == [Idle EXCEPT !.pc = "scan"]
<1>1. /\ th[t].pc = "look" /\ hist.up /\ th' = [th EXCEPT ![t] = new]
      /\ dir' = [dir EXCEPT !.pend = IF th[t].file \in db THEN @ ELSE @ \cup {th[t].file}]
      /\ UNCHANGED <<disk, db, cacheSize, mutex, hist>>
  BY DEF Look, At
<1>2. /\ t \in Threads /\ th[t] \in ThreadType /\ LocalOK(t, th[t], dir.seen)
  BY ThreadFields, Roles
<1>3. new \in ThreadType /\ new.pc = "scan" /\ new.del = {}
  BY DEF Idle, ThreadType
<1> HIDE DEF new
<1>4. th[t].file \in dir.seen /\ th[t].file \in Files
  BY <1>1, <1>2, Roles DEF LocalOK, ScannerIs, DataInv
<1>5. /\ dir' \in [start : SUBSET Files, seen : SUBSET Files, pend : SUBSET Files]
      /\ dir'.seen = dir.seen /\ dir'.start = dir.start
      /\ dir'.pend = IF th[t].file \in db THEN dir.pend ELSE dir.pend \cup {th[t].file}
  BY <1>1, <1>4 DEF DataInv
<1>6. LocalOK(t, new, dir'.seen)
  BY <1>3, Roles DEF LocalOK, ScannerIs, Calling, Evicting
<1>7. LocalInv' /\ th'[t] = new
  BY <1>1, <1>2, <1>3, <1>5, <1>6, LocalFrame
<1>8. DataInv'
  BY <1>1, <1>5 DEF DataInv
<1>9. DownInv' /\ MutexInv' /\ GoneInv'
  BY <1>1, <1>2, <1>3, <1>5, DownFrame, MutexFrame, GoneFrame DEF Evicting
<1>10. UncountedBy(t)' = UncountedBy(t) /\ Taken(t)' = 0
  BY <1>1, <1>3, <1>5, <1>7, Roles DEF UncountedBy, Taken, Evicting
<1>11. StartInv' /\ FiniteInv' /\ CountInv'
  BY <1>1, <1>2, <1>5, <1>10, CountFrame
<1>12. OwedBy(t) \subseteq db \cup OwedBy(t)'
  BY <1>1, <1>3, <1>5, <1>7, Roles DEF OwedBy
<1>13. DocInv'
  BY <1>1, <1>2, <1>12, DocFrame
<1> QED BY <1>7, <1>8, <1>9, <1>11, <1>13

LEMMA ScanBulkStep ==
  ASSUME IInv, ScanBulk
  PROVE  IInv'
<1> USE DEF IInv
<1> DEFINE t == "scan"
           new == th[t]
<1>1. /\ th[t].pc = "scan" /\ hist.up /\ th' = th /\ db' = db \cup dir.pend
      /\ dir' = [dir EXCEPT !.pend = {}]
      /\ UNCHANGED <<disk, cacheSize, mutex, hist>>
  BY DEF ScanBulk, At
<1>2. /\ t \in Threads /\ th[t] \in ThreadType /\ LocalOK(t, th[t], dir.seen)
      /\ th' = [th EXCEPT ![t] = new]
  BY <1>1, ThreadFields, Roles DEF LocalInv
<1>3. /\ dir' \in [start : SUBSET Files, seen : SUBSET Files, pend : SUBSET Files]
      /\ dir'.seen = dir.seen /\ dir'.start = dir.start /\ dir'.pend = {}
      /\ dir.pend \subseteq Files
  BY <1>1 DEF DataInv
<1>4. LocalInv'
  BY <1>1, <1>3 DEF LocalInv
<1>5. DataInv'
  BY <1>1, <1>3 DEF DataInv
<1>6. DownInv' /\ MutexInv' /\ GoneInv'
  BY <1>1, <1>3 DEF DownInv, MutexInv, GoneInv
<1>7. UncountedBy(t)' = UncountedBy(t) /\ Taken(t)' = 0
  BY <1>1, <1>3, Roles DEF UncountedBy, Taken, Evicting
<1>8. StartInv' /\ FiniteInv' /\ CountInv'
  BY <1>1, <1>2, <1>3, <1>7, CountFrame
<1>9. OwedBy(t) \subseteq db' \cup OwedBy(t)'
  BY <1>1, <1>3, Roles DEF OwedBy
<1>10. DocInv'
  BY <1>1, <1>2, <1>9, DocFrame
<1> QED BY <1>4, <1>5, <1>6, <1>8, <1>10

(* All the scan started with, and is still on disk, it has visited.        *)
LEMMA ScanEndStep ==
  ASSUME IInv, ScanEnd
  PROVE  IInv'
<1> USE DEF IInv
<1> DEFINE t == "scan"
           new == [th[t] EXCEPT !.pc = "done"]
<1>1. /\ th[t].pc = "scan" /\ hist.up /\ th' = [th EXCEPT ![t] = new]
      /\ disk \cap dir.start \subseteq dir.seen /\ db' = db \cup dir.pend
      /\ dir' = [start |-> {}, seen |-> {}, pend |-> {}]
      /\ UNCHANGED <<disk, cacheSize, mutex, hist>>
  BY DEF ScanEnd, At, Go, Opened
<1>2. /\ t \in Threads /\ th[t] \in ThreadType /\ dir.pend \subseteq Files
  BY ThreadFields, Roles DEF DataInv
<1>3. new \in ThreadType /\ new.pc = "done" /\ new.del = th[t].del
  <2>1. new \in ThreadType
    BY <1>2 DEF ThreadType
  <2> QED BY <1>2, <2>1 DEF ThreadType
<1> HIDE DEF new
<1>4. LocalOK(t, new, dir'.seen)
  BY <1>3, Roles DEF LocalOK, ScannerIs, Calling, Evicting
<1>5. LocalInv' /\ th'[t] = new
  BY <1>1, <1>2, <1>3, <1>4, LocalFrame
<1>6. DataInv' /\ DownInv'
  BY <1>1, <1>2 DEF DataInv, DownInv
<1>7. MutexInv' /\ GoneInv'
  BY <1>1, <1>2, <1>3, MutexFrame, GoneFrame DEF Evicting
<1>8. OwedBy(t) \cap disk \subseteq db'
  BY <1>1, Roles DEF OwedBy
<1>9. DocInv'
  BY <1>1, <1>2, <1>8, DocFrame
<1>10. UncountedBy(t) = dir.start \ dir.seen /\ UncountedBy(t)' = {}
  BY <1>1, <1>3, <1>5, Roles DEF UncountedBy
<1>11. \A s \in Threads \ {t} : UncountedBy(s)' = UncountedBy(s) /\ Taken(s)' = Taken(s)
  BY <1>1, <1>2, OthersStay
<1>12. StartInv' /\ FiniteInv'
  <2>1. Uncounted' \subseteq Uncounted
    BY <1>2, <1>10, <1>11 DEF Uncounted
  <2> QED BY <1>1, <2>1, FS_Subset, FS_EmptySet DEF StartInv, FiniteInv
<1>13. CountInv'
  <2>1. Taken(t)' = 0 /\ Taken(t) = 0
    BY <1>1, <1>3, <1>5 DEF Taken, Evicting
  <2>2. \A s \in Threads : Taken(s)' = Taken(s)
    BY <1>11, <2>1
  <2>3. hist.up /\ ~hist.early /\ ~hist.threw => UncountedBy(t) = {}
    BY <1>1, <1>10 DEF StartInv
  <2>4. hist.up /\ ~hist.early /\ ~hist.threw => Uncounted' = Uncounted
    BY <1>10, <1>11, <2>3 DEF Uncounted
  <2> QED BY <1>1, <2>2, <2>4 DEF CountInv
<1> QED BY <1>5, <1>6, <1>7, <1>9, <1>12, <1>13

-----------------------------------------------------------------------------
LEMMA StutterStep ==
  ASSUME IInv, UNCHANGED vars
  PROVE  IInv'
<1> USE DEF IInv
<1>1. UNCHANGED <<disk, db, cacheSize, mutex, th, dir, hist>>
  BY DEF vars
<1>2. \A t \in Threads : /\ UncountedBy(t)' = UncountedBy(t) /\ Taken(t)' = Taken(t)
                         /\ OwedBy(t)' = OwedBy(t)
  BY <1>1 DEF UncountedBy, Taken, OwedBy, Copied, Unsent, Sent
<1>3. Uncounted' = Uncounted /\ Owed' = Owed
  BY <1>2 DEF Uncounted, Owed
<1>4. LocalInv' /\ DataInv' /\ DownInv' /\ MutexInv' /\ StartInv'
  BY <1>1 DEF LocalInv, DataInv, DownInv, MutexInv, StartInv
<1>5. FiniteInv' /\ CountInv' /\ GoneInv' /\ DocInv'
  BY <1>1, <1>2, <1>3 DEF FiniteInv, CountInv, GoneInv, DocInv
<1> QED BY <1>4, <1>5

LEMMA NextInv ==
  ASSUME IInv, [Next]_vars
  PROVE  IInv'
<1>1. CASE UNCHANGED vars
  BY <1>1, StutterStep
<1>2. ASSUME NEW t \in Threads, Step(t)
      PROVE  IInv'
  BY <1>2, CountStep, TryLockStep, LoadStep, FindStep, UnlinkStep, BatchCountStep,
     BatchDeleteStep, FlushStep, AdjustStep, UnlockStep DEF Step, Evict
<1>3. ASSUME NEW u \in Movers, Move(u) \/ MoveThrows(u)
      PROVE  IInv'
  BY <1>3, CopyStep, BulkStep, RestStep, MoveThrowsStep DEF Move
<1>4. CASE Scan \/ ScanBulk
  BY <1>4, VisitStep, MeasureStep, ScanThrowsStep, LookStep, ScanEndStep,
     ScanBulkStep DEF Scan
<1>5. CASE Crash \/ PermissionsThrow
  BY <1>5, DieStep DEF Crash, PermissionsThrow, At
<1>6. CASE \E t \in Threads : EvictThrows(t)
  BY <1>6, EvictThrowsStep
<1>7. CASE (\E f \in Chunks : Write(f)) \/ Doc
  BY <1>7, WriteStep, DocStep
<1>8. CASE Restart
  BY <1>8, RestartStep
<1> QED BY <1>1, <1>2, <1>3, <1>4, <1>5, <1>6, <1>7, <1>8 DEF Next

LEMMA Invariance == Spec => []IInv
<1> QED BY InitInv, NextInv, PTL DEF Spec

(* Every variable has its type, and no two threads evict at once, for any  *)
(* number of uploads that copy files into the cache.                       *)
THEOREM DiskTyped == Spec => []TypeOK
<1>1. IInv => TypeOK
  <2> SUFFICES ASSUME IInv
               PROVE  TypeOK
    OBVIOUS
  <2>1. Cardinality(mutex) <= 1 /\ mutex \subseteq Threads
    <3>1. CASE mutex = {}
      BY <3>1, FS_EmptySet
    <3>2. CASE mutex # {}
      <4>1. PICK t \in Threads : mutex = {t}
        BY <3>2 DEF IInv, MutexInv
      <4>2. Cardinality({t}) = 1
        BY FS_Singleton
      <4> QED BY <4>1, <4>2
    <3> QED BY <3>1, <3>2
  <2>2. \A t \in Threads : /\ th[t].file \in Files \cup {NoFile}
                           /\ th[t].todo \subseteq Files /\ th[t].del \subseteq Files
    BY ThreadFields DEF IInv
  <2> QED BY <2>1, <2>2 DEF TypeOK, IInv, DataInv
<1> QED BY <1>1, Invariance, PTL

(* The counter never says less than there is on disk, less what threads    *)
(* have still to count, as long as no file is evicted before the scan is   *)
(* over and nothing throws: a cache that is too large is noticed.          *)
THEOREM CacheNeverUnder == Spec => []NeverUnder
<1>1. IInv => NeverUnder
  <2> SUFFICES ASSUME IInv, hist.up, ~hist.early, ~hist.threw
               PROVE  Cardinality(disk) <= cacheSize + Cardinality(Uncounted)
    BY DEF NeverUnder
  <2> DEFINE d == Cardinality(disk)
             c == cacheSize + Cardinality(Uncounted)
             k == Taken("write")
  <2>1. k >= 0 /\ d + k <= c
    BY Roles DEF IInv, CountInv
  <2>2. d \in Int /\ c \in Int
    BY FS_CardinalityType DEF IInv, FiniteInv, DataInv
  <2>3. k \in Int
    BY ThreadFields, Roles DEF IInv, Taken
  <2> HIDE DEF d, c, k
  <2>4. d <= c
    BY <2>1, <2>2, <2>3
  <2> QED BY <2>4 DEF d, c
<1> QED BY <1>1, Invariance, PTL

(* Every file on disk that no thread is still at work on has its document, *)
(* so that an eviction finds it; unless something threw, or a file was     *)
(* written again while its document was being deleted.                     *)
THEOREM EvictionFinds == Spec => []Findable
<1>1. IInv => Findable
  <2> SUFFICES ASSUME IInv, hist.up, ~hist.collided, ~hist.threw
               PROVE  disk \ InWork \subseteq db
    BY DEF Findable
  <2>1. disk \subseteq db \cup Owed
    BY DEF IInv, DocInv
  <2>2. ASSUME NEW f \in Owed, f \in disk
        PROVE  f \in db \cup InWork
    <3>1. PICK t \in Threads : f \in OwedBy(t)
      BY DEF Owed
    <3>2. CASE t = "write"
      BY <3>1, <3>2 DEF OwedBy, InWork
    <3>3. CASE t = "scan"
      <4>1. f \in dir.start
        BY <3>1, <3>3, Roles DEF OwedBy
      <4>2. th["scan"].pc # "done"
        BY <4>1 DEF IInv, DownInv
      <4> QED BY <4>1, <4>2 DEF InWork
    <3>4. CASE t \in Movers
      <4>1. OwedBy(t) \subseteq Copied(t)
        <5>1. OwedBy(t) = IF th[t].pc \in {"idle", "bulk"} THEN Copied(t)
                          ELSE IF th[t].pc = "done" THEN {} ELSE Unsent(t)
          BY <3>4, Roles DEF OwedBy
        <5>2. ASSUME th[t].pc \notin {"idle", "bulk", "done"}
              PROVE  Unsent(t) \subseteq Copied(t)
          <6>1. th[t].next = Len(Parts[t]) + 1
            BY <3>4, <5>2, ThreadFields, Roles DEF IInv, LocalOK, MoverIs
          <6>2. Copied(t) = {Parts[t][i] : i \in 1 .. Len(Parts[t])}
            <7>1. Len(Parts[t]) \in Nat
              BY <3>4, PartsIn
            <7>2. th[t].next - 1 = Len(Parts[t])
              BY <6>1, <7>1
            <7> QED BY <7>2 DEF Copied
          <6> QED BY <3>4, <6>2, PartsIn DEF Unsent
        <5> QED BY <5>1, <5>2
      <4>2. th[t].pc # "done"
        BY <3>1, <3>4, Roles DEF OwedBy
      <4> QED BY <3>1, <3>4, <4>1, <4>2 DEF InWork
    <3> QED BY <3>2, <3>3, <3>4, Roles
  <2> QED BY <2>1, <2>2
<1> QED BY <1>1, Invariance, PTL
=============================================================================
