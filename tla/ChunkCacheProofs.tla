-------------------------- MODULE ChunkCacheProofs --------------------------
(* Theorems about ChunkCache, for every value of its constants.            *)
EXTENDS ChunkCache, FiniteSetTheorems, TLAPS

(* Arithmetic of chunk numbers.                                            *)
LEMMA DivBounds ==
  ASSUME NEW a \in Nat
  PROVE  /\ ChunkNumber(a) \in Nat
         /\ ChunkNumber(a) * BlockSize <= a
         /\ a < (ChunkNumber(a) + 1) * BlockSize
BY SizesAssumption, SMTT(30) DEF ChunkNumber

(* Division by the chunk size is monotone.                                 *)
LEMMA DivMono ==
  ASSUME NEW a \in Nat, NEW b \in Nat, a <= b
  PROVE  ChunkNumber(a) <= ChunkNumber(b)
<1> DEFINE p == ChunkNumber(a)
           q == ChunkNumber(b)
<1>1. p \in Nat /\ q \in Nat /\ p * BlockSize <= a /\ b < (q + 1) * BlockSize
  BY DivBounds
<1>2. p * BlockSize < (q + 1) * BlockSize
  BY <1>1, SizesAssumption
<1> HIDE DEF p, q
<1>3. p < q + 1
  BY <1>1, <1>2, SizesAssumption, SMTT(30)
<1> QED BY <1>1, <1>3 DEF p, q

(* The chunk of an offset inside the file is in the table, and so is the   *)
(* next one when the read spills over.                                     *)
LEMMA ChunkInTable ==
  ASSUME NEW off \in 0 .. (FileSize - 1), NEW size \in Nat,
         off + size <= FileSize
  PROVE  /\ ChunkNumber(off) \in Chunk
         /\ SpillsOver(off, size) => ChunkNumber(off) + 1 \in Chunk
<1>1. ChunkNumber(off) <= ChunkNumber(off + size)
  BY DivMono, SizesAssumption
<1>2. ChunkNumber(off + size) <= ChunkNumber(FileSize)
  BY DivMono, SizesAssumption
<1>3. /\ ChunkNumber(off) \in Nat
      /\ ChunkNumber(off + size) \in Nat
      /\ ChunkNumber(FileSize) \in Nat
  BY DivBounds, SizesAssumption
<1> QED BY <1>1, <1>2, <1>3 DEF Chunk, SpillsOver

(* The chunk asked for with a read at offset 0 is in the tables.           *)
LEMMA LastChunkInTable == LastChunk \in Chunk
<1>1. ChunkNumber(FileSize - 1) <= ChunkNumber(FileSize)
  BY DivMono, SizesAssumption
<1> QED BY <1>1, DivBounds, SizesAssumption DEF LastChunk, Chunk

(* A chunk of the tables asks for a natural number of bytes.               *)
LEMMA ChunkLenNat ==
  ASSUME NEW c \in Chunk
  PROVE  ChunkLen(c) \in Nat
<1>1. c \in Nat /\ c <= ChunkNumber(FileSize)
  BY DivBounds, SizesAssumption DEF Chunk
<1>2. ChunkNumber(FileSize) * BlockSize <= FileSize /\ ChunkNumber(FileSize) \in Nat
  BY DivBounds, SizesAssumption
<1>3. c * BlockSize <= ChunkNumber(FileSize) * BlockSize
  BY <1>1, <1>2, SizesAssumption, SMTT(30)
<1>4. c * BlockSize \in Nat
  BY <1>1, SizesAssumption
<1> QED BY <1>2, <1>3, <1>4, SizesAssumption DEF ChunkLen

-----------------------------------------------------------------------------
(* Reference counting: what Settle keeps and what it erases.               *)
LEMMA SettleFacts ==
  ASSUME NEW it \in [Items -> ItemType],
         NEW wk \in [Chunk -> Items \cup {NoItem}],
         NEW hp \in SUBSET Items,
         NEW hd \in [Readers -> SUBSET Items],
         Settle(it, wk, hp, hd)
  PROVE  /\ heap' = hp
         /\ held' = hd
         /\ item' \in [Items -> ItemType]
         /\ weak' \in [Chunk -> Items \cup {NoItem}]
         /\ Live(item', heap', held') = Live(it, hp, hd)
         /\ \A i \in Live(it, hp, hd) : item'[i] = it[i]
         /\ \A i \in Items : i \notin Live(it, hp, hd) =>
              item'[i].buf = None /\ ~item'[i].token
         /\ \A c \in Chunk : weak'[c] \in Live(it, hp, hd) \cup {NoItem}
<1> DEFINE live == Live(it, hp, hd)
<1>1. live \subseteq Items
  BY DEF Live
<1>2. heap' = hp /\ held' = hd
  BY DEF Settle
<1>3. /\ item' = [i \in Items |->
                    IF i \in live THEN it[i]
                    ELSE IF it[i].task \in Queued
                    THEN [Blank EXCEPT !.task = it[i].task]
                    ELSE Blank]
      /\ weak' = [c \in Chunk |-> IF wk[c] \in live THEN wk[c] ELSE NoItem]
  BY DEF Settle
<1>4. Blank \in ItemType
  BY DivBounds, SizesAssumption DEF Blank, ItemType, None, Chunk
<1>5. \A i \in Items : [Blank EXCEPT !.task = it[i].task] \in ItemType
  BY <1>4 DEF Blank, ItemType
<1> HIDE DEF live
<1>6. item' \in [Items -> ItemType]
  BY <1>3, <1>4, <1>5
<1>7. weak' \in [Chunk -> Items \cup {NoItem}]
  BY <1>1, <1>3
<1>8. \A i \in live : item'[i] = it[i]
  BY <1>1, <1>3
<1>9. \A i \in Items \ live : /\ item'[i].buf = None /\ ~item'[i].token
                               /\ item'[i].task \notin Running
  BY <1>3 DEF Blank, Queued, Running
<1>10. Live(item', hp, hd) = live
  <2>1. {i \in Items : item'[i].task \in Running} \subseteq live
    BY <1>9
  <2>2. {i \in Items : it[i].task \in Running} \subseteq
          {i \in Items : item'[i].task \in Running}
    <3>1. {i \in Items : it[i].task \in Running} \subseteq live
      BY DEF live, Live
    <3> QED BY <3>1, <1>8
  <2>3. hp \cup UNION {hd[r] : r \in Readers} \subseteq live
    BY DEF live, Live
  <2> QED BY <2>1, <2>2, <2>3 DEF live, Live
<1>11. \A c \in Chunk : weak'[c] \in live \cup {NoItem}
  BY <1>3
<1> QED BY <1>2, <1>6, <1>7, <1>8, <1>9, <1>10, <1>11 DEF live

-----------------------------------------------------------------------------
(* Type correctness.                                                       *)
TypeInv == TypeOK /\ RequestInv

(* An idle reader has the reader's type and an empty request.              *)
LEMMA IdleType == Idle \in ReaderType /\ Idle.off + Idle.size <= FileSize
BY SizesAssumption DEF Idle, ReaderType, PC

(* A freed buffer has the type of a buffer.                                *)
LEMMA BlankType == Blank \in ItemType
BY DivBounds, SizesAssumption DEF Blank, ItemType, None, Chunk

(* Where a reader stands, it may index m_buffers.                          *)
LEMMA ChunkAtType ==
  ASSUME TypeInv, NEW r \in Readers
  PROVE  /\ ChunkAt(r) \in Chunk
         /\ ~rd[r].second /\ Spills(r) => ChunkAt(r) + 1 \in Chunk
<1>1. /\ rd[r].off \in 0 .. (FileSize - 1) /\ rd[r].size \in Nat
      /\ rd[r].off + rd[r].size <= FileSize
      /\ rd[r].second \in BOOLEAN
      /\ rd[r].second => Spills(r)
  BY DEF TypeInv, TypeOK, RequestInv, ReaderType
<1>2. /\ ChunkNumber(rd[r].off) \in Chunk
      /\ Spills(r) => ChunkNumber(rd[r].off) + 1 \in Chunk
  BY <1>1, ChunkInTable DEF Spills
<1>3. ChunkNumber(rd[r].off) \in Nat
  BY <1>1, DivBounds, SizesAssumption
<1> QED BY <1>1, <1>2, <1>3 DEF ChunkAt

(* Going on after a chunk keeps the reader's type and its request.         *)
LEMMA NextChunkType ==
  ASSUME TypeInv, NEW r \in Readers, NEW x \in ReaderType,
         x.off = rd[r].off, x.size = rd[r].size, x.second = rd[r].second
  PROVE  /\ NextChunk(r, x) \in ReaderType
         /\ NextChunk(r, x).off = x.off
         /\ NextChunk(r, x).size = x.size
         /\ NextChunk(r, x).second => x.second \/ Spills(r)
         /\ NextChunk(r, x).pc \in {"look", "ahead"}
<1>1. ~x.second /\ Spills(r) => ChunkAt(r) + 1 \in Chunk
  BY ChunkAtType
<1>2. CASE ~x.second /\ Spills(r) /\ x.have
  BY <1>2 DEF NextChunk, ReaderType, PC
<1>3. CASE ~x.second /\ Spills(r) /\ ~x.have
  <2>1. Append(x.need, ChunkAt(r) + 1) \in Seq(Chunk)
    BY <1>1, <1>3 DEF ReaderType
  <2> QED BY <1>3, <2>1 DEF NextChunk, ReaderType, PC
<1>4. CASE ~(~x.second /\ Spills(r))
  BY <1>4 DEF NextChunk, ReaderType, PC
<1> QED BY <1>2, <1>3, <1>4 DEF ReaderType

(* Recording a missing chunk keeps the reader's type and its request.      *)
LEMMA MissingType ==
  ASSUME TypeInv, NEW r \in Readers
  PROVE  /\ Missing(r) \in ReaderType
         /\ Missing(r).off = rd[r].off
         /\ Missing(r).size = rd[r].size
         /\ Missing(r).second => Spills(r)
         /\ Missing(r).pc \in {"look", "ahead"}
<1> DEFINE x == [rd[r] EXCEPT !.need = Append(@, ChunkAt(r))]
<1>1. rd[r] \in ReaderType /\ (rd[r].second => Spills(r))
  BY DEF TypeInv, TypeOK, RequestInv
<1>2. Append(rd[r].need, ChunkAt(r)) \in Seq(Chunk)
  BY <1>1, ChunkAtType DEF ReaderType
<1>3. /\ x \in ReaderType /\ x.off = rd[r].off /\ x.size = rd[r].size
      /\ x.second = rd[r].second
  BY <1>1, <1>2 DEF ReaderType
<1> HIDE DEF x
<1>4. Missing(r) = NextChunk(r, x)
  BY DEF Missing, x
<1> QED BY <1>1, <1>3, <1>4, NextChunkType

(* A step that changes one reader and the types of nothing else.           *)
LEMMA ReaderUpdate ==
  ASSUME TypeInv, NEW r \in Readers, NEW x \in ReaderType,
         x.off + x.size <= FileSize, x.second => SpillsOver(x.off, x.size),
         rd' = [rd EXCEPT ![r] = x]
  PROVE  rd' \in [Readers -> ReaderType] /\ RequestInv'
<1>1. rd \in [Readers -> ReaderType]
  BY DEF TypeInv, TypeOK
<1>2. rd' \in [Readers -> ReaderType]
  BY <1>1
<1>3. \A s \in Readers : rd'[s] = IF s = r THEN x ELSE rd[s]
  BY <1>1
<1>4. RequestInv'
  BY <1>3 DEF RequestInv, TypeInv, Spills
<1> QED BY <1>2, <1>4

(* A restarted process is well typed, whatever is on disk.                 *)
LEMMA RestartType ==
  ASSUME TypeInv, Restart, disk' \in [Chunk -> Nat \cup {None}]
  PROVE  TypeInv'
<1>1. /\ rd' = [r \in Readers |-> Idle] /\ heap' = {} /\ cacheSize' = 0
      /\ item' = [i \in Items |-> Blank] /\ mtx' = TRUE
      /\ held' = [r \in Readers |-> {}] /\ weak' = [c \in Chunk |-> NoItem]
  BY DEF Restart
<1>2. TypeOK'
  BY <1>1, IdleType, BlankType DEF TypeOK
<1>3. RequestInv'
  BY <1>1, IdleType DEF RequestInv, Idle
<1> QED BY <1>2, <1>3 DEF TypeInv

(* Putting a buffer in the cache keeps the types.                          *)
LEMMA PublishType ==
  ASSUME TypeInv, NEW r \in Readers, NEW i \in Items, NEW c \in Chunk,
         NEW x \in ItemType, NEW total \in Nat, NEW own \in SUBSET Items,
         NEW in \in ReaderType, in.off + in.size <= FileSize,
         in.second => SpillsOver(in.off, in.size),
         Publish(r, i, c, x, total, own, in),
         disk' \in [Chunk -> Nat \cup {None}]
  PROVE  TypeInv'
<1> DEFINE it == [item EXCEPT ![i] = x]
           hp == heap \cup {i}
           wk == [weak EXCEPT ![c] = i]
           hd == [held EXCEPT ![r] = own]
<1>1. CASE Overruns(it, hp, total) /\ Restart
  BY <1>1, RestartType
<1>2. CASE \E V \in SUBSET hp :
             /\ Pops(it, hp, total, V)
             /\ cacheSize' = total - WeightOf(it, V)
             /\ rd' = [rd EXCEPT ![r] = in]
             /\ Settle(it, wk, hp \ V, hd)
             /\ UNCHANGED mtx
  <2>1. PICK V \in SUBSET hp :
             /\ Pops(it, hp, total, V)
             /\ cacheSize' = total - WeightOf(it, V)
             /\ rd' = [rd EXCEPT ![r] = in]
             /\ Settle(it, wk, hp \ V, hd)
             /\ UNCHANGED mtx
    BY <1>2
  <2>2. /\ it \in [Items -> ItemType] /\ hp \ V \in SUBSET Items
        /\ wk \in [Chunk -> Items \cup {NoItem}]
        /\ hd \in [Readers -> SUBSET Items]
    BY DEF TypeInv, TypeOK
  <2>3. cacheSize' \in Nat
    BY <2>1, CacheAssumption DEF Pops
  <2>4. rd' \in [Readers -> ReaderType] /\ RequestInv'
    BY <2>1, ReaderUpdate
  <2> HIDE DEF it, hp, wk, hd
  <2>5. /\ heap' = hp \ V /\ held' = hd
        /\ item' \in [Items -> ItemType]
        /\ weak' \in [Chunk -> Items \cup {NoItem}]
    BY <2>1, <2>2, SettleFacts
  <2> QED BY <2>1, <2>2, <2>3, <2>4, <2>5 DEF TypeInv, TypeOK
<1> QED BY <1>1, <1>2 DEF Publish

(* A step of a reader that changes neither the cache nor the lock.         *)
LEMMA SettleType ==
  ASSUME TypeInv, NEW it \in [Items -> ItemType],
         NEW wk \in [Chunk -> Items \cup {NoItem}], NEW hp \in SUBSET Items,
         NEW hd \in [Readers -> SUBSET Items], Settle(it, wk, hp, hd),
         rd' \in [Readers -> ReaderType], RequestInv',
         cacheSize' \in Nat, mtx' \in BOOLEAN,
         disk' \in [Chunk -> Nat \cup {None}]
  PROVE  TypeInv'
<1>1. /\ heap' = hp /\ held' = hd
      /\ item' \in [Items -> ItemType]
      /\ weak' \in [Chunk -> Items \cup {NoItem}]
  BY SettleFacts
<1>2. TypeOK'
  BY <1>1 DEF TypeOK
<1> QED BY <1>2 DEF TypeInv

(* What each step of a reader leaves in its record.                        *)
LEMMA UnwindType ==
  ASSUME TypeInv, NEW r \in Readers
  PROVE  /\ Unwind(rd[r]) \in ReaderType
         /\ Unwind(rd[r]).off + Unwind(rd[r]).size <= FileSize
         /\ Unwind(rd[r]).second =>
              SpillsOver(Unwind(rd[r]).off, Unwind(rd[r]).size)
         /\ Unwind(rd[r]).pc \in {"idle", "thrown"}
<1>1. /\ rd[r] \in ReaderType /\ rd[r].off + rd[r].size <= FileSize
      /\ rd[r].second => SpillsOver(rd[r].off, rd[r].size)
  BY DEF TypeInv, TypeOK, RequestInv, Spills
<1>2. CASE rd[r].retried
  BY <1>2, IdleType DEF Unwind, Idle
<1>3. CASE ~rd[r].retried
  BY <1>1, <1>3 DEF Unwind, ReaderType, PC
<1> QED BY <1>2, <1>3

(* A step that keeps the request and moves on within it.                   *)
LEMMA SameRequest ==
  ASSUME TypeInv, NEW r \in Readers, NEW x \in ReaderType,
         x.off = rd[r].off, x.size = rd[r].size,
         x.second => rd[r].second \/ Spills(r),
         rd' = [rd EXCEPT ![r] = x]
  PROVE  rd' \in [Readers -> ReaderType] /\ RequestInv'
<1>1. rd[r].off + rd[r].size <= FileSize /\ (rd[r].second => Spills(r))
  BY DEF TypeInv, RequestInv
<1>2. x.off + x.size <= FileSize /\ (x.second => SpillsOver(x.off, x.size))
  BY <1>1 DEF Spills
<1> QED BY <1>2, ReaderUpdate

(* A request the kernel may send keeps the types.                          *)
LEMMA StartReadType ==
  ASSUME TypeInv, NEW r \in Readers, StartRead(r)
  PROVE  TypeInv'
<1>1. PICK q \in Requests :
        rd' = [rd EXCEPT ![r] = [Idle EXCEPT !.pc = "begin", !.off = q.off,
                                    !.size = Clamp(q.off, q.size)]]
  BY DEF StartRead
<1>2. q.off \in 0 .. (FileSize - 1) /\ q.size \in Nat
  BY CacheAssumption
<1>3. Clamp(q.off, q.size) \in Nat /\ q.off + Clamp(q.off, q.size) <= FileSize
  BY <1>2, SizesAssumption DEF Clamp
<1> DEFINE x == [Idle EXCEPT !.pc = "begin", !.off = q.off,
                             !.size = Clamp(q.off, q.size)]
<1>4. /\ x \in ReaderType /\ x.off = q.off /\ x.size = Clamp(q.off, q.size)
      /\ x.second = FALSE
  BY <1>2, <1>3, IdleType DEF ReaderType, PC, Idle
<1>5. rd' = [rd EXCEPT ![r] = x]
  BY <1>1
<1> HIDE DEF x
<1>6. rd' \in [Readers -> ReaderType] /\ RequestInv'
  BY <1>3, <1>4, <1>5, ReaderUpdate
<1> QED BY <1>6 DEF StartRead, TypeInv, TypeOK

(* The steps of a reader that touch neither the cache nor the disk.        *)
LEMMA LocalStepType ==
  ASSUME TypeInv, NEW r \in Readers,
         Enter(r) \/ Look(r) \/ EvalGood(r) \/ ProbeMiss(r) \/ Lock(r) \/ Retry(r)
  PROVE  TypeInv'
<1>0. /\ rd \in [Readers -> ReaderType] /\ rd[r] \in ReaderType
      /\ held \in [Readers -> SUBSET Items]
      /\ weak \in [Chunk -> Items \cup {NoItem}]
  BY DEF TypeInv, TypeOK
<1>1. CASE Enter(r)
  <2> DEFINE x == [rd[r] EXCEPT !.pc = "look"]
  <2>1. /\ rd' = [rd EXCEPT ![r] = x] /\ x \in ReaderType
        /\ x.off = rd[r].off /\ x.size = rd[r].size /\ x.second = rd[r].second
    BY <1>0, <1>1 DEF Enter, ReaderType, PC
  <2> HIDE DEF x
  <2>2. rd' \in [Readers -> ReaderType] /\ RequestInv'
    BY <2>1, SameRequest
  <2> QED BY <1>1, <2>2 DEF Enter, TypeInv, TypeOK
<1>2. CASE Look(r) /\ weak[ChunkAt(r)] = NoItem
  <2> DEFINE x == [rd[r] EXCEPT !.pc = "probe"]
  <2>1. /\ rd' = [rd EXCEPT ![r] = x] /\ x \in ReaderType
        /\ x.off = rd[r].off /\ x.size = rd[r].size /\ x.second = rd[r].second
    BY <1>0, <1>2 DEF Look, ReaderType, PC
  <2> HIDE DEF x
  <2>2. rd' \in [Readers -> ReaderType] /\ RequestInv'
    BY <2>1, SameRequest
  <2> QED BY <1>2, <2>2 DEF Look, TypeInv, TypeOK
<1>3. CASE Look(r) /\ weak[ChunkAt(r)] # NoItem
  <2> DEFINE i == weak[ChunkAt(r)]
             p == IF item[i].buf \in {None, 0} THEN "wait" ELSE "eval"
             x == [rd[r] EXCEPT !.cur = i, !.cached = FALSE, !.pc = p]
  <2>1. i \in Items /\ p \in PC
    BY <1>0, <1>3, ChunkAtType DEF PC
  <2>2. /\ rd' = [rd EXCEPT ![r] = x]
        /\ held' = [held EXCEPT ![r] = @ \cup {i}]
    BY <1>0, <1>3 DEF Look
  <2> HIDE DEF p, i
  <2>3. /\ x \in ReaderType
        /\ x.off = rd[r].off /\ x.size = rd[r].size /\ x.second = rd[r].second
    BY <1>0, <2>1 DEF ReaderType
  <2> HIDE DEF x
  <2>4. rd' \in [Readers -> ReaderType] /\ RequestInv'
    BY <2>2, <2>3, SameRequest
  <2>5. held' \in [Readers -> SUBSET Items]
    BY <1>0, <2>1, <2>2
  <2> QED BY <1>3, <2>4, <2>5 DEF Look, TypeInv, TypeOK
<1>4. CASE EvalGood(r)
  <2> DEFINE x == [rd[r] EXCEPT !.pc = "copy"]
  <2>1. /\ rd' = [rd EXCEPT ![r] = x] /\ x \in ReaderType
        /\ x.off = rd[r].off /\ x.size = rd[r].size /\ x.second = rd[r].second
    BY <1>0, <1>4 DEF EvalGood, ReaderType, PC
  <2> HIDE DEF x
  <2>2. rd' \in [Readers -> ReaderType] /\ RequestInv'
    BY <2>1, SameRequest
  <2> QED BY <1>4, <2>2 DEF EvalGood, TypeInv, TypeOK
<1>5. CASE ProbeMiss(r)
  <2>1. rd' = [rd EXCEPT ![r] = Missing(r)]
    BY <1>5 DEF ProbeMiss
  <2>2. rd' \in [Readers -> ReaderType] /\ RequestInv'
    BY <2>1, MissingType, SameRequest
  <2> QED BY <1>5, <2>2 DEF ProbeMiss, TypeInv, TypeOK
<1>6. CASE Lock(r)
  <2> DEFINE x == [rd[r] EXCEPT !.pc = "insert"]
  <2>1. /\ rd' = [rd EXCEPT ![r] = x] /\ x \in ReaderType
        /\ x.off = rd[r].off /\ x.size = rd[r].size /\ x.second = rd[r].second
    BY <1>0, <1>6 DEF Lock, ReaderType, PC
  <2> HIDE DEF x
  <2>2. rd' \in [Readers -> ReaderType] /\ RequestInv'
    BY <2>1, SameRequest
  <2> QED BY <1>6, <2>2 DEF Lock, TypeInv, TypeOK
<1>7. CASE Retry(r)
  <2> DEFINE x == [Idle EXCEPT !.pc = "begin", !.retried = TRUE,
                               !.off = rd[r].off, !.size = rd[r].size]
  <2>1. /\ rd' = [rd EXCEPT ![r] = x] /\ x \in ReaderType
        /\ x.off = rd[r].off /\ x.size = rd[r].size /\ x.second = FALSE
    BY <1>0, <1>7, IdleType DEF Retry, ReaderType, PC, Idle
  <2> HIDE DEF x
  <2>2. rd' \in [Readers -> ReaderType] /\ RequestInv'
    BY <2>1, SameRequest
  <2> QED BY <1>7, <2>2 DEF Retry, TypeInv, TypeOK
<1> QED BY <1>1, <1>2, <1>3, <1>4, <1>5, <1>6, <1>7

(* The steps that use an event and change no ownership.                    *)
LEMMA EventStepType ==
  ASSUME TypeInv, NEW r \in Readers, Wait(r) \/ Relay(r), OwnInv
  PROVE  TypeInv'
<1>0. /\ rd \in [Readers -> ReaderType] /\ rd[r] \in ReaderType
      /\ item \in [Items -> ItemType] /\ held \in [Readers -> SUBSET Items]
  BY DEF TypeInv, TypeOK
<1>1. rd[r].cur \in Items
  BY <1>0 DEF OwnInv, Wait, Relay
<1> DEFINE i == rd[r].cur
           p == IF Wait(r) THEN "relay" ELSE "eval"
           b == IF Wait(r) THEN FALSE ELSE TRUE
           x == [rd[r] EXCEPT !.pc = p]
           y == [item[i] EXCEPT !.token = b]
<1>2. /\ rd' = [rd EXCEPT ![r] = x] /\ item' = [item EXCEPT ![i] = y]
  <2>1. CASE Wait(r)
    BY <1>0, <1>1, <2>1 DEF Wait
  <2>2. CASE ~Wait(r)
    BY <1>0, <1>1, <2>2 DEF Relay
  <2> QED BY <2>1, <2>2
<1>3. p \in PC /\ b \in BOOLEAN
  BY DEF PC
<1> HIDE DEF p, b, i
<1>4. /\ x \in ReaderType
      /\ x.off = rd[r].off /\ x.size = rd[r].size /\ x.second = rd[r].second
  BY <1>0, <1>3 DEF ReaderType
<1>5. y \in ItemType
  BY <1>0, <1>1, <1>3 DEF ItemType, i
<1>6. item' \in [Items -> ItemType]
  BY <1>0, <1>2, <1>5
<1> HIDE DEF x
<1>7. rd' \in [Readers -> ReaderType] /\ RequestInv'
  BY <1>2, <1>4, SameRequest
<1> QED BY <1>6, <1>7 DEF Wait, Relay, TypeInv, TypeOK

(* The steps of a reader that drop pointers or give the lock back.         *)
LEMMA ReturnType ==
  ASSUME TypeInv, NEW r \in Readers, Return(r),
         cacheSize' \in Nat, mtx' \in BOOLEAN,
         disk' \in [Chunk -> Nat \cup {None}]
  PROVE  TypeInv'
<1>1. rd' \in [Readers -> ReaderType] /\ RequestInv'
  BY IdleType, ReaderUpdate DEF Return, Idle
<1>2. /\ [held EXCEPT ![r] = {}] \in [Readers -> SUBSET Items]
      /\ item \in [Items -> ItemType]
      /\ weak \in [Chunk -> Items \cup {NoItem}]
      /\ heap \in SUBSET Items
  BY DEF TypeInv, TypeOK
<1>3. Settle(item, weak, heap, [held EXCEPT ![r] = {}])
  BY DEF Return
<1> QED BY <1>1, <1>2, <1>3, SettleType

(* What Release leaves to a reader is a set of items.                      *)
LEMMA ReleaseType ==
  ASSUME TypeInv, NEW r \in Readers
  PROVE  [held EXCEPT ![r] = Release(r)] \in [Readers -> SUBSET Items]
BY DEF TypeInv, TypeOK, Release

(* Marking a buffer invalid leaves it a buffer.                            *)
LEMMA InvalidType ==
  ASSUME NEW z \in ItemType
  PROVE  [z EXCEPT !.invalid = TRUE] \in ItemType
BY DEF ItemType

(* The steps that give up a reader's pointers.                             *)
LEMMA DropStepType ==
  ASSUME TypeInv, OwnInv, NEW r \in Readers,
         EvalDeleted(r) \/ EvalStale(r) \/ Copy(r) \/ ProbeThrows(r)
           \/ InsertSkip(r) \/ Unlock(r)
  PROVE  TypeInv'
<1>0. /\ rd \in [Readers -> ReaderType] /\ rd[r] \in ReaderType
      /\ held \in [Readers -> SUBSET Items]
      /\ item \in [Items -> ItemType]
      /\ weak \in [Chunk -> Items \cup {NoItem}]
      /\ heap \in SUBSET Items /\ cacheSize \in Nat /\ mtx \in BOOLEAN
      /\ disk \in [Chunk -> Nat \cup {None}]
  BY DEF TypeInv, TypeOK
<1>1. CASE EvalDeleted(r)
  BY <1>0, <1>1, ReturnType DEF EvalDeleted
<1>2. CASE EvalStale(r)
  <2> DEFINE it == [item EXCEPT ![rd[r].cur].invalid = TRUE]
  <2>1. rd' \in [Readers -> ReaderType] /\ RequestInv'
    BY <1>2, MissingType, SameRequest DEF EvalStale
  <2>2. it \in [Items -> ItemType]
    <3>1. rd[r].cur \in Items
      BY <1>0, <1>2 DEF OwnInv, EvalStale
    <3>2. [item[rd[r].cur] EXCEPT !.invalid = TRUE] \in ItemType
      BY <1>0, <3>1, InvalidType
    <3> QED BY <1>0, <3>1, <3>2
  <2>3. Settle(it, weak, heap, [held EXCEPT ![r] = Release(r)])
    BY <1>2 DEF EvalStale
  <2> HIDE DEF it
  <2> QED BY <1>0, <1>2, <2>1, <2>2, <2>3, ReleaseType, SettleType DEF EvalStale
<1>3. CASE Copy(r)
  <2> DEFINE x == [rd[r] EXCEPT !.have = TRUE]
  <2>1. /\ x \in ReaderType /\ x.off = rd[r].off /\ x.size = rd[r].size
        /\ x.second = rd[r].second
    BY <1>0 DEF ReaderType
  <2>2. rd' = [rd EXCEPT ![r] = NextChunk(r, x)]
    BY <1>3 DEF Copy
  <2> HIDE DEF x
  <2>3. rd' \in [Readers -> ReaderType] /\ RequestInv'
    BY <2>1, <2>2, NextChunkType, SameRequest
  <2>4. Settle(item, weak, heap, [held EXCEPT ![r] = Release(r)])
    BY <1>3 DEF Copy
  <2> QED BY <1>0, <1>3, <2>3, <2>4, ReleaseType, SettleType DEF Copy
<1>4. CASE ProbeThrows(r)
  <2>1. rd' = [rd EXCEPT ![r] = Unwind(rd[r])]
    BY <1>0, <1>4 DEF ProbeThrows
  <2>2. rd' \in [Readers -> ReaderType] /\ RequestInv'
    BY <2>1, UnwindType, ReaderUpdate
  <2>3. disk' \in [Chunk -> Nat \cup {None}]
    BY <1>0, <1>4 DEF ProbeThrows
  <2>4. [held EXCEPT ![r] = {}] \in [Readers -> SUBSET Items]
    BY <1>0
  <2> QED BY <1>0, <1>4, <2>2, <2>3, <2>4, SettleType DEF ProbeThrows
<1>5. CASE InsertSkip(r)
  <2> DEFINE x == [rd[r] EXCEPT !.need = Tail(@)]
  <2>1. /\ rd' = [rd EXCEPT ![r] = x] /\ x \in ReaderType
        /\ x.off = rd[r].off /\ x.size = rd[r].size /\ x.second = rd[r].second
    <3>1. Tail(rd[r].need) \in Seq(Chunk) /\ Head(rd[r].need) \in Chunk
      BY <1>0, <1>5 DEF InsertSkip, ReaderType
    <3> QED BY <1>0, <1>5, <3>1 DEF InsertSkip, ReaderType
  <2> HIDE DEF x
  <2>2. rd' \in [Readers -> ReaderType] /\ RequestInv'
    BY <2>1, SameRequest
  <2>3. Found(r) \in SUBSET Items
    <3>1. Head(rd[r].need) \in Chunk
      BY <1>0, <1>5 DEF InsertSkip, ReaderType
    <3> QED BY <1>0, <3>1 DEF Found
  <2>4. [held EXCEPT ![r] = Found(r)] \in [Readers -> SUBSET Items]
    BY <1>0, <2>3
  <2> QED BY <1>0, <1>5, <2>2, <2>4, SettleType DEF InsertSkip
<1>6. CASE Unlock(r)
  <2> DEFINE y == [Idle EXCEPT !.pc = "begin", !.retried = rd[r].retried,
                               !.off = rd[r].off, !.size = rd[r].size]
             x == IF rd[r].done THEN Idle ELSE y
  <2>1. /\ y \in ReaderType /\ y.off = rd[r].off /\ y.size = rd[r].size
        /\ y.second = FALSE
    BY <1>0, IdleType DEF ReaderType, PC, Idle
  <2>2. rd[r].off + rd[r].size <= FileSize
    BY DEF TypeInv, RequestInv
  <2> HIDE DEF y
  <2>3. x \in ReaderType /\ x.off + x.size <= FileSize /\ x.second = FALSE
    BY <2>1, <2>2, IdleType DEF Idle
  <2>4. rd' = [rd EXCEPT ![r] = x]
    BY <1>6 DEF Unlock, y
  <2> HIDE DEF x
  <2>5. rd' \in [Readers -> ReaderType] /\ RequestInv'
    BY <2>3, <2>4, ReaderUpdate
  <2>6. [held EXCEPT ![r] = {}] \in [Readers -> SUBSET Items]
    BY <1>0
  <2> QED BY <1>0, <1>6, <2>5, <2>6, SettleType DEF Unlock
<1> QED BY <1>1, <1>2, <1>3, <1>4, <1>5, <1>6

(* A chunk that starts inside the file is in the table.                    *)
LEMMA StartInTable ==
  ASSUME NEW c \in Nat, c * BlockSize < FileSize
  PROVE  c \in Chunk
<1> DEFINE q == ChunkNumber(FileSize)
<1>1. q \in Nat /\ FileSize < (q + 1) * BlockSize
  BY DivBounds, SizesAssumption
<1>2. c * BlockSize < (q + 1) * BlockSize
  BY <1>1, SizesAssumption
<1>3. q \in Nat
  BY <1>1
<1> HIDE DEF q
<1>4. c < q + 1
  BY <1>2, <1>3, SizesAssumption, SMTT(30)
<1> QED BY <1>3, <1>4 DEF Chunk, q

(* The chunks wanted ahead are indices of m_buffers.                       *)
LEMMA AheadChunksType ==
  ASSUME TypeInv, NEW r \in Readers
  PROVE  AheadChunks(r) \in Seq(Chunk)
<1> DEFINE first == ChunkNumber(rd[r].off) + (IF Spills(r) THEN 2 ELSE 1)
           S == {k \in 1 .. ReadAhead : (first + k - 1) * BlockSize < FileSize}
           count == Cardinality(S)
<1>1. first \in Nat
  <2>1. rd[r].off \in Nat
    BY SizesAssumption DEF TypeInv, TypeOK, ReaderType
  <2>2. ChunkNumber(rd[r].off) \in Nat
    BY <2>1, DivBounds
  <2> QED BY <2>2
<1>2. S \in SUBSET (1 .. ReadAhead)
  OBVIOUS
<1>3. IsFiniteSet(1 .. ReadAhead) /\ IsFiniteSet(S) /\ count \in Nat
  <2>1. IsFiniteSet(1 .. ReadAhead)
    BY FS_Interval, CacheAssumption
  <2> HIDE DEF S
  <2>2. IsFiniteSet(S)
    BY <1>2, <2>1, FS_Subset
  <2> QED BY <2>1, <2>2, FS_CardinalityType
<1>4. AheadChunks(r) = IF /\ rd[r].off % BlockSize \in AheadWindow
                          /\ count > 0 /\ disk[first] = None
                       THEN [k \in 1 .. count |-> first + k - 1]
                       ELSE <<>>
  BY DEF AheadChunks
<1>5. ASSUME count > 0
      PROVE  count \in S
  <2>1. SUFFICES ASSUME count \notin S PROVE FALSE
    OBVIOUS
  <2>2. ASSUME NEW k \in S, k > count
        PROVE  FALSE
    <3> DEFINE a == first + k - 1
               b == first + count - 1
    <3>1. /\ k \in Nat /\ k <= ReadAhead /\ a * BlockSize < FileSize
          /\ a \in Nat /\ b \in Nat /\ b < a
      BY <1>1, <1>3, <1>5, <2>2, CacheAssumption
    <3>2. count \in 1 .. ReadAhead
      BY <1>3, <1>5, <2>2, <3>1, CacheAssumption
    <3> HIDE DEF a, b, count
    <3>3. b * BlockSize < a * BlockSize
      BY <3>1, SizesAssumption, SMTT(30)
    <3>4. b * BlockSize \in Nat /\ a * BlockSize \in Nat
      BY <3>1, SizesAssumption
    <3>5. b * BlockSize < FileSize
      BY <3>1, <3>3, <3>4, SizesAssumption
    <3> QED BY <2>1, <3>2, <3>5 DEF b
  <2>3. S \subseteq 1 .. (count - 1)
    <3>1. ASSUME NEW k \in S PROVE k \in 1 .. (count - 1)
      <4>1. k # count /\ ~(k > count)
        BY <2>1, <2>2, <3>1
      <4>2. k \in Nat /\ k >= 1
        BY <1>2, CacheAssumption
      <4> HIDE DEF count
      <4> QED BY <4>1, <4>2, <1>3
    <3> QED BY <3>1
  <2>4. Cardinality(S) <= Cardinality(1 .. (count - 1))
    <3>1. IsFiniteSet(1 .. (count - 1))
      <4> HIDE DEF count
      <4> QED BY <1>3, FS_Interval
    <3> HIDE DEF S
    <3> QED BY <2>3, <3>1, FS_Subset
  <2>5. Cardinality(1 .. (count - 1)) = count - 1
    <3> HIDE DEF count
    <3>1. \/ count - 1 \in Int /\ 1 \in Int /\ ~(1 > count - 1)
          \/ count = 1
      BY <1>3, <1>5
    <3>2. Cardinality(1 .. (count - 1)) = IF 1 > count - 1 THEN 0 ELSE count - 1 - 1 + 1
      BY <1>3, FS_Interval
    <3> QED BY <1>3, <1>5, <3>1, <3>2
  <2> QED BY <1>3, <2>4, <2>5
<1>6. ASSUME count > 0, NEW k \in 1 .. count
      PROVE  first + k - 1 \in Chunk
  <2> DEFINE a == first + k - 1
             b == first + count - 1
  <2>1. b * BlockSize < FileSize
    BY <1>5, <1>6
  <2>2. a \in Nat /\ b \in Nat /\ a <= b
    BY <1>1, <1>3, <1>6
  <2> HIDE DEF a, b, count
  <2>3. a * BlockSize <= b * BlockSize
    BY <2>2, SizesAssumption, SMTT(30)
  <2>4. a * BlockSize \in Nat /\ b * BlockSize \in Nat
    BY <2>2, SizesAssumption
  <2>5. a * BlockSize < FileSize
    BY <2>1, <2>3, <2>4, SizesAssumption
  <2>6. a \in Chunk
    BY <2>2, <2>5, StartInTable
  <2> QED BY <2>6 DEF a
<1> HIDE DEF count, first
<1>7. count > 0 => [k \in 1 .. count |-> first + k - 1] \in Seq(Chunk)
  BY <1>3, <1>6
<1> QED BY <1>4, <1>7

(* The chunks a reader wants ahead are chunks of the tables.               *)
LEMMA AheadType ==
  ASSUME TypeInv, NEW r \in Readers, Ahead(r)
  PROVE  TypeInv'
<1> DEFINE need == rd[r].need \o LastChunkAhead(rd[r].off) \o AheadChunks(r)
<1>1. rd[r] \in ReaderType
  BY DEF TypeInv, TypeOK
<1>2. need \in Seq(Chunk)
  <2>1. rd[r].need \in Seq(Chunk)
    BY <1>1 DEF ReaderType
  <2>2. LastChunkAhead(rd[r].off) \in Seq(Chunk)
    BY LastChunkInTable DEF LastChunkAhead
  <2> QED BY <2>1, <2>2, AheadChunksType
<1>3. CASE need = <<>>
  BY <1>3, ReturnType DEF Ahead, TypeInv, TypeOK
<1>4. CASE need # <<>>
  <2> DEFINE d == rd[r].need = <<>>
             x == [rd[r] EXCEPT !.need = need, !.pc = "lock", !.done = d]
  <2>1. rd' = [rd EXCEPT ![r] = x]
    BY <1>1, <1>4 DEF Ahead, TypeInv, TypeOK
  <2>2. UNCHANGED <<item, weak, heap, held, cacheSize, mtx, disk>>
    BY <1>4 DEF Ahead
  <2>3. d \in BOOLEAN
    OBVIOUS
  <2> HIDE DEF need, d
  <2>4. /\ x \in ReaderType
        /\ x.off = rd[r].off /\ x.size = rd[r].size /\ x.second = rd[r].second
    BY <1>1, <1>2, <2>3 DEF ReaderType, PC
  <2> HIDE DEF x
  <2>5. rd' \in [Readers -> ReaderType] /\ RequestInv'
    BY <2>1, <2>4, SameRequest
  <2> QED BY <2>2, <2>5 DEF TypeInv, TypeOK
<1> QED BY <1>3, <1>4

(* A chunk file read into memory keeps the types.                          *)
LEMMA ProbeHitType ==
  ASSUME TypeInv, NEW r \in Readers, ProbeHit(r)
  PROVE  TypeInv'
<1> DEFINE c == ChunkAt(r)
           n == disk[c]
<1>1. /\ rd[r] \in ReaderType /\ held[r] \in SUBSET Items
      /\ rd[r].off + rd[r].size <= FileSize /\ (rd[r].second => Spills(r))
      /\ disk \in [Chunk -> Nat \cup {None}] /\ cacheSize \in Nat
  BY DEF TypeInv, TypeOK, RequestInv
<1>2. c \in Chunk /\ n \in Nat
  BY <1>1, ChunkAtType DEF ProbeHit
<1>3. PICK i \in Unused :
        Publish(r, i, c, [Blank EXCEPT !.chunk = c, !.buf = n, !.size = n],
                cacheSize + n, held[r] \cup {i},
                [rd[r] EXCEPT !.pc = "copy", !.cur = i, !.cached = TRUE])
  BY DEF ProbeHit
<1> DEFINE x == [Blank EXCEPT !.chunk = c, !.buf = n, !.size = n]
           y == [rd[r] EXCEPT !.pc = "copy", !.cur = i, !.cached = TRUE]
<1>4. i \in Items /\ held[r] \cup {i} \in SUBSET Items
  BY <1>1 DEF Unused
<1>5. disk' = disk /\ Publish(r, i, c, x, cacheSize + n, held[r] \cup {i}, y)
  BY <1>3 DEF ProbeHit
<1> HIDE DEF c, n
<1>6. x \in ItemType
  BY <1>2, BlankType DEF ItemType, Blank
<1>7. /\ y \in ReaderType
      /\ y.off = rd[r].off /\ y.size = rd[r].size /\ y.second = rd[r].second
  BY <1>1, <1>4 DEF ReaderType, PC
<1> HIDE DEF x, y
<1>8. y.off + y.size <= FileSize /\ (y.second => SpillsOver(y.off, y.size))
  BY <1>1, <1>7 DEF Spills
<1>9. cacheSize + n \in Nat
  BY <1>1, <1>2
<1>10. disk' \in [Chunk -> Nat \cup {None}]
  BY <1>1, <1>5
<1> QED BY <1>2, <1>4, <1>5, <1>6, <1>7, <1>8, <1>9, <1>10, PublishType

(* The insertion of a chunk to be filled keeps the types.                  *)
LEMMA InsertType ==
  ASSUME TypeInv, NEW r \in Readers, Insert(r) \/ InsertThrows(r)
  PROVE  TypeInv'
<1> DEFINE c == Head(rd[r].need)
           total == cacheSize + ChunkLen(c)
<1>1. /\ rd[r] \in ReaderType /\ weak \in [Chunk -> Items \cup {NoItem}]
      /\ rd[r].off + rd[r].size <= FileSize /\ (rd[r].second => Spills(r))
      /\ disk \in [Chunk -> Nat \cup {None}] /\ cacheSize \in Nat
  BY DEF TypeInv, TypeOK, RequestInv
<1>2. c \in Chunk /\ Tail(rd[r].need) \in Seq(Chunk)
  <2>1. rd[r].need \in Seq(Chunk) /\ rd[r].need # <<>>
    BY <1>1 DEF ReaderType, Insert, InsertThrows
  <2> QED BY <2>1
<1>3. ChunkLen(c) \in Nat
  BY <1>2, ChunkLenNat
<1>4. total \in Nat
  BY <1>1, <1>3
<1>5. disk' \in [Chunk -> Nat \cup {None}]
  BY <1>1, <1>2 DEF Insert, InsertThrows
<1>6. CASE Insert(r)
  <2> DEFINE t == IF OnDisk(c) THEN "read" ELSE "fetch"
             x == [Blank EXCEPT !.chunk = c, !.size = ChunkLen(c), !.task = t]
             y == [rd[r] EXCEPT !.need = Tail(@)]
  <2>1. PICK i \in Unused : Publish(r, i, c, x, total, Found(r), y)
    BY <1>6 DEF Insert
  <2>2. i \in Items /\ t \in Queued
    BY DEF Unused, Queued
  <2>3. Found(r) \in SUBSET Items
    BY <1>1, <1>2 DEF Found
  <2> HIDE DEF t, c
  <2>4. x \in ItemType
    BY <1>2, <1>3, <2>2, BlankType DEF ItemType, Blank
  <2>5. /\ y \in ReaderType
        /\ y.off = rd[r].off /\ y.size = rd[r].size /\ y.second = rd[r].second
    BY <1>1, <1>2 DEF ReaderType
  <2> HIDE DEF x, y, total
  <2>6. y.off + y.size <= FileSize /\ (y.second => SpillsOver(y.off, y.size))
    BY <1>1, <2>5 DEF Spills
  <2> QED BY <1>2, <1>4, <1>5, <2>1, <2>2, <2>3, <2>4, <2>5, <2>6, PublishType
<1>7. CASE InsertThrows(r)
  <2> DEFINE x == [Blank EXCEPT !.chunk = c, !.size = ChunkLen(c)]
             y == Unwind(rd[r])
  <2>1. PICK i \in Unused : Publish(r, i, c, x, total, {}, y)
    BY <1>7 DEF InsertThrows
  <2>2. i \in Items
    BY DEF Unused
  <2> HIDE DEF c
  <2>3. x \in ItemType
    BY <1>2, <1>3, BlankType DEF ItemType, Blank
  <2>4. /\ y \in ReaderType /\ y.off + y.size <= FileSize
        /\ (y.second => SpillsOver(y.off, y.size))
    BY UnwindType
  <2> HIDE DEF x, y, total
  <2> QED BY <1>2, <1>4, <1>5, <2>1, <2>2, <2>3, <2>4, PublishType
<1> QED BY <1>6, <1>7

(* The steps of the thread pools.                                          *)
LEMMA StepType ==
  ASSUME TypeInv, NEW i \in Items, NEW x \in ItemType, Step(i, x),
         disk' \in [Chunk -> Nat \cup {None}]
  PROVE  TypeInv'
<1>1. /\ [item EXCEPT ![i] = x] \in [Items -> ItemType]
      /\ weak \in [Chunk -> Items \cup {NoItem}] /\ heap \in SUBSET Items
      /\ held \in [Readers -> SUBSET Items]
  BY DEF TypeInv, TypeOK
<1>2. UNCHANGED <<cacheSize, rd, mtx>>
  BY DEF Step
<1>3. Settle([item EXCEPT ![i] = x], weak, heap, held)
  BY DEF Step
<1>4. rd' \in [Readers -> ReaderType] /\ RequestInv'
  BY <1>2 DEF TypeInv, TypeOK, RequestInv, Spills
<1>5. cacheSize' \in Nat /\ mtx' \in BOOLEAN
  BY <1>2 DEF TypeInv, TypeOK
<1> QED BY <1>1, <1>3, <1>4, <1>5, SettleType

(* The thread pools' steps keep the types.                                 *)
LEMMA TaskType ==
  ASSUME TypeInv, NEW i \in Items, TaskStep(i)
  PROVE  TypeInv'
<1> DEFINE z == item[i]
           n == disk[z.chunk]
<1>1. /\ z \in ItemType /\ z.chunk \in Chunk
      /\ disk \in [Chunk -> Nat \cup {None}] /\ n \in Nat \cup {None}
  BY DEF TypeInv, TypeOK, ItemType
<1>2. \A b \in Nat : /\ [z EXCEPT !.task = "none", !.token = TRUE, !.buf = b] \in ItemType
                     /\ [z EXCEPT !.task = "write", !.token = TRUE, !.buf = b] \in ItemType
  <2> HIDE DEF z
  <2> QED BY <1>1 DEF ItemType, Queued
<1>3. /\ [z EXCEPT !.task = "none"] \in ItemType
      /\ [z EXCEPT !.task = "writing"] \in ItemType
      /\ [z EXCEPT !.task = "reading", !.backoff = FALSE] \in ItemType
      /\ [z EXCEPT !.task = "fetching", !.backoff = FALSE] \in ItemType
      /\ [z EXCEPT !.backoff = TRUE] \in ItemType
      /\ [z EXCEPT !.task = "none", !.token = TRUE, !.invalid = TRUE] \in ItemType
      /\ [z EXCEPT !.task = "none", !.token = TRUE,
                   !.invalid = TRUE, !.deleted = TRUE] \in ItemType
  <2> HIDE DEF z
  <2> QED BY <1>1 DEF ItemType, Running
<1>4. CASE Expire(i)
  BY <1>1, <1>4, BlankType, StepType DEF Expire
<1>5. CASE ReadStart(i)
  BY <1>1, <1>3, <1>5, StepType DEF ReadStart, StartTask
<1>6. CASE FetchStart(i)
  BY <1>1, <1>3, <1>6, StepType DEF FetchStart, StartTask
<1>7. CASE ReadOk(i)
  BY <1>1, <1>2, <1>7, StepType DEF ReadOk
<1>8. CASE ReadFails(i)
  BY <1>1, <1>3, <1>8, StepType DEF ReadFails
<1>9. CASE ReadAborts(i)
  BY <1>1, <1>9, RestartType DEF ReadAborts
<1>10. CASE FetchOk(i)
  <2>1. PICK b \in Bodies[z.chunk] :
          Step(i, [z EXCEPT !.task = "write", !.token = TRUE, !.buf = b])
    BY <1>10 DEF FetchOk
  <2>2. b \in Nat
    BY <1>1, CacheAssumption
  <2> HIDE DEF z
  <2> QED BY <1>1, <1>2, <1>10, <2>1, <2>2, StepType DEF FetchOk
<1>11. CASE FetchError(i)
  BY <1>1, <1>3, <1>11, StepType DEF FetchError
<1>12. CASE Fetch404(i)
  BY <1>1, <1>3, <1>12, StepType DEF Fetch404
<1>13. CASE WriteStart(i)
  <2>1. disk' \in [Chunk -> Nat \cup {None}]
    BY <1>1, <1>13, CacheAssumption DEF WriteStart
  <2>2. Step(i, [z EXCEPT !.task = "none"]) \/ Step(i, [z EXCEPT !.task = "writing"])
    BY <1>13 DEF WriteStart
  <2> HIDE DEF z
  <2> QED BY <1>3, <2>1, <2>2, StepType
<1>14. CASE WriteEnd(i)
  <2>1. item[i].buf \in Nat \cup {None}
    BY <1>1 DEF ItemType
  <2>2. disk' \in [Chunk -> Nat \cup {None}]
    BY <1>1, <1>14, <2>1 DEF WriteEnd
  <2> QED BY <1>3, <1>14, <2>2, StepType DEF WriteEnd
<1>15. CASE WriteAborts(i)
  BY <1>1, <1>15, RestartType DEF WriteAborts
<1> QED BY <1>4, <1>5, <1>6, <1>7, <1>8, <1>9, <1>10, <1>11, <1>12, <1>13,
            <1>14, <1>15 DEF TaskStep

(* The first states are well typed.                                        *)
LEMMA InitType == Init => TypeInv
<1> SUFFICES ASSUME Init PROVE TypeInv
  OBVIOUS
<1>1. TypeOK
  BY IdleType, BlankType DEF Init, TypeOK, None
<1>2. RequestInv
  BY IdleType DEF Init, RequestInv, Idle
<1> QED BY <1>1, <1>2 DEF TypeInv

(* Every step keeps the types.                                             *)
LEMMA NextType ==
  ASSUME TypeInv, OwnInv, [Next]_vars
  PROVE  TypeInv'
<1>1. ASSUME NEW r \in Readers, ReaderStep(r)
      PROVE  TypeInv'
  BY <1>1, LocalStepType, EventStepType, DropStepType, AheadType,
     ProbeHitType, InsertType DEF ReaderStep
<1>2. ASSUME NEW r \in Readers, StartRead(r)
      PROVE  TypeInv'
  BY <1>2, StartReadType
<1>3. ASSUME NEW r \in Readers, ProbeThrows(r) \/ InsertThrows(r)
      PROVE  TypeInv'
  BY <1>3, DropStepType, InsertType
<1>4. ASSUME NEW c \in Chunk, EvictFile(c)
      PROVE  TypeInv'
  BY <1>4 DEF EvictFile, TypeInv, TypeOK, RequestInv, Spills
<1>5. CASE Crash
  BY <1>5, RestartType DEF Crash, TypeInv, TypeOK
<1>6. CASE UNCHANGED vars
  BY <1>6 DEF vars, TypeInv, TypeOK, RequestInv, Spills
<1> QED BY <1>1, <1>2, <1>3, <1>4, <1>5, <1>6, TaskType DEF Next

-----------------------------------------------------------------------------
(* The shared pointers of ChunkCache keep what readers use alive, and the  *)
(* event of a buffer is a latch: NoNullDeref and NoLostWakeup for every    *)
(* value of the constants.                                                 *)

IInv  == TypeInv /\ OwnInv /\ WeakInv /\ SettledInv
Latch == LatchInv /\ NoLostWakeup

LiveNow == Live(item, heap, held)
Filled(z) == z.buf # None \/ z.invalid
Owning == {"wait", "relay", "eval", "copy"}

(* SettleFacts in one formula.                                             *)
After(it, hp, hd) ==
  /\ heap' = hp /\ held' = hd
  /\ Live(item', heap', held') = Live(it, hp, hd)
  /\ \A i \in Live(it, hp, hd) : item'[i] = it[i]
  /\ \A i \in Items : i \notin Live(it, hp, hd) =>
       item'[i].buf = None /\ ~item'[i].token
  /\ \A c \in Chunk : weak'[c] \in Live(it, hp, hd) \cup {NoItem}

(* What Settle leaves: the live items keep the fields they were given.     *)
LEMMA SettleAfter ==
  ASSUME NEW it \in [Items -> ItemType],
         NEW wk \in [Chunk -> Items \cup {NoItem}],
         NEW hp \in SUBSET Items,
         NEW hd \in [Readers -> SUBSET Items],
         Settle(it, wk, hp, hd)
  PROVE  After(it, hp, hd)
<1>1. heap' = hp /\ held' = hd
  BY SettleFacts
<1>2. Live(item', heap', held') = Live(it, hp, hd)
  BY SettleFacts
<1>3. \A i \in Live(it, hp, hd) : item'[i] = it[i]
  BY SettleFacts
<1>4. \A i \in Items : i \notin Live(it, hp, hd) =>
        item'[i].buf = None /\ ~item'[i].token
  BY SettleFacts
<1>5. \A c \in Chunk : weak'[c] \in Live(it, hp, hd) \cup {NoItem}
  BY SettleFacts
<1> QED BY <1>1, <1>2, <1>3, <1>4, <1>5 DEF After

(* From item to it, only the items of fresh change what the latch sees.    *)
Keeps(it, fresh) ==
  /\ \A j \in Items \ fresh : /\ it[j].task = item[j].task
                              /\ it[j].token = item[j].token
                              /\ it[j].buf = item[j].buf
                              /\ item[j].invalid => it[j].invalid
  /\ \A j \in fresh : ~it[j].token

Ready(it, fresh) ==
  \A j \in fresh : it[j].buf \notin {None, 0} \/ it[j].task \in Pending

(* The live items are items.                                               *)
LEMMA LiveItems ==
  ASSUME TypeInv
  PROVE  /\ LiveNow \subseteq Items
         /\ \A r \in Readers : held[r] \subseteq LiveNow
         /\ heap \subseteq LiveNow
BY DEF LiveNow, Live, TypeInv, TypeOK

(* A step of reader r that settles the items: fresh are the items it adds, *)
(* the other items keep what the latch depends on.                         *)
LEMMA ReaderSettles ==
  ASSUME IInv, NEW r \in Readers, NEW x \in ReaderType,
         NEW own \in SUBSET Items, NEW it \in [Items -> ItemType],
         NEW wk \in [Chunk -> Items \cup {NoItem}], NEW hp \in SUBSET Items,
         NEW fresh \in SUBSET Items,
         rd' = [rd EXCEPT ![r] = x],
         Settle(it, wk, hp, [held EXCEPT ![r] = own]),
         x.pc \notin {"wait", "relay", "eval"},
         x.pc = "copy" => x.cur \in own,
         fresh \cap LiveNow = {},
         hp \cup own \subseteq LiveNow \cup fresh,
         Keeps(it, fresh)
  PROVE  /\ OwnInv' /\ WeakInv' /\ SettledInv'
         /\ Latch /\ rd[r].pc # "relay" /\ Ready(it, fresh) => Latch'
<1>0. /\ rd \in [Readers -> ReaderType] /\ held \in [Readers -> SUBSET Items]
      /\ [held EXCEPT ![r] = own] \in [Readers -> SUBSET Items]
  BY DEF IInv, TypeInv, TypeOK
<1>b. /\ \A j \in Items \ fresh : /\ it[j].task = item[j].task
                                  /\ it[j].token = item[j].token
                                  /\ it[j].buf = item[j].buf
                                  /\ item[j].invalid => it[j].invalid
      /\ \A j \in fresh : ~it[j].token
  BY DEF Keeps
<1>a. PICK hd \in [Readers -> SUBSET Items] : hd = [held EXCEPT ![r] = own]
  BY <1>0
<1> DEFINE live == Live(it, hp, hd)
<1>1. /\ heap' = hp /\ held' = hd
      /\ Live(item', heap', held') = live
      /\ \A i \in live : item'[i] = it[i]
      /\ \A i \in Items : i \notin live => item'[i].buf = None /\ ~item'[i].token
      /\ \A c \in Chunk : weak'[c] \in live \cup {NoItem}
  <2>1. Settle(it, wk, hp, hd)
    BY <1>a
  <2>2. After(it, hp, hd)
    BY <2>1, SettleAfter
  <2> QED BY <2>2 DEF After
<1>2. \A s \in Readers : /\ rd'[s] = IF s = r THEN x ELSE rd[s]
                         /\ held'[s] = IF s = r THEN own ELSE held[s]
  BY <1>0, <1>1, <1>a
<1>3. live \subseteq Items /\ \A s \in Readers : held'[s] \subseteq live
  BY <1>0, <1>1 DEF Live
<1>4. OwnInv'
  BY <1>2 DEF OwnInv, IInv
<1>5. WeakInv'
  BY <1>1 DEF WeakInv
<1>6. \A s \in Readers : s # r => held[s] \subseteq LiveNow
  BY <1>0 DEF LiveNow, Live
<1>7. SettledInv'
  <2>1. ASSUME NEW i \in Items, item'[i].token
        PROVE  item'[i].buf # None \/ item'[i].invalid
    <3>1. i \in live /\ item'[i] = it[i]
      BY <1>1, <2>1
    <3>2. i \notin fresh
      BY <1>b, <2>1, <3>1
    <3>3. item[i].token /\ it[i].buf = item[i].buf
          /\ (item[i].invalid => it[i].invalid)
      BY <1>b, <2>1, <3>1, <3>2
    <3>4. item[i].buf # None \/ item[i].invalid
      BY <3>3 DEF IInv, SettledInv, Settled
    <3> QED BY <3>1, <3>3, <3>4
  <2>2. ASSUME NEW s \in Readers, rd'[s].pc \in {"relay", "eval"}
        PROVE  item'[rd'[s].cur].buf # None \/ item'[rd'[s].cur].invalid
    <3> DEFINE i == rd[s].cur
    <3>1. s # r /\ rd'[s] = rd[s] /\ i \in held[s]
      BY <1>2, <2>2 DEF IInv, OwnInv
    <3>2. i \in Items /\ i \notin fresh /\ item'[i] = it[i]
      BY <1>0, <1>1, <1>2, <1>3, <1>6, <3>1
    <3>3. item[i].buf # None \/ item[i].invalid
      BY <2>2, <3>1 DEF IInv, SettledInv, Settled
    <3> QED BY <1>b, <3>1, <3>2, <3>3
  <2> QED BY <2>1, <2>2 DEF SettledInv, Settled
<1>8. ASSUME Latch, rd[r].pc # "relay", Ready(it, fresh)
      PROVE  Latch'
  <2>1. \A i \in Items : Relaying(i) => Relaying(i)'
    BY <1>2, <1>8 DEF Relaying
  <2>2. ASSUME NEW i \in live \ fresh, Open(i)
        PROVE  Open(i)'
    BY <1>1, <1>3, <1>b, <2>1, <2>2 DEF Open
  <2>3. live \subseteq LiveNow \cup fresh
    <3>1. \A i \in Items : it[i].task \in Running => i \in LiveNow \cup fresh
      BY <1>b DEF LiveNow, Live
    <3>2. \A s \in Readers : hd[s] \subseteq LiveNow \cup fresh
      BY <1>0, <1>6, <1>a
    <3> QED BY <3>1, <3>2 DEF Live
  <2>4. ASSUME NEW i \in live, item'[i].buf \in {None, 0}
        PROVE  Open(i)'
    <3>1. item'[i] = it[i]
      BY <1>1
    <3>2. CASE i \in fresh
      BY <1>8, <2>4, <3>1, <3>2 DEF Open, Ready
    <3>3. CASE i \notin fresh
      <4>1. i \in LiveNow /\ item[i].buf \in {None, 0}
        BY <1>3, <1>b, <2>3, <2>4, <3>1, <3>3
      <4>2. Open(i)
        BY <1>8, <4>1 DEF Latch, LatchInv, LiveNow
      <4> QED BY <2>2, <3>3, <4>2
    <3> QED BY <3>2, <3>3
  <2>5. LatchInv'
    BY <1>1, <2>4 DEF LatchInv
  <2>6. ASSUME NEW s \in Readers, (rd[s].pc = "wait")'
        PROVE  Open(rd[s].cur)'
    <3>1. s # r /\ rd'[s] = rd[s] /\ rd[s].cur \in held[s]
      BY <1>2, <2>6 DEF IInv, OwnInv
    <3>2. PICK i \in Items : i = rd[s].cur
      BY <1>0, <3>1
    <3>3. i \in live /\ i \in LiveNow
      BY <1>2, <1>3, <1>6, <3>1, <3>2
    <3>4. Open(i)
      BY <1>8, <2>6, <3>1, <3>2 DEF Latch, NoLostWakeup, Open
    <3>5. i \notin fresh
      BY <3>3
    <3>6. Open(i)'
      BY <2>2, <3>3, <3>4, <3>5
    <3>7. rd'[s].cur = i
      BY <3>1, <3>2
    <3> QED BY <3>6, <3>7 DEF Open, Relaying
  <2> QED BY <2>5, <2>6 DEF Latch, NoLostWakeup, Open
<1> QED BY <1>4, <1>5, <1>7, <1>8

(* A step of reader r that leaves the items and every pointer alone.       *)
LEMMA ReaderMoves ==
  ASSUME IInv, NEW r \in Readers, NEW x \in ReaderType,
         rd' = [rd EXCEPT ![r] = x], rd[r].pc # "relay",
         UNCHANGED <<weak, heap, item, held>>,
         x.pc \notin {"wait", "relay", "eval"},
         x.pc = "copy" => x.cur \in held[r]
  PROVE  OwnInv' /\ WeakInv' /\ SettledInv' /\ (Latch => Latch')
<1>0. rd \in [Readers -> ReaderType]
  BY DEF IInv, TypeInv, TypeOK
<1>1. \A s \in Readers : rd'[s] = IF s = r THEN x ELSE rd[s]
  BY <1>0
<1>2. OwnInv'
  BY <1>1 DEF IInv, OwnInv
<1>3. WeakInv'
  BY DEF IInv, WeakInv, Live
<1>4. SettledInv'
  BY <1>1 DEF IInv, SettledInv, Settled
<1>5. ASSUME Latch
      PROVE  Latch'
  <2>1. \A i \in Items : Open(i) => Open(i)'
    BY <1>1 DEF Open, Relaying
  <2>2. Live(item, heap, held) \subseteq Items
    BY LiveItems DEF IInv, LiveNow
  <2>3. LatchInv'
    BY <1>5, <2>1, <2>2 DEF Latch, LatchInv, Live
  <2>4. NoLostWakeup'
    BY <1>1, <1>5 DEF Latch, NoLostWakeup, Relaying
  <2> QED BY <2>3, <2>4 DEF Latch
<1> QED BY <1>2, <1>3, <1>4, <1>5

(* The reader's steps that change no ownership keep the invariant.         *)
LEMMA MoveSteps ==
  ASSUME IInv, NEW r \in Readers,
         \/ StartRead(r) \/ Enter(r) \/ EvalGood(r) \/ ProbeMiss(r) \/ Lock(r)
         \/ Retry(r) \/ (Ahead(r) /\ UNCHANGED <<item, weak, heap, held>>)
  PROVE  OwnInv' /\ WeakInv' /\ SettledInv' /\ (Latch => Latch')
<1>0. rd \in [Readers -> ReaderType] /\ rd[r] \in ReaderType
  BY DEF IInv, TypeInv, TypeOK
<1>1. rd'[r] \in ReaderType
  <2>1. TypeInv'
    BY StartReadType, LocalStepType, AheadType DEF IInv
  <2> QED BY <2>1 DEF TypeInv, TypeOK
<1>2. /\ rd' = [rd EXCEPT ![r] = rd'[r]] /\ rd[r].pc # "relay"
      /\ UNCHANGED <<weak, heap, item, held>>
      /\ rd'[r].pc \notin {"wait", "relay", "eval"}
      /\ rd'[r].pc = "copy" => rd'[r].cur \in held[r]
  <2>1. CASE StartRead(r)
    BY <1>0, <2>1 DEF StartRead, Idle
  <2>2. CASE Enter(r)
    BY <1>0, <2>2 DEF Enter, ReaderType
  <2>3. CASE EvalGood(r)
    BY <1>0, <2>3 DEF EvalGood, ReaderType, IInv, OwnInv
  <2>4. CASE ProbeMiss(r)
    BY <1>0, <2>4, MissingType DEF ProbeMiss, IInv
  <2>5. CASE Lock(r)
    BY <1>0, <2>5 DEF Lock, ReaderType
  <2>6. CASE Retry(r)
    BY <1>0, <2>6 DEF Retry, Idle
  <2>7. CASE Ahead(r) /\ UNCHANGED <<item, weak, heap, held>>
    BY <1>0, <2>7 DEF Ahead, Return, ReaderType, Idle
  <2> QED BY <2>1, <2>2, <2>3, <2>4, <2>5, <2>6, <2>7
<1>3. PICK x \in ReaderType : x = rd'[r]
  BY <1>1
<1> QED BY <1>2, <1>3, ReaderMoves

(* The look-up takes a strong reference, and finds the latch open or shut  *)
(* with a task behind it.                                                  *)
LEMMA LookSteps ==
  ASSUME IInv, NEW r \in Readers, Look(r)
  PROVE  OwnInv' /\ WeakInv' /\ SettledInv' /\ (Latch => Latch')
<1>0. /\ rd \in [Readers -> ReaderType] /\ rd[r] \in ReaderType
      /\ held \in [Readers -> SUBSET Items]
      /\ weak \in [Chunk -> Items \cup {NoItem}]
      /\ ChunkAt(r) \in Chunk
  BY ChunkAtType DEF IInv, TypeInv, TypeOK
<1>1. CASE weak[ChunkAt(r)] = NoItem
  <2> DEFINE x == [rd[r] EXCEPT !.pc = "probe"]
  <2>1. /\ rd' = [rd EXCEPT ![r] = x] /\ rd[r].pc # "relay"
        /\ UNCHANGED <<weak, heap, item, held>>
        /\ x \in ReaderType /\ x.pc = "probe"
    BY <1>0, <1>1 DEF Look, ReaderType, PC
  <2> HIDE DEF x
  <2> QED BY <2>1, ReaderMoves
<1>2. CASE weak[ChunkAt(r)] # NoItem
  <2>1. PICK i \in Items : i = weak[ChunkAt(r)]
    BY <1>0, <1>2
  <2>2. i \in Live(item, heap, held)
    BY <1>0, <1>2, <2>1 DEF IInv, WeakInv
  <2>3. /\ rd[r].pc = "look"
        /\ rd'[r].cur = i /\ rd'[r].pc \in {"wait", "eval"}
        /\ rd'[r].pc = "wait" <=> item[i].buf \in {None, 0}
        /\ held' = [held EXCEPT ![r] = @ \cup {i}]
        /\ UNCHANGED <<weak, heap, item>>
        /\ \A s \in Readers \ {r} : rd'[s] = rd[s]
    BY <1>0, <1>2, <2>1 DEF Look, ReaderType
  <2>4. /\ held'[r] = held[r] \cup {i}
        /\ \A s \in Readers \ {r} : held'[s] = held[s]
    BY <1>0, <2>3
  <2>5. Live(item, heap, held)' = Live(item, heap, held)
    BY <2>2, <2>3, <2>4 DEF Live
  <2>6. OwnInv'
    BY <2>3, <2>4 DEF IInv, OwnInv
  <2>7. WeakInv'
    BY <2>3, <2>5 DEF IInv, WeakInv
  <2>8. SettledInv'
    BY <2>3 DEF IInv, SettledInv, Settled
  <2>9. ASSUME Latch
        PROVE  Latch'
    <3>1. \A j \in Items : Open(j) => Open(j)'
      BY <2>3 DEF Open, Relaying
    <3>2. LatchInv'
      BY <2>3, <2>5, <2>9, <3>1, LiveItems DEF Latch, LatchInv, IInv, LiveNow
    <3>3. rd'[r].pc = "wait" => Open(i)'
      BY <2>2, <2>3, <2>9, <3>1 DEF Latch, LatchInv
    <3>4. ASSUME NEW s \in Readers, (rd[s].pc = "wait")'
          PROVE  Open(rd[s].cur)'
      <4>1. CASE s = r
        BY <2>3, <3>3, <3>4, <4>1 DEF Open, Relaying
      <4>2. CASE s # r
        <5>1. rd'[s] = rd[s] /\ Open(rd[s].cur)
          BY <2>3, <2>9, <3>4, <4>2 DEF Latch, NoLostWakeup, Open
        <5>2. PICK j \in Items : j = rd[s].cur
          BY <1>0, <3>4, <5>1 DEF IInv, OwnInv
        <5>3. Open(j)'
          BY <3>1, <5>1, <5>2
        <5> QED BY <5>1, <5>2, <5>3 DEF Open, Relaying
      <4> QED BY <4>1, <4>2
    <3> QED BY <3>2, <3>4 DEF Latch, NoLostWakeup, Open
  <2> QED BY <2>6, <2>7, <2>8, <2>9
<1> QED BY <1>1, <1>2

(* A waiter takes the signal and gives it back.                            *)
LEMMA EventSteps ==
  ASSUME IInv, NEW r \in Readers, Wait(r) \/ Relay(r)
  PROVE  OwnInv' /\ WeakInv' /\ SettledInv' /\ (Latch => Latch')
<1>0. /\ rd \in [Readers -> ReaderType] /\ rd[r] \in ReaderType
      /\ held \in [Readers -> SUBSET Items] /\ item \in [Items -> ItemType]
  BY DEF IInv, TypeInv, TypeOK
<1>1. PICK i \in Items : i = rd[r].cur
  BY <1>0 DEF IInv, OwnInv, Wait, Relay
<1>2. /\ UNCHANGED <<weak, heap, held>>
      /\ rd'[r].cur = i
      /\ \A s \in Readers \ {r} : rd'[s] = rd[s]
      /\ \A j \in Items \ {i} : item'[j] = item[j]
      /\ item'[i].buf = item[i].buf /\ item'[i].invalid = item[i].invalid
      /\ item'[i].task = item[i].task
      /\ \/ /\ rd[r].pc = "wait" /\ rd'[r].pc = "relay" /\ item[i].token
         \/ /\ rd[r].pc = "relay" /\ rd'[r].pc = "eval" /\ item'[i].token
  <2>1. CASE Wait(r)
    BY <1>0, <1>1, <2>1 DEF Wait, ItemType, ReaderType
  <2>2. CASE Relay(r)
    BY <1>0, <1>1, <2>2 DEF Relay, ItemType, ReaderType
  <2> QED BY <2>1, <2>2
<1>3. Live(item, heap, held)' = Live(item, heap, held)
  BY <1>2 DEF Live
<1>4. OwnInv'
  BY <1>1, <1>2 DEF IInv, OwnInv
<1>5. WeakInv'
  BY <1>2, <1>3 DEF IInv, WeakInv
<1>6. \A j \in Items : Settled(j)' = Settled(j)
  BY <1>2 DEF Settled
<1>7. Settled(i)
  BY <1>1, <1>2 DEF IInv, SettledInv
<1>8. SettledInv'
  <2>1. ASSUME NEW j \in Items, item'[j].token
        PROVE  Settled(j)'
    BY <1>2, <1>6, <1>7, <2>1 DEF IInv, SettledInv
  <2>2. ASSUME NEW s \in Readers, (rd[s].pc \in {"relay", "eval"})'
        PROVE  Settled(rd[s].cur)'
    <3>1. CASE s = r
      BY <1>2, <1>6, <1>7, <3>1 DEF Settled
    <3>2. CASE s # r
      <4>1. rd'[s] = rd[s] /\ rd[s].cur \in Items /\ Settled(rd[s].cur)
        BY <1>0, <1>2, <2>2, <3>2 DEF IInv, SettledInv, OwnInv
      <4> QED BY <1>6, <4>1 DEF Settled
    <3> QED BY <3>1, <3>2
  <2> QED BY <2>1, <2>2 DEF SettledInv
<1>9. ASSUME Latch
      PROVE  Latch'
  <2>1. Open(i)'
    BY <1>2 DEF Open, Relaying
  <2>2. \A j \in Items : Open(j) => Open(j)'
    BY <1>1, <1>2, <2>1 DEF Open, Relaying
  <2>3. LatchInv'
    BY <1>2, <1>3, <1>9, <2>2, LiveItems DEF Latch, LatchInv, IInv, LiveNow
  <2>4. ASSUME NEW s \in Readers, (rd[s].pc = "wait")'
        PROVE  Open(rd[s].cur)'
    <3>1. rd'[s] = rd[s] /\ Open(rd[s].cur)
      BY <1>2, <1>9, <2>4 DEF Latch, NoLostWakeup, Open
    <3>2. PICK j \in Items : j = rd[s].cur
      BY <1>0, <2>4, <3>1 DEF IInv, OwnInv
    <3>3. Open(j)'
      BY <2>2, <3>1, <3>2
    <3> QED BY <3>1, <3>2, <3>3 DEF Open, Relaying
  <2> QED BY <2>3, <2>4 DEF Latch, NoLostWakeup, Open
<1> QED BY <1>4, <1>5, <1>8, <1>9

(* Dropping pointers cannot free what another reader waits on.             *)
LEMMA DropSettles ==
  ASSUME IInv, NEW r \in Readers, NEW x \in ReaderType,
         NEW own \in SUBSET LiveNow, NEW it \in [Items -> ItemType],
         Keeps(it, {}),
         rd' = [rd EXCEPT ![r] = x], rd[r].pc # "relay",
         Settle(it, weak, heap, [held EXCEPT ![r] = own]),
         x.pc \notin {"wait", "relay", "eval", "copy"}
  PROVE  OwnInv' /\ WeakInv' /\ SettledInv' /\ (Latch => Latch')
<1>1. heap \in SUBSET Items /\ weak \in [Chunk -> Items \cup {NoItem}]
  BY DEF IInv, TypeInv, TypeOK
<1>2. own \in SUBSET Items /\ heap \cup own \subseteq LiveNow \cup {}
  BY LiveItems DEF IInv
<1>3. Ready(it, {})
  BY DEF Ready
<1> QED BY <1>1, <1>2, <1>3, ReaderSettles

(* Release takes at most the current item from a reader.                   *)
LEMMA ReleaseOwn ==
  ASSUME IInv, NEW r \in Readers
  PROVE  Release(r) \in SUBSET LiveNow /\ {} \in SUBSET LiveNow
BY LiveItems DEF Release, IInv

(* The reader's steps that give up pointers keep the invariant.            *)
LEMMA DropSteps ==
  ASSUME IInv, NEW r \in Readers,
         \/ EvalDeleted(r) \/ EvalStale(r) \/ Copy(r) \/ ProbeThrows(r)
         \/ InsertSkip(r) \/ Unlock(r) \/ (Ahead(r) /\ Return(r))
  PROVE  OwnInv' /\ WeakInv' /\ SettledInv' /\ (Latch => Latch')
<1>0. /\ rd \in [Readers -> ReaderType] /\ rd[r] \in ReaderType
      /\ item \in [Items -> ItemType] /\ held \in [Readers -> SUBSET Items]
      /\ weak \in [Chunk -> Items \cup {NoItem}] /\ heap \in SUBSET Items
  BY DEF IInv, TypeInv, TypeOK
<1>1. rd'[r] \in ReaderType
  <2>1. TypeInv'
    BY DropStepType, AheadType DEF IInv
  <2> QED BY <2>1 DEF TypeInv, TypeOK
<1>2. PICK x \in ReaderType : x = rd'[r]
  BY <1>1
<1>k. Keeps(item, {})
  BY DEF Keeps
<1>3. CASE EvalStale(r)
  <2> DEFINE it == [item EXCEPT ![rd[r].cur].invalid = TRUE]
  <2>1. /\ rd' = [rd EXCEPT ![r] = x] /\ rd[r].pc = "eval"
        /\ x.pc \in {"look", "ahead"}
    BY <1>0, <1>2, <1>3, MissingType DEF EvalStale, IInv
  <2>2. PICK i \in Items : i = rd[r].cur
    BY <1>0, <2>1 DEF IInv, OwnInv
  <2>3. [item[i] EXCEPT !.invalid = TRUE] \in ItemType
    BY <1>0, InvalidType
  <2>4. it \in [Items -> ItemType]
    BY <1>0, <2>2, <2>3
  <2>5. Keeps(it, {})
    BY <1>0, <2>2 DEF ItemType, Keeps
  <2>6. Settle(it, weak, heap, [held EXCEPT ![r] = Release(r)])
    BY <1>3 DEF EvalStale
  <2> HIDE DEF it
  <2> QED BY <2>1, <2>4, <2>5, <2>6, ReleaseOwn, DropSettles
<1>4. CASE EvalDeleted(r) \/ (Ahead(r) /\ Return(r))
  <2>1. Return(r) /\ rd[r].pc # "relay"
    BY <1>4 DEF EvalDeleted, Ahead
  <2>2. rd' = [rd EXCEPT ![r] = Idle]
    BY <2>1 DEF Return
  <2>3. x = Idle /\ x.pc = "idle"
    BY <1>0, <1>2, <2>2 DEF Idle
  <2>4. Settle(item, weak, heap, [held EXCEPT ![r] = {}])
    BY <2>1 DEF Return
  <2>5. rd' = [rd EXCEPT ![r] = x]
    BY <2>2, <2>3
  <2> QED BY <1>0, <1>k, <2>1, <2>3, <2>4, <2>5, ReleaseOwn, DropSettles
<1>5. CASE Copy(r)
  <2> DEFINE y == [rd[r] EXCEPT !.have = TRUE]
  <2>1. /\ y \in ReaderType /\ y.off = rd[r].off /\ y.size = rd[r].size
        /\ y.second = rd[r].second
    BY <1>0 DEF ReaderType
  <2>2. rd' = [rd EXCEPT ![r] = NextChunk(r, y)] /\ rd[r].pc = "copy"
    BY <1>5 DEF Copy
  <2> HIDE DEF y
  <2>3. x = NextChunk(r, y) /\ x.pc \in {"look", "ahead"}
    BY <1>0, <1>2, <2>1, <2>2, NextChunkType DEF IInv
  <2>4. Settle(item, weak, heap, [held EXCEPT ![r] = Release(r)])
    BY <1>5 DEF Copy
  <2>5. rd' = [rd EXCEPT ![r] = x]
    BY <2>2, <2>3
  <2> QED BY <1>0, <1>k, <2>2, <2>3, <2>4, <2>5, ReleaseOwn, DropSettles
<1>6. CASE ProbeThrows(r)
  <2>1. /\ rd' = [rd EXCEPT ![r] = Unwind(rd[r])] /\ rd[r].pc = "probe"
        /\ Settle(item, weak, heap, [held EXCEPT ![r] = {}])
    BY <1>0, <1>6 DEF ProbeThrows
  <2>2. x = Unwind(rd[r]) /\ x.pc \in {"idle", "thrown"}
    BY <1>0, <1>2, <2>1, UnwindType DEF IInv
  <2> QED BY <1>0, <1>k, <2>1, <2>2, ReleaseOwn, DropSettles
<1>7. CASE InsertSkip(r)
  <2>1. /\ rd' = [rd EXCEPT ![r] = x] /\ rd[r].pc = "insert" /\ x.pc = "insert"
        /\ Settle(item, weak, heap, [held EXCEPT ![r] = Found(r)])
    BY <1>0, <1>2, <1>7 DEF InsertSkip, ReaderType
  <2>2. Found(r) \in SUBSET LiveNow
    <3>1. Head(rd[r].need) \in Chunk
      BY <1>0, <1>7 DEF InsertSkip, ReaderType
    <3> QED BY <3>1 DEF Found, LiveNow, IInv, WeakInv
  <2> QED BY <1>0, <1>k, <2>1, <2>2, DropSettles
<1>8. CASE Unlock(r)
  <2>1. /\ rd' = [rd EXCEPT ![r] = x] /\ rd[r].pc = "insert"
        /\ x.pc \in {"idle", "begin"}
        /\ Settle(item, weak, heap, [held EXCEPT ![r] = {}])
    BY <1>0, <1>2, <1>8 DEF Unlock, Idle
  <2> QED BY <1>0, <1>k, <2>1, ReleaseOwn, DropSettles
<1> QED BY <1>3, <1>4, <1>5, <1>6, <1>7, <1>8

(* A restart forgets every waiter with the items.                          *)
LEMMA RestartSteps ==
  ASSUME Restart
  PROVE  OwnInv' /\ WeakInv' /\ SettledInv' /\ Latch'
<1>1. /\ \A r \in Readers : rd'[r] = Idle /\ held'[r] = {}
      /\ \A i \in Items : item'[i] = Blank
      /\ \A c \in Chunk : weak'[c] = NoItem
      /\ heap' = {}
  BY DEF Restart
<1>2. Live(item', heap', held') = {}
  BY <1>1 DEF Live, Blank, Running
<1>3. OwnInv'
  BY <1>1 DEF OwnInv, Idle
<1>4. WeakInv'
  BY <1>1 DEF WeakInv
<1>5. SettledInv'
  BY <1>1 DEF SettledInv, Blank, Idle
<1>6. LatchInv'
  BY <1>2 DEF LatchInv
<1>7. NoLostWakeup'
  BY <1>1 DEF NoLostWakeup, Idle
<1> QED BY <1>3, <1>4, <1>5, <1>6, <1>7 DEF Latch

(* A published item has its data, or a task that will open its latch.      *)
LEMMA PublishSteps ==
  ASSUME IInv, NEW r \in Readers, NEW i \in Unused, NEW c \in Chunk,
         NEW x \in ItemType, NEW total \in Nat,
         NEW own \in SUBSET (LiveNow \cup {i}), NEW in \in ReaderType,
         Publish(r, i, c, x, total, own, in),
         ~x.token, rd[r].pc # "relay",
         in.pc \notin {"wait", "relay", "eval"},
         in.pc = "copy" => in.cur \in own
  PROVE  /\ OwnInv' /\ WeakInv' /\ SettledInv'
         /\ Latch /\ (x.buf \notin {None, 0} \/ x.task \in Pending) => Latch'
<1> DEFINE it == [item EXCEPT ![i] = x]
           wk == [weak EXCEPT ![c] = i]
<1>0. i \in Items /\ item \in [Items -> ItemType] /\ heap \in SUBSET Items
      /\ weak \in [Chunk -> Items \cup {NoItem}]
  BY DEF Unused, IInv, TypeInv, TypeOK
<1>1. CASE Restart
  BY <1>1, RestartSteps
<1>2. CASE \E V \in SUBSET (heap \cup {i}) :
             /\ rd' = [rd EXCEPT ![r] = in]
             /\ Settle(it, wk, (heap \cup {i}) \ V, [held EXCEPT ![r] = own])
  <2>1. PICK V \in SUBSET (heap \cup {i}) :
             /\ rd' = [rd EXCEPT ![r] = in]
             /\ Settle(it, wk, (heap \cup {i}) \ V, [held EXCEPT ![r] = own])
    BY <1>2
  <2>2. PICK hp \in SUBSET Items : hp = (heap \cup {i}) \ V
    BY <1>0
  <2>3. PICK fresh \in SUBSET Items : fresh = {i}
    BY <1>0
  <2>4. it \in [Items -> ItemType] /\ wk \in [Chunk -> Items \cup {NoItem}]
    BY <1>0
  <2>5. Keeps(it, fresh)
    BY <1>0, <2>3 DEF Keeps
  <2>6. x.buf \notin {None, 0} \/ x.task \in Pending => Ready(it, fresh)
    BY <1>0, <2>3 DEF Ready
  <2>7. fresh \cap LiveNow = {}
    BY <2>3 DEF Unused, LiveNow
  <2>8. own \in SUBSET Items /\ hp \cup own \subseteq LiveNow \cup fresh
    BY <1>0, <2>2, <2>3, LiveItems DEF IInv
  <2>9. Settle(it, wk, hp, [held EXCEPT ![r] = own])
    BY <2>1, <2>2
  <2> HIDE DEF it, wk
  <2> QED BY <2>1, <2>4, <2>5, <2>6, <2>7, <2>8, <2>9, ReaderSettles
<1> QED BY <1>1, <1>2 DEF Publish

(* The assumptions under which the latch works: no file of whole chunks,   *)
(* for which an empty buffer passes for a chunk, and no chunk file deleted *)
(* between two system calls of a reader.                                   *)
NoEmptyChunk == FileSize % BlockSize # 0

(* The look on disk keeps the invariant.                                   *)
LEMMA HitSteps ==
  ASSUME IInv, NEW r \in Readers, ProbeHit(r)
  PROVE  /\ OwnInv' /\ WeakInv' /\ SettledInv'
         /\ Latch /\ NoEmptyChunk => Latch'
<1>1. /\ rd[r] \in ReaderType /\ cacheSize \in Nat
      /\ disk \in [Chunk -> Nat \cup {None}]
      /\ held[r] \in SUBSET LiveNow /\ LiveNow \subseteq Items
  BY LiveItems DEF IInv, TypeInv, TypeOK
<1>2. PICK c \in Chunk : c = ChunkAt(r)
  BY ChunkAtType DEF IInv
<1>3. PICK n \in Nat : n = disk[c] /\ Matches(n)
  BY <1>1, <1>2 DEF ProbeHit
<1>4. PICK i \in Unused :
        Publish(r, i, c, [Blank EXCEPT !.chunk = c, !.buf = n, !.size = n],
                cacheSize + n, held[r] \cup {i},
                [rd[r] EXCEPT !.pc = "copy", !.cur = i, !.cached = TRUE])
  BY <1>2, <1>3 DEF ProbeHit
<1> DEFINE x == [Blank EXCEPT !.chunk = c, !.buf = n, !.size = n]
           y == [rd[r] EXCEPT !.pc = "copy", !.cur = i, !.cached = TRUE]
<1>5. x \in ItemType /\ ~x.token /\ x.buf = n
  BY <1>1, BlankType DEF ItemType, Blank
<1>6. i \in Items
  BY DEF Unused
<1>7. y \in ReaderType /\ y.pc = "copy" /\ y.cur = i
  BY <1>1, <1>6 DEF ReaderType, PC
<1>8. NoEmptyChunk => n \notin {None, 0}
  BY <1>3, SizesAssumption DEF NoEmptyChunk, Matches, None
<1>9. Publish(r, i, c, x, cacheSize + n, held[r] \cup {i}, y)
  BY <1>4
<1>10. rd[r].pc # "relay"
  BY DEF ProbeHit
<1>11. PICK own \in SUBSET (LiveNow \cup {i}) : own = held[r] \cup {i}
  BY <1>1
<1>12. PICK total \in Nat : total = cacheSize + n
  BY <1>1
<1> HIDE DEF x, y
<1>13. Publish(r, i, c, x, total, own, y) /\ y.cur \in own
  BY <1>7, <1>9, <1>11, <1>12
<1>14. y.pc \notin {"wait", "relay", "eval"}
  BY <1>7
<1> QED BY <1>5, <1>7, <1>8, <1>10, <1>13, <1>14, PublishSteps

(* The insertion loop keeps the invariant.                                 *)
LEMMA InsertSteps ==
  ASSUME IInv, NEW r \in Readers, Insert(r) \/ InsertThrows(r)
  PROVE  /\ OwnInv' /\ WeakInv' /\ SettledInv'
         /\ Latch /\ ~Evicts => Latch'
<1>1. /\ rd[r] \in ReaderType /\ cacheSize \in Nat
      /\ weak \in [Chunk -> Items \cup {NoItem}]
      /\ rd[r].need \in Seq(Chunk) /\ rd[r].need # <<>> /\ rd[r].pc = "insert"
  BY DEF IInv, TypeInv, TypeOK, ReaderType, Insert, InsertThrows
<1>2. PICK c \in Chunk : c = Head(rd[r].need)
  BY <1>1
<1>3. ChunkLen(c) \in Nat /\ Tail(rd[r].need) \in Seq(Chunk)
  BY <1>1, ChunkLenNat
<1>4. PICK total \in Nat : total = cacheSize + ChunkLen(c)
  BY <1>1, <1>3
<1>5. CASE Insert(r)
  <2> DEFINE t == IF OnDisk(c) THEN "read" ELSE "fetch"
             x == [Blank EXCEPT !.chunk = c, !.size = ChunkLen(c), !.task = t]
             y == [rd[r] EXCEPT !.need = Tail(@)]
  <2>1. PICK i \in Unused : Publish(r, i, c, x, total, Found(r), y)
    BY <1>2, <1>4, <1>5 DEF Insert
  <2>2. t \in Queued /\ t \in Pending
    BY DEF Queued, Pending
  <2> HIDE DEF t
  <2>3. x \in ItemType /\ ~x.token /\ x.task \in Pending
    BY <1>3, <2>2, BlankType DEF ItemType, Blank
  <2>4. y \in ReaderType /\ y.pc = "insert"
    BY <1>1, <1>3 DEF ReaderType
  <2>5. PICK own \in SUBSET (LiveNow \cup {i}) : own = Found(r)
    BY <1>2 DEF Found, LiveNow, IInv, WeakInv
  <2> HIDE DEF x, y
  <2>6. Publish(r, i, c, x, total, own, y)
    BY <2>1, <2>5
  <2> QED BY <1>1, <2>3, <2>4, <2>6, PublishSteps
<1>6. CASE InsertThrows(r)
  <2> DEFINE x == [Blank EXCEPT !.chunk = c, !.size = ChunkLen(c)]
             y == Unwind(rd[r])
  <2>1. PICK i \in Unused : Publish(r, i, c, x, total, {}, y)
    BY <1>2, <1>4, <1>6 DEF InsertThrows
  <2>2. x \in ItemType /\ ~x.token
    BY <1>3, BlankType DEF ItemType, Blank
  <2>3. y \in ReaderType /\ y.pc \in {"idle", "thrown"}
    BY UnwindType DEF IInv
  <2>4. Evicts
    BY <1>6 DEF InsertThrows
  <2>5. PICK own \in SUBSET (LiveNow \cup {i}) : own = {}
    OBVIOUS
  <2> HIDE DEF x, y
  <2>6. Publish(r, i, c, x, total, own, y)
    BY <2>1, <2>5
  <2> QED BY <1>1, <2>2, <2>3, <2>4, <2>6, PublishSteps
<1> QED BY <1>5, <1>6

(* What a pool task's step on a live buffer must keep: the latch opens     *)
(* only on a settled buffer, stays open or keeps its task, and an empty    *)
(* buffer never replaces one that readers were let through to.             *)
Advance(z, x) ==
  /\ Filled(z) \/ x.token => Filled(x)
  /\ z.task \in Pending \/ z.token => x.task \in Pending \/ x.token
  /\ x.buf \in {None, 0} => z.buf \in {None, 0} \/ x.token

(* A pool task's step that leaves its item settled and signalled.          *)
LEMMA TaskSettles ==
  ASSUME IInv, NEW i \in Items, NEW x \in ItemType, Step(i, x),
         \/ i \in LiveNow /\ Advance(item[i], x)
         \/ i \notin LiveNow /\ x.task \notin Running /\ ~x.token
  PROVE  OwnInv' /\ WeakInv' /\ SettledInv' /\ (Latch => Latch')
<1>0. /\ rd \in [Readers -> ReaderType] /\ held \in [Readers -> SUBSET Items]
      /\ item \in [Items -> ItemType] /\ heap \in SUBSET Items
      /\ weak \in [Chunk -> Items \cup {NoItem}]
  BY DEF IInv, TypeInv, TypeOK
<1>1. PICK it \in [Items -> ItemType] : it = [item EXCEPT ![i] = x]
  BY <1>0
<1>2. Settle(it, weak, heap, held) /\ rd' = rd
  BY <1>1 DEF Step
<1>3. After(it, heap, held)
  BY <1>0, <1>2, SettleAfter
<1>4. PICK live : live = Live(it, heap, held)
  OBVIOUS
<1>5. /\ heap' = heap /\ held' = held
      /\ Live(item', heap', held') = live
      /\ \A j \in live : item'[j] = it[j]
      /\ \A j \in Items : j \notin live => item'[j].buf = None /\ ~item'[j].token
      /\ \A c \in Chunk : weak'[c] \in live \cup {NoItem}
  BY <1>3, <1>4 DEF After
<1>6. \A j \in Items : it[j] = IF j = i THEN x ELSE item[j]
  BY <1>0, <1>1
<1>7. live \subseteq LiveNow
  BY <1>4, <1>6 DEF LiveNow, Live
<1>8. live \subseteq Items /\ \A s \in Readers : held[s] \subseteq live
  BY <1>0, <1>4 DEF Live
<1>9. i \in live => Advance(item[i], x)
  BY <1>7
<1>10. OwnInv'
  BY <1>2, <1>5 DEF IInv, OwnInv
<1>11. WeakInv'
  BY <1>5 DEF WeakInv
<1>12. ASSUME NEW j \in live, Settled(j)
       PROVE  Settled(j)'
  BY <1>5, <1>6, <1>8, <1>9, <1>12 DEF Settled, Advance, Filled
<1>13. SettledInv'
  <2>1. ASSUME NEW j \in Items, item'[j].token
        PROVE  Settled(j)'
    <3>1. j \in live /\ item'[j] = it[j]
      BY <1>5, <2>1
    <3>2. CASE j = i
      BY <1>6, <1>9, <2>1, <3>1, <3>2 DEF Advance, Filled, Settled
    <3>3. CASE j # i
      BY <1>6, <1>12, <2>1, <3>1, <3>3 DEF IInv, SettledInv
    <3> QED BY <3>2, <3>3
  <2>2. ASSUME NEW s \in Readers, (rd[s].pc \in {"relay", "eval"})'
        PROVE  Settled(rd[s].cur)'
    <3>1. rd[s].cur \in live /\ Settled(rd[s].cur)
      BY <1>2, <1>8, <2>2 DEF IInv, OwnInv, SettledInv
    <3>2. PICK j \in live : j = rd[s].cur
      BY <3>1
    <3>3. Settled(j)'
      BY <1>12, <3>1, <3>2
    <3> QED BY <1>2, <3>2, <3>3 DEF Settled
  <2> QED BY <2>1, <2>2 DEF SettledInv
<1>14. ASSUME Latch
       PROVE  Latch'
  <2>1. \A j \in Items : Relaying(j)' = Relaying(j)
    BY <1>2 DEF Relaying
  <2>2. ASSUME NEW j \in live, Open(j)
        PROVE  Open(j)'
    BY <1>5, <1>6, <1>8, <1>9, <2>1, <2>2 DEF Open, Advance
  <2>3. ASSUME NEW j \in live, item'[j].buf \in {None, 0}
        PROVE  Open(j)'
    <3>1. item[j].buf \in {None, 0} \/ item'[j].token
      BY <1>5, <1>6, <1>8, <1>9, <2>3 DEF Advance
    <3>2. CASE item[j].buf \in {None, 0}
      BY <1>7, <1>14, <2>2, <3>2 DEF Latch, LatchInv, LiveNow
    <3> QED BY <3>1, <3>2 DEF Open
  <2>4. LatchInv'
    BY <1>5, <2>3 DEF LatchInv
  <2>5. ASSUME NEW s \in Readers, (rd[s].pc = "wait")'
        PROVE  Open(rd[s].cur)'
    <3>1. rd[s].cur \in live /\ Open(rd[s].cur)
      BY <1>2, <1>8, <1>14, <2>5 DEF IInv, OwnInv, Latch, NoLostWakeup, Open
    <3>2. PICK j \in live : j = rd[s].cur
      BY <3>1
    <3>3. Open(j)'
      BY <2>2, <3>1, <3>2
    <3> QED BY <1>2, <3>2, <3>3 DEF Open, Relaying
  <2> QED BY <2>4, <2>5 DEF Latch, NoLostWakeup, Open
<1> QED BY <1>10, <1>11, <1>13, <1>14

(* The thread pools' steps keep the invariant.                             *)
LEMMA TaskSteps ==
  ASSUME IInv, NEW i \in Items, TaskStep(i)
  PROVE  OwnInv' /\ WeakInv' /\ SettledInv' /\ (Latch => Latch')
<1>0. PICK z \in ItemType : z = item[i]
  BY DEF IInv, TypeInv, TypeOK
<1>1. /\ z.token => Filled(z)
      /\ z.task \in Running => i \in LiveNow
      /\ z.chunk \in Chunk /\ disk \in [Chunk -> Nat \cup {None}]
      /\ disk[z.chunk] \in Nat \cup {None}
  BY <1>0 DEF LiveNow, Live, ItemType, IInv, TypeInv, TypeOK, SettledInv,
              Settled, Filled
<1>2. CASE Expire(i)
  <2>1. Blank \in ItemType /\ Blank.task \notin Running /\ ~Blank.token
    BY BlankType DEF Blank, Running
  <2>2. Step(i, Blank) /\ i \notin LiveNow
    BY <1>2 DEF Expire, LiveNow
  <2> QED BY <2>1, <2>2, TaskSettles
<1>3. ASSUME NEW from \in {"read", "fetch"}, NEW to \in {"reading", "fetching"},
             StartTask(i, from, to)
      PROVE  OwnInv' /\ WeakInv' /\ SettledInv' /\ (Latch => Latch')
  <2> DEFINE x == [z EXCEPT !.task = to, !.backoff = FALSE]
  <2>1. Step(i, x) /\ i \in LiveNow /\ z.task = from
    BY <1>0, <1>3 DEF StartTask, LiveNow
  <2>2. x \in ItemType /\ Advance(z, x)
    BY <1>1 DEF ItemType, Running, Advance, Filled, Pending
  <2> HIDE DEF x
  <2> QED BY <1>0, <2>1, <2>2, TaskSettles
<1>4. CASE ReadOk(i)
  <2>1. PICK n \in Nat : n = disk[z.chunk]
    BY <1>0, <1>1, <1>4 DEF ReadOk
  <2> DEFINE x == [z EXCEPT !.task = "none", !.token = TRUE, !.buf = n]
  <2>2. Step(i, x) /\ i \in LiveNow
    BY <1>0, <1>1, <1>4, <2>1 DEF ReadOk, Running
  <2>3. x \in ItemType /\ Advance(z, x)
    <3>1. x \in ItemType
      BY <2>1 DEF ItemType
    <3>2. x.buf = n /\ x.token /\ n # None
      BY <2>1 DEF ItemType, None
    <3> HIDE DEF x
    <3> QED BY <3>1, <3>2 DEF Advance, Filled
  <2> HIDE DEF x
  <2> QED BY <1>0, <2>2, <2>3, TaskSettles
<1>5. CASE ReadFails(i)
  <2> DEFINE x == [z EXCEPT !.task = "none", !.token = TRUE, !.invalid = TRUE]
  <2>1. Step(i, x) /\ i \in LiveNow
    BY <1>0, <1>1, <1>5 DEF ReadFails, Running
  <2>2. x \in ItemType /\ Advance(z, x)
    BY DEF ItemType, Advance, Filled
  <2> HIDE DEF x
  <2> QED BY <1>0, <2>1, <2>2, TaskSettles
<1>6. CASE FetchOk(i)
  <2>1. PICK n \in Bodies[z.chunk] :
          Step(i, [z EXCEPT !.task = "write", !.token = TRUE, !.buf = n])
    BY <1>0, <1>6 DEF FetchOk
  <2>2. n \in Nat
    BY <1>1, CacheAssumption
  <2> DEFINE x == [z EXCEPT !.task = "write", !.token = TRUE, !.buf = n]
  <2>3. Step(i, x) /\ i \in LiveNow
    BY <1>0, <1>1, <1>6, <2>1 DEF FetchOk, Running
  <2>4. x \in ItemType /\ Advance(z, x)
    <3>1. x \in ItemType
      BY <2>2 DEF ItemType, Queued
    <3>2. x.buf = n /\ x.token /\ n # None
      BY <2>2 DEF ItemType, None
    <3> HIDE DEF x
    <3> QED BY <3>1, <3>2 DEF Advance, Filled
  <2> HIDE DEF x
  <2> QED BY <1>0, <2>3, <2>4, TaskSettles
<1>7. ASSUME Step(i, [z EXCEPT !.backoff = TRUE]), z.task = "fetching"
      PROVE  OwnInv' /\ WeakInv' /\ SettledInv' /\ (Latch => Latch')
  <2> DEFINE x == [z EXCEPT !.backoff = TRUE]
  <2>1. x \in ItemType /\ Advance(z, x) /\ i \in LiveNow
    BY <1>1, <1>7 DEF ItemType, Running, Advance, Filled
  <2>2. Step(i, x)
    BY <1>7
  <2> HIDE DEF x
  <2> QED BY <1>0, <2>1, <2>2, TaskSettles
<1>8. CASE FetchError(i)
  BY <1>0, <1>7, <1>8 DEF FetchError
<1>9. CASE Fetch404(i)
  <2> DEFINE x == [z EXCEPT !.task = "none", !.token = TRUE,
                            !.invalid = TRUE, !.deleted = TRUE]
  <2>1. CASE z.backoff
    <3>1. Step(i, x) /\ i \in LiveNow
      BY <1>0, <1>1, <1>9, <2>1 DEF Fetch404, Running
    <3>2. x \in ItemType /\ Advance(z, x)
      BY DEF ItemType, Advance, Filled
    <3> HIDE DEF x
    <3> QED BY <1>0, <3>1, <3>2, TaskSettles
  <2>2. CASE ~z.backoff
    BY <1>0, <1>7, <1>9, <2>2 DEF Fetch404
  <2> QED BY <2>1, <2>2
<1>10. ASSUME NEW t \in {"none", "writing"}, Step(i, [z EXCEPT !.task = t]),
              z.task \in {"write", "writing"}, i \in LiveNow
       PROVE  OwnInv' /\ WeakInv' /\ SettledInv' /\ (Latch => Latch')
  <2> DEFINE x == [z EXCEPT !.task = t]
  <2>1. x \in ItemType /\ Advance(z, x)
    BY <1>1, <1>10 DEF ItemType, Running, Pending, Advance, Filled
  <2>2. Step(i, x)
    BY <1>10
  <2> HIDE DEF x
  <2> QED BY <1>0, <1>10, <2>1, <2>2, TaskSettles
<1>11. CASE WriteStart(i)
  BY <1>0, <1>10, <1>11 DEF WriteStart, LiveNow
<1>12. CASE WriteEnd(i)
  BY <1>0, <1>1, <1>10, <1>12 DEF WriteEnd, Running
<1>13. CASE ReadAborts(i) \/ WriteAborts(i)
  BY <1>13, RestartSteps DEF ReadAborts, WriteAborts
<1>14. CASE ReadStart(i) \/ FetchStart(i)
  BY <1>3, <1>14 DEF ReadStart, FetchStart
<1> QED BY <1>2, <1>4, <1>5, <1>6, <1>8, <1>9, <1>11, <1>12, <1>13, <1>14
        DEF TaskStep

-----------------------------------------------------------------------------
(* The inductive invariant, with the latch under its two assumptions.      *)
LInv == IInv /\ (NoEmptyChunk /\ ~Evicts => Latch)

(* The invariant holds at first.                                           *)
LEMMA InitLInv == Init => LInv
<1> SUFFICES ASSUME Init PROVE LInv
  OBVIOUS
<1>1. TypeInv
  BY InitType
<1>2. Live(item, heap, held) = {}
  BY DEF Init, Live, Blank, Running
<1>3. OwnInv /\ WeakInv
  BY DEF Init, OwnInv, WeakInv, Idle
<1>4. SettledInv
  BY DEF Init, SettledInv, Blank, Idle
<1>5. LatchInv
  BY <1>2 DEF LatchInv
<1>6. NoLostWakeup
  BY DEF Init, NoLostWakeup, Idle
<1> QED BY <1>1, <1>3, <1>4, <1>5, <1>6 DEF LInv, IInv, Latch

(* Every step keeps the invariant.                                         *)
LEMMA NextLInv == LInv /\ [Next]_vars => LInv'
<1> SUFFICES ASSUME LInv, [Next]_vars PROVE LInv'
  OBVIOUS
<1>0. IInv
  BY DEF LInv
<1>1. TypeInv'
  BY <1>0, NextType DEF IInv
<1>2. SUFFICES /\ OwnInv' /\ WeakInv' /\ SettledInv'
               /\ Latch /\ NoEmptyChunk /\ ~Evicts => Latch'
  BY <1>1 DEF LInv, IInv, NoEmptyChunk
<1>3. ASSUME NEW r \in Readers, ReaderStep(r)
      PROVE  /\ OwnInv' /\ WeakInv' /\ SettledInv'
             /\ Latch /\ NoEmptyChunk /\ ~Evicts => Latch'
  <2>1. CASE Ahead(r)
    <3>1. UNCHANGED <<item, weak, heap, held>> \/ Return(r)
      BY <2>1 DEF Ahead
    <3> QED BY <1>0, <2>1, <3>1, MoveSteps, DropSteps
  <2>2. CASE ~Ahead(r)
    BY <1>0, <1>3, <2>2, MoveSteps, DropSteps, LookSteps, EventSteps,
       HitSteps, InsertSteps DEF ReaderStep
  <2> QED BY <2>1, <2>2
<1>4. ASSUME NEW r \in Readers, StartRead(r) \/ ProbeThrows(r) \/ InsertThrows(r)
      PROVE  /\ OwnInv' /\ WeakInv' /\ SettledInv'
             /\ Latch /\ NoEmptyChunk /\ ~Evicts => Latch'
  BY <1>0, <1>4, MoveSteps, DropSteps, InsertSteps
<1>5. CASE UNCHANGED <<weak, heap, item, rd, held>>
  BY <1>0, <1>5 DEF IInv, OwnInv, WeakInv, SettledInv, Settled, Live, Latch,
     LatchInv, NoLostWakeup, Open, Relaying
<1>6. ASSUME NEW c \in Chunk, EvictFile(c)
      PROVE  /\ OwnInv' /\ WeakInv' /\ SettledInv'
             /\ Latch /\ NoEmptyChunk /\ ~Evicts => Latch'
  BY <1>5, <1>6 DEF EvictFile
<1>7. CASE Crash
  BY <1>7, RestartSteps DEF Crash
<1>8. CASE UNCHANGED vars
  BY <1>5, <1>8 DEF vars
<1> QED BY <1>0, <1>3, <1>4, <1>6, <1>7, <1>8, TaskSteps DEF Next

(* Every variable keeps its type; no chunk number is outside m_buffers.    *)
THEOREM TypeCorrect == Spec => []TypeOK
<1>1. LInv => TypeOK
  BY DEF LInv, IInv, TypeInv
<1> QED BY InitLInv, NextLInv, <1>1, PTL DEF Spec

(* No reader looks at a buffer that nobody filled and nobody marked bad.   *)
THEOREM NullDerefSafe == Spec => []NoNullDeref
<1>1. LInv => NoNullDeref
  BY DEF LInv, IInv, SettledInv, Settled, NoNullDeref
<1> QED BY InitLInv, NextLInv, <1>1, PTL DEF Spec

(* A reader that waits for a buffer will find the signal: under the two    *)
(* assumptions no wake-up is lost, for any number of readers and buffers.  *)
THEOREM WakeupSafe ==
  ASSUME NoEmptyChunk, ~Evicts
  PROVE  Spec => []NoLostWakeup
<1>1. LInv => NoLostWakeup
  BY DEF LInv, Latch
<1> QED BY InitLInv, NextLInv, <1>1, PTL DEF Spec
=============================================================================
