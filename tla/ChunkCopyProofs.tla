--------------------------- MODULE ChunkCopyProofs ---------------------------
(* What a reader copies and what is downloaded twice: CopySafe,            *)
(* BufferStable, OneFetchPerChunk and EventKept of ChunkCache, for         *)
(* every value of the constants.                                           *)
EXTENDS ChunkCacheProofs

(* The assumption about lengths: of the bodies a server sends, and of the  *)
(* files whose writing was interrupted, one whose length the code accepts  *)
(* is a whole chunk.  (The run chunk_torn shows what happens otherwise.)   *)
HonestLengths ==
  /\ \A c \in Chunk : \A n \in Bodies[c] : Matches(n) => n = ChunkLen(c)
  /\ \A n \in Torn : ~Matches(n)

(* A buffer of an accepted length is its chunk, and a buffer that is still *)
(* to be filled is empty and not given up.                                 *)
Sane(x) == /\ Matches(x.buf) => x.buf = ChunkLen(x.chunk)
           /\ x.task \in Pending => x.buf = None /\ ~x.invalid

ItemsInv == \A i \in LiveNow : Sane(item[i])

(* So is a file.                                                           *)
DiskInv == \A c \in Chunk : Matches(disk[c]) => disk[c] = ChunkLen(c)

(* A buffer is found under its own chunk, and only by those who want it.   *)
PlaceInv == \A c \in Chunk : weak[c] # NoItem => item[weak[c]].chunk = c

ReaderInv ==
  \A r \in Readers :
    /\ rd[r].pc \in Owning => item[rd[r].cur].chunk = ChunkAt(r)
    /\ rd[r].pc = "copy" => Matches(item[rd[r].cur].buf)

(* A download that will put a chunk on disk is the one m_buffers names, as *)
(* long as the file is not there: the look under the lock finds it.        *)
Writer(x) == \/ x.task \in {"fetch", "fetching"}
             \/ x.task \in {"write", "writing"} /\ Matches(x.buf)

WriterInv ==
  \A i \in LiveNow : Writer(item[i]) =>
    /\ weak[item[i].chunk] = i
    /\ ~Matches(disk[item[i].chunk])
    /\ ~item[i].invalid

CInv == ItemsInv /\ DiskInv /\ PlaceInv /\ ReaderInv /\ WriterInv

-----------------------------------------------------------------------------
(* What a step makes of the buffers: it has the fields of all of them      *)
(* before those nobody holds are erased, wk where m_buffers points.        *)
Fate(it, wk, fresh) ==
  /\ LiveNow' \subseteq LiveNow \cup fresh
  /\ \A j \in LiveNow' : item'[j] = it[j]
  /\ \A c \in Chunk : weak'[c] = IF wk[c] \in LiveNow' THEN wk[c] ELSE NoItem

(* Settle decides the fate of the buffers.                                 *)
LEMMA SettleFate ==
  ASSUME TypeInv, NEW it \in [Items -> ItemType],
         NEW wk \in [Chunk -> Items \cup {NoItem}], NEW hp \in SUBSET Items,
         NEW hd \in [Readers -> SUBSET Items], NEW fresh \in SUBSET Items,
         Settle(it, wk, hp, hd),
         \A j \in Items \ fresh : it[j].task \in Running => j \in LiveNow,
         hp \cup UNION {hd[r] : r \in Readers} \subseteq LiveNow \cup fresh
  PROVE  Fate(it, wk, fresh)
<1>1. After(it, hp, hd)
  BY SettleAfter
<1>2. LiveNow' = Live(it, hp, hd)
  BY <1>1 DEF After, LiveNow
<1>3. \A j \in LiveNow' : item'[j] = it[j]
  BY <1>1, <1>2 DEF After
<1>4. \A c \in Chunk : weak'[c] = IF wk[c] \in LiveNow' THEN wk[c] ELSE NoItem
  BY <1>2 DEF Settle
<1>5. LiveNow' \subseteq LiveNow \cup fresh
  BY <1>2 DEF Live
<1> QED BY <1>3, <1>4, <1>5 DEF Fate

(* A step that leaves the pointers alone leaves m_buffers alone.           *)
LEMMA SameFate ==
  ASSUME IInv, LiveNow' = LiveNow, weak' = weak
  PROVE  Fate(item', weak, {})
<1>1. \A c \in Chunk : weak[c] \in LiveNow \/ weak[c] = NoItem
  BY DEF IInv, WeakInv, LiveNow
<1>2. NoItem \notin LiveNow
  BY LiveItems, CacheAssumption DEF IInv
<1> QED BY <1>1, <1>2 DEF Fate
-----------------------------------------------------------------------------
(* The readers' steps.                                                     *)

(* A file that is not there has no length the code accepts.                *)
LEMMA NoneMatches == ~Matches(None)
BY SizesAssumption DEF Matches, None

At(x) == ChunkNumber(x.off) + (IF x.second THEN 1 ELSE 0)

(* A reader's step leaves the buffers as they are, or gives up a bad one.  *)
Kept(it) ==
  \A j \in LiveNow :
    /\ it[j].chunk = item[j].chunk /\ it[j].task = item[j].task
    /\ it[j].buf = item[j].buf
    /\ it[j].invalid = item[j].invalid \/ (it[j].task \notin Pending /\ ~Writer(it[j]))

(* The buffers a reader adds, under chunks that nobody is downloading.     *)
Adds(it, wk, fresh) ==
  /\ fresh \cap LiveNow = {}
  /\ \A c \in Chunk : \/ wk[c] = weak[c]
                     \/ /\ wk[c] \in fresh /\ it[wk[c]].chunk = c
                        /\ \A i \in LiveNow : Writer(item[i]) => item[i].chunk # c
  /\ \A j \in fresh :
       /\ Sane(it[j])
       /\ Writer(it[j]) => /\ wk[it[j].chunk] = j /\ ~it[j].invalid
                           /\ ~Matches(disk'[it[j].chunk])

(* A step of reader r, which goes on as x; fresh are the buffers it adds.  *)
LEMMA ReaderKeeps ==
  ASSUME IInv, CInv, NEW r \in Readers, NEW x \in ReaderType,
         NEW it, NEW wk \in [Chunk -> Items \cup {NoItem}],
         NEW fresh \in SUBSET Items,
         Fate(it, wk, fresh), Kept(it), TypeInv',
         rd' = [rd EXCEPT ![r] = x],
         \A s \in Readers \ {r} : held'[s] = held[s],
         \A c \in Chunk : disk'[c] \in {disk[c], None},
         Adds(it, wk, fresh),
         x.pc \in Owning => x.cur \in LiveNow' /\ it[x.cur].chunk = At(x),
         x.pc = "copy" => Matches(it[x.cur].buf)
  PROVE  CInv'
<1>0. /\ rd \in [Readers -> ReaderType] /\ item \in [Items -> ItemType]
      /\ held' \in [Readers -> SUBSET Items] /\ LiveNow \subseteq Items
      /\ NoItem \notin Items
  BY LiveItems, CacheAssumption DEF IInv, TypeInv, TypeOK
<1>1. /\ LiveNow' \subseteq LiveNow \cup fresh
      /\ \A j \in LiveNow' : item'[j] = it[j]
      /\ \A c \in Chunk : weak'[c] = IF wk[c] \in LiveNow' THEN wk[c] ELSE NoItem
  BY DEF Fate
<1>2. \A s \in Readers : rd'[s] = IF s = r THEN x ELSE rd[s]
  BY <1>0
<1>3. \A j \in LiveNow :
        /\ it[j].chunk = item[j].chunk /\ it[j].task = item[j].task
        /\ it[j].buf = item[j].buf
        /\ it[j].invalid = item[j].invalid \/ (it[j].task \notin Pending /\ ~Writer(it[j]))
  BY DEF Kept
<1>a. /\ fresh \cap LiveNow = {}
      /\ \A c \in Chunk : \/ wk[c] = weak[c]
                         \/ /\ wk[c] \in fresh /\ it[wk[c]].chunk = c
                            /\ \A i \in LiveNow : Writer(item[i]) => item[i].chunk # c
      /\ \A j \in fresh :
           /\ Sane(it[j])
           /\ Writer(it[j]) => /\ wk[it[j].chunk] = j /\ ~it[j].invalid
                               /\ ~Matches(disk'[it[j].chunk])
  BY DEF Adds
<1>4. ItemsInv'
  <2>1. ASSUME NEW j \in LiveNow PROVE Sane(it[j])
    <3>1. Sane(item[j])
      BY DEF CInv, ItemsInv
    <3> QED BY <1>3, <3>1 DEF Sane
  <2>2. \A j \in LiveNow' : Sane(it[j])
    BY <1>1, <1>a, <2>1
  <2> QED BY <1>1, <2>2 DEF ItemsInv
<1>5. DiskInv'
  <2>1. ASSUME NEW c \in Chunk, Matches(disk'[c]) PROVE disk'[c] = ChunkLen(c)
    BY <2>1, NoneMatches DEF CInv, DiskInv
  <2> QED BY <2>1 DEF DiskInv
<1>6. PlaceInv'
  <2>1. ASSUME NEW c \in Chunk, weak'[c] # NoItem
        PROVE  item'[weak'[c]].chunk = c
    <3>1. wk[c] \in LiveNow' /\ weak'[c] = wk[c] /\ item'[wk[c]] = it[wk[c]]
      BY <1>1, <2>1
    <3>2. CASE wk[c] = weak[c]
      <4>1. weak[c] # NoItem /\ item[weak[c]].chunk = c
        BY <1>0, <1>1, <2>1, <3>1, <3>2 DEF CInv, PlaceInv
      <4>2. weak[c] \in LiveNow
        BY <4>1 DEF IInv, WeakInv, LiveNow
      <4> QED BY <1>3, <3>1, <3>2, <4>1, <4>2
    <3>3. CASE wk[c] # weak[c]
      BY <1>a, <3>1, <3>3
    <3> QED BY <3>2, <3>3
  <2> QED BY <2>1 DEF PlaceInv
<1>7. ReaderInv'
  <2>1. ASSUME NEW s \in Readers, s # r
        PROVE  /\ rd'[s].pc \in Owning => item'[rd'[s].cur].chunk = At(rd'[s])
               /\ rd'[s].pc = "copy" => Matches(item'[rd'[s].cur].buf)
    <3>1. SUFFICES ASSUME rd[s].pc \in Owning
                   PROVE  /\ item'[rd[s].cur].chunk = At(rd[s])
                          /\ rd[s].pc = "copy" => Matches(item'[rd[s].cur].buf)
      BY <1>2, <2>1 DEF Owning
    <3>2. rd[s].cur \in held[s] /\ held'[s] = held[s]
      BY <2>1, <3>1 DEF IInv, OwnInv, Owning
    <3>3. rd[s].cur \in LiveNow /\ rd[s].cur \in LiveNow'
      BY <1>0, <3>2, LiveItems DEF IInv, LiveNow, Live
    <3>4. item[rd[s].cur].chunk = At(rd[s])
          /\ (rd[s].pc = "copy" => Matches(item[rd[s].cur].buf))
      BY <3>1 DEF CInv, ReaderInv, At, ChunkAt
    <3> QED BY <1>1, <1>3, <3>3, <3>4
  <2>2. /\ x.pc \in Owning => item'[x.cur].chunk = At(x)
        /\ x.pc = "copy" => Matches(item'[x.cur].buf)
    BY <1>1 DEF Owning
  <2>3. \A s \in Readers : 
               /\ rd'[s].pc \in Owning => item'[rd'[s].cur].chunk = At(rd'[s])
               /\ rd'[s].pc = "copy" => Matches(item'[rd'[s].cur].buf)
    BY <1>2, <2>1, <2>2
  <2> QED BY <2>3 DEF ReaderInv, At, ChunkAt
<1>8. WriterInv'
  <2>1. ASSUME NEW j \in LiveNow', Writer(item'[j])
        PROVE  /\ weak'[item'[j].chunk] = j
               /\ ~Matches(disk'[item'[j].chunk])
               /\ ~item'[j].invalid
    <3>1. item'[j] = it[j]
      BY <1>1
    <3>2. CASE j \in fresh
      <4>1. it[j].chunk \in Chunk
        BY <3>1, <3>2 DEF TypeInv, TypeOK, ItemType
      <4> QED BY <1>1, <1>a, <2>1, <3>1, <3>2, <4>1
    <3>3. CASE j \notin fresh
      <4>1. j \in LiveNow /\ j \in Items
        BY <1>0, <1>1, <3>3
      <4>2. it[j].chunk = item[j].chunk /\ Writer(item[j]) /\ item[j].chunk \in Chunk
        BY <1>0, <1>3, <2>1, <3>1, <4>1 DEF Writer, ItemType
      <4>3. weak[item[j].chunk] = j /\ ~Matches(disk[item[j].chunk]) /\ ~item[j].invalid
        BY <4>1, <4>2 DEF CInv, WriterInv
      <4>4. wk[item[j].chunk] = j
        BY <1>a, <4>1, <4>2, <4>3
      <4>5. ~it[j].invalid
        BY <1>3, <2>1, <3>1, <4>1, <4>3
      <4>6. ~Matches(disk'[item[j].chunk])
        BY <4>2, <4>3, NoneMatches
      <4> QED BY <1>1, <3>1, <4>2, <4>4, <4>5, <4>6
    <3> QED BY <3>2, <3>3
  <2> QED BY <2>1 DEF WriterInv
<1> QED BY <1>4, <1>5, <1>6, <1>7, <1>8 DEF CInv
(* The same, when the step adds no buffer.                                 *)
LEMMA ReaderStays ==
  ASSUME IInv, CInv, NEW r \in Readers, NEW x \in ReaderType, NEW it,
         Fate(it, weak, {}), Kept(it), TypeInv',
         rd' = [rd EXCEPT ![r] = x],
         \A s \in Readers \ {r} : held'[s] = held[s],
         \A c \in Chunk : disk'[c] \in {disk[c], None},
         x.pc \in Owning => x.cur \in LiveNow' /\ it[x.cur].chunk = At(x),
         x.pc = "copy" => Matches(it[x.cur].buf)
  PROVE  CInv'
<1>1. PICK fresh \in SUBSET Items : fresh = {}
  OBVIOUS
<1>2. PICK wk \in [Chunk -> Items \cup {NoItem}] : wk = weak
  BY DEF IInv, TypeInv, TypeOK
<1>3. Fate(it, wk, fresh)
  BY <1>1, <1>2
<1>4. Adds(it, wk, fresh)
  BY <1>1, <1>2 DEF Adds
<1> QED BY <1>3, <1>4, ReaderKeeps

(* The steps that change no ownership and no buffer.                       *)
LEMMA MoveKeeps ==
  ASSUME IInv, CInv, TypeInv', NEW r \in Readers,
         \/ StartRead(r) \/ Enter(r) \/ EvalGood(r) \/ ProbeMiss(r) \/ Lock(r)
         \/ Retry(r) \/ (Ahead(r) /\ UNCHANGED <<item, weak, heap, held>>)
  PROVE  CInv'
<1>0. /\ rd \in [Readers -> ReaderType] /\ rd[r] \in ReaderType
      /\ weak \in [Chunk -> Items \cup {NoItem}]
  BY DEF IInv, TypeInv, TypeOK
<1>1. PICK x \in ReaderType : x = rd'[r]
  BY DEF TypeInv, TypeOK
<1>2. /\ rd' = [rd EXCEPT ![r] = x]
      /\ UNCHANGED <<weak, heap, item, held, disk>>
      /\ x.pc \in Owning => /\ rd[r].pc = "eval" /\ x.cur = rd[r].cur
                            /\ At(x) = At(rd[r]) /\ ~Bad(item[rd[r].cur])
  <2>1. CASE StartRead(r)
    BY <1>0, <1>1, <2>1 DEF StartRead, Idle, Owning
  <2>2. CASE Enter(r)
    BY <1>0, <1>1, <2>2 DEF Enter, ReaderType, Owning
  <2>3. CASE EvalGood(r)
    BY <1>0, <1>1, <2>3 DEF EvalGood, ReaderType, At
  <2>4. CASE ProbeMiss(r)
    BY <1>0, <1>1, <2>4, MissingType DEF ProbeMiss, IInv, Owning
  <2>5. CASE Lock(r)
    BY <1>0, <1>1, <2>5 DEF Lock, ReaderType, Owning
  <2>6. CASE Retry(r)
    BY <1>0, <1>1, <2>6 DEF Retry, Idle, Owning
  <2>7. CASE Ahead(r) /\ UNCHANGED <<item, weak, heap, held>>
    BY <1>0, <1>1, <2>7 DEF Ahead, Return, ReaderType, Idle, Owning
  <2> QED BY <2>1, <2>2, <2>3, <2>4, <2>5, <2>6, <2>7
<1>3. LiveNow' = LiveNow
  BY <1>2 DEF LiveNow, Live
<1>4. Fate(item', weak, {}) /\ Kept(item')
  BY <1>2, <1>3, SameFate DEF Kept
<1>5. x.pc \in Owning => /\ x.cur \in LiveNow' /\ item'[x.cur].chunk = At(x)
                         /\ Matches(item'[x.cur].buf)
  <2> SUFFICES ASSUME x.pc \in Owning
               PROVE  /\ x.cur \in LiveNow' /\ item'[x.cur].chunk = At(x)
                      /\ Matches(item'[x.cur].buf)
    OBVIOUS
  <2>1. rd[r].cur \in held[r] /\ item[rd[r].cur].chunk = At(rd[r])
    BY <1>2 DEF IInv, OwnInv, CInv, ReaderInv, Owning, At, ChunkAt
  <2> QED BY <1>2, <1>3, <2>1, LiveItems DEF Bad, IInv
<1>6. x.pc = "copy" => x.pc \in Owning
  BY DEF Owning
<1>7. PICK it : it = item'
  OBVIOUS
<1> QED BY <1>2, <1>4, <1>5, <1>6, <1>7, ReaderStays

(* The look-up, and the two halves of the wait.                            *)
LEMMA LookKeeps ==
  ASSUME IInv, CInv, TypeInv', NEW r \in Readers, Look(r) \/ Wait(r) \/ Relay(r)
  PROVE  CInv'
<1>0. /\ rd \in [Readers -> ReaderType] /\ rd[r] \in ReaderType
      /\ weak \in [Chunk -> Items \cup {NoItem}] /\ ChunkAt(r) \in Chunk
      /\ held \in [Readers -> SUBSET Items] /\ item \in [Items -> ItemType]
  BY ChunkAtType DEF IInv, TypeInv, TypeOK
<1>1. PICK x \in ReaderType : x = rd'[r]
  BY DEF TypeInv, TypeOK
<1>2. CASE Look(r)
  <2>1. /\ rd' = [rd EXCEPT ![r] = x] /\ UNCHANGED <<weak, heap, item, disk>>
        /\ \A s \in Readers \ {r} : held'[s] = held[s]
        /\ At(x) = ChunkAt(r)
        /\ \/ x.pc = "probe" /\ held' = held
           \/ /\ x.pc \in {"wait", "eval"} /\ x.cur = weak[ChunkAt(r)]
              /\ weak[ChunkAt(r)] # NoItem
              /\ held'[r] = held[r] \cup {weak[ChunkAt(r)]}
    <3>1. rd'[r] = x /\ UNCHANGED <<weak, heap, item, disk>>
      BY <1>1, <1>2 DEF Look
    <3>2. CASE weak[ChunkAt(r)] = NoItem
      <4>1. rd' = [rd EXCEPT ![r].pc = "probe"] /\ held' = held
        BY <1>2, <3>2 DEF Look
      <4> QED BY <1>0, <3>1, <4>1 DEF ReaderType, At, ChunkAt
    <3>3. CASE weak[ChunkAt(r)] # NoItem
      <4>1. /\ rd' = [rd EXCEPT ![r].cur = weak[ChunkAt(r)], ![r].cached = FALSE,
                        ![r].pc = IF item[weak[ChunkAt(r)]].buf \in {None, 0}
                                  THEN "wait" ELSE "eval"]
            /\ held' = [held EXCEPT ![r] = @ \cup {weak[ChunkAt(r)]}]
        BY <1>2, <3>3 DEF Look
      <4> QED BY <1>0, <3>1, <3>3, <4>1, ZenonT(60) DEF ReaderType, At, ChunkAt
    <3> QED BY <3>2, <3>3
  <2>2. weak[ChunkAt(r)] # NoItem => weak[ChunkAt(r)] \in LiveNow
    BY <1>0 DEF IInv, WeakInv, LiveNow
  <2>3. LiveNow' = LiveNow
    <3>1. CASE held' = held
      BY <2>1, <3>1 DEF LiveNow, Live
    <3>2. CASE held' # held
      <4>1. held'[r] = held[r] \cup {weak[ChunkAt(r)]} /\ weak[ChunkAt(r)] \in LiveNow
        BY <2>1, <2>2, <3>2
      <4> QED BY <2>1, <4>1 DEF LiveNow, Live
    <3> QED BY <3>1, <3>2
  <2>4. Fate(item', weak, {}) /\ Kept(item')
    BY <2>1, <2>3, SameFate DEF Kept
  <2>5. x.pc \in Owning => x.cur \in LiveNow' /\ item'[x.cur].chunk = At(x)
    BY <1>0, <2>1, <2>2, <2>3 DEF Owning, CInv, PlaceInv
  <2>6. x.pc # "copy"
    BY <2>1
  <2>7. PICK it : it = item'
    OBVIOUS
  <2> QED BY <2>1, <2>4, <2>5, <2>6, <2>7, ReaderStays
<1>3. CASE Wait(r) \/ Relay(r)
  <2>1. /\ rd' = [rd EXCEPT ![r] = x] /\ UNCHANGED <<weak, heap, held, disk>>
        /\ At(x) = ChunkAt(r) /\ rd[r].pc \in Owning
        /\ x.pc \in {"relay", "eval"} /\ x.cur = rd[r].cur
    <3>1. CASE Wait(r)
      BY <1>0, <1>1, <3>1 DEF Wait, ReaderType, At, ChunkAt, Owning
    <3>2. CASE Relay(r)
      BY <1>0, <1>1, <3>2 DEF Relay, ReaderType, At, ChunkAt, Owning
    <3> QED BY <1>3, <3>1, <3>2
  <2>2. rd[r].cur \in held[r] /\ rd[r].cur \in Items
    BY <1>0, <2>1 DEF IInv, OwnInv, Owning
  <2>3. \A j \in Items :
          /\ item'[j].chunk = item[j].chunk /\ item'[j].task = item[j].task
          /\ item'[j].buf = item[j].buf /\ item'[j].invalid = item[j].invalid
    BY <1>0, <1>3, <2>2 DEF Wait, Relay, ItemType
  <2>4. LiveNow' = LiveNow
    BY <2>1, <2>3 DEF LiveNow, Live
  <2>5. Fate(item', weak, {}) /\ Kept(item')
    BY <2>1, <2>3, <2>4, SameFate, LiveItems DEF Kept, IInv
  <2>6. x.cur \in LiveNow' /\ item'[x.cur].chunk = At(x) /\ x.pc # "copy"
    BY <2>1, <2>2, <2>3, <2>4, LiveItems DEF IInv, CInv, ReaderInv
  <2>7. PICK it : it = item'
    OBVIOUS
  <2> QED BY <2>1, <2>5, <2>6, <2>7, ReaderStays
<1> QED BY <1>2, <1>3

(* The steps that give up pointers.                                        *)
LEMMA DropKeeps ==
  ASSUME IInv, CInv, TypeInv', NEW r \in Readers,
         \/ EvalDeleted(r) \/ EvalStale(r) \/ Copy(r) \/ ProbeThrows(r)
         \/ InsertSkip(r) \/ Unlock(r) \/ (Ahead(r) /\ Return(r))
  PROVE  CInv'
<1>0. /\ rd \in [Readers -> ReaderType] /\ rd[r] \in ReaderType
      /\ item \in [Items -> ItemType] /\ held \in [Readers -> SUBSET Items]
      /\ weak \in [Chunk -> Items \cup {NoItem}] /\ heap \in SUBSET Items
      /\ disk \in [Chunk -> Nat \cup {None}]
  BY DEF IInv, TypeInv, TypeOK
<1>1. PICK x \in ReaderType : x = rd'[r]
  BY DEF TypeInv, TypeOK
<1>k. Kept(item)
  BY DEF Kept
<1>2. ASSUME NEW it \in [Items -> ItemType], NEW own \in SUBSET LiveNow, Kept(it),
             rd' = [rd EXCEPT ![r] = x], x.pc \notin Owning,
             Settle(it, weak, heap, [held EXCEPT ![r] = own]),
             \A c \in Chunk : disk'[c] \in {disk[c], None},
             \A j \in Items : it[j].task = item[j].task
      PROVE  CInv'
  <2>1. PICK hd \in [Readers -> SUBSET Items] : hd = [held EXCEPT ![r] = own]
    BY <1>0, LiveItems DEF IInv
  <2>2. heap \cup UNION {hd[s] : s \in Readers} \subseteq LiveNow
    BY <1>0, <2>1, LiveItems DEF IInv
  <2>3. \A j \in Items : it[j].task \in Running => j \in LiveNow
    BY <1>2 DEF LiveNow, Live
  <2>4. Fate(it, weak, {})
    BY <1>0, <1>2, <2>1, <2>2, <2>3, SettleFate DEF IInv
  <2>5. \A s \in Readers \ {r} : held'[s] = held[s]
    BY <1>0, <1>2, <2>1 DEF Settle
  <2>6. x.pc # "copy"
    BY <1>2 DEF Owning
  <2> QED BY <1>0, <1>2, <2>4, <2>5, <2>6, ReaderStays
<1>3. CASE EvalStale(r)
  <2>1. PICK i \in Items : i = rd[r].cur
    BY <1>0, <1>3 DEF EvalStale, IInv, OwnInv
  <2>2. rd[r].pc = "eval" /\ Bad(item[i]) /\ i \in LiveNow /\ Settled(i)
    BY <1>3, <2>1, LiveItems DEF EvalStale, IInv, OwnInv, SettledInv
  <2>3. item[i].task \notin Pending /\ ~Writer(item[i])
    BY <2>2 DEF CInv, ItemsInv, WriterInv, Sane, Settled, Bad, Writer, Pending
  <2> DEFINE it == [item EXCEPT ![i].invalid = TRUE]
  <2>4. it \in [Items -> ItemType]
    BY <1>0, InvalidType
  <2>5. \A j \in Items : /\ it[j].chunk = item[j].chunk
                         /\ it[j].task = item[j].task /\ it[j].buf = item[j].buf
                         /\ j # i => it[j].invalid = item[j].invalid
    BY <1>0 DEF ItemType
  <2>6. Settle(it, weak, heap, [held EXCEPT ![r] = Release(r)])
    BY <1>3, <2>1 DEF EvalStale
  <2>7. rd' = [rd EXCEPT ![r] = x] /\ x.pc \notin Owning /\ disk' = disk
    BY <1>0, <1>1, <1>3, MissingType DEF EvalStale, IInv, Owning
  <2> HIDE DEF it
  <2>8. Kept(it)
    BY <2>3, <2>5, LiveItems DEF Kept, IInv, Writer
  <2> QED BY <1>2, <2>4, <2>5, <2>6, <2>7, <2>8, ReleaseOwn
<1>4. CASE EvalDeleted(r) \/ (Ahead(r) /\ Return(r))
  <2>1. /\ rd' = [rd EXCEPT ![r] = x] /\ x.pc = "idle" /\ disk' = disk
        /\ Settle(item, weak, heap, [held EXCEPT ![r] = {}])
    <3>1. Return(r) /\ disk' = disk
      BY <1>4 DEF EvalDeleted, Ahead
    <3>2. rd' = [rd EXCEPT ![r] = Idle]
      BY <3>1 DEF Return
    <3>3. x = Idle
      BY <1>0, <1>1, <3>2
    <3> QED BY <3>1, <3>2, <3>3 DEF Return, Idle
  <2> QED BY <1>0, <1>k, <1>2, <2>1, ReleaseOwn DEF Owning
<1>5. CASE Copy(r)
  <2> DEFINE y == [rd[r] EXCEPT !.have = TRUE]
  <2>1. /\ y \in ReaderType /\ y.off = rd[r].off /\ y.size = rd[r].size
        /\ y.second = rd[r].second
    BY <1>0 DEF ReaderType
  <2>2. rd' = [rd EXCEPT ![r] = NextChunk(r, y)] /\ disk' = disk
        /\ Settle(item, weak, heap, [held EXCEPT ![r] = Release(r)])
    BY <1>5 DEF Copy
  <2> HIDE DEF y
  <2>3. x = NextChunk(r, y) /\ x.pc \in {"look", "ahead"}
    BY <1>0, <1>1, <2>1, <2>2, NextChunkType DEF IInv
  <2>4. x.pc \notin Owning
    BY <2>3 DEF Owning
  <2> QED BY <1>0, <1>k, <1>2, <2>2, <2>3, <2>4, ReleaseOwn
<1>6. CASE ProbeThrows(r)
  <2>1. /\ rd' = [rd EXCEPT ![r] = Unwind(rd[r])]
        /\ Settle(item, weak, heap, [held EXCEPT ![r] = {}])
        /\ \A c \in Chunk : disk'[c] \in {disk[c], None}
    BY <1>0, <1>6 DEF ProbeThrows
  <2>2. x = Unwind(rd[r]) /\ x.pc \in {"idle", "thrown"}
    BY <1>0, <1>1, <2>1, UnwindType DEF IInv
  <2>3. x.pc \notin Owning
    BY <2>2 DEF Owning
  <2> QED BY <1>0, <1>k, <1>2, <2>1, <2>2, <2>3, ReleaseOwn
<1>7. CASE InsertSkip(r)
  <2>1. /\ rd' = [rd EXCEPT ![r] = x] /\ x.pc = "insert" /\ disk' = disk
        /\ Settle(item, weak, heap, [held EXCEPT ![r] = Found(r)])
    BY <1>0, <1>1, <1>7 DEF InsertSkip, ReaderType
  <2>2. Found(r) \in SUBSET LiveNow
    <3>1. Head(rd[r].need) \in Chunk
      BY <1>0, <1>7 DEF InsertSkip, ReaderType
    <3> QED BY <3>1 DEF Found, LiveNow, IInv, WeakInv
  <2> QED BY <1>0, <1>k, <1>2, <2>1, <2>2 DEF Owning
<1>8. CASE Unlock(r)
  <2>1. /\ rd' = [rd EXCEPT ![r] = x] /\ x.pc \in {"idle", "begin"} /\ disk' = disk
        /\ Settle(item, weak, heap, [held EXCEPT ![r] = {}])
    BY <1>0, <1>1, <1>8 DEF Unlock, Idle
  <2>2. x.pc \notin Owning
    BY <2>1 DEF Owning
  <2> QED BY <1>0, <1>k, <1>2, <2>1, <2>2, ReleaseOwn
<1> QED BY <1>3, <1>4, <1>5, <1>6, <1>7, <1>8
(* A restart forgets the buffers; the files are what they were.            *)
LEMMA RestartKeeps ==
  ASSUME Restart, DiskInv'
  PROVE  CInv' /\ LiveNow' = {}
<1>1. /\ \A r \in Readers : rd'[r] = Idle /\ held'[r] = {}
      /\ \A i \in Items : item'[i] = Blank
      /\ \A c \in Chunk : weak'[c] = NoItem
      /\ heap' = {}
  BY DEF Restart
<1>2. LiveNow' = {}
  BY <1>1 DEF LiveNow, Live, Blank, Running
<1>3. PlaceInv' /\ ReaderInv'
  BY <1>1 DEF PlaceInv, ReaderInv, Idle, Owning
<1> QED BY <1>2, <1>3 DEF CInv, ItemsInv, WriterInv

(* Files that go leave the others as they were.                            *)
LEMMA DiskShrinks ==
  ASSUME DiskInv, \A c \in Chunk : disk'[c] \in {disk[c], None}
  PROVE  DiskInv'
BY NoneMatches DEF DiskInv

(* A buffer is published under its chunk.                                  *)
LEMMA PublishKeeps ==
  ASSUME IInv, CInv, TypeInv', NEW r \in Readers, NEW i \in Unused, NEW c \in Chunk,
         NEW x \in ItemType, NEW total \in Nat,
         NEW own \in SUBSET (LiveNow \cup {i}), NEW in \in ReaderType,
         Publish(r, i, c, x, total, own, in),
         \A d \in Chunk : disk'[d] \in {disk[d], None},
         x.chunk = c, Sane(x),
         \A j \in LiveNow : Writer(item[j]) => item[j].chunk # c,
         Writer(x) => ~Matches(disk'[c]) /\ ~x.invalid,
         x.task \notin Running,
         in.pc \in Owning => in.cur = i /\ i \in own /\ At(in) = c,
         in.pc = "copy" => Matches(x.buf)
  PROVE  CInv'
<1>0. /\ i \in Items /\ i \notin LiveNow /\ item \in [Items -> ItemType]
      /\ heap \in SUBSET Items /\ held \in [Readers -> SUBSET Items]
      /\ weak \in [Chunk -> Items \cup {NoItem}] /\ LiveNow \subseteq Items
  BY LiveItems DEF Unused, IInv, TypeInv, TypeOK, LiveNow
<1>1. CASE Restart
  BY <1>1, RestartKeeps, DiskShrinks DEF CInv
<1>2. ASSUME NEW V \in SUBSET (heap \cup {i}), rd' = [rd EXCEPT ![r] = in],
             Settle([item EXCEPT ![i] = x], [weak EXCEPT ![c] = i],
                    (heap \cup {i}) \ V, [held EXCEPT ![r] = own])
      PROVE  CInv'
  <2>1. PICK it \in [Items -> ItemType] : it = [item EXCEPT ![i] = x]
    BY <1>0
  <2>2. PICK wk \in [Chunk -> Items \cup {NoItem}] : wk = [weak EXCEPT ![c] = i]
    BY <1>0
  <2>3. PICK hp \in SUBSET Items : hp = (heap \cup {i}) \ V
    BY <1>0
  <2>4. PICK hd \in [Readers -> SUBSET Items] : hd = [held EXCEPT ![r] = own]
    BY <1>0
  <2>5. PICK fresh \in SUBSET Items : fresh = {i}
    BY <1>0
  <2>6. Settle(it, wk, hp, hd)
    BY <1>2, <2>1, <2>2, <2>3, <2>4
  <2>7. \A j \in Items \ fresh : it[j].task \in Running => j \in LiveNow
    BY <1>0, <2>1, <2>5 DEF LiveNow, Live
  <2>8. hp \cup UNION {hd[s] : s \in Readers} \subseteq LiveNow \cup fresh
    BY <1>0, <2>3, <2>4, <2>5, LiveItems DEF IInv
  <2>9. Fate(it, wk, fresh)
    BY <2>6, <2>7, <2>8, SettleFate DEF IInv
  <2>10. /\ \A j \in Items \ {i} : it[j] = item[j]
         /\ it[i] = x /\ wk[c] = i
         /\ \A d \in Chunk \ {c} : wk[d] = weak[d]
    BY <1>0, <2>1, <2>2
  <2>11. Kept(it)
    BY <1>0, <2>10 DEF Kept
  <2>12. Adds(it, wk, fresh)
    BY <1>0, <2>5, <2>10 DEF Adds
  <2>13. held' = hd /\ \A s \in Readers \ {r} : held'[s] = held[s]
    BY <1>0, <2>4, <2>6 DEF Settle
  <2>14. in.pc \in Owning => in.cur \in LiveNow' /\ it[in.cur].chunk = At(in)
    BY <1>0, <2>4, <2>10, <2>13 DEF LiveNow, Live
  <2>15. in.pc = "copy" => Matches(it[in.cur].buf)
    BY <2>10 DEF Owning
  <2> QED BY <1>2, <2>9, <2>11, <2>12, <2>13, <2>14, <2>15, ReaderKeeps
<1> QED BY <1>1, <1>2 DEF Publish

(* A file of an accepted length: nobody is writing that chunk.             *)
LEMMA NoWriter ==
  ASSUME CInv, NEW c \in Chunk, Matches(disk[c])
  PROVE  \A j \in LiveNow : Writer(item[j]) => item[j].chunk # c
BY DEF CInv, WriterInv

(* A file that is read from disk again is a whole chunk.                   *)
LEMMA HitKeeps ==
  ASSUME IInv, CInv, TypeInv', NEW r \in Readers, ProbeHit(r)
  PROVE  CInv'
<1>1. /\ rd[r] \in ReaderType /\ cacheSize \in Nat
      /\ disk \in [Chunk -> Nat \cup {None}]
      /\ held[r] \in SUBSET LiveNow /\ LiveNow \subseteq Items
  BY LiveItems DEF IInv, TypeInv, TypeOK
<1>2. PICK c \in Chunk : c = ChunkAt(r)
  BY ChunkAtType DEF IInv
<1>3. PICK n \in Nat : n = disk[c] /\ Matches(n)
  BY <1>1, <1>2 DEF ProbeHit
<1> DEFINE z(i) == [Blank EXCEPT !.chunk = c, !.buf = n, !.size = n]
           y(i) == [rd[r] EXCEPT !.pc = "copy", !.cur = i, !.cached = TRUE]
<1>4. PICK i \in Unused : Publish(r, i, c, z(i), cacheSize + n, held[r] \cup {i}, y(i))
  BY <1>2, <1>3 DEF ProbeHit
<1>a. z(i) \in ItemType /\ z(i).chunk = c /\ z(i).buf = n /\ z(i).task = "none"
  BY <1>1, BlankType DEF ItemType, Blank
<1>b. y(i) \in ReaderType /\ y(i).pc = "copy" /\ y(i).cur = i /\ At(y(i)) = c
  BY <1>1, <1>2 DEF ReaderType, PC, Unused, At, ChunkAt
<1> HIDE DEF z, y
<1>5. PICK x \in ItemType : /\ x = z(i) /\ x.chunk = c /\ x.buf = n
                           /\ x.task = "none"
  BY <1>a
<1>6. PICK in \in ReaderType : /\ in = y(i) /\ in.pc = "copy" /\ in.cur = i
                              /\ At(in) = c
  BY <1>b
<1>7. PICK own \in SUBSET (LiveNow \cup {i}) : own = held[r] \cup {i}
  BY <1>1
<1>8. PICK total \in Nat : total = cacheSize + n
  BY <1>1
<1>9. Publish(r, i, c, x, total, own, in)
  BY <1>4, <1>5, <1>6, <1>7, <1>8
<1>10. n = ChunkLen(c)
  BY <1>3 DEF CInv, DiskInv
<1>11. Sane(x) /\ ~Writer(x) /\ x.task \notin Running
  BY <1>5, <1>10 DEF Sane, Writer, Pending, Running
<1>12. \A j \in LiveNow : Writer(item[j]) => item[j].chunk # c
  BY <1>3, NoWriter
<1>13. disk' = disk
  BY DEF ProbeHit
<1> QED BY <1>3, <1>5, <1>6, <1>7, <1>9, <1>11, <1>12, <1>13, PublishKeeps

(* Under the lock nobody is downloading the chunk: m_buffers would name a  *)
(* buffer that is not given up.                                            *)
LEMMA WantedFree ==
  ASSUME CInv, NEW r \in Readers, NEW c \in Chunk, Wanted(r), c = Head(rd[r].need),
         LiveNow \subseteq Items
  PROVE  \A j \in LiveNow : Writer(item[j]) => item[j].chunk # c
BY CacheAssumption DEF CInv, WriterInv, Wanted

(* A chunk that is downloaded although something is on disk.               *)
LEMMA FetchedAnew ==
  ASSUME CInv, disk \in [Chunk -> Nat \cup {None}], NEW c \in Chunk, ~OnDisk(c)
  PROVE  ~Matches(disk[c])
<1>1. CASE disk[c] = None
  BY <1>1, NoneMatches
<1>2. ASSUME disk[c] # None, Matches(disk[c]) PROVE FALSE
  <2>1. disk[c] = ChunkLen(c) /\ disk[c] # BlockSize /\ c # ChunkNumber(FileSize)
    BY <1>2 DEF CInv, DiskInv, OnDisk
  <2>2. c \in Nat /\ c + 1 <= ChunkNumber(FileSize) /\ ChunkNumber(FileSize) \in Nat
    BY <2>1, DivBounds, SizesAssumption DEF Chunk
  <2>3. (c + 1) * BlockSize <= ChunkNumber(FileSize) * BlockSize
    BY <2>2, SizesAssumption, SMTT(30)
  <2>4. ChunkNumber(FileSize) * BlockSize <= FileSize
    BY DivBounds, SizesAssumption
  <2>5. (c + 1) * BlockSize = c * BlockSize + BlockSize
    BY <2>2, SizesAssumption
  <2>6. (c + 1) * BlockSize \in Int /\ c * BlockSize \in Int
        /\ ChunkNumber(FileSize) * BlockSize \in Int
    BY <2>2, SizesAssumption
  <2> QED BY <2>1, <2>3, <2>4, <2>5, <2>6, SizesAssumption DEF ChunkLen
<1> QED BY <1>1, <1>2

(* The insertion loop.                                                     *)
LEMMA InsertKeeps ==
  ASSUME IInv, CInv, TypeInv', NEW r \in Readers, Insert(r) \/ InsertThrows(r)
  PROVE  CInv'
<1>1. /\ rd[r] \in ReaderType /\ cacheSize \in Nat /\ LiveNow \subseteq Items
      /\ weak \in [Chunk -> Items \cup {NoItem}]
      /\ disk \in [Chunk -> Nat \cup {None}]
      /\ rd[r].need \in Seq(Chunk) /\ rd[r].need # <<>> /\ rd[r].pc = "insert"
  BY LiveItems DEF IInv, TypeInv, TypeOK, ReaderType, Insert, InsertThrows
<1>2. PICK c \in Chunk : c = Head(rd[r].need)
  BY <1>1
<1>3. ChunkLen(c) \in Nat /\ Tail(rd[r].need) \in Seq(Chunk)
  BY <1>1, ChunkLenNat
<1>4. PICK total \in Nat : total = cacheSize + ChunkLen(c)
  BY <1>1, <1>3
<1>5. \A j \in LiveNow : Writer(item[j]) => item[j].chunk # c
  BY <1>1, <1>2, WantedFree DEF Insert, InsertThrows
<1>6. CASE Insert(r)
  <2> DEFINE t == IF OnDisk(c) THEN "read" ELSE "fetch"
             z == [Blank EXCEPT !.chunk = c, !.size = ChunkLen(c), !.task = t]
             y == [rd[r] EXCEPT !.need = Tail(@)]
  <2>1. PICK i \in Unused : Publish(r, i, c, z, total, Found(r), y)
    BY <1>2, <1>4, <1>6 DEF Insert
  <2>2. t \in Queued /\ (t = "fetch" => ~OnDisk(c))
    BY DEF Queued
  <2> HIDE DEF t
  <2>a. /\ z \in ItemType /\ z.chunk = c /\ z.buf = None
        /\ z.task = t /\ ~z.invalid
    BY <1>3, <2>2, BlankType DEF ItemType, Blank
  <2>b. y \in ReaderType /\ y.pc = "insert"
    BY <1>1, <1>3 DEF ReaderType
  <2> HIDE DEF z, y
  <2>3. PICK x \in ItemType : /\ x = z /\ x.chunk = c /\ x.buf = None
                             /\ x.task = t /\ ~x.invalid
    BY <2>a
  <2>4. PICK in \in ReaderType : in = y /\ in.pc = "insert"
    BY <2>b
  <2>5. PICK own \in SUBSET (LiveNow \cup {i}) : own = Found(r)
    BY <1>2 DEF Found, LiveNow, IInv, WeakInv
  <2>6. Publish(r, i, c, x, total, own, in) /\ disk' = disk
    BY <1>6, <2>1, <2>3, <2>4, <2>5 DEF Insert
  <2>7. Sane(x) /\ x.task \notin Running
    BY <2>2, <2>3, NoneMatches DEF Sane, Queued, Running
  <2>8. Writer(x) => ~Matches(disk'[c]) /\ ~x.invalid
    BY <1>1, <2>2, <2>3, <2>6, FetchedAnew, NoneMatches DEF Writer, Queued
  <2>9. in.pc \notin Owning /\ in.pc # "copy"
    BY <2>4 DEF Owning
  <2> QED BY <1>5, <2>3, <2>6, <2>7, <2>8, <2>9, PublishKeeps
<1>7. CASE InsertThrows(r)
  <2> DEFINE z == [Blank EXCEPT !.chunk = c, !.size = ChunkLen(c)]
  <2>1. PICK i \in Unused : Publish(r, i, c, z, total, {}, Unwind(rd[r]))
    BY <1>2, <1>4, <1>7 DEF InsertThrows
  <2>a. z \in ItemType /\ z.chunk = c /\ z.buf = None /\ z.task = "none"
    BY <1>3, BlankType DEF ItemType, Blank
  <2> HIDE DEF z
  <2>2. PICK x \in ItemType : /\ x = z /\ x.chunk = c /\ x.buf = None
                             /\ x.task = "none"
    BY <2>a
  <2>3. PICK in \in ReaderType : in = Unwind(rd[r]) /\ in.pc \in {"idle", "thrown"}
    BY UnwindType DEF IInv
  <2>4. PICK own \in SUBSET (LiveNow \cup {i}) : own = {}
    OBVIOUS
  <2>5. Publish(r, i, c, x, total, own, in)
    BY <2>1, <2>2, <2>3, <2>4
  <2>6. \A d \in Chunk : disk'[d] \in {disk[d], None}
    BY <1>1, <1>2, <1>7 DEF InsertThrows
  <2>7. Sane(x) /\ ~Writer(x) /\ x.task \notin Running
    BY <2>2, NoneMatches DEF Sane, Writer, Pending, Running
  <2>8. in.pc \notin Owning /\ in.pc # "copy"
    BY <2>3 DEF Owning
  <2> QED BY <1>5, <2>2, <2>5, <2>6, <2>7, <2>8, PublishKeeps
<1> QED BY <1>6, <1>7
-----------------------------------------------------------------------------
(* The pool tasks' steps.                                                  *)

(* What a task may do to its buffer: fill it once, with a whole chunk or   *)
(* with something the code rejects, and give it up.                        *)
Fills(z, x) ==
  /\ x.chunk = z.chunk
  /\ z.buf # None => x.buf = z.buf
  /\ Sane(x)
  /\ Writer(x) => Writer(z) /\ x.invalid = z.invalid

LEMMA TaskKeeps ==
  ASSUME IInv, CInv, TypeInv', NEW i \in Items, NEW x \in ItemType, Step(i, x),
         \/ i \in LiveNow /\ Fills(item[i], x)
         \/ i \notin LiveNow /\ x.task \notin Running,
         DiskInv',
         \A j \in LiveNow \ {i} : Writer(item[j]) => ~Matches(disk'[item[j].chunk]),
         i \in LiveNow /\ Writer(x) => ~Matches(disk'[x.chunk])
  PROVE  /\ CInv'
         /\ \A j \in LiveNow' : j \in LiveNow /\ (item[j].buf # None => item'[j].buf = item[j].buf)
<1>0. /\ item \in [Items -> ItemType] /\ heap \in SUBSET Items
      /\ held \in [Readers -> SUBSET Items] /\ LiveNow \subseteq Items
      /\ weak \in [Chunk -> Items \cup {NoItem}]
      /\ \A s \in Readers : held[s] \subseteq LiveNow
      /\ NoItem \notin Items
  BY LiveItems, CacheAssumption DEF IInv, TypeInv, TypeOK
<1>1. PICK it \in [Items -> ItemType] : it = [item EXCEPT ![i] = x]
  BY <1>0
<1>2. PICK none \in SUBSET Items : none = {}
  OBVIOUS
<1>3. Settle(it, weak, heap, held) /\ rd' = rd
  BY <1>1 DEF Step
<1>4. \A j \in Items : it[j] = IF j = i THEN x ELSE item[j]
  BY <1>0, <1>1
<1>5. \A j \in Items \ none : it[j].task \in Running => j \in LiveNow
  BY <1>4 DEF LiveNow, Live
<1>6. heap \cup UNION {held[s] : s \in Readers} \subseteq LiveNow \cup none
  BY DEF LiveNow, Live
<1>7. Fate(it, weak, none)
  BY <1>0, <1>3, <1>5, <1>6, SettleFate DEF IInv
<1>8. /\ LiveNow' \subseteq LiveNow
      /\ \A j \in LiveNow' : item'[j] = it[j]
      /\ \A c \in Chunk : weak'[c] = IF weak[c] \in LiveNow' THEN weak[c] ELSE NoItem
  BY <1>2, <1>7 DEF Fate
<1>9. ASSUME NEW j \in LiveNow'
      PROVE  /\ j \in LiveNow /\ j \in Items
             /\ item'[j].chunk = item[j].chunk
             /\ item[j].buf # None => item'[j].buf = item[j].buf
             /\ Sane(item'[j])
             /\ Writer(item'[j]) => /\ Writer(item[j]) /\ item'[j].invalid = item[j].invalid
                                    /\ ~Matches(disk'[item[j].chunk])
  <2>1. j \in LiveNow /\ j \in Items /\ item'[j] = it[j]
    BY <1>0, <1>8
  <2>2. CASE j = i
    BY <1>4, <2>1, <2>2 DEF Fills
  <2>3. CASE j # i
    BY <1>4, <2>1, <2>3 DEF CInv, ItemsInv
  <2> QED BY <2>1, <2>2, <2>3
<1>10. ItemsInv'
  BY <1>9 DEF ItemsInv
<1>11. PlaceInv'
  <2>1. ASSUME NEW c \in Chunk, weak'[c] # NoItem
        PROVE  item'[weak'[c]].chunk = c
    <3>1. weak'[c] \in LiveNow' /\ weak'[c] = weak[c] /\ weak[c] # NoItem
      BY <1>8, <2>1
    <3> QED BY <1>9, <3>1 DEF CInv, PlaceInv
  <2> QED BY <2>1 DEF PlaceInv
<1>12. ReaderInv'
  <2>1. ASSUME NEW s \in Readers, rd[s].pc \in Owning
        PROVE  /\ item'[rd[s].cur].chunk = ChunkAt(s)
               /\ rd[s].pc = "copy" => Matches(item'[rd[s].cur].buf)
    <3>1. rd[s].cur \in held[s]
      BY <2>1 DEF IInv, OwnInv, Owning
    <3>2. held' = held
      BY <1>3 DEF Settle
    <3>3. rd[s].cur \in LiveNow'
      BY <3>1, <3>2 DEF LiveNow, Live
    <3>4. /\ item[rd[s].cur].chunk = ChunkAt(s)
          /\ rd[s].pc = "copy" => Matches(item[rd[s].cur].buf)
      BY <2>1 DEF CInv, ReaderInv
    <3> QED BY <1>9, <3>3, <3>4, NoneMatches
  <2> QED BY <1>3, <2>1 DEF ReaderInv, ChunkAt, Owning
<1>13. WriterInv'
  <2>1. ASSUME NEW j \in LiveNow', Writer(item'[j])
        PROVE  /\ weak'[item'[j].chunk] = j
               /\ ~Matches(disk'[item'[j].chunk])
               /\ ~item'[j].invalid
    <3>1. weak[item[j].chunk] = j /\ ~item[j].invalid /\ item[j].chunk \in Chunk
      BY <1>0, <1>9, <2>1 DEF CInv, WriterInv, ItemType
    <3> QED BY <1>8, <1>9, <2>1, <3>1
  <2> QED BY <2>1 DEF WriterInv
<1> QED BY <1>9, <1>10, <1>11, <1>12, <1>13 DEF CInv

(* Every step of a task, under the assumption about lengths.               *)
LEMMA TasksKeep ==
  ASSUME IInv, CInv, TypeInv', HonestLengths, NEW i \in Items, TaskStep(i)
  PROVE  /\ CInv'
         /\ \A j \in LiveNow' : j \in LiveNow /\ (item[j].buf # None => item'[j].buf = item[j].buf)
<1> DEFINE Goal == /\ CInv'
                   /\ \A j \in LiveNow' : /\ j \in LiveNow
                                          /\ item[j].buf # None => item'[j].buf = item[j].buf
<1>0. PICK z \in ItemType : z = item[i]
  BY DEF IInv, TypeInv, TypeOK
<1>1. /\ z.task \in Running => i \in LiveNow
      /\ i \in LiveNow => Sane(z)
      /\ z.chunk \in Chunk /\ disk \in [Chunk -> Nat \cup {None}]
      /\ LiveNow \subseteq Items
      /\ \A j \in LiveNow : item[j].chunk \in Chunk
  BY <1>0, LiveItems DEF LiveNow, Live, ItemType, IInv, TypeInv, TypeOK, CInv, ItemsInv
<1>2. \A j \in LiveNow : Writer(item[j]) => ~Matches(disk[item[j].chunk])
  BY DEF CInv, WriterInv
(* A step that leaves the disk alone.                                      *)
<1>3. ASSUME NEW x \in ItemType, Step(i, x), i \in LiveNow, Fills(z, x), disk' = disk
      PROVE  Goal
  <2>1. DiskInv'
    BY <1>3 DEF CInv, DiskInv
  <2>2. Writer(x) => ~Matches(disk'[x.chunk])
    BY <1>0, <1>2, <1>3 DEF Fills
  <2> QED BY <1>0, <1>2, <1>3, <2>1, <2>2, TaskKeeps
<1>4. CASE Expire(i)
  <2>1. Blank \in ItemType /\ Blank.task \notin Running
    BY BlankType DEF Blank, Running
  <2>2. Step(i, Blank) /\ i \notin LiveNow /\ disk' = disk
    BY <1>4 DEF Expire, LiveNow
  <2>3. DiskInv'
    BY <2>2 DEF CInv, DiskInv
  <2> QED BY <1>2, <2>1, <2>2, <2>3, TaskKeeps
<1>5. ASSUME NEW from \in {"read", "fetch"}, NEW to \in {"reading", "fetching"},
             StartTask(i, from, to), from = "read" => to = "reading"
      PROVE  Goal
  <2> DEFINE x == [z EXCEPT !.task = to, !.backoff = FALSE]
  <2>1. Step(i, x) /\ i \in LiveNow /\ z.task = from /\ disk' = disk
    BY <1>0, <1>5 DEF StartTask, LiveNow
  <2>2. x \in ItemType /\ x.chunk = z.chunk /\ x.buf = z.buf
        /\ x.invalid = z.invalid /\ x.task = to
    BY DEF ItemType, Running
  <2> HIDE DEF x
  <2>3. Fills(z, x)
    BY <1>1, <1>5, <2>1, <2>2 DEF Fills, Sane, Pending, Writer
  <2> QED BY <1>3, <2>1, <2>2, <2>3
<1>6. CASE ReadOk(i)
  <2>1. PICK n \in Nat : n = disk[z.chunk]
    BY <1>0, <1>1, <1>6 DEF ReadOk
  <2> DEFINE x == [z EXCEPT !.task = "none", !.token = TRUE, !.buf = n]
  <2>2. Step(i, x) /\ i \in LiveNow /\ z.task = "reading" /\ disk' = disk
    BY <1>0, <1>1, <1>6, <2>1 DEF ReadOk, Running
  <2>3. x \in ItemType /\ x.chunk = z.chunk /\ x.buf = n /\ x.task = "none"
    BY <2>1 DEF ItemType
  <2> HIDE DEF x
  <2>4. Matches(n) => n = ChunkLen(z.chunk)
    BY <1>1, <2>1 DEF CInv, DiskInv
  <2>5. Fills(z, x)
    BY <1>1, <2>2, <2>3, <2>4 DEF Fills, Sane, Pending, Writer
  <2> QED BY <1>3, <2>2, <2>3, <2>5
<1>7. ASSUME NEW x \in ItemType, Step(i, x), disk' = disk, z.task \in {"reading", "fetching"},
             x.chunk = z.chunk, x.buf = z.buf, x.task = "none"
      PROVE  Goal
  <2>1. i \in LiveNow
    BY <1>1, <1>7 DEF Running
  <2>2. Fills(z, x)
    BY <1>1, <1>7, <2>1, NoneMatches DEF Fills, Sane, Pending, Writer
  <2> QED BY <1>3, <1>7, <2>1, <2>2
<1>8. CASE ReadFails(i)
  <2> DEFINE x == [z EXCEPT !.task = "none", !.token = TRUE, !.invalid = TRUE]
  <2>1. Step(i, x) /\ z.task = "reading" /\ disk' = disk
    BY <1>0, <1>8 DEF ReadFails
  <2>2. x \in ItemType /\ x.chunk = z.chunk /\ x.buf = z.buf /\ x.task = "none"
    BY DEF ItemType
  <2> HIDE DEF x
  <2> QED BY <1>7, <2>1, <2>2
<1>9. CASE FetchOk(i)
  <2>1. PICK n \in Bodies[z.chunk] :
          Step(i, [z EXCEPT !.task = "write", !.token = TRUE, !.buf = n])
    BY <1>0, <1>9 DEF FetchOk
  <2>2. n \in Nat /\ (Matches(n) => n = ChunkLen(z.chunk))
    BY <1>1, CacheAssumption DEF HonestLengths
  <2> DEFINE x == [z EXCEPT !.task = "write", !.token = TRUE, !.buf = n]
  <2>3. Step(i, x) /\ i \in LiveNow /\ z.task = "fetching" /\ disk' = disk
    BY <1>0, <1>1, <1>9, <2>1 DEF FetchOk, Running
  <2>4. /\ x \in ItemType /\ x.chunk = z.chunk /\ x.buf = n /\ x.task = "write"
        /\ x.invalid = z.invalid
    BY <2>2 DEF ItemType, Queued
  <2> HIDE DEF x
  <2>5. Fills(z, x)
    BY <1>1, <2>2, <2>3, <2>4 DEF Fills, Sane, Pending, Writer
  <2> QED BY <1>3, <2>3, <2>4, <2>5
<1>10. ASSUME Step(i, [z EXCEPT !.backoff = TRUE]), z.task = "fetching", disk' = disk
       PROVE  Goal
  <2> DEFINE x == [z EXCEPT !.backoff = TRUE]
  <2>1. /\ x \in ItemType /\ x.chunk = z.chunk /\ x.buf = z.buf
        /\ x.task = z.task /\ x.invalid = z.invalid
    BY DEF ItemType
  <2>2. Step(i, x) /\ i \in LiveNow
    BY <1>1, <1>10 DEF Running
  <2> HIDE DEF x
  <2>3. Fills(z, x)
    BY <1>1, <2>1, <2>2 DEF Fills, Sane, Writer
  <2> QED BY <1>3, <1>10, <2>1, <2>2, <2>3
<1>11. CASE FetchError(i)
  BY <1>0, <1>10, <1>11 DEF FetchError
<1>12. CASE Fetch404(i)
  <2> DEFINE x == [z EXCEPT !.task = "none", !.token = TRUE,
                            !.invalid = TRUE, !.deleted = TRUE]
  <2>1. CASE z.backoff
    <3>1. Step(i, x) /\ z.task = "fetching" /\ disk' = disk
      BY <1>0, <1>12, <2>1 DEF Fetch404
    <3>2. x \in ItemType /\ x.chunk = z.chunk /\ x.buf = z.buf /\ x.task = "none"
      BY DEF ItemType
    <3> HIDE DEF x
    <3> QED BY <1>7, <3>1, <3>2
  <2>2. CASE ~z.backoff
    BY <1>0, <1>10, <1>12, <2>2 DEF Fetch404
  <2> QED BY <2>1, <2>2
<1>13. ASSUME NEW t \in {"none", "writing"}, Step(i, [z EXCEPT !.task = t]),
              z.task \in {"write", "writing"}, i \in LiveNow,
              NEW n, disk' = [disk EXCEPT ![z.chunk] = n],
              Matches(n) => t = "none" /\ n = z.buf
       PROVE  Goal
  <2> DEFINE x == [z EXCEPT !.task = t]
  <2>1. /\ x \in ItemType /\ x.chunk = z.chunk /\ x.buf = z.buf
        /\ x.task = t /\ x.invalid = z.invalid
    BY <1>13 DEF ItemType, Running
  <2>2. Step(i, x)
    BY <1>13
  <2> HIDE DEF x
  <2>3. Fills(z, x)
    BY <1>1, <1>13, <2>1 DEF Fills, Sane, Writer, Pending
  <2>4. \A c \in Chunk : disk'[c] = IF c = z.chunk THEN n ELSE disk[c]
    BY <1>1, <1>13
  <2>5. DiskInv'
    BY <1>1, <1>13, <2>4 DEF CInv, DiskInv, Sane
  <2>6. ASSUME NEW j \in LiveNow \ {i}, Writer(item[j])
        PROVE  ~Matches(disk'[item[j].chunk])
    <3>1. ~Matches(disk[item[j].chunk]) /\ weak[item[j].chunk] = j
      BY <2>6 DEF CInv, WriterInv
    <3>2. CASE item[j].chunk = z.chunk
      <4>1. Writer(z) => weak[z.chunk] = i
        BY <1>0, <1>13 DEF CInv, WriterInv
      <4>2. ~Writer(z)
        BY <2>6, <3>1, <3>2, <4>1
      <4>3. ~Matches(z.buf)
        BY <1>13, <4>2 DEF Writer
      <4> QED BY <1>1, <1>13, <2>4, <3>2, <4>3
    <3>3. CASE item[j].chunk # z.chunk
      BY <1>1, <2>4, <3>1, <3>3
    <3> QED BY <3>2, <3>3
  <2>7. Writer(x) => ~Matches(disk'[x.chunk])
    BY <1>1, <1>13, <2>1, <2>4 DEF Writer
  <2> QED BY <1>0, <1>13, <2>1, <2>2, <2>3, <2>5, <2>6, <2>7, TaskKeeps
<1>14. CASE WriteStart(i)
  <2>1. z.task = "write" /\ i \in LiveNow
    BY <1>0, <1>14 DEF WriteStart, LiveNow
  <2>2. CASE z.invalid
    <3> DEFINE x == [z EXCEPT !.task = "none"]
    <3>1. Step(i, x) /\ disk' = disk
      BY <1>0, <1>14, <2>2 DEF WriteStart
    <3>2. x \in ItemType /\ x.chunk = z.chunk /\ x.buf = z.buf /\ x.task = "none"
      BY DEF ItemType
    <3> HIDE DEF x
    <3>3. Fills(z, x)
      BY <1>1, <2>1, <3>2 DEF Fills, Sane, Writer, Pending
    <3> QED BY <1>3, <2>1, <3>1, <3>2, <3>3
  <2>3. CASE ~z.invalid
    <3>1. PICK n \in Torn : disk' = [disk EXCEPT ![z.chunk] = n]
      BY <1>0, <1>14, <2>3 DEF WriteStart
    <3>2. Step(i, [z EXCEPT !.task = "writing"])
      BY <1>0, <1>14, <2>3 DEF WriteStart
    <3>3. ~Matches(n)
      BY DEF HonestLengths
    <3> QED BY <1>13, <2>1, <3>1, <3>2, <3>3
  <2> QED BY <2>2, <2>3
<1>15. CASE WriteEnd(i)
  <2>1. /\ z.task = "writing" /\ Step(i, [z EXCEPT !.task = "none"])
        /\ disk' = [disk EXCEPT ![z.chunk] = z.buf]
    BY <1>0, <1>15 DEF WriteEnd
  <2>2. i \in LiveNow
    BY <1>1, <2>1 DEF Running
  <2> QED BY <1>13, <2>1, <2>2
<1>16. CASE ReadAborts(i) \/ WriteAborts(i)
  <2>1. Restart /\ disk' = disk
    BY <1>16 DEF ReadAborts, WriteAborts
  <2>2. DiskInv'
    BY <2>1 DEF CInv, DiskInv
  <2> QED BY <2>1, <2>2, RestartKeeps
<1>17. CASE ReadStart(i) \/ FetchStart(i)
  BY <1>5, <1>17 DEF ReadStart, FetchStart
<1> QED BY <1>4, <1>6, <1>8, <1>9, <1>11, <1>12, <1>14, <1>15, <1>16, <1>17
        DEF TaskStep
-----------------------------------------------------------------------------
(* The invariant, and what it says of a copy and of two downloads.         *)

LEMMA InitCInv == Init => CInv
<1> SUFFICES ASSUME Init PROVE CInv
  OBVIOUS
<1>1. LiveNow = {}
  BY DEF Init, LiveNow, Live, Blank, Running
<1>2. ItemsInv /\ WriterInv
  BY <1>1 DEF ItemsInv, WriterInv
<1>3. DiskInv
  BY NoneMatches DEF Init, DiskInv
<1>4. PlaceInv /\ ReaderInv
  BY DEF Init, PlaceInv, ReaderInv, Idle, Owning
<1> QED BY <1>2, <1>3, <1>4 DEF CInv

(* Every step keeps the invariant.                                         *)
LEMMA NextCInv ==
  ASSUME HonestLengths
  PROVE  LInv /\ CInv /\ [Next]_vars => CInv'
<1> SUFFICES ASSUME LInv, CInv, [Next]_vars PROVE CInv'
  OBVIOUS
<1>0. IInv
  BY DEF LInv
<1>1. TypeInv'
  BY <1>0, NextType DEF IInv
<1>2. ASSUME NEW r \in Readers, ReaderStep(r) PROVE CInv'
  <2>1. CASE Ahead(r)
    <3>1. UNCHANGED <<item, weak, heap, held>> \/ Return(r)
      BY <2>1 DEF Ahead
    <3> QED BY <1>0, <1>1, <2>1, <3>1, MoveKeeps, DropKeeps
  <2>2. CASE ~Ahead(r)
    BY <1>0, <1>1, <1>2, <2>2, MoveKeeps, LookKeeps, DropKeeps, HitKeeps, InsertKeeps
       DEF ReaderStep
  <2> QED BY <2>1, <2>2
<1>3. ASSUME NEW r \in Readers, StartRead(r) \/ ProbeThrows(r) \/ InsertThrows(r)
      PROVE  CInv'
  BY <1>0, <1>1, <1>3, MoveKeeps, DropKeeps, InsertKeeps
<1>4. ASSUME UNCHANGED <<weak, heap, item, rd, held>>,
             \A c \in Chunk : disk'[c] \in {disk[c], None}
      PROVE  CInv'
  <2>1. LiveNow' = LiveNow
    BY <1>4 DEF LiveNow, Live
  <2>2. DiskInv'
    BY <1>4, DiskShrinks DEF CInv
  <2>3. ItemsInv' /\ PlaceInv' /\ ReaderInv'
    BY <1>4, <2>1 DEF CInv, ItemsInv, PlaceInv, ReaderInv, ChunkAt
  <2>4. \A i \in LiveNow : item[i].chunk \in Chunk
    BY <1>0, LiveItems DEF IInv, TypeInv, TypeOK, ItemType
  <2>5. WriterInv'
    BY <1>4, <2>1, <2>4, NoneMatches DEF CInv, WriterInv
  <2> QED BY <2>2, <2>3, <2>5 DEF CInv
<1>5. ASSUME NEW c \in Chunk, EvictFile(c) PROVE CInv'
  BY <1>0, <1>4, <1>5 DEF EvictFile, IInv, TypeInv, TypeOK
<1>6. CASE Crash
  <2>1. DiskInv'
    BY <1>6 DEF Crash, CInv, DiskInv
  <2> QED BY <1>6, <2>1, RestartKeeps DEF Crash
<1>7. CASE UNCHANGED vars
  BY <1>4, <1>7 DEF vars
<1> QED BY <1>0, <1>1, <1>2, <1>3, <1>5, <1>6, <1>7, TasksKeep DEF Next

(* The remainder is what is left of the chunk number.                      *)
LEMMA Remainder ==
  ASSUME NEW a \in Nat
  PROVE  a % BlockSize = a - ChunkNumber(a) * BlockSize
BY SizesAssumption, SMTT(30) DEF ChunkNumber

(* A copy out of a whole chunk stays inside the chunk and inside the reply.*)
LEMMA WholeCopy ==
  ASSUME NEW off \in 0 .. (FileSize - 1), NEW size \in Nat, off + size <= FileSize
  PROVE  /\ ~SpillsOver(off, size) =>
              (off % BlockSize) + size <= ChunkLen(ChunkNumber(off))
         /\ SpillsOver(off, size) =>
              /\ ChunkLen(ChunkNumber(off)) - (off % BlockSize) \in 0 .. size
              /\ (off + size) % BlockSize \in 0 .. size
              /\ (off + size) % BlockSize <= ChunkLen(ChunkNumber(off) + 1)
         /\ off % BlockSize \in Nat
<1> DEFINE q == ChunkNumber(off)
           p == ChunkNumber(off + size)
<1>0. off \in Nat /\ off + size \in Nat /\ BlockSize \in Nat /\ FileSize \in Nat
  BY SizesAssumption
<1>1. q \in Nat /\ q * BlockSize <= off /\ off < (q + 1) * BlockSize
  BY <1>0, DivBounds
<1>2. p \in Nat /\ p * BlockSize <= off + size /\ off + size < (p + 1) * BlockSize
  BY <1>0, DivBounds
<1>3. off % BlockSize = off - q * BlockSize
  BY <1>0, Remainder
<1>4. (off + size) % BlockSize = (off + size) - p * BlockSize
  <2>1. \A a \in Nat : a % BlockSize = a - ChunkNumber(a) * BlockSize
    BY Remainder
  <2> QED BY <1>0, <2>1, Zenon
<1>5. q <= p
  BY <1>0, DivMono
<1>6. SpillsOver(off, size) <=> q # p
  BY DEF SpillsOver
<1>7. /\ ChunkLen(q) = IF (q + 1) * BlockSize >= FileSize
                        THEN FileSize - q * BlockSize ELSE BlockSize
      /\ ChunkLen(q + 1) = IF ((q + 1) + 1) * BlockSize >= FileSize
                            THEN FileSize - (q + 1) * BlockSize ELSE BlockSize
  BY DEF ChunkLen
<1> HIDE DEF q, p
<1>8. /\ (q + 1) * BlockSize = q * BlockSize + BlockSize
      /\ (p + 1) * BlockSize = p * BlockSize + BlockSize
      /\ q * BlockSize \in Nat /\ p * BlockSize \in Nat
  BY <1>0, <1>1, <1>2
<1>9. q # p => (q + 1) * BlockSize <= p * BlockSize
  <2> SUFFICES ASSUME q # p PROVE (q + 1) * BlockSize <= p * BlockSize
    OBVIOUS
  <2>1. q + 1 <= p
    BY <1>1, <1>2, <1>5
  <2> QED BY <1>0, <1>1, <1>2, <2>1, SMTT(30)
<1>10. PICK Q \in Nat, P \in Nat : Q = q * BlockSize /\ P = p * BlockSize
  BY <1>8
<1>11. (q + 1) * BlockSize = Q + BlockSize /\ off < Q + BlockSize /\ Q <= off
       /\ P <= off + size /\ off + size < P + BlockSize
       /\ (q # p => Q + BlockSize <= P)
  BY <1>1, <1>2, <1>8, <1>9, <1>10
<1>12. off % BlockSize = off - Q /\ (off + size) % BlockSize = off + size - P
  BY <1>3, <1>4, <1>10
<1>13. q = p => P = Q
  BY <1>10
<1>14. CASE q = p
  <2>1. off + size - Q <= ChunkLen(q)
    BY <1>0, <1>7, <1>10, <1>11, <1>13, <1>14
  <2> QED BY <1>0, <1>6, <1>11, <1>12, <1>14, <2>1 DEF q
<1>15. CASE q # p
  <2>1. ChunkLen(q) = BlockSize
    BY <1>0, <1>7, <1>10, <1>11, <1>15
  <2>2. off + size - P <= ChunkLen(q + 1)
    BY <1>0, <1>7, <1>10, <1>11, <1>15
  <2> QED BY <1>0, <1>6, <1>11, <1>12, <1>15, <2>1, <2>2 DEF q
<1> QED BY <1>14, <1>15

(* What a reader copies is in its buffer and fits in the reply.            *)
LEMMA CopyInside == IInv /\ CInv => CopySafe
<1> SUFFICES ASSUME IInv, CInv, NEW r \in Readers, rd[r].pc = "copy"
             PROVE  /\ item[rd[r].cur].buf # None
                    /\ CopyLen(r) \in 0 .. rd[r].size
                    /\ CopyFrom(r) + CopyLen(r) <= item[rd[r].cur].buf
  BY DEF CopySafe
<1>1. rd[r].cur \in held[r] /\ rd[r].cur \in LiveNow
  BY LiveItems DEF IInv, OwnInv
<1>2. /\ Matches(item[rd[r].cur].buf) /\ item[rd[r].cur].chunk = ChunkAt(r)
  BY DEF CInv, ReaderInv, Owning
<1>3. item[rd[r].cur].buf = ChunkLen(ChunkAt(r))
  BY <1>1, <1>2 DEF CInv, ItemsInv, Sane
<1>4. item[rd[r].cur].buf # None
  BY <1>2, NoneMatches
<1>5. /\ rd[r].off \in 0 .. (FileSize - 1) /\ rd[r].size \in Nat
      /\ rd[r].off + rd[r].size <= FileSize /\ (rd[r].second => Spills(r))
      /\ rd[r].second \in BOOLEAN
  BY DEF IInv, TypeInv, TypeOK, ReaderType, RequestInv
<1>6. ChunkNumber(rd[r].off) \in Nat /\ ChunkAt(r) \in Chunk /\ ChunkLen(ChunkAt(r)) \in Nat
  BY <1>5, DivBounds, ChunkAtType, ChunkLenNat, SizesAssumption DEF IInv
<1>7. /\ ~Spills(r) => (rd[r].off % BlockSize) + rd[r].size <= ChunkLen(ChunkNumber(rd[r].off))
      /\ Spills(r) =>
           /\ ChunkLen(ChunkNumber(rd[r].off)) - (rd[r].off % BlockSize) \in 0 .. rd[r].size
           /\ (rd[r].off + rd[r].size) % BlockSize \in 0 .. rd[r].size
           /\ (rd[r].off + rd[r].size) % BlockSize <= ChunkLen(ChunkNumber(rd[r].off) + 1)
      /\ rd[r].off % BlockSize \in Nat
  BY <1>5, WholeCopy DEF Spills
<1>8. CASE rd[r].second
  <2>1. /\ CopyFrom(r) = 0 /\ CopyLen(r) = (rd[r].off + rd[r].size) % BlockSize
        /\ ChunkAt(r) = ChunkNumber(rd[r].off) + 1
    BY <1>8 DEF CopyFrom, CopyLen, ChunkAt
  <2> QED BY <1>3, <1>4, <1>5, <1>7, <1>8, <2>1
<1>9. CASE ~rd[r].second /\ Spills(r)
  <2>1. /\ CopyFrom(r) = rd[r].off % BlockSize
        /\ CopyLen(r) = item[rd[r].cur].buf - (rd[r].off % BlockSize)
        /\ ChunkAt(r) = ChunkNumber(rd[r].off)
    BY <1>6, <1>9 DEF CopyFrom, CopyLen, ChunkAt
  <2> QED BY <1>3, <1>4, <1>5, <1>6, <1>7, <1>9, <2>1
<1>10. CASE ~rd[r].second /\ ~Spills(r)
  <2>1. /\ CopyFrom(r) = rd[r].off % BlockSize /\ CopyLen(r) = rd[r].size
        /\ ChunkAt(r) = ChunkNumber(rd[r].off)
    BY <1>6, <1>10 DEF CopyFrom, CopyLen, ChunkAt
  <2> QED BY <1>3, <1>4, <1>5, <1>7, <1>10, <2>1
<1> QED BY <1>8, <1>9, <1>10

(* A reader never copies past the end of its buffer or of its reply,       *)
(* whatever is evicted, fails, is given up by others or crashes, as long   *)
(* as no wrong length is taken for a right one.                            *)
THEOREM CopiesInside ==
  ASSUME HonestLengths
  PROVE  Spec => []CopySafe
<1>1. Init => LInv /\ CInv
  BY InitLInv, InitCInv
<1>2. (LInv /\ CInv) /\ [Next]_vars => (LInv /\ CInv)'
  BY NextLInv, NextCInv
<1>3. LInv /\ CInv => CopySafe
  BY CopyInside DEF LInv
<1> QED BY <1>1, <1>2, <1>3, PTL DEF Spec

(* However many readers miss a chunk at the same time, and whatever is     *)
(* evicted from memory or from disk meanwhile, it is downloaded once.      *)
THEOREM OneDownload ==
  ASSUME HonestLengths
  PROVE  Spec => []OneFetchPerChunk
<1>1. Init => LInv /\ CInv
  BY InitLInv, InitCInv
<1>2. (LInv /\ CInv) /\ [Next]_vars => (LInv /\ CInv)'
  BY NextLInv, NextCInv
<1>3. LInv /\ CInv => OneFetchPerChunk
  BY DEF CInv, WriterInv, Writer, OneFetchPerChunk, Fetches, LiveNow
<1> QED BY <1>1, <1>2, <1>3, PTL DEF Spec
-----------------------------------------------------------------------------
(* Whatever the lengths are, a buffer a task has still to fill is empty,   *)
(* and one that has its bytes keeps them as long as it lives.              *)
EmptyInv == \A i \in LiveNow : item[i].task \in Pending => item[i].buf = None

Steady == \A j \in LiveNow \cap LiveNow' :
            item[j].buf # None => item'[j].buf = item[j].buf

(* Buffers whose owners alone change.                                      *)
LEMMA SameBuffers ==
  ASSUME EmptyInv, LiveNow' \subseteq LiveNow,
         \A j \in LiveNow : item'[j].buf = item[j].buf /\ item'[j].task = item[j].task
  PROVE  EmptyInv' /\ Steady
BY DEF EmptyInv, Steady

(* Buffers settled with new fields: fresh are the ones added.              *)
LEMMA SettleSteady ==
  ASSUME TypeInv, NEW it \in [Items -> ItemType],
         NEW wk \in [Chunk -> Items \cup {NoItem}], NEW hp \in SUBSET Items,
         NEW hd \in [Readers -> SUBSET Items], NEW fresh \in SUBSET Items,
         Settle(it, wk, hp, hd),
         \A j \in Items \ fresh : it[j].task \in Running => j \in LiveNow,
         hp \cup UNION {hd[r] : r \in Readers} \subseteq LiveNow \cup fresh,
         \A j \in LiveNow :
           /\ item[j].buf # None => it[j].buf = item[j].buf
           /\ it[j].task \in Pending => it[j].buf = None,
         \A j \in fresh \ LiveNow : it[j].task \in Pending => it[j].buf = None
  PROVE  EmptyInv' /\ Steady
<1>1. Fate(it, wk, fresh)
  BY SettleFate
<1> QED BY <1>1 DEF Fate, EmptyInv, Steady

(* Nothing lives after a restart.                                          *)
LEMMA RestartSteady == ASSUME Restart PROVE EmptyInv' /\ Steady
<1>1. /\ \A r \in Readers : held'[r] = {}
      /\ \A i \in Items : item'[i] = Blank
      /\ heap' = {}
  BY DEF Restart
<1>2. LiveNow' = {}
  BY <1>1 DEF LiveNow, Live, Blank, Running
<1> QED BY <1>2 DEF EmptyInv, Steady

(* A buffer comes into the cache empty or with no task.                    *)
LEMMA PublishSteady ==
  ASSUME IInv, EmptyInv, NEW r \in Readers, NEW i \in Unused, NEW c \in Chunk,
         NEW x \in ItemType, NEW total, NEW in,
         NEW own \in SUBSET (LiveNow \cup {i}),
         Publish(r, i, c, x, total, own, in),
         x.task \in Pending => x.buf = None
  PROVE  EmptyInv' /\ Steady
<1>0. /\ i \in Items /\ i \notin LiveNow /\ item \in [Items -> ItemType]
      /\ heap \in SUBSET Items /\ held \in [Readers -> SUBSET Items]
      /\ weak \in [Chunk -> Items \cup {NoItem}] /\ LiveNow \subseteq Items
  BY LiveItems DEF Unused, IInv, TypeInv, TypeOK, LiveNow
<1>1. ASSUME NEW V \in SUBSET (heap \cup {i}),
             Settle([item EXCEPT ![i] = x], [weak EXCEPT ![c] = i],
                    (heap \cup {i}) \ V, [held EXCEPT ![r] = own])
      PROVE  EmptyInv' /\ Steady
  <2>1. PICK it \in [Items -> ItemType] : it = [item EXCEPT ![i] = x]
    BY <1>0
  <2>2. PICK wk \in [Chunk -> Items \cup {NoItem}] : wk = [weak EXCEPT ![c] = i]
    BY <1>0
  <2>3. PICK hp \in SUBSET Items : hp = (heap \cup {i}) \ V
    BY <1>0
  <2>4. PICK hd \in [Readers -> SUBSET Items] : hd = [held EXCEPT ![r] = own]
    BY <1>0
  <2>5. PICK fresh \in SUBSET Items : fresh = {i}
    BY <1>0
  <2>6. Settle(it, wk, hp, hd)
    BY <1>1, <2>1, <2>2, <2>3, <2>4
  <2>7. \A j \in Items \ fresh : it[j].task \in Running => j \in LiveNow
    BY <1>0, <2>1, <2>5 DEF LiveNow, Live
  <2>8. hp \cup UNION {hd[s] : s \in Readers} \subseteq LiveNow \cup fresh
    BY <1>0, <2>3, <2>4, <2>5, LiveItems DEF IInv
  <2>9. /\ \A j \in LiveNow : it[j] = item[j]
        /\ it[i] = x
    BY <1>0, <2>1
  <2>10. /\ \A j \in LiveNow : /\ item[j].buf # None => it[j].buf = item[j].buf
                               /\ it[j].task \in Pending => it[j].buf = None
         /\ \A j \in fresh \ LiveNow : it[j].task \in Pending => it[j].buf = None
    BY <2>5, <2>9 DEF EmptyInv
  <2> QED BY <2>6, <2>7, <2>8, <2>10, SettleSteady DEF IInv
<1> QED BY <1>1, RestartSteady DEF Publish

(* A task fills an empty buffer, once.                                     *)
LEMMA TaskSteady ==
  ASSUME IInv, EmptyInv, NEW i \in Items, NEW x \in ItemType, Step(i, x),
         \/ /\ i \in LiveNow
            /\ item[i].buf # None => x.buf = item[i].buf
            /\ x.task \in Pending => x.buf = None
         \/ i \notin LiveNow /\ x.task \notin Running
  PROVE  EmptyInv' /\ Steady
<1>0. /\ item \in [Items -> ItemType] /\ heap \in SUBSET Items
      /\ held \in [Readers -> SUBSET Items] /\ LiveNow \subseteq Items
      /\ weak \in [Chunk -> Items \cup {NoItem}]
  BY LiveItems DEF IInv, TypeInv, TypeOK
<1>1. PICK it \in [Items -> ItemType] : it = [item EXCEPT ![i] = x]
  BY <1>0
<1>2. PICK none \in SUBSET Items : none = {}
  OBVIOUS
<1>3. Settle(it, weak, heap, held)
  BY <1>1 DEF Step
<1>4. \A j \in Items : it[j] = IF j = i THEN x ELSE item[j]
  BY <1>0, <1>1
<1>5. \A j \in Items \ none : it[j].task \in Running => j \in LiveNow
  BY <1>4 DEF LiveNow, Live
<1>6. heap \cup UNION {held[s] : s \in Readers} \subseteq LiveNow \cup none
  BY DEF LiveNow, Live
<1>7. \A j \in LiveNow :
        /\ item[j].buf # None => it[j].buf = item[j].buf
        /\ it[j].task \in Pending => it[j].buf = None
  BY <1>0, <1>4 DEF EmptyInv
<1> QED BY <1>0, <1>2, <1>3, <1>5, <1>6, <1>7, SettleSteady DEF IInv

(* What a reader's step does to the buffers: nothing but dropping some, or *)
(* adding one, found on disk or still to be filled.                        *)
Quiet ==
  /\ heap' = heap /\ cacheSize' = cacheSize /\ LiveNow' \subseteq LiveNow
  /\ \A j \in LiveNow : item[j].task \in Running => j \in LiveNow'
  /\ \A j \in LiveNow' :
       /\ item'[j].chunk = item[j].chunk /\ item'[j].task = item[j].task
       /\ item'[j].buf = item[j].buf /\ item'[j].size = item[j].size

Added(r, i, c, x) ==
  /\ \E own \in SUBSET (LiveNow \cup {i}) : \E in :
       Publish(r, i, c, x, cacheSize + x.size, own, in)
  /\ x.chunk = c
  /\ \/ /\ x.buf = disk[c] /\ x.buf # None /\ Matches(x.buf)
        /\ x.size = x.buf /\ x.task = "none"
     \/ /\ x.buf = None /\ x.size = ChunkLen(c) /\ x.task \in {"none", "read", "fetch"}
        /\ x.task = "read" => OnDisk(c)
        /\ Wanted(r) /\ c = Head(rd[r].need)

LEMMA ReaderEffect ==
  ASSUME IInv, NEW r \in Readers,
         ReaderStep(r) \/ StartRead(r) \/ ProbeThrows(r) \/ InsertThrows(r)
  PROVE  \/ Quiet
         \/ \E i \in Unused, c \in Chunk, x \in ItemType : Added(r, i, c, x)
<1> DEFINE Goal == \/ Quiet
                   \/ \E i \in Unused, c \in Chunk, x \in ItemType : Added(r, i, c, x)
<1>0. /\ rd \in [Readers -> ReaderType] /\ rd[r] \in ReaderType
      /\ item \in [Items -> ItemType] /\ held \in [Readers -> SUBSET Items]
      /\ weak \in [Chunk -> Items \cup {NoItem}] /\ heap \in SUBSET Items
      /\ disk \in [Chunk -> Nat \cup {None}] /\ LiveNow \subseteq Items
      /\ ChunkAt(r) \in Chunk /\ cacheSize \in Nat /\ held[r] \subseteq LiveNow
  BY LiveItems, ChunkAtType DEF IInv, TypeInv, TypeOK
<1>1. CASE UNCHANGED <<item, heap, held, cacheSize>>
  <2>1. LiveNow' = LiveNow
    BY <1>1 DEF LiveNow, Live
  <2> QED BY <1>1, <2>1 DEF Quiet
<1>2. CASE Look(r)
  <2>1. ASSUME weak[ChunkAt(r)] # NoItem PROVE Quiet
    <3>1. /\ held' = [held EXCEPT ![r] = @ \cup {weak[ChunkAt(r)]}]
          /\ UNCHANGED <<item, heap, cacheSize>>
      BY <1>2, <2>1 DEF Look
    <3>2. weak[ChunkAt(r)] \in LiveNow
      BY <1>0, <2>1 DEF IInv, WeakInv, LiveNow
    <3>3. LiveNow' = LiveNow
      BY <1>0, <3>1, <3>2 DEF LiveNow, Live
    <3> QED BY <3>1, <3>3 DEF Quiet
  <2>2. CASE weak[ChunkAt(r)] = NoItem
    BY <1>1, <1>2, <2>2 DEF Look
  <2> QED BY <2>1, <2>2
<1>3. CASE Wait(r) \/ Relay(r)
  <2>1. rd[r].cur \in Items /\ heap' = heap /\ held' = held /\ cacheSize' = cacheSize
    BY <1>0, <1>3 DEF IInv, OwnInv, Wait, Relay
  <2>2. \A j \in Items :
          /\ item'[j].chunk = item[j].chunk /\ item'[j].task = item[j].task
          /\ item'[j].buf = item[j].buf /\ item'[j].size = item[j].size
    BY <1>0, <1>3, <2>1 DEF Wait, Relay, ItemType
  <2>3. LiveNow' = LiveNow
    BY <2>1, <2>2 DEF LiveNow, Live
  <2> QED BY <1>0, <2>1, <2>2, <2>3 DEF Quiet
<1>4. ASSUME NEW it \in [Items -> ItemType], NEW own \in SUBSET LiveNow,
             Settle(it, weak, heap, [held EXCEPT ![r] = own]), cacheSize' = cacheSize,
             \A j \in Items :
               /\ it[j].chunk = item[j].chunk /\ it[j].task = item[j].task
               /\ it[j].buf = item[j].buf /\ it[j].size = item[j].size
      PROVE  Quiet
  <2>1. PICK hd \in [Readers -> SUBSET Items] : hd = [held EXCEPT ![r] = own]
    BY <1>0
  <2>2. After(it, heap, hd)
    BY <1>0, <1>4, <2>1, SettleAfter
  <2>3. LiveNow' = Live(it, heap, hd) /\ \A j \in LiveNow' : item'[j] = it[j]
    BY <2>2 DEF After, LiveNow
  <2>4. \A s \in Readers : hd[s] \subseteq LiveNow
    BY <1>0, <2>1, LiveItems DEF IInv
  <2>5. LiveNow' \subseteq LiveNow
    BY <1>0, <1>4, <2>3, <2>4 DEF LiveNow, Live
  <2>6. \A j \in LiveNow : item[j].task \in Running => j \in LiveNow'
    BY <1>0, <1>4, <2>3 DEF Live
  <2>7. heap' = heap
    BY <1>4 DEF Settle
  <2> QED BY <1>0, <1>4, <2>3, <2>5, <2>6, <2>7 DEF Quiet
<1>5. CASE EvalStale(r)
  <2>1. PICK i \in Items : i = rd[r].cur
    BY <1>0, <1>5 DEF EvalStale, IInv, OwnInv
  <2> DEFINE it == [item EXCEPT ![i].invalid = TRUE]
  <2>2. it \in [Items -> ItemType]
    BY <1>0, InvalidType
  <2>3. \A j \in Items :
          /\ it[j].chunk = item[j].chunk /\ it[j].task = item[j].task
          /\ it[j].buf = item[j].buf /\ it[j].size = item[j].size
    BY <1>0 DEF ItemType
  <2>4. Settle(it, weak, heap, [held EXCEPT ![r] = Release(r)]) /\ cacheSize' = cacheSize
    BY <1>5, <2>1 DEF EvalStale
  <2> HIDE DEF it
  <2> QED BY <1>0, <1>4, <2>2, <2>3, <2>4, ReleaseOwn
<1>6. ASSUME NEW own \in SUBSET LiveNow, cacheSize' = cacheSize,
             Settle(item, weak, heap, [held EXCEPT ![r] = own])
      PROVE  Quiet
  BY <1>0, <1>4, <1>6
<1>7. CASE EvalDeleted(r) \/ ProbeThrows(r) \/ Unlock(r) \/ (Ahead(r) /\ Return(r))
  <2>1. PICK own \in SUBSET LiveNow : own = {}
    OBVIOUS
  <2>2. Settle(item, weak, heap, [held EXCEPT ![r] = own]) /\ cacheSize' = cacheSize
    BY <1>7, <2>1 DEF EvalDeleted, ProbeThrows, Unlock, Return, Ahead
  <2> QED BY <1>6, <2>2
<1>8. CASE Copy(r)
  BY <1>0, <1>6, <1>8, ReleaseOwn DEF Copy
<1>9. CASE InsertSkip(r)
  <2>1. Found(r) \in SUBSET LiveNow
    <3>1. Head(rd[r].need) \in Chunk
      BY <1>0, <1>9 DEF InsertSkip, ReaderType
    <3> QED BY <3>1 DEF Found, LiveNow, IInv, WeakInv
  <2> QED BY <1>6, <1>9, <2>1 DEF InsertSkip
<1>10. ASSUME NEW i \in Unused, NEW c \in Chunk, NEW x \in ItemType, NEW in,
              NEW own \in SUBSET (LiveNow \cup {i}), NEW total, total = cacheSize + x.size,
              Publish(r, i, c, x, total, own, in), x.chunk = c,
              \/ /\ x.buf = disk[c] /\ x.buf # None /\ Matches(x.buf)
                 /\ x.size = x.buf /\ x.task = "none"
              \/ /\ x.buf = None /\ x.size = ChunkLen(c)
                 /\ x.task \in {"none", "read", "fetch"}
                 /\ x.task = "read" => OnDisk(c)
                 /\ Wanted(r) /\ c = Head(rd[r].need)
       PROVE  Goal
  <2>1. Publish(r, i, c, x, cacheSize + x.size, own, in)
    BY <1>10
  <2>2. \E o \in SUBSET (LiveNow \cup {i}) : \E y : Publish(r, i, c, x, cacheSize + x.size, o, y)
    BY <2>1
  <2> QED BY <1>10, <2>2 DEF Added
<1>11. CASE ProbeHit(r)
  <2>1. PICK c \in Chunk, n \in Nat : c = ChunkAt(r) /\ n = disk[c] /\ Matches(n)
    BY <1>0, <1>11 DEF ProbeHit
  <2> DEFINE z == [Blank EXCEPT !.chunk = c, !.buf = n, !.size = n]
  <2>2. PICK i \in Unused :
          Publish(r, i, c, z, cacheSize + n, held[r] \cup {i},
                  [rd[r] EXCEPT !.pc = "copy", !.cur = i, !.cached = TRUE])
    BY <1>11, <2>1 DEF ProbeHit
  <2>3. z \in ItemType /\ z.task = "none" /\ z.buf = n /\ z.size = n /\ z.chunk = c
    BY <1>0, BlankType DEF ItemType, Blank
  <2>4. held[r] \cup {i} \in SUBSET (LiveNow \cup {i})
    BY <1>0
  <2>5. n # None
    BY DEF None
  <2> HIDE DEF z
  <2> QED BY <1>10, <2>1, <2>2, <2>3, <2>4, <2>5
<1>12. CASE Insert(r) \/ InsertThrows(r)
  <2>1. PICK c \in Chunk : c = Head(rd[r].need)
    BY <1>0, <1>12 DEF Insert, InsertThrows, ReaderType
  <2> DEFINE z(t) == [Blank EXCEPT !.chunk = c, !.size = ChunkLen(c), !.task = t]
             w == [Blank EXCEPT !.chunk = c, !.size = ChunkLen(c)]
  <2>2. /\ \A t \in Queued : /\ z(t) \in ItemType /\ z(t).buf = None /\ z(t).task = t
                             /\ z(t).chunk = c /\ z(t).size = ChunkLen(c)
        /\ w \in ItemType /\ w.buf = None /\ w.task = "none" /\ w.chunk = c
        /\ w.size = ChunkLen(c)
    BY ChunkLenNat, BlankType DEF ItemType, Blank
  <2>3. Found(r) \subseteq LiveNow /\ Wanted(r)
    BY <1>12, <2>1 DEF Found, LiveNow, IInv, WeakInv, Insert, InsertThrows
  <2>4. CASE Insert(r)
    <3>1. PICK t \in {"read", "fetch"} : t = IF OnDisk(c) THEN "read" ELSE "fetch"
      OBVIOUS
    <3>2. PICK i \in Unused :
            Publish(r, i, c, z(t), cacheSize + ChunkLen(c), Found(r),
                    [rd[r] EXCEPT !.need = Tail(@)])
      BY <2>1, <2>4, <3>1 DEF Insert
    <3>3. Found(r) \in SUBSET (LiveNow \cup {i})
      BY <2>3
    <3>4. PICK x \in ItemType : /\ x = z(t) /\ x.buf = None /\ x.task = t
                                /\ x.chunk = c /\ x.size = ChunkLen(c)
      BY <2>2, <3>1 DEF Queued
    <3> HIDE DEF z
    <3>5. Publish(r, i, c, x, cacheSize + ChunkLen(c), Found(r),
                    [rd[r] EXCEPT !.need = Tail(@)])
      BY <3>2, <3>4
    <3> QED BY <1>10, <2>1, <2>3, <3>1, <3>3, <3>4, <3>5
  <2>5. CASE InsertThrows(r)
    <3>1. PICK i \in Unused :
            Publish(r, i, c, w, cacheSize + ChunkLen(c), {}, Unwind(rd[r]))
      BY <2>1, <2>5 DEF InsertThrows
    <3>2. PICK own \in SUBSET (LiveNow \cup {i}) : own = {}
      OBVIOUS
    <3> HIDE DEF w
    <3>3. Publish(r, i, c, w, cacheSize + ChunkLen(c), own, Unwind(rd[r]))
      BY <3>1, <3>2
    <3> QED BY <1>10, <2>1, <2>2, <2>3, <3>3
  <2> QED BY <1>12, <2>4, <2>5
<1>13. CASE StartRead(r) \/ Enter(r) \/ EvalGood(r) \/ ProbeMiss(r) \/ Lock(r) \/ Retry(r)
  BY <1>1, <1>13 DEF StartRead, Enter, EvalGood, ProbeMiss, Lock, Retry
<1>14. CASE Ahead(r)
  BY <1>1, <1>7, <1>14 DEF Ahead
<1> QED BY <1>2, <1>3, <1>5, <1>7, <1>8, <1>9, <1>11, <1>12, <1>13, <1>14
        DEF ReaderStep

(* The readers' steps keep the buffers they own.                           *)
LEMMA ReadersSteady ==
  ASSUME IInv, EmptyInv, NEW r \in Readers,
         ReaderStep(r) \/ StartRead(r) \/ ProbeThrows(r) \/ InsertThrows(r)
  PROVE  EmptyInv' /\ Steady
<1>1. CASE Quiet
  BY <1>1 DEF Quiet, EmptyInv, Steady
<1>2. ASSUME NEW i \in Unused, NEW c \in Chunk, NEW x \in ItemType, Added(r, i, c, x)
      PROVE  EmptyInv' /\ Steady
  <2>1. PICK own, in, total :
          /\ own \in SUBSET (LiveNow \cup {i})
          /\ Publish(r, i, c, x, total, own, in)
    BY <1>2 DEF Added
  <2>2. x.task \in Pending => x.buf = None
    BY <1>2 DEF Added, Pending
  <2> QED BY <1>2, <2>1, <2>2, PublishSteady
<1> QED BY <1>1, <1>2, ReaderEffect

(* The tasks' steps.                                                       *)
LEMMA TasksSteady ==
  ASSUME IInv, EmptyInv, NEW i \in Items, TaskStep(i)
  PROVE  EmptyInv' /\ Steady
<1>0. PICK z \in ItemType : z = item[i]
  BY DEF IInv, TypeInv, TypeOK
<1>1. /\ z.task \in Running => i \in LiveNow
      /\ i \in LiveNow /\ z.task \in Pending => z.buf = None
      /\ z.chunk \in Chunk /\ disk \in [Chunk -> Nat \cup {None}]
  BY <1>0 DEF LiveNow, Live, ItemType, IInv, TypeInv, TypeOK, EmptyInv
<1>2. ASSUME NEW x \in ItemType, Step(i, x), i \in LiveNow,
             z.buf # None => x.buf = z.buf, x.task \in Pending => x.buf = None
      PROVE  EmptyInv' /\ Steady
  BY <1>0, <1>2, TaskSteady
<1>3. CASE Expire(i)
  <2>1. Blank \in ItemType /\ Blank.task \notin Running
    BY BlankType DEF Blank, Running
  <2>2. Step(i, Blank) /\ i \notin LiveNow
    BY <1>3 DEF Expire, LiveNow
  <2> QED BY <2>1, <2>2, TaskSteady
<1>5. CASE ReadAborts(i) \/ WriteAborts(i)
  BY <1>5, RestartSteady DEF ReadAborts, WriteAborts
<1>6. CASE ReadStart(i) \/ FetchStart(i)
  <2>1. ASSUME NEW from \in {"read", "fetch"}, NEW to \in {"reading", "fetching"},
               StartTask(i, from, to)
        PROVE  EmptyInv' /\ Steady
    <3> DEFINE x == [z EXCEPT !.task = to, !.backoff = FALSE]
    <3>1. Step(i, x) /\ i \in LiveNow /\ z.task = from
      BY <1>0, <2>1 DEF StartTask, LiveNow
    <3>2. x \in ItemType /\ x.task = to /\ x.buf = z.buf
      BY DEF ItemType, Running
    <3>3. z.buf = None
      BY <1>1, <3>1 DEF Pending
    <3> HIDE DEF x
    <3> QED BY <1>2, <3>1, <3>2, <3>3
  <2> QED BY <1>6, <2>1 DEF ReadStart, FetchStart
<1>7. CASE ReadOk(i)
  <2>1. PICK n \in Nat : n = disk[z.chunk]
    BY <1>0, <1>1, <1>7 DEF ReadOk
  <2> DEFINE x == [z EXCEPT !.task = "none", !.token = TRUE, !.buf = n]
  <2>2. Step(i, x) /\ i \in LiveNow /\ z.buf = None
    BY <1>0, <1>1, <1>7, <2>1 DEF ReadOk, Running, Pending
  <2>3. x \in ItemType /\ x.task \notin Pending
    BY <2>1 DEF ItemType, Pending
  <2> HIDE DEF x
  <2> QED BY <1>2, <2>2, <2>3
<1>8. CASE FetchOk(i)
  <2>1. PICK n \in Bodies[z.chunk] :
          Step(i, [z EXCEPT !.task = "write", !.token = TRUE, !.buf = n])
    BY <1>0, <1>8 DEF FetchOk
  <2> DEFINE x == [z EXCEPT !.task = "write", !.token = TRUE, !.buf = n]
  <2>2. n \in Nat /\ i \in LiveNow /\ z.buf = None
    BY <1>0, <1>1, <1>8, CacheAssumption DEF FetchOk, Running, Pending
  <2>3. x \in ItemType /\ x.task \notin Pending
    BY <2>2 DEF ItemType, Pending, Queued
  <2>4. Step(i, x)
    BY <2>1
  <2> HIDE DEF x
  <2> QED BY <1>2, <2>2, <2>3, <2>4
(* A step that ends a task, or starts its next one, and keeps its buffer.  *)
<1>9. ASSUME NEW x \in ItemType, Step(i, x), i \in LiveNow,
             x.buf = z.buf, x.task \notin Pending \/ x.task = z.task
      PROVE  EmptyInv' /\ Steady
  BY <1>1, <1>2, <1>9
<1>10. CASE ReadFails(i)
  <2> DEFINE x == [z EXCEPT !.task = "none", !.token = TRUE, !.invalid = TRUE]
  <2>1. Step(i, x) /\ i \in LiveNow
    BY <1>0, <1>1, <1>10 DEF ReadFails, Running
  <2>2. x \in ItemType /\ x.buf = z.buf /\ x.task \notin Pending
    BY DEF ItemType, Pending
  <2> HIDE DEF x
  <2> QED BY <1>9, <2>1, <2>2
<1>11. ASSUME Step(i, [z EXCEPT !.backoff = TRUE]), i \in LiveNow
       PROVE  EmptyInv' /\ Steady
  <2> DEFINE x == [z EXCEPT !.backoff = TRUE]
  <2>1. x \in ItemType /\ x.buf = z.buf /\ x.task = z.task
    BY DEF ItemType
  <2>2. Step(i, x)
    BY <1>11
  <2> HIDE DEF x
  <2> QED BY <1>9, <1>11, <2>1, <2>2
<1>12. CASE FetchError(i)
  BY <1>0, <1>1, <1>11, <1>12 DEF FetchError, Running
<1>13. CASE Fetch404(i)
  <2> DEFINE x == [z EXCEPT !.task = "none", !.token = TRUE,
                            !.invalid = TRUE, !.deleted = TRUE]
  <2>1. i \in LiveNow
    BY <1>0, <1>1, <1>13 DEF Fetch404, Running
  <2>2. x \in ItemType /\ x.buf = z.buf /\ x.task \notin Pending
    BY DEF ItemType, Pending
  <2>3. Step(i, x) \/ Step(i, [z EXCEPT !.backoff = TRUE])
    BY <1>0, <1>13 DEF Fetch404
  <2> HIDE DEF x
  <2> QED BY <1>9, <1>11, <2>1, <2>2, <2>3
<1>14. CASE WriteStart(i) \/ WriteEnd(i)
  <2> DEFINE x(t) == [z EXCEPT !.task = t]
  <2>1. i \in LiveNow
    BY <1>0, <1>1, <1>14 DEF WriteStart, WriteEnd, LiveNow, Running
  <2>2. PICK t \in {"none", "writing"} : Step(i, x(t))
    BY <1>0, <1>14 DEF WriteStart, WriteEnd
  <2>3. x(t) \in ItemType /\ x(t).buf = z.buf /\ x(t).task \notin Pending
    BY <2>2 DEF ItemType, Pending, Running
  <2> HIDE DEF x
  <2> QED BY <1>9, <2>1, <2>2, <2>3
<1> QED BY <1>3, <1>5, <1>6, <1>7, <1>8, <1>10, <1>12, <1>13, <1>14 DEF TaskStep

(* A buffer a reader owns is never replaced, shrunk or freed under it,     *)
(* whatever the server sends and whatever is evicted or killed.            *)
THEOREM BufferKept == Spec => BufferStable
<1>1. Init => LInv /\ EmptyInv
  <2>1. Init => LiveNow = {}
    BY DEF Init, LiveNow, Live, Blank, Running
  <2>2. Init => EmptyInv
    BY <2>1 DEF EmptyInv
  <2> QED BY <2>2, InitLInv
<1>2. (LInv /\ EmptyInv) /\ [Next]_vars => EmptyInv' /\ Steady
  <2> SUFFICES ASSUME LInv, EmptyInv, [Next]_vars PROVE EmptyInv' /\ Steady
    OBVIOUS
  <2>1. IInv
    BY DEF LInv
  <2>2. CASE UNCHANGED <<weak, heap, item, rd, held>>
    <3>1. LiveNow' = LiveNow
      BY <2>2 DEF LiveNow, Live
    <3> QED BY <2>2, <3>1, SameBuffers
  <2>3. ASSUME NEW c \in Chunk, EvictFile(c) PROVE EmptyInv' /\ Steady
    BY <2>2, <2>3 DEF EvictFile
  <2>4. CASE Crash
    BY <2>4, RestartSteady DEF Crash
  <2>5. CASE UNCHANGED vars
    BY <2>2, <2>5 DEF vars
  <2> QED BY <2>1, <2>3, <2>4, <2>5, ReadersSteady, TasksSteady DEF Next
<1>3. LInv /\ LInv' /\ Steady =>
        \A r \in Readers : \A i \in held[r] \cap held'[r] :
          item[i].buf # None => item'[i].buf = item[i].buf
  <2> SUFFICES ASSUME LInv, LInv', Steady, NEW r \in Readers,
                      NEW i \in held[r] \cap held'[r]
               PROVE  item[i].buf # None => item'[i].buf = item[i].buf
    OBVIOUS
  <2>1. i \in LiveNow /\ i \in LiveNow'
    BY DEF LiveNow, Live
  <2> QED BY <2>1 DEF Steady
<1>4. (LInv /\ EmptyInv) /\ [Next]_vars => (LInv /\ EmptyInv)'
  BY <1>2, NextLInv
<1>5. (LInv /\ EmptyInv) /\ [Next]_vars =>
        [\A r \in Readers : \A i \in held[r] \cap held'[r] :
           item[i].buf # None => item'[i].buf = item[i].buf]_vars
  BY <1>2, <1>3, <1>4
<1> QED BY <1>1, <1>4, <1>5, PTL DEF Spec, BufferStable
-----------------------------------------------------------------------------
(* The event that guards the insertion loop.                               *)
EventStep == (Apart => Apart') /\ (Lost' => Lost)

(* Reader r goes on as x and does nothing to the event, takes it or gives  *)
(* it back.                                                                *)
Goes(r, x) ==
  /\ rd' = [rd EXCEPT ![r] = x]
  /\ \/ mtx' = mtx /\ (x.pc = "insert" <=> rd[r].pc = "insert")
     \/ mtx /\ ~mtx' /\ x.pc = "insert"
     \/ mtx' /\ rd[r].pc = "insert" /\ x.pc # "insert"

LEMMA GoesKeeps ==
  ASSUME TypeInv, NEW r \in Readers, NEW x, Goes(r, x)
  PROVE  EventStep
<1>1. \A s \in Readers : rd'[s] = IF s = r THEN x ELSE rd[s]
  BY DEF Goes, TypeInv, TypeOK
<1>2. CASE mtx' = mtx /\ (x.pc = "insert" <=> rd[r].pc = "insert")
  <2>1. Inside' = Inside
    BY <1>1, <1>2 DEF Inside
  <2> QED BY <1>2, <2>1 DEF EventStep, Apart, Lost
<1>3. CASE mtx /\ ~mtx' /\ x.pc = "insert"
  <2>1. r \in Inside'
    BY <1>1, <1>3 DEF Inside
  <2>2. Inside = {} => \A s \in Inside' : s = r
    BY <1>1 DEF Inside
  <2> QED BY <1>3, <2>1, <2>2 DEF EventStep, Apart, Lost
<1>4. CASE mtx' /\ rd[r].pc = "insert" /\ x.pc # "insert"
  <2>1. r \in Inside /\ r \notin Inside' /\ Inside' \subseteq Inside
    BY <1>1, <1>4 DEF Inside
  <2> QED BY <1>4, <2>1 DEF EventStep, Apart, Lost
<1> QED BY <1>2, <1>3, <1>4 DEF Goes

LEMMA RestartUnlocks == ASSUME Restart PROVE EventStep
<1>1. mtx' = TRUE /\ \A r \in Readers : rd'[r] = Idle
  BY DEF Restart
<1>2. Inside' = {}
  BY <1>1 DEF Inside, Idle
<1> QED BY <1>1, <1>2 DEF EventStep, Apart, Lost

LEMMA ReadersLock ==
  ASSUME IInv, TypeInv', NEW r \in Readers,
         ReaderStep(r) \/ StartRead(r) \/ ProbeThrows(r), ~Retry(r)
  PROVE  EventStep
<1>0. rd \in [Readers -> ReaderType] /\ rd[r] \in ReaderType
  BY DEF IInv, TypeInv, TypeOK
<1>z. PICK z \in ReaderType : z = rd'[r]
  BY DEF TypeInv, TypeOK
<1>1. ASSUME NEW x, Goes(r, x) PROVE EventStep
  BY <1>0, <1>1, GoesKeeps DEF IInv
<1>2. CASE StartRead(r)
  <2>1. PICK x \in ReaderType : rd' = [rd EXCEPT ![r] = x] /\ x.pc = "begin"
    <3>1. PICK q \in Requests :
            rd' = [rd EXCEPT ![r] = [Idle EXCEPT !.pc = "begin", !.off = q.off,
                                       !.size = Clamp(q.off, q.size)]]
      BY <1>2 DEF StartRead
    <3>2. rd' \in [Readers -> ReaderType]
      BY DEF TypeInv, TypeOK
    <3> QED BY <1>0, <3>1, <3>2 DEF Idle
  <2> QED BY <1>1, <1>2, <2>1 DEF StartRead, Goes
<1>3. CASE Enter(r) \/ EvalGood(r)
  <2>1. PICK p \in {"look", "copy"} : rd' = [rd EXCEPT ![r].pc = p]
    BY <1>3 DEF Enter, EvalGood
  <2>2. PICK x : x = [rd[r] EXCEPT !.pc = p]
    OBVIOUS
  <2>3. rd' = [rd EXCEPT ![r] = x] /\ x.pc = p
    BY <1>0, <2>1, <2>2 DEF ReaderType
  <2> QED BY <1>1, <1>3, <2>1, <2>3 DEF Goes, Enter, EvalGood
<1>4. CASE Look(r) \/ Wait(r) \/ Relay(r)
  <2>1. rd' = [rd EXCEPT ![r] = z] /\ z.pc \in {"probe", "wait", "relay", "eval"}
    <3>1. CASE Look(r)
      <4>1. CASE weak[ChunkAt(r)] = NoItem
        BY <1>0, <1>z, <3>1, <4>1 DEF Look, ReaderType
      <4>2. CASE weak[ChunkAt(r)] # NoItem
        <5>1. PICK p \in {"wait", "eval"} :
                rd' = [rd EXCEPT ![r].cur = weak[ChunkAt(r)], ![r].cached = FALSE,
                                 ![r].pc = p]
          BY <3>1, <4>2 DEF Look
        <5> QED BY <1>0, <1>z, <5>1 DEF ReaderType
      <4> QED BY <4>1, <4>2
    <3>2. CASE Wait(r) \/ Relay(r)
      BY <1>0, <1>z, <3>2 DEF Wait, Relay, ReaderType
    <3> QED BY <1>4, <3>1, <3>2
  <2>2. mtx' = mtx /\ rd[r].pc # "insert"
    BY <1>4 DEF Look, Wait, Relay
  <2> QED BY <1>1, <2>1, <2>2 DEF Goes
<1>5. ASSUME NEW x, rd' = [rd EXCEPT ![r] = x], x.pc \in {"idle", "thrown", "look", "ahead"},
             mtx' = mtx, rd[r].pc # "insert"
      PROVE  EventStep
  BY <1>1, <1>5 DEF Goes
<1>6. CASE EvalDeleted(r) \/ (Ahead(r) /\ Return(r))
  <2>1. rd' = [rd EXCEPT ![r] = Idle] /\ mtx' = mtx /\ rd[r].pc # "insert"
    BY <1>6 DEF EvalDeleted, Ahead, Return
  <2> QED BY <1>5, <2>1 DEF Idle
<1>7. CASE EvalStale(r) \/ ProbeMiss(r)
  <2>1. rd' = [rd EXCEPT ![r] = Missing(r)] /\ mtx' = mtx /\ rd[r].pc # "insert"
    BY <1>7 DEF EvalStale, ProbeMiss
  <2> QED BY <1>5, <2>1, MissingType DEF IInv
<1>8. CASE Copy(r)
  <2> DEFINE y == [rd[r] EXCEPT !.have = TRUE]
  <2>1. /\ y \in ReaderType /\ y.off = rd[r].off /\ y.size = rd[r].size
        /\ y.second = rd[r].second
    BY <1>0 DEF ReaderType
  <2>a. rd' = [rd EXCEPT ![r] = NextChunk(r, y)] /\ mtx' = mtx /\ rd[r].pc # "insert"
    BY <1>8 DEF Copy
  <2> HIDE DEF y
  <2>2. NextChunk(r, y).pc \in {"look", "ahead"}
    BY <2>1, NextChunkType DEF IInv
  <2> QED BY <1>5, <2>a, <2>2
<1>9. CASE Ahead(r) /\ ~Return(r)
  <2>1. rd' = [rd EXCEPT ![r] = z] /\ z.pc = "lock"
    BY <1>0, <1>z, <1>9 DEF Ahead, ReaderType
  <2> QED BY <1>1, <1>9, <2>1 DEF Goes, Ahead
<1>10. CASE Lock(r)
  <2>1. rd' = [rd EXCEPT ![r] = z] /\ z.pc = "insert"
    BY <1>0, <1>z, <1>10 DEF Lock, ReaderType
  <2> QED BY <1>1, <1>10, <2>1 DEF Goes, Lock
<1>11. CASE InsertSkip(r)
  <2>1. rd' = [rd EXCEPT ![r] = z] /\ z.pc = "insert"
    BY <1>0, <1>z, <1>11 DEF InsertSkip, ReaderType
  <2> QED BY <1>1, <1>11, <2>1 DEF Goes, InsertSkip
<1>12. CASE Unlock(r)
  <2>1. rd' = [rd EXCEPT ![r] = z] /\ z.pc \in {"idle", "begin"}
    BY <1>0, <1>z, <1>12 DEF Unlock, Idle
  <2> QED BY <1>1, <1>12, <2>1 DEF Goes, Unlock
<1>13. ASSUME NEW i, NEW c, NEW x, NEW total, NEW own, NEW in,
              Publish(r, i, c, x, total, own, in),
              in.pc = "insert" <=> rd[r].pc = "insert"
       PROVE  EventStep
  <2>1. CASE Restart
    BY <2>1, RestartUnlocks
  <2>2. CASE rd' = [rd EXCEPT ![r] = in] /\ mtx' = mtx
    BY <1>1, <1>13, <2>2 DEF Goes
  <2> QED BY <1>13, <2>1, <2>2 DEF Publish
<1>14. CASE ProbeHit(r)
  <2>1. PICK i \in Unused :
          Publish(r, i, ChunkAt(r),
             [Blank EXCEPT !.chunk = ChunkAt(r), !.buf = disk[ChunkAt(r)],
                           !.size = disk[ChunkAt(r)]],
             cacheSize + disk[ChunkAt(r)], held[r] \cup {i},
             [rd[r] EXCEPT !.pc = "copy", !.cur = i, !.cached = TRUE])
    BY <1>14 DEF ProbeHit
  <2>2. [rd[r] EXCEPT !.pc = "copy", !.cur = i, !.cached = TRUE].pc = "copy"
    BY <1>0 DEF ReaderType
  <2> QED BY <1>13, <1>14, <2>1, <2>2 DEF ProbeHit
<1>15. CASE Insert(r)
  <2>1. PICK i, x :
          /\ i \in Unused
          /\ Publish(r, i, Head(rd[r].need), x,
                  cacheSize + ChunkLen(Head(rd[r].need)), Found(r),
                  [rd[r] EXCEPT !.need = Tail(@)])
    BY <1>15 DEF Insert
  <2>2. [rd[r] EXCEPT !.need = Tail(@)].pc = rd[r].pc
    BY <1>0 DEF ReaderType
  <2> QED BY <1>0, <1>13, <2>1, <2>2
<1>16. CASE ProbeThrows(r)
  <2>1. PICK x : rd' = [rd EXCEPT ![r] = x] /\ x = Unwind(rd[r])
    BY <1>16 DEF ProbeThrows
  <2>2. x.pc \in {"idle", "thrown"}
    BY <1>0, <2>1 DEF Unwind, Idle, ReaderType
  <2> QED BY <1>5, <1>16, <2>1, <2>2 DEF ProbeThrows
<1> QED BY <1>2, <1>3, <1>4, <1>6, <1>7, <1>8, <1>9, <1>10, <1>11, <1>12,
           <1>14, <1>15, <1>16 DEF ReaderStep

(* The handler signals, whoever has the event.                             *)
LEMMA RetrySignals ==
  ASSUME IInv, NEW r \in Readers, Retry(r)
  PROVE  (Apart => Apart' \/ Inside # {}) /\ ~Lost'
<1>1. mtx' /\ \A s \in Readers : rd'[s].pc = IF s = r THEN "begin" ELSE rd[s].pc
  BY DEF Retry, Idle, IInv, TypeInv, TypeOK, ReaderType
<1>2. Inside = {} => Inside' = {}
  BY <1>1 DEF Inside
<1> QED BY <1>1, <1>2 DEF Apart, Lost

(* An exception in the loop leaves the event as it is.                     *)
LEMMA ThrowLeaves ==
  ASSUME IInv, NEW r \in Readers, InsertThrows(r)
  PROVE  Apart => Apart'
<1>1. CASE Restart
  BY <1>1, RestartUnlocks DEF EventStep
<1>2. CASE mtx' = mtx /\ rd' = [rd EXCEPT ![r] = Unwind(rd[r])]
  <2>1. \A s \in Readers : s # r => rd'[s] = rd[s]
    BY <1>2 DEF IInv, TypeInv, TypeOK
  <2>2. rd[r].pc = "insert"
    BY DEF InsertThrows
  <2>3. Inside' \subseteq Inside
    BY <2>1, <2>2 DEF Inside
  <2> QED BY <1>2, <2>3 DEF Apart
<1>3. PICK i, x, total :
        Publish(r, i, Head(rd[r].need), x, total, {}, Unwind(rd[r]))
  BY DEF InsertThrows
<1> QED BY <1>1, <1>2, <1>3 DEF Publish

(* For any number of readers and whatever goes wrong: the insertion loop   *)
(* is kept to one reader until FileIO::read's handler signals an event that *)
(* another reader holds, and the event is given back but for an exception  *)
(* in the loop.                                                            *)
THEOREM OneInserter == Spec => EventKept
<1> DEFINE EventSpared == /\ Apart => Apart' \/ \E r \in Readers : Retry(r) /\ Inside # {}
                          /\ Lost' => Lost \/ \E r \in Readers : InsertThrows(r)
<1>1. Init => LInv
  BY InitLInv
<1>2. LInv /\ [Next]_vars => LInv'
  BY NextLInv
<1>3. LInv /\ [Next]_vars => [EventSpared]_vars
  <2> SUFFICES ASSUME LInv, [Next]_vars PROVE EventSpared \/ UNCHANGED vars
    OBVIOUS
  <2>1. IInv /\ TypeInv'
    BY NextType DEF LInv, IInv
  <2>2. EventStep => EventSpared
    BY DEF EventStep
  <2>3. UNCHANGED <<rd, mtx>> => EventStep
    BY DEF EventStep, Apart, Lost, Inside
  <2>4. ASSUME NEW r \in Readers,
               StartRead(r) \/ ReaderStep(r) \/ ProbeThrows(r) \/ InsertThrows(r)
        PROVE  EventSpared
    <3>1. CASE Retry(r)
      BY <2>1, <3>1, RetrySignals
    <3>2. CASE InsertThrows(r)
      BY <2>1, <3>2, ThrowLeaves
    <3>3. CASE ~Retry(r) /\ ~InsertThrows(r)
      BY <2>1, <2>2, <2>4, <3>3, ReadersLock
    <3> QED BY <3>1, <3>2, <3>3
  <2>5. ASSUME NEW i \in Items, TaskStep(i) PROVE EventSpared
    <3>1. CASE ReadAborts(i) \/ WriteAborts(i)
      BY <2>2, <3>1, RestartUnlocks DEF ReadAborts, WriteAborts
    <3>2. CASE ~(ReadAborts(i) \/ WriteAborts(i))
      <4>1. UNCHANGED <<rd, mtx>>
        BY <2>5, <3>2 DEF TaskStep, Expire, ReadStart, FetchStart, StartTask, ReadOk,
           ReadFails, FetchOk, FetchError, Fetch404, WriteStart, WriteEnd, Step
      <4> QED BY <2>2, <2>3, <4>1
    <3> QED BY <3>1, <3>2
  <2>6. CASE Crash
    BY <2>2, <2>6, RestartUnlocks DEF Crash
  <2>7. ASSUME NEW c \in Chunk, EvictFile(c) PROVE EventSpared
    BY <2>2, <2>3, <2>7 DEF EvictFile
  <2> QED BY <2>4, <2>5, <2>6, <2>7 DEF Next
<1> QED BY <1>1, <1>2, <1>3, PTL DEF Spec, EventKept
=============================================================================
