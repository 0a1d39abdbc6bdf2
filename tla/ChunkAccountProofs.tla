------------------------- MODULE ChunkAccountProofs -------------------------
(* The byte counter of the PriorityCache is what its heap gives back, so   *)
(* the loop that evicts ends before the heap is empty: CacheAccount of     *)
(* ChunkCache, for every value of the constants.                           *)
EXTENDS ChunkCopyProofs

(* A sum over a finite set is a fold that takes the elements out one by    *)
(* one.  The fold's table of partial sums, over the subsets of S.          *)
Pick(s) == CHOOSE x \in s : TRUE
IsSum(it, S, f) ==
  f = [s \in SUBSET S |-> IF s = {} THEN 0
                          ELSE Weight(it[Pick(s)]) + f[s \ {Pick(s)}]]

LEMMA WeightFold ==
  ASSUME NEW it, NEW S
  PROVE  WeightOf(it, S) = (CHOOSE f : IsSum(it, S, f))[S]
BY DEF WeightOf, MapThenSumSet, MapThenFoldSet, Pick, IsSum

(* A family of subsets of a finite set has a smallest member: the form of  *)
(* induction used below, as a minimal counterexample.                      *)
LEMMA Smallest ==
  ASSUME NEW S, IsFiniteSet(S), NEW B \in SUBSET (SUBSET S), B # {}
  PROVE  \E T \in B : \A U \in SUBSET T : U # T => U \notin B
<1>1. FiniteSubsetsOf(S) = SUBSET S
  BY FS_FiniteSubsetsOfFinite
<1>2. IsWellFoundedOn(StrictSubsetOrdering(S), SUBSET S)
  BY <1>1, FS_StrictSubsetOrderingWellFounded
<1>3. PICK T \in B : \A U \in B : <<U, T>> \notin StrictSubsetOrdering(S)
  BY <1>2, WFMin
<1>4. ASSUME NEW U \in SUBSET T, U # T, U \in B PROVE FALSE
  <2>1. <<U, T>> \in StrictSubsetOrdering(S)
    BY <1>4 DEF StrictSubsetOrdering
  <2> QED BY <1>3, <1>4, <2>1
<1> QED BY <1>3, <1>4

(* The element a set gives up first is one of its own.                     *)
LEMMA PickIn == ASSUME NEW s, s # {} PROVE Pick(s) \in s
BY DEF Pick

(* A table has one row per subset.                                         *)
LEMMA SumRow ==
  ASSUME NEW it, NEW S, NEW f, IsSum(it, S, f), NEW s \in SUBSET S
  PROVE  f[s] = IF s = {} THEN 0 ELSE Weight(it[Pick(s)]) + f[s \ {Pick(s)}]
BY DEF IsSum

(* Two tables agree where both have rows.                                  *)
LEMMA SumUnique ==
  ASSUME NEW it, NEW U, NEW V \in SUBSET U, IsFiniteSet(V),
         NEW f, NEW g, IsSum(it, U, f), IsSum(it, V, g)
  PROVE  \A s \in SUBSET V : f[s] = g[s]
<1> DEFINE B == {s \in SUBSET V : f[s] # g[s]}
<1>1. SUFFICES ASSUME B # {} PROVE FALSE
  OBVIOUS
<1>2. PICK T \in B : \A W \in SUBSET T : W # T => W \notin B
  <2>1. B \in SUBSET (SUBSET V)
    OBVIOUS
  <2> HIDE DEF B
  <2> QED BY <1>1, <2>1, Smallest
<1>3. /\ f[T] = IF T = {} THEN 0 ELSE Weight(it[Pick(T)]) + f[T \ {Pick(T)}]
      /\ g[T] = IF T = {} THEN 0 ELSE Weight(it[Pick(T)]) + g[T \ {Pick(T)}]
  <2>1. T \in SUBSET V /\ T \in SUBSET U
    OBVIOUS
  <2> QED BY <2>1, SumRow
<1>4. T # {} => T \ {Pick(T)} \in SUBSET T /\ T \ {Pick(T)} # T
  BY PickIn
<1>5. T # {} => f[T \ {Pick(T)}] = g[T \ {Pick(T)}]
  BY <1>2, <1>4
<1> QED BY <1>3, <1>5

(* Every finite set has a table: the smallest set without one would have   *)
(* it from those of its subsets.                                           *)
LEMMA SumExists ==
  ASSUME NEW it, NEW S, IsFiniteSet(S)
  PROVE  \E f : IsSum(it, S, f)
<1> DEFINE B == {s \in SUBSET S : ~\E f : IsSum(it, s, f)}
<1>1. SUFFICES ASSUME B # {} PROVE FALSE
  OBVIOUS
<1>2. PICK T \in B : \A W \in SUBSET T : W # T => W \notin B
  <2>1. B \in SUBSET (SUBSET S)
    OBVIOUS
  <2> HIDE DEF B
  <2> QED BY <1>1, <2>1, Smallest
<1> DEFINE F(U) == CHOOSE f : IsSum(it, U, f)
           G(U) == F(U)[U]
           h == [s \in SUBSET T |-> IF s = {} THEN 0
                                    ELSE Weight(it[Pick(s)]) + G(s \ {Pick(s)})]
<1>3. ASSUME NEW U \in SUBSET T, U # T PROVE IsSum(it, U, F(U))
  <2>1. \E f : IsSum(it, U, f)
    BY <1>2, <1>3
  <2> QED BY <2>1
<1>4. ASSUME NEW U \in SUBSET T, U # T
      PROVE  G(U) = IF U = {} THEN 0 ELSE Weight(it[Pick(U)]) + G(U \ {Pick(U)})
  <2>1. IsSum(it, U, F(U))
    BY <1>3, <1>4
  <2>2. F(U)[U] = IF U = {} THEN 0 ELSE Weight(it[Pick(U)]) + F(U)[U \ {Pick(U)}]
    BY <2>1, SumRow
  <2>3. ASSUME U # {} PROVE F(U)[U \ {Pick(U)}] = G(U \ {Pick(U)})
    <3> DEFINE V == U \ {Pick(U)}
    <3>1. V \in SUBSET U /\ V \in SUBSET T /\ V # T
      BY <1>4
    <3>2. IsSum(it, V, F(V))
      BY <1>3, <3>1
    <3>3. IsFiniteSet(V)
      BY <3>1, FS_Subset
    <3> HIDE DEF F, V
    <3>4. F(U)[V] = F(V)[V]
      BY <2>1, <3>1, <3>2, <3>3, SumUnique
    <3> QED BY <3>4 DEF V
  <2> QED BY <2>2, <2>3
<1> HIDE DEF F
<1>5. ASSUME NEW s \in SUBSET T, s # {} PROVE h[s \ {Pick(s)}] = G(s \ {Pick(s)})
  <2>1. s \ {Pick(s)} \in SUBSET T /\ s \ {Pick(s)} # T
    BY <1>5, PickIn
  <2>2. h[s \ {Pick(s)}] = IF s \ {Pick(s)} = {} THEN 0
          ELSE Weight(it[Pick(s \ {Pick(s)})]) + G((s \ {Pick(s)}) \ {Pick(s \ {Pick(s)})})
    BY <2>1
  <2> QED BY <1>4, <2>1, <2>2
<1>6. h = [s \in SUBSET T |-> IF s = {} THEN 0
                              ELSE Weight(it[Pick(s)]) + h[s \ {Pick(s)}]]
  <2> HIDE DEF G
  <2>1. \A s \in SUBSET T :
          (IF s = {} THEN 0 ELSE Weight(it[Pick(s)]) + G(s \ {Pick(s)})) =
          (IF s = {} THEN 0 ELSE Weight(it[Pick(s)]) + h[s \ {Pick(s)}])
    BY <1>5
  <2> QED BY <2>1
<1>7. IsSum(it, T, h)
  BY <1>6 DEF IsSum
<1> QED BY <1>2, <1>7

(* The sum over the empty set, and the sum less the element taken first.   *)
LEMMA SumStep ==
  ASSUME NEW it, NEW S, IsFiniteSet(S)
  PROVE  /\ S = {} => WeightOf(it, S) = 0
         /\ S # {} => WeightOf(it, S) = Weight(it[Pick(S)]) + WeightOf(it, S \ {Pick(S)})
<1> DEFINE F(U) == CHOOSE f : IsSum(it, U, f)
<1>1. \A U \in SUBSET S : WeightOf(it, U) = F(U)[U] /\ IsSum(it, U, F(U))
  <2> SUFFICES ASSUME NEW U \in SUBSET S
               PROVE  WeightOf(it, U) = F(U)[U] /\ IsSum(it, U, F(U))
    OBVIOUS
  <2>1. IsFiniteSet(U)
    BY FS_Subset
  <2>2. \E f : IsSum(it, U, f)
    BY <2>1, SumExists
  <2> QED BY <2>2, WeightFold
<1>2. S \in SUBSET S
  OBVIOUS
<1> HIDE DEF F
<1>3. F(S)[S] = IF S = {} THEN 0 ELSE Weight(it[Pick(S)]) + F(S)[S \ {Pick(S)}]
  BY <1>1, <1>2, SumRow
<1>4. ASSUME S # {} PROVE F(S)[S \ {Pick(S)}] = WeightOf(it, S \ {Pick(S)})
  <2>1. S \ {Pick(S)} \in SUBSET S
    OBVIOUS
  <2>2. IsFiniteSet(S \ {Pick(S)})
    BY <2>1, FS_Subset
  <2>3. PICK V \in SUBSET S : V = S \ {Pick(S)}
    BY <2>1
  <2>4. F(S)[V] = F(V)[V]
    BY <1>1, <1>2, <2>2, <2>3, SumUnique
  <2> QED BY <1>1, <2>3, <2>4
<1> QED BY <1>1, <1>2, <1>3, <1>4

(* A sum of lengths is a length.                                           *)
LEMMA SumNat ==
  ASSUME NEW it, NEW S, IsFiniteSet(S), \A j \in S : Weight(it[j]) \in Nat
  PROVE  WeightOf(it, S) \in Nat
<1> DEFINE B == {s \in SUBSET S : WeightOf(it, s) \notin Nat}
<1>1. SUFFICES ASSUME B # {} PROVE FALSE
  OBVIOUS
<1>2. PICK T \in B : \A W \in SUBSET T : W # T => W \notin B
  <2>1. B \in SUBSET (SUBSET S)
    OBVIOUS
  <2> HIDE DEF B
  <2> QED BY <1>1, <2>1, Smallest
<1>3. IsFiniteSet(T)
  BY FS_Subset
<1>4. CASE T = {}
  BY <1>2, <1>3, <1>4, SumStep
<1>5. CASE T # {}
  <2>1. Pick(T) \in T
    BY <1>5, PickIn
  <2>2. WeightOf(it, T \ {Pick(T)}) \in Nat
    BY <1>2, <2>1
  <2>3. WeightOf(it, T) = Weight(it[Pick(T)]) + WeightOf(it, T \ {Pick(T)})
    BY <1>3, <1>5, SumStep
  <2>4. Weight(it[Pick(T)]) \in Nat
    BY <2>1
  <2> QED BY <1>2, <2>2, <2>3, <2>4
<1> QED BY <1>4, <1>5

(* Any element may be taken out first.                                     *)
LEMMA SumLess ==
  ASSUME NEW it, NEW S, IsFiniteSet(S), \A j \in S : Weight(it[j]) \in Nat
  PROVE  \A x \in S : WeightOf(it, S) = Weight(it[x]) + WeightOf(it, S \ {x})
<1> DEFINE B == {s \in SUBSET S : \E x \in s :
                   WeightOf(it, s) # Weight(it[x]) + WeightOf(it, s \ {x})}
<1>1. SUFFICES ASSUME B # {} PROVE FALSE
  <2>1. S \notin B
    BY <1>1
  <2> QED BY <2>1
<1>2. PICK T \in B : \A W \in SUBSET T : W # T => W \notin B
  <2>1. B \in SUBSET (SUBSET S)
    OBVIOUS
  <2> HIDE DEF B
  <2> QED BY <1>1, <2>1, Smallest
<1>3. PICK x \in T : WeightOf(it, T) # Weight(it[x]) + WeightOf(it, T \ {x})
  OBVIOUS
<1>4. PICK p \in T : p = Pick(T)
  BY <1>3, PickIn
<1>5. \A W \in SUBSET T : IsFiniteSet(W) /\ \A j \in W : Weight(it[j]) \in Nat
  BY FS_Subset
<1>6. WeightOf(it, T) = Weight(it[p]) + WeightOf(it, T \ {p})
  BY <1>3, <1>4, <1>5, SumStep
<1>7. x # p
  BY <1>3, <1>6
<1>8. WeightOf(it, T \ {p}) = Weight(it[x]) + WeightOf(it, (T \ {p}) \ {x})
  <2>1. T \ {p} \notin B
    BY <1>2, <1>4
  <2> QED BY <1>3, <1>7, <2>1
<1>9. WeightOf(it, T \ {x}) = Weight(it[p]) + WeightOf(it, (T \ {x}) \ {p})
  <2>1. T \ {x} \notin B
    BY <1>2, <1>3
  <2> QED BY <1>4, <1>7, <2>1
<1>10. (T \ {x}) \ {p} = (T \ {p}) \ {x}
  OBVIOUS
<1>11. WeightOf(it, (T \ {p}) \ {x}) \in Nat
  <2>1. (T \ {p}) \ {x} \in SUBSET T
    OBVIOUS
  <2> QED BY <1>5, <2>1, SumNat
<1>12. Weight(it[x]) \in Nat /\ Weight(it[p]) \in Nat
  BY <1>3, <1>4
<1>13. PICK a \in Nat, b \in Nat, c \in Nat :
         /\ a = Weight(it[p]) /\ b = Weight(it[x])
         /\ c = WeightOf(it, (T \ {p}) \ {x})
  BY <1>11, <1>12
<1>14. WeightOf(it, T) = a + (b + c) /\ WeightOf(it, T \ {x}) = a + c
  BY <1>6, <1>8, <1>9, <1>10, <1>13
<1>15. WeightOf(it, T) = b + WeightOf(it, T \ {x})
  BY <1>14
<1> QED BY <1>3, <1>13, <1>15

(* A part and the rest.                                                    *)
LEMMA SumSplit ==
  ASSUME NEW it, NEW S, IsFiniteSet(S), \A j \in S : Weight(it[j]) \in Nat,
         NEW V \in SUBSET S
  PROVE  /\ WeightOf(it, S) = WeightOf(it, V) + WeightOf(it, S \ V)
         /\ WeightOf(it, S) \in Nat /\ WeightOf(it, V) \in Nat
         /\ WeightOf(it, S \ V) \in Nat
<1>0. \A W \in SUBSET S : IsFiniteSet(W) /\ WeightOf(it, W) \in Nat
  BY FS_Subset, SumNat
<1> DEFINE B == {s \in SUBSET S : WeightOf(it, S) # WeightOf(it, s) + WeightOf(it, S \ s)}
<1>1. SUFFICES ASSUME B # {} PROVE FALSE
  <2>1. S \in SUBSET S /\ S \ V \in SUBSET S
    OBVIOUS
  <2> QED BY <1>0, <1>1, <2>1
<1>2. PICK T \in B : \A W \in SUBSET T : W # T => W \notin B
  <2>1. B \in SUBSET (SUBSET S)
    OBVIOUS
  <2> HIDE DEF B
  <2> QED BY <1>1, <2>1, Smallest
<1>3. T \in SUBSET S /\ WeightOf(it, S) # WeightOf(it, T) + WeightOf(it, S \ T)
  OBVIOUS
<1>4. CASE T = {}
  <2>1. S \ T = S /\ WeightOf(it, T) = 0 /\ WeightOf(it, S) \in Nat
    BY <1>0, <1>3, <1>4, SumStep
  <2> QED BY <1>3, <2>1
<1>5. CASE T # {}
  <2>1. PICK x \in T : TRUE
    BY <1>5
  <2>2. PICK U \in SUBSET S : U = T \ {x}
    BY <1>3
  <2>3. WeightOf(it, S) = WeightOf(it, U) + WeightOf(it, S \ U)
    <3>1. U \notin B
      BY <1>2, <2>1, <2>2
    <3> QED BY <3>1
  <2>4. WeightOf(it, T) = Weight(it[x]) + WeightOf(it, U)
    <3>1. IsFiniteSet(T) /\ \A j \in T : Weight(it[j]) \in Nat
      BY <1>0, <1>3
    <3> QED BY <2>1, <2>2, <3>1, SumLess
  <2>5. WeightOf(it, S \ U) = Weight(it[x]) + WeightOf(it, S \ T)
    <3>1. PICK R \in SUBSET S : R = S \ U
      OBVIOUS
    <3>2. IsFiniteSet(R) /\ \A j \in R : Weight(it[j]) \in Nat
      BY <1>0
    <3>3. x \in R /\ R \ {x} = S \ T
      BY <1>3, <2>1, <2>2, <3>1
    <3>4. WeightOf(it, R) = Weight(it[x]) + WeightOf(it, R \ {x})
      BY <3>2, <3>3, SumLess
    <3> QED BY <3>1, <3>3, <3>4
  <2>6. Weight(it[x]) \in Nat /\ WeightOf(it, U) \in Nat /\ WeightOf(it, S \ T) \in Nat
    <3>1. S \ T \in SUBSET S /\ x \in S
      BY <1>3, <2>1
    <3> QED BY <1>0, <3>1
  <2> HIDE DEF B
  <2> QED BY <1>3, <2>3, <2>4, <2>5, <2>6
<1> QED BY <1>4, <1>5

(* The sum is about the weights alone.                                     *)
LEMMA SumSame ==
  ASSUME NEW it, NEW jt, NEW S, IsFiniteSet(S),
         \A j \in S : Weight(it[j]) = Weight(jt[j])
  PROVE  WeightOf(it, S) = WeightOf(jt, S)
<1> DEFINE B == {s \in SUBSET S : WeightOf(it, s) # WeightOf(jt, s)}
<1>1. SUFFICES ASSUME B # {} PROVE FALSE
  <2>1. S \in SUBSET S
    OBVIOUS
  <2> QED BY <1>1, <2>1
<1>2. PICK T \in B : \A W \in SUBSET T : W # T => W \notin B
  <2>1. B \in SUBSET (SUBSET S)
    OBVIOUS
  <2> HIDE DEF B
  <2> QED BY <1>1, <2>1, Smallest
<1>3. IsFiniteSet(T) /\ WeightOf(it, T) # WeightOf(jt, T)
  BY FS_Subset
<1>4. CASE T = {}
  BY <1>3, <1>4, SumStep
<1>5. CASE T # {}
  <2>1. Pick(T) \in T
    BY <1>5, PickIn
  <2>2. WeightOf(it, T \ {Pick(T)}) = WeightOf(jt, T \ {Pick(T)})
    BY <1>2, <2>1
  <2>3. /\ WeightOf(it, T) = Weight(it[Pick(T)]) + WeightOf(it, T \ {Pick(T)})
        /\ WeightOf(jt, T) = Weight(jt[Pick(T)]) + WeightOf(jt, T \ {Pick(T)})
    BY <1>3, <1>5, SumStep
  <2>4. Weight(it[Pick(T)]) = Weight(jt[Pick(T)])
    BY <2>1
  <2> QED BY <1>3, <2>2, <2>3, <2>4
<1> QED BY <1>4, <1>5

(* The loop of PriorityCache::insert finds what to pop when the counter is *)
(* right: the smallest set whose removal is enough.                        *)
LEMMA PopsExist ==
  ASSUME NEW it, NEW hp, IsFiniteSet(hp), \A j \in hp : Weight(it[j]) \in Nat,
         NEW total, total = WeightOf(it, hp)
  PROVE  ~Overruns(it, hp, total)
<1> DEFINE B == {V \in SUBSET hp : total - WeightOf(it, V) <= MaxCache}
<1>1. \A V \in SUBSET hp : /\ total = WeightOf(it, V) + WeightOf(it, hp \ V)
                           /\ total \in Nat /\ WeightOf(it, V) \in Nat
                           /\ WeightOf(it, hp \ V) \in Nat
  BY SumSplit
<1>2. MaxCache \in Nat
  BY CacheAssumption
<1>a. \A V \in SUBSET hp : /\ total - WeightOf(it, V) = WeightOf(it, hp \ V)
                           /\ total - WeightOf(it, V) \in Nat
  <2> SUFFICES ASSUME NEW V \in SUBSET hp
               PROVE  /\ total - WeightOf(it, V) = WeightOf(it, hp \ V)
                      /\ total - WeightOf(it, V) \in Nat
    OBVIOUS
  <2>1. PICK a \in Nat, b \in Nat : a = WeightOf(it, V) /\ b = WeightOf(it, hp \ V)
    BY <1>1
  <2>2. total = a + b
    BY <1>1, <2>1
  <2> QED BY <2>1, <2>2
<1>3. hp \in B
  <2>1. total - WeightOf(it, hp) = 0
    <3>1. PICK a \in Nat : a = WeightOf(it, hp)
      BY <1>1
    <3> QED BY <3>1
  <2> QED BY <1>2, <2>1
<1>4. PICK T \in B : \A W \in SUBSET T : W # T => W \notin B
  <2>1. B \in SUBSET (SUBSET hp) /\ B # {}
    BY <1>3
  <2> HIDE DEF B
  <2> QED BY <2>1, Smallest
<1>5. T \in SUBSET hp /\ total - WeightOf(it, T) <= MaxCache
  OBVIOUS
<1>6. total - WeightOf(it, T) \in 0 .. MaxCache
  <2>1. PICK n \in Nat : n = total - WeightOf(it, T)
    BY <1>5, <1>a
  <2> QED BY <1>2, <1>5, <2>1
<1>7. ASSUME T # {} PROVE \E v \in T : total - WeightOf(it, T \ {v}) > MaxCache
  <2>1. PICK v \in T : TRUE
    BY <1>7
  <2>2. PICK U \in SUBSET hp : U = T \ {v}
    BY <1>5
  <2>3. ~(total - WeightOf(it, U) <= MaxCache)
    BY <1>4, <2>1, <2>2
  <2>4. PICK n \in Nat : n = total - WeightOf(it, U)
    BY <1>a
  <2>5. total - WeightOf(it, U) > MaxCache
    BY <1>2, <2>3, <2>4
  <2> QED BY <2>1, <2>2, <2>5
<1>8. Pops(it, hp, total, T)
  BY <1>6, <1>7 DEF Pops
<1> QED BY <1>5, <1>8 DEF Overruns
-----------------------------------------------------------------------------
(* The assumption about the server: a 200/206 carries the chunk asked for. *)
WholeBodies == \A c \in Chunk : Bodies[c] \subseteq {ChunkLen(c)}

(* A buffer in use is empty or whole, and promises the length of its chunk,*)
(* so filling it leaves its weight alone.                                  *)
Loaded(x) == /\ x.size = ChunkLen(x.chunk)
             /\ x.buf \in {None, ChunkLen(x.chunk)}
             /\ x.task \in {"write", "writing"} => x.buf # None

LoadedInv == \A i \in LiveNow : Loaded(item[i])

(* A file somebody is going to read is whole; one that is being written is *)
(* there; any other is whole or not there.                                 *)
ReadsFile(x)  == x.task \in {"read", "reading"}
WritesFile(x) == x.task = "writing"

TaskFiles == \A i \in LiveNow :
  /\ ReadsFile(item[i]) => disk[item[i].chunk] = ChunkLen(item[i].chunk)
  /\ WritesFile(item[i]) => disk[item[i].chunk] # None

FileInv == \A c \in Chunk :
  \/ disk[c] \in {None, ChunkLen(c)}
  \/ \E i \in LiveNow : WritesFile(item[i]) /\ item[i].chunk = c

AInv == /\ LoadedInv /\ TaskFiles /\ FileInv
        /\ IsFiniteSet(heap) /\ CacheAccount

(* The length of a chunk is one the code accepts.                          *)
LEMMA LenMatches ==
  ASSUME NEW c \in Chunk
  PROVE  Matches(ChunkLen(c)) /\ ChunkLen(c) \in Nat /\ ChunkLen(c) # None
<1> DEFINE N == ChunkNumber(FileSize)
<1>0. /\ c \in Nat /\ c <= N /\ N \in Nat /\ BlockSize \in Nat /\ BlockSize > 0
      /\ FileSize \in Nat /\ N * BlockSize <= FileSize
  BY DivBounds, SizesAssumption DEF Chunk
<1>1. FileSize % BlockSize = FileSize - N * BlockSize
  BY <1>0, Remainder
<1>2. ChunkLen(c) \in Nat
  BY ChunkLenNat
<1> HIDE DEF N
<1>3. CASE c = N
  <2>1. (N + 1) * BlockSize >= FileSize
    BY <1>0, DivBounds DEF N
  <2> QED BY <1>1, <1>2, <1>3, <2>1 DEF ChunkLen, Matches, None
<1>4. CASE c # N
  <2>1. (c + 1) * BlockSize <= N * BlockSize
    <3>1. c + 1 <= N
      BY <1>0, <1>4
    <3> QED BY <1>0, <3>1, SMTT(30)
  <2>2. (c + 1) * BlockSize = c * BlockSize + BlockSize
    BY <1>0
  <2>3. (c + 1) * BlockSize \in Int /\ c * BlockSize \in Int /\ N * BlockSize \in Int
    BY <1>0
  <2>4. (c + 1) * BlockSize >= FileSize => FileSize - c * BlockSize = BlockSize
    BY <1>0, <2>1, <2>2, <2>3
  <2>5. ChunkLen(c) = BlockSize
    BY <2>4 DEF ChunkLen
  <2> QED BY <1>2, <2>5 DEF Matches, None
<1> QED BY <1>3, <1>4

(* Whoever writes a chunk to disk is its only writer.                      *)
LEMMA LoadedWriter ==
  ASSUME IInv, LoadedInv, NEW i \in LiveNow, item[i].task \in {"write", "writing"}
  PROVE  Writer(item[i])
<1>1. item[i].chunk \in Chunk
  BY LiveItems DEF IInv, TypeInv, TypeOK, ItemType
<1>2. item[i].buf = ChunkLen(item[i].chunk)
  BY DEF LoadedInv, Loaded
<1> QED BY <1>1, <1>2, LenMatches DEF Writer

(* The weight of a buffer in use is the length of its chunk.               *)
LEMMA LoadedWeight ==
  ASSUME NEW x, x.chunk \in Chunk, Loaded(x)
  PROVE  Weight(x) = ChunkLen(x.chunk) /\ Weight(x) \in Nat
BY LenMatches DEF Loaded, Weight

(* A step that changes no weight keeps the counter right.                  *)
LEMMA AccountKept ==
  ASSUME IsFiniteSet(heap), CacheAccount, heap' = heap, cacheSize' = cacheSize,
         \A j \in heap : Weight(item'[j]) = Weight(item[j])
  PROVE  IsFiniteSet(heap') /\ CacheAccount'
<1>1. WeightOf(item', heap) = WeightOf(item, heap)
  BY SumSame
<1> QED BY <1>1 DEF CacheAccount

LEMMA QuietLoads ==
  ASSUME TypeInv', AInv, Quiet, disk' = disk
  PROVE  AInv'
<1>1. /\ heap' = heap /\ cacheSize' = cacheSize /\ LiveNow' \subseteq LiveNow
      /\ \A j \in LiveNow : item[j].task \in Running => j \in LiveNow'
      /\ \A j \in LiveNow' :
           /\ item'[j].chunk = item[j].chunk /\ item'[j].task = item[j].task
           /\ item'[j].buf = item[j].buf /\ item'[j].size = item[j].size
  BY DEF Quiet
<1>2. LoadedInv' /\ TaskFiles'
  BY <1>1 DEF AInv, LoadedInv, TaskFiles, Loaded, ReadsFile, WritesFile
<1>3. FileInv'
  <2>1. \A i \in LiveNow : WritesFile(item[i]) =>
          i \in LiveNow' /\ WritesFile(item'[i]) /\ item'[i].chunk = item[i].chunk
    BY <1>1 DEF WritesFile, Running
  <2> QED BY <2>1 DEF AInv, FileInv
<1>4. heap' \subseteq LiveNow'
  BY DEF LiveNow, Live
<1>5. \A j \in heap : Weight(item'[j]) = Weight(item[j])
  BY <1>1, <1>4 DEF Weight
<1> QED BY <1>1, <1>2, <1>3, <1>5, AccountKept DEF AInv

(* With a buffer's promised length added to the counter, the loop that     *)
(* evicts finds enough to pop.                                             *)
LEMMA Fits ==
  ASSUME IInv, AInv, NEW i \in Unused, NEW x \in ItemType, Loaded(x),
         NEW it, it[i] = x, \A j \in LiveNow : it[j] = item[j],
         NEW H, H = heap \cup {i}
  PROVE  /\ \A j \in H : Weight(it[j]) \in Nat
         /\ IsFiniteSet(H)
         /\ cacheSize + x.size = WeightOf(it, H)
         /\ ~Overruns(it, H, cacheSize + x.size)
<1>0. /\ i \in Items /\ i \notin LiveNow /\ item \in [Items -> ItemType]
      /\ LiveNow \subseteq Items /\ heap \subseteq LiveNow /\ x.chunk \in Chunk
  BY LiveItems DEF Unused, IInv, TypeInv, TypeOK, LiveNow, ItemType
<1>1. i \in H /\ H \ {i} = heap
  BY <1>0
<1>2. \A j \in H : Weight(it[j]) \in Nat
  <2>1. \A j \in LiveNow : item[j].chunk \in Chunk /\ Loaded(item[j])
    BY <1>0 DEF AInv, LoadedInv, ItemType
  <2>2. \A j \in heap : Weight(item[j]) \in Nat
    BY <1>0, <2>1, LoadedWeight
  <2>3. Weight(x) \in Nat
    BY <1>0, LoadedWeight
  <2> QED BY <1>0, <2>2, <2>3
<1>3. IsFiniteSet(H)
  BY FS_AddElement DEF AInv
<1>4. cacheSize + x.size = WeightOf(it, H)
  <2>1. WeightOf(it, H) = Weight(it[i]) + WeightOf(it, H \ {i})
    <3>1. \A y \in H : WeightOf(it, H) = Weight(it[y]) + WeightOf(it, H \ {y})
      BY <1>2, <1>3, SumLess
    <3> QED BY <1>1, <3>1
  <2>2. H \ {i} = heap
    BY <1>1
  <2>3. WeightOf(it, heap) = cacheSize
    <3>1. \A j \in heap : Weight(it[j]) = Weight(item[j])
      BY <1>0, <1>1
    <3> QED BY <3>1, SumSame DEF AInv, CacheAccount
  <2>4. Weight(it[i]) = x.size
    BY <1>0, <1>1, LoadedWeight DEF Loaded
  <2>5. x.size \in Nat /\ cacheSize \in Nat
    BY DEF ItemType, IInv, TypeInv, TypeOK
  <2>6. PICK m \in Nat, n \in Nat : m = x.size /\ n = cacheSize
    BY <2>5
  <2>7. WeightOf(it, H) = m + n
    BY <2>1, <2>2, <2>3, <2>4, <2>6
  <2>8. n + m = m + n
    OBVIOUS
  <2> QED BY <2>6, <2>7, <2>8
<1>5. ~Overruns(it, H, cacheSize + x.size)
  BY <1>2, <1>3, <1>4, PopsExist
<1> QED BY <1>2, <1>3, <1>4, <1>5

(* The new buffer's length is added, and what is popped is given back.     *)
LEMMA AddedLoads ==
  ASSUME IInv, CInv, AInv, disk' = disk, NEW r \in Readers,
         NEW i \in Unused, NEW c \in Chunk, NEW x \in ItemType, Added(r, i, c, x)
  PROVE  AInv'
<1>0. /\ i \in Items /\ i \notin LiveNow /\ item \in [Items -> ItemType]
      /\ heap \in SUBSET Items /\ held \in [Readers -> SUBSET Items]
      /\ weak \in [Chunk -> Items \cup {NoItem}] /\ LiveNow \subseteq Items
      /\ heap \subseteq LiveNow /\ disk \in [Chunk -> Nat \cup {None}]
  BY LiveItems DEF Unused, IInv, TypeInv, TypeOK, LiveNow
<1>1. /\ x.chunk = c
      /\ \/ /\ x.buf = disk[c] /\ x.buf # None /\ Matches(x.buf)
            /\ x.size = x.buf /\ x.task = "none"
         \/ /\ x.buf = None /\ x.size = ChunkLen(c) /\ x.task \in {"none", "read", "fetch"}
            /\ x.task = "read" => OnDisk(c)
            /\ Wanted(r) /\ c = Head(rd[r].need)
  BY DEF Added
<1>2. Loaded(x)
  BY <1>1 DEF CInv, DiskInv, Loaded
<1>3. ReadsFile(x) => disk[c] = ChunkLen(c)
  <2> SUFFICES ASSUME ReadsFile(x) PROVE disk[c] = ChunkLen(c)
    OBVIOUS
  <2>1. /\ disk[c] # None /\ Wanted(r) /\ c = Head(rd[r].need)
    BY <1>1 DEF ReadsFile, OnDisk
  <2>2. \A j \in LiveNow : Writer(item[j]) => item[j].chunk # c
    BY <1>0, <2>1, WantedFree
  <2>3. \A j \in LiveNow : WritesFile(item[j]) => item[j].chunk # c
    BY <2>2, LoadedWriter DEF AInv, WritesFile
  <2> QED BY <2>1, <2>3 DEF AInv, FileInv
<1>4. x.task \notin Running
  BY <1>1 DEF Running
<1>5. PICK it \in [Items -> ItemType] : it = [item EXCEPT ![i] = x]
  BY <1>0
<1>6. PICK H \in SUBSET Items : H = heap \cup {i}
  BY <1>0
<1>7. it[i] = x /\ \A j \in LiveNow : it[j] = item[j]
  BY <1>0, <1>5
<1>8. \A j \in H : Weight(it[j]) \in Nat
  BY <1>2, <1>6, <1>7, Fits
<1>9. IsFiniteSet(H)
  BY <1>2, <1>6, <1>7, Fits
<1>10. cacheSize + x.size = WeightOf(it, H)
  BY <1>2, <1>6, <1>7, Fits
<1>11. ~Overruns(it, H, cacheSize + x.size)
  BY <1>2, <1>6, <1>7, Fits
<1>12. PICK own \in SUBSET (LiveNow \cup {i}), in, V \in SUBSET H :
         /\ cacheSize' = (cacheSize + x.size) - WeightOf(it, V)
         /\ Settle(it, [weak EXCEPT ![c] = i], H \ V, [held EXCEPT ![r] = own])
  BY <1>5, <1>6, <1>11 DEF Added, Publish
<1>13. PICK wk \in [Chunk -> Items \cup {NoItem}] : wk = [weak EXCEPT ![c] = i]
  BY <1>0
<1>14. PICK hd \in [Readers -> SUBSET Items] : hd = [held EXCEPT ![r] = own]
  BY <1>0
<1>15. PICK hp \in SUBSET Items : hp = H \ V
  OBVIOUS
<1>16. After(it, hp, hd)
  BY <1>12, <1>13, <1>14, <1>15, SettleAfter
<1>17. /\ heap' = hp /\ LiveNow' = Live(it, hp, hd)
       /\ \A j \in LiveNow' : item'[j] = it[j]
  BY <1>16 DEF After, LiveNow
<1>18. LiveNow' \subseteq LiveNow \cup {i}
  <2>1. \A s \in Readers : hd[s] \subseteq LiveNow \cup {i}
    BY <1>0, <1>14, LiveItems DEF IInv
  <2>2. \A j \in Items : it[j].task \in Running => j \in LiveNow
    BY <1>0, <1>4, <1>5 DEF LiveNow, Live
  <2>3. hp \subseteq LiveNow \cup {i}
    BY <1>0, <1>6, <1>15
  <2> QED BY <1>17, <2>1, <2>2, <2>3 DEF Live
<1>19. \A j \in LiveNow : item[j].task \in Running => j \in LiveNow' /\ item'[j] = item[j]
  BY <1>0, <1>7, <1>17 DEF Live
<1>20. LoadedInv'
  BY <1>2, <1>7, <1>17, <1>18 DEF AInv, LoadedInv
<1>21. TaskFiles'
  BY <1>1, <1>3, <1>7, <1>17, <1>18 DEF AInv, TaskFiles, WritesFile
<1>22. FileInv'
  BY <1>19 DEF AInv, FileInv, WritesFile, Running
<1>23. IsFiniteSet(heap') /\ CacheAccount'
  <2>1. IsFiniteSet(hp)
    BY <1>9, <1>15, FS_Subset
  <2>2. WeightOf(item', hp) = WeightOf(it, hp)
    <3>1. hp \subseteq LiveNow'
      BY <1>17 DEF Live
    <3>2. \A j \in hp : Weight(item'[j]) = Weight(it[j])
      BY <1>17, <3>1
    <3> QED BY <2>1, <3>2, SumSame
  <2>3. PICK a \in Nat, b \in Nat : a = WeightOf(it, V) /\ b = WeightOf(it, hp)
    BY <1>8, <1>9, <1>15, SumSplit
  <2>4. WeightOf(it, H) = a + b
    <3>1. WeightOf(it, H) = WeightOf(it, V) + WeightOf(it, H \ V)
      BY <1>8, <1>9, SumSplit
    <3> QED BY <1>15, <2>3, <3>1
  <2>5. cacheSize' = b
    <3>1. cacheSize' = (a + b) - a
      BY <1>10, <1>12, <2>3, <2>4
    <3> QED BY <3>1
  <2> QED BY <1>17, <2>1, <2>2, <2>3, <2>5 DEF CacheAccount
<1> QED BY <1>20, <1>21, <1>22, <1>23 DEF AInv

(* A task's step that leaves the fields x in its buffer.                   *)
LEMMA TaskLoads ==
  ASSUME IInv, AInv, NEW i \in LiveNow, NEW x \in ItemType, Step(i, x),
         x.chunk = item[i].chunk, Loaded(x),
         ReadsFile(x) => disk'[x.chunk] = ChunkLen(x.chunk),
         WritesFile(x) => disk'[x.chunk] # None,
         \A j \in LiveNow \ {i} :
           /\ ReadsFile(item[j]) => disk'[item[j].chunk] = ChunkLen(item[j].chunk)
           /\ WritesFile(item[j]) => disk'[item[j].chunk] # None,
         \A c \in Chunk :
           \/ disk'[c] \in {None, ChunkLen(c)}
           \/ \E j \in LiveNow \ {i} : WritesFile(item[j]) /\ item[j].chunk = c
           \/ WritesFile(x) /\ x.chunk = c
  PROVE  AInv'
<1>0. /\ item \in [Items -> ItemType] /\ heap \in SUBSET Items
      /\ held \in [Readers -> SUBSET Items] /\ LiveNow \subseteq Items
      /\ weak \in [Chunk -> Items \cup {NoItem}] /\ i \in Items
      /\ heap \subseteq LiveNow
  BY LiveItems DEF IInv, TypeInv, TypeOK
<1>1. PICK it \in [Items -> ItemType] : it = [item EXCEPT ![i] = x]
  BY <1>0
<1>2. After(it, heap, held) /\ cacheSize' = cacheSize
  BY <1>0, <1>1, SettleAfter DEF Step
<1>3. /\ heap' = heap /\ LiveNow' = Live(it, heap, held)
      /\ \A j \in LiveNow' : item'[j] = it[j]
  BY <1>2 DEF After, LiveNow
<1>4. it[i] = x /\ \A j \in LiveNow \ {i} : it[j] = item[j]
  BY <1>0, <1>1
<1>5. LiveNow' \subseteq LiveNow
  BY <1>0, <1>1, <1>3 DEF LiveNow, Live
<1>6. \A j \in LiveNow : it[j].task \in Running => j \in LiveNow'
  BY <1>0, <1>3 DEF Live
<1>7. LoadedInv'
  BY <1>3, <1>4, <1>5 DEF AInv, LoadedInv
<1>8. TaskFiles'
  BY <1>3, <1>4, <1>5 DEF TaskFiles
<1>9. FileInv'
  <2>1. ASSUME NEW c \in Chunk, disk'[c] \notin {None, ChunkLen(c)}
        PROVE  \E j \in LiveNow' : WritesFile(item'[j]) /\ item'[j].chunk = c
    <3>1. \E j \in LiveNow : WritesFile(it[j]) /\ it[j].chunk = c
      BY <1>4, <2>1
    <3>2. PICK j \in LiveNow : WritesFile(it[j]) /\ it[j].chunk = c
      BY <3>1
    <3>3. j \in LiveNow' /\ item'[j] = it[j]
      BY <1>3, <1>6, <3>2 DEF WritesFile, Running
    <3> QED BY <3>2, <3>3
  <2> QED BY <2>1 DEF FileInv
<1>10. \A j \in heap : Weight(item'[j]) = Weight(item[j])
  <2>1. \A j \in heap : j \in LiveNow' /\ item'[j] = it[j]
    BY <1>3 DEF Live
  <2>2. item[i].chunk \in Chunk /\ Loaded(item[i])
    BY <1>0 DEF AInv, LoadedInv, ItemType
  <2>3. Weight(x) = Weight(item[i])
    BY <2>2, LoadedWeight
  <2> QED BY <1>0, <1>4, <2>1, <2>3
<1> QED BY <1>2, <1>3, <1>7, <1>8, <1>9, <1>10, AccountKept DEF AInv

(* The steps of the pool tasks; none of them ends the process.             *)
LEMMA TasksLoad ==
  ASSUME IInv, CInv, AInv, TypeInv', WholeBodies, NEW i \in Items, TaskStep(i)
  PROVE  AInv'
<1>0. PICK z \in ItemType : z = item[i]
  BY DEF IInv, TypeInv, TypeOK
<1>1. /\ item \in [Items -> ItemType] /\ heap \in SUBSET Items
      /\ held \in [Readers -> SUBSET Items] /\ LiveNow \subseteq Items
      /\ weak \in [Chunk -> Items \cup {NoItem}]
      /\ z.chunk \in Chunk /\ disk \in [Chunk -> Nat \cup {None}]
      /\ \A j \in LiveNow : item[j].chunk \in Chunk
  BY LiveItems DEF IInv, TypeInv, TypeOK, ItemType
<1>2. /\ z.task \in Running => i \in LiveNow
      /\ i \in LiveNow => Loaded(z)
      /\ i \in LiveNow /\ ReadsFile(z) => disk[z.chunk] = ChunkLen(z.chunk)
      /\ i \in LiveNow /\ WritesFile(z) => disk[z.chunk] # None
  BY <1>0 DEF LiveNow, Live, AInv, LoadedInv, TaskFiles
<1>3. /\ ChunkLen(z.chunk) \in Nat /\ ChunkLen(z.chunk) # None
      /\ Matches(ChunkLen(z.chunk))
  BY <1>1, LenMatches
(* A step that leaves the disk alone and is not the end of a write.        *)
<1>4. ASSUME NEW x \in ItemType, Step(i, x), i \in LiveNow, disk' = disk,
             x.chunk = z.chunk, Loaded(x), ~WritesFile(z), ~WritesFile(x),
             ReadsFile(x) => ReadsFile(z)
      PROVE  AInv'
  <2>1. \A j \in LiveNow \ {i} :
          /\ ReadsFile(item[j]) => disk'[item[j].chunk] = ChunkLen(item[j].chunk)
          /\ WritesFile(item[j]) => disk'[item[j].chunk] # None
    BY <1>4 DEF AInv, TaskFiles
  <2>2. \A c \in Chunk :
          \/ disk'[c] \in {None, ChunkLen(c)}
          \/ \E j \in LiveNow \ {i} : WritesFile(item[j]) /\ item[j].chunk = c
    BY <1>0, <1>4 DEF AInv, FileInv
  <2>3. ReadsFile(x) => disk'[x.chunk] = ChunkLen(x.chunk)
    BY <1>2, <1>4
  <2> QED BY <1>0, <1>4, <2>1, <2>2, <2>3, TaskLoads
<1>5. CASE Expire(i)
  <2>1. /\ Step(i, Blank) /\ i \notin LiveNow /\ disk' = disk
    BY <1>5 DEF Expire, LiveNow
  <2>2. PICK it \in [Items -> ItemType] : it = [item EXCEPT ![i] = Blank]
    BY <1>1, BlankType
  <2>3. After(it, heap, held) /\ cacheSize' = cacheSize
    BY <1>1, <2>1, <2>2, SettleAfter DEF Step
  <2>4. /\ heap' = heap /\ LiveNow' = Live(it, heap, held)
        /\ \A j \in LiveNow' : item'[j] = it[j]
    BY <2>3 DEF After, LiveNow
  <2>5. LiveNow' = LiveNow /\ \A j \in LiveNow' : it[j] = item[j]
    BY <1>1, <2>1, <2>2, <2>4 DEF LiveNow, Live, Blank, Running
  <2>6. Quiet
    BY <2>3, <2>4, <2>5 DEF Quiet
  <2> QED BY <2>1, <2>6, QuietLoads
<1>6. CASE ReadStart(i) \/ FetchStart(i)
  <2>1. ASSUME NEW from \in {"read", "fetch"}, NEW to \in {"reading", "fetching"},
               StartTask(i, from, to), to = "reading" => from = "read"
        PROVE  AInv'
    <3> DEFINE x == [z EXCEPT !.task = to, !.backoff = FALSE]
    <3>1. Step(i, x) /\ i \in LiveNow /\ z.task = from /\ disk' = disk
      BY <1>0, <2>1 DEF StartTask, LiveNow
    <3>2. /\ x \in ItemType /\ x.task = to /\ x.buf = z.buf /\ x.chunk = z.chunk
          /\ x.size = z.size
      BY DEF ItemType, Running
    <3> HIDE DEF x
    <3> QED BY <1>2, <1>4, <2>1, <3>1, <3>2 DEF Loaded, ReadsFile, WritesFile
  <2> QED BY <1>6, <2>1 DEF ReadStart, FetchStart
<1>7. CASE ReadOk(i)
  <2> DEFINE n == ChunkLen(z.chunk)
             x == [z EXCEPT !.task = "none", !.token = TRUE, !.buf = n]
  <2>1. i \in LiveNow /\ z.task = "reading" /\ disk' = disk /\ disk[z.chunk] = n
    BY <1>0, <1>2, <1>7 DEF ReadOk, Running, ReadsFile
  <2>2. Step(i, x)
    BY <1>0, <1>7, <2>1 DEF ReadOk
  <2>3. /\ x \in ItemType /\ x.task = "none" /\ x.buf = n /\ x.chunk = z.chunk
        /\ x.size = z.size
    BY <1>3 DEF ItemType
  <2> HIDE DEF x
  <2> QED BY <1>2, <1>3, <1>4, <2>1, <2>2, <2>3 DEF Loaded, ReadsFile, WritesFile
<1>8. CASE FetchOk(i)
  <2> DEFINE n == ChunkLen(z.chunk)
             x == [z EXCEPT !.task = "write", !.token = TRUE, !.buf = n]
  <2>1. i \in LiveNow /\ z.task = "fetching" /\ disk' = disk
    BY <1>0, <1>2, <1>8 DEF FetchOk, Running
  <2>2. Step(i, x)
    BY <1>0, <1>1, <1>8 DEF FetchOk, WholeBodies
  <2>3. /\ x \in ItemType /\ x.task = "write" /\ x.buf = n /\ x.chunk = z.chunk
        /\ x.size = z.size
    BY <1>3 DEF ItemType, Queued
  <2> HIDE DEF x
  <2> QED BY <1>2, <1>3, <1>4, <2>1, <2>2, <2>3 DEF Loaded, ReadsFile, WritesFile
(* The end of a task, or a retry, that fills nothing.                      *)
<1>9. ASSUME NEW x \in ItemType, Step(i, x), i \in LiveNow, disk' = disk,
             z.task \in {"reading", "fetching", "write"},
             x.chunk = z.chunk, x.buf = z.buf, x.size = z.size,
             x.task \in {"none", z.task}
      PROVE  AInv'
  BY <1>2, <1>4, <1>9 DEF Loaded, ReadsFile, WritesFile
<1>10. CASE ReadFails(i)
  <2> DEFINE x == [z EXCEPT !.task = "none", !.token = TRUE, !.invalid = TRUE]
  <2>1. Step(i, x) /\ i \in LiveNow /\ z.task = "reading" /\ disk' = disk
    BY <1>0, <1>2, <1>10 DEF ReadFails, Running
  <2>2. /\ x \in ItemType /\ x.buf = z.buf /\ x.task = "none" /\ x.chunk = z.chunk
        /\ x.size = z.size
    BY DEF ItemType
  <2> HIDE DEF x
  <2> QED BY <1>9, <2>1, <2>2
<1>11. ASSUME Step(i, [z EXCEPT !.backoff = TRUE]), z.task = "fetching", disk' = disk
       PROVE  AInv'
  <2> DEFINE x == [z EXCEPT !.backoff = TRUE]
  <2>1. /\ x \in ItemType /\ x.buf = z.buf /\ x.task = z.task /\ x.chunk = z.chunk
        /\ x.size = z.size
    BY DEF ItemType
  <2>2. Step(i, x) /\ i \in LiveNow
    BY <1>2, <1>11 DEF Running
  <2> HIDE DEF x
  <2> QED BY <1>9, <1>11, <2>1, <2>2
<1>12. CASE FetchError(i)
  BY <1>0, <1>11, <1>12 DEF FetchError
<1>13. CASE Fetch404(i)
  <2> DEFINE x == [z EXCEPT !.task = "none", !.token = TRUE,
                            !.invalid = TRUE, !.deleted = TRUE]
  <2>1. i \in LiveNow /\ z.task = "fetching" /\ disk' = disk
    BY <1>0, <1>2, <1>13 DEF Fetch404, Running
  <2>2. /\ x \in ItemType /\ x.buf = z.buf /\ x.task = "none" /\ x.chunk = z.chunk
        /\ x.size = z.size
    BY DEF ItemType
  <2>3. Step(i, x) \/ Step(i, [z EXCEPT !.backoff = TRUE])
    BY <1>0, <1>13 DEF Fetch404
  <2> HIDE DEF x
  <2> QED BY <1>9, <1>11, <2>1, <2>2, <2>3
(* The steps that write the file: n is its length after the step.          *)
<1>14. ASSUME NEW t \in {"none", "writing"}, Step(i, [z EXCEPT !.task = t]),
              z.task \in {"write", "writing"}, i \in LiveNow,
              NEW n \in Nat, disk' = [disk EXCEPT ![z.chunk] = n],
              t = "none" => n = ChunkLen(z.chunk)
       PROVE  AInv'
  <2> DEFINE x == [z EXCEPT !.task = t]
  <2>1. /\ x \in ItemType /\ x.buf = z.buf /\ x.task = t /\ x.chunk = z.chunk
        /\ x.size = z.size
    BY <1>14 DEF ItemType, Running
  <2>2. Step(i, x)
    BY <1>14
  <2> HIDE DEF x
  <2>3. Loaded(x) /\ ~ReadsFile(x)
    BY <1>2, <1>14, <2>1 DEF Loaded, ReadsFile
  <2>4. \A c \in Chunk : disk'[c] = IF c = z.chunk THEN n ELSE disk[c]
    BY <1>1, <1>14
  <2>5. n # None
    BY DEF None
  <2>6. WritesFile(x) => disk'[x.chunk] # None
    BY <1>1, <2>1, <2>4, <2>5
  <2>7. \A j \in LiveNow \ {i} :
          /\ ReadsFile(item[j]) => disk'[item[j].chunk] = ChunkLen(item[j].chunk)
          /\ WritesFile(item[j]) => disk'[item[j].chunk] # None
    <3> SUFFICES ASSUME NEW j \in LiveNow \ {i}
                 PROVE  /\ ReadsFile(item[j]) => disk'[item[j].chunk] = ChunkLen(item[j].chunk)
                        /\ WritesFile(item[j]) => disk'[item[j].chunk] # None
      OBVIOUS
    <3>1. /\ ReadsFile(item[j]) => disk[item[j].chunk] = ChunkLen(item[j].chunk)
          /\ WritesFile(item[j]) => disk[item[j].chunk] # None
      BY DEF AInv, TaskFiles
    <3>2. ReadsFile(item[j]) => item[j].chunk # z.chunk
      <4>1. Writer(item[i])
        BY <1>0, <1>14, LoadedWriter DEF AInv
      <4>2. ~Matches(disk[z.chunk])
        BY <1>0, <1>14, <4>1 DEF CInv, WriterInv
      <4> QED BY <1>3, <3>1, <4>2
    <3> QED BY <1>1, <2>4, <2>5, <3>1, <3>2
  <2>8. \A c \in Chunk :
          \/ disk'[c] \in {None, ChunkLen(c)}
          \/ \E j \in LiveNow \ {i} : WritesFile(item[j]) /\ item[j].chunk = c
          \/ WritesFile(x) /\ x.chunk = c
    <3> SUFFICES ASSUME NEW c \in Chunk
                 PROVE  \/ disk'[c] \in {None, ChunkLen(c)}
                        \/ \E j \in LiveNow \ {i} : WritesFile(item[j]) /\ item[j].chunk = c
                        \/ WritesFile(x) /\ x.chunk = c
      OBVIOUS
    <3>1. CASE c = z.chunk
      BY <1>14, <2>1, <2>4, <3>1 DEF WritesFile
    <3>2. CASE c # z.chunk
      BY <1>0, <2>4, <3>2 DEF AInv, FileInv
    <3> QED BY <3>1, <3>2
  <2> QED BY <1>0, <1>14, <2>1, <2>2, <2>3, <2>6, <2>7, <2>8, TaskLoads
<1>15. CASE WriteStart(i)
  <2>1. z.task = "write" /\ i \in LiveNow
    BY <1>0, <1>15 DEF WriteStart, LiveNow
  <2>2. CASE z.invalid
    <3> DEFINE x == [z EXCEPT !.task = "none"]
    <3>1. Step(i, x) /\ disk' = disk
      BY <1>0, <1>15, <2>2 DEF WriteStart
    <3>2. /\ x \in ItemType /\ x.chunk = z.chunk /\ x.buf = z.buf /\ x.task = "none"
          /\ x.size = z.size
      BY DEF ItemType
    <3> HIDE DEF x
    <3> QED BY <1>9, <2>1, <3>1, <3>2
  <2>3. CASE ~z.invalid
    <3>1. PICK n \in Torn : disk' = [disk EXCEPT ![z.chunk] = n]
      BY <1>0, <1>15, <2>3 DEF WriteStart
    <3>2. Step(i, [z EXCEPT !.task = "writing"]) /\ n \in Nat
      BY <1>0, <1>15, <2>3, CacheAssumption DEF WriteStart
    <3> QED BY <1>14, <2>1, <3>1, <3>2
  <2> QED BY <2>2, <2>3
<1>16. CASE WriteEnd(i)
  <2>1. /\ z.task = "writing" /\ Step(i, [z EXCEPT !.task = "none"])
        /\ disk' = [disk EXCEPT ![z.chunk] = z.buf]
    BY <1>0, <1>16 DEF WriteEnd
  <2>2. i \in LiveNow
    BY <1>2, <2>1 DEF Running
  <2>3. z.buf = ChunkLen(z.chunk)
    BY <1>2, <2>1, <2>2 DEF Loaded
  <2> QED BY <1>3, <1>14, <2>1, <2>2, <2>3
<1>17. ~ReadAborts(i) /\ ~WriteAborts(i)
  BY <1>0, <1>2, <1>3 DEF ReadAborts, WriteAborts, Running, ReadsFile, WritesFile
<1> QED BY <1>5, <1>6, <1>7, <1>8, <1>10, <1>12, <1>13, <1>15, <1>16, <1>17
        DEF TaskStep

-----------------------------------------------------------------------------
(* The counter is right at first and after every step.                     *)
LEMMA InitAInv == Init => AInv
<1> SUFFICES ASSUME Init PROVE AInv
  OBVIOUS
<1>1. LiveNow = {}
  BY DEF Init, LiveNow, Live, Blank, Running
<1>2. heap = {} /\ cacheSize = 0 /\ \A c \in Chunk : disk[c] = None
  BY DEF Init
<1>3. IsFiniteSet(heap) /\ WeightOf(item, heap) = 0
  BY <1>2, FS_EmptySet, SumStep
<1> QED BY <1>1, <1>2, <1>3 DEF AInv, LoadedInv, TaskFiles, FileInv, CacheAccount

LEMMA NextAInv ==
  ASSUME HonestLengths, WholeBodies, ~Evicts, ~Crashes
  PROVE  LInv /\ CInv /\ AInv /\ [Next]_vars => AInv'
<1> SUFFICES ASSUME LInv, CInv, AInv, [Next]_vars PROVE AInv'
  OBVIOUS
<1>1. IInv /\ TypeInv'
  BY NextType DEF LInv, IInv
<1>2. ASSUME NEW r \in Readers,
             ReaderStep(r) \/ StartRead(r) \/ ProbeThrows(r) \/ InsertThrows(r)
      PROVE  AInv'
  <2>1. disk' = disk
    BY <1>2 DEF ReaderStep, StartRead, ProbeThrows, InsertThrows, Enter, Look, Wait,
       Relay, EvalDeleted, EvalStale, EvalGood, Copy, ProbeMiss, ProbeHit, Ahead,
       Lock, InsertSkip, Insert, Unlock, Retry
  <2>2. \/ Quiet
        \/ \E i \in Unused, c \in Chunk, x \in ItemType : Added(r, i, c, x)
    BY <1>1, <1>2, ReaderEffect
  <2> QED BY <1>1, <2>1, <2>2, QuietLoads, AddedLoads
<1>3. CASE UNCHANGED vars
  <2>1. LiveNow' = LiveNow /\ disk' = disk
    BY <1>3 DEF vars, LiveNow, Live
  <2>2. Quiet
    BY <1>3, <2>1 DEF vars, Quiet
  <2> QED BY <1>1, <2>1, <2>2, QuietLoads
<1> QED BY <1>1, <1>2, <1>3, TasksLoad DEF Next, EvictFile, Crash

(* The byte counter is the sum of what popping the heap gives back.  The   *)
(* server sends whole chunks, no file is deleted under the process, and it *)
(* is not killed: a torn last chunk left by a crash has another length     *)
(* than its buffer promised.                                               *)
THEOREM AccountRight ==
  ASSUME HonestLengths, WholeBodies, ~Evicts, ~Crashes
  PROVE  Spec => []CacheAccount
<1>1. Init => LInv /\ CInv /\ AInv
  BY InitLInv, InitCInv, InitAInv
<1>2. (LInv /\ CInv /\ AInv) /\ [Next]_vars => (LInv /\ CInv /\ AInv)'
  BY NextLInv, NextCInv, NextAInv
<1>3. AInv => CacheAccount
  BY DEF AInv
<1> QED BY <1>1, <1>2, <1>3, PTL DEF Spec

(* PriorityCache::insert does not read the top of an empty heap: a reader  *)
(* that adds a buffer goes on with its copy, or with the next chunk it     *)
(* wants, where the end of the process would leave it idle.                *)
NeverEmptied ==
  [][\A r \in Readers : /\ ProbeHit(r) => rd'[r].pc = "copy"
                        /\ Insert(r) => rd'[r].pc = "insert"]_vars

LEMMA AddGoesOn ==
  ASSUME IInv, AInv, NEW r \in Readers, NEW i \in Unused, NEW c, NEW x \in ItemType,
         NEW total, NEW own, NEW in, total = cacheSize + x.size, Loaded(x),
         Publish(r, i, c, x, total, own, in)
  PROVE  rd'[r] = in
<1>1. ~Overruns([item EXCEPT ![i] = x], heap \cup {i}, total)
  <2>1. PICK it : it = [item EXCEPT ![i] = x]
    OBVIOUS
  <2>2. i \in Items /\ i \notin LiveNow /\ item \in [Items -> ItemType] /\ LiveNow \subseteq Items
    BY LiveItems DEF Unused, IInv, TypeInv, TypeOK, LiveNow
  <2>3. it[i] = x /\ \A j \in LiveNow : it[j] = item[j]
    BY <2>1, <2>2
  <2>4. PICK H : H = heap \cup {i}
    OBVIOUS
  <2>5. ~Overruns(it, H, cacheSize + x.size)
    BY <2>3, <2>4, Fits
  <2> QED BY <2>1, <2>4, <2>5
<1>2. rd' = [rd EXCEPT ![r] = in]
  BY <1>1 DEF Publish
<1> QED BY <1>2 DEF IInv, TypeInv, TypeOK

LEMMA NextGoesOn ==
  ASSUME IInv, CInv, AInv, NEW r \in Readers
  PROVE  /\ ProbeHit(r) => rd'[r].pc = "copy"
         /\ Insert(r) => rd'[r].pc = "insert"
<1>0. rd[r] \in ReaderType /\ disk \in [Chunk -> Nat \cup {None}] /\ ChunkAt(r) \in Chunk
  BY ChunkAtType DEF IInv, TypeInv, TypeOK
<1>1. ASSUME ProbeHit(r) PROVE rd'[r].pc = "copy"
  <2>1. PICK c \in Chunk, n \in Nat : c = ChunkAt(r) /\ n = disk[c] /\ Matches(n)
    BY <1>0, <1>1 DEF ProbeHit
  <2> DEFINE x == [Blank EXCEPT !.chunk = c, !.buf = n, !.size = n]
             in(i) == [rd[r] EXCEPT !.pc = "copy", !.cur = i, !.cached = TRUE]
  <2>2. PICK i \in Unused : Publish(r, i, c, x, cacheSize + n, held[r] \cup {i}, in(i))
    BY <1>1, <2>1 DEF ProbeHit
  <2>3. /\ x \in ItemType /\ x.size = n /\ x.buf = n /\ x.chunk = c /\ x.task = "none"
        /\ in(i).pc = "copy"
    BY <1>0, BlankType DEF ItemType, Blank, ReaderType
  <2>4. n = ChunkLen(c)
    BY <2>1 DEF CInv, DiskInv
  <2> HIDE DEF x, in
  <2>5. Loaded(x)
    BY <2>3, <2>4 DEF Loaded
  <2>6. rd'[r] = in(i)
    BY <2>2, <2>3, <2>5, AddGoesOn
  <2> QED BY <2>3, <2>6
<1>2. ASSUME Insert(r) PROVE rd'[r].pc = "insert"
  <2>1. PICK c \in Chunk : c = Head(rd[r].need)
    BY <1>0, <1>2 DEF Insert, ReaderType
  <2> DEFINE t == IF OnDisk(c) THEN "read" ELSE "fetch"
             x == [Blank EXCEPT !.chunk = c, !.size = ChunkLen(c), !.task = t]
             in == [rd[r] EXCEPT !.need = Tail(@)]
  <2>2. PICK i \in Unused : Publish(r, i, c, x, cacheSize + ChunkLen(c), Found(r), in)
    BY <1>2, <2>1 DEF Insert
  <2>3. in.pc = "insert"
    BY <1>0, <1>2 DEF Insert, ReaderType
  <2>4. t \in {"read", "fetch"}
    OBVIOUS
  <2> HIDE DEF t, in
  <2>5. /\ x \in ItemType /\ x.size = ChunkLen(c) /\ x.buf = None /\ x.chunk = c
        /\ x.task = t
    BY <2>4, BlankType, ChunkLenNat DEF ItemType, Blank, Queued
  <2> HIDE DEF x
  <2>6. Loaded(x)
    BY <2>4, <2>5 DEF Loaded
  <2>7. rd'[r] = in
    BY <2>2, <2>5, <2>6, AddGoesOn
  <2> QED BY <2>3, <2>7
<1> QED BY <1>1, <1>2

(* Under the same assumptions no eviction runs over an empty heap.         *)
THEOREM EvictionEnds ==
  ASSUME HonestLengths, WholeBodies, ~Evicts, ~Crashes
  PROVE  Spec => NeverEmptied
<1>1. Init => LInv /\ CInv /\ AInv
  BY InitLInv, InitCInv, InitAInv
<1>2. (LInv /\ CInv /\ AInv) /\ [Next]_vars => (LInv /\ CInv /\ AInv)'
  BY NextLInv, NextCInv, NextAInv
<1>3. (LInv /\ CInv /\ AInv) /\ [Next]_vars =>
        [\A r \in Readers : /\ ProbeHit(r) => rd'[r].pc = "copy"
                            /\ Insert(r) => rd'[r].pc = "insert"]_vars
  BY NextGoesOn DEF LInv
<1> QED BY <1>1, <1>2, <1>3, PTL DEF Spec, NeverEmptied
=============================================================================
