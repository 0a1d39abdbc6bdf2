-------------------------- MODULE ChangeFeedProofs --------------------------
(***************************************************************************)
(* What holds of ChangeFeed for any set of files, any page size and any    *)
(* number of changes and crashes: the types, that a saved token never runs *)
(* ahead of the database, and that memory never runs behind it.            *)
(***************************************************************************)
EXTENDS ChangeFeed, WellFoundedInduction, TLAPS

Docs == feed.todo \cup feed.docs   \* the page at hand

(* No two documents of a set are about the same file.                      *)
OneEach(docs) == \A d, e \in docs : d.id = e.id => d = e

TypeInv ==
  /\ TypeOK
  /\ feed \in [pc : {"list", "token", "join", "fetch", "apply", "save", "down"},
               todo : SUBSET Doc, docs : SUBSET Doc]
  /\ first \in [left : SUBSET Ids, queue : SUBSET Doc]
  /\ hist \in [crashes : Nat, again : BOOLEAN, lost : BOOLEAN]

(* No version is newer than the server's.                                  *)
FreshInv ==
  /\ \A id \in Ids : db[id] <= Latest(id) /\ mem[id] <= Latest(id)
  /\ \A d \in Docs \cup first.queue : d.ver <= Latest(d.id)

(* A page is there while it is applied: newer than the database, and in    *)
(* memory as far as it is done.                                            *)
PageInv ==
  /\ feed.pc # "apply" => Docs = {}
  /\ feed.pc \in {"apply", "save"} => token.own # None
  /\ OneEach(Docs)
  /\ \A d \in Docs : d.ver >= db[d.id]
  /\ \A d \in feed.docs : mem[d.id] >= d.ver

(* A listing is parsed before the feed is followed, and ends in a token.   *)
ListInv ==
  /\ feed.pc \in {"fetch", "apply", "save", "down"} => first.queue = {}
  /\ feed.pc \in {"list", "token"} => saved = None /\ token.own = None
  /\ OneEach(first.queue)
  /\ \A d \in first.queue : d.id \notin first.left

(* The token in memory is covered by the database and the page at hand.    *)
OwnCovers ==
  token.own # None /\ ~hist.lost => \A id \in Ids :
    \/ Put(db, first.queue)[id] >= Version(id, token.own)
    \/ \E d \in Docs : d.id = id /\ d.ver >= Version(id, token.own)

IInv == /\ TypeInv /\ FreshInv /\ PageInv /\ ListInv
        /\ OwnCovers /\ SavedCovers /\ MemoryFirst

-----------------------------------------------------------------------------
(* The greatest of some numbers up to n exists.                            *)
LEMMA MaxExists ==
  ASSUME NEW n \in Nat, NEW S \in SUBSET (0 .. n), S # {}
  PROVE  Max(S) \in S /\ \A y \in S : Max(S) >= y
<1> DEFINE T == {n - s : s \in S}
           R == OpToRel(<, Nat)
<1>1. PICK s0 \in S : TRUE
  OBVIOUS
<1>2. T \subseteq Nat /\ T # {}
  BY <1>1
<1>3. IsWellFoundedOn(R, Nat)
  BY NatLessThanWellFounded
<1>4. \A x, y \in Nat : y < x => <<y, x>> \in R
  BY Zenon DEF OpToRel
<1>5. \E x \in T : \A y \in T : ~ (<<y, x>> \in R)
  <2> HIDE DEF T, R
  <2> QED BY <1>2, <1>3, WFMin, Zenon
<1>6. \E x \in T : \A y \in T : ~ (y < x)
  <2> HIDE DEF T, R
  <2> QED BY <1>2, <1>4, <1>5
<1>7. PICK s \in S : \A y \in S : ~ (n - y < n - s)
  BY <1>6
<1>8. \E x \in S : \A y \in S : x >= y
  BY <1>7
<1> QED BY <1>8 DEF Max

(* Version, of any log l.                                                  *)
LastOf(l, id, n) == Max({0} \cup {k \in 1 .. n : l[k] = id})

LEMMA LastOfIs ==
  ASSUME NEW l \in Seq(Ids), NEW id, NEW n \in 0 .. Len(l)
  PROVE  /\ LastOf(l, id, n) \in 0 .. n
         /\ LastOf(l, id, n) = 0 \/ l[LastOf(l, id, n)] = id
         /\ \A k \in 1 .. n : l[k] = id => LastOf(l, id, n) >= k
<1> DEFINE S == {0} \cup {k \in 1 .. n : l[k] = id}
<1>1. n \in Nat /\ Len(l) \in Nat
  OBVIOUS
<1>2. S \in SUBSET (0 .. n) /\ S # {}
  BY <1>1
<1>3. Max(S) \in S /\ \A y \in S : Max(S) >= y
  <2> HIDE DEF S
  <2> QED BY <1>1, <1>2, MaxExists
<1>4. LastOf(l, id, n) = Max(S)
  BY DEF LastOf
<1>5. LastOf(l, id, n) \in S
  BY <1>3, <1>4
<1>6. \A k \in 1 .. n : l[k] = id => LastOf(l, id, n) >= k
  BY <1>3, <1>4
<1> QED BY <1>1, <1>5, <1>6

(* Versions go up with the log ...                                         *)
LEMMA LastOfGrows ==
  ASSUME NEW l \in Seq(Ids), NEW id, NEW n \in 0 .. Len(l), NEW m \in 0 .. n
  PROVE  LastOf(l, id, m) <= LastOf(l, id, n)
<1>1. Len(l) \in Nat /\ m \in 0 .. Len(l)
  OBVIOUS
<1>2. /\ LastOf(l, id, m) \in 0 .. m
      /\ LastOf(l, id, m) = 0 \/ l[LastOf(l, id, m)] = id
  BY <1>1, LastOfIs
<1>3. /\ LastOf(l, id, n) \in 0 .. n
      /\ \A k \in 1 .. n : l[k] = id => LastOf(l, id, n) >= k
  BY <1>1, LastOfIs
<1> QED BY <1>1, <1>2, <1>3

(* ... and a file that is not in a page has no version of the page.        *)
LEMMA LastOfStays ==
  ASSUME NEW l \in Seq(Ids), NEW id, NEW n \in 0 .. Len(l), NEW m \in 0 .. n,
         id \notin {l[k] : k \in (m + 1) .. n}
  PROVE  LastOf(l, id, n) = LastOf(l, id, m)
<1>1. \A k \in 1 .. n : l[k] = id => k \in 1 .. m
  OBVIOUS
<1>2. {k \in 1 .. n : l[k] = id} = {k \in 1 .. m : l[k] = id}
  BY <1>1
<1> QED BY <1>2 DEF LastOf

(* A change makes no other version of what was there, and the next of its  *)
(* file.                                                                   *)
LEMMA ChangeVersions ==
  ASSUME log \in Seq(Ids), NEW i \in Ids, log' = Append(log, i), NEW id \in Ids
  PROVE  /\ \A n \in 0 .. Len(log) : Version(id, n)' = Version(id, n)
         /\ Latest(id) \in Nat /\ Latest(id)' \in Nat /\ Latest(id) <= Latest(id)'
<1>1. \A n \in 0 .. Len(log) : LastOf(log', id, n) = LastOf(log, id, n)
  <2>1. TAKE n \in 0 .. Len(log)
  <2>2. \A k \in 1 .. n : log'[k] = log[k]
    OBVIOUS
  <2>3. {k \in 1 .. n : log'[k] = id} = {k \in 1 .. n : log[k] = id}
    BY <2>2
  <2> QED BY <2>3 DEF LastOf
<1>2. /\ log' \in Seq(Ids)
      /\ Len(log') \in 0 .. Len(log') /\ Len(log) \in 0 .. Len(log')
  OBVIOUS
<1>3. LastOf(log', id, Len(log)) <= LastOf(log', id, Len(log'))
  BY <1>2, LastOfGrows
<1>4. Latest(id) = LastOf(log, id, Len(log)) /\ Latest(id)' = LastOf(log', id, Len(log'))
  BY DEF Latest, Version, LastOf
<1>5. \A n \in 0 .. Len(log) : Version(id, n)' = LastOf(log', id, n)
  BY DEF Version, LastOf
<1>6. \A n \in 0 .. Len(log) : Version(id, n) = LastOf(log, id, n)
  BY DEF Version, LastOf
<1>7. Latest(id) \in Nat /\ Latest(id)' \in Nat
  <2>1. Len(log) \in 0 .. Len(log)
    OBVIOUS
  <2>2. LastOf(log, id, Len(log)) \in 0 .. Len(log)
    BY <2>1, LastOfIs
  <2>3. LastOf(log', id, Len(log')) \in 0 .. Len(log')
    BY <1>2, LastOfIs
  <2> QED BY <1>2, <1>4, <2>2, <2>3
<1> QED BY <1>1, <1>2, <1>3, <1>4, <1>5, <1>6, <1>7

LEMMA VersionIs ==
  ASSUME log \in Seq(Ids), NEW id \in Ids, NEW n \in 0 .. Len(log)
  PROVE  Version(id, n) \in 0 .. n /\ Version(id, n) <= Latest(id)
<1>1. LastOf(log, id, n) \in 0 .. n
  BY LastOfIs
<1>2. Len(log) \in 0 .. Len(log) /\ n \in 0 .. Len(log)
  OBVIOUS
<1>3. LastOf(log, id, n) <= LastOf(log, id, Len(log))
  BY <1>2, LastOfGrows
<1> QED BY <1>1, <1>3 DEF Version, Latest, LastOf

LEMMA PutIs ==
  ASSUME NEW docs, OneEach(docs), NEW map, NEW id \in Ids
  PROVE  /\ \A d \in docs : d.id = id => Put(map, docs)[id] = d.ver
         /\ (~ \E d \in docs : d.id = id) => Put(map, docs)[id] = map[id]
BY DEF OneEach, Put

LEMMA PutType ==
  ASSUME NEW V, NEW docs, \A d \in docs : d.ver \in V, NEW map \in [Ids -> V]
  PROVE  Put(map, docs) \in [Ids -> V]
BY DEF Put

-----------------------------------------------------------------------------
LEMMA InitInv == Init => IInv
<1> SUFFICES ASSUME Init PROVE IInv
  OBVIOUS
<1>1. Len(log) = 0 /\ log \in Seq(Ids)
  BY DEF Init
<1>2. TypeInv
  BY <1>1 DEF Init, TypeInv, TypeOK, Versions, Doc, Zero, NoToken, NoPage, Listing
<1>3. Docs = {} /\ first.queue = {}
  BY DEF Init, Docs, NoPage, Listing
<1>4. \A id \in Ids : Latest(id) = 0
  BY <1>1, VersionIs DEF Latest
<1>5. FreshInv
  BY <1>3, <1>4 DEF Init, FreshInv, Zero
<1>6. PageInv /\ ListInv /\ OwnCovers /\ SavedCovers /\ MemoryFirst
  BY <1>3 DEF Init, PageInv, ListInv, OwnCovers, SavedCovers, MemoryFirst,
              OneEach, NoPage, NoToken, Listing
<1> QED BY <1>2, <1>5, <1>6 DEF IInv

(* The server's log only grows.                                            *)
LEMMA ChangeStep ==
  ASSUME IInv, NEW i \in Ids, Change(i)
  PROVE  IInv'
<1> USE DEF IInv
<1>1. /\ log \in Seq(Ids) /\ log' \in Seq(Ids) /\ log' = Append(log, i)
      /\ Len(log) \in Nat /\ Len(log') = Len(log) + 1
      /\ UNCHANGED <<db, saved, mem, token, feed, first, hist>>
  BY DEF Change, TypeInv, TypeOK
<1>2. Versions \subseteq Versions' /\ Doc \subseteq Doc'
  BY <1>1 DEF Versions, Doc
<1>3. \A id \in Ids :
        /\ \A n \in 0 .. Len(log) : Version(id, n)' = Version(id, n)
        /\ Latest(id) \in Nat /\ Latest(id)' \in Nat /\ Latest(id) <= Latest(id)'
  BY <1>1, ChangeVersions
<1>4. TypeInv'
  BY <1>1, <1>2 DEF TypeInv, TypeOK
<1>5. /\ \A id \in Ids : db[id] \in Int /\ mem[id] \in Int
      /\ \A d \in Docs \cup first.queue : d.id \in Ids /\ d.ver \in Int
  BY <1>1 DEF TypeInv, TypeOK, Docs, Doc, Versions
<1>6. FreshInv'
  <2>1. \A id \in Ids : db[id] <= Latest(id)' /\ mem[id] <= Latest(id)'
    BY <1>3, <1>5 DEF FreshInv
  <2>2. \A d \in Docs \cup first.queue : d.ver <= Latest(d.id)'
    BY <1>3, <1>5 DEF FreshInv
  <2> QED BY <1>1, <2>1, <2>2 DEF FreshInv, Docs
<1>7. PageInv' /\ ListInv'
  BY <1>1 DEF PageInv, ListInv, Docs, OneEach
<1>8. OwnCovers'
  <2>1. token.own # None => token.own \in 0 .. Len(log)
    BY DEF TypeInv, TypeOK, Versions
  <2>2. token.own # None => \A id \in Ids :
          Version(id, token.own)' = Version(id, token.own)
    BY <1>1, <1>3, <2>1
  <2>3. Docs' = Docs
    BY <1>1 DEF Docs
  <2> QED BY <1>1, <2>2, <2>3 DEF OwnCovers
<1>9. SavedCovers' /\ MemoryFirst'
  BY <1>1, <1>3 DEF SavedCovers, MemoryFirst, TypeInv, TypeOK, Versions
<1> QED BY <1>4, <1>6, <1>7, <1>8, <1>9

(* What the types say, once and for all.                                   *)
LEMMA Typed ==
  ASSUME TypeInv
  PROVE  /\ log \in Seq(Ids) /\ Len(log) \in Nat /\ Len(log) \in Versions
         /\ \A id \in Ids : /\ db[id] \in Int /\ mem[id] \in Int
                            /\ Latest(id) \in Versions /\ Latest(id) \in Int
         /\ \A d \in Docs \cup first.queue :
              d.id \in Ids /\ d.ver \in Versions /\ d.ver \in Int
         /\ \A n \in Versions, id \in Ids : Version(id, n) \in Int
         /\ 0 \in Versions
<1>1. log \in Seq(Ids) /\ Len(log) \in Nat /\ Len(log) \in Versions
  BY DEF TypeInv, TypeOK, Versions
<1>2. \A id \in Ids : db[id] \in Int /\ mem[id] \in Int
  BY <1>1 DEF TypeInv, TypeOK, Versions
<1>3. \A d \in Docs \cup first.queue :
        d.id \in Ids /\ d.ver \in Versions /\ d.ver \in Int
  BY <1>1 DEF TypeInv, Docs, Doc, Versions
<1>4. \A n \in Versions, id \in Ids : Version(id, n) \in 0 .. n
  BY <1>1, VersionIs DEF Versions
<1>5. \A n \in Versions : n \in Nat /\ n <= Len(log)
  BY <1>1 DEF Versions
<1>6. \A id \in Ids : Latest(id) \in Versions /\ Latest(id) \in Int
  BY <1>1, <1>4 DEF Latest, Versions
<1> QED BY <1>1, <1>2, <1>3, <1>4, <1>5, <1>6 DEF Versions

LEMMA ListPageStep ==
  ASSUME IInv, NEW i \in Ids, ListPage(i)
  PROVE  IInv'
<1> USE DEF IInv
<1> DEFINE new == [id |-> i, ver |-> Latest(i)]
<1>1. /\ feed.pc = "list" /\ i \in first.left
      /\ first' = [left |-> first.left \ {i}, queue |-> first.queue \cup {new}]
      /\ feed' = [feed EXCEPT !.pc = IF first'.left = {} THEN "token" ELSE "list"]
      /\ UNCHANGED <<log, db, saved, mem, token, hist>>
  BY DEF ListPage
<1>2. /\ feed'.pc \in {"list", "token"} /\ feed'.todo = feed.todo
      /\ feed'.docs = feed.docs /\ Docs' = Docs /\ Docs = {}
      /\ first'.left = first.left \ {i} /\ first'.queue = first.queue \cup {new}
      /\ new.id = i /\ new.ver = Latest(i)
  BY <1>1 DEF TypeInv, Docs, PageInv
<1>3. new \in Doc /\ Versions' = Versions /\ Doc' = Doc
  BY <1>1, Typed DEF Doc, Versions
<1>4. TypeInv'
  BY <1>1, <1>2, <1>3 DEF TypeInv, TypeOK
<1>5. \A id \in Ids : Latest(id)' = Latest(id)
  BY <1>1 DEF Latest, Version
<1>6. FreshInv'
  <2>1. \A d \in Docs' \cup first'.queue : d.id \in Ids /\ d.ver <= Latest(d.id)
    BY <1>2, Typed DEF FreshInv
  <2> QED BY <1>1, <1>5, <2>1 DEF FreshInv
<1>7. PageInv'
  BY <1>1, <1>2 DEF PageInv, OneEach
<1>8. ListInv'
  BY <1>1, <1>2 DEF ListInv, OneEach
<1>9. OwnCovers' /\ SavedCovers' /\ MemoryFirst'
  BY <1>1, <1>2 DEF OwnCovers, SavedCovers, MemoryFirst, ListInv
<1> QED BY <1>4, <1>6, <1>7, <1>8, <1>9

(* Parsing a document moves it from the queue to the database.             *)
LEMMA ParseStep ==
  ASSUME IInv, NEW d \in first.queue, Parse(d)
  PROVE  IInv'
<1> USE DEF IInv
<1>1. /\ db' = Put(db, {d}) /\ first' = [first EXCEPT !.queue = @ \ {d}]
      /\ UNCHANGED <<log, saved, mem, token, feed, hist>>
  BY DEF Parse
<1>2. first'.left = first.left /\ first'.queue = first.queue \ {d} /\ Docs' = Docs
  BY <1>1 DEF TypeInv, Docs
<1>3. Versions' = Versions /\ Doc' = Doc /\ d.id \in Ids /\ d.ver \in Versions
  BY <1>1, Typed DEF Doc, Versions
<1>4. db' \in [Ids -> Versions]
  BY <1>1, <1>3, PutType DEF TypeInv, TypeOK
<1>5. TypeInv'
  BY <1>1, <1>2, <1>3, <1>4 DEF TypeInv, TypeOK
<1>6. \A id \in Ids : db'[id] = IF id = d.id THEN d.ver ELSE db[id]
  <2>1. OneEach({d})
    BY DEF OneEach
  <2>2. TAKE id \in Ids
  <2>3. CASE id = d.id
    BY <1>1, <2>1, <2>3, PutIs
  <2>4. CASE id # d.id
    BY <1>1, <2>1, <2>4, PutIs
  <2> QED BY <2>3, <2>4
<1>7. \A id \in Ids : Put(db', first'.queue)[id] = Put(db, first.queue)[id]
  <2>1. OneEach(first.queue) /\ OneEach(first'.queue)
    BY <1>2 DEF ListInv, OneEach
  <2>2. TAKE id \in Ids
  <2>3. CASE id = d.id
    <3>1. ~ \E e \in first'.queue : e.id = id
      BY <1>2, <2>1, <2>3 DEF OneEach
    <3>2. Put(db', first'.queue)[id] = db'[id]
      BY <2>1, <3>1, PutIs
    <3>3. Put(db, first.queue)[id] = d.ver
      BY <2>1, <2>3, PutIs
    <3> QED BY <1>6, <2>3, <3>2, <3>3
  <2>4. CASE id # d.id /\ \E e \in first.queue : e.id = id
    <3>1. PICK e \in first.queue : e.id = id
      BY <2>4
    <3>2. e \in first'.queue
      BY <1>2, <2>4, <3>1
    <3> QED BY <2>1, <3>1, <3>2, PutIs
  <2>5. CASE id # d.id /\ ~ \E e \in first.queue : e.id = id
    <3>1. ~ \E e \in first'.queue : e.id = id
      BY <1>2, <2>5
    <3> QED BY <1>6, <2>1, <2>5, <3>1, PutIs
  <2> QED BY <2>3, <2>4, <2>5
<1>8. \A id \in Ids : /\ Latest(id)' = Latest(id)
                      /\ \A n : Version(id, n)' = Version(id, n)
  BY <1>1 DEF Latest, Version
<1>9. FreshInv'
  <2>1. \A id \in Ids : db'[id] <= Latest(id)
    BY <1>6 DEF FreshInv
  <2>2. \A e \in Docs' \cup first'.queue : e.id \in Ids /\ e.ver <= Latest(e.id)
    BY <1>2, Typed DEF FreshInv
  <2> QED BY <1>1, <1>8, <2>1, <2>2 DEF FreshInv
<1>10. feed.pc \in {"list", "token", "join"}
  BY DEF ListInv, TypeInv
<1>11. PageInv'
  BY <1>1, <1>2, <1>10 DEF PageInv
<1>12. ListInv'
  BY <1>1, <1>2, <1>10 DEF ListInv, OneEach
<1>13. OwnCovers'
  <2>1. \A id \in Ids : Version(id, token.own)' = Version(id, token.own)
    BY <1>1 DEF Version
  <2> QED BY <1>1, <1>2, <1>7, <2>1, ZenonT(60) DEF OwnCovers
<1>14. SavedCovers' /\ MemoryFirst'
  BY <1>1, <1>7, <1>8, <1>10 DEF SavedCovers, MemoryFirst
<1> QED BY <1>5, <1>9, <1>11, <1>12, <1>13, <1>14

(* The listing ends in a token, or something in it is out of date.         *)
LEMMA ListTokenStep ==
  ASSUME IInv, ListToken
  PROVE  IInv'
<1> USE DEF IInv
<1>1. /\ feed.pc = "token" /\ saved' = Len(log) /\ feed' = NoPage("join")
      /\ token' = [token EXCEPT !.root = Len(log)]
      /\ hist' = [hist EXCEPT !.lost = \E id \in Ids :
                    Put(db, first.queue)[id] # Latest(id)]
      /\ UNCHANGED <<log, db, mem, first>>
  BY DEF ListToken
<1>2. /\ token'.own = token.own /\ token.own = None
      /\ feed'.pc = "join" /\ Docs' = {} /\ feed'.docs = {}
  BY <1>1 DEF TypeInv, TypeOK, ListInv, Docs, NoPage
<1>3. hist'.lost = \E id \in Ids : Put(db, first.queue)[id] # Latest(id)
  BY <1>1 DEF TypeInv
<1>4. Versions' = Versions /\ Doc' = Doc /\ Len(log) \in Versions
  BY <1>1, Typed DEF Doc, Versions
<1>5. TypeInv'
  <2>1. hist' \in [crashes : Nat, again : BOOLEAN, lost : BOOLEAN]
    BY <1>1 DEF TypeInv
  <2>2. token' \in [own : Versions \cup {None}, root : Versions \cup {None}]
    BY <1>1, <1>4 DEF TypeInv, TypeOK
  <2>3. feed' \in [pc : {"list", "token", "join", "fetch", "apply", "save", "down"},
                   todo : SUBSET Doc, docs : SUBSET Doc]
    BY <1>1 DEF NoPage
  <2> QED BY <1>1, <1>4, <2>1, <2>2, <2>3 DEF TypeInv, TypeOK, NoPage
<1>6. \A id \in Ids : Latest(id)' = Latest(id)
  BY <1>1 DEF Latest, Version
<1>7. FreshInv'
  BY <1>1, <1>2, <1>6, Typed DEF FreshInv
<1>8. PageInv' /\ ListInv'
  BY <1>1, <1>2 DEF PageInv, ListInv, OneEach
<1>9. SavedCovers'
  <2>1. ~hist'.lost => \A id \in Ids : Put(db, first.queue)[id] = Latest(id)
    BY <1>3
  <2>2. \A id \in Ids : Version(id, saved)' = Latest(id)
    BY <1>1 DEF Latest, Version
  <2> QED BY <1>1, <2>1, <2>2, Typed DEF SavedCovers
<1>10. OwnCovers' /\ MemoryFirst'
  BY <1>1, <1>2 DEF OwnCovers, MemoryFirst
<1> QED BY <1>5, <1>7, <1>8, <1>9, <1>10

(* The objects are made from the documents.                                *)
LEMMA LoadStep ==
  ASSUME IInv, Load
  PROVE  IInv'
<1> USE DEF IInv
<1>1. /\ feed.pc = "join" /\ first.queue = {} /\ mem' = db
      /\ feed' = NoPage("fetch")
      /\ UNCHANGED <<log, db, saved, token, first, hist>>
  BY DEF Load
<1>2. /\ feed'.pc = "fetch" /\ feed'.docs = {} /\ Docs' = {} /\ Docs = {}
  BY <1>1 DEF NoPage, PageInv, Docs
<1>3. TypeInv'
  BY <1>1 DEF TypeInv, TypeOK, NoPage, Versions, Doc
<1>4. \A id \in Ids : /\ Latest(id)' = Latest(id)
                      /\ Version(id, token.own)' = Version(id, token.own)
                      /\ Version(id, saved)' = Version(id, saved)
  BY <1>1 DEF Latest, Version
<1>5. FreshInv'
  BY <1>1, <1>2, <1>4 DEF FreshInv
<1>6. PageInv' /\ ListInv'
  BY <1>1, <1>2 DEF PageInv, ListInv, OneEach
<1>7. OwnCovers' /\ SavedCovers'
  BY <1>1, <1>2, <1>4 DEF OwnCovers, SavedCovers
<1>8. MemoryFirst'
  BY <1>1, Typed DEF MemoryFirst
<1> QED BY <1>3, <1>5, <1>6, <1>7, <1>8

LEMMA MinOfTwo ==
  ASSUME NEW a \in Int, NEW b \in Int
  PROVE  Min({a, b}) = IF a <= b THEN a ELSE b
<1>1. \E x \in {a, b} : \A y \in {a, b} : x =< y
  OBVIOUS
<1>2. Min({a, b}) \in {a, b} /\ \A y \in {a, b} : Min({a, b}) =< y
  BY <1>1 DEF Min
<1> QED BY <1>2

(* A page covers the files between its tokens.                             *)
LEMMA FetchStep ==
  ASSUME IInv, Fetch
  PROVE  IInv'
<1> USE DEF IInv
<1> DEFINE end == Min({token.own + PageSize, Len(log)})
           changed == {log[k] : k \in token.own + 1 .. end}
           page == {[id |-> id, ver |-> Latest(id)] : id \in changed}
<1>1. /\ feed.pc = "fetch" /\ token.own # None /\ token.own < Len(log)
      /\ token' = [token EXCEPT !.own = end]
      /\ feed' = [pc |-> "apply", docs |-> {}, todo |-> page]
      /\ UNCHANGED <<log, db, saved, mem, first, hist>>
  BY DEF Fetch
<1>2. token.own \in Nat /\ Len(log) \in Nat /\ PageSize \in Nat \ {0} /\ token.own \in Versions
  BY <1>1, Typed, ChangeFeedAssumption DEF TypeInv, TypeOK, Versions
<1>3. end \in 0 .. Len(log) /\ token.own \in 0 .. end
  <2>1. end = IF token.own + PageSize <= Len(log) THEN token.own + PageSize ELSE Len(log)
    BY <1>2, MinOfTwo
  <2> QED BY <1>1, <1>2, <2>1
<1> HIDE DEF end
<1>4. changed \subseteq Ids
  <2>1. \A k \in token.own + 1 .. end : k \in 1 .. Len(log)
    BY <1>2, <1>3
  <2>2. \A k \in 1 .. Len(log) : log[k] \in Ids
    BY Typed
  <2> QED BY <2>1, <2>2
<1>5. page \subseteq Doc
  BY <1>4, Typed DEF Doc
<1>6. /\ token'.own = end /\ feed'.pc = "apply" /\ feed'.docs = {}
      /\ Docs' = page /\ Docs = {} /\ first.queue = {} /\ end # None
  BY <1>1, <1>2, <1>3 DEF TypeInv, TypeOK, Docs, PageInv, ListInv, None
<1>7. Versions' = Versions /\ Doc' = Doc /\ end \in Versions
  BY <1>1, <1>3 DEF Doc, Versions
<1>8. TypeInv'
  <2>1. token' \in [own : Versions \cup {None}, root : Versions \cup {None}]
    BY <1>1, <1>7 DEF TypeInv, TypeOK
  <2> QED BY <1>1, <1>5, <1>7, <2>1 DEF TypeInv, TypeOK
<1>9. \A id \in Ids : /\ Latest(id)' = Latest(id)
                      /\ Version(id, token.own)' = Version(id, end)
                      /\ Version(id, saved)' = Version(id, saved)
  BY <1>1, <1>6 DEF Latest, Version
<1>10. \A d \in page : d.id \in changed /\ d.id \in Ids /\ d.ver = Latest(d.id)
  BY <1>4
<1>11. FreshInv'
  BY <1>1, <1>6, <1>9, <1>10, Typed DEF FreshInv
<1>12. PageInv'
  <2>1. OneEach(page)
    BY DEF OneEach
  <2>2. \A d \in page : d.ver >= db[d.id]
    BY <1>10, Typed DEF FreshInv
  <2> QED BY <1>1, <1>6, <2>1, <2>2 DEF PageInv
<1>13. ListInv'
  BY <1>1, <1>6 DEF ListInv
<1>14. OwnCovers'
  <2> SUFFICES ASSUME ~hist.lost, NEW id \in Ids
               PROVE  \/ Put(db, first.queue)[id] >= Version(id, end)
                      \/ \E d \in page : d.id = id /\ d.ver >= Version(id, end)
    BY <1>1, <1>6, <1>9 DEF OwnCovers
  <2>1. CASE id \in changed
    <3>1. /\ Version(id, end) <= Latest(id)
          /\ Version(id, end) \in Int /\ Latest(id) \in Int
      BY <1>3, <1>7, Typed, VersionIs
    <3>2. [id |-> id, ver |-> Latest(id)] \in page
      BY <2>1
    <3> QED BY <3>1, <3>2
  <2>2. CASE id \notin changed
    <3>1. LastOf(log, id, end) = LastOf(log, id, token.own)
      BY <1>3, <2>2, Typed, LastOfStays
    <3>2. Version(id, end) = Version(id, token.own)
      BY <3>1 DEF Version, LastOf
    <3> QED BY <1>1, <1>6, <3>2 DEF OwnCovers
  <2> QED BY <2>1, <2>2
<1>15. SavedCovers' /\ MemoryFirst'
  BY <1>1, <1>6, <1>9 DEF SavedCovers, MemoryFirst
<1> QED BY <1>8, <1>11, <1>12, <1>13, <1>14, <1>15

(* One change goes to memory.                                              *)
LEMMA ApplyStep ==
  ASSUME IInv, NEW d \in feed.todo, Apply(d)
  PROVE  IInv'
<1> USE DEF IInv
<1>1. /\ feed.pc = "apply" /\ d \in feed.todo /\ mem' = Put(mem, {d})
      /\ feed' = [feed EXCEPT !.todo = @ \ {d}, !.docs = @ \cup {d}]
      /\ UNCHANGED <<log, db, saved, token, first, hist>>
  BY DEF Apply
<1>2. /\ feed'.pc = "apply" /\ feed'.todo = feed.todo \ {d}
      /\ feed'.docs = feed.docs \cup {d} /\ Docs' = Docs /\ d \in Docs
  BY <1>1 DEF TypeInv, Docs
<1>3. d.id \in Ids /\ d.ver \in Versions /\ d.ver \in Int
  BY <1>2, Typed
<1>4. Versions' = Versions /\ Doc' = Doc
  BY <1>1 DEF Doc, Versions
<1>5. \A id \in Ids : mem'[id] = IF id = d.id THEN d.ver ELSE mem[id]
  <2>1. OneEach({d})
    BY DEF OneEach
  <2>2. TAKE id \in Ids
  <2>3. CASE id = d.id
    BY <1>1, <2>1, <2>3, PutIs
  <2>4. CASE id # d.id
    BY <1>1, <2>1, <2>4, PutIs
  <2> QED BY <2>3, <2>4
<1>6. TypeInv'
  <2>1. mem' \in [Ids -> Versions]
    BY <1>1, <1>3, PutType DEF TypeInv, TypeOK
  <2>2. feed' \in [pc : {"list", "token", "join", "fetch", "apply", "save", "down"},
                   todo : SUBSET Doc, docs : SUBSET Doc]
    BY <1>1 DEF TypeInv
  <2> QED BY <1>1, <1>4, <2>1, <2>2 DEF TypeInv, TypeOK
<1>7. \A id \in Ids : /\ Latest(id)' = Latest(id)
                      /\ Version(id, token.own)' = Version(id, token.own)
                      /\ Version(id, saved)' = Version(id, saved)
  BY <1>1 DEF Latest, Version
<1>8. FreshInv'
  <2>1. \A id \in Ids : mem'[id] <= Latest(id)
    BY <1>2, <1>5 DEF FreshInv
  <2>2. \A e \in Docs \cup first.queue : e.id \in Ids /\ e.ver <= Latest(e.id)
    BY Typed DEF FreshInv
  <2> QED BY <1>1, <1>2, <1>7, <2>1, <2>2 DEF FreshInv
<1>9. PageInv'
  <2>1. \A e \in feed'.docs : mem'[e.id] >= e.ver
    <3>1. TAKE e \in feed'.docs
    <3>2. e \in Docs /\ e.id \in Ids /\ e.ver \in Int
      BY <1>2, Typed DEF Docs
    <3>3. CASE e.id = d.id
      BY <1>2, <1>3, <1>5, <3>2, <3>3 DEF PageInv, OneEach
    <3>4. CASE e.id # d.id
      BY <1>2, <1>5, <3>2, <3>4 DEF PageInv
    <3> QED BY <3>3, <3>4
  <2> QED BY <1>1, <1>2, <2>1 DEF PageInv
<1>10. ListInv'
  BY <1>1, <1>2 DEF ListInv
<1>11. OwnCovers' /\ SavedCovers'
  BY <1>1, <1>2, <1>7 DEF OwnCovers, SavedCovers
<1>12. MemoryFirst'
  <2>1. d.ver >= db[d.id]
    BY <1>2 DEF PageInv
  <2>2. \A id \in Ids : mem'[id] >= db[id]
    BY <1>1, <1>5, <2>1 DEF MemoryFirst
  <2> QED BY <1>1, <2>2 DEF MemoryFirst
<1> QED BY <1>6, <1>8, <1>9, <1>10, <1>11, <1>12

(* What writing documents of the page does to the database.                *)
LEMMA WrittenPage ==
  ASSUME IInv, NEW docs \in SUBSET feed.docs, db' = Put(db, docs)
  PROVE  /\ db' \in [Ids -> Versions]
         /\ \A id \in Ids : /\ db'[id] \in Int /\ db[id] <= db'[id]
                            /\ db'[id] = db[id] \/ db'[id] <= mem[id]
                            /\ db'[id] <= Latest(id)
         /\ \A d \in docs : db'[d.id] = d.ver
<1> USE DEF IInv
<1>1. docs \subseteq Docs /\ OneEach(docs)
  BY DEF Docs, PageInv, OneEach
<1>2. db' \in [Ids -> Versions]
  BY <1>1, Typed, PutType DEF TypeInv, TypeOK
<1>3. \A id \in Ids : /\ (\E d \in docs : d.id = id /\ db'[id] = d.ver)
                         \/ db'[id] = db[id]
  BY <1>1, PutIs
<1>4. \A d \in docs : /\ d.id \in Ids /\ d.ver \in Int /\ d.ver >= db[d.id]
                      /\ mem[d.id] >= d.ver /\ d.ver <= Latest(d.id)
                      /\ db'[d.id] = d.ver
  <2>1. TAKE d \in docs
  <2>2. d \in Docs /\ d.id \in Ids /\ d.ver \in Int
    BY <1>1, Typed
  <2>3. d.ver >= db[d.id] /\ mem[d.id] >= d.ver /\ d.ver <= Latest(d.id)
    BY <2>2 DEF PageInv, FreshInv
  <2>4. db'[d.id] = d.ver
    BY <1>1, <2>2, PutIs
  <2> QED BY <2>2, <2>3, <2>4
<1>5. \A id \in Ids : db[id] \in Int /\ mem[id] \in Int /\ db[id] <= Latest(id)
  BY Typed DEF FreshInv
<1>6. \A id \in Ids : db'[id] \in Int
  BY <1>2, Typed DEF Versions
<1> QED BY <1>2, <1>3, <1>4, <1>5, <1>6

(* A document goes to the database when all of them are in memory.         *)
LEMMA WriteStep ==
  ASSUME IInv, NEW d \in feed.docs, Write(d)
  PROVE  IInv'
<1> USE DEF IInv
<1>1. /\ feed.pc = "apply" /\ feed.todo = {} /\ db' = Put(db, {d})
      /\ feed' = [feed EXCEPT !.docs = @ \ {d}]
      /\ UNCHANGED <<log, saved, mem, token, first, hist>>
  BY DEF Write
<1>2. /\ feed'.pc = "apply" /\ feed'.todo = {} /\ feed'.docs = feed.docs \ {d}
      /\ Docs = feed.docs /\ Docs' = feed.docs \ {d}
      /\ feed.docs \subseteq Doc /\ feed'.docs \subseteq Doc
      /\ first.queue = {} /\ first'.queue = {}
  BY <1>1 DEF Docs, ListInv, TypeInv, TypeOK
<1>3. /\ db' \in [Ids -> Versions]
      /\ \A id \in Ids : /\ db'[id] \in Int /\ db[id] <= db'[id]
                         /\ db'[id] = db[id] \/ db'[id] <= mem[id]
                         /\ db'[id] <= Latest(id)
      /\ db'[d.id] = d.ver
  BY <1>1, WrittenPage
<1>4. TypeInv'
  BY <1>1, <1>2, <1>3 DEF TypeInv, TypeOK, Versions, Doc
<1>5. \A id \in Ids : /\ Latest(id)' = Latest(id)
                      /\ Version(id, token.own)' = Version(id, token.own)
                      /\ Version(id, saved)' = Version(id, saved)
  BY <1>1 DEF Latest, Version
<1>6. FreshInv'
  <2>1. \A id \in Ids : mem'[id] = mem[id] /\ db'[id] <= Latest(id)'
    BY <1>1, <1>3, <1>5
  <2>2. \A e \in Docs' \cup first'.queue :
           e \in Docs /\ e.id \in Ids /\ Latest(e.id)' = Latest(e.id)
    BY <1>2, <1>5, Typed
  <2> QED BY <1>5, <2>1, <2>2 DEF FreshInv
<1>7. \A e \in feed.docs \ {d} : e.id # d.id /\ db'[e.id] = db[e.id]
  <2>1. TAKE e \in feed.docs \ {d}
  <2>2. e.id \in Ids /\ e.id # d.id
    BY <1>2, Typed DEF PageInv, OneEach
  <2>3. OneEach({d}) /\ ~ \E x \in {d} : x.id = e.id
    BY <2>2 DEF OneEach
  <2> QED BY <1>1, <2>2, <2>3, PutIs
<1>8. PageInv' /\ ListInv'
  <2>1. \A e \in feed.docs \ {d} : e.ver >= db'[e.id] /\ mem'[e.id] >= e.ver
    BY <1>1, <1>2, <1>7 DEF PageInv
  <2>2. OneEach(feed.docs \ {d})
    BY <1>2 DEF PageInv, OneEach
  <2> QED BY <1>1, <1>2, <2>1, <2>2 DEF PageInv, ListInv
<1>9. \A id \in Ids : Put(db, {})[id] = db[id] /\ Put(db', {})[id] = db'[id]
  BY PutIs DEF OneEach
<1>10. OwnCovers'
  <2>1. ASSUME token.own # None, ~hist.lost, NEW id \in Ids
        PROVE  \/ db'[id] >= Version(id, token.own)
               \/ \E e \in Docs' : e.id = id /\ e.ver >= Version(id, token.own)
    <3>1. token.own \in Versions /\ Version(id, token.own) \in Int
      BY <2>1, Typed DEF TypeInv, TypeOK
    <3>2. CASE db[id] >= Version(id, token.own)
      BY <1>3, <3>1, <3>2, Typed
    <3>3. CASE \E e \in Docs : e.id = id /\ e.ver >= Version(id, token.own)
      BY <1>2, <1>3, <3>3
    <3> QED BY <1>2, <1>9, <2>1, <3>2, <3>3 DEF OwnCovers
  <2>2. token'.own = token.own /\ hist'.lost = hist.lost
    BY <1>1
  <2>3. \A id \in Ids : Put(db', first'.queue)[id] = db'[id]
    BY <1>2, <1>9
  <2> QED BY <1>5, <2>1, <2>2, <2>3 DEF OwnCovers
<1>11. SavedCovers'
  <2> SUFFICES ASSUME saved # None, ~hist.lost, NEW id \in Ids
               PROVE  db'[id] >= Version(id, saved)
    BY <1>1, <1>2, <1>5, <1>9 DEF SavedCovers
  <2>1. saved \in Versions /\ Version(id, saved) \in Int
    BY Typed DEF TypeInv, TypeOK
  <2>2. db[id] >= Version(id, saved)
    BY <1>2, <1>9 DEF SavedCovers
  <2> QED BY <1>3, <2>1, <2>2, Typed
<1>12. MemoryFirst'
  BY <1>1, <1>3, Typed DEF MemoryFirst
<1> QED BY <1>4, <1>6, <1>8, <1>10, <1>11, <1>12

(* The page is over when every document of it is in the database.          *)
LEMMA WroteStep ==
  ASSUME IInv, Wrote
  PROVE  IInv'
<1> USE DEF IInv
<1>1. /\ feed.pc = "apply" /\ feed.todo = {} /\ feed.docs = {}
      /\ feed' = NoPage("save")
      /\ UNCHANGED <<log, db, saved, mem, token, first, hist>>
  BY DEF Wrote
<1>2. /\ feed'.pc = "save" /\ Docs' = {} /\ feed'.docs = {} /\ Docs = {}
      /\ first.queue = {} /\ token.own # None
  BY <1>1 DEF NoPage, Docs, PageInv, ListInv
<1>3. TypeInv'
  BY <1>1 DEF TypeInv, TypeOK, NoPage, Versions, Doc
<1>4. \A id \in Ids : /\ Latest(id)' = Latest(id)
                      /\ Version(id, token.own)' = Version(id, token.own)
                      /\ Version(id, saved)' = Version(id, saved)
  BY <1>1 DEF Latest, Version
<1>5. FreshInv'
  BY <1>1, <1>2, <1>4 DEF FreshInv
<1>6. PageInv' /\ ListInv'
  BY <1>1, <1>2 DEF PageInv, ListInv, OneEach
<1>7. OwnCovers' /\ SavedCovers'
  BY <1>1, <1>2, <1>4 DEF OwnCovers, SavedCovers
<1>8. MemoryFirst'
  BY <1>1 DEF MemoryFirst
<1> QED BY <1>3, <1>5, <1>6, <1>7, <1>8

(* The token goes to the settings when all it covers is in the database.   *)
LEMMA SaveTokenStep ==
  ASSUME IInv, SaveToken
  PROVE  IInv'
<1> USE DEF IInv
<1>1. /\ feed.pc = "save" /\ saved' = token.own /\ feed' = NoPage("fetch")
      /\ UNCHANGED <<log, db, mem, token, first, hist>>
  BY DEF SaveToken
<1>2. /\ feed'.pc = "fetch" /\ Docs' = {} /\ feed'.docs = {} /\ Docs = {}
      /\ first.queue = {} /\ token.own # None
  BY <1>1 DEF NoPage, Docs, PageInv, ListInv
<1>3. TypeInv'
  BY <1>1 DEF TypeInv, TypeOK, NoPage, Versions, Doc
<1>4. \A id \in Ids : /\ Latest(id)' = Latest(id)
                      /\ Version(id, token.own)' = Version(id, token.own)
                      /\ Version(id, saved)' = Version(id, token.own)
  BY <1>1 DEF Latest, Version
<1>5. FreshInv'
  BY <1>1, <1>2, <1>4 DEF FreshInv
<1>6. PageInv' /\ ListInv'
  BY <1>1, <1>2 DEF PageInv, ListInv, OneEach
<1>7. OwnCovers' /\ SavedCovers'
  BY <1>1, <1>2, <1>4 DEF OwnCovers, SavedCovers
<1>8. MemoryFirst'
  BY <1>1 DEF MemoryFirst
<1> QED BY <1>3, <1>5, <1>6, <1>7, <1>8

(* A page is lost: nothing is promised of the tokens any more.             *)
LEMMA ApplyThrowsStep ==
  ASSUME IInv, ApplyThrows
  PROVE  IInv'
<1> USE DEF IInv
<1>1. /\ feed.pc = "apply" /\ feed' = NoPage("fetch")
      /\ hist' = [hist EXCEPT !.lost = TRUE]
      /\ UNCHANGED <<log, db, saved, mem, token, first>>
  BY DEF ApplyThrows
<1>2. /\ feed'.pc = "fetch" /\ Docs' = {} /\ feed'.docs = {}
      /\ first.queue = {} /\ hist'.lost
  BY <1>1 DEF NoPage, Docs, ListInv, TypeInv
<1>3. TypeInv'
  BY <1>1 DEF TypeInv, TypeOK, NoPage, Versions, Doc
<1>4. \A id \in Ids : Latest(id)' = Latest(id)
  BY <1>1 DEF Latest, Version
<1>5. FreshInv'
  BY <1>1, <1>2, <1>4 DEF FreshInv
<1>6. PageInv' /\ ListInv'
  BY <1>1, <1>2 DEF PageInv, ListInv, OneEach
<1>7. OwnCovers' /\ SavedCovers'
  BY <1>2 DEF OwnCovers, SavedCovers
<1>8. MemoryFirst'
  BY <1>1 DEF MemoryFirst
<1> QED BY <1>3, <1>5, <1>6, <1>7, <1>8

(* The rest of a page is lost.                                             *)
LEMMA WriteThrowsStep ==
  ASSUME IInv, WriteThrows
  PROVE  IInv'
<1> USE DEF IInv
<1>1. /\ feed.pc = "apply" /\ feed' = NoPage("fetch")
      /\ hist' = [hist EXCEPT !.lost = TRUE]
      /\ UNCHANGED <<log, db, saved, mem, token, first>>
  BY DEF WriteThrows
<1>2. /\ feed'.pc = "fetch" /\ Docs' = {} /\ feed'.docs = {}
      /\ first.queue = {} /\ hist'.lost
  BY <1>1 DEF NoPage, Docs, ListInv, TypeInv
<1>3. TypeInv'
  BY <1>1 DEF TypeInv, TypeOK, NoPage, Versions, Doc
<1>4. \A id \in Ids : Latest(id)' = Latest(id)
  BY <1>1 DEF Latest, Version
<1>5. FreshInv'
  BY <1>1, <1>2, <1>4 DEF FreshInv
<1>6. PageInv' /\ ListInv'
  BY <1>1, <1>2 DEF PageInv, ListInv, OneEach
<1>7. OwnCovers' /\ SavedCovers'
  BY <1>2 DEF OwnCovers, SavedCovers
<1>8. MemoryFirst'
  BY <1>1 DEF MemoryFirst
<1> QED BY <1>3, <1>5, <1>6, <1>7, <1>8

(* The token is not saved: the next page's is.                             *)
LEMMA SaveThrowsStep ==
  ASSUME IInv, SaveThrows
  PROVE  IInv'
<1> USE DEF IInv
<1>1. /\ feed.pc = "save" /\ feed' = NoPage("fetch")
      /\ UNCHANGED <<log, db, saved, mem, token, first, hist>>
  BY DEF SaveThrows
<1>2. /\ feed'.pc = "fetch" /\ Docs' = {} /\ feed'.docs = {} /\ Docs = {}
      /\ first.queue = {}
  BY <1>1 DEF NoPage, Docs, PageInv, ListInv
<1>3. TypeInv'
  BY <1>1 DEF TypeInv, TypeOK, NoPage, Versions, Doc
<1>4. \A id \in Ids : /\ Latest(id)' = Latest(id)
                      /\ Version(id, token.own)' = Version(id, token.own)
                      /\ Version(id, saved)' = Version(id, saved)
  BY <1>1 DEF Latest, Version
<1>5. FreshInv'
  BY <1>1, <1>2, <1>4 DEF FreshInv
<1>6. PageInv' /\ ListInv'
  BY <1>1, <1>2 DEF PageInv, ListInv, OneEach
<1>7. OwnCovers' /\ SavedCovers' /\ MemoryFirst'
  BY <1>1, <1>2, <1>4 DEF OwnCovers, SavedCovers, MemoryFirst
<1> QED BY <1>3, <1>5, <1>6, <1>7

(* What is saved survives; only a listing under way takes its files along. *)
LEMMA CrashStep ==
  ASSUME IInv, Crash
  PROVE  IInv'
<1> USE DEF IInv
<1>1. /\ mem' = Zero /\ token' = NoToken /\ feed' = NoPage("down")
      /\ first' = Listing
      /\ hist' = [hist EXCEPT !.crashes = @ + 1,
                    !.lost = @ \/ (feed.pc = "join" /\ first.queue # {})]
      /\ UNCHANGED <<log, db, saved>>
  BY DEF Crash
<1>2. /\ feed'.pc = "down" /\ Docs' = {} /\ feed'.docs = {}
      /\ first'.queue = {} /\ token'.own = None /\ 0 \in Versions
      /\ hist'.lost = (hist.lost \/ (feed.pc = "join" /\ first.queue # {}))
  BY <1>1 DEF NoPage, Docs, Listing, NoToken, TypeInv, Versions
<1>3. TypeInv'
  <2>1. hist' \in [crashes : Nat, again : BOOLEAN, lost : BOOLEAN]
    <3> DEFINE lost == hist.lost \/ (feed.pc = "join" /\ first.queue # {})
    <3>1. lost \in BOOLEAN /\ hist.crashes + 1 \in Nat
      BY DEF TypeInv
    <3>2. hist' = [hist EXCEPT !.crashes = @ + 1, !.lost = lost]
      BY <1>1
    <3> HIDE DEF lost
    <3> QED BY <3>1, <3>2 DEF TypeInv
  <2>2. first' \in [left : SUBSET Ids, queue : SUBSET Doc]
    BY <1>1 DEF Listing
  <2>3. mem' \in [Ids -> Versions]
    BY <1>1, <1>2 DEF Zero
  <2>4. token' \in [own : Versions \cup {None}, root : Versions \cup {None}]
    BY <1>1 DEF NoToken
  <2> QED BY <1>1, <2>1, <2>2, <2>3, <2>4
           DEF TypeInv, TypeOK, NoPage, Versions, Doc, Listing
<1>4. \A id \in Ids : /\ Latest(id)' = Latest(id)
                      /\ Version(id, saved)' = Version(id, saved)
  BY <1>1 DEF Latest, Version
<1>5. FreshInv'
  <2>1. \A id \in Ids : 0 <= Latest(id)
    BY Typed DEF Versions
  <2> QED BY <1>1, <1>2, <1>4, <2>1 DEF FreshInv, Zero
<1>6. PageInv' /\ ListInv'
  BY <1>1, <1>2 DEF PageInv, ListInv, OneEach
<1>7. OwnCovers' /\ MemoryFirst'
  BY <1>1, <1>2 DEF OwnCovers, MemoryFirst
<1>8. SavedCovers'
  <2> SUFFICES ASSUME saved # None, ~hist'.lost
               PROVE  \A id \in Ids : Put(db, {})[id] >= Version(id, saved)
    BY <1>1, <1>2, <1>4 DEF SavedCovers
  <2>1. first.queue = {}
    BY <1>2 DEF ListInv, TypeInv
  <2> QED BY <1>2, <2>1 DEF SavedCovers
<1> QED BY <1>3, <1>5, <1>6, <1>7, <1>8

(* The saved token is taken up again, and covers no more than the database. *)
LEMMA RestartStep ==
  ASSUME IInv, Restart
  PROVE  IInv'
<1> USE DEF IInv
<1>1. /\ feed.pc = "down" /\ token' = [NoToken EXCEPT !.own = saved]
      /\ feed' = NoPage(IF saved = None THEN "list" ELSE "join")
      /\ hist' = [hist EXCEPT !.again = saved # None]
      /\ UNCHANGED <<log, db, saved, mem, first>>
  BY DEF Restart
<1>2. /\ feed'.pc = IF saved = None THEN "list" ELSE "join"
      /\ Docs' = {} /\ feed'.docs = {} /\ Docs = {} /\ first.queue = {}
      /\ token'.own = saved /\ hist'.lost = hist.lost
  BY <1>1 DEF NoPage, Docs, PageInv, ListInv, NoToken, TypeInv
<1>3. TypeInv'
  <2>1. hist' \in [crashes : Nat, again : BOOLEAN, lost : BOOLEAN]
    <3>1. (saved # None) \in BOOLEAN
      OBVIOUS
    <3> QED BY <1>1, <3>1 DEF TypeInv
  <2>2. token' \in [own : Versions \cup {None}, root : Versions \cup {None}]
    BY <1>1 DEF NoToken, TypeInv, TypeOK
  <2>3. feed' \in [pc : {"list", "token", "join", "fetch", "apply", "save", "down"},
                   todo : SUBSET Doc, docs : SUBSET Doc]
    BY <1>1 DEF NoPage
  <2> QED BY <1>1, <1>2, <2>1, <2>2, <2>3
           DEF TypeInv, TypeOK, NoPage, Versions, Doc
<1>4. \A id \in Ids : /\ Latest(id)' = Latest(id)
                      /\ Version(id, saved)' = Version(id, saved)
                      /\ Version(id, token.own)' = Version(id, saved)
  BY <1>1, <1>2 DEF Latest, Version
<1>5. FreshInv'
  BY <1>1, <1>2, <1>4 DEF FreshInv
<1>6. PageInv' /\ ListInv'
  BY <1>1, <1>2 DEF PageInv, ListInv, OneEach
<1>7. OwnCovers' /\ SavedCovers' /\ MemoryFirst'
  BY <1>1, <1>2, <1>4 DEF OwnCovers, SavedCovers, MemoryFirst
<1> QED BY <1>3, <1>5, <1>6, <1>7

LEMMA StutterStep ==
  ASSUME IInv, UNCHANGED vars
  PROVE  IInv'
<1> USE DEF IInv
<1>1. UNCHANGED <<log, db, saved, mem, token, feed, first, hist>>
  BY DEF vars
<1>2. \A id \in Ids : /\ Latest(id)' = Latest(id)
                      /\ \A n : Version(id, n)' = Version(id, n)
  BY <1>1 DEF Latest, Version
<1>3. Docs' = Docs /\ Versions' = Versions /\ Doc' = Doc
  BY <1>1 DEF Docs, Versions, Doc
<1>4. TypeInv'
  BY <1>1, <1>3 DEF TypeInv, TypeOK
<1>5. \A id \in Ids : /\ Version(id, token.own)' = Version(id, token.own)
                      /\ Version(id, saved)' = Version(id, saved)
  BY <1>1 DEF Version
<1>6. FreshInv'
  BY <1>1, <1>2, <1>3, Typed DEF FreshInv
<1>7. PageInv' /\ ListInv'
  BY <1>1, <1>3 DEF PageInv, ListInv, OneEach
<1>8. OwnCovers' /\ SavedCovers' /\ MemoryFirst'
  BY <1>1, <1>3, <1>5 DEF OwnCovers, SavedCovers, MemoryFirst
<1> QED BY <1>4, <1>6, <1>7, <1>8

LEMMA NextInv ==
  ASSUME IInv, [Next]_vars
  PROVE  IInv'
<1>1. CASE UNCHANGED vars
  BY <1>1, StutterStep
<1>2. CASE \E id \in Ids : Change(id)
  BY <1>2, ChangeStep
<1>3. CASE First
  BY <1>3, ListPageStep, ParseStep, ListTokenStep, LoadStep DEF First
<1>4. CASE Page
  BY <1>4, FetchStep, ApplyStep, WriteStep, WroteStep, SaveTokenStep DEF Page
<1>5. CASE ApplyThrows \/ WriteThrows \/ SaveThrows
  BY <1>5, ApplyThrowsStep, WriteThrowsStep, SaveThrowsStep
<1>6. CASE Crash \/ Restart
  BY <1>6, CrashStep, RestartStep
<1> QED BY <1>1, <1>2, <1>3, <1>4, <1>5, <1>6 DEF Next

-----------------------------------------------------------------------------
LEMMA Invariance == Spec => []IInv
<1> QED BY InitInv, NextInv, PTL DEF Spec

(* Every variable has its type; no version and no token is of the future.  *)
THEOREM FeedTyped == Spec => []TypeOK
<1>1. IInv => TypeOK
  BY DEF IInv, TypeInv
<1> QED BY <1>1, Invariance, PTL

(* Whatever is before the saved token is in the database, whenever the     *)
(* process ends and however often it is started again, as long as no page  *)
(* and no listing is lost to an exception or a crash.                      *)
THEOREM NothingSkipped == Spec => []SavedCovers
<1>1. IInv => SavedCovers
  BY DEF IInv
<1> QED BY <1>1, Invariance, PTL

(* While changes are followed, memory is never behind the database, even   *)
(* when pages are lost.                                                    *)
THEOREM MemoryLeads == Spec => []MemoryFirst
<1>1. IInv => MemoryFirst
  BY DEF IInv
<1> QED BY <1>1, Invariance, PTL
=============================================================================
