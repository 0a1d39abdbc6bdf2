--------------------------- MODULE ListingProofs ----------------------------
(***************************************************************************)
(* That the folders of Namespace list what they have on the server, for    *)
(* any number of files, FUSE threads, requests and changes.                *)
(***************************************************************************)
EXTENDS NamespaceProofs

(* What changes on the server, and that it is news then.                   *)

Fades(id)    == /\ srv[id].st # "none" /\ srv'[id].st = "gone"
                /\ srv'[id].parents = srv[id].parents
Stays(id)    == /\ Outside /\ srv[id].st \in {"here", "bin"} /\ srv'[id].st \in {"here", "bin"}
                /\ srv'[id].parents = srv[id].parents
Tells(w, id) == LET r == op[w] IN
  /\ Step(w) /\ r.pc = "tell" /\ op'[w] = Idle /\ IdOf(r.kid) = id /\ srv'[id].st = srv[id].st
  /\ srv[id].st # "none"
  /\ r.to = r.dir => srv'[id].parents = srv[id].parents
  /\ r.to # r.dir => srv'[id].parents = (srv[id].parents \ {IdOf(r.dir)}) \cup {IdOf(r.to)}
Frees(w, id) == /\ op[w].pc = "remove" /\ op'[w].pc = "detach" /\ op'[w].kid = op[w].kid
                /\ IdOf(op[w].kid) = id
                /\ srv[id].st = "here" /\ srv'[id].st = "here" /\ srv'[id].parents \subseteq srv[id].parents
Uploads(o)   == /\ Store(o) /\ srv'[IdOf(o)].st = "here" /\ srv'[IdOf(o)].name = obj[o].name
                /\ srv'[IdOf(o)].parents = {IdOf(p) : p \in obj[o].parents}
Founds(w, id) ==
  /\ Starts(w) /\ op'[w].pc = "insert" /\ op'[w].req = "mkdir" /\ IdOf(op'[w].kid) = id /\ Fresh(id)
  /\ srv'[id].st = "here" /\ srv'[id].parents = {IdOf(op'[w].dir)}
  /\ op'[w].dir \in Dirs /\ held[op'[w].dir] > 0 /\ srv[IdOf(op'[w].dir)].st = "here"
Appears(id)  == /\ Fresh(id) /\ Outside /\ srv'[id].st = "here"
                /\ \E p \in Folders : srv'[id].parents = {p} /\ srv[p].st = "here"
Moved(id)    == /\ id \in odd' /\ Outside /\ srv[id].st = "here" /\ srv'[id].st = "here"
                /\ \E p \in Folders : srv'[id].parents = {p} /\ srv[p].st = "here"

Changes(id) ==
  \/ Fades(id) \/ Stays(id) \/ Appears(id) \/ Moved(id)
  \/ \E w \in Workers : Tells(w, id) \/ Frees(w, id) \/ Founds(w, id)
  \/ \E o \in Objs : IdOf(o) = id /\ Uploads(o)

LEMMA MkdirDoes ==
  ASSUME TypeInv, NEW w \in Workers, NEW dir \in Objs, Enters(w, dir), NEW id \in Ids,
         NEW name \in Names, Mkdir(w, dir, id, name)
  PROVE  /\ op'[w].pc = "insert" /\ op'[w].req = "mkdir" /\ op'[w].kid = First(id)
         /\ op'[w].dir = dir /\ dir \in Dirs /\ held[dir] > 0 /\ IdOf(First(id)) = id
<1> DEFINE r == [Idle EXCEPT !.pc = "insert", !.req = "mkdir", !.dir = dir, !.kid = First(id),
                             !.name = name]
<1>1. "insert" \in Steps /\ "mkdir" \in Requests /\ First(id) \in Objs /\ IdOf(First(id)) = id
  BY ObjFacts DEF Steps, Requests
<1>2. RecordIs(r, "insert", "mkdir", dir, First(id))
  BY <1>1, Records
<1>3. op' = [op EXCEPT ![w] = r]
  BY DEF Mkdir, Makes
<1> HIDE DEF r
<1>4. op'[w] = r
  BY <1>2, <1>3, SetFacts DEF RecordIs
<1> QED BY <1>1, <1>2, <1>4 DEF RecordIs, Enters, Dirs

LEMMA SrvDo ==
  ASSUME TypeInv, OpInv, Next, NEW id \in Ids
  PROVE  \/ srv'[id] = srv[id] /\ (id \in news' => id \in news)
         \/ id \in news' /\ Changes(id)
<1> DEFINE Same == srv'[id] = srv[id] /\ (id \in news' => id \in news)
           Goal == Same \/ (id \in news' /\ Changes(id))
<1>0. ASSUME NEW j \in Ids, NEW file, Stores(j, file)
      PROVE  /\ id # j => Same
             /\ id = j => srv'[id] = file /\ id \in news'
  BY <1>0 DEF Stores, TypeInv
<1>c. UNCHANGED cloud => Same
  BY DEF cloud
<1>s. srv[id] \in File
  BY DEF TypeInv
<1>f. \A st \in {"here", "bin", "gone"} : LET file == [srv[id] EXCEPT !.st = st] IN
        file.st = st /\ file.parents = srv[id].parents
  BY <1>s DEF File
<1>1. ASSUME NEW w \in Workers, Starts(w)
      PROVE  Goal
  <2>1. PICK dir \in Objs :
          /\ Enters(w, dir)
          /\ \/ \E c \in obj[dir].children :
                  \/ Lookup(w, dir, c) \/ Unlink(w, dir, c) \/ Rmdir(w, dir, c)
                  \/ \E to \in Objs, name \in Names : Rename(w, dir, c, to, name)
             \/ \E j \in Ids, name \in Names : Create(w, dir, j, name) \/ Mkdir(w, dir, j, name)
    BY <1>1 DEF Starts
  <2>2. ASSUME NEW j \in Ids, NEW name \in Names, Mkdir(w, dir, j, name)
        PROVE  Goal
    <3> DEFINE file == [st |-> "here", parents |-> {IdOf(dir)}, name |-> name]
    <3>1. Stores(j, file) /\ Fresh(j) /\ srv[IdOf(dir)].st = "here"
      BY <2>2 DEF Mkdir
    <3>2. CASE id = j
      <4>1. srv'[id] = file /\ id \in news'
        BY <1>0, <3>1, <3>2
      <4>2. Founds(w, id)
        BY <1>1, <2>1, <2>2, <3>1, <3>2, <4>1, MkdirDoes DEF Founds
      <4> QED BY <4>1, <4>2 DEF Changes
    <3> QED BY <1>0, <3>1, <3>2
  <2>3. \A c : Lookup(w, dir, c) \/ Unlink(w, dir, c) \/ Rmdir(w, dir, c) => UNCHANGED cloud
    BY DEF Lookup, Unlink, Rmdir, cloud
  <2>4. \A c, to, name : Rename(w, dir, c, to, name) => UNCHANGED cloud
    BY DEF Rename
  <2>5. \A j, name : Create(w, dir, j, name) => UNCHANGED cloud
    BY DEF Create
  <2> QED BY <1>c, <2>1, <2>2, <2>3, <2>4, <2>5
<1>2. ASSUME NEW w \in Workers, Step(w)
      PROVE  Goal
  <2> DEFINE j == IdOf(op[w].kid)
  <2>0. op[w].kid \in Objs /\ j \in Ids
    BY <1>2, StepDoes, ObjFacts
  <2>1. CASE Delete(w)
    <3>1. CASE srv[j].st \in {"here", "bin"} /\ id = j
      <4>1. srv'[id] = [srv[id] EXCEPT !.st = "gone"] /\ id \in news'
        BY <1>0, <2>0, <2>1, <3>1 DEF Delete
      <4> QED BY <1>f, <3>1, <4>1 DEF Fades, Changes
    <3>2. CASE srv[j].st \in {"here", "bin"} /\ id # j
      BY <1>0, <2>0, <2>1, <3>2 DEF Delete
    <3> QED BY <1>c, <2>1, <3>1, <3>2 DEF Delete
  <2>2. CASE Detach(w)
    <3>1. op'[w].pc = "detach" /\ op'[w].kid = op[w].kid /\ op[w].pc = "remove"
      BY <2>2, GoFacts DEF Detach, Steps
    <3>2. CASE id = j /\ srv[id].st = "here" /\ Stores(id, [srv[id] EXCEPT !.parents = @ \ {IdOf(op[w].dir)}])
      <4>1. srv'[id] = [srv[id] EXCEPT !.parents = @ \ {IdOf(op[w].dir)}] /\ id \in news'
        BY <1>0, <3>2
      <4>2. srv'[id].st = "here" /\ srv'[id].parents \subseteq srv[id].parents
        BY <1>s, <3>2, <4>1 DEF File
      <4> QED BY <3>1, <3>2, <4>1, <4>2 DEF Frees, Changes
    <3>3. CASE id # j /\ \E file : Stores(j, file)
      BY <1>0, <2>0, <3>3
    <3> QED BY <1>c, <2>2, <3>2, <3>3 DEF Detach
  <2>3. CASE Tell(w)
    <3> DEFINE ps == IF op[w].to = op[w].dir THEN srv[j].parents
                     ELSE (srv[j].parents \ {IdOf(op[w].dir)}) \cup {IdOf(op[w].to)}
               file == [srv[j] EXCEPT !.name = op[w].name, !.parents = ps]
    <3>1. Stores(j, file) /\ op[w].pc = "tell" /\ srv[j].st # "none"
      BY <2>3 DEF Tell
    <3>2. op'[w] = Idle
      BY <2>3, DoneFacts DEF Tell
    <3>3. CASE id = j
      <4>1. srv'[id] = file /\ id \in news'
        BY <1>0, <3>1, <3>3
      <4>2. file.st = srv[id].st /\ file.parents = ps
        BY <1>s, <3>3 DEF File
      <4>3. Tells(w, id)
        BY <1>2, <3>1, <3>2, <3>3, <4>1, <4>2 DEF Tells
      <4> QED BY <4>1, <4>3 DEF Changes
    <3> QED BY <1>0, <2>0, <3>1, <3>3
  <2>4. CASE ~Delete(w) /\ ~Detach(w) /\ ~Tell(w)
    <3>1. UNCHANGED cloud
      BY <1>2, <2>4 DEF Step, LookupReply, Insert, AddChild, AddParent, MakeReply, Drop,
         RemoveParent, Wait, DeleteRefused, RemoveChild, Finish, Take, Give, SetName, Save,
         TellRefused
    <3> QED BY <1>c, <3>1
  <2> QED BY <2>1, <2>2, <2>3, <2>4
<1>3. ASSUME NEW o \in Objs, Forget(o) \/ Store(o) \/ Mark(o)
      PROVE  Goal
  <2>1. CASE Store(o)
    <3> DEFINE file == [st |-> "here", parents |-> {IdOf(p) : p \in obj[o].parents}, name |-> obj[o].name]
    <3>1. Stores(IdOf(o), file) /\ IdOf(o) \in Ids
      BY <2>1, ObjFacts DEF Store
    <3>2. CASE id = IdOf(o)
      <4>1. srv'[id] = file /\ id \in news'
        BY <1>0, <3>1, <3>2
      <4>2. Uploads(o)
        BY <2>1, <3>2, <4>1 DEF Uploads
      <4> QED BY <3>2, <4>1, <4>2 DEF Changes
    <3> QED BY <1>0, <3>1, <3>2
  <2>2. CASE Forget(o) \/ Mark(o)
    BY <1>c, <2>2 DEF Forget, Mark
  <2> QED BY <1>3, <2>1, <2>2
<1>4. CASE Outside
  <2>1. ASSUME NEW j \in Ids, NEW p \in Folders, NEW name \in Names, Appear(j, p, name)
        PROVE  Goal
    <3> DEFINE file == [st |-> "here", parents |-> {p}, name |-> name]
    <3>1. Stores(j, file) /\ Fresh(j) /\ srv[p].st = "here"
      BY <2>1 DEF Appear, Change
    <3>2. CASE id = j
      <4>1. srv'[id] = file /\ id \in news'
        BY <1>0, <3>1, <3>2
      <4>2. Appears(id)
        BY <1>4, <3>1, <3>2, <4>1 DEF Appears
      <4> QED BY <4>1, <4>2 DEF Changes
    <3> QED BY <1>0, <3>1, <3>2
  <2>2. ASSUME NEW j \in Ids, NEW p \in Folders, Move(j, p)
        PROVE  Goal
    <3> DEFINE file == [srv[j] EXCEPT !.parents = {p}]
    <3>1. Stores(j, file) /\ srv[j].st = "here" /\ srv[p].st = "here" /\ j \in odd'
      BY <2>2 DEF Move, Change
    <3>2. CASE id = j
      <4>1. srv'[id] = file /\ id \in news'
        BY <1>0, <3>1, <3>2
      <4>2. file.st = srv[id].st /\ file.parents = {p}
        BY <1>s, <3>2 DEF File
      <4>3. Moved(id)
        BY <1>4, <3>1, <3>2, <4>1, <4>2 DEF Moved
      <4> QED BY <4>1, <4>3 DEF Changes
    <3> QED BY <1>0, <3>1, <3>2
  <2>3. ASSUME NEW j \in Ids, Remove(j) \/ Sweep(j)
        PROVE  Goal
    <3>1. Stores(j, [srv[j] EXCEPT !.st = "gone"]) /\ srv[j].st # "none"
      BY <2>3 DEF Remove, Sweep, Change
    <3>2. CASE id = j
      <4>1. srv'[id] = [srv[id] EXCEPT !.st = "gone"] /\ id \in news'
        BY <1>0, <3>1, <3>2
      <4> QED BY <1>f, <3>1, <3>2, <4>1 DEF Fades, Changes
    <3> QED BY <1>0, <3>1, <3>2
  <2>4. ASSUME NEW j \in Ids, Bin(j) \/ Restore(j)
        PROVE  Goal
    <3>1. PICK st \in {"here", "bin"} :
            Stores(j, [srv[j] EXCEPT !.st = st]) /\ srv[j].st \in {"here", "bin"}
      BY <2>4 DEF Bin, Restore, Change
    <3>2. CASE id = j
      <4>1. srv'[id] = [srv[id] EXCEPT !.st = st] /\ id \in news'
        BY <1>0, <3>1, <3>2
      <4> QED BY <1>4, <1>f, <3>1, <3>2, <4>1 DEF Stays, Changes
    <3> QED BY <1>0, <3>1, <3>2
  <2>5. ASSUME NEW j \in Ids, NEW name \in Names, Retitle(j, name)
        PROVE  Goal
    <3> DEFINE file == [srv[j] EXCEPT !.name = name]
    <3>1. Stores(j, file) /\ srv[j].st = "here"
      BY <2>5 DEF Retitle, Change
    <3>2. CASE id = j
      <4>1. srv'[id] = file /\ id \in news'
        BY <1>0, <3>1, <3>2
      <4>2. file.st = srv[id].st /\ file.parents = srv[id].parents
        BY <1>s, <3>2 DEF File
      <4> QED BY <1>4, <3>1, <3>2, <4>1, <4>2 DEF Stays, Changes
    <3> QED BY <1>0, <3>1, <3>2
  <2>6. ASSUME NEW w \in Workers, NEW dir \in Objs, Enters(w, dir), NEW j \in Ids,
               NEW name \in Names, MkdirRefused(dir, j, name)
        PROVE  Goal
    <3> DEFINE file == [st |-> "here", parents |-> {IdOf(dir)}, name |-> name]
    <3>1. IdOf(dir) \in Folders /\ Fresh(j)
      BY <2>6 DEF Enters, IsFolder, MkdirRefused
    <3>2. CASE Stores(j, file) /\ srv[IdOf(dir)].st = "here" /\ id = j
      <4>1. srv'[id] = file /\ id \in news'
        BY <1>0, <3>2
      <4>2. Appears(id)
        BY <1>4, <3>1, <3>2, <4>1 DEF Appears
      <4> QED BY <4>1, <4>2 DEF Changes
    <3>3. CASE Stores(j, file) /\ id # j
      BY <1>0, <3>3
    <3> QED BY <1>c, <2>6, <3>2, <3>3 DEF MkdirRefused
  <2>7. CASE Others
    BY <2>1, <2>2, <2>3, <2>4, <2>5, <2>7 DEF Others
  <2>8. CASE Crashes
    BY <2>6, <2>8 DEF Crashes
  <2> QED BY <1>4, <2>7, <2>8 DEF Outside
<1>5. CASE Feed
  <2>1. (\E j \in Ids : Fetch(j)) \/ UNCHANGED cloud
    BY <1>5 DEF Feed, ApplyNothing, ApplyGone, ApplyKnown, ApplyNew, Leave,
         FeedRemoveChild, FeedAddChild, FeedRemoveParent, FeedParents, FeedAddParent
  <2>2. \A j \in Ids : Fetch(j) => Same
    BY DEF Fetch
  <2> QED BY <1>c, <2>1, <2>2
<1> QED BY <1>1, <1>2, <1>3, <1>4, <1>5 DEF Next, Outside

(* What is news stays so until the feed fetches it.                        *)
LEMMA NewsDo ==
  ASSUME TypeInv, OpInv, Next, NEW id \in Ids, id \in news, id \notin news'
  PROVE  Fetches(id)
<1>1. \A j, file : Stores(j, file) => FALSE
  BY DEF Stores
<1>2. ~UNCHANGED cloud
  BY DEF cloud
<1>3. ~\E w \in Workers : Starts(w)
  <2> SUFFICES ASSUME NEW w \in Workers, Starts(w)
               PROVE  FALSE
    OBVIOUS
  <2>1. \A dir, c : Lookup(w, dir, c) \/ Unlink(w, dir, c) \/ Rmdir(w, dir, c) => FALSE
    BY <1>2 DEF Lookup, Unlink, Rmdir, cloud
  <2>2. \A dir, c, to, name : Rename(w, dir, c, to, name) => FALSE
    BY <1>2 DEF Rename
  <2>3. \A dir, j, name : Create(w, dir, j, name) \/ Mkdir(w, dir, j, name) => FALSE
    BY <1>1, <1>2 DEF Create, Mkdir
  <2> QED BY <2>1, <2>2, <2>3 DEF Starts
<1>4. ~\E w \in Workers : Step(w)
  BY <1>1, <1>2 DEF Step, LookupReply, Insert, AddChild, AddParent, MakeReply, Drop, Delete, Detach,
       RemoveParent, Wait, DeleteRefused, RemoveChild, Finish, Take, Give, SetName, Save, Tell,
       TellRefused
<1>5. ~\E o \in Objs : Forget(o) \/ Store(o) \/ Mark(o)
  BY <1>1, <1>2 DEF Forget, Store, Mark
<1>6. ~Outside
  <2>1. ~Others
    BY <1>1 DEF Others, Move, Appear, Bin, Remove, Restore, Retitle, Sweep, Change
  <2>2. ~Crashes
    BY <1>1, <1>2 DEF Crashes, MkdirRefused
  <2> QED BY <2>1, <2>2 DEF Outside
<1>7. Feed
  BY <1>3, <1>4, <1>5, <1>6 DEF Next, Outside
<1>8. PICK j \in Ids : Fetch(j)
  BY <1>2, <1>7 DEF Feed, ApplyNothing, ApplyGone, ApplyKnown, ApplyNew, Leave,
       FeedRemoveChild, FeedAddChild, FeedRemoveParent, FeedParents, FeedAddParent
<1>9. j = id /\ feed.pc = "idle" /\ feed'.pc = "apply" /\ feed'.id = j
  BY <1>8 DEF Fetch, NoChange
<1> QED BY <1>7, <1>9, FeedStepDoes DEF FeedDoes, Fetches, Knows, FindsNew

-----------------------------------------------------------------------------
(* What the server has and what the folders list.  A difference between    *)
(* the two is accounted for: by a change in news, by the feed, or by a     *)
(* thread.                                                                 *)

Here(o)      == srv[IdOf(o)].st \in {"here", "bin"}
Over(o)      == srv[IdOf(o)].st = "gone"
Stored(p, c) == IdOf(p) \in srv[IdOf(c)].parents
Main(o)      == byId[IdOf(o)] = o
Pending(o)   == IdOf(o) \in news \/ (feed.pc = "apply" /\ feed.id = IdOf(o))
Detached(o)  == \E w \in Workers : op[w].pc = "detach" /\ IdOf(op[w].kid) = IdOf(o)
Moving(r)    == r.req = "rename" /\ r.pc \in {"take", "give", "name", "save", "tell"}
                /\ r.to # r.dir

(* What nothing has touched since it last left the maps.                   *)
Pristine(q) ==
  /\ ~obj[q].known /\ held[q] = 0 /\ obj[q].children = {}
  /\ q # feed.kid /\ q # feed.at /\ q \notin feed.todo
  /\ \A o \in Objs : q \notin obj[o].children /\ q \notin obj[o].parents
  /\ \A w \in Workers : q # op[w].dir /\ q # op[w].to /\ (q = op[w].kid => op[w].pc = "insert")

(* While a file is not gone, it has the object of idToObject and no other. *)
SoleInv == \A q \in Objs : Sound(q) /\ srv[IdOf(q)].st # "gone" => Main(q) \/ Pristine(q)

(* A folder that anything is in, or that a thread is at, the server has    *)
(* heard of.                                                               *)
SrvInv ==
  /\ \A id \in Ids : \A p \in srv[id].parents : srv[p].st # "none"
  /\ \A o \in Objs : \A p \in obj[o].parents : srv[IdOf(p)].st # "none"
  /\ \A o \in Dirs : obj[o].known => srv[IdOf(o)].st # "none"
  /\ \A w \in Workers : op[w].pc # "idle" =>
       \A p \in Objs : p = op[w].dir \/ p = op[w].to => srv[IdOf(p)].st # "none"

(* What a thread is about to insert is not yet used; what rmdir takes off  *)
(* its folder is gone.                                                     *)
AskInv == \A w \in Workers : LET c == op[w].kid IN
  /\ op[w].pc = "insert" => /\ \A o \in Objs : c \notin obj[o].parents
                            /\ \A v \in Workers : c # op[v].dir /\ c # op[v].to
  /\ op[w].pc \in {"take", "give", "name", "save", "tell"} => op[w].req = "rename"
  /\ op[w].pc \in {"take", "give"} => op[w].to # op[w].dir
  /\ op[w].req = "rmdir" => IsFolder(c)
  /\ op[w].pc = "unchild" /\ Sound(c) => srv[IdOf(c)].st = "gone"

(* What the feed has fetched is what the server has, if it has nothing     *)
(* newer to tell; and the parents are, for a move makes the file odd.      *)
TellInv ==
  /\ feed.pc = "apply" /\ feed.id \notin news => feed.file = srv[feed.id]
  /\ feed.pc = "apply" /\ feed.file.st = "gone" => srv[feed.id].st = "gone"
  /\ feed.pc = "leave" => srv[feed.id].st = "gone" /\ IdOf(feed.kid) = feed.id
  /\ feed.pc # "idle" => feed.file.st # "none"
  /\ feed.pc # "idle" /\ feed.id \notin odd /\ srv[feed.id].st \in {"here", "bin"}
       /\ ~(\E w \in Workers : op[w].pc = "detach" /\ IdOf(op[w].kid) = feed.id)
       => feed.file.st # "gone" /\ feed.file.parents = srv[feed.id].parents
  /\ feed.pc \in {"add", "addParent"} => \A p \in feed.todo : IdOf(p) \in feed.file.parents

(* What create and mkdir are placing.                                      *)
PlaceInv == \A w \in Workers : LET c == op[w].kid IN op[w].pc \in Placing /\ Sound(c) =>
  /\ op[w].pc # "insert" => ~obj[c].trashed
  /\ op[w].req = "create" => srv[IdOf(c)].st = "none"
  /\ op[w].req = "mkdir" => IdOf(c) \in news /\ (Here(c) => srv[IdOf(c)].parents = {IdOf(op[w].dir)})

(* A file the server has not heard of is in its folder.                    *)
NewInv == \A c \in Objs : Sound(c) /\ srv[IdOf(c)].st = "none" =>
  /\ \A p \in obj[c].parents : obj[c].parents = {p} /\ In(p, c)
  /\ \A p \in Objs : In(p, c) =>
       p \in obj[c].parents \/ \E w \in Workers : op[w].pc = "addParent" /\ op[w].kid = c /\ op[w].dir = p
  /\ \A w \in Workers : op[w].pc = "addParent" /\ op[w].kid = c => In(op[w].dir, c)

(* While a thread moves a file the feed is at no change of it.             *)
MoveInv == \A w \in Workers : LET c == op[w].kid IN Moving(op[w]) /\ Sound(c) =>
  /\ srv[IdOf(c)].st # "none" /\ obj[c].uploaded
  /\ Here(c) => /\ feed.pc # "idle" => feed.id # IdOf(c)
                /\ op[w].pc # "take" => ~In(op[w].dir, c)
                /\ op[w].pc \in {"name", "save", "tell"} => In(op[w].to, c)

Settled(p, c) == Sound(c) /\ Sound(p) /\ Here(c) /\ Here(p) /\ ~Detached(c)

(* What a folder lists is in it on the server, or being moved to it.       *)
ListedInv == \A p \in Dirs : \A c \in obj[p].children : Settled(p, c) =>
  \/ Stored(p, c)
  \/ \E w \in Workers : /\ Moving(op[w]) /\ op[w].pc \in {"name", "save", "tell"}
                       /\ op[w].kid = c /\ op[w].to = p

Late(p, c) ==
  \/ \E w \in Workers : op[w].kid = c /\
       \/ op[w].pc = "addChild" /\ op[w].dir = p
       \/ Moving(op[w]) /\ op[w].pc # "take" /\ op[w].dir = p
       \/ op[w].req = "unlink" /\ op[w].pc \in {"wait", "remove"}
  \/ feed.kid = c /\ \/ feed.pc \in {"remove", "removeParent"} /\ p \notin obj[c].parents
                     \/ feed.pc = "add" /\ p \in feed.todo
                     \/ feed.pc = "addParent" /\ p \in feed.todo /\ p # feed.at

(* What is in a folder on the server is listed, or is being put there,     *)
(* moved away or deleted.                                                  *)
StoredInv == \A p, c \in Objs : Settled(p, c) /\ Main(p) /\ Main(c) /\ Stored(p, c) =>
  In(p, c) \/ Late(p, c)

(* A file that is known has known folders, or is odd.                      *)
KnowInv == \A c \in Objs : Sound(c) /\ Main(c) /\ Here(c) =>
  \A p \in srv[IdOf(c)].parents : p \notin odd /\ srv[p].st \in {"here", "bin"} => byId[p] # NoObj

(* What the server has is known.                                           *)
HaveInv == \A id \in Ids \ odd : srv[id].st \in {"here", "bin"} /\ byId[id] = NoObj =>
  \/ id \in news \/ (feed.pc = "apply" /\ feed.id = id)
  \/ \E w \in Workers : op[w].pc = "insert" /\ IdOf(op[w].kid) = id

(* ... under its name, and as trashed or not as it is.                     *)
SameInv == \A c \in Objs : Sound(c) /\ Main(c) /\ ~Pending(c) =>
  /\ Over(c) => obj[c].trashed
  /\ Here(c) => /\ obj[c].trashed <=> srv[IdOf(c)].st = "bin"
                /\ obj[c].uploaded
                /\ \/ obj[c].name = srv[IdOf(c)].name
                   \/ \E w \in Workers : op[w].pc \in {"save", "tell"} /\ op[w].kid = c

-----------------------------------------------------------------------------
(* Who changes what.                                                       *)

Local == <<obj, byId, held, ev, feed>>

(* A step is on the server or here.                                        *)
LEMMA Apart ==
  ASSUME TypeInv, OpInv, Next
  PROVE  \/ srv' = srv /\ news' \subseteq news
         \/ UNCHANGED Local
<1> DEFINE Goal == (srv' = srv /\ news' \subseteq news) \/ UNCHANGED Local
<1>c. UNCHANGED cloud => Goal
  BY DEF cloud
<1>1. ASSUME NEW w \in Workers, Starts(w)
      PROVE  Goal
  <2>1. \A dir, c : Lookup(w, dir, c) \/ Unlink(w, dir, c) \/ Rmdir(w, dir, c) => UNCHANGED cloud
    BY DEF Lookup, Unlink, Rmdir, cloud
  <2>2. \A dir, c, to, name : Rename(w, dir, c, to, name) => UNCHANGED cloud
    BY DEF Rename
  <2>3. \A dir, id, name : Create(w, dir, id, name) => UNCHANGED cloud
    BY DEF Create
  <2>4. \A dir, id, name : Mkdir(w, dir, id, name) => UNCHANGED Local
    BY DEF Mkdir, Local, local
  <2> QED BY <1>1, <1>c, <2>1, <2>2, <2>3, <2>4 DEF Starts
<1>2. ASSUME NEW w \in Workers, Step(w)
      PROVE  Goal
  <2>1. CASE Delete(w) \/ Detach(w) \/ Tell(w)
    BY <2>1 DEF Delete, Detach, Tell, Local, local
  <2>2. CASE ~(Delete(w) \/ Detach(w) \/ Tell(w))
    <3>1. UNCHANGED cloud
      BY <1>2, <2>2 DEF Step, LookupReply, Insert, AddChild, AddParent, MakeReply, Drop,
         RemoveParent, Wait, DeleteRefused, RemoveChild, Finish, Take, Give, SetName, Save,
         TellRefused
    <3> QED BY <1>c, <3>1
  <2> QED BY <2>1, <2>2
<1>3. ASSUME NEW o \in Objs, Forget(o) \/ Store(o) \/ Mark(o)
      PROVE  Goal
  BY <1>3, <1>c DEF Forget, Store, Mark, Local, local
<1>4. CASE Outside
  <2>1. Others => UNCHANGED Local
    BY DEF Others, Move, Appear, Bin, Remove, Restore, Retitle, Sweep, Change, Local, local
  <2>2. Crashes => UNCHANGED Local
    BY DEF Crashes, MkdirRefused, Local, local
  <2> QED BY <1>4, <2>1, <2>2 DEF Outside
<1>5. CASE Feed
  <2>1. (\E j \in Ids : Fetch(j)) \/ UNCHANGED cloud
    BY <1>5 DEF Feed, ApplyNothing, ApplyGone, ApplyKnown, ApplyNew, Leave,
         FeedRemoveChild, FeedAddChild, FeedRemoveParent, FeedParents, FeedAddParent
  <2>2. \A j \in Ids : Fetch(j) => Goal
    BY DEF Fetch
  <2> QED BY <1>c, <2>1, <2>2
<1> QED BY <1>1, <1>2, <1>3, <1>4, <1>5 DEF Next, Outside

(* What comes into the maps was put there.                                 *)
LEMMA KnownDo ==
  ASSUME TypeInv, OpInv, Next, NEW q \in Objs, obj'[q].known
  PROVE  \/ obj[q].known
         \/ \E w \in Workers : Inserts(w) /\ op[w].kid = q
         \/ FindsNew(q)
<1>a. AllSame => obj[q].known
  BY DEF AllSame, SameObj, Kept
<1>b. \A p, c : Loses(p, c) \/ Adds(p, c) \/ Parented(p, c) => obj[q].known
  BY DEF Loses, Adds, Parented, Kept
<1>t. \A c \in Objs : Trashes(c) => obj[q].known
  BY DEF Trashes, SameObj, Kept
<1>1. ASSUME NEW w \in Workers, Starts(w)
      PROVE  obj[q].known
  BY <1>1, <1>a, <1>b, <1>t, StartDoes DEF Looks, Makers, Removes, Renames
<1>2. ASSUME NEW w \in Workers, Step(w)
      PROVE  obj[q].known \/ (Inserts(w) /\ op[w].kid = q)
  <2>1. op[w].kid \in Objs /\ Does(w)
    BY <1>2, StepDoes
  <2>2. CASE Inserts(w) /\ op[w].kid # q
    BY <2>2 DEF Inserts, SameObj, Kept
  <2> QED BY <1>a, <1>b, <1>t, <2>1, <2>2 DEF Does, Quietly, Counts, Kept
<1>3. ASSUME NEW o \in Objs, Forget(o)
      PROVE  obj[q].known
  BY <1>3, ForgetDoes DEF Forgets, SameObj, Kept
<1>4. ASSUME NEW o \in Objs, Store(o) \/ Mark(o)
      PROVE  obj[q].known
  BY <1>4, <1>a, MarkDoes
<1>5. CASE Outside
  BY <1>5, <1>a, OthersDoes
<1>6. CASE Feed
  <2>1. FeedDoes
    BY <1>6, FeedStepDoes
  <2>2. Knows => obj[q].known
    BY DEF Knows, SameObj, Kept
  <2>3. \A o \in Objs : FindsNew(o) /\ o # q => obj[q].known
    BY DEF FindsNew, SameObj, Kept
  <2> QED BY <1>a, <1>b, <1>t, <2>1, <2>2, <2>3 DEF FeedDoes, Fetches
<1> QED BY <1>1, <1>2, <1>3, <1>4, <1>5, <1>6 DEF Next, Outside

(* The kernel holds what it was told of.                                   *)
LEMMA HeldDo ==
  ASSUME TypeInv, OpInv, Next, NEW q \in Objs, held'[q] > 0
  PROVE  \/ held[q] > 0
         \/ \E w \in Workers : op[w].kid = q /\ op[w].pc \in {"found", "assert"}
<1>1. ASSUME NEW w \in Workers, Starts(w)
      PROVE  held' = held
  BY <1>1, StartDoes
<1>2. ASSUME NEW w \in Workers, Step(w)
      PROVE  held' = held \/ (op[w].pc \in {"found", "assert"} /\ (op[w].kid # q => held'[q] = held[q]))
  <2>1. op[w].kid \in Objs /\ Does(w)
    BY <1>2, StepDoes
  <2> QED BY <2>1 DEF Does, Quietly, AllSame, Counts, Inserts, Adds, Parented, Trashes, Loses
<1>3. ASSUME NEW o \in Objs, Forget(o)
      PROVE  held[q] > 0
  BY <1>3, ForgetDoes DEF Forgets, TypeInv
<1>4. ASSUME NEW o \in Objs, Store(o) \/ Mark(o)
      PROVE  held' = held
  BY <1>4, MarkDoes DEF AllSame
<1>5. Outside => held' = held
  BY OthersDoes DEF AllSame
<1>6. Feed => held' = held
  BY FeedStepDoes
<1> QED BY <1>1, <1>2, <1>3, <1>4, <1>5, <1>6 DEF Next, Outside

(* Each step of background_update, with what it makes of the object and    *)
(* what it is to do next.                                                  *)
Carries(pc) == feed'.pc = pc /\ feed'.id = feed.id /\ feed'.file = feed.file
Settles(o)  == /\ obj'[o].trashed <=> feed.file.st = "bin"
               /\ obj'[o].uploaded /\ obj'[o].name = feed.file.name

(* What is to be linked are the folders that are known.                    *)
Plans(new) ==
  /\ \A p \in new : /\ byId[p] = NoObj => feed.id \in odd'
                    /\ byId[p] # NoObj => feed'.pc = "add" /\ byId[p] \in feed'.todo
  /\ \A q \in feed'.todo : IdOf(q) \in new /\ byId[IdOf(q)] = q

Skips     == /\ feed.pc = "apply" /\ feed.file.st = "gone" /\ Known = NoObj
             /\ feed' = NoChange /\ UNCHANGED <<obj, byId>>
Buries    == /\ feed.pc = "apply" /\ feed.file.st = "gone" /\ Known \in Objs /\ Trashes(Known)
             /\ obj' = Trashed(Known)
             /\ \/ feed' = NoChange
                \/ /\ Carries("leave") /\ feed'.kid = Known /\ feed'.at = feed.at
                   /\ feed'.todo = obj[Known].parents
Updates   == /\ feed.file.st # "gone" /\ Knows /\ Settles(Known) /\ Carries("remove")
             /\ feed'.at = feed.at /\ \A q \in feed'.todo : byId[IdOf(q)] = q
             /\ \A q \in Objs \ {Known} : obj'[q] = obj[q]
Brings(o) == /\ FindsNew(o) /\ Settles(o) /\ Plans(feed.file.parents)
             /\ feed' = NoChange \/ (Carries("add") /\ feed'.at = feed.at)
             /\ \A q \in Objs \ {o} : obj'[q] = obj[q]

Leaves  == /\ feed.pc = "leave"
           /\ feed' = NoChange \/ (Carries("leave") /\ feed'.at = NoObj /\ feed'.todo \subseteq feed.todo)
Unlinks == feed.pc = "remove" /\ Carries("removeParent") /\ feed'.at \in feed.todo /\ feed'.todo = feed.todo
Chooses == /\ feed.pc = "remove" /\ Plans(feed.file.parents \ Parents(feed.kid))
           /\ feed' = NoChange \/ (Carries("add") /\ feed'.at = NoObj)
Unfeeds == feed.pc = "removeParent" /\ Carries("remove") /\ feed'.at = NoObj /\ feed'.todo \subseteq feed.todo
Feeds   == /\ feed.pc = "add" /\ Carries("addParent") /\ feed'.at \in feed.todo /\ feed'.todo = feed.todo
           /\ obj[feed.kid].trashed => IdOf(feed.kid) \in odd'
Goes    == /\ feed.pc = "addParent"
           /\ \/ feed' = NoChange /\ feed.todo \subseteq {feed.at}
              \/ Carries("add") /\ feed'.at = NoObj /\ feed'.todo = feed.todo \ {feed.at}
Turns   == /\ byId' = byId /\ (feed' = NoChange \/ feed'.kid = feed.kid)
           /\ \A q \in Objs : obj'[q].name = obj[q].name /\ obj'[q].uploaded = obj[q].uploaded
           /\ Leaves \/ Unlinks \/ Chooses \/ Unfeeds \/ Feeds \/ Goes

FeedTurns == \/ \E id \in Ids : Fetches(id) /\ UNCHANGED <<obj, byId>>
             \/ Skips \/ Buries \/ Updates \/ (\E o \in Objs : Brings(o)) \/ Turns

LEMMA PlansDoes ==
  ASSUME TypeInv, NEW new \in SUBSET Folders, feed'.todo = Objects(new),
         feed'.pc = "add" \/ Objects(new) = {}, Missing(new) \subseteq odd'
  PROVE  Plans(new)
<1>1. \A p \in new : byId[p] # NoObj => byId[p] \in Objects(new)
  BY DEF Objects
<1>2. \A p \in new : byId[p] = NoObj => feed.id \in odd'
  BY DEF Missing
<1>3. \A q \in Objects(new) : IdOf(q) \in new /\ byId[IdOf(q)] = q
  BY Constants DEF Objects, TypeInv
<1> QED BY <1>1, <1>2, <1>3 DEF Plans

(* The fields that linking and unlinking leave alone.                      *)
LEMMA LinkFields ==
  ASSUME TypeInv, NEW x \in Objs, NEW q \in Objs
  PROVE  /\ \A S : obj' = [obj EXCEPT ![x].children = S]
                     => obj'[q].name = obj[q].name /\ obj'[q].uploaded = obj[q].uploaded
         /\ \A S : obj' = [obj EXCEPT ![x].parents = S]
                     => obj'[q].name = obj[q].name /\ obj'[q].uploaded = obj[q].uploaded
         /\ \A n : obj' = [obj EXCEPT ![x].count = n]
                     => obj'[q].name = obj[q].name /\ obj'[q].uploaded = obj[q].uploaded
         /\ \A n : obj' = [obj EXCEPT ![x].name = n] => obj'[q].uploaded = obj[q].uploaded
         /\ obj' = Trashed(x) => obj'[q].name = obj[q].name /\ obj'[q].uploaded = obj[q].uploaded
<1>0. obj \in [Objs -> ObjType] /\ obj[x] \in ObjType
  BY DEF TypeInv
<1>1. \A S : obj' = [obj EXCEPT ![x].children = S]
               => obj'[q].name = obj[q].name /\ obj'[q].uploaded = obj[q].uploaded
  BY <1>0 DEF ObjType
<1>2. \A S : obj' = [obj EXCEPT ![x].parents = S]
               => obj'[q].name = obj[q].name /\ obj'[q].uploaded = obj[q].uploaded
  BY <1>0 DEF ObjType
<1>3. \A n : obj' = [obj EXCEPT ![x].count = n]
               => obj'[q].name = obj[q].name /\ obj'[q].uploaded = obj[q].uploaded
  BY <1>0 DEF ObjType
<1>4. \A n : obj' = [obj EXCEPT ![x].name = n] => obj'[q].uploaded = obj[q].uploaded
  BY <1>0 DEF ObjType
<1>5. obj' = Trashed(x) => obj'[q].name = obj[q].name /\ obj'[q].uploaded = obj[q].uploaded
  BY <1>0 DEF ObjType, Trashed
<1> QED BY <1>1, <1>2, <1>3, <1>4, <1>5

LEMMA TurnsDo ==
  ASSUME TypeInv, Feed
  PROVE  FeedTurns
<1>0. /\ feed \in FeedType /\ NoChange.pc = "idle" /\ NoChange.todo = {} /\ NoObj \notin Objs
      /\ feed.file.parents \in SUBSET Folders /\ feed.id \in Ids /\ NoObj \in Dirs \cup {NoObj}
  BY ObjFacts DEF TypeInv, NoChange, FeedType, File
<1>1. FeedDoes
  BY FeedStepDoes
<1>2. ASSUME NEW id \in Ids, Fetch(id)
      PROVE  FeedTurns
  <2>1. feed.pc = "idle" /\ id \in news /\ feed'.pc = "apply" /\ feed'.id = id /\ UNCHANGED <<obj, byId>>
    BY <1>2 DEF Fetch, local, NoChange
  <2>2. \E j \in Ids : Fetches(j)
    BY <1>1, <2>1 DEF FeedDoes, Knows, FindsNew
  <2> QED BY <2>1, <2>2 DEF FeedTurns
<1>3. CASE ApplyNothing
  BY <1>3 DEF ApplyNothing, Skips, FeedTurns, local
<1>4. CASE ApplyGone
  <2>1. /\ feed.pc = "apply" /\ feed.file.st = "gone" /\ Known # NoObj /\ obj' = Trashed(Known)
        /\ \/ feed' = NoChange
           \/ feed' = [feed EXCEPT !.pc = "leave", !.kid = Known, !.todo = obj[Known].parents]
    BY <1>4 DEF ApplyGone
  <2>2. Known \in Objs
    BY <1>0, <2>1 DEF Known, TypeInv, AnyObj
  <2>3. \/ feed' = NoChange
        \/ /\ Carries("leave") /\ feed'.kid = Known /\ feed'.at = feed.at
           /\ feed'.todo = obj[Known].parents
    <3> HIDE DEF Known
    <3> QED BY <1>0, <2>1 DEF FeedType, Carries
  <2>4. obj'[Known].trashed
    BY <1>4, <2>2, TrashFacts DEF ApplyGone
  <2>5. Trashes(Known)
    <3>1. held' = held /\ obj' = Trashed(Known) /\ byId' = Erased(Known) /\ Uncounted(Known) \subseteq odd'
      BY <1>4 DEF ApplyGone
    <3>2. \A q \in Objs \ {Known} : SameObj(q)
      BY <2>2, <3>1, TrashFacts DEF SameObj, Kept
    <3> QED BY <2>2, <3>1, <3>2, TrashFacts DEF Trashes
  <2> QED BY <2>1, <2>2, <2>3, <2>5 DEF Buries, FeedTurns
<1>5. CASE ApplyKnown
  <2>1. feed'.pc = "remove" /\ Known \in Objs /\ \A q \in Objs : q # Known => obj'[q] = obj[q]
    BY <1>5, KnownFacts
  <2>2. Knows
    BY <1>0, <1>1, <1>5, <2>1 DEF FeedDoes, Fetches, FindsNew, ApplyKnown, GoesOn
  <2> DEFINE new == feed.file.parents \ Parents(Known)
             todo == Objects(new)
             binned == feed.file.st = "bin"
  <2>3. feed' = [feed EXCEPT !.pc = "remove", !.kid = Known, !.todo = todo] /\ feed.file.st # "gone"
    BY <1>5 DEF ApplyKnown
  <2>4. \A q \in todo : byId[IdOf(q)] = q
    BY <1>0, Constants DEF Objects, TypeInv
  <2>5. obj' = [obj EXCEPT ![Known].trashed = binned, ![Known].uploaded = TRUE, ![Known].name = feed.file.name]
    BY <1>5 DEF ApplyKnown
  <2> HIDE DEF Known, todo, binned
  <2>6. Carries("remove") /\ feed'.at = feed.at /\ feed'.todo = todo
    BY <1>0, <2>3 DEF FeedType, Carries
  <2>7. (obj'[Known].trashed <=> binned) /\ obj'[Known].uploaded /\ obj'[Known].name = feed.file.name
    BY <2>1, <2>5 DEF TypeInv, ObjType
  <2> QED BY <2>1, <2>2, <2>3, <2>4, <2>6, <2>7 DEF Updates, FeedTurns, Settles, binned
<1>6. CASE ApplyNew
  <2>1. PICK k \in 1 .. Copies :
          LET x == <<feed.id, k>> IN
          /\ obj' = [obj EXCEPT ![x] = [NoObject EXCEPT !.known = TRUE, !.uploaded = TRUE,
                       !.trashed = (feed.file.st = "bin"), !.name = feed.file.name]]
          /\ byId' = [byId EXCEPT ![feed.id] = x]
          /\ feed' = IF Objects(feed.file.parents) = {} THEN NoChange
                     ELSE [feed EXCEPT !.pc = "add", !.kid = x, !.todo = Objects(feed.file.parents)]
    BY <1>6 DEF ApplyNew
  <2> DEFINE o == <<feed.id, k>>
             todo == Objects(feed.file.parents)
             binned == feed.file.st = "bin"
             r == [NoObject EXCEPT !.known = TRUE, !.uploaded = TRUE, !.trashed = binned,
                                   !.name = feed.file.name]
  <2>2. o \in Objs /\ feed.pc = "apply" /\ feed.file.st # "gone" /\ Known = NoObj /\ o # NoObj
    BY <1>0, <1>6, ObjFacts DEF ApplyNew
  <2>3. obj' = [obj EXCEPT ![o] = r] /\ byId'[feed.id] = o
    BY <1>0, <2>1 DEF TypeInv
  <2>4. \/ feed' = NoChange /\ todo = {}
        \/ feed' = [feed EXCEPT !.pc = "add", !.kid = o, !.todo = todo]
    BY <2>1
  <2>5. Missing(feed.file.parents) \subseteq odd'
    BY <1>6 DEF ApplyNew
  <2>6. \E x \in Objs : FindsNew(x) /\ byId'[feed.id] = x
    <3>1. ~AllSame /\ Known \notin Objs
      BY <1>0, <2>2, <2>3 DEF AllSame, Known
    <3>2. \E x \in Objs : FindsNew(x)
      BY <1>1, <2>2, <3>1 DEF FeedDoes, Fetches, Knows
    <3> QED BY <1>0, <3>2 DEF FindsNew, TypeInv
  <2>7. FindsNew(o)
    BY <2>3, <2>6
  <2> HIDE DEF o, todo, binned
  <2>8. (r.trashed <=> binned) /\ r.uploaded /\ r.name = feed.file.name
    BY DEF NoObject
  <2> HIDE DEF r
  <2>9. obj'[o] = r /\ \A q \in Objs \ {o} : obj'[q] = obj[q]
    BY <2>2, <2>3 DEF TypeInv
  <2>10. /\ feed' = NoChange \/ (Carries("add") /\ feed'.at = feed.at)
         /\ feed'.todo = todo /\ (feed'.pc = "add" \/ todo = {})
    BY <1>0, <2>4 DEF FeedType, Carries
  <2>11. Plans(feed.file.parents)
    BY <1>0, <2>5, <2>10, PlansDoes DEF todo
  <2> QED BY <2>2, <2>7, <2>8, <2>9, <2>10, <2>11 DEF Brings, FeedTurns, Settles, binned
<1>f. ASSUME NEW x \in Objs, (\E S : obj' = [obj EXCEPT ![x].children = S]) \/ (\E S : obj' = [obj EXCEPT ![x].parents = S])
             \/ obj' = obj
      PROVE  \A q \in Objs : obj'[q].name = obj[q].name /\ obj'[q].uploaded = obj[q].uploaded
  BY <1>f, LinkFields
<1>k. feed.pc \in Feeding \cup {"leave"} => feed.kid \in Objs
  BY DEF TypeInv
<1>t. ASSUME NEW p \in feed.todo
      PROVE  p \in Objs /\ p \in Dirs
  BY <1>0, <1>t, ObjFacts DEF FeedType
<1>7. ASSUME NEW p \in feed.todo, Leave(p)
      PROVE  FeedTurns
  <2>1. /\ feed.pc = "leave" /\ feed' = Loop("leave", feed.todo \ {p}) /\ byId' = byId
        /\ obj' = [obj EXCEPT ![p].children = @ \ {feed.kid}]
    BY <1>7 DEF Leave
  <2>2. feed' = NoChange \/ (Carries("leave") /\ feed'.at = NoObj /\ feed'.todo \subseteq feed.todo /\ feed'.kid = feed.kid)
    BY <1>0, <2>1 DEF Loop, FeedType, Carries
  <2>3. \A q \in Objs : obj'[q].name = obj[q].name /\ obj'[q].uploaded = obj[q].uploaded
    BY <1>f, <1>t, <2>1
  <2> QED BY <2>1, <2>2, <2>3 DEF Leaves, Turns, FeedTurns
<1>8. ASSUME NEW p \in feed.todo, FeedRemoveChild(p)
      PROVE  FeedTurns
  <2>1. /\ feed.pc = "remove" /\ feed' = [feed EXCEPT !.pc = "removeParent", !.at = p] /\ byId' = byId
        /\ obj' = [obj EXCEPT ![p].children = @ \ {feed.kid}]
    BY <1>8 DEF FeedRemoveChild
  <2>2. Unlinks /\ feed'.kid = feed.kid
    BY <2>1, AtFacts DEF Unlinks, Carries
  <2>3. \A q \in Objs : obj'[q].name = obj[q].name /\ obj'[q].uploaded = obj[q].uploaded
    BY <1>f, <1>t, <2>1
  <2> QED BY <2>1, <2>2, <2>3 DEF Turns, FeedTurns
<1>9. ASSUME NEW p \in feed.todo, FeedAddChild(p)
      PROVE  FeedTurns
  <2>1. /\ feed.pc = "add" /\ feed' = [feed EXCEPT !.pc = "addParent", !.at = p] /\ byId' = byId
        /\ AddsChild(p, feed.kid)
    BY <1>9 DEF FeedAddChild
  <2>2. Feeds /\ feed'.kid = feed.kid
    BY <2>1, AtFacts DEF Feeds, Carries, AddsChild
  <2>3. \A q \in Objs : obj'[q].name = obj[q].name /\ obj'[q].uploaded = obj[q].uploaded
    BY <1>f, <1>t, <2>1 DEF AddsChild
  <2> QED BY <2>1, <2>2, <2>3 DEF Turns, FeedTurns
<1>10. CASE FeedRemoveParent
  <2>1. /\ feed.pc = "removeParent" /\ feed' = Loop("remove", feed.todo \ {feed.at}) /\ byId' = byId
        /\ obj' = [obj EXCEPT ![feed.kid].parents = @ \ {feed.at}]
    BY <1>10 DEF FeedRemoveParent
  <2>2. Unfeeds /\ feed'.kid = feed.kid
    BY <1>0, <2>1 DEF Loop, FeedType, Carries, Unfeeds
  <2>3. feed.kid \in Objs
    BY <1>k, <2>1 DEF Feeding
  <2>4. \A q \in Objs : obj'[q].name = obj[q].name /\ obj'[q].uploaded = obj[q].uploaded
    BY <1>f, <2>1, <2>3
  <2> QED BY <2>1, <2>2, <2>4 DEF Turns, FeedTurns
<1>11. CASE FeedAddParent
  <2>1. /\ feed.pc = "addParent" /\ feed' = Loop("add", feed.todo \ {feed.at}) /\ byId' = byId
        /\ obj' = [obj EXCEPT ![feed.kid].parents = @ \cup {feed.at}]
    BY <1>11 DEF FeedAddParent
  <2>2. Goes /\ (feed' = NoChange \/ feed'.kid = feed.kid)
    BY <1>0, <2>1 DEF Loop, FeedType, Carries, Goes
  <2>3. feed.kid \in Objs
    BY <1>k, <2>1 DEF Feeding
  <2>4. \A q \in Objs : obj'[q].name = obj[q].name /\ obj'[q].uploaded = obj[q].uploaded
    BY <1>f, <2>1, <2>3
  <2> QED BY <2>1, <2>2, <2>4 DEF Turns, FeedTurns
<1>12. CASE FeedParents
  <2> DEFINE new == feed.file.parents \ Parents(feed.kid)
             todo == Objects(new)
  <2>1. feed.pc = "remove" /\ feed' = Loop("add", todo) /\ UNCHANGED <<obj, byId>> /\ Missing(new) \subseteq odd'
    BY <1>12 DEF FeedParents, local
  <2>2. new \in SUBSET Folders
    BY <1>0
  <2> HIDE DEF new
  <2> HIDE DEF todo
  <2>3. /\ feed' = NoChange \/ (Carries("add") /\ feed'.at = NoObj)
        /\ feed'.todo = todo /\ (feed'.pc = "add" \/ todo = {})
        /\ feed' = NoChange \/ feed'.kid = feed.kid
    BY <1>0, <2>1 DEF Loop, FeedType, Carries
  <2>4. Plans(new)
    BY <2>1, <2>2, <2>3, PlansDoes DEF todo
  <2> QED BY <2>1, <2>3, <2>4 DEF new, Chooses, Turns, FeedTurns
<1> QED BY <1>2, <1>3, <1>4, <1>5, <1>6, <1>7, <1>8, <1>9, <1>10, <1>11, <1>12 DEF Feed

(* What a request begins at: what the kernel holds, and is found there.    *)
Reached(p) == p \in Objs => p \in Dirs /\ held[p] > 0 /\ obj[p].known

LEMMA StartPoints ==
  ASSUME TypeInv, NEW w \in Workers, Starts(w)
  PROVE  LET r == op'[w] IN
         /\ op[w].pc = "idle" /\ r \in OpType /\ \A v \in Workers \ {w} : op'[v] = op[v]
         /\ r.kid \in Objs /\ r.dir \in Dirs /\ Reached(r.dir) /\ Reached(r.to)
         /\ \/ r.pc = "insert" /\ Fresh(IdOf(r.kid))
            \/ r.pc \in {"found", "wait", "drop", "take", "name"} /\ r.kid \in obj[r.dir].children
         /\ r.pc \in {"wait", "drop", "take", "name"} => Exclusive({r.dir, r.kid})
         /\ r.pc \in {"take", "name"} <=> r.req = "rename"
         /\ r.req = "rmdir" => IsFolder(r.kid)
         /\ r.pc = "name" => r.to = r.dir
         /\ r.pc = "take" => /\ r.to # r.dir
                             /\ \/ obj[r.kid].uploaded /\ ~Underway(IdOf(r.kid))
                                \/ IdOf(r.kid) \in odd'
<1>1. PICK dir \in Objs :
        /\ Enters(w, dir)
        /\ \/ \E c \in obj[dir].children :
                \/ Lookup(w, dir, c) \/ Unlink(w, dir, c) \/ Rmdir(w, dir, c)
                \/ \E to \in Objs, name \in Names : Rename(w, dir, c, to, name)
           \/ \E id \in Ids, name \in Names : Create(w, dir, id, name) \/ Mkdir(w, dir, id, name)
  BY DEF Starts
<1>2. op \in [Workers -> OpType] /\ NoObj \notin Objs /\ dir \in Dirs /\ held[dir] > 0 /\ obj[dir].known
      /\ op[w].pc = "idle" /\ \A c \in obj[dir].children : c \in Objs
  BY <1>1, ObjFacts DEF TypeInv, Enters, Dirs, ObjType
<1>b. ASSUME NEW r \in OpType, Begins(w, r)
      PROVE  op'[w] = r /\ \A v \in Workers \ {w} : op'[v] = op[v]
  BY <1>b, SetFacts DEF Begins
<1>h. \A c, req, pc : Finds(w, dir, c, req, pc) => op'[w].to = NoObj /\ op'[w].req = req
  BY <1>2 DEF Finds, Idle
<1>m. \A id, name, req : Makes(w, dir, id, name, req) => op'[w].to = NoObj /\ op'[w].req = req
  BY <1>2 DEF Makes, Idle
<1>3. ASSUME NEW c \in obj[dir].children, Lookup(w, dir, c)
      PROVE  /\ op'[w] \in OpType /\ \A v \in Workers \ {w} : op'[v] = op[v]
             /\ op'[w].pc = "found" /\ op'[w].kid = c /\ op'[w].dir = dir /\ op'[w].req = "lookup"
             /\ op'[w].to = NoObj
  <2>1. op'[w].to = NoObj
    BY <1>2, <1>3 DEF Lookup, Idle
  <2> QED BY <1>1, <1>3, <1>b, <2>1, LookupBegins
<1>4. ASSUME NEW c \in obj[dir].children, Unlink(w, dir, c) \/ Rmdir(w, dir, c)
      PROVE  /\ op'[w] \in OpType /\ \A v \in Workers \ {w} : op'[v] = op[v]
             /\ op'[w].pc \in {"wait", "drop"} /\ op'[w].kid = c /\ op'[w].dir = dir
             /\ op'[w].req \in {"unlink", "rmdir"} /\ (op'[w].req = "rmdir" => IsFolder(c))
             /\ op'[w].to = NoObj /\ Exclusive({dir, c})
  <2>1. op'[w].to = NoObj /\ Exclusive({dir, c})
    BY <1>4, <1>h DEF Unlink, Rmdir
  <2>2. op'[w].req = "rmdir" => IsFolder(c)
    BY <1>h, <1>4 DEF Unlink, Rmdir
  <2> QED BY <1>1, <1>4, <1>b, <2>1, <2>2, UnlinkBegins
<1>5. ASSUME NEW c \in obj[dir].children, NEW to \in Objs, NEW name \in Names, Rename(w, dir, c, to, name)
      PROVE  /\ op'[w] \in OpType /\ \A v \in Workers \ {w} : op'[v] = op[v]
             /\ op'[w].pc = IF to = dir THEN "name" ELSE "take"
             /\ op'[w].kid = c /\ op'[w].dir = dir /\ op'[w].req = "rename"
             /\ op'[w].to = to /\ Exclusive({dir, c}) /\ to \in Dirs /\ held[to] > 0 /\ obj[to].known
             /\ to # dir => (obj[c].uploaded /\ ~Underway(IdOf(c))) \/ IdOf(c) \in odd'
  <2>1. op'[w].to = to
    BY <1>2, <1>5 DEF Rename
  <2>2. Exclusive({dir, to, c}) /\ to \in Dirs /\ held[to] > 0 /\ obj[to].known
    BY <1>5 DEF Rename, Dirs
  <2>3. Exclusive({dir, c})
    BY <2>2 DEF Exclusive
  <2>4. to # dir => (obj[c].uploaded /\ ~Underway(IdOf(c))) \/ IdOf(c) \in odd'
    <3> HIDE DEF Underway
    <3> QED BY <1>5 DEF Rename
  <2> QED BY <1>1, <1>5, <1>b, <2>1, <2>2, <2>3, <2>4, RenameBegins
<1>6. ASSUME NEW id \in Ids, NEW name \in Names, Create(w, dir, id, name) \/ Mkdir(w, dir, id, name)
      PROVE  /\ op'[w] \in OpType /\ \A v \in Workers \ {w} : op'[v] = op[v]
             /\ op'[w].pc = "insert" /\ op'[w].kid \in Objs /\ Fresh(IdOf(op'[w].kid))
             /\ op'[w].dir = dir /\ op'[w].to = NoObj /\ op'[w].req \in {"create", "mkdir"}
  <2>1. op'[w].to = NoObj /\ Fresh(id) /\ op'[w].req \in {"create", "mkdir"}
    BY <1>6, <1>m DEF Create, Mkdir
  <2> QED BY <1>1, <1>6, <1>b, <2>1, MakeBegins, ObjFacts
<1>7. CASE \E c \in obj[dir].children : Lookup(w, dir, c)
  BY <1>2, <1>3, <1>7 DEF Reached
<1>8. CASE \E c \in obj[dir].children : Unlink(w, dir, c) \/ Rmdir(w, dir, c)
  BY <1>2, <1>4, <1>8 DEF Reached
<1>9. CASE \E c \in obj[dir].children : \E to \in Objs, name \in Names : Rename(w, dir, c, to, name)
  BY <1>2, <1>5, <1>9 DEF Reached
<1>10. CASE \E id \in Ids, name \in Names : Create(w, dir, id, name) \/ Mkdir(w, dir, id, name)
  BY <1>2, <1>6, <1>10 DEF Reached
<1> QED BY <1>1, <1>7, <1>8, <1>9, <1>10

LEMMA TurnDo ==
  ASSUME TypeInv, OpInv, Next
  PROVE  \/ feed' = feed
         \/ Feed /\ FeedTurns /\ FeedDoes /\ op' = op /\ held' = held /\ ev' = ev
<1>1. ASSUME NEW w \in Workers, Starts(w) \/ Step(w)
      PROVE  feed' = feed
  BY <1>1, StartDoes, StepDoes
<1>2. ASSUME NEW o \in Objs, Forget(o) \/ Store(o) \/ Mark(o)
      PROVE  feed' = feed
  BY <1>2, ForgetDoes, MarkDoes DEF Forgets
<1> QED BY <1>1, <1>2, OthersDoes, FeedStepDoes, TurnsDo DEF Next, Outside

(* The feed is at one change until it is done with it.                     *)
LEMMA FeedKeeps ==
  ASSUME TypeInv, OpInv, Next, feed'.pc # "idle"
  PROVE  \/ feed'.id = feed.id /\ feed'.file = feed.file /\ feed.pc # "idle"
         \/ \E id \in Ids : Fetches(id)
<1>1. NoChange.pc = "idle"
  BY DEF NoChange
<1> QED BY <1>1, TurnDo DEF FeedTurns, Skips, Buries, Updates, Knows, Brings, FindsNew, Turns, Leaves,
           Unlinks, Chooses, Unfeeds, Feeds, Goes, Carries

(* What the feed is at it found in idToObject, or as a parent.             *)
LEMMA FeedPoints ==
  ASSUME TypeInv, OpInv, Next, NEW q \in Objs, q = feed'.kid \/ q = feed'.at \/ q \in feed'.todo
  PROVE  \/ q = feed.kid \/ q = feed.at \/ q \in feed.todo
         \/ byId[IdOf(q)] = q \/ byId'[IdOf(q)] = q
         \/ \E o \in Objs : q \in obj[o].parents
<1>1. /\ NoChange.kid = NoObj /\ NoChange.at = NoObj /\ NoChange.todo = {} /\ NoObj \notin Objs
      /\ feed.id \in Ids
  BY ObjFacts DEF NoChange, TypeInv, FeedType
<1>2. CASE feed' = feed
  BY <1>2
<1>3. ASSUME NEW id \in Ids, Fetches(id), Feed
      PROVE  feed'.kid = NoObj /\ feed'.at = NoObj /\ feed'.todo = {}
  <2>1. PICK j \in Ids : Fetch(j)
    BY <1>3, <1>1 DEF Feed, Fetches, ApplyNothing, ApplyGone, ApplyKnown, ApplyNew, Leave,
       FeedRemoveChild, FeedAddChild, FeedRemoveParent, FeedParents, FeedAddParent
  <2> QED BY <2>1 DEF Fetch, NoChange
<1>4. CASE Skips
  BY <1>1, <1>4 DEF Skips
<1>5. CASE Buries
  BY <1>1, <1>5 DEF Buries, Known, TypeInv
<1>6. CASE Updates
  BY <1>6 DEF Updates, Knows, Known
<1>7. ASSUME NEW o \in Objs, Brings(o)
      PROVE  \/ q = feed.at \/ byId[IdOf(q)] = q \/ byId'[IdOf(q)] = q
  <2>1. IdOf(o) = feed.id /\ byId'[feed.id] = o
    BY <1>1, <1>7 DEF Brings, FindsNew, TypeInv
  <2> QED BY <1>1, <1>7, <2>1 DEF Brings, FindsNew, Plans
<1>8. CASE Turns
  BY <1>1, <1>8 DEF Turns, Leaves, Unlinks, Chooses, Unfeeds, Feeds, Goes, Plans
<1> QED BY <1>1, <1>2, <1>3, <1>4, <1>5, <1>6, <1>7, <1>8, TurnDo DEF FeedTurns

(* Who takes a child off a folder.                                         *)
TakesOff(w, p, c) == /\ Starts(w) /\ op'[w].kid = c /\ op'[w].dir = p /\ op'[w].req = "unlink"
                     /\ \/ op'[w].pc = "wait" /\ obj[c].uploaded
                        \/ op'[w].pc = "drop" /\ IdOf(c) \in odd'
Drops(w, p, c)    == /\ Step(w) /\ op[w].pc \in {"off", "unchild", "take"}
                     /\ op[w].kid = c /\ op[w].dir = p

LEMMA LosesDo ==
  ASSUME TypeInv, OpInv, Next, NEW p \in Objs, NEW c \in Objs, In(p, c), c \notin obj'[p].children
  PROVE  \/ \E w \in Workers : TakesOff(w, p, c) \/ Drops(w, p, c)
         \/ feed.pc = "leave" /\ feed.kid = c
         \/ Unlinks /\ feed.kid = c /\ feed'.kid = c /\ p \in feed.todo
         \/ \E w \in Workers : Inserts(w) /\ op[w].kid = p
         \/ FindsNew(p)
<1>a. ~AllSame
  BY DEF In, AllSame, SameObj
<1>b. \A q, x : Adds(q, x) \/ Parented(q, x) => FALSE
  BY DEF In, Adds, Parented
<1>l. \A q, x : Loses(q, x) => p = q /\ c = x
  BY DEF In, Loses
<1>t. \A x \in Objs : ~Trashes(x)
  BY DEF In, Trashes
<1>1. ASSUME NEW w \in Workers, Starts(w)
      PROVE  TakesOff(w, p, c)
  <2>1. PICK r \in OpType : Begins(w, r) /\ (Looks(r) \/ Makers(r) \/ Removes(r) \/ Renames(r))
    BY <1>1, StartDoes
  <2>2. Removes(r) /\ Loses(r.dir, r.kid) /\ r.req = "unlink" /\ op'[w] = r
    BY <1>a, <1>t, <2>1, SetFacts DEF Begins, Looks, Makers, Removes, Renames
  <2>3. p = r.dir /\ c = r.kid
    BY <1>l, <2>2
  <2> QED BY <1>1, <2>2, <2>3 DEF Removes, TakesOff
<1>2. ASSUME NEW w \in Workers, Step(w)
      PROVE  Drops(w, p, c) \/ (Inserts(w) /\ op[w].kid = p)
  <2>1. op[w].kid \in Objs /\ Does(w)
    BY <1>2, StepDoes
  <2>2. ~Quietly(w) /\ ~Counts(w)
    BY <1>a DEF Quietly, Counts, In
  <2>3. Inserts(w) => op[w].kid = p
    BY DEF Inserts, In, SameObj
  <2>4. CASE op[w].pc \in {"off", "unchild", "take"} /\ Loses(op[w].dir, op[w].kid)
    BY <1>2, <1>l, <2>4 DEF Drops
  <2> QED BY <1>b, <1>t, <2>1, <2>2, <2>3, <2>4 DEF Does
<1>3. ASSUME NEW o \in Objs, Forget(o)
      PROVE  FALSE
  BY <1>3, ForgetDoes DEF Forgets, In
<1>4. ASSUME NEW o \in Objs, Store(o) \/ Mark(o)
      PROVE  FALSE
  BY <1>4, <1>a, MarkDoes
<1>5. ~Outside
  BY <1>a, OthersDoes
<1>6. CASE Feed
  <2>1. FeedDoes
    BY <1>6, FeedStepDoes
  <2>2. ~Knows
    BY DEF Knows, In, SameObj
  <2>3. \A o \in Objs : FindsNew(o) => o = p
    BY DEF FindsNew, In, SameObj
  <2>4. CASE \E o \in Objs : FindsNew(o)
    BY <2>3, <2>4
  <2>5. CASE feed.pc = "leave" /\ (\E q \in Objs : Loses(q, feed.kid))
    BY <1>l, <2>5
  <2>6. CASE feed.pc = "remove" /\ feed'.pc = "removeParent"
    <3>1. PICK q \in feed.todo : FeedRemoveChild(q)
      <4>1. ~FeedParents
        <5>1. feed \in FeedType
          BY DEF TypeInv
        <5>2. \A S : feed' = Loop("add", S) => feed'.pc # "removeParent"
          BY <5>1 DEF Loop, NoChange, FeedType
        <5> QED BY <2>6, <5>2 DEF FeedParents
      <4> QED BY <1>6, <2>6, <4>1 DEF Feed, Fetch, ApplyNothing, ApplyGone, ApplyKnown, ApplyNew,
                 Leave, FeedAddChild, FeedRemoveParent, FeedAddParent
    <3>2. q \in Objs /\ obj' = [obj EXCEPT ![q].children = @ \ {feed.kid}]
      BY <3>1, ObjFacts DEF FeedRemoveChild, TypeInv, FeedType
    <3>3. p = q /\ c = feed.kid
      BY <3>2 DEF In, TypeInv, ObjType
    <3>4. feed'.at = q /\ feed'.todo = feed.todo /\ Carries("removeParent") /\ feed'.kid = feed.kid
      BY <3>1, AtFacts DEF FeedRemoveChild, Carries
    <3> QED BY <2>6, <3>3, <3>4 DEF Unlinks
  <2> QED BY <1>a, <1>b, <1>t, <2>1, <2>2, <2>4, <2>5, <2>6 DEF FeedDoes, Fetches
<1> QED BY <1>1, <1>2, <1>3, <1>4, <1>5, <1>6 DEF Next, Outside

(* What makes an object one that is not uploaded, or gives it a name.      *)
LEMMA FieldsDo ==
  ASSUME TypeInv, OpInv, Next, NEW c \in Objs
  PROVE  \/ obj[c].uploaded => obj'[c].uploaded
         \/ \E w \in Workers : Inserts(w) /\ op[w].kid = c
<1> DEFINE Goal == \/ obj[c].uploaded => obj'[c].uploaded
                   \/ \E w \in Workers : Inserts(w) /\ op[w].kid = c
<1>f. ASSUME NEW x \in Objs,
             \/ obj' = obj \/ obj' = Trashed(x)
             \/ \E S : obj' = [obj EXCEPT ![x].children = S]
             \/ \E S : obj' = [obj EXCEPT ![x].parents = S]
             \/ \E n : obj' = [obj EXCEPT ![x].count = n]
             \/ \E n : obj' = [obj EXCEPT ![x].name = n]
      PROVE  obj'[c].uploaded = obj[c].uploaded
  BY <1>f, LinkFields
<1>1. ASSUME NEW w \in Workers, Starts(w)
      PROVE  Goal
  BY <1>1, StartUploads
<1>2. ASSUME NEW w \in Workers, Step(w)
      PROVE  Goal
  <2>1. op[w].kid \in Objs /\ (op[w].pc # "idle" => op[w].dir \in Objs)
        /\ (op[w].pc \in {"take", "give", "name", "save", "tell"} => op[w].to \in Objs)
    BY <1>2, StepDoes, ObjFacts DEF OpInv, OpOK
  <2>2. CASE Insert(w)
    <3>1. Does(w) /\ op[w].pc = "insert"
      BY <1>2, <2>2, StepDoes DEF Insert
    <3>2. Inserts(w)
      BY <3>1 DEF Does, Quietly, Counts
    <3>3. CASE op[w].kid # c
      BY <2>1, <2>2, <3>3 DEF Insert, TypeInv
    <3> QED BY <3>2, <3>3
  <2>3. CASE Drop(w) \/ Finish(w)
    BY <1>f, <2>1, <2>3 DEF Drop, Finish
  <2>4. CASE AddChild(w) \/ Give(w)
    BY <1>f, <2>1, <2>4 DEF AddChild, Give, AddsChild
  <2>5. CASE RemoveChild(w) \/ Take(w)
    BY <1>f, <2>1, <2>5 DEF RemoveChild, Take
  <2>6. CASE AddParent(w) \/ RemoveParent(w)
    BY <1>f, <2>1, <2>6 DEF AddParent, RemoveParent
  <2>7. CASE LookupReply(w) \/ MakeReply(w)
    BY <1>f, <2>1, <2>7 DEF LookupReply, MakeReply
  <2>8. CASE SetName(w)
    BY <1>f, <2>1, <2>8 DEF SetName
  <2>9. CASE Wait(w) \/ Delete(w) \/ DeleteRefused(w) \/ Detach(w) \/ Save(w) \/ Tell(w) \/ TellRefused(w)
    BY <2>9 DEF Wait, Delete, DeleteRefused, Detach, Save, Tell, TellRefused, local
  <2> QED BY <1>2, <2>2, <2>3, <2>4, <2>5, <2>6, <2>7, <2>8, <2>9 DEF Step
<1>3. ASSUME NEW o \in Objs, Forget(o)
      PROVE  Goal
  BY <1>3 DEF Forget, local, TypeInv, ObjType
<1>4. ASSUME NEW o \in Objs, Store(o) \/ Mark(o)
      PROVE  Goal
  BY <1>4 DEF Store, Mark, local, TypeInv, ObjType
<1>5. Outside => Goal
  <2>1. Others => UNCHANGED local
    BY DEF Others, Move, Appear, Bin, Restore, Remove, Retitle, Sweep, Change
  <2>2. Crashes => UNCHANGED local
    BY DEF Crashes, MkdirRefused
  <2> QED BY <2>1, <2>2 DEF Outside, local
<1>6. CASE Feed
  <2>1. FeedTurns
    BY <1>6, TurnsDo
  <2>2. Buries => Goal
    BY <1>f DEF Buries
  <2>3. Updates => Goal
    BY DEF Updates, Settles
  <2>4. \A o \in Objs : Brings(o) => Goal
    BY DEF Brings, Settles
  <2> QED BY <2>1, <2>2, <2>3, <2>4 DEF FeedTurns, Skips, Turns
<1> QED BY <1>1, <1>2, <1>3, <1>4, <1>5, <1>6 DEF Next, Outside

LEMMA NamesDo ==
  ASSUME TypeInv, OpInv, Next, NEW c \in Objs
  PROVE  \/ obj'[c].name = obj[c].name
         \/ \E w \in Workers : Step(w) /\ op[w].pc \in {"insert", "name"} /\ op[w].kid = c
         \/ feed.pc = "apply" /\ feed.id = IdOf(c) /\ Renews(IdOf(c))
<1> DEFINE Goal == \/ obj'[c].name = obj[c].name
                   \/ \E w \in Workers : Step(w) /\ op[w].pc \in {"insert", "name"} /\ op[w].kid = c
                   \/ feed.pc = "apply" /\ feed.id = IdOf(c) /\ Renews(IdOf(c))
<1>f. ASSUME NEW x \in Objs,
             \/ obj' = obj \/ obj' = Trashed(x)
             \/ \E S : obj' = [obj EXCEPT ![x].children = S]
             \/ \E S : obj' = [obj EXCEPT ![x].parents = S]
             \/ \E n : obj' = [obj EXCEPT ![x].count = n]
      PROVE  obj'[c].name = obj[c].name
  BY <1>f, LinkFields
<1>1. ASSUME NEW w \in Workers, Starts(w)
      PROVE  obj'[c].name = obj[c].name
  <2>0. \A p \in Objs : \A x \in obj[p].children : x \in Objs
    BY DEF TypeInv, ObjType
  <2>1. \A dir, x : Lookup(w, dir, x) \/ Rmdir(w, dir, x) => obj' = obj
    BY DEF Lookup, Rmdir, local
  <2>2. \A dir \in Objs : \A x : Unlink(w, dir, x) => obj'[c].name = obj[c].name
    BY <1>f DEF Unlink
  <2>3. \A dir, x, name : \A to \in Objs : Rename(w, dir, x, to, name) => obj'[c].name = obj[c].name
    BY <1>f, <2>0 DEF Rename, local, Named
  <2>4. \A dir, id, name : Create(w, dir, id, name) \/ Mkdir(w, dir, id, name) => obj' = obj
    BY DEF Create, Mkdir, local
  <2> QED BY <1>1, <1>f, <2>1, <2>2, <2>3, <2>4 DEF Starts
<1>2. ASSUME NEW w \in Workers, Step(w)
      PROVE  Goal
  <2>1. op[w].kid \in Objs /\ (op[w].pc # "idle" => op[w].dir \in Objs)
        /\ (op[w].pc \in {"take", "give", "name", "save", "tell"} => op[w].to \in Objs)
    BY <1>2, StepDoes, ObjFacts DEF OpInv, OpOK
  <2>2. CASE Insert(w) \/ SetName(w)
    <3>1. op[w].pc \in {"insert", "name"}
      BY <2>2 DEF Insert, SetName
    <3>2. CASE op[w].kid # c
      BY <2>1, <2>2, <3>2 DEF Insert, SetName, TypeInv
    <3> QED BY <1>2, <3>1, <3>2
  <2>3. CASE Drop(w) \/ Finish(w)
    BY <1>f, <2>1, <2>3 DEF Drop, Finish
  <2>4. CASE AddChild(w) \/ Give(w)
    BY <1>f, <2>1, <2>4 DEF AddChild, Give, AddsChild
  <2>5. CASE RemoveChild(w) \/ Take(w)
    BY <1>f, <2>1, <2>5 DEF RemoveChild, Take
  <2>6. CASE AddParent(w) \/ RemoveParent(w)
    BY <1>f, <2>1, <2>6 DEF AddParent, RemoveParent
  <2>7. CASE LookupReply(w) \/ MakeReply(w)
    BY <1>f, <2>1, <2>7 DEF LookupReply, MakeReply
  <2>8. CASE Wait(w) \/ Delete(w) \/ DeleteRefused(w) \/ Detach(w) \/ Save(w) \/ Tell(w) \/ TellRefused(w)
    BY <2>8 DEF Wait, Delete, DeleteRefused, Detach, Save, Tell, TellRefused, local
  <2> QED BY <1>2, <2>2, <2>3, <2>4, <2>5, <2>6, <2>7, <2>8 DEF Step
<1>3. ASSUME NEW o \in Objs, Forget(o)
      PROVE  Goal
  BY <1>3 DEF Forget, local, TypeInv, ObjType
<1>4. ASSUME NEW o \in Objs, Store(o) \/ Mark(o)
      PROVE  Goal
  BY <1>4 DEF Store, Mark, local, TypeInv, ObjType
<1>5. Outside => Goal
  <2>1. Others => UNCHANGED local
    BY DEF Others, Move, Appear, Bin, Restore, Remove, Retitle, Sweep, Change
  <2>2. Crashes => UNCHANGED local
    BY DEF Crashes, MkdirRefused
  <2> QED BY <2>1, <2>2 DEF Outside, local
<1>6. CASE Feed
  <2>1. FeedTurns
    BY <1>6, TurnsDo
  <2>2. Buries => Goal
    BY <1>f DEF Buries
  <2>3. Updates => Goal
    BY DEF Updates, Knows, Renews
  <2>4. \A o \in Objs : Brings(o) => Goal
    BY DEF Brings, FindsNew, Renews
  <2> QED BY <2>1, <2>2, <2>3, <2>4 DEF FeedTurns, Skips, Turns
<1> QED BY <1>1, <1>2, <1>3, <1>4, <1>5, <1>6 DEF Next, Outside

(* Where a thread goes from where it is.                                   *)
LEMMA StepIs ==
  ASSUME NEW w \in Workers, Step(w)
  PROVE  /\ op[w].pc = "insert" => Insert(w)
         /\ op[w].pc = "addChild" => AddChild(w)
         /\ op[w].pc = "addParent" => AddParent(w)
         /\ op[w].pc = "take" => Take(w)
         /\ op[w].pc = "give" => Give(w)
         /\ op[w].pc = "name" => SetName(w)
         /\ op[w].pc = "save" => Save(w)
         /\ op[w].pc = "tell" => Tell(w) \/ TellRefused(w)
         /\ op[w].pc = "detach" => RemoveParent(w)
         /\ op[w].pc = "wait" => Wait(w)
         /\ op[w].pc = "remove" => Delete(w) \/ DeleteRefused(w) \/ Detach(w)
BY DEF Step, LookupReply, Insert, AddChild, AddParent, MakeReply, Drop, RemoveParent, Wait, Delete,
   DeleteRefused, RemoveChild, Finish, Detach, Take, Give, SetName, Save, Tell, TellRefused

LEMMA StepGoes ==
  ASSUME TypeInv, OpInv, NEW w \in Workers, Step(w)
  PROVE  LET q == op[w]
             r == op'[w]
         IN
         /\ q.pc = "take" => r.pc = "give"
         /\ q.pc = "give" => r.pc = "name"
         /\ q.pc = "name" => r.pc = "save"
         /\ q.pc = "save" => r.pc = "tell" \/ (r = Idle /\ ~obj[q.kid].uploaded)
         /\ q.pc = "tell" => r = Idle
         /\ q.pc = "addChild" => r.pc = "addParent"
         /\ q.pc = "addParent" => r.pc = "assert"
         /\ q.pc = "insert" => r.pc = "addChild"
         /\ q.pc # "detach"
         /\ q.pc = "wait" /\ q.req = "unlink" => r.pc = "remove"
         /\ q.pc = "remove" /\ q.req = "unlink" =>
              \/ r.pc \in {"unchild", "detach"} \/ IdOf(q.kid) \in odd'
<1>1. /\ \A pc \in Steps : Go(w, pc) => op'[w].pc = pc
      /\ Done(w) => op'[w] = Idle
      /\ {"give", "name", "save", "tell", "addParent", "addChild", "assert", "remove", "unchild", "detach"} \subseteq Steps
  BY GoFacts, DoneFacts DEF Steps
<1>2. op[w].pc # "detach"
  <2> SUFFICES ASSUME op[w].pc = "detach"
               PROVE  FALSE
    OBVIOUS
  <2>1. ev[op[w].kid] = w /\ ev[op[w].kid] = "free"
    BY StepIs DEF RemoveParent, OpInv, Keeping
  <2> QED BY <2>1, NamespaceAssumption
<1>3. Save(w) => op'[w].pc = "tell" \/ (op'[w] = Idle /\ ~obj[op[w].kid].uploaded)
  <2>1. CASE obj[op[w].kid].uploaded
    BY <2>1 DEF Save, TypeInv, OpType
  <2> QED BY <1>1, <2>1 DEF Save
<1> QED BY <1>1, <1>2, <1>3, StepIs DEF Insert, AddChild, AddParent, Take, Give, SetName, Tell, TellRefused,
          Wait, Delete, DeleteRefused, Detach

(* What comes to be on the server, and what ceases to be.                  *)
LEMMA BornDo ==
  ASSUME TypeInv, OpInv, Next, NEW id \in Ids
  PROVE  /\ srv[id].st = "gone" => srv'[id].st = "gone"
         /\ srv'[id].st \in {"here", "bin"} /\ srv[id].st \notin {"here", "bin"} =>
              /\ srv[id].st = "none" /\ id \in news' /\ UNCHANGED Local
              /\ Fresh(id) \/ \E o \in Objs : IdOf(o) = id /\ Uploads(o)
<1>1. srv[id].st = "gone" => srv'[id].st = "gone"
  BY CloudDoes DEF Heard
<1>2. \A o \in Objs : Uploads(o) => srv[IdOf(o)].st = "none"
  BY DEF Uploads, Store
<1>3. Fresh(id) => srv[id].st = "none"
  BY DEF Fresh
<1>4. srv[id] \in File
  BY DEF TypeInv
<1>5. \/ srv'[id] = srv[id]
      \/ id \in news' /\ Changes(id)
  BY SrvDo
<1>6. srv'[id].st # srv[id].st => UNCHANGED Local
  BY Apart
<1> QED BY <1>1, <1>2, <1>3, <1>4, <1>5, <1>6 DEF Changes, Fades, Stays, Tells, Frees, Founds, Appears, Moved, File

(* What is put into a folder, and what is taken out of one.                *)
LEMMA ParentsOn ==
  ASSUME TypeInv, OpInv, Next, NEW id \in Ids, srv[id].st \in {"here", "bin"}, srv'[id].st \in {"here", "bin"},
         id \notin odd', srv'[id].parents # srv[id].parents
  PROVE  /\ UNCHANGED Local
         /\ \/ \E w \in Workers : Tells(w, id) /\ op[w].to # op[w].dir
            \/ \E w \in Workers : Frees(w, id)
<1>1. id \in news' /\ Changes(id)
  BY SrvDo
<1>2. ~Fresh(id) /\ \A o \in Objs : Uploads(o) => IdOf(o) # id
  BY DEF Fresh, Uploads, Store
<1>3. UNCHANGED Local
  BY Apart
<1> QED BY <1>1, <1>2, <1>3 DEF Changes, Fades, Stays, Tells, Frees, Founds, Appears, Moved

(* One thread at a time changes a file.                                    *)
LEMMA OneAt ==
  ASSUME TypeInv, OpInv, TaskInv, FreeInv, OneInv, NEW v \in Workers, NEW w \in Workers,
         op[v].pc \notin {"idle", "found"}, op[w].pc \notin {"idle", "found"},
         IdOf(op[v].kid) = IdOf(op[w].kid), Sound(op[w].kid), srv[IdOf(op[w].kid)].st # "gone"
  PROVE  v = w
<1>1. /\ op[v].kid \in Objs /\ op[w].kid \in Objs /\ Sound(op[v].kid)
      /\ Changing(op[v]) /\ Changing(op[w])
  BY DEF OpInv, OpOK, Sound, Changing
<1>2. CASE op[v].pc = "insert" /\ op[w].pc = "insert"
  <2>1. op[v].kid = op[w].kid
    BY <1>2 DEF FreeInv
  <2> QED BY <1>1, <2>1 DEF TaskInv
<1>3. op[v].pc # "insert" => Busy(op[v].kid)
  BY DEF Busy
<1>4. op[w].pc # "insert" => Busy(op[w].kid)
  BY DEF Busy
<1>5. CASE op[v].pc # "insert" /\ op[w].pc # "insert"
  <2>1. op[v].kid = op[w].kid
    BY <1>1, <1>3, <1>4, <1>5 DEF OneInv, Ended
  <2> QED BY <1>1, <2>1 DEF TaskInv
<1> QED BY <1>1, <1>2, <1>3, <1>4, <1>5 DEF FreeInv

(* While a file is not gone its object stays.                              *)
LEMMA MainKept ==
  ASSUME TypeInv, OpInv, TaskInv, LinkInv, FileInv, GoneInv, FreeInv, Next,
         NEW q \in Objs, Sound(q)', Main(q), srv'[IdOf(q)].st # "gone"
  PROVE  /\ byId'[IdOf(q)] = q
         /\ obj'[q].trashed = obj[q].trashed \/ Renews(IdOf(q))
<1>1. Sound(q) /\ IdOf(q) \in Ids /\ q # NoObj
  BY ObjFacts, FeedDo DEF Sound
<1>2. srv[IdOf(q)].st # "gone"
  BY <1>1, BornDo
<1>3. \A w \in Workers : ~Marks(w, IdOf(q))
  <2> SUFFICES ASSUME NEW w \in Workers, Marks(w, IdOf(q))
               PROVE  FALSE
    OBVIOUS
  <2>1. op[w].pc = "mark" /\ IdOf(op[w].kid) = IdOf(q) /\ op[w].req = "unlink"
    BY DEF Marks, OpInv, OpOK
  <2> QED BY <1>1, <1>2, <2>1 DEF GoneInv, Sound
<1>4. ~Forsakes(IdOf(q))
  BY <1>2 DEF Forsakes, FileInv
<1>5. ~Inserting(IdOf(q))
  BY <1>1 DEF Inserting, Inserts, FreeInv, Sound, Main
<1>6. Renews(IdOf(q)) => byId'[IdOf(q)] = q
  BY <1>1 DEF Renews, Knows, FindsNew, Main, Known
<1> QED BY <1>3, <1>4, <1>5, <1>6, EndsDo DEF Main

-----------------------------------------------------------------------------
(* Every step keeps them.                                                  *)

LEMMA PristineKept ==
  ASSUME TypeInv, OpInv, MakeInv, Next, NEW q \in Objs, Pristine(q), byId[IdOf(q)] # q
  PROVE  Pristine(q)' \/ byId'[IdOf(q)] = q
<1> SUFFICES ASSUME byId'[IdOf(q)] # q
             PROVE  Pristine(q)'
  OBVIOUS
<1>0. IdOf(q) \in Ids /\ q # NoObj
  BY ObjFacts
<1>1. \A w \in Workers : ~(Inserts(w) /\ op[w].kid = q)
  BY <1>0 DEF Inserts, TypeInv
<1>2. ~FindsNew(q)
  BY <1>0 DEF FindsNew, TypeInv
<1>3. ~obj'[q].known
  BY <1>1, <1>2, KnownDo DEF Pristine
<1>4. held[q] = 0 /\ held'[q] = 0
  <2>1. held'[q] \in Nat
    BY NextType DEF TypeInv
  <2> QED BY <2>1, HeldDo DEF Pristine
<1>5. ASSUME NEW w \in Workers
      PROVE  q # op'[w].dir /\ q # op'[w].to /\ (q = op'[w].kid => op'[w].pc = "insert")
  <2>1. CASE op'[w] = op[w]
    BY <2>1 DEF Pristine
  <2>2. CASE Starts(w)
    <3>1. /\ op'[w].dir \in Objs /\ held[op'[w].dir] > 0
          /\ op'[w].to \in Objs => held[op'[w].to] > 0
          /\ op'[w].pc = "insert" \/ op'[w].kid \in obj[op'[w].dir].children
      BY <2>2, StartPoints, ObjFacts DEF Reached
    <3> QED BY <1>4, <3>1 DEF Pristine
  <2>3. CASE Step(w) /\ op'[w] # Idle
    <3>1. op'[w].dir = op[w].dir /\ op'[w].to = op[w].to /\ op'[w].kid = op[w].kid
      BY <2>3, StepFlow DEF Flow
    <3>2. CASE q = op[w].kid
      <4>1. op[w].pc = "insert"
        BY <3>2 DEF Pristine
      <4>2. Inserts(w)
        BY <2>3, <4>1, StepDoes DEF Does, Quietly, Counts
      <4> QED BY <1>1, <3>2, <4>2
    <3> QED BY <3>1, <3>2 DEF Pristine
  <2>4. CASE op'[w] = Idle
    BY <1>0, <2>4 DEF Idle
  <2> QED BY <2>1, <2>2, <2>3, <2>4, OpsDo
<1>6. \A o \in Objs : q \notin obj'[o].children
  BY ChildrenDo DEF Pristine, Puts, Gives, Links
<1>7. \A o \in Objs : q \notin obj'[o].parents
  BY ParentsDo DEF Pristine, Orphan, Made, Fed, Unfed
<1>8. obj'[q].children = {}
  <2>1. \A c \in obj'[q].children : c \in Objs
    BY NextType DEF TypeInv, ObjType
  <2>2. ASSUME NEW c \in obj'[q].children
        PROVE  FALSE
    <3>1. Links(q, c)
      BY <2>1, ChildrenDo DEF Pristine, Puts, Gives
    <3>2. feed.pc = "add" /\ feed'.pc = "addParent" /\ feed'.at = q
      BY <3>1 DEF Links
    <3>3. feed'.at \in feed.todo
      BY <3>2, FeedDo DEF FeedDoes, Fetches, Knows, FindsNew, GoesOn
    <3> QED BY <3>2, <3>3 DEF Pristine
  <2> QED BY <2>2
<1>9. q # feed'.kid /\ q # feed'.at /\ q \notin feed'.todo
  BY FeedPoints DEF Pristine
<1> QED BY <1>3, <1>4, <1>5, <1>6, <1>7, <1>8, <1>9 DEF Pristine

LEMMA SoleStep ==
  ASSUME TypeInv, OpInv, MakeInv, TaskInv, LinkInv, FileInv, GoneInv, FreeInv, SoleInv, Next
  PROVE  SoleInv'
<1> SUFFICES ASSUME NEW q \in Objs, Sound(q)', srv'[IdOf(q)].st # "gone"
             PROVE  byId'[IdOf(q)] = q \/ Pristine(q)'
  BY DEF SoleInv, Main
<1>1. Sound(q) /\ IdOf(q) \in Ids
  BY ObjFacts, FeedDo DEF Sound
<1>2. srv[IdOf(q)].st # "gone"
  BY <1>1, BornDo
<1>3. Main(q) \/ Pristine(q)
  BY <1>1, <1>2 DEF SoleInv
<1> QED BY <1>3, MainKept, PristineKept DEF Main

LEMMA SrvStep ==
  ASSUME TypeInv, OpInv, MakeInv, FetchInv, RealInv, SrvInv, Next
  PROVE  SrvInv'
<1>0. \A id \in Ids : srv[id].st # "none" => srv'[id].st # "none"
  BY CloudDoes DEF Heard
<1>1. ASSUME NEW id \in Ids, NEW p \in srv'[id].parents
      PROVE  srv'[p].st # "none"
  <2>0. p \in Ids
    BY NextType, Constants DEF TypeInv, File
  <2>1. srv[id] \in File
    BY DEF TypeInv
  <2>2. CASE p \in srv[id].parents
    BY <1>0, <2>0, <2>2 DEF SrvInv
  <2>3. ASSUME NEW w \in Workers, Tells(w, id), op[w].to # op[w].dir, p = IdOf(op[w].to)
        PROVE  srv[p].st # "none"
    BY <2>3, ObjFacts DEF Tells, OpInv, OpOK, SrvInv
  <2>4. ASSUME NEW o \in Objs, Uploads(o), IdOf(o) = id
        PROVE  srv[p].st # "none"
    BY <2>4 DEF Uploads, SrvInv
  <2>5. ASSUME Appears(id) \/ Moved(id)
        PROVE  srv[p].st # "none"
    BY <2>5 DEF Appears, Moved
  <2>6. ASSUME NEW w \in Workers, Founds(w, id)
        PROVE  srv[p].st # "none"
    BY <2>6 DEF Founds
  <2>7. p \in srv[id].parents \/ srv[p].st # "none"
    <3>1. srv'[id] = srv[id] \/ Changes(id)
      BY SrvDo
    <3> QED BY <2>3, <2>4, <2>5, <2>6, <3>1 DEF Changes, Fades, Stays, Tells, Frees
  <2> QED BY <1>0, <2>0, <2>2, <2>7
<1>2. ASSUME NEW o \in Objs, NEW p \in obj'[o].parents
      PROVE  srv'[IdOf(p)].st # "none"
  <2>0. IdOf(p) \in Ids
    BY NextType, ObjFacts DEF TypeInv, ObjType
  <2>1. \A w \in Workers : Made(w, o) => srv[IdOf(op[w].dir)].st # "none"
    BY ObjFacts DEF Made, OpInv, OpOK, SrvInv
  <2>2. Fed(o) => srv[IdOf(feed.at)].st # "none"
    BY DEF Fed, RealInv
  <2>3. srv[IdOf(p)].st # "none"
    BY <2>1, <2>2, ParentsDo DEF Orphan, Made, Fed, Unfed, SrvInv
  <2> QED BY <1>0, <2>0, <2>3
<1>3. ASSUME NEW o \in Dirs, obj'[o].known
      PROVE  srv'[IdOf(o)].st # "none"
  <2>0. o \in Objs /\ IdOf(o) \in Ids
    BY ObjFacts
  <2>1. \A w \in Workers : Inserts(w) /\ op[w].kid = o => srv[IdOf(o)].st # "none"
    BY DEF Inserts, RealInv, Making, Dirs
  <2>2. FindsNew(o) => srv[IdOf(o)].st # "none"
    BY DEF FindsNew, FetchInv
  <2> QED BY <1>0, <1>3, <2>0, <2>1, <2>2, KnownDo DEF SrvInv
<1>4. ASSUME NEW w \in Workers, op'[w].pc # "idle", NEW p \in Objs, p = op'[w].dir \/ p = op'[w].to
      PROVE  srv'[IdOf(p)].st # "none"
  <2>1. CASE op'[w] = op[w]
    BY <1>0, <1>4, <2>1, ObjFacts DEF SrvInv
  <2>2. CASE Starts(w)
    <3>1. Reached(p)
      BY <1>4, <2>2, StartPoints
    <3>2. srv[IdOf(p)].st # "none"
      BY <3>1 DEF Reached, SrvInv
    <3> QED BY <1>0, <3>2, ObjFacts
  <2>3. CASE Step(w)
    <3>1. op[w].pc # "idle" /\ op'[w].dir = op[w].dir /\ op'[w].to = op[w].to
      BY <1>4, <2>3, StepFlow DEF Flow, Idle
    <3> QED BY <1>0, <1>4, <3>1, ObjFacts DEF SrvInv
  <2> QED BY <2>1, <2>2, <2>3, OpsDo
<1> QED BY <1>1, <1>2, <1>3, <1>4 DEF SrvInv

LEMMA AskStep ==
  ASSUME TypeInv, OpInv, MakeInv, FetchInv, RealInv, TaskInv, GoneInv, OneInv, AskInv, Next
  PROVE  AskInv'
<1>0. \A w \in Workers : op'[w] = op[w] \/ Starts(w) \/ Step(w)
  BY OpsDo
<1>i. Idle.pc = "idle" /\ NoObj \notin Objs /\ Idle.dir = NoObj /\ Idle.to = NoObj
  BY ObjFacts DEF Idle
<1>f. \A w \in Workers : Step(w) => Flow(op[w], op'[w])
  BY StepFlow
<1>1. ASSUME NEW w \in Workers, op'[w].pc = "insert", NEW o \in Objs
      PROVE  op'[w].kid \notin obj'[o].parents
  <2> DEFINE c == op'[w].kid
  <2>0. c \in Objs
    BY <1>1, NextType DEF OpInv, OpOK
  <2>1. CASE op'[w] = op[w]
    <3>1. c \notin obj[o].parents /\ \A v \in Workers : c # op[v].dir
      BY <1>1, <2>1 DEF AskInv
    <3>2. feed.pc = "addParent" => c # feed.at
      BY <1>1, <2>1 DEF RealInv
    <3> QED BY <3>1, <3>2, ParentsDo DEF Orphan, Made, Fed, Unfed
  <2>2. CASE Starts(w)
    <3>1. Fresh(IdOf(c)) /\ op[w].pc = "idle"
      BY <1>1, <2>2, StartPoints
    <3>2. c \notin obj[o].parents
      BY <2>0, <3>1 DEF Fresh, Unused
    <3>4. obj'[o].parents = obj[o].parents
      BY <2>2, StartDoes DEF Looks, Makers, Removes, Renames, AllSame, SameObj, Kept, Loses, Trashes
    <3> QED BY <3>2, <3>4
  <2>3. CASE Step(w)
    BY <1>1, <1>f, <1>i, <2>3 DEF Flow
  <2> QED BY <1>0, <2>1, <2>2, <2>3
<1>2. ASSUME NEW w \in Workers, op'[w].pc = "insert", NEW v \in Workers
      PROVE  op'[w].kid # op'[v].dir /\ op'[w].kid # op'[v].to
  <2> DEFINE c == op'[w].kid
  <2>0. c \in Objs /\ held[c] \in Nat
    BY <1>2, NextType DEF OpInv, OpOK, TypeInv
  <2>1. ~(held[c] > 0) /\ (\A u \in Workers : c # op[u].dir /\ c # op[u].to)
    <3>1. CASE op'[w] = op[w]
      BY <1>2, <3>1 DEF AskInv, MakeInv, Seen
    <3>2. CASE Starts(w)
      <4>1. Unused(c)
        BY <1>2, <2>0, <3>2, StartPoints DEF Fresh
      <4> QED BY <4>1 DEF Unused
    <3>3. CASE Step(w)
      BY <1>2, <1>f, <1>i, <3>3 DEF Flow
    <3> QED BY <1>0, <3>1, <3>2, <3>3
  <2>2. CASE Starts(v)
    <3>1. op'[v].dir \in Objs /\ held[op'[v].dir] > 0 /\ (op'[v].to \in Objs => held[op'[v].to] > 0)
      BY <2>2, StartPoints, ObjFacts DEF Reached
    <3> QED BY <2>0, <2>1, <3>1
  <2>3. CASE Step(v) \/ op'[v] = op[v]
    BY <1>f, <1>i, <2>0, <2>1, <2>3 DEF Flow
  <2> QED BY <1>0, <2>2, <2>3
<1>3. ASSUME NEW w \in Workers
      PROVE  /\ op'[w].pc \in {"take", "give", "name", "save", "tell"} => op'[w].req = "rename"
             /\ op'[w].pc \in {"take", "give"} => op'[w].to # op'[w].dir
             /\ op'[w].req = "rmdir" => IsFolder(op'[w].kid)
  <2>1. CASE op'[w] = op[w]
    BY <2>1 DEF AskInv
  <2>2. CASE Starts(w)
    BY <2>2, StartPoints
  <2>3. CASE Step(w)
    <3>1. Idle.req = "none"
      BY DEF Idle
    <3> QED BY <1>f, <1>i, <2>3, <3>1 DEF Flow, AskInv
  <2> QED BY <1>0, <2>1, <2>2, <2>3
<1>4. ASSUME NEW w \in Workers, op'[w].pc = "unchild", NEW c \in Objs, op'[w].kid = c, Sound(c)'
      PROVE  srv'[IdOf(c)].st = "gone"
  <2>0. IdOf(c) \in Ids /\ Sound(c)
    BY <1>4, ObjFacts, FeedDo DEF Sound
  <2>1. CASE op'[w] = op[w]
    BY <1>4, <2>0, <2>1, BornDo DEF AskInv
  <2>2. CASE Starts(w)
    BY <1>4, <2>2, StartPoints
  <2>3. CASE Step(w)
    <3>1. op[w].pc = "remove" /\ op[w].kid = c /\ op[w].req \in {"unlink", "rmdir"}
      BY <1>4, <1>f, <1>i, <2>3 DEF Flow, OpInv, OpOK
    <3>2. srv[IdOf(c)].st # "none"
      <4>1. CASE op[w].req = "unlink"
        BY <2>0, <3>1, <4>1 DEF GoneInv
      <4>2. CASE op[w].req = "rmdir" /\ IsFolder(c)
        <5>1. Busy(c)
          BY <3>1 DEF Busy
        <5>2. byId[IdOf(c)] = c \/ srv[IdOf(c)].st = "gone"
          BY <2>0, <5>1 DEF OneInv, Ended
        <5>3. c # NoObj /\ IdOf(c) \in Folders
          BY <4>2, ObjFacts DEF IsFolder
        <5> QED BY <5>2, <5>3 DEF RealInv
      <4>3. op[w].req = "rmdir" => IsFolder(c)
        BY <3>1 DEF AskInv
      <4> QED BY <3>1, <4>1, <4>2, <4>3
    <3> QED BY <1>4, <2>3, <3>1, <3>2, DeleteDoes
  <2> QED BY <1>0, <2>1, <2>2, <2>3
<1>5. ASSUME NEW w \in Workers, op'[w].pc = "unchild", IdOf(op'[w].kid) \notin odd'
      PROVE  srv'[IdOf(op'[w].kid)].st = "gone"
  <2>1. op'[w].kid \in Objs
    BY <1>5, NextType DEF OpInv, OpOK
  <2>2. ASSUME NEW c \in Objs, op'[w].kid = c
        PROVE  srv'[IdOf(c)].st = "gone"
    BY <1>4, <1>5, <2>2 DEF Sound
  <2> QED BY <2>1, <2>2
<1> QED BY <1>1, <1>2, <1>3, <1>5 DEF AskInv, Sound

LEMMA TellStep ==
  ASSUME TypeInv, OpInv, FetchInv, FileInv, AskInv, MoveInv, TellInv, Next
  PROVE  TellInv'
<1>0. /\ NoChange.pc = "idle" /\ feed.id \in Ids /\ feed'.id \in Ids
      /\ \A id \in Ids : srv[id] \in File
  BY NextType DEF NoChange, TypeInv, FeedType
<1>a. feed'.pc = "apply" => feed' = feed \/ \E j \in Ids : Fetches(j)
  BY <1>0, TurnDo DEF FeedTurns, Skips, Buries, Updates, Brings, Turns, Leaves, Unlinks, Chooses,
     Unfeeds, Feeds, Goes, Carries
<1>f. \A j \in Ids : Fetches(j) => /\ feed.pc = "idle" /\ feed'.pc = "apply" /\ feed'.id = j
                                   /\ feed'.file = srv[j] /\ srv' = srv /\ j \in news
  BY DEF Fetches
<1>1. ASSUME feed'.pc = "apply", feed'.id \notin news'
      PROVE  feed'.file = srv'[feed'.id]
  <2>1. CASE feed' = feed
    <3>1. feed.id \notin news
      BY <1>0, <1>1, <1>f, <2>1, NewsDo
    <3>2. feed.file = srv[feed.id]
      BY <1>1, <2>1, <3>1 DEF TellInv
    <3> QED BY <1>0, <1>1, <2>1, <3>2, SrvDo
  <2> QED BY <1>1, <1>a, <1>f, <2>1
<1>2. ASSUME feed'.pc = "apply", feed'.file.st = "gone"
      PROVE  srv'[feed'.id].st = "gone"
  <2>1. CASE feed' = feed
    BY <1>0, <1>2, <2>1, BornDo DEF TellInv
  <2>2. ASSUME NEW j \in Ids, Fetches(j)
        PROVE  srv[j].st = "gone"
    BY <1>0, <1>2, <1>f, <2>2 DEF FetchInv, File
  <2> QED BY <1>2, <1>a, <1>f, <2>1, <2>2
<1>3. ASSUME feed'.pc = "leave"
      PROVE  srv'[feed'.id].st = "gone" /\ IdOf(feed'.kid) = feed'.id
  <2>1. CASE feed' = feed
    BY <1>0, <1>3, <2>1, BornDo DEF TellInv
  <2>2. CASE Buries
    <3>1. IdOf(Known) = feed.id
      BY <1>0, <2>2, ObjFacts DEF Buries, Known, TypeInv
    <3> QED BY <1>0, <1>3, <2>2, <3>1, BornDo DEF Buries, Carries, FileInv
  <2>3. CASE Turns
    <3>1. feed.pc = "leave" /\ feed'.id = feed.id /\ feed'.kid = feed.kid
      BY <1>0, <1>3, <2>3 DEF Turns, Leaves, Unlinks, Chooses, Unfeeds, Feeds, Goes, Carries
    <3> QED BY <1>0, <3>1, BornDo DEF TellInv
  <2>4. ~Updates /\ \A o \in Objs : ~Brings(o)
    BY <1>0, <1>3 DEF Updates, Brings, Carries
  <2> QED BY <1>0, <1>3, <1>f, <2>1, <2>2, <2>3, <2>4, TurnDo DEF FeedTurns, Skips
<1>4. ASSUME feed'.pc # "idle", feed'.id \notin odd', srv'[feed'.id].st \in {"here", "bin"},
             \A w \in Workers : ~(op'[w].pc = "detach" /\ IdOf(op'[w].kid) = feed'.id)
      PROVE  feed'.file.st # "gone" /\ feed'.file.parents = srv'[feed'.id].parents
  <2>1. CASE feed'.id = feed.id /\ feed'.file = feed.file /\ feed.pc # "idle"
    <3>1. feed.id \notin odd /\ srv[feed.id].st \in {"here", "bin"}
      BY <1>0, <1>4, <2>1, FeedDo, BornDo DEF FetchInv
    <3>2. \A w \in Workers : ~(op[w].pc = "detach" /\ IdOf(op[w].kid) = feed.id)
      BY <1>4, <2>1, OpsDo, StepGoes, StartPoints
    <3>3. feed.file.st # "gone" /\ feed.file.parents = srv[feed.id].parents
      BY <2>1, <3>1, <3>2 DEF TellInv
    <3>4. ASSUME NEW w \in Workers, Tells(w, feed.id), op[w].to # op[w].dir
          PROVE  FALSE
      <4>1. Moving(op[w]) /\ Sound(op[w].kid) /\ Here(op[w].kid)
        BY <3>1, <3>4 DEF Tells, Moving, AskInv, Sound, Here
      <4>2. feed.pc # "idle" => feed.id # IdOf(op[w].kid)
        BY <3>4, <4>1 DEF MoveInv, Tells
      <4> QED BY <2>1, <3>4, <4>2 DEF Tells
    <3>5. \A w \in Workers : ~Frees(w, feed.id)
      BY <1>4, <2>1 DEF Frees
    <3>6. srv'[feed.id].parents = srv[feed.id].parents
      BY <1>0, <1>4, <2>1, <3>1, <3>4, <3>5, ParentsOn
    <3> QED BY <2>1, <3>3, <3>6
  <2>2. CASE \E j \in Ids : Fetches(j)
    BY <1>4, <1>f, <2>2
  <2> QED BY <1>4, <2>1, <2>2, FeedKeeps
<1>5. ASSUME feed'.pc \in {"add", "addParent"}, NEW p \in feed'.todo
      PROVE  IdOf(p) \in feed'.file.parents
  <2>1. CASE feed' = feed
    BY <1>5, <2>1 DEF TellInv
  <2>2. ASSUME NEW o \in Objs, Brings(o)
        PROVE  IdOf(p) \in feed'.file.parents
    BY <1>0, <1>5, <2>2 DEF Brings, Plans, Carries
  <2>3. CASE Turns
    BY <1>0, <1>5, <2>3 DEF TellInv, Turns, Leaves, Unlinks, Chooses, Unfeeds, Feeds, Goes, Carries, Plans
  <2>4. ~Updates /\ ~Buries /\ ~Skips
    BY <1>0, <1>5 DEF Updates, Buries, Skips, Carries
  <2> QED BY <1>5, <1>f, <2>1, <2>2, <2>3, <2>4, TurnDo DEF FeedTurns
<1>6. feed'.pc # "idle" => feed'.file.st # "none"
  BY <1>f, FeedKeeps DEF FetchInv, TellInv
<1> QED BY <1>1, <1>2, <1>3, <1>4, <1>5, <1>6 DEF TellInv

LEMMA PlaceStep ==
  ASSUME TypeInv, OpInv, TaskInv, LinkInv, FetchInv, BareInv, GoneInv, FreeInv, OneInv, SoleInv,
         PlaceInv, Next
  PROVE  PlaceInv'
<1> SUFFICES ASSUME NEW w \in Workers, NEW c \in Objs, op'[w].kid = c, op'[w].pc \in Placing,
                    IdOf(c) \notin odd'
             PROVE  /\ op'[w].pc # "insert" => ~obj'[c].trashed
                    /\ op'[w].req = "create" => srv'[IdOf(c)].st = "none"
                    /\ op'[w].req = "mkdir" =>
                         /\ IdOf(c) \in news'
                         /\ srv'[IdOf(c)].st \in {"here", "bin"} => srv'[IdOf(c)].parents = {IdOf(op'[w].dir)}
  <2> SUFFICES ASSUME NEW w \in Workers, op'[w].pc \in Placing, IdOf(op'[w].kid) \notin odd'
               PROVE  /\ op'[w].pc # "insert" => ~obj'[op'[w].kid].trashed
                      /\ op'[w].req = "create" => srv'[IdOf(op'[w].kid)].st = "none"
                      /\ op'[w].req = "mkdir" =>
                           /\ IdOf(op'[w].kid) \in news'
                           /\ srv'[IdOf(op'[w].kid)].st \in {"here", "bin"} =>
                                srv'[IdOf(op'[w].kid)].parents = {IdOf(op'[w].dir)}
    BY DEF PlaceInv, Sound, Here
  <2>1. op'[w].kid \in Objs
    BY NextType DEF OpInv, OpOK, Placing
  <2> QED BY <2>1
<1> DEFINE id == IdOf(c)
<1>0. /\ id \in Ids /\ id \notin odd /\ Sound(c) /\ Sound(c)' /\ Idle.pc = "idle"
      /\ OpOK(w, op'[w]) /\ srv[id] \in File
  BY ObjFacts, NextType, FeedDo DEF Sound, Idle, OpInv, TypeInv
<1>s. ASSUME Starts(w)
      PROVE  op'[w].pc = "insert" /\ op[w].pc = "idle" /\ op' # op /\ Fresh(id) /\ srv[id].st = "none"
  BY <1>s, StartPoints DEF Placing, Fresh
<1>k. ASSUME ~Starts(w)
      PROVE  /\ op[w].pc \in Placing /\ op[w].kid = c /\ op[w].req = op'[w].req /\ op[w].dir = op'[w].dir
             /\ op[w].pc # "insert" => Busy(c)
             /\ op'[w].pc # "insert" /\ op[w].pc = "insert" => Inserts(w)
  <2>1. CASE op'[w] = op[w]
    BY <2>1 DEF Busy, Placing
  <2>2. CASE Step(w)
    <3>1. Flow(op[w], op'[w]) /\ Does(w)
      BY <2>2, StepFlow, StepDoes
    <3>2. op[w].pc \in Placing /\ op[w].kid = c /\ op[w].req = op'[w].req /\ op[w].dir = op'[w].dir
      BY <1>0, <3>1 DEF Flow, Placing
    <3> QED BY <3>1, <3>2 DEF Busy, Placing, Does, Quietly, Counts
  <2> QED BY <1>k, <2>1, <2>2, OpsDo
<1>o. (\E o \in Objs : Uploads(o)) \/ Outside => op' = op
  BY MarkDoes, OthersDoes DEF Uploads
<1>1. ASSUME op'[w].pc # "insert"
      PROVE  ~obj'[c].trashed
  <2>1. ~Starts(w)
    BY <1>1, <1>s
  <2>2. CASE op[w].pc = "insert"
    BY <1>1, <1>k, <2>1, <2>2 DEF Inserts
  <2>3. CASE op[w].pc # "insert"
    <3>1. ~obj[c].trashed /\ Busy(c) /\ op[w].pc \in Placing /\ op[w].kid = c
      BY <1>0, <1>k, <2>1, <2>3 DEF PlaceInv
    <3>2. \A v \in Workers : ~Marks(v, id)
      <4> SUFFICES ASSUME NEW v \in Workers, Marks(v, id)
                   PROVE  FALSE
        OBVIOUS
      <4>1. op[v].pc = "mark" /\ op[v].req = "unlink" /\ IdOf(op[v].kid) = id /\ ~IsFolder(op[v].kid)
        BY DEF Marks, OpInv, OpOK
      <4>2. op[w].req = "create"
        BY <3>1, <4>1 DEF OpInv, OpOK, Placing, Making, IsFolder
      <4>3. srv[id].st = "none" /\ srv[id].st = "gone"
        BY <1>0, <3>1, <4>1, <4>2 DEF PlaceInv, GoneInv, Sound
      <4> QED BY <4>3
    <3>3. feed.pc = "apply" => feed.id # id
      BY <1>0, <3>1 DEF FetchInv
    <3>4. ~Inserting(id)
      BY <1>0, <3>1 DEF Inserting, Inserts, FreeInv, Sound
    <3> QED BY <1>0, <3>1, <3>2, <3>3, <3>4, EndsDo DEF Forsakes, Renews, Knows, FindsNew
  <2> QED BY <2>2, <2>3
<1>2. ASSUME op'[w].req = "create"
      PROVE  srv'[id].st = "none"
  <2>1. srv[id].st = "none" /\ ~IsFolder(c)
    BY <1>0, <1>2, <1>k, <1>s DEF PlaceInv, OpOK
  <2>2. ~Appears(id)
    BY <1>k, <1>s, <1>o DEF Appears, Fresh, Unused
  <2>3. \A v \in Workers : ~Founds(v, id)
    BY <2>1, NextType DEF Founds, OpInv, OpOK, IsFolder
  <2>4. ASSUME NEW o \in Objs, IdOf(o) = id, Uploads(o)
        PROVE  FALSE
    <3>1. ~Starts(w) /\ obj[o].known /\ obj[o].parents # {}
      BY <1>o, <1>s, <2>4 DEF Uploads, Store
    <3>2. byId[id] = o /\ o # NoObj
      BY <1>0, <2>1, <2>4, <3>1, ObjFacts DEF SoleInv, Sound, Main, Pristine
    <3>3. op[w].pc # "insert"
      BY <1>0, <1>k, <3>1, <3>2 DEF FreeInv
    <3>4. byId[id] = c
      BY <1>0, <1>k, <2>1, <3>1, <3>3 DEF OneInv, Ended
    <3> QED BY <1>0, <1>k, <3>1, <3>2, <3>3, <3>4 DEF BareInv, Placing
  <2> QED BY <1>0, <2>1, <2>2, <2>3, <2>4, SrvDo DEF Changes, Fades, Stays, Moved, Tells, Frees
<1>3. ASSUME op'[w].req = "mkdir"
      PROVE  /\ id \in news'
             /\ srv'[id].st \in {"here", "bin"} => srv'[id].parents = {IdOf(op'[w].dir)}
  <2>1. CASE Starts(w)
    <3>1. srv'[id].st # "none"
      <4>1. PICK r \in OpType : Begins(w, r) /\ (Looks(r) \/ Makers(r) \/ Removes(r) \/ Renames(r))
        BY <2>1, StartDoes
      <4>2. op'[w] = r
        BY <4>1, SetFacts DEF Begins
      <4> QED BY <1>0, <1>3, <1>s, <2>1, <4>1, <4>2 DEF Looks, Makers, Removes, Renames, OpOK
    <3>2. id \in news' /\ Changes(id) /\ srv[id].st = "none"
      BY <1>0, <1>s, <2>1, <3>1, SrvDo
    <3>3. PICK v \in Workers : Founds(v, id)
      BY <1>o, <1>s, <2>1, <3>2 DEF Changes, Fades, Stays, Appears, Moved, Tells, Frees
    <3>4. v = w
      BY <1>s, <2>1, <3>3, StartPoints DEF Founds
    <3> QED BY <3>2, <3>3, <3>4 DEF Founds
  <2>2. CASE ~Starts(w)
    <3>1. id \in news /\ (srv[id].st \in {"here", "bin"} => srv[id].parents = {IdOf(op[w].dir)})
      BY <1>0, <1>3, <1>k, <2>2 DEF PlaceInv, Here
    <3>2. id \in news'
      BY <1>0, <1>k, <2>2, <3>1, NewsDo DEF Fetches, Placing
    <3>3. ASSUME srv'[id].st \in {"here", "bin"}
          PROVE  srv'[id].parents = {IdOf(op'[w].dir)}
      <4>1. srv[id].st \in {"here", "bin"}
        BY <1>0, <3>1, <3>3, BornDo DEF FetchInv
      <4>2. ASSUME NEW v \in Workers, op[v].pc \in {"tell", "remove"}, IdOf(op[v].kid) = id
            PROVE  FALSE
        BY <1>0, <1>k, <2>2, <4>1, <4>2, OneAt DEF Placing
      <4>3. srv'[id].parents = srv[id].parents
        BY <1>0, <3>3, <4>1, <4>2, ParentsOn DEF Tells, Frees
      <4> QED BY <1>k, <2>2, <3>1, <4>1, <4>3
    <3> QED BY <3>2, <3>3
  <2> QED BY <2>1, <2>2
<1> QED BY <1>1, <1>2, <1>3

LEMMA NewStep ==
  ASSUME TypeInv, OpInv, MakeInv, TaskInv, FetchInv, UpInv, BareInv, AskInv, TellInv, PlaceInv,
         MoveInv, NewInv, Next
  PROVE  NewInv'
<1> SUFFICES ASSUME NEW c \in Objs, Sound(c)', srv'[IdOf(c)].st = "none"
             PROVE  /\ \A p \in obj'[c].parents : obj'[c].parents = {p} /\ c \in obj'[p].children
                    /\ \A p \in Objs : c \in obj'[p].children =>
                         \/ p \in obj'[c].parents
                         \/ \E w \in Workers : op'[w].pc = "addParent" /\ op'[w].kid = c /\ op'[w].dir = p
                    /\ \A w \in Workers : op'[w].pc = "addParent" /\ op'[w].kid = c
                         => c \in obj'[op'[w].dir].children
  BY DEF NewInv, In
<1>0. /\ IdOf(c) \in Ids /\ Sound(c) /\ srv[IdOf(c)].st = "none" /\ IdOf(c) \notin odd'
      /\ \A p \in obj[c].parents : p \in Objs
      /\ \A p \in obj'[c].parents : p \in Objs
  BY ObjFacts, FeedDo, CloudDoes, NextType DEF Sound, Heard, TypeInv, ObjType
<1>1. /\ \A p \in obj[c].parents : obj[c].parents = {p} /\ In(p, c)
      /\ \A p \in Objs : In(p, c) =>
           p \in obj[c].parents \/ \E w \in Workers : op[w].pc = "addParent" /\ op[w].kid = c /\ op[w].dir = p
      /\ \A w \in Workers : op[w].pc = "addParent" /\ op[w].kid = c => In(op[w].dir, c)
  BY <1>0 DEF NewInv
<1>f. feed.pc \in Feeding \cup {"leave"} => feed.kid # c
  BY <1>0 DEF FetchInv, TellInv, Feeding
<1>m. \A w \in Workers : op[w].pc \in {"take", "give"} => op[w].kid # c
  BY <1>0 DEF MoveInv, AskInv, Moving
<1>t. \A w \in Workers : op[w].pc \in {"off", "orphan", "unchild"} => op[w].kid # c
  BY <1>0 DEF TaskInv, AskInv, Sound
<1>k. ASSUME NEW p \in Objs, In(p, c), p \in obj[c].parents \/ \E w \in Workers : op[w].dir = p
      PROVE  c \in obj'[p].children
  <2>1. \A w \in Workers : ~TakesOff(w, p, c)
    BY <1>0 DEF TakesOff, UpInv
  <2>2. \A w \in Workers : ~Drops(w, p, c)
    BY <1>m, <1>t DEF Drops
  <2>3. \A w \in Workers : ~(Inserts(w) /\ op[w].kid = p)
    BY <1>k DEF Inserts, AskInv
  <2>4. ~FindsNew(p)
    BY <1>k DEF FindsNew, Unused
  <2>5. ~(feed.pc = "leave" /\ feed.kid = c) /\ ~(Unlinks /\ feed.kid = c)
    BY <1>f DEF Unlinks, Feeding
  <2> QED BY <1>k, <2>1, <2>2, <2>3, <2>4, <2>5, LosesDo
<1>p. \/ obj'[c].parents = obj[c].parents
      \/ obj'[c].parents = {} /\ ~Seen(c)
      \/ \E w \in Workers : Made(w, c)
  BY <1>f, <1>t, ParentsDo DEF Orphan, Fed, Unfed, Feeding
<1>2. ASSUME NEW p \in obj'[c].parents
      PROVE  obj'[c].parents = {p} /\ c \in obj'[p].children
  <2>1. CASE obj'[c].parents = obj[c].parents
    BY <1>0, <1>1, <1>2, <1>k, <2>1
  <2>2. ASSUME NEW w \in Workers, Made(w, c)
        PROVE  obj'[c].parents = {p} /\ c \in obj'[p].children
    <3>1. obj'[c].parents = {op[w].dir}
      BY <1>0, <2>2 DEF Made, BareInv
    <3>2. p = op[w].dir /\ In(p, c)
      BY <1>1, <1>2, <2>2, <3>1 DEF Made
    <3> QED BY <1>0, <1>2, <1>k, <3>1, <3>2
  <2> QED BY <1>2, <1>p, <2>1, <2>2
<1>3. ASSUME NEW p \in Objs, c \in obj'[p].children
      PROVE  \/ p \in obj'[c].parents
             \/ \E w \in Workers : op'[w].pc = "addParent" /\ op'[w].kid = c /\ op'[w].dir = p
  <2>1. CASE In(p, c) /\ p \in obj[c].parents
    <3>1. Seen(c)
      BY <2>1 DEF Seen, In
    <3> QED BY <1>p, <2>1, <3>1 DEF Made
  <2>2. ASSUME NEW w \in Workers, op[w].pc = "addParent", op[w].kid = c, op[w].dir = p
        PROVE  p \in obj'[c].parents \/ op'[w] = op[w]
    <3>1. Step(w) => AddParent(w)
      BY <2>2, StepIs
    <3>2. AddParent(w) => p \in obj'[c].parents
      BY <2>2 DEF AddParent, TypeInv, ObjType
    <3>3. ~Starts(w)
      BY <2>2, StartPoints
    <3> QED BY <3>1, <3>2, <3>3, OpsDo
  <2>3. ASSUME NEW w \in Workers, Puts(w, p, c)
        PROVE  op'[w].pc = "addParent" /\ op'[w].kid = c /\ op'[w].dir = p
    <3>1. Step(w)
      BY <2>3, OpsDo, StartPoints DEF Puts
    <3> QED BY <2>3, <3>1, StepFlow DEF Puts, Flow, Idle
  <2>4. \A w \in Workers : ~Gives(w, p, c)
    BY <1>m DEF Gives
  <2>5. ~Links(p, c)
    BY <1>f DEF Links, Feeding
  <2>6. CASE In(p, c)
    BY <1>1, <2>1, <2>2, <2>6
  <2> QED BY <1>3, <2>3, <2>4, <2>5, <2>6, ChildrenDo DEF In
<1>4. ASSUME NEW w \in Workers, op'[w].pc = "addParent", op'[w].kid = c
      PROVE  c \in obj'[op'[w].dir].children
  <2>0. op'[w].dir \in Objs
    BY <1>4, NextType, ObjFacts DEF OpInv, OpOK
  <2>1. CASE op'[w] = op[w]
    BY <1>1, <1>4, <1>k, <2>0, <2>1
  <2>2. CASE Step(w)
    <3>1. op[w].pc = "addChild" /\ op[w].kid = c /\ op[w].dir = op'[w].dir
      BY <1>4, <2>2, StepFlow DEF Flow, Idle
    <3>2. AddsChild(op[w].dir, c) /\ ~obj[c].trashed
      BY <1>0, <2>2, <3>1, StepIs DEF AddChild, PlaceInv, Placing
    <3> QED BY <2>0, <3>1, <3>2 DEF AddsChild, TypeInv, ObjType
  <2> QED BY <1>4, <2>1, <2>2, OpsDo, StartPoints
<1> QED BY <1>2, <1>3, <1>4

LEMMA MoveStep ==
  ASSUME TypeInv, OpInv, MakeInv, TaskInv, FetchInv, UpInv, FreeInv, OneInv, AskInv, TellInv,
         MoveInv, Next
  PROVE  MoveInv'
<1> SUFFICES ASSUME NEW w \in Workers, NEW c \in Objs, op'[w].kid = c, Moving(op'[w]),
                    IdOf(c) \notin odd'
             PROVE  /\ srv'[IdOf(c)].st # "none" /\ obj'[c].uploaded
                    /\ srv'[IdOf(c)].st \in {"here", "bin"} =>
                         /\ feed'.pc # "idle" => feed'.id # IdOf(c)
                         /\ op'[w].pc # "take" => c \notin obj'[op'[w].dir].children
                         /\ op'[w].pc \in {"name", "save", "tell"} => c \in obj'[op'[w].to].children
  <2> SUFFICES ASSUME NEW w \in Workers, Moving(op'[w]), IdOf(op'[w].kid) \notin odd'
               PROVE  LET c == op'[w].kid IN
                      /\ srv'[IdOf(c)].st # "none" /\ obj'[c].uploaded
                      /\ srv'[IdOf(c)].st \in {"here", "bin"} =>
                         /\ feed'.pc # "idle" => feed'.id # IdOf(c)
                         /\ op'[w].pc # "take" => c \notin obj'[op'[w].dir].children
                         /\ op'[w].pc \in {"name", "save", "tell"} => c \in obj'[op'[w].to].children
    BY DEF MoveInv, Moving, Sound, Here, In
  <2>1. op'[w].kid \in Objs
    BY NextType DEF OpInv, OpOK, Moving
  <2> QED BY <2>1
<1> DEFINE id == IdOf(c)
           d  == op'[w].dir
           to == op'[w].to
<1>0. /\ id \in Ids /\ id \notin odd /\ Sound(c) /\ Sound(c)' /\ Idle.pc = "idle" /\ srv[id] \in File
      /\ d \in Objs /\ to \in Objs /\ to # d /\ op'[w].pc \in {"take", "give", "name", "save", "tell"}
      /\ op'[w].req = "rename"
  BY ObjFacts, NextType, FeedDo DEF Sound, Idle, OpInv, OpOK, TypeInv, Moving
<1>s. ASSUME Starts(w)
      PROVE  /\ op'[w].pc = "take" /\ obj[c].uploaded /\ feed' = feed
             /\ feed.pc # "idle" => feed.id # id
             /\ c \in obj[d].children /\ \A v \in Workers : op'[v] = op[v] \/ op[v].pc = "idle"
  BY <1>0, <1>s, StartPoints, StartDoes DEF Underway
<1>k. ASSUME ~Starts(w)
      PROVE  /\ op[w].kid = c /\ op[w].dir = d /\ op[w].to = to /\ op[w].req = "rename" /\ Busy(c)
             /\ Moving(op[w]) /\ op[w].pc \in {"take", "give", "name", "save", "tell"}
             /\ op'[w] = op[w] \/ Step(w)
             /\ \A v \in Workers : op[v].kid = c /\ Changing(op[v]) => v = w
  <2>1. op'[w] = op[w] \/ Step(w)
    BY <1>k, OpsDo
  <2>2. /\ op[w].kid = c /\ op[w].dir = d /\ op[w].to = to /\ op[w].req = "rename"
        /\ op[w].pc \in {"take", "give", "name", "save", "tell"}
    BY <1>0, <2>1, StepFlow DEF Flow
  <2>3. Changing(op[w]) /\ Busy(c)
    BY <2>2 DEF Changing, Busy
  <2> QED BY <1>0, <2>1, <2>2, <2>3 DEF TaskInv, Moving
<1>1. srv[id].st # "none" /\ obj[c].uploaded
  BY <1>0, <1>k, <1>s DEF UpInv, MoveInv
<1>2. srv'[id].st # "none"
  BY <1>0, <1>1, CloudDoes DEF Heard
<1>3. obj'[c].uploaded
  <2>1. ASSUME NEW v \in Workers, Inserts(v), op[v].kid = c
        PROVE  FALSE
    <3>1. op[v].pc = "insert"
      BY <2>1 DEF Inserts
    <3>2. ~Starts(w)
      BY <1>0, <1>s, <2>1, <3>1 DEF MakeInv, Seen
    <3> QED BY <1>0, <1>k, <2>1, <3>1, <3>2 DEF FreeInv
  <2> QED BY <1>1, <2>1, FieldsDo
<1>4. ASSUME srv'[id].st \in {"here", "bin"}
      PROVE  /\ feed'.pc # "idle" => feed'.id # id
             /\ op'[w].pc # "take" => c \notin obj'[d].children
             /\ op'[w].pc \in {"name", "save", "tell"} => c \in obj'[to].children
  <2>1. srv[id].st \in {"here", "bin"} /\ Here(c)
    BY <1>0, <1>1, <1>4, BornDo DEF Here
  <2>2. feed.pc # "idle" => feed.id # id
    BY <1>0, <1>k, <1>s, <2>1 DEF MoveInv
  <2>5. ASSUME feed'.pc # "idle", feed'.id = id
        PROVE  FALSE
    <3>1. Fetches(id)
      BY <2>2, <2>5, FeedKeeps DEF Fetches
    <3>2. ~Starts(w)
      BY <1>s, <2>2, <2>5
    <3>3. Carried(w) /\ IdOf(op[w].kid) = id
      BY <1>k, <3>2 DEF Carried, Moving
    <3> QED BY <1>0, <3>1, <3>3 DEF Fetches, Sound
  <2>6. ~Links(d, c)
    BY <2>2 DEF Links, FetchInv, Feeding
  <2>7. ASSUME op'[w].pc # "take"
        PROVE  c \notin obj'[d].children
    <3>0. ~Starts(w)
      BY <1>s, <2>7
    <3>1. CASE op[w].pc = "take"
      <4>1. Take(w)
        BY <1>k, <2>7, <3>0, <3>1, StepIs
      <4> QED BY <1>0, <1>k, <3>0, <4>1 DEF Take, TypeInv, ObjType
    <3>2. CASE op[w].pc # "take"
      <4>1. ~In(d, c)
        BY <1>0, <1>k, <2>1, <3>0, <3>2 DEF MoveInv
      <4>2. \A v \in Workers : ~Puts(v, d, c) /\ ~Gives(v, d, c)
        <5>1. ASSUME NEW v \in Workers, op[v].pc \in {"addChild", "give"}, op[v].kid = c
              PROVE  v = w
          BY <1>k, <3>0, <5>1 DEF Changing, OpInv, OpOK
        <5> QED BY <1>0, <1>k, <3>0, <5>1 DEF Puts, Gives
      <4> QED BY <1>0, <2>6, <4>1, <4>2, ChildrenDo DEF In
    <3> QED BY <3>1, <3>2
  <2>8. ASSUME op'[w].pc \in {"name", "save", "tell"}
        PROVE  c \in obj'[to].children
    <3>0. ~Starts(w)
      BY <1>s, <2>8
    <3>1. CASE op[w].pc = "give"
      <4>1. AddsChild(to, c)
        BY <1>k, <2>8, <3>0, <3>1, StepIs DEF Give
      <4> QED BY <1>0, <4>1 DEF AddsChild, TypeInv, ObjType
    <3>2. CASE op[w].pc \in {"name", "save", "tell"}
      <4>1. In(to, c)
        BY <1>0, <1>k, <2>1, <3>0, <3>2 DEF MoveInv
      <4>2. ASSUME NEW v \in Workers, TakesOff(v, to, c)
            PROVE  FALSE
        <5>1. Exclusive({op'[v].dir, c})
          BY <4>2, StartPoints DEF TakesOff
        <5> QED BY <1>k, <3>0, <5>1 DEF Exclusive
      <4>3. ASSUME NEW v \in Workers, Drops(v, to, c)
            PROVE  FALSE
        <5>1. v = w
          BY <1>k, <3>0, <4>3 DEF Drops, Changing, OpInv, OpOK
        <5> QED BY <3>2, <4>3, <5>1 DEF Drops
      <4>4. ~(feed.pc = "leave" /\ feed.kid = c) /\ ~(Unlinks /\ feed.kid = c)
        BY <2>1, <2>2 DEF TellInv, Unlinks, FetchInv, Feeding
      <4>5. \A v \in Workers : ~(Inserts(v) /\ op[v].kid = to)
        BY <1>k, <3>0 DEF Inserts, AskInv
      <4>6. ~FindsNew(to)
        BY <1>k, <3>0 DEF FindsNew, Unused
      <4> QED BY <1>0, <4>1, <4>2, <4>3, <4>4, <4>5, <4>6, LosesDo
    <3>3. op[w].pc # "take"
      BY <1>k, <2>8, <3>0, StepGoes
    <3> QED BY <1>k, <3>0, <3>1, <3>2, <3>3
  <2> QED BY <2>5, <2>7, <2>8
<1> QED BY <1>2, <1>3, <1>4

(* What was settled.                                                       *)
LEMMA SettledDo ==
  ASSUME TypeInv, OpInv, Next, NEW p \in Objs, NEW c \in Objs, Settled(p, c)'
  PROVE  /\ Sound(c) /\ Sound(p) /\ ~Detached(c) /\ Sound(c)' /\ Sound(p)'
         /\ srv'[IdOf(c)].st \in {"here", "bin"} /\ srv'[IdOf(p)].st \in {"here", "bin"}
         /\ IdOf(c) \in Ids /\ IdOf(p) \in Ids /\ IdOf(c) \notin odd' /\ IdOf(p) \notin odd'
         /\ \A w \in Workers : ~(op'[w].pc = "detach" /\ IdOf(op'[w].kid) = IdOf(c))
<1>1. /\ Sound(c)' /\ Sound(p)' /\ srv'[IdOf(c)].st \in {"here", "bin"} /\ srv'[IdOf(p)].st \in {"here", "bin"}
      /\ IdOf(c) \notin odd' /\ IdOf(p) \notin odd'
      /\ \A w \in Workers : ~(op'[w].pc = "detach" /\ IdOf(op'[w].kid) = IdOf(c))
  BY DEF Settled, Here, Detached, Sound
<1>2. Sound(c) /\ Sound(p) /\ IdOf(c) \in Ids /\ IdOf(p) \in Ids
  BY <1>1, ObjFacts, FeedDo DEF Sound
<1>3. ~Detached(c)
  BY <1>1, OpsDo, StepGoes, StartPoints DEF Detached
<1> QED BY <1>1, <1>2, <1>3

(* What the server has not heard of before is uploaded as it is here.      *)
LEMMA UploadedOne ==
  ASSUME TypeInv, OneInv, SoleInv, NEW c \in Objs, Sound(c), NEW o \in Objs, IdOf(o) = IdOf(c),
         Uploads(o), Main(c) \/ Busy(c)
  PROVE  o = c
<1>1. obj[o].known /\ srv[IdOf(c)].st = "none" /\ Sound(o)
  BY DEF Uploads, Store, Sound
<1>2. Main(o)
  BY <1>1 DEF SoleInv, Pristine
<1>3. Main(c)
  BY <1>1 DEF OneInv, Ended, Main
<1> QED BY <1>2, <1>3 DEF Main

LEMMA ListedStep ==
  ASSUME TypeInv, OpInv, TaskInv, FetchInv, BareInv, FreeInv, OneInv, SoleInv, AskInv, TellInv,
         PlaceInv', NewInv, MoveInv, ListedInv, Next
  PROVE  ListedInv'
<1> SUFFICES ASSUME NEW p \in Dirs, NEW c \in obj'[p].children, Settled(p, c)'
             PROVE  \/ IdOf(p) \in srv'[IdOf(c)].parents
                    \/ \E w \in Workers : /\ Moving(op'[w]) /\ op'[w].pc \in {"name", "save", "tell"}
                                          /\ op'[w].kid = c /\ op'[w].to = p
  BY DEF ListedInv, Stored, Moving
<1> DEFINE id == IdOf(c)
           Mover(w) == /\ Moving(op'[w]) /\ op'[w].pc \in {"name", "save", "tell"}
                       /\ op'[w].kid = c /\ op'[w].to = p
<1>0. /\ p \in Objs /\ c \in Objs /\ Idle.pc = "idle"
      /\ IsFolder(p)
  BY ObjFacts, NextType DEF TypeInv, ObjType, Idle, Dirs
<1>s. /\ Sound(c) /\ Sound(p) /\ ~Detached(c) /\ Sound(c)' /\ Sound(p)'
      /\ srv'[id].st \in {"here", "bin"} /\ srv'[IdOf(p)].st \in {"here", "bin"}
      /\ id \in Ids /\ IdOf(p) \in Ids /\ id \notin odd' /\ IdOf(p) \notin odd'
      /\ \A w \in Workers : ~(op'[w].pc = "detach" /\ IdOf(op'[w].kid) = id)
  BY <1>0, SettledDo
<1>1. CASE srv[id].st \notin {"here", "bin"}
  <2>1. srv[id].st = "none" /\ In(p, c) /\ Busy(c)
    BY <1>0, <1>1, <1>s, BornDo DEF Local, In, Busy
  <2>2. ~Fresh(id)
    BY <1>0, <2>1 DEF Fresh, Unused, In
  <2>3. PICK o \in Objs : IdOf(o) = id /\ Uploads(o)
    BY <1>1, <1>s, <2>2, BornDo
  <2>4. o = c
    BY <1>0, <1>s, <2>1, <2>3, UploadedOne
  <2>5. p \in obj[c].parents \/ \E w \in Workers : op[w].pc = "addParent" /\ op[w].kid = c
    BY <1>0, <1>s, <2>1 DEF NewInv
  <2>6. ~\E w \in Workers : op[w].pc = "addParent" /\ op[w].kid = c
    BY <1>s, <2>3, <2>4 DEF Uploads, Store, BareInv
  <2> QED BY <2>3, <2>4, <2>5, <2>6 DEF Uploads
<1>2. CASE srv[IdOf(p)].st \notin {"here", "bin"}
  <2>1. /\ srv[IdOf(p)].st = "none" /\ obj' = obj
        /\ Fresh(IdOf(p)) \/ \E o \in Objs : IdOf(o) = IdOf(p) /\ Uploads(o)
    BY <1>2, <1>s, BornDo DEF Local
  <2>2. Fresh(IdOf(p))
    BY <1>0, <2>1 DEF Uploads, Store, IsFolder
  <2>3. ~Main(p)
    BY <1>0, <2>2 DEF Fresh, Unused, Main
  <2>4. Pristine(p)
    BY <1>0, <1>s, <2>1, <2>3 DEF SoleInv
  <2> QED BY <2>1, <2>4 DEF Pristine
<1>3. CASE srv[id].st \in {"here", "bin"} /\ srv[IdOf(p)].st \in {"here", "bin"} /\ c \in obj[p].children
  <2>0. Settled(p, c) /\ In(p, c) /\ Busy(c) /\ Main(p)
    <3>1. Settled(p, c) /\ In(p, c) /\ Busy(c)
      BY <1>0, <1>3, <1>s DEF Settled, Here, In, Busy
    <3> QED BY <1>0, <1>3, <1>s, <3>1 DEF SoleInv, Pristine
  <2>1. CASE Stored(p, c)
    <3>1. SUFFICES ASSUME srv'[id].parents # srv[id].parents
                   PROVE  IdOf(p) \in srv'[id].parents
      BY <2>1 DEF Stored
    <3>2. \A w \in Workers : ~Frees(w, id)
      BY <1>s DEF Frees
    <3>3. PICK w \in Workers : Tells(w, id) /\ op[w].to # op[w].dir
      BY <1>3, <1>s, <3>1, <3>2, ParentsOn
    <3>4. /\ op[w].kid \in Objs /\ op[w].dir \in Objs /\ op[w].pc = "tell" /\ Busy(op[w].kid)
          /\ Moving(op[w]) /\ IdOf(op[w].kid) = id
      BY <3>3, ObjFacts DEF Tells, OpInv, OpOK, Busy, AskInv, Moving
    <3>5. op[w].kid = c
      BY <1>0, <1>3, <1>s, <2>0, <3>4 DEF OneInv, Ended, Sound
    <3>6. ~In(op[w].dir, c)
      BY <1>3, <1>s, <3>4, <3>5 DEF MoveInv, Here
    <3>7. IdOf(op[w].dir) # IdOf(p)
      <4> SUFFICES ASSUME IdOf(op[w].dir) = IdOf(p)
                   PROVE  FALSE
        OBVIOUS
      <4>1. Main(op[w].dir)
        BY <1>3, <1>s, <3>4 DEF SoleInv, Pristine, Sound
      <4> QED BY <2>0, <3>6, <4>1 DEF Main
    <3> QED BY <2>1, <3>3, <3>7 DEF Tells, Stored
  <2>2. ASSUME NEW w \in Workers, Moving(op[w]), op[w].pc \in {"name", "save", "tell"}, op[w].kid = c, op[w].to = p
        PROVE  Mover(w) \/ IdOf(p) \in srv'[id].parents
    <3>1. CASE op'[w] = op[w]
      BY <2>2, <3>1
    <3>2. CASE Step(w) /\ op[w].pc \in {"name", "save"}
      <4>1. op'[w].pc \in {"save", "tell"}
        BY <1>s, <2>2, <3>2, StepGoes DEF MoveInv
      <4> QED BY <1>0, <2>2, <3>2, <4>1, StepFlow DEF Flow, Moving
    <3>3. CASE Step(w) /\ op[w].pc = "tell"
      <4>1. Tell(w)
        BY <1>s, <2>2, <3>3, StepIs DEF TellRefused
      <4>2. op[w].to # op[w].dir /\ srv[id] \in File
        BY <1>s, <2>2 DEF Moving, TypeInv
      <4> QED BY <1>s, <2>2, <4>1, <4>2 DEF Tell, Stores, TypeInv, File
    <3> QED BY <2>2, <3>1, <3>2, <3>3, OpsDo, StartPoints
  <2> QED BY <1>3, <2>0, <2>1, <2>2 DEF ListedInv
<1>4. CASE srv[id].st \in {"here", "bin"} /\ srv[IdOf(p)].st \in {"here", "bin"} /\ c \notin obj[p].children
  <2>1. ASSUME NEW w \in Workers, Puts(w, p, c)
        PROVE  IdOf(p) \in srv'[id].parents
    <3>1. Step(w)
      BY <2>1, OpsDo, StartPoints DEF Puts
    <3>2. op'[w].pc = "addParent" /\ op'[w].kid = c /\ op'[w].dir = p
      BY <1>0, <2>1, <3>1, StepFlow DEF Puts, Flow
    <3>3. op'[w].req \in {"create", "mkdir"}
      BY <3>2, NextType DEF OpInv, OpOK, Making
    <3> QED BY <1>s, <3>2, <3>3 DEF PlaceInv, Placing, Sound, Here
  <2>2. ASSUME NEW w \in Workers, Gives(w, p, c)
        PROVE  Mover(w)
    <3>1. Step(w)
      BY <2>2, OpsDo, StartPoints DEF Gives
    <3>2. op'[w].pc = "name"
      BY <2>2, <3>1, StepGoes DEF Gives
    <3>3. op[w].req = "rename" /\ op[w].to # op[w].dir
      BY <2>2 DEF Gives, AskInv
    <3> QED BY <1>0, <2>2, <3>1, <3>2, <3>3, StepFlow DEF Gives, Flow, Moving
  <2>3. CASE Links(p, c)
    <3>1. feed.pc = "add" /\ feed.kid = c /\ p \in feed.todo /\ feed' # feed
      BY <2>3, FeedDo DEF Links, FeedDoes, Fetches, Knows, FindsNew, GoesOn
    <3>2. feed.id = id
      BY <3>1 DEF FetchInv, Feeding
    <3>3. IdOf(p) \in srv[id].parents
      BY <1>4, <1>s, <3>1, <3>2 DEF TellInv, Detached, Sound
    <3>4. srv' = srv
      BY <3>1, Apart DEF Local
    <3> QED BY <3>3, <3>4
  <2> QED BY <1>0, <1>4, <2>1, <2>2, <2>3, ChildrenDo
<1> QED BY <1>1, <1>2, <1>3, <1>4

(* What makes a child late for its folder.                                 *)
LEMMA LateFacts ==
  ASSUME NEW p \in Objs, NEW c \in Objs
  PROVE  /\ \A w \in Workers : op'[w].kid = c =>
              /\ op'[w].pc = "addChild" /\ op'[w].dir = p => Late(p, c)'
              /\ Moving(op'[w]) /\ op'[w].pc # "take" /\ op'[w].dir = p => Late(p, c)'
              /\ op'[w].req = "unlink" /\ op'[w].pc \in {"wait", "remove"} => Late(p, c)'
         /\ feed'.kid = c =>
              /\ feed'.pc \in {"remove", "removeParent"} /\ p \notin obj'[c].parents => Late(p, c)'
              /\ feed'.pc = "add" /\ p \in feed'.todo => Late(p, c)'
              /\ feed'.pc = "addParent" /\ p \in feed'.todo /\ p # feed'.at => Late(p, c)'
BY DEF Late, Moving

(* A folder that something points at is the one idToObject names.          *)
LEMMA TheFolder ==
  ASSUME SoleInv, NEW p \in Objs, Sound(p), Main(p), srv[IdOf(p)].st # "gone", NEW q \in Objs,
         IdOf(q) = IdOf(p),
         \/ \E w \in Workers : q = op[w].dir \/ q = op[w].to
         \/ \E o \in Objs : q \in obj[o].parents \/ q \in obj[o].children
         \/ obj[q].children # {} \/ q = feed.kid \/ q = feed.at \/ q \in feed.todo
  PROVE  q = p
<1>1. Main(q) \/ Pristine(q)
  BY DEF SoleInv, Sound
<1> QED BY <1>1 DEF Pristine, Main

(* A child that is taken off its folder.                                   *)
LEMMA TakenLate ==
  ASSUME TypeInv, OpInv, OldInv, TaskInv, FetchInv, FreeInv, AskInv, TellInv, Next,
         NEW p \in Objs, NEW c \in Objs, Settled(p, c), Settled(p, c)', Main(p),
         In(p, c), c \notin obj'[p].children
  PROVE  Late(p, c)'
<1>s. /\ Sound(c) /\ Sound(p) /\ IdOf(c) \notin odd' /\ srv[IdOf(c)].st \in {"here", "bin"} /\ p # NoObj
      /\ IdOf(p) \in Ids
  BY SettledDo, ObjFacts DEF Settled, Here
<1>1. ASSUME NEW w \in Workers, TakesOff(w, p, c)
      PROVE  Late(p, c)'
  BY <1>s, <1>1, LateFacts DEF TakesOff
<1>2. ASSUME NEW w \in Workers, Drops(w, p, c)
      PROVE  Late(p, c)'
  <2>1. op[w].pc = "take" /\ op[w].kid = c /\ op[w].dir = p /\ Step(w)
    BY <1>s, <1>2 DEF Drops, TaskInv, AskInv, Sound
  <2>2. op'[w].pc = "give"
    BY <2>1, StepGoes
  <2>3. op[w].req = "rename" /\ op[w].to # op[w].dir
    BY <2>1 DEF AskInv
  <2>4. op'[w].kid = c /\ op'[w].dir = p /\ Moving(op'[w])
    BY <2>1, <2>2, <2>3, StepFlow DEF Flow, Idle, Moving
  <2> QED BY <2>2, <2>4, LateFacts
<1>3. ~(feed.pc = "leave" /\ feed.kid = c)
  BY <1>s DEF TellInv
<1>4. CASE Unlinks /\ feed.kid = c /\ feed'.kid = c /\ p \in feed.todo
  <2>1. feed.pc = "remove" /\ feed'.pc = "removeParent" /\ p \notin obj[c].parents
    BY <1>s, <1>4 DEF Unlinks, Carries, OldInv, Feeding
  <2>2. \E q \in Objs : Loses(q, c)
    BY <1>4, <2>1, FeedDo DEF FeedDoes, Fetches, Knows, FindsNew, GoesOn, NoChange
  <2>3. p \notin obj'[c].parents
    BY <2>1, <2>2 DEF Loses, Kept
  <2> QED BY <1>4, <2>1, <2>3, LateFacts
<1>5. \A w \in Workers : ~(Inserts(w) /\ op[w].kid = p)
  BY <1>s DEF Inserts, FreeInv, Main
<1>6. ~FindsNew(p)
  BY <1>s DEF FindsNew, Known, Main
<1> QED BY <1>1, <1>2, <1>3, <1>4, <1>5, <1>6, LosesDo

(* A thread that makes it late.                                            *)
LEMMA LateThread ==
  ASSUME TypeInv, OpInv, SoleInv, AskInv, PlaceInv, MoveInv, GoneInv, Next,
         NEW p \in Objs, NEW c \in Objs, Settled(p, c), Settled(p, c)', Main(p),
         IdOf(p) \in srv'[IdOf(c)].parents,
         NEW w \in Workers, op[w].kid = c,
         \/ op[w].pc = "addChild" /\ op[w].dir = p
         \/ Moving(op[w]) /\ op[w].pc # "take" /\ op[w].dir = p
         \/ op[w].req = "unlink" /\ op[w].pc \in {"wait", "remove"}
  PROVE  c \in obj'[p].children \/ Late(p, c)'
<1>s. /\ Sound(c) /\ Sound(p) /\ IdOf(c) \notin odd' /\ srv[IdOf(c)].st \in {"here", "bin"}
      /\ srv[IdOf(p)].st \in {"here", "bin"} /\ srv'[IdOf(c)].st \in {"here", "bin"} /\ IdOf(c) \in Ids
      /\ \A v \in Workers : ~(op'[v].pc = "detach" /\ IdOf(op'[v].kid) = IdOf(c))
  BY SettledDo DEF Settled, Here
<1>1. CASE op'[w] = op[w]
  BY <1>1, LateFacts
<1>2. CASE Step(w)
  <2>0. Flow(op[w], op'[w]) /\ Idle.pc = "idle"
    BY <1>2, StepFlow DEF Idle
  <2>1. CASE op[w].pc = "addChild" /\ op[w].dir = p
    <3>1. AddsChild(p, c) /\ ~obj[c].trashed
      BY <1>2, <1>s, <2>1, StepIs DEF AddChild, PlaceInv, Placing
    <3> QED BY <3>1 DEF AddsChild, TypeInv, ObjType
  <2>2. CASE Moving(op[w]) /\ op[w].pc # "take" /\ op[w].dir = p
    <3>1. CASE op[w].pc \in {"give", "name", "save"}
      <4>1. op'[w].pc \in {"name", "save", "tell"}
        BY <1>2, <1>s, <2>2, <3>1, StepGoes DEF MoveInv
      <4>2. op'[w].kid = c /\ op'[w].dir = p /\ Moving(op'[w])
        BY <2>0, <2>2, <4>1 DEF Flow, Moving
      <4> QED BY <4>1, <4>2, LateFacts
    <3>2. CASE op[w].pc = "tell"
      <4>1. Tell(w) /\ op[w].to # p /\ op[w].to \in Objs /\ srv[IdOf(c)] \in File
        BY <1>2, <1>s, <2>2, <3>2, StepIs, ObjFacts DEF TellRefused, Moving, OpInv, OpOK, TypeInv
      <4>2. IdOf(op[w].to) # IdOf(p)
        BY <1>s, <4>1, TheFolder
      <4> QED BY <1>s, <2>2, <4>1, <4>2 DEF Tell, Stores, TypeInv, File
    <3> QED BY <2>2, <3>1, <3>2 DEF Moving
  <2>3. CASE op[w].req = "unlink" /\ op[w].pc = "wait"
    <3>1. op'[w].pc = "remove"
      BY <1>2, <2>3, StepGoes
    <3>2. op'[w].kid = c /\ op'[w].req = "unlink"
      BY <2>0, <2>3, <3>1 DEF Flow
    <3> QED BY <3>1, <3>2, LateFacts
  <2>4. CASE op[w].req = "unlink" /\ op[w].pc = "remove"
    <3>1. op'[w].pc \in {"unchild", "detach"}
      BY <1>2, <1>s, <2>4, StepGoes
    <3>2. op'[w].kid = c
      BY <2>0, <3>1 DEF Flow
    <3>3. op'[w].pc = "unchild" => srv'[IdOf(c)].st = "gone"
      BY <1>2, <1>s, <2>4, DeleteDoes
    <3> QED BY <1>s, <3>1, <3>2, <3>3
  <2> QED BY <2>1, <2>2, <2>3, <2>4
<1> QED BY <1>1, <1>2, OpsDo, StartPoints DEF Moving

(* The feed makes it late.                                                 *)
LEMMA LateFeed ==
  ASSUME TypeInv, OpInv, MakeInv, FetchInv, SoleInv, TellInv, Next,
         NEW p \in Objs, NEW c \in Objs, Settled(p, c), Settled(p, c)', Main(p), Main(c), Stored(p, c),
         feed.kid = c,
         \/ feed.pc \in {"remove", "removeParent"} /\ p \notin obj[c].parents
         \/ feed.pc = "add" /\ p \in feed.todo
         \/ feed.pc = "addParent" /\ p \in feed.todo /\ p # feed.at
  PROVE  c \in obj'[p].children \/ Late(p, c)'
<1>s. /\ Sound(c) /\ Sound(p) /\ IdOf(c) \notin odd /\ IdOf(c) \notin odd' /\ srv[IdOf(c)].st \in {"here", "bin"}
      /\ srv[IdOf(p)].st \in {"here", "bin"} /\ IdOf(c) \in Ids /\ IdOf(p) \in Ids /\ p # NoObj
      /\ ~Detached(c)
  BY SettledDo, ObjFacts DEF Settled, Here, Sound
<1>i. feed.id = IdOf(c)
  BY DEF FetchInv, Feeding
<1>p. feed.pc # "addParent" => \A q \in Objs : q \notin obj[c].parents => q \notin obj'[c].parents
  <2>1. \A w \in Workers : feed.pc # "idle" => ~Made(w, c)
    BY <1>s, <1>i DEF Made, FetchInv, Placing
  <2>2. feed.pc # "idle"
    OBVIOUS
  <2> QED BY <2>1, <2>2, ParentsDo DEF Orphan, Fed, Unfed
<1>1. CASE feed' = feed
  BY <1>1, <1>p, LateFacts
<1>2. CASE Turns /\ FeedDoes
  <2>1. CASE feed.pc = "remove" /\ p \notin obj[c].parents
    <3>1. CASE Unlinks
      <4>1. feed'.pc = "removeParent" /\ feed'.kid = c
        BY <1>2, <3>1 DEF Unlinks, Turns, Carries, NoChange
      <4> QED BY <1>p, <2>1, <4>1, LateFacts
    <3>2. CASE Chooses
      <4>1. feed.file.parents = srv[IdOf(c)].parents
        BY <1>s, <1>i, <2>1 DEF TellInv, Detached
      <4>2. IdOf(p) \notin Parents(c)
        <5> SUFFICES ASSUME NEW q \in obj[c].parents, IdOf(q) = IdOf(p)
                     PROVE  FALSE
          BY DEF Parents
        <5>1. q \in Objs
          BY DEF TypeInv, ObjType, Dirs
        <5>2. q = p
          BY <1>s, <5>1, TheFolder
        <5> QED BY <2>1, <5>2
      <4>3. feed'.pc = "add" /\ p \in feed'.todo
        BY <1>s, <3>2, <4>1, <4>2 DEF Chooses, Plans, Stored, Main
      <4>4. feed'.kid = c
        BY <1>2, <4>3 DEF Turns, NoChange
      <4> QED BY <4>3, <4>4, LateFacts
    <3> QED BY <1>2, <2>1, <3>1, <3>2 DEF Turns, Leaves, Unfeeds, Feeds, Goes
  <2>2. CASE feed.pc = "removeParent" /\ p \notin obj[c].parents
    <3>1. feed'.pc = "remove" /\ feed'.kid = c
      BY <1>2, <2>2 DEF Turns, NoChange, Leaves, Unlinks, Chooses, Unfeeds, Feeds, Goes, Carries
    <3> QED BY <1>p, <2>2, <3>1, LateFacts
  <2>3. CASE feed.pc = "add" /\ p \in feed.todo
    <3>1. feed'.pc = "addParent" /\ feed'.kid = c /\ feed'.todo = feed.todo /\ feed'.at \in feed.todo
      BY <1>2, <2>3 DEF Turns, NoChange, Leaves, Unlinks, Chooses, Unfeeds, Feeds, Goes, Carries
    <3>2. CASE feed'.at # p
      BY <2>3, <3>1, <3>2, LateFacts
    <3>3. CASE feed'.at = p
      <4>1. Adds(p, c)
        BY <1>2, <2>3, <3>1, <3>3 DEF FeedDoes, Fetches, Knows, FindsNew
      <4>2. ~obj[c].trashed
        BY <1>2, <1>s, <2>3 DEF Turns, Leaves, Unlinks, Chooses, Unfeeds, Feeds, Goes
      <4> QED BY <4>1, <4>2 DEF Adds
    <3> QED BY <3>2, <3>3
  <2>4. CASE feed.pc = "addParent" /\ p \in feed.todo /\ p # feed.at
    <3>1. feed'.pc = "add" /\ feed'.kid = c /\ feed'.todo = feed.todo \ {feed.at}
      BY <1>2, <2>4 DEF Turns, NoChange, Leaves, Unlinks, Chooses, Unfeeds, Feeds, Goes, Carries
    <3> QED BY <2>4, <3>1, LateFacts
  <2> QED BY <2>1, <2>2, <2>3, <2>4
<1>3. FeedTurns => Turns
  BY DEF FeedTurns, Fetches, Skips, Buries, Updates, Knows, Brings, FindsNew
<1> QED BY <1>1, <1>2, <1>3, TurnDo

(* The turn in which the feed makes an object.                             *)
LEMMA BringsIt ==
  ASSUME TypeInv, OpInv, Next, NEW c \in Objs, FindsNew(c)
  PROVE  Brings(c) /\ srv' = srv
<1>1. feed.pc = "apply" /\ Known = NoObj /\ (feed' = NoChange \/ feed'.pc = "add") /\ IdOf(c) = feed.id
  BY DEF FindsNew
<1>2. byId'[feed.id] = c /\ byId' # byId /\ feed' # feed /\ Known \notin Objs
  <2>1. byId'[feed.id] = c /\ byId[feed.id] = NoObj
    BY <1>1, ObjFacts DEF FindsNew, TypeInv, Known
  <2>2. feed' # feed
    BY <1>1 DEF NoChange
  <2> QED BY <1>1, <2>1, <2>2, ObjFacts
<1>3. srv' = srv
  BY <1>2, Apart DEF Local
<1>4. FeedTurns
  BY <1>2, TurnDo
<1>5. ~Skips /\ ~Turns
  BY <1>2 DEF Skips, Turns
<1>6. ~Buries /\ ~Updates
  BY <1>2 DEF Buries, Updates, Knows
<1>7. \A j : ~Fetches(j)
  BY <1>1 DEF Fetches
<1>8. PICK o \in Objs : Brings(o)
  BY <1>4, <1>5, <1>6, <1>7 DEF FeedTurns
<1>9. FindsNew(o)
  BY <1>8 DEF Brings
<1>10. byId'[feed.id] = o
  BY <1>9, ObjFacts DEF FindsNew, TypeInv
<1> QED BY <1>2, <1>3, <1>8, <1>10

(* A file that has just come to idToObject is late for its folders.        *)
LEMMA NewLate ==
  ASSUME TypeInv, OpInv, FetchInv, RealInv, TellInv, PlaceInv', SoleInv', Next,
         NEW p \in Objs, NEW c \in Objs, Settled(p, c), Settled(p, c)', Main(p)', Main(c)',
         IdOf(p) \in srv'[IdOf(c)].parents, byId[IdOf(c)] # c
  PROVE  Late(p, c)'
<1>s. /\ Sound(c) /\ Sound(p) /\ IdOf(c) \notin odd /\ IdOf(c) \notin odd' /\ IdOf(p) \notin odd'
      /\ srv[IdOf(c)].st \in {"here", "bin"} /\ srv'[IdOf(c)].st \in {"here", "bin"}
      /\ srv'[IdOf(p)].st \in {"here", "bin"} /\ IdOf(c) \in Ids /\ IdOf(p) \in Ids /\ p # NoObj /\ c # NoObj
      /\ ~Detached(c) /\ byId'[IdOf(p)] = p /\ byId'[IdOf(c)] = c
  BY SettledDo, ObjFacts DEF Settled, Here, Sound, Main
<1>1. ASSUME NEW w \in Workers, Inserts(w), op[w].kid = c
      PROVE  Late(p, c)'
  <2>1. op[w].pc = "insert" /\ op'[w].pc = "addChild"
    BY <1>1 DEF Inserts
  <2>2. Step(w)
    BY <2>1, OpsDo, StartPoints
  <2>3. op'[w].kid = c
    BY <1>1, <2>1, <2>2, StepFlow DEF Flow, Idle
  <2>4. op'[w].dir \in Objs /\ op'[w].req \in {"create", "mkdir"}
    BY <2>1, NextType, ObjFacts DEF OpInv, OpOK, Making
  <2>5. IdOf(op'[w].dir) = IdOf(p)
    BY <1>s, <2>1, <2>3, <2>4 DEF PlaceInv, Placing, Sound, Here
  <2>6. op'[w].dir = p
    <3> DEFINE d == op'[w].dir
    <3> HIDE DEF d
    <3>1. ASSUME NEW q \in Objs, IdOf(q) = IdOf(p), q = op'[w].dir
          PROVE  q = p
      BY <1>s, <3>1 DEF SoleInv, Sound, Main, Pristine
    <3> QED BY <2>4, <2>5, <3>1
  <2> QED BY <2>1, <2>3, <2>6, LateFacts
<1>2. CASE FindsNew(c) /\ feed.id = IdOf(c)
  <2>1. Brings(c) /\ srv' = srv
    BY <1>2, BringsIt
  <2>2. feed.file.parents = srv[IdOf(c)].parents /\ feed.pc = "apply" /\ Known = NoObj
    BY <1>2, <1>s DEF TellInv, Detached, FindsNew
  <2>4. /\ byId[IdOf(p)] = NoObj => feed.id \in odd'
        /\ byId[IdOf(p)] # NoObj => feed'.pc = "add" /\ byId[IdOf(p)] \in feed'.todo
    BY <2>1, <2>2 DEF Brings, Plans
  <2>5. IdOf(p) # IdOf(c)
    BY <1>2, <1>s, <2>2, <2>4 DEF Known
  <2>6. byId[IdOf(p)] = p
    BY <1>2, <1>s, <2>5 DEF FindsNew, TypeInv
  <2>7. feed'.kid = c
    BY <1>2, <1>s, <2>4, <2>6 DEF FindsNew, NoChange
  <2> QED BY <1>s, <2>4, <2>6, <2>7, LateFacts
<1> QED BY <1>s, <1>1, <1>2, MapDo DEF FindsNew

LEMMA StoredStep ==
  ASSUME TypeInv, OpInv, MakeInv, OldInv, TaskInv, FetchInv, RealInv, BareInv, GoneInv, FreeInv,
         OneInv, SoleInv, SoleInv', AskInv, TellInv, PlaceInv, PlaceInv', NewInv, MoveInv, KnowInv,
         SameInv, StoredInv, Next
  PROVE  StoredInv'
<1> SUFFICES ASSUME NEW p \in Objs, NEW c \in Objs, Settled(p, c)', Main(p)', Main(c)',
                    IdOf(p) \in srv'[IdOf(c)].parents
             PROVE  c \in obj'[p].children \/ Late(p, c)'
  BY DEF StoredInv, Stored, In
<1> DEFINE id == IdOf(c)
<1>s. /\ Sound(c) /\ Sound(p) /\ ~Detached(c) /\ Sound(c)' /\ Sound(p)'
      /\ srv'[id].st \in {"here", "bin"} /\ srv'[IdOf(p)].st \in {"here", "bin"}
      /\ id \in Ids /\ IdOf(p) \in Ids /\ id \notin odd' /\ IdOf(p) \notin odd'
      /\ p # NoObj /\ c # NoObj /\ byId'[IdOf(p)] = p /\ byId'[id] = c
      /\ \A w \in Workers : ~(op'[w].pc = "detach" /\ IdOf(op'[w].kid) = id)
  BY SettledDo, ObjFacts DEF Main
<1>1. CASE srv[id].st \notin {"here", "bin"}
  <2>1. /\ srv[id].st = "none" /\ obj' = obj /\ byId' = byId
        /\ Fresh(id) \/ \E o \in Objs : IdOf(o) = id /\ Uploads(o)
    BY <1>1, <1>s, BornDo DEF Local
  <2>2. ~Fresh(id)
    BY <1>s, <2>1 DEF Fresh, Unused
  <2>3. Uploads(c)
    BY <1>s, <2>1, <2>2, UploadedOne DEF Main
  <2>4. PICK q \in obj[c].parents : IdOf(q) = IdOf(p)
    BY <2>3 DEF Uploads
  <2>5. q \in Objs /\ In(q, c) /\ srv[IdOf(p)].st # "gone"
    BY <1>s, <2>1, BornDo DEF NewInv, TypeInv, ObjType, Dirs
  <2>6. q = p
    BY <1>s, <2>1, <2>4, <2>5, TheFolder DEF Main
  <2> QED BY <2>1, <2>5, <2>6 DEF In
<1>2. CASE srv[IdOf(p)].st \notin {"here", "bin"}
  <2>1. /\ obj' = obj /\ byId' = byId
        /\ Fresh(IdOf(p)) \/ \E o \in Objs : IdOf(o) = IdOf(p) /\ Uploads(o)
    BY <1>2, <1>s, BornDo DEF Local
  <2>2. Fresh(IdOf(p))
    <3>1. IdOf(p) \in Folders
      BY <1>s, NextType DEF TypeInv, File
    <3> QED BY <2>1, <3>1 DEF Uploads, Store, IsFolder
  <2> QED BY <1>s, <2>1, <2>2 DEF Fresh, Unused
<1>3. CASE srv[id].st \in {"here", "bin"} /\ srv[IdOf(p)].st \in {"here", "bin"}
  <2>0. Settled(p, c)
    BY <1>3, <1>s DEF Settled, Here
  <2>1. CASE ~Main(c)
    BY <1>s, <2>0, <2>1, NewLate DEF Main
  <2>2. CASE Main(c) /\ ~Main(p)
    <3>1. ~UNCHANGED Local
      BY <1>s, <2>2 DEF Local, Main
    <3>2. srv' = srv
      BY <3>1, Apart
    <3>3. byId[IdOf(p)] # NoObj
      BY <1>3, <1>s, <2>2, <3>2, FeedDo DEF KnowInv, Here, Sound
    <3>4. ASSUME NEW w \in Workers, Inserts(w), IdOf(op[w].kid) = IdOf(p)
          PROVE  FALSE
      BY <1>s, <3>3, <3>4 DEF Inserts, FreeInv, Sound
    <3>5. \A o \in Objs : ~(FindsNew(o) /\ feed.id = IdOf(p))
      BY <3>3 DEF FindsNew, Known
    <3> QED BY <1>s, <2>2, <3>4, <3>5, MapDo DEF Main
  <2>3. CASE Main(c) /\ Main(p) /\ ~Stored(p, c)
    <3>1. srv'[id].parents # srv[id].parents
      BY <2>3 DEF Stored
    <3>2. \A w \in Workers : ~Frees(w, id)
      BY <1>s DEF Frees
    <3>3. UNCHANGED Local /\ \E w \in Workers : Tells(w, id) /\ op[w].to # op[w].dir
      BY <1>3, <1>s, <3>1, <3>2, ParentsOn
    <3>4. PICK w \in Workers : Tells(w, id) /\ op[w].to # op[w].dir
      BY <3>3
    <3>5. /\ op[w].kid \in Objs /\ op[w].to \in Objs /\ op[w].pc = "tell" /\ Busy(op[w].kid)
          /\ Moving(op[w]) /\ IdOf(op[w].kid) = id /\ IdOf(op[w].to) = IdOf(p)
      BY <2>3, <3>4, ObjFacts DEF Tells, OpInv, OpOK, Busy, AskInv, Moving, Stored
    <3>6. op[w].kid = c
      BY <1>3, <1>s, <2>3, <3>5 DEF OneInv, Ended, Sound, Main
    <3>7. op[w].to = p
      BY <1>3, <1>s, <2>3, <3>5, TheFolder
    <3>8. In(p, c)
      BY <1>3, <1>s, <3>5, <3>6, <3>7 DEF MoveInv, Here
    <3> QED BY <3>3, <3>8 DEF Local, In
  <2>4. CASE Main(c) /\ Main(p) /\ Stored(p, c)
    <3>1. In(p, c) \/ Late(p, c)
      BY <2>0, <2>4 DEF StoredInv
    <3>2. CASE In(p, c)
      BY <2>0, <2>4, <3>2, TakenLate
    <3>3. ASSUME NEW w \in Workers, op[w].kid = c,
                 \/ op[w].pc = "addChild" /\ op[w].dir = p
                 \/ Moving(op[w]) /\ op[w].pc # "take" /\ op[w].dir = p
                 \/ op[w].req = "unlink" /\ op[w].pc \in {"wait", "remove"}
          PROVE  c \in obj'[p].children \/ Late(p, c)'
      BY <2>0, <2>4, <3>3, LateThread
    <3>4. ASSUME feed.kid = c, \/ feed.pc \in {"remove", "removeParent"} /\ p \notin obj[c].parents
                               \/ feed.pc = "add" /\ p \in feed.todo
                               \/ feed.pc = "addParent" /\ p \in feed.todo /\ p # feed.at
          PROVE  c \in obj'[p].children \/ Late(p, c)'
      BY <2>0, <2>4, <3>4, LateFeed
    <3> QED BY <3>1, <3>2, <3>3, <3>4 DEF Late
  <2> QED BY <2>1, <2>2, <2>3, <2>4
<1> QED BY <1>1, <1>2, <1>3

(* A folder that is known stays so while it is not gone.                   *)
LEMMA StaysKnown ==
  ASSUME TypeInv, OpInv, TaskInv, LinkInv, FileInv, GoneInv, FreeInv, Next,
         NEW id \in Ids, id \notin odd', srv'[id].st # "gone", byId[id] # NoObj
  PROVE  byId'[id] = byId[id]
<1>1. byId[id] \in Objs /\ IdOf(byId[id]) = id
  BY DEF TypeInv, AnyObj
<1>2. \A q \in Objs : IdOf(q) = id /\ byId[id] = q => byId'[id] = q
  BY MainKept DEF Sound, Main
<1> QED BY <1>1, <1>2

LEMMA KnowStep ==
  ASSUME TypeInv, OpInv, TaskInv, LinkInv, FetchInv, FileInv, GoneInv, FreeInv, OneInv, SoleInv,
         SoleInv', SrvInv, TellInv, PlaceInv', KnowInv, Next
  PROVE  KnowInv'
<1> SUFFICES ASSUME NEW c \in Objs, Sound(c)', byId'[IdOf(c)] = c, srv'[IdOf(c)].st \in {"here", "bin"},
                    NEW p \in srv'[IdOf(c)].parents, p \notin odd', srv'[p].st \in {"here", "bin"}
             PROVE  byId'[p] # NoObj
  BY DEF KnowInv, Main, Here
<1> DEFINE id == IdOf(c)
<1>0. /\ id \in Ids /\ id \notin odd /\ id \notin odd' /\ p \in Ids /\ p \in Folders /\ p \notin odd
      /\ Sound(c) /\ NoObj \notin Objs
  BY ObjFacts, FeedDo, NextType, Constants DEF Sound, TypeInv, File
<1>k. byId[p] # NoObj => byId'[p] # NoObj
  BY <1>0, StaysKnown
<1>q. ASSUME NEW q \in Objs, IdOf(q) = p, srv[p].st # "gone",
             \/ \E o \in Objs : q \in obj[o].parents
             \/ \E w \in Workers : q = op[w].to
      PROVE  byId[p] # NoObj
  BY <1>0, <1>q DEF SoleInv, Sound, Main, Pristine
<1>1. CASE srv[id].st \notin {"here", "bin"}
  <2>1. /\ srv[id].st = "none" /\ byId' = byId
        /\ Fresh(id) \/ \E o \in Objs : IdOf(o) = id /\ Uploads(o)
    BY <1>0, <1>1, BornDo DEF Local
  <2>2. ~Fresh(id)
    BY <1>0, <2>1 DEF Fresh, Unused
  <2>3. Uploads(c)
    BY <1>0, <2>1, <2>2, UploadedOne DEF Main
  <2>4. PICK q \in obj[c].parents : IdOf(q) = p
    BY <2>3 DEF Uploads
  <2>5. q \in Objs /\ srv[p].st # "gone"
    BY <1>0, BornDo DEF TypeInv, ObjType, Dirs
  <2> QED BY <2>1, <2>4, <2>5, <1>q
<1>2. CASE srv[id].st \in {"here", "bin"} /\ p \notin srv[id].parents
  <2>1. srv'[id].parents # srv[id].parents
    BY <1>2
  <2>2. \A w \in Workers : ~Frees(w, id)
    BY <1>2 DEF Frees
  <2>3. PICK w \in Workers : Tells(w, id) /\ op[w].to # op[w].dir
    BY <1>0, <1>2, <2>1, <2>2, ParentsOn
  <2>4. op[w].to \in Objs /\ IdOf(op[w].to) = p
    BY <1>2, <2>3, ObjFacts DEF Tells, OpInv, OpOK
  <2>5. srv[p].st # "gone"
    BY <1>0, BornDo
  <2> QED BY <1>k, <1>q, <2>4, <2>5
<1>3. CASE srv[id].st \in {"here", "bin"} /\ p \in srv[id].parents
  <2>1. srv[p].st \in {"here", "bin"}
    BY <1>0, <1>3, BornDo DEF SrvInv
  <2>2. CASE Main(c)
    BY <1>0, <1>3, <1>k, <2>1, <2>2 DEF KnowInv, Here
  <2>3. ASSUME NEW w \in Workers, Inserts(w), op[w].kid = c
        PROVE  byId'[p] # NoObj
    <3>1. op[w].pc = "insert" /\ op'[w].pc = "addChild"
      BY <2>3 DEF Inserts
    <3>2. Step(w)
      BY <3>1, OpsDo, StartPoints
    <3>3. op'[w].kid = c
      BY <2>3, <3>1, <3>2, StepFlow DEF Flow, Idle
    <3>4. op'[w].dir \in Objs /\ op'[w].req \in {"create", "mkdir"}
      BY <3>1, NextType, ObjFacts DEF OpInv, OpOK, Making
    <3>5. IdOf(op'[w].dir) = p
      BY <1>0, <3>1, <3>3, <3>4 DEF PlaceInv, Placing, Sound, Here
    <3>6. ASSUME NEW q \in Objs, IdOf(q) = p, q = op'[w].dir
          PROVE  byId'[p] = q
      BY <1>0, <3>6 DEF SoleInv, Sound, Main, Pristine
    <3> QED BY <1>0, <3>4, <3>5, <3>6
  <2>4. CASE FindsNew(c) /\ ~Main(c)
    <3>1. Brings(c) /\ feed.pc = "apply" /\ feed.id = id /\ byId[id] = NoObj
      BY <1>0, <2>4, BringsIt DEF FindsNew, Known
    <3>2. ~Detached(c)
      <4> SUFFICES ASSUME NEW v \in Workers, op[v].pc = "detach", IdOf(op[v].kid) = id
                   PROVE  FALSE
        BY DEF Detached
      <4>1. op[v].kid \in Objs /\ Busy(op[v].kid)
        BY DEF OpInv, OpOK, Busy
      <4> QED BY <1>0, <1>3, <3>1, <4>1 DEF OneInv, Ended, Sound
    <3>3. feed.file.parents = srv[id].parents
      BY <1>0, <1>3, <3>1, <3>2 DEF TellInv, Detached
    <3>4. byId[p] # NoObj
      BY <1>0, <1>3, <3>1, <3>3 DEF Brings, Plans
    <3> QED BY <1>k, <3>4
  <2> QED BY <1>0, <2>2, <2>3, <2>4, MapDo DEF Main
<1> QED BY <1>1, <1>2, <1>3

LEMMA HaveStep ==
  ASSUME TypeInv, OpInv, TaskInv, LinkInv, FileInv, GoneInv, FreeInv, HaveInv, Next
  PROVE  HaveInv'
<1> SUFFICES ASSUME NEW id \in Ids, id \notin odd', srv'[id].st \in {"here", "bin"}, byId'[id] = NoObj
             PROVE  \/ id \in news' \/ (feed'.pc = "apply" /\ feed'.id = id)
                    \/ \E w \in Workers : op'[w].pc = "insert" /\ IdOf(op'[w].kid) = id
  BY DEF HaveInv
<1>0. id \notin odd /\ NoObj \notin Objs
  BY FeedDo, ObjFacts
<1>1. CASE srv[id].st \notin {"here", "bin"}
  BY <1>1, BornDo
<1>2. byId[id] = NoObj
  BY StaysKnown
<1>3. CASE id \in news
  BY <1>3, NewsDo DEF Fetches
<1>4. CASE srv[id].st \in {"here", "bin"} /\ feed.pc = "apply" /\ feed.id = id
  <2>1. Known = NoObj
    BY <1>2, <1>4 DEF Known
  <2>2. \A o \in Objs : ~Brings(o)
    BY <1>0, <1>4 DEF Brings, FindsNew, TypeInv
  <2>3. ~Buries /\ ~Updates
    BY <1>0, <2>1 DEF Buries, Updates, Knows
  <2>4. ~Skips
    BY <1>4 DEF Skips, FileInv
  <2>5. ~Turns /\ \A j : ~Fetches(j)
    BY <1>4 DEF Turns, Leaves, Unlinks, Chooses, Unfeeds, Feeds, Goes, Fetches
  <2> QED BY <1>4, <2>2, <2>3, <2>4, <2>5, TurnDo DEF FeedTurns
<1>5. ASSUME NEW w \in Workers, op[w].pc = "insert", IdOf(op[w].kid) = id
      PROVE  op'[w] = op[w]
  <2>1. ~Step(w)
    <3> SUFFICES ASSUME Step(w)
                 PROVE  FALSE
      OBVIOUS
    <3>1. Inserts(w) /\ op[w].kid \in Objs
      BY <1>5, StepDoes DEF Does, Quietly, Counts
    <3> QED BY <1>0, <1>5, <3>1 DEF Inserts, TypeInv
  <2> QED BY <1>5, <2>1, OpsDo, StartPoints
<1> QED BY <1>0, <1>1, <1>2, <1>3, <1>4, <1>5 DEF HaveInv

(* When there is nothing more to tell of a file that is known, the feed    *)
(* has just told what the server has.                                      *)
LEMMA ToldNow ==
  ASSUME TypeInv, OpInv, TellInv, Next, NEW c \in Objs, Main(c), Pending(c),
         IdOf(c) \notin news', ~(feed'.pc = "apply" /\ feed'.id = IdOf(c))
  PROVE  /\ Known = c /\ srv' = srv /\ feed.file = srv[IdOf(c)]
         /\ Buries \/ Updates
<1>0. IdOf(c) \in Ids /\ c # NoObj
  BY ObjFacts
<1>1. IdOf(c) \notin news
  BY <1>0, NewsDo DEF Fetches
<1>2. feed.pc = "apply" /\ feed.id = IdOf(c) /\ Known = c
  BY <1>1 DEF Pending, Main, Known
<1>3. feed' # feed
  BY <1>2
<1>4. srv' = srv
  BY <1>3, Apart DEF Local
<1>5. \A j : ~Fetches(j)
  BY <1>2 DEF Fetches
<1>6. ~Skips /\ ~\E o \in Objs : Brings(o)
  BY <1>0, <1>2 DEF Skips, Brings, FindsNew
<1>7. ~Turns
  BY <1>2 DEF Turns, Leaves, Unlinks, Chooses, Unfeeds, Feeds, Goes
<1>8. Buries \/ Updates
  BY <1>3, <1>5, <1>6, <1>7, TurnDo DEF FeedTurns
<1> QED BY <1>1, <1>2, <1>4, <1>8 DEF TellInv

(* The turn in which the feed finds the object it is told of.              *)
LEMMA RenewsIt ==
  ASSUME TypeInv, OpInv, Next, NEW c \in Objs, Main(c), Renews(IdOf(c))
  PROVE  feed.pc = "apply" /\ feed.id = IdOf(c) /\ Known = c /\ Updates
<1>0. c # NoObj
  BY ObjFacts
<1>1. feed.id = IdOf(c) /\ Known = c
  BY DEF Renews, Main, Known
<1>2. Knows
  BY <1>0, <1>1 DEF Renews, FindsNew
<1>3. feed.pc = "apply" /\ feed'.pc = "remove" /\ NoChange.pc = "idle"
  BY <1>2 DEF Knows, NoChange
<1>4. FeedTurns
  BY <1>3, TurnDo
<1>5. ~Turns /\ \A j : ~Fetches(j)
  BY <1>3 DEF Turns, Leaves, Unlinks, Chooses, Unfeeds, Feeds, Goes, Fetches
<1>6. ~Skips /\ ~Buries /\ ~\E o \in Objs : Brings(o)
  BY <1>0, <1>1, <1>3 DEF Skips, Buries, Carries, Brings, FindsNew
<1> QED BY <1>1, <1>3, <1>4, <1>5, <1>6 DEF FeedTurns

(* An object that has just come to idToObject is as the server has it.     *)
LEMMA SameNew ==
  ASSUME TypeInv, OpInv, TellInv, PlaceInv', Next, NEW c \in Objs, Sound(c)', ~Main(c),
         byId'[IdOf(c)] = c,
         IdOf(c) \notin news', ~(feed'.pc = "apply" /\ feed'.id = IdOf(c))
  PROVE  LET file == srv'[IdOf(c)] IN
         /\ file.st = "gone" => obj'[c].trashed
         /\ file.st \in {"here", "bin"} =>
              /\ obj'[c].trashed <=> file.st = "bin"
              /\ obj'[c].uploaded /\ obj'[c].name = file.name
<1> DEFINE id == IdOf(c)
           file == srv'[id]
           Goal == /\ file.st = "gone" => obj'[c].trashed
                   /\ file.st \in {"here", "bin"} =>
                        /\ obj'[c].trashed <=> file.st = "bin"
                        /\ obj'[c].uploaded /\ obj'[c].name = file.name
<1>0. id \in Ids /\ c # NoObj /\ id \notin odd'
  BY ObjFacts DEF Sound
<1>1. ASSUME NEW w \in Workers, Inserts(w), op[w].kid = c
      PROVE  Goal
  <2>1. op[w].pc = "insert" /\ op'[w].pc = "addChild"
    BY <1>1 DEF Inserts
  <2>2. Step(w)
    BY <2>1, OpsDo, StartPoints
  <2>3. op'[w].kid = c
    BY <1>1, <2>1, <2>2, StepFlow DEF Flow, Idle
  <2>4. op'[w].req \in {"create", "mkdir"}
    BY <2>1, NextType DEF OpInv, OpOK, Making
  <2>5. file.st = "none"
    BY <2>1, <2>3, <2>4 DEF PlaceInv, Placing, Sound
  <2> QED BY <2>5
<1>2. CASE FindsNew(c)
  <2>1. Brings(c) /\ srv' = srv
    BY <1>2, BringsIt
  <2>2. feed.pc = "apply" /\ feed.id = id /\ feed.file.st # "gone"
    BY <1>2 DEF FindsNew
  <2>3. id \notin news
    BY <1>0, <2>2, NewsDo DEF Fetches
  <2>4. feed.file = file
    BY <2>1, <2>2, <2>3 DEF TellInv
  <2>5. /\ obj'[c].trashed <=> feed.file.st = "bin"
        /\ obj'[c].uploaded /\ obj'[c].name = feed.file.name
    BY <2>1 DEF Brings, Settles
  <2>6. srv'[id].st # "gone"
    BY <2>2, <2>4
  <2>7. (obj'[c].trashed <=> srv'[id].st = "bin") /\ obj'[c].uploaded /\ obj'[c].name = srv'[id].name
    BY <2>4, <2>5
  <2> QED BY <2>6, <2>7
<1>3. Goal
  BY <1>0, <1>1, <1>2, MapDo DEF Main
<1> QED BY <1>3

(* One that stays there.                                                   *)
LEMMA SameTrash ==
  ASSUME TypeInv, OpInv, TaskInv, LinkInv, FileInv, GoneInv, FreeInv, OneInv, TellInv, SameInv,
         Next, NEW c \in Objs, Sound(c)', Main(c), byId'[IdOf(c)] = c,
         IdOf(c) \notin news', ~(feed'.pc = "apply" /\ feed'.id = IdOf(c))
  PROVE  LET file == srv'[IdOf(c)] IN
         /\ file.st = "gone" => obj'[c].trashed
         /\ file.st \in {"here", "bin"} => (obj'[c].trashed <=> file.st = "bin")
<1> DEFINE id == IdOf(c)
<1>0. id \in Ids /\ c # NoObj /\ id \notin odd /\ Sound(c)
  BY ObjFacts, FeedDo DEF Sound
<1>1. srv'[id] = srv[id]
  BY <1>0, SrvDo
<1>2. CASE Pending(c)
  <2>1. Known = c /\ feed.file = srv[id] /\ (Buries \/ Updates)
    BY <1>2, ToldNow
  <2>2. CASE Buries
    BY <1>1, <2>1, <2>2 DEF Buries, Trashes
  <2>3. CASE Updates
    BY <1>1, <2>1, <2>3 DEF Updates, Settles
  <2> QED BY <2>1, <2>2, <2>3
<1>3. CASE ~Pending(c)
  <2>1. /\ srv[id].st = "gone" => obj[c].trashed
        /\ srv[id].st \in {"here", "bin"} => (obj[c].trashed <=> srv[id].st = "bin")
    BY <1>0, <1>3 DEF SameInv, Over, Here
  <2>2. ~Renews(id)
    BY <1>3, RenewsIt DEF Pending
  <2>3. srv'[id].st # "gone" => obj'[c].trashed = obj[c].trashed
    BY <2>2, MainKept
  <2>4. ASSUME srv'[id].st = "gone"
        PROVE  obj'[c].trashed
    <3>1. obj[c].trashed
      BY <1>1, <2>1, <2>4
    <3>2. ASSUME NEW w \in Workers, Marks(w, id)
          PROVE  obj'[c].trashed
      <4>1. op[w].pc = "mark" /\ IdOf(op[w].kid) = id /\ Trashes(op[w].kid) /\ op[w].kid \in Objs
        BY <3>2 DEF Marks, OpInv, OpOK
      <4>2. Busy(op[w].kid)
        BY <4>1 DEF Busy
      <4>3. op[w].kid = c
        BY <1>0, <4>1, <4>2 DEF OneInv, Ended, Sound, Main
      <4> QED BY <4>1, <4>3 DEF Trashes
    <3>3. ~Inserting(id)
      BY <1>0 DEF Inserting, Inserts, FreeInv, Sound, Main
    <3>4. ~Forsakes(id)
      BY <1>3 DEF Forsakes, Pending
    <3> QED BY <2>2, <3>1, <3>2, <3>3, <3>4, EndsDo
  <2> QED BY <1>1, <2>1, <2>3, <2>4
<1> QED BY <1>2, <1>3

LEMMA SameUploaded ==
  ASSUME TypeInv, OpInv, FreeInv, TellInv, SameInv,
         Next, NEW c \in Objs, Sound(c)', Main(c), srv'[IdOf(c)].st \in {"here", "bin"},
         IdOf(c) \notin news', ~(feed'.pc = "apply" /\ feed'.id = IdOf(c))
  PROVE  /\ obj'[c].uploaded
         /\ \/ obj'[c].name = srv'[IdOf(c)].name
            \/ \E w \in Workers : op'[w].pc \in {"save", "tell"} /\ op'[w].kid = c
<1> DEFINE id == IdOf(c)
<1>0. id \in Ids /\ c # NoObj /\ id \notin odd /\ id \notin odd' /\ Sound(c)
  BY ObjFacts, FeedDo DEF Sound
<1>1. srv[id].st \in {"here", "bin"} /\ srv'[id] = srv[id]
  BY <1>0, BornDo, SrvDo
<1>2. \A w \in Workers : ~(op[w].pc = "insert" /\ op[w].kid = c)
  BY <1>0 DEF FreeInv, Main
<1>3. CASE Pending(c)
  <2>1. Known = c /\ feed.file = srv[id] /\ (Buries \/ Updates)
    BY <1>3, ToldNow
  <2>2. Updates
    BY <1>1, <2>1 DEF Buries
  <2> QED BY <1>1, <2>1, <2>2 DEF Updates, Settles
<1>4. CASE ~Pending(c)
  <2>1. /\ obj[c].uploaded
        /\ \/ obj[c].name = srv[id].name
           \/ \E w \in Workers : op[w].pc \in {"save", "tell"} /\ op[w].kid = c
    BY <1>0, <1>1, <1>4 DEF SameInv, Here
  <2>2. obj'[c].uploaded
    BY <1>2, <2>1, FieldsDo DEF Inserts
  <2>3. ASSUME NEW w \in Workers, op[w].pc \in {"save", "tell"}, op[w].kid = c
        PROVE  op'[w].pc \in {"save", "tell"} /\ op'[w].kid = c
    <3>1. ~(Step(w) /\ op[w].pc = "tell")
      <4> SUFFICES ASSUME Step(w), op[w].pc = "tell"
                   PROVE  FALSE
        OBVIOUS
      <4>1. Tell(w) \/ TellRefused(w)
        BY StepIs
      <4>2. ~Tell(w)
        BY <2>3 DEF Tell, Stores
      <4>3. ~TellRefused(w)
        BY <1>0, <2>3 DEF TellRefused
      <4> QED BY <4>1, <4>2, <4>3
    <3>2. CASE Step(w) /\ op[w].pc = "save"
      <4>1. op'[w].pc = "tell"
        BY <2>1, <2>3, <3>2, StepGoes
      <4> QED BY <2>3, <3>2, <4>1, StepFlow DEF Flow, Idle
    <3>3. ~Starts(w)
      BY <2>3, StartPoints
    <3> QED BY <2>3, <3>1, <3>2, <3>3, OpsDo
  <2>4. ASSUME NEW w \in Workers, Step(w), op[w].pc = "name", op[w].kid = c
        PROVE  op'[w].pc = "save" /\ op'[w].kid = c
    <3>1. op'[w].pc = "save"
      BY <2>4, StepGoes
    <3> QED BY <2>4, <3>1, StepFlow DEF Flow, Idle
  <2>5. CASE obj'[c].name = obj[c].name
    BY <1>1, <2>1, <2>2, <2>3, <2>5
  <2>6. CASE \E w \in Workers : Step(w) /\ op[w].pc \in {"insert", "name"} /\ op[w].kid = c
    BY <1>2, <2>2, <2>4, <2>6
  <2>7. ~(feed.pc = "apply" /\ feed.id = id)
    BY <1>4 DEF Pending
  <2> QED BY <2>5, <2>6, <2>7, NamesDo
<1> QED BY <1>3, <1>4

LEMMA SameStep ==
  ASSUME TypeInv, OpInv, TaskInv, LinkInv, FileInv, GoneInv, FreeInv, OneInv, TellInv, PlaceInv',
         SameInv, Next
  PROVE  SameInv'
<1> SUFFICES ASSUME NEW c \in Objs, Sound(c)', byId'[IdOf(c)] = c,
                    IdOf(c) \notin news', ~(feed'.pc = "apply" /\ feed'.id = IdOf(c))
             PROVE  LET file == srv'[IdOf(c)] IN
                    /\ file.st = "gone" => obj'[c].trashed
                    /\ file.st \in {"here", "bin"} =>
                         /\ obj'[c].trashed <=> file.st = "bin"
                         /\ obj'[c].uploaded
                         /\ \/ obj'[c].name = file.name
                            \/ \E w \in Workers : op'[w].pc \in {"save", "tell"} /\ op'[w].kid = c
  BY DEF SameInv, Main, Over, Here, Pending
<1>1. CASE ~Main(c)
  BY <1>1, SameNew
<1>2. CASE Main(c)
  BY <1>2, SameTrash, SameUploaded
<1> QED BY <1>1, <1>2

-----------------------------------------------------------------------------
(* The inductive invariant, on top of that of NamespaceProofs.             *)

LInv == SoleInv /\ SrvInv /\ AskInv /\ TellInv /\ PlaceInv /\ NewInv /\ MoveInv /\
        ListedInv /\ StoredInv /\ KnowInv /\ HaveInv /\ SameInv

(* What the server has is what the folders list.                           *)
LEMMA InitListing ==
  ASSUME Init
  PROVE  SoleInv /\ SrvInv /\ NewInv /\ ListedInv /\ StoredInv /\ KnowInv /\ HaveInv /\ SameInv
<1>0. TypeInv /\ There \subseteq Ids /\ NoObj \notin Objs
  BY InitType, Constants, ObjFacts, NamespaceAssumption DEF There
<1> DEFINE parent(id) == Start[id].parent
<1>1. \A id \in DOMAIN Start : parent(id) \in There /\ id # Root
  BY NamespaceAssumption DEF There
<1>2. \A id \in There : id = Root \/ id \in DOMAIN Start
  BY DEF There
<1>3. ASSUME NEW id \in Ids
      PROVE  /\ id \notin There => srv[id].st = "none" /\ srv[id].parents = {}
             /\ id \in There => srv[id].st = "here" /\ srv[id].name = StartFile(id).name
             /\ id = Root => srv[id].parents = {}
             /\ id \in DOMAIN Start => srv[id].parents = {parent(id)}
  BY <1>1 DEF Init, StartFile, NoFile, There
<1>4. ASSUME NEW id \in There
      PROVE  /\ First(id) \in Objs /\ IdOf(First(id)) = id /\ byId[id] = First(id)
             /\ ~obj[First(id)].trashed /\ obj[First(id)].uploaded
             /\ obj[First(id)].name = StartFile(id).name
             /\ obj[First(id)].parents = {First(q) : q \in StartFile(id).parents}
             /\ obj[First(id)].children = {First(j) : j \in {i \in DOMAIN Start : parent(i) = id}}
  <2>1. First(id) \in Objs /\ IdOf(First(id)) = id /\ byId[id] = First(id)
    BY <1>0, ObjFacts DEF Init
  <2> DEFINE ps == {First(q) : q \in StartFile(id).parents}
             cs == {First(j) : j \in {i \in DOMAIN Start : parent(i) = id}}
             nm == StartFile(id).name
  <2>2. obj[First(id)] = [NoObject EXCEPT !.known = TRUE, !.uploaded = TRUE, !.count = 1,
                            !.name = nm, !.parents = ps, !.children = cs]
    BY <2>1 DEF Init
  <2> HIDE DEF ps, cs, nm
  <2>3. /\ ~obj[First(id)].trashed /\ obj[First(id)].uploaded /\ obj[First(id)].name = nm
        /\ obj[First(id)].parents = ps /\ obj[First(id)].children = cs
    BY <2>2 DEF NoObject
  <2> QED BY <2>1, <2>3 DEF ps, cs, nm
<1>5. ASSUME NEW o \in Objs, ~\E id \in There : o = First(id)
      PROVE  ~obj[o].known /\ held[o] = 0 /\ obj[o].children = {} /\ obj[o].parents = {}
  <2>1. obj[o] = NoObject /\ held[o] = 0
    BY <1>5 DEF Init
  <2> QED BY <2>1 DEF NoObject
<1> HIDE DEF parent
<1>6. ASSUME NEW o \in Objs, NEW q \in obj[o].parents
      PROVE  \E id \in There : q = First(id)
  <2>1. PICK id \in There : o = First(id)
    BY <1>5
  <2>2. PICK j \in StartFile(id).parents : q = First(j)
    BY <1>4, <2>1
  <2>3. id # Root /\ j = parent(id)
    BY <2>2 DEF StartFile, parent
  <2> QED BY <1>1, <1>2, <2>2, <2>3
<1>7. ASSUME NEW o \in Objs, NEW c \in obj[o].children
      PROVE  \E id \in DOMAIN Start : id \in There /\ c = First(id) /\ parent(id) = IdOf(o)
  <2>1. PICK id \in There : o = First(id)
    BY <1>5
  <2>2. PICK j \in DOMAIN Start : parent(j) = id /\ c = First(j)
    BY <1>4, <2>1
  <2> QED BY <1>4, <2>1, <2>2 DEF There
<1>8. ASSUME NEW c \in Objs, Main(c)
      PROVE  IdOf(c) \in There /\ c = First(IdOf(c))
  <2>1. c # NoObj /\ IdOf(c) \in Ids
    BY ObjFacts
  <2> QED BY <1>8, <2>1, InitObjects DEF Main
<1>9. /\ feed.kid = NoObj /\ feed.at = NoObj /\ feed.todo = {} /\ feed.pc = "idle"
      /\ \A w \in Workers : /\ op[w].dir = NoObj /\ op[w].to = NoObj /\ op[w].kid = NoObj
                             /\ op[w].pc = "idle"
  <2>1. \A w \in Workers : op[w] = Idle
    BY DEF Init
  <2>2. feed = NoChange
    BY DEF Init
  <2> QED BY <2>1, <2>2 DEF Idle, NoChange
<1>10. SoleInv
  <2> SUFFICES ASSUME NEW q \in Objs, ~Main(q)
               PROVE  Pristine(q)
    BY DEF SoleInv
  <2>1. ~\E id \in There : q = First(id)
    BY <1>4 DEF Main
  <2>2. \A o \in Objs : q \notin obj[o].children /\ q \notin obj[o].parents
    BY <1>6, <1>7, <2>1
  <2>3. q # NoObj
    BY <1>0
  <2> QED BY <1>5, <1>9, <2>1, <2>2, <2>3 DEF Pristine
<1>11. SrvInv
  <2>1. ASSUME NEW id \in Ids, NEW p \in srv[id].parents
        PROVE  srv[p].st # "none"
    <3>1. p \in There
      BY <1>1, <1>2, <1>3
    <3> QED BY <1>0, <1>3, <3>1
  <2>2. ASSUME NEW o \in Objs, NEW p \in obj[o].parents
        PROVE  srv[IdOf(p)].st # "none"
    BY <1>0, <1>3, <1>4, <1>6
  <2>3. ASSUME NEW o \in Dirs, obj[o].known
        PROVE  srv[IdOf(o)].st # "none"
    <3>1. PICK id \in There : o = First(id)
      BY <1>5, <2>3, ObjFacts
    <3> QED BY <1>0, <1>3, <1>4, <3>1
  <2> QED BY <1>9, <2>1, <2>2, <2>3 DEF SrvInv
<1>12. NewInv
  <2> SUFFICES ASSUME NEW c \in Objs, srv[IdOf(c)].st = "none"
               PROVE  /\ obj[c].parents = {} /\ \A p \in Objs : c \notin obj[p].children
                      /\ \A w \in Workers : op[w].pc # "addParent"
    BY DEF NewInv, In
  <2>1. ~\E id \in There : c = First(id)
    BY <1>0, <1>3, <1>4
  <2> QED BY <1>5, <1>7, <1>9, <2>1
<1>13. ListedInv
  <2> SUFFICES ASSUME NEW p \in Dirs, NEW c \in obj[p].children
               PROVE  IdOf(p) \in srv[IdOf(c)].parents
    BY DEF ListedInv, Stored
  <2>1. PICK id \in DOMAIN Start : id \in There /\ c = First(id) /\ parent(id) = IdOf(p)
    BY <1>7, ObjFacts
  <2> QED BY <1>0, <1>3, <1>4, <2>1
<1>14. StoredInv
  <2> SUFFICES ASSUME NEW p \in Objs, NEW c \in Objs, Main(p), Main(c), IdOf(p) \in srv[IdOf(c)].parents
               PROVE  c \in obj[p].children
    BY DEF StoredInv, Stored, In
  <2>1. IdOf(c) \in There /\ c = First(IdOf(c)) /\ IdOf(p) \in There /\ p = First(IdOf(p))
    BY <1>8
  <2>2. IdOf(c) \in DOMAIN Start /\ parent(IdOf(c)) = IdOf(p)
    BY <1>0, <1>2, <1>3, <2>1
  <2>3. obj[p].children = {First(j) : j \in {i \in DOMAIN Start : parent(i) = IdOf(p)}}
    BY <1>4, <2>1
  <2> QED BY <2>1, <2>2, <2>3
<1>15. KnowInv
  <2> SUFFICES ASSUME NEW c \in Objs, NEW p \in srv[IdOf(c)].parents
               PROVE  byId[p] # NoObj
    BY DEF KnowInv
  <2>1. p \in There
    BY <1>1, <1>2, <1>3, ObjFacts
  <2> QED BY <1>0, <1>4, <2>1
<1>16. HaveInv
  BY <1>0, <1>3, <1>4 DEF HaveInv
<1>17. SameInv
  <2> SUFFICES ASSUME NEW c \in Objs, Main(c)
               PROVE  /\ ~obj[c].trashed /\ srv[IdOf(c)].st = "here" /\ obj[c].uploaded
                      /\ obj[c].name = srv[IdOf(c)].name
    BY DEF SameInv, Over, Here
  <2>1. IdOf(c) \in There /\ c = First(IdOf(c))
    BY <1>8
  <2> QED BY <1>0, <1>3, <1>4, <2>1
<1> QED BY <1>10, <1>11, <1>12, <1>13, <1>14, <1>15, <1>16, <1>17

LEMMA ListingInit == Init => LInv
<1> SUFFICES ASSUME Init
             PROVE  LInv
  OBVIOUS
<1>1. feed.pc = "idle" /\ \A w \in Workers : op[w].pc = "idle" /\ op[w].req = "none"
  <2>1. \A w \in Workers : op[w] = Idle
    BY DEF Init
  <2>2. feed = NoChange
    BY DEF Init
  <2> QED BY <2>1, <2>2 DEF Idle, NoChange
<1>2. AskInv /\ TellInv
  BY <1>1 DEF AskInv, TellInv
<1>3. PlaceInv
  BY <1>1 DEF PlaceInv, Placing
<1>4. MoveInv
  BY <1>1 DEF MoveInv, Moving
<1> QED BY <1>2, <1>3, <1>4, InitListing DEF LInv

LEMMA ListingNext == IInv /\ LInv /\ [Next]_vars => LInv'
<1>1. IInv /\ LInv /\ Next => LInv'
  <2> SUFFICES ASSUME IInv, LInv, Next
               PROVE  LInv'
    OBVIOUS
  <2>1. SoleInv' /\ SrvInv' /\ AskInv' /\ TellInv'
    BY SoleStep, SrvStep, AskStep, TellStep DEF IInv, LInv
  <2>2. PlaceInv' /\ NewInv' /\ MoveInv'
    BY PlaceStep, NewStep, MoveStep DEF IInv, LInv
  <2>3. ListedInv' /\ StoredInv'
    BY <2>1, <2>2, ListedStep, StoredStep DEF IInv, LInv
  <2>4. KnowInv' /\ HaveInv' /\ SameInv'
    BY <2>1, <2>2, KnowStep, HaveStep, SameStep DEF IInv, LInv
  <2> QED BY <2>1, <2>2, <2>3, <2>4 DEF LInv
<1>2. LInv /\ UNCHANGED vars => LInv'
  <2> SUFFICES ASSUME LInv, UNCHANGED vars
               PROVE  LInv'
    OBVIOUS
  <2>0. UNCHANGED <<srv, news, obj, byId, held, ev, op, feed, odd, used, up>>
    BY DEF vars
  <2>1. SoleInv' /\ SrvInv'
    BY <2>0 DEF LInv, SoleInv, Sound, Main, Pristine, SrvInv
  <2>2. AskInv' /\ TellInv' /\ PlaceInv'
    BY <2>0 DEF LInv, AskInv, TellInv, PlaceInv, Sound, Here
  <2>3. NewInv' /\ MoveInv'
    BY <2>0 DEF LInv, NewInv, MoveInv, Sound, In, Moving, Here, Underway
  <2>4. ListedInv'
    BY <2>0 DEF LInv, ListedInv, Settled, Sound, Here, Detached, Stored, Moving
  <2>5. StoredInv'
    BY <2>0 DEF LInv, StoredInv, Settled, Sound, Here, Detached, Stored, Moving, Main, In, Late
  <2>6. KnowInv' /\ HaveInv' /\ SameInv'
    BY <2>0 DEF LInv, KnowInv, HaveInv, SameInv, Sound, Main, Here, Over, Pending
  <2> QED BY <2>1, <2>2, <2>3, <2>4, <2>5, <2>6 DEF LInv
<1> QED BY <1>1, <1>2

LEMMA ListingInvariance == Spec => []LInv
BY Invariance, ListingInit, ListingNext, PTL DEF Spec

(* When the feed has told everything and no request is under way, a folder *)
(* lists exactly what it has on the server, under the names it has there,  *)
(* for any number of files, threads, requests and changes, and whatever    *)
(* create, mkdir, unlink, rmdir and rename of this client, the changes of  *)
(* others and the feed's linking and unlinking did to the two in whatever  *)
(* order: nothing is left listed that is gone or elsewhere, and nothing    *)
(* that is there is missing; but for the files and folders that met one of *)
(* the odd cases.                                                          *)
THEOREM TreeListed == Spec => []Listing
<1>1. IInv /\ LInv => Listing
  <2> SUFFICES ASSUME IInv, LInv, Quiet, NEW id \in Ids \ odd, NEW p \in Folders \ odd,
                      srv[id].st # "none", srv[p].st = "here", byId[p] # NoObj
               PROVE  Listed(p, id) <=> srv[id].st = "here" /\ p \in srv[id].parents
    BY DEF Listing
  <2> DEFINE folder == byId[p]
  <2>0. /\ folder \in Objs /\ IdOf(folder) = p /\ folder \in Dirs /\ p \in Ids
        /\ \A c \in obj[folder].children : c \in Objs
        /\ srv[id].st \in {"here", "bin", "gone"}
    BY Constants DEF IInv, TypeInv, AnyObj, ObjType, Dirs, IsFolder, File
  <2>1. \A o \in Objs : ~Pending(o) /\ ~Detached(o)
    BY DEF Quiet, Pending, Detached
  <2>2. \A w \in Workers : op[w].pc = "idle"
    BY DEF Quiet
  <2>3. ASSUME NEW c \in obj[folder].children, IdOf(c) = id, ~obj[c].trashed
        PROVE  srv[id].st = "here" /\ p \in srv[id].parents
    <3>1. c \in Objs /\ Busy(c) /\ Sound(c)
      BY <2>0, <2>3 DEF Busy, In, Sound
    <3>2. Main(c)
      BY <2>3, <3>1 DEF IInv, OneInv, Ended, Main
    <3>3. srv[id].st = "here"
      BY <2>0, <2>1, <2>3, <3>1, <3>2 DEF LInv, SameInv, Over, Here
    <3>4. Settled(folder, c)
      BY <2>0, <2>1, <2>3, <3>1, <3>3 DEF Settled, Sound, Here
    <3>5. Stored(folder, c)
      BY <2>0, <2>2, <3>4 DEF LInv, ListedInv
    <3> QED BY <2>0, <2>3, <3>3, <3>5 DEF Stored
  <2>4. ASSUME srv[id].st = "here", p \in srv[id].parents
        PROVE  Listed(p, id)
    <3> DEFINE c == byId[id]
    <3>1. c # NoObj
      BY <2>2, <2>4 DEF LInv, HaveInv, Quiet
    <3>2. c \in Objs /\ IdOf(c) = id /\ Main(c) /\ Sound(c)
      BY <3>1 DEF IInv, TypeInv, AnyObj, Main, Sound
    <3>3. Settled(folder, c) /\ Main(folder) /\ Stored(folder, c)
      BY <2>0, <2>1, <2>4, <3>2 DEF Settled, Sound, Here, Main, Stored
    <3>4. ~Late(folder, c)
      BY <2>2 DEF Late, Quiet, Moving
    <3>5. c \in obj[folder].children
      BY <2>0, <3>2, <3>3, <3>4 DEF LInv, StoredInv, In
    <3>6. ~obj[c].trashed /\ obj[c].name = srv[id].name
      BY <2>1, <2>2, <2>4, <3>2 DEF LInv, SameInv, Over, Here
    <3> QED BY <3>2, <3>5, <3>6 DEF Listed
  <2> QED BY <2>3, <2>4 DEF Listed
<1> QED BY <1>1, Invariance, ListingInvariance, PTL

=============================================================================
