------------------------------ MODULE Namespace ------------------------------
(***************************************************************************)
(* The tree of _Objects: Filesystem's lookup, forget, create, mkdir,       *)
(* unlink, rmdir and rename, with Account's createNewChild,                *)
(* removeChildFromParent, trash and updateObjectProperties, against the    *)
(* part of background_update that links and unlinks, and against other     *)
(* clients of the same drive.                                              *)
(*                                                                         *)
(* A file is an id; an _Object is an id and a number, for the code can     *)
(* make two objects of one id.  The upload of a new file is two steps here *)
(* (Upload has all of them) and a page of the feed is one change           *)
(* (ChangeFeed has the pages).                                             *)
(***************************************************************************)
EXTENDS Integers, FiniteSets

CONSTANTS
  Root,        \* the root folder
  Folders,     \* ids of folders, the root's among them
  Files,       \* ids of files
  Names,
  Start,       \* what there is at the start: the parent and name of each id
  Workers,     \* FUSE threads
  Copies,      \* bound: objects of one id that are alive together
  MaxRequests, \* bound: requests of the kernel
  MaxChanges,  \* bound: changes by other clients
  Moves,       \* files may be moved from folder to folder
  Refusals     \* the server may refuse a request until the code gives up

Ids   == Folders \cup Files
Objs  == Ids \X (1 .. Copies)
NoObj == <<"none", 0>>

ASSUME NamespaceAssumption ==
  /\ Root \in Folders /\ Folders \cap Files = {}
  /\ DOMAIN Start \subseteq Ids \ {Root}
  /\ \A id \in DOMAIN Start : Start[id] \in [parent : Folders, name : Names]
  /\ \A id \in DOMAIN Start : Start[id].parent \in DOMAIN Start \cup {Root}
  /\ Names # {} /\ "free" \notin Workers /\ Copies \in Nat \ {0}
  /\ {MaxRequests, MaxChanges} \subseteq Nat
  /\ {Moves, Refusals} \subseteq BOOLEAN

VARIABLES
  srv,   \* the server: each file's state, parents and name
  news,  \* the files with a change the feed has not fetched
  obj,   \* the _Objects; known: in inodeToObject
  byId,  \* idToObject
  held,  \* the kernel: how often it has looked an object up
  ev,    \* m_event of each object: the thread that keeps it across steps
  op,    \* the FUSE threads
  feed,  \* background_update
  up,    \* the process runs
  odd,   \* files that met one of the cases the actions call odd
  used   \* requests of the kernel and changes by others so far

vars == <<srv, news, obj, byId, held, ev, op, feed, up, odd, used>>

IdOf(o)     == o[1]
IsFolder(o) == IdOf(o) \in Folders
First(id)   == <<id, 1>>
AnyName     == CHOOSE n \in Names : TRUE
There       == DOMAIN Start \cup {Root}

NoFile   == [st |-> "none", parents |-> {}, name |-> AnyName]
NoObject == [known |-> FALSE, trashed |-> FALSE, uploaded |-> FALSE, count |-> 0,
             parents |-> {}, children |-> {}, name |-> AnyName]
Idle     == [pc |-> "idle", req |-> "none", dir |-> NoObj, kid |-> NoObj,
             to |-> NoObj, name |-> AnyName]
NoChange == [pc |-> "idle", id |-> Root, file |-> NoFile, kid |-> NoObj,
             todo |-> {}, at |-> NoObj]

StartFile(id) ==
  [st |-> "here", parents |-> IF id = Root THEN {} ELSE {Start[id].parent},
   name |-> IF id = Root THEN AnyName ELSE Start[id].name]

Init ==
  /\ srv = [id \in Ids |-> IF id \in There THEN StartFile(id) ELSE NoFile]
  /\ news = {}
  /\ obj = [o \in Objs |-> IF o \in {First(id) : id \in There}
              THEN [NoObject EXCEPT !.known = TRUE, !.uploaded = TRUE, !.count = 1,
                      !.name = StartFile(IdOf(o)).name,
                      !.parents = {First(p) : p \in StartFile(IdOf(o)).parents},
                      !.children = {First(id) : id \in
                        {j \in DOMAIN Start : Start[j].parent = IdOf(o)}}]
              ELSE NoObject]
  /\ byId = [id \in Ids |-> IF id \in There THEN First(id) ELSE NoObj]
  /\ held = [o \in Objs |-> IF o \in {First(id) : id \in There} THEN 1 ELSE 0]
  /\ ev = [o \in Objs |-> "free"]
  /\ op = [w \in Workers |-> Idle]
  /\ feed = NoChange
  /\ up = TRUE
  /\ odd = {}
  /\ used = [requests |-> 0, changes |-> 0]

local == <<obj, byId>>
cloud == <<srv, news>>
ghost == <<odd, used>>

-----------------------------------------------------------------------------
(* Pieces of the steps.                                                    *)

Runs       == up /\ UNCHANGED up
Go(w, pc)  == op' = [op EXCEPT ![w].pc = pc]
Done(w)    == op' = [op EXCEPT ![w] = Idle]
Request    == /\ used.requests < MaxRequests
              /\ used' = [used EXCEPT !.requests = @ + 1]
Stores(id, file) == /\ srv' = [srv EXCEPT ![id] = file]
                    /\ news' = news \cup {id}

(* The children of dir of that name.                                       *)
Named(dir, name) == {c \in obj[dir].children : obj[c].name = name}

(* The kernel lets one request at a time into a folder, and locks the      *)
(* folders and the victim of a change.                                     *)
Exclusive(D) ==
  \A w \in Workers : op[w].pc # "idle" =>
    /\ D \cap {op[w].dir, op[w].to} = {}
    /\ op[w].req # "lookup" => op[w].kid \notin D

Enters(w, dir) ==
  /\ op[w].pc = "idle" /\ IsFolder(dir) /\ held[dir] > 0 /\ obj[dir].known

(* Variant: out of the maps whatever the kernel holds.                     *)
TrashedAlways(o) == [obj EXCEPT ![o].trashed = TRUE, ![o].known = FALSE]

(* _Object::trash: out of the maps unless the kernel has looked it up.     *)
Trashed(o) == [obj EXCEPT ![o].trashed = TRUE, ![o].known = @ /\ obj[o].count # 0]
Erased(o)  == IF obj[o].count = 0 THEN [byId EXCEPT ![IdOf(o)] = NoObj] ELSE byId

(* Odd: a worker is about to tell the kernel of o, and has not counted it. *)
Uncounted(o) == IF obj[o].count = 0 /\ \E w \in Workers :
                     op[w].kid = o /\ op[w].pc \in {"found", "addChild", "addParent", "assert"}
                THEN {IdOf(o)} ELSE {}

(* Nothing points at o.                                                    *)
Unused(o) ==
  /\ ~obj[o].known /\ byId[IdOf(o)] # o /\ held[o] = 0 /\ feed.kid # o
  /\ \A q \in Objs : o \notin obj[q].children \cup obj[q].parents
  /\ \A w \in Workers : o \notin {op[w].dir, op[w].kid, op[w].to}

-----------------------------------------------------------------------------
(* lookup and forget.                                                      *)

(* The flag is read ...                                                    *)
Lookup(w, dir, c) ==
  /\ Exclusive({dir})
  /\ c \in obj[dir].children /\ ~obj[c].trashed
  /\ op' = [op EXCEPT ![w] = [Idle EXCEPT !.pc = "found", !.req = "lookup",
                                           !.dir = dir, !.kid = c]]
  /\ UNCHANGED <<cloud, local, held, ev, feed, odd>>

(* Variant: counted when the child is found, and when it is told.          *)
LookupReplyTwice(w) ==
  /\ op[w].pc = "found"
  /\ obj' = [obj EXCEPT ![op[w].kid].count = @ + 2]
  /\ held' = [held EXCEPT ![op[w].kid] = @ + 1]
  /\ Done(w)
  /\ UNCHANGED <<cloud, byId, ev, feed, ghost>>

(* ... and then the lookup is counted.                                     *)
LookupReply(w) ==
  /\ op[w].pc = "found"
  /\ obj' = [obj EXCEPT ![op[w].kid].count = @ + 1]
  /\ held' = [held EXCEPT ![op[w].kid] = @ + 1]
  /\ Done(w)
  /\ UNCHANGED <<cloud, byId, ev, feed, ghost>>

(* The kernel forgets nothing that a request of its own is about.  A count *)
(* below zero stands for one that has wrapped around: create tells the     *)
(* kernel of a file and does not count it.  Odd: the object has its place  *)
(* under its parent, and not yet its parent.                               *)
Forget(o) ==
  /\ held[o] > 0 /\ o # First(Root) /\ Exclusive({o})
  /\ Request
  /\ held' = [held EXCEPT ![o] = 0]
  /\ LET left == obj[o].count - held[o]
         ends == left = 0 /\ obj[o].parents = {}
     IN IF obj[o].known
        THEN /\ obj' = [obj EXCEPT ![o].count = left, ![o].known = ~ends]
             /\ byId' = IF ends THEN [byId EXCEPT ![IdOf(o)] = NoObj] ELSE byId
             /\ odd' = IF ends /\ \E p \in Objs : o \in obj[p].children
                       THEN odd \cup {IdOf(o)} ELSE odd
        ELSE UNCHANGED <<local, odd>>
  /\ UNCHANGED <<cloud, ev, op, feed>>

-----------------------------------------------------------------------------
(* create and mkdir: createNewChild.                                       *)

Makes(w, dir, id, name, req) ==
  op' = [op EXCEPT ![w] = [Idle EXCEPT !.pc = "insert", !.req = req, !.dir = dir,
                                       !.kid = First(id), !.name = name]]

Fresh(id) == srv[id].st = "none" /\ \A o \in Objs : IdOf(o) = id => Unused(o)

Create(w, dir, id, name) ==
  /\ Exclusive({dir}) /\ Named(dir, name) = {}
  /\ id \in Files /\ Fresh(id)
  /\ Makes(w, dir, id, name, "create")
  /\ UNCHANGED <<cloud, local, held, ev, feed, odd>>

(* The folder is made on the server first.                                 *)
Mkdir(w, dir, id, name) ==
  /\ Exclusive({dir}) /\ Named(dir, name) = {}
  /\ id \in Folders /\ Fresh(id) /\ srv[IdOf(dir)].st = "here"
  /\ Makes(w, dir, id, name, "mkdir")
  /\ Stores(id, [st |-> "here", parents |-> {IdOf(dir)}, name |-> name])
  /\ UNCHANGED <<local, held, ev, feed, odd>>

(* createFolderOnGDrive gives up, whether the server made the folder or    *)
(* not; createNewChild returns a null pointer, and mkdir looks into it.    *)
MkdirRefused(dir, id, name) ==
  /\ up /\ up' = FALSE
  /\ Exclusive({dir}) /\ Named(dir, name) = {}
  /\ id \in Folders /\ Fresh(id) /\ (Refusals \/ srv[IdOf(dir)].st = "gone")
  /\ \/ UNCHANGED cloud
     \/ /\ srv[IdOf(dir)].st = "here"
        /\ Stores(id, [st |-> "here", parents |-> {IdOf(dir)}, name |-> name])
  /\ UNCHANGED <<local, held, ev, op, feed, odd>>

(* Variant: into the map of inodes only.                                   *)
InsertInode(w) ==
  LET o == op[w].kid IN
  /\ op[w].pc = "insert"
  /\ obj' = [obj EXCEPT ![o] = [NoObject EXCEPT !.known = TRUE, !.name = op[w].name,
                                  !.uploaded = (op[w].req = "mkdir")]]
  /\ Go(w, "addChild")
  /\ UNCHANGED <<cloud, byId, held, ev, feed, ghost>>

(* insertObjectToMemoryMap.                                                *)
Insert(w) ==
  LET o == op[w].kid IN
  /\ op[w].pc = "insert"
  /\ obj' = [obj EXCEPT ![o] = [NoObject EXCEPT !.known = TRUE, !.name = op[w].name,
                                  !.uploaded = (op[w].req = "mkdir")]]
  /\ byId' = [byId EXCEPT ![IdOf(o)] = o]
  /\ Go(w, "addChild")
  /\ UNCHANGED <<cloud, held, ev, feed, ghost>>

(* _Object::addChild.  Odd: nothing is added while the object is in the    *)
(* bin, and nothing is added later, when the file is back: its object will *)
(* have the folder for a parent and no place in it.                        *)
AddsChild(p, c) ==
  \/ obj[c].trashed /\ odd' = odd \cup {IdOf(c)} /\ UNCHANGED obj
  \/ /\ ~obj[c].trashed /\ ev[p] = "free"
     /\ obj' = [obj EXCEPT ![p].children = @ \cup {c}]
     /\ UNCHANGED odd

AddChild(w) ==
  /\ op[w].pc = "addChild"
  /\ AddsChild(op[w].dir, op[w].kid)
  /\ Go(w, "addParent")
  /\ UNCHANGED <<cloud, byId, held, ev, feed, used>>

AddParent(w) ==
  /\ op[w].pc = "addParent" /\ ev[op[w].kid] = "free"
  /\ obj' = [obj EXCEPT ![op[w].kid].parents = @ \cup {op[w].dir}]
  /\ Go(w, "assert")
  /\ UNCHANGED <<cloud, byId, held, ev, feed, ghost>>

(* The assertion, and the reply; mkdir counts it as a lookup.              *)
MakeReply(w) ==
  LET o == op[w].kid IN
  /\ op[w].pc = "assert"
  /\ obj' = [obj EXCEPT ![o].count = IF op[w].req = "mkdir" THEN @ + 1 ELSE @]
  /\ held' = [held EXCEPT ![o] = @ + 1]
  /\ Done(w)
  /\ UNCHANGED <<cloud, byId, ev, feed, ghost>>

(* The upload of a new file: under the parents the object names, then      *)
(* setIsUploaded on the object found by id.                                *)
Store(o) ==
  /\ ~IsFolder(o) /\ obj[o].known /\ ~obj[o].uploaded /\ ~obj[o].trashed
  /\ srv[IdOf(o)].st = "none"
  /\ \E p \in obj[o].parents : srv[IdOf(p)].st = "here"
  /\ Stores(IdOf(o), [st |-> "here", parents |-> {IdOf(p) : p \in obj[o].parents},
                      name |-> obj[o].name])
  /\ UNCHANGED <<local, held, ev, op, feed, ghost>>

Mark(o) ==
  /\ byId[IdOf(o)] = o /\ ~obj[o].uploaded /\ srv[IdOf(o)].st = "here"
  /\ obj' = [obj EXCEPT ![o].uploaded = TRUE]
  /\ UNCHANGED <<cloud, byId, held, ev, op, feed, ghost>>

-----------------------------------------------------------------------------
(* unlink and rmdir.                                                       *)

Finds(w, dir, c, req, pc) ==
  op' = [op EXCEPT ![w] = [Idle EXCEPT !.pc = pc, !.req = req, !.dir = dir, !.kid = c]]

(* Variant: the folder's m_event is kept until the child is gone.          *)
UnlinkKeeps(w, dir, c) ==
  /\ Exclusive({dir, c}) /\ ev[dir] = "free"
  /\ c \in obj[dir].children /\ ~IsFolder(c) /\ held[c] > 0
  /\ obj' = [obj EXCEPT ![dir].children = @ \ {c}]
  /\ ev' = [ev EXCEPT ![dir] = w]
  /\ Finds(w, dir, c, "unlink", IF obj[c].uploaded THEN "wait" ELSE "drop")
  /\ odd' = IF obj[c].uploaded THEN odd ELSE odd \cup {IdOf(c)}
  /\ UNCHANGED <<cloud, byId, held, feed>>

(* The kernel has looked the name up; the child is taken off its folder.   *)
(* Odd: a file not uploaded yet, for its upload may be running.            *)
Unlink(w, dir, c) ==
  /\ Exclusive({dir, c}) /\ ev[dir] = "free"
  /\ c \in obj[dir].children /\ ~IsFolder(c) /\ held[c] > 0
  /\ obj' = [obj EXCEPT ![dir].children = @ \ {c}]
  /\ Finds(w, dir, c, "unlink", IF obj[c].uploaded THEN "wait" ELSE "drop")
  /\ odd' = IF obj[c].uploaded THEN odd ELSE odd \cup {IdOf(c)}
  /\ UNCHANGED <<cloud, byId, held, ev, feed>>

(* Not uploaded yet: trash() deletes its data too.                         *)
Drop(w) ==
  LET o == op[w].kid IN
  /\ op[w].pc = "drop"
  /\ obj' = Trashed(o) /\ byId' = Erased(o)
  /\ Go(w, "off")
  /\ odd' = odd \cup Uncounted(o)
  /\ UNCHANGED <<cloud, held, ev, feed, used>>

(* removeParent waits for the child's m_event.  After Detach this very     *)
(* thread holds it.                                                        *)
RemoveParent(w) ==
  /\ op[w].pc \in {"orphan", "detach"} /\ ev[op[w].kid] = "free"
  /\ obj' = [obj EXCEPT ![op[w].kid].parents = @ \ {op[w].dir}]
  /\ IF op[w].pc = "detach" /\ op[w].req = "unlink" THEN Go(w, "mark") ELSE Done(w)
  /\ UNCHANGED <<cloud, byId, held, ev, feed, ghost>>

Rmdir(w, dir, c) ==
  /\ Exclusive({dir, c})
  /\ c \in obj[dir].children /\ IsFolder(c) /\ held[c] > 0
  /\ Finds(w, dir, c, "rmdir", "wait")
  /\ UNCHANGED <<cloud, local, held, ev, feed, odd>>

(* The child's m_event is taken, and kept over the requests.               *)
Wait(w) ==
  LET o == op[w].kid IN
  /\ op[w].pc = "wait" /\ ev[o] = "free"
  /\ IF op[w].req = "rmdir" /\ obj[o].children # {}
     THEN Done(w) /\ UNCHANGED ev
     ELSE Go(w, "remove") /\ ev' = [ev EXCEPT ![o] = w]
  /\ UNCHANGED <<cloud, local, held, feed, ghost>>

(* removeChildFromParent with one parent left: the file is deleted; a file *)
(* the server does not have counts as deleted.                             *)
Delete(w) ==
  LET id == IdOf(op[w].kid) IN
  /\ op[w].pc = "remove" /\ Cardinality(obj[op[w].kid].parents) = 1
  /\ IF srv[id].st \in {"here", "bin"}
     THEN Stores(id, [srv[id] EXCEPT !.st = "gone"])
     ELSE UNCHANGED cloud
  /\ Go(w, "unchild")
  /\ UNCHANGED <<local, held, ev, feed, ghost>>

(* Odd: unlink takes no notice of it; rmdir replies EIO.                   *)
DeleteRefused(w) ==
  LET o == op[w].kid IN
  /\ Refusals /\ op[w].pc = "remove" /\ Cardinality(obj[o].parents) = 1
  /\ IF op[w].req = "unlink" THEN Go(w, "mark") /\ UNCHANGED ev
                             ELSE Done(w) /\ ev' = [ev EXCEPT ![o] = "free"]
  /\ odd' = odd \cup {IdOf(o)}
  /\ UNCHANGED <<cloud, local, held, feed, used>>

(* removeChild waits for the folder's m_event.                             *)
RemoveChild(w) ==
  LET o == op[w].kid IN
  /\ op[w].pc \in {"off", "unchild"} /\ ev[op[w].dir] = "free"
  /\ obj' = [obj EXCEPT ![op[w].dir].children = @ \ {o}]
  /\ IF op[w].req = "rmdir" THEN Done(w) /\ ev' = [ev EXCEPT ![o] = "free"]
     ELSE Go(w, IF op[w].pc = "off" THEN "orphan" ELSE "mark") /\ UNCHANGED ev
  /\ UNCHANGED <<cloud, byId, held, feed, ghost>>

Finish(w) ==
  LET o == op[w].kid IN
  /\ op[w].pc = "mark"
  /\ obj' = Trashed(o) /\ byId' = Erased(o)
  /\ ev' = [ev EXCEPT ![o] = "free"]
  /\ Done(w)
  /\ odd' = odd \cup Uncounted(o)
  /\ UNCHANGED <<cloud, held, feed, used>>

(* Otherwise one parent is taken off it: on the server, if that makes      *)
(* anything of the bracketed id, and then in the object.                   *)
Detach(w) ==
  LET id == IdOf(op[w].kid) IN
  /\ op[w].pc = "remove" /\ Cardinality(obj[op[w].kid].parents) # 1
  /\ \/ srv[id].st = "here" /\ Stores(id, [srv[id] EXCEPT !.parents = @ \ {IdOf(op[w].dir)}])
     \/ UNCHANGED cloud
  /\ Go(w, "detach")
  /\ UNCHANGED <<local, held, ev, feed, ghost>>

-----------------------------------------------------------------------------
(* rename.                                                                 *)

(* In another folder the file of the OLD name is trashed.  Odd: that file; *)
(* a file not uploaded yet, for it keeps the parents it will be uploaded   *)
(* under; a file of which the feed is yet to tell something, for it may be *)
(* an earlier move.  (A file that has both folders as parents is left out.)*)
Underway(id) == id \in news \/ (feed.id = id /\ feed.pc # "idle")

Rename(w, dir, c, to, name) ==
  /\ Exclusive({dir, to, c})
  /\ IsFolder(to) /\ held[to] > 0 /\ obj[to].known /\ to # c /\ c \notin obj[to].parents
  /\ c \in obj[dir].children /\ held[c] > 0 /\ (to # dir \/ name # obj[c].name)
  /\ op' = [op EXCEPT ![w] = [pc |-> IF to = dir THEN "name" ELSE "take", req |-> "rename",
                              dir |-> dir, kid |-> c, to |-> to, name |-> name]]
  /\ IF to = dir THEN UNCHANGED <<local, odd>>
     ELSE /\ Moves
          /\ LET old == Named(to, obj[c].name)
                 new == IF obj[c].uploaded /\ ~Underway(IdOf(c)) THEN {} ELSE {IdOf(c)}
             IN IF old = {} THEN odd' = odd \cup new /\ UNCHANGED local
                ELSE \E o \in old : /\ obj' = Trashed(o) /\ byId' = Erased(o)
                                    /\ odd' = odd \cup new \cup {IdOf(o)}
  /\ UNCHANGED <<cloud, held, ev, feed>>

Take(w) ==
  /\ op[w].pc = "take" /\ ev[op[w].dir] = "free"
  /\ obj' = [obj EXCEPT ![op[w].dir].children = @ \ {op[w].kid}]
  /\ Go(w, "give")
  /\ UNCHANGED <<cloud, byId, held, ev, feed, ghost>>

(* The object's parents stay as they were.                                 *)
Give(w) ==
  /\ op[w].pc = "give"
  /\ AddsChild(op[w].to, op[w].kid)
  /\ Go(w, "name")
  /\ UNCHANGED <<cloud, byId, held, ev, feed, used>>

SetName(w) ==
  /\ op[w].pc = "name"
  /\ obj' = [obj EXCEPT ![op[w].kid].name = op[w].name]
  /\ Go(w, "save")
  /\ UNCHANGED <<cloud, byId, held, ev, feed, ghost>>

(* upsertFileToDatabase waits for the child's m_event; then to_rename_bson *)
(* reads the name the object has by now.                                   *)
Save(w) ==
  LET o == op[w].kid IN
  /\ op[w].pc = "save" /\ ev[o] = "free"
  /\ IF obj[o].uploaded
     THEN op' = [op EXCEPT ![w].pc = "tell", ![w].name = obj[o].name]
     ELSE Done(w)
  /\ UNCHANGED <<cloud, local, held, ev, feed, ghost>>

(* updateObjectProperties                                                  *)
Tell(w) ==
  LET id == IdOf(op[w].kid) IN
  /\ op[w].pc = "tell" /\ srv[id].st \in {"here", "bin"}
  /\ Stores(id, [srv[id] EXCEPT !.name = op[w].name, !.parents =
       IF op[w].to = op[w].dir THEN @ ELSE (@ \ {IdOf(op[w].dir)}) \cup {IdOf(op[w].to)}])
  /\ Done(w)
  /\ UNCHANGED <<local, held, ev, feed, ghost>>

(* Odd: EIO, but the object has moved.                                     *)
TellRefused(w) ==
  LET id == IdOf(op[w].kid) IN
  /\ op[w].pc = "tell" /\ (Refusals \/ srv[id].st \notin {"here", "bin"})
  /\ odd' = odd \cup {id}
  /\ Done(w)
  /\ UNCHANGED <<cloud, local, held, ev, feed, used>>

-----------------------------------------------------------------------------
(* Other clients, and the server on its own.                               *)

Change(id, file) ==
  /\ used' = [used EXCEPT !.changes = @ + 1]
  /\ Stores(id, file)
  /\ UNCHANGED <<local, held, ev, op, feed>>

Appear(id, p, name) ==
  /\ Fresh(id) /\ p \in Folders \ {id} /\ srv[p].st = "here"
  /\ Change(id, [st |-> "here", parents |-> {p}, name |-> name])
  /\ UNCHANGED odd

(* Odd: the loop that removes old parents removes none.                    *)
Move(id, p) ==
  /\ Moves /\ id \in Files /\ srv[id].st = "here" /\ srv[p].st = "here" /\ p \in Folders
  /\ p \notin srv[id].parents
  /\ Change(id, [srv[id] EXCEPT !.parents = {p}])
  /\ odd' = odd \cup {id}

Retitle(id, name) ==
  /\ srv[id].st = "here" /\ id # Root /\ name # srv[id].name
  /\ Change(id, [srv[id] EXCEPT !.name = name])
  /\ UNCHANGED odd

Restore(id) ==
  /\ srv[id].st = "bin" /\ id # Root
  /\ Change(id, [srv[id] EXCEPT !.st = "here"])
  /\ UNCHANGED odd

Bin(id) ==
  /\ srv[id].st = "here" /\ id # Root
  /\ Change(id, [srv[id] EXCEPT !.st = "bin"])
  /\ UNCHANGED odd

Remove(id) ==
  /\ srv[id].st \in {"here", "bin"} /\ id # Root
  /\ Change(id, [srv[id] EXCEPT !.st = "gone"])
  /\ UNCHANGED odd

(* What is in a folder goes with it.                                       *)
Sweep(id) ==
  /\ srv[id].st \in {"here", "bin"} /\ id # Root
  /\ srv[id].parents # {} /\ \A p \in srv[id].parents : srv[p].st = "gone"
  /\ Stores(id, [srv[id] EXCEPT !.st = "gone"])
  /\ UNCHANGED <<local, held, ev, op, feed, ghost>>

-----------------------------------------------------------------------------
(* background_update, one change.                                          *)

Carried(w) == /\ op[w].pc \in {"take", "give", "name", "save", "tell"}
              /\ op[w].to # op[w].dir

(* Where the thread is after a turn of one of its loops.                   *)
Loop(pc, todo) == IF todo = {} /\ pc # "remove" THEN NoChange
                  ELSE [feed EXCEPT !.pc = pc, !.todo = todo, !.at = NoObj]

(* Odd: a folder that mkdir is about to insert, so that there will be two  *)
(* objects, or is about to give its parent; a file that rename is moving,  *)
(* for the change tells where it was.                                      *)
Fetch(id) ==
  /\ feed.pc = "idle" /\ id \in news
  /\ news' = news \ {id}
  /\ feed' = [NoChange EXCEPT !.pc = "apply", !.id = id, !.file = srv[id]]
  /\ odd' = IF \E w \in Workers :
                  /\ IdOf(op[w].kid) = id
                  /\ op[w].pc \in {"insert", "addChild", "addParent"} \/ Carried(w)
            THEN odd \cup {id} ELSE odd
  /\ UNCHANGED <<srv, local, held, ev, op, used>>

Known   == byId[feed.id]
Parents(o) == {IdOf(p) : p \in obj[o].parents}
Objects(ids) == {byId[p] : p \in ids} \ {NoObj}

ApplyNothing ==
  /\ feed.pc = "apply" /\ feed.file.st = "gone" /\ Known = NoObj
  /\ feed' = NoChange
  /\ UNCHANGED <<cloud, local, held, ev, op, ghost>>

(* _Object::trash(file): trash(), then off each of its parents.            *)
ApplyGone ==
  /\ feed.pc = "apply" /\ feed.file.st = "gone" /\ Known # NoObj
  /\ obj' = Trashed(Known) /\ byId' = Erased(Known)
  /\ odd' = odd \cup Uncounted(Known)
  /\ feed' = IF obj[Known].parents = {} THEN NoChange
             ELSE [feed EXCEPT !.pc = "leave", !.kid = Known, !.todo = obj[Known].parents]
  /\ UNCHANGED <<cloud, held, ev, op, used>>

Leave(p) ==
  /\ feed.pc = "leave" /\ p \in feed.todo /\ ev[p] = "free"
  /\ obj' = [obj EXCEPT ![p].children = @ \ {feed.kid}]
  /\ feed' = Loop("leave", feed.todo \ {p})
  /\ UNCHANGED <<cloud, byId, held, ev, op, ghost>>

(* Variant: the file's place in the bin is not looked at.                  *)
ApplyKnownBinned ==
  /\ feed.pc = "apply" /\ feed.file.st # "gone" /\ Known # NoObj
  /\ obj' = [obj EXCEPT ![Known].trashed = FALSE,
                        ![Known].uploaded = TRUE, ![Known].name = feed.file.name]
  /\ feed' = [feed EXCEPT !.pc = "remove", !.kid = Known,
                          !.todo = Objects(feed.file.parents \ Parents(Known))]
  /\ UNCHANGED <<cloud, byId, held, ev, op, ghost>>

(* Variant: what has been in the bin stays trashed.                        *)
ApplyKnownStays ==
  /\ feed.pc = "apply" /\ feed.file.st # "gone" /\ Known # NoObj
  /\ obj' = [obj EXCEPT ![Known].trashed = @ \/ feed.file.st = "bin",
                        ![Known].uploaded = TRUE, ![Known].name = feed.file.name]
  /\ feed' = [feed EXCEPT !.pc = "remove", !.kid = Known,
                          !.todo = Objects(feed.file.parents \ Parents(Known))]
  /\ UNCHANGED <<cloud, byId, held, ev, op, ghost>>

(* updateInode.                                                            *)
ApplyKnown ==
  /\ feed.pc = "apply" /\ feed.file.st # "gone" /\ Known # NoObj
  /\ obj' = [obj EXCEPT ![Known].trashed = (feed.file.st = "bin"),
                        ![Known].uploaded = TRUE, ![Known].name = feed.file.name]
  /\ feed' = [feed EXCEPT !.pc = "remove", !.kid = Known,
                          !.todo = Objects(feed.file.parents \ Parents(Known))]
  /\ UNCHANGED <<cloud, byId, held, ev, op, ghost>>

(* "remove old parents": of the parents the change names, those the object *)
(* did not have.                                                           *)
FeedRemoveChild(p) ==
  /\ feed.pc = "remove" /\ p \in feed.todo /\ ev[p] = "free"
  /\ obj' = [obj EXCEPT ![p].children = @ \ {feed.kid}]
  /\ feed' = [feed EXCEPT !.pc = "removeParent", !.at = p]
  /\ UNCHANGED <<cloud, byId, held, ev, op, ghost>>

FeedRemoveParent ==
  /\ feed.pc = "removeParent" /\ ev[feed.kid] = "free"
  /\ obj' = [obj EXCEPT ![feed.kid].parents = @ \ {feed.at}]
  /\ feed' = Loop("remove", feed.todo \ {feed.at})
  /\ UNCHANGED <<cloud, byId, held, ev, op, ghost>>

(* "add new parents".  Odd: a folder that is not known yet.                *)
Missing(ids) == IF \E p \in ids : byId[p] = NoObj THEN {feed.id} ELSE {}

FeedParents ==
  /\ feed.pc = "remove" /\ feed.todo = {}
  /\ LET new == feed.file.parents \ Parents(feed.kid) IN
     /\ feed' = Loop("add", Objects(new))
     /\ odd' = odd \cup Missing(new)
  /\ UNCHANGED <<cloud, local, held, ev, op, used>>

FeedAddChild(p) ==
  /\ feed.pc = "add" /\ p \in feed.todo
  /\ AddsChild(p, feed.kid)
  /\ feed' = [feed EXCEPT !.pc = "addParent", !.at = p]
  /\ UNCHANGED <<cloud, byId, held, ev, op, used>>

FeedAddParent ==
  /\ feed.pc = "addParent" /\ ev[feed.kid] = "free"
  /\ obj' = [obj EXCEPT ![feed.kid].parents = @ \cup {feed.at}]
  /\ feed' = Loop("add", feed.todo \ {feed.at})
  /\ UNCHANGED <<cloud, byId, held, ev, op, ghost>>

(* A new object.                                                           *)
ApplyNew ==
  /\ feed.pc = "apply" /\ feed.file.st # "gone" /\ Known = NoObj
  /\ \E k \in 1 .. Copies :
       LET o == <<feed.id, k>> IN
       /\ Unused(o) /\ \A j \in 1 .. (k - 1) : ~Unused(<<feed.id, j>>)
       /\ obj' = [obj EXCEPT ![o] = [NoObject EXCEPT !.known = TRUE, !.uploaded = TRUE,
                    !.trashed = (feed.file.st = "bin"), !.name = feed.file.name]]
       /\ byId' = [byId EXCEPT ![feed.id] = o]
       /\ feed' = IF Objects(feed.file.parents) = {} THEN NoChange
                  ELSE [feed EXCEPT !.pc = "add", !.kid = o,
                                    !.todo = Objects(feed.file.parents)]
  /\ odd' = odd \cup Missing(feed.file.parents)
  /\ UNCHANGED <<cloud, held, ev, op, used>>

-----------------------------------------------------------------------------

Starts(w) ==
  \E dir \in Objs :
    /\ Runs /\ Enters(w, dir) /\ Request
    /\ \/ \E c \in obj[dir].children :
            \/ Lookup(w, dir, c) \/ Unlink(w, dir, c) \/ Rmdir(w, dir, c)
            \/ \E to \in Objs, name \in Names : Rename(w, dir, c, to, name)
       \/ \E id \in Ids, name \in Names :
            Create(w, dir, id, name) \/ Mkdir(w, dir, id, name)

Crashes ==
  \E w \in Workers, dir \in Objs :
    /\ Enters(w, dir) /\ Request
    /\ \E id \in Ids, name \in Names : MkdirRefused(dir, id, name)

Step(w) ==
  /\ Runs
  /\ \/ LookupReply(w)
     \/ Insert(w) \/ AddChild(w) \/ AddParent(w) \/ MakeReply(w)
     \/ Drop(w) \/ RemoveParent(w)
     \/ Wait(w) \/ Delete(w) \/ DeleteRefused(w) \/ RemoveChild(w) \/ Finish(w)
     \/ Detach(w)
     \/ Take(w) \/ Give(w) \/ SetName(w) \/ Save(w) \/ Tell(w) \/ TellRefused(w)

Others ==
  /\ UNCHANGED up
  /\ \/ /\ used.changes < MaxChanges
        /\ \/ \E id \in Ids, p \in Folders : Move(id, p) \/ \E name \in Names : Appear(id, p, name)
           \/ \E id \in Ids : Bin(id) \/ Restore(id) \/ Remove(id)
           \/ \E id \in Ids, name \in Names : Retitle(id, name)
     \/ \E id \in Ids : Sweep(id)

Feed ==
  /\ Runs
  /\ \/ \E id \in Ids : Fetch(id)
     \/ ApplyNothing \/ ApplyGone \/ ApplyKnown \/ ApplyNew
     \/ \E p \in feed.todo : Leave(p) \/ FeedRemoveChild(p) \/ FeedAddChild(p)
     \/ FeedRemoveParent \/ FeedParents \/ FeedAddParent

Next ==
  \/ \E w \in Workers : Starts(w) \/ Step(w)
  \/ \E o \in Objs : Runs /\ (Forget(o) \/ Store(o) \/ Mark(o))
  \/ Crashes
  \/ Others
  \/ Feed

Spec == Init /\ [][Next]_vars

(* The FUSE threads and the update thread run; the server answers.         *)
Fairness == (\A w \in Workers : WF_vars(Step(w))) /\ WF_vars(Feed)

FairSpec == Spec /\ Fairness

-----------------------------------------------------------------------------
(* Properties.                                                             *)

File   == [st : {"none", "here", "bin", "gone"}, parents : SUBSET Folders, name : Names]
Lookups == MaxRequests + 1
AnyObj == Objs \cup {NoObj}

(* Every variable has its type.                                            *)
TypeOK ==
  /\ srv \in [Ids -> File] /\ news \subseteq Ids /\ odd \subseteq Ids
  /\ obj \in [Objs -> [known : BOOLEAN, trashed : BOOLEAN, uploaded : BOOLEAN,
                       count : -Lookups .. Lookups, parents : SUBSET Objs,
                       children : SUBSET Objs, name : Names]]
  /\ byId \in [Ids -> AnyObj]
  /\ held \in [Objs -> 0 .. Lookups]
  /\ ev \in [Objs -> Workers \cup {"free"}]
  /\ \A w \in Workers : {op[w].dir, op[w].kid, op[w].to} \subseteq AnyObj
  /\ feed.file \in File /\ {feed.kid, feed.at} \subseteq AnyObj
  /\ feed.todo \subseteq Objs /\ up \in BOOLEAN

Quiet == news = {} /\ feed.pc = "idle" /\ \A w \in Workers : op[w].pc = "idle"

Listed(p, id) == \E c \in obj[byId[p]].children :
                   IdOf(c) = id /\ ~obj[c].trashed /\ obj[c].name = srv[id].name

(* When everything has been told and done, a folder lists exactly what it  *)
(* has on the server, under the names it has there, whatever this client,  *)
(* the others and the feed did in whatever order - but for the files and   *)
(* folders that met one of the odd cases.                                  *)
Listing ==
  Quiet => \A id \in Ids \ odd, p \in Folders \ odd :
    srv[id].st # "none" /\ srv[p].st = "here" /\ byId[p] # NoObj =>
      (Listed(p, id) <=> srv[id].st = "here" /\ p \in srv[id].parents)

(* A folder the kernel has an inode of is found by that inode, although    *)
(* unlink, rmdir, rename, forget and the feed all take objects out of the  *)
(* maps: mkdir, unlink, rmdir and rename use what they find without a test.*)
KernelKnown ==
  \A o \in Objs : held[o] > 0 /\ IsFolder(o) /\ IdOf(o) \notin odd => obj[o].known

(* A file is not listed twice, as two objects of its id: mkdir and create  *)
(* insert an object, and so does the feed when it finds none.              *)
OneObject ==
  \A id \in Ids \ odd : Cardinality({o \in Objs : IdOf(o) = id /\ ~obj[o].trashed /\
     \E p \in Objs : o \in obj[p].children /\ obj[p].known}) <= 1

Stuck(w) == op[w].pc = "detach"

(* Unless an unlink is in removeParent (DetachEnds), or a refused mkdir    *)
(* has looked into a null pointer and ended the process.                   *)
Fails == ~up \/ \E v \in Workers : Stuck(v)


(* And background_update, which waits for the same m_events, goes on.      *)
FeedGoesOn == feed.pc # "idle" ~> (feed.pc = "idle" \/ Fails)

(* Account.cpp says of removeChildFromParent "otherwise, remove one parent *)
(* of the child": a child with several parents loses one of them.          *)
DetachEnds == \A w \in Workers : Stuck(w) ~> op[w].pc = "idle"
=============================================================================
