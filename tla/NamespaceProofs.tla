-------------------------- MODULE NamespaceProofs --------------------------
(***************************************************************************)
(* The types and the counts of Namespace, that a folder the kernel holds   *)
(* stays in the maps, and that no file is listed twice, for any number of  *)
(* files, FUSE threads, requests and changes.                              *)
(***************************************************************************)
EXTENDS Namespace, FiniteSetTheorems, TLAPS

(* The types, but for the bounds of the counts.                            *)
Dirs    == {o \in Objs : IsFolder(o)}
ObjType == [known : BOOLEAN, trashed : BOOLEAN, uploaded : BOOLEAN, count : Int,
            parents : SUBSET Dirs, children : SUBSET Objs, name : Names]
Steps    == {"idle", "found", "insert", "addChild", "addParent", "assert", "drop", "off",
             "orphan", "wait", "remove", "unchild", "mark", "detach", "take", "give",
             "name", "save", "tell"}
Requests == {"none", "lookup", "create", "mkdir", "unlink", "rmdir", "rename"}
OpType   == [pc : Steps, req : Requests, dir : AnyObj, kid : AnyObj, to : AnyObj,
             name : Names]
Feeding  == {"remove", "removeParent", "add", "addParent"}
FeedType == [pc : Feeding \cup {"idle", "apply", "leave"}, id : Ids, file : File, kid : AnyObj, todo : SUBSET Dirs,
             at : Dirs \cup {NoObj}]

TypeInv ==
  /\ srv \in [Ids -> File] /\ news \subseteq Ids /\ odd \subseteq Ids
  /\ obj \in [Objs -> ObjType] /\ byId \in [Ids -> AnyObj] /\ held \in [Objs -> Nat]
  /\ ev \in [Objs -> Workers \cup {"free"}]
  /\ op \in [Workers -> OpType] /\ feed \in FeedType
  /\ \A id \in Ids : byId[id] # NoObj => IdOf(byId[id]) = id
  /\ feed.pc \in Feeding \cup {"leave"} => feed.kid \in Objs
  /\ feed.pc \in {"removeParent", "addParent"} => feed.at \in Dirs
  /\ used \in [requests : 0 .. MaxRequests, changes : Nat]

-----------------------------------------------------------------------------
(* Objects and their ids.                                                  *)

LEMMA ObjFacts ==
  /\ NoObj \notin Objs
  /\ \A o \in Objs : IdOf(o) \in Ids
  /\ \A id \in Ids : First(id) \in Objs /\ IdOf(First(id)) = id
  /\ \A id \in Ids, k \in 1 .. Copies : <<id, k>> \in Objs /\ IdOf(<<id, k>>) = id
  /\ Dirs \subseteq Objs /\ \A o \in Dirs : IdOf(o) \in Folders
<1>1. NoObj \notin Objs
  BY NamespaceAssumption DEF NoObj, Objs
<1>2. \A o \in Objs : IdOf(o) \in Ids
  BY DEF Objs, IdOf
<1>3. 1 \in 1 .. Copies
  BY NamespaceAssumption
<1>4. \A id \in Ids, k \in 1 .. Copies : <<id, k>> \in Objs /\ IdOf(<<id, k>>) = id
  BY DEF Objs, IdOf
<1>5. Dirs \subseteq Objs /\ \A o \in Dirs : IdOf(o) \in Folders
  BY DEF Dirs, IsFolder
<1> QED BY <1>1, <1>2, <1>3, <1>4, <1>5 DEF First

LEMMA Constants ==
  /\ Root \in Ids /\ Root \in Folders /\ AnyName \in Names
  /\ Folders \subseteq Ids /\ Files \subseteq Ids
  /\ NoFile \in File /\ NoObject \in ObjType /\ Idle \in OpType /\ NoChange \in FeedType
  /\ \A id \in There : StartFile(id) \in File
<1>1. AnyName \in Names
  BY NamespaceAssumption DEF AnyName
<1>2. Root \in Ids /\ Folders \subseteq Ids /\ Files \subseteq Ids /\ Root \in Folders
  BY NamespaceAssumption DEF Ids
<1>3. NoFile \in File
  BY <1>1 DEF NoFile, File
<1>4. NoObject \in ObjType /\ Idle \in OpType /\ NoChange \in FeedType
  <2>1. NoObj \in AnyObj /\ {} \in SUBSET Objs
    BY DEF AnyObj
  <2>2. NoObject \in ObjType
    BY <1>1, <2>1 DEF NoObject, ObjType
  <2>3. Idle \in OpType
    BY <1>1, <2>1 DEF Idle, OpType, Steps, Requests
  <2>4. NoChange \in FeedType
    BY <1>2, <1>3, <2>1 DEF NoChange, FeedType, Feeding
  <2> QED BY <2>2, <2>3, <2>4
<1>5. \A id \in There : StartFile(id) \in File
  <2> TAKE id \in There
  <2>1. CASE id = Root
    BY <1>1, <2>1 DEF StartFile, File
  <2>2. CASE id # Root
    <3>1. Start[id] \in [parent : Folders, name : Names]
      BY <2>2, NamespaceAssumption DEF There
    <3> QED BY <2>2, <3>1 DEF StartFile, File
  <2> QED BY <2>1, <2>2
<1> QED BY <1>1, <1>2, <1>3, <1>4, <1>5

(* A thread goes on, starts with a request, or is done.                    *)
LEMMA GoFacts ==
  ASSUME TypeInv, NEW w \in Workers, NEW pc \in Steps, Go(w, pc)
  PROVE  /\ op' \in [Workers -> OpType]
         /\ op'[w].pc = pc /\ op'[w].req = op[w].req /\ op'[w].dir = op[w].dir
         /\ op'[w].kid = op[w].kid /\ op'[w].to = op[w].to
         /\ \A v \in Workers \ {w} : op'[v] = op[v]
BY DEF Go, TypeInv, OpType

LEMMA SetFacts ==
  ASSUME TypeInv, NEW w \in Workers, NEW r \in OpType, op' = [op EXCEPT ![w] = r]
  PROVE  /\ op' \in [Workers -> OpType] /\ op'[w] = r
         /\ \A v \in Workers \ {w} : op'[v] = op[v]
BY DEF TypeInv

LEMMA DoneFacts ==
  ASSUME TypeInv, NEW w \in Workers, Done(w)
  PROVE  /\ op' \in [Workers -> OpType] /\ op'[w] = Idle
         /\ \A v \in Workers \ {w} : op'[v] = op[v]
BY Constants DEF TypeInv, Done

(* _Object::trash.                                                         *)
LEMMA TrashFacts ==
  ASSUME TypeInv, NEW x \in Objs, obj' = Trashed(x), byId' = Erased(x)
  PROVE  /\ obj' \in [Objs -> ObjType] /\ byId' \in [Ids -> AnyObj]
         /\ \A id \in Ids : byId'[id] # NoObj => IdOf(byId'[id]) = id
         /\ \A o \in Objs : /\ obj'[o].count = obj[o].count
                            /\ obj'[o].parents = obj[o].parents
                            /\ obj'[o].children = obj[o].children
                            /\ o # x => obj'[o] = obj[o]
         /\ obj'[x].trashed /\ (obj'[x].known <=> obj[x].known /\ obj[x].count # 0)
         /\ \A id \in Ids : \/ byId'[id] = byId[id] /\ (id # IdOf(x) \/ obj[x].count # 0)
                            \/ byId'[id] = NoObj /\ id = IdOf(x)
<1>1. obj' \in [Objs -> ObjType]
  <2> DEFINE k == obj[x].known /\ obj[x].count # 0
             r == [obj[x] EXCEPT !.trashed = TRUE, !.known = k]
  <2>1. k \in BOOLEAN
    OBVIOUS
  <2>2. obj' = [obj EXCEPT ![x] = r]
    BY DEF Trashed, TypeInv, ObjType
  <2> HIDE DEF k
  <2>3. r \in ObjType
    <3>1. obj[x] \in ObjType
      BY DEF TypeInv
    <3> QED BY <2>1, <3>1 DEF ObjType
  <2> QED BY <2>2, <2>3 DEF TypeInv
<1>2. byId' \in [Ids -> AnyObj]
  BY ObjFacts DEF Erased, TypeInv, AnyObj
<1>3. \A id \in Ids : \/ byId'[id] = byId[id] /\ (id # IdOf(x) \/ obj[x].count # 0)
                      \/ byId'[id] = NoObj /\ id = IdOf(x)
  BY DEF Erased, TypeInv
<1> QED BY <1>1, <1>2, <1>3 DEF Trashed, TypeInv, ObjType

(* One field of an object.                                                 *)
LEMMA CountFacts ==
  ASSUME TypeInv, NEW x \in Objs, NEW n \in Int, obj' = [obj EXCEPT ![x].count = n]
  PROVE  /\ obj' \in [Objs -> ObjType] /\ obj'[x].count = n
         /\ \A o \in Objs : /\ obj'[o].known = obj[o].known
                            /\ obj'[o].trashed = obj[o].trashed
                            /\ obj'[o].parents = obj[o].parents
                            /\ obj'[o].children = obj[o].children
                            /\ o # x => obj'[o].count = obj[o].count
BY SMTT(30) DEF TypeInv, ObjType

LEMMA ChildrenFacts ==
  ASSUME TypeInv, NEW x \in Objs, NEW S \in SUBSET Objs,
         obj' = [obj EXCEPT ![x].children = S]
  PROVE  /\ obj' \in [Objs -> ObjType] /\ obj'[x].children = S
         /\ \A o \in Objs : /\ obj'[o].known = obj[o].known
                            /\ obj'[o].trashed = obj[o].trashed
                            /\ obj'[o].parents = obj[o].parents
                            /\ obj'[o].count = obj[o].count
                            /\ o # x => obj'[o].children = obj[o].children
BY DEF TypeInv, ObjType

LEMMA ParentsFacts ==
  ASSUME TypeInv, NEW x \in Objs, NEW S \in SUBSET Dirs,
         obj' = [obj EXCEPT ![x].parents = S]
  PROVE  /\ obj' \in [Objs -> ObjType] /\ obj'[x].parents = S
         /\ \A o \in Objs : /\ obj'[o].known = obj[o].known
                            /\ obj'[o].trashed = obj[o].trashed
                            /\ obj'[o].children = obj[o].children
                            /\ obj'[o].count = obj[o].count
                            /\ o # x => obj'[o].parents = obj[o].parents
BY DEF TypeInv, ObjType

LEMMA AddsFacts ==
  ASSUME TypeInv, NEW p \in Dirs, NEW c \in Objs, AddsChild(p, c)
  PROVE  /\ obj' \in [Objs -> ObjType]
         /\ \A o \in Objs : /\ obj'[o].known = obj[o].known
                            /\ obj'[o].trashed = obj[o].trashed
                            /\ obj'[o].parents = obj[o].parents
                            /\ obj'[o].count = obj[o].count
                            /\ o # p => obj'[o].children = obj[o].children
         /\ \/ obj[c].trashed /\ obj'[p].children = obj[p].children
            \/ ~obj[c].trashed /\ obj'[p].children = obj[p].children \cup {c}
         /\ odd \subseteq odd' /\ odd' \subseteq Ids
         /\ obj[c].trashed => IdOf(c) \in odd'
<1>0. p \in Objs
  BY ObjFacts
<1>1. CASE obj[c].trashed /\ odd' = odd \cup {IdOf(c)} /\ UNCHANGED obj
  BY <1>1, ObjFacts DEF TypeInv
<1>2. CASE ~obj[c].trashed /\ obj' = [obj EXCEPT ![p].children = @ \cup {c}] /\ odd' = odd
  <2>1. obj[p].children \cup {c} \in SUBSET Objs
    BY <1>0 DEF TypeInv, ObjType
  <2>2. odd' \subseteq Ids
    BY <1>2 DEF TypeInv
  <2> QED BY <1>0, <1>2, <2>1, <2>2, ChildrenFacts, ZenonT(40)
<1> QED BY <1>1, <1>2 DEF AddsChild

LEMMA NameFacts ==
  ASSUME TypeInv, NEW x \in Objs, NEW n \in Names, obj' = [obj EXCEPT ![x].name = n]
  PROVE  /\ obj' \in [Objs -> ObjType]
         /\ \A o \in Objs : /\ obj'[o].known = obj[o].known
                            /\ obj'[o].trashed = obj[o].trashed
                            /\ obj'[o].parents = obj[o].parents
                            /\ obj'[o].children = obj[o].children
                            /\ obj'[o].count = obj[o].count
BY DEF TypeInv, ObjType

(* The server.                                                             *)
LEMMA StoresFacts ==
  ASSUME TypeInv, NEW id \in Ids, NEW file \in File, Stores(id, file)
  PROVE  /\ srv' \in [Ids -> File] /\ news' \subseteq Ids
         /\ srv'[id] = file /\ \A j \in Ids \ {id} : srv'[j] = srv[j]
         /\ news' = news \cup {id}
BY DEF Stores, TypeInv

-----------------------------------------------------------------------------
(* Where the threads are, and what they hold.                              *)

Making  == {"insert", "addChild", "addParent", "assert"}
Telling == {"found"} \cup Making
Plain   == {"idle", "drop", "off", "orphan", "wait", "remove", "mark", "detach", "name",
            "save", "tell"}

(* Which request a thread is at; unlink and rmdir keep the child's m_event.*)
OpOK(w, r) ==
  /\ r.pc # "idle" => r.dir \in Dirs /\ r.kid \in Objs
  /\ r.pc \in {"take", "give", "name", "save", "tell"} => r.to \in Dirs
  /\ r.pc \in Making => r.req \in {"create", "mkdir"}
  /\ r.req \in {"create", "unlink"} => ~IsFolder(r.kid)
  /\ r.req = "mkdir" => IsFolder(r.kid)
  /\ r.req = "lookup" => r.pc = "found"
  /\ r.pc \in {"drop", "off", "orphan", "mark"} => r.req = "unlink"
  /\ r.pc \in {"wait", "remove", "unchild", "detach"} => r.req \in {"unlink", "rmdir"}

Keeping == {"remove", "unchild", "detach", "mark"}

OpInv == \A w \in Workers :
  /\ OpOK(w, op[w])
  /\ op[w].pc \in Keeping => ev[op[w].kid] = w

-----------------------------------------------------------------------------
(* Every step keeps the types.                                             *)

LEMMA GonePut ==
  ASSUME NEW file \in File, file.st # "none", NEW st \in {"here", "bin", "gone"}
  PROVE  [file EXCEPT !.st = st] \in File
BY DEF File

(* rename takes the name that its file has by now.                         *)
LEMMA SaveFacts ==
  ASSUME TypeInv, OpInv, NEW w \in Workers, Save(w)
  PROVE  /\ op' \in [Workers -> OpType] /\ op[w].kid \in Objs
         /\ \A v \in Workers \ {w} : op'[v] = op[v]
         /\ \/ op'[w] = Idle
            \/ /\ op'[w].pc = "tell" /\ op'[w].req = op[w].req /\ op'[w].dir = op[w].dir
               /\ op'[w].kid = op[w].kid /\ op'[w].to = op[w].to
               /\ op'[w].name = obj[op[w].kid].name
<1>1. op[w].kid \in Objs /\ op[w] \in OpType
  BY DEF OpInv, OpOK, Save, TypeInv
<1>2. obj[op[w].kid].name \in Names /\ "tell" \in Steps
  BY <1>1 DEF TypeInv, ObjType, Steps
<1> DEFINE n == obj[op[w].kid].name
           r == [op[w] EXCEPT !.pc = "tell", !.name = n]
<1> HIDE DEF n
<1>3. r \in OpType /\ r.pc = "tell" /\ r.req = op[w].req /\ r.dir = op[w].dir
      /\ r.kid = op[w].kid /\ r.to = op[w].to /\ r.name = n
  BY <1>1, <1>2 DEF OpType, n
<1>4. CASE Done(w)
  BY <1>1, <1>4, DoneFacts
<1>5. CASE op' = [op EXCEPT ![w].pc = "tell", ![w].name = n]
  <2>1. op' = [op EXCEPT ![w] = r]
    BY <1>5 DEF TypeInv, OpType
  <2> HIDE DEF r
  <2> QED BY <1>1, <1>3, <2>1, SetFacts DEF n
<1> QED BY <1>4, <1>5 DEF Save, n

LEMMA StepType ==
  ASSUME TypeInv, OpInv, NEW w \in Workers, Step(w)
  PROVE  TypeInv'
<1> DEFINE o == op[w].kid
           d == op[w].dir
<1>0. op[w] \in OpType /\ OpOK(w, op[w])
  BY DEF TypeInv, OpInv
<1>1. CASE LookupReply(w)
  <2>1. o \in Objs
    BY <1>0, <1>1 DEF LookupReply, OpOK
  <2>2. obj[o].count + 1 \in Int /\ held[o] + 1 \in Nat
    BY <2>1 DEF TypeInv, ObjType
  <2>3. obj' \in [Objs -> ObjType] /\ held' \in [Objs -> Nat]
    BY <1>1, <2>1, <2>2, CountFacts DEF LookupReply, TypeInv
  <2> QED BY <1>1, <2>3, DoneFacts DEF LookupReply, TypeInv, cloud, ghost
<1>2. CASE Insert(w)
  <2>1. o \in Objs /\ "addChild" \in Steps
    BY <1>0, <1>2 DEF Insert, OpOK, Steps
  <2> DEFINE b == op[w].req = "mkdir"
             r == [NoObject EXCEPT !.known = TRUE, !.name = op[w].name, !.uploaded = b]
  <2>2. b \in BOOLEAN
    OBVIOUS
  <2> HIDE DEF b
  <2>3. r \in ObjType
    BY <1>0, <2>2, Constants DEF ObjType, OpType
  <2>4. obj' = [obj EXCEPT ![o] = r]
    BY <1>2 DEF Insert, b
  <2> HIDE DEF r
  <2>5. obj' \in [Objs -> ObjType] /\ byId' \in [Ids -> AnyObj]
    BY <1>2, <2>1, <2>3, <2>4, ObjFacts DEF Insert, TypeInv, AnyObj
  <2> QED BY <1>2, <2>1, <2>5, GoFacts DEF Insert, TypeInv, cloud, ghost
<1>3. CASE AddChild(w)
  <2>1. o \in Objs /\ d \in Dirs /\ d \in Objs /\ "addParent" \in Steps
    BY <1>0, <1>3, ObjFacts DEF AddChild, OpOK, Steps
  <2>2. obj' \in [Objs -> ObjType] /\ odd' \subseteq Ids
    BY <1>3, <2>1, AddsFacts DEF AddChild
  <2> QED BY <1>3, <2>1, <2>2, GoFacts DEF AddChild, TypeInv, cloud
<1>4. CASE AddParent(w)
  <2>1. o \in Objs /\ d \in Dirs /\ d \in Objs /\ "assert" \in Steps
    BY <1>0, <1>4, ObjFacts DEF AddParent, OpOK, Steps
  <2>2. obj[o].parents \cup {d} \in SUBSET Dirs
    BY <2>1 DEF TypeInv, ObjType
  <2>3. obj' \in [Objs -> ObjType]
    BY <1>4, <2>1, <2>2, ParentsFacts DEF AddParent
  <2> QED BY <1>4, <2>1, <2>3, GoFacts DEF AddParent, TypeInv, cloud, ghost
<1>5. CASE MakeReply(w)
  <2>1. o \in Objs
    BY <1>0, <1>5 DEF MakeReply, OpOK
  <2> DEFINE n == IF op[w].req = "mkdir" THEN obj[o].count + 1 ELSE obj[o].count
  <2>2. n \in Int /\ held[o] + 1 \in Nat
    BY <2>1 DEF TypeInv, ObjType
  <2>3. obj' = [obj EXCEPT ![o].count = n] /\ held' = [held EXCEPT ![o] = held[o] + 1]
    BY <1>5 DEF MakeReply
  <2> HIDE DEF n
  <2>4. obj' \in [Objs -> ObjType] /\ held' \in [Objs -> Nat]
    BY <2>1, <2>2, <2>3, CountFacts DEF TypeInv
  <2> QED BY <1>5, <2>4, DoneFacts DEF MakeReply, TypeInv, cloud, ghost
<1>6. CASE Drop(w)
  <2>1. o \in Objs /\ "off" \in Steps
    BY <1>0, <1>6 DEF Drop, OpOK, Steps
  <2>2. /\ obj' \in [Objs -> ObjType]
        /\ byId' \in [Ids -> AnyObj]
        /\ \A id \in Ids : byId'[id] # NoObj => IdOf(byId'[id]) = id
    BY <1>6, <2>1, TrashFacts DEF Drop
  <2>3. odd' \subseteq Ids
    BY <1>6, <2>1, ObjFacts DEF Drop, Uncounted, TypeInv
  <2> QED BY <1>6, <2>1, <2>2, <2>3, GoFacts DEF Drop, TypeInv, cloud
<1>7. CASE RemoveParent(w)
  <2>1. o \in Objs /\ "mark" \in Steps
    BY <1>0, <1>7 DEF RemoveParent, OpOK, Steps
  <2>2. obj[o].parents \ {d} \in SUBSET Dirs
    BY <2>1 DEF TypeInv, ObjType
  <2>3. obj' \in [Objs -> ObjType]
    BY <1>7, <2>1, <2>2, ParentsFacts DEF RemoveParent
  <2>4. op' \in [Workers -> OpType]
    BY <1>7, <2>1, GoFacts, DoneFacts DEF RemoveParent
  <2> QED BY <1>7, <2>3, <2>4 DEF RemoveParent, TypeInv, cloud, ghost
<1>8. CASE Wait(w)
  <2>1. o \in Objs /\ "remove" \in Steps
    BY <1>0, <1>8 DEF Wait, OpOK, Steps
  <2>2. op' \in [Workers -> OpType]
    BY <1>8, <2>1, GoFacts, DoneFacts DEF Wait
  <2>3. ev' \in [Objs -> Workers \cup {"free"}]
    BY <1>8, <2>1 DEF Wait, TypeInv
  <2> QED BY <1>8, <2>2, <2>3 DEF Wait, TypeInv, cloud, local, ghost
<1>9. CASE Delete(w)
  <2>1. o \in Objs /\ "unchild" \in Steps
    BY <1>0, <1>9 DEF Delete, OpOK, Steps
  <2>2. IdOf(o) \in Ids
    BY <2>1, ObjFacts
  <2>3. srv' \in [Ids -> File] /\ news' \subseteq Ids
    <3>1. CASE srv[IdOf(o)].st \in {"here", "bin"}
      <4>1. [srv[IdOf(o)] EXCEPT !.st = "gone"] \in File
        BY <2>2, <3>1, GonePut DEF TypeInv
      <4> QED BY <1>9, <2>2, <3>1, <4>1, StoresFacts DEF Delete
    <3>2. CASE srv[IdOf(o)].st \notin {"here", "bin"}
      BY <1>9, <3>2 DEF Delete, TypeInv, cloud
    <3> QED BY <3>1, <3>2
  <2> QED BY <1>9, <2>1, <2>3, GoFacts DEF Delete, TypeInv, local, ghost
<1>10. CASE DeleteRefused(w)
  <2>1. o \in Objs /\ "mark" \in Steps
    BY <1>0, <1>10 DEF DeleteRefused, OpOK, Steps
  <2>2. op' \in [Workers -> OpType]
    BY <1>10, <2>1, GoFacts, DoneFacts DEF DeleteRefused
  <2>3. ev' \in [Objs -> Workers \cup {"free"}] /\ odd' \subseteq Ids
    BY <1>10, <2>1, ObjFacts DEF DeleteRefused, TypeInv
  <2> QED BY <1>10, <2>2, <2>3 DEF DeleteRefused, TypeInv, cloud, local
<1>11. CASE RemoveChild(w)
  <2>1. o \in Objs /\ d \in Dirs /\ d \in Objs /\ {"mark", "orphan"} \subseteq Steps
    BY <1>0, <1>11, ObjFacts DEF RemoveChild, OpOK, Steps
  <2>2. obj[d].children \ {o} \in SUBSET Objs
    BY <2>1 DEF TypeInv, ObjType
  <2>3. obj' \in [Objs -> ObjType]
    BY <1>11, <2>1, <2>2, ChildrenFacts DEF RemoveChild
  <2>4. op' \in [Workers -> OpType]
    BY <1>11, <2>1, GoFacts, DoneFacts DEF RemoveChild
  <2>5. ev' \in [Objs -> Workers \cup {"free"}]
    BY <1>11, <2>1 DEF RemoveChild, TypeInv
  <2> QED BY <1>11, <2>3, <2>4, <2>5 DEF RemoveChild, TypeInv, cloud, ghost
<1>12. CASE Finish(w)
  <2>1. o \in Objs
    BY <1>0, <1>12 DEF Finish, OpOK
  <2>2. /\ obj' \in [Objs -> ObjType]
        /\ byId' \in [Ids -> AnyObj]
        /\ \A id \in Ids : byId'[id] # NoObj => IdOf(byId'[id]) = id
    BY <1>12, <2>1, TrashFacts DEF Finish
  <2>3. odd' \subseteq Ids /\ ev' \in [Objs -> Workers \cup {"free"}]
    BY <1>12, <2>1, ObjFacts DEF Finish, Uncounted, TypeInv
  <2> QED BY <1>12, <2>2, <2>3, DoneFacts DEF Finish, TypeInv, cloud
<1>13. CASE Detach(w)
  <2>1. o \in Objs /\ "detach" \in Steps
    BY <1>0, <1>13 DEF Detach, OpOK, Steps
  <2>2. IdOf(o) \in Ids
    BY <2>1, ObjFacts
  <2>3. srv' \in [Ids -> File] /\ news' \subseteq Ids
    <3>1. [srv[IdOf(o)] EXCEPT !.parents = @ \ {IdOf(d)}] \in File
      BY <2>2 DEF TypeInv, File
    <3>2. CASE UNCHANGED cloud
      BY <3>2 DEF TypeInv, cloud
    <3> QED BY <1>13, <2>2, <3>1, <3>2, StoresFacts DEF Detach
  <2> QED BY <1>13, <2>1, <2>3, GoFacts DEF Detach, TypeInv, local, ghost
<1>14. CASE Take(w)
  <2>1. o \in Objs /\ d \in Dirs /\ d \in Objs /\ "give" \in Steps
    BY <1>0, <1>14, ObjFacts DEF Take, OpOK, Steps
  <2>2. obj[d].children \ {o} \in SUBSET Objs
    BY <2>1 DEF TypeInv, ObjType
  <2>3. obj' \in [Objs -> ObjType]
    BY <1>14, <2>1, <2>2, ChildrenFacts DEF Take
  <2> QED BY <1>14, <2>1, <2>3, GoFacts DEF Take, TypeInv, cloud, ghost
<1>15. CASE Give(w)
  <2>1. o \in Objs /\ op[w].to \in Dirs /\ "name" \in Steps
    BY <1>0, <1>15 DEF Give, OpOK, Steps
  <2>2. obj' \in [Objs -> ObjType] /\ odd' \subseteq Ids
    BY <1>15, <2>1, AddsFacts DEF Give
  <2> QED BY <1>15, <2>1, <2>2, GoFacts DEF Give, TypeInv, cloud
<1>16. CASE SetName(w)
  <2>1. o \in Objs /\ "save" \in Steps
    BY <1>0, <1>16 DEF SetName, OpOK, Steps
  <2>2. op[w].name \in Names
    BY <1>0 DEF OpType
  <2>4. obj' \in [Objs -> ObjType]
    BY <1>16, <2>1, <2>2, NameFacts DEF SetName
  <2>3. op' \in [Workers -> OpType]
    BY <1>16, <2>1, GoFacts DEF SetName
  <2> QED BY <1>16, <2>3, <2>4 DEF SetName, TypeInv, cloud, ghost
<1>17. CASE Tell(w)
  <2>1. o \in Objs /\ d \in Dirs /\ d \in Objs /\ op[w].to \in Dirs /\ op[w].name \in Names
    BY <1>0, <1>17, ObjFacts DEF Tell, OpOK, OpType
  <2>2. IdOf(o) \in Ids /\ {IdOf(d), IdOf(op[w].to)} \subseteq Folders
    BY <2>1, ObjFacts
  <2> DEFINE ps == IF op[w].to = op[w].dir THEN srv[IdOf(o)].parents
                   ELSE (srv[IdOf(o)].parents \ {IdOf(d)}) \cup {IdOf(op[w].to)}
             file == [srv[IdOf(o)] EXCEPT !.name = op[w].name, !.parents = ps]
  <2>3. ps \in SUBSET Folders
    BY <2>2 DEF TypeInv, File
  <2>4. Stores(IdOf(o), file)
    BY <1>17 DEF Tell
  <2> HIDE DEF ps
  <2>5. file \in File
    <3>1. srv[IdOf(o)] \in File
      BY <2>2 DEF TypeInv
    <3> QED BY <2>1, <2>3, <3>1 DEF File
  <2> HIDE DEF file
  <2> QED BY <1>17, <2>2, <2>4, <2>5, StoresFacts, DoneFacts DEF Tell, TypeInv, local, ghost
<1>18. CASE TellRefused(w)
  <2>1. o \in Objs
    BY <1>0, <1>18 DEF TellRefused, OpOK
  <2>2. odd' \subseteq Ids
    BY <1>18, <2>1, ObjFacts DEF TellRefused, TypeInv
  <2> QED BY <1>18, <2>2, DoneFacts DEF TellRefused, TypeInv, cloud, local
<1>19. CASE Save(w)
  BY <1>19, SaveFacts DEF Save, TypeInv, cloud, local, ghost
<1> QED BY <1>1, <1>2, <1>3, <1>4, <1>5, <1>6, <1>7, <1>8, <1>9, <1>10, <1>11, <1>12,
           <1>13, <1>14, <1>15, <1>16, <1>17, <1>18, <1>19 DEF Step

(* A request's record.                                                     *)
RecordIs(r, pc, req, dir, c) ==
  r \in OpType /\ r.pc = pc /\ r.req = req /\ r.dir = dir /\ r.kid = c

LEMMA Records ==
  ASSUME NEW dir \in Objs, NEW c \in Objs, NEW name \in Names,
         NEW pc \in Steps, NEW req \in Requests
  PROVE  /\ RecordIs([Idle EXCEPT !.pc = pc, !.req = req, !.dir = dir, !.kid = c],
                     pc, req, dir, c)
         /\ RecordIs([Idle EXCEPT !.pc = pc, !.req = req, !.dir = dir, !.kid = c,
                                  !.name = name], pc, req, dir, c)
<1>1. dir \in AnyObj /\ c \in AnyObj /\ Idle \in OpType
  BY Constants DEF AnyObj
<1> QED BY <1>1 DEF OpType, RecordIs

(* A request begins: of thread w the record is r.                          *)
Begins(w, r) ==
  /\ op[w].pc = "idle" /\ r \in OpType /\ op' = [op EXCEPT ![w] = r]
  /\ OpOK(w, r) /\ r.pc \in {"found", "insert", "wait", "drop", "take", "name"}

LEMMA LookupBegins ==
  ASSUME TypeInv, NEW w \in Workers, NEW dir \in Objs, Enters(w, dir),
         NEW c \in obj[dir].children, Lookup(w, dir, c)
  PROVE  \E r \in OpType : /\ Begins(w, r) /\ r.pc = "found" /\ r.kid = c /\ r.dir = dir
                           /\ r.req = "lookup"
<1> DEFINE r == [Idle EXCEPT !.pc = "found", !.req = "lookup", !.dir = dir, !.kid = c]
<1>1. c \in Objs /\ "found" \in Steps /\ "lookup" \in Requests
  BY DEF TypeInv, ObjType, Steps, Requests
<1>2. RecordIs(r, "found", "lookup", dir, c)
  BY <1>1, Records, Constants
<1>4. op' = [op EXCEPT ![w] = r]
  BY DEF Lookup
<1> HIDE DEF r
<1>3. OpOK(w, r)
  BY <1>1, <1>2 DEF RecordIs, OpOK, Enters, Dirs, Making
<1> QED BY <1>2, <1>3, <1>4 DEF RecordIs, Begins, Enters

LEMMA MakeBegins ==
  ASSUME TypeInv, NEW w \in Workers, NEW dir \in Objs, Enters(w, dir),
         NEW id \in Ids, NEW name \in Names,
         Create(w, dir, id, name) \/ Mkdir(w, dir, id, name)
  PROVE  \E r \in OpType : Begins(w, r) /\ r.pc = "insert" /\ r.kid = First(id) /\ r.dir = dir
<1> DEFINE req == IF Create(w, dir, id, name) THEN "create" ELSE "mkdir"
           r == [Idle EXCEPT !.pc = "insert", !.req = req, !.dir = dir, !.kid = First(id),
                             !.name = name]
<1>1. First(id) \in Objs /\ IdOf(First(id)) = id /\ "insert" \in Steps
  BY ObjFacts DEF Steps
<1>2. Makes(w, dir, id, name, req) /\ req \in {"create", "mkdir"}
  BY DEF Create, Mkdir
<1>3. /\ req = "create" => id \in Files /\ id \notin Folders
      /\ req = "mkdir" => id \in Folders
  BY NamespaceAssumption DEF Create, Mkdir
<1> HIDE DEF req
<1>4. req \in Requests
  BY <1>2 DEF Requests
<1>5. RecordIs(r, "insert", req, dir, First(id))
  BY <1>1, <1>4, Records
<1>7. op' = [op EXCEPT ![w] = r]
  BY <1>2 DEF Makes
<1> HIDE DEF r
<1>6. OpOK(w, r)
  BY <1>1, <1>2, <1>3, <1>5 DEF RecordIs, OpOK, Enters, Dirs, IsFolder, Making
<1> QED BY <1>5, <1>6, <1>7 DEF RecordIs, Begins, Enters

LEMMA UnlinkBegins ==
  ASSUME TypeInv, NEW w \in Workers, NEW dir \in Objs, Enters(w, dir),
         NEW c \in obj[dir].children, Unlink(w, dir, c) \/ Rmdir(w, dir, c)
  PROVE  \E r \in OpType : /\ Begins(w, r) /\ r.pc \in {"wait", "drop"} /\ r.kid = c
                           /\ r.dir = dir /\ r.req \in {"unlink", "rmdir"}
                           /\ Unlink(w, dir, c) => r.req = "unlink"
                           /\ Unlink(w, dir, c) /\ ~obj[c].uploaded => r.pc = "drop"
                           /\ r.pc = "drop" => Unlink(w, dir, c) /\ ~obj[c].uploaded
<1> DEFINE pc == IF Unlink(w, dir, c) /\ ~obj[c].uploaded THEN "drop" ELSE "wait"
           req == IF Unlink(w, dir, c) THEN "unlink" ELSE "rmdir"
           r == [Idle EXCEPT !.pc = pc, !.req = req, !.dir = dir, !.kid = c]
<1>1. c \in Objs
  BY DEF TypeInv, ObjType
<1>2. /\ Finds(w, dir, c, req, pc) /\ pc \in {"wait", "drop"} /\ req \in {"unlink", "rmdir"}
      /\ req = "unlink" => ~IsFolder(c)
      /\ pc = "drop" => req = "unlink"
      /\ Unlink(w, dir, c) => req = "unlink"
      /\ Unlink(w, dir, c) /\ ~obj[c].uploaded => pc = "drop"
      /\ pc = "drop" => Unlink(w, dir, c) /\ ~obj[c].uploaded
  BY DEF Unlink, Rmdir
<1> HIDE DEF pc, req
<1>3. pc \in Steps /\ req \in Requests
  BY <1>2 DEF Steps, Requests
<1>4. RecordIs(r, pc, req, dir, c)
  BY <1>1, <1>3, Records, Constants
<1>6. op' = [op EXCEPT ![w] = r]
  BY <1>2 DEF Finds
<1> HIDE DEF r
<1>5. OpOK(w, r)
  BY <1>1, <1>2, <1>4 DEF RecordIs, OpOK, Enters, Dirs, Making
<1> QED BY <1>2, <1>4, <1>5, <1>6 DEF RecordIs, Begins, Enters

LEMMA RenameBegins ==
  ASSUME TypeInv, NEW w \in Workers, NEW dir \in Objs, Enters(w, dir),
         NEW c \in obj[dir].children, NEW to \in Objs, NEW name \in Names,
         Rename(w, dir, c, to, name)
  PROVE  \E r \in OpType : /\ Begins(w, r) /\ r.kid = c /\ r.dir = dir /\ r.req = "rename"
                           /\ r.pc = IF to = dir THEN "name" ELSE "take"
<1> DEFINE pc == IF to = dir THEN "name" ELSE "take"
           r == [pc |-> pc, req |-> "rename", dir |-> dir, kid |-> c, to |-> to,
                 name |-> name]
<1>1. c \in Objs /\ to \in AnyObj /\ "rename" \in Requests
  BY DEF TypeInv, ObjType, AnyObj, Requests
<1>2. /\ op' = [op EXCEPT ![w] = r] /\ pc \in {"name", "take"} /\ IsFolder(to)
  BY DEF Rename
<1> HIDE DEF pc
<1>3. pc \in Steps
  BY <1>2 DEF Steps
<1>4. r \in OpType
  BY <1>1, <1>3 DEF OpType, AnyObj
<1>5. OpOK(w, r)
  BY <1>1, <1>2 DEF OpOK, Enters, Dirs, Making
<1> QED BY <1>2, <1>4, <1>5 DEF Begins, Enters, pc

(* What a request may begin with.                                          *)
LEMMA StartBegins ==
  ASSUME TypeInv, NEW w \in Workers, Starts(w)
  PROVE  /\ \E r \in OpType : Begins(w, r)
         /\ used' = [used EXCEPT !.requests = @ + 1] /\ used.requests < MaxRequests
<1>1. PICK dir \in Objs :
        /\ Enters(w, dir) /\ Request
        /\ \/ \E c \in obj[dir].children :
                \/ Lookup(w, dir, c) \/ Unlink(w, dir, c) \/ Rmdir(w, dir, c)
                \/ \E to \in Objs, name \in Names : Rename(w, dir, c, to, name)
           \/ \E id \in Ids, name \in Names : Create(w, dir, id, name) \/ Mkdir(w, dir, id, name)
  BY DEF Starts
<1>2. ASSUME NEW c \in obj[dir].children, Lookup(w, dir, c)
      PROVE  \E r \in OpType : Begins(w, r)
  BY <1>1, <1>2, LookupBegins
<1>3. ASSUME NEW c \in obj[dir].children, Unlink(w, dir, c) \/ Rmdir(w, dir, c)
      PROVE  \E r \in OpType : Begins(w, r)
  BY <1>1, <1>3, UnlinkBegins
<1>4. ASSUME NEW c \in obj[dir].children, NEW to \in Objs, NEW name \in Names,
             Rename(w, dir, c, to, name)
      PROVE  \E r \in OpType : Begins(w, r)
  BY <1>1, <1>4, RenameBegins
<1>5. ASSUME NEW id \in Ids, NEW name \in Names,
             Create(w, dir, id, name) \/ Mkdir(w, dir, id, name)
      PROVE  \E r \in OpType : Begins(w, r)
  BY <1>1, <1>5, MakeBegins
<1>6. \E r \in OpType : Begins(w, r)
  BY <1>1, <1>2, <1>3, <1>4, <1>5
<1> QED BY <1>1, <1>6 DEF Request

(* A request of the kernel counts.                                         *)
LEMMA RequestType ==
  ASSUME TypeInv, Request
  PROVE  /\ used' \in [requests : 0 .. MaxRequests, changes : Nat]
         /\ used'.requests = used.requests + 1
BY NamespaceAssumption DEF TypeInv, Request

LEMMA StartType ==
  ASSUME TypeInv, NEW w \in Workers, Starts(w)
  PROVE  TypeInv'
<1>1. op' \in [Workers -> OpType] /\ used' \in [requests : 0 .. MaxRequests, changes : Nat]
  <2>1. PICK r \in OpType : Begins(w, r)
    BY StartBegins
  <2> QED BY <2>1, SetFacts, StartBegins, RequestType DEF Begins, Request
<1>2. PICK dir \in Objs :
        /\ Enters(w, dir)
        /\ \/ \E c \in obj[dir].children :
                \/ Lookup(w, dir, c) \/ Unlink(w, dir, c) \/ Rmdir(w, dir, c)
                \/ \E to \in Objs, name \in Names : Rename(w, dir, c, to, name)
           \/ \E id \in Ids, name \in Names : Create(w, dir, id, name) \/ Mkdir(w, dir, id, name)
  BY DEF Starts
<1>3. ASSUME NEW c \in obj[dir].children, Lookup(w, dir, c) \/ Rmdir(w, dir, c)
      PROVE  TypeInv'
  BY <1>1, <1>3 DEF Lookup, Rmdir, TypeInv, cloud, local
<1>4. ASSUME NEW c \in obj[dir].children, Unlink(w, dir, c)
      PROVE  TypeInv'
  <2>1. c \in Objs /\ obj[dir].children \ {c} \in SUBSET Objs
    BY DEF TypeInv, ObjType
  <2>2. obj' = [obj EXCEPT ![dir].children = obj[dir].children \ {c}]
    BY <1>4 DEF Unlink
  <2>3. obj' \in [Objs -> ObjType]
    BY <2>1, <2>2, ChildrenFacts
  <2>4. odd' \subseteq Ids
    BY <1>4, <2>1, ObjFacts DEF Unlink, TypeInv
  <2> QED BY <1>1, <1>4, <2>3, <2>4 DEF Unlink, TypeInv, cloud
<1>5. ASSUME NEW c \in obj[dir].children, NEW to \in Objs, NEW name \in Names,
             Rename(w, dir, c, to, name)
      PROVE  TypeInv'
  <2>1. c \in Objs /\ IdOf(c) \in Ids
    BY ObjFacts DEF TypeInv, ObjType
  <2>2. CASE UNCHANGED <<local, odd>>
    BY <1>1, <1>5, <2>2 DEF Rename, TypeInv, cloud, local
  <2>3. CASE UNCHANGED local /\ (odd' = odd \/ odd' = odd \cup {IdOf(c)})
    BY <1>1, <1>5, <2>1, <2>3 DEF Rename, TypeInv, cloud, local
  <2>4. ASSUME NEW o \in Named(to, obj[c].name), obj' = Trashed(o), byId' = Erased(o),
               odd' \subseteq odd \cup {IdOf(c)} \cup {IdOf(o)}
        PROVE  TypeInv'
    <3>1. o \in Objs /\ IdOf(o) \in Ids
      BY ObjFacts DEF Named, TypeInv, ObjType
    <3>2. /\ obj' \in [Objs -> ObjType] /\ byId' \in [Ids -> AnyObj]
          /\ \A id \in Ids : byId'[id] # NoObj => IdOf(byId'[id]) = id
      BY <2>4, <3>1, TrashFacts
    <3> QED BY <1>1, <1>5, <2>1, <2>4, <3>1, <3>2 DEF Rename, TypeInv, cloud
  <2>5. \/ UNCHANGED <<local, odd>>
        \/ UNCHANGED local /\ (odd' = odd \/ odd' = odd \cup {IdOf(c)})
        \/ \E o \in Named(to, obj[c].name) : /\ obj' = Trashed(o) /\ byId' = Erased(o)
                                             /\ odd' \subseteq odd \cup {IdOf(c)} \cup {IdOf(o)}
    BY <1>5 DEF Rename
  <2> QED BY <2>2, <2>3, <2>4, <2>5
<1>6. ASSUME NEW id \in Ids, NEW name \in Names, Create(w, dir, id, name)
      PROVE  TypeInv'
  BY <1>1, <1>6 DEF Create, TypeInv, cloud, local
<1>7. ASSUME NEW id \in Ids, NEW name \in Names, Mkdir(w, dir, id, name)
      PROVE  TypeInv'
  <2>1. IdOf(dir) \in Folders
    BY <1>2 DEF Enters, IsFolder
  <2>2. [st |-> "here", parents |-> {IdOf(dir)}, name |-> name] \in File
    BY <2>1 DEF File
  <2> QED BY <1>1, <1>7, <2>2, StoresFacts DEF Mkdir, TypeInv, local
<1> QED BY <1>2, <1>3, <1>4, <1>5, <1>6, <1>7

LEMMA ObjectType ==
  ASSUME TypeInv, NEW o \in Objs, Forget(o) \/ Store(o) \/ Mark(o)
  PROVE  TypeInv'
<1>0. IdOf(o) \in Ids /\ obj[o] \in ObjType
  BY ObjFacts DEF TypeInv
<1>1. CASE Forget(o)
  <2>1. held' \in [Objs -> Nat] /\ used' \in [requests : 0 .. MaxRequests, changes : Nat]
    BY <1>1, RequestType DEF Forget, TypeInv
  <2>2. CASE ~obj[o].known
    BY <1>1, <2>1, <2>2 DEF Forget, TypeInv, cloud, local
  <2>3. CASE obj[o].known
    <3> DEFINE left == obj[o].count - held[o]
               ends == left = 0 /\ obj[o].parents = {}
               keep == ~ends
    <3>1. left \in Int /\ keep \in BOOLEAN
      BY <1>0 DEF TypeInv, ObjType
    <3>2. /\ obj' = [obj EXCEPT ![o].count = left, ![o].known = keep]
          /\ byId' = IF ends THEN [byId EXCEPT ![IdOf(o)] = NoObj] ELSE byId
          /\ odd' \subseteq odd \cup {IdOf(o)}
      BY <1>1, <2>3 DEF Forget
    <3> HIDE DEF left, ends, keep
    <3>3. obj' \in [Objs -> ObjType]
      <4>1. [obj[o] EXCEPT !.count = left, !.known = keep] \in ObjType
        BY <1>0, <3>1 DEF ObjType
      <4>2. obj' = [obj EXCEPT ![o] = [obj[o] EXCEPT !.count = left, !.known = keep]]
        BY <3>2 DEF TypeInv, ObjType
      <4> QED BY <4>1, <4>2 DEF TypeInv
    <3>4. /\ byId' \in [Ids -> AnyObj]
          /\ \A id \in Ids : byId'[id] # NoObj => IdOf(byId'[id]) = id
      BY <1>0, <3>2 DEF TypeInv, AnyObj
    <3> QED BY <1>0, <1>1, <2>1, <3>2, <3>3, <3>4 DEF Forget, TypeInv, cloud
  <2> QED BY <2>2, <2>3
<1>2. CASE Store(o)
  <2>1. {IdOf(p) : p \in obj[o].parents} \subseteq Folders /\ obj[o].name \in Names
    BY <1>0, ObjFacts DEF ObjType
  <2>2. [st |-> "here", parents |-> {IdOf(p) : p \in obj[o].parents}, name |-> obj[o].name]
          \in File
    BY <2>1 DEF File
  <2> QED BY <1>0, <1>2, <2>2, StoresFacts DEF Store, TypeInv, local, ghost
<1>3. CASE Mark(o)
  <2>1. [obj[o] EXCEPT !.uploaded = TRUE] \in ObjType
    BY <1>0 DEF ObjType
  <2>2. obj' = [obj EXCEPT ![o] = [obj[o] EXCEPT !.uploaded = TRUE]]
    BY <1>3 DEF Mark
  <2>3. obj' \in [Objs -> ObjType]
    BY <2>1, <2>2 DEF TypeInv
  <2> QED BY <1>3, <2>3 DEF Mark, TypeInv, cloud, ghost
<1> QED BY <1>1, <1>2, <1>3

(* What is not a step of a thread of the process: the other clients, and   *)
(* the process itself when it ends.                                        *)
Outside == Others \/ Crashes

LEMMA OthersType ==
  ASSUME TypeInv, Outside
  PROVE  TypeInv'
<1>1. ASSUME NEW id \in Ids, NEW file \in File, Change(id, file), odd' \subseteq odd \cup {id}
      PROVE  TypeInv'
  <2>1. used' \in [requests : 0 .. MaxRequests, changes : Nat]
    BY <1>1 DEF Change, TypeInv
  <2> QED BY <1>1, <2>1, StoresFacts DEF Change, TypeInv, local
<1>2. ASSUME NEW id \in Ids, NEW p \in Folders, Move(id, p)
      PROVE  TypeInv'
  <2>1. [srv[id] EXCEPT !.parents = {p}] \in File
    BY DEF TypeInv, File
  <2> QED BY <1>1, <1>2, <2>1 DEF Move
<1>3. ASSUME NEW id \in Ids, NEW p \in Folders, NEW name \in Names, Appear(id, p, name)
      PROVE  TypeInv'
  <2>1. [st |-> "here", parents |-> {p}, name |-> name] \in File
    BY DEF File
  <2> QED BY <1>1, <1>3, <2>1 DEF Appear
<1>4. ASSUME NEW id \in Ids, Bin(id) \/ Remove(id) \/ Restore(id)
      PROVE  TypeInv'
  <2>1. srv[id] \in File /\ srv[id].st # "none"
    BY <1>4 DEF TypeInv, Bin, Remove, Restore
  <2>2. /\ [srv[id] EXCEPT !.st = "bin"] \in File /\ [srv[id] EXCEPT !.st = "gone"] \in File
        /\ [srv[id] EXCEPT !.st = "here"] \in File
    BY <2>1, GonePut
  <2> QED BY <1>1, <1>4, <2>2 DEF Bin, Remove, Restore
<1>6. ASSUME NEW id \in Ids, NEW name \in Names, Retitle(id, name)
      PROVE  TypeInv'
  <2>1. [srv[id] EXCEPT !.name = name] \in File
    BY DEF TypeInv, File
  <2> QED BY <1>1, <1>6, <2>1 DEF Retitle
<1>7. ASSUME NEW w \in Workers, NEW dir \in Objs, Enters(w, dir), Request,
             NEW id \in Ids, NEW name \in Names, MkdirRefused(dir, id, name)
      PROVE  TypeInv'
  <2>1. used' \in [requests : 0 .. MaxRequests, changes : Nat]
    BY <1>7, RequestType
  <2>2. CASE UNCHANGED cloud
    BY <1>7, <2>1, <2>2 DEF MkdirRefused, TypeInv, cloud, local
  <2>3. CASE Stores(id, [st |-> "here", parents |-> {IdOf(dir)}, name |-> name])
    <3>1. IdOf(dir) \in Folders
      BY <1>7 DEF Enters, IsFolder
    <3>2. [st |-> "here", parents |-> {IdOf(dir)}, name |-> name] \in File
      BY <3>1 DEF File
    <3> QED BY <1>7, <2>1, <2>3, <3>2, StoresFacts DEF MkdirRefused, TypeInv, local
  <2> QED BY <1>7, <2>2, <2>3 DEF MkdirRefused
<1>5. ASSUME NEW id \in Ids, Sweep(id)
      PROVE  TypeInv'
  <2>1. srv[id] \in File /\ srv[id].st # "none"
    BY <1>5 DEF TypeInv, Sweep
  <2>2. [srv[id] EXCEPT !.st = "gone"] \in File
    BY <2>1, GonePut
  <2> QED BY <1>5, <2>2, StoresFacts DEF Sweep, TypeInv, local, ghost
<1>8. CASE Others
  BY <1>2, <1>3, <1>4, <1>5, <1>6, <1>8 DEF Others
<1>9. CASE Crashes
  BY <1>7, <1>9 DEF Crashes
<1> QED BY <1>8, <1>9 DEF Outside

(* The objects of some folders.                                            *)
LEMMA ObjectsFacts ==
  ASSUME TypeInv, NEW ids \in SUBSET Folders
  PROVE  /\ Objects(ids) \in SUBSET Dirs
         /\ \A p \in Objects(ids) : IdOf(p) \in ids
<1> SUFFICES ASSUME NEW i \in ids, byId[i] # NoObj
             PROVE  byId[i] \in Dirs /\ IdOf(byId[i]) = i
  BY DEF Objects
<1>1. i \in Ids /\ i \in Folders
  BY Constants
<1>2. byId[i] \in Objs /\ IdOf(byId[i]) = i
  BY <1>1 DEF TypeInv, AnyObj
<1> QED BY <1>1, <1>2 DEF Dirs, IsFolder

(* A turn of one of the loops of background_update.                        *)
LEMMA LoopFacts ==
  ASSUME TypeInv, NEW pc \in {"leave", "remove", "add"}, NEW todo \in SUBSET Dirs,
         feed' = Loop(pc, todo)
  PROVE  /\ feed' \in FeedType
         /\ \/ feed' = NoChange
            \/ /\ feed'.pc = pc /\ feed'.todo = todo /\ feed'.id = feed.id
               /\ feed'.kid = feed.kid /\ feed'.file = feed.file
<1>1. NoChange \in FeedType /\ NoObj \in Dirs \cup {NoObj}
  BY Constants
<1>2. CASE feed' = NoChange
  BY <1>1, <1>2
<1>3. CASE feed' = [feed EXCEPT !.pc = pc, !.todo = todo, !.at = NoObj]
  BY <1>1, <1>3 DEF TypeInv, FeedType, Feeding
<1> QED BY <1>2, <1>3 DEF Loop

LEMMA AtFacts ==
  ASSUME TypeInv, NEW pc \in {"removeParent", "addParent"}, NEW p \in feed.todo,
         feed' = [feed EXCEPT !.pc = pc, !.at = p]
  PROVE  /\ feed' \in FeedType /\ p \in Dirs /\ p \in Objs
         /\ feed'.pc = pc /\ feed'.todo = feed.todo /\ feed'.id = feed.id
         /\ feed'.kid = feed.kid /\ feed'.file = feed.file /\ feed'.at = p
<1>1. p \in Dirs /\ p \in Objs
  BY ObjFacts DEF TypeInv, FeedType
<1> QED BY <1>1 DEF TypeInv, FeedType, Feeding

(* A change to an object that is found: updateInode.                       *)
LEMMA KnownFacts ==
  ASSUME TypeInv, ApplyKnown
  PROVE  /\ Known \in Objs /\ IdOf(Known) = feed.id
         /\ obj' \in [Objs -> ObjType]
         /\ \A o \in Objs : /\ obj'[o].known = obj[o].known
                            /\ obj'[o].parents = obj[o].parents
                            /\ obj'[o].children = obj[o].children
                            /\ obj'[o].count = obj[o].count
                            /\ o # Known => obj'[o] = obj[o]
         /\ feed' \in FeedType /\ feed'.pc = "remove" /\ feed'.kid = Known
         /\ feed'.id = feed.id
         /\ feed'.todo = Objects(feed.file.parents \ Parents(Known))
         /\ \A p \in feed'.todo : p \notin obj[Known].parents
<1>1. Known \in Objs /\ IdOf(Known) = feed.id
  BY DEF ApplyKnown, Known, TypeInv, AnyObj, FeedType
<1>2. feed.file.parents \ Parents(Known) \in SUBSET Folders /\ feed.file.name \in Names
  BY DEF TypeInv, FeedType, File
<1> DEFINE binned == feed.file.st = "bin"
           r == [obj[Known] EXCEPT !.trashed = binned, !.uploaded = TRUE,
                                   !.name = feed.file.name]
           todo == Objects(feed.file.parents \ Parents(Known))
<1>3. binned \in BOOLEAN
  OBVIOUS
<1>4. obj' = [obj EXCEPT ![Known] = r]
  BY <1>1 DEF ApplyKnown, TypeInv, ObjType
<1>5. feed' = [feed EXCEPT !.pc = "remove", !.kid = Known, !.todo = todo]
  BY DEF ApplyKnown
<1>6. todo \in SUBSET Dirs /\ \A p \in todo : IdOf(p) \notin Parents(Known)
  BY <1>2, ObjectsFacts
<1> HIDE DEF binned, todo
<1>7. r \in ObjType /\ r.known = obj[Known].known /\ r.parents = obj[Known].parents
      /\ r.children = obj[Known].children /\ r.count = obj[Known].count
  <2>1. obj[Known] \in ObjType
    BY <1>1 DEF TypeInv
  <2> QED BY <1>2, <1>3, <2>1 DEF ObjType
<1> HIDE DEF r
<1>8. /\ feed' \in FeedType /\ feed'.pc = "remove" /\ feed'.kid = Known
      /\ feed'.id = feed.id /\ feed'.todo = todo
  <2>1. Known \in AnyObj
    BY <1>1 DEF AnyObj
  <2> HIDE DEF Known
  <2> QED BY <1>5, <1>6, <2>1 DEF TypeInv, FeedType, Feeding
<1>9. \A p \in todo : p \notin obj[Known].parents
  BY <1>6 DEF Parents
<1>10. obj' \in [Objs -> ObjType] /\ obj'[Known] = r
       /\ \A o \in Objs : o # Known => obj'[o] = obj[o]
  BY <1>1, <1>4, <1>7 DEF TypeInv
<1> QED BY <1>1, <1>7, <1>8, <1>9, <1>10 DEF todo

(* A change to an object that is not: a new one.                           *)
LEMMA NewFacts ==
  ASSUME TypeInv, ApplyNew
  PROVE  \E o \in Objs :
           /\ IdOf(o) = feed.id /\ Unused(o) /\ byId' = [byId EXCEPT ![feed.id] = o]
           /\ obj' \in [Objs -> ObjType] /\ \A q \in Objs \ {o} : obj'[q] = obj[q]
           /\ obj'[o].known /\ obj'[o].count = 0
           /\ obj'[o].parents = {} /\ obj'[o].children = {}
           /\ feed' \in FeedType
           /\ \/ feed' = NoChange
              \/ feed'.pc = "add" /\ feed'.kid = o /\ feed'.id = feed.id
<1>1. PICK k \in 1 .. Copies :
       LET o == <<feed.id, k>> IN
       /\ Unused(o)
       /\ obj' = [obj EXCEPT ![o] = [NoObject EXCEPT !.known = TRUE, !.uploaded = TRUE,
                    !.trashed = (feed.file.st = "bin"), !.name = feed.file.name]]
       /\ byId' = [byId EXCEPT ![feed.id] = o]
       /\ feed' = IF Objects(feed.file.parents) = {} THEN NoChange
                  ELSE [feed EXCEPT !.pc = "add", !.kid = o,
                                    !.todo = Objects(feed.file.parents)]
  BY DEF ApplyNew
<1> DEFINE o == <<feed.id, k>>
           binned == feed.file.st = "bin"
           r == [NoObject EXCEPT !.known = TRUE, !.uploaded = TRUE, !.trashed = binned,
                                 !.name = feed.file.name]
           todo == Objects(feed.file.parents)
<1>2. o \in Objs /\ IdOf(o) = feed.id
  BY ObjFacts DEF TypeInv, FeedType
<1>3. binned \in BOOLEAN /\ feed.file.name \in Names /\ todo \in SUBSET Dirs
  BY ObjectsFacts DEF TypeInv, FeedType, File
<1>4. obj' = [obj EXCEPT ![o] = r]
  BY <1>1
<1>5. feed' = NoChange \/ feed' = [feed EXCEPT !.pc = "add", !.kid = o, !.todo = todo]
  BY <1>1
<1>6. Unused(o) /\ byId' = [byId EXCEPT ![feed.id] = o]
  BY <1>1
<1> HIDE DEF o, binned, todo
<1>7. r \in ObjType /\ r.known /\ r.count = 0 /\ r.parents = {} /\ r.children = {}
  BY <1>3, Constants DEF ObjType, NoObject
<1> HIDE DEF r
<1>8. obj' \in [Objs -> ObjType] /\ obj'[o] = r /\ \A q \in Objs \ {o} : obj'[q] = obj[q]
  BY <1>2, <1>4, <1>7 DEF TypeInv
<1>9. feed' \in FeedType
      /\ \/ feed' = NoChange
         \/ feed'.pc = "add" /\ feed'.kid = o /\ feed'.id = feed.id
  <2>1. CASE feed' = NoChange
    BY <2>1, Constants
  <2>2. CASE feed' = [feed EXCEPT !.pc = "add", !.kid = o, !.todo = todo]
    BY <1>2, <1>3, <2>2 DEF TypeInv, FeedType, Feeding, AnyObj
  <2> QED BY <1>5, <2>1, <2>2
<1> QED BY <1>2, <1>6, <1>7, <1>8, <1>9

LEMMA FeedStepType ==
  ASSUME TypeInv, Feed
  PROVE  TypeInv'
<1>0. feed \in FeedType /\ NoChange \in FeedType /\ NoChange.pc = "idle"
  BY Constants DEF TypeInv, NoChange
<1>1. ASSUME NEW id \in Ids, Fetch(id)
      PROVE  TypeInv'
  <2>1. feed' \in FeedType /\ feed'.pc = "apply"
    <3>1. srv[id] \in File
      BY DEF TypeInv
    <3> QED BY <1>0, <1>1, <3>1 DEF Fetch, FeedType
  <2> QED BY <1>1, <2>1 DEF Fetch, TypeInv, local, Feeding
<1>2. CASE ApplyNothing
  BY <1>0, <1>2 DEF ApplyNothing, TypeInv, cloud, local, ghost, Feeding
<1>3. CASE ApplyGone
  <2>1. Known \in Objs
    BY <1>0, <1>3 DEF ApplyGone, Known, TypeInv, AnyObj, FeedType
  <2>2. /\ obj' \in [Objs -> ObjType] /\ byId' \in [Ids -> AnyObj]
        /\ \A id \in Ids : byId'[id] # NoObj => IdOf(byId'[id]) = id
    BY <1>3, <2>1, TrashFacts DEF ApplyGone
  <2>3. odd' \subseteq Ids
    BY <1>3, <2>1, ObjFacts DEF ApplyGone, Uncounted, TypeInv
  <2>4. feed' \in FeedType /\ (feed' = NoChange \/ (feed'.pc = "leave" /\ feed'.kid = Known))
    <3>1. obj[Known].parents \in SUBSET Dirs /\ Known \in AnyObj
      BY <2>1 DEF TypeInv, ObjType, AnyObj
    <3> HIDE DEF Known
    <3>2. \/ feed' = NoChange
          \/ feed' = [feed EXCEPT !.pc = "leave", !.kid = Known, !.todo = obj[Known].parents]
      BY <1>3 DEF ApplyGone
    <3>3. CASE feed' = [feed EXCEPT !.pc = "leave", !.kid = Known, !.todo = obj[Known].parents]
      <4> DEFINE todo == obj[Known].parents
      <4> HIDE DEF todo
      <4> QED BY <1>0, <3>1, <3>3 DEF FeedType, todo
    <3> QED BY <1>0, <3>2, <3>3
  <2> QED BY <1>0, <1>3, <2>1, <2>2, <2>3, <2>4 DEF ApplyGone, TypeInv, cloud, Feeding
<1>4. CASE ApplyKnown
  BY <1>4, KnownFacts DEF ApplyKnown, TypeInv, cloud, ghost, Feeding
<1>5. CASE ApplyNew
  <2>1. PICK o \in Objs :
           /\ IdOf(o) = feed.id /\ Unused(o) /\ byId' = [byId EXCEPT ![feed.id] = o]
           /\ obj' \in [Objs -> ObjType] /\ \A q \in Objs \ {o} : obj'[q] = obj[q]
           /\ obj'[o].known /\ obj'[o].count = 0
           /\ obj'[o].parents = {} /\ obj'[o].children = {}
           /\ feed' \in FeedType
           /\ \/ feed' = NoChange
              \/ feed'.pc = "add" /\ feed'.kid = o /\ feed'.id = feed.id
    BY <1>5, NewFacts
  <2>2. byId' \in [Ids -> AnyObj] /\ \A id \in Ids : byId'[id] # NoObj => IdOf(byId'[id]) = id
    BY <1>0, <2>1 DEF TypeInv, AnyObj, FeedType
  <2>3. odd' \subseteq Ids
    BY <1>0, <1>5 DEF ApplyNew, Missing, TypeInv, FeedType
  <2> QED BY <1>0, <1>5, <2>1, <2>2, <2>3 DEF ApplyNew, TypeInv, cloud, Feeding
<1>6. ASSUME NEW p \in feed.todo, Leave(p) \/ FeedRemoveChild(p)
      PROVE  TypeInv'
  <2>1. p \in Objs /\ feed.kid \in Objs /\ feed.todo \ {p} \in SUBSET Dirs
    BY <1>0, <1>6, ObjFacts DEF Leave, FeedRemoveChild, TypeInv, FeedType, Feeding
  <2>2. obj[p].children \ {feed.kid} \in SUBSET Objs
    BY <2>1 DEF TypeInv, ObjType
  <2>3. obj' \in [Objs -> ObjType]
    BY <1>6, <2>1, <2>2, ChildrenFacts DEF Leave, FeedRemoveChild
  <2>4. CASE Leave(p)
    <3>0. feed' = Loop("leave", feed.todo \ {p})
      BY <2>4 DEF Leave
    <3>1. feed' \in FeedType /\ (feed' = NoChange \/ (feed'.pc = "leave" /\ feed'.kid = feed.kid))
      BY <2>1, <3>0, LoopFacts
    <3> QED BY <1>0, <2>1, <2>3, <2>4, <3>1 DEF Leave, TypeInv, cloud, ghost, Feeding
  <2>5. CASE FeedRemoveChild(p)
    <3>1. feed' \in FeedType /\ feed'.pc = "removeParent" /\ feed'.kid = feed.kid
          /\ feed'.at \in Dirs
      BY <2>5, AtFacts DEF FeedRemoveChild
    <3> QED BY <2>1, <2>3, <2>5, <3>1 DEF FeedRemoveChild, TypeInv, cloud, ghost, Feeding
  <2> QED BY <1>6, <2>4, <2>5
<1>7. CASE FeedRemoveParent \/ FeedAddParent
  <2>1. feed.kid \in Objs /\ feed.at \in Dirs /\ feed.todo \ {feed.at} \in SUBSET Dirs
    BY <1>0, <1>7 DEF FeedRemoveParent, FeedAddParent, TypeInv, FeedType, Feeding
  <2>2. obj[feed.kid].parents \ {feed.at} \in SUBSET Dirs
        /\ obj[feed.kid].parents \cup {feed.at} \in SUBSET Dirs
    BY <2>1 DEF TypeInv, ObjType
  <2>3. obj' \in [Objs -> ObjType]
    BY <1>7, <2>1, <2>2, ParentsFacts DEF FeedRemoveParent, FeedAddParent
  <2>4. feed' \in FeedType
        /\ (feed' = NoChange \/ (feed'.pc \in {"remove", "add"} /\ feed'.kid = feed.kid))
    <3>1. feed' = Loop("remove", feed.todo \ {feed.at}) \/ feed' = Loop("add", feed.todo \ {feed.at})
      BY <1>7 DEF FeedRemoveParent, FeedAddParent
    <3> QED BY <2>1, <3>1, LoopFacts
  <2> QED BY <1>0, <1>7, <2>1, <2>3, <2>4
          DEF FeedRemoveParent, FeedAddParent, TypeInv, cloud, ghost, Feeding
<1>8. CASE FeedParents
  <2> DEFINE new == feed.file.parents \ Parents(feed.kid)
  <2>1. new \in SUBSET Folders /\ feed.kid \in Objs
    BY <1>0, <1>8 DEF FeedParents, FeedType, File, TypeInv, Feeding
  <2>2. feed' \in FeedType /\ (feed' = NoChange \/ (feed'.pc = "add" /\ feed'.kid = feed.kid))
    <3>1. feed' = Loop("add", Objects(new)) /\ Objects(new) \in SUBSET Dirs
      BY <1>8, <2>1, ObjectsFacts DEF FeedParents
    <3> HIDE DEF new
    <3> QED BY <3>1, LoopFacts
  <2>3. odd' \subseteq Ids
    BY <1>0, <1>8 DEF FeedParents, Missing, TypeInv, FeedType
  <2> QED BY <1>0, <1>8, <2>1, <2>2, <2>3 DEF FeedParents, TypeInv, cloud, local, Feeding
<1>9. ASSUME NEW p \in feed.todo, FeedAddChild(p)
      PROVE  TypeInv'
  <2>1. p \in Dirs /\ feed.kid \in Objs
    BY <1>0, <1>9 DEF FeedAddChild, TypeInv, FeedType, Feeding
  <2>2. obj' \in [Objs -> ObjType]
    BY <1>9, <2>1, AddsFacts DEF FeedAddChild
  <2>4. odd' \subseteq Ids
    BY <1>9, <2>1, AddsFacts DEF FeedAddChild
  <2>3. feed' \in FeedType /\ feed'.pc = "addParent" /\ feed'.kid = feed.kid /\ feed'.at \in Dirs
    BY <1>9, AtFacts DEF FeedAddChild
  <2> QED BY <1>9, <2>1, <2>2, <2>3, <2>4 DEF FeedAddChild, TypeInv, cloud, Feeding
<1> QED BY <1>1, <1>2, <1>3, <1>4, <1>5, <1>6, <1>7, <1>8, <1>9 DEF Feed

LEMMA InitType == Init => TypeInv /\ OpInv
<1> SUFFICES ASSUME Init PROVE TypeInv /\ OpInv
  OBVIOUS
<1>1. srv \in [Ids -> File]
  BY Constants DEF Init
<1>2. obj \in [Objs -> ObjType]
  <2> SUFFICES ASSUME NEW o \in Objs PROVE obj[o] \in ObjType
    BY DEF Init
  <2>1. CASE o \in {First(id) : id \in There}
    <3>1. PICK id \in There : o = First(id)
      BY <2>1
    <3>2. IdOf(o) = id /\ id \in Ids
      BY <3>1, ObjFacts, Constants, NamespaceAssumption DEF There
    <3> DEFINE n == StartFile(IdOf(o)).name
               ps == {First(p) : p \in StartFile(IdOf(o)).parents}
               cs == {First(j) : j \in {i \in DOMAIN Start : Start[i].parent = IdOf(o)}}
    <3>3. StartFile(IdOf(o)) \in File
      BY <3>2, Constants
    <3>4. n \in Names /\ StartFile(IdOf(o)).parents \subseteq Folders
      BY <3>3 DEF File
    <3>5. ps \in SUBSET Dirs
      BY <3>4, ObjFacts, Constants DEF Dirs, IsFolder
    <3>6. cs \in SUBSET Objs
      BY ObjFacts, NamespaceAssumption
    <3>7. obj[o] = [NoObject EXCEPT !.known = TRUE, !.uploaded = TRUE, !.count = 1,
                      !.name = n, !.parents = ps, !.children = cs]
      BY <2>1 DEF Init
    <3> HIDE DEF n, ps, cs
    <3>8. NoObject \in ObjType /\ 1 \in Int
      BY Constants
    <3> QED BY <3>8, <3>4, <3>5, <3>6, <3>7, Constants DEF ObjType
  <2>2. CASE o \notin {First(id) : id \in There}
    BY <2>2, Constants DEF Init
  <2> QED BY <2>1, <2>2
<1>3. byId \in [Ids -> AnyObj] /\ \A id \in Ids : byId[id] # NoObj => IdOf(byId[id]) = id
  BY ObjFacts DEF Init, AnyObj
<1>4. /\ held \in [Objs -> Nat] /\ ev \in [Objs -> Workers \cup {"free"}]
      /\ used \in [requests : 0 .. MaxRequests, changes : Nat]
  <2>1. 0 \in 0 .. MaxRequests
    BY NamespaceAssumption
  <2>2. held \in [Objs -> Nat]
    BY DEF Init
  <2>3. ev \in [Objs -> Workers \cup {"free"}]
    BY DEF Init
  <2> QED BY <2>1, <2>2, <2>3 DEF Init
<1>5. op \in [Workers -> OpType] /\ feed \in FeedType
  BY Constants DEF Init
<1>6. OpInv
  BY DEF Init, OpInv, OpOK, Idle, Making, Keeping
<1> QED BY <1>1, <1>2, <1>3, <1>4, <1>5, <1>6 DEF Init, TypeInv, NoChange, Feeding

-----------------------------------------------------------------------------
(* Where a thread goes from where it is.                                   *)

Flow(q, r) ==
  \/ r = Idle
  \/ /\ r.req = q.req /\ r.dir = q.dir /\ r.kid = q.kid /\ r.to = q.to
     /\ \/ <<q.pc, r.pc>> \in {<<"insert", "addChild">>, <<"addChild", "addParent">>,
              <<"addParent", "assert">>, <<"drop", "off">>, <<"off", "orphan">>,
              <<"wait", "remove">>, <<"remove", "unchild">>, <<"remove", "detach">>,
              <<"take", "give">>, <<"give", "name">>, <<"name", "save">>,
              <<"save", "tell">>}
        \/ q.pc \in {"detach", "remove", "unchild"} /\ r.pc = "mark" /\ q.req = "unlink"

(* A thread goes on, and the others stay; the m_event it keeps is its own. *)
LEMMA StepFlow ==
  ASSUME TypeInv, OpInv, NEW w \in Workers, Step(w)
  PROVE  /\ op' \in [Workers -> OpType] /\ op[w].pc # "idle" /\ Flow(op[w], op'[w])
         /\ \A v \in Workers \ {w} : op'[v] = op[v]
         /\ \A o \in Objs : ev'[o] # ev[o] => o = op[w].kid /\ ev[o] \in {w, "free"}
         /\ op'[w].pc \in Keeping => ev'[op[w].kid] = w
<1>0. op[w] \in OpType /\ OpOK(w, op[w])
  BY DEF TypeInv, OpInv
<1>t. op' \in [Workers -> OpType]
  BY StepType DEF TypeInv
<1> DEFINE o == op[w].kid
<1>e. op[w].pc # "idle" => o \in Objs
  BY <1>0 DEF OpOK
<1>k. op[w].pc \in Keeping => ev[o] = w
  BY DEF OpInv
<1>i. Idle.pc = "idle" /\ "idle" \notin Keeping
  BY DEF Idle, Keeping
<1>d. ASSUME Done(w)
      PROVE  /\ op'[w] = Idle /\ \A v \in Workers \ {w} : op'[v] = op[v]
             /\ op'[w].pc \notin Keeping
  BY <1>d, <1>i, DoneFacts
<1>g. ASSUME NEW pc \in Steps, Go(w, pc)
      PROVE  /\ op'[w].pc = pc /\ \A v \in Workers \ {w} : op'[v] = op[v]
             /\ op'[w].req = op[w].req /\ op'[w].dir = op[w].dir
             /\ op'[w].kid = op[w].kid /\ op'[w].to = op[w].to
  BY <1>g, GoFacts
<1>1. CASE LookupReply(w) \/ MakeReply(w) \/ Tell(w) \/ TellRefused(w)
  BY <1>1, <1>d, <1>t DEF LookupReply, MakeReply, Tell, TellRefused, Flow
<1>2. CASE Insert(w)
  BY <1>2, <1>g, <1>t DEF Insert, Flow, Steps, Keeping
<1>3. CASE AddChild(w)
  BY <1>3, <1>g, <1>t DEF AddChild, Flow, Steps, Keeping
<1>4. CASE AddParent(w)
  BY <1>4, <1>g, <1>t DEF AddParent, Flow, Steps, Keeping
<1>5. CASE Drop(w)
  BY <1>5, <1>g, <1>t DEF Drop, Flow, Steps, Keeping
<1>6. CASE RemoveParent(w)
  <2>1. CASE op[w].pc = "detach" /\ op[w].req = "unlink" /\ Go(w, "mark")
    BY <1>6, <2>1, <1>g, <1>t, <1>k DEF RemoveParent, Flow, Steps, Keeping
  <2>2. CASE Done(w)
    BY <1>6, <2>2, <1>d, <1>t DEF RemoveParent, Flow
  <2> QED BY <1>6, <2>1, <2>2 DEF RemoveParent
<1>7. CASE Wait(w)
  <2>1. CASE Done(w) /\ UNCHANGED ev
    BY <1>7, <2>1, <1>d, <1>t DEF Wait, Flow
  <2>2. CASE Go(w, "remove") /\ ev' = [ev EXCEPT ![o] = w]
    <3>1. o \in Objs /\ ev[o] = "free" /\ op[w].pc = "wait" /\ "remove" \in Steps
      BY <1>7, <1>e DEF Wait, Steps
    <3>2. ev'[o] = w /\ \A q \in Objs : ev'[q] # ev[q] => q = o
      BY <2>2, <3>1 DEF TypeInv
    <3> QED BY <2>2, <3>1, <3>2, <1>g, <1>t DEF Flow
  <2> QED BY <1>7, <2>1, <2>2 DEF Wait
<1>8. CASE Delete(w)
  BY <1>8, <1>g, <1>t, <1>k DEF Delete, Flow, Steps, Keeping
<1>9. CASE DeleteRefused(w)
  <2>0. op[w].pc = "remove" /\ o \in Objs /\ ev[o] = w /\ op[w].req \in {"unlink", "rmdir"}
    BY <1>9, <1>0, <1>e, <1>k DEF DeleteRefused, Keeping, OpOK
  <2>1. CASE op[w].req = "unlink" /\ Go(w, "mark") /\ UNCHANGED ev
    BY <2>0, <2>1, <1>g, <1>t DEF Flow, Steps
  <2>2. CASE Done(w) /\ ev' = [ev EXCEPT ![o] = "free"]
    BY <2>0, <2>2, <1>d, <1>t DEF Flow, TypeInv
  <2> QED BY <1>9, <2>1, <2>2 DEF DeleteRefused
<1>10. CASE RemoveChild(w)
  <2>1. CASE op[w].req = "rmdir" /\ Done(w) /\ ev' = [ev EXCEPT ![o] = "free"]
    <3>1. op[w].pc = "unchild" /\ o \in Objs /\ ev[o] = w
      BY <1>10, <2>1, <1>0, <1>e, <1>k DEF RemoveChild, Keeping, OpOK
    <3> QED BY <2>1, <3>1, <1>d, <1>t DEF Flow, TypeInv
  <2>2. CASE op[w].pc = "off" /\ Go(w, "orphan") /\ UNCHANGED ev
    BY <2>2, <1>g, <1>t DEF Flow, Steps, Keeping
  <2>3. CASE op[w].pc = "unchild" /\ op[w].req # "rmdir" /\ Go(w, "mark") /\ UNCHANGED ev
    BY <2>3, <1>0, <1>g, <1>t, <1>k DEF Flow, Steps, Keeping, OpOK
  <2> QED BY <1>10, <2>1, <2>2, <2>3 DEF RemoveChild
<1>11. CASE Finish(w)
  <2>1. op[w].pc = "mark" /\ o \in Objs /\ ev[o] = w
    BY <1>11, <1>e, <1>k DEF Finish, Keeping
  <2> QED BY <1>11, <2>1, <1>d, <1>t DEF Finish, Flow, TypeInv
<1>12. CASE Detach(w)
  BY <1>12, <1>g, <1>t, <1>k DEF Detach, Flow, Steps, Keeping
<1>13. CASE Take(w) \/ Give(w)
  BY <1>13, <1>g, <1>t DEF Take, Give, Flow, Steps, Keeping
<1>14. CASE SetName(w)
  BY <1>14, <1>g, <1>t DEF SetName, Flow, Steps, Keeping
<1>15. CASE Save(w)
  BY <1>15, <1>t, <1>i, SaveFacts DEF Save, Flow, Keeping
<1> QED BY <1>1, <1>2, <1>3, <1>4, <1>5, <1>6, <1>7, <1>8, <1>9, <1>10, <1>11, <1>12,
           <1>13, <1>14, <1>15 DEF Step

LEMMA StepOps ==
  ASSUME TypeInv, OpInv, NEW w \in Workers, Step(w)
  PROVE  OpInv'
<1>1. /\ op' \in [Workers -> OpType] /\ op[w].pc # "idle" /\ Flow(op[w], op'[w])
      /\ \A v \in Workers \ {w} : op'[v] = op[v]
      /\ \A o \in Objs : ev'[o] # ev[o] => o = op[w].kid /\ ev[o] \in {w, "free"}
      /\ op'[w].pc \in Keeping => ev'[op[w].kid] = w
  BY StepFlow
<1>2. OpOK(w, op[w])
  BY DEF OpInv
<1>3. OpOK(w, op'[w])
  <2>1. CASE op'[w] = Idle
    BY <2>1 DEF Idle, OpOK, Making
  <2>2. CASE op'[w] # Idle
    BY <1>1, <1>2, <2>2 DEF Flow, OpOK, Making
  <2> QED BY <2>1, <2>2
<1>4. op'[w].pc \in Keeping => ev'[op'[w].kid] = w
  BY <1>1 DEF Flow, Idle, Keeping
<1>5. ASSUME NEW v \in Workers, v # w
      PROVE  OpOK(v, op'[v]) /\ (op'[v].pc \in Keeping => ev'[op'[v].kid] = v)
  <2>1. op'[v] = op[v] /\ OpOK(v, op[v]) /\ (op[v].pc \in Keeping => ev[op[v].kid] = v)
    BY <1>1, <1>5 DEF OpInv
  <2>2. op[v].pc \in Keeping => op[v].kid \in Objs
    BY <2>1 DEF OpOK, Keeping
  <2>3. v \notin {w, "free"}
    BY <1>5, NamespaceAssumption
  <2> QED BY <1>1, <2>1, <2>2, <2>3
<1> QED BY <1>3, <1>4, <1>5 DEF OpInv, OpOK

LEMMA OtherOps ==
  ASSUME TypeInv, OpInv, NEW w \in Workers, NEW r \in OpType, Begins(w, r), ev' = ev
  PROVE  OpInv'
<1>1. op'[w] = r /\ \A v \in Workers \ {w} : op'[v] = op[v]
  BY SetFacts DEF Begins
<1>2. OpOK(w, op'[w]) /\ op'[w].pc \notin Keeping
  BY <1>1 DEF Begins, Keeping
<1> QED BY <1>1, <1>2 DEF OpInv, OpOK

(* What no request begins with.                                            *)
LEMMA StartKeeps ==
  ASSUME NEW w \in Workers, Starts(w)
  PROVE  ev' = ev /\ feed' = feed /\ held' = held
<1> DEFINE Same == ev' = ev /\ feed' = feed /\ held' = held
<1>1. PICK dir \in Objs :
        \/ \E c \in obj[dir].children :
             \/ Lookup(w, dir, c) \/ Unlink(w, dir, c) \/ Rmdir(w, dir, c)
             \/ \E to \in Objs, name \in Names : Rename(w, dir, c, to, name)
        \/ \E id \in Ids, name \in Names : Create(w, dir, id, name) \/ Mkdir(w, dir, id, name)
  BY DEF Starts
<1>2. \A c : Lookup(w, dir, c) => Same
  BY DEF Lookup
<1>3. \A c : Unlink(w, dir, c) => Same
  BY DEF Unlink
<1>4. \A c : Rmdir(w, dir, c) => Same
  BY DEF Rmdir
<1>5. \A c, to, name : Rename(w, dir, c, to, name) => Same
  BY DEF Rename
<1>6. \A id, name : Create(w, dir, id, name) \/ Mkdir(w, dir, id, name) => Same
  BY DEF Create, Mkdir
<1> HIDE DEF Same
<1>7. Same
  BY <1>1, <1>2, <1>3, <1>4, <1>5, <1>6
<1> QED BY <1>7 DEF Same

(* One step of any kind.                                                   *)
LEMMA NextType ==
  ASSUME TypeInv, OpInv, Next
  PROVE  TypeInv' /\ OpInv'
<1>1. ASSUME NEW w \in Workers, Starts(w)
      PROVE  TypeInv' /\ OpInv'
  <2>1. PICK r \in OpType : Begins(w, r)
    BY <1>1, StartBegins
  <2>2. ev' = ev
    BY <1>1, StartKeeps
  <2> QED BY <1>1, <2>1, <2>2, StartType, OtherOps
<1>2. ASSUME NEW w \in Workers, Step(w)
      PROVE  TypeInv' /\ OpInv'
  BY <1>2, StepType, StepOps
<1>3. ASSUME op' = op, ev' = ev
      PROVE  OpInv'
  BY <1>3 DEF OpInv, OpOK
<1>4. ASSUME NEW o \in Objs, Forget(o) \/ Store(o) \/ Mark(o)
      PROVE  TypeInv' /\ OpInv'
  BY <1>3, <1>4, ObjectType DEF Forget, Store, Mark
<1>5. CASE Outside
  <2>1. Others => op' = op /\ ev' = ev
    BY DEF Others, Move, Appear, Bin, Remove, Restore, Retitle, Sweep, Change
  <2>2. Crashes => op' = op /\ ev' = ev
    BY DEF Crashes, MkdirRefused
  <2>3. op' = op /\ ev' = ev
    BY <1>5, <2>1, <2>2 DEF Outside
  <2> QED BY <1>3, <1>5, <2>3, OthersType
<1>6. CASE Feed
  <2>1. op' = op /\ ev' = ev
    BY <1>6 DEF Feed, Fetch, ApplyNothing, ApplyGone, ApplyKnown, ApplyNew, Leave,
                FeedRemoveChild, FeedAddChild, FeedRemoveParent, FeedParents, FeedAddParent
  <2> QED BY <1>3, <1>6, <2>1, FeedStepType
<1> QED BY <1>1, <1>2, <1>4, <1>5, <1>6 DEF Next, Outside

-----------------------------------------------------------------------------
(* What the steps of a thread do to the objects: of what the invariants    *)
(* speak of, which stays as it is.                                         *)

Kept(o) == /\ obj'[o].known = obj[o].known /\ obj'[o].trashed = obj[o].trashed
           /\ obj'[o].parents = obj[o].parents
SameObj(o) == /\ Kept(o) /\ obj'[o].children = obj[o].children
              /\ obj'[o].count = obj[o].count
AllSame == /\ byId' = byId /\ held' = held /\ \A o \in Objs : SameObj(o)

Quietly(w) == LET o == op[w].kid IN
  /\ op[w].pc \in {"wait", "remove", "name", "save", "tell"} /\ AllSame
  /\ op'[w].pc = "unchild" => Cardinality(obj[o].parents) = 1
  /\ op'[w].pc = "remove" => ev[o] = "free"
  /\ op[w].pc \in {"wait", "remove"} /\ op[w].req = "unlink" =>
       op'[w].pc \in {"remove", "detach", "unchild"} \/ IdOf(o) \in odd'

Counts(w) == LET o == op[w].kid IN
  /\ op[w].pc \in {"found", "assert"} /\ op'[w] = Idle
  /\ byId' = byId /\ held'[o] = held[o] + 1
  /\ \/ obj'[o].count = obj[o].count + 1
     \/ op[w].pc = "assert" /\ ~IsFolder(o) /\ obj'[o].count = obj[o].count
  /\ \A q \in Objs : /\ Kept(q) /\ obj'[q].children = obj[q].children
                     /\ q # o => SameObj(q) /\ held'[q] = held[q]

Inserts(w) == LET o == op[w].kid IN
  /\ op[w].pc = "insert" /\ op'[w].pc = "addChild"
  /\ held' = held /\ byId' = [byId EXCEPT ![IdOf(o)] = o]
  /\ obj'[o].known /\ obj'[o].count = 0 /\ obj'[o].parents = {} /\ obj'[o].children = {}
  /\ ~obj'[o].trashed
  /\ \A q \in Objs \ {o} : SameObj(q)

Adds(p, c) ==
  /\ byId' = byId /\ held' = held
  /\ \A q \in Objs : /\ Kept(q) /\ obj'[q].count = obj[q].count
                     /\ q # p => obj'[q].children = obj[q].children
  /\ \/ obj[c].trashed /\ obj'[p].children = obj[p].children
     \/ ~obj[c].trashed /\ obj'[p].children = obj[p].children \cup {c}

Loses(p, c) ==
  /\ byId' = byId /\ held' = held
  /\ \A q \in Objs : /\ Kept(q) /\ obj'[q].count = obj[q].count
                     /\ q # p => obj'[q].children = obj[q].children
  /\ obj'[p].children = obj[p].children \ {c}

Parented(c, ps) ==
  /\ byId' = byId /\ held' = held /\ obj'[c].parents = ps
  /\ \A q \in Objs : /\ obj'[q].known = obj[q].known /\ obj'[q].trashed = obj[q].trashed
                     /\ obj'[q].children = obj[q].children /\ obj'[q].count = obj[q].count
                     /\ q # c => obj'[q].parents = obj[q].parents

Trashes(c) ==
  /\ held' = held /\ Uncounted(c) \subseteq odd'
  /\ \A q \in Objs : /\ obj'[q].parents = obj[q].parents /\ obj'[q].count = obj[q].count
                     /\ obj'[q].children = obj[q].children
                     /\ q # c => SameObj(q)
  /\ obj'[c].trashed /\ (obj'[c].known <=> obj[c].known /\ obj[c].count # 0)
  /\ \A id \in Ids : \/ byId'[id] = byId[id] /\ (id # IdOf(c) \/ obj[c].count # 0)
                     \/ byId'[id] = NoObj /\ id = IdOf(c)

Does(w) == LET o == op[w].kid IN
  \/ Quietly(w)
  \/ Counts(w)
  \/ Inserts(w)
  \/ op[w].pc = "addChild" /\ op'[w].pc = "addParent" /\ Adds(op[w].dir, o)
  \/ op[w].pc = "addParent" /\ op'[w].pc = "assert" /\ Parented(o, obj[o].parents \cup {op[w].dir}) /\ ev[o] = "free"
  \/ op[w].pc \in {"drop", "mark"} /\ ~IsFolder(o) /\ Trashes(o)
  \/ op[w].pc = "orphan" /\ ~IsFolder(o) /\ Parented(o, obj[o].parents \ {op[w].dir})
  \/ op[w].pc \in {"off", "unchild", "take"} /\ Loses(op[w].dir, o) /\ (op[w].pc = "off" => ~IsFolder(o))
  \/ op[w].pc = "give" /\ Adds(op[w].to, o)

LEMMA SameFacts ==
  ASSUME UNCHANGED <<obj, byId, held>>
  PROVE  AllSame
BY DEF AllSame, SameObj, Kept

LEMMA StepDoes ==
  ASSUME TypeInv, OpInv, NEW w \in Workers, Step(w)
  PROVE  feed' = feed /\ odd \subseteq odd' /\ op[w].kid \in Objs /\ Does(w)
<1> DEFINE o == op[w].kid
           d == op[w].dir
<1>0. /\ op[w] \in OpType /\ OpOK(w, op[w]) /\ op[w].pc # "idle" /\ op' \in [Workers -> OpType]
      /\ Flow(op[w], op'[w])
  BY StepFlow DEF TypeInv, OpInv
<1>o. o \in Objs /\ d \in Dirs /\ d \in Objs
  BY <1>0, ObjFacts DEF OpOK
<1>t. obj[o] \in ObjType /\ obj[d] \in ObjType
  BY <1>o DEF TypeInv
<1>f. feed' = feed
  BY DEF Step, LookupReply, Insert, AddChild, AddParent, MakeReply, Drop, RemoveParent,
         Wait, Delete, DeleteRefused, RemoveChild, Finish, Detach, Take, Give, SetName, Save,
         Tell, TellRefused
<1>d. odd \subseteq odd'
  BY DEF Step, LookupReply, Insert, AddChild, AddParent, MakeReply, Drop, RemoveParent,
         Wait, Delete, DeleteRefused, RemoveChild, Finish, Detach, Take, Give, SetName, Save,
         Tell, TellRefused, AddsChild, ghost
<1>1. CASE Wait(w) \/ DeleteRefused(w) \/ Detach(w) \/ Save(w) \/ Tell(w) \/ TellRefused(w)
  <2>1. op[w].pc \in {"wait", "remove", "save", "tell"} /\ UNCHANGED <<obj, byId, held>>
    BY <1>1 DEF Wait, DeleteRefused, Detach, Save, Tell, TellRefused, local
  <2>2. /\ op'[w].pc # "unchild"
        /\ op'[w].pc = "remove" => ev[o] = "free"
        /\ op[w].pc \in {"wait", "remove"} /\ op[w].req = "unlink" =>
             op'[w].pc \in {"remove", "detach", "unchild"} \/ IdOf(o) \in odd'
    <3>1. "mark" \in Steps /\ "remove" \in Steps /\ "detach" \in Steps /\ Idle.pc = "idle"
      BY DEF Steps, Idle
    <3>2. CASE Wait(w)
      BY <3>1, <3>2, GoFacts, DoneFacts DEF Wait
    <3>3. CASE DeleteRefused(w)
      BY <3>1, <3>3, GoFacts, DoneFacts DEF DeleteRefused
    <3>4. CASE Detach(w)
      BY <3>1, <3>4, GoFacts DEF Detach
    <3>5. CASE Tell(w) \/ TellRefused(w)
      BY <3>1, <3>5, DoneFacts DEF Tell, TellRefused
    <3>6. CASE Save(w)
      BY <3>1, <3>6, SaveFacts DEF Save
    <3> QED BY <1>1, <3>2, <3>3, <3>4, <3>5, <3>6
  <2> QED BY <1>f, <1>d, <1>o, <2>1, <2>2, SameFacts DEF Does, Quietly
<1>2. CASE Delete(w)
  <2>1. op[w].pc = "remove" /\ UNCHANGED <<obj, byId, held>> /\ Cardinality(obj[o].parents) = 1
    BY <1>2 DEF Delete, local
  <2>2. op'[w].pc = "unchild"
    BY <1>2, GoFacts DEF Delete, Steps
  <2> QED BY <1>f, <1>d, <1>o, <2>1, <2>2, SameFacts DEF Does, Quietly
<1>3. CASE SetName(w)
  <2>1. op[w].pc = "name" /\ obj' = [obj EXCEPT ![o].name = op[w].name] /\ op[w].name \in Names
    BY <1>3, <1>0 DEF SetName, OpType
  <2>2. AllSame
    BY <1>3, <1>o, <2>1, NameFacts DEF SetName, AllSame, SameObj, Kept
  <2>3. op'[w].pc \notin {"unchild", "remove"}
    BY <1>0, <2>1 DEF Flow, Idle
  <2> QED BY <1>f, <1>d, <1>o, <2>1, <2>2, <2>3 DEF Does, Quietly
<1>4. CASE LookupReply(w)
  <2>1. /\ op[w].pc = "found" /\ obj' = [obj EXCEPT ![o].count = obj[o].count + 1]
        /\ held' = [held EXCEPT ![o] = held[o] + 1] /\ byId' = byId /\ op'[w] = Idle
    BY <1>4, DoneFacts DEF LookupReply
  <2>2. obj[o].count + 1 \in Int
    BY <1>t DEF ObjType
  <2>3. Counts(w)
    BY <1>o, <2>1, <2>2, CountFacts DEF Counts, Kept, SameObj, TypeInv
  <2> QED BY <1>f, <1>d, <1>o, <2>3 DEF Does
<1>5. CASE MakeReply(w)
  <2> DEFINE n == IF op[w].req = "mkdir" THEN obj[o].count + 1 ELSE obj[o].count
  <2>1. /\ op[w].pc = "assert" /\ obj' = [obj EXCEPT ![o].count = n]
        /\ held' = [held EXCEPT ![o] = held[o] + 1] /\ byId' = byId /\ op'[w] = Idle
    BY <1>5, DoneFacts DEF MakeReply
  <2>2. n \in Int /\ (n = obj[o].count + 1 \/ (n = obj[o].count /\ ~IsFolder(o)))
    BY <1>0, <1>t, <2>1 DEF ObjType, OpOK, Making
  <2> HIDE DEF n
  <2>3. /\ obj'[o].count = n
        /\ \A q \in Objs : /\ Kept(q) /\ obj'[q].children = obj[q].children
                           /\ q # o => obj'[q].count = obj[q].count
    BY <1>o, <2>1, <2>2, CountFacts DEF Kept
  <2>4. held'[o] = held[o] + 1 /\ \A q \in Objs : q # o => held'[q] = held[q]
    BY <1>o, <2>1 DEF TypeInv
  <2>5. Counts(w)
    BY <2>1, <2>2, <2>3, <2>4 DEF Counts, SameObj
  <2> QED BY <1>f, <1>d, <1>o, <2>5 DEF Does
<1>6. CASE Insert(w)
  <2> DEFINE b == op[w].req = "mkdir"
             r == [NoObject EXCEPT !.known = TRUE, !.name = op[w].name, !.uploaded = b]
  <2>1. /\ op[w].pc = "insert" /\ obj' = [obj EXCEPT ![o] = r] /\ held' = held
        /\ byId' = [byId EXCEPT ![IdOf(o)] = o] /\ Go(w, "addChild")
    BY <1>6 DEF Insert
  <2>2. op'[w].pc = "addChild"
    BY <2>1, GoFacts DEF Steps
  <2> HIDE DEF b
  <2>3. r.known /\ r.count = 0 /\ r.parents = {} /\ r.children = {} /\ ~r.trashed
    BY DEF NoObject
  <2> HIDE DEF r
  <2>4. Inserts(w)
    BY <1>o, <2>1, <2>2, <2>3 DEF Inserts, SameObj, Kept, TypeInv
  <2> QED BY <1>f, <1>d, <1>o, <2>4 DEF Does
<1>7. CASE AddChild(w)
  <2>1. op[w].pc = "addChild" /\ op'[w].pc = "addParent"
    BY <1>7, GoFacts DEF AddChild, Steps
  <2>2. Adds(d, o)
    BY <1>7, <1>o, AddsFacts DEF AddChild, Adds, Kept
  <2> QED BY <1>f, <1>d, <1>o, <2>1, <2>2 DEF Does
<1>8. CASE AddParent(w)
  <2>1. op[w].pc = "addParent" /\ op'[w].pc = "assert" /\ ev[o] = "free"
    BY <1>8, GoFacts DEF AddParent, Steps
  <2>2. obj[o].parents \cup {d} \in SUBSET Dirs
    BY <1>o, <1>t DEF ObjType
  <2> DEFINE S == obj[o].parents \cup {d}
  <2>4. obj' = [obj EXCEPT ![o].parents = S] /\ byId' = byId /\ held' = held
    BY <1>8 DEF AddParent
  <2>3. Parented(o, S)
    <3> HIDE DEF S
    <3>1. obj'[o].parents = S
      BY <1>o, <2>4 DEF TypeInv, ObjType
    <3> QED BY <1>o, <2>2, <2>4, <3>1, ParentsFacts DEF Parented, S
  <2> QED BY <1>f, <1>d, <1>o, <2>1, <2>3 DEF Does
<1>9. CASE Drop(w) \/ Finish(w)
  <2>1. /\ op[w].pc \in {"drop", "mark"} /\ obj' = Trashed(o) /\ byId' = Erased(o)
        /\ odd' = odd \cup Uncounted(o) /\ held' = held
    BY <1>9 DEF Drop, Finish
  <2>2. ~IsFolder(o)
    BY <1>0, <2>1 DEF OpOK
  <2>3. Trashes(o)
    <3>1. \A q \in Objs : q # o => SameObj(q)
      BY <1>o, <2>1, TrashFacts DEF SameObj, Kept
    <3> QED BY <1>o, <2>1, <3>1, TrashFacts DEF Trashes
  <2> QED BY <1>f, <1>d, <1>o, <2>1, <2>2, <2>3 DEF Does
<1>10. CASE RemoveParent(w)
  <2>1. op[w].pc = "orphan"
    BY <1>10, NamespaceAssumption DEF RemoveParent, OpInv, Keeping
  <2>2. obj[o].parents \ {d} \in SUBSET Dirs
    BY <1>t DEF ObjType
  <2> DEFINE S == obj[o].parents \ {d}
  <2>5. obj' = [obj EXCEPT ![o].parents = S] /\ byId' = byId /\ held' = held
    BY <1>10 DEF RemoveParent
  <2>3. Parented(o, S)
    <3> HIDE DEF S
    <3>1. obj'[o].parents = S
      BY <1>o, <2>5 DEF TypeInv, ObjType
    <3> QED BY <1>o, <2>2, <2>5, <3>1, ParentsFacts DEF Parented, S
  <2>4. ~IsFolder(o)
    BY <1>0, <2>1 DEF OpOK
  <2> QED BY <1>f, <1>d, <1>o, <2>1, <2>3, <2>4 DEF Does
<1>11. CASE RemoveChild(w) \/ Take(w)
  <2>1. op[w].pc \in {"off", "unchild", "take"}
    BY <1>11 DEF RemoveChild, Take
  <2>2. obj[d].children \ {o} \in SUBSET Objs
    BY <1>t DEF ObjType
  <2> DEFINE S == obj[d].children \ {o}
  <2>5. obj' = [obj EXCEPT ![d].children = S] /\ byId' = byId /\ held' = held
    BY <1>11 DEF RemoveChild, Take
  <2>3. Loses(d, o)
    <3> HIDE DEF S
    <3>1. obj'[d].children = S
      BY <1>o, <1>t, <2>5 DEF TypeInv, ObjType
    <3>2. S \in SUBSET Objs
      BY <2>2 DEF S
    <3>3. \A q \in Objs : Kept(q) /\ obj'[q].count = obj[q].count
                          /\ (q # d => obj'[q].children = obj[q].children)
      BY <1>o, <2>5, <3>2, ChildrenFacts DEF Kept
    <3> QED BY <2>5, <3>1, <3>3 DEF Loses, S
  <2>4. op[w].pc = "off" => ~IsFolder(o)
    BY <1>0 DEF OpOK
  <2> QED BY <1>f, <1>d, <1>o, <2>1, <2>3, <2>4 DEF Does
<1>12. CASE Give(w)
  <2>1. op[w].pc = "give" /\ op[w].to \in Dirs
    BY <1>12, <1>0 DEF Give, OpOK
  <2>2. Adds(op[w].to, o)
    BY <1>12, <1>o, <2>1, AddsFacts DEF Give, Adds, Kept
  <2> QED BY <1>f, <1>d, <1>o, <2>1, <2>2 DEF Does
<1> QED BY <1>1, <1>2, <1>3, <1>4, <1>5, <1>6, <1>7, <1>8, <1>9, <1>10, <1>11, <1>12 DEF Step

(* What a request begins with.                                             *)
Looks(r) == /\ r.pc = "found" /\ r.dir \in Objs /\ r.kid \in obj[r.dir].children
            /\ r.req = "lookup"
            /\ ~obj[r.kid].trashed /\ Exclusive({r.dir}) /\ AllSame /\ odd' = odd
Makers(r) == /\ r.pc = "insert" /\ r.kid \in Objs /\ Fresh(IdOf(r.kid))
             /\ AllSame /\ odd' = odd
             /\ IsFolder(r.kid) => srv'[IdOf(r.kid)].st # "none"
             /\ r.kid = First(IdOf(r.kid))
Removes(r) == /\ r.pc \in {"wait", "drop"} /\ r.dir \in Objs
              /\ r.kid \in obj[r.dir].children /\ odd \subseteq odd'
              /\ Exclusive({r.dir, r.kid})
              /\ r.pc = "drop" => IdOf(r.kid) \in odd'
              /\ \/ r.pc = "wait" /\ r.req = "rmdir" /\ AllSame
                 \/ /\ r.req = "unlink" /\ ~IsFolder(r.kid) /\ Loses(r.dir, r.kid)
                    /\ r.pc = "wait" => obj[r.kid].uploaded
Renames(r) == /\ r.pc \in {"name", "take"} /\ r.dir \in Objs /\ held[r.kid] > 0
              /\ r.req = "rename" /\ Exclusive({r.dir, r.kid})
              /\ r.kid \in obj[r.dir].children /\ odd \subseteq odd'
              /\ r.pc = "take" /\ Underway(IdOf(r.kid)) => IdOf(r.kid) \in odd'
              /\ AllSame \/ (\E o \in Objs : IdOf(o) \in odd' /\ Trashes(o))

LEMMA StartDoes ==
  ASSUME TypeInv, NEW w \in Workers, Starts(w)
  PROVE  /\ feed' = feed /\ held' = held
         /\ \E r \in OpType : Begins(w, r) /\ (Looks(r) \/ Makers(r) \/ Removes(r) \/ Renames(r))
<1>0. feed' = feed /\ held' = held
  BY StartKeeps
<1>1. PICK dir \in Objs :
        /\ Enters(w, dir) /\ Request
        /\ \/ \E c \in obj[dir].children :
                \/ Lookup(w, dir, c) \/ Unlink(w, dir, c) \/ Rmdir(w, dir, c)
                \/ \E to \in Objs, name \in Names : Rename(w, dir, c, to, name)
           \/ \E id \in Ids, name \in Names : Create(w, dir, id, name) \/ Mkdir(w, dir, id, name)
  BY DEF Starts
<1> DEFINE Goal == \E r \in OpType : Begins(w, r) /\ (Looks(r) \/ Makers(r) \/ Removes(r) \/ Renames(r))
<1>c. \A c \in obj[dir].children : c \in Objs
  BY DEF TypeInv, ObjType
<1>2. ASSUME NEW c \in obj[dir].children, Lookup(w, dir, c)
      PROVE  Goal
  <2>1. PICK r \in OpType : /\ Begins(w, r) /\ r.pc = "found" /\ r.kid = c /\ r.dir = dir
                            /\ r.req = "lookup"
    BY <1>1, <1>2, LookupBegins
  <2>2. Looks(r)
    BY <1>2, <2>1, SameFacts DEF Lookup, Looks, local
  <2> QED BY <2>1, <2>2
<1>3. ASSUME NEW c \in obj[dir].children, Unlink(w, dir, c) \/ Rmdir(w, dir, c)
      PROVE  Goal
  <2>1. PICK r \in OpType : /\ Begins(w, r) /\ r.pc \in {"wait", "drop"} /\ r.kid = c
                            /\ r.dir = dir /\ r.req \in {"unlink", "rmdir"}
                            /\ Unlink(w, dir, c) => r.req = "unlink"
                            /\ Unlink(w, dir, c) /\ ~obj[c].uploaded => r.pc = "drop"
                            /\ r.pc = "drop" => Unlink(w, dir, c) /\ ~obj[c].uploaded
    BY <1>1, <1>3, UnlinkBegins
  <2>2. CASE Rmdir(w, dir, c)
    <3>1. AllSame /\ odd' = odd /\ Exclusive({dir, c}) /\ IsFolder(c)
      BY <2>2, SameFacts DEF Rmdir, local
    <3>2. r.pc = "wait" /\ r.req = "rmdir"
      BY <2>1, <3>1 DEF Begins, OpOK, Unlink
    <3> QED BY <2>1, <3>1, <3>2 DEF Removes
  <2>3. CASE Unlink(w, dir, c)
    <3> DEFINE S == obj[dir].children \ {c}
    <3>1. /\ obj' = [obj EXCEPT ![dir].children = S] /\ byId' = byId /\ held' = held
          /\ ~IsFolder(c) /\ odd \subseteq odd' /\ Exclusive({dir, c})
          /\ ~obj[c].uploaded => IdOf(c) \in odd'
      BY <2>3 DEF Unlink
    <3>2. S \in SUBSET Objs
      BY <1>c
    <3>3. Loses(dir, c)
      <4> HIDE DEF S
      <4>1. obj'[dir].children = S
        BY <3>1 DEF TypeInv, ObjType
      <4>2. \A q \in Objs : Kept(q) /\ obj'[q].count = obj[q].count
                            /\ (q # dir => obj'[q].children = obj[q].children)
        BY <3>1, <3>2, ChildrenFacts DEF Kept
      <4> QED BY <3>1, <4>1, <4>2 DEF Loses, S
    <3> QED BY <2>1, <2>3, <3>1, <3>3 DEF Removes
  <2> QED BY <1>3, <2>2, <2>3
<1>4. ASSUME NEW c \in obj[dir].children, NEW to \in Objs, NEW name \in Names,
             Rename(w, dir, c, to, name)
      PROVE  Goal
  <2>e. Exclusive({dir, c})
    BY <1>4 DEF Rename, Exclusive
  <2>1. PICK r \in OpType : /\ Begins(w, r) /\ r.kid = c /\ r.dir = dir /\ r.req = "rename"
                            /\ r.pc = IF to = dir THEN "name" ELSE "take"
    BY <1>1, <1>4, RenameBegins
  <2>2. CASE to = dir
    <3>1. AllSame /\ odd' = odd /\ held[c] > 0
      BY <1>4, <2>2, SameFacts DEF Rename, local
    <3> QED BY <2>e, <2>1, <2>2, <3>1 DEF Renames
  <2>3. CASE to # dir
    <3>1. held[c] > 0 /\ odd \subseteq odd' /\ (Underway(IdOf(c)) => IdOf(c) \in odd')
      BY <1>4, <2>3 DEF Rename
    <3>2. \/ UNCHANGED local /\ held' = held
          \/ \E o \in Named(to, obj[c].name) : /\ obj' = Trashed(o) /\ byId' = Erased(o)
                                               /\ IdOf(o) \in odd'
      BY <1>0, <1>4, <2>3 DEF Rename
    <3>3. CASE UNCHANGED local /\ held' = held
      BY <2>e, <2>1, <2>3, <3>1, <3>3, SameFacts DEF Renames, local
    <3>4. ASSUME NEW o \in Named(to, obj[c].name), obj' = Trashed(o), byId' = Erased(o),
                 IdOf(o) \in odd'
          PROVE  Renames(r)
      <4>1. o \in Objs
        BY DEF Named, TypeInv, ObjType
      <4>2. \A q \in Objs : q # o => SameObj(q)
        BY <3>4, <4>1, TrashFacts DEF SameObj, Kept
      <4>3. Uncounted(o) \subseteq odd'
        BY <3>4 DEF Uncounted
      <4>4. Trashes(o)
        BY <1>0, <3>4, <4>1, <4>2, <4>3, TrashFacts DEF Trashes
      <4> QED BY <2>e, <2>1, <2>3, <3>1, <3>4, <4>1, <4>4 DEF Renames
    <3> QED BY <2>1, <3>2, <3>3, <3>4
  <2> QED BY <2>2, <2>3
<1>5. ASSUME NEW id \in Ids, NEW name \in Names,
             Create(w, dir, id, name) \/ Mkdir(w, dir, id, name)
      PROVE  Goal
  <2>1. PICK r \in OpType : Begins(w, r) /\ r.pc = "insert" /\ r.kid = First(id)
                            /\ r.dir = dir
    BY <1>1, <1>5, MakeBegins
  <2>2. Fresh(id) /\ AllSame /\ odd' = odd
    BY <1>5, SameFacts DEF Create, Mkdir, local
  <2>4. id \in Folders => srv'[id].st # "none"
    BY <1>5, NamespaceAssumption DEF Create, Mkdir, Stores, TypeInv
  <2>3. Makers(r)
    BY <2>1, <2>2, <2>4, ObjFacts DEF Makers, IsFolder, First
  <2> QED BY <2>1, <2>3
<1>6. Goal
  <2> HIDE DEF Goal
  <2> QED BY <1>1, <1>2, <1>3, <1>4, <1>5
<1> QED BY <1>0, <1>6

-----------------------------------------------------------------------------
(* What background_update does to the objects.                             *)

GoesOn(pcs) ==
  \/ feed' = NoChange
  \/ feed'.pc \in pcs /\ feed'.kid = feed.kid /\ feed'.id = feed.id

Fetches(id) ==
  /\ feed.pc = "idle" /\ id \in news /\ AllSame
  /\ feed'.pc = "apply" /\ feed'.id = id /\ feed'.kid = NoObj /\ feed'.file = srv[id]
  /\ srv' = srv
  /\ \A w \in Workers : IdOf(op[w].kid) = id
       /\ (op[w].pc \in {"insert", "addChild", "addParent"} \/ Carried(w)) => id \in odd'

Knows ==
  /\ feed.pc = "apply" /\ Known \in Objs /\ IdOf(Known) = feed.id
  /\ byId' = byId /\ held' = held /\ \A o \in Objs : o # Known => SameObj(o)
  /\ obj'[Known].known = obj[Known].known /\ obj'[Known].parents = obj[Known].parents
  /\ obj'[Known].children = obj[Known].children /\ obj'[Known].count = obj[Known].count
  /\ feed'.pc = "remove" /\ feed'.kid = Known /\ feed'.id = feed.id
  /\ \A p \in feed'.todo : p \notin obj[Known].parents

FindsNew(o) ==
  /\ feed.pc = "apply" /\ IdOf(o) = feed.id /\ Unused(o) /\ held' = held
  /\ Known = NoObj /\ feed.file.st # "gone"
  /\ byId' = [byId EXCEPT ![feed.id] = o] /\ \A q \in Objs \ {o} : SameObj(q)
  /\ obj'[o].known /\ obj'[o].count = 0
  /\ obj'[o].parents = {} /\ obj'[o].children = {}
  /\ \/ feed' = NoChange
     \/ feed'.pc = "add" /\ feed'.kid = o /\ feed'.id = feed.id

FeedDoes ==
  \/ \E id \in Ids : Fetches(id)
  \/ feed.pc = "apply" /\ AllSame /\ feed' = NoChange
  \/ /\ feed.pc = "apply" /\ Known \in Objs /\ IdOf(Known) = feed.id /\ Trashes(Known)
     /\ feed.file.st = "gone"
     /\ \/ feed' = NoChange
        \/ feed'.pc = "leave" /\ feed'.kid = Known /\ feed'.id = feed.id
  \/ Knows
  \/ \E o \in Objs : FindsNew(o)
  \/ feed.pc = "leave" /\ GoesOn({"leave"}) /\ \E p \in Objs : Loses(p, feed.kid)
  \/ /\ feed.pc = "remove" /\ feed'.pc = "removeParent" /\ GoesOn({"removeParent"})
     /\ feed'.todo = feed.todo /\ feed'.at \in feed.todo /\ \E p \in Objs : Loses(p, feed.kid)
  \/ /\ feed.pc = "removeParent" /\ GoesOn({"remove"}) /\ feed'.pc # "removeParent"
     /\ feed'.todo \subseteq feed.todo
     /\ Parented(feed.kid, obj[feed.kid].parents \ {feed.at}) /\ ev[feed.kid] = "free"
  \/ /\ feed.pc = "remove" /\ AllSame /\ GoesOn({"add"})
     /\ \A p \in feed'.todo : p \notin obj[feed.kid].parents
  \/ /\ feed.pc = "add" /\ feed'.pc = "addParent" /\ GoesOn({"addParent"})
     /\ feed'.at \in feed.todo /\ feed'.todo = feed.todo
     /\ feed'.at \in Objs /\ Adds(feed'.at, feed.kid)
  \/ /\ feed.pc = "addParent" /\ GoesOn({"add"}) /\ ev[feed.kid] = "free"
     /\ feed'.pc # "addParent" /\ feed'.todo \subseteq feed.todo \ {feed.at}
     /\ Parented(feed.kid, obj[feed.kid].parents \cup {feed.at})

LEMMA FeedStepDoes ==
  ASSUME TypeInv, Feed
  PROVE  /\ op' = op /\ held' = held /\ ev' = ev /\ odd \subseteq odd' /\ used' = used
         /\ FeedDoes
<1>0. feed \in FeedType /\ (feed.pc \in Feeding \cup {"leave"} => feed.kid \in Objs)
  BY DEF TypeInv
<1>i. NoChange.pc = "idle" /\ NoChange.kid = NoObj /\ NoChange.todo = {}
  BY DEF NoChange
<1>d. op' = op /\ held' = held /\ ev' = ev /\ odd \subseteq odd' /\ used' = used
  BY DEF Feed, Fetch, ApplyNothing, ApplyGone, ApplyKnown, ApplyNew, Leave,
         FeedRemoveChild, FeedAddChild, FeedRemoveParent, FeedParents, FeedAddParent,
         AddsChild, ghost
<1> SUFFICES FeedDoes
  BY <1>d
<1>1. ASSUME NEW id \in Ids, Fetch(id)
      PROVE  FeedDoes
  <2>1. Fetches(id)
    <3>1. AllSame
      BY <1>1, SameFacts DEF Fetch, local
    <3>2. /\ feed'.pc = "apply" /\ feed'.id = id /\ feed'.kid = NoObj
          /\ feed'.file = srv[id] /\ srv' = srv
      BY <1>1, <1>i DEF Fetch, NoChange
    <3>3. ASSUME NEW w \in Workers, IdOf(op[w].kid) = id,
                 op[w].pc \in {"insert", "addChild", "addParent"} \/ Carried(w)
          PROVE  id \in odd'
      BY <1>1, <3>3 DEF Fetch
    <3> QED BY <1>1, <3>1, <3>2, <3>3 DEF Fetch, Fetches
  <2> QED BY <2>1 DEF FeedDoes
<1>2. CASE ApplyNothing
  BY <1>2, SameFacts DEF ApplyNothing, local, FeedDoes
<1>3. CASE ApplyGone
  <2>1. Known \in Objs /\ IdOf(Known) = feed.id
    BY <1>0, <1>3 DEF ApplyGone, Known, TypeInv, AnyObj, FeedType
  <2>2. /\ obj' = Trashed(Known) /\ byId' = Erased(Known) /\ odd' = odd \cup Uncounted(Known)
        /\ feed.pc = "apply" /\ feed.file.st = "gone"
    BY <1>3 DEF ApplyGone
  <2>3. feed' = NoChange \/ (feed'.pc = "leave" /\ feed'.kid = Known /\ feed'.id = feed.id)
    <3> HIDE DEF Known
    <3>1. \/ feed' = NoChange
          \/ feed' = [feed EXCEPT !.pc = "leave", !.kid = Known, !.todo = obj[Known].parents]
      BY <1>3 DEF ApplyGone
    <3> QED BY <1>0, <3>1 DEF FeedType
  <2> DEFINE k == Known
  <2> HIDE DEF k
  <2>4. k \in Objs /\ obj' = Trashed(k) /\ byId' = Erased(k)
    BY <2>1, <2>2 DEF k
  <2>5. \A q \in Objs : q # k => SameObj(q)
    BY <2>4, TrashFacts DEF SameObj, Kept
  <2>6. Trashes(k)
    BY <1>d, <2>2, <2>4, <2>5, TrashFacts DEF Trashes, k
  <2> QED BY <2>1, <2>2, <2>3, <2>6 DEF FeedDoes, k
<1>4. CASE ApplyKnown
  <2>1. feed.pc = "apply" /\ byId' = byId
    BY <1>4 DEF ApplyKnown
  <2>2. \A o \in Objs : o # Known => SameObj(o)
    BY <1>4, KnownFacts DEF SameObj, Kept
  <2>3. Knows
    BY <1>4, <1>d, <2>1, <2>2, KnownFacts DEF Knows
  <2> QED BY <2>3 DEF FeedDoes
<1>5. CASE ApplyNew
  <2>1. PICK o \in Objs :
           /\ IdOf(o) = feed.id /\ Unused(o) /\ byId' = [byId EXCEPT ![feed.id] = o]
           /\ obj' \in [Objs -> ObjType] /\ \A q \in Objs \ {o} : obj'[q] = obj[q]
           /\ obj'[o].known /\ obj'[o].count = 0
           /\ obj'[o].parents = {} /\ obj'[o].children = {}
           /\ feed' \in FeedType
           /\ \/ feed' = NoChange
              \/ feed'.pc = "add" /\ feed'.kid = o /\ feed'.id = feed.id
    BY <1>5, NewFacts
  <2>2. feed.pc = "apply" /\ Known = NoObj /\ feed.file.st # "gone"
    BY <1>5 DEF ApplyNew
  <2>3. FindsNew(o)
    BY <1>d, <2>1, <2>2 DEF FindsNew, SameObj, Kept
  <2> QED BY <2>3 DEF FeedDoes
<1>l. ASSUME NEW p \in Objs, feed.kid \in Objs, byId' = byId,
             obj' = [obj EXCEPT ![p].children = @ \ {feed.kid}]
      PROVE  Loses(p, feed.kid)
  <2> DEFINE S == obj[p].children \ {feed.kid}
  <2>1. obj' = [obj EXCEPT ![p].children = S] /\ S \in SUBSET Objs
    BY <1>l DEF TypeInv, ObjType
  <2> HIDE DEF S
  <2>2. obj'[p].children = S
    BY <2>1 DEF TypeInv, ObjType
  <2>3. \A q \in Objs : Kept(q) /\ obj'[q].count = obj[q].count
                        /\ (q # p => obj'[q].children = obj[q].children)
    BY <2>1, ChildrenFacts DEF Kept
  <2> QED BY <1>d, <1>l, <2>2, <2>3 DEF Loses, S
<1>6. ASSUME NEW p \in feed.todo, Leave(p)
      PROVE  FeedDoes
  <2>1. feed.pc = "leave" /\ p \in Objs /\ feed.kid \in Objs /\ feed.todo \ {p} \in SUBSET Dirs
    BY <1>0, <1>6, ObjFacts DEF Leave, FeedType
  <2>2. feed' = Loop("leave", feed.todo \ {p}) /\ Loses(p, feed.kid)
    BY <1>6, <1>l, <2>1 DEF Leave
  <2>3. GoesOn({"leave"})
    BY <2>1, <2>2, LoopFacts DEF GoesOn
  <2> QED BY <2>1, <2>2, <2>3 DEF FeedDoes
<1>7. ASSUME NEW p \in feed.todo, FeedRemoveChild(p)
      PROVE  FeedDoes
  <2>1. feed.pc = "remove" /\ p \in Objs /\ feed.kid \in Objs
    BY <1>0, <1>7, ObjFacts DEF FeedRemoveChild, FeedType, Feeding
  <2>2. Loses(p, feed.kid)
    BY <1>7, <1>l, <2>1 DEF FeedRemoveChild
  <2>3. feed'.pc = "removeParent" /\ feed'.kid = feed.kid /\ feed'.id = feed.id
        /\ feed'.todo = feed.todo /\ feed'.at = p
    BY <1>7, AtFacts DEF FeedRemoveChild
  <2> QED BY <2>1, <2>2, <2>3 DEF FeedDoes, GoesOn
<1>p. ASSUME NEW S \in SUBSET Dirs, feed.kid \in Objs, byId' = byId,
             obj' = [obj EXCEPT ![feed.kid].parents = S]
      PROVE  Parented(feed.kid, S)
  <2>1. obj'[feed.kid].parents = S
    BY <1>p DEF TypeInv, ObjType
  <2> QED BY <1>d, <1>p, <2>1, ParentsFacts DEF Parented
<1>8. CASE FeedRemoveParent
  <2> DEFINE S == obj[feed.kid].parents \ {feed.at}
  <2>1. /\ feed.pc = "removeParent" /\ feed.kid \in Objs /\ ev[feed.kid] = "free"
        /\ feed.todo \ {feed.at} \in SUBSET Dirs /\ S \in SUBSET Dirs
    BY <1>0, <1>8 DEF FeedRemoveParent, TypeInv, FeedType, Feeding, ObjType
  <2>2. /\ feed' = Loop("remove", feed.todo \ {feed.at}) /\ byId' = byId
        /\ obj' = [obj EXCEPT ![feed.kid].parents = S]
    BY <1>8 DEF FeedRemoveParent
  <2>3. Parented(feed.kid, S)
    <3> HIDE DEF S
    <3> QED BY <1>p, <2>1, <2>2
  <2>4. GoesOn({"remove"}) /\ feed'.pc # "removeParent" /\ feed'.todo \subseteq feed.todo
    <3>1. \/ feed' = NoChange
          \/ /\ feed'.pc = "remove" /\ feed'.todo = feed.todo \ {feed.at}
             /\ feed'.id = feed.id /\ feed'.kid = feed.kid
      BY <2>1, <2>2, LoopFacts
    <3> QED BY <1>i, <3>1 DEF GoesOn
  <2> QED BY <2>1, <2>3, <2>4 DEF FeedDoes
<1>9. CASE FeedParents
  <2> DEFINE new == feed.file.parents \ Parents(feed.kid)
  <2>1. new \in SUBSET Folders /\ feed.pc = "remove"
    BY <1>0, <1>9 DEF FeedParents, FeedType, File
  <2>2. feed' = Loop("add", Objects(new)) /\ Objects(new) \in SUBSET Dirs /\ AllSame
    BY <1>9, <2>1, ObjectsFacts, SameFacts DEF FeedParents, local
  <2>4. \A p \in Objects(new) : p \notin obj[feed.kid].parents
    BY <2>1, ObjectsFacts DEF Parents
  <2> HIDE DEF new
  <2>5. feed' = NoChange \/ feed'.todo = Objects(new)
    BY <2>2, LoopFacts
  <2>6. \A p \in feed'.todo : p \notin obj[feed.kid].parents
    BY <1>i, <2>4, <2>5
  <2>3. GoesOn({"add"})
    BY <2>2, LoopFacts DEF GoesOn
  <2> QED BY <2>1, <2>2, <2>3, <2>6 DEF FeedDoes
<1>10. ASSUME NEW p \in feed.todo, FeedAddChild(p)
      PROVE  FeedDoes
  <2>1. feed.pc = "add" /\ p \in Dirs /\ p \in Objs /\ feed.kid \in Objs
    BY <1>0, <1>10, ObjFacts DEF FeedAddChild, FeedType, Feeding
  <2>2. AddsChild(p, feed.kid) /\ byId' = byId
    BY <1>10 DEF FeedAddChild
  <2>3. Adds(p, feed.kid)
    BY <1>d, <2>1, <2>2, AddsFacts DEF Adds, Kept
  <2>4. /\ feed'.pc = "addParent" /\ feed'.kid = feed.kid /\ feed'.id = feed.id /\ feed'.at = p
        /\ feed'.todo = feed.todo
    BY <1>10, AtFacts DEF FeedAddChild
  <2> QED BY <2>1, <2>3, <2>4 DEF FeedDoes, GoesOn
<1>11. CASE FeedAddParent
  <2> DEFINE S == obj[feed.kid].parents \cup {feed.at}
  <2>1. /\ feed.pc = "addParent" /\ feed.kid \in Objs /\ ev[feed.kid] = "free"
        /\ feed.todo \ {feed.at} \in SUBSET Dirs /\ S \in SUBSET Dirs
    BY <1>0, <1>11 DEF FeedAddParent, TypeInv, FeedType, Feeding, ObjType
  <2>2. /\ feed' = Loop("add", feed.todo \ {feed.at}) /\ byId' = byId
        /\ obj' = [obj EXCEPT ![feed.kid].parents = S]
    BY <1>11 DEF FeedAddParent
  <2>3. Parented(feed.kid, S)
    <3> HIDE DEF S
    <3> QED BY <1>p, <2>1, <2>2
  <2>4. GoesOn({"add"}) /\ feed'.pc # "addParent" /\ feed'.todo \subseteq feed.todo \ {feed.at}
    <3>1. \/ feed' = NoChange
          \/ /\ feed'.pc = "add" /\ feed'.todo = feed.todo \ {feed.at}
             /\ feed'.id = feed.id /\ feed'.kid = feed.kid
      BY <2>1, <2>2, LoopFacts
    <3> QED BY <1>i, <3>1 DEF GoesOn
  <2> QED BY <2>1, <2>3, <2>4 DEF FeedDoes
<1> QED BY <1>d, <1>1, <1>2, <1>3, <1>4, <1>5, <1>6, <1>7, <1>8, <1>9, <1>10, <1>11 DEF Feed

-----------------------------------------------------------------------------
(* What forget, the upload and other clients do; and the server.           *)

Forgets(o) ==
  /\ held[o] > 0 /\ o # First(Root) /\ op' = op /\ feed' = feed /\ odd \subseteq odd'
  /\ Exclusive({o})
  /\ held' = [held EXCEPT ![o] = 0] /\ used'.requests = used.requests + 1
  /\ \A q \in Objs : /\ q # o => SameObj(q)
                     /\ obj'[q].trashed = obj[q].trashed /\ obj'[q].parents = obj[q].parents
                     /\ obj'[q].children = obj[q].children
  /\ \/ ~obj[o].known /\ SameObj(o) /\ byId' = byId
     \/ /\ obj[o].known /\ obj'[o].count = obj[o].count - held[o]
        /\ \/ obj'[o].known /\ byId' = byId
           \/ /\ ~obj'[o].known /\ obj[o].parents = {}
              /\ byId' = [byId EXCEPT ![IdOf(o)] = NoObj]
              /\ (\E p \in Objs : o \in obj[p].children) => IdOf(o) \in odd'

LEMMA ForgetDoes ==
  ASSUME TypeInv, NEW o \in Objs, Forget(o)
  PROVE  Forgets(o)
<1>1. /\ held[o] > 0 /\ o # First(Root) /\ op' = op /\ feed' = feed /\ odd \subseteq odd'
      /\ Exclusive({o})
      /\ held' = [held EXCEPT ![o] = 0] /\ used'.requests = used.requests + 1
  BY RequestType DEF Forget
<1>2. CASE ~obj[o].known
  BY <1>1, <1>2 DEF Forget, Forgets, SameObj, Kept, local
<1>3. CASE obj[o].known
  <2> DEFINE left == obj[o].count - held[o]
             ends == left = 0 /\ obj[o].parents = {}
             keep == ~ends
  <2>1. left \in Int /\ keep \in BOOLEAN
    BY DEF TypeInv, ObjType
  <2>2. /\ obj' = [obj EXCEPT ![o].count = left, ![o].known = keep]
        /\ byId' = IF ends THEN [byId EXCEPT ![IdOf(o)] = NoObj] ELSE byId
        /\ (ends /\ \E p \in Objs : o \in obj[p].children) => IdOf(o) \in odd'
    BY <1>1, <1>3 DEF Forget
  <2>3. ends => obj[o].parents = {}
    OBVIOUS
  <2>4. keep = ~ends
    OBVIOUS
  <2> HIDE DEF left, ends, keep
  <2>5. /\ \A q \in Objs : /\ q # o => SameObj(q)
                           /\ obj'[q].trashed = obj[q].trashed
                           /\ obj'[q].parents = obj[q].parents
                           /\ obj'[q].children = obj[q].children
        /\ obj'[o].count = left /\ obj'[o].known = keep
    BY <2>2 DEF TypeInv, ObjType, SameObj, Kept
  <2>6. obj'[o].count = obj[o].count - held[o]
    BY <2>5 DEF left
  <2>7. CASE ends
    <3>1. ~obj'[o].known /\ byId' = [byId EXCEPT ![IdOf(o)] = NoObj] /\ obj[o].parents = {}
      BY <2>2, <2>3, <2>4, <2>5, <2>7
    <3> QED BY <1>1, <1>3, <2>2, <2>5, <2>6, <2>7, <3>1 DEF Forgets
  <2>8. CASE ~ends
    <3>1. obj'[o].known /\ byId' = byId
      BY <2>2, <2>4, <2>5, <2>8
    <3> QED BY <1>1, <1>3, <2>5, <2>6, <3>1 DEF Forgets
  <2> QED BY <2>7, <2>8
<1> QED BY <1>2, <1>3

LEMMA MarkDoes ==
  ASSUME TypeInv, NEW o \in Objs, Store(o) \/ Mark(o)
  PROVE  AllSame /\ op' = op /\ feed' = feed /\ odd' = odd /\ used' = used
<1>1. CASE Store(o)
  BY <1>1, SameFacts DEF Store, local, ghost
<1>2. CASE Mark(o)
  BY <1>2 DEF Mark, ghost, AllSame, SameObj, Kept, TypeInv, ObjType
<1> QED BY <1>1, <1>2

LEMMA OthersDoes ==
  ASSUME TypeInv, Outside
  PROVE  /\ AllSame /\ op' = op /\ feed' = feed /\ odd \subseteq odd'
         /\ used'.requests >= used.requests
<1>1. \A id, file : Change(id, file) =>
        /\ UNCHANGED <<obj, byId, held>> /\ op' = op /\ feed' = feed
        /\ used'.requests = used.requests
  BY DEF Change, local, TypeInv
<1>2. ASSUME NEW id \in Ids, NEW p \in Folders, Move(id, p)
      PROVE  /\ UNCHANGED <<obj, byId, held>> /\ op' = op /\ feed' = feed
             /\ used'.requests = used.requests /\ odd \subseteq odd'
  BY <1>1, <1>2 DEF Move
<1>3. ASSUME NEW id \in Ids, NEW p \in Folders, NEW name \in Names, Appear(id, p, name)
      PROVE  /\ UNCHANGED <<obj, byId, held>> /\ op' = op /\ feed' = feed
             /\ used'.requests = used.requests /\ odd \subseteq odd'
  BY <1>1, <1>3 DEF Appear
<1>4. ASSUME NEW id \in Ids, Bin(id) \/ Remove(id) \/ Restore(id) \/ \E name \in Names : Retitle(id, name)
      PROVE  /\ UNCHANGED <<obj, byId, held>> /\ op' = op /\ feed' = feed
             /\ used'.requests = used.requests /\ odd \subseteq odd'
  BY <1>1, <1>4 DEF Bin, Remove, Restore, Retitle
<1>5. ASSUME NEW id \in Ids, Sweep(id)
      PROVE  /\ UNCHANGED <<obj, byId, held>> /\ op' = op /\ feed' = feed
             /\ used'.requests = used.requests /\ odd \subseteq odd'
  BY <1>5 DEF Sweep, local, ghost
<1>7. CASE Others
  <2>1. /\ UNCHANGED <<obj, byId, held>> /\ op' = op /\ feed' = feed
        /\ used'.requests = used.requests /\ odd \subseteq odd'
    BY <1>2, <1>3, <1>4, <1>5, <1>7 DEF Others
  <2> QED BY <2>1, SameFacts DEF TypeInv
<1>8. CASE Crashes
  <2>1. UNCHANGED <<obj, byId, held>> /\ op' = op /\ feed' = feed /\ odd' = odd /\ Request
    BY <1>8 DEF Crashes, MkdirRefused, local
  <2> QED BY <2>1, RequestType, SameFacts DEF TypeInv
<1> QED BY <1>7, <1>8 DEF Outside

(* A file the server has heard of it never forgets, what is gone is gone,  *)
(* and the feed tells of no other.                                         *)
Asked(id) == \/ id # Root \/ srv[id].st = "none"
             \/ \E w \in Workers : op[w].pc # "idle" /\ IdOf(op[w].kid) = id
Heard == \A id \in Ids : /\ srv[id].st # "none" => srv'[id].st # "none"
                         /\ srv[id].st = "gone" => srv'[id].st = "gone"
                         /\ id \in news' => id \in news \/ (srv'[id].st # "none" /\ Asked(id))

LEMMA CloudDoes ==
  ASSUME TypeInv, OpInv, Next
  PROVE  Heard
<1>1. ASSUME NEW id \in Ids, NEW file, Stores(id, file), file.st # "none", Asked(id),
             srv[id].st = "gone" => file.st = "gone"
      PROVE  Heard
  BY <1>1 DEF Stores, Heard, TypeInv
<1>2. ASSUME UNCHANGED cloud
      PROVE  Heard
  BY <1>2 DEF cloud, Heard
<1>s. \A id \in Ids : srv[id] \in File
  BY DEF TypeInv
<1>p. \A file \in File : /\ \A st : [file EXCEPT !.st = st].st = st
                         /\ \A ps : [file EXCEPT !.parents = ps].st = file.st
                         /\ \A n : [file EXCEPT !.name = n].st = file.st
                         /\ \A n, ps : [file EXCEPT !.name = n, !.parents = ps].st = file.st
  BY DEF File
<1>3. ASSUME NEW w \in Workers, Starts(w)
      PROVE  Heard
  <2>1. PICK dir \in Objs :
        \/ \E c \in obj[dir].children :
             \/ Lookup(w, dir, c) \/ Unlink(w, dir, c) \/ Rmdir(w, dir, c)
             \/ \E to \in Objs, name \in Names : Rename(w, dir, c, to, name)
        \/ \E id \in Ids, name \in Names : Create(w, dir, id, name) \/ Mkdir(w, dir, id, name)
    BY <1>3 DEF Starts
  <2>2. \A c : Lookup(w, dir, c) \/ Unlink(w, dir, c) \/ Rmdir(w, dir, c) => UNCHANGED cloud
    BY DEF Lookup, Unlink, Rmdir
  <2>3. \A c, to, name : Rename(w, dir, c, to, name) => UNCHANGED cloud
    BY DEF Rename
  <2>4. \A id, name : Create(w, dir, id, name) => UNCHANGED cloud
    BY DEF Create
  <2>5. ASSUME NEW id \in Ids, NEW name \in Names, Mkdir(w, dir, id, name)
        PROVE  Heard
    BY <1>1, <2>5 DEF Mkdir, Fresh, Asked
  <2> QED BY <1>2, <2>1, <2>2, <2>3, <2>4, <2>5
<1>4. ASSUME NEW w \in Workers, Step(w)
      PROVE  Heard
  <2> DEFINE o == op[w].kid
             id == IdOf(op[w].kid)
  <2>1. id \in Ids /\ Asked(id)
    BY <1>4, StepDoes, StepFlow, ObjFacts DEF Asked
  <2>2. CASE Delete(w)
    <3>1. CASE srv[id].st \in {"here", "bin"} /\ Stores(id, [srv[id] EXCEPT !.st = "gone"])
      <4> DEFINE file == [srv[id] EXCEPT !.st = "gone"]
      <4>1. Stores(id, file) /\ file.st = "gone"
        BY <1>s, <1>p, <2>1, <3>1
      <4> HIDE DEF file
      <4> QED BY <1>1, <2>1, <4>1
    <3> QED BY <1>2, <2>2, <3>1 DEF Delete
  <2>3. CASE Detach(w)
    <3> DEFINE file == [srv[id] EXCEPT !.parents = srv[id].parents \ {IdOf(op[w].dir)}]
    <3>1. CASE srv[id].st = "here" /\ Stores(id, file)
      <4>1. file.st # "none"
        BY <1>s, <1>p, <2>1, <3>1
      <4> HIDE DEF file
      <4> QED BY <1>1, <2>1, <3>1, <4>1
    <3> QED BY <1>2, <2>3, <3>1 DEF Detach
  <2>4. CASE Tell(w)
    <3> DEFINE ps == IF op[w].to = op[w].dir THEN srv[id].parents
                     ELSE (srv[id].parents \ {IdOf(op[w].dir)}) \cup {IdOf(op[w].to)}
               file == [srv[id] EXCEPT !.name = op[w].name, !.parents = ps]
    <3>1. srv[id].st \in {"here", "bin"} /\ Stores(id, file)
      BY <2>4 DEF Tell
    <3>2. file.st = srv[id].st
      BY <1>s, <1>p, <2>1
    <3> HIDE DEF ps, file
    <3> QED BY <1>1, <2>1, <3>1, <3>2
  <2>5. \/ UNCHANGED cloud \/ Delete(w) \/ Detach(w) \/ Tell(w)
    BY <1>4 DEF Step, LookupReply, Insert, AddChild, AddParent, MakeReply, Drop, RemoveParent,
         Wait, DeleteRefused, RemoveChild, Finish, Take, Give, SetName, Save, TellRefused
  <2> QED BY <1>2, <2>2, <2>3, <2>4, <2>5
<1>5. ASSUME NEW o \in Objs, Forget(o) \/ Store(o) \/ Mark(o)
      PROVE  Heard
  <2>1. CASE Store(o)
    <3>1. IdOf(o) \in Ids
      BY ObjFacts
    <3> QED BY <1>1, <2>1, <3>1 DEF Store, Asked
  <2> QED BY <1>2, <1>5, <2>1 DEF Forget, Mark
<1>6. CASE Outside
  <2>1. ASSUME NEW id \in Ids, NEW p \in Folders, Move(id, p)
        PROVE  Heard
    <3>1. id # Root /\ srv[id].st = "here" /\ Stores(id, [srv[id] EXCEPT !.parents = {p}])
      BY <2>1, NamespaceAssumption DEF Move, Change
    <3> QED BY <1>1, <1>s, <1>p, <3>1 DEF Asked
  <2>2. ASSUME NEW id \in Ids, NEW p \in Folders, NEW name \in Names, Appear(id, p, name)
        PROVE  Heard
    BY <1>1, <2>2 DEF Appear, Change, Fresh, Asked
  <2>3. ASSUME NEW id \in Ids, Bin(id) \/ Remove(id) \/ Sweep(id)
        PROVE  Heard
    BY <1>1, <1>s, <1>p, <2>3 DEF Bin, Remove, Sweep, Change, Asked
  <2>4. ASSUME NEW id \in Ids, Restore(id)
        PROVE  Heard
    BY <1>1, <1>s, <1>p, <2>4 DEF Restore, Change, Asked
  <2>5. ASSUME NEW id \in Ids, NEW name \in Names, Retitle(id, name)
        PROVE  Heard
    BY <1>1, <1>s, <1>p, <2>5 DEF Retitle, Change, Asked
  <2>6. ASSUME NEW dir \in Objs, NEW id \in Ids, NEW name \in Names,
               MkdirRefused(dir, id, name)
        PROVE  Heard
    BY <1>1, <1>2, <2>6 DEF MkdirRefused, Fresh, Asked
  <2>7. CASE Others
    BY <2>1, <2>2, <2>3, <2>4, <2>5, <2>7 DEF Others
  <2>8. CASE Crashes
    BY <2>6, <2>8 DEF Crashes
  <2> QED BY <1>6, <2>7, <2>8 DEF Outside
<1>7. CASE Feed
  <2>1. ASSUME NEW id \in Ids, Fetch(id)
        PROVE  Heard
    BY <2>1 DEF Fetch, Heard
  <2>2. (\E id \in Ids : Fetch(id)) \/ UNCHANGED cloud
    BY <1>7 DEF Feed, ApplyNothing, ApplyGone, ApplyKnown, ApplyNew, Leave,
         FeedRemoveChild, FeedAddChild, FeedRemoveParent, FeedParents, FeedAddParent
  <2> QED BY <1>2, <2>1, <2>2
<1> QED BY <1>3, <1>4, <1>5, <1>6, <1>7 DEF Next, Outside

-----------------------------------------------------------------------------
(* What idToObject names is in inodeToObject.                              *)

MapInv == \A id \in Ids : byId[id] # NoObj => obj[byId[id]].known

LEMMA MapStep ==
  ASSUME TypeInv, OpInv, MapInv, Next
  PROVE  MapInv'
<1>0. \A id \in Ids : byId[id] # NoObj => byId[id] \in Objs /\ IdOf(byId[id]) = id
  BY DEF TypeInv, AnyObj
<1>1. ASSUME NEW c, byId' = byId, \A o \in Objs : obj'[o].known = obj[o].known
      PROVE  MapInv'
  BY <1>0, <1>1 DEF MapInv
<1>s. ASSUME AllSame
      PROVE  MapInv'
  BY <1>1, <1>s DEF AllSame, SameObj, Kept
<1>t. ASSUME NEW c \in Objs, Trashes(c)
      PROVE  MapInv'
  <2> SUFFICES ASSUME NEW id \in Ids, byId'[id] # NoObj
               PROVE  obj'[byId'[id]].known
    BY DEF MapInv
  <2>1. byId'[id] = byId[id] /\ (id # IdOf(c) \/ obj[c].count # 0)
    BY <1>t DEF Trashes
  <2>2. byId[id] \in Objs /\ IdOf(byId[id]) = id /\ obj[byId[id]].known
    BY <1>0, <2>1 DEF MapInv
  <2> QED BY <1>t, <2>1, <2>2 DEF Trashes, SameObj, Kept
<1>n. ASSUME NEW o \in Objs, obj'[o].known, byId' = [byId EXCEPT ![IdOf(o)] = o],
             \A q \in Objs \ {o} : SameObj(q)
      PROVE  MapInv'
  <2> SUFFICES ASSUME NEW id \in Ids, byId'[id] # NoObj, byId'[id] # o
               PROVE  obj'[byId'[id]].known
    BY <1>n DEF MapInv
  <2>1. byId'[id] = byId[id]
    BY <1>n DEF TypeInv
  <2> QED BY <1>0, <1>n, <2>1 DEF MapInv, SameObj, Kept
<1>2. ASSUME NEW w \in Workers, Starts(w)
      PROVE  MapInv'
  <2>1. PICK r \in OpType : Looks(r) \/ Makers(r) \/ Removes(r) \/ Renames(r)
    BY <1>2, StartDoes
  <2> QED BY <1>1, <1>s, <1>t, <2>1 DEF Looks, Makers, Removes, Renames, Loses, Kept
<1>3. ASSUME NEW w \in Workers, Step(w)
      PROVE  MapInv'
  <2>1. Does(w) /\ op[w].kid \in Objs
    BY <1>3, StepDoes
  <2>2. CASE Inserts(w)
    BY <1>n, <2>1, <2>2 DEF Inserts
  <2>3. CASE Trashes(op[w].kid)
    BY <1>t, <2>1, <2>3
  <2>4. CASE ~Inserts(w) /\ ~Trashes(op[w].kid)
    <3>1. byId' = byId /\ \A o \in Objs : obj'[o].known = obj[o].known
      BY <2>1, <2>4 DEF Does, Quietly, AllSame, SameObj, Kept, Counts, Adds, Loses, Parented
    <3> QED BY <1>1, <3>1
  <2> QED BY <2>2, <2>3, <2>4
<1>4. ASSUME NEW o \in Objs, Forget(o)
      PROVE  MapInv'
  <2>1. Forgets(o)
    BY <1>4, ForgetDoes
  <2>2. CASE byId' = byId /\ obj'[o].known = obj[o].known
    BY <1>1, <2>1, <2>2 DEF Forgets, SameObj, Kept
  <2>3. CASE byId' = [byId EXCEPT ![IdOf(o)] = NoObj]
    <3> SUFFICES ASSUME NEW id \in Ids, byId'[id] # NoObj
                 PROVE  obj'[byId'[id]].known
      BY DEF MapInv
    <3>1. byId'[id] = byId[id] /\ id # IdOf(o)
      BY <2>3 DEF TypeInv
    <3> QED BY <1>0, <2>1, <3>1 DEF MapInv, Forgets, SameObj, Kept
  <2> QED BY <2>1, <2>2, <2>3 DEF Forgets, SameObj, Kept
<1>5. ASSUME NEW o \in Objs, Store(o) \/ Mark(o)
      PROVE  MapInv'
  BY <1>5, <1>s, MarkDoes
<1>6. CASE Outside
  BY <1>6, <1>s, OthersDoes
<1>7. CASE Feed
  <2>1. FeedDoes
    BY <1>7, FeedStepDoes
  <2>2. CASE AllSame
    BY <1>s, <2>2
  <2>3. CASE Known \in Objs /\ Trashes(Known)
    BY <1>t, <2>3
  <2>4. CASE \E o \in Objs : FindsNew(o)
    BY <1>n, <2>4 DEF FindsNew
  <2>5. CASE /\ ~AllSame /\ ~(Known \in Objs /\ Trashes(Known))
             /\ ~\E o \in Objs : FindsNew(o)
    <3>1. byId' = byId /\ \A o \in Objs : obj'[o].known = obj[o].known
      BY <2>1, <2>5 DEF FeedDoes, Fetches, Knows, SameObj, Kept, Adds, Loses, Parented
    <3> QED BY <1>1, <3>1
  <2> QED BY <2>2, <2>3, <2>4, <2>5
<1> QED BY <1>2, <1>3, <1>4, <1>5, <1>6, <1>7 DEF Next, Outside

-----------------------------------------------------------------------------
(* The object a thread is about to insert is its own: nothing has seen it. *)

Seen(x) ==
  \/ held[x] > 0 \/ byId[IdOf(x)] = x \/ feed.kid = x
  \/ \E p \in Objs : x \in obj[p].children
  \/ \E w \in Workers : op[w].kid = x /\ op[w].pc # "insert"

MakeInv == \A w \in Workers :
  /\ op[w].pc \in Making =>
       \A v \in Workers : op[v].pc \in Making /\ op[v].kid = op[w].kid => v = w
  /\ op[w].pc = "insert" => ~Seen(op[w].kid)

(* A step that shows no object that is about to be inserted.               *)
LEMMA MakeKeeps ==
  ASSUME TypeInv, OpInv, MakeInv,
         \A v \in Workers : /\ op'[v].pc \in Making => op[v].pc \in Making /\ op'[v].kid = op[v].kid
                            /\ op'[v].pc = "insert" => op[v].pc = "insert",
         \A x \in Objs : Seen(x)' => Seen(x) \/ \A v \in Workers : op'[v].pc = "insert" => op'[v].kid # x
  PROVE  MakeInv'
<1>1. \A w \in Workers : op'[w].pc \in Making =>
        \A v \in Workers : op'[v].pc \in Making /\ op'[v].kid = op'[w].kid => v = w
  BY DEF MakeInv
<1>2. ASSUME NEW w \in Workers, op'[w].pc = "insert"
      PROVE  ~Seen(op[w].kid)'
  <2>1. op[w].pc = "insert" /\ op'[w].kid = op[w].kid /\ op[w].kid \in Objs
    BY <1>2 DEF OpInv, OpOK, Making
  <2> QED BY <1>2, <2>1 DEF MakeInv
<1> QED BY <1>1, <1>2 DEF MakeInv

LEMMA MakeStep ==
  ASSUME TypeInv, OpInv, MakeInv, Next
  PROVE  MakeInv'
<1> DEFINE OpKeeps == \A v \in Workers :
             /\ op'[v].pc \in Making => op[v].pc \in Making /\ op'[v].kid = op[v].kid
             /\ op'[v].pc = "insert" => op[v].pc = "insert"
           Hides(x) == \A v \in Workers : op'[v].pc = "insert" => op'[v].kid # x
           Shows == \A x \in Objs : Seen(x)' => Seen(x) \/ Hides(x)
<1>m. ASSUME OpKeeps, Shows
      PROVE  MakeInv'
  BY <1>m, MakeKeeps
<1>o. op' = op => OpKeeps
  OBVIOUS
<1>0. \A id \in Ids : byId[id] # NoObj => byId[id] \in Objs /\ IdOf(byId[id]) = id
  BY DEF TypeInv, AnyObj
<1>w. \A w \in Workers : op[w].pc # "insert" /\ op[w].kid \in Objs => Seen(op[w].kid)
  BY DEF Seen
<1>u. ASSUME NEW o \in Objs, Unused(o)
      PROVE  ~Seen(o) /\ \A v \in Workers : op[v].kid # o
  BY <1>u DEF Unused, Seen
<1>2. ASSUME NEW w \in Workers, Starts(w)
      PROVE  MakeInv'
  <2>0. feed' = feed /\ held' = held
    BY <1>2, StartDoes
  <2>1. PICK r \in OpType : Begins(w, r) /\ (Looks(r) \/ Makers(r) \/ Removes(r) \/ Renames(r))
    BY <1>2, StartDoes
  <2>2. op[w].pc = "idle" /\ op'[w] = r /\ \A v \in Workers \ {w} : op'[v] = op[v]
    BY <2>1, SetFacts DEF Begins
  <2>3. /\ \A id \in Ids : byId'[id] \in {byId[id], NoObj}
        /\ \A p \in Objs : obj'[p].children \subseteq obj[p].children
    BY <2>1 DEF Looks, Makers, Removes, Renames, AllSame, SameObj, Loses, Trashes
  <2>4. CASE ~Makers(r)
    <3>1. r.kid \in Objs /\ r.pc \notin Making /\ \E p \in Objs : r.kid \in obj[p].children
      BY <2>1, <2>4 DEF Looks, Removes, Renames, Making, TypeInv, ObjType
    <3>2. OpKeeps
      BY <2>2, <3>1 DEF Making
    <3>3. Shows
      BY <2>0, <2>2, <2>3, <3>1, ObjFacts DEF Seen
    <3> QED BY <1>m, <3>2, <3>3
  <2>5. CASE Makers(r)
    <3>1. r.pc = "insert" /\ r.kid \in Objs /\ Unused(r.kid)
      BY <2>5, ObjFacts DEF Makers, Fresh
    <3>2. ~Seen(r.kid) /\ \A v \in Workers : op[v].kid # r.kid
      BY <3>1, <1>u
    <3>3. \A x \in Objs : Seen(x)' => Seen(x)
      BY <2>0, <2>2, <2>3, <3>1, ObjFacts DEF Seen
    <3>4. ASSUME NEW v \in Workers, op'[v].pc \in Making,
                 NEW u \in Workers, op'[u].pc \in Making, op'[u].kid = op'[v].kid
          PROVE  u = v
      BY <2>2, <3>2, <3>4 DEF MakeInv
    <3>5. ASSUME NEW v \in Workers, op'[v].pc = "insert"
          PROVE  ~Seen(op[v].kid)'
      <4>1. CASE v = w
        BY <2>2, <3>1, <3>2, <3>3, <4>1
      <4>2. CASE v # w
        <5>1. op'[v] = op[v] /\ op[v].pc = "insert" /\ op[v].kid \in Objs
          BY <2>2, <3>5, <4>2 DEF OpInv, OpOK
        <5> QED BY <3>3, <5>1 DEF MakeInv
      <4> QED BY <4>1, <4>2
    <3> QED BY <3>4, <3>5 DEF MakeInv
  <2> QED BY <2>4, <2>5
<1>3. ASSUME NEW w \in Workers, Step(w)
      PROVE  MakeInv'
  <2> DEFINE o == op[w].kid
  <2>1. Does(w) /\ o \in Objs /\ feed' = feed
    BY <1>3, StepDoes
  <2>2. Flow(op[w], op'[w]) /\ \A v \in Workers \ {w} : op'[v] = op[v]
    BY <1>3, StepFlow
  <2>3. OpKeeps /\ op'[w].pc # "insert" /\ op'[w].kid \in {o, NoObj}
    BY <2>2 DEF Flow, Idle, Making
  <2>4. Hides(o)
    <3> SUFFICES ASSUME NEW v \in Workers, op'[v].pc = "insert", op'[v].kid = o
                 PROVE  FALSE
      OBVIOUS
    <3>1. v # w /\ op[v].pc = "insert" /\ op[v].kid = o /\ ~Seen(o)
      BY <2>2, <2>3 DEF MakeInv
    <3>2. op[w].pc = "insert"
      BY <2>1, <3>1, <1>w
    <3> QED BY <3>1, <3>2 DEF MakeInv, Making
  <2>5. /\ \A id \in Ids : byId'[id] \in {byId[id], NoObj, o}
        /\ \A p \in Objs : obj'[p].children \subseteq obj[p].children \cup {o}
        /\ \A q \in Objs : held'[q] = held[q] \/ q = o
    <3>1. CASE Inserts(w)
      BY <2>1, <3>1 DEF Inserts, SameObj, TypeInv
    <3>2. CASE Adds(op[w].dir, o) \/ Adds(op[w].to, o) \/ Loses(op[w].dir, o)
      BY <3>2 DEF Adds, Loses
    <3>3. CASE \/ Quietly(w) \/ Counts(w) \/ Trashes(o)
               \/ \E ps : Parented(o, ps)
      BY <3>3 DEF Quietly, AllSame, SameObj, Counts, Trashes, Parented
    <3> QED BY <2>1, <3>1, <3>2, <3>3 DEF Does
  <2>6. Shows
    <3> SUFFICES ASSUME NEW x \in Objs, Seen(x)', x # o
                 PROVE  Seen(x)
      BY <2>4
    <3>1. x # NoObj
      BY ObjFacts
    <3> QED BY <2>1, <2>2, <2>3, <2>5, <3>1, ObjFacts DEF Seen
  <2> QED BY <1>m, <2>3, <2>6
<1>4. ASSUME NEW o \in Objs, Forget(o)
      PROVE  MakeInv'
  <2>1. Forgets(o)
    BY <1>4, ForgetDoes
  <2>2. /\ \A id \in Ids : byId'[id] \in {byId[id], NoObj}
        /\ \A p \in Objs : obj'[p].children = obj[p].children
        /\ \A q \in Objs : held'[q] > 0 => held[q] > 0
        /\ op' = op /\ feed' = feed
    BY <2>1 DEF Forgets, TypeInv
  <2>3. Shows
    BY <2>2, ObjFacts DEF Seen
  <2> QED BY <1>m, <1>o, <2>2, <2>3
<1>s. ASSUME AllSame, op' = op, feed'.kid = feed.kid \/ feed'.kid = NoObj
      PROVE  MakeInv'
  <2>1. Shows
    BY <1>s, ObjFacts DEF Seen, AllSame, SameObj
  <2> QED BY <1>m, <1>o, <1>s, <2>1
<1>5. ASSUME NEW o \in Objs, Store(o) \/ Mark(o)
      PROVE  MakeInv'
  BY <1>5, <1>s, MarkDoes
<1>6. CASE Outside
  BY <1>6, <1>s, OthersDoes
<1>7. CASE Feed
  <2>1. FeedDoes /\ op' = op /\ held' = held
    BY <1>7, FeedStepDoes
  <2>i. NoChange.kid = NoObj
    BY DEF NoChange
  <2>2. CASE \E o \in Objs : FindsNew(o)
    <3>1. PICK o \in Objs : FindsNew(o)
      BY <2>2
    <3>2. /\ Unused(o) /\ byId' = [byId EXCEPT ![feed.id] = o] /\ \A q \in Objs \ {o} : SameObj(q)
          /\ obj'[o].children = {} /\ feed'.kid \in {o, NoObj}
      BY <2>i, <3>1 DEF FindsNew
    <3>3. \A v \in Workers : op[v].kid # o
      BY <1>u, <3>2
    <3>4. Shows
      <4> SUFFICES ASSUME NEW x \in Objs, Seen(x)', x # o
                   PROVE  Seen(x)
        BY <2>1, <3>3
      <4> QED BY <2>1, <3>2, ObjFacts DEF Seen, SameObj, TypeInv
    <3> QED BY <1>m, <1>o, <2>1, <3>4
  <2>3. CASE ~\E o \in Objs : FindsNew(o)
    <3>1. /\ \A id \in Ids : byId'[id] \in {byId[id], NoObj}
          /\ \A p \in Objs : obj'[p].children \subseteq obj[p].children \cup {feed.kid}
          /\ feed'.kid \in {feed.kid, NoObj} \/ (feed'.kid = Known /\ Known \in Objs /\ IdOf(Known) = feed.id)
      BY <2>1, <2>3, <2>i DEF FeedDoes, Fetches, Knows, SameObj, AllSame, Adds, Loses, Parented,
                        Trashes, GoesOn
    <3>2. \A x \in Objs : Seen(x)' => Seen(x)
      BY <2>1, <3>1, ObjFacts DEF Seen, Known
    <3> QED BY <1>m, <1>o, <2>1, <3>2
  <2> QED BY <2>2, <2>3
<1> QED BY <1>2, <1>3, <1>4, <1>5, <1>6, <1>7 DEF Next, Outside

-----------------------------------------------------------------------------
(* The feed is about a file the server has heard of, and mkdir about one   *)
(* it has not: a folder they both are about is odd.                        *)

Placing == {"insert", "addChild", "addParent"}

FetchInv ==
  /\ \A id \in news : srv[id].st # "none"
  /\ feed.pc # "idle" => srv[feed.id].st # "none"
  /\ feed.pc \in Feeding => IdOf(feed.kid) = feed.id
  /\ feed.pc # "idle" => \A w \in Workers :
       op[w].pc \in Placing /\ IdOf(op[w].kid) = feed.id => feed.id \in odd

LEMMA FetchStep ==
  ASSUME TypeInv, OpInv, FetchInv, Next
  PROVE  FetchInv'
<1>0. Heard /\ news \subseteq Ids /\ feed.id \in Ids /\ news' \subseteq Ids
  BY NextType, CloudDoes DEF TypeInv, FeedType
<1>1. \A id \in news' : srv'[id].st # "none"
  BY <1>0 DEF Heard, FetchInv
<1>k. ASSUME feed' = feed, odd \subseteq odd',
             \A w \in Workers : op'[w].pc \in Placing =>
               \/ op[w].pc \in Placing /\ op'[w].kid = op[w].kid
               \/ IdOf(op'[w].kid) # feed.id \/ feed.pc = "idle"
      PROVE  FetchInv'
  BY <1>0, <1>1, <1>k DEF Heard, FetchInv
<1>2. ASSUME NEW w \in Workers, Starts(w)
      PROVE  FetchInv'
  <2>1. PICK r \in OpType : Begins(w, r) /\ (Looks(r) \/ Makers(r) \/ Removes(r) \/ Renames(r))
    BY <1>2, StartDoes
  <2>2. feed' = feed /\ odd \subseteq odd'
    BY <1>2, <2>1, StartDoes DEF Looks, Makers, Removes, Renames
  <2>3. op'[w] = r /\ \A v \in Workers \ {w} : op'[v] = op[v]
    BY <2>1, SetFacts DEF Begins
  <2>4. CASE ~Makers(r)
    <3>1. r.pc \notin Placing
      BY <2>1, <2>4 DEF Looks, Removes, Renames, Placing
    <3> QED BY <1>k, <2>2, <2>3, <3>1
  <2>5. CASE Makers(r)
    <3>1. IdOf(r.kid) # feed.id \/ feed.pc = "idle"
      BY <2>5 DEF Makers, Fresh, FetchInv
    <3> QED BY <1>k, <2>2, <2>3, <3>1
  <2> QED BY <2>4, <2>5
<1>3. ASSUME NEW w \in Workers, Step(w)
      PROVE  FetchInv'
  <2>1. /\ Flow(op[w], op'[w]) /\ \A v \in Workers \ {w} : op'[v] = op[v]
        /\ feed' = feed /\ odd \subseteq odd'
    BY <1>3, StepFlow, StepDoes
  <2>2. op'[w].pc \in Placing => op[w].pc \in Placing /\ op'[w].kid = op[w].kid
    BY <2>1 DEF Flow, Idle, Placing
  <2> QED BY <1>k, <2>1, <2>2
<1>4. ASSUME NEW o \in Objs, Forget(o) \/ Store(o) \/ Mark(o)
      PROVE  FetchInv'
  <2>1. op' = op /\ feed' = feed /\ odd \subseteq odd'
    BY <1>4, ForgetDoes, MarkDoes DEF Forgets
  <2> QED BY <1>k, <2>1
<1>5. CASE Outside
  BY <1>5, <1>k, OthersDoes
<1>6. CASE Feed
  <2>1. FeedDoes /\ op' = op /\ odd \subseteq odd'
    BY <1>6, FeedStepDoes
  <2>i. NoChange.pc = "idle"
    BY DEF NoChange
  <2>2. CASE \E id \in Ids : Fetches(id)
    <3>1. PICK id \in Ids : Fetches(id)
      BY <2>2
    <3>2. /\ feed'.pc = "apply" /\ feed'.id = id /\ srv'[id].st # "none"
          /\ \A w \in Workers : op[w].pc \in Placing /\ IdOf(op[w].kid) = id => id \in odd'
      BY <1>0, <3>1 DEF Fetches, FetchInv, Heard, Placing
    <3>3. feed'.pc \notin Feeding
      BY <3>2 DEF Feeding
    <3> QED BY <1>1, <2>1, <3>2, <3>3 DEF FetchInv
  <2>3. CASE feed'.pc # "idle" /\ ~\E id \in Ids : Fetches(id)
    <3>1. feed.pc # "idle" /\ feed'.id = feed.id
      BY <2>1, <2>3, <2>i DEF FeedDoes, Knows, FindsNew, GoesOn
    <3>2. feed'.pc \in Feeding => IdOf(feed'.kid) = feed.id
      BY <2>1, <2>3, <2>i DEF FeedDoes, Knows, FindsNew, GoesOn, FetchInv, Feeding
    <3>3. srv'[feed.id].st # "none"
      BY <1>0, <3>1 DEF FetchInv, Heard
    <3> QED BY <1>1, <2>1, <3>1, <3>2, <3>3 DEF FetchInv
  <2>4. CASE feed'.pc = "idle"
    BY <1>1, <2>4 DEF FetchInv, Feeding
  <2> QED BY <2>2, <2>3, <2>4
<1> QED BY <1>2, <1>3, <1>4, <1>5, <1>6 DEF Next, Outside

-----------------------------------------------------------------------------
(* "Remove old parents" removes none: those of a file that is not odd are  *)
(* parents it does not have, and so are those it is about to be given.     *)

Sound(o) == IdOf(o) \notin odd

OldInv ==
  feed.pc \in Feeding /\ Sound(feed.kid) =>
    /\ \A p \in feed.todo : p \notin obj[feed.kid].parents
    /\ feed.pc \in {"removeParent", "addParent"} => feed.at \notin obj[feed.kid].parents

LEMMA OldStep ==
  ASSUME TypeInv, OpInv, FetchInv, MakeInv, OldInv, Next
  PROVE  OldInv'
<1>0. /\ feed.pc \in Feeding => feed.kid \in Objs /\ IdOf(feed.kid) = feed.id
      /\ feed.todo \subseteq Objs
  BY ObjFacts DEF TypeInv, FetchInv, FeedType
<1>k. ASSUME feed' = feed, odd \subseteq odd',
             /\ feed.pc \in Feeding /\ Sound(feed.kid)'
                  => obj'[feed.kid].parents \subseteq obj[feed.kid].parents
      PROVE  OldInv'
  BY <1>0, <1>k DEF OldInv, Sound
<1>s. ASSUME feed' = feed, odd \subseteq odd', AllSame
      PROVE  OldInv'
  BY <1>0, <1>k, <1>s DEF AllSame, SameObj, Kept
<1>2. ASSUME NEW w \in Workers, Starts(w)
      PROVE  OldInv'
  <2>1. PICK r \in OpType : Looks(r) \/ Makers(r) \/ Removes(r) \/ Renames(r)
    BY <1>2, StartDoes
  <2>2. feed' = feed /\ odd \subseteq odd' /\ \A o \in Objs : obj'[o].parents = obj[o].parents
    BY <1>2, <2>1, StartDoes DEF Looks, Makers, Removes, Renames, AllSame, SameObj, Kept,
                                 Loses, Trashes
  <2> QED BY <1>0, <1>k, <2>2
<1>3. ASSUME NEW w \in Workers, Step(w)
      PROVE  OldInv'
  <2> DEFINE o == op[w].kid
  <2>1. feed' = feed /\ odd \subseteq odd' /\ o \in Objs /\ Does(w)
    BY <1>3, StepDoes
  <2>2. \/ \A q \in Objs : obj'[q].parents \subseteq obj[q].parents
        \/ op[w].pc = "addParent" /\ Parented(o, obj[o].parents \cup {op[w].dir})
    <3>1. CASE Parented(o, obj[o].parents \ {op[w].dir})
      BY <3>1 DEF Parented
    <3>2. CASE Inserts(w)
      BY <2>1, <3>2 DEF Inserts, SameObj, Kept
    <3> QED BY <2>1, <3>1, <3>2
            DEF Does, Quietly, AllSame, SameObj, Kept, Counts, Adds, Loses, Trashes
  <2>3. CASE \A q \in Objs : obj'[q].parents \subseteq obj[q].parents
    BY <1>0, <1>k, <2>1, <2>3
  <2>4. CASE op[w].pc = "addParent" /\ Parented(o, obj[o].parents \cup {op[w].dir})
    <3>1. IdOf(o) = feed.id /\ feed.pc # "idle" => feed.id \in odd
      BY <2>4 DEF FetchInv, Placing
    <3>2. /\ feed.pc \in Feeding /\ Sound(feed.kid)'
               => obj'[feed.kid].parents \subseteq obj[feed.kid].parents
      BY <1>0, <2>1, <2>4, <3>1 DEF Parented, Sound, Feeding
    <3> QED BY <1>k, <2>1, <3>2
  <2> QED BY <2>2, <2>3, <2>4
<1>4. ASSUME NEW o \in Objs, Forget(o)
      PROVE  OldInv'
  <2>1. Forgets(o)
    BY <1>4, ForgetDoes
  <2> QED BY <1>0, <1>k, <2>1 DEF Forgets
<1>5. ASSUME NEW o \in Objs, Store(o) \/ Mark(o)
      PROVE  OldInv'
  BY <1>5, <1>s, MarkDoes
<1>6. CASE Outside
  BY <1>6, <1>s, OthersDoes
<1>7. CASE Feed
  <2>1. FeedDoes /\ odd \subseteq odd'
    BY <1>7, FeedStepDoes
  <2>i. NoChange.pc = "idle"
    BY DEF NoChange
  <2> SUFFICES ASSUME feed'.pc \in Feeding, Sound(feed.kid)'
               PROVE  /\ \A p \in feed'.todo : p \notin obj'[feed'.kid].parents
                      /\ feed'.pc \in {"removeParent", "addParent"} =>
                           feed'.at \notin obj'[feed'.kid].parents
    BY DEF OldInv
  <2>2. CASE Knows
    BY <2>2 DEF Knows
  <2>n. ASSUME NEW o \in Objs, FindsNew(o)
        PROVE  /\ \A p \in feed'.todo : p \notin obj'[feed'.kid].parents
               /\ feed'.pc \in {"removeParent", "addParent"} =>
                    feed'.at \notin obj'[feed'.kid].parents
    BY <2>n, <2>i DEF FindsNew, Feeding
  <2>3. CASE /\ feed.pc = "remove" /\ feed'.pc = "removeParent" /\ GoesOn({"removeParent"})
             /\ feed'.todo = feed.todo /\ feed'.at \in feed.todo
             /\ \E p \in Objs : Loses(p, feed.kid)
    <3>1. feed'.kid = feed.kid /\ obj'[feed.kid].parents = obj[feed.kid].parents
      BY <1>0, <2>3, <2>i DEF GoesOn, Loses, Kept, Feeding
    <3>2. Sound(feed.kid)
      BY <2>1, <3>1 DEF Sound
    <3> QED BY <2>3, <3>1, <3>2 DEF OldInv, Feeding
  <2>4. CASE /\ feed.pc = "removeParent" /\ GoesOn({"remove"}) /\ feed'.pc # "removeParent"
             /\ feed'.todo \subseteq feed.todo
             /\ Parented(feed.kid, obj[feed.kid].parents \ {feed.at})
    <3>1. feed'.kid = feed.kid /\ obj'[feed.kid].parents \subseteq obj[feed.kid].parents
          /\ feed'.pc = "remove"
      BY <2>4, <2>i DEF GoesOn, Parented, Feeding
    <3>2. Sound(feed.kid)
      BY <2>1, <3>1 DEF Sound
    <3> QED BY <2>4, <3>1, <3>2 DEF OldInv, Feeding
  <2>5. CASE /\ feed.pc = "remove" /\ AllSame /\ GoesOn({"add"})
             /\ \A p \in feed'.todo : p \notin obj[feed.kid].parents
    <3>1. feed'.kid = feed.kid /\ feed'.pc = "add"
          /\ obj'[feed.kid].parents = obj[feed.kid].parents
      BY <1>0, <2>5, <2>i DEF GoesOn, AllSame, SameObj, Kept, Feeding
    <3> QED BY <2>5, <3>1
  <2>6. CASE /\ feed.pc = "add" /\ feed'.pc = "addParent" /\ GoesOn({"addParent"})
             /\ feed'.at \in feed.todo /\ feed'.todo = feed.todo
             /\ feed'.at \in Objs /\ Adds(feed'.at, feed.kid)
    <3>1. feed'.kid = feed.kid /\ obj'[feed.kid].parents = obj[feed.kid].parents
      BY <1>0, <2>6, <2>i DEF GoesOn, Adds, Kept, Feeding
    <3>2. Sound(feed.kid)
      BY <2>1, <3>1 DEF Sound
    <3> QED BY <2>6, <3>1, <3>2 DEF OldInv, Feeding
  <2>7. CASE /\ feed.pc = "addParent" /\ GoesOn({"add"})
             /\ feed'.pc # "addParent" /\ feed'.todo \subseteq feed.todo \ {feed.at}
             /\ Parented(feed.kid, obj[feed.kid].parents \cup {feed.at})
    <3>1. /\ feed'.kid = feed.kid /\ obj'[feed.kid].parents = obj[feed.kid].parents \cup {feed.at}
          /\ feed'.pc = "add"
      BY <2>7, <2>i DEF GoesOn, Parented, Feeding
    <3>2. Sound(feed.kid)
      BY <2>1, <3>1 DEF Sound
    <3> QED BY <2>7, <3>1, <3>2 DEF OldInv, Feeding
  <2>8. Knows \/ (\E o \in Objs : FindsNew(o)) \/ feed.pc \in Feeding
    BY <2>1, <2>i DEF FeedDoes, GoesOn, Fetches, Feeding
  <2> QED BY <2>1, <2>2, <2>n, <2>3, <2>4, <2>5, <2>6, <2>7, <2>8 DEF FeedDoes, Knows, FindsNew, Fetches, Feeding
<1> QED BY <1>2, <1>3, <1>4, <1>5, <1>6, <1>7 DEF Next, Outside

-----------------------------------------------------------------------------
(* The lookups an object has are those the kernel holds, but for files     *)
(* that create told of; and each is one of the kernel's requests.          *)

Tellers(o) == {w \in Workers : op[w].kid = o /\ op[w].pc \in Telling}

Counted(o) ==
  /\ IsFolder(o) /\ obj[o].known => obj[o].count = held[o]
  /\ IsFiniteSet(Tellers(o))
  /\ held[o] + Cardinality(Tellers(o)) <= used.requests + 1
  /\ obj[o].count + Cardinality(Tellers(o)) <= used.requests + 1
  /\ obj[o].count >= -1
  /\ obj[o].known => obj[o].count >= held[o] - 1
  /\ \A w \in Workers : op[w].kid = o /\ op[w].pc \in Making /\ obj[o].known
       => obj[o].count >= held[o]

CountInv == \A o \in Objs : Counted(o)

(* Fewer threads are to tell of it, or as many.                            *)
LEMMA FewerTellers ==
  ASSUME NEW o, IsFiniteSet(Tellers(o)), Tellers(o)' \subseteq Tellers(o)
  PROVE  /\ IsFiniteSet(Tellers(o)') /\ Cardinality(Tellers(o)') <= Cardinality(Tellers(o))
         /\ Cardinality(Tellers(o)') \in Nat /\ Cardinality(Tellers(o)) \in Nat
BY FS_Subset, FS_CardinalityType

LEMMA CountKeeps ==
  ASSUME TypeInv, TypeInv', NEW o \in Objs, Counted(o),
         held'[o] = held[o], obj'[o].count = obj[o].count, obj'[o].known => obj[o].known,
         used'.requests >= used.requests,
         \A v \in Workers : /\ op'[v].pc \in Telling => op[v].pc \in Telling /\ op'[v].kid = op[v].kid
                            /\ op'[v].pc \in Making => op[v].pc \in Making
  PROVE  Counted(o)'
<1>1. Tellers(o)' \subseteq Tellers(o)
  BY DEF Tellers
<1>2. /\ IsFiniteSet(Tellers(o)') /\ Cardinality(Tellers(o)') <= Cardinality(Tellers(o))
      /\ Cardinality(Tellers(o)') \in Nat /\ Cardinality(Tellers(o)) \in Nat
  BY <1>1, FewerTellers DEF Counted
<1>3. /\ held[o] \in Nat /\ obj[o].count \in Int
      /\ used.requests \in Nat /\ used'.requests \in Nat
  BY NamespaceAssumption DEF TypeInv, ObjType
<1>4. \A w \in Workers : op'[w].kid = o /\ op'[w].pc \in Making /\ obj'[o].known
        => obj'[o].count >= held'[o]
  BY DEF Counted, Telling
<1> HIDE DEF Tellers
<1> QED BY <1>2, <1>3, <1>4 DEF Counted

LEMMA CountStep ==
  ASSUME TypeInv, OpInv, MakeInv, CountInv, Next
  PROVE  CountInv'
<1>0. TypeInv' /\ OpInv'
  BY NextType
<1>r. used.requests \in Nat /\ used'.requests \in Nat
  BY <1>0, NamespaceAssumption DEF TypeInv
<1>t. \A o \in Objs : held[o] \in Nat /\ held'[o] \in Nat /\ obj[o].count \in Int
  BY <1>0 DEF TypeInv, ObjType
<1>c. \A o \in Objs : /\ Counted(o) /\ IsFiniteSet(Tellers(o)) /\ Cardinality(Tellers(o)) \in Nat
  BY FS_CardinalityType DEF CountInv, Counted
<1> DEFINE OpKeeps == \A v \in Workers :
             /\ op'[v].pc \in Telling => op[v].pc \in Telling /\ op'[v].kid = op[v].kid
             /\ op'[v].pc \in Making => op[v].pc \in Making
           Keeps(o) == /\ held'[o] = held[o] /\ obj'[o].count = obj[o].count
                       /\ obj'[o].known => obj[o].known
<1>k. ASSUME NEW o \in Objs, Keeps(o), OpKeeps, used'.requests >= used.requests
      PROVE  Counted(o)'
  BY <1>0, <1>c, <1>k, CountKeeps
<1>a. ASSUME NEW o \in Objs, AllSame \/ (\E c \in Objs : Trashes(c))
      PROVE  Keeps(o)
  BY <1>a DEF AllSame, SameObj, Kept, Trashes
<1>2. ASSUME NEW w \in Workers, Starts(w)
      PROVE  CountInv'
  <2>0. held' = held /\ used'.requests = used.requests + 1
    BY <1>2, StartDoes, StartBegins DEF TypeInv
  <2>1. PICK r \in OpType : Begins(w, r) /\ (Looks(r) \/ Makers(r) \/ Removes(r) \/ Renames(r))
    BY <1>2, StartDoes
  <2>2. op[w].pc = "idle" /\ op'[w] = r /\ \A v \in Workers \ {w} : op'[v] = op[v]
    BY <2>1, SetFacts DEF Begins
  <2>3. \A o \in Objs : Keeps(o)
    BY <1>a, <2>0, <2>1 DEF Looks, Makers, Removes, Renames, Loses, Kept
  <2> SUFFICES ASSUME NEW o \in Objs
               PROVE  Counted(o)'
    BY DEF CountInv
  <2>4. Tellers(o)' \subseteq Tellers(o) \cup {w}
    BY <2>2 DEF Tellers
  <2>5. /\ IsFiniteSet(Tellers(o) \cup {w})
        /\ Cardinality(Tellers(o) \cup {w}) <= Cardinality(Tellers(o)) + 1
    <3> DEFINE S == Tellers(o)
    <3>1. IsFiniteSet(S) /\ Cardinality(S) \in Nat
      BY <1>c
    <3> HIDE DEF S
    <3>2. IsFiniteSet(S \cup {w})
          /\ Cardinality(S \cup {w}) = IF w \in S THEN Cardinality(S) ELSE Cardinality(S) + 1
      BY <3>1, FS_AddElement
    <3>3. Cardinality(S \cup {w}) <= Cardinality(S) + 1
      BY <3>1, <3>2
    <3> QED BY <3>2, <3>3 DEF S
  <2>6. /\ IsFiniteSet(Tellers(o)') /\ Cardinality(Tellers(o)') \in Nat
        /\ Cardinality(Tellers(o)') <= Cardinality(Tellers(o)) + 1
    <3> HIDE DEF Tellers
    <3>1. /\ IsFiniteSet(Tellers(o)') /\ Cardinality(Tellers(o)') \in Nat
          /\ Cardinality(Tellers(o)') <= Cardinality(Tellers(o) \cup {w})
      BY <2>4, <2>5, FS_Subset, FS_CardinalityType
    <3>2. Cardinality(Tellers(o) \cup {w}) \in Nat
      BY <2>5, FS_CardinalityType
    <3> QED BY <1>c, <2>5, <3>1, <3>2
  <2>7. ASSUME NEW v \in Workers, op'[v].kid = o, op'[v].pc \in Making, obj'[o].known
        PROVE  obj'[o].count >= held'[o]
    <3>1. CASE v = w
      <4>1. Makers(r) /\ r.kid = o
        BY <2>1, <2>2, <2>7, <3>1 DEF Looks, Removes, Renames, Making
      <4>2. ~obj[o].known
        BY <4>1 DEF Makers, Fresh, Unused
      <4> QED BY <2>3, <2>7, <4>2
    <3>2. CASE v # w
      BY <1>c, <2>2, <2>3, <2>7, <3>2 DEF Counted
    <3> QED BY <3>1, <3>2
  <2>8. Counted(o)
    BY <1>c
  <2> HIDE DEF Tellers
  <2> QED BY <1>c, <1>r, <1>t, <2>0, <2>3, <2>6, <2>7, <2>8 DEF Counted
<1>3. ASSUME NEW w \in Workers, Step(w)
      PROVE  CountInv'
  <2> DEFINE k == op[w].kid
  <2>1. Does(w) /\ k \in Objs
    BY <1>3, StepDoes
  <2>2. Flow(op[w], op'[w]) /\ (\A v \in Workers \ {w} : op'[v] = op[v]) /\ op[w].pc # "idle"
    BY <1>3, StepFlow
  <2>3. used' = used
    BY <1>3 DEF Step, LookupReply, Insert, AddChild, AddParent, MakeReply, Drop, RemoveParent,
         Wait, Delete, DeleteRefused, RemoveChild, Finish, Detach, Take, Give, SetName, Save,
         Tell, TellRefused, ghost
  <2>4. OpKeeps
    BY <2>2 DEF Flow, Idle, Telling, Making
  <2> SUFFICES ASSUME NEW o \in Objs
               PROVE  Counted(o)'
    BY DEF CountInv
  <2>5. CASE Counts(w) /\ o = k
    <3>1. w \in Tellers(o) /\ Tellers(o)' = Tellers(o) \ {w}
      BY <2>2, <2>5 DEF Tellers, Counts, Telling, Making, Idle
    <3>2. /\ IsFiniteSet(Tellers(o)') /\ Cardinality(Tellers(o)') = Cardinality(Tellers(o)) - 1
      <4> HIDE DEF Tellers
      <4> QED BY <1>c, <3>1, FS_RemoveElement
    <3>3. /\ held'[o] = held[o] + 1 /\ obj'[o].known = obj[o].known
          /\ \/ obj'[o].count = obj[o].count + 1
             \/ op[w].pc = "assert" /\ ~IsFolder(o) /\ obj'[o].count = obj[o].count
      BY <2>5 DEF Counts, Kept
    <3>4. ASSUME op[w].pc = "assert", obj[o].known
          PROVE  obj[o].count >= held[o]
      BY <1>c, <2>5, <3>4 DEF Counted, Making
    <3>5. ASSUME NEW v \in Workers, op'[v].kid = o, op'[v].pc \in Making, obj'[o].known
          PROVE  obj'[o].count >= held'[o]
      <4>1. v # w /\ op'[v] = op[v]
        BY <2>2, <2>5, <3>5 DEF Counts, Idle, Making
      <4>2. op[w].pc # "assert"
        BY <2>5, <3>5, <4>1 DEF MakeInv, Making
      <4>3. obj[o].count >= held[o]
        BY <1>c, <3>3, <3>5, <4>1 DEF Counted
      <4> QED BY <1>t, <3>3, <4>2, <4>3
    <3>6. Counted(o)
      BY <1>c
    <3> HIDE DEF Tellers
    <3> QED BY <1>c, <1>r, <1>t, <2>3, <3>2, <3>3, <3>4, <3>5, <3>6 DEF Counted
  <2>6. CASE Inserts(w) /\ o = k
    <3>1. ~Seen(o) /\ held[o] = 0 /\ held' = held /\ obj'[o].count = 0
      BY <1>t, <2>6 DEF MakeInv, Inserts, Seen
    <3>2. Tellers(o)' \subseteq Tellers(o)
      BY <2>4 DEF Tellers
    <3>3. /\ IsFiniteSet(Tellers(o)') /\ Cardinality(Tellers(o)') <= Cardinality(Tellers(o))
          /\ Cardinality(Tellers(o)') \in Nat
      BY <1>c, <3>2, FewerTellers
    <3>4. Counted(o)
      BY <1>c
    <3> HIDE DEF Tellers
    <3> QED BY <1>c, <1>r, <1>t, <2>3, <3>1, <3>3, <3>4 DEF Counted
  <2>7. CASE ~(Counts(w) /\ o = k) /\ ~(Inserts(w) /\ o = k)
    <3>1. Keeps(o)
      <4>1. CASE Counts(w) \/ Inserts(w)
        BY <2>7, <4>1 DEF Counts, Inserts, SameObj, Kept
      <4>2. CASE Quietly(w) \/ Trashes(k)
        BY <1>a, <2>1, <4>2 DEF Quietly
      <4>3. CASE \/ Adds(op[w].dir, k) \/ Adds(op[w].to, k) \/ Loses(op[w].dir, k)
                 \/ \E ps : Parented(k, ps)
        BY <4>3 DEF Adds, Loses, Parented, Kept
      <4> QED BY <2>1, <4>1, <4>2, <4>3 DEF Does
    <3> QED BY <1>k, <1>r, <2>3, <2>4, <3>1
  <2> QED BY <2>5, <2>6, <2>7
<1>o. op' = op => OpKeeps
  OBVIOUS
<1>4. ASSUME NEW q \in Objs, Forget(q)
      PROVE  CountInv'
  <2>1. Forgets(q)
    BY <1>4, ForgetDoes
  <2> SUFFICES ASSUME NEW o \in Objs
               PROVE  Counted(o)'
    BY DEF CountInv
  <2>2. CASE o # q
    <3>1. Keeps(o) /\ OpKeeps /\ used'.requests >= used.requests
      BY <1>r, <2>1, <2>2 DEF Forgets, SameObj, Kept, TypeInv
    <3> QED BY <1>k, <3>1
  <2>3. CASE o = q
    <3>1. Tellers(o)' = Tellers(o)
      BY <2>1 DEF Forgets, Tellers
    <3>2. held'[o] = 0 /\ used'.requests = used.requests + 1
      BY <2>1, <2>3 DEF Forgets, TypeInv
    <3>3. \/ obj'[o].known = obj[o].known /\ obj'[o].count = obj[o].count /\ ~obj[o].known
          \/ obj[o].known /\ obj'[o].count = obj[o].count - held[o]
      BY <2>1, <2>3 DEF Forgets, SameObj, Kept
    <3>4. /\ Counted(o)
          /\ \A v \in Workers : op[v].kid = o /\ op[v].pc \in Making /\ obj[o].known
               => obj[o].count >= held[o]
      BY <1>c DEF Counted
    <3>5. ASSUME NEW v \in Workers, op'[v].kid = o, op'[v].pc \in Making, obj'[o].known
          PROVE  obj'[o].count >= held'[o]
      <4>1. op'[v] = op[v]
        BY <2>1 DEF Forgets
      <4>2. obj[o].known /\ obj'[o].count = obj[o].count - held[o]
        BY <3>3, <3>5
      <4>3. obj[o].count >= held[o]
        BY <3>4, <3>5, <4>1, <4>2
      <4> QED BY <1>t, <3>2, <4>2, <4>3
    <3> HIDE DEF Tellers
    <3> QED BY <1>c, <1>r, <1>t, <3>1, <3>2, <3>3, <3>4, <3>5 DEF Counted
  <2> QED BY <2>2, <2>3
<1>s. ASSUME AllSame, op' = op, used'.requests >= used.requests
      PROVE  CountInv'
  BY <1>k, <1>a, <1>o, <1>s DEF CountInv
<1>5. ASSUME NEW o \in Objs, Store(o) \/ Mark(o)
      PROVE  CountInv'
  BY <1>5, <1>s, <1>r, MarkDoes
<1>6. CASE Outside
  BY <1>6, <1>s, <1>r, OthersDoes
<1>7. CASE Feed
  <2>1. FeedDoes /\ op' = op /\ used' = used /\ held' = held
    BY <1>7, FeedStepDoes
  <2> SUFFICES ASSUME NEW o \in Objs
               PROVE  Counted(o)'
    BY DEF CountInv
  <2>2. CASE FindsNew(o)
    <3>1. held[o] = 0 /\ obj'[o].count = 0
      BY <1>t, <2>2 DEF FindsNew, Unused
    <3>2. Tellers(o)' = Tellers(o)
      BY <2>1 DEF Tellers
    <3>3. Counted(o)
      BY <1>c
    <3> HIDE DEF Tellers
    <3> QED BY <1>c, <1>r, <1>t, <2>1, <3>1, <3>2, <3>3 DEF Counted
  <2>3. CASE ~FindsNew(o)
    <3>1. Keeps(o)
      <4>1. CASE AllSame \/ (Known \in Objs /\ Trashes(Known))
        BY <1>a, <4>1
      <4>2. CASE ~(AllSame \/ (Known \in Objs /\ Trashes(Known)))
        BY <2>1, <2>3, <4>2 DEF FeedDoes, Fetches, Knows, FindsNew, Adds, Loses, Parented,
                                SameObj, Kept
      <4> QED BY <4>1, <4>2
    <3> QED BY <1>k, <1>o, <1>r, <2>1, <3>1
  <2> QED BY <2>2, <2>3
<1> QED BY <1>2, <1>3, <1>4, <1>5, <1>6, <1>7 DEF Next, Outside

-----------------------------------------------------------------------------
(* The folders the feed links are folders the server has heard of, and not *)
(* one that is about to be inserted.                                       *)

RealInv ==
  /\ \A id \in Folders : byId[id] # NoObj => srv[id].st # "none"
  /\ \A w \in Workers : op[w].pc \in Making /\ IsFolder(op[w].kid)
       => srv[IdOf(op[w].kid)].st # "none"
  /\ feed.pc \in Feeding => \A p \in feed.todo :
       /\ srv[IdOf(p)].st # "none"
       /\ \A w \in Workers : op[w].pc = "insert" => op[w].kid # p
  /\ feed.pc \in {"removeParent", "addParent"} =>
       /\ srv[IdOf(feed.at)].st # "none"
       /\ \A w \in Workers : op[w].pc = "insert" => op[w].kid # feed.at

(* What background_update is to link next it found in idToObject, or had.  *)
LEMMA TodoDoes ==
  ASSUME TypeInv, Feed
  PROVE  /\ feed'.pc \in Feeding => \A p \in feed'.todo :
              \/ feed.pc \in Feeding /\ p \in feed.todo
              \/ \E id \in Folders : byId[id] = p /\ p # NoObj
         /\ feed'.pc \in {"removeParent", "addParent"} =>
              feed.pc \in Feeding /\ feed'.at \in feed.todo
<1>0. feed \in FeedType /\ NoChange.pc = "idle" /\ feed.file.parents \subseteq Folders
  BY DEF TypeInv, NoChange, FeedType, File
<1> DEFINE Goal ==
      /\ feed'.pc \in Feeding => \A p \in feed'.todo :
           \/ feed.pc \in Feeding /\ p \in feed.todo
           \/ \E id \in Folders : byId[id] = p /\ p # NoObj
      /\ feed'.pc \in {"removeParent", "addParent"} =>
           feed.pc \in Feeding /\ feed'.at \in feed.todo
<1>o. ASSUME NEW ids \in SUBSET Folders, feed'.todo = Objects(ids),
             feed'.pc \notin {"removeParent", "addParent"}
      PROVE  Goal
  BY <1>o DEF Objects
<1>i. feed'.pc \notin Feeding => Goal
  BY DEF Feeding
<1>l. ASSUME NEW pc \in {"leave", "remove", "add"}, NEW todo \in SUBSET feed.todo,
             feed' = Loop(pc, todo), feed.pc \in Feeding
      PROVE  Goal
  <2>1. todo \in SUBSET Dirs
    BY <1>0 DEF FeedType
  <2>2. feed' = NoChange \/ (feed'.pc = pc /\ feed'.todo = todo)
    BY <1>l, <2>1, LoopFacts
  <2> QED BY <1>0, <1>i, <1>l, <2>2 DEF Feeding
<1>1. ASSUME NEW id \in Ids, Fetch(id)
      PROVE  Goal
  BY <1>1, <1>i DEF Fetch, NoChange, Feeding
<1>2. CASE ApplyNothing
  BY <1>0, <1>2, <1>i DEF ApplyNothing, Feeding
<1>3. CASE ApplyGone
  <2>1. feed'.pc \in {"idle", "leave"}
    <3> HIDE DEF Known
    <3>1. \/ feed' = NoChange
          \/ feed' = [feed EXCEPT !.pc = "leave", !.kid = Known, !.todo = obj[Known].parents]
      BY <1>3 DEF ApplyGone
    <3> QED BY <1>0, <3>1 DEF FeedType
  <2> QED BY <1>i, <2>1 DEF Feeding
<1>4. CASE ApplyKnown
  <2>1. feed'.pc = "remove" /\ feed'.todo = Objects(feed.file.parents \ Parents(Known))
    BY <1>4, KnownFacts
  <2>2. feed.file.parents \ Parents(Known) \in SUBSET Folders
    BY <1>0
  <2> QED BY <1>o, <2>1, <2>2
<1>5. CASE ApplyNew
  <2>1. \/ feed' = NoChange
        \/ feed'.pc = "add" /\ feed'.todo = Objects(feed.file.parents)
    <3>1. PICK k \in 1 .. Copies :
            feed' = IF Objects(feed.file.parents) = {} THEN NoChange
                    ELSE [feed EXCEPT !.pc = "add", !.kid = <<feed.id, k>>,
                                      !.todo = Objects(feed.file.parents)]
      BY <1>5 DEF ApplyNew
    <3> DEFINE todo == Objects(feed.file.parents)
    <3>2. feed' = NoChange \/ feed' = [feed EXCEPT !.pc = "add", !.kid = <<feed.id, k>>, !.todo = todo]
      BY <3>1
    <3> HIDE DEF todo
    <3>3. feed' = NoChange \/ (feed'.pc = "add" /\ feed'.todo = todo)
      BY <1>0, <3>2 DEF FeedType
    <3> QED BY <3>3 DEF todo
  <2> QED BY <1>0, <1>i, <1>o, <2>1 DEF Feeding
<1>6. ASSUME NEW p \in feed.todo, Leave(p)
      PROVE  Goal
  <2>1. feed' = Loop("leave", feed.todo \ {p}) /\ feed.todo \ {p} \in SUBSET Dirs
    BY <1>0, <1>6 DEF Leave, FeedType
  <2>2. feed' = NoChange \/ feed'.pc = "leave"
    BY <2>1, LoopFacts
  <2> QED BY <1>0, <1>i, <2>2 DEF Feeding
<1>7. ASSUME NEW p \in feed.todo, FeedRemoveChild(p) \/ FeedAddChild(p)
      PROVE  Goal
  <2>1. feed.pc \in Feeding /\ feed'.todo = feed.todo /\ feed'.at = p
    BY <1>7, AtFacts DEF FeedRemoveChild, FeedAddChild, Feeding
  <2> QED BY <2>1
<1>8. CASE FeedRemoveParent \/ FeedAddParent
  <2>1. feed.pc \in Feeding /\ feed.todo \ {feed.at} \in SUBSET feed.todo
        /\ (feed' = Loop("remove", feed.todo \ {feed.at}) \/ feed' = Loop("add", feed.todo \ {feed.at}))
    BY <1>8 DEF FeedRemoveParent, FeedAddParent, Feeding
  <2> QED BY <1>l, <2>1
<1>9. CASE FeedParents
  <2> DEFINE new == feed.file.parents \ Parents(feed.kid)
  <2>1. new \in SUBSET Folders
    BY <1>0
  <2>2. feed' = Loop("add", Objects(new)) /\ Objects(new) \in SUBSET Dirs
    BY <1>9, <2>1, ObjectsFacts DEF FeedParents
  <2> HIDE DEF new
  <2>3. feed' = NoChange \/ (feed'.pc = "add" /\ feed'.todo = Objects(new))
    BY <2>2, LoopFacts
  <2> QED BY <1>0, <1>i, <1>o, <2>1, <2>3 DEF Feeding
<1>10. \/ \E id \in Ids : Fetch(id)
       \/ ApplyNothing \/ ApplyGone \/ ApplyKnown \/ ApplyNew
       \/ \E p \in feed.todo : Leave(p) \/ FeedRemoveChild(p) \/ FeedAddChild(p)
       \/ FeedRemoveParent \/ FeedParents \/ FeedAddParent
  BY DEF Feed
<1>11. CASE \E p \in feed.todo : Leave(p) \/ FeedRemoveChild(p) \/ FeedAddChild(p)
  BY <1>6, <1>7, <1>11
<1>12. CASE \E id \in Ids : Fetch(id)
  BY <1>1, <1>12
<1> QED BY <1>2, <1>3, <1>4, <1>5, <1>8, <1>9, <1>10, <1>11, <1>12

LEMMA RealStep ==
  ASSUME TypeInv, OpInv, FetchInv, MakeInv, RealInv, Next
  PROVE  RealInv'
<1>0. Heard /\ TypeInv'
  BY NextType, CloudDoes
<1>f. Folders \subseteq Ids /\ feed.id \in Ids
  BY Constants DEF TypeInv, FeedType
<1>t. /\ \A p \in feed.todo : p \in Objs /\ IdOf(p) \in Ids
      /\ feed.pc \in {"removeParent", "addParent"} => feed.at \in Objs /\ IdOf(feed.at) \in Ids
  BY ObjFacts DEF TypeInv, FeedType
<1>w. \A w \in Workers : op[w].pc \in Making => op[w].kid \in Objs /\ IdOf(op[w].kid) \in Ids
  BY ObjFacts DEF OpInv, OpOK, Making
<1> DEFINE Map == \A id \in Folders : byId'[id] # NoObj => srv'[id].st # "none"
           Mades == \A w \in Workers : op'[w].pc \in Making /\ IsFolder(op'[w].kid)
                      => srv'[IdOf(op'[w].kid)].st # "none"
           Shrinks == \A id \in Folders : byId'[id] \in {byId[id], NoObj}
           OpKeeps == \A v \in Workers :
             /\ op'[v].pc \in Making => op[v].pc \in Making /\ op'[v].kid = op[v].kid
             /\ op'[v].pc = "insert" => op[v].pc = "insert"
<1>1. Shrinks => Map
  BY <1>0, <1>f DEF RealInv, Heard
<1>2. OpKeeps => Mades
  BY <1>0, <1>w DEF RealInv, Heard
<1>k. ASSUME feed' = feed, Map, OpKeeps
      PROVE  RealInv'
  <2>1. Mades
    BY <1>k, <1>2
  <2>2. feed.pc \in Feeding => \A p \in feed.todo :
          /\ srv'[IdOf(p)].st # "none"
          /\ \A w \in Workers : op'[w].pc = "insert" => op'[w].kid # p
    BY <1>0, <1>k, <1>t DEF RealInv, Heard, Making
  <2>3. feed.pc \in {"removeParent", "addParent"} =>
          /\ srv'[IdOf(feed.at)].st # "none"
          /\ \A w \in Workers : op'[w].pc = "insert" => op'[w].kid # feed.at
    BY <1>0, <1>k, <1>t DEF RealInv, Heard, Making
  <2> QED BY <1>k, <2>1, <2>2, <2>3 DEF RealInv
<1>3. ASSUME NEW w \in Workers, Starts(w)
      PROVE  RealInv'
  <2>0. feed' = feed
    BY <1>3, StartDoes
  <2>1. PICK r \in OpType : Begins(w, r) /\ (Looks(r) \/ Makers(r) \/ Removes(r) \/ Renames(r))
    BY <1>3, StartDoes
  <2>2. op[w].pc = "idle" /\ op'[w] = r /\ \A v \in Workers \ {w} : op'[v] = op[v]
    BY <2>1, SetFacts DEF Begins
  <2>3. Shrinks
    BY <1>f, <2>1 DEF Looks, Makers, Removes, Renames, AllSame, Loses, Trashes
  <2>4. CASE ~Makers(r)
    <3>1. r.pc \notin Making
      BY <2>1, <2>4 DEF Looks, Removes, Renames, Making
    <3>2. OpKeeps
      BY <2>2, <3>1 DEF Making
    <3> QED BY <1>1, <1>k, <2>0, <2>3, <3>2
  <2>5. CASE Makers(r)
    <3>1. Mades
      BY <1>0, <1>w, <2>2, <2>5 DEF RealInv, Heard, Makers
    <3>2. srv[IdOf(r.kid)].st = "none"
      BY <2>5 DEF Makers, Fresh
    <3>3. feed.pc \in Feeding => \A p \in feed.todo :
            /\ srv'[IdOf(p)].st # "none"
            /\ \A v \in Workers : op'[v].pc = "insert" => op'[v].kid # p
      BY <1>0, <1>t, <2>2, <3>2 DEF RealInv, Heard
    <3>4. feed.pc \in {"removeParent", "addParent"} =>
            /\ srv'[IdOf(feed.at)].st # "none"
            /\ \A v \in Workers : op'[v].pc = "insert" => op'[v].kid # feed.at
      BY <1>0, <1>t, <2>2, <3>2 DEF RealInv, Heard
    <3> QED BY <1>1, <2>0, <2>3, <3>1, <3>3, <3>4 DEF RealInv
  <2> QED BY <2>4, <2>5
<1>4. ASSUME NEW w \in Workers, Step(w)
      PROVE  RealInv'
  <2>1. Does(w) /\ op[w].kid \in Objs /\ feed' = feed
    BY <1>4, StepDoes
  <2>2. Flow(op[w], op'[w]) /\ \A v \in Workers \ {w} : op'[v] = op[v]
    BY <1>4, StepFlow
  <2>3. OpKeeps
    BY <2>2 DEF Flow, Idle, Making
  <2>4. Map
    <3>1. CASE Inserts(w)
      <4>1. \A id \in Folders : byId'[id] = byId[id] \/ (id = IdOf(op[w].kid) /\ byId'[id] = op[w].kid)
        BY <1>f, <3>1 DEF Inserts, TypeInv
      <4>2. IdOf(op[w].kid) \in Folders => srv'[IdOf(op[w].kid)].st # "none"
        BY <1>0, <1>f, <3>1 DEF RealInv, Heard, Inserts, Making, IsFolder
      <4> QED BY <1>0, <1>f, <4>1, <4>2 DEF RealInv, Heard
    <3>2. CASE ~Inserts(w)
      <4>1. Shrinks
        BY <1>f, <2>1, <3>2 DEF Does, Quietly, AllSame, Counts, Adds, Loses, Parented, Trashes
      <4> QED BY <1>1, <4>1
    <3> QED BY <3>1, <3>2
  <2> QED BY <1>k, <2>1, <2>3, <2>4
<1>o. op' = op => OpKeeps
  OBVIOUS
<1>s. ASSUME AllSame, op' = op, feed' = feed
      PROVE  RealInv'
  BY <1>1, <1>k, <1>o, <1>s DEF AllSame
<1>5. ASSUME NEW o \in Objs, Forget(o)
      PROVE  RealInv'
  <2>1. Forgets(o)
    BY <1>5, ForgetDoes
  <2>2. Shrinks
    BY <1>f, <2>1 DEF Forgets, TypeInv
  <2> QED BY <1>1, <1>k, <1>o, <2>1, <2>2 DEF Forgets
<1>6. ASSUME NEW o \in Objs, Store(o) \/ Mark(o)
      PROVE  RealInv'
  BY <1>6, <1>s, MarkDoes
<1>7. CASE Outside
  BY <1>7, <1>s, OthersDoes
<1>8. CASE Feed
  <2>1. FeedDoes /\ op' = op
    BY <1>8, FeedStepDoes
  <2>2. Map
    <3>1. CASE \E o \in Objs : FindsNew(o)
      <4>1. \A id \in Folders : byId'[id] = byId[id] \/ id = feed.id
        BY <1>f, <3>1 DEF FindsNew, TypeInv
      <4>2. srv'[feed.id].st # "none"
        BY <1>0, <1>f, <3>1 DEF FetchInv, Heard, FindsNew
      <4> QED BY <1>0, <1>f, <4>1, <4>2 DEF RealInv, Heard
    <3>2. CASE ~\E o \in Objs : FindsNew(o)
      <4>1. Shrinks
        BY <1>f, <2>1, <3>2 DEF FeedDoes, Fetches, Knows, AllSame, Adds, Loses, Parented, Trashes
      <4> QED BY <1>1, <4>1
    <3> QED BY <3>1, <3>2
  <2>3. Mades
    BY <1>2, <1>o, <2>1
  <2>4. ASSUME NEW id \in Folders, byId[id] # NoObj
        PROVE  /\ IdOf(byId[id]) = id /\ srv'[id].st # "none"
               /\ \A w \in Workers : op[w].pc = "insert" => op[w].kid # byId[id]
    <3>1. IdOf(byId[id]) = id /\ srv'[id].st # "none"
      BY <1>0, <1>f, <2>4 DEF TypeInv, RealInv, Heard
    <3>2. ASSUME NEW w \in Workers, op[w].pc = "insert", op[w].kid = byId[id]
          PROVE  FALSE
      BY <3>1, <3>2 DEF MakeInv, Seen
    <3> QED BY <3>1, <3>2
  <2>5. ASSUME NEW p \in feed.todo, feed.pc \in Feeding
        PROVE  /\ srv'[IdOf(p)].st # "none"
               /\ \A w \in Workers : op[w].pc = "insert" => op[w].kid # p
    BY <1>0, <1>t, <2>5 DEF RealInv, Heard
  <2>6. feed'.pc \in Feeding => \A p \in feed'.todo :
          /\ srv'[IdOf(p)].st # "none"
          /\ \A w \in Workers : op'[w].pc = "insert" => op'[w].kid # p
    BY <1>8, <2>1, <2>4, <2>5, TodoDoes
  <2>7. feed'.pc \in {"removeParent", "addParent"} =>
          /\ srv'[IdOf(feed'.at)].st # "none"
          /\ \A w \in Workers : op'[w].pc = "insert" => op'[w].kid # feed'.at
    BY <1>8, <2>1, <2>5, TodoDoes
  <2> QED BY <2>2, <2>3, <2>6, <2>7 DEF RealInv
<1> QED BY <1>3, <1>4, <1>5, <1>6, <1>7, <1>8 DEF Next, Outside

-----------------------------------------------------------------------------
(* What is dropped is odd, and no two requests change one object.          *)

Changing(r) == r.pc # "idle" /\ r.req # "lookup"

TaskInv ==
  /\ \A w \in Workers : op[w].pc \in {"drop", "off", "orphan"} => IdOf(op[w].kid) \in odd
  /\ \A v, w \in Workers : Changing(op[v]) /\ Changing(op[w]) /\ op[v].kid = op[w].kid => v = w

LEMMA TaskStep ==
  ASSUME TypeInv, OpInv, TaskInv, Next
  PROVE  TaskInv'
<1>k. ASSUME op' = op, odd \subseteq odd'
      PROVE  TaskInv'
  BY <1>k DEF TaskInv, Changing
<1>1. ASSUME NEW w \in Workers, Starts(w)
      PROVE  TaskInv'
  <2>1. PICK r \in OpType : Begins(w, r) /\ (Looks(r) \/ Makers(r) \/ Removes(r) \/ Renames(r))
    BY <1>1, StartDoes
  <2>2. op[w].pc = "idle" /\ op'[w] = r /\ \A v \in Workers \ {w} : op'[v] = op[v]
    BY <2>1, SetFacts DEF Begins
  <2>3. odd \subseteq odd' /\ (r.pc \in {"drop", "off", "orphan"} => IdOf(r.kid) \in odd')
    BY <2>1 DEF Looks, Makers, Removes, Renames
  <2>4. Changing(r) => \A v \in Workers : Changing(op[v]) => op[v].kid # r.kid
    <3>1. CASE Looks(r)
      BY <3>1 DEF Looks, Changing
    <3>2. CASE Makers(r)
      <4>1. Unused(r.kid)
        BY <3>2 DEF Makers, Fresh
      <4> QED BY <4>1 DEF Unused
    <3>3. CASE Removes(r) \/ Renames(r)
      BY <3>3 DEF Removes, Renames, Exclusive, Changing
    <3> QED BY <2>1, <3>1, <3>2, <3>3
  <2>5. ASSUME NEW v \in Workers
        PROVE  op'[v].pc \in {"drop", "off", "orphan"} => IdOf(op'[v].kid) \in odd'
    BY <2>2, <2>3 DEF TaskInv
  <2>6. ASSUME NEW u \in Workers, NEW v \in Workers, Changing(op'[u]), Changing(op'[v]),
               op'[u].kid = op'[v].kid
        PROVE  u = v
    BY <2>2, <2>4, <2>6 DEF TaskInv
  <2> QED BY <2>5, <2>6 DEF TaskInv, Changing
<1>2. ASSUME NEW w \in Workers, Step(w)
      PROVE  TaskInv'
  <2>1. /\ Flow(op[w], op'[w]) /\ op[w].pc # "idle" /\ \A v \in Workers \ {w} : op'[v] = op[v]
        /\ odd \subseteq odd'
    BY <1>2, StepFlow, StepDoes
  <2>2. op'[w].pc \in {"drop", "off", "orphan"} =>
          op[w].pc \in {"drop", "off", "orphan"} /\ op'[w].kid = op[w].kid
    BY <2>1 DEF Flow, Idle
  <2>3. Changing(op'[w]) => Changing(op[w]) /\ op'[w].kid = op[w].kid
    BY <2>1 DEF Flow, Idle, Changing
  <2>4. ASSUME NEW v \in Workers
        PROVE  /\ Changing(op'[v]) => Changing(op[v]) /\ op'[v].kid = op[v].kid
               /\ op'[v].pc \in {"drop", "off", "orphan"} => IdOf(op'[v].kid) \in odd'
    BY <2>1, <2>2, <2>3 DEF TaskInv
  <2>5. \A u, v \in Workers : Changing(op'[u]) /\ Changing(op'[v]) /\ op'[u].kid = op'[v].kid => u = v
    BY <2>4 DEF TaskInv
  <2> QED BY <2>4, <2>5 DEF TaskInv, Changing
<1>3. ASSUME NEW o \in Objs, Forget(o) \/ Store(o) \/ Mark(o)
      PROVE  TaskInv'
  BY <1>3, <1>k, ForgetDoes, MarkDoes DEF Forgets
<1>4. CASE Outside
  BY <1>4, <1>k, OthersDoes
<1>5. CASE Feed
  BY <1>5, <1>k, FeedStepDoes
<1> QED BY <1>1, <1>2, <1>3, <1>4, <1>5 DEF Next, Outside

-----------------------------------------------------------------------------
(* A file that is not odd and that a request, a folder, the kernel or the  *)
(* feed points at has a parent, or is about to be given one, or is being   *)
(* unlinked; if it is a folder, it is in the maps or trashed: forget       *)
(* leaves it there.                                                        *)

Adding(o)  == feed.pc = "addParent" /\ feed.kid = o
Linking(o) == Adding(o) /\ o \in obj[feed.at].children
Leaving(o) == \E w \in Workers : op[w].kid = o /\ op[w].req = "unlink" /\
                op[w].pc \in {"wait", "remove", "detach"}
Placed(o)  == obj[o].parents # {} \/ Linking(o) \/ Leaving(o)
Alive(o)   == obj[o].known \/ obj[o].trashed
Below(o)   == o # First(Root)

KidFits(w) == LET o == op[w].kid IN Sound(o) =>
  /\ IsFolder(o) /\ op[w].pc \in {"found", "addChild", "addParent", "assert"} => obj[o].known
  /\ IsFolder(o) /\ op[w].pc \in {"take", "give"} => Alive(o)
  /\ Below(o) /\ op[w].pc = "found" => Placed(o)
  /\ Below(o) /\ op[w].pc \in {"take", "give", "unchild", "assert"} => obj[o].parents # {}

ChildFits(p, c) == Sound(c) =>
  /\ IsFolder(c) => Alive(c)
  /\ Below(c) => \/ obj[c].parents # {}
                 \/ Adding(c) /\ feed.at = p
                 \/ \E w \in Workers : op[w].pc = "addParent" /\ op[w].kid = c /\ op[w].dir = p

HeldFits(o) == held[o] > 0 /\ Sound(o) =>
  (IsFolder(o) => obj[o].known) /\ (Below(o) => Placed(o))

FeedFits == feed.pc \in Feeding /\ IsFolder(feed.kid) /\ Sound(feed.kid) => Alive(feed.kid)

LinkInv ==
  /\ \A w \in Workers : KidFits(w)
  /\ \A p \in Objs : \A c \in obj[p].children : ChildFits(p, c)
  /\ \A o \in Objs : HeldFits(o)
  /\ FeedFits

(* A step that an object survives.                                         *)
Survives(o) == Sound(o)' =>
  /\ IsFolder(o) /\ obj[o].known =>
       \/ obj'[o].known
       \/ /\ obj'[o].trashed /\ held'[o] = 0
          /\ \A w \in Workers : op'[w].kid = o =>
               op'[w].pc \notin {"found", "addChild", "addParent", "assert"}
  /\ IsFolder(o) /\ obj[o].trashed => Alive(o)'
  /\ obj[o].parents # {} => obj'[o].parents # {}
  /\ Below(o) /\ (Linking(o) \/ Leaving(o)) => Placed(o)'
  /\ Adding(o) => (Adding(o)' /\ feed'.at = feed.at) \/ obj'[o].parents # {}

LinkKept == LinkInv' /\ \A o \in Objs : Seen(o) => Survives(o)

LEMMA LinkKeeps ==
  ASSUME TypeInv, OpInv, LinkInv, TypeInv', OpInv', odd \subseteq odd',
         \A o \in Objs : Seen(o) => Survives(o),
         \A w \in Workers : op'[w] = op[w] \/ KidFits(w)',
         \A w \in Workers : op[w].pc = "addParent" =>
           op'[w] = op[w] \/ obj'[op[w].kid].parents # {},
         \A p \in Objs : \A c \in obj'[p].children : c \in obj[p].children \/ ChildFits(p, c)',
         \A o \in Objs : (held[o] > 0 /\ held'[o] > 0) \/ HeldFits(o)',
         (feed.pc \in Feeding /\ feed'.kid = feed.kid) \/ FeedFits'
  PROVE  LinkKept
<1>0. \A o : Sound(o)' => Sound(o)
  BY DEF Sound
<1>a. \A o \in Objs : Seen(o) /\ Sound(o)' =>
        /\ IsFolder(o) /\ Alive(o) => Alive(o)'
        /\ Below(o) /\ Placed(o) => Placed(o)'
  BY DEF Survives, Alive, Placed
<1>1. ASSUME NEW w \in Workers
      PROVE  KidFits(w)'
  <2> SUFFICES ASSUME op'[w] = op[w], op[w].pc \notin {"idle", "insert"}
               PROVE  KidFits(w)'
    BY DEF KidFits
  <2> DEFINE o == op[w].kid
  <2>1. o \in Objs /\ Seen(o)
    BY DEF OpInv, OpOK, Seen
  <2> SUFFICES ASSUME Sound(o)'
               PROVE  KidFits(w)'
    BY DEF KidFits
  <2>2. Sound(o) /\ Survives(o) /\ KidFits(w)
    BY <1>0, <2>1 DEF LinkInv
  <2>3. IsFolder(o) /\ op[w].pc \in {"found", "addChild", "addParent", "assert"} => obj'[o].known
    BY <2>2 DEF KidFits, Survives
  <2>4. IsFolder(o) /\ op[w].pc \in {"take", "give"} => Alive(o)'
    BY <1>a, <2>1, <2>2 DEF KidFits
  <2>5. Below(o) /\ op[w].pc = "found" => Placed(o)'
    BY <1>a, <2>1, <2>2 DEF KidFits
  <2>6. Below(o) /\ op[w].pc \in {"take", "give", "unchild", "assert"} => obj'[o].parents # {}
    BY <2>2 DEF KidFits, Survives
  <2> QED BY <2>3, <2>4, <2>5, <2>6 DEF KidFits, Below, IsFolder
<1>2. ASSUME NEW p \in Objs, NEW c \in obj'[p].children
      PROVE  ChildFits(p, c)'
  <2> SUFFICES ASSUME c \in obj[p].children, Sound(c)'
               PROVE  ChildFits(p, c)'
    BY DEF ChildFits
  <2>1. c \in Objs /\ Seen(c) /\ Sound(c) /\ ChildFits(p, c) /\ Survives(c)
    BY <1>0 DEF Seen, TypeInv, ObjType, LinkInv
  <2>2. IsFolder(c) => Alive(c)'
    BY <1>a, <2>1 DEF ChildFits
  <2>3. ASSUME Below(c)
        PROVE  \/ obj'[c].parents # {}
               \/ Adding(c)' /\ feed'.at = p
               \/ \E w \in Workers : op'[w].pc = "addParent" /\ op'[w].kid = c /\ op'[w].dir = p
    <3>1. CASE obj[c].parents # {} \/ (Adding(c) /\ feed.at = p)
      BY <2>1, <3>1 DEF Survives
    <3>2. ASSUME NEW w \in Workers, op[w].pc = "addParent", op[w].kid = c, op[w].dir = p
          PROVE  \/ obj'[c].parents # {}
                 \/ \E v \in Workers : op'[v].pc = "addParent" /\ op'[v].kid = c /\ op'[v].dir = p
      <4>1. op'[w] = op[w] \/ obj'[c].parents # {}
        BY <3>2
      <4> QED BY <3>2, <4>1
    <3> QED BY <2>1, <2>3, <3>1, <3>2 DEF ChildFits
  <2> QED BY <2>2, <2>3 DEF ChildFits, Below, IsFolder
<1>3. ASSUME NEW o \in Objs
      PROVE  HeldFits(o)'
  <2> SUFFICES ASSUME held[o] > 0, held'[o] > 0, Sound(o)'
               PROVE  HeldFits(o)'
    BY DEF HeldFits
  <2>1. Seen(o) /\ Sound(o) /\ HeldFits(o) /\ Survives(o)
    BY <1>0 DEF Seen, LinkInv
  <2>2. IsFolder(o) => obj'[o].known
    <3>1. held'[o] # 0
      BY DEF TypeInv
    <3> QED BY <2>1, <3>1 DEF HeldFits, Survives
  <2>3. Below(o) => Placed(o)'
    BY <1>a, <2>1 DEF HeldFits
  <2> QED BY <2>2, <2>3 DEF HeldFits, Below, IsFolder
<1>4. FeedFits'
  <2> SUFFICES ASSUME feed.pc \in Feeding, feed'.kid = feed.kid, Sound(feed.kid)', IsFolder(feed.kid)
               PROVE  FeedFits'
    BY DEF FeedFits, IsFolder
  <2>1. feed.kid \in Objs /\ Seen(feed.kid)
    BY DEF TypeInv, Seen
  <2>2. Sound(feed.kid)
    BY DEF Sound
  <2> QED BY <1>a, <2>1, <2>2 DEF LinkInv, FeedFits
<1> QED BY <1>1, <1>2, <1>3, <1>4 DEF LinkInv, LinkKept

(* An object of which only the name, the count or other children change.   *)
LEMMA KeptSurvives ==
  ASSUME TypeInv, NEW o \in Objs, Kept(o), feed' = feed,
         Linking(o) => o \in obj'[feed.at].children \/ Leaving(o)' \/ obj[o].parents # {} \/ ~Sound(o)',
         Leaving(o) => Leaving(o)' \/ obj[o].parents # {} \/ ~Sound(o)'
  PROVE  Survives(o)
BY DEF Survives, Kept, Alive, Linking, Adding, Placed

LEMMA StartLink ==
  ASSUME TypeInv, OpInv, FetchInv, LinkInv, TypeInv', OpInv', NEW w \in Workers, Starts(w)
  PROVE  LinkKept
<1>0. feed' = feed /\ held' = held
  BY StartDoes
<1>1. PICK r \in OpType : Begins(w, r) /\ (Looks(r) \/ Makers(r) \/ Removes(r) \/ Renames(r))
  BY StartDoes
<1>2. op[w].pc = "idle" /\ op'[w] = r /\ \A v \in Workers \ {w} : op'[v] = op[v]
  BY <1>1, SetFacts DEF Begins
<1>3. odd \subseteq odd'
  BY <1>1 DEF Looks, Makers, Removes, Renames
<1>4. \A o \in Objs : Survives(o)
  <2> SUFFICES ASSUME NEW o \in Objs, Sound(o)'
               PROVE  Survives(o)
    BY DEF Survives
  <2>1. Kept(o)
    BY <1>1 DEF Looks, Makers, Removes, Renames, AllSame, SameObj, Loses, Trashes, Sound
  <2>2. Leaving(o) => Leaving(o)'
    BY <1>2 DEF Leaving
  <2>3. ASSUME NEW p \in Objs, o \in obj[p].children, o \notin obj'[p].children
        PROVE  Leaving(o)'
    <3>1. Removes(r) /\ r.kid = o /\ r.req = "unlink"
      BY <1>1, <2>3 DEF Looks, Makers, Removes, Renames, AllSame, SameObj, Loses, Trashes, Sound
    <3>2. r.pc = "wait"
      BY <3>1 DEF Removes, Sound
    <3> QED BY <1>2, <3>1, <3>2 DEF Leaving
  <2>4. Linking(o) => o \in obj'[feed.at].children \/ Leaving(o)'
    BY <2>3, ObjFacts DEF Linking, Adding, TypeInv
  <2> QED BY <1>0, <2>1, <2>2, <2>4, KeptSurvives
<1>5. \A p \in Objs : \A c \in obj'[p].children : c \in obj[p].children
  BY <1>1 DEF Looks, Makers, Removes, Renames, AllSame, SameObj, Loses, Trashes
<1>6. \A o \in Objs : (held[o] > 0 /\ held'[o] > 0) \/ HeldFits(o)'
  BY <1>0 DEF HeldFits
<1>7. KidFits(w)'
  <2>1. CASE r.pc \in {"insert", "wait", "drop", "name"}
    BY <1>2, <2>1 DEF KidFits
  <2>2. CASE Looks(r)
    <3>1. /\ r.kid \in Objs /\ ChildFits(r.dir, r.kid) /\ ~obj[r.kid].trashed
          /\ ~\E v \in Workers : op[v].pc = "addParent" /\ op[v].kid = r.kid /\ op[v].dir = r.dir
      BY <2>2 DEF Looks, LinkInv, Exclusive, TypeInv, ObjType
    <3>2. Sound(r.kid) => (IsFolder(r.kid) => obj[r.kid].known) /\ (Below(r.kid) => Placed(r.kid))
      BY <2>2, <3>1 DEF ChildFits, Alive, Placed, Linking, Looks
    <3>3. Kept(r.kid) /\ \A p \in Objs : obj'[p].children = obj[p].children
      BY <2>2, <3>1 DEF Looks, AllSame, SameObj
    <3>4. Leaving(r.kid) => Leaving(r.kid)'
      BY <1>2 DEF Leaving
    <3>5. Placed(r.kid) => Placed(r.kid)'
      BY <1>0, <3>3, <3>4, ObjFacts DEF Placed, Linking, Adding, Kept, TypeInv
    <3>6. Sound(r.kid)' => Sound(r.kid)
      BY <1>3 DEF Sound
    <3> QED BY <1>2, <2>2, <3>2, <3>3, <3>5, <3>6 DEF KidFits, Kept, Looks, Below, IsFolder
  <2>3. CASE Renames(r) /\ r.pc = "take"
    <3> SUFFICES ASSUME Sound(r.kid)'
                 PROVE  KidFits(w)'
      BY <1>2 DEF KidFits
    <3>1. /\ r.kid \in Objs /\ Sound(r.kid) /\ HeldFits(r.kid) /\ held[r.kid] > 0
          /\ ~Underway(IdOf(r.kid))
      BY <1>3, <2>3 DEF Renames, Sound, LinkInv, TypeInv, ObjType
    <3>2. ~Linking(r.kid)
      BY <3>1 DEF Linking, Adding, Underway, FetchInv, Feeding
    <3>3. ~Leaving(r.kid)
      BY <2>3 DEF Leaving, Renames, Exclusive
    <3>4. (IsFolder(r.kid) => obj[r.kid].known) /\ (Below(r.kid) => obj[r.kid].parents # {})
      BY <3>1, <3>2, <3>3 DEF HeldFits, Placed
    <3>5. Kept(r.kid)
      BY <2>3, <3>1 DEF Renames, AllSame, SameObj, Trashes, Sound
    <3> QED BY <1>2, <2>3, <3>4, <3>5 DEF KidFits, Kept, Alive, Below, IsFolder
  <2> QED BY <1>1, <2>1, <2>2, <2>3 DEF Looks, Makers, Removes, Renames
<1>8. FeedFits' \/ (feed.pc \in Feeding /\ feed'.kid = feed.kid)
  BY <1>0 DEF FeedFits
<1> QED BY <1>2, <1>3, <1>4, <1>5, <1>6, <1>7, <1>8, LinkKeeps

LEMMA StepLink ==
  ASSUME TypeInv, OpInv, MakeInv, RealInv, TaskInv, LinkInv, TypeInv', OpInv',
         NEW w \in Workers, Step(w)
  PROVE  LinkKept
<1>d. op[w].kid \in Objs /\ op[w].dir \in Objs
  BY StepDoes, StepFlow, ObjFacts DEF OpInv, OpOK
<1> SUFFICES ASSUME NEW o \in Objs, NEW d \in Objs, op[w].kid = o, op[w].dir = d
             PROVE  LinkKept
  BY <1>d
<1>0. feed' = feed /\ odd \subseteq odd' /\ Does(w)
  BY StepDoes
<1>1. Flow(op[w], op'[w]) /\ (\A v \in Workers \ {w} : op'[v] = op[v]) /\ op[w].pc # "idle"
  BY StepFlow
<1>f. FeedFits' \/ (feed.pc \in Feeding /\ feed'.kid = feed.kid)
  BY <1>0 DEF FeedFits
<1>k. KidFits(w) /\ (Sound(o)' => Sound(o))
  BY <1>0 DEF LinkInv, Sound
<1>n. Idle.pc = "idle" /\ Idle.kid = NoObj
  BY DEF Idle
<1>i. op'[w].pc = "idle" => KidFits(w)'
  BY DEF KidFits
<1>h. held' = held => \A q \in Objs : (held[q] > 0 /\ held'[q] > 0) \/ HeldFits(q)'
  BY DEF HeldFits
<1> DEFINE Survive == \A q \in Objs : Seen(q) => Survives(q)
           Children == \A p \in Objs : \A c \in obj'[p].children :
                         c \in obj[p].children \/ ChildFits(p, c)'
           Helds == \A q \in Objs : (held[q] > 0 /\ held'[q] > 0) \/ HeldFits(q)'
           Parent == op[w].pc = "addParent" => obj'[o].parents # {}
<1>l. ASSUME Survive, Children, Helds, Parent, KidFits(w)'
      PROVE  LinkKept
  BY <1>0, <1>1, <1>f, <1>l, LinkKeeps
<1>u. \A q \in Objs : Leaving(q) => Leaving(q)' \/ obj[q].parents # {} \/ ~Sound(q)'
  <2> SUFFICES ASSUME NEW q \in Objs, NEW v \in Workers, op[v].kid = q, op[v].req = "unlink",
                      op[v].pc \in {"wait", "remove", "detach"}, Sound(q)'
               PROVE  Leaving(q)' \/ obj[q].parents # {}
    BY DEF Leaving
  <2>1. CASE v # w
    BY <1>1, <2>1 DEF Leaving
  <2>2. CASE v = w
    <3>1. Quietly(w) /\ op'[w].pc \in {"remove", "detach", "unchild"}
      BY <1>0, <2>2 DEF Does, Quietly, Counts, Inserts, Sound
    <3>2. op'[w].kid = q /\ op'[w].req = "unlink"
      BY <1>1, <1>n, <2>2, <3>1 DEF Flow
    <3>3. op'[w].pc = "unchild" => Cardinality(obj[q].parents) = 1
      BY <2>2, <3>1 DEF Quietly
    <3>4. op'[w].pc = "unchild" => obj[q].parents # {}
      BY <3>3, FS_EmptySet
    <3> QED BY <3>1, <3>2, <3>4 DEF Leaving
  <2> QED BY <2>1, <2>2
<1>s. ASSUME NEW q \in Objs, Kept(q),
             \A p \in Objs : q \in obj[p].children => \/ q \in obj'[p].children
                                                    \/ obj[q].parents # {} \/ ~Sound(q)'
      PROVE  Survives(q)
  <2>1. Linking(q) => q \in obj'[feed.at].children \/ obj[q].parents # {} \/ ~Sound(q)'
    BY <1>s, ObjFacts DEF Linking, Adding, TypeInv
  <2> QED BY <1>0, <1>u, <1>s, <2>1, KeptSurvives
<1>2. CASE Quietly(w)
  <2>1. Children /\ Parent /\ Survive /\ Helds
    BY <1>h, <1>s, <1>2 DEF Quietly, AllSame, SameObj
  <2>2. KidFits(w)'
    <3>1. op'[w] = Idle \/ (op'[w].kid = o /\ op'[w].pc \in {"remove", "unchild", "detach", "mark", "save", "tell"})
      BY <1>1, <1>2 DEF Flow, Quietly
    <3>2. op'[w].pc = "unchild" => Cardinality(obj[o].parents) = 1 /\ obj'[o].parents = obj[o].parents
      BY <1>2 DEF Quietly, AllSame, SameObj, Kept
    <3>3. op'[w].pc = "unchild" => obj'[o].parents # {}
      BY <3>2, FS_EmptySet
    <3> QED BY <1>i, <1>n, <3>1, <3>3 DEF KidFits
  <2> QED BY <1>l, <2>1, <2>2
<1>3. CASE Counts(w)
  <2>1. Children /\ Parent /\ Survive
    BY <1>s, <1>3 DEF Counts
  <2>2. KidFits(w)'
    BY <1>i, <1>n, <1>3 DEF Counts
  <2>3. HeldFits(o)'
    <3>1. Kept(o) /\ Survives(o)
      BY <1>0, <1>s, <1>3 DEF Counts
    <3>2. Sound(o)' => (IsFolder(o) => obj[o].known) /\ (Below(o) => Placed(o))
      BY <1>k, <1>3 DEF KidFits, Counts, Placed
    <3>3. Sound(o)' => (IsFolder(o) => obj'[o].known) /\ (Below(o) => Placed(o)')
      BY <3>1, <3>2 DEF Survives, Kept, Placed
    <3> QED BY <3>3 DEF HeldFits, Below, IsFolder
  <2>4. Helds
    BY <2>3, <1>3 DEF Counts, HeldFits
  <2> QED BY <1>l, <2>1, <2>2, <2>3, <2>4
<1>4. CASE Inserts(w)
  <2>1. ~Seen(o)
    BY <1>4 DEF MakeInv, Inserts
  <2>2. Survive
    <3> SUFFICES ASSUME NEW q \in Objs, q # o
                 PROVE  Survives(q)
      BY <2>1
    <3>1. Kept(q) /\ obj'[q].children = obj[q].children
      BY <1>4 DEF Inserts, SameObj
    <3>2. feed.pc = "addParent" => feed.at \in Objs /\ feed.at # o
      BY <1>4, ObjFacts DEF RealInv, Inserts, TypeInv
    <3>3. Linking(q) => q \in obj'[feed.at].children
      BY <1>0, <1>4, <3>2 DEF Linking, Adding, Inserts, SameObj
    <3> QED BY <1>0, <1>u, <3>1, <3>3, KeptSurvives
  <2>3. Children /\ Parent /\ Helds
    BY <1>0, <1>h, <1>4 DEF Inserts, SameObj
  <2>4. KidFits(w)'
    BY <1>1, <1>n, <1>4 DEF Inserts, KidFits, Flow
  <2> QED BY <1>l, <2>2, <2>3, <2>4
<1>5. CASE op[w].pc = "addChild" /\ op'[w].pc = "addParent" /\ Adds(d, o)
  <2>1. op'[w].kid = o /\ op'[w].dir = d /\ Kept(o)
    BY <1>0, <1>1, <1>n, <1>5 DEF Flow, Adds
  <2>2. Survive /\ Parent /\ Helds
    BY <1>h, <1>s, <1>5 DEF Adds
  <2>3. Sound(o)' /\ IsFolder(o) => obj'[o].known
    BY <1>k, <1>5, <2>1 DEF KidFits, Kept
  <2>4. KidFits(w)'
    BY <1>5, <2>1, <2>3 DEF KidFits, IsFolder
  <2>5. ChildFits(d, o)'
    BY <1>5, <2>1, <2>3 DEF ChildFits, Alive, IsFolder
  <2>6. Children
    BY <1>5, <2>5 DEF Adds
  <2> QED BY <1>l, <2>2, <2>4, <2>6
<1>6. CASE op[w].pc = "addParent" /\ op'[w].pc = "assert" /\ Parented(o, obj[o].parents \cup {d})
  <2>1. op'[w].kid = o /\ obj'[o].parents # {} /\ obj'[o].known = obj[o].known
    BY <1>0, <1>1, <1>n, <1>6 DEF Flow, Parented
  <2>2. Survives(o)
    BY <1>0, <1>6, <2>1 DEF Survives, Parented, Alive, Placed, Adding
  <2>3. \A q \in Objs : q # o => Survives(q)
    BY <1>s, <1>6 DEF Parented, Kept
  <2>4. Survive /\ Children /\ Parent /\ Helds
    BY <1>h, <1>6, <2>1, <2>2, <2>3 DEF Parented
  <2>5. KidFits(w)'
    BY <1>k, <1>6, <2>1 DEF KidFits
  <2> QED BY <1>l, <2>4, <2>5
<1>v. ASSUME ~Sound(o)'
      PROVE  Survives(o)
  BY <1>v DEF Survives
<1>t. op[w].pc \in {"drop", "off", "orphan"} => ~Sound(o)'
  BY <1>0 DEF TaskInv, Sound
<1>7. CASE op[w].pc \in {"drop", "mark"} /\ ~IsFolder(o) /\ Trashes(o)
  <2>1. \A q \in Objs : q # o => Survives(q)
    BY <1>s, <1>7 DEF Trashes, SameObj
  <2>4. Survives(o)
    <3>1. (Linking(o) => Linking(o)') /\ obj'[o].parents = obj[o].parents
      BY <1>0, <1>7, ObjFacts DEF Trashes, Linking, Adding, TypeInv
    <3> QED BY <1>0, <1>u, <1>7, <3>1 DEF Survives, Placed, Adding
  <2>2. Children /\ Parent /\ Helds
    BY <1>h, <1>7 DEF Trashes
  <2>3. KidFits(w)'
    BY <1>1, <1>i, <1>n, <1>7 DEF Flow, KidFits
  <2> QED BY <1>l, <2>1, <2>2, <2>3, <2>4
<1>8. CASE op[w].pc = "orphan" /\ ~IsFolder(o) /\ Parented(o, obj[o].parents \ {d})
  <2>1. Survive
    BY <1>s, <1>t, <1>v, <1>8 DEF Parented, Kept
  <2>2. Children /\ Parent /\ Helds
    BY <1>h, <1>8 DEF Parented
  <2>3. KidFits(w)'
    BY <1>1, <1>i, <1>n, <1>8 DEF Flow, KidFits
  <2> QED BY <1>l, <2>1, <2>2, <2>3
<1>9. CASE /\ op[w].pc \in {"off", "unchild", "take"} /\ Loses(d, o)
           /\ op[w].pc = "off" => ~IsFolder(o)
  <2>1. Kept(o) /\ Children /\ Parent /\ Helds
    BY <1>0, <1>h, <1>9 DEF Loses
  <2>2. \A q \in Objs : q # o => Survives(q)
    BY <1>s, <1>9 DEF Loses
  <2>3. Survives(o)
    <3> SUFFICES ASSUME Sound(o)'
                 PROVE  Survives(o)
      BY DEF Survives
    <3>1. Below(o) => obj[o].parents # {}
      BY <1>k, <1>t, <1>9 DEF KidFits
    <3> QED BY <1>0, <2>1, <3>1 DEF Survives, Kept, Alive, Placed, Adding
  <2>4. KidFits(w)'
    <3>1. op'[w].pc \notin {"idle", "orphan", "mark"} => op[w].pc = "take" /\ op'[w].pc = "give" /\ op'[w].kid = o
      BY <1>1, <1>n, <1>9 DEF Flow
    <3>2. CASE op[w].pc = "take" /\ op'[w].pc = "give" /\ op'[w].kid = o
      <4>1. Sound(o)' => (IsFolder(o) => Alive(o)') /\ (Below(o) => obj'[o].parents # {})
        BY <1>k, <2>1, <3>2 DEF KidFits, Kept, Alive
      <4> QED BY <3>2, <4>1 DEF KidFits, Below, IsFolder
    <3>3. CASE op'[w].pc \in {"idle", "orphan", "mark"}
      BY <3>3 DEF KidFits
    <3> QED BY <3>1, <3>2, <3>3
  <2> QED BY <1>l, <2>1, <2>2, <2>3, <2>4
<1>10. CASE op[w].pc = "give" /\ Adds(op[w].to, o)
  <2>1. Kept(o) /\ Survive /\ Parent /\ Helds
    BY <1>0, <1>h, <1>s, <1>10 DEF Adds
  <2>2. KidFits(w)'
    BY <1>1, <1>i, <1>n, <1>10 DEF Flow, KidFits
  <2>3. \A t : ChildFits(t, o)'
    BY <1>k, <1>10, <2>1 DEF ChildFits, KidFits, Kept, Alive, Below, IsFolder
  <2>4. Children
    BY <1>10, <2>3 DEF Adds
  <2> QED BY <1>l, <2>1, <2>2, <2>4
<1> QED BY <1>0, <1>2, <1>3, <1>4, <1>5, <1>6, <1>7, <1>8, <1>9, <1>10 DEF Does

LEMMA SameLink ==
  ASSUME TypeInv, OpInv, LinkInv, TypeInv', OpInv', AllSame,
         op' = op, feed' = feed, odd \subseteq odd'
  PROVE  LinkKept
<1>1. \A o \in Objs : Survives(o)
  <2> SUFFICES ASSUME NEW o \in Objs
               PROVE  Survives(o)
    OBVIOUS
  <2>1. Kept(o) /\ \A p \in Objs : o \in obj[p].children => o \in obj'[p].children
    BY DEF AllSame, SameObj
  <2>2. Leaving(o) => Leaving(o)'
    BY DEF Leaving
  <2>3. Linking(o) => o \in obj'[feed.at].children
    BY <2>1, ObjFacts DEF Linking, Adding, TypeInv
  <2> QED BY <2>1, <2>2, <2>3, KeptSurvives
<1>2. \A p \in Objs : \A c \in obj'[p].children : c \in obj[p].children
  BY DEF AllSame, SameObj
<1>3. \A o \in Objs : (held[o] > 0 /\ held'[o] > 0) \/ HeldFits(o)'
  BY DEF AllSame, HeldFits
<1>4. (feed.pc \in Feeding /\ feed'.kid = feed.kid) \/ FeedFits'
  BY DEF FeedFits
<1> QED BY <1>1, <1>2, <1>3, <1>4, LinkKeeps

(* A file that is not odd has its place: forget leaves it in the maps.     *)
LEMMA ForgetKeeps ==
  ASSUME TypeInv, LinkInv, NEW o \in Objs, Forget(o), Sound(o)'
  PROVE  (obj[o].known => obj'[o].known) /\ byId' = byId
<1>0. Forgets(o)
  BY ForgetDoes
<1> SUFFICES ASSUME obj[o].known, ~obj'[o].known, obj[o].parents = {},
                    \A p \in Objs : o \notin obj[p].children
             PROVE  FALSE
  BY <1>0 DEF Forgets, SameObj, Kept, Sound
<1>1. HeldFits(o) /\ Sound(o) /\ held[o] > 0 /\ Below(o)
  BY <1>0 DEF Forgets, LinkInv, Sound, Below
<1>2. ~Linking(o)
  BY ObjFacts DEF Linking, Adding, TypeInv
<1>3. ~Leaving(o)
  BY <1>0 DEF Leaving, Forgets, Exclusive
<1> QED BY <1>1, <1>2, <1>3 DEF HeldFits, Placed

LEMMA ForgetLink ==
  ASSUME TypeInv, OpInv, LinkInv, TypeInv', OpInv', NEW o \in Objs, Forget(o)
  PROVE  LinkKept
<1>0. Forgets(o)
  BY ForgetDoes
<1>1. Survives(o)
  <2> SUFFICES ASSUME Sound(o)'
               PROVE  Survives(o)
    BY DEF Survives
  <2>1. obj[o].known => obj'[o].known
    BY ForgetKeeps
  <2>2. /\ obj'[o].trashed = obj[o].trashed /\ obj'[o].parents = obj[o].parents
        /\ op' = op /\ feed' = feed /\ \A p \in Objs : obj'[p].children = obj[p].children
    BY <1>0 DEF Forgets
  <2>3. (Linking(o) => Linking(o)') /\ (Leaving(o) => Leaving(o)')
    BY <2>2, ObjFacts DEF Linking, Adding, Leaving, TypeInv
  <2> QED BY <2>1, <2>2, <2>3 DEF Survives, Alive, Placed, Adding
<1>2. \A q \in Objs : Survives(q)
  <2> SUFFICES ASSUME NEW q \in Objs, q # o
               PROVE  Survives(q)
    BY <1>1
  <2>1. /\ Kept(q) /\ feed' = feed /\ op' = op
        /\ \A p \in Objs : obj'[p].children = obj[p].children
    BY <1>0 DEF Forgets, SameObj
  <2>2. (Linking(q) => q \in obj'[feed.at].children) /\ (Leaving(q) => Leaving(q)')
    BY <2>1, ObjFacts DEF Linking, Adding, Leaving, TypeInv
  <2> QED BY <2>1, <2>2, KeptSurvives
<1>3. \A q \in Objs : (held[q] > 0 /\ held'[q] > 0) \/ HeldFits(q)'
  <2>1. \A q \in Objs : held'[q] = held[q] \/ held'[q] = 0
    BY <1>0 DEF Forgets, TypeInv
  <2> QED BY <2>1 DEF HeldFits
<1>4. /\ op' = op /\ odd \subseteq odd'
      /\ (feed.pc \in Feeding /\ feed'.kid = feed.kid) \/ FeedFits'
      /\ \A p \in Objs : \A c \in obj'[p].children : c \in obj[p].children
  BY <1>0 DEF Forgets, FeedFits
<1> QED BY <1>2, <1>3, <1>4, LinkKeeps

LEMMA FeedLink ==
  ASSUME TypeInv, OpInv, MapInv, FetchInv, OldInv, CountInv, LinkInv, TypeInv', OpInv', Feed
  PROVE  LinkKept
<1>0. op' = op /\ held' = held /\ odd \subseteq odd' /\ FeedDoes
  BY FeedStepDoes
<1> DEFINE Survive == \A q \in Objs : Seen(q) => Survives(q)
           Children == \A p \in Objs : \A c \in obj'[p].children :
                         c \in obj[p].children \/ ChildFits(p, c)'
           Fits == (feed.pc \in Feeding /\ feed'.kid = feed.kid) \/ FeedFits'
<1>l. ASSUME Survive, Children, Fits
      PROVE  LinkKept
  <2>1. \A o \in Objs : (held[o] > 0 /\ held'[o] > 0) \/ HeldFits(o)'
    BY <1>0 DEF HeldFits
  <2> QED BY <1>0, <1>l, <2>1, LinkKeeps
<1>s. ASSUME NEW q \in Objs, Kept(q), ~Adding(q)
      PROVE  Survives(q)
  BY <1>0, <1>s DEF Survives, Kept, Alive, Placed, Linking, Leaving
<1>n. feed' = NoChange => Fits
  BY DEF NoChange, FeedFits, Feeding
<1>g. ASSUME NEW pcs, GoesOn(pcs), feed.pc \in Feeding
      PROVE  Fits
  BY <1>g, <1>n DEF GoesOn
<1>t. feed.pc \in Feeding \cup {"leave"} => feed.kid \in Objs
  BY DEF TypeInv
<1>1. ASSUME NEW id \in Ids, Fetches(id)
      PROVE  LinkKept
  <2>1. Survive /\ Children
    BY <1>s, <1>1 DEF Fetches, AllSame, SameObj, Adding
  <2>2. Fits
    BY <1>1 DEF Fetches, FeedFits, Feeding
  <2> QED BY <1>l, <2>1, <2>2
<1>2. CASE feed.pc = "apply" /\ AllSame /\ feed' = NoChange
  <2>1. Survive /\ Children
    BY <1>s, <1>2 DEF AllSame, SameObj, Adding
  <2> QED BY <1>l, <1>n, <1>2, <2>1
<1>3. CASE /\ feed.pc = "apply" /\ Known \in Objs /\ IdOf(Known) = feed.id /\ Trashes(Known)
           /\ \/ feed' = NoChange
              \/ feed'.pc = "leave" /\ feed'.kid = Known /\ feed'.id = feed.id
  <2> SUFFICES ASSUME NEW k \in Objs, Trashes(k)
               PROVE  LinkKept
    BY <1>3
  <2>1. Fits
    BY <1>n, <1>3 DEF FeedFits, Feeding
  <2>2. Children
    BY DEF Trashes
  <2>3. \A q \in Objs : q # k => Survives(q)
    BY <1>s, <1>3 DEF Trashes, SameObj, Adding
  <2>4. Survives(k)
    <3> SUFFICES ASSUME Sound(k)'
                 PROVE  Survives(k)
      BY DEF Survives
    <3>0. obj'[k].parents = obj[k].parents /\ ~Adding(k) /\ (Leaving(k) => Leaving(k)')
      BY <1>0, <1>3 DEF Trashes, Adding, Leaving
    <3>1. IdOf(k) \notin Uncounted(k) /\ Counted(k)
      BY DEF Sound, Trashes, CountInv
    <3>2. CASE IsFolder(k) /\ obj[k].known /\ obj[k].count = 0
      <4>1. held'[k] = 0
        BY <1>0, <3>1, <3>2 DEF Counted
      <4>2. \A w \in Workers : op'[w].kid = k =>
              op'[w].pc \notin {"found", "addChild", "addParent", "assert"}
        BY <1>0, <3>1, <3>2 DEF Uncounted
      <4> QED BY <3>0, <4>1, <4>2 DEF Survives, Trashes, Alive, Placed, Linking
    <3>3. CASE ~(IsFolder(k) /\ obj[k].known /\ obj[k].count = 0)
      BY <3>0, <3>3 DEF Survives, Trashes, Alive, Placed, Linking
    <3> QED BY <3>2, <3>3
  <2> QED BY <1>l, <2>1, <2>2, <2>3, <2>4
<1>4. CASE Knows
  <2>1. Known \in Objs /\ obj[Known].known
    BY <1>4 DEF Knows, MapInv, TypeInv, FeedType, Known, NoObj, AnyObj, Objs
  <2> SUFFICES ASSUME NEW k \in Objs, Known = k
               PROVE  LinkKept
    BY <2>1
  <2>2. /\ feed.pc = "apply" /\ feed'.kid = k /\ \A o \in Objs : o # k => SameObj(o)
        /\ obj[k].known /\ obj'[k].known /\ obj'[k].parents = obj[k].parents
        /\ obj'[k].children = obj[k].children
    BY <1>4, <2>1 DEF Knows
  <2>3. Children /\ Fits
    BY <2>2 DEF SameObj, FeedFits, Alive
  <2>4. \A q \in Objs : q # k => Survives(q)
    BY <1>s, <2>2 DEF SameObj, Adding
  <2>5. Survives(k)
    BY <1>0, <2>2 DEF Survives, Alive, Adding, Placed, Linking, Leaving
  <2> QED BY <1>l, <2>3, <2>4, <2>5
<1>5. ASSUME NEW o \in Objs, FindsNew(o)
      PROVE  LinkKept
  <2>1. ~Seen(o)
    BY <1>5 DEF FindsNew, Unused, Seen, TypeInv
  <2>2. \A q \in Objs : q # o => SameObj(q) /\ ~Adding(q)
    BY <1>5 DEF FindsNew, Adding
  <2>3. Survive
    BY <1>s, <2>1, <2>2 DEF SameObj
  <2>4. Children
    BY <1>5, <2>2 DEF SameObj, FindsNew
  <2>5. feed' = NoChange \/ feed'.kid = o
    BY <1>5 DEF FindsNew
  <2>6. Fits
    BY <1>n, <1>5, <2>5 DEF FindsNew, FeedFits, Alive
  <2> QED BY <1>l, <2>3, <2>4, <2>6
<1>6. CASE feed.pc = "leave" /\ GoesOn({"leave"}) /\ \E p \in Objs : Loses(p, feed.kid)
  <2>1. Survive /\ Children
    BY <1>s, <1>6 DEF Loses, Adding
  <2>2. Fits
    BY <1>n, <1>6 DEF GoesOn, FeedFits, Feeding
  <2> QED BY <1>l, <2>1, <2>2
<1>7. CASE /\ feed.pc = "remove" /\ GoesOn({"removeParent"})
           /\ \E p \in Objs : Loses(p, feed.kid)
  <2>1. Survive /\ Children
    BY <1>s, <1>7 DEF Loses, Adding
  <2>2. Fits
    BY <1>g, <1>7 DEF Feeding
  <2> QED BY <1>l, <2>1, <2>2
<1>8. CASE /\ feed.pc = "removeParent" /\ GoesOn({"remove"})
           /\ Parented(feed.kid, obj[feed.kid].parents \ {feed.at})
  <2> SUFFICES ASSUME NEW k \in Objs, feed.kid = k
               PROVE  LinkKept
    BY <1>t, <1>8 DEF Feeding
  <2>1. \A q \in Objs : q # k => Survives(q)
    BY <1>s, <1>8 DEF Parented, Kept, Adding
  <2>2. Survives(k)
    <3> SUFFICES ASSUME Sound(k)'
                 PROVE  Survives(k)
      BY DEF Survives
    <3>1. feed.at \notin obj[k].parents
      BY <1>0, <1>8 DEF OldInv, Sound, Feeding
    <3>2. obj'[k].parents = obj[k].parents
      BY <1>8, <3>1 DEF Parented
    <3>3. Kept(k) /\ ~Adding(k)
      BY <1>8, <3>2 DEF Parented, Kept, Adding
    <3> QED BY <1>s, <3>3
  <2>3. Children
    BY <1>8 DEF Parented
  <2>4. Fits
    BY <1>g, <1>8 DEF Feeding
  <2> QED BY <1>l, <2>1, <2>2, <2>3, <2>4
<1>9. CASE feed.pc = "remove" /\ AllSame /\ GoesOn({"add"})
  <2>1. Survive /\ Children
    BY <1>s, <1>9 DEF AllSame, SameObj, Adding
  <2>2. Fits
    BY <1>g, <1>9 DEF Feeding
  <2> QED BY <1>l, <2>1, <2>2
<1>10. CASE /\ feed.pc = "add" /\ feed'.pc = "addParent" /\ GoesOn({"addParent"})
            /\ feed'.at \in Objs /\ Adds(feed'.at, feed.kid)
  <2> SUFFICES ASSUME NEW k \in Objs, feed.kid = k, NEW p \in Objs, feed'.at = p
               PROVE  LinkKept
    BY <1>t, <1>10 DEF Feeding
  <2>1. feed'.kid = k
    BY <1>10 DEF GoesOn, NoChange
  <2>2. Survive /\ Kept(k)
    BY <1>s, <1>10 DEF Adds, Adding
  <2>3. ASSUME k \in obj'[p].children
        PROVE  ChildFits(p, k)'
    <3>1. Adding(k)' /\ feed'.at = p
      BY <1>10, <2>1, <2>3 DEF Adding
    <3>2. Sound(k)' /\ IsFolder(k) => Alive(k)'
      BY <1>0, <1>10, <2>2 DEF LinkInv, FeedFits, Feeding, Sound, Kept, Alive
    <3> QED BY <3>1, <3>2 DEF ChildFits, IsFolder
  <2>4. Children
    BY <1>10, <2>3 DEF Adds
  <2>5. Fits
    BY <1>g, <1>10 DEF Feeding
  <2> QED BY <1>l, <2>2, <2>4, <2>5
<1>11. CASE /\ feed.pc = "addParent" /\ GoesOn({"add"})
            /\ Parented(feed.kid, obj[feed.kid].parents \cup {feed.at})
  <2> SUFFICES ASSUME NEW k \in Objs, feed.kid = k
               PROVE  LinkKept
    BY <1>t, <1>11 DEF Feeding
  <2>1. \A q \in Objs : q # k => Survives(q)
    BY <1>s, <1>11 DEF Parented, Kept, Adding
  <2>2. Survives(k)
    BY <1>11 DEF Parented, Survives, Alive, Placed
  <2>3. Children
    BY <1>11 DEF Parented
  <2>4. Fits
    BY <1>g, <1>11 DEF Feeding
  <2> QED BY <1>l, <2>1, <2>2, <2>3, <2>4
<1> QED BY <1>0, <1>1, <1>2, <1>3, <1>4, <1>5, <1>6, <1>7, <1>8, <1>9, <1>10, <1>11 DEF FeedDoes

LEMMA LinkStep ==
  ASSUME TypeInv, OpInv, MapInv, MakeInv, FetchInv, OldInv, CountInv, RealInv, TaskInv,
         LinkInv, Next
  PROVE  LinkKept
<1>1. TypeInv' /\ OpInv'
  BY NextType
<1>2. ASSUME NEW w \in Workers, Starts(w) \/ Step(w)
      PROVE  LinkKept
  BY <1>1, <1>2, StartLink, StepLink
<1>3. ASSUME NEW o \in Objs, Forget(o)
      PROVE  LinkKept
  BY <1>1, <1>3, ForgetLink
<1>4. ASSUME NEW o \in Objs, Store(o) \/ Mark(o)
      PROVE  LinkKept
  BY <1>1, <1>4, MarkDoes, SameLink
<1>5. CASE Outside
  BY <1>1, <1>5, OthersDoes, SameLink
<1>6. CASE Feed
  BY <1>1, <1>6, FeedLink
<1> QED BY <1>2, <1>3, <1>4, <1>5, <1>6 DEF Next, Outside


-----------------------------------------------------------------------------
(* The same by what is changed: who may do it.                             *)

LEMMA OpsDo ==
  ASSUME TypeInv, OpInv, Next
  PROVE  \A w \in Workers : op'[w] = op[w] \/ Starts(w) \/ Step(w)
<1>1. ASSUME NEW v \in Workers, Starts(v)
      PROVE  \A w \in Workers \ {v} : op'[w] = op[w]
  BY <1>1, StartDoes, SetFacts DEF Begins
<1>2. ASSUME NEW v \in Workers, Step(v)
      PROVE  \A w \in Workers \ {v} : op'[w] = op[w]
  BY <1>2, StepFlow
<1>3. ASSUME NEW o \in Objs, Forget(o) \/ Store(o) \/ Mark(o)
      PROVE  op' = op
  BY <1>3, ForgetDoes, MarkDoes DEF Forgets
<1>4. Outside \/ Feed => op' = op
  BY OthersDoes, FeedStepDoes
<1> QED BY <1>1, <1>2, <1>3, <1>4 DEF Next, Outside

LEMMA FeedDo ==
  ASSUME TypeInv, OpInv, Next
  PROVE  /\ odd \subseteq odd'
         /\ feed' = feed \/ (op' = op /\ held' = held /\ FeedDoes)
<1>1. ASSUME NEW w \in Workers, Starts(w) \/ Step(w)
      PROVE  feed' = feed /\ odd \subseteq odd'
  BY <1>1, StartDoes, StepDoes DEF Looks, Makers, Removes, Renames
<1>2. ASSUME NEW o \in Objs, Forget(o) \/ Store(o) \/ Mark(o)
      PROVE  feed' = feed /\ odd \subseteq odd'
  BY <1>2, ForgetDoes, MarkDoes DEF Forgets
<1> QED BY <1>1, <1>2, OthersDoes, FeedStepDoes DEF Next, Outside

(* Whose parents change: of a file that is not odd and that anything       *)
(* points at, only by a parent more, with its m_event.                     *)
Made(w, c)  == /\ op[w].pc = "addParent" /\ op'[w].pc = "assert" /\ op[w].kid = c
               /\ obj'[c].parents = obj[c].parents \cup {op[w].dir}
Orphan(w, c) == /\ op[w].pc = "orphan" /\ op[w].kid = c
                /\ obj'[c].parents = obj[c].parents \ {op[w].dir}
Fed(c)      == /\ feed.pc = "addParent" /\ feed'.pc # "addParent" /\ feed.kid = c
               /\ obj'[c].parents = obj[c].parents \cup {feed.at}
Unfed(c)    == /\ feed.pc = "removeParent" /\ feed.kid = c
               /\ obj'[c].parents = obj[c].parents \ {feed.at}

LEMMA ParentsDo ==
  ASSUME TypeInv, OpInv, MakeInv, Next, NEW c \in Objs
  PROVE  \/ obj'[c].parents = obj[c].parents
         \/ obj'[c].parents = {} /\ ~Seen(c)
         \/ \E w \in Workers : Orphan(w, c)
         \/ \E w \in Workers : Made(w, c) /\ ev[c] = "free"
         \/ (Fed(c) \/ Unfed(c)) /\ ev[c] = "free"
<1>1. ASSUME NEW w \in Workers, Starts(w)
      PROVE  obj'[c].parents = obj[c].parents
  <2>1. PICK r \in OpType : Looks(r) \/ Makers(r) \/ Removes(r) \/ Renames(r)
    BY <1>1, StartDoes
  <2> QED BY <2>1 DEF Looks, Makers, Removes, Renames, AllSame, SameObj, Kept, Loses, Trashes
<1>2. ASSUME NEW w \in Workers, Step(w)
      PROVE  \/ obj'[c].parents = obj[c].parents
             \/ obj'[c].parents = {} /\ ~Seen(c)
             \/ Orphan(w, c) \/ (Made(w, c) /\ ev[c] = "free")
  <2>1. Does(w)
    BY <1>2, StepDoes
  <2>2. CASE Inserts(w) /\ op[w].kid = c
    BY <2>2 DEF Inserts, MakeInv
  <2>3. CASE ~(Inserts(w) /\ op[w].kid = c)
    BY <2>1, <2>3 DEF Does, Quietly, AllSame, SameObj, Kept, Counts, Inserts, Adds, Loses, Parented,
                      Trashes, Orphan, Made
  <2> QED BY <2>2, <2>3
<1>3. ASSUME NEW o \in Objs, Forget(o) \/ Store(o) \/ Mark(o)
      PROVE  obj'[c].parents = obj[c].parents
  BY <1>3, ForgetDoes, MarkDoes DEF Forgets, AllSame, SameObj, Kept
<1>4. Outside => obj'[c].parents = obj[c].parents
  BY OthersDoes DEF AllSame, SameObj, Kept
<1>5. CASE Feed
  <2>1. FeedDoes
    BY <1>5, FeedStepDoes
  <2>2. ASSUME FindsNew(c)
        PROVE  obj'[c].parents = {} /\ ~Seen(c)
    BY <2>2 DEF FindsNew, Unused, Seen
  <2>3. CASE ~FindsNew(c)
    <3>1. NoChange.pc # "addParent"
      BY DEF NoChange
    <3> QED BY <2>1, <2>3, <3>1 DEF FeedDoes, Fetches, Knows, FindsNew, AllSame, SameObj, Kept, Loses, Adds,
                      Parented, Trashes, Fed, Unfed
  <2> QED BY <2>2, <2>3
<1> QED BY <1>1, <1>2, <1>3, <1>4, <1>5 DEF Next, Outside

(* Who puts a child into a folder.                                         *)
Puts(w, p, c)  == /\ op[w].pc = "addChild" /\ op'[w].pc = "addParent"
                  /\ op[w].kid = c /\ op[w].dir = p
Gives(w, p, c) == op[w].pc = "give" /\ op'[w].pc # "give" /\ op[w].kid = c /\ op[w].to = p
Links(p, c)    == /\ feed.pc = "add" /\ feed'.pc = "addParent"
                  /\ feed.kid = c /\ feed'.kid = c /\ feed'.at = p

LEMMA ChildrenDo ==
  ASSUME TypeInv, OpInv, Next, NEW p \in Objs, NEW c \in obj'[p].children
  PROVE  \/ c \in obj[p].children
         \/ \E w \in Workers : Puts(w, p, c) \/ Gives(w, p, c)
         \/ Links(p, c)
<1> SUFFICES ASSUME c \notin obj[p].children
             PROVE  (\E w \in Workers : Puts(w, p, c) \/ Gives(w, p, c)) \/ Links(p, c)
  OBVIOUS
<1>1. ASSUME NEW w \in Workers, Starts(w)
      PROVE  FALSE
  <2>1. PICK r \in OpType : Looks(r) \/ Makers(r) \/ Removes(r) \/ Renames(r)
    BY <1>1, StartDoes
  <2> QED BY <2>1 DEF Looks, Makers, Removes, Renames, AllSame, SameObj, Loses, Trashes
<1>2. ASSUME NEW w \in Workers, Step(w)
      PROVE  Puts(w, p, c) \/ Gives(w, p, c)
  <2>1. Does(w)
    BY <1>2, StepDoes
  <2>2. op[w].pc = "give" => op'[w].pc # "give"
    BY <1>2, StepFlow DEF Flow, Idle
  <2> QED BY <2>1, <2>2 DEF Does, Quietly, AllSame, SameObj, Counts, Inserts, Adds, Loses, Parented,
                            Trashes, Puts, Gives
<1>3. ASSUME NEW o \in Objs, Forget(o) \/ Store(o) \/ Mark(o)
      PROVE  FALSE
  BY <1>3, ForgetDoes, MarkDoes DEF Forgets, AllSame, SameObj
<1>4. Outside => FALSE
  BY OthersDoes DEF AllSame, SameObj
<1>5. CASE Feed
  <2>1. FeedDoes /\ NoChange.pc # "addParent"
    BY <1>5, FeedStepDoes DEF NoChange
  <2>2. ~\E o \in Objs : FindsNew(o)
    BY DEF FindsNew, SameObj
  <2> QED BY <2>1, <2>2 DEF FeedDoes, Fetches, Knows, AllSame, SameObj, Loses, Adds, Parented, Trashes,
                      GoesOn, Links
<1> QED BY <1>1, <1>2, <1>3, <1>4, <1>5 DEF Next, Outside

(* Who puts an object into idToObject.                                     *)
LEMMA MapDo ==
  ASSUME TypeInv, OpInv, Next, NEW id \in Ids
  PROVE  \/ byId'[id] = byId[id] \/ byId'[id] = NoObj
         \/ \E w \in Workers : Inserts(w) /\ IdOf(op[w].kid) = id /\ byId'[id] = op[w].kid
         \/ \E o \in Objs : FindsNew(o) /\ feed.id = id /\ byId'[id] = o
<1>1. ASSUME NEW w \in Workers, Starts(w)
      PROVE  byId'[id] = byId[id] \/ byId'[id] = NoObj
  <2>1. PICK r \in OpType : Looks(r) \/ Makers(r) \/ Removes(r) \/ Renames(r)
    BY <1>1, StartDoes
  <2> QED BY <2>1 DEF Looks, Makers, Removes, Renames, AllSame, Loses, Trashes
<1>2. ASSUME NEW w \in Workers, Step(w)
      PROVE  \/ byId'[id] = byId[id] \/ byId'[id] = NoObj
             \/ Inserts(w) /\ IdOf(op[w].kid) = id /\ byId'[id] = op[w].kid
  <2>1. Does(w)
    BY <1>2, StepDoes
  <2>2. CASE Inserts(w)
    BY <2>2 DEF Inserts, TypeInv
  <2>3. CASE ~Inserts(w)
    BY <2>1, <2>3 DEF Does, Quietly, AllSame, Counts, Adds, Loses, Parented, Trashes
  <2> QED BY <2>2, <2>3
<1>3. ASSUME NEW o \in Objs, Forget(o) \/ Store(o) \/ Mark(o)
      PROVE  byId'[id] = byId[id] \/ byId'[id] = NoObj
  BY <1>3, ForgetDoes, MarkDoes DEF Forgets, AllSame, TypeInv
<1>4. Outside => byId'[id] = byId[id]
  BY OthersDoes DEF AllSame
<1>5. CASE Feed
  <2>1. FeedDoes
    BY <1>5, FeedStepDoes
  <2>2. ASSUME NEW o \in Objs, FindsNew(o)
        PROVE  byId'[id] = byId[id] \/ (feed.id = id /\ byId'[id] = o)
    BY <2>2 DEF FindsNew, TypeInv
  <2>3. CASE ~\E o \in Objs : FindsNew(o)
    BY <2>1, <2>3 DEF FeedDoes, Fetches, Knows, AllSame, Adds, Loses, Parented, Trashes
  <2> QED BY <2>2, <2>3
<1> QED BY <1>1, <1>2, <1>3, <1>4, <1>5 DEF Next, Outside

-----------------------------------------------------------------------------
(* An object that is uploaded has a file on the server.                    *)

UpInv == \A o \in Objs : obj[o].uploaded => srv[IdOf(o)].st # "none"

LEMMA FieldUploads ==
  ASSUME TypeInv, NEW x \in Objs, NEW o \in Objs
  PROVE  /\ \A S : obj' = [obj EXCEPT ![x].children = S] => obj'[o].uploaded = obj[o].uploaded
         /\ \A S : obj' = [obj EXCEPT ![x].parents = S] => obj'[o].uploaded = obj[o].uploaded
         /\ \A n : obj' = [obj EXCEPT ![x].count = n] => obj'[o].uploaded = obj[o].uploaded
         /\ \A n : obj' = [obj EXCEPT ![x].name = n] => obj'[o].uploaded = obj[o].uploaded
<1>0. obj[x] \in ObjType
  BY DEF TypeInv
<1>1. ASSUME NEW r, r.uploaded = obj[x].uploaded, obj' = [obj EXCEPT ![x] = r]
      PROVE  obj'[o].uploaded = obj[o].uploaded
  BY <1>1 DEF TypeInv
<1>2. /\ \A S : [obj[x] EXCEPT !.children = S].uploaded = obj[x].uploaded
      /\ \A S : [obj[x] EXCEPT !.parents = S].uploaded = obj[x].uploaded
      /\ \A n : [obj[x] EXCEPT !.count = n].uploaded = obj[x].uploaded
      /\ \A n : [obj[x] EXCEPT !.name = n].uploaded = obj[x].uploaded
  BY <1>0 DEF ObjType
<1>3. \A S : obj' = [obj EXCEPT ![x].children = S] => obj'[o].uploaded = obj[o].uploaded
  BY <1>1, <1>2
<1>4. \A S : obj' = [obj EXCEPT ![x].parents = S] => obj'[o].uploaded = obj[o].uploaded
  BY <1>1, <1>2
<1>5. \A n : obj' = [obj EXCEPT ![x].count = n] => obj'[o].uploaded = obj[o].uploaded
  BY <1>1, <1>2
<1>6. \A n : obj' = [obj EXCEPT ![x].name = n] => obj'[o].uploaded = obj[o].uploaded
  BY <1>1, <1>2
<1> QED BY <1>3, <1>4, <1>5, <1>6

LEMMA TrashedUploads ==
  ASSUME TypeInv, NEW x \in Objs, NEW o \in Objs, obj' = Trashed(x)
  PROVE  obj'[o].uploaded = obj[o].uploaded
BY DEF Trashed, TypeInv, ObjType

LEMMA StartUploads ==
  ASSUME TypeInv, NEW w \in Workers, Starts(w), NEW o \in Objs
  PROVE  obj'[o].uploaded = obj[o].uploaded
<1>1. PICK dir \in Objs :
        \/ \E c \in obj[dir].children :
             \/ Lookup(w, dir, c) \/ Unlink(w, dir, c) \/ Rmdir(w, dir, c)
             \/ \E to \in Objs, name \in Names : Rename(w, dir, c, to, name)
        \/ \E id \in Ids, name \in Names : Create(w, dir, id, name) \/ Mkdir(w, dir, id, name)
  BY DEF Starts
<1>2. UNCHANGED obj => obj'[o].uploaded = obj[o].uploaded
  OBVIOUS
<1>3. \A c : Unlink(w, dir, c) => obj'[o].uploaded = obj[o].uploaded
  BY DEF Unlink, TypeInv, ObjType
<1>4. ASSUME NEW c \in obj[dir].children, NEW to \in Objs, NEW name \in Names,
             Rename(w, dir, c, to, name)
      PROVE  obj'[o].uploaded = obj[o].uploaded
  <2>1. UNCHANGED obj \/ \E q \in Named(to, obj[c].name) : obj' = Trashed(q)
    BY <1>4 DEF Rename, local
  <2>2. \A q \in Objs : obj' = Trashed(q) => obj'[o].uploaded = obj[o].uploaded
    BY DEF Trashed, TypeInv, ObjType
  <2>3. \A q \in Named(to, obj[c].name) : q \in Objs
    BY DEF Named, TypeInv, ObjType
  <2> QED BY <1>2, <2>1, <2>2, <2>3
<1>5. \A c : Lookup(w, dir, c) \/ Rmdir(w, dir, c) => UNCHANGED obj
  BY DEF Lookup, Rmdir, local
<1>6. \A id, name : Create(w, dir, id, name) \/ Mkdir(w, dir, id, name) => UNCHANGED obj
  BY DEF Create, Mkdir, local
<1> QED BY <1>1, <1>2, <1>3, <1>4, <1>5, <1>6

LEMMA StepUploads ==
  ASSUME TypeInv, OpInv, RealInv, NEW w \in Workers, Step(w), NEW o \in Objs, obj'[o].uploaded
  PROVE  obj[o].uploaded \/ srv[IdOf(o)].st # "none"
<1>0. op[w] \in OpType /\ OpOK(w, op[w]) /\ op[w].pc # "idle" /\ op[w].kid \in Objs /\ op[w].dir \in Objs
  BY StepFlow, ObjFacts DEF TypeInv, OpInv, OpOK
<1>1. CASE Insert(w)
  <2>1. CASE op[w].kid = o
    <3>1. obj'[o].uploaded = (op[w].req = "mkdir")
      BY <1>0, <1>1, <2>1, Constants DEF Insert, NoObject, TypeInv
    <3> QED BY <1>0, <1>1, <2>1, <3>1 DEF Insert, RealInv, Making, OpOK
  <2>2. CASE op[w].kid # o
    BY <1>1, <2>2 DEF Insert, TypeInv
  <2> QED BY <2>1, <2>2
<1>2. CASE Drop(w) \/ Finish(w)
  BY <1>0, <1>2, TrashedUploads DEF Drop, Finish
<1>3. CASE AddChild(w) \/ Give(w)
  <2>1. op[w].pc = "give" => op[w].to \in Objs
    BY <1>0, ObjFacts DEF OpOK
  <2> QED BY <1>0, <1>3, <2>1, FieldUploads DEF AddChild, Give, AddsChild
<1>4. CASE LookupReply(w) \/ MakeReply(w) \/ AddParent(w) \/ RemoveParent(w)
  BY <1>0, <1>4, FieldUploads DEF LookupReply, MakeReply, AddParent, RemoveParent
<1>6. CASE RemoveChild(w) \/ Take(w) \/ SetName(w)
  BY <1>0, <1>6, FieldUploads DEF RemoveChild, Take, SetName
<1>5. CASE Wait(w) \/ Delete(w) \/ DeleteRefused(w) \/ Detach(w) \/ Save(w) \/ Tell(w)
          \/ TellRefused(w)
  BY <1>5 DEF Wait, Delete, DeleteRefused, Detach, Save, Tell, TellRefused, local
<1> QED BY <1>1, <1>2, <1>3, <1>4, <1>5, <1>6 DEF Step

LEMMA FeedUploads ==
  ASSUME TypeInv, FetchInv, Feed, NEW o \in Objs, obj'[o].uploaded
  PROVE  obj[o].uploaded \/ srv[IdOf(o)].st # "none"
<1>1. CASE ApplyKnown
  <2>1. feed.pc = "apply" /\ srv[feed.id].st # "none" /\ IdOf(Known) = feed.id
    BY <1>1 DEF ApplyKnown, FetchInv, TypeInv, FeedType, Known
  <2>2. o # Known => obj'[o].uploaded = obj[o].uploaded
    BY <1>1 DEF ApplyKnown, TypeInv, ObjType
  <2> QED BY <2>1, <2>2
<1>2. CASE ApplyNew
  <2>1. feed.pc = "apply" /\ srv[feed.id].st # "none"
    BY <1>2 DEF ApplyNew, FetchInv
  <2>2. PICK k \in 1 .. Copies : \A q \in Objs : q # <<feed.id, k>> => obj'[q] = obj[q]
    BY <1>2 DEF ApplyNew, TypeInv
  <2>3. IdOf(<<feed.id, k>>) = feed.id
    BY DEF IdOf
  <2>4. o # <<feed.id, k>> => obj'[o].uploaded = obj[o].uploaded
    BY <2>2
  <2> QED BY <2>1, <2>3, <2>4
<1>3. CASE ApplyGone
  <2>1. Known \in Objs
    BY <1>3 DEF ApplyGone, Known, TypeInv, FeedType, AnyObj
  <2> QED BY <1>3, <2>1 DEF ApplyGone, Trashed, TypeInv, ObjType
<1>4. ASSUME NEW p \in feed.todo, Leave(p) \/ FeedRemoveChild(p) \/ FeedAddChild(p)
      PROVE  obj'[o].uploaded = obj[o].uploaded
  <2>1. p \in Objs
    BY ObjFacts DEF TypeInv, FeedType
  <2>2. \/ obj' = obj \/ \E S : obj' = [obj EXCEPT ![p].children = S]
    BY <1>4 DEF Leave, FeedRemoveChild, FeedAddChild, AddsChild
  <2> QED BY <2>1, <2>2, FieldUploads
<1>5. CASE FeedRemoveParent \/ FeedAddParent
  <2>1. feed.kid \in Objs
    BY <1>5 DEF FeedRemoveParent, FeedAddParent, TypeInv, Feeding
  <2>2. \E S : obj' = [obj EXCEPT ![feed.kid].parents = S]
    BY <1>5 DEF FeedRemoveParent, FeedAddParent
  <2> QED BY <2>1, <2>2, FieldUploads
<1>6. ((\E id \in Ids : Fetch(id)) \/ ApplyNothing \/ FeedParents) => UNCHANGED obj
  BY DEF Fetch, ApplyNothing, FeedParents, local
<1> QED BY <1>1, <1>2, <1>3, <1>4, <1>5, <1>6 DEF Feed

LEMMA UpStep ==
  ASSUME TypeInv, OpInv, FetchInv, RealInv, UpInv, Next
  PROVE  UpInv'
<1>0. Heard
  BY CloudDoes
<1> SUFFICES ASSUME NEW o \in Objs, obj'[o].uploaded, ~obj[o].uploaded
             PROVE  srv'[IdOf(o)].st # "none"
  BY <1>0, ObjFacts DEF UpInv, Heard
<1>1. ASSUME NEW w \in Workers, Starts(w) \/ Step(w)
      PROVE  srv[IdOf(o)].st # "none"
  BY <1>1, StartUploads, StepUploads
<1>2. ASSUME NEW q \in Objs, Forget(q) \/ Store(q) \/ Mark(q)
      PROVE  srv[IdOf(o)].st # "none"
  <2>1. Forget(q) => obj'[o].uploaded = obj[o].uploaded
    BY DEF Forget, local, TypeInv, ObjType
  <2>2. Store(q) => obj'[o].uploaded = obj[o].uploaded
    BY DEF Store, local
  <2>3. Mark(q) /\ q # o => obj'[o].uploaded = obj[o].uploaded
    BY DEF Mark, TypeInv, ObjType
  <2> QED BY <1>2, <2>1, <2>2, <2>3 DEF Mark
<1>3. CASE Outside
  <2>1. UNCHANGED obj
    BY <1>3 DEF Outside, Others, Move, Appear, Bin, Remove, Restore, Retitle, Sweep, Change,
                Crashes, MkdirRefused, local
  <2> QED BY <2>1
<1>4. Feed => srv[IdOf(o)].st # "none"
  BY FeedUploads
<1> QED BY <1>0, <1>1, <1>2, <1>3, <1>4, ObjFacts DEF Next, Outside, Heard

-----------------------------------------------------------------------------
(* The root is nobody's child and no request is about it; a change that    *)
(* says a file is gone is not out of date; parents can be counted.         *)

RootInv ==
  /\ srv[Root].st # "none" /\ Root \notin news /\ (feed.pc # "idle" => feed.id # Root)
  /\ \A w \in Workers : op[w].pc # "idle" => IdOf(op[w].kid) # Root
  /\ \A p \in Objs : \A c \in obj[p].children : IdOf(c) # Root

FileInv == feed.pc = "apply" /\ feed.file.st = "gone" => srv[feed.id].st = "gone"

FinInv == \A o \in Objs : IsFiniteSet(obj[o].parents)

LEMMA RootStep ==
  ASSUME TypeInv, OpInv, FetchInv, RootInv, Next
  PROVE  RootInv'
<1>0. Heard /\ Root \in Ids
  BY CloudDoes, Constants
<1>1. srv'[Root].st # "none" /\ Root \notin news'
  BY <1>0 DEF Heard, Asked, RootInv
<1>2. feed'.pc # "idle" => feed'.id # Root
  <2>1. CASE feed' = feed
    BY <2>1 DEF RootInv
  <2>2. CASE FeedDoes
    <3>1. NoChange.pc = "idle"
      BY DEF NoChange
    <3> QED BY <2>2, <3>1 DEF FeedDoes, Fetches, Knows, FindsNew, GoesOn, RootInv
  <2> QED BY <2>1, <2>2, FeedDo
<1>3. ASSUME NEW w \in Workers, op'[w].pc # "idle"
      PROVE  IdOf(op'[w].kid) # Root
  <2>1. CASE Starts(w)
    <3>1. PICK r \in OpType : Begins(w, r) /\ (Looks(r) \/ Makers(r) \/ Removes(r) \/ Renames(r))
      BY <2>1, StartDoes
    <3>2. op'[w] = r
      BY <3>1, SetFacts DEF Begins
    <3> QED BY <3>1, <3>2 DEF Looks, Makers, Removes, Renames, Fresh, RootInv
  <2>2. CASE Step(w)
    BY <1>3, <2>2, StepFlow DEF Flow, Idle, RootInv
  <2>3. CASE op'[w] = op[w]
    BY <1>3, <2>3 DEF RootInv
  <2> QED BY <2>1, <2>2, <2>3, OpsDo
<1>4. ASSUME NEW p \in Objs, NEW c \in obj'[p].children
      PROVE  IdOf(c) # Root
  <2>1. CASE c \in obj[p].children
    BY <2>1 DEF RootInv
  <2>2. CASE \E w \in Workers : Puts(w, p, c) \/ Gives(w, p, c)
    BY <2>2 DEF Puts, Gives, RootInv
  <2>3. CASE Links(p, c)
    BY <2>3 DEF Links, FetchInv, Feeding, RootInv
  <2> QED BY <2>1, <2>2, <2>3, ChildrenDo
<1> QED BY <1>1, <1>2, <1>3, <1>4 DEF RootInv

LEMMA FileStep ==
  ASSUME TypeInv, OpInv, FileInv, Next
  PROVE  FileInv'
<1>0. Heard /\ feed.id \in Ids
  BY CloudDoes DEF TypeInv, FeedType
<1>1. CASE feed' = feed
  BY <1>0, <1>1 DEF Heard, FileInv
<1>2. CASE FeedDoes
  <2>1. NoChange.pc # "apply"
    BY DEF NoChange
  <2>2. ASSUME feed'.pc = "apply"
        PROVE  \E id \in Ids : Fetches(id)
    BY <1>2, <2>1, <2>2 DEF FeedDoes, Knows, FindsNew, GoesOn
  <2> QED BY <2>2 DEF Fetches, FileInv
<1> QED BY <1>1, <1>2, FeedDo

LEMMA FinStep ==
  ASSUME TypeInv, OpInv, MakeInv, FinInv, Next
  PROVE  FinInv'
<1> SUFFICES ASSUME NEW o \in Objs
             PROVE  IsFiniteSet(obj'[o].parents)
  BY DEF FinInv
<1>1. IsFiniteSet(obj[o].parents)
  BY DEF FinInv
<1>2. \A x : IsFiniteSet(obj[o].parents \cup {x}) /\ IsFiniteSet(obj[o].parents \ {x})
  BY <1>1, FS_AddElement, FS_RemoveElement
<1>3. CASE obj'[o].parents = obj[o].parents \/ obj'[o].parents = {}
  BY <1>1, <1>3, FS_EmptySet
<1>4. CASE (\E w \in Workers : Orphan(w, o) \/ Made(w, o)) \/ Fed(o) \/ Unfed(o)
  BY <1>2, <1>4 DEF Orphan, Made, Fed, Unfed
<1> QED BY <1>3, <1>4, ParentsDo

(* What unlink deletes is gone from the server.                            *)
LEMMA DeleteDoes ==
  ASSUME TypeInv, OpInv, NEW w \in Workers, Step(w), op[w].pc = "remove", op'[w].pc = "unchild"
  PROVE  srv[IdOf(op[w].kid)].st # "none" => srv'[IdOf(op[w].kid)].st = "gone"
<1> DEFINE id == IdOf(op[w].kid)
<1>0. id \in Ids
  BY StepDoes, ObjFacts
<1>1. Delete(w)
  <2>1. Idle.pc # "unchild"
    BY DEF Idle
  <2>2. \A pc \in Steps : Go(w, pc) => op'[w].pc = pc
    BY GoFacts
  <2>3. Done(w) => op'[w] = Idle
    BY DoneFacts
  <2>4. Save(w) => op'[w].pc # "unchild"
    BY <2>1, SaveFacts
  <2> QED BY <2>1, <2>2, <2>3, <2>4 DEF Step, LookupReply, Insert, AddChild, AddParent, MakeReply,
       Drop, RemoveParent, Wait, DeleteRefused, RemoveChild, Finish, Detach, Take, Give, SetName,
       Tell, TellRefused, Steps
<1>2. srv[id] \in File
  BY <1>0 DEF TypeInv
<1>3. CASE srv[id].st \in {"here", "bin"}
  <2>1. srv' = [srv EXCEPT ![id] = [srv[id] EXCEPT !.st = "gone"]]
    BY <1>1, <1>3 DEF Delete, Stores
  <2> QED BY <1>0, <1>2, <2>1 DEF TypeInv, File
<1>4. CASE srv[id].st = "gone"
  BY <1>1, <1>4 DEF Delete, cloud
<1> QED BY <1>2, <1>3, <1>4 DEF File

-----------------------------------------------------------------------------
(* Where a file that is not odd is listed.  It is in more folders than one *)
(* only if it has more parents than one, or has one and is being linked to *)
(* another; so what unlink deletes from the server, because it has one     *)
(* parent, is in no folder of this client any more.                        *)

HasTwo(c) == \E a, b \in obj[c].parents : a # b
Spread(c) == HasTwo(c) \/ (Adding(c) /\ obj[c].parents # {})
Single(c) == \E a : obj[c].parents = {a}
In(p, c)  == c \in obj[p].children

(* What create and mkdir make has no parent before they give it one.       *)
BareInv == \A w \in Workers :
  op[w].pc \in {"addChild", "addParent"} /\ Sound(op[w].kid) => obj[op[w].kid].parents = {}

GoneInv == \A w \in Workers : LET c == op[w].kid IN op[w].req = "unlink" /\ Sound(c) =>
  /\ op[w].pc \in {"wait", "remove"} =>
       srv[IdOf(c)].st # "none" /\ (obj[c].parents # {} \/ Adding(c))
  /\ op[w].pc \in {"unchild", "mark"} => srv[IdOf(c)].st = "gone" /\ Single(c)

TwoInv == \A p, q \in Objs : \A c \in obj[p].children :
  p # q /\ In(q, c) /\ Sound(c) => Spread(c)

OutInv == \A w \in Workers : LET c == op[w].kid IN Sound(c) =>
  /\ op[w].pc = "take" => \A p \in Objs : In(p, c) /\ p # op[w].dir => Spread(c)
  /\ \/ op[w].pc = "give"
     \/ op[w].req = "unlink" /\ op[w].pc \in {"wait", "remove", "unchild", "mark"}
     => \A p \in Objs : In(p, c) => Spread(c)

(* A thread that changes an object is the only one, and no thread that     *)
(* makes one is overtaken by the feed.                                     *)
LEMMA OneTask ==
  ASSUME TypeInv, OpInv, TaskInv, FetchInv, NEW w \in Workers, op[w].pc \notin {"idle", "found"}
  PROVE  /\ \A v \in Workers : op[v].pc \notin {"idle", "found"} /\ op[v].kid = op[w].kid => v = w
         /\ op[w].pc \in Placing /\ Sound(op[w].kid) =>
              ~Adding(op[w].kid) /\ (feed.pc \in Feeding => feed.kid # op[w].kid)
<1>1. \A v \in Workers : op[v].pc \notin {"idle", "found"} => Changing(op[v])
  BY DEF Changing, OpInv, OpOK
<1> QED BY <1>1 DEF TaskInv, Adding, Feeding, FetchInv, Sound

(* The parents of such a file grow, and stay while its m_event is kept.    *)
LEMMA GrowDo ==
  ASSUME TypeInv, OpInv, MakeInv, OldInv, TaskInv, Next, NEW c \in Objs, Seen(c), Sound(c)'
  PROVE  /\ Sound(c) /\ obj[c].parents \subseteq obj'[c].parents
         /\ ev[c] # "free" => obj'[c].parents = obj[c].parents
         /\ Spread(c) => Spread(c)'
         /\ obj[c].parents # {} \/ Adding(c) => obj'[c].parents # {} \/ Adding(c)'
<1>0. Sound(c)
  BY FeedDo DEF Sound
<1>1. ~\E w \in Workers : Orphan(w, c)
  BY <1>0 DEF Orphan, TaskInv, Sound
<1>2. Unfed(c) => obj'[c].parents = obj[c].parents
  BY <1>0 DEF Unfed, OldInv, Feeding
<1>3. \/ obj'[c].parents = obj[c].parents
      \/ (\E w \in Workers : Made(w, c)) /\ ev[c] = "free"
      \/ Fed(c) /\ ev[c] = "free"
  BY <1>1, <1>2, ParentsDo
<1>4. obj[c].parents \subseteq obj'[c].parents
  BY <1>3 DEF Made, Fed
<1>5. Adding(c) => Adding(c)' \/ (feed.at \in obj'[c].parents /\ feed.at \notin obj[c].parents)
  <2> SUFFICES ASSUME Adding(c), feed' # feed
               PROVE  feed.at \in obj'[c].parents /\ feed.at \notin obj[c].parents
    BY DEF Adding
  <2>1. FeedDoes
    BY FeedDo
  <2>2. Parented(c, obj[c].parents \cup {feed.at})
    BY <2>1 DEF FeedDoes, Fetches, Knows, FindsNew, Adding
  <2> QED BY <1>0, <2>2 DEF Parented, OldInv, Feeding, Adding
<1>6. Spread(c) => Spread(c)'
  BY <1>4, <1>5 DEF Spread, HasTwo
<1> QED BY <1>0, <1>3, <1>4, <1>5, <1>6

LEMMA BareStep ==
  ASSUME TypeInv, OpInv, MakeInv, FetchInv, TaskInv, BareInv, Next
  PROVE  BareInv'
<1> SUFFICES ASSUME NEW w \in Workers, NEW c, op'[w].kid = c, Sound(c)',
                    op'[w].pc \in {"addChild", "addParent"}
             PROVE  obj'[c].parents = {}
  BY DEF BareInv, Sound, IdOf
<1>1. CASE Starts(w)
  <2>1. op'[w].pc \in {"found", "insert", "wait", "drop", "take", "name"}
    BY <1>1, StartDoes, SetFacts DEF Begins
  <2> QED BY <2>1
<1>2. ASSUME op[w].pc \in {"addChild", "addParent"}, op[w].kid = c
      PROVE  obj'[c].parents = {}
  <2>0. Sound(c) /\ c \in Objs
    BY <1>2, FeedDo DEF Sound, OpInv, OpOK
  <2>1. obj[c].parents = {}
    BY <1>2, <2>0 DEF BareInv
  <2>2. ~\E v \in Workers : Made(v, c) \/ Orphan(v, c)
    BY <1>2, OneTask DEF Made, Orphan
  <2>3. ~Fed(c) /\ ~Unfed(c)
    BY <1>2, <2>0, OneTask DEF Fed, Unfed, Placing, Feeding
  <2> QED BY <2>0, <2>1, <2>2, <2>3, ParentsDo
<1>3. CASE op'[w] = op[w]
  BY <1>2, <1>3
<1>4. CASE Step(w)
  <2>1. Flow(op[w], op'[w]) /\ Does(w)
    BY <1>4, StepFlow, StepDoes
  <2>2. op[w].kid = c /\ op[w].pc \in {"insert", "addChild"}
    BY <2>1 DEF Flow, Idle
  <2>3. CASE op[w].pc = "insert"
    BY <2>1, <2>2, <2>3 DEF Does, Quietly, Counts, Inserts
  <2> QED BY <1>2, <2>2, <2>3
<1> QED BY <1>1, <1>3, <1>4, OpsDo

LEMMA GoneStep ==
  ASSUME TypeInv, OpInv, MakeInv, FetchInv, OldInv, TaskInv, LinkInv, UpInv, RootInv, FinInv,
         GoneInv, Next
  PROVE  GoneInv'
<1> SUFFICES ASSUME NEW w \in Workers, NEW c, op'[w].kid = c, op'[w].req = "unlink", Sound(c)',
                    op'[w].pc \in {"wait", "remove", "unchild", "mark"}
             PROVE  /\ op'[w].pc \in {"wait", "remove"} =>
                         srv'[IdOf(c)].st # "none" /\ (obj'[c].parents # {} \/ Adding(c)')
                    /\ op'[w].pc \in {"unchild", "mark"} => srv'[IdOf(c)].st = "gone" /\ Single(c)'
  BY ZenonT(40) DEF GoneInv, Sound, IdOf, Adding, Single
<1>0. Heard
  BY CloudDoes
<1>1. ASSUME op[w].kid = c, op[w].req = "unlink", op[w].pc \in {"wait", "remove", "unchild", "mark"}
      PROVE  /\ c \in Objs /\ IdOf(c) \in Ids /\ Seen(c) /\ Sound(c)
             /\ obj[c].parents # {} \/ Adding(c) => obj'[c].parents # {} \/ Adding(c)'
  BY <1>1, GrowDo, ObjFacts, FeedDo DEF OpInv, OpOK, Seen, Sound
<1>2. ASSUME op[w].kid = c, op[w].req = "unlink", op[w].pc \in {"wait", "remove"}
      PROVE  srv'[IdOf(c)].st # "none" /\ (obj'[c].parents # {} \/ Adding(c)')
  BY <1>0, <1>1, <1>2 DEF GoneInv, Heard
<1>3. ASSUME op[w].kid = c, op[w].req = "unlink", op[w].pc \in {"unchild", "mark"}
      PROVE  srv'[IdOf(c)].st = "gone" /\ Single(c)'
  <2>1. srv[IdOf(c)].st = "gone" /\ Single(c)
    BY <1>1, <1>3 DEF GoneInv
  <2>2. ev[c] # "free"
    BY <1>3, NamespaceAssumption DEF OpInv, Keeping
  <2>3. obj'[c].parents = obj[c].parents
    BY <1>1, <1>3, <2>2, GrowDo
  <2> QED BY <1>0, <1>1, <1>3, <2>1, <2>3 DEF Single, Heard
<1>4. CASE op'[w] = op[w]
  BY <1>2, <1>3, <1>4
<1>5. CASE Starts(w)
  <2>1. PICK r \in OpType : Begins(w, r) /\ (Looks(r) \/ Makers(r) \/ Removes(r) \/ Renames(r))
    BY <1>5, StartDoes
  <2>2. op'[w] = r
    BY <2>1, SetFacts DEF Begins
  <2>3. Removes(r) /\ r.pc = "wait" /\ r.kid = c
    BY <2>1, <2>2 DEF Looks, Makers, Removes, Renames, Begins, OpOK, Making
  <2>4. /\ obj[c].uploaded /\ ~IsFolder(c) /\ r.dir \in Objs /\ c \in obj[r.dir].children
        /\ Exclusive({r.dir, c})
    BY <2>2, <2>3 DEF Removes
  <2>5. c \in Objs /\ Seen(c) /\ Sound(c) /\ IdOf(c) \in Ids /\ Below(c)
    BY <2>4, FeedDo, ObjFacts, Constants DEF TypeInv, ObjType, Seen, Sound, Below, RootInv
  <2>6. ~\E v \in Workers : op[v].pc = "addParent" /\ op[v].kid = c /\ op[v].dir = r.dir
    BY <2>4 DEF Exclusive
  <2>7. obj[c].parents # {} \/ Adding(c)
    BY <2>4, <2>5, <2>6 DEF LinkInv, ChildFits
  <2>8. srv'[IdOf(c)].st # "none"
    BY <1>0, <2>4, <2>5 DEF UpInv, Heard
  <2> QED BY <2>2, <2>3, <2>5, <2>7, <2>8, GrowDo
<1>6. CASE Step(w)
  <2>1. Flow(op[w], op'[w]) /\ Does(w)
    BY <1>6, StepFlow, StepDoes
  <2>2. op[w].kid = c /\ op[w].req = "unlink"
    BY <2>1 DEF Flow, Idle
  <2>3. <<op[w].pc, op'[w].pc>> \in {<<"wait", "remove">>, <<"remove", "unchild">>, <<"unchild", "mark">>}
    <3>1. \/ <<op[w].pc, op'[w].pc>> \in {<<"wait", "remove">>, <<"remove", "unchild">>}
          \/ op[w].pc \in {"detach", "remove", "unchild"} /\ op'[w].pc = "mark"
      BY <2>1 DEF Flow, Idle
    <3>2. op[w].pc # "detach"
      BY <2>1 DEF Does, Quietly, Counts, Inserts
    <3>3. op[w].pc = "remove" => op'[w].pc # "mark"
      BY <2>1, <2>2 DEF Does, Quietly, Counts, Inserts, Sound
    <3> QED BY <3>1, <3>2, <3>3
  <2>4. CASE op[w].pc = "wait" /\ op'[w].pc = "remove"
    BY <1>2, <2>2, <2>4
  <2>5. CASE op[w].pc = "remove" /\ op'[w].pc = "unchild"
    <3>1. Quietly(w)
      BY <2>1, <2>5 DEF Does, Counts, Inserts
    <3>2. c \in Objs /\ Sound(c) /\ srv[IdOf(c)].st # "none"
      BY <1>1, <2>2, <2>5 DEF GoneInv
    <3>3. Cardinality(obj[c].parents) = 1 /\ obj'[c].parents = obj[c].parents
      BY <2>2, <2>5, <3>1, <3>2 DEF Quietly, AllSame, SameObj, Kept
    <3>4. Single(c)
      BY <3>2, <3>3, FS_Singleton DEF FinInv, Single
    <3>5. srv'[IdOf(c)].st = "gone"
      BY <1>6, <2>2, <2>5, <3>2, DeleteDoes
    <3> QED BY <2>5, <3>3, <3>4, <3>5 DEF Single
  <2>6. CASE op[w].pc = "unchild" /\ op'[w].pc = "mark"
    BY <1>3, <2>2, <2>6
  <2> QED BY <2>3, <2>4, <2>5, <2>6
<1> QED BY <1>4, <1>5, <1>6, OpsDo

(* What the feed links, and what it finds in another folder.               *)
LEMMA LinkSpreads ==
  ASSUME TypeInv, OpInv, MakeInv, OldInv, TaskInv, Next,
         NEW p \in Objs, NEW c \in Objs, Links(p, c), Sound(c)', obj[c].parents # {}
  PROVE  Spread(c)'
<1>1. Seen(c) /\ Adding(c)'
  BY DEF Links, Seen, Adding
<1> QED BY <1>1, GrowDo DEF Spread

LEMMA ListedFits ==
  ASSUME TypeInv, OpInv, FetchInv, TaskInv, LinkInv, RootInv,
         NEW p \in Objs, NEW c \in Objs, In(p, c), Sound(c)
  PROVE  \/ obj[c].parents # {} \/ Adding(c)
         \/ \E w \in Workers : op[w].pc = "addParent" /\ op[w].kid = c
<1>1. Below(c)
  BY ObjFacts, Constants DEF RootInv, In, Below
<1> QED BY <1>1 DEF In, LinkInv, ChildFits

LEMMA TwoStep ==
  ASSUME TypeInv, OpInv, MakeInv, FetchInv, OldInv, TaskInv, LinkInv, RootInv, BareInv,
         TwoInv, OutInv, TypeInv', Next
  PROVE  TwoInv'
<1> SUFFICES ASSUME NEW p \in Objs, NEW q \in Objs, NEW c \in obj'[p].children,
                    p # q, c \in obj'[q].children, Sound(c)'
             PROVE  Spread(c)'
  BY DEF TwoInv, In
<1>0. c \in Objs /\ Sound(c)
  BY FeedDo DEF TypeInv, ObjType, Sound
<1>1. ASSUME Spread(c), Seen(c)
      PROVE  Spread(c)'
  BY <1>0, <1>1, GrowDo
<1>2. ASSUME NEW w \in Workers, NEW d \in Objs, Puts(w, d, c)
      PROVE  \A e \in Objs : e # d => c \notin obj'[e].children
  <2> SUFFICES ASSUME NEW e \in Objs, e # d, c \in obj'[e].children
               PROVE  FALSE
    OBVIOUS
  <2>1. op[w].kid = c /\ op[w].pc = "addChild" /\ op[w].dir = d
    BY <1>2 DEF Puts
  <2>2. ~\E v \in Workers : op[v].pc = "addParent" /\ op[v].kid = c
    BY <2>1, OneTask
  <2>3. ~Adding(c) /\ (feed.pc \in Feeding => feed.kid # c) /\ obj[c].parents = {}
    BY <1>0, <2>1, OneTask DEF BareInv, Placing
  <2>4. c \notin obj[e].children
    BY <1>0, <2>2, <2>3, ListedFits DEF In
  <2>5. ~\E v \in Workers : Puts(v, e, c) \/ Gives(v, e, c)
    BY <2>1, OneTask DEF Puts, Gives
  <2>6. ~Links(e, c)
    BY <2>3 DEF Links, Feeding
  <2> QED BY <2>4, <2>5, <2>6, ChildrenDo
<1>3. ASSUME NEW w \in Workers, NEW d \in Objs, Gives(w, d, c)
      PROVE  \A e \in Objs : c \in obj'[e].children => e = d \/ Spread(c)'
  <2> SUFFICES ASSUME NEW e \in Objs, e # d, c \in obj'[e].children
               PROVE  Spread(c)'
    OBVIOUS
  <2>1. op[w].kid = c /\ op[w].pc = "give" /\ op[w].to = d /\ Seen(c) /\ Below(c)
    BY <1>3, ObjFacts, Constants DEF Gives, Seen, RootInv, Below
  <2>2. CASE c \in obj[e].children
    BY <1>0, <1>1, <2>1, <2>2 DEF OutInv, In
  <2>3. ~\E v \in Workers : Puts(v, e, c) \/ Gives(v, e, c)
    BY <2>1, OneTask DEF Puts, Gives
  <2>4. CASE Links(e, c)
    <3>1. obj[c].parents # {}
      BY <1>0, <2>1 DEF LinkInv, KidFits
    <3> QED BY <1>0, <2>4, <3>1, LinkSpreads
  <2> QED BY <2>2, <2>3, <2>4, ChildrenDo
<1>4. ASSUME NEW d \in Objs, NEW e \in Objs, Links(d, c), c \in obj[e].children
      PROVE  Spread(c)'
  <2>1. feed.pc = "add" /\ feed.kid = c /\ ~Adding(c)
    BY <1>4 DEF Links, Adding
  <2>2. ~\E w \in Workers : op[w].pc = "addParent" /\ op[w].kid = c
    BY <1>0, <2>1, OneTask DEF Placing, Feeding
  <2>3. obj[c].parents # {}
    BY <1>0, <1>4, <2>1, <2>2, ListedFits DEF In
  <2> QED BY <1>0, <1>4, <2>3, LinkSpreads
<1>5. ASSUME c \in obj[p].children, c \in obj[q].children
      PROVE  Spread(c)'
  BY <1>0, <1>1, <1>5 DEF TwoInv, In, Seen
<1>6. ~(Links(p, c) /\ Links(q, c))
  BY DEF Links
<1>7. \/ c \in obj[p].children \/ Links(p, c)
      \/ \E w \in Workers : Puts(w, p, c) \/ Gives(w, p, c)
  BY ChildrenDo
<1>8. \/ c \in obj[q].children \/ Links(q, c)
      \/ \E w \in Workers : Puts(w, q, c) \/ Gives(w, q, c)
  BY ChildrenDo
<1> QED BY <1>2, <1>3, <1>4, <1>5, <1>6, <1>7, <1>8

LEMMA OutStep ==
  ASSUME TypeInv, OpInv, MakeInv, FetchInv, OldInv, TaskInv, LinkInv, RootInv, GoneInv,
         TwoInv, OutInv, Next
  PROVE  OutInv'
<1> DEFINE Out(r) == r.pc = "give" \/ (r.req = "unlink" /\ r.pc \in {"wait", "remove", "unchild", "mark"})
<1> SUFFICES ASSUME NEW w \in Workers, NEW c, op'[w].kid = c, Sound(c)', NEW p \in Objs,
                    c \in obj'[p].children, Out(op'[w]) \/ (op'[w].pc = "take" /\ p # op'[w].dir)
             PROVE  Spread(c)'
  BY DEF OutInv, In, Sound, IdOf, Spread, HasTwo, Adding
<1>0. Sound(c)
  BY FeedDo DEF Sound
<1>1. CASE op'[w] = op[w]
  <2>1. c \in Objs /\ Seen(c) /\ op[w].pc \notin {"idle", "found"} /\ Below(c)
    BY <1>1, ObjFacts, Constants DEF OpInv, OpOK, Seen, RootInv, Below
  <2>2. CASE c \in obj[p].children
    BY <1>0, <1>1, <2>1, <2>2, GrowDo DEF OutInv, In
  <2>3. ~\E v \in Workers : Puts(v, p, c) \/ Gives(v, p, c)
    BY <1>1, <2>1, OneTask DEF Puts, Gives
  <2>4. CASE Links(p, c)
    <3>1. CASE op[w].pc \in {"take", "give"}
      BY <1>0, <1>1, <2>1, <2>4, <3>1, LinkSpreads DEF LinkInv, KidFits
    <3>2. CASE op[w].req = "unlink" /\ op[w].pc \in {"wait", "remove", "unchild", "mark"}
      <4>1. ~Adding(c)
        BY <2>4 DEF Links, Adding
      <4>2. Single(c) => obj[c].parents # {}
        BY DEF Single
      <4>3. obj[c].parents # {}
        BY <1>0, <1>1, <3>2, <4>1, <4>2 DEF GoneInv
      <4> QED BY <2>1, <2>4, <4>3, LinkSpreads
    <3> QED BY <1>1, <3>1, <3>2
  <2> QED BY <2>2, <2>3, <2>4, ChildrenDo
<1>2. CASE Starts(w)
  <2>1. PICK r \in OpType : Begins(w, r) /\ (Looks(r) \/ Makers(r) \/ Removes(r) \/ Renames(r))
    BY <1>2, StartDoes
  <2>2. op'[w] = r /\ feed' = feed /\ op[w].pc = "idle" /\ \A v \in Workers \ {w} : op'[v] = op[v]
    BY <1>2, <2>1, SetFacts, StartDoes DEF Begins
  <2>3. (Removes(r) /\ r.req = "unlink" /\ r.pc = "wait") \/ (Renames(r) /\ r.pc = "take" /\ p # r.dir)
    BY <2>1, <2>2 DEF Looks, Makers, Removes, Renames, Begins, OpOK, Making
  <2>4. c \in obj[p].children
    BY <2>2, ChildrenDo DEF Puts, Gives, Links
  <2>5. r.dir \in Objs /\ c \in obj[r.dir].children
    BY <2>2, <2>3 DEF Removes, Renames
  <2>6. p # r.dir
    BY <2>2, <2>3 DEF Removes, Loses
  <2>7. c \in Objs /\ Seen(c)
    BY <2>5 DEF TypeInv, ObjType, Seen
  <2> QED BY <1>0, <2>4, <2>5, <2>6, <2>7, GrowDo DEF TwoInv, In
<1>3. CASE Step(w)
  <2>1. /\ Flow(op[w], op'[w]) /\ Does(w) /\ feed' = feed
        /\ \A v \in Workers \ {w} : op'[v] = op[v]
    BY <1>3, StepFlow, StepDoes
  <2>2. op[w].kid = c /\ op'[w].req = op[w].req /\ op'[w].dir = op[w].dir /\ op[w].pc # "idle"
    BY <2>1 DEF Flow, Idle
  <2>3. op[w].pc = "take" \/ (op[w].req = "unlink" /\ op[w].pc \in {"wait", "remove", "unchild"})
    <3>1. op[w].pc # "detach"
      BY <2>1 DEF Does, Quietly, Counts, Inserts
    <3> QED BY <2>1, <2>2, <3>1 DEF Flow, Idle
  <2>4. c \in Objs /\ Seen(c)
    BY <2>2, <2>3 DEF OpInv, OpOK, Seen
  <2>5. c \in obj[p].children
    <3>1. ~\E v \in Workers : Puts(v, p, c) \/ Gives(v, p, c)
      BY <2>1, <2>3 DEF Puts, Gives
    <3> QED BY <2>1, <3>1, ChildrenDo DEF Links
  <2>6. op[w].pc = "take" => p # op[w].dir
    BY <2>1, <2>2 DEF Does, Quietly, Counts, Inserts, Loses
  <2> QED BY <1>0, <2>2, <2>3, <2>4, <2>5, <2>6, GrowDo DEF OutInv, In
<1> QED BY <1>1, <1>2, <1>3, OpsDo

-----------------------------------------------------------------------------
(* One object of an id.  What a folder lists, a request changes or the     *)
(* feed links is what idToObject names; or its file is gone for good, and  *)
(* the object is trashed.                                                  *)

Busy(o) ==
  \/ \E p \in Objs : In(p, o)
  \/ \E w \in Workers : op[w].kid = o /\ op[w].pc \notin {"idle", "found", "insert"}
  \/ feed.pc \in Feeding /\ feed.kid = o

Ended(o) ==
  /\ byId[IdOf(o)] = NoObj /\ obj[o].trashed /\ srv[IdOf(o)].st = "gone"
  /\ feed.pc = "apply" /\ feed.id = IdOf(o) => feed.file.st = "gone"

(* What a thread is about to insert has no other object.                   *)
FreeInv == \A w \in Workers : LET o == op[w].kid IN op[w].pc = "insert" =>
  /\ o = First(IdOf(o))
  /\ Sound(o) => /\ byId[IdOf(o)] = NoObj
                 /\ \A c \in Objs : IdOf(c) = IdOf(o) => ~Busy(c)

OneInv == \A c \in Objs : Sound(c) /\ Busy(c) => byId[IdOf(c)] = c \/ Ended(c)

LEMMA BusyDo ==
  ASSUME TypeInv, OpInv, Next, NEW c \in Objs, Busy(c)'
  PROVE  Busy(c) \/ byId'[IdOf(c)] = c
<1>1. ASSUME NEW p \in Objs, c \in obj'[p].children
      PROVE  Busy(c)
  <2>1. CASE c \in obj[p].children
    BY <2>1 DEF Busy, In
  <2>2. CASE \E w \in Workers : Puts(w, p, c) \/ Gives(w, p, c)
    BY <2>2 DEF Puts, Gives, Busy
  <2>3. CASE Links(p, c)
    BY <2>3 DEF Links, Busy, Feeding
  <2> QED BY <1>1, <2>1, <2>2, <2>3, ChildrenDo
<1>2. ASSUME NEW w \in Workers, op'[w].kid = c, op'[w].pc \notin {"idle", "found", "insert"}
      PROVE  Busy(c) \/ byId'[IdOf(c)] = c
  <2>1. CASE op'[w] = op[w]
    BY <1>2, <2>1 DEF Busy
  <2>2. CASE Starts(w)
    <3>1. PICK r \in OpType : Begins(w, r) /\ (Looks(r) \/ Makers(r) \/ Removes(r) \/ Renames(r))
      BY <2>2, StartDoes
    <3>2. op'[w] = r
      BY <3>1, SetFacts DEF Begins
    <3>3. r.dir \in Objs /\ c \in obj[r.dir].children
      BY <1>2, <3>1, <3>2 DEF Looks, Makers, Removes, Renames
    <3> QED BY <3>3 DEF Busy, In
  <2>3. CASE Step(w)
    <3>1. Flow(op[w], op'[w]) /\ op[w].pc # "idle" /\ Does(w)
      BY <2>3, StepFlow, StepDoes
    <3>2. op[w].kid = c /\ op[w].pc # "found"
      BY <1>2, <3>1 DEF Flow, Idle
    <3>3. CASE op[w].pc = "insert"
      <4>1. Inserts(w)
        BY <3>1, <3>3 DEF Does, Quietly, Counts
      <4> QED BY <3>2, <4>1, ObjFacts DEF Inserts, TypeInv
    <3> QED BY <3>1, <3>2, <3>3 DEF Busy
  <2> QED BY <2>1, <2>2, <2>3, OpsDo
<1>3. ASSUME feed'.pc \in Feeding, feed'.kid = c
      PROVE  Busy(c) \/ byId'[IdOf(c)] = c
  <2>1. CASE feed' = feed
    BY <1>3, <2>1 DEF Busy
  <2>2. CASE FeedDoes
    <3>1. NoChange.pc = "idle"
      BY DEF NoChange
    <3>2. CASE Knows
      BY <1>3, <3>2 DEF Knows, Known
    <3>3. ASSUME NEW o \in Objs, FindsNew(o)
          PROVE  byId'[IdOf(c)] = c
      BY <1>3, <3>1, <3>3 DEF FindsNew, TypeInv, FeedType, Feeding
    <3>4. CASE ~Knows /\ ~\E o \in Objs : FindsNew(o)
      <4>1. feed.pc \in Feeding /\ feed.kid = c
        BY <1>3, <2>2, <3>1, <3>4 DEF FeedDoes, Fetches, GoesOn, Feeding
      <4> QED BY <4>1 DEF Busy
    <3> QED BY <3>2, <3>3, <3>4
  <2> QED BY <2>1, <2>2, FeedDo
<1> QED BY <1>1, <1>2, <1>3 DEF Busy, In

LEMMA FreeStep ==
  ASSUME TypeInv, OpInv, MakeInv, FetchInv, FreeInv, Next
  PROVE  FreeInv'
<1> SUFFICES ASSUME NEW w \in Workers, NEW o, op'[w].kid = o, op'[w].pc = "insert"
             PROVE  /\ o = First(IdOf(o))
                    /\ Sound(o)' => /\ byId'[IdOf(o)] = NoObj
                                    /\ \A c \in Objs : IdOf(c) = IdOf(o) => ~Busy(c)'
  BY DEF FreeInv, Sound, IdOf, First
<1>1. ASSUME byId'[IdOf(o)] = NoObj, \A c \in Objs : IdOf(c) = IdOf(o) => ~Busy(c)
      PROVE  \A c \in Objs : IdOf(c) = IdOf(o) => ~Busy(c)'
  BY <1>1, BusyDo, ObjFacts
<1>2. CASE Starts(w)
  <2>1. PICK r \in OpType : Begins(w, r) /\ (Looks(r) \/ Makers(r) \/ Removes(r) \/ Renames(r))
    BY <1>2, StartDoes
  <2>2. op'[w] = r
    BY <2>1, SetFacts DEF Begins
  <2>3. Makers(r)
    BY <2>1, <2>2 DEF Looks, Removes, Renames
  <2>4. o \in Objs /\ o = First(IdOf(o)) /\ byId' = byId
        /\ \A c \in Objs : IdOf(c) = IdOf(o) => Unused(c)
    BY <2>2, <2>3 DEF Makers, Fresh, AllSame
  <2>5. byId[IdOf(o)] = NoObj
    BY <2>4, ObjFacts DEF Unused, TypeInv, AnyObj
  <2>6. \A c \in Objs : IdOf(c) = IdOf(o) => ~Busy(c)
    BY <2>4 DEF Unused, Busy, In
  <2> QED BY <1>1, <2>4, <2>5, <2>6
<1>3. CASE Step(w)
  BY <1>3, StepFlow DEF Flow, Idle
<1>4. CASE op'[w] = op[w]
  <2>1. op[w].pc = "insert" /\ op[w].kid = o /\ o \in Objs /\ o = First(IdOf(o)) /\ IdOf(o) \in Ids
    BY <1>4, ObjFacts DEF FreeInv, OpInv, OpOK
  <2> SUFFICES ASSUME Sound(o)'
               PROVE  byId'[IdOf(o)] = NoObj /\ \A c \in Objs : IdOf(c) = IdOf(o) => ~Busy(c)'
    BY <2>1
  <2>2. byId[IdOf(o)] = NoObj /\ Sound(o) /\ \A c \in Objs : IdOf(c) = IdOf(o) => ~Busy(c)
    BY <2>1, FeedDo DEF FreeInv, Sound
  <2>3. ~\E v \in Workers : Inserts(v) /\ IdOf(op[v].kid) = IdOf(o)
    <3> SUFFICES ASSUME NEW v \in Workers, op[v].pc = "insert", op'[v].pc = "addChild",
                        IdOf(op[v].kid) = IdOf(o)
                 PROVE  FALSE
      BY DEF Inserts
    <3>1. op[v].kid = o
      BY <2>1 DEF FreeInv
    <3> QED BY <1>4, <2>1, <3>1 DEF MakeInv, Making
  <2>4. ~\E x \in Objs : FindsNew(x) /\ feed.id = IdOf(o)
    BY <2>1, <2>2 DEF FindsNew, FetchInv, Placing, Sound
  <2>5. byId'[IdOf(o)] = NoObj
    BY <2>1, <2>2, <2>3, <2>4, MapDo
  <2> QED BY <1>1, <2>2, <2>5
<1> QED BY <1>2, <1>3, <1>4, OpsDo

(* Who takes an object from idToObject, or marks it trashed: of a file     *)
(* that is not odd, only the thread that unlinks it and the feed.          *)
Marks(w, id)  == Step(w) /\ op[w].pc = "mark" /\ Trashes(op[w].kid) /\ IdOf(op[w].kid) = id
Forsakes(id)  == /\ feed.pc = "apply" /\ feed.id = id /\ feed.file.st = "gone" /\ feed'.pc # "apply"
                 /\ Known \in Objs /\ Trashes(Known)
Inserting(id) == \E w \in Workers : Inserts(w) /\ IdOf(op[w].kid) = id
Renews(id)    == feed.id = id /\ (Knows \/ \E o \in Objs : FindsNew(o))

LEMMA EndsDo ==
  ASSUME TypeInv, OpInv, TaskInv, LinkInv, Next, NEW c \in Objs, Sound(c)'
  PROVE  \/ byId'[IdOf(c)] = byId[IdOf(c)] /\ obj'[c].trashed = obj[c].trashed
         \/ \E w \in Workers : Marks(w, IdOf(c))
         \/ Forsakes(IdOf(c)) \/ Inserting(IdOf(c)) \/ Renews(IdOf(c))
<1> DEFINE Same == byId'[IdOf(c)] = byId[IdOf(c)] /\ obj'[c].trashed = obj[c].trashed
<1>0. IdOf(c) \in Ids /\ odd \subseteq odd'
  BY ObjFacts, FeedDo
<1>1. AllSame => Same
  BY DEF AllSame, SameObj, Kept
<1>2. \A o \in Objs : Trashes(o) /\ IdOf(o) # IdOf(c) => Same
  BY <1>0 DEF Trashes, SameObj, Kept
<1>3. \A p, x : Loses(p, x) \/ Adds(p, x) \/ Parented(p, x) => Same
  BY DEF Loses, Adds, Parented, Kept
<1>4. ASSUME NEW w \in Workers, Starts(w)
      PROVE  Same
  <2>1. PICK r \in OpType : Looks(r) \/ Makers(r) \/ Removes(r) \/ Renames(r)
    BY <1>4, StartDoes
  <2> QED BY <1>1, <1>2, <1>3, <2>1 DEF Looks, Makers, Removes, Renames, Sound
<1>5. ASSUME NEW w \in Workers, Step(w)
      PROVE  Same \/ Marks(w, IdOf(c)) \/ Inserting(IdOf(c))
  <2>1. Does(w) /\ op[w].kid \in Objs
    BY <1>5, StepDoes
  <2>2. CASE Inserts(w)
    BY <1>0, <2>1, <2>2 DEF Inserts, Inserting, TypeInv, SameObj, Kept
  <2>3. CASE op[w].pc = "drop" /\ Trashes(op[w].kid)
    BY <1>0, <1>2, <2>1, <2>3 DEF TaskInv, Sound
  <2>4. Counts(w) => Same
    BY DEF Counts, Kept
  <2> QED BY <1>1, <1>2, <1>3, <1>5, <2>1, <2>2, <2>3, <2>4 DEF Does, Quietly, Marks
<1>6. ASSUME NEW o \in Objs, Forget(o) \/ Store(o) \/ Mark(o)
      PROVE  Same
  <2>1. CASE Forget(o)
    <3>1. Forgets(o)
      BY <2>1, ForgetDoes
    <3>2. IdOf(o) = IdOf(c) => byId' = byId
      BY <2>1, ForgetKeeps DEF Sound
    <3> QED BY <1>0, <3>1, <3>2 DEF Forgets, TypeInv
  <2>2. CASE Store(o) \/ Mark(o)
    BY <1>1, <2>2, MarkDoes
  <2> QED BY <1>6, <2>1, <2>2
<1>7. Outside => Same
  BY <1>1, OthersDoes
<1>8. CASE Feed
  <2>1. FeedDoes
    BY <1>8, FeedStepDoes
  <2>2. CASE Knows \/ \E o \in Objs : FindsNew(o)
    <3>1. feed.id # IdOf(c) => Same
      BY <1>0, <2>2 DEF Knows, FindsNew, TypeInv, SameObj, Kept
    <3> QED BY <2>2, <3>1 DEF Renews
  <2>3. CASE ~Knows /\ ~\E o \in Objs : FindsNew(o)
    <3>1. NoChange.pc # "apply"
      BY DEF NoChange
    <3>2. (\E id \in Ids : Fetches(id)) => Same
      BY <1>1 DEF Fetches
    <3> QED BY <1>1, <1>2, <1>3, <2>1, <2>3, <3>1, <3>2 DEF FeedDoes, Forsakes
  <2> QED BY <2>2, <2>3
<1> QED BY <1>4, <1>5, <1>6, <1>7, <1>8 DEF Next, Outside

LEMMA OneStep ==
  ASSUME TypeInv, OpInv, MakeInv, FetchInv, TaskInv, LinkInv, FileInv, GoneInv, OutInv, FreeInv,
         OneInv, Next
  PROVE  OneInv'
<1> SUFFICES ASSUME NEW c \in Objs, Sound(c)', Busy(c)', byId'[IdOf(c)] # c
             PROVE  Ended(c)'
  BY DEF OneInv
<1> DEFINE id == IdOf(c)
<1>0. Sound(c) /\ Busy(c) /\ id \in Ids /\ Heard
  BY BusyDo, FeedDo, ObjFacts, CloudDoes DEF Sound
<1>1. byId[id] = c \/ Ended(c)
  BY <1>0 DEF OneInv
<1>2. ASSUME Ended(c), byId'[id] = NoObj, obj'[c].trashed
      PROVE  Ended(c)'
  <2>1. srv'[id].st = "gone"
    BY <1>0, <1>2 DEF Ended, Heard
  <2>2. ASSUME feed'.pc = "apply", feed'.id = id
        PROVE  feed'.file.st = "gone"
    <3>1. CASE feed' = feed
      BY <1>2, <2>2, <3>1 DEF Ended
    <3>2. CASE FeedDoes
      <4>1. NoChange.pc # "apply"
        BY DEF NoChange
      <4>2. \E i \in Ids : Fetches(i)
        BY <2>2, <3>2, <4>1 DEF FeedDoes, Knows, FindsNew, GoesOn
      <4> QED BY <1>2, <2>2, <4>2 DEF Fetches, Ended
    <3> QED BY <3>1, <3>2, FeedDo
  <2> QED BY <1>2, <2>1, <2>2 DEF Ended
<1>3. CASE byId'[id] = byId[id] /\ obj'[c].trashed = obj[c].trashed
  BY <1>1, <1>2, <1>3 DEF Ended
<1>4. CASE Inserting(id)
  BY <1>0, <1>4 DEF Inserting, Inserts, FreeInv, Sound
<1>5. CASE Renews(id)
  <2>1. CASE Knows
    <3>1. Known = byId[id] /\ Known # NoObj /\ byId' = byId
      BY <1>5, <2>1, ObjFacts DEF Renews, Knows, Known
    <3> QED BY <1>1, <3>1 DEF Ended
  <2>2. ASSUME NEW o \in Objs, FindsNew(o)
        PROVE  FALSE
    <3>1. feed.id = id /\ byId[id] = NoObj /\ feed.pc = "apply" /\ feed.file.st # "gone"
      BY <1>5, <2>2 DEF Renews, FindsNew, Known, Knows
    <3> QED BY <1>1, <3>1, ObjFacts DEF Ended
  <2> QED BY <1>5, <2>1, <2>2 DEF Renews
<1>6. CASE Forsakes(id)
  <2>1. Known = byId[id] /\ Known # NoObj /\ feed.pc = "apply" /\ feed.id = id
    BY <1>6, ObjFacts DEF Forsakes, Known
  <2>2. Known = c
    BY <1>1, <2>1 DEF Ended
  <2>3. obj'[c].trashed /\ byId'[id] = NoObj
    BY <1>0, <1>6, <2>1, <2>2 DEF Forsakes, Trashes
  <2>4. srv'[id].st = "gone"
    BY <1>0, <1>6, <2>1 DEF Forsakes, FileInv, Heard
  <2> QED BY <1>6, <2>3, <2>4 DEF Ended, Forsakes
<1>7. ASSUME NEW w \in Workers, Marks(w, id)
      PROVE  Ended(c)'
  <2> DEFINE o == op[w].kid
  <2>1. o \in Objs /\ IdOf(o) = id /\ Trashes(o) /\ op[w].pc = "mark" /\ feed' = feed
    BY <1>7, StepDoes DEF Marks
  <2>2. Busy(o) /\ Sound(o)
    BY <1>0, <2>1 DEF Busy, Sound
  <2>3. byId[id] = o \/ Ended(o)
    BY <2>1, <2>2 DEF OneInv
  <2>4. CASE o # c
    <3>1. Ended(c) /\ obj'[c].trashed = obj[c].trashed
      BY <1>1, <2>1, <2>3, <2>4, ObjFacts DEF Ended, Trashes, SameObj, Kept
    <3>2. byId'[id] = NoObj
      BY <1>0, <2>1, <3>1 DEF Trashes, Ended
    <3> QED BY <1>2, <3>1, <3>2 DEF Ended
  <2>5. CASE o = c
    <3>1. obj'[c].trashed /\ byId'[id] = NoObj
      BY <1>0, <1>1, <2>1, <2>5 DEF Trashes, Ended
    <3>2. CASE Ended(c)
      BY <1>2, <3>1, <3>2
    <3>3. CASE ~(feed.pc = "apply")
      <4>1. op[w].req = "unlink"
        BY <2>1 DEF OpInv, OpOK
      <4>2. srv[id].st = "gone"
        BY <1>0, <2>1, <2>5, <4>1 DEF GoneInv
      <4> QED BY <1>0, <2>1, <3>1, <3>3, <4>2 DEF Ended, Heard
    <3>4. CASE feed.pc = "apply"
      <4>1. op[w].req = "unlink"
        BY <2>1 DEF OpInv, OpOK
      <4>2. Single(c) /\ ~Adding(c)
        BY <1>0, <2>1, <2>5, <3>4, <4>1 DEF GoneInv, Adding
      <4>3. ~Spread(c)
        BY <4>2 DEF Spread, Single, HasTwo
      <4>4. \A p \in Objs : ~In(p, c)
        BY <1>0, <2>1, <2>5, <4>1, <4>3 DEF OutInv
      <4>5. \A p \in Objs : ~In(p, c)'
        BY <2>1, <4>4 DEF In, Trashes
      <4>6. ASSUME NEW v \in Workers, op'[v].kid = c, op'[v].pc \notin {"idle", "found", "insert"}
            PROVE  FALSE
        <5>1. Step(w)
          BY <1>7 DEF Marks
        <5>2. CASE v = w
          <6>1. Flow(op[w], op'[w])
            BY <5>1, StepFlow
          <6> QED BY <2>1, <4>6, <5>2, <6>1 DEF Flow, Idle
        <5>3. CASE v # w
          <6>1. op'[v] = op[v]
            BY <5>1, <5>3, StepFlow
          <6> QED BY <2>1, <2>5, <4>6, <5>3, <6>1, OneTask
        <5> QED BY <5>2, <5>3
      <4>7. FALSE
        BY <2>1, <3>4, <4>5, <4>6 DEF Busy, Feeding
      <4> QED BY <4>7
    <3> QED BY <3>3, <3>4
  <2> QED BY <2>4, <2>5
<1> QED BY <1>3, <1>4, <1>5, <1>6, <1>7, EndsDo

-----------------------------------------------------------------------------
(* The inductive invariant.                                                *)

IInv == TypeInv /\ OpInv /\ MapInv /\ MakeInv /\ FetchInv /\ OldInv /\ CountInv /\ RealInv /\
        TaskInv /\ LinkInv /\
        UpInv /\ RootInv /\ FileInv /\ FinInv /\ BareInv /\ GoneInv /\ TwoInv /\ OutInv /\
        FreeInv /\ OneInv

(* The objects there are at the start.                                     *)
LEMMA InitObjects ==
  ASSUME Init
  PROVE  /\ \A id \in Ids : byId[id] # NoObj => id \in There /\ byId[id] = First(id)
         /\ \A id \in There : /\ First(id) \in Objs /\ obj[First(id)].known
                              /\ obj[First(id)].count = 1 /\ held[First(id)] = 1
                              /\ id # Root => obj[First(id)].parents # {}
         /\ \A o \in Objs : \/ \E id \in There : o = First(id)
                            \/ /\ ~obj[o].known /\ obj[o].count = 0 /\ held[o] = 0
                               /\ obj[o].children = {}
         /\ \A p \in Objs : \A c \in obj[p].children :
              \E id \in There : c = First(id)
<1>0. There \subseteq Ids
  BY Constants, NamespaceAssumption DEF There
<1> DEFINE ps(o) == {First(q) : q \in StartFile(IdOf(o)).parents}
           cs(o) == {First(j) : j \in {i \in DOMAIN Start : Start[i].parent = IdOf(o)}}
           nm(o) == StartFile(IdOf(o)).name
<1>1. \A o \in Objs : obj[o] =
        IF o \in {First(id) : id \in There}
        THEN [NoObject EXCEPT !.known = TRUE, !.uploaded = TRUE, !.count = 1,
                !.name = nm(o), !.parents = ps(o), !.children = cs(o)]
        ELSE NoObject
  BY DEF Init
<1>2. \A o : cs(o) \subseteq {First(id) : id \in There}
  BY DEF There
<1>3. ASSUME NEW id \in There, id # Root
      PROVE  ps(First(id)) # {}
  <2>1. IdOf(First(id)) = id
    BY <1>0, ObjFacts
  <2>2. StartFile(id).parents = {Start[id].parent}
    BY <1>3 DEF StartFile
  <2> QED BY <2>1, <2>2
<1> HIDE DEF ps, cs, nm
<1>4. ASSUME NEW o \in Objs, NEW id \in There, o = First(id)
      PROVE  obj[o].known /\ obj[o].count = 1 /\ obj[o].parents = ps(o) /\ obj[o].children = cs(o)
  <2>1. obj[o] = [NoObject EXCEPT !.known = TRUE, !.uploaded = TRUE, !.count = 1,
                    !.name = nm(o), !.parents = ps(o), !.children = cs(o)]
    BY <1>1, <1>4
  <2> QED BY <2>1 DEF NoObject
<1>5. ASSUME NEW o \in Objs, ~\E id \in There : o = First(id)
      PROVE  ~obj[o].known /\ obj[o].count = 0 /\ obj[o].children = {} /\ held[o] = 0
  <2>1. obj[o] = NoObject /\ held[o] = 0
    BY <1>1, <1>5 DEF Init
  <2> QED BY <2>1 DEF NoObject
<1>6. \A id \in Ids : byId[id] # NoObj => id \in There /\ byId[id] = First(id)
  BY DEF Init
<1>7. \A id \in There : First(id) \in Objs /\ held[First(id)] = 1
  BY <1>0, ObjFacts DEF Init
<1>8. \A p \in Objs : \A c \in obj[p].children : \E id \in There : c = First(id)
  BY <1>2, <1>4, <1>5
<1> QED BY <1>3, <1>4, <1>5, <1>6, <1>7, <1>8

(* Each is in one folder, and has an object and a file.                    *)
LEMMA InitTree ==
  ASSUME Init
  PROVE  /\ UpInv /\ FinInv
         /\ \A p, q \in Objs : \A c \in obj[p].children :
              /\ IdOf(c) # Root /\ byId[IdOf(c)] = c
              /\ c \in obj[q].children => p = q
<1>0. There \subseteq Ids
  BY Constants, NamespaceAssumption DEF There
<1> DEFINE ps(o) == {First(q) : q \in StartFile(IdOf(o)).parents}
           cs(o) == {First(j) : j \in {i \in DOMAIN Start : Start[i].parent = IdOf(o)}}
           nm(o) == StartFile(IdOf(o)).name
<1>1. \A o \in Objs : obj[o] =
        IF o \in {First(id) : id \in There}
        THEN [NoObject EXCEPT !.known = TRUE, !.uploaded = TRUE, !.count = 1,
                !.name = nm(o), !.parents = ps(o), !.children = cs(o)]
        ELSE NoObject
  BY DEF Init
<1>2. ASSUME NEW o \in Objs
      PROVE  IsFiniteSet(ps(o))
  <2>1. \E x : ps(o) \subseteq {x}
    BY DEF StartFile
  <2> HIDE DEF ps
  <2> QED BY <2>1, FS_Singleton, FS_Subset
<1>3. ASSUME NEW o, NEW j, j \in DOMAIN Start, Start[j].parent = IdOf(o)
      PROVE  IdOf(First(j)) = j /\ j \in There /\ j # Root
  BY <1>3, NamespaceAssumption DEF There, IdOf, First
<1> HIDE DEF ps, cs, nm
<1>4. ASSUME NEW o \in Objs
      PROVE  /\ obj[o].uploaded => \E id \in There : o = First(id)
             /\ IsFiniteSet(obj[o].parents)
             /\ obj[o].children # {} => obj[o].children = cs(o) /\ o = First(IdOf(o))
  <2>1. CASE o \in {First(id) : id \in There}
    <3>1. obj[o] = [NoObject EXCEPT !.known = TRUE, !.uploaded = TRUE, !.count = 1,
                      !.name = nm(o), !.parents = ps(o), !.children = cs(o)]
      BY <1>1, <2>1
    <3>2. o = First(IdOf(o))
      BY <2>1 DEF First, IdOf
    <3> QED BY <1>2, <2>1, <3>1, <3>2 DEF NoObject
  <2>2. CASE o \notin {First(id) : id \in There}
    <3>1. obj[o] = NoObject
      BY <1>1, <2>2
    <3>2. ~NoObject.uploaded /\ NoObject.parents = {} /\ NoObject.children = {}
      BY DEF NoObject
    <3> QED BY <3>1, <3>2, FS_EmptySet
  <2> QED BY <2>1, <2>2
<1>5. UpInv
  <2> SUFFICES ASSUME NEW o \in Objs, obj[o].uploaded
               PROVE  srv[IdOf(o)].st # "none"
    BY DEF UpInv
  <2>1. PICK id \in There : o = First(id)
    BY <1>4
  <2>2. srv[id] = StartFile(id) /\ IdOf(o) = id
    BY <1>0, <2>1 DEF Init, First, IdOf
  <2> QED BY <2>2 DEF StartFile
<1>6. FinInv
  BY <1>4 DEF FinInv
<1>7. ASSUME NEW p \in Objs, NEW q \in Objs, NEW c \in obj[p].children
      PROVE  IdOf(c) # Root /\ byId[IdOf(c)] = c /\ (c \in obj[q].children => p = q)
  <2>1. c \in cs(p) /\ p = First(IdOf(p)) /\ (c \in obj[q].children => c \in cs(q) /\ q = First(IdOf(q)))
    BY <1>4
  <2>2. PICK j \in DOMAIN Start : Start[j].parent = IdOf(p) /\ c = First(j)
    BY <2>1 DEF cs
  <2>3. j \in There /\ j # Root /\ IdOf(c) = j
    BY <1>3, <2>2
  <2>4. byId[j] = First(j)
    BY <1>0, <2>3 DEF Init
  <2>5. ASSUME c \in cs(q)
        PROVE  IdOf(q) = IdOf(p)
    <3>1. PICK i \in DOMAIN Start : Start[i].parent = IdOf(q) /\ c = First(i)
      BY <2>5 DEF cs
    <3>2. i = j
      BY <1>3, <2>2, <3>1
    <3> QED BY <2>2, <3>1, <3>2
  <2> QED BY <2>1, <2>2, <2>3, <2>4, <2>5
<1> QED BY <1>5, <1>6, <1>7

LEMMA InitInv == Init => IInv
<1> SUFFICES ASSUME Init
             PROVE  IInv
  OBVIOUS
<1>0. TypeInv /\ OpInv /\ There \subseteq Ids
  BY InitType, Constants, NamespaceAssumption DEF There
<1>1. /\ \A w \in Workers : op[w].pc = "idle"
      /\ feed.pc = "idle" /\ news = {} /\ used.requests = 0
      /\ \A id \in There : srv[id].st = "here"
  <2>1. \A id \in Ids : srv[id] = IF id \in There THEN StartFile(id) ELSE NoFile
    BY DEF Init
  <2>2. \A id : StartFile(id).st = "here"
    BY DEF StartFile
  <2>3. \A w \in Workers : op[w] = Idle
    BY DEF Init
  <2>4. feed = NoChange /\ news = {} /\ used.requests = 0
    BY DEF Init
  <2> QED BY <1>0, <2>1, <2>2, <2>3, <2>4 DEF Idle, NoChange
<1>2. MapInv /\ RealInv
  BY <1>1, InitObjects, Constants DEF MapInv, RealInv, Making, Feeding
<1>3. MakeInv /\ FetchInv /\ OldInv /\ TaskInv
  BY <1>1 DEF MakeInv, FetchInv, OldInv, TaskInv, Changing, Making, Feeding
<1>4. ASSUME NEW o \in Objs
      PROVE  Counted(o)
  <2>1. Tellers(o) = {}
    BY <1>1 DEF Tellers, Telling, Making
  <2>2. IsFiniteSet(Tellers(o)) /\ Cardinality(Tellers(o)) = 0
    BY <2>1, FS_EmptySet
  <2>3. (obj[o].count = 0 /\ held[o] = 0) \/ (obj[o].count = 1 /\ held[o] = 1)
    BY InitObjects
  <2>4. \A w \in Workers : op[w].pc \notin Making
    BY <1>1 DEF Making
  <2> HIDE DEF Tellers
  <2> QED BY <1>1, <2>2, <2>3, <2>4 DEF Counted
<1>5. \A w \in Workers : KidFits(w)
  BY <1>1 DEF KidFits
<1>6. FeedFits
  BY <1>1 DEF FeedFits, Feeding
<1>7. ASSUME NEW id \in There
      PROVE  LET o == First(id) IN obj[o].known /\ (Below(o) => obj[o].parents # {})
  BY InitObjects DEF Below
<1>8. \A p \in Objs : \A c \in obj[p].children : ChildFits(p, c)
  BY <1>7, InitObjects DEF ChildFits, Alive
<1>9. \A o \in Objs : HeldFits(o)
  BY <1>7, InitObjects DEF HeldFits, Placed
<1>10. LinkInv /\ CountInv
  BY <1>4, <1>5, <1>6, <1>8, <1>9 DEF CountInv, LinkInv
<1>11. RootInv
  BY <1>1, InitTree DEF RootInv, There
<1>12. FileInv /\ BareInv /\ OutInv /\ FreeInv
  BY <1>1 DEF FileInv, BareInv, OutInv, FreeInv
<1>13. GoneInv
  BY <1>1 DEF GoneInv
<1>14. UpInv /\ FinInv /\ TwoInv
  BY InitTree DEF TwoInv, In
<1>15. OneInv
  <2>1. \A c \in Objs : Busy(c) => \E p \in Objs : c \in obj[p].children
    BY <1>1 DEF Busy, In, Feeding
  <2> QED BY <2>1, InitTree DEF OneInv
<1> QED BY <1>0, <1>2, <1>3, <1>10, <1>11, <1>12, <1>13, <1>14, <1>15 DEF IInv

LEMMA NextInv == IInv /\ [Next]_vars => IInv'
<1>1. IInv /\ Next => IInv'
  <2> SUFFICES ASSUME IInv, Next
               PROVE  IInv'
    OBVIOUS
  <2>1. /\ TypeInv' /\ OpInv' /\ MapInv' /\ MakeInv' /\ FetchInv' /\ OldInv' /\ CountInv' /\ RealInv'
        /\ TaskInv' /\ LinkInv'
    BY NextType, MapStep, MakeStep, FetchStep, OldStep, CountStep, RealStep, TaskStep,
       LinkStep DEF IInv, LinkKept
  <2>2. /\ UpInv' /\ RootInv' /\ FileInv' /\ FinInv' /\ BareInv' /\ GoneInv' /\ TwoInv' /\ OutInv'
        /\ FreeInv' /\ OneInv'
    BY UpStep, RootStep, FileStep, FinStep, BareStep, GoneStep, TwoStep, OutStep, FreeStep,
       OneStep, <2>1 DEF IInv
  <2> QED BY <2>1, <2>2 DEF IInv
<1>2. IInv /\ UNCHANGED vars => IInv'
  <2> SUFFICES ASSUME IInv, UNCHANGED vars
               PROVE  IInv'
    OBVIOUS
  <2>0. UNCHANGED <<srv, news, obj, byId, held, ev, op, feed, odd, used>>
    BY DEF vars
  <2>1. TypeInv' /\ OpInv'
    BY <2>0 DEF IInv, TypeInv, OpInv, OpOK
  <2>2. MapInv' /\ MakeInv' /\ FetchInv' /\ OldInv'
    BY <2>0 DEF IInv, MapInv, MakeInv, Seen, FetchInv, OldInv, Sound
  <2>3. CountInv' /\ RealInv' /\ TaskInv'
    BY <2>0 DEF IInv, CountInv, Counted, Tellers, RealInv, TaskInv, Changing
  <2>4. LinkInv'
    BY <2>0 DEF IInv, LinkInv, KidFits, ChildFits, HeldFits, FeedFits, Sound, Alive, Placed,
                Linking, Adding, Leaving
  <2>5. UpInv' /\ RootInv' /\ FileInv' /\ FinInv'
    BY <2>0 DEF IInv, UpInv, RootInv, FileInv, FinInv
  <2>6. BareInv' /\ GoneInv'
    BY <2>0 DEF IInv, BareInv, GoneInv, Sound, Single, Adding
  <2>7. TwoInv'
    BY <2>0 DEF IInv, TwoInv, Sound, Spread, HasTwo, In, Adding
  <2>8. OutInv'
    BY <2>0 DEF IInv, OutInv, Sound, Spread, HasTwo, In, Adding
  <2>9. FreeInv' /\ OneInv'
    BY <2>0 DEF IInv, FreeInv, OneInv, Sound, Busy, Ended, In
  <2> QED BY <2>1, <2>2, <2>3, <2>4, <2>5, <2>6, <2>7, <2>8, <2>9 DEF IInv
<1> QED BY <1>1, <1>2

LEMMA InvTyped == IInv /\ up \in BOOLEAN => TypeOK
<1> SUFFICES ASSUME IInv, up \in BOOLEAN
             PROVE  TypeOK
  OBVIOUS
<1>1. TypeInv
  BY DEF IInv
<1>2. Lookups \in Nat /\ used.requests \in Nat /\ used.requests + 1 <= Lookups /\ -Lookups <= -1
  BY <1>1, NamespaceAssumption DEF TypeInv, Lookups
<1>3. ASSUME NEW o \in Objs
      PROVE  held[o] \in 0 .. Lookups /\ obj[o].count \in -Lookups .. Lookups
  <2>1. Counted(o) /\ held[o] \in Nat /\ obj[o].count \in Int
    BY <1>1 DEF IInv, CountInv, TypeInv, ObjType
  <2>2. Cardinality(Tellers(o)) \in Nat
    BY <2>1, FS_CardinalityType DEF Counted
  <2>3. held[o] <= Lookups /\ obj[o].count <= Lookups /\ obj[o].count >= -1
    BY <1>2, <2>1, <2>2 DEF Counted
  <2> QED BY <1>2, <2>1, <2>3
<1>4. held \in [Objs -> 0 .. Lookups]
  BY <1>1, <1>3 DEF TypeInv
<1>5. obj \in [Objs -> [known : BOOLEAN, trashed : BOOLEAN, uploaded : BOOLEAN,
                        count : -Lookups .. Lookups, parents : SUBSET Objs,
                        children : SUBSET Objs, name : Names]]
  <2> SUFFICES ASSUME NEW o \in Objs
               PROVE  obj[o] \in [known : BOOLEAN, trashed : BOOLEAN, uploaded : BOOLEAN,
                        count : -Lookups .. Lookups, parents : SUBSET Objs,
                        children : SUBSET Objs, name : Names]
    BY <1>1 DEF TypeInv
  <2>1. obj[o] \in ObjType
    BY <1>1 DEF TypeInv
  <2>2. obj[o].parents \in SUBSET Objs
    BY <2>1, ObjFacts DEF ObjType
  <2> QED BY <1>3, <2>1, <2>2 DEF ObjType
<1>6. \A w \in Workers : {op[w].dir, op[w].kid, op[w].to} \subseteq AnyObj
  BY <1>1 DEF TypeInv, OpType
<1>7. feed.file \in File /\ {feed.kid, feed.at} \subseteq AnyObj /\ feed.todo \subseteq Objs
  BY <1>1, ObjFacts DEF TypeInv, FeedType, AnyObj
<1> QED BY <1>1, <1>4, <1>5, <1>6, <1>7 DEF TypeOK, TypeInv

LEMMA Invariance == Spec => []IInv
BY InitInv, NextInv, PTL DEF Spec

(* Every variable has its type in every reachable state, however many      *)
(* files, threads, requests and changes there are: in particular a count   *)
(* of lookups is never more than the kernel's requests nor less than -1,   *)
(* though forget, mkdir, create and lookup change it with no lock between  *)
(* what they read and what they write.                                     *)
THEOREM NamespaceTyped == Spec => []TypeOK
<1>1. Init => up \in BOOLEAN
  BY DEF Init
<1>2. up \in BOOLEAN /\ [Next]_vars => (up \in BOOLEAN)'
  BY DEF Next, Starts, Step, Runs, Crashes, MkdirRefused, Others, Feed, vars
<1>3. Spec => [](up \in BOOLEAN)
  BY <1>1, <1>2, PTL DEF Spec
<1> QED BY <1>3, Invariance, InvTyped, PTL

(* A folder the kernel has looked up is in inodeToObject, where mkdir,     *)
(* unlink, rmdir and rename use what they find without a test: no order of *)
(* their steps, of forgets, of the feed's changes and of other clients'    *)
(* takes it out, but for the folders that met one of the odd cases.        *)
THEOREM KernelKept == Spec => []KernelKnown
<1>1. IInv => KernelKnown
  BY DEF IInv, LinkInv, HeldFits, Sound, KernelKnown
<1> QED BY <1>1, Invariance, PTL

(* A file is never listed twice, as two objects of its id: what is in a    *)
(* folder and is not trashed is the object idToObject has of its id,       *)
(* though mkdir and create insert an object, the feed makes one when it    *)
(* finds none, and unlink, forget and the feed take objects out of the map *)
(* while other threads are at work on them; but for the files that met one *)
(* of the odd cases.                                                       *)
THEOREM OneListed == Spec => []OneObject
<1>1. IInv => OneObject
  <2> SUFFICES ASSUME IInv, NEW id \in Ids \ odd
               PROVE  Cardinality({o \in Objs : IdOf(o) = id /\ ~obj[o].trashed /\
                         \E p \in Objs : o \in obj[p].children /\ obj[p].known}) <= 1
    BY DEF OneObject
  <2> DEFINE L == {o \in Objs : IdOf(o) = id /\ ~obj[o].trashed /\
                     \E p \in Objs : o \in obj[p].children /\ obj[p].known}
  <2>1. L \subseteq {byId[id]}
    BY DEF IInv, OneInv, Busy, In, Ended, Sound
  <2> HIDE DEF L
  <2>2. IsFiniteSet({byId[id]}) /\ Cardinality({byId[id]}) = 1
    BY FS_Singleton
  <2>3. Cardinality(L) <= 1
    BY <2>1, <2>2, FS_Subset
  <2> QED BY <2>3 DEF L
<1> QED BY <1>1, Invariance, PTL

=============================================================================
