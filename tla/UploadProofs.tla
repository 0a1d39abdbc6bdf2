---------------------------- MODULE UploadProofs ----------------------------
(***************************************************************************)
(* What holds of Upload for any number of handles, upload URLs, crashes    *)
(* and units written, whatever the server loses and forgets: its type      *)
(* invariant, and that nothing released is lost, is stored in part, or     *)
(* comes back after it was deleted.                                        *)
(***************************************************************************)
EXTENDS Upload, TLAPS

(* Where a task has not looked at its object yet, and where it knows that  *)
(* its file has, or had, a parent.                                         *)
Early   == {"none", "queued", "parked", "dead"}
Running == {"post", "ask", "url", "put", "send", "sent", "finish", "resume"}

(* What the kernel asks of a handle; HandleStep is the rest of release.    *)
HandleCall(h) == \/ Open(h) \/ Write(h) \/ WriteFails(h) \/ ReadTruncates(h)
                 \/ Release(h)

Alone == ~hist.reopened
Kid   == hd[Creator]
Held  == Kid.pc \in {"open", "upsert", "check", "rename"}

(* A task that talks to the server about an upload URL has one.            *)
UrlInv == \A t \in Tasks :
  up[t].pc \in {"url", "put", "send", "parked", "resume"} => up[t].url \in Url

(* Nothing happens to a file before create.                                *)
MadeInv == ~hist.made =>
  /\ f = None /\ rel = None /\ doc = NoDoc /\ obj = Absent /\ un = "none"
  /\ boot \in {"up", "load"}
  /\ stored.len = None /\ ~stored.deleted
  /\ hist.saved = None /\ ~hist.unlinked /\ ~hist.reopened
  /\ hd = [h \in Handles |-> Closed] /\ up = [t \in Tasks |-> NoTask]

(* A start has the process to itself but for the task it queues, which     *)
(* gets no further than the wait for a parent.                             *)
BootInv ==
  /\ boot # "up" => un = "none" /\ hd = [h \in Handles |-> Closed]
  /\ boot = "load" => obj = Absent /\ up = [t \in Tasks |-> NoTask]
  /\ boot \in {"insert", "link"} =>
       /\ ~obj.linked /\ ~obj.trashed
       /\ \A t \in Tasks : up[t].pc \in Early \cup {"slept"}

(* Who has a name open: the file is there.                                 *)
HandleInv == \A h \in Handles :
  /\ hd[h].pc # "open" => hd[h].fd = "none"
  /\ hd[h].fd = "f" => f # None
  /\ hd[h].fd = "rel" => rel # None

(* What comes after the first release.                                     *)
SavedInv ==
  /\ rel # None \/ stored.len # None => hist.saved # None
  /\ \A t \in Tasks : up[t].pc # "none" => hist.saved # None
  /\ \A h \in Handles : hd[h].pc = "queue" => hist.saved # None

(* What only the user's unlink brings about.                               *)
UnlinkedInv ==
  un # "none" \/ stored.deleted \/ obj.trashed => hist.unlinked

(* The server has the file of a document with a checksum, and of a task    *)
(* that was answered, or had it.                                           *)
ServerInv ==
  /\ doc.md5 => stored.len # None \/ stored.deleted
  /\ \A t \in Tasks : up[t].pc = "sent" => stored.len # None \/ stored.deleted

(* A file that is not deleted is in one place at least, and a task removes *)
(* .released only when it is on the server and marked as uploaded.         *)
KeptInv == ~hist.unlinked =>
  /\ Kept
  /\ obj.linked \/ boot = "link" => obj.inMap
  /\ hist.saved # None /\ (obj.inMap \/ boot = "insert") =>
       rel # None \/ obj.uploaded
  /\ obj.uploaded /\ stored.len = None =>
       \A t \in Tasks : up[t].pc \in {"none", "queued", "slept", "dead"}
  /\ \A t \in Tasks :
       /\ up[t].pc \notin Early => obj.inMap
       /\ up[t].pc \in {"sent", "finish"} => stored.len # None
       /\ up[t].pc = "finish" => obj.uploaded

(* A task meets a parent, the trashed flag, or a file the server has.      *)
ParentInv ==
  /\ un \in {"file", "released", "parent", "doc"} =>
       obj.trashed \/ stored.len # None
  /\ \A t \in Tasks :
       /\ up[t].pc \in Running => obj.linked \/ obj.trashed \/ stored.len # None
       /\ up[t].pc = "ask" => up[t].linked \/ obj.trashed \/ stored.len # None

(* With the creator's handle only ...                                      *)
OthersInv == Alone => \A h \in Others : hd[h] = Closed

(* ... what it holds until it has released.                                *)
CreatorInv == Alone =>
  /\ Held => hist.saved = None
  /\ Kid.pc = "open" => Kid.fd \in {"f", "gone"}
  /\ Kid.fd = "gone" => f = None
  /\ Held /\ ~hist.unlinked => f # None /\ obj.linked
  /\ Held /\ f # None =>
       /\ obj.size = f
       /\ Kid.pc # "open" \/ Kid.needs => f > 0
  /\ Kid.pc \in {"check", "rename"} /\ ~hist.unlinked =>
       doc.linked /\ ~doc.trashed /\ doc.size = f

(* ... and after that every copy of the file is the whole of it, and the   *)
(* document is there to find it by.                                        *)
WholeInv == Alone =>
  /\ rel # None => rel = hist.saved
  /\ stored.len # None => stored.len = hist.saved
  /\ hist.saved # None => hist.saved > 0
  /\ Kid.pc = "queue" => obj.size = hist.saved
  /\ \A t \in Tasks :
       /\ up[t].pc \notin {"none", "dead"} => obj.size = hist.saved
       /\ up[t].pc = "send" => up[t].len = hist.saved
  /\ ~hist.unlinked /\ doc.linked => doc.size > 0
  /\ ~hist.unlinked /\ hist.saved # None =>
       doc.linked /\ ~doc.trashed /\ doc.size = hist.saved

(* ... and unlink leaves nothing of a file the server never had.           *)
GoneInv == Alone =>
  /\ un = "delete" => obj.uploaded
  /\ un = "released" => f = None
  /\ stored.len = None /\ ~stored.deleted =>
       /\ obj.uploaded => hist.unlinked /\ un = "none"
       /\ un \in {"parent", "doc", "done"} => f = None /\ rel = None
       /\ un \in {"doc", "done"} => ~obj.linked
       /\ un = "done" => ~doc.linked

-----------------------------------------------------------------------------

(* Every variable has its type, a task's URL is one of the server's, and a  *)
(* document with a checksum has a size.                                    *)
SizeInv == doc.md5 => doc.size # None
TypeInv == TypeOK /\ UrlInv /\ SizeInv

LEMMA ConstTypes ==
  /\ NoDoc \in DocType /\ Absent \in ObjType
  /\ Closed \in HandleType /\ NoTask \in TaskType
  /\ 0 \in Length
<1>1. MaxLen \in Nat
  BY UploadAssumption
<1> QED
  BY <1>1 DEF NoDoc, Absent, Closed, NoTask, DocType, ObjType, HandleType,
              TaskType, MaybeLength, Length, None

LEMMA InitType == Init => TypeInv
<1>1. MaxLen \in Nat /\ MaxCrashes \in Nat
  BY UploadAssumption
<1>2. Init => UrlInv /\ SizeInv
  BY DEF Init, UrlInv, SizeInv, NoTask, NoDoc
<1> QED
  BY <1>1, <1>2, ConstTypes
     DEF Init, TypeInv, TypeOK, StoredType, SessionType, HistType, MaybeLength,
         Length, None

(* What the handles do keeps every type.                                   *)
LEMMA HandleStepType ==
  ASSUME TypeInv, NEW h \in Handles, HandleStep(h)
  PROVE  TypeInv'
<1>0. MaxLen \in Nat /\ MaxCrashes \in Nat
  BY UploadAssumption
<1>1. CASE Upsert(h)
  <2>1. doc' \in DocType /\ SizeInv'
    <3>1.
          /\ obj.size \in Length
          /\ obj.linked \in BOOLEAN
          /\ obj.trashed \in BOOLEAN
      BY DEF TypeInv, TypeOK, ObjType
    <3>2. doc' = [doc EXCEPT !.size = obj.size, !.linked = obj.linked, !.trashed = obj.trashed]
      BY <1>1 DEF Upsert
    <3>3. doc' \in DocType
      BY <3>1, <3>2 DEF TypeInv, TypeOK, DocType, MaybeLength
    <3>4. doc'.size = obj.size
      BY <3>2 DEF TypeInv, TypeOK, DocType
    <3> QED BY <1>0, <3>1, <3>3, <3>4 DEF SizeInv, Length, None
  <2>2. hd' \in [Handles -> HandleType]
    BY <1>0, <1>1, ConstTypes DEF Upsert, TypeInv, TypeOK, HandleType
  <2> QED BY <1>1, <2>1, <2>2 DEF Upsert, TypeInv, TypeOK, disk, server, UrlInv
<1>2. CASE Check(h)
  <2>1. hd' \in [Handles -> HandleType]
    BY <1>0, <1>2, ConstTypes DEF Check, TypeInv, TypeOK, HandleType
  <2> QED BY <1>2, <2>1 DEF Check, TypeInv, TypeOK, disk, server, UrlInv,
       SizeInv
<1>3. CASE Rename(h)
  <2>1. f' \in MaybeLength
    BY <1>0, <1>3, ConstTypes DEF Rename, TypeInv, TypeOK, MaybeLength, Length,
         None
  <2>2. rel' \in MaybeLength
    BY <1>0, <1>3, ConstTypes DEF Rename, TypeInv, TypeOK, MaybeLength, Length,
         None
  <2>3. hist' \in HistType
    BY <1>0, <1>3, ConstTypes DEF Rename, TypeInv, TypeOK, HistType,
         MaybeLength, Length, None
  <2>4. hd' \in [Handles -> HandleType]
    BY <1>0, <1>3, ConstTypes DEF Rename, TypeInv, TypeOK, HandleType
  <2> QED BY <1>3, <2>1, <2>2, <2>3, <2>4 DEF Rename, TypeInv, TypeOK, server,
       UrlInv, SizeInv
<1>4. CASE RenameThrows(h)
  <2>1. obj' \in ObjType
    BY <1>0, <1>4, ConstTypes DEF RenameThrows, TypeInv, TypeOK, ObjType, Die
  <2>2. hd' \in [Handles -> HandleType]
    BY <1>0, <1>4, ConstTypes DEF RenameThrows, TypeInv, TypeOK, HandleType,
         Die
  <2>3. up' \in [Tasks -> TaskType]
    BY <1>0, <1>4, ConstTypes DEF RenameThrows, TypeInv, TypeOK, TaskType, Die
  <2>4. UrlInv'
    BY <1>0, <1>4, ConstTypes DEF RenameThrows, TypeInv, TypeOK, UrlInv,
         TaskType, Die, NoTask
  <2> QED BY <1>4, <2>1, <2>2, <2>3, <2>4 DEF RenameThrows, TypeInv, TypeOK,
       Die, disk, server, SizeInv
<1>5. CASE Queue(h)
  <2>1. hd' \in [Handles -> HandleType]
    BY <1>0, <1>5, ConstTypes DEF Queue, TypeInv, TypeOK, HandleType
  <2>2. up' \in [Tasks -> TaskType]
    BY <1>0, <1>5, ConstTypes DEF Queue, TypeInv, TypeOK, TaskType, Handles,
         Tasks
  <2>3. UrlInv'
    BY <1>0, <1>5, ConstTypes DEF Queue, TypeInv, TypeOK, UrlInv, TaskType,
         Handles, Tasks
  <2> QED BY <1>5, <2>1, <2>2, <2>3 DEF Queue, TypeInv, TypeOK, disk, server,
       SizeInv
<1> QED BY <1>1, <1>2, <1>3, <1>4, <1>5 DEF HandleStep

(* ... and what the kernel asks of them.                                   *)
LEMMA HandleCallType ==
  ASSUME TypeInv, NEW h \in Handles, HandleCall(h)
  PROVE  TypeInv'
<1>0. MaxLen \in Nat /\ MaxCrashes \in Nat
  BY UploadAssumption
<1>1. CASE Open(h)
  <2>1. hd' \in [Handles -> HandleType]
    BY <1>0, <1>1, ConstTypes DEF Open, TypeInv, TypeOK, HandleType
  <2>2. hist' \in HistType
    BY <1>0, <1>1, ConstTypes DEF Open, TypeInv, TypeOK, HistType, MaybeLength,
         Length, None
  <2> QED BY <1>1, <2>1, <2>2 DEF Open, TypeInv, TypeOK, disk, server, UrlInv,
       SizeInv
<1>2. CASE Write(h)
  <2>1. f' \in MaybeLength
    BY <1>0, <1>2, ConstTypes DEF Write, TypeInv, TypeOK, MaybeLength, Length,
         None
  <2>2. rel' \in MaybeLength
    BY <1>0, <1>2, ConstTypes DEF Write, TypeInv, TypeOK, MaybeLength, Length,
         None
  <2>3. obj' \in ObjType
    BY <1>0, <1>2, ConstTypes DEF Write, TypeInv, TypeOK, ObjType, Max2,
         MaybeLength, Length, None
  <2>4. hd' \in [Handles -> HandleType]
    BY <1>0, <1>2, ConstTypes DEF Write, TypeInv, TypeOK, HandleType
  <2> QED BY <1>2, <2>1, <2>2, <2>3, <2>4 DEF Write, TypeInv, TypeOK, server,
       UrlInv, SizeInv
<1>3. CASE WriteFails(h)
  <2>1. hd' \in [Handles -> HandleType]
    BY <1>0, <1>3, ConstTypes DEF WriteFails, TypeInv, TypeOK, HandleType
  <2> QED BY <1>3, <2>1 DEF WriteFails, TypeInv, TypeOK, disk, server, UrlInv,
       SizeInv
<1>4. CASE ReadTruncates(h)
  <2>1. f' \in MaybeLength
    BY <1>0, <1>4, ConstTypes DEF ReadTruncates, TypeInv, TypeOK, MaybeLength,
         Length, None
  <2>2. obj' \in ObjType
    BY <1>0, <1>4, ConstTypes DEF ReadTruncates, TypeInv, TypeOK, ObjType,
         Length
  <2>3. hd' \in [Handles -> HandleType]
    BY <1>0, <1>4, ConstTypes DEF ReadTruncates, TypeInv, TypeOK, HandleType
  <2> QED BY <1>4, <2>1, <2>2, <2>3 DEF ReadTruncates, TypeInv, TypeOK, server,
       UrlInv, SizeInv
<1>5. CASE Release(h)
  <2>1. hd' \in [Handles -> HandleType]
    BY <1>0, <1>5, ConstTypes DEF Release, TypeInv, TypeOK, HandleType
  <2> QED BY <1>5, <2>1 DEF Release, TypeInv, TypeOK, disk, server, UrlInv,
       SizeInv
<1> QED BY <1>1, <1>2, <1>3, <1>4, <1>5 DEF HandleCall

(* So does an upload task.                                                 *)
LEMMA TaskStepType ==
  ASSUME TypeInv, NEW t \in Tasks, TaskStep(t)
  PROVE  TypeInv'
<1>0. MaxLen \in Nat /\ MaxCrashes \in Nat
  BY UploadAssumption
<1>1. CASE CheckFile(t)
  <2>1. up' \in [Tasks -> TaskType]
    BY <1>0, <1>1, ConstTypes DEF CheckFile, TypeInv, TypeOK, TaskType, Go
  <2>2. UrlInv'
    BY <1>0, <1>1, ConstTypes DEF CheckFile, TypeInv, TypeOK, UrlInv, TaskType,
         Go
  <2>3. hist' \in HistType
    BY <1>0, <1>1, ConstTypes DEF CheckFile, TypeInv, TypeOK, HistType,
         MaybeLength, Length, None
  <2> QED BY <1>1, <2>1, <2>2, <2>3 DEF CheckFile, TypeInv, TypeOK, disk,
       server, SizeInv
<1>2. CASE Spin(t)
  <2>1. up' \in [Tasks -> TaskType]
    BY <1>0, <1>2, ConstTypes DEF Spin, TypeInv, TypeOK, TaskType, Go
  <2>2. UrlInv'
    BY <1>0, <1>2, ConstTypes DEF Spin, TypeInv, TypeOK, UrlInv, TaskType, Go
  <2> QED BY <1>2, <2>1, <2>2 DEF Spin, TypeInv, TypeOK, disk, server, SizeInv
<1>3. CASE ReadParents(t)
  <2>1. up' \in [Tasks -> TaskType]
    <3> DEFINE new == [up[t] EXCEPT !.pc = "ask", !.linked = obj.linked]
    <3>1. new \in TaskType
      BY <1>0, <1>3, ConstTypes DEF ReadParents, TypeInv, TypeOK, TaskType,
           ObjType
    <3>2. up' = [up EXCEPT ![t] = new]
      BY <1>3 DEF ReadParents, TypeInv, TypeOK
    <3> QED BY <3>1, <3>2 DEF TypeInv, TypeOK
  <2>2. UrlInv'
    BY <1>0, <1>3, ConstTypes DEF ReadParents, TypeInv, TypeOK, UrlInv,
         TaskType
  <2> QED BY <1>3, <2>1, <2>2 DEF ReadParents, TypeInv, TypeOK, disk, server,
       SizeInv
<1>4. CASE AskTrashed(t)
  <2>1. rel' \in MaybeLength
    BY <1>0, <1>4, ConstTypes DEF AskTrashed, TypeInv, TypeOK, RemoveReleased,
         MaybeLength, Length, None
  <2>2. hd' \in [Handles -> HandleType]
    BY <1>0, <1>4, ConstTypes DEF AskTrashed, TypeInv, TypeOK, RemoveReleased,
         Move, HandleType
  <2>3. up' \in [Tasks -> TaskType]
    BY <1>0, <1>4, ConstTypes DEF AskTrashed, TypeInv, TypeOK, TaskType, Go
  <2>4. UrlInv'
    BY <1>0, <1>4, ConstTypes DEF AskTrashed, TypeInv, TypeOK, UrlInv,
         TaskType, Go
  <2> QED BY <1>4, <2>1, <2>2, <2>3, <2>4 DEF AskTrashed, TypeInv, TypeOK,
       server, SizeInv
<1>5. CASE Ask(t)
  <2>1. ses' \in [Url -> SessionType]
    BY <1>0, <1>5, ConstTypes DEF Ask, TypeInv, TypeOK, SessionType
  <2>2. up' \in [Tasks -> TaskType]
    <3>1. PICK k \in Url : up' = [up EXCEPT ![t].pc = "url", ![t].url = k]
      BY <1>5 DEF Ask
    <3> DEFINE new == [up[t] EXCEPT !.pc = "url", !.url = k]
    <3>2. new \in TaskType
      BY DEF TypeInv, TypeOK, TaskType
    <3>3. up' = [up EXCEPT ![t] = new]
      BY <3>1 DEF TypeInv, TypeOK
    <3> QED BY <3>2, <3>3 DEF TypeInv, TypeOK
  <2>3. UrlInv'
    BY <1>0, <1>5, ConstTypes DEF Ask, TypeInv, TypeOK, UrlInv, TaskType
  <2> QED BY <1>5, <2>1, <2>2, <2>3 DEF Ask, TypeInv, TypeOK, disk, SizeInv
<1>6. CASE AskAgain(t)
  <2>1. ses' \in [Url -> SessionType]
    BY <1>0, <1>6, ConstTypes DEF AskAgain, TypeInv, TypeOK, SessionType
  <2>2. up' \in [Tasks -> TaskType]
    BY <1>0, <1>6, ConstTypes DEF AskAgain, TypeInv, TypeOK, TaskType, Go
  <2>3. UrlInv'
    BY <1>0, <1>6, ConstTypes DEF AskAgain, TypeInv, TypeOK, UrlInv, TaskType,
         Go
  <2> QED BY <1>6, <2>1, <2>2, <2>3 DEF AskAgain, TypeInv, TypeOK, disk,
       SizeInv
<1>7. CASE SaveUrl(t)
  <2>1. doc' \in DocType /\ SizeInv'
    BY <1>0, <1>7, ConstTypes DEF SaveUrl, TypeInv, TypeOK, SizeInv, DocType,
         MaybeLength, Length, None, UrlInv, NoDoc
  <2>2. up' \in [Tasks -> TaskType]
    <3> DEFINE new == [up[t] EXCEPT !.pc = "put", !.from = 0]
    <3>1. new \in TaskType
      BY <1>0, <1>7, ConstTypes DEF SaveUrl, TypeInv, TypeOK, TaskType
    <3>2. up' = [up EXCEPT ![t] = new]
      BY <1>7 DEF SaveUrl, TypeInv, TypeOK
    <3> QED BY <3>1, <3>2 DEF TypeInv, TypeOK
  <2>3. UrlInv'
    BY <1>0, <1>7, ConstTypes DEF SaveUrl, TypeInv, TypeOK, UrlInv, TaskType
  <2> QED BY <1>7, <2>1, <2>2, <2>3 DEF SaveUrl, TypeInv, TypeOK, disk, server
<1>8. CASE Put(t)
  <2>1. up' \in [Tasks -> TaskType]
    BY <1>0, <1>8, ConstTypes DEF Put, TypeInv, TypeOK, TaskType, Go, ObjType
  <2>2. UrlInv'
    BY <1>0, <1>8, ConstTypes DEF Put, TypeInv, TypeOK, UrlInv, TaskType, Go
  <2> QED BY <1>8, <2>1, <2>2 DEF Put, TypeInv, TypeOK, disk, server, SizeInv
<1>9. CASE SendOk(t)
  <2>1. ses' \in [Url -> SessionType]
    BY <1>0, <1>9, ConstTypes DEF SendOk, TypeInv, TypeOK, SessionType,
         TaskType, Arrives, Live, UrlInv
  <2>2. stored' \in StoredType
    BY <1>0, <1>9, ConstTypes DEF SendOk, TypeInv, TypeOK, StoredType,
         MaybeLength, Length, None, TaskType, Arrives
  <2>3. up' \in [Tasks -> TaskType]
    BY <1>0, <1>9, ConstTypes DEF SendOk, TypeInv, TypeOK, TaskType, Go
  <2>4. UrlInv'
    BY <1>0, <1>9, ConstTypes DEF SendOk, TypeInv, TypeOK, UrlInv, TaskType,
         Go, Arrives, Live
  <2> QED BY <1>9, <2>1, <2>2, <2>3, <2>4 DEF SendOk, TypeInv, TypeOK, disk,
       Arrives, SizeInv
<1>10. CASE SendLost(t)
  <2>1. ses' \in [Url -> SessionType]
    BY <1>0, <1>10, ConstTypes DEF SendLost, TypeInv, TypeOK, SessionType,
         TaskType, Arrives, Live, UrlInv
  <2>2. stored' \in StoredType
    BY <1>0, <1>10, ConstTypes DEF SendLost, TypeInv, TypeOK, StoredType,
         MaybeLength, Length, None, TaskType, Arrives
  <2>3. up' \in [Tasks -> TaskType]
    BY <1>0, <1>10, ConstTypes DEF SendLost, TypeInv, TypeOK, TaskType, Go
  <2>4. UrlInv'
    BY <1>0, <1>10, ConstTypes DEF SendLost, TypeInv, TypeOK, UrlInv, TaskType,
         Go, Arrives, Live
  <2> QED BY <1>10, <2>1, <2>2, <2>3, <2>4 DEF SendLost, TypeInv, TypeOK, disk,
       Arrives, SizeInv
<1>11. CASE SendCut(t)
  <2>1. ses' \in [Url -> SessionType]
    BY <1>0, <1>11, ConstTypes DEF SendCut, TypeInv, TypeOK, SessionType,
         TaskType, Live, UrlInv, Length
  <2>2. up' \in [Tasks -> TaskType]
    BY <1>0, <1>11, ConstTypes DEF SendCut, TypeInv, TypeOK, TaskType, Go
  <2>3. UrlInv'
    BY <1>0, <1>11, ConstTypes DEF SendCut, TypeInv, TypeOK, UrlInv, TaskType,
         Go, Live
  <2> QED BY <1>11, <2>1, <2>2, <2>3 DEF SendCut, TypeInv, TypeOK, disk,
       SizeInv
<1>12. CASE SendRefused(t)
  <2>1. up' \in [Tasks -> TaskType]
    BY <1>0, <1>12, ConstTypes DEF SendRefused, TypeInv, TypeOK, TaskType, Go
  <2>2. UrlInv'
    BY <1>0, <1>12, ConstTypes DEF SendRefused, TypeInv, TypeOK, UrlInv,
         TaskType, Go
  <2> QED BY <1>12, <2>1, <2>2 DEF SendRefused, TypeInv, TypeOK, disk, server,
       SizeInv
<1>13. CASE Sent(t)
  <2>1. obj' \in ObjType
    BY <1>0, <1>13, ConstTypes DEF Sent, TypeInv, TypeOK, ObjType
  <2>2. up' \in [Tasks -> TaskType]
    BY <1>0, <1>13, ConstTypes DEF Sent, TypeInv, TypeOK, TaskType, Go
  <2>3. UrlInv'
    BY <1>0, <1>13, ConstTypes DEF Sent, TypeInv, TypeOK, UrlInv, TaskType, Go
  <2> QED BY <1>13, <2>1, <2>2, <2>3 DEF Sent, TypeInv, TypeOK, disk, server,
       SizeInv
<1>14. CASE Finish(t)
  <2>1. rel' \in MaybeLength
    BY <1>0, <1>14, ConstTypes DEF Finish, TypeInv, TypeOK, RemoveReleased,
         MaybeLength, Length, None
  <2>2. hd' \in [Handles -> HandleType]
    BY <1>0, <1>14, ConstTypes DEF Finish, TypeInv, TypeOK, RemoveReleased,
         Move, HandleType
  <2>3. up' \in [Tasks -> TaskType]
    BY <1>0, <1>14, ConstTypes DEF Finish, TypeInv, TypeOK, TaskType, Go
  <2>4. UrlInv'
    BY <1>0, <1>14, ConstTypes DEF Finish, TypeInv, TypeOK, UrlInv, TaskType,
         Go
  <2> QED BY <1>14, <2>1, <2>2, <2>3, <2>4 DEF Finish, TypeInv, TypeOK, server,
       SizeInv
<1>15. CASE ResumeStart(t)
  <2>1. up' \in [Tasks -> TaskType]
    BY <1>0, <1>15, ConstTypes DEF ResumeStart, TypeInv, TypeOK, TaskType, Go
  <2>2. UrlInv'
    BY <1>0, <1>15, ConstTypes DEF ResumeStart, TypeInv, TypeOK, UrlInv,
         TaskType, Go
  <2> QED BY <1>15, <2>1, <2>2 DEF ResumeStart, TypeInv, TypeOK, disk, server,
       SizeInv
<1>16. CASE ResumeFrom(t)
  <2>1. up' \in [Tasks -> TaskType]
    <3> DEFINE new == [up[t] EXCEPT !.pc = "put", !.from = ses[up[t].url].got]
    <3>1. new \in TaskType
      BY <1>0, <1>16, ConstTypes DEF ResumeFrom, TypeInv, TypeOK, TaskType,
           UrlInv, SessionType
    <3>2. up' = [up EXCEPT ![t] = new]
      BY <1>16 DEF ResumeFrom, TypeInv, TypeOK
    <3> QED BY <3>1, <3>2 DEF TypeInv, TypeOK
  <2>2. UrlInv'
    BY <1>0, <1>16, ConstTypes DEF ResumeFrom, TypeInv, TypeOK, UrlInv,
         TaskType
  <2> QED BY <1>16, <2>1, <2>2 DEF ResumeFrom, TypeInv, TypeOK, disk, server,
       SizeInv
<1>17. CASE ResumeNowhere(t)
  <2>1. rel' \in MaybeLength
    BY <1>0, <1>17, ConstTypes DEF ResumeNowhere, TypeInv, TypeOK,
         RemoveReleased, MaybeLength, Length, None
  <2>2. hd' \in [Handles -> HandleType]
    BY <1>0, <1>17, ConstTypes DEF ResumeNowhere, TypeInv, TypeOK,
         RemoveReleased, Move, HandleType
  <2>3. up' \in [Tasks -> TaskType]
    BY <1>0, <1>17, ConstTypes DEF ResumeNowhere, TypeInv, TypeOK, TaskType, Go
  <2>4. UrlInv'
    BY <1>0, <1>17, ConstTypes DEF ResumeNowhere, TypeInv, TypeOK, UrlInv,
         TaskType, Go
  <2> QED BY <1>17, <2>1, <2>2, <2>3, <2>4 DEF ResumeNowhere, TypeInv, TypeOK,
       server, SizeInv
<1> QED BY <1>1, <1>2, <1>3, <1>4, <1>5, <1>6, <1>7, <1>8, <1>9, <1>10, <1>11,
     <1>12, <1>13, <1>14, <1>15, <1>16, <1>17 DEF TaskStep

(* So does unlink.                                                         *)
LEMMA UnlinkType ==
  ASSUME TypeInv, Unlink
  PROVE  TypeInv'
<1>0. MaxLen \in Nat /\ MaxCrashes \in Nat
  BY UploadAssumption
<1>1. CASE UnlinkStart
  <2>1. hist' \in HistType
    BY <1>0, <1>1, ConstTypes DEF UnlinkStart, TypeInv, TypeOK, HistType,
         MaybeLength, Length, None
  <2> QED BY <1>1, <2>1 DEF UnlinkStart, TypeInv, TypeOK, disk, server, Un,
       UrlInv, SizeInv
<1>2. CASE UnlinkDelete
  <2>1. obj' \in ObjType
    BY <1>0, <1>2, ConstTypes DEF UnlinkDelete, TypeInv, TypeOK, ObjType
  <2>2. stored' \in StoredType
    BY <1>0, <1>2, ConstTypes DEF UnlinkDelete, TypeInv, TypeOK, StoredType,
         MaybeLength, Length, None
  <2> QED BY <1>2, <2>1, <2>2 DEF UnlinkDelete, TypeInv, TypeOK, disk, Un,
       UrlInv, SizeInv
<1>3. CASE UnlinkTrash
  <2>1. obj' \in ObjType
    BY <1>0, <1>3, ConstTypes DEF UnlinkTrash, TypeInv, TypeOK, ObjType
  <2> QED BY <1>3, <2>1 DEF UnlinkTrash, TypeInv, TypeOK, disk, server, Un,
       UrlInv, SizeInv
<1>4. CASE UnlinkFile
  <2>1. f' \in MaybeLength
    BY <1>0, <1>4, ConstTypes DEF UnlinkFile, TypeInv, TypeOK, MaybeLength,
         Length, None
  <2>2. hd' \in [Handles -> HandleType]
    BY <1>0, <1>4, ConstTypes DEF UnlinkFile, TypeInv, TypeOK, HandleType, Move
  <2> QED BY <1>4, <2>1, <2>2 DEF UnlinkFile, TypeInv, TypeOK, server, Un,
       UrlInv, SizeInv
<1>5. CASE UnlinkReleased
  <2>1. rel' \in MaybeLength
    BY <1>0, <1>5, ConstTypes DEF UnlinkReleased, TypeInv, TypeOK,
         RemoveReleased, MaybeLength, Length, None
  <2>2. hd' \in [Handles -> HandleType]
    BY <1>0, <1>5, ConstTypes DEF UnlinkReleased, TypeInv, TypeOK,
         RemoveReleased, Move, HandleType
  <2> QED BY <1>5, <2>1, <2>2 DEF UnlinkReleased, TypeInv, TypeOK, server, Un,
       UrlInv, SizeInv
<1>6. CASE UnlinkParent
  <2>1. obj' \in ObjType
    BY <1>0, <1>6, ConstTypes DEF UnlinkParent, TypeInv, TypeOK, ObjType
  <2> QED BY <1>6, <2>1 DEF UnlinkParent, TypeInv, TypeOK, disk, server, Un,
       UrlInv, SizeInv
<1>7. CASE UnlinkDoc
  <2>1. doc' \in DocType /\ SizeInv'
    <3>1. obj.size \in Length /\ obj.trashed \in BOOLEAN
      BY DEF TypeInv, TypeOK, ObjType
    <3>2. CASE obj.linked
      <4>1. doc' = [doc EXCEPT !.size = obj.size, !.linked = TRUE,
                               !.trashed = obj.trashed]
        BY <1>7, <3>2 DEF UnlinkDoc
      <4>2. doc' \in DocType
        BY <3>1, <4>1 DEF TypeInv, TypeOK, DocType, MaybeLength
      <4>3. doc'.size = obj.size
        BY <4>1 DEF TypeInv, TypeOK, DocType
      <4> QED BY <1>0, <3>1, <4>2, <4>3 DEF SizeInv, Length, None
    <3>3. CASE ~obj.linked
      BY <1>0, <1>7, <3>3, ConstTypes DEF UnlinkDoc, SizeInv, NoDoc
    <3> QED BY <3>2, <3>3
  <2> QED BY <1>7, <2>1 DEF UnlinkDoc, TypeInv, TypeOK, disk, server, Un,
       UrlInv
<1> QED BY <1>1, <1>2, <1>3, <1>4, <1>5, <1>6, <1>7 DEF Unlink

(* So do the change feed ...                                               *)
LEMMA FeedType ==
  ASSUME TypeInv, FeedChange \/ FeedRemoved
  PROVE  TypeInv'
<1>0. MaxLen \in Nat /\ MaxCrashes \in Nat
  BY UploadAssumption
<1>1. CASE FeedChange
  <2>1. doc' \in DocType /\ SizeInv'
    BY <1>0, <1>1, ConstTypes DEF FeedChange, TypeInv, TypeOK, SizeInv,
         DocType, MaybeLength, Length, None, StoredType
  <2>2. obj' \in ObjType
    BY <1>0, <1>1, ConstTypes DEF FeedChange, TypeInv, TypeOK, ObjType,
         StoredType, MaybeLength, Length, None
  <2>3. stored' \in StoredType
    BY <1>0, <1>1, ConstTypes DEF FeedChange, TypeInv, TypeOK, StoredType,
         MaybeLength, Length, None
  <2> QED BY <1>1, <2>1, <2>2, <2>3 DEF FeedChange, TypeInv, TypeOK, disk,
       UrlInv
<1>2. CASE FeedRemoved
  <2>1. doc' \in DocType /\ SizeInv'
    BY <1>0, <1>2, ConstTypes DEF FeedRemoved, TypeInv, TypeOK, SizeInv,
         DocType, MaybeLength, Length, None, NoDoc
  <2>2. obj' \in ObjType
    BY <1>0, <1>2, ConstTypes DEF FeedRemoved, TypeInv, TypeOK, ObjType
  <2>3. stored' \in StoredType
    BY <1>0, <1>2, ConstTypes DEF FeedRemoved, TypeInv, TypeOK, StoredType,
         MaybeLength, Length, None
  <2> QED BY <1>2, <2>1, <2>2, <2>3 DEF FeedRemoved, TypeInv, TypeOK, disk,
       UrlInv
<1> QED BY <1>1, <1>2

(* ... the server ...                                                      *)
LEMMA ForgetType ==
  ASSUME TypeInv, NEW k \in Url, Forget(k)
  PROVE  TypeInv'
<1>0. MaxLen \in Nat /\ MaxCrashes \in Nat
  BY UploadAssumption
<1>1. CASE Forget(k)
  <2>1. ses' \in [Url -> SessionType]
    BY <1>0, <1>1, ConstTypes DEF Forget, TypeInv, TypeOK, SessionType
  <2> QED BY <1>1, <2>1 DEF Forget, TypeInv, TypeOK, disk, UrlInv, SizeInv
<1> QED BY <1>1

(* ... and create, the crash and the start.                                *)
LEMMA StartType ==
  ASSUME TypeInv, Create \/ Crash \/ Load
  PROVE  TypeInv'
<1>0. MaxLen \in Nat /\ MaxCrashes \in Nat
  BY UploadAssumption
<1>1. CASE Create
  <2>1. f' \in MaybeLength
    BY <1>0, <1>1, ConstTypes DEF Create, TypeInv, TypeOK, MaybeLength, Length,
         None
  <2>2. obj' \in ObjType
    BY <1>0, <1>1, ConstTypes DEF Create, TypeInv, TypeOK, ObjType, Absent
  <2>3. hd' \in [Handles -> HandleType]
    BY <1>0, <1>1, ConstTypes DEF Create, TypeInv, TypeOK, HandleType, Handles
  <2>4. hist' \in HistType
    BY <1>0, <1>1, ConstTypes DEF Create, TypeInv, TypeOK, HistType,
         MaybeLength, Length, None
  <2> QED BY <1>1, <2>1, <2>2, <2>3, <2>4 DEF Create, TypeInv, TypeOK, server,
       UrlInv, SizeInv
<1>2. CASE Crash
  <2>1. hist' \in HistType
    BY <1>0, <1>2, ConstTypes DEF Crash, TypeInv, TypeOK, HistType,
         MaybeLength, Length, None
  <2>2. obj' \in ObjType
    BY <1>0, <1>2, ConstTypes DEF Crash, TypeInv, TypeOK, ObjType, Die
  <2>3. hd' \in [Handles -> HandleType]
    BY <1>0, <1>2, ConstTypes DEF Crash, TypeInv, TypeOK, HandleType, Die
  <2>4. up' \in [Tasks -> TaskType]
    BY <1>0, <1>2, ConstTypes DEF Crash, TypeInv, TypeOK, TaskType, Die
  <2>5. UrlInv'
    BY <1>0, <1>2, ConstTypes DEF Crash, TypeInv, TypeOK, UrlInv, TaskType,
         Die, NoTask
  <2> QED BY <1>2, <2>1, <2>2, <2>3, <2>4, <2>5 DEF Crash, TypeInv, TypeOK,
       disk, server, Die, SizeInv
<1>3. CASE LoadPending
  <2>1. obj' \in ObjType
    BY <1>0, <1>3, ConstTypes DEF LoadPending, TypeInv, TypeOK, ObjType,
         Absent, Valid, MaybeLength, Length, None, DocType
  <2>2. up' \in [Tasks -> TaskType]
    BY <1>0, <1>3, ConstTypes DEF LoadPending, TypeInv, TypeOK, TaskType,
         DocType, NoTask, Tasks
  <2>3. UrlInv'
    BY <1>0, <1>3, ConstTypes DEF LoadPending, TypeInv, TypeOK, UrlInv,
         TaskType, DocType, NoTask, Tasks
  <2> QED BY <1>3, <2>1, <2>2, <2>3 DEF LoadPending, TypeInv, TypeOK, disk,
       server, SizeInv
<1>4. CASE LoadInvalid
  <2>1. f' \in MaybeLength
    BY <1>0, <1>4, ConstTypes DEF LoadInvalid, TypeInv, TypeOK, MaybeLength,
         Length, None
  <2> QED BY <1>4, <2>1 DEF LoadInvalid, TypeInv, TypeOK, server, UrlInv,
       SizeInv
<1>5. CASE LoadUploaded
  <2>1. obj' \in ObjType
    BY <1>0, <1>5, ConstTypes DEF LoadUploaded, TypeInv, TypeOK, ObjType,
         Absent, Uploaded, SizeInv, DocType, MaybeLength, Length, None
  <2> QED BY <1>5, <2>1 DEF LoadUploaded, TypeInv, TypeOK, disk, server,
       UrlInv, SizeInv
<1>6. CASE LoadNothing
  BY <1>6 DEF LoadNothing, TypeInv, TypeOK, UrlInv, SizeInv, disk, server
<1>7. CASE Insert
  <2>1. obj' \in ObjType
    BY <1>0, <1>7, ConstTypes DEF Insert, TypeInv, TypeOK, ObjType
  <2> QED BY <1>7, <2>1 DEF Insert, TypeInv, TypeOK, disk, server, UrlInv,
       SizeInv
<1>8. CASE Link
  <2>1. obj' \in ObjType
    BY <1>0, <1>8, ConstTypes DEF Link, TypeInv, TypeOK, ObjType
  <2> QED BY <1>8, <2>1 DEF Link, TypeInv, TypeOK, disk, server, UrlInv,
       SizeInv
<1> QED BY <1>1, <1>2, <1>3, <1>4, <1>5, <1>6, <1>7, <1>8 DEF Load

LEMMA TypeStep ==
  ASSUME TypeInv, Next
  PROVE  TypeInv'
BY HandleStepType, HandleCallType, TaskStepType, UnlinkType, FeedType,
   ForgetType, StartType DEF Next, HandleCall

-----------------------------------------------------------------------------

(* Nothing but create makes a file, and nothing comes before it.           *)
LEMMA MadeStep ==
  ASSUME TypeInv, MadeInv,
         Next
  PROVE  MadeInv'
<1>1. ASSUME NEW h \in Handles, HandleStep(h)
     PROVE  MadeInv'
  BY <1>1 DEF HandleStep, Upsert, Check, Rename, RenameThrows, Queue, MadeInv,
       NoDoc, Absent, Closed, NoTask, Go, Live, Arrives, ObjType, TypeInv, TypeOK,
       disk, server, HistType
<1>2. ASSUME NEW h \in Handles, HandleCall(h)
     PROVE  MadeInv'
  BY <1>2 DEF HandleCall, Open, Write, WriteFails, ReadTruncates, Release,
       MadeInv, NoDoc, Absent, Closed, NoTask, Go, Live, Arrives, ObjType, TypeInv,
       TypeOK, disk, server, HistType
<1>3. ASSUME NEW t \in Tasks, TaskStep(t)
     PROVE  MadeInv'
  BY <1>3 DEF TaskStep, CheckFile, Spin, ReadParents, AskTrashed, Ask,
       AskAgain, SaveUrl, Put, SendOk, SendLost, SendCut, SendRefused, Sent,
       Finish, ResumeStart, ResumeFrom, ResumeNowhere, MadeInv, NoDoc, Absent,
       Closed, NoTask, Go, Live, Arrives, ObjType, TypeInv, TypeOK, disk, server,
       HistType
<1>4. CASE Unlink
  <2>1. CASE UnlinkStart
    BY <2>1 DEF UnlinkStart, MadeInv, NoDoc, Absent, Closed, NoTask, Un, disk,
         server, HistType, TypeInv, TypeOK
  <2>2. CASE UnlinkDelete
    BY <2>2 DEF UnlinkDelete, MadeInv, NoDoc, Absent, Closed, NoTask, Un,
         disk, ObjType, TypeInv, TypeOK
  <2>3. CASE UnlinkTrash
    BY <2>3 DEF UnlinkTrash, MadeInv, NoDoc, Absent, Closed, NoTask, Un, disk,
         server, ObjType, TypeInv, TypeOK
  <2>4. CASE UnlinkFile
    BY <2>4 DEF UnlinkFile, MadeInv, NoDoc, Absent, Closed, NoTask, Un, Move,
         server
  <2>5. CASE UnlinkReleased
    BY <2>5 DEF UnlinkReleased, MadeInv, NoDoc, Absent, Closed, NoTask, Un,
         RemoveReleased, Move, server
  <2>6. CASE UnlinkParent
    BY <2>6 DEF UnlinkParent, MadeInv, NoDoc, Absent, Closed, NoTask, Un,
         disk, server, ObjType, TypeInv, TypeOK
  <2>7. CASE UnlinkDoc
    BY <2>7 DEF UnlinkDoc, MadeInv, NoDoc, Absent, Closed, NoTask, Un, disk,
         server, DocType, MaybeLength, Length, None, TypeInv, TypeOK
  <2> QED BY <1>4, <2>1, <2>2, <2>3, <2>4, <2>5, <2>6, <2>7 DEF Unlink
<1>5. CASE Load
  BY <1>5 DEF Load, LoadPending, LoadInvalid, LoadUploaded, LoadNothing,
       Insert, Link, MadeInv, NoDoc, Absent, Closed, NoTask, Go, Live, Arrives,
       ObjType, TypeInv, TypeOK, disk, server
<1>6. CASE Create
  BY <1>6 DEF Create, MadeInv, NoDoc, Absent, Closed, NoTask, Handles, server,
       HistType, ObjType, TypeInv, TypeOK
<1>7. CASE FeedChange
  BY <1>7 DEF FeedChange, MadeInv, NoDoc, Absent, Closed, NoTask, disk,
       DocType, MaybeLength, Length, None, ObjType, TypeInv, TypeOK
<1>8. CASE FeedRemoved
  BY <1>8 DEF FeedRemoved, MadeInv, NoDoc, Absent, Closed, NoTask, disk,
       DocType, MaybeLength, Length, None, ObjType, TypeInv, TypeOK
<1>9. CASE Crash
  BY <1>9 DEF Crash, MadeInv, NoDoc, Absent, Closed, NoTask, Die, disk,
       server, HistType, ObjType, TypeInv, TypeOK
<1>10. ASSUME NEW k \in Url, Forget(k)
     PROVE  MadeInv'
  BY <1>10 DEF Forget, MadeInv, NoDoc, Absent, Closed, NoTask, disk
<1> QED BY <1>1, <1>2, <1>3, <1>4, <1>5, <1>6, <1>7, <1>8, <1>9, <1>10 DEF
     Next, HandleCall

(* What a start does, and that nobody else does anything meanwhile.        *)
LEMMA BootStep ==
  ASSUME TypeInv, BootInv,
         Next
  PROVE  BootInv'
<1>1. ASSUME NEW h \in Handles, HandleStep(h)
     PROVE  BootInv'
  <2>1. CASE Upsert(h)
    BY <2>1 DEF Upsert, BootInv, Early, Closed, NoTask, Absent, disk, server,
         HandleType, TypeInv, TypeOK
  <2>2. CASE Check(h)
    BY <2>2 DEF Check, BootInv, Early, Closed, NoTask, Absent, disk, server,
         HandleType, TypeInv, TypeOK
  <2>3. CASE Rename(h)
    BY <2>3 DEF Rename, BootInv, Early, Closed, NoTask, Absent, server,
         HandleType, TypeInv, TypeOK
  <2>4. CASE RenameThrows(h)
    BY <2>4 DEF RenameThrows, BootInv, Early, Closed, NoTask, Absent, Die,
         disk, server, ObjType, HandleType, TaskType, TypeInv, TypeOK
  <2>5. CASE Queue(h)
    BY <2>5 DEF Queue, BootInv, Early, Closed, NoTask, Absent, disk, server,
         HandleType, TaskType, TypeInv, TypeOK
  <2> QED BY <1>1, <2>1, <2>2, <2>3, <2>4, <2>5 DEF HandleStep
<1>2. ASSUME NEW h \in Handles, HandleCall(h)
     PROVE  BootInv'
  <2>1. CASE Open(h)
    BY <2>1 DEF Open, BootInv, Early, Closed, NoTask, Absent, disk, server,
         HandleType, TypeInv, TypeOK
  <2>2. CASE Write(h)
    BY <2>2 DEF Write, BootInv, Early, Closed, NoTask, Absent, Max2, server,
         HandleType, ObjType, TypeInv, TypeOK
  <2>3. CASE WriteFails(h)
    BY <2>3 DEF WriteFails, BootInv, Early, Closed, NoTask, Absent, disk,
         server, HandleType, TypeInv, TypeOK
  <2>4. CASE ReadTruncates(h)
    BY <2>4 DEF ReadTruncates, BootInv, Early, Closed, NoTask, Absent, server,
         ObjType, HandleType, TypeInv, TypeOK
  <2>5. CASE Release(h)
    BY <2>5 DEF Release, BootInv, Early, Closed, NoTask, Absent, disk, server,
         HandleType, TypeInv, TypeOK
  <2> QED BY <1>2, <2>1, <2>2, <2>3, <2>4, <2>5 DEF HandleCall
<1>3. ASSUME NEW t \in Tasks, TaskStep(t)
     PROVE  BootInv'
  <2>1. CASE CheckFile(t)
    BY <2>1 DEF CheckFile, BootInv, Early, Closed, NoTask, Absent, Go, disk,
         server, TaskType, TypeInv, TypeOK
  <2>2. CASE Spin(t)
    BY <2>2 DEF Spin, BootInv, Early, Closed, NoTask, Absent, Go, disk,
         server, TaskType, TypeInv, TypeOK
  <2>3. CASE ReadParents(t)
    BY <2>3 DEF ReadParents, BootInv, Early, Closed, NoTask, Absent, disk,
         server, TaskType, TypeInv, TypeOK
  <2>4. CASE AskTrashed(t)
    BY <2>4 DEF AskTrashed, BootInv, Early, Closed, NoTask, Absent,
         RemoveReleased, Move, Go, server, TaskType, HandleType, TypeInv, TypeOK
  <2>5. CASE Ask(t)
    BY <2>5 DEF Ask, BootInv, Early, Closed, NoTask, Absent, disk, TaskType,
         TypeInv, TypeOK
  <2>6. CASE AskAgain(t)
    BY <2>6 DEF AskAgain, BootInv, Early, Closed, NoTask, Absent, Go, disk,
         TaskType, TypeInv, TypeOK
  <2>7. CASE SaveUrl(t)
    BY <2>7 DEF SaveUrl, BootInv, Early, Closed, NoTask, Absent, disk, server,
         TaskType, TypeInv, TypeOK
  <2>8. CASE Put(t)
    BY <2>8 DEF Put, BootInv, Early, Closed, NoTask, Absent, Go, disk, server,
         TaskType, TypeInv, TypeOK
  <2>9. CASE SendOk(t)
    BY <2>9 DEF SendOk, BootInv, Early, Closed, NoTask, Absent, Go, Arrives,
         Live, disk, TaskType, TypeInv, TypeOK
  <2>10. CASE SendLost(t)
    BY <2>10 DEF SendLost, BootInv, Early, Closed, NoTask, Absent, Go,
         Arrives, Live, disk, TaskType, TypeInv, TypeOK
  <2>11. CASE SendCut(t)
    BY <2>11 DEF SendCut, BootInv, Early, Closed, NoTask, Absent, Go, Live,
         disk, TaskType, TypeInv, TypeOK
  <2>12. CASE SendRefused(t)
    BY <2>12 DEF SendRefused, BootInv, Early, Closed, NoTask, Absent, Go,
         disk, server, TaskType, TypeInv, TypeOK
  <2>13. CASE Sent(t)
    BY <2>13 DEF Sent, BootInv, Early, Closed, NoTask, Absent, Go, disk,
         server, TaskType, ObjType, TypeInv, TypeOK
  <2>14. CASE Finish(t)
    BY <2>14 DEF Finish, BootInv, Early, Closed, NoTask, Absent,
         RemoveReleased, Move, Go, server, TaskType, HandleType, TypeInv, TypeOK
  <2>15. CASE ResumeStart(t)
    BY <2>15 DEF ResumeStart, BootInv, Early, Closed, NoTask, Absent, Go,
         disk, server, TaskType, TypeInv, TypeOK
  <2>16. CASE ResumeFrom(t)
    BY <2>16 DEF ResumeFrom, BootInv, Early, Closed, NoTask, Absent, disk,
         server, TaskType, TypeInv, TypeOK
  <2>17. CASE ResumeNowhere(t)
    BY <2>17 DEF ResumeNowhere, BootInv, Early, Closed, NoTask, Absent,
         RemoveReleased, Move, Go, server, TaskType, HandleType, TypeInv, TypeOK
  <2> QED BY <1>3, <2>1, <2>2, <2>3, <2>4, <2>5, <2>6, <2>7, <2>8, <2>9,
         <2>10, <2>11, <2>12, <2>13, <2>14, <2>15, <2>16, <2>17 DEF TaskStep
<1>4. CASE Unlink
  <2>1. CASE UnlinkStart
    BY <2>1 DEF UnlinkStart, BootInv, Early, Closed, NoTask, Absent, Un, disk,
         server
  <2>2. CASE UnlinkDelete
    BY <2>2 DEF UnlinkDelete, BootInv, Early, Closed, NoTask, Absent, Un,
         disk, ObjType, TypeInv, TypeOK
  <2>3. CASE UnlinkTrash
    BY <2>3 DEF UnlinkTrash, BootInv, Early, Closed, NoTask, Absent, Un, disk,
         server, ObjType, TypeInv, TypeOK
  <2>4. CASE UnlinkFile
    BY <2>4 DEF UnlinkFile, BootInv, Early, Closed, NoTask, Absent, Un, Move,
         server, HandleType, TypeInv, TypeOK
  <2>5. CASE UnlinkReleased
    BY <2>5 DEF UnlinkReleased, BootInv, Early, Closed, NoTask, Absent, Un,
         RemoveReleased, Move, server, HandleType, TypeInv, TypeOK
  <2>6. CASE UnlinkParent
    BY <2>6 DEF UnlinkParent, BootInv, Early, Closed, NoTask, Absent, Un,
         disk, server, ObjType, TypeInv, TypeOK
  <2>7. CASE UnlinkDoc
    BY <2>7 DEF UnlinkDoc, BootInv, Early, Closed, NoTask, Absent, Un, NoDoc,
         disk, server
  <2> QED BY <1>4, <2>1, <2>2, <2>3, <2>4, <2>5, <2>6, <2>7 DEF Unlink
<1>5. CASE Load
  <2>1. CASE LoadPending
    BY <2>1 DEF LoadPending, BootInv, Early, Closed, NoTask, Absent, Valid,
         disk, server, ObjType, TaskType, TypeInv, TypeOK
  <2>2. CASE LoadInvalid
    BY <2>2 DEF LoadInvalid, BootInv, Early, Closed, NoTask, Absent, server
  <2>3. CASE LoadUploaded
    BY <2>3 DEF LoadUploaded, BootInv, Early, Closed, NoTask, Absent,
         Uploaded, disk, server, ObjType, TypeInv, TypeOK
  <2>4. CASE LoadNothing
    BY <2>4 DEF LoadNothing, BootInv, Early, Closed, NoTask, Absent, disk,
         server
  <2>5. CASE Insert
    BY <2>5 DEF Insert, BootInv, Early, Closed, NoTask, Absent, disk, server,
         ObjType, TypeInv, TypeOK
  <2>6. CASE Link
    BY <2>6 DEF Link, BootInv, Early, Closed, NoTask, Absent, disk, server,
         ObjType, TypeInv, TypeOK
  <2> QED BY <1>5, <2>1, <2>2, <2>3, <2>4, <2>5, <2>6 DEF Load
<1>6. CASE Create
  BY <1>6 DEF Create, BootInv, Early, Closed, NoTask, Absent, Handles, server,
       ObjType, HandleType, TypeInv, TypeOK
<1>7. CASE FeedChange
  BY <1>7 DEF FeedChange, BootInv, Early, Closed, NoTask, Absent, disk,
       ObjType, TypeInv, TypeOK
<1>8. CASE FeedRemoved
  BY <1>8 DEF FeedRemoved, BootInv, Early, Closed, NoTask, Absent, NoDoc,
       disk, ObjType, TypeInv, TypeOK
<1>9. CASE Crash
  BY <1>9 DEF Crash, BootInv, Early, Closed, NoTask, Absent, Die, disk,
       server, ObjType, HandleType, TaskType, TypeInv, TypeOK
<1>10. ASSUME NEW k \in Url, Forget(k)
     PROVE  BootInv'
  BY <1>10 DEF Forget, BootInv, Early, Closed, NoTask, Absent, disk
<1> QED BY <1>1, <1>2, <1>3, <1>4, <1>5, <1>6, <1>7, <1>8, <1>9, <1>10 DEF
     Next, HandleCall

(* Every removal and rename takes the descriptors along.                   *)
LEMMA NamesStep ==
  ASSUME TypeInv, BootInv, HandleInv,
         Next
  PROVE  HandleInv'
<1>1. ASSUME NEW h \in Handles, HandleStep(h)
     PROVE  HandleInv'
  <2>1. CASE Upsert(h)
    BY <2>1 DEF Upsert, HandleInv, Handles, disk, server, HandleType, TypeInv,
         TypeOK
  <2>2. CASE Check(h)
    BY <2>2 DEF Check, HandleInv, Handles, disk, server, HandleType, TypeInv,
         TypeOK
  <2>3. CASE Rename(h)
    BY <2>3 DEF Rename, HandleInv, Handles, server, MaybeLength, Length, None,
         HandleType, TypeInv, TypeOK
  <2>4. CASE RenameThrows(h)
    BY <2>4 DEF RenameThrows, HandleInv, Handles, Die, Absent, Closed, NoTask,
         disk, server, HandleType, TypeInv, TypeOK
  <2>5. CASE Queue(h)
    BY <2>5 DEF Queue, HandleInv, Handles, disk, server, HandleType, TypeInv,
         TypeOK
  <2> QED BY <1>1, <2>1, <2>2, <2>3, <2>4, <2>5 DEF HandleStep
<1>2. ASSUME NEW h \in Handles, HandleCall(h)
     PROVE  HandleInv'
  <2>1. CASE Open(h)
    BY <2>1 DEF Open, HandleInv, Handles, disk, server, HandleType, TypeInv,
         TypeOK
  <2>2. CASE Write(h)
    BY <2>2 DEF Write, HandleInv, Handles, Max2, server, HandleType,
         MaybeLength, Length, None, TypeInv, TypeOK
  <2>3. CASE WriteFails(h)
    BY <2>3 DEF WriteFails, HandleInv, Handles, disk, server, HandleType,
         TypeInv, TypeOK
  <2>4. CASE ReadTruncates(h)
    BY <2>4 DEF ReadTruncates, HandleInv, Handles, server, MaybeLength,
         Length, None, HandleType, TypeInv, TypeOK
  <2>5. CASE Release(h)
    BY <2>5 DEF Release, HandleInv, Handles, disk, server, HandleType,
         TypeInv, TypeOK
  <2> QED BY <1>2, <2>1, <2>2, <2>3, <2>4, <2>5 DEF HandleCall
<1>3. ASSUME NEW t \in Tasks, TaskStep(t)
     PROVE  HandleInv'
  <2>1. CASE CheckFile(t) \/ Spin(t) \/ ReadParents(t) \/ Ask(t) \/
            AskAgain(t) \/ SaveUrl(t) \/ Put(t) \/ SendOk(t) \/ SendLost(t)
            \/ SendCut(t) \/ SendRefused(t) \/ Sent(t) \/ ResumeStart(t) \/
            ResumeFrom(t)
    BY <2>1 DEF CheckFile, Spin, ReadParents, Ask, AskAgain, SaveUrl, Put,
         SendOk, SendLost, SendCut, SendRefused, Sent, ResumeStart, ResumeFrom,
         HandleInv, disk, server
  <2>2. CASE AskTrashed(t)
    BY <2>2 DEF AskTrashed, HandleInv, Handles, RemoveReleased, Move, Go,
         server, MaybeLength, Length, None, HandleType, TypeInv, TypeOK
  <2>3. CASE Finish(t)
    BY <2>3 DEF Finish, HandleInv, Handles, RemoveReleased, Move, Go, server,
         MaybeLength, Length, None, HandleType, TypeInv, TypeOK
  <2>4. CASE ResumeNowhere(t)
    BY <2>4 DEF ResumeNowhere, HandleInv, Handles, RemoveReleased, Move, Go,
         server, MaybeLength, Length, None, HandleType, TypeInv, TypeOK
  <2> QED BY <1>3, <2>1, <2>2, <2>3, <2>4 DEF TaskStep
<1>4. CASE Unlink
  <2>1. CASE UnlinkStart \/ UnlinkDelete \/ UnlinkTrash \/ UnlinkParent \/
            UnlinkDoc
    BY <2>1 DEF UnlinkStart, UnlinkDelete, UnlinkTrash, UnlinkParent,
         UnlinkDoc, HandleInv, disk, server
  <2>2. CASE UnlinkFile
    BY <2>2 DEF UnlinkFile, HandleInv, Handles, Un, Move, server, MaybeLength,
         Length, None, HandleType, TypeInv, TypeOK
  <2>3. CASE UnlinkReleased
    BY <2>3 DEF UnlinkReleased, HandleInv, Handles, Un, RemoveReleased, Move,
         server, MaybeLength, Length, None, HandleType, TypeInv, TypeOK
  <2> QED BY <1>4, <2>1, <2>2, <2>3 DEF Unlink
<1>5. CASE Load
  <2>1. CASE LoadPending \/ LoadUploaded \/ LoadNothing \/ Insert \/ Link
    BY <2>1 DEF LoadPending, LoadUploaded, LoadNothing, Insert, Link,
         HandleInv, disk, server
  <2>2. CASE LoadInvalid
    BY <2>2 DEF LoadInvalid, HandleInv, Handles, server, MaybeLength, Length,
         None, BootInv, Closed, TypeInv, TypeOK
  <2> QED BY <1>5, <2>1, <2>2 DEF Load
<1>6. CASE Create
  BY <1>6 DEF Create, HandleInv, Handles, Absent, server, MaybeLength, Length,
       None, HandleType, TypeInv, TypeOK
<1>7. CASE FeedChange
  BY <1>7 DEF FeedChange, HandleInv, Handles, disk
<1>8. CASE FeedRemoved
  BY <1>8 DEF FeedRemoved, HandleInv, Handles, NoDoc, disk
<1>9. CASE Crash
  BY <1>9 DEF Crash, HandleInv, Handles, Die, Absent, Closed, NoTask, disk,
       server, HandleType, TypeInv, TypeOK
<1>10. ASSUME NEW k \in Url, Forget(k)
     PROVE  HandleInv'
  BY <1>10 DEF Forget, HandleInv, Handles, disk
<1> QED BY <1>1, <1>2, <1>3, <1>4, <1>5, <1>6, <1>7, <1>8, <1>9, <1>10 DEF
     Next, HandleCall

(* .released comes from a rename only, and a task from what was renamed.   *)
LEMMA SavedStep ==
  ASSUME TypeInv, BootInv, HandleInv, SavedInv,
         Next
  PROVE  SavedInv'
<1>1. ASSUME NEW h \in Handles, HandleStep(h)
     PROVE  SavedInv'
  <2>1. CASE Upsert(h)
    BY <2>1 DEF Upsert, SavedInv, disk, server, HandleType, TypeInv, TypeOK
  <2>2. CASE Check(h)
    BY <2>2 DEF Check, SavedInv, disk, server, HandleType, TypeInv, TypeOK
  <2>3. CASE Rename(h)
    BY <2>3 DEF Rename, SavedInv, server, MaybeLength, Length, None, HistType,
         HandleType, TypeInv, TypeOK
  <2>4. CASE RenameThrows(h)
    BY <2>4 DEF RenameThrows, SavedInv, Die, Absent, Closed, NoTask, disk,
         server, HandleType, TaskType, TypeInv, TypeOK
  <2>5. CASE Queue(h)
    BY <2>5 DEF Queue, SavedInv, disk, server, HandleType, TaskType, TypeInv,
         TypeOK
  <2> QED BY <1>1, <2>1, <2>2, <2>3, <2>4, <2>5 DEF HandleStep
<1>2. ASSUME NEW h \in Handles, HandleCall(h)
     PROVE  SavedInv'
  <2>1. CASE Open(h)
    BY <2>1 DEF Open, SavedInv, disk, server, HandleType, HistType, TypeInv,
         TypeOK
  <2>2. CASE Write(h)
    BY <2>2 DEF Write, SavedInv, Max2, server, HandleType, MaybeLength,
         Length, None, HandleInv, TypeInv, TypeOK
  <2>3. CASE WriteFails(h)
    BY <2>3 DEF WriteFails, SavedInv, disk, server, HandleType, TypeInv,
         TypeOK
  <2>4. CASE ReadTruncates(h)
    BY <2>4 DEF ReadTruncates, SavedInv, server, MaybeLength, Length, None,
         HandleType, TypeInv, TypeOK
  <2>5. CASE Release(h)
    BY <2>5 DEF Release, SavedInv, disk, server, HandleType, TypeInv, TypeOK
  <2> QED BY <1>2, <2>1, <2>2, <2>3, <2>4, <2>5 DEF HandleCall
<1>3. ASSUME NEW t \in Tasks, TaskStep(t)
     PROVE  SavedInv'
  <2>1. CASE CheckFile(t)
    BY <2>1 DEF CheckFile, SavedInv, Go, disk, server, TaskType, HistType,
         TypeInv, TypeOK
  <2>2. CASE Spin(t)
    BY <2>2 DEF Spin, SavedInv, Go, disk, server, TaskType, TypeInv, TypeOK
  <2>3. CASE ReadParents(t)
    BY <2>3 DEF ReadParents, SavedInv, disk, server, TaskType, TypeInv, TypeOK
  <2>4. CASE AskTrashed(t)
    BY <2>4 DEF AskTrashed, SavedInv, RemoveReleased, Move, Go, server,
         TaskType, MaybeLength, Length, None, HandleType, TypeInv, TypeOK
  <2>5. CASE Ask(t)
    BY <2>5 DEF Ask, SavedInv, disk, TaskType, TypeInv, TypeOK
  <2>6. CASE AskAgain(t)
    BY <2>6 DEF AskAgain, SavedInv, Go, disk, TaskType, TypeInv, TypeOK
  <2>7. CASE SaveUrl(t)
    BY <2>7 DEF SaveUrl, SavedInv, disk, server, TaskType, TypeInv, TypeOK
  <2>8. CASE Put(t)
    BY <2>8 DEF Put, SavedInv, Go, disk, server, TaskType, TypeInv, TypeOK
  <2>9. CASE SendOk(t)
    BY <2>9 DEF SendOk, SavedInv, Go, Arrives, Live, disk, TaskType,
         StoredType, MaybeLength, Length, None, TypeInv, TypeOK
  <2>10. CASE SendLost(t)
    BY <2>10 DEF SendLost, SavedInv, Go, Arrives, Live, disk, TaskType,
         StoredType, MaybeLength, Length, None, TypeInv, TypeOK
  <2>11. CASE SendCut(t)
    BY <2>11 DEF SendCut, SavedInv, Go, Live, disk, TaskType, TypeInv, TypeOK
  <2>12. CASE SendRefused(t)
    BY <2>12 DEF SendRefused, SavedInv, Go, disk, server, TaskType, TypeInv,
         TypeOK
  <2>13. CASE Sent(t)
    BY <2>13 DEF Sent, SavedInv, Go, disk, server, TaskType, TypeInv, TypeOK
  <2>14. CASE Finish(t)
    BY <2>14 DEF Finish, SavedInv, RemoveReleased, Move, Go, server, TaskType,
         MaybeLength, Length, None, HandleType, TypeInv, TypeOK
  <2>15. CASE ResumeStart(t)
    BY <2>15 DEF ResumeStart, SavedInv, Go, disk, server, TaskType, TypeInv,
         TypeOK
  <2>16. CASE ResumeFrom(t)
    BY <2>16 DEF ResumeFrom, SavedInv, disk, server, TaskType, TypeInv, TypeOK
  <2>17. CASE ResumeNowhere(t)
    BY <2>17 DEF ResumeNowhere, SavedInv, RemoveReleased, Move, Go, server,
         TaskType, MaybeLength, Length, None, HandleType, TypeInv, TypeOK
  <2> QED BY <1>3, <2>1, <2>2, <2>3, <2>4, <2>5, <2>6, <2>7, <2>8, <2>9,
         <2>10, <2>11, <2>12, <2>13, <2>14, <2>15, <2>16, <2>17 DEF TaskStep
<1>4. CASE Unlink
  <2>1. CASE UnlinkTrash \/ UnlinkParent \/ UnlinkDoc
    BY <2>1 DEF UnlinkTrash, UnlinkParent, UnlinkDoc, SavedInv, disk, server
  <2>2. CASE UnlinkStart
    BY <2>2 DEF UnlinkStart, SavedInv, Un, disk, server, HistType, TypeInv,
         TypeOK
  <2>3. CASE UnlinkDelete
    BY <2>3 DEF UnlinkDelete, SavedInv, Un, disk, StoredType, MaybeLength,
         Length, None, TypeInv, TypeOK
  <2>4. CASE UnlinkFile
    BY <2>4 DEF UnlinkFile, SavedInv, Un, Move, server, MaybeLength, Length,
         None, HandleType, TypeInv, TypeOK
  <2>5. CASE UnlinkReleased
    BY <2>5 DEF UnlinkReleased, SavedInv, Un, RemoveReleased, Move, server,
         MaybeLength, Length, None, HandleType, TypeInv, TypeOK
  <2> QED BY <1>4, <2>1, <2>2, <2>3, <2>4, <2>5 DEF Unlink
<1>5. CASE Load
  <2>1. CASE LoadInvalid \/ LoadUploaded \/ LoadNothing \/ Insert \/ Link
    BY <2>1 DEF LoadInvalid, LoadUploaded, LoadNothing, Insert, Link,
         SavedInv, server, disk
  <2>2. CASE LoadPending
    BY <2>2 DEF LoadPending, SavedInv, Absent, NoTask, Valid, disk, server,
         TaskType, TypeInv, TypeOK
  <2> QED BY <1>5, <2>1, <2>2 DEF Load
<1>6. CASE Create
  BY <1>6 DEF Create, SavedInv, Absent, Handles, server, HistType,
       MaybeLength, Length, None, HandleType, TypeInv, TypeOK
<1>7. CASE FeedChange
  BY <1>7 DEF FeedChange, SavedInv, disk, StoredType, MaybeLength, Length,
       None, TypeInv, TypeOK
<1>8. CASE FeedRemoved
  BY <1>8 DEF FeedRemoved, SavedInv, NoDoc, disk, StoredType, MaybeLength,
       Length, None, TypeInv, TypeOK
<1>9. CASE Crash
  BY <1>9 DEF Crash, SavedInv, Die, Absent, Closed, NoTask, disk, server,
       HistType, HandleType, TaskType, TypeInv, TypeOK
<1>10. ASSUME NEW k \in Url, Forget(k)
     PROVE  SavedInv'
  BY <1>10 DEF Forget, SavedInv, disk
<1> QED BY <1>1, <1>2, <1>3, <1>4, <1>5, <1>6, <1>7, <1>8, <1>9, <1>10 DEF
     Next, HandleCall

(* Only unlink, or what it did on the server, marks the object trashed.    *)
LEMMA UnlinkedStep ==
  ASSUME TypeInv, UnlinkedInv,
         Next
  PROVE  UnlinkedInv'
<1>1. ASSUME NEW h \in Handles, HandleStep(h)
     PROVE  UnlinkedInv'
  <2>1. CASE Upsert(h) \/ Check(h) \/ Queue(h)
    BY <2>1 DEF Upsert, Check, Queue, UnlinkedInv, disk, server
  <2>2. CASE Rename(h)
    BY <2>2 DEF Rename, UnlinkedInv, server, HistType, TypeInv, TypeOK
  <2>3. CASE RenameThrows(h)
    BY <2>3 DEF RenameThrows, UnlinkedInv, Die, Absent, Closed, NoTask, disk,
         server, ObjType, TypeInv, TypeOK
  <2> QED BY <1>1, <2>1, <2>2, <2>3 DEF HandleStep
<1>2. ASSUME NEW h \in Handles, HandleCall(h)
     PROVE  UnlinkedInv'
  <2>1. CASE WriteFails(h) \/ Release(h)
    BY <2>1 DEF WriteFails, Release, UnlinkedInv, disk, server
  <2>2. CASE Open(h)
    BY <2>2 DEF Open, UnlinkedInv, disk, server, HistType, TypeInv, TypeOK
  <2>3. CASE Write(h)
    BY <2>3 DEF Write, UnlinkedInv, Max2, server, ObjType, TypeInv, TypeOK
  <2>4. CASE ReadTruncates(h)
    BY <2>4 DEF ReadTruncates, UnlinkedInv, server, ObjType, TypeInv, TypeOK
  <2> QED BY <1>2, <2>1, <2>2, <2>3, <2>4 DEF HandleCall
<1>3. ASSUME NEW t \in Tasks, TaskStep(t)
     PROVE  UnlinkedInv'
  <2>1. CASE Spin(t) \/ ReadParents(t) \/ AskTrashed(t) \/ Ask(t) \/
            AskAgain(t) \/ SaveUrl(t) \/ Put(t) \/ SendCut(t) \/
            SendRefused(t) \/ Finish(t) \/ ResumeStart(t) \/ ResumeFrom(t)
            \/ ResumeNowhere(t)
    BY <2>1 DEF Spin, ReadParents, AskTrashed, Ask, AskAgain, SaveUrl, Put,
         SendCut, SendRefused, Finish, ResumeStart, ResumeFrom, ResumeNowhere,
         UnlinkedInv, disk, server
  <2>2. CASE CheckFile(t)
    BY <2>2 DEF CheckFile, UnlinkedInv, Go, disk, server, HistType, TypeInv,
         TypeOK
  <2>3. CASE SendOk(t)
    BY <2>3 DEF SendOk, UnlinkedInv, Go, Arrives, Live, disk, StoredType,
         MaybeLength, Length, None, TypeInv, TypeOK
  <2>4. CASE SendLost(t)
    BY <2>4 DEF SendLost, UnlinkedInv, Go, Arrives, Live, disk, StoredType,
         MaybeLength, Length, None, TypeInv, TypeOK
  <2>5. CASE Sent(t)
    BY <2>5 DEF Sent, UnlinkedInv, Go, disk, server, ObjType, TypeInv, TypeOK
  <2> QED BY <1>3, <2>1, <2>2, <2>3, <2>4, <2>5 DEF TaskStep
<1>4. CASE Unlink
  <2>1. CASE UnlinkStart
    BY <2>1 DEF UnlinkStart, UnlinkedInv, Un, disk, server, HistType, TypeInv,
         TypeOK
  <2>2. CASE UnlinkDelete
    BY <2>2 DEF UnlinkDelete, UnlinkedInv, Un, disk, StoredType, MaybeLength,
         Length, None, ObjType, TypeInv, TypeOK
  <2>3. CASE UnlinkTrash
    BY <2>3 DEF UnlinkTrash, UnlinkedInv, Un, disk, server, ObjType, TypeInv,
         TypeOK
  <2>4. CASE UnlinkFile
    BY <2>4 DEF UnlinkFile, UnlinkedInv, Un, Move, server
  <2>5. CASE UnlinkReleased
    BY <2>5 DEF UnlinkReleased, UnlinkedInv, Un, RemoveReleased, Move, server
  <2>6. CASE UnlinkParent
    BY <2>6 DEF UnlinkParent, UnlinkedInv, Un, disk, server, ObjType, TypeInv,
         TypeOK
  <2>7. CASE UnlinkDoc
    BY <2>7 DEF UnlinkDoc, UnlinkedInv, Un, NoDoc, disk, server
  <2> QED BY <1>4, <2>1, <2>2, <2>3, <2>4, <2>5, <2>6, <2>7 DEF Unlink
<1>5. CASE Load
  <2>1. CASE LoadInvalid \/ LoadNothing
    BY <2>1 DEF LoadInvalid, LoadNothing, UnlinkedInv, server, disk
  <2>2. CASE LoadPending
    BY <2>2 DEF LoadPending, UnlinkedInv, Absent, NoTask, Valid, disk, server,
         ObjType, TypeInv, TypeOK
  <2>3. CASE LoadUploaded
    BY <2>3 DEF LoadUploaded, UnlinkedInv, Absent, Uploaded, disk, server,
         ObjType, TypeInv, TypeOK
  <2>4. CASE Insert
    BY <2>4 DEF Insert, UnlinkedInv, disk, server, ObjType, TypeInv, TypeOK
  <2>5. CASE Link
    BY <2>5 DEF Link, UnlinkedInv, disk, server, ObjType, TypeInv, TypeOK
  <2> QED BY <1>5, <2>1, <2>2, <2>3, <2>4, <2>5 DEF Load
<1>6. CASE Create
  BY <1>6 DEF Create, UnlinkedInv, Absent, Handles, server, HistType, ObjType,
       TypeInv, TypeOK
<1>7. CASE FeedChange
  BY <1>7 DEF FeedChange, UnlinkedInv, disk, StoredType, MaybeLength, Length,
       None, ObjType, TypeInv, TypeOK
<1>8. CASE FeedRemoved
  BY <1>8 DEF FeedRemoved, UnlinkedInv, NoDoc, disk, StoredType, MaybeLength,
       Length, None, ObjType, TypeInv, TypeOK
<1>9. CASE Crash
  BY <1>9 DEF Crash, UnlinkedInv, Die, Absent, Closed, NoTask, disk, server,
       HistType, ObjType, TypeInv, TypeOK
<1>10. ASSUME NEW k \in Url, Forget(k)
     PROVE  UnlinkedInv'
  BY <1>10 DEF Forget, UnlinkedInv, disk
<1> QED BY <1>1, <1>2, <1>3, <1>4, <1>5, <1>6, <1>7, <1>8, <1>9, <1>10 DEF
     Next, HandleCall

(* The feed tells what the server had; a task is answered when it has it.  *)
LEMMA ServerStep ==
  ASSUME TypeInv, ServerInv,
         Next
  PROVE  ServerInv'
<1>1. ASSUME NEW h \in Handles, HandleStep(h)
     PROVE  ServerInv'
  <2>1. CASE Check(h) \/ Rename(h)
    BY <2>1 DEF Check, Rename, ServerInv, disk, server
  <2>2. CASE Upsert(h)
    BY <2>2 DEF Upsert, ServerInv, disk, server, DocType, MaybeLength, Length,
         None, TypeInv, TypeOK
  <2>3. CASE RenameThrows(h)
    BY <2>3 DEF RenameThrows, ServerInv, Die, Absent, Closed, NoTask, disk,
         server, TaskType, TypeInv, TypeOK
  <2>4. CASE Queue(h)
    BY <2>4 DEF Queue, ServerInv, disk, server, TaskType, TypeInv, TypeOK
  <2> QED BY <1>1, <2>1, <2>2, <2>3, <2>4 DEF HandleStep
<1>2. ASSUME NEW h \in Handles, HandleCall(h)
     PROVE  ServerInv'
  BY <1>2 DEF HandleCall, Open, Write, WriteFails, ReadTruncates, Release,
       ServerInv, disk, server
<1>3. ASSUME NEW t \in Tasks, TaskStep(t)
     PROVE  ServerInv'
  <2>1. CASE CheckFile(t)
    BY <2>1 DEF CheckFile, ServerInv, Go, disk, server, TaskType, TypeInv,
         TypeOK
  <2>2. CASE Spin(t)
    BY <2>2 DEF Spin, ServerInv, Go, disk, server, TaskType, TypeInv, TypeOK
  <2>3. CASE ReadParents(t)
    BY <2>3 DEF ReadParents, ServerInv, disk, server, TaskType, TypeInv,
         TypeOK
  <2>4. CASE AskTrashed(t)
    BY <2>4 DEF AskTrashed, ServerInv, RemoveReleased, Move, Go, server,
         TaskType, TypeInv, TypeOK
  <2>5. CASE Ask(t)
    BY <2>5 DEF Ask, ServerInv, disk, TaskType, TypeInv, TypeOK
  <2>6. CASE AskAgain(t)
    BY <2>6 DEF AskAgain, ServerInv, Go, disk, TaskType, TypeInv, TypeOK
  <2>7. CASE SaveUrl(t)
    BY <2>7 DEF SaveUrl, ServerInv, disk, server, DocType, MaybeLength,
         Length, None, TaskType, TypeInv, TypeOK
  <2>8. CASE Put(t)
    BY <2>8 DEF Put, ServerInv, Go, disk, server, TaskType, TypeInv, TypeOK
  <2>9. CASE SendOk(t)
    BY <2>9 DEF SendOk, ServerInv, Go, Arrives, Live, disk, TaskType,
         StoredType, MaybeLength, Length, None, TypeInv, TypeOK
  <2>10. CASE SendLost(t)
    BY <2>10 DEF SendLost, ServerInv, Go, Arrives, Live, disk, TaskType,
         StoredType, MaybeLength, Length, None, TypeInv, TypeOK
  <2>11. CASE SendCut(t)
    BY <2>11 DEF SendCut, ServerInv, Go, Live, disk, TaskType, TypeInv, TypeOK
  <2>12. CASE SendRefused(t)
    BY <2>12 DEF SendRefused, ServerInv, Go, disk, server, TaskType, TypeInv,
         TypeOK
  <2>13. CASE Sent(t)
    BY <2>13 DEF Sent, ServerInv, Go, disk, server, TaskType, TypeInv, TypeOK
  <2>14. CASE Finish(t)
    BY <2>14 DEF Finish, ServerInv, RemoveReleased, Move, Go, server,
         TaskType, TypeInv, TypeOK
  <2>15. CASE ResumeStart(t)
    BY <2>15 DEF ResumeStart, ServerInv, Go, disk, server, TaskType, TypeInv,
         TypeOK
  <2>16. CASE ResumeFrom(t)
    BY <2>16 DEF ResumeFrom, ServerInv, disk, server, TaskType, TypeInv,
         TypeOK
  <2>17. CASE ResumeNowhere(t)
    BY <2>17 DEF ResumeNowhere, ServerInv, RemoveReleased, Move, Go, server,
         TaskType, TypeInv, TypeOK
  <2> QED BY <1>3, <2>1, <2>2, <2>3, <2>4, <2>5, <2>6, <2>7, <2>8, <2>9,
         <2>10, <2>11, <2>12, <2>13, <2>14, <2>15, <2>16, <2>17 DEF TaskStep
<1>4. CASE Unlink
  <2>1. CASE UnlinkStart \/ UnlinkTrash \/ UnlinkFile \/ UnlinkReleased \/
            UnlinkParent
    BY <2>1 DEF UnlinkStart, UnlinkTrash, UnlinkFile, UnlinkReleased,
         UnlinkParent, ServerInv, disk, server
  <2>2. CASE UnlinkDelete
    BY <2>2 DEF UnlinkDelete, ServerInv, Un, disk, StoredType, MaybeLength,
         Length, None, TypeInv, TypeOK
  <2>3. CASE UnlinkDoc
    BY <2>3 DEF UnlinkDoc, ServerInv, Un, NoDoc, disk, server, DocType,
         MaybeLength, Length, None, TypeInv, TypeOK
  <2> QED BY <1>4, <2>1, <2>2, <2>3 DEF Unlink
<1>5. CASE Load
  <2>1. CASE LoadInvalid \/ LoadUploaded \/ LoadNothing \/ Insert \/ Link
    BY <2>1 DEF LoadInvalid, LoadUploaded, LoadNothing, Insert, Link,
         ServerInv, server, disk
  <2>2. CASE LoadPending
    BY <2>2 DEF LoadPending, ServerInv, Absent, NoTask, Valid, disk, server,
         TaskType, TypeInv, TypeOK
  <2> QED BY <1>5, <2>1, <2>2 DEF Load
<1>6. CASE Create
  BY <1>6 DEF Create, ServerInv, Absent, Handles, server
<1>7. CASE FeedChange
  BY <1>7 DEF FeedChange, ServerInv, disk, StoredType, MaybeLength, Length,
       None, DocType, TypeInv, TypeOK
<1>8. CASE FeedRemoved
  BY <1>8 DEF FeedRemoved, ServerInv, NoDoc, disk, StoredType, MaybeLength,
       Length, None, DocType, TypeInv, TypeOK
<1>9. CASE Crash
  BY <1>9 DEF Crash, ServerInv, Die, Absent, Closed, NoTask, disk, server,
       TaskType, TypeInv, TypeOK
<1>10. ASSUME NEW k \in Url, Forget(k)
     PROVE  ServerInv'
  BY <1>10 DEF Forget, ServerInv, disk
<1> QED BY <1>1, <1>2, <1>3, <1>4, <1>5, <1>6, <1>7, <1>8, <1>9, <1>10 DEF
     Next, HandleCall

(* Every removal of .released comes after the server's last answer, or     *)
(* after the user's unlink: a task that finds the file gone finds it       *)
(* uploaded.                                                               *)
LEMMA KeptStep ==
  ASSUME TypeInv, MadeInv, BootInv, SavedInv, UnlinkedInv, KeptInv,
         Next
  PROVE  KeptInv'
<1>1. ASSUME NEW h \in Handles, HandleStep(h)
     PROVE  KeptInv'
  <2>1. CASE Upsert(h) \/ Check(h)
    BY <2>1 DEF Upsert, Check, KeptInv, Kept, disk, server
  <2>2. CASE Rename(h)
    BY <2>2 DEF Rename, KeptInv, Kept, Early, server, MaybeLength, Length,
         None, HistType, TypeInv, TypeOK
  <2>3. CASE RenameThrows(h)
    BY <2>3 DEF RenameThrows, KeptInv, Kept, Early, Die, Absent, Closed,
         NoTask, disk, server, ObjType, TaskType, TypeInv, TypeOK
  <2>4. CASE Queue(h)
    BY <2>4 DEF Queue, KeptInv, Kept, Early, disk, server, TaskType, SavedInv,
         TypeInv, TypeOK
  <2> QED BY <1>1, <2>1, <2>2, <2>3, <2>4 DEF HandleStep
<1>2. ASSUME NEW h \in Handles, HandleCall(h)
     PROVE  KeptInv'
  <2>1. CASE WriteFails(h) \/ Release(h)
    BY <2>1 DEF WriteFails, Release, KeptInv, Kept, disk, server
  <2>2. CASE Open(h)
    BY <2>2 DEF Open, KeptInv, Kept, Early, disk, server, HistType, TypeInv,
         TypeOK
  <2>3. CASE Write(h)
    BY <2>3 DEF Write, KeptInv, Kept, Early, Max2, server, MaybeLength,
         Length, None, ObjType, TypeInv, TypeOK
  <2>4. CASE ReadTruncates(h)
    BY <2>4 DEF ReadTruncates, KeptInv, Kept, Early, server, ObjType,
         MaybeLength, Length, None, TypeInv, TypeOK
  <2> QED BY <1>2, <2>1, <2>2, <2>3, <2>4 DEF HandleCall
<1>3. ASSUME NEW t \in Tasks, TaskStep(t)
     PROVE  KeptInv'
  <2>1. CASE CheckFile(t)
    BY <2>1 DEF CheckFile, KeptInv, Kept, Early, Go, disk, server, TaskType,
         HistType, TypeInv, TypeOK
  <2>2. CASE Spin(t)
    BY <2>2 DEF Spin, KeptInv, Kept, Early, Go, disk, server, TaskType,
         TypeInv, TypeOK
  <2>3. CASE ReadParents(t)
    BY <2>3 DEF ReadParents, KeptInv, Kept, Early, disk, server, TaskType,
         TypeInv, TypeOK
  <2>4. CASE AskTrashed(t)
    BY <2>4 DEF AskTrashed, KeptInv, Kept, Early, RemoveReleased, Move, Go,
         server, TaskType, MaybeLength, Length, None, UnlinkedInv, TypeInv, TypeOK
  <2>5. CASE Ask(t)
    BY <2>5 DEF Ask, KeptInv, Kept, Early, disk, TaskType, TypeInv, TypeOK
  <2>6. CASE AskAgain(t)
    BY <2>6 DEF AskAgain, KeptInv, Kept, Early, Go, disk, TaskType, TypeInv,
         TypeOK
  <2>7. CASE SaveUrl(t)
    BY <2>7 DEF SaveUrl, KeptInv, Kept, Early, disk, server, TaskType,
         TypeInv, TypeOK
  <2>8. CASE Put(t)
    BY <2>8 DEF Put, KeptInv, Kept, Early, Go, disk, server, TaskType,
         SavedInv, TypeInv, TypeOK
  <2>9. CASE SendOk(t)
    BY <2>9 DEF SendOk, KeptInv, Kept, Early, Go, Arrives, Live, disk,
         TaskType, StoredType, MaybeLength, Length, None, TypeInv, TypeOK
  <2>10. CASE SendLost(t)
    BY <2>10 DEF SendLost, KeptInv, Kept, Early, Go, Arrives, Live, disk,
         TaskType, StoredType, MaybeLength, Length, None, TypeInv, TypeOK
  <2>11. CASE SendCut(t)
    BY <2>11 DEF SendCut, KeptInv, Kept, Early, Go, Live, disk, TaskType,
         TypeInv, TypeOK
  <2>12. CASE SendRefused(t)
    BY <2>12 DEF SendRefused, KeptInv, Kept, Early, Go, disk, server,
         TaskType, TypeInv, TypeOK
  <2>13. CASE Sent(t)
    BY <2>13 DEF Sent, KeptInv, Kept, Early, Go, disk, server, TaskType,
         ObjType, TypeInv, TypeOK
  <2>14. CASE Finish(t)
    BY <2>14 DEF Finish, KeptInv, Kept, Early, RemoveReleased, Move, Go,
         server, TaskType, MaybeLength, Length, None, TypeInv, TypeOK
  <2>15. CASE ResumeStart(t)
    BY <2>15 DEF ResumeStart, KeptInv, Kept, Early, Go, disk, server,
         TaskType, TypeInv, TypeOK
  <2>16. CASE ResumeFrom(t)
    BY <2>16 DEF ResumeFrom, KeptInv, Kept, Early, disk, server, TaskType,
         TypeInv, TypeOK
  <2>17. CASE ResumeNowhere(t)
    BY <2>17 DEF ResumeNowhere, KeptInv, Kept, Early, RemoveReleased, Move,
         Go, server, TaskType, MaybeLength, Length, None, TypeInv, TypeOK
  <2> QED BY <1>3, <2>1, <2>2, <2>3, <2>4, <2>5, <2>6, <2>7, <2>8, <2>9,
         <2>10, <2>11, <2>12, <2>13, <2>14, <2>15, <2>16, <2>17 DEF TaskStep
<1>4. CASE Unlink
  <2>1. CASE UnlinkFile \/ UnlinkDoc
    BY <2>1 DEF UnlinkFile, UnlinkDoc, KeptInv, Kept, server, disk
  <2>2. CASE UnlinkStart
    BY <2>2 DEF UnlinkStart, KeptInv, Kept, Early, Un, disk, server, HistType,
         TypeInv, TypeOK
  <2>3. CASE UnlinkDelete
    BY <2>3 DEF UnlinkDelete, KeptInv, Kept, Early, Un, disk, StoredType,
         MaybeLength, Length, None, ObjType, UnlinkedInv, TypeInv, TypeOK
  <2>4. CASE UnlinkTrash
    BY <2>4 DEF UnlinkTrash, KeptInv, Kept, Early, Un, disk, server, ObjType,
         UnlinkedInv, TypeInv, TypeOK
  <2>5. CASE UnlinkReleased
    BY <2>5 DEF UnlinkReleased, KeptInv, Kept, Early, Un, RemoveReleased,
         Move, server, MaybeLength, Length, None, UnlinkedInv, TypeInv, TypeOK
  <2>6. CASE UnlinkParent
    BY <2>6 DEF UnlinkParent, KeptInv, Kept, Early, Un, disk, server, ObjType,
         UnlinkedInv, TypeInv, TypeOK
  <2> QED BY <1>4, <2>1, <2>2, <2>3, <2>4, <2>5, <2>6 DEF Unlink
<1>5. CASE Load
  <2>1. CASE LoadPending
    BY <2>1 DEF LoadPending, KeptInv, Kept, Early, Absent, NoTask, Valid,
         disk, server, ObjType, TaskType, BootInv, TypeInv, TypeOK
  <2>2. CASE LoadInvalid
    BY <2>2 DEF LoadInvalid, KeptInv, Kept, Early, server, MaybeLength,
         Length, None, BootInv, TypeInv, TypeOK
  <2>3. CASE LoadUploaded
    BY <2>3 DEF LoadUploaded, KeptInv, Kept, Early, Absent, Uploaded, disk,
         server, ObjType, BootInv, NoTask, TypeInv, TypeOK
  <2>4. CASE LoadNothing
    BY <2>4 DEF LoadNothing, KeptInv, Kept, Early, disk, server
  <2>5. CASE Insert
    BY <2>5 DEF Insert, KeptInv, Kept, Early, disk, server, ObjType, BootInv,
         TypeInv, TypeOK
  <2>6. CASE Link
    BY <2>6 DEF Link, KeptInv, Kept, Early, disk, server, ObjType, BootInv,
         TypeInv, TypeOK
  <2> QED BY <1>5, <2>1, <2>2, <2>3, <2>4, <2>5, <2>6 DEF Load
<1>6. CASE Create
  BY <1>6 DEF Create, KeptInv, Kept, Early, Absent, Handles, server, HistType,
       ObjType, MaybeLength, Length, None, MadeInv, NoTask, Closed, TypeInv, TypeOK
<1>7. CASE FeedChange
  BY <1>7 DEF FeedChange, KeptInv, Kept, Early, disk, StoredType, MaybeLength,
       Length, None, ObjType, TypeInv, TypeOK
<1>8. CASE FeedRemoved
  BY <1>8 DEF FeedRemoved, KeptInv, Kept, Early, NoDoc, disk, StoredType,
       MaybeLength, Length, None, ObjType, TypeInv, TypeOK
<1>9. CASE Crash
  BY <1>9 DEF Crash, KeptInv, Kept, Early, Die, Absent, Closed, NoTask, disk,
       server, HistType, ObjType, TaskType, BootInv, TypeInv, TypeOK
<1>10. ASSUME NEW k \in Url, Forget(k)
     PROVE  KeptInv'
  BY <1>10 DEF Forget, KeptInv, Kept, Early, disk
<1> QED BY <1>1, <1>2, <1>3, <1>4, <1>5, <1>6, <1>7, <1>8, <1>9, <1>10 DEF
     Next, HandleCall

(* Whoever takes a file's parent away has marked it trashed before.        *)
LEMMA ParentStep ==
  ASSUME TypeInv, MadeInv, BootInv, ParentInv,
         Next
  PROVE  ParentInv'
<1>1. ASSUME NEW h \in Handles, HandleStep(h)
     PROVE  ParentInv'
  <2>1. CASE Upsert(h) \/ Check(h) \/ Rename(h)
    BY <2>1 DEF Upsert, Check, Rename, ParentInv, disk, server
  <2>2. CASE RenameThrows(h)
    BY <2>2 DEF RenameThrows, ParentInv, Running, Die, Absent, Closed, NoTask,
         disk, server, ObjType, TaskType, TypeInv, TypeOK
  <2>3. CASE Queue(h)
    BY <2>3 DEF Queue, ParentInv, Running, disk, server, TaskType, TypeInv,
         TypeOK
  <2> QED BY <1>1, <2>1, <2>2, <2>3 DEF HandleStep
<1>2. ASSUME NEW h \in Handles, HandleCall(h)
     PROVE  ParentInv'
  <2>1. CASE Open(h) \/ WriteFails(h) \/ Release(h)
    BY <2>1 DEF Open, WriteFails, Release, ParentInv, disk, server
  <2>2. CASE Write(h)
    BY <2>2 DEF Write, ParentInv, Running, Max2, server, ObjType, TypeInv,
         TypeOK
  <2>3. CASE ReadTruncates(h)
    BY <2>3 DEF ReadTruncates, ParentInv, Running, server, ObjType, TypeInv,
         TypeOK
  <2> QED BY <1>2, <2>1, <2>2, <2>3 DEF HandleCall
<1>3. ASSUME NEW t \in Tasks, TaskStep(t)
     PROVE  ParentInv'
  <2>1. CASE CheckFile(t)
    BY <2>1 DEF CheckFile, ParentInv, Running, Go, disk, server, TaskType,
         TypeInv, TypeOK
  <2>2. CASE Spin(t)
    BY <2>2 DEF Spin, ParentInv, Running, Go, disk, server, TaskType, TypeInv,
         TypeOK
  <2>3. CASE ReadParents(t)
    BY <2>3 DEF ReadParents, ParentInv, Running, disk, server, TaskType,
         TypeInv, TypeOK
  <2>4. CASE AskTrashed(t)
    BY <2>4 DEF AskTrashed, ParentInv, Running, RemoveReleased, Move, Go,
         server, TaskType, TypeInv, TypeOK
  <2>5. CASE Ask(t)
    BY <2>5 DEF Ask, ParentInv, Running, disk, TaskType, TypeInv, TypeOK
  <2>6. CASE AskAgain(t)
    BY <2>6 DEF AskAgain, ParentInv, Running, Go, disk, TaskType, TypeInv,
         TypeOK
  <2>7. CASE SaveUrl(t)
    BY <2>7 DEF SaveUrl, ParentInv, Running, disk, server, TaskType, TypeInv,
         TypeOK
  <2>8. CASE Put(t)
    BY <2>8 DEF Put, ParentInv, Running, Go, disk, server, TaskType, TypeInv,
         TypeOK
  <2>9. CASE SendOk(t)
    BY <2>9 DEF SendOk, ParentInv, Running, Go, Arrives, Live, disk, TaskType,
         StoredType, MaybeLength, Length, None, TypeInv, TypeOK
  <2>10. CASE SendLost(t)
    BY <2>10 DEF SendLost, ParentInv, Running, Go, Arrives, Live, disk,
         TaskType, StoredType, MaybeLength, Length, None, TypeInv, TypeOK
  <2>11. CASE SendCut(t)
    BY <2>11 DEF SendCut, ParentInv, Running, Go, Live, disk, TaskType,
         TypeInv, TypeOK
  <2>12. CASE SendRefused(t)
    BY <2>12 DEF SendRefused, ParentInv, Running, Go, disk, server, TaskType,
         TypeInv, TypeOK
  <2>13. CASE Sent(t)
    BY <2>13 DEF Sent, ParentInv, Running, Go, disk, server, TaskType,
         ObjType, TypeInv, TypeOK
  <2>14. CASE Finish(t)
    BY <2>14 DEF Finish, ParentInv, Running, RemoveReleased, Move, Go, server,
         TaskType, TypeInv, TypeOK
  <2>15. CASE ResumeStart(t)
    BY <2>15 DEF ResumeStart, ParentInv, Running, Go, disk, server, TaskType,
         TypeInv, TypeOK
  <2>16. CASE ResumeFrom(t)
    BY <2>16 DEF ResumeFrom, ParentInv, Running, disk, server, TaskType,
         TypeInv, TypeOK
  <2>17. CASE ResumeNowhere(t)
    BY <2>17 DEF ResumeNowhere, ParentInv, Running, RemoveReleased, Move, Go,
         server, TaskType, TypeInv, TypeOK
  <2> QED BY <1>3, <2>1, <2>2, <2>3, <2>4, <2>5, <2>6, <2>7, <2>8, <2>9,
         <2>10, <2>11, <2>12, <2>13, <2>14, <2>15, <2>16, <2>17 DEF TaskStep
<1>4. CASE Unlink
  <2>1. CASE UnlinkStart
    BY <2>1 DEF UnlinkStart, ParentInv, Running, Un, disk, server
  <2>2. CASE UnlinkDelete
    BY <2>2 DEF UnlinkDelete, ParentInv, Running, Un, disk, StoredType,
         MaybeLength, Length, None, ObjType, TypeInv, TypeOK
  <2>3. CASE UnlinkTrash
    BY <2>3 DEF UnlinkTrash, ParentInv, Running, Un, disk, server, ObjType,
         TypeInv, TypeOK
  <2>4. CASE UnlinkFile
    BY <2>4 DEF UnlinkFile, ParentInv, Running, Un, Move, server
  <2>5. CASE UnlinkReleased
    BY <2>5 DEF UnlinkReleased, ParentInv, Running, Un, RemoveReleased, Move,
         server
  <2>6. CASE UnlinkParent
    BY <2>6 DEF UnlinkParent, ParentInv, Running, Un, disk, server, ObjType,
         TypeInv, TypeOK
  <2>7. CASE UnlinkDoc
    BY <2>7 DEF UnlinkDoc, ParentInv, Running, Un, NoDoc, disk, server
  <2> QED BY <1>4, <2>1, <2>2, <2>3, <2>4, <2>5, <2>6, <2>7 DEF Unlink
<1>5. CASE Load
  <2>1. CASE LoadInvalid \/ LoadNothing
    BY <2>1 DEF LoadInvalid, LoadNothing, ParentInv, server, disk
  <2>2. CASE LoadPending
    BY <2>2 DEF LoadPending, ParentInv, Running, Absent, NoTask, Valid, disk,
         server, ObjType, TaskType, BootInv, Early, TypeInv, TypeOK
  <2>3. CASE LoadUploaded
    BY <2>3 DEF LoadUploaded, ParentInv, Running, Absent, Uploaded, disk,
         server, ObjType, BootInv, NoTask, Early, TypeInv, TypeOK
  <2>4. CASE Insert
    BY <2>4 DEF Insert, ParentInv, Running, disk, server, ObjType, BootInv,
         Early, TypeInv, TypeOK
  <2>5. CASE Link
    BY <2>5 DEF Link, ParentInv, Running, disk, server, ObjType, BootInv,
         Early, TypeInv, TypeOK
  <2> QED BY <1>5, <2>1, <2>2, <2>3, <2>4, <2>5 DEF Load
<1>6. CASE Create
  BY <1>6 DEF Create, ParentInv, Running, Absent, Handles, server, ObjType,
       MadeInv, NoTask, TypeInv, TypeOK
<1>7. CASE FeedChange
  BY <1>7 DEF FeedChange, ParentInv, Running, disk, StoredType, MaybeLength,
       Length, None, ObjType, TypeInv, TypeOK
<1>8. CASE FeedRemoved
  BY <1>8 DEF FeedRemoved, ParentInv, Running, NoDoc, disk, StoredType,
       MaybeLength, Length, None, ObjType, TypeInv, TypeOK
<1>9. CASE Crash
  BY <1>9 DEF Crash, ParentInv, Running, Die, Absent, Closed, NoTask, disk,
       server, ObjType, TaskType, TypeInv, TypeOK
<1>10. ASSUME NEW k \in Url, Forget(k)
     PROVE  ParentInv'
  BY <1>10 DEF Forget, ParentInv, Running, disk
<1> QED BY <1>1, <1>2, <1>3, <1>4, <1>5, <1>6, <1>7, <1>8, <1>9, <1>10 DEF
     Next, HandleCall

(* With the other handles closed, what a handle does the creator's does.    *)
LEMMA OnlyCreator ==
  ASSUME OthersInv, Alone, NEW h \in Handles, hd[h].pc # "none"
  PROVE  h = Creator
BY DEF OthersInv, Closed, Handles

(* Open is the only action that takes a second handle.                     *)
LEMMA OthersStep ==
  ASSUME TypeInv, MadeInv, BootInv, OthersInv,
         Next
  PROVE  OthersInv'
<1>1. ASSUME NEW h \in Handles, HandleStep(h)
     PROVE  OthersInv'
  <2>1. CASE Upsert(h)
    <3>1. Alone => h = Creator
      BY <2>1, OnlyCreator DEF Upsert
    <3>2. Alone => \A j \in Others : hd'[j] = hd[j]
      BY <2>1, <3>1, UploadAssumption DEF Upsert, OthersInv, Closed, Handles,
           TypeInv, TypeOK
    <3> QED BY <2>1, <3>2 DEF Upsert, Alone, OthersInv
  <2>2. CASE Check(h)
    <3>1. Alone => h = Creator
      BY <2>2, OnlyCreator DEF Check
    <3>2. Alone => \A j \in Others : hd'[j] = hd[j]
      BY <2>2, <3>1, UploadAssumption DEF Check, OthersInv, Closed, Handles,
           TypeInv, TypeOK
    <3> QED BY <2>2, <3>2 DEF Check, Alone, OthersInv
  <2>3. CASE Rename(h)
    <3>1. Alone => h = Creator
      BY <2>3, OnlyCreator DEF Rename
    <3>2. Alone => \A j \in Others : hd'[j] = hd[j]
      BY <2>3, <3>1, UploadAssumption DEF Rename, OthersInv, Closed, Handles,
           TypeInv, TypeOK
    <3> QED BY <2>3, <3>2 DEF Rename, Alone, OthersInv, TypeInv, TypeOK,
         HistType
  <2>4. CASE RenameThrows(h)
    BY <2>4 DEF RenameThrows, OthersInv, Alone, Closed, Handles, Die, Absent,
         NoTask, disk, server, HandleType, TypeInv, TypeOK
  <2>5. CASE Queue(h)
    <3>1. Alone => h = Creator
      BY <2>5, OnlyCreator DEF Queue
    <3>2. Alone => \A j \in Others : hd'[j] = hd[j]
      BY <2>5, <3>1, UploadAssumption DEF Queue, OthersInv, Closed, Handles,
           TypeInv, TypeOK
    <3> QED BY <2>5, <3>2 DEF Queue, Alone, OthersInv
  <2> QED BY <1>1, <2>1, <2>2, <2>3, <2>4, <2>5 DEF HandleStep
<1>2. ASSUME NEW h \in Handles, HandleCall(h)
     PROVE  OthersInv'
  <2>1. CASE Open(h)
    BY <2>1 DEF Open, OthersInv, Alone, Closed, Handles, disk, server,
         HandleType, HistType, TypeInv, TypeOK
  <2>2. CASE Write(h)
    <3>1. Alone => h = Creator
      BY <2>2, OnlyCreator DEF Write
    <3>2. Alone => \A j \in Others : hd'[j] = hd[j]
      BY <2>2, <3>1, UploadAssumption DEF Write, OthersInv, Closed, Handles,
           TypeInv, TypeOK
    <3> QED BY <2>2, <3>2 DEF Write, Alone, OthersInv
  <2>3. CASE WriteFails(h)
    <3>1. Alone => h = Creator
      BY <2>3, OnlyCreator DEF WriteFails
    <3>2. Alone => \A j \in Others : hd'[j] = hd[j]
      BY <2>3, <3>1, UploadAssumption DEF WriteFails, OthersInv, Closed,
           Handles, TypeInv, TypeOK
    <3> QED BY <2>3, <3>2 DEF WriteFails, Alone, OthersInv
  <2>4. CASE ReadTruncates(h)
    <3>1. Alone => h = Creator
      BY <2>4, OnlyCreator DEF ReadTruncates
    <3>2. Alone => \A j \in Others : hd'[j] = hd[j]
      BY <2>4, <3>1, UploadAssumption DEF ReadTruncates, OthersInv, Closed,
           Handles, TypeInv, TypeOK
    <3> QED BY <2>4, <3>2 DEF ReadTruncates, Alone, OthersInv
  <2>5. CASE Release(h)
    BY <2>5 DEF Release, OthersInv, Alone, Closed, Handles, disk, server,
         HandleType, TypeInv, TypeOK
  <2> QED BY <1>2, <2>1, <2>2, <2>3, <2>4, <2>5 DEF HandleCall
<1>3. ASSUME NEW t \in Tasks, TaskStep(t)
     PROVE  OthersInv'
  <2>1. CASE Spin(t) \/ ReadParents(t) \/ Ask(t) \/ AskAgain(t) \/
            SaveUrl(t) \/ Put(t) \/ SendOk(t) \/ SendLost(t) \/ SendCut(t)
            \/ SendRefused(t) \/ Sent(t) \/ ResumeStart(t) \/ ResumeFrom(t)
    BY <2>1 DEF Spin, ReadParents, Ask, AskAgain, SaveUrl, Put, SendOk,
         SendLost, SendCut, SendRefused, Sent, ResumeStart, ResumeFrom, OthersInv,
         Alone, disk, server
  <2>2. CASE CheckFile(t)
    BY <2>2 DEF CheckFile, OthersInv, Alone, Closed, Handles, Go, disk,
         server, HistType, TypeInv, TypeOK
  <2>3. CASE AskTrashed(t)
    <3>1. Alone => \A j \in Others : hd'[j] = hd[j]
      BY <2>3 DEF AskTrashed, RemoveReleased, Move, OthersInv, Closed, Handles,
           TypeInv, TypeOK
    <3> QED BY <2>3, <3>1 DEF AskTrashed, Alone, OthersInv
  <2>4. CASE Finish(t)
    <3>1. Alone => \A j \in Others : hd'[j] = hd[j]
      BY <2>4 DEF Finish, RemoveReleased, Move, OthersInv, Closed, Handles,
           TypeInv, TypeOK
    <3> QED BY <2>4, <3>1 DEF Finish, Alone, OthersInv
  <2>5. CASE ResumeNowhere(t)
    <3>1. Alone => \A j \in Others : hd'[j] = hd[j]
      BY <2>5 DEF ResumeNowhere, RemoveReleased, Move, OthersInv, Closed,
           Handles, TypeInv, TypeOK
    <3> QED BY <2>5, <3>1 DEF ResumeNowhere, Alone, OthersInv
  <2> QED BY <1>3, <2>1, <2>2, <2>3, <2>4, <2>5 DEF TaskStep
<1>4. CASE Unlink
  <2>1. CASE UnlinkDelete \/ UnlinkTrash \/ UnlinkParent \/ UnlinkDoc
    BY <2>1 DEF UnlinkDelete, UnlinkTrash, UnlinkParent, UnlinkDoc, OthersInv,
         Alone, disk, server
  <2>2. CASE UnlinkStart
    BY <2>2 DEF UnlinkStart, OthersInv, Alone, Closed, Handles, Un, disk,
         server, HistType, TypeInv, TypeOK
  <2>3. CASE UnlinkFile
    <3>1. Alone => \A j \in Others : hd'[j] = hd[j]
      BY <2>3 DEF UnlinkFile, Move, OthersInv, Closed, Handles, TypeInv, TypeOK
    <3> QED BY <2>3, <3>1 DEF UnlinkFile, Alone, OthersInv
  <2>4. CASE UnlinkReleased
    <3>1. Alone => \A j \in Others : hd'[j] = hd[j]
      BY <2>4 DEF UnlinkReleased, RemoveReleased, Move, OthersInv, Closed,
           Handles, TypeInv, TypeOK
    <3> QED BY <2>4, <3>1 DEF UnlinkReleased, Alone, OthersInv
  <2> QED BY <1>4, <2>1, <2>2, <2>3, <2>4 DEF Unlink
<1>5. CASE Load
  BY <1>5 DEF Load, LoadPending, LoadInvalid, LoadUploaded, LoadNothing,
       Insert, Link, OthersInv, Alone, disk, server
<1>6. CASE Create
  BY <1>6, UploadAssumption DEF Create, OthersInv, Alone, Closed, Handles,
       Absent, server, HistType, HandleType, TypeInv, TypeOK
<1>7. CASE FeedChange
  BY <1>7 DEF FeedChange, OthersInv, Alone, Closed, Handles, disk
<1>8. CASE FeedRemoved
  BY <1>8 DEF FeedRemoved, OthersInv, Alone, Closed, Handles, NoDoc, disk
<1>9. CASE Crash
  BY <1>9 DEF Crash, OthersInv, Alone, Closed, Handles, Die, Absent, NoTask,
       disk, server, HistType, HandleType, TypeInv, TypeOK
<1>10. ASSUME NEW k \in Url, Forget(k)
     PROVE  OthersInv'
  BY <1>10 DEF Forget, OthersInv, Alone, Closed, Handles, disk
<1> QED BY <1>1, <1>2, <1>3, <1>4, <1>5, <1>6, <1>7, <1>8, <1>9, <1>10 DEF
     Next, HandleCall

(* The creator's handle from create to rename: what it has on disk is what *)
(* the object says.                                                        *)
LEMMA CreatorStep ==
  ASSUME TypeInv, MadeInv, BootInv, HandleInv, SavedInv, UnlinkedInv,
         OthersInv, CreatorInv,
         Next
  PROVE  CreatorInv'
<1>1. ASSUME NEW h \in Handles, HandleStep(h)
     PROVE  CreatorInv'
  <2>1. CASE Upsert(h)
    <3>1. Alone => h = Creator
      BY <2>1, OnlyCreator DEF Upsert
    <3>2. Alone =>
            /\ Kid'.pc = "check"
            /\ Kid'.fd = Kid.fd
            /\ Kid'.needs = Kid.needs
      BY <2>1, <3>1 DEF Upsert, Kid, TypeInv, TypeOK, HandleType
    <3>3.
          /\ doc'.size = obj.size
          /\ doc'.linked = obj.linked
          /\ doc'.trashed = obj.trashed
      BY <2>1 DEF Upsert, TypeInv, TypeOK, DocType
    <3> QED
      BY <2>1, <3>1, <3>2, <3>3
         DEF Upsert, Alone, CreatorInv, Held, disk, server, Kid, UnlinkedInv
  <2>2. CASE Check(h)
    <3>1. Alone => h = Creator
      BY <2>2, OnlyCreator DEF Check
    <3>2. Alone =>
            /\ Kid'.pc = (IF f # None THEN "rename" ELSE "dead")
            /\ Kid'.fd = Kid.fd
            /\ Kid'.needs = Kid.needs
      BY <2>2, <3>1 DEF Check, Kid, TypeInv, TypeOK, HandleType
    <3> QED
      BY <2>2, <3>1, <3>2
         DEF Check, Alone, CreatorInv, Held, disk, server, Kid
  <2>3. CASE Rename(h)
    <3>1. Alone => h = Creator
      BY <2>3, OnlyCreator DEF Rename
    <3>2. Alone =>
            /\ Kid'.pc = "queue"
            /\ Kid'.fd = Kid.fd
            /\ Kid'.needs = Kid.needs
      BY <2>3, <3>1 DEF Rename, Kid, TypeInv, TypeOK, HandleType
    <3>3.
          /\ hist'.saved = f
          /\ hist'.unlinked = hist.unlinked
          /\ hist'.reopened = hist.reopened
      BY <2>3 DEF Rename, TypeInv, TypeOK, HistType
    <3> QED
      BY <2>3, <3>1, <3>2, <3>3
         DEF Rename, Alone, CreatorInv, Held, server, Kid
  <2>4. CASE RenameThrows(h)
    BY <2>4 DEF RenameThrows, CreatorInv, Alone, Kid, Held, Handles,
         MaybeLength, Length, None, Die, Absent, Closed, NoTask, disk, server,
         ObjType, HandleType, TypeInv, TypeOK
  <2>5. CASE Queue(h)
    <3>1. Alone => h = Creator
      BY <2>5, OnlyCreator DEF Queue
    <3>2. Alone =>
            /\ Kid'.pc = "dead"
            /\ Kid'.fd = Kid.fd
            /\ Kid'.needs = Kid.needs
      BY <2>5, <3>1 DEF Queue, Kid, TypeInv, TypeOK, HandleType
    <3> QED
      BY <2>5, <3>1, <3>2
         DEF Queue, Alone, CreatorInv, Held, disk, server, Kid
  <2> QED BY <1>1, <2>1, <2>2, <2>3, <2>4, <2>5 DEF HandleStep
<1>2. ASSUME NEW h \in Handles, HandleCall(h)
     PROVE  CreatorInv'
  <2>1. CASE Open(h)
    BY <2>1 DEF Open, CreatorInv, Alone, TypeInv, TypeOK, HistType
  <2>2. CASE Write(h)
    <3>1. Alone => h = Creator
      BY <2>2, OnlyCreator DEF Write
    <3>2. Alone => Kid'.pc = Kid.pc /\ Kid'.fd = Kid.fd /\ Kid'.needs = TRUE
      BY <2>2, <3>1 DEF Write, Kid, TypeInv, TypeOK, HandleType
    <3> QED
      BY <2>2, <3>1, <3>2
         DEF Write, Alone, CreatorInv, Held, server, HandleInv, Kid, TypeInv,
             TypeOK, ObjType, Max2, MaybeLength, Length, None
  <2>3. CASE WriteFails(h)
    <3>1. Alone => h = Creator
      BY <2>3, OnlyCreator DEF WriteFails
    <3>2. Alone => Kid'.pc = Kid.pc /\ Kid'.fd = Kid.fd /\ Kid'.needs = TRUE
      BY <2>3, <3>1 DEF WriteFails, Kid, TypeInv, TypeOK, HandleType
    <3> QED
      BY <2>3, <3>1, <3>2
         DEF WriteFails, Alone, CreatorInv, Held, disk, server, Kid
  <2>4. CASE ReadTruncates(h)
    <3>1. Alone => h = Creator
      BY <2>4, OnlyCreator DEF ReadTruncates
    <3>2. Alone => Kid'.pc = Kid.pc /\ Kid'.fd = "f" /\ Kid'.needs = Kid.needs
      BY <2>4, <3>1 DEF ReadTruncates, Kid, TypeInv, TypeOK, HandleType
    <3> QED
      BY <2>4, <3>1, <3>2
         DEF ReadTruncates, Alone, CreatorInv, Held, server, Kid
  <2>5. CASE Release(h)
    BY <2>5 DEF Release, CreatorInv, Alone, Kid, Held, Handles, MaybeLength,
         Length, None, disk, server, HandleType, TypeInv, TypeOK
  <2> QED BY <1>2, <2>1, <2>2, <2>3, <2>4, <2>5 DEF HandleCall
<1>3. ASSUME NEW t \in Tasks, TaskStep(t)
     PROVE  CreatorInv'
  <2>1. CASE Spin(t) \/ ReadParents(t) \/ Ask(t) \/ AskAgain(t) \/ Put(t) \/
            SendOk(t) \/ SendLost(t) \/ SendCut(t) \/ SendRefused(t) \/
            ResumeStart(t) \/ ResumeFrom(t)
    BY <2>1 DEF Spin, ReadParents, Ask, AskAgain, Put, SendOk, SendLost,
         SendCut, SendRefused, ResumeStart, ResumeFrom, CreatorInv, Alone, Kid,
         Held, disk, server
  <2>2. CASE CheckFile(t)
    BY <2>2 DEF CheckFile, CreatorInv, Alone, Kid, Held, Handles, MaybeLength,
         Length, None, Go, disk, server, HistType, TypeInv, TypeOK
  <2>3. CASE AskTrashed(t)
    <3>1. Kid'.pc = Kid.pc /\ Kid'.needs = Kid.needs
         /\ Kid'.fd = IF Kid.fd = "rel" THEN "gone" ELSE Kid.fd
      BY <2>3 DEF AskTrashed, RemoveReleased, Move, Kid, Handles, TypeInv,
           TypeOK, HandleType
    <3>2. Kid.fd = "rel" => Kid.pc = "open"
      BY DEF HandleInv, Kid, Handles
    <3> QED
      BY <2>3, <3>1, <3>2
         DEF AskTrashed, RemoveReleased, CreatorInv, Alone, Held, server
  <2>4. CASE SaveUrl(t)
    BY <2>4 DEF SaveUrl, CreatorInv, Alone, Kid, Held, Handles, MaybeLength,
         Length, None, disk, server, DocType, TypeInv, TypeOK
  <2>5. CASE Sent(t)
    BY <2>5 DEF Sent, CreatorInv, Alone, Kid, Held, Handles, MaybeLength,
         Length, None, Go, disk, server, ObjType, TypeInv, TypeOK
  <2>6. CASE Finish(t)
    <3>1. Kid'.pc = Kid.pc /\ Kid'.needs = Kid.needs
         /\ Kid'.fd = IF Kid.fd = "rel" THEN "gone" ELSE Kid.fd
      BY <2>6 DEF Finish, RemoveReleased, Move, Kid, Handles, TypeInv, TypeOK,
           HandleType
    <3>2. Kid.fd = "rel" => Kid.pc = "open"
      BY DEF HandleInv, Kid, Handles
    <3> QED
      BY <2>6, <3>1, <3>2
         DEF Finish, RemoveReleased, CreatorInv, Alone, Held, server
  <2>7. CASE ResumeNowhere(t)
    <3>1. CASE UNCHANGED hd
      BY <2>7, <3>1 DEF ResumeNowhere, CreatorInv, Alone, Held, Kid, server
    <3>2. CASE RemoveReleased
      <4>1. Kid'.pc = Kid.pc /\ Kid'.needs = Kid.needs
           /\ Kid'.fd = IF Kid.fd = "rel" THEN "gone" ELSE Kid.fd
        BY <3>2 DEF ResumeNowhere, RemoveReleased, Move, Kid, Handles, TypeInv,
             TypeOK, HandleType
      <4>2. Kid.fd = "rel" => Kid.pc = "open"
        BY DEF HandleInv, Kid, Handles
      <4> QED
        BY <2>7, <3>2, <4>1, <4>2
           DEF ResumeNowhere, RemoveReleased, CreatorInv, Alone, Held, server
    <3> QED BY <2>7, <3>1, <3>2 DEF ResumeNowhere
  <2> QED BY <1>3, <2>1, <2>2, <2>3, <2>4, <2>5, <2>6, <2>7 DEF TaskStep
<1>4. CASE Unlink
  <2>1. CASE UnlinkStart
    BY <2>1 DEF UnlinkStart, CreatorInv, Alone, Kid, Held, Handles,
         MaybeLength, Length, None, Un, disk, server, HistType, TypeInv, TypeOK
  <2>2. CASE UnlinkDelete
    BY <2>2 DEF UnlinkDelete, CreatorInv, Alone, Kid, Held, Handles,
         MaybeLength, Length, None, Un, disk, StoredType, ObjType, TypeInv, TypeOK
  <2>3. CASE UnlinkTrash
    BY <2>3 DEF UnlinkTrash, CreatorInv, Alone, Kid, Held, Handles,
         MaybeLength, Length, None, Un, disk, server, ObjType, TypeInv, TypeOK
  <2>4. CASE UnlinkFile
    <3>1. CASE obj.uploaded
      BY <2>4, <3>1 DEF UnlinkFile, CreatorInv, Alone, Held, Kid, server
    <3>2. CASE ~obj.uploaded
      <4>1. Kid'.pc = Kid.pc /\ Kid'.needs = Kid.needs
           /\ Kid'.fd = IF Kid.fd = "f" THEN "gone" ELSE Kid.fd
        BY <2>4, <3>2 DEF UnlinkFile, Move, Kid, Handles, TypeInv, TypeOK,
             HandleType
      <4>2. Kid.fd = "rel" => Kid.pc = "open"
        BY DEF HandleInv, Kid, Handles
      <4> QED
        BY <2>4, <3>2, <4>1, <4>2
           DEF UnlinkFile, CreatorInv, Alone, Held, UnlinkedInv, server
    <3> QED BY <3>1, <3>2
  <2>5. CASE UnlinkReleased
    <3>1. Kid'.pc = Kid.pc /\ Kid'.needs = Kid.needs
         /\ Kid'.fd = IF Kid.fd = "rel" THEN "gone" ELSE Kid.fd
      BY <2>5 DEF UnlinkReleased, RemoveReleased, Move, Kid, Handles, TypeInv,
           TypeOK, HandleType
    <3>2. Kid.fd = "rel" => Kid.pc = "open"
      BY DEF HandleInv, Kid, Handles
    <3> QED
      BY <2>5, <3>1, <3>2
         DEF UnlinkReleased, RemoveReleased, CreatorInv, Alone, Held, Un,
             server
  <2>6. CASE UnlinkParent
    BY <2>6 DEF UnlinkParent, CreatorInv, Alone, Kid, Held, Handles,
         MaybeLength, Length, None, Un, disk, server, ObjType, UnlinkedInv,
         TypeInv, TypeOK
  <2>7. CASE UnlinkDoc
    BY <2>7 DEF UnlinkDoc, CreatorInv, Alone, Kid, Held, Handles, MaybeLength,
         Length, None, Un, NoDoc, disk, server, DocType, UnlinkedInv, TypeInv,
         TypeOK
  <2> QED BY <1>4, <2>1, <2>2, <2>3, <2>4, <2>5, <2>6, <2>7 DEF Unlink
<1>5. CASE Load
  <2>1. CASE LoadPending
    BY <2>1 DEF LoadPending, CreatorInv, Alone, Kid, Held, Handles,
         MaybeLength, Length, None, Absent, NoTask, Valid, disk, server, ObjType,
         BootInv, Closed, TypeInv, TypeOK
  <2>2. CASE LoadInvalid
    BY <2>2 DEF LoadInvalid, CreatorInv, Alone, Kid, Held, Handles,
         MaybeLength, Length, None, server, BootInv, Closed, TypeInv, TypeOK
  <2>3. CASE LoadUploaded
    BY <2>3 DEF LoadUploaded, CreatorInv, Alone, Kid, Held, Handles,
         MaybeLength, Length, None, Absent, Uploaded, disk, server, ObjType,
         BootInv, Closed, TypeInv, TypeOK
  <2>4. CASE LoadNothing
    BY <2>4 DEF LoadNothing, CreatorInv, Alone, Kid, Held, Handles,
         MaybeLength, Length, None, disk, server
  <2>5. CASE Insert
    BY <2>5 DEF Insert, CreatorInv, Alone, Kid, Held, Handles, MaybeLength,
         Length, None, disk, server, ObjType, TypeInv, TypeOK
  <2>6. CASE Link
    BY <2>6 DEF Link, CreatorInv, Alone, Kid, Held, Handles, MaybeLength,
         Length, None, disk, server, ObjType, TypeInv, TypeOK
  <2> QED BY <1>5, <2>1, <2>2, <2>3, <2>4, <2>5, <2>6 DEF Load
<1>6. CASE Create
  BY <1>6 DEF Create, CreatorInv, Alone, Kid, Held, Handles, MaybeLength,
       Length, None, Absent, server, HistType, ObjType, HandleType, MadeInv,
       Closed, TypeInv, TypeOK
<1>7. CASE FeedChange
  BY <1>7 DEF FeedChange, CreatorInv, Alone, Kid, Held, Handles, MaybeLength,
       Length, None, disk, StoredType, DocType, ObjType, SavedInv, TypeInv, TypeOK
<1>8. CASE FeedRemoved
  BY <1>8 DEF FeedRemoved, CreatorInv, Alone, Kid, Held, Handles, MaybeLength,
       Length, None, NoDoc, disk, StoredType, DocType, ObjType, UnlinkedInv,
       TypeInv, TypeOK
<1>9. CASE Crash
  BY <1>9 DEF Crash, CreatorInv, Alone, Kid, Held, Handles, MaybeLength,
       Length, None, Die, Absent, Closed, NoTask, disk, server, HistType, ObjType,
       HandleType, TypeInv, TypeOK
<1>10. ASSUME NEW k \in Url, Forget(k)
     PROVE  CreatorInv'
  BY <1>10 DEF Forget, CreatorInv, Alone, Kid, Held, Handles, MaybeLength,
       Length, None, disk
<1> QED BY <1>1, <1>2, <1>3, <1>4, <1>5, <1>6, <1>7, <1>8, <1>9, <1>10 DEF
     Next, HandleCall

(* The length that is released is the length that is sent, stored and told.*)
LEMMA WholeStep ==
  ASSUME TypeInv, MadeInv, BootInv, HandleInv, SavedInv, UnlinkedInv,
         OthersInv, CreatorInv, WholeInv,
         Next
  PROVE  WholeInv'
<1>1. ASSUME NEW h \in Handles, HandleStep(h)
     PROVE  WholeInv'
  <2>1. CASE Upsert(h)
    BY <2>1 DEF Upsert, WholeInv, Alone, Kid, Handles, MaybeLength, Length,
         None, disk, server, DocType, HandleType, Held, OthersInv, CreatorInv,
         SavedInv, Closed, TypeInv, TypeOK
  <2>2. CASE Check(h)
    BY <2>2 DEF Check, WholeInv, Alone, Kid, Handles, MaybeLength, Length,
         None, disk, server, HandleType, TypeInv, TypeOK
  <2>3. CASE Rename(h)
    BY <2>3 DEF Rename, WholeInv, Alone, Kid, Handles, MaybeLength, Length,
         None, server, HistType, HandleType, Held, OthersInv, CreatorInv, SavedInv,
         Closed, TypeInv, TypeOK
  <2>4. CASE RenameThrows(h)
    BY <2>4 DEF RenameThrows, WholeInv, Alone, Kid, Handles, MaybeLength,
         Length, None, Die, Absent, Closed, NoTask, disk, server, ObjType,
         HandleType, TaskType, TypeInv, TypeOK
  <2>5. CASE Queue(h)
    BY <2>5 DEF Queue, WholeInv, Alone, Kid, Handles, MaybeLength, Length,
         None, disk, server, HandleType, TaskType, Held, OthersInv, CreatorInv,
         Closed, TypeInv, TypeOK
  <2> QED BY <1>1, <2>1, <2>2, <2>3, <2>4, <2>5 DEF HandleStep
<1>2. ASSUME NEW h \in Handles, HandleCall(h)
     PROVE  WholeInv'
  <2>1. CASE Open(h)
    BY <2>1 DEF Open, WholeInv, Alone, Kid, Handles, MaybeLength, Length,
         None, disk, server, HandleType, HistType, TypeInv, TypeOK
  <2>2. CASE Write(h)
    BY <2>2 DEF Write, WholeInv, Alone, Kid, Handles, MaybeLength, Length,
         None, Max2, server, HandleType, ObjType, Held, OthersInv, CreatorInv,
         SavedInv, Closed, TypeInv, TypeOK
  <2>3. CASE WriteFails(h)
    BY <2>3 DEF WriteFails, WholeInv, Alone, Kid, Handles, MaybeLength,
         Length, None, disk, server, HandleType, TypeInv, TypeOK
  <2>4. CASE ReadTruncates(h)
    BY <2>4 DEF ReadTruncates, WholeInv, Alone, Kid, Handles, MaybeLength,
         Length, None, server, ObjType, HandleType, Held, OthersInv, CreatorInv,
         SavedInv, Closed, TypeInv, TypeOK
  <2>5. CASE Release(h)
    BY <2>5 DEF Release, WholeInv, Alone, Kid, Handles, MaybeLength, Length,
         None, disk, server, HandleType, TypeInv, TypeOK
  <2> QED BY <1>2, <2>1, <2>2, <2>3, <2>4, <2>5 DEF HandleCall
<1>3. ASSUME NEW t \in Tasks, TaskStep(t)
     PROVE  WholeInv'
  <2>1. CASE CheckFile(t)
    BY <2>1 DEF CheckFile, WholeInv, Alone, Kid, Handles, MaybeLength, Length,
         None, Go, disk, server, TaskType, HistType, TypeInv, TypeOK
  <2>2. CASE Spin(t)
    BY <2>2 DEF Spin, WholeInv, Alone, Kid, Handles, MaybeLength, Length,
         None, Go, disk, server, TaskType, TypeInv, TypeOK
  <2>3. CASE ReadParents(t)
    BY <2>3 DEF ReadParents, WholeInv, Alone, Kid, Handles, MaybeLength,
         Length, None, disk, server, TaskType, TypeInv, TypeOK
  <2>4. CASE AskTrashed(t)
    BY <2>4 DEF AskTrashed, WholeInv, Alone, Kid, Handles, MaybeLength,
         Length, None, RemoveReleased, Move, Go, server, TaskType, HandleType,
         TypeInv, TypeOK
  <2>5. CASE Ask(t)
    BY <2>5 DEF Ask, WholeInv, Alone, Kid, Handles, MaybeLength, Length, None,
         disk, TaskType, TypeInv, TypeOK
  <2>6. CASE AskAgain(t)
    BY <2>6 DEF AskAgain, WholeInv, Alone, Kid, Handles, MaybeLength, Length,
         None, Go, disk, TaskType, TypeInv, TypeOK
  <2>7. CASE SaveUrl(t)
    BY <2>7 DEF SaveUrl, WholeInv, Alone, Kid, Handles, MaybeLength, Length,
         None, disk, server, DocType, TaskType, TypeInv, TypeOK
  <2>8. CASE Put(t)
    BY <2>8 DEF Put, WholeInv, Alone, Kid, Handles, MaybeLength, Length, None,
         Go, disk, server, TaskType, TypeInv, TypeOK
  <2>9. CASE SendOk(t)
    BY <2>9 DEF SendOk, WholeInv, Alone, Kid, Handles, MaybeLength, Length,
         None, Go, Arrives, Live, disk, TaskType, StoredType, TypeInv, TypeOK
  <2>10. CASE SendLost(t)
    BY <2>10 DEF SendLost, WholeInv, Alone, Kid, Handles, MaybeLength, Length,
         None, Go, Arrives, Live, disk, TaskType, StoredType, TypeInv, TypeOK
  <2>11. CASE SendCut(t)
    BY <2>11 DEF SendCut, WholeInv, Alone, Kid, Handles, MaybeLength, Length,
         None, Go, Live, disk, TaskType, TypeInv, TypeOK
  <2>12. CASE SendRefused(t)
    BY <2>12 DEF SendRefused, WholeInv, Alone, Kid, Handles, MaybeLength,
         Length, None, Go, disk, server, TaskType, TypeInv, TypeOK
  <2>13. CASE Sent(t)
    BY <2>13 DEF Sent, WholeInv, Alone, Kid, Handles, MaybeLength, Length,
         None, Go, disk, server, TaskType, ObjType, TypeInv, TypeOK
  <2>14. CASE Finish(t)
    BY <2>14 DEF Finish, WholeInv, Alone, Kid, Handles, MaybeLength, Length,
         None, RemoveReleased, Move, Go, server, TaskType, HandleType, TypeInv,
         TypeOK
  <2>15. CASE ResumeStart(t)
    BY <2>15 DEF ResumeStart, WholeInv, Alone, Kid, Handles, MaybeLength,
         Length, None, Go, disk, server, TaskType, TypeInv, TypeOK
  <2>16. CASE ResumeFrom(t)
    BY <2>16 DEF ResumeFrom, WholeInv, Alone, Kid, Handles, MaybeLength,
         Length, None, disk, server, TaskType, TypeInv, TypeOK
  <2>17. CASE ResumeNowhere(t)
    BY <2>17 DEF ResumeNowhere, WholeInv, Alone, Kid, Handles, MaybeLength,
         Length, None, RemoveReleased, Move, Go, server, TaskType, HandleType,
         TypeInv, TypeOK
  <2> QED BY <1>3, <2>1, <2>2, <2>3, <2>4, <2>5, <2>6, <2>7, <2>8, <2>9,
         <2>10, <2>11, <2>12, <2>13, <2>14, <2>15, <2>16, <2>17 DEF TaskStep
<1>4. CASE Unlink
  <2>1. CASE UnlinkStart
    BY <2>1 DEF UnlinkStart, WholeInv, Alone, Kid, Handles, MaybeLength,
         Length, None, Un, disk, server, HistType, TypeInv, TypeOK
  <2>2. CASE UnlinkDelete
    BY <2>2 DEF UnlinkDelete, WholeInv, Alone, Kid, Handles, MaybeLength,
         Length, None, Un, disk, StoredType, ObjType, TypeInv, TypeOK
  <2>3. CASE UnlinkTrash
    BY <2>3 DEF UnlinkTrash, WholeInv, Alone, Kid, Handles, MaybeLength,
         Length, None, Un, disk, server, ObjType, TypeInv, TypeOK
  <2>4. CASE UnlinkFile
    BY <2>4 DEF UnlinkFile, WholeInv, Alone, Kid, Handles, MaybeLength,
         Length, None, Un, Move, server, HandleType, TypeInv, TypeOK
  <2>5. CASE UnlinkReleased
    BY <2>5 DEF UnlinkReleased, WholeInv, Alone, Kid, Handles, MaybeLength,
         Length, None, Un, RemoveReleased, Move, server, HandleType, TypeInv,
         TypeOK
  <2>6. CASE UnlinkParent
    BY <2>6 DEF UnlinkParent, WholeInv, Alone, Kid, Handles, MaybeLength,
         Length, None, Un, disk, server, ObjType, TypeInv, TypeOK
  <2>7. CASE UnlinkDoc
    BY <2>7 DEF UnlinkDoc, WholeInv, Alone, Kid, Handles, MaybeLength, Length,
         None, Un, NoDoc, disk, server, DocType, UnlinkedInv, TypeInv, TypeOK
  <2> QED BY <1>4, <2>1, <2>2, <2>3, <2>4, <2>5, <2>6, <2>7 DEF Unlink
<1>5. CASE Load
  <2>1. CASE LoadPending
    BY <2>1 DEF LoadPending, WholeInv, Alone, Kid, Handles, MaybeLength,
         Length, None, Absent, NoTask, Valid, disk, server, ObjType, TaskType,
         BootInv, Closed, TypeInv, TypeOK
  <2>2. CASE LoadInvalid
    BY <2>2 DEF LoadInvalid, WholeInv, Alone, Kid, Handles, MaybeLength,
         Length, None, server, BootInv, TypeInv, TypeOK
  <2>3. CASE LoadUploaded
    BY <2>3 DEF LoadUploaded, WholeInv, Alone, Kid, Handles, MaybeLength,
         Length, None, Absent, Uploaded, disk, server, ObjType, BootInv, NoTask,
         Closed, TypeInv, TypeOK
  <2>4. CASE LoadNothing
    BY <2>4 DEF LoadNothing, WholeInv, Alone, Kid, Handles, MaybeLength,
         Length, None, disk, server
  <2>5. CASE Insert
    BY <2>5 DEF Insert, WholeInv, Alone, Kid, Handles, MaybeLength, Length,
         None, disk, server, ObjType, BootInv, TypeInv, TypeOK
  <2>6. CASE Link
    BY <2>6 DEF Link, WholeInv, Alone, Kid, Handles, MaybeLength, Length,
         None, disk, server, ObjType, TypeInv, TypeOK
  <2> QED BY <1>5, <2>1, <2>2, <2>3, <2>4, <2>5, <2>6 DEF Load
<1>6. CASE Create
  BY <1>6 DEF Create, WholeInv, Alone, Kid, Handles, MaybeLength, Length,
       None, Absent, server, HistType, ObjType, HandleType, MadeInv, NoTask,
       Closed, TypeInv, TypeOK
<1>7. CASE FeedChange
  BY <1>7 DEF FeedChange, WholeInv, Alone, Kid, Handles, MaybeLength, Length,
       None, disk, StoredType, DocType, ObjType, TypeInv, TypeOK
<1>8. CASE FeedRemoved
  BY <1>8 DEF FeedRemoved, WholeInv, Alone, Kid, Handles, MaybeLength, Length,
       None, NoDoc, disk, StoredType, DocType, ObjType, UnlinkedInv, TypeInv,
       TypeOK
<1>9. CASE Crash
  BY <1>9 DEF Crash, WholeInv, Alone, Kid, Handles, MaybeLength, Length, None,
       Die, Absent, Closed, NoTask, disk, server, HistType, ObjType, HandleType,
       TaskType, TypeInv, TypeOK
<1>10. ASSUME NEW k \in Url, Forget(k)
     PROVE  WholeInv'
  BY <1>10 DEF Forget, WholeInv, Alone, Kid, Handles, MaybeLength, Length,
       None, disk
<1> QED BY <1>1, <1>2, <1>3, <1>4, <1>5, <1>6, <1>7, <1>8, <1>9, <1>10 DEF
     Next, HandleCall

(* unlink, step by step, against everything that runs meanwhile.           *)
LEMMA GoneStep ==
  ASSUME TypeInv, MadeInv, BootInv, HandleInv, UnlinkedInv, ServerInv,
         OthersInv, CreatorInv, WholeInv, GoneInv,
         Next
  PROVE  GoneInv'
<1>1. ASSUME NEW h \in Handles, HandleStep(h)
     PROVE  GoneInv'
  <2>1. CASE Check(h) \/ Queue(h)
    BY <2>1 DEF Check, Queue, GoneInv, Alone, disk, server
  <2>2. CASE Upsert(h)
    BY <2>2 DEF Upsert, GoneInv, Alone, MaybeLength, Length, None, disk,
         server, DocType, TypeInv, TypeOK
  <2>3. CASE Rename(h)
    BY <2>3 DEF Rename, GoneInv, Alone, MaybeLength, Length, None, server,
         HistType, Kid, Held, OthersInv, CreatorInv, Closed, TypeInv, TypeOK
  <2>4. CASE RenameThrows(h)
    BY <2>4 DEF RenameThrows, GoneInv, Alone, MaybeLength, Length, None, Die,
         Absent, Closed, NoTask, disk, server, ObjType, TypeInv, TypeOK
  <2> QED BY <1>1, <2>1, <2>2, <2>3, <2>4 DEF HandleStep
<1>2. ASSUME NEW h \in Handles, HandleCall(h)
     PROVE  GoneInv'
  <2>1. CASE WriteFails(h) \/ Release(h)
    BY <2>1 DEF WriteFails, Release, GoneInv, Alone, disk, server
  <2>2. CASE Open(h)
    BY <2>2 DEF Open, GoneInv, Alone, MaybeLength, Length, None, disk, server,
         HistType, TypeInv, TypeOK
  <2>3. CASE Write(h)
    BY <2>3 DEF Write, GoneInv, Alone, MaybeLength, Length, None, Max2,
         server, ObjType, HandleInv, TypeInv, TypeOK
  <2>4. CASE ReadTruncates(h)
    BY <2>4 DEF ReadTruncates, GoneInv, Alone, MaybeLength, Length, None,
         server, ObjType, Kid, Held, OthersInv, CreatorInv, Closed, Handles,
         TypeInv, TypeOK
  <2> QED BY <1>2, <2>1, <2>2, <2>3, <2>4 DEF HandleCall
<1>3. ASSUME NEW t \in Tasks, TaskStep(t)
     PROVE  GoneInv'
  <2>1. CASE Spin(t) \/ ReadParents(t) \/ Ask(t) \/ AskAgain(t) \/ Put(t) \/
            SendCut(t) \/ SendRefused(t) \/ ResumeStart(t) \/ ResumeFrom(t)
    BY <2>1 DEF Spin, ReadParents, Ask, AskAgain, Put, SendCut, SendRefused,
         ResumeStart, ResumeFrom, GoneInv, Alone, disk, server
  <2>2. CASE CheckFile(t)
    BY <2>2 DEF CheckFile, GoneInv, Alone, MaybeLength, Length, None, Go,
         disk, server, HistType, TypeInv, TypeOK
  <2>3. CASE AskTrashed(t)
    BY <2>3 DEF AskTrashed, GoneInv, Alone, MaybeLength, Length, None,
         RemoveReleased, Move, Go, server, TypeInv, TypeOK
  <2>4. CASE SaveUrl(t)
    BY <2>4 DEF SaveUrl, GoneInv, Alone, MaybeLength, Length, None, disk,
         server, DocType, TypeInv, TypeOK
  <2>5. CASE SendOk(t)
    BY <2>5 DEF SendOk, GoneInv, Alone, MaybeLength, Length, None, Go,
         Arrives, Live, disk, StoredType, TypeInv, TypeOK
  <2>6. CASE SendLost(t)
    BY <2>6 DEF SendLost, GoneInv, Alone, MaybeLength, Length, None, Go,
         Arrives, Live, disk, StoredType, TypeInv, TypeOK
  <2>7. CASE Sent(t)
    BY <2>7 DEF Sent, GoneInv, Alone, MaybeLength, Length, None, Go, disk,
         server, ObjType, ServerInv, TypeInv, TypeOK
  <2>8. CASE Finish(t)
    BY <2>8 DEF Finish, GoneInv, Alone, MaybeLength, Length, None,
         RemoveReleased, Move, Go, server, TypeInv, TypeOK
  <2>9. CASE ResumeNowhere(t)
    BY <2>9 DEF ResumeNowhere, GoneInv, Alone, MaybeLength, Length, None,
         RemoveReleased, Move, Go, server, TypeInv, TypeOK
  <2> QED BY <1>3, <2>1, <2>2, <2>3, <2>4, <2>5, <2>6, <2>7, <2>8, <2>9
         DEF TaskStep
<1>4. CASE Unlink
  <2>1. CASE UnlinkStart
    BY <2>1 DEF UnlinkStart, GoneInv, Alone, MaybeLength, Length, None, Un,
         disk, server, HistType, TypeInv, TypeOK
  <2>2. CASE UnlinkDelete
    BY <2>2 DEF UnlinkDelete, GoneInv, Alone, MaybeLength, Length, None, Un,
         disk, StoredType, ObjType, UnlinkedInv, TypeInv, TypeOK
  <2>3. CASE UnlinkTrash
    BY <2>3 DEF UnlinkTrash, GoneInv, Alone, MaybeLength, Length, None, Un,
         disk, server, ObjType, TypeInv, TypeOK
  <2>4. CASE UnlinkFile
    BY <2>4 DEF UnlinkFile, GoneInv, Alone, MaybeLength, Length, None, Un,
         Move, server, TypeInv, TypeOK
  <2>5. CASE UnlinkReleased
    BY <2>5 DEF UnlinkReleased, GoneInv, Alone, MaybeLength, Length, None, Un,
         RemoveReleased, Move, server, TypeInv, TypeOK
  <2>6. CASE UnlinkParent
    BY <2>6 DEF UnlinkParent, GoneInv, Alone, MaybeLength, Length, None, Un,
         disk, server, ObjType, TypeInv, TypeOK
  <2>7. CASE UnlinkDoc
    BY <2>7 DEF UnlinkDoc, GoneInv, Alone, MaybeLength, Length, None, Un,
         NoDoc, disk, server, DocType, TypeInv, TypeOK
  <2> QED BY <1>4, <2>1, <2>2, <2>3, <2>4, <2>5, <2>6, <2>7 DEF Unlink
<1>5. CASE Load
  <2>1. CASE LoadPending
    BY <2>1 DEF LoadPending, GoneInv, Alone, MaybeLength, Length, None,
         Absent, NoTask, Valid, disk, server, ObjType, BootInv, TypeInv, TypeOK
  <2>2. CASE LoadInvalid
    BY <2>2 DEF LoadInvalid, GoneInv, Alone, MaybeLength, Length, None,
         server, BootInv, TypeInv, TypeOK
  <2>3. CASE LoadUploaded
    BY <2>3 DEF LoadUploaded, GoneInv, Alone, MaybeLength, Length, None,
         Absent, Uploaded, disk, server, ObjType, BootInv, WholeInv, ServerInv,
         TypeInv, TypeOK
  <2>4. CASE LoadNothing
    BY <2>4 DEF LoadNothing, GoneInv, Alone, MaybeLength, Length, None, disk,
         server
  <2>5. CASE Insert
    BY <2>5 DEF Insert, GoneInv, Alone, MaybeLength, Length, None, disk,
         server, ObjType, BootInv, TypeInv, TypeOK
  <2>6. CASE Link
    BY <2>6 DEF Link, GoneInv, Alone, MaybeLength, Length, None, disk, server,
         ObjType, BootInv, TypeInv, TypeOK
  <2> QED BY <1>5, <2>1, <2>2, <2>3, <2>4, <2>5, <2>6 DEF Load
<1>6. CASE Create
  BY <1>6 DEF Create, GoneInv, Alone, MaybeLength, Length, None, Absent,
       Handles, server, HistType, ObjType, MadeInv, TypeInv, TypeOK
<1>7. CASE FeedChange
  BY <1>7 DEF FeedChange, GoneInv, Alone, MaybeLength, Length, None, disk,
       StoredType, DocType, ObjType, TypeInv, TypeOK
<1>8. CASE FeedRemoved
  BY <1>8 DEF FeedRemoved, GoneInv, Alone, MaybeLength, Length, None, NoDoc,
       disk, StoredType, DocType, ObjType, UnlinkedInv, TypeInv, TypeOK
<1>9. CASE Crash
  BY <1>9 DEF Crash, GoneInv, Alone, MaybeLength, Length, None, Die, Absent,
       Closed, NoTask, disk, server, HistType, ObjType, TypeInv, TypeOK
<1>10. ASSUME NEW k \in Url, Forget(k)
     PROVE  GoneInv'
  BY <1>10 DEF Forget, GoneInv, Alone, MaybeLength, Length, None, disk
<1> QED BY <1>1, <1>2, <1>3, <1>4, <1>5, <1>6, <1>7, <1>8, <1>9, <1>10 DEF
     Next, HandleCall

-----------------------------------------------------------------------------

IInv == /\ TypeInv /\ MadeInv /\ BootInv /\ HandleInv /\ SavedInv
        /\ UnlinkedInv /\ ServerInv /\ KeptInv /\ ParentInv
        /\ OthersInv /\ CreatorInv /\ WholeInv /\ GoneInv

LEMMA InitInv == Init => IInv
<1> SUFFICES ASSUME Init PROVE IInv
  OBVIOUS
<1>1. TypeInv
  BY InitType
<1>2. MadeInv /\ BootInv /\ UnlinkedInv /\ ServerInv
  BY DEF Init, MadeInv, BootInv, UnlinkedInv, ServerInv, NoDoc, Absent, NoTask
<1>3. HandleInv /\ SavedInv /\ ParentInv
  BY DEF Init, HandleInv, SavedInv, ParentInv, Closed, NoTask, Running
<1>4. KeptInv
  BY DEF Init, KeptInv, Kept, Early, Absent, NoTask
<1>5. OthersInv /\ CreatorInv
  BY DEF Init, OthersInv, CreatorInv, Kid, Held, Handles, Closed
<1>6. WholeInv /\ GoneInv
  BY DEF Init, WholeInv, GoneInv, Kid, Handles, Closed, NoTask, NoDoc, Absent
<1> QED BY <1>1, <1>2, <1>3, <1>4, <1>5, <1>6 DEF IInv

LEMMA StutterInv == IInv /\ UNCHANGED vars => IInv'
<1> SUFFICES ASSUME IInv, UNCHANGED vars PROVE IInv'
  OBVIOUS
<1> USE DEF vars
<1>1. TypeInv'
  BY DEF IInv, TypeInv, TypeOK, UrlInv, SizeInv
<1>2. MadeInv' /\ BootInv' /\ UnlinkedInv' /\ ServerInv'
  BY DEF IInv, MadeInv, BootInv, UnlinkedInv, ServerInv
<1>3. HandleInv' /\ SavedInv' /\ ParentInv'
  BY DEF IInv, HandleInv, SavedInv, ParentInv
<1>4. KeptInv'
  BY DEF IInv, KeptInv, Kept
<1>5. OthersInv' /\ CreatorInv'
  BY DEF IInv, OthersInv, CreatorInv, Alone, Kid, Held
<1>6. WholeInv' /\ GoneInv'
  BY DEF IInv, WholeInv, GoneInv, Alone, Kid
<1> QED BY <1>1, <1>2, <1>3, <1>4, <1>5, <1>6 DEF IInv

LEMMA NextInv == IInv /\ [Next]_vars => IInv'
<1>1. IInv /\ Next => IInv'
  BY TypeStep, MadeStep, BootStep, NamesStep, SavedStep, UnlinkedStep,
     ServerStep, KeptStep, ParentStep, OthersStep, CreatorStep, WholeStep,
     GoneStep DEF IInv
<1> QED BY <1>1, StutterInv

(* What follows in every state, for all values of the constants.           *)
LEMMA Consequences ==
  IInv => /\ TypeOK /\ Kept /\ Durable /\ Recoverable /\ StoredWhole
          /\ Readable /\ AssertParent /\ DeletedGone
<1> SUFFICES ASSUME IInv PROVE /\ TypeOK /\ Kept /\ Durable /\ Recoverable
                               /\ StoredWhole /\ Readable /\ AssertParent
                               /\ DeletedGone
  OBVIOUS
<1>1. TypeOK
  BY DEF IInv, TypeInv
<1>2. Kept
  BY DEF IInv, KeptInv, Kept
<1>3. Durable
  BY <1>2 DEF IInv, WholeInv, Alone, Kept, Durable, Saved
<1>4. Recoverable
  BY <1>2 DEF IInv, WholeInv, Alone, Kept, Recoverable, Saved, Valid
<1>5. StoredWhole
  BY DEF IInv, WholeInv, Alone, StoredWhole
<1>6. Readable
  BY DEF IInv, KeptInv, Readable
<1>7. AssertParent
  BY DEF IInv, ParentInv, AssertParent
<1>8. DeletedGone
  BY DEF IInv, GoneInv, Alone, DeletedGone
<1> QED BY <1>1, <1>2, <1>3, <1>4, <1>5, <1>6, <1>7, <1>8

LEMMA Invariance == Spec => []IInv
BY InitInv, NextInv, PTL DEF Spec

(* Every variable of the upload keeps its type, however many handles and   *)
(* upload URLs there are and however often the process crashes.            *)
THEOREM UploadTyped == Spec => []TypeOK
BY Invariance, Consequences, PTL

(* A file that was released and not deleted is never lost altogether: it   *)
(* is in .released or on the server, though tasks, retries, restarts and   *)
(* any number of handles remove and rename the file (FileIO::release,      *)
(* _upload, resumeFileUploadFromUrl).                                      *)
THEOREM NeverLost == Spec => []Kept
BY Invariance, Consequences, PTL

(* Written through the creator's handle only, all of it is.                *)
THEOREM WhollyKept == Spec => []Durable
BY Invariance, Consequences, PTL

(* The next start finds a file that waits for its upload: its document has *)
(* a parent and the length validateCachedFileForUpload compares.           *)
THEOREM FoundAgain == Spec => []Recoverable
BY Invariance, Consequences, PTL

(* No retry and no resumption stores a part of a file, or another length.  *)
THEOREM NeverInPart == Spec => []StoredWhole
BY Invariance, Consequences, PTL

(* FileIO::read always has a place to read a released file from.           *)
THEOREM AlwaysReadable == Spec => []Readable
BY Invariance, Consequences, PTL

(* assert(atLeastOneParent) in getUploadUrlForFile does not fail for a     *)
(* file the server does not have, whatever unlink and the feed do between  *)
(* the two looks at the object.                                            *)
THEOREM ParentFound == Spec => []AssertParent
BY Invariance, Consequences, PTL

(* unlink leaves neither data nor a document of a file the server never    *)
(* had, though the release of its handle runs at the same time.            *)
THEOREM DeletedForGood == Spec => []DeletedGone
BY Invariance, Consequences, PTL

-----------------------------------------------------------------------------

(* The refinement.  Rename is Save; the server's last byte is Deliver;     *)
(* whatever removes .released is Discard; UnlinkStart is Delete and        *)
(* UnlinkDelete is Retract.  All the rest does not show.                   *)
LEMMA InitDelivers == Init => Promise!Init
BY DEF Init, Promise!Init

(* Who removes .released may.                                              *)
LEMMA Discards ==
  ASSUME IInv, Alone, RemoveReleased, UNCHANGED <<hist, stored>>,
         stored.len # None \/ hist.unlinked
  PROVE  [Promise!Next]_Promise!vars
<1>1. CASE rel = None
  BY <1>1 DEF RemoveReleased, Promise!vars
<1>2. CASE rel # None
  <2>1. stored.len = hist.saved \/ hist.unlinked
    BY DEF IInv, WholeInv
  <2>2. Promise!Discard
    BY <1>2, <2>1 DEF RemoveReleased, Promise!Discard
  <2> QED BY <2>2 DEF Promise!Next
<1> QED BY <1>1, <1>2
LEMMA StepDelivers ==
  ASSUME IInv, [Next]_vars, Alone'
  PROVE  [Promise!Next]_Promise!vars
<1> USE DEF IInv
<1>1. ASSUME NEW h \in Handles, HandleStep(h)
     PROVE  [Promise!Next]_Promise!vars
  <2>1. CASE Upsert(h) \/ Check(h) \/ RenameThrows(h) \/ Queue(h)
    BY <2>1 DEF Upsert, Check, RenameThrows, Queue, disk, server, Alone,
         Promise!vars, Die
  <2>2. CASE Rename(h)
    <3>1. Alone /\ h = Creator
      BY <2>2, OnlyCreator DEF Rename, Alone, TypeInv, TypeOK, HistType
    <3>2. hist.saved = None
      BY <2>2, <3>1 DEF Rename, CreatorInv, Held, Kid
    <3>3.
          /\ hist'.saved = f
          /\ hist'.unlinked = hist.unlinked
          /\ stored' = stored
          /\ rel' = f
      BY <2>2 DEF Rename, server, TypeInv, TypeOK, HistType
    <3>4. f \in Length
      BY <2>2 DEF Rename, TypeInv, TypeOK, MaybeLength
    <3>5. Promise!Save(f)
      BY <3>2, <3>3 DEF Promise!Save
    <3> QED BY <3>4, <3>5 DEF Promise!Next
  <2> QED BY <1>1, <2>1, <2>2 DEF HandleStep
<1>2. ASSUME NEW h \in Handles, HandleCall(h)
     PROVE  [Promise!Next]_Promise!vars
  <2>1. CASE Open(h) \/ WriteFails(h) \/ ReadTruncates(h) \/ Release(h)
    BY <2>1 DEF Open, WriteFails, ReadTruncates, Release, disk, server, Alone,
         Promise!vars, TypeInv, TypeOK, HistType
  <2>2. CASE Write(h)
    <3>1. Alone => h = Creator
      BY <2>2, OnlyCreator DEF Write
    <3>2. Alone /\ UNCHANGED <<rel, stored, hist>>
      BY <2>2, <3>1 DEF Write, server, Alone, CreatorInv, Kid
    <3> QED BY <3>2 DEF Promise!vars
  <2> QED BY <1>2, <2>1, <2>2 DEF HandleCall
<1>3. ASSUME NEW t \in Tasks, TaskStep(t)
     PROVE  [Promise!Next]_Promise!vars
  <2>1. CASE CheckFile(t) \/ Spin(t) \/ ReadParents(t) \/ Ask(t) \/
            AskAgain(t) \/ SaveUrl(t) \/ Put(t) \/ SendCut(t) \/
            SendRefused(t) \/ Sent(t) \/ ResumeStart(t) \/ ResumeFrom(t)
    BY <2>1 DEF CheckFile, Spin, ReadParents, Ask, AskAgain, SaveUrl, Put,
         SendCut, SendRefused, Sent, ResumeStart, ResumeFrom, disk, server, Alone,
         Promise!vars, TypeInv, TypeOK, HistType
  <2>2. CASE AskTrashed(t)
    BY <2>2, Discards DEF AskTrashed, server, Alone, UnlinkedInv
  <2>3. CASE SendOk(t)
    <3>1. Alone /\ hist'.saved = hist.saved /\ hist'.unlinked = hist.unlinked
      BY <2>3 DEF SendOk, Alone
    <3>2. stored.len = None /\ stored'.len = up[t].len /\ rel' = rel
      BY <2>3 DEF SendOk, Arrives, disk, TypeInv, TypeOK, StoredType
    <3>3. up[t].len = hist.saved /\ hist.saved # None
      BY <2>3, <3>1 DEF SendOk, Arrives, Live, WholeInv, SavedInv
    <3>4. rel = hist.saved \/ hist.unlinked
      BY <3>1, <3>2, <3>3 DEF WholeInv, KeptInv, Kept
    <3>5. Promise!Deliver
      BY <3>1, <3>2, <3>3, <3>4 DEF Promise!Deliver
    <3> QED BY <3>5 DEF Promise!Next
  <2>4. CASE SendLost(t)
    <3>1. Alone /\ hist'.saved = hist.saved /\ hist'.unlinked = hist.unlinked
      BY <2>4 DEF SendLost, Alone
    <3>2. stored.len = None /\ stored'.len = up[t].len /\ rel' = rel
      BY <2>4 DEF SendLost, Arrives, disk, TypeInv, TypeOK, StoredType
    <3>3. up[t].len = hist.saved /\ hist.saved # None
      BY <2>4, <3>1 DEF SendLost, Arrives, Live, WholeInv, SavedInv
    <3>4. rel = hist.saved \/ hist.unlinked
      BY <3>1, <3>2, <3>3 DEF WholeInv, KeptInv, Kept
    <3>5. Promise!Deliver
      BY <3>1, <3>2, <3>3, <3>4 DEF Promise!Deliver
    <3> QED BY <3>5 DEF Promise!Next
  <2>5. CASE Finish(t)
    BY <2>5, Discards DEF Finish, server, Alone, KeptInv
  <2>6. CASE ResumeNowhere(t)
    <3>1. CASE obj.uploaded
      BY <2>6, <3>1, Discards DEF ResumeNowhere, server, Alone, KeptInv
    <3>2. CASE ~obj.uploaded
      BY <2>6, <3>2 DEF ResumeNowhere, server, Promise!vars
    <3> QED BY <3>1, <3>2
  <2> QED BY <1>3, <2>1, <2>2, <2>3, <2>4, <2>5, <2>6 DEF TaskStep
<1>4. CASE Unlink
  <2>1. CASE UnlinkTrash \/ UnlinkFile \/ UnlinkParent \/ UnlinkDoc
    BY <2>1 DEF UnlinkTrash, UnlinkFile, UnlinkParent, UnlinkDoc, disk,
         server, Alone, Promise!vars
  <2>2. CASE UnlinkStart
    <3>1. Promise!Delete
      BY <2>2 DEF UnlinkStart, disk, server, Promise!Delete, TypeInv, TypeOK,
           HistType
    <3> QED BY <3>1 DEF Promise!Next
  <2>3. CASE UnlinkDelete
    <3>1. CASE stored.len = None
      BY <2>3, <3>1 DEF UnlinkDelete, disk, Promise!vars
    <3>2. CASE stored.len # None
      <4>1. Promise!Retract
        BY <2>3, <3>2 DEF UnlinkDelete, disk, UnlinkedInv, Promise!Retract
      <4> QED BY <4>1 DEF Promise!Next
    <3> QED BY <3>1, <3>2
  <2>4. CASE UnlinkReleased
    BY <2>4, Discards DEF UnlinkReleased, server, Alone, UnlinkedInv
  <2> QED BY <1>4, <2>1, <2>2, <2>3, <2>4 DEF Unlink
<1>5. CASE Load
  BY <1>5 DEF Load, LoadPending, LoadInvalid, LoadUploaded, LoadNothing,
       Insert, Link, disk, server, Alone, Promise!vars
<1>6. CASE Create
  BY <1>6 DEF Create, server, Alone, Promise!vars, HistType, TypeInv, TypeOK
<1>7. CASE FeedChange
  BY <1>7 DEF FeedChange, disk, Alone, Promise!vars, StoredType, TypeInv,
       TypeOK
<1>8. CASE FeedRemoved
  BY <1>8 DEF FeedRemoved, disk, Alone, Promise!vars, StoredType, TypeInv,
       TypeOK
<1>9. CASE Crash
  BY <1>9 DEF Crash, disk, server, Alone, Promise!vars, Die, HistType,
       TypeInv, TypeOK
<1>10. ASSUME NEW k \in Url, Forget(k)
     PROVE  [Promise!Next]_Promise!vars
  BY <1>10 DEF Forget, disk, Alone, Promise!vars
<1>11. CASE UNCHANGED vars
  BY <1>11 DEF vars, Promise!vars
<1> QED BY <1>1, <1>2, <1>3, <1>4, <1>5, <1>6, <1>7, <1>8, <1>9, <1>10,
       <1>11 DEF Next, HandleCall

(* As long as no other handle is opened, the upload of a file delivers it: *)
(* every step of every task, of the start, of the feed and of unlink is a  *)
(* step of Delivery or none.                                               *)
THEOREM AloneDelivers == Spec /\ []Alone => Delivers
<1>1. Alone /\ IInv /\ [Next]_vars /\ Alone' => [Promise!Next]_Promise!vars
  BY StepDelivers
<1> QED BY <1>1, InitDelivers, Invariance, PTL DEF Spec, Delivers, Promise!Spec

(* Where a file has one handle only, its upload implements Delivery, for   *)
(* every length, any number of upload URLs and crashes, whatever the       *)
(* server forgets and whichever replies are lost.                          *)
THEOREM UploadDelivers ==
  ASSUME Others = {}
  PROVE  Spec => Delivers
<1>1. Init => Alone
  BY DEF Init, Alone
<1>2. TypeInv /\ Alone /\ [Next]_vars => Alone'
  <2> SUFFICES ASSUME TypeInv, Alone, [Next]_vars PROVE Alone'
    OBVIOUS
  <2>1. CASE UNCHANGED vars
    BY <2>1 DEF vars, Alone
  <2>2. CASE Next
    <3>1. hist' = hist \/ \E x : hist' \in {[hist EXCEPT !.made = TRUE],
                     [hist EXCEPT !.saved = f], [hist EXCEPT !.dropped = x],
                     [hist EXCEPT !.unlinked = TRUE],
                     [hist EXCEPT !.crashes = @ + 1]}
      <4>1. ASSUME NEW h \in Handles, HandleCall(h)
            PROVE  hist' = hist
        BY <4>1 DEF HandleCall, Open, Handles, Write, WriteFails,
             ReadTruncates, Release
      <4>2. ASSUME NEW h \in Handles, HandleStep(h)
            PROVE  hist' \in {hist, [hist EXCEPT !.saved = f]}
        BY <4>2 DEF HandleStep, Upsert, Check, Rename, RenameThrows, Queue
      <4>3. ASSUME NEW t \in Tasks, TaskStep(t)
            PROVE  hist' = hist \/ \E x : hist' = [hist EXCEPT !.dropped = x]
        BY <4>3 DEF TaskStep, CheckFile, Spin, ReadParents, AskTrashed, Ask,
             AskAgain, SaveUrl, Put, SendOk, SendLost, SendCut, SendRefused, Sent,
             Finish, ResumeStart, ResumeFrom, ResumeNowhere
      <4>4. CASE Unlink
        BY <4>4 DEF Unlink, UnlinkStart, UnlinkDelete, UnlinkTrash, UnlinkFile,
             UnlinkReleased, UnlinkParent, UnlinkDoc
      <4>5. CASE Load
        BY <4>5 DEF Load, LoadPending, LoadInvalid, LoadUploaded, LoadNothing,
             Insert, Link
      <4>6. CASE Create \/ Crash \/ FeedChange \/ FeedRemoved
        BY <4>6 DEF Create, Crash, FeedChange, FeedRemoved
      <4>7. ASSUME NEW k \in Url, Forget(k)
            PROVE  hist' = hist
        BY <4>7 DEF Forget
      <4> QED BY <2>2, <4>1, <4>2, <4>3, <4>4, <4>5, <4>6, <4>7 DEF Next,
           HandleCall
    <3> QED BY <3>1 DEF Alone, TypeInv, TypeOK, HistType
  <2> QED BY <2>1, <2>2
<1>3. Spec => []TypeInv
  BY Invariance, PTL DEF IInv
<1> QED BY <1>1, <1>2, <1>3, AloneDelivers, PTL DEF Spec
=============================================================================
