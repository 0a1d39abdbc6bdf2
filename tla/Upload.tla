------------------------------- MODULE Upload -------------------------------
(***************************************************************************)
(* The life of one new file, from create to its place in the cloud:        *)
(* Filesystem's create, write_buf, release and unlink, FileIO's open,      *)
(* release, upload, _upload and resumeFileUploadFromUrl, Account's         *)
(* getUploadUrlForFile, upload, getResumableUploadPoint and                *)
(* upsertFileToDatabase, and what loadFilesAndFolders does about an        *)
(* interrupted upload after a restart.                                     *)
(*                                                                         *)
(* The data is a length: the file is written a unit at a time and every    *)
(* copy of it is a prefix of what was written.  The uploads of different   *)
(* files share nothing but the pool's threads.                             *)
(***************************************************************************)
EXTENDS Integers, FiniteSets

CONSTANTS
  Creator,        \* the handle create() returns
  Others,         \* handles opened later on the same file, for writing
  Boot,           \* the upload task that a restart queues
  ReadWrite,      \* the later handles are O_RDWR and are read from
  MaxLen,         \* bound: units written to the file
  Sessions,       \* bound: upload URLs the server hands out
  MaxCrashes,     \* bound: crashes of the process
  Unlinks,        \* the user may delete the file
  Faulty          \* bound: the URLs the server may forget, and whose replies
                  \* may be lost or be errors

None == -1        \* no such file, no such upload URL

Handles == {Creator} \cup Others
Tasks   == Handles \cup {Boot}
Url     == 1 .. Sessions

ASSUME UploadAssumption ==
  /\ Creator \notin Others /\ Boot \notin Handles
  /\ MaxLen \in Nat \ {0} /\ Sessions \in Nat /\ MaxCrashes \in Nat
  /\ {ReadWrite, Unlinks} \subseteq BOOLEAN /\ Faulty \subseteq Url

VARIABLES
  f,       \* <cache>/upload/<id>: a length, or None
  rel,     \* <cache>/upload/<id>.released
  doc,     \* the file's document in the database
  stored,  \* the file on the server; deleted there; told to the change feed
  ses,     \* the server's side of each upload URL
  obj,     \* the _Object of the running process
  hd,      \* the FileIO of each open handle
  up,      \* the upload tasks
  un,      \* unlink, where it is
  boot,    \* loadFilesAndFolders, where it is
  hist     \* what the user did; the number of crashes

disk   == <<f, rel>>
server == <<stored, ses>>
vars   == <<f, rel, doc, stored, ses, obj, hd, up, un, boot, hist>>

NoDoc  == [size |-> None, linked |-> FALSE, trashed |-> FALSE,
           url |-> None, md5 |-> FALSE]
Absent == [inMap |-> FALSE, trashed |-> FALSE, uploaded |-> FALSE,
           size |-> 0, linked |-> FALSE]
Closed == [pc |-> "none", fd |-> "none", needs |-> FALSE]
NoTask == [pc |-> "none", url |-> None, from |-> 0, len |-> 0, linked |-> FALSE]

Init ==
  /\ f = None /\ rel = None /\ doc = NoDoc
  /\ stored = [len |-> None, deleted |-> FALSE, told |-> FALSE]
  /\ ses = [k \in Url |-> [st |-> "none", got |-> 0]]
  /\ obj = Absent
  /\ hd = [h \in Handles |-> Closed]
  /\ up = [t \in Tasks |-> NoTask]
  /\ un = "none"
  /\ boot = "up"
  /\ hist = [made |-> FALSE, saved |-> None, unlinked |-> FALSE,
             reopened |-> FALSE, crashes |-> 0, dropped |-> FALSE]

(* What dies with the process.                                             *)
Die == /\ obj' = Absent
       /\ hd' = [h \in Handles |-> Closed]
       /\ up' = [t \in Tasks |-> NoTask]
       /\ un' = "none"
       /\ boot' = "load"

Max2(a, b) == IF a > b THEN a ELSE b

-----------------------------------------------------------------------------
(* Handles.  fd says which file the descriptor is on: f, .released, or one *)
(* that has no name any more.                                              *)

Move(from, to) == [h \in Handles |-> IF hd[h].fd = from
                                     THEN [hd[h] EXCEPT !.fd = to] ELSE hd[h]]

(* .released is removed; who has it open keeps a file without a name.      *)
RemoveReleased == rel' = None /\ hd' = Move("rel", "gone")

Create ==
  /\ ~hist.made /\ boot = "up"
  /\ hist' = [hist EXCEPT !.made = TRUE]
  /\ obj' = [Absent EXCEPT !.inMap = TRUE, !.linked = TRUE]
  /\ f' = 0
  /\ hd' = [hd EXCEPT ![Creator] = [pc |-> "open", fd |-> "f", needs |-> FALSE]]
  /\ UNCHANGED <<rel, doc, server, up, un, boot>>

(* Filesystem::open makes a FileIO but does not open the file.             *)
Open(h) ==
  /\ hd[h].pc = "none" /\ h # Creator /\ boot = "up"
  /\ obj.inMap /\ obj.linked /\ ~obj.trashed /\ ~hist.unlinked
  /\ hd' = [hd EXCEPT ![h].pc = "open"]
  /\ hist' = [hist EXCEPT !.reopened = TRUE]
  /\ UNCHANGED <<disk, doc, server, obj, up, un, boot>>

(* write_buf, appending; the descriptor may follow a rename.               *)
Write(h) ==
  /\ hd[h].pc = "open" /\ hd[h].fd # "none"
  /\ hd' = [hd EXCEPT ![h].needs = TRUE]
  /\ \/ /\ hd[h].fd = "f" /\ f < MaxLen
        /\ f' = f + 1 /\ obj' = [obj EXCEPT !.size = Max2(@, f + 1)]
        /\ UNCHANGED rel
     \/ /\ hd[h].fd = "rel" /\ rel < MaxLen
        /\ rel' = rel + 1 /\ obj' = [obj EXCEPT !.size = Max2(@, rel + 1)]
        /\ UNCHANGED f
     \/ /\ hd[h].fd = "gone" /\ ~hd[h].needs
        /\ UNCHANGED <<f, rel, obj>>
  /\ UNCHANGED <<doc, server, up, un, boot, hist>>

(* write_buf with m_fd = -1: EBADF, but the flag is set first.             *)
WriteFails(h) ==
  /\ hd[h].pc = "open" /\ hd[h].fd = "none" /\ ~hd[h].needs
  /\ hd' = [hd EXCEPT ![h].needs = TRUE]
  /\ UNCHANGED <<disk, doc, server, obj, up, un, boot, hist>>

(* FileIO::read of a file not uploaded yet opens it as its flags say; an   *)
(* O_RDWR handle truncates it.                                             *)
ReadTruncates(h) ==
  /\ ReadWrite /\ hd[h].pc = "open" /\ hd[h].fd = "none" /\ ~obj.uploaded
  /\ obj' = [obj EXCEPT !.size = 0]
  /\ f' = 0
  /\ hd' = [hd EXCEPT ![h].fd = "f"]
  /\ UNCHANGED <<rel, doc, server, up, un, boot, hist>>

(* FileIO::release: fclose, then, if something was to be written ...       *)
Release(h) ==
  /\ hd[h].pc = "open"
  /\ hd' = [hd EXCEPT ![h].fd = "none",
                      ![h].pc = IF hd[h].needs THEN "upsert" ELSE "dead"]
  /\ UNCHANGED <<disk, doc, server, obj, up, un, boot, hist>>

(* Variant: rename first, then tell the database.                          *)
UpsertLate(h) ==
  /\ hd[h].pc = "upsert"
  /\ hd' = [hd EXCEPT ![h].pc = "check"]
  /\ UNCHANGED <<disk, doc, server, obj, up, un, boot, hist>>

(* ... upsertFileToDatabase, under the object's m_event ...                *)
Upsert(h) ==
  /\ hd[h].pc = "upsert"
  /\ doc' = [doc EXCEPT !.size = obj.size, !.linked = obj.linked,
                        !.trashed = obj.trashed]
  /\ hd' = [hd EXCEPT ![h].pc = "check"]
  /\ UNCHANGED <<disk, server, obj, up, un, boot, hist>>

Check(h) ==
  /\ hd[h].pc = "check"
  /\ hd' = [hd EXCEPT ![h].pc = IF f # None THEN "rename" ELSE "dead"]
  /\ UNCHANGED <<disk, doc, server, obj, up, un, boot, hist>>

(* ... and the rename; it throws if unlink was faster, and the exception   *)
(* leaves a FUSE callback: the process ends.                               *)
Rename(h) ==
  /\ hd[h].pc = "rename" /\ f # None
  /\ rel' = f /\ f' = None
  /\ hist' = [hist EXCEPT !.saved = f]
  /\ hd' = [j \in Handles |->
              IF j = h THEN [hd[h] EXCEPT !.pc = "queue"]
              ELSE IF hd[j].fd = "f" THEN [hd[j] EXCEPT !.fd = "rel"]
              ELSE IF hd[j].fd = "rel" THEN [hd[j] EXCEPT !.fd = "gone"]
              ELSE hd[j]]
  /\ UNCHANGED <<doc, server, obj, up, un, boot>>

RenameThrows(h) ==
  /\ hd[h].pc = "rename" /\ f = None
  /\ Die
  /\ UNCHANGED <<disk, doc, server, hist>>

(* io->upload(true), unless the inode is unknown by now.                   *)
Queue(h) ==
  /\ hd[h].pc = "queue"
  /\ hd' = [hd EXCEPT ![h].pc = "dead"]
  /\ up' = IF obj.inMap THEN [up EXCEPT ![h].pc = "queued"] ELSE up
  /\ UNCHANGED <<disk, doc, server, obj, un, boot, hist>>

-----------------------------------------------------------------------------
(* One upload task on an UploadPool thread.                                *)

Go(t, pc) == up' = [up EXCEPT ![t].pc = pc]

(* checkFileExists, then sleep(3).  A task that a restart queued may be    *)
(* faster than the restart, and not find its file.                         *)
CheckFile(t) ==
  /\ up[t].pc = "queued"
  /\ Go(t, IF obj.trashed \/ ~obj.inMap THEN "dead" ELSE "slept")
  /\ hist' = [hist EXCEPT !.dropped = @ \/ (boot = "insert" /\ ~obj.inMap)]
  /\ UNCHANGED <<disk, doc, server, obj, hd, un, boot>>

(* Variant: a deleted file is waited for too.                              *)
SpinForever(t) ==
  /\ up[t].pc = "slept"
  /\ obj.linked \/ obj.uploaded
  /\ Go(t, IF obj.trashed \/ obj.uploaded THEN "dead" ELSE "post")
  /\ UNCHANGED <<disk, doc, server, obj, hd, un, boot, hist>>

(* The spin until the file has a parent, is trashed, or is uploaded.       *)
Spin(t) ==
  /\ up[t].pc = "slept"
  /\ obj.linked \/ obj.trashed \/ obj.uploaded
  /\ Go(t, IF obj.trashed \/ obj.uploaded THEN "dead" ELSE "post")
  /\ UNCHANGED <<disk, doc, server, obj, hd, un, boot, hist>>

(* getUploadUrlForFile: the parents, then the trashed flag and the assert, *)
(* then the POST.                                                          *)
ReadParents(t) ==
  /\ up[t].pc = "post"
  /\ up' = [up EXCEPT ![t].pc = "ask", ![t].linked = obj.linked]
  /\ UNCHANGED <<disk, doc, server, obj, hd, un, boot, hist>>

AskTrashed(t) ==
  /\ up[t].pc = "ask" /\ obj.trashed
  /\ RemoveReleased
  /\ Go(t, "dead")
  /\ UNCHANGED <<f, doc, server, obj, un, boot, hist>>

(* A POST for an id the server has is refused (409) and tried again.       *)
Ask(t) ==
  /\ up[t].pc = "ask" /\ ~obj.trashed
  /\ stored.len = None
  /\ \E k \in Url :
       /\ ses[k].st = "none" /\ \A j \in 1 .. (k - 1) : ses[j].st # "none"
       /\ ses' = [ses EXCEPT ![k].st = "open"]
       /\ up' = [up EXCEPT ![t].pc = "url", ![t].url = k]
  /\ UNCHANGED <<disk, doc, stored, obj, hd, un, boot, hist>>

AskAgain(t) ==
  /\ up[t].pc = "ask" /\ ~obj.trashed
  /\ \/ stored.len # None /\ UNCHANGED ses
     \/ /\ stored.len = None
        /\ \E k \in Faulty :
             /\ ses[k].st = "none" /\ \A j \in 1 .. (k - 1) : ses[j].st # "none"
             /\ ses' = [ses EXCEPT ![k].st = "open"]
  /\ Go(t, "post")
  /\ UNCHANGED <<disk, doc, stored, obj, hd, un, boot, hist>>

(* update_one is no upsert: a document that is gone stays gone.            *)
SaveUrl(t) ==
  /\ up[t].pc = "url"
  /\ doc' = IF doc = NoDoc THEN doc ELSE [doc EXCEPT !.url = up[t].url]
  /\ up' = [up EXCEPT ![t].pc = "put", ![t].from = 0]
  /\ UNCHANGED <<disk, server, obj, hd, un, boot, hist>>

(* Variant: the length is counted from one.                                *)
PutOneMore(t) ==
  /\ up[t].pc = "put"
  /\ IF rel = None
     THEN Go(t, "finish")
     ELSE up' = [up EXCEPT ![t].pc = "send", ![t].len = obj.size + 1]
  /\ UNCHANGED <<disk, doc, server, obj, hd, un, boot, hist>>

(* Variant: the file is out of the upload cache when it is sent.           *)
PutMoves(t) ==
  /\ up[t].pc = "put"
  /\ RemoveReleased
  /\ IF rel = None
     THEN Go(t, "finish")
     ELSE up' = [up EXCEPT ![t].pc = "send", ![t].len = obj.size]
  /\ UNCHANGED <<f, doc, server, obj, un, boot, hist>>

(* Account::upload: a file that is gone counts as uploaded.                *)
Put(t) ==
  /\ up[t].pc = "put"
  /\ IF rel = None
     THEN Go(t, "finish")
     ELSE up' = [up EXCEPT ![t].pc = "send", ![t].len = obj.size]
  /\ UNCHANGED <<disk, doc, server, obj, hd, un, boot, hist>>

(* The server takes the bytes that follow those it has.                    *)
Live(t) == /\ up[t].pc = "send" /\ ses[up[t].url].st = "open"
           /\ ses[up[t].url].got = up[t].from

(* The stream of the file ends before Content-Length bytes were sent.      *)
Short(t) == rel # None /\ rel < up[t].len

Arrives(t) ==
  /\ Live(t) /\ stored.len = None /\ ~Short(t)
  /\ ses' = [ses EXCEPT ![up[t].url] = [st |-> "done", got |-> up[t].len]]
  /\ stored' = [stored EXCEPT !.len = up[t].len, !.told = FALSE]

(* Variant: the bytes that arrived are counted as the whole.               *)
SendOkShort(t) ==
  /\ Live(t) /\ stored.len = None
  /\ \E n \in up[t].from .. up[t].len :
       stored' = [stored EXCEPT !.len = n, !.told = FALSE]
  /\ ses' = [ses EXCEPT ![up[t].url].st = "done"]
  /\ Go(t, "sent")
  /\ UNCHANGED <<disk, doc, obj, hd, un, boot, hist>>

SendOk(t) ==
  /\ Arrives(t) /\ Go(t, "sent")
  /\ UNCHANGED <<disk, doc, obj, hd, un, boot, hist>>

(* The connection breaks after the last byte, or after some of them; or    *)
(* the server refuses.                                                     *)
SendLost(t) ==
  /\ up[t].url \in Faulty /\ Arrives(t) /\ Go(t, "resume")
  /\ UNCHANGED <<disk, doc, obj, hd, un, boot, hist>>

SendCut(t) ==
  /\ Live(t)
  /\ \E n \in up[t].from .. (up[t].len - 1) :
       ses' = [ses EXCEPT ![up[t].url].got = n]
  /\ Go(t, "resume")
  /\ UNCHANGED <<disk, doc, stored, obj, hd, un, boot, hist>>

SendRefused(t) ==
  /\ up[t].pc = "send" /\ (~Live(t) \/ stored.len # None \/ Short(t))
  /\ Go(t, "resume")
  /\ UNCHANGED <<disk, doc, server, obj, hd, un, boot, hist>>

(* Variant: the file is removed before the object is marked uploaded.      *)
SentForgets(t) ==
  /\ up[t].pc = "sent"
  /\ Go(t, "finish")
  /\ UNCHANGED <<disk, doc, server, obj, hd, un, boot, hist>>

(* setIsUploaded on the object found by id.                                *)
Sent(t) ==
  /\ up[t].pc = "sent"
  /\ obj' = IF obj.inMap THEN [obj EXCEPT !.uploaded = TRUE] ELSE obj
  /\ Go(t, "finish")
  /\ UNCHANGED <<disk, doc, server, hd, un, boot, hist>>

(* move_files_to_download_after_finish_uploading, then fs::remove.         *)
Finish(t) ==
  /\ up[t].pc = "finish"
  /\ RemoveReleased
  /\ Go(t, "dead")
  /\ UNCHANGED <<f, doc, server, obj, un, boot, hist>>

(* The async resume after a restart spins for a parent.                    *)
ResumeStart(t) ==
  /\ up[t].pc = "parked" /\ obj.linked
  /\ Go(t, "resume")
  /\ UNCHANGED <<disk, doc, server, obj, hd, un, boot, hist>>

(* Variant: the last byte the server has, instead of the next one.         *)
ResumeFromLast(t) ==
  /\ up[t].pc = "resume" /\ ses[up[t].url].st = "open"
  /\ up' = [up EXCEPT ![t].pc = "put",
                      ![t].from = Max2(0, ses[up[t].url].got - 1)]
  /\ UNCHANGED <<disk, doc, server, obj, hd, un, boot, hist>>

(* getResumableUploadPoint: 308 says how much the server has.              *)
ResumeFrom(t) ==
  /\ up[t].pc = "resume" /\ ses[up[t].url].st = "open"
  /\ up' = [up EXCEPT ![t].pc = "put", ![t].from = ses[up[t].url].got]
  /\ UNCHANGED <<disk, doc, server, obj, hd, un, boot, hist>>

(* Variant: no start point, and nothing is left to do.                     *)
ResumeGivesUp(t) ==
  /\ up[t].pc = "resume" /\ (up[t].url \in Faulty \/ ses[up[t].url].st # "open")
  /\ RemoveReleased /\ Go(t, "dead")
  /\ UNCHANGED <<f, doc, server, obj, un, boot, hist>>

(* No start point (404, 400, 200, too many errors): done if the object was *)
(* marked uploaded meanwhile, otherwise from the beginning.                *)
ResumeNowhere(t) ==
  /\ up[t].pc = "resume" /\ (up[t].url \in Faulty \/ ses[up[t].url].st # "open")
  /\ IF obj.uploaded THEN RemoveReleased /\ Go(t, "dead")
                     ELSE UNCHANGED <<rel, hd>> /\ Go(t, "post")
  /\ UNCHANGED <<f, doc, server, obj, un, boot, hist>>

-----------------------------------------------------------------------------
(* Filesystem::unlink.                                                     *)

Un(pc) == un' = pc

UnlinkStart ==
  /\ Unlinks /\ un = "none" /\ boot = "up" /\ ~hist.unlinked
  /\ obj.inMap /\ obj.linked /\ ~obj.trashed
  /\ hist' = [hist EXCEPT !.unlinked = TRUE]
  /\ Un(IF obj.uploaded THEN "delete" ELSE "trash")
  /\ UNCHANGED <<disk, doc, server, obj, hd, up, boot>>

(* account->trash, then child->trash: no file is removed.                  *)
UnlinkDelete ==
  /\ un = "delete"
  /\ stored' = IF stored.len = None THEN stored
               ELSE [len |-> None, deleted |-> TRUE, told |-> FALSE]
  /\ \E kept \in BOOLEAN :
       obj' = [obj EXCEPT !.trashed = TRUE, !.inMap = kept]
  /\ Un("done")
  /\ UNCHANGED <<disk, doc, ses, hd, up, boot, hist>>

(* Variant: the parent goes before the trashed flag is set.                *)
UnlinkTrashLate ==
  /\ un = "trash"
  /\ \E kept \in BOOLEAN :
       obj' = [obj EXCEPT !.linked = FALSE, !.inMap = kept]
  /\ Un("file")
  /\ UNCHANGED <<disk, doc, server, hd, up, boot, hist>>

(* child->trash(): out of the maps unless the kernel still knows it, then  *)
(* trashed, then deleteFileFromUploadCache.                                *)
UnlinkTrash ==
  /\ un = "trash"
  /\ \E kept \in BOOLEAN :
       obj' = [obj EXCEPT !.trashed = TRUE, !.inMap = kept]
  /\ Un("file")
  /\ UNCHANGED <<disk, doc, server, hd, up, boot, hist>>

UnlinkFile ==
  /\ un = "file"
  /\ IF obj.uploaded
     THEN Un("parent") /\ UNCHANGED <<f, hd>>
     ELSE f' = None /\ hd' = Move("f", "gone") /\ Un("released")
  /\ UNCHANGED <<rel, doc, server, obj, up, boot, hist>>

(* Variant: only the unfinished file is removed.                           *)
UnlinkReleasedNot ==
  /\ un = "released" /\ Un("parent")
  /\ UNCHANGED <<disk, doc, server, obj, hd, up, boot, hist>>

UnlinkReleased ==
  /\ un = "released"
  /\ RemoveReleased /\ Un("parent")
  /\ UNCHANGED <<f, doc, server, obj, up, boot, hist>>

UnlinkParent ==
  /\ un = "parent"
  /\ obj' = [obj EXCEPT !.linked = FALSE]
  /\ Un("doc")
  /\ UNCHANGED <<disk, doc, server, hd, up, boot, hist>>

(* The document goes, or follows the object when the feed has given the    *)
(* object a parent again.                                                  *)
UnlinkDoc ==
  /\ un = "doc" /\ Un("done")
  /\ doc' = IF obj.linked
            THEN [doc EXCEPT !.size = obj.size, !.linked = TRUE,
                             !.trashed = obj.trashed]
            ELSE NoDoc
  /\ UNCHANGED <<disk, server, obj, hd, up, boot, hist>>

Unlink == \/ UnlinkStart \/ UnlinkDelete \/ UnlinkTrash \/ UnlinkFile
          \/ UnlinkReleased \/ UnlinkParent \/ UnlinkDoc

-----------------------------------------------------------------------------
(* The change feed and the server.                                         *)

(* No thread has the object in hand.                                       *)
Unused == /\ un \in {"none", "done"}
          /\ \A h \in Handles : hd[h].pc \in {"none", "dead"}
          /\ \A t \in Tasks : up[t].pc \in {"none", "dead"}

(* A change for the file: bulk_write, updateInode, addParent; or an object *)
(* is made, while no thread still has one that left the maps.              *)
FeedChange ==
  /\ boot = "up" /\ stored.len # None /\ ~stored.told
  /\ stored' = [stored EXCEPT !.told = TRUE]
  /\ doc' = [doc EXCEPT !.size = stored.len, !.linked = TRUE,
                        !.trashed = FALSE, !.md5 = TRUE]
  /\ obj' = IF obj.inMap
            THEN [obj EXCEPT !.trashed = FALSE, !.uploaded = TRUE,
                             !.size = stored.len, !.linked = TRUE]
            ELSE IF Unused
            THEN [inMap |-> TRUE, trashed |-> FALSE, uploaded |-> TRUE,
                  size |-> stored.len, linked |-> TRUE]
            ELSE obj
  /\ UNCHANGED <<disk, ses, hd, up, un, boot, hist>>

(* The change that says the file is gone.                                  *)
FeedRemoved ==
  /\ boot = "up" /\ stored.deleted /\ stored.len = None /\ ~stored.told
  /\ stored' = [stored EXCEPT !.told = TRUE]
  /\ doc' = NoDoc
  /\ obj' = IF obj.inMap THEN [obj EXCEPT !.trashed = TRUE] ELSE obj
  /\ UNCHANGED <<disk, ses, hd, up, un, boot, hist>>

Forget(k) ==
  /\ k \in Faulty /\ ses[k].st = "open"
  /\ ses' = [ses EXCEPT ![k].st = "gone"]
  /\ UNCHANGED <<disk, doc, stored, obj, hd, up, un, boot, hist>>

-----------------------------------------------------------------------------
(* Crash and restart: loadFilesAndFolders.                                 *)

Crash ==
  /\ hist.crashes < MaxCrashes
  /\ hist' = [hist EXCEPT !.crashes = @ + 1]
  /\ Die
  /\ UNCHANGED <<disk, doc, server>>

Uploaded == doc.md5 \/ doc.size = 0
Valid    == rel # None /\ rel = doc.size

(* A file that is not uploaded: validateCachedFileForUpload, then queue    *)
(* the upload before the object is in the maps.                            *)
LoadPending ==
  /\ boot = "load" /\ doc.linked /\ ~doc.trashed /\ ~Uploaded /\ Valid
  /\ obj' = [Absent EXCEPT !.size = doc.size]
  /\ up' = [up EXCEPT ![Boot] =
              IF doc.url # None
              THEN [NoTask EXCEPT !.pc = "parked", !.url = doc.url]
              ELSE [NoTask EXCEPT !.pc = "queued"]]
  /\ boot' = "insert"
  /\ UNCHANGED <<disk, doc, server, hd, un, hist>>

LoadInvalid ==
  /\ boot = "load" /\ doc.linked /\ ~doc.trashed /\ ~Uploaded /\ ~Valid
  /\ f' = None
  /\ boot' = "up"
  /\ UNCHANGED <<rel, doc, server, obj, hd, up, un, hist>>

LoadUploaded ==
  /\ boot = "load" /\ doc.linked /\ ~doc.trashed /\ Uploaded
  /\ obj' = [Absent EXCEPT !.size = doc.size, !.uploaded = TRUE]
  /\ boot' = "insert"
  /\ UNCHANGED <<disk, doc, server, hd, up, un, hist>>

LoadNothing ==
  /\ boot = "load" /\ (~doc.linked \/ doc.trashed)
  /\ boot' = "up"
  /\ UNCHANGED <<disk, doc, server, obj, hd, up, un, hist>>

Insert ==
  /\ boot = "insert"
  /\ obj' = [obj EXCEPT !.inMap = TRUE]
  /\ boot' = "link"
  /\ UNCHANGED <<disk, doc, server, hd, up, un, hist>>

(* linkParentsAndChildren                                                  *)
Link ==
  /\ boot = "link"
  /\ obj' = [obj EXCEPT !.linked = TRUE]
  /\ boot' = "up"
  /\ UNCHANGED <<disk, doc, server, hd, up, un, hist>>

Load == \/ LoadPending \/ LoadInvalid \/ LoadUploaded \/ LoadNothing
        \/ Insert \/ Link

HandleStep(h) == \/ Upsert(h) \/ Check(h) \/ Rename(h) \/ RenameThrows(h)
                 \/ Queue(h)

TaskStep(t) ==
  \/ CheckFile(t) \/ Spin(t) \/ ReadParents(t) \/ AskTrashed(t) \/ Ask(t)
  \/ AskAgain(t) \/ SaveUrl(t) \/ Put(t) \/ SendOk(t) \/ SendLost(t)
  \/ SendCut(t) \/ SendRefused(t) \/ Sent(t) \/ Finish(t) \/ ResumeStart(t)
  \/ ResumeFrom(t) \/ ResumeNowhere(t)

Next ==
  \/ Create
  \/ \E h \in Handles : \/ Open(h) \/ Write(h) \/ WriteFails(h)
                         \/ ReadTruncates(h) \/ Release(h) \/ HandleStep(h)
  \/ \E t \in Tasks : TaskStep(t)
  \/ Unlink
  \/ FeedChange \/ FeedRemoved
  \/ \E k \in Url : Forget(k)
  \/ Crash \/ Load

Spec == Init /\ [][Next]_vars

(* The FUSE thread in release, the pool's threads and the start-up thread  *)
(* run; the server is not for ever unreachable: a request that is sent     *)
(* again and again arrives in the end.                                     *)
Fairness ==
  /\ \A h \in Handles : WF_vars(HandleStep(h))
  /\ \A t \in Tasks : WF_vars(TaskStep(t)) /\ SF_vars(SendOk(t)) /\ SF_vars(Ask(t))
  /\ WF_vars(Load)

FairSpec == Spec /\ Fairness
-----------------------------------------------------------------------------
(* Properties.                                                             *)

Length == 0 .. MaxLen
MaybeLength == Length \cup {None}

DocType == [size : MaybeLength, linked : BOOLEAN, trashed : BOOLEAN,
            url : Url \cup {None}, md5 : BOOLEAN]
StoredType == [len : MaybeLength, deleted : BOOLEAN, told : BOOLEAN]
SessionType == [st : {"none", "open", "done", "gone"}, got : Length]
ObjType == [inMap : BOOLEAN, trashed : BOOLEAN, uploaded : BOOLEAN,
            size : Length, linked : BOOLEAN]
HandleType ==
  [pc : {"none", "open", "upsert", "check", "rename", "queue", "dead"},
   fd : {"none", "f", "rel", "gone"}, needs : BOOLEAN]
TaskType ==
  [pc : {"none", "queued", "slept", "post", "ask", "url", "put", "send",
         "sent", "finish", "parked", "resume", "dead"},
   url : Url \cup {None}, from : Length, len : Length, linked : BOOLEAN]
HistType == [made : BOOLEAN, saved : MaybeLength, unlinked : BOOLEAN,
             reopened : BOOLEAN, crashes : 0 .. MaxCrashes, dropped : BOOLEAN]

(* Every variable has its type; no file grows past what was written.       *)
TypeOK ==
  /\ f \in MaybeLength /\ rel \in MaybeLength
  /\ doc \in DocType /\ stored \in StoredType
  /\ ses \in [Url -> SessionType]
  /\ obj \in ObjType
  /\ hd \in [Handles -> HandleType] /\ up \in [Tasks -> TaskType]
  /\ un \in {"none", "delete", "trash", "file", "released", "parent", "doc", "done"}
  /\ boot \in {"up", "load", "insert", "link"}
  /\ hist \in HistType

(* Released, not deleted, and written through the creator's handle only.   *)
Saved == hist.saved # None /\ ~hist.unlinked /\ ~hist.reopened

(* Once release has renamed the file, its whole content is on disk or on   *)
(* the server until the user deletes it, whatever crashes and whatever     *)
(* the server forgets (FileIO::release, _upload, resumeFileUploadFromUrl). *)
Durable == Saved => hist.saved \in {rel, stored.len}

(* A file waiting for its upload is found by the next start: its document  *)
(* is there, with a parent and the size validateCachedFileForUpload wants. *)
Recoverable ==
  Saved /\ stored.len = None =>
    doc.linked /\ ~doc.trashed /\ Valid

(* What the server stores is the whole file.                               *)
StoredWhole == stored.len # None /\ ~hist.reopened => stored.len = hist.saved

(* However many handles are written to and read from, what was released is *)
(* never lost altogether: some of it is on disk or on the server.          *)
Kept == hist.saved # None /\ ~hist.unlinked => rel # None \/ stored.len # None

(* A released file can be read all the time: from .released, or from the   *)
(* cloud once it is marked uploaded (FileIO::read tries nothing else).     *)
Readable ==
  hist.saved # None /\ ~hist.unlinked /\ obj.inMap => rel # None \/ obj.uploaded

(* assert(atLeastOneParent) in getUploadUrlForFile: the parents are read    *)
(* before the trashed flag, and unlink and the feed change both.  (Not for  *)
(* a file the server has: its request is refused and repeated, and the feed *)
(* may clear the flag of a file that is being deleted.)                     *)
AssertParent ==
  \A t \in Tasks : up[t].pc = "ask" /\ stored.len = None =>
    up[t].linked \/ obj.trashed

(* A file deleted before it was uploaded leaves nothing behind: no data in *)
(* the upload cache and no document that the next start would load.  The   *)
(* release of its handle may run at the same time as unlink.               *)
DeletedGone ==
  un = "done" /\ ~hist.reopened /\ stored.len = None /\ ~stored.deleted =>
    rel = None /\ (doc.linked => doc.trashed)

(* The upload of a file whose other handles stay closed is a delivery: a   *)
(* released file stays as it is through every retry, crash and restart, it *)
(* is whole on the server before the client lets go of it, and only a      *)
(* deletion takes it from there (_upload, resumeFileUploadFromUrl,         *)
(* loadFilesAndFolders, unlink).                                           *)
Promise == INSTANCE Delivery WITH
  Content <- Length, saved <- hist.saved, local <- rel,
  remote <- stored.len, deleted <- hist.unlinked

Delivers == Promise!Spec

(* Every file released is stored in the end, unless it is deleted, across  *)
(* crashes too - but not if the task that a restart queues runs before its *)
(* file is in the maps.                                                    *)
UploadEnds ==
  (hist.saved # None) ~> (stored.len # None \/ hist.unlinked \/ hist.dropped)

(* Tasks that do not end: after a restart, the wait for the parent of a    *)
(* file that is deleted before it has one; the request of a URL for an id  *)
(* the server has a file of.                                               *)
Endless(t) == \/ up[t].pc = "parked" /\ hist.unlinked
              \/ up[t].pc = "ask" /\ stored.len # None

(* Every other upload task leaves its pool thread to the next one.         *)
TaskEnds == \A t \in Tasks :
  (up[t].pc # "none") ~> (up[t].pc \in {"none", "dead"} \/ Endless(t))
=============================================================================
