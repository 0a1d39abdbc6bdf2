----------------------------- MODULE ChangeFeed -----------------------------
(***************************************************************************)
(* How the local copy of the drive follows the cloud: Account's first      *)
(* listing (getFilesAndFolders, parseFilesAndFolders), the change token    *)
(* in the settings, loadFilesAndFolders, and background_update page by     *)
(* page, for the user's own drive.                                         *)
(*                                                                         *)
(* The server numbers its changes; a change is a new version of one file,  *)
(* its removal included, and a version is the number of the change that    *)
(* made it.  A page token is the number of the last change seen.  (One     *)
(* thing is lost by this: a file removed between two first listings keeps  *)
(* the document of the first; here the second would list its removal.)     *)
(***************************************************************************)
EXTENDS Integers, Sequences, FiniteSets, FiniteSetsExt

CONSTANTS
  Ids,         \* files
  PageSize,    \* changes in a page
  MaxChanges,  \* bound: changes on the server
  MaxCrashes,  \* bound: crashes of the process
  Throws       \* a step of a page may throw

None == -1

ASSUME ChangeFeedAssumption ==
  /\ PageSize \in Nat \ {0} /\ MaxChanges \in Nat /\ MaxCrashes \in Nat
  /\ Throws \in BOOLEAN

VARIABLES
  log,    \* the server: the file of each change
  db,     \* GDriveData: the version of each file
  saved,  \* settings: the token, or None
  mem,    \* the _Objects: the version of each file
  token,  \* m_newStartPageToken: of the key "", which background_update
          \* reads, and of the key "root"
  feed,   \* the thread: where it is, the page it has, what it has done of it
  first,  \* the first listing: files to come; listed and not parsed
  hist    \* crashes; started with a token; was a page or a listing lost

vars == <<log, db, saved, mem, token, feed, first, hist>>

Version(id, n) == Max({0} \cup {k \in 1 .. n : log[k] = id})
Latest(id)     == Version(id, Len(log))

Zero    == [id \in Ids |-> 0]
NoToken == [own |-> None, root |-> None]
NoPage(pc) == [pc |-> pc, todo |-> {}, docs |-> {}]
Listing == [left |-> Ids, queue |-> {}]

Init ==
  /\ log = <<>> /\ db = Zero /\ saved = None /\ mem = Zero
  /\ token = NoToken /\ feed = NoPage("list") /\ first = Listing
  /\ hist = [crashes |-> 0, again |-> FALSE, lost |-> FALSE]

(* Documents, each a file and a version, put over what is there.           *)
Put(map, docs) ==
  [id \in Ids |-> IF \E d \in docs : d.id = id
                  THEN (CHOOSE d \in docs : d.id = id).ver ELSE map[id]]

Change(id) ==
  /\ Len(log) < MaxChanges
  /\ log' = Append(log, id)
  /\ UNCHANGED <<db, saved, mem, token, feed, first, hist>>

-----------------------------------------------------------------------------
(* The first start: no token in the settings.                              *)

(* getFilesAndFolders: a page of the listing goes to the parsing pool.     *)
ListPage(id) ==
  /\ feed.pc = "list" /\ id \in first.left
  /\ first' = [left |-> first.left \ {id},
               queue |-> first.queue \cup {[id |-> id, ver |-> Latest(id)]}]
  /\ feed' = [feed EXCEPT !.pc = IF first'.left = {} THEN "token" ELSE "list"]
  /\ UNCHANGED <<log, db, saved, mem, token, hist>>

(* parseFilesAndFolders                                                    *)
Parse(d) ==
  /\ d \in first.queue
  /\ db' = Put(db, {d})
  /\ first' = [first EXCEPT !.queue = @ \ {d}]
  /\ UNCHANGED <<log, saved, mem, token, feed, hist>>

(* The start token is asked for after the last page, and is kept under the *)
(* key "root".  A file that changed since it was listed is missed.         *)
ListToken ==
  /\ feed.pc = "token"
  /\ saved' = Len(log)
  /\ token' = [token EXCEPT !.root = Len(log)]
  /\ feed' = NoPage("join")
  /\ hist' = [hist EXCEPT !.lost = \E id \in Ids :
                Put(db, first.queue)[id] # Latest(id)]
  /\ UNCHANGED <<log, db, mem, first>>

(* The pool is joined, then loadFilesAndFolders.                           *)
Load ==
  /\ feed.pc = "join" /\ first.queue = {}
  /\ mem' = db
  /\ feed' = NoPage("fetch")
  /\ UNCHANGED <<log, db, saved, token, first, hist>>

-----------------------------------------------------------------------------
(* background_update                                                       *)

(* Variant: the token is saved when the page arrives.                      *)
FetchSaves ==
  /\ feed.pc = "fetch" /\ token.own # None /\ token.own < Len(log)
  /\ LET end == Min({token.own + PageSize, Len(log)}) IN
     /\ token' = [token EXCEPT !.own = end] /\ saved' = end
     /\ feed' = [pc |-> "apply", docs |-> {}, todo |->
          {[id |-> id, ver |-> Latest(id)] :
             id \in {log[k] : k \in token.own + 1 .. end}}]
  /\ UNCHANGED <<log, db, mem, first, hist>>

(* Variant: a page is taken to be full.                                    *)
FetchFull ==
  /\ feed.pc = "fetch" /\ token.own # None /\ token.own < Len(log)
  /\ LET end == Min({token.own + PageSize, Len(log)}) IN
     /\ token' = [token EXCEPT !.own = @ + PageSize]
     /\ feed' = [pc |-> "apply", docs |-> {}, todo |->
          {[id |-> id, ver |-> Latest(id)] :
             id \in {log[k] : k \in token.own + 1 .. end}}]
  /\ UNCHANGED <<log, db, saved, mem, first, hist>>

(* A page: each file that changed, as it is now.  The token in memory      *)
(* moves at once.  The server refuses an empty token, and the request is   *)
(* repeated for ever.                                                      *)
Fetch ==
  /\ feed.pc = "fetch" /\ token.own # None /\ token.own < Len(log)
  /\ LET end == Min({token.own + PageSize, Len(log)}) IN
     /\ token' = [token EXCEPT !.own = end]
     /\ feed' = [pc |-> "apply", docs |-> {}, todo |->
          {[id |-> id, ver |-> Latest(id)] :
             id \in {log[k] : k \in token.own + 1 .. end}}]
  /\ UNCHANGED <<log, db, saved, mem, first, hist>>

(* Variant: a file that is known already is not brought up to date.        *)
ApplyNewOnly(d) ==
  /\ feed.pc = "apply" /\ d \in feed.todo
  /\ mem' = IF mem[d.id] = 0 THEN Put(mem, {d}) ELSE mem
  /\ feed' = [feed EXCEPT !.todo = @ \ {d}, !.docs = @ \cup {d}]
  /\ UNCHANGED <<log, db, saved, token, first, hist>>

(* One change: updateInode, a new object, or trash.                        *)
Apply(d) ==
  /\ feed.pc = "apply" /\ d \in feed.todo
  /\ mem' = Put(mem, {d})
  /\ feed' = [feed EXCEPT !.todo = @ \ {d}, !.docs = @ \cup {d}]
  /\ UNCHANGED <<log, db, saved, token, first, hist>>

(* bulk_write and delete_many: one document after the other reaches the    *)
(* database, and the process may end between two of them.                  *)
Write(d) ==
  /\ feed.pc = "apply" /\ feed.todo = {} /\ d \in feed.docs
  /\ db' = Put(db, {d})
  /\ feed' = [feed EXCEPT !.docs = @ \ {d}]
  /\ UNCHANGED <<log, saved, mem, token, first, hist>>

(* Both calls have returned.                                               *)
Wrote ==
  /\ feed.pc = "apply" /\ feed.todo = {} /\ feed.docs = {}
  /\ feed' = NoPage("save")
  /\ UNCHANGED <<log, db, saved, mem, token, first, hist>>

SaveToken ==
  /\ feed.pc = "save"
  /\ saved' = token.own
  /\ feed' = NoPage("fetch")
  /\ UNCHANGED <<log, db, mem, token, first, hist>>

(* An exception: the loop goes on, with the token of the next page.        *)
ApplyThrows ==
  /\ Throws /\ feed.pc = "apply" /\ feed.todo # {}
  /\ feed' = NoPage("fetch")
  /\ hist' = [hist EXCEPT !.lost = TRUE]
  /\ UNCHANGED <<log, db, saved, mem, token, first>>

WriteThrows ==
  /\ Throws /\ feed.pc = "apply" /\ feed.todo = {}
  /\ feed' = NoPage("fetch")
  /\ hist' = [hist EXCEPT !.lost = TRUE]
  /\ UNCHANGED <<log, db, saved, mem, token, first>>

SaveThrows ==
  /\ Throws /\ feed.pc = "save"
  /\ feed' = NoPage("fetch")
  /\ UNCHANGED <<log, db, saved, mem, token, first, hist>>

-----------------------------------------------------------------------------

(* A crash before the pool is joined, when the token is saved, leaves a    *)
(* listing that is never completed.                                        *)
Crash ==
  /\ feed.pc # "down" /\ hist.crashes < MaxCrashes
  /\ mem' = Zero /\ token' = NoToken /\ feed' = NoPage("down") /\ first' = Listing
  /\ hist' = [hist EXCEPT !.crashes = @ + 1,
                !.lost = @ \/ (feed.pc = "join" /\ first.queue # {})]
  /\ UNCHANGED <<log, db, saved>>

(* Variant: the saved token is kept under the key it has in the settings.  *)
RestartRoot ==
  /\ feed.pc = "down"
  /\ token' = [NoToken EXCEPT !.root = saved]
  /\ feed' = NoPage(IF saved = None THEN "list" ELSE "join")
  /\ hist' = [hist EXCEPT !.again = saved # None]
  /\ UNCHANGED <<log, db, saved, mem, first>>

(* The constructor puts the saved "root" token under "".                   *)
Restart ==
  /\ feed.pc = "down"
  /\ token' = [NoToken EXCEPT !.own = saved]
  /\ feed' = NoPage(IF saved = None THEN "list" ELSE "join")
  /\ hist' = [hist EXCEPT !.again = saved # None]
  /\ UNCHANGED <<log, db, saved, mem, first>>

First == \/ \E id \in Ids : ListPage(id)
         \/ \E d \in first.queue : Parse(d)
         \/ ListToken \/ Load

Page  == \/ Fetch \/ (\E d \in feed.todo : Apply(d))
         \/ (\E d \in feed.docs : Write(d)) \/ Wrote \/ SaveToken

Next == \/ \E id \in Ids : Change(id)
        \/ First \/ Page
        \/ ApplyThrows \/ WriteThrows \/ SaveThrows
        \/ Crash \/ Restart

Spec == Init /\ [][Next]_vars

(* The start-up and the update thread run, and the server answers.         *)
Fairness == WF_vars(First) /\ WF_vars(Page) /\ WF_vars(Restart)

FairSpec == Spec /\ Fairness

-----------------------------------------------------------------------------
(* Properties.                                                             *)

Versions == 0 .. Len(log)
Doc      == [id : Ids, ver : Versions]

(* Every variable has its type; no version and no token is of the future.  *)
TypeOK ==
  /\ log \in Seq(Ids)
  /\ db \in [Ids -> Versions] /\ mem \in [Ids -> Versions]
  /\ saved \in Versions \cup {None}
  /\ token \in [own : Versions \cup {None}, root : Versions \cup {None}]
  /\ feed.pc \in {"list", "token", "join", "fetch", "apply", "save", "down"}
  /\ feed.todo \cup feed.docs \subseteq Doc
  /\ first.left \subseteq Ids /\ first.queue \subseteq Doc

(* Whatever is before the saved token is in the database, so a restart     *)
(* that goes on from there misses nothing: a crash at any step of a page   *)
(* only makes it come again (background_update writes the documents, then  *)
(* the token).                                                             *)
SavedCovers ==
  saved # None /\ ~hist.lost =>
    \A id \in Ids : Put(db, first.queue)[id] >= Version(id, saved)

(* What a restart would show is never newer than what is shown: a page     *)
(* goes to memory before it goes to the database.                          *)
MemoryFirst ==
  feed.pc \in {"fetch", "apply", "save"} => \A id \in Ids : mem[id] >= db[id]

(* A process that starts with a saved token shows every change in the end. *)
CatchesUp ==
  hist.again ~> (hist.lost \/ \A id \in Ids : mem[id] = Latest(id))
=============================================================================
