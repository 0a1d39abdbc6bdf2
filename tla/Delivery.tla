------------------------------ MODULE Delivery ------------------------------
(***************************************************************************)
(* What a user may expect of a new file once its handle is released: its   *)
(* content does not change any more and is kept by the client until the    *)
(* server has all of it; only a deletion takes it away.  There are no      *)
(* requests, retries, crashes or restarts here: none of them shows.        *)
(* Upload implements this specification (Upload!Delivers).                 *)
(***************************************************************************)
CONSTANTS
  Content,  \* what a file may hold
  None      \* no file

VARIABLES
  saved,    \* what was released
  local,    \* what the client keeps for the upload
  remote,   \* what the server has
  deleted   \* the user has asked to delete the file

vars == <<saved, local, remote, deleted>>

Init == saved = None /\ local = None /\ remote = None /\ deleted = FALSE

Save(c) ==
  /\ saved = None
  /\ saved' = c /\ local' = c
  /\ UNCHANGED <<remote, deleted>>

(* All of it at once; from the client's copy, unless a request is under    *)
(* way when the file is deleted.                                           *)
Deliver ==
  /\ saved # None /\ remote = None
  /\ local = saved \/ deleted
  /\ remote' = saved
  /\ UNCHANGED <<saved, local, deleted>>

Discard ==
  /\ local # None
  /\ remote = saved \/ deleted
  /\ local' = None
  /\ UNCHANGED <<saved, remote, deleted>>

Delete ==
  /\ ~deleted /\ deleted' = TRUE
  /\ UNCHANGED <<saved, local, remote>>

Retract ==
  /\ deleted /\ remote # None
  /\ remote' = None
  /\ UNCHANGED <<saved, local, deleted>>

Next == (\E c \in Content : Save(c)) \/ Deliver \/ Discard \/ Delete \/ Retract

Spec == Init /\ [][Next]_vars
=============================================================================
