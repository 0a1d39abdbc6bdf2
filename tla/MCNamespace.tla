---------------------------- MODULE MCNamespace ----------------------------
(* Small instances of Namespace for TLC: a file in the root, and ids of a  *)
(* folder and a file that are made later.                                  *)
EXTENDS Namespace

MCStart == [id \in {"x"} |-> [parent |-> "r", name |-> "a"]]
=============================================================================
