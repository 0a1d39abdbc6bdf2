------------------------------ MODULE MCUpload ------------------------------
(* Small instances of Upload for TLC.                                      *)
EXTENDS Upload

MCOthers == {"second"}
MCNone   == {}
=============================================================================
