---------------------------- MODULE MCDiskCache ----------------------------
(* Small instances of DiskCache for TLC.                                   *)
EXTENDS DiskCache

MCTwo  == [mover |-> <<"p1", "p2">>]
MCFour == [mover |-> <<"p1", "p2", "p3", "p4">>]
=============================================================================
