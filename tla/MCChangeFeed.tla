---------------------------- MODULE MCChangeFeed ----------------------------
(* A small instance of ChangeFeed for TLC: more changes than files, and a  *)
(* page that holds fewer changes than there are.                           *)
EXTENDS ChangeFeed

MCIds == {"a", "b", "c"}
=============================================================================
