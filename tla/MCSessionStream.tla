-------------------------- MODULE MCSessionStream --------------------------
(* Two sessions: the client shows s1, and only the tasks of s2 overlap.     *)
EXTENDS SessionStream

CONSTANTS s1, s2
=============================================================================
