----------------------------- MODULE MCKeyedLock -----------------------------
(* KeyedLock for model checking.  There is one address more than parties,   *)
(* so that a call always finds memory.                                      *)
EXTENDS KeyedLock

ASSUME Cardinality(Address) > Cardinality(Party)
=============================================================================
