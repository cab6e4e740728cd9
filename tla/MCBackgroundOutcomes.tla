------------------------ MODULE MCBackgroundOutcomes ------------------------
(***************************************************************************)
(* BackgroundOutcomes for TLC.  Tasks and turns are numbered, so that the  *)
(* configurations give their numbers and there is no symmetry to use.      *)
(***************************************************************************)
EXTENDS BackgroundOutcomes
=============================================================================
