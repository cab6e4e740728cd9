------------------------- MODULE MCDialogScheduler -------------------------
(***************************************************************************)
(* Instances of DialogScheduler for TLC.                                   *)
(***************************************************************************)
EXTENDS DialogScheduler, TLC

CONSTANTS u1, u2, a1

(* DialogQueuePriority: agent-session and scheduled work is Low (0), the    *)
(* prompts of a user are Normal (1).                                        *)
SourcePriority == [t \in Turn |-> IF t \in AgentTurn THEN 0 ELSE 1]
=============================================================================
