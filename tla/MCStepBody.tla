----------------------------- MODULE MCStepBody -----------------------------
(***************************************************************************)
(* A small instance of StepBody for TLC.                                   *)
(***************************************************************************)
EXTENDS StepBody

(* A step, its nested steps, and theirs; each may call one after another,  *)
(* so that a second nested step runs after the first one threw and was     *)
(* caught.                                                                 *)
MCMaxNesting == 2
MCMaxCalls   == 2
=============================================================================
