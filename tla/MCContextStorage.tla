-------------------------- MODULE MCContextStorage --------------------------
(***************************************************************************)
(* A small instance of ContextStorage for TLC: the program context with a  *)
(* feature's and a scenario's below it, shared by two threads.             *)
(***************************************************************************)
EXTENDS ContextStorage

MCStorages == {"program", "feature", "scenario"}
MCParent == "program" :> None @@ "feature" :> "program" @@ "scenario" :> "feature"
MCDepth  == "program" :> 0 @@ "feature" :> 1 @@ "scenario" :> 2
=============================================================================
