------------------------ MODULE MCAcceptanceScenario ------------------------
(***************************************************************************)
(* A small instance of AcceptanceScenario for TLC.  With room for one      *)
(* write in a pipe and two writes to a stream, a writer can be blocked on  *)
(* either pipe while the other one fills.                                  *)
(***************************************************************************)
EXTENDS AcceptanceScenario

MCScenarios == { << "library", "run", "passes", "attempts" >>,
                 << "file", "cli", "fails" >>, << "passes" >> }
=============================================================================
