------------------------------ MODULE MCTestRun ------------------------------
(***************************************************************************)
(* Small instances of TestRun and of the reports on it for TLC.            *)
(***************************************************************************)
EXTENDS Reports

MCSizeMax == 3

Plain(steps) == [before |-> 0, steps |-> steps, after |-> 0,
                 retryTag |-> TRUE, repeatTag |-> TRUE]

Hooked == [before |-> 1, steps |-> <<"single">>, after |-> 1,
           retryTag |-> FALSE, repeatTag |-> FALSE]

(* Two features.  The first has a scenario of one step, and one whose      *)
(* second step is undefined: it fails unless the first step skips.  The    *)
(* second has a scenario with hooks, whose tags select it neither for      *)
(* retry nor for repetition.                                               *)
MCSuites == << <<Plain(<<"single">>), Plain(<<"single", "undefined">>)>>,
               <<Hooked>> >>

MCGlobalHooks == [p \in HookPhases |-> 1]

(* Every combination of the flags, with the retry/repeat values of a plain *)
(* run, a retry, a repetition and the two inconsistent configurations.     *)
MCOptions ==
    { o \in Runtime :
        <<o.retry, o.repeat>> \in
            { <<0, NoRepeat>>, <<1, NoRepeat>>, <<MCSizeMax, NoRepeat>>,
              <<0, 2>>, <<0, 0>>, <<1, 2>> } }

(* The single steps of the first feature share a definition, the second    *)
(* has its own and one definition matches nothing.                         *)
MCStepDefinitions == {"shared", "own", "unmatched"}
MCDefinition(c, i) == IF c[1] = 1 THEN "shared" ELSE "own"

-----------------------------------------------------------------------------
(* Documentation the code does not live up to.                             *)

(* A scenario with hooks and no steps.                                     *)
EmptyScenario == << << [before |-> 1, steps |-> <<>>, after |-> 1,
                        retryTag |-> FALSE, repeatTag |-> FALSE] >> >>
=============================================================================
