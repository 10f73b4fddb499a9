--------------------------- MODULE MessageProtocol ---------------------------
(***************************************************************************)
(* What the listeners of a test run - formatters, the message writer, the  *)
(* query that report generators use - are promised about the order of the  *)
(* execution messages, whatever the test run does.                         *)
(*                                                                         *)
(* Messages nest: test run > test case > test step, and test run > hook.   *)
(* Attempts of a test case are numbered from 0; `willBeRetried' is an      *)
(* announcement that the very next message starts the next attempt, of the *)
(* same length.  A test case finishes only after all its test steps have.  *)
(* One exception is part of the promise: a global hook that raises         *)
(* GlobalHookError starts and never finishes.                              *)
(***************************************************************************)
EXTENDS Naturals

CONSTANT Lengths   \* the numbers of test steps a test case may have

VARIABLES
    run,        \* "none", "started" or "finished"
    open,       \* the innermost open thing
    announced,  \* the last TestCaseFinished promised another attempt
    attempt,    \* of the open or announced attempt; 0 otherwise
    steps,      \* test steps of the open or announced attempt; 0 otherwise
    done,       \* test steps finished in the open attempt; 0 otherwise
    abandoned   \* some hook started and will never finish

protocolVars == <<run, open, announced, attempt, steps, done, abandoned>>

Init ==
    /\ run = "none" /\ open = "nothing" /\ announced = FALSE
    /\ attempt = 0 /\ steps = 0 /\ done = 0
    /\ abandoned = FALSE

Between == run = "started" /\ open = "nothing" /\ ~announced

TestRunStarted ==
    /\ run = "none"
    /\ run' = "started"
    /\ UNCHANGED <<open, announced, attempt, steps, done, abandoned>>

TestRunFinished ==
    /\ Between
    /\ run' = "finished"
    /\ UNCHANGED <<open, announced, attempt, steps, done, abandoned>>

TestRunHookStarted ==
    /\ Between
    /\ open' = "hook"
    /\ UNCHANGED <<run, announced, attempt, steps, done, abandoned>>

TestRunHookFinished ==
    /\ open = "hook"
    /\ open' = "nothing"
    /\ UNCHANGED <<run, announced, attempt, steps, done, abandoned>>

HookAbandoned ==
    /\ open = "hook"
    /\ open' = "nothing"
    /\ abandoned' = TRUE
    /\ UNCHANGED <<run, announced, attempt, steps, done>>

TestCaseStarted ==
    /\ Between
    /\ open' = "testCase"
    /\ steps' \in Lengths
    /\ UNCHANGED <<run, announced, attempt, done, abandoned>>

NextAttemptStarted ==
    /\ announced
    /\ open' = "testCase"
    /\ announced' = FALSE
    /\ UNCHANGED <<run, attempt, steps, done, abandoned>>

TestStepStarted ==
    /\ open = "testCase" /\ done < steps
    /\ open' = "testStep"
    /\ UNCHANGED <<run, announced, attempt, steps, done, abandoned>>

TestStepFinished ==
    /\ open = "testStep"
    /\ open' = "testCase"
    /\ done' = done + 1
    /\ UNCHANGED <<run, announced, attempt, steps, abandoned>>

TestCaseFinished(willBeRetried) ==
    /\ open = "testCase" /\ done = steps
    /\ open' = "nothing"
    /\ announced' = willBeRetried
    /\ attempt' = IF willBeRetried THEN attempt + 1 ELSE 0
    /\ steps' = IF willBeRetried THEN steps ELSE 0
    /\ done' = 0
    /\ UNCHANGED <<run, abandoned>>

Next ==
    \/ TestRunStarted \/ TestRunFinished
    \/ TestRunHookStarted \/ TestRunHookFinished \/ HookAbandoned
    \/ TestCaseStarted \/ NextAttemptStarted
    \/ \E willBeRetried \in BOOLEAN : TestCaseFinished(willBeRetried)
    \/ TestStepStarted \/ TestStepFinished

Protocol == Init /\ [][Next]_protocolVars
=============================================================================
