-------------------------- MODULE TestStepResults --------------------------
(***************************************************************************)
(* The result values every part of the runtime exchanges, and how several  *)
(* results are combined into one.                                          *)
(*                                                                         *)
(* A status is the number of its enumerator, because the code compares     *)
(* statuses by that number.  Of a TestStepResult only two things steer     *)
(* later code: its status, and whether it carries a message or an          *)
(* exception (`reported').  Text, durations and attachments are left out.  *)
(***************************************************************************)
EXTENDS Integers, Sequences

UNKNOWN   == 0
PASSED    == 1
SKIPPED   == 2
PENDING   == 3
UNDEFINED == 4
AMBIGUOUS == 5
FAILED    == 6

Status == UNKNOWN .. FAILED

Result == [status : Status, reported : BOOLEAN]

Quiet(s)    == [status |-> s, reported |-> FALSE]
Reported(s) == [status |-> s, reported |-> TRUE]

(* What one execution of user code (a hook or a step body) can come back   *)
(* with: it passes, it fails (always with a message or an exception), or   *)
(* it calls Skipped()/Pending() with or without a text.  The message of an *)
(* expectation that failed before stays in the result of a Skipped() that  *)
(* brings no text; a text takes its place.                                 *)
(* StepBody derives this set from the code; TestCaseRunner and TestRun     *)
(* take it as given.                                                       *)
Outcome == { Quiet(PASSED), Reported(FAILED),
             Quiet(SKIPPED), Reported(SKIPPED),
             Quiet(PENDING), Reported(PENDING) }

(* The first result with the largest status; no results count as PASSED.   *)
GetWorstTestStepResult(results) ==
    IF results = <<>>
    THEN Quiet(PASSED)
    ELSE LET worst == CHOOSE i \in DOMAIN results :
                        \A j \in DOMAIN results :
                           /\ results[j].status <= results[i].status
                           /\ j < i => results[j].status < results[i].status
         IN  results[worst]

WorstStatus(a, b) == IF a < b THEN b ELSE a
=============================================================================
