-------------------------- MODULE MCTestCaseRunner --------------------------
(***************************************************************************)
(* A small instance of TestCaseRunner for TLC.                             *)
(***************************************************************************)
EXTENDS TestCaseRunner

(* A scenario without steps; before and after hooks around one and two     *)
(* steps; every pair of step kinds, which includes an undefined or         *)
(* ambiguous step after one that skips.                                    *)
MCTestCases ==
    { <<>>, <<"hook", "hook">> }
    \cup { <<"hook", s, "hook", "hook">> : s \in StepKinds }
    \cup { <<s, t, "hook">> : s, t \in StepKinds }

(* std::size_t has two bits here.  Two attempts show what a retry does;    *)
(* SizeMax itself is among the retries, so 1 + retries wraps around.       *)
MCRetries == {0, 1, 3}
MCRepeats == {NoRepeat, 0, 1, 2}
MCSizeMax == 3
=============================================================================
