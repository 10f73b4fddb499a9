--------------------------- MODULE TestCaseRunner ---------------------------
(***************************************************************************)
(* TestCaseRunner::Run: one scenario, executed for one or more attempts.   *)
(*                                                                         *)
(* A test case is a sequence of test steps: hooks and steps.  Of a step    *)
(* the runner looks at how many step definitions match it: none, one, or   *)
(* several.  User code (hook and step bodies) is an arbitrary member of    *)
(* Outcome.  The runner is single-threaded; its actions are cut at the     *)
(* points where control leaves it: the broadcast of an envelope and the    *)
(* invocation of a body.                                                   *)
(*                                                                         *)
(* A definition named Slip... is a plausible mistake in the definition     *)
(* that follows it.  No action uses it; it shows that a property below     *)
(* would notice the mistake.                                               *)
(***************************************************************************)
EXTENDS TestStepResults, FiniteSets

CONSTANTS
    TestCases,        \* the assembled test cases: sequences of test steps
    BeforeStepHooks,  \* number of beforeStep hooks that match the scenario
    AfterStepHooks,   \* number of afterStep hooks that match the scenario
    SizeMax,          \* largest std::size_t
    Retries,          \* values of the constructor argument `retries'
    Repeats           \* values of the constructor argument `repeat'

(* `repeat' is a std::optional: NoRepeat stands for std::nullopt.          *)
NoRepeat == -1

StepKinds == {"undefined", "single", "ambiguous"}
TestStep  == {"hook"} \cup StepKinds

ASSUME TestCaseRunnerAssumption ==
    /\ TestCases \subseteq Seq(TestStep)
    /\ BeforeStepHooks \in Nat
    /\ AfterStepHooks \in Nat
    /\ SizeMax \in Nat
    /\ Retries \subseteq 0 .. SizeMax
    /\ Repeats \subseteq {NoRepeat} \cup 0 .. SizeMax

(* The const members of a runner.                                          *)
Runner == [testSteps : TestCases, retries : Retries,
           repeat : Repeats, skip : BOOLEAN]

VARIABLES
    runner,           \* the constructor's arguments
    pc,               \* where Run() is
    attempt,          \* the loop counter of Run()
    testStepResults,  \* results of the current attempt
    seenSteps, error, \* locals of RunAttempt()
    stepResults,      \* local of RunStep(): results of its hooks and body
    afterStep,        \* afterStep hooks already invoked for this step
    overallResult,    \* local of Run()
    returned,         \* the status Run() returned
    invoked,          \* history: test steps whose body ran in this attempt
    verdicts          \* history: worst status of every finished attempt

runState == <<attempt, testStepResults, seenSteps, error, stepResults,
              afterStep, overallResult, returned, invoked, verdicts>>
vars     == <<runner, pc, runState>>

-----------------------------------------------------------------------------
(* Helpers of the class.                                                   *)

(* std::size_t arithmetic: 1 + retries wraps around at SizeMax.            *)
MaximumAttempts(r) ==
    IF r.skip THEN 1
    ELSE IF r.repeat # NoRepeat THEN r.repeat
    ELSE (1 + r.retries) % (SizeMax + 1)

ConstructorThrows(r) ==
    \/ r.repeat = 0
    \/ r.repeat # NoRepeat /\ r.retries # 0

SlipEmptyAlwaysPasses ==
    IF testStepResults = <<>>
    THEN Quiet(PASSED)
    ELSE GetWorstTestStepResult(testStepResults)

GetWorstStepResult ==
    IF testStepResults = <<>>
    THEN Quiet(IF runner.skip THEN SKIPPED ELSE PASSED)
    ELSE GetWorstTestStepResult(testStepResults)

SlipOnlyFailuresSkip == GetWorstStepResult.status = FAILED

IsSkippingSteps == GetWorstStepResult.status # PASSED

SlipSkipForgotten(isBeforeHook) == IsSkippingSteps /\ isBeforeHook

SlipAfterHooksSkipped(isBeforeHook) == runner.skip \/ IsSkippingSteps

ShouldSkipHook(isBeforeHook) ==
    runner.skip \/ (IsSkippingSteps /\ isBeforeHook)

(* Undefined and ambiguous steps following a skipped step are reported as  *)
(* skipped.                                                                *)
SlipFollowsAnyStep == ~runner.skip /\ testStepResults # <<>>

FollowsSkippedStep ==
    /\ ~runner.skip
    /\ testStepResults # <<>>
    /\ GetWorstStepResult.status = SKIPPED

Current     == Len(testStepResults) + 1
CurrentStep == runner.testSteps[Current]

-----------------------------------------------------------------------------
Construct(r) ==
    /\ runner = r
    /\ pc = IF ConstructorThrows(r) THEN "thrown" ELSE "attempts"
    /\ attempt = 0
    /\ testStepResults = <<>>
    /\ seenSteps = FALSE
    /\ error = FALSE
    /\ stepResults = <<>>
    /\ afterStep = 0
    /\ overallResult = PASSED
    /\ returned = UNKNOWN
    /\ invoked = {}
    /\ verdicts = <<>>

Init == \E r \in Runner : Construct(r)

(* The same as a step, for a module that creates runners as it goes.       *)
Renew(r) ==
    /\ runner' = r
    /\ pc' = IF ConstructorThrows(r) THEN "thrown" ELSE "attempts"
    /\ attempt' = 0
    /\ testStepResults' = <<>>
    /\ seenSteps' = FALSE
    /\ error' = FALSE
    /\ stepResults' = <<>>
    /\ afterStep' = 0
    /\ overallResult' = PASSED
    /\ returned' = UNKNOWN
    /\ invoked' = {}
    /\ verdicts' = <<>>

-----------------------------------------------------------------------------
SlipErrorSurvives ==
    /\ pc = "attempts"
    /\ attempt < MaximumAttempts(runner)
    /\ pc' = "testSteps"
    /\ testStepResults' = <<>>
    /\ seenSteps' = FALSE
    /\ invoked' = {}
    /\ UNCHANGED <<runner, attempt, error, stepResults, afterStep,
                   overallResult, returned, verdicts>>

(* The loop head of Run() admits another attempt: TestCaseStarted.         *)
StartAttempt ==
    /\ pc = "attempts"
    /\ attempt < MaximumAttempts(runner)
    /\ pc' = "testSteps"
    /\ testStepResults' = <<>>
    /\ seenSteps' = FALSE
    /\ error' = FALSE
    /\ invoked' = {}
    /\ UNCHANGED <<runner, attempt, stepResults, afterStep, overallResult,
                   returned, verdicts>>

(* The loop of Run() ends without an attempt having returned.              *)
ReturnUnknown ==
    /\ pc = "attempts"
    /\ attempt >= MaximumAttempts(runner)
    /\ pc' = "returned"
    /\ returned' = UNKNOWN
    /\ UNCHANGED <<runner, attempt, testStepResults, seenSteps, error,
                   stepResults, afterStep, overallResult, invoked, verdicts>>

(* TestStepStarted.                                                        *)
StartTestStep ==
    /\ pc = "testSteps"
    /\ Current <= Len(runner.testSteps)
    /\ pc' = "dispatch"
    /\ UNCHANGED <<runner, runState>>

(* The result is kept and TestStepFinished is broadcast.                   *)
Record(result) ==
    /\ testStepResults' = Append(testStepResults, result)
    /\ pc' = "testSteps"
    /\ UNCHANGED <<runner, attempt, overallResult, returned, verdicts>>

RecordHook(result) ==
    /\ Record(result)
    /\ UNCHANGED <<seenSteps, error, stepResults, afterStep>>

RecordStep(result) ==
    /\ Record(result)
    /\ seenSteps' = TRUE
    /\ error' = (error \/ result.reported)

SkipHook ==
    /\ pc = "dispatch"
    /\ CurrentStep = "hook"
    /\ ShouldSkipHook(~seenSteps)
    /\ RecordHook(Quiet(SKIPPED))
    /\ UNCHANGED invoked

InvokeHook ==
    /\ pc = "dispatch"
    /\ CurrentStep = "hook"
    /\ ~ShouldSkipHook(~seenSteps)
    /\ \E outcome \in Outcome : RecordHook(outcome)
    /\ invoked' = invoked \cup {Current}

(* RunStep() decides before it runs anything.                              *)
ReportUndefined ==
    /\ pc = "dispatch"
    /\ CurrentStep = "undefined"
    /\ ~FollowsSkippedStep
    /\ RecordStep(Quiet(UNDEFINED))
    /\ UNCHANGED <<stepResults, afterStep, invoked>>

ReportAmbiguous ==
    /\ pc = "dispatch"
    /\ CurrentStep = "ambiguous"
    /\ ~FollowsSkippedStep
    /\ RecordStep(Reported(AMBIGUOUS))
    /\ UNCHANGED <<stepResults, afterStep, invoked>>

SkipStep ==
    /\ pc = "dispatch"
    /\ \/ CurrentStep = "single"
       \/ CurrentStep \in {"undefined", "ambiguous"} /\ FollowsSkippedStep
    /\ IsSkippingSteps
    /\ RecordStep(Quiet(SKIPPED))
    /\ UNCHANGED <<stepResults, afterStep, invoked>>

EnterStep ==
    /\ pc = "dispatch"
    /\ CurrentStep = "single"
    /\ ~IsSkippingSteps
    /\ pc' = "beforeStep"
    /\ stepResults' = <<>>
    /\ afterStep' = 0
    /\ UNCHANGED <<runner, attempt, testStepResults, seenSteps, error,
                   overallResult, returned, invoked, verdicts>>

CollectStepResult(outcome) ==
    /\ stepResults' = Append(stepResults, outcome)
    /\ UNCHANGED <<runner, attempt, testStepResults, seenSteps, error,
                   overallResult, returned, verdicts>>

InvokeBeforeStepHook ==
    /\ pc = "beforeStep"
    /\ Len(stepResults) < BeforeStepHooks
    /\ \E outcome \in Outcome : CollectStepResult(outcome)
    /\ UNCHANGED <<pc, afterStep, invoked>>

BeforeStepHookFailed == GetWorstTestStepResult(stepResults).status = FAILED

(* All beforeStep hooks ran.  Only a FAILED one keeps the body from        *)
(* running: after a skipped or pending one the body still runs.            *)
InvokeBody ==
    /\ pc = "beforeStep"
    /\ Len(stepResults) = BeforeStepHooks
    /\ ~BeforeStepHookFailed
    /\ \E outcome \in Outcome : CollectStepResult(outcome)
    /\ pc' = "afterStep"
    /\ invoked' = invoked \cup {Current}
    /\ UNCHANGED afterStep

OmitBody ==
    /\ pc = "beforeStep"
    /\ Len(stepResults) = BeforeStepHooks
    /\ BeforeStepHookFailed
    /\ pc' = "afterStep"
    /\ UNCHANGED <<runner, runState>>

SlipOneHookTooMany == afterStep <= AfterStepHooks

AfterStepHookLeft == afterStep < AfterStepHooks

InvokeAfterStepHook ==
    /\ pc = "afterStep"
    /\ AfterStepHookLeft
    /\ \E outcome \in Outcome : CollectStepResult(outcome)
    /\ afterStep' = afterStep + 1
    /\ UNCHANGED <<pc, invoked>>

(* The worst of the hooks' and the body's results is the step's result.    *)
FinishStep ==
    /\ pc = "afterStep"
    /\ afterStep = AfterStepHooks
    /\ RecordStep(GetWorstTestStepResult(stepResults))
    /\ stepResults' = <<>>
    /\ afterStep' = 0
    /\ UNCHANGED invoked

SlipRetryAnything ==
    /\ attempt + 1 < MaximumAttempts(runner)
    /\ GetWorstStepResult.status # PASSED

SlipRetryUnbounded ==
    \/ runner.repeat # NoRepeat
    \/ GetWorstStepResult.status = FAILED

WillRetry ==
    /\ attempt + 1 < MaximumAttempts(runner)
    /\ \/ runner.repeat # NoRepeat
       \/ GetWorstStepResult.status = FAILED

(* TestCaseFinished(willBeRetried), and the rest of the loop body of Run().*)
FinishAttempt ==
    /\ pc = "testSteps"
    /\ Current > Len(runner.testSteps)
    /\ verdicts' = Append(verdicts, GetWorstStepResult.status)
    /\ overallResult' = WorstStatus(overallResult, GetWorstStepResult.status)
    /\ IF WillRetry
       THEN /\ attempt' = attempt + 1
            /\ pc' = "attempts"
            /\ UNCHANGED returned
       ELSE /\ pc' = "returned"
            /\ returned' = IF runner.repeat # NoRepeat
                           THEN overallResult'
                           ELSE GetWorstStepResult.status
            /\ UNCHANGED attempt
    /\ UNCHANGED <<runner, testStepResults, seenSteps, error, stepResults,
                   afterStep, invoked>>

Next ==
    \/ StartAttempt \/ ReturnUnknown \/ StartTestStep
    \/ SkipHook \/ InvokeHook
    \/ ReportUndefined \/ ReportAmbiguous \/ SkipStep
    \/ EnterStep \/ InvokeBeforeStepHook \/ InvokeBody \/ OmitBody
    \/ InvokeAfterStepHook \/ FinishStep
    \/ FinishAttempt

Spec == Init /\ [][Next]_vars

(* Run() is a loop on one thread and every body returns: it never stops    *)
(* half way.                                                               *)
FairSpec == Spec /\ WF_vars(Next)
-----------------------------------------------------------------------------
(* Properties.                                                             *)

TypeOK ==
    /\ runner \in Runner
    /\ pc \in {"attempts", "testSteps", "dispatch", "beforeStep", "afterStep",
              "returned", "thrown"}
    /\ attempt \in Nat
    /\ testStepResults \in Seq(Result)
    /\ seenSteps \in BOOLEAN
    /\ error \in BOOLEAN
    /\ stepResults \in Seq(Result)
    /\ afterStep \in 0 .. AfterStepHooks
    /\ overallResult \in Status
    /\ returned \in Status
    /\ invoked \subseteq DOMAIN runner.testSteps
    /\ verdicts \in Seq(Status)

IsStep(i) == runner.testSteps[i] # "hook"

(* Test step i comes after a step of the scenario.                         *)
AfterAStep(i) == \E j \in 1 .. i - 1 : IsStep(j)

(* Dry runs and fail-fast: a runner built with `skip' never enters user    *)
(* code, neither a hook nor a step nor a step hook, in whatever state the  *)
(* steps left the result list.                                             *)
SkipInvokesNothing ==
    runner.skip => invoked = {} /\ pc \notin {"beforeStep", "afterStep"}

(* Test step i comes after a skip, and after nothing worse.                *)
AfterOnlySkips(i) ==
    /\ \E j \in 1 .. i - 1 : testStepResults[j].status = SKIPPED
    /\ \A j \in 1 .. i - 1 : testStepResults[j].status <= SKIPPED

RunsOnlyAfterPassing ==
    \A i \in invoked :
        IsStep(i) \/ ~AfterAStep(i) =>
            \A j \in 1 .. i - 1 : testStepResults[j].status = PASSED

SkipsHideUndefined ==
    \A i \in DOMAIN testStepResults :
        runner.testSteps[i] \in {"undefined", "ambiguous"} =>
            (testStepResults[i].status = SKIPPED <=> ~runner.skip /\ AfterOnlySkips(i))

OnlyFailedHooksOmitBody ==
    pc = "afterStep" =>
        /\ Len(stepResults) >= BeforeStepHooks
        /\ Current \in invoked <=>
              \A k \in 1 .. BeforeStepHooks : stepResults[k].status # FAILED

(* What came before in the attempt decides what becomes of a test step.  A *)
(* step body, and a hook that precedes the steps, runs only if every       *)
(* earlier test step passed; the body of such a step is left out exactly   *)
(* if one of its beforeStep hooks failed, and runs after a skipped or      *)
(* pending one.  A step without a definition, or with several, is reported *)
(* as skipped exactly if a step or hook before it was skipped and none     *)
(* came out worse, and as itself in a dry run.                             *)
EarlierResultsDecide ==
    /\ RunsOnlyAfterPassing
    /\ SkipsHideUndefined
    /\ OnlyFailedHooksOmitBody

(* After hooks clean up: when an attempt is over, every hook that follows  *)
(* a step has run, whatever the outcome of the steps and hooks before it.  *)
AfterHooksAlwaysRun ==
    pc = "testSteps" /\ ~runner.skip =>
        \A i \in DOMAIN testStepResults :
            ~IsStep(i) /\ AfterAStep(i) => i \in invoked

(* A PASSED verdict is earned: every step had exactly one definition,      *)
(* every body and hook ran and passed, and with `repeat' so did all the    *)
(* earlier executions, whose number is the one asked for.                  *)
PassedMeansEverythingRan ==
    pc = "returned" /\ returned = PASSED =>
        /\ ~runner.skip
        /\ invoked = DOMAIN runner.testSteps
        /\ \A i \in DOMAIN runner.testSteps :
              /\ runner.testSteps[i] \in {"hook", "single"}
              /\ testStepResults[i].status = PASSED
        /\ runner.repeat # NoRepeat =>
              /\ Len(verdicts) = runner.repeat
              /\ \A k \in DOMAIN verdicts : verdicts[k] = PASSED

(* What Run() answers, in terms of its attempts.  With `retries' only      *)
(* FAILED attempts are repeated, the last attempt decides, and FAILED is   *)
(* answered only when no attempt was left.  With `repeat' all executions   *)
(* happen and the worst of them decides.                                   *)
VerdictOfAttempts ==
    pc = "returned" /\ verdicts # <<>> =>
        IF runner.repeat # NoRepeat
        THEN /\ Len(verdicts) = MaximumAttempts(runner)
             /\ \E k \in DOMAIN verdicts : verdicts[k] = returned
             /\ \A k \in DOMAIN verdicts : verdicts[k] <= returned
        ELSE /\ returned = verdicts[Len(verdicts)]
             /\ \A k \in 1 .. Len(verdicts) - 1 : verdicts[k] = FAILED
             /\ returned = FAILED => Len(verdicts) = MaximumAttempts(runner)

(* Hooks are told `hasError' only in an attempt that will not pass.        *)
HasErrorIsJustified ==
    error => GetWorstStepResult.status # PASSED

(* Run() returns, for every outcome of the user code.                      *)
RunReturns == <>(pc \in {"returned", "thrown"})
-----------------------------------------------------------------------------
(* The inductive invariant behind these properties.                        *)

InAttempt == pc \in {"testSteps", "dispatch", "beforeStep", "afterStep"}
InStep    == pc \in {"beforeStep", "afterStep"}

(* A result that carries text did not pass.                                *)
Sound(result) ==
    /\ result.status >= PASSED
    /\ result.reported => result.status # PASSED

(* How far the attempt is, and what it takes to be inside a step.          *)
PositionInv ==
    /\ Len(testStepResults) <= Len(runner.testSteps)
    /\ pc = "dispatch" \/ InStep => Current <= Len(runner.testSteps)
    /\ InAttempt => (seenSteps <=> AfterAStep(Current))
    /\ InStep =>
          /\ CurrentStep = "single"
          /\ ~runner.skip
          /\ \A j \in DOMAIN testStepResults : testStepResults[j].status = PASSED
    /\ invoked \subseteq 1 .. Len(testStepResults)
                            + (IF pc = "afterStep" THEN 1 ELSE 0)

(* What the results say about the code that ran.                           *)
ResultInv ==
    /\ \A j \in DOMAIN testStepResults :
          /\ Sound(testStepResults[j])
          /\ testStepResults[j].status = PASSED =>
                /\ ~runner.skip
                /\ j \in invoked
                /\ runner.testSteps[j] \in {"hook", "single"}
          /\ ~IsStep(j) /\ AfterAStep(j) /\ ~runner.skip => j \in invoked
    /\ \A j \in DOMAIN stepResults : Sound(stepResults[j])
    /\ pc = "afterStep" =>
          /\ stepResults # <<>>
          /\ \/ Current \in invoked
             \/ \E j \in DOMAIN stepResults : stepResults[j].status = FAILED
    /\ error => \E j \in DOMAIN testStepResults : testStepResults[j].status # PASSED

(* What the verdicts of the finished attempts say.                         *)
VerdictInv ==
    /\ InAttempt => attempt < MaximumAttempts(runner)
    /\ pc = "attempts" /\ attempt > 0 => attempt < MaximumAttempts(runner)
    /\ pc # "returned" => Len(verdicts) = attempt
    /\ pc # "returned" /\ runner.repeat = NoRepeat =>
          \A k \in DOMAIN verdicts : verdicts[k] = FAILED
    /\ overallResult >= PASSED
    /\ \A k \in DOMAIN verdicts :
          verdicts[k] >= PASSED /\ verdicts[k] <= overallResult
    /\ verdicts = <<>> => overallResult = PASSED
    /\ verdicts # <<>> => \E k \in DOMAIN verdicts : verdicts[k] = overallResult

ReturnedInv ==
    pc = "returned" =>
        \/ returned = UNKNOWN /\ verdicts = <<>>
        \/ /\ verdicts # <<>>
           /\ verdicts[Len(verdicts)] = GetWorstStepResult.status
           /\ Len(testStepResults) = Len(runner.testSteps)
           /\ IF runner.repeat # NoRepeat
              THEN /\ returned = overallResult
                   /\ Len(verdicts) = MaximumAttempts(runner)
              ELSE /\ returned = verdicts[Len(verdicts)]
                   /\ \A k \in 1 .. Len(verdicts) - 1 : verdicts[k] = FAILED
                   /\ returned = FAILED => Len(verdicts) = MaximumAttempts(runner)

IInv ==
    /\ TypeOK
    /\ PositionInv
    /\ ResultInv
    /\ VerdictInv
    /\ ReturnedInv
    /\ SkipInvokesNothing
    /\ EarlierResultsDecide
=============================================================================
