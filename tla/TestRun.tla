------------------------------- MODULE TestRun -------------------------------
(***************************************************************************)
(* One test run: Coordinator, SerialRuntimeAdapter and Worker around the   *)
(* TestCaseRunner of the scenario that is being executed.                  *)
(*                                                                         *)
(* The run goes through the BeforeAll hooks, then feature by feature       *)
(* through BeforeFeature hooks, scenarios and AfterFeature hooks, and ends *)
(* with the AfterAll hooks.  A global hook raises GlobalHookError when     *)
(* `failGlobalHookFast' is set; the exception is caught around a feature   *)
(* and escapes the run otherwise.                                          *)
(*                                                                         *)
(* A definition named Slip... is a plausible mistake in the definition     *)
(* that follows it, for the properties to notice; no action uses it.       *)
(***************************************************************************)
EXTENDS TestStepResults, FiniteSets

CONSTANTS
    Suites,           \* the features: a sequence of sequences of scenarios
    Options,          \* the runtime options a run may be started with
    GlobalHooks,      \* number of registered hooks of each global kind
    BeforeStepHooks,  \* number of step hooks
    AfterStepHooks,
    SizeMax           \* largest std::size_t

(* A scenario, as the assembler sees it: its matching before hooks, its    *)
(* steps, its after hooks, and whether its tags select it for retry and    *)
(* for repetition.                                                         *)
Scenario == [before : Nat, steps : Seq({"undefined", "single", "ambiguous"}),
             after : Nat, retryTag : BOOLEAN, repeatTag : BOOLEAN]

HookPhases == {"beforeAll", "beforeFeature", "afterFeature", "afterAll"}

NoRepeat == -1

Runtime == [dryRun : BOOLEAN, failFast : BOOLEAN, failGlobalHookFast : BOOLEAN,
            featureHooks : BOOLEAN, strict : BOOLEAN,
            retry : 0 .. SizeMax, repeat : {NoRepeat} \cup 0 .. SizeMax]

ASSUME TestRunAssumption ==
    /\ SizeMax \in Nat
    /\ BeforeStepHooks \in Nat /\ AfterStepHooks \in Nat
    /\ GlobalHooks \in [HookPhases -> Nat]
    /\ Options \subseteq Runtime
    /\ Suites \in Seq(Seq(Scenario))

VARIABLES
    options,       \* the options of this run
    phase,         \* where the run is
    suite,         \* index of the current feature
    scenario,      \* scenarios of the current feature already finished
    hookOpen,      \* TestRunHookStarted was broadcast, the hook is running
    hookResults,   \* results of the current group of hooks
    failing,       \* local of SerialRuntimeAdapter::Run()
    suiteFailing,  \* parameter `failing' of Worker::RunTestSuite()
    failed,        \* local of Worker::RunTestSuite()
    success,       \* what TestRunFinished carries
    statuses,      \* history: <<feature, scenario>> -> the status it returned
    failedHooks    \* history: kinds of global hook that did not pass

(* The TestCaseRunner of the current scenario.                             *)
VARIABLES
    runner, casePc, attempt, testStepResults, seenSteps, error, stepResults,
    afterStep, overallResult, returned, invoked, verdicts

workerVars == <<options, phase, suite, scenario, hookOpen, hookResults,
                failing, suiteFailing, failed, success, statuses, failedHooks>>
caseVars   == <<runner, casePc, attempt, testStepResults, seenSteps, error,
                stepResults, afterStep, overallResult, returned, invoked,
                verdicts>>
vars       == <<workerVars, caseVars>>

-----------------------------------------------------------------------------
(* AssembleTestSuites: hooks become test steps around the scenario's own.  *)
HookSteps(n) == [i \in 1 .. n |-> "hook"]

Assemble(s) == HookSteps(s.before) \o s.steps \o HookSteps(s.after)

Scenarios == UNION { { Suites[i][j] : j \in DOMAIN Suites[i] } : i \in DOMAIN Suites }

Case == INSTANCE TestCaseRunner WITH
            pc <- casePc,
            TestCases <- { Assemble(s) : s \in Scenarios },
            Retries <- 0 .. SizeMax,
            Repeats <- {NoRepeat} \cup 0 .. SizeMax

(* The runner variables while no runner exists.                            *)
NoRunner == [testSteps |-> <<>>, retries |-> 0, repeat |-> NoRepeat, skip |-> FALSE]

-----------------------------------------------------------------------------
(* Worker's and SerialRuntimeAdapter's predicates.                         *)
WorkerThrows ==
    \/ options.repeat = 0
    \/ options.repeat # NoRepeat /\ options.retry # 0

RetriesForPickle(s) ==
    IF options.retry # 0 /\ s.retryTag THEN options.retry ELSE 0

RepeatForPickle(s) ==
    IF options.repeat # NoRepeat /\ s.repeatTag THEN options.repeat ELSE NoRepeat

SlipDryRunFails(results) == GetWorstTestStepResult(results).status # PASSED

IsFailing(results) ==
    /\ ~options.dryRun
    /\ GetWorstTestStepResult(results).status # PASSED

FailingStatuses == {AMBIGUOUS, FAILED, UNDEFINED}

IsStatusFailed(status) ==
    /\ ~options.dryRun
    /\ \/ options.strict /\ status = PENDING
       \/ status \in FailingStatuses

SlipDryRunExecutes == options.failFast /\ (failed \/ suiteFailing)

SlipFailFastPerFeature == options.dryRun \/ (options.failFast /\ failed)

SkipsTestCase ==
    options.dryRun \/ (options.failFast /\ (failed \/ suiteFailing))

-----------------------------------------------------------------------------
Init ==
    /\ options \in Options
    /\ phase = "idle"
    /\ suite = 1
    /\ scenario = 0
    /\ hookOpen = FALSE
    /\ hookResults = <<>>
    /\ failing = FALSE
    /\ suiteFailing = FALSE
    /\ failed = FALSE
    /\ success = FALSE
    /\ statuses = <<>> \* the function with no arguments
    /\ failedHooks = {}
    /\ Case!Construct(NoRunner)

-----------------------------------------------------------------------------
(* Coordinator::Run: TestRunStarted.                                       *)
StartRun ==
    /\ phase = "idle"
    /\ phase' = "started"
    /\ UNCHANGED <<options, suite, scenario, hookOpen, hookResults, failing,
                   suiteFailing, failed, success, statuses, failedHooks>>
    /\ UNCHANGED caseVars

(* The Worker's constructor; what it throws nobody catches.                *)
ConstructWorker ==
    /\ phase = "started"
    /\ phase' = IF WorkerThrows THEN "escaped" ELSE "beforeAll"
    /\ UNCHANGED <<options, suite, scenario, hookOpen, hookResults, failing,
                   suiteFailing, failed, success, statuses, failedHooks>>
    /\ UNCHANGED caseVars

-----------------------------------------------------------------------------
(* Worker::RunTestHook, called for each hook of the current group.         *)
HooksDone == ~hookOpen /\ Len(hookResults) = GlobalHooks[phase]

(* TestRunHookStarted.                                                     *)
StartTestRunHook ==
    /\ phase \in HookPhases
    /\ ~hookOpen
    /\ Len(hookResults) < GlobalHooks[phase]
    /\ hookOpen' = TRUE
    /\ UNCHANGED <<options, phase, suite, scenario, hookResults, failing,
                   suiteFailing, failed, success, statuses, failedHooks>>
    /\ UNCHANGED caseVars

Throws(outcome) == options.failGlobalHookFast /\ outcome.status # PASSED

NoteHook(outcome) ==
    failedHooks' = IF outcome.status # PASSED /\ ~options.dryRun
                   THEN failedHooks \cup {phase} ELSE failedHooks

(* The body returns (or is left out of a dry run): TestRunHookFinished.    *)
FinishTestRunHook ==
    /\ hookOpen
    /\ \E outcome \in IF options.dryRun THEN {Quiet(SKIPPED)} ELSE Outcome :
          /\ options.dryRun \/ ~Throws(outcome)
          /\ hookResults' = Append(hookResults, outcome)
          /\ NoteHook(outcome)
    /\ hookOpen' = FALSE
    /\ UNCHANGED <<options, phase, suite, scenario, failing, suiteFailing,
                   failed, success, statuses>>
    /\ UNCHANGED caseVars

(* The hooks that run inside the adapter's catch block.                    *)
SlipCatchScenarioOnly == {}

CaughtPhases == {"beforeFeature", "afterFeature"}

(* GlobalHookError leaves RunTestHook without TestRunHookFinished.  Around *)
(* a feature SerialRuntimeAdapter::Run catches it and goes on with the     *)
(* next one; around the whole run it is not caught.                        *)
ThrowGlobalHookError ==
    /\ hookOpen
    /\ ~options.dryRun
    /\ \E outcome \in Outcome : Throws(outcome) /\ NoteHook(outcome)
    /\ hookOpen' = FALSE
    /\ hookResults' = <<>>
    /\ IF phase \in CaughtPhases
       THEN /\ phase' = "suites"
            /\ suite' = suite + 1
            /\ failing' = TRUE
       ELSE /\ phase' = "escaped"
            /\ UNCHANGED <<suite, failing>>
    /\ UNCHANGED <<options, scenario, suiteFailing, failed, success, statuses>>
    /\ UNCHANGED caseVars

-----------------------------------------------------------------------------
(* SerialRuntimeAdapter::Run after the BeforeAll hooks: features are       *)
(* assembled and run only if these did not fail.                           *)
FinishBeforeAll ==
    /\ phase = "beforeAll"
    /\ HooksDone
    /\ failing' = IsFailing(hookResults)
    /\ phase' = IF failing' THEN "afterAll" ELSE "suites"
    /\ hookResults' = <<>>
    /\ UNCHANGED <<options, suite, scenario, hookOpen, suiteFailing, failed,
                   success, statuses, failedHooks>>
    /\ UNCHANGED caseVars

(* Worker::RunTestSuite is entered.                                        *)
StartSuite ==
    /\ phase = "suites"
    /\ suite <= Len(Suites)
    /\ phase' = IF options.featureHooks THEN "beforeFeature" ELSE "scenarios"
    /\ scenario' = 0
    /\ suiteFailing' = failing
    /\ failed' = FALSE
    /\ UNCHANGED <<options, suite, hookOpen, hookResults, failing, success,
                   statuses, failedHooks>>
    /\ UNCHANGED caseVars

FinishSuites ==
    /\ phase = "suites"
    /\ suite > Len(Suites)
    /\ phase' = "afterAll"
    /\ UNCHANGED <<options, suite, scenario, hookOpen, hookResults, failing,
                   suiteFailing, failed, success, statuses, failedHooks>>
    /\ UNCHANGED caseVars

FinishBeforeFeature ==
    /\ phase = "beforeFeature"
    /\ HooksDone
    /\ suiteFailing' = (suiteFailing \/ IsFailing(hookResults))
    /\ phase' = "scenarios"
    /\ hookResults' = <<>>
    /\ UNCHANGED <<options, suite, scenario, hookOpen, failing, failed,
                   success, statuses, failedHooks>>
    /\ UNCHANGED caseVars

(* Worker::RunTestCase constructs the runner of the next scenario.         *)
StartScenario ==
    /\ phase = "scenarios"
    /\ scenario < Len(Suites[suite])
    /\ LET s == Suites[suite][scenario + 1]
       IN  Case!Renew([testSteps |-> Assemble(s),
                       retries   |-> RetriesForPickle(s),
                       repeat    |-> RepeatForPickle(s),
                       skip      |-> SkipsTestCase])
    /\ phase' = "scenario"
    /\ UNCHANGED <<options, suite, scenario, hookOpen, hookResults, failing,
                   suiteFailing, failed, success, statuses, failedHooks>>

RunScenario ==
    /\ phase = "scenario"
    /\ Case!Next
    /\ UNCHANGED workerVars

(* The runner has returned: its status decides, and it is destroyed.       *)
FinishScenario ==
    /\ phase = "scenario"
    /\ casePc = "returned"
    /\ failed' = (failed \/ IsStatusFailed(returned))
    /\ LET this == <<suite, scenario + 1>>
       IN  statuses' = [c \in DOMAIN statuses \cup {this} |->
                           IF c = this THEN returned ELSE statuses[c]]
    /\ scenario' = scenario + 1
    /\ phase' = "scenarios"
    /\ Case!Renew(NoRunner)
    /\ UNCHANGED <<options, suite, hookOpen, hookResults, failing,
                   suiteFailing, success, failedHooks>>

SlipLastFeatureDecides == failed

FailingAfterSuite == failing \/ failed

(* RunTestSuite returns to the adapter.                                    *)
LeaveSuite ==
    /\ failing' = FailingAfterSuite
    /\ suite' = suite + 1
    /\ phase' = "suites"
    /\ UNCHANGED <<options, scenario, hookOpen, suiteFailing, failed, success,
                   statuses, failedHooks>>
    /\ UNCHANGED caseVars

FinishScenarios ==
    /\ phase = "scenarios"
    /\ scenario = Len(Suites[suite])
    /\ options.featureHooks
    /\ phase' = "afterFeature"
    /\ UNCHANGED <<options, suite, scenario, hookOpen, hookResults, failing,
                   suiteFailing, failed, success, statuses, failedHooks>>
    /\ UNCHANGED caseVars

FinishSuite ==
    /\ phase = "scenarios"
    /\ scenario = Len(Suites[suite])
    /\ ~options.featureHooks
    /\ LeaveSuite
    /\ UNCHANGED hookResults

(* A failing AfterFeature hook sets a local that is not read again.        *)
FinishAfterFeature ==
    /\ phase = "afterFeature"
    /\ HooksDone
    /\ LeaveSuite
    /\ hookResults' = <<>>

(* The adapter returns to Coordinator::Run: TestRunFinished.               *)
FinishRun ==
    /\ phase = "afterAll"
    /\ HooksDone
    /\ failing' = (failing \/ IsFailing(hookResults))
    /\ success' = ~failing'
    /\ phase' = "finished"
    /\ hookResults' = <<>>
    /\ UNCHANGED <<options, suite, scenario, hookOpen, suiteFailing, failed,
                   statuses, failedHooks>>
    /\ UNCHANGED caseVars

Next ==
    \/ StartRun \/ ConstructWorker
    \/ StartTestRunHook \/ FinishTestRunHook \/ ThrowGlobalHookError
    \/ FinishBeforeAll \/ StartSuite \/ FinishSuites \/ FinishBeforeFeature
    \/ StartScenario \/ RunScenario \/ FinishScenario
    \/ FinishScenarios \/ FinishSuite \/ FinishAfterFeature
    \/ FinishRun

Spec == Init /\ [][Next]_vars

(* The whole run is one thread; user code returns.                         *)
FairSpec == Spec /\ WF_vars(Next)
-----------------------------------------------------------------------------
(* Properties.                                                             *)

AllScenarios == UNION { { <<i, j>> : j \in DOMAIN Suites[i] } : i \in DOMAIN Suites }

TypeOK ==
    /\ options \in Options
    /\ phase \in HookPhases \cup {"idle", "started", "suites", "scenarios",
                                  "scenario", "finished", "escaped"}
    /\ suite \in 1 .. Len(Suites) + 1
    /\ scenario \in Nat
    /\ hookOpen \in BOOLEAN
    /\ hookResults \in Seq(Result)
    /\ failing \in BOOLEAN
    /\ suiteFailing \in BOOLEAN
    /\ failed \in BOOLEAN
    /\ success \in BOOLEAN
    /\ DOMAIN statuses \subseteq AllScenarios
    /\ \A c \in DOMAIN statuses : statuses[c] \in Status
    /\ failedHooks \subseteq HookPhases

(* A run that reports success has run every scenario of every feature, to  *)
(* a status that is not a failure under the options in force, and every    *)
(* BeforeAll and AfterAll hook passed: no early exit, swallowed exception  *)
(* or skipped feature is reported as a success.                            *)
SuccessIsEarned ==
    success /\ ~options.dryRun =>
        /\ failedHooks \cap {"beforeAll", "afterAll"} = {}
        /\ DOMAIN statuses = AllScenarios
        /\ \A c \in AllScenarios : ~IsStatusFailed(statuses[c])

(* Conversely, a run fails only for a reason the code can name: a failing  *)
(* scenario, a BeforeAll or AfterAll hook that did not pass, or a global   *)
(* hook that raised.                                                       *)
FailureHasAReason ==
    phase = "finished" /\ ~success =>
        \/ \E c \in DOMAIN statuses : IsStatusFailed(statuses[c])
        \/ failedHooks \cap {"beforeAll", "afterAll"} # {}
        \/ options.failGlobalHookFast /\ failedHooks # {}

(* Once a scenario has failed under `failFast', every later scenario of    *)
(* this and of the following features is built to be skipped, whatever     *)
(* exceptions and hooks happen in between.                                 *)
FailFastSkipsTheRest ==
    /\ phase = "scenario"
    /\ options.failFast
    /\ \E c \in DOMAIN statuses : IsStatusFailed(statuses[c])
    => runner.skip

(* A dry run enters no user code and cannot fail, even with undefined or   *)
(* ambiguous steps.                                                        *)
DryRunSucceeds ==
    options.dryRun =>
        /\ invoked = {}
        /\ phase = "finished" => success

(* Every run ends: it finishes, or an exception escapes - because the      *)
(* options were inconsistent or because a BeforeAll or AfterAll hook       *)
(* raised GlobalHookError.  A hook of a feature ends that feature only.    *)
RunEnds ==
    <>\/ phase = "finished"
      \/ /\ phase = "escaped"
         /\ \/ WorkerThrows
            \/ /\ options.failGlobalHookFast
               /\ failedHooks \cap {"beforeAll", "afterAll"} # {}

-----------------------------------------------------------------------------
(* The inductive invariant behind these properties.                        *)

InFeature == phase \in {"beforeFeature", "scenarios", "scenario", "afterFeature"}

(* The scenarios the run has come past.                                    *)
Past == {c \in AllScenarios : \/ c[1] < suite
                              \/ c[1] = suite /\ InFeature /\ c[2] <= scenario}

(* No scenario is left out unless something has failed.                    *)
ProgressInv ==
    /\ InFeature => suite <= Len(Suites)
    /\ phase = "beforeFeature" => scenario = 0
    /\ phase = "scenarios" => scenario <= Len(Suites[suite])
    /\ phase = "scenario" => scenario < Len(Suites[suite])
    /\ phase = "afterFeature" => scenario = Len(Suites[suite])
    /\ phase \in {"idle", "started", "beforeAll"} =>
          suite = 1 /\ DOMAIN statuses = {} /\ ~failing
    /\ phase \in {"afterAll", "finished"} /\ ~failing => suite = Len(Suites) + 1
    /\ phase # "escaped" =>
          /\ DOMAIN statuses \subseteq Past
          /\ ~failing => DOMAIN statuses = Past

HookDidNotPass == \E j \in DOMAIN hookResults : hookResults[j].status # PASSED

(* The hooks that did not pass, in the results and in the flags.           *)
HookInv ==
    /\ phase \notin HookPhases => hookResults = <<>> /\ ~hookOpen
    /\ \A j \in DOMAIN hookResults : hookResults[j].status >= PASSED
    /\ HookDidNotPass /\ ~options.dryRun => phase \in failedHooks
    /\ phase \in {"beforeAll", "afterAll"} \cap failedHooks => HookDidNotPass
    /\ phase \in {"idle", "started"} \/ options.dryRun => failedHooks = {}
    /\ "beforeAll" \in failedHooks => phase \in {"beforeAll", "escaped"} \/ failing
    /\ "afterAll" \in failedHooks =>
          phase \in {"afterAll", "escaped"} \/ (phase = "finished" /\ failing)

ScenarioFailed == \E c \in DOMAIN statuses : IsStatusFailed(statuses[c])

(* The failures, in the history and in the flags of the three functions.   *)
FailingInv ==
    /\ success => phase = "finished"
    /\ phase = "finished" => (success <=> ~failing)
    /\ ScenarioFailed => failing \/ (InFeature /\ failed)
    /\ InFeature /\ failed => ScenarioFailed
    /\ InFeature /\ failing => suiteFailing
    /\ failing =>
          \/ ScenarioFailed
          \/ failedHooks \cap {"beforeAll", "afterAll"} # {}
          \/ options.failGlobalHookFast /\ failedHooks # {}
    /\ options.dryRun => ~failing /\ ~failed

(* What the run needs to know of the runner of the current scenario.       *)
RunnerInv ==
    /\ testStepResults \in Seq(Result) /\ stepResults \in Seq(Result)
    /\ overallResult \in Status /\ returned \in Status
    /\ phase = "scenario" /\ SkipsTestCase => runner.skip
    /\ phase # "scenario" => invoked = {}
    /\ runner.skip =>
          /\ invoked = {}
          /\ casePc \notin {"beforeStep", "afterStep"}
          /\ \A j \in DOMAIN testStepResults : testStepResults[j].status # PASSED

IInv ==
    /\ TypeOK
    /\ ProgressInv
    /\ HookInv
    /\ FailingInv
    /\ RunnerInv

-----------------------------------------------------------------------------
(* What the documentation says and the code does not do.                   *)

(* "Stop execution on first global hook failure" (--fail-global-hook-fast):*)
(* after one, no further hook and no further scenario enters user code.    *)
GlobalHookFailureStops ==
    options.failGlobalHookFast /\ failedHooks # {} =>
        ~hookOpen /\ (phase = "scenario" => runner.skip)

(* "If any before hook is executed then all after hooks are also executed. *)
(* Even if a before hook has a failure."                                   *)
AfterHooksFollowBeforeHooks ==
    LET current   == Suites[suite][scenario + 1]
        testSteps == Len(runner.testSteps)
    IN  /\ phase = "scenario" /\ casePc = "testSteps"
        /\ Len(testStepResults) = testSteps
        /\ invoked \cap 1 .. current.before # {}
        => testSteps - current.after + 1 .. testSteps \subseteq invoked

-----------------------------------------------------------------------------
(* What the listeners see.                                                 *)
CaseOpen  == phase = "scenario" /\ casePc \notin {"attempts", "returned", "thrown"}
Announced == phase = "scenario" /\ casePc = "attempts" /\ attempt > 0

Protocol == INSTANCE MessageProtocol WITH
    Lengths      <- { Len(Assemble(s)) : s \in Scenarios },
    run          <- CASE phase = "idle" -> "none"
                      [] phase = "finished" -> "finished"
                      [] OTHER -> "started",
    open         <- CASE hookOpen -> "hook"
                      [] CaseOpen /\ casePc = "testSteps" -> "testCase"
                      [] CaseOpen /\ casePc # "testSteps" -> "testStep"
                      [] OTHER -> "nothing",
    announced    <- Announced,
    attempt      <- IF CaseOpen \/ Announced THEN attempt ELSE 0,
    steps        <- IF CaseOpen \/ Announced THEN Len(runner.testSteps) ELSE 0,
    done         <- IF CaseOpen THEN Len(testStepResults) ELSE 0,
    abandoned    <- options.failGlobalHookFast /\ ~options.dryRun /\ failedHooks # {}

(* The run's messages follow the protocol its listeners rely on.           *)
MessagesFollowProtocol == Protocol!Protocol

(* What that rests on: an announced attempt is admitted by the loop, and a *)
(* test case has as many results as steps only when all are finished.      *)
MessageInv ==
    /\ attempt \in Nat /\ Case!MaximumAttempts(runner) \in Nat
    /\ casePc = "attempts" /\ attempt > 0 => attempt < Case!MaximumAttempts(runner)
    /\ phase = "scenario" => \E s \in Scenarios : runner.testSteps = Assemble(s)
    /\ CaseOpen /\ casePc = "testSteps" => Len(testStepResults) <= Len(runner.testSteps)
    /\ CaseOpen /\ casePc # "testSteps" => Len(testStepResults) < Len(runner.testSteps)
=============================================================================
