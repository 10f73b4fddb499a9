--------------------------- MODULE TestRun_proofs ---------------------------
(***************************************************************************)
(* Proofs about TestRun and Reports: for every set of features, scenarios  *)
(* and hooks, the answer of a run is the answer its scenarios and hooks    *)
(* deserve, its messages nest, and its reports say what happened.          *)
(***************************************************************************)
EXTENDS Reports, TestStepResults_proofs, FiniteSetTheorems

-----------------------------------------------------------------------------
(* The runner of the current scenario.                                     *)

(* The runner's copies of the result operators are those of the run.       *)
LEMMA CaseNames ==
    /\ Case!UNKNOWN = UNKNOWN /\ Case!PASSED = PASSED /\ Case!SKIPPED = SKIPPED
    /\ Case!PENDING = PENDING /\ Case!UNDEFINED = UNDEFINED
    /\ Case!AMBIGUOUS = AMBIGUOUS /\ Case!FAILED = FAILED
    /\ Case!Outcome = Outcome
    /\ \A s : Case!Quiet(s) = Quiet(s) /\ Case!Reported(s) = Reported(s)
    /\ \A r : Case!GetWorstTestStepResult(r) = GetWorstTestStepResult(r)
    /\ \A a, b : Case!WorstStatus(a, b) = WorstStatus(a, b)
<1>1. /\ Case!UNKNOWN = UNKNOWN /\ Case!PASSED = PASSED /\ Case!SKIPPED = SKIPPED
      /\ Case!PENDING = PENDING /\ Case!UNDEFINED = UNDEFINED
      /\ Case!AMBIGUOUS = AMBIGUOUS /\ Case!FAILED = FAILED
  BY DEF Case!UNKNOWN, Case!PASSED, Case!SKIPPED, Case!PENDING, Case!UNDEFINED,
         Case!AMBIGUOUS, Case!FAILED, UNKNOWN, PASSED, SKIPPED, PENDING, UNDEFINED,
         AMBIGUOUS, FAILED
<1>2. \A s : Case!Quiet(s) = Quiet(s) /\ Case!Reported(s) = Reported(s)
  BY DEF Case!Quiet, Case!Reported, Quiet, Reported
<1>3. Case!Outcome = Outcome
  BY <1>1, <1>2 DEF Case!Outcome, Outcome
<1>4. \A r : Case!GetWorstTestStepResult(r) = GetWorstTestStepResult(r)
  BY <1>1, <1>2 DEF Case!GetWorstTestStepResult, GetWorstTestStepResult
<1>5. \A a, b : Case!WorstStatus(a, b) = WorstStatus(a, b)
  BY DEF Case!WorstStatus, WorstStatus
<1> QED
  BY <1>1, <1>2, <1>3, <1>4, <1>5

LEMMA OutcomesAreResults ==
    /\ \A r \in Outcome : r \in Result /\ r.status \in 1 .. 6
    /\ Quiet(SKIPPED) \in Result /\ Quiet(UNDEFINED) \in Result
    /\ Reported(AMBIGUOUS) \in Result /\ Quiet(PASSED) \in Result
    /\ Quiet(SKIPPED).status = 2 /\ Quiet(UNDEFINED).status = 4
    /\ Reported(AMBIGUOUS).status = 5 /\ Quiet(PASSED).status = 1
BY StatusValues DEF Outcome, Quiet, Reported, Result

(* The worst of some results is a result, and passed only if all did.      *)
LEMMA WorstIsResult ==
    ASSUME NEW results \in Seq(Result)
    PROVE  /\ GetWorstTestStepResult(results) \in Result
           /\ GetWorstTestStepResult(results).status \in Status
           /\ results # <<>> =>
                \E i \in DOMAIN results :
                    GetWorstTestStepResult(results).status = results[i].status
           /\ (\A i \in DOMAIN results : results[i].status >= PASSED) =>
                (GetWorstTestStepResult(results).status # PASSED
                    <=> \E i \in DOMAIN results : results[i].status # PASSED)
<1>1. CASE results = <<>>
  BY <1>1, OutcomesAreResults, StatusValues DEF GetWorstTestStepResult
<1>2. CASE results # <<>>
  <2>1. PICK i \in DOMAIN results :
            /\ GetWorstTestStepResult(results) = results[i]
            /\ \A j \in DOMAIN results : results[j].status <= results[i].status
    BY <1>2, WorstOfResults
  <2>2. \A j \in DOMAIN results : results[j] \in Result /\ results[j].status \in 0 .. 6
    BY ResultsInList
  <2> QED
    BY <2>1, <2>2, StatusValues
<1> QED
  BY <1>1, <1>2

(* What RunnerInv says of the runner alone.                                *)
RunnerCore ==
    /\ testStepResults \in Seq(Result) /\ stepResults \in Seq(Result)
    /\ overallResult \in Status /\ returned \in Status
    /\ runner.skip =>
          /\ invoked = {}
          /\ casePc \notin {"beforeStep", "afterStep"}
          /\ \A j \in DOMAIN testStepResults : testStepResults[j].status # PASSED

LEMMA AppendResult ==
    ASSUME NEW s \in Seq(Result), NEW r \in Result
    PROVE  /\ Append(s, r) \in Seq(Result)
           /\ Append(s, r) # <<>>
           /\ DOMAIN Append(s, r) = 1 .. Len(s) + 1
           /\ Len(s) \in Nat /\ DOMAIN s = 1 .. Len(s)
           /\ \A j \in DOMAIN s : Append(s, r)[j] = s[j]
           /\ Append(s, r)[Len(s) + 1] = r
OBVIOUS

(* The worst result so far; a runner that skips has none that passed.      *)
LEMMA WorstStepResult ==
    ASSUME RunnerCore
    PROVE  /\ Case!GetWorstStepResult \in Result
           /\ Case!GetWorstStepResult.status \in Status
           /\ runner.skip => Case!IsSkippingSteps
<1>1. CASE testStepResults = <<>>
  BY <1>1, CaseNames, OutcomesAreResults, StatusValues
     DEF Case!GetWorstStepResult, Case!IsSkippingSteps
<1>2. CASE testStepResults # <<>>
  <2>1. Case!GetWorstStepResult = GetWorstTestStepResult(testStepResults)
    BY <1>2, CaseNames DEF Case!GetWorstStepResult
  <2>2. /\ Case!GetWorstStepResult \in Result
        /\ Case!GetWorstStepResult.status \in Status
        /\ \E i \in DOMAIN testStepResults :
              Case!GetWorstStepResult.status = testStepResults[i].status
    BY <1>2, <2>1, WorstIsResult DEF RunnerCore
  <2> QED
    BY <2>2, CaseNames DEF RunnerCore, Case!IsSkippingSteps
<1> QED
  BY <1>1, <1>2

(* Recording a result, which has not passed if the runner skips.           *)
LEMMA RecordCore ==
    ASSUME RunnerCore, NEW r \in Result, Case!Record(r),
           stepResults' \in Seq(Result),
           runner.skip => r.status # PASSED /\ invoked' = invoked
    PROVE  RunnerCore' /\ runner' = runner
<1>1. /\ testStepResults' = Append(testStepResults, r)
      /\ casePc' = "testSteps"
      /\ UNCHANGED <<runner, overallResult, returned>>
  BY DEF Case!Record
<1>2. testStepResults' \in Seq(Result)
  BY <1>1, AppendResult DEF RunnerCore
<1>3. runner.skip =>
          \A j \in DOMAIN testStepResults' : testStepResults'[j].status # PASSED
  <2> SUFFICES ASSUME runner.skip, NEW j \in DOMAIN testStepResults'
               PROVE  testStepResults'[j].status # PASSED
    OBVIOUS
  <2>1. j \in DOMAIN testStepResults \/ j = Len(testStepResults) + 1
    BY <1>1, AppendResult DEF RunnerCore
  <2> QED
    BY <1>1, <2>1, AppendResult DEF RunnerCore
<1> QED
  BY <1>1, <1>2, <1>3 DEF RunnerCore

LEMMA CollectCore ==
    ASSUME RunnerCore, casePc \in {"beforeStep", "afterStep"},
           NEW r \in Outcome, Case!CollectStepResult(r)
    PROVE  RunnerCore' /\ runner' = runner
<1>1. /\ stepResults' = Append(stepResults, r)
      /\ UNCHANGED <<runner, testStepResults, overallResult, returned>>
  BY DEF Case!CollectStepResult
<1>2. r \in Result
  BY OutcomesAreResults
<1>3. stepResults' \in Seq(Result)
  BY <1>1, <1>2, AppendResult DEF RunnerCore
<1> QED
  BY <1>1, <1>3 DEF RunnerCore

(* A step of the runner keeps its arguments; one that skips enters no user *)
(* code.                                                                   *)
LEMMA RunnerStep ==
    ASSUME RunnerCore, Case!Next
    PROVE  RunnerCore' /\ runner' = runner
<1>1. CASE Case!StartAttempt
  BY <1>1 DEF RunnerCore, Case!StartAttempt
<1>2. CASE Case!ReturnUnknown
  BY <1>2, CaseNames, StatusValues DEF RunnerCore, Case!ReturnUnknown
<1>3. CASE Case!StartTestStep
  BY <1>3 DEF RunnerCore, Case!StartTestStep, Case!runState
<1>4. CASE Case!SkipHook
  <2>1. /\ Case!Record(Quiet(SKIPPED))
        /\ stepResults' = stepResults /\ invoked' = invoked
    BY <1>4, CaseNames DEF Case!SkipHook, Case!RecordHook
  <2> QED
    BY <2>1, RecordCore, OutcomesAreResults, StatusValues DEF RunnerCore
<1>5. CASE Case!InvokeHook
  <2>1. PICK r \in Outcome : Case!Record(r) /\ stepResults' = stepResults
    BY <1>5, CaseNames DEF Case!InvokeHook, Case!RecordHook
  <2>2. ~runner.skip
    BY <1>5 DEF Case!InvokeHook, Case!ShouldSkipHook
  <2> QED
    BY <2>1, <2>2, RecordCore, OutcomesAreResults DEF RunnerCore
<1>6. CASE Case!ReportUndefined
  <2>1. /\ Case!Record(Quiet(UNDEFINED))
        /\ stepResults' = stepResults /\ invoked' = invoked
    BY <1>6, CaseNames DEF Case!ReportUndefined, Case!RecordStep
  <2> QED
    BY <2>1, RecordCore, OutcomesAreResults, StatusValues DEF RunnerCore
<1>7. CASE Case!ReportAmbiguous
  <2>1. /\ Case!Record(Reported(AMBIGUOUS))
        /\ stepResults' = stepResults /\ invoked' = invoked
    BY <1>7, CaseNames DEF Case!ReportAmbiguous, Case!RecordStep
  <2> QED
    BY <2>1, RecordCore, OutcomesAreResults, StatusValues DEF RunnerCore
<1>8. CASE Case!SkipStep
  <2>1. /\ Case!Record(Quiet(SKIPPED))
        /\ stepResults' = stepResults /\ invoked' = invoked
    BY <1>8, CaseNames DEF Case!SkipStep, Case!RecordStep
  <2> QED
    BY <2>1, RecordCore, OutcomesAreResults, StatusValues DEF RunnerCore
<1>9. CASE Case!EnterStep
  <2>1. ~runner.skip
    BY <1>9, WorstStepResult DEF Case!EnterStep
  <2> QED
    BY <1>9, <2>1 DEF RunnerCore, Case!EnterStep
<1>10. CASE Case!InvokeBeforeStepHook
  BY <1>10, CollectCore, CaseNames DEF Case!InvokeBeforeStepHook
<1>11. CASE Case!InvokeBody
  BY <1>11, CollectCore, CaseNames DEF Case!InvokeBody
<1>12. CASE Case!OmitBody
  BY <1>12 DEF RunnerCore, Case!OmitBody, Case!runState
<1>13. CASE Case!InvokeAfterStepHook
  BY <1>13, CollectCore, CaseNames DEF Case!InvokeAfterStepHook
<1>14. CASE Case!FinishStep
  <2>1. /\ Case!Record(GetWorstTestStepResult(stepResults))
        /\ stepResults' = <<>> /\ ~runner.skip
    BY <1>14, CaseNames DEF Case!FinishStep, Case!RecordStep, RunnerCore
  <2>2. GetWorstTestStepResult(stepResults) \in Result
    BY WorstIsResult DEF RunnerCore
  <2>3. <<>> \in Seq(Result)
    OBVIOUS
  <2> QED
    BY <2>1, <2>2, <2>3, RecordCore
<1>15. CASE Case!FinishAttempt
  <2>1. overallResult' \in Status
    BY <1>15, WorstStepResult, StatusValues
       DEF Case!FinishAttempt, Case!WorstStatus, RunnerCore
  <2>2. returned' \in Status
    BY <1>15, <2>1, WorstStepResult DEF Case!FinishAttempt, RunnerCore
  <2> QED
    BY <1>15, <2>1, <2>2 DEF RunnerCore, Case!FinishAttempt
<1> QED
  BY <1>1, <1>2, <1>3, <1>4, <1>5, <1>6, <1>7, <1>8, <1>9, <1>10, <1>11, <1>12,
     <1>13, <1>14, <1>15 DEF Case!Next

-----------------------------------------------------------------------------
(* The run.                                                                *)

LEMMA SuitesType ==
    /\ Len(Suites) \in Nat /\ DOMAIN Suites = 1 .. Len(Suites)
    /\ \A i \in 1 .. Len(Suites) :
          Len(Suites[i]) \in Nat /\ DOMAIN Suites[i] = 1 .. Len(Suites[i])
<1>1. Suites \in Seq(Seq(Scenario))
  BY TestRunAssumption
<1> QED
  BY <1>1

LEMMA ScenarioPlaces ==
    \A c : c \in AllScenarios <=>
        \E i \in 1 .. Len(Suites) : \E j \in 1 .. Len(Suites[i]) : c = <<i, j>>
BY SuitesType DEF AllScenarios

(* Under a dry run, and while every hook passed, IsFailing says no.        *)
LEMMA IsFailingFacts ==
    ASSUME hookResults \in Seq(Result),
           \A j \in DOMAIN hookResults : hookResults[j].status >= PASSED
    PROVE  IsFailing(hookResults) <=> ~options.dryRun /\ HookDidNotPass
BY WorstIsResult DEF IsFailing, HookDidNotPass

LEMMA InitIInv == Init => IInv
<1> SUFFICES ASSUME Init PROVE IInv
  OBVIOUS
<1>1. /\ options \in Options /\ phase = "idle" /\ suite = 1 /\ scenario = 0
      /\ hookOpen = FALSE /\ hookResults = <<>> /\ failing = FALSE
      /\ suiteFailing = FALSE /\ failed = FALSE /\ success = FALSE
      /\ statuses = <<>> /\ failedHooks = {}
  BY DEF Init
<1>2. /\ runner = NoRunner /\ testStepResults = <<>> /\ stepResults = <<>>
      /\ overallResult = PASSED /\ returned = UNKNOWN /\ invoked = {}
  BY CaseNames DEF Init, Case!Construct
<1>3. DOMAIN statuses = {} /\ DOMAIN hookResults = {} /\ hookResults \in Seq(Result)
  BY <1>1
<1>4. TypeOK
  <2>1. /\ DOMAIN statuses \subseteq AllScenarios
        /\ \A c \in DOMAIN statuses : statuses[c] \in Status
    BY <1>3
  <2>2. suite \in 1 .. Len(Suites) + 1 /\ scenario \in Nat
    BY <1>1, SuitesType
  <2> QED
    BY <1>1, <1>3, <2>1, <2>2 DEF TypeOK
<1>5. ProgressInv
  <2>1. Past = {}
    BY <1>1, ScenarioPlaces DEF Past, InFeature
  <2> QED
    BY <1>1, <1>3, <2>1 DEF ProgressInv, InFeature
<1>6. HookInv
  BY <1>1, <1>3 DEF HookInv, HookPhases, HookDidNotPass
<1>7. FailingInv
  BY <1>1, <1>3 DEF FailingInv, InFeature, ScenarioFailed
<1>8. RunnerInv
  BY <1>1, <1>2, StatusValues DEF RunnerInv, NoRunner
<1> QED
  BY <1>4, <1>5, <1>6, <1>7, <1>8 DEF IInv

(* Steps outside of a scenario leave the runner alone.                     *)
LEMMA RunnerKept ==
    ASSUME RunnerInv, UNCHANGED caseVars, phase # "scenario", phase' # "scenario"
    PROVE  RunnerInv'
BY DEF RunnerInv, caseVars

(* Steps that only move on from one phase to the next, with the history    *)
(* and the flags as they are.                                              *)
LEMMA StartRunIInv == IInv /\ StartRun => IInv'
<1> SUFFICES ASSUME IInv, StartRun PROVE IInv'
  OBVIOUS
<1>1. RunnerInv'
  BY RunnerKept DEF IInv, StartRun
<1>2. TypeOK'
  BY DEF IInv, TypeOK, StartRun
<1>3. ProgressInv'
  BY DEF IInv, ProgressInv, StartRun, InFeature, Past
<1>4. HookInv'
  BY DEF IInv, HookInv, StartRun, HookPhases, HookDidNotPass
<1>5. FailingInv'
  BY DEF IInv, FailingInv, StartRun, InFeature, ScenarioFailed, IsStatusFailed
<1> QED
  BY <1>1, <1>2, <1>3, <1>4, <1>5 DEF IInv

LEMMA ConstructWorkerIInv == IInv /\ ConstructWorker => IInv'
<1> SUFFICES ASSUME IInv, ConstructWorker PROVE IInv'
  OBVIOUS
<1>1. RunnerInv'
  BY RunnerKept DEF IInv, ConstructWorker
<1>2. TypeOK'
  BY DEF IInv, TypeOK, ConstructWorker, HookPhases
<1>3. ProgressInv'
  BY DEF IInv, ProgressInv, ConstructWorker, InFeature, Past
<1>4. HookInv'
  BY DEF IInv, HookInv, ConstructWorker, HookPhases, HookDidNotPass
<1>5. FailingInv'
  BY DEF IInv, FailingInv, ConstructWorker, InFeature, ScenarioFailed, IsStatusFailed
<1> QED
  BY <1>1, <1>2, <1>3, <1>4, <1>5 DEF IInv

LEMMA StartTestRunHookIInv == IInv /\ StartTestRunHook => IInv'
<1> SUFFICES ASSUME IInv, StartTestRunHook PROVE IInv'
  OBVIOUS
<1>1. RunnerInv'
  BY RunnerKept DEF IInv, StartTestRunHook, HookPhases
<1>2. TypeOK'
  BY DEF IInv, TypeOK, StartTestRunHook
<1>3. ProgressInv'
  BY DEF IInv, ProgressInv, StartTestRunHook, InFeature, Past
<1>4. HookInv'
  BY DEF IInv, HookInv, StartTestRunHook, HookDidNotPass
<1>5. FailingInv'
  BY DEF IInv, FailingInv, StartTestRunHook, InFeature, ScenarioFailed, IsStatusFailed
<1> QED
  BY <1>1, <1>2, <1>3, <1>4, <1>5 DEF IInv

(* A hook's result joins the results of its group, and the history if it   *)
(* is not PASSED.                                                          *)
LEMMA FinishTestRunHookIInv == IInv /\ FinishTestRunHook => IInv'
<1> SUFFICES ASSUME IInv, FinishTestRunHook PROVE IInv'
  OBVIOUS
<1>1. PICK r \in Outcome :
        /\ r \in Result /\ r.status \in 1 .. 6
        /\ hookResults' = Append(hookResults, r)
        /\ failedHooks' = IF r.status # PASSED /\ ~options.dryRun
                          THEN failedHooks \cup {phase} ELSE failedHooks
  BY OutcomesAreResults DEF FinishTestRunHook, NoteHook, Outcome
<1>2. /\ phase \in HookPhases /\ phase' = phase /\ hookOpen' = FALSE
      /\ UNCHANGED <<options, suite, scenario, failing, suiteFailing,
                     failed, success, statuses>>
  BY DEF IInv, HookInv, FinishTestRunHook
<1>3. /\ hookResults' \in Seq(Result)
      /\ DOMAIN hookResults' = DOMAIN hookResults \cup {Len(hookResults) + 1}
      /\ \A j \in DOMAIN hookResults : hookResults'[j] = hookResults[j]
      /\ hookResults'[Len(hookResults) + 1] = r
  BY <1>1, AppendResult DEF IInv, TypeOK
<1>4. HookDidNotPass' <=> HookDidNotPass \/ r.status # PASSED
  BY <1>3 DEF HookDidNotPass
<1>5. RunnerInv'
  BY <1>2, RunnerKept DEF IInv, FinishTestRunHook, HookPhases
<1>6. TypeOK'
  BY <1>1, <1>2, <1>3 DEF IInv, TypeOK
<1>7. ProgressInv'
  BY <1>2 DEF IInv, ProgressInv, InFeature, Past
<1>8. HookInv'
  <2>1. \A j \in DOMAIN hookResults' : hookResults'[j].status >= PASSED
    BY <1>1, <1>3, StatusValues DEF IInv, HookInv
  <2> QED
    BY <1>1, <1>2, <1>4, <2>1 DEF IInv, HookInv, HookPhases
<1>9. FailingInv'
  BY <1>1, <1>2 DEF IInv, FailingInv, InFeature, ScenarioFailed, IsStatusFailed
<1> QED
  BY <1>5, <1>6, <1>7, <1>8, <1>9 DEF IInv

(* A raised hook ends its feature, which then counts as failed, or the run.*)
LEMMA ThrowGlobalHookErrorIInv == IInv /\ ThrowGlobalHookError => IInv'
<1> SUFFICES ASSUME IInv, ThrowGlobalHookError PROVE IInv'
  OBVIOUS
<1>1. /\ phase \in HookPhases /\ hookOpen' = FALSE /\ hookResults' = <<>>
      /\ ~options.dryRun /\ options.failGlobalHookFast
      /\ failedHooks' = failedHooks \cup {phase}
      /\ UNCHANGED <<options, scenario, suiteFailing, failed, success, statuses>>
  BY DEF IInv, HookInv, ThrowGlobalHookError, Throws, NoteHook
<1>2. /\ hookResults' \in Seq(Result) /\ DOMAIN hookResults' = {}
  BY <1>1
<1>3. phase' \in {"suites", "escaped"}
  BY DEF ThrowGlobalHookError
<1>4. RunnerInv'
  BY <1>1, <1>3, RunnerKept DEF IInv, ThrowGlobalHookError, HookPhases
<1>5. CASE phase \in CaughtPhases
  <2>1. phase' = "suites" /\ suite' = suite + 1 /\ failing' = TRUE
    BY <1>5 DEF ThrowGlobalHookError
  <2>2. phase \in {"beforeFeature", "afterFeature"}
    BY <1>5 DEF CaughtPhases
  <2>3. TypeOK'
    <3>1. suite' \in 1 .. Len(Suites) + 1
      BY <2>1, <2>2, SuitesType DEF IInv, TypeOK, ProgressInv, InFeature
    <3> QED
      BY <1>1, <1>2, <2>1, <3>1 DEF IInv, TypeOK
  <2>4. ProgressInv'
    <3>1. Past \subseteq Past'
      <4> SUFFICES ASSUME NEW c \in Past PROVE c \in Past'
        OBVIOUS
      <4>1. c \in AllScenarios /\ c[1] \in Nat /\ c[1] <= suite
        BY ScenarioPlaces, SuitesType DEF Past, IInv, TypeOK
      <4> QED
        BY <2>1, <4>1 DEF Past, IInv, TypeOK
    <3> QED
      BY <1>1, <2>1, <2>2, <3>1 DEF IInv, ProgressInv, InFeature
  <2>5. HookInv'
    BY <1>1, <1>2, <2>1, <2>2 DEF IInv, HookInv, HookPhases, HookDidNotPass
  <2>6. FailingInv'
    BY <1>1, <2>1, <2>2 DEF IInv, FailingInv, InFeature, ScenarioFailed, IsStatusFailed
  <2> QED
    BY <1>4, <2>3, <2>4, <2>5, <2>6 DEF IInv
<1>6. CASE phase \notin CaughtPhases
  <2>1. phase' = "escaped" /\ suite' = suite /\ failing' = failing
    BY <1>6 DEF ThrowGlobalHookError
  <2>2. phase \in {"beforeAll", "afterAll"}
    BY <1>1, <1>6 DEF CaughtPhases, HookPhases
  <2>3. TypeOK'
    BY <1>1, <1>2, <2>1 DEF IInv, TypeOK
  <2>4. ProgressInv'
    BY <2>1 DEF ProgressInv, InFeature
  <2>5. HookInv'
    BY <1>1, <1>2, <2>1, <2>2 DEF IInv, HookInv, HookPhases, HookDidNotPass
  <2>6. FailingInv'
    BY <1>1, <2>1, <2>2 DEF IInv, FailingInv, InFeature, ScenarioFailed, IsStatusFailed
  <2> QED
    BY <1>4, <2>3, <2>4, <2>5, <2>6 DEF IInv
<1> QED
  BY <1>5, <1>6

(* The BeforeAll group is over: the features follow, or AfterAll does.     *)
LEMMA FinishBeforeAllIInv == IInv /\ FinishBeforeAll => IInv'
<1> SUFFICES ASSUME IInv, FinishBeforeAll PROVE IInv'
  OBVIOUS
<1>1. /\ phase = "beforeAll" /\ ~hookOpen
      /\ failing' = (~options.dryRun /\ HookDidNotPass)
      /\ phase' = IF failing' THEN "afterAll" ELSE "suites"
      /\ hookResults' = <<>>
      /\ UNCHANGED <<options, suite, scenario, hookOpen, suiteFailing, failed,
                     success, statuses, failedHooks>>
  <2>1. IsFailing(hookResults) <=> ~options.dryRun /\ HookDidNotPass
    BY IsFailingFacts DEF IInv, TypeOK, HookInv
  <2>2. IsFailing(hookResults) \in BOOLEAN
    BY DEF IsFailing
  <2>3. failing' = (~options.dryRun /\ HookDidNotPass)
    BY <2>1, <2>2 DEF FinishBeforeAll
  <2> QED
    BY <2>3 DEF FinishBeforeAll, HooksDone
<1>2. failing' \in BOOLEAN /\ hookResults' \in Seq(Result) /\ DOMAIN hookResults' = {}
  BY <1>1
<1>3. RunnerInv'
  BY <1>1, RunnerKept DEF IInv, FinishBeforeAll
<1>4. TypeOK'
  BY <1>1, <1>2 DEF IInv, TypeOK, HookPhases
<1>5. ProgressInv'
  <2>1. Past' = Past
    BY <1>1 DEF Past, InFeature
  <2> QED
    BY <1>1, <2>1 DEF IInv, ProgressInv, InFeature
<1>6. HookInv'
  BY <1>1, <1>2 DEF IInv, HookInv, HookPhases, HookDidNotPass
<1>7. FailingInv'
  <2>1. ~ScenarioFailed /\ ~ScenarioFailed'
    BY <1>1 DEF IInv, ProgressInv, ScenarioFailed
  <2>2. failing' => "beforeAll" \in failedHooks'
    BY <1>1 DEF IInv, HookInv
  <2> QED
    BY <1>1, <1>2, <2>1, <2>2 DEF IInv, FailingInv, InFeature
<1> QED
  BY <1>3, <1>4, <1>5, <1>6, <1>7 DEF IInv

LEMMA StartSuiteIInv == IInv /\ StartSuite => IInv'
<1> SUFFICES ASSUME IInv, StartSuite PROVE IInv'
  OBVIOUS
<1>1. /\ phase = "suites" /\ suite <= Len(Suites)
      /\ phase' \in {"beforeFeature", "scenarios"}
      /\ scenario' = 0 /\ suiteFailing' = failing /\ failed' = FALSE
      /\ UNCHANGED <<options, suite, hookOpen, hookResults, failing, success,
                     statuses, failedHooks>>
  BY DEF StartSuite
<1>2. RunnerInv'
  BY <1>1, RunnerKept DEF IInv, StartSuite
<1>3. TypeOK'
  BY <1>1 DEF IInv, TypeOK, HookPhases
<1>4. ProgressInv'
  <2>1. Past' = Past
    <3>1. \A c \in AllScenarios : c[2] >= 1
      BY ScenarioPlaces, SuitesType
    <3> QED
      BY <1>1, <3>1, ScenarioPlaces, SuitesType DEF Past, InFeature
  <2> QED
    BY <1>1, <2>1, SuitesType DEF IInv, TypeOK, ProgressInv, InFeature
<1>5. HookInv'
  BY <1>1 DEF IInv, HookInv, HookPhases, HookDidNotPass
<1>6. FailingInv'
  BY <1>1 DEF IInv, FailingInv, InFeature, ScenarioFailed, IsStatusFailed
<1> QED
  BY <1>2, <1>3, <1>4, <1>5, <1>6 DEF IInv

LEMMA FinishSuitesIInv == IInv /\ FinishSuites => IInv'
<1> SUFFICES ASSUME IInv, FinishSuites PROVE IInv'
  OBVIOUS
<1>1. /\ phase = "suites" /\ suite > Len(Suites) /\ phase' = "afterAll"
      /\ UNCHANGED <<options, suite, scenario, hookOpen, hookResults, failing,
                     suiteFailing, failed, success, statuses, failedHooks>>
  BY DEF FinishSuites
<1>2. RunnerInv'
  BY <1>1, RunnerKept DEF IInv, FinishSuites
<1>3. TypeOK'
  BY <1>1 DEF IInv, TypeOK, HookPhases
<1>4. ProgressInv'
  <2>1. suite = Len(Suites) + 1
    BY <1>1, SuitesType DEF IInv, TypeOK
  <2>2. Past' = Past
    BY <1>1 DEF Past, InFeature
  <2> QED
    BY <1>1, <2>1, <2>2 DEF IInv, ProgressInv, InFeature
<1>5. HookInv'
  BY <1>1 DEF IInv, HookInv, HookPhases, HookDidNotPass
<1>6. FailingInv'
  BY <1>1 DEF IInv, FailingInv, InFeature, ScenarioFailed, IsStatusFailed
<1> QED
  BY <1>2, <1>3, <1>4, <1>5, <1>6 DEF IInv

LEMMA FinishBeforeFeatureIInv == IInv /\ FinishBeforeFeature => IInv'
<1> SUFFICES ASSUME IInv, FinishBeforeFeature PROVE IInv'
  OBVIOUS
<1>1. /\ phase = "beforeFeature" /\ ~hookOpen /\ phase' = "scenarios"
      /\ suiteFailing' \in BOOLEAN /\ (suiteFailing => suiteFailing')
      /\ hookResults' = <<>>
      /\ UNCHANGED <<options, suite, scenario, hookOpen, failing, failed,
                     success, statuses, failedHooks>>
  BY DEF FinishBeforeFeature, HooksDone, IInv, TypeOK
<1>2. hookResults' \in Seq(Result) /\ DOMAIN hookResults' = {}
  BY <1>1
<1>3. RunnerInv'
  BY <1>1, RunnerKept DEF IInv, FinishBeforeFeature
<1>4. TypeOK'
  BY <1>1, <1>2 DEF IInv, TypeOK
<1>5. ProgressInv'
  <2>1. Past' = Past
    BY <1>1 DEF Past, InFeature
  <2> QED
    BY <1>1, <2>1, SuitesType DEF IInv, TypeOK, ProgressInv, InFeature
<1>6. HookInv'
  BY <1>1, <1>2 DEF IInv, HookInv, HookPhases, HookDidNotPass
<1>7. FailingInv'
  BY <1>1 DEF IInv, FailingInv, InFeature, ScenarioFailed, IsStatusFailed
<1> QED
  BY <1>3, <1>4, <1>5, <1>6, <1>7 DEF IInv

(* A runner is built with `skip' when there is a reason to skip.           *)
LEMMA StartScenarioIInv == IInv /\ StartScenario => IInv'
<1> SUFFICES ASSUME IInv, StartScenario PROVE IInv'
  OBVIOUS
<1>1. /\ phase = "scenarios" /\ scenario < Len(Suites[suite]) /\ phase' = "scenario"
      /\ UNCHANGED <<options, suite, scenario, hookOpen, hookResults, failing,
                     suiteFailing, failed, success, statuses, failedHooks>>
  BY DEF StartScenario
<1>2. /\ runner'.skip = SkipsTestCase
      /\ casePc' \in {"attempts", "thrown"}
      /\ testStepResults' = <<>> /\ stepResults' = <<>>
      /\ overallResult' = PASSED /\ returned' = UNKNOWN /\ invoked' = {}
  BY CaseNames DEF StartScenario, Case!Renew
<1>3. RunnerInv'
  <2>1. testStepResults' \in Seq(Result) /\ stepResults' \in Seq(Result)
    BY <1>2
  <2>2. DOMAIN testStepResults' = {}
    BY <1>2
  <2>3. SkipsTestCase' => runner'.skip
    BY <1>1, <1>2 DEF SkipsTestCase
  <2> QED
    BY <1>1, <1>2, <2>1, <2>2, <2>3, StatusValues DEF RunnerInv
<1>4. TypeOK'
  BY <1>1 DEF IInv, TypeOK
<1>5. ProgressInv'
  <2>1. Past' = Past
    BY <1>1 DEF Past, InFeature
  <2> QED
    BY <1>1, <2>1 DEF IInv, ProgressInv, InFeature
<1>6. HookInv'
  BY <1>1 DEF IInv, HookInv, HookPhases, HookDidNotPass
<1>7. FailingInv'
  BY <1>1 DEF IInv, FailingInv, InFeature, ScenarioFailed, IsStatusFailed
<1> QED
  BY <1>3, <1>4, <1>5, <1>6, <1>7 DEF IInv

LEMMA RunScenarioIInv == IInv /\ RunScenario => IInv'
<1> SUFFICES ASSUME IInv, RunScenario PROVE IInv'
  OBVIOUS
<1>1. phase = "scenario" /\ Case!Next /\ UNCHANGED workerVars
  BY DEF RunScenario
<1>2. RunnerCore' /\ runner' = runner
  BY <1>1, RunnerStep DEF IInv, RunnerInv, RunnerCore
<1>3. RunnerInv'
  BY <1>1, <1>2 DEF IInv, RunnerInv, RunnerCore, workerVars, SkipsTestCase
<1>4. TypeOK' /\ HookInv'
  BY <1>1 DEF IInv, TypeOK, HookInv, HookDidNotPass, workerVars
<1>5. ProgressInv'
  BY <1>1 DEF IInv, ProgressInv, Past, InFeature, workerVars
<1>6. FailingInv'
  BY <1>1 DEF IInv, FailingInv, InFeature, ScenarioFailed, IsStatusFailed, workerVars
<1> QED
  BY <1>3, <1>4, <1>5, <1>6 DEF IInv

(* The scenario's status joins the history and the flag of its feature.    *)
LEMMA FinishScenarioIInv == IInv /\ FinishScenario => IInv'
<1> SUFFICES ASSUME IInv, FinishScenario PROVE IInv'
  OBVIOUS
<1> DEFINE this == <<suite, scenario + 1>>
<1>1. /\ phase = "scenario" /\ phase' = "scenarios" /\ scenario' = scenario + 1
      /\ UNCHANGED <<options, suite, hookOpen, hookResults, failing,
                     suiteFailing, success, failedHooks>>
  BY DEF FinishScenario
<1>2. /\ DOMAIN statuses' = DOMAIN statuses \cup {this}
      /\ statuses'[this] = returned
      /\ \A c \in DOMAIN statuses : c # this => statuses'[c] = statuses[c]
  BY DEF FinishScenario
<1>3. failed' = (failed \/ IsStatusFailed(returned))
  BY DEF FinishScenario
<1>4. /\ runner' = NoRunner /\ testStepResults' = <<>> /\ stepResults' = <<>>
      /\ overallResult' = PASSED /\ returned' = UNKNOWN /\ invoked' = {}
  BY CaseNames DEF FinishScenario, Case!Renew
<1>5. /\ suite \in 1 .. Len(Suites) /\ scenario \in Nat
      /\ scenario + 1 \in 1 .. Len(Suites[suite])
  BY <1>1, SuitesType DEF IInv, TypeOK, ProgressInv, InFeature
<1>6. this \in AllScenarios /\ this \notin Past /\ this \notin DOMAIN statuses
  <2>1. this \in AllScenarios /\ this \notin Past
    BY <1>5, ScenarioPlaces DEF Past
  <2> QED
    BY <1>1, <2>1 DEF IInv, ProgressInv
<1>7. RunnerInv'
  <2>1. testStepResults' \in Seq(Result) /\ stepResults' \in Seq(Result)
    BY <1>4
  <2> QED
    BY <1>1, <1>4, <2>1, StatusValues DEF RunnerInv, NoRunner
<1>8. TypeOK'
  <2>1. /\ DOMAIN statuses' \subseteq AllScenarios
        /\ \A c \in DOMAIN statuses' : statuses'[c] \in Status
    BY <1>2, <1>6 DEF IInv, TypeOK, RunnerInv
  <2>2. failed' \in BOOLEAN
    BY <1>3 DEF IInv, TypeOK, IsStatusFailed
  <2>3. scenario' \in Nat /\ suite' \in 1 .. Len(Suites) + 1
    BY <1>1, <1>5, SuitesType
  <2> QED
    BY <1>1, <2>1, <2>2, <2>3 DEF IInv, TypeOK
<1>9. ProgressInv'
  <2>1. Past' = Past \cup {this}
    <3> SUFFICES ASSUME NEW c \in AllScenarios
                 PROVE  c \in Past' <=> c \in Past \/ c = this
      BY <1>6 DEF Past
    <3>1. PICK i \in 1 .. Len(Suites) : \E j \in 1 .. Len(Suites[i]) : c = <<i, j>>
      BY ScenarioPlaces
    <3>2. PICK j \in 1 .. Len(Suites[i]) : c = <<i, j>>
      BY <3>1
    <3>3. i \in Nat /\ j \in Nat /\ c[1] = i /\ c[2] = j
      BY <3>1, <3>2, SuitesType
    <3> QED
      BY <1>1, <1>5, <3>2, <3>3 DEF Past, InFeature
  <2> QED
    BY <1>1, <1>2, <1>5, <2>1, SuitesType DEF IInv, ProgressInv, InFeature
<1>10. HookInv'
  BY <1>1 DEF IInv, HookInv, HookPhases, HookDidNotPass
<1>11. FailingInv'
  <2>2. ScenarioFailed' <=> ScenarioFailed \/ IsStatusFailed(returned)
    BY <1>1, <1>2, <1>6 DEF ScenarioFailed, IsStatusFailed
  <2>3. failed' <=> failed \/ IsStatusFailed(returned)
    BY <1>3
  <2>4. options.dryRun => ~IsStatusFailed(returned)
    BY DEF IsStatusFailed
  <2> QED
    BY <1>1, <2>2, <2>3, <2>4 DEF IInv, FailingInv, InFeature
<1> QED
  BY <1>7, <1>8, <1>9, <1>10, <1>11 DEF IInv

(* RunTestSuite returns: its flag becomes the flag of the run.             *)
LEMMA LeaveSuiteIInv ==
    ASSUME IInv, LeaveSuite, hookResults' = <<>>,
           phase \in {"scenarios", "afterFeature"}, ~hookOpen,
           scenario = Len(Suites[suite])
    PROVE  IInv'
<1>1. /\ failing' = (failing \/ failed) /\ suite' = suite + 1 /\ phase' = "suites"
      /\ UNCHANGED <<options, scenario, hookOpen, suiteFailing, failed, success,
                     statuses, failedHooks>>
  BY DEF LeaveSuite, FailingAfterSuite
<1>2. hookResults' \in Seq(Result) /\ DOMAIN hookResults' = {}
  OBVIOUS
<1>3. suite \in 1 .. Len(Suites)
  BY SuitesType DEF IInv, TypeOK, ProgressInv, InFeature
<1>4. RunnerInv'
  BY <1>1, RunnerKept DEF IInv, LeaveSuite
<1>5. TypeOK'
  BY <1>1, <1>2, <1>3, SuitesType DEF IInv, TypeOK
<1>6. ProgressInv'
  <2>1. Past' = Past
    <3> SUFFICES ASSUME NEW c \in AllScenarios
                 PROVE  c \in Past' <=> c \in Past
      BY DEF Past
    <3>0. PICK i \in 1 .. Len(Suites) : \E j \in 1 .. Len(Suites[i]) : c = <<i, j>>
      BY ScenarioPlaces
    <3>1. PICK j \in 1 .. Len(Suites[i]) : c = <<i, j>>
      BY <3>0
    <3>2. i \in Nat /\ j \in Nat /\ c[1] = i /\ c[2] = j
      BY <3>1, SuitesType
    <3> QED
      BY <1>1, <1>3, <3>1, <3>2, SuitesType DEF Past, InFeature
  <2> QED
    BY <1>1, <2>1 DEF IInv, ProgressInv, InFeature
<1>7. HookInv'
  BY <1>1, <1>2 DEF IInv, HookInv, HookPhases, HookDidNotPass
<1>8. FailingInv'
  <2>1. ScenarioFailed' <=> ScenarioFailed
    BY <1>1 DEF ScenarioFailed, IsStatusFailed
  <2> QED
    BY <1>1, <2>1 DEF IInv, FailingInv, InFeature
<1> QED
  BY <1>4, <1>5, <1>6, <1>7, <1>8 DEF IInv

LEMMA FinishSuiteIInv == IInv /\ FinishSuite => IInv'
BY LeaveSuiteIInv DEF IInv, HookInv, HookPhases, FinishSuite

LEMMA FinishAfterFeatureIInv == IInv /\ FinishAfterFeature => IInv'
BY LeaveSuiteIInv DEF IInv, ProgressInv, FinishAfterFeature, HooksDone

LEMMA FinishScenariosIInv == IInv /\ FinishScenarios => IInv'
<1> SUFFICES ASSUME IInv, FinishScenarios PROVE IInv'
  OBVIOUS
<1>1. /\ phase = "scenarios" /\ scenario = Len(Suites[suite])
      /\ phase' = "afterFeature"
      /\ UNCHANGED <<options, suite, scenario, hookOpen, hookResults, failing,
                     suiteFailing, failed, success, statuses, failedHooks>>
  BY DEF FinishScenarios
<1>2. RunnerInv'
  BY <1>1, RunnerKept DEF IInv, FinishScenarios
<1>3. TypeOK'
  BY <1>1 DEF IInv, TypeOK, HookPhases
<1>4. ProgressInv'
  BY <1>1 DEF IInv, ProgressInv, Past, InFeature
<1>5. HookInv'
  BY <1>1 DEF IInv, HookInv, HookPhases, HookDidNotPass
<1>6. FailingInv'
  BY <1>1 DEF IInv, FailingInv, InFeature, ScenarioFailed, IsStatusFailed
<1> QED
  BY <1>2, <1>3, <1>4, <1>5, <1>6 DEF IInv

LEMMA FinishRunIInv == IInv /\ FinishRun => IInv'
<1> SUFFICES ASSUME IInv, FinishRun PROVE IInv'
  OBVIOUS
<1>1. /\ phase = "afterAll" /\ ~hookOpen /\ phase' = "finished"
      /\ hookResults' = <<>>
      /\ UNCHANGED <<options, suite, scenario, hookOpen, suiteFailing, failed,
                     statuses, failedHooks>>
  BY DEF FinishRun, HooksDone
<1>2. /\ failing' \in BOOLEAN
      /\ failing' <=> failing \/ (~options.dryRun /\ HookDidNotPass)
      /\ success' \in BOOLEAN /\ (success' <=> ~failing')
  <2>1. IsFailing(hookResults) <=> ~options.dryRun /\ HookDidNotPass
    BY IsFailingFacts DEF IInv, TypeOK, HookInv
  <2>2. failing' = (failing \/ IsFailing(hookResults)) /\ success' = ~failing'
    BY DEF FinishRun
  <2> QED
    BY <2>1, <2>2 DEF IInv, TypeOK
<1>3. hookResults' \in Seq(Result) /\ DOMAIN hookResults' = {}
  BY <1>1
<1>4. RunnerInv'
  BY <1>1, RunnerKept DEF IInv, FinishRun
<1>5. TypeOK'
  BY <1>1, <1>2, <1>3 DEF IInv, TypeOK
<1>6. ProgressInv'
  <2>1. Past' = Past
    BY <1>1 DEF Past, InFeature
  <2> QED
    BY <1>1, <1>2, <2>1 DEF IInv, ProgressInv, InFeature
<1>7. HookInv'
  BY <1>1, <1>2, <1>3 DEF IInv, HookInv, HookPhases, HookDidNotPass
<1>8. FailingInv'
  <2>1. ScenarioFailed' <=> ScenarioFailed
    BY <1>1 DEF ScenarioFailed, IsStatusFailed
  <2>2. HookDidNotPass /\ ~options.dryRun => "afterAll" \in failedHooks
    BY <1>1 DEF IInv, HookInv
  <2> QED
    BY <1>1, <1>2, <2>1, <2>2 DEF IInv, FailingInv, InFeature
<1> QED
  BY <1>4, <1>5, <1>6, <1>7, <1>8 DEF IInv

LEMMA StepIInv == IInv /\ [Next]_vars => IInv'
<1>1. IInv /\ Next => IInv'
  BY StartRunIInv, ConstructWorkerIInv, StartTestRunHookIInv, FinishTestRunHookIInv,
     ThrowGlobalHookErrorIInv, FinishBeforeAllIInv, StartSuiteIInv, FinishSuitesIInv,
     FinishBeforeFeatureIInv, StartScenarioIInv, RunScenarioIInv, FinishScenarioIInv,
     FinishScenariosIInv, FinishSuiteIInv, FinishAfterFeatureIInv, FinishRunIInv
     DEF Next
<1>2. IInv /\ UNCHANGED vars => IInv'
  <2> SUFFICES ASSUME IInv, UNCHANGED vars PROVE IInv'
    OBVIOUS
  <2>1. UNCHANGED workerVars /\ UNCHANGED caseVars
    BY DEF vars
  <2>2. TypeOK' /\ HookInv'
    BY <2>1 DEF IInv, TypeOK, HookInv, HookDidNotPass, workerVars
  <2>3. ProgressInv'
    BY <2>1 DEF IInv, ProgressInv, Past, InFeature, workerVars
  <2>4. FailingInv'
    BY <2>1 DEF IInv, FailingInv, InFeature, ScenarioFailed, IsStatusFailed, workerVars
  <2>5. RunnerInv'
    BY <2>1 DEF IInv, RunnerInv, SkipsTestCase, workerVars, caseVars
  <2> QED
    BY <2>2, <2>3, <2>4, <2>5 DEF IInv
<1> QED
  BY <1>1, <1>2

(* The inductive invariant.                                                *)
THEOREM RunInvariance == Spec => []IInv
BY InitIInv, StepIInv, PTL DEF Spec

-----------------------------------------------------------------------------
(* What follows from it.                                                   *)

(* The variables of a run keep their types.                                *)
THEOREM RunTypeCorrect == Spec => []TypeOK
<1>1. IInv => TypeOK
  BY DEF IInv
<1> QED
  BY <1>1, RunInvariance, PTL

(* A run that reports success came past every scenario and none failed.    *)
LEMMA SuccessOf ==
    ASSUME IInv, success, ~options.dryRun
    PROVE  /\ DOMAIN statuses = AllScenarios
           /\ \A c \in AllScenarios : ~IsStatusFailed(statuses[c])
<1>1. phase = "finished" /\ ~failing
      BY DEF IInv, FailingInv
<1>2. suite = Len(Suites) + 1 /\ DOMAIN statuses = Past
      BY <1>1 DEF IInv, ProgressInv
<1>3. \A c \in AllScenarios : c[1] < suite
      BY <1>2, ScenarioPlaces, SuitesType
<1>4. ~ScenarioFailed
      BY <1>1 DEF IInv, FailingInv, InFeature
<1> QED BY <1>2, <1>3, <1>4 DEF Past, ScenarioFailed

(* A run that reports success ran every scenario, none failed, and every   *)
(* BeforeAll and AfterAll hook passed.                                     *)
THEOREM SuccessEarned == Spec => []SuccessIsEarned
<1>1. IInv => SuccessIsEarned
  <2> SUFFICES ASSUME IInv, success, ~options.dryRun
               PROVE  /\ failedHooks \cap {"beforeAll", "afterAll"} = {}
                      /\ DOMAIN statuses = AllScenarios
                      /\ \A c \in AllScenarios : ~IsStatusFailed(statuses[c])
    BY DEF SuccessIsEarned
  <2>1. phase = "finished" /\ ~failing
    BY DEF IInv, FailingInv
  <2>2. failedHooks \cap {"beforeAll", "afterAll"} = {}
    BY <2>1 DEF IInv, HookInv
  <2> QED
    BY <2>2, SuccessOf
<1> QED
  BY <1>1, RunInvariance, PTL

(* A run that reports failure had a scenario or a hook to fail for.        *)
THEOREM FailureExplained == Spec => []FailureHasAReason
<1>1. IInv => FailureHasAReason
  BY DEF IInv, TypeOK, FailingInv, ScenarioFailed, FailureHasAReason
<1> QED
  BY <1>1, RunInvariance, PTL

(* Under failFast a scenario after a failed one is skipped.                *)
THEOREM FailFastSkips == Spec => []FailFastSkipsTheRest
<1>1. IInv => FailFastSkipsTheRest
  BY DEF IInv, FailingInv, RunnerInv, ScenarioFailed, InFeature, SkipsTestCase,
         FailFastSkipsTheRest
<1> QED
  BY <1>1, RunInvariance, PTL

(* A dry run runs no user code and succeeds.                               *)
THEOREM DryRunsSucceed == Spec => []DryRunSucceeds
<1>1. IInv => DryRunSucceeds
  BY DEF IInv, FailingInv, RunnerInv, SkipsTestCase, DryRunSucceeds
<1> QED
  BY <1>1, RunInvariance, PTL

(***************************************************************************)
(* TestRun implements MessageProtocol: whatever the features, the hooks,   *)
(* the options and the outcomes of user code, the messages of a run come   *)
(* in an order its listeners can rely on.                                  *)
(***************************************************************************)

(* What a step of the runner does to its messages.                         *)

LEMMA AppendLength == ASSUME NEW s \in Seq(Result), NEW r \in Result
                      PROVE  Len(Append(s, r)) = Len(s) + 1 /\ Len(s) \in Nat
OBVIOUS

AdmitsAttempt ==
    /\ casePc = "attempts" /\ attempt < Case!MaximumAttempts(runner)
    /\ casePc' = "testSteps" /\ testStepResults' = <<>> /\ attempt' = attempt

AdmitsNone ==
    /\ casePc = "attempts" /\ attempt >= Case!MaximumAttempts(runner)
    /\ casePc' = "returned" /\ attempt' = attempt

StartsStep ==
    /\ casePc = "testSteps" /\ Len(testStepResults) + 1 <= Len(runner.testSteps)
    /\ casePc' = "dispatch"
    /\ testStepResults' = testStepResults /\ attempt' = attempt

InStep == casePc \in {"dispatch", "beforeStep", "afterStep"}

StaysInStep ==
    /\ InStep /\ casePc' \in {"beforeStep", "afterStep"}
    /\ testStepResults' = testStepResults /\ attempt' = attempt

EndsStep ==
    /\ InStep /\ casePc' = "testSteps" /\ attempt' = attempt
    /\ Len(testStepResults') = Len(testStepResults) + 1

EndsAttempt ==
    /\ casePc = "testSteps" /\ Len(testStepResults) + 1 > Len(runner.testSteps)
    /\ IF Case!WillRetry THEN casePc' = "attempts" /\ attempt' = attempt + 1
       ELSE casePc' = "returned" /\ attempt' = attempt

(* The fifteen actions of the runner, as the listeners tell them apart.    *)
LEMMA RunnerMoves ==
    ASSUME RunnerCore, Case!Next
    PROVE  AdmitsAttempt \/ AdmitsNone \/ StartsStep \/ StaysInStep \/ EndsStep \/ EndsAttempt
<1> testStepResults \in Seq(Result) /\ stepResults \in Seq(Result)
    BY DEF RunnerCore
<1>1. CASE Case!StartAttempt
      BY <1>1 DEF Case!StartAttempt, AdmitsAttempt
<1>2. CASE Case!ReturnUnknown
      BY <1>2 DEF Case!ReturnUnknown, AdmitsNone
<1>3. CASE Case!StartTestStep
      BY <1>3 DEF Case!StartTestStep, Case!runState, Case!Current, StartsStep
<1>4. ASSUME NEW r \in Result, Case!Record(r), InStep PROVE EndsStep
      BY <1>4, AppendLength DEF Case!Record, EndsStep
<1>5. CASE Case!SkipHook
      BY <1>4, <1>5, CaseNames, OutcomesAreResults DEF Case!SkipHook, Case!RecordHook, InStep
<1>6. CASE Case!InvokeHook
  <2>1. PICK r \in Outcome : Case!Record(r)
        BY <1>6, CaseNames DEF Case!InvokeHook, Case!RecordHook
  <2> QED BY <1>4, <1>6, <2>1, OutcomesAreResults DEF Case!InvokeHook, InStep
<1>7. CASE Case!ReportUndefined
      BY <1>4, <1>7, CaseNames, OutcomesAreResults
         DEF Case!ReportUndefined, Case!RecordStep, InStep
<1>8. CASE Case!ReportAmbiguous
      BY <1>4, <1>8, CaseNames, OutcomesAreResults
         DEF Case!ReportAmbiguous, Case!RecordStep, InStep
<1>9. CASE Case!SkipStep
      BY <1>4, <1>9, CaseNames, OutcomesAreResults DEF Case!SkipStep, Case!RecordStep, InStep
<1>10. CASE Case!EnterStep
      BY <1>10 DEF Case!EnterStep, StaysInStep, InStep
<1>11. CASE Case!InvokeBeforeStepHook
      BY <1>11 DEF Case!InvokeBeforeStepHook, Case!CollectStepResult, StaysInStep, InStep
<1>12. CASE Case!InvokeBody
      BY <1>12 DEF Case!InvokeBody, Case!CollectStepResult, StaysInStep, InStep
<1>13. CASE Case!OmitBody
      BY <1>13 DEF Case!OmitBody, Case!runState, StaysInStep, InStep
<1>14. CASE Case!InvokeAfterStepHook
      BY <1>14 DEF Case!InvokeAfterStepHook, Case!CollectStepResult, StaysInStep, InStep
<1>15. CASE Case!FinishStep
  <2>1. Case!Record(GetWorstTestStepResult(stepResults)) /\ InStep
        BY <1>15, CaseNames DEF Case!FinishStep, Case!RecordStep, InStep
  <2> QED BY <1>4, <2>1, WorstIsResult
<1>16. CASE Case!FinishAttempt
      BY <1>16 DEF Case!FinishAttempt, Case!Current, EndsAttempt
<1> QED BY <1>1, <1>2, <1>3, <1>5, <1>6, <1>7, <1>8, <1>9, <1>10, <1>11, <1>12, <1>13,
           <1>14, <1>15, <1>16 DEF Case!Next

-----------------------------------------------------------------------------
(* The invariant.                                                          *)

(* An assembled test case is a list of test steps.                         *)
TestSteps == Seq({"hook", "undefined", "single", "ambiguous"})

LEMMA AssembledSteps == \A s \in Scenarios : Assemble(s) \in TestSteps
<1> SUFFICES ASSUME NEW s \in Scenarios PROVE Assemble(s) \in TestSteps OBVIOUS
<1>1. s \in Scenario
  <2>1. PICK i \in DOMAIN Suites : \E j \in DOMAIN Suites[i] : s = Suites[i][j]
        BY DEF Scenarios
  <2>2. Suites[i] \in Seq(Scenario)
        BY TestRunAssumption
  <2> QED BY <2>1, <2>2
<1>2. /\ s.before \in Nat /\ s.after \in Nat
      /\ s.steps \in Seq({"undefined", "single", "ambiguous"})
      BY <1>1 DEF Scenario
<1>3. \A n \in Nat : HookSteps(n) \in TestSteps
      BY DEF HookSteps, TestSteps
<1>4. s.steps \in TestSteps
      BY <1>2 DEF TestSteps
<1>5. \A a, b \in TestSteps : a \o b \in TestSteps
      BY DEF TestSteps
<1>6. HookSteps(s.before) \in TestSteps /\ HookSteps(s.after) \in TestSteps
      BY <1>2, <1>3
<1>7. HookSteps(s.before) \o s.steps \in TestSteps
      BY <1>4, <1>5, <1>6
<1> QED BY <1>5, <1>6, <1>7 DEF Assemble

LEMMA AssembledLength == \A s \in Scenarios : Len(Assemble(s)) \in Nat
BY AssembledSteps DEF TestSteps

LEMMA AttemptsOfNobody ==
    \A r : r = NoRunner => Case!MaximumAttempts(r) \in Nat
<1>1. SizeMax \in Nat /\ (1 + 0) % (SizeMax + 1) \in Nat
      BY TestRunAssumption
<1> QED BY <1>1 DEF NoRunner, Case!MaximumAttempts, Case!NoRepeat, NoRepeat

LEMMA AttemptsOfScenario ==
    ASSUME options \in Runtime, NEW s, NEW r,
           r.retries = RetriesForPickle(s), r.repeat = RepeatForPickle(s)
    PROVE  Case!MaximumAttempts(r) \in Nat
<1>1. SizeMax \in Nat /\ r.retries \in Nat /\ r.repeat \in {NoRepeat} \cup Nat
      BY TestRunAssumption DEF Runtime, RetriesForPickle, RepeatForPickle
<1>2. (1 + r.retries) % (SizeMax + 1) \in Nat
      BY <1>1
<1> QED BY <1>1, <1>2 DEF Case!MaximumAttempts, Case!NoRepeat, NoRepeat

LEMMA InitMessageInv == Init => MessageInv
BY CaseNames, AttemptsOfNobody DEF Init, MessageInv, Case!Construct, CaseOpen

LEMMA MessageStep ==
    ASSUME IInv, MessageInv, [Next]_vars PROVE MessageInv'
<1> RunnerCore
    BY DEF IInv, RunnerInv, RunnerCore
<1>1. ASSUME UNCHANGED caseVars, phase' = "scenario" => phase = "scenario" PROVE MessageInv'
      BY <1>1 DEF MessageInv, caseVars, CaseOpen, Case!MaximumAttempts
<1>2. CASE StartScenario
  <2>1. /\ phase = "scenarios" /\ scenario < Len(Suites[suite]) /\ scenario \in Nat
        /\ suite \in 1 .. Len(Suites)
        BY <1>2 DEF StartScenario, IInv, TypeOK, ProgressInv, InFeature
  <2> DEFINE s == Suites[suite][scenario + 1]
  <2>2. s \in Scenarios
        BY <2>1, SuitesType DEF Scenarios
  <2>3. /\ runner'.testSteps = Assemble(s) /\ attempt' = 0
        /\ casePc' \in {"thrown", "attempts"} /\ phase' = "scenario"
        BY <1>2 DEF StartScenario, Case!Renew
  <2>4. Case!MaximumAttempts(runner') \in Nat
    <3>1. options \in Runtime
          BY TestRunAssumption DEF IInv, TypeOK
    <3>2. runner'.retries = RetriesForPickle(s) /\ runner'.repeat = RepeatForPickle(s)
          BY <1>2 DEF StartScenario, Case!Renew
    <3> QED BY <3>1, <3>2, AttemptsOfScenario
  <2>5. Case!MaximumAttempts(runner') = Case!MaximumAttempts(runner)'
        BY DEF Case!MaximumAttempts
  <2> QED BY <2>2, <2>3, <2>4, <2>5 DEF MessageInv, CaseOpen
<1>3. CASE RunScenario
  <2>1. Case!Next /\ phase = "scenario" /\ phase' = "scenario" /\ runner' = runner
        BY <1>3, RunnerStep DEF RunScenario, workerVars
  <2>2. Case!MaximumAttempts(runner)' = Case!MaximumAttempts(runner)
        BY <2>1 DEF Case!MaximumAttempts
  <2>3. /\ Len(testStepResults) \in Nat
        /\ \E s \in Scenarios : runner.testSteps = Assemble(s)
        /\ Len(runner.testSteps) \in Nat
        BY <2>1, AssembledLength DEF MessageInv, RunnerCore
  <2>4. CASE AdmitsAttempt
        BY <2>1, <2>2, <2>3, <2>4 DEF MessageInv, AdmitsAttempt, CaseOpen
  <2>5. CASE AdmitsNone
        BY <2>1, <2>2, <2>3, <2>5 DEF MessageInv, AdmitsNone, CaseOpen
  <2>6. CASE StartsStep
        BY <2>1, <2>2, <2>3, <2>6 DEF MessageInv, StartsStep, CaseOpen
  <2>7. CASE StaysInStep
        BY <2>1, <2>2, <2>3, <2>7 DEF MessageInv, StaysInStep, InStep, CaseOpen
  <2>8. CASE EndsStep
        BY <2>1, <2>2, <2>3, <2>8 DEF MessageInv, EndsStep, InStep, CaseOpen
  <2>9. CASE EndsAttempt
        BY <2>1, <2>2, <2>3, <2>9 DEF MessageInv, EndsAttempt, CaseOpen, Case!WillRetry
  <2> QED BY <2>1, <2>4, <2>5, <2>6, <2>7, <2>8, <2>9, RunnerMoves
<1>4. CASE FinishScenario
  <2>1. runner' = NoRunner /\ attempt' = 0 /\ phase' = "scenarios"
        BY <1>4 DEF FinishScenario, Case!Renew
  <2>2. Case!MaximumAttempts(runner') \in Nat
        BY <2>1, AttemptsOfNobody
  <2>3. Case!MaximumAttempts(runner') = Case!MaximumAttempts(runner)'
        BY DEF Case!MaximumAttempts
  <2> QED BY <2>1, <2>2, <2>3 DEF MessageInv, CaseOpen
<1>5. CASE StartRun \/ ConstructWorker \/ StartTestRunHook \/ FinishTestRunHook
           \/ ThrowGlobalHookError \/ FinishBeforeAll
      BY <1>1, <1>5 DEF StartRun, ConstructWorker, StartTestRunHook, FinishTestRunHook,
         ThrowGlobalHookError, FinishBeforeAll
<1>6. CASE StartSuite \/ FinishSuites \/ FinishBeforeFeature \/ FinishScenarios
           \/ FinishSuite \/ FinishAfterFeature \/ FinishRun
      BY <1>1, <1>6 DEF StartSuite, FinishSuites, FinishBeforeFeature, FinishScenarios,
         FinishSuite, FinishAfterFeature, FinishRun, LeaveSuite
<1>7. CASE UNCHANGED vars
      BY <1>1, <1>7 DEF vars, workerVars
<1> QED BY <1>2, <1>3, <1>4, <1>5, <1>6, <1>7 DEF Next

-----------------------------------------------------------------------------
(* The refinement.                                                         *)

LEMMA InitProtocol == Init => Protocol!Init
BY DEF Init, Protocol!Init, CaseOpen, Announced

(* Outside a scenario nothing but a hook is open, and a step of the run    *)
(* that keeps the hook shut and the run started shows the listeners        *)
(* nothing.                                                                *)
Started == phase \notin {"idle", "finished"}

LEMMA QuietStep ==
    ASSUME Started, Started', ~hookOpen, ~hookOpen', ~CaseOpen, ~CaseOpen',
           ~Announced, ~Announced', UNCHANGED << options, failedHooks >>
    PROVE  UNCHANGED Protocol!protocolVars
BY DEF Protocol!protocolVars, Started, CaseOpen, Announced

LEMMA NotInScenario == phase # "scenario" => ~CaseOpen /\ ~Announced
BY DEF CaseOpen, Announced

LEMMA StartRunProtocol == ASSUME IInv, StartRun PROVE Protocol!TestRunStarted
BY DEF StartRun, Protocol!TestRunStarted, CaseOpen, Announced, caseVars, IInv, HookInv

LEMMA FinishRunProtocol == ASSUME IInv, FinishRun PROVE Protocol!TestRunFinished
BY DEF FinishRun, Protocol!TestRunFinished, Protocol!Between, CaseOpen, Announced, caseVars,
       HooksDone

LEMMA StartHookProtocol ==
    ASSUME IInv, StartTestRunHook PROVE Protocol!TestRunHookStarted
BY DEF StartTestRunHook, Protocol!TestRunHookStarted, Protocol!Between, CaseOpen, Announced,
       caseVars, HookPhases

LEMMA FinishHookProtocol ==
    ASSUME IInv, FinishTestRunHook PROVE Protocol!TestRunHookFinished
<1>1. phase \in HookPhases /\ phase' = phase /\ hookOpen /\ ~hookOpen'
      BY DEF FinishTestRunHook, IInv, HookInv
<1>2. options' = options
      BY DEF FinishTestRunHook
<1>3. options.failGlobalHookFast /\ ~options.dryRun => failedHooks' = failedHooks
      BY DEF FinishTestRunHook, Throws, NoteHook
<1> QED BY <1>1, <1>2, <1>3, NotInScenario
        DEF FinishTestRunHook, Protocol!TestRunHookFinished, CaseOpen, Announced, HookPhases,
            caseVars

LEMMA ThrowProtocol ==
    ASSUME IInv, ThrowGlobalHookError PROVE Protocol!HookAbandoned
<1>1. /\ phase \in HookPhases /\ phase' \in {"suites", "escaped"} /\ hookOpen /\ ~hookOpen'
      /\ ~options.dryRun /\ options.failGlobalHookFast /\ options' = options
      BY DEF ThrowGlobalHookError, IInv, HookInv, Throws
<1>2. failedHooks' # {}
      BY <1>1 DEF ThrowGlobalHookError, Throws, NoteHook
<1> QED BY <1>1, <1>2
        DEF Protocol!HookAbandoned, CaseOpen, Announced, HookPhases

(* Attempts and test steps.                                                *)
LEMMA RunScenarioProtocol ==
    ASSUME IInv, MessageInv, RunScenario PROVE Protocol!Next \/ UNCHANGED Protocol!protocolVars
<1>1. /\ phase = "scenario" /\ phase' = "scenario" /\ runner' = runner /\ Case!Next
      /\ ~hookOpen /\ ~hookOpen' /\ UNCHANGED << options, failedHooks >>
      /\ RunnerCore
  <2>1. RunnerCore
        BY DEF IInv, RunnerInv, RunnerCore
  <2>2. phase = "scenario" /\ Case!Next /\ UNCHANGED << phase, hookOpen, options, failedHooks >>
        BY DEF RunScenario, workerVars
  <2>3. ~hookOpen
        BY <2>2 DEF IInv, HookInv, HookPhases
  <2> QED BY <2>1, <2>2, <2>3, RunnerStep
<1>2. /\ \E s \in Scenarios : runner.testSteps = Assemble(s)
      /\ Len(runner.testSteps) \in Nat /\ Len(testStepResults) \in Nat /\ attempt \in Nat
      /\ Len(runner.testSteps) \in { Len(Assemble(s)) : s \in Scenarios }
      BY <1>1, AssembledLength DEF MessageInv, RunnerCore
<1> DEFINE lengths == Len(runner.testSteps)
<1>3. CASE AdmitsAttempt /\ attempt = 0
  <2>1. Protocol!TestCaseStarted
        BY <1>1, <1>2, <1>3 DEF AdmitsAttempt, CaseOpen, Announced,
           Protocol!TestCaseStarted, Protocol!Between
  <2> QED BY <2>1 DEF Protocol!Next
<1>4. CASE AdmitsAttempt /\ attempt > 0
  <2>1. Protocol!NextAttemptStarted
        BY <1>1, <1>2, <1>4 DEF AdmitsAttempt, CaseOpen, Announced, Protocol!NextAttemptStarted
  <2> QED BY <2>1 DEF Protocol!Next
<1>5. CASE AdmitsNone
  <2>1. ~(attempt > 0)
        BY <1>2, <1>5 DEF AdmitsNone, MessageInv
  <2> QED BY <1>1, <1>5, <2>1, QuietStep DEF AdmitsNone, CaseOpen, Announced, Started
<1>6. CASE StartsStep
  <2>1. Protocol!TestStepStarted
        BY <1>1, <1>2, <1>6 DEF StartsStep, CaseOpen, Announced, Protocol!TestStepStarted
  <2> QED BY <2>1 DEF Protocol!Next
<1>7. CASE StaysInStep
      BY <1>1, <1>7 DEF StaysInStep, InStep, CaseOpen, Announced, Protocol!protocolVars
<1>8. CASE EndsStep
  <2>1. Protocol!TestStepFinished
        BY <1>1, <1>2, <1>8 DEF EndsStep, InStep, CaseOpen, Announced, Protocol!TestStepFinished
  <2> QED BY <2>1 DEF Protocol!Next
<1>9. CASE EndsAttempt
  <2>1. Len(testStepResults) = Len(runner.testSteps)
        BY <1>1, <1>2, <1>9 DEF EndsAttempt, MessageInv, CaseOpen
  <2>2. CASE Case!WillRetry
    <3>1. Protocol!TestCaseFinished(TRUE)
          BY <1>1, <1>2, <1>9, <2>1, <2>2
             DEF EndsAttempt, CaseOpen, Announced, Protocol!TestCaseFinished
    <3> QED BY <3>1 DEF Protocol!Next
  <2>3. CASE ~Case!WillRetry
    <3>1. Protocol!TestCaseFinished(FALSE)
          BY <1>1, <1>2, <1>9, <2>1, <2>3
             DEF EndsAttempt, CaseOpen, Announced, Protocol!TestCaseFinished
    <3> QED BY <3>1 DEF Protocol!Next
  <2> QED BY <2>2, <2>3
<1> QED BY <1>1, <1>2, <1>3, <1>4, <1>5, <1>6, <1>7, <1>8, <1>9, RunnerMoves

LEMMA StepProtocol ==
    ASSUME IInv, MessageInv, [Next]_vars
    PROVE  Protocol!Next \/ UNCHANGED Protocol!protocolVars
<1> USE DEF Started
<1>1. CASE StartRun \/ FinishRun \/ StartTestRunHook \/ FinishTestRunHook
           \/ ThrowGlobalHookError
      BY <1>1, StartRunProtocol, FinishRunProtocol, StartHookProtocol, FinishHookProtocol,
         ThrowProtocol DEF Protocol!Next
<1>2. CASE RunScenario
      BY <1>2, RunScenarioProtocol
<1>3. phase \notin HookPhases => ~hookOpen
      BY DEF IInv, HookInv
<1>4. CASE ConstructWorker \/ FinishBeforeAll \/ StartSuite \/ FinishSuites
           \/ FinishBeforeFeature \/ FinishScenarios \/ FinishSuite \/ FinishAfterFeature
  <2>1. /\ phase \notin {"idle", "finished", "scenario"}
        /\ phase' \notin {"idle", "finished", "scenario"}
        /\ ~hookOpen /\ UNCHANGED << hookOpen, options, failedHooks >>
        BY <1>3, <1>4 DEF ConstructWorker, FinishBeforeAll, StartSuite, FinishSuites,
           FinishBeforeFeature, FinishScenarios, FinishSuite, FinishAfterFeature, LeaveSuite,
           HooksDone, HookPhases
  <2> QED BY <2>1, QuietStep DEF CaseOpen, Announced
<1>5. CASE StartScenario
  <2>1. /\ phase = "scenarios" /\ phase' = "scenario" /\ ~hookOpen
        /\ UNCHANGED << hookOpen, options, failedHooks >>
        /\ attempt' = 0 /\ casePc' \in {"thrown", "attempts"}
        BY <1>3, <1>5 DEF StartScenario, Case!Renew, HookPhases
  <2> QED BY <2>1, QuietStep DEF CaseOpen, Announced
<1>6. CASE FinishScenario
  <2>1. /\ phase = "scenario" /\ phase' = "scenarios" /\ ~hookOpen
        /\ UNCHANGED << hookOpen, options, failedHooks >>
        /\ casePc = "returned"
        BY <1>3, <1>6 DEF FinishScenario, HookPhases
  <2> QED BY <2>1, QuietStep DEF CaseOpen, Announced
<1>7. CASE UNCHANGED vars
      BY <1>7 DEF vars, workerVars, caseVars, Protocol!protocolVars, CaseOpen, Announced
<1> QED BY <1>1, <1>2, <1>4, <1>5, <1>6, <1>7 DEF Next

-----------------------------------------------------------------------------
(* The messages of a run nest: test run, test case, test step and hook are *)
(* opened and closed in order, attempts are announced and follow, and a    *)
(* test case is finished with all of its steps.                            *)
THEOREM RunFollowsProtocol == Spec => MessagesFollowProtocol
<1>1. Init => MessageInv /\ Protocol!Init
      BY InitMessageInv, InitProtocol
<1>2. IInv /\ MessageInv /\ [Next]_vars => MessageInv'
      BY MessageStep
<1>3. IInv /\ MessageInv /\ [Next]_vars => [Protocol!Next]_(Protocol!protocolVars)
      BY StepProtocol
<1> QED BY <1>1, <1>2, <1>3, RunInvariance, PTL
        DEF Spec, MessagesFollowProtocol, Protocol!Protocol

(***************************************************************************)
(* Reports: what the JUnit and the usage formatter write agrees with the   *)
(* run, whatever the features, the hooks, the options and the outcomes.    *)
(***************************************************************************)

(* The worst result of an attempt bounds every status of it, and is one of *)
(* them if there is any.                                                   *)
LEMMA WorstDecides ==
    ASSUME RunnerCore, \A j \in DOMAIN testStepResults : testStepResults[j].status >= PASSED
    PROVE  /\ Case!GetWorstStepResult.status \in PASSED .. FAILED
           /\ \A j \in DOMAIN testStepResults :
                 testStepResults[j].status <= Case!GetWorstStepResult.status
           /\ IF testStepResults = <<>>
              THEN Case!GetWorstStepResult.status \in {PASSED, SKIPPED}
              ELSE \E j \in DOMAIN testStepResults :
                      testStepResults[j].status = Case!GetWorstStepResult.status
<1>1. CASE testStepResults = <<>>
      BY <1>1, CaseNames, OutcomesAreResults, StatusValues DEF Case!GetWorstStepResult
<1>2. CASE testStepResults # <<>>
  <2>1. Case!GetWorstStepResult = GetWorstTestStepResult(testStepResults)
        BY <1>2, CaseNames DEF Case!GetWorstStepResult
  <2>2. PICK i \in DOMAIN testStepResults :
            /\ GetWorstTestStepResult(testStepResults) = testStepResults[i]
            /\ \A j \in DOMAIN testStepResults :
                  testStepResults[j].status <= testStepResults[i].status
        BY <1>2, WorstOfResults DEF RunnerCore
  <2>3. testStepResults[i].status \in 0 .. 6 /\ testStepResults[i].status >= PASSED
        BY ResultsInList DEF RunnerCore
  <2> QED BY <1>2, <2>1, <2>2, <2>3, StatusValues
<1> QED BY <1>1, <1>2

(* User code comes back with one of its four statuses.                     *)
LEMMA OutcomeStatus ==
    /\ \A r \in Outcome : r.status \in OutcomeStatuses
    /\ \A s \in OutcomeStatuses : s >= PASSED /\ s \in Status
BY StatusValues DEF Outcome, OutcomeStatuses, Quiet, Reported

LEMMA WorstOutcome ==
    ASSUME NEW results \in Seq(Result),
           \A j \in DOMAIN results : results[j].status \in OutcomeStatuses
    PROVE  GetWorstTestStepResult(results).status \in OutcomeStatuses
<1>1. CASE results = <<>>
      BY <1>1, StatusValues DEF GetWorstTestStepResult, Quiet, OutcomeStatuses
<1>2. CASE results # <<>>
      BY <1>2, WorstIsResult
<1> QED BY <1>1, <1>2

(* The test steps of a scenario of the run.                                *)
LEMMA StepsOfScenario ==
    \A c \in AllScenarios :
        /\ TestStepsOf(c) \in TestSteps
        /\ Len(TestStepsOf(c)) \in Nat
        /\ DOMAIN TestStepsOf(c) = 1 .. Len(TestStepsOf(c))
<1> SUFFICES ASSUME NEW c \in AllScenarios PROVE TestStepsOf(c) \in TestSteps
    BY DEF TestSteps
<1>1. Suites[c[1]][c[2]] \in Scenarios
      BY ScenarioPlaces, SuitesType DEF Scenarios
<1> QED BY <1>1, AssembledSteps DEF TestStepsOf

-----------------------------------------------------------------------------
(* The attempt.                                                            *)

(* Recording a result that is accounted for.                               *)
LEMMA RecordAttempt ==
    ASSUME RunnerCore, AttemptInv, NEW r \in Result, Case!Record(r),
           casePc # "thrown", UNCHANGED << options, phase, suite, scenario >>,
           r.status >= PASSED,
           Accounted(runner.testSteps[Len(testStepResults) + 1], r.status,
                     Len(testStepResults) + 1 \in invoked'),
           invoked \subseteq invoked',
           \A j \in DOMAIN stepResults' : stepResults'[j].status \in OutcomeStatuses
    PROVE  AttemptInv'
<1>1. /\ testStepResults' = Append(testStepResults, r) /\ casePc' = "testSteps"
      /\ UNCHANGED << runner, attempt, overallResult, returned, verdicts >>
      BY DEF Case!Record
<1>2. ResultsAccounted'
  <2> SUFFICES ASSUME NEW j \in DOMAIN testStepResults'
               PROVE  /\ testStepResults'[j].status >= PASSED
                      /\ Accounted(runner.testSteps[j], testStepResults'[j].status, j \in invoked')
      BY <1>1 DEF ResultsAccounted, Accounted
  <2>1. CASE j = Len(testStepResults) + 1
        BY <1>1, <2>1, AppendResult DEF RunnerCore
  <2>2. CASE j # Len(testStepResults) + 1
    <3>1. j \in DOMAIN testStepResults /\ testStepResults'[j] = testStepResults[j]
          BY <1>1, <2>2, AppendResult DEF RunnerCore
    <3> QED BY <3>1 DEF AttemptInv, ResultsAccounted, Accounted
  <2> QED BY <2>1, <2>2
<1>3. BodyAccounted'
      BY <1>1 DEF BodyAccounted
<1>4. RunnerMade'
      BY <1>1 DEF AttemptInv, RunnerMade, TestStepsOf, This, Case!MaximumAttempts
<1> QED BY <1>1, <1>2, <1>3, <1>4 DEF AttemptInv

(* Collecting an outcome inside a step.                                    *)
LEMMA CollectAttempt ==
    ASSUME RunnerCore, AttemptInv, NEW r \in Outcome, Case!CollectStepResult(r),
           UNCHANGED << options, phase, suite, scenario >>,
           casePc # "thrown", invoked \subseteq invoked', BodyAccounted'
    PROVE  AttemptInv'
<1>1. /\ stepResults' = Append(stepResults, r)
      /\ UNCHANGED << runner, attempt, testStepResults, overallResult, verdicts >>
      BY DEF Case!CollectStepResult
<1>2. ResultsAccounted'
  <2>1. r \in Result /\ r.status \in OutcomeStatuses
        BY OutcomesAreResults, OutcomeStatus
  <2>2. ASSUME NEW j \in DOMAIN stepResults' PROVE stepResults'[j].status \in OutcomeStatuses
    <3>1. CASE j = Len(stepResults) + 1
          BY <1>1, <2>1, <3>1, AppendResult DEF RunnerCore
    <3>2. CASE j # Len(stepResults) + 1
      <4>1. j \in DOMAIN stepResults /\ stepResults'[j] = stepResults[j]
            BY <1>1, <2>1, <3>2, AppendResult DEF RunnerCore
      <4> QED BY <4>1 DEF AttemptInv, ResultsAccounted
    <3> QED BY <3>1, <3>2
  <2> QED BY <1>1, <2>2 DEF AttemptInv, ResultsAccounted, Accounted
<1>3. RunnerMade'
      BY <1>1 DEF AttemptInv, RunnerMade, TestStepsOf, This, Case!MaximumAttempts
<1> QED BY <1>1, <1>2, <1>3 DEF AttemptInv

(* A step of the runner that leaves the results alone.                     *)
LEMMA KeepAttempt ==
    ASSUME AttemptInv, UNCHANGED << runner, testStepResults, stepResults, invoked >>,
           UNCHANGED << options, phase, suite, scenario >>,
           casePc # "thrown", verdicts' \in Seq(Status), overallResult' >= PASSED,
           BodyAccounted'
    PROVE  AttemptInv'
BY DEF AttemptInv, ResultsAccounted, Accounted, RunnerMade, TestStepsOf, This,
       Case!MaximumAttempts

(* Statuses that say nothing of a step with one definition, and SKIPPED.   *)
LEMMA Unexecuted ==
    /\ \A k, s, ran : k # "single" => Accounted(k, s, ran)
    /\ \A k, ran : Accounted(k, SKIPPED, ran)
    /\ \A k, s : s \in OutcomeStatuses => Accounted(k, s, TRUE)
    /\ SKIPPED >= PASSED /\ UNDEFINED >= PASSED /\ AMBIGUOUS >= PASSED
    /\ Quiet(SKIPPED).status = SKIPPED /\ Quiet(UNDEFINED).status = UNDEFINED
    /\ Reported(AMBIGUOUS).status = AMBIGUOUS
BY StatusValues DEF Accounted, OutcomeStatuses, Quiet, Reported

LEMMA RunnerAttempt ==
    ASSUME RunnerCore, AttemptInv, Case!Next, UNCHANGED << options, phase, suite, scenario >>
    PROVE  AttemptInv'
<1> /\ testStepResults \in Seq(Result) /\ stepResults \in Seq(Result)
    /\ Len(testStepResults) \in Nat
    /\ verdicts \in Seq(Status) /\ overallResult >= PASSED
    /\ overallResult \in Status
    /\ \A j \in DOMAIN stepResults : stepResults[j].status \in OutcomeStatuses
    BY DEF RunnerCore, AttemptInv, ResultsAccounted
<1>1. CASE Case!StartAttempt
  <2>1. /\ testStepResults' = <<>> /\ casePc' = "testSteps" /\ casePc = "attempts"
        /\ UNCHANGED << runner, stepResults, overallResult, verdicts >>
        BY <1>1 DEF Case!StartAttempt
  <2>2. ResultsAccounted'
        BY <2>1 DEF AttemptInv, ResultsAccounted
  <2>3. BodyAccounted'
        BY <2>1 DEF BodyAccounted
  <2>4. RunnerMade'
        BY <2>1 DEF AttemptInv, RunnerMade, TestStepsOf, This, Case!MaximumAttempts
  <2> QED BY <2>1, <2>2, <2>3, <2>4 DEF AttemptInv
<1>2. CASE Case!ReturnUnknown
  <2>1. casePc = "attempts" /\ casePc' = "returned"
        BY <1>2 DEF Case!ReturnUnknown
  <2> QED BY <1>2, <2>1, KeepAttempt DEF Case!ReturnUnknown, BodyAccounted
<1>3. CASE Case!StartTestStep
      BY <1>3, KeepAttempt DEF Case!StartTestStep, Case!runState, BodyAccounted
<1>4. CASE Case!SkipHook
      BY <1>4, RecordAttempt, Unexecuted, CaseNames, OutcomesAreResults
         DEF Case!SkipHook, Case!RecordHook
<1>5. CASE Case!InvokeHook
  <2>1. PICK r \in Outcome : Case!Record(r) /\ stepResults' = stepResults
        BY <1>5, CaseNames DEF Case!InvokeHook, Case!RecordHook
  <2>2. casePc = "dispatch" /\ invoked \subseteq invoked' /\ Len(testStepResults) + 1 \in invoked'
        BY <1>5 DEF Case!InvokeHook, Case!Current
  <2>3. r \in Result /\ r.status \in OutcomeStatuses /\ r.status >= PASSED
        BY OutcomesAreResults, OutcomeStatus
  <2>4. Accounted(runner.testSteps[Len(testStepResults) + 1], r.status,
                  Len(testStepResults) + 1 \in invoked')
        BY <2>2, <2>3 DEF Accounted
  <2> QED BY <2>1, <2>2, <2>3, <2>4, RecordAttempt
<1>6. CASE Case!ReportUndefined
  <2>1. runner.testSteps[Len(testStepResults) + 1] # "single"
        BY <1>6 DEF Case!ReportUndefined, Case!CurrentStep, Case!Current
  <2> QED BY <1>6, <2>1, RecordAttempt, Unexecuted, CaseNames, OutcomesAreResults
          DEF Case!ReportUndefined, Case!RecordStep
<1>7. CASE Case!ReportAmbiguous
  <2>1. runner.testSteps[Len(testStepResults) + 1] # "single"
        BY <1>7 DEF Case!ReportAmbiguous, Case!CurrentStep, Case!Current
  <2> QED BY <1>7, <2>1, RecordAttempt, Unexecuted, CaseNames, OutcomesAreResults
          DEF Case!ReportAmbiguous, Case!RecordStep
<1>8. CASE Case!SkipStep
      BY <1>8, RecordAttempt, Unexecuted, CaseNames, OutcomesAreResults
         DEF Case!SkipStep, Case!RecordStep
<1>9. CASE Case!EnterStep
  <2>1. /\ casePc = "dispatch" /\ casePc' = "beforeStep" /\ stepResults' = <<>>
        /\ UNCHANGED << runner, testStepResults, invoked, overallResult, verdicts >>
        BY <1>9 DEF Case!EnterStep
  <2>2. ResultsAccounted'
        BY <2>1 DEF AttemptInv, ResultsAccounted, Accounted
  <2>3. BodyAccounted'
        BY <2>1 DEF BodyAccounted
  <2>4. RunnerMade'
        BY <2>1 DEF AttemptInv, RunnerMade, TestStepsOf, This, Case!MaximumAttempts
  <2> QED BY <2>1, <2>2, <2>3, <2>4 DEF AttemptInv
<1>10. CASE Case!InvokeBeforeStepHook
  <2>1. BodyAccounted'
    <3>1. Len(stepResults) < BeforeStepHooks /\ Len(stepResults) \in Nat
          BY <1>10 DEF Case!InvokeBeforeStepHook
    <3> QED BY <3>1 DEF BodyAccounted
  <2> QED BY <1>10, <2>1, CollectAttempt, CaseNames DEF Case!InvokeBeforeStepHook
<1>11. CASE Case!InvokeBody
  <2>1. BodyAccounted'
        BY <1>11 DEF Case!InvokeBody, Case!CollectStepResult, Case!Current, BodyAccounted
  <2> QED BY <1>11, <2>1, CollectAttempt, CaseNames DEF Case!InvokeBody
<1>12. CASE Case!OmitBody
  <2>1. BeforeStepHooks # 0
    <3> SUFFICES ASSUME BeforeStepHooks = 0 PROVE FALSE OBVIOUS
    <3>1. stepResults = <<>>
          BY <1>12 DEF Case!OmitBody, AttemptInv, BodyAccounted
    <3>2. GetWorstTestStepResult(stepResults).status = FAILED
          BY <1>12, CaseNames DEF Case!OmitBody, Case!BeforeStepHookFailed
    <3>3. GetWorstTestStepResult(stepResults) = Quiet(PASSED)
          BY <3>1 DEF GetWorstTestStepResult
    <3> QED BY <3>2, <3>3, OutcomesAreResults, StatusValues
  <2>2. BodyAccounted'
        BY <2>1 DEF BodyAccounted
  <2> QED BY <1>12, <2>2, KeepAttempt DEF Case!OmitBody, Case!runState
<1>13. CASE Case!InvokeAfterStepHook
  <2>1. BodyAccounted'
        BY <1>13 DEF Case!InvokeAfterStepHook, Case!CollectStepResult, AttemptInv, BodyAccounted
  <2> QED BY <1>13, <2>1, CollectAttempt, CaseNames DEF Case!InvokeAfterStepHook
<1>14. CASE Case!FinishStep
  <2> DEFINE r == GetWorstTestStepResult(stepResults)
  <2>1. /\ Case!Record(r) /\ casePc = "afterStep" /\ stepResults' = <<>>
        /\ invoked' = invoked
        BY <1>14, CaseNames DEF Case!FinishStep, Case!RecordStep
  <2>2. r \in Result /\ r.status \in OutcomeStatuses
        BY WorstIsResult, WorstOutcome
  <2>3. r.status >= PASSED
        BY <2>2, OutcomeStatus
  <2>4. Accounted(runner.testSteps[Len(testStepResults) + 1], r.status,
                  Len(testStepResults) + 1 \in invoked')
        BY <2>1, <2>2 DEF Accounted, AttemptInv, BodyAccounted
  <2> HIDE DEF r
  <2> QED BY <2>1, <2>2, <2>3, <2>4, RecordAttempt
<1>15. CASE Case!FinishAttempt
  <2>1. /\ casePc = "testSteps" /\ casePc' \in {"attempts", "returned"}
        /\ UNCHANGED << runner, testStepResults, stepResults, invoked >>
        /\ verdicts' = Append(verdicts, Case!GetWorstStepResult.status)
        /\ overallResult' = WorstStatus(overallResult, Case!GetWorstStepResult.status)
        BY <1>15, CaseNames DEF Case!FinishAttempt
  <2>2. Case!GetWorstStepResult.status \in PASSED .. FAILED
        BY WorstDecides DEF AttemptInv, ResultsAccounted
  <2>3. verdicts' \in Seq(Status) /\ overallResult' >= PASSED
        BY <2>1, <2>2, StatusValues DEF WorstStatus
  <2> QED BY <2>1, <2>3, KeepAttempt DEF BodyAccounted
<1> QED BY <1>1, <1>2, <1>3, <1>4, <1>5, <1>6, <1>7, <1>8, <1>9, <1>10, <1>11, <1>12,
           <1>13, <1>14, <1>15 DEF Case!Next

(* The runner of a new scenario.                                           *)
LEMMA NewAttempt ==
    ASSUME IInv, StartScenario PROVE AttemptInv'
<1>1. /\ phase = "scenarios" /\ scenario < Len(Suites[suite]) /\ phase' = "scenario"
      /\ UNCHANGED << options, suite, scenario >>
      BY DEF StartScenario
<1> DEFINE s == Suites[suite][scenario + 1]
<1>2. /\ runner' = [testSteps |-> Assemble(s), retries |-> RetriesForPickle(s),
                     repeat |-> RepeatForPickle(s), skip |-> SkipsTestCase]
      /\ casePc' = IF Case!ConstructorThrows(runner') THEN "thrown" ELSE "attempts"
      /\ testStepResults' = <<>> /\ stepResults' = <<>> /\ overallResult' = PASSED
      /\ verdicts' = <<>>
      BY CaseNames DEF StartScenario, Case!Renew
<1>3. ResultsAccounted'
      BY <1>2 DEF ResultsAccounted
<1>4. BodyAccounted'
      BY <1>2 DEF BodyAccounted
<1>5. RunnerMade'
  <2>1. runner'.testSteps = TestStepsOf(This)'
        BY <1>1, <1>2 DEF TestStepsOf, This
  <2>2. options.repeat = NoRepeat => runner'.repeat = NoRepeat
        BY <1>2 DEF RepeatForPickle
  <2>3. ASSUME options.retry < SizeMax, casePc' # "thrown"
        PROVE  Case!MaximumAttempts(runner') > 0
    <3>1. options \in Runtime /\ SizeMax \in Nat
          BY TestRunAssumption DEF IInv, TypeOK
    <3>2. runner'.retries \in 0 .. SizeMax - 1 /\ runner'.repeat \in {-1} \cup Nat
          BY <1>2, <2>3, <3>1 DEF RetriesForPickle, RepeatForPickle, Runtime, NoRepeat
    <3>3. runner'.repeat # 0
          BY <1>2, <2>3 DEF Case!ConstructorThrows
    <3>4. (1 + runner'.retries) % (SizeMax + 1) = 1 + runner'.retries
          BY <3>1, <3>2
    <3> QED BY <3>2, <3>3, <3>4 DEF Case!MaximumAttempts, Case!NoRepeat
  <2> QED BY <1>1, <2>1, <2>2, <2>3 DEF RunnerMade, Case!MaximumAttempts
<1>6. verdicts' \in Seq(Status) /\ overallResult' >= PASSED
      BY <1>2, StatusValues
<1> QED BY <1>3, <1>4, <1>5, <1>6 DEF AttemptInv

-----------------------------------------------------------------------------
(* The query.                                                              *)

(* What becomes of a runner that is about to return.                       *)
LEMMA RunnerReturns ==
    ASSUME RunnerCore, Case!Next
    PROVE  /\ casePc # "returned"
           /\ Case!ReturnUnknown \/ Case!FinishAttempt \/ casePc' # "returned"
BY DEF Case!Next, Case!StartAttempt, Case!ReturnUnknown, Case!StartTestStep, Case!SkipHook,
       Case!RecordHook, Case!Record, Case!InvokeHook, Case!ReportUndefined, Case!RecordStep,
       Case!ReportAmbiguous, Case!SkipStep, Case!EnterStep, Case!InvokeBeforeStepHook,
       Case!InvokeBody, Case!OmitBody, Case!InvokeAfterStepHook, Case!FinishStep,
       Case!FinishAttempt

(* The scenario that is being executed is one the run has not come past.   *)
LEMMA ThisIsNew ==
    ASSUME IInv, phase = "scenario"
    PROVE  /\ This \in AllScenarios
           /\ This \notin DOMAIN statuses
<1>1. /\ suite \in 1 .. Len(Suites) /\ scenario \in Nat /\ scenario < Len(Suites[suite])
      BY DEF IInv, TypeOK, ProgressInv, InFeature
<1>2. This \in AllScenarios
      BY <1>1, ScenarioPlaces, SuitesType DEF This
<1>3. This \notin Past
      BY <1>1 DEF Past, This, InFeature
<1> QED BY <1>2, <1>3 DEF IInv, ProgressInv

(* Steps that do not touch the statuses, and after which nothing is being  *)
(* returned.                                                               *)
LEMMA NothingReturned ==
    ASSUME ReportInv, ~Returned, ~Returned', UNCHANGED << options, statuses >>,
           UNCHANGED << reported, entered >>
    PROVE  ReportInv'
BY DEF ReportInv, Attempted, Accounted, Decides, TestStepsOf

(* The runner returns from its last attempt, which is reported.            *)
LEMMA LastAttemptReport ==
    ASSUME IInv, MessageInv, AttemptInv, ReportInv, RunScenario, UpdateQuery,
           Case!FinishAttempt, casePc' = "returned"
    PROVE  ReportInv'
<1> DEFINE report == [i \in DOMAIN testStepResults |-> testStepResults[i].status]
           worst == Case!GetWorstStepResult.status
<1>1. /\ phase = "scenario" /\ casePc = "testSteps"
      /\ UNCHANGED << options, phase, suite, scenario, statuses >>
      /\ RunnerCore /\ Len(testStepResults) \in Nat
      /\ DOMAIN testStepResults = 1 .. Len(testStepResults)
      BY DEF RunScenario, workerVars, Case!FinishAttempt, IInv, RunnerInv, RunnerCore
<1>2. /\ ~Returned /\ Returned' /\ This' = This
      /\ Attempted' = Attempted
      BY <1>1 DEF Returned, This, Attempted
<1>3. /\ This \in AllScenarios /\ This \notin Attempted
      BY <1>1, ThisIsNew DEF Attempted
<1>4. /\ worst \in PASSED .. FAILED
      /\ \A j \in DOMAIN testStepResults : testStepResults[j].status <= worst
      /\ IF testStepResults = <<>> THEN worst \in {PASSED, SKIPPED}
         ELSE \E j \in DOMAIN testStepResults : testStepResults[j].status = worst
      BY <1>1, WorstDecides DEF AttemptInv, ResultsAccounted
<1>5. /\ reported' = Record(reported, This, report)
      /\ entered' = Record(entered, This, invoked)
  <2>1. Len(verdicts') > Len(verdicts)
    <3>1. verdicts' = Append(verdicts, worst) /\ verdicts \in Seq(Status) /\ worst \in Status
          BY <1>4, StatusValues DEF Case!FinishAttempt, AttemptInv
    <3> HIDE DEF worst
    <3> QED BY <3>1
  <2> QED BY <1>1, <2>1 DEF UpdateQuery, LastAttemptFinishes
<1>6. /\ DOMAIN reported' = Attempted \cup {This} /\ DOMAIN entered' = DOMAIN reported'
      /\ reported'[This] = report /\ entered'[This] = invoked
      /\ \A c \in Attempted : reported'[c] = reported[c] /\ entered'[c] = entered[c]
  <2>1. DOMAIN reported = Attempted /\ DOMAIN entered = DOMAIN reported
        BY <1>2 DEF ReportInv
  <2> HIDE DEF report
  <2>2. /\ DOMAIN reported' = DOMAIN reported \cup {This}
        /\ reported'[This] = report
        /\ \A c \in DOMAIN reported : c # This => reported'[c] = reported[c]
        BY <1>5 DEF Record
  <2>3. /\ DOMAIN entered' = DOMAIN entered \cup {This}
        /\ entered'[This] = invoked
        /\ \A c \in DOMAIN entered : c # This => entered'[c] = entered[c]
        BY <1>5 DEF Record
  <2>4. \A c \in Attempted : c # This
        BY <1>3
  <2> QED BY <2>1, <2>2, <2>3, <2>4
<1>7. /\ returned' = IF runner.repeat # NoRepeat THEN overallResult' ELSE worst
      /\ overallResult' = WorstStatus(overallResult, worst)
      BY CaseNames DEF Case!FinishAttempt, Case!NoRepeat, NoRepeat
<1>8. returned' \in PASSED .. FAILED /\ worst <= returned'
  <2>1. overallResult \in PASSED .. FAILED
        BY <1>1, StatusValues DEF RunnerCore, AttemptInv
  <2> HIDE DEF worst
  <2> QED BY <1>4, <1>7, <2>1, StatusValues DEF WorstStatus
<1>9. \A i \in DOMAIN report : report[i] = testStepResults[i].status /\ report[i] \in 1 .. 6
      BY <1>1, ResultsInList, StatusValues DEF RunnerCore, AttemptInv, ResultsAccounted
<1>10. /\ report \in Seq(PASSED .. FAILED) /\ Len(report) = Len(testStepResults)
       /\ DOMAIN report = DOMAIN testStepResults
      BY <1>1, <1>9, StatusValues
<1>11. /\ Len(report) = Len(TestStepsOf(This))
       /\ \A i \in DOMAIN report : Accounted(TestStepsOf(This)[i], report[i], i \in invoked)
  <2>1. runner.testSteps = TestStepsOf(This)
        BY <1>1 DEF AttemptInv, RunnerMade
  <2>2. Len(testStepResults) = Len(runner.testSteps)
    <3>1. Len(testStepResults) + 1 > Len(runner.testSteps)
          BY DEF Case!FinishAttempt, Case!Current
    <3>2. Len(testStepResults) <= Len(runner.testSteps)
          BY <1>1 DEF MessageInv, CaseOpen
    <3>3. Len(runner.testSteps) \in Nat
          BY <1>3, <2>1, StepsOfScenario
    <3> QED BY <1>1, <3>1, <3>2, <3>3
  <2> HIDE DEF report
  <2> QED BY <1>9, <1>10, <2>1, <2>2 DEF AttemptInv, ResultsAccounted
<1>12. Decides(reported[This], returned)'
  <2>1. \A i \in DOMAIN report : report[i] <= returned'
        BY <1>4, <1>8, <1>9, <1>10, StatusValues
  <2>2. ASSUME options.repeat = NoRepeat
        PROVE  IF report = <<>> THEN returned' \in {PASSED, SKIPPED}
               ELSE \E i \in DOMAIN report : report[i] = returned'
    <3>1. returned' = worst
          BY <1>1, <1>7, <2>2 DEF AttemptInv, RunnerMade
    <3>2. report = <<>> <=> testStepResults = <<>>
      <4>1. report = <<>> <=> Len(report) = 0
            BY <1>10
      <4>2. testStepResults = <<>> <=> Len(testStepResults) = 0
            BY <1>1 DEF RunnerCore
      <4> QED BY <1>10, <4>1, <4>2
    <3> HIDE DEF worst
    <3> QED BY <1>4, <1>9, <1>10, <3>1, <3>2
  <2> HIDE DEF report
  <2> QED BY <1>1, <1>2, <1>6, <2>1, <2>2 DEF Decides
<1> HIDE DEF report, worst
<1>13. returned' # UNKNOWN
      BY <1>8, StatusValues
<1>14. ASSUME NEW c \in DOMAIN reported'
       PROVE  /\ reported'[c] \in Seq(PASSED .. FAILED)
              /\ Len(reported'[c]) = Len(TestStepsOf(c))
              /\ \A i \in DOMAIN reported'[c] :
                    Accounted(TestStepsOf(c)[i], reported'[c][i], i \in entered'[c])
  <2>1. CASE c = This
        BY <1>6, <1>10, <1>11, <2>1
  <2>2. CASE c # This
    <3>1. c \in Attempted /\ c \in DOMAIN reported
          BY <1>6, <2>2 DEF ReportInv
    <3> QED BY <1>6, <3>1 DEF ReportInv
  <2> QED BY <2>1, <2>2
<1>15. \A c \in Attempted : Decides(reported'[c], statuses[c])
      BY <1>6 DEF ReportInv
<1>16. \A c \in Attempted' : Decides(reported[c], statuses[c])'
      BY <1>1, <1>2, <1>15 DEF Decides
<1>17. DOMAIN reported' = Attempted' \cup {c \in {This'} : Returned' /\ returned' # UNKNOWN}
      BY <1>2, <1>6, <1>13
<1>18. options'.retry < SizeMax => Attempted' = DOMAIN statuses'
      BY <1>1, <1>2 DEF ReportInv
<1> QED BY <1>6, <1>12, <1>13, <1>14, <1>16, <1>17, <1>18 DEF ReportInv, Accounted, TestStepsOf

(* The runner returns without an attempt.                                  *)
LEMMA NoAttemptReport ==
    ASSUME IInv, MessageInv, AttemptInv, ReportInv, RunScenario, UpdateQuery,
           Case!ReturnUnknown
    PROVE  ReportInv'
<1>1. /\ phase = "scenario" /\ casePc = "attempts" /\ casePc' = "returned"
      /\ UNCHANGED << options, phase, suite, scenario, statuses >>
      /\ returned' = UNKNOWN /\ verdicts' = verdicts /\ verdicts \in Seq(Status)
      BY CaseNames DEF RunScenario, workerVars, Case!ReturnUnknown, AttemptInv
<1>2. UNCHANGED << reported, entered >>
      BY <1>1 DEF UpdateQuery, LastAttemptFinishes
<1>3. Attempted' = Attempted /\ ~Returned /\ DOMAIN reported = Attempted
      BY <1>1 DEF Attempted, Returned, ReportInv
<1>4. ~(options.retry < SizeMax)
  <2> SUFFICES ASSUME options.retry < SizeMax PROVE FALSE OBVIOUS
  <2>1. Case!MaximumAttempts(runner) > 0 /\ Case!MaximumAttempts(runner) \in Nat
        BY <1>1 DEF AttemptInv, RunnerMade, MessageInv
  <2>2. attempt \in Nat /\ (attempt > 0 => attempt < Case!MaximumAttempts(runner))
        BY <1>1 DEF MessageInv
  <2>3. attempt >= Case!MaximumAttempts(runner)
        BY DEF Case!ReturnUnknown
  <2> QED BY <2>1, <2>2, <2>3
<1>5. {c \in {This'} : Returned' /\ returned' # UNKNOWN} = {}
      BY <1>1
<1> QED BY <1>1, <1>2, <1>3, <1>4, <1>5 DEF ReportInv, Accounted, Decides, TestStepsOf

(* The status of a scenario is kept.                                       *)
LEMMA FinishScenarioReport ==
    ASSUME IInv, ReportInv, FinishScenario, UpdateQuery
    PROVE  ReportInv'
<1>1. /\ phase = "scenario" /\ phase' = "scenarios" /\ casePc = "returned"
      /\ UNCHANGED << options, suite >> /\ casePc' \in {"attempts", "thrown"}
      /\ statuses' = [c \in DOMAIN statuses \cup {This} |->
                         IF c = This THEN returned ELSE statuses[c]]
      BY DEF FinishScenario, Case!Renew, This
<1>2. UNCHANGED << reported, entered >> /\ Returned /\ ~Returned'
      BY <1>1 DEF UpdateQuery, LastAttemptFinishes, Returned
<1>3. This \notin DOMAIN statuses
      BY <1>1, ThisIsNew
<1>4. /\ Attempted' = Attempted \cup {c \in {This} : returned # UNKNOWN}
      /\ \A c \in Attempted : statuses'[c] = statuses[c]
      /\ statuses'[This] = returned
      BY <1>1, <1>3 DEF Attempted
<1>5. DOMAIN reported' = Attempted' /\ DOMAIN entered' = DOMAIN reported'
      BY <1>2, <1>4 DEF ReportInv
<1>6. ASSUME NEW c \in Attempted' PROVE Decides(reported[c], statuses'[c])
  <2>1. CASE c \in Attempted
        BY <1>4, <2>1 DEF ReportInv
  <2>2. CASE c \notin Attempted
    <3>1. c = This /\ returned # UNKNOWN
          BY <1>4, <2>2
    <3> QED BY <1>2, <1>4, <3>1 DEF ReportInv
  <2> QED BY <2>1, <2>2
<1>7. \A c \in Attempted' : Decides(reported[c], statuses[c])'
      BY <1>1, <1>2, <1>6 DEF Decides
<1>8. options.retry < SizeMax => Attempted' = DOMAIN statuses'
      BY <1>1, <1>2, <1>4 DEF ReportInv
<1>9. {c \in {This'} : Returned' /\ returned' # UNKNOWN} = {}
      BY <1>2
<1> QED BY <1>1, <1>2, <1>5, <1>7, <1>8, <1>9 DEF ReportInv, Accounted, TestStepsOf

LEMMA RunScenarioReporting ==
    ASSUME IInv, MessageInv, ReportingInv, RunScenario, UpdateQuery
    PROVE  ReportingInv'
<1>1. /\ AttemptInv /\ ReportInv /\ Case!Next /\ phase = "scenario" /\ RunnerCore
      /\ UNCHANGED << options, phase, suite, scenario, statuses >>
      BY DEF ReportingInv, RunScenario, workerVars, IInv, RunnerInv, RunnerCore
<1>2. AttemptInv'
      BY <1>1, RunnerAttempt
<1>3. CASE Case!ReturnUnknown
      BY <1>1, <1>2, <1>3, NoAttemptReport DEF ReportingInv
<1>4. CASE casePc' # "returned"
  <2>1. UNCHANGED << reported, entered >> /\ ~Returned /\ ~Returned'
        BY <1>1, <1>4, RunnerReturns DEF UpdateQuery, LastAttemptFinishes, Returned
  <2> QED BY <1>1, <1>2, <2>1, NothingReturned DEF ReportingInv
<1>5. CASE Case!FinishAttempt /\ casePc' = "returned"
      BY <1>1, <1>2, <1>5, LastAttemptReport DEF ReportingInv
<1> QED BY <1>1, <1>3, <1>4, <1>5, RunnerReturns

(* Steps outside of a scenario.                                            *)
LEMMA ReportingKept ==
    ASSUME ReportingInv, UNCHANGED caseVars, UNCHANGED << options, statuses >>,
           phase # "scenario", phase' # "scenario", UpdateQuery
    PROVE  ReportingInv'
<1>1. UNCHANGED << reported, entered >> /\ ~Returned /\ ~Returned'
      BY DEF UpdateQuery, LastAttemptFinishes, Returned
<1>2. ReportInv'
      BY <1>1, NothingReturned DEF ReportingInv
<1>3. AttemptInv'
      BY DEF ReportingInv, AttemptInv, ResultsAccounted, BodyAccounted, RunnerMade, Accounted,
         caseVars
<1> QED BY <1>2, <1>3 DEF ReportingInv

LEMMA InitReporting == ReportingInit => ReportingInv
<1> SUFFICES ASSUME ReportingInit PROVE ReportingInv OBVIOUS
<1>1. /\ phase = "idle" /\ statuses = <<>> /\ reported = <<>> /\ entered = <<>>
      /\ testStepResults = <<>> /\ stepResults = <<>> /\ overallResult = PASSED
      /\ verdicts = <<>> /\ casePc \in {"attempts", "thrown"}
      BY CaseNames DEF ReportingInit, Init, InitQuery, Case!Construct
<1>2. AttemptInv
      BY <1>1, StatusValues DEF AttemptInv, ResultsAccounted, BodyAccounted, RunnerMade
<1>3. DOMAIN statuses = {} /\ DOMAIN reported = {} /\ DOMAIN entered = {} /\ ~Returned
      BY <1>1 DEF Returned
<1>4. ReportInv
      BY <1>3 DEF ReportInv, Attempted
<1> QED BY <1>2, <1>4 DEF ReportingInv

LEMMA StepReporting ==
    ASSUME IInv, MessageInv, ReportingInv, [ReportingNext]_reportVars
    PROVE  ReportingInv'
<1>1. CASE UNCHANGED reportVars
      BY <1>1 DEF reportVars, vars, workerVars, caseVars, ReportingInv, AttemptInv,
         ResultsAccounted, BodyAccounted, RunnerMade, Accounted, ReportInv, Attempted,
         Decides, Returned, This, TestStepsOf, Case!MaximumAttempts
<1>2. CASE StartScenario /\ UpdateQuery
  <2>1. /\ UNCHANGED << reported, entered >> /\ ~Returned /\ ~Returned'
        /\ UNCHANGED << options, statuses >>
        BY <1>2 DEF StartScenario, Case!Renew, UpdateQuery, LastAttemptFinishes, Returned
  <2> QED BY <1>2, <2>1, NewAttempt, NothingReturned DEF ReportingInv
<1>3. CASE FinishScenario /\ UpdateQuery
  <2>1. AttemptInv'
    <3>1. /\ testStepResults' = <<>> /\ stepResults' = <<>> /\ overallResult' = PASSED
          /\ verdicts' = <<>> /\ casePc' \in {"attempts", "thrown"} /\ phase' = "scenarios"
          BY <1>3, CaseNames DEF FinishScenario, Case!Renew
    <3> QED BY <3>1, StatusValues
            DEF AttemptInv, ResultsAccounted, BodyAccounted, RunnerMade
  <2> QED BY <1>3, <2>1, FinishScenarioReport DEF ReportingInv
<1>4. CASE RunScenario /\ UpdateQuery
      BY <1>4, RunScenarioReporting
<1>5. CASE (StartRun \/ ConstructWorker \/ StartTestRunHook \/ FinishTestRunHook
            \/ ThrowGlobalHookError \/ FinishBeforeAll) /\ UpdateQuery
  <2>1. hookOpen => phase \in HookPhases
        BY DEF IInv, HookInv
  <2> QED BY <1>5, <2>1, ReportingKept
          DEF StartRun, ConstructWorker, StartTestRunHook, FinishTestRunHook,
              ThrowGlobalHookError, FinishBeforeAll, HookPhases
<1>6. CASE (StartSuite \/ FinishSuites \/ FinishBeforeFeature \/ FinishScenarios
            \/ FinishSuite \/ FinishAfterFeature \/ FinishRun) /\ UpdateQuery
      BY <1>6, ReportingKept
         DEF StartSuite, FinishSuites, FinishBeforeFeature, FinishScenarios, FinishSuite,
             FinishAfterFeature, FinishRun, LeaveSuite
<1> QED BY <1>1, <1>2, <1>3, <1>4, <1>5, <1>6 DEF ReportingNext, Next

(* Every run keeps the invariants, with the query listening.               *)
THEOREM ReportingInvariance == Reporting => [](IInv /\ ReportingInv)
<1>1. ReportingInit => IInv /\ MessageInv /\ ReportingInv
      BY InitIInv, InitMessageInv, InitReporting DEF ReportingInit
<1>2. IInv /\ MessageInv /\ ReportingInv /\ [ReportingNext]_reportVars
      => IInv' /\ MessageInv' /\ ReportingInv'
  <2>1. [ReportingNext]_reportVars => [Next]_vars
        BY DEF ReportingNext, reportVars
  <2> QED BY <2>1, StepIInv, MessageStep, StepReporting
<1> QED BY <1>1, <1>2, PTL DEF Reporting

-----------------------------------------------------------------------------
(* The usage formatter.                                                    *)

LEMMA ReportedRan ==
    ASSUME ReportInv, phase = "finished" PROVE DOMAIN reported = Attempted
BY DEF ReportInv, Returned

(* A definition has a time exactly if a step it matched ran in a reported  *)
(* attempt and did not skip itself, and is UNUSED exactly if it matched no *)
(* step of a scenario that was run.                                        *)
THEOREM UsageIsAccurate == Reporting => []UsageTimesWhatRan
<1>1. ASSUME IInv, ReportingInv, phase = "finished", NEW unusedOnly \in BOOLEAN
      PROVE  LET table == UsageTable(unusedOnly) IN
             /\ \A d \in DOMAIN table :
                   /\ table[d] = "UNUSED" <=> StepsOfDefinition(d) = {}
                   /\ BeforeStepHooks = 0 =>
                         (table[d] = "mean" <=>
                            \E m \in StepsOfDefinition(d) : RanInReport(m))
             /\ unusedOnly => \A d \in DOMAIN table : table[d] = "UNUSED"
  <2> DEFINE table == UsageTable(unusedOnly)
  <2>1. \A d : Matches(d) = StepsOfDefinition(d)
        BY <1>1, ReportedRan DEF Matches, StepsOfDefinition, ReportingInv
  <2>2. /\ \A d \in DOMAIN table : table[d] = PrintUsagePattern(d) /\ d \in StepDefinitions
        /\ unusedOnly => \A d \in DOMAIN table : Matches(d) = {}
        BY DEF UsageTable, GetUsage, BuildMapping, BuildEmptyMapping
  <2>3. \A d : /\ Matches(d) = {} <=> PrintUsagePattern(d) = "UNUSED"
               /\ PrintUsagePattern(d) = "mean" <=> \E m \in Matches(d) : HasDuration(m)
        BY DEF PrintUsagePattern, MeanDuration
  <2>4. ASSUME BeforeStepHooks = 0, NEW d, NEW m \in StepsOfDefinition(d)
        PROVE  HasDuration(m) <=> RanInReport(m)
    <3>1. PICK c \in Attempted : \E i \in DOMAIN reported[c] :
              m = <<c, i>> /\ TestStepsOf(c)[i] = "single"
          BY DEF StepsOfDefinition, ShouldProcessTestStep
    <3>2. PICK i \in DOMAIN reported[c] : m = <<c, i>> /\ TestStepsOf(c)[i] = "single"
          BY <3>1
    <3>3. /\ reported[c][i] \in OutcomeStatuses
          /\ reported[c][i] # SKIPPED => i \in entered[c]
          BY <1>1, <2>4, <3>2, ReportedRan DEF ReportingInv, ReportInv, Accounted
    <3>4. HasDuration(m) <=> reported[c][i] # SKIPPED
          BY <3>2, <3>3, StatusValues DEF HasDuration, HasExecuted, OutcomeStatuses
    <3> QED BY <3>2, <3>3, <3>4 DEF RanInReport
  <2> HIDE DEF table
  <2>5. ASSUME NEW d \in DOMAIN table
        PROVE  /\ table[d] = "UNUSED" <=> StepsOfDefinition(d) = {}
               /\ BeforeStepHooks = 0 =>
                    (table[d] = "mean" <=> \E m \in StepsOfDefinition(d) : RanInReport(m))
    <3>1. table[d] = PrintUsagePattern(d) /\ Matches(d) = StepsOfDefinition(d)
          BY <2>1, <2>2
    <3> QED BY <2>3, <2>4, <3>1
  <2>6. unusedOnly => \A d \in DOMAIN table : table[d] = "UNUSED"
        BY <2>2, <2>3
  <2> QED BY <2>5, <2>6 DEF table
<1>2. IInv /\ ReportingInv => UsageTimesWhatRan
      BY <1>1 DEF UsageTimesWhatRan
<1> QED BY <1>2, ReportingInvariance, PTL

-----------------------------------------------------------------------------
(* The JUnit formatter.                                                    *)

(* The most severe status of a test case with test steps.                  *)
LEMMA MostSevereIs ==
    ASSUME ReportInv, NEW c \in DOMAIN reported, reported[c] # <<>>
    PROVE  /\ MostSevere(c) \in PASSED .. FAILED
           /\ \E i \in DOMAIN reported[c] : reported[c][i] = MostSevere(c)
           /\ \A i \in DOMAIN reported[c] : reported[c][i] <= MostSevere(c)
<1> DEFINE S == Severities(c)
           Has(m) == m \in S
<1>1. /\ reported[c] \in Seq(PASSED .. FAILED)
      /\ DOMAIN reported[c] # {}
      /\ \A i \in DOMAIN reported[c] : reported[c][i] \in 1 .. 6
      BY StatusValues DEF ReportInv
<1>2. /\ S \subseteq 1 .. 6 /\ S # {}
      /\ \A s \in S : \E i \in DOMAIN reported[c] : reported[c][i] = s
      /\ \A i \in DOMAIN reported[c] : reported[c][i] \in S
      BY <1>1 DEF Severities
<1>3. PICK m \in 1 .. 6 : m \in S /\ \A k \in m + 1 .. 6 : k \notin S
  <2>1. Has(1) \/ Has(2) \/ Has(3) \/ Has(4) \/ Has(5) \/ Has(6)
        BY <1>2
  <2> HIDE DEF Has
  <2>2. \E m \in 1 .. 6 : Has(m) /\ \A k \in m + 1 .. 6 : ~Has(k)
        BY <2>1
  <2> QED BY <2>2 DEF Has
<1>4. \A t \in S : WorstStatus(m, t) = m
      BY <1>2, <1>3 DEF WorstStatus
<1>5. MostSevere(c) \in S /\ \A t \in S : WorstStatus(MostSevere(c), t) = MostSevere(c)
      BY <1>3, <1>4 DEF MostSevere
<1> HIDE DEF S
<1>6. \A t \in S : t <= MostSevere(c)
  <2>1. \A a, b \in 1 .. 6 : WorstStatus(a, b) = a => b <= a
        BY DEF WorstStatus
  <2> QED BY <1>2, <1>5, <2>1
<1> QED BY <1>2, <1>5, <1>6, StatusValues

(* The three things a test case can be given.                              *)
LEMMA FailureOf ==
    ASSUME ReportInv, NEW c \in DOMAIN reported
    PROVE  /\ MakeFailure(c) \in {"none", "skipped", "failure"}
           /\ MakeFailure(c) = "failure" <=>
                reported[c] # <<>> /\ MostSevere(c) \in CountedAsFailures
           /\ MakeFailure(c) = "skipped" <=>
                reported[c] # <<>> /\ MostSevere(c) \in {SKIPPED}
           /\ MakeFailure(c) = "none" <=> \A i \in DOMAIN reported[c] : reported[c][i] = PASSED
<1>1. CASE reported[c] = <<>>
      BY <1>1 DEF MakeFailure
<1>2. CASE reported[c] # <<>>
  <2>1. /\ MostSevere(c) \in PASSED .. FAILED
        /\ \E i \in DOMAIN reported[c] : reported[c][i] = MostSevere(c)
        /\ \A i \in DOMAIN reported[c] : reported[c][i] <= MostSevere(c)
        BY <1>2, MostSevereIs
  <2>2. \A i \in DOMAIN reported[c] : reported[c][i] \in PASSED .. FAILED
    <3>1. reported[c] \in Seq(PASSED .. FAILED)
          BY DEF ReportInv
    <3> QED BY <3>1, StatusValues
  <2>3. MostSevere(c) = PASSED <=> \A i \in DOMAIN reported[c] : reported[c][i] = PASSED
        BY <2>1, <2>2, StatusValues
  <2> QED BY <1>2, <2>1, <2>3, StatusValues DEF MakeFailure, CountedAsFailures
<1> QED BY <1>1, <1>2

(* The document, by its parts.                                             *)
LEMMA DocumentIs ==
    /\ HandleTestRunFinished.testSuite.tests = Cardinality(DOMAIN reported)
    /\ HandleTestRunFinished.testSuite.failures = Count(CountedAsFailures)
    /\ HandleTestRunFinished.testSuite.skipped = Count({SKIPPED})
    /\ DOMAIN HandleTestRunFinished.testCases = DOMAIN reported
    /\ \A c \in DOMAIN reported :
          /\ HandleTestRunFinished.testCases[c].elements = {MakeFailure(c)} \ {"none"}
          /\ HandleTestRunFinished.testCases[c].systemOut = MakeOutput(c)
BY DEF HandleTestRunFinished, MakeReport, AddTestSuiteAttributes, AddTestCases, AddFailure,
       MakeTestCases

(* The scenarios of a run are finitely many.                               *)
LEMMA ScenariosFinite == IsFiniteSet(AllScenarios)
<1> DEFINE OfFeature(i) == {<<i, j>> : j \in DOMAIN Suites[i]}
           F == {OfFeature(i) : i \in DOMAIN Suites}
<1>1. \A i \in DOMAIN Suites : IsFiniteSet(OfFeature(i))
  <2> SUFFICES ASSUME NEW i \in DOMAIN Suites PROVE IsFiniteSet(OfFeature(i)) OBVIOUS
  <2> DEFINE f == [j \in DOMAIN Suites[i] |-> <<i, j>>]
  <2>1. IsFiniteSet(DOMAIN Suites[i])
        BY SuitesType, FS_Interval
  <2>2. f \in Surjection(DOMAIN Suites[i], OfFeature(i))
        BY DEF Surjection
  <2> HIDE DEF f, OfFeature
  <2> QED BY <2>1, <2>2, FS_Surjection
<1>2. IsFiniteSet(F)
  <2> DEFINE g == [i \in DOMAIN Suites |-> OfFeature(i)]
  <2>1. IsFiniteSet(DOMAIN Suites)
        BY SuitesType, FS_Interval
  <2> HIDE DEF OfFeature
  <2>2. g \in Surjection(DOMAIN Suites, F)
        BY DEF Surjection
  <2> HIDE DEF g, F
  <2> QED BY <2>1, <2>2, FS_Surjection
<1>3. \A T \in F : IsFiniteSet(T)
      BY <1>1
<1> HIDE DEF F
<1>4. IsFiniteSet(UNION F)
      BY <1>2, <1>3, FS_UNION
<1> QED BY <1>4 DEF AllScenarios, F

(* None is counted exactly if there is none.                               *)
LEMMA NoneCounted ==
    ASSUME IInv, ReportInv, phase = "finished", NEW severities
    PROVE  Count(severities) = 0 <=>
             \A c \in DOMAIN reported :
                reported[c] # <<>> => MostSevere(c) \notin severities
<1> DEFINE C == {c \in DOMAIN reported : reported[c] # <<>> /\ MostSevere(c) \in severities}
<1>1. DOMAIN reported \subseteq AllScenarios
      BY ReportedRan DEF Attempted, IInv, TypeOK
<1>2. IsFiniteSet(C)
  <2>1. C \in SUBSET AllScenarios
        BY <1>1
  <2> HIDE DEF C
  <2> QED BY <2>1, ScenariosFinite, FS_Subset
<1>3. Cardinality(C) = 0 <=> C = {}
  <2> HIDE DEF C
  <2> QED BY <1>2, FS_EmptySet
<1> QED BY <1>3 DEF Count

(* The JUnit document agrees with itself and with the run.                 *)
THEOREM JunitIsAccurate == Reporting => []JunitAgreesWithRun
<1> DEFINE testSuite == HandleTestRunFinished.testSuite
           testCases == HandleTestRunFinished.testCases
<1>1. ASSUME IInv, ReportingInv, phase = "finished", ~options.dryRun
      PROVE  /\ testSuite.tests = Cardinality(Attempted)
             /\ testSuite.failures = Cardinality(With("failure", testCases))
             /\ testSuite.skipped = Cardinality(With("skipped", testCases))
             /\ \A c \in DOMAIN testCases :
                   /\ testCases[c].elements = {} => Range(testCases[c].systemOut) \subseteq {PASSED}
                   /\ Range(testCases[c].systemOut) \subseteq {PASSED} =>
                        testCases[c].elements = {} \/ HasHooks(c)
             /\ testSuite.failures = 0 /\ ~HookFailed /\ options.repeat = NoRepeat => success
             /\ success /\ options.strict =>
                   /\ testSuite.failures = 0
                   /\ options.retry < SizeMax => testSuite.tests = Cardinality(AllScenarios)
  <2>1. ReportInv /\ DOMAIN reported = Attempted
        BY <1>1, ReportedRan DEF ReportingInv
  <2>2. /\ testSuite.tests = Cardinality(DOMAIN reported)
        /\ testSuite.failures = Count(CountedAsFailures)
        /\ testSuite.skipped = Count({SKIPPED})
        /\ DOMAIN testCases = DOMAIN reported
        /\ \A c \in DOMAIN reported :
              /\ testCases[c].elements = {MakeFailure(c)} \ {"none"}
              /\ testCases[c].systemOut = MakeOutput(c)
        BY DocumentIs
  <2> HIDE DEF testSuite, testCases
  <2>3. With("failure", testCases) = {c \in DOMAIN reported :
            reported[c] # <<>> /\ MostSevere(c) \in CountedAsFailures}
        BY <2>1, <2>2, FailureOf DEF With
  <2>4. With("skipped", testCases) = {c \in DOMAIN reported :
            reported[c] # <<>> /\ MostSevere(c) \in {SKIPPED}}
        BY <2>1, <2>2, FailureOf DEF With
  <2>5. ASSUME NEW c \in DOMAIN reported
        PROVE  /\ testCases[c].elements = {} => Range(testCases[c].systemOut) \subseteq {PASSED}
               /\ Range(testCases[c].systemOut) \subseteq {PASSED} =>
                    testCases[c].elements = {} \/ HasHooks(c)
    <3>1. testCases[c].elements = {} <=> \A i \in DOMAIN reported[c] : reported[c][i] = PASSED
          BY <2>1, <2>2, FailureOf
    <3>2. /\ DOMAIN testCases[c].systemOut =
                {j \in DOMAIN reported[c] : TestStepsOf(c)[j] # "hook"}
          /\ \A i \in DOMAIN testCases[c].systemOut :
                testCases[c].systemOut[i] = reported[c][i]
          BY <2>2 DEF MakeOutput
    <3>3. ASSUME ~HasHooks(c), NEW i \in DOMAIN reported[c]
          PROVE  i \in DOMAIN testCases[c].systemOut
      <4>1. /\ c \in AllScenarios /\ reported[c] \in Seq(PASSED .. FAILED)
            /\ Len(reported[c]) = Len(TestStepsOf(c))
            BY <1>1, <2>1 DEF ReportInv, Attempted, IInv, TypeOK
      <4>2. i \in DOMAIN TestStepsOf(c)
            BY <4>1, StepsOfScenario
      <4> QED BY <3>2, <3>3, <4>2 DEF HasHooks, Range
    <3> QED BY <3>1, <3>2, <3>3 DEF Range
  <2>6. ASSUME testSuite.failures = 0, ~HookFailed, options.repeat = NoRepeat, ~success
        PROVE  FALSE
    <3>1. PICK c \in DOMAIN statuses : IsStatusFailed(statuses[c])
          BY <1>1, <2>6 DEF IInv, FailingInv, ScenarioFailed, HookFailed
    <3>2. statuses[c] \in {PENDING, UNDEFINED, AMBIGUOUS, FAILED}
          BY <3>1 DEF IsStatusFailed, FailingStatuses
    <3>3. c \in Attempted /\ Decides(reported[c], statuses[c])
          BY <2>1, <3>2, StatusValues DEF Attempted, ReportInv
    <3>4. reported[c] # <<>> /\ \E i \in DOMAIN reported[c] : reported[c][i] = statuses[c]
          BY <2>6, <3>2, <3>3, StatusValues DEF Decides
    <3>5. MostSevere(c) = statuses[c]
      <4>1. /\ MostSevere(c) \in PASSED .. FAILED
            /\ \E i \in DOMAIN reported[c] : reported[c][i] = MostSevere(c)
            /\ \A i \in DOMAIN reported[c] : reported[c][i] <= MostSevere(c)
            BY <2>1, <3>3, <3>4, MostSevereIs
      <4>2. MostSevere(c) <= statuses[c] /\ statuses[c] <= MostSevere(c)
            BY <3>3, <3>4, <4>1 DEF Decides
      <4> QED BY <3>2, <4>1, <4>2, StatusValues
    <3>6. MostSevere(c) \in CountedAsFailures
          BY <3>2, <3>5 DEF CountedAsFailures
    <3> QED BY <1>1, <2>1, <2>2, <2>6, <3>3, <3>4, <3>6, NoneCounted
  <2>7. ASSUME success, options.strict
        PROVE  /\ testSuite.failures = 0
               /\ options.retry < SizeMax => testSuite.tests = Cardinality(AllScenarios)
    <3>1. DOMAIN statuses = AllScenarios /\ \A c \in AllScenarios : ~IsStatusFailed(statuses[c])
          BY <1>1, <2>7, SuccessOf
    <3>2. ASSUME NEW c \in DOMAIN reported, reported[c] # <<>>
          PROVE  MostSevere(c) \notin CountedAsFailures
      <4>1. /\ c \in Attempted /\ c \in AllScenarios /\ statuses[c] \in Status
            /\ ~IsStatusFailed(statuses[c]) /\ Decides(reported[c], statuses[c])
            BY <1>1, <2>1, <3>1 DEF Attempted, ReportInv, IInv, TypeOK
      <4>2. statuses[c] \in {UNKNOWN, PASSED, SKIPPED}
            BY <1>1, <2>7, <4>1, StatusValues DEF IsStatusFailed, FailingStatuses
      <4>3. /\ MostSevere(c) \in PASSED .. FAILED
            /\ \E i \in DOMAIN reported[c] : reported[c][i] = MostSevere(c)
            BY <2>1, <3>2, MostSevereIs
      <4>4. MostSevere(c) <= statuses[c]
            BY <4>1, <4>3 DEF Decides
      <4> QED BY <4>2, <4>3, <4>4, StatusValues DEF CountedAsFailures
    <3>3. testSuite.failures = 0
          BY <1>1, <2>1, <2>2, <3>2, NoneCounted
    <3>4. options.retry < SizeMax => Attempted = AllScenarios
          BY <2>1, <3>1 DEF ReportInv
    <3> QED BY <2>1, <2>2, <3>3, <3>4
  <2> QED BY <2>1, <2>2, <2>3, <2>4, <2>5, <2>6, <2>7 DEF Count
<1>2. IInv /\ ReportingInv => JunitAgreesWithRun
      BY <1>1 DEF JunitAgreesWithRun
<1> QED BY <1>2, ReportingInvariance, PTL
=============================================================================
