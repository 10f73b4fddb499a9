------------------------ MODULE TestCaseRunner_proofs ------------------------
(***************************************************************************)
(* TestCaseRunner, proved for every set of test cases, any number of step  *)
(* hooks and every width of std::size_t.                                   *)
(*                                                                         *)
(* IInv is inductive: one lemma per kind of step, and one lemma for all    *)
(* the steps that record the result of a test step.                        *)
(***************************************************************************)
EXTENDS TestCaseRunner, TestStepResults_proofs, SequenceTheorems

LEMMA Constants ==
    /\ TestCases \subseteq Seq(TestStep)
    /\ BeforeStepHooks \in Nat /\ AfterStepHooks \in Nat /\ SizeMax \in Nat
    /\ Retries \subseteq 0 .. SizeMax
    /\ Repeats \subseteq {-1} \cup 0 .. SizeMax
BY TestCaseRunnerAssumption DEF NoRepeat

LEMMA OutcomesAreSound ==
    \A r \in Outcome : r \in Result /\ Sound(r)
<1>1. /\ Quiet(PASSED) \in Result /\ Sound(Quiet(PASSED))
      /\ Quiet(SKIPPED) \in Result /\ Sound(Quiet(SKIPPED))
      /\ Quiet(PENDING) \in Result /\ Sound(Quiet(PENDING))
  BY StatusValues DEF Result, Sound, Quiet
<1>2. /\ Reported(FAILED) \in Result /\ Sound(Reported(FAILED))
      /\ Reported(SKIPPED) \in Result /\ Sound(Reported(SKIPPED))
      /\ Reported(PENDING) \in Result /\ Sound(Reported(PENDING))
  BY StatusValues DEF Result, Sound, Reported
<1> QED
  BY <1>1, <1>2, Zenon DEF Outcome

LEMMA RunnerType ==
    ASSUME runner \in Runner
    PROVE  /\ runner.testSteps \in Seq(TestStep)
           /\ runner.repeat \in {-1} \cup Nat
           /\ runner.retries \in Nat
           /\ runner.skip \in BOOLEAN
           /\ MaximumAttempts(runner) \in Nat
<1>1. /\ runner.testSteps \in Seq(TestStep)
      /\ runner.repeat \in {-1} \cup 0 .. SizeMax
      /\ runner.retries \in 0 .. SizeMax
      /\ runner.skip \in BOOLEAN
  BY Constants DEF Runner
<1>2. (1 + runner.retries) % (SizeMax + 1) \in Nat
  BY <1>1, Constants
<1>3. MaximumAttempts(runner) \in Nat
  BY <1>1, <1>2 DEF MaximumAttempts, NoRepeat
<1> QED
  BY <1>1, <1>3, Constants

(* The worst result of the attempt, in terms of the results so far.        *)
LEMMA WorstStepResult ==
    ASSUME testStepResults \in Seq(Result), runner.skip \in BOOLEAN,
           \A j \in DOMAIN testStepResults : Sound(testStepResults[j])
    PROVE  /\ GetWorstStepResult \in Result
           /\ GetWorstStepResult.status \in 1 .. 6
           /\ GetWorstStepResult.status = PASSED <=>
                 /\ \A j \in DOMAIN testStepResults :
                       testStepResults[j].status = PASSED
                 /\ testStepResults = <<>> => ~runner.skip
<1>1. CASE testStepResults = <<>>
  BY <1>1, StatusValues DEF GetWorstStepResult, Quiet, Result
<1>2. CASE testStepResults # <<>>
  <2>1. PICK i \in DOMAIN testStepResults :
           /\ GetWorstTestStepResult(testStepResults) = testStepResults[i]
           /\ \A j \in DOMAIN testStepResults :
                 testStepResults[j].status <= testStepResults[i].status
    BY <1>2, WorstOfResults
  <2>2. GetWorstStepResult = testStepResults[i]
    BY <1>2, <2>1 DEF GetWorstStepResult
  <2>3. \A j \in DOMAIN testStepResults :
           testStepResults[j] \in Result /\ testStepResults[j].status \in 1 .. 6
    BY ResultsInList, StatusValues DEF Sound
  <2> QED
    BY <1>2, <2>1, <2>2, <2>3, StatusValues
<1> QED
  BY <1>1, <1>2

(* RunStep()'s question, in the same terms.                                *)
LEMMA FollowsOnlySkips ==
    ASSUME testStepResults \in Seq(Result), runner.skip \in BOOLEAN
    PROVE  FollowsSkippedStep <=> ~runner.skip /\ AfterOnlySkips(Current)
<1>1. /\ DOMAIN testStepResults = 1 .. Current - 1
      /\ testStepResults = <<>> => DOMAIN testStepResults = {}
  BY DEF Current
<1>2. CASE testStepResults = <<>>
  BY <1>1, <1>2 DEF FollowsSkippedStep, AfterOnlySkips
<1>3. CASE testStepResults # <<>>
  <2>1. PICK i \in DOMAIN testStepResults :
           /\ GetWorstTestStepResult(testStepResults) = testStepResults[i]
           /\ \A j \in DOMAIN testStepResults :
                 testStepResults[j].status <= testStepResults[i].status
    BY <1>3, WorstOfResults
  <2>2. \A j \in DOMAIN testStepResults : testStepResults[j].status \in 0 .. 6
    BY ResultsInList
  <2>3. FollowsSkippedStep <=> ~runner.skip /\ testStepResults[i].status = SKIPPED
    BY <1>3, <2>1 DEF FollowsSkippedStep, GetWorstStepResult
  <2>4. testStepResults[i].status = SKIPPED <=> AfterOnlySkips(Current)
    BY <1>1, <2>1, <2>2, StatusValues DEF AfterOnlySkips
  <2> QED
    BY <2>3, <2>4
<1> QED
  BY <1>2, <1>3

-----------------------------------------------------------------------------
LEMMA InitIInv == Init => IInv
<1> SUFFICES ASSUME Init PROVE IInv
  OBVIOUS
<1>1. PICK r \in Runner : Construct(r)
  BY DEF Init
<1>2. runner \in Runner
  BY <1>1 DEF Construct
<1>3. TypeOK
  <2>1. /\ PASSED \in Status /\ UNKNOWN \in Status
        /\ 0 \in 0 .. AfterStepHooks
        /\ <<>> \in Seq(Result) /\ <<>> \in Seq(Status)
    BY Constants, StatusValues, EmptySeq
  <2> QED
    BY <1>1, <1>2, <2>1 DEF Construct, TypeOK
<1>4. PositionInv
  BY <1>1, <1>2, RunnerType
     DEF Construct, PositionInv, InAttempt, InStep
<1>5. ResultInv
  BY <1>1 DEF Construct, ResultInv, Sound
<1>6. VerdictInv /\ ReturnedInv
  BY <1>1, StatusValues DEF Construct, VerdictInv, ReturnedInv, InAttempt
<1>7. SkipInvokesNothing /\ EarlierResultsDecide
  BY <1>1 DEF Construct, SkipInvokesNothing, EarlierResultsDecide, RunsOnlyAfterPassing,
              SkipsHideUndefined, OnlyFailedHooksOmitBody
<1> QED
  BY <1>3, <1>4, <1>5, <1>6, <1>7 DEF IInv

-----------------------------------------------------------------------------
(* Appending a result: what becomes of the list.                           *)
LEMMA AppendResult ==
    ASSUME NEW s \in Seq(Result), NEW r \in Result
    PROVE  /\ Append(s, r) \in Seq(Result)
           /\ Append(s, r) # <<>>
           /\ Len(Append(s, r)) = Len(s) + 1
           /\ DOMAIN Append(s, r) = 1 .. Len(s) + 1
           /\ \A j \in 1 .. Len(s) : Append(s, r)[j] = s[j]
           /\ Append(s, r)[Len(s) + 1] = r
BY AppendProperties

(* Every step that records a result r for the current test step preserves  *)
(* the invariant, provided r and `invoked' tell the truth about it.        *)
LEMMA RecordIInv ==
    ASSUME IInv,
           pc \in {"dispatch", "afterStep"},
           NEW r \in Result, Record(r), Sound(r),
           r.status = PASSED =>
              /\ ~runner.skip /\ Current \in invoked'
              /\ CurrentStep \in {"hook", "single"},
           ~IsStep(Current) /\ AfterAStep(Current) /\ ~runner.skip =>
              Current \in invoked',
           invoked' = invoked \/ (invoked' = invoked \cup {Current} /\ ~runner.skip),
           Current \in invoked' /\ (IsStep(Current) \/ ~AfterAStep(Current)) =>
              \A j \in DOMAIN testStepResults : testStepResults[j].status = PASSED,
           CurrentStep \in {"undefined", "ambiguous"} =>
              (r.status = SKIPPED <=> ~runner.skip /\ AfterOnlySkips(Current)),
           seenSteps' = (seenSteps \/ IsStep(Current)),
           error' \in BOOLEAN, error' => error \/ r.status # PASSED,
           stepResults' = <<>> \/ stepResults' = stepResults,
           afterStep' = 0 \/ afterStep' = afterStep
    PROVE  IInv'
<1> USE DEF IInv
<1> DEFINE n == Len(testStepResults)
<1>1. /\ testStepResults \in Seq(Result) /\ runner \in Runner
      /\ stepResults \in Seq(Result)
      /\ n \in Nat /\ DOMAIN testStepResults = 1 .. n
      /\ runner.testSteps \in Seq(TestStep)
      /\ Len(runner.testSteps) \in Nat
      /\ DOMAIN runner.testSteps = 1 .. Len(runner.testSteps)
  BY RunnerType DEF TypeOK
<1>2. /\ testStepResults' \in Seq(Result)
      /\ Len(testStepResults') = n + 1
      /\ DOMAIN testStepResults' = 1 .. n + 1
      /\ \A j \in 1 .. n : testStepResults'[j] = testStepResults[j]
      /\ testStepResults'[n + 1] = r
      /\ testStepResults' = Append(testStepResults, r)
  BY <1>1, AppendResult DEF Record
<1>3. /\ pc' = "testSteps"
      /\ runner' = runner /\ attempt' = attempt
      /\ overallResult' = overallResult /\ returned' = returned
      /\ verdicts' = verdicts
  BY DEF Record
<1>4. n + 1 <= Len(runner.testSteps) /\ Current = n + 1
  BY DEF PositionInv, InStep, Current
<1>5. invoked \subseteq 1 .. n + 1 /\ invoked' \subseteq 1 .. n + 1
      /\ invoked \subseteq invoked'
  <2>1. invoked \subseteq 1 .. n + (IF pc = "afterStep" THEN 1 ELSE 0)
    BY DEF PositionInv
  <2>2. invoked \subseteq 1 .. n + 1
    BY <1>1, <2>1
  <2>3. invoked' \subseteq invoked \cup {n + 1} /\ invoked \subseteq invoked'
    BY <1>4
  <2> QED
    BY <1>1, <2>2, <2>3
<1>6. TypeOK'
  <2>1. invoked' \subseteq DOMAIN runner'.testSteps
    BY <1>1, <1>3, <1>4, <1>5
  <2>2. stepResults' \in Seq(Result)
    BY <1>1, EmptySeq
  <2>3. afterStep' \in 0 .. AfterStepHooks /\ seenSteps' \in BOOLEAN
    BY Constants DEF TypeOK
  <2> QED
    BY <1>2, <1>3, <2>1, <2>2, <2>3 DEF TypeOK
<1>7. \A j \in Int : IsStep(j)' = IsStep(j) /\ AfterAStep(j)' = AfterAStep(j)
  BY <1>3 DEF IsStep, AfterAStep
<1>8. PositionInv'
  <2>1. AfterAStep(n + 2) <=> AfterAStep(n + 1) \/ IsStep(n + 1)
    BY <1>1 DEF AfterAStep
  <2>2. seenSteps <=> AfterAStep(n + 1)
    BY <1>4 DEF PositionInv, InAttempt
  <2>3. Current' = n + 2
    BY <1>1, <1>2 DEF Current
  <2>4. seenSteps' <=> AfterAStep(n + 2)
    BY <1>1, <1>4, <2>1, <2>2
  <2>5. AfterAStep(Current)' <=> AfterAStep(n + 2)
    BY <1>3, <2>3 DEF AfterAStep, IsStep
  <2> QED
    BY <1>1, <1>2, <1>3, <1>4, <1>5, <1>7, <2>4, <2>5 DEF PositionInv, InStep, InAttempt
<1>9. ResultInv'
  <2>1. ASSUME NEW j \in 1 .. n + 1
        PROVE  /\ Sound(testStepResults'[j])
               /\ testStepResults'[j].status = PASSED =>
                    /\ ~runner.skip /\ j \in invoked'
                    /\ runner.testSteps[j] \in {"hook", "single"}
               /\ ~IsStep(j) /\ AfterAStep(j) /\ ~runner.skip => j \in invoked'
    <3>1. CASE j \in 1 .. n
      BY <1>1, <1>2, <1>5, <3>1 DEF ResultInv
    <3>2. CASE j = n + 1
      BY <1>2, <1>4, <3>2 DEF CurrentStep
    <3> QED
      BY <1>1, <3>1, <3>2
  <2>2. \A j \in DOMAIN stepResults' : Sound(stepResults'[j])
    BY DEF ResultInv
  <2>3. error' => \E j \in 1 .. n + 1 : testStepResults'[j].status # PASSED
    BY <1>1, <1>2 DEF ResultInv
  <2> QED
    BY <1>2, <1>3, <1>7, <2>1, <2>2, <2>3 DEF ResultInv, Sound
<1>10. VerdictInv'
  BY <1>3 DEF VerdictInv, InAttempt
<1>11. ReturnedInv'
  BY <1>3 DEF ReturnedInv
<1>12. SkipInvokesNothing'
  BY <1>3 DEF SkipInvokesNothing
<1>13. RunsOnlyAfterPassing'
  <2> SUFFICES ASSUME NEW i \in invoked', IsStep(i) \/ ~AfterAStep(i),
                      NEW j \in 1 .. i - 1
               PROVE  testStepResults'[j].status = PASSED
    BY <1>5, <1>7 DEF RunsOnlyAfterPassing
  <2>1. j \in 1 .. n
    BY <1>1, <1>5
  <2>2. CASE i \in invoked
    BY <1>2, <2>1, <2>2 DEF EarlierResultsDecide, RunsOnlyAfterPassing
  <2>3. CASE i = Current
    BY <1>1, <1>2, <2>1, <2>3
  <2> QED
    BY <2>2, <2>3
<1>14. SkipsHideUndefined'
  <2>1. \A i \in 1 .. n + 1 : AfterOnlySkips(i)' <=> AfterOnlySkips(i)
    BY <1>1, <1>2 DEF AfterOnlySkips
  <2>2. ASSUME NEW i \in 1 .. n + 1, runner.testSteps[i] \in {"undefined", "ambiguous"}
        PROVE  testStepResults'[i].status = SKIPPED <=> ~runner.skip /\ AfterOnlySkips(i)
    <3>1. CASE i \in 1 .. n
      BY <1>1, <1>2, <2>2, <3>1 DEF EarlierResultsDecide, SkipsHideUndefined
    <3>2. CASE i = n + 1
      BY <1>2, <1>4, <2>2, <3>2 DEF CurrentStep
    <3> QED
      BY <1>1, <3>1, <3>2
  <2> QED
    BY <1>2, <1>3, <2>1, <2>2 DEF SkipsHideUndefined
<1>15. EarlierResultsDecide'
  BY <1>3, <1>13, <1>14 DEF EarlierResultsDecide, OnlyFailedHooksOmitBody
<1> QED
  BY <1>6, <1>8, <1>9, <1>10, <1>11, <1>12, <1>15
(* The worst result so far, in a state that satisfies the invariant.       *)
LEMMA WorstInIInv ==
    ASSUME IInv
    PROVE  /\ GetWorstStepResult \in Result
           /\ GetWorstStepResult.status \in 1 .. 6
           /\ IsSkippingSteps <=>
                 \/ \E j \in DOMAIN testStepResults :
                       testStepResults[j].status # PASSED
                 \/ testStepResults = <<>> /\ runner.skip
           /\ runner.skip => IsSkippingSteps
<1>1. /\ testStepResults \in Seq(Result) /\ runner.skip \in BOOLEAN
      /\ \A j \in DOMAIN testStepResults :
            /\ Sound(testStepResults[j])
            /\ testStepResults[j].status = PASSED => ~runner.skip
  BY RunnerType DEF IInv, TypeOK, ResultInv
<1>2. /\ GetWorstStepResult \in Result
      /\ GetWorstStepResult.status \in 1 .. 6
      /\ IsSkippingSteps <=>
            \/ \E j \in DOMAIN testStepResults :
                  testStepResults[j].status # PASSED
            \/ testStepResults = <<>> /\ runner.skip
  BY <1>1, WorstStepResult DEF IsSkippingSteps
<1>3. runner.skip => IsSkippingSteps
  <2> SUFFICES ASSUME runner.skip, testStepResults # <<>>
               PROVE  \E j \in DOMAIN testStepResults :
                         testStepResults[j].status # PASSED
    BY <1>2
  <2>1. 1 \in DOMAIN testStepResults
    BY <1>1, EmptySeq
  <2> QED
    BY <1>1, <2>1
<1> QED
  BY <1>2, <1>3

(* The current test step, while one is being executed.                     *)
LEMMA CurrentInIInv ==
    ASSUME IInv, pc \in {"dispatch", "beforeStep", "afterStep"}
    PROVE  /\ Current = Len(testStepResults) + 1
           /\ Current \in 1 .. Len(runner.testSteps)
           /\ Current \in DOMAIN runner.testSteps
           /\ Current \notin DOMAIN testStepResults
           /\ DOMAIN testStepResults = 1 .. Current - 1
           /\ CurrentStep \in TestStep
           /\ IsStep(Current) <=> CurrentStep # "hook"
           /\ seenSteps <=> AfterAStep(Current)
<1>1. runner.testSteps \in Seq(TestStep) /\ testStepResults \in Seq(Result)
  BY RunnerType DEF IInv, TypeOK
<1>2. Current = Len(testStepResults) + 1 /\ Current <= Len(runner.testSteps)
  BY DEF IInv, PositionInv, InStep, Current
<1>3. seenSteps <=> AfterAStep(Current)
  BY DEF IInv, PositionInv, InAttempt
<1> QED
  BY <1>1, <1>2, <1>3 DEF CurrentStep, IsStep

LEMMA SkipHookIInv == IInv /\ SkipHook => IInv'
<1> SUFFICES ASSUME IInv, SkipHook PROVE IInv'
  OBVIOUS
<1>1. /\ pc = "dispatch" /\ CurrentStep = "hook" /\ ShouldSkipHook(~seenSteps)
      /\ Record(Quiet(SKIPPED)) /\ invoked' = invoked
      /\ seenSteps' = seenSteps /\ error' = error
      /\ stepResults' = stepResults /\ afterStep' = afterStep
  BY DEF SkipHook, RecordHook
<1>2. Quiet(SKIPPED) \in Result /\ Sound(Quiet(SKIPPED))
      /\ Quiet(SKIPPED).status # PASSED
  BY OutcomesAreSound, StatusValues DEF Outcome, Quiet
<1>3. ~IsStep(Current) /\ Current \notin invoked
  BY <1>1, CurrentInIInv DEF IInv, PositionInv
<1>4. AfterAStep(Current) => runner.skip
  BY <1>1, CurrentInIInv DEF ShouldSkipHook
<1>5. seenSteps' = (seenSteps \/ IsStep(Current)) /\ error' \in BOOLEAN
  BY <1>1, <1>3 DEF IInv, TypeOK
<1> QED
  BY <1>1, <1>2, <1>3, <1>4, <1>5, RecordIInv

LEMMA InvokeHookIInv == IInv /\ InvokeHook => IInv'
<1> SUFFICES ASSUME IInv, InvokeHook PROVE IInv'
  OBVIOUS
<1>1. PICK r \in Outcome :
      /\ pc = "dispatch" /\ CurrentStep = "hook" /\ ~ShouldSkipHook(~seenSteps)
      /\ Record(r) /\ invoked' = invoked \cup {Current}
      /\ seenSteps' = seenSteps /\ error' = error
      /\ stepResults' = stepResults /\ afterStep' = afterStep
  BY DEF InvokeHook, RecordHook
<1>2. r \in Result /\ Sound(r)
  BY OutcomesAreSound
<1>3. ~IsStep(Current) /\ Current \in invoked' /\ ~runner.skip
  BY <1>1, CurrentInIInv DEF ShouldSkipHook
<1>4. ~AfterAStep(Current) =>
         \A j \in DOMAIN testStepResults : testStepResults[j].status = PASSED
  BY <1>1, CurrentInIInv, WorstInIInv DEF ShouldSkipHook
<1>5. seenSteps' = (seenSteps \/ IsStep(Current)) /\ error' \in BOOLEAN
  BY <1>1, <1>3 DEF IInv, TypeOK
<1> QED
  BY <1>1, <1>2, <1>3, <1>4, <1>5, RecordIInv

(* The three ways a step is reported without running anything.             *)
LEMMA UnexecutedStepIInv ==
    ASSUME IInv, NEW r \in Result, Sound(r), r.status # PASSED,
           pc = "dispatch", CurrentStep # "hook", RecordStep(r),
           CurrentStep \in {"undefined", "ambiguous"} =>
              (r.status = SKIPPED <=> FollowsSkippedStep),
           UNCHANGED <<stepResults, afterStep, invoked>>
    PROVE  IInv'
<1>1. /\ Record(r) /\ invoked' = invoked
      /\ seenSteps' = TRUE /\ error' = (error \/ r.reported)
      /\ stepResults' = stepResults /\ afterStep' = afterStep
  BY DEF RecordStep
<1>2. IsStep(Current) /\ Current \notin invoked
  BY CurrentInIInv DEF IInv, PositionInv
<1>3. seenSteps' = (seenSteps \/ IsStep(Current)) /\ error' \in BOOLEAN
  BY <1>1, <1>2 DEF IInv, TypeOK, Result
<1>4. error' => error \/ r.status # PASSED
  OBVIOUS
<1>5. FollowsSkippedStep <=> ~runner.skip /\ AfterOnlySkips(Current)
  BY FollowsOnlySkips, RunnerType DEF IInv, TypeOK
<1> QED
  BY <1>1, <1>2, <1>3, <1>4, <1>5, RecordIInv

LEMMA ReportUndefinedIInv == IInv /\ ReportUndefined => IInv'
<1>1. /\ Quiet(UNDEFINED) \in Result /\ Sound(Quiet(UNDEFINED))
      /\ Quiet(UNDEFINED).status \notin {PASSED, SKIPPED}
  BY StatusValues DEF Quiet, Result, Sound
<1> QED
  BY <1>1, UnexecutedStepIInv DEF ReportUndefined

LEMMA ReportAmbiguousIInv == IInv /\ ReportAmbiguous => IInv'
<1>1. /\ Reported(AMBIGUOUS) \in Result /\ Sound(Reported(AMBIGUOUS))
      /\ Reported(AMBIGUOUS).status \notin {PASSED, SKIPPED}
  BY StatusValues DEF Reported, Result, Sound
<1> QED
  BY <1>1, UnexecutedStepIInv DEF ReportAmbiguous

LEMMA SkipStepIInv == IInv /\ SkipStep => IInv'
<1>1. /\ Quiet(SKIPPED) \in Result /\ Sound(Quiet(SKIPPED))
      /\ Quiet(SKIPPED).status # PASSED /\ Quiet(SKIPPED).status = SKIPPED
  BY StatusValues DEF Quiet, Result, Sound
<1>2. SkipStep => /\ CurrentStep # "hook"
                  /\ CurrentStep \in {"undefined", "ambiguous"} => FollowsSkippedStep
  BY DEF SkipStep
<1> QED
  BY <1>1, <1>2, UnexecutedStepIInv DEF SkipStep

LEMMA FinishStepIInv == IInv /\ FinishStep => IInv'
<1> SUFFICES ASSUME IInv, FinishStep PROVE IInv'
  OBVIOUS
<1> DEFINE r == GetWorstTestStepResult(stepResults)
<1>1. /\ pc = "afterStep" /\ Record(r)
      /\ seenSteps' = TRUE /\ error' = (error \/ r.reported)
      /\ stepResults' = <<>> /\ afterStep' = 0 /\ invoked' = invoked
  BY DEF FinishStep, RecordStep
<1>2. /\ stepResults \in Seq(Result) /\ stepResults # <<>>
      /\ \A j \in DOMAIN stepResults : Sound(stepResults[j])
      /\ \/ Current \in invoked
         \/ \E j \in DOMAIN stepResults : stepResults[j].status = FAILED
  BY <1>1 DEF IInv, TypeOK, ResultInv
<1>3. PICK i \in DOMAIN stepResults :
         /\ r = stepResults[i]
         /\ \A j \in DOMAIN stepResults :
               stepResults[j].status <= stepResults[i].status
  BY <1>2, WorstOfResults
<1>4. r \in Result /\ Sound(r)
  BY <1>2, <1>3, ResultsInList
<1>5. /\ CurrentStep = "single" /\ ~runner.skip /\ IsStep(Current)
      /\ \A j \in DOMAIN testStepResults : testStepResults[j].status = PASSED
  BY <1>1, CurrentInIInv DEF IInv, PositionInv, InStep
<1>6. r.status = PASSED => Current \in invoked'
  BY <1>1, <1>2, <1>3, StatusValues, ResultsInList
<1>7. seenSteps' = (seenSteps \/ IsStep(Current))
  BY <1>1, <1>5
<1>8. error' \in BOOLEAN /\ (error' => error \/ r.status # PASSED)
  BY <1>1, <1>4 DEF IInv, TypeOK, Result, Sound
<1> HIDE DEF r
<1> QED
  BY <1>1, <1>4, <1>5, <1>6, <1>7, <1>8, RecordIInv
-----------------------------------------------------------------------------
(* Steps within a step: a hook or the body adds its result.                *)
LEMMA CollectIInv ==
    ASSUME IInv, NEW r \in Outcome, CollectStepResult(r),
           afterStep' \in 0 .. AfterStepHooks,
           \/ pc = "beforeStep" /\ pc' = "beforeStep" /\ invoked' = invoked
           \/ pc = "beforeStep" /\ pc' = "afterStep"
                /\ invoked' = invoked \cup {Current}
                /\ Len(stepResults) = BeforeStepHooks
                /\ \A j \in DOMAIN stepResults : stepResults[j].status # FAILED
           \/ pc = "afterStep" /\ pc' = "afterStep" /\ invoked' = invoked
    PROVE  IInv'
<1> USE DEF IInv
<1> DEFINE n == Len(testStepResults)
           k == Len(stepResults)
<1>1. /\ runner' = runner /\ attempt' = attempt
      /\ testStepResults' = testStepResults /\ seenSteps' = seenSteps
      /\ error' = error /\ overallResult' = overallResult
      /\ returned' = returned /\ verdicts' = verdicts
      /\ stepResults' = Append(stepResults, r)
  BY DEF CollectStepResult
<1>2. /\ testStepResults \in Seq(Result) /\ stepResults \in Seq(Result)
      /\ n \in Nat /\ DOMAIN testStepResults = 1 .. n
      /\ k \in Nat /\ DOMAIN stepResults = 1 .. k
  BY DEF TypeOK
<1>3. r \in Result /\ Sound(r)
  BY OutcomesAreSound
<1>4. /\ stepResults' \in Seq(Result) /\ stepResults' # <<>>
      /\ DOMAIN stepResults' = 1 .. k + 1
      /\ \A j \in 1 .. k : stepResults'[j] = stepResults[j]
      /\ stepResults'[k + 1] = r
  BY <1>1, <1>2, <1>3, AppendResult
<1>5. /\ Current = n + 1 /\ Current \in DOMAIN runner.testSteps
      /\ CurrentStep = "single" /\ ~runner.skip
      /\ \A j \in 1 .. n : testStepResults[j].status = PASSED
      /\ Current' = Current /\ CurrentStep' = CurrentStep
  BY <1>1, <1>2, CurrentInIInv DEF PositionInv, InStep, Current, CurrentStep
<1>6. /\ invoked \subseteq 1 .. n + (IF pc = "afterStep" THEN 1 ELSE 0)
      /\ invoked \subseteq invoked' /\ invoked' \subseteq invoked \cup {n + 1}
  BY <1>5 DEF PositionInv
<1>7. TypeOK'
  <2>1. invoked' \subseteq DOMAIN runner'.testSteps
    BY <1>1, <1>5 DEF TypeOK
  <2> QED
    BY <1>1, <1>4, <2>1 DEF TypeOK
<1>8. \A j \in Int : IsStep(j)' = IsStep(j) /\ AfterAStep(j)' = AfterAStep(j)
  BY <1>1 DEF IsStep, AfterAStep
<1>9. PositionInv'
  <2>1. invoked' \subseteq 1 .. n + (IF pc' = "afterStep" THEN 1 ELSE 0)
    <3>1. CASE pc' = "beforeStep"
      BY <1>2, <1>6, <3>1
    <3>2. CASE pc' = "afterStep"
      <4>1. invoked \subseteq 1 .. n + 1
        BY <1>2, <1>6
      <4> QED
        BY <1>2, <1>6, <3>2, <4>1
    <3> QED
      BY <3>1, <3>2
  <2>2. seenSteps' <=> AfterAStep(Current)'
    BY <1>1, <1>5, CurrentInIInv DEF AfterAStep, IsStep
  <2> QED
    BY <1>1, <1>2, <1>5, <2>1, <2>2, CurrentInIInv DEF PositionInv, InStep, InAttempt
<1>10. ResultInv'
  <2>1. \A j \in DOMAIN testStepResults' :
          /\ Sound(testStepResults[j])
          /\ testStepResults[j].status = PASSED =>
                /\ ~runner.skip
                /\ j \in invoked'
                /\ runner.testSteps[j] \in {"hook", "single"}
          /\ ~IsStep(j) /\ AfterAStep(j) /\ ~runner.skip => j \in invoked'
    BY <1>1, <1>6 DEF ResultInv
  <2>2. \A j \in DOMAIN stepResults' : Sound(stepResults'[j])
    BY <1>2, <1>3, <1>4 DEF ResultInv
  <2>3. pc' = "afterStep" =>
          \/ Current \in invoked'
          \/ \E j \in DOMAIN stepResults' : stepResults'[j].status = FAILED
    BY <1>2, <1>4, <1>6 DEF ResultInv
  <2>4. error' => \E j \in DOMAIN testStepResults' : testStepResults'[j].status # PASSED
    BY <1>1 DEF ResultInv
  <2> QED
    BY <1>1, <1>2, <1>4, <1>5, <1>8, <2>1, <2>2, <2>3, <2>4 DEF ResultInv, Sound
<1>11. VerdictInv' /\ ReturnedInv'
  BY <1>1 DEF VerdictInv, ReturnedInv, InAttempt
<1>12. SkipInvokesNothing'
  BY <1>1, <1>5 DEF SkipInvokesNothing
<1>13. RunsOnlyAfterPassing'
  <2> SUFFICES ASSUME NEW i \in invoked', IsStep(i) \/ ~AfterAStep(i),
                      NEW j \in 1 .. i - 1
               PROVE  testStepResults[j].status = PASSED
    BY <1>1, <1>2, <1>6, <1>8 DEF RunsOnlyAfterPassing
  <2>1. j \in 1 .. n
    BY <1>2, <1>6
  <2> QED
    BY <1>5, <2>1
<1>14. SkipsHideUndefined'
  BY <1>1 DEF EarlierResultsDecide, SkipsHideUndefined, AfterOnlySkips
<1>15. OnlyFailedHooksOmitBody'
  <2> SUFFICES ASSUME pc' = "afterStep"
               PROVE  /\ k + 1 >= BeforeStepHooks
                      /\ Current \in invoked' <=>
                            \A j \in 1 .. BeforeStepHooks : stepResults'[j].status # FAILED
    BY <1>2, <1>4, <1>5 DEF OnlyFailedHooksOmitBody
  <2>1. CASE pc = "beforeStep"
    BY <1>2, <1>4, <2>1
  <2>2. CASE pc = "afterStep"
    BY <1>2, <1>4, <2>2, Constants DEF EarlierResultsDecide, OnlyFailedHooksOmitBody
  <2> QED
    BY <2>1, <2>2
<1>16. EarlierResultsDecide'
  BY <1>13, <1>14, <1>15 DEF EarlierResultsDecide
<1> QED
  BY <1>7, <1>9, <1>10, <1>11, <1>12, <1>16

(* FAILED is the worst there is.                                           *)
LEMMA HookFailed ==
    ASSUME stepResults \in Seq(Result)
    PROVE  BeforeStepHookFailed <=>
              \E j \in DOMAIN stepResults : stepResults[j].status = FAILED
<1>1. CASE stepResults = <<>>
  BY <1>1, StatusValues DEF BeforeStepHookFailed, GetWorstTestStepResult, Quiet
<1>2. CASE stepResults # <<>>
  <2>1. PICK i \in DOMAIN stepResults :
           /\ GetWorstTestStepResult(stepResults) = stepResults[i]
           /\ \A j \in DOMAIN stepResults :
                 stepResults[j].status <= stepResults[i].status
    BY <1>2, WorstOfResults
  <2>2. \A j \in DOMAIN stepResults : stepResults[j].status \in 0 .. 6
    BY ResultsInList
  <2> QED
    BY <2>1, <2>2, StatusValues DEF BeforeStepHookFailed
<1> QED
  BY <1>1, <1>2

LEMMA InvokeBeforeStepHookIInv == IInv /\ InvokeBeforeStepHook => IInv'
<1> SUFFICES ASSUME IInv, InvokeBeforeStepHook PROVE IInv'
  OBVIOUS
<1>1. PICK r \in Outcome : CollectStepResult(r)
  BY DEF InvokeBeforeStepHook
<1>2. /\ pc = "beforeStep" /\ pc' = "beforeStep"
      /\ invoked' = invoked /\ afterStep' \in 0 .. AfterStepHooks
  BY DEF InvokeBeforeStepHook, IInv, TypeOK
<1> QED
  BY <1>1, <1>2, CollectIInv

LEMMA InvokeBodyIInv == IInv /\ InvokeBody => IInv'
<1> SUFFICES ASSUME IInv, InvokeBody PROVE IInv'
  OBVIOUS
<1>1. PICK r \in Outcome : CollectStepResult(r)
  BY DEF InvokeBody
<1>2. /\ pc = "beforeStep" /\ pc' = "afterStep"
      /\ invoked' = invoked \cup {Current} /\ afterStep' \in 0 .. AfterStepHooks
      /\ Len(stepResults) = BeforeStepHooks /\ ~BeforeStepHookFailed
  BY DEF InvokeBody, IInv, TypeOK
<1>3. BeforeStepHookFailed <=> \E j \in DOMAIN stepResults : stepResults[j].status = FAILED
  BY HookFailed DEF IInv, TypeOK
<1> QED
  BY <1>1, <1>2, <1>3, CollectIInv

LEMMA InvokeAfterStepHookIInv == IInv /\ InvokeAfterStepHook => IInv'
<1> SUFFICES ASSUME IInv, InvokeAfterStepHook PROVE IInv'
  OBVIOUS
<1>1. PICK r \in Outcome : CollectStepResult(r)
  BY DEF InvokeAfterStepHook
<1>2. /\ pc = "afterStep" /\ pc' = "afterStep" /\ invoked' = invoked
      /\ afterStep < AfterStepHooks /\ afterStep' = afterStep + 1
  BY DEF InvokeAfterStepHook, AfterStepHookLeft
<1>3. afterStep' \in 0 .. AfterStepHooks
  BY <1>2, Constants DEF IInv, TypeOK
<1> QED
  BY <1>1, <1>2, <1>3, CollectIInv

-----------------------------------------------------------------------------
(* Steps that only move control.                                           *)

(* Entering a step and leaving its body out.                               *)
LEMMA EnterStepIInv == IInv /\ EnterStep => IInv'
<1> SUFFICES ASSUME IInv, EnterStep PROVE IInv'
  OBVIOUS
<1> USE DEF IInv
<1>1. /\ pc = "dispatch" /\ pc' = "beforeStep"
      /\ stepResults' = <<>> /\ afterStep' = 0
      /\ CurrentStep = "single" /\ ~IsSkippingSteps
      /\ UNCHANGED <<runner, attempt, testStepResults, seenSteps, error,
                     overallResult, returned, invoked, verdicts>>
  BY DEF EnterStep
<1>2. /\ ~runner.skip
      /\ \A j \in DOMAIN testStepResults : testStepResults[j].status = PASSED
  BY <1>1, WorstInIInv
<1>3. TypeOK'
  BY <1>1, Constants, EmptySeq DEF TypeOK
<1>4. PositionInv'
  BY <1>1, <1>2, CurrentInIInv
     DEF PositionInv, InStep, InAttempt, Current, CurrentStep, AfterAStep, IsStep
<1>5. ResultInv'
  BY <1>1 DEF ResultInv, Sound, IsStep, AfterAStep
<1>6. VerdictInv' /\ ReturnedInv'
  BY <1>1 DEF VerdictInv, ReturnedInv, InAttempt
<1>7. SkipInvokesNothing' /\ EarlierResultsDecide'
  BY <1>1, <1>2
     DEF SkipInvokesNothing, EarlierResultsDecide, RunsOnlyAfterPassing,
         SkipsHideUndefined, AfterOnlySkips, OnlyFailedHooksOmitBody,
         IsStep, AfterAStep
<1> QED
  BY <1>3, <1>4, <1>5, <1>6, <1>7

LEMMA OmitBodyIInv == IInv /\ OmitBody => IInv'
<1> SUFFICES ASSUME IInv, OmitBody PROVE IInv'
  OBVIOUS
<1> USE DEF IInv
<1>1. /\ pc = "beforeStep" /\ pc' = "afterStep"
      /\ Len(stepResults) = BeforeStepHooks /\ BeforeStepHookFailed
      /\ UNCHANGED <<runner, attempt, testStepResults, seenSteps, error,
                     stepResults, afterStep, overallResult, returned, invoked,
                     verdicts>>
  BY DEF OmitBody, runState
<1>2. stepResults # <<>>
  BY <1>1, HookFailed DEF TypeOK
<1>3. \E j \in DOMAIN stepResults : stepResults[j].status = FAILED
  BY <1>1, HookFailed DEF TypeOK
<1>4. TypeOK'
  BY <1>1 DEF TypeOK
<1>5. PositionInv'
  <2>1. invoked' \subseteq 1 .. Len(testStepResults') + 1
    BY <1>1 DEF PositionInv, TypeOK
  <2> QED
    BY <1>1, <2>1
       DEF PositionInv, InStep, InAttempt, Current, CurrentStep, AfterAStep, IsStep
<1>6. ResultInv'
  BY <1>1, <1>2, <1>3 DEF ResultInv, Sound, IsStep, AfterAStep
<1>7. VerdictInv' /\ ReturnedInv'
  BY <1>1 DEF VerdictInv, ReturnedInv, InAttempt
<1>8. OnlyFailedHooksOmitBody'
  <2>1. Current \notin invoked /\ DOMAIN stepResults = 1 .. BeforeStepHooks
    BY <1>1, CurrentInIInv DEF PositionInv, TypeOK
  <2>2. Current' = Current
    BY <1>1 DEF Current
  <2> QED
    BY <1>1, <1>3, <2>1, <2>2, Constants DEF OnlyFailedHooksOmitBody
<1>9. SkipInvokesNothing' /\ EarlierResultsDecide'
  BY <1>1, <1>8
     DEF SkipInvokesNothing, EarlierResultsDecide, RunsOnlyAfterPassing,
         SkipsHideUndefined, AfterOnlySkips, IsStep, AfterAStep
<1> QED
  BY <1>4, <1>5, <1>6, <1>7, <1>9

LEMMA StartTestStepIInv == IInv /\ StartTestStep => IInv'
<1> SUFFICES ASSUME IInv, StartTestStep PROVE IInv'
  OBVIOUS
<1> USE DEF IInv
<1>1. /\ pc = "testSteps" /\ pc' = "dispatch"
      /\ Current <= Len(runner.testSteps)
      /\ UNCHANGED <<runner, attempt, testStepResults, seenSteps, error,
                     stepResults, afterStep, overallResult, returned, invoked,
                     verdicts>>
  BY DEF StartTestStep, runState
<1>2. TypeOK'
  BY <1>1 DEF TypeOK
<1>3. PositionInv'
  BY <1>1 DEF PositionInv, InStep, InAttempt, Current, CurrentStep, AfterAStep, IsStep
<1>4. ResultInv'
  BY <1>1 DEF ResultInv, Sound, IsStep, AfterAStep
<1>5. VerdictInv' /\ ReturnedInv'
  BY <1>1 DEF VerdictInv, ReturnedInv, InAttempt
<1>6. SkipInvokesNothing' /\ EarlierResultsDecide'
  BY <1>1
     DEF SkipInvokesNothing, EarlierResultsDecide, RunsOnlyAfterPassing,
         SkipsHideUndefined, AfterOnlySkips, OnlyFailedHooksOmitBody,
         IsStep, AfterAStep
<1> QED
  BY <1>2, <1>3, <1>4, <1>5, <1>6

LEMMA StartAttemptIInv == IInv /\ StartAttempt => IInv'
<1> SUFFICES ASSUME IInv, StartAttempt PROVE IInv'
  OBVIOUS
<1> USE DEF IInv
<1>1. /\ pc = "attempts" /\ pc' = "testSteps"
      /\ attempt < MaximumAttempts(runner)
      /\ testStepResults' = <<>> /\ seenSteps' = FALSE /\ error' = FALSE
      /\ invoked' = {}
      /\ UNCHANGED <<runner, attempt, stepResults, afterStep, overallResult,
                     returned, verdicts>>
  BY DEF StartAttempt
<1>2. TypeOK'
  BY <1>1, EmptySeq DEF TypeOK
<1>3. PositionInv'
  <2>1. runner.testSteps \in Seq(TestStep)
    BY RunnerType DEF TypeOK
  <2> QED
    BY <1>1, <2>1 DEF PositionInv, InStep, InAttempt, Current, AfterAStep
<1>4. ResultInv'
  BY <1>1 DEF ResultInv, Sound
<1>5. VerdictInv' /\ ReturnedInv'
  BY <1>1 DEF VerdictInv, ReturnedInv, InAttempt, MaximumAttempts
<1>6. SkipInvokesNothing' /\ EarlierResultsDecide'
  BY <1>1
     DEF SkipInvokesNothing, EarlierResultsDecide, RunsOnlyAfterPassing,
         SkipsHideUndefined, AfterOnlySkips, OnlyFailedHooksOmitBody
<1> QED
  BY <1>2, <1>3, <1>4, <1>5, <1>6

LEMMA ReturnUnknownIInv == IInv /\ ReturnUnknown => IInv'
<1> SUFFICES ASSUME IInv, ReturnUnknown PROVE IInv'
  OBVIOUS
<1> USE DEF IInv
<1>1. /\ pc = "attempts" /\ pc' = "returned" /\ returned' = UNKNOWN
      /\ attempt >= MaximumAttempts(runner)
      /\ UNCHANGED <<runner, attempt, testStepResults, seenSteps, error,
                     stepResults, afterStep, overallResult, invoked, verdicts>>
  BY DEF ReturnUnknown
<1>2. attempt \in Nat /\ MaximumAttempts(runner) \in Nat /\ verdicts \in Seq(Status)
  BY RunnerType DEF TypeOK
<1>3. verdicts = <<>>
  BY <1>1, <1>2, EmptySeq DEF VerdictInv
<1>4. TypeOK'
  BY <1>1, StatusValues DEF TypeOK
<1>5. PositionInv'
  BY <1>1 DEF PositionInv, InStep, InAttempt
<1>6. ResultInv'
  BY <1>1 DEF ResultInv, Sound, IsStep, AfterAStep
<1>7. VerdictInv' /\ ReturnedInv'
  BY <1>1, <1>3 DEF VerdictInv, ReturnedInv, InAttempt
<1>8. SkipInvokesNothing' /\ EarlierResultsDecide'
  BY <1>1
     DEF SkipInvokesNothing, EarlierResultsDecide, RunsOnlyAfterPassing,
         SkipsHideUndefined, AfterOnlySkips, OnlyFailedHooksOmitBody,
         IsStep, AfterAStep
<1> QED
  BY <1>4, <1>5, <1>6, <1>7, <1>8
-----------------------------------------------------------------------------
(* The end of an attempt.                                                  *)

LEMMA AppendVerdict ==
    ASSUME NEW s \in Seq(Status), NEW w \in Status
    PROVE  /\ Append(s, w) \in Seq(Status)
           /\ Append(s, w) # <<>>
           /\ Len(Append(s, w)) = Len(s) + 1
           /\ DOMAIN Append(s, w) = 1 .. Len(s) + 1
           /\ \A j \in 1 .. Len(s) : Append(s, w)[j] = s[j]
           /\ Append(s, w)[Len(s) + 1] = w
BY AppendProperties

LEMMA FinishAttemptIInv == IInv /\ FinishAttempt => IInv'
<1> SUFFICES ASSUME IInv, FinishAttempt PROVE IInv'
  OBVIOUS
<1> USE DEF IInv
<1> DEFINE w == GetWorstStepResult.status
           m == Len(verdicts)
<1>1. /\ pc = "testSteps"
      /\ Current > Len(runner.testSteps)
      /\ verdicts' = Append(verdicts, w)
      /\ overallResult' = WorstStatus(overallResult, w)
      /\ UNCHANGED <<runner, testStepResults, seenSteps, error, stepResults,
                     afterStep, invoked>>
  BY DEF FinishAttempt
<1>2. \/ /\ WillRetry
         /\ attempt' = attempt + 1 /\ pc' = "attempts" /\ returned' = returned
      \/ /\ ~WillRetry
         /\ attempt' = attempt /\ pc' = "returned"
         /\ returned' = IF runner.repeat # NoRepeat THEN overallResult' ELSE w
  BY DEF FinishAttempt
<1>3. /\ w \in 1 .. 6 /\ w \in Status /\ PASSED = 1 /\ FAILED = 6
      /\ overallResult \in Status /\ Status = 0 .. 6
      /\ attempt \in Nat /\ m = attempt /\ attempt < MaximumAttempts(runner)
      /\ MaximumAttempts(runner) \in Nat
      /\ verdicts \in Seq(Status) /\ DOMAIN verdicts = 1 .. m
  BY <1>1, WorstInIInv, StatusValues, RunnerType DEF TypeOK, VerdictInv, InAttempt
<1>4. /\ verdicts' \in Seq(Status) /\ verdicts' # <<>>
      /\ Len(verdicts') = m + 1 /\ DOMAIN verdicts' = 1 .. m + 1
      /\ \A k \in 1 .. m : verdicts'[k] = verdicts[k]
      /\ verdicts'[m + 1] = w
  BY <1>1, <1>3, AppendVerdict
<1>5. /\ overallResult' \in Status
      /\ overallResult <= overallResult' /\ w <= overallResult'
      /\ overallResult' = overallResult \/ overallResult' = w
  BY <1>1, <1>3 DEF WorstStatus
<1> HIDE DEF w
<1>6. TypeOK'
  <2>1. returned' \in Status /\ attempt' \in Nat
    BY <1>2, <1>3, <1>5 DEF TypeOK
  <2> QED
    BY <1>1, <1>2, <1>4, <1>5, <2>1 DEF TypeOK
<1>7. PositionInv'
  BY <1>1, <1>2 DEF PositionInv, InStep, InAttempt
<1>8. ResultInv'
  BY <1>1, <1>2 DEF ResultInv, Sound, IsStep, AfterAStep
<1>9. SkipInvokesNothing' /\ EarlierResultsDecide'
  BY <1>1, <1>2
     DEF SkipInvokesNothing, EarlierResultsDecide, RunsOnlyAfterPassing,
         SkipsHideUndefined, AfterOnlySkips, OnlyFailedHooksOmitBody,
         IsStep, AfterAStep
<1>10. /\ overallResult >= PASSED
       /\ \A k \in 1 .. m : verdicts[k] >= PASSED /\ verdicts[k] <= overallResult
       /\ verdicts # <<>> => \E k \in 1 .. m : verdicts[k] = overallResult
       /\ runner.repeat = NoRepeat => \A k \in 1 .. m : verdicts[k] = FAILED
  BY <1>1, <1>3 DEF VerdictInv
<1>11. \A k \in 1 .. m : verdicts[k] \in Status
  BY <1>3
<1>12. \A k \in 1 .. m + 1 :
          verdicts'[k] >= PASSED /\ verdicts'[k] <= overallResult'
  <2> SUFFICES ASSUME NEW k \in 1 .. m + 1
               PROVE  verdicts'[k] >= PASSED /\ verdicts'[k] <= overallResult'
    OBVIOUS
  <2>1. CASE k \in 1 .. m
    <3>1. verdicts'[k] = verdicts[k] /\ verdicts[k] \in Status
      BY <1>3, <1>4, <1>11, <2>1
    <3>2. verdicts[k] >= PASSED /\ verdicts[k] <= overallResult
      BY <1>10, <2>1
    <3>3. overallResult \in Status /\ w \in Status
      BY <1>3
    <3> QED
      BY <1>5, <3>1, <3>2, <3>3, StatusValues
  <2>2. CASE k = m + 1
    BY <1>3, <1>4, <1>5, <2>2
  <2> QED
    BY <1>3, <2>1, <2>2
<1>13. \E k \in 1 .. m + 1 : verdicts'[k] = overallResult'
  <2>1. CASE overallResult' = w
    BY <1>3, <1>4, <2>1
  <2>2. CASE overallResult' = overallResult /\ verdicts # <<>>
    BY <1>3, <1>4, <1>10, <2>2
  <2>3. CASE overallResult' = overallResult /\ verdicts = <<>>
    <3>1. overallResult' = w
      <4>1. overallResult = PASSED
        BY <1>1, <1>3, <2>3 DEF VerdictInv
      <4> QED
        BY <1>3, <1>5, <2>3, <4>1
    <3> QED
      BY <2>1, <3>1
  <2> QED
    BY <1>5, <2>1, <2>2, <2>3
<1>14. overallResult' >= PASSED
  BY <1>3, <1>5, <1>10
<1>15. WillRetry => /\ attempt + 1 < MaximumAttempts(runner)
                    /\ runner.repeat # NoRepeat \/ w = FAILED
  BY DEF WillRetry, w
<1>16. ~WillRetry => \/ attempt + 1 = MaximumAttempts(runner)
                     \/ runner.repeat = NoRepeat /\ w # FAILED
  BY <1>3 DEF WillRetry, w
<1>17. VerdictInv'
  <2>1. pc' # "returned" => Len(verdicts') = attempt'
    BY <1>2, <1>3, <1>4
  <2>2. pc' # "returned" /\ runner.repeat = NoRepeat =>
           \A k \in 1 .. m + 1 : verdicts'[k] = FAILED
    BY <1>2, <1>3, <1>4, <1>10, <1>15
  <2>3. pc' = "attempts" => attempt' < MaximumAttempts(runner)
    BY <1>2, <1>15
  <2>4. MaximumAttempts(runner)' = MaximumAttempts(runner)
    BY <1>1 DEF MaximumAttempts
  <2> QED
    BY <1>1, <1>2, <1>4, <1>12, <1>13, <1>14, <2>1, <2>2, <2>3, <2>4
       DEF VerdictInv, InAttempt
<1>18. ReturnedInv'
  <2> SUFFICES ASSUME ~WillRetry, pc' = "returned",
                      returned' = IF runner.repeat # NoRepeat
                                  THEN overallResult' ELSE w
               PROVE  ReturnedInv'
    BY <1>2 DEF ReturnedInv
  <2>1. Len(testStepResults) = Len(runner.testSteps)
    <3>1. runner.testSteps \in Seq(TestStep) /\ testStepResults \in Seq(Result)
      BY RunnerType DEF TypeOK
    <3> QED
      BY <1>1, <3>1 DEF PositionInv, Current
  <2>2. GetWorstStepResult'.status = w
    BY <1>1 DEF GetWorstStepResult, w
  <2>3. runner.repeat # NoRepeat => m + 1 = MaximumAttempts(runner)
    BY <1>3, <1>16
  <2>4. w = FAILED => m + 1 = MaximumAttempts(runner)
    BY <1>3, <1>16
  <2>5. MaximumAttempts(runner)' = MaximumAttempts(runner)
    BY <1>1 DEF MaximumAttempts
  <2>6. runner.repeat = NoRepeat =>
           \A k \in 1 .. (m + 1) - 1 : verdicts'[k] = FAILED
    BY <1>3, <1>4, <1>10
  <2> QED
    BY <1>1, <1>4, <2>1, <2>2, <2>3, <2>4, <2>5, <2>6 DEF ReturnedInv
<1> QED
  BY <1>6, <1>7, <1>8, <1>9, <1>17, <1>18

-----------------------------------------------------------------------------
LEMMA StepIInv == IInv /\ [Next]_vars => IInv'
<1>1. IInv /\ Next => IInv'
  BY StartAttemptIInv, ReturnUnknownIInv, StartTestStepIInv, SkipHookIInv,
     InvokeHookIInv, ReportUndefinedIInv, ReportAmbiguousIInv, SkipStepIInv,
     EnterStepIInv, InvokeBeforeStepHookIInv, InvokeBodyIInv, OmitBodyIInv,
     InvokeAfterStepHookIInv, FinishStepIInv, FinishAttemptIInv
     DEF Next
<1>2. IInv /\ UNCHANGED vars => IInv'
  <2> SUFFICES ASSUME IInv, UNCHANGED vars PROVE IInv'
    OBVIOUS
  <2>1. UNCHANGED <<runner, pc, attempt, testStepResults, seenSteps, error,
                   stepResults, afterStep, overallResult, returned, invoked,
                   verdicts>>
    BY DEF vars, runState
  <2>2. TypeOK' /\ SkipInvokesNothing' /\ EarlierResultsDecide'
    BY <2>1 DEF IInv, TypeOK, SkipInvokesNothing, EarlierResultsDecide,
                RunsOnlyAfterPassing, SkipsHideUndefined, AfterOnlySkips,
                OnlyFailedHooksOmitBody, Current, IsStep, AfterAStep
  <2>3. PositionInv'
    BY <2>1 DEF IInv, PositionInv, InAttempt, InStep, AfterAStep, IsStep,
                Current, CurrentStep
  <2>4. ResultInv'
    BY <2>1 DEF IInv, ResultInv, Sound, IsStep, AfterAStep, Current
  <2>5. VerdictInv' /\ ReturnedInv'
    BY <2>1 DEF IInv, VerdictInv, ReturnedInv, InAttempt, MaximumAttempts,
                GetWorstStepResult
  <2> QED
    BY <2>2, <2>3, <2>4, <2>5 DEF IInv
<1> QED
  BY <1>1, <1>2

(* The inductive invariant holds in every reachable state.                 *)
THEOREM Invariance == Spec => []IInv
BY InitIInv, StepIInv, PTL DEF Spec

-----------------------------------------------------------------------------
(* What follows from it.                                                   *)

(* The variables of TestCaseRunner keep their types.                       *)
THEOREM TypeCorrect == Spec => []TypeOK
<1>1. IInv => TypeOK
  BY DEF IInv
<1> QED
  BY <1>1, Invariance, PTL

(* A skipped scenario (dry run, fail-fast) never enters user code.         *)
THEOREM SkippedRunsNothing == Spec => []SkipInvokesNothing
<1>1. IInv => SkipInvokesNothing
  BY DEF IInv
<1> QED
  BY <1>1, Invariance, PTL

(* Steps and before hooks run only after everything before them passed, a  *)
(* body only after beforeStep hooks that did not fail, and a step without  *)
(* a definition of its own counts as skipped only after skips.             *)
THEOREM StepsFollowPassing == Spec => []EarlierResultsDecide
<1>1. IInv => EarlierResultsDecide
  BY DEF IInv
<1> QED
  BY <1>1, Invariance, PTL

(* Every hook after a step runs, whatever the steps came back with.        *)
THEOREM AfterHooksRun == Spec => []AfterHooksAlwaysRun
<1>1. IInv => AfterHooksAlwaysRun
  BY DEF IInv, ResultInv, AfterHooksAlwaysRun
<1> QED
  BY <1>1, Invariance, PTL

(* hasError = TRUE is given to hooks only in an attempt that fails to pass.*)
THEOREM ErrorJustified == Spec => []HasErrorIsJustified
<1>1. IInv => HasErrorIsJustified
  BY WorstInIInv DEF IInv, ResultInv, HasErrorIsJustified, IsSkippingSteps
<1> QED
  BY <1>1, Invariance, PTL

(* Run() answers with the last attempt (retry) or the worst one (repeat),  *)
(* after exactly the attempts it should have made.                         *)
THEOREM VerdictCorrect == Spec => []VerdictOfAttempts
<1>1. IInv => VerdictOfAttempts
  <2> SUFFICES ASSUME IInv, pc = "returned", verdicts # <<>>
               PROVE  VerdictOfAttempts
    BY DEF VerdictOfAttempts
  <2> QED
    BY DEF IInv, ReturnedInv, VerdictInv, VerdictOfAttempts
<1> QED
  BY <1>1, Invariance, PTL

(* PASSED is returned only for a scenario whose every step and hook ran    *)
(* and passed, in every execution that `repeat' asked for.                 *)
THEOREM PassedIsEarned == Spec => []PassedMeansEverythingRan
<1>1. IInv => PassedMeansEverythingRan
  <2> SUFFICES ASSUME IInv, pc = "returned", returned = PASSED
               PROVE  PassedMeansEverythingRan
    BY DEF PassedMeansEverythingRan
  <2> DEFINE last == verdicts[Len(verdicts)]
  <2>1. /\ verdicts # <<>> /\ verdicts \in Seq(Status)
        /\ last = GetWorstStepResult.status
        /\ Len(testStepResults) = Len(runner.testSteps)
        /\ IF runner.repeat # NoRepeat
           THEN returned = overallResult /\ Len(verdicts) = MaximumAttempts(runner)
           ELSE returned = last
    BY StatusValues DEF IInv, ReturnedInv, TypeOK
  <2>2. runner.repeat # NoRepeat => \A k \in DOMAIN verdicts : verdicts[k] = PASSED
    <3> SUFFICES ASSUME runner.repeat # NoRepeat, NEW k \in DOMAIN verdicts
                 PROVE  verdicts[k] = PASSED
      OBVIOUS
    <3>1. verdicts[k] >= PASSED /\ verdicts[k] <= PASSED
      BY <2>1 DEF IInv, VerdictInv
    <3>2. verdicts[k] \in Int
      BY <2>1, StatusValues
    <3> QED
      BY <3>1, <3>2, StatusValues
  <2>3. Len(verdicts) \in DOMAIN verdicts
    BY <2>1, EmptySeq
  <2>4. GetWorstStepResult.status = PASSED
    BY <2>1, <2>2, <2>3
  <2>5. /\ ~runner.skip
        /\ \A j \in DOMAIN testStepResults : testStepResults[j].status = PASSED
    BY <2>4, WorstInIInv DEF IsSkippingSteps
  <2>6. /\ DOMAIN testStepResults = DOMAIN runner.testSteps
        /\ invoked \subseteq DOMAIN runner.testSteps
    BY <2>1, RunnerType DEF IInv, TypeOK
  <2>7. \A j \in DOMAIN runner.testSteps :
           j \in invoked /\ runner.testSteps[j] \in {"hook", "single"}
    BY <2>5, <2>6 DEF IInv, ResultInv
  <2>8. runner.repeat # NoRepeat => Len(verdicts) = runner.repeat
    BY <2>1, <2>5 DEF MaximumAttempts
  <2> QED
    BY <2>2, <2>5, <2>6, <2>7, <2>8 DEF PassedMeansEverythingRan
<1> QED
  BY <1>1, Invariance, PTL
=============================================================================
