------------------------------- MODULE Reports -------------------------------
(***************************************************************************)
(* What the JUnit and the usage formatter say of a run.  Both listen to    *)
(* the messages through a query and write when TestRunFinished arrives.    *)
(* The query reports an attempt that has finished and is not announced to  *)
(* be retried: the last one of a retried or repeated scenario.             *)
(*                                                                         *)
(* Times are reduced to whether there is one; a definition used only by    *)
(* nested steps is not in the messages, and so in neither report.          *)
(***************************************************************************)
EXTENDS TestRun, Functions

CONSTANTS
    StepDefinitions,   \* the announced step definitions
    Definition(_, _)   \* the one that matches a test step of a scenario

VARIABLES
    reported,  \* the query: scenario -> statuses of its test steps
    entered    \* history: scenario -> test steps whose body ran

reportVars == <<vars, reported, entered>>

InitQuery ==
    /\ reported = <<>> \* the function with no arguments
    /\ entered = <<>>

(* TestCaseFinished with willBeRetried = false.                            *)
LastAttemptFinishes ==
    /\ phase = "scenario"
    /\ casePc' = "returned"
    /\ Len(verdicts') > Len(verdicts)

(* The scenario that is being executed.                                    *)
This == <<suite, scenario + 1>>

TestStepsOf(c) == Assemble(Suites[c[1]][c[2]])

Record(f, c, value) == [d \in DOMAIN f \cup {c} |-> IF d = c THEN value ELSE f[d]]

UpdateQuery ==
    IF LastAttemptFinishes
    THEN /\ reported' = Record(reported, This,
                            [i \in DOMAIN testStepResults |-> testStepResults[i].status])
         /\ entered' = Record(entered, This, invoked)
    ELSE UNCHANGED <<reported, entered>>

ReportingInit == Init /\ InitQuery
ReportingNext == Next /\ UpdateQuery

Reporting ==
    ReportingInit /\ [][ReportingNext]_reportVars /\ WF_reportVars(ReportingNext)

-----------------------------------------------------------------------------
(* JunitXmlFormatter                                                       *)

Severities(c) == {reported[c][i] : i \in DOMAIN reported[c]}

MostSevere(c) == CHOOSE s \in Severities(c) : \A t \in Severities(c) : WorstStatus(s, t) = s

(* The element of a test case; one without test steps has no result.       *)
MakeFailure(c) ==
    IF reported[c] = <<>> \/ MostSevere(c) = PASSED THEN "none"
    ELSE IF MostSevere(c) = SKIPPED THEN "skipped"
    ELSE "failure"

SlipCountedAsFailures == {UNKNOWN, PENDING, AMBIGUOUS, FAILED}

CountedAsFailures == {UNKNOWN, PENDING, UNDEFINED, AMBIGUOUS, FAILED}

Count(severities) ==
    Cardinality({c \in DOMAIN reported : reported[c] # <<>> /\ MostSevere(c) \in severities})

(* The statuses of the steps of the pickle, without the hooks, each at its *)
(* place in the test case.                                                 *)
MakeOutput(c) ==
    [i \in {j \in DOMAIN reported[c] : TestStepsOf(c)[j] # "hook"} |-> reported[c][i]]

MakeTestCases ==
    [c \in DOMAIN reported |-> [failure |-> MakeFailure(c), output |-> MakeOutput(c)]]

MakeReport ==
    [tests     |-> Cardinality(DOMAIN reported),
     skipped   |-> Count({SKIPPED}),
     failures  |-> Count(CountedAsFailures),
     errors    |-> 0,
     testCases |-> MakeTestCases]

(* The document: attributes of the test suite, and for every test case at  *)
(* most one element and what is written as its output.                     *)
AddTestSuiteAttributes(report) ==
    [attribute \in {"tests", "skipped", "failures", "errors"} |-> report[attribute]]

AddFailure(testCase) == {testCase.failure} \ {"none"}

AddTestCases(report) ==
    [c \in DOMAIN report.testCases |->
        [elements  |-> AddFailure(report.testCases[c]),
         systemOut |-> report.testCases[c].output]]

HandleTestRunFinished ==
    [testSuite |-> AddTestSuiteAttributes(MakeReport),
     testCases |-> AddTestCases(MakeReport)]

-----------------------------------------------------------------------------
(* UsageFormatter                                                          *)

SlipHasExecuted(status) == status # UNDEFINED /\ status # AMBIGUOUS

HasExecuted(status) == status \in {UNKNOWN, PASSED, PENDING, FAILED}

(* Hooks have no definitions, other steps have none or several.            *)
ShouldProcessTestStep(c, i) == TestStepsOf(c)[i] = "single"

Matches(d) ==
    {m \in UNION {{<<c, i>> : i \in DOMAIN reported[c]} : c \in DOMAIN reported} :
        ShouldProcessTestStep(m[1], m[2]) /\ Definition(m[1], m[2]) = d}

HasDuration(m) == HasExecuted(reported[m[1]][m[2]])

MeanDuration(d) ==
    IF Matches(d) = {} THEN "-1"
    ELSE IF \E m \in Matches(d) : HasDuration(m) THEN "mean"
    ELSE "-"

BuildEmptyMapping == [d \in StepDefinitions |-> {}]

BuildMapping == [d \in DOMAIN BuildEmptyMapping |-> Matches(d)]

GetUsage(unusedOnly) == {d \in DOMAIN BuildMapping : ~unusedOnly \/ BuildMapping[d] = {}}

PrintUsagePattern(d) == IF Matches(d) = {} THEN "UNUSED" ELSE MeanDuration(d)

UsageTable(unusedOnly) == [d \in GetUsage(unusedOnly) |-> PrintUsagePattern(d)]

-----------------------------------------------------------------------------
(* Properties                                                              *)

With(element, testCases) ==
    {c \in DOMAIN testCases : element \in testCases[c].elements}

HookFailed == failedHooks # {}

HasHooks(c) == "hook" \in Range(TestStepsOf(c))

(* The scenarios of which an attempt was executed: with the largest number *)
(* of retries there is none, and the runner answers UNKNOWN.               *)
Attempted == {c \in DOMAIN statuses : statuses[c] # UNKNOWN}

(* The JUnit document agrees with itself and with the run it reports: its  *)
(* totals are those of its elements and of the scenarios that ran; a test  *)
(* case without an element lists only passed steps, and one with an        *)
(* element lists another unless a hook is to blame; no failure means that  *)
(* the run passed, and under --strict a passed run has no failure and no   *)
(* scenario is missing.  Only hooks of the run and the earlier executions  *)
(* of a repeated scenario can fail a run unreported, and only a number of  *)
(* retries that wraps around can leave a scenario out of it.               *)
JunitAgreesWithRun ==
    phase = "finished" /\ ~options.dryRun =>
        LET document  == HandleTestRunFinished
            testSuite == document.testSuite
            testCases == document.testCases
        IN
        /\ testSuite.tests = Cardinality(Attempted)
        /\ testSuite.failures = Cardinality(With("failure", testCases))
        /\ testSuite.skipped = Cardinality(With("skipped", testCases))
        /\ \A c \in DOMAIN testCases :
              LET passed == Range(testCases[c].systemOut) \subseteq {PASSED} IN
              /\ testCases[c].elements = {} => passed
              /\ passed => testCases[c].elements = {} \/ HasHooks(c)
        /\ testSuite.failures = 0 /\ ~HookFailed /\ options.repeat = NoRepeat => success
        /\ success /\ options.strict =>
              /\ testSuite.failures = 0
              /\ options.retry < SizeMax => testSuite.tests = Cardinality(AllScenarios)

StepsOfDefinition(d) ==
    {m \in UNION {{<<c, i>> : i \in DOMAIN reported[c]} : c \in Attempted} :
        ShouldProcessTestStep(m[1], m[2]) /\ Definition(m[1], m[2]) = d}

RanInReport(m) == m[2] \in entered[m[1]] /\ reported[m[1]][m[2]] # SKIPPED

(* A definition has a time in the usage table exactly if a step it matched *)
(* ran in a reported attempt and did not skip itself; UNUSED is a          *)
(* definition that matched no step of a scenario that was run, skipped or  *)
(* not; and unused_only shows those and no others.                         *)
UsageTimesWhatRan ==
    phase = "finished" =>
        \A unusedOnly \in BOOLEAN : LET table == UsageTable(unusedOnly) IN
            /\ \A d \in DOMAIN table :
                  /\ table[d] = "UNUSED" <=> StepsOfDefinition(d) = {}
                  /\ BeforeStepHooks = 0 =>
                        (table[d] = "mean" <=> \E m \in StepsOfDefinition(d) : RanInReport(m))
            /\ unusedOnly => \A d \in DOMAIN table : table[d] = "UNUSED"

-----------------------------------------------------------------------------
(* The inductive invariant behind these two properties.                    *)

(* What user code can come back with.                                      *)
OutcomeStatuses == {PASSED, SKIPPED, PENDING, FAILED}

(* A step with one definition has a status of its body or its hooks, and   *)
(* without step hooks it is SKIPPED unless the body ran.                   *)
Accounted(testStep, status, ran) ==
    testStep = "single" =>
        /\ status \in OutcomeStatuses
        /\ BeforeStepHooks = 0 /\ status # SKIPPED => ran

(* The results of the attempt that is under way.                           *)
ResultsAccounted ==
    /\ \A j \in DOMAIN stepResults : stepResults[j].status \in OutcomeStatuses
    /\ \A j \in DOMAIN testStepResults :
          /\ testStepResults[j].status >= PASSED
          /\ Accounted(runner.testSteps[j], testStepResults[j].status, j \in invoked)

(* Without step hooks nothing can keep the body from running.              *)
BodyAccounted ==
    BeforeStepHooks = 0 =>
        /\ casePc = "beforeStep" => stepResults = <<>>
        /\ casePc = "afterStep" => Len(testStepResults) + 1 \in invoked

(* What the runner was made of.                                            *)
RunnerMade ==
    phase = "scenario" =>
        /\ runner.testSteps = TestStepsOf(This)
        /\ options.repeat = NoRepeat => runner.repeat = NoRepeat
        /\ options.retry < SizeMax /\ casePc # "thrown" =>
              Case!MaximumAttempts(runner) > 0

AttemptInv ==
    /\ verdicts \in Seq(Status)
    /\ overallResult >= PASSED
    /\ ResultsAccounted
    /\ BodyAccounted
    /\ RunnerMade

(* The status of a scenario is the worst one of its reported attempt, or   *)
(* of an earlier one if it is repeated.                                    *)
Decides(report, status) ==
    /\ \A i \in DOMAIN report : report[i] <= status
    /\ options.repeat = NoRepeat =>
          IF report = <<>> THEN status \in {PASSED, SKIPPED}
          ELSE \E i \in DOMAIN report : report[i] = status

Returned == phase = "scenario" /\ casePc = "returned"

(* The scenarios that are reported, and what is said of each.              *)
ReportInv ==
    /\ DOMAIN reported = Attempted \cup {c \in {This} : Returned /\ returned # UNKNOWN}
    /\ DOMAIN entered = DOMAIN reported
    /\ \A c \in DOMAIN reported :
          /\ reported[c] \in Seq(PASSED .. FAILED)
          /\ Len(reported[c]) = Len(TestStepsOf(c))
          /\ \A i \in DOMAIN reported[c] :
                Accounted(TestStepsOf(c)[i], reported[c][i], i \in entered[c])
    /\ \A c \in Attempted : Decides(reported[c], statuses[c])
    /\ Returned /\ returned # UNKNOWN => Decides(reported[This], returned)
    /\ options.retry < SizeMax =>
          /\ Attempted = DOMAIN statuses
          /\ Returned => returned # UNKNOWN

ReportingInv == AttemptInv /\ ReportInv
=============================================================================
