# TLA+ models of amp-cucumber-cpp-runner

This directory holds a verification project for the Cucumber runner in this repository: TLA+
modules translated from the C++ sources, TLC configurations that check small instances of them, and
TLAPS proofs for every value of the constants. Paths below are relative to the repository;
`lib/` abbreviates `cucumber_cpp/library/`.

- [The system and its parts](#the-system-and-its-parts)
- [The modules and the code they model](#the-modules-and-the-code-they-model)
- [The runs: what is checked, bounds, fairness](#the-runs)
- [The proofs](#the-proofs)
- [Where documentation and code disagree](#where-documentation-and-code-disagree)
- [What is not modelled](#what-is-not-modelled)
- [Plan](#plan)

`tlc -config MCTestCaseRunner.cfg MCTestCaseRunner.tla` runs a check, `tlapm StepBody_proofs.tla`
checks proofs. `PROJECT.json` is the index: components, runs, the lines every definition stands
for, hazards of the code, and theorems.

## The system and its parts

One run goes through three stages. At **static initialisation** the `STEP`, `HOOK_*` and
`PARAMETER` macros register definitions. In the **load phase** `Application` parses the command
line, loads plugins, reads feature files and builds the support-code registries. In the **execution
phase** one thread walks through features, scenarios and steps. Parts talk by synchronous calls,
through shared registries that are fixed before the execution starts, and by message envelopes that
`Broadcaster` hands to every listener at once.

| Part | State it keeps | Operations | Hard part | Correct when |
|---|---|---|---|---|
| Result values (`lib/util/GetWorstTestStepResult.cpp`, `TestStepResultStatus.hpp`) | none | worst of several results | ties, the empty list, comparison by enumerator | the result is one of the list and none is worse |
| `TestCaseRunner` (`lib/runtime`) | results of the current attempt, `seenSteps`, `error` | `Run`, `RunAttempt`, `RunHook`, `RunStep`, `RunStepHooks` | what still runs after a failure, a skip, an undefined step; retry against repeat; wrap-around of `1 + retries` | verdicts follow from what ran; nothing runs that must not; after hooks clean up |
| User-code execution (`lib/util/Body.cpp`, `ExecuteAndCatchExceptions.hpp`, `lib/support/Body.hpp`, `lib/BodyMacro.hpp`, `lib/runtime/NestedTestCaseRunner.cpp`) | the C++ stack of bodies, GoogleTest's current reporter, one result per body | construct, `SetUp`, execute, `TearDown`, assertion reporting, nested `Step("...")`, exception to result | exceptions on every path; reporters that stack; destructors that run user code | no failure is lost; `TearDown` matches `SetUp`; a result the runner expects |
| `Coordinator`, `SerialRuntimeAdapter`, `Worker` (`lib/runtime`) | `failing`, `failed`, hook results | `Run`, `RunTestSuite`, `RunTestCase`, `RunTestHook` | four nested loops, three flags, exceptions caught at one level only | the run's success means that everything ran and passed |
| Messages (`lib/util/Broadcaster.cpp`) | listeners | add, remove, broadcast | order and nesting under exceptions and retries | listeners see a well-formed protocol |
| Assembly (`lib/assemble`, `lib/support/MatchStepDefinitions.cpp`) | none | pickles to test cases, match steps | grouping by file, hook order, tags | every pickle once, hooks around steps |
| Registries (`lib/support/*Registry.cpp`, `DefinitionRegistration.cpp`) | definitions, ids, plugin definitions, two snapshots | register, load ids, list, unregister | order by id strings; duplicate locations; pointers into plugins | ids unique and resolvable, hooks in documented order |
| Plugins (`lib/plugin`) | loaded libraries | load, register, cleanup, unload | failure half way, order of unload and unregister, reload | registry restored after any failure |
| Application (`lib/Application.cpp`) | options | parse, run, exit code | interplay of options | exit code reflects the run |
| Load phase (`lib/api/RunCucumber.cpp`, `LoadPickles.cpp`, `Gherkin.cpp`) | pickles, parse errors | parse, filter, order, list | early exits between messages | all selected scenarios, in order |
| Scenario names (`lib/api/MakeUniqueTestNames.cpp`) | none | make names unique | suffixes that collide | names are unique |
| Context (`lib/Context.hpp`) | nested maps of shared objects | get, emplace, assign, clear; locking decorator | interleavings of compound operations, parent/child locks | lookups see the nearest value; no lost updates |
| Execution context (`lib/engine/ExecutionContext.cpp`) | none | attach, log, link, `Skipped`, `Pending` | the two exceptions | results carry the text |
| Formatters (`lib/formatter`, `lib/api/Formatters.cpp`) | collected results | one update per message | retries, shared output | reports match the run |
| Subprocess helper of the acceptance tests (`acceptance/util/Subprocess.cpp`) | two pipes, a child | start, read, wait | blocking on pipes | output complete, child reaped |

`PROJECT.json` lists under `hazards` what is hard to test here, each at its line and with the
properties that would notice it.

## The modules and the code they model

Statuses are the numbers of the enumerators, because the code compares them. Of a result only its
status and whether it carries an explanation (a message or an exception, field `reported`) steer
later code, so the models keep these two and drop texts, durations, ids and attachments. `StepBody`
alone also keeps which failed assertions a message tells of.

A definition whose name begins with `Slip` is not part of the model: it is a plausible mistake in
the definition that follows it (a dropped guard, a wrong bound, a missing reset). Put in that
definition's place it makes the property it is listed with in `PROJECT.json` fail, which shows that
the property depends on the code and not on the shape of the model.

### TestStepResults
`Status`, `Result`, `GetWorstTestStepResult` (the *first* result with the largest status, `PASSED`
for none), and `Outcome`, the six results user code comes back with: pass, explained failure,
skipped and pending with or without text.

### TestCaseRunner
`lib/runtime/TestCaseRunner.cpp`, one instance of the class from construction to return.

| Model | Code |
|---|---|
| `runner` | the constructor's arguments: test steps, `retries`, `repeat`, `skip` |
| `attempt`, `overallResult` | locals of `Run` |
| `testStepResults`, `seenSteps`, `error` | member and locals reset by `RunAttempt` |
| `stepResults`, `afterStep` | progress inside `RunStep` and `RunStepHooks` |
| `StartAttempt`, `FinishAttempt`, `ReturnUnknown` | the loop of `Run` and the two ends of `RunAttempt` |
| `StartTestStep`, `SkipHook`, `InvokeHook` | the loop over test steps, `RunHook` |
| `ReportUndefined`, `ReportAmbiguous`, `SkipStep`, `EnterStep` | the early returns of `RunStep` |
| `InvokeBeforeStepHook`, `InvokeBody`, `OmitBody`, `InvokeAfterStepHook`, `FinishStep` | the rest of `RunStep` |

A test step is `"hook"` or a step with none, one or several matching definitions. User code returns
any member of `Outcome`. Actions end where control leaves the class: at a broadcast or the call of a
body. `std::size_t` arithmetic keeps its width (`SizeMax`). Two history variables, `invoked` and
`verdicts`, record what the properties talk about.

### StepBody
`ConstructAndExecute` and what is below it. `stack` is the C++ call stack with one frame per
`ConstructAndExecute` that has not returned; `reporter` is the position of the frame GoogleTest
reports assertions to. A frame is in the factory, in `SetUp`, in the body, in `TearDown`, or
destroyed. User code is arbitrary: at any place it may fail an `EXPECT_` (`FailExpectation`), fail
an `ASSERT_` (`FailAssertion`), throw (`ThrowException`), call nested steps that match
(`CallStep`) or do not (`CallUnmatchedStep`), catch what a nested step throws
(`ThrowIntoUserCode`), or return. `ReturnAnswer` and `ReturnToCaller` are the end of
`ConstructAndExecute` including `HandleErrors`, for the runner and for `NestedTestCaseRunner`.
`terminated` stands for `std::terminate`: `TearDown` runs in a destructor. GoogleTest's reporter
chain itself is not in this repository; it is modelled by what `ScopedFakeTestPartResultReporter`
does for the code here, install on construction and restore on destruction. `message` is the set of
the kinds of assertion whose text a result's message contains: `ReportTestPartResult` appends,
`MessageAfter` says what the clauses of `HandleErrors` replace; `told` is what arrives at the runner,
and the history variable `reports` what was reported at any depth.
User code that swallows an exception of its own making behaves like user code that does not throw,
and needs no action. The user fixture's own destructor is assumed not to assert.

### TestRun
`lib/runtime/Coordinator.cpp`, `SerialRuntimeAdapter.cpp` and `Worker.cpp` around an instance of
`TestCaseRunner`, whose `Next` is the action `RunScenario`. `phase` is the position in the nested
loops; `failing`, `suiteFailing` and `failed` are the three flags under the names of the code
(`suiteFailing` is the parameter of `RunTestSuite`). `StartTestRunHook`, `FinishTestRunHook` and
`ThrowGlobalHookError` are `Worker::RunTestHook`; `CaughtPhases` are the hooks inside the
`catch (...)` of the adapter. `Assemble` is the shape `AssembleTestSuites` gives a test case, before hooks, steps, after hooks.

### MessageProtocol
The abstract specification: what listeners may rely on. Messages nest (run, test case, test step;
run, hook), attempts are numbered consecutively, `willBeRetried` is kept, a test case finishes only
after all its steps. `TestRun` defines the refinement mapping (`Protocol`) and the run `test_run`
checks `Protocol!Protocol` as a property.

### Reports
What `formatter/JunitXmlFormatter.cpp` and `UsageFormatter.cpp` make of a run. The module extends
`TestRun` with `reported`, what the query behind both formatters holds (the last attempt of every
scenario, noted when `TestCaseFinished` says it will not be retried), and the history variable
`entered`, the bodies that attempt ran. `HandleTestRunFinished` is the document the JUnit formatter
writes, `UsageTable` the table of the usage formatter. Times are reduced to whether there is one.
`Attempted` are the scenarios of which an attempt was executed: all that were run, unless the number
of retries wraps around.

### RunCucumber
One process from its command line to its exit code, and the process CTest starts for a scenario the
first one has listed. `stage` follows `Application::RunImpl`, `RunCucumber` and `ListScenarios`.

| Model | Code |
|---|---|
| `ParseCommandLine`, `EnableFormatters`, `CreateNameRegexStrategies` | what can end the process before a file is read |
| `CollectPickles`, `LoadPickles` | `api/Gherkin.cpp`, `api/LoadPickles.cpp`: files that parse, fail to parse or cannot be read, and the tag filter |
| `MakeUniqueTestNames`, `ListScenarios`, `OrderPickles` | unique names, `--list-scenarios`, the name filter and the order |
| `LoadParameters`, `LoadIds`, `LoadSteps`, `LoadHooks`, `EmitStepDefinitionsAndHooks` | `EmitSupportCodeMessages` with `support/StepRegistry.cpp`, `HookRegistry.cpp` |
| `AssembleTestCase`, `FailBeforeAll`, `RunTests` | `assemble/AssembleTestSuites.cpp` and the verdict of the runtime |
| `DiscoveredTest` | `cmake/cucumber_add_tests.cmake`: the same arguments and `--name` for one listed name |

A name is a sequence of the parts between its dots, because a suffix `.#2` and a scenario that is
called that way must be able to meet; ids are numbers, compared as texts (`Digits`, of any length)
where the code compares texts. Gherkin's nodes consume ids (`nodes`), which is why a hook's id is any number.

### Plugins
A series of Applications in one process. A definition or converter is known by its place and by its
`owner`, the executable or library its pointers lead into.

| Model | Code |
|---|---|
| `registry`, `staticRegistry`, `customParameters`, `plugins` | `support/DefinitionRegistration`, one instance per owner |
| `converterMap`, `converterSnapshot`, `instanceOf` | `support/ParameterMap.cpp`, and whose map a library looks into |
| `libraries`, `mapped` | `DynamicLibraryManager::libraries`; what is in memory |
| `TakeSnapshot`, `UnregisterPlugins`, `RestoreSnapshot`, `UnloadAll` | `PluginSession` of `Application.cpp`, its `Cleanup` statement by statement |
| `LoadPath`, `OpenLibrary`, `CallRegister`, `NextPath` | `DynamicLibraryManager::Load` and `LoadFile`, every failure included |
| `CcrRegister` | `plugin/PluginRegister.cpp`, past its early returns |
| `Walk`, `Visible` | what `LoadIds`, `ForEachRegisteredStep` and `GetHooks` enumerate |
| `KeepInProgramContext`, `DestroyProgramContext` | a plugin's hook and the program context; the order of destruction in `Application.hpp` |

`shared` chooses between one registry in the process (ELF symbol resolution) and one per library
(Windows). `Throw` is every failed load: `Cleanup` follows it just as it follows a run.

### AtomicContext and ContextStorage
`AtomicContext` is the promise: a tree of maps in which a call takes effect at one moment and a lookup
gives the nearest value. `ContextStorage` is `lib/Context.hpp` under
`ContextStorageFactoryThreadSafe`: `frames` are the storages a thread is in, one lock each, `Get` goes
to the parent while it holds the lock of the child, `Erase` and `Emplace` are the two halves of
`Assign`. A scope that ends and starts again is `Renew`. With one thread it describes the default
storages too. The refinement mapping (`Atomic`) counts an `Assign` from its erase on, since its lock
hides the moment in between.

### Subprocess and AcceptanceScenario
`Subprocess` is `RunProcess` of `acceptance/util/Subprocess.cpp`: the caller (pipes, launch, poll and
drain on POSIX, reader threads on Windows, wait) against the child, which writes, is blocked by a full
pipe, ends or is killed by `SIGPIPE`, and may leave an heir that holds the pipes open. Every call whose
failure the code looks at may fail, and `Throw` closes what that path closes: on POSIX the destructors
of both `Pipe`s, on Windows the handles named before the throw. That is nothing when the conversion of an
argument fails (`Utf8ToWide`, line 63 or 68, called from line 253) and when a `std::thread` cannot be
started (`StartReaders`, lines 283-284); a second thread that cannot be started ends the process, since
the first one is joinable. A pipe holds `Capacity` units. `AcceptanceScenario` adds the hooks
and steps of `acceptance/steps/Steps.cpp` and the child's `BuildSandbox.cmake`, line by line, beside
the same script of another test process.

The modules beginning with `MC` give the constants their values for TLC. The modules ending in
`_proofs` hold theorems.

## The runs

| Run | Question | Result |
|---|---|---|
| `test_case_runner` | Does one scenario run what it must, nothing it must not, and return the right verdict? | 8 properties hold, about 35,000 states |
| `test_run` | Do success and failure of a run mean what they say under every option, does it end, are its messages well formed, and do the reports agree with it? | 8 properties hold, about 1,185,000 states |
| `step_body` | Whatever user code does, is a failure ever lost, misattributed, or not torn down? | 7 properties hold, about 1,054,000 states |
| `run_cucumber` | Does a process load what it is told to, stop when it cannot, and run as a test what it listed? | 4 properties hold, about 8,900 states |
| `plugins` | Whatever is loaded and wherever loading fails, is everything visible that should be, once, and gone afterwards? | 6 properties hold, about 20,500 states |
| `context_storage` | Do threads that share contexts see one atomic map per context, and never wait for ever? | 3 properties hold, about 43,000 states |
| `acceptance_scenario` | Does a scenario get whole results and its own library from the processes it starts, and end? | 4 properties hold, about 214,000 states |
| `empty_scenario` | README: all after hooks run once a before hook did | violated, see below |
| `global_hook_fast` | `--fail-global-hook-fast` stops the execution | violated, see below |
| `tear_down_throws` | it is safe to throw in a step | violated in `TearDown`, see below |
| `hook_order` | hooks run in the order they are written in | violated, see below |
| `plugin_context` | unloading plugins leaves no dangling pointers | violated, see below |

**Bounds, and why they are enough.** `MCTestCaseRunner` takes every pair of step kinds, with and
without hooks around them, one hook before and after each step, and up to two attempts: the runner's
decisions depend on the worst result so far, on `seenSteps`, and on whether an attempt is left, and
all values of these meet. Two bits of `size_t` (`SizeMax = 3`) with `retries = 3` reach the
wrap-around. `MCTestRun` has two features, so that a failure or exception in one meets the start of
the next, two scenarios in one feature so that fail-fast acts inside it, scenarios with and without
the tags that select them for retry and repetition, one hook of each global kind, and all flag
combinations, including the two the Worker's constructor rejects and the number of retries that wraps
around; step hooks are left to the other run. `MCStepBody` allows two calls per body and two levels: a second nested step after the first
threw and was caught, and a return through two reporters, are the interesting cases, and the proofs
lift both bounds. `MCTestRun`'s instance serves the reports as well: two scenarios share a step
definition, so that a definition meets an executed and a skipped step.

`MCRunCucumber` is made of the feature files in which names can meet: twice the same scenario beside
one that is called like the suffixed name, a rule and a scenario whose parts agree, names that differ
only in what `SanitizeName` replaces, examples, a feature without a name; broken and unreadable files
before and after good ones. The registered definitions include one type only the host has, one that
only `PARAMETER` brings and one that nobody has, and the ids of the hooks pass from one digit to two; one
program has a hook whose tag expression does not parse, one a step whose expression does not.
`MCPlugins` has two sound plugins that share a header with the host and each other, one library for
each way to be refused, and every load list of one or two paths in both of two Applications: a failure
after a success, a path twice, and a session after a failed one. One of the two sound plugins is
`Resident`: `dlclose` leaves it in memory, so that it is not initialised a second time and registers
nothing when it is loaded again; `LoadedIsVisible` and `VisibleStepsConvert` therefore except it. `MCContextStorage` has two threads on
the chain of contexts the program uses, with two values of one key: threads meet on one storage, and
on a child and its parent, in both orders. `MCAcceptanceScenario` has pipes with room for one write
and two writes to each stream, so that a child can be blocked on either pipe while the other fills;
two names for the workspace; a build, a program with a library, one without. The proofs lift the
bounds of the last three.

**Fairness.** Liveness is checked under weak fairness of the whole next-state relation: there is one
thread, it never waits, and every piece of user code returns or throws. Nothing else is assumed:
no action is fair on its own, and user code may make any choice for ever (bounded only by
`MaxCalls`). A `while (true)` in a step body does hang the program and is excluded by this.
Failing an expectation again changes no state of the model, so a body that fails expectations for
ever is a stuttering behaviour and excluded likewise.

`ContextStorage` is fair per thread: a thread that can go on eventually does, a mutex promises no order
among those that wait, so fairness is weak, and `CallsReturn` is asked once no new calls are made.
`AcceptanceScenario` is fair to the test process, which is one thread that waits only in the calls the
model shows, and assumes of the programs it starts that they end: they get through their start, a
write returns once there is room, a script goes on and does not stop between two lines, and what they
leave behind ends (`HeirEnds`). That they ever write is not assumed, and a call that throws or a
thread that cannot be started is not owed to anybody (`at' \notin {"thrown", "terminated"}`).
`ScenarioEnds` allows the one other end there is: the test process is terminated by its second reader thread. `RunCucumber` and `Plugins` state no liveness: they have no loop
that is not over a finite list.

**Deadlock** is checked in `context_storage`, where threads go on for ever and wait for each other, and
in `acceptance_scenario`, where the other test process does. In the other runs checking is off because
they end: the runner returns, the run finishes or an exception escapes it, a process exits.

**Hazards behind the less obvious properties.** `PassedMeansEverythingRan` reads a `PASSED` verdict
backwards: no hook, step or earlier repetition was left out. `AfterHooksAlwaysRun` is the clean-up
promise for scenarios that have steps. `SuccessIsEarned` and `FailureHasAReason` bound a run's result
from both sides; feature hooks are absent from the first because in the code a failing feature hook
does not fail the run. `FailFastSkipsTheRest` follows a failure across features, hooks and swallowed
exceptions. `RunEnds` allows an exception to escape only for inconsistent options or a raising
`BeforeAll` or `AfterAll` hook. `AnswerIsAnOutcome` justifies the set `Outcome` the other two models
take for granted. `FailedAssertionIsTold`: whatever happens after a failed assertion, at whatever depth,
the runner gets an explanation, and the text of an `ASSERT_` that ended a step is in its message. It says
no more, because the code does no more: the text of a failed `EXPECT_` is lost when a `Skipped("...")`,
a `Pending("...")` or the failure of a nested step follows, whose text takes its place
(`lib/util/ExecuteAndCatchExceptions.hpp:34-45`, `:51` and `:57`), and the text of a `std::exception`
thrown in a nested step is not in the message its caller gets. `EarlierResultsDecide` follows the worst
result so far into what becomes of bodies, hooks and undefined steps. `OnlyTwoLeaks` states the two
failures after which `RunProcess` leaves handles open, both on Windows, and that there are no others. `JunitAgreesWithRun` leaves out what the documentation does (`README.md:362`): a
report shows the last attempt of a repeated scenario, and an earlier one may have failed the run; and
failing hooks of the run, which no report shows. `DiscoveryIdentifies` names the one case in which a
test runs a second scenario along with its own: when that one's own name is the full name of the first.
`HostDefinitionsStay` and `OnlyHostRemains` look at the registry from both sides: nothing of the host's
is ever out of sight, nothing of a plugin's outlives its session. `CallsAreAtomic` says that locking
each storage by itself is enough for lookups through several of them. `LibraryIsMine` needs the lock to
span writing, building and copying, because a failed build leaves an earlier artifact in place.

## The proofs

`TestStepResults_proofs`: `WorstOfResults`, what the worst-of combination returns, and its lemmas
(`LargestStatus`, `FirstPosition`). They rest on no assumption about the constants.

`TestCaseRunner_proofs`, for all sets of test cases, numbers of step hooks, retries and repetitions
that satisfy `TestCaseRunnerAssumption` (types only). The properties are not inductive, because they
speak of the end of an attempt. `IInv` adds what is known on the way:
`PositionInv` (how many results there are, that a body is entered only when all before passed, what
`seenSteps` means), `ResultInv` (a passed result was invoked; a hook after a step was invoked; an
explained result did not pass), what `EarlierResultsDecide` says of each recorded result, `VerdictInv` (verdicts so far are `FAILED` under `retries`, and
`overallResult` is their maximum) and `ReturnedInv` (what holds once `Run` returned). `IInv` is shown
to hold initially (`InitIInv`) and to be preserved by every action, one lemma per action;
`Invariance` combines them, and `TypeCorrect`, `SkippedRunsNothing`, `StepsFollowPassing`,
`AfterHooksRun`, `ErrorJustified`, `VerdictCorrect` and `PassedIsEarned` follow.

`StepBody_proofs`, for every depth of nesting and number of calls. The invariant speaks of each frame
separately (`FrameInv`): its result is a clean pass or an explained failure, an exception is kept only
by a frame that unwinds, `setUp` and `tornDown` fit its place; together the frames satisfy
`StackInv`: each remembers the position below it as the reporter to restore, and only the top may be
destroyed. `AnswerInv` says that a failure is remembered somewhere on the stack until the answer tells
it (`Dirty`), so is the explanation of a failed assertion (`Explained`), and so is the text of an `ASSERT_`
(`Asserted`): the frame that has it unwinds with a `FatalError` or the account of a nested step. Three lemmas about stacks (`ReplaceTop`, `PushFrame`, `PopFrame`) carry the action
lemmas. Theorems: `BodyInvariance`, `BodyTypeCorrect`, `AnswersAreOutcomes`, `PassedBodiesAreClean`,
`SetUpsAreTornDown`, `AssertionsAreRouted`, `NestedSkipsFail`, `FailuresAreExplained`.

`TestRun_proofs`, for all features, options and hooks that satisfy the assumption of `TestRun`. The run
contains a runner, and its invariant needs little of it (`RunnerInv`: results are results, a runner
built to skip enters nothing and passes nothing). `ProgressInv` says that no scenario has been left
out unless something failed, `HookInv` relates a hook's results to the history of failed hooks, and
`FailingInv` the three flags to the failures there were, in both directions. The operators of the
instance of `TestCaseRunner` are expanded once, in `CaseNames`; `RunnerStep` is the one lemma about its
steps. `SuccessEarned`, `FailureExplained`, `FailFastSkips` and `DryRunsSucceed` follow.

The same module proves `RunFollowsProtocol`, the refinement. `MessageInv` adds what the mapping
rests on: an announced attempt is admitted by the loop, and a test case has as many results as steps
only when all are finished. `RunnerMoves` sorts the fifteen actions of the runner into six kinds of
move as listeners see them; each, and each action of the run, maps to one action of `MessageProtocol`
or leaves the mapped state as it is.

It ends with `Reports`, for everything a step's text may stand for. `AttemptInv` follows the attempt
under way: `ResultsAccounted` and `BodyAccounted` relate its results to the bodies in `entered`, and
`RunnerMade` says that the runner was built for the scenario the loops are at. `ReportInv` follows the
query: it holds `Attempted` and, between the last message of a scenario and the return to the loop, the
scenario returning; each entry is accounted for by what its attempt ran; `Decides` relates reports to
`failing`, `suiteFailing` and `failed`. Both are preserved only together with `IInv` and `MessageInv`
(`ReportingInvariance`). `JunitIsAccurate` and `UsageIsAccurate` follow; the counts of the JUnit
document need that the scenarios are finitely many, which holds because features are sequences.

`ContextStorage_proofs`, for all trees of contexts and all threads. `LockInv`: a thread holds the lock
of each storage it is in, except the one it is about to enter, and goes towards the root, so its
storages are distinct; `EntryInv`: the key of an `Assign` is absent between its two halves. Hence
`UniqueKeys`. The assumption is that parents are nearer to the root (`Depth`).

`StoragesAreAtomic` is the refinement of `AtomicContext`. `LookupInv` adds that a lookup has found
nothing in the storages it went through, and that this is still so, because it has kept their locks.
`Nearest` is recursive in the depth of a context; that the function exists is shown by a least
counterexample (`LeastNumber`), since induction cannot be cited. Then each action is one of
`AtomicContext` or leaves the mapped state alone: a lookup answers in the storage where it finds the key
or at the root, an `Assign` takes effect when it erases, and no other action is seen.

`AcceptanceScenario_proofs`, for every capacity of a pipe and every amount of output. `HandleInv` lists
the descriptors at each place, those the two leaks leave open after an exception included, `WriterInv` says that whoever lives holds both write ends, `StreamInv`
that what was written is received or in the pipe, and that a stream the caller has left is at its end
for good, because nobody is left who could write. `SandboxInv`: a script past the lock has it, so what
it finds is its own. Theorems: `ResultsAreWhole`, `LeaksAreKnown`, `LibrariesAreOwn`.

`Plugins_proofs`, for all libraries, what they define, how they fail, and all load lists.
`OwnerInv` says what each table may hold, `ListInv` that instances and locations are there once,
`SessionInv` what is where in each phase: what plugins brought is gone from the tables before the
libraries are, and the converters are the host's again. Theorems: `NothingIsLeftDangling`,
`SessionsLeaveNothing`, `NothingIsMetTwice`, and `HostStaysVisible`, an action property, one case per
action that touches a table. `LoadedInv` is about the other half of a session, in which tables grow:
`MapInv` says whose map a library looks into, `FreshInv` where a library's definitions and converters
are from the moment it is in memory, `LoadInv` that whatever the host's tables name the host's map
converts. `LoadingInvariance` rests on `SessionInvariance`; `WhatIsLoadedIsVisible` and
`WhatIsVisibleConverts` follow.

`RunCucumber_proofs`, for all feature files, options, definitions and discovered tests;
`RunCucumberAssumption` asks only for their types and that parameter types are finitely many. The invariant has three parts, each preserved with
the help of those before it.

- `IInv`: files are announced in order (`FileInv`), what has not happened yet while files are parsed or
  scenarios are listed (`EarlyInv`, `ListInv`), and a process that counted errors has nothing left but
  its end (`ErrorInv`). Hence `ParseErrorsStopEveryRun`.
- `NamesInv`: the scenarios collected are those the tags choose, in the order of the files
  (`PickleInv`); each has the name that its place among them gives it (`NameInv`), and the process
  CTest starts computes what the first one has listed (`ListedInv`, `WantedInv`, `Identified`), because
  two ordered sequences of the same scenarios are equal (`OrderedLists`). Hence
  `EveryTestRunsItsScenario`.
- `CodeInv`: what the registries hold when they have been loaded (`RegisterInv`), what was announced of
  it (`AnnouncedInv`), and that a test case is what assembly makes of its scenario (`CasesInv`). Hence
  `EveryReferenceResolves` and `EveryStepFindsItsDefinitions`.

The lemmas under them are about data: numbers as texts differ if the numbers do (`DigitsInjective`), the
order of texts is total (`TextOrder`), the least free suffix exists and is free (`MakesUnique`). Where
they need induction they take a least counterexample, as above.

**Only model-checked:** the liveness properties `RunReturns`, `RunEnds`, `AnswerArrives`, `CallsReturn`
and `ScenarioEnds`, because the proof system does not handle fairness here. Every invariant and action
property of the passing runs, and both refinements, are theorems. What the five runs of the next
section refute is shown by TLC's counterexample.

## Where documentation and code disagree

1. **After hooks of a scenario without steps.** `README.md:276`: "If any before hook is executed then
   all after hooks are also executed. Even if a before hook has a failure." The runner tells before
   from after hooks by `seenSteps` (`lib/runtime/TestCaseRunner.cpp:145`). Without steps it stays
   false, and after hooks are skipped once a before hook did not pass. Run `empty_scenario`.
2. **`--fail-global-hook-fast`** is documented as "Stop execution on first global hook failure"
   (`lib/Application.cpp:178`). A `GlobalHookError` of a feature hook is swallowed by the
   `catch (...)` around the feature (`lib/runtime/SerialRuntimeAdapter.cpp:66`) and the next feature
   runs. Run `global_hook_fast`.
3. **Throwing.** `README.md:272`: "it is also safe to throw exceptions". `TearDown` is called from the
   destructor of `SetUpTearDownWrapper` (`lib/support/Body.hpp:32`), which is `noexcept`: a failed
   `ASSERT_` or any exception in `TearDown` ends the program. Run `tear_down_throws`.
4. **Order of hooks.** `README.md:276`: "Hooks are executed in order of appearance (reverse for AFTER
   hooks), sorted by filename and line number." `HookRegistry` keeps hooks in a map ordered by the
   text of their ids (`lib/support/HookRegistry.cpp:67`), and ids are numbers of any length: the hook
   with id 10 runs before the one with id 9. Run `hook_order`.
5. **Values of plugins in the program context.** `PLUGIN_ARCHITECTURE.md:346` describes an order of
   clean-up that prevents dangling pointers. `Application` destroys the plugin session, and with it
   unloads the libraries, before the program context (`lib/Application.hpp:93` and `:109`): a value of
   a plugin's type that its `BEFORE_ALL` hook left there is destroyed by code that is no longer in
   memory. Run `plugin_context`.

## What is not modelled

- *Time, text, layout*: durations, timestamps, message texts, colours. They steer nothing. The clocks
  and the field-by-field message transformations are left out for good. A clock that is set back
  between two readings would give a negative duration that `lib/util/Body.cpp:67` divides as an
  unsigned number; it is reported and steers nothing.
- *Third-party code*: gherkin, messages and expressions libraries, CLI11, GoogleTest. Where the
  runner depends on them, by what it uses of them.
- *Other threads started by user code*, as far as assertions go: GoogleTest routes only the executing
  thread's. Threads that share contexts are in `ContextStorage`.
- *Step arguments*: a conversion that throws is one of the exceptions of `ThrowException`; the
  number and the types of arguments are not modelled.
- *`.order` of global hooks*: the argument is stored and read by nobody.
- *Listeners*: the list of a run is fixed before it starts.
- *Outputs of formatters*, the pretty printers, external formatters and the message writer: they print
  what comes, and keep nothing that matters after it.
- *Values in a context*: their destructors do not call back into a context, and a reference that `Get`
  returned is its caller's to guard.
- *`RunCucumber`*: files do not change between discovery and test; the
  ids of test cases and their steps are left out; regular expressions match one name.
- *`Reports`*: nested steps are not in the messages and so in no report.
- *`Subprocess`*: interrupted calls are repeated by the code and stutter here; a Windows read fails
  only at the end of the stream; the child of a call that threw is not waited for, by the code either;
  a build that goes on after its script was killed is left out; a file that is written has a new
  modification time. Running out of memory, which would leave the Windows handles open at more
  places, is left out here as everywhere.
- The compatibility kit, its step files, the examples and `Main.cpp`: they compare or print, and keep
  no state.

## Plan

All components of the list that keep state are modelled, and what can be proved of the checked
properties is proved. What would come next: that the attempts inside a run are behaviours of
`TestCaseRunner`, so that its theorems hold of the run without being checked again, and the outputs of
the formatters that print as they go.
