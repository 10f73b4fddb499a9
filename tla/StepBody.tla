------------------------------ MODULE StepBody ------------------------------
(***************************************************************************)
(* ConstructAndExecute: one execution of user code, a hook or a step body, *)
(* and of the nested steps that it calls with Step("...").                 *)
(*                                                                         *)
(* The C++ call stack is the sequence `stack', a frame for every           *)
(* ConstructAndExecute that has not returned.  User code - the fixture's   *)
(* constructor, SetUp, the body, TearDown - is arbitrary: it may fail      *)
(* expectations and assertions, throw, call nested steps, catch what a     *)
(* nested step throws, and return.  Assertions are routed by GoogleTest to *)
(* `reporter', the reporter that was installed last on this thread.        *)
(*                                                                         *)
(* TestCaseRunner and TestRun take the set Outcome of TestStepResults for  *)
(* what an execution comes back with; AnswerIsAnOutcome says they may.     *)
(*                                                                         *)
(* Of the texts in a result the model keeps those of failed assertions:    *)
(* `message' is the set of the kinds of assertion whose text the message   *)
(* contains.  Skipped and pending texts, what a nested step is called and  *)
(* exceptions count for Result's `reported' alone.                         *)
(*                                                                         *)
(* A definition named Slip... is a plausible mistake in the definition     *)
(* that follows it, for the properties to notice; no action uses it.       *)
(***************************************************************************)
EXTENDS TestStepResults

CONSTANTS
    MaxNesting,   \* bound: nested steps inside nested steps
    MaxCalls      \* bound: nested steps called by one body

ASSUME StepBodyAssumption == MaxNesting \in Nat /\ MaxCalls \in Nat

VARIABLES
    stack,       \* the executions that are under way, innermost last
    reporter,    \* position of the frame assertions are reported to, or 0
    answer,      \* what the outermost ConstructAndExecute returned
    told,        \* the failed assertions whose text that answer contains
    terminated,  \* std::terminate was called
    failure,     \* history: some code asserted in vain, or threw
    reports,     \* history: the kinds of assertion that failed
    swallowed    \* history: some code caught what a nested step threw

vars == <<stack, reporter, answer, told, terminated, failure, reports, swallowed>>

(* The kinds of assertion: EXPECT_ lets the code carry on, ASSERT_ stops   *)
(* it.                                                                     *)
Assertion == {"expect", "assert"}

(* An exception, whether it brings a text along, and the texts of failed   *)
(* assertions in there; no exception at all.                               *)
Exception    == [kind : {"skipped", "pending", "nested", "fatal", "other"},
                 text : BOOLEAN, message : SUBSET Assertion]
NoException  == [kind |-> "none", text |-> FALSE, message |-> {}]
FatalError   == [kind |-> "fatal", text |-> TRUE, message |-> {}]
NestedTestCaseRunnerError(message) ==
    [kind |-> "nested", text |-> TRUE, message |-> message]

(* Skipped() and Pending(), with or without a text, and everything else    *)
(* user code may throw of its own accord.                                  *)
UserException ==
    [kind : {"skipped", "pending"}, text : BOOLEAN, message : {{}}]
    \cup {[kind |-> "other", text |-> TRUE, message |-> {}]}

(* Where an execution is: in the factory, in SetUp, in the body, in        *)
(* TearDown, or back with the body object destroyed.                       *)
Places == {"construct", "setUp", "execute", "tearDown", "destroyed"}

Frame == [at : Places, result : Result, message : SUBSET Assertion,
          thrown : Exception \cup {NoException}, calls : 0 .. MaxCalls, old : Nat,
          setUp : BOOLEAN, tornDown : BOOLEAN]

Pending == Quiet(UNKNOWN) \* the outermost execution has not returned

Depth    == Len(stack)
Top      == stack[Depth]
UserCode == stack # <<>> /\ Top.at # "destroyed" /\ ~terminated

-----------------------------------------------------------------------------
(* The catch clauses, most specific first.  An assertion's message is in   *)
(* the result already when FatalError arrives.                             *)
SlipNestedStatusKept(result, e) ==
    CASE e.kind = "none"    -> result
      [] e.kind \in {"nested", "skipped"} ->
            [status |-> SKIPPED, reported |-> result.reported \/ e.text]
      [] e.kind = "pending" -> [status |-> PENDING, reported |-> result.reported \/ e.text]
      [] e.kind = "fatal"   -> [result EXCEPT !.status = FAILED]
      [] OTHER              -> Reported(FAILED)

HandleErrors(result, e) ==
    CASE e.kind = "none"    -> result
      [] e.kind = "nested"  -> Reported(FAILED)
      [] e.kind = "skipped" -> [status |-> SKIPPED, reported |-> result.reported \/ e.text]
      [] e.kind = "pending" -> [status |-> PENDING, reported |-> result.reported \/ e.text]
      [] e.kind = "fatal"   -> [result EXCEPT !.status = FAILED]
      [] OTHER              -> Reported(FAILED)

(* What the same clauses leave of the message: the text of Skipped() or    *)
(* Pending(), if there is one, takes its place, and so does the account of *)
(* a nested step, which ends in that step's message.  A FatalError leaves  *)
(* it alone; another exception is recorded beside it.                      *)
MessageAfter(message, e) ==
    CASE e.kind = "nested"                           -> e.message
      [] e.kind \in {"skipped", "pending"} /\ e.text -> {}
      [] OTHER                                       -> message

(* ReportTestPartResult writes to the result its reporter was made with;   *)
(* the text is appended to what the message holds.                         *)
SlipStatusOnly(frames, assertion) ==
    [i \in DOMAIN frames |->
        IF i = reporter
        THEN [frames[i] EXCEPT !.result.status = FAILED,
                               !.message = @ \cup {assertion}]
        ELSE frames[i]]

SlipMessageReplaced(frames, assertion) ==
    [i \in DOMAIN frames |->
        IF i = reporter
        THEN [frames[i] EXCEPT !.result = Reported(FAILED),
                               !.message = {assertion}]
        ELSE frames[i]]

ReportTestPartResult(frames, assertion) ==
    [i \in DOMAIN frames |->
        IF i = reporter
        THEN [frames[i] EXCEPT !.result = Reported(FAILED),
                               !.message = @ \cup {assertion}]
        ELSE frames[i]]

(* The innermost frame unwinds.  TearDown runs in the destructor of the    *)
(* wrapper that called SetUp; before SetUp has returned there is no        *)
(* wrapper to destroy.                                                     *)
SlipTearDownAfterReturn(frames, e) ==
    [frames EXCEPT ![Len(frames)].thrown = e,
                   ![Len(frames)].at = "destroyed"]

Unwind(frames, e) ==
    [frames EXCEPT ![Len(frames)].thrown = e,
                   ![Len(frames)].at = IF @ = "execute" THEN "tearDown"
                                                        ELSE "destroyed"]

SlipTearDownAgain(frames, e) ==
    /\ failure' = TRUE
    /\ stack' = [frames EXCEPT ![Len(frames)].thrown = e,
                                ![Len(frames)].at = "tearDown"]
    /\ UNCHANGED terminated

(* e leaves the innermost user code.  A destructor is noexcept: what       *)
(* leaves TearDown ends the program.                                       *)
Throw(frames, e) ==
    /\ failure' = TRUE
    /\ IF frames[Len(frames)].at = "tearDown"
       THEN /\ terminated' = TRUE
            /\ stack' = frames
       ELSE /\ stack' = Unwind(frames, e)
            /\ UNCHANGED terminated

(* User code may also catch e and carry on.                                *)
ThrowIntoUserCode(frames, e) ==
    \/ /\ Throw(frames, e)
       /\ UNCHANGED swallowed
    \/ /\ stack' = frames
       /\ swallowed' = TRUE
       /\ failure' = TRUE
       /\ UNCHANGED terminated

(* A body is constructed: its reporter takes over the thread's assertions  *)
(* and remembers whom it took over from.                                   *)
Construct(frames) ==
    /\ stack' = Append(frames,
                       [at |-> "construct", result |-> Quiet(PASSED), message |-> {},
                        thrown |-> NoException, calls |-> 0,
                        old |-> reporter, setUp |-> FALSE, tornDown |-> FALSE])
    /\ reporter' = Len(frames) + 1

-----------------------------------------------------------------------------
Init ==
    /\ stack = <<>>
    /\ reporter = 0
    /\ answer = Pending
    /\ told = {}
    /\ terminated = FALSE
    /\ failure = FALSE
    /\ reports = {}
    /\ swallowed = FALSE

(* The runner calls ConstructAndExecute.                                   *)
Begin ==
    /\ stack = <<>>
    /\ answer = Pending
    /\ Construct(<<>>)
    /\ UNCHANGED <<answer, told, terminated, failure, reports, swallowed>>

(* A failed EXPECT_: the code carries on.                                  *)
FailExpectation ==
    /\ UserCode
    /\ stack' = ReportTestPartResult(stack, "expect")
    /\ failure' = TRUE
    /\ reports' = reports \cup {"expect"}
    /\ UNCHANGED <<reporter, answer, told, terminated, swallowed>>

(* A failed ASSERT_: the reporter throws FatalError.                       *)
FailAssertion ==
    /\ UserCode
    /\ Throw(ReportTestPartResult(stack, "assert"), FatalError)
    /\ reports' = reports \cup {"assert"}
    /\ UNCHANGED <<reporter, answer, told, swallowed>>

(* Skipped(), Pending(), a throw, or a failed argument conversion.         *)
ThrowException ==
    /\ UserCode
    /\ \E e \in UserException : Throw(stack, e)
    /\ UNCHANGED <<reporter, answer, told, reports, swallowed>>

(* The current piece of user code returns, and the next one is entered.    *)
NextPlace == [construct |-> "setUp",    setUp    |-> "execute",
              execute   |-> "tearDown", tearDown |-> "destroyed"]

Return ==
    /\ UserCode
    /\ stack' = [stack EXCEPT
          ![Depth].at       = NextPlace[@],
          ![Depth].setUp    = @ \/ Top.at = "setUp",
          ![Depth].tornDown = @ \/ Top.at = "tearDown"]
    /\ UNCHANGED <<reporter, answer, told, terminated, failure, reports, swallowed>>

Called == [stack EXCEPT ![Depth].calls = @ + 1]

(* Step("..."): exactly one definition matches, and its body is executed   *)
(* in the same way.                                                        *)
CallStep ==
    /\ UserCode
    /\ Top.calls < MaxCalls
    /\ Depth <= MaxNesting
    /\ Construct(Called)
    /\ UNCHANGED <<answer, told, terminated, failure, reports, swallowed>>

(* Step("..."): no definition matches, or several do.                      *)
CallUnmatchedStep ==
    /\ UserCode
    /\ Top.calls < MaxCalls
    /\ ThrowIntoUserCode(Called, NestedTestCaseRunnerError({}))
    /\ UNCHANGED <<reporter, answer, told, reports>>

(* The body object is gone and with it its reporter; ConstructAndExecute   *)
(* turns the exception, if any, into the result.                           *)
SlipReporterStays == reporter
RestoredReporter  == Top.old

FinalResult  == HandleErrors(Top.result, Top.thrown)
FinalMessage == MessageAfter(Top.message, Top.thrown)
Callers == SubSeq(stack, 1, Depth - 1)

(* It returns to the runner ...                                            *)
ReturnAnswer ==
    /\ Depth = 1 /\ Top.at = "destroyed"
    /\ answer' = FinalResult
    /\ told' = FinalMessage
    /\ stack' = <<>>
    /\ reporter' = RestoredReporter
    /\ UNCHANGED <<terminated, failure, reports, swallowed>>

(* ... or, for a nested step, to the user code that called it, which sees  *)
(* an exception for every status other than PASSED.                        *)
SlipOnlyFailuresThrow == FinalResult.status # FAILED

NestedStepPassed == FinalResult.status = PASSED

ReturnToCaller ==
    /\ Depth > 1 /\ Top.at = "destroyed"
    /\ reporter' = RestoredReporter
    /\ IF NestedStepPassed
       THEN stack' = Callers /\ UNCHANGED <<terminated, failure, swallowed>>
       ELSE ThrowIntoUserCode(Callers, NestedTestCaseRunnerError(FinalMessage))
    /\ UNCHANGED <<answer, told, reports>>

Next ==
    \/ Begin
    \/ FailExpectation \/ FailAssertion \/ ThrowException
    \/ Return \/ CallStep \/ CallUnmatchedStep
    \/ ReturnAnswer \/ ReturnToCaller

Spec == Init /\ [][Next]_vars

(* One thread runs; user code returns or throws in the end.                *)
FairSpec == Spec /\ WF_vars(Next)
-----------------------------------------------------------------------------
(* Properties.                                                             *)

TypeOK ==
    /\ stack \in Seq(Frame)
    /\ reporter \in Nat
    /\ answer \in Result
    /\ told \in SUBSET Assertion
    /\ reports \in SUBSET Assertion
    /\ terminated \in BOOLEAN
    /\ failure \in BOOLEAN
    /\ swallowed \in BOOLEAN

(* Whatever user code does, at any depth of nested steps, the runner gets  *)
(* one of the six results it is written for: never UNKNOWN, UNDEFINED or   *)
(* AMBIGUOUS, never a failure without an explanation, never a pass with    *)
(* one.                                                                    *)
AnswerIsAnOutcome == answer # Pending => answer \in Outcome

(* An execution that passed is clean: no assertion failed and no exception *)
(* was thrown in it or in any nested step, unless the exception of a       *)
(* nested step was caught on purpose.                                      *)
PassedIsClean == answer.status = PASSED => ~failure \/ swallowed

(* A body is torn down exactly if its SetUp completed, also on every path  *)
(* an exception takes.                                                     *)
TearDownFollowsSetUp ==
    \A i \in DOMAIN stack :
        stack[i].at = "destroyed" => (stack[i].setUp <=> stack[i].tornDown)

(* A failed assertion is reported to the step whose code contains it: the  *)
(* reporter is the one of the innermost execution, also after nested steps *)
(* returned or threw, and GoogleTest's own when none is under way.         *)
ReporterIsInnermost == reporter = Depth

(* A scenario is skipped or pending only because the step itself said so:  *)
(* a nested step that skips, is pending, undefined or ambiguous fails the  *)
(* step that called it.                                                    *)
OnlyOwnSkipsCount ==
    \A i \in DOMAIN stack :
        /\ stack[i].at = "destroyed"
        /\ HandleErrors(stack[i].result, stack[i].thrown).status \in {SKIPPED, PENDING}
        => stack[i].thrown.kind \in {"skipped", "pending"}

(* A failed assertion reaches the runner, from any depth of nested steps:  *)
(* the answer has an explanation, and when an ASSERT_ stopped a step, the  *)
(* text of an ASSERT_ is in the answer's message, whatever the TearDowns   *)
(* and the callers that unwind after it report.  (The text of an EXPECT_   *)
(* is not always there: a later Skipped("...") or Pending("...") and the   *)
(* account of a nested step take its place.)                               *)
FailedAssertionIsTold ==
    answer # Pending /\ ~swallowed =>
        /\ reports # {} => answer.reported
        /\ "assert" \in reports => "assert" \in told

(* The runner gets its answer, or the program has been terminated.         *)
AnswerArrives == <>(answer # Pending \/ terminated)

-----------------------------------------------------------------------------
(* The inductive invariant behind these properties.                        *)

(* Something went wrong in this execution, and is not forgotten.           *)
Dirty(frame) == frame.result.status = FAILED \/ frame.thrown # NoException

(* The result of this execution will have an explanation; it ends with the *)
(* text of an ASSERT_, since it unwinds and nothing else can be thrown.    *)
Explained(frame) == HandleErrors(frame.result, frame.thrown).reported

Asserted(frame) ==
    /\ frame.thrown.kind \in {"fatal", "nested"}
    /\ "assert" \in MessageAfter(frame.message, frame.thrown)

FrameInv(frame) ==
    /\ frame.result \in {Quiet(PASSED), Reported(FAILED)}
    /\ frame.thrown.kind = "fatal" => /\ frame.result = Reported(FAILED)
                                      /\ "assert" \in frame.message
    /\ frame.thrown # NoException => frame.at \in {"tearDown", "destroyed"}
    /\ frame.at \in {"construct", "setUp"} => ~frame.setUp /\ ~frame.tornDown
    /\ frame.at \in {"execute", "tearDown"} => frame.setUp /\ ~frame.tornDown
    /\ frame.at = "destroyed" => (frame.setUp <=> frame.tornDown)

StackInv ==
    /\ \A i \in DOMAIN stack :
          /\ FrameInv(stack[i])
          /\ stack[i].old = i - 1
          /\ i < Depth => stack[i].at # "destroyed"
    /\ reporter = Depth

AnswerInv ==
    /\ stack # <<>> => answer = Pending
    /\ answer # Pending => answer \in Outcome
    /\ answer = Pending => told = {}
    /\ terminated => stack # <<>> /\ Top.at = "tearDown"
    /\ failure /\ ~swallowed /\ ~terminated =>
          \/ \E i \in DOMAIN stack : Dirty(stack[i])
          \/ answer \notin {Pending, Quiet(PASSED)}
    /\ reports # {} /\ ~swallowed /\ ~terminated =>
          (\E i \in DOMAIN stack : Explained(stack[i])) \/ answer.reported
    /\ "assert" \in reports /\ ~swallowed /\ ~terminated =>
          (\E i \in DOMAIN stack : Asserted(stack[i])) \/ "assert" \in told
    /\ PassedIsClean

IInv == TypeOK /\ StackInv /\ AnswerInv

-----------------------------------------------------------------------------
(* What the documentation says and the code does not do.                   *)

(* "If asserting (or expecting) is not an option then it is also safe to   *)
(* throw exceptions."                                                      *)
ThrowingIsSafe == ~terminated
=============================================================================
