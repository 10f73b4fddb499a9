--------------------------- MODULE StepBody_proofs ---------------------------
(***************************************************************************)
(* StepBody, proved: for every depth of nested steps and every number of   *)
(* calls, and whatever user code does, the runner gets a result it is      *)
(* written for, and a failure is never lost.                               *)
(*                                                                         *)
(* The invariant is a statement about each frame of the call stack.  The   *)
(* lemmas of the first part say what keeps a stack good: replacing its     *)
(* top, pushing a frame and popping one.  Every action does one of these.  *)
(***************************************************************************)
EXTENDS StepBody, TLAPS

(* A stack of executions as StackInv wants it.                             *)
GoodFrame(frame, i, n) ==
    /\ FrameInv(frame)
    /\ frame.old = i - 1
    /\ i < n => frame.at # "destroyed"

GoodStack(frames) ==
    /\ frames \in Seq(Frame)
    /\ \A i \in DOMAIN frames : GoodFrame(frames[i], i, Len(frames))

(* Some execution remembers that something went wrong.                     *)
DirtyStack(frames) == \E i \in DOMAIN frames : Dirty(frames[i])

(* Some execution will end with an explanation, or with an ASSERT_'s text. *)
ExplainedStack(frames) == \E i \in DOMAIN frames : Explained(frames[i])
AssertedStack(frames)  == \E i \in DOMAIN frames : Asserted(frames[i])

(* What `frames' remembers, `later' remembers too.                         *)
Remembers(later, frames) ==
    /\ DirtyStack(frames) => DirtyStack(later)
    /\ ExplainedStack(frames) => ExplainedStack(later)
    /\ AssertedStack(frames) => AssertedStack(later)

(* Frames that keep their results, messages and exceptions keep all that   *)
(* is remembered.                                                          *)
LEMMA SameResultsAreRemembered ==
    ASSUME NEW frames, NEW later, DOMAIN frames \subseteq DOMAIN later,
           \A i \in DOMAIN frames : /\ later[i].result = frames[i].result
                                    /\ later[i].message = frames[i].message
                                    /\ later[i].thrown = frames[i].thrown
    PROVE  Remembers(later, frames)
<1>1. \A i \in DOMAIN frames : /\ Dirty(frames[i]) => Dirty(later[i])
                               /\ Explained(frames[i]) => Explained(later[i])
                               /\ Asserted(frames[i]) => Asserted(later[i])
  BY DEF Dirty, Explained, Asserted
<1> QED BY <1>1 DEF Remembers, DirtyStack, ExplainedStack, AssertedStack

(* The invariant is about good stacks.                                     *)
LEMMA GoodStackIsInvariant ==
    ASSUME TypeOK, StackInv
    PROVE  GoodStack(stack) /\ reporter = Len(stack)
BY DEF TypeOK, StackInv, GoodStack, GoodFrame, Depth

(* The top of a good stack is a good frame.                                *)
LEMMA TopIsGood ==
    ASSUME NEW frames, GoodStack(frames), frames # <<>>
    PROVE  /\ Len(frames) \in Nat \ {0}
           /\ Len(frames) \in DOMAIN frames
           /\ frames[Len(frames)] \in Frame
           /\ FrameInv(frames[Len(frames)])
           /\ frames[Len(frames)].old = Len(frames) - 1
BY DEF GoodStack, GoodFrame

(* The top frame may be replaced by any good frame with the same memory of *)
(* the reporter before it.                                                 *)
LEMMA ReplaceTop ==
    ASSUME NEW frames, GoodStack(frames), frames # <<>>,
           NEW f \in Frame, FrameInv(f), f.old = Len(frames) - 1
    PROVE  LET result == [frames EXCEPT ![Len(frames)] = f]
           IN  /\ GoodStack(result)
               /\ Len(result) = Len(frames)
               /\ DOMAIN result = DOMAIN frames
               /\ result # <<>>
               /\ result[Len(result)] = f
               /\ \A i \in DOMAIN frames : i # Len(frames) => result[i] = frames[i]
<1> DEFINE n == Len(frames)
           result == [frames EXCEPT ![n] = f]
<1>1. n \in Nat \ {0} /\ DOMAIN frames = 1 .. n /\ frames \in Seq(Frame)
  BY TopIsGood DEF GoodStack
<1>2. result \in Seq(Frame) /\ Len(result) = n /\ DOMAIN result = 1 .. n
  BY <1>1
<1>3. result[n] = f /\ \A i \in 1 .. n : i # n => result[i] = frames[i]
  <2>1. n \in DOMAIN frames
    BY <1>1
  <2>2. result[n] = f
    BY <2>1
  <2>3. \A i \in DOMAIN frames : i # n => result[i] = frames[i]
    OBVIOUS
  <2> QED BY <2>2, <2>3, <1>1
<1>4. \A i \in 1 .. n : GoodFrame(result[i], i, n)
  <2> SUFFICES ASSUME NEW i \in 1 .. n PROVE GoodFrame(result[i], i, n)
    OBVIOUS
  <2>1. CASE i = n
    BY <2>1, <1>1, <1>3 DEF GoodFrame
  <2>2. CASE i # n
    BY <2>2, <1>1, <1>3 DEF GoodFrame, GoodStack
  <2> QED BY <2>1, <2>2
<1> HIDE DEF result
<1>5. GoodStack(result)
  BY <1>2, <1>4 DEF GoodStack
<1>6. result # <<>>
  BY <1>1, <1>2
<1>7. /\ GoodStack(result)
      /\ Len(result) = Len(frames)
      /\ DOMAIN result = DOMAIN frames
      /\ result # <<>>
      /\ result[Len(result)] = f
      /\ \A i \in DOMAIN frames : i # Len(frames) => result[i] = frames[i]
  BY <1>1, <1>2, <1>3, <1>5, <1>6
<1> QED BY <1>7 DEF result

LEMMA PositionCases ==
    ASSUME NEW n \in Nat, NEW i \in 1 .. n + 1
    PROVE  i = n + 1 \/ i = n \/ i < n
OBVIOUS

(* A good frame may be pushed when the stack's top is still executing.     *)
LEMMA PushFrame ==
    ASSUME NEW frames, GoodStack(frames),
           frames = <<>> \/ frames[Len(frames)].at # "destroyed",
           NEW f \in Frame, FrameInv(f), f.old = Len(frames)
    PROVE  LET result == Append(frames, f)
           IN  /\ GoodStack(result)
               /\ Len(result) = Len(frames) + 1
               /\ DOMAIN frames \subseteq DOMAIN result
               /\ result # <<>>
               /\ result[Len(result)] = f
               /\ \A i \in DOMAIN frames : result[i] = frames[i]
<1> DEFINE n == Len(frames)
           result == Append(frames, f)
<1>1. frames \in Seq(Frame) /\ n \in Nat /\ DOMAIN frames = 1 .. n
  BY DEF GoodStack
<1>2. result \in Seq(Frame) /\ Len(result) = n + 1 /\ DOMAIN result = 1 .. n + 1
  BY <1>1
<1>3. result[n + 1] = f /\ \A i \in 1 .. n : result[i] = frames[i]
  BY <1>1
<1>4. \A i \in 1 .. n + 1 : GoodFrame(result[i], i, n + 1)
  <2> SUFFICES ASSUME NEW i \in 1 .. n + 1 PROVE GoodFrame(result[i], i, n + 1)
    OBVIOUS
  <2>1. CASE i = n + 1
    BY <2>1, <1>1, <1>3 DEF GoodFrame
  <2>2. CASE i = n
    <3>1. n \in 1 .. n /\ frames # <<>>
      BY <2>2, <1>1
    <3>2. result[n] = frames[n] /\ GoodFrame(frames[n], n, n)
      BY <3>1, <1>1, <1>3 DEF GoodStack
    <3>3. frames[n].at # "destroyed"
      BY <3>1
    <3> HIDE DEF n
    <3> QED BY <3>2, <3>3, <2>2 DEF GoodFrame
  <2>3. CASE i < n
    BY <2>3, <1>1, <1>3 DEF GoodFrame, GoodStack
  <2>4. i = n + 1 \/ i = n \/ i < n
    BY <1>1, PositionCases
  <2> QED BY <2>1, <2>2, <2>3, <2>4
<1> HIDE DEF result
<1>5. GoodStack(result)
  BY <1>2, <1>4 DEF GoodStack
<1>6. result # <<>>
  BY <1>1, <1>2
<1>7. /\ GoodStack(result)
      /\ Len(result) = Len(frames) + 1
      /\ DOMAIN frames \subseteq DOMAIN result
      /\ result # <<>>
      /\ result[Len(result)] = f
      /\ \A i \in DOMAIN frames : result[i] = frames[i]
  BY <1>1, <1>2, <1>3, <1>5, <1>6
<1> QED BY <1>7 DEF result

(* What is below the top of a good stack is a good stack, still executing. *)
LEMMA PopFrame ==
    ASSUME NEW frames, GoodStack(frames), Len(frames) > 1
    PROVE  LET result == SubSeq(frames, 1, Len(frames) - 1)
           IN  /\ GoodStack(result)
               /\ Len(result) = Len(frames) - 1
               /\ DOMAIN result = 1 .. Len(frames) - 1
               /\ result # <<>>
               /\ result[Len(result)].at # "destroyed"
               /\ \A i \in DOMAIN result : result[i] = frames[i]
<1> DEFINE n == Len(frames)
           result == SubSeq(frames, 1, n - 1)
<1>1. frames \in Seq(Frame) /\ n \in Nat /\ DOMAIN frames = 1 .. n /\ n - 1 \in 1 .. n
  BY DEF GoodStack
<1>2. result \in Seq(Frame) /\ Len(result) = n - 1 /\ DOMAIN result = 1 .. n - 1
  BY <1>1
<1>3. \A i \in 1 .. n - 1 : result[i] = frames[i]
  BY <1>1
<1> HIDE DEF result
<1>4. \A i \in 1 .. n - 1 : result[i].at # "destroyed" /\ GoodFrame(result[i], i, n - 1)
  BY <1>1, <1>3 DEF GoodFrame, GoodStack
<1>5. GoodStack(result)
  BY <1>2, <1>4 DEF GoodStack
<1>6. result # <<>>
  BY <1>1, <1>2
<1>7. /\ GoodStack(result)
      /\ Len(result) = Len(frames) - 1
      /\ DOMAIN result = 1 .. Len(frames) - 1
      /\ result # <<>>
      /\ result[Len(result)].at # "destroyed"
      /\ \A i \in DOMAIN result : result[i] = frames[i]
  BY <1>1, <1>2, <1>3, <1>4, <1>5, <1>6
<1> QED BY <1>7 DEF result

-----------------------------------------------------------------------------
LEMMA OutcomesAreResults == Outcome \subseteq Result
<1>1. {PASSED, SKIPPED, PENDING, FAILED} \subseteq Status
  BY DEF PASSED, SKIPPED, PENDING, FAILED, Status, UNKNOWN
<1>2. \A s \in Status : Quiet(s) \in Result /\ Reported(s) \in Result
  BY DEF Quiet, Reported, Result
<1> QED BY <1>1, <1>2 DEF Outcome

(* What an execution turns into for whoever called it.                     *)
LEMMA HandleErrorsAnswers ==
    ASSUME NEW frame \in Frame, FrameInv(frame)
    PROVE  LET result == HandleErrors(frame.result, frame.thrown)
           IN  /\ result \in Outcome
               /\ result.status = PASSED => ~Dirty(frame)
               /\ Dirty(frame) => result \notin {Pending, Quiet(PASSED)}
               /\ result # Pending
               /\ result.status \in {SKIPPED, PENDING} =>
                        frame.thrown.kind \in {"skipped", "pending"}
               /\ frame.result.status = FAILED => result.reported
<1> USE DEF PASSED, SKIPPED, PENDING, FAILED, UNKNOWN
<1>1. frame.thrown = NoException \/ frame.thrown \in Exception
  BY DEF Frame
<1>2. frame.result = Quiet(PASSED) \/ frame.result = Reported(FAILED)
  BY DEF FrameInv
<1>3. frame.thrown.kind = "fatal" => frame.result = Reported(FAILED)
  BY DEF FrameInv
<1> DEFINE r == frame.result
           e == frame.thrown
           result == HandleErrors(r, e)
<1> USE DEF Quiet, Reported
<1>4. CASE e = NoException
  <2>1. result = r
    BY <1>4 DEF HandleErrors, NoException
  <2> QED BY <1>2, <1>4, <2>1 DEF Outcome, Dirty, Pending
<1>5. CASE e \in Exception
  <2>1. e # NoException /\ e.text \in BOOLEAN
    BY <1>5 DEF Exception, NoException
  <2>2. CASE e.kind \in {"nested", "other"}
    <3>1. result = Reported(FAILED)
      BY <2>2 DEF HandleErrors
    <3> QED BY <2>1, <3>1 DEF Outcome, Pending
  <2>3. CASE e.kind = "fatal"
    <3>1. result = [r EXCEPT !.status = FAILED]
      BY <2>3 DEF HandleErrors
    <3>2. result = Reported(FAILED)
      BY <1>3, <2>3, <3>1
    <3> QED BY <2>1, <3>2 DEF Outcome, Pending
  <2>4. CASE e.kind = "skipped"
    <3>1. result = [status |-> SKIPPED, reported |-> r.reported \/ e.text]
      BY <2>4 DEF HandleErrors
    <3>2. CASE r.reported \/ e.text
      <4>1. (r.reported \/ e.text) = TRUE
        BY <3>2, <1>2, <2>1
      <4>2. result = [status |-> SKIPPED, reported |-> TRUE]
        BY <3>1, <4>1
      <4> QED BY <2>1, <2>4, <4>2 DEF Outcome, Pending
    <3>3. CASE ~(r.reported \/ e.text)
      <4>1. (r.reported \/ e.text) = FALSE /\ r.status # FAILED
        BY <3>3, <1>2, <2>1
      <4>2. result = [status |-> SKIPPED, reported |-> FALSE]
        BY <3>1, <4>1
      <4> QED BY <2>1, <2>4, <4>1, <4>2 DEF Outcome, Pending
    <3> QED BY <3>2, <3>3
  <2>5. CASE e.kind = "pending"
    <3>1. result = [status |-> PENDING, reported |-> r.reported \/ e.text]
      BY <2>5 DEF HandleErrors
    <3>2. CASE r.reported \/ e.text
      <4>1. (r.reported \/ e.text) = TRUE
        BY <3>2, <1>2, <2>1
      <4>2. result = [status |-> PENDING, reported |-> TRUE]
        BY <3>1, <4>1
      <4> QED BY <2>1, <2>5, <4>2 DEF Outcome, Pending
    <3>3. CASE ~(r.reported \/ e.text)
      <4>1. (r.reported \/ e.text) = FALSE /\ r.status # FAILED
        BY <3>3, <1>2, <2>1
      <4>2. result = [status |-> PENDING, reported |-> FALSE]
        BY <3>1, <4>1
      <4> QED BY <2>1, <2>5, <4>1, <4>2 DEF Outcome, Pending
    <3> QED BY <3>2, <3>3
  <2> QED BY <1>5, <2>2, <2>3, <2>4, <2>5 DEF Exception
<1> QED BY <1>1, <1>4, <1>5

LEMMA MessagesAreAssertions ==
    ASSUME NEW frame \in Frame
    PROVE  MessageAfter(frame.message, frame.thrown) \in SUBSET Assertion
<1>1. frame.message \in SUBSET Assertion /\ frame.thrown.message \in SUBSET Assertion
  BY DEF Frame, Exception, NoException
<1> QED BY <1>1 DEF MessageAfter

(* An assertion fails: the innermost execution has failed.                 *)
LEMMA ReportIsGood ==
    ASSUME GoodStack(stack), reporter = Len(stack), UserCode,
           NEW assertion \in Assertion
    PROVE  LET frames == ReportTestPartResult(stack, assertion)
           IN  /\ GoodStack(frames)
               /\ Len(frames) = Len(stack)
               /\ frames # <<>>
               /\ frames[Len(frames)].at = Top.at
               /\ frames[Len(frames)].result = Reported(FAILED)
               /\ assertion \in frames[Len(frames)].message
               /\ ExplainedStack(frames)
               /\ AssertedStack(stack) => AssertedStack(frames)
<1> DEFINE f == [Top EXCEPT !.result = Reported(FAILED),
                            !.message = @ \cup {assertion}]
           frames == ReportTestPartResult(stack, assertion)
<1>1. stack # <<>>
  BY DEF UserCode
<1>2. /\ Top \in Frame /\ FrameInv(Top) /\ Top.old = Len(stack) - 1
      /\ Top = stack[Len(stack)]
  BY <1>1, TopIsGood DEF Top, Depth
<1>3. Reported(FAILED) \in Result
  BY DEF Reported, FAILED, Result, Status, UNKNOWN
<1>4. /\ f \in Frame /\ f.old = Len(stack) - 1 /\ f.at = Top.at
      /\ f.result = Reported(FAILED) /\ f.thrown = Top.thrown
      /\ f.message = Top.message \cup {assertion}
  BY <1>2, <1>3 DEF Frame
<1>5. FrameInv(f)
  <2>1. f.setUp = Top.setUp /\ f.tornDown = Top.tornDown
    BY <1>2 DEF Frame
  <2> QED BY <1>2, <1>4, <2>1 DEF FrameInv
<1>6. frames = [stack EXCEPT ![Len(stack)] = f]
  <2>1. stack \in Seq(Frame)
    BY DEF GoodStack
  <2> QED BY <2>1 DEF ReportTestPartResult, Top, Depth
<1>7. Explained(f)
  <2>1. f.result.status = FAILED
    BY <1>4 DEF Reported
  <2> HIDE DEF f
  <2> QED BY <1>4, <1>5, <2>1, HandleErrorsAnswers DEF Explained
<1>8. Asserted(Top) => Asserted(f)
  BY <1>4 DEF Asserted, MessageAfter
<1> HIDE DEF f, frames
<1> DEFINE replaced == [stack EXCEPT ![Len(stack)] = f]
<1>9. /\ GoodStack(replaced)
      /\ Len(replaced) = Len(stack)
      /\ DOMAIN replaced = DOMAIN stack
      /\ replaced # <<>>
      /\ replaced[Len(replaced)] = f
      /\ \A i \in DOMAIN stack : i # Len(stack) => replaced[i] = stack[i]
  BY <1>1, <1>4, <1>5, ReplaceTop
<1> HIDE DEF replaced
<1>10. Len(replaced) \in DOMAIN replaced
  BY <1>9, TopIsGood
<1>11. ExplainedStack(replaced)
  BY <1>7, <1>9, <1>10 DEF ExplainedStack
<1>12. AssertedStack(stack) => AssertedStack(replaced)
  BY <1>2, <1>8, <1>9 DEF AssertedStack
<1>13. frames = replaced
  BY <1>6 DEF replaced
<1>14. assertion \in f.message
  BY <1>4
<1> QED BY <1>4, <1>9, <1>11, <1>12, <1>13, <1>14 DEF frames

(* An exception leaves the innermost user code: the program ends, or the   *)
(* execution remembers the exception.                                      *)
LEMMA ThrowIsGood ==
    ASSUME NEW frames, GoodStack(frames), frames # <<>>,
           frames[Len(frames)].at # "destroyed", ~terminated,
           NEW e \in Exception,
           e.kind = "fatal" => /\ frames[Len(frames)].result = Reported(FAILED)
                               /\ "assert" \in frames[Len(frames)].message,
           terminated \in BOOLEAN,
           Throw(frames, e)
    PROVE  /\ GoodStack(stack')
           /\ Len(stack') = Len(frames)
           /\ stack' # <<>>
           /\ terminated' \in BOOLEAN
           /\ failure' \in BOOLEAN
           /\ terminated' => stack'[Len(stack')].at = "tearDown"
           /\ ~terminated' => /\ DirtyStack(stack')
                              /\ Remembers(stack', frames)
                              /\ e.kind = "nested" => ExplainedStack(stack')
                              /\ /\ e.kind \in {"fatal", "nested"}
                                 /\ "assert" \in MessageAfter(frames[Len(frames)].message, e)
                                 => AssertedStack(stack')
<1> DEFINE n == Len(frames)
           top == frames[n]
           f == [top EXCEPT !.thrown = e,
                            !.at = IF @ = "execute" THEN "tearDown" ELSE "destroyed"]
<1>1. CASE top.at = "tearDown"
  BY <1>1 DEF Throw
<1>2. CASE top.at # "tearDown"
  <2>1. stack' = Unwind(frames, e) /\ terminated' = terminated /\ failure' = TRUE
    BY <1>2 DEF Throw
  <2>2. top \in Frame /\ FrameInv(top) /\ top.old = n - 1 /\ n \in DOMAIN frames
    BY TopIsGood
  <2>3. /\ f \in Frame /\ f.old = n - 1 /\ f.thrown = e /\ f.result = top.result
        /\ f.message = top.message
        /\ f.setUp = top.setUp /\ f.tornDown = top.tornDown
        /\ f.at = IF top.at = "execute" THEN "tearDown" ELSE "destroyed"
    BY <2>2 DEF Frame, Places
  <2>4. top.at \in {"construct", "setUp", "execute"} /\ top.thrown = NoException
    BY <1>2, <2>2 DEF Frame, Places, FrameInv
  <2>5. FrameInv(f)
    BY <2>2, <2>3, <2>4 DEF FrameInv
  <2>6. Unwind(frames, e) = [frames EXCEPT ![n] = f]
    BY <2>2 DEF Unwind
  <2>7. Dirty(f)
    <3>1. e # NoException
      BY DEF Exception, NoException
    <3> QED BY <2>3, <3>1 DEF Dirty
  <2>8. (Explained(top) \/ e.kind = "nested") => Explained(f)
    <3>1. CASE e.kind = "nested"
      BY <2>3, <3>1 DEF Explained, HandleErrors, Reported
    <3>2. CASE Explained(top)
      <4>1. top.result.reported
        BY <2>4, <3>2 DEF Explained, HandleErrors, NoException
      <4>2. f.result.status = FAILED
        BY <2>2, <2>3, <4>1 DEF FrameInv, Quiet, Reported
      <4> HIDE DEF f
      <4> QED BY <2>3, <2>5, <4>2, HandleErrorsAnswers DEF Explained
    <3> QED BY <3>1, <3>2
  <2>9. ~Asserted(top)
    BY <2>4 DEF Asserted, NoException
  <2>10. /\ e.kind \in {"fatal", "nested"}
         /\ "assert" \in MessageAfter(top.message, e)
         => Asserted(f)
    BY <2>3 DEF Asserted
  <2> HIDE DEF f
  <2> DEFINE replaced == [frames EXCEPT ![n] = f]
  <2>11. /\ GoodStack(replaced)
         /\ Len(replaced) = n
         /\ DOMAIN replaced = DOMAIN frames
         /\ replaced # <<>>
         /\ replaced[Len(replaced)] = f
         /\ \A i \in DOMAIN frames : i # n => replaced[i] = frames[i]
    BY <2>3, <2>5, ReplaceTop
  <2> HIDE DEF replaced
  <2>12. n \in DOMAIN replaced /\ replaced[n] = f
    BY <2>2, <2>11
  <2>13. DirtyStack(replaced)
    BY <2>7, <2>12 DEF DirtyStack
  <2>14. Explained(f) => ExplainedStack(replaced)
    BY <2>12 DEF ExplainedStack
  <2>15. Asserted(f) => AssertedStack(replaced)
    BY <2>12 DEF AssertedStack
  <2>16. Remembers(replaced, frames)
    <3>1. ExplainedStack(frames) => ExplainedStack(replaced)
      BY <2>8, <2>11, <2>14 DEF ExplainedStack
    <3>2. AssertedStack(frames) => AssertedStack(replaced)
      BY <2>9, <2>11 DEF AssertedStack
    <3> QED BY <2>13, <3>1, <3>2 DEF Remembers
  <2>17. stack' = replaced
    BY <2>1, <2>6 DEF replaced
  <2> QED BY <2>1, <2>8, <2>10, <2>11, <2>13, <2>14, <2>15, <2>16, <2>17
<1> QED BY <1>1, <1>2

-----------------------------------------------------------------------------
(* The invariant.  While executions are under way it is enough to show     *)
(* that the stack is good, that it is the top's reporter that is installed *)
(* and that failures, explanations and assertions are remembered.          *)
LEMMA InsideStep ==
    ASSUME IInv, stack # <<>>, ~terminated, UNCHANGED answer,
           GoodStack(stack'), stack' # <<>>, reporter' = Len(stack'),
           terminated' \in BOOLEAN, failure' \in BOOLEAN, swallowed' \in BOOLEAN,
           terminated' => stack'[Len(stack')].at = "tearDown",
           UNCHANGED told, reports' \in SUBSET Assertion,
           ~swallowed' /\ ~terminated' =>
               /\ failure' => DirtyStack(stack')
               /\ reports' # {} => ExplainedStack(stack')
               /\ "assert" \in reports' => AssertedStack(stack')
    PROVE  IInv'
<1>1. answer = Pending /\ answer' = Pending /\ told' = {}
  BY DEF IInv, AnswerInv
<1>2. TypeOK'
  BY DEF TypeOK, IInv, GoodStack
<1>3. StackInv'
  BY DEF StackInv, GoodStack, GoodFrame, Depth
<1>4. AnswerInv'
  <2>1. PassedIsClean'
    BY <1>1 DEF PassedIsClean, Pending, Quiet, UNKNOWN, PASSED
  <2> QED BY <1>1, <2>1
          DEF AnswerInv, DirtyStack, ExplainedStack, AssertedStack, Top, Depth
<1> QED BY <1>2, <1>3, <1>4 DEF IInv

(* What went wrong inside is remembered inside.                            *)
LEMMA RememberedInside ==
    ASSUME IInv, stack # <<>>, ~terminated, ~swallowed
    PROVE  /\ failure => DirtyStack(stack)
           /\ reports # {} => ExplainedStack(stack)
           /\ "assert" \in reports => AssertedStack(stack)
<1>1. answer = Pending /\ told = {} /\ ~answer.reported
  BY DEF IInv, AnswerInv, Pending, Quiet
<1> QED BY <1>1 DEF IInv, AnswerInv, DirtyStack, ExplainedStack, AssertedStack

(* What InsideStep and the actions' guards need of the invariant.          *)
LEMMA InsideFacts ==
    ASSUME IInv, stack # <<>>
    PROVE  /\ GoodStack(stack)
           /\ reporter = Len(stack)
           /\ Depth = Len(stack)
           /\ Len(stack) \in Nat \ {0}
           /\ Len(stack) \in DOMAIN stack
           /\ Top = stack[Len(stack)]
           /\ Top \in Frame
           /\ FrameInv(Top)
           /\ Top.old = Len(stack) - 1
           /\ terminated \in BOOLEAN /\ failure \in BOOLEAN /\ swallowed \in BOOLEAN
           /\ reports \in SUBSET Assertion
<1>1. GoodStack(stack) /\ reporter = Len(stack)
  BY GoodStackIsInvariant DEF IInv
<1>2. /\ terminated \in BOOLEAN /\ failure \in BOOLEAN /\ swallowed \in BOOLEAN
      /\ reports \in SUBSET Assertion
  BY DEF IInv, TypeOK
<1> QED BY <1>1, <1>2, TopIsGood DEF Top, Depth

LEMMA InitInvariant == Init => IInv
<1> SUFFICES ASSUME Init PROVE IInv
  OBVIOUS
<1>1. TypeOK
  <2>1. Pending \in Result
    BY DEF Pending, Quiet, Result, Status, UNKNOWN, FAILED
  <2>2. <<>> \in Seq(Frame)
    OBVIOUS
  <2> QED BY <2>1, <2>2 DEF Init, TypeOK
<1>2. StackInv
  BY DEF Init, StackInv, Depth
<1>3. AnswerInv
  BY DEF Init, AnswerInv, PassedIsClean
<1> QED BY <1>1, <1>2, <1>3 DEF IInv

(* A frame as Construct pushes it.                                         *)
LEMMA ConstructIsGood ==
    ASSUME NEW frames, GoodStack(frames),
           frames = <<>> \/ frames[Len(frames)].at # "destroyed",
           reporter = Len(frames), Construct(frames)
    PROVE  /\ GoodStack(stack')
           /\ stack' # <<>>
           /\ reporter' = Len(stack')
           /\ stack'[Len(stack')].at = "construct"
           /\ Remembers(stack', frames)
<1> DEFINE f == [at |-> "construct", result |-> Quiet(PASSED), message |-> {},
                 thrown |-> NoException, calls |-> 0,
                 old |-> reporter, setUp |-> FALSE, tornDown |-> FALSE]
           pushed == Append(frames, f)
<1>1. Len(frames) \in Nat
  BY DEF GoodStack
<1>2. Quiet(PASSED) \in Result
  BY DEF Quiet, PASSED, Result, Status, UNKNOWN, FAILED
<1>3. f \in Frame
  BY <1>1, <1>2, StepBodyAssumption DEF Frame, Places
<1>4. FrameInv(f)
  BY DEF FrameInv, NoException
<1>5. f.old = Len(frames) /\ f.at = "construct"
  OBVIOUS
<1>6. stack' = pushed /\ reporter' = Len(frames) + 1
  BY DEF Construct
<1> HIDE DEF f
<1>7. /\ GoodStack(pushed)
      /\ Len(pushed) = Len(frames) + 1
      /\ DOMAIN frames \subseteq DOMAIN pushed
      /\ pushed # <<>>
      /\ pushed[Len(pushed)] = f
      /\ \A i \in DOMAIN frames : pushed[i] = frames[i]
  BY <1>3, <1>4, <1>5, PushFrame
<1> HIDE DEF pushed
<1>8. Remembers(pushed, frames)
  BY <1>7, SameResultsAreRemembered
<1> QED BY <1>5, <1>6, <1>7, <1>8

LEMMA BeginInvariant == IInv /\ Begin => IInv'
<1> SUFFICES ASSUME IInv, Begin PROVE IInv'
  OBVIOUS
<1>1. stack = <<>> /\ answer = Pending /\ Construct(<<>>)
      /\ UNCHANGED <<answer, told, terminated, failure, reports, swallowed>>
  BY DEF Begin
<1>2. GoodStack(<<>>) /\ reporter = Len(<<>>)
  BY <1>1, GoodStackIsInvariant DEF IInv
<1>3. GoodStack(stack') /\ stack' # <<>> /\ reporter' = Len(stack')
  BY <1>1, <1>2, ConstructIsGood
<1>4. ~terminated
  BY <1>1 DEF IInv, AnswerInv
<1>5. ~swallowed => ~failure /\ reports = {}
  <2>1. DOMAIN stack = {} /\ told = {} /\ ~answer.reported
    BY <1>1 DEF IInv, AnswerInv, Pending, Quiet
  <2> QED BY <1>1, <1>4, <2>1 DEF IInv, AnswerInv
<1>6. TypeOK'
  BY <1>1, <1>3 DEF IInv, TypeOK, GoodStack
<1>7. StackInv'
  BY <1>3 DEF StackInv, GoodStack, GoodFrame, Depth
<1>8. AnswerInv'
  <2>1. PassedIsClean'
    BY <1>1 DEF PassedIsClean, Pending, Quiet, UNKNOWN, PASSED
  <2>2. told = {}
    BY <1>1 DEF IInv, AnswerInv
  <2> QED BY <1>1, <1>3, <1>4, <1>5, <2>1, <2>2 DEF AnswerInv
<1> QED BY <1>6, <1>7, <1>8 DEF IInv

LEMMA FailExpectationInvariant == IInv /\ FailExpectation => IInv'
<1> SUFFICES ASSUME IInv, FailExpectation PROVE IInv'
  OBVIOUS
<1>1. UserCode /\ stack # <<>> /\ ~terminated
  BY DEF FailExpectation, UserCode
<1>2. /\ stack' = ReportTestPartResult(stack, "expect") /\ failure' = TRUE
      /\ reports' = reports \cup {"expect"}
      /\ UNCHANGED <<reporter, answer, told, terminated, swallowed>>
  BY DEF FailExpectation
<1>3. /\ GoodStack(stack') /\ Len(stack') = Len(stack) /\ stack' # <<>>
      /\ stack'[Len(stack')].result = Reported(FAILED)
      /\ ExplainedStack(stack')
      /\ AssertedStack(stack) => AssertedStack(stack')
  <2>1. "expect" \in Assertion
    BY DEF Assertion
  <2> QED BY <1>1, <1>2, <2>1, InsideFacts, ReportIsGood
<1>4. DirtyStack(stack')
  <2>1. Dirty(stack'[Len(stack')])
    BY <1>3 DEF Dirty, Reported
  <2> QED BY <1>3, <2>1, TopIsGood DEF DirtyStack
<1>5. reports' \in SUBSET Assertion /\ ("assert" \in reports' => "assert" \in reports)
  BY <1>1, <1>2, InsideFacts DEF Assertion
<1> QED BY <1>1, <1>2, <1>3, <1>4, <1>5, InsideFacts, RememberedInside, InsideStep

LEMMA FailAssertionInvariant == IInv /\ FailAssertion => IInv'
<1> SUFFICES ASSUME IInv, FailAssertion PROVE IInv'
  OBVIOUS
<1> DEFINE frames == ReportTestPartResult(stack, "assert")
<1>1. UserCode /\ stack # <<>> /\ ~terminated /\ Top.at # "destroyed"
  BY DEF FailAssertion, UserCode
<1>2. /\ Throw(frames, FatalError)
      /\ reports' = reports \cup {"assert"}
      /\ UNCHANGED <<reporter, answer, told, swallowed>>
  BY DEF FailAssertion
<1>3. /\ GoodStack(frames) /\ Len(frames) = Len(stack) /\ frames # <<>>
      /\ frames[Len(frames)].at = Top.at
      /\ frames[Len(frames)].result = Reported(FAILED)
      /\ "assert" \in frames[Len(frames)].message
      /\ ExplainedStack(frames)
  <2>1. "assert" \in Assertion
    BY DEF Assertion
  <2> QED BY <1>1, <2>1, InsideFacts, ReportIsGood
<1> HIDE DEF frames
<1>4. /\ FatalError \in Exception /\ FatalError.kind = "fatal"
      /\ MessageAfter(frames[Len(frames)].message, FatalError) = frames[Len(frames)].message
  BY DEF FatalError, Exception, MessageAfter
<1>5. /\ GoodStack(stack') /\ Len(stack') = Len(frames) /\ stack' # <<>>
      /\ terminated' \in BOOLEAN /\ failure' \in BOOLEAN
      /\ terminated' => stack'[Len(stack')].at = "tearDown"
      /\ ~terminated' => /\ DirtyStack(stack')
                         /\ Remembers(stack', frames)
                         /\ AssertedStack(stack')
  BY <1>1, <1>2, <1>3, <1>4, InsideFacts, ThrowIsGood
<1>6. ~terminated' => ExplainedStack(stack')
  BY <1>3, <1>5 DEF Remembers
<1>7. reports' \in SUBSET Assertion
  BY <1>1, <1>2, InsideFacts DEF Assertion
<1> QED BY <1>1, <1>2, <1>3, <1>5, <1>6, <1>7, InsideFacts, InsideStep

LEMMA ThrowExceptionInvariant == IInv /\ ThrowException => IInv'
<1> SUFFICES ASSUME IInv, ThrowException PROVE IInv'
  OBVIOUS
<1>1. stack # <<>> /\ ~terminated /\ stack[Len(stack)].at # "destroyed"
  BY DEF ThrowException, UserCode, Top, Depth
<1>2. PICK e \in UserException : Throw(stack, e)
  BY DEF ThrowException
<1>3. UNCHANGED <<reporter, answer, told, reports, swallowed>>
  BY DEF ThrowException
<1>4. e \in Exception /\ e.kind # "fatal"
  <2>1. CASE e \in [kind : {"skipped", "pending"}, text : BOOLEAN, message : {{}}]
    BY <2>1 DEF Exception
  <2>2. CASE e = [kind |-> "other", text |-> TRUE, message |-> {}]
    BY <2>2 DEF Exception
  <2> QED BY <2>1, <2>2 DEF UserException
<1>5. /\ GoodStack(stack') /\ Len(stack') = Len(stack) /\ stack' # <<>>
      /\ terminated' \in BOOLEAN /\ failure' \in BOOLEAN
      /\ terminated' => stack'[Len(stack')].at = "tearDown"
      /\ ~terminated' => DirtyStack(stack') /\ Remembers(stack', stack)
  BY <1>1, <1>2, <1>4, InsideFacts, ThrowIsGood
<1>6. ~terminated' /\ ~swallowed =>
          /\ reports # {} => ExplainedStack(stack')
          /\ "assert" \in reports => AssertedStack(stack')
  BY <1>1, <1>5, RememberedInside DEF Remembers
<1> QED BY <1>1, <1>3, <1>5, <1>6, InsideFacts, InsideStep

LEMMA ReturnInvariant == IInv /\ Return => IInv'
<1> SUFFICES ASSUME IInv, Return PROVE IInv'
  OBVIOUS
<1> DEFINE n == Len(stack)
           f == [Top EXCEPT
                   !.at       = NextPlace[@],
                   !.setUp    = @ \/ Top.at = "setUp",
                   !.tornDown = @ \/ Top.at = "tearDown"]
           replaced == [stack EXCEPT ![n] = f]
<1>1. stack # <<>> /\ ~terminated /\ Top.at # "destroyed"
  BY DEF Return, UserCode
<1>2. UNCHANGED <<reporter, answer, told, terminated, failure, reports, swallowed>>
  BY DEF Return
<1>3. stack' = replaced
  <2>1. stack \in Seq(Frame) /\ Depth = n /\ Top = stack[n] /\ n \in DOMAIN stack
    BY <1>1, InsideFacts DEF GoodStack
  <2> QED BY <2>1 DEF Return
<1>4. Top \in Frame /\ FrameInv(Top) /\ Top.old = n - 1
  BY <1>1, InsideFacts
<1>5. Top.at \in {"construct", "setUp", "execute", "tearDown"}
  BY <1>1, <1>4 DEF Frame, Places
<1>6. /\ f.result = Top.result /\ f.thrown = Top.thrown /\ f.message = Top.message
      /\ f.calls = Top.calls /\ f.old = Top.old
      /\ f.at = NextPlace[Top.at]
      /\ f.setUp = (Top.setUp \/ Top.at = "setUp")
      /\ f.tornDown = (Top.tornDown \/ Top.at = "tearDown")
  BY <1>4 DEF Frame
<1>7. f \in Frame
  <2>1. NextPlace[Top.at] \in Places
    BY <1>5 DEF NextPlace, Places
  <2>2. (Top.setUp \/ Top.at = "setUp") \in BOOLEAN
    OBVIOUS
  <2>3. (Top.tornDown \/ Top.at = "tearDown") \in BOOLEAN
    OBVIOUS
  <2> QED BY <1>4, <2>1, <2>2, <2>3 DEF Frame
<1> HIDE DEF f
<1>8. FrameInv(f) /\ f.old = n - 1
  <2>1. CASE Top.at = "construct"
    <3>1. f.at = "setUp"
      BY <2>1, <1>6 DEF NextPlace
    <3>2. ~Top.setUp /\ ~Top.tornDown
      BY <2>1, <1>4 DEF FrameInv
    <3>3. ~f.setUp /\ ~f.tornDown
      BY <3>2, <2>1, <1>6, Zenon
    <3> QED BY <3>1, <3>3, <2>1, <1>4, <1>6 DEF FrameInv
  <2>2. CASE Top.at = "setUp"
    <3>1. f.at = "execute"
      BY <2>2, <1>6 DEF NextPlace
    <3>2. ~Top.setUp /\ ~Top.tornDown
      BY <2>2, <1>4 DEF FrameInv
    <3>3. f.setUp /\ ~f.tornDown
      BY <3>2, <2>2, <1>6, Zenon
    <3> QED BY <3>1, <3>3, <2>2, <1>4, <1>6 DEF FrameInv
  <2>3. CASE Top.at = "execute"
    <3>1. f.at = "tearDown"
      BY <2>3, <1>6 DEF NextPlace
    <3>2. Top.setUp /\ ~Top.tornDown
      BY <2>3, <1>4 DEF FrameInv
    <3>3. f.setUp /\ ~f.tornDown
      BY <3>2, <2>3, <1>6, Zenon
    <3> QED BY <3>1, <3>3, <2>3, <1>4, <1>6 DEF FrameInv
  <2>4. CASE Top.at = "tearDown"
    <3>1. f.at = "destroyed"
      BY <2>4, <1>6 DEF NextPlace
    <3>2. Top.setUp /\ ~Top.tornDown
      BY <2>4, <1>4 DEF FrameInv
    <3>3. f.setUp /\ f.tornDown
      BY <3>2, <2>4, <1>6, Zenon
    <3> QED BY <3>1, <3>3, <2>4, <1>4, <1>6 DEF FrameInv
  <2> QED BY <1>5, <2>1, <2>2, <2>3, <2>4
<1>9. /\ GoodStack(replaced) /\ Len(replaced) = n
      /\ DOMAIN replaced = DOMAIN stack /\ replaced # <<>>
      /\ replaced[Len(replaced)] = f
      /\ \A i \in DOMAIN stack : i # n => replaced[i] = stack[i]
  <2>1. GoodStack(stack)
    BY <1>1, InsideFacts
  <2> QED BY <1>1, <1>7, <1>8, <2>1, ReplaceTop
<1> HIDE DEF replaced
<1>10. Remembers(stack', stack)
  <2>1. Top = stack[n] /\ n \in DOMAIN stack
    BY <1>1, InsideFacts
  <2> QED BY <1>3, <1>6, <1>9, <2>1, SameResultsAreRemembered
<1> QED BY <1>1, <1>2, <1>3, <1>9, <1>10, InsideFacts, RememberedInside, InsideStep
        DEF Remembers

(* Counting a call changes nothing else.                                   *)
LEMMA CalledIsGood ==
    ASSUME IInv, UserCode, Top.calls < MaxCalls
    PROVE  /\ GoodStack(Called)
           /\ Called # <<>>
           /\ Len(Called) = Len(stack)
           /\ Called[Len(Called)].at = Top.at
           /\ Remembers(Called, stack)
<1> DEFINE n == Len(stack)
           f == [Top EXCEPT !.calls = @ + 1]
           replaced == [stack EXCEPT ![n] = f]
<1>1. stack # <<>> /\ Top \in Frame /\ FrameInv(Top) /\ Top.old = n - 1 /\ GoodStack(stack)
  BY InsideFacts DEF UserCode
<1>2. Called = replaced
  <2>1. stack \in Seq(Frame) /\ Depth = n /\ Top = stack[n] /\ n \in DOMAIN stack
    BY <1>1, InsideFacts DEF GoodStack
  <2> QED BY <2>1 DEF Called
<1>3. /\ f.at = Top.at /\ f.result = Top.result /\ f.thrown = Top.thrown
      /\ f.message = Top.message
      /\ f.old = n - 1 /\ f.setUp = Top.setUp /\ f.tornDown = Top.tornDown
  BY <1>1 DEF Frame
<1>4. f \in Frame
  <2>1. Top.calls + 1 \in 0 .. MaxCalls
    BY <1>1, StepBodyAssumption DEF Frame
  <2> QED BY <1>1, <2>1 DEF Frame
<1> HIDE DEF f
<1>5. FrameInv(f)
  BY <1>1, <1>3 DEF FrameInv
<1>6. /\ GoodStack(replaced) /\ Len(replaced) = n
      /\ DOMAIN replaced = DOMAIN stack /\ replaced # <<>>
      /\ replaced[Len(replaced)] = f
      /\ \A i \in DOMAIN stack : i # n => replaced[i] = stack[i]
  BY <1>1, <1>3, <1>4, <1>5, ReplaceTop
<1> HIDE DEF replaced
<1>7. Remembers(Called, stack)
  <2>1. Top = stack[n] /\ n \in DOMAIN stack
    BY <1>1, InsideFacts
  <2> QED BY <1>2, <1>3, <1>6, <2>1, SameResultsAreRemembered
<1> QED BY <1>2, <1>3, <1>6, <1>7

LEMMA CallStepInvariant == IInv /\ CallStep => IInv'
<1> SUFFICES ASSUME IInv, CallStep PROVE IInv'
  OBVIOUS
<1>1. UserCode /\ Top.calls < MaxCalls /\ stack # <<>> /\ ~terminated /\ Top.at # "destroyed"
  BY DEF CallStep, UserCode
<1>2. /\ Construct(Called)
      /\ UNCHANGED <<answer, told, terminated, failure, reports, swallowed>>
  BY DEF CallStep
<1>3. /\ GoodStack(Called) /\ Called # <<>> /\ Len(Called) = Len(stack)
      /\ Called[Len(Called)].at = Top.at
      /\ Remembers(Called, stack)
  BY <1>1, CalledIsGood
<1>4. /\ GoodStack(stack') /\ stack' # <<>> /\ reporter' = Len(stack')
      /\ Remembers(stack', Called)
  BY <1>1, <1>2, <1>3, InsideFacts, ConstructIsGood
<1>5. Remembers(stack', stack)
  BY <1>3, <1>4 DEF Remembers
<1> QED BY <1>1, <1>2, <1>4, <1>5, InsideFacts, RememberedInside, InsideStep DEF Remembers

(* An exception that user code may catch.                                  *)
LEMMA ThrowIntoUserCodeIsGood ==
    ASSUME NEW frames, GoodStack(frames), frames # <<>>,
           frames[Len(frames)].at # "destroyed", ~terminated,
           terminated \in BOOLEAN, swallowed \in BOOLEAN,
           NEW message \in SUBSET Assertion,
           ThrowIntoUserCode(frames, NestedTestCaseRunnerError(message))
    PROVE  /\ GoodStack(stack')
           /\ Len(stack') = Len(frames)
           /\ stack' # <<>>
           /\ terminated' \in BOOLEAN
           /\ failure' \in BOOLEAN
           /\ swallowed' \in BOOLEAN
           /\ terminated' => stack'[Len(stack')].at = "tearDown"
           /\ ~swallowed' => ~swallowed
           /\ ~terminated' /\ ~swallowed' =>
                 /\ DirtyStack(stack')
                 /\ ExplainedStack(stack')
                 /\ AssertedStack(frames) \/ "assert" \in message => AssertedStack(stack')
<1> DEFINE e == NestedTestCaseRunnerError(message)
<1>1. CASE Throw(frames, e) /\ UNCHANGED swallowed
  <2>1. e \in Exception /\ e.kind = "nested"
    BY DEF NestedTestCaseRunnerError, Exception
  <2>2. MessageAfter(frames[Len(frames)].message, e) = message
    BY DEF NestedTestCaseRunnerError, MessageAfter
  <2> HIDE DEF e
  <2> QED BY <1>1, <2>1, <2>2, ThrowIsGood DEF Remembers
<1>2. CASE /\ stack' = frames /\ swallowed' = TRUE
           /\ failure' = TRUE /\ UNCHANGED terminated
  BY <1>2
<1> QED BY <1>1, <1>2 DEF ThrowIntoUserCode

LEMMA CallUnmatchedStepInvariant == IInv /\ CallUnmatchedStep => IInv'
<1> SUFFICES ASSUME IInv, CallUnmatchedStep PROVE IInv'
  OBVIOUS
<1>1. UserCode /\ Top.calls < MaxCalls /\ stack # <<>> /\ ~terminated /\ Top.at # "destroyed"
  BY DEF CallUnmatchedStep, UserCode
<1>2. /\ ThrowIntoUserCode(Called, NestedTestCaseRunnerError({}))
      /\ UNCHANGED <<reporter, answer, told, reports>>
  BY DEF CallUnmatchedStep
<1>3. /\ GoodStack(Called) /\ Called # <<>> /\ Len(Called) = Len(stack)
      /\ Called[Len(Called)].at = Top.at
      /\ Remembers(Called, stack)
  BY <1>1, CalledIsGood
<1>4. /\ GoodStack(stack') /\ Len(stack') = Len(Called) /\ stack' # <<>>
      /\ terminated' \in BOOLEAN /\ failure' \in BOOLEAN /\ swallowed' \in BOOLEAN
      /\ terminated' => stack'[Len(stack')].at = "tearDown"
      /\ ~swallowed' => ~swallowed
      /\ ~terminated' /\ ~swallowed' =>
            /\ DirtyStack(stack')
            /\ ExplainedStack(stack')
            /\ AssertedStack(Called) => AssertedStack(stack')
  <2>1. {} \in SUBSET Assertion
    OBVIOUS
  <2> QED BY <1>1, <1>2, <1>3, <2>1, InsideFacts, ThrowIntoUserCodeIsGood
<1>5. ~terminated' /\ ~swallowed' /\ "assert" \in reports => AssertedStack(stack')
  BY <1>1, <1>3, <1>4, RememberedInside DEF Remembers
<1> QED BY <1>1, <1>2, <1>3, <1>4, <1>5, InsideFacts, InsideStep

(* The execution that ends is the outermost one.                           *)
LEMMA ReturnAnswerInvariant == IInv /\ ReturnAnswer => IInv'
<1> SUFFICES ASSUME IInv, ReturnAnswer PROVE IInv'
  OBVIOUS
<1>1. /\ Depth = 1 /\ Top.at = "destroyed" /\ stack' = <<>>
      /\ answer' = FinalResult /\ told' = FinalMessage
      /\ reporter' = Top.old /\ UNCHANGED <<terminated, failure, reports, swallowed>>
  BY DEF ReturnAnswer, RestoredReporter
<1>2. stack # <<>>
  BY <1>1 DEF Depth
<1>3. /\ Top \in Frame /\ FrameInv(Top) /\ Top.old = 0 /\ Top = stack[1]
      /\ stack \in Seq(Frame) /\ Len(stack) = 1
  <2>1. /\ Top \in Frame /\ FrameInv(Top) /\ Top.old = Len(stack) - 1 /\ Depth = Len(stack)
        /\ Top = stack[Len(stack)] /\ GoodStack(stack)
    BY <1>2, InsideFacts
  <2>2. Len(stack) = 1
    BY <1>1, <2>1
  <2>3. Top.old = 0 /\ Top = stack[1]
    BY <2>1, <2>2
  <2> QED BY <2>1, <2>2, <2>3 DEF GoodStack
<1>4. /\ answer' \in Outcome /\ answer' # Pending
      /\ answer'.status = PASSED => ~Dirty(Top)
      /\ Dirty(Top) => answer' # Quiet(PASSED)
  BY <1>1, <1>3, HandleErrorsAnswers DEF FinalResult
<1>5. ~terminated
  BY <1>1, <1>2 DEF IInv, AnswerInv
<1>6. ~swallowed => /\ failure => Dirty(Top)
                    /\ reports # {} => answer'.reported
                    /\ "assert" \in reports => "assert" \in told'
  <2>1. DOMAIN stack = {1}
    BY <1>3
  <2>2. ~swallowed => /\ failure => Dirty(Top)
                      /\ reports # {} => Explained(Top)
                      /\ "assert" \in reports => Asserted(Top)
    BY <1>2, <1>3, <1>5, <2>1, RememberedInside
    DEF DirtyStack, ExplainedStack, AssertedStack
  <2>3. Explained(Top) => answer'.reported
    BY <1>1 DEF Explained, FinalResult
  <2>4. Asserted(Top) => "assert" \in told'
    BY <1>1 DEF Asserted, FinalMessage
  <2> QED BY <2>2, <2>3, <2>4
<1>7. TypeOK'
  <2>1. answer' \in Result
    BY <1>4, OutcomesAreResults
  <2>2. told' \in SUBSET Assertion
    BY <1>1, <1>3, MessagesAreAssertions DEF FinalMessage
  <2> QED BY <1>1, <1>3, <2>1, <2>2 DEF IInv, TypeOK
<1>8. StackInv'
  BY <1>1, <1>3 DEF StackInv, Depth
<1>9. AnswerInv'
  BY <1>1, <1>4, <1>5, <1>6 DEF AnswerInv, PassedIsClean
<1> QED BY <1>7, <1>8, <1>9 DEF IInv

(* The execution that ends is a nested one.                                *)
LEMMA ReturnToCallerInvariant == IInv /\ ReturnToCaller => IInv'
<1> SUFFICES ASSUME IInv, ReturnToCaller PROVE IInv'
  OBVIOUS
<1>1. /\ Depth > 1 /\ Top.at = "destroyed" /\ reporter' = Top.old
      /\ UNCHANGED <<answer, told, reports>>
  BY DEF ReturnToCaller, RestoredReporter
<1>2. stack # <<>> /\ Len(stack) > 1
  BY <1>1 DEF Depth
<1>3. /\ GoodStack(stack) /\ Depth = Len(stack) /\ Len(stack) \in Nat /\ stack \in Seq(Frame)
      /\ Top = stack[Len(stack)] /\ Top \in Frame /\ FrameInv(Top)
      /\ Top.old = Len(stack) - 1
      /\ terminated \in BOOLEAN /\ failure \in BOOLEAN /\ swallowed \in BOOLEAN
  BY <1>2, InsideFacts DEF GoodStack
<1>4. ~terminated
  BY <1>1, <1>2 DEF IInv, AnswerInv
<1>5. /\ GoodStack(Callers) /\ Len(Callers) = Len(stack) - 1 /\ Callers # <<>>
      /\ DOMAIN Callers = 1 .. Len(stack) - 1
      /\ Callers[Len(Callers)].at # "destroyed"
      /\ \A i \in DOMAIN Callers : Callers[i] = stack[i]
  BY <1>2, <1>3, PopFrame DEF Callers
<1>6. CASE NestedStepPassed
  <2>1. stack' = Callers /\ UNCHANGED <<terminated, failure, swallowed>>
    BY <1>6 DEF ReturnToCaller
  <2>2. ~Dirty(Top) /\ ~Explained(Top) /\ ~Asserted(Top)
    <3>1. FinalResult \in Outcome /\ FinalResult.status = PASSED /\ ~Dirty(Top)
      BY <1>3, <1>6, HandleErrorsAnswers DEF NestedStepPassed, FinalResult
    <3>2. ~FinalResult.reported
      BY <3>1 DEF Outcome, Quiet, Reported, PASSED, SKIPPED, PENDING, FAILED
    <3>3. Top.thrown = NoException
      BY <3>1 DEF Dirty
    <3> QED BY <3>1, <3>2, <3>3 DEF Explained, Asserted, FinalResult, NoException
  <2>3. Remembers(Callers, stack)
    BY <1>3, <1>5, <2>2 DEF Remembers, DirtyStack, ExplainedStack, AssertedStack
  <2> QED BY <1>1, <1>2, <1>3, <1>4, <1>5, <2>1, <2>3, InsideFacts, RememberedInside, InsideStep
          DEF Remembers
<1>7. CASE ~NestedStepPassed
  <2>1. ThrowIntoUserCode(Callers, NestedTestCaseRunnerError(FinalMessage))
    BY <1>7 DEF ReturnToCaller
  <2>2. FinalMessage \in SUBSET Assertion
    BY <1>3, MessagesAreAssertions DEF FinalMessage
  <2>3. /\ GoodStack(stack') /\ Len(stack') = Len(Callers) /\ stack' # <<>>
        /\ terminated' \in BOOLEAN /\ failure' \in BOOLEAN /\ swallowed' \in BOOLEAN
        /\ terminated' => stack'[Len(stack')].at = "tearDown"
        /\ ~swallowed' => ~swallowed
        /\ ~terminated' /\ ~swallowed' =>
              /\ DirtyStack(stack')
              /\ ExplainedStack(stack')
              /\ AssertedStack(Callers) \/ "assert" \in FinalMessage => AssertedStack(stack')
    BY <1>3, <1>4, <1>5, <2>1, <2>2, ThrowIntoUserCodeIsGood
  <2>4. AssertedStack(stack) => AssertedStack(Callers) \/ "assert" \in FinalMessage
    <3>1. Asserted(Top) => "assert" \in FinalMessage
      BY DEF Asserted, FinalMessage
    <3> QED BY <1>3, <1>5, <3>1 DEF AssertedStack
  <2>5. ~terminated' /\ ~swallowed' /\ "assert" \in reports => AssertedStack(stack')
    BY <1>2, <1>4, <2>3, <2>4, RememberedInside
  <2> QED BY <1>1, <1>2, <1>3, <1>4, <1>5, <2>3, <2>5, InsideFacts, InsideStep
<1> QED BY <1>6, <1>7

-----------------------------------------------------------------------------
LEMMA NextInvariant == IInv /\ [Next]_vars => IInv'
<1> SUFFICES ASSUME IInv, [Next]_vars PROVE IInv'
  OBVIOUS
<1>1. CASE Begin
  BY <1>1, BeginInvariant
<1>2. CASE FailExpectation
  BY <1>2, FailExpectationInvariant
<1>3. CASE FailAssertion
  BY <1>3, FailAssertionInvariant
<1>4. CASE ThrowException
  BY <1>4, ThrowExceptionInvariant
<1>5. CASE Return
  BY <1>5, ReturnInvariant
<1>6. CASE CallStep
  BY <1>6, CallStepInvariant
<1>7. CASE CallUnmatchedStep
  BY <1>7, CallUnmatchedStepInvariant
<1>8. CASE ReturnAnswer
  BY <1>8, ReturnAnswerInvariant
<1>9. CASE ReturnToCaller
  BY <1>9, ReturnToCallerInvariant
<1>10. CASE UNCHANGED vars
  BY <1>10 DEF IInv, TypeOK, StackInv, AnswerInv, PassedIsClean, Depth, Top, vars
<1> QED
  BY <1>1, <1>2, <1>3, <1>4, <1>5, <1>6, <1>7, <1>8, <1>9, <1>10 DEF Next

(* The invariant of ConstructAndExecute, for any number and any depth of   *)
(* nested steps.                                                           *)
THEOREM BodyInvariance == Spec => []IInv
BY InitInvariant, NextInvariant, PTL DEF Spec

(* The variables keep their types.                                         *)
THEOREM BodyTypeCorrect == Spec => []TypeOK
<1>1. IInv => TypeOK
  BY DEF IInv
<1> QED BY <1>1, BodyInvariance, PTL

(* User code comes back with one of the six results that TestCaseRunner    *)
(* and TestRun are checked for.                                            *)
THEOREM AnswersAreOutcomes == Spec => []AnswerIsAnOutcome
<1>1. IInv => AnswerIsAnOutcome
  BY DEF IInv, AnswerInv, AnswerIsAnOutcome
<1> QED BY <1>1, BodyInvariance, PTL

(* A body that passed had no failed assertion and no exception, unless it  *)
(* caught the exception of a nested step.                                  *)
THEOREM PassedBodiesAreClean == Spec => []PassedIsClean
<1>1. IInv => PassedIsClean
  BY DEF IInv, AnswerInv
<1> QED BY <1>1, BodyInvariance, PTL

(* TearDown ran exactly for the bodies whose SetUp completed.              *)
THEOREM SetUpsAreTornDown == Spec => []TearDownFollowsSetUp
<1>1. IInv => TearDownFollowsSetUp
  BY DEF IInv, StackInv, FrameInv, TearDownFollowsSetUp
<1> QED BY <1>1, BodyInvariance, PTL

(* Assertions are reported to the innermost execution.                     *)
THEOREM AssertionsAreRouted == Spec => []ReporterIsInnermost
<1>1. IInv => ReporterIsInnermost
  BY DEF IInv, StackInv, ReporterIsInnermost
<1> QED BY <1>1, BodyInvariance, PTL

(* Only a body's own Skipped() or Pending() makes it skipped or pending.   *)
THEOREM NestedSkipsFail == Spec => []OnlyOwnSkipsCount
<1>1. IInv => OnlyOwnSkipsCount
  <2> SUFFICES ASSUME IInv, NEW i \in DOMAIN stack,
                      HandleErrors(stack[i].result, stack[i].thrown).status \in {SKIPPED, PENDING}
               PROVE  stack[i].thrown.kind \in {"skipped", "pending"}
    BY DEF OnlyOwnSkipsCount
  <2>1. stack[i] \in Frame /\ FrameInv(stack[i])
    BY DEF IInv, TypeOK, StackInv
  <2> QED BY <2>1, HandleErrorsAnswers
<1> QED BY <1>1, BodyInvariance, PTL

(* Whatever is thrown, torn down and called after it: an assertion that    *)
(* failed, in the step or in any nested step, leaves the runner an         *)
(* explanation, and the text of the ASSERT_ that stopped a step is in it,  *)
(* unless some code caught the exception of a nested step.                 *)
THEOREM FailuresAreExplained == Spec => []FailedAssertionIsTold
<1>1. IInv => FailedAssertionIsTold
  <2> SUFFICES ASSUME IInv, answer # Pending, ~swallowed
               PROVE  /\ reports # {} => answer.reported
                      /\ "assert" \in reports => "assert" \in told
    BY DEF FailedAssertionIsTold
  <2>1. stack = <<>>
    BY DEF IInv, AnswerInv
  <2>2. ~terminated /\ DOMAIN stack = {}
    BY <2>1 DEF IInv, AnswerInv
  <2> QED BY <2>2 DEF IInv, AnswerInv
<1> QED BY <1>1, BodyInvariance, PTL
=============================================================================
