--------------------- MODULE AcceptanceScenario_proofs ---------------------
(***************************************************************************)
(* Proofs about one call of RunProcess (Subprocess) and about the scenario *)
(* that makes such calls while another process builds in the same sandbox  *)
(* (AcceptanceScenario), for pipes of any capacity, outputs of any length  *)
(* and any set of step sequences.                                          *)
(***************************************************************************)
EXTENDS AcceptanceScenario, TLAPS

(***************************************************************************)
(* RunProcess                                                              *)
(***************************************************************************)

(* An end of file stays one: nobody who could write is left.               *)
LEMMA EndIsForGood ==
    ASSUME SubprocessInv, NEW s \in Streams, AtEnd(s), child \in {"setup", "running"} \/ heir
    PROVE  FALSE
BY DEF SubprocessInv, WriterInv, AtEnd, Writers

LEMMA InitialValues ==
    /\ Nothing \in [Streams -> 0..MaxWrites]
    /\ Nothing \in [Streams -> 0..Capacity]
    /\ [s \in Streams |-> {}] \in [Streams -> SUBSET {"child", "heir"}]
    /\ Zero \in Statuses
    /\ 0 \in {0, 1, 127, 141}
BY SubprocessAssumption DEF Nothing, Zero, Statuses

LEMMA InitSubprocess == SubprocessInit => SubprocessInv
<1> SUFFICES ASSUME SubprocessInit PROVE SubprocessInv OBVIOUS
<1> USE SubprocessAssumption DEF SubprocessInit
<1>1. SubprocessTypeOK
      BY InitialValues DEF SubprocessTypeOK, Places
<1>2. HandleInv
      BY DEF HandleInv, OnlyTwoLeaks
<1>3. WriterInv
      BY DEF WriterInv
<1>4. StreamInv
      BY DEF StreamInv, Nothing
<1> QED BY <1>1, <1>2, <1>3, <1>4 DEF SubprocessInv

(* A call begins with empty pipes and no process.                          *)
LEMMA StartKeeps == ASSUME SubprocessInv, Start PROVE SubprocessInv'
<1> USE SubprocessAssumption DEF SubprocessInv, Start
<1>1. SubprocessTypeOK'
      BY InitialValues DEF SubprocessTypeOK, Places
<1>2. HandleInv'
      BY DEF HandleInv, OnlyTwoLeaks
<1>3. WriterInv'
      BY DEF WriterInv
<1>4. StreamInv'
      BY DEF StreamInv, Nothing, SubprocessTypeOK
<1> QED BY <1>1, <1>2, <1>3, <1>4

(* The sets of descriptors that the places of RunProcess have in hand.     *)
LEMMA HandleSets ==
    /\ FirstPipe # {}
    /\ {"out"} \X {"read", "write"} = FirstPipe
    /\ FirstPipe \union ({"err"} \X {"read", "write"}) = Pipes
    /\ Pipes \ WriteEnds = ReadEnds
    /\ (Pipes \union ProcessHandle) \ WriteEnds = ReadEnds \union ProcessHandle
    /\ (ReadEnds \union ProcessHandle) \ ReadEnds = ProcessHandle
    /\ \A s \in Streams : /\ << s, "read" >> \in ReadEnds
                          /\ << s, "write" >> \notin ReadEnds \union ProcessHandle
                          /\ << s, "write" >> \in Pipes
<1> USE DEF ReadEnds, WriteEnds, Pipes, FirstPipe, ProcessHandle, Streams
<1>1. FirstPipe # {} /\ {"out"} \X {"read", "write"} = FirstPipe
  <2>1. << "out", "read" >> \in FirstPipe
        OBVIOUS
  <2> QED BY <2>1
<1>2. FirstPipe \union ({"err"} \X {"read", "write"}) = Pipes
      OBVIOUS
<1>3. Pipes \ WriteEnds = ReadEnds
      OBVIOUS
<1>4. (Pipes \union ProcessHandle) \ WriteEnds = ReadEnds \union ProcessHandle
      OBVIOUS
<1>5. (ReadEnds \union ProcessHandle) \ ReadEnds = ProcessHandle
      OBVIOUS
<1>6. \A s \in Streams : /\ << s, "read" >> \in ReadEnds
                         /\ << s, "write" >> \notin ReadEnds \union ProcessHandle
                         /\ << s, "write" >> \in Pipes
      OBVIOUS
<1> QED BY <1>1, <1>2, <1>3, <1>4, <1>5, <1>6

(* An exception keeps the invariant if what it leaves open is accounted    *)
(* for.                                                                    *)
LEMMA ThrowKeeps ==
    ASSUME SubprocessInv, NEW closed, Throw(closed),
           \/ handles' = {}
           \/ windows /\ handles' = Pipes /\ child = "none"
           \/ windows /\ handles' = ReadEnds \union ProcessHandle /\ child # "none"
    PROVE  SubprocessInv'
<1> USE DEF SubprocessInv, Throw, Goto, childVars
<1>1. SubprocessTypeOK'
      BY DEF SubprocessTypeOK, Places, Pipes
<1>2. HandleInv'
      BY DEF HandleInv, OnlyTwoLeaks
<1>3. WriterInv'
      BY DEF WriterInv
<1>4. StreamInv'
      BY DEF StreamInv
<1> QED BY <1>1, <1>2, <1>3, <1>4

LEMMA OpenPipeKeeps == ASSUME SubprocessInv, OpenPipe PROVE SubprocessInv'
<1> at = "pipes" /\ handles \in {{}, FirstPipe}
    BY DEF OpenPipe, SubprocessInv, HandleInv
<1>1. CASE Throw(FirstPipe)
  <2>1. handles' = {}
        BY <1>1 DEF Throw, FirstPipe, Pipes, ReadEnds, WriteEnds, Streams
  <2> QED BY <1>1, <2>1, ThrowKeeps
<1>2. CASE ~Throw(FirstPipe)
  <2> USE <1>2 DEF SubprocessInv, OpenPipe, Goto, childVars
  <2> DEFINE s == IF handles = {} THEN "out" ELSE "err"
  <2>1. /\ handles' = handles \union ({s} \X {"read", "write"})
        /\ at' = IF s = "err" THEN "configure" ELSE "pipes"
        /\ UNCHANGED << windows, ready, received, exitCode, child, status, heir,
                        writing, writers, pipe, written >>
        OBVIOUS
  <2>2. \/ at' = "pipes" /\ handles' = FirstPipe
        \/ at' = "configure" /\ handles' = Pipes
        BY <2>1, HandleSets
  <2>3. SubprocessTypeOK'
        BY <2>1, <2>2, HandleSets DEF SubprocessTypeOK, Places
  <2>4. HandleInv'
        BY <2>1, <2>2 DEF HandleInv, OnlyTwoLeaks
  <2>5. WriterInv'
        BY <2>1, <2>2 DEF WriterInv
  <2>6. StreamInv'
        BY <2>1, <2>2 DEF StreamInv
  <2> QED BY <2>3, <2>4, <2>5, <2>6
<1> QED BY <1>1, <1>2

LEMMA ConfigureKeeps == ASSUME SubprocessInv, Configure PROVE SubprocessInv'
<1> at = "configure" /\ handles = Pipes
    BY DEF Configure, SubprocessInv, HandleInv
<1>1. CASE Throw(Pipes)
  <2>1. handles' = {}
        BY <1>1 DEF Throw
  <2> QED BY <1>1, <2>1, ThrowKeeps
<1>2. CASE ~Throw(Pipes)
  <2> USE <1>2 DEF SubprocessInv, Configure, Goto, childVars
  <2>2. SubprocessTypeOK'
        BY DEF SubprocessTypeOK, Places
  <2>3. HandleInv'
        BY DEF HandleInv, OnlyTwoLeaks
  <2>4. WriterInv'
        BY DEF WriterInv
  <2>5. StreamInv'
        BY DEF StreamInv
  <2> QED BY <2>2, <2>3, <2>4, <2>5
<1> QED BY <1>1, <1>2

(* There is no child yet when an argument cannot be converted.             *)
LEMMA LaunchKeeps == ASSUME SubprocessInv, Launch PROVE SubprocessInv'
<1> at = "launch" /\ handles = Pipes /\ child = "none"
    BY DEF Launch, SubprocessInv, HandleInv, WriterInv
<1>1. CASE Throw(Pipes)
  <2>1. handles' = {}
        BY <1>1 DEF Throw
  <2> QED BY <1>1, <2>1, ThrowKeeps
<1>2. CASE windows /\ Throw({})
  <2>1. handles' = Pipes
        BY <1>2 DEF Throw
  <2> QED BY <1>2, <2>1, ThrowKeeps
<1>3. CASE ~Throw(Pipes) /\ ~(windows /\ Throw({}))
  <2> USE <1>3 DEF SubprocessInv, Launch, Goto, Fork, CreateProcessW
  <2>1. /\ at' = "detach"
        /\ handles' = Pipes \union (IF windows THEN ProcessHandle ELSE {})
        /\ child' \in {"setup", "running"}
        OBVIOUS
  <2>2. SubprocessTypeOK'
        BY <2>1 DEF SubprocessTypeOK, Places
  <2>3. HandleInv'
        BY <2>1 DEF HandleInv, OnlyTwoLeaks
  <2>4. WriterInv'
        BY <2>1 DEF WriterInv
  <2>5. StreamInv'
        BY <2>1 DEF StreamInv
  <2> QED BY <2>2, <2>3, <2>4, <2>5
<1> QED BY <1>1, <1>2, <1>3

(* Both read ends are open when the waiting begins, and no write end is.   *)
LEMMA DetachKeeps == ASSUME SubprocessInv, Detach PROVE SubprocessInv'
<1> USE DEF SubprocessInv, Detach, Goto, childVars
<1>1. handles' = ReadEnds \union (IF windows THEN ProcessHandle ELSE {})
      BY HandleSets DEF HandleInv
<1>2. SubprocessTypeOK'
      BY <1>1 DEF SubprocessTypeOK, Places, Pipes
<1>3. HandleInv'
      BY <1>1 DEF HandleInv, OnlyTwoLeaks
<1>4. WriterInv'
      BY DEF WriterInv
<1>5. StreamInv'
  <2>1. ASSUME NEW s \in Streams PROVE Open(s)'
        BY <1>1, HandleSets DEF Open
  <2> QED BY <2>1 DEF StreamInv
<1> QED BY <1>2, <1>3, <1>4, <1>5

(* There is a child when a reader thread cannot be started.                *)
LEMMA StartReadersKeeps == ASSUME SubprocessInv, StartReaders PROVE SubprocessInv'
<1> /\ at = "readers" /\ windows /\ child # "none"
    /\ handles = ReadEnds \union ProcessHandle
    BY DEF StartReaders, SubprocessInv, HandleInv, WriterInv
<1>1. CASE Throw({})
  <2>1. handles' = ReadEnds \union ProcessHandle
        BY <1>1 DEF Throw
  <2> QED BY <1>1, <2>1, ThrowKeeps
<1>2. CASE ~Throw({})
  <2> USE DEF SubprocessInv, childVars
  <2>0. /\ \/ at' = "terminated" /\ handles' = {} /\ UNCHANGED ready
           \/ at' = "drain" /\ ready' = Streams /\ UNCHANGED handles
        /\ UNCHANGED << windows, received, exitCode, childVars >>
        BY <1>2 DEF StartReaders, Goto
  <2>1. SubprocessTypeOK'
        BY <2>0 DEF SubprocessTypeOK, Places
  <2>2. HandleInv'
        BY <2>0 DEF HandleInv, OnlyTwoLeaks
  <2>3. WriterInv'
        BY <2>0 DEF WriterInv
  <2>4. StreamInv'
        BY <2>0 DEF StreamInv
  <2> QED BY <2>1, <2>2, <2>3, <2>4
<1> QED BY <1>1, <1>2

(* What ~Pipe closes is all there is on POSIX.                             *)
LEMMA DrainThrowKeeps ==
    ASSUME SubprocessInv, at \in {"poll", "drain"}, ~windows, Throw(Pipes)
    PROVE  SubprocessInv'
<1>1. handles' = {}
      BY DEF Throw, SubprocessInv, HandleInv, Pipes
<1> QED BY <1>1, ThrowKeeps

LEMMA PollKeeps == ASSUME SubprocessInv, Poll PROVE SubprocessInv'
<1> at = "poll" /\ ~windows
    BY DEF Poll, SubprocessInv, StreamInv
<1>1. CASE Throw(Pipes)
      BY <1>1, DrainThrowKeeps
<1>2. CASE ~Throw(Pipes)
  <2> USE <1>2 DEF SubprocessInv, Poll, Goto, childVars
  <2>1. SubprocessTypeOK'
        BY DEF SubprocessTypeOK, Places
  <2>2. HandleInv'
    <3>1. handles \subseteq ReadEnds
          BY DEF HandleInv
    <3>2. (\A s \in Streams : ~Open(s)) => handles = {}
          BY <3>1 DEF Open, ReadEnds
    <3> QED BY <3>1, <3>2 DEF HandleInv, OnlyTwoLeaks
  <2>3. WriterInv'
        BY DEF WriterInv
  <2>4. StreamInv'
        BY DEF StreamInv, Open, AtEnd, Writers
  <2> QED BY <2>1, <2>2, <2>3, <2>4
<1> QED BY <1>1, <1>2

(* A byte moves from the pipe to the result.                               *)
LEMMA ReadKeeps ==
    ASSUME SubprocessInv, at = "drain", NEW s \in Streams, Read(s) PROVE SubprocessInv'
<1> USE SubprocessAssumption DEF SubprocessInv, Read
<1>1. SubprocessTypeOK'
  <2>1. /\ pipe[s] \in 1..Capacity
        /\ written[s] = received[s] + pipe[s]
        /\ received[s] \in 0..MaxWrites
        /\ written[s] \in 0..MaxWrites
        BY DEF SubprocessTypeOK, StreamInv
  <2>2. pipe[s] - 1 \in 0..Capacity /\ received[s] + 1 \in 0..MaxWrites
        BY <2>1
  <2> QED BY <2>2 DEF SubprocessTypeOK
<1>2. HandleInv'
      BY DEF HandleInv, OnlyTwoLeaks
<1>3. WriterInv'
      BY DEF WriterInv
<1>4. StreamInv'
  <2>1. \A t \in Streams : written'[t] = received'[t] + pipe'[t]
        BY DEF StreamInv, SubprocessTypeOK
  <2>2. ASSUME NEW t \in Streams, AtEnd(t) PROVE AtEnd(t)'
        BY <2>2 DEF AtEnd, Writers, SubprocessTypeOK
  <2> QED BY <2>1, <2>2 DEF StreamInv, Open
<1> QED BY <1>1, <1>2, <1>3, <1>4

(* Only at its end is a stream closed for good.                            *)
LEMMA DrainKeeps == ASSUME SubprocessInv, NEW s \in Streams, Drain(s) PROVE SubprocessInv'
<1> at = "drain" /\ s \in ready
    BY DEF Drain
<1>1. CASE ~windows /\ Throw(Pipes)
      BY <1>1, DrainThrowKeeps
<1>2. CASE Read(s)
      BY <1>2, ReadKeeps
<1>3. CASE /\ AtEnd(s) /\ Leave(s) /\ Close(s)
           /\ UNCHANGED << windows, received, exitCode, childVars >>
  <2> USE <1>3 DEF SubprocessInv, Leave, Goto, childVars
  <2>1. SubprocessTypeOK'
        BY DEF SubprocessTypeOK, Places, Close
  <2>2. HandleInv'
    <3>1. CASE windows
      <4>1. handles = ReadEnds \union ProcessHandle
            BY <3>1 DEF HandleInv
      <4>2. \/ at' = "drain" /\ handles' = ReadEnds \union ProcessHandle
            \/ at' = "wait" /\ handles' = ProcessHandle
            BY <3>1, <4>1, HandleSets DEF Close
      <4> QED BY <3>1, <4>2 DEF HandleInv, OnlyTwoLeaks
    <3>2. CASE ~windows
      <4>1. handles' \subseteq ReadEnds /\ at' \in {"poll", "drain"}
            BY <3>2 DEF HandleInv, Close
      <4> QED BY <3>2, <4>1 DEF HandleInv, OnlyTwoLeaks
    <3> QED BY <3>1, <3>2
  <2>3. WriterInv'
        BY DEF WriterInv
  <2>4. \A t \in Streams : AtEnd(t) => AtEnd(t)'
        BY DEF AtEnd, Writers, Close
  <2>5. \A t \in Streams : (IF windows' THEN t \notin ready' ELSE ~Open(t)') => AtEnd(t)'
    <3> TAKE t \in Streams
    <3>1. CASE t = s
          BY <3>1, <2>4
    <3>2. CASE t # s
      <4>1. ~windows => (Open(t)' <=> Open(t))
            BY <3>2 DEF Close, Open
      <4>2. t \in ready' <=> t \in ready
            BY <3>2
      <4> QED BY <4>1, <4>2, <2>4 DEF StreamInv
    <3> QED BY <3>1, <3>2
  <2>6. \A t \in Streams : written'[t] = received'[t] + pipe'[t]
        BY DEF StreamInv
  <2>7. StreamInv'
        BY <2>5, <2>6 DEF StreamInv
  <2> QED BY <2>1, <2>2, <2>3, <2>7
<1>4. CASE /\ ~windows /\ pipe[s] = 0 /\ ~AtEnd(s) /\ Leave(s)
           /\ UNCHANGED << windows, handles, received, exitCode, childVars >>
  <2> USE <1>4 DEF SubprocessInv, Leave, Goto, childVars
  <2>1. SubprocessTypeOK'
        BY DEF SubprocessTypeOK, Places
  <2>2. HandleInv'
        BY DEF HandleInv, OnlyTwoLeaks
  <2>3. WriterInv'
        BY DEF WriterInv
  <2>4. StreamInv'
        BY DEF StreamInv, AtEnd, Writers, Open
  <2> QED BY <2>1, <2>2, <2>3, <2>4
<1> QED BY <1>1, <1>2, <1>3, <1>4 DEF Drain

LEMMA WaitKeeps == ASSUME SubprocessInv, Wait PROVE SubprocessInv'
<1> at = "wait" /\ handles = IF windows THEN ProcessHandle ELSE {}
    BY DEF Wait, SubprocessInv, HandleInv
<1>1. CASE Throw(ProcessHandle)
  <2>1. handles' = {}
        BY <1>1 DEF Throw
  <2> QED BY <1>1, <2>1, ThrowKeeps
<1>2. CASE ~Throw(ProcessHandle)
  <2> USE <1>2 DEF SubprocessInv, Wait, Goto
  <2>1. SubprocessTypeOK'
        BY DEF SubprocessTypeOK, Places, Statuses, ExitCode
  <2>2. HandleInv'
        BY DEF HandleInv, OnlyTwoLeaks
  <2>3. WriterInv'
        BY DEF WriterInv
  <2>4. StreamInv'
        BY DEF StreamInv, AtEnd, Writers, ExitCode
  <2> QED BY <2>1, <2>2, <2>3, <2>4
<1> QED BY <1>1, <1>2

LEMMA CallerKeeps == ASSUME SubprocessInv, CallerStep PROVE SubprocessInv'
BY OpenPipeKeeps, ConfigureKeeps, LaunchKeeps, DetachKeeps, StartReadersKeeps, PollKeeps,
   DrainKeeps, WaitKeeps DEF CallerStep

(* A process ends: it writes no more.                                      *)
LEMMA EndKeeps ==
    ASSUME SubprocessInv, child \in {"setup", "running"}, NEW st \in Statuses, ChildEnds(st)
    PROVE  SubprocessInv'
<1> USE DEF SubprocessInv, ChildEnds, callerVars
<1>1. SubprocessTypeOK'
      BY DEF SubprocessTypeOK, Nobody
<1>2. HandleInv'
      BY DEF HandleInv, OnlyTwoLeaks
<1>3. WriterInv'
      BY DEF WriterInv, Nobody, SubprocessTypeOK
<1>4. StreamInv'
      BY DEF StreamInv, AtEnd, Writers, Open, WriterInv, SubprocessTypeOK
<1> QED BY <1>1, <1>2, <1>3, <1>4

(* Somebody who holds both write ends writes to one of them.               *)
LEMMA FillKeeps ==
    ASSUME SubprocessInv, NEW s \in Streams, Fill(s), written[s] < MaxWrites,
           child \in {"setup", "running"} \/ heir,
           writing' \in {writing, Nobody},
           writing' = s => written[s] + 1 < MaxWrites,
           UNCHANGED << windows, callerVars, child, status, heir, writers >>
    PROVE  SubprocessInv'
<1> USE SubprocessAssumption DEF SubprocessInv, Fill, callerVars
<1>1. SubprocessTypeOK'
  <2>1. pipe[s] + 1 \in 0..Capacity /\ written[s] + 1 \in 0..MaxWrites
        BY DEF SubprocessTypeOK
  <2> QED BY <2>1 DEF SubprocessTypeOK
<1>2. HandleInv'
      BY DEF HandleInv, OnlyTwoLeaks
<1>3. WriterInv'
      BY DEF WriterInv, SubprocessTypeOK
<1>4. StreamInv'
  <2>1. \A t \in Streams : written'[t] = received'[t] + pipe'[t]
        BY DEF StreamInv, SubprocessTypeOK
  <2>2. \A t \in Streams : ~AtEnd(t)
        BY EndIsForGood
  <2> QED BY <2>1, <2>2 DEF StreamInv, Open, Streams
<1> QED BY <1>1, <1>2, <1>3, <1>4

LEMMA ProgramKeeps == ASSUME SubprocessInv, ProgramStep PROVE SubprocessInv'
<1>1. CASE ChildSetup
  <2>1. ASSUME ChildEnds([kind |-> "exit", code |-> 127]) PROVE SubprocessInv'
        BY <2>1, <1>1, EndKeeps DEF ChildSetup, Statuses
  <2>2. ASSUME child' = "running",
               UNCHANGED << windows, callerVars, status, heir, writing, writers, pipe, written >>
        PROVE  SubprocessInv'
    <3> USE <2>2, <1>1 DEF SubprocessInv, ChildSetup, callerVars
    <3>1. SubprocessTypeOK'
          BY DEF SubprocessTypeOK
    <3>2. HandleInv'
          BY DEF HandleInv, OnlyTwoLeaks
    <3>3. WriterInv'
          BY DEF WriterInv
    <3>4. StreamInv'
          BY DEF StreamInv, AtEnd, Writers, Open
    <3> QED BY <3>1, <3>2, <3>3, <3>4
  <2> QED BY <1>1, <2>1, <2>2 DEF ChildSetup
<1>2. CASE ChildStartsHeir
  <2> USE <1>2 DEF SubprocessInv, ChildStartsHeir, callerVars
  <2>1. SubprocessTypeOK'
        BY DEF SubprocessTypeOK
  <2>2. HandleInv'
        BY DEF HandleInv, OnlyTwoLeaks
  <2>3. WriterInv'
        BY DEF WriterInv, SubprocessTypeOK
  <2>4. \A s \in Streams : ~AtEnd(s)
        BY EndIsForGood
  <2>5. StreamInv'
        BY <2>4 DEF StreamInv, Open, Streams
  <2> QED BY <2>1, <2>2, <2>3, <2>5
<1>3. CASE ChildWrites
  <2> USE <1>3 DEF SubprocessInv, ChildWrites, callerVars
  <2>1. SubprocessTypeOK'
        BY DEF SubprocessTypeOK
  <2>2. HandleInv'
        BY DEF HandleInv, OnlyTwoLeaks
  <2>3. WriterInv'
        BY DEF WriterInv
  <2>4. StreamInv'
        BY DEF StreamInv, AtEnd, Writers, Open
  <2> QED BY <2>1, <2>2, <2>3, <2>4
<1>4. CASE ChildWritten
  <2>1. writing \in Streams /\ Nobody \notin Streams /\ written[writing] < MaxWrites
        BY <1>4 DEF SubprocessInv, SubprocessTypeOK, WriterInv, ChildWritten, Streams, Nobody
  <2> QED BY <1>4, <2>1, FillKeeps DEF ChildWritten
<1>5. CASE HeirWrites
  <2>1. PICK s \in Streams :
            /\ written[s] + (IF writing = s THEN 1 ELSE 0) < MaxWrites
            /\ Fill(s)
        BY <1>5 DEF HeirWrites
  <2>2. written[s] \in Nat /\ MaxWrites \in Nat
        BY SubprocessAssumption DEF SubprocessInv, SubprocessTypeOK
  <2>3. written[s] < MaxWrites /\ (writing = s => written[s] + 1 < MaxWrites)
        BY <2>1, <2>2
  <2> QED BY <1>5, <2>1, <2>3, FillKeeps DEF HeirWrites
<1>6. CASE HeirEnds
  <2> USE <1>6 DEF SubprocessInv, HeirEnds, callerVars
  <2>1. SubprocessTypeOK'
    <3>1. writers' \in [Streams -> SUBSET {"child", "heir"}]
          BY DEF SubprocessTypeOK
    <3> QED BY <3>1 DEF SubprocessTypeOK
  <2>2. HandleInv'
        BY DEF HandleInv, OnlyTwoLeaks
  <2>3. WriterInv'
        BY DEF WriterInv, SubprocessTypeOK
  <2>4. StreamInv'
        BY DEF StreamInv, AtEnd, Writers, Open, SubprocessTypeOK
  <2> QED BY <2>1, <2>2, <2>3, <2>4
<1>7. CASE ChildWriteFails
  <2> USE <1>7 DEF SubprocessInv, ChildWriteFails, callerVars
  <2>1. SubprocessTypeOK'
        BY DEF SubprocessTypeOK
  <2>2. HandleInv'
        BY DEF HandleInv, OnlyTwoLeaks
  <2>3. WriterInv'
        BY DEF WriterInv, Nobody
  <2>4. StreamInv'
        BY DEF StreamInv, AtEnd, Writers, Open
  <2> QED BY <2>1, <2>2, <2>3, <2>4
<1> QED BY <1>1, <1>2, <1>3, <1>4, <1>5, <1>6, <1>7 DEF ProgramStep

LEMMA StutterKeeps == ASSUME SubprocessInv, UNCHANGED subprocessVars PROVE SubprocessInv'
BY DEF SubprocessInv, subprocessVars, callerVars, childVars, SubprocessTypeOK, HandleInv,
       OnlyTwoLeaks, WriterInv, StreamInv, AtEnd, Writers, Open, ExitCode

(***************************************************************************)
(* The scenario                                                            *)
(***************************************************************************)

(* A step of the scenario that leaves the sandbox alone.                   *)
LEMMA SandboxKept ==
    ASSUME SandboxInv, UNCHANGED sandboxVars, UNCHANGED library PROVE SandboxInv'
BY DEF SandboxInv, sandboxVars, LibraryIsMine, Holding

LEMMA ScenarioInit == Init => IInv
<1> SUFFICES ASSUME Init PROVE IInv OBVIOUS
<1>1. SubprocessInv
      BY InitSubprocess DEF Init
<1>2. /\ todo \in Seq(StepKinds)
      /\ attempts \in 0..MaxAttempts
      BY ScenarioAssumption DEF Init
<1>3. TypeOK
      BY <1>1, <1>2 DEF Init, TypeOK, SubprocessInv, Contents, Nothing1, Nobody, ScriptPlaces
<1>4. StepInv /\ SandboxInv
      BY DEF Init, StepInv, SandboxInv, Holding, LibraryIsMine
<1> QED BY <1>1, <1>3, <1>4 DEF IInv

(* The parts that the scenario's own steps can disturb.                    *)
ScenarioTypeOK ==
    /\ todo \in Seq(StepKinds)
    /\ stage \in {"before", "steps", "calling", "after", "over"}
    /\ failed \in BOOLEAN
    /\ attempts \in 0..MaxAttempts
    /\ workspace \in {"unset", "there", "removed"}
    /\ library \in Contents
    /\ lastBuildResult \in {-1, 0, 1, 127, 141}
    /\ runResult \in {-1, 0, 1, 127, 141}
    /\ StepInv

SandboxTypeOK ==
    /\ script \in ScriptPlaces
    /\ sandboxSource \in Contents
    /\ artifact \in Contents
    /\ lockedBy \in {Nobody, "mine", "other"}
    /\ otherScript \in ScriptPlaces

LEMMA TypeParts == TypeOK /\ StepInv <=> SubprocessTypeOK /\ ScenarioTypeOK /\ SandboxTypeOK
BY DEF TypeOK, ScenarioTypeOK, SandboxTypeOK

LEMMA Rebuilt ==
    ASSUME SubprocessInv', ScenarioTypeOK', SandboxTypeOK', SandboxInv' PROVE IInv'
BY DEF IInv, SubprocessInv, TypeOK, ScenarioTypeOK, SandboxTypeOK

LEMMA PassesOrFails ==
    ASSUME ScenarioTypeOK, Passes \/ Fails, todo # << >>
    PROVE  /\ todo' \in Seq(StepKinds)
           /\ stage' \in {"before", "steps", "calling", "after", "over"}
           /\ failed' \in BOOLEAN
           /\ StepInv'
<1>1. Tail(todo) \in Seq(StepKinds)
      BY DEF ScenarioTypeOK
<1> QED BY <1>1 DEF ScenarioTypeOK, StepInv, Passes, Fails

(* A step of the scenario calls RunProcess or leaves it and the sandbox    *)
(* alone.                                                                  *)
LEMMA ScenarioKeeps == ASSUME IInv, ScenarioStep PROVE IInv'
<1> /\ SubprocessInv /\ ScenarioTypeOK /\ SandboxTypeOK /\ SandboxInv
    /\ exitCode \in {0, 1, 127, 141}
    BY TypeParts DEF IInv, SubprocessTypeOK
<1> DEFINE Quiet == UNCHANGED subprocessVars /\ UNCHANGED sandboxVars
<1>1. ASSUME Quiet, ScenarioTypeOK', library' \in {library, Nothing1} PROVE IInv'
  <2>1. SubprocessInv'
        BY <1>1, StutterKeeps
  <2>2. SandboxTypeOK' /\ SandboxInv'
        BY <1>1 DEF SandboxTypeOK, SandboxInv, sandboxVars, LibraryIsMine, Holding
  <2> QED BY <1>1, <2>1, <2>2, Rebuilt
<1>2. CASE CreateWorkspacePath
  <2>1. ScenarioTypeOK'
    <3>1. MaxAttempts \in Nat
          BY ScenarioAssumption
    <3>2. attempts' \in 0..MaxAttempts
          BY <1>2, <3>1 DEF CreateWorkspacePath, ScenarioTypeOK, StepInv
    <3>3. /\ stage' \in {"before", "steps", "after"}
          /\ failed' \in BOOLEAN
          /\ workspace' \in {"unset", "there", "removed"}
          BY <1>2 DEF CreateWorkspacePath, ScenarioTypeOK
    <3>4. UNCHANGED << todo, library, lastBuildResult, runResult >>
          BY <1>2 DEF CreateWorkspacePath
    <3> QED BY <3>2, <3>3, <3>4 DEF ScenarioTypeOK, StepInv
  <2> QED BY <1>1, <1>2, <2>1 DEF CreateWorkspacePath
<1>3. CASE WriteFile \/ FindScenarioAttempts
  <2>1. ScenarioTypeOK'
        BY <1>3, PassesOrFails DEF WriteFile, FindScenarioAttempts, NextStep, ScenarioTypeOK
  <2> QED BY <1>1, <1>3, <2>1 DEF WriteFile, FindScenarioAttempts
<1>4. CASE CallRunProcess
  <2>1. CASE Head(todo) = "run" /\ library = Nothing1
    <3>1. ScenarioTypeOK'
          BY <1>4, <2>1, PassesOrFails DEF CallRunProcess, NextStep, ScenarioTypeOK
    <3> QED BY <1>1, <1>4, <2>1, <3>1 DEF CallRunProcess, sandboxVars
  <2>2. CASE ~(Head(todo) = "run" /\ library = Nothing1)
    <3> USE <1>4, <2>2 DEF CallRunProcess
    <3>1. SubprocessInv'
          BY StartKeeps
    <3>2. ScenarioTypeOK'
          BY DEF ScenarioTypeOK, StepInv, NextStep
    <3>3. SandboxTypeOK' /\ SandboxInv'
          BY DEF SandboxTypeOK, SandboxInv, ScriptPlaces, Holding, LibraryIsMine
    <3> QED BY <3>1, <3>2, <3>3, Rebuilt
  <2> QED BY <2>1, <2>2
<1>5. CASE TakeResult
  <2>1. stage = "calling" /\ todo # << >>
        BY <1>5 DEF TakeResult, ScenarioTypeOK, StepInv
  <2>2. ScenarioTypeOK'
        BY <1>5, <2>1, PassesOrFails DEF TakeResult, ScenarioTypeOK
  <2> QED BY <1>1, <1>5, <2>2 DEF TakeResult
<1>6. CASE CallThrows
  <2>1. ScenarioTypeOK'
        BY <1>6 DEF CallThrows, Fails, ScenarioTypeOK, StepInv
  <2> QED BY <1>1, <1>6, <2>1 DEF CallThrows
<1>7. CASE CheckResult
  <2>1. ScenarioTypeOK'
        BY <1>7, PassesOrFails DEF CheckResult, NextStep, ScenarioTypeOK
  <2> QED BY <1>1, <1>7, <2>1 DEF CheckResult
<1>8. CASE LastStepDone
  <2>1. ScenarioTypeOK'
        BY <1>8 DEF LastStepDone, ScenarioTypeOK, StepInv
  <2> QED BY <1>1, <1>8, <2>1 DEF LastStepDone
<1>9. CASE RemoveWorkspace
  <2>1. ScenarioTypeOK' /\ library' \in {library, Nothing1}
        BY <1>9 DEF RemoveWorkspace, ScenarioTypeOK, StepInv, Contents
  <2> QED BY <1>1, <1>9, <2>1 DEF RemoveWorkspace
<1> QED BY <1>2, <1>3, <1>4, <1>5, <1>6, <1>7, <1>8, <1>9 DEF ScenarioStep

(* The end of the script, wherever it is: its lock is nobody's.            *)
LEMMA ScriptEndKeeps ==
    ASSUME SandboxTypeOK, SandboxInv, script' = "off",
           lockedBy' = IF lockedBy = "mine" THEN Nobody ELSE lockedBy,
           UNCHANGED << library, sandboxSource, artifact, otherScript >>
    PROVE  SandboxTypeOK' /\ SandboxInv'
BY DEF SandboxTypeOK, SandboxInv, ScriptPlaces, Holding, LibraryIsMine, Nobody

(* What the script does between taking the lock and giving it back finds   *)
(* the sandbox as it left it.                                              *)
LEMMA ScriptKeeps == ASSUME IInv, ScriptStep PROVE IInv'
<1> /\ SubprocessInv /\ ScenarioTypeOK /\ SandboxTypeOK /\ SandboxInv
    BY TypeParts DEF IInv
<1> USE DEF Script, Running
<1>1. ASSUME NEW st \in Statuses, ScriptEnds(st), child = "running",
             UNCHANGED scenarioVars, UNCHANGED << sandboxSource, artifact, otherScript >>
      PROVE  IInv'
  <2>1. SubprocessInv'
        BY <1>1, EndKeeps DEF ScriptEnds
  <2>2. ScenarioTypeOK'
        BY <1>1 DEF ScenarioTypeOK, StepInv, scenarioVars
  <2>3. SandboxTypeOK' /\ SandboxInv'
        BY <1>1, ScriptEndKeeps DEF ScriptEnds, scenarioVars
  <2> QED BY <2>1, <2>2, <2>3, Rebuilt
<1>2. ASSUME Fatal, child = "running",
             UNCHANGED scenarioVars, UNCHANGED << sandboxSource, artifact, otherScript >>
      PROVE  IInv'
  <2>1. [kind |-> "exit", code |-> 1] \in Statuses
        BY DEF Statuses
  <2> QED BY <1>1, <1>2, <2>1 DEF Fatal
<1>3. CASE ScriptLocks
  <2>1. CASE Fatal
        BY <1>2, <1>3, <2>1 DEF ScriptLocks
  <2>2. CASE /\ lockedBy = Nobody /\ lockedBy' = "mine" /\ script' = "write"
             /\ UNCHANGED subprocessVars
    <3> USE <1>3, <2>2 DEF ScriptLocks, scenarioVars
    <3>1. SubprocessInv'
          BY StutterKeeps
    <3>2. ScenarioTypeOK'
          BY DEF ScenarioTypeOK, StepInv
    <3>3. SandboxTypeOK' /\ SandboxInv'
          BY DEF SandboxTypeOK, SandboxInv, ScriptPlaces, Holding, LibraryIsMine, Nobody
    <3> QED BY <3>1, <3>2, <3>3, Rebuilt
  <2> QED BY <1>3, <2>1, <2>2 DEF ScriptLocks
<1>4. CASE ScriptWrites
  <2>1. CASE Fatal /\ UNCHANGED sandboxSource
        BY <1>2, <1>4, <2>1 DEF ScriptWrites
  <2>2. CASE sandboxSource' = "mine" /\ script' = "build" /\ UNCHANGED << subprocessVars, lockedBy >>
    <3> USE <1>4, <2>2 DEF ScriptWrites, scenarioVars
    <3>1. SubprocessInv'
          BY StutterKeeps
    <3>2. ScenarioTypeOK'
          BY DEF ScenarioTypeOK, StepInv
    <3>3. SandboxTypeOK' /\ SandboxInv'
          BY DEF SandboxTypeOK, SandboxInv, ScriptPlaces, Holding, LibraryIsMine, Contents
    <3> QED BY <3>1, <3>2, <3>3, Rebuilt
  <2> QED BY <1>4, <2>1, <2>2 DEF ScriptWrites
<1>5. CASE ScriptBuilds
  <2>1. CASE Fatal /\ UNCHANGED artifact
        BY <1>2, <1>5, <2>1 DEF ScriptBuilds
  <2>2. CASE artifact' = sandboxSource /\ script' = "copy" /\ UNCHANGED << subprocessVars, lockedBy >>
    <3> USE <1>5, <2>2 DEF ScriptBuilds, scenarioVars
    <3>1. SubprocessInv'
          BY StutterKeeps
    <3>2. ScenarioTypeOK'
          BY DEF ScenarioTypeOK, StepInv
    <3>3. SandboxTypeOK' /\ SandboxInv'
          BY DEF SandboxTypeOK, SandboxInv, ScriptPlaces, Holding, LibraryIsMine, Contents
    <3> QED BY <3>1, <3>2, <3>3, Rebuilt
  <2> QED BY <1>5, <2>1, <2>2 DEF ScriptBuilds
<1>6. CASE ScriptCopies
  <2>1. CASE Fatal /\ UNCHANGED library
        BY <1>2, <1>6, <2>1 DEF ScriptCopies, scenarioVars
  <2>2. CASE library' = artifact /\ script' = "release" /\ UNCHANGED << subprocessVars, lockedBy >>
    <3> USE <1>6, <2>2 DEF ScriptCopies
    <3>1. SubprocessInv'
          BY StutterKeeps
    <3>2. ScenarioTypeOK'
          BY DEF ScenarioTypeOK, StepInv, SandboxTypeOK
    <3>3. SandboxTypeOK' /\ SandboxInv'
          BY DEF SandboxTypeOK, SandboxInv, ScriptPlaces, Holding, LibraryIsMine
    <3> QED BY <3>1, <3>2, <3>3, Rebuilt
  <2> QED BY <1>6, <2>1, <2>2 DEF ScriptCopies
<1>7. CASE ScriptReleases
      BY <1>1, <1>7, InitialValues DEF ScriptReleases
<1>8. CASE CliEnds
  <2>1. PICK st \in Statuses : ChildEnds(st)
        BY <1>8 DEF CliEnds
  <2>2. SubprocessInv'
        BY <1>8, <2>1, EndKeeps DEF CliEnds
  <2>3. ScenarioTypeOK' /\ SandboxTypeOK' /\ SandboxInv'
        BY <1>8, SandboxKept DEF CliEnds, ScenarioTypeOK, StepInv, SandboxTypeOK, scenarioVars, sandboxVars
  <2> QED BY <2>2, <2>3, Rebuilt
<1>9. CASE Killed
  <2>1. child = "running" /\ ChildEnds([kind |-> "signal", code |-> 13])
        BY <1>9 DEF Killed, ChildKilled
  <2>2. SubprocessInv'
        BY <2>1, EndKeeps DEF Statuses
  <2>3. ScenarioTypeOK'
        BY <1>9 DEF Killed, ScenarioTypeOK, StepInv, scenarioVars
  <2>4. SandboxTypeOK' /\ SandboxInv'
        BY <1>9, ScriptEndKeeps DEF Killed, scenarioVars
  <2> QED BY <2>2, <2>3, <2>4, Rebuilt
<1> QED BY <1>3, <1>4, <1>5, <1>6, <1>7, <1>8, <1>9 DEF ScriptStep

(* The other process touches the sandbox only while it holds the lock, and *)
(* then no script of ours is past its own.                                 *)
LEMMA OtherKeeps == ASSUME IInv, Other PROVE IInv'
<1> /\ SubprocessInv /\ ScenarioTypeOK /\ SandboxTypeOK /\ SandboxInv
    BY TypeParts DEF IInv
<1>1. SubprocessInv' /\ ScenarioTypeOK' /\ UNCHANGED << script, library >>
      BY StutterKeeps DEF Other, ScenarioTypeOK, StepInv, scenarioVars
<1>2. CASE OtherLocks
      BY <1>1, <1>2, Rebuilt DEF OtherLocks, SandboxTypeOK, SandboxInv, ScriptPlaces, Holding,
         LibraryIsMine, Nobody
<1>3. CASE OtherWrites
      BY <1>1, <1>3, Rebuilt DEF OtherWrites, SandboxTypeOK, SandboxInv, ScriptPlaces, Holding,
         LibraryIsMine, Contents
<1>4. CASE OtherBuilds
      BY <1>1, <1>4, Rebuilt DEF OtherBuilds, SandboxTypeOK, SandboxInv, ScriptPlaces, Holding,
         LibraryIsMine
<1>5. CASE OtherEnds
      BY <1>1, <1>5, Rebuilt DEF OtherEnds, SandboxTypeOK, SandboxInv, ScriptPlaces, Holding,
         LibraryIsMine, Nobody
<1> QED BY <1>2, <1>3, <1>4, <1>5 DEF Other

LEMMA ProcessesKeep ==
    ASSUME IInv, SubprocessInv', UNCHANGED << scenarioVars, sandboxVars >> PROVE IInv'
BY TypeParts, Rebuilt, SandboxKept
   DEF IInv, ScenarioTypeOK, StepInv, SandboxTypeOK, scenarioVars, sandboxVars

LEMMA StepKeeps == ASSUME IInv, [Next]_vars PROVE IInv'
<1> SubprocessInv
    BY DEF IInv
<1>1. CASE Caller
      BY <1>1, CallerKeeps, ProcessesKeep DEF Caller
<1>2. CASE Program
      BY <1>2, ProgramKeeps, ProcessesKeep DEF Program
<1>3. CASE UNCHANGED vars
      BY <1>3, StutterKeeps, ProcessesKeep DEF vars
<1> QED BY <1>1, <1>2, <1>3, ScenarioKeeps, ScriptKeeps, OtherKeeps DEF Next

-----------------------------------------------------------------------------
(* Theorems                                                                *)

(* The invariant behind all that follows.                                  *)
THEOREM ScenarioInvariance == Spec => []IInv
<1>1. Init => IInv
      BY ScenarioInit
<1>2. IInv /\ [Next]_vars => IInv'
      BY StepKeeps
<1> QED BY <1>1, <1>2, PTL DEF Spec

(* Type correctness.                                                       *)
THEOREM ScenarioTypeCorrect == Spec => []TypeOK
<1>1. IInv => TypeOK
      BY DEF IInv
<1> QED BY <1>1, ScenarioInvariance, PTL

(* RunProcess answers with everything that was written, by the child and   *)
(* by what the child started, and with the child's own exit code.          *)
THEOREM ResultsAreWhole == Spec => []ResultIsWhole
<1>1. IInv => ResultIsWhole
  <2> SUFFICES ASSUME IInv, at = "returned" PROVE
          /\ received = written /\ pipe = Nothing
          /\ child = "reaped" /\ exitCode = ExitCode(status)
      BY DEF ResultIsWhole
  <2>1. SubprocessTypeOK /\ StreamInv
        BY DEF IInv, SubprocessInv
  <2>2. \A s \in Streams : pipe[s] = 0 /\ written[s] = received[s] + 0
        BY <2>1 DEF StreamInv, AtEnd
  <2>3. \A s \in Streams : received[s] = written[s]
        BY <2>1, <2>2 DEF SubprocessTypeOK
  <2>4. received = written
        BY <2>1, <2>3 DEF SubprocessTypeOK
  <2>5. pipe = Nothing
        BY <2>1, <2>2 DEF SubprocessTypeOK, Nothing
  <2> QED BY <2>1, <2>4, <2>5 DEF StreamInv
<1> QED BY <1>1, ScenarioInvariance, PTL

(* On POSIX nothing RunProcess opened stays open, however it ends; on      *)
(* Windows two of its exceptions leave descriptors behind, and these are   *)
(* they.                                                                   *)
THEOREM LeaksAreKnown == Spec => []OnlyTwoLeaks
<1>1. IInv => OnlyTwoLeaks
      BY DEF IInv, SubprocessInv, HandleInv
<1> QED BY <1>1, ScenarioInvariance, PTL

(* The lock spans all that the sandbox is used for, so what a scenario     *)
(* loads was built from its own source.                                    *)
THEOREM LibrariesAreOwn == Spec => []LibraryIsMine
<1>1. IInv => LibraryIsMine
      BY DEF IInv, SandboxInv
<1> QED BY <1>1, ScenarioInvariance, PTL
=============================================================================
