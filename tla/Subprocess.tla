----------------------------- MODULE Subprocess -----------------------------
(***************************************************************************)
(* RunProcess of the acceptance tests: a child process whose standard      *)
(* output and error arrive through two pipes.  On POSIX the caller polls   *)
(* both and drains what is ready; on Windows it has a reader thread for    *)
(* each.  The child may leave behind a process of its own, the heir, that  *)
(* keeps the write ends open.                                              *)
(*                                                                         *)
(* Signals that interrupt poll, read and waitpid only make the code repeat *)
(* the call, which is a stuttering step here.                              *)
(***************************************************************************)
EXTENDS Integers, FiniteSets

CONSTANTS
    Capacity,    \* what a pipe holds
    MaxWrites    \* bound on what is written to a stream

ASSUME SubprocessAssumption ==
    /\ Capacity \in Nat \ {0}
    /\ MaxWrites \in Nat

Streams == {"out", "err"}
Nobody  == "nobody"

(* How a process ends, and what the caller makes of it.                    *)
Statuses == [kind : {"exit"}, code : {0, 1, 127}] \union [kind : {"signal"}, code : {13}]

VARIABLES
    windows,     \* which half of the #if runs?
    at,          \* where RunProcess is
    handles,     \* the caller's descriptors: <<stream, end>>, and the process
    ready,       \* streams poll reported, or whose reader thread still runs
    received,    \* stream |-> how much of the output is in the result
    exitCode,    \* ProcessResult::exitCode
    child,       \* the child process
    status,      \* how the child ended
    heir,        \* is there a process of the child's making?
    writing,     \* the stream the child is about to write to
    writers,     \* stream |-> the processes that hold its write end
    pipe,        \* stream |-> how much is in the pipe
    written      \* stream |-> how much was written so far

callerVars == << at, handles, ready, received, exitCode >>
childVars  == << child, status, heir, writing, writers, pipe, written >>
subprocessVars == << windows, callerVars, childVars >>

Places == {"idle", "pipes", "configure", "launch", "detach", "readers", "poll",
           "drain", "wait", "returned", "thrown", "terminated"}

ReadEnds      == Streams \X {"read"}
WriteEnds     == Streams \X {"write"}
Pipes         == ReadEnds \union WriteEnds
FirstPipe     == {"out"} \X {"read", "write"}
ProcessHandle == {<< "process", "handle" >>}

Nothing == [s \in Streams |-> 0]
Zero    == [kind |-> "exit", code |-> 0]

SubprocessInit ==
    /\ windows \in BOOLEAN
    /\ at = "idle"
    /\ handles = {}
    /\ ready = {}
    /\ received = Nothing
    /\ exitCode = 0
    /\ child = "none"
    /\ status = Zero
    /\ heir = FALSE
    /\ writing = Nobody
    /\ writers = [s \in Streams |-> {}]
    /\ pipe = Nothing
    /\ written = Nothing

-----------------------------------------------------------------------------
(* The caller                                                              *)

Goto(place) == at' = place

(* A ~Pipe that forgets the write end.                                     *)
SlipThrow(closed) ==
    /\ Goto("thrown")
    /\ handles' = handles \ (IF windows THEN closed ELSE ReadEnds)
    /\ ready' = {}
    /\ UNCHANGED << windows, received, exitCode, childVars >>

(* ThrowRuntimeError.  On POSIX ~Pipe closes both ends of both pipes; on   *)
(* Windows only what CloseHandle was called for before is closed.          *)
Throw(closed) ==
    /\ Goto("thrown")
    /\ handles' = handles \ (IF windows THEN closed ELSE Pipes)
    /\ ready' = {}
    /\ UNCHANGED << windows, received, exitCode, childVars >>

(* Called: a path that is no regular file is refused at once.              *)
Start ==
    /\ at \in {"idle", "returned"}
    /\ at' \in {"pipes", "thrown"}
    /\ received' = Nothing
    /\ exitCode' = 0
    /\ child' = "none"
    /\ status' = Zero
    /\ heir' = FALSE
    /\ writing' = Nobody
    /\ writers' = [s \in Streams |-> {}]
    /\ pipe' = Nothing
    /\ written' = Nothing
    /\ UNCHANGED << windows, handles, ready >>

(* CreatePipeOrThrow or CreatePipe, standard output first.                 *)
OpenPipe ==
    /\ at = "pipes"
    /\ \/ Throw(FirstPipe)
       \/ LET s == IF handles = {} THEN "out" ELSE "err" IN
          /\ handles' = handles \union ({s} \X {"read", "write"})
          /\ Goto(IF s = "err" THEN "configure" ELSE "pipes")
          /\ UNCHANGED << windows, ready, received, exitCode, childVars >>

(* SetNonBlockingOrThrow, or SetHandleInformation.                         *)
Configure ==
    /\ at = "configure"
    /\ \/ Throw(Pipes)
       \/ /\ Goto("launch")
          /\ UNCHANGED << windows, handles, ready, received, exitCode, childVars >>

Fork ==
    /\ ~windows
    /\ child' = "setup"
    /\ UNCHANGED handles

CreateProcessW ==
    /\ windows
    /\ child' = "running"
    /\ handles' = handles \union ProcessHandle

(* The child has both write ends from the start.  fork or CreateProcessW   *)
(* may fail; before that, on Windows, the conversion of an argument, which *)
(* closes nothing.                                                         *)
Launch ==
    /\ at = "launch"
    /\ \/ Throw(Pipes)
       \/ windows /\ Throw({})
       \/ /\ Goto("detach")
          /\ Fork \/ CreateProcessW
          /\ writers' = [s \in Streams |-> {"child"}]
          /\ UNCHANGED << windows, ready, received, exitCode, status, heir, writing,
                          pipe, written >>

(* The caller's own write ends.                                            *)
Detach ==
    /\ at = "detach"
    /\ handles' = handles \ WriteEnds
    /\ Goto(IF windows THEN "readers" ELSE "poll")
    /\ UNCHANGED << windows, ready, received, exitCode, childVars >>

(* std::thread, twice.  The first constructor that throws leaves all open; *)
(* when the second one does, the first thread is joinable and its          *)
(* destructor ends the program.                                            *)
StartReaders ==
    /\ at = "readers"
    /\ \/ Throw({})
       \/ /\ Goto("terminated")
          /\ handles' = {}
          /\ UNCHANGED << windows, ready, received, exitCode, childVars >>
       \/ /\ Goto("drain")
          /\ ready' = Streams
          /\ UNCHANGED << windows, handles, received, exitCode, childVars >>

Open(s) == << s, "read" >> \in handles

(* A pipe is at its end when nobody can write to it any more.              *)
Writers(s) == writers[s] \union IF << s, "write" >> \in handles THEN {"caller"} ELSE {}

(* A hang-up that is taken for the end, whatever is still in the pipe.     *)
SlipAtEnd(s) == Writers(s) = {}

AtEnd(s) == pipe[s] = 0 /\ Writers(s) = {}

(* poll waits, without a timeout, for data or a hang-up on either pipe.    *)
Poll ==
    /\ at = "poll"
    /\ IF \E s \in Streams : Open(s)
       THEN \/ Throw(Pipes)
            \/ /\ ready' = {s \in Streams : Open(s) /\ (pipe[s] > 0 \/ AtEnd(s))}
               /\ ready' # {}
               /\ Goto("drain")
               /\ UNCHANGED << windows, handles, received, exitCode, childVars >>
       ELSE /\ Goto("wait")
            /\ UNCHANGED << windows, handles, ready, received, exitCode, childVars >>

Leave(s) ==
    /\ ready' = ready \ {s}
    /\ Goto(IF ready' # {} THEN "drain" ELSE IF windows THEN "wait" ELSE "poll")

(* CloseFd of one stream, or CloseHandle of both once both readers joined. *)
Close(s) ==
    handles' = IF ~windows THEN handles \ {<< s, "read" >>}
               ELSE IF ready = {s} THEN handles \ ReadEnds ELSE handles

Read(s) ==
    /\ pipe[s] > 0
    /\ pipe' = [pipe EXCEPT ![s] = @ - 1]
    /\ received' = [received EXCEPT ![s] = @ + 1]
    /\ UNCHANGED << windows, at, handles, ready, exitCode, child, status, heir,
                    writing, writers, written >>

(* A blocking read that goes on until the end of the stream.               *)
SlipDrain(s) ==
    /\ at = "drain"
    /\ s \in ready
    /\ ~windows /\ s = "err" => "out" \notin ready
    /\ \/ Read(s)
       \/ /\ AtEnd(s)
          /\ Leave(s)
          /\ Close(s)
          /\ UNCHANGED << windows, received, exitCode, childVars >>
       \/ ~windows /\ Throw(Pipes)

(* DrainFd reads until the pipe is empty (EAGAIN) or at its end; ReadPipe  *)
(* until it is at its end.                                                 *)
Drain(s) ==
    /\ at = "drain"
    /\ s \in ready
    /\ ~windows /\ s = "err" => "out" \notin ready
    /\ \/ Read(s)
       \/ /\ AtEnd(s)
          /\ Leave(s)
          /\ Close(s)
          /\ UNCHANGED << windows, received, exitCode, childVars >>
       \/ /\ ~windows
          /\ pipe[s] = 0
          /\ ~AtEnd(s)
          /\ Leave(s)
          /\ UNCHANGED << windows, handles, received, exitCode, childVars >>
       \/ ~windows /\ Throw(Pipes)

ExitCode(st) == IF st.kind = "signal" THEN 128 + st.code ELSE st.code

(* waitpid, or WaitForSingleObject and GetExitCodeProcess.                 *)
Wait ==
    /\ at = "wait"
    /\ \/ Throw(ProcessHandle)
       \/ /\ child = "ended"
          /\ child' = "reaped"
          /\ exitCode' = ExitCode(status)
          /\ handles' = handles \ ProcessHandle
          /\ Goto("returned")
          /\ UNCHANGED << windows, ready, received, status, heir, writing, writers,
                          pipe, written >>

CallerStep ==
    \/ OpenPipe \/ Configure \/ Launch \/ Detach \/ StartReaders
    \/ Poll \/ (\E s \in Streams : Drain(s)) \/ Wait

-----------------------------------------------------------------------------
(* The child                                                               *)

ChildEnds(st) ==
    /\ child' = "ended"
    /\ status' = st
    /\ writing' = Nobody
    /\ writers' = [s \in Streams |-> writers[s] \ {"child"}]
    /\ UNCHANGED << windows, callerVars, heir, pipe, written >>

(* Between fork and execvp: chdir and dup2 may fail, and so may execvp.    *)
ChildSetup ==
    /\ child = "setup"
    /\ \/ ChildEnds([kind |-> "exit", code |-> 127])
       \/ /\ child' = "running"
          /\ UNCHANGED << windows, callerVars, status, heir, writing, writers, pipe, written >>

(* A process the child starts inherits its standard output and error.      *)
ChildStartsHeir ==
    /\ child = "running"
    /\ writing = Nobody
    /\ ~heir
    /\ heir' = TRUE
    /\ writers' = [s \in Streams |-> writers[s] \union {"heir"}]
    /\ UNCHANGED << windows, callerVars, child, status, writing, pipe, written >>

(* A write has been called for; it returns once there is room.             *)
ChildWrites ==
    /\ child = "running"
    /\ writing = Nobody
    /\ writing' \in {s \in Streams : written[s] < MaxWrites}
    /\ UNCHANGED << windows, callerVars, child, status, heir, writers, pipe, written >>

Fill(s) ==
    /\ pipe[s] < Capacity
    /\ pipe' = [pipe EXCEPT ![s] = @ + 1]
    /\ written' = [written EXCEPT ![s] = @ + 1]

ChildWritten ==
    /\ child = "running"
    /\ writing # Nobody
    /\ Open(writing)
    /\ Fill(writing)
    /\ writing' = Nobody
    /\ UNCHANGED << windows, callerVars, child, status, heir, writers >>

(* When the caller has no read end any more, SIGPIPE kills the child; on   *)
(* Windows its write fails, and what it makes of that is its own affair.   *)
ChildKilled ==
    /\ child = "running"
    /\ writing # Nobody
    /\ ~Open(writing) /\ ~windows
    /\ ChildEnds([kind |-> "signal", code |-> 13])

ChildWriteFails ==
    /\ child = "running"
    /\ writing # Nobody
    /\ ~Open(writing) /\ windows
    /\ writing' = Nobody
    /\ UNCHANGED << windows, callerVars, child, status, heir, writers, pipe, written >>

HeirWrites ==
    /\ heir
    /\ \E s \in Streams :
          /\ Open(s)
          /\ written[s] + (IF writing = s THEN 1 ELSE 0) < MaxWrites
          /\ Fill(s)
    /\ UNCHANGED << windows, callerVars, child, status, heir, writing, writers >>

HeirEnds ==
    /\ heir
    /\ heir' = FALSE
    /\ writers' = [s \in Streams |-> writers[s] \ {"heir"}]
    /\ UNCHANGED << windows, callerVars, child, status, writing, pipe, written >>

(* What any program does; how it ends is its own affair.                   *)
ProgramStep ==
    \/ ChildSetup \/ ChildStartsHeir \/ ChildWrites \/ ChildWritten \/ ChildWriteFails
    \/ HeirWrites \/ HeirEnds

-----------------------------------------------------------------------------
(* Properties                                                              *)

SubprocessTypeOK ==
    /\ windows \in BOOLEAN
    /\ at \in Places
    /\ handles \subseteq Pipes \union ProcessHandle
    /\ ready \subseteq Streams
    /\ received \in [Streams -> 0..MaxWrites]
    /\ exitCode \in {0, 1, 127, 141}
    /\ child \in {"none", "setup", "running", "ended", "reaped"}
    /\ status \in Statuses
    /\ heir \in BOOLEAN
    /\ writing \in Streams \union {Nobody}
    /\ writers \in [Streams -> SUBSET {"child", "heir"}]
    /\ pipe \in [Streams -> 0..Capacity]
    /\ written \in [Streams -> 0..MaxWrites]

(* A result is whole: RunProcess returns after the last byte of both       *)
(* streams, the heir's included, with the exit code of a child it has      *)
(* waited for.                                                             *)
ResultIsWhole ==
    at = "returned" =>
        /\ received = written
        /\ pipe = Nothing
        /\ child = "reaped"
        /\ exitCode = ExitCode(status)

(* However RunProcess ends, by its result or by an exception from any of   *)
(* its calls, its descriptors are closed, but for two exceptions of the    *)
(* Windows half: an argument that cannot be converted leaves both pipes    *)
(* open, without a child; and a reader thread that cannot be started       *)
(* leaves the read ends and the process handle of a child that is running  *)
(* or ended.  In no case is a write end left behind once there is a child. *)
OnlyTwoLeaks ==
    /\ at \in {"idle", "returned", "terminated"} => handles = {}
    /\ at = "thrown" =>
          \/ handles = {}
          \/ windows /\ handles = Pipes /\ child = "none"
          \/ windows /\ handles = ReadEnds \union ProcessHandle /\ child # "none"

-----------------------------------------------------------------------------
(* The inductive invariant behind both                                     *)

(* Which descriptors are open where.                                       *)
HandleInv ==
    /\ OnlyTwoLeaks
    /\ at = "pipes" => handles \in {{}, FirstPipe}
    /\ at \in {"configure", "launch"} => handles = Pipes
    /\ at = "detach" => handles = Pipes \union (IF windows THEN ProcessHandle ELSE {})
    /\ at = "readers" => windows
    /\ at \in {"readers", "poll", "drain"} =>
          IF windows THEN handles = ReadEnds \union ProcessHandle
          ELSE handles \subseteq ReadEnds
    /\ at = "wait" => handles = IF windows THEN ProcessHandle ELSE {}

(* Before the launch there is nobody; who lives holds both write ends.     *)
WriterInv ==
    /\ at \in {"pipes", "configure", "launch"} => child = "none" /\ ~heir
    /\ at \in {"detach", "readers"} => child # "none"
    /\ child \in {"setup", "running"} => \A s \in Streams : "child" \in writers[s]
    /\ heir => \A s \in Streams : "heir" \in writers[s]
    /\ writing # Nobody => written[writing] < MaxWrites

(* What was written is in the result or in the pipe, and a stream the      *)
(* caller has left behind is at its end for good.                          *)
StreamInv ==
    /\ \A s \in Streams : written[s] = received[s] + pipe[s]
    /\ at \in {"poll", "drain"} =>
          \A s \in Streams : (IF windows THEN s \notin ready ELSE ~Open(s)) => AtEnd(s)
    /\ at \in {"wait", "returned"} => \A s \in Streams : AtEnd(s)
    /\ at = "poll" => ~windows
    /\ at = "returned" => child = "reaped" /\ exitCode = ExitCode(status)

SubprocessInv == SubprocessTypeOK /\ HandleInv /\ WriterInv /\ StreamInv
=============================================================================
