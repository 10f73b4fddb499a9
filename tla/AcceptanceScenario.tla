------------------------- MODULE AcceptanceScenario -------------------------
(***************************************************************************)
(* One scenario of the acceptance tests: its hooks and steps, the          *)
(* processes they run with RunProcess, and the sandbox build tree it       *)
(* shares with a scenario of another test process, which CTest may run at  *)
(* the same time.                                                          *)
(***************************************************************************)
EXTENDS Subprocess, Sequences

CONSTANTS
    Scenarios,      \* the step sequences, over StepKinds
    MaxAttempts     \* CreateWorkspacePath's 64

StepKinds == {"file", "library", "run", "cli", "passes", "fails", "attempts"}
Nothing1  == "nothing"
Contents  == {Nothing1, "mine", "other"}

ASSUME ScenarioAssumption ==
    /\ Scenarios \subseteq Seq(StepKinds)
    /\ MaxAttempts \in Nat

VARIABLES
    todo,           \* the steps to come
    stage,          \* "before", "steps", "calling", "after" or "over"
    failed,         \* has a step or hook failed?
    attempts,       \* directory names CreateWorkspacePath tried in vain
    workspace,      \* scenario_workspace: "unset", "there" or "removed"
    library,        \* what the scenario's library was built from
    lastBuildResult, runResult,   \* exit codes in the context, or -1
    script,         \* where the child's BuildSandbox.cmake is
    sandboxSource, artifact,      \* whose they are
    lockedBy,       \* "nobody", "mine" or "other"
    otherScript     \* where the other process's script is

scenarioVars == << todo, stage, failed, attempts, workspace, library,
                   lastBuildResult, runResult >>
sandboxVars  == << script, sandboxSource, artifact, lockedBy, otherScript >>
vars == << subprocessVars, scenarioVars, sandboxVars >>

ScriptPlaces == {"off", "lock", "write", "build", "copy", "release"}

Init ==
    /\ SubprocessInit
    /\ todo \in Scenarios
    /\ stage = "before"
    /\ failed = FALSE
    /\ attempts = 0
    /\ workspace = "unset"
    /\ library = Nothing1
    /\ lastBuildResult = -1
    /\ runResult = -1
    /\ script = "off"
    /\ sandboxSource = Nothing1
    /\ artifact = Nothing1
    /\ lockedBy = Nobody
    /\ otherScript = "lock"

-----------------------------------------------------------------------------
(* Hooks and steps                                                         *)

(* HOOK_BEFORE_SCENARIO: create_directory until a name is free.            *)
CreateWorkspacePath ==
    /\ stage = "before"
    /\ \/ /\ workspace' = "there"
          /\ stage' = "steps"
          /\ UNCHANGED << failed, attempts >>
       \/ /\ attempts < MaxAttempts
          /\ attempts' = attempts + 1
          /\ IF attempts' = MaxAttempts THEN failed' = TRUE /\ stage' = "after"
             ELSE UNCHANGED << failed, stage >>
          /\ UNCHANGED workspace
    /\ UNCHANGED << todo, library, lastBuildResult, runResult, subprocessVars, sandboxVars >>

(* A step passes, and the next one comes; or it fails, and none does.      *)
Passes ==
    /\ todo' = Tail(todo)
    /\ stage' = "steps"
    /\ UNCHANGED failed

Fails ==
    /\ failed' = TRUE
    /\ stage' = "after"
    /\ UNCHANGED todo

NextStep(kinds) == stage = "steps" /\ todo # << >> /\ Head(todo) \in kinds

(* Given a file: what the path and the file system make of it.             *)
WriteFile ==
    /\ NextStep({"file"})
    /\ Passes \/ Fails
    /\ UNCHANGED << attempts, workspace, library, lastBuildResult, runResult,
                    subprocessVars, sandboxVars >>

(* Then the message file has so many attempts: what the program wrote.     *)
FindScenarioAttempts ==
    /\ NextStep({"attempts"})
    /\ Passes \/ Fails
    /\ UNCHANGED << attempts, workspace, library, lastBuildResult, runResult,
                    subprocessVars, sandboxVars >>

(* BuildInSandbox, a run with the scenario's library, which must be there, *)
(* and a run without one.                                                  *)
CallRunProcess ==
    /\ NextStep({"library", "run", "cli"})
    /\ IF Head(todo) = "run" /\ library = Nothing1
       THEN Fails /\ UNCHANGED << subprocessVars, script >>
       ELSE /\ Start
            /\ stage' = "calling"
            /\ script' = IF Head(todo) = "library" THEN "lock" ELSE "off"
            /\ UNCHANGED << todo, failed >>
    /\ UNCHANGED << attempts, workspace, library, lastBuildResult, runResult,
                    sandboxSource, artifact, lockedBy, otherScript >>

(* Its result goes to the context, and a build's must be 0.                *)
TakeResult ==
    /\ stage = "calling"
    /\ at = "returned"
    /\ IF Head(todo) = "library"
       THEN /\ lastBuildResult' = exitCode
            /\ IF exitCode = 0 THEN Passes ELSE Fails
            /\ UNCHANGED runResult
       ELSE /\ runResult' = exitCode
            /\ Passes
            /\ UNCHANGED lastBuildResult
    /\ UNCHANGED << attempts, workspace, library, subprocessVars, sandboxVars >>

CallThrows ==
    /\ stage = "calling"
    /\ at = "thrown"
    /\ Fails
    /\ UNCHANGED << attempts, workspace, library, lastBuildResult, runResult,
                    subprocessVars, sandboxVars >>

(* Then it passes, or it fails: Get throws if nothing ran.                 *)
CheckResult ==
    /\ NextStep({"passes", "fails"})
    /\ IF runResult # -1 /\ (Head(todo) = "passes" <=> runResult = 0) THEN Passes ELSE Fails
    /\ UNCHANGED << attempts, workspace, library, lastBuildResult, runResult,
                    subprocessVars, sandboxVars >>

LastStepDone ==
    /\ stage = "steps"
    /\ todo = << >>
    /\ stage' = "after"
    /\ UNCHANGED << todo, failed, attempts, workspace, library, lastBuildResult,
                    runResult, subprocessVars, sandboxVars >>

(* HOOK_AFTER_SCENARIO: remove_all, whose error is ignored.                *)
RemoveWorkspace ==
    /\ stage = "after"
    /\ stage' = "over"
    /\ IF workspace = "there"
       THEN \/ workspace' = "removed" /\ library' = Nothing1
            \/ UNCHANGED << workspace, library >>
       ELSE UNCHANGED << workspace, library >>
    /\ UNCHANGED << todo, failed, attempts, lastBuildResult, runResult,
                    subprocessVars, sandboxVars >>

-----------------------------------------------------------------------------
(* BuildSandbox.cmake, in the child of this scenario and in the other      *)
(* process.                                                                *)

Running == child = "running" /\ writing = Nobody
Script(place) == Running /\ script = place

(* What the child's end does: the lock goes with the process.              *)
ScriptEnds(st) ==
    /\ ChildEnds(st)
    /\ script' = "off"
    /\ lockedBy' = IF lockedBy = "mine" THEN Nobody ELSE lockedBy

Fatal == ScriptEnds([kind |-> "exit", code |-> 1])

(* A lock that was not acquired, and a script that goes on regardless.     *)
SlipScriptLocks ==
    /\ Script("lock")
    /\ script' = "write"
    /\ lockedBy' = IF lockedBy = Nobody THEN "mine" ELSE lockedBy
    /\ UNCHANGED << subprocessVars, scenarioVars, sandboxSource, artifact, otherScript >>

(* file(LOCK ... GUARD PROCESS TIMEOUT 1200)                               *)
ScriptLocks ==
    /\ Script("lock")
    /\ \/ /\ lockedBy = Nobody
          /\ lockedBy' = "mine"
          /\ script' = "write"
          /\ UNCHANGED subprocessVars
       \/ lockedBy # Nobody /\ Fatal
    /\ UNCHANGED << scenarioVars, sandboxSource, artifact, otherScript >>

ScriptWrites ==
    /\ Script("write")
    /\ \/ /\ sandboxSource' = "mine"
          /\ script' = "build"
          /\ UNCHANGED << subprocessVars, lockedBy >>
       \/ Fatal /\ UNCHANGED sandboxSource
    /\ UNCHANGED << scenarioVars, artifact, otherScript >>

(* A build that fails leaves the artifact of an earlier one.               *)
ScriptBuilds ==
    /\ Script("build")
    /\ \/ /\ artifact' = sandboxSource
          /\ script' = "copy"
          /\ UNCHANGED << subprocessVars, lockedBy >>
       \/ Fatal /\ UNCHANGED artifact
    /\ UNCHANGED << scenarioVars, sandboxSource, otherScript >>

ScriptCopies ==
    /\ Script("copy")
    /\ \/ /\ workspace = "there"
          /\ library' = artifact
          /\ script' = "release"
          /\ UNCHANGED << subprocessVars, lockedBy >>
       \/ Fatal /\ UNCHANGED library
    /\ UNCHANGED << todo, stage, failed, attempts, workspace, lastBuildResult,
                    runResult, sandboxSource, artifact, otherScript >>

ScriptReleases ==
    /\ Script("release")
    /\ ScriptEnds(Zero)
    /\ UNCHANGED << scenarioVars, sandboxSource, artifact, otherScript >>

(* The program under test ends as it likes.                                *)
CliEnds ==
    /\ Script("off")
    /\ \E st \in Statuses : (windows => st.kind = "exit") /\ ChildEnds(st)
    /\ UNCHANGED << scenarioVars, sandboxVars >>

(* SIGPIPE kills the script wherever it is.                                *)
Killed ==
    /\ ChildKilled
    /\ script' = "off"
    /\ lockedBy' = IF lockedBy = "mine" THEN Nobody ELSE lockedBy
    /\ UNCHANGED << scenarioVars, sandboxSource, artifact, otherScript >>

OtherLocks ==
    /\ otherScript = "lock"
    /\ lockedBy = Nobody
    /\ lockedBy' = "other"
    /\ otherScript' = "write"
    /\ UNCHANGED << sandboxSource, artifact >>

OtherWrites ==
    /\ otherScript = "write"
    /\ sandboxSource' = "other"
    /\ otherScript' = "build"
    /\ UNCHANGED << lockedBy, artifact >>

OtherBuilds ==
    /\ otherScript = "build"
    /\ artifact' = sandboxSource
    /\ otherScript' = "release"
    /\ UNCHANGED << lockedBy, sandboxSource >>

(* Its end, and the next one's start: by the time-out of the lock, after   *)
(* the copy, or by a failure or a signal anywhere.                         *)
OtherEnds ==
    /\ lockedBy' = IF lockedBy = "other" THEN Nobody ELSE lockedBy
    /\ otherScript' = "lock"
    /\ UNCHANGED << sandboxSource, artifact >>

Other ==
    /\ OtherLocks \/ OtherWrites \/ OtherBuilds \/ OtherEnds
    /\ UNCHANGED << subprocessVars, scenarioVars, script >>

-----------------------------------------------------------------------------
Caller  == CallerStep /\ UNCHANGED << scenarioVars, sandboxVars >>
Program == ProgramStep /\ UNCHANGED << scenarioVars, sandboxVars >>

ScenarioStep ==
    CreateWorkspacePath \/ WriteFile \/ FindScenarioAttempts \/ CallRunProcess
    \/ TakeResult \/ CallThrows \/ CheckResult \/ LastStepDone \/ RemoveWorkspace

ScriptStep ==
    ScriptLocks \/ ScriptWrites \/ ScriptBuilds \/ ScriptCopies \/ ScriptReleases
    \/ CliEnds \/ Killed

Next == ScenarioStep \/ Caller \/ Program \/ ScriptStep \/ Other

Spec == Init /\ [][Next]_vars

(* The test process runs; the programs it starts, and what they start,     *)
(* neither stop nor run for ever.                                          *)
FairSpec ==
    /\ Spec
    /\ WF_vars(ScenarioStep)
    /\ WF_vars(Caller /\ at' \notin {"thrown", "terminated"})
    /\ WF_vars(ScriptStep)
    /\ WF_vars(ChildSetup /\ UNCHANGED << scenarioVars, sandboxVars >>)
    /\ WF_vars(ChildWritten /\ UNCHANGED << scenarioVars, sandboxVars >>)
    /\ WF_vars(HeirEnds /\ UNCHANGED << scenarioVars, sandboxVars >>)

-----------------------------------------------------------------------------
(* Properties                                                              *)

TypeOK ==
    /\ SubprocessTypeOK
    /\ todo \in Seq(StepKinds)
    /\ stage \in {"before", "steps", "calling", "after", "over"}
    /\ failed \in BOOLEAN
    /\ attempts \in 0..MaxAttempts
    /\ workspace \in {"unset", "there", "removed"}
    /\ library \in Contents
    /\ lastBuildResult \in {-1, 0, 1, 127, 141}
    /\ runResult \in {-1, 0, 1, 127, 141}
    /\ script \in ScriptPlaces
    /\ sandboxSource \in Contents
    /\ artifact \in Contents
    /\ lockedBy \in {Nobody, "mine", "other"}
    /\ otherScript \in ScriptPlaces

(* Scenarios that run at the same time share one source file and one build *)
(* tree; a library that was built is nevertheless built from the           *)
(* scenario's own source, also when the other process dies half way or a   *)
(* build fails: the lock spans writing, building and copying.              *)
LibraryIsMine == library \in {Nothing1, "mine"}

(* "drains_large_stdout_and_stderr_without_deadlock": when the programs    *)
(* it runs and what they start end, the scenario does, whatever they write *)
(* and in which order, and whoever holds the sandbox; or the second reader *)
(* thread could not be started, which ends the test process.               *)
ScenarioEnds == stage = "before" ~> (stage = "over" \/ at = "terminated")

-----------------------------------------------------------------------------
(* The inductive invariant behind it, with SubprocessInv                   *)

Holding == {"write", "build", "copy", "release"}

(* A script past the lock has it, so what it finds is its own.             *)
SandboxInv ==
    /\ script \in Holding => lockedBy = "mine"
    /\ otherScript \in Holding => lockedBy = "other"
    /\ script = "build" => sandboxSource = "mine"
    /\ script = "copy" => artifact = "mine"
    /\ LibraryIsMine

(* A call belongs to a step.                                               *)
StepInv == stage = "calling" => todo # << >>

IInv == TypeOK /\ SubprocessInv /\ StepInv /\ SandboxInv
=============================================================================
