---------------------------- MODULE RunCucumber ----------------------------
(***************************************************************************)
(* A process of the runner from its command line to its exit code: the     *)
(* load phase of RunCucumber and ListScenarios, the registries of steps,   *)
(* hooks and parameter types, and the assembly of test cases.  What the    *)
(* runtime does with the test cases is TestRun's; here it passes or fails. *)
(*                                                                         *)
(* CTest uses two processes: cucumber_discover_tests runs the program with *)
(* --list-scenarios, and every test runs it again with the other arguments *)
(* unchanged and --name for one listed name.                               *)
(*                                                                         *)
(* Names are sequences of the parts between their dots, so that a name     *)
(* ending in ".#2" is the same whoever wrote the suffix.                   *)
(***************************************************************************)
EXTENDS Integers, FiniteSets, SequencesExt

CONSTANTS
    Inputs,          \* what the feature files may be: sequences of files
    Options,         \* arguments: tag expression, order and names
    Programs,        \* the registered definitions, in the order of LoadIds
    Custom,          \* parameter types registered by PARAMETER
    Host,            \* parameter types added through Application
    Replacement      \* what SanitizeName makes of a part of a name

Unset == "unset"         \* no tag expression, no parameter type but built-in ones
Bad == "("           \* a tag expression or a step's expression that does not parse

Parts == DOMAIN Replacement

(* The part "#k", in a suffix that makes a name unique or for an example.  *)
Number(k) == << "#", k >>

IsSequence(s) == s \in Seq(ToSet(s))

ASSUME RunCucumberAssumption ==
    /\ Replacement \in [Parts -> Parts]
    /\ \A input \in Inputs : IsSequence(input) /\ \A file \in ToSet(input) :
          /\ file.uri \in Seq(Parts)
          /\ file.nodes \in Nat
          /\ IsSequence(file.pickles)
          /\ \A p \in ToSet(file.pickles) :
                IsSequence(p.steps) /\ {p.feature, p.rule, p.name, p.example} \subseteq Seq(Parts)
    /\ \A program \in Programs :
          /\ IsSequence(program)
          /\ \A d \in ToSet(program) : d.kind \in {"step", "before", "after"}
    /\ IsFiniteSet(Custom) /\ IsFiniteSet(Host)

VARIABLES
    files, options, registered,   \* of this and all later processes
    mode,            \* "list", "run", or "test" for a test of CTest
    wanted,          \* the listed scenario of that test
    listed,          \* what discovery printed
    stage,           \* where the process is
    exit,            \* its exit code
    nextFile,        \* the file to parse
    ids,             \* the counter of the IdGenerator
    parseErrors,     \* ParseErrorListener::parseErrors
    pickleSources,   \* the scenarios: file, place in it, id
    uniqueNames,     \* their names, as far as made: name, scenario
    selected,        \* orderedPickles
    parameters,      \* the names in the ParameterRegistry
    definitionIds,   \* ids of the registered definitions
    stepRegistry,    \* StepRegistry::registry: position in registered, id
    hookRegistry,    \* HookRegistry::registry, by id
    testCases,       \* the assembled test cases
    announced        \* the messages, by kind and what they define

inputVars   == << files, options, registered >>
processVars == << mode, wanted, listed >>
loadVars    == << nextFile, parseErrors, pickleSources, uniqueNames, selected >>
codeVars    == << parameters, definitionIds, stepRegistry, hookRegistry >>
vars == << inputVars, processVars, stage, exit, loadVars, ids, codeVars, testCases, announced >>

Running == -1
Success == 0
Failure == 1
Usage   == 106       \* what cli.exit makes of a ParseError

Nothing == [name |-> << >>, source |-> << 0, 0 >>]

Fresh ==
    /\ stage = "start"
    /\ exit = Running
    /\ nextFile = 1
    /\ ids = 0
    /\ parseErrors = 0
    /\ pickleSources = << >>
    /\ uniqueNames = << >>
    /\ selected = << >>
    /\ parameters = Host
    /\ definitionIds = << >>
    /\ stepRegistry = << >>
    /\ hookRegistry = {}
    /\ testCases = << >>
    /\ announced = {}

Init ==
    /\ files \in Inputs
    /\ options \in Options
    /\ registered \in Programs
    /\ mode \in {"list", "run"}
    /\ wanted = Nothing
    /\ listed = << >>
    /\ Fresh

-----------------------------------------------------------------------------
(* Finite sets in some order, and parts of sequences                       *)

(* The elements of S, each after those that are before it.                 *)
Ordered(S, before) ==
    [n \in 1 .. Cardinality(S) |->
        CHOOSE x \in S : Cardinality({y \in S : << y, x >> \in before}) = n - 1]

Ascending(P) == Ordered(P, {m \in P \X P : m[1] < m[2]})

(* The elements of s at the positions in P.                                *)
Select(s, P) == [n \in DOMAIN Ascending(P) |-> s[Ascending(P)[n]]]

-----------------------------------------------------------------------------
Goto(place) == stage' = place /\ UNCHANGED exit
End(code)   == stage' = "over" /\ exit' = code

-----------------------------------------------------------------------------
(* The command line and what can fail before a file is read                *)

(* --help, wrong arguments and --name beside --list-scenarios are          *)
(* CLI::ParseErrors; loading a plugin or parsing a tag expression throws.  *)
ParseCommandLine ==
    /\ stage = "start"
    /\ \/ mode = "list" /\ options.names # {} /\ End(Usage)
       \/ mode = "list" /\ options.names = {} /\ Goto("parse")
       \/ mode # "list" /\ Goto("formatters")
       \/ mode = "run" /\ \E code \in {Success, Usage} : End(code)
       \/ End(Failure)
    /\ UNCHANGED << inputVars, processVars, loadVars, ids, codeVars, testCases, announced >>

(* The options may be no JSON.                                             *)
EnableFormatters ==
    /\ stage = "formatters"
    /\ Goto("names") \/ End(Failure)
    /\ UNCHANGED << inputVars, processVars, loadVars, ids, codeVars, testCases, announced >>

(* The patterns of CTest are escaped, others may be no regular expression. *)
CreateNameRegexStrategies ==
    /\ stage = "names"
    /\ Goto("parse") \/ (mode = "run" /\ options.names # {} /\ End(Failure))
    /\ UNCHANGED << inputVars, processVars, loadVars, ids, codeVars, testCases, announced >>

-----------------------------------------------------------------------------
(* LoadPickles                                                             *)

(* The ids of the first pickles of a file: each has one and, before it,    *)
(* one for every step.                                                     *)
IdsUpTo(f, at) ==
    Cardinality(UNION {{i} \X (0 .. Len(files[f].pickles[i].steps)) : i \in 1 .. at})

(* The pickles of a file, with their ids.                                  *)
Compile(f, first) ==
    [at \in DOMAIN files[f].pickles |->
        [source |-> << f, at >>,
         id |-> first + IdsUpTo(f, at) - 1]]

ParsesTo(f) ==
    LET compiled == Compile(f, ids + files[f].nodes) IN
    /\ pickleSources' = pickleSources \o compiled
    /\ ids' = ids + files[f].nodes + IdsUpTo(f, Len(files[f].pickles))
    /\ announced' = announced
          \union {<< "source", f >>, << "document", f >>}
          \union {<< "pickle", compiled[i].id >> : i \in DOMAIN compiled}
    /\ UNCHANGED parseErrors

(* One message for every error.                                            *)
ParseErrorListener(f) == parseErrors' = parseErrors + files[f].errors

FailsToParse(f) ==
    /\ ParseErrorListener(f)
    /\ ids' = ids + files[f].nodes
    /\ announced' = announced \union {<< "source", f >>, << "parseError", f >>}
    /\ UNCHANGED pickleSources

(* The next file in the order of the set of paths.                         *)
CollectPickles ==
    /\ stage = "parse"
    /\ nextFile <= Len(files)
    /\ \/ /\ IF files[nextFile].errors = 0 THEN ParsesTo(nextFile) ELSE FailsToParse(nextFile)
          /\ nextFile' = nextFile + 1
          /\ UNCHANGED << stage, exit >>
       \/ /\ ~files[nextFile].readable
          /\ End(Failure)
          /\ UNCHANGED << nextFile, ids, parseErrors, pickleSources, announced >>
    /\ UNCHANGED << inputVars, processVars, uniqueNames, selected, codeVars, testCases >>

Pickle(s)       == files[s.source[1]].pickles[s.source[2]]
Evaluate(tag, s) == tag = Unset \/ tag \in Pickle(s).tags

Tagged == {i \in DOMAIN pickleSources : Evaluate(options.tag, pickleSources[i])}

(* One file with an error is enough.                                       *)
SlipLoadPickles ==
    /\ stage = "parse"
    /\ nextFile > Len(files)
    /\ IF parseErrors > 0 /\ pickleSources = << >>
       THEN End(Failure) /\ UNCHANGED pickleSources
       ELSE /\ pickleSources' = Select(pickleSources, Tagged)
            /\ Goto("unique")
    /\ UNCHANGED << inputVars, processVars, nextFile, parseErrors, uniqueNames, selected,
                    ids, codeVars, testCases, announced >>

LoadPickles ==
    /\ stage = "parse"
    /\ nextFile > Len(files)
    /\ IF parseErrors > 0
       THEN End(Failure) /\ UNCHANGED pickleSources
       ELSE /\ pickleSources' = Select(pickleSources, Tagged)
            /\ Goto("unique")
    /\ UNCHANGED << inputVars, processVars, nextFile, parseErrors, uniqueNames, selected,
                    ids, codeVars, testCases, announced >>

-----------------------------------------------------------------------------
(* Names, listing, and the choice of scenarios                             *)

SanitizeName(name) == [i \in DOMAIN name |-> Replacement[name[i]]]

(* Feature (or its file), rule, scenario, and the place in the examples.   *)
GetHierarchicalTestName(s) ==
    LET p == Pickle(s) IN
    SanitizeName(IF p.feature = << >> THEN files[s.source[1]].uri ELSE p.feature)
        \o SanitizeName(p.rule) \o SanitizeName(p.name) \o p.example

(* The suffix counts from 2; the names seen cannot have taken them all.    *)
MakeUnique(name, seenNames) ==
    LET Suffixed(k) == name \o << Number(k) >> IN
    IF name \notin seenNames THEN name
    ELSE Suffixed(CHOOSE k \in 2 .. Cardinality(seenNames) + 2 :
                     /\ Suffixed(k) \notin seenNames
                     /\ \A j \in 2 .. k - 1 : Suffixed(j) \in seenNames)

(* Names that depend on the order of execution.                            *)
SlipNextToName ==
    LET i == Len(uniqueNames) + 1 IN
    IF options.reverse /\ mode # "list" THEN Len(pickleSources) - i + 1 ELSE i

NextToName == Len(uniqueNames) + 1

MakeUniqueTestNames ==
    /\ stage = "unique"
    /\ Len(uniqueNames) < Len(pickleSources)
    /\ LET scenario == pickleSources[NextToName]
           seenNames == {made.name : made \in ToSet(uniqueNames)}
       IN  uniqueNames' = Append(uniqueNames,
               [name |-> MakeUnique(GetHierarchicalTestName(scenario), seenNames),
                source |-> scenario.source])
    /\ UNCHANGED << inputVars, processVars, stage, exit, nextFile, parseErrors,
                    pickleSources, selected, ids, codeVars, testCases, announced >>

AllNamed == stage = "unique" /\ Len(uniqueNames) = Len(pickleSources)

ListScenarios ==
    /\ AllNamed
    /\ mode = "list"
    /\ listed' = uniqueNames
    /\ End(Success)
    /\ UNCHANGED << inputVars, mode, wanted, loadVars, ids, codeVars, testCases, announced >>

NameRegexes == IF mode = "test" THEN {wanted.name} ELSE options.names

(* A pattern matches the name of the scenario or its unique test name.     *)
FilterByNameRegex(s) ==
    \/ NameRegexes = {}
    \/ Pickle(s).name \in NameRegexes
    \/ \E made \in ToSet(uniqueNames) : made.source = s.source /\ made.name \in NameRegexes

OrderPickles ==
    /\ AllNamed
    /\ mode # "list"
    /\ LET matching == {i \in DOMAIN pickleSources : FilterByNameRegex(pickleSources[i])}
           chosen   == Select(pickleSources, matching)
       IN
       selected' = IF options.reverse THEN Reverse(chosen) ELSE chosen
    /\ Goto("parameters")
    /\ UNCHANGED << inputVars, processVars, nextFile, parseErrors, pickleSources,
                    uniqueNames, ids, codeVars, testCases, announced >>

-----------------------------------------------------------------------------
(* EmitSupportCodeMessages                                                 *)

(* A PARAMETER does not replace a type the host has added.                 *)
LoadParameters ==
    /\ stage = "parameters"
    /\ parameters' = parameters \union Custom
    /\ Goto("ids")
    /\ UNCHANGED << inputVars, processVars, loadVars, ids, definitionIds, stepRegistry,
                    hookRegistry, testCases, announced >>

EmittedParameters == {<< "parameterType", p >> : p \in parameters}

(* Every parameter type and then every definition gets the next id.        *)
LoadIds ==
    /\ stage = "ids"
    /\ LET first == ids + Cardinality(EmittedParameters) IN
       /\ definitionIds' = [at \in DOMAIN registered |-> first + at - 1]
       /\ ids' = first + Len(registered)
    /\ announced' = announced \union EmittedParameters
    /\ Goto("steps")
    /\ UNCHANGED << inputVars, processVars, loadVars, parameters, stepRegistry,
                    hookRegistry, testCases >>

Steps == {at \in DOMAIN registered : registered[at].kind = "step"}
Hooks == DOMAIN registered \ Steps

(* The parameter types of the host alone.                                  *)
SlipResolves(d) == d.needs \in Host \union {Unset}

Resolves(d) == d.needs \in parameters \union {Unset}

(* An id of the registry's own generator.                                  *)
SlipRegisteredId(at) == ids + at

RegisteredId(at) == definitionIds[at]

(* An expression that does not parse is not caught here, unlike one with   *)
(* an undefined parameter type, and ends the process.                      *)
LoadSteps ==
    /\ stage = "steps"
    /\ IF \E at \in Steps : registered[at].text = Bad
       THEN End(Failure) /\ UNCHANGED stepRegistry
       ELSE LET found == Ascending({at \in Steps : Resolves(registered[at])}) IN
            /\ stepRegistry' = [n \in DOMAIN found |->
                                    [at |-> found[n], id |-> RegisteredId(found[n])]]
            /\ Goto("hooks")
    /\ UNCHANGED << inputVars, processVars, loadVars, ids, parameters, definitionIds,
                    hookRegistry, testCases, announced >>

LoadHooks ==
    /\ stage = "hooks"
    /\ IF \E at \in Hooks : registered[at].tag = Bad
       THEN End(Failure) /\ UNCHANGED hookRegistry
       ELSE /\ hookRegistry' = {[at |-> at, id |-> definitionIds[at]] : at \in Hooks}
            /\ Goto("emit")
    /\ UNCHANGED << inputVars, processVars, loadVars, ids, parameters, definitionIds,
                    stepRegistry, testCases, announced >>

EmittedUndefinedParameters ==
    LET resolved == {entry.at : entry \in ToSet(stepRegistry)} IN
    {<< "undefinedParameterType", at >> : at \in Steps \ resolved}

(* The definitions whose id the step registry knows.                       *)
EmittedStepDefinitions ==
    LET known == {entry.id : entry \in ToSet(stepRegistry)} IN
    {<< "stepDefinition", id >> : id \in {definitionIds[at] : at \in Steps} \intersect known}

EmittedHooks == {<< "hook", entry.id >> : entry \in hookRegistry}

EmitStepDefinitionsAndHooks ==
    /\ stage = "emit"
    /\ announced' = announced \union EmittedUndefinedParameters
                              \union EmittedStepDefinitions \union EmittedHooks
    /\ Goto("run")
    /\ UNCHANGED << inputVars, processVars, loadVars, ids, codeVars, testCases >>

-----------------------------------------------------------------------------
(* AssembleTestSuites and what follows                                     *)

(* The text of an id, and the order of texts.                              *)
Digits[id \in Nat] ==
    IF id < 10 THEN << id >> ELSE Append(Digits[id \div 10], id % 10)

TextBefore(a, b) ==
    \E i \in DOMAIN b :
        /\ \A j \in 1 .. i - 1 : j \in DOMAIN a /\ a[j] = b[j]
        /\ i \in DOMAIN a => a[i] < b[i]

(* The map of hooks is in the order of the texts of their ids.             *)
FindIds(hookType, s) ==
    LET found == {entry.id : entry \in
                    {e \in hookRegistry : /\ registered[e.at].kind = hookType
                                          /\ Evaluate(registered[e.at].tag, s)}}
    IN  Ordered(found, {m \in found \X found : TextBefore(Digits[m[1]], Digits[m[2]])})

MatchStepDefinitions(text) ==
    LET found == Select(stepRegistry, {n \in DOMAIN stepRegistry :
                                          registered[stepRegistry[n].at].text = text})
    IN  [n \in DOMAIN found |-> found[n].id]

(* The ids of the test case and of its steps are left out.                 *)
TestCaseOf(s) ==
    [pickle |-> s.id,
     before |-> FindIds("before", s),
     steps  |-> [i \in DOMAIN Pickle(s).steps |-> MatchStepDefinitions(Pickle(s).steps[i])],
     after  |-> Reverse(FindIds("after", s))]

AssembleTestCase ==
    /\ stage = "run"
    /\ Len(testCases) < Len(selected)
    /\ testCases' = Append(testCases, TestCaseOf(selected[Len(testCases) + 1]))
    /\ UNCHANGED << inputVars, processVars, stage, exit, loadVars, ids, codeVars, announced >>

(* The BEFORE_ALL hooks run first; test cases are assembled if they pass.  *)
FailBeforeAll ==
    /\ stage = "run"
    /\ testCases = << >>
    /\ End(Failure)
    /\ UNCHANGED << inputVars, processVars, loadVars, ids, codeVars, testCases, announced >>

RunTests ==
    /\ stage = "run"
    /\ Len(testCases) = Len(selected)
    /\ \E code \in {Success, Failure} : End(code)
    /\ UNCHANGED << inputVars, processVars, loadVars, ids, codeVars, testCases, announced >>

(* CTest runs a test it has discovered, on the same files.  The process of *)
(* --list-scenarios has not touched what is unchanged here.                *)
DiscoveredTest ==
    /\ stage = "over"
    /\ mode = "list"
    /\ exit = Success
    /\ wanted' \in ToSet(listed)
    /\ mode' = "test"
    /\ stage' = "start" /\ exit' = Running
    /\ nextFile' = 1 /\ ids' = 0 /\ parseErrors' = 0
    /\ pickleSources' = << >> /\ uniqueNames' = << >>
    /\ announced' = {}
    /\ UNCHANGED << inputVars, listed, selected, codeVars, testCases >>

Next ==
    \/ ParseCommandLine \/ EnableFormatters \/ CreateNameRegexStrategies
    \/ CollectPickles \/ LoadPickles
    \/ MakeUniqueTestNames \/ ListScenarios \/ OrderPickles
    \/ LoadParameters \/ LoadIds \/ LoadSteps \/ LoadHooks
    \/ EmitStepDefinitionsAndHooks
    \/ AssembleTestCase \/ FailBeforeAll \/ RunTests
    \/ DiscoveredTest

Spec == Init /\ [][Next]_vars

-----------------------------------------------------------------------------
(* Properties                                                              *)

(* The tests CTest discovers have different names, and the process of a    *)
(* test, which names the scenarios again and maybe in another order, runs  *)
(* the scenario the test is named after.  It runs another one only if the  *)
(* scenario's own name is that full name.                                  *)
DiscoveryIdentifies ==
    /\ \A i, j \in DOMAIN listed : listed[i].name = listed[j].name => i = j
    /\ mode = "test" /\ stage \notin {"start", "formatters", "names", "parse", "unique", "over"} =>
          /\ \E s \in ToSet(selected) : s.source = wanted.source
          /\ \A s \in ToSet(selected) :
                s.source = wanted.source \/ Pickle(s).name = wanted.name

(* What a test case refers to has been announced by a message before it:   *)
(* readers of the messages resolve the references as they come.            *)
ReferencesResolve ==
    \A testCase \in ToSet(testCases) :
        /\ << "pickle", testCase.pickle >> \in announced
        /\ \A id \in ToSet(testCase.before) \union ToSet(testCase.after) :
              << "hook", id >> \in announced
        /\ \A i \in DOMAIN testCase.steps : \A id \in ToSet(testCase.steps[i]) :
              << "stepDefinition", id >> \in announced

(* A parse error in any file stops the run after every file was read: the  *)
(* exit code says so and nothing was registered, listed or assembled.      *)
ParseErrorStopsRun ==
    parseErrors > 0 /\ stage # "parse" =>
        /\ exit = Failure
        /\ testCases = << >>
        /\ mode = "list" => listed = << >>
        /\ \A m \in announced : m[1] \in {"source", "document", "pickle", "parseError"}
        /\ (\A f \in DOMAIN files : files[f].readable) =>
              \A f \in DOMAIN files : << "source", f >> \in announced

(* A step is matched with every registered definition of its text whose    *)
(* parameter types exist, wherever they were defined, and a definition     *)
(* that can never match is announced as having an undefined type.          *)
StepsFindTheirDefinitions ==
    \A n \in DOMAIN testCases :
        LET steps == Pickle(selected[n]).steps
            known(at) == registered[at].needs \in Host \union Custom \union {Unset}
        IN  /\ \A i \in DOMAIN steps :
                  ToSet(testCases[n].steps[i]) =
                     {definitionIds[at] : at \in
                        {d \in Steps : registered[d].text = steps[i] /\ known(d)}}
            /\ \A at \in Steps :
                  known(at) # (<< "undefinedParameterType", at >> \in announced)

(* Hooks run in the order of their definitions, AFTER hooks in reverse.    *)
HooksRunInOrder ==
    \A testCase \in ToSet(testCases) :
        /\ \A i, j \in DOMAIN testCase.before : i < j => testCase.before[i] < testCase.before[j]
        /\ \A i, j \in DOMAIN testCase.after : i < j => testCase.after[i] > testCase.after[j]
=============================================================================
