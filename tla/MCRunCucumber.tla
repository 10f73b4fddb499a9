---------------------------- MODULE MCRunCucumber ----------------------------
(***************************************************************************)
(* A small instance of RunCucumber for TLC.  Two scenarios "a" and one     *)
(* whose own name is "a.#2" compete for names, as do two that differ only  *)
(* in what SanitizeName replaces, a rule and a scenario, and a scenario    *)
(* whose own name is the full name of another; one file has parse errors   *)
(* and one cannot be read.  The ids of the hooks pass from 9 to 10.        *)
(***************************************************************************)
EXTENDS RunCucumber

Part(text) == << text >>
A == Part("a")
B == Part("b")
F == Part("f")
R == Part("r")

Scenario(name, tags) ==
    [name |-> name, rule |-> << >>, feature |-> << F >>, example |-> << >>,
     tags |-> tags, steps |-> << >>]

Ruled(name, rule) == [Scenario(name, {}) EXCEPT !.rule = rule]
Example(name, row) == [Scenario(name, {}) EXCEPT !.example = << Number(1), Part(row) >>]
WithSteps(name, tags, steps) == [Scenario(name, tags) EXCEPT !.steps = steps]

File(uri, pickles) ==
    [uri |-> uri, pickles |-> pickles, errors |-> 0, nodes |-> 1, readable |-> TRUE]

Broken(errors) == [File(<< Part("broken") >>, << >>) EXCEPT !.errors = errors]
Unreadable     == [File(<< Part("gone") >>, << >>) EXCEPT !.readable = FALSE]

TwiceA  == File(<< Part("one") >>, << Scenario(<< A >>, {"x"}), Scenario(<< A, Number(2) >>, {}),
                                Scenario(<< A >>, {"x"}) >>)
Rules   == File(<< Part("two") >>, << Ruled(<< A >>, << R >>), Scenario(<< R, A >>, {"x"}),
                                Scenario(<< F, A >>, {}) >>)
Similar == File(<< Part("three") >>, << Scenario(<< Part("s;") >>, {}), Scenario(<< Part("s,") >>, {"x"}),
                                  Example(<< A >>, "1"), Example(<< A >>, "2") >>)
Nameless == [File(<< Part("four") >>, << [Scenario(<< A >>, {}) EXCEPT !.feature = << >>] >>)
               EXCEPT !.pickles[1].steps = << "typed", "plain" >>]
Working == File(<< Part("five") >>, << WithSteps(<< A >>, {"x"}, << "typed", "odd" >>),
                                 WithSteps(<< B >>, {}, << "plain", "typed" >>) >>)

MCInputs == { << >>, << TwiceA >>, << TwiceA, Rules >>, << Similar, TwiceA >>, << Working >>,
              << Nameless, Working >>, << TwiceA, Broken(2) >>, << Broken(1), Working >>,
              << Unreadable, Working >>, << Working, Broken(1), Unreadable >> }

MCOptions == [tag : {Unset, "x"}, reverse : BOOLEAN, names : {{}, {<< A >>, << F, B >>}}]

Definition(kind, tag, text, needs) ==
    [kind |-> kind, tag |-> tag, text |-> text, needs |-> needs]

MCRegistered ==
    << Definition("step", Unset, "plain", Unset), Definition("before", Unset, Unset, Unset),
       Definition("after", "x", Unset, Unset), Definition("step", Unset, "typed", "colour"),
       Definition("step", Unset, "typed", "shade"), Definition("before", "x", Unset, Unset),
       Definition("step", Unset, "odd", "unknown"), Definition("after", Unset, Unset, Unset) >>

(* The same with a hook whose tag expression does not parse, and with a    *)
(* step whose own expression does not.                                     *)
MCPrograms == {MCRegistered, Append(MCRegistered, Definition("after", Bad, Unset, Unset)),
               Append(MCRegistered, Definition("step", Unset, Bad, Unset))}

MCCustom == {"colour", "size"}
MCHost   == {"shade", "size"}
MCReplacement ==
    [part \in {A, B, F, R} \union {Number(1), Number(2)} \union
              {Part(text) : text \in {"s;", "s,", "one", "two", "three", "four", "five",
                                      "broken", "gone", "1", "2"}} |->
        IF part = Part("s;") THEN Part("s,") ELSE part]
=============================================================================
