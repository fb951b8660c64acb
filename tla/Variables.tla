----------------------------- MODULE Variables -----------------------------
(***************************************************************************)
(* Test variables: registered from Lua (l_module_ltf_register_vars),       *)
(* validated once against the values given on the command line and in      *)
(* scenarios (ltf_parse_vars), recorded for the log                        *)
(* (ltf_state_register_vars) and read by the tests (l_module_ltf_get_var). *)
(* Reading changes nothing, so it is the operator Get.                     *)
(***************************************************************************)
EXTENDS Naturals, Sequences, FiniteSets, SequencesExt

CONSTANTS
  Names,     \* variable names
  Values,    \* strings
  None,      \* a null pointer
  Forms,     \* the forms that files register variables in
  MaxGiven,  \* bound on opts->vars
  MaxCalls   \* bound on the calls of register_vars

Form == [scalar  : Values \cup {None},
         values  : SUBSET Values,
         default : Values \cup {None}]

ASSUME NamesAssumption == IsFiniteSet(Names)
ASSUME NoneAssumption  == None \notin Values
ASSUME FormsAssumption ==
  /\ Forms \subseteq Form
  /\ \A f \in Forms : f.scalar # None => f.values = {} /\ f.default = None
ASSUME BoundsAssumption == MaxGiven \in Nat /\ MaxCalls \in Nat

VARIABLES
  pc,         \* the step of ltf_test
  given,      \* opts->vars
  vars,       \* the registered variables
  validated,  \* how many of them ltf_parse_vars saw
  record,     \* ltf_state->vars
  calls

variables == <<pc, given, vars, validated, record, calls>>

Pair  == [key : Names, value : Values]
Entry == [name : Names, form : Forms, final : Values \cup {None}]

Point == {"lib", "parse", "record", "tests", "run", "done", "failed"}

Repeats(names) == \E i, j \in DOMAIN names : i # j /\ names[i] = names[j]

\* set_test_vars and set_test_scenario keep the keys of opts->vars apart (CliWins
\* of module Options).
Init ==
  /\ pc = "lib"
  /\ given \in {g \in SeqOf(Pair, MaxGiven) : ~Repeats([i \in DOMAIN g |-> g[i].key])}
  /\ vars = << >>
  /\ validated = 0
  /\ record = << >>
  /\ calls = 0

-----------------------------------------------------------------------------
\* l_module_ltf_register_vars, on a table from names to forms.  The table is
\* walked in no particular order; a default that is not an allowed value
\* raises before anything is registered.

Raises(table) ==
  \E name \in DOMAIN table :
    LET f == table[name] IN
    f.default # None /\ f.values # {} /\ f.default \notin f.values

RegisterVars(table) ==
  /\ pc \in {"lib", "tests", "run"}
  /\ calls < MaxCalls
  /\ calls' = calls + 1
  /\ IF Raises(table)
       THEN /\ pc' = IF pc = "run" THEN pc ELSE "failed"
            /\ UNCHANGED vars
       ELSE /\ \E order \in SetToSeqs(DOMAIN table) :
                 vars' = vars \o [i \in DOMAIN order |-> [name  |-> order[i],
                                                          form  |-> table[order[i]],
                                                          final |-> None]]
            /\ UNCHANGED pc
  /\ UNCHANGED <<given, validated, record>>

\* Mutant: the variable that was registered last is found.
FindLast(name) ==
  CHOOSE i \in DOMAIN vars :
    /\ vars[i].name = name
    /\ \A j \in DOMAIN vars : vars[j].name = name => j <= i

\* find_var: the first variable of that name.
Find(name) ==
  CHOOSE i \in DOMAIN vars :
    /\ vars[i].name = name
    /\ \A j \in DOMAIN vars : vars[j].name = name => i <= j

Registered(name) == \E i \in DOMAIN vars : vars[i].name = name

\* l_module_ltf_get_var of a registered variable: nil for a null pointer.
Get(name) == vars[Find(name)].final

-----------------------------------------------------------------------------
\* ltf_parse_vars.

IsGiven(name) == \E i \in DOMAIN given : given[i].key = name

\* The value of the first pair with that key.
GivenFor(name) ==
  given[CHOOSE i \in DOMAIN given :
          /\ given[i].key = name
          /\ \A j \in DOMAIN given : given[j].key = name => i <= j].value

\* The value given to a variable that is not a constant, if it is allowed.
Allowed(e) ==
  IF e.form.values = {} \/ GivenFor(e.name) \in e.form.values
  THEN GivenFor(e.name) ELSE None

\* Mutant: the default is looked at before the given value.
ResolveDefaultFirst(e) ==
  IF e.form.scalar # None THEN IF IsGiven(e.name) THEN None ELSE e.form.scalar
  ELSE IF e.form.default # None THEN e.form.default
  ELSE IF IsGiven(e.name) THEN Allowed(e) ELSE None

\* The final value of a variable, None where an error is reported instead.
Resolve(e) ==
  IF e.form.scalar # None THEN IF IsGiven(e.name) THEN None ELSE e.form.scalar
  ELSE IF IsGiven(e.name) THEN Allowed(e) ELSE e.form.default

Rejected ==
  \/ Repeats([i \in DOMAIN vars |-> vars[i].name])
  \/ Repeats([i \in DOMAIN given |-> given[i].key])
  \/ \E i \in DOMAIN vars : Resolve(vars[i]) = None

ParseVars ==
  /\ pc = "parse"
  /\ vars' = [i \in DOMAIN vars |-> [vars[i] EXCEPT !.final = Resolve(vars[i])]]
  /\ validated' = Len(vars)
  /\ pc' = IF Rejected THEN "failed" ELSE "record"
  /\ UNCHANGED <<given, record, calls>>

\* ltf_state_register_vars duplicates every final value: strdup of a null
\* pointer would crash, and shows here as None in the record.
RecordVars ==
  /\ pc = "record"
  /\ record' = [i \in DOMAIN vars |->
                  [name |-> vars[i].name, value |-> vars[i].final]]
  /\ pc' = "tests"
  /\ UNCHANGED <<given, vars, validated, calls>>

-----------------------------------------------------------------------------
\* ltf_test goes on: lib is loaded, then tests and hooks, then the tests run.
Proceed ==
  /\ pc \in {"lib", "tests", "run"}
  /\ pc' = [lib |-> "parse", tests |-> "run", run |-> "done"][pc]
  /\ UNCHANGED <<given, vars, validated, record, calls>>

Terminated == pc \in {"done", "failed"} /\ UNCHANGED variables

Tables == UNION {[S -> Forms] : S \in SUBSET Names \ {{}}}

Next ==
  \/ \E table \in Tables : RegisterVars(table)
  \/ ParseVars
  \/ RecordVars
  \/ Proceed
  \/ Terminated

Spec == Init /\ [][Next]_variables

-----------------------------------------------------------------------------
Started == pc \in {"tests", "run", "done"}

\* Every variable stays in its type; in particular the record, and so the
\* duplicated strings, never hold a null pointer.
TypeOK ==
  /\ pc \in Point
  /\ given \in Seq(Pair)
  /\ vars \in Seq(Entry)
  /\ validated \in 0 .. Len(vars)
  /\ record \in Seq([name : Names, value : Values])
  /\ calls \in 0 .. MaxCalls

\* Once the tests are loaded, a value given for a variable of lib is what the
\* tests read, or ltf_test failed: nothing given is ignored, be it for a
\* constant or outside the allowed values.
GivenHonoured ==
  Started =>
    \A g \in Range(given), i \in 1 .. validated :
      vars[i].name = g.key =>
        /\ Get(g.key) = g.value
        /\ vars[i].form.scalar = None
        /\ vars[i].form.values # {} => g.value \in vars[i].form.values

\* What a validated variable reads never changes again, whatever the test files
\* and the test bodies register later.
ReadsStable ==
  [][Started => \A i \in 1 .. validated :
       Get(vars[i].name)' = Get(vars[i].name)]_variables

=============================================================================
