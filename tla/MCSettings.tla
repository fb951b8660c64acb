----------------------------- MODULE MCSettings -----------------------------
(***************************************************************************)
(* What decides the settings of a run, for TLC: the command line with its  *)
(* scenarios (Options), the test variables (Variables) and the secrets     *)
(* (Secrets); and the commands that make the project (Project).  The four  *)
(* share no state - Variables starts from any list that Options can leave  *)
(* behind - so that a behaviour here is a behaviour of one of them, chosen *)
(* at the start, while the others stand still.                             *)
(***************************************************************************)
EXTENDS Settings

CONSTANTS
  Parts,                     \* the modules that are checked
  Procs, Faults, MaxCommands \* Project

VARIABLES
  part,  \* the module this behaviour belongs to
  file, dirs, proc, outcome, overlap, commands  \* Project

Prj == INSTANCE Project

-----------------------------------------------------------------------------
\* The five documented forms of a variable over two values, and the
\* enumeration whose default is not allowed.
AllForms ==
  { [scalar |-> "x",  values |-> {},         default |-> None],
    [scalar |-> None, values |-> {},         default |-> None],
    [scalar |-> None, values |-> {},         default |-> "x"],
    [scalar |-> None, values |-> {"x"},      default |-> None],
    [scalar |-> None, values |-> {"x", "y"}, default |-> "y"],
    [scalar |-> None, values |-> {"x"},      default |-> "y"] }

-----------------------------------------------------------------------------
\* A scenario with every field, one that includes and modifies it, and one
\* without "cmd".

NoFlags == [flag \in {"headless", "no_logs", "skip_hooks"} |-> None]

Plain == [include |-> None, has_cmd |-> TRUE, target |-> None, flags |-> NoFlags,
          level |-> None, lib_path |-> None,
          tags |-> << >>, tags_append |-> << >>, tags_remove |-> << >>,
          vars |-> << >>, vars_append |-> << >>, vars_remove |-> << >>]

V(key, value) == [key |-> key, value |-> value]

Base == [Plain EXCEPT !.target = "t1", !.flags["headless"] = TRUE, !.level = 4,
                      !.lib_path = "p1", !.tags = <<"a">>,
                      !.vars = <<V("m", "x"), V("n", "x")>>]

Child == [Plain EXCEPT !.include = "base", !.tags_append = <<"b">>,
                       !.vars_append = <<V("m", "y")>>, !.vars_remove = <<"n">>]

Bare == [Plain EXCEPT !.include = "child", !.has_cmd = FALSE]

Scenarios == [base |-> Base, child |-> Child, bare |-> Bare]

-----------------------------------------------------------------------------
\* The names of secrets, the strings of a file and its white space.

TwoNames == {<<"a">>, <<"b">>}
FewWords == TwoNames \cup { << >>, <<" ">>, <<"a", "=", "b">> }
NoneOrOne == {[i \in 1 .. 4 |-> << >>], [i \in 1 .. 4 |-> <<" ">>]}

-----------------------------------------------------------------------------
ASSUME PartsAssumption == Parts \subseteq {"options", "variables", "secrets", "project"}
ASSUME ProjectAssumption == Prj!ConstantsOK

pVars == <<file, dirs, proc, outcome, overlap, commands>>
all   == <<part, variables, oVars, sVars, pVars>>

\* The names of Variables are interchangeable: of two values that are given, the
\* first is for "m".
Begin ==
  /\ part \in Parts
  /\ Init /\ O!Init /\ Sec!Init /\ Prj!Init
  /\ Len(given) = 2 => given[1].key = "m"
  /\ part # "variables" => given = << >>
  /\ part # "options" => opts.target = None

Advance ==
  /\ UNCHANGED part
  /\ \/ part = "options"   /\ O!Next /\ UNCHANGED <<variables, sVars, pVars>>
     \/ part = "variables" /\ Next   /\ UNCHANGED <<oVars, sVars, pVars>>
     \/ part = "secrets"   /\ Sec!Next /\ UNCHANGED <<variables, oVars, pVars>>
     \/ part = "project"   /\ Prj!Next /\ UNCHANGED <<variables, oVars, sVars>>

\* The fairness of Project.
InProject(step) ==
  part = "project" /\ step /\ UNCHANGED <<part, variables, oVars, sVars>>

Settings ==
  /\ Begin /\ [][Advance]_all
  /\ \A p \in Procs : WF_all(InProject(Prj!Step(p)))

-----------------------------------------------------------------------------
\* The strings of a scenario's variables are released once (Options).
ReleasedOnce == O!ReleasedOnce

\* No target is in the project file twice (Project).
TargetsUnique == Prj!TargetsUnique

\* What a command reports is true when it ends (Project).
ReportsTrue == Prj!ReportsTrue

\* A command ends, or stands at its question (Project).
CommandsEnd == Prj!CommandsEnd

=============================================================================
