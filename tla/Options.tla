------------------------------ MODULE Options ------------------------------
(***************************************************************************)
(* The options of "ltf test": cmd_parser.c handles the arguments from left *)
(* to right, ltf_test_scenarios.c reads a scenario with the scenarios it   *)
(* includes and set_test_scenario merges the result into the options,      *)
(* which ltf_test releases at its end.                                     *)
(*                                                                         *)
(* Tags, names and paths are model values.  What is allocated carries a    *)
(* pointer, so that shared strings can be told apart: a tag is             *)
(* [text, ptr], a variable [key, value, ptr] for its two strings. The list *)
(* "order" of a scenario is merged as its tags are, and left out.          *)
(***************************************************************************)
EXTENDS Naturals, Sequences, FiniteSets, SequencesExt

CONSTANTS
  Keys, Values,   \* of variables
  Tags,
  Targets,
  Paths,          \* of LTF libraries
  Files,          \* scenario files, by name: a function to their contents
  None,           \* what is not there
  MaxOptions      \* bound on the options of a command line

Flag  == {"headless", "no_logs", "skip_hooks"}
Level == 0 .. 5
Info  == 3
Critical == 0

\* ltf_log_level is an unsigned enumeration: this is -1 converted to it.
Unsigned == 6

Pair == [key : Keys, value : Values]

File == [include  : DOMAIN Files \cup {None},
         has_cmd  : BOOLEAN,
         target   : Targets \cup {None},
         flags    : [Flag -> BOOLEAN \cup {None}],
         level    : Level \cup {None},
         lib_path : Paths \cup {None},
         tags : Seq(Tags), tags_append : Seq(Tags), tags_remove : Seq(Tags),
         vars : Seq(Pair), vars_append : Seq(Pair), vars_remove : Seq(Keys)]

\* What the constants must be; the module that gives them values assumes it.
ConstantsOK ==
  /\ \A f \in DOMAIN Files :
       /\ Files[f] \in File
       /\ ~Files[f].has_cmd => /\ Files[f].level = None
                               /\ Files[f].flags = [flag \in Flag |-> None]
  /\ MaxOptions \in Nat

VARIABLES
  pc,
  opts,      \* test_opts
  level_set, \* test_opts.log_level_set
  parsed,    \* the scenario being put together
  scenario,  \* test_opts.scenario, once scenario_parsed
  stack,     \* the files whose parse is not finished, the innermost last
  next,      \* the next pointer
  freed,     \* pointers released
  twice,     \* pointers released more than once
  cli        \* history: what the command line itself asked for

vars == <<pc, opts, level_set, parsed, scenario, stack, next, freed, twice, cli>>
heap == <<next, freed, twice>>

Empty == [target |-> None, flags |-> [flag \in Flag |-> FALSE],
          level |-> Info, lib_path |-> None, tags |-> << >>, vars |-> << >>]

Init ==
  /\ pc = "options"
  /\ \E target \in Targets \cup {None} :
       /\ opts = [Empty EXCEPT !.target = target]
       /\ level_set = FALSE
       /\ cli = [target |-> target, flags |-> {}, level |-> None,
                 lib_path |-> None, tags |-> None,
                 vars |-> [k \in Keys |-> None], count |-> 0]
  /\ parsed = Empty
  /\ scenario = None
  /\ stack = << >>
  /\ next = 0
  /\ freed = {}
  /\ twice = {}

Ptrs(list) == {list[i].ptr : i \in DOMAIN list}

\* free() of strings, some perhaps not for the first time.
Free(ptrs) ==
  /\ freed' = freed \cup ptrs
  /\ twice' = twice \cup (ptrs \cap freed)

NewTags(tags, from) ==
  [i \in DOMAIN tags |-> [text |-> tags[i], ptr |-> from + i]]

-----------------------------------------------------------------------------
\* Options other than a scenario.

Option ==
  /\ pc = "options"
  /\ cli.count < MaxOptions

Counted(c) == [c EXCEPT !.count = @ + 1]

\* Mutant: the list is not emptied.
SetTagsNoReset(tags) ==
  /\ Option
  /\ opts' = [opts EXCEPT !.tags = @ \o NewTags(tags, next)]
  /\ next' = next + Len(tags)
  /\ Free(Ptrs(opts.tags))
  /\ cli' = Counted([cli EXCEPT !.tags = tags])
  /\ UNCHANGED <<level_set, pc, parsed, scenario, stack>>

\* set_test_tags: the last list stands, the tags before it are released.
SetTags(tags) ==
  /\ Option
  /\ opts' = [opts EXCEPT !.tags = NewTags(tags, next)]
  /\ next' = next + Len(tags)
  /\ Free(Ptrs(opts.tags))
  /\ cli' = Counted([cli EXCEPT !.tags = tags])
  /\ UNCHANGED <<level_set, pc, parsed, scenario, stack>>

\* set_test_vars, for one pair of its list.
SetVar(key, value) ==
  LET new == [key |-> key, value |-> value, ptr |-> next + 1]
      old == {i \in DOMAIN opts.vars : opts.vars[i].key = key}
      at  == CHOOSE i \in old : \A j \in old : i <= j
  IN  /\ Option
      /\ next' = next + 1
      /\ IF old = {}
           THEN /\ opts' = [opts EXCEPT !.vars = Append(@, new)]
                /\ UNCHANGED <<freed, twice>>
           ELSE /\ opts' = [opts EXCEPT !.vars[at] = new]
                /\ Free({opts.vars[at].ptr})
      /\ cli' = Counted([cli EXCEPT !.vars[key] = value])
      /\ UNCHANGED <<level_set, pc, parsed, scenario, stack>>

\* set_log_level, on the name of a level or on another word: a negative result
\* is meant to be refused, and no value of the enumeration is negative.
SetLevel(level) ==
  /\ Option
  /\ opts' = [opts EXCEPT !.level = level]
  /\ level_set' = TRUE
  /\ cli' = Counted([cli EXCEPT !.level = level])
  /\ UNCHANGED <<pc, parsed, scenario, stack, heap>>

\* set_test_headless, set_test_no_logs, set_skip_hooks.
SetFlag(flag) ==
  /\ Option
  /\ opts' = [opts EXCEPT !.flags[flag] = TRUE]
  /\ cli' = Counted([cli EXCEPT !.flags = @ \cup {flag}])
  /\ UNCHANGED <<level_set, pc, parsed, scenario, stack, heap>>

SetLibPath(path) ==
  /\ Option
  /\ opts' = [opts EXCEPT !.lib_path = path]
  /\ cli' = Counted([cli EXCEPT !.lib_path = path])
  /\ UNCHANGED <<level_set, pc, parsed, scenario, stack, heap>>

-----------------------------------------------------------------------------
\* A scenario: ltf_test_scenario_parse.

SetScenario(file) ==
  /\ Option
  /\ pc' = "include"
  /\ parsed' = Empty
  /\ stack' = <<file>>
  /\ cli' = Counted(cli)
  /\ UNCHANGED <<level_set, opts, scenario, heap>>

\* ltf_test_scenario_parse_file goes to the included file first.
Include ==
  /\ pc = "include"
  /\ LET file == Files[Last(stack)] IN
       IF file.include = None
         THEN pc' = "apply" /\ UNCHANGED stack
         ELSE stack' = Append(stack, file.include) /\ UNCHANGED pc
  /\ UNCHANGED <<level_set, opts, parsed, scenario, heap, cli>>

\* A file that does not exist or does not parse ends the program.
BadScenario ==
  /\ pc = "include"
  /\ pc' = "exited"
  /\ UNCHANGED <<level_set, opts, parsed, scenario, stack, heap, cli>>

\* What an entry of "tags_remove" or "vars_remove" is compared with.
NameOf(e) == IF "text" \in DOMAIN e THEN e.text ELSE e.key

NewVars(pairs, from) ==
  [i \in DOMAIN pairs |-> [key   |-> pairs[i].key,
                           value |-> pairs[i].value,
                           ptr   |-> from + i]]

\* The entries of a list in some of its places, in their order.
Nth(places, k)     == CHOOSE i \in places : Cardinality({j \in places : j < i}) = k - 1
Only(list, places) == [k \in 1 .. Cardinality(places) |-> list[Nth(places, k)]]

\* The places that are left when each removal takes away the first match.
Left(list, remove) ==
  {i \in DOMAIN list :
     Cardinality({r \in DOMAIN remove : remove[r] = NameOf(list[i])}) <
     Cardinality({j \in 1 .. i : NameOf(list[j]) = NameOf(list[i])})}

\* Appended, then removed, then replaced, if the file declares the list itself.
Applied(list, append, remove, declared) ==
  IF declared # << >> THEN declared
  ELSE Only(list \o append, Left(list \o append, remove))

Declared(new, old) == IF new = None THEN old ELSE new

\* The innermost file on the stack is merged over what it included.  A file
\* without "cmd" leaves the level at its calloc value, and flags that a file
\* does not mention are false.
ApplyFile ==
  /\ pc = "apply"
  /\ LET file == Files[Last(stack)]
         t1 == NewTags(file.tags_append, next)
         t2 == NewTags(file.tags, next + Len(t1))
         v1 == NewVars(file.vars_append, next + Len(t1) + Len(t2))
         v2 == NewVars(file.vars, next + Len(t1) + Len(t2) + Len(v1))
         new == [target   |-> Declared(file.target, parsed.target),
                 flags    |-> [flag \in Flag |-> file.flags[flag] = TRUE],
                 level    |-> IF ~file.has_cmd THEN Critical
                              ELSE Declared(file.level, parsed.level),
                 lib_path |-> Declared(file.lib_path, parsed.lib_path),
                 tags |-> Applied(parsed.tags, t1, file.tags_remove, t2),
                 vars |-> Applied(parsed.vars, v1, file.vars_remove, v2)]
         all == Ptrs(parsed.tags \o t1 \o t2) \cup Ptrs(parsed.vars \o v1 \o v2)
     IN  /\ parsed' = new
         /\ next' = next + Len(t1) + Len(t2) + Len(v1) + Len(v2)
         /\ Free(all \ (Ptrs(new.tags) \cup Ptrs(new.vars)))
  /\ stack' = Front(stack)
  /\ pc' = IF Len(stack) = 1 THEN "merge" ELSE "apply"
  /\ UNCHANGED <<level_set, opts, scenario, cli>>

\* Mutant: what was given before is not looked at.
TakenAnyway(given, new) ==
  {i \in DOMAIN new : \A j \in 1 .. i - 1 : new[j].key # new[i].key}

\* The places of the scenario's variables that have no value yet, be it from
\* before or from earlier in the scenario.
Taken(given, new) ==
  {i \in DOMAIN new : /\ \A j \in DOMAIN given : given[j].key # new[i].key
                      /\ \A j \in 1 .. i - 1 : new[j].key # new[i].key}

\* The rest of set_test_scenario.  The options share the strings they take from
\* the scenario; a variable of the scenario that was not taken is released and
\* its pointers are cleared.
Merge ==
  /\ pc = "merge"
  /\ LET taken == Taken(opts.vars, parsed.vars)
         known == DOMAIN parsed.vars \ taken
     IN  /\ opts' = [target |-> Declared(parsed.target, opts.target),
                     flags  |-> [flag \in Flag |-> opts.flags[flag] \/ parsed.flags[flag]],
                     level  |-> IF level_set THEN opts.level ELSE parsed.level,
                     lib_path |-> IF opts.lib_path = None
                                    THEN parsed.lib_path ELSE opts.lib_path,
                     tags   |-> IF opts.tags = << >> THEN << >>
                                ELSE opts.tags \o parsed.tags,
                     vars   |-> opts.vars \o Only(parsed.vars, taken)]
         /\ scenario' = [parsed EXCEPT !.vars = Only(@, taken)]
         /\ Free({parsed.vars[i].ptr : i \in known})
  /\ pc' = "options"
  /\ UNCHANGED <<level_set, parsed, stack, next, cli>>

-----------------------------------------------------------------------------
\* The rest of the program reads the options.
Parsed ==
  /\ pc = "options"
  /\ pc' = "parsed"
  /\ UNCHANGED <<level_set, opts, parsed, scenario, stack, heap, cli>>

\* A malformed argument, an unknown option or --help ends the program.
BadOption ==
  /\ pc = "options"
  /\ pc' = "exited"
  /\ UNCHANGED <<level_set, opts, parsed, scenario, stack, heap, cli>>

\* cmd_parser_free_test_options: the options, then the scenario.
Release ==
  /\ pc = "parsed"
  /\ LET own   == Ptrs(opts.tags) \cup Ptrs(opts.vars)
         theirs == IF scenario = None THEN {}
                   ELSE Ptrs(scenario.tags) \cup Ptrs(scenario.vars)
     IN  /\ freed' = freed \cup own \cup theirs
         /\ twice' = twice \cup (own \cap freed)
                           \cup (theirs \cap (freed \cup own))
  /\ pc' = "exited"
  /\ UNCHANGED <<level_set, opts, parsed, scenario, stack, next, cli>>

Terminated == pc = "exited" /\ UNCHANGED vars

Next ==
  \/ \E tags \in SeqOf(Tags, 2) : SetTags(tags)
  \/ \E key \in Keys, value \in Values : SetVar(key, value)
  \/ \E level \in Level \cup {Unsigned} : SetLevel(level)
  \/ \E flag \in Flag : SetFlag(flag)
  \/ \E path \in Paths : SetLibPath(path)
  \/ \E file \in DOMAIN Files : SetScenario(file)
  \/ Include \/ BadScenario \/ ApplyFile \/ Merge
  \/ Parsed \/ BadOption \/ Release
  \/ Terminated

Spec == Init /\ [][Next]_vars

-----------------------------------------------------------------------------
Tag == [text : Tags, ptr : Nat]
Var == [key : Keys, value : Values, ptr : Nat]

\* Every variable stays in its type, and pointers are handed out once.
TypeOK ==
  /\ pc \in {"options", "include", "apply", "merge", "parsed", "exited"}
  /\ opts.tags \in Seq(Tag) /\ parsed.tags \in Seq(Tag)
  /\ opts.vars \in Seq(Var) /\ parsed.vars \in Seq(Var)
  /\ opts.level \in Level \cup {Unsigned} /\ parsed.level \in Level
  /\ stack \in Seq(DOMAIN Files)
  /\ freed \subseteq 1 .. next /\ twice \subseteq freed
  /\ Ptrs(opts.tags \o parsed.tags) \cap Ptrs(opts.vars \o parsed.vars) = {}

\* What the command line asks for wins over every scenario, before and after
\* it: a variable given with -v has the last value given, as have the level and
\* the library path, and a flag stays.  No variable is left with two values, so
\* that the check of ltf_parse_vars for that never fires.
CliWins ==
  /\ \A i, j \in DOMAIN opts.vars : opts.vars[i].key = opts.vars[j].key => i = j
  /\ \A k \in Keys : cli.vars[k] # None =>
       \E i \in DOMAIN opts.vars :
         opts.vars[i].key = k /\ opts.vars[i].value = cli.vars[k]
  /\ cli.level # None => opts.level = cli.level
  /\ cli.lib_path # None => opts.lib_path = cli.lib_path
  /\ \A flag \in cli.flags : opts.flags[flag]

\* Until the release the options hold no string that was released, although
\* they share strings with scenarios that are replaced and overridden.
OptionsAlive ==
  pc # "exited" => (Ptrs(opts.tags) \cup Ptrs(opts.vars)) \cap freed = {}

\* A run of a scenario ends with everything allocated for it released once;
\* docs/TESTS/TEST_SCENARIOS.md:3 lets a scenario declare variables, whose
\* strings the options share with it.  Violated.
ReleasedOnce == twice = {}

=============================================================================
