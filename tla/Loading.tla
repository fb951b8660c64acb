------------------------------ MODULE Loading ------------------------------
(***************************************************************************)
(* Before the tests run: ltf_test() of ltf_test.c executes the Lua files   *)
(* of the project directory by directory, the files register tests and     *)
(* hooks, test_case.c filters them by tag, overrides and orders them, and  *)
(* deinit gives everything back.                                           *)
(*                                                                         *)
(* A directory is a sequence of calls its files make; which file a call    *)
(* comes from makes no difference to the queue.  The body of a test is the *)
(* Lua registry reference it is kept under.                                *)
(***************************************************************************)
EXTENDS Integers, Sequences, FiniteSets, SequencesExt

CONSTANTS
  Names,       \* test names
  Tags,
  FilterTags,  \* opts->tags
  Orders,      \* orders of a scenario, << >> without one
  Multitarget, \* proj->multitarget
  SkipHooks,   \* opts->skip_hooks
  MaxCalls     \* bound on the calls that the files make

\* What the constants must be; the module that gives them values assumes it.
ConstantsOK ==
  /\ IsFiniteSet(Names)
  /\ FilterTags \subseteq Tags
  /\ Orders \subseteq Seq(Names)
  /\ Multitarget \in BOOLEAN /\ SkipHooks \in BOOLEAN
  /\ MaxCalls \in Nat

VARIABLES
  order,       \* opts->scenario.order
  pc,          \* the directory being loaded, or the step of ltf_test
  tests,       \* the queue of test_case.c
  refs,        \* test bodies alive in the Lua registry
  freed,       \* history: the references released, in order
  registered,  \* history: the ltf.test calls, their index is the body's reference
  hooks,       \* number of hooks queued, Uninit before ltf_hooks_init
  calls,       \* calls made so far
  exitcode

Uninit == -1

vars == <<order, pc, tests, refs, freed, registered, hooks, calls, exitcode>>

Directory == {"lib", "common", "tests", "hooks"}
Ended     == {"exited", "crashed", "aborted"}
Point     == Directory \cup {"validate", "order", "amount", "run", "deinit"} \cup Ended

Registration == [name : Names, tags : SUBSET Tags, raised : BOOLEAN]
TestCase     == [name : Names, tags : SUBSET Tags, ref : Nat \ {0}]

Init ==
  /\ order \in Orders
  /\ pc = "lib"
  /\ tests = << >>
  /\ refs = {}
  /\ freed = << >>
  /\ registered = << >>
  /\ hooks = Uninit
  /\ calls = 0
  /\ exitcode = "EXIT_FAILURE"

-----------------------------------------------------------------------------
\* test_case_enqueue.

Filtered(tags) == FilterTags # {} /\ tags \cap FilterTags = {}

Queued(name) == {i \in DOMAIN tests : tests[i].name = name}

\* Mutant: the overridden test is appended again.
EnqueueTwice(test) ==
  /\ tests' = Append(tests, test)
  /\ refs' = refs \cup {test.ref}
  /\ UNCHANGED freed

\* Mutant: an override releases the body it puts in, not the one it takes out.
EnqueueFreesNew(test) ==
  /\ tests' = IF Queued(test.name) = {} THEN Append(tests, test)
              ELSE [i \in DOMAIN tests |-> IF i \in Queued(test.name) THEN test ELSE tests[i]]
  /\ refs' = IF Queued(test.name) = {} THEN refs \cup {test.ref} ELSE refs
  /\ freed' = IF Queued(test.name) = {} THEN freed ELSE Append(freed, test.ref)

\* A test without a matching tag is released, one with a known name takes the
\* place of the first test of that name, any other goes to the end.
Enqueue(test) ==
  IF Filtered(test.tags)
    THEN /\ freed' = Append(freed, test.ref)
         /\ UNCHANGED <<tests, refs>>
    ELSE IF Queued(test.name) = {}
    THEN /\ tests' = Append(tests, test)
         /\ refs' = refs \cup {test.ref}
         /\ UNCHANGED freed
    ELSE LET i == CHOOSE i \in Queued(test.name) :
                    \A j \in Queued(test.name) : i <= j
         IN  /\ tests' = [tests EXCEPT ![i] = test]
             /\ refs' = (refs \ {tests[i].ref}) \cup {test.ref}
             /\ freed' = Append(freed, tests[i].ref)

-----------------------------------------------------------------------------
\* Calls of the Lua files at top level.

MayCall == pc \in Directory /\ calls < MaxCalls

\* l_module_ltf_register_test.
RegisterTest(name, tags) ==
  /\ MayCall
  /\ registered' = Append(registered, [name |-> name, tags |-> tags, raised |-> FALSE])
  /\ Enqueue([name |-> name, tags |-> tags, ref |-> Len(registered) + 1])
  /\ calls' = calls + 1
  /\ UNCHANGED <<order, pc, hooks, exitcode>>

\* The same, with a description or tags that are refused: by then the body has
\* its reference, which no test holds.  The file catches the error or fails; a
\* name or body that is refused takes no reference (FailDirectory).
RegisterRaises(name) ==
  /\ MayCall
  /\ registered' = Append(registered, [name |-> name, tags |-> {}, raised |-> TRUE])
  /\ refs' = refs \cup {Len(registered) + 1}
  /\ \E caught \in BOOLEAN : pc' = IF caught THEN pc ELSE "deinit"
  /\ calls' = calls + 1
  /\ UNCHANGED <<order, tests, freed, hooks, exitcode>>

\* register_hook and ltf_hooks_add_to_queue, whose state pointer is null until
\* ltf_hooks_init.
RegisterHook ==
  /\ MayCall
  /\ IF hooks = Uninit
       THEN /\ pc' = "crashed"
            /\ UNCHANGED hooks
       ELSE /\ hooks' = hooks + 1
            /\ UNCHANGED pc
  /\ calls' = calls + 1
  /\ UNCHANGED <<order, tests, refs, freed, registered, exitcode>>

\* print and ltf.log look for a current test, and there is none yet.
LogAtTop ==
  /\ MayCall
  /\ pc' = "aborted"
  /\ UNCHANGED <<order, tests, refs, freed, registered, hooks, calls, exitcode>>

-----------------------------------------------------------------------------
\* The steps of ltf_test.

AfterDirectory == [lib    |-> "validate",
                   common |-> "tests",
                   tests  |-> IF SkipHooks THEN "order" ELSE "hooks",
                   hooks  |-> "order"]

\* load_lua_dir came back; ltf_hooks_init follows the directory tests.
FinishDirectory ==
  /\ pc \in Directory
  /\ pc' = AfterDirectory[pc]
  /\ hooks' = IF pc = "tests" THEN 0 ELSE hooks
  /\ UNCHANGED <<order, tests, refs, freed, registered, calls, exitcode>>

\* A file of the directory raised: load_lua_dir returns -2.
FailDirectory ==
  /\ pc \in Directory
  /\ pc' = "deinit"
  /\ UNCHANGED <<order, tests, refs, freed, registered, hooks, calls, exitcode>>

\* ltf_parse_vars and ltf_parse_secrets.
Validate(ok) ==
  /\ pc = "validate"
  /\ pc' = IF ~ok THEN "deinit" ELSE IF Multitarget THEN "common" ELSE "tests"
  /\ UNCHANGED <<order, tests, refs, freed, registered, hooks, calls, exitcode>>

\* test_case_order_tests: shallow copies of the tests the order names, where two
\* loops find a place in the order and one in the queue; the others are dropped,
\* not released.
Placed     == {p \in (DOMAIN order) \X (DOMAIN tests) : tests[p[2]].name = order[p[1]]}
Earlier(p) == {q \in Placed : q[1] < p[1] \/ (q[1] = p[1] /\ q[2] < p[2])}
Nth(k)     == CHOOSE p \in Placed : Cardinality(Earlier(p)) = k - 1

OrderTests ==
  /\ pc = "order"
  /\ pc' = "amount"
  /\ tests' = IF order = << >> THEN tests
              ELSE [k \in 1 .. Cardinality(Placed) |-> tests[Nth(k)[2]]]
  /\ UNCHANGED <<order, refs, freed, registered, hooks, calls, exitcode>>

CheckAmount ==
  /\ pc = "amount"
  /\ pc' = IF tests = << >> THEN "deinit" ELSE "run"
  /\ UNCHANGED <<order, tests, refs, freed, registered, hooks, calls, exitcode>>

\* run_all_tests (module TestRun), by the exit code it returns; on a SIGINT it
\* exits the process and deinit never runs.
RunTests(result) ==
  /\ pc = "run"
  /\ pc' = IF result = "130" THEN "exited" ELSE "deinit"
  /\ exitcode' = result
  /\ UNCHANGED <<order, tests, refs, freed, registered, hooks, calls>>

\* test_case_free_all and ltf_hooks_deinit.  A test that is queued twice is
\* released twice, its name too, which the allocator may not survive.
QueuedTwice == ~IsInjective([i \in DOMAIN tests |-> tests[i].ref])

Deinit ==
  /\ pc = "deinit"
  /\ freed' = freed \o [i \in DOMAIN tests |-> tests[i].ref]
  /\ refs' = refs \ {tests[i].ref : i \in DOMAIN tests}
  /\ tests' = << >>
  /\ pc' \in IF QueuedTwice THEN {"exited", "crashed"} ELSE {"exited"}
  /\ UNCHANGED <<order, registered, hooks, calls, exitcode>>

Terminated == pc \in Ended /\ UNCHANGED vars

Files ==
  \/ \E name \in Names, tags \in SUBSET Tags : RegisterTest(name, tags)
  \/ \E name \in Names : RegisterRaises(name)
  \/ RegisterHook
  \/ LogAtTop

Main ==
  \/ FinishDirectory \/ FailDirectory \/ OrderTests \/ CheckAmount \/ Deinit
  \/ \E ok \in BOOLEAN : Validate(ok)
  \/ \E result \in {"EXIT_SUCCESS", "EXIT_FAILURE", "130"} : RunTests(result)

Next == Files \/ Main \/ Terminated

Spec == Init /\ [][Next]_vars

-----------------------------------------------------------------------------
\* Every variable stays in its type.
TypeOK ==
  /\ pc \in Point
  /\ tests \in Seq(TestCase)
  /\ refs \subseteq Nat \ {0}
  /\ freed \in Seq(Nat \ {0})
  /\ registered \in Seq(Registration)
  /\ hooks \in Nat \cup {Uninit}
  /\ calls \in Nat
  /\ exitcode \in {"EXIT_SUCCESS", "EXIT_FAILURE", "130"}

\* What the calls ask for, read off their history at once.  The documents agree
\* with the code on a name whose last test passed the filter, or none: of any
\* other the code keeps the last that passed, while TEST_OVERRIDING.md:3 has only
\* the one "that was registered last" executed.
Made(name)       == {r \in DOMAIN registered : registered[r].name = name /\ ~registered[r].raised}
Accepted         == {r \in DOMAIN registered :
                       ~registered[r].raised /\ ~Filtered(registered[r].tags)}
Of(name)         == {r \in Accepted : registered[r].name = name}
Undisputed(name) == Of(name) # {} => \A r \in Made(name) : \E q \in Of(name) : r <= q

\* Every queued test has the body and the tags of the last of its name.
Newest ==
  \A i \in DOMAIN tests : Undisputed(tests[i].name) =>
    /\ tests[i].ref \in Made(tests[i].name)
    /\ \A r \in Made(tests[i].name) : r <= tests[i].ref
    /\ tests[i].tags = registered[tests[i].ref].tags

Selected ==
  /\ \A r \in Accepted : Undisputed(registered[r].name) => Queued(registered[r].name) # {}
  /\ \A i \in DOMAIN tests : Of(tests[i].name) # {}
  /\ Newest
  /\ \A i, j \in DOMAIN tests : i < j =>
       \E r \in Of(tests[i].name) : \A q \in Of(tests[j].name) : r < q

\* The tests that a scenario's order names run as it names them.  Those it does
\* not name are not asked for here: the code drops them (OrderKeepsSelection).
Ordered ==
  /\ Newest
  /\ \A i \in DOMAIN tests : Of(tests[i].name) # {}
  /\ \A p \in DOMAIN order :
       Of(order[p]) # {} /\ Undisputed(order[p]) => Queued(order[p]) # {}
  /\ \A i, j \in DOMAIN tests :
       i < j /\ {tests[i].name, tests[j].name} \subseteq Range(order) =>
         \E p, q \in DOMAIN order : /\ p < q
                                    /\ order[p] = tests[i].name
                                    /\ order[q] = tests[j].name

\* However the registrations are spread over lib, common and the target's
\* directory, the queue is what they ask for until it has run: one test per
\* name, an override keeps the place of the test it replaces, a registration
\* that was filtered or raised adds nothing, and the tests that an order names
\* are all there, in that order, and no test that was not selected.
QueueIsSelection ==
  /\ pc \in Directory \cup {"validate", "order"} => Selected
  /\ pc \in {"amount", "run"} => IF order = << >> THEN Selected ELSE Ordered

NamedTwice(name) == \E p, q \in DOMAIN order : p # q /\ order[p] = name /\ order[q] = name

\* Every queued test has a body that is alive, and one of its own unless the
\* order names it more than once.
BodiesOwned ==
  \A i \in DOMAIN tests :
    /\ tests[i].ref \in refs
    /\ \A j \in DOMAIN tests :
         i # j /\ tests[i].ref = tests[j].ref => NamedTwice(tests[i].name)

\* No body is released while its test is queued.  Released twice, which the code
\* does not survive for sure, is only the body of a test that the order names
\* twice.  When deinit is done, what is left are bodies of tests that the order
\* did not name and of calls that raised; every other was released.
BodiesReleased ==
  /\ BodiesOwned
  /\ \A i, j \in DOMAIN freed :
       i # j /\ freed[i] = freed[j] => NamedTwice(registered[freed[i]].name)
  /\ refs \cap Range(freed) = {} /\ refs \cup Range(freed) = DOMAIN registered
  /\ pc = "exited" /\ exitcode # "130" =>
       \A r \in refs : \/ registered[r].raised
                       \/ order # << >> /\ registered[r].name \notin Range(order)

\* From docs/TESTS/TEST_SCENARIOS.md:48, of the tests that match the tags: "it
\* tries to reorder *that selected set* according to `order`".  Violated: the
\* tests that the order does not name never run.
OrderKeepsSelection ==
  pc \in {"amount", "run"} =>
    \A r \in Accepted : Queued(registered[r].name) # {}

=============================================================================
