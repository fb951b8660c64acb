----------------------------- MODULE MCRunParts ------------------------------
(***************************************************************************)
(* The parts around the loop that runs the tests, for TLC: the array that  *)
(* all lists are kept in (DynArray), the queue of tests (Loading), the     *)
(* keyword statuses (Keywords), the files of the logs (RunLogs), the run   *)
(* record and its views (RawLog) and the panel on the terminal (Tui).      *)
(* They share no state, so that a behaviour here is a behaviour of one of  *)
(* them, chosen at the start, while the others stand still.                *)
(***************************************************************************)
EXTENDS RunParts, Suite

CONSTANT Parts  \* the modules that are checked

VARIABLE part   \* the module this behaviour belongs to

ASSUME Parts \subseteq {"array", "queue", "keywords", "logs", "record", "terminal"}

-----------------------------------------------------------------------------
\* No order, one that swaps the two names, one that leaves a name out, and one
\* that repeats a name.
SomeOrders == { << >>, <<"b", "a">>, <<"b">>, <<"b", "a", "b">> }

\* What may be recorded of a test: one output, and keywords of every shape - a
\* leaf, one that is running, and children below a first, a last and a running one.
\* The messages of level 3 have a NUL, with two more bytes behind it.
Output(level) ==
  [file |-> <<"f">>, line |-> 1, date_time |-> <<"now">>, level |-> level, msg |-> <<"m">>,
   beyond |-> IF level = 3 THEN 3 ELSE 0]
Keyword(level, name, finished) ==
  [level |-> level,
   keyword |-> [name |-> <<name>>, started |-> <<"now">>, finished |-> finished,
                file |-> <<"f">>, line |-> 1]]
Leaf(level) == Keyword(level, "leaf", <<"now">>)
Open(level) == Keyword(level, "open", << >>)
Trees == { << >>,
           <<Leaf(0), Open(0)>>,
           <<Leaf(0), Leaf(1), Open(1), Leaf(2), Open(0), Open(1), Leaf(2)>>,
           <<Leaf(0), Leaf(1), Open(1)>> }

UpTo1(set) == { << >> } \cup {<<o>> : o \in set}

\* A test while its body runs, when its verdict is known, and after a teardown.
\* The keywords are recorded with the verdict; a test that failed has a reason
\* (VerdictHasReason of module TestRun); a failure of a deferred function has
\* no level, which is 0.
TestsIn(stage) ==
  LET settled == stage # "running"
      torn    == stage = "torn_down" IN
  {t \in [name             : {<<"a">>},
          description      : { << >>, <<"d">> },
          started          : {<<"t1">>},
          finished         : IF settled THEN {<<"t2">>} ELSE { << >> },
          teardown_start   : IF torn THEN {<<"t2">>} ELSE { << >> },
          teardown_end     : IF torn THEN {<<"t3">>} ELSE { << >> },
          status_str       : IF settled THEN {<<"PASSED">>, <<"FAILED">>} ELSE { << >> },
          tags             : { << >>, <<"x", "y">> },
          failure_reasons  : UpTo1({Output(1)}),
          outputs          : UpTo1({Output(3)}),
          teardown_outputs : IF torn THEN UpTo1({Output(3)}) ELSE { << >> },
          teardown_errors  : IF torn THEN UpTo1({Output(0)}) ELSE { << >> },
          keyword_statuses : IF settled THEN Trees ELSE { << >> }] :
     settled => (t.status_str = <<"FAILED">>) = (t.failure_reasons # << >>)}

\* The same test under another name, as the one that ran before.
Renamed(t) == [t EXCEPT !.name = <<"b">>, !.status_str = <<"PASSED">>, !.failure_reasons = << >>]

AmountOf(ran, status) == Len(SelectSeq(ran, LAMBDA t : t.status_str = <<status>>))

RecordsOf(ran, finished) ==
  LET passed == AmountOf(ran, "PASSED")
      failed == AmountOf(ran, "FAILED") IN
  [project_name : {<<"p">>}, ltf_version : {<<"v">>}, os : {<<"linux">>},
   os_version : {<<"o">>}, started : {<<"t0">>}, finished : {finished},
   target : { << >>, <<"t">> }, tags : {<<"x">>}, tests : {ran},
   vars : { << >>, << [name |-> "w", final |-> <<"1">>], [name |-> "v", final |-> <<"2">>] >> },
   total_amount : {2}, passed_amount : {passed}, failed_amount : {failed},
   finished_amount : {passed + failed}]

\* Two tests: the start, any point of the first or the second one, and the end,
\* also after an interrupt.
RunRecords ==
  RecordsOf(<< >>, << >>) \cup
  UNION {LET runs == {<<t>>} \cup (IF stage = "torn_down" THEN {<<Renamed(t), t>>} ELSE {}) IN
         UNION {RecordsOf(ran, << >>)
                  \cup (IF stage = "running" THEN {} ELSE RecordsOf(ran, <<"t4">>)) :
                  ran \in runs} :
           <<stage, t>> \in UNION {{s} \X TestsIn(s) : s \in {"running", "settled", "torn_down"}}}

ASSUME ConstantsOK
ASSUME K!ConstantsOK
ASSUME LogsConstantsOK
ASSUME R!RawLogConstantsOK
ASSUME T!TuiConstantsOK

-----------------------------------------------------------------------------
rVars == <<record, variables, raw, context, loaded, listing>>
tVars == <<term, ui, ui_calls, phase, shown, logs, resizes, cramped, written>>
all   == <<part, arrayVars, vars, keywordVars, logsVars, rVars, tVars>>

\* The parts that stand still do so at one initial state.
Begin ==
  /\ part \in Parts
  /\ ArrayInit /\ (part # "array" => capacity = 1)
  /\ Init /\ (part # "queue" => order = << >>)
  /\ K!Init
  /\ LogsInit /\ (part # "logs" => multitarget = FALSE)
  /\ R!Init
  /\ part # "record" => record.tests = << >> /\ record.target = << >> /\ record.vars = << >>
  /\ T!Init /\ (part # "terminal" => \A h \in Heights : term.rows <= h)

Advance ==
  /\ UNCHANGED part
  /\ \/ part = "array"    /\ ArrayNext /\ UNCHANGED <<vars, keywordVars, logsVars, rVars, tVars>>
     \/ part = "queue"    /\ Next /\ UNCHANGED <<arrayVars, keywordVars, logsVars, rVars, tVars>>
     \/ part = "keywords" /\ K!Next /\ UNCHANGED <<arrayVars, vars, logsVars, rVars, tVars>>
     \/ part = "logs"     /\ LogsNext /\ UNCHANGED <<arrayVars, vars, keywordVars, rVars, tVars>>
     \/ part = "record"   /\ R!Next /\ UNCHANGED <<arrayVars, vars, keywordVars, logsVars, tVars>>
     \/ part = "terminal" /\ T!Next /\ UNCHANGED <<arrayVars, vars, keywordVars, logsVars, rVars>>

RunParts == Begin /\ [][Advance]_all

-----------------------------------------------------------------------------
\* The raw log has what its schema requires (RawLog).
HasRequiredKeys == R!HasRequiredKeys

=============================================================================
