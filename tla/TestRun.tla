------------------------------ MODULE TestRun ------------------------------
(***************************************************************************)
(* One test run of LTF: run_all_tests() and run_deferred() of ltf_test.c,  *)
(* the run record kept by ltf_state.c, the hook loop of ltf_hooks.c and    *)
(* the log file callbacks of test_logs.c.                                  *)
(*                                                                         *)
(* Lua code of the user (a test body, a hook, a deferred function) runs    *)
(* inside lua_pcall.  It is a process that may log, register defers,       *)
(* return or raise, at most MaxSteps[kind] calls per activation; what lies *)
(* between two such calls is one C code path and one action here.          *)
(***************************************************************************)
EXTENDS Integers, Sequences, FiniteSets

CONSTANTS
  Amount,        \* number of queued test cases, da_size(test_case_get_all())
  HookCount,     \* hooks registered for each event
  Levels,        \* log levels the user code logs at
  LogLevel,      \* opts->log_level, the threshold of the output log file
  Headless,      \* opts->headless: no SIGINT handler is installed
  NoLogs,        \* opts->no_logs: no log files
  DeferCallers,  \* kinds of user code that call ltf.defer
  MaxSteps       \* bound on the log and defer calls of one activation, by kind

HookFn == {"test_run_started", "test_started",
           "test_finished", "test_run_finished"}

UserCode == {"body", "hook", "defer"}

CRITICAL == 0
ERROR    == 1
TRACE    == 5

ASSUME AmountAssumption       == Amount \in Nat \ {0}
ASSUME HookCountAssumption    == HookCount \in [HookFn -> Nat]
ASSUME LevelsAssumption       == Levels \subseteq CRITICAL..TRACE
ASSUME LogLevelAssumption     == LogLevel \in CRITICAL..TRACE
ASSUME OptsAssumption         == Headless \in BOOLEAN /\ NoLogs \in BOOLEAN
ASSUME DeferCallersAssumption == DeferCallers \subseteq UserCode
ASSUME MaxStepsAssumption     == MaxSteps \in [UserCode -> Nat]

VARIABLES
  pc,                  \* control point of run_all_tests, or how the process ended
  rc,                  \* result of the lua_pcall in progress
  steps,               \* calls made by the user code in progress
  started,             \* da_size(state->tests); the current test is the last one
  tests,               \* state->tests
  passed,              \* the counter local to run_all_tests
  test_marked_failed,
  passed_amount,
  failed_amount,
  finished_amount,
  current_stage,
  hook,                \* the event and the index of the hook loop
  defer_list,          \* DEFER_LIST_KEY of the Lua registry, << >> for nil
  defer_i,             \* index of the loop of run_deferred
  defer_status,        \* its `status` argument
  registered,          \* history: every ltf.defer call, its index is the defer's id
  ran,                 \* history: every deferred call made by run_deferred
  sigint,              \* the flag set by on_sigint
  log_file,            \* output_log_file: none with --no-logs, open, closed
  raw_log,             \* the tests written to the raw JSON log, << >> before
  exitcode

recordVars == <<started, tests, passed_amount, failed_amount, finished_amount>>
deferVars  == <<defer_list, defer_i, defer_status, registered, ran>>
logVars    == <<log_file, raw_log>>
userVars   == <<rc, steps>>
vars == <<pc, userVars, recordVars, passed, test_marked_failed, current_stage,
          hook, deferVars, sigint, logVars, exitcode>>

-----------------------------------------------------------------------------
\* The records of ltf_state.h.  An output keeps its level and, for its file
\* and line, the kind of code that logged it; "late_hook" is a test_started hook
\* after the first.
Source == UserCode \cup {"late_hook"}
Output == [level : CRITICAL..TRACE, from : Source]

Unsettled == {"none", "running"}
Teardown  == {"teardown_after_passed", "teardown_after_failed"}
Passing   == {"passed", "teardown_after_passed"}
Failing   == {"failed", "teardown_after_failed"}
Status    == Unsettled \cup Passing \cup Failing

Test == [status           : Status,
         outputs          : Seq(Output),
         failure_reasons  : Seq(Output),
         teardown_outputs : Seq(Output),
         teardown_errors  : Nat]

NewTest(status) == [status           |-> status,
                    outputs          |-> << >>,
                    failure_reasons  |-> << >>,
                    teardown_outputs |-> << >>,
                    teardown_errors  |-> 0]

Defer == [test : 0..Amount, by : UserCode, args : BOOLEAN]
Call  == [id : Nat \ {0}, test : 1..Amount,
          arg : {"passed", "failed", "user"}, rc : {"none", "ok", "error"}]

Ended == {"done", "exited", "killed", "aborted", "crashed"}
Point == {"run_start", "hooks", "loop", "run_deferred", "defers", "sigcheck",
          "exit"} \cup UserCode \cup Ended

TestIds == 1..Amount

Init ==
  /\ pc = "run_start"
  /\ rc = "none"
  /\ steps = 0
  /\ started = 0
  /\ tests = [k \in TestIds |-> NewTest("none")]
  /\ passed = 0
  /\ test_marked_failed = FALSE
  /\ passed_amount = 0
  /\ failed_amount = 0
  /\ finished_amount = 0
  /\ current_stage = "TEST_STAGE"
  /\ hook = [fn |-> "test_run_started", index |-> 0]
  /\ defer_list = << >>
  /\ defer_i = 0
  /\ defer_status = "passed"
  /\ registered = << >>
  /\ ran = << >>
  /\ sigint = FALSE
  /\ log_file = IF NoLogs THEN "none" ELSE "open"
  /\ raw_log = << >>
  /\ exitcode = "none"

-----------------------------------------------------------------------------
\* ltf_hooks_run: HOOK_STAGE is entered once, before the loop, and left after
\* every hook, whether it returned or raised.

\* Mutant: the loop never enters HOOK_STAGE.
CallHooksNoStage(fn) ==
  /\ pc' = "hooks"
  /\ hook' = [fn |-> fn, index |-> 0]
  /\ UNCHANGED current_stage

CallHooks(fn) ==
  /\ pc' = "hooks"
  /\ hook' = [fn |-> fn, index |-> 0]
  /\ current_stage' = "HOOK_STAGE"

StartHook ==
  /\ pc = "hooks"
  /\ hook.index < HookCount[hook.fn]
  /\ pc' = "hook"
  /\ rc' = "none"
  /\ steps' = 0
  /\ UNCHANGED <<recordVars, passed, test_marked_failed, current_stage, hook,
                 deferVars, sigint, logVars, exitcode>>

\* Mutant: a raising hook is run again.
FinishHookRetry ==
  /\ pc = "hook"
  /\ rc # "none"
  /\ pc' = "hooks"
  /\ hook' = [hook EXCEPT !.index = IF rc = "error" THEN @ ELSE @ + 1]
  /\ current_stage' = "TEST_STAGE"
  /\ UNCHANGED <<userVars, recordVars, passed, test_marked_failed, deferVars,
                 sigint, logVars, exitcode>>

FinishHook ==
  /\ pc = "hook"
  /\ rc # "none"
  /\ pc' = "hooks"
  /\ hook' = [hook EXCEPT !.index = @ + 1]
  /\ current_stage' = "TEST_STAGE"
  /\ UNCHANGED <<userVars, recordVars, passed, test_marked_failed, deferVars,
                 sigint, logVars, exitcode>>

AfterHooks == [fn \in HookFn |->
                 CASE fn = "test_started"      -> "body"
                   [] fn = "test_run_finished" -> "exit"
                   [] OTHER                    -> "loop"]

HooksReturn ==
  /\ pc = "hooks"
  /\ hook.index >= HookCount[hook.fn]
  /\ pc' = AfterHooks[hook.fn]
  /\ rc' = "none"
  /\ steps' = 0
  /\ current_stage' = IF HookCount[hook.fn] = 0 THEN "TEST_STAGE"
                                               ELSE current_stage
  /\ UNCHANGED <<recordVars, passed, test_marked_failed, hook, deferVars,
                 sigint, logVars, exitcode>>

-----------------------------------------------------------------------------
\* The loop of run_all_tests.

StartRun ==
  /\ pc = "run_start"
  /\ CallHooks("test_run_started")
  /\ UNCHANGED <<userVars, recordVars, passed, test_marked_failed, deferVars,
                 sigint, logVars, exitcode>>

\* Mutant: the loop runs up to and including the amount of tests.
StartTestPastEnd ==
  /\ pc = "loop"
  /\ started <= Amount
  /\ test_marked_failed' = FALSE
  /\ started' = started + 1
  /\ tests' = [tests EXCEPT ![started + 1] = NewTest("running")]
  /\ CallHooks("test_started")
  /\ UNCHANGED <<userVars, passed, passed_amount, failed_amount,
                 finished_amount, deferVars, sigint, logVars, exitcode>>

\* Mutant: test_marked_failed is not reset.
StartTestNoReset ==
  /\ pc = "loop"
  /\ started < Amount
  /\ started' = started + 1
  /\ tests' = [tests EXCEPT ![started + 1] = NewTest("running")]
  /\ CallHooks("test_started")
  /\ UNCHANGED <<userVars, passed, test_marked_failed, passed_amount,
                 failed_amount, finished_amount, deferVars, sigint, logVars,
                 exitcode>>

StartTest ==
  /\ pc = "loop"
  /\ started < Amount
  /\ test_marked_failed' = FALSE
  /\ started' = started + 1
  /\ tests' = [tests EXCEPT ![started + 1] = NewTest("running")]
  /\ CallHooks("test_started")
  /\ UNCHANGED <<userVars, passed, passed_amount, failed_amount,
                 finished_amount, deferVars, sigint, logVars,
                 exitcode>>

\* Mutant: a body that returned counts as passed though it logged an error.
FinishBodyCountsMarked ==
  LET verdict == IF rc = "ok" /\ ~test_marked_failed THEN "passed" ELSE "failed"
      raised  == [level |-> CRITICAL, from |-> "body"]
  IN
  /\ pc = "body"
  /\ rc # "none"
  /\ tests' = [tests EXCEPT
       ![started].status = verdict,
       ![started].failure_reasons = IF rc = "error" THEN Append(@, raised)
                                                    ELSE @]
  /\ finished_amount' = finished_amount + 1
  /\ passed_amount' = IF verdict = "passed" THEN passed_amount + 1
                                            ELSE passed_amount
  /\ failed_amount' = IF verdict = "failed" THEN failed_amount + 1
                                            ELSE failed_amount
  /\ passed' = IF rc = "ok" THEN passed + 1 ELSE passed
  /\ defer_status' = IF rc = "ok" THEN "passed" ELSE "failed"
  /\ pc' = "run_deferred"
  /\ UNCHANGED <<userVars, started, test_marked_failed, current_stage, hook,
                 defer_list, defer_i, registered, ran, sigint,
                 logVars, exitcode>>

\* ltf_state_test_passed / ltf_state_test_failed on the result of the body.
\* A failure by log_error alone adds no reason: its reasons are already there.
FinishBody ==
  LET verdict == IF rc = "ok" /\ ~test_marked_failed THEN "passed" ELSE "failed"
      raised  == [level |-> CRITICAL, from |-> "body"]
  IN
  /\ pc = "body"
  /\ rc # "none"
  /\ tests' = [tests EXCEPT
       ![started].status = verdict,
       ![started].failure_reasons = IF rc = "error" THEN Append(@, raised)
                                                    ELSE @]
  /\ finished_amount' = finished_amount + 1
  /\ passed_amount' = IF verdict = "passed" THEN passed_amount + 1
                                            ELSE passed_amount
  /\ failed_amount' = IF verdict = "failed" THEN failed_amount + 1
                                            ELSE failed_amount
  /\ passed' = IF verdict = "passed" THEN passed + 1 ELSE passed
  /\ defer_status' = IF rc = "ok" THEN "passed" ELSE "failed"
  /\ pc' = "run_deferred"
  /\ UNCHANGED <<userVars, started, test_marked_failed, current_stage, hook,
                 defer_list, defer_i, registered, ran, sigint,
                 logVars, exitcode>>

\* The check of the sigint flag, once per test, after its defers.
CheckSigint ==
  /\ pc = "sigcheck"
  /\ IF sigint
       THEN /\ pc' = "exited"
            /\ exitcode' = "130"
            /\ UNCHANGED <<hook, current_stage>>
       ELSE /\ CallHooks("test_finished")
            /\ UNCHANGED exitcode
  /\ UNCHANGED <<userVars, recordVars, passed, test_marked_failed, deferVars,
                 sigint, logVars>>

\* Mutant: SIGINT leaves the loop, and the run is reported as if it was over.
FinishRunEarly ==
  /\ pc = "loop"
  /\ started = Amount \/ sigint
  /\ raw_log' = IF log_file = "open" THEN tests ELSE raw_log
  /\ log_file' = IF log_file = "open" THEN "closed" ELSE log_file
  /\ CallHooks("test_run_finished")
  /\ UNCHANGED <<userVars, recordVars, passed, test_marked_failed, deferVars,
                 sigint, exitcode>>

\* ltf_state_test_run_finished: its log callback saves the raw log and closes
\* the output log, then the last hooks run.
FinishRun ==
  /\ pc = "loop"
  /\ started = Amount
  /\ raw_log' = IF log_file = "open" THEN tests ELSE raw_log
  /\ log_file' = IF log_file = "open" THEN "closed" ELSE log_file
  /\ CallHooks("test_run_finished")
  /\ UNCHANGED <<userVars, recordVars, passed, test_marked_failed, deferVars,
                 sigint, exitcode>>

\* Mutant: the exit code only says that the run was finished.
ExitOnFinished ==
  /\ pc = "exit"
  /\ exitcode' = IF finished_amount = Amount THEN "EXIT_SUCCESS"
                                              ELSE "EXIT_FAILURE"
  /\ pc' = "done"
  /\ UNCHANGED <<userVars, recordVars, passed, test_marked_failed,
                 current_stage, hook, deferVars, sigint, logVars>>

Exit ==
  /\ pc = "exit"
  /\ exitcode' = IF passed = Amount THEN "EXIT_SUCCESS" ELSE "EXIT_FAILURE"
  /\ pc' = "done"
  /\ UNCHANGED <<userVars, recordVars, passed, test_marked_failed,
                 current_stage, hook, deferVars, sigint, logVars>>

-----------------------------------------------------------------------------
\* run_deferred.

\* Mutant: the sigint check belongs to run_deferred, which returns early.
SkipDeferredAndCheck ==
  /\ pc = "run_deferred"
  /\ defer_list = << >>
  /\ CallHooks("test_finished")
  /\ UNCHANGED <<userVars, recordVars, passed, test_marked_failed, deferVars,
                 sigint, logVars, exitcode>>

SkipDeferred ==
  /\ pc = "run_deferred"
  /\ defer_list = << >>
  /\ pc' = "sigcheck"
  /\ UNCHANGED <<userVars, recordVars, passed, test_marked_failed,
                 current_stage, hook, deferVars, sigint, logVars,
                 exitcode>>

\* Mutant: the loop starts at the last index but one.
StartDeferredShort ==
  /\ pc = "run_deferred"
  /\ defer_list # << >>
  /\ tests' = [tests EXCEPT ![started].status =
                 IF @ = "failed" THEN "teardown_after_failed"
                                 ELSE "teardown_after_passed"]
  /\ defer_i' = Len(defer_list) - 1
  /\ pc' = "defers"
  /\ UNCHANGED <<userVars, started, passed_amount, failed_amount,
                 finished_amount, passed, test_marked_failed, current_stage,
                 hook, defer_list, defer_status, registered, ran,
                 sigint, logVars, exitcode>>

StartDeferred ==
  /\ pc = "run_deferred"
  /\ defer_list # << >>
  /\ tests' = [tests EXCEPT ![started].status =
                 IF @ = "failed" THEN "teardown_after_failed"
                                 ELSE "teardown_after_passed"]
  /\ defer_i' = Len(defer_list)
  /\ pc' = "defers"
  /\ UNCHANGED <<userVars, started, passed_amount, failed_amount,
                 finished_amount, passed, test_marked_failed, current_stage,
                 hook, defer_list, defer_status, registered, ran,
                 sigint, logVars, exitcode>>

StartDefer ==
  /\ pc = "defers"
  /\ defer_i >= 1
  /\ LET id == defer_list[defer_i] IN
       ran' = Append(ran, [id   |-> id,
                           test |-> started,
                           arg  |-> IF registered[id].args THEN "user"
                                                           ELSE defer_status,
                           rc   |-> "none"])
  /\ pc' = "defer"
  /\ rc' = "none"
  /\ steps' = 0
  /\ UNCHANGED <<recordVars, passed, test_marked_failed, current_stage, hook,
                 defer_list, defer_i, defer_status, registered,
                 sigint, logVars, exitcode>>

\* Mutant: the failure of the first registered function is lost.
FinishDeferSilent ==
  /\ pc = "defer"
  /\ rc # "none"
  /\ ran' = [ran EXCEPT ![Len(ran)].rc = rc]
  /\ tests' = [tests EXCEPT ![started].teardown_errors =
                 IF rc = "error" /\ defer_i > 1 THEN @ + 1 ELSE @]
  /\ defer_i' = defer_i - 1
  /\ pc' = "defers"
  /\ UNCHANGED <<userVars, started, passed_amount, failed_amount,
                 finished_amount, passed, test_marked_failed, current_stage,
                 hook, defer_list, defer_status, registered, sigint,
                 logVars, exitcode>>

\* A raising defer is reported by ltf_state_test_defer_failed.
FinishDefer ==
  /\ pc = "defer"
  /\ rc # "none"
  /\ ran' = [ran EXCEPT ![Len(ran)].rc = rc]
  /\ tests' = [tests EXCEPT ![started].teardown_errors =
                 IF rc = "error" THEN @ + 1 ELSE @]
  /\ defer_i' = defer_i - 1
  /\ pc' = "defers"
  /\ UNCHANGED <<userVars, started, passed_amount, failed_amount,
                 finished_amount, passed, test_marked_failed, current_stage,
                 hook, defer_list, defer_status, registered, sigint,
                 logVars, exitcode>>

\* ltf_state_test_defer_queue_finished, then the list is set to nil.
FinishDeferred ==
  /\ pc = "defers"
  /\ defer_i = 0
  /\ tests' = [tests EXCEPT ![started].status =
                 IF @ = "teardown_after_failed" THEN "failed" ELSE "passed"]
  /\ defer_list' = << >>
  /\ pc' = "sigcheck"
  /\ UNCHANGED <<userVars, started, passed_amount, failed_amount,
                 finished_amount, passed, test_marked_failed, current_stage,
                 hook, defer_i, defer_status, registered, ran,
                 sigint, logVars, exitcode>>

-----------------------------------------------------------------------------
\* Calls of the user code into the library.

Running == pc \in UserCode /\ rc = "none"

Author == IF pc = "hook" /\ hook.fn = "test_started" /\ hook.index > 0 THEN "late_hook"
          ELSE pc

\* ltf_state_get_current_test asserts that a test was started.
LogAborts == current_stage = "TEST_STAGE" /\ started = 0

\* Mutant: outputs of a settled test are recorded too.
RecordedAlways(test, o) ==
  CASE test.status = "running" ->
         [test EXCEPT !.outputs = Append(@, o),
                      !.failure_reasons =
                         IF o.level = ERROR THEN Append(@, o) ELSE @]
    [] test.status \in Teardown ->
         [test EXCEPT !.teardown_outputs = Append(@, o)]
    [] OTHER -> [test EXCEPT !.outputs = Append(@, o)]

\* What ltf_state_log keeps of an output, by the status of the current test.
Recorded(test, o) ==
  CASE test.status = "running" ->
         [test EXCEPT !.outputs = Append(@, o),
                      !.failure_reasons =
                         IF o.level = ERROR THEN Append(@, o) ELSE @]
    [] test.status \in Teardown ->
         [test EXCEPT !.teardown_outputs = Append(@, o)]
    [] OTHER -> test

\* ltf_log_test and ltf_log_hook write to the output log file; writing to a
\* closed FILE is undefined, the process goes on or crashes.
WriteLog(level) ==
  IF log_file = "closed" /\ level <= LogLevel
    THEN pc' \in {pc, "crashed"}
    ELSE UNCHANGED pc

\* log_helper and ltf_state_log.  A critical log raises, unless the user code
\* called it under its own pcall (caught).
Log(level, caught) ==
  /\ Running
  /\ steps < MaxSteps[pc]
  /\ caught => level = CRITICAL
  /\ ~LogAborts
  /\ IF current_stage = "TEST_STAGE"
       THEN /\ tests' = [tests EXCEPT ![started] =
                           Recorded(@, [level |-> level, from |-> Author])]
            /\ test_marked_failed' =
                 (test_marked_failed \/ (level = ERROR /\ tests[started].status = "running"))
       ELSE UNCHANGED <<tests, test_marked_failed>>
  /\ WriteLog(level)
  /\ steps' = steps + 1
  /\ rc' = IF level = CRITICAL /\ ~caught THEN "error" ELSE rc
  /\ UNCHANGED <<started, passed_amount, failed_amount, finished_amount,
                 passed, current_stage, hook, deferVars, sigint,
                 log_file, raw_log, exitcode>>

LogAbort ==
  /\ Running
  /\ steps < MaxSteps[pc]
  /\ LogAborts
  /\ pc' = "aborted"
  /\ UNCHANGED <<userVars, recordVars, passed, test_marked_failed,
                 current_stage, hook, deferVars, sigint, logVars,
                 exitcode>>

\* l_module_ltf_defer, with or without arguments for the function.
RegisterDefer(args) ==
  /\ Running
  /\ pc \in DeferCallers
  /\ steps < MaxSteps[pc]
  /\ registered' = Append(registered,
                          [test |-> started, by |-> pc, args |-> args])
  /\ defer_list' = Append(defer_list, Len(registered) + 1)
  /\ steps' = steps + 1
  /\ UNCHANGED <<pc, rc, recordVars, passed, test_marked_failed,
                 current_stage, hook, defer_i, defer_status, ran,
                 sigint, logVars, exitcode>>

\* The user code returns or raises, which ends the lua_pcall.
Return(result) ==
  /\ Running
  /\ rc' = result
  /\ UNCHANGED <<pc, steps, recordVars, passed, test_marked_failed,
                 current_stage, hook, deferVars, sigint, logVars,
                 exitcode>>

-----------------------------------------------------------------------------
\* SIGINT: on_sigint sets the flag; in headless mode no handler is installed
\* and the default action kills the process.
Sigint ==
  /\ pc \notin Ended
  /\ ~sigint
  /\ IF Headless THEN pc' = "killed" ELSE UNCHANGED pc
  /\ sigint' = TRUE
  /\ UNCHANGED <<userVars, recordVars, passed, test_marked_failed,
                 current_stage, hook, deferVars, logVars, exitcode>>

Terminated ==
  /\ pc \in Ended
  /\ UNCHANGED vars

User ==
  \/ \E level \in Levels, caught \in BOOLEAN : Log(level, caught)
  \/ LogAbort
  \/ \E args \in BOOLEAN : RegisterDefer(args)
  \/ \E result \in {"ok", "error"} : Return(result)

Runner ==
  \/ StartRun \/ StartTest \/ FinishBody \/ CheckSigint \/ FinishRun \/ Exit
  \/ StartHook \/ FinishHook \/ HooksReturn
  \/ SkipDeferred \/ StartDeferred \/ StartDefer \/ FinishDefer
  \/ FinishDeferred

Next == Runner \/ User \/ Sigint \/ Terminated

Spec == Init /\ [][Next]_vars

\* The process is one thread that never waits: the next C step is taken, and
\* user code that makes finitely many calls comes back from its lua_pcall.
FairSpec == Spec /\ WF_vars(Runner \/ User)

-----------------------------------------------------------------------------
\* Vocabulary of the properties.

Settled(k)  == tests[k].status \in {"passed", "failed"}

\* run_deferred came back for test k.
TornDown(k) == Settled(k) /\ (k = started => pc \notin {"run_deferred", "killed"})

BodyDefers(k) == {id \in DOMAIN registered :
                    registered[id].test = k /\ registered[id].by = "body"}
Calls(id)     == {r \in DOMAIN ran : ran[r].id = id}

PassedTests == {k \in TestIds : tests[k].status \in Passing}
FailedTests == {k \in TestIds : tests[k].status \in Failing}

-----------------------------------------------------------------------------
\* Every variable stays in its type.
TypeOK ==
  /\ pc \in Point
  /\ rc \in {"none", "ok", "error"}
  /\ steps \in Nat
  /\ started \in 0..Amount
  /\ tests \in [TestIds -> Test]
  /\ passed \in Nat
  /\ test_marked_failed \in BOOLEAN
  /\ passed_amount \in Nat
  /\ failed_amount \in Nat
  /\ finished_amount \in Nat
  /\ current_stage \in {"TEST_STAGE", "HOOK_STAGE"}
  /\ hook \in [fn : HookFn, index : Nat]
  /\ defer_list \in Seq(Nat \ {0})
  /\ defer_i \in Nat
  /\ defer_status \in {"passed", "failed"}
  /\ registered \in Seq(Defer)
  /\ ran \in Seq(Call)
  /\ sigint \in BOOLEAN
  /\ log_file \in {"none", "open", "closed"}
  /\ raw_log \in {<< >>} \cup [TestIds -> Test]
  /\ exitcode \in {"none", "EXIT_SUCCESS", "EXIT_FAILURE", "130"}

\* The counters that the summary and the raw log print agree with the verdicts
\* of the recorded tests at every moment, teardown included; the counter the
\* exit code is computed from is the recorded one.
Accounting ==
  /\ passed_amount = Cardinality(PassedTests)
  /\ failed_amount = Cardinality(FailedTests)
  /\ finished_amount = passed_amount + failed_amount
  /\ passed = passed_amount

\* A failed test always carries a reason and a passed one none: log_error marks
\* the test it was called in, and the mark never leaks into another test.
VerdictHasReason ==
  \A k \in TestIds :
    /\ tests[k].status \in Failing => tests[k].failure_reasons # << >>
    /\ tests[k].status \in Passing => tests[k].failure_reasons = << >>

\* The deferred functions that the body of a test registered unwind: each runs
\* exactly once, as part of that test's teardown, last registered first,
\* whatever the outcome of the body, of the other deferred functions and of a
\* pending SIGINT.
DefersUnwind ==
  /\ \A k \in 1..started : TornDown(k) =>
       \A id \in BodyDefers(k) :
         \E r \in Calls(id) : Calls(id) = {r} /\ ran[r].test = k
  /\ \A r, s \in DOMAIN ran :
       r < s /\ ran[r].test = ran[s].test => ran[r].id > ran[s].id

\* Every deferred function that raised is reported in the teardown errors of
\* the test it tore down, and nothing else is.
DeferFailuresReported ==
  \A k \in 1..started :
    tests[k].teardown_errors =
      Cardinality({r \in DOMAIN ran : ran[r].test = k /\ ran[r].rc = "error"})

\* EXIT_SUCCESS means that every queued test ran and passed, EXIT_FAILURE that
\* every one ran and some failed: a run cut short has neither.
ExitCodeTruthful ==
  /\ exitcode = "EXIT_SUCCESS" => \A k \in TestIds : tests[k].status = "passed"
  /\ exitcode = "EXIT_FAILURE" => /\ \A k \in TestIds : Settled(k)
                                  /\ \E k \in TestIds : tests[k].status = "failed"

\* The raw log is the final record: every test is in it with its verdict, and
\* nothing that runs after it was saved (the run-finished hooks) changes the
\* record it was made from.
RawLogFinal ==
  raw_log # << >> => /\ raw_log = tests
                     /\ \A k \in TestIds : Settled(k)

\* What hooks log stays out of the records of the tests, however many hooks an
\* event has, with one exception: a test_started hook after the first runs in
\* TEST_STAGE and logs into the test that has just started.  The teardown
\* outputs come from deferred functions only.
OutputsApart ==
  \A k \in TestIds :
    /\ \A j \in DOMAIN tests[k].outputs :
         \/ tests[k].outputs[j].from = "body"
         \/ tests[k].outputs[j].from = "late_hook" /\ HookCount["test_started"] > 1
    /\ \A j \in DOMAIN tests[k].teardown_outputs :
         tests[k].teardown_outputs[j].from = "defer"

\* Every run ends, by whatever way.
Termination == <>(pc \in Ended)

\* A SIGINT that arrives while a test runs or is torn down ends the run with
\* exit code 130 after that test's teardown, and no other test is started.
InterruptHonoured ==
  \A k \in TestIds :
    (sigint /\ ~Headless /\ started = k
       /\ pc \in {"body", "run_deferred", "defers", "defer", "sigcheck"})
      ~> (pc = "exited" /\ exitcode = "130" /\ started = k /\ TornDown(k))

-----------------------------------------------------------------------------
\* The run as its reader sees it: the verdicts and the way the process ended.
VerdictOf == [none |-> "pending", running |-> "running",
              passed |-> "passed", teardown_after_passed |-> "passed",
              failed |-> "failed", teardown_after_failed |-> "failed"]

Outcome ==
  IF pc \notin Ended THEN "none"
  ELSE CASE exitcode = "EXIT_SUCCESS" -> "success"
         [] exitcode = "EXIT_FAILURE" -> "failure"
         [] OTHER -> "cut"

Report == INSTANCE Verdicts WITH
            verdict <- [k \in TestIds |-> VerdictOf[tests[k].status]],
            outcome <- Outcome

\* The run keeps the promise of Verdicts: tests in queue order, one lasting
\* verdict each, and a report of all of them or a run cut short.
KeepsPromise == Report!Spec

-----------------------------------------------------------------------------
\* From docs/TESTS/TEST_TEARDOWN.md, "Once a defer function is registered, it
\* will be invoked": also one registered by another deferred function.
EveryDeferRuns ==
  \A id \in DOMAIN registered :
    registered[id].test \in 1..started /\ TornDown(registered[id].test)
      => Calls(id) # {}

=============================================================================
