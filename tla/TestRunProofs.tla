--------------------------- MODULE TestRunProofs ---------------------------
(***************************************************************************)
(* Proofs about TestRun, for every number of tests and hooks, every set of *)
(* log levels and every bound on the calls of the user code.               *)
(***************************************************************************)
EXTENDS TestRun, FiniteSetTheorems, TLAPS

\* Control points at which the current test exists.
InTest == {"body", "run_deferred", "defers", "defer", "sigcheck", "exit"}

\* What TypeOK needs to be inductive: where a current test exists, and that the
\* defer list and the loop over it stay within the registered functions.
Bounds ==
  /\ pc \in InTest => started >= 1
  /\ pc \in {"hooks", "hook"} /\ hook.fn # "test_run_started" => started >= 1
  /\ \A j \in 1..Len(defer_list) : defer_list[j] <= Len(registered)
  /\ pc \in {"defers", "defer"} => defer_i <= Len(defer_list)
  /\ pc = "defer" => defer_i >= 1 /\ ran # << >>

TypeInv == TypeOK /\ Bounds

-----------------------------------------------------------------------------
\* Updating one test by a test keeps the record of the run well typed.
LEMMA UpdateTest ==
  ASSUME NEW f \in [TestIds -> Test], NEW k \in TestIds, NEW t \in Test
  PROVE  [f EXCEPT ![k] = t] \in [TestIds -> Test]
  OBVIOUS

\* NewTest is a test whatever its status.
LEMMA NewTestType ==
  ASSUME NEW status \in Status
  PROVE  NewTest(status) \in Test
  BY DEF NewTest, Test

\* ltf_state_log turns a test into a test.
LEMMA RecordedType ==
  ASSUME NEW t \in Test, NEW o \in Output
  PROVE  Recorded(t, o) \in Test
  <1>1. /\ Append(t.outputs, o) \in Seq(Output)
        /\ Append(t.failure_reasons, o) \in Seq(Output)
        /\ Append(t.teardown_outputs, o) \in Seq(Output)
    BY DEF Test
  <1>2. CASE t.status = "running"
    BY <1>1, <1>2 DEF Recorded, Test
  <1>3. CASE t.status \in Teardown
    BY <1>1, <1>3 DEF Recorded, Test, Teardown
  <1>4. CASE t.status # "running" /\ t.status \notin Teardown
    BY <1>4 DEF Recorded
  <1> QED BY <1>2, <1>3, <1>4

LEMMA TypeInit == Init => TypeInv
  <1> SUFFICES ASSUME Init PROVE TypeInv
    OBVIOUS
  <1>1. tests \in [TestIds -> Test]
    BY NewTestType DEF Init, Status, Unsettled
  <1>2. pc \in Point /\ hook \in [fn : HookFn, index : Nat]
    BY DEF Init, Point, HookFn
  <1>3. defer_list \in Seq(Nat \ {0}) /\ registered \in Seq(Defer) /\ ran \in Seq(Call)
    BY DEF Init
  <1>4. started \in 0..Amount
    BY AmountAssumption DEF Init
  <1>5. raw_log \in {<< >>} \cup [TestIds -> Test]
    BY DEF Init
  <1>6. log_file \in {"none", "open", "closed"}
    BY DEF Init
  <1>7. TypeOK
    BY <1>1, <1>2, <1>3, <1>4, <1>5, <1>6 DEF Init, TypeOK
  <1>8. Bounds
    BY DEF Init, Bounds, InTest
  <1> QED BY <1>7, <1>8 DEF TypeInv

-----------------------------------------------------------------------------
\* The steps that move control only: the hook loop, the sigint check, the end
\* of the run, the start of run_deferred on an empty list.
LEMMA ControlStep ==
  ASSUME TypeInv,
         \/ StartHook \/ FinishHook \/ HooksReturn \/ StartRun \/ CheckSigint
         \/ FinishRun \/ Exit \/ SkipDeferred \/ LogAbort \/ Sigint
         \/ UNCHANGED vars
  PROVE  TypeInv'
  <1> USE DEF TypeInv, TypeOK, Bounds, InTest, Point, CallHooks, Ended,
              UserCode, HookFn, recordVars, userVars, deferVars, logVars
  <1>1. CASE StartHook
    BY <1>1 DEF StartHook
  <1>2. CASE FinishHook
    <2>1. hook' = [fn |-> hook.fn, index |-> hook.index + 1]
      BY <1>2 DEF FinishHook
    <2>2. hook' \in [fn : HookFn, index : Nat] /\ hook'.fn = hook.fn
      BY <2>1
    <2> QED BY <1>2, <2>2 DEF FinishHook
  <1>3. CASE HooksReturn
    BY <1>3 DEF HooksReturn, AfterHooks
  <1>4. CASE StartRun
    BY <1>4 DEF StartRun
  <1>5. CASE CheckSigint
    BY <1>5 DEF CheckSigint
  <1>6. CASE FinishRun
    <2>1. raw_log' \in {<< >>} \cup [TestIds -> Test]
      BY <1>6 DEF FinishRun
    <2>2. started >= 1
      BY <1>6, AmountAssumption DEF FinishRun
    <2> QED BY <1>6, <2>1, <2>2 DEF FinishRun
  <1>7. CASE Exit
    BY <1>7 DEF Exit
  <1>8. CASE SkipDeferred
    BY <1>8 DEF SkipDeferred
  <1>9. CASE LogAbort
    BY <1>9 DEF LogAbort, Running
  <1>10. CASE Sigint
    BY <1>10 DEF Sigint
  <1>11. CASE UNCHANGED vars
    BY <1>11 DEF vars
  <1> QED BY <1>1, <1>2, <1>3, <1>4, <1>5, <1>6, <1>7, <1>8, <1>9, <1>10, <1>11

\* A test begins: the next one exists, since the loop is bounded by Amount.
LEMMA StartTestType == TypeInv /\ StartTest => TypeInv'
  <1> SUFFICES ASSUME TypeInv, StartTest PROVE TypeInv'
    OBVIOUS
  <1> USE DEF TypeInv, StartTest, CallHooks, userVars, deferVars, logVars
  <1>1. started + 1 \in TestIds /\ started' = started + 1
    BY AmountAssumption DEF TypeOK, TestIds
  <1>2. NewTest("running") \in Test
    BY NewTestType DEF Status, Unsettled
  <1>3. tests' \in [TestIds -> Test]
    BY <1>1, <1>2, UpdateTest DEF TypeOK
  <1>4. pc' \in Point /\ hook' \in [fn : HookFn, index : Nat] /\ started' \in 0..Amount
    BY <1>1 DEF Point, HookFn, TestIds
  <1>5. TypeOK'
    BY <1>3, <1>4 DEF TypeOK
  <1>6. Bounds'
    BY <1>1 DEF TypeOK, Bounds, InTest, TestIds
  <1> QED BY <1>5, <1>6

\* The body came back: the verdict and the reason of a raise are recorded.
LEMMA FinishBodyType == TypeInv /\ FinishBody => TypeInv'
  <1> SUFFICES ASSUME TypeInv, FinishBody PROVE TypeInv'
    OBVIOUS
  <1> USE DEF TypeInv, FinishBody, userVars, logVars
  <1> DEFINE verdict == IF rc = "ok" /\ ~test_marked_failed THEN "passed" ELSE "failed"
             raised  == [level |-> CRITICAL, from |-> "body"]
             old     == tests[started]
             reasons == IF rc = "error" THEN Append(old.failure_reasons, raised)
                                        ELSE old.failure_reasons
             new     == [old EXCEPT !.status = verdict, !.failure_reasons = reasons]
  <1>1. started \in TestIds /\ old \in Test
    BY DEF TypeOK, Bounds, InTest, TestIds
  <1>2. raised \in Output
    BY DEF Output, Source, UserCode, CRITICAL, TRACE
  <1>3. reasons \in Seq(Output)
    BY <1>1, <1>2 DEF Test
  <1>4. verdict \in Status
    BY DEF Status, Passing, Failing
  <1>5. new \in Test
    BY <1>1, <1>3, <1>4 DEF Test
  <1>6. tests' = [tests EXCEPT ![started] = new]
    BY <1>1 DEF TypeOK
  <1>7. tests' \in [TestIds -> Test]
    BY <1>1, <1>5, <1>6, UpdateTest DEF TypeOK
  <1>8. /\ passed' \in Nat /\ finished_amount' \in Nat
        /\ passed_amount' \in Nat /\ failed_amount' \in Nat
    <2>1. /\ passed \in Nat /\ finished_amount \in Nat
          /\ passed_amount \in Nat /\ failed_amount \in Nat
      BY DEF TypeOK
    <2>2. /\ passed' \in {passed, passed + 1}
          /\ finished_amount' = finished_amount + 1
          /\ passed_amount' \in {passed_amount, passed_amount + 1}
          /\ failed_amount' \in {failed_amount, failed_amount + 1}
      <3> HIDE DEF TypeInv
      <3> QED OBVIOUS
    <2> HIDE DEF TypeInv, FinishBody
    <2> QED BY <2>1, <2>2
  <1>9. /\ pc' \in Point /\ defer_status' \in {"passed", "failed"}
        /\ UNCHANGED <<rc, steps, started, test_marked_failed, current_stage, hook,
                       defer_list, defer_i, registered, ran, sigint, log_file, raw_log,
                       exitcode>>
    BY DEF Point
  <1>10. TypeOK'
    <2> HIDE DEF FinishBody
    <2> QED BY <1>7, <1>8, <1>9 DEF TypeOK
  <1>11. Bounds'
    BY DEF TypeOK, Bounds, InTest
  <1> QED BY <1>10, <1>11

\* The teardown begins: its loop starts inside the list.
LEMMA StartDeferredType == TypeInv /\ StartDeferred => TypeInv'
  <1> SUFFICES ASSUME TypeInv, StartDeferred PROVE TypeInv'
    OBVIOUS
  <1> USE DEF TypeInv, StartDeferred, userVars, logVars
  <1> DEFINE old == tests[started]
             status == IF old.status = "failed" THEN "teardown_after_failed"
                                                ELSE "teardown_after_passed"
             new == [old EXCEPT !.status = status]
  <1>1. started \in TestIds /\ old \in Test
    BY DEF TypeOK, Bounds, InTest, TestIds
  <1>2. new \in Test
    BY <1>1 DEF Test, Status, Passing, Failing
  <1>3. tests' = [tests EXCEPT ![started] = new]
    BY <1>1 DEF TypeOK
  <1>4. tests' \in [TestIds -> Test]
    BY <1>1, <1>2, <1>3, UpdateTest DEF TypeOK
  <1>5. TypeOK'
    BY <1>4 DEF TypeOK, Point
  <1>6. Bounds'
    BY DEF TypeOK, Bounds, InTest
  <1> QED BY <1>5, <1>6

\* A deferred function is called: the id taken from the list is registered.
LEMMA StartDeferType == TypeInv /\ StartDefer => TypeInv'
  <1> SUFFICES ASSUME TypeInv, StartDefer PROVE TypeInv'
    OBVIOUS
  <1> USE DEF TypeInv, StartDefer, recordVars, logVars
  <1> DEFINE id   == defer_list[defer_i]
             call == [id   |-> id,
                      test |-> started,
                      arg  |-> IF registered[id].args THEN "user" ELSE defer_status,
                      rc   |-> "none"]
  <1>1. started \in 1..Amount
    BY DEF TypeOK, Bounds, InTest
  <1>2. defer_i \in 1..Len(defer_list) /\ id \in Nat \ {0}
    BY DEF TypeOK, Bounds
  <1>3. call \in Call
    BY <1>1, <1>2 DEF Call, TypeOK
  <1>4. ran' = Append(ran, call) /\ ran' \in Seq(Call) /\ ran' # << >>
    BY <1>3 DEF TypeOK
  <1>5. TypeOK'
    BY <1>4 DEF TypeOK, Point, UserCode
  <1>6. Bounds'
    BY <1>4 DEF TypeOK, Bounds, InTest
  <1> QED BY <1>5, <1>6

\* A deferred function came back: the last call made is the one that ended.
LEMMA FinishDeferType == TypeInv /\ FinishDefer => TypeInv'
  <1> SUFFICES ASSUME TypeInv, FinishDefer PROVE TypeInv'
    OBVIOUS
  <1> USE DEF TypeInv, FinishDefer, userVars, logVars
  <1> DEFINE old  == tests[started]
             n    == IF rc = "error" THEN old.teardown_errors + 1 ELSE old.teardown_errors
             new  == [old EXCEPT !.teardown_errors = n]
             call == [ran[Len(ran)] EXCEPT !.rc = rc]
  <1>1. started \in TestIds /\ old \in Test
    BY DEF TypeOK, Bounds, InTest, TestIds
  <1>2. n \in Nat
    BY <1>1 DEF Test
  <1>3. new \in Test
    BY <1>1, <1>2 DEF Test
  <1>4. tests' = [tests EXCEPT ![started] = new]
    BY <1>1 DEF TypeOK
  <1>4a. tests' \in [TestIds -> Test]
    BY <1>1, <1>3, <1>4, UpdateTest DEF TypeOK
  <1>5. Len(ran) \in 1..Len(ran) /\ ran[Len(ran)] \in Call
    BY DEF TypeOK, Bounds
  <1>6. call \in Call
    BY <1>5 DEF TypeOK, Call
  <1>7. ran' = [ran EXCEPT ![Len(ran)] = call]
    BY <1>5
  <1>8. ran' \in Seq(Call)
    BY <1>5, <1>6, <1>7 DEF TypeOK
  <1>9. defer_i' \in Nat /\ defer_i' <= defer_i
    BY DEF TypeOK, Bounds
  <1>10. TypeOK'
    BY <1>4a, <1>8, <1>9 DEF TypeOK, Point
  <1>11. Bounds'
    BY <1>9 DEF TypeOK, Bounds, InTest
  <1> QED BY <1>10, <1>11

\* The teardown is over and the list is gone.
LEMMA FinishDeferredType == TypeInv /\ FinishDeferred => TypeInv'
  <1> SUFFICES ASSUME TypeInv, FinishDeferred PROVE TypeInv'
    OBVIOUS
  <1> USE DEF TypeInv, FinishDeferred, userVars, logVars
  <1> DEFINE old == tests[started]
             status == IF old.status = "teardown_after_failed" THEN "failed" ELSE "passed"
             new == [old EXCEPT !.status = status]
  <1>1. started \in TestIds /\ old \in Test
    BY DEF TypeOK, Bounds, InTest, TestIds
  <1>2. new \in Test
    BY <1>1 DEF Test, Status, Passing, Failing
  <1>3. tests' = [tests EXCEPT ![started] = new]
    BY <1>1 DEF TypeOK
  <1>4. tests' \in [TestIds -> Test]
    BY <1>1, <1>2, <1>3, UpdateTest DEF TypeOK
  <1>5. TypeOK'
    BY <1>4 DEF TypeOK, Point
  <1>6. Bounds'
    BY DEF TypeOK, Bounds, InTest
  <1> QED BY <1>5, <1>6

\* A log call: in TEST_STAGE a current test exists, or the call aborts.
LEMMA LogType ==
  ASSUME TypeInv, NEW level \in Levels, NEW caught \in BOOLEAN, Log(level, caught)
  PROVE  TypeInv'
  <1> USE DEF TypeInv, Log, deferVars
  <1> DEFINE o   == [level |-> level, from |-> Author]
             new == Recorded(tests[started], o)
  <1>1. o \in Output
    BY LevelsAssumption DEF Output, Running, Source, Author
  <1>2. tests' \in [TestIds -> Test]
    <2>1. CASE current_stage = "TEST_STAGE"
      <3>1. started \in TestIds
        BY <2>1 DEF LogAborts, TypeOK, TestIds
      <3>2. tests' = [tests EXCEPT ![started] = new]
        BY <2>1
      <3>3. new \in Test
        BY <1>1, <3>1, RecordedType DEF TypeOK
      <3> QED BY <3>1, <3>2, <3>3, UpdateTest DEF TypeOK
    <2>2. CASE current_stage # "TEST_STAGE"
      BY <2>2 DEF TypeOK
    <2> QED BY <2>1, <2>2
  <1>3. test_marked_failed' \in BOOLEAN
    BY DEF TypeOK
  <1>4. pc' \in {pc, "crashed"} /\ pc' \in Point
    BY DEF WriteLog, TypeOK, Point, Ended
  <1>5. rc' \in {"none", "ok", "error"} /\ steps' \in Nat
    BY DEF TypeOK
  <1>6. TypeOK'
    BY <1>2, <1>3, <1>4, <1>5 DEF TypeOK
  <1>7. Bounds'
    BY <1>4 DEF TypeOK, Bounds, InTest
  <1> QED BY <1>6, <1>7

\* ltf.defer: the new id is the last registered one.
LEMMA RegisterDeferType ==
  ASSUME TypeInv, NEW args \in BOOLEAN, RegisterDefer(args)
  PROVE  TypeInv'
  <1> USE DEF TypeInv, RegisterDefer, recordVars, logVars
  <1> DEFINE d  == [test |-> started, by |-> pc, args |-> args]
             id == Len(registered) + 1
  <1>1. d \in Defer
    BY DEF Defer, Running, TypeOK
  <1>2. registered' = Append(registered, d) /\ registered' \in Seq(Defer)
    BY <1>1 DEF TypeOK
  <1>3. id \in Nat \ {0} /\ Len(registered') = id
    BY <1>2 DEF TypeOK
  <1>4. defer_list' = Append(defer_list, id) /\ defer_list' \in Seq(Nat \ {0})
    BY <1>3 DEF TypeOK
  <1>5. TypeOK'
    BY <1>2, <1>4 DEF TypeOK
  <1>6. \A j \in 1..Len(defer_list') : defer_list'[j] <= Len(registered')
    <2> SUFFICES ASSUME NEW j \in 1..Len(defer_list')
                 PROVE  defer_list'[j] <= Len(registered')
      OBVIOUS
    <2>0. /\ defer_list \in Seq(Nat \ {0}) /\ Len(registered) \in Nat
          /\ \A i \in 1..Len(defer_list) : defer_list[i] <= Len(registered)
      BY DEF TypeOK, Bounds
    <2> HIDE DEF TypeInv, RegisterDefer, id
    <2>1. CASE j = Len(defer_list) + 1
      <3>1. defer_list'[j] = id
        BY <1>3, <1>4, <2>0, <2>1
      <3> QED BY <1>3, <3>1
    <2>2. CASE j \in 1..Len(defer_list)
      <3>1. defer_list'[j] = defer_list[j]
        BY <1>3, <1>4, <2>0, <2>2
      <3>2. Len(registered') = Len(registered) + 1
        BY <1>3 DEF id
      <3>3. defer_list[j] \in Nat /\ defer_list[j] <= Len(registered)
        BY <2>0, <2>2
      <3> QED BY <2>0, <3>1, <3>2, <3>3
    <2> QED BY <1>3, <1>4, <2>0, <2>1, <2>2
  <1>7. Bounds'
    BY <1>4, <1>6 DEF TypeOK, Bounds, InTest
  <1> QED BY <1>5, <1>7

\* The user code comes back.
LEMMA ReturnType ==
  ASSUME TypeInv, NEW result \in {"ok", "error"}, Return(result)
  PROVE  TypeInv'
  BY DEF Return, TypeInv, TypeOK, Bounds, InTest, recordVars, deferVars, logVars

\* TypeInv is inductive.
LEMMA TypeStep == TypeInv /\ [Next]_vars => TypeInv'
  <1> SUFFICES ASSUME TypeInv, [Next]_vars PROVE TypeInv'
    OBVIOUS
  <1>1. CASE Runner
    BY <1>1, ControlStep, StartTestType, FinishBodyType, StartDeferredType,
       StartDeferType, FinishDeferType, FinishDeferredType DEF Runner
  <1>2. CASE User
    BY <1>2, ControlStep, LogType, RegisterDeferType, ReturnType DEF User
  <1>3. CASE Sigint \/ Terminated \/ UNCHANGED vars
    BY <1>3, ControlStep DEF Terminated
  <1> QED BY <1>1, <1>2, <1>3 DEF Next

\* Every variable stays in its type (ltf_state.h and the locals of
\* run_all_tests and run_deferred), however many tests, hooks and log calls.
THEOREM TypeCorrect == Spec => []TypeOK
  <1>1. TypeInv => TypeOK
    BY DEF TypeInv
  <1> QED BY TypeInit, TypeStep, <1>1, PTL DEF Spec

-----------------------------------------------------------------------------
(* The verdicts: the status of every test at every control point of        *)
(* run_all_tests, and what follows for the failure reasons.                *)

\* Where run_all_tests is; inside ltf_hooks_run, the event it was called for.
Phase == IF pc \in {"hooks", "hook"} THEN hook.fn ELSE pc

\* The status of the current test, by phase.
CurrentInv ==
  /\ Phase \in {"run_start", "test_run_started"} => started = 0
  /\ Phase \in {"test_started", "body"} => tests[started].status = "running"
  /\ Phase \in {"run_deferred", "sigcheck", "loop", "test_finished",
                "test_run_finished", "exit"} /\ started >= 1 =>
       Settled(started)
  /\ Phase \in {"defers", "defer"} => tests[started].status \in Teardown

\* The other tests: settled before the current one, untouched after it.
OthersInv ==
  \A k \in TestIds : /\ k < started => Settled(k)
                     /\ k > started => tests[k].status = "none"

\* While a test runs, the mark of log_error stands for a recorded reason.
MarkInv ==
  \A k \in TestIds :
    tests[k].status = "running" =>
      (test_marked_failed <=> tests[k].failure_reasons # << >>)

VerdictInv == TypeInv /\ CurrentInv /\ OthersInv /\ MarkInv /\ VerdictHasReason

-----------------------------------------------------------------------------
\* The other tests of the queue come before or after the current one.
LEMMA OtherTests ==
  ASSUME TypeInv, NEW k \in TestIds, k # started
  PROVE  k < started \/ k > started
  BY AmountAssumption DEF TypeInv, TypeOK, TestIds

\* Where a test is current it is one of the queue.
LEMMA StartedInQueue ==
  ASSUME TypeInv, pc \in InTest
  PROVE  started \in TestIds /\ started >= 1
  BY AmountAssumption DEF TypeInv, TypeOK, Bounds, TestIds

LEMMA VerdictInit == Init => VerdictInv
  <1> SUFFICES ASSUME Init PROVE VerdictInv
    OBVIOUS
  <1>1. \A k \in TestIds : tests[k].status = "none"
    BY DEF Init, NewTest
  <1>2. CurrentInv
    BY DEF Init, CurrentInv, Phase
  <1>3. OthersInv /\ MarkInv /\ VerdictHasReason
    BY <1>1, AmountAssumption DEF OthersInv, MarkInv, VerdictHasReason, Init, TestIds,
       Passing, Failing
  <1> QED BY <1>2, <1>3, TypeInit DEF VerdictInv

\* A step that leaves the tests, the mark and started alone preserves the
\* verdicts if it moves to a phase that asks no more of the current test.
LEMMA VerdictControl ==
  ASSUME VerdictInv, TypeInv', CurrentInv',
         UNCHANGED <<tests, started, test_marked_failed>>
  PROVE  VerdictInv'
  BY DEF VerdictInv, OthersInv, MarkInv, VerdictHasReason, Settled

LEMMA ControlVerdict ==
  ASSUME VerdictInv, TypeInv',
         \/ StartHook \/ FinishHook \/ HooksReturn \/ StartRun \/ CheckSigint
         \/ FinishRun \/ Exit \/ SkipDeferred \/ LogAbort \/ Sigint
         \/ UNCHANGED vars
         \/ StartDefer
         \/ \E args \in BOOLEAN : RegisterDefer(args)
         \/ \E result \in {"ok", "error"} : Return(result)
  PROVE  VerdictInv'
  <1>1. UNCHANGED <<tests, started, test_marked_failed>>
    BY DEF StartHook, FinishHook, HooksReturn, StartRun, CheckSigint, FinishRun,
       Exit, SkipDeferred, LogAbort, Sigint, vars, StartDefer, RegisterDefer,
       Return, recordVars
  <1>2. CurrentInv'
    <2> USE <1>1 DEF VerdictInv, TypeInv, Phase, CurrentInv, Settled
    <2>1. CASE StartHook
      BY <2>1 DEF StartHook
    <2>2. CASE FinishHook
      <3>1. hook'.fn = hook.fn
        BY <2>2 DEF FinishHook, TypeOK
      <3> QED BY <2>2, <3>1 DEF FinishHook
    <2>3. CASE HooksReturn
      <3>1. hook.fn \in HookFn
        BY DEF TypeOK
      <3> QED BY <2>3, <3>1 DEF HooksReturn, AfterHooks, HookFn
    <2>4. CASE StartRun
      BY <2>4 DEF StartRun, CallHooks
    <2>5. CASE CheckSigint
      BY <2>5 DEF CheckSigint, CallHooks
    <2>6. CASE FinishRun
      BY <2>6 DEF FinishRun, CallHooks
    <2>7. CASE Exit
      BY <2>7 DEF Exit
    <2>8. CASE SkipDeferred
      BY <2>8 DEF SkipDeferred
    <2>9. CASE LogAbort
      BY <2>9 DEF LogAbort
    <2>10. CASE Sigint
      BY <2>10 DEF Sigint
    <2>11. CASE UNCHANGED vars
      BY <2>11 DEF vars
    <2>12. CASE StartDefer
      BY <2>12 DEF StartDefer
    <2>13. CASE \E args \in BOOLEAN : RegisterDefer(args)
      BY <2>13 DEF RegisterDefer
    <2>14. CASE \E result \in {"ok", "error"} : Return(result)
      BY <2>14 DEF Return
    <2> QED BY <2>1, <2>2, <2>3, <2>4, <2>5, <2>6, <2>7, <2>8, <2>9, <2>10,
               <2>11, <2>12, <2>13, <2>14
  <1> QED BY <1>1, <1>2, VerdictControl

\* A new current test is running, unmarked and without reasons.
LEMMA StartTestVerdict ==
  ASSUME VerdictInv, TypeInv', StartTest
  PROVE  VerdictInv'
  <1> USE DEF VerdictInv
  <1>1. started' = started + 1 /\ started' \in TestIds /\ test_marked_failed' = FALSE
    BY AmountAssumption DEF StartTest, TypeInv, TypeOK, TestIds
  <1>2. /\ tests'[started'].status = "running"
        /\ tests'[started'].failure_reasons = << >>
        /\ \A k \in TestIds : k # started' => tests'[k] = tests[k]
    BY <1>1 DEF StartTest, TypeInv, TypeOK, NewTest
  <1>3. \A k \in TestIds : k < started' => Settled(k)
    <2> SUFFICES ASSUME NEW k \in TestIds, k < started' PROVE Settled(k)
      OBVIOUS
    <2>1. k < started \/ (k = started /\ started >= 1)
      BY <1>1, AmountAssumption DEF TypeInv, TypeOK, TestIds
    <2> QED BY <2>1 DEF StartTest, CurrentInv, Phase, OthersInv
  <1>4. CurrentInv'
    BY <1>2 DEF StartTest, CallHooks, CurrentInv, Phase
  <1>5. OthersInv'
    <2> SUFFICES ASSUME NEW k \in TestIds
                 PROVE  /\ k < started' => Settled(k)'
                        /\ k > started' => tests'[k].status = "none"
      BY DEF OthersInv
    <2>1. k < started' => Settled(k)'
      BY <1>1, <1>2, <1>3 DEF Settled
    <2>2. k > started' => k > started /\ k # started'
      BY <1>1, AmountAssumption DEF TypeInv, TypeOK, TestIds
    <2> QED BY <1>2, <2>1, <2>2 DEF OthersInv
  <1>6. MarkInv'
    <2> SUFFICES ASSUME NEW k \in TestIds, k # started' PROVE tests'[k].status # "running"
      BY <1>1, <1>2 DEF MarkInv
    <2>1. k < started' \/ k > started'
      BY OtherTests, <1>1, AmountAssumption DEF TypeInv, TypeOK, TestIds
    <2> QED BY <1>2, <1>3, <1>5, <2>1 DEF OthersInv, Settled
  <1>7. VerdictHasReason'
    BY <1>2 DEF VerdictHasReason, Passing, Failing
  <1> QED BY <1>4, <1>5, <1>6, <1>7

\* What the end of a test's body, of its teardown, or of one deferred function
\* does to the verdicts: only the current test changes, and it stays truthful.
LEMMA CurrentVerdict ==
  ASSUME VerdictInv, TypeInv', CurrentInv', started \in TestIds,
         started' = started,
         \A k \in TestIds : k # started => tests'[k] = tests[k],
         tests'[started].status # "running",
         tests'[started].status \in Failing => tests'[started].failure_reasons # << >>,
         tests'[started].status \in Passing => tests'[started].failure_reasons = << >>
  PROVE  VerdictInv'
  <1> USE DEF VerdictInv
  <1>1. OthersInv'
    <2> SUFFICES ASSUME NEW k \in TestIds, k < started \/ k > started
                 PROVE  tests'[k] = tests[k]
      BY DEF OthersInv, Settled
    <2> QED BY AmountAssumption DEF TypeInv, TypeOK, TestIds
  <1>2. MarkInv'
    <2> SUFFICES ASSUME NEW k \in TestIds, k # started PROVE tests[k].status # "running"
      BY DEF MarkInv
    <2> QED BY OtherTests DEF OthersInv, Settled
  <1>3. VerdictHasReason'
    BY DEF VerdictHasReason
  <1> QED BY <1>1, <1>2, <1>3

LEMMA FinishBodyVerdict ==
  ASSUME VerdictInv, TypeInv', FinishBody
  PROVE  VerdictInv'
  <1> DEFINE old == tests[started]
  <1>1. started \in TestIds /\ started >= 1 /\ started' = started
    BY StartedInQueue DEF VerdictInv, FinishBody, InTest
  <1>2. old.status = "running" /\ (test_marked_failed <=> old.failure_reasons # << >>)
    BY <1>1 DEF VerdictInv, FinishBody, CurrentInv, Phase, MarkInv
  <1>3. old \in Test /\ test_marked_failed \in BOOLEAN /\ tests \in [TestIds -> Test]
    BY <1>1 DEF VerdictInv, TypeInv, TypeOK
  <1>4. \A k \in TestIds : k # started => tests'[k] = tests[k]
    BY <1>1, <1>3 DEF FinishBody
  <1>5. tests'[started].status = IF rc = "ok" /\ ~test_marked_failed THEN "passed" ELSE "failed"
    BY <1>1, <1>3 DEF FinishBody, Test
  <1>6. tests'[started].failure_reasons =
          IF rc = "error" THEN Append(old.failure_reasons, [level |-> CRITICAL, from |-> "body"])
                          ELSE old.failure_reasons
    BY <1>1, <1>3 DEF FinishBody, Test
  <1>7. rc \in {"ok", "error"}
    BY DEF VerdictInv, TypeInv, TypeOK, FinishBody
  <1>8. old.failure_reasons \in Seq(Output)
    BY <1>3 DEF Test
  <1>9. Append(old.failure_reasons, [level |-> CRITICAL, from |-> "body"]) # << >>
    BY <1>8
  <1>10. CASE rc = "ok" /\ ~test_marked_failed
    <2>1. CurrentInv'
      BY <1>1, <1>5, <1>10 DEF FinishBody, CurrentInv, Phase, Settled
    <2>2. tests'[started].status = "passed" /\ tests'[started].failure_reasons = << >>
      BY <1>2, <1>5, <1>6, <1>10
    <2> QED BY <1>1, <1>4, <2>1, <2>2, CurrentVerdict DEF Passing, Failing
  <1>11. CASE ~(rc = "ok" /\ ~test_marked_failed)
    <2>1. CurrentInv'
      BY <1>1, <1>5, <1>11 DEF FinishBody, CurrentInv, Phase, Settled
    <2>2. tests'[started].status = "failed" /\ tests'[started].failure_reasons # << >>
      BY <1>2, <1>5, <1>6, <1>7, <1>9, <1>11
    <2> QED BY <1>1, <1>4, <2>1, <2>2, CurrentVerdict DEF Passing, Failing
  <1> QED BY <1>10, <1>11

LEMMA StartDeferredVerdict ==
  ASSUME VerdictInv, TypeInv', StartDeferred
  PROVE  VerdictInv'
  <1> DEFINE old == tests[started]
  <1>1. started \in TestIds /\ started >= 1 /\ started' = started
    BY StartedInQueue DEF VerdictInv, StartDeferred, InTest
  <1>2. old \in Test /\ tests \in [TestIds -> Test]
    BY <1>1 DEF VerdictInv, TypeInv, TypeOK
  <1>3. old.status \in {"passed", "failed"}
    BY <1>1 DEF VerdictInv, StartDeferred, CurrentInv, Phase, Settled
  <1>4. \A k \in TestIds : k # started => tests'[k] = tests[k]
    BY <1>1, <1>2 DEF StartDeferred
  <1>5. tests'[started].failure_reasons = old.failure_reasons
    BY <1>1, <1>2 DEF StartDeferred, Test
  <1>6. tests'[started].status = IF old.status = "failed" THEN "teardown_after_failed"
                                                         ELSE "teardown_after_passed"
    BY <1>1, <1>2 DEF StartDeferred, Test
  <1>7. CurrentInv'
    BY <1>1, <1>6 DEF StartDeferred, CurrentInv, Phase, Teardown
  <1>8. /\ old.status = "failed" => old.failure_reasons # << >>
        /\ old.status = "passed" => old.failure_reasons = << >>
    BY <1>1 DEF VerdictInv, VerdictHasReason, Passing, Failing
  <1>9. /\ tests'[started].status # "running"
        /\ tests'[started].status \in Failing => tests'[started].failure_reasons # << >>
        /\ tests'[started].status \in Passing => tests'[started].failure_reasons = << >>
    BY <1>3, <1>5, <1>6, <1>8 DEF Passing, Failing
  <1> QED BY <1>1, <1>4, <1>7, <1>9, CurrentVerdict

LEMMA FinishDeferVerdict ==
  ASSUME VerdictInv, TypeInv', FinishDefer
  PROVE  VerdictInv'
  <1> DEFINE old == tests[started]
  <1>1. started \in TestIds /\ started >= 1 /\ started' = started
    BY StartedInQueue DEF VerdictInv, FinishDefer, InTest
  <1>2. old \in Test /\ tests \in [TestIds -> Test]
    BY <1>1 DEF VerdictInv, TypeInv, TypeOK
  <1>3. old.status \in Teardown
    BY DEF VerdictInv, FinishDefer, CurrentInv, Phase
  <1>4. \A k \in TestIds : k # started => tests'[k] = tests[k]
    BY <1>1, <1>2 DEF FinishDefer
  <1>5. tests'[started].failure_reasons = old.failure_reasons
    BY <1>1, <1>2 DEF FinishDefer, Test
  <1>6. tests'[started].status = old.status
    BY <1>1, <1>2 DEF FinishDefer, Test
  <1>7. CurrentInv'
    BY <1>1, <1>3, <1>6 DEF FinishDefer, CurrentInv, Phase, Teardown
  <1>8. /\ tests'[started].status # "running"
        /\ tests'[started].status \in Failing => tests'[started].failure_reasons # << >>
        /\ tests'[started].status \in Passing => tests'[started].failure_reasons = << >>
    BY <1>1, <1>3, <1>5, <1>6 DEF VerdictInv, VerdictHasReason, Teardown
  <1> QED BY <1>1, <1>4, <1>7, <1>8, CurrentVerdict

LEMMA FinishDeferredVerdict ==
  ASSUME VerdictInv, TypeInv', FinishDeferred
  PROVE  VerdictInv'
  <1> DEFINE old == tests[started]
  <1>1. started \in TestIds /\ started >= 1 /\ started' = started
    BY StartedInQueue DEF VerdictInv, FinishDeferred, InTest
  <1>2. old \in Test /\ tests \in [TestIds -> Test]
    BY <1>1 DEF VerdictInv, TypeInv, TypeOK
  <1>3. old.status \in Teardown
    BY DEF VerdictInv, FinishDeferred, CurrentInv, Phase
  <1>4. \A k \in TestIds : k # started => tests'[k] = tests[k]
    BY <1>1, <1>2 DEF FinishDeferred
  <1>5. tests'[started].failure_reasons = old.failure_reasons
    BY <1>1, <1>2 DEF FinishDeferred, Test
  <1>6. tests'[started].status = IF old.status = "teardown_after_failed" THEN "failed"
                                                                        ELSE "passed"
    BY <1>1, <1>2 DEF FinishDeferred, Test
  <1>7. CurrentInv'
    BY <1>1, <1>6 DEF FinishDeferred, CurrentInv, Phase, Settled
  <1>8. /\ old.status \in Failing => old.failure_reasons # << >>
        /\ old.status \in Passing => old.failure_reasons = << >>
    BY <1>1 DEF VerdictInv, VerdictHasReason
  <1>9. /\ tests'[started].status # "running"
        /\ tests'[started].status \in Failing => tests'[started].failure_reasons # << >>
        /\ tests'[started].status \in Passing => tests'[started].failure_reasons = << >>
    BY <1>3, <1>5, <1>6, <1>8 DEF Passing, Failing, Teardown
  <1> QED BY <1>1, <1>4, <1>7, <1>9, CurrentVerdict

\* What ltf_state_log may change of a test: never its status, and its failure
\* reasons only while it runs, by an error.
LEMMA RecordedKeeps ==
  ASSUME NEW t \in Test, NEW o \in Output
  PROVE  /\ Recorded(t, o).status = t.status
         /\ Recorded(t, o).failure_reasons =
              IF t.status = "running" /\ o.level = ERROR
                THEN Append(t.failure_reasons, o) ELSE t.failure_reasons
  <1>1. CASE t.status = "running"
    <2>1. Recorded(t, o) = [t EXCEPT !.outputs = Append(t.outputs, o),
                                     !.failure_reasons =
                                        IF o.level = ERROR
                                          THEN Append(t.failure_reasons, o)
                                          ELSE t.failure_reasons]
      BY <1>1 DEF Recorded, Teardown
    <2> QED BY <1>1, <2>1 DEF Test
  <1>2. CASE t.status \in Teardown
    BY <1>2 DEF Recorded, Test, Teardown
  <1>3. CASE t.status # "running" /\ t.status \notin Teardown
    BY <1>3 DEF Recorded
  <1> QED BY <1>1, <1>2, <1>3

LEMMA LogVerdict ==
  ASSUME VerdictInv, TypeInv', NEW level \in Levels, NEW caught \in BOOLEAN,
         Log(level, caught)
  PROVE  VerdictInv'
  <1> DEFINE o == [level |-> level, from |-> Author]
  <1>1. started' = started /\ hook' = hook /\ pc' \in {pc, "crashed"}
    BY DEF Log, WriteLog
  <1>2. CASE current_stage # "TEST_STAGE"
    <2>1. UNCHANGED <<tests, started, test_marked_failed>>
      BY <1>2 DEF Log
    <2>2. CurrentInv'
      BY <1>1, <2>1 DEF VerdictInv, CurrentInv, Phase, Settled
    <2> QED BY <2>1, <2>2, VerdictControl
  <1>3. CASE current_stage = "TEST_STAGE"
    <2>1. started \in TestIds
      BY <1>3 DEF Log, LogAborts, VerdictInv, TypeInv, TypeOK, TestIds
    <2>2. o \in Output /\ o.level = level /\ tests[started] \in Test
      BY <2>1, LevelsAssumption DEF Log, Running, Source, Author, Output, VerdictInv, TypeInv, TypeOK
    <2>3. /\ \A k \in TestIds : k # started => tests'[k] = tests[k]
          /\ tests'[started] = Recorded(tests[started], o)
      BY <1>3, <2>1 DEF Log, VerdictInv, TypeInv, TypeOK
    <2>4. \A k \in TestIds : tests'[k].status = tests[k].status
      BY <2>2, <2>3, RecordedKeeps
    <2>5. CurrentInv'
      <3>1. started >= 1
        BY <2>1 DEF TestIds
      <3> QED BY <1>1, <2>1, <2>4, <3>1 DEF VerdictInv, CurrentInv, Phase, Settled
    <2>6. OthersInv'
      BY <1>1, <2>4 DEF VerdictInv, OthersInv, Settled
    <2>7. \A k \in TestIds :
            tests'[k].status # "running" => tests'[k].failure_reasons = tests[k].failure_reasons
      BY <2>2, <2>3, <2>4, RecordedKeeps
    <2>8. VerdictHasReason'
      BY <2>4, <2>7 DEF VerdictInv, VerdictHasReason, Passing, Failing
    <2>9. MarkInv'
      <3> SUFFICES ASSUME NEW k \in TestIds, tests[k].status = "running"
                   PROVE  test_marked_failed' <=> tests'[k].failure_reasons # << >>
        BY <2>4 DEF MarkInv
      <3>1. k = started
        BY OtherTests DEF VerdictInv, OthersInv, Settled
      <3>2. test_marked_failed' <=> test_marked_failed \/ level = ERROR
        BY <1>3, <3>1 DEF Log
      <3>3. test_marked_failed <=> tests[k].failure_reasons # << >>
        BY DEF VerdictInv, MarkInv
      <3>4. tests[k].failure_reasons \in Seq(Output)
        BY <2>2, <3>1 DEF Test
      <3>5. Append(tests[k].failure_reasons, o) # << >>
        BY <2>2, <3>4
      <3>6. tests'[k].failure_reasons =
              IF level = ERROR THEN Append(tests[k].failure_reasons, o)
                               ELSE tests[k].failure_reasons
        BY <2>2, <2>3, <3>1, RecordedKeeps
      <3>7. CASE level = ERROR
        BY <3>2, <3>5, <3>6, <3>7
      <3>8. CASE level # ERROR
        BY <3>2, <3>3, <3>6, <3>8
      <3> QED BY <3>7, <3>8
    <2> QED BY <2>5, <2>6, <2>8, <2>9 DEF VerdictInv
  <1> QED BY <1>2, <1>3

LEMMA VerdictStep == VerdictInv /\ [Next]_vars => VerdictInv'
  <1> SUFFICES ASSUME VerdictInv, [Next]_vars PROVE VerdictInv'
    OBVIOUS
  <1>1. TypeInv'
    BY TypeStep DEF VerdictInv
  <1>2. CASE Runner
    BY <1>1, <1>2, ControlVerdict, StartTestVerdict, FinishBodyVerdict,
       StartDeferredVerdict, FinishDeferVerdict, FinishDeferredVerdict DEF Runner
  <1>3. CASE User
    BY <1>1, <1>3, ControlVerdict, LogVerdict DEF User
  <1>4. CASE Sigint \/ Terminated \/ UNCHANGED vars
    BY <1>1, <1>4, ControlVerdict DEF Terminated
  <1> QED BY <1>2, <1>3, <1>4 DEF Next

LEMMA VerdictInvariant == Spec => []VerdictInv
  BY VerdictInit, VerdictStep, PTL DEF Spec

\* A failed test always carries a failure reason and a passed one none: the
\* mark that log_error leaves (ltf_state.c) never leaks into another test.
THEOREM ReasonsCorrect == Spec => []VerdictHasReason
  <1>1. VerdictInv => VerdictHasReason
    BY DEF VerdictInv
  <1> QED BY VerdictInvariant, <1>1, PTL

-----------------------------------------------------------------------------
(***************************************************************************)
(* The report: the counters agree with the recorded verdicts, the exit     *)
(* code is the conjunction of the verdicts, and the run keeps the promise  *)
(* of Verdicts.                                                            *)
(***************************************************************************)

\* The process has an exit code only when it has ended.
ExitInv ==
  /\ pc \notin Ended => exitcode = "none"
  /\ exitcode \in {"EXIT_SUCCESS", "EXIT_FAILURE"} => pc = "done"
  /\ pc \in {"exit", "done"} => started = Amount
  /\ Phase = "test_run_finished" => started = Amount
  /\ pc = "done" =>
       /\ \A k \in TestIds : Settled(k)
       /\ exitcode = IF passed = Amount THEN "EXIT_SUCCESS" ELSE "EXIT_FAILURE"

ReportInv == VerdictInv /\ Accounting /\ ExitInv

-----------------------------------------------------------------------------
\* The verdict a test shows to the reader of the run.
Shown(k) == VerdictOf[tests[k].status]

LEMMA ShownPassed ==
  ASSUME NEW s \in Status
  PROVE  /\ VerdictOf[s] = "passed" <=> s \in Passing
         /\ VerdictOf[s] = "failed" <=> s \in Failing
  BY DEF Status, Unsettled, Passing, Failing, VerdictOf

\* Only the start of a test and the end of its body change what is shown.
LEMMA ShownSame ==
  ASSUME VerdictInv, [Next]_vars, ~StartTest, ~FinishBody
  PROVE  /\ \A k \in TestIds : Shown(k)' = Shown(k)
         /\ UNCHANGED <<started, passed, passed_amount, failed_amount, finished_amount>>
  <1> USE DEF VerdictInv
  <1> SUFFICES ASSUME ~StartTest, ~FinishBody, [Next]_vars
               PROVE  /\ \A k \in TestIds : VerdictOf[tests'[k].status] = VerdictOf[tests[k].status]
                      /\ UNCHANGED <<started, passed, passed_amount, failed_amount,
                                     finished_amount>>
    BY DEF Shown
  <1>0. tests \in [TestIds -> Test] /\ (pc \in InTest => started \in TestIds)
    BY StartedInQueue DEF TypeInv, TypeOK
  <1>1. CASE UNCHANGED <<tests, started, passed, passed_amount, failed_amount, finished_amount>>
    BY <1>1
  <1>2. CASE StartDeferred
    <2>1. started \in TestIds /\ tests[started].status \in {"passed", "failed"}
      BY <1>0, <1>2, StartedInQueue DEF StartDeferred, InTest, CurrentInv, Phase, Settled
    <2>2. \A k \in TestIds : k # started => tests'[k] = tests[k]
      BY <1>0, <1>2 DEF StartDeferred
    <2>3. tests'[started].status = IF tests[started].status = "failed"
                                     THEN "teardown_after_failed" ELSE "teardown_after_passed"
      BY <1>0, <1>2, <2>1 DEF StartDeferred, Test
    <2>4. VerdictOf[tests'[started].status] = VerdictOf[tests[started].status]
      BY <2>1, <2>3 DEF VerdictOf
    <2> QED BY <1>2, <2>2, <2>4 DEF StartDeferred
  <1>3. CASE FinishDefer
    <2>1. started \in TestIds
      BY <1>0, <1>3 DEF FinishDefer, InTest
    <2>2. \A k \in TestIds : tests'[k].status = tests[k].status
      BY <1>0, <1>3, <2>1 DEF FinishDefer, Test
    <2> QED BY <1>3, <2>2 DEF FinishDefer
  <1>4. CASE FinishDeferred
    <2>1. started \in TestIds /\ tests[started].status \in Teardown
      BY <1>0, <1>4 DEF FinishDeferred, InTest, CurrentInv, Phase
    <2>2. \A k \in TestIds : k # started => tests'[k] = tests[k]
      BY <1>0, <1>4 DEF FinishDeferred
    <2>3. tests'[started].status = IF tests[started].status = "teardown_after_failed"
                                     THEN "failed" ELSE "passed"
      BY <1>0, <1>4, <2>1 DEF FinishDeferred, Test
    <2>4. VerdictOf[tests'[started].status] = VerdictOf[tests[started].status]
      BY <2>1, <2>3 DEF VerdictOf, Teardown
    <2> QED BY <1>4, <2>2, <2>4 DEF FinishDeferred
  <1>5. ASSUME NEW level \in Levels, NEW caught \in BOOLEAN, Log(level, caught)
        PROVE  /\ \A k \in TestIds : tests'[k].status = tests[k].status
               /\ UNCHANGED <<started, passed, passed_amount, failed_amount, finished_amount>>
    <2> DEFINE o == [level |-> level, from |-> Author]
    <2>1. CASE current_stage = "TEST_STAGE"
      <3>1. started \in TestIds
        BY <1>5, <2>1, AmountAssumption DEF Log, LogAborts, TypeInv, TypeOK, TestIds
      <3>2. o \in Output /\ tests[started] \in Test
        BY <1>0, <1>5, <3>1, LevelsAssumption DEF Log, Running, Source, Author, Output
      <3>3. /\ \A k \in TestIds : k # started => tests'[k] = tests[k]
            /\ tests'[started] = Recorded(tests[started], o)
        BY <1>0, <1>5, <2>1, <3>1 DEF Log
      <3> QED BY <1>5, <3>2, <3>3, RecordedKeeps DEF Log
    <2>2. CASE current_stage # "TEST_STAGE"
      BY <1>5, <2>2 DEF Log
    <2> QED BY <2>1, <2>2
  <1>6. CASE StartHook \/ FinishHook \/ HooksReturn \/ StartRun \/ CheckSigint
             \/ FinishRun \/ Exit \/ SkipDeferred \/ LogAbort \/ Sigint
             \/ StartDefer \/ Terminated \/ UNCHANGED vars
    BY <1>1, <1>6 DEF StartHook, FinishHook, HooksReturn, StartRun, CheckSigint,
       FinishRun, Exit, SkipDeferred, LogAbort, Sigint, StartDefer, Terminated,
       vars, recordVars
  <1>7. CASE \E args \in BOOLEAN : RegisterDefer(args)
    BY <1>1, <1>7 DEF RegisterDefer, recordVars
  <1>8. CASE \E result \in {"ok", "error"} : Return(result)
    BY <1>1, <1>8 DEF Return, recordVars
  <1> QED BY <1>2, <1>3, <1>4, <1>5, <1>6, <1>7, <1>8 DEF Next, Runner, User

\* A test that starts was not decided, and is not yet.
LEMMA StartTestShown ==
  ASSUME VerdictInv, StartTest
  PROVE  /\ started + 1 \in TestIds
         /\ tests[started + 1].status = "none"
         /\ tests'[started + 1].status = "running"
         /\ \A k \in TestIds : k # started + 1 => tests'[k] = tests[k]
  <1>1. started + 1 \in TestIds /\ started + 1 > started
    BY AmountAssumption DEF VerdictInv, TypeInv, TypeOK, StartTest, TestIds
  <1> QED BY <1>1 DEF VerdictInv, OthersInv, TypeInv, TypeOK, StartTest, NewTest

\* A test whose body ends was running, and is decided.
LEMMA FinishBodyShown ==
  ASSUME VerdictInv, FinishBody
  PROVE  /\ started \in TestIds
         /\ tests[started].status = "running"
         /\ tests'[started].status = IF rc = "ok" /\ ~test_marked_failed THEN "passed"
                                                                       ELSE "failed"
         /\ \A k \in TestIds : k # started => tests'[k] = tests[k]
  <1>1. started \in TestIds /\ tests \in [TestIds -> Test]
    BY StartedInQueue DEF VerdictInv, TypeInv, TypeOK, FinishBody, InTest
  <1> QED BY <1>1 DEF VerdictInv, FinishBody, CurrentInv, Phase, Test

-----------------------------------------------------------------------------
\* The sets that are counted are finite.
LEMMA FiniteVerdicts ==
  /\ IsFiniteSet(PassedTests) /\ Cardinality(PassedTests) \in Nat
  /\ IsFiniteSet(FailedTests) /\ Cardinality(FailedTests) \in Nat
  <1>1. IsFiniteSet(TestIds)
    BY FS_Interval, AmountAssumption DEF TestIds
  <1>2. PassedTests \subseteq TestIds /\ FailedTests \subseteq TestIds
    BY DEF PassedTests, FailedTests
  <1> QED BY <1>1, <1>2, FS_Subset, FS_CardinalityType

LEMMA AccountingInit == Init => Accounting
  <1> SUFFICES ASSUME Init PROVE Accounting
    OBVIOUS
  <1>1. PassedTests = {} /\ FailedTests = {}
    BY DEF Init, NewTest, PassedTests, FailedTests, Passing, Failing
  <1> QED BY <1>1, FS_EmptySet DEF Init, Accounting

LEMMA AccountingStep ==
  ASSUME VerdictInv, VerdictInv', Accounting, [Next]_vars
  PROVE  Accounting'
  <1>1. \A k \in TestIds : tests[k].status \in Status /\ tests'[k].status \in Status
    BY DEF VerdictInv, TypeInv, TypeOK, Test
  <1>2. CASE ~StartTest /\ ~FinishBody
    <2>1. \A k \in TestIds : VerdictOf[tests'[k].status] = VerdictOf[tests[k].status]
      BY <1>2, ShownSame DEF Shown
    <2>2. PassedTests' = PassedTests /\ FailedTests' = FailedTests
      BY <1>1, <2>1, ShownPassed DEF PassedTests, FailedTests
    <2> QED BY <1>2, <2>2, ShownSame DEF Accounting
  <1>3. CASE StartTest
    <2>1. PassedTests' = PassedTests /\ FailedTests' = FailedTests
      BY <1>3, StartTestShown DEF PassedTests, FailedTests, Passing, Failing
    <2> QED BY <1>3, <2>1 DEF StartTest, Accounting
  <1>4. CASE FinishBody
    <2>1. started \notin PassedTests /\ started \notin FailedTests
      BY <1>4, FinishBodyShown DEF PassedTests, FailedTests, Passing, Failing
    <2>2. CASE rc = "ok" /\ ~test_marked_failed
      <3>1. PassedTests' = PassedTests \cup {started} /\ FailedTests' = FailedTests
        BY <1>4, <2>2, FinishBodyShown DEF PassedTests, FailedTests, Passing, Failing
      <3>2. Cardinality(PassedTests') = Cardinality(PassedTests) + 1
        BY <2>1, <3>1, FiniteVerdicts, FS_AddElement
      <3> QED BY <1>4, <2>2, <3>1, <3>2, FiniteVerdicts DEF FinishBody, Accounting
    <2>3. CASE ~(rc = "ok" /\ ~test_marked_failed)
      <3>1. FailedTests' = FailedTests \cup {started} /\ PassedTests' = PassedTests
        BY <1>4, <2>3, FinishBodyShown DEF PassedTests, FailedTests, Passing, Failing
      <3>2. Cardinality(FailedTests') = Cardinality(FailedTests) + 1
        BY <2>1, <3>1, FiniteVerdicts, FS_AddElement
      <3> QED BY <1>4, <2>3, <3>1, <3>2, FiniteVerdicts DEF FinishBody, Accounting
    <2> QED BY <2>2, <2>3
  <1> QED BY <1>2, <1>3, <1>4

-----------------------------------------------------------------------------
\* When the whole queue ran, the counter reaches Amount iff every test passed.
LEMMA AllPassed ==
  ASSUME VerdictInv, Accounting, \A k \in TestIds : Settled(k)
  PROVE  passed = Amount <=> \A k \in TestIds : tests[k].status = "passed"
  <1>1. PassedTests = {k \in TestIds : tests[k].status = "passed"}
    BY DEF PassedTests, Passing, Settled
  <1>2. IsFiniteSet(TestIds) /\ Cardinality(TestIds) = Amount
    BY FS_Interval, AmountAssumption DEF TestIds
  <1>3. PassedTests \subseteq TestIds
    BY DEF PassedTests
  <1>4. Cardinality(PassedTests) = Amount <=> PassedTests = TestIds
    BY <1>2, <1>3, FS_Subset, AmountAssumption
  <1> QED BY <1>1, <1>4 DEF Accounting

LEMMA ExitInit == Init => ExitInv
  BY DEF Init, ExitInv, Ended, Phase

LEMMA ExitStep ==
  ASSUME VerdictInv, VerdictInv', ExitInv, [Next]_vars
  PROVE  ExitInv'
  <1> USE DEF ExitInv, Ended, Phase, Settled
  <1>1. CASE StartHook
    BY <1>1 DEF StartHook, recordVars
  <1>2. CASE FinishHook
    <2>1. hook'.fn = hook.fn
      BY <1>2 DEF FinishHook, VerdictInv, TypeInv, TypeOK
    <2> QED BY <1>2, <2>1 DEF FinishHook, recordVars
  <1>3. CASE HooksReturn
    <2>1. hook.fn \in HookFn
      BY DEF VerdictInv, TypeInv, TypeOK
    <2> QED BY <1>3, <2>1 DEF HooksReturn, AfterHooks, HookFn, recordVars
  <1>4. CASE StartRun
    BY <1>4 DEF StartRun, CallHooks, recordVars
  <1>5. CASE StartTest
    BY <1>5 DEF StartTest, CallHooks
  <1>6. CASE FinishBody
    BY <1>6 DEF FinishBody
  <1>7. CASE CheckSigint
    BY <1>7 DEF CheckSigint, CallHooks, recordVars
  <1>8. CASE FinishRun
    BY <1>8 DEF FinishRun, CallHooks, recordVars
  <1>9. CASE Exit
    <2>1. started = Amount /\ Amount >= 1
      BY <1>9, AmountAssumption DEF Exit
    <2>2. \A k \in TestIds : Settled(k)
      <3> SUFFICES ASSUME NEW k \in TestIds PROVE Settled(k)
        OBVIOUS
      <3>1. k < started \/ k = started
        BY <2>1, AmountAssumption DEF TestIds
      <3>2. Settled(started)
        BY <1>9, <2>1 DEF Exit, VerdictInv, CurrentInv
      <3> QED BY <3>1, <3>2 DEF VerdictInv, OthersInv
    <2> QED BY <1>9, <2>1, <2>2 DEF Exit, recordVars
  <1>10. CASE SkipDeferred
    BY <1>10 DEF SkipDeferred, recordVars
  <1>11. CASE StartDeferred
    BY <1>11 DEF StartDeferred
  <1>12. CASE StartDefer
    BY <1>12 DEF StartDefer, recordVars
  <1>13. CASE FinishDefer
    BY <1>13 DEF FinishDefer
  <1>14. CASE FinishDeferred
    BY <1>14 DEF FinishDeferred
  <1>15. CASE LogAbort
    BY <1>15 DEF LogAbort, Running, UserCode, recordVars
  <1>16. CASE Sigint
    BY <1>16 DEF Sigint, recordVars
  <1>17. ASSUME NEW level \in Levels, NEW caught \in BOOLEAN, Log(level, caught)
         PROVE  ExitInv'
    BY <1>17 DEF Log, WriteLog, Running, UserCode
  <1>18. ASSUME NEW args \in BOOLEAN, RegisterDefer(args) PROVE ExitInv'
    BY <1>18 DEF RegisterDefer, recordVars
  <1>19. ASSUME NEW result \in {"ok", "error"}, Return(result) PROVE ExitInv'
    BY <1>19 DEF Return, recordVars
  <1>20. CASE Terminated \/ UNCHANGED vars
    BY <1>20 DEF Terminated, vars, recordVars
  <1> QED BY <1>1, <1>2, <1>3, <1>4, <1>5, <1>6, <1>7, <1>8, <1>9, <1>10, <1>11,
             <1>12, <1>13, <1>14, <1>15, <1>16, <1>17, <1>18, <1>19, <1>20
          DEF Next, Runner, User

LEMMA ReportInvariant == Spec => []ReportInv
  <1>1. Init => ReportInv
    BY VerdictInit, AccountingInit, ExitInit DEF ReportInv
  <1>2. ReportInv /\ [Next]_vars => ReportInv'
    BY VerdictStep, AccountingStep, ExitStep DEF ReportInv
  <1> QED BY <1>1, <1>2, PTL DEF Spec

\* The counters of the summary and of the raw log (ltf_state.c) count the
\* recorded verdicts, and so does the one run_all_tests keeps.
THEOREM AccountingCorrect == Spec => []Accounting
  <1>1. ReportInv => Accounting
    BY DEF ReportInv
  <1> QED BY ReportInvariant, <1>1, PTL

\* The exit code of run_all_tests: success means that every queued test ran and
\* passed, failure that every one ran and some failed.
THEOREM ExitCodeCorrect == Spec => []ExitCodeTruthful
  <1>1. ReportInv => ExitCodeTruthful
    <2> SUFFICES ASSUME ReportInv, exitcode \in {"EXIT_SUCCESS", "EXIT_FAILURE"}
                 PROVE  ExitCodeTruthful
      BY DEF ExitCodeTruthful
    <2>1. \A k \in TestIds : Settled(k)
      BY DEF ReportInv, ExitInv
    <2>2. passed = Amount <=> \A k \in TestIds : tests[k].status = "passed"
      BY <2>1, AllPassed DEF ReportInv
    <2>3. exitcode = IF passed = Amount THEN "EXIT_SUCCESS" ELSE "EXIT_FAILURE"
      BY DEF ReportInv, ExitInv
    <2> QED BY <2>1, <2>2, <2>3 DEF ExitCodeTruthful, Settled
  <1> QED BY ReportInvariant, <1>1, PTL

-----------------------------------------------------------------------------
\* The refinement of Verdicts.

LEMMA PromiseInit == Init => Report!Init
  <1> SUFFICES ASSUME Init PROVE Report!Init
    OBVIOUS
  <1>1. \A k \in TestIds : VerdictOf[tests[k].status] = "pending"
    BY DEF Init, NewTest, VerdictOf
  <1>2. Outcome = "none"
    BY DEF Init, Outcome, Ended
  <1> QED BY <1>1, <1>2 DEF Report!Init, Report!TestIds, TestIds

\* A running process has no outcome; one that ends without the exit code of
\* run_all_tests was cut short.
LEMMA OutcomeStep ==
  ASSUME ReportInv, [Next]_vars
  PROVE  \/ Outcome' = Outcome
         \/ Outcome = "none" /\ Outcome' = "cut" /\ ~StartTest /\ ~FinishBody
         \/ Exit
  <1>1. CASE UNCHANGED vars
    BY <1>1 DEF vars, Outcome
  <1>2. CASE Terminated
    BY <1>2 DEF Terminated, vars, Outcome
  <1>3. CASE Next /\ ~Terminated /\ ~Exit /\ pc' \notin Ended
    <2>1. pc \notin Ended
      BY <1>3 DEF Next, Runner, User, StartRun, StartTest, FinishBody, CheckSigint,
         FinishRun, StartHook, FinishHook, HooksReturn, SkipDeferred, StartDeferred,
         StartDefer, FinishDefer, FinishDeferred, Log, LogAbort, RegisterDefer,
         Return, Running, UserCode, Sigint, Ended
    <2> QED BY <1>3, <2>1 DEF Outcome
  <1>4. CASE Next /\ ~Terminated /\ ~Exit /\ pc' \in Ended
    <2>1. /\ pc \notin Ended
          /\ exitcode' \in {exitcode, "130"}
          /\ ~StartTest /\ ~FinishBody
      <3>1. CASE StartRun \/ StartTest \/ FinishRun
        BY <1>4, <3>1 DEF StartRun, StartTest, FinishRun, CallHooks, Ended
      <3>2. CASE CheckSigint
        BY <1>4, <3>2 DEF CheckSigint, CallHooks, Ended, StartTest, FinishBody
      <3>3. CASE FinishBody \/ StartHook \/ FinishHook \/ SkipDeferred
                   \/ StartDeferred \/ StartDefer \/ FinishDefer \/ FinishDeferred
        BY <1>4, <3>3 DEF FinishBody, StartHook, FinishHook, SkipDeferred,
           StartDeferred, StartDefer, FinishDefer, FinishDeferred, Ended
      <3>4. CASE HooksReturn
        <4>1. hook.fn \in HookFn
          BY DEF ReportInv, VerdictInv, TypeInv, TypeOK
        <4> QED BY <1>4, <3>4, <4>1 DEF HooksReturn, AfterHooks, HookFn, Ended
      <3>5. CASE LogAbort
        BY <3>5 DEF LogAbort, Running, UserCode, Ended, StartTest, FinishBody
      <3>6. CASE Sigint
        BY <3>6 DEF Sigint, Ended, StartTest, FinishBody
      <3>7. ASSUME NEW level \in Levels, NEW caught \in BOOLEAN, Log(level, caught)
            PROVE  pc \notin Ended /\ exitcode' \in {exitcode, "130"} /\ ~StartTest /\ ~FinishBody
        BY <3>7 DEF Log, Running, UserCode, Ended, StartTest, FinishBody
      <3>8. CASE \E args \in BOOLEAN : RegisterDefer(args)
        BY <1>4, <3>8 DEF RegisterDefer, Running, UserCode, Ended
      <3>9. CASE \E result \in {"ok", "error"} : Return(result)
        BY <1>4, <3>9 DEF Return, Running, UserCode, Ended
      <3> QED BY <1>4, <3>1, <3>2, <3>3, <3>4, <3>5, <3>6, <3>7, <3>8, <3>9
              DEF Next, Runner, User
    <2>2. exitcode = "none"
      BY <2>1 DEF ReportInv, ExitInv
    <2> QED BY <1>4, <2>1, <2>2 DEF Outcome
  <1> QED BY <1>1, <1>2, <1>3, <1>4

LEMMA PromiseStep ==
  ASSUME ReportInv, ReportInv', [Next]_vars
  PROVE  [Report!Next]_(Report!vars)
  <1> DEFINE verdict == [k \in TestIds |-> VerdictOf[tests[k].status]]
  <1>0. Report!TestIds = TestIds
    BY DEF Report!TestIds, TestIds
  <1>1. CASE StartTest
    <2>1. PICK k \in TestIds : k = started + 1
      BY <1>1, StartTestShown DEF ReportInv
    <2>2. verdict[k] = "pending"
      BY <1>1, <2>1, StartTestShown DEF ReportInv, VerdictOf
    <2>3. verdict' = [verdict EXCEPT ![k] = "running"]
      <3>1. VerdictOf["running"] = "running"
        BY DEF VerdictOf
      <3> QED BY <1>1, <2>1, <3>1, StartTestShown DEF ReportInv
    <2>4. \A j \in 1..(k - 1) : verdict[j] \in Report!Decided
      <3> SUFFICES ASSUME NEW j \in 1..(k - 1) PROVE verdict[j] \in Report!Decided
        OBVIOUS
      <3>1. /\ j \in TestIds /\ started >= 1
            /\ j < started \/ j = started
        BY <2>1, AmountAssumption DEF ReportInv, VerdictInv, TypeInv, TypeOK, TestIds
      <3>2. Settled(j)
        BY <1>1, <3>1 DEF StartTest, ReportInv, VerdictInv, OthersInv, CurrentInv, Phase
      <3> QED BY <3>1, <3>2 DEF Settled, VerdictOf, Report!Decided
    <2>5. Outcome = "none" /\ Outcome' = "none"
      BY <1>1 DEF StartTest, CallHooks, Outcome, Ended
    <2> HIDE DEF verdict
    <2>6. Report!Start(k)
      BY <2>2, <2>3, <2>4, <2>5 DEF Report!Start, verdict
    <2>7. \E i \in Report!TestIds : Report!Start(i)
      BY <1>0, <2>6
    <2> QED BY <2>7 DEF Report!Next
  <1>2. CASE FinishBody
    <2>0. PICK v \in Report!Decided :
            v = IF rc = "ok" /\ ~test_marked_failed THEN "passed" ELSE "failed"
      BY DEF Report!Decided
    <2>1. started \in TestIds /\ verdict[started] = "running"
      BY <1>2, FinishBodyShown DEF ReportInv, VerdictOf
    <2>2. VerdictOf[v] = v
      BY DEF VerdictOf, Report!Decided
    <2>3. verdict' = [verdict EXCEPT ![started] = v]
      BY <1>2, <2>0, <2>1, <2>2, FinishBodyShown DEF ReportInv
    <2>4. Outcome = "none" /\ Outcome' = "none"
      BY <1>2 DEF FinishBody, Outcome, Ended
    <2>5. Report!Decide(started, v)
      BY <2>1, <2>3, <2>4 DEF Report!Decide
    <2>6. \E i \in Report!TestIds : \E w \in Report!Decided : Report!Decide(i, w)
      BY <1>0, <2>1, <2>5
    <2> QED BY <2>6 DEF Report!Next
  <1>3. CASE Exit
    <2>1. verdict' = verdict
      BY <1>3 DEF Exit, recordVars
    <2>2. Outcome = "none"
      BY <1>3 DEF Exit, Outcome, Ended
    <2>3. \A k \in TestIds : Settled(k)
      <3>1. \A k \in TestIds : Settled(k)'
        BY <1>3 DEF Exit, ReportInv, ExitInv
      <3> QED BY <1>3, <3>1 DEF Exit, recordVars, Settled
    <2>4. \A k \in TestIds : /\ verdict[k] \in Report!Decided
                             /\ verdict[k] = "passed" <=> tests[k].status = "passed"
      BY <2>3 DEF Settled, VerdictOf, Report!Decided
    <2>5. Outcome' = IF passed = Amount THEN "success" ELSE "failure"
      BY <1>3 DEF Exit, Outcome, Ended
    <2>6. passed = Amount <=> \A k \in TestIds : tests[k].status = "passed"
      BY <2>3, AllPassed DEF ReportInv
    <2>7. Report!Report
      BY <1>0, <2>1, <2>2, <2>4, <2>5, <2>6 DEF Report!Report
    <2> QED BY <2>7 DEF Report!Next
  <1>4. CASE ~StartTest /\ ~FinishBody /\ ~Exit
    <2>1. verdict' = verdict
      BY <1>4, ShownSame DEF ReportInv, Shown
    <2>2. Outcome' = Outcome \/ (Outcome = "none" /\ Outcome' = "cut")
      BY <1>4, OutcomeStep
    <2>3. CASE Outcome' = Outcome
      BY <2>1, <2>3 DEF Report!vars
    <2>4. CASE Outcome = "none" /\ Outcome' = "cut"
      BY <2>1, <2>4 DEF Report!Cut, Report!Next
    <2> QED BY <2>2, <2>3, <2>4
  <1> QED BY <1>1, <1>2, <1>3, <1>4

\* The run implements Verdicts: the tests run in queue order, each gets one
\* verdict and keeps it, and the run ends with a report of all of them or is
\* cut short with none (run_all_tests, ltf_state_test_passed and _failed).
THEOREM RunKeepsPromise == Spec => KeepsPromise
  <1>1. ReportInv /\ ReportInv' /\ [Next]_vars => [Report!Next]_(Report!vars)
    BY PromiseStep
  <1> QED BY PromiseInit, <1>1, ReportInvariant, PTL DEF Spec, KeepsPromise, Report!Spec

-----------------------------------------------------------------------------
(* The teardown: the deferred functions of a test unwind, each once and    *)
(* last to first, and every one that raises is reported; and the raw log   *)
(* is the final record.                                                    *)

Listed == 1 .. Len(defer_list)
Called == 1 .. Len(ran)

\* The indices of the defer list that are still to be called.
Due == CASE pc = "defers" -> 1 .. defer_i
         [] pc = "defer"  -> 1 .. (defer_i - 1)
         [] OTHER         -> Listed

Before == {"test_started", "body", "run_deferred"}

\* The list is in the order of registration.
Increasing == \A i, j \in Listed : i < j => defer_list[i] < defer_list[j]

\* What was called was registered, for a test that was started.
CallsBounded == \A r \in Called : ran[r].id <= Len(registered) /\ ran[r].test <= started

\* What is still to be called was not called.
NotYet == pc \notin Ended => \A j \in Due, r \in Called : ran[r].id # defer_list[j]

\* Every function is called once, and those of one test last to first.
CallOrder ==
  \A r, s \in Called : r < s => /\ ran[r].id # ran[s].id
                                /\ ran[r].test = ran[s].test => ran[r].id > ran[s].id

\* Before its teardown nothing was called for a test ...
Fresh == Phase \in Before => \A r \in Called : ran[r].test < started

\* ... and during it only what the loop went past.
PastLoop ==
  pc \in {"defers", "defer"} =>
    \A r \in Called : ran[r].test = started =>
      \E j \in Listed : j \notin Due /\ ran[r].id = defer_list[j]

\* The call in progress is the last one.
InProgress == pc = "defer" => ran[Len(ran)].rc = "none" /\ ran[Len(ran)].test = started

LoopInv ==
  Increasing /\ CallsBounded /\ NotYet /\ CallOrder /\ Fresh /\ PastLoop /\ InProgress

-----------------------------------------------------------------------------
LEMMA CallNumbers ==
  ASSUME TypeInv, NEW r \in Called
  PROVE  ran[r] \in Call /\ ran[r].id \in Nat /\ ran[r].test \in Nat
<1>1. ran[r] \in Call
  BY DEF TypeInv, TypeOK, Called
<1>2. \A c \in Call : c.id \in Nat /\ c.test \in Nat
  BY AmountAssumption DEF Call
<1> QED BY <1>1, <1>2

\* A step that makes no call and leaves the list alone, and enters neither the
\* loop nor the part of a test before it.
LEMMA QuietLoop ==
  ASSUME LoopInv, UNCHANGED <<defer_list, registered, ran, started>>,
         pc' \notin Ended => pc \notin Ended /\ Due' \subseteq Due,
         Phase' \in Before => Phase \in Before,
         pc' \in {"defers", "defer"} => pc' = pc /\ defer_i' = defer_i
  PROVE  LoopInv'
<1> USE DEF LoopInv, Listed, Called
<1>1. Increasing' /\ CallsBounded' /\ CallOrder'
  BY DEF Increasing, CallsBounded, CallOrder
<1>2. NotYet'
  BY DEF NotYet
<1>3. Fresh'
  BY DEF Fresh
<1>4. PastLoop' /\ InProgress'
  BY DEF PastLoop, InProgress, Due
<1> QED BY <1>1, <1>2, <1>3, <1>4

LEMMA LoopInit == Init => LoopInv
  BY DEF Init, LoopInv, Listed, Called, Increasing, CallsBounded, NotYet, CallOrder, Fresh,
         PastLoop, InProgress

LEMMA ControlLoop ==
  ASSUME TypeInv, LoopInv,
         \/ StartHook \/ FinishHook \/ HooksReturn \/ StartRun \/ CheckSigint
         \/ FinishRun \/ Exit \/ SkipDeferred \/ FinishBody \/ LogAbort \/ Sigint
         \/ UNCHANGED vars
         \/ (\E level \in Levels, caught \in BOOLEAN : Log(level, caught))
         \/ (\E result \in {"ok", "error"} : Return(result))
  PROVE  LoopInv'
<1>1. UNCHANGED <<defer_list, registered, ran, started, defer_i>>
  BY DEF StartHook, FinishHook, HooksReturn, StartRun, CheckSigint, FinishRun, Exit,
     SkipDeferred, FinishBody, LogAbort, Sigint, vars, Log, Return, recordVars, deferVars
<1>2. /\ pc' \notin Ended => pc \notin Ended /\ Due' \subseteq Due
      /\ Phase' \in Before => Phase \in Before
      /\ pc' \in {"defers", "defer"} => pc' = pc
  <2> USE <1>1 DEF Due, Listed, Phase, Before, Ended
  <2>1. CASE StartHook
    BY <2>1 DEF StartHook
  <2>2. CASE FinishHook
    <3>1. hook'.fn = hook.fn
      BY <2>2 DEF FinishHook, TypeInv, TypeOK
    <3> QED BY <2>2, <3>1 DEF FinishHook
  <2>3. CASE HooksReturn
    <3>1. hook.fn \in HookFn
      BY DEF TypeInv, TypeOK
    <3> QED BY <2>3, <3>1 DEF HooksReturn, AfterHooks, HookFn
  <2>4. CASE StartRun
    BY <2>4 DEF StartRun, CallHooks
  <2>5. CASE CheckSigint
    BY <2>5 DEF CheckSigint, CallHooks
  <2>6. CASE FinishRun
    BY <2>6 DEF FinishRun, CallHooks
  <2>7. CASE Exit
    BY <2>7 DEF Exit
  <2>8. CASE SkipDeferred
    BY <2>8 DEF SkipDeferred
  <2>9. CASE FinishBody
    BY <2>9 DEF FinishBody
  <2>10. CASE LogAbort
    BY <2>10 DEF LogAbort
  <2>11. CASE Sigint
    BY <2>11 DEF Sigint
  <2>12. CASE UNCHANGED vars
    BY <2>12 DEF vars, deferVars
  <2>13. CASE \E level \in Levels, caught \in BOOLEAN : Log(level, caught)
    BY <2>13 DEF Log, WriteLog, deferVars
  <2>14. CASE \E result \in {"ok", "error"} : Return(result)
    BY <2>14 DEF Return, deferVars
  <2> QED BY <2>1, <2>2, <2>3, <2>4, <2>5, <2>6, <2>7, <2>8, <2>9, <2>10, <2>11, <2>12,
             <2>13, <2>14
<1> QED BY <1>1, <1>2, QuietLoop

\* Nothing was called for a test that starts now.
LEMMA StartTestLoop ==
  ASSUME TypeInv, LoopInv, StartTest
  PROVE  LoopInv'
<1> USE DEF LoopInv, Listed, Called
<1>1. /\ started' = started + 1 /\ started \in Nat
      /\ UNCHANGED <<defer_list, registered, ran, defer_i>>
      /\ pc = "loop" /\ pc' = "hooks"
  BY AmountAssumption DEF TypeInv, TypeOK, StartTest, CallHooks, deferVars
<1>2. \A r \in Called : ran[r].test \in Nat
  BY CallNumbers
<1>3. Increasing' /\ CallOrder' /\ InProgress' /\ PastLoop'
  BY <1>1 DEF Increasing, CallOrder, InProgress, PastLoop
<1>4. \A r \in Called : ran[r].test < started'
  BY <1>1, <1>2 DEF CallsBounded
<1>5. CallsBounded' /\ Fresh'
  BY <1>1, <1>2, <1>4 DEF CallsBounded, Fresh
<1>6. NotYet'
  BY <1>1 DEF NotYet, Due, Ended
<1> QED BY <1>3, <1>5, <1>6

LEMMA StartDeferredLoop ==
  ASSUME TypeInv, LoopInv, StartDeferred
  PROVE  LoopInv'
<1> USE DEF LoopInv, Listed, Called
<1>1. /\ UNCHANGED <<defer_list, registered, ran, started>>
      /\ pc = "run_deferred" /\ pc' = "defers" /\ defer_i' = Len(defer_list)
  BY DEF StartDeferred
<1>2. Increasing' /\ CallOrder' /\ InProgress' /\ CallsBounded'
  BY <1>1 DEF Increasing, CallOrder, InProgress, CallsBounded
<1>3. NotYet'
  BY <1>1 DEF NotYet, Due, Ended
<1>4. Fresh'
  BY <1>1 DEF Fresh, Phase, Before
<1>5. PastLoop'
  <2>1. started \in Nat /\ \A r \in Called : ran[r].test < started
    BY <1>1, AmountAssumption DEF Fresh, Phase, Before, TypeInv, TypeOK
  <2> QED BY <1>1, <2>1 DEF PastLoop
<1> QED BY <1>2, <1>3, <1>4, <1>5

\* The function that is called is the last that was not.
LEMMA StartDeferLoop ==
  ASSUME TypeInv, LoopInv, StartDefer
  PROVE  LoopInv'
<1> USE DEF LoopInv, Listed, Called
<1> DEFINE id == defer_list[defer_i]
           n  == Len(ran) + 1
<1>1. /\ UNCHANGED <<defer_list, registered, started, defer_i>>
      /\ pc = "defers" /\ pc' = "defer"
  BY DEF StartDefer, recordVars
<1>2. PICK call : /\ ran' = Append(ran, call) /\ call.id = id /\ call.test = started
                  /\ call.rc = "none"
  BY DEF StartDefer
<1>3. ran \in Seq(Call) /\ Len(ran) \in Nat
  BY DEF TypeInv, TypeOK
<1>4. /\ Len(ran') = n /\ ran'[n] = call
      /\ \A r \in 1 .. Len(ran) : ran'[r] = ran[r]
  BY <1>2, <1>3
<1>5. /\ defer_i \in 1 .. Len(defer_list) /\ id \in Nat /\ id <= Len(registered)
      /\ started \in Nat /\ Len(registered) \in Nat /\ Len(defer_list) \in Nat
  BY AmountAssumption DEF StartDefer, TypeInv, TypeOK, Bounds
<1>6. \A r \in Called : ran[r].id \in Nat /\ ran[r].test \in Nat
  BY CallNumbers
<1>7. Increasing'
  BY <1>1 DEF Increasing
<1>8. CallsBounded'
  BY <1>1, <1>2, <1>4, <1>5, <1>3 DEF CallsBounded
<1>9. \A r \in Called : ran[r].id # id /\ (ran[r].test = started => ran[r].id > id)
  <2> SUFFICES ASSUME NEW r \in Called
               PROVE  ran[r].id # id /\ (ran[r].test = started => ran[r].id > id)
    OBVIOUS
  <2>1. ran[r].id # id
    BY <1>1, <1>5 DEF NotYet, Due, Ended
  <2>2. ASSUME ran[r].test = started PROVE ran[r].id > id
    <3>1. PICK j \in Listed : j > defer_i /\ ran[r].id = defer_list[j]
      BY <1>1, <1>5, <2>2 DEF PastLoop, Due
    <3>2. defer_list[j] \in Nat
      BY DEF TypeInv, TypeOK
    <3> QED BY <1>5, <3>1, <3>2 DEF Increasing
  <2> QED BY <2>1, <2>2
<1>10. CallOrder'
  <2> SUFFICES ASSUME NEW r \in 1 .. n, NEW s \in 1 .. n, r < s
               PROVE  /\ ran'[r].id # ran'[s].id
                      /\ ran'[r].test = ran'[s].test => ran'[r].id > ran'[s].id
    BY <1>4 DEF CallOrder
  <2>1. r \in Called
    BY <1>3
  <2>2. CASE s = n
    BY <1>2, <1>4, <1>9, <2>1, <2>2
  <2>3. CASE s \in Called
    BY <1>4, <2>1, <2>3 DEF CallOrder
  <2> QED BY <1>3, <2>2, <2>3
<1>11. NotYet'
  <2> SUFFICES ASSUME NEW j \in 1 .. (defer_i - 1), NEW r \in 1 .. n
               PROVE  ran'[r].id # defer_list[j]
    BY <1>1, <1>4 DEF NotYet, Due
  <2>1. CASE r = n
    <3>1. defer_list[j] \in Nat /\ j \in Listed /\ j < defer_i
      BY <1>5 DEF TypeInv, TypeOK
    <3> QED BY <1>2, <1>4, <1>5, <2>1, <3>1 DEF Increasing
  <2>2. CASE r \in Called
    <3>1. j \in 1 .. defer_i
      BY <1>5
    <3> QED BY <1>1, <1>4, <2>2, <3>1 DEF NotYet, Due, Ended
  <2> QED BY <1>3, <2>1, <2>2
<1>12. Fresh' /\ InProgress'
  BY <1>1, <1>2, <1>4 DEF Fresh, InProgress, Phase, Before
<1>13. PastLoop'
  <2> SUFFICES ASSUME NEW r \in 1 .. n, ran'[r].test = started
               PROVE  \E j \in Listed : j \notin 1 .. (defer_i - 1) /\ ran'[r].id = defer_list[j]
    BY <1>1, <1>4 DEF PastLoop, Due
  <2>1. CASE r = n
    BY <1>2, <1>4, <1>5, <2>1
  <2>2. CASE r \in Called
    <3>1. PICK j \in Listed : j \notin 1 .. defer_i /\ ran[r].id = defer_list[j]
      BY <1>1, <1>4, <2>2 DEF PastLoop, Due
    <3> QED BY <1>4, <1>5, <2>2, <3>1
  <2> QED BY <1>3, <2>1, <2>2
<1> QED BY <1>7, <1>8, <1>10, <1>11, <1>12, <1>13

\* A call that ends keeps its place; only its result is set.
LEMMA FinishDeferCalls ==
  ASSUME TypeInv, FinishDefer
  PROVE  /\ Len(ran') = Len(ran) /\ Len(ran) >= 1 /\ Len(ran) \in Nat
         /\ \A r \in Called : /\ ran'[r].id = ran[r].id /\ ran'[r].test = ran[r].test
                              /\ ran'[r].rc = IF r = Len(ran) THEN rc ELSE ran[r].rc
<1> DEFINE n == Len(ran)
           call == [ran[n] EXCEPT !.rc = rc]
<1>1. ran \in Seq(Call) /\ n \in Nat /\ n >= 1
  BY DEF TypeInv, TypeOK, Bounds, FinishDefer
<1>2. ran' = [ran EXCEPT ![n] = call]
  BY <1>1 DEF FinishDefer
<1>3. ran[n] \in Call
  BY <1>1
<1>4. call.id = ran[n].id /\ call.test = ran[n].test /\ call.rc = rc
  BY <1>3 DEF Call
<1> HIDE DEF call
<1>5. Len(ran') = n /\ ran'[n] = call /\ \A r \in 1 .. n : r # n => ran'[r] = ran[r]
  BY <1>1, <1>2
<1> QED BY <1>1, <1>4, <1>5 DEF Called

LEMMA FinishDeferLoop ==
  ASSUME TypeInv, LoopInv, FinishDefer
  PROVE  LoopInv'
<1> USE DEF LoopInv, Listed, Called
<1>1. /\ UNCHANGED <<defer_list, registered, started>>
      /\ pc = "defer" /\ pc' = "defers" /\ defer_i' = defer_i - 1 /\ defer_i \in Nat
  BY DEF FinishDefer, TypeInv, TypeOK
<1>2. /\ Len(ran') = Len(ran)
      /\ \A r \in Called : ran'[r].id = ran[r].id /\ ran'[r].test = ran[r].test
  BY FinishDeferCalls
<1>3. Increasing' /\ CallsBounded' /\ CallOrder'
  BY <1>1, <1>2 DEF Increasing, CallsBounded, CallOrder
<1>4. Due' = Due
  BY <1>1 DEF Due
<1>5. NotYet'
  BY <1>1, <1>2, <1>4 DEF NotYet, Ended
<1>6. Fresh' /\ InProgress'
  BY <1>1 DEF Fresh, InProgress, Phase, Before
<1>7. PastLoop'
  BY <1>1, <1>2, <1>4 DEF PastLoop
<1> QED BY <1>3, <1>5, <1>6, <1>7

LEMMA FinishDeferredLoop ==
  ASSUME TypeInv, LoopInv, FinishDeferred
  PROVE  LoopInv'
<1> USE DEF LoopInv, Listed, Called
<1>1. /\ UNCHANGED <<registered, ran, started>> /\ defer_list' = << >>
      /\ pc = "defers" /\ pc' = "sigcheck"
  BY DEF FinishDeferred
<1>2. CallsBounded' /\ CallOrder' /\ Fresh' /\ InProgress' /\ PastLoop'
  BY <1>1 DEF CallsBounded, CallOrder, Fresh, InProgress, PastLoop, Phase, Before
<1>3. Increasing' /\ NotYet'
  BY <1>1 DEF Increasing, NotYet, Due
<1> QED BY <1>2, <1>3

\* A new function has the highest number, and the loop, if it is under way, does
\* not come to it.
LEMMA RegisterDeferLoop ==
  ASSUME TypeInv, LoopInv, NEW args \in BOOLEAN, RegisterDefer(args)
  PROVE  LoopInv'
<1> USE DEF LoopInv, Listed, Called
<1> DEFINE id == Len(registered) + 1
           n  == Len(defer_list) + 1
<1>1. /\ UNCHANGED <<pc, hook, ran, started, defer_i>>
      /\ pc \in {"body", "hook", "defer"} /\ defer_list' = Append(defer_list, id)
  BY DEF RegisterDefer, recordVars, Running, UserCode
<1>2. Len(registered') = id /\ Len(registered) \in Nat
  BY DEF RegisterDefer, TypeInv, TypeOK
<1>3. /\ Len(defer_list') = n /\ defer_list'[n] = id /\ Len(defer_list) \in Nat
      /\ \A j \in Listed : /\ defer_list'[j] = defer_list[j]
                           /\ defer_list[j] \in Nat /\ defer_list[j] <= Len(registered)
  BY <1>1, <1>2 DEF TypeInv, TypeOK, Bounds
<1>4. \A r \in Called : ran[r].id \in Nat /\ ran[r].id < id
  BY <1>2, CallNumbers DEF CallsBounded
<1>5. Increasing'
  <2> SUFFICES ASSUME NEW i \in 1 .. n, NEW j \in 1 .. n, i < j
               PROVE  defer_list'[i] < defer_list'[j]
    BY <1>3 DEF Increasing
  <2>1. i \in Listed
    BY <1>3
  <2>2. CASE j = n
    BY <1>2, <1>3, <2>1, <2>2
  <2>3. CASE j \in Listed
    BY <1>3, <2>1, <2>3 DEF Increasing
  <2> QED BY <1>3, <2>2, <2>3
<1>6. CallsBounded' /\ CallOrder' /\ Fresh' /\ InProgress'
  BY <1>1, <1>2, <1>4 DEF CallsBounded, CallOrder, Fresh, InProgress, Phase
<1>7. NotYet'
  <2> SUFFICES ASSUME NEW j \in Due', NEW r \in Called PROVE ran[r].id # defer_list'[j]
    BY <1>1 DEF NotYet
  <2>1. CASE j = n
    BY <1>3, <1>4, <2>1
  <2>2. CASE j # n
    <3>1. j \in Due /\ j \in Listed
      BY <1>1, <1>3, <2>2 DEF Due, TypeInv, TypeOK, Bounds
    <3> QED BY <1>1, <1>3, <3>1 DEF NotYet, Ended
  <2> QED BY <2>1, <2>2
<1>8. PastLoop'
  <2> SUFFICES ASSUME pc = "defer", NEW r \in Called, ran[r].test = started
               PROVE  \E j \in 1 .. n : j \notin Due /\ ran[r].id = defer_list'[j]
    BY <1>1, <1>3 DEF PastLoop, Due
  <2>1. PICK j \in Listed : j \notin Due /\ ran[r].id = defer_list[j]
    BY DEF PastLoop
  <2> QED BY <1>3, <2>1
<1> QED BY <1>5, <1>6, <1>7, <1>8

LEMMA LoopStep == TypeInv /\ LoopInv /\ [Next]_vars => LoopInv'
<1> SUFFICES ASSUME TypeInv, LoopInv, [Next]_vars PROVE LoopInv'
  OBVIOUS
<1>1. CASE Runner
  BY <1>1, ControlLoop, StartTestLoop, StartDeferredLoop, StartDeferLoop, FinishDeferLoop,
     FinishDeferredLoop DEF Runner
<1>2. CASE User
  BY <1>2, ControlLoop, RegisterDeferLoop DEF User
<1>3. CASE Sigint \/ Terminated \/ UNCHANGED vars
  BY <1>3, ControlLoop DEF Terminated
<1> QED BY <1>1, <1>2, <1>3 DEF Next

-----------------------------------------------------------------------------
(* The reports of deferred functions that raised.                          *)

\* ltf_state_log leaves the count of teardown errors alone, and a test that is
\* settled altogether.
LEMMA RecordedKeepsErrors ==
  ASSUME NEW t \in Test, NEW o \in Output
  PROVE  /\ Recorded(t, o).teardown_errors = t.teardown_errors
         /\ t.status \in {"passed", "failed"} => Recorded(t, o) = t
<1>1. CASE t.status = "running"
  <2>1. Recorded(t, o) = [t EXCEPT !.outputs = Append(t.outputs, o),
                                   !.failure_reasons =
                                      IF o.level = ERROR
                                        THEN Append(t.failure_reasons, o)
                                        ELSE t.failure_reasons]
    BY <1>1 DEF Recorded, Teardown
  <2> QED BY <1>1, <2>1 DEF Test
<1>2. CASE t.status \in Teardown
  BY <1>2 DEF Recorded, Test, Teardown
<1>3. CASE t.status # "running" /\ t.status \notin Teardown
  BY <1>3 DEF Recorded
<1> QED BY <1>1, <1>2, <1>3

\* A log changes at most the current test.
LEMMA LogTests ==
  ASSUME TypeInv, NEW level \in Levels, NEW caught \in BOOLEAN, Log(level, caught)
  PROVE  \/ tests' = tests
         \/ /\ started \in TestIds
            /\ \A k \in TestIds : k # started => tests'[k] = tests[k]
            /\ \E o \in Output : tests'[started] = Recorded(tests[started], o)
<1>1. CASE current_stage # "TEST_STAGE"
  BY <1>1 DEF Log
<1>2. CASE current_stage = "TEST_STAGE"
  <2> DEFINE o == [level |-> level, from |-> Author]
  <2>1. started \in TestIds
    BY <1>2, AmountAssumption DEF Log, LogAborts, TypeInv, TypeOK, TestIds
  <2>2. o \in Output
    BY LevelsAssumption DEF Log, Running, Source, Author, Output
  <2>3. /\ \A k \in TestIds : k # started => tests'[k] = tests[k]
        /\ tests'[started] = Recorded(tests[started], o)
    BY <1>2, <2>1 DEF Log, TypeInv, TypeOK
  <2> HIDE DEF o
  <2> QED BY <2>1, <2>2, <2>3
<1> QED BY <1>1, <1>2

\* Only the start of a test and the end of a deferred function change the count.
LEMMA ErrorsSame ==
  ASSUME TypeInv, [Next]_vars, ~StartTest, ~FinishDefer, NEW k \in TestIds
  PROVE  tests'[k].teardown_errors = tests[k].teardown_errors /\ started' = started
<1>0. tests \in [TestIds -> Test] /\ (pc \in InTest => started \in TestIds)
  BY StartedInQueue DEF TypeInv, TypeOK
<1>1. CASE UNCHANGED <<tests, started>>
  BY <1>1
<1>2. CASE FinishBody
  BY <1>0, <1>2 DEF FinishBody, InTest, Test
<1>3. CASE StartDeferred
  BY <1>0, <1>3 DEF StartDeferred, InTest, Test
<1>4. CASE FinishDeferred
  BY <1>0, <1>4 DEF FinishDeferred, InTest, Test
<1>5. ASSUME NEW level \in Levels, NEW caught \in BOOLEAN, Log(level, caught)
      PROVE  tests'[k].teardown_errors = tests[k].teardown_errors /\ started' = started
  <2>1. started' = started
    BY <1>5 DEF Log
  <2> QED BY <1>0, <1>5, <2>1, LogTests, RecordedKeepsErrors
<1>6. CASE StartHook \/ FinishHook \/ HooksReturn \/ StartRun \/ CheckSigint
           \/ FinishRun \/ Exit \/ SkipDeferred \/ LogAbort \/ Sigint
           \/ StartDefer \/ Terminated \/ UNCHANGED vars
  BY <1>1, <1>6 DEF StartHook, FinishHook, HooksReturn, StartRun, CheckSigint,
     FinishRun, Exit, SkipDeferred, LogAbort, Sigint, StartDefer, Terminated,
     vars, recordVars
<1>7. CASE \E args \in BOOLEAN : RegisterDefer(args)
  BY <1>1, <1>7 DEF RegisterDefer, recordVars
<1>8. CASE \E result \in {"ok", "error"} : Return(result)
  BY <1>1, <1>8 DEF Return, recordVars
<1> QED BY <1>2, <1>3, <1>4, <1>5, <1>6, <1>7, <1>8 DEF Next, Runner, User

Errors(k) == {r \in DOMAIN ran : ran[r].test = k /\ ran[r].rc = "error"}

LEMMA ErrorsFinite ==
  ASSUME TypeInv, NEW k
  PROVE  IsFiniteSet(Errors(k)) /\ Cardinality(Errors(k)) \in Nat
<1>1. DOMAIN ran = 1 .. Len(ran) /\ Len(ran) \in Nat
  BY DEF TypeInv, TypeOK
<1>2. IsFiniteSet(1 .. Len(ran))
  BY <1>1, FS_Interval
<1>3. Errors(k) \subseteq 1 .. Len(ran)
  BY <1>1 DEF Errors
<1> QED BY <1>2, <1>3, FS_Subset, FS_CardinalityType

LEMMA ReportedInit == Init => DeferFailuresReported
  BY DEF Init, DeferFailuresReported

LEMMA ReportedStep ==
  ASSUME VerdictInv, TypeInv', LoopInv, LoopInv', DeferFailuresReported, [Next]_vars
  PROVE  DeferFailuresReported'
<1> SUFFICES ASSUME NEW k \in 1 .. started'
             PROVE  tests'[k].teardown_errors = Cardinality(Errors(k)')
  BY DEF DeferFailuresReported, Errors
<1>0. TypeInv
  BY DEF VerdictInv
<1>1. k \in TestIds
  BY AmountAssumption DEF TypeInv, TypeOK, TestIds
<1>2. /\ DOMAIN ran = Called /\ DOMAIN ran' = 1 .. Len(ran') /\ Len(ran) \in Nat
      /\ ran \in Seq(Call)
  BY <1>0 DEF Called, TypeInv, TypeOK
<1>3. k \in 1 .. started => tests[k].teardown_errors = Cardinality(Errors(k))
  BY DEF DeferFailuresReported, Errors
<1>4. CASE StartTest
  <2>1. started' = started + 1 /\ started \in Nat /\ ran' = ran
    BY <1>0, <1>4, AmountAssumption DEF StartTest, deferVars, TypeInv, TypeOK
  <2>2. Errors(k)' = Errors(k)
    BY <2>1 DEF Errors
  <2>3. CASE k = started + 1
    <3>1. tests'[k].teardown_errors = 0
      BY <1>0, <1>1, <1>4, <2>3 DEF StartTest, NewTest, TypeInv, TypeOK
    <3>2. \A r \in Called : ran[r].test \in Nat /\ ran[r].test <= started
      BY <1>0, CallNumbers DEF LoopInv, CallsBounded
    <3>3. Errors(k) = {}
      BY <1>2, <2>1, <2>3, <3>2 DEF Errors
    <3> QED BY <2>2, <3>1, <3>3, FS_EmptySet
  <2>4. CASE k # started + 1
    <3>1. tests'[k] = tests[k] /\ k \in 1 .. started
      BY <1>0, <1>1, <1>4, <2>1, <2>4 DEF StartTest, TypeInv, TypeOK
    <3> QED BY <1>3, <2>2, <3>1
  <2> QED BY <2>3, <2>4
<1>5. CASE FinishDefer
  <2> DEFINE n == Len(ran)
  <2>1. /\ Len(ran') = n /\ n >= 1
        /\ \A r \in Called : /\ ran'[r].test = ran[r].test
                             /\ ran'[r].rc = IF r = n THEN rc ELSE ran[r].rc
    BY <1>0, <1>5, FinishDeferCalls
  <2>2. ran[n].rc = "none" /\ ran[n].test = started /\ n \in Called
    BY <1>2, <1>5, <2>1 DEF FinishDefer, LoopInv, InProgress, Called
  <2>3. started' = started /\ started \in TestIds /\ tests \in [TestIds -> Test]
    BY <1>0, <1>5, StartedInQueue DEF FinishDefer, InTest, TypeInv, TypeOK
  <2>4. /\ \A j \in TestIds : j # started => tests'[j] = tests[j]
        /\ tests'[started].teardown_errors =
             IF rc = "error" THEN tests[started].teardown_errors + 1
                             ELSE tests[started].teardown_errors
    BY <1>5, <2>3 DEF FinishDefer, Test
  <2>5. n \notin Errors(k)
    BY <2>2 DEF Errors
  <2>6. CASE k = started /\ rc = "error"
    <3>1. Errors(k)' = Errors(k) \cup {n}
      BY <1>2, <2>1, <2>2, <2>6 DEF Errors, Called
    <3>2. Cardinality(Errors(k)') = Cardinality(Errors(k)) + 1
      BY <1>0, <2>5, <3>1, ErrorsFinite, FS_AddElement
    <3> QED BY <1>3, <2>3, <2>4, <2>6, <3>2
  <2>7. CASE ~(k = started /\ rc = "error")
    <3>1. Errors(k)' = Errors(k)
      BY <1>2, <2>1, <2>2, <2>7 DEF Errors, Called
    <3> QED BY <1>1, <1>3, <2>3, <2>4, <2>7, <3>1
  <2> QED BY <2>6, <2>7
<1>6. CASE ~StartTest /\ ~FinishDefer
  <2>1. tests'[k].teardown_errors = tests[k].teardown_errors /\ started' = started
    BY <1>0, <1>1, <1>6, ErrorsSame
  <2>2. CASE StartDefer
    <3>1. PICK call : ran' = Append(ran, call) /\ call.rc = "none"
      BY <2>2 DEF StartDefer
    <3>2. /\ Len(ran') = Len(ran) + 1 /\ ran'[Len(ran) + 1] = call
          /\ \A r \in 1 .. Len(ran) : ran'[r] = ran[r]
      BY <1>2, <3>1
    <3>3. Errors(k)' = Errors(k)
      BY <1>2, <3>1, <3>2 DEF Errors, Called
    <3> QED BY <1>3, <2>1, <3>3
  <2>3. CASE ~StartDefer
    <3>1. ran' = ran
      BY <1>6, <2>3 DEF Next, Runner, User, StartRun, StartTest, FinishBody, CheckSigint,
         FinishRun, Exit, StartHook, FinishHook, HooksReturn, SkipDeferred, StartDeferred,
         FinishDeferred, Log, LogAbort, RegisterDefer, Return, Sigint, Terminated, vars,
         deferVars
    <3> QED BY <1>3, <2>1, <3>1 DEF Errors
  <2> QED BY <2>2, <2>3
<1> QED BY <1>4, <1>5, <1>6

-----------------------------------------------------------------------------
(* The functions that a body registered.                                   *)

OfBody(id) == id \in DOMAIN registered /\ registered[id].by = "body"

Ran(id) == \E r \in Called : ran[r].id = id /\ ran[r].test = registered[id].test

\* They are for a test that was started, and not before its body began; during
\* the test they are in the list, and called once the loop went past them;
\* after it they were called.
BodyOK(id) ==
  LET k == registered[id].test IN
  /\ k >= 1
  /\ Phase = "test_started" => k < started
  /\ TornDown(k) => Ran(id)
  /\ k = started /\ pc \in {"body", "run_deferred", "defers", "defer"} =>
       \E j \in Listed : /\ defer_list[j] = id
                         /\ pc \in {"defers", "defer"} /\ j \notin Due => Ran(id)

BodyInv ==
  /\ \A id \in DOMAIN registered : registered[id].test <= started
  /\ \A id \in DOMAIN registered : OfBody(id) => BodyOK(id)

LEMMA RegisteredTest ==
  ASSUME TypeInv, BodyInv, NEW id \in DOMAIN registered, OfBody(id)
  PROVE  /\ registered[id].test \in TestIds /\ registered[id].test <= started
         /\ BodyOK(id) /\ started \in Nat
<1>1. registered[id] \in Defer /\ started \in Nat
  BY AmountAssumption DEF TypeInv, TypeOK
<1>2. registered[id].test \in 0 .. Amount
  BY <1>1 DEF Defer
<1> QED BY <1>1, <1>2, AmountAssumption DEF BodyInv, BodyOK, TestIds

\* A test that was not torn down is not by a step that keeps the statuses.
LEMMA QuietBody ==
  ASSUME VerdictInv, BodyInv, UNCHANGED <<registered, ran, started, defer_list>>,
         \A k \in TestIds : tests'[k].status = tests[k].status,
         pc \in {"run_deferred", "killed"} => pc' \in {"killed", "run_deferred"},
         Phase' = "test_started" => Phase = "test_started",
         pc' = "body" => pc = "body" \/ Phase = "test_started",
         pc' \in {"run_deferred", "defers", "defer"} => pc' = pc /\ defer_i' = defer_i
  PROVE  BodyInv'
<1> SUFFICES ASSUME NEW id \in DOMAIN registered, OfBody(id) PROVE BodyOK(id)'
  BY DEF BodyInv, OfBody
<1> DEFINE k == registered[id].test
<1>1. k \in TestIds /\ k <= started /\ BodyOK(id) /\ started \in Nat
  BY RegisteredTest DEF VerdictInv
<1>2. TornDown(k)' => TornDown(k)
  BY <1>1 DEF TornDown, Settled
<1>3. Ran(id)' <=> Ran(id)
  BY DEF Ran, Called
<1>4. CASE pc' \in {"run_deferred", "defers", "defer"}
  <2>1. Due' = Due
    BY <1>4 DEF Due, Listed
  <2> QED BY <1>1, <1>2, <1>3, <1>4, <2>1 DEF BodyOK, Listed
<1>5. CASE pc' = "body"
  BY <1>1, <1>2, <1>3, <1>5 DEF BodyOK, Listed
<1>6. CASE pc' \notin {"body", "run_deferred", "defers", "defer"}
  BY <1>1, <1>2, <1>3, <1>6 DEF BodyOK
<1> QED BY <1>4, <1>5, <1>6

LEMMA BodyInit == Init => BodyInv
  BY DEF Init, BodyInv

\* A step that only moves control, or logs, or settles nothing.
LEMMA StatusSame ==
  ASSUME TypeInv,
         \/ StartHook \/ FinishHook \/ HooksReturn \/ StartRun \/ CheckSigint
         \/ FinishRun \/ Exit \/ SkipDeferred \/ LogAbort \/ Sigint
         \/ UNCHANGED vars
         \/ (\E level \in Levels, caught \in BOOLEAN : Log(level, caught))
         \/ (\E result \in {"ok", "error"} : Return(result))
         \/ (\E args \in BOOLEAN : RegisterDefer(args))
         \/ StartDefer \/ FinishDefer,
         NEW k \in TestIds
  PROVE  tests'[k].status = tests[k].status
<1>0. tests \in [TestIds -> Test] /\ (pc \in InTest => started \in TestIds)
  BY StartedInQueue DEF TypeInv, TypeOK
<1>1. CASE tests' = tests
  BY <1>1
<1>2. ASSUME NEW level \in Levels, NEW caught \in BOOLEAN, Log(level, caught)
      PROVE  tests'[k].status = tests[k].status
  BY <1>0, <1>2, LogTests, RecordedKeeps
<1>3. CASE FinishDefer
  BY <1>0, <1>3 DEF FinishDefer, InTest, Test
<1> QED BY <1>1, <1>2, <1>3 DEF StartHook, FinishHook, HooksReturn, StartRun, CheckSigint,
     FinishRun, Exit, SkipDeferred, LogAbort, Sigint, StartDefer, RegisterDefer, Return,
     vars, recordVars

LEMMA ControlBody ==
  ASSUME VerdictInv, BodyInv,
         \/ StartHook \/ FinishHook \/ HooksReturn \/ StartRun \/ CheckSigint
         \/ FinishRun \/ Exit \/ LogAbort \/ Sigint
         \/ UNCHANGED vars
         \/ (\E level \in Levels, caught \in BOOLEAN : Log(level, caught))
         \/ (\E result \in {"ok", "error"} : Return(result))
  PROVE  BodyInv'
<1>1. UNCHANGED <<defer_list, registered, ran, started, defer_i>>
  BY DEF StartHook, FinishHook, HooksReturn, StartRun, CheckSigint, FinishRun, Exit,
     LogAbort, Sigint, vars, Log, Return, recordVars, deferVars
<1>2. \A k \in TestIds : tests'[k].status = tests[k].status
  BY StatusSame DEF VerdictInv
<1>3. /\ pc \in {"run_deferred", "killed"} => pc' \in {"killed", "run_deferred"}
      /\ Phase' = "test_started" => Phase = "test_started"
      /\ pc' = "body" => pc = "body" \/ Phase = "test_started"
      /\ pc' \in {"run_deferred", "defers", "defer"} => pc' = pc
  <2> USE <1>1 DEF Phase
  <2>1. CASE StartHook
    BY <2>1 DEF StartHook
  <2>2. CASE FinishHook
    <3>1. hook'.fn = hook.fn
      BY <2>2 DEF FinishHook, VerdictInv, TypeInv, TypeOK
    <3> QED BY <2>2, <3>1 DEF FinishHook
  <2>3. CASE HooksReturn
    <3>1. hook.fn \in HookFn
      BY DEF VerdictInv, TypeInv, TypeOK
    <3> QED BY <2>3, <3>1 DEF HooksReturn, AfterHooks, HookFn
  <2>4. CASE StartRun
    BY <2>4 DEF StartRun, CallHooks
  <2>5. CASE CheckSigint
    BY <2>5 DEF CheckSigint, CallHooks
  <2>6. CASE FinishRun
    BY <2>6 DEF FinishRun, CallHooks
  <2>7. CASE Exit
    BY <2>7 DEF Exit
  <2>8. CASE LogAbort
    BY <2>8 DEF LogAbort, Running, UserCode
  <2>9. CASE Sigint
    BY <2>9 DEF Sigint
  <2>10. CASE UNCHANGED vars
    BY <2>10 DEF vars
  <2>11. CASE \E level \in Levels, caught \in BOOLEAN : Log(level, caught)
    BY <2>11 DEF Log, WriteLog, Running, UserCode
  <2>12. CASE \E result \in {"ok", "error"} : Return(result)
    BY <2>12 DEF Return
  <2> QED BY <2>1, <2>2, <2>3, <2>4, <2>5, <2>6, <2>7, <2>8, <2>9, <2>10, <2>11, <2>12
<1> QED BY <1>1, <1>2, <1>3, QuietBody

\* A test starts when the one before it was torn down.
LEMMA StartTestBody ==
  ASSUME VerdictInv, BodyInv, StartTest
  PROVE  BodyInv'
<1>1. /\ UNCHANGED <<defer_list, registered, ran>> /\ started' = started + 1
      /\ pc = "loop" /\ pc' = "hooks" /\ hook'.fn = "test_started"
  BY DEF StartTest, CallHooks, deferVars
<1>2. \A id \in DOMAIN registered : registered[id].test \in Nat
  <2>1. \A d \in Defer : d.test \in Nat
    BY AmountAssumption DEF Defer
  <2> QED BY <2>1 DEF VerdictInv, TypeInv, TypeOK
<1>3. started \in Nat
  BY AmountAssumption DEF VerdictInv, TypeInv, TypeOK
<1>4. \A id \in DOMAIN registered : registered[id].test < started'
  BY <1>1, <1>2, <1>3 DEF BodyInv
<1>5. ASSUME NEW id \in DOMAIN registered, OfBody(id) PROVE BodyOK(id)'
  <2> DEFINE k == registered[id].test
  <2>1. k \in TestIds /\ k <= started /\ BodyOK(id)
    BY <1>5, RegisteredTest DEF VerdictInv
  <2>2. k # started + 1
    BY <1>1, <1>3, <1>4
  <2>3. TornDown(k)' => TornDown(k)
    BY <1>1, <2>1, <2>2, StartTestShown DEF TornDown, Settled
  <2>4. Ran(id)' <=> Ran(id)
    BY <1>1 DEF Ran, Called
  <2> QED BY <1>1, <1>2, <1>3, <1>4, <2>1, <2>2, <2>3, <2>4 DEF BodyOK, Phase
<1> QED BY <1>1, <1>2, <1>3, <1>4, <1>5 DEF BodyInv, OfBody

\* The verdict is no end of the test: run_deferred is still to come.
LEMMA FinishBodyBody ==
  ASSUME VerdictInv, BodyInv, FinishBody
  PROVE  BodyInv'
<1>1. UNCHANGED <<defer_list, registered, ran, started>> /\ pc = "body" /\ pc' = "run_deferred"
  BY DEF FinishBody
<1>2. ASSUME NEW id \in DOMAIN registered, OfBody(id) PROVE BodyOK(id)'
  <2> DEFINE k == registered[id].test
  <2>1. k \in TestIds /\ k <= started /\ BodyOK(id)
    BY <1>2, RegisteredTest DEF VerdictInv
  <2>2. TornDown(k)' => TornDown(k)
    BY <1>1, <2>1, FinishBodyShown DEF TornDown, Settled
  <2>3. Ran(id)' <=> Ran(id)
    BY <1>1 DEF Ran, Called
  <2> QED BY <1>1, <2>1, <2>2, <2>3 DEF BodyOK, Phase, Listed
<1> QED BY <1>1, <1>2 DEF BodyInv, OfBody

\* An empty list means that the body registered nothing.
LEMMA SkipDeferredBody ==
  ASSUME VerdictInv, BodyInv, SkipDeferred
  PROVE  BodyInv'
<1>1. /\ UNCHANGED <<tests, defer_list, registered, ran, started>>
      /\ pc = "run_deferred" /\ pc' = "sigcheck" /\ defer_list = << >>
  BY DEF SkipDeferred, recordVars, deferVars
<1>2. ASSUME NEW id \in DOMAIN registered, OfBody(id) PROVE BodyOK(id)'
  <2> DEFINE k == registered[id].test
  <2>1. k \in TestIds /\ k <= started /\ BodyOK(id)
    BY <1>2, RegisteredTest DEF VerdictInv
  <2>2. k # started
    BY <1>1, <2>1 DEF BodyOK, Listed
  <2>3. TornDown(k)' => TornDown(k)
    BY <1>1, <2>2 DEF TornDown, Settled
  <2>4. Ran(id)' <=> Ran(id)
    BY <1>1 DEF Ran, Called
  <2> QED BY <1>1, <2>1, <2>3, <2>4 DEF BodyOK, Phase
<1> QED BY <1>1, <1>2 DEF BodyInv, OfBody

LEMMA StartDeferredBody ==
  ASSUME VerdictInv, VerdictInv', BodyInv, StartDeferred
  PROVE  BodyInv'
<1>1. /\ UNCHANGED <<defer_list, registered, ran, started>>
      /\ pc = "run_deferred" /\ pc' = "defers" /\ defer_i' = Len(defer_list)
  BY DEF StartDeferred
<1>2. ASSUME NEW id \in DOMAIN registered, OfBody(id) PROVE BodyOK(id)'
  <2> DEFINE k == registered[id].test
  <2>1. k \in TestIds /\ k <= started /\ BodyOK(id)
    BY <1>2, RegisteredTest DEF VerdictInv
  <2>2. TornDown(k)' => TornDown(k)
    <3>1. CASE k = started
      <4>1. tests'[k].status \in Teardown
        BY <1>1, <3>1 DEF VerdictInv, CurrentInv, Phase
      <4>2. ~Settled(k)'
        BY <1>1, <3>1, <4>1 DEF Settled, Teardown
      <4> QED BY <1>1, <3>1, <4>2 DEF TornDown
    <3>2. CASE k # started
      <4>1. tests'[k] = tests[k]
        BY <2>1, <3>2 DEF StartDeferred, VerdictInv, TypeInv, TypeOK
      <4> QED BY <1>1, <3>2, <4>1 DEF TornDown, Settled
    <3> QED BY <3>1, <3>2
  <2>3. Ran(id)' <=> Ran(id)
    BY <1>1 DEF Ran, Called
  <2>4. Due' = Listed
    BY <1>1 DEF Due, Listed
  <2> QED BY <1>1, <2>1, <2>2, <2>3, <2>4 DEF BodyOK, Phase, Listed
<1> QED BY <1>1, <1>2 DEF BodyInv, OfBody

LEMMA StartDeferBody ==
  ASSUME VerdictInv, BodyInv, StartDefer
  PROVE  BodyInv'
<1>1. /\ UNCHANGED <<tests, defer_list, registered, started, defer_i>>
      /\ pc = "defers" /\ pc' = "defer"
  BY DEF StartDefer, recordVars
<1>2. PICK call : /\ ran' = Append(ran, call) /\ call.id = defer_list[defer_i]
                  /\ call.test = started
  BY DEF StartDefer
<1>3. ran \in Seq(Call) /\ Len(ran) \in Nat /\ defer_i \in Nat
  BY DEF VerdictInv, TypeInv, TypeOK
<1>4. /\ Len(ran') = Len(ran) + 1 /\ ran'[Len(ran) + 1] = call
      /\ \A r \in Called : ran'[r] = ran[r]
  BY <1>2, <1>3 DEF Called
<1>5. ASSUME NEW id \in DOMAIN registered, OfBody(id) PROVE BodyOK(id)'
  <2> DEFINE k == registered[id].test
  <2>1. k \in TestIds /\ k <= started /\ BodyOK(id)
    BY <1>5, RegisteredTest DEF VerdictInv
  <2>2. TornDown(k)' => TornDown(k)
    BY <1>1 DEF TornDown, Settled
  <2>3. Ran(id) => Ran(id)'
    BY <1>1, <1>3, <1>4 DEF Ran, Called
  <2>4. ASSUME k = started
        PROVE  \E j \in Listed : defer_list[j] = id /\ (j \notin Due' => Ran(id)')
    <3>1. PICK j \in Listed : defer_list[j] = id /\ (j \notin Due => Ran(id))
      BY <1>1, <2>1, <2>4 DEF BodyOK
    <3>2. CASE j = defer_i
      <4>1. Ran(id)'
        BY <1>1, <1>2, <1>3, <1>4, <2>4, <3>1, <3>2 DEF Ran, Called
      <4> QED BY <3>1, <4>1
    <3>3. CASE j # defer_i
      <4>1. j \in Due' <=> j \in Due
        BY <1>1, <1>3, <3>3 DEF Due, Listed
      <4> QED BY <2>3, <3>1, <4>1
    <3> QED BY <3>2, <3>3
  <2> QED BY <1>1, <2>1, <2>2, <2>3, <2>4 DEF BodyOK, Phase, Listed
<1> QED BY <1>1, <1>5 DEF BodyInv, OfBody

LEMMA FinishDeferBody ==
  ASSUME VerdictInv, BodyInv, FinishDefer
  PROVE  BodyInv'
<1>1. /\ UNCHANGED <<defer_list, registered, started>>
      /\ pc = "defer" /\ pc' = "defers" /\ defer_i' = defer_i - 1 /\ defer_i \in Nat
  BY DEF FinishDefer, VerdictInv, TypeInv, TypeOK
<1>2. /\ Len(ran') = Len(ran)
      /\ \A r \in Called : ran'[r].id = ran[r].id /\ ran'[r].test = ran[r].test
  BY FinishDeferCalls DEF VerdictInv
<1>3. Due' = Due
  BY <1>1 DEF Due, Listed
<1>4. ASSUME NEW id \in DOMAIN registered, OfBody(id) PROVE BodyOK(id)'
  <2> DEFINE k == registered[id].test
  <2>1. k \in TestIds /\ k <= started /\ BodyOK(id)
    BY <1>4, RegisteredTest DEF VerdictInv
  <2>2. TornDown(k)' => TornDown(k)
    <3>1. tests'[k].status = tests[k].status
      BY <2>1, StatusSame DEF VerdictInv
    <3> QED BY <1>1, <3>1 DEF TornDown, Settled
  <2>3. Ran(id)' <=> Ran(id)
    BY <1>1, <1>2 DEF Ran, Called
  <2> QED BY <1>1, <1>3, <2>1, <2>2, <2>3 DEF BodyOK, Phase, Listed
<1> QED BY <1>1, <1>4 DEF BodyInv, OfBody

\* The loop is over when it went past the whole list.
LEMMA FinishDeferredBody ==
  ASSUME VerdictInv, BodyInv, FinishDeferred
  PROVE  BodyInv'
<1>1. /\ UNCHANGED <<registered, ran, started>>
      /\ pc = "defers" /\ pc' = "sigcheck" /\ defer_i = 0
  BY DEF FinishDeferred
<1>2. ASSUME NEW id \in DOMAIN registered, OfBody(id) PROVE BodyOK(id)'
  <2> DEFINE k == registered[id].test
  <2>1. k \in TestIds /\ k <= started /\ BodyOK(id)
    BY <1>2, RegisteredTest DEF VerdictInv
  <2>2. TornDown(k)' => Ran(id)
    <3>1. CASE k = started
      BY <1>1, <2>1, <3>1 DEF BodyOK, Due, Listed
    <3>2. CASE k # started
      <4>1. tests'[k] = tests[k]
        BY <2>1, <3>2 DEF FinishDeferred, VerdictInv, TypeInv, TypeOK
      <4> QED BY <1>1, <2>1, <3>2, <4>1 DEF TornDown, Settled, BodyOK
    <3> QED BY <3>1, <3>2
  <2>3. Ran(id)' <=> Ran(id)
    BY <1>1 DEF Ran, Called
  <2> QED BY <1>1, <2>1, <2>2, <2>3 DEF BodyOK, Phase
<1> QED BY <1>1, <1>2 DEF BodyInv, OfBody

\* A new function of the body is the last of the list.
LEMMA RegisterDeferBody ==
  ASSUME VerdictInv, BodyInv, NEW args \in BOOLEAN, RegisterDefer(args)
  PROVE  BodyInv'
<1>0. PICK new \in Nat : new = Len(registered) + 1
  BY DEF VerdictInv, TypeInv, TypeOK
<1> DEFINE n == Len(defer_list) + 1
           d == [test |-> started, by |-> pc, args |-> args]
<1>1. /\ UNCHANGED <<pc, hook, tests, ran, started, defer_i>>
      /\ pc \in UserCode
      /\ defer_list' = Append(defer_list, new) /\ registered' = Append(registered, d)
  BY <1>0 DEF RegisterDefer, recordVars, Running
<1>2. registered \in Seq(Defer) /\ defer_list \in Seq(Nat \ {0}) /\ started \in Nat
  BY AmountAssumption DEF VerdictInv, TypeInv, TypeOK
<1>3. /\ DOMAIN registered = 1 .. Len(registered) /\ Len(registered) \in Nat
      /\ DOMAIN registered' = 1 .. new /\ registered'[new] = d
      /\ \A id \in 1 .. Len(registered) : registered'[id] = registered[id]
  <2> HIDE DEF d
  <2> QED BY <1>0, <1>1, <1>2
<1>4. /\ Len(defer_list') = n /\ defer_list'[n] = new /\ Len(defer_list) \in Nat
      /\ \A j \in Listed : defer_list'[j] = defer_list[j]
  BY <1>1, <1>2, <1>3 DEF Listed
<1>5. ASSUME NEW id \in DOMAIN registered
      PROVE  registered'[id].test <= started'
  BY <1>1, <1>3, <1>5 DEF BodyInv
<1>6. ASSUME NEW id \in DOMAIN registered, OfBody(id)' PROVE BodyOK(id)'
  <2> DEFINE k == registered[id].test
  <2>1. registered'[id] = registered[id] /\ OfBody(id)
    BY <1>3, <1>6 DEF OfBody
  <2>2. k \in TestIds /\ k <= started /\ BodyOK(id)
    BY <2>1, RegisteredTest DEF VerdictInv
  <2>3. TornDown(k)' <=> TornDown(k)
    BY <1>1 DEF TornDown, Settled
  <2>4. Ran(id)' <=> Ran(id)
    BY <1>1, <2>1 DEF Ran, Called
  <2>5. ASSUME k = started, pc \in {"body", "run_deferred", "defers", "defer"}
        PROVE  \E j \in Listed' : /\ defer_list'[j] = id
                                  /\ pc \in {"defers", "defer"} /\ j \notin Due' => Ran(id)'
    <3>1. PICK j \in Listed : /\ defer_list[j] = id
                              /\ pc \in {"defers", "defer"} /\ j \notin Due => Ran(id)
      BY <2>2, <2>5 DEF BodyOK
    <3>2. j \in Listed' /\ defer_list'[j] = id
      BY <1>4, <3>1 DEF Listed
    <3>3. pc \in {"defers", "defer"} => Due' = Due
      BY <1>1 DEF Due
    <3> QED BY <2>4, <3>1, <3>2, <3>3
  <2> QED BY <1>1, <2>1, <2>2, <2>3, <2>4, <2>5 DEF BodyOK, Phase
<1>7. ASSUME OfBody(new)' PROVE BodyOK(new)'
  <2>1. pc = "body" /\ registered'[new].test = started
    BY <1>3, <1>7 DEF OfBody
  <2>2. started >= 1
    BY <2>1 DEF VerdictInv, TypeInv, Bounds, InTest
  <2>3. ~TornDown(started)'
    <3>1. tests[started].status = "running"
      BY <2>1 DEF VerdictInv, CurrentInv, Phase
    <3> QED BY <1>1, <3>1 DEF TornDown, Settled
  <2>4. \E j \in Listed' : defer_list'[j] = new
    BY <1>4 DEF Listed
  <2>5. /\ registered'[new].test = started' /\ started' >= 1 /\ ~TornDown(started)'
        /\ pc' = "body" /\ Phase' = "body"
    BY <1>1, <2>1, <2>2, <2>3 DEF Phase
  <2> QED BY <2>4, <2>5 DEF BodyOK
<1>8. registered'[new].test <= started'
  BY <1>1, <1>2, <1>3
<1>9. DOMAIN registered' = DOMAIN registered \cup {new}
  BY <1>0, <1>3
<1>10. \A id \in DOMAIN registered' : registered'[id].test <= started'
  BY <1>5, <1>8, <1>9
<1>11. \A id \in DOMAIN registered' : OfBody(id)' => BodyOK(id)'
  BY <1>6, <1>7, <1>9
<1> QED BY <1>10, <1>11 DEF BodyInv

LEMMA BodyStep ==
  ASSUME VerdictInv, VerdictInv', BodyInv, [Next]_vars
  PROVE  BodyInv'
<1>1. CASE Runner
  BY <1>1, ControlBody, StartTestBody, FinishBodyBody, SkipDeferredBody, StartDeferredBody,
     StartDeferBody, FinishDeferBody, FinishDeferredBody DEF Runner
<1>2. CASE User
  BY <1>2, ControlBody, RegisterDeferBody DEF User
<1>3. CASE Sigint \/ Terminated \/ UNCHANGED vars
  BY <1>3, ControlBody DEF Terminated
<1> QED BY <1>1, <1>2, <1>3 DEF Next

-----------------------------------------------------------------------------
(* The raw log.                                                            *)

\* It is written when every test is settled, and what runs afterwards cannot
\* change a settled test.
SavedInv ==
  raw_log # << >> => /\ raw_log = tests
                     /\ \A k \in TestIds : Settled(k)
                     /\ Phase \in {"test_run_finished", "exit"} \cup Ended

LEMMA SavedStep ==
  ASSUME VerdictInv, SavedInv, [Next]_vars
  PROVE  SavedInv'
<1>1. CASE FinishRun
  <2>1. /\ pc = "loop" /\ started = Amount /\ tests' = tests
        /\ raw_log' \in {tests, raw_log} /\ Phase' = "test_run_finished"
    BY <1>1 DEF FinishRun, CallHooks, recordVars, Phase
  <2>2. \A k \in TestIds : Settled(k)
    <3>1. Settled(started)
      BY <2>1, AmountAssumption DEF VerdictInv, CurrentInv, Phase
    <3>2. \A k \in TestIds : k = started \/ k < started
      BY <2>1, AmountAssumption DEF TestIds
    <3> QED BY <3>1, <3>2 DEF VerdictInv, OthersInv
  <2>3. raw_log = << >> \/ raw_log = tests
    BY DEF SavedInv
  <2> QED BY <2>1, <2>2, <2>3 DEF SavedInv, Settled
<1>2. CASE ~FinishRun /\ raw_log = << >>
  <2>1. raw_log' = raw_log
    BY <1>2 DEF Next, Runner, User, StartRun, StartTest, FinishBody, CheckSigint, FinishRun,
       Exit, StartHook, FinishHook, HooksReturn, SkipDeferred, StartDeferred, StartDefer,
       FinishDefer, FinishDeferred, Log, LogAbort, RegisterDefer, Return, Sigint,
       Terminated, vars, logVars
  <2> QED BY <1>2, <2>1 DEF SavedInv
<1>3. CASE ~FinishRun /\ raw_log # << >>
  <2>1. /\ raw_log = tests /\ \A k \in TestIds : Settled(k)
        /\ Phase \in {"test_run_finished", "exit"} \cup Ended
    BY <1>3 DEF SavedInv
  <2>2. hook.fn \in HookFn
    BY DEF VerdictInv, TypeInv, TypeOK
  <2>3. tests' = tests /\ raw_log' = raw_log /\ Phase' \in {"test_run_finished", "exit"} \cup Ended
    <3> USE <2>1, <2>2 DEF Phase, Ended, HookFn
    <3>1. CASE StartHook \/ Exit \/ LogAbort \/ Sigint \/ Terminated \/ UNCHANGED vars
      BY <3>1 DEF StartHook, Exit, LogAbort, Sigint, Terminated, vars, recordVars, logVars
    <3>2. CASE FinishHook
      <4>1. hook'.fn = hook.fn
        BY <3>2 DEF FinishHook, VerdictInv, TypeInv, TypeOK
      <4> QED BY <3>2, <4>1 DEF FinishHook, recordVars, logVars
    <3>3. CASE HooksReturn
      BY <3>3 DEF HooksReturn, AfterHooks, recordVars, logVars
    <3>4. CASE \E level \in Levels, caught \in BOOLEAN : Log(level, caught)
      <4>1. PICK level \in Levels, caught \in BOOLEAN : Log(level, caught)
        BY <3>4
      <4>2. tests' = tests
        <5>1. CASE started \in TestIds /\ \A k \in TestIds : k # started => tests'[k] = tests[k]
          <6>1. tests \in [TestIds -> Test] /\ tests' \in [TestIds -> Test]
            BY <3>4, TypeStep DEF VerdictInv, TypeInv, TypeOK, Next, User
          <6>2. tests[started] \in Test /\ tests[started].status \in {"passed", "failed"}
            BY <5>1, <6>1 DEF Settled
          <6>3. tests' # tests => tests'[started] = tests[started]
            BY <4>1, <6>2, LogTests, RecordedKeepsErrors DEF VerdictInv
          <6> QED BY <5>1, <6>1, <6>3
        <5> QED BY <4>1, <5>1, LogTests DEF VerdictInv
      <4> QED BY <4>1, <4>2 DEF Log, WriteLog
    <3>5. CASE \E args \in BOOLEAN : RegisterDefer(args)
      BY <3>5 DEF RegisterDefer, recordVars, logVars
    <3>6. CASE \E result \in {"ok", "error"} : Return(result)
      BY <3>6 DEF Return, recordVars, logVars
    <3>7. CASE StartRun \/ StartTest \/ FinishBody \/ CheckSigint \/ SkipDeferred
               \/ StartDeferred \/ StartDefer \/ FinishDefer \/ FinishDeferred
      BY <3>7 DEF StartRun, StartTest, FinishBody, CheckSigint, SkipDeferred, StartDeferred,
         StartDefer, FinishDefer, FinishDeferred
    <3> QED BY <1>3, <3>1, <3>2, <3>3, <3>4, <3>5, <3>6, <3>7 DEF Next, Runner, User
  <2> QED BY <2>1, <2>3 DEF SavedInv, Settled
<1> QED BY <1>1, <1>2, <1>3

-----------------------------------------------------------------------------
DeferInv == VerdictInv /\ LoopInv /\ DeferFailuresReported /\ BodyInv /\ SavedInv

LEMMA DeferInvariant == Spec => []DeferInv
<1>1. Init => DeferInv
  BY VerdictInit, LoopInit, ReportedInit, BodyInit DEF DeferInv, Init, SavedInv
<1>2. DeferInv /\ [Next]_vars => DeferInv'
  BY VerdictStep, LoopStep, ReportedStep, BodyStep, SavedStep DEF DeferInv, VerdictInv
<1> QED BY <1>1, <1>2, PTL DEF Spec

\* The deferred functions of a body unwind: each runs exactly once, as part of
\* the teardown of its test, last registered first, whatever the outcome of the
\* body, of the other functions and of a pending SIGINT (run_deferred).
THEOREM DefersUnwindCorrect == Spec => []DefersUnwind
<1>1. ASSUME DeferInv PROVE DefersUnwind
  <2>1. DOMAIN ran = Called
    BY <1>1 DEF DeferInv, VerdictInv, TypeInv, TypeOK, Called
  <2>2. \A r, s \in Called : r < s => /\ ran[r].id # ran[s].id
                                      /\ ran[r].test = ran[s].test => ran[r].id > ran[s].id
    BY <1>1 DEF DeferInv, LoopInv, CallOrder
  <2>3. ASSUME NEW k \in 1 .. started, TornDown(k), NEW id \in BodyDefers(k)
        PROVE  \E r \in Calls(id) : Calls(id) = {r} /\ ran[r].test = k
    <3>1. OfBody(id) /\ id \in DOMAIN registered /\ registered[id].test = k
      BY <2>3 DEF BodyDefers, OfBody
    <3>2. Ran(id)
      BY <1>1, <2>3, <3>1 DEF DeferInv, BodyInv, BodyOK
    <3>3. PICK r \in Called : ran[r].id = id /\ ran[r].test = k
      BY <3>1, <3>2 DEF Ran
    <3>4. \A s \in Called : ran[s].id = id => s = r
      BY <1>1, <2>2, <3>3 DEF Called, DeferInv, VerdictInv, TypeInv, TypeOK
    <3> QED BY <2>1, <3>3, <3>4 DEF Calls
  <2> QED BY <2>1, <2>2, <2>3 DEF DefersUnwind
<1> QED BY <1>1, DeferInvariant, PTL

\* The teardown errors of a test count the deferred functions that raised while
\* it was torn down, all of them and no other (ltf_state_test_defer_failed).
THEOREM FailuresReportedCorrect == Spec => []DeferFailuresReported
<1>1. DeferInv => DeferFailuresReported
  BY DEF DeferInv
<1> QED BY <1>1, DeferInvariant, PTL

\* The raw log holds the verdict of every test, and nothing that runs after it
\* was saved (the test_run_finished hooks) changes the record it was made from.
THEOREM RawLogCorrect == Spec => []RawLogFinal
<1>1. DeferInv => RawLogFinal
  BY DEF DeferInv, SavedInv, RawLogFinal
<1> QED BY <1>1, DeferInvariant, PTL

-----------------------------------------------------------------------------
(* The stages: what hooks log stays out of the records of the tests, but   *)
(* for the test_started hooks after the first.                             *)

\* The first hook of test_started runs in HOOK_STAGE: ltf_hooks_run enters the
\* stage before its loop and leaves it after the first hook.
StageInv ==
  /\ Phase = "test_started" /\ hook.index = 0 => current_stage = "HOOK_STAGE"
  /\ pc = "hook" => hook.index < HookCount[hook.fn]

LEMMA StageStep ==
  ASSUME TypeInv, StageInv, [Next]_vars
  PROVE  StageInv'
<1>1. hook \in [fn : HookFn, index : Nat] /\ HookCount["test_started"] \in Nat
  BY HookCountAssumption DEF TypeInv, TypeOK, HookFn
<1> USE DEF StageInv, Phase
<1>2. CASE UNCHANGED <<hook, current_stage>> /\ pc' = pc
  BY <1>2
<1>3. CASE UNCHANGED <<hook, current_stage>> /\ pc' \notin {"hooks", "hook", "test_started"}
  BY <1>3
<1>4. ASSUME NEW fn \in HookFn, CallHooks(fn) PROVE StageInv'
  BY <1>4 DEF CallHooks
<1>5. CASE StartHook
  BY <1>1, <1>5 DEF StartHook
<1>6. CASE FinishHook
  <2>1. hook'.fn = hook.fn /\ hook'.index = hook.index + 1 /\ pc' = "hooks"
    BY <1>1, <1>6 DEF FinishHook
  <2> QED BY <1>1, <2>1
<1>7. CASE HooksReturn
  BY <1>1, <1>7 DEF HooksReturn, AfterHooks, HookFn
<1>8. CASE CheckSigint
  BY <1>3, <1>4, <1>8 DEF CheckSigint, HookFn
<1>9. CASE StartRun \/ StartTest \/ FinishRun
  BY <1>4, <1>9 DEF StartRun, StartTest, FinishRun, HookFn
<1>10. CASE FinishBody \/ Exit \/ SkipDeferred \/ StartDeferred \/ StartDefer \/ FinishDefer
            \/ FinishDeferred
  BY <1>3, <1>10 DEF FinishBody, Exit, SkipDeferred, StartDeferred, StartDefer, FinishDefer,
     FinishDeferred
<1>11. CASE User
  BY <1>2, <1>3, <1>11 DEF User, Log, WriteLog, LogAbort, RegisterDefer, Return
<1>12. CASE Sigint \/ Terminated \/ UNCHANGED vars
  BY <1>2, <1>3, <1>12 DEF Sigint, Terminated, vars
<1> QED BY <1>5, <1>6, <1>7, <1>8, <1>9, <1>10, <1>11, <1>12 DEF Next, Runner

-----------------------------------------------------------------------------
\* The outputs that a test keeps, from the code they should come from.
Own(o) == o.from = "body" \/ (o.from = "late_hook" /\ HookCount["test_started"] > 1)

FromOwn(t) ==
  /\ \A j \in DOMAIN t.outputs : Own(t.outputs[j])
  /\ \A j \in DOMAIN t.teardown_outputs : t.teardown_outputs[j].from = "defer"

LEMMA AppendFrom ==
  ASSUME NEW outs \in Seq(Output), NEW o \in Output
  PROVE  /\ Own(o) /\ (\A j \in DOMAIN outs : Own(outs[j]))
              => \A j \in DOMAIN Append(outs, o) : Own(Append(outs, o)[j])
         /\ o.from = "defer" /\ (\A j \in DOMAIN outs : outs[j].from = "defer")
              => \A j \in DOMAIN Append(outs, o) : Append(outs, o)[j].from = "defer"
  BY DEF Own

\* ltf_state_log adds an output to one of the two lists, by the status.
LEMMA RecordedFrom ==
  ASSUME NEW t \in Test, NEW o \in Output, FromOwn(t),
         t.status = "running" => Own(o),
         t.status \in Teardown => o.from = "defer"
  PROVE  FromOwn(Recorded(t, o))
<1>1. CASE t.status = "running"
  <2>1. Recorded(t, o) = [t EXCEPT !.outputs = Append(t.outputs, o),
                                   !.failure_reasons =
                                      IF o.level = ERROR
                                        THEN Append(t.failure_reasons, o)
                                        ELSE t.failure_reasons]
    BY <1>1 DEF Recorded, Teardown
  <2>2. /\ Recorded(t, o).outputs = Append(t.outputs, o)
        /\ Recorded(t, o).teardown_outputs = t.teardown_outputs
    BY <2>1 DEF Test
  <2>3. t.outputs \in Seq(Output)
    BY DEF Test
  <2> QED BY <1>1, <2>2, <2>3, AppendFrom DEF FromOwn
<1>2. CASE t.status \in Teardown
  <2>1. Recorded(t, o) = [t EXCEPT !.teardown_outputs = Append(t.teardown_outputs, o)]
    BY <1>2 DEF Recorded, Teardown
  <2>2. /\ Recorded(t, o).outputs = t.outputs
        /\ Recorded(t, o).teardown_outputs = Append(t.teardown_outputs, o)
    BY <2>1 DEF Test
  <2>3. t.teardown_outputs \in Seq(Output)
    BY DEF Test
  <2> QED BY <1>2, <2>2, <2>3, AppendFrom DEF FromOwn
<1>3. CASE t.status # "running" /\ t.status \notin Teardown
  BY <1>3 DEF Recorded
<1> QED BY <1>1, <1>2, <1>3

\* Steps other than a log and the start of a test leave the outputs alone.
LEMMA OutputsSame ==
  ASSUME TypeInv, [Next]_vars, ~StartTest,
         ~ \E level \in Levels, caught \in BOOLEAN : Log(level, caught),
         NEW k \in TestIds
  PROVE  /\ tests'[k].outputs = tests[k].outputs
         /\ tests'[k].teardown_outputs = tests[k].teardown_outputs
<1>0. tests \in [TestIds -> Test] /\ (pc \in InTest => started \in TestIds)
  BY StartedInQueue DEF TypeInv, TypeOK
<1>1. CASE tests' = tests
  BY <1>1
<1>2. CASE FinishBody
  BY <1>0, <1>2 DEF FinishBody, InTest, Test
<1>3. CASE StartDeferred
  BY <1>0, <1>3 DEF StartDeferred, InTest, Test
<1>4. CASE FinishDeferred
  BY <1>0, <1>4 DEF FinishDeferred, InTest, Test
<1>5. CASE FinishDefer
  BY <1>0, <1>5 DEF FinishDefer, InTest, Test
<1>6. CASE StartHook \/ FinishHook \/ HooksReturn \/ StartRun \/ CheckSigint
           \/ FinishRun \/ Exit \/ SkipDeferred \/ LogAbort \/ Sigint
           \/ StartDefer \/ Terminated \/ UNCHANGED vars
  BY <1>1, <1>6 DEF StartHook, FinishHook, HooksReturn, StartRun, CheckSigint,
     FinishRun, Exit, SkipDeferred, LogAbort, Sigint, StartDefer, Terminated,
     vars, recordVars
<1>7. CASE (\E args \in BOOLEAN : RegisterDefer(args))
           \/ \E result \in {"ok", "error"} : Return(result)
  BY <1>1, <1>7 DEF RegisterDefer, Return, recordVars
<1> QED BY <1>2, <1>3, <1>4, <1>5, <1>6, <1>7 DEF Next, Runner, User

\* A log of a hook reaches the record of a settled test, which keeps none, or it
\* is one of the test_started hooks after the first.
LEMMA LogFrom ==
  ASSUME VerdictInv, StageInv, OutputsApart,
         NEW level \in Levels, NEW caught \in BOOLEAN, Log(level, caught)
  PROVE  OutputsApart'
<1>1. CASE current_stage # "TEST_STAGE"
  <2>1. tests' = tests
    BY <1>1 DEF Log
  <2> QED BY <2>1 DEF OutputsApart
<1>2. CASE current_stage = "TEST_STAGE"
  <2> DEFINE o == [level |-> level, from |-> Author]
             t == tests[started]
  <2>1. started \in TestIds
    BY <1>2, AmountAssumption DEF Log, LogAborts, VerdictInv, TypeInv, TypeOK, TestIds
  <2>2. o \in Output /\ o.from = Author /\ pc \in UserCode
    BY LevelsAssumption DEF Log, Running, Source, Author, Output
  <2>3. /\ \A k \in TestIds : k # started => tests'[k] = tests[k]
        /\ tests'[started] = Recorded(t, o)
    BY <1>2, <2>1 DEF Log, VerdictInv, TypeInv, TypeOK
  <2>4. t \in Test
    BY <2>1 DEF VerdictInv, TypeInv, TypeOK
  <2>5. pc = "hook" => Settled(started) \/ Own(o)
    <3> SUFFICES ASSUME pc = "hook", ~Own(o) PROVE Settled(started)
      OBVIOUS
    <3>1. hook.fn \in HookFn /\ started >= 1 /\ hook.index \in Nat
          /\ HookCount["test_started"] \in Nat
      BY <2>1, HookCountAssumption DEF VerdictInv, TypeInv, TypeOK, TestIds, HookFn
    <3>2. hook.fn # "test_started"
      <4>1. hook.fn = "test_started" => hook.index # 0
        BY <1>2 DEF StageInv, Phase
      <4>2. hook.index < HookCount[hook.fn]
        BY DEF StageInv
      <4>3. hook.fn = "test_started" => hook.index > 0 /\ HookCount["test_started"] > 1
        BY <3>1, <4>1, <4>2
      <4> QED BY <2>2, <4>3 DEF Own, Author
    <3>3. hook.fn # "test_run_started"
      BY <3>1 DEF VerdictInv, CurrentInv, Phase
    <3> QED BY <3>1, <3>2, <3>3 DEF HookFn, VerdictInv, CurrentInv, Phase
  <2>6. t.status = "running" => Own(o)
    <3>1. pc = "defer" => t.status \in Teardown
      BY DEF VerdictInv, CurrentInv, Phase
    <3>2. pc = "body" => Own(o)
      BY <2>2 DEF Own, Author
    <3> QED BY <3>2, <2>2, <2>5, <3>1 DEF UserCode, Teardown, Settled
  <2>7. t.status \in Teardown => o.from = "defer"
    <3>1. pc = "body" => t.status = "running"
      BY DEF VerdictInv, CurrentInv, Phase
    <3>2. pc = "hook" => t.status \notin Teardown
      <4>1. pc = "hook" /\ Phase = "test_started" => t.status = "running"
        BY DEF VerdictInv, CurrentInv, Phase
      <4>2. pc = "hook" /\ Phase # "test_started" => Settled(started)
        <5>1. hook.fn \in HookFn /\ started >= 1
          BY <2>1 DEF VerdictInv, TypeInv, TypeOK, TestIds
        <5>2. pc = "hook" => hook.fn # "test_run_started"
          BY <5>1 DEF VerdictInv, CurrentInv, Phase
        <5> QED BY <5>1, <5>2 DEF HookFn, VerdictInv, CurrentInv, Phase
      <4> QED BY <4>1, <4>2 DEF Teardown, Settled
    <3>3. pc = "defer" => o.from = "defer"
      BY <2>2 DEF Author
    <3> QED BY <3>2, <3>3, <2>2, <2>5, <3>1 DEF UserCode, Teardown, Settled
  <2>8. \A k \in TestIds : FromOwn(tests[k])
    BY DEF OutputsApart, FromOwn, Own
  <2>9. FromOwn(Recorded(t, o))
    <3> HIDE DEF o, t
    <3>1. FromOwn(t)
      BY <2>1, <2>8 DEF t
    <3> QED BY <2>2, <2>4, <2>6, <2>7, <3>1, RecordedFrom
  <2>10. \A k \in TestIds : FromOwn(tests'[k])
    <3> HIDE DEF o, t
    <3> QED BY <2>3, <2>8, <2>9
  <2> QED BY <2>10 DEF OutputsApart, FromOwn, Own
<1> QED BY <1>1, <1>2

ApartInv == VerdictInv /\ StageInv /\ OutputsApart

LEMMA ApartStep ==
  ASSUME ApartInv, [Next]_vars
  PROVE  ApartInv'
<1> USE DEF ApartInv
<1>1. VerdictInv' /\ StageInv'
  BY VerdictStep, StageStep DEF VerdictInv
<1>2. CASE \E level \in Levels, caught \in BOOLEAN : Log(level, caught)
  BY <1>1, <1>2, LogFrom
<1>3. CASE StartTest
  <2>1. started + 1 \in TestIds
    BY <1>3, AmountAssumption DEF StartTest, VerdictInv, TypeInv, TypeOK, TestIds
  <2>2. /\ \A k \in TestIds : k # started + 1 => tests'[k] = tests[k]
        /\ tests'[started + 1] = NewTest("running")
    BY <1>3, <2>1 DEF StartTest, VerdictInv, TypeInv, TypeOK
  <2>3. FromOwn(NewTest("running"))
    BY DEF FromOwn, NewTest
  <2>4. \A k \in TestIds : FromOwn(tests'[k])
    BY <2>2, <2>3 DEF OutputsApart, FromOwn, Own
  <2> QED BY <1>1, <2>4 DEF OutputsApart, FromOwn, Own
<1>4. CASE /\ ~StartTest
           /\ ~ \E level \in Levels, caught \in BOOLEAN : Log(level, caught)
  <2>1. \A k \in TestIds : /\ tests'[k].outputs = tests[k].outputs
                           /\ tests'[k].teardown_outputs = tests[k].teardown_outputs
    BY <1>4, OutputsSame DEF VerdictInv
  <2> QED BY <1>1, <2>1 DEF OutputsApart
<1> QED BY <1>2, <1>3, <1>4

\* However many hooks each event has, what hooks log stays out of the records of
\* the tests, but for the test_started hooks after the first, and the teardown
\* outputs come from deferred functions only (ltf_state_log, by the stage that
\* ltf_hooks_run entered).
THEOREM OutputsStayApart == Spec => []OutputsApart
<1>1. Init => ApartInv
  <2>1. Init => StageInv
    BY DEF Init, StageInv, Phase
  <2>2. Init => OutputsApart
    BY DEF Init, OutputsApart, NewTest
  <2> QED BY <2>1, <2>2, VerdictInit DEF ApartInv
<1>2. ApartInv /\ [Next]_vars => ApartInv'
  BY ApartStep
<1>3. ApartInv => OutputsApart
  BY DEF ApartInv
<1> QED BY <1>1, <1>2, <1>3, PTL DEF Spec

=============================================================================
