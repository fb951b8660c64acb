----------------------------- MODULE MCTestRun -----------------------------
(***************************************************************************)
(* Instances of TestRun for TLC: how many hooks the project registers.     *)
(***************************************************************************)
EXTENDS TestRun

NoHooks == [fn \in HookFn |-> 0]

\* Two hooks for every event: the second one runs in TEST_STAGE.
TwoHooks == [fn \in HookFn |-> 2]

Calls21 == [kind \in UserCode |-> IF kind = "body" THEN 2 ELSE 1]
Calls1  == [kind \in UserCode |-> 1]

=============================================================================
