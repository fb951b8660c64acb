------------------------------ MODULE Verdicts ------------------------------
(***************************************************************************)
(* What a test run promises, whatever it is made of: the tests run one     *)
(* after the other in queue order, each gets one verdict and keeps it, and *)
(* the run ends either by reporting on all of them, or cut short with no   *)
(* report.                                                                 *)
(***************************************************************************)
EXTENDS Integers

CONSTANT Amount  \* number of tests in the queue

VARIABLES
  verdict,   \* of each test of the queue
  outcome    \* of the run

TestIds == 1..Amount
Decided == {"passed", "failed"}

TypeOK ==
  /\ verdict \in [TestIds -> {"pending", "running"} \cup Decided]
  /\ outcome \in {"none", "success", "failure", "cut"}

Init ==
  /\ verdict = [k \in TestIds |-> "pending"]
  /\ outcome = "none"

Start(k) ==
  /\ outcome = "none"
  /\ verdict[k] = "pending"
  /\ \A j \in 1..(k - 1) : verdict[j] \in Decided
  /\ verdict' = [verdict EXCEPT ![k] = "running"]
  /\ UNCHANGED outcome

Decide(k, v) ==
  /\ outcome = "none"
  /\ verdict[k] = "running"
  /\ verdict' = [verdict EXCEPT ![k] = v]
  /\ UNCHANGED outcome

Report ==
  /\ outcome = "none"
  /\ \A k \in TestIds : verdict[k] \in Decided
  /\ outcome' = IF \A k \in TestIds : verdict[k] = "passed" THEN "success"
                                                            ELSE "failure"
  /\ UNCHANGED verdict

Cut ==
  /\ outcome = "none"
  /\ outcome' = "cut"
  /\ UNCHANGED verdict

Next ==
  \/ \E k \in TestIds : Start(k) \/ \E v \in Decided : Decide(k, v)
  \/ Report
  \/ Cut

vars == <<verdict, outcome>>

Spec == Init /\ [][Next]_vars

=============================================================================
