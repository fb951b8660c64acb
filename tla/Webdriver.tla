----------------------------- MODULE Webdriver -----------------------------
(***************************************************************************)
(* One test that drives a browser with lib/ltf/webdriver.lua: the driver   *)
(* process, its sessions, the HTTP handle of every request and the         *)
(* deferred functions that release all of them, run as in run_deferred of  *)
(* ltf_test.c.  The driver and the page are external: a request to a       *)
(* driver that is not up raises, an answer may get lost after the driver   *)
(* has done its part, and the page changes at any time.                    *)
(***************************************************************************)
EXTENDS Integers, Sequences, FiniteSets

CONSTANTS
  Sessions,     \* sessions the test may ask for
  Faults,       \* what may go wrong
  MaxRequests,  \* bound: requests of the body
  MaxCalls,     \* bound: calls of the body
  MaxChanges    \* bound: changes of the page

Fault == {"lost",   \* an answer is lost
          "dies"}   \* the driver process ends by itself

\* What the constants must be; the module that gives them values assumes it.
ConstantsOK ==
  /\ Faults \subseteq Fault
  /\ MaxRequests \in Nat /\ MaxCalls \in Nat /\ MaxChanges \in Nat

VARIABLES
  phase,    \* the test: its body, its deferred functions, over
  driver,   \* the driver process
  session,  \* sessions at the driver: ended by DELETE, or gone with the driver
  known,    \* sessions the test has an object of
  defers,   \* what was deferred, in order
  next,     \* index of the loop of run_deferred
  handles,  \* HTTP handles made
  cleaned,  \* handles cleaned up
  page,     \* the element looked for: its id, and if it is there and displayed
  wait,     \* wait_until_visible in progress
  faulty,   \* history: something went wrong
  calls, changes
vars == <<phase, driver, session, known, defers, next, handles, cleaned, page, wait,
          faulty, calls, changes>>

serverVars == <<driver, session, known>>
handleVars == <<defers, handles, cleaned>>
pageVars   == <<page, changes>>

\* The deferred closes make a request each, on top of those of the body.
MaxHandles == MaxRequests + MaxCalls

Defer == [kind : {"kill"}] \cup [kind : {"close"}, session : Sessions]
           \cup [kind : {"cleanup"}, handle : 1 .. MaxHandles]
NoId  == 0
NoWait == [at |-> "no", id |-> NoId, expired |-> FALSE]

Init ==
  /\ phase = "body" /\ driver = "none"
  /\ session = [s \in Sessions |-> "none"] /\ known = {}
  /\ defers = << >> /\ next = 0
  /\ handles = 0 /\ cleaned = {}
  /\ page = [id |-> 1, there |-> FALSE, shown |-> FALSE]
  /\ wait = NoWait
  /\ faulty = FALSE /\ calls = 0 /\ changes = 0

\* A call of the body.
Called ==
  /\ phase = "body" /\ wait.at = "no" /\ calls < MaxCalls
  /\ calls' = calls + 1

-----------------------------------------------------------------------------
(* Requests.  wd_post_json and its like make a handle, defer its cleanup   *)
(* and perform.                                                            *)

MayRequest == handles < MaxRequests

Request ==
  /\ handles' = handles + 1
  /\ defers' = Append(defers, [kind |-> "cleanup", handle |-> handles + 1])
  /\ UNCHANGED cleaned

Up == driver = "up"
MayLose == Up /\ "lost" \in Faults

-----------------------------------------------------------------------------
(* The body.                                                               *)

Spawn ==
  /\ Called /\ driver = "none"
  /\ driver' = "starting"
  /\ UNCHANGED <<phase, session, known, handleVars, next, pageVars, wait, faulty>>

DeferKill ==
  /\ Called /\ driver # "none"
  /\ defers' = Append(defers, [kind |-> "kill"])
  /\ UNCHANGED <<phase, serverVars, next, handles, cleaned, pageVars, wait, faulty>>

DeferClose(s) ==
  /\ Called /\ s \in known
  /\ defers' = Append(defers, [kind |-> "close", session |-> s])
  /\ UNCHANGED <<phase, serverVars, next, handles, cleaned, pageVars, wait, faulty>>

\* new_session raises when the driver is not up or refuses, and also when the
\* answer is lost: the session is then open and the test has no object of it.
NewSession(s) ==
  /\ Called /\ MayRequest /\ session[s] = "none"
  /\ \/ /\ Up /\ Request
        /\ session' = [session EXCEPT ![s] = "open"]
        /\ known' = known \cup {s}
        /\ UNCHANGED faulty
     \/ /\ MayLose /\ Request
        /\ session' = [session EXCEPT ![s] = "open"]
        /\ faulty' = TRUE
        /\ UNCHANGED known
     \/ /\ Request
        /\ UNCHANGED <<session, known, faulty>>
  /\ UNCHANGED <<phase, driver, next, pageVars, wait>>

\* session:cmd, and the methods that only pass its answer on.
Command(s) ==
  /\ Called /\ MayRequest /\ s \in known
  /\ Request
  /\ UNCHANGED <<phase, serverVars, next, pageVars, wait, faulty>>

\* DELETE of the session; it raises when the driver is not up.
End(s) ==
  /\ Request
  /\ session' = IF Up /\ session[s] = "open" THEN [session EXCEPT ![s] = "ended"] ELSE session

\* session:close called by the body.
Close(s) ==
  /\ Called /\ MayRequest /\ s \in known
  /\ End(s)
  /\ UNCHANGED <<phase, driver, known, next, pageVars, wait, faulty>>

-----------------------------------------------------------------------------
(* wait_until_visible.                                                     *)

StartWait(s) ==
  /\ Called /\ s \in known /\ session[s] = "open"
  /\ wait' = [at |-> "poll", id |-> NoId, expired |-> FALSE]
  /\ UNCHANGED <<phase, serverVars, handleVars, next, pageVars, faulty>>

\* The answer of the driver to POST element: an id, or an error value in
\* which find_element finds no id.
Answer == IF page.there THEN page.id ELSE NoId

\* The head of the loop: timeout, or find_element inside pcall.
Poll ==
  /\ wait.at = "poll"
  /\ \/ /\ wait.expired
        /\ wait' = NoWait
        /\ UNCHANGED handleVars
     \/ /\ ~wait.expired /\ handles + 1 < MaxRequests
        /\ Request
        /\ \/ Up /\ wait' = [wait EXCEPT !.at = "displayed", !.id = Answer]
           \/ (~Up \/ MayLose) /\ UNCHANGED wait
  /\ UNCHANGED <<phase, serverVars, next, pageVars, faulty, calls>>

\* GET displayed, outside of pcall: it raises when there is no answer, and an id
\* that is stale or none at all gets an error value, which is not true.
Displayed ==
  /\ wait.at = "displayed" /\ MayRequest
  /\ Request
  /\ \/ /\ Up
        /\ wait' = [wait EXCEPT !.at = IF page.there /\ page.shown /\ wait.id = page.id
                                       THEN "return" ELSE "poll"]
     \/ (~Up \/ MayLose) /\ wait' = NoWait
  /\ UNCHANGED <<phase, serverVars, next, pageVars, faulty, calls>>

\* The answer was true: the id is returned, whatever the page shows by now.
Return ==
  /\ wait.at = "return"
  /\ wait' = NoWait
  /\ UNCHANGED <<phase, serverVars, handleVars, next, pageVars, faulty, calls>>

Expire ==
  /\ wait.at # "no" /\ ~wait.expired
  /\ wait' = [wait EXCEPT !.expired = TRUE]
  /\ UNCHANGED <<phase, serverVars, handleVars, next, pageVars, faulty, calls>>

-----------------------------------------------------------------------------
(* The end of the body and the deferred functions.                         *)

\* The body returns or raises, at any call.
EndBody ==
  /\ phase = "body" /\ wait.at = "no"
  /\ phase' = "defers"
  /\ next' = Len(defers)
  /\ UNCHANGED <<serverVars, handleVars, pageVars, wait, faulty, calls>>

Orphaned == [s \in Sessions |-> IF session[s] = "open" THEN "orphaned" ELSE session[s]]

Killed ==
  /\ driver' = "killed"
  /\ session' = Orphaned

\* Mutant: the deferred functions run in the order they were deferred.
LastFirst == defers[Len(defers) + 1 - next]

Last == defers[next]

Cleanup ==
  /\ phase = "defers" /\ next > 0 /\ Last.kind = "cleanup"
  /\ cleaned' = cleaned \cup {Last.handle}
  /\ next' = next - 1
  /\ UNCHANGED <<phase, serverVars, defers, handles, pageVars, wait, faulty, calls>>

KillDriver ==
  /\ phase = "defers" /\ next > 0 /\ Last.kind = "kill"
  /\ IF driver \in {"starting", "up"} THEN Killed ELSE UNCHANGED <<driver, session>>
  /\ next' = next - 1
  /\ UNCHANGED <<phase, known, handleVars, pageVars, wait, faulty, calls>>

\* session:close as a deferred function; one that raises is reported and the
\* loop goes on.  The cleanup it defers is behind the bound of the loop.
CloseSession ==
  /\ phase = "defers" /\ next > 0 /\ Last.kind = "close"
  /\ End(Last.session)
  /\ next' = next - 1
  /\ UNCHANGED <<phase, driver, known, pageVars, wait, faulty, calls>>

EndTest ==
  /\ phase = "defers" /\ next = 0
  /\ phase' = "over"
  /\ UNCHANGED <<serverVars, handleVars, next, pageVars, wait, faulty, calls>>

-----------------------------------------------------------------------------
(* The driver and the page.                                                *)

DriverUp ==
  /\ driver = "starting"
  /\ driver' = "up"
  /\ UNCHANGED <<phase, session, known, handleVars, next, pageVars, wait, faulty, calls>>

DriverDies ==
  /\ "dies" \in Faults /\ driver \in {"starting", "up"} /\ phase # "over"
  /\ driver' = "dead"
  /\ session' = Orphaned
  /\ faulty' = TRUE
  /\ UNCHANGED <<phase, known, handleVars, next, pageVars, wait, calls>>

\* The element comes, goes, is shown or hidden, or is replaced by another.
PageChanges ==
  /\ changes < MaxChanges /\ phase = "body"
  /\ changes' = changes + 1
  /\ \/ page' = [page EXCEPT !.there = ~@]
     \/ page' = [page EXCEPT !.shown = ~@]
     \/ page' = [page EXCEPT !.id = @ + 1]
  /\ UNCHANGED <<phase, serverVars, handleVars, next, wait, faulty, calls>>

Body ==
  \/ Spawn \/ DeferKill \/ EndBody
  \/ \E s \in Sessions : NewSession(s) \/ Close(s) \/ DeferClose(s) \/ Command(s) \/ StartWait(s)

Waiting  == Poll \/ Displayed \/ Return
Deferred == Cleanup \/ KillDriver \/ CloseSession \/ EndTest

Terminated == phase = "over" /\ UNCHANGED vars

Next ==
  \/ Body \/ Waiting \/ Deferred
  \/ Expire \/ DriverUp \/ DriverDies \/ PageChanges
  \/ Terminated

Spec == Init /\ [][Next]_vars

-----------------------------------------------------------------------------
\* Every variable stays in its type, and a handle is cleaned up after it was
\* made.
TypeOK ==
  /\ phase \in {"body", "defers", "over"}
  /\ driver \in {"none", "starting", "up", "killed", "dead"}
  /\ session \in [Sessions -> {"none", "open", "ended", "orphaned"}]
  /\ known \subseteq {s \in Sessions : session[s] # "none"}
  /\ defers \in Seq(Defer) /\ next \in 0 .. Len(defers)
  /\ handles \in 0 .. MaxHandles /\ cleaned \subseteq 1 .. handles
  /\ wait \in [at : {"no", "poll", "displayed", "return"}, id : Nat, expired : BOOLEAN]
  /\ page \in [id : Nat, there : BOOLEAN, shown : BOOLEAN]
  /\ faulty \in BOOLEAN /\ calls \in 0 .. MaxCalls /\ changes \in 0 .. MaxChanges

Registered(kind) == {i \in DOMAIN defers : defers[i].kind = kind}

\* However the test ended, the driver is not left running once its kill was
\* deferred, also when a deferred close raises.
DriverReleased == (phase = "over" /\ Registered("kill") # {}) => driver \notin {"starting", "up"}

\* Every handle of a request of the body is cleaned up when the test is over,
\* also that of a request that raised.
BodyHandlesCleaned ==
  phase = "over" => \A h \in 1 .. handles :
    h \in cleaned \/ h > handles - Cardinality(Registered("close"))

\* Without faults a session closed by a deferred function is ended before the
\* driver it belongs to is killed, in the order the documentation uses: kill
\* deferred first, close after the session was made.
SessionsEnded ==
  (phase = "over" /\ ~faulty) =>
     \A i \in Registered("close") :
        (Registered("kill") # {} /\ \A k \in Registered("kill") : k < i)
           => session[defers[i].session] = "ended"

\* However the test ended, its teardown releases what the body has taken.
CleanedUp == DriverReleased /\ BodyHandlesCleaned /\ SessionsEnded

=============================================================================
