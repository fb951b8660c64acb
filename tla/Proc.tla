-------------------------------- MODULE Proc --------------------------------
(***************************************************************************)
(* ltf.proc: the handles of spawned processes (modules/proc/ltf-proc.c)    *)
(* and ltf.proc.run on top of them (lib/ltf/proc.lua).                     *)
(*                                                                         *)
(* LTF is one thread: a call that waits for a pipe stops everything but    *)
(* the spawned processes.  A handle keeps six descriptor numbers for as    *)
(* long as it lives; the table says what a number stands for now.  Data is *)
(* counted in units, a pipe holds PipeSize of them.                        *)
(***************************************************************************)
EXTENDS Naturals, FiniteSets

CONSTANTS
  Amount,     \* processes that are spawned at most
  FdLimit,    \* descriptors that LTF may have open
  OwnFds,     \* how many it may have open for itself: a set of numbers
  PipeSize,
  MaxOutput,  \* units that a process writes to a stream at most
  MaxInput,   \* units that a process waits for on its stdin at most
  Timed,      \* which run calls are made: subset of BOOLEAN, TRUE has a timeout
  MaxCalls    \* bound on the calls of the tests

Procs   == 1 .. Amount
Streams == {"stdin", "stdout", "stderr"}
Outputs == {"stdout", "stderr"}
Fds     == 0 .. FdLimit - 1
All     == MaxOutput + 1  \* more than there will be

ASSUME AmountAssumption  == Amount \in Nat \ {0}
ASSUME FdLimitAssumption == FdLimit \in Nat \ {0} /\ OwnFds \subseteq 1 .. FdLimit
ASSUME SizesAssumption   == PipeSize \in Nat \ {0} /\ MaxOutput \in Nat /\ MaxInput \in Nat
ASSUME TimedAssumption   == Timed \subseteq BOOLEAN
ASSUME CallsAssumption   == MaxCalls \in Nat

VARIABLES
  fds,      \* what each descriptor of LTF is: an end of a pipe, its own, free
  handle,
  child,    \* the operating system's side of each process
  pipe,     \* units in the pipes of each process
  thread,   \* what LTF is doing: a call that may wait, or the code of a test
  got,      \* units each handle returned from each stream
  runs,     \* how the run call on each process went
  overlap,  \* history: a handle was used on after the next one was opened
  calls

vars == <<fds, handle, child, pipe, thread, got, runs, overlap, calls>>

Free    == [proc |-> 0, stream |-> "free"]
Own     == [proc |-> 0, stream |-> "own"]
End     == {Free, Own} \cup [proc : Procs, stream : Streams]

\* l_module_proc_t: whether pid is set, which FILEs are open, and the numbers
\* of each pipe, LTF's end first.
Handle  == [opened : BOOLEAN, pid : BOOLEAN, files : SUBSET Streams,
            fd : [Streams -> Fds \X Fds], killed : BOOLEAN]
Child   == [state : {"none", "running", "exited", "reaped"},
            left : BOOLEAN,  \* a process that it left behind has its ends of the pipes
            output : [Outputs -> Nat], wrote : [Outputs -> Nat],
            input : Nat, signal : {"none", "SIGTERM"}]
Thread  == [at : {"test", "write", "read", "run", "dead"}, proc : 0 .. Amount,
            stream : Streams, want : Nat, step : {"call", "wait", "stdout", "stderr"}]
Run     == {"none", "waiting", "timed", "returned", "timeout"}

Idle == [at |-> "test", proc |-> 0, stream |-> "stdin", want |-> 0, step |-> "call"]

Init ==
  /\ \E own \in OwnFds : fds = [n \in Fds |-> IF n < own THEN Own ELSE Free]
  /\ handle = [p \in Procs |-> [opened |-> FALSE, pid |-> FALSE, files |-> {},
                                fd |-> [s \in Streams |-> <<0, 0>>], killed |-> FALSE]]
  /\ child = [p \in Procs |-> [state |-> "none", left |-> FALSE, output |-> [s \in Outputs |-> 0],
                               wrote |-> [s \in Outputs |-> 0],
                               input |-> 0, signal |-> "none"]]
  /\ pipe = [p \in Procs |-> [s \in Streams |-> 0]]
  /\ thread = Idle
  /\ got = [p \in Procs |-> [s \in Outputs |-> 0]]
  /\ runs = [p \in Procs |-> "none"]
  /\ overlap = FALSE
  /\ calls = 0

-----------------------------------------------------------------------------
\* A test makes a call.
Called ==
  /\ thread.at = "test"
  /\ calls < MaxCalls
  /\ calls' = calls + 1

\* The descriptors that the next calls of pipe get, lowest first.
FreeFds == {n \in Fds : fds[n] = Free}
NextFd(k) == CHOOSE n \in FreeFds : Cardinality({m \in FreeFds : m < n}) = k - 1

\* proc_close_streams: the FILEs are closed and then all six numbers, the two
\* or three of them that are closed already included.
Numbers(h)   == UNION {{h.fd[s][1], h.fd[s][2]} : s \in Streams}
Closed(ns)   == [n \in Fds |-> IF n \in ns THEN Free ELSE fds[n]]

\* spawn with its three pipes, whose child ends are closed at once.
Spawned(p) ==
  /\ Cardinality(FreeFds) >= 6
  /\ handle' = [handle EXCEPT ![p] =
       [opened |-> TRUE, pid |-> TRUE, files |-> Streams,
        fd |-> [stdin  |-> <<NextFd(2), NextFd(1)>>,
                stdout |-> <<NextFd(3), NextFd(4)>>,
                stderr |-> <<NextFd(5), NextFd(6)>>],
        killed |-> FALSE]]
  /\ fds' = [n \in Fds |->
       IF \E s \in Streams : n = handle'[p].fd[s][1]
       THEN [proc |-> p, stream |-> CHOOSE s \in Streams : n = handle'[p].fd[s][1]]
       ELSE fds[n]]
  /\ \E output \in [Outputs -> 0 .. MaxOutput], input \in 0 .. MaxInput :
       child' = [child EXCEPT ![p].state = "running",
                              ![p].output = output, ![p].input = input]

\* Processes are spawned in order.
Fresh(p) ==
  /\ child[p].state = "none"
  /\ \A q \in 1 .. p - 1 : child[q].state # "none"

\* A test that keeps its handles apart is done with one, and has killed it
\* once, before it opens the next.
Overlaps(p) ==
  \E q \in 1 .. p - 1 :
    handle[q].opened /\ ~handle[q].killed /\ runs[q] # "timeout"

Opens(p) == overlap' = (overlap \/ Overlaps(p))

Spawn(p) ==
  /\ Called
  /\ Fresh(p)
  /\ Spawned(p)
  /\ Opens(p)
  /\ UNCHANGED <<pipe, thread, got, runs>>

\* pipe() or posix_spawnp() fails, which raises.  When pipe() does, the numbers
\* of the pipes that were not made are still 0 and are closed all the same.
SpawnFails(p) ==
  /\ Called
  /\ Fresh(p)
  /\ fds' = IF Cardinality(FreeFds) < 6 THEN Closed({0}) ELSE fds
  /\ child' = [child EXCEPT ![p].state = "reaped"]
  /\ Opens(p)
  /\ UNCHANGED <<handle, pipe, thread, got, runs>>

\* M.run starts with a spawn.
StartRun(p) ==
  /\ Called
  /\ Fresh(p)
  /\ Spawned(p)
  /\ \E timed \in Timed :
       runs' = [runs EXCEPT ![p] = IF timed THEN "timed" ELSE "waiting"]
  /\ thread' = [Idle EXCEPT !.at = "run", !.proc = p, !.step = "wait"]
  /\ Opens(p)
  /\ UNCHANGED <<pipe, got>>

-----------------------------------------------------------------------------
\* The handle of a run call is local to it.
Held(p) == handle[p].opened /\ runs[p] = "none"

\* Mutant: the pid is kept, and used again.
ReapKeepsPid(p) ==
  IF handle[p].pid /\ child[p].state = "exited"
  THEN /\ child' = [child EXCEPT ![p].state = "reaped"]
       /\ UNCHANGED handle
  ELSE UNCHANGED <<child, handle>>

\* wait: waitpid with WNOHANG, unless the process was reaped.
Reap(p) ==
  IF handle[p].pid /\ child[p].state = "exited"
  THEN /\ child' = [child EXCEPT ![p].state = "reaped"]
       /\ handle' = [handle EXCEPT ![p].pid = FALSE]
  ELSE UNCHANGED <<child, handle>>

Wait(p) ==
  /\ Called
  /\ Held(p)
  /\ Reap(p)
  /\ UNCHANGED <<fds, pipe, thread, got, runs, overlap>>

\* kill closes everything, signals the process if it was not reaped and looks
\* whether it has ended by then.
KillProc(p) ==
  /\ fds' = Closed(Numbers(handle[p]))
  /\ \E ended \in BOOLEAN :
       LET reaped == handle[p].pid /\ (ended \/ child[p].state = "exited") IN
       /\ handle' = [handle EXCEPT ![p].files = {}, ![p].killed = TRUE,
                                   ![p].pid = @ /\ ~reaped]
       /\ child' = [child EXCEPT
            ![p].state = IF reaped THEN "reaped" ELSE @,
            ![p].signal = IF handle[p].pid THEN "SIGTERM" ELSE @]

Kill(p) ==
  /\ Called
  /\ Held(p)
  /\ KillProc(p)
  /\ overlap' = (overlap \/ handle[p].killed)
  /\ UNCHANGED <<pipe, thread, got, runs>>

-----------------------------------------------------------------------------
\* What the FILE of a handle reads or writes now.
At(p, s) == fds[handle[p].fd[s][1]]

\* The other ends of its pipes are open: in the process, or in one that it
\* started and that outlives it.
Alive(p) == child[p].state = "running" \/ child[p].left

\* write, which raises when stdin was closed; otherwise it waits for the pipe.
StartWrite(p) ==
  /\ Called
  /\ Held(p)
  /\ thread' = IF "stdin" \in handle[p].files
               THEN [Idle EXCEPT !.at = "write", !.proc = p]
               ELSE Idle
  /\ UNCHANGED <<fds, handle, child, pipe, got, runs, overlap>>

\* A write to a pipe that nobody reads any more is a SIGPIPE, which LTF leaves
\* at its default; a write to a wrong descriptor fails and is not noticed.
Write ==
  LET end == At(thread.proc, "stdin") IN
  /\ thread.at = "write"
  /\ IF end.stream # "stdin" THEN thread' = Idle /\ UNCHANGED pipe
     ELSE IF ~Alive(end.proc)
     THEN thread' = [Idle EXCEPT !.at = "dead"] /\ UNCHANGED pipe
     ELSE /\ pipe[end.proc].stdin < PipeSize
          /\ pipe' = [pipe EXCEPT ![end.proc].stdin = @ + 1]
          /\ thread' = Idle
  /\ UNCHANGED <<fds, handle, child, got, runs, calls, overlap>>

\* read; a stream that was read to its end, or killed, is empty.  What fread
\* takes ahead of its caller still counts as in the pipe.
StartRead(p, s, want) ==
  /\ Called
  /\ Held(p)
  /\ s \in handle[p].files
  /\ thread' = [Idle EXCEPT !.at = "read", !.proc = p, !.stream = s,
                            !.want = IF handle[p].pid THEN want ELSE All]
  /\ UNCHANGED <<fds, handle, child, pipe, got, runs, overlap>>

Draining == \/ thread.at = "read"
            \/ thread.at = "run" /\ thread.step \in Outputs

\* fread takes what is there ...
ReadUnit ==
  LET end == At(thread.proc, thread.stream) IN
  /\ Draining
  /\ thread.want > 0
  /\ end.stream \in Outputs
  /\ pipe[end.proc][end.stream] > 0
  /\ pipe' = [pipe EXCEPT ![end.proc][end.stream] = @ - 1]
  /\ got' = [got EXCEPT ![thread.proc][thread.stream] = @ + 1]
  /\ thread' = [thread EXCEPT !.want = IF handle[thread.proc].pid THEN @ - 1 ELSE @]
  /\ UNCHANGED <<fds, handle, child, runs, calls, overlap>>

\* ... until it has all it wants or the stream ends, which it does when nobody
\* has the other end any more, not when the process has ended.
ReadEnds ==
  LET end == At(thread.proc, thread.stream) IN
  \/ thread.want = 0
  \/ end.stream \notin Outputs
  \/ /\ end.stream \in Outputs
     /\ pipe[end.proc][end.stream] = 0
     /\ ~Alive(end.proc)

\* Mutant: the FILE is closed and its pointer kept.
CloseDrainedKeeps(p, s) ==
  IF handle[p].pid THEN UNCHANGED <<fds, handle>>
  ELSE fds' = Closed({handle[p].fd[s][1]}) /\ UNCHANGED handle

\* The stream of a process that was reaped is closed at its end.
CloseDrained(p, s) ==
  IF handle[p].pid THEN UNCHANGED <<fds, handle>>
  ELSE /\ fds' = Closed({handle[p].fd[s][1]})
       /\ handle' = [handle EXCEPT ![p].files = @ \ {s}]

FinishRead ==
  /\ thread.at = "read"
  /\ ReadEnds
  /\ CloseDrained(thread.proc, thread.stream)
  /\ thread' = Idle
  /\ UNCHANGED <<child, pipe, got, runs, calls, overlap>>

-----------------------------------------------------------------------------
\* Mutant: the output is read while the process may still write.
PollRunReads ==
  /\ thread.at = "run" /\ thread.step = "wait"
  /\ UNCHANGED <<child, handle>>
  /\ thread' = [thread EXCEPT !.step = "stdout", !.stream = "stdout", !.want = 1]
  /\ UNCHANGED <<fds, pipe, got, runs, calls, overlap>>

\* M.run polls the process, until its timeout if it has one ...
PollRun ==
  /\ thread.at = "run" /\ thread.step = "wait"
  /\ Reap(thread.proc)
  /\ thread' = IF child'[thread.proc].state = "reaped"
               THEN [thread EXCEPT !.step = "stdout", !.stream = "stdout",
                                   !.want = All]
               ELSE thread
  /\ UNCHANGED <<fds, pipe, got, runs, calls, overlap>>

\* Mutant: the clock is only looked at once the process has ended.
ExpireRunLate ==
  /\ thread.at = "run" /\ thread.step = "wait"
  /\ runs[thread.proc] = "timed"
  /\ child[thread.proc].state = "exited"
  /\ runs' = [runs EXCEPT ![thread.proc] = "timeout"]
  /\ thread' = Idle
  /\ UNCHANGED <<fds, handle, child, pipe, got, calls, overlap>>

ExpireRun ==
  /\ thread.at = "run" /\ thread.step = "wait"
  /\ runs[thread.proc] = "timed"
  /\ runs' = [runs EXCEPT ![thread.proc] = "timeout"]
  /\ thread' = Idle
  /\ UNCHANGED <<fds, handle, child, pipe, got, calls, overlap>>

\* ... reads what it wrote, stdout first ...
NextStream ==
  /\ thread.at = "run" /\ thread.step = "stdout"
  /\ ReadEnds
  /\ CloseDrained(thread.proc, "stdout")
  /\ thread' = [thread EXCEPT !.step = "stderr", !.stream = "stderr"]
  /\ UNCHANGED <<child, pipe, got, runs, calls, overlap>>

\* ... and ends with kill.
FinishRun ==
  /\ thread.at = "run" /\ thread.step = "stderr"
  /\ ReadEnds
  /\ KillProc(thread.proc)
  /\ runs' = [runs EXCEPT ![thread.proc] = "returned"]
  /\ thread' = Idle
  /\ UNCHANGED <<pipe, got, calls, overlap>>

-----------------------------------------------------------------------------
\* The spawned process: it waits for its input, writes its output and ends.  A
\* process that it leaves behind goes on with that.
HasReader(p, s) == \E n \in Fds : fds[n] = [proc |-> p, stream |-> s]

ChildReads(p) ==
  /\ Alive(p)
  /\ child[p].input > 0
  /\ pipe[p].stdin > 0
  /\ pipe' = [pipe EXCEPT ![p].stdin = @ - 1]
  /\ child' = [child EXCEPT ![p].input = @ - 1]
  /\ UNCHANGED <<fds, handle, thread, got, runs, calls, overlap>>

ChildWrites(p, s) ==
  /\ Alive(p)
  /\ child[p].input = 0
  /\ child[p].wrote[s] < child[p].output[s]
  /\ HasReader(p, s)
  /\ pipe[p][s] < PipeSize
  /\ pipe' = [pipe EXCEPT ![p][s] = @ + 1]
  /\ child' = [child EXCEPT ![p].wrote[s] = @ + 1]
  /\ UNCHANGED <<fds, handle, thread, got, runs, calls, overlap>>

Done(p)     == child[p].input = 0 /\ child[p].wrote = child[p].output
Stranded(p) == \E s \in Streams : ~HasReader(p, s)

\* It ends when it is done, by the signal or when its pipes are gone ...
ChildEnds(p) ==
  /\ child[p].state = "running"
  /\ Done(p) \/ child[p].signal # "none" \/ Stranded(p)
  /\ child' = [child EXCEPT ![p].state = "exited"]
  /\ UNCHANGED <<fds, handle, pipe, thread, got, runs, calls, overlap>>

\* ... or at any time and leaves the rest to another process, with its pipes.
Leaves(p) ==
  /\ child[p].state = "running"
  /\ child' = [child EXCEPT ![p].state = "exited", ![p].left = TRUE]
  /\ UNCHANGED <<fds, handle, pipe, thread, got, runs, calls, overlap>>

\* The process left behind may end when it is done, or never.
LeftEnds(p) ==
  /\ child[p].left
  /\ Done(p) \/ Stranded(p)
  /\ child' = [child EXCEPT ![p].left = FALSE]
  /\ UNCHANGED <<fds, handle, pipe, thread, got, runs, calls, overlap>>

ChildStep(p) == ChildReads(p) \/ ChildEnds(p) \/ \E s \in Outputs : ChildWrites(p, s)

-----------------------------------------------------------------------------
Terminated ==
  /\ \/ thread.at = "test" /\ calls = MaxCalls
     \/ thread.at = "dead"
  /\ UNCHANGED vars

Test ==
  \E p \in Procs :
    \/ Spawn(p) \/ SpawnFails(p) \/ StartRun(p)
    \/ Wait(p) \/ Kill(p) \/ StartWrite(p)
    \/ \E s \in Outputs, want \in {1, All} : StartRead(p, s, want)

Blocking == Write \/ ReadUnit \/ FinishRead \/ PollRun \/ NextStream \/ FinishRun

Next ==
  \/ Test \/ Blocking \/ ExpireRun
  \/ \E p \in Procs : ChildStep(p) \/ Leaves(p) \/ LeftEnds(p)
  \/ Terminated

Spec == Init /\ [][Next]_vars

\* LTF goes on when it can, clocks advance, and a process that can go on does;
\* it need not leave another behind, and that need not end.
FairSpec ==
  /\ Spec
  /\ WF_vars(Blocking)
  /\ WF_vars(ExpireRun)
  /\ \A p \in Procs : WF_vars(ChildStep(p))

-----------------------------------------------------------------------------
\* Every variable stays in its type, and no pipe holds more than fits.
TypeOK ==
  /\ fds \in [Fds -> End]
  /\ handle \in [Procs -> Handle]
  /\ child \in [Procs -> Child]
  /\ pipe \in [Procs -> [Streams -> 0 .. PipeSize]]
  /\ thread \in Thread
  /\ got \in [Procs -> [Outputs -> Nat]]
  /\ runs \in [Procs -> Run]
  /\ overlap \in BOOLEAN
  /\ calls \in 0 .. MaxCalls

\* A pid is only waited for and signalled while it is the handle's own child:
\* once the process was reaped the number may belong to anybody.
PidOwned == \A p \in Procs : handle[p].pid => child[p].state \in {"running", "exited"}

\* A run that returns returns everything the process wrote, stderr too, and what
\* one that it left behind wrote, whatever the order they wrote in, and leaves
\* neither a process nor a pipe.
RunComplete ==
  \A p \in Procs : runs[p] = "returned" =>
    /\ got[p] = child[p].wrote
    /\ child[p].wrote = child[p].output
    /\ child[p].state = "reaped" /\ ~child[p].left
    /\ \A s \in Streams : ~HasReader(p, s)

\* After kill nothing of the process is left open, whether it had ended or not
\* and whatever had been read before; and an open stream of a handle that is
\* still in use (the handle of a run that timed out is gone) is a pipe of its
\* own process, as long as the tests are done with a handle before they open
\* the next: until then no call on a handle closes or reads the descriptors of
\* another.
StreamsOwn ==
  \A p \in Procs :
    /\ handle[p].killed => \A s \in Streams : ~HasReader(p, s)
    /\ ~overlap /\ runs[p] # "timeout" =>
         \A s \in handle[p].files : At(p, s) = [proc |-> p, stream |-> s]

\* A run with a timeout comes back, whatever the process does: unless that ended
\* in time and left another one behind, which keeps the pipes.  Then the output
\* is read to its end without a timeout (proc.lua:65, ltf-proc.c:214), and the
\* run comes back once the pipes are let go, if ever.
HeldUp(p) ==
  /\ thread.at = "run" /\ thread.proc = p /\ thread.step \in Outputs
  /\ child[p].left

TimedRunReturns ==
  \A p \in Procs :
    /\ runs[p] = "timed" ~> runs[p] \in {"returned", "timeout"} \/ HeldUp(p)
    /\ runs[p] = "timed" /\ child[p].state = "reaped" /\ ~child[p].left
         ~> runs[p] = "returned"

\* From docs/LTF_LIBS/ltf.proc.md:24, a run "waits for it to complete [...], and
\* returns captured stdout, stderr, and exitcode": a run without a timeout comes
\* back from a process that ends by itself once its output is taken and leaves
\* no other behind.  Violated.
RunReturns ==
  \A p \in Procs : runs[p] = "waiting" ~> runs[p] = "returned" \/ child[p].left

=============================================================================
