-------------------------------- MODULE Shell --------------------------------
(***************************************************************************)
(* The streams of one SSH channel: read and read_until of                  *)
(* lib/ltf/ssh/shell_channel.lua and exec of exec_channel.lua, over the    *)
(* blocking calls of modules/ssh/ltf-ssh-channel.c.  libssh2 and the       *)
(* server are external: what arrived waits in a queue per stream, the      *)
(* window bounds what may wait, and a call that libssh2 gives up after the *)
(* session's 60 seconds is a Lua error.  The lifetimes of channels are in  *)
(* Ssh.                                                                    *)
(***************************************************************************)
EXTENDS Integers, Sequences

CONSTANTS
  Bytes,     \* values of a byte
  Pattern,   \* the pattern of read_until
  Chunks,    \* sizes of the reads
  Window,    \* bytes of the channel that may wait unread
  MaxSent,   \* bound: bytes the server sends
  MaxCalls   \* bound: calls of the test

\* What the constants must be; the module that gives them values assumes it.
ConstantsOK ==
  /\ Pattern \in Seq(Bytes)
  /\ Chunks \subseteq Nat \ {0} /\ Window \in Nat \ {0}
  /\ MaxSent \in Nat /\ MaxCalls \in Nat

Streams == {"stdout", "stderr"}

VARIABLES
  remote,  \* the other side: shell or command, its exit code, whether it has
           \* ended its streams, told the code, and told it before the end (early)
  link,    \* whether the connection is up
  thread,  \* what the test is doing
  input,   \* by stream: bytes that arrived and nobody has read
  sent,    \* history, by stream: what the server sent
  last,    \* history: how the last call ended, and whether the code had been
           \* told by then; Nothing while one runs
  calls
vars == <<remote, link, thread, input, sent, last, calls>>

Idle == [at |-> "test", stream |-> "stdout", n |-> 0, given |-> TRUE, from |-> 0,
         buf |-> << >>, out |-> << >>, step |-> "check", expired |-> FALSE]
Nothing == [by |-> "none", stream |-> "stdout", from |-> 0, read |-> << >>, err |-> << >>,
            found |-> FALSE, code |-> 0, told |-> FALSE, raised |-> FALSE]

Thread == [at : {"test", "read", "read_until", "wait_eof"} \cup Streams, stream : Streams,
           n : Nat, given : BOOLEAN, from : Nat, buf : Seq(Bytes), out : Seq(Bytes),
           step : {"check", "read"}, expired : BOOLEAN]
Call   == [by : {"none", "read", "read_until", "exec"}, stream : Streams, from : Nat,
           read : Seq(Bytes), err : Seq(Bytes), found : BOOLEAN, code : {0, 1},
           told : BOOLEAN, raised : BOOLEAN]

\* A shell runs from the start; a command when exec asked for it.
Init ==
  /\ \E kind \in {"exec", "shell"}, code \in {0, 1} :
       /\ kind = "shell" => code = 0
       /\ remote = [kind |-> kind, running |-> kind = "shell", code |-> code,
                    eof |-> FALSE, told |-> FALSE, early |-> FALSE]
  /\ link = "up"
  /\ thread = Idle
  /\ input = [s \in Streams |-> << >>]
  /\ sent = [s \in Streams |-> << >>]
  /\ last = Nothing
  /\ calls = 0

Called ==
  /\ thread.at = "test"
  /\ calls < MaxCalls
  /\ calls' = calls + 1

Consumed(s) == Len(sent[s]) - Len(input[s])
Unread      == Len(input["stdout"]) + Len(input["stderr"])

-----------------------------------------------------------------------------
(* The calls of ltf-ssh-channel.c.                                         *)

\* A call on thread.stream that asks for n bytes has something to return:
\* bytes, or nothing at the end of the stream.
Ready(s) == input[s] # << >> \/ remote.eof

Chunk(s, n) == SubSeq(input[s], 1, IF n < Len(input[s]) THEN n ELSE Len(input[s]))
Take(s, n)  == input' = [input EXCEPT ![s] = SubSeq(@, Len(Chunk(s, n)) + 1, Len(@))]

\* A blocking call is given up: the connection is lost, or nothing came for as
\* long as the session waits, which is longer than the deadline of a test.
GivenUp(ready) ==
  \/ link = "lost"
  \/ ~ready /\ (thread.at = "read_until" => thread.expired)

Ends(result) == last' = result /\ thread' = Idle

Fails(by) == Ends([Nothing EXCEPT !.by = by, !.stream = thread.stream, !.raised = TRUE])

-----------------------------------------------------------------------------
(* shell_channel.lua.                                                      *)

Start(at, s, n, given) ==
  /\ Called
  /\ thread' = [Idle EXCEPT !.at = at, !.stream = s, !.n = n, !.given = given,
                            !.from = Consumed(s)]
  /\ last' = Nothing
  /\ UNCHANGED <<remote, link, input, sent>>

StartRead(s, n) == remote.kind = "shell" /\ Start("read", s, n, TRUE)

\* An argument table without a pattern leaves it nil; without a table the
\* default one is used, which has a pattern.
StartReadUntil(s, n, given) == remote.kind = "shell" /\ Start("read_until", s, n, given)

Result(read, found) ==
  [Nothing EXCEPT !.by = thread.at, !.stream = thread.stream, !.from = thread.from,
                  !.read = read, !.found = found]

\* read.
FinishRead ==
  /\ thread.at = "read" /\ Ready(thread.stream)
  /\ Take(thread.stream, thread.n)
  /\ Ends(Result(Chunk(thread.stream, thread.n), FALSE))
  /\ UNCHANGED <<remote, link, sent, calls>>

\* The head of the loop of read_until.
CheckDeadline ==
  /\ thread.at = "read_until" /\ thread.step = "check"
  /\ IF thread.expired
     THEN Ends(Result(thread.buf, FALSE))
     ELSE thread' = [thread EXCEPT !.step = "read"] /\ UNCHANGED last
  /\ UNCHANGED <<remote, link, input, sent, calls>>

Matches(s) == \E i \in 0 .. Len(s) - Len(Pattern) :
                SubSeq(s, i + 1, i + Len(Pattern)) = Pattern

\* Mutant: an empty chunk is read again at once.
AgainAtOnce(chunk) == IF chunk = << >> THEN "read" ELSE "check"

\* Where the loop goes on after a chunk without the pattern.
Again(chunk) == "check"

\* What is searched: all that was read so far.
Searched(buf, chunk) == buf \o chunk

\* The rest of the loop; a search for nil is an error.
ReadChunk ==
  LET chunk == Chunk(thread.stream, thread.n)
      full  == thread.buf \o chunk
  IN /\ thread.at = "read_until" /\ thread.step = "read" /\ Ready(thread.stream)
     /\ Take(thread.stream, thread.n)
     /\ \/ chunk # << >> /\ ~thread.given /\ Fails("read_until")
        \/ /\ chunk # << >> /\ thread.given /\ Matches(Searched(thread.buf, chunk))
           /\ Ends(Result(full, TRUE))
        \/ /\ chunk = << >> \/ (thread.given /\ ~Matches(Searched(thread.buf, chunk)))
           /\ thread' = [thread EXCEPT !.step = Again(chunk), !.buf = full]
           /\ UNCHANGED last
     /\ UNCHANGED <<remote, link, sent, calls>>

\* The error of a read leaves read or read_until, and what was read is gone.
ReadGivenUp ==
  /\ thread.at = "read" \/ (thread.at = "read_until" /\ thread.step = "read")
  /\ GivenUp(Ready(thread.stream))
  /\ Fails(thread.at)
  /\ UNCHANGED <<remote, link, input, sent, calls>>

-----------------------------------------------------------------------------
(* exec_channel.lua.                                                       *)

\* low:exec; the server may refuse, and always refuses a second command.
StartExec(n) ==
  /\ Called
  /\ remote.kind = "exec"
  /\ \/ /\ ~remote.running /\ link = "up"
        /\ remote' = [remote EXCEPT !.running = TRUE]
        /\ thread' = [Idle EXCEPT !.at = "wait_eof", !.n = n]
        /\ last' = Nothing
     \/ Fails("exec") /\ UNCHANGED remote
  /\ UNCHANGED <<link, input, sent>>

\* low:wait_eof, which does not read and fails when the window is full.
WaitEof ==
  /\ thread.at = "wait_eof"
  /\ \/ remote.eof /\ thread' = [thread EXCEPT !.at = "stdout"] /\ UNCHANGED last
     \/ ~remote.eof /\ Unread = Window /\ Fails("exec")
     \/ GivenUp(remote.eof) /\ Fails("exec")
  /\ UNCHANGED <<remote, link, input, sent, calls>>

\* Mutant: a chunk that is not full ends the stream.
DrainedOnce(s, n) == Len(Chunk(s, n)) <= n

\* read_helper goes on until a read returns nothing.
Drained(s, n) == Chunk(s, n) = << >>

\* read_helper for stdout and then for stderr, and get_exit_status, which is 0
\* as long as the server has told none.
Drain ==
  /\ thread.at \in Streams
  /\ Take(thread.at, thread.n)
  /\ LET all == thread.buf \o Chunk(thread.at, thread.n) IN
     \/ /\ ~Drained(thread.at, thread.n)
        /\ thread' = [thread EXCEPT !.buf = all] /\ UNCHANGED last
     \/ /\ Drained(thread.at, thread.n) /\ thread.at = "stdout"
        /\ thread' = [thread EXCEPT !.at = "stderr", !.buf = << >>, !.out = all]
        /\ UNCHANGED last
     \/ /\ Drained(thread.at, thread.n) /\ thread.at = "stderr"
        /\ Ends([Nothing EXCEPT !.by = "exec", !.read = thread.out, !.err = all,
                                !.code = IF remote.told THEN remote.code ELSE 0,
                                !.told = remote.told])
  /\ UNCHANGED <<remote, link, sent, calls>>

DrainGivenUp ==
  /\ thread.at \in Streams /\ link = "lost"
  /\ Fails("exec")
  /\ UNCHANGED <<remote, link, input, sent, calls>>

-----------------------------------------------------------------------------
(* The server, the network and the clock.                                  *)

Arrives(s, byte) ==
  /\ link = "up" /\ remote.running /\ ~remote.eof
  /\ Len(sent["stdout"]) + Len(sent["stderr"]) < MaxSent /\ Unread < Window
  /\ sent' = [sent EXCEPT ![s] = Append(@, byte)]
  /\ input' = [input EXCEPT ![s] = Append(@, byte)]
  /\ UNCHANGED <<remote, link, thread, last, calls>>

\* The end of the streams and the exit code arrive in either order.
EofArrives ==
  /\ link = "up" /\ remote.running /\ ~remote.eof
  /\ remote' = [remote EXCEPT !.eof = TRUE, !.early = remote.told]
  /\ UNCHANGED <<link, thread, input, sent, last, calls>>

StatusArrives ==
  /\ link = "up" /\ remote.kind = "exec" /\ remote.running /\ ~remote.told
  /\ remote' = [remote EXCEPT !.told = TRUE]
  /\ UNCHANGED <<link, thread, input, sent, last, calls>>

LinkLost ==
  /\ link = "up"
  /\ link' = "lost"
  /\ UNCHANGED <<remote, thread, input, sent, last, calls>>

Expire ==
  /\ thread.at = "read_until" /\ ~thread.expired
  /\ thread' = [thread EXCEPT !.expired = TRUE]
  /\ UNCHANGED <<remote, link, input, sent, last, calls>>

Test ==
  \/ \E s \in Streams, n \in Chunks : StartRead(s, n)
  \/ \E s \in Streams, n \in Chunks, given \in BOOLEAN : StartReadUntil(s, n, given)
  \/ \E n \in Chunks : StartExec(n)

Working == FinishRead \/ CheckDeadline \/ ReadChunk \/ ReadGivenUp
             \/ WaitEof \/ Drain \/ DrainGivenUp

Server == (\E s \in Streams, byte \in Bytes : Arrives(s, byte))
            \/ EofArrives \/ StatusArrives \/ LinkLost

Next == Test \/ Working \/ Server \/ Expire

Spec == Init /\ [][Next]_vars

\* A call makes its steps, each of which libssh2 ends after 60 seconds, and
\* time passes.
Fairness == WF_vars(Working) /\ WF_vars(Expire)
FairSpec == Spec /\ Fairness

-----------------------------------------------------------------------------
\* Every variable stays in its type, and what waits is what was sent last.
TypeOK ==
  /\ remote \in [kind : {"exec", "shell"}, running : BOOLEAN, code : {0, 1},
                 eof : BOOLEAN, told : BOOLEAN, early : BOOLEAN]
  /\ link \in {"up", "lost"}
  /\ thread \in Thread /\ last \in Call
  /\ sent \in [Streams -> Seq(Bytes)] /\ input \in [Streams -> Seq(Bytes)]
  /\ \A s \in Streams : /\ Len(input[s]) <= Len(sent[s])
                        /\ input[s] = SubSeq(sent[s], Consumed(s) + 1, Len(sent[s]))
  /\ Unread <= Window
  /\ calls \in 0 .. MaxCalls

\* What read and read_until return is what arrived on that stream since the
\* call began, in order and with nothing missing, and found says whether the
\* pattern is in it, across chunks too.  An exec that returns has all of both
\* streams, and the exit code of the command whenever the server tells it before
\* it ends the streams, or by the time exec asks; otherwise it returns 0, the
\* code of a command that went well, although docs/LTF_LIBS/ltf.ssh.md:125
\* promises the exit code.
StreamsHonest ==
  ~last.raised =>
    /\ last.by \in {"read", "read_until"} =>
         last.read = SubSeq(sent[last.stream], last.from + 1, last.from + Len(last.read))
    /\ last.by = "read_until" => (last.found <=> Matches(last.read))
    /\ last.by = "exec" =>
         /\ last.read = sent["stdout"] /\ last.err = sent["stderr"]
         /\ last.code = IF last.told THEN remote.code ELSE 0
         /\ remote.early => last.told

\* Every call on a channel ends, with a result or an error, also when the
\* server is silent, has closed the stream or is gone.
CallsEnd == thread.at # "test" ~> thread.at = "test"

\* docs/LTF_LIBS/ltf.ssh.md on read_until: "`read` (`string`): everything read
\* (always returned)".  While the connection is up, read_until returns.
ReadAlwaysReturned == last.by = "read_until" /\ last.raised => link = "lost"

=============================================================================
