------------------------------- MODULE Serial -------------------------------
(***************************************************************************)
(* Serial ports: the handles of modules/serial/ltf-serial.c and read_until *)
(* of lib/ltf/serial.lua over one device.  libserialport and the operating *)
(* system are external: a port is open or not, received bytes wait in an   *)
(* input queue, written ones in an output queue the device empties when it *)
(* likes.  The test is one thread that a call may keep for a long time.    *)
(* Opening an open port again is libserialport's business, not modelled.   *)
(***************************************************************************)
EXTENDS Integers, Sequences

CONSTANTS
  Ports,     \* handles the test asks for, all of the same device
  Bytes,     \* values of a byte
  Pattern,   \* the pattern given to read_until
  Chunks,    \* chunk sizes of the reads
  OutSize,   \* size of the output queue
  MaxSent,   \* bound: bytes the device sends
  MaxWrite,  \* bound: bytes of one write
  MaxCalls   \* bound: calls of the test

ASSUME BytesAssumption   == Pattern \in Seq(Bytes)
ASSUME ChunksAssumption  == Chunks \subseteq Nat \ {0}
ASSUME OutSizeAssumption == OutSize \in Nat \ {0}
ASSUME BoundsAssumption  == MaxSent \in Nat /\ MaxWrite \in Nat /\ MaxCalls \in Nat

VARIABLES
  port,    \* u->port by handle: nothing asked, not open, its mode, freed (NULL)
  thread,  \* what the test is doing
  input,   \* received bytes nobody has read
  output,  \* number of written bytes the device has not taken
  sent,    \* history: what the device sent
  last,    \* history: the last result of a read
  calls
vars == <<port, thread, input, output, sent, last, calls>>

Mode   == {"r", "w", "rw"}
Thread == [at : {"test", "read_until", "read_blocking", "write", "drain"},
           port : Ports, step : {"check", "read"}, n : Nat, from : Nat,
           buf : Seq(Bytes), timed : BOOLEAN, expired : BOOLEAN]

Idle(h) == [at |-> "test", port |-> h, step |-> "check", n |-> 0, from |-> 0,
            buf |-> << >>, timed |-> FALSE, expired |-> FALSE]

Consumed == Len(sent) - Len(input)  \* bytes that left the input queue so far

Init ==
  /\ port = [h \in Ports |-> "none"]
  /\ \E h \in Ports : thread = Idle(h)
  /\ input = << >>
  /\ output = 0
  /\ sent = << >>
  /\ last = [by |-> "none", from |-> 0, to |-> 0, read |-> << >>, found |-> FALSE]
  /\ calls = 0

Called ==
  /\ thread.at = "test"
  /\ calls < MaxCalls
  /\ calls' = calls + 1

CanRead(h)  == port[h] \in {"r", "rw"}
CanWrite(h) == port[h] \in {"w", "rw"}
Holds(h)    == port[h] # "none"

-----------------------------------------------------------------------------
(* Handles.  A call that raises changes nothing.                           *)

GetPort(h) ==
  /\ Called
  /\ port[h] = "none"
  /\ port' = [port EXCEPT ![h] = "closed"]
  /\ UNCHANGED <<thread, input, output, sent, last>>

\* sp_open may fail and refuses the NULL of a freed port.
OpenPort(h, mode) ==
  /\ Called
  /\ port[h] \in {"closed", "freed"}
  /\ \/ port[h] = "closed" /\ port' = [port EXCEPT ![h] = mode]
     \/ UNCHANGED port
  /\ UNCHANGED <<thread, input, output, sent, last>>

\* sp_close fails for a port that is not open, and the port is then kept.
ClosePort(h) ==
  /\ Called
  /\ Holds(h)
  /\ port' = [port EXCEPT ![h] = IF port[h] \in Mode THEN "freed" ELSE port[h]]
  /\ UNCHANGED <<thread, input, output, sent, last>>

\* sp_flush discards what waits in the queues of an open port.
Flush(h, dir) ==
  /\ Called
  /\ port[h] \in Mode
  /\ input' = IF dir \in {"i", "io"} THEN << >> ELSE input
  /\ output' = IF dir \in {"o", "io"} THEN 0 ELSE output
  /\ UNCHANGED <<port, thread, sent, last>>

-----------------------------------------------------------------------------
(* Reading.                                                                *)

Taken(n) == IF n < Len(input) THEN n ELSE Len(input)

\* read: what is there, at most n bytes.
ReadPort(h, n) ==
  /\ Called
  /\ CanRead(h)
  /\ last' = [by |-> "read", from |-> Consumed, to |-> Consumed + Taken(n),
              read |-> SubSeq(input, 1, Taken(n)), found |-> FALSE]
  /\ input' = SubSeq(input, Taken(n) + 1, Len(input))
  /\ UNCHANGED <<port, thread, output, sent>>

Start(h, at, n, timed) ==
  /\ Called
  /\ Holds(h)
  /\ thread' = [at |-> at, port |-> h, step |-> "check", n |-> n, from |-> Consumed,
                buf |-> << >>, timed |-> timed, expired |-> FALSE]
  /\ UNCHANGED <<port, input, output, sent, last>>

StartReadUntil(h, chunk)        == Start(h, "read_until", chunk, TRUE)
StartReadBlocking(h, n, timed)  == CanRead(h) /\ Start(h, "read_blocking", n, timed)

Returns(read, found) ==
  /\ last' = [by |-> thread.at, from |-> thread.from, to |-> Len(sent) - Len(input'),
              read |-> read, found |-> found]
  /\ thread' = Idle(thread.port)

\* A call that raises leaves its result behind: there is none.
Raises == thread' = Idle(thread.port) /\ UNCHANGED last

Matches(s) == \E i \in 0 .. Len(s) - Len(Pattern) :
                SubSeq(s, i + 1, i + Len(Pattern)) = Pattern

\* The head of the loop of read_until.
CheckDeadline ==
  /\ thread.at = "read_until" /\ thread.step = "check"
  /\ IF thread.expired
     THEN UNCHANGED input /\ Returns(thread.buf, FALSE)
     ELSE thread' = [thread EXCEPT !.step = "read"] /\ UNCHANGED <<input, last>>
  /\ UNCHANGED <<port, output, sent, calls>>

\* Mutant: the pattern is looked for in the last chunk only.
ReadChunkAlone ==
  /\ thread.at = "read_until" /\ thread.step = "read" /\ CanRead(thread.port)
  /\ input' = SubSeq(input, Taken(thread.n) + 1, Len(input))
  /\ LET chunk == SubSeq(input, 1, Taken(thread.n))
         full  == thread.buf \o chunk
     IN IF chunk # << >> /\ Matches(chunk)
        THEN Returns(full, TRUE)
        ELSE thread' = [thread EXCEPT !.step = "check", !.buf = full] /\ UNCHANGED last
  /\ UNCHANGED <<port, output, sent, calls>>

\* The rest of the loop: a nonblocking read, then the search in all that was
\* read.
ReadChunk ==
  /\ thread.at = "read_until" /\ thread.step = "read" /\ CanRead(thread.port)
  /\ input' = SubSeq(input, Taken(thread.n) + 1, Len(input))
  /\ LET chunk == SubSeq(input, 1, Taken(thread.n))
         full  == thread.buf \o chunk
     IN IF chunk # << >> /\ Matches(full)
        THEN Returns(full, TRUE)
        ELSE thread' = [thread EXCEPT !.step = "check", !.buf = full] /\ UNCHANGED last
  /\ UNCHANGED <<port, output, sent, calls>>

\* The read of a port that is not open for reading raises out of read_until.
ReadChunkFails ==
  /\ thread.at = "read_until" /\ thread.step = "read" /\ ~CanRead(thread.port)
  /\ Raises
  /\ UNCHANGED <<port, input, output, sent, calls>>

\* sp_blocking_read returns with n bytes, or with fewer when its time is up.
FinishReadBlocking ==
  /\ thread.at = "read_blocking"
  /\ Len(input) >= thread.n \/ thread.expired
  /\ input' = SubSeq(input, Taken(thread.n) + 1, Len(input))
  /\ Returns(SubSeq(input, 1, Taken(thread.n)), FALSE)
  /\ UNCHANGED <<port, output, sent, calls>>

-----------------------------------------------------------------------------
(* Writing.  `write` is write_blocking, whose timeout is 0 (for ever)      *)
(* unless the test gives one.                                              *)

\* write_nonblocking: as much as there is room for.
WriteNonblocking(h, n) ==
  /\ Called
  /\ CanWrite(h)
  /\ output' = IF output + n < OutSize THEN output + n ELSE OutSize
  /\ UNCHANGED <<port, thread, input, sent, last>>

StartWrite(h, n, timed) == CanWrite(h) /\ Start(h, "write", n, timed)
StartDrain(h)           == port[h] \in Mode /\ Start(h, "drain", 0, FALSE)

WriteByte ==
  /\ thread.at = "write" /\ thread.n > 0 /\ ~thread.expired
  /\ output < OutSize
  /\ output' = output + 1
  /\ thread' = [thread EXCEPT !.n = @ - 1]
  /\ UNCHANGED <<port, input, sent, last, calls>>

FinishWrite ==
  /\ thread.at = "write" /\ (thread.n = 0 \/ thread.expired)
  /\ thread' = Idle(thread.port)
  /\ UNCHANGED <<port, input, output, sent, last, calls>>

FinishDrain ==
  /\ thread.at = "drain" /\ output = 0
  /\ thread' = Idle(thread.port)
  /\ UNCHANGED <<port, input, output, sent, last, calls>>

-----------------------------------------------------------------------------
(* The device and the clock.                                               *)

DeviceSends(byte) ==
  /\ Len(sent) < MaxSent
  /\ sent' = Append(sent, byte)
  /\ input' = Append(input, byte)
  /\ UNCHANGED <<port, thread, output, last, calls>>

DeviceTakes ==
  /\ output > 0
  /\ output' = output - 1
  /\ UNCHANGED <<port, thread, input, sent, last, calls>>

Expire ==
  /\ thread.timed /\ ~thread.expired
  /\ thread' = [thread EXCEPT !.expired = TRUE]
  /\ UNCHANGED <<port, input, output, sent, last, calls>>

Test ==
  \E h \in Ports :
    \/ GetPort(h) \/ ClosePort(h) \/ StartDrain(h)
    \/ \E mode \in Mode : OpenPort(h, mode)
    \/ \E dir \in {"i", "o", "io"} : Flush(h, dir)
    \/ \E n \in Chunks : ReadPort(h, n) \/ StartReadUntil(h, n)
    \/ \E n \in Chunks, timed \in BOOLEAN : StartReadBlocking(h, n, timed)
    \/ \E n \in 1 .. MaxWrite : WriteNonblocking(h, n)
    \/ \E n \in 1 .. MaxWrite, timed \in BOOLEAN : StartWrite(h, n, timed)

Working == CheckDeadline \/ ReadChunk \/ ReadChunkFails \/ FinishReadBlocking
             \/ WriteByte \/ FinishWrite \/ FinishDrain
Device  == DeviceTakes \/ \E byte \in Bytes : DeviceSends(byte)

Next == Test \/ Working \/ Device \/ Expire

Spec == Init /\ [][Next]_vars

-----------------------------------------------------------------------------
\* Every variable stays in its type and the queues within their sizes.
TypeOK ==
  /\ port \in [Ports -> {"none", "closed", "freed"} \cup Mode]
  /\ thread \in Thread
  /\ input \in Seq(Bytes) /\ sent \in Seq(Bytes) /\ Len(sent) <= MaxSent
  /\ Len(input) <= Len(sent) /\ input = SubSeq(sent, Consumed + 1, Len(sent))
  /\ output \in 0 .. OutSize
  /\ calls \in 0 .. MaxCalls

\* What a read returns is exactly what left the input queue during the call,
\* in order and with nothing missing, however it was cut into chunks; and
\* read_until says found exactly if the pattern is in it, also when the
\* pattern arrived in two chunks.
ReadsHonest ==
  /\ last.read = SubSeq(sent, last.from + 1, last.to)
  /\ last.by = "read_until" => (last.found <=> Matches(last.read))

=============================================================================
