---------------------------- MODULE StreamProofs ----------------------------
(***************************************************************************)
(* Proofs about Serial and Shell, for any bytes, pattern, chunk sizes,     *)
(* queue size, window and numbers of objects: what the reads of a device   *)
(* return, and what the calls on an SSH channel return.                    *)
(***************************************************************************)
EXTENDS MCDevices, SequenceTheorems, TLAPS

-----------------------------------------------------------------------------
(* Slices of what the device sent.                                         *)

\* The bytes after the begin a, up to the b-th.
Slice(s, a, b) == SubSeq(s, a + 1, b)

LEMMA SliceProperties ==
  ASSUME NEW S, NEW s \in Seq(S), NEW a \in Nat, NEW b \in Nat, a <= b, b <= Len(s)
  PROVE  /\ Slice(s, a, b) \in Seq(S)
         /\ Len(Slice(s, a, b)) = b - a
         /\ \A i \in 1 .. b - a : Slice(s, a, b)[i] = s[a + i]
<1>1. Len(s) \in Nat /\ \A i \in 1 .. Len(s) : s[i] \in S
  BY LenProperties, ElementOfSeq
<1>2. \A i \in a + 1 .. b : s[i] \in S
  BY <1>1
<1> DEFINE t == SubSeq(s, a + 1, b)
<1>3. /\ t \in Seq(S) /\ Len(t) = IF a + 1 <= b THEN b - (a + 1) + 1 ELSE 0
      /\ \A i \in 1 .. b - (a + 1) + 1 : t[i] = s[a + 1 + i - 1]
  <2>1. a + 1 \in Int /\ b \in Int
    OBVIOUS
  <2> QED BY <1>2, <2>1, SubSeqProperties
<1> HIDE DEF t
<1>4. Len(t) = b - a
  BY <1>3
<1>5. b - (a + 1) + 1 = b - a
  OBVIOUS
<1>6. ASSUME NEW i \in 1 .. b - a PROVE t[i] = s[a + i]
  <2>1. t[i] = s[a + 1 + i - 1] /\ a + 1 + i - 1 = a + i
    BY <1>3, <1>5
  <2> QED BY <2>1
<1> QED BY <1>3, <1>4, <1>6 DEF Slice, t

\* Two sequences with the same bytes are the same.
LEMMA SliceEqual ==
  ASSUME NEW S, NEW s \in Seq(S), NEW a \in Nat, NEW b \in Nat, a <= b, b <= Len(s),
         NEW t \in Seq(S), Len(t) = b - a, \A i \in 1 .. b - a : t[i] = s[a + i]
  PROVE  t = Slice(s, a, b)
<1>1. /\ Slice(s, a, b) \in Seq(S) /\ Len(Slice(s, a, b)) = b - a
      /\ \A i \in 1 .. b - a : Slice(s, a, b)[i] = s[a + i]
  BY SliceProperties
<1>2. Len(t) = Len(Slice(s, a, b)) /\ \A i \in 1 .. Len(t) : t[i] = Slice(s, a, b)[i]
  BY <1>1
<1> QED BY <1>1, <1>2, SeqEqual

\* More bytes do not change a slice.
LEMMA SliceOfAppend ==
  ASSUME NEW S, NEW s \in Seq(S), NEW a \in Nat, NEW b \in Nat, a <= b, b <= Len(s), NEW e \in S
  PROVE  Slice(Append(s, e), a, b) = Slice(s, a, b)
<1> DEFINE u == Append(s, e)
           t == Slice(s, a, b)
<1>1. /\ u \in Seq(S) /\ Len(u) = Len(s) + 1 /\ Len(s) \in Nat
      /\ \A i \in 1 .. Len(s) : u[i] = s[i]
  BY AppendProperties, LenProperties
<1>2. t \in Seq(S) /\ Len(t) = b - a /\ \A i \in 1 .. b - a : t[i] = s[a + i]
  BY SliceProperties
<1> HIDE DEF u, t
<1>3. ASSUME NEW i \in 1 .. b - a PROVE t[i] = u[a + i]
  <2>1. a + i \in 1 .. Len(s)
    BY <1>1
  <2> QED BY <1>1, <1>2, <2>1
<1>4. b <= Len(u)
  BY <1>1
<1>5. t = Slice(u, a, b)
  BY <1>1, <1>2, <1>3, <1>4, SliceEqual
<1> QED BY <1>5 DEF u, t

\* A byte at the end of a slice that goes to the end.
LEMMA SliceGrows ==
  ASSUME NEW S, NEW s \in Seq(S), NEW n \in Nat, n = Len(s), NEW a \in Nat, a <= n, NEW e \in S
  PROVE  Append(Slice(s, a, n), e) = Slice(Append(s, e), a, n + 1)
<1> DEFINE u == Append(s, e)
           r == Slice(s, a, n)
           t == Append(r, e)
           m == n + 1
<1>1. /\ u \in Seq(S) /\ Len(u) = m
      /\ \A i \in 1 .. n : u[i] = s[i]
      /\ u[m] = e
  BY AppendProperties
<1>2. r \in Seq(S) /\ Len(r) = n - a /\ \A i \in 1 .. n - a : r[i] = s[a + i]
  <2>1. \A b \in Nat : a <= b /\ b <= Len(s) =>
          /\ Slice(s, a, b) \in Seq(S)
          /\ Len(Slice(s, a, b)) = b - a
          /\ \A i \in 1 .. b - a : Slice(s, a, b)[i] = s[a + i]
    BY SliceProperties
  <2>2. n <= Len(s)
    OBVIOUS
  <2> QED BY <2>1, <2>2
<1> HIDE DEF u, r
<1>3. /\ t \in Seq(S) /\ Len(t) = n - a + 1
      /\ \A i \in 1 .. n - a : t[i] = r[i]
      /\ t[n - a + 1] = e
  BY <1>1, <1>2, AppendProperties
<1> HIDE DEF t
<1>4. ASSUME NEW i \in 1 .. m - a PROVE t[i] = u[a + i]
  <2>1. CASE i \in 1 .. n - a
    <3>1. a + i \in 1 .. n
      BY <2>1
    <3> QED BY <1>1, <1>2, <1>3, <2>1, <3>1
  <2>2. CASE i \notin 1 .. n - a
    <3>1. i = n - a + 1 /\ a + i = m
      BY <2>2
    <3> QED BY <1>1, <1>3, <3>1
  <2> QED BY <2>1, <2>2
<1>5. m \in Nat /\ a <= m /\ m <= Len(u) /\ Len(t) = m - a
  BY <1>1, <1>3
<1> HIDE DEF m
<1>6. t = Slice(u, a, m)
  BY <1>1, <1>3, <1>4, <1>5, SliceEqual
<1> QED BY <1>6 DEF t, r, u, m

\* A slice of a slice.
LEMMA SliceOfSlice ==
  ASSUME NEW S, NEW s \in Seq(S), NEW a \in Nat, NEW b \in Nat, a <= b, b <= Len(s),
         NEW c \in Nat, NEW d \in Nat, c <= d, d <= b - a
  PROVE  Slice(Slice(s, a, b), c, d) = Slice(s, a + c, a + d)
<1> DEFINE r == Slice(s, a, b)
           t == Slice(r, c, d)
           begin == a + c
           end == a + d
<1>1. r \in Seq(S) /\ Len(r) = b - a /\ \A i \in 1 .. b - a : r[i] = s[a + i]
  BY SliceProperties
<1> HIDE DEF r
<1>2. t \in Seq(S) /\ Len(t) = d - c /\ \A i \in 1 .. d - c : t[i] = r[c + i]
  <2>1. d <= Len(r) /\ r \in Seq(S)
    BY <1>1
  <2> QED BY <2>1, SliceProperties
<1> HIDE DEF t
<1>3. ASSUME NEW i \in 1 .. d - c PROVE t[i] = s[begin + i]
  <2>1. c + i \in 1 .. b - a /\ a + (c + i) = begin + i
    OBVIOUS
  <2>2. t[i] = r[c + i] /\ r[c + i] = s[a + (c + i)]
    BY <1>1, <1>2, <2>1
  <2> QED BY <2>1, <2>2
<1>4. /\ begin \in Nat /\ end \in Nat /\ begin <= end /\ end <= Len(s)
      /\ d - c = end - begin
  BY LenProperties
<1> HIDE DEF begin, end
<1>5. t = Slice(s, begin, end)
  <2>1. t \in Seq(S) /\ Len(t) = end - begin /\ \A i \in 1 .. end - begin : t[i] = s[begin + i]
    BY <1>2, <1>3, <1>4
  <2> QED BY <1>4, <2>1, SliceEqual
<1> QED BY <1>5 DEF t, r, begin, end

\* Adjacent slices make one.
LEMMA SlicesJoin ==
  ASSUME NEW S, NEW s \in Seq(S), NEW a \in Nat, NEW b \in Nat, NEW c \in Nat,
         a <= b, b <= c, c <= Len(s)
  PROVE  Slice(s, a, b) \o Slice(s, b, c) = Slice(s, a, c)
<1>1. a + 1 \in 1 .. Len(s) + 1 /\ b \in (a + 1) - 1 .. Len(s) /\ c \in b .. Len(s)
  BY LenProperties
<1> QED BY <1>1, ConcatAdjacentSubSeq DEF Slice

-----------------------------------------------------------------------------
(* What a read has taken so far.                                           *)

\* The result of a read is a slice of what was sent, and no byte of it is still
\* in the queue.
LastOK ==
  /\ last.from \in Nat /\ last.to \in Nat /\ last.from <= last.to /\ last.to <= Consumed
  /\ last.read = Slice(sent, last.from, last.to)
  /\ last.by = "read_until" => (last.found <=> Matches(last.read))

\* While a read goes on nobody else takes bytes, and read_until would have
\* returned had the pattern been in what it has.
ReaderOK(t) ==
  /\ t.at \in {"read_until", "read_blocking"} => t.from \in Nat /\ t.from <= Consumed
  /\ t.at = "read_until" => t.buf = Slice(sent, t.from, Consumed) /\ ~Matches(t.buf)
  /\ t.at = "read_blocking" => t.from = Consumed

ReadInv == LastOK /\ ReaderOK(thread)

SerialInv == TypeOK /\ ReadInv

LEMMA ConsumedProperties ==
  ASSUME TypeOK
  PROVE  /\ Len(sent) \in Nat /\ Len(input) \in Nat
         /\ Consumed \in Nat /\ Consumed <= Len(sent) /\ Len(sent) - Consumed = Len(input)
         /\ input = Slice(sent, Consumed, Len(sent))
<1>1. Len(sent) \in Nat /\ Len(input) \in Nat /\ Len(input) <= Len(sent)
  BY LenProperties DEF TypeOK
<1> QED BY <1>1 DEF TypeOK, Consumed, Slice

LEMMA EmptySlice ==
  ASSUME TypeOK, NEW a \in Nat
  PROVE  Slice(sent, a, a) = << >>
BY SubSeqEmpty DEF Slice

\* The first bytes of the queue follow what was consumed; without them the rest
\* stays.
LEMMA TakenProperties ==
  ASSUME TypeOK, NEW n \in Nat
  PROVE  /\ Taken(n) \in 0 .. Len(input)
         /\ SubSeq(input, 1, Taken(n)) = Slice(sent, Consumed, Consumed + Taken(n))
         /\ SubSeq(input, Taken(n) + 1, Len(input)) = Slice(sent, Consumed + Taken(n), Len(sent))
<1> DEFINE k == Taken(n)
           c == Consumed
           l == Len(sent)
<1>1. /\ l \in Nat /\ Len(input) \in Nat /\ c \in Nat /\ c <= l /\ l - c = Len(input)
      /\ input = Slice(sent, c, l) /\ sent \in Seq(Bytes)
  BY ConsumedProperties DEF TypeOK
<1>2. k \in 0 .. Len(input)
  BY <1>1 DEF Taken
<1> HIDE DEF k, c, l
<1>3. l <= Len(sent) /\ k \in Nat /\ 0 <= k /\ k <= l - c /\ c + k \in Nat
  BY <1>1, <1>2 DEF l
<1>4. Slice(input, 0, k) = Slice(sent, c, c + k)
  <2>1. Slice(Slice(sent, c, l), 0, k) = Slice(sent, c + 0, c + k)
    BY <1>1, <1>3, SliceOfSlice
  <2> QED BY <1>1, <2>1
<1>5. Slice(input, k, l - c) = Slice(sent, c + k, l)
  <2>1. l - c \in Nat /\ l - c <= l - c
    BY <1>1
  <2>2. Slice(Slice(sent, c, l), k, l - c) = Slice(sent, c + k, c + (l - c))
    BY <1>1, <1>3, <2>1, SliceOfSlice
  <2> QED BY <1>1, <2>2
<1>6. SubSeq(input, 1, k) = Slice(input, 0, k)
  BY DEF Slice
<1>7. SubSeq(input, k + 1, Len(input)) = Slice(input, k, l - c)
  BY <1>1 DEF Slice
<1> QED BY <1>2, <1>4, <1>5, <1>6, <1>7 DEF k, c, l

LEMMA SerialInit == Init => SerialInv
<1> SUFFICES ASSUME Init PROVE SerialInv
  OBVIOUS
<1>1. sent = << >> /\ input = << >> /\ << >> \in Seq(Bytes) /\ Len(<< >>) = 0
  BY EmptySeq DEF Init
<1>2. Consumed = 0
  BY <1>1 DEF Consumed
<1>3. PICK h \in Ports : thread = Idle(h)
  BY DEF Init
<1>4. thread \in Thread
  BY <1>1, <1>3 DEF Idle, Thread
<1>5. SubSeq(sent, 1, 0) = << >>
  BY <1>1, SubSeqEmpty
<1>6. TypeOK
  BY <1>1, <1>2, <1>4, <1>5, OutSizeAssumption, BoundsAssumption DEF Init, TypeOK
<1>7. LastOK
  BY <1>2, <1>5 DEF Init, LastOK, Slice
<1>8. ReaderOK(thread)
  BY <1>3 DEF ReaderOK, Idle
<1> QED BY <1>6, <1>7, <1>8 DEF SerialInv, ReadInv

-----------------------------------------------------------------------------
(* Steps that take no byte.                                                *)

\* The thread may change as long as what it read fits.
LEMMA QueuesKept ==
  ASSUME SerialInv, UNCHANGED <<input, sent, last>>, thread' \in Thread, ReaderOK(thread'),
         port' \in [Ports -> {"none", "closed", "freed"} \cup Mode],
         output' \in 0 .. OutSize, calls' \in 0 .. MaxCalls
  PROVE  SerialInv'
<1>1. Consumed' = Consumed
  BY DEF Consumed
<1>2. TypeOK'
  BY <1>1 DEF SerialInv, TypeOK
<1>3. ReadInv'
  BY <1>1 DEF SerialInv, ReadInv, LastOK, ReaderOK, Matches, Slice
<1> QED BY <1>2, <1>3 DEF SerialInv

\* What a call of the test may count on.
LEMMA CalledProperties ==
  ASSUME SerialInv, Called
  PROVE  /\ calls' \in 0 .. MaxCalls /\ thread \in Thread /\ thread.at = "test"
         /\ port \in [Ports -> {"none", "closed", "freed"} \cup Mode] /\ output \in 0 .. OutSize
         /\ ReaderOK(thread)
BY BoundsAssumption DEF SerialInv, ReadInv, TypeOK, Called

LEMMA HandleKeepsInv ==
  ASSUME SerialInv, NEW h \in Ports,
         \/ GetPort(h) \/ ClosePort(h)
         \/ \E mode \in Mode : OpenPort(h, mode)
  PROVE  SerialInv'
<1>1. Called /\ UNCHANGED <<thread, input, output, sent, last>>
  BY DEF GetPort, ClosePort, OpenPort
<1>2. port' \in [Ports -> {"none", "closed", "freed"} \cup Mode]
  BY <1>1, CalledProperties DEF GetPort, ClosePort, OpenPort
<1> QED BY <1>1, <1>2, CalledProperties, QueuesKept

LEMMA StartKeepsInv ==
  ASSUME SerialInv, NEW h \in Ports,
         NEW at \in {"read_until", "read_blocking", "write", "drain"}, NEW n \in Nat,
         NEW timed \in BOOLEAN, Start(h, at, n, timed), Pattern # << >>
  PROVE  SerialInv'
<1>1. /\ Called /\ UNCHANGED <<port, input, output, sent, last>>
      /\ thread' = [at |-> at, port |-> h, step |-> "check", n |-> n, from |-> Consumed,
                    buf |-> << >>, timed |-> timed, expired |-> FALSE]
  BY DEF Start
<1>2. TypeOK /\ Consumed \in Nat /\ << >> \in Seq(Bytes) /\ Slice(sent, Consumed, Consumed) = << >>
  BY ConsumedProperties, EmptySlice, EmptySeq DEF SerialInv
<1>3. thread' \in Thread
  BY <1>1, <1>2 DEF Thread
<1>4. ~Matches(<< >>)
  <2>1. Len(Pattern) \in Nat /\ Len(Pattern) > 0 /\ Len(<< >>) = 0
    BY BytesAssumption, EmptySeq
  <2> QED BY <2>1 DEF Matches
<1>5. ReaderOK(thread')
  BY <1>1, <1>2, <1>4 DEF ReaderOK
<1> QED BY <1>1, <1>3, <1>5, CalledProperties, QueuesKept

LEMMA WriteKeepsInv ==
  ASSUME SerialInv,
         \/ \E h \in Ports, n \in 1 .. MaxWrite : WriteNonblocking(h, n)
         \/ WriteByte \/ FinishWrite \/ FinishDrain
         \/ DeviceTakes
  PROVE  SerialInv'
<1>0. /\ thread \in Thread /\ output \in 0 .. OutSize /\ calls \in 0 .. MaxCalls
      /\ port \in [Ports -> {"none", "closed", "freed"} \cup Mode] /\ ReaderOK(thread)
      /\ OutSize \in Nat
  BY OutSizeAssumption DEF SerialInv, ReadInv, TypeOK
<1>1. CASE \E h \in Ports, n \in 1 .. MaxWrite : WriteNonblocking(h, n)
  <2>1. PICK h \in Ports, n \in 1 .. MaxWrite : WriteNonblocking(h, n)
    BY <1>1
  <2>2. Called /\ UNCHANGED <<port, thread, input, sent, last>> /\ output' \in 0 .. OutSize
    BY <1>0, <2>1, BoundsAssumption DEF WriteNonblocking
  <2> QED BY <1>0, <2>2, CalledProperties, QueuesKept
<1>2. CASE WriteByte
  <2>1. /\ UNCHANGED <<port, input, sent, last, calls>> /\ output' \in 0 .. OutSize
        /\ thread.at = "write" /\ thread' = [thread EXCEPT !.n = @ - 1] /\ thread.n > 0
    BY <1>0, <1>2 DEF WriteByte
  <2>2. thread' \in Thread /\ thread'.at = "write"
    BY <1>0, <2>1, SMTT(20) DEF Thread
  <2>3. ReaderOK(thread')
    BY <2>2 DEF ReaderOK
  <2> QED BY <1>0, <2>1, <2>2, <2>3, QueuesKept
<1>3. CASE FinishWrite \/ FinishDrain
  <2>1. thread' = Idle(thread.port) /\ UNCHANGED <<port, input, output, sent, last, calls>>
    BY <1>3 DEF FinishWrite, FinishDrain
  <2>2. thread' \in Thread /\ thread'.at = "test"
    BY <1>0, <2>1, EmptySeq DEF Thread, Idle
  <2>3. ReaderOK(thread')
    BY <2>2 DEF ReaderOK
  <2> QED BY <1>0, <2>1, <2>2, <2>3, QueuesKept
<1>4. CASE DeviceTakes
  BY <1>0, <1>4, QueuesKept DEF DeviceTakes
<1> QED BY <1>1, <1>2, <1>3, <1>4

LEMMA WaitKeepsInv ==
  ASSUME SerialInv, ReadChunkFails \/ Expire
  PROVE  SerialInv'
<1>0. /\ thread \in Thread /\ output \in 0 .. OutSize /\ calls \in 0 .. MaxCalls
      /\ port \in [Ports -> {"none", "closed", "freed"} \cup Mode] /\ ReaderOK(thread)
  BY DEF SerialInv, ReadInv, TypeOK
<1>1. CASE ReadChunkFails
  <2>1. thread' = Idle(thread.port) /\ UNCHANGED <<port, input, output, sent, last, calls>>
    BY <1>1 DEF ReadChunkFails, Raises
  <2>2. thread' \in Thread /\ thread'.at = "test"
    BY <1>0, <2>1, EmptySeq DEF Thread, Idle
  <2>3. ReaderOK(thread')
    BY <2>2 DEF ReaderOK
  <2> QED BY <1>0, <2>1, <2>2, <2>3, QueuesKept
<1>2. CASE Expire
  <2>1. /\ thread' = [thread EXCEPT !.expired = TRUE]
        /\ UNCHANGED <<port, input, output, sent, last, calls>>
    BY <1>2 DEF Expire
  <2>2. /\ thread' \in Thread /\ thread'.at = thread.at /\ thread'.from = thread.from
        /\ thread'.buf = thread.buf
    BY <1>0, <2>1 DEF Thread
  <2>3. ReaderOK(thread')
    BY <1>0, <2>2 DEF ReaderOK
  <2> QED BY <1>0, <2>1, <2>2, <2>3, QueuesKept
<1> QED BY <1>1, <1>2

-----------------------------------------------------------------------------
(* Steps that take bytes or bring them.                                    *)

\* A step that takes the first bytes of the queue, or none.
LEMMA QueueTaken ==
  ASSUME SerialInv, NEW k \in 0 .. Len(input), input' = Slice(sent, Consumed + k, Len(sent)),
         UNCHANGED sent
  PROVE  /\ Consumed' = Consumed + k /\ Consumed' \in Nat /\ Consumed' <= Len(sent)
         /\ input' \in Seq(Bytes) /\ Len(input') <= Len(sent')
         /\ input' = SubSeq(sent', Consumed' + 1, Len(sent'))
<1>1. /\ Len(sent) \in Nat /\ Len(input) \in Nat /\ Consumed \in Nat /\ sent \in Seq(Bytes)
      /\ Len(sent) - Consumed = Len(input)
  BY ConsumedProperties DEF SerialInv, TypeOK
<1>2. Consumed + k \in Nat /\ Consumed + k <= Len(sent) /\ Len(sent) <= Len(sent)
  BY <1>1
<1>3. input' \in Seq(Bytes) /\ Len(input') = Len(sent) - (Consumed + k)
  BY <1>1, <1>2, SliceProperties, ZenonT(40)
<1>4. Consumed' = Consumed + k
  BY <1>1, <1>2, <1>3 DEF Consumed
<1> QED BY <1>1, <1>2, <1>3, <1>4 DEF Slice

\* Bytes that leave the queue do not disturb the last result.
LEMMA LastKept ==
  ASSUME LastOK, Consumed \in Nat, Consumed' \in Nat, Consumed <= Consumed',
         UNCHANGED <<sent, last>>
  PROVE  LastOK'
<1>1. last.to <= Consumed'
  BY DEF LastOK
<1> QED BY <1>1 DEF LastOK, Slice, Matches

LEMMA FlushKeepsInv ==
  ASSUME SerialInv, NEW h \in Ports, NEW dir \in {"i", "o", "io"}, Flush(h, dir)
  PROVE  SerialInv'
<1>1. /\ Called /\ UNCHANGED <<port, thread, sent, last>>
      /\ input' = IF dir \in {"i", "io"} THEN << >> ELSE input
      /\ output' = IF dir \in {"o", "io"} THEN 0 ELSE output
  BY DEF Flush
<1>2. /\ thread' \in Thread /\ thread'.at = "test" /\ calls' \in 0 .. MaxCalls
      /\ port' \in [Ports -> {"none", "closed", "freed"} \cup Mode]
  BY <1>1, CalledProperties
<1>3. output' \in 0 .. OutSize
  BY <1>1, CalledProperties, OutSizeAssumption
<1>4. /\ Len(sent) \in Nat /\ Len(input) \in Nat /\ Consumed \in Nat /\ sent \in Seq(Bytes)
      /\ Len(sent) - Consumed = Len(input) /\ input = Slice(sent, Consumed, Len(sent))
      /\ Len(sent) <= MaxSent
  BY ConsumedProperties DEF SerialInv, TypeOK
<1>5. PICK k \in 0 .. Len(input) : input' = Slice(sent, Consumed + k, Len(sent))
  <2>1. CASE dir \in {"i", "io"}
    <3>1. Consumed + Len(input) = Len(sent)
      BY <1>4
    <3>2. Slice(sent, Len(sent), Len(sent)) = << >>
      BY <1>4, EmptySlice DEF SerialInv
    <3>3. Len(input) \in 0 .. Len(input)
      BY <1>4
    <3> QED BY <1>1, <2>1, <3>1, <3>2, <3>3
  <2>2. CASE dir \notin {"i", "io"}
    <3>1. Consumed + 0 = Consumed /\ 0 \in 0 .. Len(input)
      BY <1>4
    <3> QED BY <1>1, <1>4, <2>2, <3>1
  <2> QED BY <2>1, <2>2
<1>6. /\ Consumed' = Consumed + k /\ Consumed' \in Nat
      /\ input' \in Seq(Bytes) /\ Len(input') <= Len(sent')
      /\ input' = SubSeq(sent', Consumed' + 1, Len(sent'))
  BY <1>1, <1>5, QueueTaken
<1>7. TypeOK'
  BY <1>1, <1>2, <1>3, <1>4, <1>6 DEF TypeOK
<1>8. LastOK'
  BY <1>1, <1>4, <1>6, LastKept DEF SerialInv, ReadInv
<1>9. ReaderOK(thread)'
  BY <1>2 DEF ReaderOK
<1> QED BY <1>7, <1>8, <1>9 DEF SerialInv, ReadInv

\* A read that takes the first k bytes of the queue.
LEMMA ReadKeepsInv ==
  ASSUME SerialInv, NEW n \in Nat, input' = SubSeq(input, Taken(n) + 1, Len(input)),
         UNCHANGED <<port, output, sent>>, thread' \in Thread, calls' \in 0 .. MaxCalls,
         Consumed' = Consumed + Taken(n) => LastOK' /\ ReaderOK(thread)'
  PROVE  SerialInv'
<1>1. /\ Taken(n) \in 0 .. Len(input)
      /\ input' = Slice(sent, Consumed + Taken(n), Len(sent))
  BY TakenProperties DEF SerialInv
<1>2. /\ Consumed' = Consumed + Taken(n)
      /\ input' \in Seq(Bytes) /\ Len(input') <= Len(sent')
      /\ input' = SubSeq(sent', Consumed' + 1, Len(sent'))
  BY <1>1, QueueTaken
<1>3. TypeOK'
  BY <1>2 DEF SerialInv, TypeOK
<1> QED BY <1>2, <1>3 DEF SerialInv, ReadInv

LEMMA ChunksAreNumbers == \A n \in Chunks : n \in Nat
BY ChunksAssumption

LEMMA ReadPortKeepsInv ==
  ASSUME SerialInv, NEW h \in Ports, NEW n \in Chunks, ReadPort(h, n)
  PROVE  SerialInv'
<1> DEFINE k == Taken(n)
<1>1. /\ Called /\ UNCHANGED <<port, thread, output, sent>>
      /\ last' = [by |-> "read", from |-> Consumed, to |-> Consumed + k,
                  read |-> SubSeq(input, 1, k), found |-> FALSE]
      /\ input' = SubSeq(input, k + 1, Len(input))
  BY DEF ReadPort
<1>2. /\ Len(input) \in Nat /\ Consumed \in Nat /\ k \in 0 .. Len(input)
      /\ SubSeq(input, 1, k) = Slice(sent, Consumed, Consumed + k)
  BY ConsumedProperties, TakenProperties, ChunksAreNumbers DEF SerialInv
<1>3. thread' \in Thread /\ thread'.at = "test" /\ calls' \in 0 .. MaxCalls
  BY <1>1, CalledProperties
<1>4. ReaderOK(thread)'
  BY <1>3 DEF ReaderOK
<1>5. ASSUME Consumed' = Consumed + k PROVE LastOK'
  <2> HIDE DEF k
  <2>1. /\ last'.by = "read" /\ last'.from = Consumed /\ last'.to = Consumed + k
        /\ last'.read = Slice(sent, Consumed, Consumed + k)
    BY <1>1, <1>2
  <2> QED BY <1>1, <1>2, <1>5, <2>1 DEF LastOK, Slice
<1> QED BY <1>1, <1>3, <1>4, <1>5, ReadKeepsInv, ChunksAreNumbers

\* A call that takes bytes and returns what it read from where it began.
LEMMA ReturnedOK ==
  ASSUME SerialInv, NEW read, NEW hit \in BOOLEAN, Returns(read, hit),
         thread.from \in Nat, thread.from <= Consumed',
         Consumed' \in Nat, UNCHANGED sent,
         read = Slice(sent, thread.from, Consumed'),
         thread.at = "read_until" => (hit <=> Matches(read))
  PROVE  LastOK' /\ thread' \in Thread /\ ReaderOK(thread)'
<1>1. /\ last' = [by |-> thread.at, from |-> thread.from, to |-> Len(sent) - Len(input'),
                  read |-> read, found |-> hit]
      /\ thread' = Idle(thread.port)
  BY DEF Returns
<1>2. thread' \in Thread /\ thread'.at = "test"
  BY <1>1, EmptySeq DEF SerialInv, TypeOK, Thread, Idle
<1>3. ReaderOK(thread)'
  BY <1>2 DEF ReaderOK
<1>4. Len(sent) - Len(input') = Consumed'
  BY DEF Consumed
<1>5. /\ last'.by = thread.at /\ last'.from = thread.from /\ last'.to = Consumed'
      /\ last'.read = read /\ last'.found = hit
  BY <1>1, <1>4
<1>6. last'.by = "read_until" => (last'.found <=> Matches(last'.read))
  BY <1>5
<1>7. LastOK'
  <2>1. /\ last'.from \in Nat /\ last'.to \in Nat /\ last'.from <= last'.to
        /\ last'.to <= Consumed'
    BY <1>5
  <2>2. last'.read = SubSeq(sent', last'.from + 1, last'.to)
    BY <1>5 DEF Slice
  <2> QED BY <1>6, <2>1, <2>2 DEF LastOK, Slice, Matches
<1> QED BY <1>2, <1>3, <1>7

LEMMA DeadlineKeepsInv ==
  ASSUME SerialInv, CheckDeadline
  PROVE  SerialInv'
<1>1. /\ thread.at = "read_until" /\ UNCHANGED <<port, input, output, sent, calls>>
      /\ thread \in Thread /\ ReaderOK(thread) /\ LastOK /\ TypeOK
      /\ Consumed \in Nat
  BY ConsumedProperties DEF CheckDeadline, SerialInv, ReadInv, TypeOK
<1>2. Consumed' = Consumed
  BY <1>1 DEF Consumed
<1>3. CASE thread.expired
  <2>1. Returns(thread.buf, FALSE)
    BY <1>3 DEF CheckDeadline
  <2>2. /\ thread.from \in Nat /\ thread.from <= Consumed' /\ Consumed' \in Nat
        /\ thread.buf = Slice(sent, thread.from, Consumed') /\ ~Matches(thread.buf)
    BY <1>1, <1>2 DEF ReaderOK
  <2>3. LastOK' /\ thread' \in Thread /\ ReaderOK(thread)'
    BY <1>1, <2>1, <2>2, ReturnedOK
  <2>4. TypeOK'
    BY <1>1, <1>2, <2>3 DEF TypeOK
  <2> QED BY <2>3, <2>4 DEF SerialInv, ReadInv
<1>4. CASE ~thread.expired
  <2>1. thread' = [thread EXCEPT !.step = "read"] /\ UNCHANGED last
    BY <1>4 DEF CheckDeadline
  <2>2. /\ thread' \in Thread /\ thread'.at = thread.at /\ thread'.from = thread.from
        /\ thread'.buf = thread.buf
    BY <1>1, <2>1 DEF Thread
  <2>3. ReaderOK(thread')
    BY <1>1, <2>2 DEF ReaderOK
  <2>4. /\ output' \in 0 .. OutSize /\ calls' \in 0 .. MaxCalls
        /\ port' \in [Ports -> {"none", "closed", "freed"} \cup Mode]
    BY <1>1 DEF TypeOK
  <2> QED BY <1>1, <2>1, <2>2, <2>3, <2>4, QueuesKept
<1> QED BY <1>3, <1>4

\* What read_until read before a chunk and the chunk are adjacent slices.
LEMMA ReadChunkKeepsInv ==
  ASSUME SerialInv, ReadChunk
  PROVE  SerialInv'
<1> DEFINE k == Taken(thread.n)
           chunk == SubSeq(input, 1, k)
           full == thread.buf \o chunk
<1>1. /\ thread.at = "read_until" /\ UNCHANGED <<port, output, sent, calls>>
      /\ input' = SubSeq(input, Taken(thread.n) + 1, Len(input))
  BY DEF ReadChunk
<1>2. /\ thread \in Thread /\ thread.n \in Nat /\ ReaderOK(thread) /\ LastOK /\ sent \in Seq(Bytes)
      /\ calls \in 0 .. MaxCalls /\ TypeOK
  BY DEF SerialInv, ReadInv, TypeOK, Thread
<1>3. /\ Len(input) \in Nat /\ Consumed \in Nat /\ k \in 0 .. Len(input)
      /\ Len(sent) \in Nat /\ Len(sent) - Consumed = Len(input)
      /\ chunk = Slice(sent, Consumed, Consumed + k)
  BY <1>2, ConsumedProperties, TakenProperties
<1>4. /\ thread.from \in Nat /\ thread.from <= Consumed
      /\ thread.buf = Slice(sent, thread.from, Consumed) /\ ~Matches(thread.buf)
  BY <1>1, <1>2 DEF ReaderOK
<1>5. IF chunk # << >> /\ Matches(full)
      THEN Returns(full, TRUE)
      ELSE thread' = [thread EXCEPT !.step = "check", !.buf = full] /\ UNCHANGED last
  BY DEF ReadChunk
<1> HIDE DEF k, chunk
<1>6. full = Slice(sent, thread.from, Consumed + k)
  <2> DEFINE a == thread.from
             b == Consumed
             m == Consumed + k
  <2>1. /\ a \in Nat /\ b \in Nat /\ m \in Nat
        /\ a <= b /\ b <= m /\ m <= Len(sent)
    BY <1>3, <1>4
  <2>2. thread.buf = Slice(sent, a, b) /\ chunk = Slice(sent, b, m)
    BY <1>3, <1>4
  <2>3. full = Slice(sent, a, b) \o Slice(sent, b, m)
    BY <2>2
  <2>4. sent \in Seq(Bytes)
    BY <1>2
  <2> HIDE DEF a, b, m
  <2>5. Slice(sent, a, b) \o Slice(sent, b, m) = Slice(sent, a, m)
    BY <2>1, <2>4, SlicesJoin
  <2>6. full = Slice(sent, a, m)
    BY <2>3, <2>5
  <2> QED BY <2>6 DEF a, m
<1>7. chunk = << >> => full = thread.buf
  <2>1. thread.buf \in Seq(Bytes)
    BY <1>2 DEF Thread
  <2> QED BY <2>1, ConcatEmptySeq
<1>8. full \in Seq(Bytes)
  <2> DEFINE a == thread.from
             m == Consumed + k
  <2>1. a \in Nat /\ m \in Nat /\ a <= m /\ m <= Len(sent)
    BY <1>3, <1>4
  <2>2. sent \in Seq(Bytes) /\ full = Slice(sent, a, m)
    BY <1>2, <1>6
  <2> HIDE DEF a, m, full
  <2>3. Slice(sent, a, m) \in Seq(Bytes)
    BY <2>1, <2>2, SliceProperties
  <2> QED BY <2>2, <2>3
<1> HIDE DEF full
<1>9. ASSUME Consumed' = Consumed + k PROVE LastOK' /\ ReaderOK(thread)' /\ thread' \in Thread
  <2>1. Consumed' \in Nat /\ thread.from <= Consumed' /\ Consumed <= Consumed'
    BY <1>3, <1>4, <1>9
  <2>2. CASE chunk # << >> /\ Matches(full)
    <3>1. Returns(full, TRUE) /\ full = Slice(sent, thread.from, Consumed')
      BY <1>5, <1>6, <1>9, <2>2
    <3> QED BY <1>1, <1>4, <2>1, <2>2, <3>1, ReturnedOK
  <2>3. CASE ~(chunk # << >> /\ Matches(full))
    <3>1. /\ thread' = [thread EXCEPT !.step = "check", !.buf = full] /\ UNCHANGED last
          /\ ~Matches(full)
      BY <1>4, <1>5, <1>7, <2>3
    <3>2. /\ thread' \in Thread /\ thread'.at = "read_until" /\ thread'.from = thread.from
          /\ thread'.buf = full
      BY <1>1, <1>2, <1>8, <3>1 DEF Thread
    <3>3. LastOK'
      BY <1>1, <1>2, <1>3, <2>1, <3>1, LastKept
    <3>4. ReaderOK(thread)'
      <4>1. full = SubSeq(sent', thread'.from + 1, Consumed')
        BY <1>1, <1>6, <1>9, <3>2 DEF Slice
      <4> QED BY <1>4, <2>1, <3>1, <3>2, <4>1 DEF ReaderOK, Slice, Matches
    <3> QED BY <3>2, <3>3, <3>4
  <2> QED BY <2>2, <2>3
<1>10. Consumed' = Consumed + k
  <2>1. input' = Slice(sent, Consumed + k, Len(sent))
    BY <1>1, <1>2, TakenProperties DEF k
  <2> QED BY <1>1, <1>3, <2>1, QueueTaken
<1> QED BY <1>1, <1>2, <1>9, <1>10, ReadKeepsInv

\* Nobody takes bytes during a blocking read, which returns the first of what is
\* there when it ends.
LEMMA FinishReadKeepsInv ==
  ASSUME SerialInv, FinishReadBlocking
  PROVE  SerialInv'
<1> DEFINE k == Taken(thread.n)
           read == SubSeq(input, 1, k)
<1>1. /\ thread.at = "read_blocking" /\ UNCHANGED <<port, output, sent, calls>>
      /\ input' = SubSeq(input, k + 1, Len(input)) /\ Returns(read, FALSE)
  BY DEF FinishReadBlocking
<1>2. /\ thread.n \in Nat /\ thread.from = Consumed /\ calls \in 0 .. MaxCalls /\ TypeOK
  BY <1>1 DEF SerialInv, ReadInv, ReaderOK, TypeOK, Thread
<1>3. /\ Len(input) \in Nat /\ Consumed \in Nat /\ k \in 0 .. Len(input)
      /\ read = Slice(sent, Consumed, Consumed + k)
      /\ input' = Slice(sent, Consumed + k, Len(sent))
  BY <1>1, <1>2, ConsumedProperties, TakenProperties
<1> HIDE DEF k, read
<1>4. Consumed' = Consumed + k /\ Consumed' \in Nat
  BY <1>1, <1>3, QueueTaken
<1>5. thread.from \in Nat /\ thread.from <= Consumed'
  BY <1>2, <1>3, <1>4
<1>6. LastOK' /\ thread' \in Thread /\ ReaderOK(thread)'
  BY <1>1, <1>2, <1>3, <1>4, <1>5, ReturnedOK
<1> QED BY <1>1, <1>2, <1>6, ReadKeepsInv DEF k

\* A byte that arrives goes to the end of the queue and of what was sent.
LEMMA SendKeepsInv ==
  ASSUME SerialInv, NEW byte \in Bytes, DeviceSends(byte)
  PROVE  SerialInv'
<1> DEFINE c == Consumed
           n == Len(sent)
<1>1. /\ Len(sent) < MaxSent /\ sent' = Append(sent, byte) /\ input' = Append(input, byte)
      /\ UNCHANGED <<port, thread, output, last, calls>>
  BY DEF DeviceSends
<1>2. /\ Len(sent) \in Nat /\ Len(input) \in Nat /\ c \in Nat /\ c <= n /\ n - c = Len(input)
      /\ input = Slice(sent, c, n) /\ sent \in Seq(Bytes) /\ input \in Seq(Bytes)
      /\ TypeOK /\ LastOK /\ ReaderOK(thread)
  BY ConsumedProperties DEF SerialInv, ReadInv, TypeOK
<1>3. /\ sent' \in Seq(Bytes) /\ Len(sent') = n + 1
      /\ input' \in Seq(Bytes) /\ Len(input') = Len(input) + 1
  BY <1>1, <1>2, AppendProperties
<1>4. Consumed' = c
  BY <1>2, <1>3 DEF Consumed
<1>5. input' = Slice(sent', c, n + 1)
  BY <1>1, <1>2, SliceGrows
<1>6. TypeOK'
  <2>1. Len(sent') <= MaxSent /\ Len(input') <= Len(sent')
    BY <1>1, <1>2, <1>3, BoundsAssumption
  <2>2. input' = SubSeq(sent', Consumed' + 1, Len(sent'))
    BY <1>3, <1>4, <1>5 DEF Slice
  <2> QED BY <1>1, <1>2, <1>3, <2>1, <2>2 DEF TypeOK
<1>7. ASSUME NEW a \in Nat, NEW b \in Nat, a <= b, b <= c
      PROVE  SubSeq(sent', a + 1, b) = Slice(sent, a, b)
  <2>1. b <= Len(sent)
    BY <1>2, <1>7
  <2> QED BY <1>1, <1>2, <1>7, <2>1, SliceOfAppend DEF Slice
<1> HIDE DEF c, n
<1>8. LastOK'
  <2>1. /\ last.from \in Nat /\ last.to \in Nat /\ last.from <= last.to /\ last.to <= c
        /\ last.read = Slice(sent, last.from, last.to)
        /\ last.by = "read_until" => (last.found <=> Matches(last.read))
    BY <1>2 DEF LastOK, c
  <2>2. last.read = SubSeq(sent', last.from + 1, last.to)
    BY <1>7, <2>1
  <2> QED BY <1>1, <1>4, <2>1, <2>2 DEF LastOK, Slice, Matches
<1>9. ReaderOK(thread)'
  <2>1. CASE thread.at = "read_until"
    <3>1. /\ thread.from \in Nat /\ thread.from <= c /\ c \in Nat /\ c <= c
          /\ thread.buf = Slice(sent, thread.from, c) /\ ~Matches(thread.buf)
      BY <1>2, <2>1 DEF ReaderOK, c
    <3>2. thread.buf = SubSeq(sent', thread.from + 1, c)
      BY <1>7, <3>1
    <3> QED BY <1>1, <1>4, <2>1, <3>1, <3>2 DEF ReaderOK, Slice, Matches
  <2>2. CASE thread.at # "read_until"
    BY <1>1, <1>2, <1>4, <2>2 DEF ReaderOK, c
  <2> QED BY <2>1, <2>2
<1> QED BY <1>6, <1>8, <1>9 DEF SerialInv, ReadInv

-----------------------------------------------------------------------------
LEMMA SerialStep ==
  ASSUME Pattern # << >>, SerialInv, [Next]_vars
  PROVE  SerialInv'
<1>1. CASE UNCHANGED vars
  BY <1>1, QueuesKept DEF vars, SerialInv, ReadInv, TypeOK
<1>2. CASE Test
  <2>1. PICK h \in Ports :
          \/ GetPort(h) \/ ClosePort(h) \/ StartDrain(h)
          \/ \E mode \in Mode : OpenPort(h, mode)
          \/ \E dir \in {"i", "o", "io"} : Flush(h, dir)
          \/ \E n \in Chunks : ReadPort(h, n) \/ StartReadUntil(h, n)
          \/ \E n \in Chunks, timed \in BOOLEAN : StartReadBlocking(h, n, timed)
          \/ \E n \in 1 .. MaxWrite : WriteNonblocking(h, n)
          \/ \E n \in 1 .. MaxWrite, timed \in BOOLEAN : StartWrite(h, n, timed)
    BY <1>2 DEF Test
  <2>2. \A n \in 1 .. MaxWrite : n \in Nat
    BY BoundsAssumption
  <2>3. ASSUME StartDrain(h) PROVE SerialInv'
    BY <2>3, StartKeepsInv DEF StartDrain
  <2>4. ASSUME NEW n \in Chunks, StartReadUntil(h, n) PROVE SerialInv'
    BY <2>4, StartKeepsInv, ChunksAreNumbers DEF StartReadUntil
  <2>5. ASSUME NEW n \in Chunks, NEW timed \in BOOLEAN, StartReadBlocking(h, n, timed)
        PROVE  SerialInv'
    BY <2>5, StartKeepsInv, ChunksAreNumbers DEF StartReadBlocking
  <2>6. ASSUME NEW n \in 1 .. MaxWrite, NEW timed \in BOOLEAN, StartWrite(h, n, timed)
        PROVE  SerialInv'
    BY <2>2, <2>6, StartKeepsInv DEF StartWrite
  <2> QED BY <2>1, <2>3, <2>4, <2>5, <2>6, HandleKeepsInv, FlushKeepsInv, ReadPortKeepsInv,
             WriteKeepsInv
<1>3. CASE Working
  BY <1>3, DeadlineKeepsInv, ReadChunkKeepsInv, WaitKeepsInv, FinishReadKeepsInv, WriteKeepsInv
     DEF Working
<1>4. CASE Device
  BY <1>4, SendKeepsInv, WriteKeepsInv DEF Device
<1>5. CASE Expire
  BY <1>5, WaitKeepsInv
<1> QED BY <1>1, <1>2, <1>3, <1>4, <1>5 DEF Next

\* Every variable stays in its type, and the input queue holds what was sent and
\* not read (ltf-serial.c).  An empty pattern is in whatever was read, also in
\* nothing, and read_until reports it only with the first byte.
THEOREM SerialTypeCorrect ==
  ASSUME Pattern # << >>
  PROVE  Spec => []TypeOK
<1>1. Init => SerialInv
  BY SerialInit
<1>2. SerialInv /\ [Next]_vars => SerialInv'
  BY SerialStep
<1>3. SerialInv => TypeOK
  BY DEF SerialInv
<1> QED BY <1>1, <1>2, <1>3, PTL DEF Spec

\* Every read returns what left the queue during it, in order and complete, and
\* read_until finds the pattern exactly if it is in what it returns, however
\* the bytes arrive and are cut into chunks (serial.lua).
THEOREM ReadsStayHonest ==
  ASSUME Pattern # << >>
  PROVE  Spec => []ReadsHonest
<1>1. Init => SerialInv
  BY SerialInit
<1>2. SerialInv /\ [Next]_vars => SerialInv'
  BY SerialStep
<1>3. SerialInv => ReadsHonest
  BY DEF SerialInv, ReadInv, LastOK, ReadsHonest, Slice
<1> QED BY <1>1, <1>2, <1>3, PTL DEF Spec

-----------------------------------------------------------------------------
(* Shell: the streams of an SSH channel.                                   *)

\* What the last call returned.
ShellLast ==
  ~c_last.raised =>
    /\ c_last.by \in {"read", "read_until"} =>
         /\ c_last.from + Len(c_last.read) <= Len(c_sent[c_last.stream])
         /\ c_last.read = Slice(c_sent[c_last.stream], c_last.from, c_last.from + Len(c_last.read))
    /\ c_last.by = "read_until" => (c_last.found <=> C!Matches(c_last.read))
    /\ c_last.by = "exec" =>
         /\ remote.eof
         /\ c_last.read = c_sent["stdout"] /\ c_last.err = c_sent["stderr"]
         /\ c_last.code = IF c_last.told THEN remote.code ELSE 0
         /\ remote.early => c_last.told

\* What read and read_until have so far: all that left the stream since they
\* began, without the pattern.
ShellReads ==
  /\ c_thread.at # "test" => c_thread.n \in Chunks
  /\ c_thread.at = "read" => c_thread.from = C!Consumed(c_thread.stream)
  /\ c_thread.at = "read_until" =>
       /\ c_thread.from <= C!Consumed(c_thread.stream)
       /\ c_thread.buf = Slice(c_sent[c_thread.stream], c_thread.from, C!Consumed(c_thread.stream))
       /\ ~C!Matches(c_thread.buf)

\* An exec reads from the first byte on, and reads after the end of the streams:
\* what it has and what waits is all that was sent.
ShellExecs ==
  /\ remote.early => remote.told
  /\ ~remote.running => remote.kind = "exec"
  /\ ~remote.running => c_thread.at = "test" /\ \A s \in C!Streams : c_sent[s] = << >>
  /\ c_thread.at = "wait_eof" => c_input = c_sent /\ c_thread.buf = << >>
  /\ c_thread.at \in C!Streams => remote.eof
  /\ c_thread.at = "stdout" =>
       c_thread.buf \o c_input["stdout"] = c_sent["stdout"] /\ c_input["stderr"] = c_sent["stderr"]
  /\ c_thread.at = "stderr" =>
       c_thread.out = c_sent["stdout"] /\ c_thread.buf \o c_input["stderr"] = c_sent["stderr"]

ShellInv == C!TypeOK /\ ShellLast /\ ShellReads /\ ShellExecs

\* The part of TypeOK about the streams.
StreamsTyped ==
  /\ c_sent \in [C!Streams -> Seq(Bytes)] /\ c_input \in [C!Streams -> Seq(Bytes)]
  /\ \A s \in C!Streams : /\ Len(c_input[s]) <= Len(c_sent[s])
                          /\ c_input[s] = SubSeq(c_sent[s], C!Consumed(s) + 1, Len(c_sent[s]))
  /\ C!Unread <= Window

\* The queue of a stream is the end of what was sent on it.
LEMMA StreamConsumed ==
  ASSUME StreamsTyped, NEW s \in C!Streams
  PROVE  /\ c_sent[s] \in Seq(Bytes) /\ c_input[s] \in Seq(Bytes)
         /\ Len(c_sent[s]) \in Nat /\ Len(c_input[s]) \in Nat
         /\ C!Consumed(s) \in Nat /\ C!Consumed(s) <= Len(c_sent[s])
         /\ Len(c_sent[s]) - C!Consumed(s) = Len(c_input[s])
         /\ c_input[s] = Slice(c_sent[s], C!Consumed(s), Len(c_sent[s]))
<1>1. c_sent[s] \in Seq(Bytes) /\ c_input[s] \in Seq(Bytes) /\ Len(c_input[s]) <= Len(c_sent[s])
  BY DEF StreamsTyped
<1>2. Len(c_sent[s]) \in Nat /\ Len(c_input[s]) \in Nat
  BY <1>1, LenProperties
<1>3. C!Consumed(s) = Len(c_sent[s]) - Len(c_input[s])
  BY DEF C!Consumed
<1>4. c_input[s] = Slice(c_sent[s], C!Consumed(s), Len(c_sent[s]))
  BY DEF StreamsTyped, Slice
<1> DEFINE a == Len(c_sent[s])
           b == Len(c_input[s])
           c == C!Consumed(s)
<1>5. a \in Nat /\ b \in Nat /\ c = a - b /\ b <= a
  BY <1>1, <1>2, <1>3
<1> HIDE DEF a, b, c
<1>6. c \in Nat /\ c <= a /\ a - c = b
  BY <1>5
<1> QED BY <1>1, <1>2, <1>4, <1>6 DEF a, b, c

\* A chunk is the next bytes of its stream.
LEMMA ChunkTaken ==
  ASSUME StreamsTyped, NEW s \in C!Streams, NEW n \in Nat
  PROVE  LET chunk == C!Chunk(s, n)
             k     == Len(C!Chunk(s, n))
             c     == C!Consumed(s)
         IN  /\ chunk \in Seq(Bytes) /\ k \in 0 .. Len(c_input[s])
             /\ chunk = Slice(c_sent[s], c, c + k)
             /\ SubSeq(c_input[s], k + 1, Len(c_input[s])) = Slice(c_sent[s], c + k, Len(c_sent[s]))
             /\ chunk \o SubSeq(c_input[s], k + 1, Len(c_input[s])) = c_input[s]
             /\ chunk = << >> /\ n > 0 => c_input[s] = << >>
<1> DEFINE q == c_input[s]
           c == C!Consumed(s)
           l == Len(c_sent[s])
           m == IF n < Len(q) THEN n ELSE Len(q)
           chunk == SubSeq(q, 1, m)
           S == c_sent[s]
<1>1. /\ S \in Seq(Bytes) /\ q \in Seq(Bytes) /\ l \in Nat /\ Len(q) \in Nat
      /\ c \in Nat /\ c <= l /\ l - c = Len(q) /\ q = Slice(S, c, l) /\ l = Len(S)
  BY StreamConsumed
<1>2. m \in 0 .. Len(q) /\ (m = 0 /\ n > 0 => Len(q) = 0)
  BY <1>1
<1>3. C!Chunk(s, n) = chunk /\ chunk = Slice(q, 0, m)
  BY DEF C!Chunk, Slice
<1> HIDE DEF q, c, l, m, chunk, S
<1>4. Slice(q, 0, m) \in Seq(Bytes) /\ Len(Slice(q, 0, m)) = m
  BY <1>1, <1>2, SliceProperties
<1>5. Slice(q, 0, m) = Slice(S, c, c + m)
  <2>1. Slice(Slice(S, c, l), 0, m) = Slice(S, c + 0, c + m)
    <3>1. m \in Nat /\ 0 \in Nat /\ 0 <= m /\ m <= l - c
      BY <1>1, <1>2
    <3> QED BY <1>1, <3>1, SliceOfSlice
  <2>2. c + 0 = c
    BY <1>1
  <2> QED BY <1>1, <2>1, <2>2
<1>6. SubSeq(q, m + 1, Len(q)) = Slice(S, c + m, l)
  <2>1. Slice(Slice(S, c, l), m, l - c) = Slice(S, c + m, c + (l - c))
    <3>1. m \in Nat /\ l - c \in Nat /\ m <= l - c /\ l - c <= l - c /\ l <= Len(S)
      BY <1>1, <1>2
    <3> DEFINE d == l - c
    <3>2. S \in Seq(Bytes) /\ c \in Nat /\ l \in Nat /\ c <= l /\ d \in Nat /\ m <= d /\ d <= l - c
      BY <1>1, <3>1
    <3> HIDE DEF d
    <3>3. Slice(Slice(S, c, l), m, d) = Slice(S, c + m, c + d)
      BY <3>1, <3>2, SliceOfSlice
    <3> QED BY <3>3 DEF d
  <2>2. c + (l - c) = l
    BY <1>1
  <2> QED BY <1>1, <2>1, <2>2 DEF Slice
<1>7. Slice(S, c, c + m) \o Slice(S, c + m, l) = Slice(S, c, l)
  <2> DEFINE d == c + m
  <2>1. d \in Nat /\ c <= d /\ d <= l /\ l <= Len(S) /\ S \in Seq(Bytes) /\ c \in Nat /\ l \in Nat
    BY <1>1, <1>2
  <2> HIDE DEF d
  <2>2. Slice(S, c, d) \o Slice(S, d, l) = Slice(S, c, l)
    BY <2>1, SlicesJoin
  <2> QED BY <2>2 DEF d
<1>8. ASSUME chunk = << >>, n > 0 PROVE q = << >>
  <2>1. m = 0
    BY <1>3, <1>4, <1>8
  <2> QED BY <1>1, <1>2, <1>8, <2>1, EmptySeq
<1>9. Len(chunk) = m
  BY <1>3, <1>4
<1> QED BY <1>1, <1>2, <1>3, <1>4, <1>5, <1>6, <1>7, <1>8, <1>9 DEF q, c, l, S

\* A read takes its chunk and leaves the other stream alone.
LEMMA ChunkLeaves ==
  ASSUME StreamsTyped, NEW s \in C!Streams, NEW n \in Nat, C!Take(s, n), UNCHANGED c_sent
  PROVE  /\ StreamsTyped'
         /\ C!Consumed(s)' = C!Consumed(s) + Len(C!Chunk(s, n))
         /\ C!Chunk(s, n) \o c_input'[s] = c_input[s]
         /\ \A t \in C!Streams \ {s} : c_input'[t] = c_input[t]
<1> DEFINE k == Len(C!Chunk(s, n))
           c == C!Consumed(s)
           S == c_sent[s]
           r == SubSeq(c_input[s], k + 1, Len(c_input[s]))
<1>1. /\ S \in Seq(Bytes) /\ Len(S) \in Nat /\ c \in Nat /\ c <= Len(S)
      /\ Len(c_input[s]) \in Nat /\ Len(S) - c = Len(c_input[s])
  BY StreamConsumed
<1>2. /\ k \in 0 .. Len(c_input[s]) /\ r = Slice(S, c + k, Len(S))
      /\ C!Chunk(s, n) \o r = c_input[s]
  BY ChunkTaken
<1>3. c_input' = [c_input EXCEPT ![s] = r]
  BY DEF C!Take
<1>4. c_input'[s] = r /\ \A t \in C!Streams \ {s} : c_input'[t] = c_input[t]
  BY <1>3 DEF StreamsTyped
<1> HIDE DEF k, c, S, r
<1>5. r \in Seq(Bytes) /\ Len(r) = Len(S) - (c + k)
  <2> DEFINE d == c + k
             l == Len(S)
  <2>1. d \in Nat /\ l \in Nat /\ d <= l /\ l <= Len(S)
    BY <1>1, <1>2
  <2> HIDE DEF d, l
  <2>2. Slice(S, d, l) \in Seq(Bytes) /\ Len(Slice(S, d, l)) = l - d
    BY <1>1, <2>1, SliceProperties
  <2> QED BY <1>2, <2>2 DEF d, l
<1>6. C!Consumed(s)' = c + k
  <2>1. C!Consumed(s)' = Len(S) - Len(r)
    BY <1>4 DEF C!Consumed, S
  <2> QED BY <1>1, <1>2, <1>5, <2>1
<1>7. c_input' \in [C!Streams -> Seq(Bytes)]
  BY <1>3, <1>5 DEF StreamsTyped
<1>8. ASSUME NEW t \in C!Streams
      PROVE  /\ Len(c_input'[t]) <= Len(c_sent'[t]) /\ Len(c_input'[t]) <= Len(c_input[t])
             /\ c_input'[t] = SubSeq(c_sent'[t], C!Consumed(t)' + 1, Len(c_sent'[t]))
  <2>1. CASE t = s
    <3>1. Len(r) <= Len(S) /\ Len(r) <= Len(c_input[s])
      BY <1>1, <1>2, <1>5
    <3>2. r = SubSeq(S, C!Consumed(s)' + 1, Len(S))
      BY <1>2, <1>6 DEF Slice
    <3> QED BY <1>4, <2>1, <3>1, <3>2 DEF S
  <2>2. CASE t # s
    <3>1. c_input'[t] = c_input[t] /\ C!Consumed(t)' = C!Consumed(t)
      BY <1>4, <2>2 DEF C!Consumed
    <3>2. Len(c_input[t]) \in Nat
      BY StreamConsumed
    <3> QED BY <3>1, <3>2 DEF StreamsTyped
  <2> QED BY <2>1, <2>2
<1>9. C!Unread' <= Window
  <2>1. "stdout" \in C!Streams /\ "stderr" \in C!Streams
    BY DEF C!Streams
  <2>2. \A t \in C!Streams : Len(c_input[t]) \in Nat /\ Len(c_input'[t]) \in Nat
    BY <1>7, LenProperties, StreamConsumed
  <2> DEFINE a == Len(c_input["stdout"])
             b == Len(c_input["stderr"])
             x == Len(c_input'["stdout"])
             y == Len(c_input'["stderr"])
  <2>3. /\ a \in Nat /\ b \in Nat /\ x \in Nat /\ y \in Nat /\ x <= a /\ y <= b
        /\ C!Unread = a + b /\ C!Unread' = x + y /\ a + b <= Window
    BY <1>8, <2>1, <2>2 DEF C!Unread, StreamsTyped
  <2> HIDE DEF a, b, x, y
  <2> QED BY <2>3, ShellAssumption DEF C!ConstantsOK
<1> QED BY <1>2, <1>4, <1>6, <1>7, <1>8, <1>9 DEF StreamsTyped, k, c

LEMMA StreamsOfType == C!TypeOK => StreamsTyped
BY DEF C!TypeOK, StreamsTyped

\* A thread that does nothing and a call without a result.
LEMMA IdleShell ==
  /\ C!Idle \in C!Thread /\ C!Idle.at = "test"
  /\ C!Nothing \in C!Call
BY EmptySeq DEF C!Idle, C!Nothing, C!Thread, C!Call, C!Streams

\* A call that raises has no result.
LEMMA CallFailed ==
  ASSUME C!TypeOK, NEW by \in {"read", "read_until", "exec"}, C!Fails(by)
  PROVE  c_last' \in C!Call /\ c_last'.raised /\ c_thread' = C!Idle
<1>1. c_thread.stream \in C!Streams
  BY DEF C!TypeOK, C!Thread
<1>2. c_last' = [C!Nothing EXCEPT !.by = by, !.stream = c_thread.stream, !.raised = TRUE]
  BY DEF C!Fails, C!Ends
<1>3. c_last' = [by |-> by, stream |-> c_thread.stream, from |-> 0, read |-> << >>, err |-> << >>,
                 found |-> FALSE, code |-> 0, told |-> FALSE, raised |-> TRUE]
  BY <1>2 DEF C!Nothing
<1>4. << >> \in Seq(Bytes)
  BY EmptySeq
<1>5. c_last' \in C!Call
  BY <1>1, <1>3, <1>4 DEF C!Call
<1> QED BY <1>3, <1>5 DEF C!Fails, C!Ends

LEMMA ShellInit ==
  ASSUME C!Init PROVE ShellInv
<1> USE DEF C!Init
<1>1. /\ c_sent = [s \in C!Streams |-> << >>] /\ c_input = [s \in C!Streams |-> << >>]
      /\ << >> \in Seq(Bytes) /\ Len(<< >>) = 0
  BY EmptySeq
<1>2. \A s \in C!Streams : /\ c_sent[s] = << >> /\ c_input[s] = << >> /\ C!Consumed(s) = 0
  BY <1>1 DEF C!Consumed
<1>3. StreamsTyped
  <2>1. \A s \in C!Streams : c_input[s] = SubSeq(c_sent[s], C!Consumed(s) + 1, Len(c_sent[s]))
    BY <1>1, <1>2, SubSeqEmpty
  <2>2. C!Unread = 0 /\ 0 <= Window
    BY <1>1, <1>2, ShellAssumption DEF C!Unread, C!Streams, C!ConstantsOK
  <2> QED BY <1>1, <1>2, <2>1, <2>2 DEF StreamsTyped
<1>4. remote \in [kind : {"exec", "shell"}, running : BOOLEAN, code : {0, 1},
                 eof : BOOLEAN, told : BOOLEAN, early : BOOLEAN]
  <2>1. PICK kind \in {"exec", "shell"}, code \in {0, 1} :
          remote = [kind |-> kind, running |-> kind = "shell", code |-> code,
                    eof |-> FALSE, told |-> FALSE, early |-> FALSE]
    OBVIOUS
  <2>2. (kind = "shell") \in BOOLEAN
    OBVIOUS
  <2> HIDE DEF C!Init
  <2> QED BY <2>1, <2>2
<1>5. c_calls \in 0 .. MaxShell
  BY ShellAssumption DEF C!ConstantsOK
<1>6. C!TypeOK
  BY <1>3, <1>4, <1>5, IdleShell DEF C!TypeOK, StreamsTyped
<1>7. ShellLast
  <2>1. c_last.by = "none"
    BY DEF C!Nothing
  <2> QED BY <2>1 DEF ShellLast
<1>8. ShellReads /\ ShellExecs
  <2>1. (~remote.running => remote.kind = "exec") /\ ~remote.early
    <3>1. PICK kind \in {"exec", "shell"}, code \in {0, 1} :
            remote = [kind |-> kind, running |-> kind = "shell", code |-> code,
                      eof |-> FALSE, told |-> FALSE, early |-> FALSE]
      OBVIOUS
    <3> HIDE DEF C!Init
    <3>2. remote.kind = kind /\ remote.running = (kind = "shell") /\ remote.early = FALSE
      BY <3>1
    <3> QED BY <3>2
  <2>2. c_thread.at = "test"
    BY IdleShell
  <2> HIDE DEF C!Init
  <2> QED BY <1>2, <2>1, <2>2 DEF ShellReads, ShellExecs, C!Streams
<1> QED BY <1>6, <1>7, <1>8 DEF ShellInv

\* The pattern is not in nothing.
LEMMA NoPatternYet ==
  ASSUME Pattern # << >> PROVE ~C!Matches(<< >>)
<1>1. Pattern \in Seq(Bytes) /\ Len(Pattern) \in Nat
  BY ShellAssumption, LenProperties DEF C!ConstantsOK
<1>2. Len(Pattern) # 0
  BY <1>1, EmptySeq
<1>3. Len(<< >>) = 0
  OBVIOUS
<1>4. 0 .. 0 - Len(Pattern) = {}
  BY <1>1, <1>2
<1> QED BY <1>3, <1>4 DEF C!Matches

\* A call begins.
LEMMA ShellStarts ==
  ASSUME ShellInv, Pattern # << >>, C!Test
  PROVE  ShellInv'
<1> USE DEF ShellInv
<1>1. StreamsTyped /\ c_calls \in Nat /\ MaxShell \in Nat
  BY StreamsOfType, ShellAssumption DEF C!TypeOK, C!ConstantsOK
<1>2. /\ c_thread.at = "test" /\ c_calls' \in 0 .. MaxShell
      /\ UNCHANGED <<c_link, c_input, c_sent>>
  <2>1. C!Called /\ UNCHANGED <<c_link, c_input, c_sent>>
    BY DEF C!Test, C!StartRead, C!StartReadUntil, C!StartExec, C!Start
  <2> QED BY <1>1, <2>1 DEF C!Called
<1>3. \A n \in Chunks : n \in Nat /\ n > 0
  BY ShellAssumption DEF C!ConstantsOK
<1>4. StreamsTyped' /\ \A s \in C!Streams : C!Consumed(s)' = C!Consumed(s)
  BY <1>1, <1>2 DEF StreamsTyped, C!Consumed, C!Unread
<1>5. ASSUME NEW at \in {"read", "read_until"}, NEW s \in C!Streams, NEW n \in Chunks,
             NEW given \in BOOLEAN, C!Start(at, s, n, given), remote.kind = "shell"
      PROVE  ShellInv'
  <2>1. /\ c_thread' = [at |-> at, stream |-> s, n |-> n, given |-> given, from |-> C!Consumed(s),
                        buf |-> << >>, out |-> << >>, step |-> "check", expired |-> FALSE]
        /\ c_last' = C!Nothing /\ remote' = remote
    BY <1>5 DEF C!Start, C!Idle
  <2>2. /\ C!Consumed(s) \in Nat /\ << >> \in Seq(Bytes)
        /\ Slice(c_sent[s], C!Consumed(s), C!Consumed(s)) = << >>
    BY <1>1, StreamConsumed, EmptySeq, SubSeqEmpty DEF Slice
  <2>3. c_thread' \in C!Thread
    BY <1>3, <2>1, <2>2 DEF C!Thread
  <2>4. C!TypeOK'
    BY <1>2, <1>4, <2>1, <2>3, IdleShell DEF C!TypeOK, StreamsTyped
  <2>5. ShellLast'
    BY <2>1 DEF ShellLast, C!Nothing
  <2>6. ShellReads'
    <3>1. c_thread'.at = at /\ c_thread'.n = n /\ c_thread'.buf = << >>
          /\ c_thread'.from = C!Consumed(s) /\ c_thread'.stream = s
      BY <2>1
    <3>2. C!Consumed(s)' = C!Consumed(s) /\ C!Consumed(s) <= C!Consumed(s)
      BY <1>4, <2>2
    <3> QED BY <1>2, <2>2, <3>1, <3>2, NoPatternYet DEF ShellReads, C!Matches
  <2>7. ShellExecs'
    <3>1. remote.running
      BY <1>5 DEF ShellExecs
    <3> QED BY <1>2, <1>5, <2>1, <3>1 DEF ShellExecs, C!Streams
  <2> QED BY <2>4, <2>5, <2>6, <2>7
<1>6. ASSUME NEW n \in Chunks, C!StartExec(n) PROVE ShellInv'
  <2>1. CASE c_last'.raised /\ c_thread' = C!Idle /\ c_last' \in C!Call /\ remote' = remote
    <3>1. C!TypeOK'
      BY <1>2, <1>4, <2>1, IdleShell DEF C!TypeOK, StreamsTyped
    <3> QED BY <1>2, <2>1, <3>1, IdleShell DEF ShellLast, ShellReads, ShellExecs, C!Streams
  <2>2. CASE /\ ~remote.running /\ remote' = [remote EXCEPT !.running = TRUE]
             /\ c_thread' = [C!Idle EXCEPT !.at = "wait_eof", !.n = n]
             /\ c_last' = C!Nothing
    <3>1. /\ c_thread' \in C!Thread /\ c_thread'.at = "wait_eof" /\ c_thread'.n = n
          /\ c_thread'.buf = << >>
      BY <1>3, <2>2, EmptySeq DEF C!Idle, C!Thread, C!Streams
    <3>2. remote' \in [kind : {"exec", "shell"}, running : BOOLEAN, code : {0, 1},
                      eof : BOOLEAN, told : BOOLEAN, early : BOOLEAN] /\ remote'.running
          /\ remote'.early = remote.early /\ remote'.told = remote.told
      BY <2>2 DEF C!TypeOK
    <3>3. C!TypeOK'
      BY <1>2, <1>4, <2>2, <3>1, <3>2, IdleShell DEF C!TypeOK, StreamsTyped
    <3>4. c_input' = c_sent'
      <4>1. \A s \in C!Streams : c_sent[s] = << >>
        BY <2>2 DEF ShellExecs
      <4>2. \A s \in C!Streams : c_input[s] \in Seq(Bytes) /\ Len(c_input[s]) <= 0
        BY <4>1 DEF C!TypeOK
      <4>3. \A s \in C!Streams : c_input[s] = << >>
        BY <4>2, EmptySeq, LenProperties
      <4> QED BY <1>2, <4>1, <4>3 DEF C!TypeOK
    <3>5. ShellLast'
      BY <2>2 DEF ShellLast, C!Nothing
    <3> QED BY <3>1, <3>2, <3>3, <3>4, <3>5 DEF ShellReads, ShellExecs, C!Streams
  <2>3. C!Fails("exec") => c_last'.raised /\ c_thread' = C!Idle /\ c_last' \in C!Call
    BY CallFailed
  <2> QED BY <1>6, <2>1, <2>2, <2>3 DEF C!StartExec
<1> QED BY <1>5, <1>6 DEF C!Test, C!StartRead, C!StartReadUntil

\* What a call that is under way keeps while nothing leaves the streams.
LEMMA SameStreams ==
  ASSUME StreamsTyped, UNCHANGED <<c_input, c_sent>>
  PROVE  StreamsTyped' /\ \A s \in C!Streams : C!Consumed(s)' = C!Consumed(s)
BY DEF StreamsTyped, C!Consumed, C!Unread

\* A call ends and nothing leaves the streams.
LEMMA ShellEnds ==
  ASSUME ShellInv, UNCHANGED <<remote, c_link, c_input, c_sent, c_calls>>,
         c_thread' = C!Idle, c_thread.at # "test", c_last' \in C!Call, ShellLast'
  PROVE  ShellInv'
<1>1. C!TypeOK'
  BY StreamsOfType, SameStreams, IdleShell DEF ShellInv, C!TypeOK, StreamsTyped
<1>2. ShellReads' /\ ShellExecs'
  BY IdleShell DEF ShellInv, ShellReads, ShellExecs, C!Streams
<1> QED BY <1>1, <1>2 DEF ShellInv

\* A call is given up, at any point.
LEMMA ShellGivenUp ==
  ASSUME ShellInv, C!ReadGivenUp \/ C!DrainGivenUp \/ (C!WaitEof /\ c_thread' = C!Idle)
  PROVE  ShellInv'
<1>1. /\ UNCHANGED <<remote, c_link, c_input, c_sent, c_calls>> /\ c_thread.at # "test"
      /\ c_thread.at \in {"read", "read_until"} \/ C!Fails("exec")
      /\ C!Fails(c_thread.at) \/ C!Fails("exec")
  <2>1. CASE C!ReadGivenUp
    BY <2>1 DEF C!ReadGivenUp
  <2>2. CASE C!DrainGivenUp
    BY <2>2 DEF C!DrainGivenUp, C!Streams
  <2>3. CASE C!WaitEof /\ c_thread' = C!Idle
    <3>1. c_thread'.at = "test"
      BY <2>3, IdleShell
    <3>2. c_thread \in C!Thread
      BY DEF ShellInv, C!TypeOK
    <3>3. c_thread' # [c_thread EXCEPT !.at = "stdout"]
      BY <3>1, <3>2 DEF C!Thread
    <3> QED BY <2>3, <3>3 DEF C!WaitEof
  <2> QED BY <2>1, <2>2, <2>3
<1>2. c_last' \in C!Call /\ c_last'.raised /\ c_thread' = C!Idle
  BY <1>1, CallFailed DEF ShellInv
<1>3. ShellLast'
  BY <1>2 DEF ShellLast
<1> QED BY <1>1, <1>2, <1>3, ShellEnds

\* Bytes that arrive come after those that are there.
LEMMA ShellArrives ==
  ASSUME ShellInv, NEW s \in C!Streams, NEW byte \in Bytes, C!Arrives(s, byte)
  PROVE  ShellInv'
<1> USE DEF ShellInv
<1>1. /\ remote.running /\ ~remote.eof /\ C!Unread < Window
      /\ c_sent' = [c_sent EXCEPT ![s] = Append(c_sent[s], byte)]
      /\ c_input' = [c_input EXCEPT ![s] = Append(c_input[s], byte)]
      /\ UNCHANGED <<remote, c_link, c_thread, c_last, c_calls>>
  BY DEF C!Arrives
<1>2. StreamsTyped /\ c_thread \in C!Thread /\ c_last \in C!Call
  BY StreamsOfType DEF C!TypeOK
<1> DEFINE S == c_sent[s]
           q == c_input[s]
           l == Len(c_sent[s])
           c == C!Consumed(s)
<1>3. /\ S \in Seq(Bytes) /\ q \in Seq(Bytes) /\ l \in Nat /\ Len(q) \in Nat /\ l = Len(S)
      /\ c \in Nat /\ c <= l /\ l - c = Len(q) /\ q = Slice(S, c, l)
  BY <1>2, StreamConsumed
<1>4. /\ c_sent'[s] = Append(S, byte) /\ c_input'[s] = Append(q, byte)
      /\ \A t \in C!Streams \ {s} : c_sent'[t] = c_sent[t] /\ c_input'[t] = c_input[t]
  BY <1>1, <1>2 DEF StreamsTyped
<1> HIDE DEF S, q, l, c
<1>5. /\ Append(S, byte) \in Seq(Bytes) /\ Append(q, byte) \in Seq(Bytes)
      /\ Len(Append(S, byte)) = l + 1 /\ Len(Append(q, byte)) = Len(q) + 1
  BY <1>3, AppendProperties
<1>6. C!Consumed(s)' = c
  <2>1. C!Consumed(s)' = Len(Append(S, byte)) - Len(Append(q, byte))
    BY <1>4 DEF C!Consumed
  <2> QED BY <1>3, <1>5, <2>1
<1>7. Append(q, byte) = Slice(Append(S, byte), c, l + 1)
  BY <1>3, SliceGrows
<1>8. \A t \in C!Streams : C!Consumed(t)' = C!Consumed(t)
  BY <1>4, <1>6 DEF C!Consumed, c
<1>9. StreamsTyped'
  <2>1. ASSUME NEW t \in C!Streams
        PROVE  /\ Len(c_input'[t]) <= Len(c_sent'[t])
               /\ c_input'[t] = SubSeq(c_sent'[t], C!Consumed(t)' + 1, Len(c_sent'[t]))
    <3>1. CASE t = s
      <4>1. Len(q) + 1 <= l + 1
        BY <1>3
      <4> QED BY <1>4, <1>5, <1>6, <1>7, <3>1, <4>1 DEF Slice
    <3>2. CASE t # s
      BY <1>2, <1>4, <1>8, <3>2 DEF StreamsTyped
    <3> QED BY <3>1, <3>2
  <2>2. c_sent' \in [C!Streams -> Seq(Bytes)] /\ c_input' \in [C!Streams -> Seq(Bytes)]
    BY <1>1, <1>2, <1>5 DEF StreamsTyped, S, q
  <2>3. C!Unread' <= Window
    <3>1. "stdout" \in C!Streams /\ "stderr" \in C!Streams /\ s \in {"stdout", "stderr"}
      BY DEF C!Streams
    <3> DEFINE a == Len(c_input["stdout"])
               b == Len(c_input["stderr"])
    <3>2. a \in Nat /\ b \in Nat /\ a + b < Window /\ Window \in Nat
      BY <1>1, <1>2, <3>1, StreamConsumed, ShellAssumption DEF C!Unread, C!ConstantsOK
    <3>3. \/ Len(c_input'["stdout"]) = a + 1 /\ Len(c_input'["stderr"]) = b
          \/ Len(c_input'["stdout"]) = a /\ Len(c_input'["stderr"]) = b + 1
      BY <1>4, <1>5, <3>1 DEF q
    <3>4. C!Unread' = Len(c_input'["stdout"]) + Len(c_input'["stderr"])
      BY DEF C!Unread
    <3> HIDE DEF a, b
    <3>5. C!Unread' = (a + 1) + b \/ C!Unread' = a + (b + 1)
      BY <3>3, <3>4
    <3> QED BY <3>2, <3>5
  <2> QED BY <2>1, <2>2, <2>3 DEF StreamsTyped
<1>10. C!TypeOK'
  BY <1>1, <1>9 DEF C!TypeOK, StreamsTyped
<1>11. ASSUME NEW t \in C!Streams, NEW a \in Nat, NEW b \in Nat, a <= b, b <= Len(c_sent[t])
       PROVE  Slice(c_sent'[t], a, b) = Slice(c_sent[t], a, b) /\ b <= Len(c_sent'[t])
  <2>1. CASE t = s
    <3>1. b <= l
      BY <1>11, <2>1 DEF l
    <3>2. b <= Len(S)
      BY <1>3, <3>1
    <3>3. Slice(Append(S, byte), a, b) = Slice(S, a, b)
      BY <1>3, <1>11, <3>2, SliceOfAppend
    <3>4. b <= l + 1
      BY <1>3, <3>1
    <3> QED BY <1>4, <1>5, <2>1, <3>3, <3>4 DEF S
  <2>2. CASE t # s
    BY <1>4, <1>11, <2>2
  <2> QED BY <2>1, <2>2
<1>12. ShellLast'
  <2> SUFFICES ASSUME ~c_last.raised PROVE ShellLast'
    BY <1>1 DEF ShellLast
  <2>1. c_last.by # "exec"
    BY <1>1 DEF ShellLast
  <2>2. ASSUME c_last.by \in {"read", "read_until"}
        PROVE  /\ c_last.from + Len(c_last.read) <= Len(c_sent'[c_last.stream])
               /\ c_last.read = Slice(c_sent'[c_last.stream], c_last.from,
                                      c_last.from + Len(c_last.read))
    <3> DEFINE a == c_last.from
               b == c_last.from + Len(c_last.read)
               t == c_last.stream
    <3>1. a \in Nat /\ Len(c_last.read) \in Nat /\ t \in C!Streams
      BY <1>2, LenProperties DEF C!Call
    <3>2. b \in Nat /\ a <= b
      BY <3>1
    <3>3. b <= Len(c_sent[t]) /\ c_last.read = Slice(c_sent[t], a, b)
      BY <2>2 DEF ShellLast
    <3> HIDE DEF a, b, t
    <3>4. Slice(c_sent'[t], a, b) = Slice(c_sent[t], a, b) /\ b <= Len(c_sent'[t])
      BY <1>11, <3>1, <3>2, <3>3
    <3> QED BY <3>3, <3>4 DEF a, b, t
  <2>3. c_last.by = "read_until" => (c_last.found <=> C!Matches(c_last.read))
    BY DEF ShellLast
  <2> QED BY <1>1, <2>1, <2>2, <2>3 DEF ShellLast, C!Matches
<1>13. ShellReads'
  <2>1. ASSUME c_thread.at = "read_until"
        PROVE  /\ c_thread.from <= C!Consumed(c_thread.stream)'
               /\ c_thread.buf = Slice(c_sent'[c_thread.stream], c_thread.from,
                                       C!Consumed(c_thread.stream)')
    <3> DEFINE a == c_thread.from
               t == c_thread.stream
               b == C!Consumed(c_thread.stream)
    <3>1. /\ t \in C!Streams /\ a \in Nat /\ b \in Nat /\ a <= b /\ b <= Len(c_sent[t])
          /\ c_thread.buf = Slice(c_sent[t], a, b)
      BY <1>2, <2>1, StreamConsumed DEF ShellReads, C!Thread
    <3>2. C!Consumed(c_thread.stream)' = b
      BY <1>1, <1>8, <3>1
    <3> HIDE DEF a, b, t
    <3>3. Slice(c_sent'[t], a, b) = Slice(c_sent[t], a, b)
      BY <1>11, <3>1
    <3> QED BY <3>1, <3>2, <3>3 DEF a, b, t
  <2>2. c_thread.at = "read" => c_thread.from = C!Consumed(c_thread.stream)'
    BY <1>1, <1>2, <1>8 DEF ShellReads, C!Thread
  <2> QED BY <1>1, <2>1, <2>2 DEF ShellReads, C!Matches
<1>14. ShellExecs'
  <2>1. c_thread.at \notin C!Streams
    BY <1>1 DEF ShellExecs
  <2>2. c_thread.at = "wait_eof" => c_input' = c_sent'
    BY <1>1, <1>4, <1>9 DEF ShellExecs, StreamsTyped
  <2> QED BY <1>1, <2>1, <2>2 DEF ShellExecs, C!Streams
<1> QED BY <1>10, <1>12, <1>13, <1>14

\* The server ends the streams or tells the exit code, the connection is lost,
\* and time passes.
LEMMA ShellQuiet ==
  ASSUME ShellInv, C!EofArrives \/ C!StatusArrives \/ C!LinkLost \/ C!Expire
  PROVE  ShellInv'
<1> USE DEF ShellInv
<1>1. UNCHANGED <<c_input, c_sent, c_last, c_calls>>
  BY DEF C!EofArrives, C!StatusArrives, C!LinkLost, C!Expire
<1>2. StreamsTyped' /\ \A s \in C!Streams : C!Consumed(s)' = C!Consumed(s)
  BY <1>1, StreamsOfType, SameStreams
<1>3. /\ remote \in [kind : {"exec", "shell"}, running : BOOLEAN, code : {0, 1},
                    eof : BOOLEAN, told : BOOLEAN, early : BOOLEAN]
      /\ c_thread \in C!Thread /\ c_link' \in {"up", "lost"}
  BY DEF C!TypeOK, C!EofArrives, C!StatusArrives, C!LinkLost, C!Expire
<1>4. \/ remote' = remote
      \/ ~remote.eof /\ remote' = [remote EXCEPT !.eof = TRUE, !.early = remote.told]
      \/ remote' = [remote EXCEPT !.told = TRUE]
  BY DEF C!EofArrives, C!StatusArrives, C!LinkLost, C!Expire
<1>5. /\ remote' \in [kind : {"exec", "shell"}, running : BOOLEAN, code : {0, 1},
                     eof : BOOLEAN, told : BOOLEAN, early : BOOLEAN]
      /\ remote'.kind = remote.kind /\ remote'.running = remote.running
      /\ remote'.code = remote.code /\ (remote.eof => remote'.eof /\ remote'.early = remote.early)
      /\ (remote.early => remote.told) => (remote'.early => remote'.told)
  BY <1>3, <1>4
<1>6. c_thread' = c_thread \/ c_thread' = [c_thread EXCEPT !.expired = TRUE]
  BY DEF C!EofArrives, C!StatusArrives, C!LinkLost, C!Expire
<1>7. /\ c_thread' \in C!Thread /\ c_thread'.at = c_thread.at /\ c_thread'.n = c_thread.n
      /\ c_thread'.stream = c_thread.stream /\ c_thread'.from = c_thread.from
      /\ c_thread'.buf = c_thread.buf /\ c_thread'.out = c_thread.out
  BY <1>3, <1>6 DEF C!Thread
<1>8. C!TypeOK'
  BY <1>1, <1>2, <1>3, <1>5, <1>7 DEF C!TypeOK, StreamsTyped
<1>9. ShellLast'
  BY <1>1, <1>5 DEF ShellLast, C!Matches
<1>10. ShellReads'
  <2>1. PICK t \in C!Streams : t = c_thread.stream
    BY <1>3 DEF C!Thread
  <2>2. C!Consumed(t)' = C!Consumed(t) /\ c_thread'.stream = t
    BY <1>2, <1>7, <2>1
  <2> QED BY <1>1, <1>7, <2>1, <2>2 DEF ShellReads, C!Matches, C!Consumed
<1>11. ShellExecs'
  BY <1>1, <1>5, <1>7 DEF ShellExecs, C!Streams
<1> QED BY <1>8, <1>9, <1>10, <1>11

\* The deadline of read_until, and the end of the streams for exec.
LEMMA ShellChecks ==
  ASSUME ShellInv, C!CheckDeadline \/ C!WaitEof
  PROVE  ShellInv'
<1> USE DEF ShellInv
<1>1. /\ UNCHANGED <<remote, c_link, c_input, c_sent, c_calls>>
      /\ c_thread.at \in {"read_until", "wait_eof"}
      /\ c_thread \in C!Thread /\ c_last \in C!Call
  BY DEF C!CheckDeadline, C!WaitEof, C!TypeOK
<1>2. StreamsTyped /\ StreamsTyped' /\ \A s \in C!Streams : C!Consumed(s)' = C!Consumed(s)
  BY <1>1, StreamsOfType, SameStreams
<1>3. CASE C!CheckDeadline /\ c_thread.expired
  <2> DEFINE t == c_thread.stream
             a == c_thread.from
             b == C!Consumed(c_thread.stream)
             read == c_thread.buf
  <2>1. /\ c_thread.at = "read_until" /\ c_thread' = C!Idle
        /\ c_last' = [by |-> "read_until", stream |-> t, from |-> a, read |-> read,
                      err |-> << >>, found |-> FALSE, code |-> 0, told |-> FALSE, raised |-> FALSE]
    BY <1>3 DEF C!CheckDeadline, C!Ends, C!Result, C!Nothing
  <2>2. /\ t \in C!Streams /\ a \in Nat /\ b \in Nat /\ a <= b /\ b <= Len(c_sent[t])
        /\ c_sent[t] \in Seq(Bytes) /\ read = Slice(c_sent[t], a, b) /\ ~C!Matches(read)
        /\ read \in Seq(Bytes)
    BY <1>1, <1>2, <2>1, StreamConsumed DEF ShellReads, C!Thread
  <2> HIDE DEF t, a, b, read
  <2>3. Len(read) = b - a
    BY <2>2, SliceProperties
  <2>4. a + Len(read) = b
    BY <2>2, <2>3
  <2>5. c_last' \in C!Call
    <3>1. << >> \in Seq(Bytes)
      BY EmptySeq
    <3> QED BY <2>1, <2>2, <3>1 DEF C!Call
  <2>6. ShellLast'
    BY <1>1, <2>1, <2>2, <2>4 DEF ShellLast, C!Matches
  <2> QED BY <1>1, <2>1, <2>5, <2>6, ShellEnds
<1>4. CASE C!CheckDeadline /\ ~c_thread.expired
  <2>1. c_thread' = [c_thread EXCEPT !.step = "read"] /\ c_last' = c_last
    BY <1>4 DEF C!CheckDeadline
  <2>2. /\ c_thread' \in C!Thread /\ c_thread'.at = c_thread.at /\ c_thread'.n = c_thread.n
        /\ c_thread'.stream = c_thread.stream /\ c_thread'.from = c_thread.from
        /\ c_thread'.buf = c_thread.buf /\ c_thread'.out = c_thread.out
    BY <1>1, <2>1 DEF C!Thread
  <2>3. C!TypeOK'
    BY <1>1, <1>2, <2>1, <2>2 DEF C!TypeOK, StreamsTyped
  <2>4. ShellLast' /\ ShellExecs'
    BY <1>1, <2>1, <2>2 DEF ShellLast, ShellExecs, C!Matches, C!Streams
  <2>5. ShellReads'
    <3>1. PICK t \in C!Streams : t = c_thread.stream
      BY <1>1 DEF C!Thread
    <3>2. C!Consumed(t)' = C!Consumed(t) /\ c_thread'.stream = t
      BY <1>2, <2>2, <3>1
    <3> QED BY <1>1, <2>2, <3>1, <3>2 DEF ShellReads, C!Matches, C!Consumed
  <2> QED BY <2>3, <2>4, <2>5
<1>5. CASE C!WaitEof /\ c_thread' # C!Idle
  <2>1. /\ c_thread.at = "wait_eof" /\ remote.eof
        /\ c_thread' = [c_thread EXCEPT !.at = "stdout"] /\ c_last' = c_last
    BY <1>5 DEF C!WaitEof, C!Fails, C!Ends
  <2>2. /\ c_thread' \in C!Thread /\ c_thread'.at = "stdout" /\ c_thread'.n = c_thread.n
        /\ c_thread'.buf = << >>
    BY <1>1, <2>1 DEF C!Thread, C!Streams, ShellExecs
  <2>3. C!TypeOK'
    BY <1>1, <1>2, <2>1, <2>2 DEF C!TypeOK, StreamsTyped
  <2>4. ShellLast' /\ ShellReads'
    BY <1>1, <2>1, <2>2 DEF ShellLast, ShellReads, C!Matches
  <2>5. ShellExecs'
    <3>1. c_input = c_sent /\ remote.running
      BY <2>1 DEF ShellExecs
    <3>2. c_sent["stdout"] \in Seq(Bytes)
      BY <1>2 DEF StreamsTyped, C!Streams
    <3>3. << >> \o c_sent["stdout"] = c_sent["stdout"]
      BY <3>2, ConcatEmptySeq
    <3> QED BY <1>1, <2>1, <2>2, <3>1, <3>3 DEF ShellExecs
  <2> QED BY <2>3, <2>4, <2>5
<1> QED BY <1>3, <1>4, <1>5, ShellGivenUp

\* A read takes a chunk: what it has then is all that left the stream since it
\* began.
LEMMA ShellTook ==
  ASSUME ShellInv, c_thread.at \in {"read", "read_until"}, NEW t \in C!Streams,
         t = c_thread.stream, C!Take(t, c_thread.n), UNCHANGED c_sent,
         NEW d, d = C!Consumed(t)'
  PROVE  LET a == c_thread.from
             chunk == C!Chunk(t, c_thread.n)
         IN  /\ StreamsTyped' /\ c_sent[t] \in Seq(Bytes)
             /\ a \in Nat /\ d \in Nat /\ a <= d /\ d <= Len(c_sent[t])
             /\ C!Consumed(t) \in Nat /\ C!Consumed(t) <= d
             /\ chunk \in Seq(Bytes) /\ Len(chunk) = d - C!Consumed(t)
             /\ c_thread.at = "read" => chunk = Slice(c_sent[t], a, d)
             /\ c_thread.at = "read_until" => c_thread.buf \o chunk = Slice(c_sent[t], a, d)
             /\ Len(Slice(c_sent[t], a, d)) = d - a /\ Slice(c_sent[t], a, d) \in Seq(Bytes)
             /\ remote.running
<1> DEFINE a == c_thread.from
           b == C!Consumed(t)
           n == c_thread.n
           chunk == C!Chunk(t, n)
           S == c_sent[t]
<1>1. StreamsTyped /\ a \in Nat /\ n \in Nat
  BY StreamsOfType DEF ShellInv, C!TypeOK, C!Thread
<1>2. /\ S \in Seq(Bytes) /\ b \in Nat /\ b <= Len(S) /\ Len(S) \in Nat
      /\ Len(c_input[t]) \in Nat /\ Len(S) - b = Len(c_input[t])
  BY <1>1, StreamConsumed
<1>3. /\ chunk \in Seq(Bytes) /\ Len(chunk) \in 0 .. Len(c_input[t])
      /\ chunk = Slice(S, b, b + Len(chunk))
  BY <1>1, ChunkTaken
<1>4. StreamsTyped' /\ d = b + Len(chunk)
  BY <1>1, ChunkLeaves
<1>5. /\ a <= b /\ (c_thread.at = "read" => a = b)
      /\ c_thread.at = "read_until" => c_thread.buf = Slice(S, a, b)
      /\ remote.running
  BY <1>2 DEF ShellInv, ShellReads, ShellExecs
<1> HIDE DEF a, b, n, chunk, S
<1>6. d \in Nat /\ b <= d /\ d <= Len(S) /\ Len(chunk) = d - b /\ a <= d
  BY <1>1, <1>2, <1>3, <1>4, <1>5
<1>7. chunk = Slice(S, b, d)
  BY <1>3, <1>4
<1>8. Slice(S, a, b) \o Slice(S, b, d) = Slice(S, a, d)
  <2>1. /\ S \in Seq(Bytes) /\ a \in Nat /\ b \in Nat /\ d \in Nat
        /\ a <= b /\ b <= d /\ d <= Len(S)
    BY <1>1, <1>2, <1>5, <1>6
  <2> QED BY <2>1, SlicesJoin
<1>9. Len(Slice(S, a, d)) = d - a /\ Slice(S, a, d) \in Seq(Bytes)
  <2>1. S \in Seq(Bytes) /\ a \in Nat /\ d \in Nat /\ a <= d /\ d <= Len(S)
    BY <1>1, <1>2, <1>6
  <2> QED BY <2>1, SliceProperties
<1>10. c_thread.at = "read" => chunk = Slice(S, a, d)
  BY <1>5, <1>7
<1>11. c_thread.at = "read_until" => c_thread.buf \o chunk = Slice(S, a, d)
  BY <1>5, <1>7, <1>8
<1> QED BY <1>1, <1>2, <1>3, <1>4, <1>5, <1>6, <1>9, <1>10, <1>11 DEF a, b, n, chunk, S

\* A read or a read_until returns what left its stream.
LEMMA ShellReturns ==
  ASSUME ShellInv, c_thread.at \in {"read", "read_until"}, NEW t \in C!Streams,
         t = c_thread.stream, C!Take(t, c_thread.n), UNCHANGED <<remote, c_link, c_sent, c_calls>>,
         NEW d, d = C!Consumed(t)',
         NEW read, NEW match \in BOOLEAN, C!Ends(C!Result(read, match)),
         read = Slice(c_sent[t], c_thread.from, d),
         c_thread.at = "read_until" => (match <=> C!Matches(read))
  PROVE  ShellInv'
<1> DEFINE a == c_thread.from
<1>1. /\ StreamsTyped' /\ a \in Nat /\ d \in Nat /\ a <= d
      /\ d <= Len(c_sent[t]) /\ Len(read) = d - a /\ read \in Seq(Bytes) /\ remote.running
  BY ShellTook
<1>2. /\ c_thread' = C!Idle
      /\ c_last' = [by |-> c_thread.at, stream |-> t, from |-> a, read |-> read,
                    err |-> << >>, found |-> match, code |-> 0, told |-> FALSE, raised |-> FALSE]
  BY DEF C!Ends, C!Result, C!Nothing
<1>3. read = Slice(c_sent[t], a, d)
  OBVIOUS
<1> HIDE DEF a
<1>4. a + Len(read) = d
  BY <1>1
<1>5. c_last' \in C!Call
  <2>1. << >> \in Seq(Bytes)
    BY EmptySeq
  <2> QED BY <1>1, <1>2, <2>1 DEF C!Call
<1>6. C!TypeOK'
  BY <1>1, <1>2, <1>5, IdleShell DEF ShellInv, C!TypeOK, StreamsTyped
<1>7. ShellLast'
  BY <1>1, <1>2, <1>3, <1>4 DEF ShellLast, C!Matches
<1>8. ShellReads' /\ ShellExecs'
  <2>1. remote.early => remote.told
    BY DEF ShellInv, ShellExecs
  <2> QED BY <1>1, <1>2, <2>1, IdleShell DEF ShellReads, ShellExecs, C!Streams
<1> QED BY <1>6, <1>7, <1>8 DEF ShellInv

\* read and read_until.
LEMMA ShellReader ==
  ASSUME ShellInv, Pattern # << >>, C!FinishRead \/ C!ReadChunk
  PROVE  ShellInv'
<1> USE DEF ShellInv
<1>1. PICK t \in C!Streams : t = c_thread.stream
  BY DEF C!TypeOK, C!Thread
<1>2. PICK d : d = C!Consumed(t)'
  OBVIOUS
<1> DEFINE n == c_thread.n
           chunk == C!Chunk(t, n)
           full == c_thread.buf \o chunk
<1>3. /\ c_thread.at \in {"read", "read_until"} /\ C!Take(t, n)
      /\ UNCHANGED <<remote, c_link, c_sent, c_calls>>
      /\ c_thread \in C!Thread /\ c_last \in C!Call
  BY <1>1 DEF C!FinishRead, C!ReadChunk, C!TypeOK
<1>4. /\ StreamsTyped' /\ c_thread.from \in Nat /\ d \in Nat /\ c_thread.from <= d
      /\ chunk \in Seq(Bytes)
      /\ c_thread.at = "read" => chunk = Slice(c_sent[t], c_thread.from, d)
      /\ c_thread.at = "read_until" => full = Slice(c_sent[t], c_thread.from, d)
      /\ Slice(c_sent[t], c_thread.from, d) \in Seq(Bytes) /\ remote.running
  BY <1>1, <1>2, <1>3, ShellTook
<1>5. CASE C!FinishRead
  <2>1. c_thread.at = "read" /\ C!Ends(C!Result(chunk, FALSE))
    BY <1>1, <1>5 DEF C!FinishRead
  <2> HIDE DEF chunk
  <2> QED BY <1>1, <1>2, <1>3, <1>4, <2>1, ShellReturns
<1>6. CASE C!ReadChunk
  <2>1. /\ c_thread.at = "read_until"
        /\ \/ C!Fails("read_until")
           \/ C!Matches(full) /\ C!Ends(C!Result(full, TRUE))
           \/ /\ chunk = << >> \/ ~C!Matches(full)
              /\ c_thread' = [c_thread EXCEPT !.step = "check", !.buf = full]
              /\ c_last' = c_last
    BY <1>1, <1>6 DEF C!ReadChunk, C!Searched, C!Again
  <2>2. full = Slice(c_sent[t], c_thread.from, d) /\ full \in Seq(Bytes)
    BY <1>4, <2>1
  <2>3. CASE C!Fails("read_until")
    <3>1. c_last' \in C!Call /\ c_last'.raised /\ c_thread' = C!Idle
      BY <2>3, CallFailed
    <3>2. C!TypeOK'
      BY <1>3, <1>4, <3>1, IdleShell DEF C!TypeOK, StreamsTyped
    <3> QED BY <1>3, <1>4, <3>1, <3>2, IdleShell DEF ShellLast, ShellReads, ShellExecs, C!Streams
  <2>4. CASE C!Matches(full) /\ C!Ends(C!Result(full, TRUE))
    <3> HIDE DEF full
    <3> QED BY <1>1, <1>2, <1>3, <2>2, <2>4, ShellReturns
  <2>5. CASE /\ chunk = << >> \/ ~C!Matches(full)
             /\ c_thread' = [c_thread EXCEPT !.step = "check", !.buf = full]
             /\ c_last' = c_last
    <3>1. ~C!Matches(full)
      <4>1. CASE chunk = << >>
        <5>1. full = c_thread.buf
          BY <1>3, <4>1, ConcatEmptySeq DEF C!Thread
        <5> QED BY <2>1, <5>1 DEF ShellReads
      <4> QED BY <2>5, <4>1
    <3> HIDE DEF full, chunk
    <3>2. /\ c_thread' \in C!Thread /\ c_thread'.at = "read_until" /\ c_thread'.n = n
          /\ c_thread'.stream = t /\ c_thread'.from = c_thread.from /\ c_thread'.buf = full
      BY <1>1, <1>3, <2>1, <2>2, <2>5 DEF C!Thread
    <3>3. C!TypeOK'
      BY <1>3, <1>4, <2>5, <3>2 DEF C!TypeOK, StreamsTyped
    <3>4. ShellLast'
      BY <1>3, <2>5 DEF ShellLast, C!Matches
    <3>5. ShellReads'
      <4>1. n \in Chunks
        BY <2>1 DEF ShellReads
      <4>3. c_thread'.from <= C!Consumed(t)' /\ full = Slice(c_sent'[t], c_thread'.from, C!Consumed(t)')
        BY <1>2, <1>3, <1>4, <2>2, <3>2
      <4> QED BY <3>1, <3>2, <4>1, <4>3 DEF ShellReads, C!Consumed, C!Matches
    <3>6. ShellExecs'
      BY <1>3, <1>4, <3>2 DEF ShellExecs, C!Streams
    <3> QED BY <3>3, <3>4, <3>5, <3>6
  <2> QED BY <2>1, <2>3, <2>4, <2>5
<1> QED BY <1>5, <1>6

\* exec reads one stream after the other, until nothing is left.
LEMMA ShellDrains ==
  ASSUME ShellInv, C!Drain
  PROVE  ShellInv'
<1> USE DEF ShellInv
<1>1. PICK t \in C!Streams : t = c_thread.at
  BY DEF C!Drain
<1> DEFINE n == c_thread.n
           chunk == C!Chunk(t, n)
           full == c_thread.buf \o chunk
<1>2. /\ C!Take(t, n) /\ UNCHANGED <<remote, c_link, c_sent, c_calls>>
      /\ \/ chunk # << >> /\ c_thread' = [c_thread EXCEPT !.buf = full] /\ c_last' = c_last
         \/ /\ chunk = << >> /\ t = "stdout" /\ c_last' = c_last
            /\ c_thread' = [c_thread EXCEPT !.at = "stderr", !.buf = << >>, !.out = full]
         \/ /\ chunk = << >> /\ t = "stderr"
            /\ C!Ends([C!Nothing EXCEPT !.by = "exec", !.read = c_thread.out, !.err = full,
                                       !.code = IF remote.told THEN remote.code ELSE 0,
                                       !.told = remote.told])
  BY <1>1 DEF C!Drain, C!Drained
<1>3. /\ StreamsTyped /\ c_thread \in C!Thread /\ c_last \in C!Call
      /\ c_thread.buf \in Seq(Bytes) /\ c_thread.out \in Seq(Bytes) /\ n \in Nat
      /\ remote.eof /\ remote.running /\ t \in {"stdout", "stderr"} /\ n \in Chunks
  BY <1>1, StreamsOfType DEF C!TypeOK, C!Thread, ShellExecs, C!Streams, ShellReads
<1>4. n > 0
  BY <1>3, ShellAssumption DEF C!ConstantsOK
<1>5. /\ StreamsTyped' /\ chunk \o c_input'[t] = c_input[t]
      /\ \A u \in C!Streams \ {t} : c_input'[u] = c_input[u]
  BY <1>2, <1>3, ChunkLeaves
<1>6. chunk \in Seq(Bytes) /\ (chunk = << >> => c_input[t] = << >>)
  BY <1>3, <1>4, ChunkTaken
<1>7. c_input'[t] \in Seq(Bytes) /\ c_input[t] \in Seq(Bytes)
  BY <1>3, <1>5 DEF StreamsTyped
<1>8. full \in Seq(Bytes)
  BY <1>3, <1>6, ConcatProperties
<1>9. /\ c_thread.buf \o c_input[t] = c_sent[t]
      /\ t = "stdout" => c_input["stderr"] = c_sent["stderr"]
      /\ t = "stderr" => c_thread.out = c_sent["stdout"]
  BY <1>1, <1>3 DEF ShellExecs
<1>10. full \o c_input'[t] = c_sent[t]
  <2> DEFINE x == c_thread.buf
             y == chunk
             z == c_input'[t]
  <2>1. x \in Seq(Bytes) /\ y \in Seq(Bytes) /\ z \in Seq(Bytes)
    BY <1>3, <1>6, <1>7
  <2>2. y \o z = c_input[t] /\ x \o c_input[t] = c_sent[t] /\ full = x \o y
    BY <1>5, <1>9
  <2> HIDE DEF x, y, z, full
  <2>3. (x \o y) \o z = x \o (y \o z)
    BY <2>1, ConcatAssociative
  <2> QED BY <2>2, <2>3 DEF z
<1>11. chunk = << >> => full = c_sent[t]
  <2> SUFFICES ASSUME chunk = << >> PROVE full = c_sent[t]
    OBVIOUS
  <2>1. full = c_thread.buf
    BY <1>3, ConcatEmptySeq
  <2>2. c_thread.buf \o c_input[t] = c_thread.buf
    BY <1>3, <1>6, ConcatEmptySeq
  <2> QED BY <1>9, <2>1, <2>2
<1> HIDE DEF full, chunk
<1>12. t = "stdout" => c_input'["stderr"] = c_sent'["stderr"]
  BY <1>2, <1>5, <1>9 DEF C!Streams
<1>13. CASE c_thread' = [c_thread EXCEPT !.buf = full] /\ c_last' = c_last
  <2>1. /\ c_thread' \in C!Thread /\ c_thread'.at = t /\ c_thread'.n = n
        /\ c_thread'.buf = full /\ c_thread'.out = c_thread.out
    BY <1>1, <1>3, <1>8, <1>13 DEF C!Thread
  <2>2. C!TypeOK'
    BY <1>2, <1>5, <1>13, <2>1 DEF C!TypeOK, StreamsTyped
  <2>3. ShellLast' /\ ShellReads'
    BY <1>2, <1>3, <1>13, <2>1 DEF ShellLast, ShellReads, C!Matches
  <2>4. ShellExecs'
    BY <1>2, <1>3, <1>9, <1>10, <1>12, <2>1 DEF ShellExecs
  <2> QED BY <2>2, <2>3, <2>4
<1>14. CASE /\ chunk = << >> /\ t = "stdout" /\ c_last' = c_last
            /\ c_thread' = [c_thread EXCEPT !.at = "stderr", !.buf = << >>, !.out = full]
  <2>1. /\ c_thread' \in C!Thread /\ c_thread'.at = "stderr" /\ c_thread'.n = n
        /\ c_thread'.buf = << >> /\ c_thread'.out = full
    BY <1>3, <1>8, <1>14, EmptySeq DEF C!Thread, C!Streams
  <2>2. C!TypeOK'
    BY <1>2, <1>5, <1>14, <2>1 DEF C!TypeOK, StreamsTyped
  <2>3. ShellLast' /\ ShellReads'
    BY <1>2, <1>3, <1>14, <2>1 DEF ShellLast, ShellReads, C!Matches
  <2>4. << >> \o c_input'["stderr"] = c_input'["stderr"]
    BY <1>5, ConcatEmptySeq DEF StreamsTyped, C!Streams
  <2>5. ShellExecs'
    BY <1>2, <1>3, <1>11, <1>12, <1>14, <2>1, <2>4 DEF ShellExecs
  <2> QED BY <2>2, <2>3, <2>5
<1>15. CASE /\ chunk = << >> /\ t = "stderr"
            /\ C!Ends([C!Nothing EXCEPT !.by = "exec", !.read = c_thread.out, !.err = full,
                                       !.code = IF remote.told THEN remote.code ELSE 0,
                                       !.told = remote.told])
  <2> DEFINE code == IF remote.told THEN remote.code ELSE 0
  <2>1. /\ code \in {0, 1} /\ code = IF remote.told THEN remote.code ELSE 0
        /\ remote.told \in BOOLEAN /\ (remote.early => remote.told)
    BY DEF C!TypeOK, ShellExecs
  <2>2. /\ c_thread' = C!Idle
        /\ c_last' = [by |-> "exec", stream |-> "stdout", from |-> 0, read |-> c_thread.out,
                      err |-> full, found |-> FALSE, code |-> code, told |-> remote.told, raised |-> FALSE]
    BY <1>15 DEF C!Ends, C!Nothing
  <2> HIDE DEF code
  <2>3. c_last' \in C!Call
    BY <1>3, <1>8, <2>1, <2>2 DEF C!Call, C!Streams
  <2>4. C!TypeOK'
    BY <1>2, <1>5, <2>2, <2>3, IdleShell DEF C!TypeOK, StreamsTyped
  <2>5. c_last'.read = c_sent'["stdout"] /\ c_last'.err = c_sent'["stderr"]
    BY <1>2, <1>9, <1>11, <1>15, <2>2
  <2>6. ShellLast'
    BY <1>2, <1>3, <2>1, <2>2, <2>5 DEF ShellLast
  <2>7. ShellReads' /\ ShellExecs'
    BY <1>2, <1>3, <2>2, IdleShell DEF ShellReads, ShellExecs, C!Streams
  <2> QED BY <2>4, <2>6, <2>7
<1> QED BY <1>2, <1>13, <1>14, <1>15

LEMMA ShellStep ==
  ASSUME ShellInv, Pattern # << >>, [C!Next]_(C!vars) PROVE ShellInv'
<1>1. CASE UNCHANGED C!vars
  <2>1. \A s \in C!Streams : C!Consumed(s)' = C!Consumed(s)
    BY <1>1 DEF C!vars, C!Consumed
  <2>2. C!TypeOK'
    BY <1>1, <2>1 DEF ShellInv, C!vars, C!TypeOK, C!Unread
  <2>3. ShellLast' /\ ShellExecs'
    BY <1>1 DEF ShellInv, C!vars, ShellLast, ShellExecs, C!Matches, C!Streams
  <2>4. ShellReads'
    BY <1>1 DEF ShellInv, C!vars, ShellReads, C!Consumed, C!Matches
  <2> QED BY <2>2, <2>3, <2>4 DEF ShellInv
<1>2. CASE C!Test
  BY <1>2, ShellStarts
<1>3. CASE C!Working
  BY <1>3, ShellReader, ShellChecks, ShellGivenUp, ShellDrains DEF C!Working
<1>4. CASE C!Server
  BY <1>4, ShellArrives, ShellQuiet DEF C!Server
<1> QED BY <1>1, <1>2, <1>3, <1>4, ShellQuiet DEF C!Next

LEMMA ShellInvariant ==
  ASSUME Pattern # << >> PROVE C!Spec => []ShellInv
<1>1. C!Init => ShellInv BY ShellInit
<1>2. ShellInv /\ [C!Next]_(C!vars) => ShellInv' BY ShellStep
<1> QED BY <1>1, <1>2, PTL DEF C!Spec

LEMMA ShellHonest == ShellInv => C!StreamsHonest
BY DEF ShellInv, ShellLast, C!StreamsHonest, Slice

\* A behaviour of the devices is one of Shell, where the others stand still.
LEMMA ShellAlone == Devices => C!Spec
<1>1. Begin => C!Init
  BY DEF Begin
<1>2. ASSUME [Advance]_all PROVE [C!Next]_(C!vars)
  BY <1>2 DEF Advance, all, cVars, C!vars, Alone
<1> QED BY <1>1, <1>2, PTL DEF Devices, C!Spec

\* Type correctness of the streams of a channel (the buffers of libssh2 and the
\* loops of ltf-ssh-channel.c and lib/ltf/ssh): what a call has in hand is of
\* its kind, and what libssh2 holds and the test has not is the end of what
\* arrived.
THEOREM ShellTypeCorrect == ASSUME Pattern # << >> PROVE Devices => []C!TypeOK
<1>1. ShellInv => C!TypeOK
  BY DEF ShellInv
<1> QED BY <1>1, ShellAlone, ShellInvariant, PTL

\* What read and read_until return is what arrived on the stream since they began,
\* in order and with nothing missing, and found exactly if the pattern is in it;
\* an exec that returns has all of both streams, and the exit code if the server
\* told it before it ended the streams or by the time exec asks, 0 otherwise
\* (shell_channel.lua, exec_channel.lua), for every order in which data, the end
\* of the streams and the code arrive.
THEOREM StreamsStayHonest == ASSUME Pattern # << >> PROVE Devices => []StreamsHonest
<1>1. ShellInv => StreamsHonest
  BY ShellHonest DEF StreamsHonest
<1> QED BY <1>1, ShellAlone, ShellInvariant, PTL

=============================================================================
