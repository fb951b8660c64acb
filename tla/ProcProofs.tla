----------------------------- MODULE ProcProofs -----------------------------
(***************************************************************************)
(* Proofs about Proc, for every number of processes and descriptors and    *)
(* every size of a pipe: which descriptors a handle holds and closes, that *)
(* a pid is only used while it is that of the handle's own child, and that *)
(* a run returns everything its process wrote.                             *)
(***************************************************************************)
EXTENDS Proc, FiniteSetTheorems, WellFoundedInduction, TLAPS

-----------------------------------------------------------------------------
(* The numbers that pipe() gets.                                           *)

\* A set of numbers that is not empty has a least one.
LEMMA Least ==
  ASSUME NEW T \in SUBSET Nat, T # {}
  PROVE  \E x \in T : \A y \in T : x <= y
<1>1. PICK x \in T : \A y \in T : <<y, x>> \notin OpToRel(<, Nat)
  BY NatLessThanWellFounded, WFMin
<1>2. ASSUME NEW y \in T PROVE x <= y
  <2>1. ~(y < x)
    BY <1>1 DEF OpToRel
  <2> QED BY <2>1
<1> QED BY <1>2

Below(F, n) == {m \in F : m < n}

LEMMA BelowFinite ==
  ASSUME NEW F \in SUBSET Nat, IsFiniteSet(F), NEW n \in F
  PROVE  IsFiniteSet(Below(F, n)) /\ Cardinality(Below(F, n)) \in Nat
<1>1. IsFiniteSet(Below(F, n))
  BY FS_Subset DEF Below
<1> QED BY <1>1, FS_CardinalityType

\* After the element with j smaller ones comes one with j + 1, if there is any.
LEMMA NextNumber ==
  ASSUME NEW F \in SUBSET Nat, IsFiniteSet(F), NEW n \in F,
         Cardinality(Below(F, n)) + 1 < Cardinality(F)
  PROVE  \E m \in F : Cardinality(Below(F, m)) = Cardinality(Below(F, n)) + 1
<1> DEFINE B == Below(F, n)
           A == {m \in F : m > n}
<1>0. n \in Nat /\ \A y \in F : y \in Nat
  OBVIOUS
<1>1. IsFiniteSet(B) /\ n \notin B
  BY <1>0, BelowFinite DEF Below
<1>2. Cardinality(B \cup {n}) = Cardinality(B) + 1
  BY <1>1, FS_AddElement
<1>3. A # {}
  <2> SUFFICES ASSUME A = {} PROVE FALSE
    OBVIOUS
  <2>1. \A y \in F : y < n \/ y = n
    BY <1>0
  <2>2. F = B \cup {n}
    BY <2>1 DEF Below
  <2>3. Cardinality(F) = Cardinality(B) + 1 /\ Cardinality(B) \in Nat
    BY <1>2, <2>2, BelowFinite
  <2> QED BY <2>3
<1>4. PICK m \in A : \A y \in A : m <= y
  BY <1>3, Least
<1>5. \A y \in F : y < m <=> (y < n \/ y = n)
  <2> SUFFICES ASSUME NEW y \in F PROVE y < m <=> (y < n \/ y = n)
    OBVIOUS
  <2>1. y \in Nat /\ m \in Nat /\ m > n /\ (y > n => m <= y)
    BY <1>0, <1>4
  <2> QED BY <1>0, <2>1
<1>6. Below(F, m) = B \cup {n}
  BY <1>5 DEF Below
<1> QED BY <1>2, <1>4, <1>6

\* A finite set of numbers has an element with j smaller ones, for every j less
\* than its cardinality.
LEMMA NthNumber ==
  ASSUME NEW F \in SUBSET Nat, IsFiniteSet(F), NEW j \in Nat, j < Cardinality(F)
  PROVE  \E n \in F : Cardinality(Below(F, n)) = j
<1> DEFINE Missing == {i \in Nat : /\ i < Cardinality(F)
                                   /\ \A n \in F : Cardinality(Below(F, n)) # i}
<1>0. Cardinality(F) \in Nat
  BY FS_CardinalityType
<1> SUFFICES ASSUME Missing # {} PROVE FALSE
  OBVIOUS
<1>1. PICK i \in Missing : \A y \in Missing : i <= y
  BY Least
<1>2. CASE i = 0
  <2>1. F # {}
    BY <1>0, <1>1, <1>2, FS_EmptySet
  <2>2. PICK n \in F : \A y \in F : n <= y
    BY <2>1, Least
  <2>3. \A y \in F : ~(y < n)
    <3>1. \A y \in F : y \in Nat
      OBVIOUS
    <3> QED BY <2>2, <3>1
  <2>4. Below(F, n) = {}
    BY <2>3 DEF Below
  <2> QED BY <1>1, <1>2, <2>4, FS_EmptySet
<1>3. CASE i # 0
  <2>1. i - 1 \in Nat /\ i - 1 < Cardinality(F) /\ i - 1 \notin Missing
    BY <1>0, <1>1, <1>3
  <2>2. PICK n \in F : Cardinality(Below(F, n)) = i - 1
    BY <2>1
  <2>3. \E m \in F : Cardinality(Below(F, m)) = (i - 1) + 1
    BY <1>0, <1>1, <2>2, NextNumber
  <2> QED BY <1>1, <2>3
<1> QED BY <1>2, <1>3

\* With six descriptors free the three calls of pipe() get six different ones.
LEMMA NextFdFree ==
  ASSUME Cardinality(FreeFds) >= 6
  PROVE  /\ \A k \in 1 .. 6 : NextFd(k) \in FreeFds
         /\ \A k, l \in 1 .. 6 : k # l => NextFd(k) # NextFd(l)
<1>1. FreeFds \in SUBSET Nat /\ IsFiniteSet(FreeFds)
  <2>1. Fds \in SUBSET Nat /\ IsFiniteSet(Fds)
    BY FdLimitAssumption, FS_Interval DEF Fds
  <2> QED BY <2>1, FS_Subset DEF FreeFds
<1>2. ASSUME NEW k \in 1 .. 6
      PROVE  /\ NextFd(k) \in FreeFds
             /\ Cardinality(Below(FreeFds, NextFd(k))) = k - 1
  <2>1. k - 1 \in Nat /\ k - 1 < Cardinality(FreeFds)
    BY <1>1, FS_CardinalityType
  <2>2. \E n \in FreeFds : Cardinality(Below(FreeFds, n)) = k - 1
    BY <1>1, <2>1, NthNumber
  <2> QED BY <2>2 DEF NextFd, Below
<1>3. \A k, l \in 1 .. 6 : k # l => NextFd(k) # NextFd(l)
  BY <1>2
<1> QED BY <1>2, <1>3

-----------------------------------------------------------------------------
(* Types, and what a call under way has in hand.                           *)

ThreadOK ==
  /\ thread.at \in {"write", "read", "run"} =>
       thread.proc \in Procs /\ handle[thread.proc].opened
  /\ thread.at = "read" => /\ thread.stream \in Outputs \cap handle[thread.proc].files
                           /\ runs[thread.proc] = "none"
  /\ thread.at = "run" => /\ runs[thread.proc] \in {"waiting", "timed"}
                          /\ thread.step # "call"
                          /\ "stderr" \in handle[thread.proc].files
                          /\ thread.step \in {"wait", "stdout"} =>
                               "stdout" \in handle[thread.proc].files
                          /\ thread.step \in Outputs => thread.stream = thread.step

TypeInv == TypeOK /\ ThreadOK

LEMMA TypeInit == Init => TypeInv
<1> SUFFICES ASSUME Init PROVE TypeInv
  OBVIOUS
<1>1. fds \in [Fds -> End]
  BY DEF Init, End, Own, Free
<1>2. handle \in [Procs -> Handle]
  <2>1. <<0, 0>> \in Fds \X Fds
    BY FdLimitAssumption DEF Fds
  <2>2. [opened |-> FALSE, pid |-> FALSE, files |-> {},
         fd |-> [s \in Streams |-> <<0, 0>>], killed |-> FALSE] \in Handle
    BY <2>1 DEF Handle
  <2> QED BY <2>2 DEF Init
<1>3. child \in [Procs -> Child]
  BY DEF Init, Child
<1>4. pipe \in [Procs -> [Streams -> 0 .. PipeSize]]
  BY SizesAssumption DEF Init
<1>5. thread \in Thread
  BY AmountAssumption DEF Init, Idle, Thread, Streams
<1>6. calls \in 0 .. MaxCalls
  BY CallsAssumption DEF Init
<1>7. overlap \in BOOLEAN
  BY DEF Init
<1>8. runs \in [Procs -> Run] /\ got \in [Procs -> [Outputs -> Nat]]
  BY DEF Init, Run
<1>9. ThreadOK
  BY DEF Init, Idle, ThreadOK
<1> QED BY <1>1, <1>2, <1>3, <1>4, <1>5, <1>6, <1>8, <1>9, <1>7 DEF TypeInv, TypeOK

LEMMA CalledType ==
  ASSUME TypeOK, Called
  PROVE  calls' \in 0 .. MaxCalls
  BY CallsAssumption DEF TypeOK, Called

LEMMA IdleType == Idle \in Thread
  BY AmountAssumption DEF Idle, Thread, Streams

LEMMA ClosedType ==
  ASSUME TypeOK, NEW ns, fds' = Closed(ns)
  PROVE  fds' \in [Fds -> End]
  BY DEF TypeOK, Closed, End, Free

\* What a spawn that succeeds leaves.
LEMMA SpawnedFacts ==
  ASSUME TypeOK, NEW p \in Procs, Spawned(p)
  PROVE  /\ handle' \in [Procs -> Handle] /\ \A q \in Procs : q # p => handle'[q] = handle[q]
         /\ handle'[p].opened /\ handle'[p].pid /\ ~handle'[p].killed
         /\ handle'[p].files = Streams
         /\ \A n \in Numbers(handle'[p]) : n \in Fds /\ fds[n] = Free
         /\ \A s \in Streams : /\ fds'[handle'[p].fd[s][1]] = [proc |-> p, stream |-> s]
                               /\ fds'[handle'[p].fd[s][2]] = Free
         /\ fds' \in [Fds -> End]
         /\ \A n \in Fds : \/ fds'[n] = fds[n]
                           \/ \E s \in Streams : n = handle'[p].fd[s][1]
         /\ child' \in [Procs -> Child] /\ \A q \in Procs : q # p => child'[q] = child[q]
         /\ child'[p].state = "running"
<1> DEFINE h == [opened |-> TRUE, pid |-> TRUE, files |-> Streams,
                 fd |-> [stdin  |-> <<NextFd(2), NextFd(1)>>,
                         stdout |-> <<NextFd(3), NextFd(4)>>,
                         stderr |-> <<NextFd(5), NextFd(6)>>],
                 killed |-> FALSE]
<1>1. /\ \A k \in 1 .. 6 : NextFd(k) \in Fds /\ fds[NextFd(k)] = Free
      /\ \A k, l \in 1 .. 6 : k # l => NextFd(k) # NextFd(l)
  BY NextFdFree DEF Spawned, FreeFds
<1>2. handle' = [handle EXCEPT ![p] = h]
  BY DEF Spawned
<1>3. /\ h.fd["stdin"] = <<NextFd(2), NextFd(1)>>
      /\ h.fd["stdout"] = <<NextFd(3), NextFd(4)>>
      /\ h.fd["stderr"] = <<NextFd(5), NextFd(6)>>
      /\ h.fd = [s \in Streams |-> h.fd[s]]
  BY DEF Streams
<1>4. /\ h.opened /\ h.pid /\ ~h.killed /\ h.files = Streams
      /\ h = [opened |-> TRUE, pid |-> TRUE, files |-> Streams, fd |-> h.fd, killed |-> FALSE]
  OBVIOUS
<1> HIDE DEF h
<1>5. \A s \in Streams : h.fd[s] \in Fds \X Fds
  BY <1>1, <1>3 DEF Streams
<1>6. h \in Handle
  <2>1. h.fd \in [Streams -> Fds \X Fds]
    <3> DEFINE f == h.fd
    <3>1. f = [s \in Streams |-> f[s]] /\ \A s \in Streams : f[s] \in Fds \X Fds
      BY <1>3, <1>5
    <3> HIDE DEF f
    <3>2. f \in [Streams -> Fds \X Fds]
      BY <3>1
    <3> QED BY <3>2 DEF f
  <2>2. \A f \in [Streams -> Fds \X Fds] :
          [opened |-> TRUE, pid |-> TRUE, files |-> Streams, fd |-> f, killed |-> FALSE] \in Handle
    BY DEF Handle
  <2> QED BY <1>4, <2>1, <2>2
<1>7. handle'[p] = h /\ handle' \in [Procs -> Handle]
      /\ \A q \in Procs : q # p => handle'[q] = handle[q]
  BY <1>2, <1>6 DEF TypeOK
<1>8. /\ \A s \in Streams : \A e \in {1, 2} : h.fd[s][e] \in Fds /\ fds[h.fd[s][e]] = Free
      /\ \A s, t \in Streams : s # t => h.fd[s][1] # h.fd[t][1]
      /\ \A s, t \in Streams : h.fd[s][1] # h.fd[t][2]
  BY <1>1, <1>3 DEF Streams
<1>9. fds' = [n \in Fds |->
       IF \E s \in Streams : n = h.fd[s][1]
       THEN [proc |-> p, stream |-> CHOOSE s \in Streams : n = h.fd[s][1]]
       ELSE fds[n]]
  BY <1>7 DEF Spawned
<1>10. ASSUME NEW s \in Streams
       PROVE  fds'[h.fd[s][1]] = [proc |-> p, stream |-> s] /\ fds'[h.fd[s][2]] = Free
  <2>1. (CHOOSE t \in Streams : h.fd[s][1] = h.fd[t][1]) = s
    BY <1>8
  <2> QED BY <1>8, <1>9, <2>1
<1>11. /\ fds' \in [Fds -> End]
       /\ \A n \in Fds : fds'[n] = fds[n] \/ \E s \in Streams : n = h.fd[s][1]
  <2>1. ASSUME NEW n \in Fds PROVE fds'[n] \in End
    <3>1. CASE \E s \in Streams : n = h.fd[s][1]
      <4>1. PICK s \in Streams : n = h.fd[s][1]
        BY <3>1
      <4>2. fds'[n] = [proc |-> p, stream |-> s]
        BY <1>10, <4>1
      <4> QED BY <4>2 DEF End
    <3>2. CASE ~ \E s \in Streams : n = h.fd[s][1]
      BY <1>9, <3>2 DEF TypeOK
    <3> QED BY <3>1, <3>2
  <2> QED BY <1>9, <2>1
<1>12. \A n \in Numbers(h) : n \in Fds /\ fds[n] = Free
  BY <1>8 DEF Numbers
<1>13. PICK c \in Child : child' = [child EXCEPT ![p] = c] /\ c.state = "running"
  <2>1. PICK output \in [Outputs -> 0 .. MaxOutput], input \in 0 .. MaxInput :
          child' = [child EXCEPT ![p].state = "running",
                                 ![p].output = output, ![p].input = input]
    BY DEF Spawned
  <2>2. output \in [Outputs -> Nat] /\ input \in Nat
    BY SizesAssumption
  <2>3. child[p] \in Child
    BY DEF TypeOK
  <2> DEFINE c == [child[p] EXCEPT !.state = "running", !.output = output, !.input = input]
  <2>4. c \in Child /\ c.state = "running"
    BY <2>2, <2>3 DEF Child
  <2> QED BY <2>1, <2>4
<1>14. /\ child' \in [Procs -> Child] /\ child'[p].state = "running"
       /\ \A q \in Procs : q # p => child'[q] = child[q]
  BY <1>13 DEF TypeOK
<1> QED BY <1>4, <1>7, <1>10, <1>11, <1>12, <1>14

\* What of the handles and processes matters to the descriptors.
SameHandle(q) == /\ handle'[q].opened = handle[q].opened /\ handle'[q].files = handle[q].files
                 /\ handle'[q].fd = handle[q].fd /\ handle'[q].killed = handle[q].killed
SameAge(q)    == child'[q].state = "none" <=> child[q].state = "none"

LEMMA ReapFacts ==
  ASSUME TypeOK, PidOwned, NEW p \in Procs, Reap(p)
  PROVE  /\ handle' \in [Procs -> Handle] /\ child' \in [Procs -> Child]
         /\ \A q \in Procs : SameHandle(q) /\ SameAge(q)
         /\ PidOwned'
<1>1. CASE handle[p].pid /\ child[p].state = "exited"
  <2>1. /\ child' = [child EXCEPT ![p].state = "reaped"]
        /\ handle' = [handle EXCEPT ![p].pid = FALSE]
    BY <1>1 DEF Reap
  <2>2. handle' \in [Procs -> Handle]
    BY <2>1, ZenonT(40) DEF TypeOK, Handle
  <2>3. child' \in [Procs -> Child]
    BY <2>1, ZenonT(40) DEF TypeOK, Child
  <2>4. \A q \in Procs : SameHandle(q)
    BY <2>1 DEF TypeOK, Handle, SameHandle
  <2>5. \A q \in Procs : SameAge(q)
    BY <1>1, <2>1 DEF TypeOK, Child, SameAge
  <2>6. ~handle'[p].pid /\ \A q \in Procs : q # p => handle'[q] = handle[q] /\ child'[q] = child[q]
    BY <2>1 DEF TypeOK, Handle
  <2> QED BY <2>3, <2>4, <2>5, <2>6, <2>2 DEF PidOwned
<1>2. CASE ~(handle[p].pid /\ child[p].state = "exited")
  <2>1. child' = child /\ handle' = handle
    BY <1>2 DEF Reap
  <2> QED BY <2>1 DEF TypeOK, SameHandle, SameAge, PidOwned
<1> QED BY <1>1, <1>2

LEMMA KillFacts ==
  ASSUME TypeOK, PidOwned, NEW p \in Procs, KillProc(p)
  PROVE  /\ handle' \in [Procs -> Handle] /\ child' \in [Procs -> Child]
         /\ \A q \in Procs : SameAge(q) /\ (q # p => handle'[q] = handle[q])
         /\ handle'[p].opened = handle[p].opened /\ handle'[p].fd = handle[p].fd
         /\ handle'[p].files = {} /\ handle'[p].killed
         /\ fds' = Closed(Numbers(handle[p]))
         /\ PidOwned'
<1>1. PICK reaped \in BOOLEAN :
        /\ reaped => handle[p].pid
        /\ handle[p].pid /\ child[p].state = "exited" => reaped
        /\ handle' = [handle EXCEPT ![p].files = {}, ![p].killed = TRUE,
                                    ![p].pid = @ /\ ~reaped]
        /\ child' = [child EXCEPT
             ![p].state = IF reaped THEN "reaped" ELSE @,
             ![p].signal = IF handle[p].pid THEN "SIGTERM" ELSE @]
  BY DEF KillProc
<1>2. handle[p] \in Handle /\ child[p] \in Child
  BY DEF TypeOK
<1> DEFINE h == [handle[p] EXCEPT !.files = {}, !.killed = TRUE,
                                  !.pid = handle[p].pid /\ ~reaped]
           c == [child[p] EXCEPT !.state = IF reaped THEN "reaped" ELSE child[p].state,
                                 !.signal = IF handle[p].pid THEN "SIGTERM" ELSE child[p].signal]
<1>3. handle' = [handle EXCEPT ![p] = h] /\ child' = [child EXCEPT ![p] = c]
  BY <1>1
<1>4. /\ h \in Handle /\ h.opened = handle[p].opened /\ h.fd = handle[p].fd
      /\ h.files = {} /\ h.killed
  BY <1>2 DEF Handle
<1>5. h.pid <=> (handle[p].pid /\ ~reaped)
  BY <1>2 DEF Handle
<1>6. c \in Child /\ c.state = IF reaped THEN "reaped" ELSE child[p].state
  BY <1>2 DEF Child
<1> HIDE DEF h, c
<1>7. /\ handle' \in [Procs -> Handle] /\ child' \in [Procs -> Child]
      /\ handle'[p] = h /\ child'[p] = c
      /\ \A q \in Procs : q # p => handle'[q] = handle[q] /\ child'[q] = child[q]
  BY <1>3, <1>4, <1>6 DEF TypeOK
<1>8. fds' = Closed(Numbers(handle[p]))
  BY DEF KillProc
<1>9. PidOwned'
  BY <1>1, <1>5, <1>6, <1>7 DEF PidOwned
<1>10. \A q \in Procs : SameAge(q)
  BY <1>1, <1>6, <1>7 DEF PidOwned, SameAge
<1> QED BY <1>4, <1>7, <1>8, <1>9, <1>10

-----------------------------------------------------------------------------
(* Every step keeps the types, and the pid of a handle its own child's.    *)

TypedInv == TypeInv /\ PidOwned

LEMMA SpawnTyped ==
  ASSUME TypedInv, NEW p \in Procs, Spawn(p)
  PROVE  TypedInv'
<1> USE DEF TypedInv, TypeInv
<1>1. /\ UNCHANGED <<pipe, thread, got, runs>> /\ thread.at = "test" /\ Spawned(p)
      /\ overlap' \in BOOLEAN
  BY DEF Spawn, Called, Opens
<1>2. calls' \in 0 .. MaxCalls
  BY CalledType DEF Spawn
<1>3. TypeOK'
  BY <1>1, <1>2, SpawnedFacts DEF TypeOK
<1>4. ThreadOK'
  BY <1>1 DEF ThreadOK
<1>5. PidOwned'
  BY <1>1, SpawnedFacts DEF PidOwned
<1> QED BY <1>3, <1>4, <1>5

LEMMA StartRunTyped ==
  ASSUME TypedInv, NEW p \in Procs, StartRun(p)
  PROVE  TypedInv'
<1> USE DEF TypedInv, TypeInv
<1>1. /\ UNCHANGED <<pipe, got>> /\ Spawned(p)
      /\ overlap' \in BOOLEAN
  BY DEF StartRun, Opens
<1>2. calls' \in 0 .. MaxCalls
  BY CalledType DEF StartRun
<1>3. /\ thread' \in Thread /\ thread'.at = "run" /\ thread'.proc = p /\ thread'.step = "wait"
  <2>1. thread' = [Idle EXCEPT !.at = "run", !.proc = p, !.step = "wait"]
    BY DEF StartRun
  <2>2. p \in 0 .. Amount
    BY AmountAssumption DEF Procs
  <2> QED BY <2>1, <2>2, IdleType DEF Thread
<1>4. runs' \in [Procs -> Run] /\ runs'[p] \in {"waiting", "timed"}
  BY DEF StartRun, TypeOK, Run
<1>5. TypeOK'
  BY <1>1, <1>2, <1>3, <1>4, SpawnedFacts DEF TypeOK
<1>6. ThreadOK'
  <2>1. handle'[p].opened /\ handle'[p].files = Streams
    BY <1>1, SpawnedFacts
  <2> QED BY <1>3, <1>4, <2>1 DEF ThreadOK, Streams, Outputs
<1>7. PidOwned'
  BY <1>1, SpawnedFacts DEF PidOwned
<1> QED BY <1>5, <1>6, <1>7

LEMMA SpawnFailsTyped ==
  ASSUME TypedInv, NEW p \in Procs, SpawnFails(p)
  PROVE  TypedInv'
<1> USE DEF TypedInv, TypeInv
<1>1. /\ UNCHANGED <<handle, pipe, thread, got, runs>> /\ thread.at = "test"
      /\ overlap' \in BOOLEAN
  BY DEF SpawnFails, Called, Opens
<1>2. calls' \in 0 .. MaxCalls
  BY CalledType DEF SpawnFails
<1>3. fds' \in [Fds -> End]
  BY ClosedType DEF SpawnFails, TypeOK
<1>4. /\ child' \in [Procs -> Child] /\ child[p].state = "none"
      /\ \A q \in Procs : q # p => child'[q] = child[q]
  BY ZenonT(40) DEF SpawnFails, Fresh, TypeOK, Child
<1>5. TypeOK'
  BY <1>1, <1>2, <1>3, <1>4 DEF TypeOK
<1>6. ThreadOK' /\ PidOwned'
  BY <1>1, <1>4 DEF ThreadOK, PidOwned
<1> QED BY <1>5, <1>6

LEMMA WaitTyped ==
  ASSUME TypedInv, NEW p \in Procs, Wait(p)
  PROVE  TypedInv'
<1> USE DEF TypedInv, TypeInv
<1>1. /\ UNCHANGED <<fds, pipe, thread, got, runs, overlap>> /\ thread.at = "test" /\ Reap(p)
  BY DEF Wait, Called
<1>2. calls' \in 0 .. MaxCalls
  BY CalledType DEF Wait
<1>3. TypeOK' /\ PidOwned'
  BY <1>1, <1>2, ReapFacts DEF TypeOK
<1>4. ThreadOK'
  BY <1>1 DEF ThreadOK
<1> QED BY <1>3, <1>4

LEMMA KillTyped ==
  ASSUME TypedInv, NEW p \in Procs, Kill(p)
  PROVE  TypedInv'
<1> USE DEF TypedInv, TypeInv
<1>1. /\ UNCHANGED <<pipe, thread, got, runs>> /\ thread.at = "test" /\ KillProc(p)
      /\ overlap' \in BOOLEAN
  BY DEF Kill, Called
<1>2. calls' \in 0 .. MaxCalls
  BY CalledType DEF Kill
<1>3. fds' \in [Fds -> End]
  BY <1>1, KillFacts, ClosedType
<1>4. TypeOK' /\ PidOwned'
  BY <1>1, <1>2, <1>3, KillFacts DEF TypeOK
<1>5. ThreadOK'
  BY <1>1 DEF ThreadOK
<1> QED BY <1>4, <1>5

LEMMA StartWriteTyped ==
  ASSUME TypedInv, NEW p \in Procs, StartWrite(p)
  PROVE  TypedInv'
<1> USE DEF TypedInv, TypeInv
<1>1. UNCHANGED <<fds, handle, child, pipe, got, runs, overlap>> /\ handle[p].opened
  BY DEF StartWrite, Held
<1>2. calls' \in 0 .. MaxCalls
  BY CalledType DEF StartWrite
<1>3. \/ thread' = Idle
      \/ thread' \in Thread /\ thread'.at = "write" /\ thread'.proc = p
  <2>1. p \in 0 .. Amount
    BY AmountAssumption DEF Procs
  <2> QED BY <2>1, IdleType DEF StartWrite, Thread
<1>4. TypeOK'
  BY <1>1, <1>2, <1>3, IdleType DEF TypeOK
<1>5. ThreadOK' /\ PidOwned'
  BY <1>1, <1>3 DEF ThreadOK, PidOwned, Idle
<1> QED BY <1>4, <1>5

LEMMA StartReadTyped ==
  ASSUME TypedInv, NEW p \in Procs, NEW s \in Outputs, NEW want \in {1, All},
         StartRead(p, s, want)
  PROVE  TypedInv'
<1> USE DEF TypedInv, TypeInv
<1>1. /\ UNCHANGED <<fds, handle, child, pipe, got, runs, overlap>>
      /\ handle[p].opened /\ s \in handle[p].files /\ runs[p] = "none"
  BY DEF StartRead, Held
<1>2. calls' \in 0 .. MaxCalls
  BY CalledType DEF StartRead
<1>3. thread' \in Thread /\ thread'.at = "read" /\ thread'.proc = p /\ thread'.stream = s
  <2>1. p \in 0 .. Amount /\ want \in Nat /\ All \in Nat /\ s \in Streams
    BY AmountAssumption, SizesAssumption DEF Procs, All, Streams, Outputs
  <2> QED BY <2>1, IdleType DEF StartRead, Thread
<1>4. TypeOK'
  BY <1>1, <1>2, <1>3 DEF TypeOK
<1>5. ThreadOK' /\ PidOwned'
  BY <1>1, <1>3 DEF ThreadOK, PidOwned
<1> QED BY <1>4, <1>5

\* An end of a pipe belongs to a process.
LEMMA EndOfPipe ==
  ASSUME NEW e \in End, e.stream \in Streams
  PROVE  e.proc \in Procs
  BY DEF End, Free, Own, Streams

\* The descriptor a call is on.
LEMMA CurrentEnd ==
  ASSUME TypeInv, thread.at \in {"write", "read", "run"}
  PROVE  At(thread.proc, thread.stream) \in End /\ At(thread.proc, "stdin") \in End
<1>1. thread.proc \in Procs /\ thread.stream \in Streams /\ "stdin" \in Streams
  BY DEF TypeInv, TypeOK, ThreadOK, Thread, Streams
<1>2. \A s \in Streams : handle[thread.proc].fd[s] \in Fds \X Fds
  BY <1>1 DEF TypeInv, TypeOK, Handle
<1>3. \A s \in Streams : handle[thread.proc].fd[s][1] \in Fds
  BY <1>2
<1> QED BY <1>1, <1>3 DEF At, TypeInv, TypeOK

LEMMA PipeType ==
  ASSUME TypeOK, NEW p \in Procs, NEW s \in Streams, NEW n \in 0 .. PipeSize,
         pipe' = [pipe EXCEPT ![p][s] = n]
  PROVE  pipe' \in [Procs -> [Streams -> 0 .. PipeSize]]
<1>1. [pipe[p] EXCEPT ![s] = n] \in [Streams -> 0 .. PipeSize]
  BY DEF TypeOK
<1> QED BY <1>1 DEF TypeOK

LEMMA WriteTyped ==
  ASSUME TypedInv, Write
  PROVE  TypedInv'
<1> USE DEF TypedInv, TypeInv
<1> DEFINE end == At(thread.proc, "stdin")
<1>1. UNCHANGED <<fds, handle, child, got, runs, calls, overlap>>
  BY DEF Write
<1>2. thread' \in {Idle, [Idle EXCEPT !.at = "dead"]}
  BY DEF Write
<1>3. pipe' \in [Procs -> [Streams -> 0 .. PipeSize]]
  <2>1. CASE pipe' = pipe
    BY <2>1 DEF TypeOK
  <2>2. CASE /\ end.stream = "stdin" /\ pipe[end.proc]["stdin"] < PipeSize
             /\ pipe' = [pipe EXCEPT ![end.proc]["stdin"] = pipe[end.proc]["stdin"] + 1]
    <3>1. end.proc \in Procs
      BY <2>2, CurrentEnd, EndOfPipe DEF Write, Streams
    <3>2. pipe[end.proc]["stdin"] + 1 \in 0 .. PipeSize /\ "stdin" \in Streams
      BY <2>2, <3>1, SizesAssumption DEF TypeOK, Streams
    <3> HIDE DEF end
    <3> QED BY <2>2, <3>1, <3>2, PipeType
  <2> QED BY <2>1, <2>2 DEF Write
<1>4. thread' \in Thread /\ thread'.at \in {"test", "dead"}
  BY <1>2, IdleType DEF Thread, Idle
<1>5. TypeOK'
  BY <1>1, <1>3, <1>4 DEF TypeOK
<1>6. ThreadOK' /\ PidOwned'
  BY <1>1, <1>4 DEF ThreadOK, PidOwned
<1> QED BY <1>5, <1>6

LEMMA ReadUnitTyped ==
  ASSUME TypedInv, ReadUnit
  PROVE  TypedInv'
<1> USE DEF TypedInv, TypeInv
<1> DEFINE end == At(thread.proc, thread.stream)
           p   == thread.proc
           s   == thread.stream
<1>1. UNCHANGED <<fds, handle, child, runs, calls, overlap>>
  BY DEF ReadUnit
<1>2. /\ p \in Procs /\ s \in Outputs /\ thread \in Thread
      /\ thread.at \in {"read", "run"} /\ thread.want \in Nat /\ thread.want > 0
  BY DEF ReadUnit, Draining, ThreadOK, TypeOK, Outputs, Thread
<1>3. pipe' \in [Procs -> [Streams -> 0 .. PipeSize]]
  <2>1. end.stream \in Streams
    BY DEF ReadUnit, Outputs, Streams
  <2>2. end.proc \in Procs
    BY <1>2, <2>1, CurrentEnd, EndOfPipe
  <2>3. pipe[end.proc][end.stream] - 1 \in 0 .. PipeSize
    BY <2>1, <2>2, SizesAssumption DEF TypeOK, ReadUnit
  <2>4. pipe' = [pipe EXCEPT ![end.proc][end.stream] = pipe[end.proc][end.stream] - 1]
    BY DEF ReadUnit
  <2> HIDE DEF end
  <2> QED BY <2>1, <2>2, <2>3, <2>4, PipeType
<1>4. got' \in [Procs -> [Outputs -> Nat]]
  <2>1. got[p] \in [Outputs -> Nat]
    BY <1>2 DEF TypeOK
  <2>2. [got[p] EXCEPT ![s] = got[p][s] + 1] \in [Outputs -> Nat]
    BY <1>2, <2>1
  <2>3. got' = [got EXCEPT ![p] = [got[p] EXCEPT ![s] = got[p][s] + 1]]
    BY DEF ReadUnit
  <2> HIDE DEF p, s
  <2> QED BY <1>2, <2>2, <2>3 DEF TypeOK
<1>5. PICK w \in Nat : thread' = [thread EXCEPT !.want = w]
  <2>1. thread' = [thread EXCEPT !.want = IF handle[p].pid THEN thread.want - 1
                                                          ELSE thread.want]
    BY DEF ReadUnit
  <2>2. (IF handle[p].pid THEN thread.want - 1 ELSE thread.want) \in Nat
    BY <1>2
  <2> QED BY <2>1, <2>2
<1>6. /\ thread' \in Thread /\ thread'.at = thread.at /\ thread'.proc = thread.proc
      /\ thread'.stream = thread.stream /\ thread'.step = thread.step
  BY <1>2, <1>5 DEF Thread
<1>7. TypeOK'
  BY <1>1, <1>3, <1>4, <1>6 DEF TypeOK
<1>8. ThreadOK' /\ PidOwned'
  BY <1>1, <1>6 DEF ThreadOK, PidOwned
<1> QED BY <1>7, <1>8

LEMMA DrainFacts ==
  ASSUME TypeOK, PidOwned, NEW p \in Procs, NEW s \in Streams, CloseDrained(p, s)
  PROVE  /\ fds' \in [Fds -> End] /\ handle' \in [Procs -> Handle]
         /\ \A q \in Procs : /\ handle'[q].opened = handle[q].opened
                             /\ handle'[q].fd = handle[q].fd
                             /\ handle'[q].killed = handle[q].killed
                             /\ handle'[q].pid = handle[q].pid
                             /\ q # p => handle'[q] = handle[q]
         /\ \/ fds' = fds /\ handle' = handle
            \/ /\ fds' = Closed({handle[p].fd[s][1]})
               /\ handle'[p].files = handle[p].files \ {s}
<1>1. CASE handle[p].pid
  BY <1>1 DEF CloseDrained, TypeOK
<1>2. CASE ~handle[p].pid
  <2>1. /\ fds' = Closed({handle[p].fd[s][1]})
        /\ handle' = [handle EXCEPT ![p].files = handle[p].files \ {s}]
    BY <1>2 DEF CloseDrained
  <2>2. fds' \in [Fds -> End]
    BY <2>1, ClosedType
  <2>3. handle[p] \in Handle
    BY DEF TypeOK
  <2> DEFINE h == [handle[p] EXCEPT !.files = handle[p].files \ {s}]
  <2>4. /\ h \in Handle /\ h.opened = handle[p].opened /\ h.fd = handle[p].fd
        /\ h.killed = handle[p].killed /\ h.pid = handle[p].pid
        /\ h.files = handle[p].files \ {s}
    BY <2>3 DEF Handle
  <2>5. handle' = [handle EXCEPT ![p] = h]
    BY <2>1
  <2> HIDE DEF h
  <2>6. /\ handle' \in [Procs -> Handle] /\ handle'[p] = h
        /\ \A q \in Procs : q # p => handle'[q] = handle[q]
    BY <2>4, <2>5 DEF TypeOK
  <2> QED BY <2>1, <2>2, <2>4, <2>6
<1> QED BY <1>1, <1>2

LEMMA FinishReadTyped ==
  ASSUME TypedInv, FinishRead
  PROVE  TypedInv'
<1> USE DEF TypedInv, TypeInv
<1>1. /\ UNCHANGED <<child, pipe, got, runs, calls, overlap>> /\ thread' = Idle
      /\ CloseDrained(thread.proc, thread.stream)
  BY DEF FinishRead
<1>2. thread.proc \in Procs /\ thread.stream \in Streams
  BY DEF FinishRead, ThreadOK, TypeOK, Thread
<1>3. /\ fds' \in [Fds -> End] /\ handle' \in [Procs -> Handle]
      /\ \A q \in Procs : handle'[q].pid = handle[q].pid
  BY <1>1, <1>2, DrainFacts
<1>4. TypeOK'
  BY <1>1, <1>3, IdleType DEF TypeOK
<1>5. ThreadOK' /\ PidOwned'
  BY <1>1, <1>3 DEF ThreadOK, PidOwned, Idle
<1> QED BY <1>4, <1>5

LEMMA NextStreamTyped ==
  ASSUME TypedInv, NextStream
  PROVE  TypedInv'
<1> USE DEF TypedInv, TypeInv
<1>1. /\ UNCHANGED <<child, pipe, got, runs, calls, overlap>>
      /\ CloseDrained(thread.proc, "stdout") /\ thread.at = "run" /\ thread.step = "stdout"
  BY DEF NextStream
<1>2. thread.proc \in Procs /\ "stdout" \in Streams /\ thread \in Thread
  BY <1>1 DEF ThreadOK, TypeOK, Streams
<1>3. /\ fds' \in [Fds -> End] /\ handle' \in [Procs -> Handle]
      /\ \A q \in Procs : handle'[q].pid = handle[q].pid /\ handle'[q].opened = handle[q].opened
      /\ "stderr" \in handle[thread.proc].files => "stderr" \in handle'[thread.proc].files
  BY <1>1, <1>2, DrainFacts
<1>4. /\ thread' \in Thread /\ thread'.at = "run" /\ thread'.proc = thread.proc
      /\ thread'.step = "stderr" /\ thread'.stream = "stderr"
  BY <1>1, <1>2 DEF NextStream, Thread, Streams
<1>5. TypeOK'
  BY <1>1, <1>3, <1>4 DEF TypeOK
<1>6. ThreadOK'
  BY <1>1, <1>2, <1>3, <1>4 DEF ThreadOK
<1>7. PidOwned'
  BY <1>1, <1>3 DEF PidOwned
<1> QED BY <1>5, <1>6, <1>7

LEMMA PollRunTyped ==
  ASSUME TypedInv, PollRun
  PROVE  TypedInv'
<1> USE DEF TypedInv, TypeInv
<1>1. /\ UNCHANGED <<fds, pipe, got, runs, calls, overlap>> /\ Reap(thread.proc)
      /\ thread.at = "run" /\ thread.step = "wait"
  BY DEF PollRun
<1>2. thread.proc \in Procs /\ thread \in Thread
  BY <1>1 DEF ThreadOK, TypeOK
<1>3. /\ thread' \in Thread /\ thread'.at = "run" /\ thread'.proc = thread.proc
      /\ \/ thread'.step = "wait"
         \/ thread'.step = "stdout" /\ thread'.stream = "stdout"
  <2>1. All \in Nat
    BY SizesAssumption DEF All
  <2> QED BY <1>1, <1>2, <2>1 DEF PollRun, Thread, Streams
<1>4. TypeOK' /\ PidOwned'
  BY <1>1, <1>2, <1>3, ReapFacts DEF TypeOK
<1>5. ThreadOK'
  <2>1. SameHandle(thread.proc)
    BY <1>1, <1>2, ReapFacts
  <2> QED BY <1>1, <1>2, <1>3, <2>1 DEF ThreadOK, SameHandle, Outputs
<1> QED BY <1>4, <1>5

LEMMA ExpireRunTyped ==
  ASSUME TypedInv, ExpireRun
  PROVE  TypedInv'
<1> USE DEF TypedInv, TypeInv
<1>1. /\ UNCHANGED <<fds, handle, child, pipe, got, calls, overlap>> /\ thread' = Idle
      /\ runs' = [runs EXCEPT ![thread.proc] = "timeout"]
  BY DEF ExpireRun
<1>2. runs' \in [Procs -> Run]
  BY <1>1 DEF TypeOK, Run
<1>3. TypeOK'
  BY <1>1, <1>2, IdleType DEF TypeOK
<1>4. ThreadOK' /\ PidOwned'
  BY <1>1 DEF ThreadOK, PidOwned, Idle
<1> QED BY <1>3, <1>4

LEMMA FinishRunTyped ==
  ASSUME TypedInv, FinishRun
  PROVE  TypedInv'
<1> USE DEF TypedInv, TypeInv
<1>1. /\ UNCHANGED <<pipe, got, calls, overlap>> /\ thread' = Idle /\ KillProc(thread.proc)
      /\ runs' = [runs EXCEPT ![thread.proc] = "returned"] /\ thread.at = "run"
  BY DEF FinishRun
<1>2. thread.proc \in Procs
  BY <1>1 DEF ThreadOK
<1>3. runs' \in [Procs -> Run]
  BY <1>1 DEF TypeOK, Run
<1>4. fds' \in [Fds -> End]
  BY <1>1, <1>2, KillFacts, ClosedType
<1>5. TypeOK' /\ PidOwned'
  BY <1>1, <1>2, <1>3, <1>4, KillFacts, IdleType DEF TypeOK
<1>6. ThreadOK'
  BY <1>1 DEF ThreadOK, Idle
<1> QED BY <1>5, <1>6

\* A step of the operating system's side of a process.
ProcessStep(p) == ChildStep(p) \/ Leaves(p) \/ LeftEnds(p)

LEMMA ChildTyped ==
  ASSUME TypedInv, NEW p \in Procs, ProcessStep(p)
  PROVE  /\ TypedInv'
         /\ UNCHANGED <<fds, handle, runs, overlap>>
         /\ \A q \in Procs : SameAge(q)
<1> USE DEF TypedInv, TypeInv
<1>1. UNCHANGED <<fds, handle, thread, got, runs, calls, overlap>>
  BY DEF ProcessStep, ChildStep, ChildReads, ChildEnds, ChildWrites, Leaves, LeftEnds
<1>2. child[p] \in Child
  BY DEF TypeOK
<1>3. /\ pipe' \in [Procs -> [Streams -> 0 .. PipeSize]]
      /\ \E c \in Child :
           /\ child' = [child EXCEPT ![p] = c]
           /\ \/ c.state = child[p].state
              \/ child[p].state = "running" /\ c.state = "exited"
  <2>1. CASE ChildReads(p)
    <3>1. pipe[p]["stdin"] - 1 \in 0 .. PipeSize /\ "stdin" \in Streams
      BY <2>1, SizesAssumption DEF ChildReads, TypeOK, Streams
    <3>2. pipe' = [pipe EXCEPT ![p]["stdin"] = pipe[p]["stdin"] - 1]
      BY <2>1 DEF ChildReads
    <3>3. pipe' \in [Procs -> [Streams -> 0 .. PipeSize]]
      BY <3>1, <3>2, PipeType
    <3> DEFINE c == [child[p] EXCEPT !.input = child[p].input - 1]
    <3>4. c \in Child /\ c.state = child[p].state /\ child' = [child EXCEPT ![p] = c]
      BY <1>2, <2>1 DEF ChildReads, Child
    <3> QED BY <3>3, <3>4
  <2>2. CASE ChildEnds(p)
    <3> DEFINE c == [child[p] EXCEPT !.state = "exited"]
    <3>1. c \in Child /\ c.state = "exited" /\ child' = [child EXCEPT ![p] = c]
      BY <1>2, <2>2 DEF ChildEnds, Child
    <3> QED BY <2>2, <3>1 DEF ChildEnds, TypeOK
  <2>4. CASE Leaves(p)
    <3> DEFINE c == [child[p] EXCEPT !.state = "exited", !.left = TRUE]
    <3>1. c \in Child /\ c.state = "exited" /\ child' = [child EXCEPT ![p] = c]
      BY <1>2, <2>4 DEF Leaves, Child
    <3> QED BY <2>4, <3>1 DEF Leaves, TypeOK
  <2>5. CASE LeftEnds(p)
    <3> DEFINE c == [child[p] EXCEPT !.left = FALSE]
    <3>1. c \in Child /\ c.state = child[p].state /\ child' = [child EXCEPT ![p] = c]
      BY <1>2, <2>5 DEF LeftEnds, Child
    <3> QED BY <2>5, <3>1 DEF LeftEnds, TypeOK
  <2>3. CASE \E s \in Outputs : ChildWrites(p, s)
    <3>1. PICK s \in Outputs : ChildWrites(p, s)
      BY <2>3
    <3>2. pipe[p][s] + 1 \in 0 .. PipeSize /\ s \in Streams
      BY <3>1, SizesAssumption DEF ChildWrites, TypeOK, Streams, Outputs
    <3>3. pipe' = [pipe EXCEPT ![p][s] = pipe[p][s] + 1]
      BY <3>1 DEF ChildWrites
    <3>4. pipe' \in [Procs -> [Streams -> 0 .. PipeSize]]
      BY <3>2, <3>3, PipeType
    <3> DEFINE w == [child[p].wrote EXCEPT ![s] = child[p].wrote[s] + 1]
               c == [child[p] EXCEPT !.wrote = w]
    <3>5. w \in [Outputs -> Nat]
      BY <1>2, <3>1 DEF Child
    <3>6. child' = [child EXCEPT ![p] = c]
      BY <3>1 DEF ChildWrites
    <3> HIDE DEF w
    <3>7. c \in Child /\ c.state = child[p].state
      BY <1>2, <3>5 DEF Child
    <3> QED BY <3>4, <3>6, <3>7
  <2> QED BY <2>1, <2>2, <2>3, <2>4, <2>5 DEF ProcessStep, ChildStep
<1>4. /\ child' \in [Procs -> Child]
      /\ \/ child'[p].state = child[p].state
         \/ child[p].state = "running" /\ child'[p].state = "exited"
      /\ \A q \in Procs : q # p => child'[q] = child[q]
  BY <1>3 DEF TypeOK
<1>5. TypeOK'
  BY <1>1, <1>3, <1>4 DEF TypeOK
<1>6. ThreadOK' /\ PidOwned'
  BY <1>1, <1>4 DEF ThreadOK, PidOwned
<1>7. \A q \in Procs : SameAge(q)
  BY <1>4 DEF SameAge
<1> QED BY <1>1, <1>5, <1>6, <1>7

LEMMA TypedStep == TypedInv /\ [Next]_vars => TypedInv'
<1> SUFFICES ASSUME TypedInv, [Next]_vars PROVE TypedInv'
  OBVIOUS
<1>1. CASE Test
  BY <1>1, SpawnTyped, SpawnFailsTyped, StartRunTyped, WaitTyped, KillTyped, StartWriteTyped,
     StartReadTyped DEF Test
<1>2. CASE Blocking
  BY <1>2, WriteTyped, ReadUnitTyped, FinishReadTyped, PollRunTyped, NextStreamTyped,
     FinishRunTyped DEF Blocking
<1>3. CASE ExpireRun
  BY <1>3, ExpireRunTyped
<1>4. CASE \E p \in Procs : ProcessStep(p)
  BY <1>4, ChildTyped
<1>5. CASE UNCHANGED vars
  BY <1>5 DEF vars, TypedInv, TypeInv, TypeOK, ThreadOK, PidOwned
<1> QED BY <1>1, <1>2, <1>3, <1>4, <1>5 DEF Next, Terminated, ProcessStep

-----------------------------------------------------------------------------
(* Whose the descriptors are.                                              *)

\* A handle that calls may still be made on: not killed, and not that of a run
\* that timed out.
Active(p) == handle[p].opened /\ ~handle[p].killed /\ runs[p] # "timeout"

\* Processes are spawned in order, a handle is of a process that was.
Ordered ==
  /\ \A p, q \in Procs : p < q /\ child[p].state = "none" => child[q].state = "none"
  /\ \A p \in Procs : child[p].state = "none" => ~handle[p].opened

\* A handle that was not opened, or was killed, has no open stream.
FilesInUse ==
  \A p \in Procs : handle[p].files # {} => handle[p].opened /\ ~handle[p].killed

\* An open descriptor of a process is among the numbers of its handle.
EndsHeld ==
  \A n \in Fds : fds[n].stream \in Streams =>
    handle[fds[n].proc].opened /\ n = handle[fds[n].proc].fd[fds[n].stream][1]

KilledGone == \A p \in Procs : handle[p].killed => \A s \in Streams : ~HasReader(p, s)

\* As long as handles do not overlap, the last one is the only one in use ...
LastInUse ==
  ~overlap => \A p, q \in Procs : Active(p) /\ p < q => child[q].state = "none"

\* ... its numbers are its own or free ...
NumbersOwn ==
  ~overlap => \A p \in Procs : Active(p) =>
    \A n \in Numbers(handle[p]) : fds[n] = Free \/ fds[n].proc = p

\* ... and its open streams are its own pipes.
FilesOwn ==
  ~overlap => \A p \in Procs : runs[p] # "timeout" =>
    \A s \in handle[p].files : At(p, s) = [proc |-> p, stream |-> s]

FdInv ==
  /\ Ordered /\ FilesInUse /\ EndsHeld /\ KilledGone
  /\ LastInUse /\ NumbersOwn /\ FilesOwn

LEMMA FdInit == Init => FdInv
<1> SUFFICES ASSUME Init PROVE FdInv
  OBVIOUS
<1>1. /\ \A p \in Procs : /\ ~handle[p].opened /\ handle[p].files = {} /\ ~handle[p].killed
                          /\ child[p].state = "none"
      /\ \A n \in Fds : fds[n] \in {Free, Own}
  BY DEF Init
<1>2. \A n \in Fds : fds[n].stream \notin Streams
  BY <1>1 DEF Free, Own, Streams
<1> QED BY <1>1, <1>2 DEF FdInv, Ordered, FilesInUse, EndsHeld, KilledGone, LastInUse,
   NumbersOwn, FilesOwn, Active

\* The streams of an open handle, and what they are.
LEMMA HandleNumbers ==
  ASSUME TypeOK, NEW p \in Procs
  PROVE  /\ Numbers(handle[p]) \subseteq Fds
         /\ \A s \in Streams : handle[p].fd[s][1] \in Numbers(handle[p])
         /\ handle[p].files \subseteq Streams
<1>1. handle[p] \in Handle
  BY DEF TypeOK
<1>2. \A s \in Streams : handle[p].fd[s] \in Fds \X Fds
  BY <1>1 DEF Handle
<1>3. handle[p].files \subseteq Streams
  BY <1>1 DEF Handle
<1> QED BY <1>2, <1>3 DEF Numbers

\* A step that opens and closes nothing; a run may time out.
LEMMA QuietFds ==
  ASSUME TypeOK, FdInv, UNCHANGED <<fds, overlap>>,
         \A q \in Procs : /\ SameHandle(q) /\ SameAge(q)
                          /\ runs'[q] = runs[q] \/ runs'[q] = "timeout"
  PROVE  FdInv'
<1> USE DEF FdInv
<1>1. Ordered' /\ FilesInUse'
  BY DEF Ordered, FilesInUse, SameHandle, SameAge
<1>2. EndsHeld'
  <2>1. \A n \in Fds : fds[n].stream \in Streams => fds[n].proc \in Procs
    BY EndOfPipe DEF TypeOK
  <2> QED BY <2>1 DEF EndsHeld, SameHandle
<1>3. KilledGone'
  BY DEF KilledGone, HasReader, SameHandle
<1>4. \A p \in Procs : Active(p)' => Active(p)
  BY DEF Active, SameHandle
<1>5. LastInUse'
  BY <1>4 DEF LastInUse, SameAge
<1>6. NumbersOwn'
  BY <1>4 DEF NumbersOwn, Numbers, SameHandle
<1>7. FilesOwn'
  BY DEF FilesOwn, At, SameHandle
<1> QED BY <1>1, <1>2, <1>3, <1>5, <1>6, <1>7

\* A step that closes numbers of a handle that is in use.
LEMMA CloseFds ==
  ASSUME TypeOK, FdInv, NEW p \in Procs, NEW ns \in SUBSET Numbers(handle[p]),
         fds' = Closed(ns),
         overlap => overlap',
         ~overlap' => Active(p),
         \A q \in Procs : /\ SameAge(q)
                          /\ q # p => handle'[q] = handle[q] /\ runs'[q] = runs[q],
         /\ handle'[p].opened = handle[p].opened /\ handle'[p].fd = handle[p].fd
         /\ handle'[p].files \subseteq handle[p].files,
         \A s \in handle'[p].files : handle[p].fd[s][1] \notin ns,
         \/ handle'[p].killed = handle[p].killed /\ runs'[p] = runs[p]
         \/ handle'[p].killed /\ handle'[p].files = {} /\ ns = Numbers(handle[p])
  PROVE  FdInv'
<1> USE DEF FdInv
<1>1. /\ \A n \in Fds : fds'[n] = IF n \in ns THEN Free ELSE fds[n]
      /\ Free.stream \notin Streams
  BY DEF Closed, Free, Streams
<1>2. \A n \in Fds : fds[n].stream \in Streams => fds[n].proc \in Procs
  BY EndOfPipe DEF TypeOK
<1>3. \A q \in Procs : handle'[q].opened = handle[q].opened /\ handle'[q].fd = handle[q].fd
  OBVIOUS
<1>4. Ordered'
  BY <1>3 DEF Ordered, SameAge
<1>5. FilesInUse'
  BY DEF FilesInUse
<1>6. EndsHeld'
  BY <1>1, <1>2, <1>3 DEF EndsHeld
<1>7. KilledGone'
  <2> SUFFICES ASSUME NEW q \in Procs, handle'[q].killed, NEW s \in Streams, HasReader(q, s)'
               PROVE  FALSE
    BY DEF KilledGone
  <2>1. PICK n \in Fds : n \notin ns /\ fds[n] = [proc |-> q, stream |-> s]
    BY <1>1 DEF HasReader
  <2>2. HasReader(q, s)
    BY <2>1 DEF HasReader
  <2>3. q = p /\ ns = Numbers(handle[p])
    BY <2>2 DEF KilledGone
  <2>4. n = handle[p].fd[s][1]
    BY <2>1, <2>3 DEF EndsHeld
  <2> QED BY <2>1, <2>3, <2>4, HandleNumbers
<1>8. \A q \in Procs : Active(q)' => Active(q) \/ q = p
  BY DEF Active
<1>9. LastInUse'
  BY <1>8 DEF LastInUse, SameAge
<1>10. NumbersOwn'
  <2> SUFFICES ASSUME ~overlap', NEW q \in Procs, Active(q)', NEW n \in Numbers(handle'[q])
               PROVE  fds'[n] = Free \/ fds'[n].proc = q
    BY DEF NumbersOwn
  <2>1. n \in Numbers(handle[q]) /\ n \in Fds
    BY <1>3, HandleNumbers DEF Numbers
  <2>2. fds[n] = Free \/ fds[n].proc = q
    BY <1>8, <2>1 DEF NumbersOwn
  <2> QED BY <1>1, <2>1, <2>2
<1>11. FilesOwn'
  <2> SUFFICES ASSUME ~overlap', NEW q \in Procs, runs'[q] # "timeout",
                      NEW s \in handle'[q].files
               PROVE  At(q, s)' = [proc |-> q, stream |-> s]
    BY DEF FilesOwn
  <2>1. q = p
    <3> SUFFICES ASSUME q # p PROVE FALSE
      OBVIOUS
    <3>1. Active(q) /\ Active(p) /\ ~overlap
      BY DEF FilesInUse, Active
    <3>2. child[q].state # "none" /\ child[p].state # "none"
      BY <3>1 DEF Ordered, Active
    <3> QED BY <3>1, <3>2, AmountAssumption DEF LastInUse, Procs
  <2>2. s \in handle[p].files /\ s \in Streams
    BY <2>1, HandleNumbers
  <2>3. handle[p].fd[s][1] \in Fds \ ns
    BY <2>1, <2>2, HandleNumbers
  <2>4. At(p, s) = [proc |-> p, stream |-> s]
    BY <2>2 DEF FilesOwn, Active
  <2> QED BY <1>1, <1>3, <2>1, <2>3, <2>4 DEF At
<1> QED BY <1>4, <1>5, <1>6, <1>7, <1>9, <1>10, <1>11

\* kill of a handle in use.
LEMMA KillFds ==
  ASSUME TypedInv, FdInv, NEW p \in Procs, KillProc(p),
         overlap => overlap', ~overlap' => Active(p),
         \A q \in Procs : q # p => runs'[q] = runs[q]
  PROVE  FdInv'
<1>1. TypeOK /\ PidOwned
  BY DEF TypedInv, TypeInv
<1> QED BY <1>1, KillFacts, CloseFds

\* A stream that is closed at its end is one of a handle in use, and the only
\* one of its number.
LEMMA DrainFds ==
  ASSUME TypedInv, FdInv, NEW p \in Procs, NEW s \in Streams, CloseDrained(p, s),
         s \in handle[p].files, runs[p] # "timeout", UNCHANGED <<child, runs, overlap>>
  PROVE  FdInv'
<1>1. TypeOK /\ PidOwned
  BY DEF TypedInv, TypeInv
<1>2. Active(p) /\ handle[p].opened
  BY DEF FdInv, FilesInUse, Active
<1>3. CASE fds' = fds /\ handle' = handle
  <2>1. \A q \in Procs : SameHandle(q) /\ SameAge(q)
    BY <1>3 DEF SameHandle, SameAge
  <2> QED BY <1>1, <1>3, <2>1, QuietFds
<1>4. CASE fds' = Closed({handle[p].fd[s][1]}) /\ handle'[p].files = handle[p].files \ {s}
  <2>1. /\ \A q \in Procs : /\ handle'[q].opened = handle[q].opened
                            /\ handle'[q].fd = handle[q].fd
                            /\ handle'[q].killed = handle[q].killed
                            /\ q # p => handle'[q] = handle[q]
      /\ handle[p].fd[s][1] \in Numbers(handle[p])
    BY <1>1, DrainFacts, HandleNumbers
  <2>2. \A q \in Procs : SameAge(q)
    BY DEF SameAge
  <2>3. CASE ~overlap
    <3>1. \A t \in handle[p].files \ {s} : handle[p].fd[t][1] # handle[p].fd[s][1]
      <4> SUFFICES ASSUME NEW t \in handle[p].files, t # s,
                          handle[p].fd[t][1] = handle[p].fd[s][1]
                   PROVE  FALSE
        OBVIOUS
      <4>1. At(p, t) = [proc |-> p, stream |-> t] /\ At(p, s) = [proc |-> p, stream |-> s]
        BY <2>3 DEF FdInv, FilesOwn
      <4>2. At(p, t).stream = t /\ At(p, s).stream = s
        BY <4>1
      <4> QED BY <4>2 DEF At
    <3> DEFINE ns == {handle[p].fd[s][1]}
    <3>2. ns \in SUBSET Numbers(handle[p]) /\ fds' = Closed(ns)
          /\ \A t \in handle'[p].files : handle[p].fd[t][1] \notin ns
      BY <1>4, <2>1, <3>1
    <3> HIDE DEF ns
    <3> QED BY <1>1, <1>2, <1>4, <2>1, <2>2, <3>2, CloseFds
  <2>4. CASE overlap
    <3> USE DEF FdInv
    <3>1. Ordered' /\ FilesInUse'
      BY <1>2, <1>4, <2>1 DEF Ordered, FilesInUse
    <3>2. \A n \in Fds : fds'[n] = fds[n] \/ fds'[n].stream \notin Streams
      BY <1>4 DEF Closed, Free, Streams
    <3>3. \A n \in Fds : fds[n].stream \in Streams => fds[n].proc \in Procs
      BY <1>1, EndOfPipe DEF TypeOK
    <3>4. EndsHeld'
      BY <2>1, <3>2, <3>3 DEF EndsHeld
    <3>5. KilledGone'
      <4>1. \A q \in Procs, t \in Streams : HasReader(q, t)' => HasReader(q, t)
        BY <3>2 DEF HasReader
      <4> QED BY <2>1, <4>1 DEF KilledGone
    <3> QED BY <2>4, <3>1, <3>4, <3>5 DEF LastInUse, NumbersOwn, FilesOwn
  <2> QED BY <2>3, <2>4
<1> QED BY <1>1, <1>3, <1>4, DrainFacts

\* Processes are spawned in order, and a spawn ends the use of the others.
LEMMA OpensLast ==
  ASSUME TypeOK, FdInv, NEW p \in Procs, Fresh(p), Opens(p)
  PROVE  /\ \A q \in Procs : q < p => child[q].state # "none"
         /\ \A q \in Procs : p < q => child[q].state = "none"
         /\ ~handle[p].opened /\ ~Active(p)
         /\ ~overlap' => ~overlap /\ \A q \in Procs : ~Active(q)
<1>1. \A q \in Procs : q < p => q \in 1 .. p - 1
  BY AmountAssumption DEF Procs
<1>2. \A q \in Procs : q < p => child[q].state # "none"
  BY <1>1 DEF Fresh
<1>3. /\ \A q \in Procs : p < q => child[q].state = "none"
      /\ \A q \in Procs : p <= q => ~handle[q].opened
  BY AmountAssumption DEF Fresh, FdInv, Ordered, Procs
<1>4. ~handle[p].opened /\ ~Active(p)
  BY <1>3, AmountAssumption DEF Active, Procs
<1>5. ASSUME ~overlap', NEW q \in Procs PROVE ~overlap /\ ~Active(q)
  <2>1. ~overlap /\ ~Overlaps(p)
    BY <1>5 DEF Opens
  <2>2. CASE q < p
    BY <1>1, <2>1, <2>2 DEF Overlaps, Active
  <2>3. CASE p <= q
    BY <1>3, <2>1, <2>3 DEF Active
  <2> QED BY <2>2, <2>3, AmountAssumption DEF Procs
<1>6. ~overlap' => ~overlap
  BY DEF Opens
<1> QED BY <1>2, <1>3, <1>4, <1>5, <1>6

\* The new handle gets free descriptors.
LEMMA SpawnFds ==
  ASSUME TypeOK, FdInv, NEW p \in Procs, Fresh(p), Opens(p), Spawned(p),
         \A q \in Procs : q # p => runs'[q] = runs[q]
  PROVE  FdInv'
<1> USE DEF FdInv
<1> DEFINE h == handle'[p]
<1>1. /\ \A q \in Procs : q # p => handle'[q] = handle[q] /\ child'[q] = child[q]
      /\ handle' \in [Procs -> Handle] /\ child'[p].state = "running"
      /\ h.opened /\ ~h.killed /\ h.files = Streams
      /\ \A n \in Numbers(h) : n \in Fds /\ fds[n] = Free
      /\ \A s \in Streams : fds'[h.fd[s][1]] = [proc |-> p, stream |-> s]
                            /\ fds'[h.fd[s][2]] = Free
      /\ \A n \in Fds : fds'[n] = fds[n] \/ \E s \in Streams : n = h.fd[s][1]
  BY SpawnedFacts
<1>2. /\ \A q \in Procs : q < p => child[q].state # "none"
      /\ \A q \in Procs : p < q => child[q].state = "none"
      /\ ~handle[p].opened
      /\ ~overlap' => ~overlap /\ \A q \in Procs : ~Active(q)
  BY OpensLast
<1>3. \A n \in Fds : fds[n].stream \in Streams =>
        fds[n].proc \in Procs /\ fds[n].proc # p
  <2>1. \A n \in Fds : fds[n].stream \in Streams => fds[n].proc \in Procs
    BY EndOfPipe DEF TypeOK
  <2> QED BY <1>2, <2>1 DEF EndsHeld
<1>4. \A s \in Streams : h.fd[s][1] \in Numbers(h) /\ h.fd[s][2] \in Numbers(h)
  BY DEF Numbers
<1> HIDE DEF h
<1>5. handle'[p] = h
  BY DEF h
<1>6. ASSUME NEW s \in Streams
       PROVE  fds'[h.fd[s][1]].proc = p /\ fds'[h.fd[s][1]].stream = s
  <2>1. fds'[h.fd[s][1]] = [proc |-> p, stream |-> s]
    BY <1>1
  <2> QED BY <2>1
<1>7. Ordered'
  <2>1. /\ \A q, r \in Procs : q < r /\ child'[q].state = "none" => child'[r].state = "none"
    BY <1>1, <1>2, AmountAssumption DEF Ordered, Procs
  <2>2. \A q \in Procs : child'[q].state = "none" => ~handle'[q].opened
    BY <1>1 DEF Ordered
  <2> QED BY <2>1, <2>2 DEF Ordered
<1>8. FilesInUse'
  BY <1>1, <1>5 DEF FilesInUse
<1>9. EndsHeld'
  <2> SUFFICES ASSUME NEW n \in Fds, fds'[n].stream \in Streams
               PROVE  /\ handle'[fds'[n].proc].opened
                      /\ n = handle'[fds'[n].proc].fd[fds'[n].stream][1]
    BY DEF EndsHeld
  <2>1. CASE \E s \in Streams : n = h.fd[s][1]
    <3>1. PICK s \in Streams : n = h.fd[s][1]
      BY <2>1
    <3>2. fds'[n].proc = p /\ fds'[n].stream = s
      BY <1>6, <3>1
    <3> QED BY <1>1, <1>5, <3>1, <3>2
  <2>2. CASE fds'[n] = fds[n]
    BY <1>1, <1>3, <2>2 DEF EndsHeld
  <2> QED BY <1>1, <2>1, <2>2
<1>10. KilledGone'
  <2> SUFFICES ASSUME NEW q \in Procs, handle'[q].killed, NEW s \in Streams, HasReader(q, s)'
               PROVE  FALSE
    BY DEF KilledGone
  <2>1. q # p /\ handle[q].killed
    BY <1>1, <1>5
  <2>2. PICK n \in Fds : fds'[n] = [proc |-> q, stream |-> s]
    BY DEF HasReader
  <2>3. fds'[n] = fds[n]
    <3>1. CASE \E t \in Streams : n = h.fd[t][1]
      <4>1. fds'[n].proc = p
        BY <1>6, <3>1
      <4> QED BY <2>1, <2>2, <4>1
    <3> QED BY <1>1, <3>1
  <2> QED BY <2>1, <2>2, <2>3 DEF KilledGone, HasReader
<1>11. ASSUME ~overlap' PROVE \A q \in Procs : q # p => ~Active(q)'
  BY <1>1, <1>2, <1>11 DEF Active
<1>12. LastInUse'
  BY <1>1, <1>2, <1>11, AmountAssumption DEF LastInUse, Procs
<1>13. NumbersOwn'
  <2>1. \A n \in Numbers(h) : fds'[n] = Free \/ fds'[n].proc = p
    <3>1. \A n \in Numbers(h) : n \in Fds /\ fds[n] = Free
      BY <1>1
    <3>2. ASSUME NEW n \in Numbers(h), NEW s \in Streams, n = h.fd[s][1]
          PROVE  fds'[n].proc = p
      BY <1>6, <3>2
    <3> QED BY <1>1, <3>1, <3>2
  <2> QED BY <1>5, <1>11, <2>1 DEF NumbersOwn
<1>14. FilesOwn'
  <2> SUFFICES ASSUME ~overlap', NEW q \in Procs, runs'[q] # "timeout",
                      NEW s \in handle'[q].files
               PROVE  At(q, s)' = [proc |-> q, stream |-> s]
    BY DEF FilesOwn
  <2>1. CASE q = p
    BY <1>1, <1>5, <2>1 DEF At
  <2>2. CASE q # p
    <3>1. Active(q)
      BY <1>1, <2>2 DEF FilesInUse, Active
    <3> QED BY <1>2, <3>1
  <2> QED BY <2>1, <2>2
<1> QED BY <1>7, <1>8, <1>9, <1>10, <1>12, <1>13, <1>14

\* A spawn that fails closes descriptor 0, whosever it is.
LEMMA SpawnFailsFds ==
  ASSUME TypeOK, FdInv, NEW p \in Procs, SpawnFails(p)
  PROVE  FdInv'
<1> USE DEF FdInv
<1>1. /\ UNCHANGED <<handle, runs>> /\ Fresh(p) /\ Opens(p)
      /\ child'[p].state = "reaped" /\ \A q \in Procs : q # p => child'[q] = child[q]
      /\ fds' \in {fds, Closed({0})}
  BY DEF SpawnFails, TypeOK, Child
<1>2. /\ \A q \in Procs : q < p => child[q].state # "none"
      /\ \A q \in Procs : p < q => child[q].state = "none"
      /\ ~overlap' => ~overlap /\ \A q \in Procs : ~Active(q)
  BY <1>1, OpensLast
<1>3. \A n \in Fds : fds'[n] = fds[n] \/ fds'[n].stream \notin Streams
  BY <1>1 DEF Closed, Free, Streams
<1>4. \A n \in Fds : fds[n].stream \in Streams => fds[n].proc \in Procs
  BY EndOfPipe DEF TypeOK
<1>5. \A q \in Procs : Active(q)' <=> Active(q)
  BY <1>1 DEF Active
<1>6. Ordered'
  <2>1. \A q, r \in Procs : q < r /\ child'[q].state = "none" => child'[r].state = "none"
    BY <1>1, <1>2, AmountAssumption DEF Ordered, Procs
  <2>2. \A q \in Procs : child'[q].state = "none" => ~handle'[q].opened
    BY <1>1 DEF Ordered
  <2> QED BY <2>1, <2>2 DEF Ordered
<1>7. FilesInUse'
  BY <1>1 DEF FilesInUse
<1>8. EndsHeld'
  BY <1>1, <1>3, <1>4 DEF EndsHeld
<1>9. KilledGone'
  <2>1. \A q \in Procs, s \in Streams : HasReader(q, s)' => HasReader(q, s)
    BY <1>3 DEF HasReader
  <2> QED BY <1>1, <2>1 DEF KilledGone
<1>10. LastInUse' /\ NumbersOwn'
  BY <1>2, <1>5 DEF LastInUse, NumbersOwn
<1>11. FilesOwn'
  <2>1. \A q \in Procs : handle[q].files # {} /\ runs[q] # "timeout" => Active(q)
    BY DEF FilesInUse, Active
  <2> QED BY <1>1, <1>2, <2>1 DEF FilesOwn
<1> QED BY <1>6, <1>7, <1>8, <1>9, <1>10, <1>11

LEMMA FdStep == TypedInv /\ FdInv /\ [Next]_vars => FdInv'
<1> SUFFICES ASSUME TypedInv, FdInv, [Next]_vars PROVE FdInv'
  OBVIOUS
<1>0. TypeOK /\ PidOwned /\ ThreadOK
  BY DEF TypedInv, TypeInv
<1>1. ASSUME UNCHANGED <<fds, handle, child, overlap>>,
             \A q \in Procs : runs'[q] = runs[q] \/ runs'[q] = "timeout"
      PROVE  FdInv'
  BY <1>0, <1>1, QuietFds DEF SameHandle, SameAge
<1>2. ASSUME NEW p \in Procs,
             \/ Spawn(p) \/ SpawnFails(p) \/ StartRun(p)
             \/ Wait(p) \/ Kill(p) \/ StartWrite(p)
             \/ \E s \in Outputs, want \in {1, All} : StartRead(p, s, want)
      PROVE  FdInv'
  <2>1. CASE Spawn(p)
    BY <1>0, <2>1, SpawnFds DEF Spawn
  <2>2. CASE SpawnFails(p)
    BY <1>0, <2>2, SpawnFailsFds
  <2>3. CASE StartRun(p)
    <3>1. \A q \in Procs : q # p => runs'[q] = runs[q]
      BY <1>0, <2>3 DEF StartRun, TypeOK
    <3> QED BY <1>0, <2>3, <3>1, SpawnFds DEF StartRun
  <2>4. CASE Wait(p)
    BY <1>0, <2>4, ReapFacts, QuietFds DEF Wait
  <2>5. CASE Kill(p)
    <3>1. ~overlap' => Active(p)
      BY <2>5 DEF Kill, Held, Active
    <3> QED BY <2>5, <3>1, KillFds DEF Kill
  <2>6. CASE StartWrite(p)
    BY <1>1, <2>6 DEF StartWrite
  <2>7. CASE \E s \in Outputs, want \in {1, All} : StartRead(p, s, want)
    BY <1>1, <2>7 DEF StartRead
  <2> QED BY <1>2, <2>1, <2>2, <2>3, <2>4, <2>5, <2>6, <2>7
<1>3. CASE Write \/ ReadUnit
  BY <1>1, <1>3 DEF Write, ReadUnit
<1>4. CASE FinishRead
  <2>1. /\ thread.proc \in Procs /\ thread.stream \in handle[thread.proc].files
        /\ thread.stream \in Streams /\ runs[thread.proc] = "none"
    BY <1>0, <1>4 DEF FinishRead, ThreadOK, TypeOK, Thread
  <2> QED BY <1>4, <2>1, DrainFds DEF FinishRead
<1>5. CASE NextStream
  <2>1. /\ thread.proc \in Procs /\ "stdout" \in handle[thread.proc].files
        /\ "stdout" \in Streams /\ runs[thread.proc] # "timeout"
    BY <1>0, <1>5 DEF NextStream, ThreadOK, Streams
  <2> QED BY <1>5, <2>1, DrainFds DEF NextStream
<1>6. CASE PollRun
  <2>1. thread.proc \in Procs
    BY <1>0, <1>6 DEF PollRun, ThreadOK
  <2> QED BY <1>0, <1>6, <2>1, ReapFacts, QuietFds DEF PollRun
<1>7. CASE FinishRun
  <2>1. /\ thread.proc \in Procs /\ handle[thread.proc].files # {}
        /\ runs[thread.proc] # "timeout"
    BY <1>0, <1>7 DEF FinishRun, ThreadOK
  <2>2. Active(thread.proc)
    BY <2>1 DEF FdInv, FilesInUse, Active
  <2>3. \A q \in Procs : q # thread.proc => runs'[q] = runs[q]
    BY <1>0, <1>7 DEF FinishRun, TypeOK
  <2> QED BY <1>7, <2>1, <2>2, <2>3, KillFds DEF FinishRun
<1>8. CASE ExpireRun
  <2>1. \A q \in Procs : runs'[q] = runs[q] \/ runs'[q] = "timeout"
    BY <1>0, <1>8 DEF ExpireRun, TypeOK
  <2> QED BY <1>1, <1>8, <2>1 DEF ExpireRun
<1>9. CASE \E p \in Procs : ProcessStep(p)
  BY <1>0, <1>9, ChildTyped, QuietFds DEF SameHandle
<1>10. CASE UNCHANGED vars
  BY <1>1, <1>10 DEF vars
<1> QED BY <1>2, <1>3, <1>4, <1>5, <1>6, <1>7, <1>8, <1>9, <1>10
     DEF Next, Test, Blocking, Terminated, ProcessStep

-----------------------------------------------------------------------------
LEMMA ProcInvariant == Spec => [](TypedInv /\ FdInv)
<1>1. Init => TypedInv /\ FdInv
  <2>1. Init => PidOwned
    BY DEF Init, PidOwned
  <2> QED BY <2>1, TypeInit, FdInit DEF TypedInv
<1>2. TypedInv /\ FdInv /\ [Next]_vars => (TypedInv /\ FdInv)'
  BY TypedStep, FdStep
<1> QED BY <1>1, <1>2, PTL DEF Spec

\* Every variable of the handles stays in its type, and no pipe holds more than
\* fits.
THEOREM ProcTypeCorrect == Spec => []TypeOK
<1>1. TypedInv => TypeOK
  BY DEF TypedInv, TypeInv
<1> QED BY <1>1, ProcInvariant, PTL

\* A pid is only waited for and signalled while it is the handle's own child
\* (ltf-proc.c: wait and kill set pid to -1 once waitpid has reaped it).
THEOREM PidsOwned == Spec => []PidOwned
<1>1. TypedInv => PidOwned
  BY DEF TypedInv
<1> QED BY <1>1, ProcInvariant, PTL

\* After kill nothing of a process is left open, and as long as handles do not
\* overlap an open stream is a pipe of its own process, although every kill and
\* every stream read to its end closes numbers that were closed before
\* (proc_close_streams).
THEOREM StreamsStayOwn == Spec => []StreamsOwn
<1>1. FdInv => StreamsOwn
  BY DEF FdInv, KilledGone, FilesOwn, StreamsOwn
<1> QED BY <1>1, ProcInvariant, PTL

-----------------------------------------------------------------------------
(* What a run returns.                                                     *)

\* A process that was not spawned has written nothing.
UnbornOK(p) ==
  child[p].state = "none" =>
    /\ child[p].signal = "none" /\ runs[p] = "none" /\ ~child[p].left
    /\ \A s \in Outputs : pipe[p][s] = 0 /\ got[p][s] = 0 /\ child[p].wrote[s] = 0

\* All that the process of the run wrote is in its pipe or was read from there.
Balanced(p) == \A s \in Outputs : got[p][s] + pipe[p][s] = child[p].wrote[s]

Polling(p) ==
  /\ handle[p].files = Streams /\ handle[p].pid /\ child[p].signal = "none"
  /\ child[p].state = "exited" /\ ~child[p].left => child[p].wrote = child[p].output

Collecting(p) ==
  /\ ~handle[p].pid /\ child[p].state = "reaped"
  /\ ~child[p].left => child[p].wrote = child[p].output
  /\ thread.want > 0
  /\ thread.step # "stderr" => handle[p].files = Streams
  /\ thread.step = "stderr" =>
       ~child[p].left /\ got[p]["stdout"] = child[p].wrote["stdout"]

\* While a run goes on nobody else gets at its pipes.
RunOK(p) ==
  thread.at = "run" /\ thread.proc = p =>
    /\ Balanced(p)
    /\ \A s \in handle[p].files : At(p, s) = [proc |-> p, stream |-> s]
    /\ IF thread.step = "wait" THEN Polling(p) ELSE Collecting(p)

ReturnOK(p) ==
  runs[p] = "returned" =>
    /\ got[p] = child[p].wrote /\ child[p].wrote = child[p].output
    /\ child[p].state = "reaped" /\ ~child[p].left
    /\ \A s \in Streams : ~HasReader(p, s)

ProcessOK(p) == UnbornOK(p) /\ RunOK(p) /\ ReturnOK(p)

RunInv == \A p \in Procs : ProcessOK(p)

LEMMA RunInit == Init => RunInv
<1> SUFFICES ASSUME Init, NEW p \in Procs PROVE ProcessOK(p)
  BY DEF RunInv
<1>1. /\ child[p].signal = "none" /\ runs[p] = "none" /\ thread.at = "test"
      /\ ~child[p].left
      /\ \A s \in Outputs : pipe[p][s] = 0 /\ got[p][s] = 0 /\ child[p].wrote[s] = 0
  BY DEF Init, Idle, Outputs, Streams
<1> QED BY <1>1 DEF ProcessOK, UnbornOK, RunOK, ReturnOK

\* A step that leaves a process and its run alone.
LEMMA Unmoved ==
  ASSUME NEW p \in Procs, ProcessOK(p), child'[p] = child[p], got'[p] = got[p],
         runs'[p] = runs[p], \A s \in Outputs : pipe'[p][s] = pipe[p][s],
         \A s \in Streams : HasReader(p, s)' => HasReader(p, s),
         thread'.at = "run" /\ thread'.proc = p =>
           /\ UNCHANGED thread /\ handle'[p] = handle[p]
           /\ \A s \in handle[p].files : At(p, s)' = At(p, s)
  PROVE  ProcessOK(p)'
<1> USE DEF ProcessOK
<1>1. UnbornOK(p)'
  BY DEF UnbornOK
<1>2. RunOK(p)'
  BY DEF RunOK, Balanced, Polling, Collecting
<1>3. ReturnOK(p)'
  BY DEF ReturnOK
<1> QED BY <1>1, <1>2, <1>3

\* A step of a process that was spawned by a test, or whose run timed out.
LEMMA Unwatched ==
  ASSUME NEW p \in Procs, child'[p].state # "none", runs'[p] # "returned",
         thread'.at # "run"
  PROVE  ProcessOK(p)'
  BY DEF ProcessOK, UnbornOK, RunOK, ReturnOK

\* Closing descriptors leaves nobody a new reader.
LEMMA ClosedReaders ==
  ASSUME NEW ns, fds' = Closed(ns) \/ fds' = fds, NEW p \in Procs, NEW s \in Streams,
         HasReader(p, s)'
  PROVE  HasReader(p, s)
<1>1. PICK n \in Fds : fds'[n] = [proc |-> p, stream |-> s]
  BY DEF HasReader
<1>2. fds'[n] = fds[n] \/ fds'[n] = Free
  BY DEF Closed
<1>3. Free # [proc |-> p, stream |-> s]
  BY DEF Free, Streams
<1> QED BY <1>1, <1>2, <1>3 DEF HasReader

\* What a spawn leaves of the others, and of what the process had done before.
LEMMA SpawnedOthers ==
  ASSUME TypeOK, NEW p \in Procs, Spawned(p)
  PROVE  /\ \A q \in Procs, s \in Streams : q # p /\ HasReader(q, s)' => HasReader(q, s)
         /\ child'[p].signal = child[p].signal /\ child'[p].wrote = child[p].wrote
<1>1. ASSUME NEW q \in Procs, NEW s \in Streams, q # p, HasReader(q, s)'
      PROVE  HasReader(q, s)
  <2>1. PICK n \in Fds : fds'[n] = [proc |-> q, stream |-> s]
    BY <1>1 DEF HasReader
  <2>2. fds'[n].proc = q
    BY <2>1
  <2>3. ASSUME NEW t \in Streams, n = handle'[p].fd[t][1]
        PROVE  FALSE
    <3>1. fds'[n] = [proc |-> p, stream |-> t]
      BY <2>3, SpawnedFacts
    <3>2. fds'[n].proc = p
      BY <3>1
    <3> QED BY <1>1, <2>2, <3>2
  <2>4. fds'[n] = fds[n]
    BY <2>3, SpawnedFacts
  <2> QED BY <2>1, <2>4 DEF HasReader
<1>2. PICK output, input :
        child' = [child EXCEPT ![p].state = "running",
                               ![p].output = output, ![p].input = input]
  BY DEF Spawned
<1>3. child'[p].signal = child[p].signal /\ child'[p].wrote = child[p].wrote
  BY <1>2 DEF TypeOK, Child
<1> QED BY <1>1, <1>3

LEMMA OpenedBorn ==
  ASSUME FdInv, NEW p \in Procs, handle[p].opened
  PROVE  child[p].state # "none"
  BY DEF FdInv, Ordered

-----------------------------------------------------------------------------
(* The steps of a test.                                                    *)

LEMMA SpawnRun ==
  ASSUME TypedInv, RunInv, NEW p \in Procs, Spawn(p)
  PROVE  RunInv'
<1> SUFFICES ASSUME NEW q \in Procs PROVE ProcessOK(q)'
  BY DEF RunInv
<1>1. TypeOK /\ Spawned(p) /\ thread'.at # "run" /\ UNCHANGED <<pipe, got, runs>>
  BY DEF TypedInv, TypeInv, Spawn, Called
<1>2. CASE q = p
  <2>1. child[p].state = "none" /\ ProcessOK(p)
    BY DEF Spawn, Fresh, RunInv
  <2>2. runs[p] = "none"
    BY <2>1 DEF ProcessOK, UnbornOK
  <2>3. child'[p].state = "running"
    BY <1>1, SpawnedFacts
  <2> QED BY <1>1, <1>2, <2>2, <2>3, Unwatched
<1>3. CASE q # p
  <2>1. child'[q] = child[q]
    BY <1>1, <1>3, SpawnedFacts
  <2>2. \A s \in Streams : HasReader(q, s)' => HasReader(q, s)
    BY <1>1, <1>3, SpawnedOthers
  <2>3. ProcessOK(q)
    BY DEF RunInv
  <2> QED BY <1>1, <2>1, <2>2, <2>3, Unmoved
<1> QED BY <1>2, <1>3

LEMMA SpawnFailsRun ==
  ASSUME TypedInv, RunInv, NEW p \in Procs, SpawnFails(p)
  PROVE  RunInv'
<1> SUFFICES ASSUME NEW q \in Procs PROVE ProcessOK(q)'
  BY DEF RunInv
<1>1. /\ TypeOK /\ thread'.at # "run" /\ UNCHANGED <<pipe, got, runs>>
      /\ fds' = Closed({0}) \/ fds' = fds
      /\ child' = [child EXCEPT ![p].state = "reaped"]
      /\ child[p].state = "none" /\ ProcessOK(p) /\ ProcessOK(q)
  BY DEF TypedInv, TypeInv, SpawnFails, Called, Fresh, RunInv
<1>2. CASE q = p
  <2>1. runs[p] = "none"
    BY <1>1 DEF ProcessOK, UnbornOK
  <2>2. child'[p].state = "reaped"
    BY <1>1 DEF TypeOK, Child
  <2> QED BY <1>1, <1>2, <2>1, <2>2, Unwatched
<1>3. CASE q # p
  <2>1. child'[q] = child[q]
    BY <1>1, <1>3 DEF TypeOK
  <2>2. \A s \in Streams : HasReader(q, s)' => HasReader(q, s)
    BY <1>1, ClosedReaders
  <2> QED BY <1>1, <2>1, <2>2, Unmoved
<1> QED BY <1>2, <1>3

LEMMA StartRunRun ==
  ASSUME TypedInv, RunInv, NEW p \in Procs, StartRun(p)
  PROVE  RunInv'
<1> SUFFICES ASSUME NEW q \in Procs PROVE ProcessOK(q)'
  BY DEF RunInv
<1>1. /\ TypeOK /\ Spawned(p) /\ UNCHANGED <<pipe, got>>
      /\ thread' = [Idle EXCEPT !.at = "run", !.proc = p, !.step = "wait"]
      /\ child[p].state = "none" /\ ProcessOK(p) /\ ProcessOK(q)
  BY DEF TypedInv, TypeInv, StartRun, Fresh, RunInv
<1>2. thread'.proc = p /\ thread'.step = "wait"
  BY <1>1 DEF Idle
<1>3. /\ runs'[p] \in {"timed", "waiting"}
      /\ q # p => runs'[q] = runs[q]
  BY <1>1 DEF StartRun, TypeOK
<1>4. CASE q = p
  <2>1. /\ handle'[p].files = Streams /\ handle'[p].pid /\ child'[p].state = "running"
        /\ \A s \in Streams : fds'[handle'[p].fd[s][1]] = [proc |-> p, stream |-> s]
    BY <1>1, SpawnedFacts
  <2>2. child'[p].signal = child[p].signal /\ child'[p].wrote = child[p].wrote
    BY <1>1, SpawnedOthers
  <2>3. /\ child[p].signal = "none"
        /\ \A s \in Outputs : pipe[p][s] = 0 /\ got[p][s] = 0 /\ child[p].wrote[s] = 0
    BY <1>1 DEF ProcessOK, UnbornOK
  <2>4. Polling(p)'
    BY <2>1, <2>2, <2>3 DEF Polling
  <2>5. Balanced(p)'
    BY <1>1, <2>2, <2>3 DEF Balanced
  <2>6. RunOK(p)'
    BY <1>2, <2>1, <2>4, <2>5 DEF RunOK, At
  <2> QED BY <1>3, <1>4, <2>1, <2>6 DEF ProcessOK, UnbornOK, ReturnOK
<1>5. CASE q # p
  <2>1. child'[q] = child[q]
    BY <1>1, <1>5, SpawnedFacts
  <2>2. \A s \in Streams : HasReader(q, s)' => HasReader(q, s)
    BY <1>1, <1>5, SpawnedOthers
  <2> QED BY <1>1, <1>2, <1>3, <1>5, <2>1, <2>2, Unmoved
<1> QED BY <1>4, <1>5

\* A call on a handle that a test holds.
LEMMA HeldRun ==
  ASSUME TypedInv, FdInv, RunInv, NEW p \in Procs, Wait(p) \/ Kill(p) \/ StartWrite(p)
         \/ \E s \in Outputs, want \in {1, All} : StartRead(p, s, want)
  PROVE  RunInv'
<1> SUFFICES ASSUME NEW q \in Procs PROVE ProcessOK(q)'
  BY DEF RunInv
<1>1. /\ TypeOK /\ PidOwned /\ ProcessOK(q) /\ UNCHANGED <<pipe, got, runs>>
      /\ runs[p] = "none" /\ handle[p].opened
  BY DEF TypedInv, TypeInv, RunInv, Wait, Kill, StartWrite, StartRead, Held
<1>2. thread'.at # "run"
  <2>1. CASE UNCHANGED thread /\ Called
    BY <2>1 DEF Called
  <2>2. CASE StartWrite(p)
    BY <2>2 DEF StartWrite, Idle
  <2>3. CASE \E s \in Outputs, want \in {1, All} : StartRead(p, s, want)
    BY <2>3 DEF StartRead, Idle
  <2> QED BY <2>1, <2>2, <2>3 DEF Wait, Kill
<1>3. /\ SameAge(p)
      /\ q # p => child'[q] = child[q]
      /\ \A s \in Streams : HasReader(q, s)' => HasReader(q, s)
  <2>1. CASE Wait(p)
    <3>1. Reap(p) /\ fds' = fds
      BY <2>1 DEF Wait
    <3>2. q # p => child'[q] = child[q]
      BY <1>1, <3>1 DEF Reap, TypeOK
    <3> QED BY <1>1, <3>1, <3>2, ReapFacts DEF HasReader
  <2>2. CASE Kill(p)
    <3>1. KillProc(p) /\ fds' = Closed(Numbers(handle[p]))
      BY <2>2 DEF Kill, KillProc
    <3>2. q # p => child'[q] = child[q]
      BY <1>1, <3>1 DEF KillProc, TypeOK
    <3>3. SameAge(p)
      BY <1>1, <3>1, KillFacts
    <3> QED BY <3>1, <3>2, <3>3, ClosedReaders
  <2>3. CASE UNCHANGED <<fds, child>>
    BY <2>3 DEF SameAge, HasReader
  <2> QED BY <2>1, <2>2, <2>3 DEF StartWrite, StartRead
<1>4. CASE q = p
  <2>1. child[p].state # "none"
    BY <1>1, OpenedBorn
  <2>2. child'[p].state # "none"
    BY <1>3, <2>1 DEF SameAge
  <2>3. runs'[p] # "returned"
    BY <1>1
  <2> QED BY <1>2, <1>4, <2>2, <2>3, Unwatched
<1>5. CASE q # p
  <2>1. child'[q] = child[q] /\ \A s \in Streams : HasReader(q, s)' => HasReader(q, s)
    BY <1>3, <1>5
  <2>2. got'[q] = got[q] /\ runs'[q] = runs[q] /\ \A s \in Outputs : pipe'[q][s] = pipe[q][s]
    BY <1>1
  <2> QED BY <1>1, <1>2, <2>1, <2>2, Unmoved
<1> QED BY <1>4, <1>5

-----------------------------------------------------------------------------
(* The steps of a call under way.                                          *)

LEMMA WriteRun ==
  ASSUME TypedInv, RunInv, Write
  PROVE  RunInv'
<1> SUFFICES ASSUME NEW q \in Procs PROVE ProcessOK(q)'
  BY DEF RunInv
<1>1. TypeOK /\ ProcessOK(q) /\ UNCHANGED <<fds, handle, child, got, runs>>
  BY DEF TypedInv, TypeInv, RunInv, Write
<1>2. thread'.at # "run"
  BY DEF Write, Idle
<1>3. \A s \in Outputs : pipe'[q][s] = pipe[q][s]
  <2>1. \A s \in Outputs : s # "stdin" /\ s \in Streams
    BY DEF Outputs, Streams
  <2>2. \/ pipe' = pipe
        \/ \E r \in {At(thread.proc, "stdin").proc} :
             pipe' = [pipe EXCEPT ![r]["stdin"] = @ + 1]
    BY DEF Write
  <2> QED BY <1>1, <2>1, <2>2 DEF TypeOK
<1>4. \A s \in Streams : HasReader(q, s)' => HasReader(q, s)
  BY <1>1 DEF HasReader
<1> QED BY <1>1, <1>2, <1>3, <1>4, Unmoved

\* What a run under way knows of its process.
LEMMA OwnRun ==
  ASSUME TypedInv, RunInv, thread.at = "run"
  PROVE  LET p == thread.proc IN
         /\ p \in Procs /\ handle[p].opened /\ runs[p] \in {"waiting", "timed"}
         /\ thread.step # "call" /\ Balanced(p)
         /\ \A s \in handle[p].files : At(p, s) = [proc |-> p, stream |-> s]
         /\ thread.step = "wait" => Polling(p)
         /\ thread.step # "wait" => Collecting(p)
         /\ thread.step \in Outputs => /\ thread.stream = thread.step
                                       /\ thread.step \in handle[p].files
<1>1. thread.proc \in Procs /\ ThreadOK
  BY DEF TypedInv, TypeInv, ThreadOK
<1>2. RunOK(thread.proc)
  BY <1>1 DEF RunInv, ProcessOK
<1> QED BY <1>1, <1>2 DEF ThreadOK, RunOK, Outputs

LEMMA ReadUnitRun ==
  ASSUME TypedInv, FdInv, RunInv, ReadUnit
  PROVE  RunInv'
<1> SUFFICES ASSUME NEW q \in Procs PROVE ProcessOK(q)'
  BY DEF RunInv
<1> DEFINE p == thread.proc
           s == thread.stream
           end == At(p, s)
<1>1. /\ TypeOK /\ ThreadOK /\ ProcessOK(q) /\ UNCHANGED <<fds, handle, child, runs>>
      /\ thread'.at = thread.at /\ thread'.proc = p
      /\ thread'.step = thread.step /\ thread'.stream = s
      /\ handle[p].pid \/ thread'.want = thread.want
      /\ pipe[end.proc][end.stream] > 0 /\ end.stream \in Outputs
      /\ pipe' = [pipe EXCEPT ![end.proc][end.stream] = @ - 1]
      /\ got' = [got EXCEPT ![p][s] = @ + 1]
  BY DEF TypedInv, TypeInv, RunInv, ReadUnit, TypeOK, Thread
<1>2. /\ q # p => got'[q] = got[q]
      /\ q # end.proc => pipe'[q] = pipe[q]
      /\ \A t \in Streams : HasReader(q, t)' <=> HasReader(q, t)
  BY <1>1 DEF TypeOK, HasReader
<1>3. CASE thread.at = "read"
  <2>1. p \in Procs /\ handle[p].opened /\ runs[p] = "none"
    BY <1>1, <1>3 DEF ThreadOK
  <2>2. CASE q = p
    <3>1. child'[q].state # "none"
      BY <1>1, <2>1, <2>2, OpenedBorn
    <3> QED BY <1>1, <1>3, <2>1, <2>2, <3>1, Unwatched
  <2>3. CASE q # p
    <3>1. UnbornOK(q)'
      BY <1>1, <1>2, <2>3 DEF ProcessOK, UnbornOK
    <3>2. ReturnOK(q)'
      BY <1>1, <1>2, <2>3 DEF ProcessOK, ReturnOK
    <3> QED BY <1>1, <1>3, <3>1, <3>2 DEF ProcessOK, RunOK
  <2> QED BY <2>2, <2>3
<1>4. CASE thread.at = "run"
  <2>1. /\ p \in Procs /\ runs[p] \in {"waiting", "timed"} /\ Balanced(p) /\ Collecting(p)
        /\ \A t \in handle[p].files : At(p, t) = [proc |-> p, stream |-> t]
        /\ s = thread.step /\ s \in Outputs /\ s \in handle[p].files /\ thread.step # "wait"
    BY <1>4, OwnRun DEF ReadUnit, Draining, Outputs
  <2>2. end = [proc |-> p, stream |-> s]
    BY <2>1
  <2>3. end.proc = p /\ end.stream = s
    BY <2>2
  <2>4. CASE q = p
    <3>1. Balanced(p)'
      <4> SUFFICES ASSUME NEW t \in Outputs PROVE got'[p][t] + pipe'[p][t] = child[p].wrote[t]
        BY <1>1 DEF Balanced
      <4>1. got[p][t] + pipe[p][t] = child[p].wrote[t]
        BY <2>1 DEF Balanced
      <4>2. got[p][t] \in Nat /\ pipe[p][t] \in Nat /\ t \in Streams /\ s \in Streams
        BY <1>1, <2>1, SizesAssumption DEF TypeOK, Outputs, Streams
      <4>3. got'[p][t] = IF t = s THEN got[p][t] + 1 ELSE got[p][t]
        BY <1>1, <2>1 DEF TypeOK
      <4>4. pipe'[p][t] = IF t = s THEN pipe[p][t] - 1 ELSE pipe[p][t]
        BY <1>1, <2>1, <2>3, <4>2 DEF TypeOK
      <4> QED BY <4>1, <4>2, <4>3, <4>4
    <3>2. Collecting(p)'
      <4>1. thread.step = "stderr" => got'[p]["stdout"] = got[p]["stdout"]
        BY <1>1, <2>1 DEF TypeOK, Outputs
      <4> QED BY <1>1, <2>1, <4>1 DEF Collecting
    <3>3. \A t \in handle'[p].files : At(p, t)' = [proc |-> p, stream |-> t]
      BY <1>1, <2>1 DEF At
    <3>4. RunOK(p)'
      BY <1>1, <2>1, <3>1, <3>2, <3>3 DEF RunOK
    <3>5. UnbornOK(p)' /\ ReturnOK(p)'
      BY <1>1, <2>1 DEF UnbornOK, ReturnOK, Collecting
    <3> QED BY <1>1, <2>4, <3>4, <3>5 DEF ProcessOK
  <2>5. CASE q # p
    BY <1>1, <1>2, <2>3, <2>5, Unmoved
  <2> QED BY <2>4, <2>5
<1> QED BY <1>3, <1>4 DEF ReadUnit, Draining

LEMMA FinishReadRun ==
  ASSUME TypedInv, RunInv, FinishRead
  PROVE  RunInv'
<1> SUFFICES ASSUME NEW q \in Procs PROVE ProcessOK(q)'
  BY DEF RunInv
<1>1. ProcessOK(q) /\ UNCHANGED <<child, pipe, got, runs>> /\ thread'.at # "run"
  BY DEF RunInv, FinishRead, Idle
<1>2. fds' = Closed({handle[thread.proc].fd[thread.stream][1]}) \/ fds' = fds
  BY DEF FinishRead, CloseDrained
<1>3. \A s \in Streams : HasReader(q, s)' => HasReader(q, s)
  BY <1>2, ClosedReaders
<1> QED BY <1>1, <1>3, Unmoved

LEMMA PollRunRun ==
  ASSUME TypedInv, FdInv, RunInv, PollRun
  PROVE  RunInv'
<1> SUFFICES ASSUME NEW q \in Procs PROVE ProcessOK(q)'
  BY DEF RunInv
<1> DEFINE p == thread.proc
<1>1. /\ TypeOK /\ PidOwned /\ ProcessOK(q) /\ Reap(p) /\ UNCHANGED <<fds, pipe, got, runs>>
      /\ p \in Procs /\ handle[p].opened /\ runs[p] \in {"waiting", "timed"}
      /\ Balanced(p) /\ Polling(p)
      /\ \A s \in handle[p].files : At(p, s) = [proc |-> p, stream |-> s]
      /\ thread.at = "run" /\ thread.step = "wait"
  BY OwnRun DEF TypedInv, TypeInv, RunInv, PollRun
<1>2. /\ \A s \in Streams : HasReader(q, s)' <=> HasReader(q, s)
      /\ thread'.proc = p
  BY <1>1 DEF HasReader, PollRun, TypeOK, Thread
<1>3. CASE handle[p].pid /\ child[p].state = "exited"
  <2>1. /\ child' = [child EXCEPT ![p].state = "reaped"]
        /\ handle' = [handle EXCEPT ![p].pid = FALSE]
    BY <1>1, <1>3 DEF Reap
  <2>2. /\ child'[p].state = "reaped" /\ child'[p].wrote = child[p].wrote
        /\ child'[p].output = child[p].output /\ child'[p].left = child[p].left
        /\ ~handle'[p].pid /\ handle'[p].files = handle[p].files
        /\ handle'[p].fd = handle[p].fd
        /\ q # p => child'[q] = child[q]
    BY <1>1, <2>1 DEF TypeOK, Child, Handle
  <2>3. /\ thread'.at = "run" /\ thread'.step = "stdout" /\ thread'.want > 0
    BY <1>1, <2>2, SizesAssumption DEF PollRun, TypeOK, Thread, All
  <2>4. CASE q = p
    <3>1. RunOK(q)'
      <4>1. Balanced(q)'
        BY <1>1, <2>2, <2>4 DEF Balanced
      <4>2. Collecting(q)'
        BY <1>1, <1>3, <2>2, <2>3, <2>4 DEF Collecting, Polling
      <4>3. \A s \in handle'[q].files : At(q, s)' = [proc |-> q, stream |-> s]
        BY <1>1, <2>2, <2>4 DEF At
      <4> QED BY <2>3, <4>1, <4>2, <4>3 DEF RunOK
    <3>2. UnbornOK(q)' /\ ReturnOK(q)'
      BY <1>1, <2>2, <2>4 DEF UnbornOK, ReturnOK
    <3> QED BY <3>1, <3>2 DEF ProcessOK
  <2>5. CASE q # p
    BY <1>1, <1>2, <2>2, <2>5, Unmoved
  <2> QED BY <2>4, <2>5
<1>4. CASE ~(handle[p].pid /\ child[p].state = "exited")
  <2>1. child' = child /\ handle' = handle
    BY <1>1, <1>4 DEF Reap
  <2>2. child[p].state # "reaped"
    BY <1>1 DEF Polling, PidOwned
  <2>3. thread' = thread
    BY <2>1, <2>2 DEF PollRun
  <2>4. \A s \in handle[q].files : At(q, s)' = At(q, s)
    BY <1>1, <2>1 DEF At
  <2> QED BY <1>1, <1>2, <2>1, <2>3, <2>4, Unmoved
<1> QED BY <1>3, <1>4

LEMMA ExpireRunRun ==
  ASSUME TypedInv, FdInv, RunInv, ExpireRun
  PROVE  RunInv'
<1> SUFFICES ASSUME NEW q \in Procs PROVE ProcessOK(q)'
  BY DEF RunInv
<1> DEFINE p == thread.proc
<1>1. /\ TypeOK /\ ProcessOK(q) /\ UNCHANGED <<fds, handle, child, pipe, got>>
      /\ p \in Procs /\ handle[p].opened /\ thread'.at # "run"
      /\ runs' = [runs EXCEPT ![p] = "timeout"]
  BY OwnRun DEF TypedInv, TypeInv, RunInv, ExpireRun, Idle
<1>2. /\ \A s \in Streams : HasReader(q, s)' <=> HasReader(q, s)
      /\ q # p => runs'[q] = runs[q]
      /\ q = p => runs'[q] = "timeout"
  BY <1>1 DEF HasReader, TypeOK
<1>3. CASE q = p
  <2>1. child'[q].state # "none"
    BY <1>1, <1>3, OpenedBorn
  <2> QED BY <1>1, <1>2, <1>3, <2>1, Unwatched
<1>4. CASE q # p
  BY <1>1, <1>2, <1>4, Unmoved
<1> QED BY <1>3, <1>4

\* A stream of a run that ends has given all that was written to it, and nobody
\* is left who might write more.
LEMMA StreamRead ==
  ASSUME TypedInv, RunInv, thread.at = "run", thread.step \in Outputs, ReadEnds
  PROVE  /\ got[thread.proc][thread.step] = child[thread.proc].wrote[thread.step]
         /\ ~child[thread.proc].left
<1> DEFINE p == thread.proc
           s == thread.step
<1>1. /\ p \in Procs /\ Balanced(p) /\ Collecting(p)
      /\ thread.stream = s /\ At(p, s) = [proc |-> p, stream |-> s]
  BY OwnRun DEF Outputs
<1>2. At(p, s).proc = p /\ At(p, s).stream = s
  BY <1>1
<1>3. TypeOK /\ s \in Streams
  BY DEF TypedInv, TypeInv, Outputs, Streams
<1>4. pipe[p][s] = 0 /\ ~child[p].left
  BY <1>1, <1>2, <1>3, SizesAssumption DEF ReadEnds, Alive, Collecting, TypeOK, Thread
<1>5. got[p][s] + 0 = child[p].wrote[s]
  BY <1>1, <1>4 DEF Balanced
<1>6. got[p][s] \in Nat
  BY <1>1, <1>3 DEF TypeOK
<1> QED BY <1>4, <1>5, <1>6

LEMMA NextStreamRun ==
  ASSUME TypedInv, RunInv, NextStream
  PROVE  RunInv'
<1> SUFFICES ASSUME NEW q \in Procs PROVE ProcessOK(q)'
  BY DEF RunInv
<1> DEFINE p == thread.proc
<1>1. /\ TypeOK /\ ProcessOK(q) /\ UNCHANGED <<child, pipe, got, runs>>
      /\ p \in Procs /\ runs[p] \in {"waiting", "timed"}
      /\ Balanced(p) /\ Collecting(p) /\ "stdout" \in handle[p].files
      /\ \A s \in handle[p].files : At(p, s) = [proc |-> p, stream |-> s]
      /\ thread.at = "run" /\ thread.step = "stdout"
      /\ fds' = Closed({handle[p].fd["stdout"][1]})
      /\ handle' = [handle EXCEPT ![p].files = @ \ {"stdout"}]
  <2>1. thread.at = "run" /\ thread.step = "stdout" /\ "stdout" \in Outputs
    BY DEF NextStream, Outputs
  <2>2. p \in Procs /\ Collecting(p)
    BY <2>1, OwnRun
  <2>3. ~handle[p].pid
    BY <2>2 DEF Collecting
  <2> QED BY <2>1, <2>3, OwnRun DEF TypedInv, TypeInv, RunInv, NextStream, CloseDrained
<1>2. got[p]["stdout"] = child[p].wrote["stdout"] /\ ~child[p].left
  BY <1>1, StreamRead DEF NextStream, Outputs
<1>3. /\ thread'.proc = p /\ thread'.at = "run" /\ thread'.step = "stderr"
      /\ thread'.want = thread.want
  BY <1>1 DEF NextStream, TypeOK, Thread
<1>4. /\ handle'[p].files = handle[p].files \ {"stdout"} /\ handle'[p].fd = handle[p].fd
      /\ handle'[p].pid = handle[p].pid
  BY <1>1 DEF TypeOK, Handle
<1>5. CASE q = p
  <2>1. ASSUME NEW s \in handle[q].files, s # "stdout"
        PROVE  At(q, s)' = [proc |-> q, stream |-> s]
    <3>1. At(q, s) = [proc |-> q, stream |-> s] /\ At(q, "stdout") = [proc |-> q, stream |-> "stdout"]
      BY <1>1, <1>5
    <3>2. At(q, s).stream # At(q, "stdout").stream
      BY <2>1, <3>1
    <3>3. handle[q].fd[s][1] # handle[q].fd["stdout"][1]
      BY <3>2 DEF At
    <3>4. handle[q].fd[s][1] \in Fds
      BY <1>1, HandleNumbers
    <3>5. fds'[handle[q].fd[s][1]] = fds[handle[q].fd[s][1]]
      BY <1>1, <1>5, <3>3, <3>4 DEF Closed
    <3> QED BY <1>4, <1>5, <3>1, <3>5 DEF At
  <2>2. \A s \in handle'[q].files : At(q, s)' = [proc |-> q, stream |-> s]
    BY <1>4, <1>5, <2>1
  <2>3. Collecting(q)'
    BY <1>1, <1>2, <1>3, <1>4, <1>5 DEF Collecting
  <2>4. Balanced(q)'
    BY <1>1, <1>5 DEF Balanced
  <2>5. RunOK(q)'
    BY <1>3, <2>2, <2>3, <2>4 DEF RunOK
  <2>6. UnbornOK(q)' /\ ReturnOK(q)'
    BY <1>1, <1>5 DEF UnbornOK, ReturnOK, Collecting
  <2> QED BY <2>5, <2>6 DEF ProcessOK
<1>6. CASE q # p
  <2>1. \A s \in Streams : HasReader(q, s)' => HasReader(q, s)
    BY <1>1, ClosedReaders
  <2> QED BY <1>1, <1>3, <1>6, <2>1, Unmoved
<1> QED BY <1>5, <1>6

LEMMA FinishRunRun ==
  ASSUME TypedInv, RunInv, FdInv', FinishRun
  PROVE  RunInv'
<1> SUFFICES ASSUME NEW q \in Procs PROVE ProcessOK(q)'
  BY DEF RunInv
<1> DEFINE p == thread.proc
<1>1. /\ TypeOK /\ PidOwned /\ ProcessOK(q) /\ UNCHANGED <<pipe, got>> /\ KillProc(p)
      /\ thread.at = "run" /\ thread.step = "stderr" /\ thread'.at # "run"
      /\ runs' = [runs EXCEPT ![p] = "returned"]
      /\ p \in Procs /\ Collecting(p)
  <2>1. thread.at = "run" /\ thread.step = "stderr"
    BY DEF FinishRun
  <2> QED BY <2>1, OwnRun DEF TypedInv, TypeInv, RunInv, FinishRun, Idle
<1>2. \A s \in Outputs : got[p][s] = child[p].wrote[s]
  BY <1>1, StreamRead DEF FinishRun, Collecting, Outputs
<1>3. child' = child
  <2>1. ~handle[p].pid
    BY <1>1 DEF Collecting
  <2>2. child' = [child EXCEPT ![p].state = child[p].state, ![p].signal = child[p].signal]
    <3>1. PICK reaped \in BOOLEAN :
            /\ reaped => handle[p].pid
            /\ child' = [child EXCEPT
                 ![p].state = IF reaped THEN "reaped" ELSE @,
                 ![p].signal = IF handle[p].pid THEN "SIGTERM" ELSE @]
      BY <1>1 DEF KillProc
    <3> QED BY <2>1, <3>1
  <2> QED BY <1>1, <2>2 DEF TypeOK, Child
<1>4. CASE q = p
  <2>1. got[q] = child[q].wrote
    <3>1. got[q] \in [Outputs -> Nat] /\ child[q].wrote \in [Outputs -> Nat]
      BY <1>1 DEF TypeOK, Child
    <3> QED BY <1>2, <1>4, <3>1
  <2>2. \A s \in Streams : ~HasReader(q, s)'
    BY <1>1, <1>4, KillFacts DEF FdInv, KilledGone
  <2>3. ReturnOK(q)'
    BY <1>1, <1>3, <1>4, <2>1, <2>2 DEF ReturnOK, Collecting
  <2>4. UnbornOK(q)'
    BY <1>1, <1>3, <1>4 DEF UnbornOK, Collecting
  <2> QED BY <1>1, <2>3, <2>4 DEF ProcessOK, RunOK
<1>5. CASE q # p
  <2>1. \A s \in Streams : HasReader(q, s)' => HasReader(q, s)
    BY <1>1, ClosedReaders DEF KillProc
  <2>2. runs'[q] = runs[q]
    BY <1>1, <1>5 DEF TypeOK
  <2> QED BY <1>1, <1>3, <1>5, <2>1, <2>2, Unmoved
<1> QED BY <1>4, <1>5

-----------------------------------------------------------------------------
(* A process that goes on, and the theorem.                                *)

LEMMA ChildRun ==
  ASSUME TypedInv, RunInv, NEW p \in Procs, ProcessStep(p)
  PROVE  RunInv'
<1> SUFFICES ASSUME NEW q \in Procs PROVE ProcessOK(q)'
  BY DEF RunInv
<1>1. /\ TypeOK /\ ProcessOK(p) /\ ProcessOK(q) /\ UNCHANGED <<fds, handle, thread, got, runs>>
      /\ Alive(p) /\ child[p].state # "none"
      /\ child'[p].state = "none" <=> child[p].state = "none"
  <2>1. /\ TypeOK /\ ProcessOK(p) /\ ProcessOK(q)
        /\ UNCHANGED <<fds, handle, thread, got, runs>> /\ Alive(p)
    BY DEF TypedInv, TypeInv, RunInv, ProcessStep, ChildStep, ChildReads, ChildWrites,
           ChildEnds, Leaves, LeftEnds, Alive
  <2>2. child[p].state # "none"
    BY <2>1 DEF ProcessOK, UnbornOK, Alive
  <2>3. SameAge(p)
    BY ChildTyped
  <2> QED BY <2>1, <2>2, <2>3 DEF SameAge
<1>2. /\ \A s \in Streams : HasReader(q, s)' <=> HasReader(q, s)
      /\ \A s \in handle[q].files : At(q, s)' = At(q, s)
  BY <1>1 DEF HasReader, At
<1>3. CASE q # p
  <2>1. child'[q] = child[q] /\ pipe'[q] = pipe[q]
    BY <1>1, <1>3 DEF TypeOK, ProcessStep, ChildStep, ChildReads, ChildWrites, ChildEnds,
                      Leaves, LeftEnds
  <2> QED BY <1>1, <1>2, <2>1, Unmoved
<1>4. CASE q = p
  <2>1. ASSUME child'[p].signal = child[p].signal, Balanced(p) => Balanced(p)',
               child[p].state = "reaped" => child'[p].state = "reaped",
               child[p].state \in {"running", "exited"} =>
                 child'[p].state \in {"running", "exited"},
               child'[p].state # "running" /\ ~child'[p].left =>
                 \/ child'[p].wrote = child'[p].output
                 \/ child[p].state = "running" /\ child[p].signal # "none"
                 \/ \E s \in Streams : ~HasReader(p, s)
        PROVE  ProcessOK(p)'
    <3>1. UnbornOK(p)'
      BY <1>1 DEF UnbornOK
    <3>2. ReturnOK(p)'
      BY <1>1 DEF ReturnOK, ProcessOK, Alive
    <3>3. ASSUME thread.at = "run", thread.proc = p
          PROVE  /\ Balanced(p)'
                 /\ \A s \in handle'[p].files : At(p, s)' = [proc |-> p, stream |-> s]
                 /\ IF thread.step = "wait" THEN Polling(p)' ELSE Collecting(p)'
      <4>1. /\ Balanced(p) /\ \A s \in handle[p].files : At(p, s) = [proc |-> p, stream |-> s]
            /\ handle[p].files = Streams
            /\ IF thread.step = "wait" THEN Polling(p)
               ELSE Collecting(p) /\ thread.step # "stderr"
        BY <1>1, <3>3 DEF ProcessOK, RunOK, Polling, Collecting, Alive
      <4>2. \A s \in Streams : HasReader(p, s)
        <5>1. \A s \in Streams : handle[p].fd[s][1] \in Fds
          BY <1>1, HandleNumbers
        <5> QED BY <4>1, <5>1 DEF At, HasReader
      <4>3. thread.step = "wait" => Polling(p)'
        BY <1>1, <2>1, <4>1, <4>2 DEF Polling
      <4>4. thread.step # "wait" => Collecting(p)'
        BY <1>1, <2>1, <4>1, <4>2 DEF Collecting
      <4> QED BY <1>1, <1>2, <1>4, <2>1, <4>1, <4>3, <4>4
    <3>4. RunOK(p)'
      BY <1>1, <3>3 DEF RunOK
    <3> QED BY <3>1, <3>2, <3>4 DEF ProcessOK
  <2>2. CASE ChildReads(p)
    <3>1. /\ child'[p].state = child[p].state /\ child'[p].signal = child[p].signal
          /\ child'[p].wrote = child[p].wrote /\ child'[p].left = child[p].left
      BY <1>1, <2>2 DEF ChildReads, TypeOK, Child
    <3>2. \A s \in Outputs : pipe'[p][s] = pipe[p][s]
      <4>1. \A s \in Outputs : s # "stdin" /\ s \in Streams
        BY DEF Outputs, Streams
      <4> QED BY <1>1, <2>2, <4>1 DEF ChildReads, TypeOK
    <3>3. Balanced(p) => Balanced(p)'
      BY <1>1, <3>1, <3>2 DEF Balanced
    <3> QED BY <1>1, <1>4, <2>1, <3>1, <3>3 DEF Alive
  <2>3. CASE ChildEnds(p)
    <3>1. /\ child[p].state = "running"
          /\ child'[p].state = "exited" /\ child'[p].signal = child[p].signal
          /\ child'[p].wrote = child[p].wrote /\ child'[p].output = child[p].output
          /\ pipe' = pipe
      BY <1>1, <2>3 DEF ChildEnds, TypeOK, Child
    <3>2. Balanced(p) => Balanced(p)'
      BY <1>1, <3>1 DEF Balanced
    <3>3. \/ child[p].wrote = child[p].output
          \/ child[p].signal # "none"
          \/ \E s \in Streams : ~HasReader(p, s)
      BY <2>3 DEF ChildEnds, Done, Stranded
    <3> QED BY <1>4, <2>1, <3>1, <3>2, <3>3
  <2>5. CASE Leaves(p)
    <3>1. /\ child[p].state = "running" /\ child'[p].state = "exited" /\ child'[p].left
          /\ child'[p].signal = child[p].signal /\ child'[p].wrote = child[p].wrote
          /\ pipe' = pipe
      BY <1>1, <2>5 DEF Leaves, TypeOK, Child
    <3>2. Balanced(p) => Balanced(p)'
      BY <1>1, <3>1 DEF Balanced
    <3> QED BY <1>4, <2>1, <3>1, <3>2
  <2>6. CASE LeftEnds(p)
    <3>1. /\ child'[p].state = child[p].state /\ child'[p].signal = child[p].signal
          /\ child'[p].wrote = child[p].wrote /\ child'[p].output = child[p].output
          /\ pipe' = pipe
      BY <1>1, <2>6 DEF LeftEnds, TypeOK, Child
    <3>2. Balanced(p) => Balanced(p)'
      BY <1>1, <3>1 DEF Balanced
    <3>3. child[p].wrote = child[p].output \/ \E s \in Streams : ~HasReader(p, s)
      BY <2>6 DEF LeftEnds, Done, Stranded
    <3> QED BY <1>4, <2>1, <3>1, <3>2, <3>3
  <2>4. ASSUME NEW s \in Outputs, ChildWrites(p, s)
        PROVE  ProcessOK(p)'
    <3>1. /\ child' = [child EXCEPT ![p].wrote[s] = @ + 1]
          /\ pipe' = [pipe EXCEPT ![p][s] = @ + 1]
          /\ child[p] \in Child /\ s \in Streams
      BY <1>1, <2>4 DEF ChildWrites, TypeOK, Outputs, Streams
    <3>2. /\ child'[p].state = child[p].state /\ child'[p].signal = child[p].signal
          /\ child'[p].left = child[p].left
          /\ child'[p].wrote = [child[p].wrote EXCEPT ![s] = @ + 1]
      BY <1>1, <3>1 DEF TypeOK, Child
    <3>3. ASSUME Balanced(p), NEW t \in Outputs
          PROVE  got'[p][t] + pipe'[p][t] = child'[p].wrote[t]
      <4>1. got[p][t] + pipe[p][t] = child[p].wrote[t]
        BY <3>3 DEF Balanced
      <4>2. got[p][t] \in Nat /\ pipe[p][t] \in Nat /\ t \in Streams
        BY <1>1, SizesAssumption DEF TypeOK, Outputs, Streams
      <4>3. pipe'[p][t] = IF t = s THEN pipe[p][t] + 1 ELSE pipe[p][t]
        BY <1>1, <3>1, <4>2 DEF TypeOK
      <4>4. child'[p].wrote[t] = IF t = s THEN child[p].wrote[t] + 1 ELSE child[p].wrote[t]
        BY <3>1, <3>2 DEF Child
      <4> QED BY <1>1, <4>1, <4>2, <4>3, <4>4
    <3>4. Balanced(p) => Balanced(p)'
      BY <3>3 DEF Balanced
    <3> QED BY <1>1, <2>1, <3>2, <3>4 DEF Alive
  <2> QED BY <1>4, <2>2, <2>3, <2>4, <2>5, <2>6 DEF ProcessStep, ChildStep
<1> QED BY <1>3, <1>4

LEMMA RunStep == TypedInv /\ FdInv /\ RunInv /\ FdInv' /\ [Next]_vars => RunInv'
<1> SUFFICES ASSUME TypedInv, FdInv, RunInv, FdInv', [Next]_vars PROVE RunInv'
  OBVIOUS
<1>1. CASE Test
  BY <1>1, SpawnRun, SpawnFailsRun, StartRunRun, HeldRun DEF Test
<1>2. CASE Blocking \/ ExpireRun
  BY <1>2, WriteRun, ReadUnitRun, FinishReadRun, PollRunRun, NextStreamRun, FinishRunRun,
     ExpireRunRun DEF Blocking
<1>3. CASE \E p \in Procs : ProcessStep(p)
  BY <1>3, ChildRun
<1>4. CASE UNCHANGED vars
  <2> SUFFICES ASSUME NEW q \in Procs PROVE ProcessOK(q)'
    BY DEF RunInv
  <2>1. ProcessOK(q) /\ \A s \in Streams : HasReader(q, s)' <=> HasReader(q, s)
    BY <1>4 DEF RunInv, vars, HasReader
  <2>2. \A s \in handle[q].files : At(q, s)' = At(q, s)
    BY <1>4 DEF vars, At
  <2> QED BY <1>4, <2>1, <2>2, Unmoved DEF vars
<1> QED BY <1>1, <1>2, <1>3, <1>4 DEF Next, Terminated, ProcessStep

\* A run that returns returns everything that was written, by its process or by
\* one that this left behind, on both streams and whatever else is open, and
\* leaves neither a process nor a pipe (lib/ltf/proc.lua: M.run reads only once
\* wait has reaped the process, to the end of each stream, and ends with kill).
THEOREM RunsComplete == Spec => []RunComplete
<1>1. Init => RunInv
  BY RunInit
<1>2. (TypedInv /\ FdInv) /\ (TypedInv /\ FdInv)' /\ RunInv /\ [Next]_vars => RunInv'
  BY RunStep
<1>3. RunInv => RunComplete
  BY DEF RunInv, ProcessOK, ReturnOK, RunComplete
<1> QED BY <1>1, <1>2, <1>3, ProcInvariant, PTL DEF Spec

=============================================================================
