---------------------------- MODULE SuiteProofs -----------------------------
(***************************************************************************)
(* Proofs about what holds the tests of a run together: their queue        *)
(* (Loading), the keywords of the one that runs (Keywords), for any        *)
(* registrations, orders and calls, and the record of them (RawLog), for   *)
(* any tests, outputs and trees of keywords.                               *)
(***************************************************************************)
EXTENDS Suite, NaturalsInduction, FiniteSetTheorems, SequenceTheorems, WellFoundedInduction,
        TLAPS

-----------------------------------------------------------------------------
(* The queue of tests.                                                     *)

Loads == Directory \cup {"validate", "order"}

\* What the code makes of the registrations, disputed names included: the
\* accepted tests, one per name, at the place of the first and with the body of
\* the last, of which an order keeps those that it names.
LastAccepted ==
  \A i \in DOMAIN tests :
    /\ tests[i].ref \in Of(tests[i].name)
    /\ \A r \in Of(tests[i].name) : r <= tests[i].ref
    /\ tests[i].tags = registered[tests[i].ref].tags

QueueExact ==
  /\ \A r \in Accepted : Queued(registered[r].name) # {}
  /\ LastAccepted
  /\ \A i, j \in DOMAIN tests : i < j =>
       \E r \in Of(tests[i].name) : \A q \in Of(tests[j].name) : r < q

OrderExact ==
  /\ LastAccepted
  /\ \A p \in DOMAIN order : Of(order[p]) # {} => Queued(order[p]) # {}
  /\ \A i \in DOMAIN tests : \E p \in DOMAIN order : order[p] = tests[i].name
  /\ \A i, j \in DOMAIN tests : i < j =>
       \E p, q \in DOMAIN order : /\ p < q
                                  /\ order[p] = tests[i].name
                                  /\ order[q] = tests[j].name

\* Every registered body is alive or was released.
Accounted == refs \cap Range(freed) = {} /\ refs \cup Range(freed) = DOMAIN registered

\* Until deinit no body was released twice, and then those of tests in the
\* queue twice.
FreedOnce ==
  /\ pc \notin Ended => IsInjective(freed)
  /\ \A i, j \in DOMAIN freed :
       i # j /\ freed[i] = freed[j] => NamedTwice(registered[freed[i]].name)

QueuedRefs == {tests[i].ref : i \in DOMAIN tests}
Raised     == {r \in DOMAIN registered : registered[r].raised}
Dropped    == {r \in DOMAIN registered : order # << >> /\ registered[r].name \notin Range(order)}

\* What is alive is in the queue, or was left by a call that raised or dropped by
\* an order; deinit empties the queue.
NoneLost ==
  /\ pc \in Loads => refs = QueuedRefs \cup Raised
  /\ refs \subseteq QueuedRefs \cup Raised \cup Dropped
  /\ pc = "exited" /\ exitcode # "130" => tests = << >>

Bodies ==
  /\ BodiesOwned /\ Accounted /\ FreedOnce /\ NoneLost
  /\ \A i \in DOMAIN tests : registered[tests[i].ref].name = tests[i].name
  /\ pc \in Loads => \A i, j \in DOMAIN tests : i # j => tests[i].ref # tests[j].ref

\* An order with a repeated name queues a test twice with one body.
LoadInv ==
  /\ TypeOK /\ order \in Orders
  /\ pc \in Loads => QueueExact
  /\ pc \in {"amount", "run"} => IF order = << >> THEN QueueExact ELSE OrderExact
  /\ Bodies

\* The tests selected have different names.
LEMMA NamesDiffer ==
  ASSUME TypeOK, QueueExact, NEW i \in DOMAIN tests, NEW j \in DOMAIN tests,
         tests[i].name = tests[j].name
  PROVE  i = j
<1>1. DOMAIN tests \subseteq Nat /\ DOMAIN registered \subseteq Nat
  BY DEF TypeOK
<1>2. ASSUME NEW k \in DOMAIN tests, NEW l \in DOMAIN tests, k < l,
             tests[k].name = tests[l].name
      PROVE  FALSE
  <2>1. PICK r \in Of(tests[k].name) : \A q \in Of(tests[l].name) : r < q
    BY <1>2 DEF QueueExact, LastAccepted
  <2>2. r < r /\ r \in Nat
    BY <1>1, <1>2, <2>1 DEF Of, Accepted
  <2> QED BY <2>2
<1>3. i \in Nat /\ j \in Nat
  BY <1>1
<1> QED BY <1>2, <1>3

-----------------------------------------------------------------------------
(* The loops of test_case_order_tests.                                     *)

\* The places are finitely many pairs of numbers.
LEMMA PlacedFinite ==
  ASSUME TypeOK, order \in Seq(Names)
  PROVE  /\ Placed \subseteq Nat \X Nat
         /\ IsFiniteSet(Placed) /\ Cardinality(Placed) \in Nat
         /\ \A p : IsFiniteSet(Earlier(p)) /\ Cardinality(Earlier(p)) \in Nat
<1> DEFINE ps == 1 .. Len(order)
           ts == 1 .. Len(tests)
<1>1. DOMAIN order = ps /\ DOMAIN tests = ts /\ Len(order) \in Nat /\ Len(tests) \in Nat
  BY DEF TypeOK
<1>2. IsFiniteSet(ps) /\ IsFiniteSet(ts)
  BY <1>1, FS_Interval
<1>3. IsFiniteSet(ps \X ts)
  BY <1>2, FS_Product
<1>4. Placed \subseteq ps \X ts
  BY <1>1 DEF Placed
<1>5. ps \X ts \subseteq Nat \X Nat
  BY <1>1
<1>6. IsFiniteSet(Placed)
  BY <1>3, <1>4, FS_Subset
<1>7. ASSUME NEW p PROVE IsFiniteSet(Earlier(p)) /\ Cardinality(Earlier(p)) \in Nat
  <2>1. Earlier(p) \subseteq Placed
    BY DEF Earlier
  <2>2. IsFiniteSet(Earlier(p))
    BY <1>6, <2>1, FS_Subset
  <2> QED BY <2>2, FS_CardinalityType
<1> QED BY <1>4, <1>5, <1>6, <1>7, FS_CardinalityType

\* An earlier place has fewer before it.
LEMMA EarlierFewer ==
  ASSUME TypeOK, order \in Seq(Names), NEW p \in Placed, NEW q \in Earlier(p)
  PROVE  Cardinality(Earlier(q)) < Cardinality(Earlier(p))
<1>1. Placed \subseteq Nat \X Nat
  BY PlacedFinite
<1>2. q \in Placed /\ p[1] \in Nat /\ p[2] \in Nat /\ q[1] \in Nat /\ q[2] \in Nat
  BY <1>1 DEF Earlier
<1>3. q \notin Earlier(q)
  BY <1>2 DEF Earlier
<1>4. ASSUME NEW r \in Earlier(q) PROVE r \in Earlier(p)
  <2>1. r \in Placed /\ r[1] \in Nat /\ r[2] \in Nat
    BY <1>1 DEF Earlier
  <2>2. r[1] < q[1] \/ (r[1] = q[1] /\ r[2] < q[2])
    BY DEF Earlier
  <2>3. q[1] < p[1] \/ (q[1] = p[1] /\ q[2] < p[2])
    BY DEF Earlier
  <2>4. r[1] < p[1] \/ (r[1] = p[1] /\ r[2] < p[2])
    BY <1>2, <2>1, <2>2, <2>3
  <2> QED BY <2>1, <2>4 DEF Earlier
<1>5. Earlier(q) \subseteq Earlier(p)
  BY <1>4
<1>6. /\ IsFiniteSet(Earlier(p)) /\ Cardinality(Earlier(p)) \in Nat
      /\ Cardinality(Earlier(q)) \in Nat
  BY PlacedFinite
<1>7. /\ Cardinality(Earlier(q)) <= Cardinality(Earlier(p))
      /\ Cardinality(Earlier(p)) = Cardinality(Earlier(q)) => Earlier(p) = Earlier(q)
  BY <1>5, <1>6, FS_Subset
<1> QED BY <1>3, <1>6, <1>7

\* Of two places one is earlier.
LEMMA EarlierTotal ==
  ASSUME TypeOK, order \in Seq(Names), NEW p \in Placed, NEW q \in Placed, p # q
  PROVE  p \in Earlier(q) \/ q \in Earlier(p)
<1>1. Placed \subseteq Nat \X Nat
  BY PlacedFinite
<1>2. /\ p[1] \in Nat /\ p[2] \in Nat /\ q[1] \in Nat /\ q[2] \in Nat
      /\ p = <<p[1], p[2]>> /\ q = <<q[1], q[2]>>
  BY <1>1
<1>3. p[1] # q[1] \/ p[2] # q[2]
  BY <1>2
<1> QED BY <1>2, <1>3 DEF Earlier

\* The loops meet every place, in their order.
LEMMA NthPlaced ==
  ASSUME TypeOK, order \in Seq(Names)
  PROVE  /\ \A k \in 1 .. Cardinality(Placed) : Nth(k) \in Placed
         /\ \A k, l \in 1 .. Cardinality(Placed) : k < l => Nth(k) \in Earlier(Nth(l))
         /\ \A p \in Placed : \E k \in 1 .. Cardinality(Placed) : Nth(k) = p
<1> DEFINE n == Cardinality(Placed)
           rank == [p \in Placed |-> Cardinality(Earlier(p)) + 1]
<1>1. IsFiniteSet(Placed) /\ n \in Nat /\ \A p : Cardinality(Earlier(p)) \in Nat
  BY PlacedFinite
<1>2. ASSUME NEW p \in Placed PROVE Cardinality(Earlier(p)) < n
  <2>1. Earlier(p) \subseteq Placed /\ p \notin Earlier(p)
    <3>1. Placed \subseteq Nat \X Nat
      BY PlacedFinite
    <3> QED BY <3>1 DEF Earlier
  <2>2. /\ Cardinality(Earlier(p)) <= n
        /\ n = Cardinality(Earlier(p)) => Placed = Earlier(p)
    BY <1>1, <2>1, FS_Subset
  <2> QED BY <1>1, <2>1, <2>2
<1>3. rank \in [Placed -> 1 .. n]
  BY <1>1, <1>2
<1>4. ASSUME NEW p \in Placed, NEW q \in Placed, rank[p] = rank[q] PROVE p = q
  <2>1. Cardinality(Earlier(p)) = Cardinality(Earlier(q))
    BY <1>1, <1>4
  <2>2. /\ p \in Earlier(q) => Cardinality(Earlier(p)) < Cardinality(Earlier(q))
        /\ q \in Earlier(p) => Cardinality(Earlier(q)) < Cardinality(Earlier(p))
    BY EarlierFewer
  <2>3. p \notin Earlier(q) /\ q \notin Earlier(p)
    BY <1>1, <2>1, <2>2
  <2> QED BY <2>3, EarlierTotal
<1>5. rank \in Injection(Placed, 1 .. n)
  BY <1>3, <1>4 DEF Injection, IsInjective
<1>6. IsFiniteSet(1 .. n) /\ Cardinality(1 .. n) = n
  BY <1>1, FS_Interval
<1>7. rank \in Surjection(Placed, 1 .. n)
  <2> HIDE DEF rank
  <2> QED BY <1>5, <1>6, FS_Injection
<1>8. ASSUME NEW k \in 1 .. n
      PROVE  Nth(k) \in Placed /\ Cardinality(Earlier(Nth(k))) = k - 1
  <2>1. PICK p \in Placed : rank[p] = k
    BY <1>7 DEF Surjection
  <2>2. Cardinality(Earlier(p)) = k - 1
    BY <1>1, <2>1
  <2> QED BY <2>2 DEF Nth
<1>9. ASSUME NEW k \in 1 .. n, NEW l \in 1 .. n, k < l
      PROVE  Nth(k) \in Earlier(Nth(l))
  <2>1. /\ Nth(k) \in Placed /\ Cardinality(Earlier(Nth(k))) = k - 1
        /\ Nth(l) \in Placed /\ Cardinality(Earlier(Nth(l))) = l - 1
    BY <1>8
  <2>2. Nth(k) # Nth(l)
    BY <1>1, <1>9, <2>1
  <2>3. Nth(l) \in Earlier(Nth(k)) =>
          Cardinality(Earlier(Nth(l))) < Cardinality(Earlier(Nth(k)))
    BY <2>1, EarlierFewer
  <2>4. Nth(l) \notin Earlier(Nth(k))
    BY <1>1, <1>9, <2>1, <2>3
  <2> QED BY <2>1, <2>2, <2>4, EarlierTotal
<1>10. ASSUME NEW p \in Placed PROVE \E k \in 1 .. n : Nth(k) = p
  <2>1. rank[p] \in 1 .. n /\ rank[p] = Cardinality(Earlier(p)) + 1
    BY <1>3
  <2>2. Nth(rank[p]) \in Placed /\ Cardinality(Earlier(Nth(rank[p]))) = rank[p] - 1
    BY <1>8, <2>1
  <2>3. rank[Nth(rank[p])] = rank[p]
    BY <1>1, <2>1, <2>2
  <2>4. Nth(rank[p]) = p
    BY <1>4, <2>2, <2>3
  <2> QED BY <2>1, <2>4
<1> QED BY <1>8, <1>9, <1>10

-----------------------------------------------------------------------------
(* Registration.                                                           *)

\* A number is that of the next registration only once.
LEMMA NextRef ==
  ASSUME LoadInv, pc \in Loads
  PROVE  /\ Bodies /\ pc \notin Ended /\ Len(registered) \in Nat /\ DOMAIN registered = 1 .. Len(registered)
         /\ Len(registered) + 1 \notin refs /\ Len(registered) + 1 \notin Range(freed)
         /\ refs \subseteq Nat \ {0} /\ freed \in Seq(Nat \ {0}) /\ tests \in Seq(TestCase)
         /\ registered \in Seq(Registration)
<1>1. registered \in Seq(Registration)
  BY DEF LoadInv, TypeOK
<1>2. Len(registered) \in Nat /\ DOMAIN registered = 1 .. Len(registered)
  BY <1>1
<1>3. Len(registered) + 1 \notin DOMAIN registered
  BY <1>2
<1>4. pc \notin Ended
  BY DEF Loads, Directory, Ended
<1> QED BY <1>1, <1>2, <1>3, <1>4 DEF LoadInv, TypeOK, Accounted, Bodies

\* While the tests are loaded, bodies are in order if no two tests share one
\* and none was released twice.
LEMMA BodiesWhileLoading ==
  ASSUME pc' \in Loads,
         \A i \in DOMAIN tests' : /\ tests'[i].ref \in refs'
                                  /\ registered'[tests'[i].ref].name = tests'[i].name,
         \A i, j \in DOMAIN tests' : i # j => tests'[i].ref # tests'[j].ref,
         Accounted', IsInjective(freed'), refs' = QueuedRefs' \cup Raised'
  PROVE  Bodies'
<1>1. pc' \notin Ended
  BY DEF Loads, Directory, Ended
<1>2. BodiesOwned'
  BY DEF BodiesOwned
<1>3. FreedOnce'
  BY <1>1 DEF FreedOnce, IsInjective
<1>4. NoneLost'
  BY <1>1 DEF NoneLost, Ended
<1> QED BY <1>2, <1>3, <1>4 DEF Bodies

\* What a list of released bodies is when one more is released.
LEMMA Released ==
  ASSUME NEW S, NEW s \in Seq(S), NEW x \in S, IsInjective(s), x \notin Range(s)
  PROVE  /\ Append(s, x) \in Seq(S) /\ IsInjective(Append(s, x))
         /\ Range(Append(s, x)) = Range(s) \cup {x}
<1> DEFINE t == Append(s, x)
<1>1. /\ t \in Seq(S) /\ Len(s) \in Nat /\ DOMAIN s = 1 .. Len(s)
      /\ DOMAIN t = 1 .. Len(s) + 1
      /\ t[Len(s) + 1] = x /\ \A i \in 1 .. Len(s) : t[i] = s[i]
  OBVIOUS
<1> HIDE DEF t
<1>2. \A i \in 1 .. Len(s) : s[i] # x
  BY <1>1 DEF Range
<1>3. \A i \in DOMAIN t : i \in 1 .. Len(s) \/ i = Len(s) + 1
  BY <1>1
<1>4. IsInjective(t)
  BY <1>1, <1>2, <1>3 DEF IsInjective
<1>5. Range(t) = Range(s) \cup {x}
  BY <1>1, <1>3 DEF Range
<1> QED BY <1>1, <1>4, <1>5 DEF t

\* What the calls ask for after one more registration.
LEMMA OneMore ==
  ASSUME LoadInv, pc \in Loads, NEW name \in Names, NEW tags \in SUBSET Tags,
         NEW raised \in BOOLEAN,
         registered' = Append(registered, [name |-> name, tags |-> tags, raised |-> raised])
  PROVE  LET n == Len(registered) + 1 IN
         /\ registered' \in Seq(Registration) /\ DOMAIN registered' = DOMAIN registered \cup {n}
         /\ registered'[n].name = name /\ registered'[n].tags = tags
         /\ Raised' = IF raised THEN Raised \cup {n} ELSE Raised
         /\ \A r \in DOMAIN registered : registered'[r] = registered[r] /\ r < n
         /\ raised \/ Filtered(tags) => Accepted' = Accepted /\ \A m : Of(m)' = Of(m)
         /\ ~raised /\ ~Filtered(tags) => /\ Accepted' = Accepted \cup {n}
                                          /\ Of(name)' = Of(name) \cup {n}
                                          /\ \A m : m # name => Of(m)' = Of(m)
<1> DEFINE n == Len(registered) + 1
           e == [name |-> name, tags |-> tags, raised |-> raised]
<1>1. Len(registered) \in Nat /\ registered \in Seq(Registration)
      /\ DOMAIN registered = 1 .. Len(registered)
  BY NextRef
<1>2. e \in Registration
  BY DEF Registration
<1>3. /\ registered' \in Seq(Registration) /\ DOMAIN registered' = 1 .. n
      /\ registered'[n] = e
      /\ \A r \in 1 .. Len(registered) : registered'[r] = registered[r]
  BY <1>1, <1>2
<1>4. /\ DOMAIN registered' = DOMAIN registered \cup {n}
      /\ \A r \in DOMAIN registered : registered'[r] = registered[r] /\ r < n
      /\ n \notin DOMAIN registered
  BY <1>1, <1>3
<1>5. e.name = name /\ e.tags = tags /\ e.raised = raised
  OBVIOUS
<1> HIDE DEF n, e
<1>6. Raised' = IF raised THEN Raised \cup {n} ELSE Raised
  BY <1>3, <1>4, <1>5 DEF Raised
<1>7. CASE raised \/ Filtered(tags)
  <2>1. Accepted' = Accepted
    BY <1>3, <1>4, <1>5, <1>7 DEF Accepted, Filtered
  <2>2. \A m : Of(m)' = Of(m)
    BY <2>1, <1>4 DEF Of, Accepted
  <2> QED BY <1>3, <1>4, <1>5, <1>7, <1>6, <2>1, <2>2 DEF n
<1>8. CASE ~raised /\ ~Filtered(tags)
  <2>1. Accepted' = Accepted \cup {n}
    BY <1>3, <1>4, <1>5, <1>8 DEF Accepted, Filtered
  <2>2. Of(name)' = Of(name) \cup {n}
    BY <2>1, <1>3, <1>4, <1>5 DEF Of, Accepted
  <2>3. \A m : m # name => Of(m)' = Of(m)
    BY <2>1, <1>3, <1>4, <1>5 DEF Of, Accepted
  <2> QED BY <1>3, <1>4, <1>5, <1>8, <1>6, <2>1, <2>2, <2>3 DEF n
<1> QED BY <1>7, <1>8

Registered(name, tags) == [name |-> name, tags |-> tags, ref |-> Len(registered) + 1]

\* A filtered test is released, and nothing else changes.
LEMMA FilteredKeepsInv ==
  ASSUME LoadInv, NEW name \in Names, NEW tags \in SUBSET Tags,
         RegisterTest(name, tags), Filtered(tags)
  PROVE  LoadInv'
<1> USE DEF Loads
<1> DEFINE n == Len(registered) + 1
<1>1. /\ pc \in Directory /\ pc' = pc /\ tests' = tests /\ refs' = refs /\ order' = order
      /\ freed' = Append(freed, n)
      /\ registered' = Append(registered, [name |-> name, tags |-> tags, raised |-> FALSE])
      /\ hooks' = hooks /\ calls' = calls + 1 /\ exitcode' = exitcode
  BY DEF RegisterTest, Enqueue, MayCall
<1>2. /\ registered' \in Seq(Registration) /\ DOMAIN registered' = DOMAIN registered \cup {n}
      /\ \A r \in DOMAIN registered : registered'[r] = registered[r] /\ r < n
      /\ Accepted' = Accepted /\ (\A m : Of(m)' = Of(m)) /\ Raised' = Raised
  BY <1>1, OneMore
<1>3. /\ n \notin refs /\ n \notin Range(freed) /\ n \in Nat \ {0}
      /\ freed \in Seq(Nat \ {0}) /\ IsInjective(freed)
  BY <1>1, NextRef DEF Bodies, FreedOnce
<1>4. freed' \in Seq(Nat \ {0}) /\ IsInjective(freed') /\ Range(freed') = Range(freed) \cup {n}
  BY <1>1, <1>3, Released
<1> HIDE DEF n
<1>5. TypeOK'
  BY <1>1, <1>2, <1>4 DEF LoadInv, TypeOK
<1>6. QueueExact
  BY <1>1 DEF LoadInv
<1>7. QueueExact'
  <2>1. \A r \in Accepted : registered'[r] = registered[r]
    BY <1>2 DEF Accepted
  <2>2. \A i \in DOMAIN tests : registered'[tests[i].ref] = registered[tests[i].ref]
    BY <1>6, <2>1 DEF QueueExact, LastAccepted, Of
  <2>3. ASSUME NEW i \in DOMAIN tests PROVE Of(tests[i].name)' = Of(tests[i].name)
    BY <1>1, <1>2
  <2>4. ASSUME NEW r \in Accepted' PROVE (Queued(registered[r].name) # {})'
    <3>1. r \in Accepted /\ registered'[r] = registered[r]
      BY <1>2, <2>1
    <3>2. PICK i \in DOMAIN tests : tests[i].name = registered[r].name
      BY <3>1, <1>6 DEF QueueExact, LastAccepted, Queued
    <3> QED BY <3>1, <3>2, <1>1 DEF Queued
  <2> QED BY <1>1, <1>2, <1>6, <2>2, <2>3, <2>4 DEF QueueExact, LastAccepted
<1>8. \A i \in DOMAIN tests : /\ tests[i].ref \in refs
                              /\ registered'[tests[i].ref].name = tests[i].name
  <2>1. \A i \in DOMAIN tests : /\ tests[i].ref \in refs
                                /\ registered[tests[i].ref].name = tests[i].name
    BY DEF LoadInv, Bodies, BodiesOwned
  <2>2. refs \subseteq DOMAIN registered
    BY DEF LoadInv, Bodies, Accounted
  <2> QED BY <2>1, <2>2, <1>2
<1>9. Accounted'
  BY <1>1, <1>2, <1>3, <1>4 DEF LoadInv, Bodies, Accounted
<1>10. pc \notin {"amount", "run"}
  BY <1>1 DEF Directory
<1>11. refs = QueuedRefs \cup Raised
       /\ \A i, j \in DOMAIN tests : i # j => tests[i].ref # tests[j].ref
  BY <1>1 DEF LoadInv, Bodies, NoneLost
<1>12. QueuedRefs' = QueuedRefs
  BY <1>1 DEF QueuedRefs
<1>13. Bodies'
  BY <1>1, <1>2, <1>4, <1>8, <1>9, <1>11, <1>12, BodiesWhileLoading
<1> QED BY <1>1, <1>5, <1>7, <1>10, <1>13 DEF LoadInv

\* A test with a new name goes to the end.
LEMMA NewKeepsInv ==
  ASSUME LoadInv, NEW name \in Names, NEW tags \in SUBSET Tags,
         RegisterTest(name, tags), ~Filtered(tags), Queued(name) = {}
  PROVE  LoadInv'
<1> USE DEF Loads
<1> DEFINE n == Len(registered) + 1
           t == Registered(name, tags)
           m == Len(tests) + 1
<1>1. /\ pc \in Directory /\ pc' = pc /\ tests' = Append(tests, t) /\ refs' = refs \cup {n}
      /\ order' = order /\ freed' = freed
      /\ registered' = Append(registered, [name |-> name, tags |-> tags, raised |-> FALSE])
      /\ hooks' = hooks /\ calls' = calls + 1 /\ exitcode' = exitcode
  BY DEF RegisterTest, Enqueue, MayCall, Registered
<1>2. /\ registered' \in Seq(Registration) /\ DOMAIN registered' = DOMAIN registered \cup {n}
      /\ registered'[n].name = name /\ registered'[n].tags = tags /\ Raised' = Raised
      /\ \A r \in DOMAIN registered : registered'[r] = registered[r] /\ r < n
      /\ Accepted' = Accepted \cup {n} /\ Of(name)' = Of(name) \cup {n}
      /\ \A k : k # name => Of(k)' = Of(k)
  BY <1>1, OneMore
<1>3. /\ n \notin refs /\ n \notin Range(freed) /\ n \in Nat \ {0} /\ tests \in Seq(TestCase)
      /\ DOMAIN registered \subseteq Nat
  BY <1>1, NextRef
<1>4. t \in TestCase /\ t.name = name /\ t.tags = tags /\ t.ref = n
  BY <1>3 DEF Registered, TestCase
<1> HIDE DEF n, t
<1>5. /\ tests' \in Seq(TestCase) /\ DOMAIN tests' = DOMAIN tests \cup {m} /\ m \notin DOMAIN tests
      /\ tests'[m] = t /\ \A i \in DOMAIN tests : tests'[i] = tests[i] /\ i < m
      /\ DOMAIN tests \subseteq Nat /\ m \in Nat
  BY <1>1, <1>3, <1>4
<1> HIDE DEF m
<1>6. TypeOK'
  <2>1. /\ pc \in Point /\ refs \subseteq Nat \ {0} /\ freed \in Seq(Nat \ {0}) /\ calls \in Nat
        /\ hooks \in Nat \cup {Uninit} /\ exitcode \in {"EXIT_SUCCESS", "EXIT_FAILURE", "130"}
    BY DEF LoadInv, TypeOK
  <2>2. refs' \subseteq Nat \ {0} /\ calls' \in Nat
    BY <1>1, <1>3, <2>1
  <2> QED BY <1>1, <1>2, <1>5, <2>1, <2>2 DEF TypeOK
<1>7. QueueExact /\ Accepted \subseteq DOMAIN registered
  BY <1>1 DEF LoadInv, Accepted
<1>8. Of(name) = {} /\ \A i \in DOMAIN tests : tests[i].name # name
  BY <1>7 DEF QueueExact, LastAccepted, Of, Queued
<1>9. QueueExact'
  <2>1. ASSUME NEW r \in Accepted' PROVE (Queued(registered[r].name) # {})'
    <3>1. CASE r = n
      BY <3>1, <1>2, <1>4, <1>5 DEF Queued
    <3>2. CASE r \in Accepted
      <4>1. PICK i \in DOMAIN tests : tests[i].name = registered[r].name
        BY <3>2, <1>7 DEF QueueExact, LastAccepted, Queued
      <4>2. registered'[r] = registered[r]
        BY <3>2, <1>2, <1>7
      <4> QED BY <4>1, <4>2, <1>5 DEF Queued
    <3> QED BY <2>1, <3>1, <3>2, <1>2
  <2>2. ASSUME NEW i \in DOMAIN tests'
        PROVE  /\ tests'[i].ref \in Of(tests[i].name)'
               /\ \A r \in Of(tests[i].name)' : r <= tests'[i].ref
               /\ tests'[i].tags = registered'[tests'[i].ref].tags
    <3>1. CASE i = m
      <4>1. Of(tests[i].name)' = {n} /\ tests'[i].ref = n
        BY <3>1, <1>2, <1>4, <1>5, <1>8
      <4> QED BY <3>1, <4>1, <1>2, <1>3, <1>4, <1>5
    <3>2. CASE i \in DOMAIN tests
      <4>1. tests'[i] = tests[i] /\ Of(tests[i].name)' = Of(tests[i].name)
        BY <3>2, <1>2, <1>5, <1>8
      <4>2. /\ tests[i].ref \in Of(tests[i].name)
            /\ \A r \in Of(tests[i].name) : r <= tests[i].ref
            /\ tests[i].tags = registered[tests[i].ref].tags
        BY <3>2, <1>7 DEF QueueExact, LastAccepted
      <4>3. registered'[tests[i].ref] = registered[tests[i].ref]
        BY <4>2, <1>2, <1>7 DEF Of
      <4> QED BY <4>1, <4>2, <4>3
    <3> QED BY <2>2, <3>1, <3>2, <1>5
  <2>3. ASSUME NEW i \in DOMAIN tests', NEW j \in DOMAIN tests', i < j
        PROVE  \E r \in Of(tests[i].name)' : \A q \in Of(tests[j].name)' : r < q
    <3>1. i \in DOMAIN tests /\ tests'[i] = tests[i] /\ Of(tests[i].name)' = Of(tests[i].name)
      BY <2>3, <1>2, <1>5, <1>8
    <3>2. CASE j = m
      <4>1. Of(tests[j].name)' = {n}
        BY <3>2, <1>2, <1>4, <1>5, <1>8
      <4>2. tests[i].ref \in Of(tests[i].name) /\ tests[i].ref < n
        BY <3>1, <1>2, <1>7 DEF QueueExact, LastAccepted, Of
      <4> QED BY <3>1, <4>1, <4>2
    <3>3. CASE j \in DOMAIN tests
      <4>1. Of(tests[j].name)' = Of(tests[j].name)
        BY <3>3, <1>2, <1>5, <1>8
      <4> QED BY <2>3, <3>1, <3>3, <4>1, <1>7 DEF QueueExact, LastAccepted
    <3> QED BY <2>3, <3>2, <3>3, <1>5
  <2> QED BY <2>1, <2>2, <2>3 DEF QueueExact, LastAccepted
<1>10. /\ \A i \in DOMAIN tests' : /\ tests'[i].ref \in refs'
                                   /\ registered'[tests'[i].ref].name = tests'[i].name
       /\ \A i, j \in DOMAIN tests' : i # j => tests'[i].ref # tests'[j].ref
  <2>1. \A i \in DOMAIN tests : /\ tests[i].ref \in refs
                                /\ registered[tests[i].ref].name = tests[i].name
    BY DEF LoadInv, Bodies, BodiesOwned
  <2>2. \A i, j \in DOMAIN tests : i # j => tests[i].ref # tests[j].ref
    BY <1>1 DEF LoadInv, Bodies
  <2>3. refs \subseteq DOMAIN registered
    BY DEF LoadInv, Bodies, Accounted
  <2>4. \A i \in DOMAIN tests : registered'[tests[i].ref].name = tests[i].name
    BY <2>1, <2>3, <1>2
  <2>5. ASSUME NEW i \in DOMAIN tests'
        PROVE  tests'[i].ref \in refs' /\ registered'[tests'[i].ref].name = tests'[i].name
    <3>1. CASE i = m
      BY <3>1, <1>1, <1>2, <1>4, <1>5
    <3>2. CASE i \in DOMAIN tests
      BY <3>2, <2>1, <2>4, <1>1, <1>5
    <3> QED BY <3>1, <3>2, <1>5
  <2>6. ASSUME NEW i \in DOMAIN tests', NEW j \in DOMAIN tests', i # j
        PROVE  tests'[i].ref # tests'[j].ref
    <3>1. \A k \in DOMAIN tests : tests'[k].ref # n /\ tests'[k].ref = tests[k].ref
      BY <2>1, <1>3, <1>5
    <3>2. tests'[m].ref = n
      BY <1>4, <1>5
    <3> QED BY <2>2, <2>6, <3>1, <3>2, <1>5
  <2> QED BY <2>5, <2>6
<1>11. Accounted'
  BY <1>1, <1>2, <1>3 DEF LoadInv, Bodies, Accounted
<1>12. refs' = QueuedRefs' \cup Raised'
  <2>1. QueuedRefs' = QueuedRefs \cup {n}
    BY <1>4, <1>5 DEF QueuedRefs
  <2> QED BY <2>1, <1>1, <1>2 DEF LoadInv, Bodies, NoneLost
<1>13. IsInjective(freed')
  BY <1>1, NextRef DEF Bodies, FreedOnce
<1>14. Bodies'
  BY <1>1, <1>10, <1>11, <1>12, <1>13, BodiesWhileLoading
<1>15. pc \notin {"amount", "run"}
  BY <1>1 DEF Directory
<1> QED BY <1>1, <1>6, <1>9, <1>14, <1>15 DEF LoadInv

\* A test with a known name takes the place of the earlier one, whose body is
\* released.
LEMMA OverrideKeepsInv ==
  ASSUME LoadInv, NEW name \in Names, NEW tags \in SUBSET Tags,
         RegisterTest(name, tags), ~Filtered(tags), Queued(name) # {}
  PROVE  LoadInv'
<1> USE DEF Loads
<1> DEFINE n == Len(registered) + 1
           t == Registered(name, tags)
<1>1. /\ pc \in Directory /\ pc' = pc /\ order' = order
      /\ registered' = Append(registered, [name |-> name, tags |-> tags, raised |-> FALSE])
      /\ hooks' = hooks /\ calls' = calls + 1 /\ exitcode' = exitcode
  BY DEF RegisterTest, MayCall
<1>2. /\ registered' \in Seq(Registration) /\ DOMAIN registered' = DOMAIN registered \cup {n}
      /\ registered'[n].name = name /\ registered'[n].tags = tags /\ Raised' = Raised
      /\ \A r \in DOMAIN registered : registered'[r] = registered[r] /\ r < n
      /\ Accepted' = Accepted \cup {n} /\ Of(name)' = Of(name) \cup {n}
      /\ \A k : k # name => Of(k)' = Of(k)
  BY <1>1, OneMore
<1>3. /\ n \notin refs /\ n \notin Range(freed) /\ n \in Nat \ {0} /\ tests \in Seq(TestCase)
      /\ DOMAIN registered \subseteq Nat /\ DOMAIN tests \subseteq Nat
      /\ refs \subseteq Nat \ {0} /\ freed \in Seq(Nat \ {0}) /\ IsInjective(freed)
      /\ refs \cap Range(freed) = {}
  BY <1>1, NextRef DEF Bodies, Accounted, FreedOnce
<1>4. t \in TestCase /\ t.name = name /\ t.tags = tags /\ t.ref = n
  BY <1>3 DEF Registered, TestCase
<1>5. QueueExact /\ Accepted \subseteq DOMAIN registered
  BY <1>1 DEF LoadInv, Accepted
<1>6. PICK i0 \in Queued(name) : /\ tests' = [tests EXCEPT ![i0] = t]
                                 /\ refs' = (refs \ {tests[i0].ref}) \cup {n}
                                 /\ freed' = Append(freed, tests[i0].ref)
  <2>1. \A i, j \in Queued(name) : i = j
    BY <1>5, NamesDiffer DEF LoadInv, Queued
  <2>2. PICK i0 \in Queued(name) : TRUE
    OBVIOUS
  <2>3. i0 \in Nat
    BY <1>3, <2>2 DEF Queued
  <2>4. \A i \in Queued(name) : (\A j \in Queued(name) : i <= j) <=> i = i0
    BY <2>1, <2>2, <2>3
  <2>5. (CHOOSE i \in Queued(name) : \A j \in Queued(name) : i <= j) = i0
    BY <2>2, <2>4
  <2> QED BY <2>5 DEF RegisterTest, Enqueue, Registered
<1>7. i0 \in DOMAIN tests /\ tests[i0].name = name
  BY DEF Queued
<1> HIDE DEF n, t
<1>8. /\ tests' \in Seq(TestCase) /\ DOMAIN tests' = DOMAIN tests /\ tests'[i0] = t
      /\ \A i \in DOMAIN tests : i # i0 => tests'[i] = tests[i]
  BY <1>3, <1>4, <1>6, <1>7
<1>9. \A i \in DOMAIN tests : /\ tests'[i].name = tests[i].name
                              /\ i # i0 => tests[i].name # name
  BY <1>4, <1>5, <1>7, <1>8, NamesDiffer DEF LoadInv
<1>10. tests[i0].ref \in refs /\ tests[i0].ref \in Nat \ {0} /\ tests[i0].ref \notin Range(freed)
  BY <1>1, <1>3, <1>7 DEF LoadInv, Bodies, BodiesOwned
<1>11. /\ freed' \in Seq(Nat \ {0}) /\ IsInjective(freed')
       /\ Range(freed') = Range(freed) \cup {tests[i0].ref}
  BY <1>3, <1>6, <1>10, Released
<1>12. TypeOK'
  <2>1. refs' \subseteq Nat \ {0}
    BY <1>3, <1>6
  <2> QED BY <2>1, <1>1, <1>2, <1>8, <1>11 DEF LoadInv, TypeOK
<1>13. QueueExact'
  <2>1. ASSUME NEW r \in Accepted' PROVE (Queued(registered[r].name) # {})'
    <3>1. CASE r = n
      BY <3>1, <1>2, <1>7, <1>8, <1>9 DEF Queued
    <3>2. CASE r \in Accepted
      <4>1. PICK i \in DOMAIN tests : tests[i].name = registered[r].name
        BY <3>2, <1>5 DEF QueueExact, LastAccepted, Queued
      <4>2. registered'[r] = registered[r]
        BY <3>2, <1>2, <1>5
      <4> QED BY <4>1, <4>2, <1>8, <1>9 DEF Queued
    <3> QED BY <2>1, <3>1, <3>2, <1>2
  <2>2. ASSUME NEW i \in DOMAIN tests
        PROVE  /\ tests'[i].ref \in Of(tests[i].name)'
               /\ \A r \in Of(tests[i].name)' : r <= tests'[i].ref
               /\ tests'[i].tags = registered'[tests'[i].ref].tags
    <3>1. CASE i = i0
      <4>1. Of(tests[i].name)' = Of(name) \cup {n} /\ tests'[i].ref = n /\ tests'[i].tags = tags
        BY <3>1, <1>2, <1>4, <1>7, <1>8
      <4>2. \A r \in Of(name) : r < n /\ r \in Nat
        BY <1>2, <1>3, <1>5 DEF Of
      <4> QED BY <4>1, <4>2, <1>2, <1>3
    <3>2. CASE i # i0
      <4>1. tests'[i] = tests[i] /\ Of(tests[i].name)' = Of(tests[i].name)
        BY <3>2, <1>2, <1>8, <1>9
      <4>2. /\ tests[i].ref \in Of(tests[i].name)
            /\ \A r \in Of(tests[i].name) : r <= tests[i].ref
            /\ tests[i].tags = registered[tests[i].ref].tags
        BY <1>5 DEF QueueExact, LastAccepted
      <4>3. registered'[tests[i].ref] = registered[tests[i].ref]
        BY <4>2, <1>2, <1>5 DEF Of
      <4> QED BY <4>1, <4>2, <4>3
    <3> QED BY <3>1, <3>2
  <2>3. ASSUME NEW i \in DOMAIN tests, NEW j \in DOMAIN tests, i < j
        PROVE  \E r \in Of(tests[i].name)' : \A q \in Of(tests[j].name)' : r < q
    <3>1. PICK r \in Of(tests[i].name) : \A q \in Of(tests[j].name) : r < q
      BY <2>3, <1>5 DEF QueueExact, LastAccepted
    <3>2. r < n
      BY <3>1, <1>2, <1>5 DEF Of
    <3>3. Of(tests[i].name) \subseteq Of(tests[i].name)'
      BY <1>2, <1>9
    <3>4. Of(tests[j].name)' \subseteq Of(tests[j].name) \cup {n}
      BY <1>2, <1>9
    <3> QED BY <3>1, <3>2, <3>3, <3>4
  <2> QED BY <2>1, <2>2, <2>3, <1>8 DEF QueueExact, LastAccepted
<1>14. /\ \A i \in DOMAIN tests' : /\ tests'[i].ref \in refs'
                                   /\ registered'[tests'[i].ref].name = tests'[i].name
       /\ \A i, j \in DOMAIN tests' : i # j => tests'[i].ref # tests'[j].ref
  <2>1. \A i \in DOMAIN tests : /\ tests[i].ref \in refs
                                /\ registered[tests[i].ref].name = tests[i].name
    BY DEF LoadInv, Bodies, BodiesOwned
  <2>2. \A i, j \in DOMAIN tests : i # j => tests[i].ref # tests[j].ref
    BY <1>1 DEF LoadInv, Bodies
  <2>3. refs \subseteq DOMAIN registered
    BY DEF LoadInv, Bodies, Accounted
  <2>4. \A i \in DOMAIN tests : registered'[tests[i].ref].name = tests[i].name
    BY <2>1, <2>3, <1>2
  <2> QED BY <2>1, <2>2, <2>4, <1>2, <1>3, <1>4, <1>6, <1>7, <1>8
<1>15. Accounted'
  BY <1>1, <1>2, <1>3, <1>6, <1>10, <1>11 DEF LoadInv, Bodies, Accounted
<1>16. refs' = QueuedRefs' \cup Raised'
  <2>1. refs = QueuedRefs \cup Raised
    BY <1>1 DEF LoadInv, Bodies, NoneLost
  <2>2. \A i \in DOMAIN tests : i # i0 => tests[i].ref # tests[i0].ref
    BY <1>1, <1>7 DEF LoadInv, Bodies
  <2>3. QueuedRefs' = (QueuedRefs \ {tests[i0].ref}) \cup {n}
    BY <2>2, <1>4, <1>7, <1>8 DEF QueuedRefs
  <2>4. tests[i0].ref \notin Raised
    BY <1>5, <1>7 DEF QueueExact, LastAccepted, Of, Accepted, Raised
  <2> QED BY <2>1, <2>3, <2>4, <1>2, <1>6
<1>17. Bodies'
  BY <1>1, <1>11, <1>14, <1>15, <1>16, BodiesWhileLoading
<1>18. pc \notin {"amount", "run"}
  BY <1>1 DEF Directory
<1> QED BY <1>1, <1>12, <1>13, <1>17, <1>18 DEF LoadInv

\* A call that raises leaves its body, and the queue as it was.
LEMMA RaisedKeepsInv ==
  ASSUME LoadInv, NEW name \in Names, RegisterRaises(name)
  PROVE  LoadInv'
<1> USE DEF Loads
<1> DEFINE n == Len(registered) + 1
<1>1. /\ pc \in Directory /\ pc' \in {pc, "deinit"} /\ tests' = tests /\ refs' = refs \cup {n}
      /\ order' = order /\ freed' = freed
      /\ registered' = Append(registered, [name |-> name, tags |-> {}, raised |-> TRUE])
      /\ hooks' = hooks /\ calls' = calls + 1 /\ exitcode' = exitcode
  BY DEF RegisterRaises, MayCall
<1>2. /\ registered' \in Seq(Registration) /\ DOMAIN registered' = DOMAIN registered \cup {n}
      /\ \A r \in DOMAIN registered : registered'[r] = registered[r] /\ r < n
      /\ Accepted' = Accepted /\ (\A m : Of(m)' = Of(m)) /\ Raised' = Raised \cup {n}
  BY <1>1, OneMore
<1>3. /\ n \notin refs /\ n \notin Range(freed) /\ n \in Nat \ {0} /\ refs \subseteq Nat \ {0}
      /\ IsInjective(freed)
  BY <1>1, NextRef DEF Bodies, FreedOnce
<1> HIDE DEF n
<1>4. pc \in Point /\ pc' \in Point /\ pc' \notin {"amount", "run"} /\ pc' \notin Ended
  BY <1>1 DEF Point, Directory, Ended
<1>5. TypeOK'
  BY <1>1, <1>2, <1>3, <1>4 DEF LoadInv, TypeOK
<1>6. QueueExact /\ Bodies
  BY <1>1 DEF LoadInv
<1>7. \A i \in DOMAIN tests : /\ tests[i].ref \in DOMAIN registered /\ tests[i].ref \in refs
                              /\ registered'[tests[i].ref] = registered[tests[i].ref]
  BY <1>2, <1>6 DEF Bodies, BodiesOwned, Accounted
<1>8. QueueExact'
  <2>1. \A r \in Accepted : registered'[r] = registered[r]
    BY <1>2 DEF Accepted
  <2>2. ASSUME NEW i \in DOMAIN tests PROVE Of(tests[i].name)' = Of(tests[i].name)
    BY <1>1, <1>2
  <2>3. ASSUME NEW r \in Accepted' PROVE (Queued(registered[r].name) # {})'
    <3>1. r \in Accepted /\ registered'[r] = registered[r]
      BY <1>2, <2>1
    <3>2. PICK i \in DOMAIN tests : tests[i].name = registered[r].name
      BY <3>1, <1>6 DEF QueueExact, Queued
    <3> QED BY <3>1, <3>2, <1>1 DEF Queued
  <2> QED BY <1>1, <1>2, <1>6, <1>7, <2>2, <2>3 DEF QueueExact, LastAccepted
<1>9. Bodies'
  <2>1. BodiesOwned' /\ Accounted'
    BY <1>1, <1>2, <1>3, <1>6 DEF Bodies, BodiesOwned, Accounted, NamedTwice
  <2>2. FreedOnce'
    BY <1>1, <1>3 DEF FreedOnce, IsInjective
  <2>3. refs' = QueuedRefs' \cup Raised'
    BY <1>1, <1>2, <1>6 DEF Bodies, NoneLost, QueuedRefs
  <2>4. NoneLost'
    BY <1>4, <2>3 DEF NoneLost, Ended
  <2> QED BY <1>1, <1>6, <1>7, <2>1, <2>2, <2>4 DEF Bodies
<1> QED BY <1>1, <1>4, <1>5, <1>8, <1>9 DEF LoadInv

-----------------------------------------------------------------------------
(* The steps of ltf_test.                                                  *)

\* An order copies a test as often as it names it.
LEMMA OrderKeepsInv ==
  ASSUME LoadInv, Orders \subseteq Seq(Names), OrderTests
  PROVE  LoadInv'
<1>1. /\ pc = "order" /\ pc' = "amount" /\ order' = order /\ refs' = refs /\ freed' = freed
      /\ registered' = registered /\ hooks' = hooks /\ calls' = calls /\ exitcode' = exitcode
  BY DEF OrderTests
<1>2. QueueExact /\ TypeOK /\ order \in Seq(Names) /\ Bodies
  BY <1>1 DEF LoadInv, Loads
<1>3. CASE order = << >>
  <2>1. tests' = tests
    BY <1>3 DEF OrderTests
  <2>2. TypeOK'
    BY <1>1, <2>1 DEF LoadInv, TypeOK, Point
  <2>3. Bodies'
    BY <1>1, <1>2, <2>1 DEF Bodies, BodiesOwned, Accounted, NoneLost, FreedOnce, NamedTwice,
       QueuedRefs, Raised, Dropped, Loads, Directory, Ended
  <2>4. QueueExact'
    BY <1>1, <1>2, <2>1 DEF QueueExact, LastAccepted, Of, Accepted, Queued
  <2> QED BY <1>1, <1>3, <2>2, <2>3, <2>4 DEF LoadInv, Loads, Directory
<1>4. CASE order # << >>
  <2> DEFINE n == Cardinality(Placed)
  <2>1. /\ n \in Nat
        /\ \A k \in 1 .. n : Nth(k) \in Placed
        /\ \A k, l \in 1 .. n : k < l => Nth(k) \in Earlier(Nth(l))
        /\ \A p \in Placed : \E k \in 1 .. n : Nth(k) = p
        /\ Placed \subseteq Nat \X Nat
    BY <1>2, PlacedFinite, NthPlaced
  <2>2. \A p \in Placed : /\ p[1] \in DOMAIN order /\ p[2] \in DOMAIN tests
                          /\ p[1] \in Nat /\ p[2] \in Nat
                          /\ tests[p[2]].name = order[p[1]]
    BY <2>1 DEF Placed
  <2>3. tests' = [k \in 1 .. n |-> tests[Nth(k)[2]]]
    BY <1>4 DEF OrderTests
  <2> HIDE DEF n
  <2>4. DOMAIN tests' = 1 .. n /\ \A k \in 1 .. n : tests'[k] = tests[Nth(k)[2]]
    BY <2>3
  <2>5. tests' \in Seq(TestCase)
    <3>1. \A k \in 1 .. n : tests[Nth(k)[2]] \in TestCase
      BY <1>2, <2>1, <2>2 DEF TypeOK
    <3> QED BY <3>1, <2>1, <2>3
  <2>6. TypeOK'
    BY <1>1, <2>5 DEF LoadInv, TypeOK, Point
  <2>7. ASSUME NEW k \in 1 .. n, NEW l \in 1 .. n, k < l
        PROVE  /\ Nth(k)[1] < Nth(l)[1]
               /\ Nth(k)[1] \in DOMAIN order /\ Nth(l)[1] \in DOMAIN order
               /\ order[Nth(k)[1]] = tests'[k].name /\ order[Nth(l)[1]] = tests'[l].name
    <3> DEFINE p == Nth(k)
               q == Nth(l)
    <3>1. p \in Placed /\ q \in Placed /\ p \in Earlier(q)
      BY <2>1, <2>7
    <3> HIDE DEF p, q
    <3>2. p[1] < q[1] \/ (p[1] = q[1] /\ p[2] < q[2])
      BY <3>1 DEF Earlier
    <3>3. /\ p[1] \in DOMAIN order /\ p[2] \in DOMAIN tests /\ p[1] \in Nat /\ p[2] \in Nat
          /\ tests[p[2]].name = order[p[1]]
          /\ q[1] \in DOMAIN order /\ q[2] \in DOMAIN tests /\ q[1] \in Nat /\ q[2] \in Nat
          /\ tests[q[2]].name = order[q[1]]
      BY <3>1, <2>2
    <3>4. p[1] = q[1] => p[2] = q[2]
      BY <3>3, <1>2, NamesDiffer
    <3>5. p[1] < q[1]
      BY <3>2, <3>3, <3>4
    <3> QED BY <3>3, <3>5, <2>4 DEF p, q
  <2>8. ASSUME NEW k \in DOMAIN tests', NEW l \in DOMAIN tests', k < l
        PROVE  \E p, q \in DOMAIN order : /\ p < q
                                          /\ order[p] = tests'[k].name
                                          /\ order[q] = tests'[l].name
    <3>1. Nth(k)[1] \in DOMAIN order /\ Nth(l)[1] \in DOMAIN order
      BY <2>1, <2>2, <2>4
    <3> QED BY <3>1, <2>4, <2>7, <2>8
  <2>9. ASSUME NEW k \in DOMAIN tests'
         PROVE  \E p \in DOMAIN order : order[p] = tests'[k].name
    <3>1. Nth(k) \in Placed /\ tests'[k] = tests[Nth(k)[2]]
      BY <2>1, <2>4
    <3>2. Nth(k)[1] \in DOMAIN order /\ order[Nth(k)[1]] = tests'[k].name
      BY <2>2, <3>1
    <3> QED BY <3>2
  <2>10. ASSUME NEW p \in DOMAIN order, NEW r \in Of(order[p])
         PROVE  \E k \in DOMAIN tests' : tests'[k].name = order[p]
    <3>1. PICK i \in DOMAIN tests : tests[i].name = order[p]
      BY <1>2 DEF QueueExact, LastAccepted, Of, Queued
    <3>2. <<p, i>> \in Placed
      BY <3>1 DEF Placed
    <3>3. PICK k \in 1 .. n : Nth(k) = <<p, i>>
      BY <3>2, <2>1
    <3> QED BY <3>1, <3>3, <2>4
  <2>11. \A m : Of(m)' = Of(m)
    BY <1>1 DEF Of, Accepted
  <2>12. LastAccepted'
    <3> SUFFICES ASSUME NEW k \in 1 .. n
                 PROVE  /\ tests'[k].ref \in Of(tests'[k].name)
                        /\ \A r \in Of(tests'[k].name) : r <= tests'[k].ref
                        /\ tests'[k].tags = registered[tests'[k].ref].tags
      BY <1>1, <2>4, <2>11 DEF LastAccepted
    <3>1. Nth(k)[2] \in DOMAIN tests /\ tests'[k] = tests[Nth(k)[2]]
      BY <2>1, <2>2, <2>4
    <3> QED BY <3>1, <1>2 DEF QueueExact, LastAccepted
  <2>13. OrderExact'
    BY <1>1, <2>8, <2>9, <2>10, <2>11, <2>12 DEF OrderExact, Queued
  <2>14. \A k \in 1 .. n : /\ Nth(k)[2] \in DOMAIN tests /\ tests'[k] = tests[Nth(k)[2]]
                           /\ Nth(k)[1] \in Nat /\ tests'[k].name = order[Nth(k)[1]]
    BY <2>1, <2>2, <2>4
  <2>15. BodiesOwned'
    <3>1. ASSUME NEW k \in 1 .. n, NEW l \in 1 .. n, k < l, tests'[k].ref = tests'[l].ref
          PROVE  NamedTwice(tests'[k].name) /\ NamedTwice(tests'[l].name)
      <4>1. /\ Nth(k)[1] < Nth(l)[1] /\ Nth(k)[1] \in Nat /\ Nth(l)[1] \in Nat
            /\ Nth(k)[1] \in DOMAIN order /\ Nth(l)[1] \in DOMAIN order
            /\ order[Nth(k)[1]] = tests'[k].name /\ order[Nth(l)[1]] = tests'[l].name
        BY <2>7, <2>14, <3>1
      <4>2. tests'[k].name = tests'[l].name
        <5>1. \A i \in DOMAIN tests : registered[tests[i].ref].name = tests[i].name
          BY <1>2 DEF Bodies
        <5>2. /\ registered[tests'[k].ref].name = tests'[k].name
              /\ registered[tests'[l].ref].name = tests'[l].name
          BY <5>1, <2>14
        <5> QED BY <5>2, <3>1
      <4>3. Nth(k)[1] # Nth(l)[1]
        BY <4>1
      <4> QED BY <4>1, <4>2, <4>3 DEF NamedTwice
    <3>2. \A k \in 1 .. n : tests'[k].ref \in refs
      BY <2>14, <1>2 DEF Bodies, BodiesOwned
    <3>3. ASSUME NEW k \in 1 .. n, NEW l \in 1 .. n, k # l, tests'[k].ref = tests'[l].ref
          PROVE  NamedTwice(tests'[k].name)
      <4>1. k < l \/ l < k
        BY <2>1, <3>3
      <4> QED BY <4>1, <3>1, <3>3
    <3>4. \A m : NamedTwice(m)' <=> NamedTwice(m)
      BY <1>1 DEF NamedTwice
    <3> QED BY <3>2, <3>3, <3>4, <1>1, <2>4 DEF BodiesOwned
  <2>16. NoneLost'
    <3>1. refs = QueuedRefs \cup Raised
      BY <1>1, <1>2 DEF Bodies, NoneLost, Loads
    <3>2. ASSUME NEW i \in DOMAIN tests, tests[i].ref \notin Dropped
          PROVE  tests[i].ref \in QueuedRefs'
      <4>1. tests[i].ref \in DOMAIN registered /\ registered[tests[i].ref].name = tests[i].name
        BY <1>2 DEF Bodies, BodiesOwned, Accounted
      <4>2. PICK p \in DOMAIN order : order[p] = tests[i].name
        BY <1>4, <3>2, <4>1 DEF Dropped, Range
      <4>3. <<p, i>> \in Placed
        BY <4>2 DEF Placed
      <4>4. PICK k \in 1 .. n : Nth(k) = <<p, i>>
        BY <4>3, <2>1
      <4> QED BY <4>4, <2>4 DEF QueuedRefs
    <3>3. refs \subseteq QueuedRefs' \cup Raised \cup Dropped
      BY <3>1, <3>2 DEF QueuedRefs
    <3>4. Raised' = Raised /\ Dropped' = Dropped /\ pc' \notin Loads /\ pc' # "exited"
      BY <1>1 DEF Raised, Dropped, Loads, Directory
    <3> QED BY <3>3, <3>4, <1>1 DEF NoneLost
  <2>17. Accounted' /\ FreedOnce'
    <3>1. pc \notin Ended
      BY <1>1 DEF Ended
    <3> QED BY <3>1, <1>1, <1>2 DEF Bodies, Accounted, FreedOnce, NamedTwice
  <2>18. \A k \in 1 .. n : registered[tests'[k].ref].name = tests'[k].name
    BY <2>14, <1>2 DEF Bodies
  <2>19. Bodies'
    BY <1>1, <2>4, <2>15, <2>16, <2>17, <2>18 DEF Bodies, Loads, Directory
  <2> QED BY <1>1, <1>4, <2>6, <2>13, <2>19 DEF LoadInv, Loads, Directory
<1> QED BY <1>3, <1>4

\* x is in the list t more than once.
Twice(t, x) == \E k, l \in DOMAIN t : k # l /\ t[k] = t[l] /\ t[k] = x

\* What a list of released bodies is when those of another list are released.
LEMMA ReleasedAll ==
  ASSUME NEW S, NEW s \in Seq(S), NEW t \in Seq(S), IsInjective(s),
         Range(s) \cap Range(t) = {}, NEW u, u = s \o t
  PROVE  \A i, j \in DOMAIN u : i # j /\ u[i] = u[j] => Twice(t, u[i])
<1> SUFFICES ASSUME NEW i \in DOMAIN u, NEW j \in DOMAIN u, i # j, u[i] = u[j]
             PROVE  Twice(t, u[i])
  OBVIOUS
<1> DEFINE m == Len(s)
           n == Len(t)
<1>1. /\ u \in Seq(S) /\ m \in Nat /\ n \in Nat /\ DOMAIN s = 1 .. m /\ DOMAIN t = 1 .. n
      /\ DOMAIN u = 1 .. m + n
      /\ \A k \in 1 .. m : u[k] = s[k]
      /\ \A k \in 1 .. n : u[m + k] = t[k]
  OBVIOUS
<1> HIDE DEF m, n
<1>2. \A k \in DOMAIN u : k \in 1 .. m \/ (k - m \in 1 .. n /\ u[k] = t[k - m])
  <2> SUFFICES ASSUME NEW k \in DOMAIN u, k \notin 1 .. m
               PROVE  k - m \in 1 .. n /\ u[k] = t[k - m]
    OBVIOUS
  <2>1. k - m \in 1 .. n /\ m + (k - m) = k
    BY <1>1
  <2>2. u[m + (k - m)] = t[k - m]
    BY <1>1, <2>1
  <2> QED BY <2>1, <2>2
<1>3. \A k \in 1 .. m, l \in 1 .. n : s[k] # t[l]
  BY <1>1 DEF Range
<1>4. i \in Nat /\ j \in Nat
  BY <1>1
<1>5. ~(i \in 1 .. m /\ j \in 1 .. m)
  BY <1>1 DEF IsInjective
<1>6. i \notin 1 .. m /\ j \notin 1 .. m
  BY <1>1, <1>2, <1>3, <1>5
<1>7. /\ i - m \in DOMAIN t /\ j - m \in DOMAIN t /\ t[i - m] = u[i] /\ t[j - m] = u[i]
  BY <1>1, <1>2, <1>6
<1>8. i - m # j - m
  BY <1>1, <1>4
<1> QED BY <1>7, <1>8 DEF Twice

\* The range of two lists together.
LEMMA RangeOfBoth ==
  ASSUME NEW S, NEW s \in Seq(S), NEW t \in Seq(S)
  PROVE  s \o t \in Seq(S) /\ Range(s \o t) = Range(s) \cup Range(t)
<1> DEFINE u == s \o t
           m == Len(s)
           n == Len(t)
<1>1. /\ u \in Seq(S) /\ m \in Nat /\ n \in Nat /\ DOMAIN s = 1 .. m /\ DOMAIN t = 1 .. n
      /\ DOMAIN u = 1 .. m + n
      /\ \A i \in 1 .. m : u[i] = s[i]
      /\ \A i \in 1 .. n : u[m + i] = t[i]
  OBVIOUS
<1> HIDE DEF u, m, n
<1>2. ASSUME NEW i \in DOMAIN u PROVE u[i] \in Range(s) \cup Range(t)
  <2>1. CASE i \in 1 .. m
    BY <2>1, <1>1 DEF Range
  <2>2. CASE i \notin 1 .. m
    <3>1. i - m \in 1 .. n /\ m + (i - m) = i
      BY <2>2, <1>1
    <3>2. u[i] = t[i - m]
      BY <3>1, <1>1
    <3> QED BY <3>1, <3>2, <1>1 DEF Range
  <2> QED BY <2>1, <2>2
<1>3. ASSUME NEW i \in 1 .. n PROVE m + i \in DOMAIN u /\ u[m + i] = t[i]
  BY <1>1
<1>4. ASSUME NEW i \in 1 .. m PROVE i \in DOMAIN u /\ u[i] = s[i]
  BY <1>1
<1>5. Range(s) \subseteq Range(u) /\ Range(t) \subseteq Range(u)
  BY <1>3, <1>4, <1>1 DEF Range
<1>6. Range(u) \subseteq Range(s) \cup Range(t)
  BY <1>2 DEF Range
<1> QED BY <1>1, <1>5, <1>6 DEF u

LEMMA DeinitKeepsInv ==
  ASSUME LoadInv, Deinit
  PROVE  LoadInv'
<1> DEFINE left == [i \in DOMAIN tests |-> tests[i].ref]
<1>1. /\ pc = "deinit" /\ pc' \in {"exited", "crashed"} /\ order' = order /\ tests' = << >>
      /\ freed' = freed \o left /\ refs' = refs \ Range(left)
      /\ registered' = registered /\ hooks' = hooks /\ calls' = calls /\ exitcode' = exitcode
  BY DEF Deinit, Range
<1>2. /\ refs \subseteq Nat \ {0} /\ freed \in Seq(Nat \ {0}) /\ tests \in Seq(TestCase)
  BY DEF LoadInv, TypeOK
<1>3. left \in Seq(Nat \ {0}) /\ DOMAIN left = DOMAIN tests
  <2>1. DOMAIN tests = 1 .. Len(tests) /\ Len(tests) \in Nat
    BY <1>2
  <2>2. \A i \in 1 .. Len(tests) : tests[i] \in TestCase
    BY <1>2
  <2>3. \A i \in 1 .. Len(tests) : tests[i].ref \in Nat \ {0}
    BY <2>2 DEF TestCase
  <2> QED BY <2>1, <2>3
<1>4. \A i \in DOMAIN tests : left[i] = tests[i].ref
  OBVIOUS
<1>5. Range(left) = {tests[i].ref : i \in DOMAIN tests}
  BY DEF Range
<1> HIDE DEF left
<1>6. << >> \in Seq(TestCase) /\ DOMAIN << >> = {}
  OBVIOUS
<1>7. freed' \in Seq(Nat \ {0}) /\ refs' \subseteq Nat \ {0}
  <2>1. freed \o left \in Seq(Nat \ {0})
    BY <1>2, <1>3
  <2>2. refs \ Range(left) \subseteq Nat \ {0}
    BY <1>2
  <2> QED BY <1>1, <2>1, <2>2
<1>8. TypeOK'
  BY <1>1, <1>6, <1>7 DEF LoadInv, TypeOK, Point, Ended
<1>9. Bodies
  BY DEF LoadInv
<1>10. /\ IsInjective(freed) /\ Range(left) \subseteq refs /\ Range(freed) \cap Range(left) = {}
       /\ refs \cap Range(freed) = {} /\ refs \cup Range(freed) = DOMAIN registered
  BY <1>1, <1>5, <1>9 DEF Bodies, BodiesOwned, Accounted, FreedOnce, Ended
<1>11. Range(freed') = Range(freed) \cup Range(left)
  BY <1>1, <1>2, <1>3, RangeOfBoth
<1>12. Accounted'
  BY <1>1, <1>10, <1>11 DEF Accounted
<1>13. FreedOnce'
  <2>1. ASSUME NEW i \in DOMAIN freed', NEW j \in DOMAIN freed', i # j, freed'[i] = freed'[j]
        PROVE  NamedTwice(registered[freed'[i]].name)
    <3>1. PICK k \in DOMAIN left, l \in DOMAIN left :
            k # l /\ left[k] = left[l] /\ left[k] = freed'[i]
      <4>1. freed' = freed \o left /\ IsInjective(freed) /\ Range(freed) \cap Range(left) = {}
        BY <1>1, <1>10
      <4>2. \A a, b \in DOMAIN freed' : a # b /\ freed'[a] = freed'[b] => Twice(left, freed'[a])
        BY ONLY <1>2, <1>3, <4>1, ReleasedAll
      <4> QED BY <2>1, <4>2 DEF Twice
    <3>2. NamedTwice(tests[k].name) /\ registered[tests[k].ref].name = tests[k].name
      BY <1>3, <1>4, <1>9, <3>1 DEF Bodies, BodiesOwned
    <3> QED BY <1>3, <1>4, <3>1, <3>2
  <2>2. pc' \in Ended
    BY <1>1 DEF Ended
  <2> QED BY <1>1, <2>1, <2>2 DEF FreedOnce, NamedTwice
<1>14. NoneLost'
  <2>1. refs \subseteq QueuedRefs \cup Raised \cup Dropped /\ Range(left) = QueuedRefs
    BY <1>5, <1>9 DEF Bodies, NoneLost, QueuedRefs
  <2>2. Raised' = Raised /\ Dropped' = Dropped
    BY <1>1 DEF Raised, Dropped
  <2>3. pc' \notin Loads
    BY <1>1 DEF Loads, Directory
  <2> QED BY <1>1, <2>1, <2>2, <2>3 DEF NoneLost
<1>15. Bodies'
  BY <1>1, <1>6, <1>12, <1>13, <1>14 DEF Bodies, BodiesOwned, Loads, Directory
<1> QED BY <1>1, <1>8, <1>15 DEF LoadInv, Loads, Directory

LEMMA LoadInit ==
  ASSUME Orders \subseteq Seq(Names), Init
  PROVE  LoadInv
<1>1. DOMAIN << >> = {} /\ \A S : << >> \in Seq(S)
  OBVIOUS
<1>2. TypeOK
  BY <1>1 DEF Init, TypeOK, Point, Directory, Uninit
<1>3. QueueExact /\ Bodies
  BY <1>1 DEF Init, QueueExact, LastAccepted, Bodies, BodiesOwned, Accounted, FreedOnce, NoneLost,
     QueuedRefs, Raised, Dropped, Accepted, IsInjective, Range
<1> QED BY <1>2, <1>3 DEF Init, LoadInv, Directory

\* The steps that only go on to another point.
LEMMA GoOnKeepsInv ==
  ASSUME LoadInv, UNCHANGED <<order, tests, refs, freed, registered>>, calls' \in Nat,
         pc' \in Point, hooks' \in Nat \cup {Uninit},
         exitcode' \in {"EXIT_SUCCESS", "EXIT_FAILURE", "130"},
         pc' \in Loads => pc \in Loads,
         pc' \in {"amount", "run"} => pc \in {"amount", "run"},
         pc' = "exited" /\ exitcode' # "130" => pc = "exited" /\ exitcode # "130",
         pc \in Ended => pc' \in Ended
  PROVE  LoadInv'
<1>1. TypeOK'
  BY DEF LoadInv, TypeOK
<1>2. QueueExact' <=> QueueExact
  BY DEF QueueExact, LastAccepted, Of, Accepted, Queued
<1>3. OrderExact' <=> OrderExact
  BY DEF OrderExact, LastAccepted, Of, Accepted, Queued
<1>4. /\ (BodiesOwned' <=> BodiesOwned) /\ (Accounted' <=> Accounted) /\ QueuedRefs' = QueuedRefs
      /\ Raised' = Raised /\ Dropped' = Dropped /\ (FreedOnce => FreedOnce')
  BY DEF BodiesOwned, Accounted, NamedTwice, QueuedRefs, Raised, Dropped, FreedOnce
<1>5. NoneLost'
  BY <1>4 DEF LoadInv, Bodies, NoneLost
<1>6. Bodies'
  BY <1>4, <1>5 DEF LoadInv, Bodies
<1> QED BY <1>1, <1>2, <1>3, <1>6 DEF LoadInv

LEMMA LoadStep ==
  ASSUME LoadInv, Orders \subseteq Seq(Names), [Next]_vars
  PROVE  LoadInv'
<1> USE DEF Directory, Ended, Point, Loads
<1>1. ASSUME NEW name \in Names, NEW tags \in SUBSET Tags, RegisterTest(name, tags)
      PROVE  LoadInv'
  BY <1>1, FilteredKeepsInv, NewKeepsInv, OverrideKeepsInv
<1>2. CASE RegisterHook
  <2>1. /\ calls' \in Nat /\ hooks' \in Nat \cup {Uninit}
        /\ exitcode \in {"EXIT_SUCCESS", "EXIT_FAILURE", "130"}
    BY <1>2 DEF RegisterHook, LoadInv, TypeOK, Uninit
  <2> QED BY <1>2, <2>1, GoOnKeepsInv DEF RegisterHook, MayCall
<1>3. CASE LogAtTop
  BY <1>3, GoOnKeepsInv DEF LogAtTop, MayCall, LoadInv, TypeOK
<1>4. CASE FinishDirectory
  BY <1>4, GoOnKeepsInv DEF FinishDirectory, AfterDirectory, LoadInv, TypeOK
<1>5. CASE FailDirectory
  BY <1>5, GoOnKeepsInv DEF FailDirectory, LoadInv, TypeOK
<1>6. CASE OrderTests
  BY <1>6, OrderKeepsInv DEF LoadInv
<1>7. CASE CheckAmount
  BY <1>7, GoOnKeepsInv DEF CheckAmount, LoadInv, TypeOK
<1>8. CASE Deinit
  BY <1>8, DeinitKeepsInv
<1>9. ASSUME NEW ok \in BOOLEAN, Validate(ok) PROVE LoadInv'
  BY <1>9, GoOnKeepsInv DEF Validate, LoadInv, TypeOK
<1>10. ASSUME NEW result \in {"EXIT_SUCCESS", "EXIT_FAILURE", "130"}, RunTests(result)
       PROVE  LoadInv'
  BY <1>10, GoOnKeepsInv DEF RunTests, LoadInv, TypeOK
<1>11. CASE UNCHANGED vars
  BY <1>11, GoOnKeepsInv DEF vars, LoadInv, TypeOK
<1>12. ASSUME NEW name \in Names, RegisterRaises(name) PROVE LoadInv'
  BY <1>12, RaisedKeepsInv
<1> QED BY <1>1, <1>2, <1>3, <1>4, <1>5, <1>6, <1>7, <1>8, <1>9, <1>10, <1>11, <1>12
       DEF Next, Files, Main, Terminated

LEMMA LoadInvariant == ASSUME ConstantsOK PROVE Spec => []LoadInv
<1>1. Orders \subseteq Seq(Names)
  BY DEF ConstantsOK
<1>2. Init => LoadInv
  BY <1>1, LoadInit
<1>3. LoadInv /\ [Next]_vars => LoadInv'
  BY <1>1, LoadStep
<1> QED BY <1>2, <1>3, PTL DEF Spec

\* Type correctness of the loading: every queued test has a name, tags and the
\* registry reference of a body (test_case.c, modules/ltf/ltf.c).
THEOREM LoadingTypeCorrect == ASSUME ConstantsOK PROVE Spec => []TypeOK
<1>1. LoadInv => TypeOK
  BY DEF LoadInv
<1> QED BY <1>1, LoadInvariant, PTL

\* Whatever lib, common and the target's directory register, in any order and
\* with any filter, the queue is one test per selected name, at the place of its
\* first and, unless the filter left out its last registration, with the body of
\* that; and the tests that a scenario's order names run as it names them,
\* repeated and unknown names included (test_case_enqueue,
\* test_case_order_tests).
THEOREM QueueStaysSelection == ASSUME ConstantsOK PROVE Spec => []QueueIsSelection
<1>1. ASSUME LoadInv, LastAccepted PROVE Newest /\ \A i \in DOMAIN tests : Of(tests[i].name) # {}
  <2>1. ASSUME NEW i \in DOMAIN tests PROVE Of(tests[i].name) # {}
    BY <1>1, <2>1 DEF LastAccepted
  <2>2. ASSUME NEW i \in DOMAIN tests, Undisputed(tests[i].name)
        PROVE  /\ tests[i].ref \in Made(tests[i].name)
               /\ \A r \in Made(tests[i].name) : r <= tests[i].ref
               /\ tests[i].tags = registered[tests[i].ref].tags
    <3>1. /\ tests[i].ref \in Of(tests[i].name)
          /\ \A q \in Of(tests[i].name) : q <= tests[i].ref
          /\ tests[i].tags = registered[tests[i].ref].tags
      BY <1>1, <2>2 DEF LastAccepted
    <3>2. DOMAIN registered \subseteq Nat
      BY <1>1 DEF LoadInv, TypeOK
    <3>3. /\ Of(tests[i].name) \subseteq Made(tests[i].name)
          /\ Made(tests[i].name) \subseteq DOMAIN registered
      BY DEF Of, Made, Accepted
    <3>4. ASSUME NEW r \in Made(tests[i].name) PROVE r <= tests[i].ref
      <4>1. PICK q \in Of(tests[i].name) : r <= q
        BY <2>1, <2>2 DEF Undisputed
      <4> QED BY <4>1, <3>1, <3>2, <3>3
    <3> QED BY <3>1, <3>3, <3>4
  <2> QED BY <2>1, <2>2 DEF Newest
<1>2. ASSUME LoadInv, QueueExact PROVE Selected
  BY <1>1, <1>2 DEF QueueExact, Selected
<1>3. ASSUME LoadInv, OrderExact PROVE Ordered
  BY <1>1, <1>3 DEF OrderExact, Ordered
<1>4. LoadInv => QueueIsSelection
  BY <1>2, <1>3 DEF LoadInv, QueueIsSelection, Loads
<1> QED BY <1>4, LoadInvariant, PTL

\* Whatever is overridden, filtered, ordered, raised or fails, no body of a test
\* is released while its test is queued, and none twice but that of a test which
\* the order names twice; when deinit is done, only bodies of tests that the
\* order did not name and of calls that raised are left (test_case_free_all,
\* l_module_ltf_register_test).
THEOREM BodiesStayReleased == ASSUME ConstantsOK PROVE Spec => []BodiesReleased
<1>1. ASSUME LoadInv PROVE BodiesReleased
  <2>1. Bodies
    BY <1>1 DEF LoadInv
  <2>2. ASSUME pc = "exited", exitcode # "130"
        PROVE  \A r \in refs : \/ registered[r].raised
                               \/ order # << >> /\ registered[r].name \notin Range(order)
    <3>1. tests = << >>
      BY <2>1, <2>2 DEF Bodies, NoneLost
    <3>2. QueuedRefs = {}
      BY <3>1 DEF QueuedRefs
    <3> QED BY <3>2, <2>1 DEF Bodies, NoneLost, Raised, Dropped
  <2> QED BY <2>1, <2>2 DEF BodiesReleased, Bodies, Accounted, FreedOnce
<1> QED BY <1>1, LoadInvariant, PTL

-----------------------------------------------------------------------------
(* The tree of keywords.                                                   *)

\* The stack has the keywords of the named functions that run, the inner ones
\* younger.
StackShape ==
  /\ Len(keyword_stack) = Cardinality(K!NamedFrames)
  /\ \A i \in DOMAIN keyword_stack :
       /\ \E j \in K!NamedFrames : K!Depth(j) = i
       /\ \A h \in DOMAIN keyword_stack :
            (h < i /\ keyword_stack[i].kw # 0) => keyword_stack[h].kw < keyword_stack[i].kw
  /\ \A j \in K!NamedFrames : keyword_stack[K!Depth(j)].kw = frames[j].keyword

\* The innermost named function has no keyword, or it is the caller.
TreeShape ==
  \A k \in DOMAIN keywords :
    /\ keywords[k].parent = keywords[k].caller \/ (strayed /\ keywords[k].parent = 0)
    /\ keywords[k].finished <=> \A j \in DOMAIN frames : frames[j].keyword # k

\* When nothing strayed, each is below its parent on the stack, and only
\* functions that the library calls have no keyword.
StackExact ==
  \A i \in DOMAIN keyword_stack :
    /\ keyword_stack[i].valid
    /\ keyword_stack[i].kw # 0 =>
         keywords[keyword_stack[i].kw].parent = IF i = 1 THEN 0 ELSE keyword_stack[i - 1].kw
    /\ (keyword_stack[i].kw # 0 /\ i > 1) => keyword_stack[i - 1].kw # 0

KeywordInv ==
  /\ K!TypeOK
  /\ ~test_running => frames = << >>
  /\ \A j \in DOMAIN frames : j \notin K!NamedFrames => frames[j].keyword = 0
  /\ ~lost => /\ TreeShape
              /\ test_running => StackShape
              /\ ~strayed => /\ ~dangling
                             /\ test_running => StackExact

\* Keywords counts as FiniteSets does.
LEMMA SameCardinality == ASSUME NEW S PROVE K!Cardinality(S) = Cardinality(S)
  BY DEF K!Cardinality, Cardinality

\* The depth of a named function is its number among the named ones.
LEMMA DepthProperties ==
  ASSUME frames \in Seq(K!Frame)
  PROVE  /\ K!NamedFrames \subseteq 1 .. Len(frames) /\ Len(frames) \in Nat
         /\ IsFiniteSet(K!NamedFrames) /\ Cardinality(K!NamedFrames) \in Nat
         /\ \A j \in K!NamedFrames : K!Depth(j) \in 1 .. Cardinality(K!NamedFrames)
         /\ \A i, j \in K!NamedFrames : i < j => K!Depth(i) < K!Depth(j)
<1> DEFINE named == K!NamedFrames
           upto(j) == {k \in named : k <= j}
<1>1. Len(frames) \in Nat /\ DOMAIN frames = 1 .. Len(frames)
  OBVIOUS
<1>2. named \subseteq 1 .. Len(frames)
  BY <1>1 DEF K!NamedFrames
<1>3. IsFiniteSet(1 .. Len(frames))
  BY <1>1, FS_Interval
<1>4. IsFiniteSet(named)
  BY <1>2, <1>3, FS_Subset
<1>5. Cardinality(named) \in Nat
  BY <1>4, FS_CardinalityType
<1>6. ASSUME NEW j PROVE K!Depth(j) = Cardinality(upto(j))
  BY SameCardinality DEF K!Depth
<1> HIDE DEF named
<1>7. ASSUME NEW j PROVE /\ IsFiniteSet(upto(j)) /\ Cardinality(upto(j)) \in Nat
                         /\ Cardinality(upto(j)) <= Cardinality(named)
  <2>1. upto(j) \subseteq named
    OBVIOUS
  <2>2. IsFiniteSet(upto(j)) /\ Cardinality(upto(j)) <= Cardinality(named)
    BY <1>4, <2>1, FS_Subset
  <2> QED BY <2>2, FS_CardinalityType
<1>8. ASSUME NEW j \in named PROVE Cardinality(upto(j)) # 0
  <2>1. j \in upto(j)
    BY <1>1, <1>2
  <2> QED BY <1>7, <2>1, FS_EmptySet
<1>9. ASSUME NEW i \in named, NEW j \in named, i < j
      PROVE  Cardinality(upto(i)) < Cardinality(upto(j))
  <2>1. i \in Nat /\ j \in Nat /\ \A k \in named : k \in Nat
    BY <1>1, <1>2
  <2>2. upto(i) \subseteq upto(j) /\ j \in upto(j) /\ j \notin upto(i)
    <3>1. \A k \in named : k <= i => k <= j
      BY <1>9, <2>1
    <3>2. j <= j /\ ~(j <= i)
      BY <1>9, <2>1
    <3> QED BY <3>1, <3>2
  <2>3. /\ Cardinality(upto(i)) <= Cardinality(upto(j))
        /\ Cardinality(upto(j)) = Cardinality(upto(i)) => upto(j) = upto(i)
    BY <1>7, <2>2, FS_Subset
  <2>4. upto(j) # upto(i)
    BY <2>2
  <2> HIDE DEF upto
  <2> QED BY <1>7, <2>3, <2>4
<1> HIDE DEF upto
<1>10. \A j \in named : K!Depth(j) \in 1 .. Cardinality(named)
  BY <1>5, <1>6, <1>7, <1>8
<1>11. \A i, j \in named : i < j => K!Depth(i) < K!Depth(j)
  BY <1>6, <1>9
<1> QED BY <1>1, <1>2, <1>4, <1>5, <1>10, <1>11 DEF named

\* A set of numbers with a bound has a greatest one.
LEMMA Greatest ==
  ASSUME NEW n \in Nat, NEW T \in SUBSET (0 .. n), T # {}
  PROVE  \E g \in T : \A y \in T : y <= g
<1> DEFINE D == {d \in Nat : n - d \in T}
<1>1. PICK t \in T : t \in 0 .. n
  OBVIOUS
<1>2. n - t \in D
  BY <1>1
<1>3. PICK d \in D : \A e \in D : <<e, d>> \notin OpToRel(<, Nat)
  BY <1>2, NatLessThanWellFounded, WFMin
<1>4. ASSUME NEW y \in T PROVE y <= n - d
  <2>1. y \in 0 .. n /\ n - y \in D /\ d \in Nat
    <3>1. y \in 0 .. n /\ n - y \in Nat /\ n - (n - y) = y
      OBVIOUS
    <3> QED BY <1>3, <3>1
  <2>2. ~(n - y < d)
    BY <1>3, <2>1 DEF OpToRel
  <2> QED BY <2>1, <2>2
<1> QED BY <1>3, <1>4

\* The innermost recorded function is the caller.
LEMMA CallerInnermost ==
  ASSUME frames \in Seq(K!Frame), NEW j \in DOMAIN frames, frames[j].keyword # 0,
         \A i \in DOMAIN frames : i > j => frames[i].keyword = 0
  PROVE  K!Caller = frames[j].keyword
<1> DEFINE T == {i \in DOMAIN frames : frames[i].keyword # 0}
           c == CHOOSE i \in T : \A y \in T : y <= i
<1>1. Len(frames) \in Nat /\ DOMAIN frames = 1 .. Len(frames) /\ j \in T
  OBVIOUS
<1>2. \A y \in T : y \in Nat /\ y <= j
  BY <1>1
<1>3. c \in T /\ \A y \in T : y <= c
  BY <1>1, <1>2
<1>4. c = j
  BY <1>1, <1>2, <1>3
<1>5. K!Caller = frames[c].keyword
  BY <1>1 DEF K!Caller
<1> QED BY <1>4, <1>5

LEMMA CallerNone ==
  ASSUME \A i \in DOMAIN frames : frames[i].keyword = 0
  PROVE  K!Caller = 0
BY DEF K!Caller

\* Calls and returns of functions without a name change neither stack nor tree.
LEMMA UnnamedKeepExact ==
  ASSUME KeywordInv, K!TypeOK', lost => lost', UNCHANGED strayed, dangling' = dangling,
         test_running, test_running',
         UNCHANGED <<keyword_stack, keywords>>,
         ~lost' => /\ K!NamedFrames' = K!NamedFrames
                   /\ \A j \in K!NamedFrames : frames'[j] = frames[j],
         \A j \in DOMAIN frames' : j \notin K!NamedFrames' => frames'[j].keyword = 0
  PROVE  KeywordInv'
<1> SUFFICES ASSUME ~lost'
             PROVE  TreeShape' /\ StackShape' /\ (~strayed' => ~dangling' /\ StackExact')
  BY DEF KeywordInv
<1>1. /\ ~lost /\ TreeShape /\ StackShape
      /\ ~strayed => ~dangling /\ StackExact
  BY DEF KeywordInv
<1>2. /\ K!NamedFrames' = K!NamedFrames /\ \A j \in K!NamedFrames : frames'[j] = frames[j]
      /\ K!NamedFrames \subseteq DOMAIN frames /\ K!NamedFrames \subseteq DOMAIN frames'
  BY DEF K!NamedFrames
<1>3. \A j : K!Depth(j)' = K!Depth(j)
  BY <1>2 DEF K!Depth
<1>4. StackShape' /\ (~strayed' => ~dangling' /\ StackExact')
  BY <1>1, <1>2, <1>3 DEF StackShape, StackExact
<1>5. \A k \in DOMAIN keywords : k # 0
  BY DEF KeywordInv, K!TypeOK
<1>6. ASSUME NEW k \in DOMAIN keywords
      PROVE  (\A j \in DOMAIN frames : frames[j].keyword # k)
               <=> (\A j \in DOMAIN frames' : frames'[j].keyword # k)
  BY <1>2, <1>5 DEF KeywordInv
<1>7. TreeShape'
  BY <1>1, <1>6 DEF TreeShape
<1> QED BY <1>4, <1>7

-----------------------------------------------------------------------------
(* A call that is recorded or ignored.                                     *)

\* The entry that a call finds on top of the stack.
Top == IF keyword_stack = << >> THEN [kw |-> 0, in_blacklist |-> FALSE, valid |-> TRUE]
       ELSE keyword_stack[Len(keyword_stack)]

\* A call adds an entry and, unless it is ignored, a keyword under the top of
\* the stack; entries may lose their place in memory, not their keyword.
Adds(kind, ignored, added) ==
  /\ test_running /\ test_running' = test_running
  /\ ignored => Top.in_blacklist
  /\ added = IF ignored THEN 0 ELSE Len(keywords) + 1
  /\ frames' = Append(frames, [kind |-> kind, tail |-> FALSE, keyword |-> added])
  /\ keyword_stack' \in Seq(K!Entry)
  /\ Len(keyword_stack') = Len(keyword_stack) + 1
  /\ keyword_stack'[Len(keyword_stack) + 1] =
       [kw |-> added, in_blacklist |-> kind = "lib", valid |-> TRUE]
  /\ \A i \in 1 .. Len(keyword_stack) :
       /\ keyword_stack'[i].kw = keyword_stack[i].kw
       /\ (keyword_stack[i].valid /\ (keyword_stack[i].kw = 0 \/ ignored
             \/ keywords[keyword_stack[i].kw].parent # Top.kw))
          => keyword_stack'[i].valid
  /\ keywords' = IF ignored THEN keywords
                 ELSE Append(keywords, [parent |-> Top.kw, finished |-> FALSE,
                                        caller |-> K!Caller])
  /\ dangling' = (dangling \/ ~Top.valid)
  /\ strayed' = (strayed \/ (~ignored /\ keyword_stack # << >> /\ Top.kw = 0))
  /\ lost' = lost

LEMMA CallAdds ==
  ASSUME K!TypeOK, NEW kind \in {"project", "lib"}, K!Call(kind)
  PROVE  \E ignored \in BOOLEAN, added \in Nat : Adds(kind, ignored, added)
<1> DEFINE ignored == Top.in_blacklist /\ kind = "lib"
           added == IF ignored THEN 0 ELSE Len(keywords) + 1
           moved == ~ignored /\ K!Full(Top.kw)
           Kept(e) == [e EXCEPT !.valid =
                         @ /\ ~(moved /\ e.kw # 0 /\ keywords[e.kw].parent = Top.kw)]
           entry == [kw |-> added, in_blacklist |-> kind = "lib", valid |-> TRUE]
           kept == [i \in DOMAIN keyword_stack |-> Kept(keyword_stack[i])]
<1>1. /\ keyword_stack' = Append(kept, entry)
      /\ frames' = Append(frames, [kind |-> kind, tail |-> FALSE, keyword |-> added])
      /\ keywords' = IF ignored THEN keywords
                     ELSE Append(keywords, [parent |-> Top.kw, finished |-> FALSE,
                                            caller |-> K!Caller])
      /\ dangling' = (dangling \/ ~Top.valid)
      /\ strayed' = (strayed \/ (~ignored /\ keyword_stack # << >> /\ Top.kw = 0))
      /\ test_running /\ test_running' = test_running /\ lost' = lost
  BY DEF K!Call, K!MayCall, K!Entered, K!Last, Top
<1>2. /\ keyword_stack \in Seq(K!Entry) /\ Len(keyword_stack) \in Nat /\ Len(keywords) \in Nat
      /\ DOMAIN keyword_stack = 1 .. Len(keyword_stack)
  BY DEF K!TypeOK
<1>3. added \in Nat /\ ignored \in BOOLEAN /\ (ignored => Top.in_blacklist)
  <2>1. Top.in_blacklist \in BOOLEAN
    <3>1. CASE keyword_stack = << >>
      BY <3>1 DEF Top
    <3>2. CASE keyword_stack # << >>
      <4>1. Len(keyword_stack) \in 1 .. Len(keyword_stack)
        BY <3>2, <1>2
      <4>2. keyword_stack[Len(keyword_stack)] \in K!Entry
        BY <4>1, <1>2
      <4> QED BY <3>2, <4>2 DEF Top, K!Entry
    <3> QED BY <3>1, <3>2
  <2> QED BY <2>1, <1>2
<1>4. entry \in K!Entry
  BY <1>3 DEF K!Entry
<1>5. ASSUME NEW i \in 1 .. Len(keyword_stack)
      PROVE  /\ kept[i] \in K!Entry /\ kept[i].kw = keyword_stack[i].kw
             /\ (keyword_stack[i].valid /\ (keyword_stack[i].kw = 0 \/ ignored
                    \/ keywords[keyword_stack[i].kw].parent # Top.kw))
                 => kept[i].valid
  <2>1. keyword_stack[i] \in K!Entry /\ kept[i] = Kept(keyword_stack[i])
    BY <1>2
  <2> QED BY <2>1 DEF K!Entry
<1>6. kept \in Seq(K!Entry) /\ Len(kept) = Len(keyword_stack)
  <2> DEFINE n == Len(keyword_stack)
  <2>1. DOMAIN kept = 1 .. n /\ n \in Nat
    BY <1>2
  <2>2. kept = [i \in 1 .. n |-> kept[i]]
    BY <1>2
  <2>3. \A i \in 1 .. n : kept[i] \in K!Entry
    BY <1>5
  <2> HIDE DEF kept, n
  <2> QED BY <2>1, <2>2, <2>3 DEF n
<1> HIDE DEF kept, entry
<1>7. /\ keyword_stack' \in Seq(K!Entry) /\ Len(keyword_stack') = Len(keyword_stack) + 1
      /\ keyword_stack'[Len(keyword_stack) + 1] = entry
      /\ \A i \in 1 .. Len(keyword_stack) : keyword_stack'[i] = kept[i]
  BY <1>1, <1>2, <1>4, <1>6
<1>8. \A i \in 1 .. Len(keyword_stack) :
        /\ keyword_stack'[i].kw = keyword_stack[i].kw
        /\ (keyword_stack[i].valid /\ (keyword_stack[i].kw = 0 \/ ignored
              \/ keywords[keyword_stack[i].kw].parent # Top.kw))
           => keyword_stack'[i].valid
  BY <1>5, <1>7
<1> HIDE DEF ignored
<1> USE <1>3
<1> WITNESS ignored \in BOOLEAN, added \in Nat
<1> QED BY <1>1, <1>3, <1>7, <1>8 DEF entry, Adds

\* The keyword on top of the stack is the caller's.
LEMMA TopIsCaller ==
  ASSUME KeywordInv, StackShape, keyword_stack # << >> => Top.kw # 0
  PROVE  Top.kw = K!Caller
<1> DEFINE n == Len(keyword_stack)
<1>1. /\ frames \in Seq(K!Frame) /\ n \in Nat /\ DOMAIN keyword_stack = 1 .. n
      /\ keyword_stack \in Seq(K!Entry)
  BY DEF KeywordInv, K!TypeOK
<1>2. /\ n = Cardinality(K!NamedFrames) /\ IsFiniteSet(K!NamedFrames)
      /\ K!NamedFrames \subseteq 1 .. Len(frames) /\ Len(frames) \in Nat
      /\ DOMAIN frames = 1 .. Len(frames)
  BY <1>1, DepthProperties DEF StackShape
<1>3. CASE keyword_stack = << >>
  <2>1. K!NamedFrames = {}
    BY <1>2, <1>3, FS_EmptySet
  <2>2. \A i \in DOMAIN frames : frames[i].keyword = 0
    BY <2>1 DEF KeywordInv
  <2> QED BY <1>3, <2>2, CallerNone DEF Top
<1>4. CASE keyword_stack # << >>
  <2>1. n \in DOMAIN keyword_stack /\ Top.kw = keyword_stack[n].kw
    BY <1>1, <1>4 DEF Top
  <2>2. PICK j \in K!NamedFrames : K!Depth(j) = n
    BY <2>1 DEF StackShape
  <2>3. frames[j].keyword = Top.kw /\ j \in DOMAIN frames
    BY <2>1, <2>2 DEF StackShape, K!NamedFrames
  <2>4. ASSUME NEW i \in DOMAIN frames, i > j PROVE frames[i].keyword = 0
    <3>1. i \notin K!NamedFrames
      <4>1. SUFFICES ASSUME i \in K!NamedFrames PROVE FALSE
        OBVIOUS
      <4>2. K!Depth(i) \in 1 .. n /\ K!Depth(j) \in 1 .. n
            /\ (j < i => K!Depth(j) < K!Depth(i))
        BY <1>1, <1>2, <4>1, DepthProperties
      <4>3. j < i
        BY <1>2, <2>3, <2>4
      <4> QED BY <2>2, <4>2, <4>3, <1>1
    <3> QED BY <3>1 DEF KeywordInv
  <2> QED BY <1>1, <1>4, <2>3, <2>4, CallerInnermost
<1> QED BY <1>3, <1>4

LEMMA CallKeepsType ==
  ASSUME KeywordInv, NEW kind \in {"project", "lib"}, K!Call(kind)
  PROVE  K!TypeOK'
<1>1. K!TypeOK
  BY DEF KeywordInv
<1>2. PICK ignored \in BOOLEAN, added \in Nat : Adds(kind, ignored, added)
  BY <1>1, CallAdds
<1> USE <1>2 DEF Adds
<1>3. /\ frames \in Seq(K!Frame) /\ keywords \in Seq(K!Keyword) /\ Len(keywords) \in Nat
      /\ keyword_stack \in Seq(K!Entry) /\ Len(keyword_stack) \in Nat
      /\ DOMAIN keyword_stack = 1 .. Len(keyword_stack)
      /\ DOMAIN keywords = 1 .. Len(keywords)
      /\ dangling \in BOOLEAN /\ lost \in BOOLEAN /\ strayed \in BOOLEAN
  BY <1>1 DEF K!TypeOK
<1>4. frames' \in Seq(K!Frame)
  <2>1. [kind |-> kind, tail |-> FALSE, keyword |-> added] \in K!Frame
    BY DEF K!Frame, K!Kind
  <2> QED BY <1>2, <1>3, <2>1
<1>5. Top.kw \in 0 .. Len(keywords)
  <2>1. CASE keyword_stack = << >>
    BY <2>1, <1>3 DEF Top
  <2>2. CASE keyword_stack # << >>
    <3>1. Len(keyword_stack) \in DOMAIN keyword_stack
      BY <2>2, <1>3
    <3> QED BY <2>2, <3>1, <1>1 DEF Top, K!TypeOK
  <2> QED BY <2>1, <2>2
<1>6. K!Caller \in Nat
  <2>1. CASE \A i \in DOMAIN frames : frames[i].keyword = 0
    BY <2>1 DEF K!Caller
  <2>2. CASE \E i \in DOMAIN frames : frames[i].keyword # 0
    <3> DEFINE T == {i \in DOMAIN frames : frames[i].keyword # 0}
               c == CHOOSE i \in T : \A y \in T : y <= i
    <3>1. Len(frames) \in Nat /\ T \subseteq 0 .. Len(frames) /\ T # {}
      BY <2>2, <1>3
    <3>2. PICK g \in T : \A y \in T : y <= g
      BY <3>1, Greatest
    <3>3. c \in T
      BY <3>2
    <3>4. frames[c] \in K!Frame
      BY <3>3, <1>3
    <3>5. K!Caller = frames[c].keyword
      BY <3>1 DEF K!Caller
    <3> QED BY <3>4, <3>5 DEF K!Frame
  <2> QED BY <2>1, <2>2
<1>7. /\ keywords' \in Seq(K!Keyword)
      /\ Len(keywords') = IF ignored THEN Len(keywords) ELSE Len(keywords) + 1
      /\ added \in 0 .. Len(keywords')
      /\ \A k \in DOMAIN keywords' : keywords'[k].parent \in 0 .. k - 1
  <2> DEFINE kw == [parent |-> Top.kw, finished |-> FALSE, caller |-> K!Caller]
  <2>1. CASE ignored
    BY <2>1, <1>1, <1>2, <1>3 DEF K!TypeOK
  <2>2. CASE ~ignored
    <3>1. kw \in K!Keyword /\ kw.parent = Top.kw
      BY <1>3, <1>5, <1>6 DEF K!Keyword
    <3>2. keywords' = Append(keywords, kw) /\ added = Len(keywords) + 1
      BY <2>2, <1>2
    <3> HIDE DEF kw
    <3>3. /\ keywords' \in Seq(K!Keyword) /\ DOMAIN keywords' = 1 .. Len(keywords) + 1
          /\ Len(keywords') = Len(keywords) + 1
          /\ keywords'[Len(keywords) + 1] = kw
          /\ \A k \in 1 .. Len(keywords) : keywords'[k] = keywords[k]
      BY <3>1, <3>2, <1>3
    <3>4. \A k \in 1 .. Len(keywords) : keywords[k].parent \in 0 .. k - 1
      BY <1>1, <1>3 DEF K!TypeOK
    <3>5. \A k \in DOMAIN keywords' : keywords'[k].parent \in 0 .. k - 1
      <4>1. \A k \in DOMAIN keywords' : k \in 1 .. Len(keywords) \/ k = Len(keywords) + 1
        BY <3>3, <1>3
      <4>2. kw.parent \in 0 .. (Len(keywords) + 1) - 1
        BY <3>1, <1>3, <1>5
      <4> QED BY <3>3, <3>4, <4>1, <4>2
    <3> QED BY <2>2, <3>2, <3>3, <3>5, <1>3
  <2> QED BY <2>1, <2>2
<1>8. \A i \in DOMAIN keyword_stack' : keyword_stack'[i].kw \in 0 .. Len(keywords')
  <2>1. \A i \in DOMAIN keyword_stack' :
           i \in 1 .. Len(keyword_stack) \/ i = Len(keyword_stack) + 1
    BY <1>2, <1>3
  <2>2. \A i \in 1 .. Len(keyword_stack) : keyword_stack[i].kw \in 0 .. Len(keywords)
    BY <1>1, <1>3 DEF K!TypeOK
  <2>3. \A i \in 1 .. Len(keyword_stack) : keyword_stack'[i].kw \in 0 .. Len(keywords')
    BY <2>2, <1>2, <1>3, <1>7, SMTT(20)
  <2>4. keyword_stack'[Len(keyword_stack) + 1].kw = added
    BY <1>2
  <2> QED BY <2>1, <2>3, <2>4, <1>7
<1>9. Top.valid \in BOOLEAN
  <2>1. CASE keyword_stack = << >>
    BY <2>1 DEF Top
  <2>2. CASE keyword_stack # << >>
    <3>1. Len(keyword_stack) \in 1 .. Len(keyword_stack)
      BY <2>2, <1>3
    <3>2. keyword_stack[Len(keyword_stack)] \in K!Entry
      BY <3>1, <1>3
    <3> QED BY <2>2, <3>2 DEF Top, K!Entry
  <2> QED BY <2>1, <2>2
<1>10. /\ test_running' \in BOOLEAN /\ dangling' \in BOOLEAN
       /\ lost' \in BOOLEAN /\ strayed' \in BOOLEAN
  <2>1. test_running' \in BOOLEAN
    BY <1>1, <1>2 DEF K!TypeOK
  <2> QED BY <2>1, <1>2, <1>3, <1>9
<1> QED BY <1>2, <1>4, <1>7, <1>8, <1>10 DEF K!TypeOK

\* A named function on top is the deepest.
LEMMA FrameAdded ==
  ASSUME frames \in Seq(K!Frame), NEW f \in K!Frame, K!Named(f), frames' = Append(frames, f),
         NEW m \in Nat, m = Len(frames) + 1
  PROVE  LET n == Cardinality(K!NamedFrames)
         IN  /\ K!NamedFrames' = K!NamedFrames \cup {m} /\ m \notin K!NamedFrames
             /\ DOMAIN frames' = DOMAIN frames \cup {m} /\ m \notin DOMAIN frames
             /\ \A j \in DOMAIN frames : frames'[j] = frames[j]
             /\ frames'[m] = f
             /\ Cardinality(K!NamedFrames)' = n + 1
             /\ \A j \in K!NamedFrames : K!Depth(j)' = K!Depth(j)
             /\ K!Depth(m)' = n + 1
<1> DEFINE n == Cardinality(K!NamedFrames)
<1>1. /\ Len(frames) \in Nat /\ DOMAIN frames = 1 .. Len(frames)
      /\ DOMAIN frames' = 1 .. m /\ frames'[m] = f
      /\ \A j \in 1 .. Len(frames) : frames'[j] = frames[j]
  OBVIOUS
<1>2. K!NamedFrames \subseteq 1 .. Len(frames) /\ IsFiniteSet(K!NamedFrames) /\ n \in Nat
  BY DepthProperties
<1>3. (\A j \in 1 .. Len(frames) : j \in Nat /\ j < m)
      /\ (\A j \in 1 .. m : j = m \/ j \in 1 .. Len(frames)) /\ m \notin DOMAIN frames
      /\ 1 .. Len(frames) \subseteq 1 .. m /\ m \in 1 .. m
  BY <1>1
<1>4. K!NamedFrames' = K!NamedFrames \cup {m}
  BY <1>1, <1>3 DEF K!NamedFrames, K!Named
<1>5. m \notin K!NamedFrames
  BY <1>2, <1>3
<1>6. Cardinality(K!NamedFrames)' = n + 1
  BY <1>2, <1>4, <1>5, FS_AddElement
<1>7. ASSUME NEW j \in K!NamedFrames PROVE K!Depth(j)' = K!Depth(j)
  <2>1. ~(m <= j)
    BY <1>2, <1>3
  <2>2. {k \in K!NamedFrames' : k <= j} = {k \in K!NamedFrames : k <= j}
    BY <1>4, <2>1
  <2> QED BY <2>2 DEF K!Depth
<1>8. K!Depth(m)' = n + 1
  <2>1. \A k \in K!NamedFrames' : k <= m
    BY <1>2, <1>3, <1>4
  <2>2. {k \in K!NamedFrames' : k <= m} = K!NamedFrames'
    BY <2>1
  <2> QED BY <1>6, <2>2, SameCardinality DEF K!Depth
<1> QED BY <1>1, <1>3, <1>4, <1>5, <1>6, <1>7, <1>8

LEMMA CallKeepsInv ==
  ASSUME KeywordInv, NEW kind \in {"project", "lib"}, K!Call(kind)
  PROVE  KeywordInv'
<1>1. K!TypeOK /\ K!TypeOK'
  BY CallKeepsType DEF KeywordInv
<1>2. PICK ignored \in BOOLEAN, added \in Nat : Adds(kind, ignored, added)
  BY <1>1, CallAdds
<1> DEFINE n == Len(keyword_stack)
           c == Len(keywords)
           f == [kind |-> kind, tail |-> FALSE, keyword |-> added]
<1>3. /\ frames \in Seq(K!Frame) /\ n \in Nat /\ c \in Nat
      /\ DOMAIN keyword_stack = 1 .. n /\ DOMAIN keywords = 1 .. c
      /\ keywords \in Seq(K!Keyword)
      /\ \A i \in 1 .. n : keyword_stack[i].kw \in 0 .. c
      /\ \A k \in 1 .. c : keywords[k].parent \in 0 .. k - 1
  BY <1>1 DEF K!TypeOK
<1>4. f \in K!Frame /\ K!Named(f) /\ f.keyword = added /\ frames' = Append(frames, f)
  BY <1>2 DEF K!Frame, K!Kind, K!Named, Adds
<1> HIDE DEF f
<1> PICK m \in Nat : m = Len(frames) + 1
  BY <1>3
<1>5. /\ K!NamedFrames' = K!NamedFrames \cup {m} /\ m \notin K!NamedFrames
      /\ DOMAIN frames' = DOMAIN frames \cup {m} /\ m \notin DOMAIN frames
      /\ \A j \in DOMAIN frames : frames'[j] = frames[j]
      /\ frames'[m] = f
      /\ Cardinality(K!NamedFrames)' = Cardinality(K!NamedFrames) + 1
      /\ \A j \in K!NamedFrames : K!Depth(j)' = K!Depth(j)
      /\ K!Depth(m)' = Cardinality(K!NamedFrames) + 1
  BY <1>3, <1>4, FrameAdded
<1>6. \A j \in DOMAIN frames' : j \notin K!NamedFrames' => frames'[j].keyword = 0
  BY <1>5 DEF KeywordInv
<1>7. ASSUME ~lost' PROVE TreeShape' /\ StackShape' /\ (~strayed' => ~dangling' /\ StackExact')
  <2>1. /\ ~lost /\ TreeShape /\ StackShape
        /\ n = Cardinality(K!NamedFrames)
        /\ ~strayed' => ~strayed /\ ~dangling /\ StackExact /\ (ignored \/ keyword_stack = << >> \/ Top.kw # 0)
        /\ strayed => strayed'
    BY <1>2, <1>7 DEF Adds, KeywordInv, StackShape
  <2>2. keyword_stack = << >> <=> n = 0
    BY <1>1 DEF K!TypeOK
  <2>3. n # 0 => Top = keyword_stack[n] /\ n \in 1 .. n
    BY <2>2, <1>3 DEF Top
  <2>4. n = 0 => Top.kw = 0 /\ Top.valid /\ ~Top.in_blacklist
    BY <2>2 DEF Top
  <2>5. ASSUME ~strayed' PROVE ~dangling'
    <3>1. dangling' = (dangling \/ ~Top.valid)
      BY <1>2 DEF Adds
    <3>2. n # 0 => Top.valid
      BY <1>3, <2>1, <2>3, <2>5 DEF StackExact
    <3> QED BY <3>1, <3>2, <2>1, <2>4, <2>5
  <2>6. (n # 0 /\ ~ignored) => (Top.kw # 0 \/ strayed')
    BY <2>1, <2>2
  <2>7. /\ c <= Len(keywords')
        /\ \A k \in 1 .. c : keywords'[k] = keywords[k]
        /\ ignored => keywords' = keywords /\ added = 0
        /\ ~ignored => /\ added = c + 1
                       /\ DOMAIN keywords' = 1 .. c + 1
                       /\ keywords'[added].parent = Top.kw
                       /\ \/ keywords'[added].caller = Top.kw
                          \/ strayed' /\ Top.kw = 0
                       /\ ~keywords'[added].finished
    <3>1. CASE ignored
      BY <3>1, <1>2, <1>3 DEF Adds
    <3>2. CASE ~ignored
      <4> DEFINE e == [parent |-> Top.kw, finished |-> FALSE, caller |-> K!Caller]
      <4>0. Top.kw = K!Caller \/ (strayed' /\ Top.kw = 0)
        <5>1. CASE keyword_stack = << >> \/ Top.kw # 0
          BY <5>1, <2>1, TopIsCaller
        <5>2. CASE keyword_stack # << >> /\ Top.kw = 0
          BY <3>2, <5>2, <1>2 DEF Adds
        <5> QED BY <5>1, <5>2
      <4>1. /\ e.parent = Top.kw /\ ~e.finished
            /\ e.caller = Top.kw \/ (strayed' /\ Top.kw = 0)
            /\ keywords' = Append(keywords, e) /\ added = c + 1
        BY <3>2, <4>0, <1>2 DEF Adds
      <4> HIDE DEF e
      <4>2. /\ Len(keywords') = c + 1 /\ DOMAIN keywords' = 1 .. c + 1 /\ keywords'[c + 1] = e
            /\ \A k \in 1 .. c : keywords'[k] = keywords[k]
        BY <4>1, <1>3
      <4>3. c <= Len(keywords')
        BY <4>2, <1>3
      <4>4. keywords'[added] = e /\ DOMAIN keywords' = 1 .. c + 1
        BY <4>1, <4>2
      <4> HIDE DEF c
      <4> QED BY <3>2, <4>1, <4>2, <4>3, <4>4
    <3> QED BY <3>1, <3>2
  <2>8. TreeShape'
    <3>1. ASSUME NEW k \in 1 .. c PROVE (\A j \in DOMAIN frames' : frames'[j].keyword # k)
                                          <=> (\A j \in DOMAIN frames : frames[j].keyword # k)
      <4>1. added # k
        BY <1>3, <2>7
      <4> QED BY <4>1, <1>4, <1>5
    <3>2. ASSUME NEW k \in 1 .. c
          PROVE  /\ \/ keywords'[k].parent = keywords'[k].caller
                    \/ strayed' /\ keywords'[k].parent = 0
                 /\ keywords'[k].finished <=> \A j \in DOMAIN frames' : frames'[j].keyword # k
      <4>1. /\ keywords[k].parent = keywords[k].caller \/ (strayed /\ keywords[k].parent = 0)
            /\ keywords[k].finished <=> \A j \in DOMAIN frames : frames[j].keyword # k
        BY <1>3, <2>1 DEF TreeShape
      <4>2. keywords'[k] = keywords[k]
        BY <2>7
      <4> QED BY <3>1, <4>1, <4>2, <2>1
    <3>3. CASE ignored
      BY <3>2, <3>3, <1>3, <2>7 DEF TreeShape
    <3>4. CASE ~ignored
      <4>1. \A k \in DOMAIN keywords' : k \in 1 .. c \/ k = added
        BY <3>4, <1>3, <2>7
      <4>2. frames'[m].keyword = added /\ m \in DOMAIN frames'
        BY <1>4, <1>5
      <4> QED BY <3>2, <3>4, <4>1, <4>2, <2>7 DEF TreeShape
    <3> QED BY <3>3, <3>4
  <2>9. /\ Len(keyword_stack') = n + 1 /\ DOMAIN keyword_stack' = 1 .. n + 1
        /\ keyword_stack'[n + 1].kw = added /\ keyword_stack'[n + 1].valid
        /\ \A i \in 1 .. n : keyword_stack'[i].kw = keyword_stack[i].kw
    BY <1>2 DEF Adds
  <2>10. \A i \in DOMAIN keyword_stack' : i \in 1 .. n \/ i = n + 1
    BY <2>9, <1>3
  <2>11. ASSUME NEW i \in 1 .. n, ~strayed' PROVE keyword_stack'[i].valid
    <3>1. /\ keyword_stack[i].valid
          /\ keyword_stack[i].kw # 0 =>
               keywords[keyword_stack[i].kw].parent = IF i = 1 THEN 0 ELSE keyword_stack[i - 1].kw
          /\ (keyword_stack[i].kw # 0 /\ i > 1) => keyword_stack[i - 1].kw # 0
      BY <1>3, <2>1, <2>11 DEF StackExact
    <3>2. CASE keyword_stack[i].kw = 0 \/ ignored
      BY <3>1, <3>2, <1>2 DEF Adds
    <3>3. CASE keyword_stack[i].kw # 0 /\ ~ignored
      <4>1. Top.kw # 0 /\ Top = keyword_stack[n] /\ n \in 1 .. n
        BY <3>3, <1>3, <2>3, <2>6, <2>11
      <4>2. ASSUME i > 1 PROVE keyword_stack[i - 1].kw < keyword_stack[n].kw
        <5>1. i - 1 \in 1 .. n /\ i - 1 < n
          BY <4>2, <1>3
        <5> QED BY <5>1, <4>1, <1>3, <2>1 DEF StackShape
      <4>3. keywords[keyword_stack[i].kw].parent # Top.kw
        <5>1. CASE i = 1
          BY <5>1, <3>1, <3>3, <4>1
        <5>2. CASE i > 1
          <6>1. i - 1 \in 1 .. n
            BY <5>2, <1>3
          <6>2. keyword_stack[i - 1].kw \in Nat /\ keyword_stack[n].kw \in Nat
            BY <6>1, <4>1, <1>3
          <6> QED BY <5>2, <6>2, <3>1, <3>3, <4>1, <4>2
        <5> QED BY <5>1, <5>2, <1>3
      <4> QED BY <3>1, <4>3, <1>2 DEF Adds
    <3> QED BY <3>2, <3>3
  <2>12. Len(keyword_stack') = Cardinality(K!NamedFrames)'
    BY <1>5, <2>1, <2>9
  <2>13. ASSUME NEW j \in K!NamedFrames'
         PROVE  keyword_stack'[K!Depth(j)'].kw = frames'[j].keyword
    <3>1. CASE j = m
      BY <3>1, <1>4, <1>5, <2>1, <2>9
    <3>2. CASE j \in K!NamedFrames
      <4>1. K!Depth(j)' = K!Depth(j) /\ K!Depth(j) \in 1 .. n /\ j \in DOMAIN frames
        BY <3>2, <1>3, <1>5, <2>1, DepthProperties DEF K!NamedFrames
      <4> QED BY <3>2, <4>1, <1>5, <2>1, <2>9 DEF StackShape
    <3> QED BY <3>1, <3>2, <1>5
  <2>14. ASSUME NEW i \in 1 .. n PROVE \E j \in K!NamedFrames' : K!Depth(j)' = i
    <3>1. PICK j \in K!NamedFrames : K!Depth(j) = i
      BY <1>3, <2>1 DEF StackShape
    <3> QED BY <3>1, <1>5
  <2>15. \E j \in K!NamedFrames' : K!Depth(j)' = n + 1
    BY <1>5, <2>1
  <2>16. ASSUME NEW i \in 1 .. n, NEW h \in DOMAIN keyword_stack', h < i,
                keyword_stack'[i].kw # 0
         PROVE  keyword_stack'[h].kw < keyword_stack'[i].kw
    <3>1. h \in 1 .. n
      BY <2>16, <1>3, <2>9, <2>10
    <3>2. keyword_stack[i].kw # 0 => keyword_stack[h].kw < keyword_stack[i].kw
      BY <3>1, <2>16, <1>3, <2>1 DEF StackShape
    <3> QED BY <3>1, <3>2, <2>9, <2>16
  <2>17. ASSUME NEW h \in DOMAIN keyword_stack', h < n + 1, added # 0
         PROVE  keyword_stack'[h].kw < added
    <3>1. added = c + 1
      BY <2>7, <2>17
    <3>2. h \in 1 .. n
      BY <2>17, <1>3, <2>9, <2>10
    <3>3. keyword_stack'[h].kw \in 0 .. c
      BY <3>2, <1>3, <2>9
    <3> QED BY <3>1, <3>3, <1>3
  <2>18. \A i \in DOMAIN keyword_stack' :
           /\ \E j \in K!NamedFrames' : K!Depth(j)' = i
           /\ \A h \in DOMAIN keyword_stack' :
                (h < i /\ keyword_stack'[i].kw # 0) =>
                   keyword_stack'[h].kw < keyword_stack'[i].kw
    BY <2>9, <2>10, <2>14, <2>15, <2>16, <2>17
  <2>19. StackShape'
    BY <2>12, <2>13, <2>18 DEF StackShape
  <2>20. ASSUME ~strayed', NEW i \in 1 .. n
         PROVE  /\ keyword_stack'[i].kw # 0 =>
                     keywords'[keyword_stack'[i].kw].parent =
                        IF i = 1 THEN 0 ELSE keyword_stack'[i - 1].kw
                /\ (keyword_stack'[i].kw # 0 /\ i > 1) => keyword_stack'[i - 1].kw # 0
    <3>1. /\ keyword_stack[i].kw # 0 =>
               keywords[keyword_stack[i].kw].parent =
                  IF i = 1 THEN 0 ELSE keyword_stack[i - 1].kw
          /\ (keyword_stack[i].kw # 0 /\ i > 1) => keyword_stack[i - 1].kw # 0
      BY <1>3, <2>1, <2>20 DEF StackExact
    <3>2. i # 1 => i - 1 \in 1 .. n /\ keyword_stack'[i - 1].kw = keyword_stack[i - 1].kw
      <4>1. i # 1 => i - 1 \in 1 .. n
        BY <1>3
      <4> QED BY <4>1, <2>9
    <3>3. keyword_stack[i].kw # 0 =>
             keywords'[keyword_stack[i].kw] = keywords[keyword_stack[i].kw]
      <4>1. keyword_stack[i].kw \in 0 .. c
        BY <1>3
      <4> QED BY <4>1, <2>7
    <3>4. keyword_stack'[i].kw = keyword_stack[i].kw
      BY <2>9
    <3> QED BY <3>1, <3>2, <3>3, <3>4, <1>3
  <2>21. ASSUME ~strayed'
         PROVE  /\ added # 0 =>
                     keywords'[added].parent = IF n + 1 = 1 THEN 0 ELSE keyword_stack'[n].kw
                /\ (added # 0 /\ n + 1 > 1) => keyword_stack'[n].kw # 0
    <3>1. CASE ignored
      BY <3>1, <2>7
    <3>2. CASE ~ignored
      <4>1. added = c + 1 /\ keywords'[added].parent = Top.kw
        BY <3>2, <2>7
      <4>2. n # 0 => keyword_stack'[n].kw = Top.kw /\ Top.kw # 0
        BY <3>2, <2>3, <2>6, <2>9, <2>21
      <4> QED BY <4>1, <4>2, <1>3, <2>4
    <3> QED BY <3>1, <3>2
  <2>22. ASSUME ~strayed' PROVE StackExact'
    <3>1. \A i \in 1 .. n :
            /\ keyword_stack'[i].valid
            /\ keyword_stack'[i].kw # 0 =>
                 keywords'[keyword_stack'[i].kw].parent =
                    IF i = 1 THEN 0 ELSE keyword_stack'[i - 1].kw
            /\ (keyword_stack'[i].kw # 0 /\ i > 1) => keyword_stack'[i - 1].kw # 0
      BY <2>11, <2>20, <2>22
    <3>2. (n + 1) - 1 = n
      BY <1>3
    <3> QED BY <3>1, <3>2, <2>9, <2>10, <2>21, <2>22 DEF StackExact
  <2> QED BY <2>5, <2>8, <2>19, <2>22
<1>8. test_running'
  BY <1>2 DEF Adds
<1> QED BY <1>1, <1>6, <1>7, <1>8 DEF KeywordInv

-----------------------------------------------------------------------------
(* Returns, tail calls and errors.                                         *)

\* The frames that the hooks do not see are without a keyword, and leave the
\* stack and the tree alone.
LEMMA HiddenKeepsInv ==
  ASSUME KeywordInv, K!CallHidden
  PROVE  KeywordInv'
<1> DEFINE f == [kind |-> "hidden", tail |-> FALSE, keyword |-> 0]
<1>1. /\ test_running /\ frames' = Append(frames, f)
      /\ UNCHANGED <<test_running, keyword_stack, keywords, dangling, kw_tests, lost, strayed>>
  BY DEF K!CallHidden, K!MayCall, K!Entered, K!history
<1>2. f \in K!Frame /\ ~K!Named(f) /\ f.keyword = 0
  BY DEF K!Frame, K!Kind, K!Named
<1> HIDE DEF f
<1>3. frames \in Seq(K!Frame)
  BY DEF KeywordInv, K!TypeOK
<1>4. /\ frames' \in Seq(K!Frame) /\ Len(frames) \in Nat
      /\ DOMAIN frames = 1 .. Len(frames) /\ DOMAIN frames' = 1 .. Len(frames) + 1
      /\ \A j \in 1 .. Len(frames) : frames'[j] = frames[j]
      /\ frames'[Len(frames) + 1] = f
  BY <1>1, <1>2, <1>3
<1>5. \A j \in DOMAIN frames' : j \in DOMAIN frames \/ j = Len(frames) + 1
  BY <1>4
<1>6. DOMAIN frames \subseteq DOMAIN frames'
  BY <1>4
<1>7. K!NamedFrames' = K!NamedFrames
  BY <1>2, <1>4, <1>5, <1>6 DEF K!NamedFrames, K!Named
<1>8. \A j \in K!NamedFrames : frames'[j] = frames[j]
  BY <1>4 DEF K!NamedFrames
<1>9. K!TypeOK'
  BY <1>1, <1>4 DEF KeywordInv, K!TypeOK
<1>10. \A j \in DOMAIN frames' : j \notin K!NamedFrames' => frames'[j].keyword = 0
  BY <1>2, <1>4, <1>5, <1>7 DEF KeywordInv
<1> QED BY <1>1, <1>7, <1>8, <1>9, <1>10, UnnamedKeepExact

LEMMA TailCallKeepsInv ==
  ASSUME KeywordInv, NEW kind \in {"project", "lib"}, K!TailCall(kind)
  PROVE  KeywordInv'
<1> DEFINE f == [kind |-> kind, tail |-> TRUE, keyword |-> 0]
           m == Len(frames)
<1>1. /\ test_running /\ frames # << >> /\ frames' = [frames EXCEPT ![m] = f]
      /\ lost' = (lost \/ K!Named(frames[m]))
      /\ UNCHANGED <<test_running, keyword_stack, keywords, dangling, kw_tests, strayed>>
  BY DEF K!TailCall, K!Last
<1>2. f \in K!Frame /\ ~K!Named(f) /\ f.keyword = 0
  BY DEF K!Frame, K!Kind, K!Named
<1> HIDE DEF f
<1>3. frames \in Seq(K!Frame) /\ lost \in BOOLEAN
  BY DEF KeywordInv, K!TypeOK
<1>4. /\ frames' \in Seq(K!Frame) /\ m \in DOMAIN frames
      /\ DOMAIN frames' = DOMAIN frames
      /\ \A j \in DOMAIN frames : j # m => frames'[j] = frames[j]
      /\ frames'[m] = f
  BY <1>1, <1>2, <1>3
<1> HIDE DEF m
<1>5. ASSUME ~lost' PROVE /\ K!NamedFrames' = K!NamedFrames
                          /\ \A j \in K!NamedFrames : frames'[j] = frames[j]
  <2>1. m \notin K!NamedFrames
    BY <1>1, <1>5 DEF K!NamedFrames
  <2> QED BY <2>1, <1>2, <1>4 DEF K!NamedFrames, K!Named
<1>6. \A j \in DOMAIN frames' : j \notin K!NamedFrames' => frames'[j].keyword = 0
  BY <1>2, <1>4 DEF KeywordInv, K!NamedFrames, K!Named
<1>7. K!TypeOK'
  <2>1. lost' \in BOOLEAN
    BY <1>1, <1>3
  <2> QED BY <2>1, <1>1, <1>4 DEF KeywordInv, K!TypeOK
<1> QED BY <1>1, <1>3, <1>5, <1>6, <1>7, UnnamedKeepExact

LEMMA RaiseKeepsInv ==
  ASSUME KeywordInv, NEW left \in Nat, K!Raise(left)
  PROVE  KeywordInv'
<1>1. /\ test_running /\ left < Len(frames) /\ frames' = SubSeq(frames, 1, left)
      /\ lost' = (lost \/ \E i \in left + 1 .. Len(frames) : K!Named(frames[i]))
      /\ UNCHANGED <<test_running, keyword_stack, keywords, dangling, kw_tests, strayed>>
  BY DEF K!Raise
<1>2. frames \in Seq(K!Frame) /\ lost \in BOOLEAN /\ Len(frames) \in Nat
      /\ DOMAIN frames = 1 .. Len(frames)
  BY DEF KeywordInv, K!TypeOK
<1>3. /\ frames' \in Seq(K!Frame) /\ DOMAIN frames' = 1 .. left
      /\ \A j \in 1 .. left : j \in DOMAIN frames /\ frames'[j] = frames[j]
  <2>1. \A j \in 1 .. left : j \in 1 .. Len(frames)
    BY <1>1, <1>2
  <2>2. SubSeq(frames, 1, left) = [j \in 1 .. left |-> frames[j]]
    BY <1>1, <1>2
  <2>3. \A j \in 1 .. left : frames[j] \in K!Frame
    BY <1>2, <2>1
  <2> QED BY <1>1, <1>2, <2>1, <2>2, <2>3
<1>4. ASSUME ~lost' PROVE /\ K!NamedFrames' = K!NamedFrames
                          /\ \A j \in K!NamedFrames : frames'[j] = frames[j]
  <2>1. ASSUME NEW i \in DOMAIN frames, i \notin 1 .. left PROVE ~K!Named(frames[i])
    <3>1. i \in left + 1 .. Len(frames)
      BY <1>2, <2>1
    <3> QED BY <1>1, <1>4, <3>1
  <2> QED BY <2>1, <1>3 DEF K!NamedFrames, K!Named
<1>5. \A j \in DOMAIN frames' : j \notin K!NamedFrames' => frames'[j].keyword = 0
  BY <1>3 DEF KeywordInv, K!NamedFrames, K!Named
<1>6. K!TypeOK'
  <2>1. lost' \in BOOLEAN
    BY <1>1, <1>2
  <2> QED BY <2>1, <1>1, <1>3 DEF KeywordInv, K!TypeOK
<1> QED BY <1>1, <1>2, <1>4, <1>5, <1>6, UnnamedKeepExact

\* The return of a named function takes its keyword off the stack.
LEMMA FrameRemoved ==
  ASSUME frames \in Seq(K!Frame), NEW m \in Nat, m = Len(frames), m # 0,
         K!Named(frames[m]), frames' = SubSeq(frames, 1, m - 1)
  PROVE  LET n == Cardinality(K!NamedFrames)
         IN  /\ m \in K!NamedFrames /\ K!NamedFrames' = K!NamedFrames \ {m}
             /\ DOMAIN frames' = DOMAIN frames \ {m} /\ frames' \in Seq(K!Frame)
             /\ \A j \in DOMAIN frames' : frames'[j] = frames[j]
             /\ n > 0 /\ Cardinality(K!NamedFrames)' = n - 1
             /\ K!Depth(m) = n
             /\ \A j \in K!NamedFrames' : K!Depth(j)' = K!Depth(j)
<1> DEFINE n == Cardinality(K!NamedFrames)
<1>1. DOMAIN frames = 1 .. m /\ m - 1 \in Nat /\ m \in DOMAIN frames
  OBVIOUS
<1>2. \A j \in 1 .. m - 1 : j \in 1 .. m /\ frames[j] \in K!Frame
  OBVIOUS
<1>3. frames' = [j \in 1 .. m - 1 |-> frames[j]]
  BY <1>1
<1>4. /\ frames' \in Seq(K!Frame) /\ DOMAIN frames' = 1 .. m - 1
      /\ \A j \in 1 .. m - 1 : frames'[j] = frames[j]
  BY <1>1, <1>2, <1>3
<1>5. DOMAIN frames' = DOMAIN frames \ {m}
  BY <1>1, <1>4
<1>6. m \in K!NamedFrames
  BY <1>1 DEF K!NamedFrames
<1>7. K!NamedFrames' = K!NamedFrames \ {m}
  BY <1>4, <1>5 DEF K!NamedFrames, K!Named
<1>8. K!NamedFrames \subseteq 1 .. m /\ IsFiniteSet(K!NamedFrames) /\ n \in Nat
  BY DepthProperties
<1>9. n # 0
  BY <1>6, <1>8, FS_EmptySet
<1>10. Cardinality(K!NamedFrames)' = n - 1
  BY <1>6, <1>7, <1>8, FS_RemoveElement
<1>11. K!Depth(m) = n
  <2>1. \A k \in K!NamedFrames : k <= m
    BY <1>8
  <2>2. {k \in K!NamedFrames : k <= m} = K!NamedFrames
    BY <2>1
  <2> QED BY <2>2, SameCardinality DEF K!Depth
<1>12. ASSUME NEW j \in K!NamedFrames' PROVE K!Depth(j)' = K!Depth(j)
  <2>1. j \in 1 .. m - 1
    BY <1>1, <1>7, <1>8
  <2>2. ~(m <= j)
    BY <2>1
  <2>3. {k \in K!NamedFrames' : k <= j} = {k \in K!NamedFrames : k <= j}
    BY <1>7, <2>2
  <2> QED BY <2>3 DEF K!Depth
<1> QED BY <1>4, <1>5, <1>6, <1>7, <1>8, <1>9, <1>10, <1>11, <1>12

LEMMA HiddenReturnKeepsInv ==
  ASSUME KeywordInv, K!Return, ~K!Named(K!Last(frames))
  PROVE  KeywordInv'
<1> DEFINE m == Len(frames)
<1>1. /\ test_running /\ frames # << >> /\ frames' = SubSeq(frames, 1, m - 1)
      /\ ~K!Named(frames[m])
      /\ UNCHANGED <<test_running, keyword_stack, keywords, dangling, kw_tests, lost, strayed>>
  BY DEF K!Return, K!Last, K!Front, K!history
<1>2. /\ frames \in Seq(K!Frame) /\ m \in Nat /\ m # 0 /\ DOMAIN frames = 1 .. m
      /\ m - 1 \in Nat
  BY <1>1 DEF KeywordInv, K!TypeOK
<1>3. \A j \in 1 .. m - 1 : j \in 1 .. m /\ frames[j] \in K!Frame
  BY <1>2
<1>4. frames' = [j \in 1 .. m - 1 |-> frames[j]]
  BY <1>1, <1>2
<1> HIDE DEF m
<1>5. /\ frames' \in Seq(K!Frame) /\ DOMAIN frames' = 1 .. m - 1
      /\ \A j \in 1 .. m - 1 : frames'[j] = frames[j]
  BY <1>2, <1>3, <1>4
<1>6. DOMAIN frames' = DOMAIN frames \ {m}
  BY <1>2, <1>5
<1>7. K!NamedFrames' = K!NamedFrames
  BY <1>1, <1>5, <1>6 DEF K!NamedFrames, K!Named
<1>8. \A j \in K!NamedFrames : frames'[j] = frames[j]
  BY <1>1, <1>5, <1>6 DEF K!NamedFrames
<1>9. K!TypeOK'
  BY <1>1, <1>5 DEF KeywordInv, K!TypeOK
<1>10. \A j \in DOMAIN frames' : j \notin K!NamedFrames' => frames'[j].keyword = 0
  BY <1>5, <1>6, <1>7 DEF KeywordInv
<1> QED BY <1>1, <1>7, <1>8, <1>9, <1>10, UnnamedKeepExact

\* What ret_hook does with the top of a stack that is not empty.
Taken ==
  LET n == Len(keyword_stack)
      kw == keyword_stack[n].kw
  IN  /\ keyword_stack' = SubSeq(keyword_stack, 1, n - 1)
      /\ keywords' = IF kw = 0 THEN keywords ELSE [keywords EXCEPT ![kw].finished = TRUE]
      /\ dangling' = (dangling \/ ~keyword_stack[n].valid)

LEMMA RetHookKeepsType ==
  ASSUME K!TypeOK, keyword_stack # << >>, Taken
  PROVE  /\ keyword_stack' \in Seq(K!Entry) /\ Len(keyword_stack') = Len(keyword_stack) - 1
         /\ DOMAIN keyword_stack' = 1 .. Len(keyword_stack) - 1
         /\ \A i \in 1 .. Len(keyword_stack) - 1 :
              i \in 1 .. Len(keyword_stack) /\ keyword_stack'[i] = keyword_stack[i]
         /\ keyword_stack[Len(keyword_stack)] \in K!Entry
         /\ Len(keyword_stack) \in DOMAIN keyword_stack
         /\ keywords' \in Seq(K!Keyword) /\ DOMAIN keywords' = DOMAIN keywords
         /\ Len(keywords') = Len(keywords)
         /\ \A k \in DOMAIN keywords :
              /\ keywords'[k].parent = keywords[k].parent
              /\ keywords'[k].caller = keywords[k].caller
              /\ k # keyword_stack[Len(keyword_stack)].kw => keywords'[k] = keywords[k]
              /\ k = keyword_stack[Len(keyword_stack)].kw => keywords'[k].finished
         /\ dangling' \in BOOLEAN
<1> DEFINE n == Len(keyword_stack)
           kw == keyword_stack[n].kw
<1>1. /\ keyword_stack \in Seq(K!Entry) /\ n \in Nat /\ n # 0 /\ DOMAIN keyword_stack = 1 .. n
      /\ keywords \in Seq(K!Keyword) /\ dangling \in BOOLEAN
      /\ DOMAIN keywords = 1 .. Len(keywords) /\ Len(keywords) \in Nat
  BY DEF K!TypeOK
<1>2. n \in 1 .. n /\ n - 1 \in Nat
  BY <1>1
<1>3. keyword_stack[n] \in K!Entry /\ kw \in 0 .. Len(keywords)
  BY <1>1, <1>2 DEF K!TypeOK
<1>4. \A i \in 1 .. n - 1 : i \in 1 .. n /\ keyword_stack[i] \in K!Entry
  BY <1>1
<1>5. keyword_stack' = [i \in 1 .. n - 1 |-> keyword_stack[i]]
  BY <1>1, <1>2 DEF Taken
<1>6. dangling' \in BOOLEAN
  BY <1>1, <1>3 DEF Taken, K!Entry
<1>7. /\ keywords' \in Seq(K!Keyword) /\ DOMAIN keywords' = DOMAIN keywords
      /\ Len(keywords') = Len(keywords)
      /\ \A k \in DOMAIN keywords :
           /\ keywords'[k].parent = keywords[k].parent
           /\ keywords'[k].caller = keywords[k].caller
           /\ k # kw => keywords'[k] = keywords[k]
           /\ k = kw => keywords'[k].finished
  <2>1. CASE kw = 0
    BY <2>1, <1>1 DEF Taken
  <2>2. CASE kw # 0
    <3> DEFINE e == [keywords[kw] EXCEPT !.finished = TRUE]
    <3>1. kw \in DOMAIN keywords /\ keywords[kw] \in K!Keyword
      BY <2>2, <1>1, <1>3
    <3>2. /\ e \in K!Keyword /\ e.parent = keywords[kw].parent
          /\ e.caller = keywords[kw].caller /\ e.finished
      BY <3>1 DEF K!Keyword
    <3>3. keywords' = [keywords EXCEPT ![kw] = e]
      BY <2>2 DEF Taken
    <3> HIDE DEF e, kw
    <3>4. /\ keywords' \in Seq(K!Keyword) /\ DOMAIN keywords' = DOMAIN keywords
          /\ Len(keywords') = Len(keywords)
          /\ keywords'[kw] = e /\ \A k \in DOMAIN keywords : k # kw => keywords'[k] = keywords[k]
      BY <3>1, <3>2, <3>3, <1>1
    <3> QED BY <3>1, <3>2, <3>4
  <2> QED BY <2>1, <2>2
<1>8. /\ keyword_stack' \in Seq(K!Entry) /\ DOMAIN keyword_stack' = 1 .. n - 1
      /\ Len(keyword_stack') = n - 1
      /\ \A i \in 1 .. n - 1 : keyword_stack'[i] = keyword_stack[i]
  BY <1>2, <1>4, <1>5
<1> QED BY <1>1, <1>2, <1>3, <1>4, <1>6, <1>7, <1>8

LEMMA NamedReturnKeepsInv ==
  ASSUME KeywordInv, K!Return, K!Named(K!Last(frames))
  PROVE  KeywordInv'
<1>1. PICK m \in Nat : m = Len(frames) /\ m # 0
  BY DEF KeywordInv, K!TypeOK, K!Return
<1>2. PICK n \in Nat : n = Len(keyword_stack)
  BY DEF KeywordInv, K!TypeOK
<1>3. /\ test_running /\ test_running' /\ lost' = lost /\ strayed' = strayed
      /\ frames' = SubSeq(frames, 1, m - 1) /\ K!Named(frames[m]) /\ K!RetHook
  BY <1>1 DEF K!Return, K!Last, K!Front, K!history
<1>4. /\ frames \in Seq(K!Frame) /\ keyword_stack \in Seq(K!Entry)
      /\ DOMAIN frames = 1 .. m /\ DOMAIN keyword_stack = 1 .. n
  BY <1>1, <1>2 DEF KeywordInv, K!TypeOK
<1>5. /\ m \in K!NamedFrames /\ K!NamedFrames' = K!NamedFrames \ {m}
      /\ DOMAIN frames' = DOMAIN frames \ {m} /\ frames' \in Seq(K!Frame)
      /\ \A j \in DOMAIN frames' : frames'[j] = frames[j]
      /\ Cardinality(K!NamedFrames) > 0
      /\ Cardinality(K!NamedFrames)' = Cardinality(K!NamedFrames) - 1
      /\ K!Depth(m) = Cardinality(K!NamedFrames)
      /\ \A j \in K!NamedFrames' : K!Depth(j)' = K!Depth(j)
  BY <1>1, <1>3, <1>4, FrameRemoved
<1>6. keyword_stack # << >> => Taken /\ n # 0
  BY <1>2, <1>3, <1>4 DEF K!RetHook, K!Last, K!Front, Taken
<1>7. K!TypeOK'
  <2>1. CASE keyword_stack = << >>
    BY <2>1, <1>3, <1>5 DEF K!RetHook, KeywordInv, K!TypeOK
  <2>2. CASE keyword_stack # << >>
    <3>1. /\ keyword_stack' \in Seq(K!Entry) /\ DOMAIN keyword_stack' = 1 .. n - 1
          /\ \A i \in 1 .. n - 1 : i \in DOMAIN keyword_stack /\ keyword_stack'[i] = keyword_stack[i]
          /\ keywords' \in Seq(K!Keyword) /\ DOMAIN keywords' = DOMAIN keywords
          /\ Len(keywords') = Len(keywords)
          /\ \A k \in DOMAIN keywords : keywords'[k].parent = keywords[k].parent
          /\ dangling' \in BOOLEAN
      BY <2>2, <1>2, <1>4, <1>6, RetHookKeepsType DEF KeywordInv
    <3> QED BY <3>1, <1>3, <1>5 DEF KeywordInv, K!TypeOK
  <2> QED BY <2>1, <2>2
<1>8. \A j \in DOMAIN frames' : j \notin K!NamedFrames' => frames'[j].keyword = 0
  BY <1>5 DEF KeywordInv
<1>9. ASSUME ~lost PROVE TreeShape' /\ StackShape' /\ (~strayed => ~dangling' /\ StackExact')
  <2>1. TreeShape /\ StackShape /\ (~strayed => ~dangling /\ StackExact)
    BY <1>3, <1>9 DEF KeywordInv
  <2>2. n = Cardinality(K!NamedFrames) /\ n # 0 /\ keyword_stack # << >>
    BY <2>1, <1>2, <1>5 DEF StackShape
  <2>3. PICK kw : kw = keyword_stack[n].kw
    OBVIOUS
  <2>4. /\ DOMAIN keyword_stack' = 1 .. n - 1 /\ Len(keyword_stack') = n - 1
        /\ \A i \in 1 .. n - 1 : i \in DOMAIN keyword_stack /\ keyword_stack'[i] = keyword_stack[i]
        /\ n \in DOMAIN keyword_stack /\ DOMAIN keywords' = DOMAIN keywords
        /\ \A k \in DOMAIN keywords :
             /\ keywords'[k].parent = keywords[k].parent
             /\ keywords'[k].caller = keywords[k].caller
             /\ k # kw => keywords'[k] = keywords[k]
             /\ k = kw => keywords'[k].finished
    BY <2>2, <2>3, <1>2, <1>4, <1>6, RetHookKeepsType DEF KeywordInv
  <2>5. frames[m].keyword = kw /\ (~strayed => keyword_stack[n].valid)
    BY <2>1, <2>2, <2>3, <2>4, <1>5 DEF StackShape, StackExact
  <2>6. ~strayed => ~dangling'
    BY <2>1, <2>2, <2>5, <1>2, <1>6 DEF Taken
  <2>7. \A k \in DOMAIN keywords : k # 0
    BY DEF KeywordInv, K!TypeOK
  <2>8. ASSUME NEW j \in DOMAIN frames', kw # 0 PROVE frames'[j].keyword # kw
    <3>1. CASE j \notin K!NamedFrames
      BY <3>1, <2>8, <1>5 DEF KeywordInv
    <3>2. CASE j \in K!NamedFrames
      <4>1. j \in 1 .. m /\ j # m /\ j < m
        BY <1>1, <1>4, <1>5
      <4>2. K!Depth(j) < n /\ K!Depth(j) \in 1 .. n
        BY <4>1, <3>2, <2>2, <1>4, <1>5, DepthProperties
      <4>3. keyword_stack[K!Depth(j)].kw < kw /\ keyword_stack[K!Depth(j)].kw = frames[j].keyword
        BY <4>2, <3>2, <2>1, <2>3, <2>4, <2>8, <1>4 DEF StackShape
      <4>4. /\ K!Depth(j) \in DOMAIN keyword_stack
            /\ \A i \in DOMAIN keyword_stack : keyword_stack[i].kw \in Nat
        <5>1. \A i \in DOMAIN keyword_stack : keyword_stack[i].kw \in 0 .. Len(keywords)
          BY DEF KeywordInv, K!TypeOK
        <5>2. Len(keywords) \in Nat
          BY DEF KeywordInv, K!TypeOK
        <5> QED BY <4>2, <5>1, <5>2, <1>4
      <4>5. keyword_stack[K!Depth(j)].kw \in Nat /\ kw \in Nat
        BY <4>4, <2>3, <2>4
      <4> QED BY <4>3, <4>5, <1>5
    <3> QED BY <3>1, <3>2
  <2>9. ASSUME NEW k \in DOMAIN keywords
        PROVE  /\ \/ keywords'[k].parent = keywords'[k].caller
                  \/ strayed /\ keywords'[k].parent = 0
               /\ keywords'[k].finished <=> \A j \in DOMAIN frames' : frames'[j].keyword # k
    <3>1. /\ keywords[k].parent = keywords[k].caller \/ (strayed /\ keywords[k].parent = 0)
          /\ keywords[k].finished <=> \A j \in DOMAIN frames : frames[j].keyword # k
      BY <2>1 DEF TreeShape
    <3>2. CASE k = kw
      BY <3>1, <3>2, <2>4, <2>7, <2>8
    <3>3. CASE k # kw
      BY <3>1, <3>3, <2>4, <2>5, <1>5
    <3> QED BY <3>2, <3>3
  <2>10. TreeShape'
    BY <1>3, <2>4, <2>9 DEF TreeShape
  <2>11. ASSUME NEW i \in DOMAIN keyword_stack'
         PROVE  /\ \E j \in K!NamedFrames' : K!Depth(j)' = i
                /\ \A h \in DOMAIN keyword_stack' :
                     (h < i /\ keyword_stack'[i].kw # 0) =>
                        keyword_stack'[h].kw < keyword_stack'[i].kw
    <3>1. i \in DOMAIN keyword_stack /\ keyword_stack'[i] = keyword_stack[i] /\ i # n
      BY <2>4
    <3>2. \A h \in DOMAIN keyword_stack :
            (h < i /\ keyword_stack[i].kw # 0) => keyword_stack[h].kw < keyword_stack[i].kw
      BY <3>1, <2>1 DEF StackShape
    <3>3. PICK j \in K!NamedFrames : K!Depth(j) = i
      BY <3>1, <2>1 DEF StackShape
    <3>4. j # m
      BY <3>1, <3>3, <2>2, <1>5
    <3>5. \E d \in K!NamedFrames' : K!Depth(d)' = i
      BY <3>3, <3>4, <1>5
    <3>6. \A h \in DOMAIN keyword_stack' :
            h \in DOMAIN keyword_stack /\ keyword_stack'[h] = keyword_stack[h]
      BY <2>4
    <3> QED BY <3>1, <3>2, <3>5, <3>6
  <2>15. ASSUME ~strayed, NEW i \in DOMAIN keyword_stack'
         PROVE  /\ keyword_stack'[i].valid
                /\ keyword_stack'[i].kw # 0 =>
                     keywords'[keyword_stack'[i].kw].parent =
                        IF i = 1 THEN 0 ELSE keyword_stack'[i - 1].kw
                /\ (keyword_stack'[i].kw # 0 /\ i > 1) => keyword_stack'[i - 1].kw # 0
    <3>1. i \in DOMAIN keyword_stack /\ keyword_stack'[i] = keyword_stack[i] /\ i \in Nat
      BY <2>4
    <3>2. /\ keyword_stack[i].valid
          /\ keyword_stack[i].kw # 0 =>
               keywords[keyword_stack[i].kw].parent = IF i = 1 THEN 0 ELSE keyword_stack[i - 1].kw
          /\ (keyword_stack[i].kw # 0 /\ i > 1) => keyword_stack[i - 1].kw # 0
      BY <3>1, <2>1, <2>15 DEF StackExact
    <3>3. i # 1 => keyword_stack'[i - 1] = keyword_stack[i - 1]
      BY <2>4
    <3>4. keyword_stack[i].kw # 0 =>
             keywords'[keyword_stack[i].kw].parent = keywords[keyword_stack[i].kw].parent
      <4>1. keyword_stack[i].kw \in 0 .. Len(keywords) /\ DOMAIN keywords = 1 .. Len(keywords)
            /\ Len(keywords) \in Nat
        BY <3>1 DEF KeywordInv, K!TypeOK
      <4> QED BY <4>1, <2>4
    <3> QED BY <3>1, <3>2, <3>3, <3>4
  <2>12. ASSUME NEW j \in K!NamedFrames'
         PROVE  keyword_stack'[K!Depth(j)'].kw = frames'[j].keyword
    <3>1. j \in K!NamedFrames /\ j # m /\ j \in DOMAIN frames'
      BY <1>4, <1>5 DEF K!NamedFrames
    <3>2. j < m
      BY <3>1, <1>1, <1>4, <1>5
    <3>3. K!Depth(j) < n /\ K!Depth(j) \in 1 .. n
      BY <3>1, <3>2, <2>2, <1>4, <1>5, DepthProperties
    <3>4. K!Depth(j) \in 1 .. n - 1
      BY <3>3
    <3>5. keyword_stack[K!Depth(j)].kw = frames[j].keyword
      BY <3>1, <2>1 DEF StackShape
    <3>6. frames'[j] = frames[j] /\ K!Depth(j)' = K!Depth(j)
      BY <3>1, <1>5
    <3> QED BY <3>4, <3>5, <3>6, <2>4
  <2>13. Len(keyword_stack') = Cardinality(K!NamedFrames)'
    BY <2>2, <2>4, <1>5
  <2>14. StackShape'
    BY <2>11, <2>12, <2>13 DEF StackShape
  <2>16. ~strayed => StackExact'
    BY <2>15 DEF StackExact
  <2> QED BY <2>6, <2>10, <2>14, <2>16
<1> QED BY <1>3, <1>7, <1>8, <1>9 DEF KeywordInv

-----------------------------------------------------------------------------
(* Every step, and the theorems.                                           *)

LEMMA EmptySequence == ASSUME NEW S PROVE << >> \in Seq(S) /\ DOMAIN << >> = {} /\ Len(<< >>) = 0
  OBVIOUS

LEMMA KeywordInit == K!Init => KeywordInv
<1> SUFFICES ASSUME K!Init PROVE KeywordInv
  OBVIOUS
<1> USE DEF K!Init
<1>1. /\ frames \in Seq(K!Frame) /\ keyword_stack \in Seq(K!Entry) /\ keywords \in Seq(K!Keyword)
      /\ DOMAIN frames = {} /\ DOMAIN keyword_stack = {} /\ DOMAIN keywords = {}
  BY EmptySequence
<1>2. K!TypeOK
  BY <1>1 DEF K!TypeOK
<1> QED BY <1>1, <1>2 DEF KeywordInv, TreeShape

\* A test starts with an empty stack and an empty tree.
LEMMA TestStartedKeepsInv ==
  ASSUME KeywordInv, K!TestStarted
  PROVE  KeywordInv'
<1>1. frames' = << >> /\ keyword_stack' = << >> /\ keywords' = << >> /\ ~dangling'
  BY DEF KeywordInv, K!TestStarted
<1>2. /\ frames' \in Seq(K!Frame) /\ keyword_stack' \in Seq(K!Entry)
      /\ keywords' \in Seq(K!Keyword)
      /\ DOMAIN frames' = {} /\ DOMAIN keyword_stack' = {} /\ DOMAIN keywords' = {}
      /\ Len(keyword_stack') = 0
  BY <1>1, EmptySequence
<1>3. K!TypeOK'
  BY <1>2 DEF K!TestStarted, K!TypeOK
<1>4. K!NamedFrames' = {}
  BY <1>2 DEF K!NamedFrames
<1>5. Cardinality(K!NamedFrames)' = 0
  BY <1>4, FS_EmptySet
<1>6. StackShape' /\ StackExact'
  BY <1>2, <1>4, <1>5 DEF StackShape, StackExact
<1>7. TreeShape'
  BY <1>2 DEF TreeShape
<1> QED BY <1>1, <1>2, <1>3, <1>6, <1>7 DEF KeywordInv

LEMMA TestFinishedKeepsInv ==
  ASSUME KeywordInv, K!TestFinished
  PROVE  KeywordInv'
<1> USE DEF K!TestFinished, K!history
<1>1. K!TypeOK'
  BY DEF KeywordInv, K!TypeOK
<1>2. TreeShape' <=> TreeShape
  BY DEF TreeShape
<1>3. frames' = << >> /\ DOMAIN frames' = {}
  OBVIOUS
<1> QED BY <1>1, <1>2, <1>3 DEF KeywordInv

LEMMA KeywordStep == KeywordInv /\ [K!Next]_K!vars => KeywordInv'
<1> SUFFICES ASSUME KeywordInv, [K!Next]_K!vars PROVE KeywordInv'
  OBVIOUS
<1>1. ASSUME UNCHANGED K!vars PROVE KeywordInv'
  <2>1. UNCHANGED <<test_running, frames, keyword_stack, keywords, dangling, lost, strayed>>
    BY <1>1 DEF K!vars
  <2>2. K!TypeOK' /\ K!NamedFrames' = K!NamedFrames
    BY <2>1 DEF KeywordInv, K!TypeOK, K!NamedFrames
  <2>3. \A j : K!Depth(j)' = K!Depth(j)
    BY <2>2 DEF K!Depth
  <2>4. (StackShape' <=> StackShape) /\ (StackExact' <=> StackExact) /\ (TreeShape' <=> TreeShape)
    BY <2>1, <2>2, <2>3 DEF StackShape, StackExact, TreeShape
  <2> QED BY <2>1, <2>2, <2>4 DEF KeywordInv
<1>2. ASSUME NEW kind \in {"project", "lib"}, K!Call(kind) PROVE KeywordInv'
  BY <1>2, CallKeepsInv
<1>3. ASSUME NEW kind \in {"project", "lib"}, K!TailCall(kind) PROVE KeywordInv'
  BY <1>3, TailCallKeepsInv
<1>4. CASE K!Return
  BY <1>4, HiddenReturnKeepsInv, NamedReturnKeepsInv
<1>5. ASSUME NEW left \in 0 .. MaxDepth, K!Raise(left) PROVE KeywordInv'
  BY <1>5, RaiseKeepsInv
<1>6. CASE K!Terminated
  BY <1>1, <1>6 DEF K!Terminated
<1> QED BY <1>1, <1>2, <1>3, <1>4, <1>5, <1>6, HiddenKeepsInv, TestStartedKeepsInv,
           TestFinishedKeepsInv DEF K!Next

LEMMA KeywordInvariant == K!Spec => []KeywordInv
BY KeywordInit, KeywordStep, PTL DEF K!Spec

\* keyword_status.c keeps stack entries and parents inside the tree of the
\* running test, whatever returns, tail calls and errors it misses.
THEOREM KeywordsTypeCorrect == K!Spec => []K!TypeOK
<1>1. KeywordInv => K!TypeOK
  BY DEF KeywordInv
<1> QED BY <1>1, KeywordInvariant, PTL

\* In a test whose calls all returned as such the stack of call_hook and
\* ret_hook is the stack of the named functions, and unless the library called
\* back into the project from an ignored function, no pointer is into a moved
\* array; the tree is that of the calls and the unfinished keywords are those
\* that run, but for the keywords of such calls back, which are at the top.
THEOREM TreeStaysExact == K!Spec => []CleanTreeExact
<1>1. KeywordInv => CleanTreeExact
  BY SameCardinality DEF CleanTreeExact, KeywordInv, StackShape, StackExact, TreeShape,
                         K!CleanTreeExact
<1> QED BY <1>1, KeywordInvariant, PTL

-----------------------------------------------------------------------------
(* The record of a run, and its views: the raw log and what logs info      *)
(* loads of it again, and the context of a hook.                           *)

\* A member that there is has its value in the object, and one that is null is left out.
LEMMA MemberSet ==
  ASSUME NEW m, NEW k, k \in DOMAIN m, m[k] # R!Null
  PROVE  k \in DOMAIN R!Object(m) /\ R!Object(m)[k] = m[k][1]
BY DEF R!Object

LEMMA MemberLeftOut ==
  ASSUME NEW m, NEW k, m[k] = R!Null PROVE k \notin DOMAIN R!Object(m)
BY DEF R!Object

\* A pointer comes back as it was put into an object,
LEMMA StrBack ==
  ASSUME NEW m, NEW k, k \in DOMAIN m, R!IsPointer(m[k])
  PROVE  R!Str(R!Object(m), k) = m[k]
<1>1. CASE m[k] = R!Null  BY <1>1, MemberLeftOut DEF R!Str
<1>2. CASE m[k] # R!Null
  <2>1. m[k] = <<m[k][1]>>  BY <1>2 DEF R!IsPointer
  <2>2. R!Str(R!Object(m), k) = <<R!Object(m)[k]>>  BY <1>2, MemberSet DEF R!Str
  <2> QED  BY <2>1, <2>2, <1>2, MemberSet
<1> QED  BY <1>1, <1>2

\* and so does a value that is always there.
LEMMA ValueBack ==
  ASSUME NEW m, NEW k, NEW v, k \in DOMAIN m, m[k] = <<v>>
  PROVE  /\ k \in DOMAIN R!Object(m) /\ R!Object(m)[k] = v
         /\ R!Arr(R!Object(m), k) = v
<1>1. m[k] # R!Null /\ m[k][1] = v  BY DEF R!Null
<1>2. k \in DOMAIN R!Object(m) /\ R!Object(m)[k] = v  BY <1>1, MemberSet
<1> QED  BY <1>2 DEF R!Arr

LEMMA ArrayIs ==
  ASSUME NEW s, R!IsArray(s)
  PROVE  /\ Len(s) \in Nat /\ DOMAIN s = 1 .. Len(s) /\ s = [i \in DOMAIN s |-> s[i]]
<1> DEFINE S == {s[i] : i \in DOMAIN s}
<1>1. s \in Seq(S)  BY DEF R!IsArray
<1> HIDE DEF S
<1>2. Len(s) \in Nat /\ DOMAIN s = 1 .. Len(s)  BY <1>1
<1>3. s \in [1 .. Len(s) -> S]  BY <1>1
<1> QED  BY <1>2, <1>3

LEMMA LevelBack ==
  ASSUME NEW l \in 0 .. Len(R!Levels) - 1
  PROVE  R!LevelFromName(R!LevelName(l)) = l
<1> DEFINE i == CHOOSE i \in DOMAIN R!Levels : R!Levels[i] = R!Levels[l + 1]
<1>1. l \in 0 .. 5 /\ DOMAIN R!Levels = 1 .. 6  BY DEF R!Levels
<1>2. \A p, q \in 1 .. 6 : R!Levels[p] = R!Levels[q] => p = q  BY DEF R!Levels
<1>3. l + 1 \in DOMAIN R!Levels  BY <1>1
<1>4. i \in DOMAIN R!Levels /\ R!Levels[i] = R!Levels[l + 1]  BY <1>3
<1> HIDE DEF i
<1>5. i = l + 1  BY <1>1, <1>2, <1>3, <1>4
<1>6. R!LevelFromName(R!LevelName(l)) = i - 1  BY DEF R!LevelFromName, R!LevelName, i
<1> QED  BY <1>1, <1>5, <1>6

\* What is logged comes back, its message up to the first NUL,
LEMMA OutputBack ==
  ASSUME NEW o, R!IsOutput(o)
  PROVE  R!OutputFromJson(R!OutputToJson(o)) = [o EXCEPT !.beyond = 0]
<1> DEFINE m == [file |-> o.file, line |-> <<o.line>>, date_time |-> o.date_time,
                 level |-> <<R!LevelName(o.level)>>, msg |-> R!StringOfLen(o)]
           j == R!Object(m)
<1>1. /\ "file" \in DOMAIN m /\ m["file"] = o.file
      /\ "line" \in DOMAIN m /\ m["line"] = <<o.line>>
      /\ "date_time" \in DOMAIN m /\ m["date_time"] = o.date_time
      /\ "level" \in DOMAIN m /\ m["level"] = <<R!LevelName(o.level)>>
      /\ "msg" \in DOMAIN m /\ m["msg"] = R!StringOfLen(o)
  OBVIOUS
<1>2. R!IsPointer(o.file) /\ R!IsPointer(o.date_time) /\ R!IsPointer(o.msg)
  BY DEF R!IsOutput
<1>j. R!OutputToJson(o) = j  BY DEF R!OutputToJson
<1> HIDE DEF m
<1>3. R!Str(j, "file") = o.file  BY <1>1, <1>2, StrBack
<1>4. R!Str(j, "date_time") = o.date_time  BY <1>1, <1>2, StrBack
<1>5. R!MsgFromJson(j) = o.msg
  <2>1. CASE o.msg = R!Null
    <3>1. m["msg"] = R!Null  BY <1>1, <2>1 DEF R!StringOfLen
    <3>2. "msg" \notin DOMAIN j  BY <3>1, MemberLeftOut
    <3> QED  BY <2>1, <3>2 DEF R!MsgFromJson
  <2>2. CASE o.msg # R!Null
    <3>1. m["msg"] = <<[text |-> o.msg[1], tail |-> o.beyond]>>
      BY <1>1, <2>2 DEF R!StringOfLen
    <3>2. "msg" \in DOMAIN j /\ j["msg"] = [text |-> o.msg[1], tail |-> o.beyond]
      BY <1>1, <3>1, ValueBack
    <3>3. R!MsgFromJson(j) = <<o.msg[1]>>
      <4>1. j["msg"].text = o.msg[1]  BY <3>2
      <4> QED  BY <3>2, <4>1 DEF R!MsgFromJson
    <3>4. o.msg = <<o.msg[1]>>  BY <1>2, <2>2 DEF R!IsPointer
    <3> QED  BY <3>3, <3>4
  <2> QED  BY <2>1, <2>2
<1>6. j.line = o.line  BY <1>1, ValueBack
<1>7. j.level = R!LevelName(o.level)  BY <1>1, ValueBack
<1>8. R!LevelFromName(j.level) = o.level  BY <1>7, LevelBack DEF R!IsOutput
<1> HIDE DEF j
<1>9. R!OutputFromJson(j) = [file |-> o.file, line |-> o.line, date_time |-> o.date_time,
                             level |-> o.level, msg |-> o.msg, beyond |-> 0]
  BY <1>3, <1>4, <1>5, <1>6, <1>8 DEF R!OutputFromJson
<1>10. o = [file |-> o.file, line |-> o.line, date_time |-> o.date_time, level |-> o.level,
            msg |-> o.msg, beyond |-> o.beyond]
  BY DEF R!IsOutput
<1> QED  BY <1>9, <1>10, <1>j

LEMMA OutputsBack ==
  ASSUME NEW os, R!AreOutputs(os) PROVE R!OutputsFromJson(R!OutputsToJson(os)) = R!Cut(os)
<1>2. \A i \in DOMAIN os : R!OutputFromJson(R!OutputToJson(os[i])) = [os[i] EXCEPT !.beyond = 0]
  BY OutputBack DEF R!AreOutputs
<1> DEFINE js == R!OutputsToJson(os)
<1>3. DOMAIN js = DOMAIN os /\ \A i \in DOMAIN os : js[i] = R!OutputToJson(os[i])
  BY DEF R!OutputsToJson
<1> HIDE DEF js
<1>4. R!OutputsFromJson(js) = [i \in DOMAIN os |-> R!OutputFromJson(R!OutputToJson(os[i]))]
  BY <1>3 DEF R!OutputsFromJson
<1> QED  BY <1>2, <1>4 DEF js, R!Cut

\* and a keyword,
LEMMA KeywordBack ==
  ASSUME NEW k, R!IsKeyword(k) PROVE R!KeywordFromJson(R!KeywordToJson(k)) = k
<1> DEFINE m == [name |-> k.name, started |-> k.started, finished |-> k.finished,
                 file |-> k.file, line |-> <<k.line>>]
           j == R!Object(m)
<1>1. /\ "name" \in DOMAIN m /\ m["name"] = k.name
      /\ "started" \in DOMAIN m /\ m["started"] = k.started
      /\ "finished" \in DOMAIN m /\ m["finished"] = k.finished
      /\ "file" \in DOMAIN m /\ m["file"] = k.file
      /\ "line" \in DOMAIN m /\ m["line"] = <<k.line>>
  OBVIOUS
<1>2. /\ R!IsPointer(k.name) /\ R!IsPointer(k.started) /\ R!IsPointer(k.finished)
      /\ R!IsPointer(k.file)
  BY DEF R!IsKeyword
<1>j. R!KeywordToJson(k) = j  BY DEF R!KeywordToJson
<1> HIDE DEF m
<1>3. R!Str(j, "name") = k.name  BY <1>1, <1>2, StrBack
<1>4. R!Str(j, "started") = k.started  BY <1>1, <1>2, StrBack
<1>5. R!Str(j, "finished") = k.finished  BY <1>1, <1>2, StrBack
<1>6. R!Str(j, "file") = k.file  BY <1>1, <1>2, StrBack
<1>7. j.line = k.line  BY <1>1, ValueBack
<1> HIDE DEF j
<1>8. R!KeywordFromJson(j) = [name |-> k.name, started |-> k.started, finished |-> k.finished,
                              file |-> k.file, line |-> k.line]
  BY <1>3, <1>4, <1>5, <1>6, <1>7 DEF R!KeywordFromJson
<1>9. k = [name |-> k.name, started |-> k.started, finished |-> k.finished, file |-> k.file,
           line |-> k.line]
  BY DEF R!IsKeyword
<1> QED  BY <1>8, <1>9, <1>j

LEMMA KeywordsBack ==
  ASSUME NEW ks, R!AreKeywords(ks) PROVE R!KeywordsFromJson(R!KeywordsToJson(ks)) = ks
<1>1. ks = [n \in DOMAIN ks |-> ks[n]]  BY ArrayIs DEF R!AreKeywords
<1>2. \A n \in DOMAIN ks : R!KeywordFromJson(R!KeywordToJson(ks[n].keyword)) = ks[n].keyword
  BY KeywordBack DEF R!AreKeywords
<1>3. \A n \in DOMAIN ks : ks[n] = [level |-> ks[n].level, keyword |-> ks[n].keyword]
  BY DEF R!AreKeywords
<1> DEFINE js == R!KeywordsToJson(ks)
<1>4. /\ DOMAIN js = DOMAIN ks
      /\ \A n \in DOMAIN ks : /\ js[n].level = ks[n].level
                              /\ js[n].keyword = R!KeywordToJson(ks[n].keyword)
  BY DEF R!KeywordsToJson
<1> HIDE DEF js
<1>5. R!KeywordsFromJson(js) =
        [n \in DOMAIN ks |-> [level |-> ks[n].level, keyword |-> ks[n].keyword]]
  BY <1>2, <1>4 DEF R!KeywordsFromJson
<1>6. R!KeywordsFromJson(js) = [n \in DOMAIN ks |-> ks[n]]  BY <1>3, <1>5
<1> QED  BY <1>1, <1>6 DEF js

\* and a test, but for the end of its teardown.
LEMMA TestBack ==
  ASSUME NEW t, R!IsTest(t)
  PROVE  R!TestFromJson(R!TestToJson(t)) = R!Kept(t)
<1> DEFINE m ==
  [name |-> t.name, description |-> t.description, started |-> t.started,
   finished |-> t.finished, teardown_start |-> t.teardown_start,
   status |-> t.status_str, tags |-> <<t.tags>>,
   failure_reasons |-> <<R!OutputsToJson(t.failure_reasons)>>,
   output |-> <<R!OutputsToJson(t.outputs)>>,
   teardown_output |-> <<R!OutputsToJson(t.teardown_outputs)>>,
   teardown_errors |-> <<R!OutputsToJson(t.teardown_errors)>>,
   keywords |-> <<R!KeywordsToJson(t.keyword_statuses)>>]
           j == R!Object(m)
<1>1. /\ "name" \in DOMAIN m /\ m["name"] = t.name
      /\ "description" \in DOMAIN m /\ m["description"] = t.description
      /\ "started" \in DOMAIN m /\ m["started"] = t.started
      /\ "finished" \in DOMAIN m /\ m["finished"] = t.finished
      /\ "teardown_start" \in DOMAIN m /\ m["teardown_start"] = t.teardown_start
      /\ "status" \in DOMAIN m /\ m["status"] = t.status_str
  OBVIOUS
<1>2. /\ "tags" \in DOMAIN m /\ m["tags"] = <<t.tags>>
      /\ "failure_reasons" \in DOMAIN m
      /\ m["failure_reasons"] = <<R!OutputsToJson(t.failure_reasons)>>
      /\ "output" \in DOMAIN m /\ m["output"] = <<R!OutputsToJson(t.outputs)>>
      /\ "teardown_output" \in DOMAIN m
      /\ m["teardown_output"] = <<R!OutputsToJson(t.teardown_outputs)>>
      /\ "teardown_errors" \in DOMAIN m
      /\ m["teardown_errors"] = <<R!OutputsToJson(t.teardown_errors)>>
      /\ "keywords" \in DOMAIN m /\ m["keywords"] = <<R!KeywordsToJson(t.keyword_statuses)>>
  OBVIOUS
<1>3. /\ R!IsPointer(t.name) /\ R!IsPointer(t.description) /\ R!IsPointer(t.started)
      /\ R!IsPointer(t.finished) /\ R!IsPointer(t.teardown_start) /\ R!IsPointer(t.status_str)
      /\ R!AreOutputs(t.failure_reasons) /\ R!AreOutputs(t.outputs)
      /\ R!AreOutputs(t.teardown_outputs) /\ R!AreOutputs(t.teardown_errors)
      /\ R!AreKeywords(t.keyword_statuses)
  BY DEF R!IsTest
<1>j. R!TestToJson(t) = j  BY DEF R!TestToJson
<1> HIDE DEF m
<1>4. R!Str(j, "name") = t.name  BY <1>1, <1>3, StrBack
<1>5. R!Str(j, "description") = t.description  BY <1>1, <1>3, StrBack
<1>6. R!Str(j, "started") = t.started  BY <1>1, <1>3, StrBack
<1>7. R!Str(j, "finished") = t.finished  BY <1>1, <1>3, StrBack
<1>8. R!Str(j, "teardown_start") = t.teardown_start  BY <1>1, <1>3, StrBack
<1>9. R!Str(j, "status") = t.status_str  BY <1>1, <1>3, StrBack
<1>10. R!Arr(j, "tags") = t.tags  BY <1>2, ValueBack
<1>11. R!OutputsFromJson(R!Arr(j, "failure_reasons")) = R!Cut(t.failure_reasons)
  <2>1. R!Arr(j, "failure_reasons") = R!OutputsToJson(t.failure_reasons)  BY <1>2, ValueBack
  <2> QED  BY <2>1, <1>3, OutputsBack
<1>12. R!OutputsFromJson(R!Arr(j, "output")) = R!Cut(t.outputs)
  <2>1. R!Arr(j, "output") = R!OutputsToJson(t.outputs)  BY <1>2, ValueBack
  <2> QED  BY <2>1, <1>3, OutputsBack
<1>13. R!OutputsFromJson(R!Arr(j, "teardown_output")) = R!Cut(t.teardown_outputs)
  <2>1. R!Arr(j, "teardown_output") = R!OutputsToJson(t.teardown_outputs)  BY <1>2, ValueBack
  <2> QED  BY <2>1, <1>3, OutputsBack
<1>14. R!OutputsFromJson(R!Arr(j, "teardown_errors")) = R!Cut(t.teardown_errors)
  <2>1. R!Arr(j, "teardown_errors") = R!OutputsToJson(t.teardown_errors)  BY <1>2, ValueBack
  <2> QED  BY <2>1, <1>3, OutputsBack
<1>15. R!KeywordsFromJson(R!Arr(j, "keywords")) = t.keyword_statuses
  <2>1. R!Arr(j, "keywords") = R!KeywordsToJson(t.keyword_statuses)  BY <1>2, ValueBack
  <2> QED  BY <2>1, <1>3, KeywordsBack
<1> HIDE DEF j
<1> DEFINE back ==
  [name |-> t.name, description |-> t.description, started |-> t.started,
   finished |-> t.finished, teardown_start |-> t.teardown_start,
   teardown_end |-> R!Null, status_str |-> t.status_str, tags |-> t.tags,
   failure_reasons |-> R!Cut(t.failure_reasons), outputs |-> R!Cut(t.outputs),
   teardown_outputs |-> R!Cut(t.teardown_outputs),
   teardown_errors |-> R!Cut(t.teardown_errors), keyword_statuses |-> t.keyword_statuses]
<1>16. R!TestFromJson(j) = back
  BY <1>4, <1>5, <1>6, <1>7, <1>8, <1>9, <1>10, <1>11, <1>12, <1>13, <1>14, <1>15
  DEF R!TestFromJson, R!TestFrom
<1>17. R!Kept(t) = back
  <2>1. t = [name |-> t.name, description |-> t.description, started |-> t.started,
             finished |-> t.finished, teardown_start |-> t.teardown_start,
             teardown_end |-> t.teardown_end, status_str |-> t.status_str, tags |-> t.tags,
             failure_reasons |-> t.failure_reasons, outputs |-> t.outputs,
             teardown_outputs |-> t.teardown_outputs, teardown_errors |-> t.teardown_errors,
             keyword_statuses |-> t.keyword_statuses]
    BY DEF R!IsTest
  <2> DEFINE fields == {"name", "description", "started", "finished", "teardown_start",
                        "teardown_end", "status_str", "tags", "failure_reasons", "outputs",
                        "teardown_outputs", "teardown_errors", "keyword_statuses"}
  <2>2. DOMAIN t = fields  BY <2>1
  <2>3. DOMAIN R!Kept(t) = fields /\ R!Kept(t) = [f \in fields |-> R!Kept(t)[f]]
    BY <2>2 DEF R!Kept
  <2>4. \A f \in fields : R!Kept(t)[f] = back[f]  BY <2>2 DEF R!Kept
  <2>5. back = [f \in fields |-> back[f]]  OBVIOUS
  <2> HIDE DEF fields, back
  <2> QED  BY <2>3, <2>4, <2>5
<1> QED  BY <1>16, <1>17, <1>j

LEMMA VarsBack ==
  ASSUME NEW vs, R!IsArray(vs),
         \A i \in DOMAIN vs : vs[i] = [name |-> vs[i].name, final |-> <<vs[i].final[1]>>]
  PROVE  R!VarsFromJson(R!VarsToJson(vs)) = vs
<1>1. vs = [i \in DOMAIN vs |-> vs[i]]  BY ArrayIs
<1> DEFINE js == R!VarsToJson(vs)
<1>2. /\ DOMAIN js = DOMAIN vs
      /\ \A i \in DOMAIN vs : js[i][1] = vs[i].name /\ js[i][2] = vs[i].final[1]
  BY DEF R!VarsToJson
<1> HIDE DEF js
<1>3. R!VarsFromJson(js) = [i \in DOMAIN vs |-> [name |-> vs[i].name, final |-> <<vs[i].final[1]>>]]
  BY <1>2 DEF R!VarsFromJson
<1>4. R!VarsFromJson(js) = [i \in DOMAIN vs |-> vs[i]]  BY <1>3
<1> QED  BY <1>1, <1>4 DEF js

\* What logs info loads of a record.
Reloaded(r) ==
  [r EXCEPT !.tests = [i \in DOMAIN @ |-> R!Kept(@[i])],
            !.total_amount = Len(r.tests)]

LEMMA StateBack ==
  ASSUME NEW r, R!IsRecord(r) PROVE R!StateFromJson(R!StateToJson(r)) = Reloaded(r)
<1> DEFINE js == [i \in DOMAIN r.tests |-> R!TestToJson(r.tests[i])]
           m ==
  [project_name |-> r.project_name, ltf_version |-> r.ltf_version, os |-> r.os,
   os_version |-> r.os_version, started |-> r.started, finished |-> r.finished,
   target |-> r.target, variables |-> <<R!VarsToJson(r.vars)>>, tags |-> <<r.tags>>,
   tests |-> <<js>>,
   total_amount |-> <<r.total_amount>>, passed_amount |-> <<r.passed_amount>>,
   failed_amount |-> <<r.failed_amount>>, finished_amount |-> <<r.finished_amount>>]
           j == R!Object(m)
<1>j. R!StateToJson(r) = j  BY DEF R!StateToJson
<1>t. /\ DOMAIN js = DOMAIN r.tests
      /\ \A i \in DOMAIN r.tests : js[i] = R!TestToJson(r.tests[i])
  OBVIOUS
<1>l. Len(js) = Len(r.tests)
  <2>1. Len(r.tests) \in Nat /\ DOMAIN r.tests = 1 .. Len(r.tests)  BY ArrayIs DEF R!IsRecord
  <2> QED  BY <2>1
<1> HIDE DEF js
<1>1. /\ "project_name" \in DOMAIN m /\ m["project_name"] = r.project_name
      /\ "ltf_version" \in DOMAIN m /\ m["ltf_version"] = r.ltf_version
      /\ "os" \in DOMAIN m /\ m["os"] = r.os
      /\ "os_version" \in DOMAIN m /\ m["os_version"] = r.os_version
      /\ "started" \in DOMAIN m /\ m["started"] = r.started
      /\ "finished" \in DOMAIN m /\ m["finished"] = r.finished
      /\ "target" \in DOMAIN m /\ m["target"] = r.target
  OBVIOUS
<1>2. /\ "variables" \in DOMAIN m /\ m["variables"] = <<R!VarsToJson(r.vars)>>
      /\ "tags" \in DOMAIN m /\ m["tags"] = <<r.tags>>
      /\ "tests" \in DOMAIN m /\ m["tests"] = <<js>>
      /\ "passed_amount" \in DOMAIN m /\ m["passed_amount"] = <<r.passed_amount>>
      /\ "failed_amount" \in DOMAIN m /\ m["failed_amount"] = <<r.failed_amount>>
      /\ "finished_amount" \in DOMAIN m /\ m["finished_amount"] = <<r.finished_amount>>
  OBVIOUS
<1>3. /\ R!IsPointer(r.project_name) /\ R!IsPointer(r.ltf_version) /\ R!IsPointer(r.os)
      /\ R!IsPointer(r.os_version) /\ R!IsPointer(r.started) /\ R!IsPointer(r.finished)
      /\ R!IsPointer(r.target)
  BY DEF R!IsRecord
<1> HIDE DEF m
<1>4. R!Str(j, "project_name") = r.project_name  BY <1>1, <1>3, StrBack
<1>5. R!Str(j, "ltf_version") = r.ltf_version  BY <1>1, <1>3, StrBack
<1>6. R!Str(j, "os") = r.os  BY <1>1, <1>3, StrBack
<1>7. R!Str(j, "os_version") = r.os_version  BY <1>1, <1>3, StrBack
<1>8. R!Str(j, "started") = r.started  BY <1>1, <1>3, StrBack
<1>9. R!Str(j, "finished") = r.finished  BY <1>1, <1>3, StrBack
<1>10. R!Str(j, "target") = r.target  BY <1>1, <1>3, StrBack
<1>11. R!Arr(j, "tags") = r.tags  BY <1>2, ValueBack
<1>12. R!VarsFromJson(R!Arr(j, "variables")) = r.vars
  <2>1. R!Arr(j, "variables") = R!VarsToJson(r.vars)  BY <1>2, ValueBack
  <2> QED  BY <2>1, VarsBack DEF R!IsRecord
<1>13. R!Arr(j, "tests") = js  BY <1>2, ValueBack
<1>14. /\ j.passed_amount = r.passed_amount /\ j.failed_amount = r.failed_amount
       /\ j.finished_amount = r.finished_amount
  BY <1>2, ValueBack
<1> HIDE DEF j
<1> DEFINE ts == [i \in DOMAIN r.tests |-> R!Kept(r.tests[i])]
           back ==
  [project_name |-> r.project_name, ltf_version |-> r.ltf_version, os |-> r.os,
   os_version |-> r.os_version, started |-> r.started, finished |-> r.finished,
   target |-> r.target, tags |-> r.tags, tests |-> ts, vars |-> r.vars,
   total_amount |-> Len(r.tests), passed_amount |-> r.passed_amount,
   failed_amount |-> r.failed_amount, finished_amount |-> r.finished_amount]
<1>15. [i \in DOMAIN R!Arr(j, "tests") |-> R!TestFromJson(R!Arr(j, "tests")[i])] = ts
  <2>1. \A i \in DOMAIN r.tests :
          R!TestFromJson(R!TestToJson(r.tests[i])) = R!Kept(r.tests[i])
    BY TestBack DEF R!IsRecord
  <2>2. \A i \in DOMAIN r.tests : R!TestFromJson(js[i]) = R!Kept(r.tests[i])
    BY <1>t, <2>1
  <2> QED  BY <1>t, <1>13, <2>2
<1>16. Reloaded(r) = back
  <2>1. r = [project_name |-> r.project_name, ltf_version |-> r.ltf_version, os |-> r.os,
             os_version |-> r.os_version, started |-> r.started, finished |-> r.finished,
             target |-> r.target, tags |-> r.tags, tests |-> r.tests, vars |-> r.vars,
             total_amount |-> r.total_amount, passed_amount |-> r.passed_amount,
             failed_amount |-> r.failed_amount, finished_amount |-> r.finished_amount]
    BY DEF R!IsRecord
  <2>2. Reloaded(r) = [r EXCEPT !.tests = ts, !.total_amount = Len(r.tests)]
    BY DEF Reloaded
  <2> HIDE DEF ts
  <2> QED  BY <2>1, <2>2
<1> HIDE DEF ts
<1>17. R!StateFromJson(j) = back
  BY <1>4, <1>5, <1>6, <1>7, <1>8, <1>9, <1>10, <1>11, <1>12, <1>13, <1>14, <1>15, <1>l
  DEF R!StateFromJson
<1> QED  BY <1>16, <1>17, <1>j

\* A hook sees outputs as the raw log has them, messages up to their first NUL,
LEMMA OutputsAlike ==
  ASSUME NEW os, NEW key \in {"output", "failure_reasons", "teardown_errors"}
  PROVE  R!PushOutputs(os) = R!AsRead(key, R!OutputsToJson(os))
<1>1. ASSUME NEW o PROVE R!PushOutput(o) = [R!OutputToJson(o) EXCEPT !.msg = @.text]
  <2> DEFINE p == [msg |-> o.msg, level |-> <<R!LevelName(o.level)>>, date_time |-> o.date_time,
                   file |-> o.file, line |-> <<o.line>>]
             m == [file |-> o.file, line |-> <<o.line>>, date_time |-> o.date_time,
                   level |-> <<R!LevelName(o.level)>>, msg |-> R!StringOfLen(o)]
             keys == {"file", "line", "date_time", "level", "msg"}
  <2>1. /\ DOMAIN p = keys /\ DOMAIN m = keys
        /\ \A k \in keys : k # "msg" => p[k] = m[k]
    OBVIOUS
  <2>2. R!PushOutput(o) = R!Object(p) /\ R!OutputToJson(o) = R!Object(m)
    BY DEF R!PushOutput, R!OutputToJson
  <2>3. p["msg"] = o.msg /\ m["msg"] = R!StringOfLen(o)  OBVIOUS
  <2>4. /\ p["msg"] = R!Null <=> m["msg"] = R!Null
        /\ p["msg"] # R!Null => m["msg"][1].text = p["msg"][1]
    BY <2>3 DEF R!StringOfLen, R!Null
  <2> HIDE DEF p, m
  <2> DEFINE a == R!Object(p)
             b == R!Object(m)
             c == [b EXCEPT !.msg = @.text]
  <2>5. /\ a = [k \in {l \in keys : p[l] # R!Null} |-> p[k][1]]
        /\ b = [k \in {l \in keys : m[l] # R!Null} |-> m[k][1]]
    BY <2>1 DEF R!Object
  <2>6. {l \in keys : p[l] # R!Null} = {l \in keys : m[l] # R!Null}  BY <2>1, <2>4
  <2> DEFINE set == {l \in keys : p[l] # R!Null}
  <2>7. a = [k \in set |-> p[k][1]] /\ b = [k \in set |-> m[k][1]]  BY <2>5, <2>6
  <2>8. \A k \in set : p[k][1] = IF k = "msg" THEN m[k][1].text ELSE m[k][1]  BY <2>1, <2>4
  <2> HIDE DEF a, b, set
  <2>9. c = [k \in set |-> IF k = "msg" THEN m[k][1].text ELSE m[k][1]]  BY <2>7
  <2>10. a = c  BY <2>7, <2>8, <2>9
  <2> QED  BY <2>2, <2>10 DEF a, b
<1> DEFINE js == R!OutputsToJson(os)
<1>2. DOMAIN js = DOMAIN os /\ \A i \in DOMAIN os : js[i] = R!OutputToJson(os[i])
  BY DEF R!OutputsToJson
<1> HIDE DEF js
<1>3. R!AsRead(key, js) = [i \in DOMAIN js |-> [js[i] EXCEPT !.msg = @.text]]  BY DEF R!AsRead
<1>4. R!AsRead(key, js) = [i \in DOMAIN os |-> R!PushOutput(os[i])]  BY <1>1, <1>2, <1>3
<1> QED  BY <1>4 DEF R!PushOutputs, js

\* and keywords.

LEMMA KeywordsAlike == ASSUME NEW ks PROVE R!PushKeywords(ks) = R!KeywordsToJson(ks)
<1>1. ASSUME NEW k PROVE R!PushKeyword(k) = R!KeywordToJson(k)
  BY DEF R!PushKeyword, R!KeywordToJson
<1> QED  BY <1>1 DEF R!PushKeywords, R!KeywordsToJson

\* Two objects have the same under a key of each, when it was the same member.
LEMMA MemberAlike ==
  ASSUME NEW m, NEW k, k \in DOMAIN m, NEW n, NEW l, l \in DOMAIN n, m[k] = n[l]
  PROVE  /\ k \in DOMAIN R!Object(m) <=> l \in DOMAIN R!Object(n)
         /\ k \in DOMAIN R!Object(m) => R!Object(m)[k] = R!Object(n)[l]
BY DEF R!Object

\* A hook sees a test as the raw log has it, with the end of its teardown.
LEMMA TestAlike ==
  ASSUME NEW t
  PROVE  LET test == R!PushTest(t)
             j    == R!TestToJson(t) IN
         /\ DOMAIN test \ {"teardown_end", "teardown_outputs"} =
              {R!InContext(key) : key \in DOMAIN j \ {"teardown_output"}}
         /\ \A key \in DOMAIN j \ {"teardown_output"} :
              test[R!InContext(key)] = R!AsRead(key, j[key])
<1> DEFINE
  m == [name |-> t.name, description |-> t.description, started |-> t.started,
   finished |-> t.finished, teardown_start |-> t.teardown_start,
   status |-> t.status_str, tags |-> <<t.tags>>,
   failure_reasons |-> <<R!OutputsToJson(t.failure_reasons)>>,
   output |-> <<R!OutputsToJson(t.outputs)>>,
   teardown_output |-> <<R!OutputsToJson(t.teardown_outputs)>>,
   teardown_errors |-> <<R!OutputsToJson(t.teardown_errors)>>,
   keywords |-> <<R!KeywordsToJson(t.keyword_statuses)>>]
  p == [name |-> t.name, started |-> t.started, description |-> t.description,
   finished |-> t.finished, status |-> t.status_str,
   teardown_start |-> t.teardown_start, teardown_end |-> t.teardown_end,
   tags |-> <<t.tags>>, outputs |-> <<R!PushOutputs(t.outputs)>>,
   failure_reasons |-> <<R!PushOutputs(t.failure_reasons)>>,
   teardown_outputs |-> <<R!PushOutputs(t.teardown_outputs)>>,
   teardown_errors |-> <<R!PushOutputs(t.teardown_errors)>>,
   keywords |-> <<R!PushKeywords(t.keyword_statuses)>>]
  same == {"name", "description", "started", "finished", "teardown_start", "status", "tags",
           "keywords"}
  outs == {"output", "failure_reasons", "teardown_errors"}
  keys == same \cup outs
  test == R!Object(p)
  j    == R!Object(m)
<1>1. R!PushTest(t) = test /\ R!TestToJson(t) = j  BY DEF R!PushTest, R!TestToJson
<1>2. /\ DOMAIN m = keys \cup {"teardown_output"}
      /\ DOMAIN p = same \cup {"failure_reasons", "teardown_errors", "outputs",
                               "teardown_outputs", "teardown_end"}
  OBVIOUS
<1>3. /\ p["name"] = m["name"] /\ p["description"] = m["description"]
      /\ p["started"] = m["started"] /\ p["finished"] = m["finished"]
      /\ p["teardown_start"] = m["teardown_start"] /\ p["status"] = m["status"]
      /\ p["tags"] = m["tags"]
  OBVIOUS
<1>4. /\ p["failure_reasons"] = <<R!PushOutputs(t.failure_reasons)>>
      /\ m["failure_reasons"] = <<R!OutputsToJson(t.failure_reasons)>>
      /\ p["teardown_errors"] = <<R!PushOutputs(t.teardown_errors)>>
      /\ m["teardown_errors"] = <<R!OutputsToJson(t.teardown_errors)>>
      /\ p["outputs"] = <<R!PushOutputs(t.outputs)>>
      /\ m["output"] = <<R!OutputsToJson(t.outputs)>>
  OBVIOUS
<1>5. p["keywords"] = m["keywords"]  BY KeywordsAlike
<1> HIDE DEF m, p
<1>6. /\ R!InContext("output") = "outputs"
      /\ \A k \in keys : k # "output" => R!InContext(k) = k
      /\ \A k \in same : \A v : R!AsRead(k, v) = v
  BY DEF R!InContext, R!AsRead
<1>7. \A k \in keys : R!InContext(k) \in DOMAIN p \ {"teardown_end", "teardown_outputs"}
  BY <1>2, <1>6
<1>8. \A l \in DOMAIN p \ {"teardown_end", "teardown_outputs"} :
        \E k \in keys : l = R!InContext(k)
  BY <1>2, <1>6
<1>9. DOMAIN test \subseteq DOMAIN p /\ DOMAIN j \subseteq DOMAIN m  BY DEF R!Object
<1>10. ASSUME NEW k \in keys
       PROVE  /\ R!InContext(k) \in DOMAIN test <=> k \in DOMAIN j
              /\ k \in DOMAIN j => test[R!InContext(k)] = R!AsRead(k, j[k])
  <2>1. CASE k \in same
    <3>1. p[k] = m[k]  BY <1>3, <1>5, <2>1
    <3>2. k \in DOMAIN p /\ k \in DOMAIN m  BY <1>2, <2>1
    <3>3. /\ k \in DOMAIN test <=> k \in DOMAIN j
          /\ k \in DOMAIN j => test[k] = j[k]
      BY <3>1, <3>2, MemberAlike
    <3>4. R!InContext(k) = k /\ R!AsRead(k, j[k]) = j[k]  BY <1>6, <2>1
    <3> QED  BY <3>3, <3>4
  <2>2. ASSUME NEW os, m[k] = <<R!OutputsToJson(os)>>, k \in outs,
               p[R!InContext(k)] = <<R!PushOutputs(os)>>
        PROVE  /\ R!InContext(k) \in DOMAIN test /\ k \in DOMAIN j
               /\ test[R!InContext(k)] = R!AsRead(k, j[k])
    <3>1. k \in DOMAIN j /\ j[k] = R!OutputsToJson(os)  BY <1>2, <2>2, ValueBack
    <3>2. R!InContext(k) \in DOMAIN p  BY <1>7
    <3>3. /\ R!InContext(k) \in DOMAIN test
          /\ test[R!InContext(k)] = R!PushOutputs(os)
      BY <3>2, <2>2, ValueBack
    <3> QED  BY <3>1, <3>3, <2>2, OutputsAlike
  <2>3. CASE k = "output"  BY <1>4, <1>6, <2>2, <2>3
  <2>4. CASE k = "failure_reasons"  BY <1>4, <1>6, <2>2, <2>4
  <2>5. CASE k = "teardown_errors"  BY <1>4, <1>6, <2>2, <2>5
  <2> QED  BY <2>1, <2>3, <2>4, <2>5
<1> HIDE DEF test, j
<1>11. /\ DOMAIN j \ {"teardown_output"} \subseteq keys
       /\ \A l \in DOMAIN test \ {"teardown_end", "teardown_outputs"} :
            \E k \in keys : l = R!InContext(k)
  BY <1>2, <1>8, <1>9
<1> HIDE DEF keys
<1>12. DOMAIN test \ {"teardown_end", "teardown_outputs"} =
         {R!InContext(key) : key \in DOMAIN j \ {"teardown_output"}}
  <2>1. \A l \in DOMAIN test \ {"teardown_end", "teardown_outputs"} :
          \E k \in DOMAIN j \ {"teardown_output"} : l = R!InContext(k)
    <3> SUFFICES ASSUME NEW l \in DOMAIN test \ {"teardown_end", "teardown_outputs"}
                 PROVE  \E k \in DOMAIN j \ {"teardown_output"} : l = R!InContext(k)
      OBVIOUS
    <3>1. PICK k \in keys : l = R!InContext(k)  BY <1>11
    <3>2. k # "teardown_output"  BY DEF keys
    <3>3. k \in DOMAIN j  BY <1>10, <3>1
    <3> QED  BY <3>1, <3>2, <3>3
  <2>2. \A k \in DOMAIN j \ {"teardown_output"} :
          R!InContext(k) \in DOMAIN test \ {"teardown_end", "teardown_outputs"}
    BY <1>7, <1>10, <1>11
  <2> QED  BY <2>1, <2>2
<1>13. \A k \in DOMAIN j \ {"teardown_output"} : test[R!InContext(k)] = R!AsRead(k, j[k])
  BY <1>10, <1>11
<1> QED  BY <1>1, <1>12, <1>13

\* The variables of a record, by name.
VarsOf(r) ==
  [n \in {r.vars[i].name : i \in DOMAIN r.vars} |->
     r.vars[CHOOSE i \in DOMAIN r.vars : r.vars[i].name = n].final[1]]

\* Nothing that is registered late has a value.
LateUnset ==
  /\ Len(variables) \in Nat /\ variables = [i \in 1 .. Len(variables) |-> variables[i]]
  /\ Len(record.vars) <= Len(variables)
  /\ \A i \in 1 .. Len(variables) :
       IF i <= Len(record.vars) THEN variables[i] = record.vars[i]
       ELSE variables[i].final = R!Null

\* What is kept of a run is made of its record, which no view changes.
ViewsInv ==
  /\ record \in Records
  /\ LateUnset
  /\ raw # R!Null => raw = <<R!StateToJson(record)>>
  /\ loaded # R!Null => raw # R!Null /\ loaded = <<Reloaded(record)>>
  /\ context # R!Null =>
       /\ context[1].test_run.vars = VarsOf(record)
       /\ record.tests # << >> => context[1].test[1] = R!PushTest(R!Last(record.tests))

LEMMA VarsPushed ==
  ASSUME R!IsRecord(record), LateUnset PROVE R!PushVars = VarsOf(record)
<1> DEFINE r == record.vars
           set == {i \in DOMAIN variables : variables[i].final # R!Null}
           Place(n) == CHOOSE i \in set : /\ variables[i].name = n
                                          /\ \A j \in set : variables[j].name = n => j <= i
           Own(n) == CHOOSE i \in DOMAIN r : r[i].name = n
<1>1. Len(r) \in Nat /\ DOMAIN r = 1 .. Len(r)  BY ArrayIs DEF R!IsRecord
<1>2. /\ \A i \in DOMAIN r : r[i].final = <<r[i].final[1]>>
      /\ \A i, j \in DOMAIN r : r[i].name = r[j].name => i = j
  BY DEF R!IsRecord
<1>3. \A i \in DOMAIN r : r[i].final # R!Null  BY <1>2 DEF R!Null
<1>4. /\ Len(variables) \in Nat /\ DOMAIN variables = 1 .. Len(variables)
      /\ Len(r) <= Len(variables)
      /\ \A i \in 1 .. Len(variables) :
           IF i <= Len(r) THEN variables[i] = r[i] ELSE variables[i].final = R!Null
  BY DEF LateUnset
<1>v. R!PushVars = [n \in {variables[i].name : i \in set} |-> variables[Place(n)].final[1]]
  BY DEF R!PushVars
<1>o. VarsOf(record) = [n \in {r[i].name : i \in DOMAIN r} |-> r[Own(n)].final[1]]
  BY DEF VarsOf
<1> HIDE DEF r
<1>5. set = DOMAIN r
  <2>1. \A i \in 1 .. Len(variables) : variables[i].final # R!Null <=> i <= Len(r)
    BY <1>1, <1>3, <1>4
  <2>2. \A i : i \in set <=> i \in 1 .. Len(r)  BY <1>1, <1>4, <2>1
  <2> QED  BY <1>1, <2>2
<1>6. \A i \in DOMAIN r : variables[i] = r[i]  BY <1>1, <1>4
<1> HIDE DEF set
<1>7. {variables[i].name : i \in set} = {r[i].name : i \in DOMAIN r}  BY <1>5, <1>6
<1>8. ASSUME NEW n \in {r[i].name : i \in DOMAIN r}
      PROVE  variables[Place(n)].final[1] = r[Own(n)].final[1]
  <2>1. PICK i \in DOMAIN r : r[i].name = n  OBVIOUS
  <2>2. Own(n) \in DOMAIN r /\ r[Own(n)].name = n  BY <2>1
  <2> HIDE DEF Own
  <2>3. Own(n) = i  BY <1>2, <2>1, <2>2
  <2>4. i \in set /\ variables[i].name = n /\ \A j \in set : variables[j].name = n => j <= i
    <3>1. \A j \in set : variables[j].name = n => j = i  BY <1>2, <1>5, <1>6, <2>1
    <3>2. i \in Int /\ i <= i  BY <1>1
    <3> QED  BY <1>5, <1>6, <2>1, <3>1, <3>2
  <2>5. Place(n) \in set /\ variables[Place(n)].name = n  BY <2>4
  <2> HIDE DEF Place
  <2>6. Place(n) = i  BY <1>2, <1>5, <1>6, <2>1, <2>5
  <2>7. variables[Place(n)].final[1] = r[Own(n)].final[1]  BY <1>6, <2>1, <2>3, <2>6
  <2> QED  BY <2>7
<1> HIDE DEF Place, Own
<1> DEFINE names == {r[i].name : i \in DOMAIN r}
<1>9. R!PushVars = [n \in names |-> variables[Place(n)].final[1]]  BY <1>7, <1>v
<1> HIDE DEF names
<1>10. [n \in names |-> variables[Place(n)].final[1]] = [n \in names |-> r[Own(n)].final[1]]
  BY <1>8 DEF names
<1> QED  BY <1>9, <1>10, <1>o DEF names

\* The context has them.
LEMMA ContextVars ==
  ASSUME R!IsRecord(record), LateUnset PROVE R!PushTestRun.vars = VarsOf(record)
<1> DEFINE m ==
  [project_name |-> record.project_name, ltf_version |-> record.ltf_version,
   os |-> record.os, os_version |-> record.os_version, target |-> record.target,
   started |-> record.started, finished |-> record.finished, tags |-> <<record.tags>>,
   vars |-> <<R!PushVars>>]
<1>1. R!PushTestRun = R!Object(m)  BY DEF R!PushTestRun
<1>2. "vars" \in DOMAIN m /\ m["vars"] = <<R!PushVars>>  OBVIOUS
<1> HIDE DEF m
<1>3. R!Object(m)["vars"] = R!PushVars  BY <1>2, ValueBack
<1> QED  BY <1>1, <1>3, VarsPushed

LEMMA ViewsInit == ASSUME R!RawLogConstantsOK, R!Init PROVE ViewsInv
<1>1. R!IsRecord(record)  BY DEF R!RawLogConstantsOK, R!Init
<1>2. R!IsArray(record.vars)  BY <1>1 DEF R!IsRecord
<1>3. /\ Len(record.vars) \in Nat /\ DOMAIN record.vars = 1 .. Len(record.vars)
      /\ record.vars = [i \in DOMAIN record.vars |-> record.vars[i]]
  BY <1>2, ArrayIs
<1>4. LateUnset  BY <1>3 DEF LateUnset, R!Init
<1> QED  BY <1>4 DEF ViewsInv, R!Init

LEMMA ViewsStep ==
  ASSUME R!RawLogConstantsOK, ViewsInv, [R!Next]_(R!recordVars) PROVE ViewsInv'
<1>r. R!IsRecord(record)  BY DEF R!RawLogConstantsOK, ViewsInv
<1>1. CASE R!PushContext
  <2>1. UNCHANGED <<record, variables, raw, loaded>>  BY <1>1 DEF R!PushContext
  <2>2. context' = <<[test_run |-> R!PushTestRun,
                      test |-> IF record.tests = << >> THEN R!Null
                               ELSE <<R!PushTest(R!Last(record.tests))>>]>>
    BY <1>1 DEF R!PushContext
  <2>3. context'[1].test_run.vars = VarsOf(record)
    <3>1. context'[1].test_run = R!PushTestRun  BY <2>2
    <3> QED  BY <3>1, <1>r, ContextVars DEF ViewsInv
  <2>4. record.tests # << >> => context'[1].test[1] = R!PushTest(R!Last(record.tests))
    BY <2>2
  <2> QED  BY <2>1, <2>3, <2>4 DEF ViewsInv, LateUnset
<1>2. ASSUME NEW name \in LateNames, R!RegisterLate(name) PROVE ViewsInv'
  <2>1. UNCHANGED <<record, raw, context, loaded>>  BY <1>2 DEF R!RegisterLate
  <2>2. variables' = Append(variables, [name |-> name, final |-> R!Null])
    BY <1>2 DEF R!RegisterLate
  <2>3. Len(record.vars) \in Nat  BY <1>r, ArrayIs DEF R!IsRecord
  <2>4. LateUnset'
    <3> DEFINE new == [name |-> name, final |-> R!Null]
    <3>n. new.final = R!Null  OBVIOUS
    <3>1. /\ Len(variables) \in Nat /\ variables = [i \in 1 .. Len(variables) |-> variables[i]]
          /\ Len(record.vars) <= Len(variables)
          /\ \A i \in 1 .. Len(variables) :
               IF i <= Len(record.vars) THEN variables[i] = record.vars[i]
               ELSE variables[i].final = R!Null
      BY DEF ViewsInv, LateUnset
    <3> HIDE DEF new
    <3> DEFINE S == {variables[i] : i \in 1 .. Len(variables)} \cup {new}
    <3>2. variables \in Seq(S) /\ new \in S
      <4>1. \A i \in 1 .. Len(variables) : variables[i] \in S  OBVIOUS
      <4>2. new \in S  OBVIOUS
      <4> HIDE DEF S
      <4>3. variables \in [1 .. Len(variables) -> S]  BY <3>1, <4>1
      <4>4. variables \in Seq(S)  BY <3>1, <4>3
      <4> QED  BY <4>2, <4>4
    <3>3. variables' = Append(variables, new)  BY <2>2 DEF new
    <3> HIDE DEF S
    <3>4. /\ variables' \in Seq(S) /\ Len(variables') = Len(variables) + 1
          /\ \A i \in 1 .. Len(variables) : variables'[i] = variables[i]
          /\ variables'[Len(variables) + 1] = new
      BY <3>2, <3>3
    <3>5. variables' = [i \in 1 .. Len(variables') |-> variables'[i]]
      <4>1. variables' \in [1 .. Len(variables') -> S]  BY <3>4
      <4> QED  BY <4>1
    <3>6. \A i \in 1 .. Len(variables') :
            IF i <= Len(record.vars) THEN variables'[i] = record.vars[i]
            ELSE variables'[i].final = R!Null
      <4> SUFFICES ASSUME NEW i \in 1 .. Len(variables')
                   PROVE  IF i <= Len(record.vars) THEN variables'[i] = record.vars[i]
                          ELSE variables'[i].final = R!Null
        OBVIOUS
      <4>1. CASE i = Len(variables) + 1
        <5>1. ~(i <= Len(record.vars))  BY <4>1, <3>1, <2>3
        <5>2. variables'[i] = new  BY <3>4, <4>1
        <5> QED  BY <5>1, <5>2, <3>n
      <4>2. CASE i # Len(variables) + 1
        <5>1. i \in 1 .. Len(variables)  BY <4>2, <3>1, <3>4
        <5>2. variables'[i] = variables[i]  BY <5>1, <3>4
        <5> QED  BY <5>1, <5>2, <3>1
      <4> QED  BY <4>1, <4>2
    <3>7. Len(variables') \in Nat /\ Len(record.vars) <= Len(variables')
      BY <3>1, <3>4, <2>3
    <3> QED  BY <2>1, <3>5, <3>6, <3>7 DEF LateUnset
  <2> QED  BY <2>1, <2>4 DEF ViewsInv
<1>3. CASE R!Save
  BY <1>3 DEF R!Save, ViewsInv, LateUnset
<1>4. CASE R!Load
  <2>1. UNCHANGED <<record, variables, raw, context>> /\ raw # R!Null
    BY <1>4 DEF R!Load
  <2>2. loaded' = <<R!StateFromJson(raw[1])>>  BY <1>4 DEF R!Load
  <2>3. raw[1] = R!StateToJson(record)  BY <2>1 DEF ViewsInv
  <2>4. loaded' = <<Reloaded(record)>>  BY <2>2, <2>3, <1>r, StateBack
  <2> QED  BY <2>1, <2>4 DEF ViewsInv, LateUnset
<1>5. ASSUME NEW io \in BOOLEAN, NEW tree \in BOOLEAN, R!PrintLog(io, tree) PROVE ViewsInv'
  BY <1>5 DEF R!PrintLog, ViewsInv, LateUnset
<1>6. CASE R!Terminated \/ UNCHANGED R!recordVars
  BY <1>6 DEF R!Terminated, R!recordVars, ViewsInv, LateUnset
<1> QED  BY <1>1, <1>2, <1>3, <1>4, <1>5, <1>6 DEF R!Next

LEMMA ViewsAreAlike ==
  ASSUME R!RawLogConstantsOK, ViewsInv PROVE ViewsAgree
<1>r. R!IsRecord(record)  BY DEF R!RawLogConstantsOK, ViewsInv
<1>1. loaded # R!Null => loaded[1] = Reloaded(record)  BY DEF ViewsInv
<1>2. context # R!Null => context[1].test_run.vars = VarsOf(record)  BY DEF ViewsInv
<1>3. ASSUME context # R!Null, raw # R!Null, record.tests # << >>
      PROVE  LET test == context[1].test[1]
                 j    == R!Last(raw[1].tests) IN
             /\ DOMAIN test \ {"teardown_end", "teardown_outputs"} =
                  {R!InContext(key) : key \in DOMAIN j \ {"teardown_output"}}
             /\ \A key \in DOMAIN j \ {"teardown_output"} :
                  test[R!InContext(key)] = R!AsRead(key, j[key])
  <2> DEFINE t == R!Last(record.tests)
             js == [i \in DOMAIN record.tests |-> R!TestToJson(record.tests[i])]
  <2>1. context[1].test[1] = R!PushTest(t)  BY <1>3 DEF ViewsInv
  <2>2. raw[1] = R!StateToJson(record)  BY <1>3 DEF ViewsInv
  <2>3. raw[1].tests = js
    <3> DEFINE m ==
      [project_name |-> record.project_name, ltf_version |-> record.ltf_version,
       os |-> record.os, os_version |-> record.os_version, started |-> record.started,
       finished |-> record.finished, target |-> record.target,
       variables |-> <<R!VarsToJson(record.vars)>>, tags |-> <<record.tags>>,
       tests |-> <<js>>, total_amount |-> <<record.total_amount>>,
       passed_amount |-> <<record.passed_amount>>, failed_amount |-> <<record.failed_amount>>,
       finished_amount |-> <<record.finished_amount>>]
    <3>1. R!StateToJson(record) = R!Object(m)  BY DEF R!StateToJson
    <3> HIDE DEF js
    <3>2. "tests" \in DOMAIN m /\ m["tests"] = <<js>>  OBVIOUS
    <3> HIDE DEF m
    <3>3. R!Object(m)["tests"] = js  BY <3>2, ValueBack
    <3> QED  BY <2>2, <3>1, <3>3
  <2>4. /\ Len(record.tests) \in Nat /\ DOMAIN record.tests = 1 .. Len(record.tests)
        /\ record.tests = [i \in DOMAIN record.tests |-> record.tests[i]]
    BY <1>r, ArrayIs DEF R!IsRecord
  <2>5. Len(record.tests) >= 1
    <3>1. CASE Len(record.tests) = 0
      <4>1. record.tests = << >>  BY <3>1, <2>4
      <4> QED  BY <4>1, <1>3
    <3> QED  BY <3>1, <2>4
  <2>6. R!Last(js) = R!TestToJson(t)
    <3>1. Len(js) = Len(record.tests)  BY <2>4
    <3>2. R!Last(js) = js[Len(record.tests)]  BY <3>1 DEF R!Last
    <3>3. t = record.tests[Len(record.tests)]  BY DEF R!Last
    <3>4. Len(record.tests) \in DOMAIN record.tests  BY <2>4, <2>5
    <3> QED  BY <3>2, <3>3, <3>4
  <2>7. R!Last(raw[1].tests) = R!TestToJson(t)  BY <2>3, <2>6
  <2> HIDE DEF t, js
  <2> QED  BY <2>1, <2>7, TestAlike
<1> QED  BY <1>1, <1>2, <1>3 DEF ViewsAgree, R!ViewsAgree, Reloaded, VarsOf

\* Hooks, the raw log and logs info tell the same of any run, whatever it recorded
\* and whatever was registered since: of each message, what comes before its first
\* NUL, and of a test in a hook, all but the output of its teardown, whose key is
\* not the documented one.
THEOREM ViewsAlwaysAgree == ASSUME R!RawLogConstantsOK PROVE R!Spec => []ViewsAgree
<1>1. R!Init => ViewsInv  BY ViewsInit
<1>2. ViewsInv /\ [R!Next]_(R!recordVars) => ViewsInv'  BY ViewsStep
<1>3. ViewsInv => ViewsAgree  BY ViewsAreAlike
<1> QED  BY <1>1, <1>2, <1>3, PTL DEF R!Spec

-----------------------------------------------------------------------------
(* The trees that logs info draws.  They are printed keyword by keyword,   *)
(* so that they are reasoned about by induction, which goes through the    *)
(* least number that is not in a set.                                      *)

\* A set of numbers that is not empty has a least one.
LEMMA LeastOf ==
  ASSUME NEW P \in SUBSET Nat, P # {}
  PROVE  \E n \in P : \A m \in P : n <= m
<1>1. PICK n \in P : \A m \in P : <<m, n>> \notin OpToRel(<, Nat)
  BY NatLessThanWellFounded, WFMin
<1>2. ASSUME NEW m \in P PROVE n <= m
  <2>1. ~(m < n)
    BY <1>1 DEF OpToRel
  <2> QED BY <2>1
<1> QED BY <1>2

\* Induction, for a set of numbers.
LEMMA UpTo ==
  ASSUME NEW N \in Nat, NEW P, 0 \in P, \A n \in 1 .. N : n - 1 \in P => n \in P
  PROVE  0 .. N \subseteq P
<1> DEFINE Bad == {n \in 0 .. N : n \notin P}
<1>1. SUFFICES ASSUME Bad # {} PROVE FALSE
  OBVIOUS
<1>2. PICK n \in Bad : \A m \in Bad : n <= m
  <2>1. Bad \in SUBSET Nat
    OBVIOUS
  <2> HIDE DEF Bad
  <2> QED BY <1>1, <2>1, LeastOf
<1>3. n \in 1 .. N /\ n - 1 \in 0 .. N /\ n - 1 \notin Bad
  BY <1>2
<1> QED BY <1>2, <1>3

\* The lines that are printed, each with a column.
Lines == [col : Nat, bars : SUBSET Nat, last : BOOLEAN]

\* A column is open below line k, when it is so below the last line in O.
Opens(lines, k, col, O) ==
  \/ R!Continues(lines, k, col)
  \/ col \in O /\ \A m \in k + 1 .. Len(lines) : lines[m].col > col

\* The lines are drawn right, when the columns of O are open below them.
DrawnInto(lines, O) ==
  \A k \in 1 .. Len(lines) :
    /\ lines[k].last = ~Opens(lines, k, lines[k].col, O)
    /\ lines[k].bars = {c \in 0 .. lines[k].col - 1 : Opens(lines, k, c, O)}

LEMMA LineIs ==
  ASSUME NEW a \in Seq(Lines), NEW i \in 1 .. Len(a)
  PROVE  a[i] \in Lines /\ a[i].col \in Nat
<1>1. a[i] \in Lines  BY ElementOfSeq
<1>2. \A l \in Lines : l.col \in Nat  BY DEF Lines
<1> QED  BY <1>1, <1>2

LEMMA TwoListings ==
  ASSUME NEW S, NEW a \in Seq(S), NEW b \in Seq(S)
  PROVE  /\ a \o b \in Seq(S) /\ Len(a \o b) = Len(a) + Len(b)
         /\ \A i \in 1 .. Len(a) : (a \o b)[i] = a[i]
         /\ \A i \in 1 .. Len(b) : (a \o b)[Len(a) + i] = b[i]
OBVIOUS

\* What is open in the second part of a listing does not depend on the first.
LEMMA OpensLater ==
  ASSUME NEW a \in Seq(Lines), NEW b \in Seq(Lines), NEW k \in 0 .. Len(b), NEW c \in Nat, NEW O
  PROVE  Opens(a \o b, Len(a) + k, c, O) <=> Opens(b, k, c, O)
<1> DEFINE l == a \o b
           A == Len(a)
           B == Len(b)
<1>1. /\ A \in Nat /\ B \in Nat /\ Len(l) = A + B
      /\ \A i \in 1 .. B : l[A + i] = b[i]
  BY TwoListings
<1> HIDE DEF l
<1>2. ASSUME R!Continues(b, k, c) PROVE R!Continues(l, A + k, c)
  <2>1. PICK j \in k + 1 .. B : b[j].col = c /\ \A m \in k + 1 .. j - 1 : b[m].col > c
    BY <1>2 DEF R!Continues
  <2>2. A + j \in A + k + 1 .. Len(l) /\ l[A + j].col = c  BY <1>1, <2>1
  <2>3. ASSUME NEW m \in A + k + 1 .. A + j - 1 PROVE l[m].col > c
    <3>1. m - A \in k + 1 .. j - 1 /\ m - A \in 1 .. B /\ A + (m - A) = m  BY <1>1, <2>1
    <3>2. l[m] = b[m - A]  BY <1>1, <3>1
    <3> QED  BY <2>1, <3>1, <3>2
  <2> QED  BY <2>2, <2>3 DEF R!Continues
<1>3. ASSUME R!Continues(l, A + k, c) PROVE R!Continues(b, k, c)
  <2>1. PICK j \in A + k + 1 .. Len(l) : l[j].col = c /\ \A m \in A + k + 1 .. j - 1 : l[m].col > c
    BY <1>3 DEF R!Continues
  <2>2. j - A \in k + 1 .. B /\ A + (j - A) = j  BY <1>1, <2>1
  <2>3. b[j - A].col = c
    <3>1. j - A \in 1 .. B  BY <2>2
    <3> QED  BY <1>1, <2>1, <2>2, <3>1
  <2>4. ASSUME NEW m \in k + 1 .. j - A - 1 PROVE b[m].col > c
    <3>1. m \in 1 .. B /\ A + m \in A + k + 1 .. j - 1  BY <1>1, <2>1, <2>2
    <3> QED  BY <1>1, <2>1, <3>1
  <2> QED  BY <2>2, <2>3, <2>4 DEF R!Continues
<1>4. (\A m \in A + k + 1 .. Len(l) : l[m].col > c) <=> (\A m \in k + 1 .. B : b[m].col > c)
  <2>1. ASSUME \A m \in A + k + 1 .. Len(l) : l[m].col > c, NEW m \in k + 1 .. B PROVE b[m].col > c
    <3>1. m \in 1 .. B /\ A + m \in A + k + 1 .. Len(l)  BY <1>1
    <3> QED  BY <1>1, <2>1, <3>1
  <2>2. ASSUME \A m \in k + 1 .. B : b[m].col > c, NEW m \in A + k + 1 .. Len(l) PROVE l[m].col > c
    <3>1. m - A \in k + 1 .. B /\ m - A \in 1 .. B /\ A + (m - A) = m  BY <1>1
    <3>2. l[m] = b[m - A]  BY <1>1, <3>1
    <3> QED  BY <2>2, <3>1, <3>2
  <2> QED  BY <2>1, <2>2
<1> QED  BY <1>2, <1>3, <1>4 DEF Opens, l

\* Below the first part, a column stays open or is opened by the second.
LEMMA OpensEarlier ==
  ASSUME NEW a \in Seq(Lines), NEW b \in Seq(Lines), NEW k \in 1 .. Len(a), NEW Oa, NEW Ob,
         NEW c \in 0 .. a[k].col,
         \A d \in 0 .. a[Len(a)].col : d \in Oa <=> Opens(b, 0, d, Ob)
  PROVE  Opens(a \o b, k, c, Ob) <=> Opens(a, k, c, Oa)
<1> DEFINE l == a \o b
           A == Len(a)
           B == Len(b)
<1>1. /\ A \in Nat /\ B \in Nat /\ Len(l) = A + B
      /\ \A i \in 1 .. A : l[i] = a[i]
  BY TwoListings
<1>2. l \in Seq(Lines) /\ \A i \in 1 .. Len(l) : l[i].col \in Nat
  <2>1. l \in Seq(Lines)  BY TwoListings
  <2> QED  BY <2>1, LineIs
<1>3. \A i \in 1 .. A : a[i].col \in Nat  BY LineIs
<1> HIDE DEF l
<1>4. CASE \E m \in k + 1 .. A : a[m].col <= c
  <2>1. PICK m \in k + 1 .. A : a[m].col <= c  BY <1>4
  <2>2. m \in k + 1 .. Len(l) /\ l[m].col <= c /\ ~(l[m].col > c)  BY <1>1, <1>3, <2>1
  <2>3. ~(a[m].col > c)  BY <1>3, <2>1
  <2>4. Opens(a, k, c, Oa) <=> R!Continues(a, k, c)  BY <2>1, <2>3 DEF Opens
  <2>5. Opens(l, k, c, Ob) <=> R!Continues(l, k, c)  BY <2>2 DEF Opens
  <2>6. ASSUME R!Continues(a, k, c) PROVE R!Continues(l, k, c)
    <3>1. PICK j \in k + 1 .. A : a[j].col = c /\ \A i \in k + 1 .. j - 1 : a[i].col > c
      BY <2>6 DEF R!Continues
    <3>2. j \in k + 1 .. Len(l) /\ l[j].col = c  BY <1>1, <3>1
    <3>3. \A i \in k + 1 .. j - 1 : l[i].col > c  BY <1>1, <3>1, SMTT(20)
    <3> QED  BY <3>2, <3>3 DEF R!Continues
  <2>7. ASSUME R!Continues(l, k, c) PROVE R!Continues(a, k, c)
    <3>1. PICK j \in k + 1 .. Len(l) : l[j].col = c /\ \A i \in k + 1 .. j - 1 : l[i].col > c
      BY <2>7 DEF R!Continues
    <3>2. j <= m  BY <2>1, <2>2, <3>1, <1>1
    <3>3. j \in k + 1 .. A /\ a[j].col = c  BY <1>1, <2>1, <3>1, <3>2
    <3>4. \A i \in k + 1 .. j - 1 : a[i].col > c  BY <1>1, <3>1, <3>3
    <3> QED  BY <3>3, <3>4 DEF R!Continues
  <2> QED  BY <2>4, <2>5, <2>6, <2>7 DEF l
<1>5. CASE ~ \E m \in k + 1 .. A : a[m].col <= c
  <2>1. \A m \in k + 1 .. A : a[m].col > c  BY <1>3, <1>5
  <2>2. c <= a[A].col
    <3>1. CASE k = A  BY <3>1
    <3>2. CASE k < A  BY <2>1, <1>3, <3>2
    <3> QED  BY <3>1, <3>2, <1>1
  <2>3. ~R!Continues(a, k, c)
    <3>1. SUFFICES ASSUME R!Continues(a, k, c) PROVE FALSE  OBVIOUS
    <3>2. PICK j \in k + 1 .. A : a[j].col = c  BY <3>1 DEF R!Continues
    <3> QED  BY <2>1, <3>2
  <2>4. Opens(a, k, c, Oa) <=> c \in Oa  BY <2>1, <2>3 DEF Opens
  <2>5. c \in Oa <=> Opens(b, 0, c, Ob)
    <3>1. c \in 0 .. a[A].col  BY <2>2, <1>1, <1>3
    <3> QED  BY <3>1
  <2>6. Opens(b, 0, c, Ob) <=> Opens(l, A, c, Ob)
    <3>1. Opens(l, A + 0, c, Ob) <=> Opens(b, 0, c, Ob)  BY <1>1, OpensLater DEF l
    <3> QED  BY <3>1, <1>1
  <2>7. Opens(l, A, c, Ob) <=> Opens(l, k, c, Ob)
    <3>1. \A m \in k + 1 .. A : l[m].col > c  BY <1>1, <2>1
    <3>2. ASSUME R!Continues(l, A, c) PROVE R!Continues(l, k, c)
      <4>1. PICK j \in A + 1 .. Len(l) : l[j].col = c /\ \A i \in A + 1 .. j - 1 : l[i].col > c
        BY <3>2 DEF R!Continues
      <4>2. \A i \in k + 1 .. j - 1 : l[i].col > c  BY <3>1, <4>1, <1>1
      <4>3. j \in k + 1 .. Len(l)  BY <4>1, <1>1
      <4> QED  BY <4>1, <4>2, <4>3 DEF R!Continues
    <3>3. ASSUME R!Continues(l, k, c) PROVE R!Continues(l, A, c)
      <4>1. PICK j \in k + 1 .. Len(l) : l[j].col = c /\ \A i \in k + 1 .. j - 1 : l[i].col > c
        BY <3>3 DEF R!Continues
      <4>2. j > A
        <5>1. CASE j <= A  BY <5>1, <3>1, <4>1, <1>1
        <5> QED  BY <5>1, <4>1, <1>1
      <4>3. j \in A + 1 .. Len(l) /\ \A i \in A + 1 .. j - 1 : l[i].col > c  BY <4>1, <4>2, <1>1
      <4> QED  BY <4>1, <4>3 DEF R!Continues
    <3>4. (\A m \in A + 1 .. Len(l) : l[m].col > c) <=> (\A m \in k + 1 .. Len(l) : l[m].col > c)
      BY <3>1, <1>1
    <3> QED  BY <3>2, <3>3, <3>4 DEF Opens
  <2> QED  BY <2>4, <2>5, <2>6, <2>7 DEF l
<1> QED  BY <1>4, <1>5

\* Two parts that are drawn right, the first of them into the second, are so together.
LEMMA Joined ==
  ASSUME NEW a \in Seq(Lines), NEW b \in Seq(Lines), NEW Oa, NEW Ob,
         DrawnInto(a, Oa), DrawnInto(b, Ob),
         Len(a) > 0 => \A d \in 0 .. a[Len(a)].col : d \in Oa <=> Opens(b, 0, d, Ob)
  PROVE  a \o b \in Seq(Lines) /\ DrawnInto(a \o b, Ob)
<1> DEFINE l == a \o b
           A == Len(a)
           B == Len(b)
<1>1. /\ A \in Nat /\ B \in Nat /\ Len(l) = A + B /\ l \in Seq(Lines)
      /\ \A i \in 1 .. A : l[i] = a[i]
      /\ \A i \in 1 .. B : l[A + i] = b[i]
  BY TwoListings
<1>2. ASSUME NEW k \in 1 .. A
      PROVE  /\ l[k].last = ~Opens(l, k, l[k].col, Ob)
             /\ l[k].bars = {c \in 0 .. l[k].col - 1 : Opens(l, k, c, Ob)}
  <2>1. l[k] = a[k] /\ a[k].col \in Nat /\ A > 0  BY <1>1, LineIs
  <2>2. \A c \in 0 .. a[k].col : Opens(l, k, c, Ob) <=> Opens(a, k, c, Oa)
    BY <2>1, OpensEarlier
  <2> HIDE DEF l
  <2>3. a[k].last = ~Opens(a, k, a[k].col, Oa)  BY DEF DrawnInto
  <2>4. a[k].bars = {c \in 0 .. a[k].col - 1 : Opens(a, k, c, Oa)}  BY DEF DrawnInto
  <2>5. \A c \in 0 .. a[k].col - 1 : Opens(l, k, c, Ob) <=> Opens(a, k, c, Oa)  BY <2>1, <2>2
  <2>6. Opens(l, k, a[k].col, Ob) <=> Opens(a, k, a[k].col, Oa)  BY <2>1, <2>2
  <2>7. a[k].bars = {c \in 0 .. a[k].col - 1 : Opens(l, k, c, Ob)}  BY <2>4, <2>5
  <2>8. a[k].last = ~Opens(l, k, a[k].col, Ob)  BY <2>3, <2>6
  <2> QED  BY <2>1, <2>7, <2>8
<1>3. ASSUME NEW k \in 1 .. B
      PROVE  /\ l[A + k].last = ~Opens(l, A + k, l[A + k].col, Ob)
             /\ l[A + k].bars = {c \in 0 .. l[A + k].col - 1 : Opens(l, A + k, c, Ob)}
  <2>1. l[A + k] = b[k] /\ b[k].col \in Nat /\ k \in 0 .. B  BY <1>1, LineIs
  <2>2. \A c \in Nat : Opens(l, A + k, c, Ob) <=> Opens(b, k, c, Ob)  BY <2>1, OpensLater
  <2> HIDE DEF l
  <2>3. b[k].last = ~Opens(b, k, b[k].col, Ob)  BY DEF DrawnInto
  <2>4. b[k].bars = {c \in 0 .. b[k].col - 1 : Opens(b, k, c, Ob)}  BY DEF DrawnInto
  <2>5. Opens(l, A + k, b[k].col, Ob) <=> Opens(b, k, b[k].col, Ob)  BY <2>1, <2>2
  <2>6. \A c \in 0 .. b[k].col - 1 : Opens(l, A + k, c, Ob) <=> Opens(b, k, c, Ob)
    BY <2>1, <2>2
  <2>7. b[k].bars = {c \in 0 .. b[k].col - 1 : Opens(l, A + k, c, Ob)}  BY <2>4, <2>6
  <2>8. b[k].last = ~Opens(l, A + k, b[k].col, Ob)  BY <2>3, <2>5
  <2> QED  BY <2>1, <2>7, <2>8
<1> HIDE DEF l
<1>4. ASSUME NEW k \in 1 .. Len(l)
      PROVE  /\ l[k].last = ~Opens(l, k, l[k].col, Ob)
             /\ l[k].bars = {c \in 0 .. l[k].col - 1 : Opens(l, k, c, Ob)}
  <2>1. CASE k <= A
    <3>1. k \in 1 .. A  BY <2>1, <1>1
    <3> QED  BY <3>1, <1>2
  <2>2. CASE k > A
    <3>1. k - A \in 1 .. B /\ A + (k - A) = k  BY <2>2, <1>1
    <3> DEFINE i == k - A
    <3>2. i \in 1 .. B /\ A + i = k  BY <3>1
    <3> HIDE DEF i
    <3> QED  BY <3>2, <1>3
  <2> QED  BY <2>1, <2>2, <1>1
<1>5. DrawnInto(l, Ob)  BY <1>4 DEF DrawnInto
<1> QED  BY <1>1, <1>5 DEF l

\* What the first line of a part leaves open above it, when no line of it is
\* further left.
LEMMA OpensAbove ==
  ASSUME NEW b \in Seq(Lines), Len(b) > 0, \A i \in 1 .. Len(b) : b[i].col >= b[1].col,
         NEW O, NEW c \in Nat
  PROVE  /\ c > b[1].col => ~Opens(b, 0, c, O)
         /\ c = b[1].col => Opens(b, 0, c, O)
         /\ c < b[1].col => (Opens(b, 0, c, O) <=> c \in O)
<1>1. Len(b) \in Nat /\ 1 \in 1 .. Len(b) /\ \A i \in 1 .. Len(b) : b[i].col \in Nat
  BY LineIs
<1>2. ASSUME c > b[1].col PROVE ~Opens(b, 0, c, O)
  <2>1. ~(b[1].col > c) /\ b[1].col # c  BY <1>1, <1>2
  <2>2. ~R!Continues(b, 0, c)
    <3>1. SUFFICES ASSUME R!Continues(b, 0, c) PROVE FALSE  OBVIOUS
    <3>2. PICK j \in 1 .. Len(b) : b[j].col = c /\ \A m \in 1 .. j - 1 : b[m].col > c
      BY <3>1 DEF R!Continues
    <3>3. j # 1  BY <2>1, <3>2
    <3>4. 1 \in 1 .. j - 1  BY <3>2, <3>3
    <3> QED  BY <2>1, <3>2, <3>4
  <2> QED  BY <1>1, <2>1, <2>2 DEF Opens
<1>3. ASSUME c = b[1].col PROVE Opens(b, 0, c, O)
  <2>1. \A m \in 1 .. 1 - 1 : b[m].col > c  OBVIOUS
  <2>2. R!Continues(b, 0, c)  BY <1>1, <1>3, <2>1 DEF R!Continues
  <2> QED  BY <2>2 DEF Opens
<1>4. ASSUME c < b[1].col PROVE Opens(b, 0, c, O) <=> c \in O
  <2>1. \A i \in 1 .. Len(b) : b[i].col > c /\ b[i].col # c  BY <1>1, <1>4
  <2>2. ~R!Continues(b, 0, c)  BY <2>1 DEF R!Continues
  <2> QED  BY <2>1, <2>2 DEF Opens
<1> QED  BY <1>2, <1>3, <1>4

\* A heading and the lines that hang on it, with the columns of O open below.
Hung(col, O, amount) ==
  <<R!Line(col, {c \in O : c < col}, col \notin O)>>
    \o [p \in 1 .. amount |->
          R!Line(col + 1, {c \in O : c < col} \cup (IF col \notin O THEN {} ELSE {col}), p = amount)]

\* A block is drawn right, if its heading is, and has bars where columns to the
\* left are open below it.
LEMMA HungDrawn ==
  ASSUME NEW col \in Nat, NEW amount \in Nat, NEW O \in SUBSET Nat, col + 1 \notin O
  PROVE  LET h == Hung(col, O, amount) IN
         /\ h \in Seq(Lines) /\ Len(h) = amount + 1 /\ DrawnInto(h, O)
         /\ h[1].col = col
         /\ \A i \in 1 .. amount + 1 : h[i].col >= col
         /\ amount > 0 => h[amount + 1].col = col + 1
<1> DEFINE bars == {c \in O : c < col}
           below == bars \cup (IF col \notin O THEN {} ELSE {col})
           x == R!Line(col, bars, col \notin O)
           y(p) == R!Line(col + 1, below, p = amount)
           f == [p \in 1 .. amount |-> y(p)]
<1>1. bars \in SUBSET Nat /\ below \in SUBSET Nat  OBVIOUS
<1>2. below = {c \in O : c < col + 1}
  <2>1. \A c \in O : c < col + 1 <=> c < col \/ c = col  OBVIOUS
  <2> QED  BY <2>1
<1>b. Hung(col, O, amount) = <<x>> \o f  BY DEF Hung
<1> HIDE DEF bars, below
<1>3. x \in Lines /\ x.col = col /\ x.bars = bars /\ (x.last <=> col \notin O)
  BY <1>1 DEF R!Line, Lines
<1>4. \A p \in 1 .. amount : /\ y(p) \in Lines /\ y(p).col = col + 1 /\ y(p).bars = below
                             /\ p = amount <=> y(p).last
  <2> SUFFICES ASSUME NEW p \in 1 .. amount
               PROVE  /\ y(p) \in Lines /\ y(p).col = col + 1 /\ y(p).bars = below
                      /\ p = amount <=> y(p).last
    OBVIOUS
  <2> DEFINE final == p = amount
  <2>1. final \in BOOLEAN /\ y(p) = [col |-> col + 1, bars |-> below, last |-> final]
    BY DEF R!Line
  <2>2. final <=> p = amount  OBVIOUS
  <2> HIDE DEF final, y
  <2> QED  BY <1>1, <2>1, <2>2 DEF Lines
<1> HIDE DEF x, y
<1>5. f \in Seq(Lines) /\ Len(f) = amount  BY <1>4
<1>6. \A p \in 1 .. amount : f[p] = y(p)  OBVIOUS
<1> HIDE DEF f
<1> DEFINE xs == <<x>>
<1>7. xs \in Seq(Lines) /\ Len(xs) = 1 /\ xs[1] = x  BY <1>3
<1> HIDE DEF xs
<1> DEFINE b == xs \o f
<1>8. /\ b \in Seq(Lines) /\ Len(b) = Len(xs) + Len(f)
      /\ \A i \in 1 .. Len(xs) : b[i] = xs[i]
      /\ \A i \in 1 .. Len(f) : b[Len(xs) + i] = f[i]
  <2>1. xs \in Seq(Lines) /\ f \in Seq(Lines)  BY <1>5, <1>7
  <2> QED  BY ONLY <2>1, TwoListings
<1>9. b = Hung(col, O, amount)  BY <1>b DEF xs
<1> HIDE DEF b
<1>10. Len(b) = amount + 1 /\ b[1] = x  BY <1>5, <1>7, <1>8
<1>11. \A p \in 1 .. amount : b[p + 1] = y(p)
  <2>1. \A p \in 1 .. amount : b[1 + p] = y(p)  BY <1>5, <1>6, <1>7, <1>8
  <2> QED  BY <2>1
<1>12. \A p \in 1 .. amount : /\ b[p + 1].col = col + 1 /\ b[p + 1].bars = below
                              /\ p = amount <=> b[p + 1].last
  BY <1>4, <1>11
<1>13. b[1].col = col /\ b[1].bars = bars /\ (b[1].last <=> col \notin O)  BY <1>3, <1>10
<1>14. /\ b \in Seq(Lines) /\ Len(b) = amount + 1
       /\ b[1].col = col /\ b[1].bars = bars /\ (b[1].last <=> col \notin O)
       /\ \A p \in 1 .. amount : /\ b[p + 1].col = col + 1 /\ b[p + 1].bars = below
                                 /\ b[p + 1].last <=> p = amount
  BY <1>8, <1>10, <1>12, <1>13
<1>15. \A k \in 1 .. Len(b) : b[k].last \in BOOLEAN
  <2>1. \A l \in Lines : l.last \in BOOLEAN  BY DEF Lines
  <2> QED  BY <1>14, <2>1, LineIs
<1>16. \A i \in 2 .. amount + 1 : b[i].col = col + 1
  <2> SUFFICES ASSUME NEW i \in 2 .. amount + 1 PROVE b[i].col = col + 1  OBVIOUS
  <2> DEFINE p == i - 1
  <2>1. p \in 1 .. amount /\ p + 1 = i  OBVIOUS
  <2> HIDE DEF p
  <2> QED  BY <2>1, <1>14
<1>17. ASSUME NEW k \in 1 .. Len(b), NEW c \in 0 .. col PROVE Opens(b, k, c, O) <=> c \in O
  <2>1. \A m \in k + 1 .. Len(b) : b[m].col > c /\ b[m].col # c  BY <1>14, <1>16
  <2>2. ~R!Continues(b, k, c)  BY <2>1 DEF R!Continues
  <2> QED  BY <2>1, <2>2 DEF Opens
<1>18. ASSUME NEW p \in 1 .. amount PROVE Opens(b, p + 1, col + 1, O) <=> p # amount
  <2>1. CASE p = amount
    <3>1. ~R!Continues(b, p + 1, col + 1)  BY <1>14, <2>1 DEF R!Continues
    <3> QED  BY <2>1, <3>1 DEF Opens
  <2>2. CASE p # amount
    <3>1. p + 2 \in p + 1 + 1 .. Len(b) /\ b[p + 2].col = col + 1  BY <1>14, <1>16, <2>2
    <3>2. \A m \in p + 1 + 1 .. p + 2 - 1 : b[m].col > col + 1  OBVIOUS
    <3>3. R!Continues(b, p + 1, col + 1)  BY <3>1, <3>2 DEF R!Continues
    <3> QED  BY <2>2, <3>3 DEF Opens
  <2> QED  BY <2>1, <2>2
<1>19. ASSUME NEW k \in 1 .. Len(b)
      PROVE  /\ b[k].last = ~Opens(b, k, b[k].col, O)
             /\ b[k].bars = {c \in 0 .. b[k].col - 1 : Opens(b, k, c, O)}
  <2>1. CASE k = 1
    <3>1. Opens(b, 1, col, O) <=> col \in O  BY <1>14, <1>17
    <3>2. \A c \in 0 .. col - 1 : Opens(b, 1, c, O) <=> c \in O  BY <1>14, <1>17
    <3>3. bars = {c \in 0 .. col - 1 : Opens(b, 1, c, O)}
      <4>1. \A c \in O : c < col <=> c \in 0 .. col - 1  OBVIOUS
      <4> QED  BY <3>2, <4>1 DEF bars
    <3>4. b[1].last = ~Opens(b, 1, col, O)  BY <1>14, <1>15, <3>1
    <3> QED  BY <2>1, <1>14, <3>3, <3>4
  <2>2. CASE k # 1
    <3> DEFINE p == k - 1
    <3>1. p \in 1 .. amount /\ k = p + 1  BY <1>14, <2>2
    <3> HIDE DEF p
    <3>2. \A c \in 0 .. col : Opens(b, k, c, O) <=> c \in O  BY <1>17
    <3>3. below = {c \in 0 .. col + 1 - 1 : Opens(b, k, c, O)}
      <4>1. \A c \in O : c < col + 1 <=> c \in 0 .. col  OBVIOUS
      <4>2. 0 .. col + 1 - 1 = 0 .. col  OBVIOUS
      <4> QED  BY <1>2, <3>2, <4>1, <4>2
    <3>4. p = amount <=> ~Opens(b, k, col + 1, O)  BY <1>18, <3>1
    <3>5. b[k].col = col + 1 /\ b[k].bars = below /\ (p = amount <=> b[k].last)  BY <1>14, <3>1
    <3>6. b[k].last = ~Opens(b, k, b[k].col, O)  BY <1>15, <3>4, <3>5
    <3> QED  BY <3>3, <3>5, <3>6
  <2> QED  BY <2>1, <2>2
<1>20. \A i \in 1 .. amount + 1 : b[i].col >= col
  <2>1. \A i \in 1 .. amount + 1 : i = 1 \/ i \in 2 .. amount + 1  OBVIOUS
  <2> QED  BY <2>1, <1>14, <1>16
<1>21. amount > 0 => b[amount + 1].col = col + 1  BY <1>14, <1>16
<1>22. DrawnInto(b, O)  BY <1>19 DEF DrawnInto
<1> QED  BY <1>9, <1>14, <1>20, <1>21, <1>22

\* ltf_logs_info_print_keyword_rec goes on keyword by keyword.
LEMMA PrintSteps ==
  ASSUME NEW ks, Len(ks) \in Nat
  PROVE  \E after :
           /\ after[0] = [lines |-> << >>, more |-> << >>]
           /\ \A n \in 1 .. Len(ks) : after[n] = R!PrintNext(ks, n, after[n - 1])
           /\ R!PrintKeywords(ks) = after[Len(ks)].lines
<1> DEFINE none == [lines |-> << >>, more |-> << >>]
           Is(f, m) == f = [n \in 0 .. m |-> IF n = 0 THEN none ELSE R!PrintNext(ks, n, f[n - 1])]
           Good == {m \in 0 .. Len(ks) : \E f : Is(f, m)}
           h == CHOOSE f : Is(f, Len(ks))
<1>1. 0 \in Good
  <2>1. Is([n \in 0 .. 0 |-> none], 0)
    OBVIOUS
  <2>2. \E k : Is(k, 0)
    <3> HIDE DEF Is
    <3> QED BY <2>1
  <2> HIDE DEF Is
  <2> QED BY <2>2
<1>2. ASSUME NEW m \in 1 .. Len(ks), m - 1 \in Good PROVE m \in Good
  <2>1. PICK f : Is(f, m - 1)
    BY <1>2
  <2> DEFINE g == [n \in 0 .. m |-> IF n < m THEN f[n] ELSE R!PrintNext(ks, m, f[m - 1])]
  <2>2. \A n \in 0 .. m : g[n] = IF n = 0 THEN none ELSE R!PrintNext(ks, n, g[n - 1])
    BY <2>1
  <2>3. Is(g, m)
    BY <2>2
  <2> HIDE DEF Is, g
  <2>4. \E k : Is(k, m)
    BY <2>3
  <2> QED BY <2>4
<1>3. Len(ks) \in Good
  <2> HIDE DEF Good
  <2>1. 0 .. Len(ks) \subseteq Good
    BY <1>1, <1>2, UpTo
  <2> QED BY <2>1
<1>4. Is(h, Len(ks))
  BY <1>3
<1>5. R!PrintKeywords(ks) = h[Len(ks)].lines
  BY DEF R!PrintKeywords
<1>6. h[0] = none /\ \A n \in 1 .. Len(ks) : h[n] = R!PrintNext(ks, n, h[n - 1])
  <2> HIDE DEF h
  <2> QED BY <1>4
<1> HIDE DEF h
<1> QED BY <1>5, <1>6

\* A keyword follows on level m, below the same one as keyword n or one above it.
Sibling(ks, n, m) ==
  \E j \in n + 1 .. Len(ks) : ks[j].level = m /\ \A i \in n + 1 .. j - 1 : ks[i].level > m

\* The columns that are open below keyword n.
Below(ks, n) == {2 * m : m \in {i \in 0 .. ks[n].level : Sibling(ks, n, i)}}

Levelled(ks) ==
  /\ Len(ks) \in Nat
  /\ \A n \in 1 .. Len(ks) : /\ ks[n].level \in Nat
                             /\ n = 1 => ks[n].level = 0
                             /\ n > 1 => ks[n].level <= ks[n - 1].level + 1

\* Whether one follows is the same for two keywords in a row, but for the level
\* of the second, and those below.
LEMMA SiblingOfNext ==
  ASSUME NEW ks, Levelled(ks), NEW n \in 1 .. Len(ks), n < Len(ks), NEW m \in Nat
  PROVE  /\ m < ks[n + 1].level => (Sibling(ks, n, m) <=> Sibling(ks, n + 1, m))
         /\ m = ks[n + 1].level => Sibling(ks, n, m)
         /\ m > ks[n + 1].level => ~Sibling(ks, n, m)
<1>1. Len(ks) \in Nat /\ n + 1 \in n + 1 .. Len(ks) /\ n + 1 \in 1 .. Len(ks)  BY DEF Levelled
<1>2. \A i \in 1 .. Len(ks) : ks[i].level \in Nat  BY DEF Levelled
<1>3. ASSUME m < ks[n + 1].level PROVE Sibling(ks, n, m) <=> Sibling(ks, n + 1, m)
  <2>0. ks[n + 1].level # m /\ ks[n + 1].level > m  BY <1>1, <1>2, <1>3
  <2>1. ASSUME Sibling(ks, n, m) PROVE Sibling(ks, n + 1, m)
    <3>1. PICK j \in n + 1 .. Len(ks) :
            ks[j].level = m /\ \A i \in n + 1 .. j - 1 : ks[i].level > m
      BY <2>1 DEF Sibling
    <3>2. j # n + 1  BY <2>0, <3>1
    <3>3. j \in n + 1 + 1 .. Len(ks) /\ \A i \in n + 1 + 1 .. j - 1 : ks[i].level > m
      BY <1>1, <3>1, <3>2
    <3> QED  BY <3>1, <3>3 DEF Sibling
  <2>2. ASSUME Sibling(ks, n + 1, m) PROVE Sibling(ks, n, m)
    <3>1. PICK j \in n + 1 + 1 .. Len(ks) :
            ks[j].level = m /\ \A i \in n + 1 + 1 .. j - 1 : ks[i].level > m
      BY <2>2 DEF Sibling
    <3>2. \A i \in n + 1 .. j - 1 : i = n + 1 \/ i \in n + 1 + 1 .. j - 1  BY <3>1
    <3>3. \A i \in n + 1 .. j - 1 : ks[i].level > m  BY <2>0, <3>1, <3>2
    <3>4. j \in n + 1 .. Len(ks)  BY <1>1, <3>1
    <3> QED  BY <3>1, <3>3, <3>4 DEF Sibling
  <2> QED  BY <2>1, <2>2
<1>4. ASSUME m = ks[n + 1].level PROVE Sibling(ks, n, m)
  <2>1. \A i \in n + 1 .. (n + 1) - 1 : ks[i].level > m  OBVIOUS
  <2> QED  BY <1>1, <1>4, <2>1 DEF Sibling
<1>5. ASSUME m > ks[n + 1].level PROVE ~Sibling(ks, n, m)
  <2>0. ks[n + 1].level # m /\ ~(ks[n + 1].level > m)  BY <1>1, <1>2, <1>5
  <2>1. SUFFICES ASSUME Sibling(ks, n, m) PROVE FALSE  OBVIOUS
  <2>2. PICK j \in n + 1 .. Len(ks) :
          ks[j].level = m /\ \A i \in n + 1 .. j - 1 : ks[i].level > m
    BY <2>1 DEF Sibling
  <2>3. j # n + 1  BY <2>0, <2>2
  <2>4. n + 1 \in n + 1 .. j - 1  BY <2>2, <2>3
  <2> QED  BY <2>0, <2>2, <2>4
<1> QED  BY <1>3, <1>4, <1>5

\* Only even columns are open below a keyword: one for each level that goes on.
LEMMA BelowIs ==
  ASSUME NEW ks, Levelled(ks), NEW n \in 1 .. Len(ks)
  PROVE  /\ Below(ks, n) \in SUBSET Nat
         /\ \A m \in Nat : 2 * m + 1 \notin Below(ks, n)
         /\ \A m \in Nat : 2 * m \in Below(ks, n) <=> m <= ks[n].level /\ Sibling(ks, n, m)
<1>1. ks[n].level \in Nat  BY DEF Levelled
<1>2. \A m \in 0 .. ks[n].level : 2 * m \in Nat  BY <1>1
<1>3. \A m, i \in Nat : 2 * m + 1 # 2 * i /\ (2 * m = 2 * i => m = i)  OBVIOUS
<1>4. \A i \in 0 .. ks[n].level : i \in Nat  BY <1>1
<1>5. Below(ks, n) \in SUBSET Nat  BY <1>2 DEF Below
<1>6. \A m \in Nat : 2 * m + 1 \notin Below(ks, n)  BY <1>3, <1>4 DEF Below
<1>7. ASSUME NEW m \in Nat
      PROVE  2 * m \in Below(ks, n) <=> m <= ks[n].level /\ Sibling(ks, n, m)
  <2>1. ASSUME 2 * m \in Below(ks, n) PROVE m <= ks[n].level /\ Sibling(ks, n, m)
    <3>1. PICK i \in 0 .. ks[n].level : Sibling(ks, n, i) /\ 2 * m = 2 * i
      BY <2>1 DEF Below
    <3>2. i = m  BY <1>3, <1>4, <3>1
    <3> QED  BY <1>1, <3>1, <3>2
  <2>2. ASSUME m <= ks[n].level, Sibling(ks, n, m) PROVE 2 * m \in Below(ks, n)
    <3>1. m \in 0 .. ks[n].level  BY <1>1, <2>2
    <3> QED  BY <2>2, <3>1 DEF Below
  <2> QED  BY <2>1, <2>2
<1> QED  BY <1>5, <1>6, <1>7

\* The flags of keyword n say for each level down to its own whether it goes on.
Flags(ks, n, more) ==
  /\ Len(more) \in Nat /\ DOMAIN more = 1 .. Len(more) /\ Len(more) > ks[n].level
  /\ \A m \in 0 .. ks[n].level : more[m + 1] <=> Sibling(ks, n, m)

LEMMA PrintNextIs ==
  ASSUME NEW ks, Levelled(ks), NEW n \in 1 .. Len(ks), NEW before,
         n = 1 => before.more = << >>, n > 1 => Flags(ks, n - 1, before.more)
  PROVE  /\ Flags(ks, n, R!PrintNext(ks, n, before).more)
         /\ \E amount \in Nat \ {0} :
              R!PrintNext(ks, n, before).lines =
                before.lines \o Hung(2 * ks[n].level, Below(ks, n), amount)
<1> DEFINE level == ks[n].level
           more  == before.more
           N     == IF Len(more) > level THEN Len(more) ELSE level + 1
           next  == [i \in 1 .. N |-> IF i = level + 1 THEN ~(~R!HasNext(ks, n))
                                      ELSE IF i <= Len(more) THEN more[i] ELSE FALSE]
           props == 2 + (IF ks[n].keyword.finished # R!Null THEN 1 ELSE 0)
                      + (IF R!HasChildren(ks, n) THEN 1 ELSE 0)
           after == R!PrintNext(ks, n, before)
<1>1. level \in Nat /\ Len(more) \in Nat /\ level <= Len(more)
  <2>1. CASE n = 1
    <3>1. more = << >> /\ Len(more) = 0  BY <2>1
    <3>2. level = 0  BY <2>1 DEF Levelled
    <3> QED  BY <3>1, <3>2
  <2>2. CASE n > 1
    <3>1. level \in Nat /\ level <= ks[n - 1].level + 1  BY <2>2 DEF Levelled
    <3>2. Len(more) \in Nat /\ Len(more) > ks[n - 1].level  BY <2>2 DEF Flags
    <3>3. ks[n - 1].level \in Nat
      <4>1. n - 1 \in 1 .. Len(ks)  BY <2>2 DEF Levelled
      <4> QED  BY <4>1 DEF Levelled
    <3> QED  BY <3>1, <3>2, <3>3
  <2> QED  BY <2>1, <2>2
<1>2. props \in Nat \ {0}  OBVIOUS
<1>3. after.more = next  BY DEF R!PrintNext, R!SetMore
<1>4. /\ N \in Nat /\ N > level /\ Len(next) = N /\ DOMAIN next = 1 .. N  BY <1>1
<1>5. R!HasNext(ks, n) <=> Sibling(ks, n, level)  BY DEF R!HasNext, Sibling
<1>6. ASSUME NEW m \in 0 .. level PROVE next[m + 1] <=> Sibling(ks, n, m)
  <2>1. m + 1 \in 1 .. N  BY <1>1, <1>4
  <2>2. CASE m = level
    <3>1. next[m + 1] <=> R!HasNext(ks, n)  BY <2>1, <2>2
    <3> QED  BY <3>1, <1>5, <2>2
  <2>3. CASE m < level
    <3>1. n > 1  BY <1>1, <2>3 DEF Levelled
    <3>2. m + 1 <= Len(more) /\ m + 1 # level + 1  BY <1>1, <2>3
    <3>3. next[m + 1] = more[m + 1]  BY <2>1, <3>2
    <3>4. n - 1 \in 1 .. Len(ks) /\ n - 1 < Len(ks) /\ (n - 1) + 1 = n  BY <3>1 DEF Levelled
    <3>5. m \in 0 .. ks[n - 1].level
      <4>1. level <= ks[n - 1].level + 1 /\ ks[n - 1].level \in Nat  BY <3>1, <3>4 DEF Levelled
      <4> QED  BY <4>1, <1>1, <2>3
    <3>6. more[m + 1] <=> Sibling(ks, n - 1, m)  BY <3>1, <3>5 DEF Flags
    <3>7. Sibling(ks, n - 1, m) <=> Sibling(ks, n, m)
      <4> DEFINE p == n - 1
      <4>1. p \in 1 .. Len(ks) /\ p < Len(ks) /\ p + 1 = n /\ m \in Nat  BY <3>4, <1>1
      <4>2. m < ks[p + 1].level  BY <4>1, <2>3
      <4> HIDE DEF p
      <4>3. Sibling(ks, p, m) <=> Sibling(ks, p + 1, m)  BY <4>1, <4>2, SiblingOfNext
      <4> QED  BY <4>1, <4>3 DEF p
    <3> QED  BY <3>3, <3>6, <3>7
  <2> QED  BY <2>2, <2>3, <1>1
<1>7. Flags(ks, n, after.more)
  <2> HIDE DEF after, next, N
  <2> QED  BY <1>3, <1>4, <1>6 DEF Flags
<1>8. R!Prefix(next, level) = {c \in Below(ks, n) : c < 2 * level}
  <2> HIDE DEF next, N
  <2>1. \A q \in 1 .. level : next[q] <=> Sibling(ks, n, q - 1)
    <3> SUFFICES ASSUME NEW q \in 1 .. level PROVE next[q] <=> Sibling(ks, n, q - 1)  OBVIOUS
    <3> DEFINE m == q - 1
    <3>1. m \in 0 .. level /\ m + 1 = q  BY <1>1
    <3> HIDE DEF m
    <3>2. next[m + 1] <=> Sibling(ks, n, m)  BY <3>1, <1>6
    <3> QED  BY <3>1, <3>2 DEF m
  <2>2. \A m \in Nat : 2 * m \in Below(ks, n) <=> m <= level /\ Sibling(ks, n, m)
    BY BelowIs
  <2>3. ASSUME NEW c \in R!Prefix(next, level) PROVE c \in Below(ks, n) /\ c < 2 * level
    <3>1. PICK q \in 1 .. level : next[q] /\ c = 2 * (q - 1)  BY DEF R!Prefix
    <3>2. q - 1 \in Nat /\ q - 1 <= level /\ Sibling(ks, n, q - 1)  BY <1>1, <2>1, <3>1
    <3>3. 2 * (q - 1) \in Below(ks, n)  BY <2>2, <3>2
    <3> QED  BY <3>1, <3>3, <1>1
  <2>4. ASSUME NEW c \in Below(ks, n), c < 2 * level PROVE c \in R!Prefix(next, level)
    <3>1. PICK m \in 0 .. level : c = 2 * m /\ Sibling(ks, n, m)  BY DEF Below
    <3>2. m + 1 \in 1 .. level /\ (m + 1) - 1 = m  BY <1>1, <2>4, <3>1
    <3>3. next[m + 1]  BY <1>6, <3>1
    <3>4. c = 2 * ((m + 1) - 1)  BY <3>1, <3>2
    <3> QED  BY <3>2, <3>3, <3>4 DEF R!Prefix
  <2> QED  BY <2>3, <2>4
<1>9. 2 * level \notin Below(ks, n) <=> ~R!HasNext(ks, n)
  <2>1. 2 * level \in Below(ks, n) <=> level <= level /\ Sibling(ks, n, level)
    BY <1>1, BelowIs
  <2> QED  BY <2>1, <1>1, <1>5
<1>10. after.lines = before.lines \o Hung(2 * level, Below(ks, n), props)
  <2> DEFINE last_one == ~R!HasNext(ks, n)
             keyword  ==
               <<R!Line(2 * level, R!Prefix(next, level), last_one)>>
                 \o [p \in 1 .. props |->
                       R!Line(2 * level + 1,
                              R!Prefix(next, level) \cup (IF last_one THEN {} ELSE {2 * level}),
                              p = props)]
  <2>1. after.lines = before.lines \o keyword
    BY DEF R!PrintNext, R!SetMore, R!PrintKeyword
  <2>2. keyword =
          <<R!Line(2 * level, R!Prefix(next, level), last_one)>>
            \o [p \in 1 .. props |->
                  R!Line(2 * level + 1,
                         R!Prefix(next, level) \cup (IF last_one THEN {} ELSE {2 * level}),
                         p = props)]
    OBVIOUS
  <2> HIDE DEF after, keyword, next, N
  <2> DEFINE O == Below(ks, n)
             over == 2 * level \notin O
  <2>3. over = last_one  BY <1>9
  <2>4. keyword = <<R!Line(2 * level, {c \in O : c < 2 * level}, over)>>
          \o [p \in 1 .. props |->
                R!Line(2 * level + 1,
                       {c \in O : c < 2 * level} \cup (IF over THEN {} ELSE {2 * level}),
                       p = props)]
    BY <1>8, <2>2, <2>3
  <2>5. keyword = Hung(2 * level, O, props)  BY <2>4 DEF Hung
  <2> QED  BY <2>1, <2>5
<1> HIDE DEF after, props
<1>11. \E amount \in Nat \ {0} : after.lines = before.lines \o Hung(2 * level, Below(ks, n), amount)
  BY <1>2, <1>10
<1> QED  BY <1>7, <1>11 DEF after

\* What is printed of the first n keywords.
Printed(ks, n, w) ==
  IF n = 0 THEN w.lines = << >> /\ w.more = << >>
  ELSE /\ w.lines \in Seq(Lines) /\ Len(w.lines) > 0 /\ w.lines[1].col = 0
       /\ w.lines[Len(w.lines)].col = 2 * ks[n].level + 1
       /\ DrawnInto(w.lines, Below(ks, n))
       /\ Flags(ks, n, w.more)

LEMMA PrintedStep ==
  ASSUME NEW ks, Levelled(ks), NEW n \in 1 .. Len(ks), NEW before, Printed(ks, n - 1, before)
  PROVE  Printed(ks, n, R!PrintNext(ks, n, before))
<1> DEFINE after == R!PrintNext(ks, n, before)
           L == ks[n].level
           O == Below(ks, n)
           a == before.lines
           prev == n - 1
<1>0. n \in Nat /\ n # 0 /\ Len(ks) \in Nat /\ L \in Nat  BY DEF Levelled
<1>1. n = 1 => before.more = << >> /\ a = << >>  BY <1>0 DEF Printed
<1>2. n > 1 => Flags(ks, n - 1, before.more)  BY <1>0 DEF Printed
<1>3. PICK amount \in Nat \ {0} : after.lines = a \o Hung(2 * L, O, amount)
  BY <1>1, <1>2, PrintNextIs
<1>4. Flags(ks, n, after.more)  BY <1>1, <1>2, PrintNextIs
<1> DEFINE col == 2 * L
           b == Hung(col, O, amount)
<1>5. O \in SUBSET Nat /\ col \in Nat /\ col + 1 \notin O
  <2>1. O \in SUBSET Nat  BY BelowIs
  <2>2. \A m \in Nat : 2 * m + 1 \notin O  BY BelowIs
  <2> HIDE DEF O
  <2> QED  BY <1>0, <2>1, <2>2
<1>6. /\ b \in Seq(Lines) /\ Len(b) = amount + 1 /\ DrawnInto(b, O)
      /\ b[1].col = col
      /\ \A i \in 1 .. amount + 1 : b[i].col >= col
      /\ b[amount + 1].col = col + 1
  <2>1. amount \in Nat /\ amount > 0  OBVIOUS
  <2> HIDE DEF O, col
  <2> QED  BY ONLY <1>5, <2>1, HungDrawn
<1>7. after.lines = a \o b  BY <1>3
<1> HIDE DEF b, after, O
<1>8. n > 1 => /\ a \in Seq(Lines) /\ Len(a) > 0 /\ a[1].col = 0
               /\ a[Len(a)].col = 2 * ks[prev].level + 1
               /\ DrawnInto(a, Below(ks, prev))
  BY <1>0 DEF Printed
<1>9. a \in Seq(Lines) /\ Len(a) \in Nat
  <2>1. CASE n = 1
    <3>1. a = << >>  BY <2>1, <1>1
    <3> HIDE DEF a
    <3>2. << >> \in Seq(Lines) /\ Len(<< >>) = 0  OBVIOUS
    <3> QED  BY <3>1, <3>2
  <2>2. CASE n > 1
    <3>1. a \in Seq(Lines)  BY <2>2, <1>8
    <3> QED  BY <3>1
  <2> QED  BY <2>1, <2>2, <1>0
<1> HIDE DEF a
<1>10. a \o b \in Seq(Lines) /\ DrawnInto(a \o b, O)
  <2>1. CASE n = 1
    <3>1. a = << >> /\ Len(a) = 0  BY <2>1, <1>1
    <3>2. DrawnInto(a, {})  BY <3>1 DEF DrawnInto
    <3> QED  BY <3>1, <3>2, <1>6, <1>9, Joined
  <2>2. CASE n > 1
    <3>1. prev \in 1 .. Len(ks) /\ prev < Len(ks) /\ prev + 1 = n  BY <2>2, <1>0
    <3>2. ks[prev].level \in Nat  BY <3>1 DEF Levelled
    <3> HIDE DEF prev
    <3>3. \A d \in Nat : /\ d > col => ~Opens(b, 0, d, O)
                         /\ d = col => Opens(b, 0, d, O)
                         /\ d < col => (Opens(b, 0, d, O) <=> d \in O)
      <4>1. Len(b) > 0 /\ \A i \in 1 .. Len(b) : b[i].col >= b[1].col  BY <1>6
      <4>2. b \in Seq(Lines) /\ b[1].col = col  BY <1>6
      <4> QED  BY <4>1, <4>2, OpensAbove
    <3>4. ASSUME NEW d \in 0 .. 2 * ks[prev].level + 1
          PROVE  d \in Below(ks, prev) <=> Opens(b, 0, d, O)
      <4>1. PICK m \in Nat : d = 2 * m \/ d = 2 * m + 1
        <5>1. d \in Nat  BY <3>2
        <5>2. d \div 2 \in Nat /\ (d = 2 * (d \div 2) \/ d = 2 * (d \div 2) + 1)  BY <5>1
        <5> QED  BY <5>2
      <4>2. CASE d = 2 * m
        <5>1. m <= ks[prev].level  BY <3>2, <4>2
        <5>2. d \in Below(ks, prev) <=> Sibling(ks, prev, m)  BY <3>1, <4>2, <5>1, BelowIs
        <5>3. /\ m < L => (Sibling(ks, prev, m) <=> Sibling(ks, n, m))
              /\ m = L => Sibling(ks, prev, m)
              /\ m > L => ~Sibling(ks, prev, m)
          <6>1. /\ m < ks[prev + 1].level => (Sibling(ks, prev, m) <=> Sibling(ks, prev + 1, m))
                /\ m = ks[prev + 1].level => Sibling(ks, prev, m)
                /\ m > ks[prev + 1].level => ~Sibling(ks, prev, m)
            BY <3>1, SiblingOfNext
          <6> QED  BY <6>1, <3>1
        <5>4. CASE m < L
          <6>1. d < col /\ d \in Nat  BY <5>4, <4>2, <1>0
          <6>2. d \in O <=> Sibling(ks, n, m)
            <7>1. 2 * m \in Below(ks, n) <=> m <= ks[n].level /\ Sibling(ks, n, m)  BY BelowIs
            <7>2. m <= ks[n].level  BY <5>4, <1>0
            <7> QED  BY <7>1, <7>2, <4>2 DEF O
          <6> QED  BY <6>1, <6>2, <5>2, <5>3, <5>4, <3>3
        <5>5. CASE m = L
          <6>1. d = col /\ d \in Nat  BY <5>5, <4>2, <1>0
          <6> QED  BY <6>1, <5>2, <5>3, <5>5, <3>3
        <5>6. CASE m > L
          <6>1. d > col /\ d \in Nat  BY <5>6, <4>2, <1>0
          <6> QED  BY <6>1, <5>2, <5>3, <5>6, <3>3
        <5> QED  BY <5>4, <5>5, <5>6, <1>0
      <4>3. CASE d = 2 * m + 1
        <5>1. d \notin Below(ks, prev) /\ d \notin O  BY <3>1, <4>3, BelowIs DEF O
        <5>2. d \in Nat /\ (d < col \/ d > col)  BY <4>3, <1>0
        <5> QED  BY <5>1, <5>2, <3>3
      <4> QED  BY <4>1, <4>2, <4>3
    <3>5. /\ DrawnInto(a, Below(ks, prev))
          /\ \A d \in 0 .. a[Len(a)].col : d \in Below(ks, prev) <=> Opens(b, 0, d, O)
      BY <2>2, <1>8, <3>4
    <3> QED  BY <3>5, <1>6, <1>9, Joined
  <2> QED  BY <2>1, <2>2, <1>0
<1>11. /\ Len(a \o b) = Len(a) + amount + 1
       /\ \A i \in 1 .. Len(a) : (a \o b)[i] = a[i]
       /\ \A i \in 1 .. amount + 1 : (a \o b)[Len(a) + i] = b[i]
  <2>0. a \in Seq(Lines) /\ b \in Seq(Lines)  BY <1>6, <1>9
  <2>1. /\ Len(a \o b) = Len(a) + Len(b)
        /\ \A i \in 1 .. Len(a) : (a \o b)[i] = a[i]
        /\ \A i \in 1 .. Len(b) : (a \o b)[Len(a) + i] = b[i]
    BY ONLY <2>0, TwoListings
  <2> QED  BY <2>1, <1>6, <1>9
<1> DEFINE ab == a \o b
<1>ab. /\ Len(ab) = Len(a) + amount + 1
       /\ \A i \in 1 .. Len(a) : ab[i] = a[i]
       /\ \A i \in 1 .. amount + 1 : ab[Len(a) + i] = b[i]
       /\ ab \in Seq(Lines) /\ DrawnInto(ab, O) /\ after.lines = ab
  BY <1>7, <1>10, <1>11
<1> HIDE DEF ab
<1>12. ab[1].col = 0
  <2>1. CASE n = 1
    <3>1. Len(a) = 0  BY <2>1, <1>1
    <3>2. L = 0  BY <2>1 DEF Levelled
    <3>3. ab[0 + 1] = b[1]  BY <1>ab, <3>1
    <3>4. b[1].col = 0  BY <1>6, <3>2
    <3> QED  BY <3>3, <3>4
  <2>2. CASE n > 1
    <3>1. 1 \in 1 .. Len(a)  BY <2>2, <1>8, <1>9
    <3> QED  BY <3>1, <1>8, <1>ab, <2>2
  <2> QED  BY <2>1, <2>2, <1>0
<1>13. ab[Len(ab)].col = col + 1
  <2>1. ab[Len(a) + (amount + 1)] = b[amount + 1]  BY <1>ab
  <2>2. Len(ab) = Len(a) + (amount + 1)  BY <1>9, <1>ab
  <2> QED  BY <2>1, <2>2, <1>6
<1>14. Len(ab) > 0  BY <1>9, <1>ab
<1> QED  BY <1>0, <1>4, <1>12, <1>13, <1>14, <1>ab DEF Printed, after, O

\* The keywords of a test are drawn right, and nothing goes on below them.
LEMMA KeywordsDrawn ==
  ASSUME NEW ks, Levelled(ks), Len(ks) > 0
  PROVE  LET l == R!PrintKeywords(ks) IN
         l \in Seq(Lines) /\ Len(l) > 0 /\ l[1].col = 0 /\ DrawnInto(l, {})
<1> DEFINE N == Len(ks)
<1>0. N \in Nat /\ N \in 1 .. N /\ N # 0  BY DEF Levelled
<1>1. PICK after : /\ after[0] = [lines |-> << >>, more |-> << >>]
                   /\ \A n \in 1 .. N : after[n] = R!PrintNext(ks, n, after[n - 1])
                   /\ R!PrintKeywords(ks) = after[N].lines
  BY <1>0, PrintSteps
<1> DEFINE P == {n \in 0 .. N : Printed(ks, n, after[n])}
<1>2. 0 \in P  BY <1>0, <1>1 DEF Printed
<1>3. ASSUME NEW n \in 1 .. N, n - 1 \in P PROVE n \in P
  <2>1. Printed(ks, n - 1, after[n - 1])  BY <1>3
  <2>2. Printed(ks, n, R!PrintNext(ks, n, after[n - 1]))  BY <2>1, PrintedStep
  <2> QED  BY <2>2, <1>1
<1>4. N \in P
  <2> HIDE DEF P
  <2>1. 0 .. N \subseteq P  BY <1>0, <1>2, <1>3, UpTo
  <2> QED  BY <1>0, <2>1
<1>5. /\ after[N].lines \in Seq(Lines) /\ Len(after[N].lines) > 0 /\ after[N].lines[1].col = 0
      /\ DrawnInto(after[N].lines, Below(ks, N))
  BY <1>0, <1>4 DEF Printed
<1>6. Below(ks, N) = {}
  <2>1. \A m : ~Sibling(ks, N, m)  BY <1>0 DEF Sibling
  <2> QED  BY <2>1 DEF Below
<1> HIDE DEF N
<1> QED  BY <1>1, <1>5, <1>6

\* A part of what is printed of a test, with the columns of O open below it.
Root(lines, O) ==
  lines \in Seq(Lines) /\ (Len(lines) > 0 => lines[1].col = 0) /\ DrawnInto(lines, O)

LEMMA NothingIsRoot == ASSUME NEW O PROVE Root(<< >>, O) /\ Len(<< >>) = 0
<1>1. << >> \in Seq(Lines) /\ Len(<< >>) = 0  OBVIOUS
<1> QED  BY <1>1 DEF Root, DrawnInto

\* A part leaves column 0 open, if anything follows.
LEMMA RootJoined ==
  ASSUME NEW a, NEW b, NEW Oa \in {{}, {0}}, NEW Ob \in {{}, {0}}, Root(a, Oa), Root(b, Ob),
         Len(a) > 0 => (0 \in Oa <=> Len(b) > 0 \/ 0 \in Ob)
  PROVE  Root(a \o b, Ob) /\ Len(a \o b) = Len(a) + Len(b)
<1>1. a \in Seq(Lines) /\ b \in Seq(Lines) /\ Len(a) \in Nat /\ Len(b) \in Nat
  BY DEF Root
<1>2. ASSUME Len(a) > 0, NEW d \in 0 .. a[Len(a)].col PROVE d \in Oa <=> Opens(b, 0, d, Ob)
  <2>0. d \in Nat
    <3>1. a[Len(a)].col \in Nat  BY <1>1, <1>2, LineIs
    <3> QED  BY <3>1
  <2>1. CASE Len(b) = 0
    <3>1. ~R!Continues(b, 0, d)  BY <2>1 DEF R!Continues
    <3>2. Opens(b, 0, d, Ob) <=> d \in Ob  BY <2>1, <3>1 DEF Opens
    <3>3. 0 \in Oa <=> 0 \in Ob  BY <1>2, <2>1
    <3>4. Oa = Ob  BY <3>3
    <3> QED  BY <3>2, <3>4
  <2>2. CASE Len(b) > 0
    <3>1. b[1].col = 0  BY <2>2 DEF Root
    <3>2. \A i \in 1 .. Len(b) : b[i].col >= b[1].col
      <4>1. \A i \in 1 .. Len(b) : b[i].col \in Nat  BY <1>1, LineIs
      <4> QED  BY <3>1, <4>1
    <3>3. d > 0 => ~Opens(b, 0, d, Ob)  BY <1>1, <2>0, <2>2, <3>1, <3>2, OpensAbove
    <3>4. d = 0 => Opens(b, 0, d, Ob)  BY <1>1, <2>0, <2>2, <3>1, <3>2, OpensAbove
    <3>5. 0 \in Oa  BY <1>2, <2>2
    <3> QED  BY <2>0, <3>3, <3>4, <3>5
  <2> QED  BY <2>1, <2>2, <1>1
<1>3. a \o b \in Seq(Lines) /\ DrawnInto(a \o b, Ob)
  <2>1. DrawnInto(a, Oa) /\ DrawnInto(b, Ob)  BY DEF Root
  <2> QED  BY <1>1, <1>2, <2>1, Joined
<1>4. /\ Len(a \o b) = Len(a) + Len(b)
      /\ \A i \in 1 .. Len(a) : (a \o b)[i] = a[i]
      /\ \A i \in 1 .. Len(b) : (a \o b)[Len(a) + i] = b[i]
  BY ONLY <1>1, TwoListings
<1> DEFINE ab == a \o b
<1>5. /\ Len(ab) = Len(a) + Len(b)
      /\ \A i \in 1 .. Len(a) : ab[i] = a[i]
      /\ \A i \in 1 .. Len(b) : ab[Len(a) + i] = b[i]
  BY <1>4
<1> HIDE DEF ab
<1>6. ASSUME Len(ab) > 0 PROVE ab[1].col = 0
  <2>1. CASE Len(a) = 0
    <3>1. 1 \in 1 .. Len(b)  BY <1>1, <1>5, <1>6, <2>1
    <3>2. ab[0 + 1] = b[1]  BY <1>5, <2>1, <3>1
    <3>3. b[1].col = 0  BY <1>1, <3>1 DEF Root
    <3> QED  BY <3>2, <3>3
  <2>2. CASE Len(a) > 0
    <3>1. ab[1] = a[1]  BY <1>1, <1>5, <2>2
    <3>2. a[1].col = 0  BY <2>2 DEF Root
    <3> QED  BY <3>1, <3>2
  <2> QED  BY <2>1, <2>2, <1>1
<1> QED  BY <1>3, <1>5, <1>6 DEF Root, ab

LEMMA HungIsRoot ==
  ASSUME NEW O \in {{}, {0}}, NEW amount \in Nat
  PROVE  Root(Hung(0, O, amount), O) /\ Len(Hung(0, O, amount)) = amount + 1
<1> DEFINE h == Hung(0, O, amount)
<1>1. O \in SUBSET Nat /\ 0 + 1 \notin O /\ 0 \in Nat  OBVIOUS
<1>2. h \in Seq(Lines) /\ Len(h) = amount + 1 /\ DrawnInto(h, O) /\ h[1].col = 0
  BY <1>1, HungDrawn
<1> HIDE DEF h
<1>3. Root(h, O) /\ Len(h) = amount + 1  BY <1>2 DEF Root
<1> QED  BY <1>3 DEF h

\* The outputs of a kind: the branch goes on, if anything of the test follows.
LEMMA OutputsAreRoot ==
  ASSUME NEW os, R!IsArray(os), NEW has_next \in BOOLEAN, NEW O \in {{}, {0}}, has_next <=> 0 \in O
  PROVE  LET l == R!PrintOutputs(os, has_next) IN
         Root(l, O) /\ Len(l) \in Nat /\ (Len(l) > 0 <=> os # << >>)
<1>1. Len(os) \in Nat /\ DOMAIN os = 1 .. Len(os)  BY ArrayIs
<1>2. CASE os = << >>
  <2>1. R!PrintOutputs(os, has_next) = << >>  BY <1>2 DEF R!PrintOutputs
  <2> QED  BY <1>2, <2>1, NothingIsRoot
<1>3. CASE os # << >>
  <2> DEFINE l == R!PrintOutputs(os, has_next)
             h == Hung(0, O, Len(os))
  <2>1. l = <<R!Line(0, {}, ~has_next)>> \o
              [i \in 1 .. Len(os) |-> R!Line(1, IF has_next THEN {0} ELSE {}, i = Len(os))]
    BY <1>1, <1>3 DEF R!PrintOutputs
  <2>2. {c \in O : c < 0} = {} /\ 0 + 1 = 1  OBVIOUS
  <2>3. (0 \notin O) = (~has_next)  OBVIOUS
  <2>4. {c \in O : c < 0} \cup (IF 0 \notin O THEN {} ELSE {0}) = (IF has_next THEN {0} ELSE {})
    BY <2>2
  <2>5. h = <<R!Line(0, {}, ~has_next)>> \o
              [i \in 1 .. Len(os) |-> R!Line(1, IF has_next THEN {0} ELSE {}, i = Len(os))]
    BY <2>2, <2>3, <2>4 DEF Hung
  <2>6. l = h  BY <2>1, <2>5
  <2>7. Root(h, O) /\ Len(h) = Len(os) + 1  BY <1>1, HungIsRoot
  <2> HIDE DEF l, h
  <2>8. Len(l) \in Nat /\ Len(l) > 0  BY <1>1, <2>6, <2>7
  <2> QED  BY <1>3, <2>6, <2>7, <2>8 DEF l
<1> QED  BY <1>2, <1>3

\* So are the three lines that every test has,
LEMMA TimesAreRoot ==
  ASSUME NEW more \in BOOLEAN, NEW O \in {{}, {0}}, more <=> 0 \in O
  PROVE  LET l == <<R!Line(0, {}, FALSE), R!Line(0, {}, FALSE), R!Line(0, {}, ~more)>> IN
         Root(l, O) /\ Len(l) = 3
<1> DEFINE x == R!Line(0, {}, FALSE)
           y == R!Line(0, {}, ~more)
           l == <<x, x, y>>
<1>1. /\ x \in Lines /\ x.col = 0 /\ x.bars = {} /\ x.last = FALSE
      /\ y \in Lines /\ y.col = 0 /\ y.bars = {} /\ y.last = (~more)
  BY DEF R!Line, Lines
<1> HIDE DEF x, y
<1>2. l \in Seq(Lines) /\ Len(l) = 3 /\ l[1] = x /\ l[2] = x /\ l[3] = y  BY <1>1
<1>l. l = <<x, x, y>>  OBVIOUS
<1> HIDE DEF l
<1>3. \A i \in 1 .. 3 : l[i].col = 0 /\ l[i].bars = {}
  <2>1. \A i \in 1 .. 3 : i = 1 \/ i = 2 \/ i = 3  OBVIOUS
  <2> QED  BY <2>1, <1>1, <1>2
<1>4. ASSUME NEW k \in 1 .. 3
      PROVE  /\ l[k].last = ~Opens(l, k, l[k].col, O)
             /\ l[k].bars = {c \in 0 .. l[k].col - 1 : Opens(l, k, c, O)}
  <2>1. l[k].col = 0 /\ l[k].bars = {}  BY <1>3
  <2>2. {c \in 0 .. 0 - 1 : Opens(l, k, c, O)} = {}
    <3>1. 0 .. 0 - 1 = {}  OBVIOUS
    <3> QED  BY <3>1
  <2>3. l[k].last = ~Opens(l, k, 0, O)
    <3>1. CASE k = 3
      <4>1. ~R!Continues(l, 3, 0)  BY <1>2 DEF R!Continues
      <4>2. Opens(l, 3, 0, O) <=> 0 \in O  BY <1>2, <4>1 DEF Opens
      <4>3. l[3].last = (~more)  BY <1>1, <1>2
      <4> QED  BY <3>1, <4>2, <4>3
    <3>2. CASE k # 3
      <4>1. k + 1 \in k + 1 .. 3 /\ l[k + 1].col = 0  BY <1>3, <3>2
      <4>2. \A m \in k + 1 .. (k + 1) - 1 : l[m].col > 0  OBVIOUS
      <4>3. R!Continues(l, k, 0)  BY <1>2, <4>1, <4>2 DEF R!Continues
      <4>4. l[k].last = FALSE  BY <1>1, <1>2, <3>2
      <4> QED  BY <4>3, <4>4 DEF Opens
    <3> QED  BY <3>1, <3>2
  <2> QED  BY <2>1, <2>2, <2>3
<1>5. DrawnInto(l, O)  BY <1>2, <1>4 DEF DrawnInto
<1>6. Root(l, O)  BY <1>1, <1>2, <1>5 DEF Root
<1> QED  BY <1>2, <1>6, <1>l DEF x, y

\* and the tags, below which the times follow.
LEMMA TagsAreRoot ==
  ASSUME NEW tags, R!IsArray(tags)
  PROVE  Root(IF tags = << >> THEN << >>
              ELSE <<R!Line(0, {}, FALSE)>> \o [i \in DOMAIN tags |-> R!Line(1, {0}, i = Len(tags))],
              {0})
<1>1. Len(tags) \in Nat /\ DOMAIN tags = 1 .. Len(tags)  BY ArrayIs
<1>2. CASE tags = << >>  BY <1>2, NothingIsRoot
<1>3. CASE tags # << >>
  <2> DEFINE h == Hung(0, {0}, Len(tags))
             l == <<R!Line(0, {}, FALSE)>> \o [i \in 1 .. Len(tags) |-> R!Line(1, {0}, i = Len(tags))]
  <2>1. {c \in {0} : c < 0} = {} /\ 0 + 1 = 1 /\ (0 \notin {0}) = FALSE  OBVIOUS
  <2>2. {c \in {0} : c < 0} \cup (IF 0 \notin {0} THEN {} ELSE {0}) = {0}  BY <2>1
  <2>3. h = l  BY <2>1, <2>2 DEF Hung
  <2>4. Root(h, {0})  BY <1>1, HungIsRoot
  <2> HIDE DEF h
  <2>5. Root(l, {0})  BY <2>3, <2>4
  <2> QED  BY <1>1, <1>3, <2>5
<1> QED  BY <1>2, <1>3

\* What logs info prints of a test is drawn right, but below the outputs of a
\* teardown without errors, after which keywords come.
LEMMA TestDrawn ==
  ASSUME NEW t, R!IsArray(t.tags),
         R!IsArray(t.failure_reasons), R!IsArray(t.outputs),
         R!IsArray(t.teardown_outputs), R!IsArray(t.teardown_errors),
         Levelled(t.keyword_statuses), t.keyword_statuses # << >> => Len(t.keyword_statuses) > 0,
         NEW io \in BOOLEAN, NEW tree \in BOOLEAN,
         ~(t.teardown_outputs # << >> /\ t.teardown_errors = << >> /\ t.keyword_statuses # << >>)
  PROVE  Root(R!PrintTest(t, io, tree), {})
<1> DEFINE
  reasons  == t.failure_reasons # << >>
  outs     == t.outputs # << >>
  teardown == t.teardown_outputs # << >>
  errors   == t.teardown_errors # << >>
  nested   == tree /\ t.keyword_statuses # << >>
  more     == (io /\ (reasons \/ outs \/ teardown \/ errors)) \/ nested
  nr       == outs \/ teardown \/ errors \/ nested
  no       == teardown \/ errors \/ nested
  tags     == IF t.tags = << >> THEN << >>
              ELSE <<R!Line(0, {}, FALSE)>>
                     \o [i \in DOMAIN t.tags |-> R!Line(1, {0}, i = Len(t.tags))]
  times    == <<R!Line(0, {}, FALSE), R!Line(0, {}, FALSE), R!Line(0, {}, ~more)>>
  pr       == R!PrintOutputs(t.failure_reasons, nr)
  po       == R!PrintOutputs(t.outputs, no)
  pt       == R!PrintOutputs(t.teardown_outputs, errors)
  pe       == R!PrintOutputs(t.teardown_errors, nested)
  all_outs == IF ~io THEN << >> ELSE pr \o po \o pt \o pe
  kw       == IF nested THEN R!PrintKeywords(t.keyword_statuses) ELSE << >>
  Onr      == IF nr THEN {0} ELSE {}
  Ono      == IF no THEN {0} ELSE {}
  Onested  == IF nested THEN {0} ELSE {}
  Omore    == IF more THEN {0} ELSE {}
  Oerrors  == IF errors THEN {0} ELSE {}
<1>0. R!PrintTest(t, io, tree) = tags \o times \o all_outs \o kw
  BY DEF R!PrintTest
<1>2. /\ reasons \in BOOLEAN /\ outs \in BOOLEAN /\ teardown \in BOOLEAN /\ errors \in BOOLEAN
      /\ nested \in BOOLEAN /\ more \in BOOLEAN /\ nr \in BOOLEAN /\ no \in BOOLEAN
  OBVIOUS
<1>3. Root(tags, {0})  BY TagsAreRoot
<1>4. Root(times, Omore) /\ Len(times) = 3
  <2> HIDE DEF more
  <2>1. more \in BOOLEAN /\ Omore \in {{}, {0}} /\ (more <=> 0 \in Omore)  BY <1>2
  <2> HIDE DEF Omore
  <2> QED  BY <2>1, TimesAreRoot
<1>5. Root(pr, Onr) /\ Len(pr) \in Nat /\ (Len(pr) > 0 <=> reasons)
  <2> HIDE DEF nr
  <2>1. nr \in BOOLEAN /\ Onr \in {{}, {0}} /\ (nr <=> 0 \in Onr)  BY <1>2
  <2> HIDE DEF Onr
  <2> QED  BY <2>1, OutputsAreRoot
<1>6. Root(po, Ono) /\ Len(po) \in Nat /\ (Len(po) > 0 <=> outs)
  <2> HIDE DEF no
  <2>1. no \in BOOLEAN /\ Ono \in {{}, {0}} /\ (no <=> 0 \in Ono)  BY <1>2
  <2> HIDE DEF Ono
  <2> QED  BY <2>1, OutputsAreRoot
<1>7. Root(pt, Oerrors) /\ Len(pt) \in Nat /\ (Len(pt) > 0 <=> teardown)
  <2> HIDE DEF errors
  <2>1. errors \in BOOLEAN /\ Oerrors \in {{}, {0}} /\ (errors <=> 0 \in Oerrors)  BY <1>2
  <2> HIDE DEF Oerrors
  <2> QED  BY <2>1, OutputsAreRoot
<1>8. Root(pe, Onested) /\ Len(pe) \in Nat /\ (Len(pe) > 0 <=> errors)
  <2> HIDE DEF nested
  <2>1. nested \in BOOLEAN /\ Onested \in {{}, {0}} /\ (nested <=> 0 \in Onested)
    BY <1>2
  <2> HIDE DEF Onested
  <2> QED  BY <2>1, OutputsAreRoot
<1>9. Root(kw, {}) /\ Len(kw) \in Nat /\ (Len(kw) > 0 <=> nested)
  <2>1. CASE nested
    <3> DEFINE l == R!PrintKeywords(t.keyword_statuses)
    <3>1. l \in Seq(Lines) /\ Len(l) > 0 /\ l[1].col = 0 /\ DrawnInto(l, {})
      BY <2>1, KeywordsDrawn
    <3>2. kw = l  BY <2>1
    <3> HIDE DEF l
    <3>3. Root(l, {}) /\ Len(l) \in Nat /\ Len(l) > 0  BY <3>1 DEF Root
    <3> HIDE DEF kw
    <3> QED  BY <2>1, <3>2, <3>3
  <2>2. CASE ~nested
    <3>1. kw = << >>  BY <2>2
    <3> HIDE DEF kw
    <3> QED  BY <2>2, <3>1, NothingIsRoot
  <2> QED  BY <2>1, <2>2
\* Not cut: below the outputs of a teardown the errors are what follows.
<1>10. teardown => (errors <=> errors \/ nested)  OBVIOUS
<1>11. /\ nr <=> outs \/ no
       /\ no <=> teardown \/ errors \/ nested
       /\ more <=> (io /\ (reasons \/ outs \/ teardown \/ errors)) \/ nested
  OBVIOUS
<1> DEFINE follows  == errors \/ nested
           Ofollows == IF follows THEN {0} ELSE {}
<1>12. follows \in BOOLEAN /\ (follows <=> errors \/ nested)  OBVIOUS
<1> HIDE DEF reasons, outs, teardown, errors, nested, more, nr, no, tags, times, pr, po, pt,
             pe, kw, follows
<1>13. Root(pt, Ofollows)
  <2>1. CASE teardown
    <3>1. follows <=> errors  BY <1>10, <1>12, <2>1
    <3>2. Ofollows = Oerrors  BY <1>2, <1>12, <3>1
    <3> HIDE DEF Ofollows, Oerrors
    <3> QED  BY <1>7, <3>2
  <2>2. CASE ~teardown
    <3>1. Len(pt) = 0 /\ pt \in Seq(Lines)
      <4>1. pt \in Seq(Lines) /\ Len(pt) \in Nat /\ ~(Len(pt) > 0)  BY <1>7, <2>2 DEF Root
      <4> QED  BY <4>1
    <3> QED  BY <3>1 DEF Root, DrawnInto
  <2> QED  BY <2>1, <2>2
<1>14. /\ Onr \in {{}, {0}} /\ Ono \in {{}, {0}} /\ Ofollows \in {{}, {0}}
       /\ Onested \in {{}, {0}} /\ Omore \in {{}, {0}}
       /\ (0 \in Onr <=> nr) /\ (0 \in Ono <=> no) /\ (0 \in Ofollows <=> follows)
       /\ (0 \in Onested <=> nested) /\ (0 \in Omore <=> more)
  BY <1>2, <1>12
<1> HIDE DEF Onr, Ono, Ofollows, Onested, Omore, Oerrors
<1>15. Root(pr \o po, Ono) /\ Len(pr \o po) = Len(pr) + Len(po)
  <2>1. 0 \in Onr <=> Len(po) > 0 \/ 0 \in Ono  BY <1>6, <1>11, <1>14
  <2>2. /\ Root(pr, Onr) /\ Root(po, Ono) /\ Onr \in {{}, {0}} /\ Ono \in {{}, {0}}
        /\ 0 \in Onr <=> Len(po) > 0 \/ 0 \in Ono
    BY <1>5, <1>6, <1>14, <2>1
  <2> QED  BY ONLY <2>2, RootJoined, ZenonT(40)
<1> DEFINE p2 == pr \o po
<1> HIDE DEF p2
<1>16. Root(p2, Ono) /\ Len(p2) \in Nat /\ (Len(p2) > 0 <=> reasons \/ outs)
  <2>1. Root(p2, Ono) /\ Len(p2) = Len(pr) + Len(po)  BY <1>15 DEF p2
  <2> QED  BY <2>1, <1>5, <1>6
<1>17. Root(p2 \o pt, Ofollows) /\ Len(p2 \o pt) = Len(p2) + Len(pt)
  <2>1. 0 \in Ono <=> Len(pt) > 0 \/ 0 \in Ofollows  BY <1>7, <1>11, <1>12, <1>14
  <2>2. /\ Root(p2, Ono) /\ Root(pt, Ofollows) /\ Ono \in {{}, {0}} /\ Ofollows \in {{}, {0}}
        /\ 0 \in Ono <=> Len(pt) > 0 \/ 0 \in Ofollows
    BY <1>13, <1>14, <1>16, <2>1
  <2> QED  BY ONLY <2>2, RootJoined, ZenonT(40)
<1> DEFINE p3 == p2 \o pt
<1> HIDE DEF p3
<1>18. Root(p3, Ofollows) /\ Len(p3) \in Nat /\ (Len(p3) > 0 <=> reasons \/ outs \/ teardown)
  <2>1. Root(p3, Ofollows) /\ Len(p3) = Len(p2) + Len(pt)  BY <1>17 DEF p3
  <2> QED  BY <2>1, <1>7, <1>16
<1>19. Root(p3 \o pe, Onested) /\ Len(p3 \o pe) = Len(p3) + Len(pe)
  <2>1. 0 \in Ofollows <=> Len(pe) > 0 \/ 0 \in Onested  BY <1>8, <1>12, <1>14
  <2>2. /\ Root(p3, Ofollows) /\ Root(pe, Onested) /\ Ofollows \in {{}, {0}} /\ Onested \in {{}, {0}}
        /\ 0 \in Ofollows <=> Len(pe) > 0 \/ 0 \in Onested
    BY <1>8, <1>14, <1>18, <2>1
  <2> QED  BY ONLY <2>2, RootJoined, ZenonT(40)
<1> DEFINE p4 == p3 \o pe
<1> HIDE DEF p4
<1>20. /\ Root(p4, Onested) /\ Len(p4) \in Nat
       /\ (Len(p4) > 0 <=> reasons \/ outs \/ teardown \/ errors)
  <2>1. Root(p4, Onested) /\ Len(p4) = Len(p3) + Len(pe)  BY <1>19 DEF p4
  <2> QED  BY <2>1, <1>8, <1>18
<1>21. all_outs = IF ~io THEN << >> ELSE p4  BY DEF p2, p3, p4
<1> HIDE DEF all_outs
<1>22. /\ Root(all_outs, Onested) /\ Len(all_outs) \in Nat
       /\ (Len(all_outs) > 0 <=> io /\ (reasons \/ outs \/ teardown \/ errors))
  <2>1. CASE io
    <3>1. all_outs = p4  BY <1>21, <2>1
    <3> QED  BY <1>20, <2>1, <3>1
  <2>2. CASE ~io
    <3>1. all_outs = << >>  BY <1>21, <2>2
    <3>2. Len(all_outs) = 0 /\ Root(all_outs, Onested)  BY <3>1, NothingIsRoot
    <3> QED  BY <2>2, <3>2
  <2> QED  BY <2>1, <2>2
<1>23. Root(tags \o times, Omore) /\ Len(tags \o times) = Len(tags) + Len(times)
  <2>1. 0 \in {0} /\ {0} \in {{}, {0}} /\ Len(times) > 0  BY <1>4
  <2>2. /\ Root(tags, {0}) /\ Root(times, Omore) /\ {0} \in {{}, {0}} /\ Omore \in {{}, {0}}
        /\ 0 \in {0} <=> Len(times) > 0 \/ 0 \in Omore
    BY <1>3, <1>4, <1>14, <2>1
  <2> QED  BY ONLY <2>2, RootJoined
<1> DEFINE q == tags \o times
<1> HIDE DEF q
<1>24. Root(q, Omore)  BY <1>23 DEF q
<1>25. Root(q \o all_outs, Onested) /\ Len(q \o all_outs) = Len(q) + Len(all_outs)
  <2>1. 0 \in Omore <=> Len(all_outs) > 0 \/ 0 \in Onested  BY <1>11, <1>14, <1>22
  <2>2. /\ Root(q, Omore) /\ Root(all_outs, Onested) /\ Omore \in {{}, {0}} /\ Onested \in {{}, {0}}
        /\ 0 \in Omore <=> Len(all_outs) > 0 \/ 0 \in Onested
    BY <1>14, <1>22, <1>24, <2>1
  <2> QED  BY ONLY <2>2, RootJoined, ZenonT(40)
<1> DEFINE r == q \o all_outs
<1> HIDE DEF r
<1>26. Root(r, Onested)  BY <1>25 DEF r
<1>27. Root(r \o kw, {})
  <2>1. 0 \in Onested <=> Len(kw) > 0 \/ 0 \in {}  BY <1>9, <1>14
  <2>2. {} \in {{}, {0}}  OBVIOUS
  <2> QED  BY <1>9, <1>14, <1>26, <2>1, <2>2, RootJoined
<1> QED  BY <1>0, <1>27 DEF q, r

\* The listing is what logs info prints of each test of the record that it loaded.
ListingInv ==
  /\ ViewsInv
  /\ listing # R!Null =>
       /\ loaded # R!Null
       /\ \E io, tree \in BOOLEAN :
            listing = [i \in DOMAIN loaded[1].tests |-> R!PrintTest(loaded[1].tests[i], io, tree)]

LEMMA ListingStep ==
  ASSUME R!RawLogConstantsOK, ListingInv, [R!Next]_(R!recordVars) PROVE ListingInv'
<1>0. ViewsInv /\ ViewsInv'  BY ViewsStep DEF ListingInv
<1>1. CASE R!PushContext
  BY <1>0, <1>1 DEF R!PushContext, ListingInv
<1>2. ASSUME NEW name \in LateNames, R!RegisterLate(name) PROVE ListingInv'
  BY <1>0, <1>2 DEF R!RegisterLate, ListingInv
<1>3. CASE R!Save
  BY <1>0, <1>3 DEF R!Save, ListingInv
<1>4. CASE R!Load
  <2>1. listing' = listing /\ loaded = R!Null  BY <1>4 DEF R!Load
  <2>2. listing = R!Null  BY <2>1 DEF ListingInv
  <2> QED  BY <1>0, <2>1, <2>2 DEF ListingInv
<1>5. ASSUME NEW io \in BOOLEAN, NEW tree \in BOOLEAN, R!PrintLog(io, tree) PROVE ListingInv'
  <2>1. loaded # R!Null /\ loaded' = loaded  BY <1>5 DEF R!PrintLog
  <2>2. listing' = [i \in DOMAIN loaded[1].tests |-> R!PrintTest(loaded[1].tests[i], io, tree)]
    BY <1>5 DEF R!PrintLog
  <2> QED  BY <1>0, <2>1, <2>2 DEF ListingInv
<1>6. CASE R!Terminated \/ UNCHANGED R!recordVars
  BY <1>0, <1>6 DEF R!Terminated, R!recordVars, ListingInv
<1> QED  BY <1>1, <1>2, <1>3, <1>4, <1>5, <1>6 DEF R!Next

LEMMA CutArray == ASSUME NEW os, R!IsArray(os) PROVE R!IsArray(R!Cut(os))
<1> DEFINE c == R!Cut(os)
           S == {c[i] : i \in DOMAIN c}
<1>1. Len(os) \in Nat /\ DOMAIN os = 1 .. Len(os)  BY ArrayIs
<1>2. DOMAIN c = 1 .. Len(os) /\ c = [i \in 1 .. Len(os) |-> [os[i] EXCEPT !.beyond = 0]]
  BY <1>1 DEF R!Cut
<1> HIDE DEF c
<1>3. c = [i \in 1 .. Len(os) |-> c[i]] /\ \A i \in 1 .. Len(os) : c[i] \in S  BY <1>2
<1> HIDE DEF S
<1>4. c \in [1 .. Len(os) -> S]  BY <1>3
<1>5. c \in Seq(S)  BY <1>1, <1>4
<1> QED  BY <1>5 DEF R!IsArray, c, S

LEMMA ListingIsDrawn ==
  ASSUME R!RawLogConstantsOK, ListingInv PROVE ListingDrawn
<1>1. SUFFICES ASSUME NEW n \in DOMAIN listing,
                      LET t == loaded[1].tests[n] IN
                      ~(t.teardown_outputs # << >> /\ t.teardown_errors = << >>
                          /\ t.keyword_statuses # << >>)
               PROVE  \A k \in DOMAIN listing[n] :
                        /\ listing[n][k].last = ~R!Continues(listing[n], k, listing[n][k].col)
                        /\ listing[n][k].bars =
                             {c \in 0 .. listing[n][k].col - 1 : R!Continues(listing[n], k, c)}
  BY DEF ListingDrawn, R!ListingDrawn
<1>2. listing # R!Null  BY DEF R!Null
<1>3. PICK io, tree \in BOOLEAN :
        listing = [i \in DOMAIN loaded[1].tests |-> R!PrintTest(loaded[1].tests[i], io, tree)]
  BY <1>2 DEF ListingInv
<1>4. loaded = <<Reloaded(record)>>  BY <1>2 DEF ListingInv, ViewsInv
<1>5. R!IsRecord(record)  BY DEF R!RawLogConstantsOK, ListingInv, ViewsInv
<1> DEFINE t == loaded[1].tests[n]
           u == record.tests[n]
<1>6. n \in DOMAIN record.tests /\ t = R!Kept(u)
  <2> DEFINE ts == [i \in DOMAIN record.tests |-> R!Kept(record.tests[i])]
  <2>1. record = [project_name |-> record.project_name, ltf_version |-> record.ltf_version,
             os |-> record.os,
             os_version |-> record.os_version, started |-> record.started,
             finished |-> record.finished,
             target |-> record.target, tags |-> record.tags, tests |-> record.tests,
             vars |-> record.vars,
             total_amount |-> record.total_amount, passed_amount |-> record.passed_amount,
             failed_amount |-> record.failed_amount, finished_amount |-> record.finished_amount]
    BY <1>5 DEF R!IsRecord
  <2>2. Reloaded(record) = [record EXCEPT !.tests = ts, !.total_amount = Len(record.tests)]
    BY DEF Reloaded
  <2> HIDE DEF ts
  <2>3. Reloaded(record).tests = ts  BY <2>1, <2>2
  <2>4. loaded[1].tests = ts  BY <1>4, <2>3
  <2>5. n \in DOMAIN ts  BY <1>3, <2>4
  <2> QED  BY <2>4, <2>5 DEF ts
<1>7. R!IsTest(u)  BY <1>5, <1>6 DEF R!IsRecord
<1>8. /\ t.tags = u.tags /\ t.failure_reasons = R!Cut(u.failure_reasons)
      /\ t.outputs = R!Cut(u.outputs) /\ t.teardown_outputs = R!Cut(u.teardown_outputs)
      /\ t.teardown_errors = R!Cut(u.teardown_errors)
      /\ t.keyword_statuses = u.keyword_statuses
  <2>1. u = [name |-> u.name, description |-> u.description, started |-> u.started,
             finished |-> u.finished, teardown_start |-> u.teardown_start,
             teardown_end |-> u.teardown_end, status_str |-> u.status_str, tags |-> u.tags,
             failure_reasons |-> u.failure_reasons, outputs |-> u.outputs,
             teardown_outputs |-> u.teardown_outputs, teardown_errors |-> u.teardown_errors,
             keyword_statuses |-> u.keyword_statuses]
    BY <1>7 DEF R!IsTest
  <2> HIDE DEF t, u
  <2> QED  BY <1>6, <2>1 DEF R!Kept
<1>9. /\ R!IsArray(t.tags) /\ R!IsArray(t.failure_reasons) /\ R!IsArray(t.outputs)
      /\ R!IsArray(t.teardown_outputs) /\ R!IsArray(t.teardown_errors)
  <2> HIDE DEF t, u
  <2>1. /\ R!IsArray(u.tags) /\ R!IsArray(u.failure_reasons) /\ R!IsArray(u.outputs)
        /\ R!IsArray(u.teardown_outputs) /\ R!IsArray(u.teardown_errors)
    BY <1>7 DEF R!IsTest, R!AreOutputs
  <2> QED  BY <1>8, <2>1, CutArray
<1>10. Levelled(t.keyword_statuses) /\ (t.keyword_statuses # << >> => Len(t.keyword_statuses) > 0)
  <2> HIDE DEF t, u
  <2> DEFINE ks == t.keyword_statuses
  <2>1. R!AreKeywords(ks)  BY <1>7, <1>8 DEF R!IsTest
  <2> HIDE DEF ks
  <2>2. R!IsArray(ks)  BY <2>1 DEF R!AreKeywords
  <2>3. Len(ks) \in Nat /\ DOMAIN ks = 1 .. Len(ks) /\ ks = [i \in DOMAIN ks |-> ks[i]]
    BY <2>2, ArrayIs
  <2>4. \A i \in 1 .. Len(ks) : /\ ks[i].level \in Nat
                                /\ ks[i].level <= (IF i = 1 THEN 0 ELSE ks[i - 1].level + 1)
    BY <2>1, <2>3 DEF R!AreKeywords
  <2>5. Levelled(ks)  BY <2>3, <2>4 DEF Levelled
  <2>6. ks # << >> => Len(ks) > 0
    <3>1. CASE Len(ks) = 0
      <4>1. ks = << >>  BY <3>1, <2>3
      <4> QED  BY <4>1
    <3> QED  BY <3>1, <2>3
  <2> QED  BY <2>5, <2>6 DEF ks
<1>11. Root(R!PrintTest(t, io, tree), {})
  <2>1. ~(t.teardown_outputs # << >> /\ t.teardown_errors = << >> /\ t.keyword_statuses # << >>)
    BY <1>1
  <2> HIDE DEF t
  <2> QED  BY <1>9, <1>10, <2>1, TestDrawn
<1> DEFINE l == listing[n]
<1>12. l = R!PrintTest(t, io, tree)  BY <1>3
<1> HIDE DEF t
<1>13. l \in Seq(Lines) /\ DrawnInto(l, {})  BY <1>11, <1>12 DEF Root
<1> HIDE DEF l
<1>14. DOMAIN l = 1 .. Len(l)  BY <1>13
<1>15. \A k, c : Opens(l, k, c, {}) <=> R!Continues(l, k, c)  BY DEF Opens
<1>16. \A k \in DOMAIN l : /\ l[k].last = ~R!Continues(l, k, l[k].col)
                           /\ l[k].bars = {c \in 0 .. l[k].col - 1 : R!Continues(l, k, c)}
  <2> SUFFICES ASSUME NEW k \in DOMAIN l
               PROVE  /\ l[k].last = ~R!Continues(l, k, l[k].col)
                      /\ l[k].bars = {c \in 0 .. l[k].col - 1 : R!Continues(l, k, c)}
    OBVIOUS
  <2>1. l[k].last = ~Opens(l, k, l[k].col, {})  BY <1>13, <1>14 DEF DrawnInto
  <2>2. l[k].bars = {c \in 0 .. l[k].col - 1 : Opens(l, k, c, {})}  BY <1>13, <1>14 DEF DrawnInto
  <2>3. l[k].last = ~R!Continues(l, k, l[k].col)  BY <1>15, <2>1
  <2>4. l[k].bars = {c \in 0 .. l[k].col - 1 : R!Continues(l, k, c)}  BY <1>15, <2>2
  <2> QED  BY <2>3, <2>4
<1> QED  BY <1>16 DEF l

\* The trees that logs info draws of any run are connected, however many tests it
\* has, and however deep their keywords are nested.
THEOREM ListingAlwaysDrawn == ASSUME R!RawLogConstantsOK PROVE R!Spec => []ListingDrawn
<1>1. R!Init => ListingInv
  <2>1. R!Init => ViewsInv  BY ViewsInit
  <2> QED  BY <2>1 DEF R!Init, ListingInv
<1>2. ListingInv /\ [R!Next]_(R!recordVars) => ListingInv'  BY ListingStep
<1>3. ListingInv => ListingDrawn  BY ListingIsDrawn
<1> QED  BY <1>1, <1>2, <1>3, PTL DEF R!Spec

=============================================================================
