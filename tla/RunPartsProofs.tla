--------------------------- MODULE RunPartsProofs ---------------------------
(***************************************************************************)
(* Proofs about three parts around the loop that runs the tests.  The      *)
(* array of util/da.c implements the list of util/da.h (DynList), for all  *)
(* sizes of elements and of memory; no run loses or mixes up its logs      *)
(* (RunLogs), for any number of runs, targets and seconds; and the log and *)
(* the panel keep to their rows of the terminal (Tui), for any height.     *)
(***************************************************************************)
EXTENDS RunParts, FiniteSetTheorems, SequenceTheorems, WellFoundedInduction, TLAPS

-----------------------------------------------------------------------------
(* The array.                                                              *)

\* A larger block is a block.
LEMMA GrownIsBlock ==
  ASSUME ArrayTypeOK, NEW n \in Nat, n > capacity
  PROVE  /\ Grown(n) \in Block(n)
         /\ \A i \in 0 .. capacity - 1 : Grown(n)[i] = cells[i]
  BY DEF ArrayTypeOK, Grown, Block, Value

\* A capacity stays a number when it is doubled, even when it wraps around.
LEMMA DoubledIsNat ==
  ASSUME ArrayTypeOK
  PROVE  Doubled \in Nat
  <1>1. SizeMax + 1 \in Nat /\ SizeMax + 1 > 0
    BY SizesAssumption
  <1>2. capacity * 2 \in Nat
    BY DEF ArrayTypeOK
  <1>3. \A a \in Nat, b \in Nat \ {0} : a % b \in 0 .. b - 1
    OBVIOUS
  <1>4. (capacity * 2) % (SizeMax + 1) \in Nat
    BY <1>1, <1>2, <1>3
  <1> QED BY <1>4 DEF Doubled

LEMMA TypeInit ==
  ArrayInit => ArrayTypeOK
  <1> SUFFICES ASSUME ArrayInit PROVE ArrayTypeOK
    OBVIOUS
  <1>1. capacity \in Nat
    BY InitAssumption DEF ArrayInit
  <1>2. cells \in Block(capacity)
    BY <1>1 DEF ArrayInit, Block, Value
  <1>3. size \in Nat /\ size <= capacity
    BY <1>1 DEF ArrayInit
  <1>4. outside \in BOOLEAN
    BY DEF ArrayInit
  <1> QED BY <1>1, <1>2, <1>3, <1>4 DEF ArrayTypeOK

LEMMA AppendGrownType ==
  ASSUME ArrayTypeOK, ~outside, NEW e \in Elems, AppendGrown(e)
  PROVE  ArrayTypeOK'
  <1> DEFINE G == Grown(Doubled)
  <1>1. Doubled \in Nat /\ size \in Nat /\ size < Doubled
    BY DoubledIsNat DEF AppendGrown, ArrayTypeOK
  <1>2. G \in Block(Doubled)
    BY <1>1, GrownIsBlock DEF AppendGrown
  <1> HIDE DEF G
  <1>3. [G EXCEPT ![size] = e] \in Block(Doubled)
    BY <1>1, <1>2 DEF Block, Value
  <1> QED BY <1>1, <1>3 DEF AppendGrown, ArrayTypeOK, G

LEMMA TypeStep ==
  ArrayTypeOK /\ [ArrayNext]_arrayVars => ArrayTypeOK'
  <1> SUFFICES ASSUME ArrayTypeOK, [ArrayNext]_arrayVars PROVE ArrayTypeOK'
    OBVIOUS
  <1>1. ASSUME NEW e \in Elems, ~outside, AppendInPlace(e) PROVE ArrayTypeOK'
    BY <1>1 DEF AppendInPlace, ArrayTypeOK, Block, Value
  <1>2. ASSUME NEW e \in Elems, ~outside, AppendGrown(e) PROVE ArrayTypeOK'
    BY <1>2, AppendGrownType
  <1>3. ASSUME NEW i \in 0 .. size - 1, ~outside, RemoveElement(i) PROVE ArrayTypeOK'
    <2>1. Closed(i) \in Block(capacity)
      <3> SUFFICES ASSUME NEW j \in 0 .. capacity - 1, i <= j /\ j < size - 1
                   PROVE  cells[j + 1] \in Value
        BY DEF ArrayTypeOK, Block, Closed
      <3>1. j + 1 < size /\ size \in Nat /\ capacity \in Nat /\ j \in Nat
        BY DEF ArrayTypeOK
      <3> QED BY <1>3, <3>1 DEF ArrayTypeOK, Block
    <2> QED BY <1>3, <2>1 DEF RemoveElement, ArrayTypeOK
  <1>4. ASSUME NEW i \in 0 .. size - 1, NEW e \in Elems, Set(i, e) PROVE ArrayTypeOK'
    BY <1>4 DEF Set, ArrayTypeOK, Block, Value
  <1>5. ASSUME NEW n \in Sizes, ~outside, Reserve(n) PROVE ArrayTypeOK'
    <2>1. n \in Nat /\ n > capacity /\ capacity' = n /\ cells' \in Block(n)
      BY <1>5, GrownIsBlock DEF Reserve, Reserved, Sizes
    <2> QED BY <1>5, <2>1 DEF Reserve, ArrayTypeOK
  <1>6. ASSUME NEW n \in Sizes, ~outside, Resize(n) PROVE ArrayTypeOK'
    <2>0. n \in Nat BY DEF Sizes
    <2>1. CASE n <= capacity /\ UNCHANGED <<cells, capacity, outside>>
      BY <1>6, <2>0, <2>1 DEF Resize, ArrayTypeOK
    <2>2. CASE n > capacity /\ Reserved(n) /\ UNCHANGED outside
      <3>1. capacity' = n /\ cells' \in Block(n)
        BY <2>0, <2>2, GrownIsBlock DEF Reserved
      <3> QED BY <1>6, <2>0, <2>2, <3>1 DEF Resize, ArrayTypeOK
    <2>3. CASE n > capacity /\ outside' = TRUE /\ UNCHANGED <<cells, capacity>>
      BY <1>6, <2>0, <2>3 DEF Resize, ArrayTypeOK
    <2> QED BY <1>6, <2>1, <2>2, <2>3 DEF Resize
  <1>7. CASE Clear
    BY <1>7 DEF Clear, ArrayTypeOK
  <1>8. CASE UNCHANGED arrayVars
    BY <1>8 DEF ArrayTypeOK, arrayVars
  <1> QED BY <1>1, <1>2, <1>3, <1>4, <1>5, <1>6, <1>7, <1>8
          DEF ArrayNext, AppendRefused, Untouched

\* Every variable of an array stays in its type, and the elements stay in their
\* block unless a growing da_resize was refused its memory.
THEOREM ArrayTypeCorrect == ArraySpec => []ArrayTypeOK
  BY TypeInit, TypeStep, PTL DEF ArraySpec

-----------------------------------------------------------------------------
\* Contents is a list, element by element, before and after a step.
LEMMA ContentsShape ==
  ASSUME ArrayTypeOK
  PROVE  /\ Contents \in Seq(Value) /\ Len(Contents) = size
         /\ \A j \in 1 .. size : Contents[j] = IF j <= capacity THEN cells[j - 1] ELSE Unset
  <1>1. size \in Nat /\ capacity \in Nat /\ cells \in Block(capacity)
    BY DEF ArrayTypeOK
  <1>2. \A j \in 1 .. size : (IF j <= capacity THEN cells[j - 1] ELSE Unset) \in Value
    BY <1>1 DEF Block, Value
  <1>3. Contents \in [1 .. size -> Value]
    BY <1>2 DEF Contents
  <1> QED BY <1>1, <1>3 DEF Contents

LEMMA ContentsShapeNext ==
  ASSUME ArrayTypeOK'
  PROVE  /\ Contents' \in Seq(Value) /\ Len(Contents') = size'
         /\ \A j \in 1 .. size' : Contents'[j] = IF j <= capacity' THEN cells'[j - 1] ELSE Unset
  <1>1. size' \in Nat /\ capacity' \in Nat /\ cells' \in [0 .. capacity' - 1 -> Value]
    BY DEF ArrayTypeOK, Block, Value
  <1>a. PICK n \in Nat, cap \in Nat : n = size' /\ cap = capacity'
    BY <1>1
  <1>b. PICK f \in [0 .. cap - 1 -> Value] : f = cells'
    BY <1>1, <1>a
  <1>2. /\ n = size' /\ cap = capacity' /\ f = cells'
        /\ f \in [0 .. cap - 1 -> Value]
    BY <1>a, <1>b
  <1>3. Contents' = [j \in 1 .. n |-> IF j <= cap THEN f[j - 1] ELSE Unset]
    BY <1>2 DEF Contents
  <1>4. Unset \in Value
    BY DEF Value
  <1>5. \A j \in 1 .. n : (IF j <= cap THEN f[j - 1] ELSE Unset) \in Value
    <2> TAKE j \in 1 .. n
    <2>1. f \in [0 .. cap - 1 -> Value]
      BY <1>2
    <2>2. j <= cap => f[j - 1] \in Value
      BY <2>1
    <2> QED BY <1>4, <2>2
  <1>6. Contents' \in [1 .. n -> Value]
    BY <1>3, <1>5
  <1>7. Contents' \in Seq(Value) /\ Len(Contents') = n
    BY <1>6
  <1>8. \A j \in 1 .. n : Contents'[j] = IF j <= cap THEN f[j - 1] ELSE Unset
    BY <1>3
  <1> QED BY <1>2, <1>7, <1>8

\* Lists are equal that have the same elements.
LEMMA SameList ==
  ASSUME NEW S, NEW s \in Seq(S), NEW t \in Seq(S),
         Len(s) = Len(t), \A j \in 1 .. Len(s) : s[j] = t[j]
  PROVE  s = t
  OBVIOUS

LEMMA ListInit ==
  ArrayInit => Listed!Init
  <1> SUFFICES ASSUME ArrayInit PROVE Contents = << >>
    BY DEF Listed!Init
  <1> QED BY DEF ArrayInit, Contents

LEMMA AppendAdds ==
  ASSUME ArrayTypeOK, ArrayTypeOK', NEW e \in Elems, size' = size + 1, size <= capacity,
         capacity <= capacity', size < capacity',
         \A i \in 0 .. size - 1 : cells'[i] = cells[i],
         cells'[size] = e
  PROVE  Contents' = Append(Contents, e)
  <1>1. e \in Value /\ size \in Nat /\ size' \in Nat
    BY DEF Value, ArrayTypeOK
  <1>2. /\ Append(Contents, e) \in Seq(Value)
        /\ Len(Append(Contents, e)) = size + 1
        /\ \A j \in 1 .. size + 1 :
             Append(Contents, e)[j] = IF j <= size THEN Contents[j] ELSE e
    BY <1>1, ContentsShape
  <1>3. \A j \in 1 .. size + 1 : Contents'[j] = IF j <= size THEN cells[j - 1] ELSE e
    <2> TAKE j \in 1 .. size + 1
    <2>1. Contents'[j] = cells'[j - 1]
      BY <1>1, ContentsShapeNext DEF ArrayTypeOK
    <2>2. CASE j <= size
      BY <1>1, <2>1, <2>2
    <2>3. CASE j > size
      BY <1>1, <2>1, <2>3
    <2> QED BY <1>1, <2>2, <2>3
  <1>4. \A j \in 1 .. size + 1 : Contents'[j] = Append(Contents, e)[j]
    BY <1>1, <1>2, <1>3, ContentsShape DEF ArrayTypeOK
  <1> QED BY <1>2, <1>4, ContentsShapeNext, SameList

LEMMA RemoveDeletes ==
  ASSUME ArrayTypeOK, ArrayTypeOK', ~outside, NEW i \in 0 .. size - 1, RemoveElement(i)
  PROVE  Contents' = [j \in 1 .. Len(Contents) - 1 |->
                        IF j < i + 1 THEN Contents[j] ELSE Contents[j + 1]]
  <1>1. /\ size \in Nat /\ capacity \in Nat /\ size <= capacity
        /\ size' = size - 1 /\ capacity' = capacity /\ i \in Nat
        /\ \A j \in 0 .. capacity - 1 :
             cells'[j] = IF i <= j /\ j < size - 1 THEN cells[j + 1] ELSE cells[j]
    BY DEF ArrayTypeOK, RemoveElement, Closed
  <1>2. Contents' = [j \in 1 .. size - 1 |-> IF j <= capacity THEN cells'[j - 1] ELSE Unset]
    BY <1>1 DEF Contents
  <1>3. \A j \in 1 .. size - 1 : 
          (IF j <= capacity THEN cells'[j - 1] ELSE Unset)
            = IF j < i + 1 THEN Contents[j] ELSE Contents[j + 1]
    <2> TAKE j \in 1 .. size - 1
    <2>1. j <= capacity /\ j - 1 \in 0 .. capacity - 1 /\ j + 1 \in 1 .. size /\ j \in 1 .. size
      BY <1>1
    <2>2. Contents[j] = cells[j - 1] /\ Contents[j + 1] = cells[j]
      BY <1>1, <2>1, ContentsShape
    <2>3. cells'[j - 1] = IF i <= j - 1 /\ j - 1 < size - 1 THEN cells[(j - 1) + 1] ELSE cells[j - 1]
      BY <1>1, <2>1
    <2> QED BY <1>1, <2>1, <2>2, <2>3
  <1>4. Len(Contents) = size
    BY ContentsShape
  <1> QED BY <1>2, <1>3, <1>4

LEMMA SetReplaces ==
  ASSUME ArrayTypeOK, ArrayTypeOK', ~outside, NEW i \in 0 .. size - 1, NEW e \in Elems, Set(i, e)
  PROVE  Contents' = [Contents EXCEPT ![i + 1] = e]
  <1>1. /\ size \in Nat /\ capacity \in Nat /\ size <= capacity /\ i \in 0 .. capacity - 1
        /\ size' = size /\ capacity' = capacity /\ cells' = [cells EXCEPT ![i] = e]
        /\ cells \in [0 .. capacity - 1 -> Value]
    BY DEF ArrayTypeOK, Set, Block
  <1>2. DOMAIN Contents = 1 .. size
    BY DEF Contents
  <1>3. \A j \in 1 .. size : (IF j <= capacity THEN cells'[j - 1] ELSE Unset)
                               = IF j = i + 1 THEN e ELSE Contents[j]
    BY <1>1, ContentsShape
  <1> QED BY <1>1, <1>2, <1>3 DEF Contents

LEMMA ResizeExtends ==
  ASSUME ArrayTypeOK, ArrayTypeOK', ~outside, NEW n \in Sizes, Resize(n)
  PROVE  Listed!Extend
  <1>1. /\ size \in Nat /\ capacity \in Nat /\ size <= capacity /\ n \in Nat
        /\ size' = n /\ n > size /\ capacity' >= capacity /\ capacity' \in Nat
    BY DEF ArrayTypeOK, Resize, Reserved, Sizes
  <1>2. \A i \in 0 .. capacity - 1 : cells'[i] = cells[i]
    BY <1>1, GrownIsBlock DEF Resize, Reserved
  <1>3. \A j \in 1 .. size : Contents'[j] = Contents[j]
    BY <1>1, <1>2, ContentsShape, ContentsShapeNext
  <1> QED BY <1>1, <1>3, ContentsShape, ContentsShapeNext DEF Listed!Extend

LEMMA ListStep ==
  ArrayTypeOK /\ ArrayTypeOK' /\ [ArrayNext]_arrayVars => [Listed!Next]_Contents
  <1> SUFFICES ASSUME ArrayTypeOK, ArrayTypeOK', [ArrayNext]_arrayVars PROVE Listed!Next \/ Contents' = Contents
    OBVIOUS
  <1>1. ASSUME NEW e \in Elems, ~outside, AppendInPlace(e) PROVE Listed!Next
    <2>1. Contents' = Append(Contents, e)
      BY <1>1, AppendAdds DEF AppendInPlace, ArrayTypeOK, Block
    <2> QED BY <2>1 DEF Listed!Next, Listed!Add, Value
  <1>2. ASSUME NEW e \in Elems, ~outside, AppendGrown(e) PROVE Listed!Next
    <2>1. /\ size \in Nat /\ capacity \in Nat /\ Doubled \in Nat /\ size <= capacity
          /\ capacity < Doubled /\ capacity' = Doubled /\ size' = size + 1
          /\ cells' = [Grown(Doubled) EXCEPT ![size] = e]
      BY <1>2, DoubledIsNat DEF AppendGrown, ArrayTypeOK
    <2>2. /\ Grown(Doubled) \in Block(Doubled)
          /\ \A i \in 0 .. capacity - 1 : Grown(Doubled)[i] = cells[i]
      BY <2>1, GrownIsBlock
    <2>3. cells'[size] = e /\ \A i \in 0 .. size - 1 : cells'[i] = cells[i]
      BY <2>1, <2>2 DEF Block
    <2>4. Contents' = Append(Contents, e)
      BY <2>1, <2>3, AppendAdds
    <2> QED BY <2>4 DEF Listed!Next, Listed!Add, Value
  <1>3. ASSUME NEW i \in 0 .. size - 1, ~outside, RemoveElement(i) PROVE Listed!Next
    <2>1. Listed!Delete(i + 1)
      BY <1>3, RemoveDeletes DEF Listed!Delete, Listed!Without
    <2>2. i + 1 \in 1 .. Len(Contents)
      BY ContentsShape DEF ArrayTypeOK
    <2> QED BY <2>1, <2>2 DEF Listed!Next
  <1>4. ASSUME NEW i \in 0 .. size - 1, NEW e \in Elems, ~outside, Set(i, e) PROVE Listed!Next
    <2>1. Listed!Replace(i + 1, e)
      BY <1>4, SetReplaces DEF Listed!Replace
    <2>2. i + 1 \in 1 .. Len(Contents) /\ e \in Value
      BY ContentsShape DEF ArrayTypeOK, Value
    <2> QED BY <2>1, <2>2 DEF Listed!Next
  <1>5. ASSUME NEW n \in Sizes, ~outside, Reserve(n) PROVE Contents' = Contents
    <2>1. /\ size \in Nat /\ capacity \in Nat /\ size <= capacity /\ n \in Nat /\ n > capacity
          /\ size' = size /\ capacity' = n /\ cells' = Grown(n)
      BY <1>5 DEF ArrayTypeOK, Reserve, Reserved, Sizes
    <2>2. \A i \in 0 .. capacity - 1 : cells'[i] = cells[i]
      BY <2>1, GrownIsBlock
    <2>3. \A j \in 1 .. size : Contents'[j] = Contents[j]
      BY <2>1, <2>2, ContentsShape, ContentsShapeNext
    <2> QED BY <2>1, <2>3, ContentsShape, ContentsShapeNext, SameList
  <1>6. ASSUME NEW n \in Sizes, ~outside, Resize(n) PROVE Listed!Next
    BY <1>6, ResizeExtends DEF Listed!Next
  <1>7. CASE Clear
    BY <1>7 DEF Clear, Contents, Listed!Next, Listed!Clear
  <1>8. CASE UNCHANGED arrayVars
    BY <1>8 DEF arrayVars, Contents
  <1> QED BY <1>1, <1>2, <1>3, <1>4, <1>5, <1>6, <1>7, <1>8
          DEF ArrayNext, AppendRefused, Untouched

\* Through every append, removal, growth and refusal the array is the list that
\* util/da.h promises.
THEOREM ArrayKeepsList == ArraySpec => KeepsList
  <1>1. ArrayInit => Listed!Init
    BY ListInit
  <1>2. ArrayTypeOK /\ ArrayTypeOK' /\ [ArrayNext]_arrayVars => [Listed!Next]_Contents
    BY ListStep
  <1> QED BY <1>1, <1>2, ArrayTypeCorrect, PTL DEF ArraySpec, KeepsList, Listed!Spec

-----------------------------------------------------------------------------
(* The logs.                                                               *)

Rec == [at : LogPoint, dir : Dirs, second : Seconds \cup {0}, raw : Nat, output : Nat,
        todo : Seq(Dirs \X Kinds), saved : BOOLEAN]

\* The run has chosen its name for a log of that kind (or was cut off before).
Named(r, kind) ==
  run[r].at \notin IF kind = "raw" THEN {"idle", "raw_name"}
                                   ELSE {"idle", "raw_name", "output_name"}

RunsOK ==
  /\ run \in [Runs -> Rec]
  /\ \A r \in Runs : IF At(r, "idle") THEN run[r].raw = 0 /\ run[r].output = 0
                                      ELSE run[r].second \in Seconds
  /\ \A r \in Runs : Linking(r) => run[r].todo # << >>

\* A log was made by runs that have its name.
Written ==
  /\ files \in [Paths -> File]
  /\ \A p \in Paths : Exists(p) => files[p].by # {}
  /\ \A p \in Paths : \A q \in files[p].by : Named(q, p[2]) /\ Path(q, p[2]) = p

\* Every name that a run gave up is that of another run.
Tried ==
  \A r \in Runs, k \in Kinds : \A m \in 0 .. (run[r][k] - 1) :
    \E q \in Runs \ {r} : Named(q, k) /\ Path(q, k) = <<run[r].dir, k, run[r].second, m>>

\* Runs of one directory and second are in clash when they run at the same time.
Clashing ==
  \A r, q \in Runs :
    (r # q /\ Active(r) /\ Active(q) /\ run[r].dir = run[q].dir
           /\ run[r].second = run[q].second) => r \in clash

Opened(r) == run[r].at \in {"run", "write", "close"}
Sealed(r) == run[r].at \in {"lstat", "unlink", "symlink", "done"}

\* A run that is not in clash owns its logs, from the moment it makes them.
Owns(r) ==
  /\ Opened(r) => files[Path(r, "output")] = [by |-> {r}, whole |-> FALSE]
  /\ Sealed(r) => files[Path(r, "output")] = [by |-> {r}, whole |-> TRUE]
  /\ At(r, "write") => files[Path(r, "raw")] = [by |-> {r}, whole |-> FALSE]
  /\ At(r, "close") \/ Sealed(r) =>
       files[Path(r, "raw")] = [by |-> {r}, whole |-> run[r].saved]

Owned == \A r \in Runs \ clash : Owns(r)

\* No run that is still active has the name of a log of a finished one.
Apart ==
  \A r \in Runs \ clash, q \in Runs, k \in Kinds :
    (r # q /\ At(r, "done") /\ Active(q) /\ Named(q, k)) => Path(q, k) # Path(r, k)

LogsInv == RunsOK /\ Written /\ Tried /\ Clashing /\ Owned /\ Apart

-----------------------------------------------------------------------------
\* A run never tries as many names as there are runs: the names do not run out.
LEMMA NamesLast ==
  ASSUME LogsConstantsOK, RunsOK, Tried, NEW r \in Runs, NEW k \in Kinds
  PROVE  run[r][k] \in 0 .. Cardinality(Runs)
<1>1. run[r][k] \in Nat
  BY DEF RunsOK, Rec, Kinds
<1> DEFINE n == run[r][k]
           user(m, q) == /\ q \in Runs \ {r} /\ Named(q, k)
                         /\ Path(q, k) = <<run[r].dir, k, run[r].second, m>>
           f == [m \in 0 .. (n - 1) |-> CHOOSE q \in Runs : user(m, q)]
<1>2. \A m \in 0 .. (n - 1) : user(m, f[m]) /\ f[m] \in Runs
  BY DEF Tried
<1>3. \A m \in 0 .. (n - 1) : Path(f[m], k)[4] = m
  BY <1>2
<1>4. f \in [0 .. (n - 1) -> Runs] /\ \A a, b \in 0 .. (n - 1) : f[a] = f[b] => a = b
  <2> HIDE DEF user
  <2>1. f \in [0 .. (n - 1) -> Runs]
    BY <1>2
  <2>2. \A a, b \in 0 .. (n - 1) : f[a] = f[b] => a = b
    <3> HIDE DEF f
    <3> QED BY <1>3
  <2> QED BY <2>1, <2>2
<1>5. f \in Injection(0 .. (n - 1), Runs)
  <2> HIDE DEF f
  <2> QED BY <1>4 DEF Injection, IsInjective
<1>6. IsFiniteSet(Runs)
  BY DEF LogsConstantsOK
<1>7. Cardinality(0 .. (n - 1)) <= Cardinality(Runs) /\ IsFiniteSet(0 .. (n - 1))
  BY <1>5, <1>6, FS_Injection
<1>8. Cardinality(0 .. (n - 1)) = n
  <2>1. 0 \in Int /\ (n - 1) \in Int
    BY <1>1
  <2>2. Cardinality(0 .. (n - 1)) = IF 0 > n - 1 THEN 0 ELSE (n - 1) - 0 + 1
    BY <2>1, FS_Interval
  <2> QED BY <2>2, <1>1
<1>9. Cardinality(Runs) \in Nat
  BY <1>6, FS_CardinalityType
<1> QED BY <1>1, <1>7, <1>8, <1>9

\* Hence the name of a run that has started is in the domain of files.
LEMMA NameIsPath ==
  ASSUME LogsConstantsOK, RunsOK, Tried, NEW r \in Runs, NEW k \in Kinds, ~At(r, "idle")
  PROVE  Path(r, k) \in Paths
<1>1. run[r][k] \in 0 .. Cardinality(Runs)
  BY NamesLast
<1>2. run[r].dir \in Dirs /\ run[r].second \in Seconds
  BY DEF RunsOK, Rec
<1> QED BY <1>1, <1>2 DEF Path, Paths

-----------------------------------------------------------------------------
(* What the steps of a run r do to the runs.                               *)

LEMMA Moved ==
  ASSUME RunsOK, NEW r \in Runs, NEW s \in Rec, run' = [run EXCEPT ![r] = s],
         s.at # "idle", s.second \in Seconds,
         s.at \in {"lstat", "unlink", "symlink"} => s.todo # << >>
  PROVE  RunsOK'
<1>1. run' \in [Runs -> Rec]
  BY DEF RunsOK
<1>2. ASSUME NEW q \in Runs
      PROVE  IF At(q, "idle")' THEN run'[q].raw = 0 /\ run'[q].output = 0
                               ELSE run'[q].second \in Seconds
  BY DEF RunsOK, At
<1>3. ASSUME NEW q \in Runs, Linking(q)' PROVE run'[q].todo # << >>
  BY <1>3 DEF RunsOK, Linking
<1> QED BY <1>1, <1>2, <1>3 DEF RunsOK, At

\* Most steps go to another point and leave the rest of the run as it is.
LEMMA GotoKeepsRuns ==
  ASSUME RunsOK, NEW r \in Runs, NEW p \in LogPoint \ {"idle"}, Goto(r, p), ~At(r, "idle"),
         p \in {"lstat", "unlink", "symlink"} => Linking(r)
  PROVE  RunsOK'
<1> DEFINE s == [run[r] EXCEPT !.at = p]
<1>1. s \in Rec /\ s.at = p /\ s.second \in Seconds /\ s.todo = run[r].todo
  BY DEF RunsOK, Rec, At
<1>2. run' = [run EXCEPT ![r] = s]
  BY DEF Goto
<1>3. Linking(r) => run[r].todo # << >>
  BY DEF RunsOK
<1> HIDE DEF s
<1> QED BY <1>1, <1>2, <1>3, Moved

LEMMA StartKeepsRuns ==
  ASSUME RunsOK, NEW r \in Runs, NEW dir \in Dirs, NEW second \in Seconds, Start(r, dir, second)
  PROVE  RunsOK'
<1> DEFINE s == [run[r] EXCEPT !.at = "raw_name", !.dir = dir, !.second = second]
<1>1. s \in Rec /\ s.at = "raw_name" /\ s.second = second
  BY DEF RunsOK, Rec, LogPoint
<1>2. run' = [run EXCEPT ![r] = s]
  BY DEF Start
<1> HIDE DEF s
<1> QED BY <1>1, <1>2, Moved

LEMMA NamingKeepsRuns ==
  ASSUME RunsOK, NEW r \in Runs,
         \/ NameFile(r, "raw_name", "raw", "output_name")
         \/ NameFile(r, "output_name", "output", "open")
  PROVE  RunsOK'
<1>1. run[r].raw + 1 \in Nat /\ run[r].output + 1 \in Nat
  BY DEF RunsOK, Rec
<1>2. CASE Goto(r, "output_name") \/ Goto(r, "open")
  BY <1>2, GotoKeepsRuns DEF NameFile, At, LogPoint
<1>3. CASE run' = [run EXCEPT ![r].raw = @ + 1] /\ At(r, "raw_name")
  <2> DEFINE s == [run[r] EXCEPT !.raw = @ + 1]
  <2>1. s \in Rec /\ s.at = "raw_name" /\ s.second \in Seconds
    BY <1>1, <1>3 DEF RunsOK, Rec, At
  <2>2. run' = [run EXCEPT ![r] = s]
    BY <1>3
  <2> HIDE DEF s
  <2> QED BY <2>1, <2>2, Moved
<1>4. CASE run' = [run EXCEPT ![r].output = @ + 1] /\ At(r, "output_name")
  <2> DEFINE s == [run[r] EXCEPT !.output = @ + 1]
  <2>1. s \in Rec /\ s.at = "output_name" /\ s.second \in Seconds
    BY <1>1, <1>4 DEF RunsOK, Rec, At
  <2>2. run' = [run EXCEPT ![r] = s]
    BY <1>4
  <2> HIDE DEF s
  <2> QED BY <2>1, <2>2, Moved
<1> QED BY <1>2, <1>3, <1>4 DEF NameFile

\* The steps that write the logs, and the interrupt.
LEMMA WritingKeepsRuns ==
  ASSUME RunsOK, NEW r \in Runs,
         OpenOutput(r) \/ CreateRaw(r) \/ (\E saved \in BOOLEAN : WriteRaw(r, saved)) \/ CutOff(r)
  PROVE  RunsOK'
<1>1. CASE OpenOutput(r) \/ CreateRaw(r) \/ CutOff(r)
  BY <1>1, GotoKeepsRuns DEF OpenOutput, CreateRaw, CutOff, At, Active, LogPoint
<1>2. ASSUME NEW saved \in BOOLEAN, WriteRaw(r, saved) PROVE RunsOK'
  <2> DEFINE s == [run[r] EXCEPT !.at = "close", !.saved = saved]
  <2>1. s \in Rec /\ s.at = "close" /\ s.second \in Seconds
    BY <1>2 DEF WriteRaw, RunsOK, Rec, At, LogPoint
  <2>2. run' = [run EXCEPT ![r] = s]
    BY <1>2 DEF WriteRaw
  <2> HIDE DEF s
  <2> QED BY <2>1, <2>2, Moved
<1> QED BY <1>1, <1>2

\* The steps that set the links.
LEMMA LinkingKeepsRuns ==
  ASSUME RunsOK, NEW r \in Runs, CloseOutput(r) \/ Lstat(r) \/ Unlink(r) \/ Symlink(r)
  PROVE  RunsOK'
<1>1. ASSUME NEW p \in LogPoint \ {"idle"}, NEW todo \in Seq(Dirs \X Kinds),
             p \in {"lstat", "unlink", "symlink"} => todo # << >>,
             run' = [run EXCEPT ![r].todo = todo, ![r].at = p], ~At(r, "idle")
      PROVE  RunsOK'
  <2> DEFINE s == [run[r] EXCEPT !.todo = todo, !.at = p]
  <2>1. s \in Rec /\ s.at = p /\ s.second \in Seconds /\ s.todo = todo
    BY <1>1 DEF RunsOK, Rec, At
  <2>2. run' = [run EXCEPT ![r] = s]
    BY <1>1
  <2> HIDE DEF s
  <2> QED BY <1>1, <2>1, <2>2, Moved
<1>2. CASE CloseOutput(r)
  <2>1. run[r].dir \in Dirs /\ "top" \in Dirs
    BY DEF RunsOK, Rec, Dirs
  <2>2. PICK s \in Seq(Dirs \X Kinds) : s = LinksOf(r) /\ s # << >>
    <3>1. \A d, e \in Dirs : /\ << <<d, "output">>, <<d, "raw">> >> \in Seq(Dirs \X Kinds)
                             /\ << <<d, "output">>, <<d, "raw">> >> # << >>
                             /\ << <<d, "output">>, <<d, "raw">> >>
                                  \o << <<e, "output">>, <<e, "raw">> >> \in Seq(Dirs \X Kinds)
                             /\ << <<d, "output">>, <<d, "raw">> >>
                                  \o << <<e, "output">>, <<e, "raw">> >> # << >>
      BY DEF Kinds
    <3> QED BY <2>1, <3>1 DEF LinksOf
  <2>3. run' = [run EXCEPT ![r].todo = s, ![r].at = "lstat"]
    <3>1. [run EXCEPT ![r].at = "lstat", ![r].todo = s]
            = [run EXCEPT ![r].todo = s, ![r].at = "lstat"]
      BY DEF RunsOK, Rec
    <3> QED BY <1>2, <2>2, <3>1 DEF CloseOutput
  <2>4. "lstat" \in LogPoint \ {"idle"} /\ ~At(r, "idle")
    BY <1>2 DEF CloseOutput, At, LogPoint
  <2> QED BY <1>1, <2>2, <2>3, <2>4
<1>3. CASE Lstat(r)
  BY <1>3, GotoKeepsRuns DEF Lstat, At, Linking, LogPoint
<1>4. ASSUME Linking(r), NextLink(r) PROVE RunsOK'
  <2>1. run[r].todo \in Seq(Dirs \X Kinds) /\ run[r].todo # << >>
    BY <1>4 DEF RunsOK, Rec
  <2>2. PICK s \in Seq(Dirs \X Kinds) : s = Tail(run[r].todo)
    BY <2>1, HeadTailProperties
  <2>3. PICK p \in LogPoint \ {"idle"} : p = IF s = << >> THEN "done" ELSE "lstat"
    BY DEF LogPoint
  <2>4. run' = [run EXCEPT ![r].todo = s, ![r].at = p]
    BY <1>4, <2>2, <2>3 DEF NextLink
  <2>5. ~At(r, "idle")
    BY <1>4 DEF Linking, At
  <2> QED BY <1>1, <2>3, <2>4, <2>5
<1>5. CASE Unlink(r)
  BY <1>4, <1>5, GotoKeepsRuns DEF Unlink, At, Linking, LogPoint
<1>6. CASE Symlink(r)
  BY <1>4, <1>6 DEF Symlink, At, Linking
<1> QED BY <1>2, <1>3, <1>5, <1>6

-----------------------------------------------------------------------------
(* Most steps leave all names as they are.                                 *)

Plain(r) ==
  /\ \A q \in Runs \ {r} : run'[q] = run[q]
  /\ run'[r].dir = run[r].dir /\ run'[r].second = run[r].second
  /\ run'[r].raw = run[r].raw /\ run'[r].output = run[r].output
  /\ Active(r) /\ run'[r].at # "idle"
  /\ \A k \in Kinds : Named(r, k) => Named(r, k)'
  /\ clash' = clash

LEMMA PlainNames ==
  ASSUME NEW r \in Runs, Plain(r), NEW q \in Runs, NEW k \in Kinds
  PROVE  Path(q, k)' = Path(q, k) /\ (Named(q, k) => Named(q, k)') /\ (Active(q)' => Active(q))
<1>1. CASE q # r
  BY <1>1 DEF Plain, Path, Named, Active
<1>2. CASE q = r
  BY <1>2 DEF Plain, Path, Kinds
<1> QED BY <1>1, <1>2

LEMMA PlainKeepsTried ==
  ASSUME NEW r \in Runs, Plain(r), Tried
  PROVE  Tried'
<1> SUFFICES ASSUME NEW p \in Runs, NEW k \in Kinds, NEW m \in 0 .. (run'[p][k] - 1)
             PROVE  \E q \in Runs \ {p} :
                      Named(q, k)' /\ Path(q, k)' = <<run'[p].dir, k, run'[p].second, m>>
  BY DEF Tried
<1>1. run'[p][k] = run[p][k] /\ run'[p].dir = run[p].dir /\ run'[p].second = run[p].second
  BY DEF Plain, Kinds
<1> QED BY <1>1, PlainNames DEF Tried

LEMMA PlainKeepsClashing ==
  ASSUME NEW r \in Runs, Plain(r), Clashing
  PROVE  Clashing'
<1>1. \A q \in Runs : /\ run'[q].dir = run[q].dir /\ run'[q].second = run[q].second
                      /\ Active(q)' => Active(q)
                      /\ clash' = clash
  BY DEF Plain, Active
<1> QED BY <1>1 DEF Clashing

\* A new owner of a name is the only one who has it.
LEMMA PlainKeepsApart ==
  ASSUME NEW r \in Runs, Plain(r), RunsOK, Clashing, Owned, Apart,
         \A k \in Kinds : Active(r)' /\ Named(r, k)' => Named(r, k) \/ ~Exists(Path(r, k))
  PROVE  Apart'
<1> SUFFICES ASSUME NEW p \in Runs, p \notin clash, NEW q \in Runs, NEW k \in Kinds,
                    p # q, At(p, "done")', Active(q)', Named(q, k)'
             PROVE  Path(q, k) # Path(p, k)
  BY PlainNames DEF Apart, Plain
<1>1. Active(q)
  BY PlainNames
<1>2. CASE ~At(p, "done")
  <2>1. p = r
    BY <1>2 DEF Plain, At
  <2>2. run[p].dir # run[q].dir \/ run[p].second # run[q].second
    BY <1>1, <2>1 DEF Clashing, Plain
  <2> QED BY <2>2 DEF Path
<1>3. CASE At(p, "done") /\ Named(q, k)
  BY <1>1, <1>3 DEF Apart
<1>4. CASE At(p, "done") /\ ~Named(q, k)
  <2>1. q = r
    BY <1>4 DEF Plain, Named
  <2>2. ~Exists(Path(q, k))
    BY <1>4, <2>1
  <2>3. Exists(Path(p, k))
    <3>1. Sealed(p) /\ Owns(p)
      BY <1>4 DEF Owned, Sealed, At
    <3>2. /\ files[Path(p, "output")] = [by |-> {p}, whole |-> TRUE]
          /\ files[Path(p, "raw")] = [by |-> {p}, whole |-> run[p].saved]
      BY <3>1 DEF Owns
    <3>3. files[Path(p, k)].by = {p}
      BY <3>2 DEF Kinds
    <3> QED BY <3>3 DEF Exists, Absent
  <2> QED BY <2>2, <2>3
<1> QED BY <1>2, <1>3, <1>4

\* A step that leaves the files alone, or writes the log of its run.
WritesOwn(r, k, whole) ==
  /\ Path(r, k) \in Paths /\ Named(r, k)
  /\ \E by \in {{r}, files[Path(r, k)].by \cup {r}} :
       files' = [files EXCEPT ![Path(r, k)] = [by |-> by, whole |-> whole]]

LEMMA PlainKeepsWritten ==
  ASSUME NEW r \in Runs, Plain(r), Written,
         \/ UNCHANGED files
         \/ \E k \in Kinds, whole \in BOOLEAN : WritesOwn(r, k, whole)
  PROVE  Written'
<1>1. CASE UNCHANGED files
  <2>1. ASSUME NEW p \in Paths, NEW q \in files[p].by PROVE Named(q, p[2])' /\ Path(q, p[2])' = p
    <3>1. p[2] \in Kinds /\ q \in Runs
      BY DEF Written, File, Paths
    <3> QED BY <3>1, PlainNames DEF Written
  <2> QED BY <1>1, <2>1 DEF Written, Exists, Absent
<1>2. ASSUME NEW k \in Kinds, NEW whole \in BOOLEAN, WritesOwn(r, k, whole)
      PROVE  Written'
  <2> PICK by \in {{r}, files[Path(r, k)].by \cup {r}} :
              files' = [files EXCEPT ![Path(r, k)] = [by |-> by, whole |-> whole]]
    BY <1>2 DEF WritesOwn
  <2>0. Path(r, k) \in Paths /\ Named(r, k)
    BY <1>2 DEF WritesOwn
  <2>1. by \in SUBSET Runs /\ by # {}
    BY <2>0 DEF Written, File
  <2>2. [by |-> by, whole |-> whole] \in File
    BY <2>1 DEF File
  <2>3. files' \in [Paths -> File]
    BY <2>2 DEF Written
  <2>4. \A p \in Paths : files'[p] = IF p = Path(r, k) THEN [by |-> by, whole |-> whole] ELSE files[p]
    BY DEF Written
  <2>5. ASSUME NEW p \in Paths, Exists(p)' PROVE files'[p].by # {}
    BY <2>1, <2>4, <2>5 DEF Written, Exists, Absent
  <2>6. ASSUME NEW p \in Paths, NEW q \in files'[p].by PROVE Named(q, p[2])' /\ Path(q, p[2])' = p
    <3>1. p[2] \in Kinds /\ q \in Runs
      BY <2>3 DEF File, Paths
    <3>2. q \in files[p].by \/ (q = r /\ p = Path(r, k) /\ p[2] = k)
      BY <2>4 DEF Path
    <3>3. Named(q, p[2]) /\ Path(q, p[2]) = p
      BY <2>0, <3>2 DEF Written
    <3> QED BY <3>1, <3>3, PlainNames
  <2> QED BY <2>3, <2>5, <2>6 DEF Written
<1> QED BY <1>1, <1>2

\* What a run writes is not the log of one that is not in clash.
LEMMA PlainKeepsOthers ==
  ASSUME LogsConstantsOK, RunsOK, Tried, Written, Clashing, Apart, NEW r \in Runs, Plain(r),
         \/ UNCHANGED files
         \/ \E k \in Kinds, whole \in BOOLEAN : WritesOwn(r, k, whole),
         NEW p \in Runs \ clash, p # r, Owns(p)
  PROVE  Owns(p)'
<1>1. run'[p] = run[p] /\ \A k \in Kinds : Path(p, k)' = Path(p, k)
  BY PlainNames DEF Plain
<1>2. "raw" \in Kinds /\ "output" \in Kinds
  BY DEF Kinds
<1>3. ASSUME Opened(p) \/ Sealed(p), NEW j \in Kinds PROVE files'[Path(p, j)] = files[Path(p, j)]
  <2>1. ASSUME NEW k \in Kinds, Named(r, k) PROVE Path(p, j) # Path(r, k)
    <3>1. CASE Active(p)
      BY <3>1 DEF Clashing, Plain, Path
    <3>2. CASE ~Active(p)
      <4>1. At(p, "done")
        BY <1>3, <3>2 DEF Opened, Sealed, Active, At
      <4>2. j # k \/ Path(r, k) # Path(p, k)
        BY <2>1, <4>1 DEF Apart, Plain
      <4> QED BY <4>2 DEF Path
    <3> QED BY <3>1, <3>2
  <2>2. Path(p, j) \in Paths
    <3>1. ~At(p, "idle")
      BY <1>3 DEF Opened, Sealed, At
    <3> QED BY <3>1, NameIsPath
  <2> QED BY <2>1, <2>2 DEF WritesOwn, Written
<1>4. \A k \in Kinds : Opened(p) \/ Sealed(p) => files'[Path(p, k)'] = files[Path(p, k)]
  BY <1>1, <1>3
<1>5. At(p, "write") \/ At(p, "close") => Opened(p)
  BY DEF At, Opened
<1>6. /\ Opened(p)' <=> Opened(p)
      /\ Sealed(p)' <=> Sealed(p)
      /\ At(p, "write")' <=> At(p, "write")
      /\ At(p, "close")' <=> At(p, "close")
      /\ run'[p].saved = run[p].saved
  BY <1>1 DEF At, Opened, Sealed
<1> QED BY <1>2, <1>4, <1>5, <1>6 DEF Owns

LEMMA PlainKeepsInv ==
  ASSUME LogsConstantsOK, LogsInv, NEW r \in Runs, Plain(r), RunsOK',
         \A k \in Kinds : Active(r)' /\ Named(r, k)' => Named(r, k) \/ ~Exists(Path(r, k)),
         \/ UNCHANGED files
         \/ \E k \in Kinds, whole \in BOOLEAN : WritesOwn(r, k, whole),
         r \notin clash => Owns(r)'
  PROVE  LogsInv'
<1>1. Tried' /\ Clashing' /\ Apart' /\ Written'
  BY PlainKeepsTried, PlainKeepsClashing, PlainKeepsApart, PlainKeepsWritten DEF LogsInv
<1>2. Owned'
  BY PlainKeepsOthers DEF LogsInv, Owned, Plain
<1> QED BY <1>1, <1>2 DEF LogsInv

-----------------------------------------------------------------------------
(* The steps, one by one.                                                  *)

\* A start changes names that no log has yet.
LEMMA StartKeepsInv ==
  ASSUME LogsConstantsOK, LogsInv, NEW r \in Runs, NEW dir \in Dirs, NEW second \in Seconds,
         Start(r, dir, second)
  PROVE  LogsInv'
<1> USE DEF LogsInv
<1>1. RunsOK'
  BY StartKeepsRuns
<1>2. /\ \A q \in Runs \ {r} : run'[q] = run[q]
      /\ run'[r].at = "raw_name" /\ run'[r].dir = dir /\ run'[r].second = second
      /\ \A k \in Kinds : run'[r][k] = run[r][k]
      /\ run[r].at = "idle" /\ run[r].raw = 0 /\ run[r].output = 0
      /\ files' = files
  BY DEF Start, RunsOK, Rec, At, Kinds
<1>3. ASSUME NEW q \in Runs, NEW k \in Kinds
      PROVE  /\ q # r => Path(q, k)' = Path(q, k)
             /\ Named(q, k) => q # r
             /\ Named(q, k)' <=> Named(q, k)
  BY <1>2 DEF Path, Named, Kinds
<1>4. Written'
  <2>1. ASSUME NEW p \in Paths, NEW q \in files[p].by PROVE Named(q, p[2])' /\ Path(q, p[2])' = p
    <3>1. p[2] \in Kinds /\ q \in Runs
      BY DEF Written, File, Paths
    <3> QED BY <1>3, <3>1 DEF Written
  <2> QED BY <1>2, <2>1 DEF Written, Exists, Absent
<1>5. Tried'
  <2> SUFFICES ASSUME NEW p \in Runs, NEW k \in Kinds, NEW m \in 0 .. (run'[p][k] - 1)
               PROVE  \E q \in Runs \ {p} :
                        Named(q, k)' /\ Path(q, k)' = <<run'[p].dir, k, run'[p].second, m>>
    BY DEF Tried
  <2>1. p # r
    BY <1>2 DEF Kinds
  <2>2. run'[p] = run[p]
    BY <1>2, <2>1
  <2>3. PICK q \in Runs \ {p} : Named(q, k) /\ Path(q, k) = <<run[p].dir, k, run[p].second, m>>
    BY <2>2 DEF Tried
  <2> QED BY <1>3, <2>2, <2>3
<1>6. Clashing'
  <2>1. CASE \A q \in Runs : ~(Active(q) /\ run[q].dir = dir /\ run[q].second = second)
    <3>1. clash \subseteq clash'
      BY DEF Start
    <3> QED BY <1>2, <2>1, <3>1 DEF Clashing, Active
  <2>2. CASE \E q \in Runs : Active(q) /\ run[q].dir = dir /\ run[q].second = second
    <3>1. clash' = clash \cup {q \in Runs : Active(q) /\ run[q].dir = dir /\ run[q].second = second}
                         \cup {r}
      BY <2>2 DEF Start
    <3> QED BY <1>2, <3>1 DEF Clashing, Active
  <2> QED BY <2>1, <2>2
<1>7. clash \subseteq clash'
  BY DEF Start
<1>8. Owned'
  <2> SUFFICES ASSUME NEW p \in Runs, p \notin clash PROVE Owns(p)'
    BY <1>7 DEF Owned
  <2>1. CASE p = r
    BY <1>2, <2>1 DEF Owns, Opened, Sealed, At
  <2>2. CASE p # r
    <3>1. run'[p] = run[p] /\ Path(p, "raw")' = Path(p, "raw") /\ Path(p, "output")' = Path(p, "output")
      BY <1>2, <1>3, <2>2 DEF Kinds
    <3>2. Owns(p)
      BY DEF Owned
    <3> QED BY <1>2, <3>1, <3>2 DEF Owns, Opened, Sealed, At
  <2> QED BY <2>1, <2>2
<1>9. Apart'
  <2> SUFFICES ASSUME NEW p \in Runs, p \notin clash, NEW q \in Runs, NEW k \in Kinds,
                      p # q, At(p, "done")', Active(q)', Named(q, k)'
               PROVE  Path(q, k)' # Path(p, k)'
    BY <1>7 DEF Apart
  <2>1. p # r /\ q # r
    BY <1>2, <1>3 DEF At
  <2> QED BY <1>2, <1>3, <2>1 DEF Apart, At, Active
<1> QED BY <1>1, <1>4, <1>5, <1>6, <1>8, <1>9

\* A name that is taken is that of another run, which keeps it.
LEMMA TryKeepsInv ==
  ASSUME LogsConstantsOK, LogsInv, RunsOK', NEW r \in Runs, NEW c \in Kinds, ~Named(r, c),
         ~At(r, "idle"), Active(r), Exists(Path(r, c)), run' = [run EXCEPT ![r][c] = @ + 1],
         UNCHANGED <<files, clash>>
  PROVE  LogsInv'
<1> USE DEF LogsInv
<1>1. /\ \A q \in Runs \ {r} : run'[q] = run[q]
      /\ \A q \in Runs : /\ run'[q].at = run[q].at /\ run'[q].dir = run[q].dir
                         /\ run'[q].second = run[q].second /\ run'[q].saved = run[q].saved
  BY DEF RunsOK, Rec, Kinds
<1>2. run'[r][c] = run[r][c] + 1 /\ run[r][c] \in Nat
  BY DEF RunsOK, Rec, Kinds
<1>3. \A k \in Kinds : k # c => run'[r][k] = run[r][k]
  BY DEF RunsOK, Rec, Kinds
<1>4. ASSUME NEW q \in Runs, NEW k \in Kinds
      PROVE  (Named(q, k)' <=> Named(q, k)) /\ (Named(q, k) => Path(q, k)' = Path(q, k))
  <2>1. Named(q, k)' <=> Named(q, k)
    BY <1>1 DEF Named
  <2>2. CASE q # r
    BY <1>1, <2>1, <2>2 DEF Path
  <2>3. CASE q = r
    BY <1>1, <1>3, <2>1, <2>3 DEF Path
  <2> QED BY <2>1, <2>2, <2>3
<1>5. Written'
  <2>1. ASSUME NEW p \in Paths, NEW q \in files[p].by PROVE Named(q, p[2])' /\ Path(q, p[2])' = p
    <3>1. p[2] \in Kinds /\ q \in Runs
      BY DEF Written, File, Paths
    <3> QED BY <1>4, <3>1 DEF Written
  <2> QED BY <2>1 DEF Written, Exists, Absent
<1>6. PICK w \in Runs \ {r} : Named(w, c) /\ Path(w, c) = Path(r, c)
  <2>1. Path(r, c) \in Paths
    BY NameIsPath
  <2>2. PICK w \in files[Path(r, c)].by : TRUE
    BY <2>1 DEF Written
  <2>3. w \in Runs
    BY <2>1 DEF Written, File
  <2> QED BY <2>1, <2>2, <2>3 DEF Written, Path
<1>7. Tried'
  <2> SUFFICES ASSUME NEW p \in Runs, NEW k \in Kinds, NEW m \in 0 .. (run'[p][k] - 1)
               PROVE  \E q \in Runs \ {p} :
                        Named(q, k)' /\ Path(q, k)' = <<run[p].dir, k, run[p].second, m>>
    BY <1>1 DEF Tried
  <2>1. CASE p = r /\ k = c /\ m = run[r][c]
    BY <1>4, <1>6, <2>1 DEF Path
  <2>2. CASE ~(p = r /\ k = c /\ m = run[r][c])
    <3>1. m \in 0 .. (run[p][k] - 1)
      <4>1. CASE p = r /\ k = c
        BY <1>2, <2>2, <4>1
      <4>2. CASE ~(p = r /\ k = c)
        BY <1>1, <1>3, <4>2
      <4> QED BY <4>1, <4>2
    <3>2. PICK q \in Runs \ {p} : Named(q, k) /\ Path(q, k) = <<run[p].dir, k, run[p].second, m>>
      BY <3>1 DEF Tried
    <3> QED BY <1>4, <3>2
  <2> QED BY <2>1, <2>2
<1>8. Clashing'
  BY <1>1 DEF Clashing, Active
<1>9. Owned'
  <2> SUFFICES ASSUME NEW p \in Runs, p \notin clash PROVE Owns(p)'
    BY DEF Owned
  <2>1. /\ Opened(p) \/ Sealed(p) => Named(p, "raw") /\ Named(p, "output")
        /\ At(p, "write") \/ At(p, "close") => Opened(p)
    BY DEF Opened, Sealed, Named, At
  <2>2. Opened(p) \/ Sealed(p) => \A k \in Kinds : Path(p, k)' = Path(p, k)
    BY <1>4, <2>1 DEF Kinds
  <2>3. Owns(p)
    BY DEF Owned
  <2> QED BY <1>1, <2>1, <2>2, <2>3 DEF Owns, Opened, Sealed, At, Kinds
<1>10. Apart'
  <2> SUFFICES ASSUME NEW p \in Runs, p \notin clash, NEW q \in Runs, NEW k \in Kinds,
                      p # q, At(p, "done")', Active(q)', Named(q, k)'
               PROVE  Path(q, k)' # Path(p, k)'
    BY DEF Apart
  <2>1. At(p, "done") /\ Active(q) /\ Named(q, k)
    BY <1>1, <1>4 DEF At, Active
  <2>2. Named(p, k)
    BY <2>1 DEF At, Named
  <2> QED BY <1>4, <2>1, <2>2 DEF Apart
<1> QED BY <1>5, <1>7, <1>8, <1>9, <1>10

LEMMA NamingKeepsInv ==
  ASSUME LogsConstantsOK, LogsInv, NEW r \in Runs,
         \/ NameFile(r, "raw_name", "raw", "output_name")
         \/ NameFile(r, "output_name", "output", "open")
  PROVE  LogsInv'
<1>1. RunsOK'
  BY NamingKeepsRuns DEF LogsInv
<1>2. ASSUME NEW k \in Kinds, NEW from \in {"raw_name", "output_name"}, NEW next \in {"output_name", "open"},
             At(r, from), Goto(r, next), ~Exists(Path(r, k)), UNCHANGED <<files, clash>>,
             k = "raw" <=> from = "raw_name", from = "raw_name" <=> next = "output_name"
      PROVE  LogsInv'
  <2>1. /\ \A q \in Runs \ {r} : run'[q] = run[q]
        /\ run'[r] = [run[r] EXCEPT !.at = next]
        /\ run'[r].at = next
    BY <1>2 DEF LogsInv, RunsOK, Rec, Goto
  <2>2. Plain(r)
    BY <1>2, <2>1 DEF LogsInv, RunsOK, Rec, Plain, At, Active, Named, Kinds
  <2>3. ASSUME NEW j \in Kinds, Named(r, j)' PROVE Named(r, j) \/ ~Exists(Path(r, j))
    BY <1>2, <2>1, <2>3 DEF Named, At, Kinds
  <2>4. Owns(r)'
    BY <1>2, <2>1 DEF Owns, Opened, Sealed, At
  <2> QED BY <1>1, <1>2, <2>2, <2>3, <2>4, PlainKeepsInv
<1>3. ASSUME NEW k \in Kinds, Exists(Path(r, k)), run' = [run EXCEPT ![r][k] = @ + 1],
             UNCHANGED <<files, clash>>, k = "raw" => At(r, "raw_name"),
             k = "output" => At(r, "output_name")
      PROVE  LogsInv'
  <2>1. ~Named(r, k) /\ ~At(r, "idle") /\ Active(r)
    BY <1>3 DEF Named, At, Active, Kinds
  <2> QED BY <1>1, <1>3, <2>1, TryKeepsInv
<1>4. CASE NameFile(r, "raw_name", "raw", "output_name")
  <2>1. CASE Exists(Path(r, "raw"))
    BY <1>3, <1>4, <2>1 DEF NameFile, Kinds
  <2>2. CASE ~Exists(Path(r, "raw"))
    BY <1>2, <1>4, <2>2 DEF NameFile, Kinds
  <2> QED BY <2>1, <2>2
<1>5. CASE NameFile(r, "output_name", "output", "open")
  <2>1. CASE Exists(Path(r, "output"))
    BY <1>3, <1>5, <2>1 DEF NameFile, Kinds
  <2>2. CASE ~Exists(Path(r, "output"))
    BY <1>2, <1>5, <2>2 DEF NameFile, Kinds
  <2> QED BY <2>1, <2>2
<1> QED BY <1>4, <1>5

\* A run that has both names, and goes on at some other point.
LEMMA NamedGoesOn ==
  ASSUME RunsOK, NEW r \in Runs, Active(r), Named(r, "output"), clash' = clash,
         NEW s \in Rec, run' = [run EXCEPT ![r] = s],
         s.dir = run[r].dir, s.second = run[r].second, s.raw = run[r].raw,
         s.output = run[r].output, s.at \notin {"idle", "raw_name", "output_name"}
  PROVE  /\ Plain(r)
         /\ \A k \in Kinds : Named(r, k)
         /\ run'[r] = s
         /\ \A k \in Kinds : Path(r, k)' = Path(r, k)
<1>1. run'[r] = s /\ \A q \in Runs \ {r} : run'[q] = run[q]
  BY DEF RunsOK
<1>2. \A k \in Kinds : Named(r, k) /\ Named(r, k)'
  BY <1>1 DEF Named, Kinds
<1>3. Plain(r)
  BY <1>1, <1>2 DEF Plain
<1> QED BY <1>1, <1>2, <1>3, PlainNames

LEMMA WritingKeepsInv ==
  ASSUME LogsConstantsOK, LogsInv, NEW r \in Runs,
         OpenOutput(r) \/ CreateRaw(r) \/ (\E saved \in BOOLEAN : WriteRaw(r, saved))
         \/ CloseOutput(r)
  PROVE  LogsInv'
<1>1. RunsOK'
  BY WritingKeepsRuns, LinkingKeepsRuns DEF LogsInv
<1>2. Active(r) /\ ~At(r, "idle") /\ Named(r, "output")
  BY DEF OpenOutput, CreateRaw, WriteRaw, CloseOutput, At, Active, Named
<1>3. Path(r, "output") \in Paths /\ Path(r, "raw") \in Paths
  BY <1>2, NameIsPath DEF LogsInv, Kinds
<1>4. Path(r, "output") # Path(r, "raw")
  BY DEF Path
<1>5. "raw" \in Kinds /\ "output" \in Kinds
  BY DEF Kinds
<1>6. files \in [Paths -> File]
  BY DEF LogsInv, Written
<1>7. run[r] \in Rec
  BY DEF LogsInv, RunsOK
<1>8. r \notin clash => Owns(r)
  BY DEF LogsInv, Owned
<1>9. PICK s \in Rec : run'[r] = s /\ run' = [run EXCEPT ![r] = s]
  BY <1>1 DEF LogsInv, RunsOK, OpenOutput, CreateRaw, WriteRaw, CloseOutput, Goto
<1>10. /\ s.dir = run[r].dir /\ s.second = run[r].second /\ s.raw = run[r].raw
       /\ s.output = run[r].output /\ s.at \in {"run", "write", "close", "lstat"}
       /\ clash' = clash
  <2> DEFINE Same == /\ run'[r].dir = run[r].dir /\ run'[r].second = run[r].second
                     /\ run'[r].raw = run[r].raw /\ run'[r].output = run[r].output
                     /\ run'[r].at \in {"run", "write", "close", "lstat"}
                     /\ clash' = clash
  <2>1. ASSUME OpenOutput(r) PROVE Same
    BY <1>7, <2>1 DEF OpenOutput, Goto, LogsInv, RunsOK, Rec
  <2>2. ASSUME CreateRaw(r) PROVE Same
    BY <1>7, <2>2 DEF CreateRaw, Goto, LogsInv, RunsOK, Rec
  <2>3. ASSUME NEW saved \in BOOLEAN, WriteRaw(r, saved) PROVE Same
    BY <1>7, <2>3 DEF WriteRaw, LogsInv, RunsOK, Rec
  <2>4. ASSUME CloseOutput(r) PROVE Same
    BY <1>7, <2>4 DEF CloseOutput, LogsInv, RunsOK, Rec
  <2>5. Same
    BY <2>1, <2>2, <2>3, <2>4, <1>9
  <2> QED BY <1>9, <2>5
<1>11. /\ Plain(r)
       /\ \A k \in Kinds : Named(r, k)
       /\ Path(r, "output")' = Path(r, "output") /\ Path(r, "raw")' = Path(r, "raw")
  BY <1>2, <1>5, <1>9, <1>10, NamedGoesOn DEF LogsInv
<1>12. ASSUME NEW k \in Kinds, NEW whole \in BOOLEAN, WritesOwn(r, k, whole), r \notin clash => Owns(r)'
       PROVE  LogsInv'
  BY <1>1, <1>11, <1>12, PlainKeepsInv
<1>13. CASE OpenOutput(r)
  <2>1. files' = [files EXCEPT ![Path(r, "output")] = [by |-> {r}, whole |-> FALSE]]
    BY <1>13 DEF OpenOutput
  <2>2. run'[r].at = "run"
    BY <1>7, <1>13 DEF OpenOutput, Goto, LogsInv, RunsOK, Rec
  <2>3. Owns(r)'
    BY <1>3, <1>6, <1>11, <2>1, <2>2 DEF Owns, Opened, Sealed, At
  <2> QED BY <1>3, <1>5, <1>11, <1>12, <2>1, <2>3 DEF WritesOwn
<1>14. CASE CreateRaw(r)
  <2>1. files' = [files EXCEPT ![Path(r, "raw")] = [by |-> {r}, whole |-> FALSE]]
    BY <1>14 DEF CreateRaw
  <2>2. run[r].at = "run" /\ run'[r].at = "write"
    BY <1>7, <1>14 DEF CreateRaw, Goto, At, LogsInv, RunsOK, Rec
  <2>3. r \notin clash => Owns(r)'
    BY <1>3, <1>4, <1>6, <1>8, <1>11, <2>1, <2>2 DEF Owns, Opened, Sealed, At
  <2> QED BY <1>3, <1>5, <1>11, <1>12, <2>1, <2>3 DEF WritesOwn
<1>15. ASSUME NEW saved \in BOOLEAN, WriteRaw(r, saved) PROVE LogsInv'
  <2>1. files' = [files EXCEPT ![Path(r, "raw")] = [by |-> files[Path(r, "raw")].by \cup {r},
                                                    whole |-> saved]]
    BY <1>15 DEF WriteRaw
  <2>2. run[r].at = "write" /\ run'[r].at = "close" /\ run'[r].saved = saved
    BY <1>7, <1>15 DEF WriteRaw, At, LogsInv, RunsOK, Rec
  <2>3. r \notin clash => Owns(r)'
    <3>1. r \notin clash => files[Path(r, "raw")].by \cup {r} = {r}
      BY <1>8, <2>2 DEF Owns, At
    <3> QED BY <1>3, <1>4, <1>6, <1>8, <1>11, <2>1, <2>2, <3>1 DEF Owns, Opened, Sealed, At
  <2> QED BY <1>3, <1>5, <1>11, <1>12, <2>1, <2>3 DEF WritesOwn
<1>16. CASE CloseOutput(r)
  <2>1. files' = [files EXCEPT ![Path(r, "output")] = [by |-> files[Path(r, "output")].by \cup {r},
                                                       whole |-> TRUE]]
    BY <1>16 DEF CloseOutput
  <2>2. run[r].at = "close" /\ run'[r].at = "lstat" /\ run'[r].saved = run[r].saved
    BY <1>7, <1>16 DEF CloseOutput, At, LogsInv, RunsOK, Rec
  <2>3. r \notin clash => Owns(r)'
    <3>1. r \notin clash => files[Path(r, "output")].by \cup {r} = {r}
      BY <1>8, <2>2 DEF Owns, Opened
    <3> QED BY <1>3, <1>4, <1>6, <1>8, <1>11, <2>1, <2>2, <3>1 DEF Owns, Opened, Sealed, At
  <2> QED BY <1>3, <1>5, <1>11, <1>12, <2>1, <2>3 DEF WritesOwn
<1> QED BY <1>13, <1>14, <1>15, <1>16

\* The links are no concern of the logs.
LEMMA LinkingKeepsInv ==
  ASSUME LogsConstantsOK, LogsInv, NEW r \in Runs, Lstat(r) \/ Unlink(r) \/ Symlink(r)
  PROVE  LogsInv'
<1>1. RunsOK'
  BY LinkingKeepsRuns DEF LogsInv
<1>2. /\ Active(r) /\ Named(r, "output") /\ Sealed(r)
      /\ UNCHANGED <<files, clash>>
  BY DEF Lstat, Unlink, Symlink, At, Active, Named, Sealed
<1>3. run[r] \in Rec
  BY DEF LogsInv, RunsOK
<1>4. PICK s \in Rec : run'[r] = s /\ run' = [run EXCEPT ![r] = s]
  BY <1>1 DEF LogsInv, RunsOK, Lstat, Unlink, Symlink, NextLink, Goto
<1>5. /\ s.dir = run[r].dir /\ s.second = run[r].second /\ s.raw = run[r].raw
      /\ s.output = run[r].output /\ s.saved = run[r].saved
      /\ s.at \in {"lstat", "unlink", "symlink", "done"}
  <2> DEFINE Same == /\ run'[r].dir = run[r].dir /\ run'[r].second = run[r].second
                     /\ run'[r].raw = run[r].raw /\ run'[r].output = run[r].output
                     /\ run'[r].saved = run[r].saved
                     /\ run'[r].at \in {"lstat", "unlink", "symlink", "done"}
  <2>1. ASSUME NextLink(r) PROVE Same
    <3>1. PICK todo : todo = Tail(run[r].todo)
      OBVIOUS
    <3>2. CASE todo = << >>
      <4>1. run' = [run EXCEPT ![r].todo = todo, ![r].at = "done"]
        BY <2>1, <3>1, <3>2 DEF NextLink
      <4> QED BY <1>3, <4>1 DEF LogsInv, RunsOK, Rec
    <3>3. CASE todo # << >>
      <4>1. run' = [run EXCEPT ![r].todo = todo, ![r].at = "lstat"]
        BY <2>1, <3>1, <3>3 DEF NextLink
      <4> QED BY <1>3, <4>1 DEF LogsInv, RunsOK, Rec
    <3> QED BY <3>2, <3>3
  <2>2. ASSUME NEW p \in {"symlink", "unlink"}, Goto(r, p) PROVE Same
    BY <1>3, <2>2 DEF Goto, LogsInv, RunsOK, Rec
  <2>3. NextLink(r) \/ \E p \in {"symlink", "unlink"} : Goto(r, p)
    BY DEF Lstat, Unlink, Symlink
  <2>4. Same
    BY <2>1, <2>2, <2>3
  <2> QED BY <1>4, <2>4
<1>6. /\ Plain(r)
      /\ \A k \in Kinds : Named(r, k)
      /\ Path(r, "output")' = Path(r, "output") /\ Path(r, "raw")' = Path(r, "raw")
  BY <1>2, <1>4, <1>5, NamedGoesOn DEF LogsInv, Kinds
<1>7. r \notin clash => Owns(r)'
  <2>1. r \notin clash => Owns(r)
    BY DEF LogsInv, Owned
  <2> QED BY <1>2, <1>4, <1>5, <1>6, <2>1 DEF Owns, Opened, Sealed, At
<1> QED BY <1>1, <1>2, <1>6, <1>7, PlainKeepsInv

\* A run that is cut off owns nothing, and tries no more names.
LEMMA CutOffKeepsInv ==
  ASSUME LogsConstantsOK, LogsInv, NEW r \in Runs, CutOff(r)
  PROVE  LogsInv'
<1>1. RunsOK'
  BY WritingKeepsRuns DEF LogsInv
<1>2. /\ \A q \in Runs \ {r} : run'[q] = run[q]
      /\ run'[r].dir = run[r].dir /\ run'[r].second = run[r].second
      /\ run'[r].raw = run[r].raw /\ run'[r].output = run[r].output
      /\ run'[r].at = "cut" /\ UNCHANGED <<files, clash>> /\ Active(r)
  BY DEF LogsInv, RunsOK, Rec, CutOff, Goto
<1>3. Plain(r)
  BY <1>2 DEF Plain, Named
<1>4. ~Active(r)' /\ Owns(r)'
  BY <1>2 DEF Active, Owns, Opened, Sealed, At
<1> QED BY <1>1, <1>2, <1>3, <1>4, PlainKeepsInv

LEMMA LogsInvInit ==
  ASSUME LogsConstantsOK, LogsInit
  PROVE  LogsInv
<1>1. \A r \in Runs : run[r] = [at |-> "idle", dir |-> "top", second |-> 0, raw |-> 0,
                                output |-> 0, todo |-> << >>, saved |-> FALSE]
  BY DEF LogsInit
<1>2. RunsOK
  <2>1. [at |-> "idle", dir |-> "top", second |-> 0, raw |-> 0, output |-> 0,
         todo |-> << >>, saved |-> FALSE] \in Rec
    BY DEF Rec, Dirs, LogPoint
  <2>2. run \in [Runs -> Rec]
    BY <2>1 DEF LogsInit
  <2> QED BY <1>1, <2>2 DEF RunsOK, At, Linking
<1>3. Written
  <2>1. Absent \in File
    BY DEF Absent, File
  <2> QED BY <2>1 DEF LogsInit, Written, Exists, Absent
<1>4. Tried
  BY <1>1 DEF Tried, Kinds
<1>5. Clashing /\ Owned /\ Apart
  BY <1>1 DEF Clashing, Owned, Owns, Apart, Active, Opened, Sealed, At
<1> QED BY <1>2, <1>3, <1>4, <1>5 DEF LogsInv

LEMMA LogsInvNext ==
  ASSUME LogsConstantsOK, LogsInv, [LogsNext]_logsVars
  PROVE  LogsInv'
<1>1. CASE UNCHANGED logsVars
  <2> USE <1>1 DEF logsVars, LogsInv
  <2>1. RunsOK'
    BY DEF RunsOK, At, Linking
  <2>2. Written'
    BY DEF Written, Exists, Named, Path
  <2>3. Tried'
    BY DEF Tried, Named, Path
  <2>4. Clashing'
    BY DEF Clashing, Active
  <2>5. Owned'
    BY DEF Owned, Owns, Opened, Sealed, At, Path
  <2>6. Apart'
    BY DEF Apart, Active, Named, Path, At
  <2> QED BY <2>1, <2>2, <2>3, <2>4, <2>5, <2>6
<1>2. ASSUME NEW r \in Runs,
             \/ \E dir \in Dirs, second \in Seconds : Start(r, dir, second)
             \/ NameFile(r, "raw_name", "raw", "output_name")
             \/ NameFile(r, "output_name", "output", "open")
             \/ OpenOutput(r)
             \/ CreateRaw(r) \/ \E saved \in BOOLEAN : WriteRaw(r, saved)
             \/ CloseOutput(r)
             \/ Lstat(r) \/ Unlink(r) \/ Symlink(r)
             \/ CutOff(r)
      PROVE  LogsInv'
  BY <1>2, StartKeepsInv, NamingKeepsInv, WritingKeepsInv, LinkingKeepsInv, CutOffKeepsInv
<1> QED BY <1>1, <1>2 DEF LogsNext, LogsTerminated

\* No run loses or mixes up its logs (test_logs.c): those of a finished run are
\* its own and complete, unless another run of its directory and second ran at
\* the same time, however many runs there are and in whatever order they go.
THEOREM NoLogIsLost ==
  ASSUME LogsConstantsOK
  PROVE  LogsSpec => []LogsKept
<1>1. LogsInit => LogsInv
  BY LogsInvInit
<1>2. LogsInv /\ [LogsNext]_logsVars => LogsInv'
  BY LogsInvNext
<1>3. LogsInv => LogsKept
  BY DEF LogsInv, Owned, Owns, LogsKept, Sealed, At
<1> QED BY <1>1, <1>2, <1>3, PTL DEF LogsSpec

-----------------------------------------------------------------------------
(* The links to the latest logs.                                           *)

DirOK(r) ==
  ~At(r, "idle") => IF multitarget THEN run[r].dir \in Targets ELSE run[r].dir = "top"

\* The logs of a run are there once it made them.
Made(r) ==
  /\ Opened(r) \/ Sealed(r) => Exists(Path(r, "output"))
  /\ run[r].at \in {"write", "close"} \/ Sealed(r) => Exists(Path(r, "raw"))

Pair(d) == << <<d, "output">>, <<d, "raw">> >>
Half(d) == << <<d, "raw">> >>
Four(d) == << <<d, "output">>, <<d, "raw">>, <<"top", "output">>, <<"top", "raw">> >>
Three(d) == << <<d, "raw">>, <<"top", "output">>, <<"top", "raw">> >>

\* What is left of LinksOf.
Todos(d) == {Pair("top"), Half("top")} \cup IF multitarget THEN {Four(d), Three(d)} ELSE {}

TodoOK(r) == Linking(r) => run[r].todo \in Todos(run[r].dir)

Ahead(t) == {t[i] : i \in 1 .. Len(t)}

Pending(r) == IF Linking(r) THEN Ahead(run[r].todo) ELSE {}

\* A link names a log of its kind that is there.
LinkOK(d, k) ==
  links[<<d, k>>] # << >> =>
    links[<<d, k>>] \in Paths /\ links[<<d, k>>][2] = k /\ Exists(links[<<d, k>>])

\* While no two runs set links at once and none is cut off there ...
Exclusive == \A r, q \in Runs : Linking(r) /\ Linking(q) => r = q

\* ... a run finds a link as it saw it, has set the first of the two links of a
\* directory before it sets the second ...
Stepwise(r) ==
  /\ At(r, "unlink") => links[Link(r)] # << >>
  /\ At(r, "symlink") => links[Link(r)] = << >>
  /\ Linking(r) /\ Link(r)[2] = "raw" => last[Link(r)[1]] = r

\* ... and what no run is about to set names the logs of the last that did.
Settled(d, k) ==
  last[d] # "none" /\ (\A r \in Runs : <<d, k>> \notin Pending(r))
    => links[<<d, k>>] = Path(last[d], k)

Orderly ==
  /\ Exclusive
  /\ \A r \in Runs : Stepwise(r)
  /\ \A d \in Dirs, k \in Kinds : Settled(d, k)
  /\ \A d \in Dirs : last[d] # "none" => Sealed(last[d])

LinkInv ==
  /\ links = [l \in Dirs \X Kinds |-> links[l]]
  /\ last \in [Dirs -> Runs \cup {"none"}]
  /\ \A r \in Runs : DirOK(r) /\ Made(r) /\ TodoOK(r)
  /\ \A d \in Dirs, k \in Kinds : LinkOK(d, k)
  /\ ~mixed => Orderly

\* What is done first of the links that are left, and what is left after it.
Agenda(link, left, d) ==
  /\ link \in Dirs \X Kinds
  /\ left = << >> \/ left \in Todos(d)
  /\ link[2] = "output" => left # << >> /\ Head(left) = <<link[1], "raw">>
  /\ link[2] = "raw" /\ left # << >> => Head(left)[2] = "output"

LEMMA AgendaOutput ==
  ASSUME NEW d, NEW e \in Dirs, NEW left \in Todos(d), left # << >>, Head(left) = <<e, "raw">>
  PROVE  Agenda(<<e, "output">>, left, d)
  BY DEF Agenda, Kinds

LEMMA AgendaRaw ==
  ASSUME NEW d, NEW e \in Dirs, NEW left \in Todos(d) \cup {<< >>},
         left # << >> => Head(left)[2] = "output"
  PROVE  Agenda(<<e, "raw">>, left, d)
  BY DEF Agenda, Kinds

LEMMA TodoFacts ==
  ASSUME NEW r \in Runs, Linking(r), TodoOK(r), DirOK(r)
  PROVE  /\ Agenda(Link(r), Tail(run[r].todo), run[r].dir)
         /\ Pending(r) = {Link(r)} \cup Ahead(Tail(run[r].todo))
<1> DEFINE t == run[r].todo
           d == run[r].dir
<1>1. "top" \in Dirs /\ "raw" \in Kinds /\ "output" \in Kinds
  BY DEF Dirs, Kinds
<1>2. multitarget => d \in Dirs
  BY DEF DirOK, Linking, At, Dirs
<1>3. /\ Ahead(<< >>) = {}
      /\ Ahead(Half("top")) = {<<"top", "raw">>}
      /\ Ahead(Pair("top")) = {<<"top", "output">>, <<"top", "raw">>}
      /\ Ahead(Three(d)) = {<<d, "raw">>, <<"top", "output">>, <<"top", "raw">>}
  BY DEF Ahead, Half, Pair, Three
<1>4. /\ Half("top") # << >> /\ Head(Half("top")) = <<"top", "raw">>
      /\ Pair("top") # << >> /\ Head(Pair("top")) = <<"top", "output">>
      /\ Three(d) # << >> /\ Head(Three(d)) = <<d, "raw">>
  BY DEF Half, Pair, Three
<1>5. /\ Half("top") \in Todos(d) /\ Pair("top") \in Todos(d)
      /\ multitarget => Three(d) \in Todos(d)
  BY DEF Todos
<1>6. CASE t = Half("top")
  <2>1. Link(r) = <<"top", "raw">> /\ Tail(t) = << >> /\ Pending(r) = {<<"top", "raw">>}
    BY <1>6 DEF Half, Link, Pending, Ahead
  <2>2. Pending(r) = {Link(r)} \cup Ahead(Tail(t))
    BY <1>3, <2>1
  <2>3. Agenda(<<"top", "raw">>, << >>, d)
    BY <1>1, AgendaRaw
  <2> QED BY <2>1, <2>2, <2>3
<1>7. CASE t = Pair("top")
  <2>1. /\ Link(r) = <<"top", "output">> /\ Tail(t) = Half("top")
        /\ Pending(r) = {<<"top", "output">>, <<"top", "raw">>}
    BY <1>7 DEF Pair, Half, Link, Pending, Ahead
  <2>2. Pending(r) = {Link(r)} \cup Ahead(Tail(t))
    BY <1>3, <2>1
  <2>3. Agenda(<<"top", "output">>, Half("top"), d)
    BY <1>1, <1>4, <1>5, AgendaOutput
  <2> QED BY <2>1, <2>2, <2>3
<1>8. CASE t = Three(d) /\ multitarget
  <2>1. /\ Link(r) = <<d, "raw">> /\ Tail(t) = Pair("top")
        /\ Pending(r) = {<<d, "raw">>, <<"top", "output">>, <<"top", "raw">>}
    BY <1>8 DEF Three, Pair, Link, Pending, Ahead
  <2>2. Pending(r) = {Link(r)} \cup Ahead(Tail(t))
    BY <1>3, <2>1
  <2>3. Agenda(<<d, "raw">>, Pair("top"), d)
    <3>1. Head(Pair("top"))[2] = "output"
      BY <1>4
    <3> QED BY <1>2, <1>5, <1>8, <3>1, AgendaRaw
  <2> QED BY <2>1, <2>2, <2>3
<1>9. CASE t = Four(d) /\ multitarget
  <2>1. /\ Link(r) = <<d, "output">> /\ Tail(t) = Three(d)
        /\ Pending(r) = {<<d, "output">>, <<d, "raw">>, <<"top", "output">>, <<"top", "raw">>}
    BY <1>9 DEF Four, Three, Link, Pending, Ahead
  <2>2. Pending(r) = {Link(r)} \cup Ahead(Tail(t))
    BY <1>3, <2>1
  <2>3. Agenda(<<d, "output">>, Three(d), d)
    BY <1>2, <1>4, <1>5, <1>9, AgendaOutput
  <2> QED BY <2>1, <2>2, <2>3
<1>10. t \in Todos(d)
  BY DEF TodoOK
<1> QED BY <1>6, <1>7, <1>8, <1>9, <1>10 DEF Todos

\* Steps that set no links.
LEMMA QuietLinks ==
  ASSUME LogsConstantsOK, LogsInv, LinkInv, NEW r \in Runs, UNCHANGED <<multitarget, links, last>>,
         \A q \in Runs \ {r} : run'[q] = run[q],
         \A p \in Paths : Exists(p) => Exists(p)',
         DirOK(r)', Made(r)', TodoOK(r)',
         ~mixed' => /\ ~mixed /\ ~Sealed(r)
                    /\ Linking(r)' => /\ run'[r].at = "lstat" /\ Link(r)'[2] = "output"
                                      /\ \A q \in Runs : ~Linking(q)
  PROVE  LinkInv'
<1> USE DEF LinkInv
<1>1. ASSUME NEW q \in Runs, q # r
      PROVE  /\ \A k \in Kinds : Path(q, k)' = Path(q, k)
             /\ \A point : At(q, point)' <=> At(q, point)
             /\ Linking(q)' <=> Linking(q)
             /\ Opened(q)' <=> Opened(q)
             /\ Sealed(q)' <=> Sealed(q)
             /\ Pending(q)' = Pending(q)
             /\ Link(q)' = Link(q)
  BY <1>1 DEF Path, At, Linking, Opened, Sealed, Pending, Link
<1>2. ASSUME NEW q \in Runs PROVE DirOK(q)' /\ Made(q)' /\ TodoOK(q)'
  <2>1. CASE q # r
    <3>1. run'[q] = run[q]
      BY <2>1
    <3>2. DirOK(q)'
      BY <3>1 DEF DirOK, At
    <3>3. TodoOK(q)'
      BY <3>1 DEF TodoOK, Todos, Linking
    <3>4. Opened(q) \/ Sealed(q) => \A k \in Kinds : Path(q, k) \in Paths
      BY NameIsPath DEF Opened, Sealed, At, LogsInv
    <3>5. run[q].at \in {"write", "close"} => Opened(q)
      BY DEF Opened
    <3>6. Made(q)
      OBVIOUS
    <3>7. Made(q)'
      BY <1>1, <2>1, <3>1, <3>4, <3>5, <3>6 DEF Made, Kinds
    <3> QED BY <3>2, <3>3, <3>7
  <2> QED BY <2>1
<1>3. \A d \in Dirs, k \in Kinds : LinkOK(d, k)'
  BY DEF LinkOK
<1>4. ASSUME ~mixed' PROVE Orderly'
  <2>1. /\ Orderly /\ ~Sealed(r) /\ ~Linking(r)
        /\ Linking(r)' => /\ run'[r].at = "lstat" /\ Link(r)'[2] = "output"
                          /\ \A q \in Runs : ~Linking(q)
    BY <1>4 DEF Sealed, Linking
  <2>2. Exclusive'
    BY <1>1, <2>1 DEF Exclusive, Orderly
  <2>3. ASSUME NEW q \in Runs PROVE Stepwise(q)'
    <3>1. CASE q # r
      <4>1. Stepwise(q)
        BY <2>1 DEF Orderly
      <4> QED BY <1>1, <3>1, <4>1 DEF Stepwise
    <3>2. CASE q = r
      BY <2>1, <3>2 DEF Stepwise, Linking, At
    <3> QED BY <3>1, <3>2
  <2>4. ASSUME NEW d \in Dirs, last[d] # "none" PROVE last[d] \in Runs \ {r} /\ Sealed(last[d])
    BY <2>1, <2>4 DEF Orderly
  <2>5. ASSUME NEW d \in Dirs, NEW k \in Kinds PROVE Settled(d, k)'
    <3> SUFFICES ASSUME last[d] # "none", \A q \in Runs : <<d, k>> \notin Pending(q)'
                 PROVE  links[<<d, k>>] = Path(last[d], k)'
      BY <2>4 DEF Settled, Path
    <3>1. \A q \in Runs : <<d, k>> \notin Pending(q)
      BY <1>1, <2>1 DEF Pending
    <3>2. links[<<d, k>>] = Path(last[d], k)
      BY <2>1, <3>1 DEF Orderly, Settled
    <3> QED BY <1>1, <2>4, <3>2
  <2>6. \A d \in Dirs : last'[d] # "none" => Sealed(last[d])'
    BY <1>1, <2>4
  <2> QED BY <2>2, <2>3, <2>5, <2>6 DEF Orderly, Sealed
<1> QED BY <1>2, <1>3, <1>4

\* A run that sets links only goes on in its list.
LEMMA LinkMoved ==
  ASSUME LogsInv, LinkInv, NEW r \in Runs, \A q \in Runs \ {r} : run'[q] = run[q],
         run'[r].dir = run[r].dir, run'[r].second = run[r].second,
         run'[r].raw = run[r].raw, run'[r].output = run[r].output,
         Linking(r), Sealed(r)', TodoOK(r)', UNCHANGED <<multitarget, files>>
  PROVE  /\ \A q \in Runs : DirOK(q)' /\ Made(q)' /\ TodoOK(q)'
         /\ \A q \in Runs, k \in Kinds : Path(q, k)' = Path(q, k)
         /\ \A q \in Runs : Sealed(q)' <=> Sealed(q)
         /\ Sealed(r)
         /\ \A q \in Runs \ {r} : (Linking(q)' <=> Linking(q)) /\ Pending(q)' = Pending(q)
<1> USE DEF LinkInv
<1>1. \A q \in Runs, k \in Kinds : Path(q, k)' = Path(q, k)
  BY DEF Path, Kinds
<1>2. Sealed(r)
  BY DEF Linking, Sealed
<1>3. \A q \in Runs : Sealed(q)' <=> Sealed(q)
  BY <1>2 DEF Sealed
<1>4. \A q \in Runs \ {r} : (Linking(q)' <=> Linking(q)) /\ Pending(q)' = Pending(q)
  BY DEF Linking, Pending
<1>5. ASSUME NEW q \in Runs PROVE DirOK(q)' /\ Made(q)' /\ TodoOK(q)'
  <2>1. Made(q) /\ DirOK(q)
    OBVIOUS
  <2>2. Path(q, "raw")' = Path(q, "raw") /\ Path(q, "output")' = Path(q, "output")
    BY <1>1 DEF Kinds
  <2>3. CASE q # r
    <3>1. run'[q] = run[q]
      BY <2>3
    <3>2. DirOK(q)'
      BY <2>1, <3>1 DEF DirOK, At
    <3>3. TodoOK(q)'
      BY <3>1 DEF TodoOK, Todos, Linking
    <3>4. Made(q)'
      BY <2>1, <2>2, <3>1 DEF Made, Exists, Opened, Sealed
    <3> QED BY <3>2, <3>3, <3>4
  <2>4. CASE q = r
    <3>1. DirOK(q)'
      BY <2>1, <2>4 DEF DirOK, At, Linking
    <3>2. Made(q)'
      BY <1>2, <2>1, <2>2, <2>4 DEF Made, Exists
    <3> QED BY <2>4, <3>1, <3>2
  <2> QED BY <2>3, <2>4
<1> QED BY <1>1, <1>2, <1>3, <1>4, <1>5

\* The run turns to its next link.
LEMMA NextLinkFacts ==
  ASSUME LogsInv, LinkInv, NEW r \in Runs, Linking(r), NextLink(r),
         UNCHANGED multitarget
  PROVE  /\ \A q \in Runs \ {r} : run'[q] = run[q]
         /\ run'[r].dir = run[r].dir /\ run'[r].second = run[r].second
         /\ run'[r].raw = run[r].raw /\ run'[r].output = run[r].output
         /\ Sealed(r)' /\ TodoOK(r)'
         /\ Linking(r)' => run'[r].at = "lstat" /\ Link(r)' = Head(Tail(run[r].todo))
         /\ Linking(r)' <=> Tail(run[r].todo) # << >>
         /\ Pending(r)' = Ahead(Tail(run[r].todo))
         /\ last' = [last EXCEPT ![Link(r)[1]] = r]
<1> DEFINE left == Tail(run[r].todo)
<1>1. run \in [Runs -> Rec] /\ DirOK(r) /\ TodoOK(r)
  BY DEF LogsInv, RunsOK, LinkInv
<1>2. left = << >> \/ left \in Todos(run[r].dir)
  BY <1>1, TodoFacts DEF Agenda
<1>3. run' = [run EXCEPT ![r].todo = left, ![r].at = IF left = << >> THEN "done" ELSE "lstat"]
  BY DEF NextLink
<1> HIDE DEF left
<1>4. /\ \A q \in Runs \ {r} : run'[q] = run[q]
      /\ run'[r].dir = run[r].dir /\ run'[r].second = run[r].second
      /\ run'[r].raw = run[r].raw /\ run'[r].output = run[r].output
      /\ run'[r].todo = left /\ run'[r].at = IF left = << >> THEN "done" ELSE "lstat"
  BY <1>1, <1>3 DEF Rec
<1>5. Sealed(r)' /\ (Linking(r)' <=> left # << >>)
  BY <1>4 DEF Sealed, Linking
<1>6. TodoOK(r)'
  BY <1>2, <1>4, <1>5 DEF TodoOK, Todos
<1>7. Pending(r)' = Ahead(left)
  <2>1. Ahead(<< >>) = {}
    BY DEF Ahead
  <2> QED BY <1>4, <1>5, <2>1 DEF Pending
<1>8. Linking(r)' => run'[r].at = "lstat" /\ Link(r)' = Head(left)
  BY <1>4, <1>5 DEF Link
<1>9. last' = [last EXCEPT ![Link(r)[1]] = r]
  BY DEF NextLink
<1> QED BY <1>4, <1>5, <1>6, <1>7, <1>8, <1>9 DEF left

LEMMA LstatLinks ==
  ASSUME LogsInv, LinkInv, NEW r \in Runs, Lstat(r)
  PROVE  LinkInv'
<1> USE DEF LinkInv
<1>1. /\ UNCHANGED <<multitarget, files, links, last, mixed>> /\ Linking(r)
      /\ \A q \in Runs \ {r} : run'[q] = run[q]
      /\ run'[r] = [run[r] EXCEPT !.at = IF links[Link(r)] = << >> THEN "symlink" ELSE "unlink"]
      /\ run[r] \in Rec
  BY DEF Lstat, Goto, At, Linking, LogsInv, RunsOK
<1>2. /\ run'[r].dir = run[r].dir /\ run'[r].second = run[r].second
      /\ run'[r].raw = run[r].raw /\ run'[r].output = run[r].output
      /\ run'[r].todo = run[r].todo
      /\ run'[r].at = IF links[Link(r)] = << >> THEN "symlink" ELSE "unlink"
  BY <1>1 DEF Rec
<1>3. Linking(r)' /\ Sealed(r)' /\ Link(r)' = Link(r) /\ Pending(r)' = Pending(r)
  BY <1>1, <1>2 DEF Linking, Sealed, Link, Pending
<1>4. TodoOK(r)'
  BY <1>1, <1>2 DEF TodoOK, Todos
<1>5. /\ \A q \in Runs : DirOK(q)' /\ Made(q)' /\ TodoOK(q)'
      /\ \A q \in Runs, k \in Kinds : Path(q, k)' = Path(q, k)
      /\ \A q \in Runs : Sealed(q)' <=> Sealed(q)
      /\ Sealed(r)
      /\ \A q \in Runs \ {r} : (Linking(q)' <=> Linking(q)) /\ Pending(q)' = Pending(q)
  BY <1>1, <1>2, <1>3, <1>4, LinkMoved
<1>6. \A d \in Dirs, k \in Kinds : LinkOK(d, k)'
  BY <1>1 DEF LinkOK, Exists
<1>7. ASSUME ~mixed' PROVE Orderly'
  <2>1. Orderly
    BY <1>1, <1>7
  <2>2. Exclusive'
    BY <1>1, <1>5, <2>1 DEF Orderly, Exclusive
  <2>3. ASSUME NEW q \in Runs PROVE Stepwise(q)'
    <3>1. CASE q # r
      BY <1>1, <2>1, <3>1 DEF Orderly, Stepwise, At, Link, Linking
    <3>2. CASE q = r
      BY <1>1, <1>2, <1>3, <2>1, <3>2 DEF Orderly, Stepwise, At
    <3> QED BY <3>1, <3>2
  <2>4. ASSUME NEW d \in Dirs, NEW k \in Kinds PROVE Settled(d, k)'
    <3> SUFFICES ASSUME last[d] # "none", \A q \in Runs : <<d, k>> \notin Pending(q)'
                 PROVE  links[<<d, k>>] = Path(last[d], k)'
      BY <1>1 DEF Settled, Path
    <3>1. \A q \in Runs : <<d, k>> \notin Pending(q)
      BY <1>3, <1>5
    <3>2. links[<<d, k>>] = Path(last[d], k) /\ last[d] \in Runs
      BY <2>1, <3>1 DEF Orderly, Settled
    <3> QED BY <1>1, <1>5, <3>2
  <2>5. ASSUME NEW d \in Dirs, last'[d] # "none" PROVE Sealed(last[d])'
    BY <1>1, <1>5, <2>1, <2>5 DEF Orderly
  <2> QED BY <1>1, <2>2, <2>3, <2>4, <2>5 DEF Orderly, Sealed
<1> QED BY <1>1, <1>5, <1>6, <1>7

\* A link that is gone before it is removed: only when runs set links at once.
LEMMA UnlinkLinks ==
  ASSUME LogsInv, LinkInv, NEW r \in Runs, Unlink(r)
  PROVE  LinkInv'
<1> USE DEF LinkInv
<1>1. UNCHANGED <<multitarget, files, mixed>> /\ Linking(r) /\ At(r, "unlink") /\ TodoOK(r) /\ DirOK(r)
  BY DEF Unlink, At, Linking
<1>2. CASE links[Link(r)] = << >>
  <2>1. NextLink(r) /\ links' = links
    BY <1>2 DEF Unlink
  <2>2. /\ \A q \in Runs \ {r} : run'[q] = run[q]
        /\ run'[r].dir = run[r].dir /\ run'[r].second = run[r].second
        /\ run'[r].raw = run[r].raw /\ run'[r].output = run[r].output
        /\ Sealed(r)' /\ TodoOK(r)'
        /\ last' = [last EXCEPT ![Link(r)[1]] = r]
    BY <1>1, <2>1, NextLinkFacts
  <2>3. \A q \in Runs : DirOK(q)' /\ Made(q)' /\ TodoOK(q)'
    BY <1>1, <2>2, LinkMoved
  <2>4. \A d \in Dirs, k \in Kinds : LinkOK(d, k)'
    BY <1>1, <2>1 DEF LinkOK, Exists
  <2>5. mixed'
    BY <1>1, <1>2 DEF Orderly, Stepwise
  <2>6. last' \in [Dirs -> Runs \cup {"none"}]
    BY <2>2
  <2> QED BY <2>1, <2>3, <2>4, <2>5, <2>6
<1>3. CASE links[Link(r)] # << >>
  <2>1. /\ links' = [links EXCEPT ![Link(r)] = << >>]
        /\ \A q \in Runs \ {r} : run'[q] = run[q]
        /\ run'[r] = [run[r] EXCEPT !.at = "symlink"]
        /\ run[r] \in Rec /\ last' = last
    BY <1>3 DEF Unlink, Goto, LogsInv, RunsOK
  <2>2. /\ run'[r].dir = run[r].dir /\ run'[r].second = run[r].second
        /\ run'[r].raw = run[r].raw /\ run'[r].output = run[r].output
        /\ run'[r].todo = run[r].todo /\ run'[r].at = "symlink"
    BY <2>1 DEF Rec
  <2>3. Linking(r)' /\ Sealed(r)' /\ Link(r)' = Link(r) /\ Pending(r)' = Pending(r)
    BY <1>1, <2>2 DEF Linking, Sealed, Link, Pending
  <2>4. TodoOK(r)'
    BY <1>1, <2>2 DEF TodoOK, Todos
  <2>5. /\ \A q \in Runs : DirOK(q)' /\ Made(q)' /\ TodoOK(q)'
        /\ \A q \in Runs, k \in Kinds : Path(q, k)' = Path(q, k)
        /\ \A q \in Runs : Sealed(q)' <=> Sealed(q)
        /\ \A q \in Runs \ {r} : (Linking(q)' <=> Linking(q)) /\ Pending(q)' = Pending(q)
    BY <1>1, <2>1, <2>2, <2>3, <2>4, LinkMoved
  <2>6. Link(r) \in Dirs \X Kinds /\ Link(r) \in Pending(r)
    BY <1>1, TodoFacts DEF Agenda
  <2>7. /\ links'[Link(r)] = << >>
        /\ \A l \in Dirs \X Kinds : l # Link(r) => links'[l] = links[l]
        /\ links' = [l \in Dirs \X Kinds |-> links'[l]]
    BY <2>1, <2>6
  <2>8. ASSUME NEW d \in Dirs, NEW k \in Kinds PROVE LinkOK(d, k)'
    <3>1. LinkOK(d, k) /\ <<d, k>> \in Dirs \X Kinds
      OBVIOUS
    <3> QED BY <1>1, <2>7, <3>1 DEF LinkOK, Exists
  <2>9. ASSUME ~mixed' PROVE Orderly'
    <3>1. Orderly
      BY <1>1, <2>9
    <3>2. Exclusive'
      BY <1>1, <2>5, <3>1 DEF Orderly, Exclusive
    <3>3. ASSUME NEW q \in Runs PROVE Stepwise(q)'
      <4>1. CASE q # r
        <5>1. ~Linking(q)'
          BY <2>3, <3>2, <4>1 DEF Exclusive
        <5> QED BY <5>1 DEF Stepwise, At, Linking
      <4>2. CASE q = r
        BY <1>1, <2>1, <2>2, <2>3, <2>7, <3>1, <4>2 DEF Orderly, Stepwise, At
      <4> QED BY <4>1, <4>2
    <3>4. ASSUME NEW d \in Dirs, NEW k \in Kinds PROVE Settled(d, k)'
      <4> SUFFICES ASSUME last[d] # "none", \A q \in Runs : <<d, k>> \notin Pending(q)'
                   PROVE  links'[<<d, k>>] = Path(last[d], k)'
        BY <2>1 DEF Settled, Path
      <4>1. \A q \in Runs : <<d, k>> \notin Pending(q)
        BY <2>3, <2>5
      <4>2. links[<<d, k>>] = Path(last[d], k) /\ last[d] \in Runs
        BY <3>1, <4>1 DEF Orderly, Settled
      <4>3. <<d, k>> # Link(r) /\ <<d, k>> \in Dirs \X Kinds
        BY <2>6, <4>1
      <4> QED BY <2>1, <2>5, <2>7, <4>2, <4>3
    <3>5. ASSUME NEW d \in Dirs, last'[d] # "none" PROVE Sealed(last[d])'
      BY <2>1, <2>5, <3>1, <3>5 DEF Orderly
    <3> QED BY <2>1, <3>2, <3>3, <3>4, <3>5 DEF Orderly, Sealed
  <2> QED BY <2>1, <2>5, <2>7, <2>8, <2>9
<1> QED BY <1>2, <1>3

LEMMA SymlinkLinks ==
  ASSUME LogsConstantsOK, LogsInv, LinkInv, NEW r \in Runs, Symlink(r)
  PROVE  LinkInv'
<1> USE DEF LinkInv
<1> DEFINE e == Link(r)[1]
           j == Link(r)[2]
           left == Tail(run[r].todo)
<1>1. /\ UNCHANGED <<multitarget, files, mixed>> /\ Linking(r) /\ At(r, "symlink")
      /\ TodoOK(r) /\ DirOK(r) /\ Made(r)
      /\ NextLink(r)
      /\ links' = [links EXCEPT ![Link(r)] = IF @ = << >> THEN Path(r, j) ELSE @]
  BY DEF Symlink, At, Linking
<1>2. /\ Agenda(Link(r), left, run[r].dir)
      /\ Pending(r) = {Link(r)} \cup Ahead(left)
  BY <1>1, TodoFacts
<1>3. /\ \A q \in Runs \ {r} : run'[q] = run[q]
      /\ run'[r].dir = run[r].dir /\ run'[r].second = run[r].second
      /\ run'[r].raw = run[r].raw /\ run'[r].output = run[r].output
      /\ Sealed(r)' /\ TodoOK(r)'
      /\ Linking(r)' => run'[r].at = "lstat" /\ Link(r)' = Head(left)
      /\ Linking(r)' <=> left # << >>
      /\ Pending(r)' = Ahead(left)
      /\ last' = [last EXCEPT ![e] = r]
  BY <1>1, NextLinkFacts
<1>4. /\ \A q \in Runs : DirOK(q)' /\ Made(q)' /\ TodoOK(q)'
      /\ \A q \in Runs, k \in Kinds : Path(q, k)' = Path(q, k)
      /\ \A q \in Runs : Sealed(q)' <=> Sealed(q)
      /\ Sealed(r)
      /\ \A q \in Runs \ {r} : (Linking(q)' <=> Linking(q)) /\ Pending(q)' = Pending(q)
  BY <1>1, <1>3, LinkMoved
<1>5. e \in Dirs /\ j \in Kinds /\ Link(r) = <<e, j>> /\ Link(r) \in Dirs \X Kinds
  BY <1>2 DEF Agenda
<1>6. /\ j = "output" => left # << >> /\ Head(left) = <<e, "raw">> /\ <<e, "raw">> \in Ahead(left)
      /\ j = "raw" /\ left # << >> => Head(left)[2] = "output"
  <2>1. left = << >> \/ left \in Todos(run[r].dir)
    BY <1>2 DEF Agenda
  <2> HIDE DEF left
  <2>2. left # << >> => Len(left) \in Nat \ {0} /\ Head(left) = left[1]
    BY <2>1 DEF Todos, Pair, Half, Four, Three
  <2>3. left # << >> => 1 \in 1 .. Len(left)
    BY <2>2
  <2>4. left # << >> => Head(left) \in Ahead(left)
    BY <2>2, <2>3 DEF Ahead
  <2> QED BY <1>2, <2>4 DEF Agenda
<1> HIDE DEF left
<1>7. /\ last' \in [Dirs -> Runs \cup {"none"}] /\ last'[e] = r
      /\ \A d \in Dirs : d # e => last'[d] = last[d]
  BY <1>3, <1>5
<1>8. /\ links' = [l \in Dirs \X Kinds |-> links'[l]]
      /\ \A l \in Dirs \X Kinds : l # Link(r) => links'[l] = links[l]
      /\ links'[Link(r)] = IF links[Link(r)] = << >> THEN Path(r, j) ELSE links[Link(r)]
  BY <1>1, <1>5
<1>9. ASSUME NEW d \in Dirs, NEW k \in Kinds PROVE LinkOK(d, k)'
  <2>1. LinkOK(d, k) /\ <<d, k>> \in Dirs \X Kinds
    OBVIOUS
  <2>2. CASE links'[<<d, k>>] = links[<<d, k>>]
    BY <1>1, <2>1, <2>2 DEF LinkOK, Exists
  <2>3. CASE <<d, k>> = Link(r) /\ links'[<<d, k>>] = Path(r, k)
    <3>1. Path(r, k) \in Paths
      BY <1>4, NameIsPath DEF LogsInv, Sealed, At
    <3>2. Exists(Path(r, k))
      BY <1>1, <1>4 DEF Made, Kinds
    <3>3. Path(r, k)[2] = k
      BY DEF Path
    <3> QED BY <1>1, <2>3, <3>1, <3>2, <3>3 DEF LinkOK, Exists
  <2> QED BY <1>5, <1>8, <2>1, <2>2, <2>3
<1>10. ASSUME ~mixed' PROVE Orderly'
  <2>1. Orderly
    BY <1>1, <1>10
  <2>2. links'[Link(r)] = Path(r, j)
    BY <1>1, <1>8, <2>1 DEF Orderly, Stepwise
  <2>3. Exclusive'
    BY <1>1, <1>4, <2>1 DEF Orderly, Exclusive
  <2>4. \A q \in Runs : Linking(q) => q = r
    BY <1>1, <2>1 DEF Orderly, Exclusive
  <2>5. ASSUME NEW q \in Runs PROVE Stepwise(q)'
    <3>1. CASE q # r
      <4>1. ~Linking(q)'
        BY <1>4, <2>4, <3>1
      <4> QED BY <4>1 DEF Stepwise, At, Linking
    <3>2. CASE q = r
      <4>1. ~At(r, "unlink")' /\ ~At(r, "symlink")'
        BY <1>3 DEF At, Linking
      <4>2. ASSUME Linking(r)', Link(r)'[2] = "raw" PROVE last'[Link(r)'[1]] = r
        <5>1. Link(r)' = Head(left) /\ left # << >>
          BY <1>3, <4>2 DEF left
        <5>2. j = "output"
          BY <1>5, <1>6, <4>2, <5>1 DEF Kinds
        <5>3. Link(r)' = <<e, "raw">>
          BY <1>6, <5>1, <5>2
        <5> QED BY <1>7, <5>3
      <4> QED BY <3>2, <4>1, <4>2 DEF Stepwise
    <3> QED BY <3>1, <3>2
  <2>6. ASSUME NEW d \in Dirs, NEW k \in Kinds PROVE Settled(d, k)'
    <3> SUFFICES ASSUME last'[d] # "none", \A q \in Runs : <<d, k>> \notin Pending(q)'
                 PROVE  links'[<<d, k>>] = Path(last[d], k)'
      BY DEF Settled
    <3>1. <<d, k>> \in Dirs \X Kinds
      OBVIOUS
    <3>2. CASE <<d, k>> = Link(r)
      BY <1>4, <1>5, <1>7, <2>2, <3>2
    <3>3. CASE <<d, k>> # Link(r)
      <4>1. \A q \in Runs : <<d, k>> \notin Pending(q)
        BY <1>2, <1>3, <1>4, <3>3 DEF left
      <4>2. d = e => last[d] = r
        <5> SUFFICES ASSUME d = e PROVE last[d] = r
          OBVIOUS
        <5>1. j = "raw"
          <6>1. j = "output" => k = "raw"
            BY <1>5, <3>3 DEF Kinds
          <6>2. j # "output"
            BY <1>3, <1>6, <6>1 DEF left
          <6> QED BY <1>5, <6>2 DEF Kinds
        <5> QED BY <1>1, <2>1, <5>1 DEF Orderly, Stepwise
      <4>3. last'[d] = last[d]
        BY <1>7, <4>2
      <4>4. links[<<d, k>>] = Path(last[d], k) /\ last[d] \in Runs
        BY <2>1, <4>1, <4>3 DEF Orderly, Settled
      <4> QED BY <1>4, <1>8, <3>1, <3>3, <4>3, <4>4
    <3> QED BY <3>2, <3>3
  <2>7. ASSUME NEW d \in Dirs, last'[d] # "none" PROVE Sealed(last[d])'
    <3>1. CASE d = e
      BY <1>3, <1>7, <3>1
    <3>2. CASE d # e
      BY <1>4, <1>7, <2>1, <2>7, <3>2 DEF Orderly
    <3> QED BY <3>1, <3>2
  <2> QED BY <2>3, <2>5, <2>6, <2>7 DEF Orderly
<1> QED BY <1>4, <1>7, <1>8, <1>9, <1>10

\* A file that was written is there, and what was there stays.
LEMMA FilesStay ==
  ASSUME Written, NEW path \in Paths, NEW by, NEW whole, by # {},
         files' = [files EXCEPT ![path] = [by |-> by, whole |-> whole]]
  PROVE  Exists(path)' /\ \A p \in Paths : Exists(p) => Exists(p)'
<1>1. [by |-> by, whole |-> whole] # Absent
  <2>1. [by |-> by, whole |-> whole].by # Absent.by
    BY DEF Absent
  <2> QED BY <2>1
<1>2. \A p \in Paths : files'[p] = IF p = path THEN [by |-> by, whole |-> whole] ELSE files[p]
  BY DEF Written
<1> QED BY <1>1, <1>2 DEF Exists, Absent

LEMMA NamingLinks ==
  ASSUME LogsConstantsOK, LogsInv, LinkInv, NEW r \in Runs,
         \/ \E dir \in Dirs, second \in Seconds : Start(r, dir, second)
         \/ NameFile(r, "raw_name", "raw", "output_name")
         \/ NameFile(r, "output_name", "output", "open")
         \/ CutOff(r)
  PROVE  LinkInv'
<1>1. run \in [Runs -> Rec] /\ DirOK(r)
  BY DEF LogsInv, RunsOK, LinkInv
<1>2. /\ UNCHANGED <<multitarget, files, links, last>>
      /\ \A q \in Runs \ {r} : run'[q] = run[q]
      /\ run'[r].at \in {"raw_name", "output_name", "open", "cut"}
      /\ ~mixed' => ~mixed /\ ~Sealed(r)
  <2>1. ASSUME NEW dir \in Dirs, NEW second \in Seconds, Start(r, dir, second)
        PROVE  /\ UNCHANGED <<multitarget, files, links, last>>
               /\ \A q \in Runs \ {r} : run'[q] = run[q]
               /\ run'[r].at \in {"raw_name", "output_name", "open", "cut"}
               /\ ~mixed' => ~mixed /\ ~Sealed(r)
    BY <1>1, <2>1 DEF Start, At, Sealed, Rec
  <2>2. CASE NameFile(r, "raw_name", "raw", "output_name")
    BY <1>1, <2>2 DEF NameFile, At, Goto, Sealed, Rec
  <2>3. CASE NameFile(r, "output_name", "output", "open")
    BY <1>1, <2>3 DEF NameFile, At, Goto, Sealed, Rec
  <2>4. CASE CutOff(r)
    BY <1>1, <2>4 DEF CutOff, Goto, Sealed, Linking, Active, Rec
  <2> QED BY <2>1, <2>2, <2>3, <2>4
<1>3. DirOK(r)'
  <2>1. ASSUME NEW dir \in Dirs, NEW second \in Seconds, Start(r, dir, second) PROVE DirOK(r)'
    BY <1>1, <2>1 DEF Start, Rec, DirOK
  <2>2. ASSUME run'[r].dir = run[r].dir, ~At(r, "idle") PROVE DirOK(r)'
    BY <1>1, <1>2, <2>2 DEF DirOK
  <2>3. CASE NameFile(r, "raw_name", "raw", "output_name")
    BY <1>1, <2>2, <2>3 DEF NameFile, At, Goto, Rec
  <2>4. CASE NameFile(r, "output_name", "output", "open")
    BY <1>1, <2>2, <2>4 DEF NameFile, At, Goto, Rec
  <2>5. CASE CutOff(r)
    BY <1>1, <2>2, <2>5 DEF CutOff, At, Active, Goto, Rec
  <2> QED BY <2>1, <2>3, <2>4, <2>5
<1>4. Made(r)' /\ TodoOK(r)' /\ ~Linking(r)'
  BY <1>2 DEF Made, TodoOK, Opened, Sealed, Linking
<1>5. \A p \in Paths : Exists(p) => Exists(p)'
  BY <1>2 DEF Exists
<1> QED BY <1>2, <1>3, <1>4, <1>5, QuietLinks

\* The steps that write the logs, up to the one that starts with the links.
LEMMA WritingLinks ==
  ASSUME LogsConstantsOK, LogsInv, LinkInv, NEW r \in Runs,
         OpenOutput(r) \/ CreateRaw(r) \/ (\E saved \in BOOLEAN : WriteRaw(r, saved))
         \/ CloseOutput(r)
  PROVE  LinkInv'
<1>1. run \in [Runs -> Rec] /\ Written /\ DirOK(r) /\ Made(r)
  BY DEF LogsInv, RunsOK, LinkInv
<1>2. /\ UNCHANGED <<multitarget, links, last>> /\ ~At(r, "idle") /\ ~Sealed(r)
      /\ ~mixed' => ~mixed
  <2>1. CASE OpenOutput(r) \/ CreateRaw(r)
    BY <2>1 DEF OpenOutput, CreateRaw, At, Sealed
  <2>2. CASE \E saved \in BOOLEAN : WriteRaw(r, saved)
    BY <2>2 DEF WriteRaw, At, Sealed
  <2>3. CASE CloseOutput(r)
    BY <2>3 DEF CloseOutput, At, Sealed
  <2> QED BY <2>1, <2>2, <2>3
<1>3. Path(r, "output") \in Paths /\ Path(r, "raw") \in Paths
  BY <1>2, NameIsPath DEF LogsInv, Kinds
<1>4. /\ \A q \in Runs \ {r} : run'[q] = run[q]
      /\ run'[r].dir = run[r].dir /\ run'[r].second = run[r].second
      /\ run'[r].raw = run[r].raw /\ run'[r].output = run[r].output
  <2>1. CASE OpenOutput(r)
    BY <1>1, <2>1 DEF OpenOutput, Goto, Rec
  <2>2. CASE CreateRaw(r)
    BY <1>1, <2>2 DEF CreateRaw, Goto, Rec
  <2>3. ASSUME NEW saved \in BOOLEAN, WriteRaw(r, saved)
        PROVE  /\ \A q \in Runs \ {r} : run'[q] = run[q]
               /\ run'[r].dir = run[r].dir /\ run'[r].second = run[r].second
               /\ run'[r].raw = run[r].raw /\ run'[r].output = run[r].output
    BY <1>1, <2>3 DEF WriteRaw, Rec
  <2>4. CASE CloseOutput(r)
    BY <1>1, <2>4 DEF CloseOutput, Rec
  <2> QED BY <2>1, <2>2, <2>3, <2>4
<1>5. Path(r, "output")' = Path(r, "output") /\ Path(r, "raw")' = Path(r, "raw")
  BY <1>4 DEF Path
<1>6. ASSUME NEW k \in Kinds, NEW by, by # {}, NEW whole,
             files' = [files EXCEPT ![Path(r, k)] = [by |-> by, whole |-> whole]]
      PROVE  Exists(Path(r, k))' /\ \A p \in Paths : Exists(p) => Exists(p)'
  <2>1. Path(r, k) \in Paths /\ Path(r, k)' = Path(r, k)
    BY <1>3, <1>5 DEF Kinds
  <2> QED BY <1>1, <1>6, <2>1, FilesStay
<1>7. ASSUME run'[r].at # "idle" PROVE DirOK(r)'
  BY <1>1, <1>2, <1>4, <1>7 DEF DirOK
<1>8. "raw" \in Kinds /\ "output" \in Kinds
  BY DEF Kinds
<1>9. ASSUME NEW k \in Kinds,
             Exists(Path(r, k))', \A p \in Paths : Exists(p) => Exists(p)',
             \/ k = "output" /\ run'[r].at = "run"
             \/ k = "raw" /\ run[r].at = "run" /\ run'[r].at = "write"
             \/ k = "raw" /\ run[r].at = "write" /\ run'[r].at = "close"
      PROVE  LinkInv'
  <2>1. Made(r)'
    BY <1>1, <1>3, <1>5, <1>9 DEF Made, Opened, Sealed
  <2>2. TodoOK(r)' /\ ~Linking(r)'
    BY <1>9 DEF TodoOK, Linking
  <2> QED BY <1>2, <1>4, <1>7, <1>9, <2>1, <2>2, QuietLinks
<1>10. CASE OpenOutput(r)
  <2>1. run'[r].at = "run"
    BY <1>1, <1>10 DEF OpenOutput, Goto, Rec
  <2>2. files' = [files EXCEPT ![Path(r, "output")] = [by |-> {r}, whole |-> FALSE]]
    BY <1>10 DEF OpenOutput
  <2> QED BY <1>6, <1>8, <1>9, <2>1, <2>2
<1>11. CASE CreateRaw(r)
  <2>1. run[r].at = "run" /\ run'[r].at = "write"
    BY <1>1, <1>11 DEF CreateRaw, At, Goto, Rec
  <2>2. files' = [files EXCEPT ![Path(r, "raw")] = [by |-> {r}, whole |-> FALSE]]
    BY <1>11 DEF CreateRaw
  <2> QED BY <1>6, <1>8, <1>9, <2>1, <2>2
<1>12. ASSUME NEW saved \in BOOLEAN, WriteRaw(r, saved) PROVE LinkInv'
  <2>1. run[r].at = "write" /\ run'[r].at = "close"
    BY <1>1, <1>12 DEF WriteRaw, At, Rec
  <2>2. files' = [files EXCEPT ![Path(r, "raw")] =
                    [by |-> files[Path(r, "raw")].by \cup {r}, whole |-> saved]]
    BY <1>12 DEF WriteRaw
  <2>3. files[Path(r, "raw")].by \cup {r} # {}
    OBVIOUS
  <2> QED BY <1>6, <1>8, <1>9, <2>1, <2>2, <2>3
<1>13. CASE CloseOutput(r)
  <2>1. /\ run[r].at = "close" /\ run'[r].at = "lstat" /\ run'[r].todo = LinksOf(r)
        /\ ~mixed' => \A q \in Runs : ~Linking(q)
    BY <1>1, <1>13 DEF CloseOutput, At, Rec
  <2>2. files' = [files EXCEPT ![Path(r, "output")] =
                    [by |-> files[Path(r, "output")].by \cup {r}, whole |-> TRUE]]
    BY <1>13 DEF CloseOutput
  <2>3. files[Path(r, "output")].by \cup {r} # {}
    OBVIOUS
  <2>4. Exists(Path(r, "output"))' /\ \A p \in Paths : Exists(p) => Exists(p)'
    BY <1>6, <1>8, <2>2, <2>3
  <2>5. Made(r)'
    BY <1>1, <1>3, <1>5, <2>1, <2>4 DEF Made, Opened, Sealed
  <2>6. /\ LinksOf(r) = IF multitarget THEN Four(run[r].dir) ELSE Pair("top")
        /\ LinksOf(r)[1][2] = "output"
    <3>1. ASSUME NEW a, NEW b, NEW c, NEW d PROVE <<a, b>> \o <<c, d>> = <<a, b, c, d>>
      <4> DEFINE S == {a, b, c, d}
                 both == <<a, b>> \o <<c, d>>
                 four == <<a, b, c, d>>
      <4>1. <<a, b>> \in Seq(S) /\ <<c, d>> \in Seq(S) /\ four \in Seq(S)
        OBVIOUS
      <4>2. /\ both \in Seq(S) /\ Len(both) = 4
            /\ \A i \in 1 .. 4 : both[i] = IF i <= 2 THEN <<a, b>>[i] ELSE <<c, d>>[i - 2]
        BY <4>1, ConcatProperties
      <4>3. \A i \in 1 .. 4 : both[i] = four[i]
        BY <4>2
      <4>4. Len(four) = 4
        OBVIOUS
      <4>5. both = four
        <5> HIDE DEF both, four, S
        <5> QED BY <4>1, <4>2, <4>3, <4>4, SeqEqual
      <4> QED BY <4>5
    <3>2. LinksOf(r) = IF multitarget THEN Four(run[r].dir) ELSE Pair("top")
      BY <3>1 DEF LinksOf, Four, Pair
    <3>3. Four(run[r].dir)[1] = <<run[r].dir, "output">> /\ Pair("top")[1] = <<"top", "output">>
      BY DEF Four, Pair
    <3> QED BY <3>2, <3>3
  <2>7. TodoOK(r)'
    BY <1>2, <1>4, <2>1, <2>6 DEF TodoOK, Todos
  <2>8. Link(r)'[2] = "output"
    BY <2>1, <2>6 DEF Link, Four, Pair
  <2> QED BY <1>2, <1>4, <1>7, <2>1, <2>4, <2>5, <2>7, <2>8, QuietLinks
<1> QED BY <1>10, <1>11, <1>12, <1>13

LEMMA LinkInvInit ==
  ASSUME LogsInit
  PROVE  LinkInv
<1>1. \A r \in Runs : run[r].at = "idle"
  BY DEF LogsInit
<1>2. \A r \in Runs : DirOK(r) /\ Made(r) /\ TodoOK(r)
  BY <1>1 DEF DirOK, Made, TodoOK, At, Opened, Sealed, Linking
<1>3. \A d \in Dirs, k \in Kinds : LinkOK(d, k)
  BY DEF LogsInit, LinkOK
<1>4. Orderly
  BY <1>1 DEF LogsInit, Orderly, Exclusive, Stepwise, Settled, Linking, At
<1> QED BY <1>2, <1>3, <1>4 DEF LogsInit, LinkInv

LEMMA LinkInvNext ==
  ASSUME LogsConstantsOK, LogsInv, LinkInv, [LogsNext]_logsVars
  PROVE  LinkInv'
<1>1. CASE UNCHANGED logsVars
  <2> USE <1>1 DEF logsVars, LinkInv
  <2>1. \A r \in Runs : DirOK(r)' /\ Made(r)' /\ TodoOK(r)'
    BY DEF DirOK, Made, TodoOK, Todos, At, Opened, Sealed, Linking, Exists, Path
  <2>2. \A d \in Dirs, k \in Kinds : LinkOK(d, k)'
    BY DEF LinkOK, Exists
  <2>3. Orderly => Orderly'
    BY DEF Orderly, Exclusive, Stepwise, Settled, Pending, Link, Linking, At, Path, Sealed
  <2> QED BY <2>1, <2>2, <2>3
<1>2. ASSUME NEW r \in Runs,
             \/ \E dir \in Dirs, second \in Seconds : Start(r, dir, second)
             \/ NameFile(r, "raw_name", "raw", "output_name")
             \/ NameFile(r, "output_name", "output", "open")
             \/ OpenOutput(r)
             \/ CreateRaw(r) \/ \E saved \in BOOLEAN : WriteRaw(r, saved)
             \/ CloseOutput(r)
             \/ Lstat(r) \/ Unlink(r) \/ Symlink(r)
             \/ CutOff(r)
      PROVE  LinkInv'
  BY <1>2, NamingLinks, WritingLinks, LstatLinks, UnlinkLinks, SymlinkLinks
<1> QED BY <1>1, <1>2 DEF LogsNext, LogsTerminated

LEMMA LogsInvariant ==
  ASSUME LogsConstantsOK
  PROVE  LogsSpec => [](LogsInv /\ LinkInv)
<1>1. LogsInit => LogsInv /\ LinkInv
  BY LogsInvInit, LinkInvInit
<1>2. LogsInv /\ LinkInv /\ [LogsNext]_logsVars => (LogsInv /\ LinkInv)'
  BY LogsInvNext, LinkInvNext
<1> QED BY <1>1, <1>2, PTL DEF LogsSpec

\* Every variable stays in its type: the loop that looks for a free name ends
\* before there are more names than runs, and a link names a log of its kind.
THEOREM LogsTypeCorrect ==
  ASSUME LogsConstantsOK
  PROVE  LogsSpec => []LogsTypeOK
<1>1. LogsInv /\ LinkInv => LogsTypeOK
  <2> SUFFICES ASSUME LogsInv, LinkInv PROVE LogsTypeOK
    OBVIOUS
  <2>1. files \in [Paths -> File] /\ last \in [Dirs -> Runs \cup {"none"}]
    BY DEF LogsInv, Written, LinkInv
  <2>2. ASSUME NEW d \in Dirs, NEW k \in Kinds, links[<<d, k>>] # << >>
        PROVE  links[<<d, k>>] \in Paths /\ links[<<d, k>>][2] = k
    BY <2>2 DEF LinkInv, LinkOK
  <2>3. ASSUME NEW r \in Runs
        PROVE  /\ run[r].at \in LogPoint
               /\ ~At(r, "idle") => \A k \in Kinds : Path(r, k) \in Paths
    BY NameIsPath DEF LogsInv, RunsOK, Rec
  <2> QED BY <2>1, <2>2, <2>3 DEF LogsTypeOK
<1> QED BY <1>1, LogsInvariant, PTL

\* The latest links name the two logs of the run that finished last, and logs
\* info shows that run, once no run is about to set them (replace_symlink of
\* test_logs.c removes a link before it makes the new one, for each link apart).
THEOREM LatestLinksHonest ==
  ASSUME LogsConstantsOK
  PROVE  LogsSpec => []LatestHonest
<1>1. LogsInv /\ LinkInv => LatestHonest
  <2> SUFFICES ASSUME LogsInv, LinkInv PROVE LatestHonest
    OBVIOUS
  <2> USE DEF LinkInv
  <2>1. ASSUME ~mixed, \A r \in Runs : ~Linking(r), NEW d \in Dirs, last[d] # "none", NEW k \in Kinds
        PROVE  links[<<d, k>>] = Path(last[d], k)
    BY <2>1 DEF Orderly, Settled, Pending
  <2>2. ASSUME ~mixed, last["top"] # "none", \A r \in Runs : ~Linking(r), clash = {}
        PROVE  Shown = IF run[last["top"]].saved THEN {last["top"]} ELSE {}
    <3>1. "top" \in Dirs /\ "raw" \in Kinds
      BY DEF Dirs, Kinds
    <3> DEFINE r == last["top"]
    <3>2. r \in Runs \ clash /\ Sealed(r)
      BY <2>2, <3>1 DEF Orderly
    <3>3. links[<<"top", "raw">>] = Path(r, "raw")
      BY <2>1, <2>2, <3>1
    <3>4. files[Path(r, "raw")] = [by |-> {r}, whole |-> run[r].saved]
      BY <3>2 DEF LogsInv, Owned, Owns
    <3>5. Path(r, "raw") # << >>
      BY DEF Path
    <3>6. files[Path(r, "raw")].by = {r} /\ files[Path(r, "raw")].whole = run[r].saved
      BY <3>4
    <3> QED BY <3>3, <3>5, <3>6 DEF Shown
  <2>3. ASSUME NEW l \in Dirs \X Kinds, links[l] # << >> PROVE Exists(links[l])
    <3>1. PICK d \in Dirs, k \in Kinds : l = <<d, k>>
      OBVIOUS
    <3> QED BY <2>3, <3>1 DEF LinkOK
  <2> QED BY <2>1, <2>2, <2>3 DEF LatestHonest
<1> QED BY <1>1, LogsInvariant, PTL

-----------------------------------------------------------------------------
(* The terminal.  What a text does to it is a recursion over its pieces,   *)
(* so that it is reasoned about through the least piece that goes wrong.   *)

\* A set of numbers that is not empty has a least one.
LEMMA LeastOf ==
  ASSUME NEW P \in SUBSET Nat, P # {}
  PROVE  \E n \in P : \A m \in P : n <= m
<1>1. PICK n \in P : \A m \in P : <<m, n>> \notin OpToRel(<, Nat)
  BY NatLessThanWellFounded, WFMin
<1>2. ASSUME NEW m \in P PROVE n <= m
  <2>1. ~(m < n)
    BY <1>1 DEF OpToRel
  <2> QED BY <2>1
<1> QED BY <1>2

\* Induction, for a set of numbers.
LEMMA UpTo ==
  ASSUME NEW N \in Nat, NEW P, 0 \in P, \A n \in 1 .. N : n - 1 \in P => n \in P
  PROVE  0 .. N \subseteq P
<1> DEFINE Bad == {n \in 0 .. N : n \notin P}
<1>1. SUFFICES ASSUME Bad # {} PROVE FALSE
  OBVIOUS
<1>2. PICK n \in Bad : \A m \in Bad : n <= m
  <2>1. Bad \in SUBSET Nat
    OBVIOUS
  <2> HIDE DEF Bad
  <2> QED BY <1>1, <2>1, LeastOf
<1>3. n \in 1 .. N /\ n - 1 \in 0 .. N /\ n - 1 \notin Bad
  BY <1>2
<1> QED BY <1>2, <1>3

\* write_str goes on piece by piece.
LEMMA WriteSteps ==
  ASSUME NEW t, NEW text, Len(text) \in Nat
  PROVE  \E after :
           /\ after[0] = t
           /\ \A n \in 1 .. Len(text) : after[n] = T!Piece(after[n - 1], text[n])
           /\ T!Write(t, text) = after[Len(text)]
<1> DEFINE Is(f, m) == f = [n \in 0 .. m |-> IF n = 0 THEN t ELSE T!Piece(f[n - 1], text[n])]
           Good == {m \in 0 .. Len(text) : \E f : Is(f, m)}
           h == CHOOSE f : Is(f, Len(text))
<1>1. 0 \in Good
  <2>1. Is([n \in 0 .. 0 |-> t], 0)
    OBVIOUS
  <2>2. \E k : Is(k, 0)
    <3> HIDE DEF Is
    <3> QED BY <2>1
  <2> HIDE DEF Is
  <2> QED BY <2>2
<1>2. ASSUME NEW m \in 1 .. Len(text), m - 1 \in Good PROVE m \in Good
  <2>1. PICK f : Is(f, m - 1)
    BY <1>2
  <2> DEFINE g == [n \in 0 .. m |-> IF n < m THEN f[n] ELSE T!Piece(f[m - 1], text[m])]
  <2>2. \A n \in 0 .. m : g[n] = IF n = 0 THEN t ELSE T!Piece(g[n - 1], text[n])
    BY <2>1
  <2>3. Is(g, m)
    BY <2>2
  <2> HIDE DEF Is, g
  <2>4. \E k : Is(k, m)
    BY <2>3
  <2> QED BY <2>4
<1>3. Len(text) \in Good
  <2> HIDE DEF Good
  <2>1. 0 .. Len(text) \subseteq Good
    BY <1>1, <1>2, UpTo
  <2> QED BY <2>1
<1>4. Is(h, Len(text))
  BY <1>3
<1>5. T!Write(t, text) = h[Len(text)]
  BY DEF T!Write
<1>6. h[0] = t /\ \A n \in 1 .. Len(text) : h[n] = T!Piece(h[n - 1], text[n])
  <2> HIDE DEF h
  <2> QED BY <1>4
<1> HIDE DEF h
<1> QED BY <1>5, <1>6

\* So does advance_col_text,
LEMMA AdvanceSteps ==
  ASSUME NEW col, NEW text, Len(text) \in Nat
  PROVE  \E after :
           /\ after[0] = col
           /\ \A n \in 1 .. Len(text) : after[n] = (IF text[n] = T!NL THEN 0 ELSE after[n - 1] + 1)
           /\ T!Advance(col, text) = after[Len(text)]
<1> DEFINE Is(f, m) == f = [n \in 0 .. m |-> IF n = 0 THEN col ELSE IF text[n] = T!NL THEN 0 ELSE f[n - 1] + 1]
           Good == {m \in 0 .. Len(text) : \E f : Is(f, m)}
           h == CHOOSE f : Is(f, Len(text))
<1>1. 0 \in Good
  <2>1. Is([n \in 0 .. 0 |-> col], 0)
    OBVIOUS
  <2>2. \E k : Is(k, 0)
    <3> HIDE DEF Is
    <3> QED BY <2>1
  <2> HIDE DEF Is
  <2> QED BY <2>2
<1>2. ASSUME NEW m \in 1 .. Len(text), m - 1 \in Good PROVE m \in Good
  <2>1. PICK f : Is(f, m - 1)
    BY <1>2
  <2> DEFINE g == [n \in 0 .. m |-> IF n < m THEN f[n] ELSE IF text[m] = T!NL THEN 0 ELSE f[m - 1] + 1]
  <2>2. \A n \in 0 .. m : g[n] = IF n = 0 THEN col ELSE IF text[n] = T!NL THEN 0 ELSE g[n - 1] + 1
    BY <2>1
  <2>3. Is(g, m)
    BY <2>2
  <2> HIDE DEF Is, g
  <2>4. \E k : Is(k, m)
    BY <2>3
  <2> QED BY <2>4
<1>3. Len(text) \in Good
  <2> HIDE DEF Good
  <2>1. 0 .. Len(text) \subseteq Good
    BY <1>1, <1>2, UpTo
  <2> QED BY <2>1
<1>4. Is(h, Len(text))
  BY <1>3
<1>5. T!Advance(col, text) = h[Len(text)]
  BY DEF T!Advance
<1>6. h[0] = col /\ \A n \in 1 .. Len(text) : h[n] = (IF text[n] = T!NL THEN 0 ELSE h[n - 1] + 1)
  <2> HIDE DEF h
  <2> QED BY <1>4
<1> HIDE DEF h
<1> QED BY <1>5, <1>6

\* the record of what was written,
LEMMA ContinuedSteps ==
  ASSUME NEW lines, NEW text, Len(text) \in Nat
  PROVE  \E after :
           /\ after[0] = lines
           /\ \A n \in 1 .. Len(text) : after[n] = T!Add(after[n - 1], text[n])
           /\ T!Continued(lines, text) = after[Len(text)]
<1> DEFINE Is(f, m) == f = [n \in 0 .. m |-> IF n = 0 THEN lines ELSE T!Add(f[n - 1], text[n])]
           Good == {m \in 0 .. Len(text) : \E f : Is(f, m)}
           h == CHOOSE f : Is(f, Len(text))
<1>1. 0 \in Good
  <2>1. Is([n \in 0 .. 0 |-> lines], 0)
    OBVIOUS
  <2>2. \E k : Is(k, 0)
    <3> HIDE DEF Is
    <3> QED BY <2>1
  <2> HIDE DEF Is
  <2> QED BY <2>2
<1>2. ASSUME NEW m \in 1 .. Len(text), m - 1 \in Good PROVE m \in Good
  <2>1. PICK f : Is(f, m - 1)
    BY <1>2
  <2> DEFINE g == [n \in 0 .. m |-> IF n < m THEN f[n] ELSE T!Add(f[m - 1], text[m])]
  <2>2. \A n \in 0 .. m : g[n] = IF n = 0 THEN lines ELSE T!Add(g[n - 1], text[n])
    BY <2>1
  <2>3. Is(g, m)
    BY <2>2
  <2> HIDE DEF Is, g
  <2>4. \E k : Is(k, m)
    BY <2>3
  <2> QED BY <2>4
<1>3. Len(text) \in Good
  <2> HIDE DEF Good
  <2>1. 0 .. Len(text) \subseteq Good
    BY <1>1, <1>2, UpTo
  <2> QED BY <2>1
<1>4. Is(h, Len(text))
  BY <1>3
<1>5. T!Continued(lines, text) = h[Len(text)]
  BY DEF T!Continued
<1>6. h[0] = lines /\ \A n \in 1 .. Len(text) : h[n] = T!Add(h[n - 1], text[n])
  <2> HIDE DEF h
  <2> QED BY <1>4
<1> HIDE DEF h
<1> QED BY <1>5, <1>6

\* and clear_ui_region, row by row.
LEMMA ClearSteps ==
  ASSUME NEW w, w.u.ui_rows \in Nat
  PROVE  \E after :
           /\ after[0] = w.t
           /\ \A n \in 1 .. w.u.ui_rows : after[n] = T!El(T!Cup(after[n - 1], T!PanelTop(w.u) + n - 1, 0))
           /\ T!ClearPanel(w) = [w EXCEPT !.t = after[w.u.ui_rows]]
<1> DEFINE Is(f, m) == f = [n \in 0 .. m |-> IF n = 0 THEN w.t ELSE T!El(T!Cup(f[n - 1], T!PanelTop(w.u) + n - 1, 0))]
           Good == {m \in 0 .. w.u.ui_rows : \E f : Is(f, m)}
           h == CHOOSE f : Is(f, w.u.ui_rows)
<1>1. 0 \in Good
  <2>1. Is([n \in 0 .. 0 |-> w.t], 0)
    OBVIOUS
  <2>2. \E k : Is(k, 0)
    <3> HIDE DEF Is
    <3> QED BY <2>1
  <2> HIDE DEF Is
  <2> QED BY <2>2
<1>2. ASSUME NEW m \in 1 .. w.u.ui_rows, m - 1 \in Good PROVE m \in Good
  <2>1. PICK f : Is(f, m - 1)
    BY <1>2
  <2> DEFINE g == [n \in 0 .. m |-> IF n < m THEN f[n] ELSE T!El(T!Cup(f[m - 1], T!PanelTop(w.u) + m - 1, 0))]
  <2>2. \A n \in 0 .. m : g[n] = IF n = 0 THEN w.t ELSE T!El(T!Cup(g[n - 1], T!PanelTop(w.u) + n - 1, 0))
    BY <2>1
  <2>3. Is(g, m)
    BY <2>2
  <2> HIDE DEF Is, g
  <2>4. \E k : Is(k, m)
    BY <2>3
  <2> QED BY <2>4
<1>3. w.u.ui_rows \in Good
  <2> HIDE DEF Good
  <2>1. 0 .. w.u.ui_rows \subseteq Good
    BY <1>1, <1>2, UpTo
  <2> QED BY <2>1
<1>4. Is(h, w.u.ui_rows)
  BY <1>3
<1>5. T!ClearPanel(w) = [w EXCEPT !.t = h[w.u.ui_rows]]
  BY DEF T!ClearPanel
<1>6. h[0] = w.t /\ \A n \in 1 .. w.u.ui_rows : h[n] = T!El(T!Cup(h[n - 1], T!PanelTop(w.u) + n - 1, 0))
  <2> HIDE DEF h
  <2> QED BY <1>4
<1> HIDE DEF h
<1> QED BY <1>5, <1>6

-----------------------------------------------------------------------------
(* The terminal.                                                           *)

Words   == {"\n", " ", "?", "-", "[LTF]", "LTF", "progress", "summary", "passed", "failed",
            "test", "reasons", "number", "reason", "level", "time", "body", "more",
            "defer failed", "hook failed", "trace"}
Pieces  == Seq(Words \cup Nat)
Lines   == Seq(Pieces)
Rows(n) == [0 .. n - 1 -> Lines]

\* A terminal with room for the panel and two rows.
Roomy ==
  {t \in [rows : Nat, lines : UNION {Rows(n) : n \in Nat}, above : Seq(Lines),
          bot : Nat, row : Nat, col : Nat, visible : BOOLEAN] :
     /\ t.rows >= 5 /\ t.lines \in Rows(t.rows)
     /\ t.bot < t.rows /\ t.row < t.rows}

\* Terminals that differ at most in the region, in what scrolled out of it and
\* in the cursor.
SameBelow(s, t) ==
  /\ s.rows = t.rows /\ s.bot = t.bot /\ s.visible = t.visible
  /\ \A r \in t.bot + 1 .. t.rows - 1 : s.lines[r] = t.lines[r]

\* Row i of a terminal, from the first that scrolled out; and that its region
\* ends with the given lines.
RowAt(t, i) == IF i <= Len(t.above) THEN t.above[i] ELSE t.lines[i - Len(t.above) - 1]
End(t)      == Len(t.above) + t.bot + 1
Kept(t, lines) ==
  /\ lines \in Seq(Lines) /\ Len(lines) \in 1 .. End(t)
  /\ \A j \in 1 .. Len(lines) : RowAt(t, End(t) - Len(lines) + j) = lines[j]

\* Short texts are texts.
LEMMA OneWord ==
  ASSUME NEW a \in Words
  PROVE  <<a>> \in Pieces
<1>1. a \in Words \cup Nat
  OBVIOUS
<1> HIDE DEF Words
<1> QED BY <1>1 DEF Pieces

LEMMA FunctionIsSeq ==
  ASSUME NEW S, NEW n \in Nat, NEW f, f = [i \in 1 .. n |-> f[i]], \A i \in 1 .. n : f[i] \in S
  PROVE  f \in Seq(S)
OBVIOUS

LEMMA RoomyIs ==
  ASSUME NEW t \in Roomy
  PROVE  /\ t.rows \in Nat /\ t.rows >= 5 /\ t.lines \in Rows(t.rows) /\ t.above \in Seq(Lines)
         /\ t.bot \in Nat /\ t.bot < t.rows /\ t.row \in Nat /\ t.row < t.rows
         /\ t.col \in Nat /\ t.visible \in BOOLEAN
         /\ t = [rows |-> t.rows, lines |-> t.lines, above |-> t.above, bot |-> t.bot,
                 row |-> t.row, col |-> t.col, visible |-> t.visible]
BY DEF Roomy

LEMMA RoomyMade ==
  ASSUME NEW n \in Nat, n >= 5, NEW lines \in Rows(n), NEW above \in Seq(Lines),
         NEW bot \in Nat, bot < n, NEW row \in Nat, row < n, NEW col \in Nat,
         NEW visible \in BOOLEAN
  PROVE  [rows |-> n, lines |-> lines, above |-> above, bot |-> bot, row |-> row,
          col |-> col, visible |-> visible] \in Roomy
<1>1. lines \in UNION {Rows(m) : m \in Nat}
  OBVIOUS
<1> HIDE DEF Rows
<1> QED BY <1>1 DEF Roomy

\* A line feed at the end of the region scrolls it, and elsewhere only moves on.
LEMMA LineFeedIs ==
  ASSUME NEW t \in Roomy
  PROVE  /\ T!LineFeed(t) \in Roomy /\ T!LineFeed(t).col = 0 /\ SameBelow(T!LineFeed(t), t)
         /\ t.row = t.bot =>
              /\ T!LineFeed(t).row = t.bot
              /\ T!LineFeed(t).above = Append(t.above, t.lines[0])
              /\ T!LineFeed(t).lines = [r \in 0 .. t.rows - 1 |->
                                           IF r < t.bot THEN t.lines[r + 1]
                                           ELSE IF r = t.bot THEN << >> ELSE t.lines[r]]
<1>t. /\ t.rows \in Nat /\ t.rows >= 5 /\ t.lines \in Rows(t.rows) /\ t.above \in Seq(Lines)
      /\ t.bot \in Nat /\ t.bot < t.rows /\ t.row \in Nat /\ t.row < t.rows
      /\ t.col \in Nat /\ t.visible \in BOOLEAN
  BY RoomyIs
<1>r. t = [rows |-> t.rows, lines |-> t.lines, above |-> t.above, bot |-> t.bot,
           row |-> t.row, col |-> t.col, visible |-> t.visible]
  BY RoomyIs
<1> USE <1>t
<1>1. CASE t.row = t.bot
  <2> DEFINE L == [r \in 0 .. t.rows - 1 |-> IF r < t.bot THEN t.lines[r + 1]
                                           ELSE IF r = t.bot THEN << >> ELSE t.lines[r]]
             A == Append(t.above, t.lines[0])
  <2>1. L \in Rows(t.rows)
    <3>1. << >> \in Lines
      BY DEF Lines
    <3>2. ASSUME NEW r \in 0 .. t.rows - 1 PROVE L[r] \in Lines
      <4>1. r < t.bot => L[r] = t.lines[r + 1] /\ r + 1 \in 0 .. t.rows - 1
        OBVIOUS
      <4>2. r = t.bot => L[r] = << >>
        OBVIOUS
      <4>3. r > t.bot => L[r] = t.lines[r]
        OBVIOUS
      <4>4. \A q \in 0 .. t.rows - 1 : t.lines[q] \in Lines
        BY DEF Rows
      <4>5. r < t.bot \/ r = t.bot \/ r > t.bot
        OBVIOUS
      <4> HIDE DEF L
      <4> QED BY <3>1, <4>1, <4>2, <4>3, <4>4, <4>5
    <3> QED BY <3>2 DEF Rows
  <2>2. A \in Seq(Lines)
    BY DEF Rows
  <2> HIDE DEF A
  <2>3. T!LineFeed(t) = [rows |-> t.rows, lines |-> L, above |-> A, bot |-> t.bot,
                         row |-> t.row, col |-> 0, visible |-> t.visible]
    BY <1>1, <1>r DEF T!LineFeed, A
  <2>4. \A r \in t.bot + 1 .. t.rows - 1 : L[r] = t.lines[r]
    OBVIOUS
  <2> HIDE DEF L
  <2>5. T!LineFeed(t) \in Roomy
    <3>1. 0 \in Nat
      OBVIOUS
    <3>2. [rows |-> t.rows, lines |-> L, above |-> A, bot |-> t.bot, row |-> t.row, col |-> 0,
           visible |-> t.visible] \in Roomy
      BY <2>1, <2>2, <3>1, RoomyMade
    <3> QED BY <2>3, <3>2
  <2>6. T!LineFeed(t).lines = L /\ T!LineFeed(t).above = A /\ T!LineFeed(t).col = 0
        /\ T!LineFeed(t).row = t.row /\ SameBelow(T!LineFeed(t), t)
    BY <2>3, <2>4 DEF SameBelow
  <2> QED BY <1>1, <2>5, <2>6 DEF L, A
<1>2. CASE t.row # t.bot
  <2> DEFINE R == T!Least(t.row + 1, t.rows - 1)
  <2>1. R \in Nat /\ R < t.rows
    BY DEF T!Least
  <2> HIDE DEF R
  <2>2. T!LineFeed(t) = [rows |-> t.rows, lines |-> t.lines, above |-> t.above, bot |-> t.bot,
                         row |-> R, col |-> 0, visible |-> t.visible]
    BY <1>2, <1>r DEF T!LineFeed, R
  <2>3. T!LineFeed(t) \in Roomy
    <3>1. 0 \in Nat
      OBVIOUS
    <3>2. [rows |-> t.rows, lines |-> t.lines, above |-> t.above, bot |-> t.bot, row |-> R,
           col |-> 0, visible |-> t.visible] \in Roomy
      BY <2>1, <3>1, RoomyMade
    <3> QED BY <2>2, <3>2
  <2> QED BY <1>2, <2>2, <2>3 DEF SameBelow
<1> QED BY <1>1, <1>2

\* A piece goes into the row of the cursor, at its end if the cursor is there.
LEMMA PutIs ==
  ASSUME NEW t \in Roomy, NEW p \in Pieces
  PROVE  /\ T!Put(t, p) \in Roomy /\ T!Put(t, p).col = t.col + 1
         /\ T!Put(t, p).row = t.row /\ T!Put(t, p).above = t.above /\ T!Put(t, p).rows = t.rows
         /\ T!Put(t, p).bot = t.bot /\ T!Put(t, p).visible = t.visible
         /\ \A r \in 0 .. t.rows - 1 : r # t.row => T!Put(t, p).lines[r] = t.lines[r]
         /\ t.col = Len(t.lines[t.row]) =>
              T!Put(t, p).lines[t.row] = Append(t.lines[t.row], p)
         /\ t.col < Len(t.lines[t.row]) /\ t.lines[t.row][t.col + 1] = p =>
              T!Put(t, p).lines[t.row] = t.lines[t.row]
<1> DEFINE old == t.lines[t.row]
           new == [i \in 1 .. T!Greatest(Len(old), t.col + 1) |->
                     IF i = t.col + 1 THEN p ELSE IF i <= Len(old) THEN old[i] ELSE T!Blank]
<1>t. /\ t.rows \in Nat /\ t.rows >= 5 /\ t.lines \in Rows(t.rows) /\ t.above \in Seq(Lines)
      /\ t.bot \in Nat /\ t.bot < t.rows /\ t.row \in Nat /\ t.row < t.rows
      /\ t.col \in Nat /\ t.visible \in BOOLEAN
  BY RoomyIs
<1>r. t = [rows |-> t.rows, lines |-> t.lines, above |-> t.above, bot |-> t.bot,
           row |-> t.row, col |-> t.col, visible |-> t.visible]
  BY RoomyIs
<1> USE <1>t
<1>1. old \in Lines /\ Len(old) \in Nat /\ DOMAIN old = 1 .. Len(old)
  BY DEF Rows, Lines
<1>2. T!Greatest(Len(old), t.col + 1) \in Nat
  BY <1>1 DEF T!Greatest
<1>3. T!Blank \in Pieces
  <2>1. " " \in Words
    BY DEF Words
  <2> QED BY <2>1, OneWord DEF T!Blank
<1>4. new \in Lines
  <2>1. \A i \in 1 .. T!Greatest(Len(old), t.col + 1) : new[i] \in Pieces
    <3> HIDE DEF old
    <3> QED BY <1>1, <1>2, <1>3 DEF Lines
  <2>2. new = [i \in 1 .. T!Greatest(Len(old), t.col + 1) |-> new[i]]
    OBVIOUS
  <2> HIDE DEF new
  <2> QED BY <1>2, <2>1, <2>2, FunctionIsSeq DEF Lines
<1>5. ASSUME t.col = Len(old) PROVE new = Append(old, p)
  <2>1. T!Greatest(Len(old), t.col + 1) = Len(old) + 1
    BY <1>1, <1>5 DEF T!Greatest
  <2> HIDE DEF old
  <2>2. Append(old, p) \in Lines /\ Len(Append(old, p)) = Len(old) + 1 /\ Len(new) = Len(old) + 1
    BY <1>1, <2>1 DEF Lines
  <2>3. \A i \in 1 .. Len(old) + 1 : new[i] = Append(old, p)[i]
    BY <1>1, <1>5, <2>1 DEF Lines
  <2> HIDE DEF new
  <2> QED BY <1>4, <2>2, <2>3, SeqEqual DEF Lines
<1>s. ASSUME t.col < Len(old), old[t.col + 1] = p PROVE new = old
  <2>1. T!Greatest(Len(old), t.col + 1) = Len(old)
    BY <1>1, <1>s DEF T!Greatest
  <2> HIDE DEF old
  <2>2. Len(new) = Len(old)
    BY <1>1, <2>1
  <2>3. \A i \in 1 .. Len(old) : new[i] = old[i]
    BY <1>1, <1>s, <2>1
  <2> HIDE DEF new
  <2> QED BY <1>1, <1>4, <2>2, <2>3, SeqEqual DEF Lines
<1>0. T!Put(t, p) = [t EXCEPT !.lines = [t.lines EXCEPT ![t.row] = new], !.col = t.col + 1]
  BY DEF T!Put
<1> HIDE DEF new
<1>6. T!Put(t, p) = [rows |-> t.rows, lines |-> [t.lines EXCEPT ![t.row] = new], above |-> t.above,
                     bot |-> t.bot, row |-> t.row, col |-> t.col + 1, visible |-> t.visible]
  BY <1>0, <1>r
<1>7. [t.lines EXCEPT ![t.row] = new] \in Rows(t.rows)
  BY <1>4 DEF Rows
<1>8. T!Put(t, p) \in Roomy
  <2>1. t.col + 1 \in Nat
    OBVIOUS
  <2> QED BY <1>6, <1>7, <2>1, RoomyMade
<1>9. /\ [t.lines EXCEPT ![t.row] = new][t.row] = new
      /\ \A r \in 0 .. t.rows - 1 : r # t.row => [t.lines EXCEPT ![t.row] = new][r] = t.lines[r]
  BY DEF Rows
<1> QED BY <1>5, <1>s, <1>6, <1>8, <1>9

LEMMA PieceIs ==
  ASSUME NEW t \in Roomy, NEW p \in Pieces, t.row = t.bot
  PROVE  /\ T!Piece(t, p) \in Roomy /\ T!Piece(t, p).row = t.bot /\ SameBelow(T!Piece(t, p), t)
         /\ T!Piece(t, p).col = IF p = T!NL THEN 0 ELSE t.col + 1
<1>1. CASE p = T!NL
  BY <1>1, LineFeedIs DEF T!Piece
<1>2. CASE p # T!NL
  <2>1. T!Piece(t, p) = T!Put(t, p)
    BY <1>2 DEF T!Piece
  <2>2. \A r \in t.bot + 1 .. t.rows - 1 : r \in 0 .. t.rows - 1 /\ r # t.row
    BY RoomyIs
  <2> QED BY <1>2, <2>1, <2>2, PutIs DEF SameBelow
<1> QED BY <1>1, <1>2

\* A line feed in the last row of the region keeps all rows, and adds one.
LEMMA FeedKeepsRows ==
  ASSUME NEW t \in Roomy, t.row = t.bot
  PROVE  /\ End(T!LineFeed(t)) = End(t) + 1 /\ End(t) \in Nat
         /\ \A i \in 1 .. End(t) : RowAt(T!LineFeed(t), i) = RowAt(t, i)
         /\ RowAt(T!LineFeed(t), End(t) + 1) = << >>
<1> DEFINE s == T!LineFeed(t)
<1>0. /\ t.rows \in Nat /\ t.lines \in Rows(t.rows) /\ t.above \in Seq(Lines)
      /\ t.bot \in Nat /\ t.bot < t.rows
  BY RoomyIs
<1>n. /\ t.rows \in Nat /\ Len(t.above) \in Nat /\ t.bot \in Nat /\ t.bot < t.rows
      /\ End(t) = Len(t.above) + t.bot + 1 /\ End(t) \in Nat
  BY <1>0 DEF End
<1>2. /\ s.above = Append(t.above, t.lines[0]) /\ s.bot = t.bot /\ s.col = 0
      /\ s.lines = [r \in 0 .. t.rows - 1 |->
                      IF r < t.bot THEN t.lines[r + 1] ELSE IF r = t.bot THEN << >> ELSE t.lines[r]]
  BY LineFeedIs DEF SameBelow
<1> HIDE DEF s
<1>3. /\ Len(s.above) = Len(t.above) + 1
      /\ \A i \in 1 .. Len(t.above) : s.above[i] = t.above[i]
      /\ s.above[Len(t.above) + 1] = t.lines[0]
  <2>1. t.lines[0] \in Lines
    BY <1>0 DEF Rows
  <2> QED BY <1>0, <1>2, <2>1
<1>4. /\ \A r \in 0 .. t.bot - 1 : s.lines[r] = t.lines[r + 1]
      /\ s.lines[t.bot] = << >>
  BY <1>0, <1>2
<1>5. End(s) = End(t) + 1
  <2>1. End(s) = Len(t.above) + 1 + t.bot + 1
    BY <1>2, <1>3 DEF End
  <2> QED BY <1>n, <2>1
<1>6. ASSUME NEW i \in 1 .. End(t) PROVE RowAt(s, i) = RowAt(t, i)
  <2>1. CASE i <= Len(t.above)
    BY <1>n, <1>3, <2>1 DEF RowAt
  <2>2. CASE i = Len(t.above) + 1
    <3>1. RowAt(s, i) = t.lines[0]
      BY <1>n, <1>3, <2>2 DEF RowAt
    <3>2. i - Len(t.above) - 1 = 0 /\ ~(i <= Len(t.above))
      BY <1>n, <2>2
    <3> QED BY <3>1, <3>2 DEF RowAt
  <2>3. CASE i > Len(t.above) + 1
    <3>0. Len(s.above) = Len(t.above) + 1
      BY <1>3
    <3>1. i - Len(s.above) - 1 \in 0 .. t.bot - 1
          /\ i - Len(s.above) - 1 + 1 = i - Len(t.above) - 1
      BY <1>n, <2>3, <3>0
    <3>2. RowAt(s, i) = s.lines[i - Len(s.above) - 1]
      BY <1>n, <1>3, <2>3 DEF RowAt
    <3>3. RowAt(t, i) = t.lines[i - Len(t.above) - 1]
      BY <1>n, <2>3 DEF RowAt
    <3> QED BY <1>4, <3>1, <3>2, <3>3
  <2> QED BY <1>n, <2>1, <2>2, <2>3
<1>7. RowAt(s, End(t) + 1) = << >>
  <2>0. Len(s.above) = Len(t.above) + 1
    BY <1>3
  <2>1. \A a, b, c \in Nat : c = a + 1 => a + b + 2 - c - 1 = b /\ ~(a + b + 2 <= c)
    OBVIOUS
  <2>2. End(t) + 1 = Len(t.above) + t.bot + 2 /\ Len(s.above) \in Nat
    BY <1>n, <2>0
  <2>3. \A i : i - Len(s.above) - 1 = t.bot /\ ~(i <= Len(s.above)) => RowAt(s, i) = << >>
    BY <1>4 DEF RowAt
  <2>4. RowAt(s, Len(t.above) + t.bot + 2) = << >>
    BY <1>n, <2>0, <2>1, <2>2, <2>3, SMTT(20)
  <2> QED BY <2>2, <2>4
<1> QED BY <1>n, <1>5, <1>6, <1>7 DEF s

LEMMA FeedKeepsLog ==
  ASSUME NEW t \in Roomy, t.row = t.bot, NEW lines, Kept(t, lines)
  PROVE  /\ Kept(T!LineFeed(t), Append(lines, << >>))
         /\ Append(lines, << >>)[Len(Append(lines, << >>))] = << >>
<1> DEFINE s == T!LineFeed(t)
           k == Len(lines)
<1>1. /\ End(s) = End(t) + 1 /\ End(t) \in Nat
      /\ \A i \in 1 .. End(t) : RowAt(s, i) = RowAt(t, i)
      /\ RowAt(s, End(t) + 1) = << >>
  BY FeedKeepsRows
<1>2. /\ lines \in Seq(Lines) /\ k \in Nat /\ 1 <= k /\ k <= End(t) /\ End(t) \in Nat
      /\ \A j \in 1 .. k : RowAt(t, End(t) - k + j) = lines[j]
  BY <1>1 DEF Kept
<1> HIDE DEF s
<1> DEFINE new == Append(lines, << >>)
<1>4. /\ new \in Seq(Lines) /\ Len(new) = k + 1 /\ new[k + 1] = << >>
      /\ \A j \in 1 .. k : new[j] = lines[j]
  <2>1. << >> \in Lines
    BY DEF Lines
  <2> QED BY <1>2, <2>1
<1> HIDE DEF new
<1>5. ASSUME NEW j \in 1 .. k + 1 PROVE RowAt(s, End(s) - (k + 1) + j) = new[j]
  <2>1. CASE j = k + 1
    <3>1. End(s) - (k + 1) + j = End(t) + 1
      BY <1>2, <1>1, <2>1
    <3> QED BY <1>1, <1>4, <2>1, <3>1
  <2>2. CASE j \in 1 .. k
    <3>1. End(s) - (k + 1) + j = End(t) - k + j /\ End(t) - k + j \in 1 .. End(t)
      BY <1>2, <1>1, <2>2
    <3> QED BY <1>2, <1>1, <1>4, <2>2, <3>1
  <2> QED BY <1>2, <2>1, <2>2
<1>6. Kept(s, new)
  <2>1. k + 1 \in 1 .. End(s)
    BY <1>2, <1>1
  <2> QED BY <1>4, <1>5, <2>1 DEF Kept
<1> QED BY <1>4, <1>6 DEF new, s

\* What was written stays, whether a row is added to or the region scrolls.
LEMMA PieceKeepsLog ==
  ASSUME NEW t \in Roomy, NEW p \in Pieces, t.row = t.bot,
         NEW lines, Kept(t, lines), t.col = Len(lines[Len(lines)])
  PROVE  /\ Kept(T!Piece(t, p), T!Add(lines, p))
         /\ T!Piece(t, p).col = Len(T!Add(lines, p)[Len(T!Add(lines, p))])
<1> DEFINE s == T!Piece(t, p)
           k == Len(lines)
<1>1. /\ t.rows \in Nat /\ t.lines \in Rows(t.rows) /\ t.above \in Seq(Lines)
      /\ t.bot \in Nat /\ t.bot < t.rows
  BY RoomyIs
<1>2. /\ lines \in Seq(Lines) /\ k \in Nat /\ 1 <= k /\ k <= End(t) /\ Len(t.above) \in Nat
      /\ End(t) = Len(t.above) + t.bot + 1 /\ End(t) \in Nat
      /\ \A j \in 1 .. k : RowAt(t, End(t) - k + j) = lines[j]
  BY <1>1 DEF Kept, End
<1>n. /\ t.rows \in Nat /\ Len(t.above) \in Nat /\ t.bot \in Nat /\ t.bot < t.rows
      /\ End(t) = Len(t.above) + t.bot + 1 /\ k \in Nat /\ 1 <= k /\ k <= End(t)
  BY <1>1, <1>2
<1>3. CASE p = T!NL
  <2>1. s = T!LineFeed(t)
    BY <1>3 DEF T!Piece
  <2>2. s.col = 0
    BY <2>1, LineFeedIs
  <2>3. T!Add(lines, p) = Append(lines, << >>)
    BY <1>3 DEF T!Add
  <2> DEFINE new == Append(lines, << >>)
  <2>4. Kept(T!LineFeed(t), new) /\ new[Len(new)] = << >>
    BY FeedKeepsLog
  <2> HIDE DEF new, s
  <2> QED BY <2>1, <2>2, <2>3, <2>4 DEF new, s
<1>4. CASE p # T!NL
  <2>1. s = T!Put(t, p)
    BY <1>4 DEF T!Piece
  <2>2. RowAt(t, End(t)) = lines[k] /\ RowAt(t, End(t)) = t.lines[t.bot]
    <3>1. End(t) - k + k = End(t) /\ k \in 1 .. k
      BY <1>2
    <3>2. End(t) - Len(t.above) - 1 = t.bot /\ ~(End(t) <= Len(t.above))
      BY <1>n
    <3>3. RowAt(t, End(t)) = lines[k]
      BY <1>2, <3>1
    <3> QED BY <3>2, <3>3 DEF RowAt
  <2>3. /\ s.above = t.above /\ s.bot = t.bot /\ s.col = t.col + 1
        /\ \A r \in 0 .. t.rows - 1 : r # t.bot => s.lines[r] = t.lines[r]
        /\ s.lines[t.bot] = Append(lines[k], p)
    <3>1. t.lines[t.bot] = lines[k] /\ t.col = Len(t.lines[t.row])
      BY <2>2
    <3>2. T!Put(t, p).lines[t.row] = Append(t.lines[t.row], p)
      BY <3>1, PutIs
    <3>3. /\ T!Put(t, p).above = t.above /\ T!Put(t, p).bot = t.bot
          /\ T!Put(t, p).col = t.col + 1
      BY PutIs
    <3>4. \A r \in 0 .. t.rows - 1 : r # t.bot => T!Put(t, p).lines[r] = t.lines[r]
      BY PutIs
    <3> QED BY <2>1, <3>1, <3>2, <3>3, <3>4
  <2> HIDE DEF s
  <2>4. End(s) = End(t)
    BY <2>3 DEF End
  <2>5. ASSUME NEW i \in 1 .. End(t) - 1 PROVE RowAt(s, i) = RowAt(t, i)
    <3>1. CASE i <= Len(t.above)
      BY <2>3, <3>1 DEF RowAt
    <3>2. CASE ~(i <= Len(t.above))
      <4>1. i - Len(t.above) - 1 \in 0 .. t.rows - 1 /\ i - Len(t.above) - 1 # t.bot
        BY <1>n, <3>2
      <4>2. s.lines[i - Len(t.above) - 1] = t.lines[i - Len(t.above) - 1]
        BY <2>3, <4>1
      <4> QED BY <2>3, <3>2, <4>2 DEF RowAt
    <3> QED BY <3>1, <3>2
  <2>6. RowAt(s, End(t)) = Append(lines[k], p)
    <3>1. End(t) - Len(t.above) - 1 = t.bot /\ ~(End(t) <= Len(t.above))
      BY <1>n
    <3> QED BY <2>3, <3>1 DEF RowAt
  <2> DEFINE new == [lines EXCEPT ![k] = Append(lines[k], p)]
  <2>7. T!Add(lines, p) = new
    BY <1>4 DEF T!Add
  <2>8. lines[k] \in Lines /\ Append(lines[k], p) \in Lines
    BY <1>2 DEF Lines
  <2>9. /\ new \in Seq(Lines) /\ Len(new) = k /\ new[k] = Append(lines[k], p)
        /\ \A j \in 1 .. k - 1 : new[j] = lines[j]
    BY <1>2, <2>8
  <2> HIDE DEF new
  <2>10. ASSUME NEW j \in 1 .. k PROVE RowAt(s, End(s) - k + j) = new[j]
    <3>1. CASE j = k
      <4>1. End(s) - k + j = End(t)
        BY <1>2, <2>4, <3>1
      <4> QED BY <2>6, <2>9, <3>1, <4>1
    <3>2. CASE j # k
      <4>1. End(s) - k + j = End(t) - k + j /\ End(t) - k + j \in 1 .. End(t) - 1 /\ j \in 1 .. k - 1
        BY <1>2, <2>4, <3>2
      <4> QED BY <1>2, <2>5, <2>9, <4>1
    <3> QED BY <3>1, <3>2
  <2>11. Kept(s, new)
    <3>1. k \in 1 .. End(s)
      BY <1>2, <2>4
    <3> QED BY <2>9, <2>10, <3>1 DEF Kept
  <2>12. s.col = Len(new[Len(new)])
    <3>1. Len(Append(lines[k], p)) = Len(lines[k]) + 1
      BY <2>8 DEF Lines
    <3> QED BY <2>3, <2>9, <3>1
  <2> QED BY <2>7, <2>11, <2>12 DEF s
<1> QED BY <1>3, <1>4

\* A row that is written over with what it begins with stays as it is.
LEMMA SameAgain ==
  ASSUME NEW t \in Roomy, NEW p \in Pieces, t.row = t.bot, t.col = 0,
         NEW lines, Kept(t, lines), Len(lines[Len(lines)]) > 0, lines[Len(lines)][1] = p
  PROVE  T!Put(t, p) \in Roomy /\ T!Put(t, p).row = T!Put(t, p).bot /\ Kept(T!Put(t, p), lines)
<1> DEFINE s == T!Put(t, p)
           k == Len(lines)
<1>1. /\ t.rows \in Nat /\ t.lines \in Rows(t.rows) /\ t.above \in Seq(Lines)
      /\ t.bot \in Nat /\ t.bot < t.rows
  BY RoomyIs
<1>2. /\ k \in Nat /\ 1 <= k /\ k <= End(t) /\ Len(t.above) \in Nat
      /\ End(t) = Len(t.above) + t.bot + 1
      /\ \A j \in 1 .. k : RowAt(t, End(t) - k + j) = lines[j]
  BY <1>1 DEF Kept, End
<1>n. /\ Len(t.above) \in Nat /\ t.bot \in Nat /\ k \in Nat /\ 1 <= k
      /\ End(t) = Len(t.above) + t.bot + 1
  BY <1>1, <1>2
<1>3. t.lines[t.row] = lines[k]
  <2>1. End(t) - k + k = End(t) /\ k \in 1 .. k
    BY <1>n
  <2>2. End(t) - Len(t.above) - 1 = t.bot /\ ~(End(t) <= Len(t.above))
    BY <1>n
  <2>3. RowAt(t, End(t)) = lines[k]
    BY <1>2, <2>1
  <2> QED BY <2>2, <2>3 DEF RowAt
<1>4. s.lines[t.row] = t.lines[t.row]
  <2>1. t.col < Len(t.lines[t.row]) /\ t.lines[t.row][t.col + 1] = p
    BY <1>3
  <2> QED BY <2>1, PutIs
<1>5. /\ s \in Roomy /\ s.row = t.row /\ s.above = t.above /\ s.rows = t.rows /\ s.bot = t.bot
      /\ \A r \in 0 .. t.rows - 1 : r # t.row => s.lines[r] = t.lines[r]
  BY PutIs
<1> HIDE DEF s
<1>6. s.lines = t.lines
  <2>1. s.lines \in Rows(t.rows) /\ \A r \in 0 .. t.rows - 1 : s.lines[r] = t.lines[r]
    BY <1>4, <1>5, RoomyIs
  <2> DEFINE D == 0 .. t.rows - 1
             f == s.lines
             g == t.lines
  <2>2. f \in [D -> Lines] /\ g \in [D -> Lines] /\ \A r \in D : f[r] = g[r]
    BY <1>1, <2>1 DEF Rows
  <2> HIDE DEF D, f, g
  <2>3. f = g
    BY <2>2
  <2> QED BY <2>3 DEF f, g
<1>7. Kept(s, lines)
  BY <1>5, <1>6 DEF Kept, RowAt, End
<1> QED BY <1>5, <1>7 DEF s

LEMMA WriteIs ==
  ASSUME NEW t \in Roomy, NEW text \in Seq(Pieces), t.row = t.bot
  PROVE  /\ T!Write(t, text) \in Roomy /\ T!Write(t, text).row = t.bot
         /\ SameBelow(T!Write(t, text), t)
         /\ T!Write(t, text).col = T!Advance(t.col, text)
<1>1. Len(text) \in Nat /\ \A n \in 1 .. Len(text) : text[n] \in Pieces
  OBVIOUS
<1>2. PICK after :
        /\ after[0] = t
        /\ \A n \in 1 .. Len(text) : after[n] = T!Piece(after[n - 1], text[n])
        /\ T!Write(t, text) = after[Len(text)]
  BY <1>1, WriteSteps
<1>3. PICK cols :
        /\ cols[0] = t.col
        /\ \A n \in 1 .. Len(text) : cols[n] = (IF text[n] = T!NL THEN 0 ELSE cols[n - 1] + 1)
        /\ T!Advance(t.col, text) = cols[Len(text)]
  BY <1>1, AdvanceSteps
<1> DEFINE Good(n) == /\ after[n] \in Roomy /\ after[n].row = t.bot
                      /\ SameBelow(after[n], t) /\ after[n].col = cols[n]
           P == {n \in 0 .. Len(text) : Good(n)}
<1>4. 0 \in P
  <2>1. SameBelow(t, t)
    BY DEF SameBelow
  <2> QED BY <1>1, <1>2, <1>3, <2>1
<1>5. ASSUME NEW n \in 1 .. Len(text), n - 1 \in P PROVE n \in P
  <2> DEFINE s == after[n - 1]
             q == T!Piece(s, text[n])
  <2>1. s \in Roomy /\ s.row = s.bot /\ s.bot = t.bot /\ SameBelow(s, t) /\ s.col = cols[n - 1]
    BY <1>5 DEF SameBelow
  <2>2. after[n] = q
    BY <1>2
  <2>3. q \in Roomy /\ q.row = s.bot /\ SameBelow(q, s)
        /\ q.col = IF text[n] = T!NL THEN 0 ELSE s.col + 1
    <3> HIDE DEF s
    <3> QED BY <1>1, <2>1, PieceIs
  <2> HIDE DEF s, q
  <2>4. SameBelow(q, t)
    BY <2>1, <2>3 DEF SameBelow
  <2>5. q.col = cols[n]
    BY <1>3, <2>1, <2>3
  <2>6. Good(n)
    BY <2>1, <2>2, <2>3, <2>4, <2>5
  <2> QED BY <2>6
<1>6. Len(text) \in P
  <2> HIDE DEF P
  <2>1. 0 .. Len(text) \subseteq P
    BY <1>1, <1>4, <1>5, UpTo
  <2> QED BY <1>1, <2>1
<1> QED BY <1>2, <1>3, <1>6

LEMMA WriteKeepsLog ==
  ASSUME NEW t \in Roomy, NEW text \in Seq(Pieces), t.row = t.bot,
         NEW lines, Kept(t, lines), t.col = Len(lines[Len(lines)])
  PROVE  /\ Kept(T!Write(t, text), T!Continued(lines, text))
         /\ T!Write(t, text).col = Len(T!Continued(lines, text)[Len(T!Continued(lines, text))])
<1>1. Len(text) \in Nat /\ \A n \in 1 .. Len(text) : text[n] \in Pieces
  OBVIOUS
<1>2. PICK after :
        /\ after[0] = t
        /\ \A n \in 1 .. Len(text) : after[n] = T!Piece(after[n - 1], text[n])
        /\ T!Write(t, text) = after[Len(text)]
  BY <1>1, WriteSteps
<1>3. PICK told :
        /\ told[0] = lines
        /\ \A n \in 1 .. Len(text) : told[n] = T!Add(told[n - 1], text[n])
        /\ T!Continued(lines, text) = told[Len(text)]
  BY <1>1, ContinuedSteps
<1> DEFINE Good(n) == /\ after[n] \in Roomy /\ after[n].row = after[n].bot
                      /\ Kept(after[n], told[n])
                      /\ after[n].col = Len(told[n][Len(told[n])])
           P == {n \in 0 .. Len(text) : Good(n)}
<1>4. 0 \in P
  BY <1>1, <1>2, <1>3
<1>5. ASSUME NEW n \in 1 .. Len(text), n - 1 \in P PROVE n \in P
  <2> DEFINE s == after[n - 1]
             l == told[n - 1]
             q == T!Piece(s, text[n])
             k == T!Add(l, text[n])
  <2>1. s \in Roomy /\ s.row = s.bot /\ Kept(s, l) /\ s.col = Len(l[Len(l)])
    BY <1>5
  <2>2. after[n] = q /\ told[n] = k
    BY <1>2, <1>3
  <2>3. q \in Roomy /\ q.row = s.bot /\ q.bot = s.bot
    <3> HIDE DEF s
    <3> QED BY <1>1, <2>1, PieceIs DEF SameBelow
  <2>4. Kept(q, k) /\ q.col = Len(k[Len(k)])
    <3> HIDE DEF s, l
    <3> QED BY <1>1, <2>1, PieceKeepsLog
  <2> HIDE DEF s, q, l, k
  <2>5. Good(n)
    BY <2>2, <2>3, <2>4
  <2> QED BY <2>5
<1>6. Len(text) \in P
  <2> HIDE DEF P
  <2>1. 0 .. Len(text) \subseteq P
    BY <1>1, <1>4, <1>5, UpTo
  <2> QED BY <1>1, <2>1
<1> QED BY <1>2, <1>3, <1>6

-----------------------------------------------------------------------------
(* The panel.                                                              *)

States == {"running", "passed", "failed"}
Pico   == [alive : BOOLEAN, sz : Nat, ui_rows : Nat, stream_anchor_set : BOOLEAN,
           stream_cur_col : Nat, resized : BOOLEAN]

\* The size that picotui knows is that of the terminal.
Fitted == {w \in [t : Roomy, u : Pico] : w.u.sz = w.t.rows /\ w.u.ui_rows = T!Panel}

PanelDrawn(t) == \A row \in 0 .. 2 : t.lines[t.rows - T!Panel + row] = <<T!Shows(row)>>

\* Terminals that differ at most in their cursor and in the rows of the panel.
SameLog(s, t) ==
  /\ s.rows = t.rows /\ s.bot = t.bot /\ s.visible = t.visible /\ s.above = t.above
  /\ \A r \in 0 .. t.rows - T!Panel - 1 : s.lines[r] = t.lines[r]

LEMMA AmountIs ==
  ASSUME NEW s, shown \in Seq(States)
  PROVE  T!Amount(s) \in Nat
<1> DEFINE Of == {i \in DOMAIN shown : shown[i] = s}
<1>1. DOMAIN shown = 1 .. Len(shown) /\ Len(shown) \in Nat
  OBVIOUS
<1>2. Of \subseteq 1 .. Len(shown)
  BY <1>1
<1>3. T!Amount(s) = Cardinality(Of)
  BY DEF T!Amount, T!Cardinality, Cardinality
<1> HIDE DEF Of
<1>4. IsFiniteSet(1 .. Len(shown))
  BY <1>1, FS_Interval
<1>5. IsFiniteSet(Of)
  BY <1>2, <1>4, FS_Subset
<1>6. Cardinality(Of) \in Nat
  BY <1>5, FS_CardinalityType
<1> QED BY <1>3, <1>6

LEMMA ShowsPiece ==
  ASSUME NEW row \in 0 .. 2, shown \in Seq(States)
  PROVE  T!Shows(row) \in Pieces
<1>1. \A s : T!Amount(s) \in Nat
  BY AmountIs
<1>2. "LTF" \in Words /\ "progress" \in Words /\ "summary" \in Words /\ Len(shown) \in Nat
  BY DEF Words
<1>3. \A a \in Words, m, n \in Nat :
        /\ <<a>> \in Pieces /\ <<a, m>> \in Pieces /\ <<a, m, n>> \in Pieces
  <2> HIDE DEF Words
  <2> QED BY DEF Pieces
<1>4. T!Shows(0) = <<"LTF">> /\ T!Shows(1) = <<"progress", Len(shown)>>
      /\ T!Shows(2) = <<"summary", T!Amount("passed"), T!Amount("failed")>>
  BY DEF T!Shows
<1>5. row = 0 \/ row = 1 \/ row = 2
  OBVIOUS
<1> HIDE DEF Words
<1> QED BY <1>1, <1>2, <1>3, <1>4, <1>5

\* Moving the cursor and clearing a row from the start.
LEMMA CupIs ==
  ASSUME NEW t \in Roomy, NEW r \in Nat, NEW c \in Nat
  PROVE  /\ T!Cup(t, r, c) \in Roomy
         /\ T!Cup(t, r, c) = [rows |-> t.rows, lines |-> t.lines, above |-> t.above, bot |-> t.bot,
                              row |-> T!Least(r, t.rows - 1), col |-> c, visible |-> t.visible]
<1>1. /\ t.rows \in Nat /\ t.rows >= 5 /\ t.lines \in Rows(t.rows) /\ t.above \in Seq(Lines)
      /\ t.bot \in Nat /\ t.bot < t.rows /\ t.visible \in BOOLEAN
  BY RoomyIs
<1>2. T!Cup(t, r, c) = [rows |-> t.rows, lines |-> t.lines, above |-> t.above, bot |-> t.bot,
                        row |-> T!Least(r, t.rows - 1), col |-> c, visible |-> t.visible]
  <2> DEFINE R == T!Least(r, t.rows - 1)
  <2>1. t = [rows |-> t.rows, lines |-> t.lines, above |-> t.above, bot |-> t.bot,
             row |-> t.row, col |-> t.col, visible |-> t.visible]
    BY RoomyIs
  <2>2. T!Cup(t, r, c) = [t EXCEPT !.row = R, !.col = c]
    BY DEF T!Cup
  <2> HIDE DEF R
  <2>3. T!Cup(t, r, c) = [rows |-> t.rows, lines |-> t.lines, above |-> t.above, bot |-> t.bot,
                          row |-> R, col |-> c, visible |-> t.visible]
    BY <1>1, <2>1, <2>2
  <2> QED BY <2>3 DEF R
<1>3. T!Least(r, t.rows - 1) \in Nat /\ T!Least(r, t.rows - 1) < t.rows
  BY <1>1 DEF T!Least
<1>4. [rows |-> t.rows, lines |-> t.lines, above |-> t.above, bot |-> t.bot,
       row |-> T!Least(r, t.rows - 1), col |-> c, visible |-> t.visible] \in Roomy
  BY <1>1, <1>3, RoomyMade
<1> QED BY <1>2, <1>4

LEMMA ClearedIs ==
  ASSUME NEW t \in Roomy, t.col = 0
  PROVE  /\ T!El(t) \in Roomy
         /\ T!El(t) = [rows |-> t.rows, lines |-> [t.lines EXCEPT ![t.row] = << >>],
                       above |-> t.above, bot |-> t.bot, row |-> t.row, col |-> 0,
                       visible |-> t.visible]
<1>1. /\ t.rows \in Nat /\ t.rows >= 5 /\ t.lines \in Rows(t.rows) /\ t.above \in Seq(Lines)
      /\ t.bot \in Nat /\ t.bot < t.rows /\ t.visible \in BOOLEAN /\ t.row \in 0 .. t.rows - 1
  BY RoomyIs
<1>2. t = [rows |-> t.rows, lines |-> t.lines, above |-> t.above, bot |-> t.bot,
           row |-> t.row, col |-> 0, visible |-> t.visible]
  BY RoomyIs
<1>3. SubSeq(t.lines[t.row], 1, 0) = << >>
  <2>1. t.lines[t.row] \in Lines
    BY <1>1 DEF Rows
  <2> QED BY <2>1 DEF Lines
<1> DEFINE L == [t.lines EXCEPT ![t.row] = << >>]
<1>4. T!El(t) = [t EXCEPT !.lines = L]
  BY <1>1, <1>3 DEF T!El
<1>5. L \in Rows(t.rows)
  <2>1. << >> \in Lines
    BY DEF Lines
  <2> QED BY <1>1, <2>1 DEF Rows
<1> HIDE DEF L
<1>6. T!El(t) = [rows |-> t.rows, lines |-> L, above |-> t.above, bot |-> t.bot,
                 row |-> t.row, col |-> 0, visible |-> t.visible]
  BY <1>2, <1>4
<1>7. [rows |-> t.rows, lines |-> L, above |-> t.above, bot |-> t.bot,
       row |-> t.row, col |-> 0, visible |-> t.visible] \in Roomy
  <2>1. 0 \in Nat /\ t.row \in Nat /\ t.row < t.rows
    BY <1>1
  <2> QED BY <1>1, <1>5, <2>1, RoomyMade
<1> QED BY <1>6, <1>7 DEF L

\* A window with another terminal.
LEMMA WithTerminal ==
  ASSUME NEW w \in Fitted, NEW t \in Roomy, t.rows = w.t.rows
  PROVE  /\ [w EXCEPT !.t = t] \in Fitted /\ [w EXCEPT !.t = t].t = t
         /\ [w EXCEPT !.t = t].u = w.u
BY DEF Fitted

\* A part of the panel is drawn into its row, and nowhere else.
LEMMA PutPanelIs ==
  ASSUME NEW w \in Fitted, NEW row \in 0 .. 2, shown \in Seq(States)
  PROVE  /\ T!PutPanel(w, row) \in Fitted /\ T!PutPanel(w, row).u = w.u
         /\ SameLog(T!PutPanel(w, row).t, w.t)
         /\ T!PutPanel(w, row).t.lines[w.t.rows - T!Panel + row] = <<T!Shows(row)>>
         /\ \A q \in 0 .. 2 : q # row =>
              T!PutPanel(w, row).t.lines[w.t.rows - T!Panel + q] = w.t.lines[w.t.rows - T!Panel + q]
<1> DEFINE t == w.t
           r == t.rows - T!Panel + row
           p == T!Shows(row)
           at == T!Cup(t, r, 0)
           clear == T!El(at)
           back == T!Cup(clear, r, 0)
           new == T!Put(back, p)
<1>1. /\ t \in Roomy /\ t.rows \in Nat /\ t.rows >= 5 /\ w.u.sz = t.rows /\ T!Panel = 3
      /\ w.u.ui_rows = 3 /\ t.lines \in Rows(t.rows)
  BY RoomyIs DEF Fitted, T!Panel
<1>2. /\ r \in Nat /\ r < t.rows /\ r >= 0 /\ T!Least(r, t.rows - 1) = r
      /\ T!PanelTop(w.u) + row = r /\ ~(r >= w.u.sz) /\ T!Least(r, w.u.sz - 1) = r
  <2>1. r = t.rows - 3 + row /\ row \in {0, 1, 2}
    BY <1>1
  <2>2. T!PanelTop(w.u) = t.rows - 3
    <3> HIDE DEF t
    <3> QED BY <1>1 DEF T!PanelTop, T!Greatest
  <2> HIDE DEF r, t
  <2>3. r \in Nat /\ r < t.rows /\ r >= 0 /\ r <= t.rows - 1
    BY <1>1, <2>1
  <2>4. T!PanelTop(w.u) + row = r
    BY <2>1, <2>2
  <2>5. T!Least(r, t.rows - 1) = r
    BY <1>1, <2>3 DEF T!Least
  <2> QED BY <1>1, <2>3, <2>4, <2>5
<1>3. T!PutPanel(w, row) = [w EXCEPT !.t = new]
  <2> HIDE DEF r
  <2> QED BY <1>2 DEF T!PutPanel
<1>4. p \in Pieces
  BY ShowsPiece
<1>5. at \in Roomy /\ at = [rows |-> t.rows, lines |-> t.lines, above |-> t.above, bot |-> t.bot,
                            row |-> r, col |-> 0, visible |-> t.visible]
  <2>1. 0 \in Nat
    OBVIOUS
  <2> HIDE DEF t, r
  <2> QED BY <1>1, <1>2, <2>1, CupIs
<1> HIDE DEF at
<1>6. at.col = 0 /\ at.row = r /\ at.rows = t.rows /\ at.lines = t.lines /\ at.above = t.above
      /\ at.bot = t.bot /\ at.visible = t.visible
  BY <1>5
<1>7. clear \in Roomy /\ clear = [rows |-> t.rows, lines |-> [t.lines EXCEPT ![r] = << >>],
                                  above |-> t.above, bot |-> t.bot, row |-> r, col |-> 0,
                                  visible |-> t.visible]
  <2> HIDE DEF r, t
  <2> QED BY <1>5, <1>6, ClearedIs
<1> HIDE DEF clear
<1> DEFINE L == [t.lines EXCEPT ![r] = << >>]
<1>8. L[r] = << >> /\ \A q \in 0 .. t.rows - 1 : q # r => L[q] = t.lines[q]
  BY <1>1, <1>2 DEF Rows
<1>9. clear.rows = t.rows /\ clear.lines = L /\ clear.above = t.above /\ clear.bot = t.bot
      /\ clear.visible = t.visible
  BY <1>7
<1> HIDE DEF L
<1>10. back \in Roomy /\ back = [rows |-> t.rows, lines |-> L, above |-> t.above, bot |-> t.bot,
                                 row |-> r, col |-> 0, visible |-> t.visible]
  <2>1. 0 \in Nat
    OBVIOUS
  <2> HIDE DEF t, r
  <2>2. back \in Roomy
        /\ back = [rows |-> clear.rows, lines |-> clear.lines, above |-> clear.above, bot |-> clear.bot,
                   row |-> T!Least(r, clear.rows - 1), col |-> 0, visible |-> clear.visible]
    BY <1>2, <1>7, <2>1, CupIs, ZenonT(40)
  <2>3. T!Least(r, clear.rows - 1) = r
    BY <1>2, <1>9
  <2> HIDE DEF back
  <2> QED BY <1>9, <2>2, <2>3
<1> HIDE DEF back
<1>11. back.rows = t.rows /\ back.lines = L /\ back.above = t.above /\ back.bot = t.bot
       /\ back.row = r /\ back.col = 0 /\ back.visible = t.visible
  BY <1>10
<1>12. /\ new \in Roomy /\ new.above = t.above /\ new.rows = t.rows /\ new.bot = t.bot
       /\ new.visible = t.visible
       /\ \A q \in 0 .. t.rows - 1 : q # r => new.lines[q] = L[q]
       /\ new.lines[r] = <<p>>
  <2>1. /\ new \in Roomy /\ new.above = back.above /\ new.rows = back.rows /\ new.bot = back.bot
        /\ new.visible = back.visible
        /\ \A q \in 0 .. back.rows - 1 : q # back.row => new.lines[q] = back.lines[q]
        /\ back.col = Len(back.lines[back.row]) =>
             new.lines[back.row] = Append(back.lines[back.row], p)
    <3> HIDE DEF p
    <3> QED BY <1>4, <1>10, PutIs
  <2>2. back.lines[back.row] = << >>
    BY <1>8, <1>11
  <2>3. Len(<< >>) = 0 /\ Append(<< >>, p) = <<p>>
    <3> HIDE DEF p
    <3> QED OBVIOUS
  <2> HIDE DEF new, p, t, r
  <2> QED BY <1>11, <2>1, <2>2, <2>3
<1> HIDE DEF new, p
<1>13. [w EXCEPT !.t = new] \in Fitted /\ [w EXCEPT !.t = new].t = new /\ [w EXCEPT !.t = new].u = w.u
  BY <1>12, WithTerminal
<1>14. \A q \in 0 .. t.rows - 1 : q # r => new.lines[q] = t.lines[q]
  BY <1>8, <1>12
<1>15. SameLog(new, t)
  <2>1. \A q \in 0 .. t.rows - T!Panel - 1 : q \in 0 .. t.rows - 1 /\ q # r
    BY <1>1
  <2> HIDE DEF t, r
  <2> QED BY <1>12, <1>14, <2>1 DEF SameLog
<1>16. \A q \in 0 .. 2 : q # row => t.rows - T!Panel + q \in 0 .. t.rows - 1 /\ t.rows - T!Panel + q # r
  <2>1. t.rows \in Nat /\ t.rows >= 5 /\ T!Panel = 3
    BY <1>1
  <2> HIDE DEF t
  <2> QED BY <2>1
<1> QED BY <1>3, <1>12, <1>13, <1>14, <1>15, <1>16 DEF p

LEMMA SameLogTwice ==
  ASSUME NEW r, NEW s, NEW t, SameLog(r, s), SameLog(s, t)
  PROVE  SameLog(r, t)
BY DEF SameLog

\* render_progress draws the panel where its first row is there,
LEMMA RenderProgressIs ==
  ASSUME NEW w \in Fitted, shown \in Seq(States)
  PROVE  /\ T!RenderProgress(w) \in Fitted /\ T!RenderProgress(w).u = w.u
         /\ SameLog(T!RenderProgress(w).t, w.t)
         /\ w.t.lines[w.t.rows - T!Panel + 0] = <<T!Shows(0)>> => PanelDrawn(T!RenderProgress(w).t)
<1> DEFINE a == T!PutPanel(w, 1)
           b == T!PutPanel(a, 2)
<1>1. 0 \in 0 .. 2 /\ 1 \in 0 .. 2 /\ 2 \in 0 .. 2 /\ 0 # 1 /\ 0 # 2 /\ 1 # 2
  OBVIOUS
<1>2. /\ a \in Fitted /\ a.u = w.u /\ SameLog(a.t, w.t)
      /\ a.t.lines[w.t.rows - T!Panel + 1] = <<T!Shows(1)>>
      /\ a.t.lines[w.t.rows - T!Panel + 0] = w.t.lines[w.t.rows - T!Panel + 0]
  BY <1>1, PutPanelIs
<1> HIDE DEF a
<1>3. a.t.rows = w.t.rows
  BY <1>2 DEF SameLog
<1>4. /\ b \in Fitted /\ b.u = a.u /\ SameLog(b.t, a.t)
      /\ b.t.lines[w.t.rows - T!Panel + 2] = <<T!Shows(2)>>
      /\ b.t.lines[w.t.rows - T!Panel + 0] = a.t.lines[w.t.rows - T!Panel + 0]
      /\ b.t.lines[w.t.rows - T!Panel + 1] = a.t.lines[w.t.rows - T!Panel + 1]
  <2>1. /\ b \in Fitted /\ b.u = a.u /\ SameLog(b.t, a.t)
        /\ b.t.lines[a.t.rows - T!Panel + 2] = <<T!Shows(2)>>
        /\ \A q \in 0 .. 2 : q # 2 => b.t.lines[a.t.rows - T!Panel + q] = a.t.lines[a.t.rows - T!Panel + q]
    BY <1>1, <1>2, PutPanelIs
  <2>2. b.t.lines[a.t.rows - T!Panel + 0] = a.t.lines[a.t.rows - T!Panel + 0]
    BY <1>1, <2>1
  <2>3. b.t.lines[a.t.rows - T!Panel + 1] = a.t.lines[a.t.rows - T!Panel + 1]
    BY <1>1, <2>1
  <2> HIDE DEF b
  <2> QED BY <1>3, <2>1, <2>2, <2>3
<1>5. T!RenderProgress(w) = b
  BY DEF T!RenderProgress, a
<1> HIDE DEF b
<1>6. SameLog(b.t, w.t) /\ b.t.rows = w.t.rows
  BY <1>2, <1>3, <1>4, SameLogTwice DEF SameLog
<1>7. ASSUME w.t.lines[w.t.rows - T!Panel + 0] = <<T!Shows(0)>> PROVE PanelDrawn(b.t)
  <2>1. ASSUME NEW row \in 0 .. 2 PROVE b.t.lines[w.t.rows - T!Panel + row] = <<T!Shows(row)>>
    <3>1. row = 0 \/ row = 1 \/ row = 2
      OBVIOUS
    <3> QED BY <1>2, <1>4, <1>7, <3>1
  <2> QED BY <1>6, <2>1 DEF PanelDrawn
<1> QED BY <1>2, <1>4, <1>5, <1>6, <1>7

\* and render_ui the whole.
LEMMA RenderIs ==
  ASSUME NEW w \in Fitted, shown \in Seq(States)
  PROVE  /\ T!Render(w) \in Fitted /\ T!Render(w).u = w.u
         /\ SameLog(T!Render(w).t, w.t) /\ PanelDrawn(T!Render(w).t)
<1> DEFINE a == T!PutPanel(w, 0)
<1>1. /\ a \in Fitted /\ a.u = w.u /\ SameLog(a.t, w.t)
      /\ a.t.lines[w.t.rows - T!Panel + 0] = <<T!Shows(0)>>
  <2>1. 0 \in 0 .. 2
    OBVIOUS
  <2> QED BY <2>1, PutPanelIs
<1>2. T!Render(w) = T!RenderProgress(a)
  BY DEF T!Render
<1> HIDE DEF a
<1>3. a.t.rows = w.t.rows
  BY <1>1 DEF SameLog
<1>4. /\ T!RenderProgress(a) \in Fitted /\ T!RenderProgress(a).u = a.u
      /\ SameLog(T!RenderProgress(a).t, a.t) /\ PanelDrawn(T!RenderProgress(a).t)
  BY <1>1, <1>3, RenderProgressIs
<1> QED BY <1>1, <1>2, <1>4, SameLogTwice

\* clear_ui_region leaves the log.
LEMMA ClearPanelIs ==
  ASSUME NEW w \in Fitted
  PROVE  /\ T!ClearPanel(w) \in Fitted /\ T!ClearPanel(w).u = w.u
         /\ SameLog(T!ClearPanel(w).t, w.t)
<1>1. /\ w.u.ui_rows = 3 /\ w.u.sz = w.t.rows /\ w.t \in Roomy
      /\ T!PanelTop(w.u) = w.t.rows - 3 /\ w.t.rows \in Nat /\ w.t.rows >= 5
  BY RoomyIs DEF Fitted, T!PanelTop, T!Greatest, T!Panel
<1>2. PICK after :
        /\ after[0] = w.t
        /\ \A n \in 1 .. w.u.ui_rows : after[n] = T!El(T!Cup(after[n - 1], T!PanelTop(w.u) + n - 1, 0))
        /\ T!ClearPanel(w) = [w EXCEPT !.t = after[w.u.ui_rows]]
  <2>1. w.u.ui_rows \in Nat
    BY <1>1
  <2> QED BY <2>1, ClearSteps
<1> DEFINE Good(t) == t \in Roomy /\ SameLog(t, w.t)
<1>3. ASSUME NEW t, Good(t), NEW n \in 1 .. 3
      PROVE  Good(T!El(T!Cup(t, T!PanelTop(w.u) + n - 1, 0)))
  <2> DEFINE r == T!PanelTop(w.u) + n - 1
             at == T!Cup(t, r, 0)
             new == T!El(at)
  <2>1. t \in Roomy /\ t.rows = w.t.rows /\ t.lines \in Rows(t.rows)
    BY <1>3, RoomyIs DEF SameLog
  <2>2. r \in Nat /\ r < t.rows /\ r >= t.rows - 3 /\ T!Least(r, t.rows - 1) = r
    BY <1>1, <2>1 DEF T!Least
  <2> HIDE DEF r
  <2>3. at \in Roomy /\ at = [rows |-> t.rows, lines |-> t.lines, above |-> t.above, bot |-> t.bot,
                              row |-> r, col |-> 0, visible |-> t.visible]
    <3>1. 0 \in Nat
      OBVIOUS
    <3> QED BY <2>1, <2>2, <3>1, CupIs
  <2> HIDE DEF at
  <2>4. at.col = 0 /\ at.row = r /\ at.rows = t.rows /\ at.lines = t.lines /\ at.above = t.above
        /\ at.bot = t.bot /\ at.visible = t.visible
    BY <2>3
  <2>5. new \in Roomy /\ new = [rows |-> at.rows, lines |-> [at.lines EXCEPT ![at.row] = << >>],
                                above |-> at.above, bot |-> at.bot, row |-> at.row, col |-> 0,
                                visible |-> at.visible]
    BY <2>3, <2>4, ClearedIs
  <2> DEFINE L == [t.lines EXCEPT ![r] = << >>]
  <2>6. \A q \in 0 .. t.rows - 1 : q # r => L[q] = t.lines[q]
    BY <2>1, <2>2 DEF Rows
  <2> HIDE DEF L, new
  <2>7. new.rows = t.rows /\ new.lines = L /\ new.above = t.above /\ new.bot = t.bot
        /\ new.visible = t.visible
    BY <2>4, <2>5 DEF L
  <2>8. SameLog(new, w.t)
    <3>1. \A q \in 0 .. w.t.rows - T!Panel - 1 : q \in 0 .. t.rows - 1 /\ q # r
      BY <1>1, <2>1, <2>2 DEF T!Panel
    <3> QED BY <1>3, <2>1, <2>6, <2>7, <3>1 DEF SameLog
  <2> QED BY <2>5, <2>8 DEF new, at, r
<1>4. Good(after[0])
  BY <1>1, <1>2 DEF SameLog
<1> HIDE DEF Good
<1>5. Good(after[1])
  <2>1. 1 \in 1 .. 3 /\ 1 - 1 = 0
    OBVIOUS
  <2> QED BY <1>1, <1>2, <1>3, <1>4, <2>1
<1>6. Good(after[2])
  <2>1. 2 \in 1 .. 3 /\ 2 - 1 = 1
    OBVIOUS
  <2> QED BY <1>1, <1>2, <1>3, <1>5, <2>1
<1>7. Good(after[3])
  <2>1. 3 \in 1 .. 3 /\ 3 - 1 = 2
    OBVIOUS
  <2> QED BY <1>1, <1>2, <1>3, <1>6, <2>1
<1>8. after[3] \in Roomy /\ after[3].rows = w.t.rows /\ SameLog(after[3], w.t)
  BY <1>7 DEF Good, SameLog
<1> QED BY <1>1, <1>2, <1>8, WithTerminal

\* pico_redraw_ui
LEMMA RedrawIs ==
  ASSUME NEW w \in Fitted, shown \in Seq(States)
  PROVE  /\ T!Redraw(w) \in Fitted /\ T!Redraw(w).u = w.u
         /\ SameLog(T!Redraw(w).t, w.t) /\ PanelDrawn(T!Redraw(w).t)
<1> DEFINE a == T!ClearPanel(w)
<1>1. a \in Fitted /\ a.u = w.u /\ SameLog(a.t, w.t)
  BY ClearPanelIs
<1>2. T!Redraw(w) = T!Render(a)
  BY DEF T!Redraw
<1> HIDE DEF a
<1>3. /\ T!Render(a) \in Fitted /\ T!Render(a).u = a.u
      /\ SameLog(T!Render(a).t, a.t) /\ PanelDrawn(T!Render(a).t)
  BY <1>1, RenderIs
<1> QED BY <1>1, <1>2, <1>3, SameLogTwice

\* The region is set, where it has more than one row.
LEMMA CsrIs ==
  ASSUME NEW t \in Roomy, NEW bot \in Int
  PROVE  /\ T!Csr(t, bot) \in Roomy /\ T!Csr(t, bot).rows = t.rows
         /\ T!Csr(t, bot).lines = t.lines /\ T!Csr(t, bot).above = t.above
         /\ T!Csr(t, bot).visible = t.visible
         /\ bot > 0 /\ bot <= t.rows - 1 => T!Csr(t, bot).bot = bot
<1>1. /\ t.rows \in Nat /\ t.rows >= 5 /\ t.lines \in Rows(t.rows) /\ t.above \in Seq(Lines)
      /\ t.visible \in BOOLEAN
  BY RoomyIs
<1>2. CASE bot > 0
  <2> DEFINE B == T!Least(bot, t.rows - 1)
  <2>1. B \in Nat /\ B < t.rows /\ (bot <= t.rows - 1 => B = bot)
    BY <1>1, <1>2 DEF T!Least
  <2>2. T!Csr(t, bot) = [t EXCEPT !.bot = B, !.row = 0, !.col = 0]
    BY <1>2 DEF T!Csr
  <2>3. t = [rows |-> t.rows, lines |-> t.lines, above |-> t.above, bot |-> t.bot,
             row |-> t.row, col |-> t.col, visible |-> t.visible]
    BY RoomyIs
  <2> HIDE DEF B
  <2>4. T!Csr(t, bot) = [rows |-> t.rows, lines |-> t.lines, above |-> t.above, bot |-> B,
                         row |-> 0, col |-> 0, visible |-> t.visible]
    BY <1>1, <2>2, <2>3
  <2>5. [rows |-> t.rows, lines |-> t.lines, above |-> t.above, bot |-> B,
         row |-> 0, col |-> 0, visible |-> t.visible] \in Roomy
    <3>1. 0 \in Nat /\ 0 < t.rows
      BY <1>1
    <3> QED BY <1>1, <2>1, <3>1, RoomyMade
  <2> QED BY <2>1, <2>4, <2>5
<1>3. CASE ~(bot > 0)
  BY <1>3 DEF T!Csr
<1> QED BY <1>2, <1>3

\* A terminal after its cursor moved.
LEMMA CupSame ==
  ASSUME NEW t \in Roomy, NEW r \in Nat, NEW c \in Nat
  PROVE  /\ T!Cup(t, r, c) \in Roomy /\ T!Cup(t, r, c).rows = t.rows
         /\ T!Cup(t, r, c).lines = t.lines /\ T!Cup(t, r, c).above = t.above
         /\ T!Cup(t, r, c).bot = t.bot /\ T!Cup(t, r, c).visible = t.visible
         /\ T!Cup(t, r, c).col = c /\ (r < t.rows => T!Cup(t, r, c).row = r)
<1>1. t.rows \in Nat
  BY RoomyIs
<1>2. r < t.rows => T!Least(r, t.rows - 1) = r
  BY <1>1 DEF T!Least
<1>3. /\ T!Cup(t, r, c) \in Roomy
      /\ T!Cup(t, r, c) = [rows |-> t.rows, lines |-> t.lines, above |-> t.above, bot |-> t.bot,
                           row |-> T!Least(r, t.rows - 1), col |-> c, visible |-> t.visible]
  BY CupIs
<1> QED BY <1>2, <1>3

\* Terminals with the same rows.
SameScreen(s, t) ==
  s.rows = t.rows /\ s.bot = t.bot /\ s.visible = t.visible /\ s.above = t.above /\ s.lines = t.lines

Windows == {w \in [t : Roomy, u : Pico] : w.u.ui_rows = T!Panel}

\* After a resize the region ends above the panel again, which is drawn.
LEMMA ReprogramIs ==
  ASSUME NEW w \in Windows, shown \in Seq(States)
  PROVE  /\ T!Reprogram(w) \in Fitted /\ T!Reprogram(w).t.bot = w.t.rows - 4
         /\ PanelDrawn(T!Reprogram(w).t) /\ T!Reprogram(w).t.visible = w.t.visible
         /\ T!Reprogram(w).u.resized = w.u.resized /\ T!Reprogram(w).u.alive = w.u.alive
         /\ T!Reprogram(w).t.rows = w.t.rows
<1> DEFINE u == [w.u EXCEPT !.sz = w.t.rows,
                            !.ui_rows = T!Least(T!Greatest(1, @), T!Greatest(1, w.t.rows - 1))]
           one == T!Csr(w.t, w.u.sz - 1)
           two == T!Csr(one, T!StreamBottomRow(u))
           r == T!Redraw([t |-> two, u |-> u])
           placed == T!Cup(r.t, T!StreamBottomRow(u), 0)
<1>1. w.t \in Roomy /\ w.u \in Pico /\ w.u.ui_rows = 3 /\ T!Panel = 3 /\ w.t.rows \in Nat
      /\ w.t.rows >= 5 /\ w.u.sz \in Nat
  BY RoomyIs DEF Windows, T!Panel, Pico
<1>2. /\ u \in Pico /\ u.sz = w.t.rows /\ u.ui_rows = 3 /\ u.resized = w.u.resized
      /\ u.alive = w.u.alive
  <2>1. T!Least(T!Greatest(1, w.u.ui_rows), T!Greatest(1, w.t.rows - 1)) = 3
    BY <1>1 DEF T!Least, T!Greatest
  <2>2. u = [w.u EXCEPT !.sz = w.t.rows, !.ui_rows = 3]
    BY <2>1
  <2> HIDE DEF u
  <2> QED BY <1>1, <2>2 DEF Pico
<1>3. T!Reprogram(w) = [r EXCEPT !.t = placed, !.u.stream_anchor_set = FALSE]
  BY DEF T!Reprogram
<1> HIDE DEF u
<1>4. T!StreamBottomRow(u) = w.t.rows - 4 /\ w.t.rows - 4 \in Nat /\ w.t.rows - 4 > 0
  BY <1>1, <1>2 DEF T!StreamBottomRow, T!Greatest
<1>5. one \in Roomy /\ one.rows = w.t.rows /\ one.visible = w.t.visible
  <2>1. w.u.sz - 1 \in Int
    BY <1>1
  <2> QED BY <1>1, <2>1, CsrIs
<1> HIDE DEF one
<1>6. two \in Roomy /\ two.rows = w.t.rows /\ two.visible = w.t.visible /\ two.bot = w.t.rows - 4
  <2> DEFINE S == T!StreamBottomRow(u)
  <2>1. S \in Int /\ S > 0 /\ S <= one.rows - 1 /\ S = w.t.rows - 4
    BY <1>1, <1>4, <1>5
  <2> HIDE DEF S
  <2>2. T!Csr(one, S) \in Roomy /\ T!Csr(one, S).rows = one.rows
        /\ T!Csr(one, S).visible = one.visible /\ T!Csr(one, S).bot = S
    BY <1>5, <2>1, CsrIs
  <2> QED BY <1>5, <2>1, <2>2 DEF S
<1> HIDE DEF two
<1>7. [t |-> two, u |-> u] \in Fitted
  BY <1>1, <1>2, <1>6 DEF Fitted
<1>8. r \in Fitted /\ r.u = u /\ SameLog(r.t, two) /\ PanelDrawn(r.t)
  BY <1>7, RedrawIs
<1> HIDE DEF r
<1>9. r.t \in Roomy /\ r.t.rows = w.t.rows /\ r.t.bot = w.t.rows - 4 /\ r.t.visible = w.t.visible
  BY <1>6, <1>8 DEF SameLog, Fitted
<1>10. placed \in Roomy /\ placed.rows = r.t.rows /\ placed.lines = r.t.lines /\ placed.bot = r.t.bot
       /\ placed.visible = r.t.visible
  <2>1. 0 \in Nat
    OBVIOUS
  <2> QED BY <1>4, <1>9, <2>1, CupSame
<1> HIDE DEF placed
<1>11. PanelDrawn(placed)
  BY <1>8, <1>10 DEF PanelDrawn
<1>12. r = [t |-> r.t, u |-> u]
  BY <1>8 DEF Fitted
<1> DEFINE p == [u EXCEPT !.stream_anchor_set = FALSE]
<1>13. T!Reprogram(w) = [t |-> placed, u |-> p]
  <2>1. [r EXCEPT !.t = placed, !.u.stream_anchor_set = FALSE]
          = [r EXCEPT !.t = placed, !.u = [r.u EXCEPT !.stream_anchor_set = FALSE]]
    BY <1>12
  <2>2. T!Reprogram(w) = [r EXCEPT !.t = placed, !.u = p]
    BY <1>3, <1>8, <2>1
  <2>3. r \in [t : Roomy, u : Pico]
    BY <1>8 DEF Fitted
  <2> HIDE DEF p
  <2> QED BY <2>2, <2>3
<1>14. p \in Pico /\ p.sz = u.sz /\ p.ui_rows = u.ui_rows /\ p.alive = u.alive
       /\ p.resized = u.resized
  BY <1>2 DEF Pico
<1> HIDE DEF p
<1>15. [t |-> placed, u |-> p] \in Fitted
  BY <1>1, <1>2, <1>9, <1>10, <1>14 DEF Fitted
<1> QED BY <1>2, <1>9, <1>10, <1>11, <1>13, <1>14, <1>15

\* What a call finds: the resize seen, and the panel drawn where there was one.
LEMMA HandleResizeIs ==
  ASSUME NEW w \in Windows, shown \in Seq(States), ~w.u.resized => w.u.sz = w.t.rows
  PROVE  /\ T!HandleResize(w) \in Fitted /\ ~T!HandleResize(w).u.resized
         /\ T!HandleResize(w).u.alive = w.u.alive
         /\ T!HandleResize(w).t.visible = w.t.visible
         /\ T!HandleResize(w).t.rows = w.t.rows
         /\ ~w.u.resized => T!HandleResize(w) = w
         /\ w.u.resized => /\ T!HandleResize(w).t.bot = w.t.rows - 4
                           /\ PanelDrawn(T!HandleResize(w).t)
<1>1. CASE ~w.u.resized
  BY <1>1 DEF T!HandleResize, Windows, Fitted
<1>2. CASE w.u.resized
  <2> DEFINE v == [w EXCEPT !.u.resized = FALSE]
  <2>1. v \in Windows /\ v.t = w.t /\ ~v.u.resized /\ v.u.alive = w.u.alive
    BY DEF Windows, Pico
  <2>2. T!HandleResize(w) = T!Reprogram(v)
    BY <1>2 DEF T!HandleResize
  <2> HIDE DEF v
  <2> QED BY <1>2, <2>1, <2>2, ReprogramIs
<1> QED BY <1>1, <1>2

\* The record of what was written has a last line, which is empty after a line feed.
LEMMA ContinuedIs ==
  ASSUME NEW lines \in Seq(Lines), Len(lines) >= 1, NEW text \in Seq(Pieces)
  PROVE  /\ T!Continued(lines, text) \in Seq(Lines) /\ Len(T!Continued(lines, text)) >= 1
         /\ text # << >> /\ text[Len(text)] = T!NL =>
              T!Continued(lines, text)[Len(T!Continued(lines, text))] = << >>
         /\ text = << >> => T!Continued(lines, text) = lines
<1>1. Len(text) \in Nat /\ \A n \in 1 .. Len(text) : text[n] \in Pieces
  OBVIOUS
<1>2. PICK told :
        /\ told[0] = lines
        /\ \A n \in 1 .. Len(text) : told[n] = T!Add(told[n - 1], text[n])
        /\ T!Continued(lines, text) = told[Len(text)]
  BY <1>1, ContinuedSteps
<1> DEFINE Good(n) == told[n] \in Seq(Lines) /\ Len(told[n]) >= 1
           P == {n \in 0 .. Len(text) : Good(n)}
<1>3. ASSUME NEW l \in Seq(Lines), Len(l) >= 1, NEW p \in Pieces
      PROVE  /\ T!Add(l, p) \in Seq(Lines) /\ Len(T!Add(l, p)) >= 1
             /\ p = T!NL => T!Add(l, p)[Len(T!Add(l, p))] = << >>
  <2>1. CASE p = T!NL
    <3> DEFINE new == Append(l, << >>)
    <3>1. << >> \in Lines
      BY DEF Lines
    <3>2. new \in Seq(Lines) /\ Len(new) = Len(l) + 1 /\ new[Len(l) + 1] = << >> /\ Len(l) \in Nat
      BY <3>1
    <3>3. T!Add(l, p) = new
      BY <2>1 DEF T!Add
    <3> HIDE DEF new
    <3> QED BY <1>3, <3>2, <3>3
  <2>2. CASE p # T!NL
    <3>1. l[Len(l)] \in Lines /\ Len(l) \in 1 .. Len(l)
      BY <1>3
    <3>2. Append(l[Len(l)], p) \in Lines
      BY <3>1 DEF Lines
    <3>3. T!Add(l, p) = [l EXCEPT ![Len(l)] = Append(l[Len(l)], p)]
      BY <2>2 DEF T!Add
    <3> QED BY <1>3, <2>2, <3>1, <3>2, <3>3
  <2> QED BY <2>1, <2>2
<1>4. 0 \in P
  BY <1>1, <1>2
<1>5. ASSUME NEW n \in 1 .. Len(text), n - 1 \in P PROVE n \in P
  <2> DEFINE l == told[n - 1]
             q == T!Add(l, text[n])
  <2>1. l \in Seq(Lines) /\ Len(l) >= 1 /\ text[n] \in Pieces
    BY <1>1, <1>5
  <2>2. told[n] = q
    BY <1>2
  <2> HIDE DEF l
  <2>3. q \in Seq(Lines) /\ Len(q) >= 1
    BY <1>3, <2>1
  <2> HIDE DEF q
  <2> QED BY <2>2, <2>3
<1>6. ASSUME NEW n \in 0 .. Len(text) PROVE Good(n)
  <2> HIDE DEF P
  <2>1. 0 .. Len(text) \subseteq P
    BY <1>1, <1>4, <1>5, UpTo
  <2> QED BY <2>1 DEF P
<1>7. Good(Len(text))
  BY <1>1, <1>6
<1>8. ASSUME text # << >>, text[Len(text)] = T!NL
      PROVE  told[Len(text)][Len(told[Len(text)])] = << >>
  <2>1. Len(text) \in 1 .. Len(text) /\ Len(text) - 1 \in 0 .. Len(text)
    BY <1>8
  <2>2. Good(Len(text) - 1)
    BY <1>6, <2>1
  <2>3. told[Len(text)] = T!Add(told[Len(text) - 1], text[Len(text)])
    BY <1>2, <2>1
  <2> DEFINE l == told[Len(text) - 1]
             p == text[Len(text)]
  <2>4. l \in Seq(Lines) /\ Len(l) >= 1 /\ p \in Pieces /\ p = T!NL
    BY <1>1, <1>8, <2>1, <2>2
  <2>5. told[Len(text)] = T!Add(l, p)
    BY <2>3
  <2> HIDE DEF l, p
  <2>6. T!Add(l, p)[Len(T!Add(l, p))] = << >>
    BY <1>3, <2>4
  <2> QED BY <2>5, <2>6
<1>9. text = << >> => told[Len(text)] = lines
  BY <1>2
<1> QED BY <1>2, <1>7, <1>8, <1>9

-----------------------------------------------------------------------------
(* The calls.                                                              *)

\* What holds of a window between two calls once it saw its resize.
AtRest(w) == w \in Fitted /\ w.t.bot = w.t.rows - 4

\* The place that picotui remembers is the end of the last line.
Placed(u, lines) ==
  IF u.stream_anchor_set THEN u.stream_cur_col = Len(lines[Len(lines)])
                         ELSE lines[Len(lines)] = << >>

\* A line with nothing but what a rule is made of.
Dashes(line) == \A i \in 1 .. Len(line) : line[i] = <<"-">>

\* One more of them is still such a line.
LEMMA DashIs ==
  /\ T!Dash \in Seq(Pieces) /\ Len(T!Dash) = 1 /\ T!Dash[1] = <<"-">> /\ T!Dash # << >>
  /\ <<"-">> \in Pieces /\ <<"-">> # T!NL
<1>1. "-" \in Words
  BY DEF Words
<1>2. <<"-">> \in Pieces
  BY <1>1, OneWord
<1>3. <<"-">> # T!NL
  BY DEF T!NL
<1> DEFINE p == <<"-">>
<1> HIDE DEF p
<1>4. p \in Pieces => <<p>> \in Seq(Pieces) /\ Len(<<p>>) = 1 /\ <<p>>[1] = p /\ <<p>> # << >>
  OBVIOUS
<1> QED BY <1>2, <1>3, <1>4 DEF T!Dash, p

LEMMA DashesGoOn ==
  ASSUME NEW lines \in Seq(Lines), Len(lines) >= 1, Dashes(lines[Len(lines)])
  PROVE  Dashes(T!Continued(lines, T!Dash)[Len(T!Continued(lines, T!Dash))])
<1> DEFINE k == Len(lines)
           open == lines[k]
           p == <<"-">>
           new == [lines EXCEPT ![k] = Append(open, p)]
<1>1. T!Continued(lines, T!Dash) = T!Add(lines, p)
  <2>1. PICK told :
          /\ told[0] = lines
          /\ \A n \in 1 .. Len(T!Dash) : told[n] = T!Add(told[n - 1], T!Dash[n])
          /\ T!Continued(lines, T!Dash) = told[Len(T!Dash)]
    BY DashIs, ContinuedSteps
  <2>2. 1 \in 1 .. Len(T!Dash) /\ 1 - 1 = 0
    BY DashIs
  <2> QED BY <2>1, <2>2, DashIs
<1>2. T!Add(lines, p) = new
  BY DashIs DEF T!Add
<1>3. open \in Lines /\ k \in 1 .. k /\ p \in Pieces /\ p = <<"-">>
  BY DashIs
<1> HIDE DEF p
<1>4. Append(open, p) \in Lines /\ Len(Append(open, p)) = Len(open) + 1
      /\ \A i \in 1 .. Len(open) + 1 : Append(open, p)[i] = IF i <= Len(open) THEN open[i] ELSE p
  BY <1>3 DEF Lines
<1>5. Dashes(Append(open, p))
  <2> HIDE DEF open
  <2>1. Len(open) \in Nat
    BY <1>3 DEF Lines
  <2>2. Dashes(open)
    BY DEF open
  <2> QED BY <1>3, <1>4, <2>1, <2>2 DEF Dashes
<1>6. Len(new) = k /\ new[k] = Append(open, p)
  BY <1>3, <1>4
<1> QED BY <1>1, <1>2, <1>5, <1>6

\* Some writing at the end of the region.
LEMMA WriteAt ==
  ASSUME NEW w, AtRest(w), NEW col \in Nat, NEW text \in Seq(Pieces), NEW s,
         s = T!Write(T!Cup(w.t, T!StreamBottomRow(w.u), col), text)
  PROVE  /\ s \in Roomy /\ s.rows = w.t.rows /\ s.bot = w.t.bot /\ s.visible = w.t.visible
         /\ s.col = T!Advance(col, text)
         /\ PanelDrawn(w.t) => PanelDrawn(s)
         /\ \A lines : Kept(w.t, lines) /\ col = Len(lines[Len(lines)]) =>
              /\ Kept(s, T!Continued(lines, text))
              /\ s.col = Len(T!Continued(lines, text)[Len(T!Continued(lines, text))])
         /\ \A lines : Kept(w.t, lines) /\ text = <<T!NL>> =>
              Kept(s, Append(lines, << >>))
         /\ \A lines : Kept(w.t, lines) /\ col = 0 /\ text = Append(T!Dash, T!NL)
                       /\ Len(lines[Len(lines)]) > 0 /\ Dashes(lines[Len(lines)]) =>
              Kept(s, Append(lines, << >>))
<1> DEFINE at == T!Cup(w.t, T!StreamBottomRow(w.u), col)
<1>1. w.t \in Roomy /\ w.t.rows \in Nat /\ w.t.rows >= 5 /\ w.u.sz = w.t.rows /\ w.u.ui_rows = 3
      /\ w.t.bot = w.t.rows - 4
  BY RoomyIs DEF AtRest, Fitted, T!Panel
<1>2. T!StreamBottomRow(w.u) = w.t.bot /\ w.t.bot \in Nat /\ w.t.bot < w.t.rows
  BY <1>1 DEF T!StreamBottomRow, T!Greatest
<1>3. /\ at \in Roomy /\ at.rows = w.t.rows /\ at.lines = w.t.lines /\ at.above = w.t.above
      /\ at.bot = w.t.bot /\ at.visible = w.t.visible /\ at.col = col /\ at.row = at.bot
  <2> DEFINE B == T!StreamBottomRow(w.u)
  <2>1. B \in Nat /\ B < w.t.rows /\ B = w.t.bot
    BY <1>2
  <2>2. at = T!Cup(w.t, B, col)
    OBVIOUS
  <2> HIDE DEF B, at
  <2>3. /\ T!Cup(w.t, B, col) \in Roomy /\ T!Cup(w.t, B, col).rows = w.t.rows
        /\ T!Cup(w.t, B, col).lines = w.t.lines /\ T!Cup(w.t, B, col).above = w.t.above
        /\ T!Cup(w.t, B, col).bot = w.t.bot /\ T!Cup(w.t, B, col).visible = w.t.visible
        /\ T!Cup(w.t, B, col).col = col
        /\ (B < w.t.rows => T!Cup(w.t, B, col).row = B)
    <3>1. w.t \in Roomy /\ B \in Nat /\ col \in Nat
      BY <1>1, <2>1
    <3> QED BY <3>1, CupSame
  <2> QED BY <2>1, <2>2, <2>3
<1>s. s = T!Write(at, text)
  OBVIOUS
<1> HIDE DEF at
<1>4. s \in Roomy /\ SameBelow(s, at) /\ s.col = T!Advance(col, text) /\ s.row = at.bot
  BY <1>s, <1>3, WriteIs
<1>5. ASSUME PanelDrawn(w.t) PROVE PanelDrawn(s)
  <2>1. \A row \in 0 .. 2 : w.t.rows - T!Panel + row \in w.t.bot + 1 .. w.t.rows - 1
    <3>1. \A n \in Nat, row \in 0 .. 2 : n - 3 + row \in (n - 4) + 1 .. n - 1
      OBVIOUS
    <3>2. w.t.rows \in Nat /\ w.t.bot = w.t.rows - 4 /\ T!Panel = 3
      BY <1>1 DEF T!Panel
    <3> QED BY <3>1, <3>2
  <2> QED BY <1>3, <1>4, <1>5, <2>1, SMTT(20) DEF PanelDrawn, SameBelow
<1>6. ASSUME NEW lines, Kept(w.t, lines) PROVE Kept(at, lines)
  BY <1>3, <1>6 DEF Kept, RowAt, End
<1>7. ASSUME NEW lines, Kept(w.t, lines), col = Len(lines[Len(lines)])
      PROVE  /\ Kept(s, T!Continued(lines, text))
             /\ s.col = Len(T!Continued(lines, text)[Len(T!Continued(lines, text))])
  <2>1. Kept(at, lines)
    BY <1>6, <1>7
  <2> QED BY <1>s, <1>3, <1>7, <2>1, WriteKeepsLog
<1>8. ASSUME NEW lines, Kept(w.t, lines), text = <<T!NL>>
      PROVE  Kept(s, Append(lines, << >>))
  <2>1. Kept(at, lines)
    BY <1>6, <1>8
  <2>2. Len(text) = 1 /\ text[1] = T!NL
    BY <1>8
  <2>3. PICK after : after[0] = at /\ after[1] = T!Piece(after[0], text[1]) /\ s = after[1]
    <3>1. PICK after :
            /\ after[0] = at
            /\ \A n \in 1 .. Len(text) : after[n] = T!Piece(after[n - 1], text[n])
            /\ T!Write(at, text) = after[Len(text)]
      BY <2>2, WriteSteps, SMTT(30)
    <3>2. 1 \in 1 .. Len(text) /\ 1 - 1 = 0
      BY <2>2
    <3> QED BY <1>s, <2>2, <3>1, <3>2
  <2>4. s = T!LineFeed(at)
    BY <2>2, <2>3 DEF T!Piece
  <2> QED BY <1>3, <2>1, <2>4, FeedKeepsLog
<1>9. ASSUME NEW lines, Kept(w.t, lines), col = 0, text = Append(T!Dash, T!NL),
             Len(lines[Len(lines)]) > 0, Dashes(lines[Len(lines)])
      PROVE  Kept(s, Append(lines, << >>))
  <2>1. Kept(at, lines)
    BY <1>6, <1>9
  <2> DEFINE p == <<"-">>
             n == T!NL
             a == T!Put(at, p)
  <2>2. Len(text) = 2 /\ text[1] = p /\ text[2] = n
    <3>0. p \in Pieces /\ n \in Pieces
      <4>1. "\n" \in Words
        BY DEF Words
      <4> QED BY <4>1, OneWord, DashIs DEF T!NL
    <3> HIDE DEF p, n
    <3>1. text = Append(T!Dash, n)
      BY <1>9 DEF n
    <3>2. T!Dash \in Seq(Pieces) /\ Len(T!Dash) = 1 /\ T!Dash[1] = p
      BY DashIs DEF p
    <3>3. ASSUME NEW e \in Seq(Pieces), NEW q \in Pieces, Len(e) = 1
          PROVE  Len(Append(e, q)) = 2 /\ Append(e, q)[1] = e[1] /\ Append(e, q)[2] = q
      <4>1. /\ Len(Append(e, q)) = Len(e) + 1 /\ Append(e, q)[Len(e) + 1] = q
            /\ \A i \in 1 .. Len(e) : Append(e, q)[i] = e[i]
        OBVIOUS
      <4>2. 1 \in 1 .. Len(e) /\ Len(e) + 1 = 2
        BY <3>3
      <4> QED BY <4>1, <4>2
    <3> DEFINE d == T!Dash
    <3> HIDE DEF d
    <3>4. Len(Append(d, n)) = 2 /\ Append(d, n)[1] = d[1] /\ Append(d, n)[2] = n
      BY <3>0, <3>2, <3>3 DEF d
    <3> QED BY <3>1, <3>2, <3>4 DEF d
  <2>3. PICK after : /\ after[0] = at /\ after[1] = T!Piece(after[0], text[1])
                     /\ after[2] = T!Piece(after[1], text[2]) /\ s = after[2]
    <3>1. PICK after :
            /\ after[0] = at
            /\ \A m \in 1 .. Len(text) : after[m] = T!Piece(after[m - 1], text[m])
            /\ T!Write(at, text) = after[Len(text)]
      BY <2>2, WriteSteps, SMTT(30)
    <3>2. 1 \in 1 .. Len(text) /\ 1 - 1 = 0 /\ 2 \in 1 .. Len(text) /\ 2 - 1 = 1
      BY <2>2
    <3> QED BY <1>s, <2>2, <3>1, <3>2
  <2>4. after[1] = a /\ s = T!LineFeed(a)
    BY <2>2, <2>3, DashIs DEF T!Piece
  <2>5. lines[Len(lines)][1] = p
    <3>1. 1 \in 1 .. Len(lines[Len(lines)])
      <4>1. lines[Len(lines)] \in Lines
        BY <1>9 DEF Kept
      <4> DEFINE line == lines[Len(lines)]
      <4>2. line \in Lines /\ Len(line) > 0
        BY <1>9, <4>1
      <4> HIDE DEF line
      <4>3. 1 \in 1 .. Len(line)
        BY <4>2 DEF Lines
      <4> QED BY <4>3 DEF line
    <3> QED BY <1>9, <3>1 DEF Dashes
  <2>6. a \in Roomy /\ a.row = a.bot /\ Kept(a, lines)
    <3>1. p \in Pieces
      BY DashIs
    <3> HIDE DEF p
    <3>2. at.col = 0 /\ at.row = at.bot /\ at \in Roomy
      BY <1>3, <1>9
    <3> QED BY <1>9, <2>1, <2>5, <3>1, <3>2, SameAgain
  <2> HIDE DEF a
  <2> QED BY <2>4, <2>6, FeedKeepsLog
<1> QED BY <1>3, <1>4, <1>5, <1>7, <1>8, <1>9 DEF SameBelow

\* A window after a call that wrote: the panel stands if it stood.
Wrote(v, w) ==
  /\ v.t \in Roomy /\ v.u \in Pico /\ AtRest(v) /\ v.t.rows = w.t.rows
  /\ v.t.visible = w.t.visible /\ v.u.resized = w.u.resized /\ v.u.alive = w.u.alive
  /\ PanelDrawn(w.t) => PanelDrawn(v.t)

\* pico_print and pico_printf go on where the last line ends.
LEMMA WriteStreamIs ==
  ASSUME NEW w, AtRest(w), NEW text \in Seq(Pieces)
  PROVE  /\ Wrote(T!WriteStream(w, text), w)
         /\ \A lines : Kept(w.t, lines) /\ Placed(w.u, lines) =>
              /\ Kept(T!WriteStream(w, text).t, T!Continued(lines, text))
              /\ Placed(T!WriteStream(w, text).u, T!Continued(lines, text))
<1> DEFINE col == T!StreamCol(w.u)
           s == T!Write(T!Cup(w.t, T!StreamBottomRow(w.u), col), text)
           u == [w.u EXCEPT !.stream_anchor_set = TRUE, !.stream_cur_col = T!Advance(col, text)]
           v == T!WriteStream(w, text)
<1>1. w.t \in Roomy /\ w.u \in Pico /\ w \in [t : Roomy, u : Pico] /\ w.u.sz = w.t.rows
      /\ w.u.ui_rows = T!Panel /\ w.t.bot = w.t.rows - 4
  BY DEF AtRest, Fitted
<1>2. col \in Nat
  BY <1>1 DEF Pico, T!StreamCol
<1>3. v = [w EXCEPT !.t = s, !.u = u]
  <2>1. v = [w EXCEPT !.t = s, !.u.stream_anchor_set = TRUE, !.u.stream_cur_col = T!Advance(col, text)]
    BY DEF T!WriteStream
  <2> HIDE DEF v, s, col
  <2> QED BY <1>1, <2>1
<1> HIDE DEF col
<1>4. /\ s \in Roomy /\ s.rows = w.t.rows /\ s.bot = w.t.bot /\ s.visible = w.t.visible
      /\ s.col = T!Advance(col, text)
      /\ PanelDrawn(w.t) => PanelDrawn(s)
      /\ \A lines : Kept(w.t, lines) /\ col = Len(lines[Len(lines)]) =>
           /\ Kept(s, T!Continued(lines, text))
           /\ s.col = Len(T!Continued(lines, text)[Len(T!Continued(lines, text))])
  BY <1>2, WriteAt
<1> HIDE DEF s
<1>5. s.col \in Nat
  BY <1>4, RoomyIs
<1>6. /\ u \in Pico /\ u.stream_anchor_set /\ u.stream_cur_col = s.col /\ u.sz = w.u.sz
      /\ u.ui_rows = w.u.ui_rows /\ u.alive = w.u.alive /\ u.resized = w.u.resized
  BY <1>1, <1>4, <1>5 DEF Pico
<1> HIDE DEF u, v
<1>7. v.t = s /\ v.u = u /\ v \in [t : Roomy, u : Pico]
  BY <1>1, <1>3, <1>4, <1>6
<1>8. Wrote(v, w)
  BY <1>1, <1>4, <1>6, <1>7 DEF Wrote, AtRest, Fitted
<1>9. ASSUME NEW lines, Kept(w.t, lines), Placed(w.u, lines)
      PROVE  /\ Kept(v.t, T!Continued(lines, text))
             /\ Placed(v.u, T!Continued(lines, text))
  <2>1. col = Len(lines[Len(lines)])
    BY <1>9 DEF col, Placed, T!StreamCol
  <2> QED BY <1>4, <1>6, <1>7, <1>9, <2>1 DEF Placed
<1> QED BY <1>8, <1>9 DEF v

LEMMA WholeLine ==
  ASSUME NEW text \in Seq(Pieces)
  PROVE  /\ Append(text, T!NL) \in Seq(Pieces) /\ Append(text, T!NL) # << >>
         /\ Append(text, T!NL)[Len(Append(text, T!NL))] = T!NL
         /\ text = << >> => Append(text, T!NL) = <<T!NL>>
<1>1. T!NL \in Pieces
  <2>1. "\n" \in Words
    BY DEF Words
  <2> QED BY <2>1, OneWord DEF T!NL
<1> DEFINE p == T!NL
           f == Append(text, p)
<1> HIDE DEF p
<1>2. f \in Seq(Pieces) /\ Len(f) = Len(text) + 1 /\ Len(text) \in Nat
      /\ f[Len(text) + 1] = p
  BY <1>1 DEF p
<1>3. text = << >> => f = <<p>>
  OBVIOUS
<1> HIDE DEF f
<1>4. f # << >> /\ f[Len(f)] = p
  BY <1>2
<1> QED BY <1>2, <1>3, <1>4 DEF f, p

\* A text that its line begins with already.
Repeats(text, line) == text = << >> \/ (text = T!Dash /\ Len(line) > 0 /\ Dashes(line))

LEMMA LineEnded ==
  ASSUME NEW lines
  PROVE  T!Continued(lines, <<T!NL>>) = Append(lines, << >>)
<1> DEFINE n == T!NL
           text == <<n>>
<1>1. Len(text) = 1 /\ text[1] = n
  OBVIOUS
<1> HIDE DEF text
<1>2. PICK told :
        /\ told[0] = lines
        /\ \A i \in 1 .. Len(text) : told[i] = T!Add(told[i - 1], text[i])
        /\ T!Continued(lines, text) = told[Len(text)]
  BY <1>1, ContinuedSteps
<1>3. 1 \in 1 .. Len(text) /\ 1 - 1 = 0
  BY <1>1
<1>4. T!Continued(lines, text) = T!Add(lines, n)
  BY <1>1, <1>2, <1>3
<1>5. T!Add(lines, n) = Append(lines, << >>)
  BY DEF T!Add
<1> QED BY <1>4, <1>5 DEF text

\* pico_println writes an own line where the last one is empty, and ends the last
\* one where it has nothing to write, or begins a rule of dashes again.
LEMMA WriteLineIs ==
  ASSUME NEW w, AtRest(w), NEW text \in Seq(Pieces)
  PROVE  /\ Wrote(T!WriteLine(w, text), w)
         /\ \A lines : Kept(w.t, lines) /\ lines[Len(lines)] = << >> =>
              /\ Kept(T!WriteLine(w, text).t, T!Continued(lines, Append(text, T!NL)))
              /\ Placed(T!WriteLine(w, text).u, T!Continued(lines, Append(text, T!NL)))
         /\ \A lines : Kept(w.t, lines) /\ Repeats(text, lines[Len(lines)]) =>
              /\ Kept(T!WriteLine(w, text).t, T!Continued(lines, <<T!NL>>))
              /\ Placed(T!WriteLine(w, text).u, T!Continued(lines, <<T!NL>>))
<1> DEFINE full == Append(text, T!NL)
           s == T!Write(T!Cup(w.t, T!StreamBottomRow(w.u), 0), full)
           u == [w.u EXCEPT !.stream_anchor_set = FALSE]
           v == T!WriteLine(w, text)
<1>1. w.t \in Roomy /\ w.u \in Pico /\ w \in [t : Roomy, u : Pico] /\ w.u.sz = w.t.rows
      /\ w.u.ui_rows = T!Panel /\ w.t.bot = w.t.rows - 4
  BY DEF AtRest, Fitted
<1>2. /\ full \in Seq(Pieces) /\ full # << >> /\ full[Len(full)] = T!NL /\ 0 \in Nat
      /\ text = << >> => full = <<T!NL>>
  BY WholeLine
<1>3. v = [w EXCEPT !.t = s, !.u = u]
  <2>1. v = [w EXCEPT !.t = s, !.u.stream_anchor_set = FALSE]
    BY DEF T!WriteLine
  <2> HIDE DEF v, s
  <2> QED BY <1>1, <2>1
<1> HIDE DEF full
<1>4. /\ s \in Roomy /\ s.rows = w.t.rows /\ s.bot = w.t.bot /\ s.visible = w.t.visible
      /\ PanelDrawn(w.t) => PanelDrawn(s)
      /\ \A lines : Kept(w.t, lines) /\ 0 = Len(lines[Len(lines)]) => Kept(s, T!Continued(lines, full))
      /\ \A lines : Kept(w.t, lines) /\ full = <<T!NL>> => Kept(s, Append(lines, << >>))
      /\ \A lines : Kept(w.t, lines) /\ 0 = 0 /\ full = Append(T!Dash, T!NL)
                    /\ Len(lines[Len(lines)]) > 0 /\ Dashes(lines[Len(lines)]) =>
           Kept(s, Append(lines, << >>))
  BY <1>2, WriteAt
<1> HIDE DEF s
<1>5. /\ u \in Pico /\ ~u.stream_anchor_set /\ u.sz = w.u.sz
      /\ u.ui_rows = w.u.ui_rows /\ u.alive = w.u.alive /\ u.resized = w.u.resized
  BY <1>1 DEF Pico
<1> HIDE DEF u, v
<1>6. v.t = s /\ v.u = u /\ v \in [t : Roomy, u : Pico]
  BY <1>1, <1>3, <1>4, <1>5
<1>7. Wrote(v, w)
  BY <1>1, <1>4, <1>5, <1>6 DEF Wrote, AtRest, Fitted
<1>8. ASSUME NEW lines, Kept(w.t, lines), lines[Len(lines)] = << >>
      PROVE  /\ Kept(v.t, T!Continued(lines, full))
             /\ Placed(v.u, T!Continued(lines, full))
  <2>1. lines \in Seq(Lines) /\ Len(lines) >= 1
    BY <1>8 DEF Kept
  <2>2. T!Continued(lines, full)[Len(T!Continued(lines, full))] = << >>
    BY <1>2, <2>1, ContinuedIs
  <2>3. Placed(v.u, T!Continued(lines, full))
    BY <1>5, <1>6, <2>2 DEF Placed
  <2>4. 0 = Len(lines[Len(lines)])
    <3>1. Len(<< >>) = 0
      OBVIOUS
    <3> QED BY <1>8, <3>1
  <2> QED BY <1>4, <1>6, <1>8, <2>3, <2>4
<1>9. ASSUME NEW lines, Kept(w.t, lines), Repeats(text, lines[Len(lines)])
      PROVE  /\ Kept(v.t, T!Continued(lines, <<T!NL>>))
             /\ Placed(v.u, T!Continued(lines, <<T!NL>>))
  <2>1. T!Continued(lines, <<T!NL>>) = Append(lines, << >>)
    BY LineEnded
  <2>2. Append(lines, << >>)[Len(Append(lines, << >>))] = << >>
    <3>1. lines \in Seq(Lines) /\ << >> \in Lines
      BY <1>9 DEF Kept, Lines
    <3> DEFINE none == << >>
    <3> HIDE DEF none
    <3>2. lines \in Seq(Lines) /\ none \in Lines => Append(lines, none)[Len(Append(lines, none))] = none
      OBVIOUS
    <3> QED BY <3>1, <3>2 DEF none
  <2>3. Placed(v.u, Append(lines, << >>))
    BY <1>5, <1>6, <2>2 DEF Placed
  <2>4. Kept(s, Append(lines, << >>))
    <3>1. CASE text = << >>
      BY <1>2, <1>4, <1>9, <3>1
    <3>2. CASE text = T!Dash /\ Len(lines[Len(lines)]) > 0 /\ Dashes(lines[Len(lines)])
      BY <1>4, <1>9, <3>2 DEF full
    <3> QED BY <1>9, <3>1, <3>2 DEF Repeats
  <2> QED BY <1>6, <2>1, <2>3, <2>4
<1> QED BY <1>7, <1>8, <1>9 DEF v, full

\* pico_print_block writes on where the last line ends, too, but may remember another
\* place than the one where it ends itself.
LEMMA WriteBlockIs ==
  ASSUME NEW w, AtRest(w), NEW text \in Seq(Pieces)
  PROVE  /\ Wrote(T!WriteBlock(w, text), w)
         /\ \A lines : Kept(w.t, lines) /\ Placed(w.u, lines) =>
              Kept(T!WriteBlock(w, text).t, T!Continued(lines, text))
<1> DEFINE col == T!StreamCol(w.u)
           ends == text # << >> /\ T!Last(text) = T!NL
           s == T!Write(T!Cup(w.t, T!StreamBottomRow(w.u), col), text)
           at == IF ends THEN col ELSE col + T!Advance(0, text)
           u == [w.u EXCEPT !.stream_anchor_set = ~ends, !.stream_cur_col = at]
           v == T!WriteBlock(w, text)
<1>1. w.t \in Roomy /\ w.u \in Pico /\ w \in [t : Roomy, u : Pico] /\ w.u.sz = w.t.rows
      /\ w.u.ui_rows = T!Panel /\ w.t.bot = w.t.rows - 4
  BY DEF AtRest, Fitted
<1>2. col \in Nat
  BY <1>1 DEF Pico, T!StreamCol
<1>3. v = [w EXCEPT !.t = s, !.u = u]
  <2>1. v = [w EXCEPT !.t = s, !.u.stream_anchor_set = ~ends, !.u.stream_cur_col = at]
    BY DEF T!WriteBlock
  <2> HIDE DEF v, s, at, ends
  <2> QED BY <1>1, <2>1
<1> HIDE DEF col
<1>4. /\ s \in Roomy /\ s.rows = w.t.rows /\ s.bot = w.t.bot /\ s.visible = w.t.visible
      /\ PanelDrawn(w.t) => PanelDrawn(s)
      /\ \A lines : Kept(w.t, lines) /\ col = Len(lines[Len(lines)]) =>
           Kept(s, T!Continued(lines, text))
  BY <1>2, WriteAt
<1> HIDE DEF s
<1>5. at \in Nat
  <2> DEFINE r == T!Write(T!Cup(w.t, T!StreamBottomRow(w.u), 0), text)
  <2>1. r \in Roomy /\ r.col = T!Advance(0, text)
    BY WriteAt
  <2> HIDE DEF r
  <2>2. T!Advance(0, text) \in Nat
    BY <2>1, RoomyIs
  <2> HIDE DEF ends
  <2> QED BY <1>2, <2>2
<1>6. ends \in BOOLEAN
  OBVIOUS
<1> HIDE DEF at, ends
<1>7. /\ u \in Pico /\ u.sz = w.u.sz /\ u.ui_rows = w.u.ui_rows
      /\ u.alive = w.u.alive /\ u.resized = w.u.resized
  BY <1>1, <1>5, <1>6 DEF Pico
<1> HIDE DEF u, v
<1>8. v.t = s /\ v.u = u /\ v \in [t : Roomy, u : Pico]
  BY <1>1, <1>3, <1>4, <1>7
<1>9. Wrote(v, w)
  BY <1>1, <1>4, <1>7, <1>8 DEF Wrote, AtRest, Fitted
<1>10. ASSUME NEW lines, Kept(w.t, lines), Placed(w.u, lines)
       PROVE  Kept(v.t, T!Continued(lines, text))
  <2>1. lines[Len(lines)] = << >> => Len(lines[Len(lines)]) = 0
    OBVIOUS
  <2>2. col = Len(lines[Len(lines)])
    BY <1>10, <2>1 DEF col, Placed, T!StreamCol
  <2> QED BY <1>4, <1>8, <1>10, <2>2
<1> QED BY <1>9, <1>10 DEF v

\* A terminal that nothing was written to.
Empty(t) == \A r \in 0 .. t.rows - 1 : t.lines[r] = << >>

LEMMA EmptyKept ==
  ASSUME NEW t \in Roomy, t.lines[t.bot] = << >>
  PROVE  Kept(t, << << >> >>)
<1>1. t.above \in Seq(Lines)
  BY RoomyIs
<1>2. Len(t.above) \in Nat /\ t.bot \in Nat
  BY <1>1, RoomyIs
<1>3. End(t) \in Nat /\ End(t) >= 1 /\ End(t) = Len(t.above) + t.bot + 1
  BY <1>2 DEF End
<1>4. ~(End(t) <= Len(t.above)) /\ End(t) - Len(t.above) - 1 = t.bot
  BY <1>2, <1>3
<1>6. RowAt(t, End(t)) = << >>
  BY <1>4 DEF RowAt
<1> DEFINE one_line == << << >> >>
<1>7. one_line \in Seq(Lines) /\ Len(one_line) = 1 /\ one_line[1] = << >>
  BY DEF Lines
<1> HIDE DEF one_line
<1>8. \A j \in 1 .. 1 : End(t) - 1 + j = End(t) /\ j = 1
  BY <1>3
<1>9. Kept(t, one_line)
  BY <1>3, <1>6, <1>7, <1>8 DEF Kept
<1> QED BY <1>9 DEF one_line

\* pico_attach makes room below and draws the panel there.
LEMMA AttachIs ==
  ASSUME NEW t \in Roomy, Empty(t), t.bot = t.rows - 1, shown \in Seq(States), NEW v,
         v = T!Attach([t |-> t, u |-> T!Sized(t.rows)])
  PROVE  /\ AtRest(v) /\ v.u = T!Sized(t.rows) /\ v.t.rows = t.rows
         /\ PanelDrawn(v.t) /\ Kept(v.t, << << >> >>)
<1> DEFINE u == T!Sized(t.rows)
           room == [i \in 1 .. u.ui_rows |-> T!NL]
           at == T!Cup(t, u.sz - 1, 0)
           s == T!Write(at, room)
           r == T!Redraw([t |-> s, u |-> u])
           one == T!Csr(r.t, T!StreamBottomRow(u))
           placed == T!Cup(one, T!StreamBottomRow(u), 0)
<1>1. t.rows \in Nat /\ t.rows >= 5
  BY RoomyIs
<1>2. /\ u \in Pico /\ u.sz = t.rows /\ u.ui_rows = 3 /\ T!Panel = 3
      /\ T!StreamBottomRow(u) = t.rows - 4
  BY <1>1 DEF T!Sized, Pico, T!Panel, T!StreamBottomRow, T!Greatest
<1>3. v = [r EXCEPT !.t = placed]
  <2>1. [[t |-> t, u |-> u] EXCEPT !.t = s] = [t |-> s, u |-> u]
    <3> HIDE DEF s, u
    <3> QED OBVIOUS
  <2> HIDE DEF u
  <2>2. v = T!Attach([t |-> t, u |-> u])
    BY DEF u
  <2> QED BY <2>1, <2>2 DEF T!Attach
<1> HIDE DEF u
<1>4. at \in Roomy /\ at.rows = t.rows /\ at.lines = t.lines /\ at.bot = t.rows - 1
      /\ at.row = at.bot
  <2> DEFINE b == u.sz - 1
  <2>1. b \in Nat /\ b < t.rows /\ b = t.rows - 1 /\ 0 \in Nat
    BY <1>1, <1>2
  <2>2. at = T!Cup(t, b, 0)
    OBVIOUS
  <2> HIDE DEF b, at
  <2>3. /\ T!Cup(t, b, 0) \in Roomy /\ T!Cup(t, b, 0).rows = t.rows
        /\ T!Cup(t, b, 0).lines = t.lines /\ T!Cup(t, b, 0).bot = t.bot
        /\ (b < t.rows => T!Cup(t, b, 0).row = b)
    BY <2>1, CupSame
  <2> QED BY <2>1, <2>2, <2>3
<1> HIDE DEF at
<1>5. s \in Roomy /\ s.rows = t.rows /\ Empty(s)
  <2>1. room \in Seq(Pieces) /\ Len(room) = 3 /\ \A n \in 1 .. 3 : room[n] = T!NL
    <3>1. T!NL \in Pieces
      <4>1. "\n" \in Words
        BY DEF Words
      <4> QED BY <4>1, OneWord DEF T!NL
    <3>2. room = [i \in 1 .. 3 |-> T!NL]
      BY <1>2
    <3> HIDE DEF room
    <3> QED BY <3>1, <3>2
  <2> HIDE DEF room
  <2>2. PICK after :
          /\ after[0] = at
          /\ \A n \in 1 .. Len(room) : after[n] = T!Piece(after[n - 1], room[n])
          /\ s = after[Len(room)]
    BY <2>1, WriteSteps, SMTT(30)
  <2> DEFINE Good(f) == f \in Roomy /\ f.rows = t.rows /\ f.bot = t.rows - 1 /\ f.row = f.bot /\ Empty(f)
             P == {n \in 0 .. 3 : Good(after[n])}
  <2>3. Good(after[0])
    BY <1>4, <2>2 DEF Empty
  <2>4. ASSUME NEW n \in 1 .. 3, n - 1 \in P PROVE n \in P
    <3> DEFINE f == after[n - 1]
               g == T!LineFeed(f)
    <3>1. after[n] = g
      BY <2>1, <2>2 DEF T!Piece
    <3>2. Good(f)
      BY <2>4
    <3> HIDE DEF f
    <3>3. /\ g \in Roomy /\ SameBelow(g, f) /\ g.row = f.bot
          /\ g.lines = [r0 \in 0 .. f.rows - 1 |->
                         IF r0 < f.bot THEN f.lines[r0 + 1] ELSE IF r0 = f.bot THEN << >> ELSE f.lines[r0]]
      BY <3>2, LineFeedIs
    <3> HIDE DEF g
    <3>4. ASSUME NEW q \in 0 .. t.rows - 1 PROVE g.lines[q] = << >>
      <4>1. CASE q < f.bot
        <5>1. g.lines[q] = f.lines[q + 1] /\ q + 1 \in 0 .. f.rows - 1
          BY <1>1, <3>2, <3>3, <4>1
        <5> QED BY <3>2, <5>1 DEF Empty
      <4>2. CASE q = f.bot
        BY <3>2, <3>3, <4>2
      <4> QED BY <1>1, <3>2, <4>1, <4>2
    <3>5. Good(g)
      BY <3>2, <3>3, <3>4 DEF Empty, SameBelow
    <3> QED BY <3>1, <3>5
  <2>5. 0 .. 3 \subseteq P
    <3>1. 0 \in P
      BY <2>3
    <3> HIDE DEF P
    <3>2. 3 \in Nat
      OBVIOUS
    <3> QED BY <2>4, <3>1, <3>2, UpTo
  <2>6. 3 \in 0 .. 3
    OBVIOUS
  <2> QED BY <2>1, <2>2, <2>5, <2>6
<1> HIDE DEF s
<1>6. [t |-> s, u |-> u] \in Fitted
  BY <1>2, <1>5 DEF Fitted
<1>7. r \in Fitted /\ r.u = u /\ SameLog(r.t, s) /\ PanelDrawn(r.t)
  BY <1>6, RedrawIs
<1> HIDE DEF r
<1>8. r.t \in Roomy /\ r.t.rows = t.rows /\ r.t.lines[t.rows - 4] = << >>
  <2>1. t.rows - 4 \in 0 .. s.rows - T!Panel - 1 /\ t.rows - 4 \in 0 .. s.rows - 1
    BY <1>1, <1>2, <1>5
  <2> QED BY <1>5, <1>7, <2>1 DEF Empty, SameLog, Fitted
<1> DEFINE S == T!StreamBottomRow(u)
<1>9. S = t.rows - 4 /\ S \in Int /\ S > 0 /\ S <= r.t.rows - 1 /\ S \in Nat
  BY <1>1, <1>2, <1>8
<1>10. one = T!Csr(r.t, S) /\ placed = T!Cup(one, S, 0)
  OBVIOUS
<1> HIDE DEF S, one, placed
<1>11. one \in Roomy /\ one.rows = t.rows /\ one.lines = r.t.lines /\ one.bot = S
  <2>1. T!Csr(r.t, S) \in Roomy /\ T!Csr(r.t, S).rows = r.t.rows
        /\ T!Csr(r.t, S).lines = r.t.lines /\ T!Csr(r.t, S).bot = S
    BY <1>8, <1>9, CsrIs
  <2> QED BY <1>8, <1>10, <2>1
<1>12. placed \in Roomy /\ placed.rows = t.rows /\ placed.lines = r.t.lines /\ placed.bot = S
  <2>1. 0 \in Nat
    OBVIOUS
  <2>2. T!Cup(one, S, 0) \in Roomy /\ T!Cup(one, S, 0).rows = one.rows
        /\ T!Cup(one, S, 0).lines = one.lines /\ T!Cup(one, S, 0).bot = one.bot
    BY <1>9, <1>11, <2>1, CupSame, ZenonT(40)
  <2> QED BY <1>10, <1>11, <2>2
<1>13. v.t = placed /\ v.u = u /\ v \in [t : Roomy, u : Pico]
  BY <1>3, <1>7, <1>12 DEF Fitted
<1>14. AtRest(v)
  BY <1>2, <1>9, <1>12, <1>13 DEF AtRest, Fitted
<1>15. PanelDrawn(placed)
  BY <1>7, <1>8, <1>12 DEF PanelDrawn
<1>16. Kept(placed, << << >> >>)
  <2>1. placed.lines[placed.bot] = << >>
    BY <1>8, <1>9, <1>12
  <2> QED BY <1>12, <2>1, EmptyKept
<1> QED BY <1>12, <1>13, <1>14, <1>15, <1>16 DEF u

-----------------------------------------------------------------------------
(* The end of the display.                                                 *)

\* The log as ScreenHonest reads it: all rows, and the lines without an empty last one.
AllRows(t) == t.above \o [i \in 1 .. t.rows |-> t.lines[i - 1]]
Cut(lines) == IF T!Last(lines) = << >> THEN T!Front(lines) ELSE lines
Stands(t, lines) ==
  \E n \in 0 .. Len(AllRows(t)) - Len(Cut(lines)) :
     SubSeq(AllRows(t), n + 1, n + Len(Cut(lines))) = Cut(lines)

LEMMA CutIs ==
  ASSUME NEW lines \in Seq(Lines), Len(lines) >= 1
  PROVE  /\ Cut(lines) \in Seq(Lines) /\ Len(Cut(lines)) <= Len(lines)
         /\ \A j \in 1 .. Len(Cut(lines)) : Cut(lines)[j] = lines[j]
<1>1. CASE T!Last(lines) = << >>
  <2> DEFINE c == SubSeq(lines, 1, Len(lines) - 1)
  <2>1. Cut(lines) = c
    BY <1>1 DEF Cut, T!Front
  <2>2. Len(lines) \in Nat
    OBVIOUS
  <2>3. c \in Seq(Lines) /\ Len(c) = Len(lines) - 1 /\ \A j \in 1 .. Len(lines) - 1 : c[j] = lines[j]
    <3> DEFINE n == Len(lines) - 1
    <3>1. 1 \in Int /\ n \in Int /\ n >= 0 /\ n - 1 + 1 = n /\ \A i \in 1 .. n : lines[i] \in Lines
      BY <2>2
    <3> HIDE DEF n
    <3>2. /\ SubSeq(lines, 1, n) \in Seq(Lines)
          /\ Len(SubSeq(lines, 1, n)) = IF 1 <= n THEN n - 1 + 1 ELSE 0
          /\ \A i \in 1 .. n - 1 + 1 : SubSeq(lines, 1, n)[i] = lines[1 + i - 1]
      BY <3>1, SubSeqProperties
    <3>3. \A i \in 1 .. n : 1 + i - 1 = i
      BY <3>1
    <3> QED BY <3>1, <3>2, <3>3 DEF n
  <2> HIDE DEF c
  <2> QED BY <2>1, <2>2, <2>3
<1>2. CASE T!Last(lines) # << >>
  BY <1>2 DEF Cut
<1> QED BY <1>1, <1>2

LEMMA AllRowsIs ==
  ASSUME NEW t \in Roomy
  PROVE  /\ AllRows(t) \in Seq(Lines) /\ Len(AllRows(t)) = Len(t.above) + t.rows
         /\ Len(t.above) \in Nat
         /\ \A i \in 1 .. Len(t.above) + t.rows : AllRows(t)[i] = RowAt(t, i)
<1> DEFINE below == [i \in 1 .. t.rows |-> t.lines[i - 1]]
<1>1. t.rows \in Nat /\ t.lines \in Rows(t.rows) /\ t.above \in Seq(Lines)
  BY RoomyIs
<1>2. \A i \in 1 .. t.rows : t.lines[i - 1] \in Lines
  BY <1>1 DEF Rows
<1>3. below \in Seq(Lines) /\ Len(below) = t.rows
  <2>1. below = [i \in 1 .. t.rows |-> below[i]] /\ \A i \in 1 .. t.rows : below[i] \in Lines
    BY <1>2
  <2>2. DOMAIN below = 1 .. t.rows
    OBVIOUS
  <2> HIDE DEF below
  <2>3. below \in Seq(Lines)
    BY <1>1, <2>1, FunctionIsSeq
  <2> QED BY <1>1, <2>2, <2>3
<1>4. \A i \in 1 .. t.rows : below[i] = t.lines[i - 1]
  OBVIOUS
<1> HIDE DEF below
<1>5. AllRows(t) = t.above \o below
  BY DEF AllRows, below
<1>6. AllRows(t) \in Seq(Lines) /\ Len(AllRows(t)) = Len(t.above) + t.rows /\ Len(t.above) \in Nat
  <2>1. \A p, q \in Seq(Lines) : p \o q \in Seq(Lines) /\ Len(p \o q) = Len(p) + Len(q) /\ Len(p) \in Nat
    OBVIOUS
  <2> QED BY <1>1, <1>3, <1>5, <2>1
<1>7. ASSUME NEW i \in 1 .. Len(t.above) + t.rows PROVE AllRows(t)[i] = RowAt(t, i)
  <2>1. CASE i <= Len(t.above)
    <3>1. AllRows(t)[i] = t.above[i]
      BY <1>1, <1>3, <1>5, <1>6, <2>1
    <3> QED BY <2>1, <3>1 DEF RowAt
  <2>2. CASE i > Len(t.above)
    <3>1. i - Len(t.above) \in 1 .. t.rows /\ ~(i <= Len(t.above))
      BY <1>1, <1>6, <2>2
    <3>2. AllRows(t)[i] = below[i - Len(t.above)]
      BY <1>1, <1>3, <1>5, <1>6, <2>2
    <3> QED BY <1>4, <3>1, <3>2 DEF RowAt
  <2> QED BY <1>1, <1>6, <2>1, <2>2
<1> QED BY <1>6, <1>7

\* Lines that end in a row of the terminal are there for the reader.
LEMMA StandsFrom ==
  ASSUME NEW t \in Roomy, NEW lines \in Seq(Lines), NEW e \in Nat,
         Len(lines) \in 1 .. e, e <= Len(t.above) + t.rows,
         \A j \in 1 .. Len(lines) : RowAt(t, e - Len(lines) + j) = lines[j]
  PROVE  Stands(t, lines)
<1> DEFINE k == Len(lines)
           c == Cut(lines)
           A == AllRows(t)
           n == e - k
<1>1. c \in Seq(Lines) /\ Len(c) <= k /\ Len(c) \in Nat /\ \A j \in 1 .. Len(c) : c[j] = lines[j]
  BY CutIs
<1>2. /\ A \in Seq(Lines) /\ Len(A) = Len(t.above) + t.rows /\ Len(t.above) \in Nat
      /\ \A i \in 1 .. Len(A) : A[i] = RowAt(t, i)
  BY AllRowsIs
<1>3. t.rows \in Nat /\ k \in Nat
  BY RoomyIs
<1> HIDE DEF c, A
<1>4. n \in Nat /\ n + Len(c) <= Len(A) /\ n \in 0 .. Len(A) - Len(c) /\ Len(A) \in Nat
  BY <1>1, <1>2, <1>3
<1>5. ASSUME NEW j \in 1 .. Len(c) PROVE A[n + j] = c[j]
  <2>1. n + j \in 1 .. Len(A) /\ j \in 1 .. k
    BY <1>1, <1>3, <1>4
  <2> QED BY <1>1, <1>2, <2>1
<1> HIDE DEF n
<1>6. SubSeq(A, n + 1, n + Len(c)) = c
  <2> DEFINE p == SubSeq(A, n + 1, n + Len(c))
  <2>1. p \in Seq(Lines) /\ Len(p) = Len(c) /\ \A j \in 1 .. Len(c) : p[j] = A[n + j]
    BY <1>1, <1>2, <1>4
  <2> HIDE DEF p
  <2>2. p = c
    BY <1>1, <1>5, <2>1, SeqEqual
  <2> QED BY <2>2 DEF p
<1> QED BY <1>4, <1>6 DEF Stands, A, c

\* What is kept stands.
LEMMA KeptStands ==
  ASSUME NEW t \in Roomy, NEW lines, Kept(t, lines)
  PROVE  Stands(t, lines)
<1>1. t.rows \in Nat /\ t.bot \in Nat /\ t.bot < t.rows /\ Len(t.above) \in Nat
  BY RoomyIs
<1>2. End(t) \in Nat /\ End(t) <= Len(t.above) + t.rows
  BY <1>1 DEF End
<1> QED BY <1>2, StandsFrom DEF Kept

LEMMA FirstRow ==
  ASSUME NEW t \in Roomy
  PROVE  t.lines[0] \in Lines /\ t.above \in Seq(Lines)
<1>1. t.rows \in Nat /\ t.rows >= 5 /\ t.lines \in Rows(t.rows) /\ t.above \in Seq(Lines)
  BY RoomyIs
<1>2. 0 \in 0 .. t.rows - 1
  BY <1>1
<1> QED BY <1>1, <1>2 DEF Rows

\* ltf_tui_deinit gives the whole screen back and scrolls it by two rows.
LEMMA DeinitIs ==
  ASSUME NEW w, AtRest(w), PanelDrawn(w.t), NEW s,
         s = T!Write(T!Shutdown(w).t, <<T!NL, T!NL>>)
  PROVE  /\ s \in Roomy /\ s.rows = w.t.rows /\ s.bot = w.t.rows - 1
         /\ T!Shutdown(w).u = w.u
         /\ \A row \in 0 .. 2 : s.lines[w.t.rows - T!Panel - 2 + row] = <<T!Shows(row)>>
         /\ \A lines : Kept(w.t, lines) => Stands(s, lines)
<1> DEFINE b == w.u.sz - 1
           one == T!Csr(w.t, b)
           at == T!Cup(one, b, 0)
<1>1. w.t \in Roomy /\ w.t.rows \in Nat /\ w.t.rows >= 5 /\ w.u.sz = w.t.rows
      /\ w.t.bot = w.t.rows - 4 /\ T!Panel = 3 /\ Len(w.t.above) \in Nat
  BY RoomyIs DEF AtRest, Fitted, T!Panel
<1>2. b = w.t.rows - 1 /\ b \in Nat /\ b \in Int /\ b > 0
  BY <1>1
<1>3. T!Shutdown(w).t = at /\ T!Shutdown(w).u = w.u
  <2>1. w \in [t : Roomy, u : Pico]
    BY DEF AtRest, Fitted
  <2>2. T!Shutdown(w) = [w EXCEPT !.t = at]
    BY DEF T!Shutdown
  <2> HIDE DEF at
  <2> QED BY <2>1, <2>2
<1> HIDE DEF b
<1>4. one \in Roomy /\ one.rows = w.t.rows /\ one.lines = w.t.lines /\ one.above = w.t.above
      /\ one.bot = b
  <2>1. b <= w.t.rows - 1
    BY <1>1, <1>2
  <2> QED BY <1>1, <1>2, <2>1, CsrIs
<1> HIDE DEF one
<1>5. at \in Roomy /\ at.rows = w.t.rows /\ at.lines = w.t.lines /\ at.above = w.t.above
      /\ at.bot = b /\ at.row = b
  <2>1. 0 \in Nat /\ b < one.rows
    BY <1>1, <1>2, <1>4
  <2>2. T!Cup(one, b, 0) \in Roomy /\ T!Cup(one, b, 0).rows = one.rows
        /\ T!Cup(one, b, 0).lines = one.lines /\ T!Cup(one, b, 0).above = one.above
        /\ T!Cup(one, b, 0).bot = one.bot /\ (b < one.rows => T!Cup(one, b, 0).row = b)
    BY <1>2, <1>4, <2>1, CupSame
  <2> QED BY <1>4, <2>1, <2>2
<1> HIDE DEF at
<1> DEFINE f == T!LineFeed(at)
           g == T!LineFeed(f)
<1>6. s = g
  <2> DEFINE text == <<T!NL, T!NL>>
  <2>1. Len(text) = 2 /\ text[1] = T!NL /\ text[2] = T!NL /\ 1 \in 1 .. 2 /\ 2 \in 1 .. 2
        /\ 1 - 1 = 0 /\ 2 - 1 = 1
    OBVIOUS
  <2>2. s = T!Write(at, text)
    BY <1>3
  <2> HIDE DEF text
  <2>3. PICK after :
          /\ after[0] = at
          /\ \A n \in 1 .. Len(text) : after[n] = T!Piece(after[n - 1], text[n])
          /\ s = after[Len(text)]
    <3>1. Len(text) \in Nat
      BY <2>1
    <3> QED BY <2>2, <3>1, WriteSteps
  <2>4. after[1] = T!Piece(at, T!NL)
    BY <2>1, <2>3
  <2>5. after[2] = T!Piece(after[1], T!NL)
    BY <2>1, <2>3
  <2> QED BY <2>1, <2>3, <2>4, <2>5 DEF T!Piece
<1>7. f \in Roomy /\ f.rows = w.t.rows /\ f.bot = b /\ f.row = b
      /\ f.above = Append(w.t.above, w.t.lines[0])
      /\ \A r \in 0 .. b - 1 : f.lines[r] = w.t.lines[r + 1]
  <2>1. /\ f \in Roomy /\ SameBelow(f, at) /\ f.row = at.bot
        /\ f.above = Append(at.above, at.lines[0])
        /\ f.lines = [r \in 0 .. at.rows - 1 |->
                        IF r < at.bot THEN at.lines[r + 1]
                        ELSE IF r = at.bot THEN << >> ELSE at.lines[r]]
    BY <1>5, LineFeedIs
  <2> HIDE DEF f
  <2> QED BY <1>1, <1>2, <1>5, <2>1 DEF SameBelow
<1>8. Len(f.above) = Len(w.t.above) + 1
  <2>1. w.t.lines[0] \in Lines /\ w.t.above \in Seq(Lines)
    BY <1>1, FirstRow
  <2> HIDE DEF f
  <2> QED BY <1>7, <2>1
<1>9. End(f) = End(at) + 1 /\ End(at) \in Nat /\ \A i \in 1 .. End(at) : RowAt(f, i) = RowAt(at, i)
  BY <1>5, FeedKeepsRows
<1> HIDE DEF f
<1>10. g \in Roomy /\ g.rows = w.t.rows /\ g.bot = b /\ g.above = Append(f.above, f.lines[0])
       /\ \A r \in 0 .. b - 1 : g.lines[r] = f.lines[r + 1]
  <2>1. /\ g \in Roomy /\ SameBelow(g, f)
        /\ g.above = Append(f.above, f.lines[0])
        /\ g.lines = [r \in 0 .. f.rows - 1 |->
                        IF r < f.bot THEN f.lines[r + 1]
                        ELSE IF r = f.bot THEN << >> ELSE f.lines[r]]
    BY <1>7, LineFeedIs
  <2> HIDE DEF g
  <2> QED BY <1>1, <1>2, <1>7, <2>1 DEF SameBelow
<1>11. \A i \in 1 .. End(f) : RowAt(g, i) = RowAt(f, i)
  BY <1>7, FeedKeepsRows
<1>12. Len(g.above) = Len(w.t.above) + 2
  <2>1. f.lines[0] \in Lines /\ f.above \in Seq(Lines)
    BY <1>7, FirstRow
  <2> HIDE DEF g
  <2> QED BY <1>1, <1>8, <1>10, <2>1
<1> HIDE DEF g
<1>13. ASSUME NEW row \in 0 .. 2
       PROVE  g.lines[w.t.rows - T!Panel - 2 + row] = <<T!Shows(row)>>
  <2> DEFINE r == w.t.rows - 5 + row
  <2>1. r \in 0 .. b - 1 /\ r + 1 \in 0 .. b - 1 /\ r + 1 + 1 = w.t.rows - T!Panel + row
        /\ w.t.rows - T!Panel - 2 + row = r
    <3>1. w.t.rows \in Nat /\ w.t.rows >= 5 /\ T!Panel = 3 /\ b = w.t.rows - 1
      BY <1>1, <1>2
    <3>2. \A n \in Nat, q \in 0 .. 2 : n >= 5 =>
            /\ n - 5 + q \in 0 .. (n - 1) - 1 /\ n - 5 + q + 1 \in 0 .. (n - 1) - 1
            /\ n - 5 + q + 1 + 1 = n - 3 + q /\ n - 3 - 2 + q = n - 5 + q
      OBVIOUS
    <3> QED BY <3>1, <3>2
  <2> HIDE DEF r
  <2>2. g.lines[r] = w.t.lines[r + 1 + 1]
    BY <1>7, <1>10, <2>1
  <2>3. w.t.lines[w.t.rows - T!Panel + row] = <<T!Shows(row)>>
    BY DEF PanelDrawn
  <2> QED BY <2>1, <2>2, <2>3
<1>14. ASSUME NEW lines, Kept(w.t, lines) PROVE Stands(g, lines)
  <2>1. End(at) = Len(w.t.above) + w.t.rows
    BY <1>1, <1>2, <1>5, SMTT(20) DEF End
  <2>2. End(w.t) \in Nat /\ End(w.t) <= End(at)
    <3>1. End(w.t) = Len(w.t.above) + w.t.bot + 1
      BY DEF End
    <3>2. Len(w.t.above) \in Nat /\ w.t.rows \in Nat /\ w.t.rows >= 5 /\ w.t.bot = w.t.rows - 4
      BY <1>1
    <3> QED BY <2>1, <3>1, <3>2
  <2>3. ASSUME NEW i \in 1 .. End(w.t) PROVE RowAt(g, i) = RowAt(w.t, i)
    <3>1. i \in 1 .. End(at) /\ i \in 1 .. End(f)
      BY <1>9, <2>2
    <3>2. RowAt(g, i) = RowAt(at, i)
      BY <1>9, <1>11, <3>1
    <3> QED BY <1>5, <3>2 DEF RowAt
  <2>4. lines \in Seq(Lines) /\ Len(lines) \in 1 .. End(w.t)
        /\ \A j \in 1 .. Len(lines) : RowAt(w.t, End(w.t) - Len(lines) + j) = lines[j]
    BY <1>14 DEF Kept
  <2>5. ASSUME NEW j \in 1 .. Len(lines) PROVE RowAt(g, End(w.t) - Len(lines) + j) = lines[j]
    <3>1. End(w.t) - Len(lines) + j \in 1 .. End(w.t)
      BY <2>2, <2>4
    <3> QED BY <2>3, <2>4, <3>1
  <2>6. End(w.t) <= Len(g.above) + g.rows
    <3>1. g.rows = w.t.rows /\ w.t.rows \in Nat /\ Len(w.t.above) \in Nat
      BY <1>1, <1>10
    <3> HIDE DEF End
    <3> QED BY <1>12, <2>1, <2>2, <3>1
  <2> QED BY <1>10, <2>2, <2>4, <2>5, <2>6, StandsFrom
<1> QED BY <1>2, <1>3, <1>6, <1>10, <1>13, <1>14

-----------------------------------------------------------------------------
(* The calls of a callback.                                                *)

CallsOf == [name : {"print", "println", "block", "render", "progress"}, text : Seq(Pieces)]

\* A call after which the next text begins a line.
EndsLine(c) ==
  \/ c.name \in {"println", "block"}
  \/ c.name = "print" /\ c.text # << >> /\ c.text[Len(c.text)] = T!NL

IsDash(c) == c.name = "print" /\ c.text = T!Dash

\* What pico_println writes is a dash, and nothing but dashes is open then or is
\* written before,
OnOwnLine(calls, lines) ==
  \A i \in 1 .. Len(calls) :
     calls[i].name = "println" /\ calls[i].text # << >> =>
       /\ calls[i].text = T!Dash /\ Dashes(lines[Len(lines)])
       /\ \A j \in 1 .. i - 1 : calls[j].name = "render" \/ IsDash(calls[j])

\* and at the end of a callback nothing is open.
LeavesNoneOpen(calls, lines) ==
  \/ lines[Len(lines)] = << >> /\ \A i \in 1 .. Len(calls) : calls[i].name \in {"render", "progress"}
  \/ calls # << >> /\ EndsLine(calls[Len(calls)])
InTurn(calls, lines) == OnOwnLine(calls, lines) /\ LeavesNoneOpen(calls, lines)

\* The open line is ended next, without another text,
EndDue(calls) ==
  \/ calls # << >> /\ calls[1].name = "println" /\ calls[1].text = << >>
  \/ /\ Len(calls) > 1 /\ calls[1].name = "render"
     /\ calls[2].name = "println" /\ calls[2].text = << >>

\* or picotui knows where it ends.
AtEnd(u, calls, lines) == Placed(u, lines) \/ EndDue(calls)

\* A sequence put before the rest of another one.
LEMMA ThenRest ==
  ASSUME NEW S, NEW c \in Seq(S), c # << >>, NEW then \in Seq(S)
  PROVE  /\ Len(c) \in Nat \ {0} /\ Len(then) \in Nat /\ c[1] = Head(c)
         /\ then \o Tail(c) \in Seq(S) /\ Len(then \o Tail(c)) = Len(then) + Len(c) - 1
         /\ \A i \in 1 .. Len(then) : (then \o Tail(c))[i] = then[i]
         /\ \A i \in Len(then) + 1 .. Len(then) + Len(c) - 1 :
              (then \o Tail(c))[i] = c[i - Len(then) + 1] /\ i - Len(then) + 1 \in 2 .. Len(c)
<1> DEFINE r == Tail(c)
<1>1. Len(c) \in Nat \ {0} /\ Len(then) \in Nat /\ c[1] = Head(c)
  OBVIOUS
<1>2. r \in Seq(S) /\ Len(r) = Len(c) - 1 /\ \A i \in 1 .. Len(c) - 1 : r[i] = c[i + 1]
  OBVIOUS
<1> HIDE DEF r
<1>3. then \o r \in Seq(S) /\ Len(then \o r) = Len(then) + Len(r)
      /\ \A i \in 1 .. Len(then) : (then \o r)[i] = then[i]
  <2>1. \A p, q \in Seq(S) : /\ p \o q \in Seq(S) /\ Len(p \o q) = Len(p) + Len(q)
                             /\ \A i \in 1 .. Len(p) : (p \o q)[i] = p[i]
    OBVIOUS
  <2> QED BY <1>2, <2>1
<1>4. ASSUME NEW i \in Len(then) + 1 .. Len(then) + Len(c) - 1
      PROVE  (then \o r)[i] = c[i - Len(then) + 1] /\ i - Len(then) + 1 \in 2 .. Len(c)
  <2>1. i - Len(then) \in 1 .. Len(c) - 1 /\ ~(i <= Len(then)) /\ i \in 1 .. Len(then) + Len(r)
    BY <1>1, <1>2
  <2>2. (then \o r)[i] = r[i - Len(then)]
    BY <1>1, <1>2, <2>1
  <2> QED BY <1>1, <1>2, <2>1, <2>2
<1> QED BY <1>1, <1>2, <1>3, <1>4 DEF r

\* After a call that wrote, and what it brings on,
LEMMA InTurnAfterWrite ==
  ASSUME NEW c \in Seq(CallsOf), c # << >>, Head(c).name \in {"print", "println", "block"},
         NEW lines, InTurn(c, lines), NEW new,
         NEW then \in Seq(CallsOf), \A i \in 1 .. Len(then) : then[i].name = "println" => then[i].text = << >>,
         \/ /\ \A i \in 1 .. Len(then) : then[i].name = "render"
            /\ EndsLine(Head(c)) => new[Len(new)] = << >>
         \/ then # << >> /\ EndsLine(then[Len(then)]),
         IsDash(Head(c)) /\ Dashes(lines[Len(lines)]) =>
           Dashes(new[Len(new)]) /\ \A i \in 1 .. Len(then) : then[i].name = "render"
  PROVE  InTurn(then \o Tail(c), new)
<1> DEFINE next == then \o Tail(c)
           n == Len(then)
<1>1. /\ Len(c) \in Nat \ {0} /\ n \in Nat /\ c[1] = Head(c) /\ Len(next) = n + Len(c) - 1
      /\ \A i \in 1 .. n : next[i] = then[i]
      /\ \A i \in n + 1 .. n + Len(c) - 1 : next[i] = c[i - n + 1] /\ i - n + 1 \in 2 .. Len(c)
  BY ThenRest
<1> HIDE DEF next
<1>2. OnOwnLine(next, new)
  <2>1. ASSUME NEW i \in 1 .. Len(next), next[i].name = "println", next[i].text # << >>
        PROVE  /\ next[i].text = T!Dash /\ Dashes(new[Len(new)])
               /\ \A j \in 1 .. i - 1 : next[j].name = "render" \/ IsDash(next[j])
    <3>1. ~(i \in 1 .. n)
      BY <1>1, <2>1
    <3>2. i \in n + 1 .. n + Len(c) - 1
      BY <1>1, <3>1
    <3> DEFINE k == i - n + 1
    <3>3. next[i] = c[k] /\ k \in 1 .. Len(c) /\ 1 \in 1 .. k - 1 /\ k \in Nat
      BY <1>1, <3>2
    <3>k. k = i - n + 1
      OBVIOUS
    <3> HIDE DEF k
    <3>4. /\ c[k].text = T!Dash /\ Dashes(lines[Len(lines)])
          /\ \A j \in 1 .. k - 1 : c[j].name = "render" \/ IsDash(c[j])
      BY <2>1, <3>3 DEF InTurn, OnOwnLine
    <3>5. IsDash(Head(c))
      BY <1>1, <3>3, <3>4
    <3>6. Dashes(new[Len(new)]) /\ \A j \in 1 .. n : then[j].name = "render"
      BY <3>4, <3>5
    <3>7. ASSUME NEW j \in 1 .. i - 1 PROVE next[j].name = "render" \/ IsDash(next[j])
      <4>1. CASE j \in 1 .. n
        BY <1>1, <3>6, <4>1
      <4>2. CASE ~(j \in 1 .. n)
        <5>1. j \in n + 1 .. n + Len(c) - 1 /\ j - n + 1 \in 1 .. k - 1
          BY <1>1, <3>2, <3>k, <4>2
        <5> QED BY <1>1, <3>4, <5>1
      <4> QED BY <4>1, <4>2
    <3> QED BY <3>3, <3>4, <3>6, <3>7
  <2> QED BY <2>1 DEF OnOwnLine
<1>3. LeavesNoneOpen(next, new)
  <2>0. c # << >> /\ EndsLine(c[Len(c)])
    <3>1. 1 \in 1 .. Len(c) /\ c[1].name \notin {"render", "progress"}
      BY <1>1
    <3> QED BY <3>1 DEF InTurn, LeavesNoneOpen
  <2>1. CASE Len(c) > 1
    <3>1. Len(next) \in n + 1 .. n + Len(c) - 1 /\ Len(next) - n + 1 = Len(c) /\ Len(next) > 0
      BY <1>1, <2>1
    <3>2. next[Len(next)] = c[Len(c)]
      BY <1>1, <3>1
    <3>3. next # << >>
      BY <3>1
    <3> QED BY <2>0, <3>2, <3>3 DEF LeavesNoneOpen
  <2>2. CASE Len(c) = 1
    <3>1. Len(next) = n /\ EndsLine(Head(c))
      BY <1>1, <2>0, <2>2
    <3>2. CASE \A i \in 1 .. n : then[i].name = "render"
      <4>1. CASE new[Len(new)] = << >>
        <5>1. \A i \in 1 .. Len(next) : next[i].name = "render"
          BY <1>1, <3>1, <3>2
        <5>2. \A i \in 1 .. Len(next) : next[i].name \in {"render", "progress"}
          BY <5>1
        <5> QED BY <4>1, <5>2 DEF LeavesNoneOpen
      <4>2. CASE then # << >> /\ EndsLine(then[n])
        <5>1. n \in 1 .. n
          BY <1>1, <4>2
        <5> QED BY <3>2, <4>2, <5>1 DEF EndsLine
      <4> QED BY <3>1, <4>1, <4>2
    <3>3. CASE then # << >> /\ EndsLine(then[n])
      <4>1. n \in 1 .. n /\ n > 0
        BY <1>1, <3>3
      <4>2. next[Len(next)] = then[n] /\ next # << >>
        BY <1>1, <3>1, <4>1
      <4> QED BY <3>3, <4>2 DEF LeavesNoneOpen
    <3> QED BY <3>2, <3>3
  <2>3. Len(c) > 1 \/ Len(c) = 1
    <3>1. \A k \in Nat \ {0} : k > 1 \/ k = 1
      OBVIOUS
    <3>2. Len(c) \in Nat \ {0}
      BY <1>1
    <3> QED BY <3>1, <3>2
  <2> QED BY <2>1, <2>2, <2>3
<1> QED BY <1>2, <1>3 DEF InTurn, next

\* and after one that drew.
LEMMA InTurnAfterDraw ==
  ASSUME NEW c \in Seq(CallsOf), c # << >>, Head(c).name \in {"render", "progress"},
         NEW lines, InTurn(c, lines)
  PROVE  InTurn(<< >> \o Tail(c), lines)
<1> DEFINE next == << >> \o Tail(c)
<1>1. /\ Len(c) \in Nat \ {0} /\ c[1] = Head(c) /\ Len(next) = Len(c) - 1
      /\ \A i \in 1 .. Len(c) - 1 : next[i] = c[i + 1]
  <2>1. << >> \in Seq(CallsOf) /\ Len(<< >>) = 0
    OBVIOUS
  <2> DEFINE none == << >>
  <2>2. none \in Seq(CallsOf) /\ Len(none) = 0
    BY <2>1
  <2> HIDE DEF none
  <2>3. /\ Len(c) \in Nat \ {0} /\ c[1] = Head(c)
        /\ Len(none \o Tail(c)) = Len(none) + Len(c) - 1
        /\ \A i \in Len(none) + 1 .. Len(none) + Len(c) - 1 :
              (none \o Tail(c))[i] = c[i - Len(none) + 1]
    BY <2>2, ThenRest
  <2>4. next = none \o Tail(c)
    BY DEF none
  <2> HIDE DEF next
  <2>5. Len(next) = Len(c) - 1
    BY <2>2, <2>3, <2>4
  <2>6. ASSUME NEW i \in 1 .. Len(c) - 1 PROVE next[i] = c[i + 1]
    <3>1. i \in Len(none) + 1 .. Len(none) + Len(c) - 1 /\ i - Len(none) + 1 = i + 1
      BY <2>2, <2>3
    <3> QED BY <2>3, <2>4, <3>1
  <2> QED BY <2>3, <2>5, <2>6
<1> HIDE DEF next
<1>2. OnOwnLine(next, lines)
  <2>1. ASSUME NEW i \in 1 .. Len(next), next[i].name = "println", next[i].text # << >>
        PROVE  /\ next[i].text = T!Dash /\ Dashes(lines[Len(lines)])
               /\ \A j \in 1 .. i - 1 : next[j].name = "render" \/ IsDash(next[j])
    <3>1. i + 1 \in 1 .. Len(c) /\ next[i] = c[i + 1] /\ i \in 1 .. Len(c) - 1
      BY <1>1
    <3>2. /\ c[i + 1].text = T!Dash /\ Dashes(lines[Len(lines)])
          /\ \A j \in 1 .. i + 1 - 1 : c[j].name = "render" \/ IsDash(c[j])
      BY <2>1, <3>1 DEF InTurn, OnOwnLine
    <3>3. ASSUME NEW j \in 1 .. i - 1 PROVE next[j].name = "render" \/ IsDash(next[j])
      <4>1. j + 1 \in 1 .. i + 1 - 1 /\ j \in 1 .. Len(c) - 1
        BY <1>1, <3>1
      <4> QED BY <1>1, <3>2, <4>1
    <3> QED BY <3>1, <3>2, <3>3
  <2> QED BY <2>1 DEF OnOwnLine
<1>3. LeavesNoneOpen(next, lines)
  <2>1. CASE lines[Len(lines)] = << >> /\ \A i \in 1 .. Len(c) : c[i].name \in {"render", "progress"}
    <3>1. ASSUME NEW i \in 1 .. Len(next) PROVE next[i].name \in {"render", "progress"}
      <4>1. i + 1 \in 1 .. Len(c) /\ next[i] = c[i + 1]
        BY <1>1
      <4> QED BY <2>1, <4>1
    <3> QED BY <2>1, <3>1 DEF LeavesNoneOpen
  <2>2. CASE EndsLine(c[Len(c)])
    <3>1. Len(c) # 1
      BY <1>1, <2>2 DEF EndsLine
    <3>2. Len(next) \in 1 .. Len(c) - 1 /\ Len(next) + 1 = Len(c) /\ Len(next) > 0
      BY <1>1, <3>1
    <3>3. next[Len(next)] = c[Len(c)]
      BY <1>1, <3>2
    <3>4. next # << >>
      BY <3>2
    <3> QED BY <2>2, <3>3, <3>4 DEF LeavesNoneOpen
  <2> QED BY <2>1, <2>2 DEF InTurn, LeavesNoneOpen
<1> QED BY <1>2, <1>3 DEF InTurn, next

-----------------------------------------------------------------------------
(* The invariant.                                                          *)

Typed ==
  /\ term \in Roomy /\ ui \in Pico /\ ui.ui_rows = T!Panel /\ shown \in Seq(States)
  /\ ui_calls \in Seq(CallsOf) /\ logs \in Nat /\ resizes \in Nat

Window == [t |-> term, u |-> ui]

\* The panel is drawn, or will be by the next call.
DrawnOrDue == PanelDrawn(term) \/ (ui_calls # << >> /\ Head(ui_calls).name = "render")

\* Before the run the screen is empty,
Fresh ==
  /\ phase = "start" /\ ~ui.alive /\ Empty(term) /\ term.bot = term.rows - 1
  /\ ui_calls = << >> /\ written = << << >> >> /\ resizes = 0 /\ ~ui.resized

\* while it is displayed the log ends in the last row above the panel, where picotui
\* goes on,
Live ==
  /\ phase \in {"run", "result"} /\ ui.alive /\ ~term.visible
  /\ ~ui.resized => AtRest(Window) /\ DrawnOrDue
  /\ resizes = 0 =>
       /\ ~ui.resized /\ Kept(term, written) /\ AtEnd(ui, ui_calls, written)
       /\ InTurn(ui_calls, written)

\* and when the display ended it stays as it is.
Over == phase = "done" /\ ~ui.alive /\ ui_calls = << >> /\ T!ScreenHonest

DisplayInv == ~cramped => (Typed /\ Fresh) \/ (Typed /\ Live) \/ Over

\* The panel shows the record.
LEMMA ShowsKept ==
  ASSUME shown' = shown
  PROVE  \A row \in 0 .. 2 : T!Shows(row)' = T!Shows(row)
BY DEF T!Shows, T!Amount

\* What a call finds.
LEMMA SeenIs ==
  ASSUME Typed, Live
  PROVE  /\ AtRest(T!Seen) /\ ~T!Seen.u.resized /\ T!Seen.u.alive /\ ~T!Seen.t.visible
         /\ PanelDrawn(T!Seen.t) \/ (ui_calls # << >> /\ Head(ui_calls).name = "render")
         /\ resizes = 0 => Kept(T!Seen.t, written) /\ AtEnd(T!Seen.u, ui_calls, written)
<1> DEFINE w == Window
<1>1. w \in Windows /\ w.t = term /\ w.u = ui
  BY DEF Typed, Window, Windows
<1>2. T!Seen = T!HandleResize(w)
  BY DEF T!Seen, Window
<1>3. ~w.u.resized => w.u.sz = w.t.rows
  BY <1>1 DEF Live, AtRest, Fitted
<1> HIDE DEF w
<1>4. /\ T!Seen \in Fitted /\ ~T!Seen.u.resized
      /\ T!Seen.u.alive = w.u.alive
      /\ T!Seen.t.visible = w.t.visible
      /\ T!Seen.t.rows = w.t.rows
      /\ ~w.u.resized => T!Seen = w
      /\ w.u.resized => /\ T!Seen.t.bot = w.t.rows - 4
                        /\ PanelDrawn(T!Seen.t)
  BY <1>1, <1>2, <1>3, HandleResizeIs DEF Typed
<1>5. CASE ui.resized
  BY <1>1, <1>4, <1>5 DEF Live, AtRest
<1>6. CASE ~ui.resized
  BY <1>1, <1>4, <1>6 DEF Live, DrawnOrDue, w
<1> QED BY <1>5, <1>6

\* A call that leaves the panel drawn, or a render next, and the log kept.
LEMMA CallKeeps ==
  ASSUME Typed, Live, ui_calls # << >>, NEW v, Wrote(v, T!Seen), T!Become(v),
         NEW then \in Seq(CallsOf), NEW wrote, T!CallDone(then, wrote),
         PanelDrawn(v.t) \/ (then # << >> /\ Head(then).name = "render"),
         resizes = 0 =>
           /\ Kept(v.t, T!Continued(written, wrote))
           /\ AtEnd(v.u, then \o Tail(ui_calls), T!Continued(written, wrote))
           /\ InTurn(then \o Tail(ui_calls), T!Continued(written, wrote))
  PROVE  Typed' /\ Live'
<1> DEFINE next == then \o Tail(ui_calls)
           new == T!Continued(written, wrote)
<1>1. /\ term' = v.t /\ ui' = v.u /\ ui_calls' = next /\ written' = new
      /\ phase' = phase /\ shown' = shown /\ logs' = logs /\ resizes' = resizes
  BY DEF T!Become, T!CallDone
<1>2. /\ v.t \in Roomy /\ v.u \in Pico /\ AtRest(v) /\ ~v.u.resized /\ v.u.alive /\ ~v.t.visible
  BY SeenIs DEF Wrote
<1>3. next \in Seq(CallsOf) /\ (then # << >> => next # << >> /\ Head(next) = Head(then))
  <2>1. ui_calls \in Seq(CallsOf)
    BY DEF Typed
  <2>2. /\ Len(ui_calls) \in Nat \ {0} /\ Len(then) \in Nat
        /\ next \in Seq(CallsOf) /\ Len(next) = Len(then) + Len(ui_calls) - 1
        /\ \A i \in 1 .. Len(then) : next[i] = then[i]
    BY <2>1, ThenRest
  <2> HIDE DEF next
  <2>3. ASSUME then # << >> PROVE next # << >> /\ Head(next) = Head(then)
    <3>1. 1 \in 1 .. Len(then) /\ Len(next) > 0
      BY <2>2, <2>3
    <3>2. next[1] = then[1] /\ next # << >>
      BY <2>2, <3>1
    <3> QED BY <2>2, <2>3, <3>1, <3>2
  <2> QED BY <2>2, <2>3
<1> HIDE DEF next, new
<1>4. v.u.ui_rows = T!Panel /\ v = [t |-> v.t, u |-> v.u]
  BY <1>2 DEF AtRest, Fitted
<1>5. Typed'
  BY <1>1, <1>2, <1>3, <1>4 DEF Typed
<1>6. AtRest(Window)'
  BY <1>1, <1>2, <1>4 DEF Window, AtRest, Fitted
<1>7. DrawnOrDue'
  <2>1. CASE PanelDrawn(v.t)
    BY <1>1, <2>1, ShowsKept DEF PanelDrawn, DrawnOrDue
  <2>2. CASE then # << >> /\ Head(then).name = "render"
    BY <1>1, <1>3, <2>2 DEF DrawnOrDue
  <2> QED BY <2>1, <2>2
<1>8. ASSUME resizes = 0
      PROVE  /\ Kept(term', written') /\ AtEnd(ui', ui_calls', written')
             /\ InTurn(ui_calls', written')
  BY <1>1, <1>8 DEF next, new
<1>9. (resizes = 0 => /\ ~ui.resized /\ Kept(term, written) /\ AtEnd(ui, ui_calls, written)
                      /\ InTurn(ui_calls, written))'
  BY <1>1, <1>2, <1>8
     DEF Kept, RowAt, End, AtEnd, EndDue, Placed, InTurn, OnOwnLine, Dashes, IsDash,
         LeavesNoneOpen, EndsLine
<1>10. (phase \in {"run", "result"} /\ ui.alive /\ ~term.visible)'
  BY <1>1, <1>2 DEF Live
<1>11. Live'
  BY <1>6, <1>7, <1>9, <1>10 DEF Live
<1> QED BY <1>5, <1>11

\* The call that is due.
LEMMA DueCall ==
  ASSUME Typed, ui_calls # << >>
  PROVE  /\ ui_calls \in Seq(CallsOf) /\ Head(ui_calls) \in CallsOf /\ T!Text \in Seq(Pieces)
         /\ Head(ui_calls).text = T!Text
         /\ resizes = 0 /\ Live => /\ written \in Seq(Lines) /\ Len(written) >= 1
                                   /\ InTurn(ui_calls, written)
<1>1. ui_calls \in Seq(CallsOf) /\ Head(ui_calls) \in CallsOf
  BY DEF Typed
<1>2. T!Text \in Seq(Pieces) /\ Head(ui_calls).text = T!Text
  BY <1>1 DEF T!Text, CallsOf
<1>3. resizes = 0 /\ Live => /\ written \in Seq(Lines) /\ Len(written) >= 1
                             /\ InTurn(ui_calls, written)
  BY DEF Live, Kept
<1> QED BY <1>1, <1>2, <1>3

LEMMA DrawIs ==
  /\ T!Draw \in CallsOf /\ T!Draw.name = "render" /\ T!Draw.text = << >>
  /\ <<T!Draw>> \in Seq(CallsOf) /\ Len(<<T!Draw>>) = 1
  /\ \A i \in 1 .. Len(<<T!Draw>>) : <<T!Draw>>[i].name = "render"
  /\ <<T!Draw>> # << >> /\ Head(<<T!Draw>>).name = "render"
<1>1. T!Draw \in CallsOf /\ T!Draw.name = "render" /\ T!Draw.text = << >>
  BY DEF T!Draw, T!Call, CallsOf
<1> DEFINE d == T!Draw
<1> HIDE DEF d
<1>2. /\ d \in CallsOf => <<d>> \in Seq(CallsOf)
      /\ Len(<<d>>) = 1 /\ <<d>>[1] = d /\ Head(<<d>>) = d /\ <<d>> # << >>
  OBVIOUS
<1> QED BY <1>1, <1>2 DEF d

LEMMA PrintKeeps ==
  ASSUME Typed, Live, T!PicoPrint
  PROVE  Typed' /\ Live'
<1> DEFINE v == T!WriteStream(T!Seen, T!Text)
           new == T!Continued(written, T!Text)
<1>1. ui_calls # << >> /\ Head(ui_calls).name = "print"
  BY DEF T!PicoPrint, T!Calling
<1>2. /\ ui_calls \in Seq(CallsOf) /\ T!Text \in Seq(Pieces) /\ Head(ui_calls).text = T!Text
      /\ resizes = 0 => /\ written \in Seq(Lines) /\ Len(written) >= 1
                        /\ InTurn(ui_calls, written)
  BY <1>1, DueCall
<1>3. /\ AtRest(T!Seen)
      /\ resizes = 0 => Kept(T!Seen.t, written) /\ Placed(T!Seen.u, written)
  BY <1>1, <1>2, SeenIs DEF AtEnd, EndDue
<1>4. Wrote(v, T!Seen)
  BY <1>2, <1>3, WriteStreamIs
<1>5. ASSUME resizes = 0
      PROVE  Kept(v.t, new) /\ AtEnd(v.u, <<T!Draw>> \o Tail(ui_calls), new)
  BY <1>2, <1>3, <1>5, WriteStreamIs DEF AtEnd
<1>6. ASSUME resizes = 0 PROVE InTurn(<<T!Draw>> \o Tail(ui_calls), new)
  <2>1. EndsLine(Head(ui_calls)) => new[Len(new)] = << >>
    BY <1>1, <1>2, <1>6, ContinuedIs DEF EndsLine
  <2> DEFINE d == <<T!Draw>>
  <2>2. /\ d \in Seq(CallsOf) /\ \A i \in 1 .. Len(d) : d[i].name = "render"
        /\ \A i \in 1 .. Len(d) : d[i].name = "println" => d[i].text = << >>
    BY DrawIs
  <2> HIDE DEF d, new
  <2>3. Head(ui_calls).name \in {"print", "println", "block"}
    BY <1>1
  <2>d. IsDash(Head(ui_calls)) /\ Dashes(written[Len(written)]) => Dashes(new[Len(new)])
    BY <1>2, <1>6, DashesGoOn DEF IsDash, new
  <2>4. InTurn(d \o Tail(ui_calls), new)
    BY <1>1, <1>2, <1>6, <2>1, <2>2, <2>3, <2>d, InTurnAfterWrite
  <2> QED BY <2>4 DEF d
<1>7. T!Become(v) /\ T!CallDone(<<T!Draw>>, T!Text)
  BY DEF T!PicoPrint
<1> HIDE DEF v, new
<1> QED BY <1>1, <1>4, <1>5, <1>6, <1>7, DrawIs, CallKeeps DEF new

\* What a pico_println tells is the text with its end, or the end alone.
LEMMA PrintlnKeeps ==
  ASSUME Typed, Live, T!PicoPrintln
  PROVE  Typed' /\ Live'
<1> DEFINE v == T!WriteLine(T!Seen, T!Text)
           full == Append(T!Text, T!NL)
           told == IF T!IsPrefix(T!Text, T!Last(written)) THEN <<T!NL>> ELSE full
           new == T!Continued(written, told)
           then == <<T!Draw>>
<1>1. ui_calls # << >> /\ Head(ui_calls).name = "println"
  BY DEF T!PicoPrintln, T!Calling
<1>2. /\ ui_calls \in Seq(CallsOf) /\ T!Text \in Seq(Pieces) /\ Head(ui_calls).text = T!Text
      /\ resizes = 0 => /\ written \in Seq(Lines) /\ Len(written) >= 1
                        /\ InTurn(ui_calls, written)
  BY <1>1, DueCall
<1>3. AtRest(T!Seen) /\ (resizes = 0 => Kept(T!Seen.t, written))
  BY SeenIs
<1>4. Wrote(v, T!Seen)
  BY <1>2, <1>3, WriteLineIs
<1>5. ASSUME resizes = 0
      PROVE  \/ told = <<T!NL>> /\ Repeats(T!Text, written[Len(written)])
             \/ told = full /\ written[Len(written)] = << >>
  <2> DEFINE line == written[Len(written)]
  <2>1. line \in Lines /\ T!Last(written) = line
    BY <1>2, <1>5 DEF T!Last
  <2>2. CASE T!Text = << >>
    <3>1. Len(<< >>) = 0 /\ SubSeq(<< >>, 1, 0) = << >> /\ SubSeq(line, 1, 0) = << >>
          /\ Len(line) \in Nat
      <4> HIDE DEF line
      <4> QED BY <2>1 DEF Lines
    <3>2. T!IsPrefix(T!Text, line)
      <4> HIDE DEF line
      <4> QED BY <2>2, <3>1 DEF T!IsPrefix
    <3> QED BY <2>1, <2>2, <3>2 DEF Repeats
  <2>3. CASE T!Text # << >>
    <3>1. T!Text = T!Dash /\ Dashes(line)
      <4>1. 1 \in 1 .. Len(ui_calls) /\ ui_calls[1] = Head(ui_calls)
        BY <1>1, <1>2
      <4> QED BY <1>1, <1>2, <1>5, <2>3, <4>1 DEF InTurn, OnOwnLine
    <3>2. CASE Len(line) > 0
      <4>1. T!IsPrefix(T!Dash, line)
        <5> DEFINE p == <<"-">>
        <5>0. p \in Pieces /\ Dashes(line) => line[1] = p
          <6> HIDE DEF line
          <6>1. Len(line) \in Nat /\ 1 \in 1 .. Len(line)
            BY <2>1, <3>2 DEF Lines
          <6> QED BY <6>1, DashIs DEF Dashes
        <5>1. p \in Pieces /\ line \in Lines /\ Len(line) > 0 /\ line[1] = p
          BY <2>1, <3>1, <3>2, <5>0, DashIs
        <5> HIDE DEF p, line
        <5>a. /\ <<p>> \in Lines /\ Len(<<p>>) = 1 /\ <<p>>[1] = p /\ 1 <= Len(line)
              /\ Len(line) \in Nat
          BY <5>1 DEF Lines
        <5>b. ASSUME NEW l \in Lines, 1 <= Len(l), l[1] = p PROVE SubSeq(l, 1, 1) = <<p>>
          <6> DEFINE one == SubSeq(l, 1, 1)
          <6>1. one \in Lines /\ Len(one) = 1 /\ one[1] = p
            BY <5>b DEF Lines
          <6> HIDE DEF one
          <6>2. \A i \in 1 .. 1 : one[i] = <<p>>[i]
            BY <5>a, <6>1
          <6> QED BY <5>a, <6>1, <6>2, SeqEqual DEF Lines, one
        <5>2. SubSeq(line, 1, 1) = <<p>> /\ SubSeq(<<p>>, 1, 1) = <<p>> /\ Len(<<p>>) = 1
              /\ 1 <= Len(line)
          BY <5>1, <5>a, <5>b
        <5>3. T!Dash = <<p>>
          BY DEF T!Dash, p
        <5> QED BY <5>2, <5>3 DEF T!IsPrefix
      <4> QED BY <2>1, <3>1, <3>2, <4>1 DEF Repeats
    <3>3. CASE ~(Len(line) > 0)
      <4>1. line = << >> /\ Len(line) = 0
        <5> HIDE DEF line
        <5> QED BY <2>1, <3>3 DEF Lines
      <4>2. ~T!IsPrefix(T!Dash, line)
        BY <4>1, DashIs DEF T!IsPrefix
      <4> QED BY <2>1, <3>1, <4>1, <4>2
    <3> QED BY <3>2, <3>3
  <2> QED BY <2>2, <2>3
<1>6. /\ full \in Seq(Pieces) /\ full # << >> /\ full[Len(full)] = T!NL
  BY <1>2, WholeLine
<1>7. /\ <<T!NL>> \in Seq(Pieces) /\ <<T!NL>> # << >> /\ <<T!NL>>[Len(<<T!NL>>)] = T!NL
  <2> DEFINE n == T!NL
  <2>1. n \in Pieces
    <3>1. "\n" \in Words
      BY DEF Words
    <3> QED BY <3>1, OneWord DEF T!NL
  <2> HIDE DEF n
  <2>2. <<n>> \in Seq(Pieces) /\ <<n>> # << >> /\ <<n>>[Len(<<n>>)] = n
    BY <2>1
  <2> QED BY <2>2 DEF n
<1>8. T!Become(v) /\ T!CallDone(then, told)
  BY DEF T!PicoPrintln
<1>9. told \in Seq(Pieces) /\ told # << >> /\ told[Len(told)] = T!NL
  <2> HIDE DEF full
  <2> QED BY <1>6, <1>7
<1>10. ASSUME resizes = 0 PROVE Kept(v.t, new) /\ Placed(v.u, new)
  <2>1. CASE told = <<T!NL>> /\ Repeats(T!Text, written[Len(written)])
    <3> HIDE DEF told
    <3> QED BY <1>2, <1>3, <1>10, <2>1, WriteLineIs
  <2>2. CASE told = full /\ written[Len(written)] = << >>
    <3> HIDE DEF told
    <3> QED BY <1>2, <1>3, <1>10, <2>2, WriteLineIs
  <2> QED BY <1>5, <1>10, <2>1, <2>2
<1> HIDE DEF told
<1>11. ASSUME resizes = 0 PROVE new[Len(new)] = << >>
  BY <1>2, <1>9, <1>11, ContinuedIs
<1> HIDE DEF new
<1>12. /\ then \in Seq(CallsOf) /\ \A i \in 1 .. Len(then) : then[i].name = "render"
       /\ \A i \in 1 .. Len(then) : then[i].name = "println" => then[i].text = << >>
       /\ then # << >> /\ Head(then).name = "render"
  BY DrawIs
<1> HIDE DEF then
<1>13. ASSUME resizes = 0 PROVE InTurn(then \o Tail(ui_calls), new)
  <2>1. Head(ui_calls).name \in {"print", "println", "block"} /\ ~IsDash(Head(ui_calls))
    BY <1>1 DEF IsDash
  <2> QED BY <1>1, <1>2, <1>11, <1>12, <1>13, <2>1, InTurnAfterWrite
<1>14. ASSUME resizes = 0
       PROVE  /\ Kept(v.t, T!Continued(written, told))
              /\ AtEnd(v.u, then \o Tail(ui_calls), T!Continued(written, told))
              /\ InTurn(then \o Tail(ui_calls), T!Continued(written, told))
  BY <1>10, <1>13, <1>14 DEF AtEnd, new
<1> HIDE DEF v
<1> QED BY <1>1, <1>4, <1>8, <1>12, <1>14, CallKeeps

LEMMA BlockKeeps ==
  ASSUME Typed, Live, T!PicoPrintBlock
  PROVE  Typed' /\ Live'
<1> DEFINE v == T!WriteBlock(T!Seen, T!Text)
           new == T!Continued(written, T!Text)
           then == <<T!Draw, T!SayLine(<< >>)>>
<1>1. ui_calls # << >> /\ Head(ui_calls).name = "block"
  BY DEF T!PicoPrintBlock, T!Calling
<1>2. /\ ui_calls \in Seq(CallsOf) /\ T!Text \in Seq(Pieces) /\ Head(ui_calls).text = T!Text
      /\ resizes = 0 => /\ written \in Seq(Lines) /\ Len(written) >= 1
                        /\ InTurn(ui_calls, written)
  BY <1>1, DueCall
<1>3. /\ AtRest(T!Seen)
      /\ resizes = 0 => Kept(T!Seen.t, written) /\ Placed(T!Seen.u, written)
  BY <1>1, <1>2, SeenIs DEF AtEnd, EndDue
<1>4. Wrote(v, T!Seen)
  BY <1>2, <1>3, WriteBlockIs
<1>5. ASSUME resizes = 0 PROVE Kept(v.t, new)
  BY <1>2, <1>3, <1>5, WriteBlockIs
<1>6. /\ then \in Seq(CallsOf) /\ Len(then) = 2 /\ then[1] = T!Draw /\ then[2] = T!SayLine(<< >>)
      /\ then # << >> /\ Head(then) = T!Draw
      /\ T!SayLine(<< >>).name = "println" /\ T!SayLine(<< >>).text = << >>
  <2>1. T!SayLine(<< >>) \in CallsOf /\ T!SayLine(<< >>).name = "println"
        /\ T!SayLine(<< >>).text = << >>
    BY DEF T!SayLine, T!Call, CallsOf
  <2> DEFINE a == T!Draw
             b == T!SayLine(<< >>)
  <2> HIDE DEF a, b
  <2>2. /\ a \in CallsOf /\ b \in CallsOf => <<a, b>> \in Seq(CallsOf)
        /\ Len(<<a, b>>) = 2 /\ <<a, b>>[1] = a /\ <<a, b>>[2] = b /\ Head(<<a, b>>) = a
        /\ <<a, b>> # << >>
    OBVIOUS
  <2> QED BY <2>1, <2>2, DrawIs DEF a, b
<1> HIDE DEF then
<1>7. ASSUME resizes = 0 PROVE InTurn(then \o Tail(ui_calls), new)
  <2>1. \A i \in 1 .. Len(then) : then[i].name = "println" => then[i].text = << >>
    <3>1. \A i \in 1 .. Len(then) : i = 1 \/ i = 2
      BY <1>6
    <3> QED BY <1>6, <3>1, DrawIs
  <2>2. EndsLine(then[Len(then)])
    BY <1>6 DEF EndsLine
  <2> HIDE DEF new
  <2>3. Head(ui_calls).name \in {"print", "println", "block"}
    BY <1>1
  <2>4. ~IsDash(Head(ui_calls))
    BY <1>1 DEF IsDash
  <2> QED BY <1>1, <1>2, <1>6, <1>7, <2>1, <2>2, <2>3, <2>4, InTurnAfterWrite
<1>e. EndDue(then \o Tail(ui_calls))
  <2> DEFINE next == then \o Tail(ui_calls)
  <2>1. /\ Len(ui_calls) \in Nat \ {0} /\ Len(next) = 2 + Len(ui_calls) - 1
        /\ \A i \in 1 .. 2 : next[i] = then[i]
    <3>0. ui_calls \in Seq(CallsOf) /\ ui_calls # << >> /\ then \in Seq(CallsOf)
      BY <1>1, <1>2, <1>6
    <3>1. /\ Len(ui_calls) \in Nat \ {0} /\ Len(next) = Len(then) + Len(ui_calls) - 1
          /\ \A i \in 1 .. Len(then) : next[i] = then[i]
      BY <3>0, ThenRest
    <3> HIDE DEF next
    <3> QED BY <1>6, <3>1
  <2> HIDE DEF next
  <2>2. Len(next) > 1 /\ next[1] = T!Draw /\ next[2] = T!SayLine(<< >>)
    <3>1. 1 \in 1 .. 2 /\ 2 \in 1 .. 2
      OBVIOUS
    <3> QED BY <1>6, <2>1, <3>1
  <2> QED BY <1>6, <2>2, DrawIs DEF EndDue, next
<1>8. T!Become(v) /\ T!CallDone(then, T!Text)
  BY DEF T!PicoPrintBlock, then
<1> HIDE DEF v, new
<1> QED BY <1>1, <1>4, <1>5, <1>6, <1>7, <1>8, <1>e, DrawIs, CallKeeps DEF new, AtEnd

\* A drawn panel leaves the log alone.
LEMMA KeptBeside ==
  ASSUME NEW s, NEW t \in Roomy, SameLog(s, t), t.bot = t.rows - 4, NEW lines, Kept(t, lines)
  PROVE  Kept(s, lines)
<1>1. t.rows \in Nat /\ t.rows >= 5 /\ Len(t.above) \in Nat /\ t.bot \in Nat
  BY RoomyIs
<1>2. End(s) = End(t) /\ End(t) = Len(t.above) + t.bot + 1 /\ End(t) \in Nat
  BY <1>1 DEF End, SameLog
<1>3. ASSUME NEW i \in 1 .. End(t) PROVE RowAt(s, i) = RowAt(t, i)
  <2>1. CASE i <= Len(t.above)
    BY <2>1 DEF RowAt, SameLog
  <2>2. CASE i > Len(t.above)
    <3>0. \A n, a, k \in Nat : n >= 5 /\ k > a /\ k <= a + (n - 4) + 1 =>
            k - a - 1 \in 0 .. n - 3 - 1 /\ ~(k <= a)
      OBVIOUS
    <3>1. i - Len(t.above) - 1 \in 0 .. t.rows - T!Panel - 1 /\ ~(i <= Len(t.above))
      <4>1. T!Panel = 3 /\ i \in Nat /\ i <= Len(t.above) + (t.rows - 4) + 1
        BY <1>1, <1>2 DEF T!Panel
      <4> QED BY <1>1, <2>2, <3>0, <4>1
    <3> QED BY <3>1 DEF RowAt, SameLog
  <2> QED BY <1>1, <2>1, <2>2
<1>4. Len(lines) \in 1 .. End(t) /\ lines \in Seq(Lines)
  BY DEF Kept
<1>5. ASSUME NEW j \in 1 .. Len(lines) PROVE RowAt(s, End(s) - Len(lines) + j) = lines[j]
  <2>1. End(t) - Len(lines) + j \in 1 .. End(t)
    BY <1>2, <1>4
  <2> QED BY <1>2, <1>3, <2>1 DEF Kept
<1> QED BY <1>2, <1>4, <1>5 DEF Kept

LEMMA EndDueAfterDraw ==
  ASSUME ui_calls \in Seq(CallsOf), ui_calls # << >>,
         Head(ui_calls).name \in {"render", "progress"}, EndDue(ui_calls)
  PROVE  EndDue(<< >> \o Tail(ui_calls))
<1> DEFINE r == Tail(ui_calls)
<1>1. ui_calls[1] = Head(ui_calls)
  OBVIOUS
<1>2. Len(ui_calls) > 1 /\ ui_calls[2].name = "println" /\ ui_calls[2].text = << >>
  BY <1>1 DEF EndDue
<1>0. \A q \in Seq(CallsOf) : << >> \o q = q
  OBVIOUS
<1>3. r \in Seq(CallsOf) /\ r # << >> /\ r[1] = ui_calls[2]
  <2>1. /\ r \in Seq(CallsOf) /\ Len(r) = Len(ui_calls) - 1
        /\ \A i \in 1 .. Len(ui_calls) - 1 : r[i] = ui_calls[i + 1]
    OBVIOUS
  <2> HIDE DEF r
  <2>2. 1 \in 1 .. Len(ui_calls) - 1 /\ 1 + 1 = 2 /\ Len(r) > 0
    BY <1>2, <2>1
  <2>3. r # << >>
    BY <2>1, <2>2
  <2> QED BY <2>1, <2>2, <2>3
<1>4. << >> \o r = r
  BY <1>0, <1>3
<1> HIDE DEF r
<1> QED BY <1>2, <1>3, <1>4 DEF EndDue, r

\* A call that only draws.
LEMMA DrawingKeeps ==
  ASSUME Typed, Live, ui_calls # << >>, Head(ui_calls).name \in {"render", "progress"},
         NEW v \in Fitted, v.u = T!Seen.u, SameLog(v.t, T!Seen.t), PanelDrawn(v.t),
         T!Become(v), T!CallDone(<< >>, << >>)
  PROVE  Typed' /\ Live'
<1> DEFINE new == T!Continued(written, << >>)
           none == << >>
<1>1. /\ AtRest(T!Seen) /\ T!Seen.t \in Roomy /\ T!Seen.t.bot = T!Seen.t.rows - 4
      /\ resizes = 0 => Kept(T!Seen.t, written) /\ AtEnd(T!Seen.u, ui_calls, written)
  BY SeenIs DEF AtRest, Fitted
<1>2. Wrote(v, T!Seen)
  BY <1>1 DEF Wrote, AtRest, Fitted, SameLog
<1>3. /\ ui_calls \in Seq(CallsOf)
      /\ resizes = 0 => /\ written \in Seq(Lines) /\ Len(written) >= 1
                        /\ InTurn(ui_calls, written)
  BY DueCall
<1>4. none \in Seq(CallsOf) /\ none \in Seq(Pieces)
  OBVIOUS
<1>5. ASSUME resizes = 0 PROVE new = written
  BY <1>3, <1>4, <1>5, ContinuedIs
<1>6. ASSUME resizes = 0 PROVE Kept(v.t, written)
  BY <1>1, <1>6, KeptBeside
<1>7. ASSUME resizes = 0 PROVE InTurn(none \o Tail(ui_calls), written)
  BY <1>3, <1>7, InTurnAfterDraw
<1>8. T!CallDone(none, none)
  OBVIOUS
<1>e. EndDue(ui_calls) => EndDue(none \o Tail(ui_calls))
  BY <1>3, EndDueAfterDraw
<1> HIDE DEF none
<1>9. ASSUME resizes = 0
      PROVE  /\ Kept(v.t, T!Continued(written, none))
             /\ AtEnd(v.u, none \o Tail(ui_calls), T!Continued(written, none))
             /\ InTurn(none \o Tail(ui_calls), T!Continued(written, none))
  <2>1. T!Continued(written, none) = written
    BY <1>5, <1>9 DEF none
  <2> QED BY <1>1, <1>6, <1>7, <1>9, <1>e, <2>1 DEF AtEnd
<1> QED BY <1>2, <1>4, <1>8, <1>9, CallKeeps

LEMMA DrawPanelKeeps ==
  ASSUME Typed, Live, T!DrawPanel
  PROVE  Typed' /\ Live'
<1> DEFINE v == T!Render(T!Seen)
<1>1. ui_calls # << >> /\ Head(ui_calls).name = "render" /\ T!Become(v) /\ T!CallDone(<< >>, << >>)
  BY DEF T!DrawPanel, T!Calling
<1>2. T!Seen \in Fitted /\ shown \in Seq(States)
  BY SeenIs DEF AtRest, Typed
<1>3. v \in Fitted /\ v.u = T!Seen.u /\ SameLog(v.t, T!Seen.t) /\ PanelDrawn(v.t)
  BY <1>2, RenderIs
<1> HIDE DEF v
<1> QED BY <1>1, <1>3, DrawingKeeps

LEMMA DrawProgressKeeps ==
  ASSUME Typed, Live, T!DrawProgress
  PROVE  Typed' /\ Live'
<1> DEFINE v == T!RenderProgress(T!Seen)
<1>1. ui_calls # << >> /\ Head(ui_calls).name = "progress" /\ T!Become(v) /\ T!CallDone(<< >>, << >>)
  BY DEF T!DrawProgress, T!Calling
<1>2. T!Seen \in Fitted /\ shown \in Seq(States) /\ PanelDrawn(T!Seen.t)
  BY <1>1, SeenIs DEF AtRest, Typed
<1>3. T!Seen.t.lines[T!Seen.t.rows - T!Panel + 0] = <<T!Shows(0)>>
  <2>1. 0 \in 0 .. 2
    OBVIOUS
  <2> QED BY <1>2, <2>1 DEF PanelDrawn
<1>4. v \in Fitted /\ v.u = T!Seen.u /\ SameLog(v.t, T!Seen.t) /\ PanelDrawn(v.t)
  BY <1>2, <1>3, RenderProgressIs
<1> HIDE DEF v
<1> QED BY <1>1, <1>4, DrawingKeeps

-----------------------------------------------------------------------------
(* The callbacks.                                                          *)

\* The calls of a callback that begins where no line is open.
Proper(todo) ==
  /\ todo \in Seq(CallsOf) /\ todo # << >>
  /\ \A i \in 1 .. Len(todo) :
       todo[i].name = "println" =>
         /\ todo[i].text = T!Dash
         /\ \A j \in 1 .. i - 1 : todo[j].name = "render" \/ IsDash(todo[j])
  /\ \/ \A i \in 1 .. Len(todo) : todo[i].name \in {"render", "progress"}
     \/ EndsLine(todo[Len(todo)])

LEMMA CallbackKeeps ==
  ASSUME Typed, Live, ui_calls = << >>, NEW todo, Proper(todo), ui_calls' = todo,
         UNCHANGED <<term, ui, resizes, written>>, phase' \in {"run", "result"},
         shown' \in Seq(States), logs' \in Nat, shown' = shown \/ Head(todo).name = "render"
  PROVE  Typed' /\ Live'
<1>1. term' = term /\ ui' = ui /\ resizes' = resizes /\ written' = written
  OBVIOUS
<1>2. todo \in Seq(CallsOf) /\ todo # << >> /\ todo[1] = Head(todo)
  BY DEF Proper
<1>3. Typed'
  BY <1>1, <1>2 DEF Typed
<1>4. AtRest(Window) => AtRest(Window)'
  BY <1>1 DEF Window, AtRest, Fitted
<1>5. ASSUME ~ui.resized PROVE DrawnOrDue'
  <2>1. CASE Head(todo).name = "render"
    BY <1>2, <2>1 DEF DrawnOrDue
  <2>2. CASE shown' = shown
    <3>1. PanelDrawn(term)
      BY <1>5 DEF Live, DrawnOrDue
    <3> QED BY <1>1, <2>2, <3>1, ShowsKept DEF PanelDrawn, DrawnOrDue
  <2> QED BY <2>1, <2>2
<1>6. ASSUME resizes = 0 PROVE InTurn(todo, written)
  <2>1. written[Len(written)] = << >>
    BY <1>6 DEF Live, InTurn, LeavesNoneOpen
  <2>2. Dashes(written[Len(written)])
    <3>1. Dashes(<< >>)
      BY DEF Dashes
    <3> QED BY <2>1, <3>1
  <2>3. OnOwnLine(todo, written)
    BY <2>2 DEF OnOwnLine, Proper
  <2>4. LeavesNoneOpen(todo, written)
    BY <1>2, <2>1 DEF LeavesNoneOpen, Proper
  <2> QED BY <2>3, <2>4 DEF InTurn
<1>7. (resizes = 0 => /\ ~ui.resized /\ Kept(term, written) /\ AtEnd(ui, ui_calls, written)
                      /\ InTurn(ui_calls, written))'
  <2>1. resizes = 0 => ~ui.resized /\ Kept(term, written) /\ Placed(ui, written) /\ InTurn(todo, written)
    <3>1. ~EndDue(ui_calls)
      <4>1. ui_calls = << >> /\ ~(Len(<< >>) > 1)
        OBVIOUS
      <4> QED BY <4>1 DEF EndDue
    <3> QED BY <1>6, <3>1 DEF Live, AtEnd
  <2>2. (resizes = 0 => /\ ~ui.resized /\ Kept(term, written) /\ Placed(ui, written)
                        /\ InTurn(ui_calls, written))'
    BY <1>1, <2>1 DEF Kept, RowAt, End, Placed, InTurn, OnOwnLine, Dashes, IsDash,
                      LeavesNoneOpen, EndsLine
  <2> QED BY <2>2 DEF AtEnd
<1>8. Live'
  BY <1>1, <1>4, <1>5, <1>7 DEF Live
<1> QED BY <1>3, <1>8

\* The texts of the callbacks.
LEMMA ShortPieces ==
  ASSUME NEW a \in Words, NEW m \in Nat
  PROVE  <<a>> \in Pieces /\ <<a, m>> \in Pieces
<1>1. a \in Words \cup Nat /\ m \in Words \cup Nat
  OBVIOUS
<1> HIDE DEF Words
<1> QED BY <1>1 DEF Pieces

LEMMA ShortTexts ==
  ASSUME NEW p \in Pieces, NEW q \in Pieces
  PROVE  <<p>> \in Seq(Pieces) /\ <<p, T!NL>> \in Seq(Pieces) /\ <<p, T!NL, q>> \in Seq(Pieces)
<1>1. T!NL \in Pieces
  <2>1. "\n" \in Words
    BY DEF Words
  <2> QED BY <2>1, OneWord DEF T!NL
<1> DEFINE n == T!NL
<1>2. n \in Pieces
  BY <1>1
<1> HIDE DEF n
<1>3. <<p>> \in Seq(Pieces) /\ <<p, n>> \in Seq(Pieces) /\ <<p, n, q>> \in Seq(Pieces)
  BY <1>2
<1> QED BY <1>3 DEF n

LEMMA SaidIs ==
  ASSUME NEW text \in Seq(Pieces)
  PROVE  /\ T!Say(text) \in CallsOf /\ T!Say(text).name = "print"
         /\ T!SayLine(text) \in CallsOf /\ T!SayLine(text).name = "println"
         /\ T!SayBlock(text) \in CallsOf /\ T!SayBlock(text).name = "block"
         /\ EndsLine(T!SayLine(text)) /\ EndsLine(T!SayBlock(text))
BY DEF T!Say, T!SayLine, T!SayBlock, T!Call, CallsOf, EndsLine

LEMMA HeadingIs ==
  ASSUME NEW p \in Pieces
  PROVE  /\ T!Say(<<p, T!NL>>) \in CallsOf /\ T!Say(<<p, T!NL>>).name = "print"
         /\ EndsLine(T!Say(<<p, T!NL>>))
<1> DEFINE text == <<p, T!NL>>
<1>1. text \in Seq(Pieces) /\ Len(text) = 2 /\ text[2] = T!NL /\ text # << >>
  BY ShortTexts
<1> HIDE DEF text
<1>2. T!Say(text) \in CallsOf /\ T!Say(text).name = "print" /\ T!Say(text).text = text
  BY <1>1, SaidIs DEF T!Say, T!Call
<1>3. EndsLine(T!Say(text))
  BY <1>1, <1>2 DEF EndsLine
<1> QED BY <1>2, <1>3 DEF text

\* A rule is printed, but for its last dash.
LEMMA RuleIs ==
  ASSUME T!TuiConstantsOK
  PROVE  /\ T!Rule \in Seq(CallsOf) /\ Len(T!Rule) = Columns /\ Columns \in Nat \ {0}
         /\ \A i \in 1 .. Columns : IF i < Columns THEN IsDash(T!Rule[i])
                                  ELSE T!Rule[i].name = "println" /\ T!Rule[i].text = T!Dash
<1>1. Columns \in Nat \ {0}
  BY DEF T!TuiConstantsOK
<1>2. /\ T!Say(T!Dash) \in CallsOf /\ T!SayLine(T!Dash) \in CallsOf
      /\ IsDash(T!Say(T!Dash))
      /\ T!SayLine(T!Dash).name = "println" /\ T!SayLine(T!Dash).text = T!Dash
  BY DashIs, SaidIs DEF T!Say, T!SayLine, T!Call, IsDash
<1> DEFINE a == T!Say(T!Dash)
           b == T!SayLine(T!Dash)
           rule == [i \in 1 .. Columns |-> IF i < Columns THEN a ELSE b]
<1>3. T!Rule = rule
  BY DEF T!Rule
<1> HIDE DEF a, b
<1>4. \A i \in 1 .. Columns : rule[i] \in CallsOf
  BY <1>2 DEF a, b
<1>5. \A i \in 1 .. Columns : rule[i] = IF i < Columns THEN a ELSE b
  OBVIOUS
<1>6. rule = [i \in 1 .. Columns |-> rule[i]]
  OBVIOUS
<1> HIDE DEF rule
<1>7. rule \in Seq(CallsOf) /\ Len(rule) = Columns
  BY <1>1, <1>4, <1>6, FunctionIsSeq
<1> QED BY <1>1, <1>2, <1>3, <1>5, <1>7 DEF a, b

LEMMA LTFIs ==
  T!LTF \in CallsOf /\ T!LTF.name = "print"
<1>1. "[LTF]" \in Words
  BY DEF Words
<1>2. << <<"[LTF]">> >> \in Seq(Pieces)
  BY <1>1, OneWord, ShortTexts
<1> QED BY <1>2, SaidIs DEF T!LTF

\* Calls without an own line, of which the last one ends its line.
LEMMA PlainIsProper ==
  ASSUME NEW todo \in Seq(CallsOf), todo # << >>,
         \A i \in 1 .. Len(todo) : todo[i].name # "println", EndsLine(todo[Len(todo)])
  PROVE  Proper(todo)
BY DEF Proper

\* A drawing, a rule, and then calls of which the last one ends its line.
LEMMA RuleIsProper ==
  ASSUME T!TuiConstantsOK, NEW then \in Seq(CallsOf),
         \A i \in 1 .. Len(then) : then[i].name # "println",
         then # << >> => EndsLine(then[Len(then)])
  PROVE  /\ Proper(<<T!Draw>> \o T!Rule \o then)
         /\ Head(<<T!Draw>> \o T!Rule \o then).name = "render"
<1> DEFINE a == <<T!Draw>>
           b == T!Rule
           n == Columns
           todo == a \o b \o then
<1>1. /\ a \in Seq(CallsOf) /\ Len(a) = 1 /\ a[1].name = "render"
      /\ b \in Seq(CallsOf) /\ Len(b) = n /\ n \in Nat \ {0}
      /\ \A i \in 1 .. n : IF i < n THEN IsDash(b[i]) ELSE b[i].name = "println" /\ b[i].text = T!Dash
      /\ Len(then) \in Nat
  BY DrawIs, RuleIs
<1> HIDE DEF a, b, n
<1>2. /\ todo \in Seq(CallsOf) /\ Len(todo) = 1 + n + Len(then)
      /\ todo[1] = a[1]
      /\ \A i \in 2 .. n + 1 : todo[i] = b[i - 1]
      /\ \A i \in n + 2 .. 1 + n + Len(then) : todo[i] = then[i - 1 - n]
  <2>1. ASSUME NEW p \in Seq(CallsOf), NEW q \in Seq(CallsOf)
        PROVE  /\ p \o q \in Seq(CallsOf) /\ Len(p \o q) = Len(p) + Len(q)
               /\ \A i \in 1 .. Len(p) : (p \o q)[i] = p[i]
               /\ \A i \in Len(p) + 1 .. Len(p) + Len(q) : (p \o q)[i] = q[i - Len(p)]
    OBVIOUS
  <2> DEFINE ab == a \o b
  <2>2. /\ ab \in Seq(CallsOf) /\ Len(ab) = 1 + n /\ ab[1] = a[1]
        /\ \A i \in 2 .. n + 1 : ab[i] = b[i - 1]
    <3>1. 1 \in 1 .. Len(a) /\ \A i \in 2 .. n + 1 : i \in Len(a) + 1 .. Len(a) + Len(b)
      BY <1>1
    <3>2. /\ ab \in Seq(CallsOf) /\ Len(ab) = Len(a) + Len(b)
          /\ \A i \in 1 .. Len(a) : ab[i] = a[i]
          /\ \A i \in Len(a) + 1 .. Len(a) + Len(b) : ab[i] = b[i - Len(a)]
      BY <1>1, <2>1
    <3> HIDE DEF ab
    <3> QED BY <1>1, <3>1, <3>2
  <2>3. todo = ab \o then
    OBVIOUS
  <2> HIDE DEF ab, todo
  <2>4. /\ todo \in Seq(CallsOf) /\ Len(todo) = Len(ab) + Len(then)
        /\ \A i \in 1 .. Len(ab) : todo[i] = ab[i]
        /\ \A i \in Len(ab) + 1 .. Len(ab) + Len(then) : todo[i] = then[i - Len(ab)]
    BY <2>1, <2>2, <2>3
  <2>5. ASSUME NEW i \in 2 .. n + 1 PROVE todo[i] = b[i - 1]
    <3>1. i \in 1 .. Len(ab)
      BY <1>1, <2>2
    <3> QED BY <2>2, <2>4, <3>1
  <2>6. ASSUME NEW i \in n + 2 .. 1 + n + Len(then) PROVE todo[i] = then[i - 1 - n]
    <3>1. i \in Len(ab) + 1 .. Len(ab) + Len(then) /\ i - Len(ab) = i - 1 - n
      BY <1>1, <2>2
    <3> QED BY <2>4, <3>1
  <2>7. 1 \in 1 .. Len(ab)
    BY <1>1, <2>2
  <2> QED BY <2>2, <2>4, <2>5, <2>6, <2>7
<1> HIDE DEF todo
<1>3. \A i \in 1 .. n : todo[i].name = "render" \/ IsDash(todo[i])
  BY <1>1, <1>2, SMTT(30)
<1>4. todo[n + 1].name = "println" /\ todo[n + 1].text = T!Dash
  <2>1. n + 1 \in 2 .. n + 1 /\ n + 1 - 1 = n /\ n \in 1 .. n /\ ~(n < n)
    BY <1>1
  <2> QED BY <1>1, <1>2, <2>1
<1>5. ASSUME NEW i \in 1 .. Len(todo), todo[i].name = "println" PROVE i = n + 1
  <2>1. ~(i \in 1 .. n)
    BY <1>3, <1>5 DEF IsDash
  <2>2. ~(i \in n + 2 .. 1 + n + Len(then))
    <3>1. \A k \in n + 2 .. 1 + n + Len(then) : k - 1 - n \in 1 .. Len(then)
      BY <1>1
    <3> QED BY <1>2, <1>5, <3>1
  <2> QED BY <1>1, <1>2, <2>1, <2>2
<1>6. ASSUME NEW i \in 1 .. Len(todo), todo[i].name = "println"
      PROVE  /\ todo[i].text = T!Dash
             /\ \A j \in 1 .. i - 1 : todo[j].name = "render" \/ IsDash(todo[j])
  <2>1. i = n + 1 /\ 1 .. i - 1 = 1 .. n
    BY <1>1, <1>5, <1>6
  <2> QED BY <1>3, <1>4, <2>1
<1>7. EndsLine(todo[Len(todo)])
  <2>1. CASE then = << >>
    <3>1. Len(todo) = n + 1
      BY <1>1, <1>2, <2>1
    <3> QED BY <1>4, <3>1 DEF EndsLine
  <2>2. CASE then # << >>
    <3>1. Len(todo) \in n + 2 .. 1 + n + Len(then) /\ Len(todo) - 1 - n = Len(then)
      BY <1>1, <1>2, <2>2
    <3>2. todo[Len(todo)] = then[Len(then)]
      BY <1>2, <3>1
    <3> QED BY <2>2, <3>2
  <2> QED BY <2>1, <2>2
<1>8. todo # << >> /\ Head(todo) = todo[1]
  BY <1>1, <1>2
<1>9. Proper(todo) /\ Head(todo).name = "render"
  BY <1>1, <1>2, <1>6, <1>7, <1>8 DEF Proper
<1> QED BY <1>9 DEF todo, a, b

LEMMA RuleAlone ==
  ASSUME T!TuiConstantsOK
  PROVE  Proper(<<T!Draw>> \o T!Rule) /\ Head(<<T!Draw>> \o T!Rule).name = "render"
<1> DEFINE none == << >>
           todo == <<T!Draw>> \o T!Rule
<1>1. none \in Seq(CallsOf) /\ Len(none) = 0
  OBVIOUS
<1>2. todo \o none = todo
  <2>1. T!Rule \in Seq(CallsOf) /\ <<T!Draw>> \in Seq(CallsOf)
    BY RuleIs, DrawIs
  <2>2. todo \in Seq(CallsOf)
    BY <2>1
  <2> HIDE DEF todo
  <2> QED BY <2>2
<1>3. none = << >>
  OBVIOUS
<1> HIDE DEF none
<1>4. Proper(todo \o none) /\ Head(todo \o none).name = "render"
  <2>1. \A i \in 1 .. Len(none) : none[i].name # "println"
    BY <1>1
  <2>2. none # << >> => EndsLine(none[Len(none)])
    BY <1>3
  <2> QED BY <1>1, <2>1, <2>2, RuleIsProper
<1> HIDE DEF todo
<1> QED BY <1>2, <1>4 DEF todo

LEMMA TestStartedKeeps ==
  ASSUME T!TuiConstantsOK, Typed, Live, T!TestStarted
  PROVE  Typed' /\ Live'
<1> DEFINE c == T!LTF
           d == T!Say(<< <<"test", Len(shown')>>, T!NL>>)
           then == <<c, d>>
           todo == <<T!Draw>> \o T!Rule \o then
<1>1. ui_calls = << >> /\ ui_calls' = todo /\ shown' = Append(shown, "running") /\ logs' = logs
      /\ UNCHANGED <<term, ui, resizes, written>> /\ phase' = phase
  BY DEF T!TestStarted, T!Idle, T!Callback
<1>2. shown' \in Seq(States) /\ Len(shown') \in Nat
  <2>1. "running" \in States /\ shown \in Seq(States)
    BY DEF States, Typed
  <2> QED BY <1>1, <2>1
<1>3. d \in CallsOf /\ d.name = "print" /\ EndsLine(d)
  <2>1. "test" \in Words
    BY DEF Words
  <2>2. <<"test", Len(shown')>> \in Pieces
    BY <1>2, <2>1, ShortPieces
  <2> QED BY <2>2, HeadingIs
<1>4. c \in CallsOf /\ c.name = "print"
  BY LTFIs
<1> HIDE DEF c, d
<1>5. /\ then \in Seq(CallsOf) /\ then # << >> /\ Len(then) = 2 /\ then[1] = c /\ then[2] = d
  BY <1>3, <1>4
<1> HIDE DEF then
<1>6. \A i \in 1 .. Len(then) : i = 1 \/ i = 2
  BY <1>5
<1>7. (\A i \in 1 .. Len(then) : then[i].name # "println") /\ EndsLine(then[Len(then)])
  BY <1>3, <1>4, <1>5, <1>6
<1>8. Proper(todo) /\ Head(todo).name = "render"
  BY <1>5, <1>7, RuleIsProper
<1> HIDE DEF todo
<1>9. phase' \in {"run", "result"} /\ logs' \in Nat
  BY <1>1 DEF Live, Typed
<1> QED BY <1>1, <1>2, <1>8, <1>9, CallbackKeeps

\* The reasons of a test that failed.
LEMMA ListedIs ==
  ASSUME NEW n \in 1 .. 2
  PROVE  /\ T!Listed(n) \in Seq(CallsOf) /\ T!Listed(n) # << >>
         /\ \A i \in 1 .. Len(T!Listed(n)) : T!Listed(n)[i].name # "println"
         /\ EndsLine(T!Listed(n)[Len(T!Listed(n))])
<1>1. \A i \in Nat : T!Reason(i) \in CallsOf /\ T!Reason(i).name = "block" /\ EndsLine(T!Reason(i))
  <2> SUFFICES ASSUME NEW i \in Nat
               PROVE  T!Reason(i) \in CallsOf /\ T!Reason(i).name = "block" /\ EndsLine(T!Reason(i))
    OBVIOUS
  <2>1. "reason" \in Words
    BY DEF Words
  <2>2. << <<"reason", i>> >> \in Seq(Pieces)
    BY <2>1, ShortPieces, ShortTexts
  <2> QED BY <2>2, SaidIs DEF T!Reason
<1>2. CASE n = 1
  <2> DEFINE r == T!Reason(1)
  <2>1. r \in CallsOf /\ r.name = "block" /\ EndsLine(r)
    BY <1>1
  <2>2. T!Listed(n) = <<r>>
    BY <1>2 DEF T!Listed
  <2> HIDE DEF r
  <2> QED BY <2>1, <2>2
<1>3. CASE n = 2
  <2> DEFINE number(k) == T!Say(<< <<"number", (k + 1) \div 2>> >>)
             all == [k \in 1 .. 4 |-> IF k % 2 = 1 THEN number(k) ELSE T!Reason(k \div 2)]
  <2>1. T!Listed(n) = all
    BY <1>3 DEF T!Listed
  <2>2. \A k \in 1 .. 4 : (k + 1) \div 2 \in Nat /\ k \div 2 \in Nat
    OBVIOUS
  <2>3. ASSUME NEW k \in 1 .. 4 PROVE number(k) \in CallsOf /\ number(k).name = "print"
    <3>1. "number" \in Words
      BY DEF Words
    <3>2. << <<"number", (k + 1) \div 2>> >> \in Seq(Pieces)
      BY <2>2, <3>1, ShortPieces, ShortTexts
    <3> QED BY <3>2, SaidIs
  <2> HIDE DEF number
  <2>4. \A k \in 1 .. 4 : all[k] \in CallsOf /\ all[k].name # "println"
    BY <1>1, <2>2, <2>3
  <2>5. all[4] = T!Reason(4 \div 2) /\ 4 \div 2 \in Nat
    OBVIOUS
  <2>6. DOMAIN all = 1 .. 4 /\ all = [k \in 1 .. 4 |-> all[k]] /\ 4 \in Nat
    OBVIOUS
  <2> HIDE DEF all
  <2>7. all \in Seq(CallsOf)
    BY <2>4, <2>6, FunctionIsSeq
  <2>8. Len(all) = 4
    BY <2>6, <2>7
  <2>9. EndsLine(all[4])
    BY <1>1, <2>5
  <2>10. all # << >> /\ EndsLine(all[Len(all)]) /\ \A i \in 1 .. Len(all) : all[i].name # "println"
    BY <2>4, <2>8, <2>9
  <2> QED BY <2>1, <2>7, <2>10
<1> QED BY <1>2, <1>3

LEMMA TestFinishedKeeps ==
  ASSUME Typed, Live, NEW status \in {"passed", "failed"}, NEW n \in 0 .. 2,
         T!TestFinished(status, n)
  PROVE  Typed' /\ Live'
<1> DEFINE a == T!Draw
           b == T!LTF
           c == T!Say(<< <<"reasons">>, T!NL>>)
           l == T!Listed(n)
           rest == IF n = 0 THEN << >> ELSE <<b, c>> \o l
           todo == <<a>> \o rest
<1>1. ui_calls = << >> /\ ui_calls' = todo /\ shown' = [shown EXCEPT ![Len(shown)] = status]
      /\ logs' = logs /\ UNCHANGED <<term, ui, resizes, written>> /\ phase' = phase
  BY DEF T!TestFinished, T!Idle, T!Callback
<1>2. shown' \in Seq(States)
  <2>1. status \in States /\ shown \in Seq(States)
    BY DEF States, Typed
  <2>2. shown # << >>
    BY DEF T!TestFinished, T!Running
  <2>3. Len(shown) \in 1 .. Len(shown)
    BY <2>1, <2>2
  <2>4. [shown EXCEPT ![Len(shown)] = status] \in Seq(States)
    BY <2>1, <2>3
  <2> HIDE DEF todo
  <2> QED BY <1>1, <2>4
<1>3. a \in CallsOf /\ a.name = "render" /\ b \in CallsOf /\ b.name = "print"
  BY DrawIs, LTFIs
<1>4. c \in CallsOf /\ c.name = "print"
  <2>1. "reasons" \in Words
    BY DEF Words
  <2> QED BY <2>1, OneWord, HeadingIs
<1>5. n # 0 => /\ l \in Seq(CallsOf) /\ l # << >>
               /\ \A i \in 1 .. Len(l) : l[i].name # "println"
               /\ EndsLine(l[Len(l)])
  BY ListedIs
<1> HIDE DEF a, b, c, l
<1>6. Proper(todo) /\ Head(todo).name = "render"
  <2>1. CASE n = 0
    <3>1. todo = <<a>>
      BY <2>1
    <3>2. <<a>> \in Seq(CallsOf) /\ <<a>> # << >> /\ Len(<<a>>) = 1 /\ <<a>>[1] = a /\ Head(<<a>>) = a
      BY <1>3
    <3> HIDE DEF todo
    <3> QED BY <1>3, <3>1, <3>2 DEF Proper
  <2>2. CASE n # 0
    <3> DEFINE p == <<a, b, c>>
    <3>1. todo = p \o l
      <4>1. \A q \in Seq(CallsOf) : <<a>> \o (<<b, c>> \o q) = <<a, b, c>> \o q
        BY <1>3, <1>4
      <4> QED BY <1>5, <2>2, <4>1
    <3>2. p \in Seq(CallsOf) /\ Len(p) = 3 /\ p[1] = a /\ p[2] = b /\ p[3] = c
      BY <1>3, <1>4
    <3> HIDE DEF todo, p
    <3>3. l \in Seq(CallsOf) /\ Len(l) \in Nat /\ Len(l) > 0
      BY <1>5, <2>2
    <3>4. /\ todo \in Seq(CallsOf) /\ Len(todo) = 3 + Len(l)
          /\ \A i \in 1 .. 3 : todo[i] = p[i]
          /\ \A i \in 4 .. 3 + Len(l) : todo[i] = l[i - 3]
      <4>1. \A q \in Seq(CallsOf), m \in Seq(CallsOf) :
              /\ q \o m \in Seq(CallsOf) /\ Len(q \o m) = Len(q) + Len(m)
              /\ \A i \in 1 .. Len(q) : (q \o m)[i] = q[i]
        OBVIOUS
      <4>2. \A q \in Seq(CallsOf), m \in Seq(CallsOf) :
              \A i \in Len(q) + 1 .. Len(q) + Len(m) : (q \o m)[i] = m[i - Len(q)]
        OBVIOUS
      <4>3. /\ todo \in Seq(CallsOf) /\ Len(todo) = Len(p) + Len(l)
            /\ \A i \in 1 .. Len(p) : todo[i] = p[i]
        BY <3>1, <3>2, <3>3, <4>1
      <4>4. \A i \in Len(p) + 1 .. Len(p) + Len(l) : todo[i] = l[i - Len(p)]
        BY <3>1, <3>2, <3>3, <4>2
      <4> QED BY <3>2, <4>3, <4>4
    <3>5. ASSUME NEW i \in 1 .. Len(todo) PROVE todo[i].name # "println"
      <4>1. CASE i \in 4 .. 3 + Len(l)
        <5>1. i - 3 \in 1 .. Len(l)
          BY <3>3, <4>1
        <5> QED BY <1>5, <2>2, <3>4, <4>1, <5>1
      <4>2. CASE i \in 1 .. 3
        <5>1. i = 1 \/ i = 2 \/ i = 3
          BY <4>2
        <5> QED BY <1>3, <1>4, <3>2, <3>4, <4>2, <5>1
      <4> QED BY <3>3, <3>4, <4>1, <4>2
    <3>6. todo # << >> /\ todo[1] = a /\ Len(todo) - 3 = Len(l) /\ Len(todo) \in 4 .. 3 + Len(l)
      BY <3>2, <3>3, <3>4
    <3>7. EndsLine(todo[Len(todo)])
      BY <1>5, <2>2, <3>4, <3>6
    <3>8. Head(todo) = a
      BY <3>4, <3>6
    <3> QED BY <1>3, <3>4, <3>5, <3>6, <3>7, <3>8, PlainIsProper
  <2> QED BY <2>1, <2>2
<1> HIDE DEF todo
<1>7. phase' \in {"run", "result"} /\ logs' \in Nat
  BY <1>1 DEF Live, Typed
<1> QED BY <1>1, <1>2, <1>6, <1>7, CallbackKeeps

\* A callback that logs.
LEMMA LoggedKeeps ==
  ASSUME Typed, Live, NEW todo, Proper(todo), T!Logged(todo)
  PROVE  Typed' /\ Live'
<1>1. ui_calls = << >> /\ ui_calls' = todo /\ shown' = shown /\ logs' = logs + 1
      /\ UNCHANGED <<term, ui, resizes, written>> /\ phase' = phase
  BY DEF T!Logged, T!Idle, T!Callback
<1>2. phase' \in {"run", "result"} /\ logs' \in Nat /\ shown' \in Seq(States)
  BY <1>1 DEF Live, Typed
<1> QED BY <1>1, <1>2, CallbackKeeps

LEMMA LogKeeps ==
  ASSUME Typed, Live, NEW body \in Seq(Pieces), T!Log(body)
  PROVE  Typed' /\ Live'
<1> DEFINE a == T!Say(<< <<"level", logs>> >>)
           b == T!Say(<< <<"time", logs>> >>)
           c == T!SayBlock(body)
           todo == <<a, b, c>>
<1>1. T!Logged(todo)
  BY DEF T!Log
<1>2. "level" \in Words /\ "time" \in Words /\ logs \in Nat
  BY DEF Words, Typed
<1>3. << <<"level", logs>> >> \in Seq(Pieces) /\ << <<"time", logs>> >> \in Seq(Pieces)
  BY <1>2, ShortPieces, ShortTexts
<1>4. a \in CallsOf /\ a.name = "print" /\ b \in CallsOf /\ b.name = "print"
      /\ c \in CallsOf /\ c.name = "block" /\ EndsLine(c)
  BY <1>3, SaidIs
<1> HIDE DEF a, b, c
<1>5. todo \in Seq(CallsOf) /\ todo # << >> /\ Len(todo) = 3 /\ todo[1] = a /\ todo[2] = b /\ todo[3] = c
  BY <1>4
<1> HIDE DEF todo
<1>6. \A i \in 1 .. Len(todo) : i = 1 \/ i = 2 \/ i = 3
  BY <1>5
<1>7. \A i \in 1 .. Len(todo) : todo[i].name # "println"
  BY <1>4, <1>5, <1>6
<1>8. Proper(todo)
  BY <1>4, <1>5, <1>7, PlainIsProper
<1> QED BY <1>1, <1>8, LoggedKeeps

LEMMA DeferFailedKeeps ==
  ASSUME Typed, Live, T!DeferFailed
  PROVE  Typed' /\ Live'
<1> DEFINE a == T!LTF
           b == T!Say(<< <<"defer failed">>, T!NL>>)
           c == T!SayBlock(<< <<"trace", logs>> >>)
           todo == <<a, b, c>>
<1>1. T!Logged(todo)
  BY DEF T!DeferFailed
<1>2. "defer failed" \in Words /\ "trace" \in Words /\ logs \in Nat
  BY DEF Words, Typed
<1>3. << <<"trace", logs>> >> \in Seq(Pieces) /\ <<"defer failed">> \in Pieces
  BY <1>2, ShortPieces, ShortTexts
<1>4. a \in CallsOf /\ a.name = "print" /\ b \in CallsOf /\ b.name = "print"
      /\ c \in CallsOf /\ c.name = "block" /\ EndsLine(c)
  BY <1>3, SaidIs, HeadingIs, LTFIs
<1> HIDE DEF a, b, c
<1>5. todo \in Seq(CallsOf) /\ todo # << >> /\ Len(todo) = 3 /\ todo[1] = a /\ todo[2] = b /\ todo[3] = c
  BY <1>4
<1> HIDE DEF todo
<1>6. \A i \in 1 .. Len(todo) : i = 1 \/ i = 2 \/ i = 3
  BY <1>5
<1>7. \A i \in 1 .. Len(todo) : todo[i].name # "println"
  BY <1>4, <1>5, <1>6
<1>8. Proper(todo)
  BY <1>4, <1>5, <1>7, PlainIsProper
<1> QED BY <1>1, <1>8, LoggedKeeps

LEMMA HookFailedKeeps ==
  ASSUME Typed, Live, T!HookFailed
  PROVE  Typed' /\ Live'
<1> DEFINE d == T!Draw
           a == T!LTF
           f == T!Say(<< <<"hook failed">>, T!NL>>)
           r == T!Say(<< <<"reason">>, T!NL>>)
           c == T!SayBlock(<< <<"trace", logs>> >>)
           todo == <<d, a, f, a, r, c>>
<1>1. T!Logged(todo)
  BY DEF T!HookFailed
<1>2. "hook failed" \in Words /\ "reason" \in Words /\ "trace" \in Words /\ logs \in Nat
  BY DEF Words, Typed
<1>3. << <<"trace", logs>> >> \in Seq(Pieces) /\ <<"hook failed">> \in Pieces /\ <<"reason">> \in Pieces
  BY <1>2, ShortPieces, ShortTexts
<1>4. d \in CallsOf /\ d.name = "render" /\ a \in CallsOf /\ a.name = "print"
      /\ f \in CallsOf /\ f.name = "print" /\ r \in CallsOf /\ r.name = "print"
      /\ c \in CallsOf /\ c.name = "block" /\ EndsLine(c)
  BY <1>3, SaidIs, HeadingIs, LTFIs, DrawIs
<1> HIDE DEF d, a, f, r, c
<1>5. todo \in Seq(CallsOf) /\ todo # << >> /\ Len(todo) = 6 /\ todo[1] = d /\ todo[2] = a
      /\ todo[3] = f /\ todo[4] = a /\ todo[5] = r /\ todo[6] = c
  BY <1>4
<1> HIDE DEF todo
<1>6. \A i \in 1 .. Len(todo) : i = 1 \/ i = 2 \/ i = 3 \/ i = 4 \/ i = 5 \/ i = 6
  BY <1>5
<1>7. \A i \in 1 .. Len(todo) : todo[i].name # "println"
  BY <1>4, <1>5, <1>6
<1>8. Proper(todo)
  BY <1>4, <1>5, <1>7, PlainIsProper
<1> QED BY <1>1, <1>8, LoggedKeeps

LEMMA SetCurrentLineKeeps ==
  ASSUME Typed, Live, T!SetCurrentLine
  PROVE  Typed' /\ Live'
<1> DEFINE a == T!Call("progress", << >>)
           todo == <<a>>
<1>1. ui_calls = << >> /\ ui_calls' = todo /\ shown' = shown /\ logs' = logs
      /\ UNCHANGED <<term, ui, resizes, written>> /\ phase' = phase
  BY DEF T!SetCurrentLine, T!Idle, T!Callback
<1>2. a \in CallsOf /\ a.name = "progress"
  BY DEF T!Call, CallsOf
<1> HIDE DEF a
<1>3. todo \in Seq(CallsOf) /\ todo # << >> /\ Len(todo) = 1 /\ todo[1] = a
  BY <1>2
<1> HIDE DEF todo
<1>4. \A i \in 1 .. Len(todo) : todo[i].name = "progress"
  BY <1>2, <1>3
<1>5. Proper(todo)
  <2>1. \A i \in 1 .. Len(todo) : todo[i].name \in {"render", "progress"} /\ todo[i].name # "println"
    BY <1>4
  <2> QED BY <1>3, <2>1 DEF Proper
<1>6. phase' \in {"run", "result"} /\ logs' \in Nat /\ shown' \in Seq(States)
  BY <1>1 DEF Live, Typed
<1> QED BY <1>1, <1>5, <1>6, CallbackKeeps

LEMMA RenderResultKeeps ==
  ASSUME T!TuiConstantsOK, Typed, Live, T!RenderResult
  PROVE  Typed' /\ Live'
<1> DEFINE todo == <<T!Draw>> \o T!Rule
<1>1. ui_calls = << >> /\ ui_calls' = todo /\ shown' = shown /\ logs' = logs
      /\ UNCHANGED <<term, ui, resizes, written>> /\ phase' = "result"
  BY DEF T!RenderResult, T!Idle
<1>2. Proper(todo)
  BY RuleAlone
<1> HIDE DEF todo
<1>3. phase' \in {"run", "result"} /\ logs' \in Nat /\ shown' \in Seq(States)
  BY <1>1 DEF Typed
<1> QED BY <1>1, <1>2, <1>3, CallbackKeeps

LEMMA LastHookStartedKeeps ==
  ASSUME T!TuiConstantsOK, Typed, Live, T!LastHookStarted
  PROVE  Typed' /\ Live'
BY RuleAlone, LoggedKeeps DEF T!LastHookStarted

-----------------------------------------------------------------------------
(* Begin, end and resize.                                                  *)

LEMMA DisplayInit ==
  ASSUME T!TuiConstantsOK, T!Init, ~cramped
  PROVE  Typed /\ Fresh
<1>1. PICK rows \in Heights :
        /\ term = [rows |-> rows, lines |-> [r \in 0 .. rows - 1 |-> << >>], above |-> << >>,
                   bot |-> rows - 1, row |-> 0, col |-> 0, visible |-> TRUE]
        /\ ui = [T!Sized(rows) EXCEPT !.alive = FALSE]
        /\ cramped = T!Cramped(rows)
  BY DEF T!Init
<1>2. rows \in Nat /\ rows >= 5
  <2>1. rows \in Nat /\ ~T!Cramped(rows)
    BY <1>1 DEF T!TuiConstantsOK
  <2> QED BY <2>1 DEF T!Cramped, T!Panel
<1>3. term \in Roomy /\ term.rows = rows /\ Empty(term) /\ term.bot = term.rows - 1
  <2> DEFINE L == [r \in 0 .. rows - 1 |-> << >>]
             none == << >>
             b == rows - 1
  <2>1. none \in Lines /\ none \in Seq(Lines)
    BY DEF Lines
  <2>2. L \in Rows(rows)
    <3>1. L = [r \in 0 .. rows - 1 |-> none]
      OBVIOUS
    <3> HIDE DEF none, L
    <3> QED BY <2>1, <3>1 DEF Rows
  <2>3. \A r \in 0 .. rows - 1 : L[r] = none
    OBVIOUS
  <2>4. b \in Nat /\ b < rows /\ 0 \in Nat /\ 0 < rows /\ b = rows - 1
    BY <1>2
  <2>5. term = [rows |-> rows, lines |-> L, above |-> none, bot |-> b, row |-> 0, col |-> 0,
                visible |-> TRUE]
    BY <1>1
  <2> HIDE DEF L, none, b
  <2>6. TRUE \in BOOLEAN
    OBVIOUS
  <2>7. term \in Roomy
    BY <1>2, <2>1, <2>2, <2>4, <2>5, <2>6, RoomyMade
  <2>8. term.rows = rows /\ term.lines = L /\ term.bot = b
    BY <2>5
  <2> QED BY <2>3, <2>4, <2>7, <2>8 DEF Empty, none
<1>4. ui \in Pico /\ ui.ui_rows = T!Panel /\ ~ui.alive /\ ~ui.resized
  <2>1. ui = [alive |-> FALSE, sz |-> rows, ui_rows |-> T!Panel, stream_anchor_set |-> FALSE,
              stream_cur_col |-> 0, resized |-> FALSE]
    BY <1>1 DEF T!Sized
  <2>2. T!Panel \in Nat
    BY DEF T!Panel
  <2> QED BY <1>2, <2>1, <2>2 DEF Pico
<1>5. ui_calls = << >> /\ phase = "start" /\ shown = << >> /\ logs = 0 /\ resizes = 0
      /\ written = << << >> >>
  BY DEF T!Init
<1>6. ui_calls \in Seq(CallsOf) /\ shown \in Seq(States) /\ logs \in Nat /\ resizes \in Nat
  BY <1>5
<1> QED BY <1>3, <1>4, <1>5, <1>6 DEF Typed, Fresh

LEMMA StartKeeps ==
  ASSUME Typed, Fresh, T!Start
  PROVE  Typed' /\ Live'
<1> DEFINE v == T!Attach([t |-> term, u |-> T!Sized(term.rows)])
           t == [v.t EXCEPT !.visible = FALSE]
<1>1. /\ phase' = "run" /\ ui_calls' = << >> /\ shown' = shown /\ logs' = logs
      /\ resizes' = resizes /\ written' = written /\ T!Become([v EXCEPT !.t.visible = FALSE])
  BY DEF T!Start, Fresh
<1>2. /\ AtRest(v) /\ v.u = T!Sized(term.rows) /\ v.t.rows = term.rows
      /\ PanelDrawn(v.t) /\ Kept(v.t, << << >> >>)
  BY AttachIs DEF Typed, Fresh
<1> HIDE DEF v
<1>3. v \in [t : Roomy, u : Pico] /\ v.t \in Roomy /\ v.u \in Pico /\ v.u.ui_rows = T!Panel
      /\ v.u.sz = v.t.rows /\ v.t.bot = v.t.rows - 4
  BY <1>2 DEF AtRest, Fitted
<1>4. term' = t /\ ui' = v.u
  BY <1>1, <1>3 DEF T!Become
<1>5. v.u.alive /\ ~v.u.resized /\ ~v.u.stream_anchor_set
  BY <1>2 DEF T!Sized
<1>6. t \in Roomy /\ t.rows = v.t.rows /\ t.lines = v.t.lines /\ t.above = v.t.above
      /\ t.bot = v.t.bot /\ ~t.visible
  <2> DEFINE o == v.t
  <2>1. /\ o.rows \in Nat /\ o.rows >= 5 /\ o.lines \in Rows(o.rows) /\ o.above \in Seq(Lines)
        /\ o.bot \in Nat /\ o.bot < o.rows /\ o.row \in Nat /\ o.row < o.rows /\ o.col \in Nat
        /\ o = [rows |-> o.rows, lines |-> o.lines, above |-> o.above, bot |-> o.bot,
                row |-> o.row, col |-> o.col, visible |-> o.visible]
    <3> HIDE DEF o
    <3>1. o \in Roomy
      BY <1>3 DEF o
    <3> QED BY <3>1, RoomyIs
  <2> HIDE DEF o
  <2>2. t = [rows |-> o.rows, lines |-> o.lines, above |-> o.above, bot |-> o.bot,
             row |-> o.row, col |-> o.col, visible |-> FALSE]
    <3>1. t = [o EXCEPT !.visible = FALSE]
      BY DEF o
    <3> HIDE DEF t
    <3> QED BY <2>1, <3>1
  <2>3. FALSE \in BOOLEAN
    OBVIOUS
  <2>4. [rows |-> o.rows, lines |-> o.lines, above |-> o.above, bot |-> o.bot,
         row |-> o.row, col |-> o.col, visible |-> FALSE] \in Roomy
    BY <2>1, <2>3, RoomyMade
  <2> QED BY <2>2, <2>4 DEF o
<1> HIDE DEF t
<1>7. Typed'
  <2>1. ui_calls' \in Seq(CallsOf)
    BY <1>1
  <2> QED BY <1>1, <1>3, <1>4, <1>6, <2>1 DEF Typed
<1>8. AtRest(Window)'
  BY <1>3, <1>4, <1>6 DEF Window, AtRest, Fitted
<1>9. DrawnOrDue'
  BY <1>1, <1>2, <1>4, <1>6, ShowsKept DEF PanelDrawn, DrawnOrDue
<1>10. Kept(term', written') /\ Placed(ui', written') /\ InTurn(ui_calls', written')
  <2> DEFINE one_line == << << >> >>
  <2>0. written' = one_line
    BY <1>1 DEF Fresh
  <2>1. one_line[Len(one_line)] = << >>
    OBVIOUS
  <2>2. Kept(v.t, one_line)
    BY <1>2
  <2> HIDE DEF one_line
  <2>3. Kept(t, one_line)
    BY <1>6, <2>2 DEF Kept, RowAt, End
  <2>4. Placed(v.u, one_line)
    BY <1>5, <2>1 DEF Placed
  <2> DEFINE none == << >>
  <2>5. Len(none) = 0
    OBVIOUS
  <2>6. ui_calls' = none
    BY <1>1
  <2> HIDE DEF none
  <2>7. \A i : ~(i \in 1 .. Len(none))
    BY <2>5
  <2>8. InTurn(none, one_line)
    BY <2>1, <2>7 DEF InTurn, OnOwnLine, LeavesNoneOpen
  <2> QED BY <1>4, <2>0, <2>3, <2>4, <2>6, <2>8
<1>11. (resizes = 0 => /\ ~ui.resized /\ Kept(term, written) /\ AtEnd(ui, ui_calls, written)
                       /\ InTurn(ui_calls, written))'
  <2>1. (resizes = 0 => /\ ~ui.resized /\ Kept(term, written) /\ Placed(ui, written)
                        /\ InTurn(ui_calls, written))'
    BY <1>4, <1>5, <1>10 DEF Kept, RowAt, End, Placed, InTurn, OnOwnLine, Dashes, IsDash,
                             LeavesNoneOpen, EndsLine
  <2> QED BY <2>1 DEF AtEnd
<1>12. Live'
  BY <1>1, <1>4, <1>5, <1>6, <1>8, <1>9, <1>11 DEF Live
<1> QED BY <1>7, <1>12

LEMMA ResizeKeeps ==
  ASSUME T!TuiConstantsOK, Typed, Live, NEW rows \in Heights, NEW bot \in 0 .. term.rows,
         T!Resize(rows, bot), ~cramped'
  PROVE  Typed' /\ Live'
<1> DEFINE L == [r \in 0 .. rows - 1 |-> <<T!Junk>>]
           none == << >>
<1>1. /\ term' = [term EXCEPT !.rows = rows, !.lines = L, !.above = none, !.bot = bot,
                              !.row = 0, !.col = 0]
      /\ ui' = [ui EXCEPT !.resized = TRUE] /\ resizes' = resizes + 1
      /\ phase' = phase /\ shown' = shown /\ logs' = logs /\ ui_calls' = ui_calls
      /\ bot \in {rows - 1, T!Least(term.bot, rows - 1)} /\ ~T!Cramped(rows)
  BY DEF T!Resize
<1>2. rows \in Nat /\ rows >= 5
  BY <1>1 DEF T!TuiConstantsOK, T!Cramped, T!Panel
<1>3. bot \in Nat /\ bot < rows
  <2>1. term.bot \in Nat
    BY RoomyIs DEF Typed
  <2> QED BY <1>1, <1>2, <2>1 DEF T!Least
<1>4. L \in Rows(rows) /\ none \in Seq(Lines) /\ 0 \in Nat /\ 0 < rows
  <2>1. "?" \in Words
    BY DEF Words
  <2>2. <<T!Junk>> \in Lines
    BY <2>1, OneWord, ShortTexts DEF T!Junk, Lines
  <2> QED BY <1>2, <2>2 DEF Rows
<1> HIDE DEF L, none
<1>5. term' \in Roomy /\ ~term'.visible
  <2>1. term = [rows |-> term.rows, lines |-> term.lines, above |-> term.above, bot |-> term.bot,
                row |-> term.row, col |-> term.col, visible |-> term.visible]
        /\ term.visible = FALSE
    BY RoomyIs DEF Typed, Live
  <2>2. term' = [rows |-> rows, lines |-> L, above |-> none, bot |-> bot, row |-> 0, col |-> 0,
                 visible |-> FALSE]
    BY <1>1, <2>1
  <2>3. FALSE \in BOOLEAN
    OBVIOUS
  <2>4. [rows |-> rows, lines |-> L, above |-> none, bot |-> bot, row |-> 0, col |-> 0,
         visible |-> FALSE] \in Roomy
    BY <1>2, <1>3, <1>4, <2>3, RoomyMade
  <2> QED BY <2>2, <2>4
<1>6. ui' \in Pico /\ ui'.ui_rows = ui.ui_rows /\ ui'.alive = ui.alive /\ ui'.resized
  BY <1>1 DEF Typed, Pico
<1>7. resizes' \in Nat /\ resizes' # 0
  BY <1>1 DEF Typed
<1>8. Typed'
  BY <1>1, <1>5, <1>6, <1>7 DEF Typed
<1>9. Live'
  BY <1>1, <1>5, <1>6, <1>7 DEF Live
<1> QED BY <1>8, <1>9

\* What is displayed is honest,
LEMMA LiveIsHonest ==
  ASSUME ~cramped, Typed, Live
  PROVE  T!ScreenHonest
<1>1. T!LogKept
  <2>1. resizes = 0 => Stands(term, written)
    BY KeptStands DEF Live, Typed
  <2> QED BY <2>1 DEF T!LogKept, Stands, Cut, AllRows
<1>2. T!PanelWhole
  <2>1. SUFFICES ASSUME ~ui.resized, ui_calls = << >>
                 PROVE  /\ term.bot = term.rows - T!Panel - 1 /\ ~term.visible
                        /\ \A row \in 0 .. T!Panel - 1 :
                             term.lines[term.rows - T!Panel + row] = <<T!Shows(row)>>
    <3>1. phase # "done" /\ term.rows - T!Panel - 0 = term.rows - T!Panel
      <4>1. term.rows \in Nat /\ T!Panel \in Nat
        BY RoomyIs DEF Typed, T!Panel
      <4> QED BY <4>1 DEF Live
    <3> QED BY <3>1 DEF T!PanelWhole
  <2>2. AtRest(Window) /\ PanelDrawn(term) /\ ~term.visible
    BY <2>1 DEF Live, DrawnOrDue
  <2>3. term.bot = term.rows - 4 /\ term.rows \in Nat /\ T!Panel = 3
    BY <2>2, RoomyIs DEF AtRest, Window, Typed, T!Panel
  <2>4. 0 .. T!Panel - 1 = 0 .. 2 /\ term.bot = term.rows - T!Panel - 1
    BY <2>3
  <2> QED BY <2>2, <2>4 DEF PanelDrawn
<1> QED BY <1>1, <1>2 DEF T!ScreenHonest

LEMMA FreshIsHonest ==
  ASSUME ~cramped, Typed, Fresh
  PROVE  T!ScreenHonest
<1>1. T!LogKept
  <2>1. term \in Roomy /\ term.bot \in 0 .. term.rows - 1
    BY RoomyIs DEF Typed
  <2>2. term.lines[term.bot] = << >>
    BY <2>1 DEF Fresh, Empty
  <2>3. Kept(term, written)
    BY <2>1, <2>2, EmptyKept DEF Fresh
  <2>4. Stands(term, written)
    BY <2>1, <2>3, KeptStands
  <2> QED BY <2>4 DEF T!LogKept, Stands, Cut, AllRows
<1>2. T!PanelWhole
  BY DEF T!PanelWhole, Fresh
<1> QED BY <1>1, <1>2 DEF T!ScreenHonest

\* and what remains of it.
LEMMA DeinitKeeps ==
  ASSUME ~cramped, Typed, Live, ui_calls = << >>, T!Deinit, phase' = "done", UNCHANGED ui_calls
  PROVE  Over'
<1> DEFINE w == Window
           s == T!Write(T!Shutdown(w).t, <<T!NL, T!NL>>)
<1>1. /\ term' = [s EXCEPT !.visible = TRUE] /\ ui' = [T!Shutdown(w).u EXCEPT !.alive = FALSE]
      /\ shown' = shown /\ resizes' = resizes /\ cramped' = cramped /\ written' = written
  BY DEF T!Deinit, Window
<1>2. w.u = ui /\ w.t = term /\ w = [t |-> term, u |-> ui]
  BY DEF Window
<1>3. T!Shutdown(w).u = ui
  BY <1>2 DEF T!Shutdown
<1>4. ui' = [ui EXCEPT !.alive = FALSE]
  <2> HIDE DEF w
  <2> QED BY <1>1, <1>3
<1>5. ui'.resized = ui.resized /\ ~ui'.alive
  BY <1>4 DEF Typed, Pico
<1>6. CASE ui.resized
  <2>1. resizes # 0
    BY <1>6 DEF Live
  <2>2. T!LogKept'
    BY <1>1, <2>1 DEF T!LogKept
  <2>3. T!PanelWhole'
    BY <1>5, <1>6 DEF T!PanelWhole
  <2> QED BY <1>5, <2>2, <2>3 DEF Over, T!ScreenHonest
<1>7. CASE ~ui.resized
  <2>1. AtRest(w) /\ PanelDrawn(w.t)
    BY <1>2, <1>7 DEF Live, DrawnOrDue
  <2> HIDE DEF w
  <2>2. /\ s \in Roomy /\ s.rows = w.t.rows /\ s.bot = w.t.rows - 1
        /\ \A row \in 0 .. 2 : s.lines[w.t.rows - T!Panel - 2 + row] = <<T!Shows(row)>>
        /\ \A lines : Kept(w.t, lines) => Stands(s, lines)
    BY <2>1, DeinitIs
  <2> HIDE DEF s
  <2>3. term'.rows = s.rows /\ term'.bot = s.bot /\ term'.lines = s.lines /\ term'.above = s.above
        /\ term'.visible
    <3>1. s = [rows |-> s.rows, lines |-> s.lines, above |-> s.above, bot |-> s.bot,
               row |-> s.row, col |-> s.col, visible |-> s.visible]
      BY <2>2, RoomyIs
    <3>2. term' = [rows |-> s.rows, lines |-> s.lines, above |-> s.above, bot |-> s.bot,
                   row |-> s.row, col |-> s.col, visible |-> TRUE]
      BY <1>1, <3>1
    <3> QED BY <3>2
  <2>4. T!LogKept'
    <3>1. ASSUME resizes = 0 PROVE Stands(s, written)
      BY <1>2, <2>2, <3>1 DEF Live
    <3>2. ASSUME resizes = 0 PROVE Stands(term', written)
      BY <2>3, <3>1, <3>2 DEF Stands, Cut, AllRows
    <3> QED BY <1>1, <3>2 DEF T!LogKept, Stands, Cut, AllRows
  <2>5. T!PanelWhole'
    <3>1. \A row \in 0 .. 2 : s.lines[s.rows - T!Panel - 2 + row] = <<T!Shows(row)>>'
      BY <1>1, <2>2, ShowsKept
    <3>2. \A row \in 0 .. T!Panel - 1 :
            term'.lines[term'.rows - T!Panel - 2 + row] = <<T!Shows(row)>>'
      <4>1. 0 .. T!Panel - 1 = 0 .. 2
        BY DEF T!Panel
      <4> QED BY <2>3, <3>1, <4>1
    <3>3. term'.bot = term'.rows - 1 /\ term'.visible
      BY <2>2, <2>3
    <3>4. phase' = "done" /\ ~ui'.alive
      BY <1>5
    <3> QED BY <3>2, <3>3, <3>4 DEF T!PanelWhole
  <2> QED BY <1>5, <2>4, <2>5 DEF Over, T!ScreenHonest
<1> QED BY <1>6, <1>7

-----------------------------------------------------------------------------
(* Every step.                                                             *)

\* What a callback does while the run is displayed.
LEMMA LiveStep ==
  ASSUME T!TuiConstantsOK, ~cramped, ~cramped', Typed, Live, T!Next
  PROVE  (Typed /\ Live)' \/ Over'
<1>1. CASE T!Start
  BY <1>1 DEF T!Start, Live
<1>2. CASE T!PicoPrint
  BY <1>2, PrintKeeps
<1>3. CASE T!PicoPrintln
  BY <1>3, PrintlnKeeps
<1>4. CASE T!PicoPrintBlock
  BY <1>4, BlockKeeps
<1>5. CASE T!DrawPanel
  BY <1>5, DrawPanelKeeps
<1>6. CASE T!DrawProgress
  BY <1>6, DrawProgressKeeps
<1>7. CASE T!TestStarted
  BY <1>7, TestStartedKeeps
<1>8. CASE \E status \in {"passed", "failed"}, n \in 0 .. 2 : T!TestFinished(status, n)
  BY <1>8, TestFinishedKeeps
<1>9. CASE \/ T!Log(<< <<"body", logs>> >>) \/ T!Log(<< <<"body", logs>>, T!NL>>)
           \/ T!Log(<< <<"body", logs>>, T!NL, <<"more", logs>> >>)
  <2>1. <<"body", logs>> \in Pieces /\ <<"more", logs>> \in Pieces
    <3>1. "body" \in Words /\ "more" \in Words /\ logs \in Nat
      BY DEF Words, Typed
    <3> QED BY <3>1, ShortPieces
  <2>2. /\ << <<"body", logs>> >> \in Seq(Pieces) /\ << <<"body", logs>>, T!NL>> \in Seq(Pieces)
        /\ << <<"body", logs>>, T!NL, <<"more", logs>> >> \in Seq(Pieces)
    BY <2>1, ShortTexts
  <2>3. \E body \in Seq(Pieces) : T!Log(body)
    BY <1>9, <2>2
  <2> QED BY <2>3, LogKeeps
<1>10. CASE T!DeferFailed
  BY <1>10, DeferFailedKeeps
<1>11. CASE T!HookFailed
  BY <1>11, HookFailedKeeps
<1>12. CASE T!SetCurrentLine
  BY <1>12, SetCurrentLineKeeps
<1>13. CASE T!LastHookStarted
  BY <1>13, LastHookStartedKeeps
<1>14. CASE T!RenderResult
  BY <1>14, RenderResultKeeps
<1>15. CASE T!FinishResult
  BY <1>15, DeinitKeeps DEF T!FinishResult
<1>16. CASE T!Interrupt
  BY <1>16, DeinitKeeps DEF T!Interrupt, T!Idle
<1>17. CASE \E rows \in Heights, bot \in 0 .. term.rows : T!Resize(rows, bot)
  BY <1>17, ResizeKeeps
<1>18. CASE T!Terminated
  BY <1>18 DEF T!Terminated, Live
<1> QED BY <1>1, <1>2, <1>3, <1>4, <1>5, <1>6, <1>7, <1>8, <1>9, <1>10, <1>11, <1>12, <1>13,
           <1>14, <1>15, <1>16, <1>17, <1>18 DEF T!Next

\* Outside of the display nothing happens, but that the display begins.
LEMMA FreshStep ==
  ASSUME Typed, Fresh, T!Next
  PROVE  (Typed /\ Live)'
<1>1. CASE T!Start
  BY <1>1, StartKeeps
<1>2. ~T!Calling("print") /\ ~T!Calling("println") /\ ~T!Calling("block")
      /\ ~T!Calling("render") /\ ~T!Calling("progress") /\ ~T!Idle
      /\ phase = "start" /\ ~(phase \in {"run", "result", "done"})
  BY DEF Fresh, T!Calling, T!Idle
<1> QED BY <1>1, <1>2 DEF T!Next, T!PicoPrint, T!PicoPrintln, T!PicoPrintBlock, T!DrawPanel,
           T!DrawProgress, T!TestStarted, T!TestFinished, T!Log, T!DeferFailed, T!HookFailed,
           T!Logged, T!SetCurrentLine, T!LastHookStarted, T!RenderResult, T!FinishResult,
           T!Interrupt, T!Resize, T!Terminated

LEMMA OverStep ==
  ASSUME Over, T!Next
  PROVE  UNCHANGED T!tuiVars
<1>1. ~T!Calling("print") /\ ~T!Calling("println") /\ ~T!Calling("block")
      /\ ~T!Calling("render") /\ ~T!Calling("progress") /\ ~T!Idle
      /\ phase = "done" /\ ~(phase \in {"start", "run", "result"})
  BY DEF Over, T!Calling, T!Idle
<1> QED BY <1>1 DEF T!Next, T!Start, T!PicoPrint, T!PicoPrintln, T!PicoPrintBlock, T!DrawPanel,
           T!DrawProgress, T!TestStarted, T!TestFinished, T!Log, T!DeferFailed, T!HookFailed,
           T!Logged, T!SetCurrentLine, T!LastHookStarted, T!RenderResult, T!FinishResult,
           T!Interrupt, T!Resize, T!Terminated

LEMMA DisplayStutters ==
  ASSUME DisplayInv, UNCHANGED T!tuiVars
  PROVE  DisplayInv'
<1>1. /\ term' = term /\ ui' = ui /\ ui_calls' = ui_calls /\ phase' = phase /\ shown' = shown
      /\ logs' = logs /\ resizes' = resizes /\ cramped' = cramped /\ written' = written
  BY DEF T!tuiVars
<1>2. Typed' = Typed
  BY <1>1 DEF Typed
<1>3. Fresh' = Fresh
  BY <1>1 DEF Fresh, Empty
<1>4. \A row \in 0 .. 2 : T!Shows(row)' = T!Shows(row)
  BY <1>1, ShowsKept
<1>5. Live => Live'
  <2>1. AtRest(Window)' = AtRest(Window)
    BY <1>1 DEF AtRest, Window, Fitted
  <2>2. DrawnOrDue => DrawnOrDue'
    BY <1>1, <1>4 DEF DrawnOrDue, PanelDrawn
  <2>3. Kept(term, written)' = Kept(term, written)
    BY <1>1 DEF Kept, RowAt, End
  <2>4. AtEnd(ui, ui_calls, written)' = AtEnd(ui, ui_calls, written)
    BY <1>1 DEF AtEnd, EndDue, Placed
  <2>5. InTurn(ui_calls, written)' = InTurn(ui_calls, written)
    BY <1>1 DEF InTurn, OnOwnLine, Dashes, IsDash, LeavesNoneOpen, EndsLine
  <2> QED BY <1>1, <2>1, <2>2, <2>3, <2>4, <2>5 DEF Live
<1>6. Over => Over'
  <2>1. T!LogKept' = T!LogKept
    BY <1>1 DEF T!LogKept
  <2>2. T!PanelWhole => T!PanelWhole'
    <3>1. 0 .. T!Panel - 1 = 0 .. 2
      BY DEF T!Panel
    <3> QED BY <1>1, <1>4, <3>1 DEF T!PanelWhole
  <2> QED BY <1>1, <2>1, <2>2 DEF Over, T!ScreenHonest
<1> QED BY <1>1, <1>2, <1>3, <1>5, <1>6 DEF DisplayInv

\* Only a resize makes the terminal another one.
LEMMA ResizeAlone ==
  ASSUME T!Next, ~\E rows \in Heights, bot \in 0 .. term.rows : T!Resize(rows, bot)
  PROVE  cramped' = cramped
<1>1. CASE T!PicoPrint \/ T!PicoPrintln \/ T!PicoPrintBlock \/ T!DrawPanel \/ T!DrawProgress
  BY <1>1 DEF T!PicoPrint, T!PicoPrintln, T!PicoPrintBlock, T!DrawPanel, T!DrawProgress, T!CallDone
<1>2. CASE T!TestStarted \/ \E status \in {"passed", "failed"}, n \in 0 .. 2 : T!TestFinished(status, n)
  BY <1>2 DEF T!TestStarted, T!TestFinished, T!Callback
<1>3. CASE \E todo : T!Logged(todo)
  BY <1>3 DEF T!Logged, T!Callback
<1>4. CASE \/ T!Log(<< <<"body", logs>> >>) \/ T!Log(<< <<"body", logs>>, T!NL>>)
           \/ T!Log(<< <<"body", logs>>, T!NL, <<"more", logs>> >>)
           \/ T!DeferFailed \/ T!HookFailed \/ T!LastHookStarted
  BY <1>3, <1>4 DEF T!Log, T!DeferFailed, T!HookFailed, T!LastHookStarted
<1>5. CASE T!SetCurrentLine \/ T!RenderResult \/ T!FinishResult \/ T!Interrupt \/ T!Start \/ T!Terminated
  BY <1>5 DEF T!SetCurrentLine, T!Callback, T!RenderResult, T!FinishResult, T!Interrupt, T!Deinit,
     T!Start, T!Terminated, T!tuiVars
<1> QED BY <1>1, <1>2, <1>4, <1>5 DEF T!Next

LEMMA DisplayStep ==
  ASSUME T!TuiConstantsOK, DisplayInv, [T!Next]_(T!tuiVars)
  PROVE  DisplayInv'
<1>1. CASE UNCHANGED T!tuiVars
  BY <1>1, DisplayStutters
<1>2. CASE T!Next /\ ~cramped'
  <2>1. ~cramped
    <3>1. CASE \E rows \in Heights, bot \in 0 .. term.rows : T!Resize(rows, bot)
      BY <1>2, <3>1 DEF T!Resize
    <3>2. CASE ~\E rows \in Heights, bot \in 0 .. term.rows : T!Resize(rows, bot)
      <4>1. cramped' = cramped
        BY <1>2, <3>2, ResizeAlone
      <4> QED BY <1>2, <4>1
    <3> QED BY <3>1, <3>2
  <2>2. (Typed /\ Fresh) \/ (Typed /\ Live) \/ Over
    BY <2>1 DEF DisplayInv
  <2>3. CASE Typed /\ Fresh
    BY <1>2, <2>3, FreshStep DEF DisplayInv
  <2>4. CASE Typed /\ Live
    BY <1>2, <2>1, <2>4, LiveStep DEF DisplayInv
  <2>5. CASE Over
    BY <1>2, <2>5, OverStep, DisplayStutters
  <2> QED BY <2>2, <2>3, <2>4, <2>5
<1>3. CASE cramped'
  BY <1>3 DEF DisplayInv
<1> QED BY <1>1, <1>2, <1>3

LEMMA DisplayIsHonest ==
  ASSUME DisplayInv
  PROVE  T!ScreenHonest
<1>1. CASE cramped
  BY <1>1 DEF T!ScreenHonest, T!LogKept, T!PanelWhole
<1>2. CASE ~cramped
  BY <1>2, LiveIsHonest, FreshIsHonest DEF DisplayInv, Over
<1> QED BY <1>1, <1>2

\* Whatever is printed, drawn and resized, the log stands above the panel line by
\* line, complete and in order, and the panel tells the state of the run: for
\* terminals of every height, every number of tests and of messages of the kinds
\* that the run prints.
THEOREM LogAndPanelApart ==
  ASSUME T!TuiConstantsOK
  PROVE  T!Spec => []ScreenHonest
<1>1. T!Init => DisplayInv
  BY DisplayInit DEF DisplayInv
<1>2. DisplayInv /\ [T!Next]_(T!tuiVars) => DisplayInv'
  BY DisplayStep
<1>3. DisplayInv => ScreenHonest
  BY DisplayIsHonest DEF ScreenHonest
<1> QED BY <1>1, <1>2, <1>3, PTL DEF T!Spec

=============================================================================
