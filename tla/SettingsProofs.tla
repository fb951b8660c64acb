--------------------------- MODULE SettingsProofs ---------------------------
(***************************************************************************)
(* Proofs about what decides the settings of a run.  Variables, for any    *)
(* names, values, forms and number of variables: what was given is what    *)
(* the tests read, for good.  Options, for any command line and any files: *)
(* what the command line asks for wins, and no option holds a string that  *)
(* was released.  Secrets, for any file: it is read as the pairs it was    *)
(* written for.                                                            *)
(***************************************************************************)
EXTENDS Settings, FiniteSetTheorems, SequenceTheorems, WellFoundedInduction, TLAPS

\* Once ltf_parse_vars succeeded: the state of the variables that it saw.
Resolved == pc = "record" \/ Started

\* The value is that of a variable which takes the given one.
Honours(e, gift, final) ==
  /\ final = gift
  /\ e.form.scalar = None
  /\ e.form.values # {} => gift \in e.form.values

ValidatedOK ==
  \A i \in 1 .. validated :
    /\ vars[i].final # None
    /\ \A k \in DOMAIN given :
         given[k].key = vars[i].name => Honours(vars[i], given[k].value, vars[i].final)
    /\ \A j \in 1 .. validated : vars[j].name = vars[i].name => j = i

GivenDistinct ==
  \A i, j \in DOMAIN given : given[i].key = given[j].key => i = j

VarInv ==
  /\ TypeOK
  /\ GivenDistinct
  /\ Resolved => ValidatedOK
  /\ pc = "record" => validated = Len(vars)

-----------------------------------------------------------------------------
(* Look-ups.                                                               *)

\* No key is given twice, so the first pair of a key is the only one.
LEMMA GivenValue ==
  ASSUME given \in Seq(Pair), GivenDistinct, NEW i \in DOMAIN given
  PROVE  IsGiven(given[i].key) /\ GivenFor(given[i].key) = given[i].value
<1> DEFINE First(k) == /\ given[k].key = given[i].key
                       /\ \A j \in DOMAIN given : given[j].key = given[i].key => k <= j
<1>1. ASSUME NEW k \in DOMAIN given, given[k].key = given[i].key PROVE k = i
  BY <1>1 DEF GivenDistinct
<1>2. i \in Int
  OBVIOUS
<1>3. First(i)
  BY <1>1, <1>2
<1>4. (CHOOSE k \in DOMAIN given : First(k)) = i
  BY <1>1, <1>3
<1> QED BY <1>4 DEF IsGiven, GivenFor

\* The value that ltf_parse_vars gives a variable, if it gives one.
LEMMA ResolveType ==
  ASSUME given \in Seq(Pair), GivenDistinct, NEW e \in Entry
  PROVE  Resolve(e) \in Values \cup {None}
<1>1. e.form \in Form /\ e.form.scalar \in Values \cup {None} /\ e.form.default \in Values \cup {None}
  BY FormsAssumption DEF Entry, Form
<1>2. CASE IsGiven(e.name)
  <2>1. PICK i \in DOMAIN given : given[i].key = e.name
    BY <1>2 DEF IsGiven
  <2>2. GivenFor(e.name) = given[i].value
    BY <2>1, GivenValue
  <2>3. given[i] \in Pair
    OBVIOUS
  <2>4. given[i].value \in Values
    BY <2>3 DEF Pair
  <2> QED BY <1>1, <1>2, <2>2, <2>4 DEF Resolve, Allowed
<1>3. CASE ~IsGiven(e.name)
  BY <1>1, <1>3 DEF Resolve
<1> QED BY <1>2, <1>3

\* A variable that was resolved although a value was given has that value, is
\* no constant, and allows the value.
LEMMA ResolveHonours ==
  ASSUME given \in Seq(Pair), GivenDistinct, NEW e \in Entry, Resolve(e) # None,
         NEW i \in DOMAIN given, given[i].key = e.name
  PROVE  /\ Resolve(e) = given[i].value
         /\ e.form.scalar = None
         /\ e.form.values # {} => given[i].value \in e.form.values
<1>1. IsGiven(e.name) /\ GivenFor(e.name) = given[i].value
  BY GivenValue
<1>2. e.form.scalar = None
  BY <1>1 DEF Resolve
<1>3. Resolve(e) = Allowed(e) /\ Allowed(e) # None
  BY <1>1, <1>2 DEF Resolve
<1> QED BY <1>1, <1>2, <1>3 DEF Allowed

\* A test finds the variable that ltf_parse_vars saw, also when the name was
\* registered again later.
LEMMA FindValidated ==
  ASSUME VarInv, Resolved, NEW i \in 1 .. validated
  PROVE  Get(vars[i].name) = vars[i].final
<1>1. i \in DOMAIN vars /\ Len(vars) \in Nat /\ validated \in 0 .. Len(vars) /\ DOMAIN vars = 1 .. Len(vars)
  BY DEF VarInv, TypeOK
<1>2. ASSUME NEW j \in DOMAIN vars, vars[j].name = vars[i].name PROVE i <= j
  <2>1. CASE j \in 1 .. validated
    <3>1. ValidatedOK
      BY DEF VarInv
    <3>2. j = i
      BY <1>2, <2>1, <3>1 DEF ValidatedOK
    <3> QED BY <1>1, <3>2
  <2>2. CASE j > validated
    BY <1>1, <2>2
  <2> QED BY <1>1, <2>1, <2>2
<1> DEFINE First(k) == /\ vars[k].name = vars[i].name
                       /\ \A j \in DOMAIN vars : vars[j].name = vars[i].name => k <= j
<1>3. First(i)
  BY <1>2
<1>4. ASSUME NEW k \in DOMAIN vars, First(k) PROVE k = i
  BY <1>1, <1>2, <1>4
<1>5. (CHOOSE k \in DOMAIN vars : First(k)) = i
  BY <1>1, <1>3, <1>4
<1> QED BY <1>5 DEF Get, Find

-----------------------------------------------------------------------------
(* The steps.                                                              *)

\* What register_vars appends.
LEMMA Appended ==
  ASSUME TypeOK, NEW table \in Tables, NEW order \in SetToSeqs(DOMAIN table)
  PROVE  [i \in DOMAIN order |-> [name  |-> order[i], form |-> table[order[i]],
                                  final |-> None]] \in Seq(Entry)
<1>1. PICK S \in SUBSET Names : table \in [S -> Forms]
  BY DEF Tables
<1>2. DOMAIN table = S /\ IsFiniteSet(S) /\ Cardinality(S) \in Nat
  BY <1>1, NamesAssumption, FS_Subset, FS_CardinalityType
<1>3. order \in [1 .. Cardinality(S) -> S]
  BY <1>2 DEF SetToSeqs
<1> DEFINE new == [i \in DOMAIN order |-> [name  |-> order[i], form |-> table[order[i]],
                                           final |-> None]]
<1>4. new \in [1 .. Cardinality(S) -> Entry]
  BY <1>1, <1>3 DEF Entry
<1> QED BY <1>2, <1>4

LEMMA InitVarInv == Init => VarInv
<1> SUFFICES ASSUME Init PROVE VarInv
  OBVIOUS
<1>1. PICK m \in 0 .. MaxGiven : given \in [1 .. m -> Pair]
  BY BoundsAssumption DEF Init, SeqOf
<1>2. given \in Seq(Pair)
  BY <1>1, BoundsAssumption
<1>3. GivenDistinct
  BY DEF Init, Repeats, GivenDistinct
<1>4. TypeOK
  BY <1>2, BoundsAssumption DEF Init, TypeOK, Point
<1> QED BY <1>3, <1>4 DEF Init, VarInv, Resolved, Started

\* Registering appends, and so changes no variable that was validated.
LEMMA RegisterKeeps ==
  ASSUME VarInv, NEW table \in Tables, RegisterVars(table)
  PROVE  /\ VarInv'
         /\ \A i \in 1 .. validated : i \in DOMAIN vars /\ i \in DOMAIN vars' /\ vars'[i] = vars[i]
<1>1. /\ pc \in {"lib", "tests", "run"} /\ UNCHANGED <<given, validated, record>>
      /\ pc' \in {pc, "failed"} /\ calls' \in 0 .. MaxCalls
  BY BoundsAssumption DEF RegisterVars, VarInv, TypeOK
<1>2. vars \in Seq(Entry) /\ validated \in 0 .. Len(vars) /\ Len(vars) \in Nat
  BY DEF VarInv, TypeOK
<1>3. \E new \in Seq(Entry) : vars' = vars \o new
  <2>1. CASE Raises(table)
    BY <1>2, <2>1, EmptySeq, ConcatEmptySeq DEF RegisterVars
  <2>2. CASE ~Raises(table)
    BY <2>2, Appended DEF RegisterVars, VarInv
  <2> QED BY <2>1, <2>2
<1>4. PICK new \in Seq(Entry) : vars' = vars \o new
  BY <1>3
<1>5. /\ vars' \in Seq(Entry) /\ Len(vars') = Len(vars) + Len(new) /\ Len(new) \in Nat
      /\ \A i \in 1 .. Len(vars) : vars'[i] = vars[i]
  BY <1>2, <1>4, ConcatProperties
<1>6. \A i \in 1 .. validated : i \in DOMAIN vars /\ i \in DOMAIN vars' /\ vars'[i] = vars[i]
  BY <1>2, <1>5
<1>7. TypeOK'
  BY <1>1, <1>2, <1>5 DEF VarInv, TypeOK, Point
<1>8. GivenDistinct'
  BY <1>1 DEF VarInv, GivenDistinct
<1>9. Resolved' => ValidatedOK'
  <2> SUFFICES ASSUME Resolved' PROVE ValidatedOK'
    OBVIOUS
  <2>1. ValidatedOK
    BY <1>1 DEF Resolved, Started, VarInv
  <2> QED BY <1>1, <1>6, <2>1 DEF ValidatedOK, Honours
<1>10. pc' # "record"
  BY <1>1
<1> QED BY <1>6, <1>7, <1>8, <1>9, <1>10 DEF VarInv

LEMMA ParseKeeps ==
  ASSUME VarInv, ParseVars
  PROVE  VarInv'
<1>1. /\ UNCHANGED <<given, record, calls>> /\ validated' = Len(vars)
      /\ vars' = [i \in DOMAIN vars |-> [vars[i] EXCEPT !.final = Resolve(vars[i])]]
      /\ pc' = IF Rejected THEN "failed" ELSE "record"
  BY DEF ParseVars
<1>2. vars \in Seq(Entry) /\ Len(vars) \in Nat /\ given \in Seq(Pair) /\ GivenDistinct
  BY DEF VarInv, TypeOK
<1>3. ASSUME NEW i \in 1 .. Len(vars)
      PROVE  /\ vars'[i] \in Entry /\ vars'[i].name = vars[i].name
             /\ vars'[i].final = Resolve(vars[i]) /\ vars'[i].form = vars[i].form
  <2>1. vars[i] \in Entry /\ vars'[i] = [vars[i] EXCEPT !.final = Resolve(vars[i])]
    BY <1>1, <1>2
  <2>2. Resolve(vars[i]) \in Values \cup {None}
    BY <1>2, <2>1, ResolveType
  <2> QED BY <2>1, <2>2 DEF Entry
<1>4. vars' \in Seq(Entry) /\ Len(vars') = Len(vars)
  <2>1. DOMAIN vars' = 1 .. Len(vars) /\ vars' = [i \in 1 .. Len(vars) |-> vars'[i]]
    BY <1>1, <1>2
  <2>2. vars' \in [1 .. Len(vars) -> Entry]
    BY <1>3, <2>1
  <2> QED BY <1>2, <2>2
<1>5. TypeOK'
  BY <1>1, <1>2, <1>4 DEF VarInv, TypeOK, Point
<1>6. GivenDistinct'
  BY <1>1, <1>2 DEF GivenDistinct
<1>7. Resolved' => ValidatedOK'
  <2> SUFFICES ASSUME Resolved' PROVE ValidatedOK'
    OBVIOUS
  <2>1. ~Rejected
    BY <1>1 DEF Resolved, Started
  <2>2. ASSUME NEW i \in 1 .. Len(vars)
        PROVE  /\ Resolve(vars[i]) # None /\ vars[i] \in Entry
               /\ \A j \in 1 .. Len(vars) : vars[j].name = vars[i].name => j = i
    BY <1>2, <2>1 DEF Rejected, Repeats
  <2>3. ASSUME NEW i \in 1 .. Len(vars), NEW k \in DOMAIN given, given[k].key = vars[i].name
        PROVE  Honours(vars[i], given[k].value, Resolve(vars[i]))
    BY <1>2, <2>2, <2>3, ResolveHonours DEF Honours
  <2>4. ASSUME NEW i \in 1 .. Len(vars)
        PROVE  /\ vars'[i].final # None
               /\ \A k \in DOMAIN given' :
                    given'[k].key = vars'[i].name => Honours(vars'[i], given'[k].value, vars'[i].final)
               /\ \A j \in 1 .. Len(vars) : vars'[j].name = vars'[i].name => j = i
    BY <1>1, <1>3, <2>2, <2>3, SMTT(20) DEF Honours
  <2> QED BY <1>1, <2>4 DEF ValidatedOK, Honours
<1>8. pc' = "record" => validated' = Len(vars')
  BY <1>1, <1>4
<1> QED BY <1>5, <1>6, <1>7, <1>8 DEF VarInv

\* No variable is recorded without a value.
LEMMA RecordKeeps ==
  ASSUME VarInv, RecordVars
  PROVE  VarInv'
<1>1. /\ pc = "record" /\ pc' = "tests" /\ UNCHANGED <<given, vars, validated, calls>>
      /\ record' = [i \in DOMAIN vars |-> [name |-> vars[i].name, value |-> vars[i].final]]
  BY DEF RecordVars
<1>2. vars \in Seq(Entry) /\ Len(vars) \in Nat /\ validated = Len(vars) /\ ValidatedOK
  BY <1>1 DEF VarInv, TypeOK, Resolved
<1>3. ASSUME NEW i \in 1 .. Len(vars) PROVE vars[i].name \in Names /\ vars[i].final \in Values
  <2>1. vars[i] \in Entry /\ vars[i].final # None
    BY <1>2 DEF ValidatedOK
  <2> QED BY <2>1 DEF Entry
<1>4. record' \in Seq([name : Names, value : Values])
  <2> DEFINE n == Len(vars)
             R == [name : Names, value : Values]
  <2>1. n \in Nat /\ record' \in [1 .. n -> R]
    BY <1>1, <1>2, <1>3
  <2> HIDE DEF n, R
  <2>2. record' \in Seq(R)
    BY <2>1
  <2> QED BY <2>2 DEF R
<1>5. TypeOK'
  BY <1>1, <1>4 DEF VarInv, TypeOK, Point
<1>6. GivenDistinct' /\ ValidatedOK'
  BY <1>1, <1>2 DEF VarInv, GivenDistinct, ValidatedOK, Honours
<1> QED BY <1>1, <1>5, <1>6 DEF VarInv

LEMMA UnchangedKeeps ==
  ASSUME VarInv, UNCHANGED <<given, vars, validated, record, calls>>,
         pc' \in Point, Resolved' => Resolved, pc' = "record" => pc = "record"
  PROVE  VarInv'
<1>1. TypeOK'
  BY DEF VarInv, TypeOK
<1>2. GivenDistinct' /\ (ValidatedOK => ValidatedOK')
  BY DEF VarInv, GivenDistinct, ValidatedOK, Honours
<1> QED BY <1>1, <1>2 DEF VarInv

LEMMA ProceedKeeps ==
  ASSUME VarInv, Proceed
  PROVE  VarInv'
<1>1. /\ pc \in {"lib", "tests", "run"} /\ UNCHANGED <<given, vars, validated, record, calls>>
      /\ pc' = [lib |-> "parse", tests |-> "run", run |-> "done"][pc]
  BY DEF Proceed
<1>2. /\ pc = "lib" => pc' = "parse"
      /\ pc = "tests" => pc' = "run"
      /\ pc = "run" => pc' = "done"
  BY <1>1
<1>3. pc' \in Point /\ (Resolved' => Resolved) /\ pc' # "record"
  BY <1>1, <1>2 DEF Point, Resolved, Started
<1> QED BY <1>1, <1>3, UnchangedKeeps

LEMMA StutterKeeps ==
  ASSUME VarInv, UNCHANGED variables
  PROVE  VarInv'
<1>1. UNCHANGED <<pc, given, vars, validated, record, calls>>
  BY DEF variables
<1>2. pc' \in Point /\ (Resolved' => Resolved)
  BY <1>1 DEF VarInv, TypeOK, Resolved, Started
<1> QED BY <1>1, <1>2, UnchangedKeeps

LEMMA NextKeepsVarInv ==
  ASSUME VarInv, [Next]_variables
  PROVE  VarInv'
<1>1. CASE \E table \in Tables : RegisterVars(table)
  BY <1>1, RegisterKeeps
<1>2. CASE ParseVars \/ RecordVars \/ Proceed
  BY <1>2, ParseKeeps, RecordKeeps, ProceedKeeps
<1>3. CASE Terminated \/ UNCHANGED variables
  BY <1>3, StutterKeeps DEF Terminated
<1> QED BY <1>1, <1>2, <1>3 DEF Next

LEMMA VarInvariant == Spec => []VarInv
<1>1. VarInv /\ [Next]_variables => VarInv'
  BY NextKeepsVarInv
<1> QED BY <1>1, InitVarInv, PTL DEF Spec

-----------------------------------------------------------------------------
(* The theorems.                                                           *)

\* Every variable stays in its type: ltf_state_register_vars never duplicates
\* a null pointer.
THEOREM VariablesTypeCorrect == Spec => []TypeOK
<1>1. VarInv => TypeOK
  BY DEF VarInv
<1> QED BY <1>1, VarInvariant, PTL

\* Once ltf_parse_vars succeeded, a value given for a variable of lib is what
\* the tests read, and one that the variable allows.
THEOREM GivenIsRead == Spec => []GivenHonoured
<1>1. VarInv => GivenHonoured
  <2> SUFFICES ASSUME VarInv, Started, NEW g \in Range(given), NEW i \in 1 .. validated,
                      vars[i].name = g.key
               PROVE  /\ Get(g.key) = g.value
                      /\ vars[i].form.scalar = None
                      /\ vars[i].form.values # {} => g.value \in vars[i].form.values
    BY DEF GivenHonoured
  <2>1. PICK k \in DOMAIN given : given[k] = g
    BY DEF Range
  <2>2. /\ given \in Seq(Pair) /\ ValidatedOK
    BY DEF VarInv, TypeOK, Resolved
  <2>3. Get(vars[i].name) = vars[i].final
    BY FindValidated DEF Resolved
  <2> QED BY <2>1, <2>2, <2>3 DEF ValidatedOK, Honours
<1> QED BY <1>1, VarInvariant, PTL

\* What a variable of lib reads in the tests never changes: l_module_ltf_get_var
\* finds it before any that the files of tests and the bodies register later.
THEOREM ReadsNeverChange == Spec => ReadsStable
<1>1. ASSUME VarInv, VarInv', [Next]_variables
      PROVE  [Started => \A i \in 1 .. validated :
                Get(vars[i].name)' = Get(vars[i].name)]_variables
  <2> SUFFICES ASSUME Started, NEW i \in 1 .. validated, ~UNCHANGED variables
               PROVE  Get(vars[i].name)' = Get(vars[i].name)
    OBVIOUS
  <2>1. CASE \E table \in Tables : RegisterVars(table)
    <3>1. PICK table \in Tables : RegisterVars(table)
      BY <2>1
    <3>2. /\ \A k \in 1 .. validated : k \in DOMAIN vars /\ k \in DOMAIN vars' /\ vars'[k] = vars[k]
          /\ validated' = validated /\ vars' \in Seq(Entry) /\ vars \in Seq(Entry)
      BY <1>1, <3>1, RegisterKeeps DEF RegisterVars, VarInv, TypeOK
    <3>3. Get(vars[i].name) = vars[i].final
      BY <1>1, FindValidated DEF Resolved
    <3>4. \A k, j \in 1 .. validated : vars[k].name = vars[j].name => k = j
      BY <1>1 DEF VarInv, Resolved, ValidatedOK
    <3> DEFINE First(k) == /\ vars'[k].name = vars'[i].name
                           /\ \A j \in DOMAIN vars' : vars'[j].name = vars'[i].name => k <= j
    <3>5. validated \in Nat /\ Len(vars') \in Nat /\ DOMAIN vars' = 1 .. Len(vars')
      BY <1>1, <3>2 DEF VarInv, TypeOK
    <3>6. ASSUME NEW j \in DOMAIN vars', vars'[j].name = vars'[i].name PROVE i <= j
      <4>1. CASE j \in 1 .. validated
        BY <3>2, <3>4, <3>6, <4>1
      <4>2. CASE j > validated
        BY <3>5, <4>2
      <4> QED BY <3>5, <4>1, <4>2
    <3>7. First(i)
      BY <3>6
    <3>8. ASSUME NEW k \in DOMAIN vars', First(k) PROVE k = i
      BY <3>2, <3>5, <3>6, <3>8
    <3>9. (CHOOSE k \in DOMAIN vars' : First(k)) = i
      BY <3>2, <3>7, <3>8
    <3> QED BY <3>2, <3>3, <3>9 DEF Get, Find
  <2>2. CASE Proceed
    BY <2>2 DEF Proceed, Get, Find
  <2>3. CASE ParseVars \/ RecordVars
    BY <2>3 DEF ParseVars, RecordVars, Started
  <2>4. CASE Terminated
    BY <2>4 DEF Terminated
  <2> QED BY <1>1, <2>1, <2>2, <2>3, <2>4 DEF Next
<1> QED BY <1>1, VarInvariant, PTL DEF Spec, ReadsStable

-----------------------------------------------------------------------------
(* Options.  The prover has its own copy of every operator that Options    *)
(* takes from the standard modules.                                        *)

TagPtrs == O!Ptrs(opts.tags) \cup O!Ptrs(parsed.tags)
VarPtrs == O!Ptrs(opts.vars) \cup O!Ptrs(parsed.vars)

Settled == [target : Targets \cup {None}, flags : [O!Flag -> BOOLEAN],
            level : O!Level \cup {O!Unsigned}, lib_path : Paths \cup {None},
            tags : Seq(O!Tag), vars : Seq(O!Var)]

AskedOf(T, V) == [target : Targets \cup {None}, flags : SUBSET O!Flag,
                  level : O!Level \cup {O!Unsigned, None}, lib_path : Paths \cup {None},
                  tags : T, vars : V, count : Nat]

Asked == AskedOf(Seq(Tags) \cup {None}, [Names -> Values \cup {None}])

OptionsTypes ==
  /\ o_pc \in {"options", "include", "apply", "merge", "parsed", "exited"}
  /\ opts \in Settled /\ parsed \in Settled /\ parsed.level \in O!Level
  /\ cli \in Asked
  /\ stack \in Seq(DOMAIN Files)
  /\ o_pc \in {"include", "apply"} => stack # << >>
  /\ next \in Nat
  /\ freed \subseteq 1 .. next /\ twice \subseteq freed
  /\ scenario # None => O!Ptrs(scenario.tags) \cup O!Ptrs(scenario.vars) \subseteq 1 .. next
  /\ TagPtrs \cup VarPtrs \subseteq 1 .. next

Distinct(list) == \A i, j \in DOMAIN list : list[i].ptr = list[j].ptr => i = j

\* Who holds what: no string is both a tag and a variable, and as long as a
\* scenario is put together it shares nothing with the options and holds nothing
\* that was released.
HeapInv ==
  /\ TagPtrs \cap VarPtrs = {}
  /\ Distinct(opts.vars)
  /\ o_pc # "exited" => (O!Ptrs(opts.tags) \cup O!Ptrs(opts.vars)) \cap freed = {}
  /\ o_pc \in {"include", "apply", "merge"} =>
       /\ Distinct(parsed.vars)
       /\ (O!Ptrs(parsed.tags) \cup O!Ptrs(parsed.vars)) \cap freed = {}
       /\ O!Ptrs(parsed.vars) \cap O!Ptrs(opts.vars) = {}
       /\ O!Ptrs(parsed.tags) \cap O!Ptrs(opts.tags) = {}

\* A level that was asked for is one that the scenarios leave alone.
OptionsInv ==
  /\ OptionsTypes
  /\ HeapInv
  /\ CliWins
  /\ cli.level # None => level_set

-----------------------------------------------------------------------------
(* Lists.                                                                  *)

LEMMA OCardinality == ASSUME NEW S PROVE O!Cardinality(S) = Cardinality(S)
  BY DEF O!Cardinality, Cardinality

\* The places of a list are counted from the smallest.
LEMMA NthProperties ==
  ASSUME NEW n \in Nat, NEW S \in SUBSET (1 .. n)
  PROVE  /\ O!Cardinality(S) \in Nat
         /\ \A k \in 1 .. O!Cardinality(S) : O!Nth(S, k) \in S
         /\ \A k, l \in 1 .. O!Cardinality(S) : O!Nth(S, k) = O!Nth(S, l) => k = l
<1> DEFINE Below(i) == {j \in S : j < i}
           c == Cardinality(S)
           rank == [i \in S |-> Cardinality(Below(i)) + 1]
<1>1. IsFiniteSet(1 .. n) /\ S \subseteq Nat
  BY FS_Interval
<1>2. IsFiniteSet(S) /\ c \in Nat
  BY <1>1, FS_Subset, FS_CardinalityType
<1>3. ASSUME NEW i \in S
      PROVE  IsFiniteSet(Below(i)) /\ Cardinality(Below(i)) \in Nat /\ Cardinality(Below(i)) < c
  <2>1. Below(i) \subseteq S /\ i \notin Below(i)
    BY <1>1
  <2>2. /\ IsFiniteSet(Below(i)) /\ Cardinality(Below(i)) <= c
        /\ c = Cardinality(Below(i)) => S = Below(i)
    BY <1>2, <2>1, FS_Subset
  <2>3. Cardinality(Below(i)) \in Nat
    BY <2>2, FS_CardinalityType
  <2> QED BY <1>2, <2>1, <2>2, <2>3
<1>4. rank \in [S -> 1 .. c]
  BY <1>2, <1>3
<1>5. ASSUME NEW i \in S, NEW j \in S, i < j PROVE rank[i] < rank[j]
  <2>0. i \in Nat /\ j \in Nat /\ \A k \in S : k \in Nat
    BY <1>1
  <2>a. ASSUME NEW k \in Below(i) PROVE k \in Below(j)
    BY <1>5, <2>0
  <2>b. i \in Below(j) /\ i \notin Below(i)
    BY <1>5, <2>0
  <2>1. Below(i) \subseteq Below(j) /\ i \in Below(j) /\ i \notin Below(i)
    BY <2>a, <2>b
  <2>2. /\ Cardinality(Below(i)) <= Cardinality(Below(j))
        /\ Cardinality(Below(j)) = Cardinality(Below(i)) => Below(j) = Below(i)
    BY <1>3, <2>1, FS_Subset
  <2>3. Cardinality(Below(i)) \in Nat /\ Cardinality(Below(j)) \in Nat
    BY <1>3
  <2>4. Cardinality(Below(i)) < Cardinality(Below(j))
    BY <2>1, <2>2, <2>3
  <2> QED BY <2>3, <2>4
<1>6. ASSUME NEW i \in S, NEW j \in S, rank[i] = rank[j] PROVE i = j
  <2>1. rank[i] \in Nat /\ i \in Nat /\ j \in Nat
    BY <1>1, <1>2, <1>4
  <2> QED BY <1>5, <1>6, <2>1
<1>7. rank \in Injection(S, 1 .. c)
  BY <1>4, <1>6 DEF Injection, IsInjective
<1>8. IsFiniteSet(1 .. c) /\ Cardinality(1 .. c) = c
  BY <1>2, FS_Interval
<1>9. rank \in Surjection(S, 1 .. c)
  <2> HIDE DEF rank
  <2> QED BY <1>7, <1>8, FS_Injection
<1>10. ASSUME NEW k \in 1 .. c
       PROVE  O!Nth(S, k) \in S /\ Cardinality(Below(O!Nth(S, k))) = k - 1
  <2>1. PICK i \in S : rank[i] = k
    BY <1>9 DEF Surjection
  <2>2. Cardinality(Below(i)) \in Nat
    BY <1>3
  <2>3. Cardinality(Below(i)) = k - 1
    BY <2>1, <2>2
  <2>4. O!Nth(S, k) = CHOOSE j \in S : Cardinality(Below(j)) = k - 1
    BY OCardinality DEF O!Nth
  <2> QED BY <2>3, <2>4
<1>11. ASSUME NEW k \in 1 .. c, NEW l \in 1 .. c, O!Nth(S, k) = O!Nth(S, l) PROVE k = l
  <2>1. k - 1 = l - 1
    BY <1>10, <1>11
  <2> QED BY <1>2, <2>1
<1> QED BY <1>2, <1>10, <1>11, OCardinality

\* The entries in some places of a list are entries of the list, each place once.
LEMMA OnlyProperties ==
  ASSUME NEW X, NEW list \in Seq(X), NEW S \in SUBSET DOMAIN list
  PROVE  /\ O!Only(list, S) \in Seq(X)
         /\ O!Ptrs(O!Only(list, S)) \subseteq O!Ptrs(list)
         /\ Distinct(list) => Distinct(O!Only(list, S))
         /\ \A k \in DOMAIN O!Only(list, S) :
              O!Nth(S, k) \in S /\ O!Only(list, S)[k] = list[O!Nth(S, k)]
         /\ \A k, l \in DOMAIN O!Only(list, S) : O!Nth(S, k) = O!Nth(S, l) => k = l
<1> DEFINE c == O!Cardinality(S)
           only == O!Only(list, S)
<1>1. Len(list) \in Nat /\ DOMAIN list = 1 .. Len(list) /\ S \in SUBSET (1 .. Len(list))
  OBVIOUS
<1>2. /\ c \in Nat
      /\ \A k \in 1 .. c : O!Nth(S, k) \in S
      /\ \A k, l \in 1 .. c : O!Nth(S, k) = O!Nth(S, l) => k = l
  <2> HIDE DEF c
  <2> QED BY <1>1, NthProperties DEF c
<1>3. only = [k \in 1 .. c |-> list[O!Nth(S, k)]]
  BY DEF O!Only
<1> HIDE DEF c, only
<1>4. DOMAIN only = 1 .. c /\ \A k \in 1 .. c : only[k] = list[O!Nth(S, k)] /\ only[k] \in X
  BY <1>1, <1>2, <1>3
<1>5. only \in Seq(X)
  <2>1. only \in [1 .. c -> X]
    BY <1>3, <1>4
  <2> QED BY <1>2, <2>1
<1>6. O!Ptrs(only) \subseteq O!Ptrs(list)
  BY <1>2, <1>4 DEF O!Ptrs
<1>7. ASSUME Distinct(list) PROVE Distinct(only)
  BY <1>2, <1>4, <1>7 DEF Distinct
<1> QED BY <1>2, <1>4, <1>5, <1>6, <1>7 DEF only

LEMMA ConcatProperties2 ==
  ASSUME NEW X, NEW a \in Seq(X), NEW b \in Seq(X)
  PROVE  /\ a \o b \in Seq(X)
         /\ O!Ptrs(a \o b) = O!Ptrs(a) \cup O!Ptrs(b)
         /\ Distinct(a) /\ Distinct(b) /\ O!Ptrs(a) \cap O!Ptrs(b) = {} => Distinct(a \o b)
<1> DEFINE ab == a \o b
<1>1. /\ ab \in Seq(X) /\ Len(ab) = Len(a) + Len(b) /\ Len(a) \in Nat /\ Len(b) \in Nat
      /\ DOMAIN a = 1 .. Len(a) /\ DOMAIN b = 1 .. Len(b) /\ DOMAIN ab = 1 .. (Len(a) + Len(b))
      /\ \A i \in 1 .. Len(a) : ab[i] = a[i]
      /\ \A i \in 1 .. Len(b) : ab[Len(a) + i] = b[i]
  BY ConcatProperties
<1> HIDE DEF ab
<1>2. ASSUME NEW i \in DOMAIN ab
      PROVE  \/ i \in DOMAIN a /\ ab[i] = a[i]
             \/ i - Len(a) \in DOMAIN b /\ ab[i] = b[i - Len(a)]
  <2>1. CASE i <= Len(a)
    BY <1>1, <2>1
  <2>2. CASE i > Len(a)
    <3>1. i - Len(a) \in 1 .. Len(b) /\ Len(a) + (i - Len(a)) = i
      BY <1>1, <2>2
    <3> QED BY <1>1, <3>1
  <2> QED BY <1>1, <2>1, <2>2
<1>3. O!Ptrs(ab) = O!Ptrs(a) \cup O!Ptrs(b)
  <2>1. O!Ptrs(ab) \subseteq O!Ptrs(a) \cup O!Ptrs(b)
    BY <1>2 DEF O!Ptrs
  <2>2. O!Ptrs(a) \subseteq O!Ptrs(ab)
    BY <1>1 DEF O!Ptrs
  <2>3. ASSUME NEW i \in DOMAIN b PROVE Len(a) + i \in DOMAIN ab /\ ab[Len(a) + i] = b[i]
    BY <1>1
  <2>4. O!Ptrs(b) \subseteq O!Ptrs(ab)
    BY <2>3 DEF O!Ptrs
  <2> QED BY <2>1, <2>2, <2>4
<1>4. ASSUME Distinct(a), Distinct(b), O!Ptrs(a) \cap O!Ptrs(b) = {} PROVE Distinct(ab)
  <2>1. SUFFICES ASSUME NEW i \in DOMAIN ab, NEW j \in DOMAIN ab, ab[i].ptr = ab[j].ptr
                 PROVE  i = j
    BY DEF Distinct
  <2>2. \A k \in DOMAIN a, l \in DOMAIN b : a[k].ptr # b[l].ptr
    BY <1>4 DEF O!Ptrs
  <2>3. CASE i \in DOMAIN a /\ ab[i] = a[i]
    BY <1>2, <1>4, <2>1, <2>2, <2>3 DEF Distinct
  <2>4. CASE i - Len(a) \in DOMAIN b /\ ab[i] = b[i - Len(a)]
    <3>1. j - Len(a) \in DOMAIN b /\ ab[j] = b[j - Len(a)]
      BY <1>2, <2>1, <2>2, <2>4
    <3>2. i - Len(a) = j - Len(a)
      BY <1>4, <2>1, <2>4, <3>1 DEF Distinct
    <3> QED BY <1>1, <3>2
  <2> QED BY <1>2, <2>3, <2>4
<1> QED BY <1>1, <1>3, <1>4 DEF ab

LEMMA PtrsOfThree ==
  ASSUME NEW X, NEW a \in Seq(X), NEW b \in Seq(X), NEW c \in Seq(X)
  PROVE  O!Ptrs(a \o b \o c) = O!Ptrs(a) \cup O!Ptrs(b) \cup O!Ptrs(c)
<1> DEFINE ab == a \o b
<1>1. ab \in Seq(X) /\ O!Ptrs(ab) = O!Ptrs(a) \cup O!Ptrs(b)
  BY ConcatProperties2
<1> HIDE DEF ab
<1>2. O!Ptrs(ab \o c) = O!Ptrs(ab) \cup O!Ptrs(c)
  BY <1>1, ConcatProperties2
<1> QED BY <1>1, <1>2 DEF ab

\* Four groups of pointers, one after the other.
LEMMA NextPointers ==
  ASSUME NEW n \in Nat, NEW a \in Nat, NEW b \in Nat, NEW c \in Nat, NEW d \in Nat
  PROVE  LET A == (n + 1 .. n + a) \cup (n + a + 1 .. n + a + b)
             C == (n + a + b + 1 .. n + a + b + c) \cup (n + a + b + c + 1 .. n + a + b + c + d)
             last == n + a + b + c + d
         IN  /\ last \in Nat /\ 1 .. n \subseteq 1 .. last /\ A \cup C \subseteq 1 .. last
             /\ (A \cup C) \cap (1 .. n) = {} /\ A \cap C = {}
  OBVIOUS

\* What is duplicated gets the next pointers.
LEMMA NewTagsProperties ==
  ASSUME NEW tags \in Seq(Tags), NEW from \in Nat
  PROVE  /\ O!NewTags(tags, from) \in Seq(O!Tag)
         /\ Len(O!NewTags(tags, from)) = Len(tags)
         /\ O!Ptrs(O!NewTags(tags, from)) = from + 1 .. from + Len(tags)
<1> DEFINE new == O!NewTags(tags, from)
           n == Len(tags)
<1>1. n \in Nat /\ new = [i \in 1 .. n |-> [text |-> tags[i], ptr |-> from + i]]
  BY DEF O!NewTags
<1> HIDE DEF new, n
<1>2. ASSUME NEW i \in 1 .. n PROVE new[i] \in O!Tag /\ new[i].ptr = from + i
  BY <1>1, <1>2 DEF O!Tag, n
<1>3. new \in Seq(O!Tag) /\ DOMAIN new = 1 .. n
  <2>1. new \in [1 .. n -> O!Tag]
    BY <1>1, <1>2
  <2> QED BY <1>1, <2>1
<1>4. O!Ptrs(new) \subseteq from + 1 .. from + n
  BY <1>1, <1>2, <1>3 DEF O!Ptrs
<1>5. ASSUME NEW p \in from + 1 .. from + n PROVE p \in O!Ptrs(new)
  <2>1. p - from \in 1 .. n /\ from + (p - from) = p
    BY <1>1
  <2>2. p - from \in DOMAIN new /\ new[p - from].ptr = p
    BY <1>2, <1>3, <2>1
  <2> QED BY <2>2 DEF O!Ptrs
<1>6. Len(new) = n
  BY <1>1, <1>3
<1> QED BY <1>3, <1>4, <1>5, <1>6 DEF new, n

LEMMA NewVarsProperties ==
  ASSUME NEW pairs \in Seq(O!Pair), NEW from \in Nat
  PROVE  /\ O!NewVars(pairs, from) \in Seq(O!Var)
         /\ Len(O!NewVars(pairs, from)) = Len(pairs)
         /\ O!Ptrs(O!NewVars(pairs, from)) = from + 1 .. from + Len(pairs)
         /\ Distinct(O!NewVars(pairs, from))
<1> DEFINE new == O!NewVars(pairs, from)
           n == Len(pairs)
<1>1. /\ n \in Nat
      /\ new = [i \in 1 .. n |-> [key |-> pairs[i].key, value |-> pairs[i].value, ptr |-> from + i]]
  BY DEF O!NewVars
<1>2. ASSUME NEW i \in 1 .. n PROVE pairs[i].key \in Names /\ pairs[i].value \in Values
  <2>1. pairs[i] \in O!Pair
    BY <1>1
  <2> QED BY <2>1 DEF O!Pair
<1> HIDE DEF new, n
<1>3. ASSUME NEW i \in 1 .. n PROVE new[i] \in O!Var /\ new[i].ptr = from + i
  BY <1>1, <1>2 DEF O!Var
<1>4. new \in Seq(O!Var) /\ DOMAIN new = 1 .. n
  <2>1. new \in [1 .. n -> O!Var]
    BY <1>1, <1>3
  <2> QED BY <1>1, <2>1
<1>5. O!Ptrs(new) \subseteq from + 1 .. from + n
  BY <1>1, <1>3, <1>4 DEF O!Ptrs
<1>6. ASSUME NEW p \in from + 1 .. from + n PROVE p \in O!Ptrs(new)
  <2>1. p - from \in 1 .. n /\ from + (p - from) = p
    BY <1>1
  <2>2. p - from \in DOMAIN new /\ new[p - from].ptr = p
    BY <1>3, <1>4, <2>1
  <2> QED BY <2>2 DEF O!Ptrs
<1>7. ASSUME NEW i \in 1 .. n, NEW j \in 1 .. n, new[i].ptr = new[j].ptr PROVE i = j
  BY <1>1, <1>3, <1>7
<1>8. Len(new) = n /\ Distinct(new)
  BY <1>1, <1>4, <1>7 DEF Distinct
<1> QED BY <1>4, <1>5, <1>6, <1>8 DEF new, n

\* What a scenario file makes of a list is part of the list, what it appends
\* and what it declares.
LEMMA AppliedProperties ==
  ASSUME NEW X, NEW list \in Seq(X), NEW append \in Seq(X), NEW declared \in Seq(X), NEW remove
  PROVE  LET new == O!Applied(list, append, remove, declared) IN
         /\ new \in Seq(X)
         /\ O!Ptrs(new) \subseteq O!Ptrs(list) \cup O!Ptrs(append) \cup O!Ptrs(declared)
         /\ (/\ Distinct(list) /\ Distinct(append) /\ Distinct(declared)
             /\ O!Ptrs(list) \cap O!Ptrs(append) = {}) => Distinct(new)
<1> DEFINE all == list \o append
           left == O!Left(all, remove)
           new == O!Applied(list, append, remove, declared)
<1>1. /\ all \in Seq(X)
      /\ O!Ptrs(all) = O!Ptrs(list) \cup O!Ptrs(append)
      /\ Distinct(list) /\ Distinct(append) /\ O!Ptrs(list) \cap O!Ptrs(append) = {} => Distinct(all)
  BY ConcatProperties2
<1>2. left \in SUBSET DOMAIN all
  BY DEF O!Left
<1>3. new = IF declared # << >> THEN declared ELSE O!Only(all, left)
  BY DEF O!Applied
<1> HIDE DEF all, left, new
<1>4. /\ O!Only(all, left) \in Seq(X)
      /\ O!Ptrs(O!Only(all, left)) \subseteq O!Ptrs(all)
      /\ Distinct(all) => Distinct(O!Only(all, left))
  BY <1>1, <1>2, OnlyProperties
<1>5. CASE declared # << >>
  BY <1>3, <1>5 DEF new
<1>6. CASE declared = << >>
  BY <1>1, <1>3, <1>4, <1>6 DEF new
<1> QED BY <1>5, <1>6

-----------------------------------------------------------------------------
(* The steps.                                                              *)

Merging == {"include", "apply", "merge"}

LEMMA InitOptionsInv == O!Init => OptionsInv
<1> SUFFICES ASSUME O!Init PROVE OptionsInv
  OBVIOUS
<1>1. PICK target \in Targets \cup {None} :
        /\ opts = [O!Empty EXCEPT !.target = target]
        /\ level_set = FALSE
        /\ cli = [target |-> target, flags |-> {}, level |-> None, lib_path |-> None,
                  tags |-> None, vars |-> [k \in Names |-> None], count |-> 0]
  BY DEF O!Init
<1>2. /\ o_pc = "options" /\ parsed = O!Empty /\ scenario = None /\ stack = << >>
      /\ next = 0 /\ freed = {} /\ twice = {}
  BY DEF O!Init
<1>3. << >> \in Seq(O!Tag) /\ << >> \in Seq(O!Var) /\ << >> \in Seq(DOMAIN Files)
  OBVIOUS
<1>4. O!Empty \in Settled /\ O!Empty.level \in O!Level
  BY <1>3 DEF O!Empty, Settled, O!Info, O!Level
<1>5. opts \in Settled /\ opts.tags = << >> /\ opts.vars = << >>
  BY <1>1, <1>4 DEF O!Empty, Settled
<1>6. parsed.tags = << >> /\ parsed.vars = << >>
  BY <1>2 DEF O!Empty
<1>7. cli \in Asked
  BY <1>1 DEF Asked, AskedOf
<1>8. O!Ptrs(<< >>) = {}
  BY DEF O!Ptrs
<1>9. OptionsTypes
  BY <1>2, <1>3, <1>4, <1>5, <1>6, <1>7, <1>8 DEF OptionsTypes, TagPtrs, VarPtrs
<1>10. HeapInv
  BY <1>2, <1>5, <1>6, <1>8 DEF HeapInv, TagPtrs, VarPtrs, Distinct
<1>11. CliWins
  BY <1>1, <1>5 DEF CliWins, O!CliWins
<1> QED BY <1>1, <1>9, <1>10, <1>11 DEF OptionsInv

\* A step that leaves the strings alone.
LEMMA SameStrings ==
  ASSUME OptionsTypes, HeapInv,
         UNCHANGED <<parsed, scenario, next, freed, twice>>,
         opts'.tags = opts.tags, opts'.vars = opts.vars,
         opts' \in Settled, cli' \in Asked, stack' \in Seq(DOMAIN Files),
         o_pc' \in {"options", "include", "apply", "merge", "parsed", "exited"},
         o_pc' \in {"include", "apply"} => stack' # << >>,
         o_pc' \in Merging => o_pc \in Merging,
         o_pc = "exited" => o_pc' = "exited"
  PROVE  OptionsTypes' /\ HeapInv'
<1>1. OptionsTypes'
  BY DEF OptionsTypes, TagPtrs, VarPtrs
<1>2. HeapInv'
  BY DEF HeapInv, TagPtrs, VarPtrs, Distinct, Merging
<1> QED BY <1>1, <1>2

\* What the command line asked for, after one more option.
LEMMA CountedProperties ==
  ASSUME NEW T, NEW V, NEW c \in AskedOf(T, V)
  PROVE  /\ O!Counted(c) \in AskedOf(T, V)
         /\ O!Counted(c).vars = c.vars /\ O!Counted(c).level = c.level
         /\ O!Counted(c).flags = c.flags /\ O!Counted(c).lib_path = c.lib_path
  BY DEF O!Counted, AskedOf

LEMMA AskedTags ==
  ASSUME cli \in Asked, NEW tags \in Seq(Tags),
         cli' = O!Counted([cli EXCEPT !.tags = tags])
  PROVE  cli' \in Asked /\ cli'.vars = cli.vars /\ cli'.level = cli.level
         /\ cli'.flags = cli.flags /\ cli'.lib_path = cli.lib_path
<1> DEFINE T == Seq(Tags) \cup {None}
           R == AskedOf(T, [Names -> Values \cup {None}])
           mid == [cli EXCEPT !.tags = tags]
<1>1. tags \in T /\ cli \in R
  BY DEF Asked
<1>2. cli' = O!Counted(mid)
  OBVIOUS
<1> HIDE DEF T
<1>3. mid \in R /\ mid.vars = cli.vars /\ mid.level = cli.level
      /\ mid.flags = cli.flags /\ mid.lib_path = cli.lib_path
  BY <1>1 DEF AskedOf
<1> HIDE DEF mid
<1>4. cli' \in R /\ cli'.vars = mid.vars /\ cli'.level = mid.level
      /\ cli'.flags = mid.flags /\ cli'.lib_path = mid.lib_path
  BY <1>2, <1>3, CountedProperties
<1> QED BY <1>3, <1>4 DEF T, Asked

LEMMA AskedVar ==
  ASSUME cli \in Asked, NEW key \in Names, NEW value \in Values,
         cli' = O!Counted([cli EXCEPT !.vars[key] = value])
  PROVE  cli' \in Asked /\ cli'.vars = [cli.vars EXCEPT ![key] = value] /\ cli'.level = cli.level
         /\ cli'.flags = cli.flags /\ cli'.lib_path = cli.lib_path
<1> DEFINE V == [Names -> Values \cup {None}]
           changed == [cli.vars EXCEPT ![key] = value]
           R == AskedOf(Seq(Tags) \cup {None}, V)
           mid == [cli EXCEPT !.vars = changed]
<1>1. changed \in V /\ cli \in R
  <2>1. cli \in R
    BY DEF Asked
  <2>2. cli.vars \in V
    BY <2>1 DEF AskedOf
  <2> QED BY <2>1, <2>2
<1>2. cli' = O!Counted(mid)
  OBVIOUS
<1> HIDE DEF V, changed
<1>3. mid \in R /\ mid.vars = changed /\ mid.level = cli.level
      /\ mid.flags = cli.flags /\ mid.lib_path = cli.lib_path
  BY <1>1 DEF AskedOf
<1> HIDE DEF mid
<1>4. cli' \in R /\ cli'.vars = mid.vars /\ cli'.level = mid.level
      /\ cli'.flags = mid.flags /\ cli'.lib_path = mid.lib_path
  BY <1>2, <1>3, CountedProperties
<1> QED BY <1>3, <1>4 DEF V, changed, Asked

LEMMA SetTagsKeeps ==
  ASSUME OptionsInv, NEW tags \in O!SeqOf(Tags, 2), O!SetTags(tags)
  PROVE  OptionsInv'
<1> DEFINE new == O!NewTags(tags, next)
           n == Len(tags)
           old == O!Ptrs(opts.tags)
<1>1. tags \in Seq(Tags) /\ n \in Nat
  <2>1. PICK m \in 0 .. 2 : tags \in [1 .. m -> Tags]
    BY DEF O!SeqOf
  <2> QED BY <2>1
<1>2. /\ o_pc = "options" /\ UNCHANGED <<level_set, o_pc, parsed, scenario, stack>>
      /\ opts' = [opts EXCEPT !.tags = new] /\ next' = next + n
      /\ freed' = freed \cup old /\ twice' = twice \cup (old \cap freed)
      /\ cli' = O!Counted([cli EXCEPT !.tags = tags])
  BY DEF O!SetTags, O!Option, O!Free
<1>3. OptionsTypes /\ HeapInv /\ CliWins /\ next \in Nat /\ opts \in Settled /\ cli \in Asked
  BY DEF OptionsInv, OptionsTypes
<1>4. new \in Seq(O!Tag) /\ O!Ptrs(new) = next + 1 .. next + n
  BY <1>1, <1>3, NewTagsProperties
<1> HIDE DEF new, n
<1>5. opts' \in Settled /\ opts'.tags = new /\ opts'.vars = opts.vars
      /\ opts'.level = opts.level /\ opts'.flags = opts.flags /\ opts'.lib_path = opts.lib_path
  BY <1>2, <1>3, <1>4 DEF Settled
<1>6. cli' \in Asked /\ cli'.vars = cli.vars /\ cli'.level = cli.level
      /\ cli'.flags = cli.flags /\ cli'.lib_path = cli.lib_path
  BY <1>1, <1>2, <1>3, AskedTags
<1>7. /\ TagPtrs' = (next + 1 .. next + n) \cup O!Ptrs(parsed.tags) /\ VarPtrs' = VarPtrs
      /\ old \subseteq TagPtrs /\ O!Ptrs(parsed.tags) \subseteq TagPtrs
      /\ TagPtrs \cup VarPtrs \subseteq 1 .. next
  BY <1>2, <1>3, <1>4, <1>5 DEF TagPtrs, VarPtrs, OptionsTypes
<1>8. /\ 1 .. next \subseteq 1 .. next'
      /\ next + 1 .. next + n \subseteq 1 .. next'
      /\ (next + 1 .. next + n) \cap (1 .. next) = {}
      /\ next' \in Nat
  BY <1>1, <1>2, <1>3 DEF n
<1>9. OptionsTypes'
  BY <1>2, <1>3, <1>5, <1>6, <1>7, <1>8 DEF OptionsTypes
<1>10. O!Ptrs(opts.vars) \subseteq VarPtrs /\ freed \subseteq 1 .. next /\ old \cap VarPtrs = {}
  BY <1>3, <1>7 DEF VarPtrs, OptionsTypes, HeapInv
<1>11. TagPtrs' \cap VarPtrs' = {}
  BY <1>3, <1>7, <1>8 DEF HeapInv
<1>12. (O!Ptrs(opts'.tags) \cup O!Ptrs(opts'.vars)) \cap freed' = {}
  BY <1>2, <1>3, <1>4, <1>5, <1>7, <1>8, <1>10 DEF HeapInv
<1>13. HeapInv'
  BY <1>2, <1>3, <1>5, <1>11, <1>12 DEF HeapInv, Distinct
<1>14. CliWins'
  BY <1>3, <1>5, <1>6 DEF CliWins, O!CliWins
<1> QED BY <1>2, <1>6, <1>9, <1>13, <1>14 DEF OptionsInv

LEMMA SetVarKeeps ==
  ASSUME OptionsInv, NEW key \in Names, NEW value \in Values, O!SetVar(key, value)
  PROVE  OptionsInv'
<1> DEFINE new == [key |-> key, value |-> value, ptr |-> next + 1]
           old == {i \in DOMAIN opts.vars : opts.vars[i].key = key}
           at  == CHOOSE i \in old : \A j \in old : i <= j
           now == opts'.vars
<1>1. OptionsTypes /\ HeapInv /\ CliWins /\ next \in Nat /\ opts \in Settled /\ cli \in Asked
  BY DEF OptionsInv, OptionsTypes
<1>2. /\ o_pc = "options" /\ UNCHANGED <<level_set, o_pc, parsed, scenario, stack>>
      /\ next' = next + 1
      /\ cli' = O!Counted([cli EXCEPT !.vars[key] = value])
      /\ old = {} => opts' = [opts EXCEPT !.vars = Append(@, new)] /\ UNCHANGED <<freed, twice>>
      /\ old # {} => /\ opts' = [opts EXCEPT !.vars[at] = new]
                     /\ freed' = freed \cup {opts.vars[at].ptr}
                     /\ twice' = twice \cup ({opts.vars[at].ptr} \cap freed)
  BY DEF O!SetVar, O!Option, O!Free
<1>3. new \in O!Var /\ opts.vars \in Seq(O!Var) /\ Len(opts.vars) \in Nat
      /\ DOMAIN opts.vars = 1 .. Len(opts.vars)
  BY <1>1 DEF Settled, O!Var
<1>4. new.key = key /\ new.value = value /\ new.ptr = next + 1
  OBVIOUS
<1>5. \A i, j \in DOMAIN opts.vars : opts.vars[i].key = opts.vars[j].key => i = j
  BY <1>1 DEF CliWins, O!CliWins
<1>6. ASSUME old # {} PROVE at \in old /\ \A i \in old : i = at
  <2>1. PICK i \in old : TRUE
    BY <1>6
  <2>2. \A j \in old : j = i
    BY <1>5
  <2>3. i <= i
    BY <1>3
  <2> QED BY <2>1, <2>2, <2>3
<1> HIDE DEF new, at
<1>7. cli' \in Asked /\ cli'.vars = [cli.vars EXCEPT ![key] = value] /\ cli'.level = cli.level
      /\ cli'.flags = cli.flags /\ cli'.lib_path = cli.lib_path
  BY <1>1, <1>2, AskedVar
<1>8. /\ opts' \in Settled /\ opts'.tags = opts.tags
      /\ opts'.level = opts.level /\ opts'.flags = opts.flags /\ opts'.lib_path = opts.lib_path
      /\ old = {} => now = Append(opts.vars, new)
      /\ old # {} => now = [opts.vars EXCEPT ![at] = new]
  <2>1. CASE old = {}
    <3>1. Append(opts.vars, new) \in Seq(O!Var)
      BY <1>3
    <3>2. opts' = [opts EXCEPT !.vars = Append(opts.vars, new)]
      BY <1>2, <2>1
    <3> HIDE DEF old
    <3> QED BY <1>1, <2>1, <3>1, <3>2 DEF Settled
  <2>2. CASE old # {}
    <3> DEFINE changed == [opts.vars EXCEPT ![at] = new]
    <3>1. changed \in Seq(O!Var)
      BY <1>3, <1>6, <2>2
    <3>2. opts' = [opts EXCEPT !.vars = changed]
      BY <1>2, <2>2
    <3> HIDE DEF old, changed
    <3>3. opts' \in Settled /\ opts'.tags = opts.tags /\ opts'.level = opts.level
          /\ opts'.flags = opts.flags /\ opts'.lib_path = opts.lib_path /\ opts'.vars = changed
      BY <1>1, <3>1, <3>2 DEF Settled
    <3> QED BY <2>2, <3>3 DEF changed
  <2> QED BY <2>1, <2>2
\* What the list looks like in both cases, with the place of the new pair.
<1> DEFINE place == IF old = {} THEN Len(opts.vars) + 1 ELSE at
<1>9. /\ place \in DOMAIN now /\ now[place] = new
      /\ \A i \in DOMAIN now : i # place => /\ i \in DOMAIN opts.vars /\ now[i] = opts.vars[i]
                                            /\ i \notin old
      /\ \A i \in DOMAIN opts.vars : i \notin old => i \in DOMAIN now /\ i # place
  <2>1. CASE old = {}
    <3>1. now = Append(opts.vars, new) /\ place = Len(opts.vars) + 1
      BY <1>8, <2>1
    <3>2. DOMAIN now = 1 .. Len(opts.vars) + 1
      BY <1>3, <3>1
    <3> QED BY <1>3, <2>1, <3>1, <3>2
  <2>2. CASE old # {}
    BY <1>3, <1>6, <1>8, <2>2
  <2> QED BY <2>1, <2>2
<1> HIDE DEF place, now
<1>10. ASSUME NEW i \in DOMAIN now, NEW j \in DOMAIN now, now[i].key = now[j].key PROVE i = j
  BY <1>4, <1>5, <1>9, <1>10
<1>11. ASSUME NEW k \in Names, cli'.vars[k] # None
       PROVE  \E i \in DOMAIN now : now[i].key = k /\ now[i].value = cli'.vars[k]
  <2>1. CASE k = key
    <3>1. cli'.vars[k] = value
      BY <1>1, <1>7, <2>1 DEF Asked, AskedOf
    <3> QED BY <1>4, <1>9, <2>1, <3>1
  <2>2. CASE k # key
    <3>1. cli'.vars[k] = cli.vars[k]
      BY <1>1, <1>7, <2>2 DEF Asked, AskedOf
    <3>2. PICK i \in DOMAIN opts.vars : opts.vars[i].key = k /\ opts.vars[i].value = cli.vars[k]
      BY <1>1, <1>11, <3>1 DEF CliWins, O!CliWins
    <3> QED BY <1>9, <2>2, <3>1, <3>2
  <2> QED BY <2>1, <2>2
<1>12. CliWins'
  BY <1>1, <1>7, <1>8, <1>10, <1>11 DEF CliWins, O!CliWins, now
<1>13. /\ O!Ptrs(now) \subseteq O!Ptrs(opts.vars) \cup {next + 1}
       /\ TagPtrs' = TagPtrs /\ VarPtrs' \subseteq VarPtrs \cup {next + 1}
  <2>1. O!Ptrs(now) \subseteq O!Ptrs(opts.vars) \cup {next + 1}
    BY <1>4, <1>9 DEF O!Ptrs
  <2> QED BY <1>2, <1>8, <2>1 DEF TagPtrs, VarPtrs, now
<1>14. /\ 1 .. next \subseteq 1 .. next' /\ next + 1 \in 1 .. next' /\ next + 1 \notin 1 .. next
       /\ next' \in Nat
  BY <1>1, <1>2
<1>15. TagPtrs \cup VarPtrs \subseteq 1 .. next /\ freed \subseteq 1 .. next
  BY <1>1 DEF OptionsTypes
<1>16. old # {} => opts.vars[at].ptr \in VarPtrs /\ opts.vars[at].ptr \in O!Ptrs(opts.vars)
  BY <1>6 DEF VarPtrs, O!Ptrs
<1>17. OptionsTypes'
  <2>1. freed' \subseteq 1 .. next' /\ twice' \subseteq freed'
    BY <1>1, <1>2, <1>14, <1>15, <1>16 DEF OptionsTypes
  <2> QED BY <1>1, <1>2, <1>7, <1>8, <1>13, <1>14, <1>15, <2>1 DEF OptionsTypes
<1>18. Distinct(now)
  <2>1. ASSUME NEW i \in DOMAIN now, i # place PROVE now[i].ptr # next + 1
    BY <1>9, <1>14, <1>15, <2>1 DEF VarPtrs, O!Ptrs
  <2>2. ASSUME NEW i \in DOMAIN now, NEW j \in DOMAIN now, now[i].ptr = now[j].ptr PROVE i = j
    BY <1>1, <1>4, <1>9, <2>1, <2>2 DEF HeapInv, Distinct
  <2> QED BY <2>2 DEF Distinct
<1>19. O!Ptrs(now) \cap freed' = {}
  <2>1. ASSUME NEW i \in DOMAIN now, now[i].ptr \in freed' PROVE FALSE
    <3>1. i # place
      BY <1>2, <1>4, <1>9, <1>14, <1>15, <1>16, <2>1
    <3>2. i \in DOMAIN opts.vars /\ now[i] = opts.vars[i] /\ i \notin old
      BY <1>9, <3>1
    <3>3. opts.vars[i].ptr \notin freed
      BY <1>1, <1>2, <3>2 DEF HeapInv, O!Ptrs
    <3>4. old # {} /\ opts.vars[i].ptr = opts.vars[at].ptr
      BY <1>2, <2>1, <3>2, <3>3
    <3> QED BY <1>1, <1>6, <3>2, <3>4 DEF HeapInv, Distinct
  <2> QED BY <2>1 DEF O!Ptrs
<1>20. O!Ptrs(opts.tags) \cap freed' = {}
  BY <1>1, <1>2, <1>16 DEF HeapInv, TagPtrs
<1>21. HeapInv'
  <2>1. TagPtrs' \cap VarPtrs' = {}
    BY <1>1, <1>13, <1>14, <1>15 DEF HeapInv
  <2>2. Distinct(opts.vars)'
    BY <1>18 DEF now, Distinct
  <2>3. ((O!Ptrs(opts.tags) \cup O!Ptrs(opts.vars)) \cap freed)' = {}
    BY <1>8, <1>19, <1>20 DEF now
  <2> QED BY <1>2, <2>1, <2>2, <2>3 DEF HeapInv
<1> QED BY <1>2, <1>7, <1>12, <1>17, <1>21 DEF OptionsInv

\* The level, a flag or the library path.
LEMMA PlainOptionKeeps ==
  ASSUME OptionsInv,
         \/ \E level \in O!Level \cup {O!Unsigned} : O!SetLevel(level)
         \/ \E flag \in O!Flag : O!SetFlag(flag)
         \/ \E path \in Paths : O!SetLibPath(path)
  PROVE  OptionsInv'
<1>1. /\ OptionsTypes /\ HeapInv /\ CliWins /\ opts \in Settled
      /\ cli \in AskedOf(Seq(Tags) \cup {None}, [Names -> Values \cup {None}])
      /\ stack \in Seq(DOMAIN Files)
  BY DEF OptionsInv, OptionsTypes, Asked
<1>2. ASSUME NEW c \in AskedOf(Seq(Tags) \cup {None}, [Names -> Values \cup {None}]),
             cli' = O!Counted(c)
      PROVE  /\ cli' \in Asked /\ cli'.vars = c.vars /\ cli'.level = c.level
             /\ cli'.flags = c.flags /\ cli'.lib_path = c.lib_path
  BY <1>2, CountedProperties DEF Asked
<1>3. CASE \E level \in O!Level \cup {O!Unsigned} : O!SetLevel(level)
  <2>1. PICK level \in O!Level \cup {O!Unsigned} : O!SetLevel(level)
    BY <1>3
  <2> DEFINE c == [cli EXCEPT !.level = level]
  <2>2. /\ o_pc = "options" /\ UNCHANGED <<o_pc, parsed, scenario, stack, next, freed, twice>>
        /\ opts' = [opts EXCEPT !.level = level] /\ level_set' = TRUE /\ cli' = O!Counted(c)
    BY <2>1 DEF O!SetLevel, O!Option, O!heap
  <2>3. /\ c \in AskedOf(Seq(Tags) \cup {None}, [Names -> Values \cup {None}])
        /\ c.vars = cli.vars /\ c.level = level /\ c.flags = cli.flags /\ c.lib_path = cli.lib_path
    BY <1>1 DEF AskedOf
  <2> HIDE DEF c
  <2>4. /\ cli' \in Asked /\ cli'.vars = cli.vars /\ cli'.level = level
        /\ cli'.flags = cli.flags /\ cli'.lib_path = cli.lib_path
    BY <1>2, <2>2, <2>3
  <2>5. /\ opts' \in Settled /\ opts'.tags = opts.tags /\ opts'.vars = opts.vars
        /\ opts'.level = level /\ opts'.flags = opts.flags /\ opts'.lib_path = opts.lib_path
    BY <1>1, <2>2 DEF Settled
  <2>6. OptionsTypes' /\ HeapInv'
    BY <1>1, <2>2, <2>4, <2>5, SameStrings DEF Merging
  <2>7. CliWins'
    BY <1>1, <2>4, <2>5 DEF CliWins, O!CliWins
  <2> QED BY <2>2, <2>6, <2>7 DEF OptionsInv
<1>4. CASE \E flag \in O!Flag : O!SetFlag(flag)
  <2>1. PICK flag \in O!Flag : O!SetFlag(flag)
    BY <1>4
  <2> DEFINE c == [cli EXCEPT !.flags = @ \cup {flag}]
             flags == [opts.flags EXCEPT ![flag] = TRUE]
  <2>2. /\ o_pc = "options"
        /\ UNCHANGED <<level_set, o_pc, parsed, scenario, stack, next, freed, twice>>
        /\ opts' = [opts EXCEPT !.flags = flags] /\ cli' = O!Counted(c)
    BY <2>1 DEF O!SetFlag, O!Option, O!heap
  <2>3. /\ c \in AskedOf(Seq(Tags) \cup {None}, [Names -> Values \cup {None}])
        /\ c.vars = cli.vars /\ c.level = cli.level /\ c.flags = cli.flags \cup {flag}
        /\ c.lib_path = cli.lib_path
    BY <1>1 DEF AskedOf
  <2> HIDE DEF c
  <2>4. /\ cli' \in Asked /\ cli'.vars = cli.vars /\ cli'.level = cli.level
        /\ cli'.flags = cli.flags \cup {flag} /\ cli'.lib_path = cli.lib_path
    BY <1>2, <2>2, <2>3
  <2>5. opts.flags \in [O!Flag -> BOOLEAN] /\ cli.flags \subseteq O!Flag
    BY <1>1 DEF Settled, AskedOf
  <2>6. /\ flags \in [O!Flag -> BOOLEAN] /\ flags[flag] = TRUE
        /\ \A f \in O!Flag : f # flag => flags[f] = opts.flags[f]
    BY <2>5
  <2> HIDE DEF flags
  <2>7. /\ opts' \in Settled /\ opts'.tags = opts.tags /\ opts'.vars = opts.vars
        /\ opts'.level = opts.level /\ opts'.flags = flags /\ opts'.lib_path = opts.lib_path
    BY <1>1, <2>2, <2>6 DEF Settled
  <2>8. OptionsTypes' /\ HeapInv'
    BY <1>1, <2>2, <2>4, <2>7, SameStrings DEF Merging
  <2>9. \A f \in cli'.flags : opts'.flags[f]
    BY <1>1, <2>4, <2>5, <2>6, <2>7 DEF CliWins, O!CliWins
  <2>10. CliWins'
    BY <1>1, <2>4, <2>7, <2>9 DEF CliWins, O!CliWins
  <2> QED BY <2>2, <2>4, <2>8, <2>10 DEF OptionsInv
<1>5. CASE \E path \in Paths : O!SetLibPath(path)
  <2>1. PICK path \in Paths : O!SetLibPath(path)
    BY <1>5
  <2> DEFINE c == [cli EXCEPT !.lib_path = path]
  <2>2. /\ o_pc = "options"
        /\ UNCHANGED <<level_set, o_pc, parsed, scenario, stack, next, freed, twice>>
        /\ opts' = [opts EXCEPT !.lib_path = path] /\ cli' = O!Counted(c)
    BY <2>1 DEF O!SetLibPath, O!Option, O!heap
  <2>3. /\ c \in AskedOf(Seq(Tags) \cup {None}, [Names -> Values \cup {None}])
        /\ c.vars = cli.vars /\ c.level = cli.level /\ c.flags = cli.flags /\ c.lib_path = path
    BY <1>1 DEF AskedOf
  <2> HIDE DEF c
  <2>4. /\ cli' \in Asked /\ cli'.vars = cli.vars /\ cli'.level = cli.level
        /\ cli'.flags = cli.flags /\ cli'.lib_path = path
    BY <1>2, <2>2, <2>3
  <2>5. /\ opts' \in Settled /\ opts'.tags = opts.tags /\ opts'.vars = opts.vars
        /\ opts'.level = opts.level /\ opts'.flags = opts.flags /\ opts'.lib_path = path
    BY <1>1, <2>2 DEF Settled
  <2>6. OptionsTypes' /\ HeapInv'
    BY <1>1, <2>2, <2>4, <2>5, SameStrings DEF Merging
  <2>7. CliWins'
    BY <1>1, <2>4, <2>5 DEF CliWins, O!CliWins
  <2> QED BY <2>2, <2>4, <2>6, <2>7 DEF OptionsInv
<1> QED BY <1>3, <1>4, <1>5

LEMMA SetScenarioKeeps ==
  ASSUME OptionsInv, NEW file \in DOMAIN Files, O!SetScenario(file)
  PROVE  OptionsInv'
<1>1. /\ OptionsTypes /\ HeapInv /\ CliWins
      /\ cli \in AskedOf(Seq(Tags) \cup {None}, [Names -> Values \cup {None}])
  BY DEF OptionsInv, OptionsTypes, Asked
<1>2. /\ o_pc = "options" /\ o_pc' = "include" /\ parsed' = O!Empty /\ stack' = <<file>>
      /\ cli' = O!Counted(cli)
      /\ UNCHANGED <<level_set, opts, scenario, next, freed, twice>>
  BY DEF O!SetScenario, O!Option, O!heap
<1>3. /\ cli' \in Asked /\ cli'.vars = cli.vars /\ cli'.level = cli.level
      /\ cli'.flags = cli.flags /\ cli'.lib_path = cli.lib_path
  BY <1>1, <1>2, CountedProperties DEF Asked
<1>4. << >> \in Seq(O!Tag) /\ << >> \in Seq(O!Var)
  OBVIOUS
<1>5. /\ parsed' \in Settled /\ parsed'.level \in O!Level
      /\ parsed'.tags = << >> /\ parsed'.vars = << >>
  BY <1>2, <1>4 DEF O!Empty, Settled, O!Info, O!Level
<1>6. O!Ptrs(<< >>) = {}
  BY DEF O!Ptrs
<1>7. stack' \in Seq(DOMAIN Files) /\ stack' # << >>
  BY <1>2
<1>8. /\ TagPtrs' = O!Ptrs(opts.tags) /\ VarPtrs' = O!Ptrs(opts.vars)
      /\ O!Ptrs(opts.tags) \subseteq TagPtrs /\ O!Ptrs(opts.vars) \subseteq VarPtrs
  BY <1>2, <1>5, <1>6 DEF TagPtrs, VarPtrs
<1>9. OptionsTypes'
  BY <1>1, <1>2, <1>3, <1>5, <1>7, <1>8 DEF OptionsTypes
<1>10. HeapInv'
  <2>1. (TagPtrs \cap VarPtrs)' = {}
    BY <1>1, <1>8 DEF HeapInv
  <2>2. Distinct(<< >>)
    BY DEF Distinct
  <2> QED BY <1>1, <1>2, <1>5, <1>6, <2>1, <2>2 DEF HeapInv, Distinct
<1>11. CliWins'
  BY <1>1, <1>2, <1>3 DEF CliWins, O!CliWins
<1> QED BY <1>2, <1>3, <1>9, <1>10, <1>11 DEF OptionsInv

\* The file on top of the stack, and what is below it.
LEMMA TopFile ==
  ASSUME stack \in Seq(DOMAIN Files), stack # << >>
  PROVE  /\ O!Last(stack) \in DOMAIN Files
         /\ Files[O!Last(stack)] \in O!File
         /\ O!Front(stack) \in Seq(DOMAIN Files)
         /\ Len(stack) # 1 => O!Front(stack) # << >>
<1>1. Len(stack) \in Nat \ {0}
  OBVIOUS
<1>2. O!Last(stack) = stack[Len(stack)] /\ Len(stack) \in 1 .. Len(stack)
  BY <1>1 DEF O!Last
<1>3. O!Front(stack) = SubSeq(stack, 1, Len(stack) - 1)
  BY DEF O!Front
<1>4. /\ SubSeq(stack, 1, Len(stack) - 1) \in Seq(DOMAIN Files)
      /\ Len(SubSeq(stack, 1, Len(stack) - 1)) =
           IF 1 <= Len(stack) - 1 THEN Len(stack) - 1 - 1 + 1 ELSE 0
  <2>1. /\ \A i \in 1 .. Len(stack) - 1 : stack[i] \in DOMAIN Files
        /\ 1 \in Int /\ Len(stack) - 1 \in Int
    BY <1>1
  <2> QED BY <2>1, SubSeqProperties
<1>5. Files[O!Last(stack)] \in O!File
  BY <1>2, OptionsAssumption DEF O!ConstantsOK
<1>6. ASSUME Len(stack) # 1 PROVE SubSeq(stack, 1, Len(stack) - 1) # << >>
  <2> DEFINE front == SubSeq(stack, 1, Len(stack) - 1)
             n == Len(stack)
  <2>1. front \in Seq(DOMAIN Files) /\ Len(front) = IF 1 <= n - 1 THEN n - 1 - 1 + 1 ELSE 0
    BY <1>4
  <2>2. n \in Nat \ {0} /\ n # 1
    BY <1>1, <1>6
  <2> HIDE DEF front, n
  <2>3. Len(front) # 0
    BY <2>1, <2>2
  <2>4. front # << >>
    BY <2>3
  <2> QED BY <2>4 DEF front
<1> QED BY <1>2, <1>3, <1>4, <1>5, <1>6

LEMMA IncludeKeeps ==
  ASSUME OptionsInv, O!Include
  PROVE  OptionsInv'
<1> DEFINE file == Files[O!Last(stack)]
<1>1. /\ OptionsTypes /\ HeapInv /\ CliWins /\ opts \in Settled /\ cli \in Asked
      /\ stack \in Seq(DOMAIN Files)
  BY DEF OptionsInv, OptionsTypes
<1>2. /\ o_pc = "include"
      /\ UNCHANGED <<level_set, opts, parsed, scenario, next, freed, twice, cli>>
      /\ \/ o_pc' = "apply" /\ stack' = stack
         \/ file.include # None /\ stack' = Append(stack, file.include) /\ o_pc' = o_pc
  BY DEF O!Include, O!heap
<1>3. stack # << >>
  BY <1>1, <1>2 DEF OptionsTypes
<1>4. file \in O!File
  BY <1>1, <1>3, TopFile
<1>5. file.include # None => file.include \in DOMAIN Files
  BY <1>4 DEF O!File
<1> HIDE DEF file
<1>6. stack' \in Seq(DOMAIN Files) /\ stack' # << >>
  BY <1>1, <1>2, <1>3, <1>5
<1>7. opts' \in Settled /\ cli' \in Asked /\ opts'.tags = opts.tags /\ opts'.vars = opts.vars
  BY <1>1, <1>2
<1>8. OptionsTypes' /\ HeapInv'
  BY <1>1, <1>2, <1>6, <1>7, SameStrings DEF Merging
<1>9. CliWins'
  BY <1>1, <1>2 DEF CliWins, O!CliWins
<1> QED BY <1>2, <1>8, <1>9 DEF OptionsInv

\* The end of the command line, a bad option or scenario, or no step at all.
LEMMA QuietKeeps ==
  ASSUME OptionsInv,
         UNCHANGED <<level_set, opts, parsed, scenario, stack, next, freed, twice, cli>>,
         \/ o_pc' = o_pc
         \/ o_pc' = "exited"
         \/ o_pc = "options" /\ o_pc' = "parsed"
  PROVE  OptionsInv'
<1>1. /\ OptionsTypes /\ HeapInv /\ CliWins /\ opts \in Settled /\ cli \in Asked
      /\ stack \in Seq(DOMAIN Files)
      /\ o_pc \in {"options", "include", "apply", "merge", "parsed", "exited"}
      /\ o_pc \in {"include", "apply"} => stack # << >>
  BY DEF OptionsInv, OptionsTypes
<1>2. opts' \in Settled /\ cli' \in Asked /\ opts'.tags = opts.tags /\ opts'.vars = opts.vars
      /\ stack' \in Seq(DOMAIN Files)
  BY <1>1
<1>3. /\ o_pc' \in {"options", "include", "apply", "merge", "parsed", "exited"}
      /\ o_pc' \in {"include", "apply"} => stack' # << >>
      /\ o_pc' \in Merging => o_pc \in Merging
      /\ o_pc = "exited" => o_pc' = "exited"
  BY <1>1 DEF Merging
<1>4. OptionsTypes' /\ HeapInv'
  BY <1>1, <1>2, <1>3, SameStrings
<1>5. CliWins'
  BY <1>1 DEF CliWins, O!CliWins
<1> QED BY <1>4, <1>5 DEF OptionsInv

LEMMA ReleaseKeeps ==
  ASSUME OptionsInv, O!Release
  PROVE  OptionsInv'
<1> DEFINE own == O!Ptrs(opts.tags) \cup O!Ptrs(opts.vars)
           theirs == IF scenario = None THEN {}
                     ELSE O!Ptrs(scenario.tags) \cup O!Ptrs(scenario.vars)
<1>1. OptionsTypes /\ HeapInv /\ CliWins
  BY DEF OptionsInv
<1>2. /\ freed' = freed \cup own \cup theirs
      /\ twice' = twice \cup (own \cap freed) \cup (theirs \cap (freed \cup own))
      /\ o_pc' = "exited"
      /\ UNCHANGED <<level_set, opts, parsed, scenario, stack, next, cli>>
  BY DEF O!Release
<1>3. own \subseteq 1 .. next /\ theirs \subseteq 1 .. next
  BY <1>1 DEF OptionsTypes, TagPtrs, VarPtrs
<1> HIDE DEF own, theirs
<1>4. OptionsTypes'
  BY <1>1, <1>2, <1>3 DEF OptionsTypes, TagPtrs, VarPtrs
<1>5. HeapInv'
  BY <1>1, <1>2 DEF HeapInv, TagPtrs, VarPtrs, Distinct
<1>6. CliWins'
  BY <1>1, <1>2 DEF CliWins, O!CliWins
<1> QED BY <1>2, <1>4, <1>5, <1>6 DEF OptionsInv

\* What the files leave is merged into the options: nothing that was given is
\* touched, and each name that is new gets its first value.
LEMMA MergeKeeps ==
  ASSUME OptionsInv, O!Merge
  PROVE  OptionsInv'
<1> DEFINE taken == O!Taken(opts.vars, parsed.vars)
           known == DOMAIN parsed.vars \ taken
           more == O!Only(parsed.vars, taken)
           merged == opts.vars \o more
           dropped == {parsed.vars[i].ptr : i \in known}
           tags == IF opts.tags = << >> THEN << >> ELSE opts.tags \o parsed.tags
           flags == [flag \in O!Flag |-> opts.flags[flag] \/ parsed.flags[flag]]
           level == IF level_set THEN opts.level ELSE parsed.level
           path == IF opts.lib_path = None THEN parsed.lib_path ELSE opts.lib_path
           target == O!Declared(parsed.target, opts.target)
<1>1. /\ OptionsTypes /\ HeapInv /\ CliWins /\ opts \in Settled /\ parsed \in Settled
      /\ parsed.level \in O!Level /\ cli \in Asked
  BY DEF OptionsInv, OptionsTypes
<1>2. /\ o_pc = "merge" /\ o_pc' = "options"
      /\ UNCHANGED <<level_set, parsed, stack, next, cli>>
      /\ opts' = [target |-> target, flags |-> flags, level |-> level, lib_path |-> path,
                  tags |-> tags, vars |-> merged]
      /\ scenario' = [parsed EXCEPT !.vars = more]
      /\ freed' = freed \cup dropped /\ twice' = twice \cup (dropped \cap freed)
  BY DEF O!Merge, O!Free
<1>3. /\ opts.vars \in Seq(O!Var) /\ parsed.vars \in Seq(O!Var)
      /\ opts.tags \in Seq(O!Tag) /\ parsed.tags \in Seq(O!Tag)
  BY <1>1 DEF Settled
<1>4. taken \in SUBSET DOMAIN parsed.vars
  BY DEF O!Taken
<1>5. /\ more \in Seq(O!Var) /\ O!Ptrs(more) \subseteq O!Ptrs(parsed.vars)
      /\ Distinct(parsed.vars) => Distinct(more)
      /\ \A k \in DOMAIN more :
           O!Nth(taken, k) \in taken /\ more[k] = parsed.vars[O!Nth(taken, k)]
      /\ \A k, l \in DOMAIN more : O!Nth(taken, k) = O!Nth(taken, l) => k = l
  <2> HIDE DEF taken
  <2> QED BY <1>3, <1>4, OnlyProperties
<1>6. /\ Distinct(opts.vars) /\ Distinct(parsed.vars)
      /\ TagPtrs \cap VarPtrs = {}
      /\ (O!Ptrs(opts.tags) \cup O!Ptrs(opts.vars)) \cap freed = {}
      /\ (O!Ptrs(parsed.tags) \cup O!Ptrs(parsed.vars)) \cap freed = {}
      /\ O!Ptrs(parsed.vars) \cap O!Ptrs(opts.vars) = {}
  BY <1>1, <1>2 DEF HeapInv
<1>7. dropped \subseteq O!Ptrs(parsed.vars) /\ dropped \cap O!Ptrs(more) = {}
  <2>1. dropped \subseteq O!Ptrs(parsed.vars)
    BY DEF O!Ptrs
  <2>2. ASSUME NEW i \in known, NEW k \in DOMAIN more, parsed.vars[i].ptr = more[k].ptr PROVE FALSE
    <3> HIDE DEF taken, more
    <3>1. i \in DOMAIN parsed.vars /\ i \notin taken
      OBVIOUS
    <3>2. O!Nth(taken, k) = i
      BY <1>4, <1>5, <1>6, <2>2, <3>1 DEF Distinct
    <3> QED BY <1>5, <3>1, <3>2
  <2> QED BY <2>1, <2>2 DEF O!Ptrs
<1>8. \A i \in taken : /\ \A j \in DOMAIN opts.vars : opts.vars[j].key # parsed.vars[i].key
                       /\ \A j \in taken : parsed.vars[j].key = parsed.vars[i].key => j = i
  <2>1. ASSUME NEW i \in taken, NEW j \in taken, parsed.vars[j].key = parsed.vars[i].key, j < i
        PROVE  FALSE
    <3>1. j \in 1 .. i - 1
      BY <1>3, <1>4, <2>1
    <3> QED BY <2>1, <3>1 DEF O!Taken
  <2>2. ASSUME NEW i \in taken, NEW j \in taken, parsed.vars[j].key = parsed.vars[i].key
        PROVE  j = i
    <3>1. i \in Nat /\ j \in Nat
      BY <1>3, <1>4
    <3>2. ~(j < i) /\ ~(i < j)
      BY <2>1, <2>2
    <3> QED BY <3>1, <3>2
  <2> QED BY <2>2 DEF O!Taken
<1> HIDE DEF taken, known, dropped, more
<1>9. /\ merged \in Seq(O!Var) /\ O!Ptrs(merged) = O!Ptrs(opts.vars) \cup O!Ptrs(more)
      /\ Distinct(merged)
  <2>1. O!Ptrs(opts.vars) \cap O!Ptrs(more) = {} /\ Distinct(more)
    BY <1>5, <1>6
  <2> QED BY <1>3, <1>5, <1>6, <2>1, ConcatProperties2
<1>10. /\ tags \in Seq(O!Tag) /\ O!Ptrs(tags) \subseteq O!Ptrs(opts.tags) \cup O!Ptrs(parsed.tags)
  <2>1. /\ opts.tags \o parsed.tags \in Seq(O!Tag)
        /\ O!Ptrs(opts.tags \o parsed.tags) = O!Ptrs(opts.tags) \cup O!Ptrs(parsed.tags)
    BY <1>3, ConcatProperties2
  <2>2. << >> \in Seq(O!Tag) /\ O!Ptrs(<< >>) = {}
    BY DEF O!Ptrs
  <2> QED BY <2>1, <2>2
<1>11. /\ flags \in [O!Flag -> BOOLEAN] /\ \A f \in O!Flag : opts.flags[f] => flags[f]
  OBVIOUS
<1>12. /\ target \in Targets \cup {None} /\ path \in Paths \cup {None}
       /\ level \in O!Level \cup {O!Unsigned}
  BY <1>1 DEF Settled, O!Declared
\* The first of the merged variables are those of the options.
<1>13. /\ Len(opts.vars) \in Nat /\ Len(more) \in Nat
       /\ DOMAIN opts.vars = 1 .. Len(opts.vars) /\ DOMAIN more = 1 .. Len(more)
       /\ DOMAIN merged = 1 .. Len(opts.vars) + Len(more)
       /\ \A i \in 1 .. Len(opts.vars) : merged[i] = opts.vars[i]
       /\ \A i \in 1 .. Len(more) : merged[Len(opts.vars) + i] = more[i]
  BY <1>3, <1>5, ConcatProperties
<1>14. cli.level # None => level_set
  BY DEF OptionsInv
<1>15. /\ \A i, j \in DOMAIN opts.vars : opts.vars[i].key = opts.vars[j].key => i = j
       /\ \A k \in Names : cli.vars[k] # None =>
            \E i \in DOMAIN opts.vars : opts.vars[i].key = k /\ opts.vars[i].value = cli.vars[k]
       /\ cli.level # None => opts.level = cli.level
       /\ cli.lib_path # None => opts.lib_path = cli.lib_path
       /\ \A flag \in cli.flags : opts.flags[flag]
  BY <1>1 DEF CliWins, O!CliWins
<1> HIDE DEF merged, tags, flags
<1>16. \A k, l \in DOMAIN more : more[k].key = more[l].key => k = l
  BY <1>5, <1>8
<1>17. \A j \in DOMAIN opts.vars, k \in DOMAIN more : opts.vars[j].key # more[k].key
  BY <1>5, <1>8
<1>18. \A i \in DOMAIN merged :
         \/ i \in DOMAIN opts.vars /\ merged[i] = opts.vars[i]
         \/ i - Len(opts.vars) \in DOMAIN more /\ merged[i] = more[i - Len(opts.vars)]
  <2>1. ASSUME NEW i \in DOMAIN merged, i > Len(opts.vars)
        PROVE  i - Len(opts.vars) \in DOMAIN more /\ merged[i] = more[i - Len(opts.vars)]
    <3>1. i - Len(opts.vars) \in 1 .. Len(more) /\ Len(opts.vars) + (i - Len(opts.vars)) = i
      BY <1>13, <2>1
    <3> QED BY <1>13, <3>1
  <2> QED BY <1>13, <2>1
<1>19. ASSUME NEW i \in DOMAIN merged, NEW j \in DOMAIN merged, merged[i].key = merged[j].key
       PROVE  i = j
  <2>1. CASE i \in DOMAIN opts.vars /\ merged[i] = opts.vars[i]
    BY <1>15, <1>17, <1>18, <1>19, <2>1
  <2>2. CASE i - Len(opts.vars) \in DOMAIN more /\ merged[i] = more[i - Len(opts.vars)]
    <3>1. j - Len(opts.vars) \in DOMAIN more /\ merged[j] = more[j - Len(opts.vars)]
      BY <1>17, <1>18, <1>19, <2>2
    <3>2. i - Len(opts.vars) = j - Len(opts.vars)
      BY <1>16, <1>19, <2>2, <3>1
    <3> QED BY <1>13, <3>2
  <2> QED BY <1>18, <2>1, <2>2
<1>20. \A i \in DOMAIN opts.vars : i \in DOMAIN merged /\ merged[i] = opts.vars[i]
  BY <1>13
<1>21. /\ opts' \in Settled /\ opts'.tags = tags /\ opts'.vars = merged
       /\ opts'.level = level /\ opts'.flags = flags /\ opts'.lib_path = path
  <2> HIDE DEF target, path, level
  <2> QED BY <1>2, <1>9, <1>10, <1>11, <1>12 DEF Settled
<1>22. cli.flags \subseteq O!Flag
  BY <1>1 DEF Asked, AskedOf
<1>23. CliWins'
  <2>1. /\ cli.level # None => opts'.level = cli.level
        /\ cli.lib_path # None => opts'.lib_path = cli.lib_path
    BY <1>14, <1>15, <1>21
  <2>2. \A flag \in cli.flags : opts'.flags[flag]
    BY <1>11, <1>15, <1>21, <1>22
  <2>3. \A k \in Names : cli.vars[k] # None =>
          \E i \in DOMAIN opts'.vars : opts'.vars[i].key = k /\ opts'.vars[i].value = cli.vars[k]
    BY <1>15, <1>20, <1>21
  <2> QED BY <1>2, <1>19, <1>21, <2>1, <2>2, <2>3 DEF CliWins, O!CliWins
<1>24. /\ TagPtrs' \subseteq TagPtrs /\ VarPtrs' \subseteq VarPtrs
       /\ dropped \subseteq VarPtrs /\ O!Ptrs(more) \subseteq VarPtrs
  BY <1>2, <1>5, <1>7, <1>9, <1>10, <1>21 DEF TagPtrs, VarPtrs
<1>25. scenario'.tags = parsed.tags /\ scenario'.vars = more
  BY <1>1, <1>2 DEF Settled
<1>26. OptionsTypes'
  <2>1. /\ TagPtrs \cup VarPtrs \subseteq 1 .. next /\ freed \subseteq 1 .. next
        /\ twice \subseteq freed /\ next \in Nat /\ stack \in Seq(DOMAIN Files)
        /\ O!Ptrs(parsed.tags) \subseteq TagPtrs
    BY <1>1 DEF OptionsTypes, TagPtrs
  <2>2. freed' \subseteq 1 .. next' /\ twice' \subseteq freed'
    BY <1>2, <1>24, <2>1
  <2>3. O!Ptrs(scenario'.tags) \cup O!Ptrs(scenario'.vars) \subseteq 1 .. next'
    BY <1>2, <1>24, <1>25, <2>1
  <2>4. (TagPtrs \cup VarPtrs)' \subseteq 1 .. next'
    BY <1>2, <1>24, <2>1
  <2> QED BY <1>1, <1>2, <1>21, <2>1, <2>2, <2>3, <2>4 DEF OptionsTypes
<1>27. HeapInv'
  <2>1. TagPtrs' \cap VarPtrs' = {}
    BY <1>6, <1>24
  <2>2. Distinct(opts'.vars)
    BY <1>9, <1>21
  <2>3. (O!Ptrs(opts'.tags) \cup O!Ptrs(opts'.vars)) \cap freed' = {}
    <3>1. O!Ptrs(tags) \cap freed = {} /\ O!Ptrs(tags) \cap dropped = {}
      BY <1>6, <1>10, <1>24 DEF TagPtrs
    <3>2. O!Ptrs(merged) \cap freed = {} /\ O!Ptrs(merged) \cap dropped = {}
      BY <1>5, <1>6, <1>7, <1>9
    <3> QED BY <1>2, <1>21, <3>1, <3>2
  <2> QED BY <1>2, <2>1, <2>2, <2>3 DEF HeapInv
<1> QED BY <1>2, <1>14, <1>23, <1>26, <1>27 DEF OptionsInv

\* What becomes of the lists when a file is applied: new strings have the next
\* pointers, those of tags before those of variables.
LEMMA ApplyFileKeeps ==
  ASSUME OptionsInv, O!ApplyFile
  PROVE  OptionsInv'
<1> DEFINE file == Files[O!Last(stack)]
           t1 == O!NewTags(file.tags_append, next)
           t2 == O!NewTags(file.tags, next + Len(t1))
           v1 == O!NewVars(file.vars_append, next + Len(t1) + Len(t2))
           v2 == O!NewVars(file.vars, next + Len(t1) + Len(t2) + Len(v1))
           newTags == O!Applied(parsed.tags, t1, file.tags_remove, t2)
           newVars == O!Applied(parsed.vars, v1, file.vars_remove, v2)
           flags == [flag \in O!Flag |-> file.flags[flag] = TRUE]
           level == IF ~file.has_cmd THEN O!Critical ELSE O!Declared(file.level, parsed.level)
           target == O!Declared(file.target, parsed.target)
           path == O!Declared(file.lib_path, parsed.lib_path)
           all == O!Ptrs(parsed.tags \o t1 \o t2) \cup O!Ptrs(parsed.vars \o v1 \o v2)
           gone == all \ (O!Ptrs(newTags) \cup O!Ptrs(newVars))
<1>1. /\ OptionsTypes /\ HeapInv /\ CliWins /\ opts \in Settled /\ parsed \in Settled
      /\ parsed.level \in O!Level /\ cli \in Asked /\ next \in Nat
      /\ stack \in Seq(DOMAIN Files)
  BY DEF OptionsInv, OptionsTypes
<1>2. /\ o_pc = "apply" /\ stack' = O!Front(stack)
      /\ o_pc' = IF Len(stack) = 1 THEN "merge" ELSE "apply"
      /\ UNCHANGED <<level_set, opts, scenario, cli>>
      /\ next' = next + Len(t1) + Len(t2) + Len(v1) + Len(v2)
      /\ parsed' = [target |-> target, flags |-> flags, level |-> level, lib_path |-> path,
                    tags |-> newTags, vars |-> newVars]
      /\ freed' = freed \cup gone /\ twice' = twice \cup (gone \cap freed)
  BY DEF O!ApplyFile, O!Free
<1>3. stack # << >>
  BY <1>1, <1>2 DEF OptionsTypes
<1>4. /\ file \in O!File /\ stack' \in Seq(DOMAIN Files)
      /\ o_pc' = "apply" => stack' # << >>
      /\ o_pc' \in {"apply", "merge"}
  BY <1>1, <1>2, <1>3, TopFile
<1> HIDE DEF file
<1>5. /\ file.tags \in Seq(Tags) /\ file.tags_append \in Seq(Tags)
      /\ file.vars \in Seq(O!Pair) /\ file.vars_append \in Seq(O!Pair)
      /\ file.target \in Targets \cup {None} /\ file.lib_path \in Paths \cup {None}
      /\ file.level \in O!Level \cup {None}
  BY <1>4 DEF O!File
<1>6. /\ t1 \in Seq(O!Tag) /\ O!Ptrs(t1) = next + 1 .. next + Len(t1) /\ Len(t1) \in Nat
  <2>1. Len(file.tags_append) \in Nat
    BY <1>5
  <2> QED BY <1>1, <1>5, <2>1, NewTagsProperties
<1> HIDE DEF t1
<1>7. /\ t2 \in Seq(O!Tag) /\ Len(t2) \in Nat
      /\ O!Ptrs(t2) = next + Len(t1) + 1 .. next + Len(t1) + Len(t2)
  <2>1. next + Len(t1) \in Nat /\ Len(file.tags) \in Nat
    BY <1>1, <1>5, <1>6
  <2> QED BY <1>5, <2>1, NewTagsProperties
<1> HIDE DEF t2
<1>8. /\ v1 \in Seq(O!Var) /\ Len(v1) \in Nat /\ Distinct(v1)
      /\ O!Ptrs(v1) = next + Len(t1) + Len(t2) + 1 .. next + Len(t1) + Len(t2) + Len(v1)
  <2>1. next + Len(t1) + Len(t2) \in Nat /\ Len(file.vars_append) \in Nat
    BY <1>1, <1>5, <1>6, <1>7
  <2> QED BY <1>5, <2>1, NewVarsProperties
<1> HIDE DEF v1
<1>9. /\ v2 \in Seq(O!Var) /\ Len(v2) \in Nat /\ Distinct(v2)
      /\ O!Ptrs(v2) = next + Len(t1) + Len(t2) + Len(v1) + 1 ..
                      next + Len(t1) + Len(t2) + Len(v1) + Len(v2)
  <2>1. next + Len(t1) + Len(t2) + Len(v1) \in Nat /\ Len(file.vars) \in Nat
    BY <1>1, <1>5, <1>6, <1>7, <1>8
  <2> QED BY <1>5, <2>1, NewVarsProperties
<1> HIDE DEF v2
<1> DEFINE tagNews == O!Ptrs(t1) \cup O!Ptrs(t2)
           varNews == O!Ptrs(v1) \cup O!Ptrs(v2)
\* What is new has never been used, and is a tag or a variable.
<1>10. /\ next' \in Nat /\ 1 .. next \subseteq 1 .. next'
       /\ tagNews \cup varNews \subseteq 1 .. next'
       /\ (tagNews \cup varNews) \cap (1 .. next) = {}
       /\ tagNews \cap varNews = {}
  <2> DEFINE a == Len(t1)
             b == Len(t2)
             c == Len(v1)
             d == Len(v2)
  <2>1. /\ next \in Nat /\ a \in Nat /\ b \in Nat /\ c \in Nat /\ d \in Nat
        /\ next' = next + a + b + c + d
        /\ tagNews = (next + 1 .. next + a) \cup (next + a + 1 .. next + a + b)
        /\ varNews = (next + a + b + 1 .. next + a + b + c) \cup
                     (next + a + b + c + 1 .. next + a + b + c + d)
    BY <1>1, <1>2, <1>6, <1>7, <1>8, <1>9
  <2> HIDE DEF a, b, c, d, tagNews, varNews
  <2> QED BY <2>1, NextPointers
<1>11. /\ TagPtrs \cup VarPtrs \subseteq 1 .. next /\ freed \subseteq 1 .. next
       /\ twice \subseteq freed
       /\ TagPtrs \cap VarPtrs = {}
       /\ Distinct(opts.vars) /\ Distinct(parsed.vars)
       /\ (O!Ptrs(opts.tags) \cup O!Ptrs(opts.vars)) \cap freed = {}
       /\ (O!Ptrs(parsed.tags) \cup O!Ptrs(parsed.vars)) \cap freed = {}
       /\ O!Ptrs(parsed.vars) \cap O!Ptrs(opts.vars) = {}
       /\ O!Ptrs(parsed.tags) \cap O!Ptrs(opts.tags) = {}
  BY <1>1, <1>2 DEF OptionsTypes, HeapInv
<1>12. /\ parsed.tags \in Seq(O!Tag) /\ parsed.vars \in Seq(O!Var)
       /\ TagPtrs = O!Ptrs(opts.tags) \cup O!Ptrs(parsed.tags)
       /\ VarPtrs = O!Ptrs(opts.vars) \cup O!Ptrs(parsed.vars)
  BY <1>1 DEF Settled, TagPtrs, VarPtrs
<1>13. /\ newTags \in Seq(O!Tag)
       /\ O!Ptrs(newTags) \subseteq O!Ptrs(parsed.tags) \cup tagNews
  BY <1>6, <1>7, <1>12, AppliedProperties
<1>14. /\ newVars \in Seq(O!Var) /\ Distinct(newVars)
       /\ O!Ptrs(newVars) \subseteq O!Ptrs(parsed.vars) \cup varNews
  <2>1. O!Ptrs(parsed.vars) \cap O!Ptrs(v1) = {}
    BY <1>10, <1>11, <1>12
  <2> QED BY <1>8, <1>9, <1>11, <1>12, <2>1, AppliedProperties
<1>15. all = O!Ptrs(parsed.tags) \cup tagNews \cup O!Ptrs(parsed.vars) \cup varNews
  <2>1. /\ parsed.tags \in Seq(O!Tag) /\ t1 \in Seq(O!Tag) /\ t2 \in Seq(O!Tag)
        /\ parsed.vars \in Seq(O!Var) /\ v1 \in Seq(O!Var) /\ v2 \in Seq(O!Var)
    BY <1>6, <1>7, <1>8, <1>9, <1>12
  <2>2. O!Ptrs(parsed.tags \o t1 \o t2) = O!Ptrs(parsed.tags) \cup O!Ptrs(t1) \cup O!Ptrs(t2)
    BY <2>1, PtrsOfThree
  <2>3. O!Ptrs(parsed.vars \o v1 \o v2) = O!Ptrs(parsed.vars) \cup O!Ptrs(v1) \cup O!Ptrs(v2)
    BY <2>1, PtrsOfThree
  <2> QED BY <2>2, <2>3
<1>16. level \in O!Level
  BY <1>1, <1>5 DEF O!Declared, O!Critical, O!Level
<1>17. target \in Targets \cup {None} /\ path \in Paths \cup {None}
  BY <1>1, <1>5 DEF O!Declared, Settled
<1>18. flags \in [O!Flag -> BOOLEAN]
  OBVIOUS
<1> HIDE DEF newTags, newVars, all, level, target, path, flags
<1>19. /\ parsed' \in Settled /\ parsed'.level \in O!Level
       /\ parsed'.tags = newTags /\ parsed'.vars = newVars
  BY <1>2, <1>13, <1>14, <1>16, <1>17, <1>18 DEF Settled
<1>20. /\ TagPtrs' = O!Ptrs(opts.tags) \cup O!Ptrs(newTags)
       /\ VarPtrs' = O!Ptrs(opts.vars) \cup O!Ptrs(newVars)
       /\ TagPtrs' \subseteq TagPtrs \cup tagNews /\ VarPtrs' \subseteq VarPtrs \cup varNews
       /\ gone \subseteq 1 .. next'
  BY <1>2, <1>10, <1>11, <1>12, <1>13, <1>14, <1>15, <1>19 DEF TagPtrs, VarPtrs
<1> HIDE DEF tagNews, varNews
<1>21. OptionsTypes'
  <2>1. freed' \subseteq 1 .. next' /\ twice' \subseteq freed'
    BY <1>2, <1>10, <1>11, <1>20
  <2>2. (TagPtrs \cup VarPtrs)' \subseteq 1 .. next'
    BY <1>10, <1>11, <1>20
  <2>3. scenario' # None =>
          O!Ptrs(scenario'.tags) \cup O!Ptrs(scenario'.vars) \subseteq 1 .. next'
    BY <1>1, <1>2, <1>10 DEF OptionsTypes
  <2> QED BY <1>1, <1>2, <1>4, <1>10, <1>19, <2>1, <2>2, <2>3 DEF OptionsTypes
<1>22. gone = (O!Ptrs(parsed.tags) \cup tagNews \cup O!Ptrs(parsed.vars) \cup varNews)
              \ (O!Ptrs(newTags) \cup O!Ptrs(newVars))
  BY <1>15
<1> HIDE DEF gone
<1>23. HeapInv'
  <2>1. TagPtrs' \cap VarPtrs' = {}
    BY <1>10, <1>11, <1>20
  <2>2. (O!Ptrs(opts.tags) \cup O!Ptrs(opts.vars)) \cap gone = {}
    <3>1. O!Ptrs(opts.tags) \cap gone = {}
      BY <1>10, <1>11, <1>12, <1>22
    <3>2. O!Ptrs(opts.vars) \cap gone = {}
      BY <1>10, <1>11, <1>12, <1>22
    <3> QED BY <3>1, <3>2
  <2>3. (O!Ptrs(newTags) \cup O!Ptrs(newVars)) \cap freed' = {}
    <3>1. (O!Ptrs(newTags) \cup O!Ptrs(newVars)) \cap freed = {}
      BY <1>10, <1>11, <1>13, <1>14 DEF tagNews, varNews
    <3> QED BY <1>2, <1>22, <3>1
  <2>4. O!Ptrs(newVars) \cap O!Ptrs(opts.vars) = {} /\ O!Ptrs(newTags) \cap O!Ptrs(opts.tags) = {}
    BY <1>10, <1>11, <1>12, <1>13, <1>14 DEF tagNews, varNews
  <2>5. opts' = opts /\ parsed'.tags = newTags /\ parsed'.vars = newVars
    BY <1>2, <1>19
  <2>6. (O!Ptrs(opts.tags) \cup O!Ptrs(opts.vars)) \cap freed' = {}
    BY <1>2, <1>11, <2>2
  <2> QED BY <1>11, <1>14, <2>1, <2>3, <2>4, <2>5, <2>6 DEF HeapInv, Distinct
<1>24. CliWins'
  BY <1>1, <1>2 DEF CliWins, O!CliWins
<1> QED BY <1>2, <1>21, <1>23, <1>24 DEF OptionsInv

LEMMA NextKeepsOptionsInv ==
  ASSUME OptionsInv, [O!Next]_oVars
  PROVE  OptionsInv'
<1>1. CASE \E tags \in O!SeqOf(Tags, 2) : O!SetTags(tags)
  BY <1>1, SetTagsKeeps
<1>2. CASE \E key \in Names, value \in Values : O!SetVar(key, value)
  BY <1>2, SetVarKeeps
<1>3. CASE \/ \E level \in O!Level \cup {O!Unsigned} : O!SetLevel(level)
           \/ \E flag \in O!Flag : O!SetFlag(flag)
           \/ \E path \in Paths : O!SetLibPath(path)
  BY <1>3, PlainOptionKeeps
<1>4. CASE \E file \in DOMAIN Files : O!SetScenario(file)
  BY <1>4, SetScenarioKeeps
<1>5. CASE O!Include \/ O!ApplyFile \/ O!Merge \/ O!Release
  BY <1>5, IncludeKeeps, ApplyFileKeeps, MergeKeeps, ReleaseKeeps
<1>6. CASE O!BadScenario \/ O!Parsed \/ O!BadOption \/ O!Terminated \/ UNCHANGED oVars
  <2>1. /\ UNCHANGED <<level_set, opts, parsed, scenario, stack, next, freed, twice, cli>>
        /\ o_pc' = o_pc \/ o_pc' = "exited" \/ (o_pc = "options" /\ o_pc' = "parsed")
    BY <1>6 DEF O!BadScenario, O!Parsed, O!BadOption, O!Terminated, O!vars, O!heap, oVars
  <2> QED BY <2>1, QuietKeeps
<1> QED BY <1>1, <1>2, <1>3, <1>4, <1>5, <1>6 DEF O!Next

LEMMA OptionsInvariant == O!Spec => []OptionsInv
<1>1. OptionsInv /\ [O!Next]_(O!vars) => OptionsInv'
  BY NextKeepsOptionsInv DEF O!vars, oVars
<1> QED BY <1>1, InitOptionsInv, PTL DEF O!Spec

-----------------------------------------------------------------------------
(* The theorems.                                                           *)

\* Every variable of the options stays in its type, and a string is a tag or
\* a variable for as long as it is used.
THEOREM OptionsTypeCorrect == O!Spec => []O!TypeOK
<1>1. ASSUME OptionsInv PROVE O!TypeOK
  <2>1. OptionsTypes /\ HeapInv
    BY <1>1 DEF OptionsInv
  <2>2. /\ opts.tags \in Seq(O!Tag) /\ parsed.tags \in Seq(O!Tag)
        /\ opts.vars \in Seq(O!Var) /\ parsed.vars \in Seq(O!Var)
        /\ opts.level \in O!Level \cup {O!Unsigned}
    BY <2>1 DEF OptionsTypes, Settled
  <2>3. /\ O!Ptrs(opts.tags \o parsed.tags) = TagPtrs
        /\ O!Ptrs(opts.vars \o parsed.vars) = VarPtrs
    BY <2>2, ConcatProperties2 DEF TagPtrs, VarPtrs
  <2> QED BY <2>1, <2>2, <2>3 DEF O!TypeOK, OptionsTypes, HeapInv
<1> QED BY <1>1, OptionsInvariant, PTL

\* Whatever options and scenarios follow each other, what the command line asks
\* for is what the run gets: the last value of a variable, the level, the path
\* of the library and the flags.
THEOREM CommandLineWins == O!Spec => []CliWins
<1>1. OptionsInv => CliWins
  BY DEF OptionsInv
<1> QED BY <1>1, OptionsInvariant, PTL

\* The options never hold a string that set_test_tags, set_test_vars or
\* set_test_scenario released, although they share strings with the scenarios.
THEOREM OptionsStayAlive == O!Spec => []OptionsAlive
<1>1. OptionsInv => OptionsAlive
  BY DEF OptionsInv, HeapInv, OptionsAlive, O!OptionsAlive
<1> QED BY <1>1, OptionsInvariant, PTL

\* What the options leave to ltf_parse_vars has no name twice, as Variables
\* starts from it: the error for that is never reported.
THEOREM KeysStayApart == O!Spec => []KeysApart
<1>1. ASSUME OptionsInv PROVE KeysApart
  BY <1>1 DEF OptionsInv, CliWins, O!CliWins, KeysApart, Repeats
<1> QED BY <1>1, OptionsInvariant, PTL

-----------------------------------------------------------------------------
(* Secrets: the strings.                                                   *)

\* The first place that is not blank starts what ltrim leaves.
LEMMA LtrimIs ==
  ASSUME NEW T, NEW s \in Seq(T), NEW k \in 1 .. Len(s) + 1,
         k <= Len(s) => s[k] # Sec!Space,
         \A j \in 1 .. k - 1 : s[j] = Sec!Space
  PROVE  Sec!ltrim(s) = SubSeq(s, k, Len(s))
<1> DEFINE First(i) == /\ i <= Len(s) => s[i] # Sec!Space
                       /\ \A j \in 1 .. i - 1 : s[j] = Sec!Space
<1>1. Len(s) \in Nat
  OBVIOUS
<1>2. ASSUME NEW i \in 1 .. Len(s) + 1, First(i) PROVE i = k
  <2>1. ~(i < k)
    BY <1>1, <1>2
  <2>2. ~(k < i)
    BY <1>1, <1>2
  <2> QED BY <1>1, <2>1, <2>2
<1>3. (CHOOSE i \in 1 .. Len(s) + 1 : First(i)) = k
  BY <1>2
<1> QED BY <1>3 DEF Sec!ltrim, Sec!From

\* The last place that is not blank ends what rtrim leaves.
LEMMA RtrimIs ==
  ASSUME NEW T, NEW s \in Seq(T), NEW n \in 0 .. Len(s),
         n > 0 => s[n] # Sec!Space,
         \A j \in n + 1 .. Len(s) : s[j] = Sec!Space
  PROVE  Sec!rtrim(s) = SubSeq(s, 1, n)
<1> DEFINE End(i) == /\ i > 0 => s[i] # Sec!Space
                     /\ \A j \in i + 1 .. Len(s) : s[j] = Sec!Space
<1>1. Len(s) \in Nat
  OBVIOUS
<1>2. ASSUME NEW i \in 0 .. Len(s), End(i) PROVE i = n
  <2>1. ASSUME i < n PROVE FALSE
    <3>1. n \in i + 1 .. Len(s) /\ n > 0
      BY <1>1, <2>1
    <3> QED BY <1>2, <3>1
  <2>2. ASSUME n < i PROVE FALSE
    <3>1. i \in n + 1 .. Len(s) /\ i > 0
      BY <1>1, <2>2
    <3> QED BY <1>2, <3>1
  <2> QED BY <1>1, <2>1, <2>2
<1>3. (CHOOSE i \in 0 .. Len(s) : End(i)) = n
  BY <1>2
<1> QED BY <1>3 DEF Sec!rtrim

\* A place with the token and none before it is the one that strchr and strstr find.
LEMMA FindIs ==
  ASSUME NEW T, NEW s \in Seq(T), NEW t, NEW k \in 1 .. Len(s) + 1,
         k <= Len(s) => s[k] = t,
         \A j \in 1 .. k - 1 : s[j] # t
  PROVE  Sec!Find(s, t) = k
<1> DEFINE First(i) == /\ i <= Len(s) => s[i] = t
                       /\ \A j \in 1 .. i - 1 : s[j] # t
<1>1. Len(s) \in Nat
  OBVIOUS
<1>2. ASSUME NEW i \in 1 .. Len(s) + 1, First(i) PROVE i = k
  <2>1. ~(i < k)
    BY <1>1, <1>2
  <2>2. ~(k < i)
    BY <1>1, <1>2
  <2> QED BY <1>1, <2>1, <2>2
<1>3. (CHOOSE i \in 1 .. Len(s) + 1 : First(i)) = k
  BY <1>2
<1> QED BY <1>3 DEF Sec!Find

\* Blanks around a string are what trim takes away.
LEMMA TrimPadded ==
  ASSUME NEW T, Sec!Space \in T, NEW a \in Seq({Sec!Space}), NEW w \in Seq(T),
         NEW c \in Seq({Sec!Space}), Sec!Bare(w)
  PROVE  Sec!trim(a \o w \o c) = w
<1> DEFINE wc == w \o c
           s == a \o wc
<1>1. a \in Seq(T) /\ c \in Seq(T)
  BY SeqMonotonic
<1>2. a \o w \o c = s
  BY <1>1, ConcatAssociative
<1>3. /\ Len(a) \in Nat /\ Len(w) \in Nat /\ Len(c) \in Nat
      /\ \A i \in 1 .. Len(a) : a[i] = Sec!Space
      /\ \A i \in 1 .. Len(c) : c[i] = Sec!Space
  OBVIOUS
<1>4. /\ wc \in Seq(T) /\ Len(wc) = Len(w) + Len(c)
      /\ \A i \in 1 .. Len(w) + Len(c) : wc[i] = IF i <= Len(w) THEN w[i] ELSE c[i - Len(w)]
  BY <1>1, ConcatProperties
<1> HIDE DEF wc
<1>a. wc \in Seq(T)
  BY <1>4
<1>5. /\ s \in Seq(T) /\ Len(s) = Len(a) + Len(wc)
      /\ \A i \in 1 .. Len(a) + Len(wc) : s[i] = IF i <= Len(a) THEN a[i] ELSE wc[i - Len(a)]
  BY <1>1, <1>a, ConcatProperties
<1>6. CASE w = << >>
  <2>1. wc = c
    BY <1>1, <1>6, ConcatEmptySeq DEF wc
  <2>2. \A i \in 1 .. Len(s) : s[i] = Sec!Space
    BY <1>3, <1>5, <2>1
  <2>3. Len(s) \in Nat /\ Len(s) + 1 \in 1 .. Len(s) + 1
    BY <1>5
  <2>4. Sec!ltrim(s) = SubSeq(s, Len(s) + 1, Len(s))
    <3>1. /\ s \in Seq(T)
          /\ Len(s) + 1 <= Len(s) => s[Len(s) + 1] # Sec!Space
          /\ \A j \in 1 .. (Len(s) + 1) - 1 : s[j] = Sec!Space
      BY <1>5, <2>2, <2>3
    <3> HIDE DEF s
    <3> QED BY <2>3, <3>1, LtrimIs
  <2>5. SubSeq(s, Len(s) + 1, Len(s)) = << >>
    BY <2>3, SubSeqEmpty
  <2>6. << >> \in Seq(T) /\ Len(<< >>) = 0
    OBVIOUS
  <2>7. Sec!rtrim(<< >>) = SubSeq(<< >>, 1, 0)
    <3> DEFINE e == << >>
    <3>1. /\ e \in Seq(T) /\ 0 \in 0 .. Len(e) /\ (0 > 0 => e[0] # Sec!Space)
          /\ \A j \in 0 + 1 .. Len(e) : e[j] = Sec!Space
      BY <2>6
    <3> HIDE DEF e
    <3>2. Sec!rtrim(e) = SubSeq(e, 1, 0)
      BY <3>1, RtrimIs
    <3> QED BY <3>2 DEF e
  <2>8. SubSeq(<< >>, 1, 0) = << >>
    BY SubSeqEmpty
  <2> QED BY <1>2, <1>6, <2>4, <2>5, <2>7, <2>8 DEF Sec!trim
<1>7. CASE w # << >>
  <2>1. /\ Len(w) \in Nat \ {0}
        /\ w[1] # Sec!Space /\ w[Len(w)] # Sec!Space
    BY <1>7, EmptySeq DEF Sec!Bare
  <2> DEFINE k == Len(a) + 1
  <2>2. /\ k \in 1 .. Len(s) + 1 /\ k <= Len(s) /\ s[k] = w[1]
        /\ \A j \in 1 .. k - 1 : s[j] = Sec!Space
    BY <1>3, <1>4, <1>5, <2>1
  <2>3. Sec!ltrim(s) = SubSeq(s, k, Len(s))
    <3> HIDE DEF s, k
    <3> QED BY <1>5, <2>1, <2>2, LtrimIs
  <2>4. SubSeq(s, k, Len(s)) = SubSeq(wc, k - Len(a), Len(s) - Len(a))
    BY <1>1, <1>3, <1>4, <1>5, <2>1, SubSeqOfConcat2
  <2>5. SubSeq(wc, 1, Len(wc)) = wc
    BY <1>4, SubSeqFull
  <2>6. k - Len(a) = 1 /\ Len(s) - Len(a) = Len(wc)
    BY <1>3, <1>4, <1>5
  <2>7. Sec!ltrim(s) = wc
    BY <2>3, <2>4, <2>5, <2>6
  <2>8. /\ Len(w) \in 0 .. Len(wc) /\ wc[Len(w)] # Sec!Space
        /\ \A j \in Len(w) + 1 .. Len(wc) : wc[j] = Sec!Space
    BY <1>3, <1>4, <2>1
  <2>9. Sec!rtrim(wc) = SubSeq(wc, 1, Len(w))
    BY <1>4, <2>8, RtrimIs
  <2>10. SubSeq(wc, 1, Len(w)) = SubSeq(w, 1, Len(w)) /\ SubSeq(w, 1, Len(w)) = w
    BY <1>1, <2>1, SubSeqOfConcat1, SubSeqFull DEF wc
  <2> QED BY <1>2, <2>7, <2>9, <2>10 DEF Sec!trim
<1> QED BY <1>6, <1>7

\* What a concatenation starts with.
LEMMA Prefix ==
  ASSUME NEW T, NEW x \in Seq(T), NEW y \in Seq(T)
  PROVE  SubSeq(x \o y, 1, Len(x)) = x
<1>1. CASE Len(x) = 0
  <2>1. x = << >>
    BY <1>1, EmptySeq
  <2>2. SubSeq(x \o y, 1, 0) = << >>
    BY SubSeqEmpty
  <2> QED BY <1>1, <2>1, <2>2
<1>2. CASE Len(x) # 0
  <2>1. Len(x) \in 1 .. Len(x) /\ 1 \in 1 .. Len(x)
    BY <1>2
  <2>2. SubSeq(x \o y, 1, Len(x)) = SubSeq(x, 1, Len(x))
    BY <2>1, SubSeqOfConcat1
  <2> QED BY <2>2, SubSeqFull
<1> QED BY <1>1, <1>2

\* The first of a token in a string is found, and what is on both sides of it.
LEMMA SplitAt ==
  ASSUME NEW T, NEW x \in Seq(T), NEW t \in T, NEW m \in Seq(T),
         \A j \in DOMAIN x : x[j] # t
  PROVE  LET s == x \o <<t>> \o m IN
         /\ s \in Seq(T) /\ s # << >>
         /\ Sec!Holds(s, t)
         /\ Sec!Find(s, t) = Len(x) + 1
         /\ Sec!Before(s, Sec!Find(s, t)) = x
         /\ Sec!From(s, Sec!Find(s, t) + 1) = m
         /\ Len(s) = Len(x) + 1 + Len(m)
         /\ \A i \in DOMAIN x : s[i] = x[i]
         /\ s[Len(x) + 1] = t
         /\ \A i \in DOMAIN m : s[Len(x) + 1 + i] = m[i]
<1> DEFINE y == <<t>>
           xy == x \o y
           ym == y \o m
           s == xy \o m
<1>1. y \in Seq(T) /\ Len(y) = 1 /\ y[1] = t
  OBVIOUS
<1>2. Len(x) \in Nat /\ Len(m) \in Nat /\ DOMAIN x = 1 .. Len(x) /\ DOMAIN m = 1 .. Len(m)
  OBVIOUS
<1> HIDE DEF y
<1>b. y \in Seq(T)
  BY <1>1
<1>c. /\ xy \in Seq(T) /\ Len(xy) = Len(x) + Len(y)
      /\ \A i \in 1 .. Len(x) + Len(y) : xy[i] = IF i <= Len(x) THEN x[i] ELSE y[i - Len(x)]
  BY <1>b, ConcatProperties
<1>3. /\ xy \in Seq(T) /\ Len(xy) = Len(x) + 1
      /\ \A i \in 1 .. Len(x) + 1 : xy[i] = IF i <= Len(x) THEN x[i] ELSE y[i - Len(x)]
  <2> HIDE DEF xy
  <2> QED BY <1>1, <1>c
<1>d. ym \in Seq(T) /\ Len(ym) = Len(y) + Len(m)
  BY <1>b, ConcatProperties
<1>4. ym \in Seq(T) /\ Len(ym) = 1 + Len(m)
  BY <1>1, <1>d
<1>5. s = x \o ym
  BY <1>1, ConcatAssociative
<1>a. xy \in Seq(T)
  BY <1>3
<1> HIDE DEF xy
<1>6. /\ s \in Seq(T) /\ Len(s) = Len(x) + 1 + Len(m)
      /\ \A i \in 1 .. Len(x) + 1 + Len(m) :
           s[i] = IF i <= Len(x) + 1 THEN xy[i] ELSE m[i - (Len(x) + 1)]
  <2>1. /\ s \in Seq(T) /\ Len(s) = Len(xy) + Len(m)
        /\ \A i \in 1 .. Len(xy) + Len(m) : s[i] = IF i <= Len(xy) THEN xy[i] ELSE m[i - Len(xy)]
    BY <1>a, ConcatProperties
  <2> QED BY <1>3, <2>1
<1>7. /\ \A i \in DOMAIN x : s[i] = x[i]
      /\ s[Len(x) + 1] = t
      /\ \A i \in DOMAIN m : s[Len(x) + 1 + i] = m[i]
  <2> HIDE DEF s
  <2>1. \A i \in DOMAIN x : s[i] = x[i]
    BY <1>2, <1>3, <1>6
  <2>2. s[Len(x) + 1] = t
    BY <1>1, <1>2, <1>3, <1>6
  <2>3. ASSUME NEW i \in DOMAIN m PROVE s[Len(x) + 1 + i] = m[i]
    <3> DEFINE k == Len(x) + 1 + i
    <3>1. k \in 1 .. Len(x) + 1 + Len(m) /\ ~(k <= Len(x) + 1) /\ k - (Len(x) + 1) = i
      BY <1>2
    <3> QED BY <1>6, <3>1
  <2> QED BY <2>1, <2>2, <2>3
<1>8. s # << >> /\ Sec!Holds(s, t) /\ Sec!Find(s, t) = Len(x) + 1
  <2> HIDE DEF s
  <2>1. Len(x) + 1 \in 1 .. Len(s) + 1 /\ Len(x) + 1 \in DOMAIN s
    BY <1>2, <1>6
  <2>2. \A j \in 1 .. (Len(x) + 1) - 1 : s[j] # t
    BY <1>2, <1>7
  <2>a. s \in Seq(T) /\ (Len(x) + 1 <= Len(s) => s[Len(x) + 1] = t)
    BY <1>6, <1>7
  <2>3. Sec!Find(s, t) = Len(x) + 1
    BY <2>1, <2>2, <2>a, FindIs
  <2> QED BY <1>7, <2>1, <2>3 DEF Sec!Holds
<1>9. SubSeq(s, 1, Len(x)) = x
  BY <1>4, <1>5, Prefix
<1>10. SubSeq(s, Len(x) + 2, Len(s)) = m
  <2>1. CASE Len(m) = 0
    <3>1. m = << >>
      BY <2>1, EmptySeq
    <3>2. SubSeq(s, Len(x) + 2, Len(s)) = << >>
      BY <1>2, <1>6, <2>1, SubSeqEmpty
    <3> QED BY <3>1, <3>2
  <2>2. CASE Len(m) # 0
    <3>1. /\ Len(x) + 2 \in Len(xy) + 1 .. Len(xy) + Len(m)
          /\ Len(s) \in Len(xy) + 1 .. Len(xy) + Len(m)
          /\ Len(x) + 2 - Len(xy) = 1 /\ Len(s) - Len(xy) = Len(m)
      BY <1>2, <1>3, <1>6, <2>2
    <3>2. SubSeq(xy \o m, Len(x) + 2, Len(s))
            = SubSeq(m, Len(x) + 2 - Len(xy), Len(s) - Len(xy))
      BY <1>a, <3>1, SubSeqOfConcat2
    <3> QED BY <3>1, <3>2, SubSeqFull
  <2> QED BY <2>1, <2>2
<1>11. /\ Sec!Before(s, Sec!Find(s, t)) = x
       /\ Sec!From(s, Sec!Find(s, t) + 1) = m
  <2> HIDE DEF s
  <2>1. (Len(x) + 1) - 1 = Len(x) /\ (Len(x) + 1) + 1 = Len(x) + 2
    BY <1>2
  <2> QED BY <1>8, <1>9, <1>10, <2>1 DEF Sec!Before, Sec!From
<1> QED BY <1>6, <1>7, <1>8, <1>11 DEF s, xy, y

\* What the constants are made of.
LEMMA Tokens ==
  /\ {Sec!Space, Sec!Equals, Sec!Quotes, Sec!Newline} \subseteq Sec!Token
  /\ Sec!Space # Sec!Equals /\ Sec!Space # Sec!Quotes /\ Sec!Equals # Sec!Quotes
  /\ \A w \in Words : w \in Seq(Sec!Token)
  /\ \A b \in Blanks : \A i \in 1 .. 4 : b[i] \in Seq({Sec!Space}) /\ b[i] \in Seq(Sec!Token)
  /\ Sec!Null \notin Seq(Sec!Token)
<1>1. {Sec!Space, Sec!Equals, Sec!Quotes, Sec!Newline} \subseteq Sec!Token
  BY DEF Sec!Token
<1>2. Sec!Space # Sec!Equals /\ Sec!Space # Sec!Quotes /\ Sec!Equals # Sec!Quotes
  BY DEF Sec!Space, Sec!Equals, Sec!Quotes
<1>3. ASSUME NEW w \in Words PROVE w \in Seq(Sec!Token)
  <2>1. w \in Seq(Sec!Token \ {Sec!Newline})
    BY SecretsAssumption DEF Sec!ConstantsOK
  <2> QED BY <2>1, SeqMonotonic
<1>4. ASSUME NEW b \in Blanks, NEW i \in 1 .. 4
      PROVE  b[i] \in Seq({Sec!Space}) /\ b[i] \in Seq(Sec!Token)
  <2>1. b[i] \in Seq({Sec!Space})
    BY SecretsAssumption DEF Sec!ConstantsOK
  <2>2. {Sec!Space} \subseteq Sec!Token
    BY <1>1
  <2> QED BY <2>1, <2>2, SeqMonotonic
<1>5. Sec!Null \notin Seq(Sec!Token)
  <2>1. Sec!Null[1] = "null" /\ Len(Sec!Null) = 1
    BY DEF Sec!Null
  <2>2. "null" \notin Sec!Token
    BY <2>1, SecretsAssumption DEF Sec!ConstantsOK, Sec!Token, Sec!Space, Sec!Equals, Sec!Quotes, Sec!Newline
  <2> QED BY <2>1, <2>2, ElementOfSeq
<1> QED BY <1>1, <1>2, <1>3, <1>4, <1>5

\* Concatenation as a name the provers do not look into.
Joint(p, q) == p \o q

\* An assignment as it is written, and around what trim leaves of it.
Written(a, k, b, y, c, r, d) == a \o k \o b \o y \o c \o r \o d
Trimmed(a, k, b, y, c, r, d) ==
  IF r = << >> THEN a \o ((k \o b) \o y \o r) \o (c \o d)
  ELSE a \o ((k \o b) \o y \o (c \o r)) \o d

LEMMA JointAssociative ==
  ASSUME NEW T, NEW p \in Seq(T), NEW q \in Seq(T), NEW u \in Seq(T)
  PROVE  Joint(p, q) \in Seq(T) /\ Joint(Joint(p, q), u) = Joint(p, Joint(q, u))
BY DEF Joint

LEMMA Gathered ==
  ASSUME NEW T, NEW a \in Seq(T), NEW k \in Seq(T), NEW b \in Seq(T), NEW y \in Seq(T),
         NEW c \in Seq(T), NEW r \in Seq(T), NEW d \in Seq(T)
  PROVE  Written(a, k, b, y, c, r, d) = Trimmed(a, k, b, y, c, r, d)
<1> DEFINE x == Joint(k, b)
           z == Joint(x, y)
           cr == Joint(c, r)
           az == Joint(a, z)
           whole == Joint(Joint(Joint(Joint(Joint(Joint(a, k), b), y), c), r), d)
<1>0. \A p, q, u \in Seq(T) :
        Joint(p, q) \in Seq(T) /\ Joint(Joint(p, q), u) = Joint(p, Joint(q, u))
  BY JointAssociative
<1>1. x \in Seq(T) /\ z \in Seq(T) /\ cr \in Seq(T) /\ az \in Seq(T)
  BY <1>0
<1>2. Joint(Joint(a, k), b) = Joint(a, x)
  BY <1>0
<1>3. Joint(Joint(a, x), y) = az
  BY <1>0, <1>1
<1>4. Joint(Joint(az, c), r) = Joint(az, cr) /\ Joint(az, cr) = Joint(a, Joint(z, cr))
  BY <1>0, <1>1
<1>5. whole = Joint(Joint(a, Joint(z, cr)), d)
  BY <1>2, <1>3, <1>4
<1>6. ASSUME r = << >> PROVE whole = Joint(Joint(a, Joint(z, r)), Joint(c, d))
  <2>1. Joint(z, r) = z /\ cr = c
    BY <1>1, <1>6, ConcatEmptySeq DEF Joint
  <2>2. Joint(Joint(az, c), d) = Joint(az, Joint(c, d))
    BY <1>0, <1>1
  <2> QED BY <1>2, <1>3, <1>4, <2>1, <2>2
<1>7. whole = Written(a, k, b, y, c, r, d)
  BY DEF Joint, Written
<1>8. Trimmed(a, k, b, y, c, r, d) = IF r = << >> THEN Joint(Joint(a, Joint(z, r)), Joint(c, d))
                                    ELSE Joint(Joint(a, Joint(z, cr)), d)
  BY DEF Joint, Trimmed
<1> HIDE DEF z, cr, whole
<1> QED BY <1>5, <1>6, <1>7, <1>8
\* An assignment is taken apart to its key and what is assigned.
LEMMA AssignmentParsed ==
  ASSUME NEW b \in Blanks, NEW key \in Sec!Keys, NEW raw \in Seq(Sec!Token), Sec!Bare(raw)
  PROVE  LET s == Sec!trim(Sec!Assignment(b, key, raw)) IN
         /\ Sec!Holds(s, Sec!Equals)
         /\ Sec!trim(Sec!Before(s, Sec!Find(s, Sec!Equals))) = key
         /\ Sec!trim(Sec!From(s, Sec!Find(s, Sec!Equals) + 1)) = raw
<1> DEFINE T == Sec!Token
           x == key \o b[2]
           m == IF raw = << >> THEN raw ELSE b[3] \o raw
           c == IF raw = << >> THEN b[3] \o b[4] ELSE b[4]
           s == x \o <<Sec!Equals>> \o m
<1>1. /\ key \in Seq(T) /\ key # << >> /\ Sec!Bare(key) /\ \A i \in DOMAIN key : key[i] # Sec!Equals
      /\ Sec!Space \in T /\ Sec!Equals \in T
      /\ \A i \in 1 .. 4 : b[i] \in Seq({Sec!Space}) /\ b[i] \in Seq(T)
      /\ << >> \in Seq(T) /\ << >> \in Seq({Sec!Space})
  BY Tokens DEF Sec!Keys, Sec!Holds
<1> HIDE DEF T
<1>2. b[1] \in Seq(T) /\ b[2] \in Seq(T) /\ b[3] \in Seq(T) /\ b[4] \in Seq(T) /\ <<Sec!Equals>> \in Seq(T)
  BY <1>1
<1>3. Sec!Assignment(b, key, raw) = b[1] \o s \o c
  <2> DEFINE b1 == b[1]  b2 == b[2]  b3 == b[3]  b4 == b[4]  y == <<Sec!Equals>>
  <2>1. /\ b1 \in Seq(T) /\ b2 \in Seq(T) /\ b3 \in Seq(T) /\ b4 \in Seq(T)
        /\ y \in Seq(T) /\ key \in Seq(T) /\ raw \in Seq(T)
    BY <1>1, <1>2 DEF T
  <2>2. Sec!Assignment(b, key, raw) = Written(b1, key, b2, y, b3, raw, b4)
    BY DEF Sec!Assignment, Written
  <2>3. b[1] \o s \o c = Trimmed(b1, key, b2, y, b3, raw, b4)
    BY DEF Trimmed
  <2> HIDE DEF b1, b2, b3, b4, y, s, c
  <2>4. Written(b1, key, b2, y, b3, raw, b4) = Trimmed(b1, key, b2, y, b3, raw, b4)
    <3> HIDE DEF T, x, m
    <3>1. \A a1, a2, a3 \in Seq(T) : \A a4, a5, a6, a7 \in Seq(T) :
            Written(a1, a2, a3, a4, a5, a6, a7) = Trimmed(a1, a2, a3, a4, a5, a6, a7)
      BY Gathered, Zenon
    <3>2. \A a4, a5, a6, a7 \in Seq(T) :
            Written(b1, key, b2, a4, a5, a6, a7) = Trimmed(b1, key, b2, a4, a5, a6, a7)
      BY <2>1, <3>1, Zenon
    <3>3. \A a6, a7 \in Seq(T) :
            Written(b1, key, b2, y, b3, a6, a7) = Trimmed(b1, key, b2, y, b3, a6, a7)
      BY <2>1, <3>2, Zenon
    <3>4. raw \in Seq(T) /\ b4 \in Seq(T)
      BY <2>1
    <3> QED BY <3>3, <3>4, Zenon
  <2> QED BY <2>2, <2>3, <2>4
<1>4. /\ x \in Seq(T) /\ m \in Seq(T)
      /\ c \in Seq({Sec!Space}) /\ b[1] \in Seq({Sec!Space}) /\ b[2] \in Seq({Sec!Space})
      /\ b[3] \in Seq({Sec!Space})
  BY <1>1, <1>2, ConcatProperties DEF T
<1>5. /\ Len(key) \in Nat \ {0} /\ Len(b[2]) \in Nat /\ Len(x) = Len(key) + Len(b[2])
      /\ \A i \in 1 .. Len(x) : x[i] = IF i <= Len(key) THEN key[i] ELSE b[2][i - Len(key)]
  BY <1>1, <1>2, EmptySeq, ConcatProperties
<1>6. \A j \in DOMAIN x : x[j] # Sec!Equals
  <2>1. \A i \in 1 .. Len(b[2]) : b[2][i] = Sec!Space
    BY <1>4
  <2>2. DOMAIN x = 1 .. Len(x) /\ DOMAIN key = 1 .. Len(key)
    BY <1>1, <1>4
  <2> HIDE DEF x
  <2> QED BY <1>1, <1>5, <2>1, <2>2, Tokens
<1>7. /\ s \in Seq(T)
      /\ Sec!Holds(s, Sec!Equals)
      /\ Sec!Before(s, Sec!Find(s, Sec!Equals)) = x
      /\ Sec!From(s, Sec!Find(s, Sec!Equals) + 1) = m
      /\ Len(s) = Len(x) + 1 + Len(m)
      /\ \A i \in DOMAIN x : s[i] = x[i]
      /\ s[Len(x) + 1] = Sec!Equals
      /\ \A i \in DOMAIN m : s[Len(x) + 1 + i] = m[i]
  <2> HIDE DEF x, m
  <2>1. x \in Seq(T) /\ m \in Seq(T) /\ Sec!Equals \in T /\ \A j \in DOMAIN x : x[j] # Sec!Equals
    BY <1>1, <1>4, <1>6
  <2> QED BY <2>1, SplitAt
<1>8. Sec!Bare(s)
  <2>1. s[1] # Sec!Space
    <3>1. 1 \in DOMAIN x /\ x[1] = key[1]
      BY <1>4, <1>5
    <3> QED BY <1>1, <1>7, <3>1 DEF Sec!Bare
  <2>2. s[Len(s)] # Sec!Space
    <3>1. CASE raw = << >>
      <4>1. Len(m) = 0 /\ Len(x) \in Nat
        BY <1>4, <3>1
      <4>2. Len(s) = Len(x) + 1
        <5> HIDE DEF s, m, x
        <5> QED BY <1>7, <4>1
      <4>3. s[Len(x) + 1] = Sec!Equals /\ Sec!Equals # Sec!Space
        BY <1>7, Tokens
      <4> HIDE DEF s, x
      <4> QED BY <4>2, <4>3
    <3>2. CASE raw # << >>
      <4>1. /\ Len(raw) \in Nat \ {0} /\ Len(b[3]) \in Nat /\ Len(m) = Len(b[3]) + Len(raw)
            /\ \A i \in 1 .. Len(m) : m[i] = IF i <= Len(b[3]) THEN b[3][i] ELSE raw[i - Len(b[3])]
        <5>1. raw \in Seq(T) /\ b[3] \in Seq(T) /\ raw # << >>
          BY <1>2, <3>2 DEF T
        <5>2. m = b[3] \o raw
          BY <3>2
        <5> HIDE DEF m
        <5>3. Len(raw) \in Nat \ {0} /\ Len(b[3]) \in Nat
          BY <5>1, EmptySeq
        <5>4. Len(b[3] \o raw) = Len(b[3]) + Len(raw)
              /\ \A i \in 1 .. Len(b[3]) + Len(raw) :
                   (b[3] \o raw)[i] = IF i <= Len(b[3]) THEN b[3][i] ELSE raw[i - Len(b[3])]
          BY <5>1, ConcatProperties
        <5> QED BY <5>2, <5>3, <5>4
      <4>2. Len(m) \in DOMAIN m /\ m[Len(m)] = raw[Len(raw)]
        <5> HIDE DEF m
        <5>0. DOMAIN m = 1 .. Len(m)
          BY <1>4
        <5>1. /\ Len(m) \in 1 .. Len(m) /\ ~(Len(m) <= Len(b[3])) /\ Len(m) - Len(b[3]) = Len(raw)
          BY <4>1
        <5>2. m[Len(m)] = raw[Len(m) - Len(b[3])]
          BY <4>1, <5>1
        <5> QED BY <5>0, <5>1, <5>2
      <4>3. Len(s) = Len(x) + 1 + Len(m) /\ s[Len(x) + 1 + Len(m)] = m[Len(m)]
        <5> HIDE DEF s, m, x
        <5> QED BY <1>7, <4>2
      <4>4. raw[Len(raw)] # Sec!Space
        BY <3>2 DEF Sec!Bare
      <4>5. s[Len(s)] = raw[Len(raw)]
        <5> HIDE DEF s, m, x
        <5> QED BY <4>2, <4>3
      <4> HIDE DEF s
      <4> QED BY <4>4, <4>5
    <3> QED BY <3>1, <3>2
  <2> QED BY <2>1, <2>2 DEF Sec!Bare
<1>9. Sec!trim(b[1] \o s \o c) = s
  <2> HIDE DEF s, c
  <2> QED BY <1>1, <1>4, <1>7, <1>8, TrimPadded
<1>10. Sec!trim(x) = key
  <2>1. Sec!trim(<< >> \o key \o b[2]) = key
    BY <1>1, <1>4, TrimPadded
  <2> QED BY <1>1, <2>1, ConcatEmptySeq
<1>11. Sec!trim(m) = raw
  <2>1. CASE raw = << >>
    <3>1. Sec!trim(<< >> \o raw \o << >>) = raw
      BY <1>1, TrimPadded DEF T
    <3> QED BY <2>1, <3>1, <1>1, ConcatEmptySeq
  <2>2. CASE raw # << >>
    <3>1. Sec!trim(b[3] \o raw \o << >>) = raw
      BY <1>1, <1>4, TrimPadded DEF T
    <3>2. (b[3] \o raw) \o << >> = m
      BY <1>4, <2>2, ConcatEmptySeq
    <3> QED BY <3>1, <3>2
  <2> QED BY <2>1, <2>2
<1> QED BY <1>3, <1>7, <1>9, <1>10, <1>11

\* A set of numbers that is not empty has a least one.
LEMMA LeastOf ==
  ASSUME NEW P \in SUBSET Nat, P # {}
  PROVE  \E n \in P : \A m \in P : n <= m
<1>1. PICK n \in P : \A m \in P : <<m, n>> \notin OpToRel(<, Nat)
  BY NatLessThanWellFounded, WFMin
<1>2. ASSUME NEW m \in P PROVE n <= m
  <2>1. ~(m < n)
    BY <1>1 DEF OpToRel
  <2> QED BY <2>1
<1> QED BY <1>2

\* ltrim and rtrim always find the place they look for.
LEMMA LtrimPart ==
  ASSUME NEW T, NEW s \in Seq(T)
  PROVE  \E k \in 1 .. Len(s) + 1 :
           /\ k <= Len(s) => s[k] # Sec!Space
           /\ \A j \in 1 .. k - 1 : s[j] = Sec!Space
           /\ Sec!ltrim(s) = SubSeq(s, k, Len(s))
<1> DEFINE P == {k \in 1 .. Len(s) + 1 : k <= Len(s) => s[k] # Sec!Space}
<1>1. Len(s) \in Nat
  OBVIOUS
<1>2. P \in SUBSET Nat /\ Len(s) + 1 \in P
  BY <1>1
<1>3. PICK k \in P : \A m \in P : k <= m
  <2> HIDE DEF P
  <2> QED BY <1>2, LeastOf
<1>4. k \in 1 .. Len(s) + 1 /\ (k <= Len(s) => s[k] # Sec!Space)
  OBVIOUS
<1>5. ASSUME NEW j \in 1 .. k - 1 PROVE s[j] = Sec!Space
  BY <1>1, <1>3
<1>6. Sec!ltrim(s) = SubSeq(s, k, Len(s))
  <2> HIDE DEF P
  <2> QED BY <1>4, <1>5, LtrimIs
<1> QED BY <1>4, <1>5, <1>6

LEMMA RtrimPart ==
  ASSUME NEW T, NEW s \in Seq(T)
  PROVE  \E n \in 0 .. Len(s) :
           /\ n > 0 => s[n] # Sec!Space
           /\ \A j \in n + 1 .. Len(s) : s[j] = Sec!Space
           /\ Sec!rtrim(s) = SubSeq(s, 1, n)
<1> DEFINE P == {n \in 0 .. Len(s) : \A j \in n + 1 .. Len(s) : s[j] = Sec!Space}
<1>1. Len(s) \in Nat
  OBVIOUS
<1>2. P \in SUBSET Nat /\ Len(s) \in P
  BY <1>1
<1>3. PICK n \in P : \A m \in P : n <= m
  <2> HIDE DEF P
  <2> QED BY <1>2, LeastOf
<1>4. n \in 0 .. Len(s) /\ \A j \in n + 1 .. Len(s) : s[j] = Sec!Space
  OBVIOUS
<1>5. ASSUME n > 0 PROVE s[n] # Sec!Space
  <2>a. n - 1 \in 0 .. Len(s) /\ ~(n <= n - 1)
    BY <1>1, <1>4, <1>5
  <2>b. n - 1 \notin P
    <3> HIDE DEF P
    <3> QED BY <1>3, <2>a
  <2>1. n - 1 \notin P /\ n - 1 \in 0 .. Len(s)
    BY <2>a, <2>b
  <2>2. PICK j \in (n - 1) + 1 .. Len(s) : s[j] # Sec!Space
    BY <2>1
  <2>3. ~(j \in n + 1 .. Len(s))
    BY <1>4, <2>2
  <2>4. j = n
    BY <1>1, <1>4, <2>2, <2>3
  <2> QED BY <2>2, <2>4
<1>6. Sec!rtrim(s) = SubSeq(s, 1, n)
  <2> HIDE DEF P
  <2> QED BY <1>4, <1>5, RtrimIs
<1> QED BY <1>4, <1>5, <1>6

\* trim adds no token.
LEMMA TrimPart ==
  ASSUME NEW T, NEW s \in Seq(T), NEW t, ~Sec!Holds(s, t)
  PROVE  ~Sec!Holds(Sec!trim(s), t)
<1>1. PICK k \in 1 .. Len(s) + 1 : Sec!ltrim(s) = SubSeq(s, k, Len(s))
  BY LtrimPart
<1> DEFINE l == Sec!ltrim(s)
<1>2. Len(s) \in Nat /\ DOMAIN s = 1 .. Len(s) /\ \A i \in 1 .. Len(s) : s[i] \in T /\ s[i] # t
  BY DEF Sec!Holds
<1>3. \A i \in k .. Len(s) : s[i] \in T \ {t}
  BY <1>2
<1>4. k \in Int /\ Len(s) \in Int
  BY <1>2
<1>5. l \in Seq(T \ {t})
  BY <1>1, <1>3, <1>4, SubSeqProperties
<1> HIDE DEF l
<1>6. PICK n \in 0 .. Len(l) : Sec!rtrim(l) = SubSeq(l, 1, n)
  BY <1>5, RtrimPart
<1>7. \A i \in 1 .. n : l[i] \in T \ {t}
  BY <1>5, <1>6
<1>8. n \in Int
  BY <1>5, <1>6
<1>9. Sec!rtrim(l) \in Seq(T \ {t})
  BY <1>6, <1>7, <1>8, SubSeqProperties
<1> QED BY <1>9 DEF Sec!Holds, Sec!trim, l

-----------------------------------------------------------------------------
(* Secrets: the lines.                                                     *)

Untouched == UNCHANGED <<in_multiline, ml_key, buf, specified>>

\* A line without "=" is skipped.
LEMMA NoEqualsSkipped ==
  ASSUME NEW w \in Words, ~Sec!Holds(w, Sec!Equals), Sec!OtherLine(w)
  PROVE  Untouched
<1>1. ~Sec!Holds(Sec!trim(w), Sec!Equals)
  BY Tokens, TrimPart
<1> QED BY <1>1 DEF Sec!OtherLine, Untouched

\* So is one with nothing before the "=".
LEMMA NoKeySkipped ==
  ASSUME NEW b \in Blanks, NEW w \in Words, Sec!OtherLine(b[1] \o <<Sec!Equals>> \o w)
  PROVE  Untouched
<1> DEFINE T == Sec!Token
           x == b[1]
           line == x \o <<Sec!Equals>> \o w
           l == Sec!ltrim(line)
           s == Sec!trim(line)
<1>1. x \in Seq(T) /\ w \in Seq(T) /\ Sec!Equals \in T /\ Sec!Equals # Sec!Space
      /\ \A j \in DOMAIN x : x[j] = Sec!Space
  <2>1. x \in Seq({Sec!Space}) /\ x \in Seq(T)
    BY Tokens
  <2> QED BY <2>1, Tokens
<1> HIDE DEF T, x
<1>2. \A j \in DOMAIN x : x[j] # Sec!Equals
  BY <1>1
<1>3. /\ line \in Seq(T) /\ Len(line) = Len(x) + 1 + Len(w)
      /\ \A i \in DOMAIN x : line[i] = x[i]
      /\ line[Len(x) + 1] = Sec!Equals
  BY <1>1, <1>2, SplitAt
<1> HIDE DEF line
<1>4. Len(x) \in Nat /\ Len(w) \in Nat /\ DOMAIN x = 1 .. Len(x)
  BY <1>1
<1> DEFINE k == Len(x) + 1
<1>5. /\ k \in 1 .. Len(line) + 1 /\ k <= Len(line) /\ line[k] # Sec!Space
      /\ \A j \in 1 .. k - 1 : line[j] = Sec!Space
  <2>1. k \in 1 .. Len(line) + 1 /\ k <= Len(line) /\ line[k] # Sec!Space
    BY <1>1, <1>3, <1>4
  <2>2. ASSUME NEW j \in 1 .. k - 1 PROVE line[j] = Sec!Space
    <3>1. j \in DOMAIN x
      BY <1>4
    <3> QED BY <1>1, <1>3, <3>1
  <2> QED BY <2>1, <2>2
<1>6. l = SubSeq(line, k, Len(line))
  <2> HIDE DEF k
  <2> QED BY <1>3, <1>5, LtrimIs
<1>7. k \in Int /\ Len(line) \in Int /\ \A i \in k .. Len(line) : line[i] \in T
  BY <1>3, <1>4
<1>8. /\ l \in Seq(T) /\ Len(l) = Len(line) - k + 1
      /\ \A i \in 1 .. Len(line) - k + 1 : l[i] = line[k + i - 1]
  <2> HIDE DEF k, l
  <2> QED BY <1>5, <1>6, <1>7, SubSeqProperties
<1>9. Len(l) >= 1 /\ l[1] = Sec!Equals
  <2>1. 1 \in 1 .. Len(line) - k + 1 /\ k + 1 - 1 = k
    BY <1>3, <1>4
  <2>2. l[1] = line[k + 1 - 1]
    BY <1>8, <2>1
  <2> QED BY <1>3, <1>8, <2>1, <2>2
<1> HIDE DEF l
<1>10. PICK n \in 0 .. Len(l) :
         /\ \A j \in n + 1 .. Len(l) : l[j] = Sec!Space
         /\ Sec!rtrim(l) = SubSeq(l, 1, n)
  BY <1>8, RtrimPart
<1>11. n >= 1
  <2> SUFFICES ASSUME n = 0 PROVE FALSE
    BY <1>8, <1>10
  <2>1. 1 \in n + 1 .. Len(l)
    BY <1>8, <1>9
  <2> QED BY <1>1, <1>9, <1>10, <2>1
<1>12. s = SubSeq(l, 1, n)
  BY <1>10 DEF Sec!trim, l
<1>13. n \in Int /\ \A i \in 1 .. n : l[i] \in T
  BY <1>8, <1>10
<1>14. s \in Seq(T) /\ Len(s) = n /\ s[1] = Sec!Equals
  <2>1. /\ s \in Seq(T) /\ Len(s) = IF 1 <= n THEN n - 1 + 1 ELSE 0
        /\ \A i \in 1 .. n - 1 + 1 : s[i] = l[1 + i - 1]
    <3> HIDE DEF s
    <3> QED BY <1>12, <1>13, SubSeqProperties
  <2> QED BY <1>9, <1>11, <1>13, <2>1
<1> HIDE DEF s
<1>15. 1 \in 1 .. Len(s) + 1 /\ (1 <= Len(s) => s[1] = Sec!Equals) /\ \A j \in 1 .. 1 - 1 : s[j] # Sec!Equals
  BY <1>11, <1>13, <1>14
<1>16. Sec!Find(s, Sec!Equals) = 1
  BY <1>14, <1>15, FindIs
<1>17. Sec!Before(s, 1) = << >>
  <2>1. SubSeq(s, 1, 1 - 1) = << >>
    BY SubSeqEmpty
  <2> QED BY <2>1 DEF Sec!Before
<1>18. Sec!trim(<< >>) = << >>
  <2>1. << >> \in Seq({Sec!Space}) /\ << >> \in Seq(Sec!Token) /\ Sec!Bare(<< >>)
    BY DEF Sec!Bare
  <2>2. Sec!trim(<< >> \o << >> \o << >>) = << >>
    BY <2>1, Tokens, TrimPadded
  <2> QED BY <2>1, <2>2, ConcatEmptySeq
<1>19. Sec!OtherLine(line)
  BY DEF line, x
<1> QED BY <1>16, <1>17, <1>18, <1>19 DEF Sec!OtherLine, Untouched, s

\* An assignment does what its key and its value say.
LEMMA AssignmentRead ==
  ASSUME NEW b \in Blanks, NEW key \in Sec!Keys, NEW raw \in Seq(Sec!Token), Sec!Bare(raw),
         Sec!OtherLine(Sec!Assignment(b, key, raw))
  PROVE  Sec!Assign(key, raw)
<1>1. key # << >>
  BY DEF Sec!Keys
<1> DEFINE line == Sec!Assignment(b, key, raw)
           s == Sec!trim(line)
<1>2. /\ Sec!Holds(s, Sec!Equals)
      /\ Sec!trim(Sec!Before(s, Sec!Find(s, Sec!Equals))) = key
      /\ Sec!trim(Sec!From(s, Sec!Find(s, Sec!Equals) + 1)) = raw
  BY AssignmentParsed
<1>3. Sec!OtherLine(line)
  OBVIOUS
<1> HIDE DEF line
<1> QED BY <1>1, <1>2, <1>3 DEF Sec!OtherLine

\* What follows the quotes that start a value.
LEMMA AfterQuotes ==
  ASSUME NEW m \in Seq(Sec!Token)
  PROVE  LET raw == <<Sec!Quotes>> \o m IN
         raw \in Seq(Sec!Token) /\ Sec!StartsWith(raw, Sec!Quotes) /\ Tail(raw) = m
<1> DEFINE q == <<Sec!Quotes>>
           raw == q \o m
<1>1. q \in Seq(Sec!Token) /\ Len(q) = 1 /\ q[1] = Sec!Quotes
  BY Tokens
<1> HIDE DEF q
<1>2. /\ raw \in Seq(Sec!Token) /\ Len(raw) = Len(q) + Len(m)
      /\ \A i \in 1 .. Len(q) + Len(m) : raw[i] = IF i <= Len(q) THEN q[i] ELSE m[i - Len(q)]
  BY <1>1, ConcatProperties
<1> HIDE DEF raw
<1>3. Len(m) \in Nat /\ Len(raw) = 1 + Len(m) /\ raw[1] = Sec!Quotes /\ raw # << >>
  BY <1>1, <1>2
<1>4. /\ Tail(raw) \in Seq(Sec!Token) /\ Len(Tail(raw)) = Len(m)
      /\ \A i \in 1 .. Len(Tail(raw)) : Tail(raw)[i] = raw[i + 1]
  BY <1>2, <1>3, HeadTailProperties
<1>5. \A i \in 1 .. Len(Tail(raw)) : Tail(raw)[i] = m[i]
  <2> TAKE i \in 1 .. Len(Tail(raw))
  <2>1. i + 1 \in 1 .. Len(q) + Len(m) /\ ~(i + 1 <= Len(q)) /\ (i + 1) - Len(q) = i
    BY <1>1, <1>3, <1>4
  <2> QED BY <1>2, <1>4, <2>1
<1>6. Tail(raw) = m
  BY <1>4, <1>5, SeqEqual
<1> QED BY <1>2, <1>3, <1>6 DEF Sec!StartsWith, raw, q

\* The value between quotes on one line.
LEMMA BetweenQuotes ==
  ASSUME NEW value \in Sec!Content, NEW rest \in Words
  PROVE  LET raw == <<Sec!Quotes>> \o value \o <<Sec!Quotes>> \o rest IN
         /\ raw \in Seq(Sec!Token) /\ Sec!StartsWith(raw, Sec!Quotes)
         /\ Sec!Holds(Tail(raw), Sec!Quotes)
         /\ Sec!Before(Tail(raw), Sec!Find(Tail(raw), Sec!Quotes)) = value
<1> DEFINE T == Sec!Token
           q == <<Sec!Quotes>>
           m == value \o q \o rest
<1>1. /\ value \in Seq(T) /\ rest \in Seq(T) /\ Sec!Quotes \in T
      /\ \A j \in DOMAIN value : value[j] # Sec!Quotes
  BY Tokens DEF Sec!Content, Sec!Holds
<1>2. q \in Seq(T)
  BY <1>1
<1> HIDE DEF T
<1>3. /\ m \in Seq(T) /\ Sec!Holds(m, Sec!Quotes)
      /\ Sec!Before(m, Sec!Find(m, Sec!Quotes)) = value
  BY <1>1, SplitAt
<1>4. q \o value \o q \o rest = q \o m
  <2> DEFINE vq == Joint(value, q)
  <2>0. \A p, r, u \in Seq(T) :
          Joint(p, r) \in Seq(T) /\ Joint(Joint(p, r), u) = Joint(p, Joint(r, u))
    BY JointAssociative
  <2> HIDE DEF q
  <2>1. vq \in Seq(T) /\ Joint(Joint(q, value), q) = Joint(q, vq)
    BY <1>1, <1>2, <2>0
  <2>2. Joint(Joint(q, vq), rest) = Joint(q, Joint(vq, rest))
    <3> HIDE DEF vq
    <3> QED BY <1>1, <1>2, <2>0, <2>1
  <2>3. Joint(Joint(Joint(q, value), q), rest) = Joint(q, Joint(vq, rest))
    BY <2>1, <2>2
  <2> QED BY <2>3 DEF Joint
<1>5. q \o m \in Seq(Sec!Token) /\ Sec!StartsWith(q \o m, Sec!Quotes) /\ Tail(q \o m) = m
  <2> HIDE DEF m
  <2> QED BY <1>3, AfterQuotes DEF T, q
<1> HIDE DEF m
<1> QED BY <1>3, <1>4, <1>5 DEF q

\* Quotes start a line where ltrim finds its first place that is not blank.
LEMMA StartsAt ==
  ASSUME NEW s \in Seq(Sec!Token), NEW k \in 1 .. Len(s), s[k] # Sec!Space,
         \A j \in 1 .. k - 1 : s[j] = Sec!Space
  PROVE  Sec!StartsWith(Sec!ltrim(s), Sec!Quotes) <=> s[k] = Sec!Quotes
<1> DEFINE l == Sec!ltrim(s)
<1>1. Len(s) \in Nat /\ k \in 1 .. Len(s) + 1 /\ k <= Len(s) /\ k \in Int /\ Len(s) \in Int
      /\ \A i \in k .. Len(s) : s[i] \in Sec!Token
  OBVIOUS
<1>2. l = SubSeq(s, k, Len(s))
  BY <1>1, LtrimIs
<1> HIDE DEF l
<1>3. /\ l \in Seq(Sec!Token) /\ Len(l) = Len(s) - k + 1
      /\ \A i \in 1 .. Len(s) - k + 1 : l[i] = s[k + i - 1]
  BY <1>1, <1>2, SubSeqProperties
<1>4. l # << >> /\ l[1] = s[k]
  <2>1. 1 \in 1 .. Len(s) - k + 1 /\ k + 1 - 1 = k
    BY <1>1
  <2>2. l[1] = s[k + 1 - 1]
    BY <1>3, <2>1
  <2>3. Len(l) # 0
    BY <1>1, <1>3
  <2> QED BY <2>1, <2>2, <2>3
<1> QED BY <1>4 DEF Sec!StartsWith, l

\* A blank line starts with nothing.
LEMMA BlankStarts ==
  ASSUME NEW s \in Seq(Sec!Token), Sec!Blank(s)
  PROVE  ~Sec!StartsWith(Sec!ltrim(s), Sec!Quotes)
<1>1. PICK k \in 1 .. Len(s) + 1 :
        (k <= Len(s) => s[k] # Sec!Space) /\ Sec!ltrim(s) = SubSeq(s, k, Len(s))
  BY LtrimPart
<1>2. k > Len(s)
  BY <1>1 DEF Sec!Blank
<1>3. Len(s) \in Int /\ k \in Int
  OBVIOUS
<1>4. Sec!ltrim(s) = << >>
  BY <1>1, <1>2, <1>3, SubSeqEmpty
<1> QED BY <1>4 DEF Sec!StartsWith

\* The first place of a string that is not blank.
LEMMA FirstSign ==
  ASSUME NEW s \in Seq(Sec!Token), ~Sec!Blank(s)
  PROVE  \E k \in DOMAIN s : s[k] # Sec!Space /\ \A j \in 1 .. k - 1 : s[j] = Sec!Space
<1>1. PICK k \in 1 .. Len(s) + 1 :
        /\ k <= Len(s) => s[k] # Sec!Space
        /\ \A j \in 1 .. k - 1 : s[j] = Sec!Space
  BY LtrimPart
<1>2. PICK i \in DOMAIN s : s[i] # Sec!Space
  BY DEF Sec!Blank
<1>3. ~(i < k)
  BY <1>1, <1>2
<1> QED BY <1>1, <1>2, <1>3

\* A line without quotes goes on with the value.
LEMMA ContentRead ==
  ASSUME NEW line \in Sec!Content, Sec!ContinueMultiline(line)
  PROVE  /\ buf' = buf \o line \o <<Sec!Newline>>
         /\ UNCHANGED <<in_multiline, ml_key, specified>>
<1>1. line \in Seq(Sec!Token) /\ ~Sec!Holds(line, Sec!Quotes)
  BY Tokens DEF Sec!Content
<1>2. ~Sec!StartsWith(Sec!ltrim(line), Sec!Quotes)
  <2>1. CASE Sec!Blank(line)
    BY <1>1, <2>1, BlankStarts
  <2>2. CASE ~Sec!Blank(line)
    <3>1. PICK k \in DOMAIN line : line[k] # Sec!Space /\ \A j \in 1 .. k - 1 : line[j] = Sec!Space
      BY <1>1, <2>2, FirstSign
    <3>2. k \in 1 .. Len(line) /\ line[k] # Sec!Quotes
      BY <1>1 DEF Sec!Holds
    <3> QED BY <1>1, <3>1, <3>2, StartsAt
  <2> QED BY <2>1, <2>2
<1> QED BY <1>1, <1>2 DEF Sec!ContinueMultiline

\* Quotes end the value: before them a last line, or nothing.
LEMMA ClosingRead ==
  ASSUME NEW line \in Sec!Content, NEW rest \in Words,
         Sec!ContinueMultiline(line \o <<Sec!Quotes>> \o rest)
  PROVE  Sec!finish_multiline(IF ~Sec!Blank(line) THEN buf \o line
                            ELSE IF buf # << >> THEN Sec!Front(buf) ELSE buf)
<1> DEFINE T == Sec!Token
           s == line \o <<Sec!Quotes>> \o rest
<1>1. /\ line \in Seq(T) /\ rest \in Seq(T) /\ Sec!Quotes \in T /\ Sec!Quotes # Sec!Space
      /\ \A j \in DOMAIN line : line[j] # Sec!Quotes
  BY Tokens DEF Sec!Content, Sec!Holds
<1> HIDE DEF T
<1>2. /\ s \in Seq(T) /\ Sec!Holds(s, Sec!Quotes)
      /\ Sec!Before(s, Sec!Find(s, Sec!Quotes)) = line
      /\ Len(s) = Len(line) + 1 + Len(rest)
      /\ \A i \in DOMAIN line : s[i] = line[i]
      /\ s[Len(line) + 1] = Sec!Quotes
  BY <1>1, SplitAt
<1>3. Sec!ContinueMultiline(s)
  OBVIOUS
<1> HIDE DEF s
<1>4. Len(line) \in Nat /\ Len(rest) \in Nat /\ DOMAIN line = 1 .. Len(line)
  BY <1>1
<1>5. CASE Sec!Blank(line)
  <2> DEFINE k == Len(line) + 1
  <2>1. k \in 1 .. Len(s) /\ s[k] = Sec!Quotes /\ s[k] # Sec!Space
    BY <1>1, <1>2, <1>4
  <2>2. ASSUME NEW j \in 1 .. k - 1 PROVE s[j] = Sec!Space
    <3>1. j \in DOMAIN line
      BY <1>4
    <3> QED BY <1>2, <1>5, <3>1 DEF Sec!Blank
  <2>3. s \in Seq(Sec!Token)
    BY <1>2 DEF T
  <2>4. Sec!StartsWith(Sec!ltrim(s), Sec!Quotes)
    <3> HIDE DEF k
    <3> QED BY <2>1, <2>2, <2>3, StartsAt
  <2> QED BY <1>3, <1>5, <2>4 DEF Sec!ContinueMultiline
<1>6. CASE ~Sec!Blank(line)
  <2>1. PICK k \in DOMAIN line : line[k] # Sec!Space /\ \A j \in 1 .. k - 1 : line[j] = Sec!Space
    BY <1>1, <1>6, FirstSign DEF T
  <2>2. k \in 1 .. Len(s) /\ s[k] = line[k] /\ s[k] # Sec!Space /\ s[k] # Sec!Quotes
    BY <1>1, <1>2, <1>4, <2>1
  <2>3. ASSUME NEW j \in 1 .. k - 1 PROVE s[j] = Sec!Space
    <3>1. j \in DOMAIN line
      BY <1>4
    <3> QED BY <1>2, <2>1, <3>1
  <2>4. s \in Seq(Sec!Token)
    BY <1>2 DEF T
  <2>5. ~Sec!StartsWith(Sec!ltrim(s), Sec!Quotes)
    BY <2>2, <2>3, <2>4, StartsAt
  <2> QED BY <1>2, <1>3, <1>6, <2>5 DEF Sec!ContinueMultiline
<1> QED BY <1>5, <1>6

-----------------------------------------------------------------------------
(* Secrets: the invariant.                                                 *)

\* The names that ltf_parse_secrets saw, each once, have the values of the file.
SecretsGiven ==
  \A i \in 1 .. s_validated :
    /\ \E j \in DOMAIN meant :
         meant[j].key = secrets[i].key /\ meant[j].value = secrets[i].value
    /\ \A j \in 1 .. s_validated : secrets[j].key = secrets[i].key => j = i

Strings == Seq(Sec!Token)
Pairs   == [key : Strings, value : Strings]

\* What the parser has read, and is reading: buf holds the lines of the value
\* that is open, each with a newline.
FileInv ==
  /\ lines \in 0 .. MaxLines
  /\ meant \in Seq(Pairs) /\ open \in Strings /\ text \in Strings \cup {Sec!Null}
  /\ specified = meant
  /\ in_multiline = (open # << >>)
  /\ ml_key = open
  /\ open = << >> => text = Sec!Null
  /\ buf = IF text = Sec!Null THEN << >> ELSE text \o <<Sec!Newline>>

SecretsInv ==
  /\ FileInv
  /\ s_pc \in {"lib", "read", "validate", "tests", "run", "done", "failed"}
  /\ secrets \in Seq([key : SecretNames, value : Strings \cup {Sec!Null}])
  /\ s_validated \in 0 .. Len(secrets)
  /\ s_calls \in 0 .. MaxCalls
  /\ Sec!Started => SecretsGiven

LEMMA InitSecretsInv == Sec!Init => SecretsInv
<1> SUFFICES ASSUME Sec!Init PROVE SecretsInv
  OBVIOUS
<1>1. MaxLines \in Nat /\ MaxCalls \in Nat
  BY SecretsAssumption DEF Sec!ConstantsOK
<1>2. << >> \in Seq(Pairs) /\ << >> \in Strings
      /\ << >> \in Seq([key : SecretNames, value : Strings \cup {Sec!Null}])
  BY DEF Strings
<1>3. FileInv
  <2>1. /\ lines = 0 /\ meant = << >> /\ open = << >> /\ text = Sec!Null /\ specified = << >>
        /\ in_multiline = FALSE /\ ml_key = << >> /\ buf = << >>
    BY DEF Sec!Init
  <2>2. in_multiline = (open # << >>)
    BY <2>1
  <2>3. lines \in 0 .. MaxLines /\ meant \in Seq(Pairs) /\ open \in Strings /\ text \in Strings \cup {Sec!Null}
    BY <1>1, <1>2, <2>1
  <2> QED BY <2>1, <2>2, <2>3 DEF FileInv
<1> QED BY <1>1, <1>2, <1>3 DEF Sec!Init, SecretsInv, Sec!Started

\* A line is read, or the end of the file: nothing else changes.
LEMMA OnlyFile ==
  ASSUME SecretsInv, FileInv', UNCHANGED <<secrets, s_validated, s_calls>>,
         s_pc' \in {"read", "validate"}
  PROVE  SecretsInv'
<1>1. ~Sec!Started'
  BY DEF Sec!Started
<1> QED BY <1>1 DEF SecretsInv

LEMMA JoinedType ==
  ASSUME FileInv, NEW line \in Words
  PROVE  Sec!Joined(line) \in Strings /\ line \in Strings
<1>1. line \in Strings /\ <<Sec!Newline>> \in Strings
  BY Tokens DEF Strings
<1>2. ASSUME text # Sec!Null PROVE text \o <<Sec!Newline>> \o line \in Strings
  <2>1. text \in Strings
    BY <1>2 DEF FileInv
  <2> QED BY <1>1, <2>1 DEF Strings
<1> QED BY <1>1, <1>2 DEF Sec!Joined

LEMMA MalformedKeeps ==
  ASSUME SecretsInv, Sec!Malformed
  PROVE  SecretsInv'
<1>1. PICK w \in Words, b \in Blanks :
        \/ ~Sec!Holds(w, Sec!Equals) /\ Sec!ReadLine(w)
        \/ Sec!ReadLine(b[1] \o <<Sec!Equals>> \o w)
  BY DEF Sec!Malformed
<1>2. open = << >> /\ ~in_multiline
  BY DEF Sec!Malformed, SecretsInv, FileInv
<1>3. Untouched
  <2>1. CASE ~Sec!Holds(w, Sec!Equals) /\ Sec!ReadLine(w)
    BY <1>2, <2>1, NoEqualsSkipped DEF Sec!ReadLine
  <2>2. CASE Sec!ReadLine(b[1] \o <<Sec!Equals>> \o w)
    BY <1>2, <2>2, NoKeySkipped DEF Sec!ReadLine
  <2> QED BY <1>1, <2>1, <2>2
<1>4. /\ s_pc = "read" /\ lines < MaxLines /\ lines' = lines + 1
      /\ UNCHANGED <<s_pc, secrets, s_validated, s_calls>>
      /\ UNCHANGED <<meant, open, text>>
  BY <1>1 DEF Sec!Malformed, Sec!ReadLine, Sec!history
<1>5. lines' \in 0 .. MaxLines
  BY <1>4, SecretsAssumption DEF SecretsInv, FileInv, Sec!ConstantsOK
<1>6. FileInv'
  BY <1>3, <1>4, <1>5 DEF SecretsInv, FileInv, Untouched
<1> QED BY <1>4, <1>6, OnlyFile

\* A pair is read, and meant.
LEMMA PairKeeps ==
  ASSUME FileInv, NEW key \in Strings, NEW value \in Strings,
         Sec!Means(key, value), lines' \in 0 .. MaxLines,
         specified' = Append(specified, [key |-> key, value |-> value]),
         open' = << >>, text' = Sec!Null, in_multiline' = FALSE, ml_key' = << >>, buf' = << >>
  PROVE  FileInv'
<1>1. [key |-> key, value |-> value] \in Pairs
  BY DEF Pairs
<1>2. meant' \in Seq(Pairs) /\ specified' = meant'
  BY <1>1 DEF FileInv, Sec!Means
<1>3. << >> \in Strings
  BY DEF Strings
<1> QED BY <1>2, <1>3 DEF FileInv

\* An assignment outside a value.
LEMMA AssignmentStep ==
  ASSUME SecretsInv, open = << >>, NEW b \in Blanks, NEW key \in Sec!Keys,
         NEW raw \in Seq(Sec!Token), Sec!Bare(raw), Sec!ReadLine(Sec!Assignment(b, key, raw))
  PROVE  /\ Sec!Assign(key, raw)
         /\ s_pc = "read" /\ lines' \in 0 .. MaxLines
         /\ UNCHANGED <<s_pc, secrets, s_validated, s_calls>>
         /\ ~in_multiline /\ ml_key = << >> /\ buf = << >> /\ text = Sec!Null
         /\ key \in Strings /\ key # << >>
<1>1. ~in_multiline /\ ml_key = << >> /\ buf = << >> /\ text = Sec!Null
  BY DEF SecretsInv, FileInv
<1>2. Sec!OtherLine(Sec!Assignment(b, key, raw))
  BY <1>1 DEF Sec!ReadLine
<1>3. Sec!Assign(key, raw)
  BY <1>2, AssignmentRead
<1>4. /\ s_pc = "read" /\ lines < MaxLines /\ lines' = lines + 1
      /\ UNCHANGED <<s_pc, secrets, s_validated, s_calls>>
  BY DEF Sec!ReadLine
<1>5. lines' \in 0 .. MaxLines
  BY <1>4, SecretsAssumption DEF SecretsInv, FileInv, Sec!ConstantsOK
<1>6. key \in Strings /\ key # << >>
  BY Tokens DEF Sec!Keys, Strings
<1> QED BY <1>1, <1>3, <1>4, <1>5, <1>6

LEMMA PlainPairKeeps ==
  ASSUME SecretsInv, Sec!PlainPair
  PROVE  SecretsInv'
<1>1. PICK b \in Blanks, key \in Sec!Keys, value \in Words :
        /\ Sec!Bare(value) /\ ~Sec!StartsWith(value, Sec!Quotes)
        /\ Sec!ReadLine(Sec!Assignment(b, key, value))
        /\ Sec!Means(key, value)
  BY DEF Sec!PlainPair
<1>2. open = << >> /\ UNCHANGED <<open, text>>
  BY DEF Sec!PlainPair
<1>3. value \in Seq(Sec!Token)
  BY Tokens
<1>4. /\ Sec!Assign(key, value)
      /\ s_pc = "read" /\ lines' \in 0 .. MaxLines
      /\ UNCHANGED <<s_pc, secrets, s_validated, s_calls>>
      /\ ~in_multiline /\ ml_key = << >> /\ buf = << >> /\ text = Sec!Null
      /\ key \in Strings
  BY <1>1, <1>2, <1>3, AssignmentStep
<1>5. /\ specified' = Append(specified, [key |-> key, value |-> value])
      /\ UNCHANGED <<in_multiline, ml_key, buf>>
  BY <1>1, <1>4 DEF Sec!Assign
<1>6. in_multiline = FALSE
  BY <1>4 DEF SecretsInv, FileInv
<1>7. FileInv'
  BY <1>1, <1>2, <1>3, <1>4, <1>5, <1>6, PairKeeps DEF SecretsInv, Strings
<1> QED BY <1>4, <1>7, OnlyFile

LEMMA QuotedPairKeeps ==
  ASSUME SecretsInv, Sec!QuotedPair
  PROVE  SecretsInv'
<1>1. PICK b \in Blanks, key \in Sec!Keys, value \in Sec!Content, rest \in Words :
        LET raw == <<Sec!Quotes>> \o value \o <<Sec!Quotes>> \o rest IN
        /\ Sec!Bare(raw)
        /\ Sec!ReadLine(Sec!Assignment(b, key, raw))
        /\ Sec!Means(key, value)
  BY DEF Sec!QuotedPair
<1> DEFINE raw == <<Sec!Quotes>> \o value \o <<Sec!Quotes>> \o rest
<1>2. open = << >> /\ UNCHANGED <<open, text>>
  BY DEF Sec!QuotedPair
<1>3. /\ raw \in Seq(Sec!Token) /\ Sec!StartsWith(raw, Sec!Quotes)
      /\ Sec!Holds(Tail(raw), Sec!Quotes)
      /\ Sec!Before(Tail(raw), Sec!Find(Tail(raw), Sec!Quotes)) = value
  BY BetweenQuotes
<1>a. Sec!Bare(raw) /\ Sec!ReadLine(Sec!Assignment(b, key, raw)) /\ Sec!Means(key, value)
  BY <1>1
<1> HIDE DEF raw
<1>4. /\ Sec!Assign(key, raw)
      /\ s_pc = "read" /\ lines' \in 0 .. MaxLines
      /\ UNCHANGED <<s_pc, secrets, s_validated, s_calls>>
      /\ ~in_multiline /\ ml_key = << >> /\ buf = << >> /\ text = Sec!Null
      /\ key \in Strings
  BY <1>a, <1>2, <1>3, AssignmentStep
<1>5. /\ specified' = Append(specified, [key |-> key, value |-> value])
      /\ UNCHANGED <<in_multiline, ml_key, buf>>
  BY <1>3, <1>4 DEF Sec!Assign
<1>6. in_multiline = FALSE /\ value \in Strings
  BY <1>4, Tokens DEF SecretsInv, FileInv, Sec!Content, Strings
<1>7. FileInv'
  BY <1>a, <1>2, <1>4, <1>5, <1>6, PairKeeps DEF SecretsInv
<1> QED BY <1>4, <1>7, OnlyFile

LEMMA OpenValueKeeps ==
  ASSUME SecretsInv, Sec!OpenValue
  PROVE  SecretsInv'
<1>1. PICK b \in Blanks, key \in Sec!Keys, first \in Sec!Content :
        LET raw == <<Sec!Quotes>> \o first IN
        /\ Sec!Bare(raw)
        /\ Sec!ReadLine(Sec!Assignment(b, key, raw))
        /\ open' = key
        /\ text' = IF first = << >> THEN Sec!Null ELSE first
  BY DEF Sec!OpenValue
<1> DEFINE raw == <<Sec!Quotes>> \o first
<1>2. open = << >> /\ meant' = meant
  BY DEF Sec!OpenValue
<1>b. first \in Strings /\ first \in Seq(Sec!Token) /\ ~Sec!Holds(first, Sec!Quotes) /\ first # Sec!Null
  BY Tokens DEF Sec!Content, Strings
<1>3. raw \in Seq(Sec!Token) /\ Sec!StartsWith(raw, Sec!Quotes) /\ Tail(raw) = first
  BY <1>b, AfterQuotes
<1>a. Sec!Bare(raw) /\ Sec!ReadLine(Sec!Assignment(b, key, raw))
      /\ open' = key /\ text' = IF first = << >> THEN Sec!Null ELSE first
  BY <1>1
<1> HIDE DEF raw
<1>4. /\ Sec!Assign(key, raw)
      /\ s_pc = "read" /\ lines' \in 0 .. MaxLines
      /\ UNCHANGED <<s_pc, secrets, s_validated, s_calls>>
      /\ key \in Strings /\ key # << >>
  BY <1>a, <1>2, <1>3, AssignmentStep
<1>5. /\ in_multiline' = TRUE /\ ml_key' = key
      /\ buf' = IF first = << >> THEN first ELSE first \o <<Sec!Newline>>
      /\ UNCHANGED specified
  BY <1>b, <1>3, <1>4 DEF Sec!Assign
<1>6. FileInv'
  <2>1. buf' = IF text' = Sec!Null THEN << >> ELSE text' \o <<Sec!Newline>>
    BY <1>a, <1>b, <1>5
  <2>2. text' \in Strings \cup {Sec!Null} /\ open' \in Strings /\ open' # << >>
    BY <1>a, <1>b, <1>4
  <2> QED BY <1>a, <1>2, <1>4, <1>5, <2>1, <2>2 DEF SecretsInv, FileInv
<1> QED BY <1>4, <1>6, OnlyFile

\* A line inside a value.
LEMMA ValueStep ==
  ASSUME SecretsInv, open # << >>, NEW line, Sec!ReadLine(line)
  PROVE  /\ Sec!ContinueMultiline(line)
         /\ s_pc = "read" /\ lines' \in 0 .. MaxLines
         /\ UNCHANGED <<s_pc, secrets, s_validated, s_calls>>
<1>1. in_multiline
  BY DEF SecretsInv, FileInv
<1>2. /\ s_pc = "read" /\ lines < MaxLines /\ lines' = lines + 1
      /\ UNCHANGED <<s_pc, secrets, s_validated, s_calls>>
      /\ Sec!ContinueMultiline(line)
  BY <1>1 DEF Sec!ReadLine
<1>3. lines' \in 0 .. MaxLines
  BY <1>2, SecretsAssumption DEF SecretsInv, FileInv, Sec!ConstantsOK
<1> QED BY <1>2, <1>3

LEMMA ContentLineKeeps ==
  ASSUME SecretsInv, Sec!ContentLine
  PROVE  SecretsInv'
<1>1. PICK line \in Sec!Content : Sec!ReadLine(line) /\ text' = Sec!Joined(line)
  BY DEF Sec!ContentLine
<1>2. open # << >> /\ UNCHANGED <<meant, open>>
  BY DEF Sec!ContentLine
<1>3. /\ Sec!ContinueMultiline(line)
      /\ s_pc = "read" /\ lines' \in 0 .. MaxLines
      /\ UNCHANGED <<s_pc, secrets, s_validated, s_calls>>
  BY <1>1, <1>2, ValueStep
<1>4. /\ buf' = buf \o line \o <<Sec!Newline>>
      /\ UNCHANGED <<in_multiline, ml_key, specified>>
  BY <1>3, ContentRead
<1>5. line \in Words /\ line \in Strings /\ Sec!Joined(line) \in Strings
  BY JoinedType DEF Sec!Content, SecretsInv
<1>6. text' # Sec!Null /\ text' \in Strings
  BY <1>1, <1>5, Tokens DEF Strings
<1>7. buf' = text' \o <<Sec!Newline>>
  <2>1. CASE text = Sec!Null
    <3>1. buf = << >> /\ text' = line
      BY <1>1, <2>1 DEF Sec!Joined, SecretsInv, FileInv
    <3>2. << >> \o line = line
      BY <1>5, ConcatEmptySeq DEF Strings
    <3> QED BY <1>4, <3>1, <3>2
  <2>2. CASE text # Sec!Null
    <3>1. buf = text \o <<Sec!Newline>> /\ text' = text \o <<Sec!Newline>> \o line
      BY <1>1, <2>2 DEF Sec!Joined, SecretsInv, FileInv
    <3> QED BY <1>4, <3>1
  <2> QED BY <2>1, <2>2
<1>8. FileInv'
  BY <1>2, <1>3, <1>4, <1>6, <1>7 DEF SecretsInv, FileInv
<1> QED BY <1>3, <1>8, OnlyFile

\* The value of the lines that were collected, without the last newline.
LEMMA Collected ==
  ASSUME FileInv
  PROVE  (IF buf # << >> THEN Sec!Front(buf) ELSE buf) = (IF text = Sec!Null THEN << >> ELSE text)
<1>1. CASE text = Sec!Null
  BY <1>1 DEF FileInv
<1>2. CASE text # Sec!Null
  <2> DEFINE n == <<Sec!Newline>>
  <2>1. text \in Seq(Sec!Token) /\ n \in Seq(Sec!Token) /\ Len(n) = 1 /\ buf = text \o n
    BY <1>2, Tokens DEF FileInv, Strings
  <2> HIDE DEF n
  <2>b. text \in Seq(Sec!Token) /\ n \in Seq(Sec!Token)
    BY <2>1
  <2>c. text \o n \in Seq(Sec!Token) /\ Len(text \o n) = Len(text) + Len(n)
    BY <2>b, ConcatProperties
  <2>a. text \o n \in Seq(Sec!Token) /\ Len(text \o n) = Len(text) + Len(n) /\ Len(text) \in Nat
    BY <2>b, <2>c
  <2>2. buf \in Seq(Sec!Token) /\ Len(buf) = Len(text) + 1 /\ Len(text) \in Nat
    BY <2>1, <2>a
  <2>3. SubSeq(buf, 1, Len(text)) = text
    BY <2>1, Prefix
  <2>4. Sec!Front(buf) = text
    BY <2>2, <2>3 DEF Sec!Front
  <2> QED BY <1>2, <2>2, <2>4
<1> QED BY <1>1, <1>2

LEMMA ClosingLineKeeps ==
  ASSUME SecretsInv, Sec!ClosingLine
  PROVE  SecretsInv'
<1> DEFINE plain == IF text = Sec!Null THEN << >> ELSE text
<1>1. PICK line \in Sec!Content, rest \in Words :
        /\ Sec!ReadLine(line \o <<Sec!Quotes>> \o rest)
        /\ Sec!Means(open, IF ~Sec!Blank(line) THEN Sec!Joined(line) ELSE plain)
  BY DEF Sec!ClosingLine
<1>2. open # << >> /\ open' = << >> /\ text' = Sec!Null
  BY DEF Sec!ClosingLine
<1>3. /\ Sec!ContinueMultiline(line \o <<Sec!Quotes>> \o rest)
      /\ s_pc = "read" /\ lines' \in 0 .. MaxLines
      /\ UNCHANGED <<s_pc, secrets, s_validated, s_calls>>
  BY <1>1, <1>2, ValueStep
<1>4. Sec!finish_multiline(IF ~Sec!Blank(line) THEN buf \o line
                         ELSE IF buf # << >> THEN Sec!Front(buf) ELSE buf)
  BY <1>3, ClosingRead
<1>5. line \in Words /\ line \in Strings /\ Sec!Joined(line) \in Strings /\ FileInv
  BY JoinedType DEF Sec!Content, SecretsInv
<1>6. buf \o line = Sec!Joined(line)
  <2>1. CASE text = Sec!Null
    <3>1. buf = << >> /\ Sec!Joined(line) = line
      BY <1>5, <2>1 DEF Sec!Joined, FileInv
    <3>2. << >> \o line = line
      BY <1>5, ConcatEmptySeq DEF Strings
    <3> QED BY <3>1, <3>2
  <2>2. CASE text # Sec!Null
    BY <1>5, <2>2 DEF Sec!Joined, FileInv
  <2> QED BY <2>1, <2>2
<1>7. (IF buf # << >> THEN Sec!Front(buf) ELSE buf) = plain
  BY <1>5, Collected
<1> DEFINE value == IF ~Sec!Blank(line) THEN Sec!Joined(line) ELSE plain
<1>8. Sec!finish_multiline(value) /\ Sec!Means(open, value)
  BY <1>1, <1>4, <1>6, <1>7
<1>9. value \in Strings /\ open \in Strings /\ ml_key = open
  BY <1>5 DEF FileInv, Strings
<1> HIDE DEF value
<1>10. /\ specified' = Append(specified, [key |-> open, value |-> value])
       /\ in_multiline' = FALSE /\ ml_key' = << >> /\ buf' = << >>
  BY <1>8, <1>9 DEF Sec!finish_multiline
<1>11. FileInv'
  BY <1>2, <1>3, <1>5, <1>8, <1>9, <1>10, PairKeeps
<1> QED BY <1>3, <1>11, OnlyFile

LEMMA EndOfFileKeeps ==
  ASSUME SecretsInv, Sec!EndOfFile
  PROVE  SecretsInv'
<1>1. /\ s_pc' = "validate" /\ open' = << >> /\ text' = Sec!Null
      /\ UNCHANGED <<lines, secrets, s_validated, s_calls>>
  BY DEF Sec!EndOfFile
<1>2. FileInv /\ lines' \in 0 .. MaxLines
  BY <1>1 DEF SecretsInv, FileInv
<1>3. FileInv'
  <2>1. CASE open = << >>
    <3>1. ~in_multiline /\ UNCHANGED meant /\ << >> \in Strings
      BY <1>2, <2>1 DEF FileInv, Sec!EndOfFile, Strings
    <3>2. UNCHANGED <<in_multiline, ml_key, buf, specified>>
      BY <3>1 DEF Sec!EndOfFile
    <3> QED BY <1>1, <1>2, <2>1, <3>1, <3>2 DEF FileInv
  <2>2. CASE open # << >>
    <3>a. in_multiline /\ open \in Strings /\ ml_key = open
          /\ buf = IF text = Sec!Null THEN << >> ELSE text \o <<Sec!Newline>>
      BY <1>2, <2>2 DEF FileInv
    <3>b. buf \in Strings
      <4>1. CASE text = Sec!Null
        BY <3>a, <4>1 DEF Strings
      <4>2. CASE text # Sec!Null
        <5>1. text \in Seq(Sec!Token) /\ <<Sec!Newline>> \in Seq(Sec!Token)
          BY <1>2, <4>2, Tokens DEF FileInv, Strings
        <5> QED BY <3>a, <4>2, <5>1 DEF Strings
      <4> QED BY <4>1, <4>2
    <3>1. in_multiline /\ open \in Strings /\ ml_key = open /\ buf \in Strings
          /\ buf = IF text = Sec!Null THEN << >> ELSE text \o <<Sec!Newline>>
      BY <3>a, <3>b
    <3>2. Sec!finish_multiline(buf) /\ Sec!Means(open, buf)
      BY <2>2, <3>1 DEF Sec!EndOfFile
    <3>3. /\ specified' = Append(specified, [key |-> open, value |-> buf])
          /\ in_multiline' = FALSE /\ ml_key' = << >> /\ buf' = << >>
      BY <3>1, <3>2 DEF Sec!finish_multiline
    <3> QED BY <1>1, <1>2, <3>1, <3>2, <3>3, PairKeeps
  <2> QED BY <2>1, <2>2
<1> QED BY <1>1, <1>3, OnlyFile

Registration == [key : SecretNames, value : Strings \cup {Sec!Null}]

\* After the file was read its pairs stay.
LEMMA FileUnchanged ==
  ASSUME FileInv, UNCHANGED <<lines, meant, open, text, in_multiline, ml_key, buf, specified>>
  PROVE  FileInv'
BY DEF FileInv

LEMMA CannotReadKeeps ==
  ASSUME SecretsInv, Sec!CannotRead
  PROVE  SecretsInv'
<1>1. /\ s_pc' = "failed" /\ UNCHANGED <<secrets, s_validated, s_calls>>
      /\ UNCHANGED <<lines, meant, open, text, in_multiline, ml_key, buf, specified>>
  BY DEF Sec!CannotRead, Sec!parser, Sec!history
<1>2. FileInv'
  BY <1>1, FileUnchanged DEF SecretsInv
<1> QED BY <1>1, <1>2 DEF SecretsInv, Sec!Started

\* Names that are registered later stand behind those that were validated.
LEMMA RegisterSecretsKeeps ==
  ASSUME SecretsInv, NEW names \in Sec!SeqOf(SecretNames, MaxNames), Sec!RegisterSecrets(names)
  PROVE  SecretsInv'
<1>1. /\ s_calls < MaxCalls /\ s_calls' = s_calls + 1
      /\ UNCHANGED <<s_pc, s_validated>>
      /\ UNCHANGED <<lines, meant, open, text, in_multiline, ml_key, buf, specified>>
  BY DEF Sec!RegisterSecrets, Sec!parser, Sec!history
<1>2. FileInv'
  BY <1>1, FileUnchanged DEF SecretsInv
<1>3. s_calls' \in 0 .. MaxCalls
  BY <1>1, SecretsAssumption DEF SecretsInv, Sec!ConstantsOK
<1>4. PICK m \in 0 .. MaxNames : names \in [1 .. m -> SecretNames]
  BY DEF Sec!SeqOf
<1> DEFINE new == [i \in DOMAIN names |-> [key |-> names[i], value |-> Sec!Null]]
<1>5. m \in Nat
  BY <1>4, SecretsAssumption DEF Sec!ConstantsOK
<1>6. new \in Seq(Registration)
  <2>1. new \in [1 .. m -> Registration]
    BY <1>4 DEF Registration
  <2> QED BY <1>5, <2>1
<1>7. secrets' = secrets \o new
  BY DEF Sec!RegisterSecrets
<1> HIDE DEF new
<1>8. secrets \in Seq(Registration) /\ s_validated \in 0 .. Len(secrets)
  BY DEF SecretsInv, Registration
<1>9. /\ secrets' \in Seq(Registration) /\ Len(secrets') = Len(secrets) + Len(new)
      /\ \A i \in 1 .. Len(secrets) + Len(new) :
           secrets'[i] = IF i <= Len(secrets) THEN secrets[i] ELSE new[i - Len(secrets)]
  <2> DEFINE both == secrets \o new
  <2>1. /\ both \in Seq(Registration) /\ Len(both) = Len(secrets) + Len(new)
        /\ \A i \in 1 .. Len(secrets) + Len(new) :
             both[i] = IF i <= Len(secrets) THEN secrets[i] ELSE new[i - Len(secrets)]
    BY <1>6, <1>8, ConcatProperties
  <2> HIDE DEF both
  <2>2. secrets' = both
    BY <1>7 DEF both
  <2> QED BY <2>1, <2>2
<1>10. Len(secrets) \in Nat /\ Len(new) \in Nat
  BY <1>6, <1>8
<1>11. \A i \in 1 .. s_validated : secrets'[i] = secrets[i]
  BY <1>8, <1>9, <1>10
<1>12. s_validated' \in 0 .. Len(secrets')
  BY <1>1, <1>8, <1>9, <1>10
<1>13. SecretsGiven => SecretsGiven'
  BY <1>1, <1>11 DEF SecretsGiven
<1>14. Sec!Started' => SecretsGiven'
  BY <1>1, <1>13 DEF SecretsInv, Sec!Started
<1>15. s_pc' \in {"lib", "read", "validate", "tests", "run", "done", "failed"}
  BY <1>1 DEF SecretsInv
<1> QED BY <1>2, <1>3, <1>9, <1>12, <1>14, <1>15 DEF SecretsInv, Registration

\* The value that the file gives a name first.
LEMMA ProvidedFirst ==
  ASSUME FileInv, NEW name, Sec!Provided(name) # {}
  PROVE  \E j \in DOMAIN meant : meant[j].key = name /\ meant[j].value = Sec!FirstProvided(name)
<1> DEFINE P == Sec!Provided(name)
           least == CHOOSE i \in P : \A j \in P : i <= j
<1>1. P \in SUBSET DOMAIN specified /\ specified = meant /\ DOMAIN specified \in SUBSET Nat
  BY DEF Sec!Provided, FileInv
<1>2. \E i \in P : \A j \in P : i <= j
  <2>1. P \in SUBSET Nat /\ P # {}
    BY <1>1
  <2> HIDE DEF P
  <2> QED BY <2>1, LeastOf
<1>3. least \in P
  <2> HIDE DEF P
  <2> QED BY <1>2
<1>4. specified[least].key = name /\ least \in DOMAIN specified
  BY <1>3 DEF Sec!Provided
<1>5. specified[least].value = Sec!FirstProvided(name)
  BY DEF Sec!FirstProvided
<1> QED BY <1>1, <1>4, <1>5

LEMMA ParseSecretsKeeps ==
  ASSUME SecretsInv, Sec!ParseSecrets
  PROVE  SecretsInv'
<1> DEFINE Final(i) == IF Sec!Provided(secrets[i].key) = {} THEN secrets[i]
                       ELSE [secrets[i] EXCEPT !.value = Sec!FirstProvided(secrets[i].key)]
<1>1. /\ secrets' = [i \in DOMAIN secrets |-> Final(i)]
      /\ s_validated' = Len(secrets) /\ UNCHANGED s_calls
      /\ s_pc' = IF Sec!Rejected THEN "failed" ELSE "tests"
      /\ UNCHANGED <<lines, meant, open, text, in_multiline, ml_key, buf, specified>>
  BY DEF Sec!ParseSecrets, Sec!parser, Sec!history
<1>2. FileInv /\ FileInv'
  BY <1>1, FileUnchanged DEF SecretsInv
<1>3. secrets \in Seq(Registration) /\ Len(secrets) \in Nat /\ DOMAIN secrets = 1 .. Len(secrets)
  BY DEF SecretsInv, Registration
<1>4. ASSUME NEW i \in DOMAIN secrets
      PROVE  /\ Final(i) \in Registration /\ Final(i).key = secrets[i].key
             /\ Sec!Provided(secrets[i].key) # {} =>
                  \E j \in DOMAIN meant :
                    meant[j].key = secrets[i].key /\ meant[j].value = Final(i).value
  <2>1. secrets[i] \in Registration
    BY <1>3
  <2>2. CASE Sec!Provided(secrets[i].key) = {}
    BY <2>1, <2>2
  <2>3. CASE Sec!Provided(secrets[i].key) # {}
    <3> DEFINE v == Sec!FirstProvided(secrets[i].key)
    <3>1. PICK j \in DOMAIN meant : meant[j].key = secrets[i].key /\ meant[j].value = v
      BY <1>2, <2>3, ProvidedFirst
    <3>2. v \in Strings
      <4>1. meant[j] \in Pairs
        BY <1>2, <3>1 DEF FileInv
      <4> QED BY <3>1, <4>1 DEF Pairs
    <3>3. Final(i) = [secrets[i] EXCEPT !.value = v]
      BY <2>3
    <3> HIDE DEF v
    <3>4. Final(i) \in Registration /\ Final(i).key = secrets[i].key /\ Final(i).value = v
      <4> HIDE DEF Final
      <4> QED BY <2>1, <3>2, <3>3 DEF Registration
    <3> QED BY <3>1, <3>4
  <2> QED BY <2>2, <2>3
<1> HIDE DEF Final
<1>5. /\ secrets' \in Seq(Registration) /\ Len(secrets') = Len(secrets)
      /\ \A i \in 1 .. Len(secrets) : secrets'[i] = Final(i)
  <2>1. secrets' \in [1 .. Len(secrets) -> Registration]
    BY <1>1, <1>3, <1>4
  <2> QED BY <1>1, <1>3, <2>1
<1>6. ASSUME ~Sec!Rejected PROVE SecretsGiven'
  <2>1. ASSUME NEW i \in DOMAIN secrets, NEW j \in DOMAIN secrets, secrets[i].key = secrets[j].key
        PROVE  i = j
    <3> DEFINE keys == [k \in DOMAIN secrets |-> secrets[k].key]
    <3>1. ~Sec!Repeats(keys)
      BY <1>6 DEF Sec!Rejected
    <3>2. DOMAIN keys = DOMAIN secrets /\ keys[i] = keys[j]
      BY <2>1
    <3> HIDE DEF keys
    <3> QED BY <3>1, <3>2 DEF Sec!Repeats
  <2>2. \A i \in DOMAIN secrets : Sec!Provided(secrets[i].key) # {}
    BY <1>6 DEF Sec!Rejected
  <2>3. ASSUME NEW i \in 1 .. Len(secrets)
        PROVE  /\ \E j \in DOMAIN meant' :
                    meant'[j].key = secrets'[i].key /\ meant'[j].value = secrets'[i].value
               /\ \A j \in 1 .. Len(secrets) : secrets'[j].key = secrets'[i].key => j = i
    <3>1. secrets'[i].key = secrets[i].key /\ \A j \in 1 .. Len(secrets) : secrets'[j].key = secrets[j].key
      BY <1>3, <1>4, <1>5
    <3>2. \A j \in 1 .. Len(secrets) : secrets'[j].key = secrets'[i].key => j = i
      BY <1>3, <2>1, <3>1
    <3>3. \E j \in DOMAIN meant : meant[j].key = secrets[i].key /\ meant[j].value = Final(i).value
      BY <1>3, <1>4, <2>2
    <3>4. meant' = meant /\ secrets'[i] = Final(i)
      BY <1>1, <1>5
    <3> QED BY <3>1, <3>2, <3>3, <3>4
  <2> QED BY <1>1, <2>3 DEF SecretsGiven
<1>7. Sec!Started' => SecretsGiven'
  BY <1>1, <1>6 DEF Sec!Started
<1>8. s_validated' \in 0 .. Len(secrets') /\ s_calls' \in 0 .. MaxCalls
  BY <1>1, <1>3, <1>5 DEF SecretsInv
<1>9. s_pc' \in {"lib", "read", "validate", "tests", "run", "done", "failed"}
  BY <1>1
<1> QED BY <1>2, <1>5, <1>7, <1>8, <1>9 DEF SecretsInv, Registration

LEMMA SecretsProceedKeeps ==
  ASSUME SecretsInv, Sec!Proceed
  PROVE  SecretsInv'
<1>1. /\ UNCHANGED <<secrets, s_validated, s_calls>>
      /\ UNCHANGED <<lines, meant, open, text, in_multiline, ml_key, buf, specified>>
      /\ s_pc \in {"lib", "tests", "run"}
      /\ s_pc' = [lib |-> "read", tests |-> "run", run |-> "done"][s_pc]
  BY DEF Sec!Proceed, Sec!parser, Sec!history
<1>2. FileInv'
  BY <1>1, FileUnchanged DEF SecretsInv
<1>3. s_pc' \in {"read", "run", "done"} /\ (s_pc' \in {"run", "done"} => s_pc \in {"tests", "run"})
  BY <1>1
<1>4. Sec!Started' => SecretsGiven'
  BY <1>1, <1>3 DEF SecretsInv, Sec!Started, SecretsGiven
<1> QED BY <1>1, <1>2, <1>3, <1>4 DEF SecretsInv

LEMMA SecretsStutter ==
  ASSUME SecretsInv, UNCHANGED Sec!vars
  PROVE  SecretsInv'
<1>1. /\ UNCHANGED <<s_pc, secrets, s_validated, s_calls>>
      /\ UNCHANGED <<lines, meant, open, text, in_multiline, ml_key, buf, specified>>
  BY DEF Sec!vars, Sec!parser, Sec!history
<1>2. FileInv'
  BY <1>1, FileUnchanged DEF SecretsInv
<1> QED BY <1>1, <1>2 DEF SecretsInv, Sec!Started, SecretsGiven

LEMMA NextKeepsSecretsInv ==
  ASSUME SecretsInv, [Sec!Next]_(Sec!vars)
  PROVE  SecretsInv'
<1>1. CASE Sec!Malformed \/ Sec!PlainPair \/ Sec!QuotedPair
  BY <1>1, MalformedKeeps, PlainPairKeeps, QuotedPairKeeps
<1>2. CASE Sec!OpenValue \/ Sec!ContentLine \/ Sec!ClosingLine
  BY <1>2, OpenValueKeeps, ContentLineKeeps, ClosingLineKeeps
<1>3. CASE Sec!EndOfFile \/ Sec!CannotRead
  BY <1>3, EndOfFileKeeps, CannotReadKeeps
<1>4. CASE \E names \in Sec!SeqOf(SecretNames, MaxNames) : Sec!RegisterSecrets(names)
  BY <1>4, RegisterSecretsKeeps
<1>5. CASE Sec!ParseSecrets \/ Sec!Proceed
  BY <1>5, ParseSecretsKeeps, SecretsProceedKeeps
<1>6. CASE Sec!Terminated \/ UNCHANGED Sec!vars
  BY <1>6, SecretsStutter DEF Sec!Terminated
<1> QED BY <1>1, <1>2, <1>3, <1>4, <1>5, <1>6 DEF Sec!Next

LEMMA SecretsInvariant == Sec!Spec => []SecretsInv
<1>1. Sec!Init => SecretsInv
  BY InitSecretsInv
<1>2. SecretsInv /\ [Sec!Next]_(Sec!vars) => SecretsInv'
  BY NextKeepsSecretsInv
<1> QED BY <1>1, <1>2, PTL DEF Sec!Spec

\* The parser of .secrets and the registered secrets keep their types, for any
\* file and any names.
THEOREM SecretsTypeCorrect == Sec!Spec => []Sec!TypeOK
<1>1. SecretsInv => Sec!TypeOK
  <2> SUFFICES ASSUME SecretsInv PROVE Sec!TypeOK
    OBVIOUS
  <2>1. open \in Strings /\ (~in_multiline => open = << >> /\ text = Sec!Null /\ buf = << >>)
    BY DEF SecretsInv, FileInv
  <2>2. buf \in Strings
    <3>1. CASE text = Sec!Null
      BY <3>1 DEF SecretsInv, FileInv, Strings
    <3>2. CASE text # Sec!Null
      <4>1. text \in Seq(Sec!Token) /\ <<Sec!Newline>> \in Seq(Sec!Token)
        BY <3>2, Tokens DEF SecretsInv, FileInv, Strings
      <4>2. buf = text \o <<Sec!Newline>>
        BY <3>2 DEF SecretsInv, FileInv
      <4> QED BY <4>1, <4>2 DEF Strings
    <3> QED BY <3>1, <3>2
  <2>3. in_multiline \in BOOLEAN
    BY DEF SecretsInv, FileInv
  <2> QED BY <2>1, <2>2, <2>3 DEF SecretsInv, FileInv, Strings, Pairs, Sec!TypeOK
<1> QED BY <1>1, SecretsInvariant, PTL

\* A test reads the secret that ltf_parse_secrets saw, also when the name was
\* registered again later.
LEMMA GetValidated ==
  ASSUME SecretsInv, Sec!Started, NEW i \in 1 .. s_validated
  PROVE  Sec!Get(secrets[i].key) = secrets[i].value
<1>1. i \in DOMAIN secrets /\ Len(secrets) \in Nat /\ s_validated \in 0 .. Len(secrets)
      /\ DOMAIN secrets = 1 .. Len(secrets)
  BY DEF SecretsInv
<1>2. ASSUME NEW j \in DOMAIN secrets, secrets[j].key = secrets[i].key PROVE i <= j
  <2>1. CASE j \in 1 .. s_validated
    <3>1. j = i
      BY <1>2, <2>1 DEF SecretsInv, SecretsGiven
    <3> QED BY <1>1, <3>1
  <2>2. CASE j > s_validated
    BY <1>1, <2>2
  <2> QED BY <1>1, <2>1, <2>2
<1> DEFINE First(k) == /\ secrets[k].key = secrets[i].key
                       /\ \A j \in DOMAIN secrets : secrets[j].key = secrets[i].key => k <= j
<1>3. First(i)
  BY <1>2
<1>4. ASSUME NEW k \in DOMAIN secrets, First(k) PROVE k = i
  BY <1>1, <1>2, <1>4
<1>5. (CHOOSE k \in DOMAIN secrets : First(k)) = i
  BY <1>1, <1>3, <1>4
<1> QED BY <1>5 DEF Sec!Get

\* A file of any number of lines, of any strings, is read line by line as the
\* pairs it was written for, and the tests read the secrets that it gives.
THEOREM SecretsMeanTheirPairs == Sec!Spec => []FileMeansItsPairs
<1>1. SecretsInv => FileMeansItsPairs
  <2> SUFFICES ASSUME SecretsInv PROVE FileMeansItsPairs
    OBVIOUS
  <2>1. specified = meant /\ (in_multiline <=> open # << >>)
    BY DEF SecretsInv, FileInv
  <2>2. ASSUME Sec!Started, NEW i \in 1 .. s_validated
        PROVE  \E j \in DOMAIN meant :
                 meant[j].key = secrets[i].key /\ meant[j].value = Sec!Get(secrets[i].key)
    BY <2>2, GetValidated DEF SecretsInv, SecretsGiven
  <2> QED BY <2>1, <2>2 DEF FileMeansItsPairs, Sec!FileMeansItsPairs
<1> QED BY <1>1, SecretsInvariant, PTL

=============================================================================
