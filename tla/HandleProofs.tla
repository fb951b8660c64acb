---------------------------- MODULE HandleProofs ----------------------------
(***************************************************************************)
(* Proofs about Http, Ssh and Webdriver, for any numbers of objects and    *)
(* calls: which pointers to objects that were freed are followed, and that *)
(* what a test took from the driver is given back.                         *)
(***************************************************************************)
EXTENDS MCDevices, SequenceTheorems, FiniteSetTheorems, TLAPS

-----------------------------------------------------------------------------
(* HTTP handles.                                                           *)

\* A list is freed under an option only if it was given one, and a handle that
\* is not made yet has none.
ListsKnown ==
  /\ \A o \in stale : asked[o] # 0
  /\ handle = "none" => \A o \in H!ListOption : asked[o] = 0 /\ option[o] = 0

\* The functions of a handle are two, each with its reference, which no refused
\* function has.
FunctionsApart ==
  /\ ref["write"] = ref["read"] => ref["write"] = 0
  /\ ref["write"] \notin refused /\ ref["read"] \notin refused

\* What the callback has taken during a transfer: everything, or everything but
\* the chunk that it has in hand.
TransferCounts ==
  /\ h_thread = "transfer" => body.taken = body.sent
  /\ h_thread = "callback" => body.sent = body.taken + 1
  /\ h_thread # "test" => result = "none"

HttpInv ==
  /\ H!TypeOK /\ H!RequestsExact /\ H!BodyComplete
  /\ ListsKnown /\ FunctionsApart /\ TransferCounts

\* Freeing the list of a handle leaves every list in its place with its
\* entries, and none allocated.
LEMMA FreedList ==
  ASSUME H!TypeOK, H!RequestsExact
  PROVE  /\ H!Freed(headers) \in Seq(H!List) /\ Len(H!Freed(headers)) = Len(list)
         /\ \A k \in 1 .. Len(list) : /\ H!Freed(headers)[k].entries = list[k].entries
                                     /\ ~H!Freed(headers)[k].live
<1>1. /\ list \in Seq(H!List) /\ headers \in 0 .. Len(list) /\ Len(list) \in Nat
      /\ \A k \in 1 .. Len(list) : list[k].live => k = headers
  BY LenProperties DEF H!TypeOK, H!RequestsExact
<1>2. CASE headers = 0
  BY <1>1, <1>2 DEF H!Freed
<1>3. CASE headers # 0
  <2> DEFINE e == [list[headers] EXCEPT !.live = FALSE]
  <2>1. headers \in 1 .. Len(list) /\ list[headers] \in H!List
    BY <1>1, <1>3, ElementOfSeq
  <2>2. e \in H!List /\ e.entries = list[headers].entries /\ ~e.live
    BY <2>1 DEF H!List
  <2>3. H!Freed(headers) = [list EXCEPT ![headers] = e]
    BY <1>3 DEF H!Freed
  <2> HIDE DEF e
  <2>4. /\ H!Freed(headers) \in Seq(H!List) /\ Len(H!Freed(headers)) = Len(list)
        /\ \A k \in 1 .. Len(list) :
             H!Freed(headers)[k] = IF k = headers THEN e ELSE list[k]
    BY <1>1, <2>1, <2>2, <2>3, ExceptSeq
  <2> QED BY <1>1, <2>2, <2>4
<1> QED BY <1>2, <1>3

\* A new list comes after the others, which stay, and is the one allocated.
LEMMA ListAdded ==
  ASSUME H!TypeOK, H!RequestsExact, NEW n \in Nat
  PROVE  LET new == Append(H!Freed(headers), [entries |-> n, live |-> TRUE])
         IN  /\ new \in Seq(H!List) /\ Len(new) = Len(list) + 1
             /\ new[Len(list) + 1].live /\ new[Len(list) + 1].entries = n
             /\ \A k \in 1 .. Len(list) : /\ new[k].entries = list[k].entries
                                         /\ ~new[k].live
<1> DEFINE e == [entries |-> n, live |-> TRUE]
           f == H!Freed(headers)
<1>1. f \in Seq(H!List) /\ Len(f) = Len(list)
  BY FreedList
<1>2. e \in H!List /\ e.live /\ e.entries = n
  BY DEF H!List
<1>3. Len(list) \in Nat
  BY LenProperties DEF H!TypeOK
<1>4. \A k \in 1 .. Len(list) : f[k].entries = list[k].entries /\ ~f[k].live
  BY FreedList
<1> HIDE DEF e, f
<1>5. /\ Append(f, e) \in Seq(H!List) /\ Len(Append(f, e)) = Len(list) + 1
      /\ Append(f, e)[Len(list) + 1] = e
      /\ \A k \in 1 .. Len(list) : Append(f, e)[k] = f[k]
  BY <1>1, <1>2, <1>3, AppendProperties
<1> QED BY <1>2, <1>4, <1>5 DEF e, f

LEMMA HttpInit ==
  ASSUME H!ConstantsOK, H!Init PROVE HttpInv
<1> USE DEF H!Init, H!ConstantsOK
<1>1. list \in Seq(H!List) /\ Len(list) = 0
  BY EmptySeq
<1>2. H!TypeOK
  <2>1. option \in [H!ListOption -> 0 .. Len(list)] /\ ref \in [H!Callback -> 0 .. refs]
    BY <1>1
  <2>2. body \in [sent : 0 .. MaxBody, taken : 0 .. MaxBody] /\ h_calls \in 0 .. MaxHttp
    OBVIOUS
  <2>3. headers \in 0 .. Len(list) /\ (headers # 0 => list[headers].live)
    BY <1>1
  <2> QED BY <1>1, <2>1, <2>2, <2>3 DEF H!TypeOK
<1>3. H!RequestsExact /\ H!BodyComplete
  BY <1>1 DEF H!RequestsExact, H!BodyComplete, H!Callback
<1>4. ListsKnown /\ FunctionsApart /\ TransferCounts
  BY DEF ListsKnown, FunctionsApart, TransferCounts, H!ListOption, H!Callback
<1> QED BY <1>2, <1>3, <1>4 DEF HttpInv

\* setopt with a list.
LEMMA HttpLists ==
  ASSUME H!ConstantsOK, HttpInv, NEW o \in H!ListOption, NEW given \in 0 .. MaxHeaders,
         H!SetList(o, given)
  PROVE  HttpInv'
<1> USE DEF HttpInv
<1>1. /\ list \in Seq(H!List) /\ headers \in 0 .. Len(list) /\ Len(list) \in Nat
      /\ option \in [H!ListOption -> 0 .. Len(list)] /\ asked \in [H!ListOption -> Nat]
  BY LenProperties DEF H!TypeOK
<1> DEFINE n == H!Converted(given)
           new == Append(H!Freed(headers), [entries |-> n, live |-> TRUE])
<1>2. n \in Nat
  BY DEF H!Converted, H!ConstantsOK
<1>3. /\ H!Freed(headers) \in Seq(H!List) /\ Len(H!Freed(headers)) = Len(list)
      /\ \A k \in 1 .. Len(list) : /\ H!Freed(headers)[k].entries = list[k].entries
                                  /\ ~H!Freed(headers)[k].live
  BY FreedList
<1>4. /\ new \in Seq(H!List) /\ Len(new) = Len(list) + 1
      /\ new[Len(list) + 1].live /\ new[Len(list) + 1].entries = n
      /\ \A k \in 1 .. Len(list) : new[k].entries = list[k].entries /\ ~new[k].live
  BY <1>2, ListAdded
<1>5. /\ UNCHANGED <<handle, gone, ref, registry, refs, refused, h_thread, body, result, h_ub>>
      /\ asked' = [asked EXCEPT ![o] = n]
      /\ stale' = {q \in H!ListOption \ {o} : asked[q] # 0}
      /\ ~h_ub /\ h_calls < MaxHttp /\ h_calls' = h_calls + 1
      /\ h_thread = "test" /\ handle = "live"
  BY DEF H!SetList, H!Record, H!Called, H!refVars, H!workVars
<1>6. \/ /\ list' = H!Freed(headers) /\ headers' = 0 /\ n = 0
      \/ /\ list' = new /\ headers' = Len(list) + 1 /\ n # 0
  BY DEF H!SetList
<1>7. option' = [option EXCEPT ![o] = headers']
  BY DEF H!SetList
<1> HIDE DEF n, new
<1>8. /\ list' \in Seq(H!List) /\ headers' \in 0 .. Len(list')
      /\ Len(list') \in Nat /\ Len(list) <= Len(list')
      /\ \A k \in 1 .. Len(list') : list'[k].live <=> k = headers'
      /\ \A k \in 1 .. Len(list) : list'[k].entries = list[k].entries /\ ~list'[k].live
      /\ (headers' = 0) <=> (n = 0)
      /\ headers' # 0 => list'[headers'].live /\ list'[headers'].entries = n
  <2>1. CASE list' = new /\ headers' = Len(list) + 1 /\ n # 0
    BY <1>1, <1>4, <2>1
  <2>2. CASE list' = H!Freed(headers) /\ headers' = 0 /\ n = 0
    BY <1>1, <1>3, <2>2
  <2> QED BY <1>6, <2>1, <2>2
<1>9. H!TypeOK'
  <2>1. option \in [H!ListOption -> 0 .. Len(list')]
    BY <1>1, <1>8
  <2>2. option' \in [H!ListOption -> 0 .. Len(list')] /\ asked' \in [H!ListOption -> Nat]
    BY <1>1, <1>2, <1>5, <1>7, <1>8, <2>1
  <2>3. stale' \subseteq H!ListOption /\ h_calls' \in 0 .. MaxHttp
    BY <1>5 DEF H!TypeOK, H!ConstantsOK
  <2> QED BY <1>5, <1>8, <2>2, <2>3 DEF H!TypeOK
<1>10. H!RequestsExact'
  <2>1. ASSUME NEW q \in H!ListOption
        PROVE  IF asked'[q] = 0
               THEN option'[q] = 0
               ELSE /\ option'[q] # 0 /\ list'[option'[q]].entries = asked'[q]
                    /\ list'[option'[q]].live = (q \notin stale')
    <3>1. CASE q = o
      BY <1>1, <1>2, <1>5, <1>7, <1>8, <3>1
    <3>2. CASE q # o
      <4>1. option'[q] = option[q] /\ asked'[q] = asked[q]
        BY <1>1, <1>5, <1>7, <3>2
      <4>2. asked[q] # 0 => q \in stale'
        BY <1>5, <3>2
      <4>3. IF asked[q] = 0
            THEN option[q] = 0
            ELSE option[q] \in 1 .. Len(list) /\ list[option[q]].entries = asked[q]
        BY <1>1, <1>5 DEF H!RequestsExact
      <4>4. list' \in Seq(H!List) /\ option[q] \in 0 .. Len(list')
        BY <1>1, <1>8
      <4>5. option[q] # 0 => list'[option[q]].live = FALSE
        <5>1. option[q] # 0 => list'[option[q]] \in H!List /\ ~list'[option[q]].live
          BY <1>1, <1>8, <4>4, ElementOfSeq
        <5> QED BY <5>1 DEF H!List
      <4>6. CASE asked[q] = 0
        BY <4>1, <4>3, <4>6
      <4>7. CASE asked[q] # 0
        <5>1. /\ option'[q] # 0 /\ list'[option'[q]].entries = asked'[q]
              /\ list'[option'[q]].live = FALSE
          BY <1>8, <4>1, <4>3, <4>5, <4>7
        <5>2. (q \notin stale') = FALSE
          BY <4>2, <4>7
        <5> QED BY <4>1, <4>7, <5>1, <5>2
      <4> QED BY <4>6, <4>7
    <3> QED BY <3>1, <3>2
  <2>2. {k \in 1 .. Len(list') : list'[k].live} = {headers'} \ {0}
    BY <1>8
  <2> HIDE DEF HttpInv
  <2>3. registry' = ({ref'[c] : c \in H!Callback} \ {0}) \cup refused'
    BY <1>5 DEF HttpInv, H!RequestsExact
  <2> QED BY <1>5, <2>1, <2>2, <2>3 DEF H!RequestsExact
<1>11. H!BodyComplete' /\ FunctionsApart' /\ TransferCounts'
  BY <1>5 DEF H!BodyComplete, FunctionsApart, TransferCounts
<1>12. ListsKnown'
  BY <1>1, <1>5 DEF ListsKnown
<1> QED BY <1>9, <1>10, <1>11, <1>12

\* setopt with a list that has an entry that is no string.
LEMMA HttpBadList ==
  ASSUME H!ConstantsOK, HttpInv, NEW given \in 0 .. MaxHeaders, H!SetBadList(given)
  PROVE  HttpInv'
<1> USE DEF HttpInv
<1>1. /\ list \in Seq(H!List) /\ headers \in 0 .. Len(list) /\ Len(list) \in Nat
      /\ option \in [H!ListOption -> 0 .. Len(list)]
  BY LenProperties DEF H!TypeOK
<1>2. /\ UNCHANGED <<handle, gone, option, asked, ref, registry, refs, refused, h_thread,
                     body, result, h_ub>>
      /\ stale' = {o \in H!ListOption : asked[o] # 0}
      /\ list' = H!Freed(headers) /\ headers' = 0
      /\ ~h_ub /\ h_calls < MaxHttp /\ h_calls' = h_calls + 1
      /\ h_thread = "test" /\ handle = "live"
  BY DEF H!SetBadList, H!Called, H!refVars, H!workVars
<1>3. /\ list' \in Seq(H!List) /\ Len(list') = Len(list)
      /\ \A k \in 1 .. Len(list) : list'[k].entries = list[k].entries /\ ~list'[k].live
  BY <1>2, FreedList
<1>4. H!TypeOK'
  <2>1. h_calls' \in 0 .. MaxHttp
    BY <1>2 DEF H!TypeOK, H!ConstantsOK
  <2> QED BY <1>1, <1>2, <1>3, <2>1 DEF H!TypeOK
<1>5. H!RequestsExact'
  <2>1. ASSUME NEW q \in H!ListOption
        PROVE  IF asked'[q] = 0
               THEN option'[q] = 0
               ELSE /\ option'[q] # 0 /\ list'[option'[q]].entries = asked'[q]
                    /\ list'[option'[q]].live = (q \notin stale')
    <3>1. IF asked[q] = 0
          THEN option[q] = 0
          ELSE option[q] \in 1 .. Len(list) /\ list[option[q]].entries = asked[q]
      BY <1>1, <1>2 DEF H!RequestsExact
    <3>2. option[q] # 0 => list'[option[q]].live = FALSE
      <4>1. option[q] # 0 => list'[option[q]] \in H!List /\ ~list'[option[q]].live
        BY <1>1, <1>3, ElementOfSeq
      <4> QED BY <4>1 DEF H!List
    <3>3. CASE asked[q] = 0
      BY <1>2, <3>1, <3>3
    <3>4. CASE asked[q] # 0
      <4>1. /\ option'[q] # 0 /\ list'[option'[q]].entries = asked'[q]
            /\ list'[option'[q]].live = FALSE
        BY <1>2, <1>3, <3>1, <3>2, <3>4
      <4>2. (q \notin stale') = FALSE
        BY <1>2, <3>4
      <4> QED BY <1>2, <3>4, <4>1, <4>2
    <3> QED BY <3>3, <3>4
  <2>2. {k \in 1 .. Len(list') : list'[k].live} = {headers'} \ {0}
    BY <1>2, <1>3
  <2>3. registry' = ({ref'[c] : c \in H!Callback} \ {0}) \cup refused'
    BY <1>2 DEF H!RequestsExact
  <2> QED BY <1>2, <2>1, <2>2, <2>3 DEF H!RequestsExact
<1>6. H!BodyComplete' /\ FunctionsApart' /\ TransferCounts'
  BY <1>2 DEF H!BodyComplete, FunctionsApart, TransferCounts
<1>7. ListsKnown'
  BY <1>2 DEF ListsKnown
<1> QED BY <1>4, <1>5, <1>6, <1>7

\* The part of RequestsExact that the options, the lists and the transfer decide.
ListsExact ==
  /\ handle = "live" => \A o \in H!ListOption :
       IF asked[o] = 0
       THEN option[o] = 0
       ELSE /\ option[o] # 0 /\ list[option[o]].entries = asked[o]
            /\ list[option[o]].live = (o \notin stale)
  /\ h_ub => handle = "freed" \/ stale # {}
  /\ h_thread # "test" => stale = {}
  /\ {i \in 1 .. Len(list) : list[i].live} = {headers} \ {0}

\* The part that the functions decide.
FunctionsExact == registry = ({ref[c] : c \in H!Callback} \ {0}) \cup refused

LEMMA ExactParts ==
  /\ H!RequestsExact <=> ListsExact /\ FunctionsExact
  /\ H!RequestsExact' <=> ListsExact' /\ FunctionsExact'
BY DEF H!RequestsExact, ListsExact, FunctionsExact

\* setopt with a function.
LEMMA HttpFunctions ==
  ASSUME H!ConstantsOK, HttpInv,
         H!RefuseFunction \/ \E c \in H!Callback : H!SetCallback(c)
  PROVE  HttpInv'
<1> USE DEF HttpInv
<1>1. /\ UNCHANGED <<handle, gone, headers, list, option, asked, stale, h_thread, body,
                     result, h_ub>>
      /\ refs' = refs + 1
      /\ ~h_ub /\ h_calls < MaxHttp /\ h_calls' = h_calls + 1
  BY DEF H!SetCallback, H!RefuseFunction, H!Called, H!curlVars, H!workVars
<1>2. /\ refs \in Nat /\ registry \subseteq 1 .. refs /\ ref \in [H!Callback -> 0 .. refs]
      /\ ref["write"] \in 0 .. refs /\ ref["read"] \in 0 .. refs
      /\ refused \subseteq 1 .. refs
  BY DEF H!TypeOK, H!Callback
<1>3. h_calls' \in 0 .. MaxHttp
  BY <1>1 DEF H!TypeOK, H!ConstantsOK
<1>4. H!BodyComplete' /\ TransferCounts' /\ ListsKnown' /\ ListsExact'
  BY <1>1, ExactParts DEF H!BodyComplete, TransferCounts, ListsKnown, ListsExact
<1>5. CASE H!RefuseFunction
  <2>1. registry' = registry \cup {refs + 1} /\ refused' = refused \cup {refs + 1} /\ ref' = ref
    BY <1>5 DEF H!RefuseFunction
  <2>2. /\ registry' \subseteq 1 .. refs' /\ ref' \in [H!Callback -> 0 .. refs']
        /\ refused' \subseteq 1 .. refs'
    BY <1>1, <1>2, <2>1
  <2>3. H!TypeOK'
    BY <1>1, <1>3, <2>2 DEF H!TypeOK
  <2>4. FunctionsExact' /\ FunctionsApart'
    BY <1>2, <2>1, ExactParts DEF FunctionsExact, FunctionsApart
  <2> QED BY <1>4, <2>3, <2>4, ExactParts
<1>6. ASSUME NEW c \in H!Callback, H!SetCallback(c) PROVE HttpInv'
  <2>1. /\ registry' = (registry \ {ref[c]}) \cup {refs + 1} /\ refused' = refused
        /\ ref' = [ref EXCEPT ![c] = refs + 1]
    BY <1>6 DEF H!SetCallback
  <2>2. /\ ref'["write"] = IF c = "write" THEN refs + 1 ELSE ref["write"]
        /\ ref'["read"] = IF c = "read" THEN refs + 1 ELSE ref["read"]
        /\ c \in {"write", "read"}
    BY <1>2, <2>1 DEF H!Callback
  <2>3. registry' \subseteq 1 .. refs' /\ ref' \in [H!Callback -> 0 .. refs']
    <3>1. registry' \subseteq 1 .. refs'
      <4>1. registry' \subseteq (1 .. refs) \cup {refs + 1}
        BY <1>2, <2>1
      <4> QED BY <1>1, <1>2, <4>1
    <3>2. 0 .. refs \subseteq 0 .. refs' /\ refs + 1 \in 0 .. refs'
      BY <1>1, <1>2
    <3>3. ref \in [H!Callback -> 0 .. refs']
      BY <1>2, <3>2
    <3> QED BY <2>1, <3>1, <3>2, <3>3
  <2>4. H!TypeOK'
    <3>1. refused' \subseteq 1 .. refs'
      BY <1>1, <1>2, <2>1
    <3> QED BY <1>1, <1>3, <2>3, <3>1 DEF H!TypeOK
  <2>5. FunctionsApart'
    <3>1. refs + 1 \notin refused /\ refused' = refused
      BY <1>2, <2>1
    <3> QED BY <1>2, <2>2, <3>1 DEF FunctionsApart
  <2>6. FunctionsExact'
    <3>1. registry = ({ref["write"], ref["read"]} \ {0}) \cup refused
      BY ExactParts DEF FunctionsExact, H!Callback
    <3>2. ref[c] \notin refused
      BY <2>2 DEF FunctionsApart
    <3>3. registry' = ({ref'["write"], ref'["read"]} \ {0}) \cup refused'
      <4>1. CASE c = "write"
        BY <1>2, <2>1, <2>2, <3>1, <3>2, <4>1 DEF FunctionsApart
      <4>2. CASE c = "read"
        BY <1>2, <2>1, <2>2, <3>1, <3>2, <4>2 DEF FunctionsApart
      <4> QED BY <2>2, <4>1, <4>2
    <3> QED BY <3>3 DEF FunctionsExact, H!Callback
  <2> QED BY <1>4, <2>4, <2>5, <2>6, ExactParts
<1> QED BY <1>5, <1>6

\* libcurl points at a list that is freed if and only if some option is stale.
LEMMA DanglingStale ==
  ASSUME HttpInv, handle = "live"
  PROVE  H!Dangling <=> stale # {}
<1>1. stale \subseteq H!ListOption /\ \A o \in stale : asked[o] # 0
  BY DEF HttpInv, H!TypeOK, ListsKnown
<1>2. \A o \in H!ListOption : option[o] # 0 /\ ~list[option[o]].live <=> o \in stale
  BY <1>1 DEF HttpInv, H!RequestsExact
<1> QED BY <1>1, <1>2 DEF H!Dangling

\* perform, the transfer with its callback, and the end of a handle.
LEMMA HttpTransfer ==
  ASSUME H!ConstantsOK, HttpInv,
         \/ H!New \/ H!Perform \/ H!Cleanup \/ H!OnFreed \/ H!Collect
         \/ H!Deliver \/ (\E outcome \in {"whole", "short", "raised"} : H!FinishCallback(outcome))
         \/ \E ok \in BOOLEAN : H!FinishPerform(ok)
  PROVE  HttpInv'
<1> USE DEF HttpInv
<1>1. UNCHANGED <<headers, list, asked, stale, ref, registry, refs, refused>>
  BY DEF H!New, H!Perform, H!Cleanup, H!OnFreed, H!Collect, H!Deliver, H!FinishCallback,
         H!FinishPerform, H!curlVars, H!refVars
<1>2. FunctionsApart' /\ FunctionsExact'
  BY <1>1, ExactParts DEF FunctionsApart, FunctionsExact
<1>3. body.sent \in 0 .. MaxBody /\ body.taken \in 0 .. MaxBody /\ MaxBody \in Nat
  BY DEF H!TypeOK, H!ConstantsOK
<1>4. ASSUME H!Called PROVE h_calls' \in 0 .. MaxHttp /\ ~h_ub
  BY <1>4 DEF H!Called, H!TypeOK, H!ConstantsOK
<1>5. CASE H!New
  <2>1. /\ handle = "none" /\ handle' = "live" /\ ~h_ub
        /\ UNCHANGED <<gone, option, h_thread, body, result, h_ub>>
    BY <1>4, <1>5 DEF H!New, H!curlVars, H!workVars
  <2>2. H!TypeOK'
    BY <1>1, <1>4, <1>5, <2>1 DEF H!TypeOK, H!New
  <2>3. ListsExact'
    BY <1>1, <2>1, ExactParts DEF ListsExact, ListsKnown
  <2> QED BY <1>1, <1>2, <2>1, <2>2, <2>3, ExactParts
          DEF H!BodyComplete, ListsKnown, TransferCounts
<1>6. CASE H!Perform
  <2>1. /\ h_ub' = H!Dangling /\ h_thread' = IF H!Dangling THEN "test" ELSE "transfer"
        /\ body' = [sent |-> 0, taken |-> 0] /\ result' = "none" /\ handle = "live"
        /\ UNCHANGED <<handle, gone, option>>
    BY <1>6 DEF H!Perform, H!curlVars
  <2>2. H!TypeOK'
    BY <1>1, <1>3, <1>4, <1>6, <2>1 DEF H!TypeOK, H!Perform, H!Dangling
  <2>3. ListsExact'
    BY <1>1, <2>1, ExactParts, DanglingStale DEF ListsExact
  <2> QED BY <1>1, <1>2, <2>1, <2>2, <2>3, ExactParts
          DEF H!BodyComplete, ListsKnown, TransferCounts
<1>7. CASE H!Cleanup
  <2>1. /\ handle' = "freed" /\ option' = [o \in H!ListOption |-> 0]
        /\ UNCHANGED <<gone, h_thread, body, result, h_ub>>
    BY <1>7 DEF H!Cleanup, H!workVars
  <2>2. H!TypeOK'
    <3>1. Len(list) \in Nat
      BY LenProperties DEF H!TypeOK
    <3>2. option' \in [H!ListOption -> 0 .. Len(list')]
      BY <1>1, <2>1, <3>1
    <3> QED BY <1>1, <1>4, <1>7, <2>1, <3>2 DEF H!TypeOK, H!Cleanup
  <2>3. ListsExact'
    BY <1>1, <2>1, ExactParts DEF ListsExact
  <2> QED BY <1>1, <1>2, <2>1, <2>2, <2>3, ExactParts
          DEF H!BodyComplete, ListsKnown, TransferCounts
<1>8. CASE H!OnFreed
  <2>1. /\ h_ub' = TRUE /\ handle = "freed"
        /\ UNCHANGED <<handle, gone, option, h_thread, body, result>>
    BY <1>8 DEF H!OnFreed, H!curlVars, H!workVars
  <2>2. H!TypeOK'
    BY <1>1, <1>4, <1>8, <2>1 DEF H!TypeOK, H!OnFreed
  <2>3. ListsExact'
    BY <1>1, <2>1, ExactParts DEF ListsExact
  <2> QED BY <1>1, <1>2, <2>1, <2>2, <2>3, ExactParts
          DEF H!BodyComplete, ListsKnown, TransferCounts
<1>9. CASE H!Collect
  <2>1. /\ gone' = TRUE
        /\ UNCHANGED <<handle, option, h_thread, body, result, h_ub, h_calls>>
    BY <1>9 DEF H!Collect, H!curlVars, H!workVars
  <2>2. H!TypeOK'
    BY <1>1, <2>1 DEF H!TypeOK
  <2>3. ListsExact'
    BY <1>1, <2>1, ExactParts DEF ListsExact
  <2> QED BY <1>1, <1>2, <2>1, <2>2, <2>3, ExactParts
          DEF H!BodyComplete, ListsKnown, TransferCounts
<1>10. CASE H!Deliver
  <2>1. /\ h_thread = "transfer" /\ body.sent < MaxBody
        /\ UNCHANGED <<handle, gone, option, result, h_ub, h_calls>>
        /\ h_thread' = IF ref["write"] = 0 THEN "transfer" ELSE "callback"
    BY <1>10 DEF H!Deliver, H!curlVars
  <2>2. body'.sent = body.sent + 1
    BY <1>10 DEF H!Deliver, H!TypeOK
  <2>3. body'.taken = IF ref["write"] = 0 THEN body.taken + 1 ELSE body.taken
    BY <1>10 DEF H!Deliver, H!TypeOK
  <2>4. body' \in [sent : 0 .. MaxBody, taken : 0 .. MaxBody]
    <3>1. body.taken = body.sent
      BY <2>1 DEF TransferCounts
    <3>2. body.sent + 1 \in 0 .. MaxBody /\ body.taken + 1 \in 0 .. MaxBody
      BY <1>3, <2>1, <3>1
    <3> QED BY <1>3, <1>10, <3>2 DEF H!Deliver, H!TypeOK
  <2>5. H!TypeOK'
    BY <1>1, <2>1, <2>4 DEF H!TypeOK
  <2>6. TransferCounts' /\ H!BodyComplete'
    BY <1>3, <2>1, <2>2, <2>3 DEF TransferCounts, H!BodyComplete
  <2>7. ListsExact'
    BY <1>1, <2>1, ExactParts DEF ListsExact
  <2> QED BY <1>1, <1>2, <2>1, <2>5, <2>6, <2>7, ExactParts DEF ListsKnown
<1>11. ASSUME NEW outcome \in {"whole", "short", "raised"}, H!FinishCallback(outcome)
       PROVE  HttpInv'
  <2>1. /\ h_thread = "callback"
        /\ UNCHANGED <<handle, gone, option, h_ub, h_calls>>
        /\ \/ outcome = "whole" /\ h_thread' = "transfer" /\ result' = result
           \/ outcome # "whole" /\ h_thread' = "test" /\ result' = "raised"
    BY <1>11 DEF H!FinishCallback, H!curlVars
  <2>2. /\ body'.sent = body.sent
        /\ body'.taken = IF outcome = "whole" THEN body.taken + 1 ELSE body.taken
    BY <1>11 DEF H!FinishCallback, H!TypeOK
  <2>3. body.sent = body.taken + 1
    BY <2>1 DEF TransferCounts
  <2>4. body' \in [sent : 0 .. MaxBody, taken : 0 .. MaxBody]
    BY <1>3, <1>11, <2>3 DEF H!FinishCallback, H!TypeOK
  <2>5. H!TypeOK'
    BY <1>1, <2>1, <2>4 DEF H!TypeOK
  <2>6. TransferCounts' /\ H!BodyComplete'
    BY <1>3, <2>1, <2>2, <2>3 DEF TransferCounts, H!BodyComplete
  <2>7. ListsExact'
    BY <1>1, <2>1, ExactParts DEF ListsExact
  <2> QED BY <1>1, <1>2, <2>1, <2>5, <2>6, <2>7, ExactParts DEF ListsKnown
<1>12. ASSUME NEW ok \in BOOLEAN, H!FinishPerform(ok) PROVE HttpInv'
  <2>1. /\ h_thread = "transfer" /\ h_thread' = "test" /\ result' \in {"performed", "raised"}
        /\ UNCHANGED <<handle, gone, option, body, h_ub, h_calls>>
    BY <1>12 DEF H!FinishPerform, H!curlVars
  <2>2. H!TypeOK'
    BY <1>1, <2>1 DEF H!TypeOK
  <2>3. TransferCounts' /\ H!BodyComplete'
    BY <2>1 DEF TransferCounts, H!BodyComplete
  <2>4. ListsExact'
    BY <1>1, <2>1, ExactParts DEF ListsExact
  <2> QED BY <1>1, <1>2, <2>1, <2>2, <2>3, <2>4, ExactParts DEF ListsKnown
<1> QED BY <1>5, <1>6, <1>7, <1>8, <1>9, <1>10, <1>11, <1>12

LEMMA HttpStep ==
  ASSUME H!ConstantsOK, HttpInv, [H!Next]_(H!vars) PROVE HttpInv'
<1>1. CASE UNCHANGED H!vars
  <2>1. H!TypeOK' /\ H!RequestsExact' /\ H!BodyComplete'
    BY <1>1 DEF HttpInv, H!vars, H!TypeOK, H!RequestsExact, H!BodyComplete
  <2>2. ListsKnown' /\ FunctionsApart' /\ TransferCounts'
    BY <1>1 DEF HttpInv, H!vars, ListsKnown, FunctionsApart, TransferCounts
  <2> QED BY <2>1, <2>2 DEF HttpInv
<1>2. CASE H!Test
  <2>1. ASSUME NEW o \in H!ListOption, NEW given \in 0 .. MaxHeaders, H!SetList(o, given)
        PROVE  HttpInv'
    BY <2>1, HttpLists
  <2>2. ASSUME NEW given \in 0 .. MaxHeaders, H!SetBadList(given) PROVE HttpInv'
    BY <2>2, HttpBadList
  <2> QED BY <1>2, <2>1, <2>2, HttpFunctions, HttpTransfer DEF H!Test
<1>3. CASE H!Transfer
  BY <1>3, HttpTransfer DEF H!Transfer
<1> QED BY <1>1, <1>2, <1>3, HttpTransfer DEF H!Next, H!Terminated

LEMMA HttpInvariant ==
  ASSUME H!ConstantsOK PROVE H!Spec => []HttpInv
<1>1. H!Init => HttpInv BY HttpInit
<1>2. HttpInv /\ [H!Next]_(H!vars) => HttpInv' BY HttpStep
<1> QED BY <1>1, <1>2, PTL DEF H!Spec

-----------------------------------------------------------------------------
(* SSH sessions.                                                           *)

Listed(cs) == {cs[i] : i \in 1 .. Len(cs)}
OnceEach(cs) == \A i, j \in 1 .. Len(cs) : cs[i] = cs[j] => i = j

\* An open channel is in libssh2 and in the list of an open session, which has
\* every channel once; nothing that fails changes it.
Tracked ==
  /\ OnceEach(active)
  /\ \A c \in Listed(active) : channel[c] # "none"
  /\ \A c \in Channels : channel[c] = "open" =>
       c \in live /\ session.open /\ session.list /\ c \in Listed(active)

\* In the documented use a session keeps its list until it is freed, its list
\* has open channels only, they go before the connection and the session do,
\* and the SFTP channels are closed, with no file open, before the session is.
Documented ==
  faults = {} =>
    /\ ~s_ub
    /\ session.open => session.list
    /\ session.sock => link # "down"
    /\ link = "down" => \A c \in Channels : channel[c] # "open"
    /\ session.collected => \A c \in Channels : channel[c] # "open"
    /\ \A c \in Listed(active) : channel[c] = "open"
    /\ \A f \in Sftps :
         /\ ~sftp[f].file
         /\ sftp[f].state \in {"none", "open"} => ~sftp[f].told
         /\ sftp[f].state = "open" => f \in live

SshInv == SSH!TypeOK /\ Tracked /\ Documented

LEMMA ListedIsRange ==
  ASSUME NEW s \in Seq(Channels)
  PROVE  /\ SSH!Range(s) = Listed(s) /\ Listed(s) \subseteq Channels /\ Len(s) \in Nat
         /\ DOMAIN s = 1 .. Len(s)
<1>1. DOMAIN s = 1 .. Len(s) /\ Len(s) \in Nat /\ \A i \in 1 .. Len(s) : s[i] \in Channels
  BY LenProperties, ElementOfSeq
<1> QED BY <1>1 DEF Listed, SSH!Range

\* A set of numbers that is not empty has a least one.
LEMMA LeastIndex ==
  ASSUME NEW T \in SUBSET Nat, T # {}
  PROVE  SSH!Min(T) \in T
<1>1. PICK x \in T : \A y \in T : <<y, x>> \notin OpToRel(<, Nat)
  BY NatLessThanWellFounded, WFMin
<1>2. ASSUME NEW y \in T PROVE x <= y
  <2>1. ~(y < x)
    BY <1>1 DEF OpToRel
  <2> QED BY <2>1
<1> QED BY <1>2 DEF SSH!Min

\* The search for a channel takes it, and no other, from the list.
LEMMA Unlisted ==
  ASSUME NEW s \in Seq(Channels), OnceEach(s), NEW c \in Listed(s)
  PROVE  LET new == SSH!RemoveFirst(s, c)
         IN  new \in Seq(Channels) /\ OnceEach(new) /\ Listed(new) = Listed(s) \ {c}
<1> DEFINE I == {i \in 1 .. Len(s) : s[i] = c}
           at == SSH!Min(I)
           left == SubSeq(s, 1, at - 1)
           right == SubSeq(s, at + 1, Len(s))
           new == left \o right
<1>1. Len(s) \in Nat /\ DOMAIN s = 1 .. Len(s) /\ \A i \in 1 .. Len(s) : s[i] \in Channels
  BY LenProperties, ElementOfSeq
<1>2. I \in SUBSET Nat /\ I # {}
  BY DEF Listed
<1>3. at \in 1 .. Len(s) /\ s[at] = c
  <2>1. at \in I
    BY <1>2, LeastIndex
  <2> QED BY <2>1
<1>4. SSH!RemoveFirst(s, c) = new
  BY <1>2 DEF SSH!RemoveFirst, SSH!RemoveAt, SSH!SelectInSeq
<1> HIDE DEF at
<1>5. /\ left \in Seq(Channels) /\ Len(left) = at - 1
      /\ \A i \in 1 .. at - 1 : left[i] = s[i]
  BY <1>1, <1>3, SubSeqProperties
<1>6. /\ right \in Seq(Channels) /\ Len(right) = Len(s) - at
      /\ \A i \in 1 .. Len(s) - at : right[i] = s[at + i]
  <2>1. at + 1 \in Int /\ Len(s) \in Int /\ \A i \in at + 1 .. Len(s) : s[i] \in Channels
    BY <1>1, <1>3
  <2>2. /\ right \in Seq(Channels)
        /\ Len(right) = IF at + 1 <= Len(s) THEN Len(s) - (at + 1) + 1 ELSE 0
        /\ \A i \in 1 .. Len(s) - (at + 1) + 1 : right[i] = s[at + 1 + i - 1]
    BY <2>1, SubSeqProperties
  <2> HIDE DEF right
  <2>3. Len(s) - (at + 1) + 1 = Len(s) - at
    BY <1>1, <1>3
  <2>4. ASSUME NEW i \in 1 .. Len(s) - at PROVE right[i] = s[at + i]
    <3>1. at + 1 + i - 1 = at + i
      BY <1>3
    <3>2. right[i] = s[at + 1 + i - 1]
      BY <2>2, <2>3
    <3> QED BY <3>1, <3>2
  <2>5. Len(right) = Len(s) - at
    <3>1. CASE at + 1 <= Len(s)
      BY <2>2, <2>3, <3>1
    <3>2. CASE ~(at + 1 <= Len(s))
      <4>1. at \in Nat /\ at <= Len(s) /\ Len(s) \in Nat
        BY <1>1, <1>3
      <4>2. at = Len(s)
        BY <3>2, <4>1
      <4> QED BY <2>2, <3>2, <4>1, <4>2
    <3> QED BY <3>1, <3>2
  <2> QED BY <2>2, <2>4, <2>5
<1> HIDE DEF left, right
<1>7. /\ new \in Seq(Channels) /\ Len(new) = Len(s) - 1
      /\ \A i \in 1 .. Len(s) - 1 : new[i] = IF i < at THEN s[i] ELSE s[i + 1]
  <2>1. /\ new \in Seq(Channels) /\ Len(new) = Len(left) + Len(right)
        /\ \A i \in 1 .. Len(left) + Len(right) :
             new[i] = IF i <= Len(left) THEN left[i] ELSE right[i - Len(left)]
    BY <1>5, <1>6, ConcatProperties
  <2> HIDE DEF new
  <2>2. Len(left) + Len(right) = Len(s) - 1
    BY <1>1, <1>3, <1>5, <1>6
  <2>3. ASSUME NEW i \in 1 .. Len(s) - 1
        PROVE  new[i] = IF i < at THEN s[i] ELSE s[i + 1]
    <3>1. CASE i < at
      <4>1. i \in 1 .. at - 1 /\ i <= Len(left)
        BY <1>3, <1>5, <3>1
      <4>2. new[i] = left[i]
        BY <2>1, <2>2, <4>1
      <4> QED BY <1>5, <3>1, <4>1, <4>2
    <3>2. CASE ~(i < at)
      <4>1. new[i] = right[i - (at - 1)]
        <5>1. ~(i <= Len(left)) /\ Len(left) = at - 1
          BY <1>3, <1>5, <3>2
        <5>2. new[i] = right[i - Len(left)]
          BY <2>1, <2>2, <5>1
        <5> QED BY <5>1, <5>2
      <4>2. i - (at - 1) \in 1 .. Len(s) - at /\ at + (i - (at - 1)) = i + 1
        BY <1>1, <1>3, <3>2
      <4>3. right[i - (at - 1)] = s[at + (i - (at - 1))]
        BY <1>6, <4>2
      <4> QED BY <3>2, <4>1, <4>2, <4>3
    <3> QED BY <3>1, <3>2
  <2> QED BY <2>1, <2>2, <2>3
<1> HIDE DEF new
<1>8. OnceEach(new)
  BY <1>1, <1>3, <1>7 DEF OnceEach
<1>9. ASSUME NEW d \in Listed(new) PROVE d \in Listed(s) /\ d # c
  <2>1. PICK i \in 1 .. Len(s) - 1 : d = IF i < at THEN s[i] ELSE s[i + 1]
    BY <1>7 DEF Listed
  <2>2. PICK j \in 1 .. Len(s) : j # at /\ d = s[j]
    <3>1. i \in 1 .. Len(s) /\ i + 1 \in 1 .. Len(s)
      BY <1>1
    <3>2. CASE i < at
      BY <1>3, <2>1, <3>1, <3>2
    <3>3. CASE ~(i < at)
      <4>1. i + 1 # at
        BY <1>3, <3>3
      <4> QED BY <2>1, <3>1, <3>3, <4>1
    <3> QED BY <3>2, <3>3
  <2>3. s[j] # s[at]
    BY <1>3, <2>2 DEF OnceEach
  <2> QED BY <1>3, <2>2, <2>3 DEF Listed
<1>10. ASSUME NEW d \in Listed(s), d # c PROVE d \in Listed(new)
  <2>1. PICK j \in 1 .. Len(s) : d = s[j]
    BY DEF Listed
  <2>2. j # at
    BY <1>3, <1>10, <2>1
  <2>3. PICK i \in 1 .. Len(s) - 1 : new[i] = d
    <3>1. CASE j < at
      <4>1. j \in 1 .. Len(s) - 1
        BY <1>1, <1>3, <3>1
      <4> QED BY <1>7, <2>1, <3>1, <4>1
    <3>2. CASE j > at
      <4>1. j - 1 \in 1 .. Len(s) - 1 /\ ~(j - 1 < at) /\ (j - 1) + 1 = j
        BY <1>1, <1>3, <3>2
      <4>2. new[j - 1] = s[(j - 1) + 1]
        BY <1>7, <4>1
      <4> QED BY <2>1, <4>1, <4>2
    <3> QED BY <1>1, <1>3, <2>2, <3>1, <3>2
  <2> QED BY <1>7, <2>3 DEF Listed
<1> QED BY <1>4, <1>7, <1>8, <1>9, <1>10

LEMMA ListedLast ==
  ASSUME NEW s \in Seq(Channels), OnceEach(s), NEW c \in Channels \ Listed(s)
  PROVE  LET new == Append(s, c)
         IN  new \in Seq(Channels) /\ OnceEach(new) /\ Listed(new) = Listed(s) \cup {c}
<1> DEFINE new == Append(s, c)
           n == Len(s)
<1>1. /\ new \in Seq(Channels) /\ Len(new) = n + 1 /\ new[n + 1] = c
      /\ \A i \in 1 .. n : new[i] = s[i]
      /\ n \in Nat
  BY AppendProperties, LenProperties
<1>2. \A i \in 1 .. n : s[i] # c
  BY DEF Listed
<1>3. Listed(s) = {s[i] : i \in 1 .. n}
  BY DEF Listed
<1>4. \A i, j \in 1 .. n : s[i] = s[j] => i = j
  BY DEF OnceEach
<1> HIDE DEF new, n
<1>5. OnceEach(new)
  BY <1>1, <1>2, <1>4 DEF OnceEach
<1>6. 1 .. Len(new) = (1 .. n) \cup {n + 1}
  BY <1>1
<1>7. Listed(new) = Listed(s) \cup {c}
  <2>1. Listed(new) = {new[i] : i \in (1 .. n) \cup {n + 1}}
    BY <1>6 DEF Listed
  <2>2. \A i \in 1 .. n : new[i] \in Listed(s)
    BY <1>1, <1>3
  <2>3. Listed(new) \subseteq Listed(s) \cup {c}
    BY <1>1, <2>1, <2>2
  <2>4. Listed(s) \subseteq Listed(new)
    BY <1>1, <1>3, <2>1
  <2>5. c \in Listed(new)
    BY <1>1, <2>1
  <2> QED BY <2>3, <2>4, <2>5
<1> QED BY <1>1, <1>5, <1>7 DEF new

LEMMA SshInit ==
  ASSUME SSH!ConstantsOK, SSH!Init PROVE SshInv
<1>1. active \in Seq(Channels) /\ Len(active) = 0
  BY EmptySeq DEF SSH!Init
<1>2. Listed(active) = {} /\ OnceEach(active)
  BY <1>1 DEF Listed, OnceEach
<1>3. SSH!TypeOK
  <2>1. session \in SSH!Session /\ link \in {"new", "up", "down"} /\ s_calls \in 0 .. MaxSsh
    BY DEF SSH!Init, SSH!Session, SSH!ConstantsOK
  <2>2. channel \in [Channels -> SSH!State] /\ sftp \in [Sftps -> SSH!Sftp]
    BY DEF SSH!Init, SSH!State, SSH!Sftp
  <2>3. live = {} /\ faults = {} /\ s_ub = FALSE
    BY DEF SSH!Init
  <2> QED BY <1>1, <2>1, <2>2, <2>3 DEF SSH!TypeOK
<1> QED BY <1>2, <1>3 DEF SSH!Init, SshInv, Tracked, Documented

LEMMA SshCalled ==
  ASSUME SSH!ConstantsOK, SSH!TypeOK, SSH!Called
  PROVE  s_calls' \in 0 .. MaxSsh /\ ~s_ub
BY DEF SSH!ConstantsOK, SSH!TypeOK, SSH!Called

LEMMA SshTyped ==
  ASSUME session' \in SSH!Session, active' \in Seq(Channels),
         channel' \in [Channels -> SSH!State], sftp' \in [Sftps -> SSH!Sftp],
         live' \subseteq Channels \cup Sftps,
         live' \subseteq SSH!Open' \cup {f \in Sftps : sftp'[f].state = "open"},
         link' \in {"new", "up", "down"}, faults' \subseteq SSH!Faults,
         s_ub' \in BOOLEAN, s_calls' \in 0 .. MaxSsh
  PROVE  SSH!TypeOK'
BY DEF SSH!TypeOK

\* Undefined behaviour outside the documented use.
LEMMA SshUndefined ==
  ASSUME SSH!ConstantsOK, SshInv, SSH!Called, SSH!Undefined,
         faults' # {}, faults' \subseteq SSH!Faults
  PROVE  SshInv'
<1>1. SSH!TypeOK'
  BY SshCalled DEF SshInv, SSH!TypeOK, SSH!Undefined, SSH!Open
<1>2. Tracked'
  BY DEF SshInv, Tracked, SSH!Undefined
<1> QED BY <1>1, <1>2 DEF SshInv, Documented

\* connect and disconnect.
LEMMA SshLink ==
  ASSUME SSH!ConstantsOK, SshInv,
         (\E outcome \in {"ok", "rejected"} : SSH!Connect(outcome)) \/ SSH!Disconnect
  PROVE  SshInv'
<1>1. /\ UNCHANGED <<active, channel, sftp, live, s_ub>>
      /\ s_calls' \in 0 .. MaxSsh
      /\ ~session.collected
      /\ session' \in SSH!Session
      /\ session'.open = session.open /\ session'.list = session.list
      /\ session'.collected = session.collected
      /\ faults \subseteq faults' /\ faults' \subseteq SSH!Faults
      /\ link' \in {"new", "up", "down"}
      /\ faults' = {} => \/ session'.sock /\ link' = "up"
                         \/ ~session'.sock /\ link' = "down" /\ SSH!Open = {}
  BY SshCalled DEF SshInv, SSH!TypeOK, SSH!Connect, SSH!Disconnect, SSH!Session, SSH!Faults,
                   SSH!Happens, SSH!Fault
<1>2. SSH!TypeOK'
  BY <1>1 DEF SshInv, SSH!TypeOK, SSH!Open
<1>3. Tracked'
  BY <1>1 DEF SshInv, Tracked
<1>4. Documented'
  BY <1>1 DEF SshInv, Documented, SSH!Open
<1> QED BY <1>2, <1>3, <1>4 DEF SshInv

\* close and the collection of a session.
LEMMA SshEnd ==
  ASSUME SSH!ConstantsOK, SshInv, SSH!Called, ~session.collected,
         NEW gc \in BOOLEAN, NEW early \in SUBSET SSH!Faults, SSH!EndSession(gc, early),
         early = {} => \A f \in Sftps : ~(sftp[f].state = "open" /\ ~sftp[f].told)
  PROVE  SshInv'
<1>1. /\ session \in SSH!Session /\ active \in Seq(Channels) /\ channel \in [Channels -> SSH!State]
      /\ sftp \in [Sftps -> SSH!Sftp] /\ live \subseteq Channels \cup Sftps
      /\ link \in {"new", "up", "down"} /\ faults \subseteq SSH!Faults
      /\ live \subseteq SSH!Open \cup {f \in Sftps : sftp[f].state = "open"}
      /\ s_calls' \in 0 .. MaxSsh /\ ~s_ub /\ Tracked /\ Documented /\ s_ub \in BOOLEAN
  BY SshCalled DEF SshInv, SSH!TypeOK
<1>2. /\ SSH!Range(active) = Listed(active) /\ Listed(active) \subseteq Channels
      /\ Len(active) \in Nat /\ DOMAIN active = 1 .. Len(active)
  BY <1>1, ListedIsRange
<1>3. ASSUME NEW more \in SUBSET SSH!Faults, SSH!Happens(early \cup more)
      PROVE  /\ faults' \subseteq SSH!Faults
             /\ faults' = {} => faults = {} /\ early = {} /\ more = {}
  BY <1>1, <1>3 DEF SSH!Happens
<1>4. CASE /\ ~session.open /\ session' = [session EXCEPT !.collected = gc]
           /\ UNCHANGED <<active, channel, sftp, live, link, faults, s_ub>>
  <2>1. /\ session' \in SSH!Session /\ session'.open = session.open
        /\ session'.list = session.list /\ session'.sock = session.sock
    BY <1>1, <1>4 DEF SSH!Session
  <2>2. SSH!TypeOK'
    BY <1>1, <1>4, <2>1 DEF SshInv, SSH!TypeOK, SSH!Open
  <2>3. Tracked' /\ \A c \in Channels : channel[c] # "open"
    BY <1>1, <1>4, <2>1 DEF Tracked
  <2>4. Documented'
    BY <1>1, <1>4, <2>1, <2>3 DEF Documented
  <2> QED BY <2>2, <2>3, <2>4 DEF SshInv
<1>5. CASE session.open /\ SSH!CloseStale /\ SSH!Undefined /\ SSH!Happens(early)
  <2>1. faults # {}
    <3> SUFFICES ASSUME faults = {} PROVE FALSE
      OBVIOUS
    <3>1. session.list /\ \A c \in Listed(active) : channel[c] = "open"
      BY <1>1, <1>5 DEF Documented
    <3>2. \A k \in DOMAIN active : active[k] \in Listed(active)
      BY <1>2 DEF Listed
    <3> QED BY <1>5, <3>1, <3>2 DEF SSH!CloseStale
  <2>2. faults' # {} /\ faults' \subseteq SSH!Faults
    BY <1>1, <1>5, <2>1 DEF SSH!Happens
  <2> QED BY <1>5, <2>2, SshUndefined
<1>6. CASE session.open /\ SSH!CloseSome(gc, early)
  <2>1. PICK k \in 0 .. Len(active) - 1 :
          LET done == {active[i] : i \in 1 .. k} IN
          /\ done \subseteq SSH!Open
          /\ \/ channel[active[k + 1]] = "open" /\ SSH!Happens(early \cup SSH!Fails)
             \/ channel[active[k + 1]] = "closed" /\ SSH!Happens(early)
          /\ channel' = SSH!Closed(done)
          /\ live' = live \ done
    BY <1>6 DEF SSH!CloseSome
  <2> DEFINE done == {active[i] : i \in 1 .. k}
  <2>2. /\ session' = [session EXCEPT !.collected = gc]
        /\ UNCHANGED <<active, sftp, link, s_ub>>
    BY <1>6 DEF SSH!CloseSome
  <2>3. /\ session' \in SSH!Session /\ session'.open = session.open
        /\ session'.list = session.list
    BY <1>1, <2>2 DEF SSH!Session
  <2>4. active[k + 1] \in Listed(active)
    <3>1. k + 1 \in 1 .. Len(active)
      BY <1>2
    <3> QED BY <3>1 DEF Listed
  <2>5. faults' \subseteq SSH!Faults /\ faults' # {}
    <3>1. CASE channel[active[k + 1]] = "open" /\ SSH!Happens(early \cup SSH!Fails)
      <4>1. SSH!Fails \in SUBSET SSH!Faults
        BY DEF SSH!Fails, SSH!Fault, SSH!Faults
      <4>2. faults' \subseteq SSH!Faults /\ (faults' = {} => faults = {} /\ SSH!Fails = {})
        BY <1>3, <3>1, <4>1
      <4>3. SSH!Fails = {} => link = "down"
        BY DEF SSH!Fails, SSH!Fault
      <4> QED BY <1>1, <1>2, <2>4, <3>1, <4>2, <4>3 DEF Documented
    <3>2. CASE channel[active[k + 1]] = "closed" /\ SSH!Happens(early)
      <4>1. faults' \subseteq SSH!Faults /\ (faults' = {} => faults = {})
        BY <1>3, <3>2
      <4> QED BY <1>1, <2>4, <3>2, <4>1 DEF Documented
    <3> QED BY <2>1, <3>1, <3>2
  <2>6. /\ done \subseteq SSH!Open
        /\ channel' = [c \in Channels |-> IF c \in done THEN "closed" ELSE channel[c]]
        /\ live' = live \ done
    BY <2>1 DEF SSH!Closed
  <2> HIDE DEF done
  <2>7. /\ channel' \in [Channels -> SSH!State]
        /\ SSH!Open' = SSH!Open \ done
    BY <1>1, <2>6 DEF SSH!State, SSH!Open
  <2>8. SSH!TypeOK'
    <3>1. live' \subseteq Channels \cup Sftps
      BY <1>1, <2>2, <2>6, <2>7
    <3>2. live' \subseteq SSH!Open' \cup {f \in Sftps : sftp'[f].state = "open"}
      BY <1>1, <2>2, <2>6, <2>7
    <3>3. /\ session' \in SSH!Session /\ active' \in Seq(Channels)
          /\ channel' \in [Channels -> SSH!State] /\ sftp' \in [Sftps -> SSH!Sftp]
      BY <1>1, <2>2, <2>3, <2>5, <2>6, <2>7
    <3>4. /\ link' \in {"new", "up", "down"} /\ faults' \subseteq SSH!Faults
          /\ s_ub' \in BOOLEAN /\ s_calls' \in 0 .. MaxSsh
      BY <1>1, <2>2, <2>3, <2>5, <2>6, <2>7
    <3> QED BY <3>1, <3>2, <3>3, <3>4, SshTyped
  <2>9. Tracked'
    BY <1>1, <1>2, <2>2, <2>3, <2>6 DEF Tracked
  <2> QED BY <2>5, <2>8, <2>9 DEF SshInv, Documented
<1>7. CASE session.open /\ SSH!Release(gc, early)
  <2>1. /\ active' = << >> /\ UNCHANGED <<sftp, s_ub>>
        /\ channel' = [c \in Channels |-> IF c \in Listed(active) THEN "closed" ELSE channel[c]]
        /\ live' = IF session'.open THEN live \ Listed(active) ELSE {}
    BY <1>2, <1>7 DEF SSH!Release, SSH!CloseAll, SSH!Closed
  <2>2. active' \in Seq(Channels) /\ Listed(active') = {} /\ OnceEach(active')
    BY <2>1, EmptySeq DEF Listed, OnceEach
  <2>3. /\ channel' \in [Channels -> SSH!State]
        /\ \A c \in Channels : channel'[c] # "open"
    BY <1>1, <2>1 DEF SSH!State, Tracked
  <2>4. live' \subseteq {f \in Sftps : sftp[f].state = "open"}
    BY <1>1, <2>1 DEF Tracked, SSH!Open
  <2>5. Tracked'
    BY <2>2, <2>3 DEF Tracked
  <2>6. ASSUME session' \in SSH!Session, link' \in {"new", "up", "down"},
               faults' \subseteq SSH!Faults, Documented'
        PROVE  SshInv'
    <3>1. SSH!TypeOK'
      <4>1. live' \subseteq Channels \cup Sftps
        BY <2>1, <2>4
      <4>2. live' \subseteq SSH!Open' \cup {f \in Sftps : sftp'[f].state = "open"}
        BY <2>1, <2>4
      <4>3. /\ session' \in SSH!Session /\ active' \in Seq(Channels)
            /\ channel' \in [Channels -> SSH!State] /\ sftp' \in [Sftps -> SSH!Sftp]
        BY <1>1, <2>1, <2>2, <2>3, <2>6
      <4>4. /\ link' \in {"new", "up", "down"} /\ faults' \subseteq SSH!Faults
            /\ s_ub' \in BOOLEAN /\ s_calls' \in 0 .. MaxSsh
        BY <1>1, <2>1, <2>2, <2>3, <2>6
      <4> QED BY <4>1, <4>2, <4>3, <4>4, SshTyped
    <3> QED BY <2>5, <2>6, <3>1 DEF SshInv
  <2>7. CASE /\ session.sock /\ SSH!Happens(early \cup SSH!Fails)
             /\ session' = [session EXCEPT !.list = FALSE, !.collected = gc]
             /\ UNCHANGED link
    <3>1. SSH!Fails \in SUBSET SSH!Faults
      BY DEF SSH!Fails, SSH!Fault, SSH!Faults
    <3>2. faults' \subseteq SSH!Faults /\ (faults' = {} => faults = {} /\ SSH!Fails = {})
      BY <1>3, <2>7, <3>1
    <3>3. SSH!Fails = {} => link = "down"
      BY DEF SSH!Fails, SSH!Fault
    <3>4. faults' # {}
      BY <1>1, <2>7, <3>2, <3>3 DEF Documented
    <3>5. session' \in SSH!Session
      BY <1>1, <2>7 DEF SSH!Session
    <3> QED BY <1>1, <2>6, <2>7, <3>2, <3>4, <3>5 DEF Documented
  <2>8. CASE /\ SSH!Happens(early \cup {"server"})
             /\ session' = [session EXCEPT !.list = FALSE, !.sock = FALSE, !.collected = gc]
             /\ link' = "down"
    <3>1. faults' \subseteq SSH!Faults /\ faults' # {}
      <4>1. {"server"} \in SUBSET SSH!Faults
        BY DEF SSH!Faults
      <4> QED BY <1>3, <2>8, <4>1
    <3>2. session' \in SSH!Session
      BY <1>1, <2>8 DEF SSH!Session
    <3> QED BY <2>6, <2>8, <3>1, <3>2 DEF Documented
  <2>9. CASE /\ session' = [session EXCEPT !.list = FALSE, !.sock = FALSE, !.open = FALSE,
                                           !.collected = gc]
             /\ link' = "down"
             /\ SSH!Happens(early)
    <3>1. faults' \subseteq SSH!Faults /\ (faults' = {} => faults = {} /\ early = {})
      BY <1>3, <2>9
    <3>2. session' \in SSH!Session /\ ~session'.open /\ ~session'.sock
      BY <1>1, <2>9 DEF SSH!Session
    <3>3. Documented'
      <4> SUFFICES ASSUME faults' = {} PROVE
             /\ ~s_ub'
             /\ \A f \in Sftps : ~sftp[f].file /\ sftp[f].state # "open"
             /\ \A f \in Sftps : sftp[f].state = "none" => ~sftp[f].told
        BY <2>1, <2>2, <2>3, <3>2 DEF Documented
      <4> QED BY <1>1, <2>1, <3>1 DEF Documented
    <3> QED BY <2>6, <2>9, <3>1, <3>2, <3>3
  <2> QED BY <1>7, <2>7, <2>8, <2>9 DEF SSH!Release
<1> QED BY <1>4, <1>5, <1>6, <1>7 DEF SSH!EndSession

\* The channels.
LEMMA SshChannel ==
  ASSUME SSH!ConstantsOK, SshInv, NEW c \in Channels,
         \/ SSH!OpenChannel(c) \/ SSH!UseChannel(c) \/ SSH!CloseChannel(c)
         \/ SSH!CollectChannel(c)
  PROVE  SshInv'
<1>1. /\ session \in SSH!Session /\ active \in Seq(Channels) /\ channel \in [Channels -> SSH!State]
      /\ sftp \in [Sftps -> SSH!Sftp] /\ live \subseteq Channels \cup Sftps
      /\ link \in {"new", "up", "down"} /\ faults \subseteq SSH!Faults
      /\ live \subseteq SSH!Open \cup {f \in Sftps : sftp[f].state = "open"}
      /\ Tracked /\ Documented /\ c \notin Sftps /\ s_ub \in BOOLEAN
  BY DEF SshInv, SSH!TypeOK, SSH!ConstantsOK
<1>2. /\ SSH!Range(active) = Listed(active) /\ Listed(active) \subseteq Channels
      /\ Len(active) \in Nat
  BY <1>1, ListedIsRange
<1>3. SSH!Called /\ s_calls' \in 0 .. MaxSsh /\ ~s_ub
  BY SshCalled
     DEF SshInv, SSH!OpenChannel, SSH!UseChannel, SSH!CloseChannel, SSH!CollectChannel
<1>4. ASSUME NEW more \in SUBSET SSH!Faults, SSH!Happens(more)
      PROVE  /\ faults' \subseteq SSH!Faults /\ faults \subseteq faults'
             /\ faults' = {} => faults = {} /\ more = {}
  BY <1>1, <1>4 DEF SSH!Happens
<1>5. ASSUME UNCHANGED <<session, active, channel, sftp, live, link, s_ub>>,
             faults \subseteq faults', faults' \subseteq SSH!Faults
      PROVE  SshInv'
  <2>1. SSH!TypeOK'
    BY <1>1, <1>3, <1>5 DEF SshInv, SSH!TypeOK, SSH!Open
  <2>2. Tracked' /\ Documented'
    BY <1>1, <1>5 DEF Tracked, Documented
  <2> QED BY <2>1, <2>2 DEF SshInv
<1>6. CASE SSH!OpenChannel(c)
  <2>1. channel[c] = "none" /\ session.open /\ ~session.collected /\ link = "up" /\ faults' = faults
    BY <1>6 DEF SSH!OpenChannel
  <2>2. CASE session.list
    <3>1. /\ channel' = [channel EXCEPT ![c] = "open"] /\ live' = live \cup {c}
          /\ active' = Append(active, c) /\ UNCHANGED <<session, sftp, link, s_ub>>
      BY <1>6, <2>2 DEF SSH!OpenChannel
    <3>2. c \in Channels \ Listed(active)
      BY <1>1, <2>1 DEF Tracked
    <3>3. active' \in Seq(Channels) /\ OnceEach(active') /\ Listed(active') = Listed(active) \cup {c}
      BY <1>1, <3>1, <3>2, ListedLast DEF Tracked
    <3>4. channel' \in [Channels -> SSH!State] /\ SSH!Open' = SSH!Open \cup {c}
      BY <1>1, <3>1 DEF SSH!State, SSH!Open
    <3>5. SSH!TypeOK'
      <4>1. live' \subseteq Channels \cup Sftps
        BY <1>1, <3>1, <3>4
      <4>2. live' \subseteq SSH!Open' \cup {f \in Sftps : sftp'[f].state = "open"}
        BY <1>1, <3>1, <3>4
      <4>3. /\ session' \in SSH!Session /\ active' \in Seq(Channels)
            /\ channel' \in [Channels -> SSH!State] /\ sftp' \in [Sftps -> SSH!Sftp]
        BY <1>1, <1>3, <2>1, <3>1, <3>3, <3>4
      <4>4. /\ link' \in {"new", "up", "down"} /\ faults' \subseteq SSH!Faults
            /\ s_ub' \in BOOLEAN /\ s_calls' \in 0 .. MaxSsh
        BY <1>1, <1>3, <2>1, <3>1, <3>3, <3>4
      <4> QED BY <4>1, <4>2, <4>3, <4>4, SshTyped
    <3>6. Tracked'
      BY <1>1, <2>1, <2>2, <3>1, <3>3 DEF Tracked
    <3>7. Documented'
      BY <1>1, <2>1, <3>1, <3>3 DEF Documented
    <3> QED BY <3>5, <3>6, <3>7 DEF SshInv
  <2>3. CASE ~session.list
    <3>1. SSH!Undefined /\ faults # {}
      BY <1>1, <1>6, <2>1, <2>3 DEF SSH!OpenChannel, Documented
    <3> QED BY <1>1, <1>3, <2>1, <3>1, SshUndefined
  <2> QED BY <2>2, <2>3
<1>7. CASE SSH!UseChannel(c)
  <2>1. c \in live /\ faults' = faults
    BY <1>1, <1>7 DEF SSH!UseChannel, Tracked
  <2> QED BY <1>1, <1>5, <1>7, <2>1 DEF SSH!UseChannel
<1>8. ASSUME NEW s \in {"closed", "collected"}, channel' = [channel EXCEPT ![c] = s],
             channel[c] = "open", live' = live \ {c}, active' = SSH!Unlist(c),
             UNCHANGED <<session, sftp, link, s_ub>>,
             faults \subseteq faults', faults' \subseteq SSH!Faults
      PROVE  SshInv'
  <2>1. c \in Listed(active) /\ OnceEach(active)
    BY <1>1, <1>8 DEF Tracked
  <2>2. active' \in Seq(Channels) /\ OnceEach(active') /\ Listed(active') = Listed(active) \ {c}
    BY <1>1, <1>8, <2>1, Unlisted DEF SSH!Unlist
  <2>3. channel' \in [Channels -> SSH!State] /\ SSH!Open' = SSH!Open \ {c}
    BY <1>1, <1>8 DEF SSH!State, SSH!Open
  <2>4. SSH!TypeOK'
    <3>1. live' \subseteq Channels \cup Sftps
      BY <1>1, <1>8, <2>3
    <3>2. live' \subseteq SSH!Open' \cup {f \in Sftps : sftp'[f].state = "open"}
      BY <1>1, <1>8, <2>3
    <3>3. /\ session' \in SSH!Session /\ active' \in Seq(Channels)
          /\ channel' \in [Channels -> SSH!State] /\ sftp' \in [Sftps -> SSH!Sftp]
      BY <1>1, <1>3, <1>8, <2>2, <2>3
    <3>4. /\ link' \in {"new", "up", "down"} /\ faults' \subseteq SSH!Faults
          /\ s_ub' \in BOOLEAN /\ s_calls' \in 0 .. MaxSsh
      BY <1>1, <1>3, <1>8, <2>2, <2>3
    <3> QED BY <3>1, <3>2, <3>3, <3>4, SshTyped
  <2>5. Tracked'
    BY <1>1, <1>2, <1>8, <2>2 DEF Tracked
  <2>6. Documented'
    BY <1>1, <1>2, <1>8, <2>2 DEF Documented
  <2> QED BY <2>4, <2>5, <2>6 DEF SshInv
<1>9. CASE SSH!CloseChannel(c)
  <2>1. channel[c] = "open" /\ c \in live /\ session.list
    BY <1>1, <1>9 DEF SSH!CloseChannel, Tracked
  <2>2. CASE /\ channel' = [channel EXCEPT ![c] = "closed"] /\ live' = live \ {c}
             /\ active' = SSH!Unlist(c) /\ UNCHANGED <<session, sftp, link, faults, s_ub>>
    BY <1>1, <1>8, <2>1, <2>2
  <2>3. CASE SSH!Happens(SSH!Fails) /\ UNCHANGED <<session, active, channel, sftp, live, link, s_ub>>
    <3>1. SSH!Fails \in SUBSET SSH!Faults
      BY DEF SSH!Fails, SSH!Fault, SSH!Faults
    <3> QED BY <1>4, <1>5, <2>3, <3>1
  <2>4. CASE session.collected /\ SSH!Undefined /\ UNCHANGED faults
    <3>1. faults # {}
      BY <1>1, <2>1, <2>4 DEF Documented
    <3> QED BY <1>1, <1>3, <2>4, <3>1, SshUndefined
  <2> QED BY <1>9, <2>1, <2>2, <2>3, <2>4 DEF SSH!CloseChannel
<1>10. CASE SSH!CollectChannel(c)
  <2> DEFINE more == SSH!Fault("leak", channel[c] = "open" /\ ~SSH!LastListed(c))
  <2>1. SSH!Happens(more) /\ channel[c] \in {"open", "closed"}
    BY <1>10 DEF SSH!CollectChannel
  <2>2. /\ more \in SUBSET SSH!Faults
        /\ more = {} => channel[c] # "open" \/ SSH!LastListed(c)
    BY DEF SSH!Fault, SSH!Faults
  <2> HIDE DEF more
  <2>3. /\ faults' \subseteq SSH!Faults /\ faults \subseteq faults'
        /\ faults' = {} => faults = {} /\ more = {}
    BY <1>4, <2>1, <2>2
  <2>4. CASE channel[c] = "closed"
    <3>1. /\ channel' = [channel EXCEPT ![c] = "collected"]
          /\ UNCHANGED <<session, active, sftp, live, link, s_ub>>
      BY <1>10, <2>4 DEF SSH!CollectChannel
    <3>2. channel' \in [Channels -> SSH!State] /\ SSH!Open' = SSH!Open
      BY <1>1, <2>4, <3>1 DEF SSH!State, SSH!Open
    <3>3. SSH!TypeOK'
      <4>1. live' \subseteq Channels \cup Sftps
        BY <1>1, <3>1, <3>2
      <4>2. live' \subseteq SSH!Open' \cup {f \in Sftps : sftp'[f].state = "open"}
        BY <1>1, <3>1, <3>2
      <4>3. /\ session' \in SSH!Session /\ active' \in Seq(Channels)
            /\ channel' \in [Channels -> SSH!State] /\ sftp' \in [Sftps -> SSH!Sftp]
        BY <1>1, <1>3, <2>3, <3>1, <3>2
      <4>4. /\ link' \in {"new", "up", "down"} /\ faults' \subseteq SSH!Faults
            /\ s_ub' \in BOOLEAN /\ s_calls' \in 0 .. MaxSsh
        BY <1>1, <1>3, <2>3, <3>1, <3>2
      <4> QED BY <4>1, <4>2, <4>3, <4>4, SshTyped
    <3>4. Tracked'
      BY <1>1, <1>2, <2>4, <3>1 DEF Tracked
    <3>5. Documented'
      <4>1. faults' = {} => c \notin Listed(active)
        BY <1>1, <2>3, <2>4 DEF Documented
      <4> QED BY <1>1, <1>2, <2>3, <2>4, <3>1, <4>1 DEF Documented
    <3> QED BY <3>3, <3>4, <3>5 DEF SshInv
  <2>5. CASE channel[c] = "open" /\ c \in live /\ ~session.collected /\ session.list
             /\ SSH!LastListed(c)
    <3>1. /\ channel' = [channel EXCEPT ![c] = "collected"] /\ live' = live \ {c}
          /\ active' = SSH!Unlist(c) /\ UNCHANGED <<session, sftp, link, s_ub>>
      BY <1>10, <2>5 DEF SSH!CollectChannel
    <3> QED BY <1>8, <2>3, <2>5, <3>1
  <2>6. CASE channel[c] = "open" /\ ~(c \in live /\ ~session.collected /\ session.list
             /\ SSH!LastListed(c))
    <3>1. SSH!Undefined
      BY <1>10, <2>6 DEF SSH!CollectChannel
    <3>2. c \in live /\ session.list
      BY <1>1, <2>6 DEF Tracked
    <3>3. faults' # {}
      BY <1>1, <2>2, <2>3, <2>6, <3>2 DEF Documented
    <3> QED BY <1>3, <2>3, <3>1, <3>3, SshUndefined
  <2> QED BY <2>1, <2>4, <2>5, <2>6
<1> QED BY <1>6, <1>7, <1>9, <1>10

\* The SFTP channels.
LEMMA SshSftp ==
  ASSUME SSH!ConstantsOK, SshInv, NEW f \in Sftps,
         \/ SSH!OpenSftp(f) \/ SSH!CloseSftp(f) \/ SSH!CollectSftp(f)
         \/ \E stuck \in BOOLEAN : SSH!Transfer(f, stuck)
  PROVE  SshInv'
<1>1. /\ session \in SSH!Session /\ active \in Seq(Channels) /\ channel \in [Channels -> SSH!State]
      /\ sftp \in [Sftps -> SSH!Sftp] /\ live \subseteq Channels \cup Sftps
      /\ link \in {"new", "up", "down"} /\ faults \subseteq SSH!Faults
      /\ live \subseteq SSH!Open \cup {g \in Sftps : sftp[g].state = "open"}
      /\ Tracked /\ Documented /\ f \notin Channels /\ s_ub \in BOOLEAN
  BY DEF SshInv, SSH!TypeOK, SSH!ConstantsOK
<1>2. SSH!Called /\ s_calls' \in 0 .. MaxSsh /\ ~s_ub
  BY SshCalled
     DEF SshInv, SSH!OpenSftp, SSH!CloseSftp, SSH!CollectSftp, SSH!Transfer
<1>3. ASSUME UNCHANGED <<session, active, channel, link, s_ub>>,
             live' \in {live, live \cup {f}, live \ {f}},
             faults \subseteq faults', faults' \subseteq SSH!Faults,
             NEW e \in SSH!Sftp, sftp' = [sftp EXCEPT ![f] = e],
             f \in live' => e.state = "open",
             faults' = {} => /\ ~e.file
                             /\ e.state \in {"none", "open"} => ~e.told
                             /\ e.state = "open" => f \in live'
      PROVE  SshInv'
  <2>1. sftp' \in [Sftps -> SSH!Sftp] /\ \A g \in Sftps : sftp'[g] = IF g = f THEN e ELSE sftp[g]
    BY <1>1, <1>3
  <2>2. SSH!TypeOK'
    <3>1. live' \subseteq Channels \cup Sftps
      BY <1>1, <1>3
    <3>2. live' \subseteq SSH!Open' \cup {g \in Sftps : sftp'[g].state = "open"}
      BY <1>1, <1>3, <2>1 DEF SSH!Open
    <3>3. /\ session' \in SSH!Session /\ active' \in Seq(Channels)
          /\ channel' \in [Channels -> SSH!State] /\ sftp' \in [Sftps -> SSH!Sftp]
      BY <1>1, <1>2, <1>3, <2>1
    <3>4. /\ link' \in {"new", "up", "down"} /\ faults' \subseteq SSH!Faults
          /\ s_ub' \in BOOLEAN /\ s_calls' \in 0 .. MaxSsh
      BY <1>1, <1>2, <1>3, <2>1
    <3> QED BY <3>1, <3>2, <3>3, <3>4, SshTyped
  <2>3. Tracked'
    BY <1>1, <1>3 DEF Tracked
  <2>4. Documented'
    <3> SUFFICES ASSUME faults' = {}, NEW g \in Sftps
                 PROVE  /\ ~sftp'[g].file
                        /\ sftp'[g].state \in {"none", "open"} => ~sftp'[g].told
                        /\ sftp'[g].state = "open" => g \in live'
      BY <1>1, <1>3 DEF Documented
    <3>1. CASE g = f
      BY <1>3, <2>1, <3>1
    <3>2. CASE g # f
      <4>1. /\ ~sftp[g].file
            /\ sftp[g].state \in {"none", "open"} => ~sftp[g].told
            /\ sftp[g].state = "open" => g \in live
        BY <1>1, <1>3 DEF Documented
      <4> QED BY <1>3, <2>1, <3>2, <4>1
    <3> QED BY <3>1, <3>2
  <2> QED BY <2>2, <2>3, <2>4 DEF SshInv
<1>4. /\ faults = {} => /\ ~sftp[f].file
                        /\ sftp[f].state \in {"none", "open"} => ~sftp[f].told
                        /\ sftp[f].state = "open" => f \in live
      /\ sftp[f] \in SSH!Sftp
  BY <1>1 DEF Documented
<1>6. CASE SSH!OpenSftp(f)
  <2> DEFINE e == [sftp[f] EXCEPT !.state = "open"]
  <2>1. e \in SSH!Sftp /\ e.state = "open" /\ e.file = sftp[f].file /\ e.told = sftp[f].told
    BY <1>4 DEF SSH!Sftp, SSH!State
  <2>2. /\ sftp' = [sftp EXCEPT ![f] = e] /\ live' = live \cup {f} /\ sftp[f].state = "none"
        /\ UNCHANGED <<session, active, channel, link, s_ub, faults>>
    BY <1>6 DEF SSH!OpenSftp
  <2> HIDE DEF e
  <2> QED BY <1>1, <1>3, <1>4, <2>1, <2>2
<1>7. CASE SSH!CloseSftp(f)
  <2>1. sftp[f].state = "open" /\ faults' = faults
    BY <1>7 DEF SSH!CloseSftp
  <2>2. CASE sftp[f].file
    <3> DEFINE e == [sftp[f] EXCEPT !.told = TRUE]
    <3>1. e \in SSH!Sftp /\ e.state = sftp[f].state
      BY <1>4 DEF SSH!Sftp
    <3>2. sftp' = [sftp EXCEPT ![f] = e] /\ UNCHANGED <<session, active, channel, live, link, s_ub>>
      BY <1>7, <2>2 DEF SSH!CloseSftp
    <3> HIDE DEF e
    <3> QED BY <1>1, <1>3, <1>4, <2>1, <2>2, <3>1, <3>2
  <2>3. CASE ~sftp[f].file /\ f \in live
    <3> DEFINE e == [sftp[f] EXCEPT !.state = "closed", !.told = TRUE]
    <3>1. e \in SSH!Sftp /\ e.state = "closed" /\ e.file = sftp[f].file
      BY <1>4 DEF SSH!Sftp, SSH!State
    <3>2. /\ sftp' = [sftp EXCEPT ![f] = e] /\ live' = live \ {f}
          /\ UNCHANGED <<session, active, channel, link, s_ub>>
      BY <1>7, <2>3 DEF SSH!CloseSftp
    <3> HIDE DEF e
    <3> QED BY <1>1, <1>3, <1>4, <2>1, <2>3, <3>1, <3>2
  <2>4. CASE ~sftp[f].file /\ f \notin live
    <3>1. SSH!Undefined /\ faults # {}
      BY <1>4, <1>7, <2>1, <2>4 DEF SSH!CloseSftp
    <3> QED BY <1>1, <1>2, <2>1, <3>1, SshUndefined
  <2> QED BY <2>2, <2>3, <2>4
<1>8. CASE SSH!CollectSftp(f)
  <2>1. sftp[f].state \in {"open", "closed"} /\ faults' = faults
    BY <1>8 DEF SSH!CollectSftp
  <2>2. CASE sftp[f].state = "closed" \/ f \in live
    <3> DEFINE e == [sftp[f] EXCEPT !.state = "collected"]
    <3>1. e \in SSH!Sftp /\ e.state = "collected" /\ e.file = sftp[f].file
      BY <1>4 DEF SSH!Sftp, SSH!State
    <3>2. /\ sftp' = [sftp EXCEPT ![f] = e] /\ live' = live \ {f}
          /\ UNCHANGED <<session, active, channel, link, s_ub>>
      BY <1>8, <2>2 DEF SSH!CollectSftp
    <3> HIDE DEF e
    <3> QED BY <1>1, <1>3, <1>4, <2>1, <3>1, <3>2
  <2>3. CASE ~(sftp[f].state = "closed" \/ f \in live)
    <3>1. SSH!Undefined /\ faults # {}
      BY <1>4, <1>8, <2>1, <2>3 DEF SSH!CollectSftp
    <3> QED BY <1>1, <1>2, <2>1, <3>1, SshUndefined
  <2> QED BY <2>2, <2>3
<1>9. ASSUME NEW stuck \in BOOLEAN, SSH!Transfer(f, stuck) PROVE SshInv'
  <2>1. /\ sftp[f].state = "open" /\ ~sftp[f].file
        /\ faults' \subseteq SSH!Faults /\ faults \subseteq faults'
        /\ faults' = {} => faults = {} /\ ~stuck
    BY <1>1, <1>9 DEF SSH!Transfer, SSH!Happens, SSH!Fault, SSH!Faults
  <2>2. CASE f \in live
    <3> DEFINE e == [sftp[f] EXCEPT !.file = stuck]
    <3>1. /\ e \in SSH!Sftp /\ e.state = sftp[f].state /\ e.file = stuck
          /\ e.told = sftp[f].told
      BY <1>4 DEF SSH!Sftp
    <3>2. sftp' = [sftp EXCEPT ![f] = e] /\ UNCHANGED <<session, active, channel, live, link, s_ub>>
      BY <1>9, <2>2 DEF SSH!Transfer, SSH!Pieces
    <3> HIDE DEF e
    <3> QED BY <1>3, <1>4, <2>1, <2>2, <3>1, <3>2
  <2>3. CASE f \notin live
    <3>1. SSH!Undefined /\ faults' # {}
      BY <1>4, <1>9, <2>1, <2>3 DEF SSH!Transfer
    <3> QED BY <1>2, <2>1, <3>1, SshUndefined
  <2> QED BY <2>2, <2>3
<1> QED BY <1>6, <1>7, <1>8, <1>9

LEMMA SshStep ==
  ASSUME SSH!ConstantsOK, SshInv, [SSH!Next]_(SSH!vars) PROVE SshInv'
<1>1. CASE UNCHANGED SSH!vars
  <2>1. SSH!TypeOK'
    BY <1>1 DEF SshInv, SSH!vars, SSH!TypeOK, SSH!Open
  <2>2. Tracked' /\ Documented'
    BY <1>1 DEF SshInv, SSH!vars, Tracked, Documented
  <2> QED BY <2>1, <2>2 DEF SshInv
<1>2. CASE SSH!CloseSession
  <2> DEFINE early == SSH!Fault("early", \E f \in Sftps : sftp[f].state = "open" /\ ~sftp[f].told)
  <2>1. /\ SSH!Called /\ ~session.collected /\ SSH!EndSession(FALSE, early)
    BY <1>2 DEF SSH!CloseSession
  <2>2. /\ early \in SUBSET SSH!Faults
        /\ early = {} => \A f \in Sftps : ~(sftp[f].state = "open" /\ ~sftp[f].told)
    BY DEF SSH!Fault, SSH!Faults
  <2> HIDE DEF early
  <2> QED BY <2>1, <2>2, SshEnd
<1>3. CASE SSH!CollectSession
  <2>1. /\ SSH!Called /\ ~session.collected /\ SSH!EndSession(TRUE, {})
        /\ \A f \in Sftps : ~(sftp[f].state = "open" /\ ~sftp[f].told)
    BY <1>3 DEF SSH!CollectSession
  <2> QED BY <2>1, SshEnd
<1>4. CASE SSH!Terminated
  BY <1>1, <1>4 DEF SSH!Terminated
<1> QED BY <1>1, <1>2, <1>3, <1>4, SshLink, SshChannel, SshSftp DEF SSH!Next

LEMMA SshInvariant ==
  ASSUME SSH!ConstantsOK PROVE SSH!Spec => []SshInv
<1>1. SSH!Init => SshInv BY SshInit
<1>2. SshInv /\ [SSH!Next]_(SSH!vars) => SshInv' BY SshStep
<1> QED BY <1>1, <1>2, PTL DEF SSH!Spec

LEMMA SshSafe ==
  ASSUME SshInv PROVE SSH!SessionsSafe
<1>1. s_ub => faults # {}
  BY DEF SshInv, Documented
<1>2. active \in Seq(Channels) /\ Tracked
  BY DEF SshInv, SSH!TypeOK
<1>3. ASSUME NEW c \in Channels, channel[c] = "open"
      PROVE  /\ c \in live
             /\ session.open /\ session.list
             /\ \E i \in DOMAIN active : {j \in DOMAIN active : active[j] = c} = {i}
  <2>1. c \in live /\ session.open /\ session.list /\ c \in Listed(active) /\ OnceEach(active)
    BY <1>2, <1>3 DEF Tracked
  <2>2. PICK i \in 1 .. Len(active) : active[i] = c
    BY <2>1 DEF Listed
  <2>3. DOMAIN active = 1 .. Len(active)
    BY <1>2, ListedIsRange
  <2>4. {j \in DOMAIN active : active[j] = c} = {i}
    BY <2>1, <2>2, <2>3 DEF OnceEach
  <2> QED BY <2>1, <2>2, <2>3, <2>4
<1>4. SSH!ChannelsTracked
  BY <1>3 DEF SSH!ChannelsTracked
<1> QED BY <1>1, <1>4 DEF SSH!SessionsSafe

-----------------------------------------------------------------------------
(* The browser.                                                            *)

\* The deferred functions that are still to run are those up to Left; Ran are
\* the others, by kind.
Left == IF phase = "body" THEN Len(defers) ELSE next
Registered(fs, kind) == {i \in DOMAIN fs : fs[i].kind = kind}
Ran(kind) == {i \in Registered(defers, kind) : i > Left}

CleanupOf(h) == [kind |-> "cleanup", handle |-> h]

\* A handle is cleaned up, or its cleanup is still to run; the handles of the
\* deferred closes that ran are the last ones.  A close is a call of the body,
\* so there are no more handles than the bound allows.
HandlesKept ==
  /\ Cardinality(Registered(defers, "close")) <= w_calls
  /\ handles <= MaxRequests + Cardinality(Ran("close"))
  /\ \A i \in Registered(defers, "cleanup") : defers[i].handle \in 1 .. handles
  /\ \A h \in 1 .. handles :
       \/ h \in cleaned
       \/ \E i \in 1 .. Left : defers[i] = CleanupOf(h)
       \/ h > handles - Cardinality(Ran("close"))

\* The driver is killed by a deferred kill and stays so; without a fault it
\* runs as long as there are sessions and no kill has run, and then a deferred
\* close ends its session.
DriverKept ==
  /\ Ran("kill") # {} => driver \notin {"starting", "up"}
  /\ driver = "killed" => Ran("kill") # {}
  /\ driver = "dead" => faulty
  /\ \A s \in Sessions :
       /\ sessions[s] # "none" => driver \in {"up", "killed", "dead"}
       /\ sessions[s] = "orphaned" => driver \in {"killed", "dead"}
  /\ \A i \in Registered(defers, "close") : defers[i].session \in known
  /\ ~faulty => \A i \in Ran("close") :
       (\A k \in Registered(defers, "kill") : k < i) => sessions[defers[i].session] = "ended"

\* Only the body waits.
WaitKept == wait.at # "no" => phase = "body"

BrowserInv == W!TypeOK /\ HandlesKept /\ DriverKept /\ WaitKept

\* What is deferred last is behind the others, which stay.
LEMMA DeferredLast ==
  ASSUME NEW fs \in Seq(W!Defer), NEW f \in W!Defer, NEW kind
  PROVE  /\ Append(fs, f) \in Seq(W!Defer) /\ Len(Append(fs, f)) = Len(fs) + 1
         /\ Len(fs) \in Nat
         /\ \A i \in 1 .. Len(fs) : Append(fs, f)[i] = fs[i]
         /\ Append(fs, f)[Len(fs) + 1] = f
         /\ Registered(fs, kind) \subseteq 1 .. Len(fs)
         /\ Registered(Append(fs, f), kind) =
              Registered(fs, kind) \cup {i \in {Len(fs) + 1} : f.kind = kind}
<1> DEFINE g == Append(fs, f)
           n == Len(fs)
<1>1. /\ g \in Seq(W!Defer) /\ Len(g) = n + 1 /\ g[n + 1] = f
      /\ \A i \in 1 .. n : g[i] = fs[i]
  BY AppendProperties
<1>2. n \in Nat /\ DOMAIN fs = 1 .. n /\ DOMAIN g = 1 .. n + 1
  BY <1>1, LenProperties
<1> HIDE DEF g, n
<1>3. Registered(fs, kind) \subseteq 1 .. n
  BY <1>2 DEF Registered
<1>4. ASSUME NEW i
      PROVE  i \in Registered(g, kind) <=>
               i \in Registered(fs, kind) \cup {j \in {n + 1} : f.kind = kind}
  <2>1. CASE i \in 1 .. n
    BY <1>1, <1>2, <2>1 DEF Registered
  <2>2. CASE i = n + 1
    BY <1>1, <1>2, <2>2 DEF Registered
  <2>3. CASE i \notin 1 .. n /\ i # n + 1
    BY <1>2, <2>3 DEF Registered
  <2> QED BY <2>1, <2>2, <2>3
<1>5. Registered(g, kind) = Registered(fs, kind) \cup {j \in {n + 1} : f.kind = kind}
  BY <1>4
<1> QED BY <1>1, <1>2, <1>3, <1>5 DEF g, n

\* The functions registered and those that ran are finitely many.
LEMMA RanFinite ==
  ASSUME NEW fs \in Seq(W!Defer), NEW kind, NEW n
  PROVE  LET run == {i \in Registered(fs, kind) : i > n}
         IN  /\ IsFiniteSet(Registered(fs, kind)) /\ Cardinality(Registered(fs, kind)) \in Nat
             /\ IsFiniteSet(run) /\ Cardinality(run) \in Nat
             /\ Cardinality(run) <= Cardinality(Registered(fs, kind))
<1> DEFINE R == Registered(fs, kind)
           run == {i \in R : i > n}
<1>1. IsFiniteSet(1 .. Len(fs))
  BY LenProperties, FS_Interval
<1>2. R \subseteq 1 .. Len(fs)
  BY LenProperties DEF Registered
<1>3. IsFiniteSet(R)
  BY <1>1, <1>2, FS_Subset
<1>4. run \subseteq R
  OBVIOUS
<1> HIDE DEF R, run
<1>5. IsFiniteSet(run) /\ Cardinality(run) <= Cardinality(R)
  BY <1>3, <1>4, FS_Subset
<1>6. Cardinality(R) \in Nat /\ Cardinality(run) \in Nat
  BY <1>3, <1>5, FS_CardinalityType
<1> QED BY <1>3, <1>5, <1>6 DEF R, run

\* Nothing has run while the body does.
LEMMA NoneRan ==
  ASSUME defers \in Seq(W!Defer), phase = "body", NEW kind
  PROVE  Ran(kind) = {} /\ Cardinality(Ran(kind)) = 0
<1>1. Len(defers) \in Nat /\ Registered(defers, kind) \subseteq 1 .. Len(defers)
  BY LenProperties DEF Registered
<1>2. Ran(kind) = {}
  BY <1>1 DEF Ran, Left
<1> QED BY <1>2, FS_EmptySet

\* A request: one more handle, and its cleanup behind the other functions.
LEMMA RequestMade ==
  ASSUME W!TypeOK, handles + 1 <= W!MaxHandles, W!Request
  PROVE  /\ defers' \in Seq(W!Defer) /\ Len(defers') = Len(defers) + 1 /\ Len(defers) \in Nat
         /\ \A i \in 1 .. Len(defers) : defers'[i] = defers[i]
         /\ defers'[Len(defers) + 1] = CleanupOf(handles + 1)
         /\ Registered(defers', "close") = Registered(defers, "close")
         /\ Registered(defers', "kill") = Registered(defers, "kill")
         /\ Registered(defers, "close") \subseteq 1 .. Len(defers)
         /\ handles' = handles + 1 /\ handles' \in 1 .. W!MaxHandles /\ cleaned' = cleaned
         /\ HandlesKept => \A i \in Registered(defers', "cleanup") : defers'[i].handle \in 1 .. handles'
<1>1. /\ defers \in Seq(W!Defer) /\ handles \in Nat /\ handles + 1 \in 1 .. W!MaxHandles
      /\ handles' = handles + 1 /\ cleaned' = cleaned
  BY DEF W!TypeOK, W!Request
<1> DEFINE f == CleanupOf(handles + 1)
<1>2. f \in W!Defer /\ f.kind = "cleanup"
  BY <1>1 DEF W!Defer, CleanupOf
<1>3. defers' = Append(defers, f)
  BY DEF W!Request, CleanupOf
<1> HIDE DEF f
<1>4. /\ defers' \in Seq(W!Defer) /\ Len(defers') = Len(defers) + 1 /\ Len(defers) \in Nat
      /\ \A i \in 1 .. Len(defers) : defers'[i] = defers[i]
      /\ defers'[Len(defers) + 1] = f
      /\ Registered(defers, "close") \subseteq 1 .. Len(defers)
      /\ Registered(defers', "close") =
           Registered(defers, "close") \cup {i \in {Len(defers) + 1} : f.kind = "close"}
  BY <1>1, <1>2, <1>3, DeferredLast
<1>5. Registered(defers', "kill") =
        Registered(defers, "kill") \cup {i \in {Len(defers) + 1} : f.kind = "kill"}
  BY <1>1, <1>2, <1>3, DeferredLast
<1>6. f.kind # "close" /\ f.kind # "kill"
  BY <1>2
<1>7. /\ {i \in {Len(defers) + 1} : f.kind = "close"} = {}
      /\ {i \in {Len(defers) + 1} : f.kind = "kill"} = {}
  BY <1>6
<1>8. /\ Registered(defers', "close") = Registered(defers, "close")
      /\ Registered(defers', "kill") = Registered(defers, "kill")
  BY <1>4, <1>5, <1>7
<1>9. ASSUME HandlesKept, NEW i \in Registered(defers', "cleanup")
      PROVE  defers'[i].handle \in 1 .. handles'
  <2>1. i \in 1 .. Len(defers) + 1
    BY <1>4, LenProperties DEF Registered
  <2>2. CASE i = Len(defers) + 1
    BY <1>1, <1>4, <2>2 DEF f, CleanupOf
  <2>3. CASE i # Len(defers) + 1
    <3>1. i \in 1 .. Len(defers) /\ defers'[i] = defers[i]
      BY <1>4, <2>1, <2>3
    <3>2. i \in Registered(defers, "cleanup")
      BY <1>1, <1>9, <3>1, LenProperties DEF Registered
    <3>3. defers[i].handle \in 1 .. handles
      BY <1>9, <3>2 DEF HandlesKept
    <3> QED BY <1>1, <3>1, <3>3
  <2> QED BY <2>2, <2>3
<1> QED BY <1>1, <1>4, <1>8, <1>9 DEF f

LEMMA BrowserInit ==
  ASSUME W!ConstantsOK, W!Init PROVE BrowserInv
<1> USE DEF W!Init, W!ConstantsOK
<1>1. defers = << >> /\ defers \in Seq(W!Defer) /\ Len(defers) = 0
  BY EmptySeq
<1>2. Registered(defers, "close") = {} /\ Registered(defers, "kill") = {}
  BY <1>1 DEF Registered
<1>3. W!TypeOK
  <2>1. next \in 0 .. Len(defers) /\ cleaned \subseteq 1 .. handles /\ changes \in 0 .. MaxChanges
    BY <1>1
  <2>2. handles \in 0 .. W!MaxHandles /\ w_calls \in 0 .. MaxBrowser
    BY DEF W!MaxHandles
  <2>3. wait \in [at : {"no", "poll", "displayed", "return"}, id : Nat, expired : BOOLEAN]
    BY DEF W!NoWait, W!NoId
  <2>4. page \in [id : Nat, there : BOOLEAN, shown : BOOLEAN]
    OBVIOUS
  <2>5. known \subseteq {s \in Sessions : sessions[s] # "none"}
    OBVIOUS
  <2> QED BY <1>1, <2>1, <2>2, <2>3, <2>4, <2>5 DEF W!TypeOK
<1>4. HandlesKept
  <2>1. Ran("close") = {}
    BY <1>2 DEF Ran
  <2>2. Cardinality(Ran("close")) = 0 /\ Cardinality(Registered(defers, "close")) = 0
    BY <1>2, <2>1, FS_EmptySet
  <2>3. handles = 0 /\ w_calls = 0 /\ MaxRequests \in Nat
    OBVIOUS
  <2>4. 1 .. handles = {}
    BY <2>3
  <2>5. Registered(defers, "cleanup") = {}
    BY <1>1 DEF Registered
  <2> HIDE DEF W!Init
  <2> QED BY <2>2, <2>3, <2>4, <2>5 DEF HandlesKept
<1>5. DriverKept
  BY <1>2 DEF DriverKept, Ran
<1>6. WaitKept
  BY DEF WaitKept, W!NoWait
<1> QED BY <1>3, <1>4, <1>5, <1>6 DEF BrowserInv

-----------------------------------------------------------------------------
\* Steps that defer nothing and run nothing.
LEMMA SameHandles ==
  ASSUME HandlesKept, W!TypeOK, w_calls' \in {w_calls, w_calls + 1}, w_calls \in Nat,
         UNCHANGED <<phase, next, defers, handles, cleaned>>
  PROVE  HandlesKept' /\ \A kind : Ran(kind)' = Ran(kind)
<1>1. Left' = Left /\ Ran("close")' = Ran("close")
  BY DEF Left, Ran
<1>2. \A kind : Ran(kind)' = Ran(kind)
  BY DEF Left, Ran
<1>3. Cardinality(Registered(defers, "close")) \in Nat
  BY RanFinite DEF W!TypeOK
<1>4. Cardinality(Registered(defers', "close")) <= w_calls'
  BY <1>3 DEF HandlesKept
<1> QED BY <1>1, <1>2, <1>4 DEF HandlesKept

\* The counters are natural numbers.
LEMMA BrowserCounts ==
  ASSUME W!TypeOK, W!ConstantsOK
  PROVE  /\ MaxRequests \in Nat /\ MaxBrowser \in Nat
         /\ W!MaxHandles = MaxRequests + MaxBrowser
         /\ handles \in Nat /\ w_calls \in Nat /\ w_calls <= MaxBrowser
         /\ defers \in Seq(W!Defer) /\ next \in 0 .. Len(defers) /\ cleaned \subseteq 1 .. handles
<1>1. MaxRequests \in Nat /\ MaxBrowser \in Nat
  BY DEF W!ConstantsOK
<1>2. W!MaxHandles = MaxRequests + MaxBrowser
  BY DEF W!MaxHandles
<1>3. handles \in 0 .. W!MaxHandles /\ w_calls \in 0 .. MaxBrowser
  BY DEF W!TypeOK
<1>4. defers \in Seq(W!Defer) /\ next \in 0 .. Len(defers) /\ cleaned \subseteq 1 .. handles
  BY DEF W!TypeOK
<1> QED BY <1>1, <1>2, <1>3, <1>4

\* A request of the body.
LEMMA BodyRequest ==
  ASSUME BrowserInv, W!ConstantsOK, phase = "body", phase' = "body", next' = next,
         w_calls' \in {w_calls, w_calls + 1}, handles < MaxRequests, W!Request
  PROVE  /\ HandlesKept'
         /\ defers' \in Seq(W!Defer) /\ next' \in 0 .. Len(defers')
         /\ handles' \in 0 .. W!MaxHandles /\ cleaned' \subseteq 1 .. handles'
         /\ Ran("close")' = {} /\ Ran("kill")' = {} /\ Ran("kill") = {} /\ Ran("close") = {}
         /\ Registered(defers', "close") = Registered(defers, "close")
         /\ \A i \in Registered(defers, "close") : defers'[i] = defers[i]
<1> USE DEF BrowserInv
<1>1. /\ handles \in Nat /\ MaxRequests \in Nat /\ MaxBrowser \in Nat /\ w_calls \in Nat
      /\ defers \in Seq(W!Defer) /\ next \in 0 .. Len(defers) /\ cleaned \subseteq 1 .. handles
  BY BrowserCounts
<1>2. W!MaxHandles = MaxRequests + MaxBrowser
  BY DEF W!MaxHandles
<1>3. handles + 1 <= W!MaxHandles
  BY <1>1, <1>2
<1>4. /\ defers' \in Seq(W!Defer) /\ Len(defers') = Len(defers) + 1 /\ Len(defers) \in Nat
      /\ \A i \in 1 .. Len(defers) : defers'[i] = defers[i]
      /\ defers'[Len(defers) + 1] = CleanupOf(handles + 1)
      /\ Registered(defers', "close") = Registered(defers, "close")
      /\ Registered(defers, "close") \subseteq 1 .. Len(defers)
      /\ handles' = handles + 1 /\ handles' \in 1 .. W!MaxHandles /\ cleaned' = cleaned
      /\ \A i \in Registered(defers', "cleanup") : defers'[i].handle \in 1 .. handles'
  BY <1>3, RequestMade
<1>5. Ran("close") = {} /\ Cardinality(Ran("close")) = 0 /\ Ran("kill") = {}
  BY <1>1, NoneRan
<1>6. Ran("close")' = {} /\ Ran("kill")' = {}
  <2>1. ASSUME NEW kind PROVE Ran(kind)' = {}
    <3>1. Registered(defers', kind) \subseteq 1 .. Len(defers')
      BY <1>4, LenProperties DEF Registered
    <3>2. Left' = Len(defers') /\ Len(defers') \in Nat
      BY <1>4 DEF Left
    <3> QED BY <3>1, <3>2 DEF Ran
  <2> QED BY <2>1
<1>7. HandlesKept'
  <2>1. Cardinality(Registered(defers', "close")) <= w_calls'
    <3>1. Cardinality(Registered(defers, "close")) \in Nat
      BY <1>1, RanFinite
    <3> QED BY <1>1, <1>4, <3>1 DEF HandlesKept
  <2>2. Cardinality(Ran("close")') = 0
    BY <1>6, FS_EmptySet
  <2>3. handles' <= MaxRequests + 0
    BY <1>1, <1>4
  <2>4. Left = Len(defers) /\ Left' = Len(defers) + 1
    BY <1>4 DEF Left
  <2>5. ASSUME NEW h \in 1 .. handles'
        PROVE  h \in cleaned' \/ \E i \in 1 .. Left' : defers'[i] = CleanupOf(h)
    <3>1. CASE h = handles + 1
      <4>1. Len(defers) + 1 \in 1 .. Left'
        BY <1>4, <2>4
      <4> QED BY <1>4, <3>1, <4>1
    <3>2. CASE h # handles + 1 /\ h \notin cleaned
      <4>1. h \in 1 .. handles /\ ~(h > handles - Cardinality(Ran("close")))
        BY <1>1, <1>4, <1>5, <3>2
      <4>2. PICK i \in 1 .. Left : defers[i] = CleanupOf(h)
        BY <3>2, <4>1 DEF HandlesKept
      <4>3. i \in 1 .. Left' /\ defers'[i] = defers[i]
        BY <1>4, <2>4
      <4> QED BY <4>2, <4>3
    <3> QED BY <1>4, <3>1, <3>2
  <2> QED BY <1>4, <2>1, <2>2, <2>3, <2>5 DEF HandlesKept
<1>8. next' \in 0 .. Len(defers') /\ handles' \in 0 .. W!MaxHandles /\ cleaned' \subseteq 1 .. handles'
  BY <1>1, <1>4
<1>9. \A i \in Registered(defers, "close") : defers'[i] = defers[i]
  BY <1>4
<1> QED BY <1>4, <1>5, <1>6, <1>7, <1>8, <1>9

\* A function that a call of the body defers: the driver's kill, or the close of
\* a session.
LEMMA BodyDefers ==
  ASSUME BrowserInv, W!ConstantsOK, phase = "body", phase' = "body", next' = next,
         w_calls < MaxBrowser, w_calls' = w_calls + 1,
         NEW f \in W!Defer, f.kind \in {"kill", "close"}, defers' = Append(defers, f),
         UNCHANGED <<handles, cleaned>>
  PROVE  /\ HandlesKept'
         /\ defers' \in Seq(W!Defer) /\ next' \in 0 .. Len(defers')
         /\ Ran("close")' = {} /\ Ran("kill")' = {} /\ Ran("kill") = {} /\ Ran("close") = {}
         /\ \A i \in Registered(defers', "close") :
              \/ i \in Registered(defers, "close") /\ defers'[i] = defers[i]
              \/ f.kind = "close" /\ defers'[i] = f
<1> USE DEF BrowserInv
<1>1. /\ handles \in Nat /\ MaxRequests \in Nat /\ MaxBrowser \in Nat /\ w_calls \in Nat
      /\ defers \in Seq(W!Defer) /\ next \in 0 .. Len(defers) /\ cleaned \subseteq 1 .. handles
  BY BrowserCounts
<1>2. /\ defers' \in Seq(W!Defer) /\ Len(defers') = Len(defers) + 1 /\ Len(defers) \in Nat
      /\ \A i \in 1 .. Len(defers) : defers'[i] = defers[i]
      /\ defers'[Len(defers) + 1] = f
      /\ Registered(defers, "close") \subseteq 1 .. Len(defers)
      /\ Registered(defers', "close") =
           Registered(defers, "close") \cup {i \in {Len(defers) + 1} : f.kind = "close"}
  BY <1>1, DeferredLast
<1>3. Ran("close") = {} /\ Cardinality(Ran("close")) = 0 /\ Ran("kill") = {}
  BY <1>1, NoneRan
<1>4. Ran("close")' = {} /\ Ran("kill")' = {}
  <2>1. ASSUME NEW kind PROVE Ran(kind)' = {}
    <3>1. Registered(defers', kind) \subseteq 1 .. Len(defers')
      BY <1>2, LenProperties DEF Registered
    <3>2. Left' = Len(defers') /\ Len(defers') \in Nat
      BY <1>2 DEF Left
    <3> QED BY <3>1, <3>2 DEF Ran
  <2> QED BY <2>1
<1>5. HandlesKept'
  <2>1. Cardinality(Registered(defers', "close")) <= w_calls'
    <3>1. IsFiniteSet(Registered(defers, "close")) /\ Cardinality(Registered(defers, "close")) \in Nat
      BY <1>1, RanFinite
    <3>2. Len(defers) + 1 \notin Registered(defers, "close")
      BY <1>2
    <3>3. Cardinality(Registered(defers, "close") \cup {Len(defers) + 1})
            = Cardinality(Registered(defers, "close")) + 1
      BY <3>1, <3>2, FS_AddElement
    <3>4. \/ Registered(defers', "close") = Registered(defers, "close")
          \/ Registered(defers', "close") = Registered(defers, "close") \cup {Len(defers) + 1}
      <4>1. CASE f.kind = "close"
        BY <1>2, <4>1
      <4>2. CASE f.kind # "close"
        BY <1>2, <4>2
      <4> QED BY <4>1, <4>2
    <3>5. Cardinality(Registered(defers, "close")) <= w_calls
      BY DEF HandlesKept
    <3> DEFINE n == Cardinality(Registered(defers, "close"))
               m == Cardinality(Registered(defers', "close"))
    <3>6. m = n \/ m = n + 1
      BY <3>3, <3>4
    <3>7. n \in Nat /\ n <= w_calls
      BY <3>1, <3>5
    <3> HIDE DEF n, m
    <3>8. m <= w_calls + 1
      BY <1>1, <3>6, <3>7
    <3> QED BY <3>8 DEF m
  <2>2. Cardinality(Ran("close")') = 0
    BY <1>4, FS_EmptySet
  <2>3. handles' <= MaxRequests + 0
    BY <1>1, <1>3 DEF HandlesKept
  <2>4. Left = Len(defers) /\ Left' = Len(defers) + 1
    BY <1>2 DEF Left
  <2>5. ASSUME NEW h \in 1 .. handles', h \notin cleaned'
        PROVE  \E i \in 1 .. Left' : defers'[i] = CleanupOf(h)
    <3>1. h \in 1 .. handles /\ ~(h > handles - Cardinality(Ran("close"))) /\ h \notin cleaned
      BY <1>1, <1>3, <2>5
    <3>2. PICK i \in 1 .. Left : defers[i] = CleanupOf(h)
      BY <3>1 DEF HandlesKept
    <3>3. i \in 1 .. Left' /\ defers'[i] = defers[i]
      BY <1>2, <2>4
    <3> QED BY <3>2, <3>3
  <2>6. ASSUME NEW i \in Registered(defers', "cleanup")
        PROVE  defers'[i].handle \in 1 .. handles'
    <3>1. i \in 1 .. Len(defers) + 1 /\ defers'[i].kind = "cleanup"
      BY <1>2, LenProperties DEF Registered
    <3>2. i \in 1 .. Len(defers) /\ defers'[i] = defers[i]
      BY <1>2, <3>1
    <3>3. i \in Registered(defers, "cleanup")
      BY <1>1, <3>1, <3>2, LenProperties DEF Registered
    <3> QED BY <3>2, <3>3 DEF HandlesKept
  <2> QED BY <2>1, <2>2, <2>3, <2>5, <2>6 DEF HandlesKept
<1>6. next' \in 0 .. Len(defers')
  BY <1>1, <1>2
<1>7. ASSUME NEW i \in Registered(defers', "close")
      PROVE  \/ i \in Registered(defers, "close") /\ defers'[i] = defers[i]
             \/ f.kind = "close" /\ defers'[i] = f
  BY <1>2
<1> QED BY <1>2, <1>3, <1>4, <1>5, <1>6, <1>7

\* One of the functions that are left has run, and is none of those that are
\* left any more; what it defers comes behind all of them.
LEMMA OneRan ==
  ASSUME BrowserInv, phase = "defers", phase' = "defers", next > 0, next' = next - 1,
         NEW kind, Registered(defers', kind) = Registered(defers, kind)
  PROVE  /\ next \in 1 .. Len(defers) /\ Left = next /\ Left' = next - 1
         /\ next \notin Ran(kind)
         /\ defers[next].kind = kind => Ran(kind)' = Ran(kind) \cup {next}
         /\ defers[next].kind # kind => Ran(kind)' = Ran(kind)
<1>1. /\ Left = next /\ Left' = next - 1 /\ next \in 1 .. Len(defers) /\ Len(defers) \in Nat
      /\ defers \in Seq(W!Defer)
  BY LenProperties DEF Left, BrowserInv, W!TypeOK
<1>2. Registered(defers, kind) \subseteq Nat
  BY <1>1, LenProperties DEF Registered
<1>3. next \in Registered(defers, kind) <=> defers[next].kind = kind
  BY <1>1, LenProperties DEF Registered
<1>4. Ran(kind)' = {i \in Registered(defers, kind) : i > next - 1}
  BY <1>1 DEF Ran
<1>5. Ran(kind) = {i \in Registered(defers, kind) : i > next}
  BY <1>1 DEF Ran
<1>6. \A i \in Registered(defers, kind) : i > next - 1 <=> i > next \/ i = next
  BY <1>1, <1>2
<1>7. next \notin Ran(kind)
  BY <1>1, <1>5
<1>8. ASSUME defers[next].kind = kind PROVE Ran(kind)' = Ran(kind) \cup {next}
  BY <1>3, <1>4, <1>5, <1>6, <1>8
<1>9. ASSUME defers[next].kind # kind PROVE Ran(kind)' = Ran(kind)
  BY <1>3, <1>4, <1>5, <1>6, <1>9
<1> QED BY <1>1, <1>7, <1>8, <1>9

\* A deferred cleanup or kill.
LEMMA RunsKept ==
  ASSUME BrowserInv, phase = "defers", phase' = "defers", next > 0, next' = next - 1,
         w_calls' = w_calls, UNCHANGED <<defers, handles>>,
         \/ defers[next].kind = "kill" /\ cleaned' = cleaned
         \/ defers[next].kind = "cleanup" /\ cleaned' = cleaned \cup {defers[next].handle}
  PROVE  HandlesKept' /\ Ran("close")' = Ran("close") /\ next' \in 0 .. Len(defers')
<1> USE DEF BrowserInv
<1>1. /\ next \in 1 .. Len(defers) /\ Left = next /\ Left' = next - 1
      /\ Ran("close")' = Ran("close")
  BY OneRan
<1>2. Len(defers) \in Nat
  BY LenProperties DEF W!TypeOK
<1>3. ASSUME NEW h \in 1 .. handles', h \notin cleaned',
             ~(h > handles' - Cardinality(Ran("close")'))
      PROVE  \E i \in 1 .. Left' : defers'[i] = CleanupOf(h)
  <2>1. PICK i \in 1 .. Left : defers[i] = CleanupOf(h)
    BY <1>1, <1>3 DEF HandlesKept
  <2>2. i # next
    BY <1>3, <2>1 DEF CleanupOf
  <2> QED BY <1>1, <2>1, <2>2
<1>4. HandlesKept'
  BY <1>1, <1>3 DEF HandlesKept
<1> QED BY <1>1, <1>2, <1>4

\* A deferred close makes a handle that is one of the last.
LEMMA ClosesKept ==
  ASSUME BrowserInv, W!ConstantsOK, phase = "defers", phase' = "defers", next > 0,
         next' = next - 1, w_calls' = w_calls, defers[next].kind = "close",
         W!Request
  PROVE  /\ HandlesKept'
         /\ defers' \in Seq(W!Defer) /\ next' \in 0 .. Len(defers')
         /\ handles' \in 0 .. W!MaxHandles /\ cleaned' \subseteq 1 .. handles'
         /\ next \in Registered(defers, "close")
         /\ Ran("close")' = Ran("close") \cup {next} /\ Ran("kill")' = Ran("kill")
         /\ Registered(defers', "close") = Registered(defers, "close")
         /\ Registered(defers', "kill") = Registered(defers, "kill")
         /\ \A i \in Registered(defers, "close") : defers'[i] = defers[i]
<1> USE DEF BrowserInv
<1>1. /\ handles \in Nat /\ MaxRequests \in Nat /\ MaxBrowser \in Nat
      /\ w_calls \in Nat /\ w_calls <= MaxBrowser
      /\ defers \in Seq(W!Defer) /\ next \in 0 .. Len(defers) /\ cleaned \subseteq 1 .. handles
  BY BrowserCounts
<1> DEFINE R == Ran("close")
           n == Cardinality(R)
           C1 == Registered(defers, "close")
<1>2. /\ IsFiniteSet(R) /\ n \in Nat /\ IsFiniteSet(C1) /\ Cardinality(C1) \in Nat
  BY <1>1, RanFinite DEF Ran
<1>3. next \in 1 .. Len(defers) /\ next \in C1 /\ next \notin R /\ R \subseteq C1 /\ Left = next
  BY <1>1, LenProperties DEF Registered, Ran, Left
<1> HIDE DEF n, R, C1
<1>4. IsFiniteSet(R \cup {next}) /\ Cardinality(R \cup {next}) = n + 1
  BY <1>2, <1>3, FS_AddElement DEF n
<1>5. n + 1 <= Cardinality(C1)
  <2>1. R \cup {next} \subseteq C1
    BY <1>3
  <2> QED BY <1>2, <1>4, <2>1, FS_Subset
<1>6. Cardinality(C1) <= w_calls /\ handles <= MaxRequests + n
  BY DEF HandlesKept, C1, n, R
<1>7. handles + 1 <= W!MaxHandles
  BY <1>1, <1>2, <1>5, <1>6 DEF W!MaxHandles
<1>8. /\ defers' \in Seq(W!Defer) /\ Len(defers') = Len(defers) + 1 /\ Len(defers) \in Nat
      /\ \A i \in 1 .. Len(defers) : defers'[i] = defers[i]
      /\ Registered(defers', "close") = Registered(defers, "close")
      /\ Registered(defers', "kill") = Registered(defers, "kill")
      /\ Registered(defers, "close") \subseteq 1 .. Len(defers)
      /\ handles' = handles + 1 /\ handles' \in 1 .. W!MaxHandles /\ cleaned' = cleaned
      /\ \A i \in Registered(defers', "cleanup") : defers'[i].handle \in 1 .. handles'
  BY <1>7, RequestMade
<1>9. /\ Left' = next - 1 /\ Ran("close")' = Ran("close") \cup {next}
  BY <1>8, OneRan
<1>10. Ran("kill")' = Ran("kill")
  BY <1>8, OneRan
<1>11. HandlesKept'
  <2>1. Cardinality(Ran("close")') = n + 1
    BY <1>4, <1>9 DEF R
  <2>2. Cardinality(Registered(defers', "close")) <= w_calls'
    BY <1>6, <1>8 DEF C1
  <2>3. handles' <= MaxRequests + (n + 1)
    BY <1>1, <1>2, <1>6, <1>8
  <2>4. ASSUME NEW h \in 1 .. handles', h \notin cleaned', ~(h > handles' - (n + 1))
        PROVE  \E i \in 1 .. Left' : defers'[i] = CleanupOf(h)
    <3>1. h \in 1 .. handles /\ h \notin cleaned /\ ~(h > handles - n)
      BY <1>1, <1>2, <1>8, <2>4, SMTT(20)
    <3>2. PICK i \in 1 .. Left : defers[i] = CleanupOf(h)
      BY <3>1 DEF HandlesKept, n, R
    <3>3. i # next
      BY <3>2 DEF CleanupOf
    <3>4. i \in 1 .. Left' /\ defers'[i] = defers[i]
      BY <1>3, <1>8, <1>9, <3>3
    <3> QED BY <3>2, <3>4
  <2> QED BY <1>8, <2>1, <2>2, <2>3, <2>4 DEF HandlesKept
<1>12. next' \in 0 .. Len(defers') /\ handles' \in 0 .. W!MaxHandles /\ cleaned' \subseteq 1 .. handles'
  BY <1>1, <1>3, <1>8
<1>13. \A i \in Registered(defers, "close") : defers'[i] = defers[i]
  BY <1>8
<1> QED BY <1>3, <1>8, <1>9, <1>10, <1>11, <1>12, <1>13 DEF R, C1

-----------------------------------------------------------------------------
\* Spawn, the steps of the driver and the page, and the start and the end of a
\* wait: no function is deferred and none is run.
LEMMA BrowserQuiet ==
  ASSUME BrowserInv, W!ConstantsOK,
         \/ W!Spawn \/ (\E s \in Sessions : W!StartWait(s)) \/ W!Expire
         \/ W!DriverUp \/ W!DriverDies \/ W!PageChanges
  PROVE  BrowserInv'
<1> USE DEF BrowserInv
<1>1. w_calls \in Nat /\ w_calls <= MaxBrowser /\ MaxBrowser \in Nat
  BY BrowserCounts
<1>2. ASSUME W!Called
      PROVE  /\ phase = "body" /\ w_calls' \in 0 .. MaxBrowser
             /\ w_calls' = w_calls + 1 /\ wait.at = "no"
  BY <1>1, <1>2 DEF W!Called
<1>3. UNCHANGED <<phase, next, defers, handles, cleaned, known>>
  BY DEF W!Spawn, W!StartWait, W!Expire, W!DriverUp, W!DriverDies, W!PageChanges,
         W!serverVars, W!handleVars
<1>4. w_calls' \in {w_calls, w_calls + 1} /\ w_calls' \in 0 .. MaxBrowser
  BY <1>1, <1>2 DEF W!Spawn, W!StartWait, W!Expire, W!DriverUp, W!DriverDies, W!PageChanges
<1>5. HandlesKept' /\ Ran("close")' = Ran("close") /\ Ran("kill")' = Ran("kill")
  BY <1>1, <1>3, <1>4, SameHandles
<1>6. ASSUME UNCHANGED <<driver, sessions, faulty>> PROVE DriverKept'
  BY <1>3, <1>5, <1>6 DEF DriverKept
<1>7. CASE W!Spawn
  <2>1. /\ driver = "none" /\ driver' = "starting" /\ phase = "body"
        /\ UNCHANGED <<sessions, wait, page, faulty, changes>>
    BY <1>2, <1>7 DEF W!Spawn, W!pageVars
  <2>2. Ran("kill") = {}
    BY <2>1, NoneRan DEF W!TypeOK
  <2>3. DriverKept'
    BY <1>3, <1>5, <2>1, <2>2 DEF DriverKept
  <2>4. W!TypeOK'
    BY <1>3, <1>4, <2>1 DEF W!TypeOK
  <2> QED BY <1>3, <1>5, <2>1, <2>3, <2>4 DEF WaitKept
<1>8. ASSUME NEW s \in Sessions, W!StartWait(s) PROVE BrowserInv'
  <2>1. /\ phase = "body" /\ wait' = [at |-> "poll", id |-> 0, expired |-> FALSE]
        /\ UNCHANGED <<driver, sessions, page, faulty, changes>>
    BY <1>2, <1>8 DEF W!StartWait, W!pageVars, W!serverVars, W!NoId
  <2>2. W!TypeOK'
    BY <1>3, <1>4, <2>1 DEF W!TypeOK
  <2> QED BY <1>3, <1>5, <1>6, <2>1, <2>2 DEF WaitKept
<1>9. CASE W!Expire
  <2>1. /\ wait' = [wait EXCEPT !.expired = TRUE]
        /\ UNCHANGED <<driver, sessions, page, faulty, changes>>
    BY <1>9 DEF W!Expire, W!pageVars, W!serverVars
  <2>2. wait'.at = wait.at /\ wait' \in [at : {"no", "poll", "displayed", "return"}, id : Nat, expired : BOOLEAN]
    BY <2>1 DEF W!TypeOK
  <2>3. W!TypeOK'
    BY <1>3, <1>4, <2>1, <2>2 DEF W!TypeOK
  <2> QED BY <1>3, <1>5, <1>6, <2>1, <2>2, <2>3 DEF WaitKept
<1>10. CASE W!DriverUp
  <2>1. /\ driver = "starting" /\ driver' = "up"
        /\ UNCHANGED <<sessions, wait, page, faulty, changes>>
    BY <1>10 DEF W!DriverUp, W!pageVars
  <2>2. DriverKept'
    BY <1>3, <1>5, <2>1 DEF DriverKept
  <2>3. W!TypeOK'
    BY <1>3, <1>4, <2>1 DEF W!TypeOK
  <2> QED BY <1>3, <1>5, <2>1, <2>2, <2>3 DEF WaitKept
<1>11. CASE W!DriverDies
  <2>1. /\ driver \in {"starting", "up"} /\ driver' = "dead" /\ faulty' = TRUE
        /\ sessions' = W!Orphaned
        /\ UNCHANGED <<wait, page, changes>>
    BY <1>11 DEF W!DriverDies, W!pageVars
  <2>2. /\ sessions' \in [Sessions -> {"none", "open", "ended", "orphaned"}]
        /\ \A s \in Sessions : sessions'[s] = "none" <=> sessions[s] = "none"
    BY <2>1 DEF W!Orphaned, W!TypeOK
  <2>3. DriverKept'
    BY <1>3, <1>5, <2>1, <2>2 DEF DriverKept
  <2>4. W!TypeOK'
    BY <1>3, <1>4, <2>1, <2>2 DEF W!TypeOK
  <2> QED BY <1>3, <1>5, <2>1, <2>3, <2>4 DEF WaitKept
<1>12. CASE W!PageChanges
  <2>1. /\ changes < MaxChanges /\ changes' = changes + 1
        /\ UNCHANGED <<driver, sessions, wait, faulty>>
    BY <1>12 DEF W!PageChanges, W!serverVars
  <2>2. page' \in [id : Nat, there : BOOLEAN, shown : BOOLEAN]
    <3>1. page.id + 1 \in Nat
      BY DEF W!TypeOK
    <3>7. (~page.there) \in BOOLEAN
      OBVIOUS
    <3>8. (~page.shown) \in BOOLEAN
      OBVIOUS
    <3>2. \/ page' = [page EXCEPT !.there = ~page.there]
          \/ page' = [page EXCEPT !.shown = ~page.shown]
          \/ page' = [page EXCEPT !.id = page.id + 1]
      BY <1>12 DEF W!PageChanges
    <3>3. page \in [id : Nat, there : BOOLEAN, shown : BOOLEAN]
      BY DEF W!TypeOK
    <3> HIDE DEF BrowserInv
    <3>4. CASE page' = [page EXCEPT !.there = ~page.there]
      BY <3>7, <3>3, <3>4
    <3>5. CASE page' = [page EXCEPT !.shown = ~page.shown]
      BY <3>8, <3>3, <3>5
    <3>6. CASE page' = [page EXCEPT !.id = page.id + 1]
      BY <3>1, <3>3, <3>6
    <3> QED BY <3>2, <3>4, <3>5, <3>6
  <2>3. changes' \in 0 .. MaxChanges
    BY <2>1 DEF W!TypeOK, W!ConstantsOK
  <2>4. W!TypeOK'
    BY <1>3, <1>4, <2>1, <2>2, <2>3 DEF W!TypeOK
  <2> QED BY <1>3, <1>5, <1>6, <2>1, <2>4 DEF WaitKept
<1> QED BY <1>7, <1>8, <1>9, <1>10, <1>11, <1>12

\* A request of the body leaves the driver as it is, and no session that was
\* there is gone.
LEMMA RequestKept ==
  ASSUME BrowserInv, W!ConstantsOK, phase = "body", phase' = "body", next' = next,
         w_calls' \in {w_calls, w_calls + 1}, w_calls' \in 0 .. MaxBrowser,
         handles < MaxRequests, W!Request,
         driver' = driver, known \subseteq known',
         known' \subseteq {s \in Sessions : sessions'[s] # "none"},
         sessions' \in [Sessions -> {"none", "open", "ended", "orphaned"}],
         \A s \in Sessions : sessions'[s] = sessions[s] \/ driver = "up",
         \A s \in Sessions : sessions'[s] = "orphaned" => sessions[s] = "orphaned",
         faulty' \in BOOLEAN, faulty => faulty',
         page' = page, changes' = changes,
         wait' \in [at : {"no", "poll", "displayed", "return"}, id : Nat, expired : BOOLEAN]
  PROVE  BrowserInv'
<1> USE DEF BrowserInv
<1>1. /\ HandlesKept'
      /\ defers' \in Seq(W!Defer) /\ next' \in 0 .. Len(defers')
      /\ handles' \in 0 .. W!MaxHandles /\ cleaned' \subseteq 1 .. handles'
      /\ Ran("close")' = {} /\ Ran("kill")' = {} /\ Ran("kill") = {} /\ Ran("close") = {}
      /\ Registered(defers', "close") = Registered(defers, "close")
      /\ \A i \in Registered(defers, "close") : defers'[i] = defers[i]
  BY BodyRequest
<1>2. W!TypeOK'
  BY <1>1 DEF W!TypeOK
<1>3. DriverKept'
  BY <1>1 DEF DriverKept
<1>4. WaitKept'
  BY DEF WaitKept
<1> QED BY <1>1, <1>2, <1>3, <1>4

\* The calls of the body that make a request.
LEMMA BrowserRequests ==
  ASSUME BrowserInv, W!ConstantsOK, NEW s \in Sessions,
         W!NewSession(s) \/ W!Command(s) \/ W!Close(s)
  PROVE  BrowserInv'
<1> USE DEF BrowserInv
<1>1. /\ phase = "body" /\ phase' = "body" /\ next' = next /\ wait' = wait
      /\ w_calls' = w_calls + 1 /\ handles < MaxRequests /\ W!Called
      /\ driver' = driver /\ page' = page /\ changes' = changes
  BY DEF W!NewSession, W!Command, W!Close, W!Called, W!MayRequest, W!serverVars,
         W!pageVars
<1>2. w_calls' \in 0 .. MaxBrowser
  BY <1>1, BrowserCounts DEF W!Called
<1>3. /\ sessions \in [Sessions -> {"none", "open", "ended", "orphaned"}]
      /\ known \subseteq {t \in Sessions : sessions[t] # "none"}
      /\ wait \in [at : {"no", "poll", "displayed", "return"}, id : Nat, expired : BOOLEAN]
      /\ faulty \in BOOLEAN /\ page \in [id : Nat, there : BOOLEAN, shown : BOOLEAN]
  BY DEF W!TypeOK
<1>4. CASE W!NewSession(s)
  <2>2. W!Request
    BY <1>4 DEF W!NewSession
  <2>3. /\ sessions[s] = "none"
        /\ \/ /\ driver = "up" /\ sessions' = [sessions EXCEPT ![s] = "open"]
              /\ known' \in {known, known \cup {s}} /\ faulty' \in {faulty, TRUE}
           \/ sessions' = sessions /\ known' = known /\ faulty' = faulty
    BY <1>4 DEF W!NewSession, W!Up, W!MayLose
  <2>4. /\ sessions' \in [Sessions -> {"none", "open", "ended", "orphaned"}]
        /\ known \subseteq known'
        /\ known' \subseteq {t \in Sessions : sessions'[t] # "none"}
        /\ \A t \in Sessions : sessions'[t] = sessions[t] \/ driver = "up"
        /\ \A t \in Sessions : sessions'[t] = "orphaned" => sessions[t] = "orphaned"
    BY <1>3, <2>3
  <2>5. faulty' \in BOOLEAN /\ (faulty => faulty')
    BY <1>3, <2>3
  <2> QED BY <1>1, <1>2, <1>3, <2>2, <2>4, <2>5, RequestKept
<1>5. CASE W!Command(s)
  <2>1. W!Request /\ UNCHANGED <<sessions, known, faulty>>
    BY <1>5 DEF W!Command, W!serverVars
  <2> QED BY <1>1, <1>2, <1>3, <2>1, RequestKept
<1>6. CASE W!Close(s)
  <2>1. /\ W!Request /\ UNCHANGED <<known, faulty>>
        /\ \/ sessions' = sessions
           \/ /\ driver = "up" /\ sessions[s] = "open"
              /\ sessions' = [sessions EXCEPT ![s] = "ended"]
    BY <1>6 DEF W!Close, W!End, W!Up
  <2>2. /\ sessions' \in [Sessions -> {"none", "open", "ended", "orphaned"}]
        /\ known' \subseteq {t \in Sessions : sessions'[t] # "none"}
        /\ \A t \in Sessions : sessions'[t] = sessions[t] \/ driver = "up"
        /\ \A t \in Sessions : sessions'[t] = "orphaned" => sessions[t] = "orphaned"
    BY <1>3, <2>1
  <2> QED BY <1>1, <1>2, <1>3, <2>1, <2>2, RequestKept
<1> QED BY <1>4, <1>5, <1>6

\* The calls of the body that defer the driver's kill or a session's close.
LEMMA BrowserDefers ==
  ASSUME BrowserInv, W!ConstantsOK, W!DeferKill \/ \E s \in Sessions : W!DeferClose(s)
  PROVE  BrowserInv'
<1> USE DEF BrowserInv
<1>1. /\ phase = "body" /\ phase' = "body" /\ next' = next /\ w_calls' = w_calls + 1
      /\ w_calls < MaxBrowser
      /\ UNCHANGED <<driver, sessions, known, handles, cleaned, page, changes, wait, faulty>>
  BY DEF W!DeferKill, W!DeferClose, W!Called, W!serverVars, W!pageVars
<1>2. w_calls' \in 0 .. MaxBrowser
  BY <1>1, BrowserCounts
<1>3. PICK f \in W!Defer :
        /\ defers' = Append(defers, f)
        /\ f.kind \in {"kill", "close"}
        /\ f.kind = "close" => f.session \in known
  <2>1. CASE W!DeferKill
    <3>1. [kind |-> "kill"] \in W!Defer
      BY DEF W!Defer
    <3> QED BY <2>1, <3>1 DEF W!DeferKill
  <2>2. ASSUME NEW s \in Sessions, W!DeferClose(s)
        PROVE  /\ [kind |-> "close", session |-> s] \in W!Defer /\ s \in known
               /\ defers' = Append(defers, [kind |-> "close", session |-> s])
    BY <2>2 DEF W!DeferClose, W!Defer
  <2> QED BY <2>1, <2>2
<1>4. /\ HandlesKept'
      /\ defers' \in Seq(W!Defer) /\ next' \in 0 .. Len(defers')
      /\ Ran("close")' = {} /\ Ran("kill")' = {} /\ Ran("kill") = {} /\ Ran("close") = {}
      /\ \A i \in Registered(defers', "close") :
           \/ i \in Registered(defers, "close") /\ defers'[i] = defers[i]
           \/ f.kind = "close" /\ defers'[i] = f
  BY <1>1, <1>3, BodyDefers
<1>5. W!TypeOK'
  <2>1. handles' \in 0 .. W!MaxHandles /\ cleaned' \subseteq 1 .. handles'
    BY <1>1 DEF W!TypeOK
  <2> QED BY <1>1, <1>2, <1>4, <2>1 DEF W!TypeOK
<1>6. \A i \in Registered(defers', "close") : defers'[i].session \in known'
  BY <1>1, <1>3, <1>4 DEF DriverKept
<1>7. DriverKept'
  BY <1>1, <1>4, <1>6 DEF DriverKept
<1>8. WaitKept'
  BY <1>1 DEF WaitKept
<1> QED BY <1>4, <1>5, <1>7, <1>8

\* wait_until_visible.
LEMMA BrowserWaits ==
  ASSUME BrowserInv, W!ConstantsOK, W!Waiting
  PROVE  BrowserInv'
<1> USE DEF BrowserInv
<1>1. /\ wait.at # "no" /\ phase = "body" /\ phase' = "body" /\ next' = next
      /\ UNCHANGED <<driver, sessions, known, page, changes, faulty, w_calls>>
  BY DEF W!Waiting, W!Poll, W!Displayed, W!Return, WaitKept, W!serverVars, W!pageVars
<1>2. w_calls' \in 0 .. MaxBrowser /\ w_calls \in Nat /\ handles \in Nat /\ MaxRequests \in Nat
  BY <1>1, BrowserCounts
<1>3. /\ sessions \in [Sessions -> {"none", "open", "ended", "orphaned"}]
      /\ known \subseteq {t \in Sessions : sessions[t] # "none"}
      /\ wait \in [at : {"no", "poll", "displayed", "return"}, id : Nat, expired : BOOLEAN]
      /\ faulty \in BOOLEAN /\ page \in [id : Nat, there : BOOLEAN, shown : BOOLEAN]
  BY DEF W!TypeOK
<1>4. W!NoWait \in [at : {"no", "poll", "displayed", "return"}, id : Nat, expired : BOOLEAN]
  BY DEF W!NoWait, W!NoId
<1>5. W!Answer \in Nat
  BY <1>3 DEF W!Answer, W!NoId
<1>6. wait' \in [at : {"no", "poll", "displayed", "return"}, id : Nat, expired : BOOLEAN]
  <2>1. CASE W!Poll
    <3>1. \/ wait' = W!NoWait
          \/ wait' = [wait EXCEPT !.at = "displayed", !.id = W!Answer]
          \/ wait' = wait
      BY <2>1 DEF W!Poll
    <3>2. [wait EXCEPT !.at = "displayed", !.id = W!Answer]
            \in [at : {"no", "poll", "displayed", "return"}, id : Nat, expired : BOOLEAN]
      BY <1>3, <1>5
    <3> QED BY <1>3, <1>4, <3>1, <3>2
  <2>2. CASE W!Displayed
    <3>1. PICK at \in {"poll", "return"} : wait' = W!NoWait \/ wait' = [wait EXCEPT !.at = at]
      BY <2>2 DEF W!Displayed
    <3>2. [wait EXCEPT !.at = at]
            \in [at : {"no", "poll", "displayed", "return"}, id : Nat, expired : BOOLEAN]
      BY <1>3
    <3> QED BY <1>4, <3>1, <3>2
  <2> QED BY <1>4, <2>1, <2>2 DEF W!Waiting, W!Return
<1>7. CASE handles < MaxRequests /\ W!Request
  BY <1>1, <1>2, <1>3, <1>6, <1>7, RequestKept
<1>8. CASE UNCHANGED <<defers, handles, cleaned>>
  <2>1. HandlesKept' /\ Ran("close")' = Ran("close") /\ Ran("kill")' = Ran("kill")
    BY <1>1, <1>2, <1>8, SameHandles
  <2>2. W!TypeOK'
    BY <1>1, <1>2, <1>6, <1>8 DEF W!TypeOK
  <2>3. DriverKept'
    BY <1>1, <1>8, <2>1 DEF DriverKept
  <2> QED BY <1>1, <2>1, <2>2, <2>3 DEF WaitKept
<1>9. \/ UNCHANGED <<defers, handles, cleaned>>
      \/ handles < MaxRequests /\ W!Request
  <2>1. CASE W!Poll
    <3>1. UNCHANGED W!handleVars \/ (handles + 1 < MaxRequests /\ W!Request)
      BY <2>1 DEF W!Poll
    <3>2. handles + 1 < MaxRequests => handles < MaxRequests
      BY <1>2
    <3> QED BY <3>1, <3>2 DEF W!handleVars
  <2>2. CASE W!Displayed
    BY <2>2 DEF W!Displayed, W!MayRequest
  <2> QED BY <2>1, <2>2 DEF W!Waiting, W!Return, W!handleVars
<1> QED BY <1>7, <1>8, <1>9

\* The end of the body, the deferred functions and the end of the test.
LEMMA BrowserTeardown ==
  ASSUME BrowserInv, W!ConstantsOK, W!EndBody \/ W!Deferred
  PROVE  BrowserInv'
<1> USE DEF BrowserInv
<1>1. /\ w_calls \in Nat /\ MaxBrowser \in Nat /\ defers \in Seq(W!Defer) /\ Len(defers) \in Nat
      /\ next \in 0 .. Len(defers)
  BY BrowserCounts, LenProperties
<1>2. /\ wait' = wait /\ UNCHANGED <<page, changes, known, faulty, w_calls>>
  BY DEF W!EndBody, W!Deferred, W!Cleanup, W!KillDriver, W!CloseSession, W!EndTest,
         W!serverVars, W!pageVars
<1>3. CASE W!EndBody \/ W!EndTest
  <2>1. /\ UNCHANGED <<driver, sessions, defers, handles, cleaned>>
        /\ phase' \in {"defers", "over"} /\ next' \in 0 .. Len(defers)
        /\ \/ phase = "body" /\ next' = Len(defers) /\ wait.at = "no"
           \/ phase = "defers" /\ next' = next
    BY <1>1, <1>3 DEF W!EndBody, W!EndTest, W!serverVars, W!handleVars
  <2>2. Left' = Left /\ Left \in Nat
    BY <1>1, <2>1 DEF Left
  <2>3. Ran("close")' = Ran("close") /\ Ran("kill")' = Ran("kill")
    BY <2>1, <2>2 DEF Ran
  <2>4. HandlesKept'
    BY <1>2, <2>1, <2>2, <2>3 DEF HandlesKept
  <2>5. DriverKept'
    BY <1>2, <2>1, <2>3 DEF DriverKept
  <2>6. W!TypeOK'
    BY <1>2, <2>1 DEF W!TypeOK
  <2>7. WaitKept'
    BY <1>2, <2>1 DEF WaitKept
  <2> QED BY <2>4, <2>5, <2>6, <2>7
<1>4. CASE W!Cleanup
  <2>1. /\ phase = "defers" /\ phase' = "defers" /\ next > 0 /\ next' = next - 1
        /\ defers[next].kind = "cleanup" /\ cleaned' = cleaned \cup {defers[next].handle}
        /\ UNCHANGED <<defers, handles, driver, sessions>>
    BY <1>4 DEF W!Cleanup, W!Last, W!serverVars
  <2>2. HandlesKept' /\ Ran("close")' = Ran("close") /\ next' \in 0 .. Len(defers')
    BY <1>2, <2>1, RunsKept
  <2>3. Ran("kill")' = Ran("kill")
    BY <2>1, OneRan
  <2>4. cleaned' \subseteq 1 .. handles'
    <3>1. next \in Registered(defers, "cleanup")
      BY <1>1, <2>1, LenProperties DEF Registered
    <3>2. defers[next].handle \in 1 .. handles
      BY <3>1 DEF HandlesKept
    <3> QED BY <2>1, <3>2 DEF W!TypeOK
  <2>5. W!TypeOK'
    BY <1>2, <2>1, <2>2, <2>4 DEF W!TypeOK
  <2>6. DriverKept'
    BY <1>2, <2>1, <2>2, <2>3 DEF DriverKept
  <2> QED BY <1>2, <2>1, <2>2, <2>5, <2>6 DEF WaitKept
<1>5. CASE W!KillDriver
  <2>1. /\ phase = "defers" /\ phase' = "defers" /\ next > 0 /\ next' = next - 1
        /\ defers[next].kind = "kill" /\ UNCHANGED <<defers, handles, cleaned>>
        /\ \/ /\ driver \in {"starting", "up"} /\ driver' = "killed" /\ sessions' = W!Orphaned
           \/ /\ driver \notin {"starting", "up"} /\ UNCHANGED <<driver, sessions>>
    BY <1>5 DEF W!KillDriver, W!Killed, W!Last, W!handleVars
  <2>2. HandlesKept' /\ Ran("close")' = Ran("close") /\ next' \in 0 .. Len(defers')
    BY <1>2, <2>1, RunsKept
  <2>3. Ran("kill")' = Ran("kill") \cup {next} /\ next \in 1 .. Len(defers) /\ Left = next
    BY <2>1, OneRan
  <2>4. sessions' \in [Sessions -> {"none", "open", "ended", "orphaned"}]
    BY <2>1 DEF W!Orphaned, W!TypeOK
  <2>5. \A s \in Sessions : /\ (sessions'[s] = "none" <=> sessions[s] = "none")
                            /\ (sessions[s] = "ended" => sessions'[s] = "ended")
    BY <2>1 DEF W!Orphaned, W!TypeOK
  <2>6. W!TypeOK'
    BY <1>2, <2>1, <2>2, <2>4, <2>5 DEF W!TypeOK
  <2>7. DriverKept'
    <3>1. /\ Ran("kill")' # {} /\ driver' \notin {"starting", "up"}
          /\ driver' = "dead" => faulty'
      BY <1>2, <2>1, <2>3 DEF DriverKept
    <3>2. \A s \in Sessions :
            /\ sessions'[s] # "none" => driver' \in {"up", "killed", "dead"}
            /\ sessions'[s] = "orphaned" => driver' \in {"killed", "dead"}
      BY <2>1, <2>5 DEF DriverKept
    <3>3. \A i \in Registered(defers', "close") :
            defers'[i].session \in known' /\ defers'[i].session \in Sessions
      BY <1>2, <2>1 DEF DriverKept, W!TypeOK
    <3>4. ASSUME ~faulty', NEW i \in Ran("close")', \A k \in Registered(defers', "kill") : k < i
          PROVE  sessions'[defers'[i].session] = "ended"
      <4>1. i \in Ran("close") /\ sessions[defers[i].session] = "ended"
        BY <1>2, <2>1, <2>2, <3>4 DEF DriverKept
      <4>2. i \in Registered(defers', "close")
        BY <2>1, <4>1 DEF Ran
      <4> QED BY <2>1, <2>5, <3>3, <4>1, <4>2
    <3> QED BY <3>1, <3>2, <3>3, <3>4 DEF DriverKept
  <2> QED BY <1>2, <2>1, <2>2, <2>6, <2>7 DEF WaitKept
<1>6. CASE W!CloseSession
  <2> DEFINE s == defers[next].session
  <2>1. /\ phase = "defers" /\ phase' = "defers" /\ next > 0 /\ next' = next - 1
        /\ defers[next].kind = "close" /\ W!Request /\ driver' = driver
    BY <1>6 DEF W!CloseSession, W!End, W!Last
  <2>2. sessions' = IF driver = "up" /\ sessions[s] = "open"
                    THEN [sessions EXCEPT ![s] = "ended"] ELSE sessions
    BY <1>6 DEF W!CloseSession, W!End, W!Last, W!Up
  <2>3. /\ HandlesKept'
        /\ defers' \in Seq(W!Defer) /\ next' \in 0 .. Len(defers')
        /\ handles' \in 0 .. W!MaxHandles /\ cleaned' \subseteq 1 .. handles'
        /\ next \in Registered(defers, "close")
        /\ Ran("close")' = Ran("close") \cup {next} /\ Ran("kill")' = Ran("kill")
        /\ Registered(defers', "close") = Registered(defers, "close")
        /\ Registered(defers', "kill") = Registered(defers, "kill")
        /\ \A i \in Registered(defers, "close") : defers'[i] = defers[i]
    BY <1>2, <2>1, ClosesKept
  <2>4. \A i \in Registered(defers, "close") :
          /\ defers[i].session \in known /\ defers[i].session \in Sessions
          /\ sessions[defers[i].session] \in {"open", "ended", "orphaned"}
    BY DEF DriverKept, W!TypeOK
  <2>5. s \in Sessions /\ sessions[s] \in {"open", "ended", "orphaned"}
    BY <2>3, <2>4
  <2> HIDE DEF s
  <2>6. sessions' \in [Sessions -> {"none", "open", "ended", "orphaned"}]
    BY <2>2, <2>5 DEF W!TypeOK
  <2>7. \A t \in Sessions : /\ (sessions'[t] = "none" <=> sessions[t] = "none")
                            /\ (sessions'[t] = "orphaned" <=> sessions[t] = "orphaned")
                            /\ (sessions[t] = "ended" => sessions'[t] = "ended")
    BY <2>2, <2>5 DEF W!TypeOK
  <2>8. W!TypeOK'
    BY <1>2, <2>1, <2>3, <2>6, <2>7 DEF W!TypeOK
  <2>9. ASSUME ~faulty', NEW i \in Ran("close")', \A k \in Registered(defers', "kill") : k < i
        PROVE  sessions'[defers'[i].session] = "ended"
    <3>1. CASE i = next
      <4>1. Ran("kill") = {}
        <5>1. Left = next /\ next \in Nat
          BY <1>1, <2>1 DEF Left
        <5>2. \A k \in Registered(defers, "kill") : k < next
          BY <2>3, <2>9, <3>1
        <5>3. Registered(defers, "kill") \subseteq Nat
          BY <1>1, LenProperties DEF Registered
        <5> QED BY <5>1, <5>2, <5>3 DEF Ran
      <4>2. driver = "up" /\ sessions[s] # "orphaned"
        BY <1>2, <2>5, <2>9, <4>1 DEF DriverKept
      <4>3. sessions'[s] = "ended"
        BY <2>2, <2>5, <4>2 DEF W!TypeOK
      <4> QED BY <2>3, <3>1, <4>3 DEF s
    <3>2. CASE i # next
      <4>1. i \in Ran("close") /\ i \in Registered(defers, "close")
        BY <2>3, <2>9, <3>2 DEF Ran
      <4>2. sessions[defers[i].session] = "ended"
        BY <1>2, <2>3, <2>9, <4>1 DEF DriverKept
      <4> QED BY <2>3, <2>4, <2>7, <4>1, <4>2
    <3> QED BY <3>1, <3>2
  <2>10. DriverKept'
    BY <1>2, <2>1, <2>3, <2>4, <2>7, <2>9 DEF DriverKept
  <2> QED BY <1>2, <2>1, <2>3, <2>8, <2>10 DEF WaitKept
<1> QED BY <1>3, <1>4, <1>5, <1>6 DEF W!Deferred

LEMMA BrowserStep ==
  ASSUME BrowserInv, W!ConstantsOK, [W!Next]_(W!vars) PROVE BrowserInv'
<1>1. CASE UNCHANGED W!vars
  <2>1. Left' = Left /\ defers' = defers
    BY <1>1 DEF Left, W!vars
  <2>2. Ran("close")' = Ran("close") /\ Ran("kill")' = Ran("kill")
    BY <2>1 DEF Ran
  <2>3. W!TypeOK'
    BY <1>1 DEF W!vars, W!TypeOK, BrowserInv
  <2>4. HandlesKept'
    BY <1>1, <2>1, <2>2 DEF W!vars, HandlesKept, BrowserInv
  <2>5. DriverKept'
    BY <1>1, <2>1, <2>2 DEF W!vars, DriverKept, BrowserInv
  <2> QED BY <1>1, <2>3, <2>4, <2>5 DEF W!vars, WaitKept, BrowserInv
<1>2. CASE W!Body
  BY <1>2, BrowserQuiet, BrowserRequests, BrowserDefers, BrowserTeardown DEF W!Body
<1>3. CASE W!Waiting
  BY <1>3, BrowserWaits
<1> QED BY <1>1, <1>2, <1>3, BrowserQuiet, BrowserTeardown DEF W!Next, W!Terminated

\* Webdriver counts as FiniteSets does.
LEMMA BrowserCounting ==
  \A x : W!Cardinality(x) = Cardinality(x)
BY DEF W!Cardinality, Cardinality

\* At the end of the test nothing is left to run.
LEMMA BrowserReleased ==
  ASSUME BrowserInv, phase = "over" => next = 0 PROVE W!CleanedUp
<1> SUFFICES ASSUME phase = "over" PROVE W!CleanedUp
  BY DEF W!CleanedUp, W!DriverReleased, W!BodyHandlesCleaned, W!SessionsEnded
<1>1. \A kind : W!Registered(kind) = Registered(defers, kind)
  BY DEF W!Registered, Registered
<1>2. Left = 0
  BY DEF Left
<1>3. ASSUME NEW kind PROVE Ran(kind) = Registered(defers, kind)
  BY <1>2, LenProperties DEF Ran, Registered, BrowserInv, W!TypeOK
<1>4. W!DriverReleased
  BY <1>1, <1>3 DEF W!DriverReleased, DriverKept, BrowserInv
<1>5. W!BodyHandlesCleaned
  <2>1. 1 .. Left = {}
    BY <1>2
  <2>2. Ran("close") = W!Registered("close")
    BY <1>1, <1>3
  <2>3. \A h \in 1 .. handles : h \in cleaned \/ h > handles - Cardinality(Ran("close"))
    BY <2>1 DEF HandlesKept, BrowserInv
  <2>4. W!Cardinality(W!Registered("close")) = Cardinality(Ran("close"))
    BY <2>2, BrowserCounting
  <2> QED BY <2>3, <2>4 DEF W!BodyHandlesCleaned
<1>6. W!SessionsEnded
  BY <1>1, <1>3 DEF W!SessionsEnded, DriverKept, BrowserInv
<1> QED BY <1>4, <1>5, <1>6 DEF W!CleanedUp

\* The deferred functions are over when none is left.
LEMMA OverWhenNone ==
  W!Spec => [](phase = "over" => next = 0)
<1> DEFINE I == phase = "over" => next = 0
<1>1. W!Init => I
  BY DEF W!Init
<1>2. I /\ [W!Next]_(W!vars) => I'
  BY DEF W!Next, W!vars, W!Body, W!Waiting, W!Deferred, W!Terminated, W!Spawn, W!DeferKill,
         W!EndBody, W!NewSession, W!Close, W!DeferClose, W!Command, W!StartWait,
         W!Poll, W!Displayed, W!Return, W!Cleanup, W!KillDriver, W!CloseSession, W!EndTest, W!Expire,
         W!DriverUp, W!DriverDies, W!PageChanges
<1> QED BY <1>1, <1>2, PTL DEF W!Spec

LEMMA BrowserInvariant ==
  ASSUME W!ConstantsOK PROVE W!Spec => []BrowserInv
<1>1. W!Init => BrowserInv BY BrowserInit
<1>2. BrowserInv /\ [W!Next]_(W!vars) => BrowserInv' BY BrowserStep
<1> QED BY <1>1, <1>2, PTL DEF W!Spec

-----------------------------------------------------------------------------
(* The behaviours of the devices: each is one of Http, of Ssh and of       *)
(* Webdriver, where the others stand still.                                *)

LEMMA HttpAlone == Devices => H!Spec
<1>1. Begin => H!Init
  BY DEF Begin
<1>2. ASSUME [Advance]_all PROVE [H!Next]_(H!vars)
  BY <1>2 DEF Advance, all, hVars, H!vars, Alone
<1> QED BY <1>1, <1>2, PTL DEF Devices, H!Spec

LEMMA SshAlone == Devices => SSH!Spec
<1>1. Begin => SSH!Init
  BY DEF Begin
<1>2. ASSUME [Advance]_all PROVE [SSH!Next]_(SSH!vars)
  BY <1>2 DEF Advance, all, sVars, SSH!vars, Alone
<1> QED BY <1>1, <1>2, PTL DEF Devices, SSH!Spec

LEMMA BrowserAlone == Devices => W!Spec
<1>1. Begin => W!Init
  BY DEF Begin
<1>2. ASSUME [Advance]_all PROVE [W!Next]_(W!vars)
  BY <1>2 DEF Advance, all, wVars, W!vars, Alone
<1> QED BY <1>1, <1>2, PTL DEF Devices, W!Spec

\* Type correctness of Http, Ssh and Webdriver: every list a handle knows is
\* allocated, every registered function has its number, and libssh2 has
\* nothing but what an open object points to.
THEOREM HandlesTypeCorrect == Devices => [](H!TypeOK /\ SSH!TypeOK /\ W!TypeOK)
<1>1. HttpInv => H!TypeOK
  BY DEF HttpInv
<1>2. SshInv => SSH!TypeOK
  BY DEF SshInv
<1>3. BrowserInv => W!TypeOK
  BY DEF BrowserInv
<1>4. Devices => []HttpInv
  BY HttpAlone, HttpInvariant, HttpAssumption, PTL
<1>5. Devices => []SshInv
  BY SshAlone, SshInvariant, SshAssumption, PTL
<1>6. Devices => []BrowserInv
  BY BrowserAlone, BrowserInvariant, WebdriverAssumption, PTL
<1> QED BY <1>1, <1>2, <1>3, <1>4, <1>5, <1>6, PTL

\* While a handle lives, each option has the list it was given last, and the
\* list is allocated unless a later setopt with a list freed it; freed memory is
\* read only after such a setopt or after cleanup, and the registry holds the
\* functions in use and the refused ones, also after cleanup and collection
\* (ltf-http.c).
THEOREM RequestsStayExact == Devices => []RequestsExact
<1>1. HttpInv => RequestsExact
  BY DEF HttpInv, RequestsExact
<1> QED BY <1>1, HttpAlone, HttpInvariant, HttpAssumption, PTL

\* A perform that ends well has handed the whole body to the callback, in as
\* many chunks as it comes; a callback that raised or took less is never
\* swallowed (ltf-http.c).
THEOREM BodyStaysComplete == Devices => []BodyComplete
<1>1. HttpInv => BodyComplete
  BY DEF HttpInv, BodyComplete
<1> QED BY <1>1, HttpAlone, HttpInvariant, HttpAssumption, PTL

\* In the documented use no pointer of a session, a channel or an SFTP channel
\* is followed to an object that is gone, whenever the collector runs; and as
\* long as none is, every open channel is one that libssh2 has and its session
\* lists, once (ltf-ssh-session.c, ltf-ssh-channel.c, ltf-ssh-sftp.c).
THEOREM SessionsStaySafe == Devices => []SessionsSafe
<1>1. SshInv => SessionsSafe
  BY SshSafe DEF SessionsSafe
<1> QED BY <1>1, SshAlone, SshInvariant, SshAssumption, PTL

\* When the test is over, however it ended, no driver runs whose kill was
\* deferred, every handle of a request of the body is cleaned up, and without a
\* fault every session of a deferred close has ended, where the kill was
\* deferred first (lib/ltf/webdriver.lua).
THEOREM TeardownReleases == Devices => []CleanedUp
<1>1. BrowserInv /\ (phase = "over" => next = 0) => CleanedUp
  BY BrowserReleased DEF CleanedUp
<1>2. Devices => []BrowserInv
  BY BrowserAlone, BrowserInvariant, WebdriverAssumption, PTL
<1>3. Devices => [](phase = "over" => next = 0)
  BY BrowserAlone, OverWhenNone, PTL
<1> QED BY <1>1, <1>2, <1>3, PTL

=============================================================================
