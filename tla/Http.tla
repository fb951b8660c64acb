-------------------------------- MODULE Http --------------------------------
(***************************************************************************)
(* An HTTP handle of modules/http/ltf-http.c: the curl handle, the curl    *)
(* list it owns, the Lua callbacks it holds in the registry and a transfer *)
(* that calls back into Lua.  libcurl is external: it keeps the pointer to *)
(* a list it is given, reads it in curl_easy_perform, hands the body over  *)
(* in chunks and gives the transfer up when a chunk is not taken whole.    *)
(* Of the calls a callback could make on its own handle only setopt with a *)
(* function is modelled; the read callback works as the write callback.    *)
(***************************************************************************)
EXTENDS Integers, Sequences

CONSTANTS
  MaxHeaders,  \* bound: entries of a list given to setopt
  MaxChunks,   \* bound: chunks of a body
  MaxCalls     \* bound: calls of the test

\* What the constants must be; the module that gives them values assumes it.
ConstantsOK == MaxHeaders \in Nat /\ MaxChunks \in Nat /\ MaxCalls \in Nat

VARIABLES
  handle,    \* ud->h: not made, live, or freed by cleanup (and still set)
  gone,      \* the collector has taken the userdata
  headers,   \* ud->headers: index of a list, 0 for NULL
  list,      \* every curl_slist made: its entries, and if it is allocated
  option,    \* the lists libcurl points at
  ref,       \* ud->write_ref and ud->read_ref, 0 for none
  registry,  \* registry references that hold a function
  refs,      \* references handed out so far
  thread,    \* the test, or a transfer with its callback in progress
  body,      \* chunks of the response: sent, and taken whole by the callback
  result,    \* of the last perform
  asked,     \* history: entries of the list an option was given last, or 0
  stale,     \* history: options whose list another setopt has freed since
  refused,   \* history: references of the functions that setopt refused
  ub,        \* freed memory was used
  calls
vars == <<handle, gone, headers, list, option, ref, registry, refs, thread,
          body, result, asked, stale, refused, ub, calls>>

curlVars == <<headers, list, option, asked, stale>>
refVars  == <<ref, registry, refs, refused>>
workVars == <<thread, body, result>>

ListOption == {"HTTPHEADER", "QUOTE"}
Callback   == {"write", "read"}
List       == [entries : Nat, live : BOOLEAN]

Init ==
  /\ handle = "none" /\ gone = FALSE
  /\ headers = 0 /\ list = << >>
  /\ option = [o \in ListOption |-> 0]
  /\ ref = [c \in Callback |-> 0] /\ registry = {} /\ refs = 0
  /\ thread = "test"
  /\ body = [sent |-> 0, taken |-> 0]
  /\ result = "none"
  /\ asked = [o \in ListOption |-> 0] /\ stale = {} /\ refused = {}
  /\ ub = FALSE /\ calls = 0

Called ==
  /\ ~ub /\ ~gone /\ calls < MaxCalls
  /\ calls' = calls + 1

\* A call on a handle that cleanup has freed reaches libcurl with it.
OnFreed ==
  /\ Called
  /\ thread = "test" /\ handle = "freed"
  /\ ub' = TRUE
  /\ UNCHANGED <<handle, gone, curlVars, refVars, workVars>>

New ==
  /\ Called
  /\ handle = "none"
  /\ handle' = "live"
  /\ UNCHANGED <<gone, curlVars, refVars, workVars, ub>>

-----------------------------------------------------------------------------
(* setopt.                                                                 *)

Freed(i) == IF i = 0 THEN list ELSE [list EXCEPT ![i].live = FALSE]

\* The loop of lua_to_slist ends before the last entry.
Converted(given) == IF given = 0 THEN 0 ELSE given - 1

\* The lists that an option is told of, and those that are freed under the
\* options that still have them, when one option gets its list anew.
Record(o, given) ==
  /\ asked' = [asked EXCEPT ![o] = Converted(given)]
  /\ stale' = {q \in ListOption \ {o} : asked[q] # 0}

\* Mutant: a list without entries is not passed on to libcurl.
SetListSkipsNull(o, given) ==
  /\ Called
  /\ thread = "test" /\ handle = "live"
  /\ IF Converted(given) = 0
     THEN list' = Freed(headers) /\ headers' = 0 /\ UNCHANGED option
     ELSE /\ list' = Append(Freed(headers),
                            [entries |-> Converted(given), live |-> TRUE])
          /\ headers' = Len(list) + 1
          /\ option' = [option EXCEPT ![o] = Len(list) + 1]
  /\ Record(o, given)
  /\ UNCHANGED <<handle, gone, refVars, workVars, ub>>

\* A table: the old list is freed, whichever option it was made for, a new
\* one is made (NULL without entries) and given to libcurl.
SetList(o, given) ==
  /\ Called
  /\ thread = "test" /\ handle = "live"
  /\ IF Converted(given) = 0
     THEN /\ list' = Freed(headers)
          /\ headers' = 0
          /\ option' = [option EXCEPT ![o] = 0]
     ELSE /\ list' = Append(Freed(headers),
                            [entries |-> Converted(given), live |-> TRUE])
          /\ headers' = Len(list) + 1
          /\ option' = [option EXCEPT ![o] = Len(list) + 1]
  /\ Record(o, given)
  /\ UNCHANGED <<handle, gone, refVars, workVars, ub>>

\* luaL_checkstring raises in lua_to_slist: the old list is freed already.
SetBadList(given) ==
  /\ Called
  /\ thread = "test" /\ handle = "live" /\ given > 1
  /\ list' = Freed(headers)
  /\ headers' = 0
  /\ stale' = {o \in ListOption : asked[o] # 0}
  /\ UNCHANGED <<handle, gone, option, asked, refVars, workVars, ub>>

\* A function for OPT_WRITEFUNCTION or OPT_READFUNCTION, also from inside a
\* callback.
SetCallback(c) ==
  /\ Called
  /\ handle = "live"
  /\ refs' = refs + 1
  /\ registry' = (registry \ {ref[c]}) \cup {refs + 1}
  /\ ref' = [ref EXCEPT ![c] = refs + 1]
  /\ UNCHANGED <<handle, gone, curlVars, refused, workVars, ub>>

\* Any other function option: the reference is taken, then the call raises.
RefuseFunction ==
  /\ Called
  /\ handle = "live"
  /\ refs' = refs + 1
  /\ registry' = registry \cup {refs + 1}
  /\ refused' = refused \cup {refs + 1}
  /\ UNCHANGED <<handle, gone, curlVars, ref, workVars, ub>>

-----------------------------------------------------------------------------
(* perform and the write callback.                                         *)

Dangling == \E o \in ListOption : option[o] # 0 /\ ~list[option[o]].live

Perform ==
  /\ Called
  /\ thread = "test" /\ handle = "live"
  /\ ub' = Dangling
  /\ thread' = IF Dangling THEN "test" ELSE "transfer"
  /\ body' = [sent |-> 0, taken |-> 0]
  /\ result' = "none"
  /\ UNCHANGED <<handle, gone, curlVars, refVars>>

\* libcurl hands over a chunk: without a callback it writes it itself.
Deliver ==
  /\ thread = "transfer" /\ body.sent < MaxChunks
  /\ body' = [body EXCEPT !.sent = @ + 1, !.taken = IF ref["write"] = 0 THEN @ + 1 ELSE @]
  /\ thread' = IF ref["write"] = 0 THEN "transfer" ELSE "callback"
  /\ UNCHANGED <<handle, gone, curlVars, refVars, result, ub, calls>>

\* Mutant: the chunk counts as taken when the callback raised.
FinishCallbackSilent(outcome) ==
  /\ thread = "callback"
  /\ body' = [body EXCEPT !.taken = IF outcome = "whole" THEN @ + 1 ELSE @]
  /\ IF outcome \in {"whole", "raised"}
     THEN thread' = "transfer" /\ UNCHANGED result
     ELSE thread' = "test" /\ result' = "raised"
  /\ UNCHANGED <<handle, gone, curlVars, refVars, ub, calls>>

\* c_write_cb: the number the function returns, 0 when it raised or returned
\* no number; libcurl stops unless that is the whole chunk.
FinishCallback(outcome) ==
  /\ thread = "callback"
  /\ body' = [body EXCEPT !.taken = IF outcome = "whole" THEN @ + 1 ELSE @]
  /\ IF outcome = "whole"
     THEN thread' = "transfer" /\ UNCHANGED result
     ELSE thread' = "test" /\ result' = "raised"
  /\ UNCHANGED <<handle, gone, curlVars, refVars, ub, calls>>

\* The transfer ends, with an error of the network at any point.
FinishPerform(ok) ==
  /\ thread = "transfer"
  /\ thread' = "test"
  /\ result' = IF ok THEN "performed" ELSE "raised"
  /\ UNCHANGED <<handle, gone, curlVars, refVars, body, ub, calls>>

-----------------------------------------------------------------------------
(* The end of a handle.                                                    *)

\* cleanup frees the curl handle only and leaves the pointer set.
Cleanup ==
  /\ Called
  /\ thread = "test" /\ handle = "live"
  /\ handle' = "freed"
  /\ option' = [o \in ListOption |-> 0]
  /\ UNCHANGED <<gone, headers, list, asked, stale, refVars, workVars, ub>>

\* l_module_http_gc asks for a userdata of another name, so it raises before
\* it frees anything.
Collect ==
  /\ thread = "test" /\ handle # "none" /\ ~gone /\ ~ub
  /\ gone' = TRUE
  /\ UNCHANGED <<handle, curlVars, refVars, workVars, ub, calls>>

Terminated == (ub \/ gone \/ calls = MaxCalls) /\ UNCHANGED vars

Test ==
  \/ New \/ RefuseFunction \/ Perform \/ Cleanup \/ OnFreed
  \/ \E o \in ListOption, given \in 0 .. MaxHeaders : SetList(o, given)
  \/ \E given \in 0 .. MaxHeaders : SetBadList(given)
  \/ \E c \in Callback : SetCallback(c)

Transfer ==
  \/ Deliver
  \/ \E outcome \in {"whole", "short", "raised"} : FinishCallback(outcome)
  \/ \E ok \in BOOLEAN : FinishPerform(ok)

Next == Test \/ Transfer \/ Collect \/ Terminated

Spec == Init /\ [][Next]_vars

-----------------------------------------------------------------------------
\* Every variable stays in its type, and ud->headers is NULL or a list that
\* is still allocated.
TypeOK ==
  /\ handle \in {"none", "live", "freed"} /\ gone \in BOOLEAN
  /\ list \in Seq(List)
  /\ headers \in 0 .. Len(list) /\ (headers # 0 => list[headers].live)
  /\ option \in [ListOption -> 0 .. Len(list)]
  /\ refs \in Nat /\ registry \subseteq 1 .. refs
  /\ ref \in [Callback -> 0 .. refs]
  /\ thread \in {"test", "transfer", "callback"}
  /\ body \in [sent : 0 .. MaxChunks, taken : 0 .. MaxChunks]
  /\ result \in {"none", "performed", "raised"}
  /\ asked \in [ListOption -> Nat] /\ stale \subseteq ListOption
  /\ refused \subseteq 1 .. refs
  /\ ub \in BOOLEAN /\ calls \in 0 .. MaxCalls

\* While a handle lives, each option has the list it was given last, in full,
\* and the list is still allocated unless another setopt with a list, for
\* another option or refused for one of its entries, came after it: the handle
\* knows one list only.  Freed memory is read by a perform after such a setopt
\* or by a call after cleanup, and never during a transfer.  Of the lists made
\* only the last one is allocated, and the registry holds the functions in use
\* and those that setopt refused: neither cleanup nor the collector releases
\* a list or a function.
RequestsExact ==
  /\ handle = "live" => \A o \in ListOption :
       IF asked[o] = 0
       THEN option[o] = 0
       ELSE /\ option[o] # 0 /\ list[option[o]].entries = asked[o]
            /\ list[option[o]].live = (o \notin stale)
  /\ ub => handle = "freed" \/ stale # {}
  /\ thread # "test" => stale = {}
  /\ {i \in 1 .. Len(list) : list[i].live} = {headers} \ {0}
  /\ registry = ({ref[c] : c \in Callback} \ {0}) \cup refused

\* A perform that succeeds has given the callback the whole body: a callback
\* that raised or took less makes perform raise, it is never swallowed.
BodyComplete == result = "performed" => body.taken = body.sent

=============================================================================
