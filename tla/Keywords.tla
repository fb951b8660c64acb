------------------------------ MODULE Keywords ------------------------------
(***************************************************************************)
(* The keyword tree of a test: keyword_status.c follows the Lua call and   *)
(* return hooks with a stack of its own, whose entries point into the      *)
(* growing arrays the tree is made of.                                     *)
(*                                                                         *)
(* The Lua side is the stack of functions that are running.  A hook sees   *)
(* the functions of the project and of the LTF library; C functions, other *)
(* files and functions without a name, the test body among them, are       *)
(* "hidden".  A function that was tail called has no name either.          *)
(***************************************************************************)
EXTENDS Naturals, Sequences, FiniteSets, SequencesExt

CONSTANTS
  Capacity,  \* initial capacity of the arrays of keywords, 10 in the code
  MaxTests, MaxCalls, MaxDepth  \* bounds on tests, on calls of a test, on frames

\* What the constants must be; the module that gives them values assumes it.
ConstantsOK ==
  /\ Capacity \in Nat \ {0}
  /\ MaxTests \in Nat /\ MaxCalls \in Nat /\ MaxDepth \in Nat

VARIABLES
  test_running,
  frames,         \* running Lua functions, the innermost last
  keyword_stack,
  keywords,       \* the tree, in the order the keywords were added
  dangling,       \* whether this test followed a pointer into a moved array
  calls, tests,   \* counted for the bounds
  lost,           \* history: a call of this test lost its return, by a tail
                  \* call or an error
  strayed         \* history: in this test the library called a function of the
                  \* project from a function of its own that is ignored

history == <<lost, strayed>>
vars == <<test_running, frames, keyword_stack, keywords, dangling, calls, tests, lost, strayed>>

Kind == {"project", "lib", "hidden"}

\* The keyword of a frame, and the parent of a keyword: 0 is none.
Frame   == [kind : Kind, tail : BOOLEAN, keyword : Nat]
Entry   == [kw : Nat, in_blacklist : BOOLEAN, valid : BOOLEAN]
Keyword == [parent : Nat, finished : BOOLEAN, caller : Nat]

Init ==
  /\ test_running = FALSE
  /\ frames = << >>
  /\ keyword_stack = << >>
  /\ keywords = << >>
  /\ dangling = FALSE
  /\ calls = 0
  /\ tests = 0
  /\ lost = FALSE /\ strayed = FALSE

\* keyword_status_test_started.
TestStarted ==
  /\ ~test_running
  /\ tests < MaxTests
  /\ test_running' = TRUE
  /\ keywords' = << >>
  /\ keyword_stack' = << >>
  /\ dangling' = FALSE
  /\ calls' = 0
  /\ tests' = tests + 1
  /\ lost' = FALSE /\ strayed' = FALSE
  /\ UNCHANGED frames

\* keyword_status_test_finished; the keywords go to the record of the test.
TestFinished ==
  /\ test_running
  /\ frames = << >>
  /\ test_running' = FALSE
  /\ UNCHANGED <<frames, keyword_stack, keywords, dangling, calls, tests, history>>

-----------------------------------------------------------------------------
Named(frame) == frame.kind # "hidden" /\ ~frame.tail

\* The keyword of the innermost running function that has one.
Caller ==
  LET recorded == {i \in DOMAIN frames : frames[i].keyword # 0} IN
  IF recorded = {} THEN 0
  ELSE frames[CHOOSE i \in recorded : \A j \in recorded : j <= i].keyword

\* Appending to an array of keywords moves it when its capacity is used up.
Children(parent) == {i \in DOMAIN keywords : keywords[i].parent = parent}
Full(parent) == \E k \in 0 .. Len(keywords) : Cardinality(Children(parent)) = Capacity * 2 ^ k

Entered(kind, keyword) ==
  frames' = Append(frames, [kind |-> kind, tail |-> FALSE, keyword |-> keyword])

MayCall ==
  /\ test_running
  /\ calls < MaxCalls
  /\ Len(frames) < MaxDepth
  /\ calls' = calls + 1

\* call_hook on a named function.  The parent is what the stack says, and what
\* an ignored function of the library calls goes to the top of the tree, under
\* whatever entries the stack has for keywords there.
Call(kind) ==
  LET top     == IF keyword_stack = << >> THEN [kw |-> 0, in_blacklist |-> FALSE, valid |-> TRUE]
                 ELSE Last(keyword_stack)
      lib     == kind = "lib"
      ignored == top.in_blacklist /\ lib
      added   == IF ignored THEN 0 ELSE Len(keywords) + 1
      moved   == ~ignored /\ Full(top.kw)
      Kept(e) == [e EXCEPT !.valid =
                    @ /\ ~(moved /\ e.kw # 0 /\ keywords[e.kw].parent = top.kw)]
  IN  /\ MayCall
      /\ keyword_stack' =
           Append([i \in DOMAIN keyword_stack |-> Kept(keyword_stack[i])],
                  [kw |-> added, in_blacklist |-> lib, valid |-> TRUE])
      /\ keywords' = IF ignored THEN keywords
                     ELSE Append(keywords, [parent   |-> top.kw,
                                            finished |-> FALSE,
                                            caller   |-> Caller])
      /\ Entered(kind, added)
      /\ dangling' = (dangling \/ ~top.valid)
      /\ strayed' = (strayed \/ (~ignored /\ keyword_stack # << >> /\ top.kw = 0))
      /\ UNCHANGED <<test_running, tests, lost>>

\* Functions that the hooks do not report or that call_hook leaves out.
CallHidden ==
  /\ MayCall
  /\ Entered("hidden", 0)
  /\ UNCHANGED <<test_running, keyword_stack, keywords, dangling, tests, history>>

\* "return f()" replaces the running function; call_hook sees no name.
TailCall(kind) ==
  /\ test_running
  /\ calls < MaxCalls
  /\ frames # << >>
  /\ calls' = calls + 1
  /\ frames' = [frames EXCEPT ![Len(frames)] =
                  [kind |-> kind, tail |-> TRUE, keyword |-> 0]]
  /\ lost' = (lost \/ Named(Last(frames)))
  /\ UNCHANGED <<test_running, keyword_stack, keywords, dangling, tests, strayed>>

\* Mutant: the entry stays on the stack.
RetHookPeeks ==
  IF keyword_stack = << >> THEN UNCHANGED <<keyword_stack, keywords, dangling>>
  ELSE LET entry == Last(keyword_stack) IN
       /\ keywords' = IF entry.kw = 0 THEN keywords
                      ELSE [keywords EXCEPT ![entry.kw].finished = TRUE]
       /\ dangling' = (dangling \/ ~entry.valid)
       /\ UNCHANGED keyword_stack

\* ret_hook on a named function.
RetHook ==
  IF keyword_stack = << >> THEN UNCHANGED <<keyword_stack, keywords, dangling>>
  ELSE LET entry == Last(keyword_stack) IN
       /\ keyword_stack' = Front(keyword_stack)
       /\ keywords' = IF entry.kw = 0 THEN keywords
                      ELSE [keywords EXCEPT ![entry.kw].finished = TRUE]
       /\ dangling' = (dangling \/ ~entry.valid)

Return ==
  /\ test_running
  /\ frames # << >>
  /\ frames' = Front(frames)
  /\ IF Named(Last(frames)) THEN RetHook
                            ELSE UNCHANGED <<keyword_stack, keywords, dangling>>
  /\ UNCHANGED <<test_running, calls, tests, history>>

\* An error ends functions without a return hook, up to a hidden one that is a
\* pcall, or all of them, which ends the body or a deferred function.
Raise(left) ==
  /\ test_running
  /\ frames # << >>
  /\ left < Len(frames)
  /\ left > 0 => frames[left + 1].kind = "hidden"
  /\ frames' = SubSeq(frames, 1, left)
  /\ lost' = (lost \/ \E i \in left + 1 .. Len(frames) : Named(frames[i]))
  /\ UNCHANGED <<test_running, keyword_stack, keywords, dangling, calls, tests, strayed>>

Terminated == ~test_running /\ tests = MaxTests /\ UNCHANGED vars

Next ==
  \/ TestStarted \/ TestFinished
  \/ \E kind \in {"project", "lib"} : Call(kind) \/ TailCall(kind)
  \/ CallHidden
  \/ Return
  \/ \E left \in 0 .. MaxDepth : Raise(left)
  \/ Terminated

Spec == Init /\ [][Next]_vars

-----------------------------------------------------------------------------
\* Every variable stays in its type, and the stack and the tree refer to
\* keywords of the same test.
TypeOK ==
  /\ test_running \in BOOLEAN /\ dangling \in BOOLEAN
  /\ lost \in BOOLEAN /\ strayed \in BOOLEAN
  /\ frames \in Seq(Frame)
  /\ keyword_stack \in Seq(Entry)
  /\ keywords \in Seq(Keyword)
  /\ \A i \in DOMAIN keyword_stack : keyword_stack[i].kw \in 0 .. Len(keywords)
  /\ \A i \in DOMAIN keywords : keywords[i].parent \in 0 .. i - 1

NamedFrames == {j \in DOMAIN frames : Named(frames[j])}
Depth(j)    == Cardinality({k \in NamedFrames : k <= j})

\* As long as every call of the test returned as one, the stack of keywords is
\* the stack of the named Lua functions.  A keyword is below the function that
\* called it; only where an ignored function of the library calls back into the
\* project is it at the top of the tree instead.  Exactly the running ones are
\* unfinished, unless a pointer into a moved array was followed, which happens
\* in a test with such a call back only: there the array at the top may grow
\* under the entries of the stack (keyword_status.c:82, 124).
CleanTreeExact ==
  ~lost =>
    /\ test_running =>
         /\ Len(keyword_stack) = Cardinality(NamedFrames)
         /\ \A j \in NamedFrames : keyword_stack[Depth(j)].kw = frames[j].keyword
    /\ ~strayed => /\ ~dangling
                   /\ test_running => \A i \in DOMAIN keyword_stack : keyword_stack[i].valid
    /\ ~dangling =>
         \A i \in DOMAIN keywords :
           /\ keywords[i].parent = keywords[i].caller \/ (strayed /\ keywords[i].parent = 0)
           /\ keywords[i].finished <=> \A j \in DOMAIN frames : frames[j].keyword # i

=============================================================================
