------------------------------- MODULE RawLog -------------------------------
(***************************************************************************)
(* The run record (ltf_state_t) and what is made of it: the context that   *)
(* hooks are given (hooks_context_push), the raw log (ltf_state_to_json),  *)
(* what `logs info` loads again (ltf_state_from_json) and the trees that   *)
(* it prints (ltf_logs.c).                                                 *)
(*                                                                         *)
(* How a record comes about is module TestRun; here it is any record that  *)
(* a run may have at a hook or at its end.  A pointer to a string is Null  *)
(* or <<string>>; a growing array is a sequence; a JSON object or a Lua    *)
(* table is a function whose domain is the keys it has.                    *)
(***************************************************************************)
EXTENDS Integers, Sequences, FiniteSets, SequencesExt

CONSTANTS
  Records,    \* the records that runs may have, at a hook or at their end
  LateNames,  \* names of variables that tests and hooks may register
  MaxLate     \* bound: how many they register

VARIABLES
  record,   \* ltf_state
  vars,     \* ltf_get_vars(): those of the record, then what was registered later
  raw,      \* the raw log
  context,  \* the context given to the latest hook
  loaded,   \* the record of logs info
  listing   \* the lines that logs info printed for each test

recordVars == <<record, vars, raw, context, loaded, listing>>

Null == << >>  \* also: no raw log, context, ... yet

-----------------------------------------------------------------------------
(* The records.                                                            *)

Levels == <<"CRITICAL", "ERROR", "WARNING", "INFO", "DEBUG", "TRACE">>

\* ltf_log_level_to_str and ltf_log_level_from_str
LevelName(level)   == Levels[level + 1]
LevelFromName(str) == (CHOOSE i \in DOMAIN Levels : Levels[i] = str) - 1

IsPointer(p) == p = Null \/ p = <<p[1]>>
IsArray(s)   == s \in Seq({s[i] : i \in DOMAIN s})

\* msg is a copy (strndup) that ends at the first NUL of the message, msg_len the
\* length of the whole message: beyond is by how much that goes beyond the copy.
IsOutput(o) ==
  /\ o = [file |-> o.file, line |-> o.line, date_time |-> o.date_time, level |-> o.level,
          msg |-> o.msg, beyond |-> o.beyond]
  /\ IsPointer(o.file) /\ IsPointer(o.date_time) /\ IsPointer(o.msg)
  /\ o.level \in 0 .. Len(Levels) - 1 /\ o.beyond \in Nat

IsKeyword(k) ==
  /\ k = [name |-> k.name, started |-> k.started, finished |-> k.finished, file |-> k.file,
          line |-> k.line]
  /\ IsPointer(k.name) /\ IsPointer(k.started) /\ IsPointer(k.finished) /\ IsPointer(k.file)

\* The keywords of a test hang on one another.  They are given in the order in
\* which every recursion over them goes: a keyword, and then its children, which
\* are one level below it.
AreKeywords(ks) ==
  /\ IsArray(ks)
  /\ \A n \in DOMAIN ks :
       /\ ks[n] = [level |-> ks[n].level, keyword |-> ks[n].keyword] /\ IsKeyword(ks[n].keyword)
       /\ ks[n].level \in Nat /\ ks[n].level <= (IF n = 1 THEN 0 ELSE ks[n - 1].level + 1)

AreOutputs(os) == IsArray(os) /\ \A i \in DOMAIN os : IsOutput(os[i])

IsTest(t) ==
  /\ t = [name |-> t.name, description |-> t.description, started |-> t.started,
          finished |-> t.finished, teardown_start |-> t.teardown_start,
          teardown_end |-> t.teardown_end, status_str |-> t.status_str, tags |-> t.tags,
          failure_reasons |-> t.failure_reasons, outputs |-> t.outputs,
          teardown_outputs |-> t.teardown_outputs, teardown_errors |-> t.teardown_errors,
          keyword_statuses |-> t.keyword_statuses]
  /\ IsPointer(t.name) /\ IsPointer(t.description) /\ IsPointer(t.started)
  /\ IsPointer(t.finished) /\ IsPointer(t.teardown_start) /\ IsPointer(t.teardown_end)
  /\ IsPointer(t.status_str) /\ IsArray(t.tags)
  /\ AreOutputs(t.failure_reasons) /\ AreOutputs(t.outputs)
  /\ AreOutputs(t.teardown_outputs) /\ AreOutputs(t.teardown_errors)
  /\ AreKeywords(t.keyword_statuses)

\* The variables of a record are resolved, and no name is there twice (Rejected
\* of module Variables).
IsRecord(r) ==
  /\ r = [project_name |-> r.project_name, ltf_version |-> r.ltf_version, os |-> r.os,
          os_version |-> r.os_version, started |-> r.started, finished |-> r.finished,
          target |-> r.target, tags |-> r.tags, tests |-> r.tests, vars |-> r.vars,
          total_amount |-> r.total_amount, passed_amount |-> r.passed_amount,
          failed_amount |-> r.failed_amount, finished_amount |-> r.finished_amount]
  /\ IsPointer(r.project_name) /\ IsPointer(r.ltf_version) /\ IsPointer(r.os)
  /\ IsPointer(r.os_version) /\ IsPointer(r.started) /\ IsPointer(r.finished)
  /\ IsPointer(r.target) /\ IsArray(r.tags)
  /\ IsArray(r.tests) /\ \A i \in DOMAIN r.tests : IsTest(r.tests[i])
  /\ IsArray(r.vars)
  /\ \A i \in DOMAIN r.vars :
       /\ r.vars[i] = [name |-> r.vars[i].name, final |-> <<r.vars[i].final[1]>>]
       /\ \A j \in DOMAIN r.vars : r.vars[i].name = r.vars[j].name => i = j

RawLogConstantsOK == (\A r \in Records : IsRecord(r)) /\ MaxLate \in Nat

Init ==
  /\ record \in Records
  /\ vars = record.vars
  /\ raw = Null /\ context = Null /\ loaded = Null /\ listing = Null

-----------------------------------------------------------------------------
(* Objects: the members that there are, of those given as pointers.        *)

\* add_string_if and push_string, for each member that may be null
Object(members) ==
  [key \in {k \in DOMAIN members : members[k] # Null} |-> members[key][1]]

\* JGET_STR_DUP into a structure of zeros, and the same for arrays
Str(j, key) == IF key \in DOMAIN j THEN <<j[key]>> ELSE Null
Arr(j, key) == IF key \in DOMAIN j THEN j[key] ELSE << >>

\* add_string_len_if: msg_len bytes, which are the copy and, when there are more,
\* a NUL and whatever lies behind the copy in memory.
StringOfLen(o) ==
  IF o.msg = Null THEN Null ELSE <<[text |-> o.msg[1], tail |-> o.beyond]>>

OutputToJson(o) ==
  Object([file |-> o.file, line |-> <<o.line>>, date_time |-> o.date_time,
          level |-> <<LevelName(o.level)>>, msg |-> StringOfLen(o)])

\* strdup ends at the first NUL, and msg_len is counted anew.
MsgFromJson(j) == IF "msg" \in DOMAIN j THEN <<j.msg.text>> ELSE Null

OutputFromJson(j) ==
  [file |-> Str(j, "file"), line |-> j.line, date_time |-> Str(j, "date_time"),
   level |-> LevelFromName(j.level), msg |-> MsgFromJson(j), beyond |-> 0]

OutputsToJson(os)   == [i \in DOMAIN os |-> OutputToJson(os[i])]
OutputsFromJson(js) == [i \in DOMAIN js |-> OutputFromJson(js[i])]

KeywordToJson(k) ==
  Object([name |-> k.name, started |-> k.started, finished |-> k.finished, file |-> k.file,
          line |-> <<k.line>>])

KeywordFromJson(j) ==
  [name |-> Str(j, "name"), started |-> Str(j, "started"), finished |-> Str(j, "finished"),
   file |-> Str(j, "file"), line |-> j.line]

\* The level stands for the arrays of children.
KeywordsToJson(ks) ==
  [n \in DOMAIN ks |-> [level |-> ks[n].level, keyword |-> KeywordToJson(ks[n].keyword)]]
KeywordsFromJson(js) ==
  [n \in DOMAIN js |-> [level |-> js[n].level, keyword |-> KeywordFromJson(js[n].keyword)]]

TestToJson(t) ==
  Object([name |-> t.name, description |-> t.description, started |-> t.started,
          finished |-> t.finished, teardown_start |-> t.teardown_start,
          status |-> t.status_str, tags |-> <<t.tags>>,
          failure_reasons |-> <<OutputsToJson(t.failure_reasons)>>,
          output |-> <<OutputsToJson(t.outputs)>>,
          teardown_output |-> <<OutputsToJson(t.teardown_outputs)>>,
          teardown_errors |-> <<OutputsToJson(t.teardown_errors)>>,
          keywords |-> <<KeywordsToJson(t.keyword_statuses)>>])

TestFrom(j, output, teardown_output) ==
  [name |-> Str(j, "name"), description |-> Str(j, "description"),
   started |-> Str(j, "started"), finished |-> Str(j, "finished"),
   teardown_start |-> Str(j, "teardown_start"), teardown_end |-> Null,
   status_str |-> Str(j, "status"), tags |-> Arr(j, "tags"),
   failure_reasons |-> OutputsFromJson(Arr(j, "failure_reasons")),
   outputs |-> OutputsFromJson(Arr(j, output)),
   teardown_outputs |-> OutputsFromJson(Arr(j, teardown_output)),
   teardown_errors |-> OutputsFromJson(Arr(j, "teardown_errors")),
   keyword_statuses |-> KeywordsFromJson(Arr(j, "keywords"))]

\* Mutant: the outputs are looked for under the names of their fields.
TestFromJsonByField(j) == TestFrom(j, "outputs", "teardown_outputs")

TestFromJson(j) == TestFrom(j, "output", "teardown_output")

\* Variables are an object with its members in the order in which they were added.
VarsToJson(vs)   == [i \in DOMAIN vs |-> <<vs[i].name, vs[i].final[1]>>]
VarsFromJson(js) == [i \in DOMAIN js |-> [name |-> js[i][1], final |-> <<js[i][2]>>]]

StateToJson(s) ==
  Object([project_name |-> s.project_name, ltf_version |-> s.ltf_version, os |-> s.os,
          os_version |-> s.os_version, started |-> s.started, finished |-> s.finished,
          target |-> s.target, variables |-> <<VarsToJson(s.vars)>>, tags |-> <<s.tags>>,
          tests |-> <<[i \in DOMAIN s.tests |-> TestToJson(s.tests[i])]>>,
          total_amount |-> <<s.total_amount>>, passed_amount |-> <<s.passed_amount>>,
          failed_amount |-> <<s.failed_amount>>, finished_amount |-> <<s.finished_amount>>])

\* The total is not read: it is how many tests there are.
StateFromJson(j) ==
  [project_name |-> Str(j, "project_name"), ltf_version |-> Str(j, "ltf_version"),
   os |-> Str(j, "os"), os_version |-> Str(j, "os_version"), started |-> Str(j, "started"),
   finished |-> Str(j, "finished"), target |-> Str(j, "target"), tags |-> Arr(j, "tags"),
   tests |-> [i \in DOMAIN Arr(j, "tests") |-> TestFromJson(Arr(j, "tests")[i])],
   vars |-> VarsFromJson(Arr(j, "variables")), total_amount |-> Len(Arr(j, "tests")),
   passed_amount |-> j.passed_amount, failed_amount |-> j.failed_amount,
   finished_amount |-> j.finished_amount]

-----------------------------------------------------------------------------
(* hooks_context_push.  The paths of the logs are left out, and the        *)
(* secrets, which no other view has.                                       *)

\* lua_pushstring ends at the first NUL.
PushOutput(o) ==
  Object([msg |-> o.msg, level |-> <<LevelName(o.level)>>, date_time |-> o.date_time,
          file |-> o.file, line |-> <<o.line>>])

PushOutputs(os) == [i \in DOMAIN os |-> PushOutput(os[i])]

PushKeyword(k) ==
  Object([name |-> k.name, started |-> k.started, finished |-> k.finished, file |-> k.file,
          line |-> <<k.line>>])

PushKeywords(ks) ==
  [n \in DOMAIN ks |-> [level |-> ks[n].level, keyword |-> PushKeyword(ks[n].keyword)]]

\* A variable that was never resolved is not set; of a name, the last one stays.
PushVars ==
  LET set == {i \in DOMAIN vars : vars[i].final # Null} IN
  [n \in {vars[i].name : i \in set} |->
     LET i == CHOOSE i \in set : vars[i].name = n /\ \A j \in set : vars[j].name = n => j <= i
     IN  vars[i].final[1]]

PushTest(t) ==
  Object([name |-> t.name, started |-> t.started, description |-> t.description,
          finished |-> t.finished, status |-> t.status_str,
          teardown_start |-> t.teardown_start, teardown_end |-> t.teardown_end,
          tags |-> <<t.tags>>, outputs |-> <<PushOutputs(t.outputs)>>,
          failure_reasons |-> <<PushOutputs(t.failure_reasons)>>,
          teardown_outputs |-> <<PushOutputs(t.teardown_outputs)>>,
          teardown_errors |-> <<PushOutputs(t.teardown_errors)>>,
          keywords |-> <<PushKeywords(t.keyword_statuses)>>])

PushTestRun ==
  Object([project_name |-> record.project_name, ltf_version |-> record.ltf_version,
          os |-> record.os, os_version |-> record.os_version, target |-> record.target,
          started |-> record.started, finished |-> record.finished, tags |-> <<record.tags>>,
          vars |-> <<PushVars>>])

\* The test of the context is the last one started.
PushContext ==
  /\ context' = <<[test_run |-> PushTestRun,
                   test |-> IF record.tests = << >> THEN Null
                            ELSE <<PushTest(Last(record.tests))>>]>>
  /\ UNCHANGED <<record, vars, raw, loaded, listing>>

\* register_vars from a hook or a body: nothing resolves these any more.
RegisterLate(name) ==
  /\ Len(vars) < Len(record.vars) + MaxLate
  /\ vars' = Append(vars, [name |-> name, final |-> Null])
  /\ UNCHANGED <<record, raw, context, loaded, listing>>

\* ltf_log_test_run_finished
Save ==
  /\ record.finished # Null /\ raw = Null
  /\ raw' = <<StateToJson(record)>>
  /\ UNCHANGED <<record, vars, context, loaded, listing>>

-----------------------------------------------------------------------------
(* logs info.  A line of its trees has a column, in which its branch hangs *)
(* on, the columns left of it that have a bar, and is drawn as the last    *)
(* one of its column or not.                                               *)

Line(col, bars, last) == [col |-> col, bars |-> bars, last |-> last]

PrintOutputs(outputs, has_next) ==
  IF outputs = << >> THEN << >>
  ELSE <<Line(0, {}, ~has_next)>> \o
       [i \in DOMAIN outputs |-> Line(1, IF has_next THEN {0} ELSE {}, i = Len(outputs))]

\* Mutant: the flag of a level is only set, and stays for the next keywords there.
SetMoreOnly(more, level, last) ==
  [i \in 1 .. (IF Len(more) > level THEN Len(more) ELSE level + 1) |->
     IF i = level + 1 THEN ~last \/ (i <= Len(more) /\ more[i])
     ELSE IF i <= Len(more) THEN more[i] ELSE FALSE]

\* ensure_depth, and then the flag of the level
SetMore(more, level, last) ==
  [i \in 1 .. (IF Len(more) > level THEN Len(more) ELSE level + 1) |->
     IF i = level + 1 THEN ~last ELSE IF i <= Len(more) THEN more[i] ELSE FALSE]

\* ltf_logs_info_put_prefix
Prefix(more, level) == {2 * (i - 1) : i \in {n \in 1 .. level : more[n]}}

\* The keyword that follows on the same level, below the same one; and those below.
HasNext(ks, n) ==
  \E j \in n + 1 .. Len(ks) :
    ks[j].level = ks[n].level /\ \A m \in n + 1 .. j - 1 : ks[m].level > ks[n].level
HasChildren(ks, n) == n < Len(ks) /\ ks[n + 1].level > ks[n].level

\* The lines of a keyword: its name, when it started and finished, its place, and
\* a heading for its children.
PrintKeyword(level, bars, last, finished, children) ==
  LET props == 2 + (IF finished THEN 1 ELSE 0) + (IF children THEN 1 ELSE 0) IN
  <<Line(2 * level, bars, last)>>
    \o [p \in 1 .. props |->
          Line(2 * level + 1, bars \cup (IF last THEN {} ELSE {2 * level}), p = props)]

\* ltf_logs_info_print_keyword_rec, of one keyword after the other: the lines, and
\* the array of flags, which all of them share.
PrintNext(ks, n, before) ==
  LET level == ks[n].level
      last  == ~HasNext(ks, n)
      more  == SetMore(before.more, level, last)
  IN [lines |-> before.lines \o PrintKeyword(level, Prefix(more, level), last,
                                             ks[n].keyword.finished # Null, HasChildren(ks, n)),
      more  |-> more]

PrintKeywords(ks) ==
  LET printed[n \in 0 .. Len(ks)] ==
        IF n = 0 THEN [lines |-> << >>, more |-> << >>] ELSE PrintNext(ks, n, printed[n - 1])
  IN  printed[Len(ks)].lines

\* ltf_logs_info_print_test
PrintTest(t, include_outputs, keyword_tree) ==
  LET reasons  == t.failure_reasons # << >>
      outs     == t.outputs # << >>
      teardown == t.teardown_outputs # << >>
      errors   == t.teardown_errors # << >>
      keywords == keyword_tree /\ t.keyword_statuses # << >>
      more     == (include_outputs /\ (reasons \/ outs \/ teardown \/ errors)) \/ keywords
  IN (IF t.tags = << >> THEN << >>
      ELSE <<Line(0, {}, FALSE)>> \o [i \in DOMAIN t.tags |-> Line(1, {0}, i = Len(t.tags))])
     \o <<Line(0, {}, FALSE), Line(0, {}, FALSE), Line(0, {}, ~more)>>
     \o (IF ~include_outputs THEN << >>
         ELSE PrintOutputs(t.failure_reasons, outs \/ teardown \/ errors \/ keywords)
              \o PrintOutputs(t.outputs, teardown \/ errors \/ keywords)
              \o PrintOutputs(t.teardown_outputs, errors)
              \o PrintOutputs(t.teardown_errors, keywords))
     \o (IF keywords THEN PrintKeywords(t.keyword_statuses) ELSE << >>)

Load ==
  /\ raw # Null /\ loaded = Null
  /\ loaded' = <<StateFromJson(raw[1])>>
  /\ UNCHANGED <<record, vars, raw, context, listing>>

PrintLog(include_outputs, keyword_tree) ==
  /\ loaded # Null /\ listing = Null
  /\ listing' = [i \in DOMAIN loaded[1].tests |->
                   PrintTest(loaded[1].tests[i], include_outputs, keyword_tree)]
  /\ UNCHANGED <<record, vars, raw, context, loaded>>

Terminated == listing # Null /\ UNCHANGED recordVars

Next ==
  \/ PushContext
  \/ \E name \in LateNames : RegisterLate(name)
  \/ Save
  \/ Load
  \/ \E include_outputs, keyword_tree \in BOOLEAN : PrintLog(include_outputs, keyword_tree)
  \/ Terminated

Spec == Init /\ [][Next]_recordVars

-----------------------------------------------------------------------------
\* A key of a test in the raw log, as the context spells it.  The output of the
\* teardown is left out: the context has it under teardown_outputs, where
\* docs/HOOKS/HOOKS.md:95 has teardown_output, like the raw log.
InContext(key) == IF key = "output" THEN "outputs" ELSE key

\* Outputs whose messages are read up to the first NUL.
Cut(outputs) == [i \in DOMAIN outputs |-> [outputs[i] EXCEPT !.beyond = 0]]
AsRead(key, value) ==
  IF key \in {"output", "failure_reasons", "teardown_errors"}
  THEN [i \in DOMAIN value |-> [value[i] EXCEPT !.msg = @.text]]
  ELSE value

\* The record of a test without what the raw log leaves out.
Kept(t) ==
  [field \in DOMAIN t |->
     IF field = "teardown_end" THEN Null
     ELSE IF field \in {"failure_reasons", "outputs", "teardown_outputs", "teardown_errors"}
     THEN Cut(t[field])
     ELSE t[field]]

\* The three views of a run agree, with messages up to their first NUL: the raw
\* log has bytes behind it that are not the message's (ltf_state.c:57, 418-420).
\* What logs info loads is the record, but for the end of the teardowns, which
\* the raw log leaves out, and the tests that an interrupted run did not get to,
\* which are not counted.  The context of a hook has the variables that the raw
\* log has, whatever was registered since, and its test is the last one of the
\* raw log, with the end of its teardown; the key of the teardown's output, which
\* the code spells in another way than HOOKS.md, is not compared.
ViewsAgree ==
  /\ loaded # Null =>
       loaded[1] = [record EXCEPT !.tests = [i \in DOMAIN @ |-> Kept(@[i])],
                                  !.total_amount = Len(record.tests)]
  /\ context # Null =>
       context[1].test_run.vars =
         [n \in {record.vars[i].name : i \in DOMAIN record.vars} |->
            record.vars[CHOOSE i \in DOMAIN record.vars : record.vars[i].name = n].final[1]]
  /\ context # Null /\ raw # Null /\ record.tests # << >> =>
       LET test == context[1].test[1]
           j    == Last(raw[1].tests) IN
       /\ DOMAIN test \ {"teardown_end", "teardown_outputs"} =
            {InContext(key) : key \in DOMAIN j \ {"teardown_output"}}
       /\ \A key \in DOMAIN j \ {"teardown_output"} :
            test[InContext(key)] = AsRead(key, j[key])

\* A column is open below line k: the next line that is not further right is in it.
Continues(lines, k, col) ==
  \E j \in k + 1 .. Len(lines) :
    lines[j].col = col /\ \A m \in k + 1 .. j - 1 : lines[m].col > col

\* The trees that logs info draws are connected: a line is drawn as the last of
\* its column exactly if none follows in it, and has a bar in each open column
\* to its left, however the keywords are nested.  (Below outputs of a teardown
\* without errors the branch ends although keywords follow.)
ListingDrawn ==
  \A n \in DOMAIN listing :
    LET lines == listing[n]
        t     == loaded[1].tests[n]
        cut   == t.teardown_outputs # << >> /\ t.teardown_errors = << >>
                   /\ t.keyword_statuses # << >> IN
    ~cut => \A k \in DOMAIN lines :
              /\ lines[k].last = ~Continues(lines, k, lines[k].col)
              /\ lines[k].bars = {c \in 0 .. lines[k].col - 1 : Continues(lines, k, c)}

\* The raw log has the keys that its schema requires.
HasRequiredKeys ==
  raw # Null =>
    {"project_name", "ltf_version", "os", "os_version", "started", "finished", "target",
     "variables", "tags", "tests", "total_amount", "passed_amount", "failed_amount",
     "finished_amount"} \subseteq DOMAIN raw[1]

=============================================================================
