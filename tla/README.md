# Verification of LTF

LTF (the Lua Test Framework) is a test runner written in C that executes tests
written in Lua. This directory holds TLA+ specifications of it, the TLC
configurations that check them on small instances, and proofs checked by TLAPS.
Paths below are relative to the root of the repository.

    tlc -workers 2 -config TestRun_tests.cfg MCTestRun      # a run
    tlapm TestRunProofs.tla                                 # the proofs of a module

## 1. The system

`main.c` dispatches the commands `init`, `test`, `eval`, `logs info`,
`target add` and `target remove`. Almost everything happens in `ltf test`:

| part | source | state it keeps | operations |
|---|---|---|---|
| command line, scenarios | `cmd_parser.c`, `ltf_test_scenarios.c` | the options, the parsed scenario files, the merged list of tags and variables | one per option; parse and apply a file; merge; free |
| loading | `ltf_test.c`, `test_case.c`, `modules/ltf/ltf.c` | the queue of tests with their Lua registry references, the lists of hooks | load a directory, `ltf.test`, hook registration, order, deinit |
| variables, secrets | `ltf_vars.c`, `ltf_secrets.c`, `modules/ltf/ltf.c` | registered tables, resolved values | register, parse, get |
| test run | `ltf_test.c`, `ltf_state.c` | the run record (tests, status, outputs, counters), the stage, the deferred list, the SIGINT flag | start, body, verdict, teardown, hooks, finish |
| hooks | `ltf_hooks.c`, `modules/hooks` | lists of functions per event | add, run |
| run logs | `test_logs.c`, `headless.c`, `util/files.c` | output log, raw JSON log, links to the latest | callbacks of the run record |
| record and `logs info` | `ltf_state.c`, `ltf_hooks.c`, `ltf_logs.c` | the run record, its JSON, the context of a hook, the open branches of a listing | write, parse, push to Lua, print |
| display | `ltf_tui.c`, `picotui.c` | the panel and the scroll region, where the log goes on, a pending resize | callbacks of the run record, draw, log, resize |
| keyword statuses | `keyword_status.c`, `util/lua_hooks.c` | a stack and a tree of growing arrays | Lua call and return hooks |
| process module | `modules/proc`, `lib/ltf/proc.lua` | pid, streams, descriptor numbers of a handle | spawn, read, write, wait, kill, run, gc |
| serial module | `modules/serial`, `lib/ltf/serial.lua` | an open port | open, read, write, flush, drain, read_until |
| dynamic array | `util/da.c` | block, size, capacity, element size | append, set, remove, pop, reserve, resize |
| HTTP module | `modules/http`, `lib/ltf/http.lua` | a curl handle, one header list, callback references | setopt, perform, cleanup, gc |
| SSH module | `modules/ssh`, `lib/ltf/ssh` | session with its list of channels, channels, SFTP channels, the streams of a channel | connect, open, read, read_until, exec, use, close, gc |
| webdriver library | `lib/ltf/webdriver.lua` | driver process, sessions | spawn, new_session, requests, wait, close |
| project and targets | `project_parser.c`, `ltf_target.c`, `ltf_init.c` | the project file, its directories | init, target add, target remove |
| `eval`, json, util | `ltf_eval.c`, `modules/json`, `modules/util` | none of their own | run a file, convert, query |

How they interact. Everything runs on one thread, but control changes hands all
the time: C calls Lua under `lua_pcall` (files, bodies, hooks, deferred
functions), the Lua code calls back into the modules, libcurl calls Lua from
inside `perform`, the Lua interpreter calls the keyword hooks at every call and
return, the garbage collector runs `__gc` whenever it likes, and SIGINT sets a
flag at any point. The run record tells the logs and the display through lists
of callbacks. Spawned processes, devices, servers, browsers and other
terminals act on their own. Ownership (of strings, registry references,
descriptors, pids, curl lists, libssh2 objects) is by convention, and is where
much of the correctness lies.

What makes it correct, and hard to test: section 4 gives the properties,
`PROJECT.json` the hazards line by line. `selftest/` exercises the tool through
itself: one order of events at a time, without signals, faults or a collector
at an unlucky moment.

## 2. The modules

One module per part; a definition has the name of the C or Lua function, or of
what the code does there, and `PROJECT.json` "map" gives its lines. Variables
have the names of the code's variables; history variables, which the code has
not, are marked. Definitions headed "Mutant" are faulty variants of the
definition below them: put in its place they show that a property depends on
it; no specification uses them.

**TestRun** (`ltf_test.c`, `ltf_state.c`, `ltf_hooks.c`, `test_logs.c`).
`run_all_tests`, `run_deferred` and `ltf_hooks_run` are one state machine over
`pc`: `StartRun`, `StartTest`, `FinishBody`, `StartDeferred` to
`FinishDeferred`, `CheckSigint`, `FinishRun`, `Exit`, and `CallHooks` to
`HooksReturn` between them. User code (a body, a hook, a deferred function) is
a process that logs at any level (`Log`, and under its own pcall when
`caught`), registers deferred functions, returns or raises. `tests` is the run
record, whose outputs keep the kind of code they come from (`Author`), `raw_log` what the JSON log holds. `registered` and `ran` are history.
A write to the closed output log is undefined: the process goes on or crashes.

**Verdicts** is what a run promises: tests run in queue order, each gets one
verdict and keeps it, the run ends with a report that is a success exactly if
all passed, or is cut short without one. `TestRun!Report` is the instance with
the refinement mapping (`VerdictOf` of the status, `Outcome` of exit code and
`pc`): a test is decided when its body ended; the report is the end of the process.

**Loading** (`ltf_test.c`, `test_case.c`). `pc` goes through the directories
lib, common, tests, hooks, then order, run, deinit. `Enqueue` is
`test_case_enqueue` in full: filter, override in place or append. `refs` and
`freed` follow the registry references and strings of each registration, also of one
that raises after it has its reference (`RegisterRaises`); deinit of a queue that has a
body twice may crash (`QueuedTwice`). `registered` is history.

**Variables, Secrets, Options** (`ltf_vars.c`; `ltf_secrets.c`; `cmd_parser.c`
with `ltf_test_scenarios.c`). `Variables` has the passes of `ltf_parse_vars`
over tables of every documented form. `Secrets` reads a file line by line as
the C code does, over tokens (blank, `=`, `"""`, newline, text). Each line is chosen
when it is read, in one of the documented forms (`PlainPair`, `QuotedPair`,
`OpenValue` with its `ContentLine`s and `ClosingLine`, or `Malformed`) with any
white space around; the history variables `meant`, `open` and `text` say what its
writer meant, without looking at the parser. `Options` handles arguments left to
right, reads a scenario with its includes on `stack`, merges and frees. Each
string carries a pointer so that sharing, freeing and freeing twice are visible.
What a loop of the C code removes from a list, or takes from it, is said by the
places of the entries (`Left`, `Taken`, `Only`). `Settings` puts Options,
Variables and Secrets side by side, and `MCSettings` checks them.

**RunLogs** (`test_logs.c`, `util/files.c`). Each run is a process that chooses
two names (`NameFile`: the first that no file has), opens the output log, makes
the raw log at its end, closes, and sets the links (`Lstat`, `Unlink`, `Symlink`
of `replace_symlink`, for each link); it may be cut off anywhere. Only the
files and links are shared. `last`, `clash` and `mixed` are history: who linked
last, who was named while another run of the same directory and second ran, and
whether two set links at once or one was cut off there.

**RawLog** (`ltf_state.c`, `ltf_hooks.c`, `ltf_logs.c`). A run record, one of
`Records`, and the four things made of it: `PushContext` (the table of a hook),
`Save` (`ltf_state_to_json`), `Load` (`ltf_state_from_json`) and `PrintLog`, which
keeps of a printed line its column, whether it is drawn as a last branch, and the
bars to its left. A pointer is `Null` or a sequence of one; a JSON object is a function
on the keys it has (`Object` leaves out null members). The trees of keywords, which
the C code walks by recursion, are given in the order of that walk, each keyword with
its level; the children of a keyword are what follows one level deeper (`HasNext`,
`HasChildren`), and the flags that the walk shares are passed from one to the next
(`PrintNext`). `IsRecord` says what a record looks like and nothing of how it comes
about, which is TestRun: an interrupted run, with tests that were counted and never
started, is one. A message is its text up to the first NUL and by how
much its length goes beyond that copy (`StringOfLen`, `MsgFromJson`). `RegisterLate` adds
variables that are in no record.

**Tui** (`ltf_tui.c`, `picotui.c`). Each callback of the display is an action that
puts its picotui calls on `calls`, the dashes of a `Rule` one by one; each kind of call is an action that makes the next
one (`PicoPrint`, `PicoPrintln`, `PicoPrintBlock`, `DrawPanel`, `DrawProgress`), after
`HandleResize`. The terminal (rows, cursor,
scroll region, what scrolled out) is external; a `Resize` may come between any two
calls. `written` is history: the lines logged since the last resize, as their writer
meant them.

**DynArray** and **DynList** (`util/da.c`). The array with its block, growth by
doubling, sizes that wrap at `SizeMax` and memory that may be refused; the
list that it stands for. `KeepsList` is the refinement (`DynArray!Listed`, contents
read from the cells); `outside` marks the state after `da_resize` ignored a refusal.

**Keywords** (`keyword_status.c`, `lua_hooks.c`). The Lua stack (`frames`)
against the stack and the arrays of the module; an array that grows moves, and
pointers into it become stale. History: `lost`, a call of the test was left without a
return hook; `strayed`, an ignored function of the library called the project back.

**Proc** (`ltf-proc.c`, `proc.lua`). The descriptor table `fds`, the six numbers
a handle keeps, the pipes in units, the child on its own, which may leave another
process behind with its pipes (`Leaves`, `LeftEnds`). A call that may wait is
`thread`; `run` is its loop with its timeout. `overlap` is history.

**Serial, Http, Ssh, Shell** (`modules/serial`, `modules/http`, `modules/ssh` and
their Lua halves). A port against a device with queues; a curl handle with the
list libcurl still points at; a session with the channels that it, the test or
the collector may close; and the streams of one channel: `read`, `read_until` and
`exec` against a server that sends, fills the window, ends the stream, tells the
exit code or vanishes at any moment (`thread` is the call that waits, `last` what
the latest one returned). `Undefined`, `ub`: a
freed object was used, the behaviour ends there. History: `Http!asked`, `stale` and
`refused`, the lists that options were given, the options whose list another call freed, and
the references of the functions that were refused; `Ssh!faults`, what the test or the
server did beyond the documented use; `told` in `Shell!last`, whether the exit code was there
when exec asked.

**Project** (`ltf_init.c`, `ltf_target.c`, `project_parser.c`). Each terminal
runs a command step by step (parse, prompt, make directories, truncate, write),
with `Faults`: a failing mkdir or write, a kill, a deleted file, and the
uninitialised `targets` of a parsed project ("heap"). `overlap` is history.

**Webdriver** (`webdriver.lua`, on `run_deferred`). A test with its sessions,
one HTTP handle per request, the deferred functions that clean up, a driver
that may die and answers that may get lost, a page that changes, also between the answer
to `Displayed` and the `Return` of the wait.

`MCTestRun` only names values of constants. `MCSettings` (Variables, Secrets,
Options and, as an instance, Project), `MCRunParts` (DynArray, RunLogs and Tui
through RunParts; Loading, Keywords and RawLog through Suite) and
`MCDevices` (Serial, Http, Ssh, Shell, Webdriver) check modules that share no
state: each behaviour belongs to one of them (`part`, chosen at the start) while
the others stand still, so that the state spaces add up and do not multiply.

The proofs are in modules of their own: TestRunProofs, ProcProofs, ProjectProofs and
SettingsProofs for the modules they are named after (Settings with its Options,
Variables and Secrets); RunPartsProofs for DynArray, RunLogs and Tui; SuiteProofs for
Loading, Keywords and RawLog, the tests of a run, the calls of the one that runs and
the record of them; StreamProofs for Serial and Shell, which read bytes that arrive;
HandleProofs for Http, Ssh and Webdriver, whose objects point at one another. The last
two are about the instances in `MCDevices`, and ProjectProofs is about the one in
`MCSettings`, so that they state the very properties that the runs check. `Devices` is
the specification of `MCDevices`, and while a part is running its steps are steps of
the module (`HttpAlone`, `SshAlone`, `BrowserAlone`, `ShellAlone`). `Suite` puts Loading
beside instances of Keywords and RawLog with variables of their own, and `RunParts` puts
DynArray and RunLogs beside an instance of Tui; `MCRunParts` checks both, SuiteProofs and
RunPartsProofs prove about them, each part under its own specification.

## 3. The runs

Each run in one line; every bound is a CONSTANT in its cfg.

| run | instance | what it shows |
|---|---|---|
| `tests` | 2 tests, no hooks, bodies of 2 calls, deferred functions of 1 call, error logs, SIGINT anywhere | teardown, verdicts, counters, exit code, and that the run implements Verdicts |
| `hooks` | 2 tests, 2 hooks on each event, bodies, deferred functions and hooks of 1 call, error logs | hook output apart, raw log final, termination, interrupts |
| `settings` | command lines of 3 options, scenarios three deep; 2 variable registrations, all forms, 2 given values (the names being interchangeable, the first is for `m`); secrets files of 3 lines, 1 name in each call of register_secrets | the tests get what was given |
| `settings`, project | 2 terminals, 3 commands, 2 targets, every fault, end of input | unique targets, true reports, an end or a question |
| `run_parts`, queue | names a, b; every pair of subsets of 2 tags, filter {t}; 4 registrations in any directory of a multitarget project; registrations that raise; no order, (b, a), (b), or (b, a, b) | the queue is the selection; bodies owned, released and kept as said |
| `run_parts`, keywords | 2 tests of 5 calls, 4 frames, arrays that grow from 1 | the recorded tree is the call tree, also with calls back from ignored functions |
| `run_parts`, logs | 2 runs in 2 targets or none, 1 second, each cut off anywhere | no log is lost or mixed, the latest links are honest |
| `run_parts`, record | every kind of record: tags, variables, reasons, messages with a NUL, outputs of body and teardown, keywords three deep, running or ended; 1 variable registered late | hook context, raw log and `logs info` agree; the listing is connected |
| `run_parts`, terminal | 2 tests, 1 log, 1 resize, terminals of 2, 5 and 6 rows and 4 columns with a panel of 3 | log and panel stay in their rows |
| `run_parts`, array | 2 elements of size 2, sizes modulo 8, first capacity 0 or 1, refusals anywhere | the array implements the list |
| `proc` | 2 processes that may leave another behind, 4 calls, 10 descriptors, pipe of 1 unit, runs with and without timeout | pids, descriptors, completeness, return |
| `devices`, serial | 2 handles of one port, 3 bytes of the device, 4 calls | honest reads |
| `devices`, http | lists of 2 entries, bodies of 2 chunks, 6 calls | exact lists and references, whole bodies |
| `devices`, ssh | 2 channels, 1 SFTP channel, 10 calls | no freed object is used, channels tracked |
| `devices`, shell | window of 2, 3 bytes, 2 calls, chunks of 1 and 2 | honest streams, every call ends |
| `devices`, webdriver | 2 sessions, 5 requests, 5 calls, 2 changes of the page, lost answers, death of the driver | everything released |
| `nested_defer` | 1 test | **violation**: a function deferred by a deferred function never runs |
| `proc_full_pipe` | 1 process that writes 2 units into a pipe of 1 | **violation**: `run` and the process wait for each other |
| `scenario_release` | 1 option | **violation**: variables of a scenario are freed twice |
| `raw_log_schema` | a finished record without a target | **violation**: the raw log lacks a key its schema requires |
| `order_drops` | 2 registrations, the same orders | **violation**: a selected test that the order does not name never runs |
| `read_until` | a shell, as in `devices` | **violation**: a silent shell makes read_until raise and what it read is lost |

Why the bounds are enough to be of use. Two tests are the least that let a
state leak from one test into the next (the flag, the counters, the deferred
list); two calls in a body let a deferred function be registered before or after
another, or an error be logged and then an error raised. Two names and four
registrations let a name be registered, overridden and overridden again with another
name before, between or after. The first growth of an array with capacity 1 happens at the
second keyword, so that a parent moves while a child is open. A pipe of one unit
and an output of one (two in `proc_full_pipe`) have the cases "fits" and
"does not fit". A second handle is enough to be given the numbers of the first.
The pattern of the reads has two bytes, so that it can lie across two
chunks of one; a window of two is full before the third byte. Two runs that start
in one second take the same names or follow each other; a third would add only
a longer list of names to try, and the proof covers it. Every line that the model prints
fits in four columns, and a rule is three dashes and the last write over the first of them.
Five rows are the least with two above the panel, two rows cut the panel, and one more row lets
a resize go either way. Sizes modulo 8 with elements of 2 wrap at the second
doubling from 1. A third command in the project lets a third see what two
left behind. What the bounds do not reach: keyword arrays that grow twice,
secrets files of more than three lines, three sessions, two resizes.

Where deadlock is not checked, a test may rightly stop: waiting for a device or a
process that says nothing, or having made its calls.

## 4. Properties

*Test run.* `DefersUnwind`: the deferred functions of a test run once each, last
registered first, before the next test. `DeferFailuresReported`: each that
raised is counted in the teardown errors of its test. `VerdictHasReason`: a failed
test has a reason, a passed one none. `Accounting`, `ExitCodeTruthful`,
`KeepsPromise` (refinement). `OutputsApart`: nothing a hook logs gets into a
test, whatever the number of hooks, except what a test_started hook after the first logs: later
hooks of an event run in TEST_STAGE, where a running test takes their output. `RawLogFinal`: the raw log equals the
final record. `Termination`, `InterruptHonoured` (after its teardown, the test in
which SIGINT came is the last, with exit code 130).

*Around the run.* `QueueIsSelection`: the queue is the last accepted registration of
each name, at the place of the first, or the ones an order names, as it names them; `BodiesReleased`: each queued
test has a live body of its own, a body is released twice only if an order names its test
twice, and never only if its registration raised or an order leaves its test out.
`CleanTreeExact`: the recorded keywords are the tree of the calls, but for calls back
from ignored functions, and no pointer goes stale in a test without these.
`LogsKept`: the logs of a finished run are its own and complete, and stay so
whatever starts later. `LatestHonest`: the latest links name the two logs of one
run, the one that finished last, and `logs info latest` shows it. `ViewsAgree`: the
context of a hook, the raw log and what `logs info` loads tell the same, messages up to
their first NUL, and the teardown output aside, whose key the code and HOOKS.md spell
differently (section 7).
`ListingDrawn`: the trees that `logs info` prints are connected. `ScreenHonest`: the
log reaches the terminal line by line, complete and in order, and the panel is
whole below it, also after a resize. `KeepsList` (refinement): a refused append
leaves the list as it was, whatever wraps.

*Settings.* `CliWins`: variables, level, library path and flags of the command
line hold, each variable once; `OptionsAlive`: no option points to a freed
string; `GivenHonoured`, `ReadsStable` (a read gives what was given, and
never changes); `FileMeansItsPairs`: at every line of a secrets file
the parser has the pairs the lines were written for, and once the tests are loaded
the registered secrets read them.

*Libraries.* `PidOwned`: a pid is used only while it is that of the handle's
child; `StreamsOwn`: a kill leaves nothing open, and handles used one after the
other never touch descriptors of another; `RunComplete`, with what a process left behind wrote;
`TimedRunReturns`, unless such a process keeps the pipes;
`ReadsHonest` and `StreamsHonest`: every byte returned was received, in order,
read_until reports a match only on its pattern, and an exec has all of both streams, with the exit code if that was told in time and 0 if not; `CallsEnd`: no call on a channel waits for
ever; `RequestsExact`: each option has the list it was given last, which is freed exactly if
a later list came, and the registry has the functions in use and those refused, as neither
cleanup nor the collector releases any;
`BodyComplete`; `SessionsSafe`: no freed object is used, and a session lists
exactly its channels; `CleanedUp`: driver, sessions and the handles of the body
are released by the teardown.

*Project.* `TargetsUnique`, `ReportsTrue`, `CommandsEnd`.

Some hold under a condition that a history variable states, and that the code
does not enforce: `StreamsOwn` unless a handle was used on after the next one was
opened (and not for the handle of a run that timed out, which no code can reach
again); the first half of `SessionsSafe` without a
fault; `ReportsTrue` unless commands overlapped; `CleanTreeExact` for tests in
which every call had its return (`lost`), and in part unless an ignored function called the
project back (`strayed`); `QueueIsSelection` of a name only if the filter accepts its last
registration or none (`Undisputed`); `LogsKept` except for runs that chose names
while another of their directory and second ran (`clash`); `LatestHonest` unless
two runs set links at once or one was cut off there (`mixed`); `ScreenHonest`
while the terminal has two rows above the panel (`cramped`), and for the
log, its size; `ListingDrawn` but for one case that its comment names. The states
outside the condition are explored all the same; section 7 says what happens there.

**Fairness.** Weak fairness of `Runner \/ User` in TestRun: LTF is one thread
and user code that is never called back is assumed to return (a body that loops
for ever is outside any promise). In Proc, weak fairness of the waiting call, of the
timer and of each child: the operating system runs them; a child may still
wait for input for ever. In Shell, weak fairness of the steps of a call and of
the clock: libssh2 ends a blocking call after the session's 60 seconds
(`ReadGivenUp`, `DrainGivenUp`), and the deadline of read_until passes. Nothing is
assumed of the server. In Project, weak fairness of the steps of
each process and nothing of the user: a command may stand at its question for ever, and
does when the input has ended. In Proc nothing is assumed of a process that was left
behind: it may never end.

## 5. Proofs

For every value of the constants, with the assumptions that the modules state by
name (`AmountAssumption`, `FdLimitAssumption`, ...; `LogsConstantsOK` for RunLogs,
`TuiConstantsOK` for Tui, `RawLogConstantsOK` for RawLog: the records are records;
`ConstantsOK` of the other modules):


| theorem | says | module |
|---|---|---|
| `TypeCorrect` | `Spec => []TypeOK` of TestRun | TestRunProofs |
| `ReasonsCorrect` | `Spec => []VerdictHasReason` | TestRunProofs |
| `AccountingCorrect` | `Spec => []Accounting` | TestRunProofs |
| `ExitCodeCorrect` | `Spec => []ExitCodeTruthful` | TestRunProofs |
| `RunKeepsPromise` | `Spec => KeepsPromise` (refinement of Verdicts) | TestRunProofs |
| `DefersUnwindCorrect` | `Spec => []DefersUnwind` | TestRunProofs |
| `FailuresReportedCorrect` | `Spec => []DeferFailuresReported` | TestRunProofs |
| `RawLogCorrect` | `Spec => []RawLogFinal` | TestRunProofs |
| `OutputsStayApart` | `Spec => []OutputsApart`, for any number of hooks | TestRunProofs |
| `ArrayTypeCorrect` | `ArraySpec => []ArrayTypeOK` of DynArray | RunPartsProofs |
| `ArrayKeepsList` | `ArraySpec => KeepsList` (refinement of DynList) | RunPartsProofs |
| `LogsTypeCorrect` | `LogsSpec => []LogsTypeOK` | RunPartsProofs |
| `NoLogIsLost` | `LogsSpec => []LogsKept` | RunPartsProofs |
| `LatestLinksHonest` | `LogsSpec => []LatestHonest` | RunPartsProofs |
| `LogAndPanelApart` | `Spec => []ScreenHonest` of Tui | RunPartsProofs |
| `LoadingTypeCorrect` | `Spec => []TypeOK` of Loading | SuiteProofs |
| `QueueStaysSelection` | `Spec => []QueueIsSelection` | SuiteProofs |
| `BodiesStayReleased` | `Spec => []BodiesReleased`, for any orders | SuiteProofs |
| `KeywordsTypeCorrect` | `Spec => []TypeOK` of Keywords | SuiteProofs |
| `TreeStaysExact` | `Spec => []CleanTreeExact` | SuiteProofs |
| `ViewsAlwaysAgree` | `Spec => []ViewsAgree` of RawLog | SuiteProofs |
| `ListingAlwaysDrawn` | `Spec => []ListingDrawn` of RawLog | SuiteProofs |
| `ProcTypeCorrect` | `Spec => []TypeOK` of Proc | ProcProofs |
| `PidsOwned` | `Spec => []PidOwned` | ProcProofs |
| `StreamsStayOwn` | `Spec => []StreamsOwn` | ProcProofs |
| `RunsComplete` | `Spec => []RunComplete` | ProcProofs |
| `ProjectTypeCorrect` | `Spec => []TypeOK` of Project | ProjectProofs |
| `TargetsStayUnique` | `Spec => []TargetsUnique` | ProjectProofs |
| `ReportsStayTrue` | `Spec => ReportsTrue` (an action property) | ProjectProofs |
| `SerialTypeCorrect` | `Spec => []TypeOK` of Serial, for a pattern that is not empty | StreamProofs |
| `ReadsStayHonest` | `Spec => []ReadsHonest`, for a pattern that is not empty | StreamProofs |
| `ShellTypeCorrect` | `Devices => []TypeOK` of Shell, for a pattern that is not empty | StreamProofs |
| `StreamsStayHonest` | `Devices => []StreamsHonest`, for a pattern that is not empty | StreamProofs |
| `HandlesTypeCorrect` | `Devices => []TypeOK` of Http, Ssh and Webdriver | HandleProofs |
| `RequestsStayExact` | `Devices => []RequestsExact` | HandleProofs |
| `BodyStaysComplete` | `Devices => []BodyComplete` | HandleProofs |
| `SessionsStaySafe` | `Devices => []SessionsSafe` | HandleProofs |
| `TeardownReleases` | `Devices => []CleanedUp` | HandleProofs |
| `VariablesTypeCorrect` | `Spec => []TypeOK` of Variables | SettingsProofs |
| `GivenIsRead` | `Spec => []GivenHonoured` | SettingsProofs |
| `ReadsNeverChange` | `Spec => ReadsStable` (an action property) | SettingsProofs |
| `OptionsTypeCorrect` | `Spec => []TypeOK` of Options | SettingsProofs |
| `CommandLineWins` | `Spec => []CliWins` of Options, for any scenario files | SettingsProofs |
| `OptionsStayAlive` | `Spec => []OptionsAlive` | SettingsProofs |
| `KeysStayApart` | `Spec => []KeysApart`: what Options leaves is what Variables starts from | SettingsProofs |
| `SecretsTypeCorrect` | `Spec => []TypeOK` of Secrets | SettingsProofs |
| `SecretsMeanTheirPairs` | `Spec => []FileMeansItsPairs`, for files of any length, text and white space | SettingsProofs |

*Verdicts and the report.* `TypeOK` is not inductive: that a user-code step finds a current
test, and that the loop of deferred functions stays in the list, need bounds that
relate `started`, `pc`, `defer_i` and `registered`: `TypeInv` adds `Bounds`.
`VerdictHasReason` needs more. That a test which fails without raising has a
reason is because the flag was set by an error log that also recorded one, in
this test and no earlier one: `VerdictInv` adds what the current test looks like
in each phase (`CurrentInv`), that the tests before it are settled and those
after it untouched (`OthersInv`), and that the flag is set exactly if the running
test has a reason (`MarkInv`). The phase of the current test in a hook is
read off the event, as `Phase`. `ReportInv` adds `Accounting` itself
(which `FinishBody` preserves by cardinalities of finite sets) and `ExitInv`:
an exit code exists only at the end, and the last hooks only after the last test.
`ExitCodeTruthful` follows because `passed = Amount` means that all tests are in
the set of passed ones (`AllPassed`). The refinement maps each step to a step of
Verdicts or a stutter: `StartTest` to `Start`, `FinishBody` to `Decide`,
`Exit` to `Report`, `CheckSigint`, an abort, a kill and a crash to `Cut`
(`OutcomeStep`, `PromiseStep`).

*Deferred functions.* That they unwind is a statement about all calls so far,
while `run_deferred` only holds a list, a length and an index. `LoopInv` ties the
three together: the numbers on the list increase (`Increasing`), what the index
has not reached was never called (`NotYet`), what was called came after every
later number of its test (`CallOrder`), and what was called in this teardown is
what the index went past (`PastLoop`).
`BodyInv` says where a function registered by a body is: on the list, being
called, or called; `SavedInv` that a raw log, once made, is the final record.
`DeferInv` is their conjunction with `VerdictInv`.

*Outputs of hooks.* `StageInv`: the first test_started hook runs in HOOK_STAGE, which the
code leaves after it (section 7), so that only later ones log into the test. The hooks of the
other events, any number of them, run when no test is running, which `VerdictInv` gives.

*Array.* `TypeOK` is inductive; the refinement shows each operation to be one of
DynList on `Contents`, a refused or refusing one to stutter.

*Log files.* A name is in use from the moment its run chose it, but the file
comes later: `LogsInv` says who wrote to each file (`Written`), that each name
below the chosen one belongs to another run (`Tried`), that runs of one directory
and second that are active together are in `clash` (`Clashing`), that a run
outside it owns its files (`Owned`), and that no active run has the name of a
finished one (`Apart`). Names never run out, by a pigeonhole on `Tried` (`NamesLast`).
The links need one more invariant: `LinkInv` says that a run which reached its
links has made its logs (`Made`), what is left of the links it sets (`TodoOK`), that
a link names a log that is there (`LinkOK`) and, until two runs set links at once or
one is cut off there (`mixed`), that they are set in turns (`Orderly`): one run at a
time (`Exclusive`), which finds a link as it saw it (`Stepwise`), and a link that
nobody is about to set names the logs of the last run that set it (`Settled`).

*Queue of tests.* `LoadInv` says what the code makes of the registrations, disputed names
included: while the directories register (`QueueExact`) and after an order (`OrderExact`);
`Selected` and `Ordered` follow. `Bodies` says of each registered body that it is
alive or was released (`Accounted`), of a queued one that it is alive (`BodiesOwned`), that
nothing is released twice before deinit (`FreedOnce`), and who keeps what is alive:
the queue, a call that raised, or an order that dropped its test (`NoneLost`). The two loops of
`test_case_order_tests` find places, pairs of an index in the order and one in the
queue, and `Nth` is the place with k - 1 earlier ones: that they find each place once and in
order (`NthPlaced`) follows by counting finite sets, without an induction over the loops. With an
order that repeats a name two tests share a body (`Twice`), which deinit releases twice
(section 7).

*Keywords.* `CleanTreeExact` alone is not inductive: the parent that `call_hook`
takes from its stack is the calling function only because the stack mirrors
the frames. `KeywordInv`, while nothing is `lost`, has `StackShape` (each entry belongs to a
named frame, at its depth among the named ones, and entries with keywords get younger
upwards, so that a return finishes the keyword of its own frame only) and `TreeShape`
(each keyword is below its caller or, after a call back, at the top). As long as nothing
`strayed`, `StackExact`: an entry's parent is the entry below it, so that growing an
array of keywords never moves one the stack points to, and above an ignored function of the
library no function gets a keyword (`CallKeepsInv`, `NamedReturnKeepsInv`). Depths are
cardinalities of sets of frames (`DepthProperties`). Tail calls, hidden functions and errors change
none of it as long as no named function is lost (`UnnamedKeepExact`).

*Views of a record.* The invariant is short, since no view changes the record
(`ViewsInv`: raw log, loaded record and context are what the operators make of it). The
work is that each conversion undone gives back what was converted. A member that is
null is no member and is read as null again (`StrBack`, `ValueBack`), and a message comes
back up to its first NUL; from that outputs,
keywords, variables and tests come back one level after the other (`OutputBack`,
`KeywordBack`, `VarsBack`, `TestBack`, `StateBack`), whichever of their pointers are
null. That a hook is told the same compares the two lists of keys (`TestAlike`), and
that variables registered late do not show rests on `LateUnset`: they have no value.

*Trees of logs info.* `ListingDrawn` looks down from each line over all that follow,
while the program knows only what it was told when it prints one. `DrawnInto` says it
of a part of a listing, given the set of columns that are open below the part, and two parts
that are drawn right are so together if the first leaves open what the second goes
on with (`Joined`). A heading with its properties is such a part (`HungDrawn`), and so
is every block of a test (`OutputsAreRoot`, `TagsAreRoot`, ...). For the keywords,
`Flags` says that the shared flags tell of each level, up to the one of the
keyword printed last, whether a sibling follows (`Sibling`): `SiblingOfNext` carries that
from one keyword to the next, whatever its level, and stale flags of deeper levels are
in nobody's way because a prefix ends at the level and the flag of a level is set when it is
entered. The induction over the keywords goes through the least one that is not
printed right (`UpTo`).

*Terminal.* `DisplayInv`, unless the terminal got too small (`cramped`): before the
run the screen is empty (`Fresh`), while it is displayed (`Live`) the region ends
above the panel, which is drawn or about to be (`DrawnOrDue`), and as long as
nothing was resized the log is above it and ends in its last row (`Kept`), picotui's
column is the end of an open line (`Placed`) unless that is ended next (`EndDue`: after a block
the column may be wrong), and what the callback is going to print does not run into it
(`InTurn`); afterwards it stays (`Over`). `InTurn` is what nothing in the code enforces: a
`pico_println`, which goes to column 0, writes only the dash of a rule over the first of its
dashes (`OnOwnLine`), never anything over what an earlier `pico_print` left open, and each
callback ends its last line (`LeavesNoneOpen`). Writes and clears are
defined by going through a text or rows, and reasoned about one piece at a time.

*Processes.* `TypedInv` includes `PidOwned`. `FdInv` says that handles were opened
in an order (`Ordered`), that only a handle in use has open streams (`FilesInUse`),
where the ends of its pipes are (`EndsHeld`, `FilesOwn`), that the numbers a
handle in use keeps are its own (`NumbersOwn`, `LastInUse`), and that a killed one
holds nothing (`KilledGone`). It rests on `NextFd` giving six different free
numbers, for which `NthNumber` takes the least element of a set of numbers rather
than an induction. That a run returns everything is a balance: while it goes on, what
was read and what is in the pipe are what the process wrote (`Balanced`), and no
other handle gets at the pipe (`RunOK`). Before the wait nothing was signalled
(`Polling`), so a process that ended wrote all its output or left another behind to do so;
afterwards the streams are emptied one after the other, and the one that was read to its end
stays empty because by then nobody has its other end (`Collecting`).

*Project file.* `TypeInv` restricts each command to what fits the point it is at
(`Fitting`): only `add` converts a project, only `init` counts the directories it
made. That the file has no target twice is not inductive, because a command
changes a copy which it read earlier and writes it over what others wrote since:
`UniqueInv` says the same of every copy. A target is appended only if the copy
lacks it (`AppendDistinct`), and removing the first entry of a name keeps the rest
distinct (`RemoveDistinct`, which takes the least index of a set instead of an
induction, `Least`). A killed save leaves a file that nobody can read, and so
no copy.

That a success is true needs what a command has done when it comes to a point
(`Prepared`: a save is of a copy that has the change, and the directories it
needs were made) and, as long as no two commands overlapped (`Single`), that
the file is still as the command saved it (`Saved`).

*Serial reads.* `TypeOK` already says that the queue is what was sent beyond
`Consumed`. `ReadInv` adds what a read under way knows (`ReaderOK`): it is the only
reader, its buffer is the slice of what was sent from its begin to `Consumed`, and
that slice has no match yet; and that a finished read is such a slice, matched
exactly if it was reported found (`LastOK`). The steps join adjacent slices
(`SlicesJoin`). A pattern that is empty is excluded: it is in everything, and
`read_until` still reports "not found" when nothing arrived.

*Streams of a channel.* As for Serial, `TypeOK` says that what waits is the end
of what was sent. `ShellReads` says what read and read_until have in hand,
`ShellExecs` that an exec starts with nothing consumed and drains one stream
after the other, behind the end of both: buffer and queue together are what
was sent. `ShellLast` keeps the result true after the call: more may be sent then,
but not by a command that has ended.

*HTTP handles.* `HttpInv` takes in `RequestsExact` and `BodyComplete`, and adds that a list is
freed under an option only if the option was given one (`ListsKnown`), that no two callbacks, and
no callback and a refused function, share a reference (`FunctionsApart`), and what the callback has
taken in each phase of a transfer (`TransferCounts`). `RequestsExact` is proved in two
halves, what lists and transfer decide and what the functions decide (`ListsExact`,
`FunctionsExact`).

*SSH sessions.* `Tracked` is `ChannelsTracked` without the proviso, and holds after
any misuse: the list has no channel twice and every open channel is on
it. `Documented` is what the documented order of calls keeps besides: a session
keeps its list until it is freed, whatever is listed is open, and
SFTP channels have no open file when they are shut down. The proof assumes that a
channel is not an SFTP channel (`Channels \cap Sftps = {}`, in `ConstantsOK`).

*Webdriver.* The deferred functions run from the last to the first, so at any
time those up to `Left` are to run. `HandlesKept`: each handle of a request is
cleaned up, has a cleanup that is to run, or was made by a deferred close, which
nobody cleans up; by counting, there are no more of these than closes that
ran. `DriverKept`: a driver is gone once its kill ran, and without a fault a session whose
close ran before it has ended. A wait is
under way in the body only (`WaitKept`).

*Variables.* `VarInv` says of each variable that `ltf_parse_vars` saw, once it
succeeded: it has a value, that is the given one if there is one and then allowed
(`Honours`), and no other of them has its name (`ValidatedOK`). With no key given
twice (`GivenDistinct`), the first pair found is the only one (`GivenValue`); and a
name that is registered again is found at its first place (`FindValidated`), before
and after a step, which is `ReadsNeverChange`. Null pointers never get into the
record because none of the variables is without a value when it is made.

*Options.* `HeapInv` says who holds what: no string is both a tag and a variable,
the variables of the options are all different strings, and a scenario that is
being put together shares nothing with the options and holds nothing released.
So what an option replaces is held by nobody else that lives on, whatever a
scenario shared before; that a replaced scenario shares strings is harmless until
the release (section 7). `CliWins` is inductive with one more fact, that a
level which was asked for is marked as set; that no name gets two values when a
scenario is merged rests on `Taken`, whose places have different names
(`MergeKeeps`), and on `Only` listing each place once (`NthProperties`, by
counting).

*Secrets.* What was read is what was meant only if the parser is also in the
right place: `FileInv` says that it is in a value exactly if the lines leave one open,
under the same key, and that its buffer is the lines of that value so far, each with
its newline. One lemma for each form of a line says what the parser does with
it (`AssignmentParsed`, `ContentRead`, `ClosingRead`), and these rest on `TrimPadded`
(white space around a bare string is trimmed off, no more) and `SplitAt` (the first
of a token divides a string). Each step of the parser looks for the first token
with some property, so the least element of a set of numbers (`LeastOf`) does the work of an
induction over the string. `SecretsGiven` says of each secret `ltf_parse_secrets` saw
that it has a value of the file, and no other of them has its name.

Every invariant that a passing run checks is proved, and so is every action property and
refinement. Only model-checked are the liveness properties (`Termination`,
`InterruptHonoured`, `TimedRunReturns`, `CommandsEnd`, `CallsEnd`): liveness under
fairness and ENABLED are out of the prover's reach. So are induction rules, which take
an operator as a parameter; where a recursive function or the walk over a sequence needs one
(the keywords of a listing, the rows and texts of the terminal, the tokens of a
line), the proof takes the least element of the numbers for which a claim fails. No module
declares a RECURSIVE operator. The theorems hold under the
conditions of section 4, which are part of the properties.

## 6. What is not modelled

- `eval`, the json and util modules, and the helpers for strings, time, the system and
  the internal log: conversion or output without a protocol of its own.
- Of the logs: the wording and colours of lines, the level filter of the output log.
- Of the display: lines that wrap, colours, the level filter, and the functions of
  picotui that no callback uses (`pico_set_ui_rows`, `pico_ui_puts` and their kin).
- Of processes: that a process spawned later inherits the pipes of the earlier ones, which
  are not closed on exec.
- Of the options: those of the other commands. Of scenarios, the list `order` is
  merged like tags and left out; a cycle of includes, which recurses without
  end, is excluded (`Files` includes downwards).
- Of the serial module: line settings and port information. Of HTTP: options that only
  pass on a value, `getinfo`. Of SSH: directory operations, and writes to a channel.
- Coroutines, which inherit the keyword hooks and mix their calls into the one stack.
  A body that calls `ltf.test` while the tests run, which moves the queue under the
  loop. Failing allocations, except in the array.

## 7. Findings

Six runs end in a violation of a sentence of the repository (`PROJECT.json`
"findings"): `nested_defer` (docs/TESTS/TEST_TEARDOWN.md:39), `proc_full_pipe`
(docs/LTF_LIBS/ltf.proc.md:24), `scenario_release`
(docs/TESTS/TEST_SCENARIOS.md:3), `raw_log_schema`
(docs/raw_log_json_schema.json:14), `order_drops`
(docs/TESTS/TEST_SCENARIOS.md:48) and `read_until`
(docs/LTF_LIBS/ltf.ssh.md:210).

Where else the code and its documentation part ways: the models say what the
code does, and the properties are stated around it.

| code | what it does | what is said |
|---|---|---|
| src/ltf_test.c:244 | `run_deferred` gets "passed" whenever the body returned, also after `log_error` | docs/TESTS/TEST_TEARDOWN.md:80 |
| src/ltf_hooks.c:314 | the second hook of an event runs in TEST_STAGE; that of test_started logs into the test | docs/TESTS/LOGGING.md:75 |
| src/ltf_state.c:404 | a log in the second `test_run_started` hook, or at the top level of a file, reaches an assert | docs/HOOKS/HOOKS.md:5 |
| src/ltf_test.c:255 | the last hooks log to a closed file | docs/HOOKS/HOOKS.md:5 |
| src/modules/ltf/ltf.c:434 | a critical log under a pcall of the test fails nothing | docs/LTF_LIBS/ltf.md:94 |
| src/test_case.c:45 | an override without a matching tag leaves the earlier test in place | docs/TESTS/TEST_OVERRIDING.md:22 |
| src/test_case.c:92 | a name twice in the order runs twice and is freed twice | docs/TESTS/TEST_OVERRIDING.md:3 |
| src/ltf_hooks.c:37 | a hook registered outside hooks/ dereferences a null state | docs/HOOKS/HOOKS.md:9 |
| src/ltf_test.c:560 | variables registered after lib read nil | docs/TESTS/TEST_VARIABLES.md:7 |
| src/ltf_test.c:565 | secrets registered after lib read nil | docs/TESTS/TEST_SECRETS.md:7 |
| src/ltf_secrets.c:356 | an empty value provides a secret | docs/TESTS/TEST_SECRETS.md:97 |
| src/cmd_parser.c:449 | the target of the scenario replaces the one of the command line | docs/TESTS/TEST_SCENARIOS.md:35 |
| src/cmd_parser.c:443 | tags of the scenario are added to those of the command line, and lost without any | docs/TESTS/TEST_SCENARIOS.md:35, :62 |
| src/ltf_test_scenarios.c:437 | an including file resets the flags it does not mention | docs/TESTS/TEST_SCENARIOS.md:97 |
| src/ltf_test_scenarios.c:446 | a file without "cmd" sets the level to critical | docs/TESTS/TEST_SCENARIOS.md:97 |
| src/cmd_parser.c:391 | an unknown level is never refused | src/cmd_parser.c:392 |
| src/keyword_status.c:121 | a keyword that ended by an error or a tail call has no end | docs/raw_log_json_schema.json:90 |
| src/keyword_status.c:78 | and later keywords become its children | docs/TESTS/LOGGING.md:92 |
| lib/ltf/proc.lua:65 | a run with a timeout waits for the end of the streams without one, as long as a process that its own left behind has them | docs/LTF_LIBS/ltf.proc.md:29 |
| src/modules/proc/ltf-proc.c:46 | closing a handle closes numbers that another may have by then | docs/LTF_LIBS/ltf.proc.md:82 |
| src/modules/proc/ltf-proc.c:169 | a write to a process that has ended kills LTF by SIGPIPE | docs/LTF_LIBS/ltf.proc.md:149 |
| src/modules/proc/ltf-proc.c:287 | kill sends SIGTERM, not SIGINT | docs/LTF_LIBS/ltf.proc.md:170 |
| src/modules/serial/ltf-serial.c:745 | `port:write` waits until everything is written | docs/LTF_LIBS/ltf.serial.md:84 |
| src/modules/http/ltf-http.c:22 | the last entry of a list is dropped | docs/LTF_LIBS/ltf.http.md:76 |
| src/modules/http/ltf-http.c:133 | a boolean option is always switched off | docs/LTF_LIBS/ltf.http.md:71 |
| src/modules/http/ltf-http.c:146 | two list options share one list | include/modules/http/ltf-http.h:12 |
| src/modules/http/ltf-http.c:176 | OPT_HEADERFUNCTION raises and keeps its reference | docs/LTF_LIBS/ltf.http.md:79 |
| src/modules/http/ltf-http.c:220 | cleanup leaves the list and the references, and the collector, which asks for an object of another kind, raises and releases nothing (:228) | docs/LTF_LIBS/ltf.http.md:58, lib/ltf/http.lua:14 |
| src/modules/ssh/ltf-ssh-session.c:197 | a disconnect that fails leaves a freed list behind | docs/LTF_LIBS/ltf.ssh.md:87 |
| src/modules/ssh/ltf-ssh-channel.c:378 | collecting a channel that is not the last of the list reads past its end | docs/LTF_LIBS/ltf.ssh.md:6 |
| src/modules/ssh/ltf-ssh-sftp.c:27 | an SFTP channel keeps pointers of a session that was closed | docs/LTF_LIBS/ltf.ssh.md:24 |
| src/modules/ssh/ltf-ssh-sftp.c:214 | after a failed transfer, close does nothing | docs/LTF_LIBS/ltf.ssh.md:338 |
| src/ltf_target.c:52 | at the end of the input the prompt repeats for ever | docs/CLI.md:167 |
| src/ltf_target.c:106 | of two adds at the same time one is lost, with success reported | docs/CLI.md:167 |
| src/ltf_target.c:106 | a target is saved before its directory is made | docs/PROJECT_SETUP.md:67 |
| src/ltf_init.c:161 | init refuses while the directory exists, also to regenerate a lost file | src/project_parser.c:217 |
| src/project_parser.c:187 | the first target of a project is added to an uninitialised list | docs/PROJECT_SETUP.md:39 |
| src/test_logs.c:190 | two runs of one directory and second that overlap may choose the same names | docs/TESTS/LOGGING.md:22, :29 |
| src/util/files.c:186 | of two runs that set the links at once, a link may be that of the other run, or missing | docs/TESTS/LOGGING.md:22, :29 |
| src/ltf_state.c:57 | of a message with a NUL the raw log has as many bytes as it was long, taken behind the copy that ends there (:418); hooks and `logs info` end at the NUL | docs/TESTS/LOGGING.md:88 |
| src/ltf_hooks.c:213 | the table of a hook has `teardown_outputs`, not `teardown_output` | docs/HOOKS/HOOKS.md:95 |
| src/ltf_state.c:297 | no target is no key | docs/raw_log_json_schema.json:14 |
| src/ltf_logs.c:290 | the branch of teardown outputs ends although keywords follow | the line above it |
| src/ltf_test.c:639 | finalizers that log in `lua_close` use the display after it was freed | docs/TESTS/LOGGING.md:22 |
| src/picotui.c:464 | with a region of one row (16 rows or fewer) the terminal ignores it and log lines overwrite each other or the panel | include/picotui.h:17 |
| src/picotui.c:466 | a resize in the middle of a line goes on in column 0 | include/picotui.h:17 |
| src/picotui.c:460 | a panel that was cut does not grow back when the terminal does | include/picotui.h:24 |
| src/picotui.c:726 | a resize after the last call leaves a stale size, and a cursor that may be inside the screen | include/picotui.h:17 |
| src/util/da.c:117 | `da_resize` sets the size also when memory was refused | include/util/da.h:30 |
| src/modules/proc/ltf-proc.c:46 | a spawn that fails closes descriptor 0 with the numbers it never had | docs/LTF_LIBS/ltf.proc.md:82 |
| lib/ltf/ssh/shell_channel.lua:94 | options without a pattern raise | docs/LTF_LIBS/ltf.ssh.md:401 |
| lib/ltf/ssh/shell_channel.lua:77 | at the end of the stream read_until asks again without a pause until its deadline | docs/LTF_LIBS/ltf.ssh.md:197 |
| lib/ltf/ssh/exec_channel.lua:71 | more output than the window makes `wait_eof`, and so exec, fail | docs/LTF_LIBS/ltf.ssh.md:123 |
| lib/ltf/ssh/exec_channel.lua:76 | the exit code is 0 if it had not arrived with the end of the stream | docs/LTF_LIBS/ltf.ssh.md:125 |
| lib/ltf/webdriver.lua:656 | a deferred `close` defers the cleanup of its own handle, which never runs | docs/LTF_LIBS/ltf.http.md:58 |
| lib/ltf/webdriver.lua:367 | `find_element` returns nil for an element that is not there | lib/ltf/webdriver.lua:352 |

## 8. Plan

Left to model: Options and Variables composed on the merged list, so that the
values a scenario gives are followed to the read; the other commands' options; the
directory operations of SFTP; writes to a channel against a full window.

Left to prove: that the keywords Keywords records, the tests TestRun records and the
variables Variables leaves make a record in the sense of `IsRecord`, which would join the
three specifications; nothing that a run checks, but for liveness.
