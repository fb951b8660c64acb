------------------------------ MODULE RunLogs ------------------------------
(***************************************************************************)
(* The files of test_logs.c: every run of ltf test has an output log, that *)
(* it opens at its start, and a raw log, that it creates at its end, both  *)
(* named after the second it started in, and links that name the latest    *)
(* logs of the target and of the project.  Runs are processes that share   *)
(* nothing else: several may run at once, and each may be cut off at any   *)
(* point, by an interrupt (which exits before the end) or a kill.          *)
(*                                                                         *)
(* Local time repeats an hour in autumn, so a later run may well start in  *)
(* the same second.  A name is <<directory, kind, second, n>>: the n-th    *)
(* name that is tried.                                                     *)
(***************************************************************************)
EXTENDS Naturals, Sequences, FiniteSets

CONSTANTS
  Runs,     \* processes that run tests
  Targets,  \* targets of a multitarget project
  Seconds   \* what get_date_time_now may return

\* What the constants must be; the module that gives them values assumes it.
LogsConstantsOK == IsFiniteSet(Runs) /\ "top" \notin Targets

VARIABLES
  multitarget,
  files,    \* the log files: who wrote to them, and whether they are complete
  links,    \* the links to the latest logs, << >> where there is none
  run,      \* the runs: where they are and the names they took
  last,     \* history: the run that was the last to set the links of a directory
  clash,    \* history: runs that ran at the same time as another of their
            \* directory and second
  mixed     \* history: two runs set links at the same time, or one was cut off there

logsVars == <<multitarget, files, links, run, last, clash, mixed>>

Dirs  == Targets \cup {"top"}
Kinds == {"output", "raw"}
Paths == Dirs \X Kinds \X Seconds \X (0 .. Cardinality(Runs))

Absent == [by |-> {}, whole |-> FALSE]
File   == [by : SUBSET Runs, whole : BOOLEAN]
LogPoint  == {"idle", "raw_name", "output_name", "open", "run", "write", "close",
           "lstat", "unlink", "symlink", "done", "cut"}

LogsInit ==
  /\ multitarget \in BOOLEAN
  /\ files = [p \in Paths |-> Absent]
  /\ links = [l \in Dirs \X Kinds |-> << >>]
  /\ run = [r \in Runs |-> [at |-> "idle", dir |-> "top", second |-> 0, raw |-> 0,
                            output |-> 0, todo |-> << >>, saved |-> FALSE]]
  /\ last = [d \in Dirs |-> "none"]
  /\ clash = {}
  /\ mixed = FALSE

At(r, point)   == run[r].at = point
Goto(r, point) == run' = [run EXCEPT ![r].at = point]

Path(r, kind) == <<run[r].dir, kind, run[r].second, run[r][kind]>>

\* file_exists
Exists(path) == files[path] # Absent

Active(r)  == run[r].at \notin {"idle", "done", "cut"}
Linking(r) == run[r].at \in {"lstat", "unlink", "symlink"}

-----------------------------------------------------------------------------
(* ltf_log_init.                                                           *)

Start(r, dir, second) ==
  LET same == {q \in Runs : Active(q) /\ run[q].dir = dir /\ run[q].second = second} IN
  /\ At(r, "idle")
  /\ IF multitarget THEN dir \in Targets ELSE dir = "top"
  /\ run' = [run EXCEPT ![r].at = "raw_name", ![r].dir = dir, ![r].second = second]
  /\ clash' = IF same = {} THEN clash ELSE clash \cup same \cup {r}
  /\ UNCHANGED <<multitarget, files, links, last, mixed>>

\* Mutant: the first name is taken, whether or not there is such a file.
NameFileFirst(r, point, kind, next) ==
  /\ At(r, point)
  /\ Goto(r, next)
  /\ UNCHANGED <<multitarget, files, links, last, clash, mixed>>

\* One turn of the loop that looks for a name that no file has.
NameFile(r, point, kind, next) ==
  /\ At(r, point)
  /\ IF Exists(Path(r, kind))
       THEN run' = [run EXCEPT ![r][kind] = @ + 1]
       ELSE Goto(r, next)
  /\ UNCHANGED <<multitarget, files, links, last, clash, mixed>>

\* fopen(output_log_file_path, "w")
OpenOutput(r) ==
  /\ At(r, "open")
  /\ files' = [files EXCEPT ![Path(r, "output")] = [by |-> {r}, whole |-> FALSE]]
  /\ Goto(r, "run")
  /\ UNCHANGED <<multitarget, links, last, clash, mixed>>

-----------------------------------------------------------------------------
(* ltf_log_test_run_finished.                                              *)

\* json_object_to_file_ext empties or creates the raw log ...
CreateRaw(r) ==
  /\ At(r, "run")
  /\ files' = [files EXCEPT ![Path(r, "raw")] = [by |-> {r}, whole |-> FALSE]]
  /\ Goto(r, "write")
  /\ UNCHANGED <<multitarget, links, last, clash, mixed>>

\* ... and writes it; a failure is only logged.
WriteRaw(r, saved) ==
  /\ At(r, "write")
  /\ files' = [files EXCEPT ![Path(r, "raw")] = [by |-> @.by \cup {r}, whole |-> saved]]
  /\ run' = [run EXCEPT ![r].at = "close", ![r].saved = saved]
  /\ UNCHANGED <<multitarget, links, last, clash, mixed>>

\* The links to set: those of the target, and then those of the project.
LinksOf(r) ==
  LET pair(d) == << <<d, "output">>, <<d, "raw">> >> IN
  IF multitarget THEN pair(run[r].dir) \o pair("top") ELSE pair("top")

CloseOutput(r) ==
  /\ At(r, "close")
  /\ files' = [files EXCEPT ![Path(r, "output")] = [by |-> @.by \cup {r}, whole |-> TRUE]]
  /\ run' = [run EXCEPT ![r].at = "lstat", ![r].todo = LinksOf(r)]
  /\ mixed' = (mixed \/ \E q \in Runs : Linking(q))
  /\ UNCHANGED <<multitarget, links, last, clash>>

(* replace_symlink, for the first link of todo.                            *)

Link(r) == Head(run[r].todo)

NextLink(r) ==
  LET left == Tail(run[r].todo) IN
  /\ run' = [run EXCEPT ![r].todo = left, ![r].at = IF left = << >> THEN "done" ELSE "lstat"]
  /\ last' = [last EXCEPT ![Link(r)[1]] = r]

\* Mutant: what is there is not removed.
LstatAbsent(r) ==
  /\ At(r, "lstat")
  /\ Goto(r, "symlink")
  /\ UNCHANGED <<multitarget, files, links, last, clash, mixed>>

Lstat(r) ==
  /\ At(r, "lstat")
  /\ Goto(r, IF links[Link(r)] = << >> THEN "symlink" ELSE "unlink")
  /\ UNCHANGED <<multitarget, files, links, last, clash, mixed>>

\* unlink fails, and the link is given up, when another run removed it first.
Unlink(r) ==
  /\ At(r, "unlink")
  /\ IF links[Link(r)] = << >>
       THEN NextLink(r) /\ UNCHANGED links
       ELSE /\ links' = [links EXCEPT ![Link(r)] = << >>]
            /\ Goto(r, "symlink")
            /\ UNCHANGED last
  /\ UNCHANGED <<multitarget, files, clash, mixed>>

\* symlink fails, unnoticed, when another run made it first.
Symlink(r) ==
  /\ At(r, "symlink")
  /\ links' = [links EXCEPT ![Link(r)] =
                 IF @ = << >> THEN Path(r, Link(r)[2]) ELSE @]
  /\ NextLink(r)
  /\ UNCHANGED <<multitarget, files, clash, mixed>>

-----------------------------------------------------------------------------
\* SIGINT (exit(130) before the end of the run) or a kill.
CutOff(r) ==
  /\ Active(r)
  /\ Goto(r, "cut")
  /\ mixed' = (mixed \/ Linking(r))
  /\ UNCHANGED <<multitarget, files, links, last, clash>>

LogsTerminated == (\A r \in Runs : run[r].at \in {"done", "cut"}) /\ UNCHANGED logsVars

LogsNext ==
  \/ \E r \in Runs :
       \/ \E dir \in Dirs, second \in Seconds : Start(r, dir, second)
       \/ NameFile(r, "raw_name", "raw", "output_name")
       \/ NameFile(r, "output_name", "output", "open")
       \/ OpenOutput(r)
       \/ CreateRaw(r) \/ \E saved \in BOOLEAN : WriteRaw(r, saved)
       \/ CloseOutput(r)
       \/ Lstat(r) \/ Unlink(r) \/ Symlink(r)
       \/ CutOff(r)
  \/ LogsTerminated

LogsSpec == LogsInit /\ [][LogsNext]_logsVars

-----------------------------------------------------------------------------
\* Every variable stays in its type: the names never run out, and a link names
\* a log of its kind.
LogsTypeOK ==
  /\ files \in [Paths -> File]
  /\ \A d \in Dirs, k \in Kinds :
       links[d, k] # << >> => links[d, k] \in Paths /\ links[d, k][2] = k
  /\ \A r \in Runs : /\ run[r].at \in LogPoint
                      /\ ~At(r, "idle") => \A k \in Kinds : Path(r, k) \in Paths
  /\ last \in [Dirs -> Runs \cup {"none"}]

\* The logs of a finished run are its own and complete, unless the raw log could
\* not be written, and stay so whatever starts later, in the same second too.
\* Only a run of the same directory and second that ran at the same time may
\* have taken the same names.
LogsKept ==
  \A r \in Runs \ clash : At(r, "done") =>
    /\ files[Path(r, "output")] = [by |-> {r}, whole |-> TRUE]
    /\ files[Path(r, "raw")] = [by |-> {r}, whole |-> run[r].saved]

\* The run whose raw log `logs info latest` reads: its link may be missing, and
\* what was not written to the end cannot be parsed.
Shown ==
  LET raw == links["top", "raw"] IN
  IF raw = << >> \/ ~files[raw].whole THEN {} ELSE files[raw].by

\* The latest links of a directory name the two logs of one run, the one that
\* finished last, and `logs info latest` shows that run if its raw log was
\* written.  While a run sets them, and after two did so at the same time or one
\* was cut off there, they may belong to different runs or be missing.
LatestHonest ==
  /\ ~mixed /\ (\A r \in Runs : ~Linking(r)) =>
       \A d \in Dirs : last[d] # "none" =>
         \A k \in Kinds : links[d, k] = Path(last[d], k)
  /\ ~mixed /\ last["top"] # "none" /\ (\A r \in Runs : ~Linking(r)) /\ clash = {} =>
       Shown = IF run[last["top"]].saved THEN {last["top"]} ELSE {}
  /\ \A l \in Dirs \X Kinds : links[l] # << >> => Exists(links[l])

=============================================================================
