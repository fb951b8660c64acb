------------------------------ MODULE Project ------------------------------
(***************************************************************************)
(* The commands that make and change a project: ltf init (ltf_init.c) and  *)
(* ltf target add and remove (ltf_target.c) over .ltf.json as read and     *)
(* written by project_parser.c, and the directories of the project.  Each  *)
(* command is a process of its own; it may be killed at any point, and a   *)
(* system call may fail.  ltf init is run from the parent directory of the *)
(* project, the other commands inside it.                                  *)
(***************************************************************************)
EXTENDS Integers, Sequences, FiniteSets, SequencesExt

CONSTANTS
  Procs,       \* terminals that run commands
  Targets,     \* names of targets
  Faults,      \* what may go wrong
  MaxCommands  \* bound: commands run

Fault == {"mkdir",   \* a directory cannot be made
          "write",   \* the project file cannot be written to the end
          "kill",    \* a command is killed
          "delete",  \* the user deletes a project file that cannot be parsed
          "heap"}    \* malloc returns memory that was in use before

\* What the constants must be; the module that gives them values assumes it.
ConstantsOK == Faults \subseteq Fault /\ MaxCommands \in Nat

VARIABLES
  file,     \* .ltf.json: absent, cut short by a save, or a project
  dirs,     \* directories: of the project, and tests/<target>
  proc,     \* the command of each terminal, its copy of the project
            \* and the user's answer
  outcome,  \* history: how the last command of each terminal ended
  overlap,  \* history: two commands have run at the same time
  commands
vars == <<file, dirs, proc, outcome, overlap, commands>>

Base == <<"project", "lib", "tests">>
Dirs == {"project", "lib", "tests", "common"} \cup Targets

Content == [multitarget : BOOLEAN, targets : Seq(Targets)]
File    == [state : {"absent", "cut"}] \cup [state : {"ok"}, content : Content]
Outcome == {"none", "success", "aborted", "failure", "refused", "killed", "crashed"}
Answer  == {"yes", "no", "other", "eof"}
Point   == {"idle", "parse", "convert", "update", "confirm", "truncate", "write", "mkdir",
            "init_check", "init_dirs", "init_files"}

Empty == [multitarget |-> FALSE, targets |-> << >>]
Idle  == [at |-> "idle", command |-> "none", target |-> "none", made |-> 0,
          project |-> Empty, garbage |-> FALSE, answer |-> "none"]

Init ==
  /\ file = [state |-> "absent"]
  /\ dirs = {}
  /\ proc = [p \in Procs |-> Idle]
  /\ outcome = [p \in Procs |-> "none"]
  /\ overlap = FALSE
  /\ commands = 0

At(p, point) == proc[p].at = point
Goto(p, point) == proc' = [proc EXCEPT ![p].at = point]

Ends(p, how) ==
  /\ proc' = [proc EXCEPT ![p].at = "idle"]
  /\ outcome' = [outcome EXCEPT ![p] = how]

StartCommand(p, command, target, multitarget) ==
  /\ At(p, "idle")
  /\ commands < MaxCommands
  /\ overlap' = (overlap \/ \E q \in Procs : ~At(q, "idle"))
  /\ commands' = commands + 1
  /\ proc' = [proc EXCEPT ![p] =
       [Idle EXCEPT !.at = IF command = "init" THEN "init_check" ELSE "parse",
                    !.command = command, !.target = target,
                    !.project = [Empty EXCEPT !.multitarget = multitarget]]]
  /\ outcome' = [outcome EXCEPT ![p] = "none"]
  /\ UNCHANGED <<file, dirs>>

-----------------------------------------------------------------------------
(* ltf init.                                                               *)

\* directory_exists(opts->project_name)
CheckInit(p) ==
  /\ At(p, "init_check")
  /\ IF "project" \in dirs THEN Ends(p, "refused") ELSE Goto(p, "init_dirs") /\ UNCHANGED outcome
  /\ UNCHANGED <<file, dirs, commands, overlap>>

InitDirs(p) == IF proc[p].project.multitarget THEN Append(Base, "common") ELSE Base

\* One create_directory of create_project.
MakeInitDir(p) ==
  /\ At(p, "init_dirs")
  /\ LET made == proc[p].made + 1
     IN \/ /\ dirs' = dirs \cup {InitDirs(p)[made]}
           /\ proc' = [proc EXCEPT ![p].made = made,
                         ![p].at = IF made = Len(InitDirs(p)) THEN "truncate" ELSE @]
           /\ UNCHANGED outcome
        \/ "mkdir" \in Faults /\ Ends(p, "failure") /\ UNCHANGED dirs
  /\ UNCHANGED <<file, commands, overlap>>

\* .gitignore and .luarc.json.
FinishInit(p) ==
  /\ At(p, "init_files")
  /\ \/ Ends(p, "success")
     \/ "write" \in Faults /\ Ends(p, "failure")
  /\ UNCHANGED <<file, dirs, commands, overlap>>

-----------------------------------------------------------------------------
(* project_parser.c.                                                       *)

AfterParse(p, content) ==
  CASE proc[p].command = "add" /\ ~content.multitarget -> "convert"
    [] proc[p].command = "remove" /\ ~content.multitarget -> "failed"
    [] OTHER -> "update"

\* project_parser_parse, and the test of the multitarget flag after it.  The
\* copy comes from malloc and the list of targets is only set when there are
\* targets: otherwise it may hold garbage.
Parse(p) ==
  /\ At(p, "parse")
  /\ IF file.state # "ok" \/ AfterParse(p, file.content) = "failed"
     THEN Ends(p, "failure")
     ELSE \E garbage \in {FALSE} \cup {g \in {TRUE} : "heap" \in Faults} :
            /\ proc' = [proc EXCEPT ![p].at = AfterParse(p, file.content),
                                    ![p].project = file.content,
                                    ![p].garbage = garbage /\ file.content.targets = << >>]
            /\ UNCHANGED outcome
  /\ UNCHANGED <<file, dirs, commands, overlap>>

\* project_parser_save opens the file for writing, which empties it ...
Truncate(p) ==
  /\ At(p, "truncate")
  /\ file' = [state |-> "cut"]
  /\ Goto(p, "write")
  /\ UNCHANGED <<dirs, outcome, commands, overlap>>

AfterSave == [init |-> "init_files", add |-> "mkdir", remove |-> "done"]

\* ... and writes the copy, with the targets of a multitarget project only.
\* A failed save exits.
Write(p) ==
  /\ At(p, "write")
  /\ \/ /\ file' = [state |-> "ok",
                    content |-> IF proc[p].project.multitarget THEN proc[p].project ELSE Empty]
        /\ IF proc[p].command = "remove"
           THEN Ends(p, "success")
           ELSE Goto(p, AfterSave[proc[p].command]) /\ UNCHANGED outcome
     \/ "write" \in Faults /\ Ends(p, "failure") /\ UNCHANGED file
  /\ UNCHANGED <<dirs, commands, overlap>>

-----------------------------------------------------------------------------
(* ltf target add.                                                         *)

\* The prompt reads a line: yes (an empty line too), no, or another; or the
\* input has ended.
Reply(p, answer) ==
  /\ proc[p].at \in {"convert", "confirm"} /\ proc[p].answer = "none"
  /\ proc' = [proc EXCEPT ![p].answer = answer]
  /\ UNCHANGED <<file, dirs, outcome, commands, overlap>>

Asked(p, point, answer) == At(p, point) /\ proc[p].answer = answer

\* Any other answer: goto repeat.  At the end of the input getchar() answers EOF
\* for ever: the prompt repeats and the command does not go on.
AskAgain(p) ==
  /\ proc[p].answer = "other"
  /\ proc' = [proc EXCEPT ![p].answer = "none"]
  /\ UNCHANGED <<file, dirs, outcome, commands, overlap>>

\* convert_project_to_multitarget, after the prompt.
Convert(p) ==
  /\ \/ Asked(p, "convert", "no") /\ Ends(p, "aborted") /\ UNCHANGED dirs
     \/ /\ Asked(p, "convert", "yes")
        /\ \/ /\ dirs' = dirs \cup {"common", "tests"}
              /\ proc' = [proc EXCEPT ![p].at = "update",
                                      ![p].project = [@ EXCEPT !.multitarget = TRUE]]
              /\ UNCHANGED outcome
           \/ "mkdir" \in Faults /\ Ends(p, "failure") /\ UNCHANGED dirs
  /\ UNCHANGED <<file, commands, overlap>>

\* Mutant: a target that is there already is not noticed.
AddTargetTwice(p) ==
  /\ At(p, "update") /\ proc[p].command = "add"
  /\ proc' = [proc EXCEPT ![p].project = [@ EXCEPT !.targets = Append(@, proc[p].target)],
                          ![p].at = "truncate"]
  /\ UNCHANGED <<file, dirs, outcome, commands, overlap>>

\* The new name goes to the end of the list, which realloc makes longer; on a
\* garbage pointer that is undefined.
AddTarget(p) ==
  /\ At(p, "update") /\ proc[p].command = "add"
  /\ IF Contains(proc[p].project.targets, proc[p].target)
     THEN Ends(p, "failure")
     ELSE LET longer == Append(proc[p].project.targets, proc[p].target)
          IN \/ /\ proc' = [proc EXCEPT ![p].at = "truncate",
                                        ![p].project = [@ EXCEPT !.targets = longer]]
                /\ UNCHANGED outcome
             \/ proc[p].garbage /\ Ends(p, "crashed")
  /\ UNCHANGED <<file, dirs, commands, overlap>>

\* Mutant: a directory that cannot be made is not noticed.
MakeTargetDirAnyway(p) ==
  /\ At(p, "mkdir")
  /\ dirs' = dirs \cup {proc[p].target} \/ ("mkdir" \in Faults /\ UNCHANGED dirs)
  /\ Ends(p, "success")
  /\ UNCHANGED <<file, commands, overlap>>

\* The directory of the target is made after the save.
MakeTargetDir(p) ==
  /\ At(p, "mkdir")
  /\ \/ dirs' = dirs \cup {"tests", proc[p].target} /\ Ends(p, "success")
     \/ "mkdir" \in Faults /\ proc[p].target \notin dirs /\ Ends(p, "failure") /\ UNCHANGED dirs
  /\ UNCHANGED <<file, commands, overlap>>

-----------------------------------------------------------------------------
(* ltf target remove.                                                      *)

\* The first entry with its name is taken out of the list; for the last entry
\* the user is asked whether the project stays multitarget.
RemoveTarget(p) ==
  /\ At(p, "update") /\ proc[p].command = "remove"
  /\ IF ~Contains(proc[p].project.targets, proc[p].target)
     THEN Ends(p, "failure")
     ELSE LET left == RemoveFirst(proc[p].project.targets, proc[p].target)
          IN /\ proc' = [proc EXCEPT ![p].at = IF left = << >> THEN "confirm" ELSE "truncate",
                           ![p].project = [@ EXCEPT !.targets = left]]
             /\ UNCHANGED outcome
  /\ UNCHANGED <<file, dirs, commands, overlap>>

\* Mutant: a no asks again.
ConfirmYesOnly(p) ==
  /\ \/ /\ Asked(p, "confirm", "yes")
        /\ proc' = [proc EXCEPT ![p].at = "truncate",
                                ![p].project = [@ EXCEPT !.multitarget = FALSE]]
     \/ Asked(p, "confirm", "no") /\ proc' = [proc EXCEPT ![p].answer = "none"]
  /\ UNCHANGED <<file, dirs, outcome, commands, overlap>>

\* The project becomes single-target, or stays multitarget without targets.
Confirm(p) ==
  /\ \/ /\ Asked(p, "confirm", "yes")
        /\ proc' = [proc EXCEPT ![p].at = "truncate",
                                ![p].project = [@ EXCEPT !.multitarget = FALSE]]
     \/ Asked(p, "confirm", "no") /\ Goto(p, "truncate")
  /\ UNCHANGED <<file, dirs, outcome, commands, overlap>>

-----------------------------------------------------------------------------
(* What goes wrong, and the user.                                          *)

Kill(p) ==
  /\ "kill" \in Faults /\ ~At(p, "idle")
  /\ Ends(p, "killed")
  /\ UNCHANGED <<file, dirs, commands, overlap>>

\* What the message of a failed parse asks for.
DeleteFile ==
  /\ "delete" \in Faults /\ file.state = "cut"
  /\ \A p \in Procs : At(p, "idle")
  /\ file' = [state |-> "absent"]
  /\ UNCHANGED <<dirs, proc, outcome, commands, overlap>>

Terminated == commands = MaxCommands /\ (\A p \in Procs : At(p, "idle")) /\ UNCHANGED vars

Start == \E p \in Procs :
  \/ \E multitarget \in BOOLEAN : StartCommand(p, "init", "none", multitarget)
  \/ \E command \in {"add", "remove"}, target \in Targets :
       StartCommand(p, command, target, FALSE)

Step(p) ==
  \/ CheckInit(p) \/ MakeInitDir(p) \/ FinishInit(p)
  \/ Parse(p) \/ Truncate(p) \/ Write(p)
  \/ AskAgain(p) \/ Convert(p) \/ Confirm(p)
  \/ AddTarget(p) \/ MakeTargetDir(p) \/ RemoveTarget(p)

Next ==
  \/ Start
  \/ \E p \in Procs : Step(p) \/ Kill(p) \/ \E answer \in Answer : Reply(p, answer)
  \/ DeleteFile \/ Terminated

Spec == Init /\ [][Next]_vars

\* A process runs on; nothing is assumed of the user.
FairSpec == Spec /\ \A p \in Procs : WF_vars(Step(p))

-----------------------------------------------------------------------------
\* Every variable stays in its type; a project that is not multitarget has no
\* targets in its file.
TypeOK ==
  /\ file \in File
  /\ file.state = "ok" => (file.content.targets # << >> => file.content.multitarget)
  /\ dirs \subseteq Dirs
  /\ outcome \in [Procs -> Outcome]
  /\ \A p \in Procs : proc[p].at \in Point /\ proc[p].project \in Content
  /\ overlap \in BOOLEAN
  /\ commands \in 0 .. MaxCommands

\* A target is in the file at most once, whoever adds it and whatever fails.
TargetsUnique == file.state = "ok" => IsInjective(file.content.targets)

\* What a command reports is true when it ends: after a successful add the
\* target is in the file and has its directory, after a successful remove it
\* is not in the file, and after a successful init there is a project.  Commands
\* that run at the same time may undo each other's change.
Reported(p) ==
  /\ proc[p].command = "add" => /\ Contains(file.content.targets, proc[p].target)
                                /\ {"common", "tests", proc[p].target} \subseteq dirs
  /\ proc[p].command = "remove" => ~Contains(file.content.targets, proc[p].target)
  /\ proc[p].command = "init" => {"project", "lib", "tests"} \subseteq dirs

JustSucceeded(p) == outcome[p] # "success" /\ outcome'[p] = "success"

ReportsTrue ==
  [][\A p \in Procs : ~overlap /\ JustSucceeded(p) => file'.state = "ok" /\ Reported(p)']_vars

\* Whatever fails and whatever other commands do, a command ends or comes to a
\* question, and ends once that is answered with yes or no.  A question that
\* nobody answers, or whose input has ended, keeps it: in the latter case it
\* repeats the question for ever (ltf_target.c:47-67, 172-194).
Asking(p)   == proc[p].at \in {"convert", "confirm"} /\ proc[p].answer \in {"none", "eof"}
Answered(p) == proc[p].at \in {"convert", "confirm"} /\ proc[p].answer \in {"yes", "no"}

CommandsEnd ==
  \A p \in Procs : []<>(At(p, "idle") \/ Asking(p)) /\ (Answered(p) ~> At(p, "idle"))
=============================================================================
