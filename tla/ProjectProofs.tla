---------------------------- MODULE ProjectProofs ---------------------------
(***************************************************************************)
(* Proofs about Project (Prj), for any number of terminals that run        *)
(* commands at the same time, any names of targets and any of the faults.  *)
(***************************************************************************)
EXTENDS MCSettings, SequenceTheorems, WellFoundedInduction, TLAPS

Slot == [at : Prj!Point, command : {"none", "init", "add", "remove"},
         target : Targets \cup {"none"}, made : 0 .. 4, project : Prj!Content,
         garbage : BOOLEAN, answer : Prj!Answer \cup {"none"}]

\* All but the commands.
WorldOK ==
  /\ file \in Prj!File
  /\ file.state = "ok" => (file.content.targets # << >> => file.content.multitarget)
  /\ dirs \subseteq Prj!Dirs
  /\ outcome \in [Procs -> Prj!Outcome]
  /\ overlap \in BOOLEAN
  /\ commands \in 0 .. MaxCommands

\* What a command is doing fits the step it is at.
Fits(s) ==
  /\ s.at # "idle" => s.command # "none"
  /\ s.command = "add" => s.target \in Targets
  /\ s.at \in {"convert", "mkdir"} => s.command = "add"
  /\ s.at = "init_check" => s.made = 0
  /\ s.at = "init_dirs" => s.made < IF s.project.multitarget THEN 4 ELSE 3

Fitting == {s \in Slot : Fits(s)}

TypeInv == WorldOK /\ proc \in [Procs -> Fitting]

LEMMA TypeInvMeaning == TypeInv => Prj!TypeOK
BY DEF TypeInv, WorldOK, Fitting, Slot, Prj!TypeOK

LEMMA InitDirsProperties ==
  ASSUME NEW p \in Procs, proc[p] \in Slot
  PROVE  /\ Len(Prj!InitDirs(p)) = IF proc[p].project.multitarget THEN 4 ELSE 3
         /\ \A i \in 1 .. Len(Prj!InitDirs(p)) : Prj!InitDirs(p)[i] \in Prj!Dirs
<1>1. proc[p].project.multitarget \in BOOLEAN
  BY DEF Slot, Prj!Content
<1> QED BY <1>1 DEF Prj!InitDirs, Prj!Base, Prj!Dirs

LEMMA EmptyContent == \A m \in BOOLEAN : [multitarget |-> m, targets |-> << >>] \in Prj!Content
<1>1. << >> \in Seq(Targets)
  OBVIOUS
<1> QED BY <1>1 DEF Prj!Content

\* No list of targets, of the file or of a command, names one twice.
Distinct(content) == Prj!IsInjective(content.targets)

LEMMA EmptyDistinct == Prj!IsInjective(<< >>)
BY DEF Prj!IsInjective

UniqueInv ==
  /\ Prj!TargetsUnique
  /\ \A p \in Procs : Distinct(proc[p].project)

ProjectInv == TypeInv /\ UniqueInv

-----------------------------------------------------------------------------
(* Changes of a slot.                                                      *)

LEMMA SlotMoved ==
  ASSUME NEW s \in Fitting, NEW point \in Prj!Point, s.at # "idle",
         point \notin {"convert", "mkdir", "init_check", "init_dirs"}
  PROVE  [s EXCEPT !.at = point] \in Fitting /\ [s EXCEPT !.at = point].project = s.project
<1>1. [s EXCEPT !.at = point] \in Slot
  BY DEF Fitting, Slot
<1> QED BY <1>1 DEF Fitting, Slot, Fits

LEMMA SlotToInitDirs ==
  ASSUME NEW s \in Fitting, s.at = "init_check"
  PROVE  /\ [s EXCEPT !.at = "init_dirs"] \in Fitting
         /\ [s EXCEPT !.at = "init_dirs"].project = s.project
<1>1. [s EXCEPT !.at = "init_dirs"] \in Slot
  BY DEF Fitting, Slot, Prj!Point
<1>2. s.made = 0
  BY DEF Fitting, Fits
<1> QED BY <1>1, <1>2 DEF Fitting, Slot, Fits

MadeSlot(s, made, at) == [s EXCEPT !.made = made, !.at = at]

LEMMA SlotMade ==
  ASSUME NEW s \in Fitting, s.at = "init_dirs",
         NEW length, length = IF s.project.multitarget THEN 4 ELSE 3,
         NEW made, made = s.made + 1,
         NEW at, at = IF made = length THEN "truncate" ELSE s.at
  PROVE  /\ MadeSlot(s, made, at) \in Fitting
         /\ MadeSlot(s, made, at).project = s.project
         /\ made \in 1 .. length
<1> DEFINE t == MadeSlot(s, made, at)
<1>1. /\ s \in Slot /\ s.made \in 0 .. 4 /\ s.made < length /\ length \in 3 .. 4
      /\ s.command # "none"
      /\ s.command = "add" => s.target \in Targets
  BY DEF Fitting, Slot, Fits
<1>2. made \in 1 .. length /\ made \in 0 .. 4 /\ at \in Prj!Point
  BY <1>1 DEF Prj!Point
<1>3. t \in Slot /\ t.made = made /\ t.at = at /\ t.command = s.command /\ t.target = s.target
      /\ t.project = s.project
  BY <1>1, <1>2 DEF Slot, MadeSlot
<1>4. Fits(t)
  BY <1>1, <1>2, <1>3 DEF Fits
<1> QED BY <1>2, <1>3, <1>4 DEF Fitting

LEMMA IdleProperties == Prj!Idle \in Fitting /\ Prj!Idle.made = 0 /\ Prj!Idle.project = Prj!Empty
<1>1. Prj!Empty \in Prj!Content
  BY EmptyContent DEF Prj!Empty
<1> QED BY <1>1 DEF Prj!Idle, Fitting, Fits, Slot, Prj!Point

StartedSlot(at, command, target, content) ==
  [Prj!Idle EXCEPT !.at = at, !.command = command, !.target = target, !.project = content]

LEMMA SlotStarted ==
  ASSUME NEW at \in {"init_check", "parse"}, NEW command \in {"init", "add", "remove"},
         NEW target \in Targets \cup {"none"}, NEW content \in Prj!Content,
         command = "add" => target \in Targets
  PROVE  /\ StartedSlot(at, command, target, content) \in Fitting
         /\ StartedSlot(at, command, target, content).project = content
<1> DEFINE t == StartedSlot(at, command, target, content)
<1>1. Prj!Idle \in Slot /\ Prj!Idle.made = 0
  BY IdleProperties DEF Fitting
<1>2. t \in Slot /\ t.at = at /\ t.command = command /\ t.target = target
      /\ t.project = content /\ t.made = 0
  BY <1>1 DEF Slot, Prj!Point, StartedSlot
<1>3. Fits(t)
  BY <1>2 DEF Fits
<1> QED BY <1>2, <1>3 DEF Fitting

-----------------------------------------------------------------------------
(* Every command starts and ends in a fitting state.                       *)

LEMMA ProjectInit == ASSUME Prj!ConstantsOK PROVE Prj!Init => ProjectInv
<1> SUFFICES ASSUME Prj!Init PROVE ProjectInv
  OBVIOUS
<1>1. Prj!Idle \in Fitting
  BY IdleProperties
<1>2. proc \in [Procs -> Fitting]
  BY <1>1 DEF Prj!Init
<1>3. file \in Prj!File /\ file.state # "ok"
  BY DEF Prj!Init, Prj!File
<1>4. outcome \in [Procs -> Prj!Outcome]
  BY DEF Prj!Init, Prj!Outcome
<1>5. \A p \in Procs : Distinct(proc[p].project)
  BY EmptyDistinct DEF Prj!Init, Prj!Idle, Prj!Empty, Distinct
<1>6. WorldOK
  <2>1. dirs \subseteq Prj!Dirs
    BY DEF Prj!Init
  <2>2. overlap \in BOOLEAN
    BY DEF Prj!Init
  <2>3. commands \in 0 .. MaxCommands
    BY DEF Prj!Init, Prj!ConstantsOK
  <2> QED BY <1>3, <1>4, <2>1, <2>2, <2>3 DEF WorldOK
<1>7. Prj!TargetsUnique
  BY <1>3 DEF Prj!TargetsUnique
<1> QED BY <1>2, <1>5, <1>6, <1>7 DEF ProjectInv, TypeInv, UniqueInv

-----------------------------------------------------------------------------
(* A step of one command.                                                  *)

\* The slot of p becomes s, the others stay.
Becomes(p, s) == proc' = [proc EXCEPT ![p] = s]

LEMMA BecomesProperties ==
  ASSUME TypeInv, UniqueInv, NEW p \in Procs, NEW s \in Fitting, Becomes(p, s),
         Distinct(s.project)
  PROVE  proc' \in [Procs -> Fitting] /\ \A q \in Procs : Distinct(proc'[q].project)
BY DEF TypeInv, UniqueInv, Becomes

\* A step that leaves the file alone.
LEMMA FileKept ==
  ASSUME ProjectInv, NEW p \in Procs, NEW s \in Fitting, Becomes(p, s), Distinct(s.project),
         UNCHANGED file, dirs' \subseteq Prj!Dirs, outcome' \in [Procs -> Prj!Outcome],
         overlap' \in BOOLEAN, commands' \in 0 .. MaxCommands
  PROVE  ProjectInv'
<1>1. proc' \in [Procs -> Fitting] /\ \A q \in Procs : Distinct(proc'[q].project)
  BY BecomesProperties DEF ProjectInv
<1> QED BY <1>1 DEF ProjectInv, TypeInv, WorldOK, UniqueInv, Prj!TargetsUnique

\* A step that goes on to another point, changing nothing else of the slot.
LEMMA GotoKeepsInv ==
  ASSUME ProjectInv, NEW p \in Procs, NEW point \in Prj!Point, Prj!Goto(p, point),
         ~Prj!At(p, "idle"), point \notin {"convert", "mkdir", "init_check", "init_dirs"},
         UNCHANGED <<file, outcome, commands, overlap>>, dirs' \subseteq Prj!Dirs
  PROVE  ProjectInv'
<1> DEFINE s == [proc[p] EXCEPT !.at = point]
<1>1. s \in Fitting /\ s.project = proc[p].project
  BY DEF ProjectInv, TypeInv, Fitting, Slot, Fits, Prj!At
<1>2. Becomes(p, s)
  BY DEF Prj!Goto, Becomes
<1> QED BY <1>1, <1>2, FileKept DEF ProjectInv, TypeInv, WorldOK, UniqueInv

LEMMA EndsKeepsInv ==
  ASSUME ProjectInv, NEW p \in Procs, NEW how \in Prj!Outcome, Prj!Ends(p, how),
         UNCHANGED <<file, commands, overlap>>, dirs' \subseteq Prj!Dirs
  PROVE  ProjectInv'
<1> DEFINE s == [proc[p] EXCEPT !.at = "idle"]
<1>1. s \in Fitting /\ s.project = proc[p].project
  BY DEF ProjectInv, TypeInv, Fitting, Slot, Fits, Prj!Point
<1>2. Becomes(p, s)
  BY DEF Prj!Ends, Becomes
<1>3. outcome' \in [Procs -> Prj!Outcome]
  BY DEF Prj!Ends, ProjectInv, TypeInv, WorldOK
<1> QED BY <1>1, <1>2, <1>3, FileKept DEF ProjectInv, TypeInv, WorldOK, UniqueInv

LEMMA StartKeepsInv ==
  ASSUME Prj!ConstantsOK, ProjectInv, NEW p \in Procs, NEW command \in {"init", "add", "remove"},
         NEW target \in Targets \cup {"none"}, NEW multitarget \in BOOLEAN,
         command = "add" => target \in Targets,
         Prj!StartCommand(p, command, target, multitarget)
  PROVE  ProjectInv'
<1> DEFINE content == [Prj!Empty EXCEPT !.multitarget = multitarget]
           at == IF command = "init" THEN "init_check" ELSE "parse"
           s == StartedSlot(at, command, target, content)
<1>1. content \in Prj!Content /\ Distinct(content)
  <2>1. content \in Prj!Content /\ content.targets = << >>
    BY EmptyContent DEF Prj!Empty, Prj!Content
  <2> QED BY <2>1, EmptyDistinct DEF Distinct
<1>3. s \in Fitting /\ s.project = content
  <2>1. at \in {"init_check", "parse"}
    OBVIOUS
  <2> HIDE DEF content, at
  <2> QED BY <1>1, <2>1, SlotStarted
<1>4. Distinct(s.project)
  BY <1>1, <1>3
<1>5. Becomes(p, s) /\ UNCHANGED <<file, dirs>> /\ commands < MaxCommands
      /\ commands' = commands + 1 /\ overlap' \in BOOLEAN
      /\ outcome' = [outcome EXCEPT ![p] = "none"]
  BY DEF Prj!StartCommand, Becomes, StartedSlot
<1>6. outcome' \in [Procs -> Prj!Outcome] /\ commands' \in 0 .. MaxCommands /\ dirs' \subseteq Prj!Dirs
  BY <1>5 DEF ProjectInv, TypeInv, WorldOK, Prj!Outcome, Prj!ConstantsOK
<1> QED BY <1>3, <1>4, <1>5, <1>6, FileKept

LEMMA InitKeepsInv ==
  ASSUME ProjectInv, NEW p \in Procs, Prj!CheckInit(p) \/ Prj!MakeInitDir(p) \/ Prj!FinishInit(p)
  PROVE  ProjectInv'
<1>0. proc \in [Procs -> Fitting] /\ proc[p] \in Fitting /\ dirs \subseteq Prj!Dirs
      /\ Distinct(proc[p].project) /\ outcome \in [Procs -> Prj!Outcome]
      /\ overlap \in BOOLEAN /\ commands \in 0 .. MaxCommands
  BY DEF ProjectInv, TypeInv, WorldOK, UniqueInv
<1>1. CASE Prj!CheckInit(p)
  <2>1. CASE Prj!Ends(p, "refused")
    BY <1>0, <1>1, <2>1, EndsKeepsInv DEF Prj!CheckInit, Prj!Outcome
  <2>2. CASE Prj!Goto(p, "init_dirs") /\ UNCHANGED outcome
    <3> DEFINE s == [proc[p] EXCEPT !.at = "init_dirs"]
    <3>1. Becomes(p, s)
      BY <2>2 DEF Prj!Goto, Becomes
    <3>2. s \in Fitting /\ s.project = proc[p].project
      BY <1>0, <1>1, SlotToInitDirs DEF Prj!CheckInit, Prj!At
    <3> HIDE DEF s
    <3> QED BY <1>0, <1>1, <2>2, <3>1, <3>2, FileKept DEF Prj!CheckInit
  <2> QED BY <1>1, <2>1, <2>2 DEF Prj!CheckInit
<1>2. CASE Prj!MakeInitDir(p)
  <2> DEFINE made == proc[p].made + 1
             length == Len(Prj!InitDirs(p))
             at == IF made = length THEN "truncate" ELSE proc[p].at
             s == MadeSlot(proc[p], made, at)
  <2>1. /\ Len(Prj!InitDirs(p)) = IF proc[p].project.multitarget THEN 4 ELSE 3
        /\ \A i \in 1 .. Len(Prj!InitDirs(p)) : Prj!InitDirs(p)[i] \in Prj!Dirs
    BY <1>0, InitDirsProperties DEF Fitting
  <2>2. s \in Fitting /\ s.project = proc[p].project /\ made \in 1 .. Len(Prj!InitDirs(p))
    <3>1. proc[p].at = "init_dirs"
      BY <1>2 DEF Prj!MakeInitDir, Prj!At
    <3>2. /\ length = IF proc[p].project.multitarget THEN 4 ELSE 3
          /\ made = proc[p].made + 1
          /\ at = IF made = length THEN "truncate" ELSE proc[p].at
      BY <2>1
    <3> HIDE DEF made, at, length
    <3>3. s \in Fitting /\ s.project = proc[p].project /\ made \in 1 .. length
      BY <1>0, <3>1, <3>2, SlotMade
    <3> QED BY <3>3 DEF length
  <2>3. CASE /\ dirs' = dirs \cup {Prj!InitDirs(p)[made]} /\ Becomes(p, s)
             /\ UNCHANGED outcome
    <3>1. dirs' \subseteq Prj!Dirs
      BY <1>0, <2>1, <2>2, <2>3
    <3> HIDE DEF s
    <3> QED BY <1>0, <1>2, <2>2, <2>3, <3>1, FileKept DEF Prj!MakeInitDir
  <2>4. CASE Prj!Ends(p, "failure") /\ UNCHANGED dirs
    BY <1>0, <1>2, <2>4, EndsKeepsInv DEF Prj!MakeInitDir, Prj!Outcome
  <2> QED BY <1>2, <2>3, <2>4 DEF Prj!MakeInitDir, Becomes, MadeSlot
<1>3. CASE Prj!FinishInit(p)
  BY <1>0, <1>3, EndsKeepsInv DEF Prj!FinishInit, Prj!Outcome
<1> QED BY <1>1, <1>2, <1>3

-----------------------------------------------------------------------------
(* The project file.                                                       *)

ParsedSlot(s, point, content, garbage) ==
  [s EXCEPT !.at = point, !.project = content, !.garbage = garbage]

LEMMA SlotParsed ==
  ASSUME NEW s \in Fitting, s.at = "parse", NEW content \in Prj!Content, NEW garbage \in BOOLEAN,
         NEW point \in {"convert", "update"}, point = "convert" => s.command = "add"
  PROVE  /\ ParsedSlot(s, point, content, garbage) \in Fitting
         /\ ParsedSlot(s, point, content, garbage).project = content
<1> DEFINE t == ParsedSlot(s, point, content, garbage)
<1>1. s \in Slot /\ Fits(s)
  BY DEF Fitting
<1>2. t \in Slot /\ t.at = point /\ t.command = s.command /\ t.target = s.target
      /\ t.project = content
  BY <1>1 DEF Slot, Prj!Point, ParsedSlot
<1>3. Fits(t)
  BY <1>1, <1>2 DEF Fits
<1> QED BY <1>2, <1>3 DEF Fitting

LEMMA ParseKeepsInv ==
  ASSUME ProjectInv, NEW p \in Procs, Prj!Parse(p)
  PROVE  ProjectInv'
<1>0. /\ proc \in [Procs -> Fitting] /\ proc[p] \in Fitting /\ dirs \subseteq Prj!Dirs
      /\ outcome \in [Procs -> Prj!Outcome] /\ overlap \in BOOLEAN /\ commands \in 0 .. MaxCommands
      /\ file \in Prj!File /\ Prj!TargetsUnique
  BY DEF ProjectInv, TypeInv, WorldOK, UniqueInv
<1>1. proc[p].at = "parse" /\ UNCHANGED <<file, dirs, commands, overlap>>
  BY DEF Prj!Parse, Prj!At
<1>2. CASE Prj!Ends(p, "failure")
  BY <1>0, <1>1, <1>2, EndsKeepsInv DEF Prj!Outcome
<1>3. ASSUME file.state = "ok", Prj!AfterParse(p, file.content) # "failed",
             NEW garbage \in {FALSE} \cup {g \in {TRUE} : "heap" \in Faults},
             proc' = [proc EXCEPT ![p].at = Prj!AfterParse(p, file.content),
                                  ![p].project = file.content,
                                  ![p].garbage = garbage /\ file.content.targets = << >>],
             UNCHANGED outcome
      PROVE  ProjectInv'
  <2> DEFINE point == Prj!AfterParse(p, file.content)
             old == garbage /\ file.content.targets = << >>
             s == ParsedSlot(proc[p], point, file.content, old)
  <2>1. file.content \in Prj!Content /\ Distinct(file.content)
    BY <1>0, <1>3 DEF Prj!File, Prj!TargetsUnique, Distinct
  <2>2. point \in {"convert", "update"} /\ (point = "convert" => proc[p].command = "add")
    BY <1>3 DEF Prj!AfterParse
  <2>3. Becomes(p, s)
    BY <1>0, <1>3 DEF Becomes, ParsedSlot
  <2>4. old \in BOOLEAN
    OBVIOUS
  <2> HIDE DEF point, old
  <2>5. s \in Fitting /\ s.project = file.content
    BY <1>0, <1>1, <2>1, <2>2, <2>4, SlotParsed
  <2> HIDE DEF s
  <2> QED BY <1>0, <1>1, <1>3, <2>1, <2>3, <2>5, FileKept
<1> QED BY <1>2, <1>3 DEF Prj!Parse

\* A step that writes the file.
LEMMA FileWritten ==
  ASSUME ProjectInv, NEW p \in Procs, NEW s \in Fitting, Becomes(p, s), Distinct(s.project),
         file' \in Prj!File, file'.state = "ok" =>
            /\ file'.content.targets # << >> => file'.content.multitarget
            /\ Distinct(file'.content),
         UNCHANGED <<dirs, overlap, commands>>, outcome' \in [Procs -> Prj!Outcome]
  PROVE  ProjectInv'
<1>1. proc' \in [Procs -> Fitting] /\ \A q \in Procs : Distinct(proc'[q].project)
  BY BecomesProperties DEF ProjectInv
<1>2. WorldOK'
  BY DEF ProjectInv, TypeInv, WorldOK
<1>3. Prj!TargetsUnique'
  BY DEF Prj!TargetsUnique, Distinct
<1> QED BY <1>1, <1>2, <1>3 DEF ProjectInv, TypeInv, UniqueInv

LEMMA TruncateKeepsInv ==
  ASSUME ProjectInv, NEW p \in Procs, Prj!Truncate(p)
  PROVE  ProjectInv'
<1> DEFINE s == [proc[p] EXCEPT !.at = "write"]
<1>1. proc[p] \in Fitting /\ Distinct(proc[p].project) /\ outcome \in [Procs -> Prj!Outcome]
  BY DEF ProjectInv, TypeInv, WorldOK, UniqueInv
<1>2. s \in Fitting /\ s.project = proc[p].project
  BY <1>1, SlotMoved DEF Prj!Truncate, Prj!At, Prj!Point
<1>3. Becomes(p, s)
  BY DEF Prj!Truncate, Prj!Goto, Becomes
<1>4. file' \in Prj!File /\ file'.state # "ok"
  BY DEF Prj!Truncate, Prj!File
<1> HIDE DEF s
<1> QED BY <1>1, <1>2, <1>3, <1>4, FileWritten DEF Prj!Truncate

LEMMA SlotSaved ==
  ASSUME NEW s \in Fitting, s.at # "idle", NEW point \in {"init_files", "mkdir"},
         point = "mkdir" => s.command = "add"
  PROVE  [s EXCEPT !.at = point] \in Fitting /\ [s EXCEPT !.at = point].project = s.project
<1>1. [s EXCEPT !.at = point] \in Slot
  BY DEF Fitting, Slot, Prj!Point
<1> QED BY <1>1 DEF Fitting, Slot, Fits

LEMMA WriteKeepsInv ==
  ASSUME ProjectInv, NEW p \in Procs, Prj!Write(p)
  PROVE  ProjectInv'
<1>0. /\ proc \in [Procs -> Fitting] /\ proc[p] \in Fitting /\ Distinct(proc[p].project)
      /\ outcome \in [Procs -> Prj!Outcome] /\ dirs \subseteq Prj!Dirs
  BY DEF ProjectInv, TypeInv, WorldOK, UniqueInv
<1>1. proc[p].at = "write" /\ UNCHANGED <<dirs, commands, overlap>>
  BY DEF Prj!Write, Prj!At
<1>2. CASE Prj!Ends(p, "failure") /\ UNCHANGED file
  BY <1>0, <1>1, <1>2, EndsKeepsInv DEF Prj!Outcome
<1>3. CASE file' = [state |-> "ok",
                    content |-> IF proc[p].project.multitarget THEN proc[p].project ELSE Prj!Empty]
  <2> DEFINE content == IF proc[p].project.multitarget THEN proc[p].project ELSE Prj!Empty
  <2>1. /\ content \in Prj!Content /\ Distinct(content)
        /\ content.targets # << >> => content.multitarget
    <3>1. Prj!Empty \in Prj!Content /\ Distinct(Prj!Empty) /\ Prj!Empty.targets = << >>
      BY EmptyContent, EmptyDistinct DEF Prj!Empty, Distinct
    <3>2. proc[p].project \in Prj!Content
      BY <1>0 DEF Fitting, Slot
    <3> QED BY <1>0, <3>1, <3>2
  <2>2. file' = [state |-> "ok", content |-> content]
    BY <1>3
  <2> HIDE DEF content
  <2>3. file' \in Prj!File /\ file'.content = content
    BY <2>1, <2>2 DEF Prj!File
  <2>4. CASE Prj!Ends(p, "success")
    <3> DEFINE s == [proc[p] EXCEPT !.at = "idle"]
    <3>1. s \in Fitting /\ s.project = proc[p].project
      BY <1>0, <1>1, SlotMoved DEF Prj!Point
    <3>2. Becomes(p, s) /\ outcome' \in [Procs -> Prj!Outcome]
      BY <1>0, <2>4 DEF Prj!Ends, Becomes, Prj!Outcome
    <3> HIDE DEF s
    <3> QED BY <1>0, <1>1, <2>1, <2>3, <3>1, <3>2, FileWritten
  <2>5. CASE proc[p].command # "remove" /\ Prj!Goto(p, Prj!AfterSave[proc[p].command]) /\ UNCHANGED outcome
    <3> DEFINE point == Prj!AfterSave[proc[p].command]
               s == [proc[p] EXCEPT !.at = point]
    <3>1. point \in {"init_files", "mkdir"} /\ (point = "mkdir" => proc[p].command = "add")
      BY <1>0, <1>1, <2>5 DEF Prj!AfterSave, Fitting, Slot, Fits
    <3>2. Becomes(p, s)
      BY <2>5 DEF Prj!Goto, Becomes
    <3> HIDE DEF point
    <3>3. s \in Fitting /\ s.project = proc[p].project
      BY <1>0, <1>1, <3>1, SlotSaved
    <3> HIDE DEF s
    <3> QED BY <1>0, <1>1, <2>1, <2>3, <2>5, <3>2, <3>3, FileWritten
  <2> QED BY <1>3, <1>2, <2>4, <2>5 DEF Prj!Write
<1> QED BY <1>2, <1>3 DEF Prj!Write

-----------------------------------------------------------------------------
(* The list of targets.                                                    *)

LEMMA AppendDistinct ==
  ASSUME NEW list \in Seq(Targets), Prj!IsInjective(list), NEW target \in Targets,
         ~Prj!Contains(list, target)
  PROVE  Append(list, target) \in Seq(Targets) /\ Prj!IsInjective(Append(list, target))
<1> DEFINE new == Append(list, target)
<1>1. /\ new \in Seq(Targets) /\ Len(new) = Len(list) + 1 /\ Len(list) \in Nat
      /\ DOMAIN new = 1 .. Len(new) /\ DOMAIN list = 1 .. Len(list)
      /\ \A i \in 1 .. Len(list) : new[i] = list[i] /\ list[i] # target
      /\ new[Len(list) + 1] = target
  BY AppendProperties, LenProperties DEF Prj!Contains
<1> HIDE DEF new
<1>2. ASSUME NEW a \in DOMAIN new, NEW b \in DOMAIN new, new[a] = new[b]
      PROVE  a = b
  <2>1. CASE a \in 1 .. Len(list) /\ b \in 1 .. Len(list)
    BY <1>1, <1>2, <2>1 DEF Prj!IsInjective
  <2>2. CASE ~(a \in 1 .. Len(list) /\ b \in 1 .. Len(list))
    BY <1>1, <1>2, <2>2
  <2> QED BY <2>1, <2>2
<1> QED BY <1>1, <1>2 DEF Prj!IsInjective, new

\* A set of numbers that is not empty has a least one.
LEMMA Least ==
  ASSUME NEW T \in SUBSET Nat, T # {}
  PROVE  Prj!Min(T) \in T
<1>1. PICK x \in T : \A y \in T : <<y, x>> \notin OpToRel(<, Nat)
  BY NatLessThanWellFounded, WFMin
<1>2. ASSUME NEW y \in T PROVE x <= y
  <2>1. ~(y < x)
    BY <1>1 DEF OpToRel
  <2> QED BY <2>1
<1> QED BY <1>2 DEF Prj!Min

LEMMA RemoveDistinct ==
  ASSUME NEW list \in Seq(Targets), Prj!IsInjective(list), NEW target, Prj!Contains(list, target)
  PROVE  /\ Prj!RemoveFirst(list, target) \in Seq(Targets) /\ Prj!IsInjective(Prj!RemoveFirst(list, target))
         /\ ~Prj!Contains(Prj!RemoveFirst(list, target), target)
<1> DEFINE I == {i \in 1 .. Len(list) : list[i] = target}
           at == Prj!Min(I)
           left == SubSeq(list, 1, at - 1)
           right == SubSeq(list, at + 1, Len(list))
           new == left \o right
<1>1. Len(list) \in Nat /\ DOMAIN list = 1 .. Len(list) /\ \A i \in 1 .. Len(list) : list[i] \in Targets
  BY LenProperties, ElementOfSeq
<1>2. I \in SUBSET Nat /\ I # {}
  BY DEF Prj!Contains
<1>3. at \in 1 .. Len(list) /\ list[at] = target
  <2>1. at \in I
    BY <1>2, Least
  <2> QED BY <2>1
<1>4. Prj!RemoveFirst(list, target) = new
  BY <1>2 DEF Prj!RemoveFirst, Prj!RemoveAt, Prj!SelectInSeq, Prj!Contains
<1> HIDE DEF at
<1>5. /\ left \in Seq(Targets) /\ Len(left) = at - 1
      /\ \A i \in 1 .. at - 1 : left[i] = list[i]
  BY <1>1, <1>3, SubSeqProperties
<1>6. /\ right \in Seq(Targets) /\ Len(right) = Len(list) - at
      /\ \A i \in 1 .. Len(list) - at : right[i] = list[at + i]
  <2>1. at + 1 \in Int /\ Len(list) \in Int /\ \A i \in at + 1 .. Len(list) : list[i] \in Targets
    BY <1>1, <1>3
  <2>2. /\ right \in Seq(Targets)
        /\ Len(right) = IF at + 1 <= Len(list) THEN Len(list) - (at + 1) + 1 ELSE 0
        /\ \A i \in 1 .. Len(list) - (at + 1) + 1 : right[i] = list[at + 1 + i - 1]
    BY <2>1, SubSeqProperties
  <2> HIDE DEF right
  <2>3. Len(list) - (at + 1) + 1 = Len(list) - at
    BY <1>1, <1>3
  <2>4. ASSUME NEW i \in 1 .. Len(list) - at PROVE right[i] = list[at + i]
    <3>1. at + 1 + i - 1 = at + i
      BY <1>3
    <3>2. right[i] = list[at + 1 + i - 1]
      BY <2>2, <2>3
    <3> QED BY <3>1, <3>2
  <2>5. Len(right) = Len(list) - at
    <3>1. CASE at + 1 <= Len(list)
      BY <2>2, <2>3, <3>1
    <3>2. CASE ~(at + 1 <= Len(list))
      <4>1. at \in Nat /\ at <= Len(list) /\ Len(list) \in Nat
        BY <1>1, <1>3
      <4>2. at = Len(list)
        BY <3>2, <4>1
      <4> QED BY <2>2, <3>2, <4>1, <4>2
    <3> QED BY <3>1, <3>2
  <2> QED BY <2>2, <2>4, <2>5
<1> HIDE DEF left, right
<1>7. /\ new \in Seq(Targets) /\ Len(new) = Len(list) - 1
      /\ \A i \in 1 .. Len(list) - 1 : new[i] = IF i < at THEN list[i] ELSE list[i + 1]
  <2>1. /\ new \in Seq(Targets) /\ Len(new) = Len(left) + Len(right)
        /\ \A i \in 1 .. Len(left) + Len(right) :
             new[i] = IF i <= Len(left) THEN left[i] ELSE right[i - Len(left)]
    BY <1>5, <1>6, ConcatProperties
  <2> HIDE DEF new
  <2>2. Len(left) + Len(right) = Len(list) - 1
    BY <1>1, <1>3, <1>5, <1>6
  <2>3. ASSUME NEW i \in 1 .. Len(list) - 1
        PROVE  new[i] = IF i < at THEN list[i] ELSE list[i + 1]
    <3>1. CASE i < at
      <4>1. i \in 1 .. at - 1 /\ i <= Len(left)
        BY <1>3, <1>5, <3>1
      <4>2. new[i] = left[i]
        BY <2>1, <2>2, <4>1
      <4> QED BY <1>5, <3>1, <4>1, <4>2
    <3>2. CASE ~(i < at)
      <4>1. new[i] = right[i - (at - 1)]
        <5>1. ~(i <= Len(left)) /\ Len(left) = at - 1
          BY <1>3, <1>5, <3>2
        <5>2. new[i] = right[i - Len(left)]
          BY <2>1, <2>2, <5>1
        <5> QED BY <5>1, <5>2
      <4>2. i - (at - 1) \in 1 .. Len(list) - at /\ at + (i - (at - 1)) = i + 1
        BY <1>1, <1>3, <3>2
      <4>3. right[i - (at - 1)] = list[at + (i - (at - 1))]
        BY <1>6, <4>2
      <4> QED BY <3>2, <4>1, <4>2, <4>3
    <3> QED BY <3>1, <3>2
  <2> QED BY <2>1, <2>2, <2>3
<1> HIDE DEF new
<1>8. DOMAIN new = 1 .. Len(list) - 1
  BY <1>7, LenProperties
<1>9. Prj!IsInjective(new)
  BY <1>1, <1>3, <1>7, <1>8, SMTT(20) DEF Prj!IsInjective
<1>10. ~Prj!Contains(new, target)
  <2> SUFFICES ASSUME NEW i \in 1 .. Len(list) - 1 PROVE new[i] # target
    BY <1>7 DEF Prj!Contains
  <2>1. PICK j \in 1 .. Len(list) : j # at /\ new[i] = list[j]
    <3>1. i \in 1 .. Len(list) /\ i + 1 \in 1 .. Len(list)
      BY <1>1
    <3>2. CASE i < at
      BY <1>3, <1>7, <3>1, <3>2
    <3>3. CASE ~(i < at)
      <4>1. i + 1 # at
        BY <1>3, <3>3
      <4> QED BY <1>7, <3>1, <3>3, <4>1
    <3> QED BY <3>2, <3>3
  <2> QED BY <1>1, <1>3, <2>1 DEF Prj!IsInjective
<1> QED BY <1>4, <1>7, <1>9, <1>10

-----------------------------------------------------------------------------
(* ltf target add and ltf target remove.                                   *)

UpdatedSlot(s, point, content) == [s EXCEPT !.at = point, !.project = content]

LEMMA SlotUpdated ==
  ASSUME NEW s \in Fitting, NEW point \in {"update", "confirm", "truncate"}, s.at # "idle",
         NEW content \in Prj!Content
  PROVE  /\ UpdatedSlot(s, point, content) \in Fitting
         /\ UpdatedSlot(s, point, content).project = content
<1> DEFINE t == UpdatedSlot(s, point, content)
<1>1. s \in Slot /\ Fits(s)
  BY DEF Fitting
<1>2. t \in Slot /\ t.at = point /\ t.command = s.command /\ t.target = s.target
      /\ t.project = content
  BY <1>1 DEF Slot, Prj!Point, UpdatedSlot
<1>3. Fits(t)
  BY <1>1, <1>2 DEF Fits
<1> QED BY <1>2, <1>3 DEF Fitting

\* A step that goes on with another content.
LEMMA UpdateKeepsInv ==
  ASSUME ProjectInv, NEW p \in Procs, NEW point \in {"update", "confirm", "truncate"},
         ~Prj!At(p, "idle"), NEW content \in Prj!Content, Distinct(content),
         Becomes(p, UpdatedSlot(proc[p], point, content)),
         UNCHANGED <<file, outcome, overlap, commands>>, dirs' \subseteq Prj!Dirs
  PROVE  ProjectInv'
<1> DEFINE s == UpdatedSlot(proc[p], point, content)
<1>1. /\ proc[p] \in Fitting /\ outcome \in [Procs -> Prj!Outcome] /\ overlap \in BOOLEAN
      /\ commands \in 0 .. MaxCommands
  BY DEF ProjectInv, TypeInv, WorldOK
<1>2. s \in Fitting /\ s.project = content
  BY <1>1, SlotUpdated DEF Prj!At
<1>3. Becomes(p, s)
  OBVIOUS
<1> HIDE DEF s
<1> QED BY <1>1, <1>2, <1>3, FileKept

LEMMA SlotAnswered ==
  ASSUME NEW s \in Fitting, NEW answer \in Prj!Answer \cup {"none"}
  PROVE  /\ [s EXCEPT !.answer = answer] \in Fitting
         /\ [s EXCEPT !.answer = answer].project = s.project
<1>1. [s EXCEPT !.answer = answer] \in Slot
  BY DEF Fitting, Slot
<1> QED BY <1>1 DEF Fitting, Slot, Fits

LEMMA PromptKeepsInv ==
  ASSUME ProjectInv, NEW p \in Procs, NEW answer \in Prj!Answer \cup {"none"},
         proc' = [proc EXCEPT ![p].answer = answer],
         UNCHANGED <<file, dirs, outcome, commands, overlap>>
  PROVE  ProjectInv'
<1> DEFINE s == [proc[p] EXCEPT !.answer = answer]
<1>1. /\ proc[p] \in Fitting /\ outcome \in [Procs -> Prj!Outcome] /\ overlap \in BOOLEAN
      /\ commands \in 0 .. MaxCommands /\ dirs \subseteq Prj!Dirs /\ Distinct(proc[p].project)
  BY DEF ProjectInv, TypeInv, WorldOK, UniqueInv
<1>2. s \in Fitting /\ s.project = proc[p].project
  BY <1>1, SlotAnswered
<1>3. Becomes(p, s)
  BY DEF Becomes
<1> HIDE DEF s
<1> QED BY <1>1, <1>2, <1>3, FileKept

LEMMA AddKeepsInv ==
  ASSUME ProjectInv, NEW p \in Procs, Prj!Convert(p) \/ Prj!AddTarget(p) \/ Prj!MakeTargetDir(p)
  PROVE  ProjectInv'
<1> DEFINE project == proc[p].project
<1>0. /\ proc \in [Procs -> Fitting] /\ proc[p] \in Fitting /\ dirs \subseteq Prj!Dirs
      /\ Distinct(project) /\ project \in Prj!Content /\ project.targets \in Seq(Targets)
      /\ outcome \in [Procs -> Prj!Outcome]
  BY DEF ProjectInv, TypeInv, WorldOK, UniqueInv, Fitting, Slot, Prj!Content
<1>1. CASE Prj!Convert(p)
  <2>1. proc[p].at = "convert" /\ UNCHANGED <<file, commands, overlap>>
    BY <1>1 DEF Prj!Convert, Prj!Asked, Prj!At
  <2>2. CASE (Prj!Ends(p, "aborted") \/ Prj!Ends(p, "failure")) /\ UNCHANGED dirs
    BY <1>0, <2>1, <2>2, EndsKeepsInv DEF Prj!Outcome
  <2>3. ASSUME dirs' = dirs \cup {"common", "tests"},
               proc' = [proc EXCEPT ![p].at = "update",
                                    ![p].project = [@ EXCEPT !.multitarget = TRUE]],
               UNCHANGED outcome
        PROVE  ProjectInv'
    <3> DEFINE content == [project EXCEPT !.multitarget = TRUE]
    <3>1. content \in Prj!Content /\ Distinct(content)
      BY <1>0 DEF Prj!Content, Distinct
    <3>2. Becomes(p, UpdatedSlot(proc[p], "update", content))
      BY <1>0, <2>3 DEF Becomes, UpdatedSlot
    <3>3. dirs' \subseteq Prj!Dirs
      BY <1>0, <2>3 DEF Prj!Dirs
    <3> HIDE DEF content
    <3> QED BY <2>1, <2>3, <3>1, <3>2, <3>3, UpdateKeepsInv DEF Prj!At
  <2> QED BY <1>1, <2>2, <2>3 DEF Prj!Convert
<1>2. CASE Prj!AddTarget(p)
  <2>1. /\ proc[p].at = "update" /\ proc[p].target \in Targets
        /\ UNCHANGED <<file, dirs, commands, overlap>>
    BY <1>0, <1>2 DEF Prj!AddTarget, Prj!At, Fitting, Fits
  <2>2. CASE Prj!Ends(p, "failure") \/ Prj!Ends(p, "crashed")
    BY <1>0, <2>1, <2>2, EndsKeepsInv DEF Prj!Outcome
  <2>3. CASE /\ ~Prj!Contains(project.targets, proc[p].target)
             /\ proc' = [proc EXCEPT
                  ![p].at = "truncate",
                  ![p].project = [@ EXCEPT !.targets = Append(project.targets, proc[p].target)]]
             /\ UNCHANGED outcome
    <3> DEFINE new == Append(project.targets, proc[p].target)
               content == [project EXCEPT !.targets = new]
    <3>1. new \in Seq(Targets) /\ Prj!IsInjective(new)
      BY <1>0, <2>1, <2>3, AppendDistinct DEF Distinct
    <3>2. Becomes(p, UpdatedSlot(proc[p], "truncate", content))
      BY <1>0, <2>3 DEF Becomes, UpdatedSlot
    <3> HIDE DEF new
    <3>3. content \in Prj!Content /\ Distinct(content)
      BY <1>0, <3>1 DEF Prj!Content, Distinct
    <3> HIDE DEF content
    <3> QED BY <1>0, <2>1, <2>3, <3>2, <3>3, UpdateKeepsInv DEF Prj!At
  <2> QED BY <1>2, <2>2, <2>3 DEF Prj!AddTarget
<1>3. CASE Prj!MakeTargetDir(p)
  <2>1. proc[p].target \in Targets /\ UNCHANGED <<file, commands, overlap>>
    BY <1>0, <1>3 DEF Prj!MakeTargetDir, Prj!At, Fitting, Fits
  <2>2. dirs' \subseteq Prj!Dirs /\ (Prj!Ends(p, "success") \/ Prj!Ends(p, "failure"))
    BY <1>0, <1>3, <2>1 DEF Prj!MakeTargetDir, Prj!Dirs
  <2> QED BY <2>1, <2>2, EndsKeepsInv DEF Prj!Outcome
<1> QED BY <1>1, <1>2, <1>3

LEMMA RemoveKeepsInv ==
  ASSUME ProjectInv, NEW p \in Procs, Prj!RemoveTarget(p) \/ Prj!Confirm(p)
  PROVE  ProjectInv'
<1> DEFINE project == proc[p].project
<1>0. /\ proc \in [Procs -> Fitting] /\ proc[p] \in Fitting /\ dirs \subseteq Prj!Dirs
      /\ Distinct(project) /\ project \in Prj!Content /\ project.targets \in Seq(Targets)
  BY DEF ProjectInv, TypeInv, WorldOK, UniqueInv, Fitting, Slot, Prj!Content
<1>1. CASE Prj!RemoveTarget(p)
  <2>1. proc[p].at = "update" /\ UNCHANGED <<file, dirs, commands, overlap>>
    BY <1>1 DEF Prj!RemoveTarget, Prj!At
  <2>2. CASE Prj!Ends(p, "failure")
    BY <1>0, <2>1, <2>2, EndsKeepsInv DEF Prj!Outcome
  <2>3. CASE Prj!Contains(project.targets, proc[p].target)
    <3> DEFINE left == Prj!RemoveFirst(project.targets, proc[p].target)
               content == [project EXCEPT !.targets = left]
               point == IF left = << >> THEN "confirm" ELSE "truncate"
    <3>1. left \in Seq(Targets) /\ Prj!IsInjective(left)
      BY <1>0, <2>3, RemoveDistinct DEF Distinct
    <3>2. Becomes(p, UpdatedSlot(proc[p], point, content)) /\ UNCHANGED outcome
      BY <1>0, <1>1, <2>3 DEF Prj!RemoveTarget, Becomes, UpdatedSlot, Fitting, Slot
    <3>3. point \in {"update", "confirm", "truncate"}
      OBVIOUS
    <3> HIDE DEF left, point
    <3>4. content \in Prj!Content /\ Distinct(content)
      BY <1>0, <3>1 DEF Prj!Content, Distinct
    <3> HIDE DEF content
    <3> QED BY <1>0, <2>1, <3>2, <3>3, <3>4, UpdateKeepsInv DEF Prj!At
  <2> QED BY <1>1, <2>2, <2>3 DEF Prj!RemoveTarget
<1>2. CASE Prj!Confirm(p)
  <2>1. /\ proc[p].at = "confirm" /\ UNCHANGED <<file, dirs, outcome, commands, overlap>>
    BY <1>2 DEF Prj!Confirm, Prj!Asked, Prj!At
  <2>2. CASE Prj!Goto(p, "truncate")
    BY <1>0, <2>1, <2>2, GotoKeepsInv DEF Prj!At, Prj!Point
  <2>3. CASE proc' = [proc EXCEPT ![p].at = "truncate",
                                  ![p].project = [@ EXCEPT !.multitarget = FALSE]]
    <3> DEFINE content == [project EXCEPT !.multitarget = FALSE]
    <3>1. content \in Prj!Content /\ Distinct(content)
      BY <1>0 DEF Prj!Content, Distinct
    <3>2. Becomes(p, UpdatedSlot(proc[p], "truncate", content))
      BY <1>0, <2>3 DEF Becomes, UpdatedSlot
    <3> HIDE DEF content
    <3> QED BY <1>0, <2>1, <3>1, <3>2, UpdateKeepsInv DEF Prj!At
  <2> QED BY <1>2, <2>2, <2>3 DEF Prj!Confirm
<1> QED BY <1>1, <1>2

-----------------------------------------------------------------------------
LEMMA ProjectStep == ASSUME Prj!ConstantsOK PROVE ProjectInv /\ [Prj!Next]_(Prj!vars) => ProjectInv'
<1> SUFFICES ASSUME ProjectInv, [Prj!Next]_(Prj!vars) PROVE ProjectInv'
  OBVIOUS
<1>1. ASSUME UNCHANGED Prj!vars PROVE ProjectInv'
  BY <1>1 DEF Prj!vars, ProjectInv, TypeInv, WorldOK, UniqueInv, Prj!TargetsUnique
<1>2. CASE Prj!Start
  BY <1>2, StartKeepsInv DEF Prj!Start
<1>3. ASSUME NEW p \in Procs, Prj!Step(p) PROVE ProjectInv'
  <2>1. CASE Prj!AskAgain(p)
    BY <2>1, PromptKeepsInv DEF Prj!AskAgain
  <2> QED BY <1>3, <2>1, InitKeepsInv, ParseKeepsInv, TruncateKeepsInv, WriteKeepsInv,
             AddKeepsInv, RemoveKeepsInv DEF Prj!Step
<1>4. ASSUME NEW p \in Procs, Prj!Kill(p) PROVE ProjectInv'
  BY <1>4, EndsKeepsInv DEF Prj!Kill, Prj!Outcome, ProjectInv, TypeInv, WorldOK
<1>5. ASSUME NEW p \in Procs, NEW answer \in Prj!Answer, Prj!Reply(p, answer)
      PROVE  ProjectInv'
  BY <1>5, PromptKeepsInv DEF Prj!Reply
<1>6. CASE Prj!DeleteFile
  <2>1. file' \in Prj!File /\ file'.state # "ok" /\ UNCHANGED <<dirs, proc, outcome, commands, overlap>>
    BY <1>6 DEF Prj!DeleteFile, Prj!File
  <2>2. WorldOK'
    BY <2>1 DEF ProjectInv, TypeInv, WorldOK
  <2> QED BY <2>1, <2>2 DEF ProjectInv, TypeInv, UniqueInv, Prj!TargetsUnique
<1>7. CASE Prj!Terminated
  BY <1>1, <1>7 DEF Prj!Terminated
<1> QED BY <1>1, <1>2, <1>3, <1>4, <1>5, <1>6, <1>7 DEF Prj!Next

LEMMA ProjectInvariant == ASSUME Prj!ConstantsOK PROVE Prj!Spec => []ProjectInv
<1>1. Prj!Init => ProjectInv
  BY ProjectInit
<1>2. ProjectInv /\ [Prj!Next]_(Prj!vars) => ProjectInv'
  BY ProjectStep
<1> QED BY <1>1, <1>2, PTL DEF Prj!Spec

\* The project file and every command stay in their types, and only a
\* multitarget project has targets in its file (project_parser_save).
THEOREM ProjectTypeCorrect == ASSUME Prj!ConstantsOK PROVE Prj!Spec => []Prj!TypeOK
<1>1. ProjectInv => Prj!TypeOK
  BY TypeInvMeaning DEF ProjectInv
<1> QED BY <1>1, ProjectInvariant, PTL

\* No target is in the project file twice, although a command changes a copy it
\* read before (ltf_target.c), any number of commands run at the same time,
\* and each may be killed, also in the middle of a save.
THEOREM TargetsStayUnique == ASSUME Prj!ConstantsOK PROVE Prj!Spec => []TargetsUnique
<1>1. ProjectInv => TargetsUnique
  BY DEF ProjectInv, UniqueInv, TargetsUnique
<1> QED BY <1>1, ProjectInvariant, PTL

-----------------------------------------------------------------------------
(* What a command has done when it comes to a point.                       *)

MadeDirs(s, ds) ==
  /\ s.made >= 1 => "project" \in ds
  /\ s.made >= 2 => "lib" \in ds
  /\ s.made >= 3 => "tests" \in ds
  /\ s.made >= 4 => "common" \in ds

\* A save is of a copy that has the change, and of a project whose directories
\* are there.
Prepared(s, ds) ==
  /\ s.at \in {"init_check", "init_dirs", "init_files"} => s.command = "init"
  /\ s.at = "confirm" => s.command = "remove"
  /\ s.at = "init_dirs" => MadeDirs(s, ds)
  /\ (s.command = "init" /\ s.at \in {"truncate", "write", "init_files"}) =>
       {"project", "lib", "tests"} \subseteq ds
  /\ s.project.multitarget => s.at \in {"idle", "init_check", "init_dirs"} \/ "common" \in ds
  /\ (s.command = "add" /\ s.at \in {"update", "truncate", "write", "mkdir"}) =>
       s.project.multitarget
  /\ (s.command = "add" /\ s.at \in {"truncate", "write"}) =>
       Prj!Contains(s.project.targets, s.target)
  /\ (s.command = "remove" /\ s.at \in {"confirm", "truncate", "write"}) =>
       ~Prj!Contains(s.project.targets, s.target)

\* What a command that goes on after its save finds in the file, if no other runs.
Saved(s, f) ==
  /\ s.at \in {"init_files", "mkdir"} => f.state = "ok"
  /\ s.at = "mkdir" => Prj!Contains(f.content.targets, s.target)

\* Without an overlap one command runs at most.
Single == ~overlap => \A p, q \in Procs : Prj!At(p, "idle") \/ Prj!At(q, "idle") \/ p = q

ReportInv ==
  /\ (file.state = "ok" /\ file.content.multitarget) => "common" \in dirs
  /\ \A p \in Procs : Prepared(proc[p], dirs)
  /\ ~overlap => \A p \in Procs : Saved(proc[p], file)
  /\ Single

LEMMA ReportInit == Prj!Init => ReportInv
<1> SUFFICES ASSUME Prj!Init PROVE ReportInv
  OBVIOUS
<1>1. file.state # "ok" /\ \A p \in Procs : proc[p] = Prj!Idle
  BY DEF Prj!Init
<1> QED BY <1>1 DEF ReportInv, Prepared, Saved, Single, Prj!At, Prj!Idle, Prj!Empty

\* A step of one command that is running, or starts or ends here.
LEMMA OthersStand ==
  ASSUME ReportInv, NEW p \in Procs, \A q \in Procs \ {p} : proc'[q] = proc[q],
         dirs \subseteq dirs', Prepared(proc[p], dirs)' , ~overlap' => ~overlap,
         \/ ~Prj!At(p, "idle") \/ Prj!At(p, "idle")'
         \/ ~overlap' => \A q \in Procs : Prj!At(q, "idle"),
         (file'.state = "ok" /\ file'.content.multitarget) => "common" \in dirs',
         ~overlap' => Saved(proc[p], file)' /\ (Prj!At(p, "idle") => file' = file)
  PROVE  ReportInv'
<1>1. ASSUME NEW q \in Procs PROVE Prepared(proc[q], dirs)'
  <2>1. CASE q = p
    BY <2>1
  <2>2. CASE q # p
    <3>1. proc'[q] = proc[q] /\ Prepared(proc[q], dirs)
      BY <2>2 DEF ReportInv
    <3> QED BY <3>1 DEF Prepared, MadeDirs
  <2> QED BY <2>1, <2>2
<1>2. ASSUME ~overlap', NEW q \in Procs, q # p PROVE Saved(proc[q], file)'
  <2>1. ~overlap /\ proc'[q] = proc[q] /\ Saved(proc[q], file)
    BY <1>2 DEF ReportInv
  <2>2. CASE Prj!At(p, "idle")
    <3>1. file' = file
      BY <1>2, <2>2
    <3> QED BY <2>1, <3>1 DEF Saved
  <2>3. CASE ~Prj!At(p, "idle")
    <3>1. Prj!At(q, "idle")
      BY <1>2, <2>1, <2>3 DEF ReportInv, Single
    <3> QED BY <2>1, <3>1 DEF Saved, Prj!At
  <2> QED BY <2>2, <2>3
<1>3. Single'
  BY DEF ReportInv, Single, Prj!At
<1> QED BY <1>1, <1>2, <1>3 DEF ReportInv

LEMMA ReportStarts ==
  ASSUME ProjectInv, ReportInv, NEW p \in Procs, NEW command \in {"init", "add", "remove"},
         NEW target, NEW multitarget \in BOOLEAN, command # "init" => ~multitarget,
         Prj!StartCommand(p, command, target, multitarget)
  PROVE  ReportInv'
<1> DEFINE s == [Prj!Idle EXCEPT !.at = IF command = "init" THEN "init_check" ELSE "parse",
                             !.command = command, !.target = target,
                             !.project = [Prj!Empty EXCEPT !.multitarget = multitarget]]
<1>1. proc' = [proc EXCEPT ![p] = s] /\ proc \in [Procs -> Fitting]
  BY DEF Prj!StartCommand, ProjectInv, TypeInv
<1>2. /\ s.at = IF command = "init" THEN "init_check" ELSE "parse"
      /\ s.command = command /\ s.project.multitarget = multitarget
  BY DEF Prj!Idle, Prj!Empty
<1> HIDE DEF s
<1>3. proc'[p] = s /\ \A q \in Procs \ {p} : proc'[q] = proc[q]
  BY <1>1
<1>4. Prj!At(p, "idle") /\ UNCHANGED <<file, dirs>>
      /\ overlap' = (overlap \/ \E q \in Procs : ~Prj!At(q, "idle"))
  BY DEF Prj!StartCommand
<1>5. Prepared(s, dirs)
  BY <1>2 DEF Prepared
<1>6. Saved(s, file)
  BY <1>2 DEF Saved
<1> QED BY <1>3, <1>4, <1>5, <1>6, OthersStand DEF ReportInv

\* A command that ends.
LEMMA ReportEnds ==
  ASSUME ProjectInv, ReportInv, NEW p \in Procs, NEW how, Prj!Ends(p, how), UNCHANGED overlap,
         dirs \subseteq dirs', ~Prj!At(p, "idle"),
         (file'.state = "ok" /\ file'.content.multitarget) => "common" \in dirs'
  PROVE  ReportInv'
<1>1. /\ proc' = [proc EXCEPT ![p].at = "idle"] /\ proc \in [Procs -> Fitting]
      /\ proc[p] \in Slot
  BY DEF Prj!Ends, ProjectInv, TypeInv, Fitting
<1>2. proc'[p].at = "idle" /\ \A q \in Procs \ {p} : proc'[q] = proc[q]
  BY <1>1 DEF Slot
<1>3. Prepared(proc'[p], dirs') /\ Saved(proc'[p], file')
  BY <1>2 DEF Prepared, Saved
<1> QED BY <1>2, <1>3, OthersStand DEF ReportInv, Prj!At

\* A step to another point.
LEMMA ReportGoesOn ==
  ASSUME ProjectInv, ReportInv, NEW p \in Procs, NEW s, proc' = [proc EXCEPT ![p] = s],
         UNCHANGED overlap, dirs \subseteq dirs', ~Prj!At(p, "idle"), Prepared(s, dirs'),
         ~overlap => Saved(s, file'),
         (file'.state = "ok" /\ file'.content.multitarget) => "common" \in dirs'
  PROVE  ReportInv'
<1>1. proc'[p] = s /\ \A q \in Procs \ {p} : proc'[q] = proc[q]
  BY DEF ProjectInv, TypeInv
<1> QED BY <1>1, OthersStand DEF ReportInv

\* The file as it is.
LEMMA FileAsIs ==
  ASSUME ReportInv, UNCHANGED file, dirs \subseteq dirs'
  PROVE  (file'.state = "ok" /\ file'.content.multitarget) => "common" \in dirs'
BY DEF ReportInv

LEMMA ReportInitSteps ==
  ASSUME ProjectInv, ReportInv, NEW p \in Procs, Prj!CheckInit(p) \/ Prj!MakeInitDir(p) \/ Prj!FinishInit(p)
  PROVE  ReportInv'
<1>0. /\ proc \in [Procs -> Fitting] /\ proc[p] \in Slot /\ Fits(proc[p]) /\ UNCHANGED <<file, overlap>>
      /\ Prepared(proc[p], dirs) /\ ~Prj!At(p, "idle")
  BY DEF ProjectInv, TypeInv, Fitting, Prj!CheckInit, Prj!MakeInitDir,
       Prj!FinishInit, ReportInv, Prj!At
<1>1. CASE Prj!CheckInit(p)
  <2>1. dirs' = dirs /\ proc[p].at = "init_check"
    BY <1>1 DEF Prj!CheckInit, Prj!At
  <2>2. CASE Prj!Ends(p, "refused")
    BY <1>0, <2>1, <2>2, ReportEnds, FileAsIs
  <2>3. CASE Prj!Goto(p, "init_dirs")
    <3> DEFINE s == [proc[p] EXCEPT !.at = "init_dirs"]
    <3>1. proc' = [proc EXCEPT ![p] = s]
      BY <2>3 DEF Prj!Goto
    <3>2. s.at = "init_dirs" /\ s.command = "init" /\ s.made = 0
      BY <1>0, <2>1 DEF Slot, Prepared, Fits
    <3> HIDE DEF s
    <3>3. Prepared(s, dirs) /\ Saved(s, file)
      BY <3>2 DEF Prepared, MadeDirs, Saved
    <3> QED BY <1>0, <2>1, <3>1, <3>3, ReportGoesOn, FileAsIs
  <2> QED BY <1>1, <2>2, <2>3 DEF Prj!CheckInit
<1>2. CASE Prj!MakeInitDir(p)
  <2>1. proc[p].at = "init_dirs" /\ dirs \subseteq dirs' /\ proc[p].command = "init"
        /\ MadeDirs(proc[p], dirs)
    BY <1>0, <1>2 DEF Prj!MakeInitDir, Prj!At, Prepared
  <2>2. CASE Prj!Ends(p, "failure")
    BY <1>0, <2>1, <2>2, ReportEnds, FileAsIs
  <2>3. CASE /\ dirs' = dirs \cup {Prj!InitDirs(p)[proc[p].made + 1]}
             /\ proc' = [proc EXCEPT ![p].made = proc[p].made + 1,
                  ![p].at = IF proc[p].made + 1 = Len(Prj!InitDirs(p)) THEN "truncate" ELSE @]
    <3> DEFINE made == proc[p].made + 1
               multitarget == proc[p].project.multitarget
               s == [proc[p] EXCEPT !.made = made,
                                    !.at = IF made = Len(Prj!InitDirs(p)) THEN "truncate" ELSE @]
    <3>1. proc' = [proc EXCEPT ![p] = s]
      BY <1>0, <2>3
    <3>2. /\ Len(Prj!InitDirs(p)) = IF multitarget THEN 4 ELSE 3
          /\ multitarget \in BOOLEAN /\ proc[p].made \in 0 .. 3
          /\ proc[p].made < IF multitarget THEN 4 ELSE 3
      BY <1>0, <2>1, InitDirsProperties DEF Fits, Slot, Prj!Content
    <3>3. /\ Prj!InitDirs(p)[1] = "project" /\ Prj!InitDirs(p)[2] = "lib" /\ Prj!InitDirs(p)[3] = "tests"
          /\ multitarget => Prj!InitDirs(p)[4] = "common"
      BY <3>2 DEF Prj!InitDirs, Prj!Base
    <3>4. dirs' = dirs \cup {Prj!InitDirs(p)[made]}
      BY <2>3
    <3>5. /\ s.made = made /\ s.command = "init" /\ s.project = proc[p].project
          /\ s.at = IF made = Len(Prj!InitDirs(p)) THEN "truncate" ELSE "init_dirs"
      BY <1>0, <2>1 DEF Slot
    <3>6. made \in 1 .. 4 /\ proc[p].made = made - 1
      BY <3>2
    <3> HIDE DEF s, made
    <3>7. MadeDirs(s, dirs')
      <4>1. CASE made = 1
        BY <3>3, <3>4, <3>5, <4>1 DEF MadeDirs
      <4>2. CASE made = 2
        BY <2>1, <3>3, <3>4, <3>5, <3>6, <4>2 DEF MadeDirs
      <4>3. CASE made = 3
        BY <2>1, <3>3, <3>4, <3>5, <3>6, <4>3 DEF MadeDirs
      <4>4. CASE made = 4
        <5>1. multitarget
          BY <3>2, <3>6, <4>4
        <5> QED BY <2>1, <3>3, <3>4, <3>5, <3>6, <4>4, <5>1 DEF MadeDirs
      <4> QED BY <3>6, <4>1, <4>2, <4>3, <4>4
    <3>8. Prepared(s, dirs')
      BY <3>2, <3>5, <3>6, <3>7 DEF Prepared, MadeDirs
    <3>9. Saved(s, file')
      BY <3>5 DEF Saved
    <3> QED BY <1>0, <2>1, <3>1, <3>8, <3>9, ReportGoesOn, FileAsIs
  <2> QED BY <1>2, <2>2, <2>3 DEF Prj!MakeInitDir
<1>3. CASE Prj!FinishInit(p)
  BY <1>0, <1>3, ReportEnds, FileAsIs DEF Prj!FinishInit
<1> QED BY <1>1, <1>2, <1>3

LEMMA ReportParse ==
  ASSUME ProjectInv, ReportInv, NEW p \in Procs, Prj!Parse(p)
  PROVE  ReportInv'
<1>0. /\ proc \in [Procs -> Fitting] /\ proc[p] \in Slot /\ Fits(proc[p])
      /\ proc[p].at = "parse" /\ ~Prj!At(p, "idle") /\ UNCHANGED <<file, dirs, overlap>>
  BY DEF ProjectInv, TypeInv, Fitting, Prj!Parse, Prj!At
<1>1. CASE Prj!Ends(p, "failure")
  BY <1>0, <1>1, ReportEnds, FileAsIs
<1>2. ASSUME file.state = "ok", Prj!AfterParse(p, file.content) # "failed", NEW garbage,
             proc' = [proc EXCEPT ![p].at = Prj!AfterParse(p, file.content),
                                  ![p].project = file.content, ![p].garbage = garbage]
      PROVE  ReportInv'
  <2> DEFINE point == Prj!AfterParse(p, file.content)
             s == [proc[p] EXCEPT !.at = point, !.project = file.content, !.garbage = garbage]
  <2>1. /\ point \in {"convert", "update"}
        /\ (point = "update" /\ proc[p].command = "add") => file.content.multitarget
    <3>1. file.content.multitarget \in BOOLEAN
      BY <1>2 DEF ProjectInv, TypeInv, WorldOK, Prj!File, Prj!Content
    <3> QED BY <1>2, <3>1 DEF Prj!AfterParse
  <2>2. proc' = [proc EXCEPT ![p] = s]
    BY <1>0, <1>2
  <2> HIDE DEF point
  <2>3. s.at = point /\ s.project = file.content /\ s.command = proc[p].command
    BY <1>0 DEF Slot
  <2> HIDE DEF s
  <2>4. Prepared(s, dirs)
    BY <1>2, <2>1, <2>3 DEF Prepared, ReportInv
  <2>5. Saved(s, file)
    BY <2>1, <2>3 DEF Saved
  <2> QED BY <1>0, <2>2, <2>4, <2>5, ReportGoesOn, FileAsIs
<1> QED BY <1>1, <1>2 DEF Prj!Parse

LEMMA ReportSaves ==
  ASSUME ProjectInv, ReportInv, NEW p \in Procs, Prj!Truncate(p) \/ Prj!Write(p)
  PROVE  ReportInv'
<1>0. /\ proc \in [Procs -> Fitting] /\ proc[p] \in Slot /\ Fits(proc[p])
      /\ Prepared(proc[p], dirs) /\ UNCHANGED <<dirs, overlap>>
      /\ proc[p].at \in {"truncate", "write"} /\ ~Prj!At(p, "idle")
  BY DEF ProjectInv, TypeInv, Fitting, Prj!Truncate, Prj!Write, Prj!At, ReportInv
<1>1. ASSUME NEW point, point \in {"write", "init_files", "mkdir"}, Prj!Goto(p, point),
             point = "init_files" => proc[p].command = "init",
             point # "write" => file'.state = "ok",
             point = "mkdir" => Prj!Contains(file'.content.targets, proc[p].target),
             (file'.state = "ok" /\ file'.content.multitarget) => "common" \in dirs
      PROVE  ReportInv'
  <2> DEFINE s == [proc[p] EXCEPT !.at = point]
  <2>1. proc' = [proc EXCEPT ![p] = s]
    BY <1>1 DEF Prj!Goto
  <2>2. /\ s.at = point /\ s.command = proc[p].command /\ s.target = proc[p].target
        /\ s.project = proc[p].project
    BY <1>0 DEF Slot
  <2> HIDE DEF s
  <2>3. Prepared(s, dirs)
    BY <1>0, <1>1, <2>2 DEF Prepared
  <2>4. Saved(s, file')
    BY <1>1, <2>2 DEF Saved
  <2> QED BY <1>0, <1>1, <2>1, <2>3, <2>4, ReportGoesOn
<1>2. CASE Prj!Truncate(p)
  BY <1>1, <1>2 DEF Prj!Truncate
<1>3. CASE Prj!Write(p)
  <2>0. proc[p].at = "write"
    BY <1>3 DEF Prj!Write, Prj!At
  <2>1. CASE Prj!Ends(p, "failure") /\ UNCHANGED file
    BY <1>0, <2>1, ReportEnds, FileAsIs
  <2>2. CASE file' = [state |-> "ok", content |-> IF proc[p].project.multitarget
                                                  THEN proc[p].project ELSE Prj!Empty]
    <3>1. /\ file'.state = "ok"
          /\ file'.content.multitarget => proc[p].project.multitarget
          /\ proc[p].project.multitarget => file'.content = proc[p].project
      BY <2>2 DEF Prj!Empty
    <3>2. file'.content.multitarget => "common" \in dirs
      BY <1>0, <3>1 DEF Prepared
    <3>3. CASE Prj!Ends(p, "success")
      BY <1>0, <3>2, <3>3, ReportEnds
    <3>4. CASE proc[p].command # "remove" /\ Prj!Goto(p, Prj!AfterSave[proc[p].command])
      <4> DEFINE point == Prj!AfterSave[proc[p].command]
      <4>1. \/ point = "init_files" /\ proc[p].command = "init"
            \/ point = "mkdir" /\ proc[p].command = "add"
        BY <1>0, <3>4 DEF Prj!AfterSave, Slot, Fits, Prj!At
      <4>2. point = "mkdir" => Prj!Contains(file'.content.targets, proc[p].target)
        BY <1>0, <2>0, <3>1, <4>1 DEF Prepared
      <4>3. Prj!Goto(p, point)
        BY <3>4
      <4> HIDE DEF point
      <4> QED BY <1>1, <3>1, <3>2, <4>1, <4>2, <4>3
    <3> QED BY <1>3, <2>1, <3>3, <3>4 DEF Prj!Write
  <2> QED BY <1>3, <2>1, <2>2 DEF Prj!Write
<1> QED BY <1>2, <1>3

\* The prompts.
LEMMA ReportPrompts ==
  ASSUME ProjectInv, ReportInv, NEW p \in Procs, NEW answer,
         proc' = [proc EXCEPT ![p].answer = answer], UNCHANGED <<file, dirs, overlap>>
  PROVE  ReportInv'
<1> DEFINE s == [proc[p] EXCEPT !.answer = answer]
<1>0. proc \in [Procs -> Fitting] /\ proc[p] \in Slot /\ Prepared(proc[p], dirs)
      /\ (~overlap => Saved(proc[p], file))
  BY DEF ProjectInv, TypeInv, Fitting, ReportInv
<1>1. proc'[p] = s /\ \A q \in Procs \ {p} : proc'[q] = proc[q]
  BY <1>0
<1>2. /\ s.at = proc[p].at /\ s.command = proc[p].command /\ s.target = proc[p].target
      /\ s.project = proc[p].project /\ s.made = proc[p].made
  BY <1>0 DEF Slot
<1> HIDE DEF s
<1>3. Prepared(s, dirs) /\ (~overlap => Saved(s, file))
  BY <1>0, <1>2 DEF Prepared, MadeDirs, Saved
<1>4. ~Prj!At(p, "idle") \/ Prj!At(p, "idle")'
  BY <1>1, <1>2 DEF Prj!At
<1> QED BY <1>1, <1>3, <1>4, OthersStand, FileAsIs

LEMMA ReportAdds ==
  ASSUME ProjectInv, ReportInv, NEW p \in Procs, Prj!Convert(p) \/ Prj!AddTarget(p) \/ Prj!MakeTargetDir(p)
  PROVE  ReportInv'
<1>0. /\ proc \in [Procs -> Fitting] /\ proc[p] \in Slot /\ Fits(proc[p])
      /\ proc[p].project \in Prj!Content
      /\ Prepared(proc[p], dirs) /\ UNCHANGED <<file, overlap>> /\ dirs \subseteq dirs'
      /\ ~Prj!At(p, "idle") /\ proc[p].command = "add"
  BY DEF ProjectInv, TypeInv, Fitting, Slot, Fits, Prj!Convert, Prj!AddTarget,
       Prj!MakeTargetDir, Prj!At, Prj!Asked,
         ReportInv
<1>1. ASSUME NEW point, point \in {"update", "truncate"}, NEW content,
             content.multitarget, "common" \in dirs',
             point = "truncate" => Prj!Contains(content.targets, proc[p].target),
             proc' = [proc EXCEPT ![p].at = point, ![p].project = content]
      PROVE  ReportInv'
  <2> DEFINE s == [proc[p] EXCEPT !.at = point, !.project = content]
  <2>1. proc' = [proc EXCEPT ![p] = s]
    BY <1>0, <1>1
  <2>2. /\ s.at = point /\ s.command = "add" /\ s.target = proc[p].target
        /\ s.project = content
    BY <1>0 DEF Slot
  <2> HIDE DEF s
  <2>3. Prepared(s, dirs')
    BY <1>1, <2>2 DEF Prepared
  <2>4. Saved(s, file')
    BY <1>1, <2>2 DEF Saved
  <2> QED BY <1>0, <2>1, <2>3, <2>4, ReportGoesOn, FileAsIs
<1>2. CASE Prj!Convert(p)
  <2>1. CASE Prj!Ends(p, "aborted") \/ Prj!Ends(p, "failure")
    BY <1>0, <2>1, ReportEnds, FileAsIs
  <2>2. CASE /\ dirs' = dirs \cup {"common", "tests"}
             /\ proc' = [proc EXCEPT ![p].at = "update",
                                     ![p].project = [@ EXCEPT !.multitarget = TRUE]]
    <3> DEFINE content == [proc[p].project EXCEPT !.multitarget = TRUE]
    <3>1. content.multitarget
      BY <1>0 DEF Prj!Content
    <3>2. proc' = [proc EXCEPT ![p].at = "update", ![p].project = content]
      BY <1>0, <2>2
    <3> HIDE DEF content
    <3> QED BY <1>1, <2>2, <3>1, <3>2
  <2> QED BY <1>2, <2>1, <2>2 DEF Prj!Convert
<1>3. CASE Prj!AddTarget(p)
  <2>1. proc[p].project.multitarget /\ "common" \in dirs'
    BY <1>0, <1>3 DEF Prj!AddTarget, Prj!At, Prepared
  <2>2. CASE Prj!Ends(p, "failure") \/ Prj!Ends(p, "crashed")
    BY <1>0, <2>2, ReportEnds, FileAsIs
  <2>3. CASE proc' = [proc EXCEPT ![p].at = "truncate",
                        ![p].project = [@ EXCEPT !.targets =
                                          Append(proc[p].project.targets, proc[p].target)]]
    <3> DEFINE new == Append(proc[p].project.targets, proc[p].target)
               content == [proc[p].project EXCEPT !.targets = new]
    <3>1. content.multitarget /\ content.targets = new
      BY <1>0, <2>1 DEF Prj!Content
    <3>2. Prj!Contains(new, proc[p].target)
      <4>1. /\ proc[p].project.targets \in Seq(Targets) /\ proc[p].target \in Targets
        BY <1>0 DEF Prj!Content, Fits
      <4>2. /\ Len(new) = Len(proc[p].project.targets) + 1
            /\ Len(proc[p].project.targets) \in Nat
            /\ new[Len(proc[p].project.targets) + 1] = proc[p].target
        BY <4>1, AppendProperties, LenProperties
      <4> HIDE DEF new
      <4> QED BY <4>2 DEF Prj!Contains
    <3>3. proc' = [proc EXCEPT ![p].at = "truncate", ![p].project = content]
      BY <1>0, <2>3
    <3> HIDE DEF content, new
    <3> QED BY <1>1, <2>1, <3>1, <3>2, <3>3
  <2> QED BY <1>3, <2>2, <2>3 DEF Prj!AddTarget
<1>4. CASE Prj!MakeTargetDir(p)
  BY <1>0, <1>4, ReportEnds, FileAsIs DEF Prj!MakeTargetDir
<1> QED BY <1>2, <1>3, <1>4

LEMMA ReportRemoves ==
  ASSUME ProjectInv, ReportInv, NEW p \in Procs, Prj!RemoveTarget(p) \/ Prj!Confirm(p)
  PROVE  ReportInv'
<1>0. /\ proc \in [Procs -> Fitting] /\ proc[p] \in Slot /\ Fits(proc[p])
      /\ proc[p].project \in Prj!Content /\ Distinct(proc[p].project)
      /\ Prepared(proc[p], dirs) /\ UNCHANGED <<file, overlap, dirs>>
      /\ ~Prj!At(p, "idle") /\ proc[p].command = "remove"
      /\ proc[p].at \in {"update", "confirm"}
  BY DEF ProjectInv, TypeInv, UniqueInv, Fitting, Slot, Prj!RemoveTarget,
       Prj!Confirm, Prj!At, Prj!Asked,
         ReportInv, Prepared
<1>1. ASSUME NEW point, point \in {"confirm", "truncate"}, NEW content,
             content.multitarget => proc[p].project.multitarget,
             ~Prj!Contains(content.targets, proc[p].target),
             proc' = [proc EXCEPT ![p].at = point, ![p].project = content]
      PROVE  ReportInv'
  <2> DEFINE s == [proc[p] EXCEPT !.at = point, !.project = content]
  <2>1. proc' = [proc EXCEPT ![p] = s]
    BY <1>0, <1>1
  <2>2. /\ s.at = point /\ s.command = "remove" /\ s.target = proc[p].target
        /\ s.project = content
    BY <1>0 DEF Slot
  <2> HIDE DEF s
  <2>3. content.multitarget => "common" \in dirs
    BY <1>0, <1>1 DEF Prepared
  <2>4. Prepared(s, dirs')
    BY <1>0, <1>1, <2>2, <2>3 DEF Prepared
  <2>5. Saved(s, file')
    BY <1>1, <2>2 DEF Saved
  <2> QED BY <1>0, <2>1, <2>4, <2>5, ReportGoesOn, FileAsIs
<1>2. CASE Prj!RemoveTarget(p)
  <2>1. CASE Prj!Ends(p, "failure")
    BY <1>0, <2>1, ReportEnds, FileAsIs
  <2>2. CASE Prj!Contains(proc[p].project.targets, proc[p].target)
    <3> DEFINE left == Prj!RemoveFirst(proc[p].project.targets, proc[p].target)
               content == [proc[p].project EXCEPT !.targets = left]
               point == IF left = << >> THEN "confirm" ELSE "truncate"
    <3>1. ~Prj!Contains(left, proc[p].target)
      BY <1>0, <2>2, RemoveDistinct DEF Distinct, Prj!Content
    <3>2. proc' = [proc EXCEPT ![p].at = point, ![p].project = content]
      BY <1>0, <1>2, <2>2 DEF Prj!RemoveTarget
    <3>3. point \in {"confirm", "truncate"}
      OBVIOUS
    <3> HIDE DEF left, point
    <3>4. content.multitarget = proc[p].project.multitarget /\ content.targets = left
      BY <1>0 DEF Prj!Content
    <3> HIDE DEF content
    <3> QED BY <1>1, <3>1, <3>2, <3>3, <3>4
  <2> QED BY <1>2, <2>1, <2>2 DEF Prj!RemoveTarget
<1>3. CASE Prj!Confirm(p)
  <2>1. ~Prj!Contains(proc[p].project.targets, proc[p].target)
    BY <1>0, <1>3 DEF Prj!Confirm, Prj!Asked, Prj!At, Prepared
  <2>2. CASE Prj!Goto(p, "truncate")
    <3>1. proc' = [proc EXCEPT ![p].at = "truncate", ![p].project = proc[p].project]
      BY <1>0, <2>2 DEF Prj!Goto, Slot
    <3> QED BY <1>1, <2>1, <3>1
  <2>3. CASE proc' = [proc EXCEPT ![p].at = "truncate",
                                  ![p].project = [@ EXCEPT !.multitarget = FALSE]]
    <3> DEFINE content == [proc[p].project EXCEPT !.multitarget = FALSE]
    <3>1. ~content.multitarget /\ content.targets = proc[p].project.targets
      BY <1>0 DEF Prj!Content
    <3>2. proc' = [proc EXCEPT ![p].at = "truncate", ![p].project = content]
      BY <1>0, <2>3
    <3> HIDE DEF content
    <3> QED BY <1>1, <2>1, <3>1, <3>2
  <2> QED BY <1>3, <2>2, <2>3 DEF Prj!Confirm
<1> QED BY <1>2, <1>3

LEMMA ReportStep ==
  ASSUME ProjectInv, ReportInv, [Prj!Next]_(Prj!vars) PROVE ReportInv'
<1>1. ASSUME UNCHANGED Prj!vars PROVE ReportInv'
  BY <1>1 DEF Prj!vars, ReportInv, Single, Prj!At
<1>2. CASE Prj!Start
  BY <1>2, ReportStarts DEF Prj!Start
<1>3. ASSUME NEW p \in Procs, Prj!Step(p) PROVE ReportInv'
  <2>1. CASE Prj!AskAgain(p)
    BY <2>1, ReportPrompts DEF Prj!AskAgain
  <2> QED BY <1>3, <2>1, ReportInitSteps, ReportParse, ReportSaves, ReportAdds,
       ReportRemoves DEF Prj!Step
<1>4. ASSUME NEW p \in Procs, Prj!Kill(p) PROVE ReportInv'
  BY <1>4, ReportEnds, FileAsIs DEF Prj!Kill
<1>5. ASSUME NEW p \in Procs, NEW answer, Prj!Reply(p, answer) PROVE ReportInv'
  BY <1>5, ReportPrompts DEF Prj!Reply
<1>6. CASE Prj!DeleteFile
  <2>1. file'.state = "absent" /\ UNCHANGED <<dirs, proc, overlap>> /\ \A p \in Procs : Prj!At(p, "idle")
    BY <1>6 DEF Prj!DeleteFile
  <2>2. \A p \in Procs : Saved(proc'[p], file')
    BY <2>1 DEF Saved, Prj!At
  <2> QED BY <2>1, <2>2 DEF ReportInv, Single, Prj!At
<1>7. CASE Prj!Terminated
  BY <1>1, <1>7 DEF Prj!Terminated
<1> QED BY <1>1, <1>2, <1>3, <1>4, <1>5, <1>6, <1>7 DEF Prj!Next

\* A command that succeeds has done what it was for.
LEMMA SuccessHonest ==
  ASSUME ProjectInv, ReportInv, Prj!Next, NEW p \in Procs, ~overlap, Prj!JustSucceeded(p)
  PROVE  (file.state = "ok" /\ Prj!Reported(p))'
<1>0. /\ proc \in [Procs -> Fitting] /\ proc[p] \in Slot /\ Fits(proc[p])
      /\ Prepared(proc[p], dirs) /\ Saved(proc[p], file)
      /\ outcome \in [Procs -> Prj!Outcome]
  BY DEF ProjectInv, TypeInv, WorldOK, Fitting, ReportInv
<1>1. ASSUME Prj!Ends(p, "success")
      PROVE  proc'[p].command = proc[p].command /\ proc'[p].target = proc[p].target
  BY <1>0, <1>1 DEF Prj!Ends, Slot
<1>2. CASE Prj!FinishInit(p)
  <2>1. proc[p].at = "init_files" /\ Prj!Ends(p, "success") /\ UNCHANGED <<file, dirs>>
    BY <1>0, <1>2 DEF Prj!FinishInit, Prj!At, Prj!Ends, Prj!JustSucceeded
  <2> QED BY <1>0, <1>1, <2>1 DEF Prepared, Saved, Prj!Reported
<1>3. CASE Prj!Write(p)
  <2>1. /\ proc[p].at = "write" /\ Prj!Ends(p, "success") /\ proc[p].command = "remove"
        /\ file' = [state |-> "ok",
                    content |-> IF proc[p].project.multitarget THEN proc[p].project ELSE Prj!Empty]
    BY <1>0, <1>3 DEF Prj!Write, Prj!At, Prj!Ends, Prj!JustSucceeded
  <2>2. ~Prj!Contains(proc[p].project.targets, proc[p].target) /\ ~Prj!Contains(Prj!Empty.targets, proc[p].target)
    BY <1>0, <2>1 DEF Prepared, Prj!Contains, Prj!Empty
  <2> QED BY <1>1, <2>1, <2>2 DEF Prj!Reported
<1>4. CASE Prj!MakeTargetDir(p)
  <2>1. proc[p].at = "mkdir" /\ Prj!Ends(p, "success") /\ UNCHANGED file
        /\ dirs' = dirs \cup {"tests", proc[p].target}
    BY <1>0, <1>4 DEF Prj!MakeTargetDir, Prj!At, Prj!Ends, Prj!JustSucceeded
  <2>2. proc[p].command = "add" /\ "common" \in dirs
    BY <1>0, <2>1 DEF Fits, Prepared
  <2> QED BY <1>0, <1>1, <2>1, <2>2 DEF Saved, Prj!Reported
<1>5. CASE ~Prj!FinishInit(p) /\ ~Prj!Write(p) /\ ~Prj!MakeTargetDir(p)
  <2>1. ASSUME NEW q \in Procs, NEW how, how # "success" \/ q # p,
               outcome' = [outcome EXCEPT ![q] = how]
        PROVE  outcome'[p] # "success" \/ outcome'[p] = outcome[p]
    BY <1>0, <2>1
  <2>2. outcome' # outcome /\ outcome[p] # "success" /\ outcome'[p] = "success"
    BY DEF Prj!JustSucceeded
  <2>3. ASSUME NEW q \in Procs, Prj!Step(q) PROVE FALSE
    <3>1. ASSUME NEW how, Prj!Ends(q, how), how # "success" \/ q # p PROVE FALSE
      BY <2>1, <2>2, <3>1 DEF Prj!Ends
    <3>2. CASE Prj!CheckInit(q) \/ Prj!MakeInitDir(q) \/ Prj!Parse(q) \/ Prj!Truncate(q)
      BY <2>2, <3>1, <3>2 DEF Prj!CheckInit, Prj!MakeInitDir, Prj!Parse, Prj!Truncate
    <3>3. CASE Prj!AskAgain(q) \/ Prj!Convert(q) \/ Prj!Confirm(q) \/ Prj!AddTarget(q) \/ Prj!RemoveTarget(q)
      BY <2>2, <3>1, <3>3 DEF Prj!AskAgain, Prj!Convert, Prj!Confirm, Prj!AddTarget,
           Prj!RemoveTarget
    <3>4. CASE Prj!FinishInit(q) \/ Prj!Write(q) \/ Prj!MakeTargetDir(q)
      <4>1. q # p
        BY <1>5, <3>4
      <4> QED BY <2>2, <3>1, <3>4, <4>1 DEF Prj!FinishInit, Prj!Write, Prj!MakeTargetDir
    <3> QED BY <2>3, <3>2, <3>3, <3>4 DEF Prj!Step
  <2>4. ASSUME NEW q \in Procs, Prj!Kill(q) PROVE FALSE
    BY <2>1, <2>2, <2>4 DEF Prj!Kill, Prj!Ends
  <2>5. ASSUME NEW q \in Procs, NEW answer, Prj!Reply(q, answer) PROVE FALSE
    BY <2>2, <2>5 DEF Prj!Reply
  <2>6. CASE Prj!Start
    <3>1. PICK q \in Procs : outcome' = [outcome EXCEPT ![q] = "none"]
      BY <2>6 DEF Prj!Start, Prj!StartCommand
    <3> QED BY <2>1, <2>2, <3>1
  <2> QED BY <2>2, <2>3, <2>4, <2>5, <2>6 DEF Prj!Next, Prj!DeleteFile,
       Prj!Terminated, Prj!vars
<1> QED BY <1>2, <1>3, <1>4, <1>5

\* What a command reports is true when it ends, whatever the other commands did
\* before and whatever failed or was killed, as long as no two ran at the same
\* time (ltf_init.c, ltf_target.c, project_parser_save).
THEOREM ReportsStayTrue == ASSUME Prj!ConstantsOK PROVE Prj!Spec => ReportsTrue
<1>1. ProjectInv /\ ReportInv /\ [Prj!Next]_(Prj!vars) => ReportInv'
  BY ReportStep
<1>2. Prj!Spec => [](ProjectInv /\ ReportInv)
  BY <1>1, ReportInit, ProjectInvariant, PTL DEF Prj!Spec
<1>3. ProjectInv /\ ReportInv /\ [Prj!Next]_(Prj!vars) =>
        [\A p \in Procs : ~overlap /\ Prj!JustSucceeded(p) => file'.state = "ok" /\ Prj!Reported(p)']_(Prj!vars)
  BY SuccessHonest
<1> QED BY <1>2, <1>3, PTL DEF Prj!Spec, ReportsTrue, Prj!ReportsTrue

=============================================================================
