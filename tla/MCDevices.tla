----------------------------- MODULE MCDevices ------------------------------
(***************************************************************************)
(* What the libraries give to a test, for TLC: serial ports (Serial), HTTP *)
(* handles (Http), SSH sessions (Ssh), the streams of an SSH channel       *)
(* (Shell) and the browser (Webdriver).  They share no state, so that a    *)
(* behaviour here is a behaviour of one of them, chosen at the start,      *)
(* while the others stand still.                                           *)
(***************************************************************************)
EXTENDS Serial

CONSTANTS
  Parts,                             \* the modules that are checked
  MaxHeaders, MaxBody, MaxHttp,      \* the bounds of Http
  Channels, Sftps, MaxSsh,           \* the objects and the bound of Ssh
  Window, MaxArrived, MaxShell,      \* the window and the bounds of Shell
  Sessions, Mishaps, MaxRequests, MaxBrowser, MaxChanges  \* Webdriver

VARIABLES
  part,                              \* the module this behaviour belongs to
  handle, gone, headers, list, option, ref, registry, refs, h_thread, body,
  result, asked, stale, refused, h_ub, h_calls,
  session, active, channel, sftp, live, link, faults, s_ub, s_calls,
  remote, c_link, c_thread, c_input, c_sent, c_last, c_calls,
  phase, driver, sessions, known, defers, next, handles, cleaned, page, wait,
  faulty, w_calls, changes

\* The pattern of read_until.
OK == <<"O", "K">>

H == INSTANCE Http WITH
       MaxChunks <- MaxBody, MaxCalls <- MaxHttp,
       thread <- h_thread, ub <- h_ub, calls <- h_calls

SSH == INSTANCE Ssh WITH
       MaxCalls <- MaxSsh, ub <- s_ub, calls <- s_calls

C == INSTANCE Shell WITH
       MaxSent <- MaxArrived, MaxCalls <- MaxShell, link <- c_link, thread <- c_thread,
       input <- c_input, sent <- c_sent, last <- c_last, calls <- c_calls

W == INSTANCE Webdriver WITH
       MaxCalls <- MaxBrowser, Faults <- Mishaps, session <- sessions, calls <- w_calls

ASSUME PartsAssumption == Parts \subseteq {"serial", "http", "ssh", "shell", "webdriver"}
ASSUME HttpAssumption == H!ConstantsOK
ASSUME SshAssumption == SSH!ConstantsOK
ASSUME ShellAssumption == C!ConstantsOK
ASSUME WebdriverAssumption == W!ConstantsOK

hVars == <<handle, gone, headers, list, option, ref, registry, refs, h_thread, body,
           result, asked, stale, refused, h_ub, h_calls>>
sVars == <<session, active, channel, sftp, live, link, faults, s_ub, s_calls>>
cVars == <<remote, c_link, c_thread, c_input, c_sent, c_last, c_calls>>
wVars == <<phase, driver, sessions, known, defers, next, handles, cleaned, page, wait,
           faulty, w_calls, changes>>
all   == <<part, vars, hVars, sVars, cVars, wVars>>

Begin ==
  /\ part \in Parts
  /\ Init   /\ (part # "serial" => thread = Idle(CHOOSE h \in Ports : TRUE))
  /\ H!Init /\ SSH!Init
  /\ C!Init /\ (part # "shell" => remote.kind = "exec" /\ remote.code = 0)
  /\ W!Init

Alone(others) == UNCHANGED <<part, others>>

Advance ==
  \/ part = "serial"    /\ Next   /\ Alone(<<hVars, sVars, cVars, wVars>>)
  \/ part = "http"      /\ H!Next /\ Alone(<<vars, sVars, cVars, wVars>>)
  \/ part = "ssh"       /\ SSH!Next /\ Alone(<<vars, hVars, cVars, wVars>>)
  \/ part = "shell"     /\ C!Next /\ Alone(<<vars, hVars, sVars, wVars>>)
  \/ part = "webdriver" /\ W!Next /\ Alone(<<vars, hVars, sVars, cVars>>)

\* The fairness of Shell.
InShell(step) == part = "shell" /\ step /\ Alone(<<vars, hVars, sVars, wVars>>)

Devices ==
  /\ Begin /\ [][Advance]_all
  /\ WF_all(InShell(C!Working)) /\ WF_all(InShell(C!Expire))

-----------------------------------------------------------------------------
\* An option has the list it was given, freed only by a later list of the same
\* handle; the registry holds the functions in use and the refused ones (Http).
RequestsExact == H!RequestsExact

\* A perform that succeeds has handed over the whole body (Http).
BodyComplete == H!BodyComplete

\* No pointer is followed to an object that was taken, and the channels of a
\* session are the ones it lists (Ssh).
SessionsSafe == SSH!SessionsSafe

\* What a channel returns is what arrived, and an exec has all of it (Shell).
StreamsHonest == C!StreamsHonest

\* Every call on a channel ends (Shell).
CallsEnd == C!CallsEnd

\* read_until returns what it read (Shell).
ReadAlwaysReturned == C!ReadAlwaysReturned

\* The teardown releases the driver, the sessions and the handles (Webdriver).
CleanedUp == W!CleanedUp

=============================================================================
