------------------------------ MODULE RunParts ------------------------------
(***************************************************************************)
(* The array that all lists are kept in (DynArray), the files of the logs  *)
(* (RunLogs) and the panel on the terminal (Tui), which keep their state   *)
(* apart.                                                                  *)
(***************************************************************************)
EXTENDS DynArray, RunLogs

CONSTANTS Heights, Columns, MaxShown, MaxLogs, MaxResizes   \* Tui

VARIABLES term, ui, ui_calls, phase, shown, logs, resizes, cramped, written

T == INSTANCE Tui WITH MaxTests <- MaxShown, calls <- ui_calls, tests <- shown

\* Log and panel share the terminal (Tui).
ScreenHonest == T!ScreenHonest

=============================================================================
