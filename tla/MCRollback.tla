------------------------------ MODULE MCRollback ------------------------------
(***************************************************************************)
(* Rollback with two commands, one of which undoes or lists while the      *)
(* other executes.                                                         *)
(***************************************************************************)
EXTENDS Rollback

CONSTANTS a, b

MCExecutors == {a}
MCBoth == {a, b}
MCValues == 0 .. 2

\* The kinds the planner emits for a service and a process, and StopService.
MCUndoKinds == {"AdjustNice", "SetCpuWeight", "SetMemoryHigh", "SetMemoryMax", "StopService"}

\* Two whose own faults leave a knob without a way back, and one that is not reversible.
MCFaultKinds == {"AdjustNice", "ApplySysctl", "RestartService"}
MCFaultValues == 0 .. 1

\* The kinds the planner emits for a process.
MCProcessKinds == {"AdjustNice", "AdjustIonice"}
=============================================================================
