----------------------------- MODULE MCReporting -----------------------------
(***************************************************************************)
(* Reporting over three days of two clock readings each, one day of        *)
(* retention, and reports over the last day, which begin within a day's    *)
(* file as often as at its start.  The levels make a tie of any two        *)
(* neighbours and a majority of all three.                                 *)
(***************************************************************************)
EXTENDS Reporting

MCWindows == {1}
MCLevelOf == <<4, 0, 4>>
=============================================================================
