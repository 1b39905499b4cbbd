---------------------------- MODULE MCSupervision ----------------------------
(***************************************************************************)
(* Supervision with the shipped thresholds and three readings, one for     *)
(* each of no pressure, moderate CPU pressure and critical memory          *)
(* pressure.                                                               *)
(***************************************************************************)
EXTENDS Supervision

\* config/mod.rs, PressureThresholds::default.
MCThresholds ==
  [cpu |-> [moderate |-> 15, high |-> 35, critical |-> 60],
   mem |-> [someModerate |-> 10, fullHigh |-> 5, fullCritical |-> 20,
            availableLowPct |-> 10],
   io  |-> [moderate |-> 15, high |-> 35, critical |-> 60]]

Plenty == [total |-> 100, available |-> 50]
Scarce == [total |-> 100, available |-> 5]

Quiet ==
  [cpu |-> 0, memSome |-> 0, memFull |-> 0, io |-> 0, mem |-> Plenty, swapRising |-> FALSE]
BusyCpu == [Quiet EXCEPT !.cpu = 20]
Thrashing == [Quiet EXCEPT !.memSome = 40, !.memFull = 25, !.mem = Scarce]

MCReadings == {Quiet, BusyCpu, Thrashing}
MCExtremes == {Quiet, Thrashing}

\* All files readable, or one of the two that carry the pressure above fails.
MCUnreadableSets == {{}, {"cpu"}, {"memory"}}
=============================================================================
