------------------------------- MODULE Pressure -------------------------------
(***************************************************************************)
(* Pressure classification (src/src/pressure/mod.rs): PSI averages become  *)
(* sub-levels, the memory sub-level is cross-checked against MemAvailable  *)
(* and the swap-in rate, the worst sub-level goes through hysteresis, and  *)
(* the final level selects the supervision state.                          *)
(*                                                                         *)
(* Everything here is a pure operator.  Percentages are integers: the code *)
(* only ever compares them with thresholds.                                *)
(***************************************************************************)
EXTENDS Integers, Sequences

(***************************************************************************)
(* PressureLevel derives Ord from its declaration order, so a level is its *)
(* rank.                                                                   *)
(***************************************************************************)
NoPressure == 0
Low        == 1
Moderate   == 2
High       == 3
Critical   == 4

Levels == NoPressure .. Critical

Worse(a, b) == IF a >= b THEN a ELSE b

(***************************************************************************)
(* classify_level.  The tests are tried from critical down, whatever the   *)
(* order of the (unvalidated) thresholds; t has the fields moderate, high  *)
(* and critical.                                                           *)
(***************************************************************************)
ClassifyLevel(avg10, t) ==
  IF avg10 >= t.critical THEN Critical
  ELSE IF avg10 >= t.high THEN High
  ELSE IF avg10 >= t.moderate THEN Moderate
  ELSE IF avg10 > 0 THEN Low
  ELSE NoPressure

(***************************************************************************)
(* The memory cross-check.  An unknown total counts as 100% available.     *)
(***************************************************************************)
MemConstrained(mem, lowPct) ==
  mem.total > 0 /\ mem.available * 100 < lowPct * mem.total

ClassifyMemoryLevel(some, full, mem, swapRising, t) ==
  IF ~ MemConstrained(mem, t.availableLowPct) /\ ~ swapRising
  THEN IF some > 0 THEN Low ELSE NoPressure
  ELSE IF full >= t.fullCritical THEN Critical
  ELSE IF full >= t.fullHigh THEN High
  ELSE IF some >= t.someModerate THEN Moderate
  ELSE IF some > 0 THEN Low
  ELSE NoPressure

(***************************************************************************)
(* One reading of /proc: the some/full averages, the memory figures and    *)
(* whether the swap-in rate is above 0.1 page per second.  A PSI file that *)
(* cannot be read or parsed counts as all zeroes (unwrap_or_default).      *)
(***************************************************************************)
PsiFiles == {"cpu", "memory", "io"}

Unread(r, failed) ==
  [r EXCEPT !.cpu     = IF "cpu" \in failed THEN 0 ELSE @,
            !.memSome = IF "memory" \in failed THEN 0 ELSE @,
            !.memFull = IF "memory" \in failed THEN 0 ELSE @,
            !.io      = IF "io" \in failed THEN 0 ELSE @]

RawLevel(r, t) ==
  Worse(Worse(ClassifyLevel(r.cpu, t.cpu),
              ClassifyMemoryLevel(r.memSome, r.memFull, r.mem, r.swapRising, t.mem)),
        ClassifyLevel(r.io, t.io))

-----------------------------------------------------------------------------
(***************************************************************************)
(* apply_hysteresis.  trend holds the levels of the previous ticks, oldest *)
(* first -- the levels this very function returned, not the raw ones.      *)
(***************************************************************************)
RequiredPrior(ticks) == IF ticks > 0 THEN ticks - 1 ELSE 0

\* Mutant: the window is compared with the level before the rise, not with raw.
ApplyHysteresisStalePrev(raw, trend, ticks) ==
  LET prev == trend[Len(trend)]
      need == RequiredPrior(ticks)
  IN  IF ticks = 0 \/ Len(trend) = 0 \/ raw <= prev THEN raw
      ELSE IF /\ Len(trend) >= need
              /\ \A i \in (Len(trend) - need + 1) .. Len(trend) : trend[i] >= prev
           THEN raw
           ELSE prev

\* Mutant: de-escalation is delayed like escalation.
ApplyHysteresisBothWays(raw, trend, ticks) ==
  LET prev == trend[Len(trend)]
      need == RequiredPrior(ticks)
  IN  IF ticks = 0 \/ Len(trend) = 0 THEN raw
      ELSE IF /\ Len(trend) >= need
              /\ \A i \in (Len(trend) - need + 1) .. Len(trend) : trend[i] = raw
           THEN raw
           ELSE prev

ApplyHysteresis(raw, trend, ticks) ==
  LET prev == trend[Len(trend)]
      need == RequiredPrior(ticks)
  IN  IF ticks = 0 \/ Len(trend) = 0 THEN raw
      ELSE IF raw <= prev THEN raw
      ELSE IF /\ Len(trend) >= need
              /\ \A i \in (Len(trend) - need + 1) .. Len(trend) : trend[i] >= raw
           THEN raw
           ELSE prev

(***************************************************************************)
(* compute: without PSI the level is None and hysteresis is not consulted. *)
(***************************************************************************)
ComputeLevel(hasPsi, r, t, trend, ticks) ==
  IF hasPsi THEN ApplyHysteresis(RawLevel(r, t), trend, ticks) ELSE NoPressure

(***************************************************************************)
(* classify_state.                                                         *)
(***************************************************************************)
States == {"Initializing", "Idle", "Healthy", "ModeratePressure", "HighPressure",
           "CriticalPressure", "Recovery", "Degraded", "ProtectedMode"}

ClassifyState(hasPsi, level, anomaly) ==
  IF ~ hasPsi THEN "Degraded"
  ELSE IF level = Critical THEN "CriticalPressure"
  ELSE IF level = High THEN "HighPressure"
  ELSE IF level = Moderate THEN "ModeratePressure"
  ELSE IF level = Low \/ anomaly THEN "Healthy"
  ELSE "Idle"
=============================================================================
