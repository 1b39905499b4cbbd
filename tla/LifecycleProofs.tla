--------------------------- MODULE LifecycleProofs ---------------------------
(***************************************************************************)
(* Theorems about the daemon in time, for every choice of intervals,       *)
(* bounds, watchdog period and start limit -- among them configurations    *)
(* that `config validate` would refuse, because the daemon does not ask.   *)
(***************************************************************************)
EXTENDS Lifecycle, TLAPS

USE IntervalAssumption, TimeAssumption

LEMMA FiguresAreNat ==
  /\ MinInterval \in Nat /\ TickTime \in Nat /\ RestartDelay \in Nat
  /\ StartWindow \in Nat /\ StartBurst \in Nat
  BY DEF IntervalAssumption, TimeAssumption

-----------------------------------------------------------------------------
(* Arithmetic of the helpers. *)

LEMMA LesserGreater ==
  ASSUME NEW a \in Nat, NEW b \in Nat
  PROVE  /\ Lesser(a, b) \in Nat /\ Lesser(a, b) <= a /\ Lesser(a, b) <= b
         /\ Lesser(a, b) \in {a, b}
         /\ Greater(a, b) \in Nat /\ Greater(a, b) >= a /\ Greater(a, b) >= b
         /\ Monus(a, b) \in Nat /\ Monus(a, b) <= a /\ (b <= a => Monus(a, b) = a - b)
  BY DEF Lesser, Greater, Monus

LEMMA AdaptiveIsNat ==
  \A pressured \in BOOLEAN : AdaptiveInterval(pressured) \in Nat
  BY DEF AdaptiveInterval, Lesser, Greater

(* The longest sleep of a select! under a watchdog. *)
LongestSleep ==
  Lesser(Budget, Greater(AdaptiveInterval(TRUE), AdaptiveInterval(FALSE)))

LEMMA SleepBounded ==
  ASSUME NEW pressured \in BOOLEAN, period \in Nat, age \in Nat
  PROVE  /\ SleepFor(pressured, age) \in Nat
         /\ LongestSleep \in Nat
         /\ LongestSleep <= Budget
         /\ period # 0 => SleepFor(pressured, age) <= LongestSleep
  <1> DEFINE idle == AdaptiveInterval(FALSE)
             busy == AdaptiveInterval(TRUE)
             this == AdaptiveInterval(pressured)
  <1>1. idle \in Nat /\ busy \in Nat /\ this \in Nat
    BY AdaptiveIsNat
  <1>2. this = idle \/ this = busy
    OBVIOUS
  <1>3. Budget \in Nat
    BY DEF Budget
  <1>4. SleepFor(pressured, age) =
          IF period = 0 THEN Monus(this, age) ELSE Lesser(Monus(this, age), Budget)
    BY DEF SleepFor
  <1>5. LongestSleep = Lesser(Budget, Greater(busy, idle))
    BY DEF LongestSleep
  <1> HIDE DEF idle, busy, this
  <1>6. Monus(this, age) \in Nat /\ Monus(this, age) <= this
    BY <1>1, LesserGreater
  <1>7. this <= Greater(busy, idle) /\ Greater(busy, idle) \in Nat
    BY <1>1, <1>2 DEF Greater
  <1>8. LongestSleep \in Nat /\ LongestSleep <= Budget
    BY <1>3, <1>5, <1>7 DEF Lesser
  <1>9. CASE period = 0
    BY <1>4, <1>6, <1>8, <1>9
  <1>10. CASE period # 0
    <2> DEFINE rest == Monus(this, age)
    <2>1. SleepFor(pressured, age) = Lesser(rest, Budget)
      BY <1>4, <1>10
    <2>2. rest <= Greater(busy, idle) /\ rest \in Nat
      BY <1>1, <1>6, <1>7
    <2> HIDE DEF rest
    <2>3. QED
      BY <2>1, <2>2, <1>3, <1>5, <1>7, <1>8 DEF Lesser
  <1>11. QED
    BY <1>9, <1>10

LEMMA PauseCovers ==
  ASSUME period \in Nat
  PROVE  /\ LongestPause \in Nat
         /\ LongestSleep <= LongestPause
         /\ MinInterval <= LongestPause
  <1>1. LongestPause = Greater(MinInterval, LongestSleep)
    BY DEF LongestPause, LongestSleep
  <1>2. LongestSleep \in Nat
    <2>1. Budget \in Nat
      BY DEF Budget
    <2>2. QED
      BY <2>1, AdaptiveIsNat, LesserGreater DEF LongestSleep, Greater
  <1>3. QED
    BY <1>1, <1>2, LesserGreater

-----------------------------------------------------------------------------
(* Type correctness. *)

LEMMA ParsedPeriod ==
  \A usec \in Watchdogs : ParseWatchdog(usec, TRUE) \in Nat
  BY DEF ParseWatchdog

LEMMA TypeInit == Init => TypeOK
  <1> SUFFICES ASSUME Init
               PROVE  TypeOK
    OBVIOUS
  <1>1. period \in Nat
    BY ParsedPeriod DEF Init
  <1>2. /\ window \in 0 .. StartWindow + 1 /\ starts \in 0 .. StartBurst
        /\ lapses \in 0 .. 2
    BY DEF Init
  <1>3. QED
    BY <1>1, <1>2 DEF Init, TypeOK

LEMMA ExitTyped ==
  ASSUME TypeOK, NEW verdict \in {"restarting", "stopped"}, Exit(verdict),
         UNCHANGED <<period, window, starts>>, quick' \in BOOLEAN
  PROVE  TypeOK'
  <1>1. period' \in Nat /\ window' \in 0 .. StartWindow + 1 /\ starts' \in 0 .. StartBurst
    BY DEF TypeOK
  <1>2. pc' = "down" /\ unit' = verdict
    BY DEF Exit
  <1>3. age' \in Nat /\ silence' \in Nat /\ lapses' \in 0 .. 2
    BY DEF Exit
  <1>4. timer' \in Nat
    BY DEF Exit
  <1>5. pipe' = {} /\ term' = FALSE /\ armed' = FALSE
    BY DEF Exit
  <1>6. unit' \in {"restarting", "stopped"} /\ unit' # "active"
    BY <1>2
  <1>7. QED
    BY <1>1, <1>2, <1>3, <1>4, <1>5, <1>6 DEF TypeOK

LEMMA BeginStartTyped ==
  ASSUME TypeOK, BeginStart, pc = "down"
  PROVE  TypeOK'
  <1>0. UNCHANGED <<period, timer, age, silence, pipe, term, armed, lapses>>
    BY DEF BeginStart, signals
  <1>1. window \in 0 .. StartWindow + 1 /\ starts \in 0 .. StartBurst /\ quick \in BOOLEAN
    BY DEF TypeOK
  <1>2. CASE window > StartWindow /\ window' = 0 /\ starts' = 1 /\ quick' = FALSE
             /\ pc' = "start" /\ unit' = "active"
    <2>1. window' \in 0 .. StartWindow + 1 /\ starts' \in 0 .. StartBurst
      BY <1>2
    <2>2. QED
      BY <1>0, <1>2, <2>1 DEF TypeOK
  <1>3. CASE window <= StartWindow /\ starts < StartBurst
             /\ starts' = starts + 1 /\ UNCHANGED <<window, quick>>
             /\ pc' = "start" /\ unit' = "active"
    <2>1. window' \in 0 .. StartWindow + 1 /\ starts' \in 0 .. StartBurst
      BY <1>1, <1>3
    <2>2. QED
      BY <1>0, <1>1, <1>3, <2>1 DEF TypeOK
  <1>4. CASE unit' = "failed" /\ UNCHANGED <<pc, limit>>
    BY <1>0, <1>1, <1>4 DEF TypeOK, limit
  <1>5. QED
    BY <1>2, <1>3, <1>4 DEF BeginStart

LEMMA TypeStep == TypeOK /\ [Next]_vars => TypeOK'
  <1> SUFFICES ASSUME TypeOK, [Next]_vars
               PROVE  TypeOK'
    OBVIOUS
  <1>1. CASE Start
    BY <1>1 DEF TypeOK, Start, signals, limit
  <1>2. CASE Collect
    BY <1>2 DEF TypeOK, Collect, signals, limit
  <1>3. CASE CollectFails
    BY <1>3 DEF TypeOK, CollectFails, signals, limit, Lesser
  <1>4. CASE Retry
    BY <1>4 DEF TypeOK, Retry, limit
  <1>5. CASE Tick
    <2>1. timer' \in Nat
      BY <1>5, SleepBounded DEF TypeOK, Tick
    <2>2. silence' \in Nat /\ lapses' \in 0 .. 2
      BY <1>5 DEF TypeOK, Tick, Lesser
    <2>3. QED
      BY <1>5, <2>1, <2>2 DEF TypeOK, Tick, limit
  <1>6. CASE Wake
    BY <1>6 DEF TypeOK, Wake, limit
  <1>7. CASE Shutdown
    BY <1>7, ExitTyped DEF Shutdown
  <1>8. CASE Kill
    BY <1>8, ExitTyped DEF Kill, limit, TypeOK
  <1>9. CASE Restart
    BY <1>9, BeginStartTyped DEF Restart, TypeOK
  <1>10. CASE Elapse
    <2>1. Monus(timer, 1) \in Nat
      BY LesserGreater DEF TypeOK
    <2>2. Lesser(window + 1, StartWindow + 1) \in 0 .. StartWindow + 1
      BY DEF TypeOK, Lesser
    <2>3. QED
      BY <1>10, <2>1, <2>2 DEF TypeOK, Elapse, signals
  <1>11. CASE StartFails
    BY <1>11, ExitTyped DEF StartFails
  <1>12. CASE Hang
    BY <1>12 DEF TypeOK, Hang, signals, limit
  <1>13. CASE StartAgain
    BY <1>13, BeginStartTyped DEF StartAgain, TypeOK
  <1>14. ASSUME NEW s \in {"TERM", "INT"}, Signal(s)
         PROVE  TypeOK'
    <2>1. CASE pc = "start" \/ (s = "INT" /\ ~ armed)
      BY <1>14, <2>1, ExitTyped DEF Signal
    <2>2. CASE ~ (pc = "start" \/ (s = "INT" /\ ~ armed))
      BY <1>14, <2>2 DEF Signal, TypeOK
    <2>3. QED
      BY <2>1, <2>2
  <1>15. CASE UNCHANGED vars
    BY <1>15 DEF TypeOK, vars
  <1>16. QED
    BY <1>1, <1>2, <1>3, <1>4, <1>5, <1>6, <1>7, <1>8, <1>9, <1>10, <1>11, <1>12,
       <1>13, <1>14, <1>15 DEF Next, Process, Manager

(***************************************************************************)
(* The shape of the state is what TypeOK says, whatever the environment    *)
(* does (run_async and the unit).                                          *)
(***************************************************************************)
THEOREM TypeCorrect == Spec => []TypeOK
  <1>1. TypeOK /\ [Next]_vars => TypeOK'
    BY TypeStep
  <1>2. QED
    BY <1>1, TypeInit, PTL DEF Spec

-----------------------------------------------------------------------------
(***************************************************************************)
(* How long the daemon may have been silent.  A sleep and what is left of  *)
(* it add up to at most the longest sleep; a collection and its tick add   *)
(* their age; one missed ping adds a second pause with a tick.             *)
(***************************************************************************)
Prompt ==
  /\ pc \in {"collect", "tick", "sleep", "retry"} => age <= TickTime
  /\ pc \in {"down", "start"} => silence = 0 /\ age = 0 /\ lapses = 0
  /\ pc = "retry" => lapses > 0

SilenceWithout ==
  (period # 0 /\ lapses = 0) =>
    /\ pc = "sleep" => silence + timer <= LongestSleep
    /\ pc \in {"collect", "tick"} => silence <= LongestSleep + age

SilenceWithOne ==
  (period # 0 /\ lapses = 1) =>
    /\ pc \in {"sleep", "retry"} => silence + timer <= 2 * LongestPause + TickTime
    /\ pc \in {"collect", "tick"} => silence <= 2 * LongestPause + TickTime + age

SInv == TypeOK /\ Prompt /\ SilenceWithout /\ SilenceWithOne

LEMMA SilenceInit == Init => SInv
  <1> SUFFICES ASSUME Init
               PROVE  SInv
    OBVIOUS
  <1>1. TypeOK
    BY TypeInit
  <1>2. QED
    BY <1>1 DEF Init, SInv, Prompt, SilenceWithout, SilenceWithOne

LEMMA PeriodConstant == [Next]_vars => period' = period
  BY DEF Next, Process, Manager, Start, Collect, CollectFails, Retry, Tick, Wake, Shutdown,
     Kill, Restart, StartAgain, BeginStart, Elapse, StartFails, Hang, Signal, vars

(* After an exit there is no silence to bound. *)
LEMMA ExitPrompt ==
  ASSUME NEW verdict, Exit(verdict)
  PROVE  Prompt' /\ SilenceWithout' /\ SilenceWithOne'
  BY DEF Exit, Prompt, SilenceWithout, SilenceWithOne

LEMMA SilenceStep == SInv /\ [Next]_vars => SInv'
  <1> SUFFICES ASSUME SInv, [Next]_vars
               PROVE  SInv'
    OBVIOUS
  <1>0. TypeOK /\ TypeOK'
    BY TypeStep DEF SInv
  <1>a. /\ LongestSleep \in Nat /\ LongestPause \in Nat
        /\ LongestSleep <= LongestPause /\ MinInterval <= LongestPause
    BY <1>0, SleepBounded, PauseCovers DEF TypeOK
  <1>b. period' = period
    BY PeriodConstant
  <1>c. LongestSleep' = LongestSleep /\ LongestPause' = LongestPause
    BY <1>b DEF LongestSleep, LongestPause, Budget, AdaptiveInterval
  <1>p. Prompt /\ SilenceWithout /\ SilenceWithOne
    BY DEF SInv
  <1>t. /\ timer \in Nat /\ age \in Nat /\ silence \in Nat /\ lapses \in 0 .. 2
        /\ period \in Nat /\ TickTime \in Nat /\ MinInterval \in Nat
    BY <1>0, FiguresAreNat DEF TypeOK
  <1> SUFFICES Prompt' /\ SilenceWithout' /\ SilenceWithOne'
    BY <1>0 DEF SInv
  <1>1. CASE Start
    BY <1>1, <1>t, <1>a, <1>b, <1>c, <1>p
       DEF Start, Prompt, SilenceWithout, SilenceWithOne
  <1>2. CASE Collect
    BY <1>2, <1>t, <1>a, <1>b, <1>c, <1>p
       DEF Collect, Prompt, SilenceWithout, SilenceWithOne
  <1>3. CASE CollectFails
    <2>1. /\ pc = "collect" /\ pc' = "retry" /\ timer' = MinInterval
          /\ silence' = silence /\ age' = age
          /\ lapses' = IF lapses = 2 THEN 2 ELSE lapses + 1
      BY <1>3, <1>t DEF CollectFails, Lesser
    <2>2. lapses = 0 /\ period # 0 => silence + MinInterval <= 2 * LongestPause + TickTime
      BY <2>1, <1>t, <1>a, <1>p DEF Prompt, SilenceWithout
    <2>3. QED
      BY <2>1, <2>2, <1>t, <1>b, <1>c, <1>p DEF Prompt, SilenceWithout, SilenceWithOne
  <1>4. CASE Retry
    BY <1>4, <1>t, <1>a, <1>b, <1>c, <1>p
       DEF Retry, Prompt, SilenceWithout, SilenceWithOne
  <1>5. CASE Tick
    <2>1. pc = "tick" /\ pc' = "sleep" /\ age' = age
      BY <1>5 DEF Tick
    <2>0. PICK sleep \in Nat : timer' = sleep /\ (period # 0 => sleep <= LongestSleep)
      BY <1>5, <1>t, SleepBounded DEF Tick
    <2>2. CASE silence' = 0 /\ lapses' = 0
      <3>1. period # 0 => silence' + timer' <= LongestSleep
        BY <2>0, <2>2, <1>a
      <3>2. SilenceWithout'
        BY <2>1, <3>1, <1>b, <1>c DEF SilenceWithout
      <3>3. Prompt' /\ SilenceWithOne'
        BY <2>1, <2>2, <1>p DEF Prompt, SilenceWithOne
      <3>4. QED
        BY <3>2, <3>3
    <2>3. CASE silence' = silence /\ lapses' = Lesser(lapses + 1, 2)
      <3>1. lapses' = IF lapses = 2 THEN 2 ELSE lapses + 1
        BY <2>3, <1>t DEF Lesser
      <3>2. ASSUME lapses = 0, period # 0
            PROVE  silence + timer' <= 2 * LongestPause + TickTime
        <4>1. silence <= LongestSleep + age /\ age <= TickTime
          BY <2>1, <3>2, <1>p DEF Prompt, SilenceWithout
        <4>2. sleep <= LongestSleep
          BY <2>0, <3>2
        <4>3. QED
          BY <2>0, <4>1, <4>2, <1>t, <1>a
      <3>3. QED
        BY <2>1, <2>3, <3>1, <3>2, <1>t, <1>b, <1>c, <1>p
           DEF Prompt, SilenceWithout, SilenceWithOne
    <2>4. QED
      BY <1>5, <2>2, <2>3 DEF Tick
  <1>6. CASE Wake
    BY <1>6, <1>t, <1>a, <1>b, <1>c, <1>p
       DEF Wake, Prompt, SilenceWithout, SilenceWithOne
  <1>7. CASE Shutdown
    BY <1>7, ExitPrompt DEF Shutdown
  <1>8. CASE Kill
    BY <1>8, ExitPrompt DEF Kill
  <1>9. CASE BeginStart /\ pc = "down"
    <2>1. pc' \in {"start", "down"} /\ UNCHANGED <<silence, age, lapses>>
      BY <1>9 DEF BeginStart, limit
    <2>2. QED
      BY <1>9, <2>1, <1>p DEF Prompt, SilenceWithout, SilenceWithOne
  <1>10. CASE Elapse
    <2>1. /\ pc' = pc /\ lapses' = lapses
          /\ timer' = Monus(timer, 1)
          /\ age' = IF pc \in {"collect", "tick"} THEN age + 1 ELSE age
          /\ silence' = IF pc # "down" /\ period # 0 THEN silence + 1 ELSE silence
      BY <1>10 DEF Elapse
    <2>2. /\ pc # "start"
          /\ pc \in {"collect", "tick"} => age < TickTime
          /\ pc \in {"retry", "sleep"} => timer > 0 /\ timer' = timer - 1
      BY <1>10, <2>1, <1>t DEF Elapse, Due, Monus
    <2>3. QED
      BY <2>1, <2>2, <1>t, <1>a, <1>b, <1>c, <1>p
         DEF Prompt, SilenceWithout, SilenceWithOne
  <1>11. CASE StartFails
    BY <1>11, ExitPrompt DEF StartFails
  <1>12. CASE Hang
    BY <1>12, <1>p DEF Hang, Prompt, SilenceWithout, SilenceWithOne
  <1>13. ASSUME NEW s \in {"TERM", "INT"}, Signal(s)
         PROVE  Prompt' /\ SilenceWithout' /\ SilenceWithOne'
    <2>1. CASE Exit("stopped")
      BY <2>1, ExitPrompt
    <2>2. CASE UNCHANGED <<pc, timer, age, silence, lapses, period>>
      BY <2>2, <1>c, <1>p DEF Prompt, SilenceWithout, SilenceWithOne
    <2>3. QED
      BY <1>13, <2>1, <2>2 DEF Signal
  <1>14. CASE UNCHANGED vars
    BY <1>14, <1>c, <1>p DEF vars, Prompt, SilenceWithout, SilenceWithOne
  <1>15. (Restart \/ StartAgain) => BeginStart /\ pc = "down"
    BY <1>0 DEF Restart, StartAgain, TypeOK
  <1>16. QED
    BY <1>1, <1>2, <1>3, <1>4, <1>5, <1>6, <1>7, <1>8, <1>9, <1>10, <1>11, <1>12, <1>13,
       <1>14, <1>15 DEF Next, Process, Manager

LEMMA SilenceInvariant == Spec => []SInv
  <1>1. QED
    BY SilenceInit, SilenceStep, PTL DEF Spec

LEMMA HeardInTime ==
  SInv => HealthyIsHeard /\ IsolatedLapseSurvived
  <1> SUFFICES ASSUME SInv, period # 0, pc # "hung"
               PROVE  /\ (TickTime < period - Budget /\ lapses = 0) => silence < period
                      /\ (2 * (LongestPause + TickTime) < period /\ lapses <= 1)
                           => silence < period
    BY DEF HealthyIsHeard, IsolatedLapseSurvived
  <1>t. /\ timer \in Nat /\ age \in Nat /\ silence \in Nat /\ lapses \in 0 .. 2
        /\ period \in Nat
        /\ pc \in {"down", "start", "collect", "tick", "sleep", "retry", "hung"}
    BY DEF SInv, TypeOK
  <1>a. /\ LongestSleep \in Nat /\ LongestPause \in Nat
        /\ LongestSleep <= LongestPause /\ LongestSleep <= Budget
    BY <1>t, SleepBounded, PauseCovers
  <1>b. Budget \in Nat
    BY <1>t DEF Budget
  <1>p. Prompt /\ SilenceWithout /\ SilenceWithOne
    BY DEF SInv
  <1>1. lapses = 0 => silence <= LongestSleep + TickTime
    BY <1>p, <1>t, <1>a DEF Prompt, SilenceWithout
  <1>2. lapses = 1 => silence <= 2 * LongestPause + 2 * TickTime
    BY <1>p, <1>t, <1>a DEF Prompt, SilenceWithOne
  <1>3. QED
    BY <1>1, <1>2, <1>t, <1>a, <1>b

(***************************************************************************)
(* The watchdog does not kill a daemon that is well, whatever the          *)
(* intervals, the bounds and the watchdog period are (daemon.rs:296-304).  *)
(***************************************************************************)
THEOREM HealthyNeverKilled == Spec => []HealthyIsHeard
  <1>1. SInv => HealthyIsHeard
    BY HeardInTime
  <1>2. QED
    BY <1>1, SilenceInvariant, PTL

(***************************************************************************)
(* Nor does it kill one that missed a single ping, when two of the longest *)
(* pauses and their ticks fit in the period (daemon.rs:248-259).           *)
(***************************************************************************)
THEOREM OneLapseSurvived == Spec => []IsolatedLapseSurvived
  <1>1. SInv => IsolatedLapseSurvived
    BY HeardInTime
  <1>2. QED
    BY <1>1, SilenceInvariant, PTL

-----------------------------------------------------------------------------
(***************************************************************************)
(* The start limit.  As long as every start of the window lasted until its *)
(* watchdog, the window is as old as the watchdog periods and restart      *)
(* delays of the starts it counts; StartBurst of them outlast it.          *)
(***************************************************************************)
Cycle == period + RestartDelay

WindowCovers ==
  \/ quick \/ window > StartWindow
  \/ /\ unit = "active" => window >= (starts - 1) * Cycle + silence
     /\ unit = "restarting" => window + timer >= starts * Cycle

LimitInv ==
  /\ SInv
  /\ starts >= 1
  /\ unit = "stopped" => quick
  /\ period # 0 => WindowCovers
  /\ FailedOnlyIfQuick

LEMMA LimitInit == Init => LimitInv
  <1> SUFFICES ASSUME Init
               PROVE  LimitInv
    OBVIOUS
  <1>1. SInv
    BY SilenceInit
  <1>2. Cycle \in Nat
    BY <1>1 DEF SInv, TypeOK, Cycle
  <1>3. QED
    BY <1>1, <1>2 DEF Init, LimitInv, WindowCovers, FailedOnlyIfQuick

LEMMA CycleArithmetic ==
  ASSUME NEW n \in Nat, NEW c \in Nat
  PROVE  (n - 1) * c = n * c - c /\ ((n + 1) - 1) * c = n * c /\ n * c \in Nat
  OBVIOUS

LEMMA LimitStep == LimitInv /\ [Next]_vars => LimitInv'
  <1> SUFFICES ASSUME LimitInv, [Next]_vars
               PROVE  LimitInv'
    OBVIOUS
  <1>0. SInv /\ SInv' /\ TypeOK
    BY SilenceStep DEF LimitInv, SInv
  <1>b. period' = period /\ Cycle' = Cycle
    BY PeriodConstant DEF Cycle
  <1>t. /\ timer \in Nat /\ silence \in Nat /\ window \in 0 .. StartWindow + 1
        /\ starts \in 0 .. StartBurst /\ period \in Nat /\ Cycle \in Nat
        /\ Cycle = period + RestartDelay
        /\ StartWindow \in Nat /\ RestartDelay \in Nat
    BY <1>0, FiguresAreNat DEF TypeOK, Cycle
  <1>q. quick \in BOOLEAN /\ (unit = "active" <=> pc # "down")
    BY <1>0 DEF TypeOK
  <1>l. /\ starts >= 1 /\ (unit = "stopped" => quick)
        /\ (period # 0 => WindowCovers) /\ FailedOnlyIfQuick
    BY DEF LimitInv
  <1>m. /\ (starts - 1) * Cycle = starts * Cycle - Cycle
        /\ ((starts + 1) - 1) * Cycle = starts * Cycle
        /\ starts * Cycle \in Nat
    BY <1>t, CycleArithmetic
  <1> SUFFICES /\ starts' >= 1 /\ (unit' = "stopped" => quick')
               /\ (period # 0 => WindowCovers') /\ FailedOnlyIfQuick'
    BY <1>0, <1>b DEF LimitInv
  <1>1. CASE /\ UNCHANGED <<unit, limit>> /\ silence' \in {0, silence}
             /\ (unit = "restarting" => timer' = timer)
    <2>1. window' = window /\ starts' = starts /\ quick' = quick /\ unit' = unit
      BY <1>1 DEF limit
    <2>2. CASE silence' = 0
      BY <1>1, <2>1, <2>2, <1>t, <1>b, <1>l, <1>m DEF WindowCovers, FailedOnlyIfQuick
    <2>3. CASE silence' = silence
      BY <1>1, <2>1, <2>3, <1>t, <1>b, <1>l, <1>m DEF WindowCovers, FailedOnlyIfQuick
    <2>4. QED
      BY <1>1, <2>2, <2>3
  <1>2. CASE quick' /\ UNCHANGED <<window, starts>>
    BY <1>2, <1>l DEF WindowCovers, FailedOnlyIfQuick
  <1>3. CASE Kill
    <2>1. /\ unit = "active" /\ unit' = "restarting" /\ timer' = RestartDelay
          /\ silence >= period /\ period # 0
          /\ UNCHANGED <<window, starts, quick>>
      BY <1>3, <1>q DEF Kill, Exit, limit
    <2>2. quick \/ window > StartWindow \/ window >= (starts - 1) * Cycle + silence
      BY <2>1, <1>l DEF WindowCovers
    <2>3. quick \/ window > StartWindow \/ window + RestartDelay >= starts * Cycle
      BY <2>1, <2>2, <1>m, <1>t
    <2>4. WindowCovers' /\ FailedOnlyIfQuick'
      BY <2>1, <2>3, <1>b DEF WindowCovers, FailedOnlyIfQuick
    <2>5. QED
      BY <2>1, <2>4, <1>l
  <1>4. CASE BeginStart /\ unit \in {"restarting", "stopped"}
             /\ (unit = "restarting" => timer = 0)
    <2>0. UNCHANGED <<timer, silence>> /\ silence = 0
      BY <1>4, <1>0, <1>q DEF BeginStart, SInv, Prompt
    <2>1. CASE window' = 0 /\ starts' = 1 /\ unit' = "active"
      BY <2>0, <2>1, <1>b, <1>t DEF WindowCovers, FailedOnlyIfQuick
    <2>2. CASE starts' = starts + 1 /\ UNCHANGED <<window, quick>> /\ unit' = "active"
      <3>1. period # 0 => quick \/ window > StartWindow \/ window >= starts * Cycle
        BY <1>4, <1>l, <1>m, <1>t DEF WindowCovers
      <3>2. period # 0 => WindowCovers'
        BY <2>0, <2>2, <3>1, <1>b, <1>m, <1>t DEF WindowCovers
      <3>3. QED
        BY <2>2, <3>2, <1>l, <1>t DEF FailedOnlyIfQuick
    <2>3. CASE /\ window <= StartWindow /\ starts >= StartBurst
               /\ unit' = "failed" /\ UNCHANGED <<pc, limit>>
      <3>1. starts = StartBurst
        BY <2>3, <1>t
      <3>2. period # 0 => quick \/ window >= starts * Cycle
        BY <2>3, <1>4, <1>l, <1>m, <1>t DEF WindowCovers
      <3>3. (period # 0 /\ StartBurst * Cycle > StartWindow) => quick
        BY <3>1, <3>2, <2>3, <1>m, <1>t
      <3>4. FailedOnlyIfQuick'
        BY <3>3, <2>3, <1>b DEF FailedOnlyIfQuick, Cycle, limit
      <3>5. QED
        BY <2>3, <3>4, <1>l DEF WindowCovers, limit
    <2>4. QED
      BY <1>4, <2>1, <2>2, <2>3 DEF BeginStart
  <1>5. CASE Elapse
    <2>1. /\ UNCHANGED <<unit, starts, quick>>
          /\ window' = IF window + 1 <= StartWindow + 1 THEN window + 1 ELSE StartWindow + 1
          /\ silence' = (IF pc # "down" /\ period # 0 THEN silence + 1 ELSE silence)
          /\ unit = "restarting" => timer > 0 /\ timer' = timer - 1
      BY <1>5, <1>t DEF Elapse, Due, Monus, Lesser
    <2>2. window' = StartWindow + 1 \/ window' = window + 1
      BY <2>1, <1>t
    <2>3. period # 0 => WindowCovers'
      BY <2>1, <2>2, <1>b, <1>l, <1>m, <1>t, <1>q DEF WindowCovers
    <2>4. QED
      BY <2>1, <2>3, <1>b, <1>l DEF FailedOnlyIfQuick
  <1>6. ASSUME NEW s \in {"TERM", "INT"}, Signal(s)
        PROVE  \/ quick' /\ UNCHANGED <<window, starts>>
               \/ UNCHANGED <<unit, limit, silence, timer>>
    BY <1>6 DEF Signal, limit
  <1>7. CASE Start \/ Collect \/ CollectFails \/ Retry \/ Tick \/ Wake \/ Hang
    <2>1. UNCHANGED <<unit, limit>> /\ pc # "down" /\ silence' \in {0, silence}
      BY <1>7 DEF Start, Collect, CollectFails, Retry, Tick, Wake, Hang, limit
    <2>2. QED
      BY <2>1, <1>1, <1>q, <1>t
  <1>8. CASE Shutdown \/ StartFails
    BY <1>8, <1>2 DEF Shutdown, StartFails
  <1>9. CASE Restart
    BY <1>9, <1>4 DEF Restart
  <1>10. CASE StartAgain
    <2>1. quick
      BY <1>10, <1>l DEF StartAgain
    <2>2. QED
      BY <1>10, <1>4, <2>1, <1>t DEF StartAgain
  <1>11. CASE UNCHANGED vars
    BY <1>11, <1>1, <1>t DEF vars, limit
  <1>12. QED
    BY <1>1, <1>2, <1>3, <1>5, <1>6, <1>7, <1>8, <1>9, <1>10, <1>11, <1>t
       DEF Next, Process, Manager

(***************************************************************************)
(* The start limit only ends the unit when some start ended before its     *)
(* watchdog (syswarden.service: WatchdogSec, RestartSec, StartLimit...).   *)
(***************************************************************************)
THEOREM WatchdogRestartsNeverExhaust == Spec => []FailedOnlyIfQuick
  <1>1. LimitInv => FailedOnlyIfQuick
    BY DEF LimitInv
  <1>2. QED
    BY <1>1, LimitInit, LimitStep, PTL DEF Spec
=============================================================================
