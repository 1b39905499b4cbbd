------------------------------- MODULE Lifecycle -------------------------------
(***************************************************************************)
(* The daemon process in time (src/src/daemon.rs, run_async): start-up,    *)
(* the loop collect / tick / sleep, the sleep after a failed collection,   *)
(* the watchdog pings and the two signals -- together with the service     *)
(* manager that kills a silent daemon and starts it again                  *)
(* (src/packaging/systemd/syswarden.service).                              *)
(*                                                                         *)
(* Time is discrete.  Elapse advances it and is blocked while something is *)
(* due: a timer that ran out fires before time goes on.                    *)
(*                                                                         *)
(* Signals.  The handler the runtime installs only writes to a pipe; the   *)
(* pipe is read when the runtime parks, and what is in it then goes to the *)
(* listeners that exist.  The SIGTERM listener lives as long as the loop;  *)
(* ctrl_c() makes a new SIGINT listener in each select! and drops it with  *)
(* the select!.                                                            *)
(***************************************************************************)
EXTENDS Integers

CONSTANTS
  IdleInterval, PressureInterval,  \* of the profile
  MinInterval, MaxInterval,        \* of config.polling
  Watchdogs,      \* the values WATCHDOG_USEC may have; Unset is one of them
  Unset,
  TickTime,       \* bound on the time from collection to the end of a tick
  RestartDelay,   \* RestartSec
  StartWindow,    \* StartLimitIntervalSec
  StartBurst      \* StartLimitBurst

ASSUME IntervalAssumption ==
  /\ IdleInterval \in Nat /\ PressureInterval \in Nat
  /\ MinInterval \in Nat /\ MaxInterval \in Nat
ASSUME TimeAssumption ==
  /\ TickTime \in Nat /\ RestartDelay \in Nat
  /\ StartWindow \in Nat /\ StartBurst \in Nat \ {0}
  /\ Unset \notin Nat /\ Watchdogs \subseteq Nat \cup {Unset}

VARIABLES
  pc,        \* where the process is; "down" when there is none
  unit,      \* the manager's view: "active", "restarting", "stopped", "failed"
  period,    \* the watchdog period the unit sets, 0 for none
  timer,     \* what is left of the current sleep, or of RestartSec
  age,       \* time since tick_start
  silence,   \* time since the manager last heard READY=1 or WATCHDOG=1
  pipe,      \* signals caught and not yet given to a listener
  term,      \* the SIGTERM listener holds a notification
  armed,     \* ctrl_c() has been called, so SIGINT no longer kills
  window, starts,  \* start limit: age of the window, starts in it
  lapses,    \* observer: pings missed since the last one, 2 for more
  quick      \* observer: a start of this window ended before its watchdog did it

vars == <<pc, unit, period, timer, age, silence, pipe, term, armed,
          window, starts, lapses, quick>>
signals == <<pipe, term, armed>>
limit == <<window, starts, quick>>

-----------------------------------------------------------------------------
Lesser(a, b) == IF a <= b THEN a ELSE b
Greater(a, b) == IF a >= b THEN a ELSE b
Monus(a, b) == IF a >= b THEN a - b ELSE 0

\* Mutant: the variable's text is taken as the period, set or not.
ParseWatchdogUnguarded(usec, pidMatches) == usec

\* parse_watchdog_usec: absent, zero or another process's is no watchdog.
ParseWatchdog(usec, pidMatches) ==
  IF usec = Unset \/ ~ pidMatches THEN 0 ELSE usec

\* Half the period, the longest the daemon sleeps between two pings.
Budget == period \div 2

(***************************************************************************)
(* adaptive_interval: the profile's interval for the state, then the       *)
(* configured bounds.  Nothing requires MinInterval <= MaxInterval outside *)
(* `config validate`; the maximum wins.                                    *)
(***************************************************************************)
AdaptiveInterval(pressured) ==
  Lesser(Greater(IF pressured THEN PressureInterval ELSE IdleInterval, MinInterval),
         MaxInterval)

\* Mutant: the sleep is not cut to the watchdog budget.
UncappedSleep(pressured, elapsed) == Monus(AdaptiveInterval(pressured), elapsed)

\* What is left of the interval, cut to the watchdog budget.
SleepFor(pressured, elapsed) ==
  LET rest == Monus(AdaptiveInterval(pressured), elapsed)
  IN  IF period = 0 THEN rest ELSE Lesser(rest, Budget)

-----------------------------------------------------------------------------
(***************************************************************************)
(* The manager has just begun the first start.  Its view of the watchdog   *)
(* and the daemon's are the same: the unit runs the daemon directly.       *)
(***************************************************************************)
Init ==
  /\ pc = "start" /\ unit = "active"
  /\ period \in {ParseWatchdog(usec, TRUE) : usec \in Watchdogs}
  /\ timer = 0 /\ age = 0 /\ silence = 0
  /\ pipe = {} /\ term = FALSE /\ armed = FALSE
  /\ window = 0 /\ starts = 1
  /\ lapses = 0 /\ quick = FALSE

\* The process is gone, with what it knew; a restart is due when it failed.
Exit(verdict) ==
  /\ pc' = "down" /\ unit' = verdict
  /\ timer' = (IF verdict = "restarting" THEN RestartDelay ELSE 0)
  /\ age' = 0 /\ silence' = 0 /\ lapses' = 0
  /\ pipe' = {} /\ term' = FALSE /\ armed' = FALSE

(***************************************************************************)
(* run_async up to the loop: the stores open, the SIGTERM listener exists  *)
(* and READY=1 starts the manager's watchdog.                              *)
(***************************************************************************)
Start ==
  /\ pc = "start"
  /\ pc' = "collect"
  /\ UNCHANGED <<unit, period, timer, age, silence, signals, limit, lapses>>

\* A store that cannot be opened: run returns an error and the exit code is 1.
StartFails ==
  /\ pc = "start"
  /\ Exit("restarting")
  /\ quick' = TRUE
  /\ UNCHANGED <<period, window, starts>>

\* metrics::collect succeeds.
Collect ==
  /\ pc = "collect"
  /\ pc' = "tick"
  /\ UNCHANGED <<unit, period, timer, age, silence, signals, limit, lapses>>

\* Mutant: after a failure the loop sleeps for nearly a watchdog period.
CollectFailsLong ==
  /\ pc = "collect"
  /\ pc' = "retry"
  /\ timer' = Greater(MinInterval, period - TickTime)
  /\ lapses' = Lesser(lapses + 1, 2)
  /\ UNCHANGED <<unit, period, age, silence, signals, limit>>

(***************************************************************************)
(* metrics::collect fails: the tick is skipped, with its ping, and the     *)
(* loop sleeps for the minimum interval without listening to signals.      *)
(***************************************************************************)
CollectFails ==
  /\ pc = "collect"
  /\ pc' = "retry"
  /\ timer' = MinInterval
  /\ lapses' = Lesser(lapses + 1, 2)
  /\ UNCHANGED <<unit, period, age, silence, signals, limit>>

(***************************************************************************)
(* The sleep after a failed collection ends.  The runtime was parked, so   *)
(* it may have read the pipe: SIGTERM went to its listener, SIGINT to no   *)
(* one.                                                                    *)
(***************************************************************************)
Retry ==
  /\ pc = "retry" /\ timer = 0
  /\ pc' = "collect"
  /\ age' = 0
  /\ \/ pipe' = {} /\ term' = (term \/ "TERM" \in pipe)
     \/ UNCHANGED <<pipe, term>>
  /\ UNCHANGED <<unit, period, timer, silence, armed, limit, lapses>>

(***************************************************************************)
(* single_tick has returned: the ping, then the adaptive sleep.  sd_notify *)
(* only warns when the datagram cannot be sent.                            *)
(***************************************************************************)
Tick ==
  /\ pc = "tick"
  /\ pc' = "sleep"
  /\ \E pressured \in BOOLEAN : timer' = SleepFor(pressured, age)
  /\ \/ silence' = 0 /\ lapses' = 0
     \/ silence' = silence /\ lapses' = Lesser(lapses + 1, 2)
  /\ armed' = TRUE
  /\ UNCHANGED <<unit, period, age, pipe, term, limit>>

\* A call inside the tick never returns.
Hang ==
  /\ pc = "tick"
  /\ pc' = "hung"
  /\ UNCHANGED <<unit, period, timer, age, silence, signals, limit, lapses>>

\* Mutant: a SIGTERM listener made anew for each select!, as ctrl_c() is.
WakeForgetsTerm ==
  /\ pc = "sleep" /\ timer = 0
  /\ pc' = "collect" /\ age' = 0
  /\ \/ pipe' = {} /\ UNCHANGED term
     \/ UNCHANGED <<pipe, term>>
  /\ UNCHANGED <<unit, period, timer, silence, armed, limit, lapses>>

(***************************************************************************)
(* The sleep of the select! ends.  When the runtime read the pipe in the   *)
(* same wake-up, the branch is chosen at random: SIGTERM stays with its    *)
(* listener for the next select!, SIGINT goes down with this one's.        *)
(***************************************************************************)
Wake ==
  /\ pc = "sleep" /\ timer = 0
  /\ pc' = "collect" /\ age' = 0
  /\ \/ pipe' = {} /\ term' = (term \/ "TERM" \in pipe)
     \/ UNCHANGED <<pipe, term>>
  /\ UNCHANGED <<unit, period, timer, silence, armed, limit, lapses>>

\* A signal branch of the select!: the loop ends and the exit code is 0.
Shutdown ==
  /\ pc = "sleep"
  /\ term \/ pipe # {}
  /\ Exit("stopped")
  /\ quick' = TRUE
  /\ UNCHANGED <<period, window, starts>>

-----------------------------------------------------------------------------
\* Someone asks the process to stop; before its handler exists the signal kills.
Signal(s) ==
  /\ pc # "down"
  /\ IF pc = "start" \/ (s = "INT" /\ ~ armed)
     THEN Exit("stopped") /\ quick' = TRUE
     ELSE /\ pipe' = pipe \cup {s}
          /\ UNCHANGED <<pc, unit, timer, age, silence, term, armed, lapses, quick>>
  /\ UNCHANGED <<period, window, starts>>

\* The watchdog period passed in silence: the manager kills, and Restart=on-failure.
Kill ==
  /\ pc \notin {"down", "start"}
  /\ period # 0 /\ silence >= period
  /\ Exit("restarting")
  /\ UNCHANGED <<period, limit>>

\* Mutant: no window ever ends, so the starts of a lifetime add up.
BeginStartEver ==
  /\ \/ /\ starts < StartBurst
        /\ starts' = starts + 1 /\ UNCHANGED <<window, quick>>
        /\ pc' = "start" /\ unit' = "active"
     \/ /\ starts >= StartBurst
        /\ unit' = "failed"
        /\ UNCHANGED <<pc, limit>>
  /\ UNCHANGED <<period, timer, age, silence, signals, lapses>>

(***************************************************************************)
(* The manager starts the process, unless StartLimitBurst starts were made *)
(* in the current window.  A window begins with a start.                   *)
(***************************************************************************)
BeginStart ==
  /\ \/ /\ window > StartWindow
        /\ window' = 0 /\ starts' = 1 /\ quick' = FALSE
        /\ pc' = "start" /\ unit' = "active"
     \/ /\ window <= StartWindow /\ starts < StartBurst
        /\ starts' = starts + 1 /\ UNCHANGED <<window, quick>>
        /\ pc' = "start" /\ unit' = "active"
     \/ /\ window <= StartWindow /\ starts >= StartBurst
        /\ unit' = "failed"
        /\ UNCHANGED <<pc, limit>>
  /\ UNCHANGED <<period, timer, age, silence, signals, lapses>>

\* Mutant: restarts are not counted.
RestartUncounted ==
  /\ unit = "restarting" /\ timer = 0
  /\ pc' = "start" /\ unit' = "active"
  /\ UNCHANGED <<period, timer, age, silence, signals, limit, lapses>>

\* RestartSec has passed.
Restart ==
  /\ unit = "restarting" /\ timer = 0
  /\ BeginStart

\* An administrator starts the unit again.
StartAgain ==
  /\ unit = "stopped"
  /\ BeginStart

-----------------------------------------------------------------------------
(***************************************************************************)
(* Time goes on when nothing is due.  A tick that does not hang ends       *)
(* within TickTime of its start.                                           *)
(***************************************************************************)
Due ==
  \/ pc = "start"
  \/ pc \in {"collect", "tick"} /\ age >= TickTime
  \/ pc \in {"retry", "sleep"} /\ timer = 0
  \/ pc = "sleep" /\ (term \/ pipe # {})
  \/ pc \notin {"down", "start"} /\ period # 0 /\ silence >= period
  \/ unit = "restarting" /\ timer = 0

Elapse ==
  /\ ~ Due
  /\ timer' = Monus(timer, 1)
  /\ age' = (IF pc \in {"collect", "tick"} THEN age + 1 ELSE age)
  /\ silence' = (IF pc # "down" /\ period # 0 THEN silence + 1 ELSE silence)
  /\ window' = Lesser(window + 1, StartWindow + 1)
  /\ UNCHANGED <<pc, unit, period, signals, starts, lapses, quick>>

Process == Start \/ Collect \/ CollectFails \/ Retry \/ Tick \/ Wake \/ Shutdown
Manager == Kill \/ Restart

Next ==
  \/ Process \/ Manager \/ Elapse
  \/ StartFails \/ Hang \/ StartAgain
  \/ \E s \in {"TERM", "INT"} : Signal(s)

(***************************************************************************)
(* The process and the manager run when they can and time passes.  Nothing *)
(* is assumed of which outcome a collection has, nor of the environment:   *)
(* signals, hangs and failures happen or not.  When a signal is due at the *)
(* end of a sleep, select! picks at random, so it is not passed over for   *)
(* ever.                                                                   *)
(***************************************************************************)
Fairness ==
  /\ WF_vars(Process) /\ WF_vars(Manager) /\ WF_vars(Elapse)
  /\ SF_vars(Shutdown)

Spec == Init /\ [][Next]_vars /\ Fairness

-----------------------------------------------------------------------------
TypeOK ==
  /\ pc \in {"down", "start", "collect", "tick", "sleep", "retry", "hung"}
  /\ unit \in {"active", "restarting", "stopped", "failed"}
  /\ unit = "active" <=> pc # "down"
  /\ period \in Nat /\ timer \in Nat /\ age \in Nat /\ silence \in Nat
  /\ pipe \subseteq {"TERM", "INT"} /\ term \in BOOLEAN /\ armed \in BOOLEAN
  /\ window \in 0 .. StartWindow + 1 /\ starts \in 0 .. StartBurst
  /\ lapses \in 0 .. 2 /\ quick \in BOOLEAN

(***************************************************************************)
(* The watchdog never kills a daemon that is well.  As long as ticks end   *)
(* in time and every collection succeeds, the daemon speaks before its     *)
(* period is over, whatever the profile's intervals and the configured     *)
(* bounds -- longer than the period itself, or in the wrong order -- and   *)
(* whatever order idle and pressured ticks come in (adaptive_interval and  *)
(* the cut to the watchdog budget, daemon.rs:296-304).                     *)
(***************************************************************************)
HealthyIsHeard ==
  (period # 0 /\ TickTime < period - Budget /\ lapses = 0 /\ pc # "hung")
    => silence < period

(***************************************************************************)
(* One missed ping is survived: a single failed collection, whose sleep is *)
(* not cut to the budget, or a single lost datagram, provided two of the   *)
(* longest pauses with their ticks fit in the period.                      *)
(***************************************************************************)
LongestPause ==
  Greater(MinInterval,
          Lesser(Budget, Greater(AdaptiveInterval(TRUE), AdaptiveInterval(FALSE))))

IsolatedLapseSurvived ==
  (period # 0 /\ 2 * (LongestPause + TickTime) < period /\ lapses <= 1 /\ pc # "hung")
    => silence < period

(***************************************************************************)
(* Watchdog restarts never exhaust the start limit: a daemon that hangs or *)
(* cannot collect is started again however often it happens, and a unit    *)
(* that ended in "failed" had a start that did not last until its          *)
(* watchdog.  The periods must be long enough for that: StartBurst of them *)
(* outlast the window (WatchdogSec, RestartSec and StartLimit... of the    *)
(* unit file).                                                             *)
(***************************************************************************)
FailedOnlyIfQuick ==
  (unit = "failed" /\ period # 0 /\ StartBurst * (period + RestartDelay) > StartWindow)
    => quick

(***************************************************************************)
(* A SIGTERM is never forgotten: from the moment the process has caught    *)
(* it, whatever the daemon was doing -- a tick, a sleep, the sleep after a *)
(* failed collection -- the process ends.  Without a watchdog the          *)
(* exceptions are a tick that hangs and collections that fail for ever     *)
(* (daemon.rs:257 does not listen, :310 does).                             *)
(***************************************************************************)
TermPending == term \/ "TERM" \in pipe

TermStops ==
  \/ TermPending ~> (pc = "down")
  \/ period = 0 /\ <>[](pc = "hung" \/ lapses > 0)

(***************************************************************************)
(* A daemon that hangs is replaced by one that collects, unless it is      *)
(* stopped or its start-ups fail until the start limit ends them.  With    *)
(* the unit's figures failing start-ups do reach the limit.                *)
(***************************************************************************)
HungIsReplaced ==
  (pc = "hung" /\ period # 0) ~> (pc = "collect" \/ unit \in {"stopped", "failed"})
=============================================================================
