------------------------------ MODULE Governance ------------------------------
(***************************************************************************)
(* From a pressure level to what is done about it: classify_state, the     *)
(* policy (policy/mod.rs), the resolved profile (profiles/mod.rs), the     *)
(* planner with its simulator and executor (actions/mod.rs) and the safety *)
(* gates (safety/mod.rs).  The daemon runs this every tick and only ever   *)
(* simulates; `actions apply` runs it once, and executes.                  *)
(*                                                                         *)
(* The environment supplies the level, the process and service findings,   *)
(* and the outcome of each system call.  Nothing else happens to the       *)
(* limits of a unit while a plan is carried out (Rollback models that).    *)
(***************************************************************************)
EXTENDS Pressure

CONSTANTS
  Pids, Units,     \* the processes and the .service units of the host
  InitPid,         \* pid 1, if it is among the processes analyzed
  ProtectedPids,   \* those whose comm is in config.protected.processes
  ProtectedUnits,  \* config.protected.services
  AllowedUnits,    \* config.allowed.services
  ProcessFindings, \* the tables of process flags the rules can produce
  System           \* Target::System

\* A process is flagged HighCpu and/or HighMemory (either adds RuleViolation).
ProcessFlags == {"HighCpu", "HighMemory"}

Targets == Pids \cup Units \cup {System}

ASSUME TargetsAssumption ==
  /\ Pids \cap Units = {} /\ System \notin Pids \cup Units
  /\ InitPid \notin Units \cup {System}
  /\ ProtectedPids \subseteq Pids
  /\ ProtectedUnits \subseteq Units /\ AllowedUnits \subseteq Units
  /\ ProcessFindings \subseteq [Pids -> SUBSET ProcessFlags]

-----------------------------------------------------------------------------
(***************************************************************************)
(* Profiles.  ActionRisk is ordered; an allow_* flag is named after the    *)
(* action kind it permits.  No profile allows a service restart or stop.   *)
(***************************************************************************)
SafeRisk       == 0
ModerateRisk   == 1
AggressiveRisk == 2

PriorityKinds == {"AdjustNice", "AdjustIonice"}
LimitKinds    == {"SetCpuWeight", "SetMemoryHigh", "SetMemoryMax", "SetIoWeight"}
SafeKinds     == {"Observe", "Log", "Report", "Recommend"}
PlannedKinds  == PriorityKinds \cup LimitKinds \cup {"ApplyZram"} \cup SafeKinds

BuiltIn ==
  [conservative |-> [risk |-> SafeRisk, allows |-> {}],
   balanced     |-> [risk |-> ModerateRisk,
                     allows |-> {"AdjustNice", "SetCpuWeight", "SetMemoryHigh"}],
   performance  |-> [risk |-> AggressiveRisk,
                     allows |-> PriorityKinds \cup LimitKinds \cup {"ApplyZram"}],
   low_ram      |-> [risk |-> ModerateRisk,
                     allows |-> PriorityKinds \cup {"SetMemoryHigh", "ApplyZram"}],
   desktop      |-> [risk |-> ModerateRisk,
                     allows |-> {"AdjustNice", "SetCpuWeight", "SetMemoryHigh"}],
   server       |-> [risk |-> ModerateRisk,
                     allows |-> {"SetCpuWeight", "SetIoWeight", "SetMemoryHigh"}],
   developer    |-> [risk |-> ModerateRisk,
                     allows |-> PriorityKinds \cup (LimitKinds \ {"SetMemoryMax"})]]

\* The [global] switches; profile is the configured name.
Configs == [profile : DOMAIN BuiltIn, dryRun : BOOLEAN, aggressive : BOOLEAN, zram : BOOLEAN]

\* resolve: the global switches cap the profile.
Resolve(c) ==
  LET p == BuiltIn[c.profile]
  IN  [risk   |-> IF c.aggressive \/ p.risk <= ModerateRisk THEN p.risk ELSE ModerateRisk,
       allows |-> p.allows \ ((IF c.aggressive THEN {} ELSE {"SetMemoryMax"})
                                \cup (IF c.zram THEN {} ELSE {"ApplyZram"}))]

-----------------------------------------------------------------------------
\* Of a service only whether it has any flag is ever used.
Anomaly(procs, flagged) == flagged # {} \/ \E p \in Pids : procs[p] # {}

\* Mutant: ionice is offered to the HighCpu processes only.
ProcessTargetsCpuOnly(profile, procs) ==
  {p \in Pids \ ProtectedPids :
     profile.allows \cap PriorityKinds # {} /\ "HighCpu" \in procs[p]}

\* collect_process_targets
ProcessTargets(profile, procs) ==
  {p \in Pids \ ProtectedPids :
     \/ "AdjustNice" \in profile.allows /\ "HighCpu" \in procs[p]
     \/ "AdjustIonice" \in profile.allows /\ procs[p] # {}}

\* collect_cgroup_targets
CgroupTargets(profile, flagged) ==
  IF profile.allows \cap {"SetMemoryHigh", "SetCpuWeight", "SetIoWeight"} = {} THEN {}
  ELSE (flagged \cap AllowedUnits) \ ProtectedUnits

FlaggedTargets(procs, flagged) ==
  LET ts == {p \in Pids \ ProtectedPids : procs[p] # {}} \cup (flagged \ ProtectedUnits)
  IN  IF ts = {} THEN {System} ELSE ts

-----------------------------------------------------------------------------
Decision(intent, targets) == [intent |-> intent, targets |-> targets]

\* The part decide_moderate, decide_high and decide_critical share.
Relieve(profile, procs, flagged, otherwise) ==
  IF profile.risk >= ModerateRisk /\ CgroupTargets(profile, flagged) # {}
  THEN Decision("ApplyCgroupSystemdLimit", CgroupTargets(profile, flagged))
  ELSE IF profile.risk >= ModerateRisk /\ ProcessTargets(profile, procs) # {}
  THEN Decision("AdjustProcessPriority", ProcessTargets(profile, procs))
  ELSE otherwise

Decide(state, profile, procs, flagged) ==
  CASE state = "Idle" -> Decision("DoNothing", {})
    [] state = "Healthy" ->
         IF Anomaly(procs, flagged)
         THEN Decision("Recommend", FlaggedTargets(procs, flagged))
         ELSE Decision("ObserveOnly", {System})
    [] state = "ModeratePressure" ->
         Relieve(profile, procs, flagged,
                 Decision("Recommend", FlaggedTargets(procs, flagged)))
    [] state = "HighPressure" ->
         Relieve(profile, procs, flagged, Decision("Alert", {System}))
    [] state = "CriticalPressure" ->
         IF "ApplyZram" \in profile.allows /\ profile.risk >= AggressiveRisk
         THEN Decision("ApplyZram", {System})
         ELSE Relieve(profile, procs, flagged, Decision("Alert", {System}))
    [] state = "Recovery" -> Decision("Recommend", {System})
    [] state = "Initializing" -> Decision("ObserveOnly", {System})
    [] state \in {"Degraded", "ProtectedMode"} -> Decision("LogOnly", {System})

-----------------------------------------------------------------------------
RiskOf(kind) ==
  IF kind \in SafeKinds THEN SafeRisk
  ELSE IF kind \in {"SetMemoryMax", "ApplyZram"} THEN AggressiveRisk
  ELSE ModerateRisk

(***************************************************************************)
(* plan.  The actions of different targets come in the order /proc and     *)
(* systemd enumerate them, which is arbitrary: a plan is a set, and Before *)
(* gives the order of the actions of one target.                           *)
(***************************************************************************)
KindsFor(intent, profile) ==
  CASE intent = "DoNothing" -> {}
    [] intent = "ObserveOnly" -> {"Observe"}
    [] intent = "LogOnly" -> {"Log"}
    [] intent = "Alert" -> {"Report"}
    [] intent = "Recommend" -> {"Recommend"}
    [] intent = "AdjustProcessPriority" -> profile.allows \cap PriorityKinds
    [] intent = "ApplyCgroupSystemdLimit" -> profile.allows \cap LimitKinds
    [] intent = "ApplyZram" -> {"ApplyZram"}

Plan(decision, profile) ==
  {[kind |-> k, risk |-> RiskOf(k), target |-> t] :
     k \in KindsFor(decision.intent, profile), t \in decision.targets}

\* Mutant: the hard limit is planned ahead of the soft one.
MaxBeforeHigh(k1, k2) ==
  \/ k1 = "AdjustNice" /\ k2 = "AdjustIonice"
  \/ k1 = "SetCpuWeight" /\ k2 \in {"SetMemoryHigh", "SetMemoryMax", "SetIoWeight"}
  \/ k1 = "SetMemoryMax" /\ k2 \in {"SetMemoryHigh", "SetIoWeight"}
  \/ k1 = "SetMemoryHigh" /\ k2 = "SetIoWeight"

Before(k1, k2) ==
  \/ k1 = "AdjustNice" /\ k2 = "AdjustIonice"
  \/ k1 = "SetCpuWeight" /\ k2 \in {"SetMemoryHigh", "SetMemoryMax", "SetIoWeight"}
  \/ k1 = "SetMemoryHigh" /\ k2 \in {"SetMemoryMax", "SetIoWeight"}
  \/ k1 = "SetMemoryMax" /\ k2 = "SetIoWeight"

-----------------------------------------------------------------------------
ChangesState(kind) == kind \notin SafeKinds

\* Mutant: dry_run is asked of the resource limits only.
EvaluateDryRunLimits(action, c, profile, root) ==
  IF \/ action.risk > profile.risk
     \/ action.target \in ProtectedPids \cup ProtectedUnits
     \/ action.kind \in LimitKinds /\ action.target \in Units \ AllowedUnits
     \/ ChangesState(action.kind) /\ action.kind \notin profile.allows
     \/ action.kind = "ApplyZram" /\ ~ c.zram
     \/ ChangesState(action.kind) /\ ~ root
  THEN "Block"
  ELSE IF c.dryRun /\ action.kind \in LimitKinds THEN "RequireDryRun"
  ELSE "Allow"

\* safety::evaluate, gates 2 to 8 (the planner emits nothing Prohibited).
Evaluate(action, c, profile, root) ==
  IF \/ action.risk > profile.risk
     \/ action.target \in ProtectedPids \cup ProtectedUnits
     \/ action.kind \in LimitKinds /\ action.target \in Units \ AllowedUnits
     \/ ChangesState(action.kind) /\ action.kind \notin profile.allows
     \/ action.kind = "ApplyZram" /\ ~ c.zram
     \/ ChangesState(action.kind) /\ ~ root
  THEN "Block"
  ELSE IF c.dryRun /\ ChangesState(action.kind) THEN "RequireDryRun"
  ELSE "Allow"

-----------------------------------------------------------------------------
VARIABLES
  config,   \* AppConfig.global, with the --dry-run / --no-dry-run override
  root,     \* caps.is_root
  hasPsi,   \* caps.has_psi
  pc,       \* "idle" between ticks, "act" while the plan is carried out
  mode,     \* "daemon" simulates, "apply" executes
  level,    \* PressureSnapshot.level
  procs,    \* the flags of every process
  flagged,  \* the services with a flag
  plan,     \* the planned actions not yet carried out
  results,  \* the actions carried out, with their status
  highSet,  \* the units that have a MemoryHigh
  hidden    \* those whose memory.high may not show it while this plan is carried out

vars == <<config, root, hasPsi, pc, mode, level, procs, flagged, plan, results, highSet,
          hidden>>

Init ==
  /\ config \in Configs
  /\ root \in BOOLEAN
  /\ hasPsi \in BOOLEAN
  /\ pc = "idle"
  /\ mode = "daemon"
  /\ level = NoPressure
  /\ procs = [p \in Pids |-> {}]
  /\ flagged = {}
  /\ plan = {}
  /\ results = {}
  /\ highSet = {}
  /\ hidden = {}

(***************************************************************************)
(* single_tick, or actions apply, down to the plan.  Without PSI compute   *)
(* returns level None.                                                     *)
(***************************************************************************)
Tick(m, l, ps, fs) ==
  /\ pc = "idle"
  /\ hasPsi \/ l = NoPressure
  /\ LET profile == Resolve(config)
         state   == ClassifyState(hasPsi, l, Anomaly(ps, fs))
     IN  plan' = Plan(Decide(state, profile, ps, fs), profile)
  /\ pc' = "act" /\ mode' = m /\ level' = l /\ procs' = ps /\ flagged' = fs
  /\ UNCHANGED <<config, root, hasPsi, results, highSet, hidden>>

\* simulate
Simulated(action) ==
  IF Evaluate(action, config, Resolve(config), root) = "Block" THEN "Blocked" ELSE "Simulated"

(***************************************************************************)
(* execute and dispatch_with_prior: apply_nice and apply_ionice refuse     *)
(* pid 1, whatever the gates said; SetMemoryMax is refused, as Blocked,    *)
(* when memory.high shows no limit, because the unit has none or because   *)
(* the file does not show it; the kinds that make no call cannot fail; any *)
(* other call may.                                                         *)
(***************************************************************************)
Executions(action) ==
  LET verdict == Evaluate(action, config, Resolve(config), root)
  IN  IF verdict = "Block" THEN {"Blocked"}
      ELSE IF verdict = "RequireDryRun" THEN {"Simulated"}
      ELSE IF action.kind \in SafeKinds \cup {"ApplyZram"} THEN {"Executed"}
      ELSE IF action.kind \in PriorityKinds /\ action.target = InitPid THEN {"Blocked"}
      ELSE IF action.kind = "SetMemoryMax" /\ action.target \notin highSet
      THEN {"Blocked", "Failed"}
      ELSE IF action.kind = "SetMemoryMax" /\ action.target \in hidden
      THEN {"Blocked", "Executed", "Failed"}
      ELSE {"Executed", "Failed"}

\* Mutant: the action stays queued.
PerformKeepsAction(action) ==
  /\ pc = "act"
  /\ action \in plan
  /\ \E status \in (IF mode = "daemon" THEN {Simulated(action)} ELSE Executions(action)) :
       results' = results \cup {[action |-> action, status |-> status]}
  /\ UNCHANGED <<config, root, hasPsi, pc, mode, level, procs, flagged, plan, highSet, hidden>>

\* One action of the plan: its result, and what an executed MemoryHigh leaves.
Perform(action) ==
  /\ pc = "act"
  /\ action \in plan
  /\ \A other \in plan : other.target = action.target => ~ Before(other.kind, action.kind)
  /\ \E status \in (IF mode = "daemon" THEN {Simulated(action)} ELSE Executions(action)) :
       /\ results' = results \cup {[action |-> action, status |-> status]}
       /\ highSet' = IF action.kind = "SetMemoryHigh" /\ status = "Executed"
                     THEN highSet \cup {action.target} ELSE highSet
  /\ plan' = plan \ {action}
  /\ UNCHANGED <<config, root, hasPsi, pc, mode, level, procs, flagged, hidden>>

(***************************************************************************)
(* A unit's memory.high stops showing its limit, for a while at least: the *)
(* unit is stopped and its cgroup goes, or it never was in system.slice,   *)
(* or systemd has not written what it was told.  cgroups::read makes None  *)
(* of each.  (It matters only to a SetMemoryMax that is still to come.)    *)
(***************************************************************************)
Hide(unit) ==
  /\ pc = "act" /\ mode = "apply"
  /\ unit \notin hidden
  /\ \E action \in plan : action.kind = "SetMemoryMax" /\ action.target = unit
  /\ hidden' = hidden \cup {unit}
  /\ UNCHANGED <<config, root, hasPsi, pc, mode, level, procs, flagged, plan, results,
                 highSet>>

\* The tick, or the command, is over.
Finish ==
  /\ pc = "act" /\ plan = {}
  /\ pc' = "idle" /\ mode' = "daemon" /\ level' = NoPressure
  /\ procs' = [p \in Pids |-> {}] /\ flagged' = {} /\ results' = {} /\ hidden' = {}
  /\ UNCHANGED <<config, root, hasPsi, plan, highSet>>

\* Between ticks limits come and go: an undo, a reboot, the administrator.
LimitsChange ==
  /\ pc = "idle"
  /\ highSet' \in SUBSET (AllowedUnits \ ProtectedUnits)
  /\ UNCHANGED <<config, root, hasPsi, pc, mode, level, procs, flagged, plan, results,
                 hidden>>

Next ==
  \/ \E m \in {"daemon", "apply"}, l \in Levels,
        ps \in ProcessFindings, fs \in SUBSET Units : Tick(m, l, ps, fs)
  \/ \E action \in plan : Perform(action)
  \/ \E unit \in Units : Hide(unit)
  \/ Finish
  \/ LimitsChange

Spec == Init /\ [][Next]_vars

-----------------------------------------------------------------------------
Actions == [kind : PlannedKinds, risk : SafeRisk .. AggressiveRisk, target : Targets]
Statuses == {"Simulated", "Blocked", "Executed", "Failed"}

\* The shape of the state; no action has both a result and a place in the plan.
TypeOK ==
  /\ config \in Configs /\ root \in BOOLEAN /\ hasPsi \in BOOLEAN
  /\ pc \in {"idle", "act"} /\ mode \in {"daemon", "apply"}
  /\ level \in Levels
  /\ procs \in [Pids -> SUBSET ProcessFlags] /\ flagged \subseteq Units
  /\ plan \subseteq Actions
  /\ results \subseteq [action : Actions, status : Statuses]
  /\ \A r \in results : r.action \notin plan
  /\ highSet \subseteq Units /\ hidden \subseteq Units

(***************************************************************************)
(* Policy and planner never ask for what the gates refuse: a planned       *)
(* action is blocked only for want of root, because its target is pid 1,   *)
(* or because it is a MemoryMax and either the MemoryHigh of the same plan *)
(* failed on that unit or the unit's memory.high did not show it (decide,  *)
(* plan and resolve against safety::evaluate, the pid guard and the        *)
(* MemoryMax guard).                                                       *)
(***************************************************************************)
BlockedOnlyWithCause ==
  \A r \in results :
    r.status = "Blocked" =>
      \/ ChangesState(r.action.kind) /\ ~ root
      \/ r.action.target = InitPid
      \/ /\ r.action.kind = "SetMemoryMax"
         /\ \/ r.action.target \in hidden
            \/ \E q \in results : /\ q.action.kind = "SetMemoryHigh"
                                  /\ q.action.target = r.action.target
                                  /\ q.status = "Failed"

(***************************************************************************)
(* What was executed was permitted, whichever of the seven profiles and    *)
(* switches is configured: a state change happens only in `actions apply`, *)
(* as root, without dry_run, under at least Moderate PSI pressure, on a    *)
(* flagged target that is not pid 1, not protected and, for a service,     *)
(* allowed; hard limits and zram only with the aggressive switch, zram     *)
(* only with its own and at Critical (the whole chain from classify_state  *)
(* to execute).                                                            *)
(***************************************************************************)
ExecutedIsPermitted ==
  \A r \in results :
    (r.status = "Executed" /\ ChangesState(r.action.kind)) =>
      LET kind == r.action.kind
          target == r.action.target
      IN  /\ mode = "apply" /\ root /\ ~ config.dryRun
          /\ hasPsi /\ level >= Moderate /\ config.profile # "conservative"
          /\ target # InitPid
          /\ target \in Pids => target \notin ProtectedPids /\ procs[target] # {}
          /\ target \in Units =>
               target \in AllowedUnits \ ProtectedUnits /\ target \in flagged
          /\ kind = "SetMemoryMax" => config.aggressive
          /\ kind = "ApplyZram" => config.aggressive /\ config.zram /\ level = Critical

(***************************************************************************)
(* And nothing permitted is missed: when a tick under pressure plans no    *)
(* change at all, the gates would have refused every relief its findings   *)
(* suggest -- renicing a CPU hog, lowering the I/O priority of any flagged *)
(* process, limiting any flagged service -- even for root (decide's        *)
(* fallbacks to Recommend and Alert).                                      *)
(***************************************************************************)
Relief(kind, target) ==
  \/ kind = "AdjustNice" /\ target \in Pids /\ "HighCpu" \in procs[target]
  \/ kind = "AdjustIonice" /\ target \in Pids /\ procs[target] # {}
  \/ kind \in LimitKinds /\ target \in flagged

NoMissedRelief ==
  (/\ pc = "act" /\ level >= Moderate
   /\ \A a \in plan \cup {r.action : r \in results} : ~ ChangesState(a.kind))
  => \A kind \in PriorityKinds \cup LimitKinds, target \in Pids \cup Units :
       Relief(kind, target) =>
         Evaluate([kind |-> kind, risk |-> RiskOf(kind), target |-> target],
                  config, Resolve(config), TRUE) = "Block"
=============================================================================
