--------------------------- MODULE GovernanceProofs ---------------------------
(***************************************************************************)
(* Proofs about Governance, for every set of processes and units, every    *)
(* protected and allowed list and every configuration.  The invariant says *)
(* that what is planned and what is done together are exactly the plan of  *)
(* the tick, so that everything else follows from facts about the policy,  *)
(* the planner and the gates.                                              *)
(***************************************************************************)
EXTENDS Governance, TLAPS

Permissions == PriorityKinds \cup LimitKinds \cup {"ApplyZram"}

(***************************************************************************)
(* What resolve gives, whatever the profile and the switches.              *)
(***************************************************************************)
LEMMA ResolveFacts ==
  ASSUME NEW c \in Configs
  PROVE  /\ Resolve(c).risk \in SafeRisk .. AggressiveRisk
         /\ Resolve(c).allows \subseteq Permissions
         /\ Resolve(c).risk = AggressiveRisk => c.aggressive
         /\ c.profile = "conservative" => Resolve(c).risk = SafeRisk
         /\ Resolve(c).risk = SafeRisk => Resolve(c).allows = {}
         /\ "SetMemoryMax" \in Resolve(c).allows =>
              c.aggressive /\ Resolve(c).risk = AggressiveRisk
         /\ "ApplyZram" \in Resolve(c).allows => c.zram
         /\ Resolve(c).allows \cap LimitKinds # {} =>
              Resolve(c).allows \cap {"SetMemoryHigh", "SetCpuWeight", "SetIoWeight"} # {}
         /\ "SetMemoryMax" \in Resolve(c).allows => "SetMemoryHigh" \in Resolve(c).allows
<1>1. c.profile \in {"conservative", "balanced", "performance", "low_ram", "desktop",
                     "server", "developer"}
      /\ c.aggressive \in BOOLEAN /\ c.zram \in BOOLEAN
  BY DEF Configs, BuiltIn
<1> DEFINE r == Resolve(c)
           cut == (IF c.aggressive THEN {} ELSE {"SetMemoryMax"})
                    \cup (IF c.zram THEN {} ELSE {"ApplyZram"})
           p == BuiltIn[c.profile]
<1>2. /\ r.risk = IF c.aggressive \/ p.risk <= ModerateRisk THEN p.risk ELSE ModerateRisk
      /\ r.allows = p.allows \ cut
  BY DEF Resolve
<1>3. CASE c.profile = "conservative"
  <2>1. p.risk = SafeRisk /\ p.allows = {}  BY <1>3 DEF BuiltIn
  <2> QED  BY <1>2, <1>3, <2>1 DEF SafeRisk, ModerateRisk, AggressiveRisk
<1>4. CASE c.profile \in {"balanced", "desktop"}
  <2>1. p.risk = ModerateRisk /\ p.allows = {"AdjustNice", "SetCpuWeight", "SetMemoryHigh"}
    BY <1>4 DEF BuiltIn
  <2> QED  BY <1>2, <1>4, <2>1
           DEF SafeRisk, ModerateRisk, AggressiveRisk, Permissions, PriorityKinds, LimitKinds
<1>5. CASE c.profile = "performance"
  <2>1. p.risk = AggressiveRisk /\ p.allows = Permissions
    BY <1>5 DEF BuiltIn, Permissions
  <2>2. c.aggressive => r.risk = AggressiveRisk
    BY <1>2, <2>1
  <2>3. ~ c.aggressive => r.risk = ModerateRisk
    BY <1>2, <2>1 DEF ModerateRisk, AggressiveRisk
  <2> QED  BY <1>1, <1>2, <1>5, <2>1, <2>2, <2>3
           DEF SafeRisk, ModerateRisk, AggressiveRisk, Permissions, PriorityKinds, LimitKinds
<1>6. CASE c.profile = "low_ram"
  <2>1. p.risk = ModerateRisk /\ p.allows = PriorityKinds \cup {"SetMemoryHigh", "ApplyZram"}
    BY <1>6 DEF BuiltIn
  <2> QED  BY <1>1, <1>2, <1>6, <2>1
           DEF SafeRisk, ModerateRisk, AggressiveRisk, Permissions, PriorityKinds, LimitKinds
<1>7. CASE c.profile = "server"
  <2>1. p.risk = ModerateRisk /\ p.allows = {"SetCpuWeight", "SetIoWeight", "SetMemoryHigh"}
    BY <1>7 DEF BuiltIn
  <2> QED  BY <1>2, <1>7, <2>1
           DEF SafeRisk, ModerateRisk, AggressiveRisk, Permissions, PriorityKinds, LimitKinds
<1>8. CASE c.profile = "developer"
  <2>1. p.risk = ModerateRisk /\ p.allows = PriorityKinds \cup (LimitKinds \ {"SetMemoryMax"})
    BY <1>8 DEF BuiltIn
  <2> QED  BY <1>2, <1>8, <2>1
           DEF SafeRisk, ModerateRisk, AggressiveRisk, Permissions, PriorityKinds, LimitKinds
<1> QED  BY <1>1, <1>3, <1>4, <1>5, <1>6, <1>7, <1>8

-----------------------------------------------------------------------------
Pressured == {"ModeratePressure", "HighPressure", "CriticalPressure"}
Profiles == [risk : SafeRisk .. AggressiveRisk, allows : SUBSET Permissions]

(***************************************************************************)
(* What the policy decides, state by state: which intents there are, what  *)
(* they target, and that under pressure it gives up on relief only when    *)
(* there is nothing to relieve.                                            *)
(***************************************************************************)
LEMMA DecideFacts ==
  ASSUME NEW state \in States, NEW profile, NEW ps \in [Pids -> SUBSET ProcessFlags],
         NEW fs \in SUBSET Units, profile.risk \in Int
  PROVE  LET d == Decide(state, profile, ps, fs)
         IN  /\ \/ d = Decision("DoNothing", {})
                \/ d \in {Decision(i, {System}) : i \in {"ObserveOnly", "LogOnly", "Alert"}}
                \/ d = Decision("Recommend", {System})
                \/ d = Decision("Recommend", FlaggedTargets(ps, fs))
                \/ /\ d = Decision("ApplyCgroupSystemdLimit", CgroupTargets(profile, fs))
                   /\ state \in Pressured /\ profile.risk >= ModerateRisk
                \/ /\ d = Decision("AdjustProcessPriority", ProcessTargets(profile, ps))
                   /\ state \in Pressured /\ profile.risk >= ModerateRisk
                \/ /\ d = Decision("ApplyZram", {System}) /\ state = "CriticalPressure"
                   /\ "ApplyZram" \in profile.allows /\ profile.risk >= AggressiveRisk
             /\ (state \in Pressured /\ profile.risk >= ModerateRisk) =>
                  \/ d = Decision("ApplyCgroupSystemdLimit", CgroupTargets(profile, fs))
                     /\ CgroupTargets(profile, fs) # {}
                  \/ d = Decision("AdjustProcessPriority", ProcessTargets(profile, ps))
                     /\ ProcessTargets(profile, ps) # {}
                  \/ d = Decision("ApplyZram", {System})
                  \/ CgroupTargets(profile, fs) = {} /\ ProcessTargets(profile, ps) = {}
<1> DEFINE d == Decide(state, profile, ps, fs)
<1>1. CASE state \in {"ModeratePressure", "HighPressure"}
  <2>1. PICK o : /\ o \in {Decision("Recommend", FlaggedTargets(ps, fs)),
                          Decision("Alert", {System})}
                 /\ d = Relieve(profile, ps, fs, o)
    BY <1>1 DEF Decide
  <2> QED  BY <1>1, <2>1 DEF Relieve, Pressured
<1>2. CASE state = "CriticalPressure"
  <2>1. d = IF "ApplyZram" \in profile.allows /\ profile.risk >= AggressiveRisk
            THEN Decision("ApplyZram", {System})
            ELSE Relieve(profile, ps, fs, Decision("Alert", {System}))
    BY <1>2 DEF Decide
  <2> QED  BY <1>2, <2>1 DEF Relieve, Pressured
<1>3. CASE state \notin Pressured
  <2>1. state \in {"Idle", "Healthy", "Recovery", "Initializing", "Degraded", "ProtectedMode"}
    BY <1>3 DEF States, Pressured
  <2> QED  BY <1>3, <2>1 DEF Decide, Pressured
<1> QED  BY <1>1, <1>2, <1>3 DEF Pressured

(***************************************************************************)
(* The plan of a tick, as Tick computes it.                                *)
(***************************************************************************)
StateOf(hp, l, ps, fs) == ClassifyState(hp, l, Anomaly(ps, fs))
TickPlan(c, hp, l, ps, fs) ==
  Plan(Decide(StateOf(hp, l, ps, fs), Resolve(c), ps, fs), Resolve(c))

\* classify_state says pressure only when PSI does, at Moderate or above.
LEMMA StateFacts ==
  ASSUME NEW hp \in BOOLEAN, NEW l \in Levels, NEW ps, NEW fs
  PROVE  /\ StateOf(hp, l, ps, fs) \in States
         /\ StateOf(hp, l, ps, fs) \in Pressured <=> (hp /\ l >= Moderate)
         /\ StateOf(hp, l, ps, fs) = "CriticalPressure" <=> (hp /\ l = Critical)
BY DEF StateOf, ClassifyState, States, Pressured, Levels, NoPressure, Low, Moderate, High,
       Critical

(***************************************************************************)
(* Every planned action passes the gates for root, and a planned change    *)
(* has all its permissions: the policy and the planner ask for nothing the *)
(* safety layer would have to stop.                                        *)
(***************************************************************************)
Permitted(a, c, hp, l, ps, fs) ==
  /\ hp /\ l >= Moderate /\ c.profile # "conservative"
  /\ a.target = InitPid => a.kind \in PriorityKinds
  /\ a.target \in Pids => a.target \notin ProtectedPids /\ ps[a.target] # {}
  /\ a.target \in Units => a.target \in AllowedUnits \ ProtectedUnits /\ a.target \in fs
  /\ a.kind = "SetMemoryMax" => c.aggressive
  /\ a.kind = "ApplyZram" => c.aggressive /\ c.zram /\ l = Critical

WellPlanned(a, c, hp, l, ps, fs) ==
  /\ a \in Actions
  /\ a.risk = RiskOf(a.kind)
  /\ Evaluate(a, c, Resolve(c), TRUE) # "Block"
  /\ ChangesState(a.kind) => Permitted(a, c, hp, l, ps, fs)
  /\ a.kind = "SetMemoryMax" =>
       [kind |-> "SetMemoryHigh", risk |-> ModerateRisk, target |-> a.target]
         \in TickPlan(c, hp, l, ps, fs)

\* Every action of a tick's plan is well planned (plan after decide and resolve).
LEMMA PlannedAction ==
  ASSUME NEW c \in Configs, NEW hp \in BOOLEAN, NEW l \in Levels,
         NEW ps \in [Pids -> SUBSET ProcessFlags], NEW fs \in SUBSET Units,
         NEW a \in TickPlan(c, hp, l, ps, fs)
  PROVE  WellPlanned(a, c, hp, l, ps, fs)
<1> SUFFICES /\ a \in Actions
             /\ a.risk = RiskOf(a.kind)
             /\ Evaluate(a, c, Resolve(c), TRUE) # "Block"
             /\ ChangesState(a.kind) => Permitted(a, c, hp, l, ps, fs)
             /\ a.kind = "SetMemoryMax" =>
                  [kind |-> "SetMemoryHigh", risk |-> ModerateRisk, target |-> a.target]
                    \in TickPlan(c, hp, l, ps, fs)
  BY DEF WellPlanned
<1> DEFINE state == StateOf(hp, l, ps, fs)
           r == Resolve(c)
           d == Decide(state, r, ps, fs)
<1>1. state \in States
  BY StateFacts
<1>2. r.risk \in Int /\ r.risk \in SafeRisk .. AggressiveRisk /\ r.allows \subseteq Permissions
  BY ResolveFacts DEF SafeRisk, AggressiveRisk
<1>3. PICK k \in KindsFor(d.intent, r), t \in d.targets :
        a = [kind |-> k, risk |-> RiskOf(k), target |-> t]
  BY DEF TickPlan, Plan
<1>4. a.kind = k /\ a.risk = RiskOf(k) /\ a.target = t
  BY <1>3
<1>5. \/ d = Decision("DoNothing", {})
      \/ d \in {Decision(i, {System}) : i \in {"ObserveOnly", "LogOnly", "Alert"}}
      \/ d = Decision("Recommend", {System})
      \/ d = Decision("Recommend", FlaggedTargets(ps, fs))
      \/ /\ d = Decision("ApplyCgroupSystemdLimit", CgroupTargets(r, fs))
         /\ state \in Pressured /\ r.risk >= ModerateRisk
      \/ /\ d = Decision("AdjustProcessPriority", ProcessTargets(r, ps))
         /\ state \in Pressured /\ r.risk >= ModerateRisk
      \/ /\ d = Decision("ApplyZram", {System}) /\ state = "CriticalPressure"
         /\ "ApplyZram" \in r.allows /\ r.risk >= AggressiveRisk
  BY <1>1, <1>2, DecideFacts
<1>6. CASE /\ d.intent \in {"ObserveOnly", "LogOnly", "Alert", "Recommend"}
           /\ t \in Targets /\ t \notin ProtectedPids \cup ProtectedUnits
  <2>1. k \in SafeKinds
    BY <1>3, <1>6 DEF KindsFor, SafeKinds
  <2>2. a.risk = SafeRisk /\ ~ ChangesState(k) /\ k \in PlannedKinds
    BY <1>4, <2>1 DEF RiskOf, ChangesState, PlannedKinds
  <2>3. k \notin LimitKinds /\ k # "ApplyZram" /\ k # "SetMemoryMax"
    BY <2>1 DEF SafeKinds, LimitKinds
  <2>4. a \in Actions
    BY <1>3, <1>6, <2>2, <1>4 DEF Actions, SafeRisk, AggressiveRisk
  <2>5. Evaluate(a, c, r, TRUE) # "Block"
    BY <1>2, <1>4, <1>6, <2>2, <2>3 DEF Evaluate, SafeRisk, AggressiveRisk
  <2> QED  BY <1>4, <2>2, <2>3, <2>4, <2>5
<1>7. CASE d = Decision("Recommend", FlaggedTargets(ps, fs))
  <2>1. t \in FlaggedTargets(ps, fs) /\ d.intent = "Recommend"
    BY <1>7 DEF Decision
  <2>2. t \in Targets /\ t \notin ProtectedPids \cup ProtectedUnits
    BY <2>1, TargetsAssumption DEF FlaggedTargets, Targets
  <2> QED  BY <1>6, <2>1, <2>2
<1>8. CASE d \in {Decision(i, {System}) : i \in {"ObserveOnly", "LogOnly", "Alert", "Recommend"}}
  <2>1. d.intent \in {"ObserveOnly", "LogOnly", "Alert", "Recommend"} /\ t = System
    BY <1>8 DEF Decision
  <2> QED  BY <1>6, <2>1, TargetsAssumption DEF Targets
<1>9. CASE /\ d = Decision("ApplyCgroupSystemdLimit", CgroupTargets(r, fs))
           /\ state \in Pressured /\ r.risk >= ModerateRisk
  <2>1. k \in r.allows /\ k \in LimitKinds /\ t \in CgroupTargets(r, fs)
    BY <1>9 DEF Decision, KindsFor
  <2>2. t \in AllowedUnits \ ProtectedUnits /\ t \in fs
    BY <2>1 DEF CgroupTargets
  <2>3. t \in Units /\ t \notin Pids /\ t \notin ProtectedPids
    BY <2>2, TargetsAssumption
  <2>4. k = "SetMemoryMax" => c.aggressive /\ r.risk = AggressiveRisk
                              /\ "SetMemoryHigh" \in r.allows
    BY <2>1, ResolveFacts
  <2>5. k # "ApplyZram" /\ k \notin SafeKinds /\ k \in PlannedKinds
    BY <2>1 DEF LimitKinds, SafeKinds, PlannedKinds
  <2>6. a.risk <= r.risk /\ a.risk \in SafeRisk .. AggressiveRisk
    BY <1>2, <1>4, <1>9, <2>4, <2>5 DEF RiskOf, SafeRisk, ModerateRisk, AggressiveRisk
  <2>7. Evaluate(a, c, r, TRUE) # "Block"
    BY <1>2, <1>4, <2>1, <2>2, <2>3, <2>5, <2>6
    DEF Evaluate, ChangesState, SafeRisk, AggressiveRisk
  <2>8. Permitted(a, c, hp, l, ps, fs)
    <3>1. hp /\ l >= Moderate
      BY <1>9, StateFacts
    <3>2. c.profile # "conservative"
      BY <1>9, ResolveFacts DEF SafeRisk, ModerateRisk
    <3> QED  BY <1>4, <2>2, <2>3, <2>4, <2>5, <3>1, <3>2, TargetsAssumption DEF Permitted
  <2>9. k = "SetMemoryMax" =>
          [kind |-> "SetMemoryHigh", risk |-> ModerateRisk, target |-> t]
            \in TickPlan(c, hp, l, ps, fs)
    <3>1. d.intent = "ApplyCgroupSystemdLimit"
      BY <1>9 DEF Decision
    <3>2. k = "SetMemoryMax" => "SetMemoryHigh" \in KindsFor(d.intent, r)
      BY <2>4, <3>1 DEF KindsFor, LimitKinds
    <3>3. RiskOf("SetMemoryHigh") = ModerateRisk
      BY DEF RiskOf, SafeKinds
    <3> QED  BY <1>3, <3>2, <3>3 DEF TickPlan, Plan
  <2> QED  BY <1>3, <1>4, <2>3, <2>5, <2>6, <2>7, <2>8, <2>9 DEF Actions, Targets
<1>10. CASE /\ d = Decision("AdjustProcessPriority", ProcessTargets(r, ps))
            /\ state \in Pressured /\ r.risk >= ModerateRisk
  <2>1. k \in r.allows /\ k \in PriorityKinds /\ t \in ProcessTargets(r, ps)
    BY <1>10 DEF Decision, KindsFor
  <2>2. t \in Pids /\ t \notin ProtectedPids /\ ps[t] # {}
    BY <2>1 DEF ProcessTargets
  <2>3. t \notin Units /\ t \notin ProtectedUnits
    BY <2>2, TargetsAssumption
  <2>4. /\ k \notin LimitKinds /\ k # "SetMemoryMax" /\ k # "ApplyZram"
        /\ k \notin SafeKinds /\ k \in PlannedKinds
    BY <2>1 DEF PriorityKinds, LimitKinds, SafeKinds, PlannedKinds
  <2>5. a.risk = ModerateRisk
    BY <1>4, <2>4 DEF RiskOf
  <2>6. Evaluate(a, c, r, TRUE) # "Block"
    BY <1>2, <1>4, <1>10, <2>1, <2>2, <2>3, <2>4, <2>5
    DEF Evaluate, ChangesState, SafeRisk, ModerateRisk, AggressiveRisk
  <2>7. Permitted(a, c, hp, l, ps, fs)
    <3>1. hp /\ l >= Moderate
      BY <1>10, StateFacts
    <3>2. c.profile # "conservative"
      BY <1>10, ResolveFacts DEF SafeRisk, ModerateRisk
    <3> QED  BY <1>4, <2>1, <2>2, <2>3, <2>4, <3>1, <3>2 DEF Permitted
  <2>8. a \in Actions
    BY <1>3, <2>2, <2>4, <1>4, <2>5
    DEF Actions, Targets, SafeRisk, ModerateRisk, AggressiveRisk
  <2> QED  BY <1>4, <2>4, <2>6, <2>7, <2>8
<1>11. CASE /\ d = Decision("ApplyZram", {System}) /\ state = "CriticalPressure"
            /\ "ApplyZram" \in r.allows /\ r.risk >= AggressiveRisk
  <2>1. k = "ApplyZram" /\ t = System
    BY <1>11 DEF Decision, KindsFor
  <2>2. t \notin Pids \cup Units \cup ProtectedPids \cup ProtectedUnits
    BY <2>1, TargetsAssumption
  <2>3. c.zram /\ c.aggressive /\ c.profile # "conservative"
    BY <1>2, <1>11, ResolveFacts DEF SafeRisk, AggressiveRisk
  <2>4. hp /\ l = Critical /\ l >= Moderate
    BY <1>11, StateFacts DEF Critical, Moderate
  <2>5. a.risk = AggressiveRisk /\ k \notin LimitKinds /\ k \in PlannedKinds
    BY <1>4, <2>1 DEF RiskOf, SafeKinds, LimitKinds, PlannedKinds
  <2>6. Evaluate(a, c, r, TRUE) # "Block"
    BY <1>2, <1>4, <1>11, <2>1, <2>2, <2>3, <2>5 DEF Evaluate, SafeRisk, AggressiveRisk
  <2>7. Permitted(a, c, hp, l, ps, fs)
    BY <1>4, <2>1, <2>2, <2>3, <2>4, TargetsAssumption DEF Permitted
  <2>8. a \in Actions
    BY <1>3, <1>4, <2>1, <2>5 DEF Actions, Targets, SafeRisk, AggressiveRisk
  <2> QED  BY <1>4, <2>1, <2>5, <2>6, <2>7, <2>8
<1>12. CASE d = Decision("DoNothing", {})
  BY <1>3, <1>12 DEF Decision
<1> QED  BY <1>5, <1>7, <1>8, <1>9, <1>10, <1>11, <1>12

\* A planned limit is on a unit.
LEMMA LimitTargets ==
  ASSUME NEW c \in Configs, NEW hp \in BOOLEAN, NEW l \in Levels,
         NEW ps \in [Pids -> SUBSET ProcessFlags], NEW fs \in SUBSET Units,
         NEW a \in TickPlan(c, hp, l, ps, fs), a.kind \in LimitKinds
  PROVE  a.target \in Units
<1> DEFINE state == StateOf(hp, l, ps, fs)
           r == Resolve(c)
           d == Decide(state, r, ps, fs)
<1>1. state \in States /\ r.risk \in Int
  BY StateFacts, ResolveFacts DEF SafeRisk, AggressiveRisk
<1>2. PICK k \in KindsFor(d.intent, r), t \in d.targets : a.kind = k /\ a.target = t
  BY DEF TickPlan, Plan
<1>3. k \in LimitKinds
  BY <1>2
<1>4. CASE d = Decision("ApplyCgroupSystemdLimit", CgroupTargets(r, fs))
  BY <1>2, <1>4, TargetsAssumption DEF Decision, CgroupTargets
<1>5. CASE \/ d \in {Decision(i, {System}) : i \in {"ObserveOnly", "LogOnly", "Alert"}}
           \/ \E T : d = Decision("Recommend", T)
           \/ \E T : d = Decision("AdjustProcessPriority", T)
           \/ \E T : d = Decision("ApplyZram", T)
           \/ \E T : d = Decision("DoNothing", T)
  <2>1. d.intent \in {"ObserveOnly", "LogOnly", "Alert", "Recommend", "AdjustProcessPriority",
                      "ApplyZram", "DoNothing"}
    BY <1>5 DEF Decision
  <2> QED  BY <1>2, <1>3, <2>1 DEF KindsFor, LimitKinds, PriorityKinds
<1>6. \/ d = Decision("DoNothing", {})
      \/ d \in {Decision(i, {System}) : i \in {"ObserveOnly", "LogOnly", "Alert"}}
      \/ d = Decision("Recommend", {System})
      \/ d = Decision("Recommend", FlaggedTargets(ps, fs))
      \/ d = Decision("ApplyCgroupSystemdLimit", CgroupTargets(r, fs))
      \/ d = Decision("AdjustProcessPriority", ProcessTargets(r, ps))
      \/ d = Decision("ApplyZram", {System})
  BY <1>1, DecideFacts
<1> QED  BY <1>4, <1>5, <1>6

-----------------------------------------------------------------------------
(***************************************************************************)
(* The inductive invariant.                                                *)
(***************************************************************************)
Verdict(a) == Evaluate(a, config, Resolve(config), root)

PlanKept ==
  /\ pc = "idle" => plan = {} /\ results = {}
  /\ pc = "act" => plan \cup {r.action : r \in results}
                     = TickPlan(config, hasPsi, level, procs, flagged)
  /\ hasPsi \/ level = NoPressure

Outcomes ==
  \A r \in results :
    /\ r.status = "Executed" => /\ mode = "apply" /\ Verdict(r.action) = "Allow"
                                /\ r.action.kind \in PriorityKinds => r.action.target # InitPid
    /\ r.action.kind = "SetMemoryHigh" =>
         /\ r.status = "Executed" => r.action.target \in highSet
         /\ (mode = "apply" /\ Verdict(r.action) = "Allow")
              => r.status \in {"Executed", "Failed"}

IInv == TypeOK /\ PlanKept /\ Outcomes /\ BlockedOnlyWithCause

\* What PlannedAction says of any action of the current tick.
LEMMA CurrentAction ==
  ASSUME TypeOK, PlanKept, pc = "act", NEW a, a \in plan \/ \E r \in results : r.action = a
  PROVE  /\ a \in TickPlan(config, hasPsi, level, procs, flagged)
         /\ WellPlanned(a, config, hasPsi, level, procs, flagged)
<1>1. a \in TickPlan(config, hasPsi, level, procs, flagged)
  BY DEF PlanKept
<1>2. /\ config \in Configs /\ hasPsi \in BOOLEAN /\ level \in Levels
      /\ procs \in [Pids -> SUBSET ProcessFlags] /\ flagged \in SUBSET Units
  BY DEF TypeOK
<1> QED  BY <1>1, <1>2, PlannedAction, Zenon

\* Root is the only thing that separates a refusal from what PlannedAction says.
LEMMA RefusedWithoutRoot ==
  ASSUME NEW a, NEW c, NEW profile, NEW isRoot \in BOOLEAN,
         Evaluate(a, c, profile, TRUE) # "Block"
  PROVE  /\ Evaluate(a, c, profile, isRoot) = "Block" => ChangesState(a.kind) /\ ~ isRoot
         /\ Evaluate(a, c, profile, isRoot) = "Allow" =>
              (ChangesState(a.kind) => isRoot /\ ~ c.dryRun)
         /\ (isRoot /\ ~ c.dryRun) => Evaluate(a, c, profile, isRoot) = "Allow"
BY DEF Evaluate

(***************************************************************************)
(* Carrying out one action keeps the invariant.                            *)
(***************************************************************************)
LEMMA PerformIInv ==
  ASSUME IInv, NEW a \in plan, Perform(a)
  PROVE  IInv'
<1>1. PICK status \in (IF mode = "daemon" THEN {Simulated(a)} ELSE Executions(a)) :
        /\ results' = results \cup {[action |-> a, status |-> status]}
        /\ highSet' = IF a.kind = "SetMemoryHigh" /\ status = "Executed"
                      THEN highSet \cup {a.target} ELSE highSet
  BY DEF Perform
<1> DEFINE r == [action |-> a, status |-> status]
<1>2. /\ pc = "act" /\ plan' = plan \ {a}
      /\ \A other \in plan : other.target = a.target => ~ Before(other.kind, a.kind)
      /\ UNCHANGED <<config, root, hasPsi, pc, mode, level, procs, flagged, hidden>>
  BY DEF Perform
<1>3. /\ a \in TickPlan(config, hasPsi, level, procs, flagged)
      /\ a \in Actions
      /\ Evaluate(a, config, Resolve(config), TRUE) # "Block"
      /\ ChangesState(a.kind) => Permitted(a, config, hasPsi, level, procs, flagged)
      /\ a.kind = "SetMemoryMax" =>
           [kind |-> "SetMemoryHigh", risk |-> ModerateRisk, target |-> a.target]
             \in TickPlan(config, hasPsi, level, procs, flagged)
  BY <1>2, CurrentAction DEF IInv, WellPlanned
<1>4. root \in BOOLEAN /\ mode \in {"daemon", "apply"}
  BY DEF IInv, TypeOK
<1>5. \A b : Verdict(b)' = Verdict(b)
  BY <1>2 DEF Verdict
<1>6. status \in Statuses
  BY <1>1 DEF Simulated, Executions, Statuses
<1>7. a.kind = "SetMemoryHigh" => a.target \in Units
  <2>1. SUFFICES ASSUME a.kind = "SetMemoryHigh" PROVE a.target \in Units
    OBVIOUS
  <2>2. a.target \notin Units \ AllowedUnits /\ a.target \in Targets
    BY <1>3, <2>1 DEF Evaluate, LimitKinds, Actions
  <2>3. Permitted(a, config, hasPsi, level, procs, flagged)
    BY <1>3, <2>1 DEF ChangesState, SafeKinds
  <2>4. a \in TickPlan(config, hasPsi, level, procs, flagged)
    BY <1>3
  <2> QED  BY <2>1, <2>4, <1>3, LimitTargets DEF IInv, TypeOK, LimitKinds
<1>8. TypeOK'
  BY <1>1, <1>2, <1>3, <1>6, <1>7 DEF IInv, TypeOK
<1>9. PlanKept'
  <2>1. {q.action : q \in results'} = {q.action : q \in results} \cup {a}
    <3>1. r.action = a
      OBVIOUS
    <3>2. results' = results \cup {r}
      BY <1>1
    <3> HIDE DEF r
    <3> QED  BY <3>1, <3>2
  <2> QED  BY <1>2, <2>1 DEF IInv, PlanKept
<1>10. Outcomes'
  <2>1. SUFFICES ASSUME NEW q \in results'
                 PROVE  /\ q.status = "Executed" =>
                             /\ mode = "apply" /\ Verdict(q.action) = "Allow"
                             /\ q.action.kind \in PriorityKinds => q.action.target # InitPid
                        /\ q.action.kind = "SetMemoryHigh" =>
                             /\ q.status = "Executed" => q.action.target \in highSet'
                             /\ (mode = "apply" /\ Verdict(q.action) = "Allow")
                                  => q.status \in {"Executed", "Failed"}
    BY <1>2, <1>5 DEF Outcomes
  <2>2. CASE q \in results
    BY <1>1, <2>2 DEF IInv, Outcomes
  <2>3. CASE q = r
    <3>1. status = "Executed" => /\ mode = "apply" /\ Verdict(a) = "Allow"
                                 /\ a.kind \in PriorityKinds => a.target # InitPid
      <4>1. Verdict(a) \in {"Block", "RequireDryRun", "Allow"}
        BY DEF Verdict, Evaluate
      <4> QED  BY <1>1, <1>4, <4>1 DEF Simulated, Executions, Verdict, PriorityKinds, SafeKinds
    <3>2. (mode = "apply" /\ Verdict(a) = "Allow" /\ a.kind = "SetMemoryHigh")
            => status \in {"Executed", "Failed"}
      BY <1>1 DEF Executions, Verdict, SafeKinds, PriorityKinds
    <3> QED  BY <1>1, <2>3, <3>1, <3>2
  <2> QED  BY <1>1, <2>1, <2>2, <2>3
<1>11. BlockedOnlyWithCause'
  <2>1. CASE status # "Blocked"
    BY <1>1, <1>2, <2>1 DEF IInv, BlockedOnlyWithCause
  <2>2. CASE status = "Blocked" /\ Verdict(a) = "Block"
    <3>1. ChangesState(a.kind) /\ ~ root
      BY <1>3, <1>4, <2>2, RefusedWithoutRoot DEF Verdict
    <3> QED  BY <1>1, <1>2, <3>1 DEF IInv, BlockedOnlyWithCause
  <2>3. CASE status = "Blocked" /\ a.target = InitPid
    BY <1>1, <1>2, <2>3 DEF IInv, BlockedOnlyWithCause
  <2>h. CASE a.kind = "SetMemoryMax" /\ a.target \in hidden
    BY <1>1, <1>2, <2>h DEF IInv, BlockedOnlyWithCause
  <2>4. CASE /\ status = "Blocked" /\ Verdict(a) # "Block" /\ a.target # InitPid
             /\ ~ (a.kind = "SetMemoryMax" /\ a.target \in hidden)
    <3>1. /\ mode = "apply" /\ Verdict(a) = "Allow"
          /\ a.kind = "SetMemoryMax" /\ a.target \notin highSet
      <4>1. Verdict(a) \in {"RequireDryRun", "Allow"}
        BY <2>4 DEF Verdict, Evaluate
      <4> QED  BY <1>1, <1>4, <2>4, <4>1 DEF Simulated, Executions, Verdict
    <3>2. root /\ ~ config.dryRun
      <4>1. ChangesState(a.kind)
        BY <3>1 DEF ChangesState, SafeKinds
      <4> QED  BY <1>3, <1>4, <3>1, <4>1, RefusedWithoutRoot DEF Verdict
    <3> DEFINE h == [kind |-> "SetMemoryHigh", risk |-> ModerateRisk, target |-> a.target]
    <3>3. h \in TickPlan(config, hasPsi, level, procs, flagged)
      BY <1>3, <3>1
    <3>4. h \notin plan
      <4>1. Before("SetMemoryHigh", "SetMemoryMax")
        BY DEF Before
      <4>2. h.kind = "SetMemoryHigh" /\ h.target = a.target
        OBVIOUS
      <4> QED  BY <1>2, <3>1, <4>1, <4>2
    <3>5. PICK q \in results : q.action = h
      BY <1>2, <3>3, <3>4 DEF IInv, PlanKept
    <3>6. Verdict(h) = "Allow"
      <4>1. Evaluate(h, config, Resolve(config), TRUE) # "Block"
        BY <1>2, <3>5, CurrentAction DEF IInv, WellPlanned
      <4> QED  BY <1>4, <3>2, <4>1, RefusedWithoutRoot DEF Verdict
    <3>7. q.status = "Failed"
      <4>1. q.status \in {"Executed", "Failed"}
        BY <3>1, <3>5, <3>6 DEF IInv, Outcomes
      <4>2. q.status # "Executed"
        BY <3>1, <3>5 DEF IInv, Outcomes
      <4> QED  BY <4>1, <4>2
    <3>8. /\ q \in results' /\ q.action.kind = "SetMemoryHigh"
          /\ q.action.target = r.action.target /\ r.action.kind = "SetMemoryMax"
      BY <1>1, <3>1, <3>5
    <3> QED  BY <1>1, <1>2, <3>7, <3>8 DEF IInv, BlockedOnlyWithCause
  <2> QED  BY <2>1, <2>2, <2>3, <2>h, <2>4
<1> QED  BY <1>8, <1>9, <1>10, <1>11 DEF IInv

\* The other steps keep the invariant, and the initial states have it.
LEMMA InitIInv == Init => IInv
BY DEF Init, IInv, TypeOK, PlanKept, Outcomes, BlockedOnlyWithCause, Levels, NoPressure,
       Critical

\* Every step of the tick keeps the invariant (single_tick, actions apply).
LEMMA NextIInv == IInv /\ [Next]_vars => IInv'
<1> SUFFICES ASSUME IInv, [Next]_vars PROVE IInv'
  OBVIOUS
<1>1. ASSUME NEW m \in {"daemon", "apply"}, NEW l \in Levels, NEW ps \in ProcessFindings,
             NEW fs \in SUBSET Units, Tick(m, l, ps, fs)
      PROVE  IInv'
  <2>1. /\ pc = "idle" /\ pc' = "act" /\ mode' = m /\ level' = l /\ procs' = ps
        /\ flagged' = fs /\ plan' = TickPlan(config, hasPsi, l, ps, fs)
        /\ hasPsi \/ l = NoPressure
        /\ UNCHANGED <<config, root, hasPsi, results, highSet, hidden>>
    BY <1>1 DEF Tick, TickPlan, StateOf
  <2>2. results = {}
    BY <2>1 DEF IInv, PlanKept
  <2>3. /\ ps \in [Pids -> SUBSET ProcessFlags]
        /\ config \in Configs /\ hasPsi \in BOOLEAN
    BY TargetsAssumption DEF IInv, TypeOK
  <2>4. plan' \subseteq Actions
    BY <2>1, <2>3, PlannedAction DEF WellPlanned
  <2>5. TypeOK'
    BY <2>1, <2>2, <2>3, <2>4 DEF IInv, TypeOK
  <2>6. PlanKept'
    BY <2>1, <2>2 DEF PlanKept
  <2>7. Outcomes' /\ BlockedOnlyWithCause'
    BY <2>1, <2>2 DEF Outcomes, BlockedOnlyWithCause
  <2> QED  BY <2>5, <2>6, <2>7 DEF IInv
<1>2. ASSUME NEW a \in plan, Perform(a) PROVE IInv'
  BY <1>2, PerformIInv
<1>h. ASSUME NEW unit \in Units, Hide(unit) PROVE IInv'
  <2>1. \A b : Verdict(b)' = Verdict(b)
    BY <1>h DEF Hide, Verdict
  <2> QED
    BY <1>h, <2>1 DEF Hide, IInv, TypeOK, PlanKept, Outcomes, BlockedOnlyWithCause
<1>3. CASE Finish
  BY <1>3 DEF Finish, IInv, TypeOK, PlanKept, Outcomes, BlockedOnlyWithCause, Levels,
              NoPressure, Critical
<1>4. CASE LimitsChange
  <2>1. /\ results' = {} /\ plan' = {} /\ pc' = "idle"
        /\ hasPsi' \/ level' = NoPressure
    BY <1>4 DEF LimitsChange, IInv, PlanKept
  <2>2. TypeOK'
    BY <1>4, TargetsAssumption DEF LimitsChange, IInv, TypeOK
  <2> QED  BY <2>1, <2>2 DEF IInv, PlanKept, Outcomes, BlockedOnlyWithCause
<1>5. CASE UNCHANGED vars
  <2>1. \A b : Verdict(b)' = Verdict(b)
    BY <1>5 DEF vars, Verdict
  <2> QED  BY <1>5, <2>1 DEF vars, IInv, TypeOK, PlanKept, Outcomes, BlockedOnlyWithCause
<1> QED  BY <1>1, <1>2, <1>h, <1>3, <1>4, <1>5 DEF Next

\* The invariant holds in every reachable state.
LEMMA SpecIInv == Spec => []IInv
BY InitIInv, NextIInv, PTL DEF Spec

-----------------------------------------------------------------------------
(***************************************************************************)
(* The model's state keeps its shape, and no action is both done and       *)
(* pending.                                                                *)
(***************************************************************************)
THEOREM TypeCorrect == Spec => []TypeOK
<1>1. IInv => TypeOK
  BY DEF IInv
<1> QED  BY <1>1, SpecIInv, PTL

(***************************************************************************)
(* The policy and the planner never ask for what the gates refuse: a       *)
(* planned action is Blocked only without root, on pid 1, or as a          *)
(* MemoryMax whose MemoryHigh failed in the same plan or did not show in   *)
(* the unit's cgroup (safety::evaluate, dispatch_with_prior).              *)
(***************************************************************************)
THEOREM PlanPassesGates == Spec => []BlockedOnlyWithCause
<1>1. IInv => BlockedOnlyWithCause
  BY DEF IInv
<1> QED  BY <1>1, SpecIInv, PTL

(***************************************************************************)
(* Every executed change had every permission it needs: root, no dry_run,  *)
(* real pressure, a flagged and unprotected target, the global switches    *)
(* (actions::execute behind the whole decision chain).                     *)
(***************************************************************************)
THEOREM ChangesArePermitted == Spec => []ExecutedIsPermitted
<1>1. IInv => ExecutedIsPermitted
  <2> SUFFICES ASSUME IInv, NEW r \in results, r.status = "Executed",
                      ChangesState(r.action.kind)
               PROVE  /\ mode = "apply" /\ root /\ ~ config.dryRun
                      /\ r.action.target # InitPid
                      /\ Permitted(r.action, config, hasPsi, level, procs, flagged)
    BY DEF ExecutedIsPermitted, Permitted
  <2>1. pc = "act"
    BY DEF IInv, PlanKept, TypeOK
  <2>2. /\ Evaluate(r.action, config, Resolve(config), TRUE) # "Block"
        /\ Permitted(r.action, config, hasPsi, level, procs, flagged)
    BY <2>1, CurrentAction DEF IInv, WellPlanned
  <2>3. mode = "apply" /\ Verdict(r.action) = "Allow" /\ root \in BOOLEAN
    BY DEF IInv, Outcomes, TypeOK
  <2>4. r.action.target # InitPid
    BY <2>2 DEF IInv, Outcomes, Permitted
  <2> QED  BY <2>2, <2>3, <2>4, RefusedWithoutRoot DEF Verdict
<1> QED  BY <1>1, SpecIInv, PTL

(***************************************************************************)
(* And the decision misses nothing: a tick under pressure that plans no    *)
(* change has no flagged target on which the gates would allow a relief    *)
(* (decide's fallbacks to Recommend and Alert).                            *)
(***************************************************************************)
THEOREM NothingMissed == Spec => []NoMissedRelief
<1>1. IInv => NoMissedRelief
  <2> DEFINE r == Resolve(config)
             state == StateOf(hasPsi, level, procs, flagged)
             d == Decide(state, r, procs, flagged)
             act(k, t) == [kind |-> k, risk |-> RiskOf(k), target |-> t]
  <2> SUFFICES ASSUME IInv, pc = "act", level >= Moderate,
                      \A a \in plan \cup {q.action : q \in results} : ~ ChangesState(a.kind),
                      NEW kind \in PriorityKinds \cup LimitKinds,
                      NEW target \in Pids \cup Units, Relief(kind, target),
                      Evaluate(act(kind, target), config, r, TRUE) # "Block"
               PROVE  FALSE
    BY DEF NoMissedRelief
  <2>1. /\ config \in Configs /\ hasPsi \in BOOLEAN /\ level \in Levels
        /\ procs \in [Pids -> SUBSET ProcessFlags] /\ flagged \in SUBSET Units
    BY DEF IInv, TypeOK
  <2>2. \A k \in KindsFor(d.intent, r), t \in d.targets : ~ ChangesState(k)
    <3> SUFFICES ASSUME NEW k \in KindsFor(d.intent, r), NEW t \in d.targets
                 PROVE  ~ ChangesState(k)
      OBVIOUS
    <3>1. act(k, t) \in TickPlan(config, hasPsi, level, procs, flagged)
      BY DEF TickPlan, Plan
    <3>2. act(k, t) \in plan \cup {q.action : q \in results}
      BY <3>1 DEF IInv, PlanKept
    <3> QED  BY <3>2
  <2>3. /\ RiskOf(kind) <= r.risk /\ target \notin ProtectedPids \cup ProtectedUnits
        /\ kind \in LimitKinds => target \notin Units \ AllowedUnits
        /\ kind \in r.allows
    <3>1. ChangesState(kind)
      BY DEF ChangesState, PriorityKinds, LimitKinds, SafeKinds
    <3>2. r.risk \in Int /\ RiskOf(kind) \in Int
      BY <2>1, ResolveFacts DEF RiskOf, SafeRisk, ModerateRisk, AggressiveRisk
    <3> QED  BY <3>1, <3>2 DEF Evaluate
  <2>4. r.risk \in Int /\ r.risk >= ModerateRisk
    <3>1. RiskOf(kind) >= ModerateRisk
      BY DEF RiskOf, PriorityKinds, LimitKinds, SafeKinds, ModerateRisk, AggressiveRisk
    <3> QED  BY <2>1, <2>3, <3>1, ResolveFacts DEF SafeRisk, ModerateRisk, AggressiveRisk, RiskOf
  <2>5. state \in Pressured /\ state \in States
    <3>1. hasPsi
      BY DEF IInv, PlanKept, NoPressure, Moderate
    <3> QED  BY <2>1, <3>1, StateFacts
  <2>6. \/ d = Decision("ApplyCgroupSystemdLimit", CgroupTargets(r, flagged))
           /\ CgroupTargets(r, flagged) # {}
        \/ d = Decision("AdjustProcessPriority", ProcessTargets(r, procs))
           /\ ProcessTargets(r, procs) # {}
        \/ d = Decision("ApplyZram", {System})
        \/ CgroupTargets(r, flagged) = {} /\ ProcessTargets(r, procs) = {}
    BY <2>1, <2>4, <2>5, DecideFacts
  <2>7. CASE /\ d = Decision("ApplyCgroupSystemdLimit", CgroupTargets(r, flagged))
             /\ CgroupTargets(r, flagged) # {}
    <3>1. PICK k \in r.allows : k \in {"SetMemoryHigh", "SetCpuWeight", "SetIoWeight"}
      BY <2>7 DEF CgroupTargets
    <3>2. k \in KindsFor(d.intent, r) /\ d.targets # {}
      BY <2>7, <3>1 DEF KindsFor, Decision, LimitKinds
    <3>3. ChangesState(k)
      BY <3>1 DEF ChangesState, SafeKinds
    <3> QED  BY <2>2, <3>2, <3>3
  <2>8. CASE /\ d = Decision("AdjustProcessPriority", ProcessTargets(r, procs))
             /\ ProcessTargets(r, procs) # {}
    <3>1. PICK k \in r.allows : k \in PriorityKinds
      BY <2>8 DEF ProcessTargets, PriorityKinds
    <3>2. k \in KindsFor(d.intent, r) /\ d.targets # {}
      BY <2>8, <3>1 DEF KindsFor, Decision
    <3>3. ChangesState(k)
      BY <3>1 DEF ChangesState, PriorityKinds, SafeKinds
    <3> QED  BY <2>2, <3>2, <3>3
  <2>9. CASE d = Decision("ApplyZram", {System})
    <3>1. "ApplyZram" \in KindsFor(d.intent, r) /\ System \in d.targets
      BY <2>9 DEF KindsFor, Decision
    <3> QED  BY <2>2, <3>1 DEF ChangesState, SafeKinds
  <2>10. CASE CgroupTargets(r, flagged) = {} /\ ProcessTargets(r, procs) = {}
    <3>1. CASE kind \in PriorityKinds
      <4>1. target \in Pids \ ProtectedPids
        BY <2>3, <3>1 DEF Relief, PriorityKinds, LimitKinds
      <4>2. target \in ProcessTargets(r, procs)
        BY <2>3, <3>1, <4>1 DEF Relief, ProcessTargets, PriorityKinds, LimitKinds
      <4> QED  BY <2>10, <4>2
    <3>2. CASE kind \in LimitKinds
      <4>1. target \in flagged /\ target \in AllowedUnits \ ProtectedUnits
        BY <2>1, <2>3, <3>2 DEF Relief, PriorityKinds, LimitKinds
      <4>2. r.allows \cap {"SetMemoryHigh", "SetCpuWeight", "SetIoWeight"} # {}
        BY <2>1, <2>3, <3>2, ResolveFacts
      <4> QED  BY <2>10, <4>1, <4>2 DEF CgroupTargets
    <3> QED  BY <3>1, <3>2
  <2> QED  BY <2>6, <2>7, <2>8, <2>9, <2>10
<1> QED  BY <1>1, SpecIInv, PTL
=============================================================================
