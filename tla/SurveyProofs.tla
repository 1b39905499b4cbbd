----------------------------- MODULE SurveyProofs -----------------------------
(***************************************************************************)
(* What a scan says of the processes, and what acting on it may touch, for *)
(* every set of pids, names, rules and units, and however often the world  *)
(* changes.                                                                *)
(*                                                                         *)
(* The inductive invariant follows one reading from /proc to the system    *)
(* call: while a process keeps its pid and its name, the name, the ticks   *)
(* and the memory that were read of it stay a lower bound of what is true  *)
(* (ReadingTrue, EntriesTrue), the plan holds unprotected entries only     *)
(* (PlanSane), and `act` is the last step of the one command that has it   *)
(* (StepsSane), so nothing can fail after it began (EffectsSane); only     *)
(* `rollback apply` reverts, and it is over with that step.                *)
(***************************************************************************)
EXTENDS Survey, SequenceTheorems, TLAPS

\* ps[pid] had this name when it was read, and has used this many ticks.
ReadTrue(r, ps, status) ==
  (ps[r.pid].comm # NoComm /\ ps[r.pid].named <= r.readAt) =>
    /\ r.comm = ps[r.pid].comm
    /\ status => r.ticks <= ps[r.pid].ticks

EntryTrue(e, ps, up) ==
  (ps[e.pid].comm # NoComm /\ ps[e.pid].named <= e.readAt) =>
    /\ e.comm = ps[e.pid].comm
    /\ e.highCpu => up # Uptime \/ HighCpu(ps[e.pid].comm, ps[e.pid].ticks, Uptime)
    /\ e.highMemory => HighMemory(ps[e.pid].comm, ps[e.pid].peak)

ServiceTrue(s, us) ==
  s.over => /\ s.unit \in AllowedUnits \ ProtectedUnits /\ s.unit \in DOMAIN UnitLimits
            /\ us[s.unit].peak > UnitLimits[s.unit]

\* Whoever has a pid after a step of the world and took its name before it had it before it.
LivesOn(ps, qs, now) ==
  \A p \in Pids :
    (qs[p].comm # NoComm /\ qs[p].named <= now) =>
      /\ ps[p].comm = qs[p].comm /\ ps[p].named = qs[p].named
      /\ ps[p].ticks <= qs[p].ticks /\ ps[p].peak <= qs[p].peak

WorldSane ==
  /\ \A p \in Pids : procs[p].named <= clock /\ procs[p].rss <= procs[p].peak
  /\ \A u \in Units : units[u].memory <= units[u].peak

ReadingTrue ==
  at # "comm" => ReadTrue(reading, procs, at = "status") /\ reading.readAt <= clock

EntriesTrue ==
  /\ \A e \in entries : /\ EntryTrue(e, procs, uptime) /\ e.readAt <= clock
                        /\ e.isProtected <=> e.comm \in ProtectedComms
  /\ \A s \in unread : ~ s.over
  /\ \A s \in found : ServiceTrue(s, units)

PlanSane ==
  /\ \A t \in renices : \E e \in entries :
       e.pid = t.pid /\ e.readAt = t.readAt /\ e.comm \notin ProtectedComms
  /\ limits \cap ProtectedUnits = {}

StepNames ==
  {"collect", "pids", "read", "units", "props", "plan", "store", "act", "validate",
   "revert"}

\* pids come before they are read, and nothing comes after act.
StepsOrdered(s) ==
  /\ s \in Seq(StepNames)
  /\ \A i, j \in 1 .. Len(s) : s[i] = "pids" /\ s[j] = "read" => i < j
  /\ \A i \in 1 .. Len(s) : s[i] = "act" => i = Len(s)

Within(s, steps) == \A i \in 1 .. Len(s) : s[i] \in steps

StepsSane ==
  /\ StepsOrdered(rest)
  /\ cmd # "apply" => \A i \in 1 .. Len(rest) : rest[i] # "act"
  /\ cmd # "rollback" => \A i \in 1 .. Len(rest) : rest[i] # "revert"
  /\ code = Idle => entries = {} /\ at = "comm"
  /\ (entries # {} \/ at # "comm") => \A i \in 1 .. Len(rest) : rest[i] # "pids"

EffectsSane ==
  /\ (touched # {} \/ limited # {}) =>
       /\ cmd = "apply" /\ permitted /\ code \in {Running, Success}
       /\ code = Running => rest = <<>> \/ Head(rest) = "act"
  /\ reverted => cmd = "rollback" /\ code # Idle

IInv ==
  /\ TypeOK /\ WorldSane /\ ReadingTrue /\ EntriesTrue /\ PlanSane /\ StepsSane /\ EffectsSane
  /\ ProtectedSpared

-----------------------------------------------------------------------------
\* The steps of every command are in order.
LEMMA StepsInOrder ==
  ASSUME NEW c \in Commands
  PROVE  /\ StepsOrdered(Steps(c))
         /\ c # "apply" => \A i \in 1 .. Len(Steps(c)) : Steps(c)[i] # "act"
         /\ c # "rollback" => \A i \in 1 .. Len(Steps(c)) : Steps(c)[i] # "revert"
<1>1. CASE c = "doctor"
  BY <1>1 DEF Steps, StepsOrdered, StepNames, Inspect
<1>2. CASE c = "status"
  BY <1>2 DEF Steps, StepsOrdered, StepNames, Measure
<1>3. CASE c = "processes"
  BY <1>3 DEF Steps, StepsOrdered, StepNames, ScanProcesses
<1>4. CASE c = "services"
  BY <1>4 DEF Steps, StepsOrdered, StepNames, ScanServices
<1>5. CASE c = "analyze"
  BY <1>5 DEF Steps, StepsOrdered, StepNames, Analysis
<1>6. CASE c = "apply"
  <2> DEFINE s == Steps(c) front == Analysis back == <<"store", "act">>
  <2>1. s = front \o back
    BY <1>6 DEF Steps
  <2>2. /\ front \in Seq(StepNames) /\ Len(front) = 6
        /\ front[1] = "collect" /\ front[2] = "pids" /\ front[3] = "read"
        /\ front[4] = "units" /\ front[5] = "props" /\ front[6] = "plan"
    BY DEF Analysis, StepNames
  <2>3. /\ back \in Seq(StepNames) /\ Len(back) = 2
        /\ back[1] = "store" /\ back[2] = "act"
    BY DEF StepNames
  <2> HIDE DEF front, back, s
  <2>4. /\ s \in Seq(StepNames) /\ Len(s) = 8
        /\ \A i \in 1 .. 8 : s[i] = IF i <= 6 THEN front[i] ELSE back[i - 6]
    <3>1. /\ front \o back \in Seq(StepNames) /\ Len(front \o back) = Len(front) + Len(back)
          /\ \A i \in 1 .. Len(front) + Len(back) :
               (front \o back)[i] = IF i <= Len(front) THEN front[i] ELSE back[i - Len(front)]
      BY <2>2, <2>3, ConcatProperties
    <3> QED
      BY <3>1, <2>1, <2>2, <2>3
  <2>5. /\ s[1] = "collect" /\ s[2] = "pids" /\ s[3] = "read" /\ s[4] = "units"
        /\ s[5] = "props" /\ s[6] = "plan" /\ s[7] = "store" /\ s[8] = "act"
    BY <2>2, <2>3, <2>4
  <2>6. StepsOrdered(s) /\ \A i \in 1 .. Len(s) : s[i] # "revert"
    BY <2>4, <2>5 DEF StepsOrdered
  <2> QED
    BY <1>6, <2>6 DEF s
<1>7. CASE c = "validate"
  BY <1>7 DEF Steps, StepsOrdered, StepNames
<1>8. CASE c = "list"
  BY <1>8 DEF Steps, StepsOrdered, StepNames, ListStore
<1>9. CASE c = "rollback"
  BY <1>9 DEF Steps, StepsOrdered, StepNames, Undo
<1> QED
  BY <1>1, <1>2, <1>3, <1>4, <1>5, <1>6, <1>7, <1>8, <1>9 DEF Commands

\* What is left after a step is in order, and holds no step that was not there.
LEMMA TailInOrder ==
  ASSUME NEW s, StepsOrdered(s), s # <<>>
  PROVE  /\ StepsOrdered(Tail(s))
         /\ \A i \in 1 .. Len(Tail(s)) : i + 1 \in 1 .. Len(s) /\ Tail(s)[i] = s[i + 1]
         /\ Head(s) = s[1] /\ 1 \in 1 .. Len(s)
         /\ Head(s) = "act" => Tail(s) = <<>>
<1>1. s \in Seq(StepNames) /\ Len(s) \in Nat \ {0}
  BY DEF StepsOrdered
<1>2. /\ Tail(s) \in Seq(StepNames) /\ Len(Tail(s)) = Len(s) - 1
      /\ \A i \in 1 .. Len(Tail(s)) : i + 1 \in 1 .. Len(s) /\ Tail(s)[i] = s[i + 1]
  BY <1>1
<1>3. Head(s) = s[1] /\ 1 \in 1 .. Len(s)
  BY <1>1
<1> DEFINE t == Tail(s) n == Len(t)
<1>a. n \in Nat /\ Len(s) = n + 1
  BY <1>1, <1>2
<1>4. StepsOrdered(t)
  <2>1. ASSUME NEW i \in 1 .. n, NEW j \in 1 .. n, t[i] = "pids", t[j] = "read"
        PROVE  i < j
    <3>1. s[i + 1] = "pids" /\ s[j + 1] = "read" /\ i + 1 \in 1 .. Len(s) /\ j + 1 \in 1 .. Len(s)
      BY <1>2, <2>1
    <3>2. i + 1 < j + 1
      BY <3>1 DEF StepsOrdered
    <3> QED
      BY <3>2, <1>a
  <2>2. ASSUME NEW i \in 1 .. n, t[i] = "act" PROVE i = n
    <3>1. s[i + 1] = "act" /\ i + 1 \in 1 .. Len(s)
      BY <1>2, <2>2
    <3>2. i + 1 = Len(s)
      BY <3>1 DEF StepsOrdered
    <3> QED
      BY <3>2, <1>a
  <2> QED
    BY <1>2, <2>1, <2>2 DEF StepsOrdered
<1>5. Head(s) = "act" => t = <<>>
  <2>1. Head(s) = "act" => Len(s) = 1
    BY <1>3 DEF StepsOrdered
  <2> QED
    BY <2>1, <1>a, <1>2
<1> QED
  BY <1>2, <1>3, <1>4, <1>5

\* Once a pid is read, /proc is not listed again.
LEMMA ReadAfterPids ==
  ASSUME NEW s, StepsOrdered(s), s # <<>>, Head(s) = "read"
  PROVE  \A i \in 1 .. Len(s) : s[i] # "pids"
BY TailInOrder DEF StepsOrdered

-----------------------------------------------------------------------------
\* More ticks and more memory cannot clear a flag.
LEMMA FlagsGrow ==
  ASSUME NEW comm, NEW x \in Nat, NEW y \in Nat, x <= y, NEW up \in Nat
  PROVE  /\ HighCpu(comm, x, up) => HighCpu(comm, y, up)
         /\ HighMemory(comm, x) => HighMemory(comm, y)
BY ProcessAssumption DEF HighCpu, HighMemory

\* What was read of a process is still true of it after a step of the world.
LEMMA ReadStays ==
  ASSUME NEW ps \in [Pids -> Processes], NEW qs \in [Pids -> Processes], NEW now \in Times,
         LivesOn(ps, qs, now)
  PROVE  /\ \A r \in [pid : Pids, comm : Comms, readAt : Times, ticks : 0 .. MaxTicks],
               status \in BOOLEAN :
              r.readAt <= now /\ ReadTrue(r, ps, status) => ReadTrue(r, qs, status)
         /\ \A e \in Entries, up \in Nat :
              e.readAt <= now /\ EntryTrue(e, ps, up) => EntryTrue(e, qs, up)
<1> USE ProcessAssumption
<1>1. ASSUME NEW r \in [pid : Pids, comm : Comms, readAt : Times, ticks : 0 .. MaxTicks],
             NEW status \in BOOLEAN, r.readAt <= now, ReadTrue(r, ps, status)
      PROVE  ReadTrue(r, qs, status)
  BY <1>1 DEF ReadTrue, LivesOn, Processes, Times
<1>2. ASSUME NEW e \in Entries, NEW up \in Nat, e.readAt <= now, EntryTrue(e, ps, up)
      PROVE  EntryTrue(e, qs, up)
  <2> DEFINE p == ps[e.pid] q == qs[e.pid]
  <2>1. p \in Processes /\ q \in Processes /\ e.pid \in Pids /\ e.readAt \in Nat
    BY DEF Entries, Times
  <2>2. SUFFICES ASSUME q.comm # NoComm, q.named <= e.readAt
        PROVE  /\ e.comm = q.comm
               /\ e.highCpu => up # Uptime \/ HighCpu(q.comm, q.ticks, Uptime)
               /\ e.highMemory => HighMemory(q.comm, q.peak)
    BY DEF EntryTrue
  <2>3. q.named <= now
    BY <1>2, <2>1, <2>2 DEF Processes, Times
  <2>4. p.comm = q.comm /\ p.named = q.named /\ p.ticks <= q.ticks /\ p.peak <= q.peak
    BY <2>1, <2>2, <2>3 DEF LivesOn
  <2>5. /\ e.comm = p.comm
        /\ e.highCpu => up # Uptime \/ HighCpu(p.comm, p.ticks, Uptime)
        /\ e.highMemory => HighMemory(p.comm, p.peak)
    BY <1>2, <2>2, <2>4 DEF EntryTrue
  <2>6. p.ticks \in Nat /\ q.ticks \in Nat /\ p.peak \in Nat /\ q.peak \in Nat
    BY <2>1 DEF Processes
  <2> HIDE DEF p, q
  <2>7. /\ HighCpu(p.comm, p.ticks, Uptime) => HighCpu(p.comm, q.ticks, Uptime)
        /\ HighMemory(p.comm, p.peak) => HighMemory(p.comm, q.peak)
    BY <2>4, <2>6, FlagsGrow
  <2> QED
    BY <2>4, <2>5, <2>7
<1> QED
  BY <1>1, <1>2

-----------------------------------------------------------------------------
UnitRecords == [loaded : BOOLEAN, failing : BOOLEAN, memory : Memories, peak : Memories]

LEMMA InitIInv == Init => IInv
<1> SUFFICES ASSUME Init PROVE IInv
  OBVIOUS
<1> USE ProcessAssumption, UnitAssumption
<1>1. Gone \in Processes /\ NewUnit \in UnitRecords
  BY DEF Gone, Processes, Times, NewUnit, UnitRecords, Memories, Unknown
<1>2. \A c \in Comms, n \in 0 .. MaxTicks :
        LET q == [NewProcess(0, c) EXCEPT !.ticks = n]
        IN  q \in Processes /\ q.named = 0 /\ q.rss = 0 /\ q.peak = 0
  BY DEF NewProcess, Processes, Times
<1>3. procs \in [Pids -> Processes] /\ \A p \in Pids : procs[p].named = 0 /\ procs[p].rss = 0
        /\ procs[p].peak = 0
  <2>1. procs \in [Pids -> {Gone} \cup {[NewProcess(0, c) EXCEPT !.ticks = n] :
                                         c \in Comms, n \in 0 .. MaxTicks}]
    BY DEF Init
  <2>2. \A q \in {Gone} \cup {[NewProcess(0, c) EXCEPT !.ticks = n] :
                             c \in Comms, n \in 0 .. MaxTicks} :
          q \in Processes /\ q.named = 0 /\ q.rss = 0 /\ q.peak = 0
    <3>1. Gone \in Processes /\ Gone.named = 0 /\ Gone.rss = 0 /\ Gone.peak = 0
      BY <1>1 DEF Gone
    <3>2. ASSUME NEW q, NEW c \in Comms, NEW n \in 0 .. MaxTicks,
                 q = [NewProcess(0, c) EXCEPT !.ticks = n]
          PROVE  q \in Processes /\ q.named = 0 /\ q.rss = 0 /\ q.peak = 0
      BY <1>2, <3>2
    <3> QED
      BY <3>1, <3>2
  <2> QED
    BY <2>1, <2>2
<1>4. units \in [Units -> UnitRecords] /\ \A u \in Units : units[u].memory = units[u].peak
        /\ units[u].memory \in Int
  BY <1>1 DEF Init, NewUnit, Unknown
<1>5. TypeOK
  <2>1. clock \in Times /\ listedAt \in Times /\ uptime \in Nat \ {0}
    BY DEF Init, Times
  <2>2. cmd \in Commands /\ permitted \in BOOLEAN
    BY DEF Init, Commands
  <2>3. code \in {Success, RuntimeError, ValidationFailed, Running, Idle}
    BY DEF Init
  <2>4. /\ at \in {"comm", "stat", "status"} /\ at = "comm" /\ reading = Blank
        /\ listed = {} /\ entries = {} /\ unread = {} /\ found = {} /\ renices = {}
        /\ limits = {} /\ touched = {} /\ limited = {} /\ missed = {} /\ reverted = FALSE
    BY DEF Init
  <2> QED
    BY <1>3, <1>4, <2>1, <2>2, <2>3, <2>4 DEF TypeOK, UnitRecords
<1>6. WorldSane
  BY <1>3, <1>4 DEF Init, WorldSane
<1>7. ReadingTrue /\ EntriesTrue /\ PlanSane /\ EffectsSane /\ ProtectedSpared
  BY DEF Init, ReadingTrue, EntriesTrue, PlanSane, EffectsSane, ProtectedSpared
<1>8. StepsSane
  BY DEF Init, StepsSane, StepsOrdered
<1> QED
  BY <1>5, <1>6, <1>7, <1>8 DEF IInv

\* What Live needs to know of the process that it leaves.
LEMMA LiveSane ==
  ASSUME TypeOK, WorldSane, NEW p \in Pids, NEW q \in Processes, Live(p, q),
         q.named <= clock + 1, q.rss <= q.peak,
         (q.comm # NoComm /\ q.named <= clock) =>
           /\ procs[p].comm = q.comm /\ procs[p].named = q.named
           /\ procs[p].ticks <= q.ticks /\ procs[p].peak <= q.peak
  PROVE  /\ procs' \in [Pids -> Processes] /\ clock' \in Times /\ clock <= clock'
         /\ LivesOn(procs, procs', clock)
         /\ \A o \in Pids : procs'[o].named <= clock' /\ procs'[o].rss <= procs'[o].peak
         /\ units' = units
<1> USE ProcessAssumption
<1>1. /\ clock \in Times /\ clock < MaxChanges /\ clock' = clock + 1 /\ units' = units
      /\ procs \in [Pids -> Processes] /\ procs' = [procs EXCEPT ![p] = q]
  BY DEF TypeOK, Live, Later
<1>2. clock' \in Times /\ clock <= clock' /\ clock' \in Nat /\ clock \in Nat
  BY <1>1 DEF Times
<1>3. \A o \in Pids : procs'[o] = IF o = p THEN q ELSE procs[o]
  BY <1>1
<1>4. \A o \in Pids : /\ procs[o].ticks \in Nat /\ procs[o].peak \in Nat /\ procs[o].named \in Nat
                      /\ procs[o].named <= clock /\ procs[o].rss <= procs[o].peak
  BY <1>1 DEF Processes, Times, WorldSane
<1>5. LivesOn(procs, procs', clock)
  BY <1>3, <1>4 DEF LivesOn
<1>6. \A o \in Pids : procs'[o].named <= clock' /\ procs'[o].rss <= procs'[o].peak
  BY <1>1, <1>2, <1>3, <1>4
<1> QED
  BY <1>1, <1>2, <1>3, <1>5, <1>6

\* A step of the world, whatever it is.
Moves ==
  /\ procs' \in [Pids -> Processes] /\ clock' \in Times /\ clock <= clock'
  /\ LivesOn(procs, procs', clock)
  /\ \A p \in Pids : procs'[p].named <= clock' /\ procs'[p].rss <= procs'[p].peak
  /\ units' \in [Units -> UnitRecords]
  /\ \A u \in Units : units'[u].memory <= units'[u].peak /\ units[u].peak <= units'[u].peak
  /\ UNCHANGED <<command, rest, code, scan, plan, effects>>

LEMMA WorldMoves ==
  ASSUME TypeOK, WorldSane, WorldStep
  PROVE  Moves
<1> USE ProcessAssumption
<1>1. /\ clock \in Times /\ clock \in Nat /\ procs \in [Pids -> Processes]
      /\ units \in [Units -> UnitRecords]
  BY DEF TypeOK, Times, UnitRecords
<1>2. \A u \in Units : units[u].memory \in Int /\ units[u].peak \in Int
                       /\ units[u].memory <= units[u].peak
  BY <1>1 DEF UnitRecords, Memories, Unknown, WorldSane
<1>3. ASSUME NEW p \in Pids, NEW q \in Processes, Live(p, q),
             q.named <= clock + 1, q.rss <= q.peak,
             (q.comm # NoComm /\ q.named <= clock) =>
               /\ procs[p].comm = q.comm /\ procs[p].named = q.named
               /\ procs[p].ticks <= q.ticks /\ procs[p].peak <= q.peak
      PROVE  Moves
  <2>1. UNCHANGED <<command, rest, code, scan, plan, effects>>
    BY <1>3 DEF Live
  <2>2. /\ procs' \in [Pids -> Processes] /\ clock' \in Times /\ clock <= clock'
        /\ LivesOn(procs, procs', clock)
        /\ \A o \in Pids : procs'[o].named <= clock' /\ procs'[o].rss <= procs'[o].peak
        /\ units' = units
    BY <1>3, LiveSane
  <2> QED
    BY <1>1, <1>2, <2>1, <2>2 DEF Moves
<1>4. ASSUME NEW p \in Pids
      PROVE  /\ procs[p].born \in Times /\ procs[p].named \in Nat /\ procs[p].named \in Times
             /\ procs[p].ticks \in 0 .. MaxTicks /\ procs[p].rss \in 0 .. MaxMemory
             /\ procs[p].peak \in 0 .. MaxMemory /\ procs[p].comm \in Comms \cup {NoComm}
             /\ procs[p].named <= clock /\ procs[p].rss <= procs[p].peak
  BY <1>1 DEF WorldSane, Processes, Times
<1>5. ASSUME NEW p \in Pids, Exit(p) PROVE Moves
  <2>1. Gone \in Processes /\ Gone.named <= clock + 1 /\ Gone.rss <= Gone.peak /\ Gone.comm = NoComm
    BY <1>1 DEF Gone, Processes, Times
  <2> QED
    BY <2>1, <1>3, <1>5 DEF Exit
<1>6. ASSUME NEW p \in Pids, NEW c \in Comms, Spawn(p, c) PROVE Moves
  <2> DEFINE q == NewProcess(clock + 1, c)
  <2>1. Live(p, q) /\ clock + 1 \in Times
    BY <1>1, <1>6 DEF Spawn, Live, Later, Times
  <2>2. q \in Processes /\ q.named = clock + 1 /\ q.rss <= q.peak
    BY <2>1 DEF NewProcess, Processes
  <2> HIDE DEF q
  <2>3. ~ q.named <= clock /\ q.named <= clock + 1
    BY <1>1, <2>2
  <2> QED
    BY <2>1, <2>2, <2>3, <1>3
<1>7. ASSUME NEW p \in Pids, NEW c \in Comms, Exec(p, c) PROVE Moves
  <2> DEFINE q == [procs[p] EXCEPT !.comm = c, !.named = clock + 1]
  <2>1. Live(p, q) /\ clock + 1 \in Times
    BY <1>1, <1>7 DEF Exec, Live, Later, Times
  <2>2. q \in Processes /\ q.named = clock + 1 /\ q.rss <= q.peak
    BY <2>1, <1>1, <1>4 DEF Processes
  <2> HIDE DEF q
  <2>3. ~ q.named <= clock /\ q.named <= clock + 1
    BY <1>1, <2>2
  <2> QED
    BY <2>1, <2>2, <2>3, <1>3
<1>8. ASSUME NEW p \in Pids, Burn(p) PROVE Moves
  <2> DEFINE q == [procs[p] EXCEPT !.ticks = @ + 1]
  <2>1. Live(p, q) /\ procs[p].ticks < MaxTicks
    BY <1>8 DEF Burn
  <2>2. /\ q \in Processes /\ q.named = procs[p].named /\ q.rss = procs[p].rss
        /\ q.peak = procs[p].peak /\ q.comm = procs[p].comm /\ procs[p].ticks <= q.ticks
    BY <2>1, <1>1, <1>4 DEF Processes
  <2> HIDE DEF q
  <2>3. q.named <= clock + 1 /\ q.rss <= q.peak /\ procs[p].peak <= q.peak
    BY <1>1, <1>4, <2>2
  <2> QED
    BY <2>1, <2>2, <2>3, <1>3
<1>9. ASSUME NEW p \in Pids, NEW n \in 0 .. MaxMemory, Resize(p, n) PROVE Moves
  <2> DEFINE q == [procs[p] EXCEPT !.rss = n, !.peak = IF n > @ THEN n ELSE @]
  <2>1. Live(p, q)
    BY <1>9 DEF Resize
  <2>2. /\ q \in Processes /\ q.named = procs[p].named /\ q.comm = procs[p].comm
        /\ q.ticks = procs[p].ticks
    BY <1>1, <1>4 DEF Processes
  <2>3. q.rss = n /\ q.peak = IF n > procs[p].peak THEN n ELSE procs[p].peak
    BY <1>1 DEF Processes
  <2> HIDE DEF q
  <2>4. /\ q.named <= clock + 1 /\ q.rss <= q.peak
        /\ procs[p].peak <= q.peak /\ procs[p].ticks <= q.ticks
    BY <1>1, <1>4, <2>2, <2>3
  <2> QED
    BY <2>1, <2>2, <2>4, <1>3
<1>10. ASSUME NEW u \in Units, NEW n \in UnitRecords, UnitBecomes(u, n),
              n.memory <= n.peak, units[u].peak <= n.peak
       PROVE  Moves
  <2>1. /\ procs' = procs /\ clock' = clock + 1 /\ clock < MaxChanges
        /\ units' = [units EXCEPT ![u] = n]
        /\ UNCHANGED <<command, rest, code, scan, plan, effects>>
    BY <1>10 DEF UnitBecomes, Later
  <2>2. clock' \in Times /\ clock <= clock'
    BY <1>1, <2>1 DEF Times
  <2>3. LivesOn(procs, procs', clock)
    BY <2>1, <1>4 DEF LivesOn
  <2>4. ASSUME NEW p \in Pids
        PROVE  procs'[p].named <= clock' /\ procs'[p].rss <= procs'[p].peak
    <3>1. procs[p].named \in Nat /\ procs[p].named <= clock /\ procs[p].rss <= procs[p].peak
      BY <1>4
    <3>2. procs[p].named <= clock + 1
      BY <1>1, <3>1
    <3> QED
      BY <2>1, <3>1, <3>2
  <2>5. /\ units' \in [Units -> UnitRecords]
        /\ \A o \in Units : units'[o].memory <= units'[o].peak /\ units[o].peak <= units'[o].peak
    <3>1. \A o \in Units : units'[o] = IF o = u THEN n ELSE units[o]
      BY <1>1, <2>1
    <3>2. units' \in [Units -> UnitRecords]
      BY <1>1, <2>1
    <3> QED
      BY <1>2, <1>10, <3>1, <3>2
  <2> QED
    BY <1>1, <2>1, <2>2, <2>3, <2>4, <2>5 DEF Moves
<1>11. ASSUME NEW u \in Units, UnitFails(u) \/ UnitUnloads(u) PROVE Moves
  <2>1. PICK n : /\ UnitBecomes(u, n)
                 /\ \/ n = [units[u] EXCEPT !.failing = TRUE]
                    \/ n = [units[u] EXCEPT !.loaded = FALSE]
    BY <1>11 DEF UnitFails, UnitUnloads
  <2>2. n \in UnitRecords /\ n.memory = units[u].memory /\ n.peak = units[u].peak
    BY <1>1, <2>1 DEF UnitRecords
  <2> QED
    BY <1>2, <1>10, <2>1, <2>2
<1>12. ASSUME NEW u \in Units, NEW n \in Memories, UnitUses(u, n) PROVE Moves
  <2> DEFINE w == [units[u] EXCEPT !.memory = n, !.peak = IF n > @ THEN n ELSE @]
  <2>1. UnitBecomes(u, w)
    BY <1>12 DEF UnitUses
  <2>0. (IF n > units[u].peak THEN n ELSE units[u].peak) \in Memories
    BY <1>1 DEF UnitRecords
  <2>2. /\ w \in UnitRecords /\ w.memory = n
        /\ w.peak = IF n > units[u].peak THEN n ELSE units[u].peak
    BY <1>1, <2>0 DEF UnitRecords
  <2>3. n \in Int
    BY DEF Memories, Unknown
  <2> HIDE DEF w
  <2>4. w.memory <= w.peak /\ units[u].peak <= w.peak
    BY <1>2, <2>2, <2>3
  <2> QED
    BY <1>10, <2>1, <2>2, <2>4
<1> QED
  BY <1>5, <1>6, <1>7, <1>8, <1>9, <1>11, <1>12 DEF WorldStep

LEMMA MovesIInv ==
  ASSUME IInv, Moves
  PROVE  IInv'
<1> USE ProcessAssumption DEF IInv
<1>1. /\ procs' \in [Pids -> Processes] /\ clock' \in Times /\ clock <= clock' /\ clock \in Times
      /\ procs \in [Pids -> Processes] /\ LivesOn(procs, procs', clock)
  BY DEF Moves, TypeOK
<1>2. /\ units' \in [Units -> UnitRecords] /\ units \in [Units -> UnitRecords]
      /\ \A u \in Units : units[u].peak <= units'[u].peak
  BY DEF Moves, TypeOK, UnitRecords
<1>3. /\ cmd' = cmd /\ permitted' = permitted /\ rest' = rest /\ code' = code
      /\ uptime' = uptime /\ listedAt' = listedAt /\ listed' = listed /\ missed' = missed
      /\ at' = at
      /\ reading' = reading /\ entries' = entries /\ unread' = unread /\ found' = found
      /\ renices' = renices /\ limits' = limits /\ touched' = touched /\ limited' = limited
      /\ reverted' = reverted
  BY DEF Moves, command, scan, plan, effects
<1>4. TypeOK'
  BY <1>1, <1>2, <1>3 DEF TypeOK, UnitRecords
<1>5. WorldSane'
  BY DEF Moves, WorldSane
<1>6. ReadingTrue'
  <2> SUFFICES ASSUME at # "comm"
               PROVE  ReadTrue(reading, procs', at = "status") /\ reading.readAt <= clock'
    BY <1>3 DEF ReadingTrue
  <2>1. reading \in [pid : Pids, comm : Comms, readAt : Times, ticks : 0 .. MaxTicks]
    BY DEF TypeOK
  <2>2. ReadTrue(reading, procs, at = "status") /\ reading.readAt <= clock
    BY DEF ReadingTrue
  <2>3. (at = "status") \in BOOLEAN
    OBVIOUS
  <2>4. ReadTrue(reading, procs', at = "status")
    BY <1>1, <2>1, <2>2, <2>3, ReadStays
  <2>5. reading.readAt <= clock'
    BY <1>1, <2>1, <2>2 DEF Times
  <2> QED
    BY <2>4, <2>5
<1>7. EntriesTrue'
  <2>1. ASSUME NEW e \in entries
        PROVE  EntryTrue(e, procs', uptime) /\ e.readAt <= clock'
    <3>1. e \in Entries /\ e.readAt <= clock /\ EntryTrue(e, procs, uptime) /\ uptime \in Nat
      BY DEF TypeOK, EntriesTrue
    <3>2. EntryTrue(e, procs', uptime)
      BY <1>1, <3>1, ReadStays
    <3>3. e.readAt <= clock'
      BY <1>1, <3>1 DEF Times, Entries
    <3> QED
      BY <3>2, <3>3
  <2>2. ASSUME NEW s \in found PROVE ServiceTrue(s, units')
    <3>1. SUFFICES ASSUME s.over PROVE units'[s.unit].peak > UnitLimits[s.unit]
      BY DEF EntriesTrue, ServiceTrue
    <3>2. /\ s.unit \in Units /\ units[s.unit].peak > UnitLimits[s.unit]
          /\ s.unit \in DOMAIN UnitLimits
      BY <3>1 DEF EntriesTrue, ServiceTrue, TypeOK, Services
    <3>3. /\ units[s.unit].peak \in Int /\ units'[s.unit].peak \in Int
          /\ UnitLimits[s.unit] \in Int /\ units[s.unit].peak <= units'[s.unit].peak
      BY <1>2, <3>2, UnitAssumption DEF UnitRecords, Memories, Unknown
    <3> QED
      BY <3>2, <3>3
  <2> QED
    BY <1>3, <2>1, <2>2 DEF EntriesTrue
<1>8. PlanSane' /\ StepsSane' /\ EffectsSane' /\ ProtectedSpared'
  BY <1>3 DEF PlanSane, StepsSane, EffectsSane, ProtectedSpared
<1> QED
  BY <1>4, <1>5, <1>6, <1>7, <1>8

-----------------------------------------------------------------------------
\* A step of the command that goes on to the next one.
LEMMA Advances ==
  ASSUME StepsSane, EffectsSane, rest # <<>>, rest' = Tail(rest), code = Running,
         UNCHANGED <<cmd, permitted, code, entries, at, touched, limited, reverted>>
  PROVE  StepsSane' /\ EffectsSane'
<1>1. /\ StepsOrdered(Tail(rest))
      /\ \A i \in 1 .. Len(Tail(rest)) : i + 1 \in 1 .. Len(rest) /\ Tail(rest)[i] = rest[i + 1]
      /\ Head(rest) = "act" => Tail(rest) = <<>>
  BY TailInOrder DEF StepsSane
<1>2. code # Idle
  BY DEF Running, Idle
<1>3. StepsSane'
  BY <1>1, <1>2 DEF StepsSane
<1>4. EffectsSane'
  BY <1>1 DEF EffectsSane
<1> QED
  BY <1>3, <1>4

\* What it means that a step is next.
LEMMA DoingFacts ==
  ASSUME NEW step, StepsSane, Doing(step)
  PROVE  /\ code = Running /\ rest # <<>> /\ rest[1] = step /\ 1 \in 1 .. Len(rest)
         /\ step = "read" => \A i \in 1 .. Len(rest) : rest[i] # "pids"
         /\ step = "pids" => entries = {} /\ at = "comm"
         /\ step = "act" => cmd = "apply"
         /\ step = "revert" => cmd = "rollback"
<1>1. /\ code = Running /\ rest # <<>> /\ Head(rest) = step /\ StepsOrdered(rest)
  BY DEF Doing, StepsSane
<1>2. rest[1] = step /\ 1 \in 1 .. Len(rest)
  BY <1>1, TailInOrder
<1>3. step = "read" => \A i \in 1 .. Len(rest) : rest[i] # "pids"
  BY <1>1, ReadAfterPids
<1> QED
  BY <1>1, <1>2, <1>3 DEF StepsSane

\* A step that only begins the command, goes on with it or ends it.
LEMMA ControlStep ==
  ASSUME IInv, UNCHANGED <<world, scan, plan, effects>>,
         cmd' \in Commands, permitted' \in BOOLEAN,
         code' \in {Success, RuntimeError, ValidationFailed, Running, Idle},
         StepsSane', EffectsSane'
  PROVE  IInv'
<1> USE DEF IInv
<1>1. /\ clock' = clock /\ procs' = procs /\ units' = units
      /\ uptime' = uptime /\ listedAt' = listedAt /\ listed' = listed /\ missed' = missed
      /\ at' = at
      /\ reading' = reading /\ entries' = entries /\ unread' = unread /\ found' = found
      /\ renices' = renices /\ limits' = limits /\ touched' = touched /\ limited' = limited
      /\ reverted' = reverted
  BY DEF world, scan, plan, effects
<1>2. TypeOK'
  BY <1>1 DEF TypeOK
<1>3. WorldSane' /\ ReadingTrue' /\ EntriesTrue'
  BY <1>1 DEF WorldSane, ReadingTrue, EntriesTrue
<1>4. PlanSane' /\ ProtectedSpared'
  BY <1>1 DEF PlanSane, ProtectedSpared
<1> QED
  BY <1>2, <1>3, <1>4

LEMMA InvokeIInv ==
  ASSUME IInv, NEW c \in Commands, NEW dryRun \in BOOLEAN, NEW r \in BOOLEAN,
         NEW loaded \in BOOLEAN, NEW flag, Invoke(c, dryRun, flag, r, loaded)
  PROVE  IInv'
<1> USE DEF IInv
<1>1. /\ UNCHANGED <<world, scan, plan, effects>> /\ code = Idle /\ cmd' = c
      /\ rest' = (IF loaded THEN Steps(c) ELSE <<>>)
      /\ code' = (IF loaded THEN Running ELSE RuntimeError)
  BY DEF Invoke
<1>2. permitted' \in BOOLEAN
  BY DEF Invoke, Overridden
<1>3. code' \in {RuntimeError, Running} /\ code' # Idle
  BY <1>1 DEF RuntimeError, Running, Idle
<1>4. /\ entries' = {} /\ at' = "comm" /\ touched' = touched /\ limited' = limited
      /\ reverted' = reverted
  BY <1>1 DEF StepsSane, scan, effects
<1>5. /\ StepsOrdered(rest')
      /\ c # "apply" => \A i \in 1 .. Len(rest') : rest'[i] # "act"
      /\ c # "rollback" => \A i \in 1 .. Len(rest') : rest'[i] # "revert"
  <2>1. StepsOrdered(<<>>) /\ Len(<<>>) = 0
    BY DEF StepsOrdered
  <2> QED
    BY <1>1, <2>1, StepsInOrder
<1>6. StepsSane'
  BY <1>1, <1>3, <1>4, <1>5 DEF StepsSane
<1>7. EffectsSane'
  <2>1. touched = {} /\ limited = {} /\ ~ reverted
    BY <1>1 DEF EffectsSane, Idle, Running, Success
  <2> QED
    BY <1>4, <2>1 DEF EffectsSane
<1> QED
  BY <1>1, <1>2, <1>3, <1>6, <1>7, ControlStep

\* Only the first steps can end the command early: nothing has been touched then.
LEMMA EndsIInv ==
  ASSUME IInv, NEW step \in {"collect", "validate", "store"}, Doing(step),
         NEW n \in {Success, RuntimeError, ValidationFailed}, Ends(n),
         UNCHANGED <<world, command, scan, plan, effects>>
  PROVE  IInv'
<1> USE DEF IInv
<1>1. code = Running /\ rest # <<>> /\ Head(rest) = step
  BY DEF Doing
<1>2. touched = {} /\ limited = {}
  BY <1>1 DEF EffectsSane
<1>3. /\ cmd' = cmd /\ permitted' = permitted /\ rest' = <<>> /\ code' = n
      /\ touched' = {} /\ limited' = {} /\ reverted' = reverted /\ entries' = entries
      /\ at' = at
  BY <1>2 DEF Ends, command, effects, scan
<1>4. n # Idle
  BY DEF Idle, Success, RuntimeError, ValidationFailed
<1>5. StepsOrdered(<<>>) /\ Len(<<>>) = 0
  BY DEF StepsOrdered
<1>6. StepsSane' /\ EffectsSane'
  BY <1>3, <1>4, <1>5 DEF StepsSane, EffectsSane
<1>7. cmd' \in Commands /\ permitted' \in BOOLEAN
  BY <1>3 DEF TypeOK
<1> QED
  BY <1>3, <1>6, <1>7, ControlStep

\* Collect, ProcessesRead, ServicesRead, OpenStore and Acted.
LEMMA GoesOnIInv ==
  ASSUME IInv, NEW step, Doing(step), rest' = Tail(rest),
         UNCHANGED <<world, command, code, scan, plan, effects>>
  PROVE  IInv'
<1> USE DEF IInv
<1>1. /\ cmd' = cmd /\ permitted' = permitted /\ code' = code
      /\ touched' = touched /\ limited' = limited /\ reverted' = reverted
      /\ entries' = entries /\ at' = at
  BY DEF command, effects, scan
<1>2. code = Running /\ rest # <<>>
  BY DEF Doing
<1>3. StepsSane' /\ EffectsSane'
  BY <1>1, <1>2, Advances
<1> QED
  BY <1>1, <1>3, ControlStep DEF TypeOK

LEMMA SucceedIInv ==
  ASSUME IInv, Succeed
  PROVE  IInv'
<1> USE DEF IInv
<1>1. /\ cmd' = cmd /\ permitted' = permitted /\ code' = Success /\ code = Running
      /\ rest' = rest /\ touched' = touched /\ limited' = limited /\ reverted' = reverted
      /\ entries' = entries
      /\ at' = at /\ UNCHANGED <<world, scan, plan, effects>>
  BY DEF Succeed, command, effects, scan
<1>2. StepsSane' /\ EffectsSane'
  BY <1>1 DEF StepsSane, EffectsSane, Success, Idle, Running
<1> QED
  BY <1>1, <1>2, ControlStep DEF TypeOK

\* `rollback apply` is over after it reverted, and has touched nothing else.
LEMMA RevertIInv ==
  ASSUME IInv, NEW changed \in BOOLEAN, NEW ok \in BOOLEAN, Revert(changed, ok)
  PROVE  IInv'
<1> USE DEF IInv
<1>1. code = Running /\ rest # <<>> /\ Head(rest) = "revert" /\ cmd = "rollback"
  BY DoingFacts DEF Revert, Doing
<1>2. touched = {} /\ limited = {}
  BY <1>1 DEF EffectsSane
<1>3. /\ clock' = clock /\ procs' = procs /\ units' = units /\ cmd' = cmd
      /\ permitted' = permitted /\ rest' = <<>> /\ code' \in {Success, RuntimeError}
      /\ uptime' = uptime /\ listedAt' = listedAt /\ listed' = listed /\ missed' = missed
      /\ at' = at /\ reading' = reading /\ entries' = entries /\ unread' = unread
      /\ found' = found /\ renices' = renices /\ limits' = limits
      /\ touched' = touched /\ limited' = limited /\ reverted' = changed
  BY DEF Revert, Ends, world, command, scan, plan
<1>4. StepsOrdered(<<>>) /\ Len(<<>>) = 0
  BY DEF StepsOrdered
<1>5. code' # Idle
  BY <1>3 DEF Idle, Success, RuntimeError
<1>6. StepsSane' /\ EffectsSane'
  BY <1>1, <1>2, <1>3, <1>4, <1>5 DEF StepsSane, EffectsSane
<1>7. TypeOK'
  BY <1>3 DEF TypeOK
<1>8. WorldSane' /\ ReadingTrue' /\ EntriesTrue' /\ PlanSane' /\ ProtectedSpared'
  BY <1>3 DEF WorldSane, ReadingTrue, EntriesTrue, PlanSane, ProtectedSpared
<1> QED
  BY <1>6, <1>7, <1>8

-----------------------------------------------------------------------------
\* /proc is listed before anything is read.
LEMMA ListPidsIInv ==
  ASSUME IInv, NEW up \in {Uptime, 1}, NEW lost \in SUBSET Pids, ListPids(up, lost)
  PROVE  IInv'
<1> USE ProcessAssumption DEF IInv
<1>1. /\ clock' = clock /\ procs' = procs /\ units' = units /\ cmd' = cmd
      /\ permitted' = permitted /\ rest' = Tail(rest) /\ code' = code
      /\ uptime' = up /\ listedAt' = clock /\ listed' = {p \in Pids : Alive(p)} \ lost
      /\ missed' = {p \in lost : Alive(p)} /\ at' = at
      /\ reading' = reading /\ entries' = entries /\ unread' = unread /\ found' = found
      /\ renices' = renices /\ limits' = limits /\ touched' = touched /\ limited' = limited
      /\ reverted' = reverted
  BY DEF ListPids, world, command, plan, effects
<1>2. code = Running /\ rest # <<>> /\ entries = {} /\ at = "comm"
  BY DoingFacts DEF ListPids
<1>3. StepsSane' /\ EffectsSane'
  BY <1>1, <1>2, Advances
<1>4. TypeOK'
  BY <1>1, <1>2 DEF TypeOK
<1>5. WorldSane' /\ ReadingTrue' /\ EntriesTrue' /\ PlanSane' /\ ProtectedSpared'
  BY <1>1, <1>2 DEF WorldSane, ReadingTrue, EntriesTrue, PlanSane, ProtectedSpared
<1> QED
  BY <1>3, <1>4, <1>5

\* A step inside the enumeration of /proc.
LEMMA ReadingStep ==
  ASSUME IInv, Doing("read"), UNCHANGED others,
         TypeOK', ReadingTrue',
         \A e \in entries' : \/ e \in entries
                             \/ /\ EntryTrue(e, procs, uptime) /\ e.readAt <= clock
                                /\ e.isProtected <=> e.comm \in ProtectedComms,
         entries \subseteq entries'
  PROVE  IInv'
<1> USE DEF IInv
<1>1. /\ clock' = clock /\ procs' = procs /\ units' = units /\ cmd' = cmd
      /\ permitted' = permitted /\ rest' = rest /\ code' = code /\ uptime' = uptime
      /\ listedAt' = listedAt /\ unread' = unread /\ found' = found /\ renices' = renices
      /\ limits' = limits /\ touched' = touched /\ limited' = limited /\ reverted' = reverted
  BY DEF others, world, command, plan, effects
<1>2. code = Running /\ \A i \in 1 .. Len(rest) : rest[i] # "pids"
  BY DoingFacts
<1>3. WorldSane' /\ ProtectedSpared' /\ EffectsSane'
  BY <1>1 DEF WorldSane, ProtectedSpared, EffectsSane
<1>4. StepsSane'
  BY <1>1, <1>2 DEF StepsSane, Running, Idle
<1>5. EntriesTrue'
  BY <1>1 DEF EntriesTrue
<1>6. PlanSane'
  BY <1>1 DEF PlanSane
<1> QED
  BY <1>3, <1>4, <1>5, <1>6

LEMMA ReadCommIInv ==
  ASSUME IInv, NEW p \in listed, ReadComm(p)
  PROVE  IInv'
<1> USE ProcessAssumption DEF IInv
<1>1. /\ Doing("read") /\ at = "comm" /\ listed' = listed \ {p} /\ entries' = entries
      /\ UNCHANGED others
  BY DEF ReadComm
<1>m. missed' \subseteq missed \cup {p}
  BY DEF ReadComm, Dropped
<1>2. /\ clock' = clock /\ procs' = procs /\ units' = units /\ cmd' = cmd
      /\ permitted' = permitted /\ rest' = rest /\ code' = code /\ uptime' = uptime
      /\ listedAt' = listedAt /\ unread' = unread /\ found' = found /\ renices' = renices
      /\ limits' = limits /\ touched' = touched /\ limited' = limited /\ reverted' = reverted
  BY <1>1 DEF others, world, command, plan, effects
<1>3. p \in Pids /\ reading = Blank /\ listed \subseteq Pids /\ clock \in Times /\ clock \in Nat
      /\ procs[p] \in Processes
  BY <1>1 DEF TypeOK, Times
<1>4. CASE Alive(p) /\ at' = "stat"
  <2>1. /\ at' = "stat"
        /\ reading' = [pid |-> p, comm |-> procs[p].comm, readAt |-> clock, ticks |-> 0]
    BY <1>1, <1>4 DEF ReadComm
  <2>2. procs[p].comm \in Comms
    BY <1>3, <1>4 DEF Alive, Processes
  <2>3. reading' \in [pid : Pids \ listed', comm : Comms, readAt : Times, ticks : 0 .. MaxTicks]
    BY <1>1, <1>3, <2>1, <2>2
  <2>4. TypeOK'
    BY <1>1, <1>2, <1>3, <1>m, <2>1, <2>3 DEF TypeOK
  <2>5. ReadingTrue'
    BY <1>2, <1>3, <2>1 DEF ReadingTrue, ReadTrue
  <2> QED
    BY <1>1, <2>4, <2>5, ReadingStep
<1>5. CASE at' = at /\ reading' = reading
  <2>1. TypeOK' /\ ReadingTrue'
    BY <1>1, <1>2, <1>3, <1>5, <1>m DEF TypeOK, ReadingTrue
  <2> QED
    BY <1>1, <2>1, ReadingStep
<1> QED
  BY <1>4, <1>5 DEF ReadComm

LEMMA ReadStatIInv ==
  ASSUME IInv, ReadStat
  PROVE  IInv'
<1> USE ProcessAssumption DEF IInv
<1>1. Doing("read") /\ at = "stat" /\ listed' = listed /\ entries' = entries /\ UNCHANGED others
  BY DEF ReadStat
<1>2. /\ clock' = clock /\ procs' = procs /\ units' = units /\ cmd' = cmd
      /\ permitted' = permitted /\ rest' = rest /\ code' = code /\ uptime' = uptime
      /\ listedAt' = listedAt /\ unread' = unread /\ found' = found /\ renices' = renices
      /\ limits' = limits /\ touched' = touched /\ limited' = limited /\ reverted' = reverted
  BY <1>1 DEF others, world, command, plan, effects
<1>3. /\ reading \in [pid : Pids \ listed, comm : Comms, readAt : Times, ticks : 0 .. MaxTicks]
      /\ ReadTrue(reading, procs, FALSE) /\ reading.readAt <= clock
  BY <1>1 DEF TypeOK, ReadingTrue
<1>m. reading.pid \in Pids /\ missed' \subseteq missed \cup {reading.pid}
  BY <1>3 DEF ReadStat, Dropped
<1>4. CASE Alive(reading.pid) /\ at' = "status"
  <2> DEFINE q == procs[reading.pid]
  <2>1. /\ at' = "status" /\ reading' = [reading EXCEPT !.ticks = q.ticks]
    BY <1>4 DEF ReadStat
  <2>2. q.ticks \in 0 .. MaxTicks
    BY <1>3 DEF TypeOK, Processes
  <2>3. /\ reading' \in [pid : Pids \ listed, comm : Comms, readAt : Times, ticks : 0 .. MaxTicks]
        /\ reading'.pid = reading.pid /\ reading'.comm = reading.comm
        /\ reading'.readAt = reading.readAt /\ reading'.ticks = q.ticks
    BY <1>3, <2>1, <2>2
  <2>4. TypeOK'
    BY <1>1, <1>2, <1>m, <2>1, <2>3 DEF TypeOK
  <2>5. ReadTrue(reading', procs, TRUE)
    BY <1>3, <2>2, <2>3 DEF ReadTrue
  <2>6. ReadingTrue'
    BY <1>2, <1>3, <2>1, <2>3, <2>5 DEF ReadingTrue, ReadTrue
  <2> QED
    BY <1>1, <2>4, <2>6, ReadingStep
<1>5. CASE at' = "comm" /\ reading' = Blank
  <2>1. TypeOK' /\ ReadingTrue'
    BY <1>1, <1>2, <1>5, <1>m DEF TypeOK, ReadingTrue
  <2> QED
    BY <1>1, <2>1, ReadingStep
<1> QED
  BY <1>4, <1>5 DEF ReadStat

\* The flags of an entry are those of what was read, and that is still true.
LEMMA ReadStatusIInv ==
  ASSUME IInv, ReadStatus
  PROVE  IInv'
<1> USE ProcessAssumption DEF IInv
<1>1. /\ Doing("read") /\ at = "status" /\ at' = "comm" /\ reading' = Blank
      /\ listed' = listed /\ UNCHANGED others
      /\ entries' \in {entries, entries \cup {Entry(reading, procs[reading.pid])}}
  BY DEF ReadStatus
<1>2. /\ clock' = clock /\ procs' = procs /\ units' = units /\ cmd' = cmd
      /\ permitted' = permitted /\ rest' = rest /\ code' = code /\ uptime' = uptime
      /\ listedAt' = listedAt /\ unread' = unread /\ found' = found /\ renices' = renices
      /\ limits' = limits /\ touched' = touched /\ limited' = limited /\ reverted' = reverted
  BY <1>1 DEF others, world, command, plan, effects
<1> DEFINE q == procs[reading.pid] e == Entry(reading, q)
<1>3. /\ reading \in [pid : Pids \ listed, comm : Comms, readAt : Times, ticks : 0 .. MaxTicks]
      /\ ReadTrue(reading, procs, TRUE) /\ reading.readAt <= clock
  BY <1>1 DEF TypeOK, ReadingTrue
<1>m. reading.pid \in Pids /\ missed' \subseteq missed \cup {reading.pid}
  BY <1>3 DEF ReadStatus, Dropped
<1>4. /\ e.pid = reading.pid /\ e.readAt = reading.readAt /\ e.comm = reading.comm
      /\ e.isProtected = (reading.comm \in ProtectedComms)
      /\ e.highCpu = HighCpu(reading.comm, reading.ticks, uptime)
      /\ e.highMemory = HighMemory(reading.comm, q.rss)
  BY DEF Entry
<1>5. /\ (reading.comm \in ProtectedComms) \in BOOLEAN
      /\ HighCpu(reading.comm, reading.ticks, uptime) \in BOOLEAN
      /\ HighMemory(reading.comm, q.rss) \in BOOLEAN
  BY DEF HighCpu, HighMemory
<1>6. e \in Entries
  <2>1. e \in [pid : Pids, readAt : Times, comm : Comms, isProtected : BOOLEAN, highCpu : BOOLEAN,
               highMemory : BOOLEAN]
    BY <1>3, <1>5 DEF Entry
  <2> QED
    BY <2>1 DEF Entries
<1>7. q \in Processes /\ q.ticks \in Nat /\ q.rss \in Nat /\ q.peak \in Nat /\ q.rss <= q.peak
  BY <1>3 DEF TypeOK, Processes, WorldSane
<1>8. EntryTrue(e, procs, uptime)
  <2>1. SUFFICES ASSUME q.comm # NoComm, q.named <= reading.readAt
        PROVE  /\ e.comm = q.comm
               /\ e.highCpu => uptime # Uptime \/ HighCpu(q.comm, q.ticks, Uptime)
               /\ e.highMemory => HighMemory(q.comm, q.peak)
    BY <1>4 DEF EntryTrue
  <2>2. reading.comm = q.comm /\ reading.ticks <= q.ticks /\ reading.ticks \in Nat
    BY <1>3, <2>1 DEF ReadTrue
  <2>3. Uptime \in Nat
    OBVIOUS
  <2> HIDE DEF q, e
  <2>4. HighCpu(reading.comm, reading.ticks, Uptime) => HighCpu(q.comm, q.ticks, Uptime)
    BY <1>7, <2>2, <2>3, FlagsGrow
  <2>5. HighMemory(reading.comm, q.rss) => HighMemory(q.comm, q.peak)
    BY <1>7, <2>2, <2>3, FlagsGrow
  <2> QED
    BY <1>4, <2>2, <2>4, <2>5
<1> HIDE DEF q, e
<1>9. entries' \subseteq entries \cup {e} /\ entries \subseteq entries'
  BY <1>1 DEF q, e
<1>10. TypeOK'
  BY <1>1, <1>2, <1>3, <1>4, <1>6, <1>9, <1>m DEF TypeOK
<1>11. ReadingTrue'
  BY <1>1 DEF ReadingTrue
<1>12. e.readAt <= clock /\ (e.isProtected <=> e.comm \in ProtectedComms)
  BY <1>3, <1>4
<1> QED
  BY <1>1, <1>8, <1>9, <1>10, <1>11, <1>12, ReadingStep

-----------------------------------------------------------------------------
LEMMA ListUnitsIInv ==
  ASSUME IInv, NEW bus \in BOOLEAN, ListUnits(bus)
  PROVE  IInv'
<1> USE DEF IInv
<1>1. /\ clock' = clock /\ procs' = procs /\ units' = units /\ cmd' = cmd
      /\ permitted' = permitted /\ rest' = Tail(rest) /\ code' = code /\ uptime' = uptime
      /\ listedAt' = listedAt /\ listed' = listed /\ missed' = missed /\ at' = at
      /\ reading' = reading
      /\ entries' = entries /\ found' = found /\ renices' = renices /\ limits' = limits
      /\ touched' = touched /\ limited' = limited /\ reverted' = reverted
  BY DEF ListUnits, world, command, plan, effects
<1>2. code = Running /\ rest # <<>>
  BY DEF ListUnits, Doing
<1>3. StepsSane' /\ EffectsSane'
  BY <1>1, <1>2, Advances
<1>4. unread' \subseteq Services /\ \A s \in unread' : ~ s.over
  <2>1. \A u \in Units : [unit |-> u, failing |-> units[u].failing, over |-> FALSE] \in Services
    BY DEF TypeOK, Services
  <2> QED
    BY <2>1 DEF ListUnits
<1>5. TypeOK'
  BY <1>1, <1>4 DEF TypeOK
<1>6. WorldSane' /\ ReadingTrue' /\ EntriesTrue' /\ PlanSane' /\ ProtectedSpared'
  BY <1>1, <1>4 DEF WorldSane, ReadingTrue, EntriesTrue, PlanSane, ProtectedSpared
<1> QED
  BY <1>3, <1>5, <1>6

\* A unit without memory accounting is over no limit.
LEMMA ReadUnitIInv ==
  ASSUME IInv, NEW s \in unread, ReadUnit(s)
  PROVE  IInv'
<1> USE UnitAssumption DEF IInv
<1>1. /\ clock' = clock /\ procs' = procs /\ units' = units /\ cmd' = cmd
      /\ permitted' = permitted /\ rest' = rest /\ code' = code /\ uptime' = uptime
      /\ listedAt' = listedAt /\ listed' = listed /\ missed' = missed /\ at' = at
      /\ reading' = reading
      /\ entries' = entries /\ unread' = unread \ {s} /\ renices' = renices
      /\ limits' = limits /\ touched' = touched /\ limited' = limited /\ reverted' = reverted
  BY DEF ReadUnit, world, command, plan, effects
<1> DEFINE memory == IF units[s.unit].loaded THEN units[s.unit].memory ELSE Unknown
           f == [s EXCEPT !.over = OverLimit(s.unit, memory)]
<1>2. found' = found \cup {f}
  BY DEF ReadUnit
<1>3. /\ s \in Services /\ s.unit \in Units
      /\ units[s.unit].memory \in Int /\ units[s.unit].peak \in Int
      /\ units[s.unit].memory <= units[s.unit].peak
  BY DEF TypeOK, Services, Memories, Unknown, WorldSane
<1>4. OverLimit(s.unit, memory) \in BOOLEAN
  BY DEF OverLimit
<1>5. f \in Services /\ f.unit = s.unit /\ f.over = OverLimit(s.unit, memory)
  BY <1>3, <1>4 DEF Services
<1>6. ServiceTrue(f, units)
  <2>1. SUFFICES ASSUME OverLimit(s.unit, memory)
        PROVE  /\ s.unit \in AllowedUnits \ ProtectedUnits /\ s.unit \in DOMAIN UnitLimits
               /\ units[s.unit].peak > UnitLimits[s.unit]
    BY <1>5 DEF ServiceTrue
  <2>2. /\ s.unit \in AllowedUnits \ ProtectedUnits /\ s.unit \in DOMAIN UnitLimits
        /\ memory > UnitLimits[s.unit] /\ UnitLimits[s.unit] \in Nat
    BY <2>1 DEF OverLimit
  <2>3. memory = units[s.unit].memory
    BY <2>2 DEF Unknown
  <2> HIDE DEF memory
  <2> QED
    BY <1>3, <2>2, <2>3
<1> HIDE DEF f, memory
<1>7. TypeOK'
  BY <1>1, <1>2, <1>5 DEF TypeOK
<1>8. EntriesTrue'
  BY <1>1, <1>2, <1>6 DEF EntriesTrue
<1>9. WorldSane' /\ ReadingTrue' /\ PlanSane' /\ StepsSane' /\ EffectsSane' /\ ProtectedSpared'
  BY <1>1 DEF WorldSane, ReadingTrue, PlanSane, StepsSane, EffectsSane, ProtectedSpared
<1> QED
  BY <1>7, <1>8, <1>9

-----------------------------------------------------------------------------
LEMMA PlanIInv ==
  ASSUME IInv, NEW pressure \in BOOLEAN, Plan(pressure)
  PROVE  IInv'
<1> USE DEF IInv
<1>1. /\ clock' = clock /\ procs' = procs /\ units' = units /\ cmd' = cmd
      /\ permitted' = permitted /\ rest' = Tail(rest) /\ code' = code /\ uptime' = uptime
      /\ listedAt' = listedAt /\ listed' = listed /\ missed' = missed /\ at' = at
      /\ reading' = reading
      /\ entries' = entries /\ unread' = unread /\ found' = found
      /\ touched' = touched /\ limited' = limited /\ reverted' = reverted
  BY DEF Plan, world, command, scan, effects
<1>2. code = Running /\ rest # <<>>
  BY DEF Plan, Doing
<1>3. StepsSane' /\ EffectsSane'
  BY <1>1, <1>2, Advances
<1>4. limits' \subseteq LimitTargets /\ renices' \subseteq PriorityTargets
  BY DEF Plan
<1>5. LimitTargets \subseteq Units \ ProtectedUnits
  BY DEF LimitTargets, TypeOK, Services
<1>6. ASSUME NEW t \in PriorityTargets
      PROVE  \E e \in entries : /\ t = [pid |-> e.pid, readAt |-> e.readAt]
                               /\ e.comm \notin ProtectedComms /\ e \in Entries
  BY DEF PriorityTargets, EntriesTrue, TypeOK
<1>7. PriorityTargets \subseteq [pid : Pids, readAt : Times]
  BY <1>6 DEF Entries
<1>8. TypeOK'
  BY <1>1, <1>4, <1>5, <1>7 DEF TypeOK
<1>9. PlanSane'
  BY <1>1, <1>4, <1>5, <1>6 DEF PlanSane
<1>10. WorldSane' /\ ReadingTrue' /\ EntriesTrue' /\ ProtectedSpared'
  BY <1>1 DEF WorldSane, ReadingTrue, EntriesTrue, ProtectedSpared
<1> QED
  BY <1>3, <1>8, <1>9, <1>10

\* Whoever kept pid and name since the reading has an unprotected name.
LEMMA ReniceIInv ==
  ASSUME IInv, NEW t \in renices, Renice(t)
  PROVE  IInv'
<1> USE DEF IInv
<1>1. /\ clock' = clock /\ procs' = procs /\ units' = units /\ cmd' = cmd
      /\ permitted' = permitted /\ rest' = rest /\ code' = code /\ uptime' = uptime
      /\ listedAt' = listedAt /\ listed' = listed /\ missed' = missed /\ at' = at
      /\ reading' = reading
      /\ entries' = entries /\ unread' = unread /\ found' = found
      /\ renices' = renices \ {t} /\ limits' = limits /\ limited' = limited
      /\ reverted' = reverted
  BY DEF Renice, world, command, scan
<1>2. /\ code = Running /\ Head(rest) = "act" /\ cmd = "apply"
  BY DoingFacts DEF Renice, Doing
<1> DEFINE w == [readAt |-> t.readAt, process |-> procs[t.pid]]
<1>3. \/ touched' = touched
      \/ touched' = touched \cup {w} /\ permitted /\ Alive(t.pid)
  BY DEF Renice
<1>4. t \in [pid : Pids, readAt : Times] /\ procs[t.pid] \in Processes
  BY DEF TypeOK
<1>5. w \in [readAt : Times, process : Processes]
  BY <1>4
<1>6. ASSUME Alive(t.pid), w.process.comm \in ProtectedComms
      PROVE  w.process.named > w.readAt
  <2>1. PICK e \in entries : e.pid = t.pid /\ e.readAt = t.readAt /\ e.comm \notin ProtectedComms
    BY DEF PlanSane
  <2>2. EntryTrue(e, procs, uptime)
    BY DEF EntriesTrue
  <2>3. ~ procs[t.pid].named <= t.readAt
    BY <1>6, <2>1, <2>2 DEF EntryTrue, Alive
  <2>4. procs[t.pid].named \in Nat /\ t.readAt \in Nat
    BY <1>4 DEF Processes, Times
  <2> QED
    BY <2>3, <2>4
<1>7. TypeOK'
  BY <1>1, <1>3, <1>5 DEF TypeOK
<1>8. ProtectedSpared'
  BY <1>1, <1>3, <1>6 DEF ProtectedSpared
<1>9. EffectsSane'
  BY <1>1, <1>2, <1>3 DEF EffectsSane
<1>10. PlanSane'
  BY <1>1 DEF PlanSane
<1>11. WorldSane' /\ ReadingTrue' /\ EntriesTrue' /\ StepsSane'
  BY <1>1 DEF WorldSane, ReadingTrue, EntriesTrue, StepsSane
<1> QED
  BY <1>7, <1>8, <1>9, <1>10, <1>11

LEMMA LimitIInv ==
  ASSUME IInv, NEW u \in limits, Limit(u)
  PROVE  IInv'
<1> USE DEF IInv
<1>1. /\ clock' = clock /\ procs' = procs /\ units' = units /\ cmd' = cmd
      /\ permitted' = permitted /\ rest' = rest /\ code' = code /\ uptime' = uptime
      /\ listedAt' = listedAt /\ listed' = listed /\ missed' = missed /\ at' = at
      /\ reading' = reading
      /\ entries' = entries /\ unread' = unread /\ found' = found
      /\ renices' = renices /\ limits' = limits \ {u} /\ touched' = touched
      /\ reverted' = reverted
  BY DEF Limit, world, command, scan
<1>2. /\ code = Running /\ Head(rest) = "act" /\ cmd = "apply"
  BY DoingFacts DEF Limit, Doing
<1>3. limited' = limited \/ (limited' = limited \cup {u} /\ permitted)
  BY DEF Limit
<1>4. u \in Units /\ u \notin ProtectedUnits
  BY DEF TypeOK, PlanSane
<1>5. TypeOK' /\ PlanSane'
  BY <1>1, <1>3, <1>4 DEF TypeOK, PlanSane
<1>6. ProtectedSpared' /\ EffectsSane'
  BY <1>1, <1>2, <1>3, <1>4 DEF ProtectedSpared, EffectsSane
<1>7. WorldSane' /\ ReadingTrue' /\ EntriesTrue' /\ StepsSane'
  BY <1>1 DEF WorldSane, ReadingTrue, EntriesTrue, StepsSane
<1> QED
  BY <1>5, <1>6, <1>7

-----------------------------------------------------------------------------
LEMMA NextIInv == IInv /\ [Next]_vars => IInv'
<1> SUFFICES ASSUME IInv, [Next]_vars PROVE IInv'
  OBVIOUS
<1>1. CASE WorldStep
  BY <1>1, WorldMoves, MovesIInv DEF IInv
<1>2. CASE ScanStep
  <2>1. ASSUME ProcessesRead \/ ServicesRead PROVE IInv'
    BY <2>1, GoesOnIInv DEF ProcessesRead, ServicesRead
  <2> QED
    BY <1>2, <2>1, ListPidsIInv, ReadCommIInv, ReadStatIInv, ReadStatusIInv, ListUnitsIInv,
       ReadUnitIInv DEF ScanStep
<1>3. CASE CommandStep
  <2>1. ASSUME Collect \/ OpenStore \/ Acted PROVE IInv'
    BY <2>1, GoesOnIInv DEF Collect, OpenStore, Acted
  <2>2. ASSUME CollectFails \/ OpenStoreFails PROVE IInv'
    BY <2>2, EndsIInv DEF CollectFails, OpenStoreFails
  <2>3. ASSUME NEW issues \in BOOLEAN, Validate(issues) PROVE IInv'
    BY <2>3, EndsIInv DEF Validate
  <2> QED
    BY <1>3, <2>1, <2>2, <2>3, InvokeIInv, PlanIInv, RevertIInv, ReniceIInv, LimitIInv,
       SucceedIInv
       DEF CommandStep
<1>4. CASE UNCHANGED vars
  <2>1. /\ UNCHANGED <<world, scan, plan, effects>> /\ cmd' = cmd /\ permitted' = permitted
        /\ rest' = rest /\ code' = code /\ touched' = touched /\ limited' = limited
        /\ reverted' = reverted
        /\ entries' = entries /\ at' = at
    BY <1>4 DEF vars, world, command, scan, plan, effects
  <2>2. StepsSane' /\ EffectsSane'
    BY <2>1 DEF IInv, StepsSane, EffectsSane
  <2> QED
    BY <2>1, <2>2, ControlStep DEF IInv, TypeOK
<1> QED
  BY <1>1, <1>2, <1>3, <1>4 DEF Next

(***************************************************************************)
(* The shape of the state, and that no pid is read twice                   *)
(* (processes::analyze, services::analyze and the dispatch_* functions).   *)
(***************************************************************************)
THEOREM TypeCorrect == Spec => []TypeOK
<1>1. IInv => TypeOK
  BY DEF IInv
<1> QED
  BY <1>1, InitIInv, NextIInv, PTL DEF Spec

(***************************************************************************)
(* Every flag is true of somebody, unless /proc/uptime could not be read   *)
(* (compute_flags, evaluate_resource_rules).                               *)
(***************************************************************************)
THEOREM FlagsAreEarned == Spec => []FlagsEarned
<1>1. ASSUME IInv PROVE FlagsEarned
  <2>1. ASSUME NEW e \in entries, Kept(e.pid, e.readAt)
        PROVE  /\ e.highCpu => \/ HighCpu(procs[e.pid].comm, procs[e.pid].ticks, Uptime)
                               \/ uptime # Uptime
               /\ e.highMemory => HighMemory(procs[e.pid].comm, procs[e.pid].peak)
    BY <1>1, <2>1 DEF IInv, EntriesTrue, EntryTrue, Kept, Alive
  <2>2. \A s \in found : s.over => /\ s.unit \in AllowedUnits \ ProtectedUnits
                                  /\ units[s.unit].peak > UnitLimits[s.unit]
    BY <1>1 DEF IInv, EntriesTrue, ServiceTrue
  <2> QED
    BY <2>1, <2>2 DEF FlagsEarned
<1> QED
  BY <1>1, InitIInv, NextIInv, PTL DEF Spec

(***************************************************************************)
(* Protected names and units are spared, whatever happens between the scan *)
(* and the system call (is_process_protected, collect_process_targets,     *)
(* execute).                                                               *)
(***************************************************************************)
THEOREM ProtectedAreSpared == Spec => []ProtectedSpared
<1>1. IInv => ProtectedSpared
  BY DEF IInv
<1> QED
  BY <1>1, InitIInv, NextIInv, PTL DEF Spec

(***************************************************************************)
(* No command but `rollback apply` fails after it has changed something,   *)
(* and none but that and a permitted `actions apply` changes anything (the *)
(* order of the steps in dispatch_actions).                                *)
(***************************************************************************)
THEOREM FailuresChangeNothing == Spec => []FailureChangesNothing
<1>1. IInv => FailureChangesNothing
  BY DEF IInv, EffectsSane, FailureChangesNothing, Changed
<1> QED
  BY <1>1, InitIInv, NextIInv, PTL DEF Spec

-----------------------------------------------------------------------------
(***************************************************************************)
(* A second invariant, over the first: once /proc has been listed, whoever *)
(* lives on since then is still to be read, being read, missed, or has its *)
(* one entry; and when nothing is left to read, none is of the first two.  *)
(***************************************************************************)
Left(step) == \E i \in 1 .. Len(rest) : rest[i] = step

PidsThenRead(s) ==
  \A i \in 1 .. Len(s) : s[i] = "pids" => i + 1 \in 1 .. Len(s) /\ s[i + 1] = "read"

PastListing ==
  code = Running /\ cmd \in {"processes", "analyze", "apply"} /\ ~ Left("pids")

Accounted(p) ==
  \/ p \in listed \cup missed
  \/ at # "comm" /\ reading.pid = p
  \/ \E e \in entries : e.pid = p

OncePerPid ==
  /\ \A e, f \in entries : e.pid = f.pid => e = f
  /\ at # "comm" => \A e \in entries : e.pid # reading.pid

ListingInv ==
  /\ listedAt <= clock
  /\ PidsThenRead(rest)
  /\ OncePerPid
  /\ PastListing =>
       /\ \A p \in Pids : Alive(p) /\ procs[p].born <= listedAt => Accounted(p)
       /\ ~ Left("read") => listed = {} /\ at = "comm"

\* What the listing depends on, but for the steps that are left.
listing == <<clock, procs, cmd, code, listedAt, listed, missed, at, reading, entries>>

\* Every command that lists the pids reads them next, and these three do both.
LEMMA StepsList ==
  ASSUME NEW c \in Commands
  PROVE  /\ PidsThenRead(Steps(c))
         /\ c \in {"processes", "analyze", "apply"} =>
              \E i \in 1 .. Len(Steps(c)) : Steps(c)[i] = "pids"
<1>1. CASE c \in {"doctor", "status", "services", "validate", "list", "rollback"}
  <2>1. ASSUME NEW i \in 1 .. Len(Steps(c)) PROVE Steps(c)[i] # "pids"
    BY <1>1 DEF Steps, Inspect, Measure, ScanServices, ListStore, Undo
  <2> QED
    BY <1>1, <2>1 DEF PidsThenRead
<1>2. CASE c = "analyze"
  BY <1>2 DEF Steps, PidsThenRead, Analysis
<1>3. CASE c = "apply"
  <2> DEFINE s == Steps(c) front == Analysis back == <<"store", "act">>
  <2>1. s = front \o back
    BY <1>3 DEF Steps
  <2>2. /\ front \in Seq(StepNames) /\ Len(front) = 6
        /\ front[1] = "collect" /\ front[2] = "pids" /\ front[3] = "read"
        /\ front[4] = "units" /\ front[5] = "props" /\ front[6] = "plan"
    BY DEF Analysis, StepNames
  <2>3. /\ back \in Seq(StepNames) /\ Len(back) = 2
        /\ back[1] = "store" /\ back[2] = "act"
    BY DEF StepNames
  <2> HIDE DEF front, back, s
  <2>4. /\ front \o back \in Seq(StepNames) /\ Len(front \o back) = Len(front) + Len(back)
        /\ \A i \in 1 .. Len(front) + Len(back) :
             (front \o back)[i] = IF i <= Len(front) THEN front[i] ELSE back[i - Len(front)]
    BY <2>2, <2>3, ConcatProperties
  <2>5. /\ Len(s) = 8
        /\ s[1] = "collect" /\ s[2] = "pids" /\ s[3] = "read" /\ s[4] = "units"
        /\ s[5] = "props" /\ s[6] = "plan" /\ s[7] = "store" /\ s[8] = "act"
    BY <2>1, <2>2, <2>3, <2>4
  <2>6. PidsThenRead(s) /\ \E i \in 1 .. Len(s) : s[i] = "pids"
    BY <2>5 DEF PidsThenRead
  <2> QED
    BY <2>6 DEF s
<1>4. CASE c = "processes"
  BY <1>4 DEF Steps, PidsThenRead, ScanProcesses
<1> QED
  BY <1>1, <1>2, <1>3, <1>4 DEF Commands

\* A step that was left is, unless it was the one that was done, still left.
LEMMA TailLeft ==
  ASSUME StepsSane, PidsThenRead(rest), rest # <<>>, rest' = Tail(rest)
  PROVE  /\ PidsThenRead(rest')
         /\ \A step : Left(step) /\ Head(rest) # step => Left(step)'
         /\ Head(rest) = "pids" => Left("read")'
<1> DEFINE s == rest t == Tail(rest)
<1>1. /\ StepsOrdered(rest) /\ Len(s) \in Nat \ {0} /\ s \in Seq(StepNames)
      /\ Head(s) = s[1]
  BY DEF StepsSane, StepsOrdered
<1>2. /\ Len(t) \in Nat /\ Len(s) = Len(t) + 1
      /\ \A i \in 1 .. Len(t) : i + 1 \in 1 .. Len(s) /\ t[i] = s[i + 1]
  BY <1>1
<1> HIDE DEF s, t
<1>3. \A i \in 1 .. Len(s) : i # 1 => i - 1 \in 1 .. Len(t) /\ t[i - 1] = s[i]
  <2> SUFFICES ASSUME NEW i \in 1 .. Len(s), i # 1
               PROVE  i - 1 \in 1 .. Len(t) /\ t[i - 1] = s[i]
    OBVIOUS
  <2>1. i - 1 \in 1 .. Len(t) /\ (i - 1) + 1 = i
    BY <1>2
  <2> QED
    BY <1>2, <2>1
<1>4. PidsThenRead(t)
  <2> SUFFICES ASSUME NEW i \in 1 .. Len(t), t[i] = "pids"
               PROVE  i + 1 \in 1 .. Len(t) /\ t[i + 1] = "read"
    BY DEF PidsThenRead
  <2>1. i + 1 \in 1 .. Len(s) /\ s[i + 1] = "pids"
    BY <1>2
  <2>2. (i + 1) + 1 \in 1 .. Len(s) /\ s[(i + 1) + 1] = "read"
    BY <2>1 DEF PidsThenRead, s
  <2>3. (i + 1) + 1 # 1 /\ ((i + 1) + 1) - 1 = i + 1
    BY <2>1
  <2> QED
    BY <1>3, <2>2, <2>3
<1>5. ASSUME NEW step, Left(step), Head(rest) # step PROVE Left(step)'
  <2>1. PICK i \in 1 .. Len(s) : s[i] = step
    BY <1>5 DEF Left, s
  <2>2. i # 1
    BY <1>1, <1>5, <2>1 DEF s
  <2> QED
    BY <1>3, <2>1, <2>2 DEF Left, t
<1>6. ASSUME Head(rest) = "pids" PROVE Left("read")'
  <2>1. 1 \in 1 .. Len(s) /\ s[1] = "pids"
    BY <1>1, <1>6 DEF s
  <2>2. 1 + 1 \in 1 .. Len(s) /\ s[1 + 1] = "read"
    BY <2>1 DEF PidsThenRead, s
  <2>3. 1 + 1 # 1
    OBVIOUS
  <2> QED
    BY <1>3, <2>2, <2>3 DEF Left, t
<1> QED
  BY <1>4, <1>5, <1>6 DEF t

\* Whoever was born by the time /proc was listed lived before the step as well.
LEMMA WorldKeepsBirths ==
  ASSUME IInv, WorldStep
  PROVE  \A p \in Pids : Alive(p)' /\ procs'[p].born <= clock =>
           Alive(p) /\ procs'[p].born = procs[p].born
<1>1. procs \in [Pids -> Processes] /\ clock \in Nat
  BY ProcessAssumption DEF IInv, TypeOK, Times
<1>2. ASSUME NEW o \in Pids, NEW q, procs' = [procs EXCEPT ![o] = q],
             q.comm # NoComm /\ q.born <= clock => Alive(o) /\ q.born = procs[o].born
      PROVE  \A p \in Pids : Alive(p)' /\ procs'[p].born <= clock =>
               Alive(p) /\ procs'[p].born = procs[p].born
  BY <1>1, <1>2 DEF Alive
<1>3. ASSUME NEW o \in Pids, Exit(o)
      PROVE  \A p \in Pids : Alive(p)' /\ procs'[p].born <= clock =>
               Alive(p) /\ procs'[p].born = procs[p].born
  BY <1>2, <1>3 DEF Exit, Live, Gone
<1>4. ASSUME NEW o \in Pids, NEW c \in Comms, Spawn(o, c)
      PROVE  \A p \in Pids : Alive(p)' /\ procs'[p].born <= clock =>
               Alive(p) /\ procs'[p].born = procs[p].born
  <2>1. ~ (clock + 1 <= clock)
    BY <1>1
  <2>2. NewProcess(clock + 1, c).born = clock + 1
    BY DEF NewProcess
  <2> QED
    BY <1>2, <1>4, <2>1, <2>2 DEF Spawn, Live
<1>5. ASSUME NEW o \in Pids, NEW q, Alive(o), Live(o, q), q.born = procs[o].born
      PROVE  \A p \in Pids : Alive(p)' /\ procs'[p].born <= clock =>
               Alive(p) /\ procs'[p].born = procs[p].born
  BY <1>2, <1>5 DEF Live
<1>6. ASSUME NEW o \in Pids, NEW c \in Comms, Exec(o, c)
      PROVE  \A p \in Pids : Alive(p)' /\ procs'[p].born <= clock =>
               Alive(p) /\ procs'[p].born = procs[p].born
  <2> DEFINE q == [procs[o] EXCEPT !.comm = c, !.named = clock + 1]
  <2>1. Alive(o) /\ Live(o, q)
    BY <1>6 DEF Exec
  <2>2. q.born = procs[o].born
    BY <1>1 DEF Processes
  <2> HIDE DEF q
  <2> QED
    BY <1>5, <2>1, <2>2
<1>7. ASSUME NEW o \in Pids, Burn(o)
      PROVE  \A p \in Pids : Alive(p)' /\ procs'[p].born <= clock =>
               Alive(p) /\ procs'[p].born = procs[p].born
  <2> DEFINE q == [procs[o] EXCEPT !.ticks = @ + 1]
  <2>1. Alive(o) /\ Live(o, q)
    BY <1>7 DEF Burn
  <2>2. q.born = procs[o].born
    BY <1>1 DEF Processes
  <2> HIDE DEF q
  <2> QED
    BY <1>5, <2>1, <2>2
<1>8. ASSUME NEW o \in Pids, NEW n \in 0 .. MaxMemory, Resize(o, n)
      PROVE  \A p \in Pids : Alive(p)' /\ procs'[p].born <= clock =>
               Alive(p) /\ procs'[p].born = procs[p].born
  <2> DEFINE q == [procs[o] EXCEPT !.rss = n, !.peak = IF n > @ THEN n ELSE @]
  <2>1. Alive(o) /\ Live(o, q)
    BY <1>8 DEF Resize
  <2>2. q.born = procs[o].born
    BY <1>1 DEF Processes
  <2> HIDE DEF q
  <2> QED
    BY <1>5, <2>1, <2>2
<1>9. ASSUME procs' = procs
      PROVE  \A p \in Pids : Alive(p)' /\ procs'[p].born <= clock =>
               Alive(p) /\ procs'[p].born = procs[p].born
  BY <1>9 DEF Alive
<1>10. CASE \E u \in Units : UnitFails(u) \/ UnitUnloads(u) \/ \E n \in Memories : UnitUses(u, n)
  <2>1. procs' = procs
    BY <1>10 DEF UnitFails, UnitUnloads, UnitUses, UnitBecomes
  <2> QED
    BY <1>9, <2>1
<1> QED
  BY <1>3, <1>4, <1>6, <1>7, <1>8, <1>10 DEF WorldStep

\* A step that leaves the listing alone, whether or not it is the last of its kind.
LEMMA ListingStays ==
  ASSUME IInv, ListingInv, UNCHANGED listing,
         \/ rest' = rest
         \/ /\ rest # <<>> /\ rest' = Tail(rest) /\ Head(rest) # "pids"
            /\ Head(rest) = "read" => listed = {} /\ at = "comm"
  PROVE  ListingInv'
<1>1. /\ clock' = clock /\ procs' = procs /\ cmd' = cmd /\ code' = code
      /\ listedAt' = listedAt /\ listed' = listed /\ missed' = missed /\ at' = at
      /\ reading' = reading
      /\ entries' = entries
  BY DEF listing
<1>2. /\ PidsThenRead(rest')
      /\ Left("pids") => Left("pids")'
      /\ Left("read") => Left("read")' \/ (listed = {} /\ at = "comm")
  <2>1. CASE rest' = rest
    BY <2>1 DEF ListingInv, Left
  <2>2. CASE rest' # rest
    BY <2>2, TailLeft DEF IInv, ListingInv
  <2> QED
    BY <2>1, <2>2
<1>3. OncePerPid' /\ \A p \in Pids : Accounted(p) => Accounted(p)'
  BY <1>1 DEF ListingInv, OncePerPid, Accounted
<1>4. PastListing' => PastListing
  BY <1>1, <1>2 DEF PastListing
<1> QED
  BY <1>1, <1>2, <1>3, <1>4 DEF ListingInv, Alive

\* A step after which the command does not run.
LEMMA ListingOver ==
  ASSUME IInv, ListingInv, code' # Running, rest' \in {rest, <<>>}, UNCHANGED <<world, scan>>
  PROVE  ListingInv'
<1>1. clock' = clock /\ listedAt' = listedAt /\ at' = at /\ reading' = reading
      /\ entries' = entries
  BY DEF world, scan
<1>2. Len(<<>>) = 0
  OBVIOUS
<1> QED
  BY <1>1, <1>2 DEF ListingInv, PidsThenRead, OncePerPid, PastListing

\* The world can end a process, but not give one an earlier birth.
LEMMA WorldListing ==
  ASSUME IInv, ListingInv, WorldStep
  PROVE  ListingInv'
<1>1. Moves
  BY WorldMoves DEF IInv
<1>2. /\ rest' = rest /\ cmd' = cmd /\ code' = code /\ listedAt' = listedAt
      /\ listed' = listed /\ missed' = missed /\ at' = at /\ reading' = reading
      /\ entries' = entries
  BY <1>1 DEF Moves, command, scan
<1>3. listedAt <= clock /\ clock <= clock' /\ listedAt \in Nat /\ clock \in Nat /\ clock' \in Nat
  BY <1>1, ProcessAssumption DEF Moves, ListingInv, IInv, TypeOK, Times
<1>4. ASSUME PastListing', NEW p \in Pids, Alive(p)', procs'[p].born <= listedAt
      PROVE  Accounted(p)'
  <2>1. procs'[p].born \in Nat
    BY <1>1, ProcessAssumption DEF Moves, Processes, Times
  <2>2. procs'[p].born <= clock
    BY <1>3, <1>4, <2>1
  <2>3. Alive(p) /\ procs[p].born <= listedAt
    BY <1>4, <2>2, WorldKeepsBirths
  <2>4. Accounted(p)
    BY <1>2, <1>4, <2>3 DEF ListingInv, PastListing, Left
  <2> QED
    BY <1>2, <2>4 DEF Accounted
<1>5. /\ PidsThenRead(rest') /\ OncePerPid' /\ listedAt' <= clock'
      /\ PastListing' /\ ~ Left("read")' => listed' = {} /\ at' = "comm"
  BY <1>2, <1>3 DEF ListingInv, OncePerPid, PastListing, Left
<1> QED
  BY <1>2, <1>4, <1>5 DEF ListingInv

\* The commands that survey processes begin with the listing still to do.
LEMMA InvokeListing ==
  ASSUME IInv, ListingInv, NEW c \in Commands, NEW dryRun, NEW flag, NEW r,
         NEW loaded \in BOOLEAN, Invoke(c, dryRun, flag, r, loaded)
  PROVE  ListingInv'
<1>1. /\ UNCHANGED <<world, scan>> /\ cmd' = c
      /\ rest' = (IF loaded THEN Steps(c) ELSE <<>>)
      /\ code' = (IF loaded THEN Running ELSE RuntimeError)
  BY DEF Invoke
<1>2. CASE ~ loaded
  BY <1>1, <1>2, ListingOver DEF Running, RuntimeError
<1>3. CASE loaded
  <2>1. PidsThenRead(rest') /\ ~ PastListing'
    BY <1>1, <1>3, StepsList DEF PastListing, Left
  <2> QED
    BY <1>1, <2>1 DEF ListingInv, OncePerPid, world, scan
<1> QED
  BY <1>2, <1>3

\* Whoever lives when /proc is listed is listed, or missed.
LEMMA ListPidsListing ==
  ASSUME IInv, ListingInv, NEW up, NEW lost, ListPids(up, lost)
  PROVE  ListingInv'
<1>1. /\ clock' = clock /\ procs' = procs /\ rest' = Tail(rest) /\ listedAt' = clock
      /\ listed' = {p \in Pids : Alive(p)} \ lost /\ missed' = {p \in lost : Alive(p)}
      /\ at' = at /\ entries' = entries
  BY DEF ListPids, world
<1>2. rest # <<>> /\ Head(rest) = "pids" /\ entries = {} /\ at = "comm"
  BY DoingFacts DEF ListPids, Doing, IInv
<1>3. PidsThenRead(rest') /\ Left("read")'
  BY <1>1, <1>2, TailLeft DEF IInv, ListingInv
<1>4. clock \in Nat
  BY ProcessAssumption DEF IInv, TypeOK, Times
<1>5. OncePerPid' /\ \A p \in Pids : Alive(p)' => Accounted(p)'
  BY <1>1, <1>2 DEF OncePerPid, Alive, Accounted
<1> QED
  BY <1>1, <1>3, <1>4, <1>5 DEF ListingInv

\* Reading moves a pid from the list to its entry, or misses it, or finds that nobody has it.
LEMMA ReadListing ==
  ASSUME IInv, ListingInv, (\E p \in listed : ReadComm(p)) \/ ReadStat \/ ReadStatus
  PROVE  ListingInv'
<1>1. Doing("read") /\ UNCHANGED others
  BY DEF ReadComm, ReadStat, ReadStatus
<1>2. /\ clock' = clock /\ procs' = procs /\ cmd' = cmd /\ code' = code /\ rest' = rest
      /\ listedAt' = listedAt
  BY <1>1 DEF others, world, command
<1>3. Left("read")' /\ PidsThenRead(rest') /\ (PastListing' => PastListing)
      /\ listedAt' <= clock'
  BY <1>1, <1>2, DoingFacts DEF IInv, ListingInv, Left, PastListing
<1>4. /\ \A e \in entries : e.pid \notin listed
      /\ at # "comm" => reading.pid \notin listed
  BY DEF IInv, TypeOK
<1>m. missed \subseteq missed'
  BY DEF ReadComm, ReadStat, ReadStatus, Dropped
<1>5. OncePerPid' /\ \A p \in Pids : Alive(p) /\ Accounted(p) => Accounted(p)'
  <2>1. CASE \E p \in listed : ReadComm(p)
    <3>1. PICK p \in listed : ReadComm(p)
      BY <2>1
    <3>2. at = "comm" /\ listed' = listed \ {p} /\ entries' = entries
      BY <3>1 DEF ReadComm
    <3>3. CASE at' = "stat" /\ reading'.pid = p
      BY <1>4, <1>m, <3>2, <3>3 DEF ListingInv, OncePerPid, Accounted
    <3>4. CASE at' = at /\ Dropped(p)
      BY <1>m, <3>2, <3>4 DEF ListingInv, OncePerPid, Accounted, Dropped
    <3> QED
      BY <3>1, <3>3, <3>4 DEF ReadComm
  <2>2. CASE ReadStat
    <3>1. at = "stat" /\ listed' = listed /\ entries' = entries
      BY <2>2 DEF ReadStat
    <3>2. reading \in [pid : Pids \ listed, comm : Comms, readAt : Times,
                       ticks : 0 .. MaxTicks]
      BY <3>1 DEF IInv, TypeOK
    <3>3. CASE at' = "status" /\ reading'.pid = reading.pid
      BY <1>m, <3>1, <3>3 DEF ListingInv, OncePerPid, Accounted
    <3>4. CASE at' = "comm" /\ Dropped(reading.pid)
      BY <1>m, <3>1, <3>4 DEF ListingInv, OncePerPid, Accounted, Dropped
    <3> QED
      BY <2>2, <3>2, <3>3, <3>4 DEF ReadStat
  <2>3. CASE ReadStatus
    <3> DEFINE e == Entry(reading, procs[reading.pid])
    <3>1. /\ at = "status" /\ at' = "comm" /\ listed' = listed
          /\ \/ entries' = entries \cup {e} /\ UNCHANGED missed
             \/ entries' = entries /\ Dropped(reading.pid)
      BY <2>3 DEF ReadStatus
    <3>2. e.pid = reading.pid
      BY DEF Entry
    <3> HIDE DEF e
    <3>3. OncePerPid'
      BY <3>1, <3>2 DEF ListingInv, OncePerPid
    <3>4. \A p \in Pids : Alive(p) /\ Accounted(p) => Accounted(p)'
      BY <1>m, <3>1, <3>2 DEF Accounted, Dropped
    <3> QED
      BY <3>3, <3>4
  <2> QED
    BY <2>1, <2>2, <2>3
<1> QED
  BY <1>2, <1>3, <1>5 DEF ListingInv, Alive

LEMMA NextListing == IInv /\ ListingInv /\ [Next]_vars => ListingInv'
<1> SUFFICES ASSUME IInv, ListingInv, [Next]_vars PROVE ListingInv'
  OBVIOUS
<1>1. CASE WorldStep
  BY <1>1, WorldListing
<1>2. ASSUME NEW step, step # "pids", Doing(step), rest' = Tail(rest),
             UNCHANGED listing, step = "read" => listed = {} /\ at = "comm"
      PROVE  ListingInv'
  BY <1>2, ListingStays DEF Doing
<1>3. CASE ScanStep
  <2>1. CASE ProcessesRead \/ ServicesRead
    BY <2>1, <1>2 DEF ProcessesRead, ServicesRead, listing, world, command, scan
  <2>2. ASSUME NEW bus \in BOOLEAN, ListUnits(bus) PROVE ListingInv'
    BY <2>2, <1>2 DEF ListUnits, listing, world, command
  <2>3. ASSUME NEW s \in unread, ReadUnit(s) PROVE ListingInv'
    BY <2>3, ListingStays DEF ReadUnit, listing, world, command
  <2> QED
    BY <1>3, <2>1, <2>2, <2>3, ListPidsListing, ReadListing DEF ScanStep
<1>4. CASE CommandStep
  <2>1. CASE Collect \/ OpenStore \/ Acted
    BY <2>1, <1>2 DEF Collect, OpenStore, Acted, listing, world, command, scan
  <2>2. CASE CollectFails \/ OpenStoreFails \/ Succeed
    BY <2>2, ListingOver
    DEF CollectFails, OpenStoreFails, Succeed, Ends, Running, RuntimeError, Success
  <2>3. ASSUME NEW issues \in BOOLEAN, Validate(issues) PROVE ListingInv'
    BY <2>3, ListingOver DEF Validate, Ends, Running, ValidationFailed, Success
  <2>4. ASSUME NEW pressure \in BOOLEAN, Plan(pressure) PROVE ListingInv'
    BY <2>4, <1>2 DEF Plan, listing, world, command, scan
  <2>5. CASE (\E t \in renices : Renice(t)) \/ \E u \in limits : Limit(u)
    BY <2>5, ListingStays DEF Renice, Limit, listing, world, command, scan
  <2>6. ASSUME NEW changed, NEW ok \in BOOLEAN, Revert(changed, ok) PROVE ListingInv'
    BY <2>6, ListingOver DEF Revert, Ends, Running, RuntimeError, Success
  <2> QED
    BY <1>4, <2>1, <2>2, <2>3, <2>4, <2>5, <2>6, InvokeListing DEF CommandStep
<1>5. CASE UNCHANGED vars
  BY <1>5, ListingStays DEF vars, listing, world, command, scan
<1> QED
  BY <1>1, <1>3, <1>4, <1>5 DEF Next

(***************************************************************************)
(* A process that lives through the scan is listed once, by its name,      *)
(* whoever exits, is born, is exec'ed or cannot be read meanwhile, unless  *)
(* it is one of those that could not be listed or read                     *)
(* (processes::analyze).                                                   *)
(***************************************************************************)
THEOREM SurvivorsAreListed == Spec => []SurvivorsListed
<1>1. Init => ListingInv
  BY DEF Init, ListingInv, PidsThenRead, OncePerPid, PastListing, Running, Idle
<1>2. ASSUME IInv, ListingInv PROVE SurvivorsListed
  <2> SUFFICES ASSUME Scanned, NEW p \in Pids \ missed, Alive(p), procs[p].born <= listedAt
               PROVE  \E e \in entries :
                        /\ e.pid = p
                        /\ procs[p].named <= e.readAt => e.comm = procs[p].comm
                        /\ \A f \in entries : f.pid = p => f = e
    BY DEF SurvivorsListed
  <2>1. PastListing /\ ~ Left("read")
    BY <1>2 DEF Scanned, PastListing, Left, IInv, StepsSane, StepsOrdered
  <2>2. PICK e \in entries : e.pid = p
    BY <1>2, <2>1 DEF ListingInv, Accounted
  <2>3. procs[p].named <= e.readAt => e.comm = procs[p].comm
    BY <1>2, <2>2 DEF IInv, EntriesTrue, EntryTrue, Alive
  <2> QED
    BY <1>2, <2>2, <2>3 DEF ListingInv, OncePerPid
<1> QED
  BY <1>1, <1>2, InitIInv, NextIInv, NextListing, PTL DEF Spec
=============================================================================
