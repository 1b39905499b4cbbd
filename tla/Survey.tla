-------------------------------- MODULE Survey --------------------------------
(***************************************************************************)
(* One syswarden command at a time (src/src/cli.rs) over the processes and *)
(* services it surveys (src/src/processes/mod.rs, src/src/services/mod.rs),*)
(* which go on living meanwhile: they exit, pids are used again, programs  *)
(* are exec'ed, memory grows and shrinks.                                  *)
(*                                                                         *)
(* A scan reads /proc/<pid>/comm, stat and status one after the other, and *)
(* `actions apply` acts on a pid or a unit name long after it was read.    *)
(* Which actions a profile permits is Governance's subject: here whatever  *)
(* is flagged, unprotected and, for a unit, allowed is relieved.           *)
(*                                                                         *)
(* clock counts the changes of the world meanwhile, bounded by MaxChanges; *)
(* born, named, peak, readAt, listedAt and missed only observe.            *)
(***************************************************************************)
EXTENDS Integers, Sequences

CONSTANTS
  Pids,            \* the pids in use
  Comms,           \* the names processes may have
  NoComm,          \* of a pid that nobody has
  ProtectedComms,  \* [protected] processes
  Rules,           \* [[process_rules]]: the names that contain name_match, and the limits
  MaxTicks,        \* bound on the CPU ticks of a process
  MaxMemory,       \* bound on the memory of a process or a unit
  Uptime,          \* in seconds
  Units,           \* the .service units
  AllowedUnits,    \* [allowed] services
  ProtectedUnits,  \* [protected] services
  UnitLimits,      \* memory_high_mb of the units a service rule matches
  WeightUnits,     \* units with a rule that gives a cpu_weight or an io_weight
  MaxChanges       \* bound on the changes of the world

ASSUME ProcessAssumption ==
  /\ ProtectedComms \subseteq Comms /\ NoComm \notin Comms
  /\ Rules \subseteq [matches : SUBSET Comms, cpu : Nat, rss : Nat]
  /\ MaxTicks \in Nat /\ MaxMemory \in Nat
  /\ Uptime \in Nat \ {0} /\ MaxChanges \in Nat

ASSUME UnitAssumption ==
  /\ AllowedUnits \subseteq Units /\ ProtectedUnits \subseteq Units
  /\ WeightUnits \subseteq Units
  /\ DOMAIN UnitLimits \subseteq Units /\ \A u \in DOMAIN UnitLimits : UnitLimits[u] \in Nat

-----------------------------------------------------------------------------
\* compute_flags: `cpu` is ticks per USER_HZ over the system's uptime, in percent.
HighCpu(comm, ticks, uptime) ==
  \E r \in Rules : comm \in r.matches /\ ticks > r.cpu * uptime

HighMemory(comm, rss) == \E r \in Rules : comm \in r.matches /\ rss > r.rss

\* MemoryCurrent of a unit without memory accounting (u64::MAX).
Unknown == -1

\* Mutant: u64::MAX bytes are taken for what they say.
OverLimitUnknownIsHuge(u, memory) ==
  /\ u \in AllowedUnits \ ProtectedUnits
  /\ u \in DOMAIN UnitLimits
  /\ (memory = Unknown \/ memory > UnitLimits[u])

\* evaluate_resource_rules, HighMemory
OverLimit(u, memory) ==
  /\ u \in AllowedUnits \ ProtectedUnits
  /\ u \in DOMAIN UnitLimits
  /\ memory > UnitLimits[u]

\* The unit has some flag: a state flag, which every unit can have, or a rule's.
Flagged(s) ==
  s.failing \/ s.over \/ s.unit \in WeightUnits \cap (AllowedUnits \ ProtectedUnits)

(***************************************************************************)
(* What each command does, in order (the dispatch_* functions).  "pids"    *)
(* and "read" are processes::analyze, "units" and "props" services::       *)
(* analyze.                                                                *)
(***************************************************************************)
Commands == {"doctor", "status", "processes", "services", "analyze", "apply", "validate",
             "list", "rollback"}

Inspect       == <<>>                \* doctor, version, profile list and the stubs
Measure       == <<"collect">>       \* status and pressure
ScanProcesses == <<"pids", "read">>
ScanServices  == <<"units", "props">>
Analysis      == <<"collect", "pids", "read", "units", "props", "plan">> \* and dry-run
ListStore     == <<"store">>         \* rollback list and report
Undo          == <<"store", "revert">> \* rollback apply

\* Mutant: the rollback store is opened when the first entry is recorded.
StepsActFirst(c) ==
  CASE c = "doctor"    -> Inspect
    [] c = "status"    -> Measure
    [] c = "processes" -> ScanProcesses
    [] c = "services"  -> ScanServices
    [] c = "analyze"   -> Analysis
    [] c = "apply"     -> Analysis \o <<"act", "store">>
    [] c = "validate"  -> <<"validate">>
    [] c = "list"      -> ListStore
    [] c = "rollback"  -> Undo

Steps(c) ==
  CASE c = "doctor"    -> Inspect
    [] c = "status"    -> Measure
    [] c = "processes" -> ScanProcesses
    [] c = "services"  -> ScanServices
    [] c = "analyze"   -> Analysis
    [] c = "apply"     -> Analysis \o <<"store", "act">>
    [] c = "validate"  -> <<"validate">>
    [] c = "list"      -> ListStore
    [] c = "rollback"  -> Undo

\* exit_codes
Success == 0
RuntimeError == 1
ValidationFailed == 2
Running == 3        \* not an exit code: the command has not ended
Idle == 4           \* nor this: it has not begun

-----------------------------------------------------------------------------
VARIABLES
  clock,     \* changes of the world so far
  procs,     \* per pid: the process that has it
  units,     \* per unit: loaded, failing, memory and the highest memory ever
  cmd,       \* the command
  permitted, \* execute lets a state change through: root, and no dry_run
  rest,      \* the steps it has left
  code,      \* how it ended
  uptime,    \* uptime_secs, as the scan has it
  listedAt,  \* when /proc was listed
  listed,    \* the pids that were listed and are not read yet
  missed,    \* the processes that were there, but a call about them failed
  at,        \* the file of /proc/<pid> that is read next
  reading,   \* the ProcessInfo under construction
  entries,   \* the ProcessInfos of the scan
  unread,    \* the units ListUnits gave, whose memory is not read yet
  found,     \* the ServiceInfos
  renices,   \* the processes the plan has left
  limits,    \* the units the plan has left
  touched,   \* the processes that were acted on
  limited,   \* the units that were
  reverted   \* whether `rollback apply` changed anything

world   == <<clock, procs, units>>
command == <<cmd, permitted>>
scan    == <<uptime, listedAt, listed, missed, at, reading, entries, unread, found>>
plan    == <<renices, limits>>
effects == <<touched, limited, reverted>>
vars    == <<world, command, rest, code, scan, plan, effects>>

Gone  == [born |-> 0, named |-> 0, comm |-> NoComm, ticks |-> 0, rss |-> 0, peak |-> 0]
Blank == [pid |-> NoComm, comm |-> NoComm, readAt |-> 0, ticks |-> 0]

Alive(p) == procs[p].comm # NoComm

NewProcess(now, c) ==
  [born |-> now, named |-> now, comm |-> c, ticks |-> 0, rss |-> 0, peak |-> 0]

Memories == Unknown .. MaxMemory
NewUnit == [loaded |-> TRUE, failing |-> FALSE, memory |-> Unknown, peak |-> Unknown]

Init ==
  /\ clock = 0
  /\ procs \in [Pids -> {Gone} \cup {[NewProcess(0, c) EXCEPT !.ticks = n] :
                                     c \in Comms, n \in 0 .. MaxTicks}]
  /\ units = [u \in Units |-> NewUnit]
  /\ cmd = "doctor" /\ permitted = FALSE
  /\ rest = <<>> /\ code = Idle
  /\ uptime = Uptime /\ listedAt = 0 /\ listed = {} /\ missed = {}
  /\ at = "comm" /\ reading = Blank
  /\ entries = {} /\ unread = {} /\ found = {} /\ renices = {} /\ limits = {}
  /\ touched = {} /\ limited = {} /\ reverted = FALSE

-----------------------------------------------------------------------------
(* The world: the kernel, systemd and their users. *)

\* What changes before the command is part of Init, what changes after it is nobody's.
Later == code = Running /\ clock < MaxChanges /\ clock' = clock + 1

\* What becomes of the process that has pid p.
Live(p, process) ==
  /\ Later
  /\ procs' = [procs EXCEPT ![p] = process]
  /\ UNCHANGED <<units, command, rest, code, scan, plan, effects>>

Exit(p) == Alive(p) /\ Live(p, Gone)
Spawn(p, c) == ~ Alive(p) /\ Live(p, NewProcess(clock + 1, c))
Exec(p, c) == Alive(p) /\ Live(p, [procs[p] EXCEPT !.comm = c, !.named = clock + 1])

Burn(p) ==
  /\ Alive(p) /\ procs[p].ticks < MaxTicks
  /\ Live(p, [procs[p] EXCEPT !.ticks = @ + 1])

Resize(p, n) ==
  /\ Alive(p)
  /\ Live(p, [procs[p] EXCEPT !.rss = n, !.peak = IF n > @ THEN n ELSE @])

UnitBecomes(u, unit) ==
  /\ Later
  /\ units' = [units EXCEPT ![u] = unit]
  /\ UNCHANGED <<procs, command, rest, code, scan, plan, effects>>

UnitFails(u) == UnitBecomes(u, [units[u] EXCEPT !.failing = TRUE])
UnitUnloads(u) == UnitBecomes(u, [units[u] EXCEPT !.loaded = FALSE])

UnitUses(u, n) ==
  UnitBecomes(u, [units[u] EXCEPT !.memory = n, !.peak = IF n > @ THEN n ELSE @])

-----------------------------------------------------------------------------
(* The command. *)

Doing(step) == code = Running /\ rest # <<>> /\ Head(rest) = step

\* dispatch's overrides; the parser keeps the last of the two flags.
Overridden(dryRun, flag) == flag = "dry_run" \/ (dryRun /\ flag # "no_dry_run")

\* main: the configuration is loaded, or the command is over before it began.
Invoke(c, dryRun, flag, r, loaded) ==
  /\ code = Idle
  /\ cmd' = c /\ permitted' = (r /\ ~ Overridden(dryRun, flag))
  /\ rest' = IF loaded THEN Steps(c) ELSE <<>>
  /\ code' = IF loaded THEN Running ELSE RuntimeError
  /\ UNCHANGED <<world, scan, plan, effects>>

Ends(n) == code' = n /\ rest' = <<>>

\* collect_metrics!
Collect ==
  /\ Doing("collect")
  /\ rest' = Tail(rest)
  /\ UNCHANGED <<world, command, code, scan, plan, effects>>

CollectFails ==
  /\ Doing("collect")
  /\ Ends(RuntimeError)
  /\ UNCHANGED <<world, command, scan, plan, effects>>

\* config validate
Validate(issues) ==
  /\ Doing("validate")
  /\ Ends(IF issues THEN ValidationFailed ELSE Success)
  /\ UNCHANGED <<world, command, scan, plan, effects>>

(***************************************************************************)
(* processes::analyze: /proc/uptime first (a second, when it cannot be     *)
(* read), then every pid at once (list_pids collects; what it cannot list  *)
(* is left out, be it everything).                                         *)
(***************************************************************************)
ListPids(up, lost) ==
  /\ Doing("pids")
  /\ uptime' = up /\ listedAt' = clock
  /\ listed' = {p \in Pids : Alive(p)} \ lost /\ missed' = {p \in lost : Alive(p)}
  /\ rest' = Tail(rest)
  /\ UNCHANGED <<world, command, code, at, reading, entries, unread, found, plan,
                 effects>>

\* What reading an entry of /proc leaves alone.
others == <<world, command, rest, code, uptime, listedAt, unread, found, plan, effects>>

\* One file could not be read or parsed: nobody has the pid any more, or it is missed.
Dropped(p) == missed' = IF Alive(p) THEN missed \cup {p} ELSE missed

\* Mutant: the pid stays on the list.
ReadCommAgain(p) ==
  /\ Doing("read") /\ at = "comm" /\ p \in listed
  /\ \/ /\ Alive(p) /\ at' = "stat"
        /\ reading' = [pid |-> p, comm |-> procs[p].comm, readAt |-> clock, ticks |-> 0]
        /\ UNCHANGED missed
     \/ Dropped(p) /\ UNCHANGED <<at, reading>>
  /\ UNCHANGED <<listed, entries, others>>

\* read_process_entry, file by file: any failure drops the process from the list.
ReadComm(p) ==
  /\ Doing("read") /\ at = "comm" /\ p \in listed
  /\ listed' = listed \ {p}
  /\ \/ /\ Alive(p) /\ at' = "stat"
        /\ reading' = [pid |-> p, comm |-> procs[p].comm, readAt |-> clock, ticks |-> 0]
        /\ UNCHANGED missed
     \/ Dropped(p) /\ UNCHANGED <<at, reading>>
  /\ UNCHANGED <<entries, others>>

\* Mutant: a process that cannot be read ends the enumeration.
ReadStatAborts ==
  /\ Doing("read") /\ at = "stat"
  /\ \/ /\ Alive(reading.pid) /\ at' = "status"
        /\ reading' = [reading EXCEPT !.ticks = procs[reading.pid].ticks]
        /\ UNCHANGED <<missed, listed>>
     \/ Dropped(reading.pid) /\ at' = "comm" /\ reading' = Blank /\ listed' = {}
  /\ UNCHANGED <<entries, others>>

ReadStat ==
  /\ Doing("read") /\ at = "stat"
  /\ \/ /\ Alive(reading.pid) /\ at' = "status"
        /\ reading' = [reading EXCEPT !.ticks = procs[reading.pid].ticks]
        /\ UNCHANGED missed
     \/ Dropped(reading.pid) /\ at' = "comm" /\ reading' = Blank
  /\ UNCHANGED <<listed, entries, others>>

\* Mutant: the protected list is not consulted.
EntryUnprotected(r, process) ==
  [pid |-> r.pid, readAt |-> r.readAt, comm |-> r.comm, isProtected |-> FALSE,
   highCpu |-> HighCpu(r.comm, r.ticks, uptime), highMemory |-> HighMemory(r.comm, process.rss)]

\* is_process_protected and compute_flags, both of the name read first.
Entry(r, process) ==
  [pid |-> r.pid, readAt |-> r.readAt, comm |-> r.comm,
   isProtected |-> r.comm \in ProtectedComms,
   highCpu |-> HighCpu(r.comm, r.ticks, uptime), highMemory |-> HighMemory(r.comm, process.rss)]

ReadStatus ==
  /\ Doing("read") /\ at = "status"
  /\ at' = "comm" /\ reading' = Blank
  /\ \/ /\ Alive(reading.pid)
        /\ entries' = entries \cup {Entry(reading, procs[reading.pid])}
        /\ UNCHANGED missed
     \/ Dropped(reading.pid) /\ UNCHANGED entries
  /\ UNCHANGED <<listed, others>>

ProcessesRead ==
  /\ Doing("read") /\ at = "comm" /\ listed = {}
  /\ rest' = Tail(rest)
  /\ UNCHANGED <<world, command, code, scan, plan, effects>>

(***************************************************************************)
(* query_systemd: ListUnits gives every unit with its state, the memory is *)
(* asked unit by unit afterwards.  Without a bus there are no services.    *)
(***************************************************************************)
ListUnits(bus) ==
  /\ Doing("units")
  /\ unread' = IF bus THEN {[unit |-> u, failing |-> units[u].failing, over |-> FALSE] :
                            u \in {v \in Units : units[v].loaded}} ELSE {}
  /\ rest' = Tail(rest)
  /\ UNCHANGED <<world, command, code, uptime, listedAt, listed, missed, at, reading,
                 entries, found, plan, effects>>

ReadUnit(s) ==
  /\ Doing("props") /\ s \in unread
  /\ unread' = unread \ {s}
  /\ LET memory == IF units[s.unit].loaded THEN units[s.unit].memory ELSE Unknown
     IN  found' = found \cup {[s EXCEPT !.over = OverLimit(s.unit, memory)]}
  /\ UNCHANGED <<world, command, rest, code, uptime, listedAt, listed, missed, at,
                 reading, entries, plan, effects>>

ServicesRead ==
  /\ Doing("props") /\ unread = {}
  /\ rest' = Tail(rest)
  /\ UNCHANGED <<world, command, code, scan, plan, effects>>

-----------------------------------------------------------------------------
\* collect_cgroup_targets and collect_process_targets
LimitTargets ==
  {s.unit : s \in {s \in found : s.unit \in AllowedUnits \ ProtectedUnits /\ Flagged(s)}}

PriorityTargets ==
  {[pid |-> e.pid, readAt |-> e.readAt] :
     e \in {e \in entries : ~ e.isProtected /\ (e.highCpu \/ e.highMemory)}}

\* classify_state, decide and plan: units before processes, nothing below Moderate pressure.
Plan(pressure) ==
  /\ Doing("plan")
  /\ limits' = IF pressure THEN LimitTargets ELSE {}
  /\ renices' = IF pressure /\ LimitTargets = {} THEN PriorityTargets ELSE {}
  /\ rest' = Tail(rest)
  /\ UNCHANGED <<world, command, code, scan, effects>>

OpenStore ==
  /\ Doing("store")
  /\ rest' = Tail(rest)
  /\ UNCHANGED <<world, command, code, scan, plan, effects>>

OpenStoreFails ==
  /\ Doing("store")
  /\ Ends(RuntimeError)
  /\ UNCHANGED <<world, command, scan, plan, effects>>

(***************************************************************************)
(* execute one action: setpriority or SetUnitProperties on whoever has the *)
(* pid or the name by now.  The call fails if nobody has it, and may fail  *)
(* otherwise; the next action follows either way.                          *)
(***************************************************************************)
Renice(t) ==
  /\ Doing("act") /\ t \in renices
  /\ renices' = renices \ {t}
  /\ \/ /\ permitted /\ Alive(t.pid)
        /\ touched' = touched \cup {[readAt |-> t.readAt, process |-> procs[t.pid]]}
     \/ UNCHANGED touched
  /\ UNCHANGED <<world, command, rest, code, scan, limits, limited, reverted>>

Limit(u) ==
  /\ Doing("act") /\ u \in limits
  /\ limits' = limits \ {u}
  /\ \/ permitted /\ units[u].loaded /\ limited' = limited \cup {u}
     \/ UNCHANGED limited
  /\ UNCHANGED <<world, command, rest, code, scan, renices, touched, reverted>>

Acted ==
  /\ Doing("act") /\ renices = {} /\ limits = {}
  /\ rest' = Tail(rest)
  /\ UNCHANGED <<world, command, code, scan, plan, effects>>

(***************************************************************************)
(* `rollback apply`: whether it restores anything depends on the entry,    *)
(* and it may fail with or without having changed something -- the file is *)
(* written before the reload, a tunable before it is read back (Rollback   *)
(* and DropIn say what it does).                                           *)
(***************************************************************************)
Revert(changed, ok) ==
  /\ Doing("revert")
  /\ reverted' = changed
  /\ Ends(IF ok THEN Success ELSE RuntimeError)
  /\ UNCHANGED <<world, command, scan, plan, touched, limited>>

\* Every other dispatch_* function ends in ExitCode::SUCCESS, whatever its actions came to.
Succeed ==
  /\ code = Running /\ rest = <<>>
  /\ code' = Success
  /\ UNCHANGED <<world, command, rest, scan, plan, effects>>

-----------------------------------------------------------------------------
WorldStep ==
  \/ \E p \in Pids : Exit(p) \/ Burn(p) \/ \E n \in 0 .. MaxMemory : Resize(p, n)
  \/ \E p \in Pids, c \in Comms : Spawn(p, c) \/ Exec(p, c)
  \/ \E u \in Units : UnitFails(u) \/ UnitUnloads(u) \/ \E n \in Memories : UnitUses(u, n)

ScanStep ==
  \/ \E up \in {Uptime, 1}, lost \in SUBSET Pids : ListPids(up, lost)
  \/ \E p \in listed : ReadComm(p)
  \/ ReadStat \/ ReadStatus \/ ProcessesRead
  \/ \E bus \in BOOLEAN : ListUnits(bus)
  \/ \E s \in unread : ReadUnit(s)
  \/ ServicesRead

CommandStep ==
  \/ \E c \in Commands, dryRun, r, loaded \in BOOLEAN, flag \in {"none", "dry_run", "no_dry_run"} :
       Invoke(c, dryRun, flag, r, loaded)
  \/ \E issues \in BOOLEAN : Validate(issues)
  \/ \E pressure \in BOOLEAN : Plan(pressure)
  \/ Collect \/ CollectFails \/ OpenStore \/ OpenStoreFails
  \/ \E changed, ok \in BOOLEAN : Revert(changed, ok)
  \/ (\E t \in renices : Renice(t)) \/ (\E u \in limits : Limit(u)) \/ Acted \/ Succeed

Next == WorldStep \/ ScanStep \/ CommandStep

Spec == Init /\ [][Next]_vars

-----------------------------------------------------------------------------
Times == 0 .. MaxChanges
Processes ==
  [born : Times, named : Times, comm : Comms \cup {NoComm}, ticks : 0 .. MaxTicks,
   rss : 0 .. MaxMemory, peak : 0 .. MaxMemory]
Entries ==
  [pid : Pids, readAt : Times, comm : Comms, isProtected : BOOLEAN, highCpu : BOOLEAN,
   highMemory : BOOLEAN]
Services == [unit : Units, failing : BOOLEAN, over : BOOLEAN]

\* The shape of the state; no pid is both listed and read.
TypeOK ==
  /\ clock \in Times
  /\ procs \in [Pids -> Processes]
  /\ units \in [Units -> [loaded : BOOLEAN, failing : BOOLEAN, memory : Memories,
                          peak : Memories]]
  /\ cmd \in Commands /\ permitted \in BOOLEAN
  /\ code \in {Success, RuntimeError, ValidationFailed, Running, Idle}
  /\ uptime \in Nat \ {0} /\ listedAt \in Times
  /\ listed \subseteq Pids /\ missed \subseteq Pids
  /\ at \in {"comm", "stat", "status"}
  /\ IF at = "comm" THEN reading = Blank
     ELSE reading \in [pid : Pids \ listed, comm : Comms, readAt : Times, ticks : 0 .. MaxTicks]
  /\ entries \subseteq Entries /\ \A e \in entries : e.pid \notin listed
  /\ unread \subseteq Services /\ found \subseteq Services
  /\ renices \subseteq [pid : Pids, readAt : Times] /\ limits \subseteq Units
  /\ touched \subseteq [readAt : Times, process : Processes] /\ limited \subseteq Units
  /\ reverted \in BOOLEAN

(***************************************************************************)
(* A process that lives through the whole scan is listed once, with the    *)
(* name it has unless it changed that since, if the calls about it succeed *)
(* -- it was in the listing of /proc, and its comm, stat and status could  *)
(* be read and parsed.  The processes that come and go meanwhile, and the  *)
(* ones that cannot be read, cost nobody else their place ("normal for     *)
(* short-lived processes and is not an error", processes::analyze).        *)
(***************************************************************************)
Scanned ==
  /\ code = Running /\ cmd \in {"processes", "analyze", "apply"}
  /\ \A i \in DOMAIN rest : rest[i] \notin {"collect", "pids", "read"}

SurvivorsListed ==
  Scanned =>
    \A p \in Pids \ missed :
      (Alive(p) /\ procs[p].born <= listedAt) =>
        \E e \in entries :
          /\ e.pid = p
          /\ procs[p].named <= e.readAt => e.comm = procs[p].comm
          /\ \A f \in entries : f.pid = p => f = e

(***************************************************************************)
(* A flag is true of somebody: whoever kept pid and name since the scan    *)
(* took them has used the CPU, and had the memory, that a rule for that    *)
(* name objects to, and a unit over its limit really was, is allowed and   *)
(* is not protected.  Only a scan without /proc/uptime overstates the CPU  *)
(* (compute_flags and evaluate_resource_rules over files read one by one). *)
(***************************************************************************)
Kept(p, time) == Alive(p) /\ procs[p].named <= time

FlagsEarned ==
  /\ \A e \in entries :
       Kept(e.pid, e.readAt) =>
         /\ e.highCpu => \/ HighCpu(procs[e.pid].comm, procs[e.pid].ticks, Uptime)
                         \/ uptime # Uptime
         /\ e.highMemory => HighMemory(procs[e.pid].comm, procs[e.pid].peak)
  /\ \A s \in found :
       s.over => /\ s.unit \in AllowedUnits \ ProtectedUnits
                 /\ units[s.unit].peak > UnitLimits[s.unit]

(***************************************************************************)
(* However the world moves between the scan and the system call, a process *)
(* with a protected name is touched only if it took that pid or that name  *)
(* after the scan had read it, and a protected unit never is               *)
(* (is_process_protected, collect_process_targets, execute).               *)
(***************************************************************************)
ProtectedSpared ==
  /\ \A t \in touched : t.process.comm \in ProtectedComms => t.process.named > t.readAt
  /\ limited \cap ProtectedUnits = {}

(***************************************************************************)
(* `rollback apply` is the only command that may change something and then *)
(* report failure.  Every other command that fails has changed nothing,    *)
(* and neither has one that is not `actions apply` as root without         *)
(* dry_run: every step of it that can still fail comes before its first    *)
(* change (dispatch_actions, dispatch_rollback).                           *)
(***************************************************************************)
Changed == touched # {} \/ limited # {} \/ reverted

FailureChangesNothing ==
  Changed => \/ cmd = "rollback"
             \/ cmd = "apply" /\ permitted /\ code \in {Running, Success}
=============================================================================
