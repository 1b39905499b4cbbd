# TLA+ models of syswarden

syswarden watches Linux pressure-stall information (PSI), decides with a profile-driven
policy what could relieve a loaded host, and either reports it (the daemon) or does it
(`syswarden actions apply`), keeping an undo log. This directory holds TLA+ models of it,
the TLC configurations that check them, and TLAPS proofs.

Paths are relative to the repository's top directory; the Rust code is in `src/src/`.

1. [The system](#1-the-system) — components, state, interactions, what is hard
2. [The modules](#2-the-modules) — which module models which part, and how
3. [The runs](#3-the-runs) — what TLC checks, the bounds, the fairness
4. [The proofs](#4-the-proofs) — what holds for every value of the constants
5. [Where code and documents disagree](#5-where-code-and-documents-disagree)
6. [Abstractions](#6-abstractions)
7. [What is not modelled, and the plan](#7-what-is-not-modelled-and-the-plan)

## 1. The system

One binary. `syswarden daemon` is a single task on a current-thread runtime, one tick
after another. Every other command is a one-shot process. The processes share no memory;
they meet in the JSON-lines files under `/var/lib/syswarden` (history, rollback), for which
there is no lock, and in the live system: `/proc`, cgroups, `/etc/systemd/system`, and
systemd over D-Bus. systemd supervises the daemon with a watchdog and a start limit.

A tick (`daemon.rs`, `single_tick` inside `run_async`) is a pipeline:

    metrics -> pressure::compute -> processes/services analysis -> classify_state
            -> policy::decide -> actions::plan -> actions::simulate (each action)
            -> audit -> explain -> history append -> push the level onto the trend
            -> watchdog ping -> sleep an adaptive interval, or stop on a signal

`actions apply` runs the same pipeline once, without a trend, and calls `execute`
in place of `simulate`.

| component (file under `src/src/`) | state | operations | correct when |
|---|---|---|---|
| pressure (`pressure/`) | none; reads the caller's trend | classify PSI, memory cross-check, hysteresis, supervision state | a level never exceeds what was read; a sustained rise is eventually reported; a blip is not |
| history (`history/`) | one JSONL file per day; an in-memory ring | open (load newest, prune by age), append (size limit), recent levels, records since | a restart resumes where the daemon stood; no young record is lost to a report |
| daemon (`daemon.rs`) | trend, previous metrics, previous level | start, tick, sleep, stop | it pings the watchdog in time, stops when told; the trend keeps its bound |
| unit file (`src/packaging/systemd/`) | the manager's: watchdog, start limit | kill, restart | a hung daemon is replaced; restarts do not add up to a failed unit |
| policy (`policy/`) | none | `decide` and its target helpers | asks for nothing the profile forbids, and gives up only when nothing is permitted |
| profiles (`profiles/`) | none | built-in table, `resolve` with the global caps | the global switches always win |
| safety (`safety/`) | none | `evaluate`, eight gates | no change without every permission |
| actions (`actions/`) | none | `plan`, `simulate`, `execute` (capture, change, record) | only permitted changes; every change can be undone |
| rollback (`rollback/`) | `rollback.jsonl`; a per-process cache | open, prune, record, list, apply | entries survive; undoing gives back the original |
| systemd, sysctl, cgroups | the live system, drop-in files | write and verify, set properties, drop-ins, read limits | nothing an administrator wrote is destroyed; what is loaded is what is on disk |
| metrics (`metrics/`) | previous CPU and swap counters | collect | a delta is a delta between two readings; shares fit together |
| processes, services | none | scan and flag against rules | who lives through a scan is listed; a flag is true of somebody; who is protected is spared |
| reports (`reports/`) | none | aggregate a window of the history | no holes, in order, the true span |
| cli (`cli.rs`) | overrides, exit code | one handler per command | overrides reach the gates; an error of any command but `rollback apply` means nothing changed |
| config, logging, explain, error | configuration; append-only audit | load, print | — |
| zram | none | none (an empty module) | — |
| installers, profile scripts | — | copy files | — |

What is hard here, and hard to test:

- **state fed back through disk.** The daemon filters its levels with a trend made of its
  own filtered levels, which a restart reloads from the newest history file — whatever a
  crash, a full disk, midnight, a clock step or the size limit left there.
- **two-step writes.** `writeln!` on an unbuffered file issues the text and the newline
  separately; `fs::write` truncates before it writes; a drop-in is written, then loaded.
- **an undo log with several writers**, no lock, entries undone in any order, and a crash
  possible between a change and its entry.
- **one question decided in three places.** Policy, planner and gates each consult the
  profile, the switches, the two lists and the flags; they can disagree either way.
- **the daemon's timing**: watchdog, signals during a tick, an error path with a sleep of
  its own, restarts that count against a limit.
- **surveys of a world that moves**: three files of a process read one after another, pids
  used again before the system call, units that unload, a report over files that are
  appended to and pruned.
- **differences of counters** that go back, cannot be read, or have no predecessor.

`PROJECT.json` lists these hazards one by one with the line where each bites and the
properties that cover it, or why none does.

## 2. The modules

| module | models | state | actions |
|---|---|---|---|
| `Pressure` | `pressure/mod.rs` | none: operators only | — |
| `JsonLines` | the append/read/trim of JSONL files in `history/mod.rs`, `rollback/mod.rs` | none: operators only | — |
| `Supervision` | `daemon.rs` (start, tick, trend) with `history/mod.rs` | process counter, trend, level, history directory, files to remove, day | `Start`, `ListExpired`, `RemoveExpired`, `EndPrune`, `ReportPrunes`, `Classify`, `AppendAndPush`, `CrashInAppend`, `Stop`, `NewDay` |
| `Lifecycle` | `daemon.rs` (`run_async`'s loop in time) with the unit file | process and unit state, timers, watchdog silence, signals, start limit | `Start`, `StartFails`, `Collect`, `CollectFails`, `Retry`, `Tick`, `Hang`, `Wake`, `Shutdown`, `Signal`, `Kill`, `Restart`, `StartAgain`, `Elapse` |
| `Sampler` | `metrics/` (`collect`, `cpu.rs`) | kernel counters, previous sample, the sample in progress, figures | `ReadStat`, `ReadVmstat`, `Publish`, `LoadavgFails`, `Restart`, `Count`, `IowaitBack`, `Elapse` |
| `Survey` | `cli.rs` (`dispatch` and its handlers), `processes/`, `services/` | processes, units, the command and its scan, plan and effects | one per step of a command (`Collect`, `ListPids`, `ReadComm`, `ReadStat`, `ReadStatus`, `ListUnits`, `ReadUnit`, `Plan`, `OpenStore`, `Renice`, `Limit`, `Revert`, ...) and of the world (`Exit`, `Spawn`, `Exec`, `Burn`, `Resize`, `UnitFails`, ...) |
| `Governance` | `classify_state`, `policy/`, `profiles/`, `plan`/`simulate`/`execute`, `safety/` | configuration, capabilities, findings, plan, results, limited units, units whose limit does not show | `Tick`, `Perform`, `Hide`, `Finish`, `LimitsChange` |
| `UndoLog` | nothing of its own: what an undo log promises | system, way back of each knob | `Touch` |
| `Rollback` | `actions/mod.rs` (execute) with `rollback/mod.rs`, `sysctl/`, the calls into `systemd/`, and `cli.rs` | live system, rollback file, and per process: counter, command, cache, job | `Open`, `Prune`, `Rewrite`, `Capture`, `Change`, `ChangeFails`, `Record`, `Undo`, `RevertFails`, `Finish`, `Crash` |
| `DropIn` | `systemd/mod.rs` (drop-ins), `revert_drop_in` of `rollback/mod.rs`, the persistent branch of `dispatch_with_prior` | the file, what systemd loaded, entries, per process: counter and job | `Apply`, `Undo`, `Truncate`, `Fill`, `Remove`, `OpenFails`, `FillFails`, `Reload`, `ReloadFails`, `Record`, `Crash`, `Edit`, `DaemonReload` |
| `Reporting` | `records_since`, `prune_old_files`, `append` of `history/mod.rs`; `reports/`; `dispatch_report` | clock, daily files, the daemon, the report command | `Start`, `OpenReport`, `DaemonPrunes`, `ReportPrunes`, `Collect`, `NameFile`, `Write`, `Stop`, `BeginWindow`, `ListFiles`, `ReadFile`, `Summarise`, `EndReport`, `Elapse` |

`Supervision` uses `Pressure` and `JsonLines`; `Rollback` uses `JsonLines` and is shown to
implement `UndoLog`; `Reporting` uses `JsonLines`; `Governance` uses `Pressure`. `MC...`
modules give the constants small values; `...Proofs` modules hold the theorems. Operators
named as mutants in their comments are deliberately wrong variants of the definition that
follows them: they are used by no specification, and each property has one it is known to
reject. Variables commented "observer" are read by properties only, never by a guard.

How the modules divide the system: what one takes as an input, another computes. The
readings of `Supervision` are `Sampler`'s figures; the flags of `Governance` are `Survey`'s;
the changes of `Rollback` and `DropIn` are `Governance`'s plan; `Reporting` reads the files
that `Supervision` writes; `Lifecycle` has the stops and crashes of `Supervision` in time.

### Pressure

PSI averages become sub-levels (`ClassifyLevel`, `ClassifyMemoryLevel`), the worst one is
`RawLevel`, and `ApplyHysteresis` filters it with the trend. `ClassifyState` selects the
supervision state. A level is its rank, as the derived `Ord` makes it. Thresholds are not
required to be ordered, because the code does not require it. A PSI file that cannot be
read or parsed counts as zeroes (`Unread`).

### JsonLines

A file is its readable records and the condition of its last line. An append reaches the
disk entirely (`"line"`), without its newline (`"json"`), as a fragment, as an empty new
file, or not at all. Appending to a line without newline merges two lines into one corrupt
line, so the reader loses both: `Written` says so. `Push` is `push` followed by dropping
the oldest.

### Supervision

The process is `down`, opening its store, about to collect, or about to append. `Start`
loads the newest file, which will seed the trend; `ListExpired` lists the directory again
and takes the expired files, `RemoveExpired` removes one of them, in any order, and
`EndPrune` goes on to the loop. `ReportPrunes` is a `syswarden report` that removes an
expired file at any time. `Classify` is `single_tick` down to the record; `AppendAndPush` is
the append and then the push, which happens even when the append fails or the file is over
its limit; the process may be stopped or killed anywhere, and `CrashInAppend` is death
inside the write. `raws` remembers the unfiltered levels for the properties. `excused` marks
the faults after which what is on disk may mislead:

- at a start, a newest file that is not listed or cannot be read;
- an expired file that is not listed or resists removal (it can outlive newer ones, and be
  resumed from);
- a pruning that removes an expired file before an older one and leaves that one as the
  newest of the directory: the daemon's, if it is stopped at that moment, and any report's,
  which a start may overtake;
- a record without its newline; a clock set back.

A write that fails whole, a torn fragment, an empty file, a crash anywhere else and a
pruning cut short in the order of the dates are not among them. `Resumes` is what the daemon
goes on from: the newest file's records, or the trend it holds while it opens the store or
when there are none.

### Lifecycle

Time is discrete and stands still while something is due, so a timer fires when it runs out
and a tick ends within `TickTime` unless it hangs. The runtime's signal handler only writes
to a pipe; the pipe is read when the runtime parks, and what is in it goes to the listeners
that exist then: SIGTERM's lives as long as the loop, SIGINT's only during a `select!`. So
neither signal is lost during a tick; a SIGINT is lost when the pipe is read during the
sleep after a failed collection, or in a wake-up that the timer's branch wins. `Kill` is the
watchdog (and SIGINT before `ctrl_c()` was first called), `BeginStart` counts against the
start limit as systemd does.

### Sampler

`collect` reads `/proc/meminfo` and `/proc/stat`, then `/proc/vmstat`, compares with the
previous sample and replaces it, then reads `/proc/loadavg`, which may fail. The kernel
counts on between any two reads; iowait may go back. Differences saturate as
`saturating_sub` does. A process begins with `CpuSample::default()`.

### Survey

One command at a time, as the sequence of its steps (`Steps`), while the world takes up to
`MaxChanges` steps of its own. `/proc/<pid>/comm`, `stat` and `status` are three reads; a
process that is gone by any of them is skipped, and so is one that a failed call leaves out
of the listing or whose file cannot be read or parsed (`missed`). `Plan` keeps what
`collect_cgroup_targets` and `collect_process_targets` select; `Renice` and `Limit` act on
whoever has the pid or the name by then. What profiles permit is Governance's; here
everything flagged, unprotected and allowed is relieved. `Revert` is `rollback apply`,
reduced to whether it changed anything and whether it failed; what it does is in `Rollback`
and `DropIn`.

### Governance

`Tick` computes the plan from level, findings and configuration, as daemon or as `apply`;
`Perform` simulates or executes one action; `Finish` ends the tick. `Hide` is the moment
from which a unit's `memory.high` does not show its limit: the unit stops, has no cgroup in
`system.slice`, or systemd has not written the limit; `cgroups::read` makes None of each.
The definitions follow the code's functions one for one: `Resolve`, `ProcessTargets`,
`CgroupTargets`, `FlaggedTargets`, `Decide`, `Plan`, `Evaluate`, `Simulated`, `Executions`.
A profile is its risk and the set of kinds its `allow_*` flags permit.

### Rollback and UndoLog

Each process is one command. `Open` loads the cache; `Prune` truncates the file when the
cache is over `keep_entries` and `Rewrite` writes it back at offset 0, over whatever others
appended meanwhile. An executor repeats `Capture` (read the prior state), `Change` (or
`ChangeFails`) and `Record`; an undo writes an entry's saved fields back and leaves the
entry in the store. With `Faults`, processes die between any two steps and inside writes,
appends are torn, rewrites are cut short, prior states cannot be read, and a call may fail
although it took effect: systemd's answer is lost, or `sysctl::apply`, in an action or in a
revert, fails in its verify-read or sees another value than the one asked for. The kinds are
those of the code, with what each one changes (`Changes`) and what its entry saves
(`Saves`): the three unit limits are saved together by each of their kinds.

`UndoLog` is the promise behind this machinery: every knob has, or has not yet, a way back,
the value it had before it was first touched; a way back is kept for ever, and a knob takes
another value only when it has one. Saving and changing are one step there. In `Rollback`
they are three, and the mapping is `Back`: the way back of a knob is what the oldest entry
that saved it holds, and an executor that has changed the system and is about to record
counts as an entry. `ImplementsUndoLog` says that with this mapping every behaviour of
`Rollback` is one of `UndoLog`. It is stated for one executor and a store that does not
overflow; two overlapping executors break it (each may save the other's half-made change),
as does a crash between `Change` and `Record`.

What a fault costs is the business of an observer. A knob is *bare* while it differs from
its original value and neither the file nor an entry about to be recorded says what that
was; `exposed` remembers the knobs that have ever been bare. `RestUnharmed` is
`UndoAllRestores` for all other knobs, under crashes, torn and lost entries, prior states
that could not be read and calls that fail half way. `ExposedOnlyByFaults` bounds what can
be exposed: a step that exposes a knob is a change whose prior value could not be read, a
call that failed although it took effect, a failed revert that left the tunable with a value
of its own, or the loss of an entry, which exposes what its action changed, and, when it
takes an entry without its newline along, what that one saved. So a crash between change and
entry, which the code does not guard against, costs the way back of the knobs of that
action, and an undo that succeeds, of whatever entry and however late, costs none.

### DropIn

The drop-in file of one unit, which all four kinds share and every write replaces. `Apply`
reads the old content and decides on the new, `Truncate` and `Fill` are the two halves of
`fs::write`, `Reload` follows, then `Record`. An undo compares (`Undo`), restores by the
same two steps or removes the file (`Remove`), and reloads. Between the halves the file is
empty for whoever reads it, and a second command that changes it leaves the first one
"torn": what it then writes may come out whole, as the other's, or mixed (`Garbled`).
Opening, writing, removing and reloading may fail, any process may die between any two
steps, and the administrator edits the file at any time and may reload. A file that cannot
be read counts as absent. No planner path asks for a persistent change yet; executor, store
and their tests support it.

Four observers say what the properties except: `spoilt` (a write went unrecorded or stopped
half-way), `unread` (an action could not read its prior content), `overlapped` (someone met
a command between its truncation and its content) and `raced` (an edit fell between a
command's read and the end of its write). `WayBack` needs the first three and
`AdminContentKept` all but `overlapped`; neither holds with one of its three left out.

### Reporting

A clock with several readings a day. The daemon stamps a record (`Collect`), names the file
of the day it is then (`NameFile`), and writes (`Write`): midnight may fall between any two.
The daemon's start and every report open the store, which lists the expired files and
removes them one by one. The report takes its window, lists the directory, and reads the
files in the order of their dates; a file removed meanwhile counts as empty. With
`DiskFaults` any listing, of a pruning or of the report, may leave files out, up to all of
them, and any file may resist reading or removal; `lost` has those that cost the report
something. Levels belong to the number of a record (`LevelOf`), so that ties and majorities
occur without multiplying the states.

## 3. The runs

| run | distinct states | what it shows |
|---|---|---|
| `supervision` | 1,946,874 | From any trend the disk can seed — torn lines, unreadable files, a clock set back, files at their limit, crashes in and between writes — the reported level never exceeds the reading, and from a seeded trend never rises. Short of the excused faults, what a restart resumes from is never below where the daemon stands, and only falls, stops between two removals included. |
| `supervision_escalation` | violation | Four consecutive critical readings after a quiet one, and the level is still None. |
| `lifecycle` | 27,091 | With watchdog periods that two pauses fit in, that one does not, and none: a daemon that is well is heard in time, one missed ping is survived, restarts by the watchdog do not exhaust the start limit; a SIGTERM stops the daemon and a hung one is replaced. |
| `sampler` | 574,081 | Shares fit into the total, no page is reported twice or lost unaccounted, an unreadable `/proc/vmstat` spoils one comparison only. |
| `sampler_first` | violation | The first collection of a process reports all pages since boot as a rate. |
| `survey` | 2,450,669 | Every command over two pids, two names and a unit, with two changes of the world between any of its steps and any read failing: survivors that can be read are listed once and by their name, flags are earned, protected processes are spared, and only `rollback apply` may have changed something when it ends in an error. |
| `governance` | 758,848 | All 56 combinations of the seven profiles and three switches, with and without root and PSI, every level, findings on six targets, simulated and executed, with failing calls and limits that do not show. |
| `rollback_undo` | 190,843 | One executor, a second process that lists and undoes at any moment, five kinds over shared knobs: `Rollback` implements `UndoLog`, and undoing the whole log restores the system, except between a change and its entry. |
| `rollback_faults` | 1,205,136 | One executor and one process that lists and undoes, with every fault. Until the store overflows no settled entry is lost or altered, the log restores every knob that was never exposed, and only a fault's own knobs are exposed; an open store always holds its limit. |
| `rollback_prune` | violation | An entry recorded while another command prunes is lost. |
| `dropin` | 952,055 | Persistent limits under every interleaving and failure, with truncation and content as steps of their own: but for the three exceptions each, a chain of undos leads back to the administrator's content, and that content is never destroyed; systemd has loaded what is on disk once all is quiet. |
| `reporting` | 3,743,292 | Reports beside the daemon: no holes but those of files that could not be listed or read, in order, the dominant level is the most severe of the most frequent. |

Deadlock is checked in every run but `survey`, where a command that has ended is the end.

### Fairness

Only `Lifecycle` has liveness properties, and assumes:

- weak fairness of the daemon's own steps as a whole (`Process`): the task runs when it can;
  nothing is assumed of the outcome of a collection or of a start-up;
- weak fairness of the service manager (`Manager`), which kills and restarts when due, and
  of time (`Elapse`);
- strong fairness of `Shutdown`: when timer and signal are both ready, `tokio::select!`
  picks a branch at random, so the signal's branch does not lose for ever.

Signals, hangs, failing collections and failing start-ups are not fair: they happen or not.
`TermStops` therefore excepts, without a watchdog, a tick that hangs and collections that
fail for ever; `HungIsReplaced` asks for a watchdog and excepts a unit that was stopped or
that failed. The other modules state safety properties and need no fairness.

### Bounds, and why they are enough

- **Hysteresis.** `Ticks = 3` is the default of `config/mod.rs`; the trend holds 4 levels.
  Three readings reach the levels None, Moderate and Critical: enough to rise by one step
  and by several, and to fall between; `supervision` takes the two extremes, the unreadable
  files add the dips. PSI files fail one at a time, the CPU's or the memory's, which carry
  those levels. `Window`, the observer's memory, is 1 where a property looks at the current
  reading only and 4 for escalation, which needs `Ticks + 1` readings.
- **History.** Three days with `Retention = 0`: the two files before the last can both
  expire, so that a pruning can be cut short between them, in either order. `MaxRecords`
  puts a file at its limit while the trend (4) still grows. `BufCap` is the code's 256; the
  ring is only ever cut to the trend's length. The proofs hold for any.
- **Lifecycle.** Small figures in the proportions of the shipped ones: a period whose half
  is below the idle interval (so that the cut to the budget matters), one that two of the
  longest pauses fit in (so that a lapse is survived), and none; a start limit that failing
  start-ups reach and watchdog restarts do not, as with 180 s, 5 s and 5 in 300 s.
- **Sampler.** The counters whose order matters, iowait and pages, reach two; busy and idle
  one. The clock reaches two, so that intervals with and without a rate occur.
- **Survey.** Two pids, so that one can be read while the other changes; two names, one that
  a rule watches and one that is protected although the rule matches; one unit. Two changes
  of the world: the least in which a pid is freed and taken again. `Uptime` is 1, which is
  also what an unreadable `/proc/uptime` counts as; that such a scan overstates the CPU is
  left to the proof.
- **Rollback.** Two processes are the least that interleave; the file is the only thing a
  third would share. Three entries are the least where the middle one is undone between two
  that overlap it. `KeepEntries` equals the bound on entries in `rollback_undo` (no
  overflow, which the properties except) and is below it in `rollback_faults` (so that
  pruning, truncation and rewriting happen). Except there, values are 0 (untouched), 1 and
  2: the captured value can be told from the original and from the new one.
  `rollback_faults` has two kinds whose own faults expose (a nice value that cannot be read,
  a tunable whose apply or revert fails after its write) and one that is not reversible; two
  values suffice, since a tunable can be asked to stay as it is. Of its three entries two
  can merge into one corrupt line, and the third overflows the store. Limits that are saved
  together are in `rollback_undo`, without faults; two executors are in no run. The theorems
  are about any kinds, and `StoreAppendOnly` about any executors.
- **DropIn.** Two kinds, so that one write erases the other's limit; one value, so that a
  later write can equal an earlier one and an administrator's section can equal syswarden's;
  two entries, the least with an older one to lead back to; one executor and one undo at a
  time, so that a second writer is always the other of the two or the administrator. Undos
  that meet each other are covered by the proof only.
- **Governance.** One target for every combination of the lists that the code tells apart:
  an ordinary process, a protected one, pid 1 left unprotected; a service that may be
  limited, one allowed and protected, one neither. The protected process and pid 1 are
  flagged together or not at all, and only the ordinary process takes all four sets of
  flags. The order of actions of different targets is arbitrary, so every order is taken.
- **Reporting.** Three days of two readings each, one day of retention: the first day's file
  expires on the third. A window of one day begins inside a day or at its start, by the time
  of the report. Three records, two to a file.

## 4. The proofs

TLAPS checks these for every value of the constants that the `ASSUME`s admit.

| theorem | module | says |
|---|---|---|
| `TypeCorrect` | each of the eight below | `Spec => []TypeOK` |
| `ReportedPressureIsReal` | `SupervisionProofs` | `[]LevelNeverExceedsReading` |
| `LevelOnlyFalls` | `SupervisionProofs` | `NoRiseOnceSeeded` |
| `CrashForgetsNoPressure` | `SupervisionProofs` | `[]TrendNeverAboveDisk` |
| `ResumedLevelOnlyFalls` | `SupervisionProofs` | `DurableLevelNeverRises` |
| `HealthyNeverKilled` | `LifecycleProofs` | `[]HealthyIsHeard` |
| `OneLapseSurvived` | `LifecycleProofs` | `[]IsolatedLapseSurvived` |
| `WatchdogRestartsNeverExhaust` | `LifecycleProofs` | `[]FailedOnlyIfQuick` |
| `SharesAreShares` | `SamplerProofs` | `[]SharesFit` |
| `NoPageTwice` | `SamplerProofs` | `[]PagesAccounted` |
| `OneBlindComparison` | `SamplerProofs` | `BlindnessPasses` |
| `FlagsAreEarned` | `SurveyProofs` | `[]FlagsEarned` |
| `ProtectedAreSpared` | `SurveyProofs` | `[]ProtectedSpared` |
| `FailuresChangeNothing` | `SurveyProofs` | `[]FailureChangesNothing` |
| `SurvivorsAreListed` | `SurveyProofs` | `[]SurvivorsListed` |
| `PlanPassesGates` | `GovernanceProofs` | `[]BlockedOnlyWithCause` |
| `ChangesArePermitted` | `GovernanceProofs` | `[]ExecutedIsPermitted` |
| `NothingMissed` | `GovernanceProofs` | `[]NoMissedRelief` |
| `UndoLogComplete` | `RollbackProofs` | `[]UndoAllRestores` |
| `RefinesUndoLog` | `RollbackProofs` | `ImplementsUndoLog`, undisturbed |
| `StoreAppendOnly` | `RollbackProofs` | `AppendOnly`, with distinct ids |
| `FaultsSpareTheRest` | `RollbackProofs` | `Spec => []RestUnharmed` |
| `OnlyFaultsExpose` | `RollbackProofs` | `Spec => ExposedOnlyByFaults` |
| `AlwaysAWayBack` | `DropInProofs` | `[]WayBack` |
| `AdminContentNeverLost` | `DropInProofs` | `[]AdminContentKept` |
| `QuietMeansLoaded` | `DropInProofs` | `[]LoadedWhenQuiet` |
| `NoHoles` | `ReportingProofs` | `[]ReportHasNoHoles` |
| `ReportInOrder` | `ReportingProofs` | `[]OldestFirst` |
| `DominantLevel` | `ReportingProofs` | `[]DominantIsMostSevere` |

Every invariant and action property that a passing run checks is also a theorem, but for the
conditions stated below under `RefinesUndoLog` and `StoreAppendOnly`, which are the runs'
own, and for the two liveness properties.

**Assumptions.** Bounds are naturals; readings, threshold values, days, periods, intervals,
contents and names are arbitrary. `Rollback`: the executors are among the processes; values
are naturals with at least 0 and 1. `Governance`: pids, units and the system are disjoint;
protected and allowed targets are among them. `DropIn`: the executor undoes nothing at the
same time. `Reporting`: a day has at least one reading, levels are ranks 0 to 4, and the
rest are naturals, a retention of 0 days and a limit that every record exceeds among them.
No set of processes, targets, kinds or values is assumed finite. TLC evaluates every
assumption in the run of the module.

**Supervision.** `LevelNeverExceedsReading` speaks of the moment between classification and
append, and is preserved as it stands. `NoRiseOnceSeeded` compares two trends, so the
invariant must carry the comparison from one step to the next: `LevelBounded` adds that the
level being appended is at most the newest of the trend, when `Ticks >= 2`. Two lemmas about
`ApplyHysteresis` do the work: its value is at most the raw level, and, with a window of at
least one, at most the previous level. The two properties about the disk need `DiskCurrent`
besides: short of the excused faults no file is dated after today, no file ends in a record
without its newline, and a daemon without a trend found no records, so that a record
appended is the last record of the newest file, and a record skipped, torn or lost leaves a
last record that is at least as high. While the store is opened `PruneKeepsSeed` stands in
for the latter: whatever has been removed so far, the newest file is the one that was loaded
or has nothing to read, or an expired file went before an older one; what is left of the
listed files is older than all that stays, so that the end of the pruning leaves the first
two cases.

**Lifecycle.** `HealthyIsHeard` and `IsolatedLapseSurvived` are two cases of one invariant,
which says for each place of the loop how long the daemon can have been silent: a pause and
a tick per lapse, plus what the current step has taken. That the sleep is cut to half the
period makes the sum stay below it. `FailedOnlyIfQuick` rests on an invariant about the
start limit: while no start was quick, each start of the window is older than the next by a
period and a restart delay, so the window is over before its starts are used up.

**Sampler.** The invariant relates figures to the two samples they came from. For the
shares: the differences saturate separately, so the cases of iowait growing and going back
are treated apart, with one lemma on sums of naturals each.

**Survey.** The invariant dates what was read: an entry's flags were true of the process
that had the pid at `readAt`, peaks only grow, and a plan holds only entries that were not
protected. `FailureChangesNothing` needs that nothing which can fail is left in `rest` once
the acting step is at its head, and that only `rollback apply` ever has a reverting step.
`SurvivorsListed` needs a second invariant, over the first: from the listing of `/proc` on,
whoever was born by then and lives is still on the list, being read, has exactly one entry,
or is in `missed`, and reading ends with the list empty. It holds because a pid that changes
hands is born after the listing.

**Governance.** `Tick` computes a plan in one step and `Perform` consumes it over several,
so the invariant relates what is left to what is done: `PlanKept` says that the remaining
plan and the results' actions are exactly the plan of the tick, and `Outcomes` says which
status each verdict leads to, and that an executed MemoryHigh is still in force.
`BlockedOnlyWithCause` is then part of the induction itself: that a MemoryMax refused for
want of MemoryHigh follows a failed MemoryHigh, unless the unit is one that does not show
its limit (`hidden`), uses the order of the plan. All else rests on
`PlannedAction`, a fact about the pure functions only: an action of `Plan(Decide(...))` is
let through by `Evaluate` for root, and a state-changing one has every permission.

**Rollback.** `UndoAllRestores` is not inductive: it says nothing of the jobs in flight or
of the caches. The invariant is `TypeOK /\ JobsSane /\ (Undisturbed => LogInv)`. `LogInv`
says that the file was never pruned; that whatever a process loaded is still in it; that the
oldest entry to save a knob holds its original value; that a captured action which would be
that entry holds it too; and that a knob no entry saves is untouched, unless the executor
has just changed it. The hard step is `Record`: a knob's oldest entry is either an old one,
which the append leaves in place, or the new one, and then the job's captured value was
original because nothing had saved the knob before. An undo keeps the invariant because
every knob it writes is saved by an entry, whose oldest value does not change. `UndoAll` is
the replay of the log, newest entry first; `UndoAllIsOldest` turns it into the oldest
values.

`RefinesUndoLog` uses the same invariant: `Change` maps to a `Touch` that saves the knobs of
its job that had no way back (their captured values are the original ones, by the
invariant), an undo to a `Touch` that saves nothing, and every other step to a stutter;
`Record` turns the job's way back into the entry's without changing the mapping's value.

`StoreAppendOnly` allows every fault and any number of executors, and so shares only
`TypeOK` with the above. With distinct ids the newest id counts the entries ever created,
and neither the file nor any cache outgrows it; so before it passes `KeepEntries` no process
truncates the store, and what remains is a lemma on one append. With ids that can be equal
the count fails, which is why the theorem assumes `~ SameMs`, as the run does.

**Faults.** With faults `LogInv` is lost, and what remains is stated for knobs outside
`exposed`, one by one: a changed one has a way back; the oldest entry that saved it holds
its original value (`OldestHolds`); a value that an action has captured is the original one
unless the file has an entry already (`JobHolds`); and so is one that an undo has loaded,
unless the file has an entry that is settled (`LoadedHolds`). Settled matters: an append can
take the last entry along when its newline was lost, and what a process loaded before may be
that entry. That a loaded entry with another value is never the oldest, hence never alone
and never without a settled one before it, is what makes an undo harmless at any time
(`UndoSpares`). `JobHolds` also says that an action about to record has changed nothing but
its own knobs among those the file does not save, although it saves its siblings': otherwise
a lost entry would expose more than its action changed (`LosingExposes`).

**DropIn.** Three invariants beside the shape. `KnownInv`: as long as nothing was spoilt,
unread or overlapped, no process writes into what another has opened; the file is known --
left by the administrator or written by an entry -- or is what the executor has just written
or somebody is about to write; so is the prior content in the executor's hands, and that of
each entry was known when the entry was made; and an undo between its comparison and its
write holds some entry. `AdminInv`: the administrator's last content is in an entry; or on
disk, with no undo past its comparison, which takes an entry that wrote this content, and as
the prior content of an executor about to write; or in the executor's hands, about to be
recorded. It needs nothing about overlaps: whoever truncates has the content in an entry or
will put it there. `QuietInv`: systemd has the file, or a reload is still to come, or
`stale` says that none is.

**Reporting.** `ReportHasNoHoles` speaks of the moment before the report is printed; what
makes it true lies spread over the daemon's tick, the prunings and the report's earlier
steps. The invariant says it in five parts:

- `TickSane`: the record in progress is stamped no later than the day its file is named for,
  and no file, listed or on disk, is of a later day. So an append that follows midnight
  still goes to a file that none of a report's list comes after.
- `FilesInOrder`: numbers and stamps grow within a file and from each file to the next. Two
  parts of the code make it so: one task stamps and appends, and a record is filed under the
  day of its append, which is never before the day of its stamp.
- `OutInOrder`: what a report has read comes before all that it has left.
- `Kept`: a settled record stays in a file until it is older than the retention time: what a
  pruning has listed is expired already, and a merged line takes only an unsettled record.
- `NothingMissed`: a settled record in the window, appended before the report listed the
  directory or before something the report has read, is read already, in a file it has left,
  or in one it could not list or read. Appends behind the report's back do not break this,
  because they go to the newest file; a pruning does not, because it takes only what is no
  longer owed.

`OldestFirst` is then a part of `OutInOrder`. `DominantIsMostSevere` needs the shape of the
report only, and a lemma about the five comparisons of `dominant_level`.

**Loops over data.** Two definitions are recursive functions over a sequence: `Wanted`, the
loop of `records_since`, and `UndoAll`, the undoing of a log entry by entry. The library's
induction theorems take an operator and cannot be used; `NatSetInduction` states the same
for a set of numbers, from the least counterexample. With it `WantedUnfolds` and
`UndoAllUnfolds` show that the recursive function exists and obeys its equation, and two
inductions say what it computes: `WantedProperties` (exactly the records of the window, in
the file's order) and `UndoAllIsOldest` (each knob gets the value that the oldest entry
saving it holds).

**Only model-checked**: the liveness of `Lifecycle` (`TermStops`, `HungIsReplaced`), since
fairness and `ENABLED` are beyond the prover. What the three violation runs show is a
counterexample each, not a theorem.

## 5. Where code and documents disagree

| run | the code | what is said |
|---|---|---|
| `supervision_escalation` | The trend holds filtered levels, and escalation asks the previous `ticks - 1` of them to be at or above the raw level. A level once held back holds back the next: from a seeded trend the level never rises. | `src/src/pressure/mod.rs:597`: "sustained High must escalate after N ticks" (the test passes a trend of raw readings, which the daemon never builds) |
| `rollback_prune` | Pruning rewrites the file from an earlier load, without a lock. | `src/src/rollback/mod.rs:70`: "excess oldest entries are pruned on `open`" |
| `sampler_first` | The first collection is compared with a sample of zeroes, so the swap rates are all pages since boot. | `src/src/metrics/memory.rs:21`: "0.0 until a previous sample exists" |

The first has a positive counterpart, proved: with `Ticks >= 2` the level never rises from a
seeded trend (`NoRiseOnceSeeded`), and so neither does what a restart resumes from
(`DurableLevelNeverRises`). They state what the code does now; a repair of the hysteresis
would replace them. The third reaches the level: `swap_rising` is true for every one-shot
command, and for the daemon's first tick, on a machine that has ever swapped, and the cap on
memory pressure that a host without rising swap enjoys is off.

Met while modelling, and not the subject of a run:

- An entry is recorded after the change; `src/docs/usage.md:265` says "before making the
  change".
- The undo of one limit writes back the two others of its unit as they were then, although
  `src/src/rollback/mod.rs:135` says "Revert the action recorded under `id`".
- Ids are milliseconds; of two entries recorded within one the second cannot be undone by
  id.
- A running daemon never prunes its history: only opening the store does, so `syswarden
  report` prunes and a daemon that runs for months does not (`src/architecture.md:1046`:
  "On startup and periodically").
- `--profile` is parsed and never used by `dispatch` (`src/src/cli.rs:59`).
- The CPU percentage divides a process's ticks by the uptime of the system, not by its age
  (`src/src/processes/mod.rs:20`).
- `CPUUsageNSec` and `MemoryCurrent` are asked for on systemd's Unit interface, which has
  neither, so they take their defaults (`src/src/services/mod.rs:156`).
- `actions apply` exits with 0 when its actions fail.

## 6. Abstractions

- Percentages and counters are integers: the code only compares them.
- `/proc/pressure` parse errors and read errors are one case. `has_psi` is probed once for a
  process, as in the code, and may differ for the next one.
- Corrupt lines take no room in a file; records have equal length in a rewrite over bytes
  another process appended. A file is over its limit when it has `MaxRecords` readable
  records.
- In `Rollback` the live system is one unit, one process and one tunable: no action reaches
  another one. Value 0 is the untouched value; an unlimited memory limit is saved as
  `u64::MAX` and written back as such, so it is a value like any other. A pid is not reused
  there (`Survey` has that). `SameMs` lets two entries share an id; the runs leave it off.
- In `DropIn` the store is a sequence that a record reaches or does not (`Rollback` has the
  store), and a content is the value of each setting of its section.
- In `Rollback` what `SetUnitProperties` did is visible in the cgroup when the next action
  reads it; in `Governance` it may stay or become invisible (`Hide`).
- The findings of the process and service rules are inputs of `Governance`: it does not
  matter to the policy how a flag arose. Of a service only whether it has any flag is used.
- Between ticks limits of units may change in any way; during an `actions apply` nothing
  else changes them (`Rollback` has the interleavings).
- In `Survey` a name is matched by rules and lists as a whole; priority pids are above 1;
  the policy is reduced to units before processes and nothing below moderate pressure.
- In `Lifecycle` the outcome of a tick is only whether the next interval is the pressured
  one; `Sampler`'s counters are one for all busy fields and one swap direction.
- In `Reporting` time goes forward and one daemon runs; a file is read at one instant. The
  sums of the action counters are left out.

## 7. What is not modelled, and the plan

Not to be modelled: `explain` (wording), `logging` (an append nothing reads), `config`
parsing, rendering and printing, `zram` (empty), installers and profile scripts, D-Bus
encoding; of `cgroups` everything but the reading of `memory.high`, which is reporting.

Done: `Pressure` and `JsonLines`, `Supervision`, `Rollback`, `Governance`, then `Lifecycle`,
`DropIn`, `Sampler`, `Survey`, `UndoLog` with the refinement, and `Reporting`;
proofs for all of them. What would add most from here:

1. **Host**: `Governance` composed with `Rollback`'s executor and `Survey`'s world, the auto
   limits (0.8 and 0.9 of current use) compounding over repeated applies.
2. Two executors in `DropIn`, and an `UndoLog` weak enough for two executors in `Rollback`.
