------------------------------ MODULE Supervision ------------------------------
(***************************************************************************)
(* The supervision loop's memory of pressure: the daemon (daemon.rs)       *)
(* classifies one reading per tick, appends a record of the level to a     *)
(* daily JSONL file (history/mod.rs) and keeps the last few levels as the  *)
(* hysteresis trend, which a restarted daemon seeds from the newest file.  *)
(*                                                                         *)
(* The environment supplies the readings, moves the clock across days,     *)
(* makes writes fail or stop half way, and kills the process at any time.  *)
(***************************************************************************)
EXTENDS Pressure, JsonLines, FiniteSets

CONSTANTS
  Ticks,        \* config.polling.hysteresis_ticks
  Thresholds,   \* config.pressure.thresholds
  Readings,     \* the readings /proc can show
  UnreadableSets, \* the sets of PSI files that can fail to read in one tick
  Retention,    \* config.history.retention_days
  BufCap,       \* RECENT_BUF_CAP, the in-memory ring of history records
  MaxRecords,   \* readable records a file holds before it is over max_file_mb
  LastDay,      \* bound: days are 0 .. LastDay
  Window,       \* bound: how many past readings the observer remembers
  DiskFaults,   \* whether a write can fail or be cut short
  ClockSteps    \* whether the wall clock can be set back

ASSUME TicksAssumption == Ticks \in Nat
ASSUME BoundsAssumption ==
  /\ Retention \in Nat /\ BufCap \in Nat \ {0} /\ MaxRecords \in Nat /\ LastDay \in Nat
  /\ Window \in Nat \ {0}
  /\ DiskFaults \in BOOLEAN /\ ClockSteps \in BOOLEAN
ASSUME ReadingsAssumption == UnreadableSets \subseteq SUBSET PsiFiles

Days == 0 .. LastDay
TrendCap == Ticks + 1

VARIABLES
  pc,       \* "down", "opened" (history loaded), "prune" (removing expired files),
            \* "collect" (top of the loop) or "append" (record computed)
  hasPsi,   \* Capabilities::detect, probed once per process
  trend,    \* pressure_trend; until the loop begins, what it will be seeded with
  level,    \* pressure_snap.level of the tick in progress
  files,    \* the history directory: day -> file
  doomed,   \* the expired files that prune_old_files has listed
  today,    \* the wall clock's day
  raws,     \* observability: the unfiltered levels of this process's last ticks
  excused   \* observability: a fault has hidden the newest record (see Excuse)

vars == <<pc, hasPsi, trend, level, files, doomed, today, raws, excused>>

-----------------------------------------------------------------------------
File == FileOf(Levels)

Present(fs) == {d \in Days : fs[d].tail # "absent"}

LatestDay(fs) == CHOOSE d \in Present(fs) : \A e \in Present(fs) : e <= d

(***************************************************************************)
(* load_recent_from_disk then recent_levels(trend_cap): the newest dated   *)
(* file only.                                                              *)
(***************************************************************************)
Seed(fs) ==
  IF Present(fs) = {} THEN <<>>
  ELSE LastN(LastN(fs[LatestDay(fs)].records, BufCap), TrendCap)

\* The directory as a listing shows it that yields the files of these days only.
Only(fs, S) == [d \in Days |-> IF d \in S THEN fs[d] ELSE NoFile]

\* prune_old_files
Expired(fs) == {d \in Present(fs) : d < today - Retention}

-----------------------------------------------------------------------------
Init ==
  /\ pc = "down"
  /\ hasPsi = FALSE
  /\ trend = <<>>
  /\ level = NoPressure
  /\ files = [d \in Days |-> NoFile]
  /\ doomed = {}
  /\ today = 0
  /\ raws = <<>>
  /\ excused = FALSE

(***************************************************************************)
(* The faults after which the newest file no longer speaks for the daemon: *)
(* it is not listed or cannot be read at a start, an expired file is not   *)
(* listed or resists removal (it may outlive newer ones), files expire     *)
(* newest first and the older ones are not removed as well (see HalfPruned *)
(* and ReportPrunes), a record's newline is missing (the next append       *)
(* destroys both), or the clock goes back.  A write that fails whole, a    *)
(* torn fragment, an empty file and a crash anywhere else are not among    *)
(* them.                                                                   *)
(***************************************************************************)
Excuse(fault) == excused' = (excused \/ fault)

\* Mutant: the trend starts empty instead of being seeded.
StartCold ==
  /\ pc = "down"
  /\ hasPsi' \in BOOLEAN
  /\ trend' = <<>>
  /\ pc' = "opened"
  /\ UNCHANGED <<level, files, doomed, today, raws, excused>>

(***************************************************************************)
(* run_async up to the loop: capabilities, and HistoryStore::open with its *)
(* load, from which the trend will be seeded.  The directory may not be    *)
(* listed, or not all of it, and the newest file may be unreadable.        *)
(***************************************************************************)
Start ==
  /\ pc = "down"
  /\ hasPsi' \in BOOLEAN
  /\ \E listed \in (IF DiskFaults THEN SUBSET Present(files) ELSE {Present(files)}) :
       trend' = Seed(Only(files, listed))
  /\ Excuse(trend' # Seed(files))
  /\ pc' = "opened"
  /\ UNCHANGED <<level, files, doomed, today, raws>>

\* prune_old_files: the cutoff, and the directory listed a second time.
ListExpired ==
  /\ pc = "opened"
  /\ doomed' \in (IF DiskFaults THEN SUBSET Expired(files) ELSE {Expired(files)})
  /\ Excuse(doomed' # Expired(files))
  /\ pc' = "prune"
  /\ UNCHANGED <<hasPsi, trend, level, files, today, raws>>

\* One file is removed; the order is that of the directory.
RemoveExpired(d) ==
  /\ pc = "prune"
  /\ d \in doomed \cap Present(files)
  /\ files' = [files EXCEPT ![d] = NoFile]
  /\ UNCHANGED <<pc, hasPsi, trend, level, doomed, today, raws, excused>>

\* Every file has been tried (a failed removal only warns), and the loop begins.
EndPrune ==
  /\ pc = "prune"
  /\ DiskFaults \/ doomed \cap Present(files) = {}
  /\ Excuse(doomed \cap Present(files) # {})
  /\ doomed' = {}
  /\ pc' = "collect"
  /\ UNCHANGED <<hasPsi, trend, level, files, today, raws>>

(***************************************************************************)
(* A report opens the store as well and removes an expired file.  When     *)
(* that was the newest, and an older one is still there, a start before    *)
(* the report removes the older one too would load it.                     *)
(***************************************************************************)
ReportPrunes(d) ==
  /\ d \in Expired(files)
  /\ files' = [files EXCEPT ![d] = NoFile]
  /\ Excuse(d = LatestDay(files) /\ Present(files') # {})
  /\ UNCHANGED <<pc, hasPsi, trend, level, doomed, today, raws>>

(***************************************************************************)
(* single_tick up to the history record.  (When metrics::collect fails the *)
(* loop sleeps and retries with nothing changed.)                          *)
(***************************************************************************)
Classify(r, failed) ==
  /\ pc = "collect"
  /\ LET seen == Unread(r, failed)
     IN  /\ level' = ComputeLevel(hasPsi, seen, Thresholds, trend, Ticks)
         /\ raws' = Push(raws, IF hasPsi THEN RawLevel(seen, Thresholds) ELSE NoPressure,
                         Window)
  /\ pc' = "append"
  /\ UNCHANGED <<hasPsi, trend, files, doomed, today, excused>>

OverLimit(f) == f.tail # "absent" /\ Len(f.records) >= MaxRecords

\* The disk side of HistoryStore::append, as far as it gets.
Store(outcome) ==
  IF OverLimit(files[today])
  THEN UNCHANGED files
  ELSE files' = [files EXCEPT ![today] = Written(@, level, outcome)]

(***************************************************************************)
(* HistoryStore::append, then the push onto the trend: the trend grows     *)
(* whether or not the record reached the disk.                             *)
(***************************************************************************)
AppendAndPush(outcome) ==
  /\ pc = "append"
  /\ outcome \in (IF DiskFaults THEN Outcomes ELSE {"line"})
  /\ Store(outcome)
  /\ Excuse(outcome = "json")
  /\ trend' = Push(trend, level, TrendCap)
  /\ pc' = "collect"
  /\ UNCHANGED <<hasPsi, level, doomed, today, raws>>

Down ==
  /\ pc' = "down"
  /\ hasPsi' = FALSE
  /\ trend' = <<>>
  /\ level' = NoPressure
  /\ raws' = <<>>
  /\ doomed' = {}
  /\ UNCHANGED today

\* An expired file is gone and an older one, not yet removed, is the newest now.
HalfPruned ==
  /\ Present(files) # {}
  /\ \E d \in doomed \ Present(files) : LatestDay(files) < d

\* SIGTERM, SIGINT, a watchdog kill or a power cut between two writes.
Stop ==
  /\ pc # "down"
  /\ Down
  /\ Excuse(HalfPruned)
  /\ UNCHANGED files

\* The process dies inside the append: any prefix of the line may be on disk.
CrashInAppend(outcome) ==
  /\ pc = "append"
  /\ DiskFaults \/ outcome = "line"
  /\ Store(outcome)
  /\ Excuse(outcome = "json")
  /\ Down

NewDay ==
  /\ today' \in {d \in Days : d > today \/ ClockSteps} \ {today}
  /\ Excuse(today' < today)
  /\ UNCHANGED <<pc, hasPsi, trend, level, files, doomed, raws>>

Next ==
  \/ Start \/ ListExpired \/ EndPrune
  \/ \E d \in Days : RemoveExpired(d) \/ ReportPrunes(d)
  \/ \E r \in Readings, failed \in UnreadableSets : Classify(r, failed)
  \/ \E outcome \in Outcomes : AppendAndPush(outcome) \/ CrashInAppend(outcome)
  \/ Stop
  \/ NewDay

Spec == Init /\ [][Next]_vars

-----------------------------------------------------------------------------
\* The shape of the state (daemon.rs run_async's locals, HistoryStore's directory).
TypeOK ==
  /\ pc \in {"down", "opened", "prune", "collect", "append"}
  /\ hasPsi \in BOOLEAN
  /\ trend \in Seq(Levels) /\ Len(trend) <= TrendCap
  /\ level \in Levels
  /\ files \in [Days -> File]
  /\ doomed \subseteq Days
  /\ today \in Days
  /\ raws \in Seq(Levels) /\ Len(raws) <= Window
  /\ excused \in BOOLEAN

(***************************************************************************)
(* Hysteresis may hold a level back but never invents pressure: the level  *)
(* a tick reports is at most what its own reading says, whatever trend the *)
(* disk seeded (compute and apply_hysteresis, over any restart).           *)
(***************************************************************************)
LevelNeverExceedsReading ==
  pc = "append" => level <= raws[Len(raws)]

(***************************************************************************)
(* With hysteresis_ticks >= 2 the level cannot rise within a process once  *)
(* the trend holds anything: the window compared with raw always contains  *)
(* the previous filtered level, which is below raw.  This is how the code  *)
(* behaves; EscalatesWhenSustained is what was meant.                      *)
(***************************************************************************)
NoRiseOnceSeeded ==
  [][ (/\ Ticks >= 2
       /\ pc = "append" /\ pc' = "collect"
       /\ trend # <<>>)
      => trend'[Len(trend')] <= trend[Len(trend)] ]_vars

(***************************************************************************)
(* What the daemon goes on from: the newest file's records, which a        *)
(* restart would load; while it opens the store, or when the newest file   *)
(* has no readable record yet, the trend it holds.                         *)
(***************************************************************************)
Resumes == IF pc \in {"opened", "prune"} \/ Seed(files) = <<>> THEN trend ELSE Seed(files)

(***************************************************************************)
(* The level the daemon goes on from only falls, across crashes, midnights *)
(* long downtimes, removals one by one, failed and torn writes and files   *)
(* that hit their size limit -- everything short of the faults of Excuse,  *)
(* and as long as there is such a level: a daemon that is down beside an   *)
(* empty newest file has none, and starts cold (history append, load and   *)
(* prune together with the trend they feed).                               *)
(***************************************************************************)
DurableLevelNeverRises ==
  [][ (Ticks >= 2 /\ ~ excused' /\ Resumes # <<>> /\ Resumes' # <<>>)
      => Resumes'[Len(Resumes')] <= Resumes[Len(Resumes)] ]_vars

(***************************************************************************)
(* A crash never makes the daemon forget pressure it stood at: while it    *)
(* runs with a trend and the directory holds any record, the last record   *)
(* of the newest file, which a restart resumes from, is not below the      *)
(* trend's last level.  The record is written before the push, and one     *)
(* skipped by the size limit or lost to the disk can only have been lower  *)
(* (append, run_async's trend).  The faults of Excuse are excepted.        *)
(***************************************************************************)
TrendNeverAboveDisk ==
  (/\ ~ excused /\ pc \in {"collect", "append"} /\ Ticks >= 2
   /\ trend # <<>> /\ Seed(files) # <<>>)
     => trend[Len(trend)] <= Seed(files)[Len(Seed(files))]

-----------------------------------------------------------------------------
(***************************************************************************)
(* What the code's own test asks of hysteresis -- "sustained High must     *)
(* escalate after N ticks" (src/src/pressure/mod.rs:597): once as many     *)
(* consecutive readings as hysteresis_ticks asks for are at a level or     *)
(* above it, the tick reports at least that level.                         *)
(***************************************************************************)
EscalatesWhenSustained ==
  \A l \in Levels :
    (/\ pc = "append" /\ hasPsi
     /\ Ticks > 0 /\ Len(raws) > Ticks
     /\ \A i \in 1 .. Len(raws) : raws[i] >= l)
    => level >= l
=============================================================================
