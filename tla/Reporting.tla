------------------------------ MODULE Reporting ------------------------------
(***************************************************************************)
(* `syswarden report` beside the running daemon: the daily history files   *)
(* (history/mod.rs), which the daemon appends to and which every opening   *)
(* of the store -- the daemon's start and each report -- prunes, and the   *)
(* report that lists the directory, reads the files of its window one by   *)
(* one and sums them up (reports/mod.rs, dispatch_report in cli.rs).       *)
(*                                                                         *)
(* No lock: a record is stamped when its metrics are collected and filed   *)
(* under the day on which it is appended, midnight may fall between the    *)
(* two and between any two steps of a report, and a file of the report's   *)
(* list may be gone when its turn comes.  Time goes forward here (what a   *)
(* clock set back does to the seed is in Supervision) and one daemon runs. *)
(***************************************************************************)
EXTENDS Integers, FiniteSets, Functions, JsonLines

CONSTANTS
  PerDay,      \* clock readings in a day
  LastDay,     \* bound: the last day of a behaviour
  Retention,   \* history.retention_days
  Windows,     \* the --days of the reports
  LevelOf,     \* the level of the n-th record, 0 (None) to 4 (Critical)
  MaxRecords,  \* records that bring a file to history.max_file_mb
  MaxTicks,    \* bound: records appended
  DiskFaults   \* TRUE: appends tear or fail, files resist listing, removal or reading

ASSUME ReportingAssumption ==
  /\ PerDay \in Nat \ {0} /\ LastDay \in Nat /\ Retention \in Nat
  /\ Windows \subseteq Nat /\ LevelOf \in [1 .. MaxTicks -> 0 .. 4]
  /\ MaxRecords \in Nat /\ MaxTicks \in Nat /\ DiskFaults \in BOOLEAN

VARIABLES
  now,       \* the clock
  files,     \* the daily files by day
  daemon,    \* the daemon: where it is, its record's stamp and file
  reporter,  \* the report command: where it is, and its locals
  appended,  \* observer: appends so far, they number the records
  settled    \* observer: the records whose whole line reached a whole file

vars == <<now, files, daemon, reporter, appended, settled>>

Days == 0 .. LastDay
Times == 0 .. (LastDay + 1) * PerDay - 1
Day(t) == t \div PerDay
Records == [n : 1 .. MaxTicks, at : Times]

Present == {d \in Days : files[d].tail # "absent"}

\* history_files: the directory, or what of it can be listed, be it nothing.
Listings == {S \in SUBSET Present : DiskFaults \/ S = Present}

\* prune_old_files: the dates before the cutoff, as listed at this instant.
Expired(listed) == {d \in listed : d < Day(now) - Retention}

Down == [pc |-> "down", doomed |-> {}, at |-> 0, day |-> 0]
Asleep == [Down EXCEPT !.pc = "sleep"]
NoReport == [pc |-> "done", doomed |-> {}, since |-> 0, left |-> {},
             out |-> <<>>, upto |-> 0, lost |-> {}]

Init ==
  /\ now = 0
  /\ files = [d \in Days |-> NoFile]
  /\ daemon = Down
  /\ reporter = NoReport
  /\ appended = 0
  /\ settled = {}

-----------------------------------------------------------------------------
\* HistoryStore::open by the daemon and by a report, up to the list to prune.
Start(listed) ==
  /\ daemon.pc = "down"
  /\ daemon' = [Down EXCEPT !.pc = "prune", !.doomed = Expired(listed)]
  /\ UNCHANGED <<now, files, reporter, appended, settled>>

OpenReport(listed) ==
  /\ reporter.pc = "done"
  /\ reporter' = [NoReport EXCEPT !.pc = "prune", !.doomed = Expired(listed)]
  /\ UNCHANGED <<now, files, daemon, appended, settled>>

\* One fs::remove_file of the list; a failure only warns.
Removed(d, gone) ==
  /\ gone \/ DiskFaults
  /\ files' = IF gone THEN [files EXCEPT ![d] = NoFile] ELSE files

DaemonPrunes(d, gone) ==
  /\ daemon.pc = "prune" /\ d \in daemon.doomed
  /\ Removed(d, gone)
  /\ daemon' = [daemon EXCEPT !.doomed = @ \ {d}]
  /\ UNCHANGED <<now, reporter, appended, settled>>

ReportPrunes(d, gone) ==
  /\ reporter.pc = "prune" /\ d \in reporter.doomed
  /\ Removed(d, gone)
  /\ reporter' = [reporter EXCEPT !.doomed = @ \ {d}]
  /\ UNCHANGED <<now, daemon, appended, settled>>

\* A tick begins: the snapshot's timestamp is the record's.
Collect ==
  /\ \/ daemon.pc = "prune" /\ daemon.doomed = {}
     \/ daemon.pc = "sleep"
  /\ appended < MaxTicks
  /\ daemon' = [daemon EXCEPT !.pc = "tick", !.at = now]
  /\ UNCHANGED <<now, files, reporter, appended, settled>>

\* Mutant: the size is not asked for.
NameFileUnlimited ==
  /\ daemon.pc = "tick"
  /\ daemon' = [daemon EXCEPT !.pc = "write", !.day = Day(now)]
  /\ UNCHANGED <<now, files, reporter, appended, settled>>

\* HistoryStore::append names today's file, then asks for its size.
NameFile ==
  /\ daemon.pc = "tick"
  /\ LET today == Day(now)
         overLimit == today \in Present /\ Len(files[today].records) >= MaxRecords
     IN  daemon' = IF overLimit THEN Asleep
                   ELSE [daemon EXCEPT !.pc = "write", !.day = today]
  /\ UNCHANGED <<now, files, reporter, appended, settled>>

(***************************************************************************)
(* The line is written, as far as it gets; the process lives on or dies.   *)
(***************************************************************************)
Write(outcome, dies) ==
  /\ daemon.pc = "write"
  /\ outcome \in (IF DiskFaults THEN Outcomes ELSE {"line"})
  /\ LET r == [n |-> appended + 1, at |-> daemon.at]
         f == Written(files[daemon.day], r, outcome)
     IN  /\ files' = [files EXCEPT ![daemon.day] = f]
         /\ settled' = IF f.tail = "clean" /\ r \in Range(f.records)
                       THEN settled \cup {r} ELSE settled
  /\ appended' = appended + 1
  /\ daemon' = IF dies THEN Down ELSE Asleep
  /\ UNCHANGED <<now, reporter>>

\* A stop between ticks, or a crash at any other step.
Stop ==
  /\ daemon.pc # "down"
  /\ daemon' = Down
  /\ UNCHANGED <<now, files, reporter, appended, settled>>

-----------------------------------------------------------------------------
\* dispatch_report: the window begins `days` before now, at this time of day.
BeginWindow(days) ==
  /\ reporter.pc = "prune" /\ reporter.doomed = {}
  /\ days \in Windows
  /\ reporter' = [reporter EXCEPT !.pc = "list", !.since = now - days * PerDay]
  /\ UNCHANGED <<now, files, daemon, appended, settled>>

\* Mutant: only whole days of the window are read.
InWindowWholeDays(d, since) == d > Day(since)

\* records_since's filter of the listed dates.
InWindow(d, since) == d >= Day(since)

\* records_since takes what history_files gives it for the whole directory.
ListFiles(listed) ==
  /\ reporter.pc = "list"
  /\ LET Wants(S) == {d \in S : InWindow(d, reporter.since)}
     IN  reporter' = [reporter EXCEPT !.pc = "read", !.upto = appended,
                                      !.left = Wants(listed), !.lost = Wants(Present \ listed)]
  /\ UNCHANGED <<now, files, daemon, appended, settled>>

\* Mutant: the files are taken in the other order.
NextFileLatest(left) == CHOOSE d \in left : \A e \in left : e <= d

\* The listed files are read in the order of their dates.
NextFile(left) == CHOOSE d \in left : \A e \in left : d <= e

\* records_since's loop: the records of a file that are in the window, in
\* the file's order.
Wanted(s, since) ==
  LET Kept[i \in 0 .. Len(s)] ==
        IF i = 0 THEN <<>>
        ELSE IF s[i].at >= since THEN Append(Kept[i - 1], s[i]) ELSE Kept[i - 1]
  IN  Kept[Len(s)]

\* read_records_file: a file that was removed meanwhile counts as empty, and so
\* does one that cannot be read.
ReadFile(readable) ==
  /\ reporter.pc = "read" /\ reporter.left # {}
  /\ readable \/ DiskFaults
  /\ LET d == NextFile(reporter.left)
     IN  reporter' = [reporter EXCEPT
           !.left = @ \ {d},
           !.out = IF readable THEN @ \o Wanted(files[d].records, reporter.since) ELSE @,
           !.lost = IF readable THEN @ ELSE @ \cup {d}]
  /\ UNCHANGED <<now, files, daemon, appended, settled>>

\* The records are summed up and printed.
Summarise ==
  /\ reporter.pc = "read" /\ reporter.left = {}
  /\ reporter' = [reporter EXCEPT !.pc = "print"]
  /\ UNCHANGED <<now, files, daemon, appended, settled>>

\* The command ends, by itself or killed at any step.
EndReport ==
  /\ reporter.pc # "done"
  /\ reporter' = NoReport
  /\ UNCHANGED <<now, files, daemon, appended, settled>>

Elapse ==
  /\ now + 1 \in Times
  /\ now' = now + 1
  /\ UNCHANGED <<files, daemon, reporter, appended, settled>>

Next ==
  \/ \E listed \in Listings : Start(listed) \/ OpenReport(listed) \/ ListFiles(listed)
  \/ \E d \in Days, gone \in BOOLEAN : DaemonPrunes(d, gone) \/ ReportPrunes(d, gone)
  \/ Collect \/ NameFile
  \/ \E outcome \in Outcomes, dies \in BOOLEAN : Write(outcome, dies)
  \/ Stop
  \/ \E days \in Windows : BeginWindow(days)
  \/ \E readable \in BOOLEAN : ReadFile(readable)
  \/ Summarise \/ EndReport
  \/ Elapse

Spec == Init /\ [][Next]_vars

-----------------------------------------------------------------------------
\* LevelCounts of reports/mod.rs.
LevelCounts(out) == [l \in 0 .. 4 |-> Cardinality({i \in DOMAIN out : LevelOf[out[i].n] = l})]

\* Mutant: ties go to the first level of the array.
DominantFirst(c) ==
  LET Better(best, l) == IF c[l] > 0 /\ (best = -1 \/ c[l] > c[best]) THEN l ELSE best
  IN  Better(Better(Better(Better(Better(-1, 0), 1), 2), 3), 4)

(***************************************************************************)
(* dominant_level: max_by_key over the levels that occur, from None (0) to *)
(* Critical (4), which keeps the last maximum; -1 stands for no level.     *)
(***************************************************************************)
Dominant(c) ==
  LET Better(best, l) == IF c[l] > 0 /\ (best = -1 \/ c[l] >= c[best]) THEN l ELSE best
  IN  Better(Better(Better(Better(Better(-1, 0), 1), 2), 3), 4)

-----------------------------------------------------------------------------
\* The shape of the state (the store's directory, the locals of both commands).
TypeOK ==
  /\ now \in Times
  /\ files \in [Days -> FileOf(Records)]
  /\ \A d \in Days : Len(files[d].records) <= IF MaxRecords = 0 THEN 1 ELSE MaxRecords
  /\ daemon \in [pc : {"down", "prune", "tick", "write", "sleep"},
                 doomed : SUBSET Days, at : Times, day : Days]
  /\ reporter \in [pc : {"done", "prune", "list", "read", "print"},
                   doomed : SUBSET Days, since : Int, left : SUBSET Days,
                   out : Seq(Records), upto : 0 .. MaxTicks, lost : SUBSET Days]
  /\ appended \in 0 .. MaxTicks /\ settled \subseteq Records

(***************************************************************************)
(* A report has no holes: of the records within its window and within the  *)
(* retention time, it shows each that was settled when it listed the       *)
(* directory, and if it shows any record then also every settled one       *)
(* before it -- whatever the daemon appends, at whatever midnight, and     *)
(* whichever openings prune meanwhile (records_since, prune_old_files and  *)
(* append).  Only the records of a file that could not be listed or not be *)
(* read are excepted: such a file costs a report its own records, up to    *)
(* all of them if the directory cannot be read, and no other file's.       *)
(***************************************************************************)
ReportHasNoHoles ==
  reporter.pc = "print" =>
    \A r \in settled :
      (/\ r.at >= reporter.since
       /\ Day(r.at) >= Day(now) - Retention
       /\ \/ r.n <= reporter.upto
          \/ \E q \in Range(reporter.out) : r.n < q.n)
      => \/ r \in Range(reporter.out)
         \/ \E d \in reporter.lost : r \in Range(files[d].records)

(***************************************************************************)
(* The span printed is the true one, and no tick counts twice: the first   *)
(* and the last record of a report bound all others, in the order of the   *)
(* ticks, over files whose dates are not those of the stamps in them       *)
(* (records_since's "oldest first", Report's first and last timestamp).    *)
(***************************************************************************)
OldestFirst ==
  reporter.pc = "print" =>
    \A i, j \in DOMAIN reporter.out :
      i < j => /\ reporter.out[i].n < reporter.out[j].n
               /\ reporter.out[i].at <= reporter.out[j].at

(***************************************************************************)
(* The dominant level is the most severe of the most frequent ones, and    *)
(* there is one whenever there is a record ("ties break toward severity",  *)
(* reports/mod.rs).                                                        *)
(***************************************************************************)
DominantIsMostSevere ==
  reporter.pc = "print" =>
    LET c == LevelCounts(reporter.out)
        top == {l \in 0 .. 4 : c[l] > 0 /\ \A k \in 0 .. 4 : c[k] <= c[l]}
    IN  IF reporter.out = <<>> THEN Dominant(c) = -1
        ELSE Dominant(c) \in top /\ \A l \in top : l <= Dominant(c)
=============================================================================
