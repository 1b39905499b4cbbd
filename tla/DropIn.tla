------------------------------- MODULE DropIn -------------------------------
(***************************************************************************)
(* Persistent limits: the drop-in file of one unit                         *)
(* (/etc/systemd/system/<unit>.d/50-syswarden.conf), written by            *)
(* systemd::write_drop_in on behalf of dispatch_with_prior, put back by    *)
(* rollback::revert_drop_in, and edited by the administrator, who owns     *)
(* /etc.  The planner of this commit never asks for a persistent change;   *)
(* the executor, the rollback store and their tests support it.            *)
(*                                                                         *)
(* All four kinds of a unit share the one file and every write replaces    *)
(* the whole of it.  systemd only sees the file when it reloads.           *)
(*                                                                         *)
(* Entries stay in the store after their undo, so any entry can be undone  *)
(* at any time and again; what protects the file is the comparison with    *)
(* the content the entry wrote.  The store itself is Rollback's subject:   *)
(* here a record arrives or it does not.                                   *)
(*                                                                         *)
(* Nothing locks the file, and fs::write opens it with truncation before   *)
(* it writes: a command that finds it empty in between takes that for its  *)
(* content, and two commands that have it open at once leave a mixture.    *)
(***************************************************************************)
EXTENDS Integers, Sequences

CONSTANTS
  Executor,       \* the process that runs `actions apply`
  Undoers,        \* processes that run `rollback apply <id>`
  Kinds,          \* the action kinds the executor runs
  Values,         \* the limits an action may compute
  AdminContents,  \* what the administrator may put in the file
  Faults,         \* whether calls fail and processes crash
  MaxEntries      \* bound: entries ever recorded

Settings == {"CPUWeight", "IOWeight", "MemoryHigh", "MemoryMax"}
AllKinds == {"SetCpuWeight", "SetIoWeight", "SetMemoryHigh", "SetMemoryMax"}
Procs == {Executor} \cup Undoers

\* A [Service] section: the value of each setting, 0 where the line is absent.
NotSet == 0
Sections == [Settings -> Values \cup {NotSet}]
Absent == [s \in Settings |-> -1]
Truncated == [s \in Settings |-> NotSet]

\* What is left of a write that stopped half-way or ran into another one.
Garbled == [s \in Settings |-> -2]
Contents == Sections \cup {Absent, Garbled}

ASSUME DropInAssumption ==
  /\ Executor \notin Undoers
  /\ Kinds \subseteq AllKinds
  /\ Values \subseteq Nat \ {0}
  /\ AdminContents \subseteq Contents
  /\ Faults \in BOOLEAN /\ MaxEntries \in Nat

VARIABLES
  file,       \* what is on disk
  effective,  \* what systemd loaded last
  entries,    \* the persistent entries of the rollback store
  pc, job,    \* where each process is, and the prior and new content it holds
  admin,      \* observer: the last content the administrator left, and
  authored,   \*   all of them
  spoilt,     \* observer: a content was written that no entry describes
  unread,     \* observer: an entry's prior content is wrong, it could not be read
  overlapped, \* observer: while one command had the file open for writing, another
              \*   read its prior content, or anyone changed the file
  raced,      \* observer: an edit fell between a command's read and its write
  stale       \* observer: a change of the file that nobody reloaded

vars == <<file, effective, entries, pc, job, admin, authored, spoilt, unread, overlapped,
          raced, stale>>
edits == <<admin, authored, raced>>
marks == <<spoilt, unread, overlapped>>
observers == <<edits, marks, stale>>

-----------------------------------------------------------------------------
Setting(kind) ==
  CASE kind = "SetCpuWeight"  -> "CPUWeight"
    [] kind = "SetIoWeight"   -> "IOWeight"
    [] kind = "SetMemoryHigh" -> "MemoryHigh"
    [] kind = "SetMemoryMax"  -> "MemoryMax"

\* render_drop_in of the one property an action sets.
Rendered(kind, v) == [Truncated EXCEPT ![Setting(kind)] = v]

Jobs == [prior : Contents, written : Contents]
NoJob == [prior |-> Absent, written |-> Absent]

Goto(p, l) == pc' = [pc EXCEPT ![p] = l]

\* The command or the action is over.
Done(p) == Goto(p, "idle") /\ job' = [job EXCEPT ![p] = NoJob]

Open(p) == pc[p] \in {"writing", "torn"}

\* p changes the file and goes to l; whoever of the others had it open for a
\* write of its own will write into p's content, or into a file p replaced.
Torn(others) == [q \in Procs |-> IF q \in others /\ Open(q) THEN "torn" ELSE pc[q]]
Overlap(others) == overlapped' = (overlapped \/ \E q \in others : Open(q))
Touch(p, l) == pc' = [Torn(Procs \ {p}) EXCEPT ![p] = l] /\ Overlap(Procs \ {p})

Init ==
  /\ file \in {Absent} \cup AdminContents
  /\ effective = file
  /\ entries = <<>>
  /\ pc = [p \in Procs |-> "idle"] /\ job = [p \in Procs |-> NoJob]
  /\ admin = file /\ authored = {file}
  /\ spoilt = FALSE /\ unread = FALSE /\ overlapped = FALSE
  /\ raced = FALSE /\ stale = FALSE

\* Mutant: the prior content is read after the write.
ApplyReadsLate(kind) ==
  /\ pc[Executor] = "idle" /\ Len(entries) < MaxEntries
  /\ kind = "SetMemoryMax" => effective["MemoryHigh"] \notin {NotSet, -1}
  /\ \E v \in Values :
       job' = [job EXCEPT ![Executor] = [prior |-> Rendered(kind, v),
                                         written |-> Rendered(kind, v)]]
  /\ Goto(Executor, "write")
  /\ UNCHANGED <<file, effective, entries, observers>>

(***************************************************************************)
(* dispatch_with_prior up to fs::write.  MemoryMax is refused while the    *)
(* unit's memory.high is unlimited.  A file that cannot be read counts as  *)
(* absent, and one that an undo is rewriting as empty.                     *)
(***************************************************************************)
Apply(kind) ==
  /\ pc[Executor] = "idle" /\ Len(entries) < MaxEntries
  /\ kind = "SetMemoryMax" => effective["MemoryHigh"] \notin {NotSet, -1}
  /\ \E v \in Values, prior \in {file} \cup (IF Faults THEN {Absent} ELSE {}) :
       /\ job' = [job EXCEPT ![Executor] = [prior |-> prior, written |-> Rendered(kind, v)]]
       /\ unread' = (unread \/ prior # file)
  /\ Goto(Executor, "write") /\ Overlap(Undoers)
  /\ UNCHANGED <<file, effective, entries, spoilt, edits, stale>>

\* Mutant: an undo does not look at the file.
UndoUnchecked(p, i) ==
  /\ pc[p] = "idle" /\ p \in Undoers
  /\ job' = [job EXCEPT ![p] = entries[i]]
  /\ Goto(p, "restore")
  /\ UNCHANGED <<file, effective, entries, observers>>

(***************************************************************************)
(* restore_drop_in_file, the comparison.  A file that is missing or has    *)
(* another content is left alone and the undo fails.                       *)
(***************************************************************************)
Undo(p, i) ==
  /\ pc[p] = "idle" /\ p \in Undoers
  /\ file = entries[i].written
  /\ job' = [job EXCEPT ![p] = entries[i]]
  /\ Goto(p, "restore")
  /\ UNCHANGED <<file, effective, entries, observers>>

\* What p writes: an action its new section, an undo the old content.
Output(p) == IF p = Executor THEN job[p].written ELSE job[p].prior

\* fs::write opens the file, which creates it or empties it ...
Truncate(p) ==
  /\ pc[p] = "write" \/ (pc[p] = "restore" /\ job[p].prior # Absent)
  /\ file' = Truncated
  /\ Touch(p, "writing")
  /\ UNCHANGED <<effective, entries, job, spoilt, unread, edits, stale>>

\* Mutant: an undo ends without daemon_reload.
FillOnly(p) ==
  /\ Open(p)
  /\ file' \in {Output(p)} \cup (IF pc[p] = "torn" THEN {file, Garbled} ELSE {})
  /\ Touch(p, IF p = Executor THEN "reload" ELSE "idle")
  /\ UNCHANGED <<effective, entries, job, spoilt, unread, edits, stale>>

\* Mutant: an action records as soon as it has written, and again in execute.
FillRecords(p) ==
  /\ Open(p)
  /\ file' \in {Output(p)} \cup (IF pc[p] = "torn" THEN {file, Garbled} ELSE {})
  /\ entries' = IF p = Executor THEN Append(entries, job[p]) ELSE entries
  /\ Touch(p, "reload")
  /\ UNCHANGED <<effective, job, spoilt, unread, edits, stale>>

\* ... and then writes.
Fill(p) ==
  /\ Open(p)
  /\ file' \in {Output(p)} \cup (IF pc[p] = "torn" THEN {file, Garbled} ELSE {})
  /\ Touch(p, "reload")
  /\ UNCHANGED <<effective, entries, job, spoilt, unread, edits, stale>>

\* restore_drop_in_file for a file the action had created.
Remove(p) ==
  /\ pc[p] = "restore" /\ job[p].prior = Absent
  /\ file # Absent
  /\ file' = Absent
  /\ Touch(p, "reload")
  /\ UNCHANGED <<effective, entries, job, spoilt, unread, edits, stale>>

(***************************************************************************)
(* The file cannot be opened or removed, or is gone when it should be      *)
(* removed; or the write itself fails, perhaps in the middle.  The error   *)
(* is returned before the reload.                                          *)
(***************************************************************************)
OpenFails(p) ==
  /\ \/ Faults /\ pc[p] \in {"write", "restore"}
     \/ pc[p] = "restore" /\ job[p].prior = Absent /\ file = Absent
  /\ Done(p)
  /\ UNCHANGED <<file, effective, entries, observers>>

FillFails(p) ==
  /\ Faults /\ Open(p)
  /\ file' \in {file, Garbled}
  /\ Touch(p, "idle") /\ job' = [job EXCEPT ![p] = NoJob]
  /\ spoilt' = TRUE /\ stale' = TRUE
  /\ UNCHANGED <<effective, entries, unread, edits>>

\* daemon_reload succeeds; an undo is then done, an action goes on to its entry.
Reload(p) ==
  /\ pc[p] = "reload"
  /\ effective' = file /\ stale' = FALSE
  /\ IF p = Executor THEN Goto(p, "record") /\ UNCHANGED job ELSE Done(p)
  /\ UNCHANGED <<file, entries, edits, marks>>

\* daemon_reload fails: the action is Failed, without an entry, or the undo is.
ReloadFails(p) ==
  /\ Faults /\ pc[p] = "reload"
  /\ stale' = TRUE /\ spoilt' = (spoilt \/ p = Executor)
  /\ Done(p)
  /\ UNCHANGED <<file, effective, entries, unread, overlapped, edits>>

\* RollbackStore::record.
Record ==
  /\ pc[Executor] = "record"
  /\ entries' = Append(entries, job[Executor])
  /\ Done(Executor)
  /\ UNCHANGED <<file, effective, observers>>

\* A process dies, or its record does not reach the disk.
Crash(p) ==
  /\ Faults /\ pc[p] # "idle"
  /\ spoilt' = (spoilt \/ Open(p) \/ (p = Executor /\ pc[p] \in {"reload", "record"}))
  /\ stale' = (stale \/ Open(p) \/ pc[p] = "reload")
  /\ Done(p)
  /\ UNCHANGED <<file, effective, entries, unread, overlapped, edits>>

\* The administrator changes or removes the file; systemd does not know yet.
Edit(content) ==
  /\ file' = content /\ admin' = content
  /\ authored' = authored \cup {content}
  /\ stale' = TRUE
  /\ pc' = Torn(Procs) /\ Overlap(Procs)
  /\ raced' = (raced \/ \E p \in Procs : pc[p] \in {"write", "restore", "writing", "torn"})
  /\ UNCHANGED <<effective, entries, job, spoilt, unread>>

\* `systemctl daemon-reload`, by anyone.
DaemonReload ==
  /\ effective' = file /\ stale' = FALSE
  /\ UNCHANGED <<file, entries, pc, job, edits, marks>>

Next ==
  \/ \E kind \in Kinds : Apply(kind)
  \/ Record
  \/ \E p \in Undoers : Remove(p) \/ \E i \in DOMAIN entries : Undo(p, i)
  \/ \E p \in Procs : Truncate(p) \/ Fill(p) \/ OpenFails(p) \/ FillFails(p)
  \/ \E p \in Procs : Reload(p) \/ ReloadFails(p) \/ Crash(p)
  \/ \E content \in AdminContents \cup {Absent} : Edit(content)
  \/ DaemonReload

Spec == Init /\ [][Next]_vars

-----------------------------------------------------------------------------
TypeOK ==
  /\ file \in Contents /\ effective \in Contents
  /\ entries \in Seq(Jobs) /\ Len(entries) <= MaxEntries
  /\ pc \in [Procs -> {"idle", "write", "restore", "writing", "torn", "reload", "record"}]
  /\ job \in [Procs -> Jobs]
  /\ admin \in authored /\ authored \subseteq Contents
  /\ spoilt \in BOOLEAN /\ unread \in BOOLEAN /\ overlapped \in BOOLEAN
  /\ raced \in BOOLEAN /\ stale \in BOOLEAN

\* The executor has changed the file and not recorded it yet.
Pending == Open(Executor) \/ pc[Executor] \in {"reload", "record"}

(***************************************************************************)
(* There is a way back.  The file holds something the administrator left   *)
(* or the content of an entry, which an undo accepts; and undoing the      *)
(* oldest entry with that content leads to something the administrator     *)
(* left or to the content of an older entry -- so a chain of undos always  *)
(* ends in a content of the administrator's.  It holds although undos come *)
(* in any order, twice, of entries long undone, race with the executor     *)
(* between its read and its write and with each other between comparison   *)
(* and change, or fail in their reload (write_drop_in, revert_drop_in).    *)
(* It does not hold in three cases, and only then: a write went unrecorded *)
(* or stopped half-way (spoilt); a prior content could not be read and was *)
(* recorded as absent (unread); someone met a command between its          *)
(* truncation and its write -- an action that took the empty file for the  *)
(* prior content, or a second writer (overlapped).                         *)
(***************************************************************************)
Wrote(es, n, content) == \E j \in 1 .. n : es[j].written = content

WayBack ==
  (~ spoilt /\ ~ unread /\ ~ overlapped /\ ~ Pending) =>
    /\ (\A p \in Undoers : ~ Open(p)) =>
         file \in authored \/ Wrote(entries, Len(entries), file)
    /\ \A i \in DOMAIN entries :
         entries[i].prior \in authored \/ Wrote(entries, i - 1, entries[i].prior)

(***************************************************************************)
(* What the administrator left is never destroyed: it is on disk or an     *)
(* entry holds it.  The exceptions are three: a write went unrecorded or   *)
(* stopped half-way (spoilt); the file was there but could not be read, so *)
(* that write_drop_in replaced it as if it were absent (unread); the edit  *)
(* fell between a command's read and the end of its write (raced).         *)
(* Commands that meet each other half-way do no harm here (the comparison  *)
(* in restore_drop_in_file, rollback/mod.rs:406, and prior_content in      *)
(* write_drop_in).                                                         *)
(***************************************************************************)
AdminContentKept ==
  (~ spoilt /\ ~ unread /\ ~ raced /\ ~ Pending) =>
    \/ file = admin
    \/ \E i \in DOMAIN entries : admin \in {entries[i].prior, entries[i].written}

(***************************************************************************)
(* systemd runs with the file as it is once every command has ended,       *)
(* however commands interleaved -- each reload comes after its own write,  *)
(* so the last write is followed by one -- unless a reload failed or was   *)
(* never reached, or the administrator did not reload (daemon_reload in    *)
(* write_drop_in and revert_drop_in).                                      *)
(***************************************************************************)
LoadedWhenQuiet ==
  (~ stale /\ \A p \in Procs : pc[p] = "idle") => effective = file
=============================================================================
