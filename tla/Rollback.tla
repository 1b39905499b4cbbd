------------------------------- MODULE Rollback -------------------------------
(***************************************************************************)
(* Real execution and its undo log (actions/mod.rs execute and             *)
(* dispatch_with_prior, rollback/mod.rs, the commands of cli.rs).          *)
(*                                                                         *)
(* Each process is one command line: "apply" (actions apply) executes      *)
(* actions, "list" (rollback list) only opens the store, "undo" (rollback  *)
(* apply <id>) reverts one entry.  They share the live system and one      *)
(* JSON-lines file, with no lock.  The daemon opens the store when it      *)
(* starts and never touches it again: to the store it is a "list".         *)
(*                                                                         *)
(* The live system is what the actions change of one unit, one process and *)
(* one kernel tunable; nothing an action does reaches another unit or      *)
(* process.  Value 0 is the value before syswarden touched anything: no    *)
(* limit for memory_high and memory_max, running for active_state.         *)
(***************************************************************************)
EXTENDS JsonLines

CONSTANTS
  Procs,        \* the commands that can be running
  Executors,    \* those of them that may be `actions apply`
  Kinds,        \* the action kinds that are executed
  Values,       \* the values a knob can take
  KeepEntries,  \* config.rollback.keep_entries
  Faults,       \* whether processes crash and calls fail half way
  SameMs,       \* whether two entries can be created in one millisecond
  MaxEntries    \* bound: entries ever created

Knobs == {"nice", "ioprio", "cpu_weight", "io_weight", "memory_high", "memory_max",
          "active_state", "sysctl"}

UnitLimits == {"cpu_weight", "io_weight", "memory_high"}

AllKinds == {"AdjustNice", "AdjustIonice", "SetCpuWeight", "SetIoWeight", "SetMemoryHigh",
             "SetMemoryMax", "StopService", "RestartService", "ApplySysctl", "ApplyZram"}

NotSaved == -1

ASSUME ProcsAssumption == Executors \subseteq Procs
ASSUME KindsAssumption == Kinds \subseteq AllKinds
ASSUME ValuesAssumption == {0, 1} \subseteq Values /\ Values \subseteq Nat
ASSUME KeepAssumption ==
  /\ KeepEntries \in Nat /\ MaxEntries \in Nat
  /\ Faults \in BOOLEAN /\ SameMs \in BOOLEAN

VARIABLES
  sys,     \* the live system: knob -> value
  file,    \* rollback.jsonl
  pc,      \* where each process is
  cmd,     \* the command it runs
  cache,   \* RollbackStore.entries of each process
  job,     \* the action it is executing, with the prior state it captured
  lastId,  \* the newest id given to an entry (milliseconds since the epoch)
  exposed  \* observer: the knobs that have been without a way back

vars == <<sys, file, pc, cmd, cache, job, lastId, exposed>>

-----------------------------------------------------------------------------
Original == [k \in Knobs |-> 0]

\* The knobs an action writes; ApplyZram falls into the no-op arm.
Changes(kind) ==
  CASE kind = "AdjustNice"     -> {"nice"}
    [] kind = "AdjustIonice"   -> {"ioprio"}
    [] kind = "SetCpuWeight"   -> {"cpu_weight"}
    [] kind = "SetIoWeight"    -> {"io_weight"}
    [] kind = "SetMemoryHigh"  -> {"memory_high"}
    [] kind = "SetMemoryMax"   -> {"memory_max"}
    [] kind \in {"StopService", "RestartService"} -> {"active_state"}
    [] kind = "ApplySysctl"    -> {"sysctl"}
    [] kind = "ApplyZram"      -> {}

\* Mutant: SetMemoryMax saves the limits its siblings save, without its own.
SavesSiblings(kind, s) ==
  CASE kind \in {"SetCpuWeight", "SetIoWeight", "SetMemoryHigh", "SetMemoryMax"} -> UnitLimits
    [] kind = "StopService" -> IF s["active_state"] = 0 THEN {"active_state"} ELSE {}
    [] OTHER -> Changes(kind)

(***************************************************************************)
(* The knobs an entry's revert writes back.  The three unit limits are     *)
(* saved together by each of the three actions; a service that was not     *)
(* running leaves nothing to restore; the restart and the no-op kinds are  *)
(* not reversible.                                                         *)
(***************************************************************************)
Saves(kind, s) ==
  CASE kind \in {"SetCpuWeight", "SetIoWeight", "SetMemoryHigh"} -> UnitLimits
    [] kind = "StopService" -> IF s["active_state"] = 0 THEN {"active_state"} ELSE {}
    [] OTHER -> Changes(kind)

\* setpriority and ioprio_set: such a call takes effect or fails, never both.
PlainCalls == {"AdjustNice", "AdjustIonice"}

Reversible(kind) == kind \notin {"RestartService", "ApplyZram"}

\* The Option fields of a prior state.
NoPrior == [k \in Knobs |-> NotSaved]
PriorOf(kind, s) == [k \in Knobs |-> IF k \in Saves(kind, s) THEN s[k] ELSE NotSaved]

(***************************************************************************)
(* The value written: weights, nice and ioprio are the planner's fixed     *)
(* ones, a memory limit is a fraction of memory.current, a tunable is set  *)
(* to whatever is asked for, a restart leaves the unit running.            *)
(***************************************************************************)
NewValues(kind) ==
  CASE kind = "RestartService" -> {0}
    [] kind \in {"SetMemoryHigh", "SetMemoryMax"} -> Values \ {0}
    [] kind = "ApplySysctl" -> Values
    [] OTHER -> {1}

\* revert_nice .. revert_sysctl: only the saved fields are written.
Reverted(prior, s) == [k \in Knobs |-> IF prior[k] = NotSaved THEN s[k] ELSE prior[k]]

Priors == [Knobs -> Values \cup {NotSaved}]
Entries == [id : Nat, kind : AllKinds, prior : Priors]
Jobs == [kind : AllKinds, value : Values, prior : Priors]
NoJob == [kind |-> "ApplyZram", value |-> 0, prior |-> NoPrior]

\* apply takes the first entry with the id.
IdsOf(es) == {es[i].id : i \in DOMAIN es}
Find(es, id) == es[CHOOSE i \in DOMAIN es :
                     es[i].id = id /\ \A j \in 1 .. i - 1 : es[j].id # id]

-----------------------------------------------------------------------------
Init ==
  /\ sys = Original
  /\ file = NoFile
  /\ pc = [p \in Procs |-> "idle"]
  /\ cmd = [p \in Procs |-> "list"]
  /\ cache = [p \in Procs |-> <<>>]
  /\ job = [p \in Procs |-> NoJob]
  /\ lastId = 0
  /\ exposed = {}

\* The entries that saved a knob, and the actions about to record one that does.
SavedBy(es, k) == {i \in DOMAIN es : es[i].prior[k] # NotSaved}
Recording(k) == {p \in Procs : pc[p] = "record" /\ job[p].prior[k] # NotSaved}

(***************************************************************************)
(* A change is made before its entry is recorded, so a fault between the   *)
(* two can leave a knob without a way back: changed, and neither the file  *)
(* nor an entry about to be recorded says from what.                       *)
(***************************************************************************)
Bare == {k \in Knobs : /\ sys[k] # Original[k]
                       /\ SavedBy(file.records, k) = {}
                       /\ Recording(k) = {}}

\* Every step notes what it leaves bare.
Watch == exposed' = exposed \cup Bare'

Goto(p, l) == pc' = [pc EXCEPT ![p] = l]

\* The process is gone, with its memory.
Exit(p) ==
  /\ Goto(p, "idle")
  /\ cmd' = [cmd EXCEPT ![p] = "list"]
  /\ cache' = [cache EXCEPT ![p] = <<>>]
  /\ job' = [job EXCEPT ![p] = NoJob]

\* RollbackStore::open, load_from_disk: an unreadable file counts as empty.
Open(p) ==
  /\ pc[p] = "idle"
  /\ \E c \in {"list", "undo"} \cup (IF p \in Executors THEN {"apply"} ELSE {}) :
       cmd' = [cmd EXCEPT ![p] = c]
  /\ \E loaded \in {file.records} \cup (IF Faults THEN {<<>>} ELSE {}) :
       cache' = [cache EXCEPT ![p] = loaded]
  /\ Goto(p, "prune")
  /\ UNCHANGED <<sys, file, job, lastId>>
  /\ Watch

\* Mutant: a store at its limit is rewritten too.
PruneAtLimit(p) ==
  /\ pc[p] = "prune"
  /\ IF Len(cache[p]) < KeepEntries
     THEN Goto(p, "ready") /\ UNCHANGED <<cache, file>>
     ELSE /\ cache' = [cache EXCEPT ![p] = LastN(@, KeepEntries)]
          /\ file' = [records |-> <<>>, tail |-> "clean"]
          /\ Goto(p, "rewrite")
  /\ UNCHANGED <<sys, cmd, job, lastId>>
  /\ Watch

(***************************************************************************)
(* prune_to_limit.  fs::write truncates the file before it writes it.      *)
(***************************************************************************)
Prune(p) ==
  /\ pc[p] = "prune"
  /\ IF Len(cache[p]) <= KeepEntries
     THEN Goto(p, "ready") /\ UNCHANGED <<cache, file>>
     ELSE /\ cache' = [cache EXCEPT ![p] = LastN(@, KeepEntries)]
          /\ file' = [records |-> <<>>, tail |-> "clean"]
          /\ Goto(p, "rewrite")
  /\ UNCHANGED <<sys, cmd, job, lastId>>
  /\ Watch

(***************************************************************************)
(* The write that follows the truncation, at offset 0: it overwrites what  *)
(* other processes appended meanwhile, records being taken to be of equal  *)
(* length.  A full disk leaves a prefix.                                   *)
(***************************************************************************)
Rewrite(p) ==
  /\ pc[p] = "rewrite"
  /\ \E n \in 0 .. Len(cache[p]) :
       /\ n = Len(cache[p]) \/ Faults
       /\ file' = [records |-> SubSeq(cache[p], 1, n)
                                 \o SubSeq(file.records, n + 1, Len(file.records)),
                   tail |-> IF Len(file.records) > n THEN file.tail ELSE "clean"]
  /\ Goto(p, "ready")
  /\ UNCHANGED <<sys, cmd, cache, job, lastId>>
  /\ Watch

(***************************************************************************)
(* execute, once the gates have let the action through: the prior state is *)
(* read.  SetMemoryMax is refused while memory.high is unlimited.  Reading *)
(* a process's nice or ioprio may fail, which saves nothing and goes on.   *)
(***************************************************************************)
Capture(p, kind) ==
  /\ pc[p] = "ready" /\ cmd[p] = "apply"
  /\ lastId < MaxEntries /\ Len(file.records) < MaxEntries
  /\ kind = "SetMemoryMax" => sys["memory_high"] # 0
  /\ \E v \in NewValues(kind),
        prior \in {PriorOf(kind, sys)}
                    \cup (IF Faults /\ kind \in PlainCalls
                          THEN {NoPrior} ELSE {}) :
       job' = [job EXCEPT ![p] = [kind |-> kind, value |-> v, prior |-> prior]]
  /\ Goto(p, "captured")
  /\ UNCHANGED <<sys, file, cmd, cache, lastId>>
  /\ Watch

\* Mutant: the prior state is read after the write.
ChangeThenCapture(p) ==
  /\ pc[p] = "captured"
  /\ sys' = [k \in Knobs |-> IF k \in Changes(job[p].kind) THEN job[p].value ELSE sys[k]]
  /\ job' = [job EXCEPT ![p].prior = PriorOf(job[p].kind, sys')]
  /\ Goto(p, IF Reversible(job[p].kind) THEN "record" ELSE "ready")
  /\ UNCHANGED <<file, cmd, cache, lastId>>
  /\ Watch

\* The system call, D-Bus call or /proc/sys write succeeds.
Change(p) ==
  /\ pc[p] = "captured"
  /\ sys' = [k \in Knobs |-> IF k \in Changes(job[p].kind) THEN job[p].value ELSE sys[k]]
  /\ Goto(p, IF Reversible(job[p].kind) THEN "record" ELSE "ready")
  /\ UNCHANGED <<file, cmd, cache, job, lastId>>
  /\ Watch

(***************************************************************************)
(* The call fails and the action is Failed, with no entry.  It may have    *)
(* taken effect all the same, unless it is a plain system call: the answer *)
(* of systemd is lost, or the verify-read of sysctl::apply fails, or shows *)
(* another value than the one asked for.                                   *)
(***************************************************************************)
ChangeFails(p) ==
  /\ pc[p] = "captured"
  /\ \/ UNCHANGED sys
     \/ /\ Faults /\ job[p].kind \notin PlainCalls
        /\ \E v \in (IF job[p].kind = "ApplySysctl" THEN Values ELSE {job[p].value}) :
             sys' = [k \in Knobs |-> IF k \in Changes(job[p].kind) THEN v ELSE sys[k]]
  /\ Goto(p, "ready")
  /\ UNCHANGED <<file, cmd, cache, job, lastId>>
  /\ Watch

\* RollbackEntry::new and record: a failed write only warns.
Record(p) ==
  /\ pc[p] = "record"
  /\ \E id \in {lastId + 1} \cup (IF SameMs /\ lastId > 0 THEN {lastId} ELSE {}),
        outcome \in (IF Faults THEN Outcomes ELSE {"line"}) :
       LET e == [id |-> id, kind |-> job[p].kind, prior |-> job[p].prior]
       IN  /\ file' = Written(file, e, outcome)
           /\ cache' = [cache EXCEPT ![p] = Push(@, e, KeepEntries)]
           /\ lastId' = id
  /\ Goto(p, "ready")
  /\ UNCHANGED <<sys, cmd, job>>
  /\ Watch

\* Mutant: what has been undone is dropped from the store.
UndoDropsEntry(p, id) ==
  /\ pc[p] = "ready" /\ cmd[p] = "undo"
  /\ id \in IdsOf(cache[p])
  /\ sys' = Reverted(Find(cache[p], id).prior, sys)
  /\ file' = [file EXCEPT !.records = SelectSeq(@, LAMBDA e : e.id # id)]
  /\ Exit(p)
  /\ UNCHANGED lastId
  /\ Watch

\* RollbackStore::apply with its revert call; the entry stays in the store.
Undo(p, id) ==
  /\ pc[p] = "ready" /\ cmd[p] = "undo"
  /\ id \in IdsOf(cache[p])
  /\ sys' = Reverted(Find(cache[p], id).prior, sys)
  /\ Exit(p)
  /\ UNCHANGED <<file, lastId>>
  /\ Watch

(***************************************************************************)
(* The revert of a tunable fails once it has written: the verify-read of   *)
(* sysctl::apply again.  The command fails, and the entry stays.           *)
(***************************************************************************)
RevertFails(p, id) ==
  /\ Faults
  /\ pc[p] = "ready" /\ cmd[p] = "undo"
  /\ id \in IdsOf(cache[p]) /\ Find(cache[p], id).kind = "ApplySysctl"
  /\ \E v \in Values : sys' = [sys EXCEPT !["sysctl"] = v]
  /\ Exit(p)
  /\ UNCHANGED <<file, lastId>>
  /\ Watch

\* The command ends: its work is done, or there is no such id, or the revert did nothing.
Finish(p) ==
  /\ pc[p] = "ready"
  /\ Exit(p)
  /\ UNCHANGED <<sys, file, lastId>>
  /\ Watch

(***************************************************************************)
(* The process dies between two steps, or inside one of its writes.        *)
(***************************************************************************)
Crash(p) ==
  /\ Faults
  /\ pc[p] # "idle"
  /\ Exit(p)
  /\ \/ UNCHANGED <<file, lastId>>
     \/ /\ pc[p] = "record"
        /\ \E outcome \in Outcomes :
             file' = Written(file, [id |-> lastId + 1, kind |-> job[p].kind,
                                    prior |-> job[p].prior], outcome)
        /\ lastId' = lastId + 1
  /\ UNCHANGED sys
  /\ Watch

Next ==
  \E p \in Procs :
    \/ Open(p) \/ Prune(p) \/ Rewrite(p)
    \/ \E kind \in Kinds : Capture(p, kind)
    \/ Change(p) \/ ChangeFails(p) \/ Record(p)
    \/ \E id \in IdsOf(cache[p]) : Undo(p, id) \/ RevertFails(p, id)
    \/ Finish(p) \/ Crash(p)

Spec == Init /\ [][Next]_vars

-----------------------------------------------------------------------------
\* The shape of the state; an open store holds at most keep_entries entries.
TypeOK ==
  /\ sys \in [Knobs -> Values]
  /\ file \in FileOf(Entries)
  /\ pc \in [Procs -> {"idle", "prune", "rewrite", "ready", "captured", "record"}]
  /\ cmd \in [Procs -> {"list", "undo", "apply"}]
  /\ cache \in [Procs -> Seq(Entries)]
  /\ \A p \in Procs : pc[p] # "prune" => Len(cache[p]) <= KeepEntries
  /\ job \in [Procs -> Jobs]
  /\ lastId \in Nat
  /\ exposed \subseteq Knobs

\* What the system becomes when every entry of the store is undone, newest first.
UndoAll(es, s) ==
  LET After[n \in 0 .. Len(es)] ==
        IF n = 0 THEN s ELSE Reverted(es[Len(es) - n + 1].prior, After[n - 1])
  IN  After[Len(es)]

(***************************************************************************)
(* The undo log is complete: with one executor, no crash or disk failure   *)
(* and a store that has not overflowed, undoing every entry, newest first, *)
(* gives back the system syswarden found -- whatever was executed, failed, *)
(* or undone in any order and any number of times, and with other commands *)
(* opening and undoing concurrently (execute, record, apply).  The window  *)
(* between a change and its entry is excepted.                             *)
(***************************************************************************)
Undisturbed ==
  /\ \A p, q \in Executors : p = q
  /\ ~ Faults /\ ~ SameMs
  /\ lastId <= KeepEntries

UndoAllRestores ==
  (Undisturbed /\ \A p \in Procs : pc[p] # "record")
     => UndoAll(file.records, sys) = Original

(***************************************************************************)
(* Until the store overflows it is append-only, across crashes, failed     *)
(* writes and concurrent commands: no step loses or changes a recorded     *)
(* entry other than one whose newline never reached the disk (record and   *)
(* open with its pruning).                                                 *)
(***************************************************************************)
Settled(f) == IF f.tail = "unterminated"
              THEN SubSeq(f.records, 1, Len(f.records) - 1) ELSE f.records

AppendOnly ==
  [][ lastId <= KeepEntries
      => LET old == Settled(file)
         IN  /\ Len(file'.records) >= Len(old)
             /\ SubSeq(file'.records, 1, Len(old)) = old ]_vars

\* The oldest entry that saved a knob.
FirstSaved(es, k) == CHOOSE i \in SavedBy(es, k) : \A j \in SavedBy(es, k) : i <= j

(***************************************************************************)
(* The way back of a knob: what the oldest entry that saved it holds, an   *)
(* action that has just changed the system and is about to record counting *)
(* as an entry.                                                            *)
(***************************************************************************)
Back ==
  [k \in Knobs |->
     IF SavedBy(file.records, k) # {} THEN file.records[FirstSaved(file.records, k)].prior[k]
     ELSE IF Recording(k) # {} THEN job[CHOOSE p \in Recording(k) : TRUE].prior[k]
     ELSE NotSaved]

(***************************************************************************)
(* Executor, store and undo commands together are an undo log: although a  *)
(* change and its entry are separate steps, entries are undone in any      *)
(* order while actions execute, and what was captured may be out of date   *)
(* by the time of the change, each knob keeps the value syswarden found as *)
(* its way back, and is not touched before it has one (execute,            *)
(* RollbackStore::record and apply).                                       *)
(***************************************************************************)
Log == INSTANCE UndoLog WITH system <- sys, back <- Back

ImplementsUndoLog == Log!Spec

-----------------------------------------------------------------------------
\* One executor at a time, ids that tell entries apart, and no overflow.
Regular ==
  /\ \A p, q \in Executors : p = q
  /\ ~ SameMs /\ lastId <= KeepEntries

(***************************************************************************)
(* Faults cost the knobs they expose and no other: undoing the whole log   *)
(* gives every other knob its original value, whatever was lost, torn or   *)
(* left half done, and although the three limits of a unit are saved and   *)
(* written back together (execute, record, apply).                         *)
(***************************************************************************)
RestUnharmed ==
  Regular => LET restored == UndoAll(file.records, sys)
             IN  \A k \in Knobs \ exposed : Recording(k) = {} => restored[k] = Original[k]

(***************************************************************************)
(* A knob is exposed by a fault of an action on it: its value could not be *)
(* read before the change, the call failed although it took effect, or the *)
(* entry did not reach the file; a lost entry takes the one before it      *)
(* along when that one's newline had been lost.  The revert of a tunable   *)
(* that fails with a value no entry saved exposes the tunable.  No other   *)
(* undo, of whatever entry and however late, and no opening of the store   *)
(* exposes a knob (execute, dispatch_with_prior, record, apply).           *)
(***************************************************************************)
PriorUnread(p, k) ==
  /\ pc[p] = "captured" /\ job[p].kind \in PlainCalls
  /\ k \in Changes(job[p].kind) /\ job[p].prior[k] = NotSaved

FailedAfterChange(p, k) ==
  /\ pc[p] = "captured" /\ pc'[p] = "ready"
  /\ Reversible(job[p].kind) /\ job[p].kind \notin PlainCalls
  /\ k \in Changes(job[p].kind) /\ sys'[k] # sys[k]

RevertFailed(p, k) ==
  /\ cmd[p] = "undo" /\ pc[p] = "ready" /\ pc'[p] = "idle"
  /\ k = "sysctl"
  /\ \A id \in IdsOf(cache[p]) : sys'[k] # Find(cache[p], id).prior[k]

EntryLost(p, k) ==
  /\ pc[p] = "record" /\ pc'[p] # "record"
  /\ Len(file'.records) <= Len(file.records)
  /\ \/ k \in Changes(job[p].kind)
     \/ file.tail = "unterminated" /\ file.records[Len(file.records)].prior[k] # NotSaved

ExposedOnlyByFaults ==
  [][Regular => \A k \in exposed' \ exposed :
       \E p \in Procs : \/ PriorUnread(p, k) \/ FailedAfterChange(p, k)
                        \/ EntryLost(p, k) \/ RevertFailed(p, k) ]_vars

-----------------------------------------------------------------------------
(***************************************************************************)
(* "excess oldest entries are pruned on `open`" (src/src/rollback/mod.rs:  *)
(* 70): with no rewrite in progress, the newest keep_entries entries are   *)
(* in the store.                                                           *)
(***************************************************************************)
OnlyOldestPruned ==
  (\A p \in Procs : pc[p] # "rewrite")
     => \A id \in 1 .. lastId : lastId - id < KeepEntries => id \in IdsOf(file.records)
=============================================================================
