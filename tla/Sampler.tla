-------------------------------- MODULE Sampler --------------------------------
(***************************************************************************)
(* Metrics collection (src/src/metrics/mod.rs, collect, with cpu.rs and    *)
(* memory.rs): the kernel's cumulative counters become shares and rates by *)
(* comparing a sample with the previous one, which the process keeps.      *)
(*                                                                         *)
(* One process: the daemon, which collects once per tick, or a command,    *)
(* which collects once and ends.  Both start from CpuSample::default(),    *)
(* all zeroes, taken now.  The kernel counts on between the reads of       *)
(* /proc/stat, /proc/vmstat and /proc/loadavg.                             *)
(*                                                                         *)
(* All busy fields of the cpu line are one counter; pswpout is handled as  *)
(* pswpin is and left out.  The unit of time is the millisecond below      *)
(* which no rate is computed.  A collection that fails before its counters *)
(* are compared (meminfo or stat unreadable) changes nothing and is no     *)
(* step.                                                                   *)
(***************************************************************************)
EXTENDS Integers

CONSTANTS
  MaxCount,  \* bound: what each kernel counter reaches
  MaxClock   \* bound: the clock

Counters == {"busy", "idle", "iowait", "swapIn"}
Samples == [Counters -> Nat]

ASSUME SamplerAssumption == MaxCount \in Samples /\ MaxClock \in Nat

VARIABLES
  kernel,    \* ticks busy, idle and in iowait, and pages swapped in, since boot
  clock,
  pc,        \* "idle", "vmstat" (stat has been read) or "loadavg" (prev is set)
  prev,      \* prev_cpu
  curr,      \* the sample being taken
  figures,   \* what the collection in progress, or the last one, computed
  first,     \* observer: prev is still the default sample
  blind,     \* observer: prev was taken while vmstat could not be read
  blinded,   \*   ... or another sample of this process was
  base,      \* observer: pages swapped in when prev was taken
  reported, lost  \* observer: pages in snapshots, and in none

vars == <<kernel, clock, pc, prev, curr, figures, first, blind, blinded, base,
          reported, lost>>

NoSample == [c \in Counters |-> 0]

-----------------------------------------------------------------------------
\* Mutant: the difference is not saturating.
Difference(now, before) == now - before

\* saturating_sub
Delta(now, before) == IF now >= before THEN now - before ELSE 0

Total(s) == s["busy"] + s["idle"] + s["iowait"]

\* Mutant: time in iowait counts as busy.
IdleWithoutIowait(s) == s["idle"]

IdleTotal(s) == s["idle"] + s["iowait"]

\* utilization and iowait_pct, as the numerators of shares of TotalDelta.
TotalDelta(p, s) == Delta(Total(s), Total(p))
BusyShare(p, s) == Delta(TotalDelta(p, s), Delta(IdleTotal(s), IdleTotal(p)))
IowaitShare(p, s) ==
  IF TotalDelta(p, s) = 0 THEN 0 ELSE Delta(s["iowait"], p["iowait"])

\* swap_in_rate: the pages a rate is computed from; too short an interval is no rate.
PagesOfRate(moved, elapsed) == IF elapsed = 0 THEN 0 ELSE moved

-----------------------------------------------------------------------------
Init ==
  /\ kernel \in [Counters -> 0 .. 1]
  /\ clock = 0
  /\ pc = "idle"
  /\ prev = [sample |-> NoSample, at |-> 0] /\ curr = prev
  /\ figures = [busy |-> 0, iowait |-> 0, total |-> 0, moved |-> 0, swapIn |-> 0]
  /\ first = TRUE /\ blind = FALSE /\ blinded = FALSE /\ base = 0
  /\ reported = 0 /\ lost = 0

(***************************************************************************)
(* The kernel counts.  Of the counters only iowait is documented to go     *)
(* back as well (proc(5)).                                                 *)
(***************************************************************************)
Count(c) ==
  /\ kernel[c] < MaxCount[c]
  /\ kernel' = [kernel EXCEPT ![c] = @ + 1]
  /\ UNCHANGED <<clock, pc, prev, curr, figures, first, blind, blinded, base, reported, lost>>

IowaitBack ==
  /\ kernel["iowait"] > 0
  /\ kernel' = [kernel EXCEPT !["iowait"] = @ - 1]
  /\ UNCHANGED <<clock, pc, prev, curr, figures, first, blind, blinded, base, reported, lost>>

Elapse ==
  /\ clock < MaxClock
  /\ clock' = clock + 1
  /\ UNCHANGED <<kernel, pc, prev, curr, figures, first, blind, blinded, base, reported, lost>>

\* /proc/meminfo and /proc/stat; parse_stat leaves the swap counters at zero.
ReadStat ==
  /\ pc = "idle"
  /\ curr' = [sample |-> [kernel EXCEPT !["swapIn"] = 0], at |-> clock]
  /\ pc' = "vmstat"
  /\ UNCHANGED <<kernel, clock, prev, figures, first, blind, blinded, base, reported, lost>>

\* Everything that is computed from the two samples.
Compared(p, s) ==
  LET moved == Delta(s.sample["swapIn"], p.sample["swapIn"])
  IN  [busy   |-> BusyShare(p.sample, s.sample),
       iowait |-> IowaitShare(p.sample, s.sample),
       total  |-> TotalDelta(p.sample, s.sample),
       moved  |-> moved,
       swapIn |-> PagesOfRate(moved, s.at - p.at)]

\* Mutant: the first sample of the process stays the one compared with.
CompareWithFirst(s) ==
  /\ figures' = Compared(prev, s)
  /\ prev' = IF first THEN s ELSE prev

\* The rates and shares, and *prev_cpu = curr.
Compare(s) ==
  /\ figures' = Compared(prev, s)
  /\ prev' = s

(***************************************************************************)
(* /proc/vmstat, which may be unreadable, and the comparison.              *)
(***************************************************************************)
ReadVmstat(readable) ==
  /\ pc = "vmstat"
  /\ Compare(IF readable THEN [curr EXCEPT !.sample["swapIn"] = kernel["swapIn"]] ELSE curr)
  /\ curr' = [sample |-> NoSample, at |-> 0]
  /\ pc' = "loadavg"
  /\ first' = FALSE /\ blind' = ~ readable /\ blinded' = (blinded \/ ~ readable)
  /\ base' = kernel["swapIn"]
  /\ UNCHANGED <<kernel, clock, reported, lost>>

\* The snapshot is returned.
Publish ==
  /\ pc = "loadavg"
  /\ pc' = "idle"
  /\ reported' = (IF blinded THEN 0 ELSE reported + figures.swapIn)
  /\ lost' = (IF blinded THEN 0 ELSE lost + (figures.moved - figures.swapIn))
  /\ UNCHANGED <<kernel, clock, prev, curr, figures, first, blind, blinded, base>>

\* /proc/loadavg fails: collect is an error, but prev_cpu has been set.
LoadavgFails ==
  /\ pc = "loadavg"
  /\ pc' = "idle"
  /\ lost' = (IF blinded THEN 0 ELSE lost + figures.moved)
  /\ reported' = (IF blinded THEN 0 ELSE reported)
  /\ UNCHANGED <<kernel, clock, prev, curr, figures, first, blind, blinded, base>>

\* The process is replaced by another, or the next command is run.
Restart ==
  /\ pc' = "idle"
  /\ prev' = [sample |-> NoSample, at |-> clock]
  /\ curr' = [sample |-> NoSample, at |-> 0]
  /\ figures' = [busy |-> 0, iowait |-> 0, total |-> 0, moved |-> 0, swapIn |-> 0]
  /\ first' = TRUE /\ blind' = FALSE /\ blinded' = FALSE /\ base' = 0
  /\ reported' = 0 /\ lost' = 0
  /\ UNCHANGED <<kernel, clock>>

Next ==
  \/ \E c \in Counters : Count(c)
  \/ IowaitBack \/ Elapse
  \/ ReadStat \/ \E readable \in BOOLEAN : ReadVmstat(readable)
  \/ Publish \/ LoadavgFails
  \/ Restart

Spec == Init /\ [][Next]_vars

-----------------------------------------------------------------------------
Timed == [sample : Samples, at : Nat]

\* The shape of the state; no figure is negative.
TypeOK ==
  /\ kernel \in Samples /\ clock \in Nat
  /\ pc \in {"idle", "vmstat", "loadavg"}
  /\ prev \in Timed /\ curr \in Timed
  /\ figures \in [busy : Nat, iowait : Nat, total : Nat, moved : Nat, swapIn : Nat]
  /\ first \in BOOLEAN /\ blind \in BOOLEAN /\ blinded \in BOOLEAN
  /\ base \in Nat /\ reported \in Nat /\ lost \in Nat

(***************************************************************************)
(* The shares are shares: utilization and iowait together are at most      *)
(* 100%, although iowait may have gone back between the samples, in any    *)
(* mixture with the other counters (utilization, iowait_pct).              *)
(***************************************************************************)
SharesFit == figures.busy + figures.iowait <= figures.total

(***************************************************************************)
(* No page is reported twice and none vanishes unaccounted: what this      *)
(* process's samples have passed over is in the snapshots it returned, or  *)
(* in a collection that failed after prev_cpu was set, or fell in an       *)
(* interval too short for a rate -- as long as vmstat could be read        *)
(* (collect, *prev_cpu = curr before loadavg).                             *)
(***************************************************************************)
PagesAccounted ==
  ~ blinded =>
    reported + lost + (IF pc = "loadavg" THEN figures.moved ELSE 0) = prev.sample["swapIn"]

(***************************************************************************)
(* A vmstat that could not be read spoils the next comparison and no       *)
(* further one: whatever failed before, if it was readable for the         *)
(* previous sample and is for this one, the pages are those the kernel     *)
(* swapped in between the two reads (metrics/mod.rs:59, update_swap).      *)
(***************************************************************************)
BlindnessPasses ==
  [][ \A readable \in BOOLEAN :
        (ReadVmstat(readable) /\ ~ first /\ ~ blind)
          => figures'.moved = (IF readable THEN base' - base ELSE 0) ]_vars

-----------------------------------------------------------------------------
(***************************************************************************)
(* "Pages/second swapped in; 0.0 until a previous sample exists"           *)
(* (src/src/metrics/memory.rs:21): the first collection of a process       *)
(* reports no swap-in.                                                     *)
(***************************************************************************)
NoRateFromFirstSample ==
  [][ (first /\ ~ first') => figures'.swapIn = 0 ]_vars
=============================================================================
