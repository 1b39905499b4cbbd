----------------------------- MODULE SamplerProofs -----------------------------
(***************************************************************************)
(* Sampler keeps its shape, its shares are shares and its page count adds  *)
(* up, for all bounds on the counters and the clock.                       *)
(*                                                                         *)
(* The inductive invariant says how the samples relate to the kernel: busy *)
(* and idle ticks only grow, so the previous sample is at most the current *)
(* one, which is at most the kernel; iowait has no such order, and         *)
(* SharesFit must do without it.  The swap counter of the previous sample  *)
(* is the kernel's at its reading, or zero when there was none.            *)
(***************************************************************************)
EXTENDS Sampler, TLAPS

Growing == {"busy", "idle"}

\* prev is behind curr, while there is one, and curr behind the kernel.
Ordered ==
  /\ \A c \in Growing : prev.sample[c] <= kernel[c]
  /\ pc = "vmstat" =>
       \A c \in Growing : prev.sample[c] <= curr.sample[c] /\ curr.sample[c] <= kernel[c]

\* What the swap counters of the two samples are.
Baseline ==
  /\ base <= kernel["swapIn"]
  /\ prev.sample["swapIn"] = (IF first \/ blind THEN 0 ELSE base)
  /\ pc = "vmstat" => curr.sample["swapIn"] = 0
  /\ blind => blinded
  /\ pc = "loadavg" => ~ first
  /\ figures.swapIn <= figures.moved

IInv == TypeOK /\ Ordered /\ Baseline /\ SharesFit /\ PagesAccounted

-----------------------------------------------------------------------------
(***************************************************************************)
(* The arithmetic of the shares (cpu.rs, utilization and iowait_pct): with *)
(* busy and idle ticks that did not go back they fit, whatever iowait did. *)
(***************************************************************************)
LEMMA SharesArithmetic ==
  ASSUME NEW p \in Samples, NEW s \in Samples,
         p["busy"] <= s["busy"], p["idle"] <= s["idle"]
  PROVE  /\ BusyShare(p, s) \in Nat /\ IowaitShare(p, s) \in Nat
         /\ TotalDelta(p, s) \in Nat
         /\ BusyShare(p, s) + IowaitShare(p, s) <= TotalDelta(p, s)
<1> DEFINE pb == p["busy"] pi == p["idle"] pw == p["iowait"]
           sb == s["busy"] si == s["idle"] sw == s["iowait"]
<1>1. /\ pb \in Nat /\ pi \in Nat /\ pw \in Nat /\ sb \in Nat /\ si \in Nat /\ sw \in Nat
      /\ pb <= sb /\ pi <= si
  BY DEF Samples, Counters
<1>2. /\ TotalDelta(p, s) = Delta(sb + si + sw, pb + pi + pw)
      /\ BusyShare(p, s) = Delta(Delta(sb + si + sw, pb + pi + pw), Delta(si + sw, pi + pw))
      /\ IowaitShare(p, s) = IF Delta(sb + si + sw, pb + pi + pw) = 0 THEN 0 ELSE Delta(sw, pw)
  BY DEF TotalDelta, BusyShare, IowaitShare, Total, IdleTotal
<1> HIDE DEF pb, pi, pw, sb, si, sw
<1> QED
  BY <1>1, <1>2, SMTT(60) DEF Delta

\* What a comparison yields (collect, the part between the reads).
LEMMA ComparedFigures ==
  ASSUME NEW p \in Timed, NEW s \in Timed,
         \A c \in Growing : p.sample[c] <= s.sample[c]
  PROVE  LET f == Compared(p, s)
         IN  /\ f \in [busy : Nat, iowait : Nat, total : Nat, moved : Nat, swapIn : Nat]
             /\ f.busy + f.iowait <= f.total
             /\ f.moved = Delta(s.sample["swapIn"], p.sample["swapIn"])
             /\ f.swapIn <= f.moved
<1>1. p.sample \in Samples /\ s.sample \in Samples /\ p.at \in Nat /\ s.at \in Nat
  BY DEF Timed
<1>2. p.sample["busy"] <= s.sample["busy"] /\ p.sample["idle"] <= s.sample["idle"]
  BY DEF Growing
<1>3. /\ BusyShare(p.sample, s.sample) \in Nat /\ IowaitShare(p.sample, s.sample) \in Nat
      /\ TotalDelta(p.sample, s.sample) \in Nat
      /\ BusyShare(p.sample, s.sample) + IowaitShare(p.sample, s.sample)
           <= TotalDelta(p.sample, s.sample)
  BY <1>1, <1>2, SharesArithmetic
<1> DEFINE moved == Delta(s.sample["swapIn"], p.sample["swapIn"])
<1>4. moved \in Nat
  BY <1>1 DEF Samples, Counters, Delta
<1>5. PagesOfRate(moved, s.at - p.at) \in Nat /\ PagesOfRate(moved, s.at - p.at) <= moved
  BY <1>4 DEF PagesOfRate
<1> HIDE DEF moved
<1>6. Compared(p, s) = [busy   |-> BusyShare(p.sample, s.sample),
                        iowait |-> IowaitShare(p.sample, s.sample),
                        total  |-> TotalDelta(p.sample, s.sample),
                        moved  |-> moved,
                        swapIn |-> PagesOfRate(moved, s.at - p.at)]
  BY DEF Compared, moved
<1> QED
  BY <1>3, <1>4, <1>5, <1>6 DEF moved
-----------------------------------------------------------------------------
LEMMA InitIInv == Init => IInv
<1> SUFFICES ASSUME Init PROVE IInv
  OBVIOUS
<1>1. kernel \in Samples /\ NoSample \in Samples
      /\ NoSample["swapIn"] = 0 /\ NoSample["busy"] = 0 /\ NoSample["idle"] = 0
  BY DEF Init, Samples, Counters, NoSample
<1>2. TypeOK
  BY <1>1 DEF Init, TypeOK, Timed
<1>3. Ordered /\ Baseline
  BY <1>1 DEF Init, Ordered, Baseline, Growing, Samples, Counters
<1>4. SharesFit /\ PagesAccounted
  BY <1>1 DEF Init, SharesFit, PagesAccounted
<1> QED
  BY <1>2, <1>3, <1>4 DEF IInv

\* The kernel and the clock move; the process does not.
LEMMA WorldStep ==
  ASSUME IInv, (\E c \in Counters : Count(c)) \/ IowaitBack \/ Elapse
  PROVE  IInv'
<1> USE DEF IInv
<1>1. /\ UNCHANGED <<pc, prev, curr, figures, first, blind, blinded, base, reported, lost>>
      /\ kernel' \in Samples /\ clock' \in Nat
      /\ kernel["swapIn"] <= kernel'["swapIn"]
      /\ kernel["busy"] <= kernel'["busy"] /\ kernel["idle"] <= kernel'["idle"]
  <2>0. kernel \in Samples /\ clock \in Nat
        /\ kernel["swapIn"] \in Nat /\ kernel["busy"] \in Nat /\ kernel["idle"] \in Nat
        /\ kernel["iowait"] \in Nat
    BY DEF TypeOK, Samples, Counters
  <2>1. CASE \E c \in Counters : Count(c)
    <3>1. PICK c \in Counters : Count(c)
      BY <2>1
    <3> QED
      BY <2>0, <3>1 DEF Count, Samples, Counters
  <2>2. CASE IowaitBack
    BY <2>0, <2>2 DEF IowaitBack, Samples, Counters
  <2>3. CASE Elapse
    BY <2>0, <2>3 DEF Elapse
  <2> QED
    BY <2>1, <2>2, <2>3
<1>2. TypeOK'
  BY <1>1 DEF TypeOK
<1>3. Ordered'
  <2>1. \A c \in Growing : kernel[c] \in Nat /\ kernel'[c] \in Nat /\ kernel[c] <= kernel'[c]
    BY <1>1 DEF TypeOK, Growing, Samples, Counters
  <2>2. \A c \in Growing : prev.sample[c] \in Nat /\ curr.sample[c] \in Nat
    BY DEF TypeOK, Timed, Growing, Samples, Counters
  <2> QED
    BY <1>1, <2>1, <2>2 DEF Ordered
<1>4. Baseline'
  <2>1. kernel["swapIn"] \in Nat /\ kernel'["swapIn"] \in Nat /\ base \in Nat
    BY <1>1 DEF TypeOK, Samples, Counters
  <2> QED
    BY <1>1, <2>1 DEF Baseline
<1>5. SharesFit' /\ PagesAccounted'
  BY <1>1 DEF SharesFit, PagesAccounted
<1> QED
  BY <1>2, <1>3, <1>4, <1>5

LEMMA ReadStatStep == ASSUME IInv, ReadStat PROVE IInv'
<1> USE DEF IInv
<1> DEFINE read == [kernel EXCEPT !["swapIn"] = 0]
<1>1. /\ read \in Samples /\ read["swapIn"] = 0
      /\ \A c \in Growing : read[c] = kernel[c] /\ kernel[c] \in Nat
  BY DEF TypeOK, Samples, Counters, Growing
<1> HIDE DEF read
<1>2. /\ curr' = [sample |-> read, at |-> clock] /\ pc = "idle" /\ pc' = "vmstat"
      /\ UNCHANGED <<kernel, clock, prev, figures, first, blind, blinded, base, reported, lost>>
  BY DEF ReadStat, read
<1>3. TypeOK'
  BY <1>1, <1>2 DEF TypeOK, Timed
<1>4. Ordered'
  BY <1>1, <1>2 DEF Ordered
<1>5. Baseline' /\ SharesFit' /\ PagesAccounted'
  BY <1>1, <1>2 DEF Baseline, SharesFit, PagesAccounted
<1> QED
  BY <1>3, <1>4, <1>5

\* The comparison: what was passed over is in `moved` until the collection ends.
LEMMA ReadVmstatStep ==
  ASSUME IInv, NEW readable \in BOOLEAN, ReadVmstat(readable)
  PROVE  IInv'
<1> USE DEF IInv
<1> DEFINE s == IF readable THEN [curr EXCEPT !.sample["swapIn"] = kernel["swapIn"]] ELSE curr
           n == kernel["swapIn"]
<1>1. /\ pc = "vmstat" /\ pc' = "loadavg"
      /\ figures' = Compared(prev, s) /\ prev' = s
      /\ curr' = [sample |-> NoSample, at |-> 0]
      /\ first' = FALSE /\ blind' = ~ readable /\ blinded' = (blinded \/ ~ readable)
      /\ base' = n
      /\ UNCHANGED <<kernel, clock, reported, lost>>
  BY DEF ReadVmstat, Compare
<1>2. /\ n \in Nat /\ base \in Nat /\ NoSample \in Samples
      /\ curr \in Timed /\ prev \in Timed /\ curr.sample["swapIn"] = 0
      /\ curr.sample \in Samples /\ curr.at \in Nat
  BY <1>1 DEF TypeOK, Baseline, Timed, Samples, Counters, NoSample
<1>3. /\ s \in Timed /\ s.sample["swapIn"] = (IF readable THEN n ELSE 0)
      /\ s.sample["busy"] = curr.sample["busy"] /\ s.sample["idle"] = curr.sample["idle"]
  <2>1. CASE ~ readable
    BY <1>2, <2>1
  <2>2. CASE readable
    <3>1. s = [curr EXCEPT !.sample = [curr.sample EXCEPT !["swapIn"] = n]]
      BY <2>2
    <3>2. [curr.sample EXCEPT !["swapIn"] = n] \in Samples
          /\ [curr.sample EXCEPT !["swapIn"] = n]["swapIn"] = n
          /\ [curr.sample EXCEPT !["swapIn"] = n]["busy"] = curr.sample["busy"]
          /\ [curr.sample EXCEPT !["swapIn"] = n]["idle"] = curr.sample["idle"]
      BY <1>2 DEF Samples, Counters
    <3> QED
      BY <1>2, <2>2, <3>1, <3>2 DEF Timed
  <2> QED
    BY <2>1, <2>2
<1> HIDE DEF s, n
<1>4. \A c \in Growing : prev.sample[c] <= s.sample[c] /\ s.sample[c] <= kernel[c]
  BY <1>1, <1>3 DEF Ordered, Growing
<1>5. /\ figures' \in [busy : Nat, iowait : Nat, total : Nat, moved : Nat, swapIn : Nat]
      /\ figures'.busy + figures'.iowait <= figures'.total
      /\ figures'.moved = Delta(s.sample["swapIn"], prev.sample["swapIn"])
      /\ figures'.swapIn <= figures'.moved
  BY <1>1, <1>2, <1>3, <1>4, ComparedFigures
<1>6. TypeOK'
  BY <1>1, <1>2, <1>3, <1>5 DEF TypeOK, Timed
<1>7. Ordered'
  BY <1>1, <1>4 DEF Ordered
<1>8. Baseline'
  <2>1. base' <= kernel'["swapIn"] /\ (blind' => blinded')
    BY <1>1, <1>2 DEF Baseline, n
  <2>2. prev'.sample["swapIn"] = (IF first' \/ blind' THEN 0 ELSE base')
    BY <1>1, <1>3
  <2>3. figures'.swapIn <= figures'.moved
    BY <1>5
  <2> QED
    BY <1>1, <2>1, <2>2, <2>3 DEF Baseline
<1>9. SharesFit'
  BY <1>5 DEF SharesFit
<1>10. PagesAccounted'
  <2> SUFFICES ASSUME ~ blinded'
               PROVE  reported' + lost' + figures'.moved = prev'.sample["swapIn"]
    BY <1>1 DEF PagesAccounted
  <2>1. readable /\ ~ blinded /\ ~ blind
    BY <1>1 DEF Baseline
  <2>2. reported + lost + 0 = prev.sample["swapIn"] /\ reported \in Nat /\ lost \in Nat
    BY <1>1, <2>1 DEF PagesAccounted, TypeOK
  <2>3. prev.sample["swapIn"] = (IF first THEN 0 ELSE base) /\ base <= n
    BY <2>1 DEF Baseline, n
  <2>4. figures'.moved = n - prev.sample["swapIn"]
    BY <1>2, <1>3, <1>5, <2>1, <2>3 DEF Delta
  <2> QED
    BY <1>1, <1>2, <1>3, <2>1, <2>2, <2>3, <2>4
<1> QED
  BY <1>6, <1>7, <1>8, <1>9, <1>10

\* The end of a collection: `moved` goes to the snapshot or is lost.
LEMMA EndStep == ASSUME IInv, Publish \/ LoadavgFails PROVE IInv'
<1> USE DEF IInv
<1> DEFINE m == figures.moved i == figures.swapIn
<1>1. /\ pc = "loadavg" /\ pc' = "idle"
      /\ UNCHANGED <<kernel, clock, prev, curr, figures, first, blind, blinded, base>>
      /\ \/ /\ reported' = (IF blinded THEN 0 ELSE reported + i)
            /\ lost' = (IF blinded THEN 0 ELSE lost + (m - i))
         \/ /\ reported' = (IF blinded THEN 0 ELSE reported)
            /\ lost' = (IF blinded THEN 0 ELSE lost + m)
  BY DEF Publish, LoadavgFails
<1>2. /\ m \in Nat /\ i \in Nat /\ i <= m /\ reported \in Nat /\ lost \in Nat
  BY DEF TypeOK, Baseline
<1>3. ~ blinded => reported + lost + m = prev.sample["swapIn"]
  BY <1>1 DEF PagesAccounted
<1> HIDE DEF m, i
<1>4. PICK r \in Nat, l \in Nat :
        /\ reported' = r /\ lost' = l
        /\ ~ blinded => r + l = reported + lost + m
  BY <1>1, <1>2
<1>5. pc = "loadavg" /\ pc' = "idle"
      /\ UNCHANGED <<kernel, clock, prev, curr, figures, first, blind, blinded, base>>
  BY <1>1
<1>6. TypeOK'
  BY <1>4, <1>5 DEF TypeOK
<1>7. Ordered' /\ Baseline' /\ SharesFit'
  BY <1>5 DEF Ordered, Baseline, SharesFit
<1>8. PagesAccounted'
  <2>1. ~ blinded => r + l + 0 = prev.sample["swapIn"]
    BY <1>3, <1>4
  <2> QED
    BY <1>4, <1>5, <2>1 DEF PagesAccounted
<1> QED
  BY <1>6, <1>7, <1>8

LEMMA RestartStep == ASSUME IInv, Restart PROVE IInv'
<1> USE DEF IInv
<1>1. /\ NoSample \in Samples /\ NoSample["swapIn"] = 0
      /\ \A c \in Growing : NoSample[c] = 0 /\ kernel[c] \in Nat
      /\ kernel["swapIn"] \in Nat
  BY DEF TypeOK, Samples, Counters, NoSample, Growing
<1>2. TypeOK'
  BY <1>1 DEF Restart, TypeOK, Timed
<1>3. Ordered' /\ Baseline'
  BY <1>1 DEF Restart, Ordered, Baseline
<1>4. SharesFit' /\ PagesAccounted'
  BY <1>1 DEF Restart, SharesFit, PagesAccounted
<1> QED
  BY <1>2, <1>3, <1>4

LEMMA NextIInv == IInv /\ [Next]_vars => IInv'
<1> SUFFICES ASSUME IInv, [Next]_vars PROVE IInv'
  OBVIOUS
<1>1. CASE UNCHANGED vars
  BY <1>1 DEF IInv, TypeOK, Ordered, Baseline, SharesFit, PagesAccounted, vars
<1>2. CASE Next
  BY <1>2, WorldStep, ReadStatStep, ReadVmstatStep, EndStep, RestartStep DEF Next
<1> QED
  BY <1>1, <1>2

LEMMA InvariantHolds == Spec => []IInv
<1> QED
  BY InitIInv, NextIInv, PTL DEF Spec

-----------------------------------------------------------------------------
(***************************************************************************)
(* The state of a collection keeps its shape, and no figure is negative,   *)
(* for any bounds (collect).                                               *)
(***************************************************************************)
THEOREM TypeCorrect == Spec => []TypeOK
<1>1. IInv => TypeOK
  BY DEF IInv
<1> QED
  BY <1>1, InvariantHolds, PTL

(***************************************************************************)
(* Utilization and iowait are together at most 100% in every snapshot,     *)
(* however iowait moved (utilization, iowait_pct).                         *)
(***************************************************************************)
THEOREM SharesAreShares == Spec => []SharesFit
<1>1. IInv => SharesFit
  BY DEF IInv
<1> QED
  BY <1>1, InvariantHolds, PTL

(***************************************************************************)
(* Every page swapped in is reported at most once, and one that is not was *)
(* in a failed collection or in too short an interval (collect).           *)
(***************************************************************************)
THEOREM NoPageTwice == Spec => []PagesAccounted
<1>1. IInv => PagesAccounted
  BY DEF IInv
<1> QED
  BY <1>1, InvariantHolds, PTL

(***************************************************************************)
(* A vmstat that was unreadable once affects one comparison, for any       *)
(* bounds and any failures before (update_swap, collect).                  *)
(***************************************************************************)
THEOREM OneBlindComparison == Spec => BlindnessPasses
<1> DEFINE Step == \A readable \in BOOLEAN :
                     (ReadVmstat(readable) /\ ~ first /\ ~ blind)
                       => figures'.moved = (IF readable THEN base' - base ELSE 0)
<1>1. IInv /\ [Next]_vars => [Step]_vars
  <2> SUFFICES ASSUME IInv, NEW readable \in BOOLEAN, ReadVmstat(readable), ~ first, ~ blind
               PROVE  figures'.moved = (IF readable THEN base' - base ELSE 0)
    OBVIOUS
  <2> USE DEF IInv
  <2> DEFINE s == IF readable THEN [curr EXCEPT !.sample["swapIn"] = kernel["swapIn"]]
                              ELSE curr
             n == kernel["swapIn"]
  <2>1. figures' = Compared(prev, s) /\ base' = n /\ pc = "vmstat"
    BY DEF ReadVmstat, Compare
  <2>2. figures'.moved = Delta(s.sample["swapIn"], prev.sample["swapIn"])
    BY <2>1 DEF Compared
  <2>3. prev.sample["swapIn"] = base /\ base <= n /\ base \in Nat /\ n \in Nat
        /\ curr.sample["swapIn"] = 0
    BY <2>1 DEF Baseline, TypeOK, Samples, Counters
  <2>4. CASE readable
    <3>1. s.sample["swapIn"] = n
      BY <2>4 DEF TypeOK, Timed, Samples, Counters
    <3> QED
      BY <2>1, <2>2, <2>3, <2>4, <3>1 DEF Delta
  <2>5. CASE ~ readable
    BY <2>2, <2>3, <2>5 DEF Delta
  <2> QED
    BY <2>4, <2>5
<1> QED
  BY <1>1, InvariantHolds, PTL DEF Spec, BlindnessPasses
=============================================================================
