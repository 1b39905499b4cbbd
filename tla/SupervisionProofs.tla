-------------------------- MODULE SupervisionProofs --------------------------
(***************************************************************************)
(* Theorems about Supervision, for every hysteresis_ticks, every set of    *)
(* readings, every retention and any number of days.                       *)
(***************************************************************************)
EXTENDS Supervision, SequenceTheorems, WellFoundedInduction, TLAPS

(***************************************************************************)
(* Dropping the oldest elements keeps the newest one.                      *)
(***************************************************************************)
LEMMA LastNProperties ==
  ASSUME NEW S, NEW s \in Seq(S), NEW n \in Nat
  PROVE  /\ LastN(s, n) \in Seq(S)
         /\ Len(LastN(s, n)) = IF Len(s) <= n THEN Len(s) ELSE n
         /\ n > 0 /\ s # <<>> => LastN(s, n) # <<>>
         /\ n > 0 /\ s # <<>> => LastN(s, n)[Len(LastN(s, n))] = s[Len(s)]
<1>1. Len(s) \in Nat
  BY LenProperties
<1>2. CASE Len(s) <= n
  BY <1>1, <1>2 DEF LastN
<1>3. CASE ~ (Len(s) <= n)
  <2> DEFINE m == Len(s) - n + 1
  <2>1. m \in 1 .. Len(s) + 1 /\ Len(s) - m + 1 = n
    BY <1>1, <1>3
  <2>2. LastN(s, n) = SubSeq(s, m, Len(s))
    BY <1>3 DEF LastN
  <2>3. /\ SubSeq(s, m, Len(s)) \in Seq(S)
        /\ Len(SubSeq(s, m, Len(s))) = n
        /\ \A i \in 1 .. n : SubSeq(s, m, Len(s))[i] = s[m + i - 1]
    BY <2>1, <1>1, SubSeqProperties
  <2>4. n > 0 => SubSeq(s, m, Len(s))[n] = s[Len(s)]
    BY <2>3, <1>1
  <2>5. /\ LastN(s, n) \in Seq(S)
        /\ Len(LastN(s, n)) = n
        /\ n > 0 => LastN(s, n)[n] = s[Len(s)]
    BY <2>2, <2>3, <2>4
  <2>6. n > 0 => LastN(s, n) # <<>>
    BY <2>5, EmptySeq
  <2> HIDE DEF m
  <2> QED
    BY <2>5, <2>6, <1>3
<1> QED
  BY <1>2, <1>3

\* The element pushed is the newest one, and the capacity is kept.
LEMMA PushProperties ==
  ASSUME NEW S, NEW s \in Seq(S), NEW x \in S, NEW n \in Nat \ {0}
  PROVE  /\ Push(s, x, n) \in Seq(S)
         /\ Len(Push(s, x, n)) <= n
         /\ Push(s, x, n) # <<>>
         /\ Push(s, x, n)[Len(Push(s, x, n))] = x
<1>1. /\ Append(s, x) \in Seq(S)
      /\ Append(s, x) # <<>>
      /\ Append(s, x)[Len(Append(s, x))] = x
      /\ Len(Append(s, x)) \in Nat
  BY AppendProperties, LenProperties
<1> DEFINE a == Append(s, x)
<1>2. /\ LastN(a, n) \in Seq(S)
      /\ Len(LastN(a, n)) = IF Len(a) <= n THEN Len(a) ELSE n
      /\ LastN(a, n) # <<>>
      /\ LastN(a, n)[Len(LastN(a, n))] = a[Len(a)]
  BY <1>1, LastNProperties, n > 0
<1>3. Push(s, x, n) = LastN(a, n)
  BY DEF Push
<1> HIDE DEF a
<1> QED
  BY <1>1, <1>2, <1>3 DEF a

(***************************************************************************)
(* Whatever part of an append reaches the disk, the file stays a file.     *)
(***************************************************************************)
LEMMA WrittenTyped ==
  ASSUME NEW R, NEW f \in FileOf(R), NEW l \in R, NEW outcome \in Outcomes
  PROVE  Written(f, l, outcome) \in FileOf(R)
<1>1. /\ f.records \in Seq(R) /\ f.tail \in Tails
      /\ f = [records |-> f.records, tail |-> f.tail]
  BY DEF FileOf
<1>2. /\ Append(f.records, l) \in Seq(R)
      /\ Append(f.records, l) # <<>>
  BY <1>1, AppendProperties
<1>3. f.tail = "unterminated" =>
        SubSeq(f.records, 1, Len(f.records) - 1) \in Seq(R)
  <2> SUFFICES ASSUME f.tail = "unterminated"
               PROVE  SubSeq(f.records, 1, Len(f.records) - 1) \in Seq(R)
    OBVIOUS
  <2>1. Len(f.records) \in Nat \ {0}
    BY <1>1, LenProperties, EmptySeq DEF FileOf
  <2> QED
    BY <2>1, <1>1, SubSeqProperties
<1> QED
  BY <1>1, <1>2, <1>3 DEF Written, FileOf, Tails, Outcomes

(***************************************************************************)
(* What hysteresis returns: a level, never above the raw one.              *)
(***************************************************************************)
LEMMA HysteresisBelowRaw ==
  ASSUME NEW raw \in Levels, NEW tr \in Seq(Levels), NEW ticks \in Nat
  PROVE  /\ ApplyHysteresis(raw, tr, ticks) \in Levels
         /\ ApplyHysteresis(raw, tr, ticks) <= raw
<1>1. Len(tr) \in Nat
  BY LenProperties
<1>2. CASE Len(tr) = 0
  BY <1>2 DEF ApplyHysteresis, Levels, NoPressure, Critical
<1>3. CASE Len(tr) # 0
  <2>1. Len(tr) \in 1 .. Len(tr)
    BY <1>1, <1>3
  <2>2. tr[Len(tr)] \in Levels
    BY <2>1, ElementOfSeq
  <2> QED
    BY <1>3, <2>2 DEF ApplyHysteresis, Levels, NoPressure, Critical
<1> QED
  BY <1>2, <1>3

(***************************************************************************)
(* With two or more ticks and a non-empty trend the result is never above  *)
(* the previous level: that level is itself in the window, and a raw level *)
(* above it fails the comparison.                                          *)
(***************************************************************************)
LEMMA HysteresisBelowPrevious ==
  ASSUME NEW raw \in Levels, NEW tr \in Seq(Levels), NEW ticks \in Nat,
         ticks >= 2, tr # <<>>
  PROVE  ApplyHysteresis(raw, tr, ticks) <= tr[Len(tr)]
<1>1. Len(tr) \in Nat \ {0}
  BY LenProperties, EmptySeq
<1>2. tr[Len(tr)] \in Levels
  BY <1>1, ElementOfSeq
<1>3. CASE raw <= tr[Len(tr)]
  BY <1>1, <1>3 DEF ApplyHysteresis
<1>4. CASE ~ (raw <= tr[Len(tr)])
  <2>1. RequiredPrior(ticks) >= 1
    BY DEF RequiredPrior
  <2>2. Len(tr) \in (Len(tr) - RequiredPrior(ticks) + 1) .. Len(tr)
    BY <1>1, <2>1 DEF RequiredPrior
  <2>3. ~ \A i \in (Len(tr) - RequiredPrior(ticks) + 1) .. Len(tr) : tr[i] >= raw
    BY <2>2, <1>2, <1>4 DEF Levels, NoPressure, Critical
  <2>4. ApplyHysteresis(raw, tr, ticks) = tr[Len(tr)]
    BY <2>3, <1>4, <1>1 DEF ApplyHysteresis
  <2> QED
    BY <2>4, <1>2 DEF Levels, NoPressure, Critical
<1> QED
  BY <1>3, <1>4

\* The worst sub-level is a level (compute).
LEMMA RawLevelIsLevel ==
  ASSUME NEW r, NEW t
  PROVE  RawLevel(r, t) \in Levels
<1>1. \A x, y : ClassifyLevel(x, y) \in Levels
  BY DEF ClassifyLevel, Levels, NoPressure, Low, Moderate, High, Critical
<1>2. \A some, full, mem, rising, y : ClassifyMemoryLevel(some, full, mem, rising, y) \in Levels
  BY DEF ClassifyMemoryLevel, Levels, NoPressure, Low, Moderate, High, Critical
<1> QED
  BY <1>1, <1>2 DEF RawLevel, Worse

-----------------------------------------------------------------------------
(***************************************************************************)
(* The inductive invariant: the level being recorded is at most the raw    *)
(* level just observed and, from two ticks of hysteresis on, at most the   *)
(* newest level of the trend it will be pushed onto.                       *)
(***************************************************************************)
LevelBounded ==
  /\ pc = "append" =>
       /\ raws # <<>> /\ level <= raws[Len(raws)]
       /\ (Ticks >= 2 /\ trend # <<>>) => level <= trend[Len(trend)]
  /\ pc = "down" => trend = <<>>

IInv == TypeOK /\ LevelBounded

(***************************************************************************)
(* A non-empty set of days has a greatest element.  (The least number      *)
(* principle, applied to the distances from the last day.)                 *)
(***************************************************************************)
LEMMA GreatestDay ==
  ASSUME NEW S \in SUBSET Days, S # {}
  PROVE  \E d \in S : \A e \in S : e <= d
<1> DEFINE R == OpToRel(<, Nat)
           T == {LastDay - d : d \in S}
<1>1. \A x, y \in Nat : <<x, y>> \in R <=> x < y
  BY DEF OpToRel
<1>2. IsWellFoundedOn(R, Nat)
  BY NatLessThanWellFounded
<1> HIDE DEF R
<1>3. T \subseteq Nat /\ T # {}
  <2>1. \A d \in S : LastDay - d \in Nat
    BY BoundsAssumption DEF Days
  <2>2. PICK d \in S : TRUE
    OBVIOUS
  <2> QED
    BY <2>1, <2>2
<1>4. \E x \in T : \A y \in T : ~ (<<y, x>> \in R)
  <2> HIDE DEF T
  <2> QED BY <1>2, <1>3, WFMin
<1>5. PICK x \in T : \A y \in T : ~ (<<y, x>> \in R)
  BY <1>4
<1>6. PICK d \in S : x = LastDay - d
  OBVIOUS
<1>7. ASSUME NEW e \in S PROVE e <= d
  <2>1. LastDay - e \in T
    OBVIOUS
  <2>2. ~ (LastDay - e < LastDay - d)
    BY <2>1, <1>1, <1>3, <1>5, <1>6
  <2> QED
    BY <2>2, BoundsAssumption DEF Days
<1> QED
  BY <1>7

\* The newest dated file exists whenever a file does (history_files).
LEMMA LatestDayProperties ==
  ASSUME NEW fs, Present(fs) # {}
  PROVE  /\ LatestDay(fs) \in Present(fs)
         /\ LatestDay(fs) \in Days
         /\ \A e \in Present(fs) : e <= LatestDay(fs)
<1>1. Present(fs) \in SUBSET Days
  BY DEF Present
<1>2. \E d \in Present(fs) : \A e \in Present(fs) : e <= d
  BY <1>1, GreatestDay
<1> QED
  BY <1>1, <1>2 DEF LatestDay

\* What the disk seeds is a trend (load_recent_from_disk, recent_levels).
LEMMA SeedTyped ==
  ASSUME NEW fs \in [Days -> File]
  PROVE  Seed(fs) \in Seq(Levels) /\ Len(Seed(fs)) <= TrendCap
<1>1. TrendCap \in Nat /\ BufCap \in Nat
  BY TicksAssumption, BoundsAssumption DEF TrendCap
<1>2. CASE Present(fs) = {}
  BY <1>1, <1>2, EmptySeq DEF Seed
<1>3. CASE Present(fs) # {}
  <2> DEFINE r == fs[LatestDay(fs)].records
  <2>1. LatestDay(fs) \in Days
    BY <1>3, LatestDayProperties
  <2>2. r \in Seq(Levels)
    BY <2>1 DEF File, FileOf
  <2>3. LastN(r, BufCap) \in Seq(Levels)
    BY <2>2, <1>1, LastNProperties
  <2>4. LastN(LastN(r, BufCap), TrendCap) \in Seq(Levels)
        /\ Len(LastN(LastN(r, BufCap), TrendCap)) <= TrendCap
    BY <2>3, <1>1, LastNProperties, LenProperties
  <2> QED
    BY <2>4, <1>3 DEF Seed
<1> QED
  BY <1>2, <1>3

\* Files that are removed, or that a listing leaves out, keep the directory's shape.
LEMMA OnlyTyped ==
  ASSUME NEW fs \in [Days -> File]
  PROVE  /\ \A S : Only(fs, S) \in [Days -> File]
         /\ \A d \in Days : [fs EXCEPT ![d] = NoFile] \in [Days -> File]
<1>1. NoFile \in File
  BY EmptySeq DEF NoFile, File, FileOf, Tails
<1> QED
  BY <1>1 DEF Only

\* The daemon starts down, with an empty history directory.
LEMMA InitIInv == Init => IInv
<1> SUFFICES ASSUME Init PROVE IInv
  OBVIOUS
<1>1. <<>> \in Seq(Levels) /\ Len(<<>>) = 0
  BY EmptySeq
<1>2. NoFile \in File
  BY <1>1 DEF NoFile, File, FileOf, Tails
<1>3. 0 \in Days
  BY BoundsAssumption DEF Days
<1> QED
  BY <1>1, <1>2, <1>3, TicksAssumption, BoundsAssumption
  DEF Init, IInv, TypeOK, LevelBounded, TrendCap, Levels, NoPressure, Critical

\* Every step of the daemon and its environment keeps the invariant.
LEMMA StepIInv == IInv /\ [Next]_vars => IInv'
<1> SUFFICES ASSUME IInv, [Next]_vars PROVE IInv'
  OBVIOUS
<1> USE TicksAssumption, BoundsAssumption
<1>0. /\ TypeOK /\ LevelBounded
      /\ <<>> \in Seq(Levels) /\ Len(<<>>) = 0
      /\ NoPressure \in Levels
      /\ TrendCap \in Nat \ {0} /\ Window \in Nat \ {0}
  BY EmptySeq DEF IInv, TrendCap, Levels, NoPressure, Critical
<1>1. CASE Start
  <2>1. trend' \in Seq(Levels) /\ Len(trend') <= TrendCap
    <3>1. PICK listed \in SUBSET Present(files) : trend' = Seed(Only(files, listed))
      BY <1>1 DEF Start
    <3>2. Only(files, listed) \in [Days -> File]
      BY <1>0, OnlyTyped DEF TypeOK
    <3> QED
      BY <3>1, <3>2, SeedTyped
  <2>2. /\ pc' = "opened" /\ hasPsi' \in BOOLEAN /\ excused' \in BOOLEAN
        /\ UNCHANGED <<level, files, doomed, today, raws>>
    BY <1>1 DEF Start, Excuse
  <2> QED
    BY <2>1, <2>2, <1>0 DEF IInv, TypeOK, LevelBounded
<1>l. CASE ListExpired
  <2>1. doomed' \subseteq Days
    BY <1>l DEF ListExpired, Expired, Present
  <2> QED
    BY <2>1, <1>l, <1>0 DEF ListExpired, Excuse, IInv, TypeOK, LevelBounded
<1>r. ASSUME NEW d \in Days, RemoveExpired(d) \/ ReportPrunes(d)
      PROVE  IInv'
  <2>1. files' = [files EXCEPT ![d] = NoFile]
    BY <1>r DEF RemoveExpired, ReportPrunes
  <2>2. files' \in [Days -> File]
    BY <2>1, <1>0, OnlyTyped DEF TypeOK
  <2>3. excused' \in BOOLEAN /\ UNCHANGED <<pc, hasPsi, trend, level, doomed, today, raws>>
    BY <1>r, <1>0 DEF RemoveExpired, ReportPrunes, Excuse, TypeOK
  <2> QED
    BY <2>2, <2>3, <1>0 DEF IInv, TypeOK, LevelBounded
<1>p. CASE EndPrune
  BY <1>p, <1>0 DEF EndPrune, Excuse, IInv, TypeOK, LevelBounded
<1>2. ASSUME NEW r \in Readings, NEW failed \in UnreadableSets, Classify(r, failed)
      PROVE  IInv'
  <2> DEFINE raw == IF hasPsi THEN RawLevel(Unread(r, failed), Thresholds) ELSE NoPressure
  <2>1. raw \in Levels
    BY RawLevelIsLevel, <1>0
  <2>2. level' \in Levels /\ level' <= raw
    <3>1. CASE hasPsi
      BY <3>1, <2>1, <1>0, <1>2, HysteresisBelowRaw DEF Classify, ComputeLevel, TypeOK
    <3>2. CASE ~ hasPsi
      BY <3>2, <1>0, <1>2 DEF Classify, ComputeLevel, Levels, NoPressure, Critical
    <3> QED
      BY <3>1, <3>2
  <2>3. (Ticks >= 2 /\ trend # <<>>) => level' <= trend[Len(trend)]
    <3> SUFFICES ASSUME Ticks >= 2, trend # <<>> PROVE level' <= trend[Len(trend)]
      OBVIOUS
    <3>1. CASE hasPsi
      BY <3>1, <2>1, <1>0, <1>2, HysteresisBelowPrevious DEF Classify, ComputeLevel, TypeOK
    <3>2. CASE ~ hasPsi
      <4>1. Len(trend) \in 1 .. Len(trend)
        BY <1>0, LenProperties, EmptySeq DEF TypeOK
      <4>2. trend[Len(trend)] \in Levels
        BY <4>1, <1>0, ElementOfSeq DEF TypeOK
      <4> QED
        BY <4>2, <3>2, <1>2 DEF Classify, ComputeLevel, Levels, NoPressure, Critical
    <3> QED
      BY <3>1, <3>2
  <2>4. /\ raws' = Push(raws, raw, Window)
        /\ pc' = "append"
        /\ UNCHANGED <<hasPsi, trend, files, doomed, today, excused>>
    BY <1>2 DEF Classify
  <2>5. /\ raws' \in Seq(Levels) /\ Len(raws') <= Window
        /\ raws' # <<>> /\ raws'[Len(raws')] = raw
    BY <2>4, <2>1, <1>0, PushProperties DEF TypeOK
  <2> HIDE DEF raw
  <2> QED
    BY <2>2, <2>3, <2>4, <2>5, <1>0 DEF IInv, TypeOK, LevelBounded
<1>3. ASSUME NEW outcome \in Outcomes, Store(outcome)
      PROVE  files' \in [Days -> File]
  <2>1. Written(files[today], level, outcome) \in File
    BY <1>0, WrittenTyped DEF TypeOK, File
  <2> QED
    BY <2>1, <1>0, <1>3 DEF Store, TypeOK
<1>4. ASSUME NEW outcome \in Outcomes, AppendAndPush(outcome)
      PROVE  IInv'
  <2>1. files' \in [Days -> File]
    BY <1>3, <1>4 DEF AppendAndPush
  <2>2. trend' \in Seq(Levels) /\ Len(trend') <= TrendCap
    BY <1>0, <1>4, PushProperties DEF AppendAndPush, TypeOK
  <2> QED
    BY <2>1, <2>2, <1>0, <1>4 DEF AppendAndPush, Excuse, IInv, TypeOK, LevelBounded
<1>d. ASSUME Down, files' \in [Days -> File], excused' \in BOOLEAN
      PROVE  IInv'
  <2>1. /\ pc' = "down" /\ hasPsi' \in BOOLEAN /\ level' \in Levels /\ today' \in Days
        /\ doomed' \subseteq Days
    BY <1>0, <1>d DEF Down, TypeOK
  <2>2. /\ trend' \in Seq(Levels) /\ Len(trend') = 0
        /\ raws' \in Seq(Levels) /\ Len(raws') = 0
    BY <1>0, <1>d DEF Down
  <2>3. Len(trend') <= TrendCap /\ Len(raws') <= Window
    BY <2>2, <1>0
  <2> QED
    BY <2>1, <2>2, <2>3, <1>d DEF IInv, TypeOK, LevelBounded
<1>5. ASSUME NEW outcome \in Outcomes, CrashInAppend(outcome)
      PROVE  IInv'
  <2>1. files' \in [Days -> File]
    BY <1>3, <1>5 DEF CrashInAppend
  <2> QED
    BY <2>1, <1>d, <1>5 DEF CrashInAppend, Excuse
<1>6. CASE Stop
  BY <1>0, <1>d, <1>6 DEF Stop, Excuse, TypeOK
<1>7. CASE NewDay
  BY <1>0, <1>7 DEF NewDay, Excuse, IInv, TypeOK, LevelBounded
<1>8. CASE UNCHANGED vars
  BY <1>0, <1>8 DEF vars, IInv, TypeOK, LevelBounded
<1> QED
  BY <1>1, <1>l, <1>r, <1>p, <1>2, <1>4, <1>5, <1>6, <1>7, <1>8 DEF Next

\* The invariant holds in every reachable state.
LEMMA SpecIInv == Spec => []IInv
<1> QED
  BY InitIInv, StepIInv, PTL DEF Spec

\* The state keeps its shape (TypeOK), for every value of the constants.
THEOREM TypeCorrect == Spec => []TypeOK
<1>1. IInv => TypeOK
  BY DEF IInv
<1> QED
  BY <1>1, SpecIInv, PTL

(***************************************************************************)
(* No trend, seeded from whatever the disk holds, makes a tick report more *)
(* pressure than its own reading.                                          *)
(***************************************************************************)
THEOREM ReportedPressureIsReal == Spec => []LevelNeverExceedsReading
<1>1. IInv => LevelNeverExceedsReading
  BY DEF IInv, LevelBounded, LevelNeverExceedsReading
<1> QED
  BY <1>1, SpecIInv, PTL

(***************************************************************************)
(* The ratchet: from two ticks of hysteresis on, a daemon that holds a     *)
(* trend never reports a rise, however long the readings stay high.        *)
(***************************************************************************)
THEOREM LevelOnlyFalls == Spec => NoRiseOnceSeeded
<1>1. IInv /\ [Next]_vars =>
        [ (Ticks >= 2 /\ pc = "append" /\ pc' = "collect" /\ trend # <<>>)
          => trend'[Len(trend')] <= trend[Len(trend)] ]_vars
  <2> SUFFICES ASSUME IInv, Next, Ticks >= 2, pc = "append", pc' = "collect", trend # <<>>
               PROVE  trend'[Len(trend')] <= trend[Len(trend)]
    BY DEF vars
  <2>1. PICK outcome \in Outcomes : AppendAndPush(outcome)
    BY DEF Next, Start, ListExpired, RemoveExpired, EndPrune, ReportPrunes, Classify,
           CrashInAppend, Stop, Down, NewDay
  <2>2. trend'[Len(trend')] = level
    BY <2>1, PushProperties, TicksAssumption DEF AppendAndPush, IInv, TypeOK, TrendCap
  <2> QED
    BY <2>2 DEF IInv, LevelBounded
<1> QED
  BY <1>1, SpecIInv, PTL DEF Spec, NoRiseOnceSeeded

-----------------------------------------------------------------------------
(***************************************************************************)
(* The disk and the trend.  Without the faults of Excuse, from two ticks   *)
(* of hysteresis on: no file is later than the clock or ends in a record   *)
(* without newline, and a process with an empty trend faces a newest file  *)
(* with nothing to read (so the first record it writes starts afresh).     *)
(***************************************************************************)
DiskCurrent ==
  (~ excused /\ Ticks >= 2) =>
    /\ \A d \in Present(files) : d <= today
    /\ \A d \in Days : files[d].tail # "unterminated"
    /\ \A d \in Days : files[d].tail = "absent" => files[d].records = <<>>
    /\ (pc \in {"collect", "append"} /\ trend = <<>>) => Seed(files) = <<>>

(***************************************************************************)
(* While the store is opened: the newest file is the one that was loaded,  *)
(* or there is nothing left to read, or an expired file is gone before an  *)
(* older one.  The files listed are all older than those that stay, so     *)
(* once they are gone the first two cases are left.                        *)
(***************************************************************************)
PruneKeepsSeed ==
  (~ excused /\ Ticks >= 2) =>
    /\ pc = "opened" => Seed(files) \in {trend, <<>>}
    /\ pc = "prune" => /\ \A d \in doomed, e \in Present(files) \ doomed : d < e
                       /\ HalfPruned \/ Seed(files) \in {trend, <<>>}

DiskInv == IInv /\ DiskCurrent /\ PruneKeepsSeed /\ TrendNeverAboveDisk

\* The newest file that is not later than any other is the latest day's.
LEMMA LatestIs ==
  ASSUME NEW fs, NEW d \in Present(fs), \A e \in Present(fs) : e <= d
  PROVE  LatestDay(fs) = d
<1>1. Present(fs) \in SUBSET Days
  BY DEF Present
<1>2. \A e \in Days : e \in Int
  BY DEF Days
<1>3. LatestDay(fs) \in Present(fs) /\ \A e \in Present(fs) : e <= LatestDay(fs)
  BY LatestDayProperties
<1> QED
  BY <1>1, <1>2, <1>3

\* What the newest file seeds ends with the file's last record.
LEMMA SeedLast ==
  ASSUME NEW fs \in [Days -> File], NEW d \in Present(fs),
         \A e \in Present(fs) : e <= d
  PROVE  /\ fs[d].records = <<>> => Seed(fs) = <<>>
         /\ fs[d].records # <<>> => Seed(fs) # <<>>
         /\ fs[d].records # <<>> =>
              Seed(fs)[Len(Seed(fs))] = fs[d].records[Len(fs[d].records)]
<1> DEFINE r == fs[d].records
           s == LastN(r, BufCap)
<1>1. BufCap \in Nat /\ BufCap > 0 /\ TrendCap \in Nat /\ TrendCap > 0
  BY TicksAssumption, BoundsAssumption DEF TrendCap
<1>2. r \in Seq(Levels)
  BY DEF Present, File, FileOf
<1>3. Seed(fs) = LastN(s, TrendCap)
  <2>1. LatestDay(fs) = d
    BY LatestIs
  <2>2. Present(fs) # {}
    OBVIOUS
  <2> QED
    BY <2>1, <2>2 DEF Seed
<1>4. /\ s \in Seq(Levels)
      /\ r # <<>> => s # <<>> /\ s[Len(s)] = r[Len(r)]
  <2> HIDE DEF r
  <2> QED BY <1>1, <1>2, LastNProperties
<1>5. r = <<>> => s = <<>>
  <2> HIDE DEF r
  <2> QED BY <1>1, EmptySeq DEF LastN
<1>6. /\ s = <<>> => LastN(s, TrendCap) = <<>>
      /\ s # <<>> => LastN(s, TrendCap) # <<>>
      /\ s # <<>> => LastN(s, TrendCap)[Len(LastN(s, TrendCap))] = s[Len(s)]
  <2> HIDE DEF s
  <2>1. s = <<>> => LastN(s, TrendCap) = <<>>
    BY <1>1, EmptySeq DEF LastN
  <2> QED BY <2>1, <1>1, <1>4, LastNProperties
<1> HIDE DEF s
<1> QED
  BY <1>3, <1>4, <1>5, <1>6

(***************************************************************************)
(* Removing a file: only the newest one matters to what a start would      *)
(* seed, and without it an older one is the newest.                        *)
(***************************************************************************)
LEMMA RemoveSeed ==
  ASSUME TypeOK, NEW d \in Present(files), NEW fs, fs = [files EXCEPT ![d] = NoFile]
  PROVE  /\ Present(fs) = Present(files) \ {d}
         /\ Present(fs) = {} => Seed(fs) = <<>>
         /\ d # LatestDay(files) => /\ LatestDay(fs) = LatestDay(files)
                                    /\ Seed(fs) = Seed(files)
         /\ d = LatestDay(files) /\ Present(fs) # {} => LatestDay(fs) < d
<1>1. /\ d \in Days /\ Present(files) # {} /\ Present(files) \subseteq Days
      /\ files \in [Days -> File] /\ fs[d] = NoFile
      /\ \A e \in Days \ {d} : fs[e] = files[e]
  BY DEF Present, TypeOK
<1>2. Present(fs) = Present(files) \ {d}
  BY <1>1 DEF Present, NoFile
<1>3. \A e \in Days : e \in Int
  BY DEF Days
<1>4. LatestDay(files) \in Present(files) /\ \A e \in Present(files) : e <= LatestDay(files)
  BY <1>1, LatestDayProperties
<1>5. ASSUME d # LatestDay(files)
      PROVE  LatestDay(fs) = LatestDay(files) /\ Seed(fs) = Seed(files)
  <2>1. LatestDay(files) \in Present(fs) /\ \A e \in Present(fs) : e <= LatestDay(files)
    BY <1>2, <1>4, <1>5
  <2>2. LatestDay(fs) = LatestDay(files)
    BY <2>1, LatestIs
  <2>3. fs[LatestDay(files)] = files[LatestDay(files)]
    BY <1>1, <1>4, <1>5
  <2>4. Present(fs) # {}
    BY <2>1
  <2>5. Seed(fs) = LastN(LastN(fs[LatestDay(fs)].records, BufCap), TrendCap)
    BY <2>4 DEF Seed
  <2>6. Seed(files) = LastN(LastN(files[LatestDay(files)].records, BufCap), TrendCap)
    BY <1>1 DEF Seed
  <2> QED
    BY <2>2, <2>3, <2>5, <2>6
<1>6. ASSUME d = LatestDay(files), Present(fs) # {}
      PROVE  LatestDay(fs) < d
  <2>1. Present(fs) \in SUBSET Days
    BY <1>1, <1>2
  <2>2. LatestDay(fs) \in Present(fs)
    BY <1>6, <2>1, LatestDayProperties
  <2>3. PICK e \in Present(files) : e = LatestDay(fs) /\ e # d
    BY <1>2, <2>2
  <2>4. e <= d /\ e \in Int /\ d \in Int
    BY <1>1, <1>3, <1>4, <1>6, <2>3
  <2>5. e < d
    BY <2>3, <2>4
  <2> QED
    BY <2>3, <2>5
<1> QED
  BY <1>2, <1>5, <1>6 DEF Seed

\* Once the listed files are gone, none of them is later than one that stays.
LEMMA PrunedWhole ==
  ASSUME TypeOK, doomed \cap Present(files) = {},
         \A d \in doomed, e \in Present(files) \ doomed : d < e
  PROVE  ~ HalfPruned
<1> SUFFICES ASSUME Present(files) # {}, NEW d \in doomed, LatestDay(files) < d
             PROVE  FALSE
  BY DEF HalfPruned
<1>1. LatestDay(files) \in Present(files) \ doomed /\ LatestDay(files) \in Days
  BY LatestDayProperties
<1>2. d < LatestDay(files)
  BY <1>1
<1> QED
  BY <1>1, <1>2 DEF Days, TypeOK

(***************************************************************************)
(* A removal that no fault excuses keeps what is known of the directory:   *)
(* what a start would seed stays as it was, or nothing is left, or an      *)
(* older listed file is the newest now (prune_old_files).                  *)
(***************************************************************************)
LEMMA RemovalSeed ==
  ASSUME DiskInv, NEW d \in Days, RemoveExpired(d) \/ ReportPrunes(d), ~ excused'
  PROVE  /\ ~ excused /\ d \in Present(files) /\ files' = [files EXCEPT ![d] = NoFile]
         /\ UNCHANGED <<pc, hasPsi, trend, level, doomed, today, raws>>
         /\ Present(files') = Present(files) \ {d}
         /\ \/ Seed(files') = Seed(files)
            \/ Seed(files') = <<>>
            \/ pc = "prune" /\ HalfPruned'
<1>1. /\ ~ excused /\ d \in Present(files) /\ files' = [files EXCEPT ![d] = NoFile]
      /\ UNCHANGED <<pc, hasPsi, trend, level, doomed, today, raws>>
  <2>1. CASE RemoveExpired(d)
    BY <2>1 DEF RemoveExpired
  <2>2. CASE ReportPrunes(d)
    BY <2>2 DEF ReportPrunes, Excuse, Expired
  <2> QED
    BY <2>1, <2>2
<1>2. /\ Present(files') = Present(files) \ {d}
      /\ Present(files') = {} => Seed(files') = <<>>
      /\ d # LatestDay(files) => Seed(files') = Seed(files)
      /\ d = LatestDay(files) /\ Present(files') # {} => LatestDay(files') < d
  BY <1>1, RemoveSeed DEF DiskInv, IInv
<1>3. CASE d = LatestDay(files) /\ Present(files') # {}
  <2>1. RemoveExpired(d)
    BY <1>3 DEF ReportPrunes, Excuse
  <2>2. pc = "prune" /\ d \in doomed' \ Present(files')
    BY <1>1, <1>2, <2>1 DEF RemoveExpired
  <2> QED
    BY <1>1, <1>2, <1>3, <2>2 DEF HalfPruned
<1> QED
  BY <1>1, <1>2, <1>3

(***************************************************************************)
(* What an append can do to a file whose last line is whole: leave its     *)
(* records, or add the level at the end.                                   *)
(***************************************************************************)
LEMMA WrittenWhole ==
  ASSUME NEW f \in File, NEW outcome \in Outcomes, outcome # "json",
         f.tail # "unterminated"
  PROVE  LET g == Written(f, level, outcome)
         IN  /\ g.tail # "unterminated"
             /\ g.records = f.records \/ g.records = Append(f.records, level)
             /\ g.tail = "absent" => outcome = "nothing" /\ f.tail = "absent"
             /\ g.tail = "absent" => g.records = f.records
BY DEF Written, File, FileOf, Outcomes, Tails

(***************************************************************************)
(* After an append the newest record is the level just classified or what  *)
(* it was; before it, it was not below that level.                         *)
(***************************************************************************)
LEMMA StoreSeed ==
  ASSUME DiskInv, ~ excused, Ticks >= 2, pc = "append",
         NEW outcome \in Outcomes, outcome # "json", Store(outcome)
  PROVE  /\ \A d \in Present(files') : d <= today
         /\ \A d \in Days : files'[d].tail # "unterminated"
         /\ \A d \in Days : files'[d].tail = "absent" => files'[d].records = <<>>
         /\ Seed(files) # <<>> =>
              trend # <<>> /\ level <= Seed(files)[Len(Seed(files))]
         /\ Seed(files') # <<>> =>
              \/ Seed(files')[Len(Seed(files'))] = level
              \/ /\ Seed(files) # <<>>
                 /\ Seed(files')[Len(Seed(files'))] = Seed(files)[Len(Seed(files))]
<1>1. /\ TypeOK /\ today \in Days /\ files \in [Days -> File]
      /\ \A d \in Days : d \in Int
  BY DEF DiskInv, IInv, TypeOK, Days
<1>2. /\ \A d \in Present(files) : d <= today
      /\ \A d \in Days : files[d].tail # "unterminated"
      /\ \A d \in Days : files[d].tail = "absent" => files[d].records = <<>>
      /\ trend = <<>> => Seed(files) = <<>>
  BY DEF DiskInv, DiskCurrent
<1>3. Seed(files) # <<>> => trend # <<>> /\ level <= Seed(files)[Len(Seed(files))]
  <2> SUFFICES ASSUME Seed(files) # <<>>
               PROVE  trend # <<>> /\ level <= Seed(files)[Len(Seed(files))]
    OBVIOUS
  <2>1. trend # <<>>
    BY <1>2
  <2>2. level <= trend[Len(trend)]
    BY <2>1 DEF DiskInv, IInv, LevelBounded
  <2>3. trend[Len(trend)] <= Seed(files)[Len(Seed(files))]
    BY <2>1 DEF DiskInv, TrendNeverAboveDisk
  <2>4. /\ level \in Int
        /\ trend[Len(trend)] \in Int
        /\ Seed(files)[Len(Seed(files))] \in Int
    <3>1. \A q \in Seq(Levels) : q # <<>> => q[Len(q)] \in Levels
      <4> TAKE q \in Seq(Levels)
      <4> HAVE q # <<>>
      <4>1. Len(q) \in 1 .. Len(q)
        BY LenProperties, EmptySeq
      <4> QED
        BY <4>1, ElementOfSeq
    <3>2. trend \in Seq(Levels) /\ Seed(files) \in Seq(Levels) /\ level \in Levels
      BY <1>1, SeedTyped DEF TypeOK
    <3>3. Levels \subseteq Int
      BY DEF Levels, NoPressure, Critical
    <3> QED
      BY <2>1, <3>1, <3>2, <3>3
  <2> QED
    <3>1. \A x, y, z \in Int : x <= y /\ y <= z => x <= z
      OBVIOUS
    <3> QED BY <2>1, <2>2, <2>3, <2>4, <3>1
<1>4. CASE files' = files
  BY <1>2, <1>3, <1>4
<1>5. CASE files' = [files EXCEPT ![today] = Written(files[today], level, outcome)]
           /\ files' # files
  <2> DEFINE f == files[today]
             g == Written(f, level, outcome)
  <2>1. f \in File /\ f.tail # "unterminated" /\ f.records \in Seq(Levels)
    BY <1>1, <1>2 DEF File, FileOf
  <2>2. /\ g.tail # "unterminated"
        /\ g.records = f.records \/ g.records = Append(f.records, level)
        /\ g.tail = "absent" => outcome = "nothing"
        /\ g \in File
    <3> HIDE DEF f
    <3>1. level \in Levels
      BY <1>1 DEF TypeOK
    <3> QED BY <2>1, <3>1, WrittenWhole, WrittenTyped DEF File
  <2>3. /\ files' \in [Days -> File] /\ files'[today] = g
        /\ \A d \in Days \ {today} : files'[d] = files[d]
    <3> HIDE DEF g
    <3> QED BY <1>1, <1>5, <2>2 DEF g
  <2>4. outcome # "nothing"
    <3> SUFFICES ASSUME outcome = "nothing" PROVE FALSE
      OBVIOUS
    <3>1. g = f
      BY DEF Written
    <3> QED
      BY <3>1, <1>1, <1>5
  <2> HIDE DEF g
  <2>5. /\ today \in Present(files')
        /\ \A d \in Present(files') : d <= today
        /\ \A d \in Present(files') \ {today} : d \in Present(files)
    <3>1. today \in Present(files')
      BY <1>1, <2>2, <2>3, <2>4 DEF Present
    <3>2. \A d \in Present(files') \ {today} : d \in Present(files)
      BY <2>3 DEF Present
    <3> QED
      BY <3>1, <3>2, <1>1, <1>2
  <2>6. /\ g.records = <<>> => Seed(files') = <<>>
        /\ g.records # <<>> =>
             Seed(files')[Len(Seed(files'))] = g.records[Len(g.records)]
    BY <2>3, <2>5, SeedLast
  <2>7. CASE g.records = Append(f.records, level)
    <3>1. g.records # <<>> /\ g.records[Len(g.records)] = level
      <4>1. level \in Levels
        BY <1>1 DEF TypeOK
      <4> HIDE DEF f
      <4> QED BY <4>1, <2>1, <2>7, AppendProperties
    <3> QED
      BY <3>1, <2>2, <2>3, <2>4, <2>5, <2>6, <1>2, <1>3
  <2>8. CASE g.records = f.records
    <3>1. f.records # <<>> =>
            Seed(files) # <<>> /\ Seed(files)[Len(Seed(files))] = f.records[Len(f.records)]
      <4> SUFFICES ASSUME f.records # <<>>
                   PROVE  /\ Seed(files) # <<>>
                          /\ Seed(files)[Len(Seed(files))] = f.records[Len(f.records)]
        OBVIOUS
      <4>1. today \in Present(files)
        BY <1>1, <1>2 DEF Present
      <4> QED
        BY <4>1, <1>1, <1>2, SeedLast
    <3> QED
      BY <3>1, <2>8, <2>2, <2>3, <2>4, <2>5, <2>6, <1>2, <1>3
  <2> QED
    BY <2>2, <2>7, <2>8
<1> QED
  BY <1>4, <1>5 DEF Store

\* The first start finds no file.
LEMMA InitDisk == Init => DiskInv
<1> SUFFICES ASSUME Init PROVE DiskInv
  OBVIOUS
<1>1. Present(files) = {}
  BY DEF Init, Present, NoFile
<1> QED
  BY <1>1, InitIInv
  DEF Init, DiskInv, DiskCurrent, PruneKeepsSeed, TrendNeverAboveDisk, NoFile

\* Every step keeps the newest record at or above the trend's last level.
LEMMA StepDisk == DiskInv /\ [Next]_vars => DiskInv'
<1> SUFFICES ASSUME DiskInv, [Next]_vars PROVE DiskInv'
  OBVIOUS
<1>0. IInv'
  BY StepIInv DEF DiskInv
<1> SUFFICES ASSUME ~ excused', Ticks >= 2
             PROVE  DiskCurrent' /\ PruneKeepsSeed' /\ TrendNeverAboveDisk'
  BY <1>0 DEF DiskInv, DiskCurrent, PruneKeepsSeed, TrendNeverAboveDisk
<1>e. ~ excused
  BY DEF Next, Start, ListExpired, RemoveExpired, EndPrune, ReportPrunes, Classify,
         AppendAndPush, CrashInAppend, Stop, NewDay, Excuse, vars
<1>t. /\ TypeOK
      /\ \A d \in Present(files) : d <= today
      /\ \A d \in Days : files[d].tail # "unterminated"
      /\ \A d \in Days : files[d].tail = "absent" => files[d].records = <<>>
      /\ (pc \in {"collect", "append"} /\ trend = <<>>) => Seed(files) = <<>>
      /\ (pc \in {"collect", "append"} /\ trend # <<>> /\ Seed(files) # <<>>) =>
           trend[Len(trend)] <= Seed(files)[Len(Seed(files))]
      /\ pc = "opened" => Seed(files) \in {trend, <<>>}
      /\ pc = "prune" => /\ \A d \in doomed, e \in Present(files) \ doomed : d < e
                         /\ HalfPruned \/ Seed(files) \in {trend, <<>>}
  BY <1>e DEF DiskInv, DiskCurrent, PruneKeepsSeed, TrendNeverAboveDisk, IInv
<1>s. ASSUME files' = files, today' = today,
             pc' \in {"collect", "append"} => pc \in {"collect", "append"} /\ trend' = trend,
             pc' \in {"opened", "prune"} => pc' = pc /\ trend' = trend /\ doomed' = doomed
      PROVE  DiskCurrent' /\ PruneKeepsSeed' /\ TrendNeverAboveDisk'
  <2>1. Present(files') = Present(files) /\ Seed(files') = Seed(files)
    BY <1>s
  <2>2. DiskCurrent'
    BY <1>s, <1>t, <2>1 DEF DiskCurrent
  <2>3. TrendNeverAboveDisk'
    BY <1>s, <1>t, <2>1 DEF TrendNeverAboveDisk
  <2>4. PruneKeepsSeed'
    BY <1>s, <1>t, <2>1 DEF PruneKeepsSeed, HalfPruned
  <2> QED
    BY <2>2, <2>3, <2>4
<1>1. CASE Start
  <2>1. /\ trend' = Seed(files) /\ pc' = "opened"
        /\ UNCHANGED <<files, doomed, today>>
    BY <1>1 DEF Start, Excuse
  <2>2. Present(files') = Present(files) /\ Seed(files') = Seed(files)
    BY <2>1
  <2> QED
    BY <2>1, <2>2, <1>t DEF DiskCurrent, PruneKeepsSeed, TrendNeverAboveDisk
<1>l. CASE ListExpired
  <2>1. /\ doomed' = Expired(files) /\ pc = "opened" /\ pc' = "prune"
        /\ UNCHANGED <<trend, files, today>>
    BY <1>l DEF ListExpired, Excuse
  <2>2. \A d \in doomed', e \in Present(files') \ doomed' : d < e
    <3> SUFFICES ASSUME NEW d \in Expired(files), NEW e \in Present(files) \ Expired(files)
                 PROVE  d < e
      BY <2>1
    <3>1. d \in Int /\ e \in Int /\ today - Retention \in Int
      BY <1>t, BoundsAssumption DEF Expired, Present, TypeOK, Days
    <3>2. d < today - Retention /\ ~ (e < today - Retention)
      BY DEF Expired
    <3> QED
      BY <3>1, <3>2
  <2>3. Present(files') = Present(files) /\ Seed(files') = Seed(files)
    BY <2>1
  <2> QED
    BY <2>1, <2>2, <2>3, <1>t DEF DiskCurrent, PruneKeepsSeed, TrendNeverAboveDisk
<1>r. ASSUME NEW d \in Days, RemoveExpired(d) \/ ReportPrunes(d)
      PROVE  DiskCurrent' /\ PruneKeepsSeed' /\ TrendNeverAboveDisk'
  <2>1. /\ d \in Present(files) /\ files' = [files EXCEPT ![d] = NoFile]
        /\ UNCHANGED <<pc, trend, doomed, today>>
        /\ Present(files') = Present(files) \ {d}
        /\ \/ Seed(files') = Seed(files)
           \/ Seed(files') = <<>>
           \/ pc = "prune" /\ HalfPruned'
    BY <1>r, RemovalSeed
  <2>2. \A e \in Days : files'[e] = NoFile \/ files'[e] = files[e]
    BY <2>1, <1>t DEF TypeOK
  <2>3. DiskCurrent'
    <3>1. \A e \in Present(files') : e <= today'
      BY <2>1, <1>t DEF DiskCurrent
    <3>2. \A e \in Days : files'[e].tail # "unterminated"
      BY <2>2, <1>t DEF DiskCurrent, NoFile
    <3>3. \A e \in Days : files'[e].tail = "absent" => files'[e].records = <<>>
      BY <2>2, <1>t DEF DiskCurrent, NoFile
    <3>4. pc' \in {"collect", "append"} /\ trend' = <<>> => Seed(files') = <<>>
      BY <2>1, <1>t DEF DiskCurrent
    <3> QED
      BY <3>1, <3>2, <3>3, <3>4 DEF DiskCurrent
  <2>4. TrendNeverAboveDisk'
    BY <2>1, <1>t DEF TrendNeverAboveDisk
  <2>5. HalfPruned' \/ ~ HalfPruned \/ Present(files') = {}
        \/ Seed(files') # Seed(files)
    <3> SUFFICES ASSUME HalfPruned, Present(files') # {}, Seed(files') = Seed(files)
                 PROVE  HalfPruned'
      OBVIOUS
    <3>1. PICK g \in doomed \ Present(files) : LatestDay(files) < g
      BY DEF HalfPruned
    <3>2. LatestDay(files') < g
      <4>1. /\ d # LatestDay(files) => LatestDay(files') = LatestDay(files)
            /\ d = LatestDay(files) => LatestDay(files') < d
        BY <2>1, <1>t, RemoveSeed
      <4>2. LatestDay(files) \in Int /\ LatestDay(files') \in Int /\ g \in Int
        <5>1. LatestDay(files) \in Days /\ LatestDay(files') \in Days /\ g \in Days
          BY <2>1, <3>1, <1>t, LatestDayProperties DEF TypeOK
        <5> QED
          BY <5>1 DEF Days
      <4> QED
        BY <3>1, <4>1, <4>2
    <3> QED
      BY <2>1, <3>1, <3>2 DEF HalfPruned
  <2>6. ASSUME pc = "prune" PROVE HalfPruned' \/ Seed(files') \in {trend', <<>>}
    <3>1. Present(files') = {} => Seed(files') = <<>>
      BY DEF Seed
    <3> QED
      BY <2>1, <2>5, <2>6, <3>1, <1>t
  <2>7. PruneKeepsSeed'
    BY <2>1, <2>6, <1>t DEF PruneKeepsSeed
  <2> QED
    BY <2>3, <2>4, <2>7
<1>p. CASE EndPrune
  <2>1. /\ pc = "prune" /\ pc' = "collect" /\ UNCHANGED <<trend, files, today>>
        /\ doomed \cap Present(files) = {}
    BY <1>p DEF EndPrune, Excuse
  <2>2. ~ HalfPruned
    BY <2>1, <1>t, PrunedWhole
  <2>3. /\ Seed(files) \in {trend, <<>>}
        /\ Seed(files') = Seed(files) /\ Present(files') = Present(files)
    BY <2>1, <2>2, <1>t
  <2>4. DiskCurrent' /\ PruneKeepsSeed'
    BY <2>1, <2>3, <1>t DEF DiskCurrent, PruneKeepsSeed
  <2>5. trend # <<>> => trend[Len(trend)] <= trend[Len(trend)]
    <3>1. trend \in Seq(Levels)
      BY <1>t DEF TypeOK
    <3>2. trend # <<>> => trend[Len(trend)] \in Levels
      BY <3>1, LenProperties, EmptySeq, ElementOfSeq
    <3> QED
      BY <3>2 DEF Levels, NoPressure, Critical
  <2>6. TrendNeverAboveDisk'
    BY <2>1, <2>3, <2>5 DEF TrendNeverAboveDisk
  <2> QED
    BY <2>4, <2>6
<1>2. ASSUME NEW r \in Readings, NEW failed \in UnreadableSets, Classify(r, failed)
      PROVE  DiskCurrent' /\ PruneKeepsSeed' /\ TrendNeverAboveDisk'
  BY <1>2, <1>s DEF Classify
<1>3. ASSUME NEW outcome \in Outcomes, AppendAndPush(outcome)
      PROVE  DiskCurrent' /\ PruneKeepsSeed' /\ TrendNeverAboveDisk'
  <2>1. /\ pc = "append" /\ outcome # "json" /\ Store(outcome) /\ today' = today
        /\ trend' = Push(trend, level, TrendCap)
    BY <1>3 DEF AppendAndPush, Excuse
  <2>2. trend' # <<>> /\ trend'[Len(trend')] = level
    BY <2>1, <1>t, PushProperties, TicksAssumption DEF TypeOK, TrendCap
  <2>3. /\ \A d \in Present(files') : d <= today
        /\ \A d \in Days : files'[d].tail # "unterminated"
        /\ \A d \in Days : files'[d].tail = "absent" => files'[d].records = <<>>
        /\ Seed(files) # <<>> =>
             trend # <<>> /\ level <= Seed(files)[Len(Seed(files))]
        /\ Seed(files') # <<>> =>
             \/ Seed(files')[Len(Seed(files'))] = level
             \/ /\ Seed(files) # <<>>
                /\ Seed(files')[Len(Seed(files'))] = Seed(files)[Len(Seed(files))]
    BY <2>1, <1>e, StoreSeed
  <2>4. level <= level
    BY <1>t DEF TypeOK, Levels, NoPressure, Critical
  <2>5. DiskCurrent'
    BY <2>1, <2>2, <2>3 DEF DiskCurrent
  <2>6. TrendNeverAboveDisk'
    BY <2>1, <2>2, <2>3, <2>4 DEF TrendNeverAboveDisk
  <2>7. PruneKeepsSeed'
    BY <1>3 DEF AppendAndPush, PruneKeepsSeed
  <2> QED
    BY <2>5, <2>6, <2>7
<1>4. ASSUME NEW outcome \in Outcomes, CrashInAppend(outcome)
      PROVE  DiskCurrent' /\ PruneKeepsSeed' /\ TrendNeverAboveDisk'
  <2>1. /\ pc = "append" /\ outcome # "json" /\ Store(outcome) /\ today' = today
        /\ pc' = "down"
    BY <1>4 DEF CrashInAppend, Down, Excuse
  <2>2. /\ \A d \in Present(files') : d <= today
        /\ \A d \in Days : files'[d].tail # "unterminated"
        /\ \A d \in Days : files'[d].tail = "absent" => files'[d].records = <<>>
    BY <2>1, <1>e, StoreSeed
  <2> QED
    BY <2>1, <2>2 DEF DiskCurrent, PruneKeepsSeed, TrendNeverAboveDisk
<1>5. CASE Stop
  BY <1>5, <1>s DEF Stop, Down
<1>6. CASE NewDay
  <2>1. /\ today' \in Days /\ ~ (today' < today)
        /\ pc' = pc /\ trend' = trend /\ files' = files /\ doomed' = doomed
    BY <1>6 DEF NewDay, Excuse
  <2>2. \A d \in Present(files') : d <= today'
    <3> SUFFICES ASSUME NEW d \in Present(files') PROVE d <= today'
      OBVIOUS
    <3>1. d \in Int /\ today \in Int /\ today' \in Int /\ d <= today
      BY <2>1, <1>t DEF Present, Days, TypeOK
    <3> QED
      BY <3>1, <2>1
  <2>3. Seed(files') = Seed(files)
    BY <2>1
  <2>4. DiskCurrent'
    BY <2>1, <2>2, <2>3, <1>t DEF DiskCurrent
  <2>5. TrendNeverAboveDisk'
    BY <2>1, <2>3, <1>t DEF TrendNeverAboveDisk
  <2>6. PruneKeepsSeed'
    BY <2>1, <2>3, <1>t DEF PruneKeepsSeed, HalfPruned
  <2> QED
    BY <2>4, <2>5, <2>6
<1>7. CASE UNCHANGED vars
  BY <1>7, <1>s DEF vars
<1> QED
  BY <1>1, <1>l, <1>r, <1>p, <1>2, <1>3, <1>4, <1>5, <1>6, <1>7 DEF Next

\* The two invariants of the disk hold in every reachable state.
LEMMA SpecDisk == Spec => []DiskInv
<1> QED
  BY InitDisk, StepDisk, PTL DEF Spec

(***************************************************************************)
(* A crash never makes the daemon forget pressure it stood at: whatever    *)
(* writes fail or tear, whenever the process dies and whatever midnights   *)
(* pass, the newest record is at or above the trend's last level.          *)
(***************************************************************************)
THEOREM CrashForgetsNoPressure == Spec => []TrendNeverAboveDisk
<1>1. DiskInv => TrendNeverAboveDisk
  BY DEF DiskInv
<1> QED
  BY <1>1, SpecDisk, PTL

\* What a daemon goes on from is a trend.
LEMMA ResumesTyped ==
  ASSUME TypeOK
  PROVE  /\ Resumes \in Seq(Levels)
         /\ Resumes # <<>> => Resumes[Len(Resumes)] \in Levels
<1>1. Resumes \in Seq(Levels)
  BY SeedTyped DEF Resumes, TypeOK
<1> QED
  BY <1>1, LenProperties, EmptySeq, ElementOfSeq

(***************************************************************************)
(* The level the daemon goes on from only falls, on any number of days,    *)
(* whenever it is stopped, be it between two removals of a pruning, and    *)
(* short of the faults that Excuse lists.                                  *)
(***************************************************************************)
THEOREM ResumedLevelOnlyFalls == Spec => DurableLevelNeverRises
<1> DEFINE Last(q) == q[Len(q)]
<1>1. DiskInv /\ DiskInv' /\ [Next]_vars =>
        [ (Ticks >= 2 /\ ~ excused' /\ Resumes # <<>> /\ Resumes' # <<>>)
          => Resumes'[Len(Resumes')] <= Resumes[Len(Resumes)] ]_vars
  <2> SUFFICES ASSUME DiskInv, DiskInv', Next, Ticks >= 2, ~ excused',
                      Resumes # <<>>, Resumes' # <<>>
               PROVE  Last(Resumes') <= Last(Resumes)
    BY DEF vars
  <2>1. ~ excused
    BY DEF Next, Start, ListExpired, RemoveExpired, EndPrune, ReportPrunes, Classify,
           AppendAndPush, CrashInAppend, Stop, NewDay, Excuse
  <2>2. /\ TypeOK /\ TypeOK' /\ Last(Resumes) \in Levels
        /\ Last(Resumes) \in Int /\ Last(Resumes) <= Last(Resumes)
    BY ResumesTyped DEF DiskInv, IInv, Levels, NoPressure, Critical
  <2>3. SUFFICES ASSUME Resumes' # Resumes PROVE Last(Resumes') <= Last(Resumes)
    BY <2>2
  <2>4. /\ (pc \in {"collect", "append"} /\ trend = <<>>) => Seed(files) = <<>>
        /\ (pc \in {"collect", "append"} /\ trend # <<>> /\ Seed(files) # <<>>) =>
             Last(trend) <= Last(Seed(files))
        /\ pc = "opened" => Seed(files) \in {trend, <<>>}
        /\ pc = "prune" => /\ \A d \in doomed, e \in Present(files) \ doomed : d < e
                           /\ HalfPruned \/ Seed(files) \in {trend, <<>>}
    BY <2>1 DEF DiskInv, DiskCurrent, PruneKeepsSeed, TrendNeverAboveDisk
  <2>5. ASSUME NEW outcome \in Outcomes, AppendAndPush(outcome) \/ CrashInAppend(outcome)
        PROVE  Last(Resumes') <= Last(Resumes)
    <3>1. /\ pc = "append" /\ outcome # "json" /\ Store(outcome)
          /\ \/ pc' = "collect" /\ trend' = Push(trend, level, TrendCap)
             \/ pc' = "down" /\ trend' = <<>>
      BY <2>5 DEF AppendAndPush, CrashInAppend, Down, Excuse
    <3>2. /\ Seed(files) # <<>> => level <= Last(Seed(files))
          /\ Seed(files') # <<>> =>
               \/ Last(Seed(files')) = level
               \/ Seed(files) # <<>> /\ Last(Seed(files')) = Last(Seed(files))
      BY <3>1, <2>1, StoreSeed
    <3>3. level <= Last(Resumes)
      <4>1. trend # <<>> => level <= Last(trend)
        BY <3>1 DEF DiskInv, IInv, LevelBounded
      <4> QED
        BY <3>1, <3>2, <4>1 DEF Resumes
    <3>4. Last(Resumes') \in {level, Last(Resumes)}
      <4>1. CASE Seed(files') # <<>>
        BY <3>1, <3>2, <4>1 DEF Resumes
      <4>2. CASE Seed(files') = <<>>
        <5>1. trend' = Push(trend, level, TrendCap)
          BY <3>1, <4>2 DEF Resumes
        <5>2. Last(trend') = level
          BY <5>1, <2>2, PushProperties, TicksAssumption DEF TypeOK, TrendCap
        <5> QED
          BY <4>2, <5>2 DEF Resumes
      <4> QED
        BY <4>1, <4>2
    <3> QED
      BY <3>3, <3>4, <2>2
  <2>6. ASSUME NEW d \in Days, RemoveExpired(d) \/ ReportPrunes(d)
        PROVE  Last(Resumes') <= Last(Resumes)
    <3>1. /\ UNCHANGED <<pc, trend>>
          /\ \/ Seed(files') = Seed(files)
             \/ Seed(files') = <<>>
             \/ pc = "prune"
      BY <2>6, RemovalSeed
    <3>2. /\ pc \in {"collect", "append"} /\ Seed(files) # <<>>
          /\ Resumes = Seed(files) /\ Resumes' = trend /\ trend # <<>>
      BY <3>1, <2>2, <2>3 DEF Resumes, TypeOK, DiskInv, IInv, LevelBounded
    <3> QED
      BY <3>2, <2>4
  <2>7. CASE Start
    BY <2>3, <2>7 DEF Start, Excuse, Resumes
  <2>8. CASE EndPrune
    <3>1. /\ pc = "prune" /\ pc' = "collect" /\ trend' = trend /\ files' = files
      BY <2>8 DEF EndPrune
    <3>2. Seed(files) \in {trend, <<>>}
      BY <2>8, <2>2, <2>4, PrunedWhole DEF EndPrune, Excuse
    <3> QED
      BY <3>1, <3>2, <2>3 DEF Resumes
  <2>9. CASE Stop
    <3>1. /\ pc # "down" /\ pc' = "down" /\ trend' = <<>> /\ files' = files
          /\ ~ HalfPruned
      BY <2>9 DEF Stop, Down, Excuse
    <3> QED
      BY <3>1, <2>2, <2>3, <2>4 DEF Resumes, TypeOK
  <2> QED
    BY <2>3, <2>5, <2>6, <2>7, <2>8, <2>9
    DEF Next, ListExpired, Classify, NewDay, Resumes
<1> QED
  BY <1>1, SpecDisk, PTL DEF Spec, DurableLevelNeverRises
=============================================================================
