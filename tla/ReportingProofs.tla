--------------------------- MODULE ReportingProofs ---------------------------
(***************************************************************************)
(* Theorems about Reporting, for any length of day, retention time,        *)
(* windows, levels, size limit and number of records.                      *)
(***************************************************************************)
EXTENDS Reporting, SequenceTheorems, FiniteSetTheorems, WellFoundedInduction, TLAPS

\* r was collected before q: its number is smaller and its stamp is not later.
Before(r, q) == r.n < q.n /\ r.at <= q.at

InOrder(s) == \A i, j \in DOMAIN s : i < j => Before(s[i], s[j])

Filed(d) == Range(files[d].records)

\* The steps that list the directory.
Starting == \E listed \in Listings : Start(listed)
Opening == \E listed \in Listings : OpenReport(listed)
Listing == \E listed \in Listings : ListFiles(listed)

(***************************************************************************)
(* The inductive invariant, in five parts.  First, where the daemon is in  *)
(* a tick: its stamp is not ahead of the clock, the file it named is not   *)
(* over its limit, and no file has a later date than the one it named.     *)
(***************************************************************************)
InTick == daemon.pc \in {"tick", "write"}

TickSane ==
  /\ InTick => daemon.at <= now /\ appended < MaxTicks
  /\ daemon.pc = "write" =>
       /\ Day(daemon.at) <= daemon.day
       /\ daemon.day <= Day(now)
       /\ Len(files[daemon.day].records) < MaxRecords \/ files[daemon.day].records = <<>>
  /\ \A d \in Present \cup reporter.left :
       d <= Day(now) /\ (daemon.pc = "write" => d <= daemon.day)
  /\ \A d \in Days : files[d].tail = "absent" => files[d].records = <<>>

(***************************************************************************)
(* The files hold the records in the order of the ticks, across the files  *)
(* too, and all of them come before the record in progress.                *)
(***************************************************************************)
Earlier(r) ==
  /\ r.n <= appended /\ r.at <= now
  /\ InTick => r.at <= daemon.at

FilesInOrder ==
  /\ \A d \in Days : InOrder(files[d].records)
  /\ \A d \in Days : \A r \in Filed(d) : Earlier(r) /\ Day(r.at) <= d
  /\ \A d, e \in Days : d < e => \A r \in Filed(d), q \in Filed(e) : Before(r, q)

(***************************************************************************)
(* What a report has read is in order, and precedes what it has left.      *)
(***************************************************************************)
OutInOrder ==
  /\ reporter.pc \notin {"read", "print"} => reporter.out = <<>> /\ reporter.left = {}
  /\ reporter.pc = "print" => reporter.left = {}
  /\ InOrder(reporter.out)
  /\ \A r \in Range(reporter.out) : Earlier(r)
  /\ \A r \in Range(reporter.out), d \in reporter.left : \A q \in Filed(d) : Before(r, q)

(***************************************************************************)
(* A settled record is in a file until it is older than the retention      *)
(* time: prunings remove older files only, and no append cuts it off.      *)
(***************************************************************************)
Kept ==
  /\ \A d \in daemon.doomed \cup reporter.doomed : d < Day(now) - Retention
  /\ \A r \in settled : r.n <= appended
  /\ \A d \in Days : files[d].tail = "unterminated" =>
       files[d].records[Len(files[d].records)] \notin settled
  /\ \A r \in settled : Day(r.at) >= Day(now) - Retention => \E d \in Days : r \in Filed(d)

(***************************************************************************)
(* A settled record that a report owes is read already or in a file that   *)
(* it has left or could not list or read: what was appended since it       *)
(* listed the directory is in files that are not before any of those left. *)
(***************************************************************************)
Owed(r) ==
  /\ r.at >= reporter.since
  /\ Day(r.at) >= Day(now) - Retention
  /\ r.n <= reporter.upto \/ \E q \in Range(reporter.out) : r.n < q.n

NothingMissed ==
  /\ reporter.upto <= appended
  /\ \A d \in reporter.left, e \in Days : \A r \in Filed(e) : r.n > reporter.upto => d <= e
  /\ reporter.pc \in {"read", "print"} =>
       \A r \in settled : Owed(r) =>
         \/ r \in Range(reporter.out)
         \/ \E d \in reporter.left \cup reporter.lost : r \in Filed(d)

IInv == TypeOK /\ TickSane /\ FilesInOrder /\ OutInOrder /\ Kept /\ NothingMissed

-----------------------------------------------------------------------------
\* A non-empty set of natural numbers has a least element.
LEMMA LeastElement ==
  ASSUME NEW S \in SUBSET Nat, S # {}
  PROVE  \E i \in S : \A j \in S : i <= j
<1> DEFINE R == OpToRel(<, Nat)
<1>1. \A x, y \in Nat : <<x, y>> \in R <=> x < y
  BY DEF OpToRel
<1>2. IsWellFoundedOn(R, Nat)
  BY NatLessThanWellFounded
<1> HIDE DEF R
<1>3. S \subseteq Nat /\ S # {}
  OBVIOUS
<1>4. PICK i \in S : \A j \in S : ~ (<<j, i>> \in R)
  BY <1>2, <1>3, WFMin
<1>5. ASSUME NEW j \in S PROVE i <= j
  <2>1. ~ (j < i)
    BY <1>1, <1>3, <1>4
  <2> QED
    BY <2>1, <1>3
<1> QED
  BY <1>5

(***************************************************************************)
(* Induction over the natural numbers, for a set of them.                  *)
(***************************************************************************)
LEMMA NatSetInduction ==
  ASSUME NEW G \in SUBSET Nat, 0 \in G, \A k \in Nat : k \in G => k + 1 \in G
  PROVE  G = Nat
<1> DEFINE T == Nat \ G
<1>1. ASSUME T # {} PROVE FALSE
  <2>1. PICK x \in T : \A y \in T : x <= y
    BY <1>1, LeastElement
  <2>2. x \in Nat /\ x # 0 /\ x - 1 \in Nat
    OBVIOUS
  <2>3. x - 1 \notin T
    BY <2>1, <2>2
  <2>4. (x - 1) + 1 \in G
    BY <2>2, <2>3
  <2> QED
    BY <2>2, <2>4
<1> QED
  BY <1>1

(***************************************************************************)
(* The recursive function in Wanted exists, so it obeys its equation.      *)
(***************************************************************************)
KeptUpTo(s, since, K, k) ==
  /\ DOMAIN K = 0 .. k
  /\ \A i \in 0 .. k :
       K[i] = IF i = 0 THEN <<>>
              ELSE IF s[i].at >= since THEN Append(K[i - 1], s[i]) ELSE K[i - 1]

LEMMA WantedUnfolds ==
  ASSUME NEW s, NEW since, Len(s) \in Nat
  PROVE  \E K : KeptUpTo(s, since, K, Len(s)) /\ Wanted(s, since) = K[Len(s)]
<1> DEFINE Step(K, i) == IF i = 0 THEN <<>>
                         ELSE IF s[i].at >= since THEN Append(K[i - 1], s[i]) ELSE K[i - 1]
           IsKept(K, k) == K = [i \in 0 .. k |-> Step(K, i)]
           G == {k \in Nat : \E K : IsKept(K, k)}
<1>1. 0 \in G
  <2> DEFINE K0 == [i \in 0 .. 0 |-> <<>>]
  <2>1. IsKept(K0, 0)
    OBVIOUS
  <2> HIDE DEF IsKept
  <2> QED
    BY <2>1
<1>2. ASSUME NEW k \in Nat, k \in G PROVE k + 1 \in G
  <2>1. PICK K : IsKept(K, k)
    BY <1>2
  <2> DEFINE L == [i \in 0 .. k + 1 |-> IF i <= k THEN K[i] ELSE Step(K, k + 1)]
  <2>2. \A i \in 0 .. k : K[i] = Step(K, i)
    BY <2>1
  <2>3. ASSUME NEW i \in 0 .. k + 1 PROVE L[i] = Step(L, i)
    <3>1. CASE i = 0
      BY <2>2, <3>1
    <3>2. CASE i # 0
      <4>1. i - 1 \in 0 .. k
        BY <3>2
      <4>2. L[i - 1] = K[i - 1]
        BY <4>1
      <4>3. L[i] = Step(K, i)
        BY <2>2
      <4> QED
        BY <4>2, <4>3, <3>2
    <3> QED
      BY <3>1, <3>2
  <2>4. IsKept(L, k + 1)
    <3>1. L = [i \in 0 .. k + 1 |-> L[i]]
      OBVIOUS
    <3> HIDE DEF L
    <3> QED
      BY <2>3, <3>1
  <2> HIDE DEF IsKept
  <2> QED
    BY <2>4
<1>3. G = Nat
  <2> HIDE DEF G
  <2>1. G \in SUBSET Nat
    BY DEF G
  <2> QED
    BY <1>1, <1>2, <2>1, NatSetInduction
<1> DEFINE Built == CHOOSE K : IsKept(K, Len(s))
<1>4. IsKept(Built, Len(s))
  <2>1. \E K : IsKept(K, Len(s))
    BY <1>3
  <2> HIDE DEF IsKept
  <2> QED
    BY <2>1
<1>5. Wanted(s, since) = Built[Len(s)]
  BY DEF Wanted
<1>6. KeptUpTo(s, since, Built, Len(s))
  <2> HIDE DEF Built
  <2>1. DOMAIN Built = 0 .. Len(s)
    BY <1>4
  <2>2. \A i \in 0 .. Len(s) : Built[i] = Step(Built, i)
    BY <1>4
  <2> QED
    BY <2>1, <2>2 DEF KeptUpTo
<1> QED
  BY <1>5, <1>6

\* What appending an element does to a sequence, its elements and their order.
LEMMA AppendFacts ==
  ASSUME NEW S, NEW s \in Seq(S), NEW x \in S
  PROVE  /\ Append(s, x) \in Seq(S)
         /\ Append(s, x)[Len(Append(s, x))] = x
         /\ Len(Append(s, x)) = Len(s) + 1
         /\ Range(Append(s, x)) = Range(s) \cup {x}
         /\ InOrder(s) /\ (\A r \in Range(s) : Before(r, x)) => InOrder(Append(s, x))
<1> DEFINE a == Append(s, x)
<1>1. /\ a \in Seq(S)
      /\ Len(a) = Len(s) + 1
      /\ \A i \in 1 .. Len(s) : a[i] = s[i]
      /\ a[Len(s) + 1] = x
      /\ Len(s) \in Nat /\ DOMAIN s = 1 .. Len(s)
  BY AppendProperties, LenProperties
<1> HIDE DEF a
<1>2. DOMAIN a = 1 .. Len(s) + 1
  BY <1>1, LenProperties
<1>3. Range(a) = Range(s) \cup {x}
  <2>1. ASSUME NEW r \in Range(a) PROVE r \in Range(s) \cup {x}
    <3>1. PICK i \in 1 .. Len(s) + 1 : r = a[i]
      BY <1>2 DEF Range
    <3>2. i \in 1 .. Len(s) \/ i = Len(s) + 1
      BY <1>1
    <3> QED
      BY <1>1, <3>1, <3>2 DEF Range
  <2>2. ASSUME NEW r \in Range(s) \cup {x} PROVE r \in Range(a)
    <3>1. \E i \in 1 .. Len(s) + 1 : r = a[i]
      BY <1>1 DEF Range
    <3> QED
      BY <1>2, <3>1 DEF Range
  <2> QED
    BY <2>1, <2>2
<1>4. ASSUME InOrder(s), \A r \in Range(s) : Before(r, x) PROVE InOrder(a)
  <2>1. \A i \in 1 .. Len(s) : Before(s[i], x)
    BY <1>1, <1>4 DEF Range
  <2>2. \A i, j \in 1 .. Len(s) : i < j => Before(s[i], s[j])
    BY <1>1, <1>4 DEF InOrder
  <2> QED
    BY <1>1, <1>2, <2>1, <2>2 DEF InOrder
<1> QED
  BY <1>1, <1>3, <1>4 DEF a

(***************************************************************************)
(* What Wanted returns: the records of the window, all of them, in the     *)
(* order in which the file has them.                                       *)
(***************************************************************************)
LEMMA WantedProperties ==
  ASSUME NEW s \in Seq(Records), NEW since
  PROVE  /\ Wanted(s, since) \in Seq(Records)
         /\ Range(Wanted(s, since)) = {r \in Range(s) : r.at >= since}
         /\ InOrder(s) => InOrder(Wanted(s, since))
<1> DEFINE n == Len(s)
<1>1. n \in Nat /\ DOMAIN s = 1 .. n /\ \A i \in 1 .. n : s[i] \in Records
  BY LenProperties, ElementOfSeq
<1>2. PICK K : KeptUpTo(s, since, K, n) /\ Wanted(s, since) = K[n]
  BY <1>1, WantedUnfolds
<1> HIDE DEF n
<1> DEFINE From(k) == {s[i] : i \in {j \in 1 .. k : s[j].at >= since}}
           Good(k) == /\ K[k] \in Seq(Records)
                      /\ Range(K[k]) = From(k)
                      /\ InOrder(s) => InOrder(K[k])
           G == {k \in Nat : k <= n => Good(k)}
<1>3. 0 \in G
  <2>1. K[0] = <<>>
    BY <1>1, <1>2 DEF KeptUpTo
  <2>2. <<>> \in Seq(Records) /\ DOMAIN <<>> = 1 .. 0 /\ Range(<<>>) = {}
    <3>1. <<>> \in Seq(Records) /\ Len(<<>>) = 0
      BY EmptySeq
    <3>2. DOMAIN <<>> = 1 .. 0
      BY <3>1, LenProperties
    <3> QED
      BY <3>1, <3>2 DEF Range
  <2>3. From(0) = {}
    OBVIOUS
  <2>4. InOrder(<<>>)
    BY <2>2 DEF InOrder
  <2> QED
    BY <2>1, <2>2, <2>3, <2>4
<1>4. ASSUME NEW k \in Nat, k \in G PROVE k + 1 \in G
  <2> SUFFICES ASSUME k + 1 <= n PROVE Good(k + 1)
    OBVIOUS
  <2>1. Good(k)
    BY <1>1, <1>4
  <2>2. K[k + 1] = IF s[k + 1].at >= since THEN Append(K[k], s[k + 1]) ELSE K[k]
    <3>1. k + 1 \in 0 .. n /\ k + 1 # 0 /\ (k + 1) - 1 = k
      BY <1>1
    <3> QED
      BY <3>1, <1>2 DEF KeptUpTo
  <2>3. CASE ~ (s[k + 1].at >= since)
    <3>1. From(k + 1) = From(k)
      BY <2>3
    <3> QED
      BY <2>1, <2>2, <2>3, <3>1
  <2>4. CASE s[k + 1].at >= since
    <3> DEFINE t == K[k]
               r == s[k + 1]
    <3>1. k + 1 \in 1 .. n /\ r \in Records
      BY <1>1
    <3>2. K[k + 1] = Append(t, r)
      BY <2>2, <2>4
    <3>3. t \in Seq(Records) /\ Range(t) = From(k) /\ (InOrder(s) => InOrder(t))
      BY <2>1
    <3>4. From(k + 1) = From(k) \cup {r}
      BY <2>4
    <3>5. InOrder(s) => \A q \in From(k) : Before(q, r)
      BY <3>1, <1>1 DEF InOrder
    <3> HIDE DEF From, t, r
    <3>6. /\ Append(t, r) \in Seq(Records)
          /\ Range(Append(t, r)) = Range(t) \cup {r}
          /\ InOrder(s) => InOrder(Append(t, r))
      BY <3>1, <3>3, <3>5, AppendFacts
    <3> QED
      BY <3>2, <3>3, <3>4, <3>6 DEF From
  <2> QED
    BY <2>3, <2>4
<1>5. G = Nat
  <2> HIDE DEF G
  <2>1. G \in SUBSET Nat
    BY DEF G
  <2> QED
    BY <1>3, <1>4, <2>1, NatSetInduction
<1>6. Good(n)
  <2>1. \A k \in Nat : k \in G
    BY <1>5
  <2>2. \A k \in Nat : k <= n => Good(k)
    BY <2>1
  <2>3. n <= n
    BY <1>1
  <2> HIDE DEF Good
  <2> QED
    BY <2>2, <2>3, <1>1
<1>7. From(n) = {r \in Range(s) : r.at >= since}
  BY <1>1 DEF Range
<1> QED
  BY <1>2, <1>6, <1>7

(***************************************************************************)
(* What one append makes of a file: no record is lost but one whose line   *)
(* had no newline, and a file of ordered records stays one.                *)
(***************************************************************************)
LEMMA WrittenProperties ==
  ASSUME NEW R, NEW f \in FileOf(R), NEW l \in R, NEW outcome \in Outcomes,
         NEW g, g = Written(f, l, outcome)
  PROVE  /\ g \in FileOf(R)
         /\ Len(g.records) <= Len(f.records) + 1
         /\ Range(g.records) \subseteq Range(f.records) \cup {l}
         /\ \A r \in Range(f.records) :
              \/ r \in Range(g.records)
              \/ f.tail = "unterminated" /\ r = f.records[Len(f.records)]
         /\ g.tail = "unterminated" => g = f \/ g.records[Len(g.records)] = l
         /\ g.tail = "absent" => g = f
         /\ InOrder(f.records) /\ (\A r \in Range(f.records) : Before(r, l))
              => InOrder(g.records)
<1> DEFINE s == f.records
           m == Len(s) - 1
           cut == SubSeq(s, 1, m)
<1>1. s \in Seq(R) /\ f.tail \in Tails /\ Len(s) \in Nat /\ DOMAIN s = 1 .. Len(s)
  BY LenProperties DEF FileOf
<1>2. f.tail = "unterminated" => Len(s) \in Nat \ {0}
  BY <1>1, EmptySeq DEF FileOf
<1>3. \/ g = f
      \/ g.records = s /\ g.tail \in {"clean", "broken"}
      \/ g.records = Append(s, l) /\ g.tail \in {"clean", "unterminated"}
      \/ g.records = cut /\ g.tail \in {"clean", "broken"} /\ f.tail = "unterminated"
  BY <1>1 DEF Written, Tails, Outcomes
<1>4. g = [records |-> g.records, tail |-> g.tail]
  BY DEF Written, FileOf
<1>5. CASE g = f
  BY <1>1, <1>5
<1>6. CASE g.records = s /\ g.tail \in {"clean", "broken"}
  BY <1>1, <1>4, <1>6 DEF FileOf, Tails
<1>7. CASE g.records = Append(s, l) /\ g.tail \in {"clean", "unterminated"}
  <2> HIDE DEF s
  <2>1. /\ g.records \in Seq(R) /\ g.records # <<>>
        /\ g.records[Len(g.records)] = l
        /\ Len(g.records) = Len(s) + 1
        /\ Range(g.records) = Range(s) \cup {l}
        /\ InOrder(s) /\ (\A r \in Range(s) : Before(r, l)) => InOrder(g.records)
    BY <1>1, <1>7, AppendFacts, AppendProperties
  <2>2. g \in FileOf(R)
    BY <1>4, <1>7, <2>1 DEF FileOf, Tails
  <2> QED
    BY <2>1, <2>2, <1>1, <1>7 DEF s
<1>8. CASE g.records = cut /\ g.tail \in {"clean", "broken"} /\ f.tail = "unterminated"
  <2>1. m \in Nat /\ m + 1 = Len(s) /\ m - 1 + 1 = m
    BY <1>2, <1>8
  <2> HIDE DEF s, m
  <2>2. /\ cut \in Seq(R) /\ Len(cut) = m
        /\ \A i \in 1 .. m : cut[i] = s[i]
    <3>1. \A i \in 1 .. m : s[i] \in R
      BY <1>1, <2>1, ElementOfSeq
    <3>2. /\ cut \in Seq(R)
          /\ Len(cut) = IF 1 <= m THEN m - 1 + 1 ELSE 0
          /\ \A i \in 1 .. m - 1 + 1 : cut[i] = s[1 + i - 1]
      BY <2>1, <3>1, SubSeqProperties
    <3> QED
      BY <2>1, <3>2
  <2> HIDE DEF cut
  <2>3. DOMAIN cut = 1 .. m
    BY <2>2, LenProperties
  <2>4. Range(cut) \subseteq Range(s)
    BY <1>1, <2>1, <2>2, <2>3 DEF Range
  <2>5. \A r \in Range(s) : r \in Range(cut) \/ r = s[Len(s)]
    <3>1. \A i \in 1 .. Len(s) : i \in 1 .. m \/ i = Len(s)
      BY <2>1
    <3> QED
      BY <1>1, <2>2, <2>3, <3>1 DEF Range
  <2>6. InOrder(s) => InOrder(cut)
    BY <1>1, <2>1, <2>2, <2>3 DEF InOrder
  <2>7. g \in FileOf(R)
    BY <1>4, <1>8, <2>2 DEF FileOf, Tails
  <2>8. Len(cut) <= Len(s) + 1
    BY <2>1, <2>2
  <2> QED
    BY <1>8, <2>4, <2>5, <2>6, <2>7, <2>8 DEF s
<1> QED
  BY <1>3, <1>5, <1>6, <1>7, <1>8

-----------------------------------------------------------------------------
\* Later clock readings have later days.
LEMMA DayMonotone ==
  /\ \A t \in Int : Day(t) \in Int
  /\ \A t, u \in Int : t <= u => Day(t) <= Day(u)
<1>1. PerDay \in Nat /\ PerDay > 0
  BY ReportingAssumption
<1>2. \A t \in Int : /\ Day(t) \in Int
                     /\ PerDay * Day(t) <= t
                     /\ t < PerDay * Day(t) + PerDay
  BY <1>1 DEF Day
<1>3. \A a, b \in Int : b < a => PerDay * b + PerDay <= PerDay * a
  <2>1. \A k \in Nat : 0 <= PerDay * k
    BY <1>1
  <2>2. ASSUME NEW a \in Int, NEW b \in Int, b < a
        PROVE  PerDay * b + PerDay <= PerDay * a
    <3>1. a - b - 1 \in Nat
      BY <2>2
    <3>2. PerDay * (a - b - 1) = PerDay * a - PerDay * b - PerDay
      BY <1>1
    <3>3. 0 <= PerDay * (a - b - 1)
      BY <2>1, <3>1
    <3>4. PerDay * a \in Int /\ PerDay * b \in Int
      BY <1>1
    <3> QED
      BY <3>2, <3>3, <3>4, <1>1
  <2> QED
    BY <2>2
<1>4. ASSUME NEW t \in Int, NEW u \in Int, t <= u, Day(u) < Day(t) PROVE FALSE
  <2>1. PerDay * Day(u) + PerDay <= PerDay * Day(t)
    BY <1>2, <1>3, <1>4
  <2>2. PerDay * Day(u) \in Int /\ PerDay * Day(t) \in Int
    BY <1>1, <1>2
  <2>3. u < PerDay * Day(u) + PerDay /\ PerDay * Day(t) <= t
    BY <1>2
  <2> QED
    BY <2>1, <2>2, <2>3, <1>4, <1>1
<1>5. ASSUME NEW t \in Int, NEW u \in Int, t <= u PROVE Day(t) <= Day(u)
  <2>1. ~ (Day(u) < Day(t))
    BY <1>4, <1>5
  <2> QED
    BY <1>2, <2>1
<1> QED
  BY <1>2, <1>5

\* The clock's readings fall into the days.
LEMMA DayOfTime == \A t \in Times : t \in Int /\ t \in Nat /\ Day(t) \in Days
<1> DEFINE last == (LastDay + 1) * PerDay - 1
<1>1. PerDay \in Nat /\ PerDay > 0 /\ LastDay \in Nat
  BY ReportingAssumption
<1>2. last \in Int /\ Times = 0 .. last
  BY <1>1 DEF Times
<1>3. Day(0) = 0 /\ Day(last) = LastDay
  <2>1. Day(0) = 0
    BY <1>1 DEF Day
  <2>2. last = PerDay * LastDay + (PerDay - 1)
    BY <1>1
  <2>3. \A q, r \in Nat : r < PerDay => (PerDay * q + r) \div PerDay = q
    BY <1>1
  <2>4. PerDay - 1 \in Nat /\ PerDay - 1 < PerDay
    BY <1>1
  <2> QED
    BY <2>1, <2>2, <2>3, <2>4, <1>1 DEF Day
<1> HIDE DEF last
<1>4. ASSUME NEW t \in Times PROVE Day(t) \in Days
  <2>1. t \in Int /\ 0 <= t /\ t <= last
    BY <1>2
  <2>2. Day(t) \in Int /\ Day(0) <= Day(t) /\ Day(t) <= Day(last)
    BY <2>1, <1>2, DayMonotone
  <2> QED
    BY <2>2, <1>1, <1>3 DEF Days
<1> QED
  BY <1>2, <1>4

\* The file read next is the earliest of those left.
LEMMA NextFileLeast ==
  ASSUME NEW left \in SUBSET Days, left # {}
  PROVE  NextFile(left) \in left /\ \A e \in left : NextFile(left) <= e
<1>1. left \in SUBSET Nat
  BY ReportingAssumption DEF Days
<1>2. \E d \in left : \A e \in left : d <= e
  BY <1>1, LeastElement
<1> QED
  BY <1>2 DEF NextFile

-----------------------------------------------------------------------------
\* An empty store and two processes that have not begun satisfy the invariant.
LEMMA InitIInv == Init => IInv
<1> SUFFICES ASSUME Init PROVE IInv
  OBVIOUS
<1>1. /\ <<>> \in Seq(Records) /\ Len(<<>>) = 0
      /\ DOMAIN <<>> = {} /\ Range(<<>>) = {}
  <2>1. <<>> \in Seq(Records) /\ Len(<<>>) = 0
    BY EmptySeq
  <2>2. DOMAIN <<>> = {}
    BY <2>1, LenProperties
  <2> QED
    BY <2>1, <2>2 DEF Range
<1>2. NoFile \in FileOf(Records)
  BY <1>1 DEF NoFile, FileOf, Tails
<1>3. 0 \in Times /\ 0 \in Days /\ 0 \in Int
  <2>1. PerDay \in Nat /\ PerDay > 0 /\ LastDay \in Nat
    BY ReportingAssumption
  <2>2. (LastDay + 1) * PerDay >= 1
    BY <2>1
  <2> QED
    BY <2>1, <2>2 DEF Times, Days
<1>4. TypeOK
  BY <1>1, <1>2, <1>3, ReportingAssumption DEF Init, TypeOK, Down, NoReport, NoFile
<1>5. InOrder(<<>>)
  BY <1>1 DEF InOrder
<1>6. \A d \in Days : files[d] = NoFile /\ Filed(d) = {}
  BY <1>1 DEF Init, Filed, NoFile
<1>7. TickSane /\ FilesInOrder /\ OutInOrder
  BY <1>1, <1>5, <1>6
     DEF Init, TickSane, FilesInOrder, OutInOrder, Present, InTick, Down, NoReport, NoFile
<1>8. Kept /\ NothingMissed
  BY <1>1, <1>6 DEF Init, Kept, NothingMissed, Down, NoReport, NoFile
<1> QED
  BY <1>4, <1>7, <1>8 DEF IInv

\* Every step of the daemon, of a report and of time keeps the shape.
LEMMA StepTypeOK == TypeOK /\ TickSane /\ [Next]_vars => TypeOK'
<1> SUFFICES ASSUME TypeOK, TickSane, [Next]_vars PROVE TypeOK'
  OBVIOUS
<1> USE DEF TypeOK
<1>0. /\ <<>> \in Seq(Records) /\ Len(<<>>) = 0
      /\ NoFile \in FileOf(Records) /\ NoFile.records = <<>>
      /\ 0 \in Times /\ 0 \in Days /\ 0 \in 0 .. MaxTicks
      /\ MaxRecords \in Nat
  <2>1. PerDay \in Nat /\ PerDay > 0 /\ LastDay \in Nat /\ MaxRecords \in Nat /\ MaxTicks \in Nat
    BY ReportingAssumption
  <2>2. <<>> \in Seq(Records) /\ Len(<<>>) = 0
    BY EmptySeq
  <2>3. 0 \in Times
    <3>1. (LastDay + 1) * PerDay >= 1
      BY <2>1
    <3> QED
      BY <2>1, <3>1 DEF Times
  <2> QED
    BY <2>1, <2>2, <2>3 DEF Days, NoFile, FileOf, Tails
<1>a. /\ Day(now) \in Days /\ Present \subseteq Days
      /\ \A listed \in Listings : listed \subseteq Days /\ Expired(listed) \subseteq Days
  BY DayOfTime DEF Expired, Present, Listings
<1> DEFINE DaemonType ==
             [pc : {"down", "prune", "tick", "write", "sleep"},
              doomed : SUBSET Days, at : Times, day : Days]
           ReporterType ==
             [pc : {"done", "prune", "list", "read", "print"},
              doomed : SUBSET Days, since : Int, left : SUBSET Days,
              out : Seq(Records), upto : 0 .. MaxTicks, lost : SUBSET Days]
<1>b. Down \in DaemonType /\ NoReport \in ReporterType
  BY <1>0 DEF Down, NoReport
<1>1. CASE Starting
  <2>1. PICK listed \in Listings : Start(listed)
    BY <1>1 DEF Starting
  <2>2. Expired(listed) \in SUBSET Days
    BY <1>a, <2>1
  <2>3. daemon' \in DaemonType
    BY <1>b, <2>1, <2>2 DEF Start
  <2> QED
    BY <2>1, <2>3 DEF Start
<1>2. CASE Opening
  <2>1. PICK listed \in Listings : OpenReport(listed)
    BY <1>2 DEF Opening
  <2>2. Expired(listed) \in SUBSET Days
    BY <1>a, <2>1
  <2>3. reporter' \in ReporterType
    BY <1>b, <2>1, <2>2 DEF OpenReport
  <2> QED
    BY <2>1, <2>3 DEF OpenReport
<1>3. ASSUME NEW d \in Days, NEW gone \in BOOLEAN,
             DaemonPrunes(d, gone) \/ ReportPrunes(d, gone)
      PROVE  TypeOK'
  <2>1. files' \in [Days -> FileOf(Records)]
    BY <1>0, <1>3 DEF DaemonPrunes, ReportPrunes, Removed
  <2>2. \A e \in Days : files'[e] = files[e] \/ files'[e].records = <<>>
    BY <1>0, <1>3 DEF DaemonPrunes, ReportPrunes, Removed
  <2>3. \A e \in Days : Len(files'[e].records) <= IF MaxRecords = 0 THEN 1 ELSE MaxRecords
    BY <1>0, <2>2
  <2>4. /\ UNCHANGED <<now, appended, settled>>
        /\ daemon' = [daemon EXCEPT !.doomed = daemon.doomed \ {d}] \/ daemon' = daemon
        /\ \/ reporter' = [reporter EXCEPT !.doomed = reporter.doomed \ {d}]
           \/ reporter' = reporter
    BY <1>3 DEF DaemonPrunes, ReportPrunes
  <2>5. daemon.doomed \ {d} \in SUBSET Days /\ reporter.doomed \ {d} \in SUBSET Days
    OBVIOUS
  <2>6. daemon' \in DaemonType
    BY <2>4, <2>5
  <2>7. reporter' \in ReporterType
    BY <2>4, <2>5
  <2> QED
    BY <2>1, <2>3, <2>4, <2>6, <2>7
<1>4. CASE Collect
  BY <1>4 DEF Collect
<1>5. CASE NameFile
  BY <1>0, <1>5, <1>a DEF NameFile, Asleep, Down
<1>6. ASSUME NEW outcome \in Outcomes, NEW dies \in BOOLEAN, Write(outcome, dies)
      PROVE  TypeOK'
  <2> DEFINE D == daemon.day
             r == [n |-> appended + 1, at |-> daemon.at]
             f == files[D]
             g == Written(f, r, outcome)
  <2>1. D \in Days /\ f \in FileOf(Records) /\ daemon.pc = "write"
    BY <1>6 DEF Write
  <2>2. appended + 1 \in 1 .. MaxTicks
    BY <2>1, ReportingAssumption DEF TickSane, InTick
  <2>3. r \in Records
    BY <2>2 DEF Records
  <2>4. Len(f.records) < MaxRecords \/ f.records = <<>>
    BY <2>1 DEF TickSane
  <2>5. /\ files' = [files EXCEPT ![D] = g]
        /\ settled' = settled \/ settled' = settled \cup {r}
        /\ appended' = appended + 1
        /\ daemon' = Down \/ daemon' = Asleep
        /\ UNCHANGED <<now, reporter>>
    BY <1>6 DEF Write
  <2> HIDE DEF D, r, f, g
  <2>6. g \in FileOf(Records) /\ Len(g.records) <= Len(f.records) + 1
    BY <2>1, <2>3, WrittenProperties DEF g
  <2>7. Len(g.records) \in Nat /\ Len(f.records) \in Nat
    BY <2>1, <2>6, LenProperties DEF FileOf
  <2>8. Len(g.records) <= IF MaxRecords = 0 THEN 1 ELSE MaxRecords
    BY <1>0, <2>4, <2>6, <2>7
  <2>9. files' \in [Days -> FileOf(Records)]
    BY <2>1, <2>5, <2>6
  <2>10. \A e \in Days : Len(files'[e].records) <= IF MaxRecords = 0 THEN 1 ELSE MaxRecords
    BY <2>5, <2>8
  <2>11. daemon' \in [pc : {"down", "prune", "tick", "write", "sleep"},
                       doomed : SUBSET Days, at : Times, day : Days]
    BY <1>0, <2>5 DEF Down, Asleep
  <2> QED
    BY <2>2, <2>3, <2>5, <2>9, <2>10, <2>11, ReportingAssumption
<1>7. CASE Stop
  BY <1>0, <1>7 DEF Stop, Down
<1>8. ASSUME NEW days \in Windows, BeginWindow(days) PROVE TypeOK'
  <2>1. now - days * PerDay \in Int
    <3>1. now \in Int /\ days \in Int /\ PerDay \in Int
      BY DayOfTime, ReportingAssumption
    <3> QED
      BY <3>1
  <2> QED
    BY <1>8, <2>1 DEF BeginWindow
<1>9. CASE Listing
  <2>1. PICK listed \in Listings : ListFiles(listed)
    BY <1>9 DEF Listing
  <2> DEFINE Wants(S) == {d \in S : InWindow(d, reporter.since)}
  <2>2. Wants(listed) \in SUBSET Days /\ Wants(Present \ listed) \in SUBSET Days
    BY <1>a
  <2>3. /\ UNCHANGED <<now, files, daemon, appended, settled>>
        /\ reporter' = [reporter EXCEPT !.pc = "read", !.upto = appended,
                                        !.left = Wants(listed),
                                        !.lost = Wants(Present \ listed)]
    BY <2>1 DEF ListFiles
  <2> HIDE DEF Wants
  <2> QED
    BY <2>2, <2>3
<1>10. ASSUME NEW readable \in BOOLEAN, ReadFile(readable) PROVE TypeOK'
  <2> DEFINE d == NextFile(reporter.left)
             w == Wanted(files[d].records, reporter.since)
  <2>1. d \in Days
    BY <1>10, NextFileLeast DEF ReadFile
  <2>2. files[d].records \in Seq(Records)
    BY <2>1 DEF FileOf
  <2>3. w \in Seq(Records)
    BY <2>2, WantedProperties
  <2>4. reporter.out \o w \in Seq(Records)
    BY <2>3, ConcatProperties
  <2>5. /\ UNCHANGED <<now, files, daemon, appended, settled>>
        /\ reporter' = [reporter EXCEPT !.left = @ \ {d},
                                        !.out = IF readable THEN @ \o w ELSE @,
                                        !.lost = IF readable THEN @ ELSE @ \cup {d}]
    BY <1>10 DEF ReadFile
  <2> HIDE DEF d, w
  <2> QED
    BY <2>1, <2>4, <2>5
<1>11. CASE Summarise
  BY <1>11 DEF Summarise
<1>12. CASE EndReport
  BY <1>0, <1>12 DEF EndReport, NoReport
<1>13. CASE Elapse
  BY <1>13 DEF Elapse
<1>14. CASE UNCHANGED vars
  BY <1>14 DEF vars
<1> QED
  BY <1>1, <1>2, <1>3, <1>4, <1>5, <1>6, <1>7, <1>8, <1>9, <1>10, <1>11, <1>12, <1>13, <1>14
     DEF Next, Starting, Opening, Listing

-----------------------------------------------------------------------------
(***************************************************************************)
(* What the two steps that touch the files do to them, in the terms of the *)
(* invariant.  A pruning empties one expired file.                         *)
(***************************************************************************)
LEMMA PruneEffect ==
  ASSUME TypeOK, NEW d \in Days, NEW gone \in BOOLEAN,
         DaemonPrunes(d, gone) \/ ReportPrunes(d, gone)
  PROVE  /\ d \in daemon.doomed \cup reporter.doomed
         /\ \A e \in Days : \/ files'[e] = files[e]
                            \/ e = d /\ files'[e] = NoFile
         /\ \A e \in Days : Filed(e)' \subseteq Filed(e)
         /\ Present' \subseteq Present
         /\ UNCHANGED <<now, appended, settled>>
         /\ UNCHANGED <<daemon.pc, daemon.at, daemon.day>>
         /\ daemon.doomed' \subseteq daemon.doomed
         /\ UNCHANGED <<reporter.pc, reporter.since, reporter.left, reporter.out>>
         /\ UNCHANGED <<reporter.upto, reporter.lost>>
         /\ reporter.doomed' \subseteq reporter.doomed
<1>1. /\ d \in daemon.doomed \cup reporter.doomed
      /\ files' = files \/ files' = [files EXCEPT ![d] = NoFile]
      /\ UNCHANGED <<now, appended, settled>>
      /\ daemon' = [daemon EXCEPT !.doomed = @ \ {d}] \/ daemon' = daemon
      /\ reporter' = [reporter EXCEPT !.doomed = @ \ {d}] \/ reporter' = reporter
  BY DEF DaemonPrunes, ReportPrunes, Removed
<1>2. \A e \in Days : files'[e] = files[e] \/ (e = d /\ files'[e] = NoFile)
  <2>1. files \in [Days -> FileOf(Records)]
    BY DEF TypeOK
  <2> QED
    BY <1>1, <2>1
<1>3. Range(NoFile.records) = {} /\ NoFile.tail = "absent"
  <2>1. <<>> \in Seq(Records) /\ Len(<<>>) = 0
    BY EmptySeq
  <2>2. DOMAIN <<>> = 1 .. 0
    BY <2>1, LenProperties
  <2> QED
    BY <2>2 DEF Range, NoFile
<1>4. \A e \in Days : Filed(e)' \subseteq Filed(e)
  BY <1>2, <1>3 DEF Filed
<1>5. Present' \subseteq Present
  BY <1>2, <1>3 DEF Present
<1>6. /\ UNCHANGED <<daemon.pc, daemon.at, daemon.day>>
      /\ daemon.doomed' \subseteq daemon.doomed
  BY <1>1 DEF TypeOK
<1>7. /\ UNCHANGED <<reporter.pc, reporter.since, reporter.left, reporter.out>>
      /\ UNCHANGED <<reporter.upto, reporter.lost>>
      /\ reporter.doomed' \subseteq reporter.doomed
  BY <1>1 DEF TypeOK
<1> QED
  BY <1>1, <1>2, <1>4, <1>5, <1>6, <1>7

(***************************************************************************)
(* A write changes the file D it named, where it loses no settled record,  *)
(* by at most the one record r.                                            *)
(***************************************************************************)
LEMMA WriteEffect ==
  ASSUME TypeOK, TickSane, NEW outcome \in Outcomes, NEW dies \in BOOLEAN,
         Write(outcome, dies),
         NEW D, D = daemon.day,
         NEW r, r = [n |-> appended + 1, at |-> daemon.at]
  PROVE  /\ daemon.pc = "write" /\ D \in Days
         /\ UNCHANGED <<now, reporter>>
         /\ appended' = appended + 1
         /\ daemon' = Down \/ daemon' = Asleep
         /\ r \in Records /\ r.n = appended + 1 /\ r.at = daemon.at
         /\ \A e \in Days : e # D => files'[e] = files[e] /\ Filed(e)' = Filed(e)
         /\ Filed(D)' \subseteq Filed(D) \cup {r}
         /\ \A q \in Filed(D) :
              \/ q \in Filed(D)'
              \/ /\ files[D].tail = "unterminated"
                 /\ q = files[D].records[Len(files[D].records)]
         /\ files'[D].tail = "absent" => files'[D] = files[D]
         /\ files'[D].tail = "unterminated" =>
              \/ files'[D] = files[D]
              \/ files'[D].records[Len(files'[D].records)] = r
         /\ InOrder(files[D].records) /\ (\A q \in Filed(D) : Before(q, r))
              => InOrder(files'[D].records)
         /\ \/ settled' = settled
            \/ /\ settled' = settled \cup {r} /\ r \in Filed(D)'
               /\ files'[D].tail = "clean"
<1> DEFINE f == files[D]
           g == Written(f, r, outcome)
<1>1. D \in Days /\ f \in FileOf(Records) /\ daemon.pc = "write"
  BY DEF Write, TypeOK
<1>2. r \in Records /\ r.n = appended + 1 /\ r.at = daemon.at
  <2>1. appended + 1 \in 1 .. MaxTicks
    BY <1>1, ReportingAssumption DEF TickSane, InTick, TypeOK
  <2> QED
    BY <2>1 DEF Records, TypeOK
<1>3. /\ files' = [files EXCEPT ![D] = g]
      /\ \/ settled' = settled
         \/ settled' = settled \cup {r} /\ g.tail = "clean" /\ r \in Range(g.records)
      /\ appended' = appended + 1
      /\ daemon' = Down \/ daemon' = Asleep
      /\ UNCHANGED <<now, reporter>>
  BY DEF Write
<1>4. files'[D] = g /\ \A e \in Days : e # D => files'[e] = files[e]
  <2> HIDE DEF g
  <2>1. files \in [Days -> FileOf(Records)]
    BY DEF TypeOK
  <2> QED
    BY <1>1, <1>3, <2>1
<1> HIDE DEF g
<1>5. /\ Range(g.records) \subseteq Range(f.records) \cup {r}
      /\ \A q \in Range(f.records) :
           \/ q \in Range(g.records)
           \/ f.tail = "unterminated" /\ q = f.records[Len(f.records)]
      /\ g.tail = "unterminated" => g = f \/ g.records[Len(g.records)] = r
      /\ g.tail = "absent" => g = f
      /\ InOrder(f.records) /\ (\A q \in Range(f.records) : Before(q, r))
           => InOrder(g.records)
  <2> HIDE DEF f
  <2>1. g = Written(f, r, outcome)
    BY DEF g
  <2>2. f \in FileOf(Records) /\ r \in Records
    BY <1>1, <1>2
  <2>3. Range(g.records) \subseteq Range(f.records) \cup {r}
    BY <2>1, <2>2, WrittenProperties
  <2>4. \A q \in Range(f.records) :
           \/ q \in Range(g.records)
           \/ f.tail = "unterminated" /\ q = f.records[Len(f.records)]
    BY <2>1, <2>2, WrittenProperties
  <2>5. g.tail = "unterminated" => g = f \/ g.records[Len(g.records)] = r
    BY <2>1, <2>2, WrittenProperties
  <2>6. g.tail = "absent" => g = f
    BY <2>1, <2>2, WrittenProperties
  <2>7. InOrder(f.records) /\ (\A q \in Range(f.records) : Before(q, r))
           => InOrder(g.records)
    BY <2>1, <2>2, WrittenProperties
  <2> QED
    BY <2>3, <2>4, <2>5, <2>6, <2>7
<1>6. Filed(D) = Range(f.records) /\ Filed(D)' = Range(g.records)
  BY <1>4 DEF Filed
<1>7. \A e \in Days : e # D => Filed(e)' = Filed(e)
  BY <1>4 DEF Filed
<1> QED
  BY <1>1, <1>2, <1>3, <1>4, <1>5, <1>6, <1>7

-----------------------------------------------------------------------------
(***************************************************************************)
(* A tick names the file of a day that no other file is past, and midnight *)
(* can only fall after that.                                               *)
(***************************************************************************)
LEMMA StepTickSane == TypeOK /\ TickSane /\ [Next]_vars => TickSane'
<1> SUFFICES ASSUME TypeOK, TickSane, [Next]_vars PROVE TickSane'
  OBVIOUS
<1> USE DEF TickSane, InTick
<1>0. /\ now \in Int /\ daemon.at \in Int /\ Day(now) \in Int /\ daemon.day \in Int
      /\ Days \subseteq Int /\ Day(now) \in Days
  <2>1. now \in Times /\ daemon.at \in Times /\ daemon.day \in Days
    BY DEF TypeOK
  <2>2. Days \subseteq Int
    BY ReportingAssumption DEF Days
  <2>3. now \in Int /\ daemon.at \in Int /\ daemon.day \in Int
    BY <2>1, <2>2, DayOfTime
  <2>4. Day(now) \in Days
    BY <2>1, DayOfTime
  <2> QED
    BY <2>2, <2>3, <2>4
<1>1. CASE Starting
  BY <1>1 DEF Starting, Start, Down, Present
<1>2. CASE Opening
  BY <1>2 DEF Opening, OpenReport, NoReport, Present
<1>3. ASSUME NEW d \in Days, NEW gone \in BOOLEAN,
             DaemonPrunes(d, gone) \/ ReportPrunes(d, gone)
      PROVE  TickSane'
  <2>1. /\ UNCHANGED <<now, appended, daemon.pc, daemon.at, daemon.day, reporter.left>>
        /\ Present' \subseteq Present
        /\ \A e \in Days : files'[e] = files[e] \/ (e = d /\ files'[e] = NoFile)
    BY <1>3, PruneEffect
  <2>2. \A e \in Days : files'[e] = files[e] \/ files'[e].records = <<>>
    BY <2>1 DEF NoFile
  <2>3. daemon.day \in Days
    BY DEF TypeOK
  <2>4. \A t \in {now, daemon.at} : Day(t)' = Day(t)
    BY <2>1 DEF Day
  <2> QED
    BY <2>1, <2>2, <2>3 DEF Day
<1>4. CASE Collect
  <2>1. /\ daemon'.pc = "tick" /\ daemon'.at = now /\ appended < MaxTicks
        /\ UNCHANGED <<now, files, reporter, appended>>
    BY <1>4 DEF Collect, TypeOK
  <2>2. Present' = Present
    BY <2>1 DEF Present
  <2> QED
    BY <2>1, <2>2, <1>0
<1>5. CASE NameFile
  <2>1. UNCHANGED <<now, files, reporter, appended>> /\ Present' = Present
    BY <1>5 DEF NameFile, Present
  <2>2. CASE daemon' = Asleep
    BY <2>1, <2>2 DEF Asleep, Down
  <2>3. CASE daemon' # Asleep
    <3> DEFINE today == Day(now)
    <3>1. /\ daemon' = [daemon EXCEPT !.pc = "write", !.day = today]
          /\ ~ (today \in Present /\ Len(files[today].records) >= MaxRecords)
          /\ daemon.pc = "tick"
      BY <1>5, <2>3 DEF NameFile
    <3>2. daemon'.pc = "write" /\ daemon'.day = today /\ daemon'.at = daemon.at
      BY <3>1 DEF TypeOK
    <3>3. today \in Days /\ Len(files[today].records) \in Nat
      BY <1>0, LenProperties DEF TypeOK, FileOf
    <3>4. Len(files[today].records) < MaxRecords \/ files[today].records = <<>>
      BY <3>1, <3>3, ReportingAssumption DEF Present
    <3>5. Day(daemon.at) <= today
      BY <3>1, <1>0, DayMonotone
    <3> HIDE DEF today
    <3> QED
      BY <1>0, <2>1, <3>1, <3>2, <3>4, <3>5 DEF today
  <2> QED
    BY <2>2, <2>3
<1>6. ASSUME NEW outcome \in Outcomes, NEW dies \in BOOLEAN, Write(outcome, dies)
      PROVE  TickSane'
  <2>1. PICK D : D = daemon.day
    OBVIOUS
  <2>2. PICK r : r = [n |-> appended + 1, at |-> daemon.at]
    OBVIOUS
  <2>3. /\ daemon.pc = "write" /\ D \in Days
        /\ UNCHANGED <<now, reporter>>
        /\ daemon' = Down \/ daemon' = Asleep
        /\ \A e \in Days : e # D => files'[e] = files[e]
        /\ files'[D].tail = "absent" => files'[D] = files[D]
    BY <1>6, <2>1, <2>2, WriteEffect
  <2>4. Present' \subseteq Present \cup {D}
    BY <2>3 DEF Present
  <2>5. daemon'.pc \notin {"tick", "write"}
    BY <2>3 DEF Down, Asleep
  <2>6. D <= Day(now)
    BY <2>1, <2>3
  <2> QED
    BY <2>3, <2>4, <2>5, <2>6
<1>7. CASE Stop
  BY <1>7 DEF Stop, Down, Present
<1>8. ASSUME NEW days \in Windows, BeginWindow(days) PROVE TickSane'
  <2>1. UNCHANGED <<now, files, daemon, appended, reporter.left>>
    BY <1>8 DEF BeginWindow, TypeOK
  <2> QED
    BY <2>1 DEF Present
<1>9. CASE Listing
  <2>1. UNCHANGED <<now, files, daemon, appended>> /\ reporter.left' \subseteq Present
    BY <1>9 DEF Listing, Listings, ListFiles, TypeOK
  <2> QED
    BY <2>1 DEF Present
<1>10. ASSUME NEW readable \in BOOLEAN, ReadFile(readable) PROVE TickSane'
  <2>1. UNCHANGED <<now, files, daemon, appended>> /\ reporter.left' \subseteq reporter.left
    BY <1>10 DEF ReadFile, TypeOK
  <2> QED
    BY <2>1 DEF Present
<1>11. CASE Summarise
  <2>1. UNCHANGED <<now, files, daemon, appended, reporter.left>>
    BY <1>11 DEF Summarise, TypeOK
  <2> QED
    BY <2>1 DEF Present
<1>12. CASE EndReport
  BY <1>12 DEF EndReport, NoReport, Present
<1>13. CASE Elapse
  <2>1. now' = now + 1 /\ UNCHANGED <<files, daemon, reporter, appended>>
    BY <1>13 DEF Elapse
  <2>2. Day(now) <= Day(now') /\ Day(now') \in Int
    BY <2>1, <1>0, DayMonotone
  <2>3. Present' = Present /\ Day(daemon.at)' = Day(daemon.at) /\ Day(now)' = Day(now')
    BY <2>1 DEF Present, Day
  <2>4. \A d \in Present \cup reporter.left : d \in Int
    BY <1>0 DEF Present, TypeOK
  <2>5. /\ \A d \in Present' \cup reporter'.left :
             d <= Day(now') /\ (daemon'.pc = "write" => d <= daemon'.day)
        /\ InTick' => daemon'.at <= now' /\ appended' < MaxTicks
        /\ daemon'.pc = "write" => daemon'.day <= Day(now')
    BY <2>1, <2>2, <2>3, <2>4, <1>0
  <2> QED
    BY <2>1, <2>3, <2>5
<1>14. CASE UNCHANGED vars
  BY <1>14 DEF vars, Present
<1> QED
  BY <1>1, <1>2, <1>3, <1>4, <1>5, <1>6, <1>7, <1>8, <1>9, <1>10, <1>11, <1>12, <1>13, <1>14
     DEF Next, Starting, Opening, Listing

-----------------------------------------------------------------------------
\* The marks of a record, and the records of the state.
LEMMA RecordTypes ==
  /\ \A r \in Records : r.n \in Int /\ r.at \in Int /\ Day(r.at) \in Int
  /\ TypeOK => /\ \A d \in Days : Filed(d) \subseteq Records
               /\ Range(reporter.out) \subseteq Records
               /\ settled \subseteq Records
<1>1. ASSUME NEW r \in Records PROVE r.n \in Int /\ r.at \in Int /\ Day(r.at) \in Int
  <2>1. r.n \in 1 .. MaxTicks /\ r.at \in Times
    BY DEF Records
  <2>2. r.at \in Int
    BY <2>1, DayOfTime
  <2> QED
    BY <2>1, <2>2, DayMonotone, ReportingAssumption
<1>2. ASSUME TypeOK
      PROVE  /\ \A d \in Days : Filed(d) \subseteq Records
             /\ Range(reporter.out) \subseteq Records
             /\ settled \subseteq Records
  <2>1. ASSUME NEW d \in Days PROVE Filed(d) \subseteq Records
    <3>1. files[d].records \in Seq(Records)
      BY <1>2 DEF TypeOK, FileOf
    <3> QED
      BY <3>1, RangeOfSeq DEF Filed
  <2>2. reporter.out \in Seq(Records) /\ settled \subseteq Records
    BY <1>2 DEF TypeOK
  <2>3. Range(reporter.out) \subseteq Records
    BY <2>2, RangeOfSeq
  <2> QED
    BY <2>1, <2>2, <2>3
<1> QED
  BY <1>1, <1>2

\* A file that is not there holds nothing.
LEMMA FiledPresent == TickSane => \A d \in Days : Filed(d) # {} => d \in Present
<1> SUFFICES ASSUME TickSane, NEW d \in Days, Filed(d) # {} PROVE d \in Present
  OBVIOUS
<1>1. Range(<<>>) = {}
  <2>1. <<>> \in Seq({}) /\ Len(<<>>) = 0
    BY EmptySeq
  <2>2. DOMAIN <<>> = 1 .. 0
    BY <2>1, LenProperties
  <2> QED
    BY <2>2 DEF Range
<1>2. files[d].tail = "absent" => Filed(d) = {}
  BY <1>1 DEF TickSane, Filed
<1> QED
  BY <1>2 DEF Present

(***************************************************************************)
(* Every other step leaves the files alone: the clock does not go back,    *)
(* and a tick keeps the stamp it has or begins with the clock's.           *)
(***************************************************************************)
Quiet ==
  /\ UNCHANGED <<files, appended, settled>>
  /\ now' = now \/ (now' = now + 1 /\ UNCHANGED <<daemon, reporter>>)
  /\ InTick' => \/ InTick /\ daemon'.at = daemon.at
                \/ daemon'.at = now

Pruning == \E d \in Days, gone \in BOOLEAN : DaemonPrunes(d, gone) \/ ReportPrunes(d, gone)

Writing == \E outcome \in Outcomes, dies \in BOOLEAN : Write(outcome, dies)

LEMMA QuietOrNot == TypeOK /\ [Next]_vars => Pruning \/ Writing \/ Quiet
<1> SUFFICES ASSUME TypeOK, [Next]_vars, ~ Pruning, ~ Writing PROVE Quiet
  OBVIOUS
<1> USE DEF Quiet, InTick
<1>1. CASE Starting
  BY <1>1 DEF Starting, Start, Down
<1>2. CASE Opening
  BY <1>2 DEF Opening, OpenReport
<1>3. CASE Collect
  BY <1>3 DEF Collect, TypeOK
<1>4. CASE NameFile
  BY <1>4 DEF NameFile, Asleep, Down, TypeOK
<1>5. CASE Stop
  BY <1>5 DEF Stop, Down
<1>6. ASSUME NEW days \in Windows, BeginWindow(days) PROVE Quiet
  BY <1>6 DEF BeginWindow
<1>7. CASE Listing
  BY <1>7 DEF Listing, ListFiles
<1>8. ASSUME NEW readable \in BOOLEAN, ReadFile(readable) PROVE Quiet
  BY <1>8 DEF ReadFile
<1>9. CASE Summarise
  BY <1>9 DEF Summarise
<1>10. CASE EndReport
  BY <1>10 DEF EndReport
<1>11. CASE Elapse
  BY <1>11 DEF Elapse
<1>12. CASE UNCHANGED vars
  BY <1>12 DEF vars
<1> QED
  BY <1>1, <1>2, <1>3, <1>4, <1>5, <1>6, <1>7, <1>8, <1>9, <1>10, <1>11, <1>12
     DEF Next, Pruning, Writing, Starting, Opening, Listing

-----------------------------------------------------------------------------
(***************************************************************************)
(* The record in progress comes after all that is filed, so appending it   *)
(* to a file that no other is past keeps the order.                        *)
(***************************************************************************)
LEMMA NewestRecord ==
  ASSUME TypeOK, TickSane, FilesInOrder, daemon.pc = "write",
         NEW r \in Records, r.n = appended + 1, r.at = daemon.at
  PROVE  /\ \A d \in Days : \A q \in Filed(d) : Before(q, r) /\ d <= daemon.day
         /\ r.at <= now /\ Day(r.at) <= daemon.day
<1>1. InTick /\ appended \in Int
  BY ReportingAssumption DEF InTick, TypeOK
<1>2. ASSUME NEW d \in Days, NEW q \in Filed(d) PROVE Before(q, r) /\ d <= daemon.day
  <2>1. q.n <= appended /\ q.at <= daemon.at /\ q.n \in Int
    BY <1>1, <1>2, RecordTypes DEF FilesInOrder, Earlier
  <2>2. d \in Present
    BY FiledPresent
  <2> QED
    BY <1>1, <2>1, <2>2 DEF Before, TickSane
<1> QED
  BY <1>1, <1>2 DEF TickSane

LEMMA StepFilesInOrder == TypeOK /\ TickSane /\ FilesInOrder /\ [Next]_vars => FilesInOrder'
<1> SUFFICES ASSUME TypeOK, TickSane, FilesInOrder, [Next]_vars PROVE FilesInOrder'
  OBVIOUS
<1>0. now \in Int /\ appended \in Int /\ \A d \in Days : d \in Int
  <2>1. now \in Times /\ appended \in 0 .. MaxTicks
    BY DEF TypeOK
  <2> QED
    BY <2>1, DayOfTime, ReportingAssumption DEF Days
<1>1. CASE Pruning
  <2>1. PICK d \in Days, gone \in BOOLEAN : DaemonPrunes(d, gone) \/ ReportPrunes(d, gone)
    BY <1>1 DEF Pruning
  <2>2. /\ UNCHANGED <<now, appended, daemon.pc, daemon.at>>
        /\ \A e \in Days : Filed(e)' \subseteq Filed(e)
        /\ \A e \in Days : files'[e] = files[e] \/ (e = d /\ files'[e] = NoFile)
    BY <2>1, PruneEffect
  <2>3. InOrder(<<>>)
    <3>1. <<>> \in Seq({}) /\ Len(<<>>) = 0
      BY EmptySeq
    <3>2. DOMAIN <<>> = 1 .. 0
      BY <3>1, LenProperties
    <3> QED
      BY <3>2 DEF InOrder
  <2>4. \A e \in Days : InOrder(files'[e].records)
    BY <2>2, <2>3 DEF NoFile, FilesInOrder
  <2>5. \A r : Earlier(r) => Earlier(r)'
    BY <2>2 DEF Earlier, InTick
  <2>6. \A e \in Days : \A r \in Filed(e)' : Earlier(r)' /\ Day(r.at) <= e
    BY <2>2, <2>5 DEF FilesInOrder
  <2>7. \A b, e \in Days : b < e => \A r \in Filed(b)', q \in Filed(e)' : Before(r, q)
    BY <2>2 DEF FilesInOrder
  <2> QED
    BY <2>4, <2>6, <2>7 DEF FilesInOrder
<1>2. CASE Writing
  <2>1. PICK outcome \in Outcomes, dies \in BOOLEAN : Write(outcome, dies)
    BY <1>2 DEF Writing
  <2>2. PICK D : D = daemon.day
    OBVIOUS
  <2>3. PICK r : r = [n |-> appended + 1, at |-> daemon.at]
    OBVIOUS
  <2>4. /\ daemon.pc = "write" /\ D \in Days
        /\ now' = now /\ appended' = appended + 1
        /\ daemon' = Down \/ daemon' = Asleep
        /\ r \in Records /\ r.n = appended + 1 /\ r.at = daemon.at
        /\ \A e \in Days : e # D => files'[e] = files[e] /\ Filed(e)' = Filed(e)
        /\ Filed(D)' \subseteq Filed(D) \cup {r}
    BY <2>1, <2>2, <2>3, WriteEffect
  <2>5. InOrder(files[D].records) /\ (\A q \in Filed(D) : Before(q, r))
              => InOrder(files'[D].records)
    BY <2>1, <2>2, <2>3, WriteEffect
  <2>6. /\ \A d \in Days : \A q \in Filed(d) : Before(q, r) /\ d <= D
        /\ r.at <= now /\ Day(r.at) <= D
    BY <2>2, <2>4, NewestRecord
  <2>7. ~ InTick'
    BY <2>4 DEF InTick, Down, Asleep
  <2>8. \A e \in Days : InOrder(files'[e].records)
    BY <2>4, <2>5, <2>6 DEF FilesInOrder
  <2>9. \A e \in Days : \A q \in Filed(e)' : q \in Filed(e) \/ (e = D /\ q = r)
    BY <2>4
  <2>10. \A e \in Days : \A q \in Filed(e) : Earlier(q)' /\ Day(q.at) <= e
    BY <1>0, <2>4, <2>7, RecordTypes DEF FilesInOrder, Earlier
  <2>11. Earlier(r)'
    BY <1>0, <2>4, <2>6, <2>7 DEF Earlier
  <2>12. ASSUME NEW b \in Days, NEW e \in Days, b < e,
                NEW p \in Filed(b)', NEW q \in Filed(e)'
         PROVE  Before(p, q)
    <3>1. CASE p \in Filed(b) /\ q \in Filed(e)
      BY <2>12, <3>1 DEF FilesInOrder
    <3>2. CASE p \in Filed(b) /\ q = r
      BY <2>6, <3>2
    <3>3. CASE p \notin Filed(b)
      <4>1. b = D /\ q \in Filed(e)
        BY <1>0, <2>9, <2>12, <3>3
      <4> QED
        BY <1>0, <2>6, <2>12, <4>1
    <3> QED
      BY <2>9, <3>1, <3>2, <3>3
  <2>13. \A e \in Days : \A q \in Filed(e)' : Earlier(q)' /\ Day(q.at) <= e
    BY <2>6, <2>9, <2>10, <2>11
  <2> QED
    BY <2>8, <2>12, <2>13 DEF FilesInOrder
<1>3. CASE Quiet
  <2>1. \A d : Filed(d)' = Filed(d)
    BY <1>3 DEF Quiet, Filed
  <2>2. \A r \in Records : Earlier(r) => Earlier(r)'
    BY <1>0, <1>3, RecordTypes DEF Quiet, Earlier
  <2>3. \A d \in Days : \A r \in Filed(d) : Earlier(r)'
    BY <2>2, RecordTypes DEF FilesInOrder
  <2> QED
    BY <1>3, <2>1, <2>3 DEF FilesInOrder, Quiet
<1> QED
  BY <1>1, <1>2, <1>3, QuietOrNot

-----------------------------------------------------------------------------
\* Two ordered sequences, one after the other.
LEMMA ConcatInOrder ==
  ASSUME NEW S, NEW s \in Seq(S), NEW t \in Seq(S), InOrder(s), InOrder(t),
         \A r \in Range(s), q \in Range(t) : Before(r, q)
  PROVE  InOrder(s \o t)
<1> DEFINE m == Len(s)
           n == Len(t)
           c == s \o t
<1>1. /\ m \in Nat /\ DOMAIN s = 1 .. m
      /\ n \in Nat /\ DOMAIN t = 1 .. n
  BY LenProperties
<1>2. /\ c \in Seq(S) /\ Len(c) = m + n
      /\ \A i \in 1 .. m + n : c[i] = IF i <= m THEN s[i] ELSE t[i - m]
  BY ConcatProperties
<1>3. DOMAIN c = 1 .. m + n
  BY <1>2, LenProperties
<1> HIDE DEF m, n, c
<1>4. ASSUME NEW i \in 1 .. m + n, NEW j \in 1 .. m + n, i < j PROVE Before(c[i], c[j])
  <2>1. CASE j <= m
    <3>1. i \in 1 .. m /\ j \in 1 .. m /\ c[i] = s[i] /\ c[j] = s[j]
      BY <1>1, <1>2, <1>4, <2>1
    <3> QED
      BY <1>1, <1>4, <3>1 DEF InOrder
  <2>2. CASE m < i
    <3>1. /\ i - m \in 1 .. n /\ j - m \in 1 .. n /\ i - m < j - m
          /\ c[i] = t[i - m] /\ c[j] = t[j - m]
      BY <1>1, <1>2, <1>4, <2>2
    <3> QED
      BY <1>1, <3>1 DEF InOrder
  <2>3. CASE i <= m /\ m < j
    <3>1. i \in 1 .. m /\ j - m \in 1 .. n /\ c[i] = s[i] /\ c[j] = t[j - m]
      BY <1>1, <1>2, <1>4, <2>3
    <3>2. s[i] \in Range(s) /\ t[j - m] \in Range(t)
      BY <1>1, <3>1 DEF Range
    <3> QED
      BY <3>1, <3>2
  <2> QED
    BY <1>1, <1>4, <2>1, <2>2, <2>3
<1> QED
  BY <1>3, <1>4 DEF InOrder, c

(***************************************************************************)
(* What a report gains from a file: its records of the window, after all   *)
(* that it has.                                                            *)
(***************************************************************************)
LEMMA ReadEffect ==
  ASSUME TypeOK, FilesInOrder, OutInOrder, NEW readable \in BOOLEAN, ReadFile(readable),
         NEW d, d = NextFile(reporter.left)
  PROVE  /\ d \in reporter.left /\ d \in Days /\ \A e \in reporter.left : d <= e
         /\ UNCHANGED <<now, files, daemon, appended, settled>>
         /\ UNCHANGED <<reporter.pc, reporter.since, reporter.upto, reporter.doomed>>
         /\ reporter.pc = "read"
         /\ reporter'.left = reporter.left \ {d}
         /\ reporter'.lost = IF readable THEN reporter.lost ELSE reporter.lost \cup {d}
         /\ Range(reporter'.out) =
              IF readable THEN Range(reporter.out) \cup {r \in Filed(d) : r.at >= reporter.since}
              ELSE Range(reporter.out)
         /\ InOrder(reporter'.out)
<1> DEFINE s == files[d].records
           w == Wanted(s, reporter.since)
<1>1. reporter.left \in SUBSET Days /\ reporter.left # {} /\ reporter.pc = "read"
  BY DEF ReadFile, TypeOK
<1>2. d \in reporter.left /\ d \in Days /\ \A e \in reporter.left : d <= e
  BY <1>1, NextFileLeast
<1>3. /\ UNCHANGED <<now, files, daemon, appended, settled>>
      /\ reporter' = [reporter EXCEPT !.left = @ \ {d},
                                      !.out = IF readable THEN @ \o w ELSE @,
                                      !.lost = IF readable THEN @ ELSE @ \cup {d}]
  BY DEF ReadFile
<1> HIDE DEF w
<1>4. /\ UNCHANGED <<reporter.pc, reporter.since, reporter.upto, reporter.doomed>>
      /\ reporter'.left = reporter.left \ {d}
      /\ reporter'.lost = IF readable THEN reporter.lost ELSE reporter.lost \cup {d}
      /\ reporter'.out = IF readable THEN reporter.out \o w ELSE reporter.out
  BY <1>3 DEF TypeOK
<1>5. s \in Seq(Records) /\ InOrder(s) /\ Filed(d) = Range(s)
  BY <1>2 DEF TypeOK, FileOf, FilesInOrder, Filed
<1> HIDE DEF s
<1>6. /\ w \in Seq(Records) /\ InOrder(w)
      /\ Range(w) = {r \in Filed(d) : r.at >= reporter.since}
  BY <1>5, WantedProperties DEF w
<1>7. reporter.out \in Seq(Records) /\ InOrder(reporter.out)
  BY DEF TypeOK, OutInOrder
<1>8. \A r \in Range(reporter.out), q \in Range(w) : Before(r, q)
  BY <1>2, <1>6 DEF OutInOrder
<1>9. InOrder(reporter.out \o w)
  BY <1>6, <1>7, <1>8, ConcatInOrder
<1>10. Range(reporter.out \o w) = Range(reporter.out) \cup Range(w)
  BY <1>6, <1>7, RangeConcatenation
<1>11. InOrder(reporter'.out)
  BY <1>4, <1>7, <1>9
<1>12. Range(reporter'.out) =
         IF readable THEN Range(reporter.out) \cup {r \in Filed(d) : r.at >= reporter.since}
         ELSE Range(reporter.out)
  BY <1>4, <1>6, <1>10
<1> QED
  BY <1>1, <1>2, <1>3, <1>4, <1>11, <1>12

(***************************************************************************)
(* The files are read in the order of their dates, which is that of the    *)
(* records, and what is appended meanwhile comes last.                     *)
(***************************************************************************)
LEMMA StepOutInOrder ==
  TypeOK /\ TickSane /\ FilesInOrder /\ OutInOrder /\ [Next]_vars => OutInOrder'
<1> SUFFICES ASSUME TypeOK, TickSane, FilesInOrder, OutInOrder, [Next]_vars PROVE OutInOrder'
  OBVIOUS
<1>0. /\ now \in Int /\ appended \in Int /\ \A d \in Days : d \in Int
      /\ reporter.left \subseteq Days
  <2>1. now \in Times /\ appended \in 0 .. MaxTicks /\ reporter.left \subseteq Days
    BY DEF TypeOK
  <2> QED
    BY <2>1, DayOfTime, ReportingAssumption DEF Days
<1>a. InOrder(<<>>) /\ Range(<<>>) = {}
  <2>1. <<>> \in Seq({}) /\ Len(<<>>) = 0
    BY EmptySeq
  <2>2. DOMAIN <<>> = 1 .. 0
    BY <2>1, LenProperties
  <2> QED
    BY <2>2 DEF InOrder, Range
<1>1. CASE Pruning
  <2>1. PICK d \in Days, gone \in BOOLEAN : DaemonPrunes(d, gone) \/ ReportPrunes(d, gone)
    BY <1>1 DEF Pruning
  <2>2. /\ UNCHANGED <<now, appended, daemon.pc, daemon.at>>
        /\ UNCHANGED <<reporter.pc, reporter.out, reporter.left>>
        /\ \A e \in Days : Filed(e)' \subseteq Filed(e)
    BY <2>1, PruneEffect
  <2>3. \A r : Earlier(r) => Earlier(r)'
    BY <2>2 DEF Earlier, InTick
  <2> QED
    BY <1>0, <2>2, <2>3 DEF OutInOrder
<1>2. CASE Writing
  <2>1. PICK outcome \in Outcomes, dies \in BOOLEAN : Write(outcome, dies)
    BY <1>2 DEF Writing
  <2>2. PICK D : D = daemon.day
    OBVIOUS
  <2>3. PICK r : r = [n |-> appended + 1, at |-> daemon.at]
    OBVIOUS
  <2>4. /\ daemon.pc = "write" /\ D \in Days
        /\ UNCHANGED <<now, reporter>> /\ appended' = appended + 1
        /\ daemon' = Down \/ daemon' = Asleep
        /\ r \in Records /\ r.n = appended + 1 /\ r.at = daemon.at
        /\ \A e \in Days : e # D => Filed(e)' = Filed(e)
        /\ Filed(D)' \subseteq Filed(D) \cup {r}
    BY <2>1, <2>2, <2>3, WriteEffect
  <2>5. ~ InTick' /\ InTick
    BY <2>4 DEF InTick, Down, Asleep
  <2>6. ASSUME NEW q \in Range(reporter.out)
        PROVE  Earlier(q)' /\ Before(q, r)
    <3>1. q.n <= appended /\ q.at <= now /\ q.at <= daemon.at /\ q.n \in Int
      BY <2>5, <2>6, RecordTypes DEF OutInOrder, Earlier
    <3> QED
      BY <1>0, <2>4, <2>5, <3>1 DEF Earlier, Before
  <2>7. \A e \in reporter.left : \A q \in Filed(e)' : q \in Filed(e) \/ q = r
    BY <1>0, <2>4
  <2> QED
    BY <2>4, <2>6, <2>7 DEF OutInOrder
<1>3. CASE Quiet
  <2>1. \A d : Filed(d)' = Filed(d)
    BY <1>3 DEF Quiet, Filed
  <2>2. \A r \in Records : Earlier(r) => Earlier(r)'
    BY <1>0, <1>3, RecordTypes DEF Quiet, Earlier
  <2>3. /\ \A r \in Range(reporter.out) : Earlier(r)'
        /\ \A d \in Days : \A r \in Filed(d) : Earlier(r)'
    BY <2>2, RecordTypes DEF FilesInOrder, OutInOrder
  <2>4. CASE UNCHANGED reporter
    BY <2>1, <2>3, <2>4 DEF OutInOrder
  <2>5. CASE Opening
    <3>1. reporter'.pc = "prune" /\ reporter'.out = <<>> /\ reporter'.left = {}
      BY <2>5 DEF Opening, OpenReport, NoReport
    <3> QED
      BY <1>a, <3>1 DEF OutInOrder
  <2>6. ASSUME NEW days \in Windows, BeginWindow(days) PROVE OutInOrder'
    <3>1. /\ reporter'.pc = "list" /\ reporter.pc = "prune"
          /\ UNCHANGED <<reporter.out, reporter.left>>
      BY <2>6 DEF BeginWindow, TypeOK
    <3> QED
      BY <2>1, <2>3, <3>1 DEF OutInOrder
  <2>7. CASE Listing
    <3>1. reporter'.pc = "read" /\ reporter.pc = "list" /\ reporter'.out = reporter.out
      BY <2>7 DEF Listing, ListFiles, TypeOK
    <3>2. reporter'.out = <<>>
      BY <3>1 DEF OutInOrder
    <3> QED
      BY <1>a, <3>1, <3>2 DEF OutInOrder
  <2>8. ASSUME NEW readable \in BOOLEAN, ReadFile(readable) PROVE OutInOrder'
    <3>1. PICK d : d = NextFile(reporter.left)
      OBVIOUS
    <3>2. /\ d \in reporter.left /\ d \in Days /\ \A e \in reporter.left : d <= e
          /\ reporter.pc = "read" /\ reporter'.pc = "read"
          /\ reporter'.left = reporter.left \ {d}
          /\ InOrder(reporter'.out)
      BY <2>8, <3>1, ReadEffect
    <3>3. Range(reporter'.out) \subseteq Range(reporter.out) \cup Filed(d)
      BY <2>8, <3>1, ReadEffect
    <3>4. \A e \in reporter'.left : d < e
      BY <1>0, <3>2
    <3>5. \A r \in Range(reporter'.out), e \in reporter'.left :
            \A q \in Filed(e)' : Before(r, q)
      BY <1>0, <2>1, <3>2, <3>3, <3>4 DEF OutInOrder, FilesInOrder
    <3>6. \A r \in Range(reporter'.out) : Earlier(r)'
      BY <2>3, <3>2, <3>3
    <3> QED
      BY <3>2, <3>5, <3>6 DEF OutInOrder
  <2>9. CASE Summarise
    <3>1. /\ reporter'.pc = "print" /\ reporter.left = {}
          /\ UNCHANGED <<reporter.out, reporter.left>>
      BY <2>9 DEF Summarise, TypeOK
    <3> QED
      BY <2>3, <3>1 DEF OutInOrder
  <2>10. CASE EndReport
    <3>1. reporter'.pc = "done" /\ reporter'.out = <<>> /\ reporter'.left = {}
      BY <2>10 DEF EndReport, NoReport
    <3> QED
      BY <1>a, <3>1 DEF OutInOrder
  <2> QED
    BY <1>1, <1>2, <2>4, <2>5, <2>6, <2>7, <2>8, <2>9, <2>10
       DEF Next, Pruning, Writing, Starting, Opening, Listing, Start, Collect, NameFile, Stop,
           Elapse, vars
<1> QED
  BY <1>1, <1>2, <1>3, QuietOrNot

-----------------------------------------------------------------------------
(***************************************************************************)
(* A pruning takes no settled record that is within the retention time:    *)
(* the file of a record is not before the day of its stamp.                *)
(***************************************************************************)
LEMMA PruneSpares ==
  ASSUME TypeOK, FilesInOrder, Kept, NEW d \in Days, NEW gone \in BOOLEAN,
         DaemonPrunes(d, gone) \/ ReportPrunes(d, gone),
         NEW r \in settled, Day(r.at) >= Day(now) - Retention,
         NEW e \in Days, r \in Filed(e)
  PROVE  r \in Filed(e)'
<1>1. /\ d \in daemon.doomed \cup reporter.doomed
      /\ files'[e] = files[e] \/ e = d
  BY PruneEffect
<1>2. Day(r.at) <= e /\ Day(r.at) \in Int /\ e \in Int
  BY RecordTypes, ReportingAssumption DEF FilesInOrder, Days
<1>3. Day(now) \in Int /\ Retention \in Int
  <2>1. now \in Int
    BY DayOfTime DEF TypeOK
  <2> QED
    BY <2>1, DayMonotone, ReportingAssumption
<1>4. e # d
  BY <1>1, <1>2, <1>3 DEF Kept
<1> QED
  BY <1>1, <1>4 DEF Filed

\* The days of the clock readings before and after a step.
LEMMA LaterDay ==
  ASSUME TypeOK, now' = now \/ now' = now + 1
  PROVE  /\ Day(now) \in Int /\ Day(now') \in Int /\ Day(now) <= Day(now')
         /\ Retention \in Int /\ appended \in Int
         /\ \A d \in Days : d \in Int
<1>1. now \in Int
  BY DayOfTime DEF TypeOK
<1>2. now' \in Int /\ now <= now'
  BY <1>1
<1>3. appended \in Int /\ \A d \in Days : d \in Int
  BY ReportingAssumption DEF TypeOK, Days
<1> QED
  BY <1>1, <1>2, <1>3, DayMonotone, ReportingAssumption

(***************************************************************************)
(* Settled records stay: what is listed for removal was expired when it    *)
(* was listed and is now, and an append costs the file nothing but a last  *)
(* line that was not settled.                                              *)
(***************************************************************************)
LEMMA StepKept == TypeOK /\ TickSane /\ FilesInOrder /\ Kept /\ [Next]_vars => Kept'
<1> SUFFICES ASSUME TypeOK, TickSane, FilesInOrder, Kept, [Next]_vars PROVE Kept'
  OBVIOUS
<1>1. CASE Pruning
  <2>1. PICK d \in Days, gone \in BOOLEAN : DaemonPrunes(d, gone) \/ ReportPrunes(d, gone)
    BY <1>1 DEF Pruning
  <2>2. /\ UNCHANGED <<now, appended, settled>>
        /\ daemon.doomed' \subseteq daemon.doomed
        /\ reporter.doomed' \subseteq reporter.doomed
        /\ \A e \in Days : files'[e] = files[e] \/ (e = d /\ files'[e] = NoFile)
    BY <2>1, PruneEffect
  <2>3. \A e \in Days : files'[e].tail = "unterminated" => files'[e] = files[e]
    BY <2>2 DEF NoFile
  <2>4. \A r \in settled : Day(r.at) >= Day(now) - Retention =>
          \E e \in Days : r \in Filed(e)'
    BY <2>1, PruneSpares DEF Kept
  <2>5. Day(now)' = Day(now)
    BY <2>2 DEF Day
  <2> QED
    BY <2>2, <2>3, <2>4, <2>5 DEF Kept
<1>2. CASE Writing
  <2>1. PICK outcome \in Outcomes, dies \in BOOLEAN : Write(outcome, dies)
    BY <1>2 DEF Writing
  <2>2. PICK D : D = daemon.day
    OBVIOUS
  <2>3. PICK r : r = [n |-> appended + 1, at |-> daemon.at]
    OBVIOUS
  <2>4. /\ daemon.pc = "write" /\ D \in Days
        /\ UNCHANGED <<now, reporter>> /\ appended' = appended + 1
        /\ daemon' = Down \/ daemon' = Asleep
        /\ r \in Records /\ r.n = appended + 1
        /\ \A e \in Days : e # D => files'[e] = files[e] /\ Filed(e)' = Filed(e)
    BY <2>1, <2>2, <2>3, WriteEffect
  <2>5. /\ \A q \in Filed(D) :
              \/ q \in Filed(D)'
              \/ /\ files[D].tail = "unterminated"
                 /\ q = files[D].records[Len(files[D].records)]
        /\ files'[D].tail = "unterminated" =>
              \/ files'[D] = files[D]
              \/ files'[D].records[Len(files'[D].records)] = r
    BY <2>1, <2>2, <2>3, WriteEffect
  <2>6. \/ settled' = settled
        \/ /\ settled' = settled \cup {r} /\ r \in Filed(D)'
           /\ files'[D].tail = "clean"
    BY <2>1, <2>2, <2>3, WriteEffect
  <2>7. /\ Day(now)' = Day(now) /\ Day(now) \in Int /\ appended \in Int
        /\ \A q \in settled : q.n \in Int
    BY <2>4, LaterDay, RecordTypes DEF Day
  <2>8. r \notin settled
    BY <2>4, <2>7 DEF Kept
  <2>9. \A q \in settled' : q.n <= appended'
    BY <2>4, <2>6, <2>7 DEF Kept
  <2>10. \A e \in Days : files'[e].tail = "unterminated" =>
           files'[e].records[Len(files'[e].records)] \notin settled'
    <3>1. ASSUME NEW e \in Days, e # D, files'[e].tail = "unterminated"
          PROVE  files'[e].records[Len(files'[e].records)] \notin settled'
      <4> DEFINE last == files[e].records[Len(files[e].records)]
      <4>1. files'[e] = files[e] /\ last \notin settled
        BY <2>4, <3>1 DEF Kept
      <4>2. last # r \/ settled' = settled
        <5>1. ASSUME last = r PROVE FALSE
          <6>1. files[e] \in FileOf(Records) /\ files[e].tail = "unterminated"
            BY <3>1, <4>1 DEF TypeOK
          <6>2. files[e].records \in Seq(Records) /\ files[e].records # <<>>
            BY <6>1 DEF FileOf
          <6>3. Len(files[e].records) \in DOMAIN files[e].records
            BY <6>2, EmptySeq, LenProperties
          <6>4. r \in Filed(e)
            BY <5>1, <6>3 DEF Filed, Range
          <6>5. r.n <= appended
            BY <6>4 DEF FilesInOrder, Earlier
          <6> QED
            BY <2>4, <2>7, <6>5
        <5> QED
          BY <5>1
      <4> QED
        BY <2>6, <4>1, <4>2
    <3>2. ASSUME files'[D].tail = "unterminated"
          PROVE  files'[D].records[Len(files'[D].records)] \notin settled'
      <4>1. settled' = settled
        BY <2>6, <3>2
      <4> QED
        BY <2>4, <2>5, <2>8, <3>2, <4>1 DEF Kept
    <3> QED
      BY <3>1, <3>2
  <2>11. ASSUME NEW q \in settled', Day(q.at) >= Day(now) - Retention
         PROVE  \E e \in Days : q \in Filed(e)'
    <3>1. CASE q \in settled
      <4>1. PICK e \in Days : q \in Filed(e)
        BY <2>11, <3>1 DEF Kept
      <4>2. q \in Filed(e)'
        BY <2>4, <2>5, <3>1, <4>1 DEF Kept
      <4> QED
        BY <4>2
    <3>2. CASE q \notin settled
      BY <2>4, <2>6, <3>2
    <3> QED
      BY <3>1, <3>2
  <2>12. daemon'.doomed = {} /\ reporter' = reporter
    BY <2>4 DEF Down, Asleep
  <2> QED
    BY <2>4, <2>7, <2>9, <2>10, <2>11, <2>12 DEF Kept
<1>3. CASE Quiet /\ ~ Pruning /\ ~ Writing
  <2>1. /\ UNCHANGED <<files, appended, settled>> /\ \A d : Filed(d)' = Filed(d)
    BY <1>3 DEF Quiet, Filed
  <2>2. /\ Day(now) \in Int /\ Day(now') \in Int /\ Day(now) <= Day(now')
        /\ Retention \in Int /\ \A d \in Days : d \in Int
        /\ Day(now)' = Day(now')
    BY <1>3, LaterDay DEF Quiet, Day
  <2>3. \A r \in settled : Day(r.at) \in Int
    BY RecordTypes
  <2>4. \A d \in daemon'.doomed : d \in daemon.doomed \/ d \in Expired(Present)
    <3>1. CASE Starting \/ Stop
      <4>1. Starting => daemon'.doomed \subseteq Expired(Present)
        BY DEF Starting, Start, Down, Listings, Expired
      <4>2. Stop => daemon'.doomed = {}
        BY DEF Stop, Down
      <4> QED
        BY <3>1, <4>1, <4>2
    <3>2. CASE Collect
      BY <3>2 DEF Collect, TypeOK
    <3>3. CASE NameFile
      BY <3>3 DEF NameFile, Asleep, Down, TypeOK
    <3>4. CASE UNCHANGED daemon
      BY <3>4
    <3> QED
      BY <1>3, <3>1, <3>2, <3>3, <3>4
         DEF Next, Pruning, Writing, Starting, Opening, Listing, OpenReport, BeginWindow,
             ListFiles, ReadFile, Summarise, EndReport, Elapse, vars
  <2>5. \A d \in reporter'.doomed : d \in reporter.doomed \/ d \in Expired(Present)
    <3>1. CASE Opening \/ EndReport
      <4>1. Opening => reporter'.doomed \subseteq Expired(Present)
        BY DEF Opening, OpenReport, NoReport, Listings, Expired
      <4>2. EndReport => reporter'.doomed = {}
        BY DEF EndReport, NoReport
      <4> QED
        BY <3>1, <4>1, <4>2
    <3>2. CASE Listing \/ Summarise \/ \E days \in Windows : BeginWindow(days)
      BY <3>2 DEF Listing, ListFiles, Summarise, BeginWindow, TypeOK
    <3>3. ASSUME NEW readable \in BOOLEAN, ReadFile(readable)
          PROVE  reporter'.doomed = reporter.doomed
      BY <3>3 DEF ReadFile, TypeOK
    <3>4. CASE UNCHANGED reporter
      BY <3>4
    <3> QED
      BY <1>3, <3>1, <3>2, <3>3, <3>4
         DEF Next, Pruning, Writing, Starting, Opening, Listing, Start, Collect, NameFile,
             Stop, Elapse, vars
  <2>6. daemon.doomed \cup reporter.doomed \subseteq Days
    BY DEF TypeOK
  <2>7. \A d \in daemon'.doomed \cup reporter'.doomed : d < Day(now') - Retention
    BY <2>2, <2>4, <2>5, <2>6 DEF Kept, Expired, Present
  <2> QED
    BY <2>1, <2>2, <2>3, <2>7 DEF Kept
<1> QED
  BY <1>1, <1>2, <1>3, QuietOrNot

-----------------------------------------------------------------------------
(***************************************************************************)
(* Listing the directory: the files of the window are there, listed or     *)
(* not, and every record within it and within the retention time is in one *)
(* of them, because its file is not before the day of its stamp.           *)
(***************************************************************************)
LEMMA ListMissesNothing ==
  ASSUME TypeOK, TickSane, FilesInOrder, OutInOrder, Kept,
         NEW listed \in Listings, ListFiles(listed)
  PROVE  NothingMissed'
<1>1. /\ UNCHANGED <<now, files, daemon, appended, settled>>
      /\ reporter.pc = "list" /\ reporter'.pc = "read"
      /\ reporter'.upto = appended
      /\ reporter'.left \cup reporter'.lost = {d \in Present : InWindow(d, reporter.since)}
      /\ reporter'.out = reporter.out /\ reporter'.since = reporter.since
  <2> DEFINE Wants(S) == {d \in S : InWindow(d, reporter.since)}
  <2>1. /\ UNCHANGED <<now, files, daemon, appended, settled>> /\ reporter.pc = "list"
        /\ reporter' = [reporter EXCEPT !.pc = "read", !.upto = appended,
                                        !.left = Wants(listed),
                                        !.lost = Wants(Present \ listed)]
    BY DEF ListFiles
  <2>2. Wants(listed) \cup Wants(Present \ listed) = Wants(Present)
    BY DEF Listings
  <2> HIDE DEF Wants
  <2>3. reporter'.left = Wants(listed) /\ reporter'.lost = Wants(Present \ listed)
    BY <2>1 DEF TypeOK
  <2>4. /\ reporter'.pc = "read" /\ reporter'.upto = appended
        /\ reporter'.out = reporter.out /\ reporter'.since = reporter.since
    BY <2>1 DEF TypeOK
  <2> QED
    BY <2>1, <2>2, <2>3, <2>4 DEF Wants
<1>2. /\ appended \in Int /\ reporter.since \in Int
      /\ \A d \in Days : d \in Int /\ Filed(d)' = Filed(d)
  BY <1>1, ReportingAssumption DEF TypeOK, Days, Filed
<1>3. reporter'.upto <= appended'
  BY <1>1, <1>2
<1>4. \A e \in Days : \A r \in Filed(e)' : ~ (r.n > reporter'.upto)
  <2>1. \A e \in Days : \A r \in Filed(e) : r.n <= appended /\ r.n \in Int
    BY RecordTypes DEF FilesInOrder, Earlier
  <2> QED
    BY <1>1, <1>2, <2>1
<1>5. ASSUME NEW r \in settled, r.at >= reporter.since, Day(r.at) >= Day(now) - Retention
      PROVE  \E d \in reporter'.left \cup reporter'.lost : r \in Filed(d)
  <2>1. PICK d \in Days : r \in Filed(d)
    BY <1>5 DEF Kept
  <2>2. d \in Present
    BY <2>1, FiledPresent
  <2>3. Day(r.at) <= d /\ Day(r.at) \in Int /\ r.at \in Int
    BY <2>1, RecordTypes DEF FilesInOrder
  <2>4. Day(reporter.since) <= Day(r.at) /\ Day(reporter.since) \in Int
    BY <1>2, <1>5, <2>3, DayMonotone
  <2>5. d >= Day(reporter.since)
    BY <1>2, <2>3, <2>4
  <2> QED
    BY <1>1, <2>1, <2>2, <2>5 DEF InWindow
<1>6. \A r \in settled' : Owed(r)' => \E d \in reporter'.left \cup reporter'.lost : r \in Filed(d)'
  <2>1. \A r : Owed(r)' => r.at >= reporter.since /\ Day(r.at) >= Day(now) - Retention
    BY <1>1 DEF Owed, Day
  <2>2. reporter'.left \cup reporter'.lost \subseteq Days
    BY <1>1 DEF Present
  <2> QED
    BY <1>1, <1>2, <1>5, <2>1, <2>2
<1> QED
  BY <1>1, <1>3, <1>4, <1>6 DEF NothingMissed

(***************************************************************************)
(* Reading a file: what becomes owed precedes a record of that file, so it *)
(* is in that file or in an earlier one.  In an earlier one it would have  *)
(* been there when the directory was listed, so that file has been read.   *)
(***************************************************************************)
LEMMA ReadMissesNothing ==
  ASSUME TypeOK, FilesInOrder, OutInOrder, Kept, NothingMissed,
         NEW readable \in BOOLEAN, ReadFile(readable)
  PROVE  NothingMissed'
<1>1. PICK d : d = NextFile(reporter.left)
  OBVIOUS
<1>2. /\ d \in reporter.left /\ d \in Days /\ \A e \in reporter.left : d <= e
      /\ UNCHANGED <<now, files, daemon, appended, settled>>
      /\ UNCHANGED <<reporter.pc, reporter.since, reporter.upto>>
      /\ reporter.pc = "read"
      /\ reporter'.left = reporter.left \ {d}
      /\ reporter'.lost = IF readable THEN reporter.lost ELSE reporter.lost \cup {d}
  BY <1>1, ReadEffect
<1>3. Range(reporter'.out) =
        IF readable THEN Range(reporter.out) \cup {r \in Filed(d) : r.at >= reporter.since}
        ELSE Range(reporter.out)
  BY <1>1, ReadEffect
<1>4. /\ \A e \in Days : e \in Int /\ Filed(e)' = Filed(e)
      /\ reporter.left \cup reporter.lost \subseteq Days
      /\ reporter.upto \in Int
  BY <1>2, ReportingAssumption DEF Days, TypeOK, Filed
<1>5. ASSUME NEW r \in settled, Owed(r)'
      PROVE  \/ r \in Range(reporter'.out)
             \/ \E e \in reporter'.left \cup reporter'.lost : r \in Filed(e)'
  <2>1. /\ r.at >= reporter.since /\ Day(r.at) >= Day(now) - Retention
        /\ r.n <= reporter.upto \/ \E q \in Range(reporter'.out) : r.n < q.n
    BY <1>2, <1>5 DEF Owed, Day
  <2>2. r \in Filed(d) => r \in Range(reporter'.out) \/ d \in reporter'.lost
    BY <1>2, <1>3, <1>5, <2>1
  <2>3. CASE Owed(r)
    <3>1. \/ r \in Range(reporter.out)
          \/ \E e \in reporter.left \cup reporter.lost : r \in Filed(e)
      BY <1>2, <1>5, <2>3 DEF NothingMissed
    <3> QED
      BY <1>2, <1>3, <1>4, <1>5, <2>2, <3>1
  <2>4. CASE ~ Owed(r)
    <3>1. /\ ~ (r.n <= reporter.upto)
          /\ \A q \in Range(reporter.out) : ~ (r.n < q.n)
      BY <2>1, <2>4 DEF Owed
    <3>2. PICK q \in Filed(d) : r.n < q.n
      BY <1>3, <1>5, <2>1, <3>1
    <3>3. PICK e \in Days : r \in Filed(e)
      BY <1>5, <2>1 DEF Kept
    <3>4. r.n \in Int /\ q.n \in Int
      BY <1>2, <1>5, <3>2, RecordTypes
    <3>5. d <= e
      BY <1>2, <1>4, <3>1, <3>3, <3>4 DEF NothingMissed
    <3>6. ~ (d < e)
      BY <1>2, <3>2, <3>3, <3>4 DEF FilesInOrder, Before
    <3>7. e = d
      BY <1>2, <1>4, <3>5, <3>6
    <3> QED
      BY <1>4, <2>2, <3>3, <3>7
  <2> QED
    BY <2>3, <2>4
<1> QED
  BY <1>2, <1>4, <1>5 DEF NothingMissed

LEMMA StepNothingMissed ==
  TypeOK /\ TickSane /\ FilesInOrder /\ OutInOrder /\ Kept /\ NothingMissed /\ [Next]_vars
    => NothingMissed'
<1> SUFFICES ASSUME TypeOK, TickSane, FilesInOrder, OutInOrder, Kept, NothingMissed,
                    [Next]_vars
             PROVE  NothingMissed'
  OBVIOUS
<1>0. /\ appended \in Int /\ reporter.upto \in Int /\ reporter.left \cup reporter.lost \subseteq Days
      /\ \A d \in Days : d \in Int
  BY ReportingAssumption DEF TypeOK, Days
<1>1. CASE Pruning
  <2>1. PICK d \in Days, gone \in BOOLEAN : DaemonPrunes(d, gone) \/ ReportPrunes(d, gone)
    BY <1>1 DEF Pruning
  <2>2. /\ UNCHANGED <<now, appended, settled>>
        /\ UNCHANGED <<reporter.pc, reporter.since, reporter.left, reporter.out>>
        /\ UNCHANGED <<reporter.upto, reporter.lost>>
        /\ \A e \in Days : Filed(e)' \subseteq Filed(e)
    BY <2>1, PruneEffect
  <2>3. \A r : Owed(r)' = Owed(r)
    BY <2>2 DEF Owed, Day
  <2>4. ASSUME NEW r \in settled, Owed(r), NEW e \in reporter.left \cup reporter.lost,
               r \in Filed(e)
        PROVE  r \in Filed(e)'
    BY <1>0, <2>1, <2>4, PruneSpares DEF Owed
  <2> QED
    BY <2>2, <2>3, <2>4 DEF NothingMissed
<1>2. CASE Writing
  <2>1. PICK outcome \in Outcomes, dies \in BOOLEAN : Write(outcome, dies)
    BY <1>2 DEF Writing
  <2>2. PICK D : D = daemon.day
    OBVIOUS
  <2>3. PICK r : r = [n |-> appended + 1, at |-> daemon.at]
    OBVIOUS
  <2>4. /\ daemon.pc = "write" /\ D \in Days
        /\ UNCHANGED <<now, reporter>> /\ appended' = appended + 1
        /\ r.n = appended + 1
        /\ \A e \in Days : e # D => Filed(e)' = Filed(e)
        /\ Filed(D)' \subseteq Filed(D) \cup {r}
    BY <2>1, <2>2, <2>3, WriteEffect
  <2>5. \A q \in Filed(D) :
              \/ q \in Filed(D)'
              \/ /\ files[D].tail = "unterminated"
                 /\ q = files[D].records[Len(files[D].records)]
    BY <2>1, <2>2, <2>3, WriteEffect
  <2>6. settled' = settled \/ settled' = settled \cup {r}
    BY <2>1, <2>2, <2>3, WriteEffect
  <2>7. \A q : Owed(q)' = Owed(q)
    BY <2>4 DEF Owed, Day
  <2>8. \A e \in Days : \A q \in settled : q \in Filed(e) => q \in Filed(e)'
    BY <2>4, <2>5 DEF Kept
  <2>9. ~ Owed(r)
    <3>1. \A q \in Range(reporter.out) : q.n <= appended /\ q.n \in Int
      BY RecordTypes DEF OutInOrder, Earlier
    <3> QED
      BY <1>0, <2>4, <3>1 DEF Owed, NothingMissed
  <2>10. \A d \in reporter.left : d <= D
    BY <2>2, <2>4 DEF TickSane
  <2>11. \A d \in reporter.left, e \in Days : \A q \in Filed(e)' :
           q.n > reporter.upto => d <= e
    BY <2>4, <2>10 DEF NothingMissed
  <2>12. reporter.upto <= appended'
    BY <1>0, <2>4 DEF NothingMissed
  <2> QED
    BY <1>0, <2>4, <2>6, <2>7, <2>8, <2>9, <2>11, <2>12 DEF NothingMissed
<1>3. CASE Quiet /\ ~ Pruning /\ ~ Writing
  <2>1. UNCHANGED <<files, appended, settled>> /\ \A d : Filed(d)' = Filed(d)
    BY <1>3 DEF Quiet, Filed
  <2>2. CASE UNCHANGED reporter
    <3>1. /\ Day(now) \in Int /\ Day(now') \in Int /\ Day(now) <= Day(now')
          /\ Retention \in Int /\ Day(now)' = Day(now')
      BY <1>3, LaterDay DEF Quiet, Day
    <3>2. \A r \in settled : Day(r.at) \in Int
      BY RecordTypes
    <3>3. \A r \in settled : Owed(r)' => Owed(r)
      BY <2>2, <3>1, <3>2 DEF Owed
    <3> QED
      BY <2>1, <2>2, <3>3 DEF NothingMissed
  <2>3. CASE Opening \/ EndReport
    <3>1. Opening => reporter'.pc = "prune" /\ reporter'.left = {} /\ reporter'.upto = 0
      BY DEF Opening, OpenReport, NoReport
    <3>2. EndReport => reporter'.pc = "done" /\ reporter'.left = {} /\ reporter'.upto = 0
      BY DEF EndReport, NoReport
    <3>3. 0 <= appended'
      BY <2>1, ReportingAssumption DEF TypeOK
    <3> QED
      BY <2>3, <3>1, <3>2, <3>3 DEF NothingMissed
  <2>4. ASSUME NEW days \in Windows, BeginWindow(days) PROVE NothingMissed'
    <3>1. /\ reporter.pc = "prune" /\ reporter'.pc = "list"
          /\ UNCHANGED <<reporter.left, reporter.upto>>
      BY <2>4 DEF BeginWindow, TypeOK
    <3> QED
      BY <2>1, <3>1 DEF NothingMissed
  <2>5. CASE Listing
    BY <2>5, ListMissesNothing DEF Listing
  <2>6. ASSUME NEW readable \in BOOLEAN, ReadFile(readable) PROVE NothingMissed'
    BY <2>6, ReadMissesNothing
  <2>7. CASE Summarise
    <3>1. /\ reporter.pc = "read" /\ reporter'.pc = "print"
          /\ UNCHANGED <<now, reporter.since, reporter.left, reporter.out>>
          /\ UNCHANGED <<reporter.upto, reporter.lost>>
      BY <2>7 DEF Summarise, TypeOK
    <3>2. \A r : Owed(r)' = Owed(r)
      BY <3>1 DEF Owed, Day
    <3> QED
      BY <2>1, <3>1, <3>2 DEF NothingMissed
  <2> QED
    BY <1>3, <2>2, <2>3, <2>4, <2>5, <2>6, <2>7
       DEF Next, Pruning, Writing, Starting, Opening, Listing, Start, Collect, NameFile, Stop,
           Elapse, vars
<1> QED
  BY <1>1, <1>2, <1>3, QuietOrNot

-----------------------------------------------------------------------------
(***************************************************************************)
(* The invariant is inductive.                                             *)
(***************************************************************************)
LEMMA Invariance == Spec => []IInv
<1>1. Init => IInv
  BY InitIInv
<1>2. IInv /\ [Next]_vars => IInv'
  BY StepTypeOK, StepTickSane, StepFilesInOrder, StepOutInOrder, StepKept, StepNothingMissed
     DEF IInv
<1> QED
  BY <1>1, <1>2, PTL DEF Spec

\* The shape of the state is kept; no file grows past its limit (HistoryStore::append).
THEOREM TypeCorrect == Spec => []TypeOK
<1>1. IInv => TypeOK
  BY DEF IInv
<1> QED
  BY <1>1, Invariance, PTL

(***************************************************************************)
(* A report shows every settled record of its window and of the retention  *)
(* time that precedes its listing or one that it shows, unless it is in a  *)
(* file that could not be listed or not be read (records_since,            *)
(* prune_old_files and HistoryStore::append, interleaved).                 *)
(***************************************************************************)
THEOREM NoHoles == Spec => []ReportHasNoHoles
<1>1. IInv => ReportHasNoHoles
  <2> SUFFICES ASSUME IInv, reporter.pc = "print", NEW r \in settled, Owed(r)
               PROVE  \/ r \in Range(reporter.out)
                      \/ \E d \in reporter.lost : r \in Filed(d)
    BY DEF ReportHasNoHoles, Owed, Filed
  <2>1. reporter.left = {}
    BY DEF IInv, OutInOrder
  <2> QED
    BY <2>1 DEF IInv, NothingMissed
<1> QED
  BY <1>1, Invariance, PTL

(***************************************************************************)
(* A report lists the records in the order of the ticks, none twice        *)
(* (records_since's "oldest first", the span of Report).                   *)
(***************************************************************************)
THEOREM ReportInOrder == Spec => []OldestFirst
<1>1. IInv => OldestFirst
  BY DEF IInv, OutInOrder, InOrder, Before, OldestFirst
<1> QED
  BY <1>1, Invariance, PTL

\* Each level's count is a number, and a record counts for its level.
LEMMA LevelCountsType ==
  ASSUME NEW out \in Seq(Records)
  PROVE  /\ LevelCounts(out) \in [0 .. 4 -> Nat]
         /\ out # <<>> => \E l \in 0 .. 4 : LevelCounts(out)[l] > 0
         /\ out = <<>> => \A l \in 0 .. 4 : LevelCounts(out)[l] = 0
<1> DEFINE At(l) == {i \in DOMAIN out : LevelOf[out[i].n] = l}
<1>1. Len(out) \in Nat /\ DOMAIN out = 1 .. Len(out)
  BY LenProperties
<1>2. IsFiniteSet(1 .. Len(out))
  BY <1>1, FS_Interval
<1>3. ASSUME NEW l \in 0 .. 4
      PROVE  /\ IsFiniteSet(At(l)) /\ Cardinality(At(l)) \in Nat
             /\ Cardinality(At(l)) = 0 <=> At(l) = {}
  <2>1. At(l) \in SUBSET (1 .. Len(out))
    BY <1>1
  <2> HIDE DEF At
  <2>2. IsFiniteSet(At(l))
    BY <1>2, <2>1, FS_Subset
  <2> QED
    BY <2>2, FS_CardinalityType, FS_EmptySet
<1>4. ASSUME out # <<>> PROVE \E l \in 0 .. 4 : At(l) # {}
  <2>1. 1 \in DOMAIN out /\ out[1] \in Records
    BY <1>1, <1>4, EmptySeq, ElementOfSeq
  <2>2. LevelOf[out[1].n] \in 0 .. 4
    BY <2>1, ReportingAssumption DEF Records
  <2> QED
    BY <2>1, <2>2
<1>5. ASSUME out = <<>> PROVE \A l \in 0 .. 4 : At(l) = {}
  <2>1. DOMAIN out = {}
    BY <1>1, <1>5, EmptySeq
  <2> QED
    BY <2>1
<1>6. LevelCounts(out) = [l \in 0 .. 4 |-> Cardinality(At(l))]
  BY DEF LevelCounts
<1> HIDE DEF At
<1> QED
  BY <1>3, <1>4, <1>5, <1>6

\* The choice of dominant_level, over any counts of the five levels.
LEMMA DominantOfCounts ==
  ASSUME NEW c \in [0 .. 4 -> Nat]
  PROVE  LET top == {l \in 0 .. 4 : c[l] > 0 /\ \A k \in 0 .. 4 : c[k] <= c[l]}
         IN  IF \A l \in 0 .. 4 : c[l] = 0 THEN Dominant(c) = -1
             ELSE Dominant(c) \in top /\ \A l \in top : l <= Dominant(c)
<1> DEFINE Better(best, l) == IF c[l] > 0 /\ (best = -1 \/ c[l] >= c[best]) THEN l ELSE best
           \* b is the choice among the levels up to k.
           Best(b, k) ==
             \/ b = -1 /\ \A l \in 0 .. k : c[l] = 0
             \/ /\ b \in 0 .. k /\ c[b] > 0
                /\ \A l \in 0 .. k : c[l] <= c[b] /\ (b < l => c[l] < c[b])
           d0 == Better(-1, 0)
           d1 == Better(d0, 1)
           d2 == Better(d1, 2)
           d3 == Better(d2, 3)
           d4 == Better(d3, 4)
<1>1. \A l \in 0 .. 4 : c[l] \in Nat
  OBVIOUS
<1>2. ASSUME NEW k \in 1 .. 4, NEW b, Best(b, k - 1)
      PROVE  Best(Better(b, k), k)
  <2>1. \A l \in 0 .. k : l \in 0 .. k - 1 \/ l = k
    OBVIOUS
  <2>2. b = -1 \/ (b \in 0 .. k - 1 /\ c[b] \in Nat)
    BY <1>1, <1>2
  <2>3. c[k] \in Nat
    BY <1>1
  <2>4. CASE b = -1
    BY <1>1, <1>2, <2>1, <2>3, <2>4
  <2>5. CASE b \in 0 .. k - 1
    <3>1. /\ c[b] > 0
          /\ \A l \in 0 .. k - 1 : c[l] <= c[b] /\ (b < l => c[l] < c[b])
      BY <1>2, <2>5
    <3>2. CASE c[k] >= c[b]
      <4>1. Better(b, k) = k
        BY <2>2, <2>3, <2>5, <3>1, <3>2
      <4>2. Best(k, k)
        <5>1. \A l \in 0 .. k - 1 : c[l] <= c[k]
          BY <1>1, <2>2, <2>3, <2>5, <3>1, <3>2
        <5> QED
          BY <2>1, <2>2, <2>3, <2>5, <3>1, <3>2, <5>1
      <4> QED
        BY <4>1, <4>2
    <3>3. CASE ~ (c[k] >= c[b])
      <4>1. Better(b, k) = b
        BY <2>5, <3>3
      <4>2. c[k] < c[b]
        BY <2>2, <2>3, <2>5, <3>3
      <4>3. Best(b, k)
        BY <2>1, <2>3, <2>5, <3>1, <4>2
      <4> QED
        BY <4>1, <4>3
    <3> QED
      BY <3>2, <3>3
  <2> QED
    BY <2>2, <2>4, <2>5
<1>3. Best(d0, 0)
  <2>1. \A l : l \in 0 .. 0 <=> l = 0
    OBVIOUS
  <2> QED
    BY <1>1, <2>1
<1>4. Best(d4, 4)
  <2> HIDE DEF Best, Better
  <2>1. \A k \in 1 .. 4 : \A b : Best(b, k - 1) => Best(Better(b, k), k)
    BY <1>2
  <2>2. Best(d1, 1)
    BY <1>3, <2>1, 1 - 1 = 0, 1 \in 1 .. 4
  <2>3. Best(d2, 2)
    BY <2>2, <2>1, 2 - 1 = 1, 2 \in 1 .. 4
  <2>4. Best(d3, 3)
    BY <2>3, <2>1, 3 - 1 = 2, 3 \in 1 .. 4
  <2> QED
    BY <2>4, <2>1, 4 - 1 = 3, 4 \in 1 .. 4
<1>5. Dominant(c) = d4
  BY DEF Dominant
<1> HIDE DEF d4
<1> DEFINE top == {l \in 0 .. 4 : c[l] > 0 /\ \A k \in 0 .. 4 : c[k] <= c[l]}
<1>6. CASE \A l \in 0 .. 4 : c[l] = 0
  BY <1>4, <1>5, <1>6
<1>7. CASE ~ \A l \in 0 .. 4 : c[l] = 0
  <2>1. /\ d4 \in 0 .. 4 /\ c[d4] > 0
        /\ \A l \in 0 .. 4 : c[l] <= c[d4] /\ (d4 < l => c[l] < c[d4])
    BY <1>4, <1>7
  <2>2. d4 \in top
    BY <2>1
  <2>3. ASSUME NEW l \in top PROVE l <= d4
    <3>1. l \in 0 .. 4 /\ c[d4] <= c[l] /\ c[l] \in Nat /\ c[d4] \in Nat
      BY <1>1, <2>1
    <3> QED
      BY <2>1, <3>1
  <2> QED
    BY <1>5, <1>7, <2>2, <2>3
<1> QED
  BY <1>6, <1>7

(***************************************************************************)
(* A report that has records names the most severe of the most frequent    *)
(* levels ("ties break toward severity", dominant_level).                  *)
(***************************************************************************)
THEOREM DominantLevel == Spec => []DominantIsMostSevere
<1>1. TypeOK => DominantIsMostSevere
  <2> SUFFICES ASSUME TypeOK PROVE DominantIsMostSevere
    OBVIOUS
  <2> DEFINE c == LevelCounts(reporter.out)
  <2>1. /\ c \in [0 .. 4 -> Nat]
        /\ reporter.out # <<>> => \E l \in 0 .. 4 : c[l] > 0
        /\ reporter.out = <<>> => \A l \in 0 .. 4 : c[l] = 0
    BY LevelCountsType DEF TypeOK
  <2> HIDE DEF c
  <2>2. (\A l \in 0 .. 4 : c[l] = 0) <=> reporter.out = <<>>
    BY <2>1
  <2> QED
    BY <2>1, <2>2, DominantOfCounts DEF DominantIsMostSevere, c
<1> QED
  BY <1>1, TypeCorrect, PTL
=============================================================================
