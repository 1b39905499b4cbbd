---------------------------- MODULE RollbackProofs ----------------------------
(***************************************************************************)
(* Theorems about Rollback, for any processes, values, faults and store    *)
(* size.                                                                   *)
(***************************************************************************)
EXTENDS Rollback, SequenceTheorems, WellFoundedInduction, TLAPS

(***************************************************************************)
(* The inductive invariant.  Processes that hold a captured action are     *)
(* executing, and a restart only ever writes the value 0.                  *)
(***************************************************************************)
Executing(p) == pc[p] \in {"captured", "record"}

JobsSane ==
  \A p \in Procs :
    /\ cmd[p] = "apply" => p \in Executors
    /\ Executing(p) => cmd[p] = "apply"
    /\ pc[p] = "captured" /\ ~ Reversible(job[p].kind) =>
         \A k \in Changes(job[p].kind) : job[p].value = 0
    /\ Executing(p) /\ job[p].prior["sysctl"] # NotSaved => "sysctl" \in Changes(job[p].kind)

(***************************************************************************)
(* While nothing disturbs the log: the store has never been pruned; all    *)
(* that a process has loaded is still in it; the oldest entry that saved a *)
(* knob, or the captured action that is about to be that entry, holds its  *)
(* original value; and a knob nothing saved has its original value, unless *)
(* the executor has just changed it and is about to record.                *)
(***************************************************************************)
Unsaved(k) == SavedBy(file.records, k) = {}

LogSize ==
  /\ Len(file.records) <= lastId
  /\ file.tail \in {"absent", "clean"}
  /\ \A p \in Procs : Len(cache[p]) <= lastId /\ pc[p] # "rewrite"

CacheInFile ==
  \A p \in Procs : \A i \in DOMAIN cache[p] : \A k \in Knobs :
    cache[p][i].prior[k] # NotSaved => ~ Unsaved(k)

FirstIsOriginal ==
  \A k \in Knobs : \A i \in SavedBy(file.records, k) :
    (\A j \in SavedBy(file.records, k) : i <= j) => file.records[i].prior[k] = 0

JobIsOriginal ==
  \A p \in Procs : \A k \in Knobs :
    (Executing(p) /\ Unsaved(k)) =>
      /\ job[p].prior[k] \in {0, NotSaved}
      /\ Reversible(job[p].kind) /\ k \in Changes(job[p].kind) => job[p].prior[k] # NotSaved

UnsavedIsOriginal ==
  \A k \in Knobs : (Unsaved(k) /\ sys[k] # 0) =>
    \E p \in Procs : pc[p] = "record" /\ job[p].prior[k] # NotSaved

LogInv == LogSize /\ CacheInFile /\ FirstIsOriginal /\ JobIsOriginal /\ UnsavedIsOriginal

IInv == TypeOK /\ JobsSane /\ (Undisturbed => LogInv)

-----------------------------------------------------------------------------
(***************************************************************************)
(* Dropping the oldest elements keeps the newest one.                      *)
(***************************************************************************)
LEMMA LastNProperties ==
  ASSUME NEW S, NEW s \in Seq(S), NEW n \in Nat
  PROVE  /\ LastN(s, n) \in Seq(S)
         /\ Len(LastN(s, n)) = IF Len(s) <= n THEN Len(s) ELSE n
         /\ n > 0 /\ s # <<>> => LastN(s, n) # <<>>
         /\ n > 0 /\ s # <<>> => LastN(s, n)[Len(LastN(s, n))] = s[Len(s)]
<1>1. Len(s) \in Nat
  BY LenProperties
<1>2. CASE Len(s) <= n
  BY <1>1, <1>2 DEF LastN
<1>3. CASE ~ (Len(s) <= n)
  <2> DEFINE m == Len(s) - n + 1
  <2>1. m \in 1 .. Len(s) + 1 /\ Len(s) - m + 1 = n
    BY <1>1, <1>3
  <2>2. LastN(s, n) = SubSeq(s, m, Len(s))
    BY <1>3 DEF LastN
  <2>3. /\ SubSeq(s, m, Len(s)) \in Seq(S)
        /\ Len(SubSeq(s, m, Len(s))) = n
        /\ \A i \in 1 .. n : SubSeq(s, m, Len(s))[i] = s[m + i - 1]
    BY <2>1, <1>1, SubSeqProperties
  <2>4. n > 0 => SubSeq(s, m, Len(s))[n] = s[Len(s)]
    BY <2>3, <1>1
  <2>5. /\ LastN(s, n) \in Seq(S)
        /\ Len(LastN(s, n)) = n
        /\ n > 0 => LastN(s, n)[n] = s[Len(s)]
    BY <2>2, <2>3, <2>4
  <2>6. n > 0 => LastN(s, n) # <<>>
    BY <2>5, EmptySeq
  <2> HIDE DEF m
  <2> QED
    BY <2>5, <2>6, <1>3
<1> QED
  BY <1>2, <1>3

\* A push keeps the type and the capacity (Vec::push and remove(0)).
LEMMA PushTyped ==
  ASSUME NEW S, NEW s \in Seq(S), NEW x \in S, NEW n \in Nat
  PROVE  Push(s, x, n) \in Seq(S) /\ Len(Push(s, x, n)) <= n
<1>1. Append(s, x) \in Seq(S) /\ Len(Append(s, x)) \in Nat
  BY AppendProperties, LenProperties
<1> DEFINE a == Append(s, x)
<1> HIDE DEF a
<1>2. LastN(a, n) \in Seq(S) /\ Len(LastN(a, n)) = IF Len(a) <= n THEN Len(a) ELSE n
  BY <1>1, LastNProperties DEF a
<1> QED
  BY <1>1, <1>2 DEF Push, a

(***************************************************************************)
(* Whatever part of an append reaches the disk, the file stays a file.     *)
(***************************************************************************)
LEMMA WrittenTyped ==
  ASSUME NEW R, NEW f \in FileOf(R), NEW l \in R, NEW outcome \in Outcomes
  PROVE  Written(f, l, outcome) \in FileOf(R)
<1>1. /\ f.records \in Seq(R) /\ f.tail \in Tails
      /\ f = [records |-> f.records, tail |-> f.tail]
  BY DEF FileOf
<1>2. /\ Append(f.records, l) \in Seq(R)
      /\ Append(f.records, l) # <<>>
  BY <1>1, AppendProperties
<1>3. f.tail = "unterminated" =>
        SubSeq(f.records, 1, Len(f.records) - 1) \in Seq(R)
  <2> SUFFICES ASSUME f.tail = "unterminated"
               PROVE  SubSeq(f.records, 1, Len(f.records) - 1) \in Seq(R)
    OBVIOUS
  <2>1. Len(f.records) \in Nat \ {0}
    BY <1>1, LenProperties, EmptySeq DEF FileOf
  <2> QED
    BY <2>1, <1>1, SubSeqProperties
<1> QED
  BY <1>1, <1>2, <1>3 DEF Written, FileOf, Tails, Outcomes

\* A non-empty set of indices of a sequence has a least element: FirstSaved exists.
LEMMA LeastIndex ==
  ASSUME NEW S \in SUBSET Nat, S # {}
  PROVE  \E i \in S : \A j \in S : i <= j
<1> DEFINE R == OpToRel(<, Nat)
<1>1. \A x, y \in Nat : <<x, y>> \in R <=> x < y
  BY DEF OpToRel
<1>2. IsWellFoundedOn(R, Nat)
  BY NatLessThanWellFounded
<1> HIDE DEF R
<1>3. S \subseteq Nat /\ S # {}
  OBVIOUS
<1>4. \E i \in S : \A j \in S : ~ (<<j, i>> \in R)
  BY <1>2, <1>3, WFMin
<1>5. PICK i \in S : \A j \in S : ~ (<<j, i>> \in R)
  BY <1>4
<1>6. ASSUME NEW j \in S PROVE i <= j
  <2>1. ~ (j < i)
    BY <1>1, <1>3, <1>5
  <2> QED
    BY <2>1, <1>3
<1> QED
  BY <1>6

(***************************************************************************)
(* Induction over the natural numbers, for a set of them.                  *)
(***************************************************************************)
LEMMA NatSetInduction ==
  ASSUME NEW G \in SUBSET Nat, 0 \in G, \A n \in Nat : n \in G => n + 1 \in G
  PROVE  G = Nat
<1> DEFINE T == Nat \ G
<1>1. ASSUME T # {} PROVE FALSE
  <2>1. PICK x \in T : \A y \in T : x <= y
    BY <1>1, LeastIndex
  <2>2. x \in Nat /\ x # 0 /\ x - 1 \in Nat
    OBVIOUS
  <2>3. x - 1 \notin T
    BY <2>1, <2>2
  <2>4. (x - 1) + 1 \in G
    BY <2>2, <2>3
  <2> QED
    BY <2>2, <2>4
<1> QED
  BY <1>1

(***************************************************************************)
(* The recursive function in UndoAll exists, so it obeys its equation.     *)
(***************************************************************************)
UndoneUpTo(es, s, U, n) ==
  /\ DOMAIN U = 0 .. n
  /\ \A i \in 0 .. n :
       U[i] = IF i = 0 THEN s ELSE Reverted(es[Len(es) - i + 1].prior, U[i - 1])

LEMMA UndoAllUnfolds ==
  ASSUME NEW es, NEW s, Len(es) \in Nat
  PROVE  \E U : UndoneUpTo(es, s, U, Len(es)) /\ UndoAll(es, s) = U[Len(es)]
<1> DEFINE Step(U, i) == IF i = 0 THEN s ELSE Reverted(es[Len(es) - i + 1].prior, U[i - 1])
           IsUndone(U, n) == U = [i \in 0 .. n |-> Step(U, i)]
           G == {n \in Nat : \E U : IsUndone(U, n)}
<1>1. 0 \in G
  <2> DEFINE U0 == [i \in 0 .. 0 |-> s]
  <2>1. IsUndone(U0, 0)
    OBVIOUS
  <2> HIDE DEF IsUndone
  <2> QED
    BY <2>1
<1>2. ASSUME NEW n \in Nat, n \in G PROVE n + 1 \in G
  <2>1. PICK U : IsUndone(U, n)
    BY <1>2
  <2> DEFINE V == [i \in 0 .. n + 1 |-> IF i <= n THEN U[i] ELSE Step(U, n + 1)]
  <2>2. \A i \in 0 .. n : U[i] = Step(U, i)
    BY <2>1
  <2>3. ASSUME NEW i \in 0 .. n + 1 PROVE V[i] = Step(V, i)
    <3>1. CASE i = 0
      BY <2>2, <3>1
    <3>2. CASE i # 0
      <4>1. i - 1 \in 0 .. n
        BY <3>2
      <4>2. V[i - 1] = U[i - 1]
        BY <4>1
      <4>3. V[i] = Step(U, i)
        BY <2>2
      <4> QED
        BY <4>2, <4>3, <3>2
    <3> QED
      BY <3>1, <3>2
  <2>4. IsUndone(V, n + 1)
    <3>1. V = [i \in 0 .. n + 1 |-> V[i]]
      OBVIOUS
    <3> HIDE DEF V
    <3> QED
      BY <2>3, <3>1
  <2> HIDE DEF IsUndone
  <2> QED
    BY <2>4
<1>3. G = Nat
  <2> HIDE DEF G
  <2>1. G \in SUBSET Nat
    BY DEF G
  <2> QED
    BY <1>1, <1>2, <2>1, NatSetInduction
<1> DEFINE After == CHOOSE U : IsUndone(U, Len(es))
<1>4. IsUndone(After, Len(es))
  <2>1. \E U : IsUndone(U, Len(es))
    BY <1>3
  <2> HIDE DEF IsUndone
  <2> QED
    BY <2>1
<1>5. UndoAll(es, s) = After[Len(es)]
  BY DEF UndoAll
<1>6. UndoneUpTo(es, s, After, Len(es))
  <2> HIDE DEF After
  <2>1. DOMAIN After = 0 .. Len(es)
    BY <1>4
  <2>2. \A i \in 0 .. Len(es) : After[i] = Step(After, i)
    BY <1>4
  <2> QED
    BY <2>1, <2>2 DEF UndoneUpTo
<1> QED
  BY <1>5, <1>6

(***************************************************************************)
(* Undoing entry by entry, newest first, leaves each knob with what the    *)
(* oldest entry that saved it holds, and a knob that none saved alone.     *)
(***************************************************************************)
LEMMA UndoAllIsOldest ==
  ASSUME NEW es \in Seq(Entries), NEW s \in [Knobs -> Values]
  PROVE  /\ DOMAIN UndoAll(es, s) = Knobs
         /\ UndoAll(es, s) = [k \in Knobs |-> UndoAll(es, s)[k]]
         /\ \A k \in Knobs :
              /\ SavedBy(es, k) = {} => UndoAll(es, s)[k] = s[k]
              /\ SavedBy(es, k) # {} =>
                   /\ FirstSaved(es, k) \in SavedBy(es, k)
                   /\ UndoAll(es, s)[k] = es[FirstSaved(es, k)].prior[k]
<1> DEFINE m == Len(es)
<1>1. m \in Nat /\ DOMAIN es = 1 .. m
  BY LenProperties
<1>2. PICK U : UndoneUpTo(es, s, U, m) /\ UndoAll(es, s) = U[m]
  BY <1>1, UndoAllUnfolds
<1> HIDE DEF m
      \* the newest n entries are undone
<1> DEFINE Newest(k, n) == {i \in SavedBy(es, k) : i > m - n}
           Good(n) ==
             /\ U[n] = [k \in Knobs |-> U[n][k]]
             /\ \A k \in Knobs :
                  /\ Newest(k, n) = {} => U[n][k] = s[k]
                  /\ \A i \in Newest(k, n) :
                       (\A j \in Newest(k, n) : i <= j) => U[n][k] = es[i].prior[k]
           G == {n \in Nat : n <= m => Good(n)}
<1>3. 0 \in G
  <2>1. U[0] = s
    BY <1>1, <1>2 DEF UndoneUpTo
  <2>2. \A k \in Knobs : Newest(k, 0) = {}
    BY <1>1 DEF SavedBy
  <2>3. s = [k \in Knobs |-> s[k]]
    OBVIOUS
  <2> HIDE DEF Newest
  <2> QED
    BY <2>1, <2>2, <2>3
<1>4. ASSUME NEW n \in Nat, n \in G PROVE n + 1 \in G
  <2> SUFFICES ASSUME n + 1 <= m PROVE Good(n + 1)
    OBVIOUS
  <2> DEFINE e == m - n
  <2>1. Good(n)
    BY <1>1, <1>4
  <2>2. U[n + 1] = Reverted(es[e].prior, U[n])
    <3>1. n + 1 \in 0 .. m /\ n + 1 # 0 /\ (n + 1) - 1 = n /\ m - (n + 1) + 1 = e
      BY <1>1
    <3> QED
      BY <3>1, <1>2 DEF UndoneUpTo, m
  <2>3. e \in 1 .. m /\ e \in DOMAIN es
    BY <1>1
  <2>4. /\ U[n + 1] = [k \in Knobs |-> U[n + 1][k]]
        /\ \A k \in Knobs :
             U[n + 1][k] = IF es[e].prior[k] = NotSaved THEN U[n][k] ELSE es[e].prior[k]
    BY <2>2 DEF Reverted
  <2>5. ASSUME NEW k \in Knobs
        PROVE  /\ Newest(k, n + 1) = {} => U[n + 1][k] = s[k]
               /\ \A i \in Newest(k, n + 1) :
                    (\A j \in Newest(k, n + 1) : i <= j) => U[n + 1][k] = es[i].prior[k]
    <3>1. SavedBy(es, k) \subseteq 1 .. m
      BY <1>1 DEF SavedBy
    <3>2. CASE es[e].prior[k] = NotSaved
      <4>1. e \notin SavedBy(es, k)
        BY <3>2 DEF SavedBy
      <4>2. \A i \in SavedBy(es, k) : i > m - n <=> i > m - (n + 1)
        BY <1>1, <3>1, <4>1
      <4>3. Newest(k, n + 1) = Newest(k, n)
        BY <4>2
      <4>4. U[n + 1][k] = U[n][k]
        BY <2>4, <3>2
      <4> HIDE DEF Newest
      <4> QED
        BY <2>1, <4>3, <4>4
    <3>3. CASE es[e].prior[k] # NotSaved
      <4>1. e \in SavedBy(es, k)
        BY <2>3, <3>3 DEF SavedBy
      <4>2. e \in Newest(k, n + 1)
        BY <1>1, <4>1
      <4>3. \A i \in Newest(k, n + 1) : e <= i /\ i \in Int
        BY <1>1, <3>1
      <4>4. U[n + 1][k] = es[e].prior[k]
        BY <2>4, <3>3
      <4>5. \A i \in Newest(k, n + 1) : i <= e => i = e
        BY <2>3, <4>3
      <4> HIDE DEF Newest, e
      <4> QED
        BY <4>2, <4>4, <4>5
    <3> QED
      BY <3>2, <3>3
  <2> QED
    BY <2>4, <2>5
<1>5. Good(m)
  <2>1. G = Nat
    <3> HIDE DEF G
    <3>1. G \in SUBSET Nat
      BY DEF G
    <3> QED
      BY <1>3, <1>4, <3>1, NatSetInduction
  <2>2. \A n \in Nat : n \in G
    BY <2>1
  <2>3. \A n \in Nat : n <= m => Good(n)
    BY <2>2
  <2>4. m <= m
    BY <1>1
  <2> HIDE DEF Good
  <2> QED
    BY <1>1, <2>3, <2>4
<1>6. ASSUME NEW k \in Knobs
      PROVE  /\ Newest(k, m) = SavedBy(es, k)
             /\ SavedBy(es, k) # {} =>
                  /\ FirstSaved(es, k) \in SavedBy(es, k)
                  /\ \A j \in SavedBy(es, k) : FirstSaved(es, k) <= j
  <2>1. SavedBy(es, k) \subseteq 1 .. m
    BY <1>1 DEF SavedBy
  <2>2. Newest(k, m) = SavedBy(es, k)
    BY <1>1, <2>1
  <2>3. SavedBy(es, k) \in SUBSET Nat
    BY <1>1, <2>1
  <2>4. SavedBy(es, k) # {} => \E i \in SavedBy(es, k) : \A j \in SavedBy(es, k) : i <= j
    BY <2>3, LeastIndex
  <2> QED
    BY <2>2, <2>4 DEF FirstSaved
<1> HIDE DEF Newest
<1> QED
  BY <1>2, <1>5, <1>6

\* The entry an id finds is one of the store's.
LEMMA FindIsEntry ==
  ASSUME NEW es \in Seq(Entries), NEW id \in IdsOf(es)
  PROVE  \E i \in DOMAIN es : Find(es, id) = es[i]
<1> DEFINE S == {i \in DOMAIN es : es[i].id = id}
<1>1. DOMAIN es = 1 .. Len(es) /\ Len(es) \in Nat
  BY LenProperties
<1>2. S \in SUBSET Nat /\ S # {}
  BY <1>1 DEF IdsOf
<1>3. PICK i \in S : \A j \in S : i <= j
  BY <1>2, LeastIndex
<1>4. es[i].id = id /\ \A j \in 1 .. i - 1 : es[j].id # id
  BY <1>1, <1>3
<1>5. \E n \in DOMAIN es : es[n].id = id /\ \A j \in 1 .. n - 1 : es[j].id # id
  BY <1>3, <1>4
<1> QED
  BY <1>5 DEF Find

\* What capture reads is a prior state (capture_process_prior_state and the unit reads).
LEMMA PriorTyped ==
  /\ NoPrior \in Priors
  /\ \A kind, s : s \in [Knobs -> Values] => PriorOf(kind, s) \in Priors
BY DEF NoPrior, PriorOf, Priors

\* The planner's parameters are values of the knobs.
LEMMA NewValuesTyped == \A kind \in AllKinds : NewValues(kind) \subseteq Values
BY ValuesAssumption DEF NewValues

\* The initial state, no store and an untouched system, has the shape.
LEMMA InitTypeOK == Init => TypeOK
<1> SUFFICES ASSUME Init PROVE TypeOK
  OBVIOUS
<1>1. <<>> \in Seq(Entries) /\ Len(<<>>) = 0
  BY EmptySeq
<1>2. NoFile \in FileOf(Entries)
  BY <1>1 DEF NoFile, FileOf, Tails
<1>3. NoJob \in Jobs
  BY PriorTyped, ValuesAssumption DEF NoJob, Jobs, AllKinds
<1>4. 0 <= KeepEntries
  BY KeepAssumption
<1> QED
  BY <1>1, <1>2, <1>3, <1>4, ValuesAssumption DEF Init, TypeOK, Original

\* Every step remembers what it leaves bare.
LEMMA StepWatches == Next => exposed' = exposed \cup Bare'
BY DEF Next, Open, Prune, Rewrite, Capture, Change, ChangeFails, Record, Undo, RevertFails, Finish,
       Crash, Watch

\* Every step of every command keeps the shape.
LEMMA StepTypeOK == TypeOK /\ [Next]_vars => TypeOK'
<1> SUFFICES ASSUME TypeOK, [Next]_vars PROVE TypeOK'
  OBVIOUS
<1>w. exposed' \subseteq Knobs
  BY StepWatches DEF TypeOK, Bare, vars
<1> USE KeepAssumption, <1>w
<1>0. /\ <<>> \in Seq(Entries) /\ Len(<<>>) = 0
      /\ NoJob \in Jobs
      /\ file.records \in Seq(Entries) /\ file.tail \in Tails
  BY EmptySeq, PriorTyped, ValuesAssumption DEF NoJob, Jobs, AllKinds, TypeOK, FileOf
<1>e. ASSUME NEW p \in Procs, Exit(p), sys' \in [Knobs -> Values],
             file' \in FileOf(Entries), lastId' \in Nat
      PROVE  TypeOK'
  <2>1. \A q \in Procs : pc'[q] # "prune" => Len(cache'[q]) <= KeepEntries
    BY <1>0, <1>e DEF Exit, Goto, TypeOK
  <2> QED
    BY <1>0, <1>e, <2>1 DEF Exit, Goto, TypeOK
<1>1. ASSUME NEW p \in Procs, Open(p) PROVE TypeOK'
  <2>1. PICK c \in {"list", "undo", "apply"} : cmd' = [cmd EXCEPT ![p] = c]
    BY <1>1 DEF Open
  <2>2. PICK loaded \in Seq(Entries) : cache' = [cache EXCEPT ![p] = loaded]
    BY <1>0, <1>1 DEF Open
  <2> QED
    BY <1>1, <2>1, <2>2 DEF Open, Goto, TypeOK
<1>2. ASSUME NEW p \in Procs, Prune(p) PROVE TypeOK'
  <2>1. CASE Len(cache[p]) <= KeepEntries
    BY <1>2, <2>1 DEF Prune, Goto, TypeOK
  <2>2. CASE ~ (Len(cache[p]) <= KeepEntries)
    <3>1. /\ LastN(cache[p], KeepEntries) \in Seq(Entries)
          /\ Len(LastN(cache[p], KeepEntries)) <= KeepEntries
      BY <2>2, LastNProperties DEF TypeOK
    <3>2. /\ cache' = [cache EXCEPT ![p] = LastN(cache[p], KeepEntries)]
          /\ file' = [records |-> <<>>, tail |-> "clean"]
          /\ pc' = [pc EXCEPT ![p] = "rewrite"]
          /\ UNCHANGED <<sys, cmd, job, lastId>>
      BY <1>2, <2>2 DEF Prune, Goto
    <3>3. file' \in FileOf(Entries)
      BY <1>0, <3>2 DEF FileOf, Tails
    <3> QED
      BY <3>1, <3>2, <3>3 DEF TypeOK
  <2> QED
    BY <2>1, <2>2
<1>3. ASSUME NEW p \in Procs, Rewrite(p) PROVE TypeOK'
  <2>1. PICK n \in 0 .. Len(cache[p]) :
          file' = [records |-> SubSeq(cache[p], 1, n)
                                 \o SubSeq(file.records, n + 1, Len(file.records)),
                   tail |-> IF Len(file.records) > n THEN file.tail ELSE "clean"]
    BY <1>3 DEF Rewrite
  <2>2. /\ cache[p] \in Seq(Entries)
        /\ Len(cache[p]) \in Nat /\ Len(file.records) \in Nat
    BY <1>0, LenProperties DEF TypeOK
  <2>3. SubSeq(cache[p], 1, n) \in Seq(Entries) /\ Len(SubSeq(cache[p], 1, n)) = n
    BY <2>2, SubSeqProperties
  <2>4. /\ SubSeq(file.records, n + 1, Len(file.records)) \in Seq(Entries)
        /\ Len(file.records) > n =>
             Len(SubSeq(file.records, n + 1, Len(file.records))) = Len(file.records) - n
    <3>1. CASE Len(file.records) > n
      BY <1>0, <2>2, <3>1, SubSeqProperties
    <3>2. CASE ~ (Len(file.records) > n)
      <4>1. SubSeq(file.records, n + 1, Len(file.records)) = <<>>
        BY <1>0, <2>2, <3>2
      <4> QED
        BY <4>1, <3>2, <1>0
    <3> QED
      BY <3>1, <3>2
  <2>5. /\ file'.records \in Seq(Entries)
        /\ Len(file.records) > n => file'.records # <<>>
    <3> DEFINE s == SubSeq(cache[p], 1, n)
               t == SubSeq(file.records, n + 1, Len(file.records))
    <3>1. s \in Seq(Entries) /\ t \in Seq(Entries) /\ Len(s) = n
          /\ (Len(file.records) > n => Len(t) = Len(file.records) - n)
          /\ file'.records = s \o t
      BY <2>1, <2>3, <2>4
    <3> HIDE DEF s, t
    <3>2. s \o t \in Seq(Entries) /\ Len(s \o t) = Len(s) + Len(t)
      BY <3>1, ConcatProperties
    <3>3. Len(file.records) > n => Len(s \o t) > 0
      BY <3>1, <3>2, <2>2
    <3> QED
      BY <3>1, <3>2, <3>3, EmptySeq
  <2>6. file' \in FileOf(Entries)
    BY <2>1, <2>5, <1>0 DEF FileOf, Tails
  <2> QED
    BY <1>3, <2>6 DEF Rewrite, Goto, TypeOK
<1>4. ASSUME NEW p \in Procs, NEW kind \in Kinds, Capture(p, kind) PROVE TypeOK'
  <2>1. PICK v \in NewValues(kind), prior \in {PriorOf(kind, sys), NoPrior} :
          job' = [job EXCEPT ![p] = [kind |-> kind, value |-> v, prior |-> prior]]
    BY <1>4 DEF Capture
  <2>2. kind \in AllKinds /\ v \in Values /\ prior \in Priors
    BY KindsAssumption, NewValuesTyped, PriorTyped DEF TypeOK
  <2>3. job' \in [Procs -> Jobs]
    BY <2>1, <2>2 DEF TypeOK, Jobs
  <2> QED
    BY <1>4, <2>3 DEF Capture, Goto, TypeOK
<1>5. ASSUME NEW p \in Procs, Change(p) PROVE TypeOK'
  <2>1. job[p].value \in Values
    BY DEF TypeOK, Jobs
  <2> QED
    BY <1>5, <2>1 DEF Change, Goto, TypeOK
<1>6. ASSUME NEW p \in Procs, ChangeFails(p) PROVE TypeOK'
  <2>1. job[p].value \in Values
    BY DEF TypeOK, Jobs
  <2>2. sys' \in [Knobs -> Values]
    BY <1>6, <2>1 DEF ChangeFails, TypeOK
  <2> QED
    BY <1>6, <2>2 DEF ChangeFails, Goto, TypeOK
<1>7. ASSUME NEW p \in Procs, Record(p) PROVE TypeOK'
  <2>1. PICK id \in {lastId + 1, lastId}, outcome \in Outcomes :
          LET e == [id |-> id, kind |-> job[p].kind, prior |-> job[p].prior]
          IN  /\ file' = Written(file, e, outcome)
              /\ cache' = [cache EXCEPT ![p] = Push(cache[p], e, KeepEntries)]
              /\ lastId' = id
    BY <1>7 DEF Record, Outcomes
  <2> DEFINE e == [id |-> id, kind |-> job[p].kind, prior |-> job[p].prior]
  <2>2. e \in Entries
    BY DEF TypeOK, Jobs, Entries
  <2> HIDE DEF e
  <2>3. file' \in FileOf(Entries)
    BY <2>1, <2>2, WrittenTyped DEF TypeOK, e
  <2>4. /\ Push(cache[p], e, KeepEntries) \in Seq(Entries)
        /\ Len(Push(cache[p], e, KeepEntries)) <= KeepEntries
    BY <2>2, PushTyped DEF TypeOK
  <2>5. cache' = [cache EXCEPT ![p] = Push(cache[p], e, KeepEntries)] /\ lastId' \in Nat
    BY <2>1 DEF e, TypeOK
  <2> QED
    BY <1>7, <2>3, <2>4, <2>5 DEF Record, Goto, TypeOK
<1>8. ASSUME NEW p \in Procs, NEW id \in IdsOf(cache[p]), Undo(p, id) PROVE TypeOK'
  <2>1. PICK i \in DOMAIN cache[p] : Find(cache[p], id) = cache[p][i]
    BY FindIsEntry DEF TypeOK
  <2>2. cache[p][i].prior \in Priors
    <3>1. cache[p] \in Seq(Entries)
      BY DEF TypeOK
    <3>2. i \in 1 .. Len(cache[p])
      BY <3>1, LenProperties
    <3>3. cache[p][i] \in Entries
      BY <3>1, <3>2, ElementOfSeq
    <3> QED
      BY <3>3 DEF Entries
  <2>3. sys' \in [Knobs -> Values]
    BY <1>8, <2>1, <2>2 DEF Undo, Reverted, Priors, TypeOK, NotSaved
  <2> QED
    BY <1>8, <1>e, <2>3 DEF Undo, TypeOK
<1>r. ASSUME NEW p \in Procs, NEW id \in IdsOf(cache[p]), RevertFails(p, id) PROVE TypeOK'
  <2>1. sys' \in [Knobs -> Values]
    BY <1>r DEF RevertFails, TypeOK
  <2> QED
    BY <1>r, <1>e, <2>1 DEF RevertFails, TypeOK
<1>9. ASSUME NEW p \in Procs, Finish(p) PROVE TypeOK'
  BY <1>9, <1>e DEF Finish, TypeOK
<1>10. ASSUME NEW p \in Procs, Crash(p) PROVE TypeOK'
  <2>1. CASE UNCHANGED <<file, lastId>>
    BY <1>10, <1>e, <2>1 DEF Crash, TypeOK
  <2>2. CASE ~ UNCHANGED <<file, lastId>>
    <3> DEFINE e == [id |-> lastId + 1, kind |-> job[p].kind, prior |-> job[p].prior]
    <3>1. e \in Entries
      BY DEF TypeOK, Jobs, Entries
    <3>2. PICK outcome \in Outcomes : file' = Written(file, e, outcome)
      BY <1>10, <2>2 DEF Crash
    <3> HIDE DEF e
    <3>3. file' \in FileOf(Entries)
      BY <3>1, <3>2, WrittenTyped DEF TypeOK
    <3> QED
      BY <1>10, <1>e, <2>2, <3>3 DEF Crash, TypeOK
  <2> QED
    BY <2>1, <2>2
<1>11. CASE UNCHANGED vars
  BY <1>11 DEF vars, TypeOK
<1> QED
  BY <1>1, <1>2, <1>3, <1>4, <1>5, <1>6, <1>7, <1>8, <1>r, <1>9, <1>10, <1>11 DEF Next

\* The state keeps its shape (TypeOK), crashes and failed writes included.
THEOREM TypeCorrect == Spec => []TypeOK
<1> QED
  BY InitTypeOK, StepTypeOK, PTL DEF Spec

-----------------------------------------------------------------------------
\* The empty log is complete: nothing has been touched.
LEMMA InitIInv == Init => IInv
<1> SUFFICES ASSUME Init PROVE IInv
  OBVIOUS
<1>1. TypeOK
  BY InitTypeOK
<1>2. JobsSane
  BY DEF Init, JobsSane, Executing
<1>3. file.records = <<>> /\ Len(file.records) = 0 /\ DOMAIN file.records = {}
  BY EmptySeq DEF Init, NoFile
<1>4. \A k \in Knobs : SavedBy(file.records, k) = {}
  BY <1>3 DEF SavedBy
<1>5. LogSize /\ CacheInFile
  BY <1>3 DEF Init, LogSize, CacheInFile, NoFile
<1>6. FirstIsOriginal /\ JobIsOriginal /\ UnsavedIsOriginal
  BY <1>4 DEF Init, FirstIsOriginal, JobIsOriginal, UnsavedIsOriginal, Executing, Original
<1> QED
  BY <1>1, <1>2, <1>5, <1>6 DEF IInv, LogInv

\* A captured action stays one that can be executed (dispatch_with_prior).
LEMMA StepJobsSane == TypeOK /\ JobsSane /\ [Next]_vars => JobsSane'
<1> SUFFICES ASSUME TypeOK, JobsSane, [Next]_vars PROVE JobsSane'
  OBVIOUS
<1>1. ASSUME NEW p \in Procs, Open(p) PROVE JobsSane'
  BY <1>1 DEF Open, Goto, JobsSane, Executing, TypeOK
<1>2. ASSUME NEW p \in Procs, Prune(p) PROVE JobsSane'
  BY <1>2 DEF Prune, Goto, JobsSane, Executing, TypeOK
<1>3. ASSUME NEW p \in Procs, Rewrite(p) PROVE JobsSane'
  BY <1>3 DEF Rewrite, Goto, JobsSane, Executing, TypeOK
<1>4. ASSUME NEW p \in Procs, NEW kind \in Kinds, Capture(p, kind) PROVE JobsSane'
  <2>1. PICK v \in NewValues(kind), prior \in {PriorOf(kind, sys), NoPrior} :
          job' = [job EXCEPT ![p] = [kind |-> kind, value |-> v, prior |-> prior]]
    BY <1>4 DEF Capture
  <2>2. ~ Reversible(kind) => \A k \in Changes(kind) : v = 0
    BY <2>1 DEF Reversible, Changes, NewValues
  <2>3. prior["sysctl"] # NotSaved => "sysctl" \in Changes(kind)
    BY <2>1 DEF PriorOf, NoPrior, Saves, Changes, UnitLimits, Knobs
  <2> QED
    BY <1>4, <2>1, <2>2, <2>3 DEF Capture, Goto, JobsSane, Executing, TypeOK
<1>5. ASSUME NEW p \in Procs, Change(p) PROVE JobsSane'
  BY <1>5 DEF Change, Goto, JobsSane, Executing, TypeOK
<1>6. ASSUME NEW p \in Procs, ChangeFails(p) PROVE JobsSane'
  BY <1>6 DEF ChangeFails, Goto, JobsSane, Executing, TypeOK
<1>7. ASSUME NEW p \in Procs, Record(p) PROVE JobsSane'
  BY <1>7 DEF Record, Goto, JobsSane, Executing, TypeOK
<1>8. ASSUME NEW p \in Procs, Exit(p) PROVE JobsSane'
  BY <1>8 DEF Exit, Goto, JobsSane, Executing, TypeOK
<1>9. CASE UNCHANGED vars
  BY <1>9 DEF vars, JobsSane, Executing
<1> QED
  BY <1>1, <1>2, <1>3, <1>4, <1>5, <1>6, <1>7, <1>8, <1>9
  DEF Next, Undo, RevertFails, Finish, Crash

(***************************************************************************)
(* A step of a process that is not recording and does not become an        *)
(* executing one, leaves the store alone and touches a knob nothing saved  *)
(* only to give it its original value, keeps the log complete.             *)
(***************************************************************************)
LEMMA QuietStep ==
  ASSUME TypeOK, LogInv, NEW p \in Procs,
         pc[p] # "record", pc'[p] \notin {"captured", "record", "rewrite"},
         \A q \in Procs \ {p} : pc'[q] = pc[q] /\ job'[q] = job[q] /\ cache'[q] = cache[q],
         cache'[p] \in {cache[p], <<>>, file.records},
         file' = file, lastId' = lastId,
         \A k \in Knobs : Unsaved(k) => sys'[k] \in {sys[k], 0}
  PROVE  LogInv'
<1>1. LogSize /\ CacheInFile /\ FirstIsOriginal /\ JobIsOriginal /\ UnsavedIsOriginal
  BY DEF LogInv
<1>2. \A k \in Knobs : SavedBy(file.records, k)' = SavedBy(file.records, k)
  OBVIOUS
<1>3. \A k \in Knobs : Unsaved(k)' <=> Unsaved(k)
  BY <1>2 DEF Unsaved
<1>4. Len(<<>>) = 0 /\ DOMAIN <<>> = {}
  BY EmptySeq
<1>5. LogSize'
  <2>1. lastId >= 0
    BY DEF TypeOK
  <2>2. Len(cache'[p]) <= lastId'
    BY <1>1, <1>4, <2>1 DEF LogSize
  <2> QED
    BY <1>1, <2>2 DEF LogSize
<1>6. CacheInFile'
  <2>1. \A i \in DOMAIN file.records : \A k \in Knobs :
          file.records[i].prior[k] # NotSaved => ~ Unsaved(k)
    BY DEF Unsaved, SavedBy
  <2>2. \A i \in DOMAIN cache'[p] : \A k \in Knobs :
          cache'[p][i].prior[k] # NotSaved => ~ Unsaved(k)
    BY <1>1, <1>4, <2>1 DEF CacheInFile
  <2> QED
    BY <1>1, <1>3, <2>2 DEF CacheInFile
<1>7. FirstIsOriginal'
  BY <1>1, <1>2 DEF FirstIsOriginal
<1>8. JobIsOriginal'
  BY <1>1, <1>3 DEF JobIsOriginal, Executing
<1>9. UnsavedIsOriginal'
  <2> SUFFICES ASSUME NEW k \in Knobs, Unsaved(k), sys'[k] # 0
               PROVE  \E q \in Procs : pc'[q] = "record" /\ job'[q].prior[k] # NotSaved
    BY <1>3 DEF UnsavedIsOriginal
  <2>1. sys[k] # 0
    OBVIOUS
  <2>2. PICK q \in Procs : pc[q] = "record" /\ job[q].prior[k] # NotSaved
    BY <1>1, <2>1 DEF UnsavedIsOriginal
  <2> QED
    BY <2>2
<1> QED
  BY <1>5, <1>6, <1>7, <1>8, <1>9 DEF LogInv

(***************************************************************************)
(* Appending an entry adds it to the entries that save its knobs, last.    *)
(***************************************************************************)
LEMMA SavedByAppend ==
  ASSUME NEW es \in Seq(Entries), NEW e \in Entries, NEW k \in Knobs
  PROVE  /\ \A i \in DOMAIN es : Append(es, e)[i] = es[i]
         /\ Append(es, e)[Len(es) + 1] = e
         /\ SavedBy(Append(es, e), k)
              = SavedBy(es, k) \cup (IF e.prior[k] # NotSaved THEN {Len(es) + 1} ELSE {})
<1>1. DOMAIN es = 1 .. Len(es) /\ Len(es) \in Nat
  BY LenProperties
<1>2. /\ DOMAIN Append(es, e) = 1 .. Len(es) + 1
      /\ \A i \in 1 .. Len(es) : Append(es, e)[i] = es[i]
      /\ Append(es, e)[Len(es) + 1] = e
  BY <1>1, AppendProperties, LenProperties
<1>3. DOMAIN Append(es, e) = DOMAIN es \cup {Len(es) + 1}
  BY <1>1, <1>2
<1>4. \A i \in DOMAIN es : Append(es, e)[i] = es[i]
  BY <1>1, <1>2
<1> QED
  BY <1>2, <1>3, <1>4 DEF SavedBy

\* Recording the entry of an executed action keeps the log complete (RollbackStore::record).
LEMMA RecordStep ==
  ASSUME TypeOK, JobsSane, LogInv, Undisturbed', NEW p \in Procs, Record(p)
  PROVE  LogInv'
<1> USE KeepAssumption
<1>0. LogSize /\ CacheInFile /\ FirstIsOriginal /\ JobIsOriginal /\ UnsavedIsOriginal
  BY DEF LogInv
<1> DEFINE e == [id |-> lastId + 1, kind |-> job[p].kind, prior |-> job[p].prior]
           rs == file.records
<1>1. /\ file' = Written(file, e, "line")
      /\ cache' = [cache EXCEPT ![p] = Push(cache[p], e, KeepEntries)]
      /\ lastId' = lastId + 1
  BY DEF Record, Undisturbed
<1>2. /\ pc[p] = "record" /\ pc' = [pc EXCEPT ![p] = "ready"]
      /\ UNCHANGED <<sys, cmd, job>>
  BY DEF Record, Goto
<1>3. /\ e \in Entries /\ e.prior = job[p].prior
      /\ rs \in Seq(Entries) /\ Len(rs) \in Nat /\ DOMAIN rs = 1 .. Len(rs)
      /\ cache[p] \in Seq(Entries) /\ Len(cache[p]) \in Nat
  <2>1. e \in Entries /\ e.prior = job[p].prior
    BY DEF TypeOK, Jobs, Entries
  <2>2. rs \in Seq(Entries) /\ cache[p] \in Seq(Entries)
    BY DEF TypeOK, FileOf
  <2> HIDE DEF e, rs
  <2> QED
    BY <2>1, <2>2, LenProperties
<1> HIDE DEF e
<1>4. file'.records = Append(rs, e) /\ file'.tail = "clean"
  BY <1>0, <1>1 DEF Written, LogSize
<1>5. cache'[p] = Append(cache[p], e) /\ Len(cache'[p]) = Len(cache[p]) + 1
  <2>1. Len(Append(cache[p], e)) = Len(cache[p]) + 1
    BY <1>3, AppendProperties
  <2>2. Len(cache[p]) + 1 <= KeepEntries
    BY <1>0, <1>1, <1>3 DEF LogSize, Undisturbed, TypeOK
  <2>3. Push(cache[p], e, KeepEntries) = Append(cache[p], e)
    BY <2>1, <2>2 DEF Push, LastN
  <2> QED
    BY <1>1, <2>1, <2>3 DEF TypeOK
<1>6. Len(file'.records) = Len(rs) + 1
  BY <1>3, <1>4, AppendProperties
<1> DEFINE Saved(k) == SavedBy(rs, k)
           Saved2(k) == SavedBy(file'.records, k)
<1>7. ASSUME NEW k \in Knobs
      PROVE  /\ \A i \in DOMAIN rs : file'.records[i] = rs[i]
             /\ file'.records[Len(rs) + 1] = e
             /\ Saved2(k) = Saved(k)
                   \cup (IF e.prior[k] # NotSaved THEN {Len(rs) + 1} ELSE {})
  BY <1>3, <1>4, SavedByAppend
<1>8. \A k \in Knobs : Saved(k) \subseteq DOMAIN rs
  BY DEF SavedBy
<1>9. \A k \in Knobs : Unsaved(k)' <=> Saved2(k) = {}
  BY DEF Unsaved
<1>10. \A k \in Knobs : Unsaved(k) <=> Saved(k) = {}
  BY DEF Unsaved
<1>11. \A k \in Knobs : Unsaved(k)' => Unsaved(k) /\ e.prior[k] = NotSaved
  BY <1>7, <1>9, <1>10
<1> HIDE DEF rs, Saved, Saved2
<1>12. LogSize'
  <2>1. Len(file'.records) <= lastId'
    BY <1>0, <1>1, <1>3, <1>6 DEF LogSize, TypeOK, rs
  <2>2. \A q \in Procs : Len(cache'[q]) <= lastId' /\ pc'[q] # "rewrite"
    <3> SUFFICES ASSUME NEW q \in Procs PROVE Len(cache'[q]) <= lastId' /\ pc'[q] # "rewrite"
      OBVIOUS
    <3>1. CASE q = p
      BY <3>1, <1>0, <1>1, <1>2, <1>3, <1>5 DEF LogSize, TypeOK
    <3>2. CASE q # p
      <4>1. cache'[q] = cache[q] /\ pc'[q] = pc[q] /\ Len(cache[q]) \in Nat
        BY <3>2, <1>1, <1>2, LenProperties DEF TypeOK
      <4> QED
        BY <4>1, <1>0, <1>1 DEF LogSize, TypeOK
    <3> QED
      BY <3>1, <3>2
  <2> QED
    BY <2>1, <2>2, <1>4 DEF LogSize
<1>13. CacheInFile'
  <2> SUFFICES ASSUME NEW q \in Procs, NEW i \in DOMAIN cache'[q], NEW k \in Knobs,
                      cache'[q][i].prior[k] # NotSaved
               PROVE  ~ Unsaved(k)'
    BY DEF CacheInFile
  <2>1. CASE q # p
    <3>1. cache'[q] = cache[q]
      BY <2>1, <1>1 DEF TypeOK
    <3>2. ~ Unsaved(k)
      BY <3>1, <1>0 DEF CacheInFile
    <3> QED
      BY <3>2, <1>11
  <2>2. CASE q = p
    <3>1. DOMAIN cache[p] = 1 .. Len(cache[p]) /\ DOMAIN cache'[p] = 1 .. Len(cache[p]) + 1
      BY <1>3, <1>5, AppendProperties, LenProperties
    <3>2. CASE i \in DOMAIN cache[p]
      <4>1. cache'[p][i] = cache[p][i]
        BY <3>2, <1>3, <1>5, SavedByAppend
      <4>2. ~ Unsaved(k)
        BY <4>1, <3>2, <2>2, <1>0 DEF CacheInFile
      <4> QED
        BY <4>2, <1>11
    <3>3. CASE i = Len(cache[p]) + 1
      <4>1. cache'[p][i] = e
        BY <3>3, <1>3, <1>5, SavedByAppend
      <4> QED
        BY <4>1, <2>2, <1>11
    <3> QED
      BY <3>1, <3>2, <3>3, <2>2, <1>3
  <2> QED
    BY <2>1, <2>2
<1>14. FirstIsOriginal'
  <2> SUFFICES ASSUME NEW k \in Knobs, NEW i \in Saved2(k), \A j \in Saved2(k) : i <= j
               PROVE  file'.records[i].prior[k] = 0
    BY DEF FirstIsOriginal, Saved2
  <2>1. CASE i \in Saved(k)
    <3>1. \A j \in Saved(k) : i <= j
      BY <1>7
    <3>2. rs[i].prior[k] = 0
      BY <2>1, <3>1, <1>0 DEF FirstIsOriginal, Saved, rs
    <3> QED
      BY <2>1, <3>2, <1>7, <1>8
  <2>2. CASE i \notin Saved(k)
    <3>1. i = Len(rs) + 1 /\ e.prior[k] # NotSaved
      BY <2>2, <1>7
    <3>2. Saved(k) = {}
      <4> SUFFICES ASSUME NEW j \in Saved(k) PROVE FALSE
        OBVIOUS
      <4>1. j \in 1 .. Len(rs) /\ i <= j
        BY <1>3, <1>7, <1>8
      <4> QED
        BY <4>1, <3>1, <1>3
    <3>3. e.prior[k] = 0
      BY <3>1, <3>2, <1>0, <1>2, <1>3, <1>10 DEF JobIsOriginal, Executing
    <3> QED
      BY <3>1, <3>3, <1>7
  <2> QED
    BY <2>1, <2>2
<1>15. JobIsOriginal'
  <2> SUFFICES ASSUME NEW q \in Procs, NEW k \in Knobs, Executing(q)', Unsaved(k)'
               PROVE  /\ job'[q].prior[k] \in {0, NotSaved}
                      /\ Reversible(job'[q].kind) /\ k \in Changes(job'[q].kind) =>
                           job'[q].prior[k] # NotSaved
    BY DEF JobIsOriginal
  <2>1. Executing(q) /\ job'[q] = job[q]
    BY <1>2 DEF Executing, TypeOK
  <2> QED
    BY <2>1, <1>0, <1>11 DEF JobIsOriginal
<1>16. UnsavedIsOriginal'
  <2> SUFFICES ASSUME NEW k \in Knobs, Unsaved(k)', sys'[k] # 0
               PROVE  \E q \in Procs : pc'[q] = "record" /\ job'[q].prior[k] # NotSaved
    BY DEF UnsavedIsOriginal
  <2>1. Unsaved(k) /\ e.prior[k] = NotSaved /\ sys[k] # 0
    BY <1>2, <1>11
  <2>2. PICK q \in Procs : pc[q] = "record" /\ job[q].prior[k] # NotSaved
    BY <2>1, <1>0 DEF UnsavedIsOriginal
  <2>3. q # p
    BY <2>1, <2>2, <1>3
  <2> QED
    BY <2>2, <2>3, <1>2 DEF TypeOK
<1> QED
  BY <1>12, <1>13, <1>14, <1>15, <1>16 DEF LogInv


\* Every step of every command keeps an undisturbed log complete.
LEMMA StepLogInv ==
  ASSUME TypeOK, JobsSane, Undisturbed => LogInv, [Next]_vars, Undisturbed'
  PROVE  LogInv'
<1>1. /\ Undisturbed /\ ~ Faults /\ lastId \in Nat
      /\ LogInv /\ LogSize /\ JobIsOriginal /\ UnsavedIsOriginal
  <2>1. lastId' >= lastId
    <3>1. ASSUME NEW p \in Procs, Record(p) PROVE lastId' >= lastId
      BY <3>1 DEF Record, TypeOK
    <3>2. ASSUME NEW p \in Procs, Crash(p) PROVE FALSE
      BY <3>2 DEF Crash, Undisturbed
    <3> QED
      BY <3>1, <3>2 DEF Next, vars, Open, Prune, Rewrite, Capture, Change, ChangeFails,
                        Undo, RevertFails, Finish, TypeOK
  <2>2. lastId \in Nat /\ lastId' <= KeepEntries /\ lastId' \in Nat
    BY StepTypeOK DEF Undisturbed, TypeOK
  <2>3. lastId <= KeepEntries
    BY <2>1, <2>2, KeepAssumption
  <2>4. Undisturbed
    BY <2>3 DEF Undisturbed
  <2> QED
    BY <2>2, <2>4 DEF Undisturbed, LogInv
<1>2. ASSUME NEW p \in Procs, Open(p) PROVE LogInv'
  <2>1. cache'[p] = file.records
    BY <1>1, <1>2 DEF Open, TypeOK
  <2> QED
    BY <1>1, <1>2, <2>1, QuietStep DEF Open, Goto, TypeOK
<1>3. ASSUME NEW p \in Procs, Prune(p) PROVE LogInv'
  <2>1. Len(cache[p]) <= KeepEntries
    <3>1. Len(cache[p]) \in Nat /\ Len(cache[p]) <= lastId
      BY <1>1, LenProperties DEF LogSize, TypeOK
    <3> QED
      BY <1>1, <3>1, KeepAssumption DEF Undisturbed
  <2> QED
    BY <1>1, <1>3, <2>1, QuietStep DEF Prune, Goto, TypeOK
<1>4. ASSUME NEW p \in Procs, Rewrite(p) PROVE LogInv'
  BY <1>1, <1>4 DEF Rewrite, LogSize
<1>5. ASSUME NEW p \in Procs, NEW kind \in Kinds, Capture(p, kind) PROVE LogInv'
  <2>1. PICK v : job' = [job EXCEPT ![p] = [kind |-> kind, value |-> v,
                                            prior |-> PriorOf(kind, sys)]]
    BY <1>1, <1>5 DEF Capture
  <2>2. pc[p] = "ready" /\ pc' = [pc EXCEPT ![p] = "captured"] /\ p \in Executors
        /\ UNCHANGED <<sys, file, cache, lastId>>
    BY <1>5 DEF Capture, Goto, JobsSane
  <2>3. \A q \in Procs : pc[q] # "record"
    BY <1>1, <2>2 DEF Undisturbed, JobsSane, Executing
  <2>4. \A k \in Knobs : Unsaved(k) => sys[k] = 0
    BY <1>1, <2>3 DEF UnsavedIsOriginal
  <2>5. /\ \A k \in Knobs : Unsaved(k) => PriorOf(kind, sys)[k] \in {0, NotSaved}
        /\ \A k \in Knobs : (Unsaved(k) /\ Reversible(kind) /\ k \in Changes(kind))
             => PriorOf(kind, sys)[k] # NotSaved
    <3>1. \A k \in Knobs : Unsaved(k) => PriorOf(kind, sys)[k] \in {0, NotSaved}
      BY <2>4 DEF PriorOf
    <3>2. ASSUME NEW k \in Knobs, Unsaved(k), k \in Changes(kind)
          PROVE  k \in Saves(kind, sys)
      <4>1. kind \in AllKinds /\ sys[k] = 0
        BY KindsAssumption, <2>4, <3>2
      <4>2. CASE kind \in {"SetCpuWeight", "SetIoWeight", "SetMemoryHigh"}
        BY <4>2, <3>2 DEF Saves, Changes, UnitLimits
      <4>3. CASE kind = "StopService"
        BY <4>1, <4>3, <3>2 DEF Saves, Changes
      <4>4. CASE kind \notin {"SetCpuWeight", "SetIoWeight", "SetMemoryHigh", "StopService"}
        BY <4>4, <3>2 DEF Saves
      <4> QED
        BY <4>2, <4>3, <4>4
    <3>3. \A k \in Knobs : (Unsaved(k) /\ k \in Changes(kind))
             => PriorOf(kind, sys)[k] # NotSaved
      BY <2>4, <3>2 DEF PriorOf, NotSaved
    <3> QED
      BY <3>1, <3>3
  <2>6. \A k \in Knobs : Unsaved(k)' <=> Unsaved(k)
    BY <2>2 DEF Unsaved, SavedBy
  <2>7. JobIsOriginal'
    <3> SUFFICES ASSUME NEW q \in Procs, NEW k \in Knobs, Executing(q)', Unsaved(k)
                 PROVE  /\ job'[q].prior[k] \in {0, NotSaved}
                        /\ Reversible(job'[q].kind) /\ k \in Changes(job'[q].kind) =>
                             job'[q].prior[k] # NotSaved
      BY <2>6 DEF JobIsOriginal
    <3>1. CASE q = p
      BY <3>1, <2>1, <2>5 DEF TypeOK
    <3>2. CASE q # p
      BY <3>2, <2>1, <2>2, <1>1 DEF JobIsOriginal, Executing, TypeOK
    <3> QED
      BY <3>1, <3>2
  <2>8. UnsavedIsOriginal'
    BY <2>2, <2>4, <2>6 DEF UnsavedIsOriginal
  <2>9. LogSize'
    BY <1>1, <2>2 DEF LogSize, TypeOK
  <2>10. CacheInFile' /\ FirstIsOriginal'
    BY <1>1, <2>2, <2>6 DEF LogInv, CacheInFile, FirstIsOriginal, SavedBy
  <2> QED
    BY <2>7, <2>8, <2>9, <2>10 DEF LogInv
<1>6. ASSUME NEW p \in Procs, Change(p) PROVE LogInv'
  <2>1. /\ pc[p] = "captured"
        /\ UNCHANGED <<file, cmd, cache, job, lastId>>
        /\ \A k \in Knobs : sys'[k] = IF k \in Changes(job[p].kind) THEN job[p].value
                                      ELSE sys[k]
    BY <1>6 DEF Change
  <2>2. CASE ~ Reversible(job[p].kind)
    <3>1. pc' = [pc EXCEPT ![p] = "ready"]
      BY <1>6, <2>2 DEF Change, Goto
    <3>2. \A k \in Knobs : sys'[k] \in {sys[k], 0}
      BY <2>1, <2>2 DEF JobsSane
    <3> QED
      BY <1>1, <2>1, <3>1, <3>2, QuietStep DEF TypeOK
  <2>3. CASE Reversible(job[p].kind)
    <3>1. pc' = [pc EXCEPT ![p] = "record"]
      BY <1>6, <2>3 DEF Change, Goto
    <3>2. \A k \in Knobs : Unsaved(k)' <=> Unsaved(k)
      BY <2>1 DEF Unsaved, SavedBy
    <3>3. LogSize' /\ CacheInFile' /\ FirstIsOriginal'
      BY <1>1, <2>1, <3>1, <3>2
      DEF LogInv, LogSize, CacheInFile, FirstIsOriginal, SavedBy, TypeOK
    <3>4. JobIsOriginal'
      BY <1>1, <2>1, <3>1, <3>2 DEF JobIsOriginal, Executing, TypeOK
    <3>5. UnsavedIsOriginal'
      <4> SUFFICES ASSUME NEW k \in Knobs, Unsaved(k), sys'[k] # 0
                   PROVE  \E q \in Procs : pc'[q] = "record" /\ job[q].prior[k] # NotSaved
        BY <2>1, <3>2 DEF UnsavedIsOriginal
      <4>1. CASE k \in Changes(job[p].kind)
        <5>1. job[p].prior[k] # NotSaved
          BY <1>1, <2>1, <2>3, <4>1 DEF JobIsOriginal, Executing
        <5> QED
          BY <5>1, <3>1 DEF TypeOK
      <4>2. CASE k \notin Changes(job[p].kind)
        <5>1. PICK q \in Procs : pc[q] = "record" /\ job[q].prior[k] # NotSaved
          BY <1>1, <2>1, <4>2 DEF UnsavedIsOriginal
        <5> QED
          BY <5>1, <2>1, <3>1 DEF TypeOK
      <4> QED
        BY <4>1, <4>2
    <3> QED
      BY <3>3, <3>4, <3>5 DEF LogInv
  <2> QED
    BY <2>2, <2>3
<1>7. ASSUME NEW p \in Procs, ChangeFails(p) PROVE LogInv'
  BY <1>1, <1>7, QuietStep DEF ChangeFails, Goto, TypeOK
<1>8. ASSUME NEW p \in Procs, Record(p) PROVE LogInv'
  BY <1>1, <1>8, RecordStep
<1>9. ASSUME NEW p \in Procs, NEW id \in IdsOf(cache[p]), Undo(p, id) PROVE LogInv'
  <2>1. PICK i \in DOMAIN cache[p] : Find(cache[p], id) = cache[p][i]
    BY FindIsEntry DEF TypeOK
  <2>2. \A k \in Knobs : Unsaved(k) => cache[p][i].prior[k] = NotSaved
    BY <1>1 DEF LogInv, CacheInFile
  <2>3. \A k \in Knobs : Unsaved(k) => sys'[k] = sys[k]
    BY <1>9, <2>1, <2>2 DEF Undo, Reverted
  <2> QED
    BY <1>1, <1>9, <2>3, QuietStep DEF Undo, Exit, Goto, TypeOK
<1>r. ASSUME NEW p \in Procs, NEW id \in IdsOf(cache[p]), RevertFails(p, id) PROVE LogInv'
  BY <1>1, <1>r DEF RevertFails
<1>10. ASSUME NEW p \in Procs, Finish(p) PROVE LogInv'
  BY <1>1, <1>10, QuietStep DEF Finish, Exit, Goto, TypeOK
<1>11. ASSUME NEW p \in Procs, Crash(p) PROVE LogInv'
  BY <1>1, <1>11 DEF Crash
<1>12. CASE UNCHANGED vars
  BY <1>1, <1>12 DEF vars, LogInv, LogSize, CacheInFile, FirstIsOriginal, JobIsOriginal,
                     UnsavedIsOriginal, Unsaved, SavedBy, Executing
<1> QED
  BY <1>2, <1>3, <1>4, <1>5, <1>6, <1>7, <1>8, <1>9, <1>r, <1>10, <1>11, <1>12 DEF Next

\* The invariant holds in every reachable state.
LEMMA SpecIInv == Spec => []IInv
<1>1. IInv /\ [Next]_vars => IInv'
  BY StepTypeOK, StepJobsSane, StepLogInv DEF IInv
<1> QED
  BY <1>1, InitIInv, PTL DEF Spec

(***************************************************************************)
(* The undo log is complete (UndoAllRestores), for every number of         *)
(* commands, every set of kinds and values and every keep_entries.         *)
(***************************************************************************)
THEOREM UndoLogComplete == Spec => []UndoAllRestores
<1>1. IInv => UndoAllRestores
  <2> SUFFICES ASSUME IInv, Undisturbed, \A p \in Procs : pc[p] # "record",
                      NEW k \in Knobs
               PROVE  UndoAll(file.records, sys)[k] = 0
    <3>1. ASSUME IInv
          PROVE  UndoAll(file.records, sys) = [k \in Knobs |-> UndoAll(file.records, sys)[k]]
      BY <3>1, UndoAllIsOldest DEF IInv, TypeOK, FileOf
    <3> QED
      BY <3>1 DEF UndoAllRestores, Original
  <2>0. file.records \in Seq(Entries) /\ sys \in [Knobs -> Values]
    BY DEF IInv, TypeOK, FileOf
  <2>1. FirstIsOriginal /\ UnsavedIsOriginal
    BY DEF IInv, LogInv
  <2>2. CASE Unsaved(k)
    BY <2>0, <2>1, <2>2, UndoAllIsOldest DEF UnsavedIsOriginal, Unsaved
  <2>3. CASE ~ Unsaved(k)
    <3>1. /\ FirstSaved(file.records, k) \in SavedBy(file.records, k)
          /\ UndoAll(file.records, sys)[k] = file.records[FirstSaved(file.records, k)].prior[k]
      BY <2>0, <2>3, UndoAllIsOldest DEF Unsaved
    <3>2. \A j \in SavedBy(file.records, k) : FirstSaved(file.records, k) <= j
      <4>1. SavedBy(file.records, k) \in SUBSET Nat /\ SavedBy(file.records, k) # {}
        BY <2>0, <2>3, LenProperties DEF Unsaved, SavedBy
      <4>2. \E i \in SavedBy(file.records, k) : \A j \in SavedBy(file.records, k) : i <= j
        BY <4>1, LeastIndex
      <4> QED
        BY <4>2 DEF FirstSaved
    <3> QED
      BY <2>1, <3>1, <3>2 DEF FirstIsOriginal
  <2> QED
    BY <2>2, <2>3
<1> QED
  BY <1>1, SpecIInv, PTL

-----------------------------------------------------------------------------
(***************************************************************************)
(* Refinement.  While nothing disturbs the log, the way back of a knob is  *)
(* its original value or not there yet, and a knob without one has its     *)
(* original value: so a step need only keep the knobs that have one.       *)
(***************************************************************************)
Covered(k) == ~ Unsaved(k) \/ Recording(k) # {}

BackIsOriginal ==
  /\ Back = [k \in Knobs |-> IF Covered(k) THEN 0 ELSE NotSaved]
  /\ \A k \in Knobs : ~ Covered(k) => sys[k] = 0

LEMMA BackIs == IInv /\ Undisturbed => BackIsOriginal
<1> SUFFICES ASSUME IInv, Undisturbed PROVE BackIsOriginal
  OBVIOUS
<1>1. FirstIsOriginal /\ JobIsOriginal /\ UnsavedIsOriginal /\ TypeOK
  BY DEF IInv, LogInv
<1>2. ASSUME NEW k \in Knobs, ~ Unsaved(k)
      PROVE  file.records[FirstSaved(file.records, k)].prior[k] = 0
  <2>1. SavedBy(file.records, k) \in SUBSET Nat /\ SavedBy(file.records, k) # {}
    BY <1>1, <1>2, LenProperties DEF Unsaved, SavedBy, TypeOK, FileOf
  <2>2. \E i \in SavedBy(file.records, k) : \A j \in SavedBy(file.records, k) : i <= j
    BY <2>1, LeastIndex
  <2>3. /\ FirstSaved(file.records, k) \in SavedBy(file.records, k)
        /\ \A j \in SavedBy(file.records, k) : FirstSaved(file.records, k) <= j
    BY <2>2 DEF FirstSaved
  <2> QED
    BY <1>1, <2>3 DEF FirstIsOriginal
<1>3. ASSUME NEW k \in Knobs, Unsaved(k), Recording(k) # {}
      PROVE  job[CHOOSE p \in Recording(k) : TRUE].prior[k] = 0
  <2>1. (CHOOSE p \in Recording(k) : TRUE) \in Recording(k)
    BY <1>3
  <2> QED
    BY <1>1, <1>3, <2>1 DEF Recording, JobIsOriginal, Executing
<1>4. \A k \in Knobs : Back[k] = IF Covered(k) THEN 0 ELSE NotSaved
  BY <1>2, <1>3 DEF Back, Covered, Unsaved
<1>5. \A k \in Knobs : ~ Covered(k) => sys[k] = 0
  BY <1>1 DEF UnsavedIsOriginal, Covered, Recording
<1>6. Back = [k \in Knobs |-> Back[k]]
  BY DEF Back
<1> QED
  BY <1>4, <1>5, <1>6 DEF BackIsOriginal

\* The untouched system has no way back yet.
LEMMA InitRefines == Init => Log!Init
<1> SUFFICES ASSUME Init PROVE Log!Init
  OBVIOUS
<1>1. file.records = <<>> /\ DOMAIN file.records = {}
  BY EmptySeq DEF Init, NoFile
<1>2. \A k \in Knobs : SavedBy(file.records, k) = {} /\ Recording(k) = {}
  BY <1>1 DEF SavedBy, Recording, Init
<1> QED
  BY <1>2 DEF Init, Back, Log!Init

\* What is saved, or captured and about to be recorded, stays so (record, open).
LEMMA CoveredStays ==
  ASSUME IInv, Undisturbed, Undisturbed', Next, NEW k \in Knobs, Covered(k)
  PROVE  Covered(k)'
<1>1. TypeOK /\ LogSize /\ ~ Faults
  BY DEF IInv, LogInv, Undisturbed
<1>2. ASSUME file' = file,
             \A q \in Procs : pc[q] = "record" => pc'[q] = "record" /\ job'[q] = job[q]
      PROVE  Covered(k)'
  BY <1>2 DEF Covered, Unsaved, Recording, SavedBy
<1>3. ASSUME NEW p \in Procs, Prune(p) PROVE Covered(k)'
  <2>1. Len(cache[p]) <= KeepEntries
    <3>1. Len(cache[p]) \in Nat /\ Len(cache[p]) <= lastId
      BY <1>1, LenProperties DEF LogSize, TypeOK
    <3> QED
      BY <1>1, <3>1, KeepAssumption DEF Undisturbed, TypeOK
  <2> QED
    BY <1>2, <1>3, <2>1, <1>1 DEF Prune, Goto, TypeOK
<1>4. ASSUME NEW p \in Procs, Record(p) PROVE Covered(k)'
  <2> DEFINE e == [id |-> lastId + 1, kind |-> job[p].kind, prior |-> job[p].prior]
             rs == file.records
  <2>1. /\ file' = Written(file, e, "line")
        /\ pc[p] = "record" /\ pc' = [pc EXCEPT ![p] = "ready"] /\ job' = job
    BY <1>4 DEF Record, Goto, Undisturbed
  <2>2. e \in Entries /\ e.prior = job[p].prior /\ rs \in Seq(Entries)
    BY <1>1 DEF TypeOK, Jobs, Entries, FileOf
  <2> HIDE DEF e
  <2>3. file'.records = Append(rs, e)
    BY <1>1, <2>1 DEF Written, LogSize
  <2>4. SavedBy(file'.records, k)
          = SavedBy(rs, k) \cup (IF e.prior[k] # NotSaved THEN {Len(rs) + 1} ELSE {})
    BY <2>2, <2>3, SavedByAppend
  <2>5. CASE ~ Unsaved(k)
    BY <2>4, <2>5 DEF Covered, Unsaved
  <2>6. CASE Recording(k) # {}
    <3>1. PICK q \in Procs : pc[q] = "record" /\ job[q].prior[k] # NotSaved
      BY <2>6 DEF Recording
    <3>2. CASE q = p
      BY <2>2, <2>4, <3>1, <3>2 DEF Covered, Unsaved
    <3>3. CASE q # p
      BY <2>1, <3>1, <3>3, <1>1 DEF Covered, Recording, TypeOK
    <3> QED
      BY <3>2, <3>3
  <2> QED
    BY <2>5, <2>6 DEF Covered
<1>5. ASSUME NEW p \in Procs, NEW kind \in Kinds, Capture(p, kind) PROVE Covered(k)'
  BY <1>5, <1>2, <1>1 DEF Capture, Goto, TypeOK
<1>6. ASSUME NEW p \in Procs,
             Open(p) \/ Change(p) \/ ChangeFails(p) \/ Finish(p)
      PROVE  Covered(k)'
  BY <1>6, <1>2, <1>1 DEF Open, Change, ChangeFails, Finish, Exit, Goto, TypeOK
<1>7. ASSUME NEW p \in Procs, NEW id \in IdsOf(cache[p]),
             Undo(p, id) \/ RevertFails(p, id)
      PROVE  Covered(k)'
  BY <1>7, <1>2, <1>1 DEF Undo, RevertFails, Exit, Goto, TypeOK
<1>8. ASSUME NEW p \in Procs, Rewrite(p) \/ Crash(p) PROVE Covered(k)'
  BY <1>8, <1>1 DEF Rewrite, Crash, LogSize
<1> QED
  BY <1>3, <1>4, <1>5, <1>6, <1>7, <1>8 DEF Next

\* Every undisturbed step saves what it touches first, or touches what is saved.
LEMMA StepRefines ==
  IInv /\ Undisturbed /\ IInv' /\ Undisturbed' /\ [Next]_vars => [Log!Next]_(Log!vars)
<1> SUFFICES ASSUME IInv, Undisturbed, IInv', Undisturbed', [Next]_vars
             PROVE  [Log!Next]_(Log!vars)
  OBVIOUS
<1>a. BackIsOriginal /\ BackIsOriginal'
  BY BackIs, PTL
<1>1. CASE UNCHANGED vars
  <2>1. \A k \in Knobs : Covered(k)' <=> Covered(k)
    BY <1>1 DEF vars, Covered, Unsaved, Recording, SavedBy
  <2>2. Back' = Back
    BY <1>a, <2>1 DEF BackIsOriginal
  <2> QED
    BY <1>1, <2>2 DEF vars, Log!vars
<1>2. CASE Next
  <2> DEFINE fresh == {k \in Knobs : ~ Covered(k) /\ Covered(k)'}
  <2>1. /\ Back = [k \in Knobs |-> IF Covered(k) THEN 0 ELSE NotSaved]
        /\ \A k \in Knobs : ~ Covered(k) => sys[k] = 0
    BY <1>a DEF BackIsOriginal
  <2>2. /\ Back' = [k \in Knobs |-> IF Covered(k)' THEN 0 ELSE NotSaved]
        /\ \A k \in Knobs : ~ Covered(k)' => sys'[k] = 0
    BY <1>a DEF BackIsOriginal
  <2>3. \A k \in Knobs : Covered(k) => Covered(k)'
    BY <1>2, CoveredStays
  <2>4. NotSaved # 0
    BY DEF NotSaved
  <2>5. fresh \in SUBSET {k \in Knobs : Back[k] = NotSaved}
    BY <2>1
  <2>6. Back' = [k \in Knobs |-> IF k \in fresh THEN sys[k] ELSE Back[k]]
    BY <2>1, <2>2, <2>3
  <2>7. sys' \in [Knobs -> Values]
    BY DEF IInv, TypeOK
  <2>8. \A k \in Knobs : sys'[k] # sys[k] => Back'[k] # NotSaved
    BY <2>1, <2>2, <2>3, <2>4
  <2> HIDE DEF fresh
  <2> QED
    BY <2>5, <2>6, <2>7, <2>8 DEF Log!Next, Log!Touch
<1> QED
  BY <1>1, <1>2

(***************************************************************************)
(* The executor and its store implement UndoLog: with one executor, no     *)
(* fault and no overflow, for any commands, kinds, values and store size.  *)
(***************************************************************************)
THEOREM RefinesUndoLog == Spec /\ []Undisturbed => ImplementsUndoLog
<1> QED
  BY InitRefines, StepRefines, SpecIInv, PTL DEF Spec, ImplementsUndoLog, Log!Spec

-----------------------------------------------------------------------------
(***************************************************************************)
(* The store until it overflows.  With ids of their own, neither the file  *)
(* nor what any process has loaded holds more entries than there are ids,  *)
(* so no process finds the store over its limit before the newest id has   *)
(* passed it -- whatever crashes, fails or overlaps.                       *)
(***************************************************************************)
Counted ==
  ~ SameMs =>
    /\ Len(file.records) <= lastId
    /\ \A p \in Procs : /\ Len(cache[p]) <= lastId
                        /\ pc[p] = "rewrite" => lastId > KeepEntries

\* An append keeps every settled record, and adds at most one (record).
LEMMA WrittenKeeps ==
  ASSUME NEW f \in FileOf(Entries), NEW l \in Entries, NEW outcome \in Outcomes
  PROVE  LET old == Settled(f)
             new == Written(f, l, outcome).records
         IN  /\ Len(new) <= Len(f.records) + 1
             /\ Len(new) >= Len(old)
             /\ SubSeq(new, 1, Len(old)) = old
<1> DEFINE rs == f.records
           old == Settled(f)
           new == Written(f, l, outcome).records
<1>1. rs \in Seq(Entries) /\ Len(rs) \in Nat /\ f.tail \in Tails
      /\ (f.tail = "unterminated" => rs # <<>>)
      /\ f = [records |-> rs, tail |-> f.tail]
  BY LenProperties DEF FileOf
<1>2. /\ Append(rs, l) \in Seq(Entries) /\ Len(Append(rs, l)) = Len(rs) + 1
      /\ SubSeq(Append(rs, l), 1, Len(rs)) = rs
  BY <1>1, SMTT(30)
<1>3. SubSeq(rs, 1, Len(rs)) = rs
  BY <1>1, SMTT(30)
<1>4. CASE f.tail = "unterminated"
  <2> DEFINE kept == SubSeq(rs, 1, Len(rs) - 1)
  <2>1. Len(rs) >= 1
    BY <1>1, <1>4, EmptySeq
  <2>2. kept \in Seq(Entries) /\ Len(kept) = Len(rs) - 1
        /\ SubSeq(kept, 1, Len(kept)) = kept
    <3>1. \A i \in 1 .. Len(rs) - 1 : rs[i] \in Entries
      BY <1>1
    <3>2. kept \in Seq(Entries) /\ Len(kept) = Len(rs) - 1
      <4> DEFINE n == Len(rs) - 1
      <4>1. n \in Nat /\ (IF 1 <= n THEN n - 1 + 1 ELSE 0) = n
        <5>1. \A m \in Nat : m >= 1 =>
                m - 1 \in Nat /\ (IF 1 <= m - 1 THEN m - 1 - 1 + 1 ELSE 0) = m - 1
          OBVIOUS
        <5> QED
          BY <1>1, <2>1, <5>1
      <4>2. SubSeq(rs, 1, n) \in Seq(Entries)
            /\ Len(SubSeq(rs, 1, n)) = IF 1 <= n THEN n - 1 + 1 ELSE 0
        <5> HIDE DEF n, rs
        <5> QED
          BY <3>1, <4>1, SubSeqProperties DEF n
      <4> QED
        BY <4>1, <4>2
    <3> HIDE DEF kept
    <3>3. SubSeq(kept, 1, Len(kept)) = kept
      BY <3>2, SMTT(30)
    <3> QED
      BY <3>2, <3>3
  <2>3. old = kept /\ new \in {rs, kept}
    BY <1>1, <1>4 DEF Settled, Written
  <2> HIDE DEF rs, old, new
  <2>4. SubSeq(rs, 1, Len(kept)) = kept
    BY <2>2
  <2> HIDE DEF kept
  <2>5. Len(new) <= Len(rs) + 1 /\ Len(new) >= Len(old)
    BY <1>1, <2>2, <2>3
  <2>6. SubSeq(new, 1, Len(old)) = old
    BY <2>2, <2>3, <2>4
  <2> QED
    BY <2>5, <2>6 DEF rs, old, new
<1>5. CASE f.tail # "unterminated"
  <2>1. old = rs
    BY <1>5 DEF Settled
  <2>2. new \in {rs, Append(rs, l)}
    BY <1>1, <1>5 DEF Written
  <2> HIDE DEF rs, old, new
  <2>3. Len(new) <= Len(rs) + 1 /\ Len(new) >= Len(old)
    BY <1>1, <1>2, <2>1, <2>2
  <2>4. SubSeq(new, 1, Len(old)) = old
    BY <1>2, <1>3, <2>1, <2>2
  <2> QED
    BY <2>3, <2>4 DEF rs, old, new
<1> QED
  BY <1>4, <1>5

\* What a step writes besides pruning is one append of one entry (record, a crash in it).
LEMMA StepWrites ==
  ASSUME TypeOK, NEW p \in Procs, Record(p) \/ Crash(p), ~ SameMs
  PROVE  \/ file' = file /\ lastId' = lastId
         \/ /\ lastId' = lastId + 1
            /\ \E l \in Entries, outcome \in Outcomes : file' = Written(file, l, outcome)
<1> DEFINE e == [id |-> lastId + 1, kind |-> job[p].kind, prior |-> job[p].prior]
<1>1. e \in Entries
  BY DEF TypeOK, Entries, Jobs
<1>2. CASE Record(p)
  <2>1. PICK outcome \in (IF Faults THEN Outcomes ELSE {"line"}) :
          file' = Written(file, e, outcome) /\ lastId' = lastId + 1
    BY <1>2 DEF Record
  <2>2. outcome \in Outcomes
    BY DEF Outcomes
  <2> QED
    BY <1>1, <2>1, <2>2
<1>3. CASE Crash(p)
  BY <1>1, <1>3 DEF Crash
<1> QED
  BY <1>2, <1>3

\* No store outgrows the ids.
LEMMA StepCounted == TypeOK /\ Counted /\ [Next]_vars => Counted'
<1> SUFFICES ASSUME TypeOK, Counted, [Next]_vars, ~ SameMs PROVE Counted'
  BY DEF Counted
<1>1. /\ file \in FileOf(Entries) /\ file.records \in Seq(Entries)
      /\ Len(file.records) \in Nat /\ Len(file.records) <= lastId
      /\ lastId \in Nat /\ KeepEntries \in Nat
      /\ \A q \in Procs : /\ cache[q] \in Seq(Entries) /\ Len(cache[q]) \in Nat
                          /\ Len(cache[q]) <= lastId
                          /\ pc[q] = "rewrite" => lastId > KeepEntries
      /\ Len(<<>>) = 0
  BY KeepAssumption, LenProperties, EmptySeq DEF TypeOK, FileOf, Counted
<1>2. ASSUME NEW p \in Procs, Open(p) PROVE Counted'
  <2>1. Len(cache'[p]) <= lastId
    BY <1>1, <1>2 DEF Open, TypeOK
  <2> QED
    BY <1>1, <1>2, <2>1 DEF Open, Goto, Counted, TypeOK
<1>3. ASSUME NEW p \in Procs, Prune(p) PROVE Counted'
  <2>1. CASE Len(cache[p]) <= KeepEntries
    BY <1>1, <1>3, <2>1 DEF Prune, Goto, Counted, TypeOK
  <2>2. CASE ~ (Len(cache[p]) <= KeepEntries)
    <3>1. file'.records = <<>> /\ lastId' = lastId
          /\ cache' = [cache EXCEPT ![p] = LastN(cache[p], KeepEntries)]
          /\ pc' = [pc EXCEPT ![p] = "rewrite"]
      BY <1>3, <2>2 DEF Prune, Goto
    <3>2. Len(LastN(cache[p], KeepEntries)) = KeepEntries
      BY <1>1, <2>2, LastNProperties
    <3>3. lastId > KeepEntries
      BY <1>1, <2>2
    <3> QED
      BY <1>1, <3>1, <3>2, <3>3 DEF Counted, TypeOK
  <2> QED
    BY <2>1, <2>2
<1>4. ASSUME NEW p \in Procs, Rewrite(p) PROVE Counted'
  <2>1. PICK n \in 0 .. Len(cache[p]) :
          file' = [records |-> SubSeq(cache[p], 1, n)
                                 \o SubSeq(file.records, n + 1, Len(file.records)),
                   tail |-> IF Len(file.records) > n THEN file.tail ELSE "clean"]
    BY <1>4 DEF Rewrite
  <2> DEFINE s == SubSeq(cache[p], 1, n)
             t == SubSeq(file.records, n + 1, Len(file.records))
  <2>2. s \in Seq(Entries) /\ Len(s) = n
    BY <1>1, SubSeqProperties
  <2>3. t \in Seq(Entries)
        /\ Len(t) = IF n + 1 <= Len(file.records) THEN Len(file.records) - n ELSE 0
    BY <1>1, SubSeqProperties
  <2> HIDE DEF s, t
  <2>4. Len(s \o t) = Len(s) + Len(t)
    BY <2>2, <2>3, ConcatProperties
  <2>5. Len(s \o t) <= lastId
    BY <1>1, <2>2, <2>3, <2>4
  <2>6. file'.records = s \o t
    BY <2>1 DEF s, t
  <2> QED
    BY <1>1, <1>4, <2>5, <2>6 DEF Rewrite, Goto, Counted, TypeOK
<1>5. ASSUME NEW p \in Procs,
             (\E kind \in Kinds : Capture(p, kind)) \/ Change(p) \/ ChangeFails(p)
      PROVE  Counted'
  BY <1>1, <1>5 DEF Capture, Change, ChangeFails, Goto, Counted, TypeOK
<1>6. ASSUME NEW p \in Procs, Record(p) \/ Crash(p) PROVE Counted'
  <2>1. Len(file'.records) <= lastId' /\ lastId' >= lastId /\ lastId' \in Nat
    BY <1>1, <1>6, StepWrites, WrittenKeeps
  <2>2. CASE Crash(p)
    BY <1>1, <2>1, <2>2 DEF Crash, Exit, Goto, Counted, TypeOK
  <2>3. CASE Record(p)
    <3> DEFINE e == [id |-> lastId + 1, kind |-> job[p].kind, prior |-> job[p].prior]
    <3>1. /\ e \in Entries
          /\ cache' = [cache EXCEPT ![p] = Push(cache[p], e, KeepEntries)]
          /\ lastId' = lastId + 1
      BY <2>3 DEF Record, TypeOK, Entries, Jobs
    <3> HIDE DEF e
    <3>2. Len(Push(cache[p], e, KeepEntries)) <= lastId + 1
      <4>1. /\ Append(cache[p], e) \in Seq(Entries)
            /\ Len(Append(cache[p], e)) = Len(cache[p]) + 1
        BY <1>1, <3>1, AppendProperties
      <4> DEFINE a == Append(cache[p], e)
      <4> HIDE DEF a
      <4>a. a \in Seq(Entries) /\ Len(a) = Len(cache[p]) + 1
        BY <4>1 DEF a
      <4>2. Len(LastN(a, KeepEntries)) <= Len(a)
        BY <1>1, <4>a, LastNProperties
      <4> QED
        BY <1>1, <4>a, <4>2 DEF Push, a
    <3>3. pc' = [pc EXCEPT ![p] = "ready"]
      BY <2>3 DEF Record, Goto
    <3> QED
      BY <1>1, <2>1, <3>1, <3>2, <3>3 DEF Counted, TypeOK
  <2> QED
    BY <1>6, <2>2, <2>3
<1>7. ASSUME NEW p \in Procs,
             \/ \E id \in IdsOf(cache[p]) : Undo(p, id) \/ RevertFails(p, id)
             \/ Finish(p)
      PROVE  Counted'
  BY <1>1, <1>7 DEF Undo, RevertFails, Finish, Exit, Goto, Counted, TypeOK
<1>8. CASE UNCHANGED vars
  BY <1>1, <1>8 DEF vars, Counted
<1> QED
  BY <1>2, <1>3, <1>4, <1>5, <1>6, <1>7, <1>8 DEF Next

(***************************************************************************)
(* Until the store overflows it is append-only (AppendOnly), for any       *)
(* number of concurrent commands, with crashes, failed writes and          *)
(* unreadable files, as long as no two entries share an id.                *)
(***************************************************************************)
THEOREM StoreAppendOnly == ASSUME ~ SameMs PROVE Spec => AppendOnly
<1> DEFINE Kept == lastId <= KeepEntries
                     => LET old == Settled(file)
                        IN  /\ Len(file'.records) >= Len(old)
                            /\ SubSeq(file'.records, 1, Len(old)) = old
<1>1. Init => Counted
  BY KeepAssumption, EmptySeq DEF Init, Counted, NoFile
<1>2. TypeOK /\ Counted /\ [Next]_vars => [Kept]_vars
  <2> SUFFICES ASSUME TypeOK, Counted, Next, lastId <= KeepEntries
               PROVE  LET old == Settled(file)
                      IN  /\ Len(file'.records) >= Len(old)
                          /\ SubSeq(file'.records, 1, Len(old)) = old
    OBVIOUS
  <2>1. /\ file \in FileOf(Entries) /\ lastId \in Nat /\ KeepEntries \in Nat
        /\ \A q \in Procs : Len(cache[q]) \in Nat /\ Len(cache[q]) <= lastId
                            /\ pc[q] # "rewrite"
    BY KeepAssumption, LenProperties DEF TypeOK, Counted
  <2>2. \/ file' = file
        \/ \E l \in Entries, outcome \in Outcomes : file' = Written(file, l, outcome)
    <3>1. ASSUME NEW p \in Procs, Prune(p) PROVE file' = file
      <4>1. Len(cache[p]) <= KeepEntries
        BY <2>1
      <4> QED
        BY <3>1, <4>1 DEF Prune
    <3>2. ASSUME NEW p \in Procs, Record(p) \/ Crash(p)
          PROVE  \/ file' = file
                 \/ \E l \in Entries, outcome \in Outcomes :
                      file' = Written(file, l, outcome)
      BY <3>2, StepWrites
    <3>3. ASSUME NEW p \in Procs, Rewrite(p) PROVE FALSE
      BY <2>1, <3>3 DEF Rewrite
    <3> QED
      BY <3>1, <3>2, <3>3 DEF Next, Open, Capture, Change, ChangeFails, Undo, RevertFails,
                                   Finish
  <2>3. CASE file' = file
    <3>1. "nothing" \in Outcomes /\ \A l : Written(file, l, "nothing") = file
      BY DEF Outcomes, Written
    <3>2. [id |-> 0, kind |-> "ApplyZram", prior |-> NoPrior] \in Entries
      BY PriorTyped DEF Entries, AllKinds
    <3> QED
      BY <2>1, <2>3, <3>1, <3>2, WrittenKeeps
  <2>4. CASE \E l \in Entries, outcome \in Outcomes : file' = Written(file, l, outcome)
    BY <2>1, <2>4, WrittenKeeps
  <2> QED
    BY <2>2, <2>3, <2>4
<1> QED
  BY <1>1, <1>2, StepCounted, TypeCorrect, PTL DEF Spec, AppendOnly

-----------------------------------------------------------------------------
(***************************************************************************)
(* With faults.  The log is no longer complete, and the                    *)
(* invariant speaks of the knobs that were never exposed: one that is      *)
(* changed has a way back in the file or in the entry about to be          *)
(* recorded; the oldest entry that saved it holds its original value; what *)
(* an undo has loaded, and what an action has captured, is its original    *)
(* value too unless the file has an older entry, in the case of a loaded   *)
(* one an entry that no append can take along any more.                    *)
(***************************************************************************)
Holds(es, k) ==
  \A i \in SavedBy(es, k) :
    (\A j \in SavedBy(es, k) : i <= j) => es[i].prior[k] = 0

SettledSaves(k) == SavedBy(Settled(file), k) # {}

OldestHolds == \A k \in Knobs : k \notin exposed => Holds(file.records, k)

LoadedHolds ==
  \A p \in Procs : cmd[p] = "undo" =>
    \A i \in DOMAIN cache[p] : \A k \in Knobs :
      k \notin exposed /\ cache[p][i].prior[k] \notin {NotSaved, 0} => SettledSaves(k)

CapturedIsOriginal(p, k) ==
  /\ job[p].prior[k] \in {NotSaved, 0}
  /\ job[p].kind \notin PlainCalls /\ k \in Changes(job[p].kind) =>
       job[p].prior[k] # NotSaved
  /\ pc[p] = "record" /\ k \notin Changes(job[p].kind) => sys[k] = 0

JobHolds ==
  \A p \in Procs : Executing(p) =>
    \A k \in Knobs : k \notin exposed /\ Unsaved(k) => CapturedIsOriginal(p, k)

EInv ==
  /\ TypeOK /\ JobsSane /\ Counted
  /\ Regular => Bare \subseteq exposed /\ OldestHolds /\ LoadedHolds /\ JobHolds

\* One executor: whoever executes is alone in it (actions apply).
LEMMA ExecutesAlone ==
  ASSUME JobsSane, Regular, NEW p \in Procs, cmd[p] = "apply"
  PROVE  \A q \in Procs : Executing(q) => q = p
BY DEF JobsSane, Regular

\* An append leaves the entries, adds one, or takes the last one along (record).
LEMMA WrittenCases ==
  ASSUME NEW f \in FileOf(Entries), NEW e \in Entries, NEW outcome \in Outcomes
  PROVE  LET new == Written(f, e, outcome)
         IN  \/ new.records = f.records /\ Settled(new) = Settled(f)
             \/ new.records = Append(f.records, e) /\ Settled(f) = f.records
                  /\ Settled(new) \in {f.records, Append(f.records, e)}
             \/ /\ f.tail = "unterminated"
                /\ new.records = Settled(f) /\ Settled(new) = Settled(f)
<1> DEFINE new == Written(f, e, outcome)
           rs == f.records
<1>1. rs \in Seq(Entries) /\ Len(rs) \in Nat /\ f.tail \in Tails
      /\ f = [records |-> rs, tail |-> f.tail]
  BY LenProperties DEF FileOf
<1>2. Len(Append(rs, e)) = Len(rs) + 1 /\ SubSeq(Append(rs, e), 1, Len(rs)) = rs
  BY <1>1, SMTT(30)
<1>3. CASE outcome = "nothing"
  BY <1>3 DEF Written
<1>4. CASE outcome = "created"
  BY <1>1, <1>4 DEF Written, Settled, Tails
<1>5. CASE outcome \notin {"nothing", "created"} /\ f.tail \in {"absent", "clean"}
  <2>1. Settled(f) = rs
    BY <1>5 DEF Settled
  <2>2. CASE outcome = "line"
    BY <1>5, <2>1, <2>2 DEF Written, Settled
  <2>3. CASE outcome = "json"
    <3>1. new.records = Append(rs, e) /\ new.tail = "unterminated"
      BY <1>5, <2>3 DEF Written
    <3>2. Settled(new) = SubSeq(Append(rs, e), 1, Len(rs))
      <4>1. Settled(new) = SubSeq(Append(rs, e), 1, Len(Append(rs, e)) - 1)
        BY <3>1 DEF Settled
      <4>2. Len(Append(rs, e)) - 1 = Len(rs)
        BY <1>1, <1>2
      <4> QED
        BY <4>1, <4>2
    <3> QED
      BY <1>2, <2>1, <3>1, <3>2
  <2>4. CASE outcome \notin {"line", "json"}
    BY <1>5, <2>1, <2>4 DEF Written, Settled
  <2> QED
    BY <2>2, <2>3, <2>4
<1>6. CASE outcome \notin {"nothing", "created"} /\ f.tail \notin {"absent", "clean"}
  <2>1. new.records = Settled(f) /\ new.tail # "unterminated"
    BY <1>6 DEF Written, Settled
  <2>2. Settled(new) = Settled(f)
    BY <2>1 DEF Settled
  <2>3. f.tail # "unterminated" => Settled(f) = rs
    BY DEF Settled
  <2> HIDE DEF new
  <2> QED
    BY <2>1, <2>2, <2>3 DEF new
<1> QED
  BY <1>3, <1>4, <1>5, <1>6

\* The settled entries of a file are its entries but for the last, or all of them.
LEMMA SettledEntries ==
  ASSUME NEW f \in FileOf(Entries), NEW k \in Knobs
  PROVE  /\ Settled(f) \in Seq(Entries)
         /\ \A i \in DOMAIN Settled(f) : i \in DOMAIN f.records /\ Settled(f)[i] = f.records[i]
         /\ SavedBy(Settled(f), k)
              = IF f.tail = "unterminated" THEN SavedBy(f.records, k) \ {Len(f.records)}
                                           ELSE SavedBy(f.records, k)
<1> DEFINE rs == f.records
           n == Len(rs) - 1
<1>1. rs \in Seq(Entries) /\ Len(rs) \in Nat /\ DOMAIN rs = 1 .. Len(rs)
      /\ (f.tail = "unterminated" => Len(rs) >= 1)
  BY LenProperties, EmptySeq DEF FileOf
<1>2. CASE f.tail # "unterminated"
  BY <1>1, <1>2 DEF Settled
<1>3. CASE f.tail = "unterminated"
  <2>1. n \in Nat /\ n <= Len(rs) /\ (IF 1 <= n THEN n - 1 + 1 ELSE 0) = n
    <3>1. \A m \in Nat : m >= 1 =>
            /\ m - 1 \in Nat /\ m - 1 <= m
            /\ (IF 1 <= m - 1 THEN m - 1 - 1 + 1 ELSE 0) = m - 1
      OBVIOUS
    <3> QED
      BY <1>1, <1>3, <3>1
  <2>2. \A i \in 1 .. n : rs[i] \in Entries
    BY <1>1, <2>1
  <2> DEFINE s == SubSeq(rs, 1, n)
  <2>3. /\ s \in Seq(Entries) /\ Len(s) = n
        /\ \A i \in 1 .. n : s[i] = rs[i]
    <3>1. /\ s \in Seq(Entries)
          /\ Len(s) = IF 1 <= n THEN n - 1 + 1 ELSE 0
          /\ \A i \in 1 .. n - 1 + 1 : s[i] = rs[1 + i - 1]
      <4> HIDE DEF n, rs
      <4> QED
        BY <2>1, <2>2, SubSeqProperties
    <3>2. \A i \in 1 .. n : i \in 1 .. n - 1 + 1 /\ 1 + i - 1 = i
      <4> HIDE DEF n
      <4> QED
        BY <2>1
    <3> HIDE DEF s, n
    <3> QED
      BY <2>1, <3>1, <3>2
  <2>4. Settled(f) = s
    BY <1>3 DEF Settled
  <2>5. DOMAIN s = 1 .. n
    BY <2>3, LenProperties
  <2>6. 1 .. n = (1 .. Len(rs)) \ {Len(rs)}
    BY <1>1, <2>1
  <2> HIDE DEF s, n, rs
  <2>7. SavedBy(s, k) = SavedBy(rs, k) \ {Len(rs)}
    BY <1>1, <2>3, <2>5, <2>6 DEF SavedBy
  <2> QED
    BY <1>1, <1>3, <2>3, <2>4, <2>5, <2>6, <2>7 DEF rs
<1> QED
  BY <1>2, <1>3

(***************************************************************************)
(* A loaded entry that holds another value than the original one is not    *)
(* the oldest to save its knob, and the oldest is settled.                 *)
(***************************************************************************)
LEMMA LoadedIsSettled ==
  ASSUME NEW f \in FileOf(Entries), NEW k \in Knobs, Holds(f.records, k),
         NEW i \in DOMAIN f.records, f.records[i].prior[k] \notin {NotSaved, 0}
  PROVE  SavedBy(Settled(f), k) # {}
<1> DEFINE S == SavedBy(f.records, k)
<1>1. DOMAIN f.records = 1 .. Len(f.records) /\ Len(f.records) \in Nat
  BY LenProperties DEF FileOf
<1>2. i \in S /\ S \in SUBSET Nat
  BY <1>1 DEF SavedBy
<1>3. PICK j \in S : \A l \in S : j <= l
  BY <1>2, LeastIndex
<1>4. f.records[j].prior[k] = 0
  BY <1>3 DEF Holds
<1>5. j # Len(f.records)
  BY <1>1, <1>2, <1>3, <1>4
<1> QED
  BY <1>3, <1>5, SettledEntries

\* An append keeps what the oldest entries hold, and what is settled (record).
LEMMA WrittenHolds ==
  ASSUME NEW f \in FileOf(Entries), NEW e \in Entries, NEW outcome \in Outcomes,
         NEW k \in Knobs, Holds(f.records, k),
         SavedBy(f.records, k) = {} => e.prior[k] \in {NotSaved, 0}
  PROVE  /\ Holds(Written(f, e, outcome).records, k)
         /\ SavedBy(Settled(f), k) # {}
              => SavedBy(Settled(Written(f, e, outcome)), k) # {}
<1> DEFINE new == Written(f, e, outcome)
           rs == f.records
<1>1. rs \in Seq(Entries) /\ Len(rs) \in Nat /\ DOMAIN rs = 1 .. Len(rs)
  BY LenProperties DEF FileOf
<1>2. \/ new.records = rs /\ Settled(new) = Settled(f)
      \/ new.records = Append(rs, e) /\ Settled(f) = rs /\ Settled(new) \in {rs, Append(rs, e)}
      \/ /\ f.tail = "unterminated"
         /\ new.records = Settled(f) /\ Settled(new) = Settled(f)
  BY WrittenCases
<1>3. CASE new.records = rs /\ Settled(new) = Settled(f)
  BY <1>3
<1>4. CASE new.records = Append(rs, e) /\ Settled(f) = rs /\ Settled(new) \in {rs, Append(rs, e)}
  <2> HIDE DEF new, rs
  <2> DEFINE n == Len(rs) + 1
             old == SavedBy(rs, k)
             now == SavedBy(Append(rs, e), k)
  <2>1. /\ \A i \in DOMAIN rs : Append(rs, e)[i] = rs[i]
        /\ Append(rs, e)[n] = e
        /\ now = old \cup (IF e.prior[k] # NotSaved THEN {n} ELSE {})
    BY <1>1, SavedByAppend
  <2>2. old \subseteq 1 .. Len(rs)
    BY <1>1 DEF SavedBy
  <2>3. ASSUME NEW i \in now, \A j \in now : i <= j
        PROVE  Append(rs, e)[i].prior[k] = 0
    <3>1. CASE i \in old
      <4>1. \A j \in old : i <= j
        BY <2>1, <2>3
      <4>2. rs[i].prior[k] = 0
        BY <3>1, <4>1 DEF Holds, rs
      <4> QED
        BY <1>1, <2>1, <2>2, <3>1, <4>2
    <3>2. CASE i \notin old
      <4>1. i = n /\ e.prior[k] # NotSaved
        BY <2>1, <3>2
      <4>2. old = {}
        <5> SUFFICES ASSUME NEW j \in old PROVE FALSE
          OBVIOUS
        <5>1. n <= j /\ j \in 1 .. Len(rs)
          BY <2>1, <2>2, <2>3, <4>1
        <5> QED
          BY <1>1, <5>1
      <4>3. e.prior[k] = 0
        BY <4>1, <4>2 DEF rs
      <4> QED
        BY <2>1, <4>1, <4>3
    <3> QED
      BY <3>1, <3>2
  <2>4. Holds(new.records, k)
    BY <1>4, <2>3 DEF Holds
  <2>5. SavedBy(Settled(f), k) # {} => SavedBy(Settled(new), k) # {}
    BY <1>4, <2>1
  <2> QED
    BY <2>4, <2>5 DEF new
<1>5. CASE f.tail = "unterminated" /\ new.records = Settled(f) /\ Settled(new) = Settled(f)
  <2> HIDE DEF new
  <2> DEFINE old == SavedBy(rs, k)
             now == SavedBy(Settled(f), k)
  <2>1. /\ now = old \ {Len(rs)}
        /\ \A i \in DOMAIN Settled(f) : i \in DOMAIN rs /\ Settled(f)[i] = rs[i]
    BY <1>5, SettledEntries
  <2>2. old \subseteq 1 .. Len(rs) /\ now \subseteq DOMAIN Settled(f)
    BY <1>1 DEF SavedBy
  <2>3. ASSUME NEW i \in now, \A j \in now : i <= j
        PROVE  Settled(f)[i].prior[k] = 0
    <3>1. i \in old /\ i <= Len(rs)
      BY <1>1, <2>1, <2>2, <2>3
    <3>2. \A j \in old : i <= j
      BY <2>1, <2>3, <3>1
    <3>3. rs[i].prior[k] = 0
      BY <3>1, <3>2 DEF Holds
    <3> QED
      BY <2>1, <2>2, <2>3, <3>3
  <2>4. Holds(new.records, k)
    BY <1>5, <2>3 DEF Holds
  <2> QED
    BY <1>5, <2>4 DEF new
<1> QED
  BY <1>2, <1>3, <1>4, <1>5

\* The initial state: nothing is changed, exposed or loaded.
LEMMA InitEInv == Init => EInv
<1> SUFFICES ASSUME Init PROVE EInv
  OBVIOUS
<1>1. Init /\ exposed = {}
  BY DEF Init
<1>2. TypeOK /\ JobsSane
  BY <1>1, InitIInv DEF IInv
<1>3. file.records = <<>> /\ DOMAIN file.records = {} /\ Len(<<>>) = 0
  BY <1>1, EmptySeq DEF Init, NoFile
<1>4. Counted
  BY <1>1, <1>3, KeepAssumption DEF Init, Counted
<1>5. \A k \in Knobs : SavedBy(file.records, k) = {}
  BY <1>3 DEF SavedBy
<1>6. Bare \subseteq exposed
  BY <1>1 DEF Init, Bare
<1>7. OldestHolds
  BY <1>5 DEF OldestHolds, Holds
<1>8. LoadedHolds /\ JobHolds
  BY <1>1 DEF Init, LoadedHolds, JobHolds, Executing
<1> QED
  BY <1>2, <1>4, <1>6, <1>7, <1>8 DEF EInv

(***************************************************************************)
(* A step that leaves the file alone and in which no process becomes an    *)
(* executing one: what an undo loads then is what is in the file, and the  *)
(* knobs that nothing saved keep their value or get the original one,      *)
(* unless no one else executes.                                            *)
(***************************************************************************)
LEMMA QuietHolds ==
  ASSUME TypeOK, OldestHolds, LoadedHolds, JobHolds, NEW p \in Procs,
         pc'[p] \notin {"captured", "record"},
         \A q \in Procs \ {p} : /\ pc'[q] = pc[q] /\ job'[q] = job[q]
                                /\ cache'[q] = cache[q] /\ cmd'[q] = cmd[q],
         cmd'[p] = "undo" => \/ cache'[p] \in {<<>>, file.records}
                             \/ cache'[p] = cache[p] /\ cmd[p] = "undo",
         file' = file, exposed \subseteq exposed',
         \/ \A q \in Procs \ {p} : ~ Executing(q)
         \/ \A k \in Knobs : k \notin exposed' /\ Unsaved(k) =>
              \/ sys'[k] \in {sys[k], 0}
              \/ \A q \in Procs \ {p} : pc[q] = "record" => k \in Changes(job[q].kind)
  PROVE  (OldestHolds /\ LoadedHolds /\ JobHolds)'
<1>1. /\ file \in FileOf(Entries)
      /\ \A k \in Knobs : /\ SavedBy(file.records, k)' = SavedBy(file.records, k)
                          /\ Unsaved(k)' <=> Unsaved(k)
                          /\ SettledSaves(k)' <=> SettledSaves(k)
                          /\ k \notin exposed' => k \notin exposed
  BY DEF TypeOK, Unsaved, SettledSaves
<1>2. OldestHolds'
  BY <1>1 DEF OldestHolds, Holds
<1>3. LoadedHolds'
  <2> SUFFICES ASSUME NEW q \in Procs, cmd'[q] = "undo",
                      NEW i \in DOMAIN cache'[q], NEW k \in Knobs, k \notin exposed,
                      cache'[q][i].prior[k] \notin {NotSaved, 0}
               PROVE  SettledSaves(k)
    BY <1>1 DEF LoadedHolds
  <2>1. CASE cmd[q] = "undo" /\ cache'[q] = cache[q]
    BY <2>1 DEF LoadedHolds
  <2>2. CASE q = p /\ cache'[p] = <<>>
    BY <2>2, EmptySeq
  <2>3. CASE q = p /\ cache'[p] = file.records
    <3>1. Holds(file.records, k)
      BY DEF OldestHolds
    <3> QED
      BY <1>1, <2>3, <3>1, LoadedIsSettled DEF SettledSaves
  <2> QED
    BY <2>1, <2>2, <2>3
<1>4. JobHolds'
  <2> SUFFICES ASSUME NEW q \in Procs, Executing(q)', NEW k \in Knobs, k \notin exposed',
                      k \notin exposed, Unsaved(k)
               PROVE  CapturedIsOriginal(q, k)'
    BY <1>1 DEF JobHolds
  <2>1. q # p /\ Executing(q) /\ job'[q] = job[q] /\ pc'[q] = pc[q]
    BY DEF Executing
  <2>2. CapturedIsOriginal(q, k)
    BY <2>1 DEF JobHolds
  <2>3. sys'[k] \in {sys[k], 0} \/ (pc[q] = "record" => k \in Changes(job[q].kind))
    BY <2>1
  <2> QED
    BY <2>1, <2>2, <2>3 DEF CapturedIsOriginal
<1> QED
  BY <1>2, <1>3, <1>4

(***************************************************************************)
(* A step that appends, or tries to, the entry of the action it ends.      *)
(***************************************************************************)
LEMMA AppendHolds ==
  ASSUME TypeOK, OldestHolds, LoadedHolds, JobHolds, NEW p \in Procs,
         pc[p] = "record", pc'[p] \notin {"captured", "record"}, cmd'[p] # "undo",
         \A q \in Procs \ {p} : /\ pc'[q] = pc[q] /\ job'[q] = job[q]
                                /\ cache'[q] = cache[q] /\ cmd'[q] = cmd[q]
                                /\ ~ Executing(q),
         NEW e \in Entries, e.prior = job[p].prior, NEW outcome \in Outcomes,
         file' = Written(file, e, outcome), exposed \subseteq exposed'
  PROVE  (OldestHolds /\ LoadedHolds /\ JobHolds)'
<1>1. file \in FileOf(Entries)
  BY DEF TypeOK
<1>2. ASSUME NEW k \in Knobs, k \notin exposed
      PROVE  /\ Holds(file.records, k)' /\ (SettledSaves(k) => SettledSaves(k)')
  <2>1. Holds(file.records, k)
    BY <1>2 DEF OldestHolds
  <2>2. SavedBy(file.records, k) = {} => e.prior[k] \in {NotSaved, 0}
    BY <1>2 DEF JobHolds, CapturedIsOriginal, Executing, Unsaved
  <2>3. /\ Holds(file'.records, k)
        /\ SavedBy(Settled(file), k) # {} => SavedBy(Settled(file'), k) # {}
    BY <1>1, <2>1, <2>2, WrittenHolds
  <2> QED
    BY <2>3 DEF Holds, SettledSaves
<1>3. OldestHolds'
  BY <1>2 DEF OldestHolds
<1>4. LoadedHolds'
  <2> SUFFICES ASSUME NEW q \in Procs, cmd'[q] = "undo",
                      NEW i \in DOMAIN cache'[q], NEW k \in Knobs, k \notin exposed',
                      cache'[q][i].prior[k] \notin {NotSaved, 0}
               PROVE  SettledSaves(k)'
    BY DEF LoadedHolds
  <2>1. q # p /\ cmd[q] = "undo" /\ cache'[q] = cache[q]
    OBVIOUS
  <2>2. SettledSaves(k) /\ k \notin exposed
    BY <2>1 DEF LoadedHolds
  <2> QED
    BY <1>2, <2>2
<1>5. JobHolds'
  BY DEF JobHolds, Executing
<1> QED
  BY <1>3, <1>4, <1>5

\* Until the store overflows no opening prunes (open).
LEMMA NoPruning ==
  ASSUME TypeOK, Counted, Regular, NEW p \in Procs
  PROVE  /\ pc[p] # "rewrite"
         /\ Len(cache[p]) <= KeepEntries
<1>1. Len(cache[p]) \in Nat /\ lastId \in Nat /\ KeepEntries \in Nat
  BY LenProperties, KeepAssumption DEF TypeOK
<1> QED
  BY <1>1 DEF Counted, Regular

\* An undo gives an unexposed knob that nothing saved no other value than the original (apply).
LEMMA UndoSpares ==
  ASSUME TypeOK, LoadedHolds, NEW p \in Procs, NEW id \in IdsOf(cache[p]), Undo(p, id),
         NEW k \in Knobs, k \notin exposed, Unsaved(k)
  PROVE  sys'[k] \in {sys[k], 0}
<1>1. PICK i \in DOMAIN cache[p] : Find(cache[p], id) = cache[p][i]
  BY FindIsEntry DEF TypeOK
<1>2. ~ SettledSaves(k)
  BY SettledEntries DEF TypeOK, SettledSaves, Unsaved
<1>3. cache[p][i].prior[k] \in {NotSaved, 0}
  BY <1>2 DEF LoadedHolds, Undo
<1>4. sys'[k] = IF cache[p][i].prior[k] = NotSaved THEN sys[k] ELSE cache[p][i].prior[k]
  BY <1>1 DEF Undo, Reverted
<1> QED
  BY <1>3, <1>4

\* What an action changes it saves, the unreadable prior states apart (capture_*).
LEMMA CaptureSaves ==
  ASSUME NEW kind \in Kinds, NEW k \in Changes(kind), sys[k] = 0
  PROVE  k \in Saves(kind, sys)
<1>1. kind \in AllKinds
  BY KindsAssumption
<1>2. CASE kind \in {"SetCpuWeight", "SetIoWeight", "SetMemoryHigh"}
  BY <1>2 DEF Saves, Changes, UnitLimits
<1>3. CASE kind = "StopService"
  BY <1>3 DEF Saves, Changes
<1>4. CASE kind \notin {"SetCpuWeight", "SetIoWeight", "SetMemoryHigh", "StopService"}
  BY <1>4 DEF Saves
<1> QED
  BY <1>1, <1>2, <1>3, <1>4

\* Every step keeps what is known of the knobs that were never exposed.
LEMMA StepHolds ==
  ASSUME EInv, Regular, Next
  PROVE  (Bare \subseteq exposed /\ OldestHolds /\ LoadedHolds /\ JobHolds)'
<1>1. /\ TypeOK /\ JobsSane /\ Counted
      /\ Bare \subseteq exposed /\ OldestHolds /\ LoadedHolds /\ JobHolds
      /\ Next /\ exposed \subseteq exposed' /\ Bare' \subseteq exposed'
  BY StepWatches DEF EInv
<1> DEFINE Goal == (OldestHolds /\ LoadedHolds /\ JobHolds)'
<1> HIDE DEF Goal
<1>2. ASSUME NEW p \in Procs, Open(p) PROVE Goal
  <2>1. cache'[p] \in {<<>>, file.records} /\ pc'[p] = "prune"
    BY <1>1, <1>2 DEF Open, Goto, TypeOK
  <2> QED
    BY <1>1, <1>2, <2>1, QuietHolds DEF Open, Goto, TypeOK, Goal
<1>3. ASSUME NEW p \in Procs, Prune(p) PROVE Goal
  <2>1. Len(cache[p]) <= KeepEntries
    BY <1>1, NoPruning
  <2>2. UNCHANGED <<sys, file, cmd, cache, job>> /\ pc' = [pc EXCEPT ![p] = "ready"]
    BY <1>3, <2>1 DEF Prune, Goto
  <2> QED
    BY <1>1, <2>2, QuietHolds DEF TypeOK, Goal
<1>4. ASSUME NEW p \in Procs, Rewrite(p) PROVE Goal
  BY <1>1, <1>4, NoPruning DEF Rewrite
<1>5. ASSUME NEW p \in Procs, NEW kind \in Kinds, Capture(p, kind) PROVE Goal
  <2>1. PICK v \in NewValues(kind), prior \in {PriorOf(kind, sys), NoPrior} :
          /\ job' = [job EXCEPT ![p] = [kind |-> kind, value |-> v, prior |-> prior]]
          /\ prior = PriorOf(kind, sys) \/ kind \in PlainCalls
    BY <1>5 DEF Capture
  <2>2. /\ pc[p] = "ready" /\ cmd[p] = "apply" /\ pc' = [pc EXCEPT ![p] = "captured"]
        /\ UNCHANGED <<sys, file, cmd, cache, lastId>>
    BY <1>5 DEF Capture, Goto
  <2>3. \A q \in Procs : ~ Executing(q)
    BY <1>1, <2>2, ExecutesAlone DEF Executing
  <2>4. \A k \in Knobs : /\ Unsaved(k)' <=> Unsaved(k)
                         /\ SettledSaves(k)' <=> SettledSaves(k)
                         /\ k \notin exposed' => k \notin exposed
    BY <1>1, <2>2 DEF Unsaved, SettledSaves
  <2>5. OldestHolds' /\ LoadedHolds'
    BY <1>1, <2>2, <2>4 DEF OldestHolds, Holds, LoadedHolds
  <2>6. ASSUME NEW k \in Knobs, k \notin exposed, Unsaved(k)
        PROVE  /\ prior[k] \in {NotSaved, 0}
               /\ kind \notin PlainCalls /\ k \in Changes(kind)
                    => prior[k] # NotSaved
    <3>1. sys[k] = 0
      <4>1. Recording(k) = {}
        BY <2>3 DEF Recording, Executing
      <4> QED
        BY <1>1, <2>6, <4>1 DEF Bare, Unsaved, Original
    <3>2. NoPrior[k] = NotSaved /\ PriorOf(kind, sys)[k] \in {NotSaved, 0}
      BY <3>1 DEF NoPrior, PriorOf
    <3>3. ASSUME kind \notin PlainCalls, k \in Changes(kind)
          PROVE  prior[k] # NotSaved
      <4>1. k \in Saves(kind, sys)
        BY <3>1, <3>3, CaptureSaves
      <4> QED
        BY <2>1, <3>1, <3>3, <4>1 DEF PriorOf, NotSaved
    <3> QED
      BY <2>1, <3>2, <3>3
  <2>7. JobHolds'
    <3> SUFFICES ASSUME NEW q \in Procs, Executing(q)', NEW k \in Knobs, k \notin exposed,
                        Unsaved(k)
                 PROVE  CapturedIsOriginal(q, k)'
      BY <2>4 DEF JobHolds
    <3>1. q = p
      BY <2>2, <2>3, <1>1 DEF Executing, TypeOK
    <3>2. /\ pc'[q] = "captured" /\ job'[q].prior = prior /\ job'[q].kind = kind
      BY <2>1, <2>2, <3>1, <1>1 DEF TypeOK
    <3>3. /\ job'[q].prior[k] \in {NotSaved, 0} /\ pc'[q] # "record"
          /\ job'[q].kind \notin PlainCalls /\ k \in Changes(job'[q].kind)
               => job'[q].prior[k] # NotSaved
      <4> HIDE DEF Executing
      <4> QED
        BY <2>6, <3>2
    <3> QED
      BY <3>3 DEF CapturedIsOriginal
  <2> QED
    BY <2>5, <2>7 DEF Goal
<1>6. ASSUME NEW p \in Procs, Change(p) PROVE Goal
  <2>1. /\ pc[p] = "captured" /\ cmd[p] = "apply"
        /\ UNCHANGED <<file, cmd, cache, job, lastId>>
        /\ \A k \in Knobs : sys'[k] = IF k \in Changes(job[p].kind) THEN job[p].value
                                      ELSE sys[k]
    BY <1>1, <1>6 DEF Change, JobsSane, Executing
  <2>2. \A q \in Procs : Executing(q) => q = p
    BY <1>1, <2>1, ExecutesAlone
  <2>3. CASE ~ Reversible(job[p].kind)
    <3>1. pc' = [pc EXCEPT ![p] = "ready"]
      BY <1>6, <2>3 DEF Change, Goto
    <3> QED
      BY <1>1, <2>1, <2>2, <3>1, QuietHolds DEF TypeOK, Goal
  <2>4. CASE Reversible(job[p].kind)
    <3>1. pc' = [pc EXCEPT ![p] = "record"]
      BY <1>6, <2>4 DEF Change, Goto
    <3>2. \A k \in Knobs : /\ Unsaved(k)' <=> Unsaved(k)
                           /\ SettledSaves(k)' <=> SettledSaves(k)
                           /\ k \notin exposed' => k \notin exposed
      BY <1>1, <2>1 DEF Unsaved, SettledSaves
    <3>3. OldestHolds' /\ LoadedHolds'
      BY <1>1, <2>1, <3>2 DEF OldestHolds, Holds, LoadedHolds
    <3>4. JobHolds'
      <4> SUFFICES ASSUME NEW q \in Procs, Executing(q)', NEW k \in Knobs, k \notin exposed,
                          Unsaved(k)
                   PROVE  CapturedIsOriginal(q, k)'
        BY <3>2 DEF JobHolds
      <4>1. q = p /\ Executing(p) /\ job' = job
        BY <1>1, <2>1, <2>2, <3>1 DEF Executing, TypeOK
      <4>2. CapturedIsOriginal(p, k)
        BY <1>1, <4>1 DEF JobHolds
      <4>3. k \notin Changes(job[p].kind) => sys'[k] = 0
        <5>1. Recording(k) = {}
          BY <2>1, <2>2 DEF Recording, Executing
        <5>2. sys[k] = 0
          BY <1>1, <5>1 DEF Bare, Unsaved, Original
        <5> QED
          BY <2>1, <5>2
      <4> QED
        BY <4>1, <4>2, <4>3 DEF CapturedIsOriginal
    <3> QED
      BY <3>3, <3>4 DEF Goal
  <2> QED
    BY <2>3, <2>4
<1>7. ASSUME NEW p \in Procs, ChangeFails(p) PROVE Goal
  <2>1. /\ cmd[p] = "apply" /\ pc' = [pc EXCEPT ![p] = "ready"]
        /\ UNCHANGED <<file, cmd, cache, job, lastId>>
    BY <1>1, <1>7 DEF ChangeFails, Goto, JobsSane, Executing
  <2>2. \A q \in Procs : Executing(q) => q = p
    BY <1>1, <2>1, ExecutesAlone
  <2> QED
    BY <1>1, <2>1, <2>2, QuietHolds DEF TypeOK, Goal
<1>8. ASSUME NEW p \in Procs, Record(p) PROVE Goal
  <2> DEFINE e == [id |-> lastId + 1, kind |-> job[p].kind, prior |-> job[p].prior]
  <2>1. /\ pc[p] = "record" /\ cmd[p] = "apply" /\ pc' = [pc EXCEPT ![p] = "ready"]
        /\ UNCHANGED <<sys, cmd, job>>
    BY <1>1, <1>8 DEF Record, Goto, JobsSane, Executing
  <2>2. PICK outcome \in Outcomes : file' = Written(file, e, outcome)
    <3>1. PICK outcome \in (IF Faults THEN Outcomes ELSE {"line"}) :
            file' = Written(file, e, outcome)
      BY <1>8 DEF Record, Regular
    <3> QED
      BY <3>1 DEF Outcomes
  <2>3. \A q \in Procs \ {p} : cache'[q] = cache[q]
    BY <1>1, <1>8 DEF Record, TypeOK
  <2>4. e \in Entries /\ e.prior = job[p].prior
    BY <1>1 DEF TypeOK, Entries, Jobs
  <2> HIDE DEF e
  <2>5. \A q \in Procs : Executing(q) => q = p
    BY <1>1, <2>1, ExecutesAlone
  <2> QED
    BY <1>1, <2>1, <2>2, <2>3, <2>4, <2>5, AppendHolds DEF TypeOK, Goal
<1>9. ASSUME NEW p \in Procs, NEW id \in IdsOf(cache[p]), Undo(p, id) PROVE Goal
  <2>1. \A k \in Knobs : k \notin exposed /\ Unsaved(k) => sys'[k] \in {sys[k], 0}
    BY <1>1, <1>9, UndoSpares
  <2> QED
    BY <1>1, <1>9, <2>1, QuietHolds DEF Undo, Exit, Goto, TypeOK, Goal
<1>r. ASSUME NEW p \in Procs, NEW id \in IdsOf(cache[p]), RevertFails(p, id) PROVE Goal
  <2>1. /\ UNCHANGED file /\ pc' = [pc EXCEPT ![p] = "idle"]
        /\ cmd' = [cmd EXCEPT ![p] = "list"] /\ cache' = [cache EXCEPT ![p] = <<>>]
        /\ job' = [job EXCEPT ![p] = NoJob] /\ pc[p] = "ready"
    BY <1>r DEF RevertFails, Exit, Goto
  <2>2. ASSUME NEW k \in Knobs, k \notin exposed', Unsaved(k),
               NEW q \in Procs \ {p}, pc[q] = "record", k \notin Changes(job[q].kind)
        PROVE  sys'[k] \in {sys[k], 0}
    <3>1. CASE k # "sysctl"
      BY <1>1, <1>r, <3>1 DEF RevertFails, TypeOK
    <3>2. CASE k = "sysctl"
      <4>1. job[q].prior[k] = NotSaved /\ cmd[q] = "apply"
        BY <1>1, <2>2, <3>2 DEF JobsSane, Executing
      <4>2. \A o \in Procs : Executing(o) => o = q
        BY <1>1, <4>1, ExecutesAlone
      <4>3. \A o \in Procs : pc'[o] = "record" => o = q /\ job'[o] = job[q]
        BY <1>1, <2>1, <2>2, <4>2 DEF Executing, TypeOK
      <4>4. Recording(k)' = {} /\ SavedBy(file'.records, k) = {} /\ k \notin Bare'
        BY <1>1, <2>1, <2>2, <4>1, <4>3 DEF Recording, Unsaved
      <4> QED
        BY <4>4 DEF Bare, Original
    <3> QED
      BY <3>1, <3>2
  <2>3. \A k \in Knobs : k \notin exposed' /\ Unsaved(k) =>
          \/ sys'[k] \in {sys[k], 0}
          \/ \A q \in Procs \ {p} : pc[q] = "record" => k \in Changes(job[q].kind)
    BY <2>2
  <2> QED
    BY <1>1, <2>1, <2>3, QuietHolds DEF TypeOK, Goal
<1>10. ASSUME NEW p \in Procs, Finish(p) PROVE Goal
  BY <1>1, <1>10, QuietHolds DEF Finish, Exit, Goto, TypeOK, Goal
<1>11. ASSUME NEW p \in Procs, Crash(p) PROVE Goal
  <2>1. UNCHANGED sys /\ pc' = [pc EXCEPT ![p] = "idle"]
        /\ cmd' = [cmd EXCEPT ![p] = "list"] /\ cache' = [cache EXCEPT ![p] = <<>>]
        /\ job' = [job EXCEPT ![p] = NoJob]
    BY <1>11 DEF Crash, Exit, Goto
  <2>2. CASE file' = file
    BY <1>1, <2>1, <2>2, QuietHolds DEF TypeOK, Goal
  <2>3. CASE file' # file
    <3> DEFINE e == [id |-> lastId + 1, kind |-> job[p].kind, prior |-> job[p].prior]
    <3>1. pc[p] = "record" /\ cmd[p] = "apply"
      BY <1>1, <1>11, <2>3 DEF Crash, JobsSane, Executing
    <3>2. PICK outcome \in Outcomes : file' = Written(file, e, outcome)
      BY <1>11, <2>3 DEF Crash
    <3>3. e \in Entries /\ e.prior = job[p].prior
      BY <1>1 DEF TypeOK, Entries, Jobs
    <3> HIDE DEF e
    <3>4. \A q \in Procs : Executing(q) => q = p
      BY <1>1, <3>1, ExecutesAlone
    <3> QED
      BY <1>1, <2>1, <3>1, <3>2, <3>3, <3>4, AppendHolds DEF TypeOK, Goal
  <2> QED
    BY <2>2, <2>3
<1>12. Goal
  BY <1>1, <1>2, <1>3, <1>4, <1>5, <1>6, <1>7, <1>8, <1>9, <1>r, <1>10, <1>11 DEF Next
<1> QED
  BY <1>1, <1>12 DEF Goal

\* Ids only grow (RollbackEntry::new).
LEMMA IdsGrow == TypeOK /\ [Next]_vars => lastId' >= lastId
<1> SUFFICES ASSUME TypeOK, [Next]_vars PROVE lastId' >= lastId
  OBVIOUS
<1>1. lastId \in Nat
  BY DEF TypeOK
<1>2. ASSUME NEW p \in Procs, Record(p) PROVE lastId' >= lastId
  <2>1. PICK id \in {lastId + 1} \cup (IF SameMs /\ lastId > 0 THEN {lastId} ELSE {}) :
          lastId' = id
    BY <1>2 DEF Record
  <2> QED
    BY <1>1, <2>1
<1>3. ASSUME NEW p \in Procs, Crash(p) PROVE lastId' >= lastId
  <2>1. lastId' \in {lastId, lastId + 1}
    BY <1>3 DEF Crash
  <2> QED
    BY <1>1, <2>1
<1> QED
  BY <1>1, <1>2, <1>3
  DEF Next, vars, Open, Prune, Rewrite, Capture, Change, ChangeFails, Undo, RevertFails, Finish

\* The invariant holds in every reachable state, faults and all.
LEMMA SpecEInv == Spec => []EInv
<1>1. EInv /\ [Next]_vars => EInv'
  <2> SUFFICES ASSUME EInv, [Next]_vars PROVE EInv'
    OBVIOUS
  <2>1. TypeOK /\ JobsSane /\ Counted /\ [Next]_vars
    BY DEF EInv
  <2>2. TypeOK' /\ JobsSane' /\ Counted'
    BY <2>1, StepTypeOK, StepJobsSane, StepCounted
  <2>3. Regular' => Regular
    <3>1. lastId' >= lastId /\ lastId \in Nat /\ lastId' \in Nat /\ KeepEntries \in Nat
      BY <2>1, <2>2, IdsGrow, KeepAssumption DEF TypeOK
    <3> QED
      BY <3>1 DEF Regular
  <2>4. CASE Next
    BY <2>2, <2>3, <2>4, StepHolds DEF EInv
  <2>5. CASE UNCHANGED vars
    BY <2>2, <2>3, <2>5
    DEF EInv, vars, Bare, Recording, OldestHolds, LoadedHolds, JobHolds, Holds,
        SettledSaves, Executing, Unsaved, CapturedIsOriginal
  <2> QED
    BY <2>4, <2>5
<1> QED
  BY <1>1, InitEInv, PTL DEF Spec

(***************************************************************************)
(* Faults cost the knobs they expose and no other (RestUnharmed), for any  *)
(* number of commands beside one executor, any kinds, values and faults,   *)
(* until the store overflows.                                              *)
(***************************************************************************)
THEOREM FaultsSpareTheRest == Spec => []RestUnharmed
<1>1. EInv => RestUnharmed
  <2> SUFFICES ASSUME EInv, Regular, NEW k \in Knobs, k \notin exposed, Recording(k) = {}
               PROVE  UndoAll(file.records, sys)[k] = Original[k]
    BY DEF RestUnharmed
  <2> DEFINE rs == file.records
  <2>1. /\ rs \in Seq(Entries) /\ sys \in [Knobs -> Values]
        /\ Bare \subseteq exposed /\ Holds(rs, k) /\ Original[k] = 0
    BY DEF EInv, TypeOK, FileOf, OldestHolds, Original
  <2>2. CASE SavedBy(rs, k) = {}
    <3>1. UndoAll(rs, sys)[k] = sys[k]
      BY <2>1, <2>2, UndoAllIsOldest
    <3> QED
      BY <2>1, <2>2, <3>1 DEF Bare
  <2>3. CASE SavedBy(rs, k) # {}
    <3>1. UndoAll(rs, sys)[k] = rs[FirstSaved(rs, k)].prior[k]
      BY <2>1, <2>3, UndoAllIsOldest
    <3>2. /\ FirstSaved(rs, k) \in SavedBy(rs, k)
          /\ \A j \in SavedBy(rs, k) : FirstSaved(rs, k) <= j
      <4>1. SavedBy(rs, k) \in SUBSET Nat
        BY <2>1, LenProperties DEF SavedBy
      <4> HIDE DEF rs
      <4>2. \E i \in SavedBy(rs, k) : \A j \in SavedBy(rs, k) : i <= j
        BY <2>3, <4>1, LeastIndex
      <4> QED
        BY <4>2 DEF FirstSaved
    <3> QED
      BY <2>1, <3>1, <3>2 DEF Holds
  <2> QED
    BY <2>2, <2>3
<1> QED
  BY <1>1, SpecEInv, PTL

(***************************************************************************)
(* When the entry of an action is lost, what becomes bare is what the      *)
(* action changed, or what an entry of the file saved whose newline had    *)
(* been lost (record, and a crash before or within it).                    *)
(***************************************************************************)
LEMMA LosingExposes ==
  ASSUME EInv, Regular, NEW p \in Procs, pc[p] = "record", pc'[p] # "record",
         sys' = sys, NEW k \in Knobs, k \notin exposed, k \in Bare',
         \/ file' = file
         \/ \E e \in Entries, outcome \in Outcomes :
              e.prior = job[p].prior /\ file' = Written(file, e, outcome)
  PROVE  EntryLost(p, k)
<1>1. /\ TypeOK /\ JobsSane /\ Bare \subseteq exposed /\ JobHolds
      /\ file \in FileOf(Entries) /\ file.records \in Seq(Entries)
      /\ Len(file.records) \in Nat /\ DOMAIN file.records = 1 .. Len(file.records)
  BY LenProperties DEF EInv, TypeOK, FileOf
<1>2. SavedBy(file'.records, k) = {} /\ sys[k] # 0
  BY DEF Bare, Original
<1>3. ~ Unsaved(k) \/ Recording(k) # {}
  BY <1>1, <1>2 DEF Bare, Unsaved, Original
<1>4. \A q \in Procs : Executing(q) => q = p
  BY <1>1, ExecutesAlone DEF JobsSane, Executing
<1>5. CASE Unsaved(k)
  <2>1. job[p].prior[k] # NotSaved
    BY <1>3, <1>4, <1>5 DEF Recording, Executing
  <2>2. k \in Changes(job[p].kind)
    BY <1>1, <1>2, <1>5 DEF JobHolds, CapturedIsOriginal, Executing
  <2>3. Len(file'.records) <= Len(file.records)
    <3>1. CASE file' = file
      BY <1>1, <3>1
    <3>2. CASE file' # file
      <4>1. PICK e \in Entries, outcome \in Outcomes :
              e.prior = job[p].prior /\ file' = Written(file, e, outcome)
        BY <3>2
      <4>2. \/ file'.records = file.records
            \/ file'.records = Append(file.records, e)
            \/ file'.records = Settled(file)
        BY <1>1, <4>1, WrittenCases
      <4>3. file'.records # Append(file.records, e)
        <5>1. SavedBy(Append(file.records, e), k)
                = SavedBy(file.records, k)
                    \cup (IF e.prior[k] # NotSaved THEN {Len(file.records) + 1} ELSE {})
          BY <1>1, SavedByAppend
        <5> QED
          BY <1>2, <2>1, <4>1, <5>1
      <4>4. Len(Settled(file)) <= Len(file.records)
        <5>1. Settled(file) \in Seq(Entries)
              /\ \A i \in DOMAIN Settled(file) : i \in DOMAIN file.records
          BY <1>1, SettledEntries
        <5>2. Len(Settled(file)) \in Nat /\ DOMAIN Settled(file) = 1 .. Len(Settled(file))
          BY <5>1, LenProperties
        <5>3. Len(Settled(file)) = 0 \/ Len(Settled(file)) \in 1 .. Len(file.records)
          BY <1>1, <5>1, <5>2
        <5> QED
          BY <1>1, <5>3
      <4> QED
        BY <1>1, <4>2, <4>3, <4>4
    <3> QED
      BY <3>1, <3>2
  <2> QED
    BY <2>2, <2>3 DEF EntryLost
<1>6. CASE ~ Unsaved(k)
  <2>1. PICK e \in Entries, outcome \in Outcomes :
          e.prior = job[p].prior /\ file' = Written(file, e, outcome)
    BY <1>2, <1>6 DEF Unsaved
  <2>2. file'.records # file.records
    BY <1>2, <1>6 DEF Unsaved
  <2>3. file'.records # Append(file.records, e)
    <3>1. SavedBy(file.records, k) \subseteq SavedBy(Append(file.records, e), k)
      BY <1>1, SavedByAppend
    <3> QED
      BY <1>2, <1>6, <3>1 DEF Unsaved
  <2>4. file.tail = "unterminated" /\ file'.records = Settled(file)
    BY <1>1, <2>1, <2>2, <2>3, WrittenCases
  <2>5. SavedBy(file.records, k) \subseteq {Len(file.records)}
    BY <1>1, <1>2, <2>4, SettledEntries
  <2>6. file.records[Len(file.records)].prior[k] # NotSaved
    BY <1>6, <2>5 DEF Unsaved, SavedBy
  <2>7. Len(file'.records) <= Len(file.records)
    <3>1. Settled(file) \in Seq(Entries)
          /\ \A i \in DOMAIN Settled(file) : i \in DOMAIN file.records
      BY <1>1, SettledEntries
    <3>2. Len(Settled(file)) \in Nat /\ DOMAIN Settled(file) = 1 .. Len(Settled(file))
      BY <3>1, LenProperties
    <3>3. Len(Settled(file)) = 0 \/ Len(Settled(file)) \in 1 .. Len(file.records)
      BY <1>1, <3>1, <3>2
    <3> QED
      BY <1>1, <2>4, <3>3
  <2> QED
    BY <2>4, <2>6, <2>7 DEF EntryLost
<1> QED
  BY <1>5, <1>6

(***************************************************************************)
(* Only faults expose, and each only what its action changed, its torn     *)
(* entry saved or its revert wrote (ExposedOnlyByFaults): no undo that     *)
(* succeeds, of any entry at any time.                                     *)
(***************************************************************************)
THEOREM OnlyFaultsExpose == Spec => ExposedOnlyByFaults
<1> DEFINE Cause(p, k) == \/ PriorUnread(p, k) \/ FailedAfterChange(p, k)
                          \/ EntryLost(p, k) \/ RevertFailed(p, k)
           Caused == Regular => \A k \in exposed' \ exposed : \E p \in Procs : Cause(p, k)
<1>1. EInv /\ [Next]_vars => [Caused]_vars
  <2> SUFFICES ASSUME EInv, Next, Regular, NEW k \in exposed' \ exposed
               PROVE  \E p \in Procs : Cause(p, k)
    OBVIOUS
  <2>1. /\ TypeOK /\ JobsSane /\ Counted /\ Next
        /\ Bare \subseteq exposed /\ LoadedHolds /\ JobHolds
        /\ k \in Bare' /\ k \notin Bare /\ k \notin exposed /\ k \in Knobs
    BY StepWatches DEF EInv, Bare
  <2>2. /\ sys'[k] # 0 /\ SavedBy(file'.records, k) = {}
        /\ \A q \in Procs : pc'[q] = "record" => job'[q].prior[k] = NotSaved
    BY <2>1 DEF Bare, Original, Recording
  <2>3. \/ sys[k] = 0
        \/ ~ Unsaved(k)
        \/ \E q \in Procs : pc[q] = "record" /\ job[q].prior[k] # NotSaved
    BY <2>1 DEF Bare, Original, Recording, Unsaved
  <2>4. ASSUME file' = file,
               \A q \in Procs : pc[q] = "record" => pc'[q] = "record" /\ job'[q] = job[q]
        PROVE  sys[k] = 0 /\ Unsaved(k) /\ sys'[k] # sys[k]
    BY <2>2, <2>3, <2>4 DEF Unsaved
  <2> HIDE DEF Cause
  <2>5. ASSUME NEW p \in Procs, Open(p) PROVE FALSE
    BY <2>1, <2>4, <2>5 DEF Open, Goto, TypeOK
  <2>6. ASSUME NEW p \in Procs, Prune(p) PROVE FALSE
    <3>1. Len(cache[p]) <= KeepEntries
      BY <2>1, NoPruning
    <3>2. UNCHANGED <<sys, file, job>> /\ pc' = [pc EXCEPT ![p] = "ready"] /\ pc[p] = "prune"
      BY <2>6, <3>1 DEF Prune, Goto
    <3> QED
      BY <2>1, <2>4, <3>2 DEF TypeOK
  <2>7. ASSUME NEW p \in Procs, Rewrite(p) PROVE FALSE
    BY <2>1, <2>7, NoPruning DEF Rewrite
  <2>8. ASSUME NEW p \in Procs, NEW kind \in Kinds, Capture(p, kind) PROVE FALSE
    BY <2>1, <2>4, <2>8 DEF Capture, Goto, TypeOK
  <2>9. ASSUME NEW p \in Procs, Change(p) PROVE Cause(p, k)
    <3>1. /\ pc[p] = "captured" /\ UNCHANGED <<file, job>>
          /\ sys'[k] = IF k \in Changes(job[p].kind) THEN job[p].value ELSE sys[k]
          /\ pc' = [pc EXCEPT ![p] = IF Reversible(job[p].kind) THEN "record" ELSE "ready"]
      BY <2>1, <2>9 DEF Change, Goto
    <3>2. sys[k] = 0 /\ Unsaved(k) /\ sys'[k] # sys[k]
      BY <2>1, <2>4, <3>1 DEF TypeOK
    <3>3. k \in Changes(job[p].kind) /\ job[p].value # 0
      BY <3>1, <3>2
    <3>4. Reversible(job[p].kind)
      BY <2>1, <3>1, <3>3 DEF JobsSane
    <3>5. job[p].prior[k] = NotSaved
      BY <2>1, <2>2, <3>1, <3>4 DEF TypeOK
    <3>6. job[p].kind \in PlainCalls
      BY <2>1, <3>1, <3>2, <3>3, <3>5 DEF JobHolds, CapturedIsOriginal, Executing
    <3> QED
      BY <3>1, <3>3, <3>5, <3>6 DEF Cause, PriorUnread
  <2>10. ASSUME NEW p \in Procs, ChangeFails(p) PROVE Cause(p, k)
    <3>1. sys'[k] # sys[k]
      BY <2>1, <2>4, <2>10 DEF ChangeFails, Goto, TypeOK
    <3>2. /\ job[p].kind \notin PlainCalls /\ pc[p] = "captured" /\ pc'[p] = "ready"
          /\ k \in Changes(job[p].kind)
      BY <2>1, <2>10, <3>1 DEF ChangeFails, Goto, TypeOK
    <3>3. Reversible(job[p].kind)
      BY <2>1, <2>2, <2>10, <3>1, <3>2 DEF ChangeFails, JobsSane, Reversible, Changes
    <3> QED
      BY <3>1, <3>2, <3>3 DEF Cause, FailedAfterChange
  <2>11. ASSUME NEW p \in Procs, Record(p) PROVE Cause(p, k)
    <3> DEFINE e == [id |-> lastId + 1, kind |-> job[p].kind, prior |-> job[p].prior]
    <3>1. pc[p] = "record" /\ pc'[p] # "record" /\ sys' = sys
      BY <2>1, <2>11 DEF Record, Goto, TypeOK
    <3>2. PICK outcome \in Outcomes : file' = Written(file, e, outcome)
      <4>1. PICK outcome \in (IF Faults THEN Outcomes ELSE {"line"}) :
              file' = Written(file, e, outcome)
        BY <2>11 DEF Record, Regular
      <4> QED
        BY <4>1 DEF Outcomes
    <3>3. e \in Entries /\ e.prior = job[p].prior
      BY <2>1 DEF TypeOK, Entries, Jobs
    <3> HIDE DEF e
    <3> QED
      BY <2>1, <3>1, <3>2, <3>3, LosingExposes DEF Cause
  <2>12. ASSUME NEW p \in Procs, NEW id \in IdsOf(cache[p]), Undo(p, id) PROVE FALSE
    <3>1. sys[k] = 0 /\ Unsaved(k) /\ sys'[k] # sys[k]
      BY <2>1, <2>4, <2>12 DEF Undo, Exit, Goto, TypeOK
    <3> QED
      BY <2>1, <2>12, <3>1, UndoSpares
  <2>15. ASSUME NEW p \in Procs, NEW id \in IdsOf(cache[p]), RevertFails(p, id)
         PROVE  Cause(p, k)
    <3>1. sys[k] = 0 /\ Unsaved(k) /\ sys'[k] # sys[k]
      BY <2>1, <2>4, <2>15 DEF RevertFails, Exit, Goto, TypeOK
    <3>2. k = "sysctl" /\ sys'[k] \in Values /\ sys'[k] # NotSaved
      BY <2>1, <2>15, <3>1, ValuesAssumption DEF RevertFails, TypeOK, NotSaved
    <3>3. ~ SettledSaves(k)
      BY <2>1, <3>1, SettledEntries DEF TypeOK, SettledSaves, Unsaved
    <3>4. ASSUME NEW other \in IdsOf(cache[p])
          PROVE  sys'[k] # Find(cache[p], other).prior[k]
      <4>1. PICK i \in DOMAIN cache[p] : Find(cache[p], other) = cache[p][i]
        BY <2>1, FindIsEntry DEF TypeOK
      <4>2. cache[p][i].prior[k] \in {NotSaved, 0}
        BY <2>1, <2>15, <3>3 DEF LoadedHolds, RevertFails
      <4> QED
        BY <3>1, <3>2, <4>1, <4>2
    <3> QED
      BY <2>1, <2>15, <3>2, <3>4 DEF RevertFails, Exit, Goto, TypeOK, Cause, RevertFailed
  <2>13. ASSUME NEW p \in Procs, Finish(p) PROVE FALSE
    BY <2>1, <2>4, <2>13 DEF Finish, Exit, Goto, TypeOK
  <2>14. ASSUME NEW p \in Procs, Crash(p) PROVE Cause(p, k)
    <3>1. /\ sys' = sys /\ pc' = [pc EXCEPT ![p] = "idle"] /\ pc'[p] # "record"
          /\ job' = [job EXCEPT ![p] = NoJob]
      BY <2>1, <2>14 DEF Crash, Exit, Goto, TypeOK
    <3>2. CASE pc[p] # "record"
      <4>1. file' = file
        BY <2>14, <3>2 DEF Crash
      <4> QED
        BY <2>1, <2>4, <3>1, <3>2, <4>1 DEF TypeOK
    <3>3. CASE pc[p] = "record"
      <4> DEFINE e == [id |-> lastId + 1, kind |-> job[p].kind, prior |-> job[p].prior]
      <4>1. e \in Entries /\ e.prior = job[p].prior
        BY <2>1 DEF TypeOK, Entries, Jobs
      <4>2. file' = file \/ \E outcome \in Outcomes : file' = Written(file, e, outcome)
        BY <2>14 DEF Crash
      <4> HIDE DEF e
      <4> QED
        BY <2>1, <3>1, <3>3, <4>1, <4>2, LosingExposes DEF Cause
    <3> QED
      BY <3>2, <3>3
  <2> QED
    BY <2>1, <2>5, <2>6, <2>7, <2>8, <2>9, <2>10, <2>11, <2>12, <2>15, <2>13,
       <2>14 DEF Next
<1> QED
  BY <1>1, SpecEInv, PTL DEF Spec, ExposedOnlyByFaults
=============================================================================
