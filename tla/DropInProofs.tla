--------------------------- MODULE DropInProofs ---------------------------
(***************************************************************************)
(* Theorems about the drop-in file, for any number of undo commands, any   *)
(* limits, any edits by the administrator and with every fault.            *)
(***************************************************************************)
EXTENDS DropIn, TLAPS

-----------------------------------------------------------------------------
(* Contents. *)

LEMMA RenderedIsSection ==
  ASSUME NEW kind \in Kinds, NEW v \in Values
  PROVE  Rendered(kind, v) \in Contents
  <1>1. kind \in AllKinds
    BY DropInAssumption DEF DropInAssumption
  <1>2. QED
    BY <1>1, DropInAssumption
       DEF Rendered, Contents, Sections, Truncated, NotSet, Setting, Settings, AllKinds

LEMMA PlainContents ==
  /\ Absent \in Contents /\ Truncated \in Contents /\ Garbled \in Contents
  /\ NoJob \in Jobs
  BY DEF Contents, Sections, Truncated, Absent, Garbled, NotSet, NoJob, Jobs

-----------------------------------------------------------------------------
(* Type correctness, with the steps each process can be at. *)

Places == {"idle", "write", "restore", "writing", "torn", "reload", "record"}
ActionPlaces == {"idle", "write", "writing", "torn", "reload", "record"}
UndoPlaces == {"idle", "restore", "writing", "torn", "reload"}

Shape ==
  /\ TypeOK
  /\ pc[Executor] \in ActionPlaces
  /\ pc[Executor] # "idle" => Len(entries) < MaxEntries
  /\ \A p \in Undoers : pc[p] \in UndoPlaces

LEMMA ShapeInit == Init => Shape
  <1> SUFFICES ASSUME Init
               PROVE  Shape
    OBVIOUS
  <1>1. file \in Contents
    BY PlainContents, DropInAssumption DEF Init, DropInAssumption
  <1>2. entries \in Seq(Jobs) /\ Len(entries) <= MaxEntries
    BY DropInAssumption DEF Init, DropInAssumption
  <1>3. job \in [Procs -> Jobs]
    BY PlainContents DEF Init
  <1>4. /\ pc \in [Procs -> Places]
        /\ \A p \in Procs : pc[p] = "idle"
    BY DEF Init, Places
  <1>5. QED
    BY <1>1, <1>2, <1>3, <1>4 DEF Init, Shape, TypeOK, Procs, Places, ActionPlaces, UndoPlaces

\* What a change of the file does to the counters.
LEMMA TouchMoves ==
  ASSUME Shape, NEW p \in Procs, NEW l, Touch(p, l)
  PROVE  /\ pc'[p] = l
         /\ \A q \in Procs : q # p => pc'[q] = IF Open(q) THEN "torn" ELSE pc[q]
         /\ DOMAIN pc' = Procs
  BY DEF Touch, Torn, Shape, TypeOK

\* A step of one process that leaves the others where they are, or torn.
LEMMA PlacesKept ==
  ASSUME Shape, NEW p \in Procs, pc' = [q \in Procs |-> pc'[q]],
         p = Executor => pc'[p] \in ActionPlaces,
         p # Executor => pc'[p] \in UndoPlaces,
         \A q \in Procs : q # p => pc'[q] \in {pc[q], IF Open(q) THEN "torn" ELSE pc[q]}
  PROVE  /\ pc' \in [Procs -> Places]
         /\ pc'[Executor] \in ActionPlaces
         /\ \A q \in Undoers : pc'[q] \in UndoPlaces
         /\ p # Executor /\ pc'[Executor] # "idle" => pc[Executor] # "idle"
  BY DropInAssumption
     DEF Shape, TypeOK, Procs, Places, ActionPlaces, UndoPlaces, Open, DropInAssumption

\* A step that moves p only.
LEMMA ShapeKept ==
  ASSUME Shape, NEW p \in Procs,
         pc' = [q \in Procs |-> pc'[q]],
         p = Executor => pc'[p] \in ActionPlaces,
         p # Executor => pc'[p] \in UndoPlaces,
         \A q \in Procs : q # p => pc'[q] \in {pc[q], IF Open(q) THEN "torn" ELSE pc[q]},
         p = Executor /\ pc'[p] # "idle" => pc[p] # "idle" \/ Len(entries) < MaxEntries,
         job' \in [Procs -> Jobs], file' \in Contents, effective' \in Contents,
         UNCHANGED <<entries, edits>>,
         spoilt' \in BOOLEAN, unread' \in BOOLEAN, overlapped' \in BOOLEAN, stale' \in BOOLEAN
  PROVE  Shape'
  <1>1. /\ pc' \in [Procs -> Places]
        /\ pc'[Executor] \in ActionPlaces
        /\ \A q \in Undoers : pc'[q] \in UndoPlaces
        /\ p # Executor /\ pc'[Executor] # "idle" => pc[Executor] # "idle"
    BY PlacesKept
  <1>2. pc'[Executor] # "idle" => Len(entries') < MaxEntries
    BY <1>1 DEF Shape
  <1>3. QED
    BY <1>1, <1>2 DEF Shape, TypeOK, Places, edits

LEMMA ShapeStep == Shape /\ [Next]_vars => Shape'
  <1> SUFFICES ASSUME Shape, [Next]_vars
               PROVE  Shape'
    OBVIOUS
  <1>0. /\ TypeOK /\ Executor \in Procs /\ Undoers \subseteq Procs
        /\ \A p \in Undoers : p # Executor
        /\ \A p \in Procs : p # Executor => p \in Undoers
    BY DropInAssumption DEF Shape, Procs, DropInAssumption
  <1>t. /\ pc \in [Procs -> Places] /\ job \in [Procs -> Jobs]
        /\ file \in Contents /\ effective \in Contents
        /\ spoilt \in BOOLEAN /\ unread \in BOOLEAN /\ overlapped \in BOOLEAN
        /\ raced \in BOOLEAN /\ stale \in BOOLEAN
    BY <1>0 DEF TypeOK, Places
  <1>p. /\ pc[Executor] \in ActionPlaces
        /\ \A p \in Undoers : pc[p] \in UndoPlaces
    BY DEF Shape
  <1>d. ASSUME NEW p \in Procs, Done(p), file' \in Contents,
               UNCHANGED <<effective, entries, edits>>,
               spoilt' \in BOOLEAN, unread' \in BOOLEAN, overlapped' \in BOOLEAN,
               stale' \in BOOLEAN
        PROVE  Shape'
    <2>1. /\ pc' = [pc EXCEPT ![p] = "idle"]
          /\ job' = [job EXCEPT ![p] = NoJob]
      BY <1>d DEF Done, Goto
    <2>2. job' \in [Procs -> Jobs]
      BY <2>1, <1>t, PlainContents
    <2>3. /\ pc'[p] = "idle" /\ \A q \in Procs : q # p => pc'[q] = pc[q]
          /\ pc' = [q \in Procs |-> pc'[q]]
      BY <2>1, <1>t
    <2>4. QED
      BY <1>d, <1>t, <2>2, <2>3, ShapeKept DEF ActionPlaces, UndoPlaces
  <1>f. ASSUME NEW p \in Procs, NEW l, Touch(p, l), pc[p] # "idle",
               p = Executor => l \in ActionPlaces,
               p # Executor => l \in UndoPlaces,
               job' \in [Procs -> Jobs], file' \in Contents,
               UNCHANGED <<effective, entries, edits>>,
               spoilt' \in BOOLEAN, unread' \in BOOLEAN, stale' \in BOOLEAN
        PROVE  Shape'
    <2>1. /\ pc'[p] = l
          /\ \A q \in Procs : q # p => pc'[q] = IF Open(q) THEN "torn" ELSE pc[q]
      BY <1>f, TouchMoves
    <2>2. pc' = [q \in Procs |-> pc'[q]]
      BY <1>f DEF Touch, Torn
    <2>3. overlapped' \in BOOLEAN
      BY <1>f DEF Touch, Overlap
    <2>4. QED
      BY <1>f, <1>t, <2>1, <2>2, <2>3, ShapeKept
  <1>1. ASSUME NEW kind \in Kinds, Apply(kind)
        PROVE  Shape'
    <2>1. PICK v \in Values, prior \in {file} \cup {Absent} :
            job' = [job EXCEPT ![Executor] = [prior |-> prior, written |-> Rendered(kind, v)]]
      BY <1>1 DEF Apply
    <2>2. [prior |-> prior, written |-> Rendered(kind, v)] \in Jobs
      BY <1>t, RenderedIsSection, PlainContents DEF Jobs
    <2>3. job' \in [Procs -> Jobs]
      BY <1>t, <2>1, <2>2
    <2>4. unread' \in BOOLEAN /\ overlapped' \in BOOLEAN
      BY <1>1 DEF Apply, Overlap
    <2>5. /\ pc' = [pc EXCEPT ![Executor] = "write"]
          /\ UNCHANGED <<file, effective, entries, spoilt, edits, stale>>
          /\ Len(entries) < MaxEntries
      BY <1>1 DEF Apply, Goto
    <2>6. /\ pc'[Executor] = "write" /\ \A q \in Procs : q # Executor => pc'[q] = pc[q]
          /\ pc' = [q \in Procs |-> pc'[q]]
      BY <1>0, <1>t, <2>5
    <2>7. QED
      BY <1>0, <1>t, <2>3, <2>4, <2>5, <2>6, ShapeKept DEF ActionPlaces
  <1>2. ASSUME NEW p \in Procs, Truncate(p)
        PROVE  Shape'
    <2>1. /\ Touch(p, "writing") /\ pc[p] # "idle" /\ file' = Truncated
          /\ UNCHANGED <<effective, entries, job, spoilt, unread, edits, stale>>
      BY <1>2 DEF Truncate
    <2>2. QED
      BY <1>f, <1>t, <2>1, PlainContents DEF ActionPlaces, UndoPlaces
  <1>3. ASSUME NEW p \in Procs, Fill(p)
        PROVE  Shape'
    <2>1. /\ Touch(p, "reload") /\ pc[p] # "idle"
          /\ file' \in {Output(p), file, Garbled}
          /\ UNCHANGED <<effective, entries, job, spoilt, unread, edits, stale>>
      BY <1>3 DEF Fill, Open
    <2>2. Output(p) \in Contents
      BY <1>t DEF Output, Jobs
    <2>3. QED
      BY <1>f, <1>t, <2>1, <2>2, PlainContents DEF ActionPlaces, UndoPlaces
  <1>4. ASSUME NEW p \in Undoers, Remove(p)
        PROVE  Shape'
    <2>1. /\ Touch(p, "reload") /\ pc[p] # "idle" /\ file' = Absent
          /\ UNCHANGED <<effective, entries, job, spoilt, unread, edits, stale>>
      BY <1>4 DEF Remove
    <2>2. QED
      BY <1>f, <1>t, <1>0, <2>1, PlainContents DEF UndoPlaces
  <1>5. ASSUME NEW p \in Undoers, NEW i \in DOMAIN entries, Undo(p, i)
        PROVE  Shape'
    <2>1. entries[i] \in Jobs
      BY <1>0 DEF TypeOK
    <2>2. /\ pc' = [pc EXCEPT ![p] = "restore"] /\ job' = [job EXCEPT ![p] = entries[i]]
          /\ UNCHANGED <<file, effective, entries, edits, marks, stale>>
      BY <1>5 DEF Undo, Goto, observers
    <2>3. job' \in [Procs -> Jobs]
      BY <1>t, <2>1, <2>2
    <2>4. /\ pc'[p] = "restore" /\ \A q \in Procs : q # p => pc'[q] = pc[q]
          /\ pc' = [q \in Procs |-> pc'[q]]
      BY <1>0, <1>t, <2>2
    <2>5. QED
      BY <1>0, <1>t, <2>2, <2>3, <2>4, ShapeKept DEF UndoPlaces, marks
  <1>6. CASE Record
    <2>1. entries' \in Seq(Jobs) /\ Len(entries') = Len(entries) + 1
      BY <1>0, <1>6 DEF Record, TypeOK
    <2>2. Len(entries') <= MaxEntries
      BY <2>1, <1>0, <1>6, DropInAssumption DEF Record, Shape, TypeOK, DropInAssumption
    <2>3. /\ pc' = [pc EXCEPT ![Executor] = "idle"] /\ job' = [job EXCEPT ![Executor] = NoJob]
          /\ UNCHANGED <<file, effective, edits, marks, stale>>
      BY <1>6 DEF Record, Done, Goto, observers
    <2>4. job' \in [Procs -> Jobs]
      BY <2>3, <1>t, PlainContents
    <2>5. /\ pc' \in [Procs -> Places] /\ pc'[Executor] = "idle"
          /\ \A q \in Undoers : pc'[q] = pc[q]
      BY <2>3, <1>t, <1>0 DEF Places
    <2>6. QED
      BY <1>t, <1>p, <1>0, <2>1, <2>2, <2>3, <2>4, <2>5
         DEF edits, marks, Shape, TypeOK, ActionPlaces, Places
  <1>7. ASSUME NEW p \in Procs, OpenFails(p)
        PROVE  Shape'
    BY <1>7, <1>d, <1>t DEF OpenFails, observers, marks
  <1>8. ASSUME NEW p \in Procs, FillFails(p)
        PROVE  Shape'
    <2>1. /\ Touch(p, "idle") /\ pc[p] # "idle" /\ file' \in {file, Garbled}
          /\ job' = [job EXCEPT ![p] = NoJob] /\ spoilt' = TRUE /\ stale' = TRUE
          /\ UNCHANGED <<effective, entries, unread, edits>>
      BY <1>8 DEF FillFails, Open
    <2>2. job' \in [Procs -> Jobs]
      BY <2>1, <1>t, PlainContents
    <2>3. QED
      BY <1>f, <1>t, <2>1, <2>2, PlainContents DEF ActionPlaces, UndoPlaces
  <1>9. ASSUME NEW p \in Procs, Reload(p)
        PROVE  Shape'
    <2>1. /\ UNCHANGED <<file, entries, edits, marks>> /\ pc[p] = "reload"
          /\ effective' = file /\ stale' = FALSE
      BY <1>9 DEF Reload
    <2>2. /\ job' \in [Procs -> Jobs] /\ pc' = [q \in Procs |-> pc'[q]]
          /\ pc'[p] = IF p = Executor THEN "record" ELSE "idle"
          /\ \A q \in Procs : q # p => pc'[q] = pc[q]
      BY <1>9, <1>t, PlainContents DEF Reload, Done, Goto
    <2>3. QED
      BY <1>t, <2>1, <2>2, ShapeKept DEF marks, ActionPlaces, UndoPlaces
  <1>10. ASSUME NEW p \in Procs, ReloadFails(p)
         PROVE  Shape'
    <2>1. Done(p) /\ UNCHANGED <<file, effective, entries, unread, overlapped, edits>>
      BY <1>10 DEF ReloadFails
    <2>2. spoilt' \in BOOLEAN /\ stale' \in BOOLEAN
      BY <1>10 DEF ReloadFails
    <2>3. QED
      BY <1>d, <1>t, <2>1, <2>2
  <1>11. ASSUME NEW p \in Procs, Crash(p)
         PROVE  Shape'
    <2>1. Done(p) /\ UNCHANGED <<file, effective, entries, unread, overlapped, edits>>
      BY <1>11 DEF Crash
    <2>2. spoilt' \in BOOLEAN /\ stale' \in BOOLEAN
      BY <1>11 DEF Crash
    <2>3. QED
      BY <1>d, <1>t, <2>1, <2>2
  <1>12. ASSUME NEW content \in AdminContents \cup {Absent}, Edit(content)
         PROVE  Shape'
    <2>1. content \in Contents
      BY PlainContents, DropInAssumption DEF DropInAssumption
    <2>2. /\ raced' \in BOOLEAN /\ overlapped' \in BOOLEAN /\ stale' \in BOOLEAN
          /\ admin' \in authored' /\ authored' \subseteq Contents /\ file' \in Contents
          /\ UNCHANGED <<effective, entries, job, spoilt, unread>>
      BY <1>0, <1>12, <2>1 DEF Edit, Overlap, TypeOK
    <2>3. /\ pc' = [q \in Procs |-> pc'[q]]
          /\ \A q \in Procs : pc'[q] = IF Open(q) THEN "torn" ELSE pc[q]
      BY <1>12 DEF Edit, Torn
    <2>4. /\ pc'[Executor] \in ActionPlaces /\ \A q \in Undoers : pc'[q] \in UndoPlaces
          /\ pc' \in [Procs -> Places]
          /\ pc'[Executor] # "idle" => pc[Executor] # "idle"
      BY <1>0, <1>t, <1>p, <2>3 DEF ActionPlaces, UndoPlaces, Places, Open
    <2>5. QED
      BY <1>0, <1>t, <2>2, <2>4 DEF Shape, TypeOK, Places
  <1>13. CASE DaemonReload \/ UNCHANGED vars
    <2>1. /\ UNCHANGED <<file, entries, pc, job, edits, marks>>
          /\ effective' \in Contents /\ stale' \in BOOLEAN
      BY <1>13, <1>t DEF DaemonReload, vars, edits, marks
    <2>2. QED
      BY <1>0, <2>1 DEF Shape, TypeOK, edits, marks
  <1>14. QED
    BY <1>1, <1>2, <1>3, <1>4, <1>5, <1>6, <1>7, <1>8, <1>9, <1>10, <1>11, <1>12, <1>13
       DEF Next

(***************************************************************************)
(* The shape of the state is what TypeOK says (write_drop_in and           *)
(* revert_drop_in).                                                        *)
(***************************************************************************)
THEOREM TypeCorrect == Spec => []TypeOK
  <1>1. Shape => TypeOK
    BY DEF Shape
  <1>2. QED
    BY <1>1, ShapeInit, ShapeStep, PTL DEF Spec

-----------------------------------------------------------------------------
(* What an observer has seen it does not forget. *)
LEMMA Monotone ==
  ASSUME [Next]_vars
  PROVE  /\ spoilt => spoilt'
         /\ unread => unread'
         /\ overlapped => overlapped'
         /\ raced => raced'
  <1>1. ASSUME NEW kind \in Kinds, Apply(kind)
        PROVE  /\ spoilt' = spoilt /\ raced' = raced
               /\ unread => unread'
               /\ overlapped => overlapped'
    BY <1>1 DEF Apply, Overlap, edits
  <1>2. ASSUME NEW p \in Procs, Truncate(p) \/ Fill(p)
        PROVE  /\ spoilt' = spoilt /\ raced' = raced /\ unread' = unread
               /\ overlapped => overlapped'
    BY <1>2 DEF Truncate, Fill, Touch, Overlap, edits
  <1>3. ASSUME NEW p \in Undoers, Remove(p)
        PROVE  /\ spoilt' = spoilt /\ raced' = raced /\ unread' = unread
               /\ overlapped => overlapped'
    BY <1>3 DEF Remove, Touch, Overlap, edits
  <1>4. ASSUME NEW p \in Procs, FillFails(p)
        PROVE  spoilt' /\ raced' = raced /\ unread' = unread /\ (overlapped => overlapped')
    BY <1>4 DEF FillFails, Touch, Overlap, edits
  <1>5. ASSUME NEW p \in Procs, ReloadFails(p) \/ Crash(p)
        PROVE  /\ spoilt => spoilt'
               /\ raced' = raced /\ unread' = unread /\ overlapped' = overlapped
    BY <1>5 DEF ReloadFails, Crash, edits
  <1>6. ASSUME NEW content \in AdminContents \cup {Absent}, Edit(content)
        PROVE  /\ spoilt' = spoilt /\ unread' = unread
               /\ raced => raced'
               /\ overlapped => overlapped'
    BY <1>6 DEF Edit, Overlap
  <1>7. ASSUME \/ Record \/ DaemonReload \/ UNCHANGED vars
               \/ \E p \in Undoers : \E i \in DOMAIN entries : Undo(p, i)
               \/ \E p \in Procs : OpenFails(p) \/ Reload(p)
        PROVE  UNCHANGED <<raced, spoilt, unread, overlapped>>
    BY <1>7 DEF Record, DaemonReload, vars, Undo, OpenFails, Reload, observers, edits, marks
  <1>8. QED
    BY <1>1, <1>2, <1>3, <1>4, <1>5, <1>6, <1>7 DEF Next

(***************************************************************************)
(* The way back.  A content is known when the administrator left it or an  *)
(* entry wrote it.  The prior content the executor holds is known; so is   *)
(* the file, unless it is what the executor just wrote or someone is about *)
(* to write it; and nobody writes into what another has opened.            *)
(***************************************************************************)
Known(n, content) == content \in authored \/ Wrote(entries, n, content)

Undisturbed == ~ spoilt /\ ~ unread /\ ~ overlapped

KnownFile ==
  \/ Known(Len(entries), file)
  \/ Pending /\ file = job[Executor].written
  \/ \E p \in Procs : pc[p] = "writing"

KnownInv ==
  Undisturbed =>
    /\ \A p \in Procs : pc[p] # "torn"
    /\ KnownFile
    /\ pc[Executor] # "idle" => Known(Len(entries), job[Executor].prior)
    /\ \A i \in DOMAIN entries : Known(i - 1, entries[i].prior)
    /\ \A p \in Undoers : pc[p] \in {"restore", "writing"} =>
         \E i \in DOMAIN entries : job[p] = entries[i]

LEMMA KnownEarlier ==
  ASSUME Shape, NEW i \in DOMAIN entries, NEW content, Known(i - 1, content)
  PROVE  Known(Len(entries), content)
  <1>1. Len(entries) \in Nat /\ i \in 1 .. Len(entries)
    BY DEF Shape, TypeOK
  <1>2. QED
    BY <1>1 DEF Known, Wrote

LEMMA KnownInit == Init => KnownInv
  BY DEF Init, KnownInv, KnownFile, Known, Procs

LEMMA KnownStep == Shape /\ KnownInv /\ [Next]_vars => KnownInv'
  <1> SUFFICES ASSUME Shape, KnownInv, [Next]_vars, Undisturbed'
               PROVE  KnownInv'
    BY DEF KnownInv
  <1>0. /\ Executor \in Procs /\ Undoers \subseteq Procs /\ Executor \notin Undoers
        /\ \A p \in Procs : p # Executor => p \in Undoers
        /\ TypeOK
    BY DropInAssumption DEF Procs, DropInAssumption, Shape
  <1>s. Undisturbed
    BY Monotone DEF Undisturbed
  <1>k. /\ \A p \in Procs : pc[p] # "torn"
        /\ KnownFile
        /\ pc[Executor] # "idle" => Known(Len(entries), job[Executor].prior)
        /\ \A i \in DOMAIN entries : Known(i - 1, entries[i].prior)
        /\ \A p \in Undoers : pc[p] \in {"restore", "writing"} =>
             \E i \in DOMAIN entries : job[p] = entries[i]
    BY <1>s DEF KnownInv
  <1>t. /\ pc \in [Procs -> Places]
        /\ job \in [Procs -> Jobs] /\ entries \in Seq(Jobs)
        /\ Len(entries) \in Nat
        /\ pc[Executor] \in ActionPlaces
        /\ \A p \in Undoers : pc[p] \in UndoPlaces
    BY <1>0 DEF TypeOK, Shape, Places
  <1>u. ASSUME NEW p \in Procs, NEW l, Touch(p, l)
        PROVE  /\ pc'[p] = l
               /\ \A q \in Procs : q # p => pc[q] # "writing" /\ pc'[q] = pc[q]
    <2>1. ~ \E q \in Procs \ {p} : Open(q)
      BY <1>u DEF Touch, Overlap, Undisturbed
    <2>2. QED
      BY <1>u, <2>1, TouchMoves DEF Open
  <1>1. ASSUME NEW kind \in Kinds, Apply(kind)
        PROVE  KnownInv'
    <2>1. job'[Executor].prior = file
      <3>1. PICK v \in Values, prior \in {file} \cup {Absent} :
              /\ job' = [job EXCEPT ![Executor] = [prior |-> prior,
                                                   written |-> Rendered(kind, v)]]
              /\ unread' = (unread \/ prior # file)
        BY <1>1 DEF Apply
      <3>2. prior = file
        BY <3>1 DEF Undisturbed
      <3>3. QED
        BY <3>1, <3>2, <1>0, <1>t
    <2>2. /\ pc[Executor] = "idle" /\ pc'[Executor] = "write"
          /\ \A p \in Undoers : pc'[p] = pc[p] /\ job'[p] = job[p]
          /\ UNCHANGED <<file, entries, authored>>
          /\ \A p \in Undoers : ~ Open(p)
      BY <1>0, <1>1, <1>t DEF Apply, Goto, edits, Overlap, Undisturbed
    <2>3. Known(Len(entries), file)
      BY <1>k, <1>0, <2>2 DEF KnownFile, Pending, Open
    <2>4. Known(Len(entries), file)' /\ Known(Len(entries), job[Executor].prior)'
      BY <2>1, <2>2, <2>3 DEF Known, Wrote
    <2>5. \A p \in Procs : pc'[p] # "torn"
      BY <1>k, <1>0, <2>2
    <2>6. \A i \in DOMAIN entries' : Known(i - 1, entries[i].prior)'
      BY <1>k, <2>2 DEF Known, Wrote
    <2>7. QED
      BY <1>k, <2>2, <2>4, <2>5, <2>6 DEF KnownInv, KnownFile
  <1>2. ASSUME NEW p \in Procs, Truncate(p)
        PROVE  KnownInv'
    <2>1. /\ Touch(p, "writing") /\ pc[p] \in {"write", "restore"}
          /\ UNCHANGED <<entries, job, authored>>
      BY <1>2 DEF Truncate, edits
    <2>2. pc'[p] = "writing" /\ \A q \in Procs : q # p => pc'[q] = pc[q]
      BY <2>1, <1>u
    <2>3. pc'[Executor] # "idle" => pc[Executor] # "idle"
      BY <1>0, <2>1, <2>2
    <2>4. \A q \in Undoers : pc'[q] \in {"restore", "writing"} =>
                              pc[q] \in {"restore", "writing"}
      BY <1>0, <1>t, <2>1, <2>2 DEF UndoPlaces
    <2>5. \A q \in Procs : pc'[q] # "torn"
      BY <1>k, <2>2
    <2>6. QED
      BY <1>k, <2>1, <2>2, <2>3, <2>4, <2>5 DEF KnownInv, KnownFile, Known, Wrote
  <1>3. ASSUME NEW p \in Procs, Fill(p) \/ Remove(p)
        PROVE  KnownInv'
    <2>1. /\ Touch(p, "reload") /\ pc[p] \in {"restore", "writing"}
          /\ UNCHANGED <<entries, job, authored>>
      BY <1>3, <1>k DEF Fill, Remove, Open, edits
    <2>2. pc'[p] = "reload" /\ \A q \in Procs : q # p => pc'[q] = pc[q]
      BY <2>1, <1>u
    <2>3. KnownFile'
      <3>1. CASE p = Executor
        <4>1. file' = job[Executor].written
          BY <1>3, <1>k, <1>t, <3>1 DEF Fill, Remove, Output, ActionPlaces
        <4>2. Pending'
          BY <2>2, <3>1 DEF Pending
        <4>3. QED
          BY <4>1, <4>2, <2>1 DEF KnownFile
      <3>2. CASE p # Executor
        <4>1. file' = job[p].prior
          BY <1>3, <1>k, <3>2 DEF Fill, Remove, Output
        <4>2. PICK i \in DOMAIN entries : job[p] = entries[i]
          BY <1>0, <1>k, <2>1, <3>2
        <4>3. Known(Len(entries), file')
          BY <1>k, <4>1, <4>2, KnownEarlier
        <4>4. QED
          BY <4>3, <2>1 DEF KnownFile, Known, Wrote
      <3>3. QED
        BY <3>1, <3>2
    <2>4. pc'[Executor] # "idle" => pc[Executor] # "idle"
      BY <1>0, <2>1, <2>2
    <2>5. QED
      BY <1>0, <1>k, <2>1, <2>2, <2>3, <2>4 DEF KnownInv, Known, Wrote
  <1>4. ASSUME NEW p \in Undoers, NEW i \in DOMAIN entries, Undo(p, i)
        PROVE  KnownInv'
    <2>1. /\ pc'[p] = "restore" /\ \A q \in Procs : q # p => pc'[q] = pc[q]
          /\ pc[p] = "idle"
          /\ job'[p] = entries[i] /\ \A q \in Procs : q # p => job'[q] = job[q]
          /\ UNCHANGED <<file, entries, authored>>
      BY <1>0, <1>4, <1>t DEF Undo, Goto, observers, edits
    <2>2. KnownFile'
      <3>1. Pending => Pending' /\ job'[Executor] = job[Executor]
        BY <1>0, <2>1 DEF Pending, Open
      <3>2. \A q \in Procs : pc[q] = "writing" => pc'[q] = "writing"
        BY <2>1
      <3>3. QED
        BY <1>k, <2>1, <3>1, <3>2 DEF KnownFile, Known, Wrote
    <2>3. /\ pc'[Executor] = pc[Executor] /\ job'[Executor] = job[Executor]
          /\ \A q \in Procs : pc'[q] # "torn"
      BY <1>0, <1>k, <2>1
    <2>4. QED
      BY <1>0, <1>k, <2>1, <2>2, <2>3 DEF KnownInv, Known, Wrote
  <1>5. CASE Record
    <2>1. /\ pc[Executor] = "record" /\ pc'[Executor] = "idle"
          /\ \A p \in Undoers : pc'[p] = pc[p] /\ job'[p] = job[p]
          /\ UNCHANGED <<file, authored>>
      BY <1>0, <1>5, <1>t DEF Record, Done, Goto, observers, edits
    <2>2. /\ entries' = Append(entries, job[Executor])
          /\ Len(entries') = Len(entries) + 1
          /\ entries'[Len(entries) + 1] = job[Executor]
          /\ \A i \in DOMAIN entries : i \in DOMAIN entries' /\ entries'[i] = entries[i]
          /\ \A i \in DOMAIN entries' : i \in DOMAIN entries \/ i = Len(entries) + 1
          /\ DOMAIN entries = 1 .. Len(entries) /\ DOMAIN entries' = 1 .. Len(entries')
      BY <1>0, <1>5, <1>t DEF Record
    <2>3. \A j \in 1 .. Len(entries) :
             j \in 1 .. Len(entries') /\ entries'[j].written = entries[j].written
      BY <2>2, <1>t
    <2>4. KnownFile'
      <3>1. CASE Known(Len(entries), file)
        BY <3>1, <2>1, <2>3 DEF KnownFile, Known, Wrote
      <3>2. CASE file = job[Executor].written
        <4>1. Len(entries') \in 1 .. Len(entries')
          BY <2>2, <1>t
        <4>2. entries'[Len(entries')].written = file'
          BY <2>1, <2>2, <3>2
        <4>3. QED
          BY <4>1, <4>2 DEF KnownFile, Known, Wrote
      <3>3. CASE \E p \in Procs : pc[p] = "writing"
        <4>1. PICK p \in Procs : pc[p] = "writing"
          BY <3>3
        <4>2. p \in Undoers /\ pc'[p] = "writing"
          BY <1>0, <2>1, <4>1
        <4>3. QED
          BY <4>1, <4>2 DEF KnownFile
      <3>4. QED
        BY <1>k, <3>1, <3>2, <3>3 DEF KnownFile
    <2>5. ASSUME NEW i \in DOMAIN entries'
          PROVE  Known(i - 1, entries[i].prior)'
      <3>1. CASE i \in DOMAIN entries
        <4>1. Known(i - 1, entries[i].prior) /\ entries'[i] = entries[i]
          BY <1>k, <2>2, <3>1
        <4>2. \A j \in 1 .. i - 1 : j \in 1 .. Len(entries)
          BY <2>2, <3>1, <1>t
        <4>3. QED
          BY <4>1, <4>2, <2>1, <2>3 DEF Known, Wrote
      <3>2. CASE i = Len(entries) + 1
        <4>1. Known(Len(entries), job[Executor].prior) /\ entries'[i] = job[Executor]
          BY <1>k, <2>1, <2>2, <3>2
        <4>2. i - 1 = Len(entries)
          BY <3>2, <1>t
        <4>3. QED
          BY <4>1, <4>2, <2>1, <2>3 DEF Known, Wrote
      <3>3. QED
        BY <2>2, <3>1, <3>2
    <2>6. \A p \in Procs : pc'[p] # "torn"
      BY <1>0, <1>k, <2>1
    <2>7. QED
      BY <1>k, <2>1, <2>2, <2>4, <2>5, <2>6 DEF KnownInv
  <1>e. ASSUME NEW p \in Procs, Done(p), UNCHANGED <<file, entries, authored>>, ~ Open(p),
               p # Executor \/ ~ Pending
        PROVE  KnownInv'
    <2>1. /\ pc'[p] = "idle"
          /\ \A q \in Procs : q # p => pc'[q] = pc[q] /\ job'[q] = job[q]
      BY <1>e, <1>t DEF Done, Goto
    <2>2. KnownFile'
      <3>1. Pending => Pending' /\ job'[Executor] = job[Executor]
        BY <1>0, <1>e, <2>1 DEF Pending, Open
      <3>2. \A q \in Procs : pc[q] = "writing" => pc'[q] = "writing"
        BY <1>e, <2>1 DEF Open
      <3>3. QED
        BY <1>e, <1>k, <3>1, <3>2 DEF KnownFile, Known, Wrote
    <2>3. \A q \in Procs : pc'[q] # "torn"
      BY <1>k, <2>1
    <2>4. pc'[Executor] # "idle" =>
            pc[Executor] # "idle" /\ job'[Executor] = job[Executor]
      BY <1>0, <2>1
    <2>5. \A q \in Undoers : pc'[q] \in {"restore", "writing"} =>
            pc[q] \in {"restore", "writing"} /\ job'[q] = job[q]
      BY <1>0, <2>1
    <2>6. QED
      BY <1>e, <1>k, <2>2, <2>3, <2>4, <2>5 DEF KnownInv, Known, Wrote
  <1>6. ASSUME NEW p \in Procs, OpenFails(p)
        PROVE  KnownInv'
    <2>1. /\ Done(p) /\ pc[p] \in {"write", "restore"}
          /\ UNCHANGED <<file, entries, authored>>
      BY <1>6 DEF OpenFails, observers, edits
    <2>2. QED
      BY <1>e, <2>1 DEF Pending, Open
  <1>7. ASSUME NEW p \in Procs, FillFails(p)
        PROVE  FALSE
    BY <1>7 DEF FillFails, Undisturbed
  <1>8. ASSUME NEW p \in Procs, Reload(p)
        PROVE  KnownInv'
    <2>1. CASE p = Executor
      <3>1. /\ Pending /\ Pending' /\ \A q \in Undoers : pc'[q] = pc[q]
            /\ UNCHANGED <<job, file, entries, authored>>
            /\ pc[Executor] = "reload" /\ pc'[Executor] = "record"
        BY <1>0, <1>8, <2>1, <1>t DEF Reload, Goto, Pending, edits
      <3>2. KnownFile'
        <4>1. (\E q \in Procs : pc[q] = "writing") => \E q \in Procs : pc'[q] = "writing"
          BY <1>0, <3>1
        <4>2. QED
          BY <1>k, <3>1, <4>1 DEF KnownFile, Known, Wrote
      <3>3. \A q \in Procs : pc'[q] # "torn"
        BY <1>0, <1>k, <3>1
      <3>4. QED
        BY <1>k, <3>1, <3>2, <3>3 DEF KnownInv, Known, Wrote
    <2>2. CASE p # Executor
      BY <1>8, <1>e, <2>2 DEF Reload, edits, Open
    <2>3. QED
      BY <2>1, <2>2
  <1>9. ASSUME NEW p \in Procs, ReloadFails(p) \/ Crash(p)
        PROVE  KnownInv'
    <2>1. /\ Done(p) /\ UNCHANGED <<file, entries, authored>>
          /\ ~ Open(p) /\ (p # Executor \/ ~ Pending)
      BY <1>9 DEF ReloadFails, Crash, edits, Undisturbed, Pending, Open
    <2>2. QED
      BY <1>e, <2>1
  <1>10. ASSUME NEW content \in AdminContents \cup {Absent}, Edit(content)
         PROVE  KnownInv'
    <2>1. /\ file' = content /\ authored' = authored \cup {content}
          /\ UNCHANGED <<entries, job>>
          /\ \A p \in Procs : ~ Open(p)
      BY <1>10 DEF Edit, Overlap, Undisturbed
    <2>2. \A p \in Procs : pc'[p] = pc[p]
      BY <1>10, <2>1 DEF Edit, Torn
    <2>3. \A p \in Undoers : pc'[p] = pc[p]
      BY <2>2, <1>0
    <2>4. pc'[Executor] = pc[Executor]
      BY <2>2, <1>0
    <2>5. Known(Len(entries), file)'
      BY <2>1 DEF Known
    <2>6. QED
      BY <1>k, <2>1, <2>2, <2>3, <2>4, <2>5 DEF KnownInv, KnownFile, Known, Wrote
  <1>11. CASE DaemonReload \/ UNCHANGED vars
    <2>1. UNCHANGED <<file, entries, pc, job, authored>>
      BY <1>11 DEF DaemonReload, vars, edits
    <2>2. KnownFile'
      BY <1>k, <2>1 DEF KnownFile, Known, Wrote, Pending, Open
    <2>3. QED
      BY <1>k, <2>1, <2>2 DEF KnownInv, Known, Wrote
  <1>12. QED
    BY <1>0, <1>1, <1>2, <1>3, <1>4, <1>5, <1>6, <1>7, <1>8, <1>9, <1>10, <1>11 DEF Next

(***************************************************************************)
(* A chain of undos always leads back to a content of the administrator's, *)
(* unless a write went unrecorded or stopped half-way, a prior content     *)
(* could not be read, or someone met a command between the truncation of   *)
(* the file and the write (write_drop_in, restore_drop_in_file).           *)
(***************************************************************************)
THEOREM AlwaysAWayBack == Spec => []WayBack
  <1>1. ASSUME Shape, KnownInv
        PROVE  WayBack
    <2> SUFFICES ASSUME ~ spoilt, ~ unread, ~ overlapped, ~ Pending
                 PROVE  /\ (\A p \in Undoers : ~ Open(p)) =>
                             file \in authored \/ Wrote(entries, Len(entries), file)
                        /\ \A i \in DOMAIN entries :
                             entries[i].prior \in authored
                               \/ Wrote(entries, i - 1, entries[i].prior)
      BY DEF WayBack
    <2>1. KnownFile /\ \A i \in DOMAIN entries : Known(i - 1, entries[i].prior)
      BY <1>1 DEF KnownInv, Undisturbed
    <2>2. (\A p \in Undoers : ~ Open(p)) => \A p \in Procs : pc[p] # "writing"
      BY DEF Procs, Pending, Open
    <2>3. QED
      BY <2>1, <2>2 DEF KnownFile, Known
  <1>2. QED
    BY <1>1, ShapeInit, ShapeStep, KnownInit, KnownStep, PTL DEF Spec

-----------------------------------------------------------------------------
(***************************************************************************)
(* The administrator's content.  While no entry holds it, it is on disk    *)
(* and no undo has passed its comparison -- the comparison needs an entry  *)
(* that wrote it -- or the executor has just replaced it and is about to   *)
(* record it.                                                              *)
(***************************************************************************)
Held == \E i \in DOMAIN entries : admin \in {entries[i].prior, entries[i].written}

OnDisk ==
  /\ file = admin
  /\ \A p \in Procs : pc[p] # "restore" /\ ~ Open(p)
  /\ pc[Executor] = "write" => job[Executor].prior = admin

Replaced == Pending /\ job[Executor].prior = admin

AdminInv == (~ spoilt /\ ~ unread /\ ~ raced) => Held \/ OnDisk \/ Replaced

LEMMA AdminInit == Init => AdminInv
  BY DropInAssumption DEF Init, AdminInv, OnDisk, Open, Procs, DropInAssumption

LEMMA AdminStep == Shape /\ AdminInv /\ [Next]_vars => AdminInv'
  <1> SUFFICES ASSUME Shape, AdminInv, [Next]_vars, ~ spoilt', ~ unread', ~ raced'
               PROVE  Held' \/ OnDisk' \/ Replaced'
    BY DEF AdminInv
  <1>0. /\ Executor \in Procs /\ Undoers \subseteq Procs /\ Executor \notin Undoers
        /\ \A p \in Procs : p # Executor => p \in Undoers
    BY DropInAssumption DEF Procs, DropInAssumption
  <1>k. Held \/ OnDisk \/ Replaced
    BY Monotone DEF AdminInv
  <1>t. /\ pc \in [Procs -> Places]
        /\ job \in [Procs -> Jobs] /\ entries \in Seq(Jobs)
        /\ pc[Executor] \in ActionPlaces
    BY DEF TypeOK, Shape, Places
  <1>h. (Held /\ UNCHANGED <<entries, admin>>) => Held'
    BY DEF Held
  <1>u. ASSUME NEW p \in Undoers, NEW l, Touch(p, l), UNCHANGED <<job, admin>>
        PROVE  Replaced => Replaced'
    <2>1. pc'[Executor] = IF Open(Executor) THEN "torn" ELSE pc[Executor]
      BY <1>0, <1>u, TouchMoves
    <2>2. QED
      BY <1>u, <2>1 DEF Replaced, Pending, Open
  <1>1. ASSUME NEW kind \in Kinds, Apply(kind)
        PROVE  Held' \/ OnDisk'
    <2>1. PICK v \in Values, prior \in {file} \cup {Absent} :
            /\ job' = [job EXCEPT ![Executor] = [prior |-> prior,
                                                 written |-> Rendered(kind, v)]]
            /\ unread' = (unread \/ prior # file)
      BY <1>1 DEF Apply
    <2>2. job'[Executor].prior = file
      BY <2>1, <1>0, <1>t
    <2>3. /\ pc[Executor] = "idle" /\ pc'[Executor] = "write"
          /\ \A p \in Procs : p # Executor => pc'[p] = pc[p]
          /\ UNCHANGED <<file, entries, admin>>
      BY <1>0, <1>1, <1>t DEF Apply, Goto, edits
    <2>4. OnDisk => OnDisk'
      BY <2>2, <2>3 DEF OnDisk, Open
    <2>5. QED
      BY <1>k, <1>h, <2>3, <2>4 DEF Replaced, Pending, Open
  <1>2. ASSUME NEW p \in Procs, Truncate(p)
        PROVE  Held' \/ Replaced'
    <2>1. /\ Touch(p, "writing") /\ pc[p] \in {"write", "restore"}
          /\ UNCHANGED <<entries, job, admin>>
      BY <1>2 DEF Truncate, edits
    <2>2. CASE p = Executor
      <3>1. pc'[Executor] = "writing" /\ pc[Executor] = "write"
        BY <1>0, <1>t, <2>1, <2>2, TouchMoves DEF ActionPlaces
      <3>2. QED
        BY <1>k, <1>h, <2>1, <3>1 DEF OnDisk, Replaced, Pending, Open
    <2>3. CASE p # Executor
      <3>1. p \in Undoers /\ pc[p] = "restore"
        BY <1>0, <2>1, <2>3 DEF Shape, UndoPlaces
      <3>2. QED
        BY <1>k, <1>h, <1>u, <2>1, <3>1, <1>0 DEF OnDisk
    <2>4. QED
      BY <2>2, <2>3
  <1>3. ASSUME NEW p \in Procs, Fill(p)
        PROVE  Held' \/ Replaced'
    <2>1. Touch(p, "reload") /\ Open(p) /\ UNCHANGED <<entries, job, admin>>
      BY <1>3 DEF Fill, edits
    <2>2. CASE p = Executor
      <3>1. pc'[Executor] = "reload"
        BY <1>0, <2>1, <2>2, TouchMoves
      <3>2. QED
        BY <1>k, <1>h, <2>1, <2>2, <3>1 DEF OnDisk, Replaced, Pending
    <2>3. CASE p # Executor
      BY <1>k, <1>h, <1>u, <1>0, <2>1, <2>3 DEF OnDisk
    <2>4. QED
      BY <2>2, <2>3
  <1>4. ASSUME NEW p \in Undoers, Remove(p)
        PROVE  Held' \/ Replaced'
    <2>1. Touch(p, "reload") /\ pc[p] = "restore" /\ UNCHANGED <<entries, job, admin>>
      BY <1>4 DEF Remove, edits
    <2>2. QED
      BY <1>k, <1>h, <1>u, <1>0, <2>1 DEF OnDisk
  <1>5. ASSUME NEW p \in Undoers, NEW i \in DOMAIN entries, Undo(p, i)
        PROVE  Held' \/ Replaced'
    <2>1. /\ file = entries[i].written
          /\ pc'[Executor] = pc[Executor] /\ job'[Executor] = job[Executor]
          /\ UNCHANGED <<entries, admin>>
      BY <1>0, <1>5, <1>t DEF Undo, Goto, observers, edits
    <2>2. OnDisk => Held
      BY <2>1 DEF OnDisk, Held
    <2>3. QED
      BY <1>k, <1>h, <2>1, <2>2 DEF Replaced, Pending, Open
  <1>6. CASE Record
    <2>1. /\ pc[Executor] = "record" /\ pc'[Executor] = "idle"
          /\ \A p \in Procs : p # Executor => pc'[p] = pc[p]
          /\ UNCHANGED <<file, admin>>
      BY <1>0, <1>6, <1>t DEF Record, Done, Goto, observers, edits
    <2>2. /\ entries'[Len(entries) + 1] = job[Executor]
          /\ Len(entries) + 1 \in DOMAIN entries'
          /\ \A i \in DOMAIN entries : i \in DOMAIN entries' /\ entries'[i] = entries[i]
      BY <1>0, <1>6, <1>t DEF Record
    <2>3. Held => Held'
      BY <2>1, <2>2 DEF Held
    <2>4. job[Executor].prior = admin => Held'
      BY <2>1, <2>2 DEF Held
    <2>5. OnDisk => OnDisk'
      BY <2>1 DEF OnDisk, Open
    <2>6. QED
      BY <1>k, <2>3, <2>4, <2>5 DEF Replaced
  <1>e. ASSUME NEW p \in Procs, Done(p), UNCHANGED <<file, entries, admin>>,
               p # Executor \/ ~ Pending
        PROVE  Held' \/ OnDisk' \/ Replaced'
    <2>1. /\ pc'[p] = "idle"
          /\ \A q \in Procs : q # p => pc'[q] = pc[q] /\ job'[q] = job[q]
      BY <1>e, <1>t DEF Done, Goto
    <2>2. OnDisk => OnDisk'
      BY <1>0, <1>e, <2>1 DEF OnDisk, Open
    <2>3. QED
      BY <1>0, <1>e, <1>k, <1>h, <2>1, <2>2 DEF Replaced, Pending, Open
  <1>7. ASSUME NEW p \in Procs, OpenFails(p)
        PROVE  Held' \/ OnDisk' \/ Replaced'
    <2>1. /\ Done(p) /\ pc[p] \in {"write", "restore"} /\ UNCHANGED <<file, entries, admin>>
      BY <1>7 DEF OpenFails, observers, edits
    <2>2. QED
      BY <1>e, <2>1 DEF Pending, Open
  <1>8. ASSUME NEW p \in Procs, FillFails(p)
        PROVE  FALSE
    BY <1>8 DEF FillFails
  <1>9. ASSUME NEW p \in Procs, Reload(p)
        PROVE  Held' \/ OnDisk' \/ Replaced'
    <2>1. CASE p = Executor
      <3>1. /\ pc[Executor] = "reload" /\ pc'[Executor] = "record"
            /\ \A q \in Procs : q # Executor => pc'[q] = pc[q]
            /\ UNCHANGED <<job, file, entries, admin>>
        BY <1>0, <1>9, <2>1, <1>t DEF Reload, Goto, edits
      <3>2. QED
        BY <1>k, <1>h, <3>1 DEF OnDisk, Replaced, Pending, Open
    <2>2. CASE p # Executor
      BY <1>9, <1>e, <2>2 DEF Reload, edits
    <2>3. QED
      BY <2>1, <2>2
  <1>10. ASSUME NEW p \in Procs, ReloadFails(p) \/ Crash(p)
         PROVE  Held' \/ OnDisk' \/ Replaced'
    <2>1. /\ Done(p) /\ UNCHANGED <<file, entries, admin>>
          /\ p # Executor \/ ~ Pending
      BY <1>10 DEF ReloadFails, Crash, edits, Pending, Open
    <2>2. QED
      BY <1>e, <2>1
  <1>11. ASSUME NEW content \in AdminContents \cup {Absent}, Edit(content)
         PROVE  OnDisk'
    <2>1. /\ file' = content /\ admin' = content /\ UNCHANGED job
          /\ \A p \in Procs : pc[p] \notin {"write", "restore", "writing", "torn"}
      BY <1>11 DEF Edit
    <2>2. \A p \in Procs : pc'[p] = pc[p]
      BY <1>11, <2>1 DEF Edit, Torn, Open
    <2>3. QED
      BY <1>0, <2>1, <2>2 DEF OnDisk, Open
  <1>12. CASE DaemonReload \/ UNCHANGED vars
    <2>1. UNCHANGED <<file, entries, pc, job, admin>>
      BY <1>12 DEF DaemonReload, vars, edits
    <2>2. QED
      BY <1>k, <1>h, <2>1 DEF OnDisk, Replaced, Pending, Open
  <1>13. QED
    BY <1>1, <1>2, <1>3, <1>4, <1>5, <1>6, <1>7, <1>8, <1>9, <1>10, <1>11, <1>12 DEF Next

(***************************************************************************)
(* What the administrator left in the file is never destroyed, unless a    *)
(* write went unrecorded or stopped half-way, the file could not be read   *)
(* before it was replaced, or the edit fell between a command's read and   *)
(* the end of its write (restore_drop_in_file's comparison, prior_content  *)
(* of write_drop_in).                                                      *)
(***************************************************************************)
THEOREM AdminContentNeverLost == Spec => []AdminContentKept
  <1>1. AdminInv => AdminContentKept
    BY DEF AdminInv, AdminContentKept, Held, OnDisk, Replaced
  <1>2. QED
    BY <1>1, ShapeInit, ShapeStep, AdminInit, AdminStep, PTL DEF Spec

-----------------------------------------------------------------------------
(* systemd has the file, or someone still has to reload, or nobody will. *)
QuietInv == effective = file \/ stale \/ \E p \in Procs : Open(p) \/ pc[p] = "reload"

LEMMA QuietStep == Shape /\ QuietInv /\ [Next]_vars => QuietInv'
  <1> SUFFICES ASSUME Shape, QuietInv, [Next]_vars
               PROVE  QuietInv'
    OBVIOUS
  <1>0. /\ Executor \in Procs /\ Undoers \subseteq Procs
        /\ pc \in [Procs -> Places]
    BY DEF Procs, Shape, TypeOK, Places
  <1>1. ASSUME NEW p \in Procs, UNCHANGED <<effective, file>>, stale => stale',
               ~ Open(p), pc[p] # "reload", \E l : pc' = [pc EXCEPT ![p] = l]
        PROVE  QuietInv'
    BY <1>0, <1>1 DEF QuietInv, Open
  <1>2. ASSUME NEW kind \in Kinds, Apply(kind)
        PROVE  QuietInv'
    BY <1>0, <1>1, <1>2 DEF Apply, Goto, Open
  <1>3. CASE Record
    BY <1>0, <1>1, <1>3 DEF Record, Done, Goto, observers, Open
  <1>4. ASSUME NEW p \in Undoers, NEW i \in DOMAIN entries, Undo(p, i)
        PROVE  QuietInv'
    BY <1>0, <1>1, <1>4 DEF Undo, Goto, observers, Open
  <1>5. ASSUME NEW p \in Procs, Truncate(p) \/ Fill(p) \/ Remove(p)
        PROVE  QuietInv'
    <2>1. Touch(p, "writing") \/ Touch(p, "reload")
      BY <1>5 DEF Truncate, Fill, Remove
    <2>2. pc'[p] \in {"writing", "reload"}
      BY <2>1, TouchMoves
    <2>3. QED
      BY <2>2 DEF QuietInv, Open
  <1>6. ASSUME NEW p \in Procs, OpenFails(p)
        PROVE  QuietInv'
    BY <1>0, <1>1, <1>6 DEF OpenFails, Done, Goto, observers, Open
  <1>7. CASE DaemonReload \/ \E p \in Procs : Reload(p)
    BY <1>7 DEF DaemonReload, Reload, QuietInv
  <1>8. ASSUME NEW p \in Procs, Crash(p)
        PROVE  QuietInv'
    <2>1. CASE Open(p) \/ pc[p] = "reload"
      BY <1>8, <2>1 DEF Crash, QuietInv
    <2>2. CASE ~ Open(p) /\ pc[p] # "reload"
      <3>1. stale => stale'
        <4>1. stale' = (stale \/ Open(p) \/ pc[p] = "reload")
          BY <1>8 DEF Crash
        <4>2. QED
          BY <4>1, Zenon
      <3>2. effective' = effective /\ file' = file /\ pc' = [pc EXCEPT ![p] = "idle"]
        BY <1>8 DEF Crash, Done, Goto
      <3>3. QED
        BY <1>0, <1>1, <2>2, <3>1, <3>2
    <2>3. QED
      BY <2>1, <2>2
  <1>9. CASE (\E p \in Procs : FillFails(p) \/ ReloadFails(p))
             \/ \E content \in AdminContents \cup {Absent} : Edit(content)
    BY <1>9 DEF FillFails, ReloadFails, Edit, QuietInv
  <1>10. CASE UNCHANGED vars
    BY <1>10 DEF vars, QuietInv, Open
  <1>11. QED
    BY <1>0, <1>2, <1>3, <1>4, <1>5, <1>6, <1>7, <1>8, <1>9, <1>10 DEF Next

(***************************************************************************)
(* systemd runs with the file once every command has ended (daemon_reload  *)
(* after each write).                                                      *)
(***************************************************************************)
THEOREM QuietMeansLoaded == Spec => []LoadedWhenQuiet
  <1>1. Init => QuietInv
    BY DEF Init, QuietInv
  <1>2. QuietInv => LoadedWhenQuiet
    BY DEF QuietInv, LoadedWhenQuiet, Open
  <1>3. QED
    BY <1>1, <1>2, ShapeInit, ShapeStep, QuietStep, PTL DEF Spec
=============================================================================
