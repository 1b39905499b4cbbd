------------------------------ MODULE JsonLines ------------------------------
(***************************************************************************)
(* The JSON-lines files the program keeps: the daily history files         *)
(* (history/mod.rs) and the rollback store (rollback/mod.rs).  Both are    *)
(* appended to with writeln! on an unbuffered File, which issues the JSON  *)
(* text and the newline as separate writes, and both are read line by      *)
(* line, corrupt lines skipped.                                            *)
(*                                                                         *)
(* A file is its readable records and the condition of its last line: a    *)
(* failure or a crash can leave a whole record without its newline         *)
(* ("unterminated": readable for now) or a fragment ("broken").  Corrupt   *)
(* lines are not represented.                                              *)
(***************************************************************************)
EXTENDS Integers, Sequences

Tails == {"absent", "clean", "unterminated", "broken"}
FileOf(R) == {f \in [records : Seq(R), tail : Tails] :
                f.tail = "unterminated" => f.records # <<>>}
NoFile == [records |-> <<>>, tail |-> "absent"]

\* What reaches the disk of one append.
Outcomes == {"line", "json", "fragment", "created", "nothing"}

(***************************************************************************)
(* Appending bytes to a file whose last line has no newline turns that     *)
(* line into one corrupt line: the reader loses the old record as well as  *)
(* the new one.                                                            *)
(***************************************************************************)
Written(f, l, outcome) ==
  LET kept == IF f.tail = "unterminated" THEN SubSeq(f.records, 1, Len(f.records) - 1)
                                         ELSE f.records
  IN  IF outcome = "nothing" THEN f
      ELSE IF outcome = "created"
      THEN IF f.tail = "absent" THEN [f EXCEPT !.tail = "clean"] ELSE f
      ELSE IF f.tail \in {"absent", "clean"}
      THEN IF outcome = "line" THEN [records |-> Append(f.records, l), tail |-> "clean"]
           ELSE IF outcome = "json"
           THEN [records |-> Append(f.records, l), tail |-> "unterminated"]
           ELSE [records |-> f.records, tail |-> "broken"]
      ELSE [records |-> kept, tail |-> IF outcome = "line" THEN "clean" ELSE "broken"]

\* The last n records: what is left once the oldest are dropped.
LastN(s, n) == IF Len(s) <= n THEN s ELSE SubSeq(s, Len(s) - n + 1, Len(s))

\* Mutant: nothing is removed.
PushUncapped(s, x, cap) == Append(s, x)

\* Vec::push, then remove(0) once over the capacity.
Push(s, x, cap) == LastN(Append(s, x), cap)
=============================================================================
