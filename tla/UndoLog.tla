-------------------------------- MODULE UndoLog --------------------------------
(***************************************************************************)
(* What an undo log promises, whatever it is made of: each knob of a       *)
(* system has a way back, the value it had before it was first touched,    *)
(* which is kept from then on; and a knob is touched only once it has one. *)
(* A change and the saving of what it changes are one step here.           *)
(***************************************************************************)
CONSTANTS
  Knobs,     \* what can be changed
  Values,    \* the values a knob can take
  NotSaved,  \* stands for "no way back yet"
  Original   \* the untouched system

VARIABLES
  system,  \* knob -> value
  back     \* knob -> the value that undoing everything gives it, or NotSaved

vars == <<system, back>>

Init ==
  /\ system = Original
  /\ back = [k \in Knobs |-> NotSaved]

(***************************************************************************)
(* An action or an undo: the knobs of "fresh" are saved for the first      *)
(* time, and only knobs that are saved by then take another value.         *)
(***************************************************************************)
Touch(fresh) ==
  /\ back' = [k \in Knobs |-> IF k \in fresh THEN system[k] ELSE back[k]]
  /\ system' \in [Knobs -> Values]
  /\ \A k \in Knobs : system'[k] # system[k] => back'[k] # NotSaved

Next == \E fresh \in SUBSET {k \in Knobs : back[k] = NotSaved} : Touch(fresh)

Spec == Init /\ [][Next]_vars
=============================================================================
