------------------------------- MODULE MCSurvey -------------------------------
(***************************************************************************)
(* Two pids, two names -- one that a rule watches, one that is protected   *)
(* although the same rule matches it -- and one allowed unit with a memory *)
(* limit.                                                                  *)
(***************************************************************************)
EXTENDS Survey, TLC

CONSTANTS p1, p2, hog, sshd, app

Symmetry == Permutations({p1, p2})

MCRules == {[matches |-> {hog, sshd}, cpu |-> 0, rss |-> 0]}
MCUnitLimits == [u \in {app} |-> 0]
=============================================================================
