----------------------------- MODULE MCLifecycle -----------------------------
(***************************************************************************)
(* Lifecycle with small figures in the proportions that matter: a watchdog *)
(* whose half is below the idle interval, one that two pauses fit in, and  *)
(* none; a start limit that failing start-ups reach and watchdog restarts  *)
(* do not.                                                                 *)
(***************************************************************************)
EXTENDS Lifecycle

MCWatchdogs == {Unset, 4, 9}
=============================================================================
