------------------------------- MODULE MCSampler -------------------------------
(***************************************************************************)
(* Sampler with counters that reach two where their order matters: iowait, *)
(* which goes back, and the pages swapped in.                              *)
(***************************************************************************)
EXTENDS Sampler

MCMaxCount == [busy |-> 1, idle |-> 1, iowait |-> 2, swapIn |-> 2]
=============================================================================
