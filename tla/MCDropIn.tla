------------------------------ MODULE MCDropIn ------------------------------
(***************************************************************************)
(* DropIn with one executor and one undo at a time, both memory limits,    *)
(* and an administrator whose section looks like one of syswarden's.       *)
(***************************************************************************)
EXTENDS DropIn

MCAdminContents == {[Truncated EXCEPT !["MemoryHigh"] = 1]}
=============================================================================
