------------------------------- MODULE MCIdPool -------------------------------
(* IdPool over a handful of ids. *)
EXTENDS IdPool
=============================================================================
