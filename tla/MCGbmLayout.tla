------------------------------ MODULE MCGbmLayout ------------------------------
(* All heights and widths of an 8-bit word. *)
EXTENDS GbmLayout

MCRequests == 0 .. 255
=============================================================================
