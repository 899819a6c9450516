----------------------------- MODULE MCGbmGralloc -----------------------------
(* A few clients and buffers. *)
EXTENDS GbmGralloc

CONSTANTS u1, u2, u3, h1, h2, h3

MCUsers == {u1, u2, u3}
MCHandles == {h1, h2, h3}

(* Every call may fail, or those that the code cleans up after. *)
MCFaultSets == {AllFaults, {"bo", "fd", "malloc", "mmap"}}
=============================================================================
