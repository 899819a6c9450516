--------------------------- MODULE MCDrmVsyncWorker ---------------------------
(* Two HAL threads around the worker. *)
EXTENDS DrmVsyncWorker

CONSTANTS c1, c2

MCCallers == {c1, c2}
=============================================================================
