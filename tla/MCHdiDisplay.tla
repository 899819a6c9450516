----------------------------- MODULE MCHdiDisplay -----------------------------
(* Small instances of HdiDisplay: two displays share the id pool. *)
EXTENDS HdiDisplay

CONSTANTS d1, d2, b1

MCDisplays == {d1, d2}
MCBuffers  == {b1}

(* One caller does whatever it likes to the stacks of two displays; one keeps *)
(* the protocol, with every composition type and with buffers.                *)
MCCallers ==
  {[disciplined |-> FALSE, displays |-> MCDisplays, zorders |-> {0, 1, 2}, types |-> {"CURSOR"},
    buffers |-> {}],
   [disciplined |-> TRUE, displays |-> {d1}, zorders |-> {0}, types |-> CompTypes,
    buffers |-> MCBuffers]}
=============================================================================
