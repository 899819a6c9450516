----------------------------- MODULE MCDrmCommit -----------------------------
(* Instances of DrmCommit for TLC. *)
EXTENDS DrmCommit, TLC

BufferSymmetry == Permutations(Buffers)

(* A kernel that accepts everything and a caller that asks for every mode;   *)
(* a kernel that may refuse anything; one that may refuse a commit with a    *)
(* cursor; one that may refuse to switch power; one that may refuse the blob *)
(* of a mode, or be asked for a mode the connector does not have.            *)
MCSetups ==
  {[faults |-> {}, cursorPlanes |-> 1, modes |-> {0, 1}, power |-> {}, dpms |-> "ON"],
   [faults |-> {"prop", "import", "addfb", "blob", "commit"}, cursorPlanes |-> 0, modes |-> {},
    power |-> {}, dpms |-> "ON"],
   [faults |-> {"commit"}, cursorPlanes |-> 1, modes |-> {}, power |-> {}, dpms |-> "ON"],
   [faults |-> {"dpms"}, cursorPlanes |-> 0, modes |-> {},
    power |-> {"ON", "STANDBY", "OFF"}, dpms |-> "OFF"],
   [faults |-> {"blob"}, cursorPlanes |-> 0, modes |-> {1, 2},
    power |-> {"ON", "OFF"}, dpms |-> "ON"]}

MCDanglingSetups == {[faults |-> {"commit"}, cursorPlanes |-> 1, modes |-> {0}, power |-> {}, dpms |-> "ON"]}
=============================================================================
