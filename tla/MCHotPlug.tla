------------------------------- MODULE MCHotPlug -------------------------------
(* Instances of HotPlug for TLC. *)
EXTENDS HotPlug

CONSTANTS c1, c2

MCClients == {c1, c2}

(* A cable at rest and one that is not, with every call succeeding; then   *)
(* everything may fail.                                                    *)
MCSetups ==
  {[slow |-> TRUE, faults |-> {}], [slow |-> FALSE, faults |-> {}],
   [slow |-> FALSE, faults |-> FaultKinds]}

(* Only the uninitialised blob of an unplugged connector is refused. *)
MCBlobSetups == {[slow |-> TRUE, faults |-> {"blob"}]}
=============================================================================
