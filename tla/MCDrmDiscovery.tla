---------------------------- MODULE MCDrmDiscovery ----------------------------
(* Two outputs. *)
EXTENDS DrmDiscovery, TLC

CONSTANTS e1, e2, k1, k2, p1, p2, cur

MCEncoders == {e1, e2}
MCConnectors == {k1, k2}
MCPlanes == {p1, p2, cur}

(* Any wiring of two encoders and two connectors, lit or dark, with planes *)
(* that serve one pipe or both.  Among them is virtio-gpu, where encoder,  *)
(* connector and plane of an output belong to its CRTC alone.              *)
WiredTopologies ==
  {t \in [pipesOf : [MCEncoders -> (SUBSET {0, 1}) \ {{}}],
          encodersOf : [MCConnectors -> (SUBSET MCEncoders) \ {{}}],
          lit : [MCConnectors -> LitStates],
          connected : {{k1}, MCConnectors},
          withModes : {{k1}, MCConnectors},
          plane : {p1 :> [pipes |-> a, type |-> "primary"]
                @@ p2 :> [pipes |-> b, type |-> "primary"]
                @@ cur :> [pipes |-> {1}, type |-> "cursor"] :
                   a \in {{0}, {0, 1}}, b \in {{1}, {0, 1}}}] :
     KernelConsistent(t)}
=============================================================================
