------------------------------ MODULE MCLayerFds ------------------------------
(* A small instance of LayerFds: the table is full after a few calls. *)
EXTENDS LayerFds, FiniteSets

(* What there is to know of a number, without the number. *)
Descriptor(n) ==
  [entry   |-> table[n],
   buffers |-> {k \in AllLayers : mFd[k] = n},
   handles |-> {l \in Layers : mHandle[l] = n},
   fences  |-> {k \in AllLayers : mAcquireFence[k] = n},
   queued  |-> {i \in 1 .. Len(releaseFences) : releaseFences[i] = n}]

(* A state up to renaming of the numbers, which are interchangeable: two   *)
(* states look alike exactly if a permutation of Fds takes one to the      *)
(* other.                                                                  *)
UpToRenaming ==
  <<[d \in {Descriptor(n) : n \in Fds} |-> Cardinality({n \in Fds : Descriptor(n) = d})],
    started, keeps, given, givenFence>>
=============================================================================
