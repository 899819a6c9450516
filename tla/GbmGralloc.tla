------------------------------ MODULE GbmGralloc ------------------------------
(***************************************************************************)
(* The buffer allocator over GBM.  Every DisplayBufferVdiImpl counts as a  *)
(* user of one GrallocManager, which holds the DRM descriptor; a buffer is *)
(* a dma-buf descriptor in a BufferHandle, exported from a dumb buffer     *)
(* that is destroyed again before GbmAllocMem returns.                     *)
(*                                                                         *)
(* The functions on the manager run under g_lock and are one step each.    *)
(* Mmap, Unmap and FreeMem take no lock; callers are assumed to use one    *)
(* handle from one thread at a time, so each is one step as well.          *)
(***************************************************************************)
EXTENDS Integers, FiniteSets

CONSTANTS
  Users,     \* DisplayBufferVdiImpl objects
  Handles,   \* BufferHandle objects
  FaultSets, \* the sets of calls that may fail in a run
  MaxLeft    \* bound: objects that failed calls leave behind

AllFaults == {"open", "bo", "dumb", "fd", "malloc", "destroy", "mmap", "munmap"}

ASSUME GrallocAssumption ==
  /\ IsFiniteSet(Users) /\ IsFiniteSet(Handles)
  /\ FaultSets \subseteq SUBSET AllFaults
  /\ MaxLeft \in Nat

VARIABLES
  user,       \* "none", "ok", "failed" (constructed, but Initialize failed)
  manager,    \* g_grallocManager # nullptr
  referCount,
  gbmDevice,  \* the manager has a device with an open descriptor
  live,       \* handles allocated and not freed
  virAddr,    \* "null", "mapped", or "MAP_FAILED"
  fds,        \* number of open dma-buf descriptors
  maps,       \* number of mappings
  dumbs,      \* number of dumb buffers on the DRM descriptor
  bos,        \* number of gbm_bo objects on the heap
  crashed,    \* the process followed a null pointer
  faults      \* the calls that may fail in this run

vars == <<user, manager, referCount, gbmDevice, live, virAddr, fds, maps, dumbs, bos, crashed, faults>>
buffers == <<live, virAddr, fds, maps>>
device == <<manager, referCount, gbmDevice>>

Using(u) == user[u] # "none" /\ ~crashed

-----------------------------------------------------------------------------
(* Mutant: the new user is not counted. *)
GbmGrallocInitializeUncounted(u) ==
  /\ user[u] = "none" /\ ~crashed
  /\ manager' = TRUE
  /\ gbmDevice' = TRUE
  /\ user' = [user EXCEPT ![u] = "ok"]
  /\ UNCHANGED <<referCount, buffers, dumbs, bos, crashed, faults>>

(* The constructor calls GbmGrallocInitialize, which opens the device if   *)
(* there is none ...                                                       *)
GbmGrallocInitialize(u) ==
  /\ user[u] = "none" /\ ~crashed
  /\ manager' = TRUE
  /\ gbmDevice' = TRUE
  /\ referCount' = referCount + 1
  /\ user' = [user EXCEPT ![u] = "ok"]
  /\ UNCHANGED <<buffers, dumbs, bos, crashed, faults>>

(* ... and only logs that this failed: the object is handed out.  No       *)
(* memory for the manager counts as a device that cannot be opened; the    *)
(* manager that is then missing is made by the next call that asks for it. *)
GbmGrallocInitializeFails(u) ==
  /\ user[u] = "none" /\ ~crashed
  /\ "open" \in faults /\ ~gbmDevice
  /\ manager' = TRUE
  /\ user' = [user EXCEPT ![u] = "failed"]
  /\ UNCHANGED <<referCount, gbmDevice, buffers, dumbs, bos, crashed, faults>>

(* The destructor of either kind of object: decrement, and close the       *)
(* device when the count falls below zero.                                 *)
GbmGrallocUninitialize(u) ==
  /\ Using(u)
  /\ user' = [user EXCEPT ![u] = "none"]
  /\ IF referCount - 1 < 0
     THEN /\ manager' = FALSE
          /\ referCount' = 0
          /\ gbmDevice' = FALSE
          /\ dumbs' = 0              \* the kernel frees them with the descriptor
     ELSE /\ manager' = TRUE
          /\ referCount' = referCount - 1
          /\ UNCHANGED <<gbmDevice, dumbs>>
  /\ UNCHANGED <<buffers, bos, crashed, faults>>

-----------------------------------------------------------------------------
(***************************************************************************)
(* GbmAllocMem, when the calls in "failing" fail: create the bo, export    *)
(* its descriptor, allocate the handle, destroy the bo.                    *)
(***************************************************************************)
Created(failing) == failing \cap {"bo", "dumb"} = {}
Exported(failing) == Created(failing) /\ "fd" \notin failing
Handed(failing) == Exported(failing) /\ "malloc" \notin failing

(* Mutant: the descriptor is not closed when there is no memory. *)
FdLeftUnclosed(failing) == IF Exported(failing) THEN 1 ELSE 0

(* The descriptor that is open when GbmAllocMem returns. *)
FdLeft(failing) == IF Handed(failing) THEN 1 ELSE 0

(* Mutant: the bo is not destroyed when it cannot be exported. *)
DumbLeftAtExport(failing) ==
  IF Created(failing) /\ ("destroy" \in failing \/ ~Exported(failing)) THEN 1 ELSE 0

(* Every path after the creation destroys the dumb buffer. *)
DumbLeft(failing) == IF Created(failing) /\ "destroy" \in failing THEN 1 ELSE 0

(* The gbm_bo stays on the heap when CREATE_DUMB fails and when            *)
(* DESTROY_DUMB does.                                                      *)
BoLeft(failing) ==
  IF "bo" \notin failing /\ ("dumb" \in failing \/ "destroy" \in failing) THEN 1 ELSE 0

GbmAllocMem(u, h) ==
  /\ Using(u)
  /\ h \notin live
  /\ gbmDevice
  /\ \E failing \in SUBSET (faults \cap {"bo", "dumb", "fd", "malloc", "destroy"}) :
       /\ bos + BoLeft(failing) <= MaxLeft
       /\ fds' = fds + FdLeft(failing)
       /\ dumbs' = dumbs + DumbLeft(failing)
       /\ bos' = bos + BoLeft(failing)
       /\ live' = IF Handed(failing) THEN live \cup {h} ELSE live
  /\ UNCHANGED <<user, device, virAddr, maps, crashed, faults>>

(* Without a device the bo, if there is memory for it, is created on a     *)
(* null gbm_device.                                                        *)
GbmAllocMemNoDevice(u) ==
  /\ Using(u)
  /\ ~gbmDevice
  /\ manager' = TRUE
  /\ crashed' \in {TRUE, "bo" \notin faults}
  /\ UNCHANGED <<user, referCount, gbmDevice, buffers, dumbs, bos, faults>>

-----------------------------------------------------------------------------
(* GbmMmap on a handle without an address.  The result is stored whatever  *)
(* it is.                                                                  *)
GbmMmap(u, h) ==
  /\ Using(u)
  /\ h \in live
  /\ virAddr[h] = "null"
  /\ \/ /\ maps' = maps + 1
        /\ virAddr' = [virAddr EXCEPT ![h] = "mapped"]
     \/ /\ "mmap" \in faults
        /\ virAddr' = [virAddr EXCEPT ![h] = "MAP_FAILED"]
        /\ UNCHANGED maps
  /\ UNCHANGED <<user, device, live, fds, dumbs, bos, crashed, faults>>

(* munmap fails on MAP_FAILED, which is not the address of a page. *)
MayUnmap(h) == virAddr[h] = "mapped"
MayFailToUnmap(h) ==
  \/ virAddr[h] = "MAP_FAILED"
  \/ virAddr[h] = "mapped" /\ "munmap" \in faults

(* Mutant: the address is not tested. *)
GbmUnmapUnchecked(u, h) ==
  /\ Using(u)
  /\ h \in live
  /\ maps' = maps - 1
  /\ virAddr' = [virAddr EXCEPT ![h] = "null"]
  /\ UNCHANGED <<user, device, live, fds, dumbs, bos, crashed, faults>>

(* GbmUnmap clears the address after munmap has succeeded; after a failure *)
(* nothing has changed.                                                    *)
GbmUnmap(u, h) ==
  /\ Using(u)
  /\ h \in live
  /\ MayUnmap(h)
  /\ maps' = maps - 1
  /\ virAddr' = [virAddr EXCEPT ![h] = "null"]
  /\ UNCHANGED <<user, device, live, fds, dumbs, bos, crashed, faults>>

(* Mappings that no handle knows any more. *)
LostMaps == maps - Cardinality({h \in Handles : virAddr[h] = "mapped"})

(* Mutant: the handle is freed with its mapping. *)
GbmFreeMemMapped(u, h) ==
  /\ Using(u)
  /\ h \in live
  /\ live' = live \ {h}
  /\ fds' = fds - 1
  /\ virAddr' = [virAddr EXCEPT ![h] = "null"]
  /\ UNCHANGED <<user, device, maps, dumbs, bos, crashed, faults>>

(* GbmFreeMem unmaps, closes the descriptor and frees the handle, also     *)
(* when it could not be unmapped.                                          *)
GbmFreeMem(u, h) ==
  /\ Using(u)
  /\ h \in live
  /\ \/ MayUnmap(h) /\ maps' = maps - 1
     \/ /\ virAddr[h] = "null" \/ MayFailToUnmap(h)
        /\ virAddr[h] = "mapped" => LostMaps < MaxLeft
        /\ UNCHANGED maps
  /\ live' = live \ {h}
  /\ fds' = fds - 1
  /\ virAddr' = [virAddr EXCEPT ![h] = "null"]
  /\ UNCHANGED <<user, device, dumbs, bos, crashed, faults>>

-----------------------------------------------------------------------------
Init ==
  /\ user = [u \in Users |-> "none"]
  /\ manager = FALSE /\ referCount = 0 /\ gbmDevice = FALSE
  /\ live = {}
  /\ virAddr = [h \in Handles |-> "null"]
  /\ fds = 0 /\ maps = 0 /\ dumbs = 0 /\ bos = 0
  /\ crashed = FALSE
  /\ faults \in FaultSets

Next ==
  \/ \E u \in Users :
       \/ GbmGrallocInitialize(u)
       \/ GbmGrallocInitializeFails(u)
       \/ GbmGrallocUninitialize(u)
       \/ GbmAllocMemNoDevice(u)
  \/ \E u \in Users, h \in Handles :
       \/ GbmAllocMem(u, h)
       \/ GbmMmap(u, h)
       \/ GbmUnmap(u, h)
       \/ GbmFreeMem(u, h)

Spec == Init /\ [][Next]_vars

-----------------------------------------------------------------------------
(* The allocator's state; no counter is negative: nothing is closed or     *)
(* unmapped that is not open or mapped.                                    *)
TypeOK ==
  /\ user \in [Users -> {"none", "ok", "failed"}]
  /\ manager \in BOOLEAN /\ gbmDevice \in BOOLEAN /\ crashed \in BOOLEAN
  /\ referCount \in Int
  /\ live \subseteq Handles
  /\ virAddr \in [Handles -> {"null", "mapped", "MAP_FAILED"}]
  /\ fds \in Nat /\ maps \in Nat /\ dumbs \in Nat /\ bos \in Nat
  /\ faults \in FaultSets

(* Whatever call fails, every open dma-buf descriptor belongs to exactly   *)
(* one live handle: none leaks and none is closed twice.                   *)
FdsOwned == fds = Cardinality(live)

(* Unless munmap fails, every mapping belongs to exactly one live handle   *)
(* that knows its address, so that it will be unmapped with it.            *)
MappingsOwned ==
  "munmap" \notin faults =>
    /\ LostMaps = 0
    /\ \A h \in Handles : virAddr[h] # "null" => h \in live

(* Between two calls no dumb buffer and no gbm_bo is left, whichever step  *)
(* of the allocation after the creation has failed; the ioctls that create *)
(* and destroy a dumb buffer are taken to succeed.                         *)
NoBoLeft == {"dumb", "destroy"} \cap faults = {} => dumbs = 0 /\ bos = 0

(* The device is open as long as there is an object whose construction     *)
(* opened or shared it, in any order of constructions and destructions,    *)
(* unless an object could not open it: such an object is not counted, but  *)
(* its destructor is.                                                      *)
DeviceWhileUsed ==
  "open" \notin faults => ((\E u \in Users : user[u] = "ok") => gbmDevice)
=============================================================================
