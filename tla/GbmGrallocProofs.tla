--------------------------- MODULE GbmGrallocProofs ---------------------------
(***************************************************************************)
(* For any number of users and handles and whichever calls fail:           *)
(* descriptors are owned by the live handles.  If the device can be        *)
(* opened, it stays open while it is used; if nothing fails to be unmapped *)
(* or destroyed, no mapping and no buffer object is left behind.  For      *)
(* every word size and request, the buffer asked for has the right size.   *)
(***************************************************************************)
EXTENDS GbmGralloc, GbmLayout, FiniteSetTheorems, TLAPS

Mapped == {h \in Handles : virAddr[h] = "mapped"}

(* The counters match the sets they count; mappings may outnumber the      *)
(* handles that know them, after a failed munmap.                          *)
Inv == TypeOK /\ FdsOwned /\ Cardinality(Mapped) <= maps

(* What a failed allocation leaves behind is a number. *)
LEMMA LeftType ==
  ASSUME NEW f
  PROVE  /\ FdLeft(f) \in {0, 1} /\ DumbLeft(f) \in {0, 1} /\ BoLeft(f) \in {0, 1}
         /\ FdLeft(f) = 1 <=> Handed(f)
  BY DEF FdLeft, DumbLeft, BoLeft

(* The sets that are counted are finite. *)
LEMMA CountedFinite ==
  ASSUME TypeOK
  PROVE  /\ IsFiniteSet(live) /\ Cardinality(live) \in Nat
         /\ IsFiniteSet(Mapped) /\ Cardinality(Mapped) \in Nat
<1>1. live \subseteq Handles /\ Mapped \subseteq Handles
  BY DEF TypeOK, Mapped
<1>2. QED
  BY <1>1, GrallocAssumption, FS_Subset, FS_CardinalityType

(* Taking the address from a handle takes it from Mapped, and the handle   *)
(* only.                                                                   *)
LEMMA MappedWithout ==
  ASSUME TypeOK, NEW h \in Handles, virAddr' = [virAddr EXCEPT ![h] = "null"]
  PROVE  /\ Mapped' = Mapped \ {h}
         /\ Cardinality(Mapped') \in Nat
         /\ Cardinality(Mapped')
              = IF virAddr[h] = "mapped" THEN Cardinality(Mapped) - 1 ELSE Cardinality(Mapped)
<1>1. Mapped' = Mapped \ {h}
  BY DEF TypeOK, Mapped
<1>2. h \in Mapped <=> virAddr[h] = "mapped"
  BY DEF Mapped
<1>3. Cardinality(Mapped \ {h})
        = IF h \in Mapped THEN Cardinality(Mapped) - 1 ELSE Cardinality(Mapped)
  BY CountedFinite, FS_RemoveElement
<1>4. IsFiniteSet(Mapped \ {h})
  BY CountedFinite, FS_RemoveElement
<1>5. Cardinality(Mapped \ {h}) \in Nat
  BY <1>4, FS_CardinalityType
<1>6. QED
  BY <1>1, <1>2, <1>3, <1>5

(* Inv is inductive. *)
LEMMA InvStep == Inv /\ [Next]_vars => Inv'
<1>1. SUFFICES ASSUME Inv, [Next]_vars PROVE Inv'
  OBVIOUS
<1>2. TypeOK /\ fds = Cardinality(live) /\ Cardinality(Mapped) <= maps
  BY <1>1 DEF Inv, FdsOwned
<1>3. ASSUME UNCHANGED buffers, TypeOK' PROVE Inv'
  BY <1>2, <1>3 DEF Inv, FdsOwned, Mapped, buffers
<1>4. ASSUME NEW u \in Users, GbmGrallocInitialize(u) PROVE Inv'
  BY <1>2, <1>3, <1>4 DEF GbmGrallocInitialize, TypeOK, buffers
<1>5. ASSUME NEW u \in Users, GbmGrallocInitializeFails(u) PROVE Inv'
  BY <1>2, <1>3, <1>5 DEF GbmGrallocInitializeFails, TypeOK, buffers
<1>6. ASSUME NEW u \in Users, GbmGrallocUninitialize(u) PROVE Inv'
  <2>1. /\ user' = [user EXCEPT ![u] = "none"]
        /\ UNCHANGED <<buffers, bos, crashed, faults>>
    BY <1>6 DEF GbmGrallocUninitialize
  <2>2. CASE referCount - 1 < 0
    <3>1. manager' = FALSE /\ referCount' = 0 /\ gbmDevice' = FALSE /\ dumbs' = 0
      BY <1>6, <2>2 DEF GbmGrallocUninitialize
    <3>2. manager' \in BOOLEAN /\ gbmDevice' \in BOOLEAN
      BY <3>1
    <3>3. referCount' \in Int /\ dumbs' \in Nat
      BY <3>1
    <3>4. TypeOK'
      BY <1>2, <2>1, <3>2, <3>3 DEF TypeOK, buffers
    <3>5. QED
      BY <1>3, <2>1, <3>4
  <2>3. CASE ~(referCount - 1 < 0)
    <3>1. /\ manager' = TRUE /\ referCount' = referCount - 1
          /\ UNCHANGED <<gbmDevice, dumbs>>
      BY <1>6, <2>3 DEF GbmGrallocUninitialize
    <3>2. TypeOK'
      BY <1>2, <2>1, <3>1 DEF TypeOK, buffers
    <3>3. QED
      BY <1>3, <2>1, <3>2
  <2>4. QED
    BY <2>2, <2>3
<1>7. ASSUME NEW u \in Users, GbmAllocMemNoDevice(u) PROVE Inv'
  BY <1>2, <1>3, <1>7 DEF GbmAllocMemNoDevice, TypeOK, buffers
<1>8. ASSUME NEW u \in Users, NEW h \in Handles, GbmAllocMem(u, h) PROVE Inv'
  <2>1. PICK f : /\ fds' = fds + FdLeft(f)
                 /\ dumbs' = dumbs + DumbLeft(f)
                 /\ bos' = bos + BoLeft(f)
                 /\ live' = IF Handed(f) THEN live \cup {h} ELSE live
    BY <1>8 DEF GbmAllocMem
  <2>2. h \notin live /\ UNCHANGED <<user, device, virAddr, maps, crashed, faults>>
    BY <1>8 DEF GbmAllocMem
  <2>3. TypeOK'
    BY <1>2, <2>1, <2>2, LeftType DEF TypeOK, device
  <2>4. Cardinality(live \cup {h}) = Cardinality(live) + 1
    BY <1>2, <2>2, CountedFinite, FS_AddElement
  <2>5. FdsOwned'
    <3>1. CASE Handed(f)
      BY <1>2, <2>1, <2>4, <3>1, LeftType DEF FdsOwned
    <3>2. CASE ~Handed(f)
      <4>1. FdLeft(f) = 0
        BY <3>2, LeftType
      <4>2. QED
        BY <1>2, <2>1, <3>2, <4>1, CountedFinite DEF FdsOwned
    <3>3. QED
      BY <3>1, <3>2
  <2>6. Mapped' = Mapped
    BY <2>2 DEF Mapped
  <2>7. QED
    BY <1>2, <2>2, <2>3, <2>5, <2>6 DEF Inv
<1>9. ASSUME NEW u \in Users, NEW h \in Handles, GbmMmap(u, h) PROVE Inv'
  <2>1. FdsOwned'
    BY <1>2, <1>9 DEF GbmMmap, FdsOwned
  <2>2. CASE maps' = maps + 1 /\ virAddr' = [virAddr EXCEPT ![h] = "mapped"]
    <3>1. TypeOK'
      BY <1>2, <1>9, <2>2 DEF GbmMmap, TypeOK, device
    <3>2. Mapped' = Mapped \cup {h} /\ h \notin Mapped
      BY <1>2, <1>9, <2>2 DEF GbmMmap, TypeOK, Mapped
    <3>3. Cardinality(Mapped \cup {h}) = Cardinality(Mapped) + 1
      BY <1>2, <3>2, CountedFinite, FS_AddElement
    <3>4. Cardinality(Mapped') = Cardinality(Mapped) + 1
      BY <3>2, <3>3
    <3>5. Cardinality(Mapped') <= maps'
      BY <1>2, <2>2, <3>4, CountedFinite DEF TypeOK
    <3>6. QED
      BY <2>1, <3>1, <3>5 DEF Inv
  <2>3. CASE maps' = maps /\ virAddr' = [virAddr EXCEPT ![h] = "MAP_FAILED"]
    <3>1. TypeOK'
      BY <1>2, <1>9, <2>3 DEF GbmMmap, TypeOK, device
    <3>2. Mapped' = Mapped
      BY <1>2, <1>9, <2>3 DEF GbmMmap, TypeOK, Mapped
    <3>3. QED
      BY <1>2, <2>1, <2>3, <3>1, <3>2 DEF Inv
  <2>4. QED
    BY <1>9, <2>2, <2>3 DEF GbmMmap
<1>10. ASSUME NEW u \in Users, NEW h \in Handles, GbmUnmap(u, h) PROVE Inv'
  <2>1. FdsOwned'
    BY <1>2, <1>10 DEF GbmUnmap, FdsOwned
  <2>2. Cardinality(Mapped') = Cardinality(Mapped) - 1 /\ Cardinality(Mapped') \in Nat
    BY <1>2, <1>10, MappedWithout DEF GbmUnmap, MayUnmap
  <2>3. maps' = maps - 1 /\ maps \in Nat
    BY <1>2, <1>10 DEF GbmUnmap, TypeOK
  <2>4. Cardinality(Mapped') <= maps' /\ maps' \in Nat
    BY <1>2, <2>2, <2>3, CountedFinite
  <2>5. TypeOK'
    BY <1>2, <1>10, <2>4 DEF GbmUnmap, TypeOK, device
  <2>6. QED
    BY <2>1, <2>4, <2>5 DEF Inv
<1>11. ASSUME NEW u \in Users, NEW h \in Handles, GbmFreeMem(u, h) PROVE Inv'
  <2>1. /\ h \in live /\ live' = live \ {h} /\ fds' = fds - 1
        /\ virAddr' = [virAddr EXCEPT ![h] = "null"]
        /\ UNCHANGED <<user, device, dumbs, bos, crashed, faults>>
    BY <1>11 DEF GbmFreeMem
  <2>2. \/ virAddr[h] = "mapped" /\ maps' = maps - 1
        \/ maps' = maps
    BY <1>11 DEF GbmFreeMem, MayUnmap
  <2>3. /\ Cardinality(live \ {h}) = Cardinality(live) - 1
        /\ Cardinality(live \ {h}) \in Nat
    BY <1>2, <2>1, CountedFinite, FS_RemoveElement, FS_CardinalityType
  <2>4. fds' = Cardinality(live') /\ fds' \in Nat
    BY <1>2, <2>1, <2>3
  <2>5. /\ Cardinality(Mapped') \in Nat
        /\ Cardinality(Mapped')
             = IF virAddr[h] = "mapped" THEN Cardinality(Mapped) - 1 ELSE Cardinality(Mapped)
    BY <1>2, <2>1, MappedWithout
  <2>6. maps \in Nat /\ Cardinality(Mapped) \in Nat
    BY <1>2, CountedFinite DEF TypeOK
  <2>7. Cardinality(Mapped') <= maps' /\ maps' \in Nat
    BY <1>2, <2>2, <2>5, <2>6
  <2>8. TypeOK'
    BY <1>2, <2>1, <2>4, <2>7 DEF TypeOK, device
  <2>9. QED
    BY <2>4, <2>7, <2>8 DEF Inv, FdsOwned
<1>12. CASE UNCHANGED vars
  <2>1. TypeOK'
    BY <1>2, <1>12 DEF vars, TypeOK, buffers
  <2>2. QED
    BY <1>3, <1>12, <2>1 DEF vars, buffers
<1>13. QED
  BY <1>1, <1>4, <1>5, <1>6, <1>7, <1>8, <1>9, <1>10, <1>11, <1>12 DEF Next

(* Inv holds of the empty allocator. *)
LEMMA InvInit == Init => Inv
<1>1. SUFFICES ASSUME Init PROVE Inv
  OBVIOUS
<1>2. TypeOK
  <2>1. /\ user \in [Users -> {"none", "ok", "failed"}]
        /\ virAddr \in [Handles -> {"null", "mapped", "MAP_FAILED"}]
    BY <1>1 DEF Init
  <2>2. manager \in BOOLEAN /\ gbmDevice \in BOOLEAN /\ crashed \in BOOLEAN
    BY <1>1 DEF Init
  <2>3. /\ referCount \in Int /\ live \subseteq Handles
        /\ fds \in Nat /\ maps \in Nat /\ dumbs \in Nat /\ bos \in Nat
    BY <1>1 DEF Init
  <2>4. faults \in FaultSets
    BY <1>1 DEF Init
  <2>5. QED
    BY <2>1, <2>2, <2>3, <2>4 DEF TypeOK
<1>3. live = {} /\ Mapped = {} /\ maps = 0 /\ fds = 0
  BY <1>1 DEF Init, Mapped
<1>4. QED
  BY <1>2, <1>3, FS_EmptySet DEF Inv, FdsOwned

(* No counter of the allocator ever becomes negative: nothing is closed or *)
(* unmapped that is not open or mapped.                                    *)
THEOREM TypeCorrect == Spec => []TypeOK
<1>1. Inv => TypeOK
  BY DEF Inv
<1>2. QED
  BY <1>1, InvInit, InvStep, PTL DEF Spec

(* Whatever calls fail, the open dma-buf descriptors are those of the live *)
(* handles, one each.                                                      *)
THEOREM FdsOwnedAlways == Spec => []FdsOwned
<1>1. Inv => FdsOwned
  BY DEF Inv
<1>2. QED
  BY <1>1, InvInit, InvStep, PTL DEF Spec

-----------------------------------------------------------------------------
OkUsers == {u \in Users : user[u] = "ok"}

(* Every user is counted once. *)
Counted ==
  /\ \A u \in Users : user[u] # "failed"
  /\ referCount = Cardinality(OkUsers)
  /\ OkUsers # {} => gbmDevice

CountedIfOpen == "open" \notin faults => Counted

(* Counted is inductive as long as the device can be opened. *)
LEMMA CountedStep ==
  ASSUME TypeOK, Counted, "open" \notin faults, [Next]_vars
  PROVE  Counted'
<1>1. IsFiniteSet(OkUsers) /\ Cardinality(OkUsers) \in Nat
  <2>1. OkUsers \subseteq Users
    BY DEF OkUsers
  <2>2. QED
    BY <2>1, GrallocAssumption, FS_Subset, FS_CardinalityType
<1>2. ASSUME UNCHANGED <<user, referCount, gbmDevice>> PROVE Counted'
  BY <1>2 DEF Counted, OkUsers
<1>3. ASSUME NEW u \in Users, GbmGrallocInitialize(u) PROVE Counted'
  <2>1. OkUsers' = OkUsers \cup {u} /\ u \notin OkUsers
    BY <1>3 DEF GbmGrallocInitialize, OkUsers, TypeOK
  <2>2. Cardinality(OkUsers \cup {u}) = Cardinality(OkUsers) + 1
    BY <1>1, <2>1, FS_AddElement
  <2>3. referCount' = Cardinality(OkUsers')
    BY <1>3, <2>1, <2>2 DEF GbmGrallocInitialize, Counted
  <2>4. \A v \in Users : user'[v] # "failed"
    BY <1>3 DEF GbmGrallocInitialize, Counted, TypeOK
  <2>5. gbmDevice'
    BY <1>3 DEF GbmGrallocInitialize
  <2>6. QED
    BY <2>3, <2>4, <2>5 DEF Counted
<1>4. ASSUME NEW u \in Users, GbmGrallocUninitialize(u) PROVE Counted'
  <2>1. user[u] = "ok"
    BY <1>4 DEF GbmGrallocUninitialize, Using, Counted, TypeOK
  <2>2. OkUsers' = OkUsers \ {u} /\ u \in OkUsers
    BY <1>4, <2>1 DEF GbmGrallocUninitialize, OkUsers, TypeOK
  <2>3. /\ Cardinality(OkUsers \ {u}) = Cardinality(OkUsers) - 1
        /\ Cardinality(OkUsers \ {u}) \in Nat
    BY <1>1, <2>2, FS_RemoveElement, FS_CardinalityType
  <2>4. referCount - 1 \in Nat
    BY <2>3 DEF Counted
  <2>5. referCount' = referCount - 1 /\ gbmDevice' = gbmDevice
    BY <1>4, <2>4 DEF GbmGrallocUninitialize
  <2>6. referCount' = Cardinality(OkUsers')
    BY <2>2, <2>3, <2>5 DEF Counted
  <2>7. \A v \in Users : user'[v] # "failed"
    BY <1>4 DEF GbmGrallocUninitialize, Counted, TypeOK
  <2>8. gbmDevice'
    BY <2>2, <2>5 DEF Counted
  <2>9. QED
    BY <2>6, <2>7, <2>8 DEF Counted
<1>5. ASSUME NEW u \in Users, GbmGrallocInitializeFails(u) PROVE Counted'
  BY <1>5 DEF GbmGrallocInitializeFails
<1>6. ASSUME NEW u \in Users, GbmAllocMemNoDevice(u) PROVE Counted'
  BY <1>2, <1>6 DEF GbmAllocMemNoDevice
<1>7. ASSUME NEW u \in Users, NEW h \in Handles,
             GbmAllocMem(u, h) \/ GbmMmap(u, h) \/ GbmUnmap(u, h) \/ GbmFreeMem(u, h)
      PROVE  Counted'
  BY <1>2, <1>7 DEF GbmAllocMem, GbmMmap, GbmUnmap, GbmFreeMem, device
<1>8. CASE UNCHANGED vars
  BY <1>2, <1>8 DEF vars
<1>9. QED
  BY <1>3, <1>4, <1>5, <1>6, <1>7, <1>8 DEF Next

(* No destructor closes the device while another object uses it: if the    *)
(* device can be opened whenever it is asked for, every user is counted.   *)
THEOREM DeviceWhileUsedAlways == Spec => []DeviceWhileUsed
<1>1. Init => CountedIfOpen
  <2>1. SUFFICES ASSUME Init PROVE Counted
    BY DEF CountedIfOpen
  <2>2. OkUsers = {} /\ referCount = 0 /\ \A u \in Users : user[u] = "none"
    BY <2>1 DEF Init, OkUsers
  <2>3. QED
    BY <2>2, FS_EmptySet DEF Counted
<1>2. TypeOK /\ CountedIfOpen /\ [Next]_vars => CountedIfOpen'
  <2>1. SUFFICES ASSUME TypeOK, CountedIfOpen, [Next]_vars PROVE CountedIfOpen'
    OBVIOUS
  <2>2. faults' = faults
    BY <2>1 DEF Next, vars, GbmGrallocInitialize, GbmGrallocInitializeFails,
       GbmGrallocUninitialize, GbmAllocMemNoDevice, GbmAllocMem, GbmMmap, GbmUnmap, GbmFreeMem
  <2>3. QED
    BY <2>1, <2>2, CountedStep DEF CountedIfOpen
<1>3. CountedIfOpen => DeviceWhileUsed
  BY DEF CountedIfOpen, Counted, DeviceWhileUsed, OkUsers
<1>4. QED
  BY <1>1, <1>2, <1>3, TypeCorrect, PTL DEF Spec

-----------------------------------------------------------------------------
(* Which calls may fail does not change during a run. *)
LEMMA FaultsFixed == [Next]_vars => faults' = faults
  BY DEF Next, vars, GbmGrallocInitialize, GbmGrallocInitializeFails,
     GbmGrallocUninitialize, GbmAllocMemNoDevice, GbmAllocMem, GbmMmap, GbmUnmap, GbmFreeMem

(* The mappings are exactly those some live handle knows. *)
MapsCounted ==
  /\ maps = Cardinality(Mapped)
  /\ \A h \in Handles : virAddr[h] # "null" => h \in live

(* LostMaps counts what Mapped does not know. *)
LEMMA NoneLostCounted ==
  ASSUME TypeOK
  PROVE  LostMaps = 0 <=> maps = Cardinality(Mapped)
<1>1. LostMaps = maps - Cardinality(Mapped)
  BY DEF LostMaps, Mapped
<1>2. maps \in Nat /\ Cardinality(Mapped) \in Nat
  BY CountedFinite DEF TypeOK
<1>3. QED
  BY <1>1, <1>2

(* As long as munmap works, GbmFreeMem takes the mapping with the handle.  *)
LEMMA MapsStep ==
  ASSUME TypeOK, MapsCounted, "munmap" \notin faults, [Next]_vars
  PROVE  MapsCounted'
<1>1. maps \in Nat /\ live \subseteq Handles /\ virAddr \in [Handles -> {"null", "mapped", "MAP_FAILED"}]
  BY DEF TypeOK
<1>2. maps = Cardinality(Mapped) /\ \A h \in Handles : virAddr[h] # "null" => h \in live
  BY DEF MapsCounted
<1>3. ASSUME virAddr' = virAddr, maps' = maps, live \subseteq live' PROVE MapsCounted'
  BY <1>2, <1>3 DEF MapsCounted, Mapped
<1>4. ASSUME NEW u \in Users,
             \/ GbmGrallocInitialize(u) \/ GbmGrallocInitializeFails(u)
             \/ GbmGrallocUninitialize(u) \/ GbmAllocMemNoDevice(u)
      PROVE  MapsCounted'
  BY <1>3, <1>4 DEF GbmGrallocInitialize, GbmGrallocInitializeFails, GbmGrallocUninitialize,
                    GbmAllocMemNoDevice, buffers
<1>5. ASSUME NEW u \in Users, NEW h \in Handles, GbmAllocMem(u, h) PROVE MapsCounted'
  BY <1>3, <1>5 DEF GbmAllocMem
<1>6. ASSUME NEW u \in Users, NEW h \in Handles, GbmMmap(u, h) PROVE MapsCounted'
  <2>1. h \in live /\ virAddr[h] = "null" /\ live' = live
    BY <1>6 DEF GbmMmap
  <2>2. CASE maps' = maps + 1 /\ virAddr' = [virAddr EXCEPT ![h] = "mapped"]
    <3>1. Mapped' = Mapped \cup {h} /\ h \notin Mapped
      BY <1>1, <2>1, <2>2 DEF Mapped
    <3>2. Cardinality(Mapped \cup {h}) = Cardinality(Mapped) + 1
      BY <3>1, CountedFinite, FS_AddElement
    <3>3. \A g \in Handles : virAddr'[g] # "null" => g \in live'
      BY <1>1, <1>2, <2>1, <2>2
    <3>4. QED
      BY <1>2, <2>2, <3>1, <3>2, <3>3 DEF MapsCounted
  <2>3. CASE maps' = maps /\ virAddr' = [virAddr EXCEPT ![h] = "MAP_FAILED"]
    <3>1. Mapped' = Mapped
      BY <1>1, <2>1, <2>3 DEF Mapped
    <3>2. \A g \in Handles : virAddr'[g] # "null" => g \in live'
      BY <1>1, <1>2, <2>1, <2>3
    <3>3. QED
      BY <1>2, <2>3, <3>1, <3>2 DEF MapsCounted
  <2>4. QED
    BY <1>6, <2>2, <2>3 DEF GbmMmap
<1>7. ASSUME NEW u \in Users, NEW h \in Handles, GbmUnmap(u, h) PROVE MapsCounted'
  <2>1. /\ virAddr[h] = "mapped" /\ maps' = maps - 1 /\ live' = live
        /\ virAddr' = [virAddr EXCEPT ![h] = "null"]
    BY <1>7 DEF GbmUnmap, MayUnmap
  <2>2. Cardinality(Mapped') = Cardinality(Mapped) - 1
    BY <2>1, MappedWithout
  <2>3. \A g \in Handles : virAddr'[g] # "null" => g \in live'
    BY <1>1, <1>2, <2>1
  <2>4. QED
    BY <1>2, <2>1, <2>2, <2>3 DEF MapsCounted
\* munmap can only fail on MAP_FAILED, which maps nothing
<1>8. ASSUME NEW u \in Users, NEW h \in Handles, GbmFreeMem(u, h) PROVE MapsCounted'
  <2>1. live' = live \ {h} /\ virAddr' = [virAddr EXCEPT ![h] = "null"]
    BY <1>8 DEF GbmFreeMem
  <2>2. \/ virAddr[h] = "mapped" /\ maps' = maps - 1
        \/ virAddr[h] # "mapped" /\ maps' = maps
    BY <1>8 DEF GbmFreeMem, MayUnmap, MayFailToUnmap
  <2>3. Cardinality(Mapped')
          = IF virAddr[h] = "mapped" THEN Cardinality(Mapped) - 1 ELSE Cardinality(Mapped)
    BY <2>1, MappedWithout
  <2>4. \A g \in Handles : virAddr'[g] # "null" => g \in live'
    BY <1>1, <1>2, <2>1
  <2>5. QED
    BY <1>2, <2>2, <2>3, <2>4 DEF MapsCounted
<1>9. CASE UNCHANGED vars
  BY <1>3, <1>9 DEF vars, buffers
<1>10. QED
  BY <1>4, <1>5, <1>6, <1>7, <1>8, <1>9 DEF Next

(* As long as munmap works every mapping belongs to a live handle that     *)
(* knows its address, for any number of handles and whatever else fails.   *)
THEOREM MappingsOwnedAlways == Spec => []MappingsOwned
<1> DEFINE CountedIfUnmaps == "munmap" \notin faults => MapsCounted
<1>1. Init => CountedIfUnmaps
  <2>1. SUFFICES ASSUME Init PROVE MapsCounted
    OBVIOUS
  <2>2. Mapped = {} /\ maps = 0 /\ \A h \in Handles : virAddr[h] = "null"
    BY <2>1 DEF Init, Mapped
  <2>3. QED
    BY <2>2, FS_EmptySet DEF MapsCounted
<1>2. TypeOK /\ CountedIfUnmaps /\ [Next]_vars => CountedIfUnmaps'
  BY FaultsFixed, MapsStep
<1>3. TypeOK /\ CountedIfUnmaps => MappingsOwned
  BY NoneLostCounted DEF MapsCounted, MappingsOwned
<1>4. QED
  BY <1>1, <1>2, <1>3, TypeCorrect, PTL DEF Spec

(* As long as the ioctls on dumb buffers work, no call of GbmAllocMem,     *)
(* successful or not, leaves a dumb buffer or a gbm_bo behind.             *)
THEOREM NoBoLeftAlways == Spec => []NoBoLeft
<1>1. Init => NoBoLeft
  BY DEF Init, NoBoLeft
<1>2. TypeOK /\ NoBoLeft /\ [Next]_vars => NoBoLeft'
  <2>1. SUFFICES ASSUME TypeOK, {"dumb", "destroy"} \cap faults = {}, dumbs = 0, bos = 0, [Next]_vars
                 PROVE  dumbs' = 0 /\ bos' = 0
    BY FaultsFixed DEF NoBoLeft
  <2>2. ASSUME NEW u \in Users, NEW h \in Handles, GbmAllocMem(u, h) PROVE dumbs' = 0 /\ bos' = 0
    <3>1. PICK f \in SUBSET (faults \cap {"bo", "dumb", "fd", "malloc", "destroy"}) :
            dumbs' = dumbs + DumbLeft(f) /\ bos' = bos + BoLeft(f)
      BY <2>2 DEF GbmAllocMem
    <3>2. "dumb" \notin f /\ "destroy" \notin f
      BY <2>1
    <3>3. DumbLeft(f) = 0 /\ BoLeft(f) = 0
      BY <3>2 DEF DumbLeft, BoLeft
    <3>4. QED
      BY <2>1, <3>1, <3>3
  <2>3. ASSUME NEW u \in Users, GbmGrallocUninitialize(u) PROVE dumbs' = 0 /\ bos' = 0
    BY <2>1, <2>3 DEF GbmGrallocUninitialize
  <2>4. ASSUME UNCHANGED <<dumbs, bos>> PROVE dumbs' = 0 /\ bos' = 0
    BY <2>1, <2>4
  <2>5. QED
    BY <2>1, <2>2, <2>3, <2>4 DEF Next, vars, GbmGrallocInitialize, GbmGrallocInitializeFails,
       GbmAllocMemNoDevice, GbmMmap, GbmUnmap, GbmFreeMem
<1>3. QED
  BY <1>1, <1>2, TypeCorrect, PTL DEF Spec

-----------------------------------------------------------------------------
(***************************************************************************)
(* The layout arithmetic of GbmLayout.                                     *)
(***************************************************************************)
(* A number below Word does not wrap. *)
LEMMA WrapSmall ==
  ASSUME NEW n \in Nat, n < Word
  PROVE  Wrap(n) = n
  BY LayoutAssumption DEF Wrap

(* Whatever wraps is a word. *)
LEMMA WrapType ==
  ASSUME NEW n \in Nat
  PROVE  Wrap(n) \in 0 .. (Word - 1)
  BY LayoutAssumption DEF Wrap

(* A requested width or height is a number. *)
LEMMA RequestsNat == \A x \in Requests : x \in Nat
  BY LayoutAssumption

(* AlignUp yields a word. *)
LEMMA AlignUpType ==
  ASSUME NEW x \in Nat, NEW a \in {HEIGHT_ALIGN, WIDTH_ALIGN}
  PROVE  AlignUp(x, a) \in 0 .. (Word - 1)
<1>1. a \in {2, 8}
  BY DEF HEIGHT_ALIGN, WIDTH_ALIGN
<1>2. x + (a - 1) \in Nat
  BY <1>1
<1>3. Wrap(x + (a - 1)) \in Nat
  BY <1>2, WrapType, LayoutAssumption
<1>4. (Wrap(x + (a - 1)) \div a) * a \in Nat
  BY <1>1, <1>3
<1>5. QED
  BY <1>4, WrapType DEF AlignUp

(* Away from the end of the word AlignUp yields the next multiple. *)
LEMMA AlignUpSmall ==
  ASSUME NEW x \in Nat, NEW a \in {HEIGHT_ALIGN, WIDTH_ALIGN}, x + a <= Word
  PROVE  x <= AlignUp(x, a) /\ AlignUp(x, a) < x + a
<1>1. a \in {2, 8}
  BY DEF HEIGHT_ALIGN, WIDTH_ALIGN
<1>2. x + (a - 1) \in Nat /\ x + (a - 1) < Word
  BY <1>1, LayoutAssumption
<1>3. Wrap(x + (a - 1)) = x + (a - 1)
  BY <1>2, WrapSmall
<1>4. /\ ((x + (a - 1)) \div a) * a \in Nat
      /\ ((x + (a - 1)) \div a) * a <= x + (a - 1)
      /\ x <= ((x + (a - 1)) \div a) * a
  <2>1. CASE a = 2
    BY <2>1
  <2>2. CASE a = 8
    BY <2>2
  <2>3. QED
    BY <1>1, <2>1, <2>2
<1>5. Wrap(((x + (a - 1)) \div a) * a) = ((x + (a - 1)) \div a) * a
  BY <1>2, <1>4, WrapSmall, LayoutAssumption
<1>6. AlignUp(x, a) = ((x + (a - 1)) \div a) * a
  BY <1>3, <1>5 DEF AlignUp
<1>7. QED
  BY <1>1, <1>4, <1>6

(* The scaled height is a number. *)
LEMMA AdjustType ==
  ASSUME NEW f \in Formats, NEW h \in Nat
  PROVE  AdjustStrideFromFormat(f, h) \in Nat
<1>1. CASE f = "rgb"
  BY <1>1 DEF AdjustStrideFromFormat
<1>2. CASE f # "rgb"
  <2>1. PICK s \in {6, 8} : Radio[f][1] = 4 /\ Radio[f][1] + Radio[f][2] + Radio[f][3] = s
    BY <1>2 DEF Radio, Formats
  <2>2. Wrap(h * s) \in Nat
    BY WrapType, LayoutAssumption
  <2>3. Wrap(Wrap(h * s) + 4 - 1) \in Nat
    BY <2>2, WrapType, LayoutAssumption
  <2>4. QED
    BY <1>2, <2>1, <2>3 DEF AdjustStrideFromFormat, DivRoundUp
<1>3. QED
  BY <1>1, <1>2

(* While nothing wraps, the scaled height is the number of rows needed. *)
LEMMA AdjustIsRowsNeeded ==
  ASSUME NEW f \in Formats, NEW h \in Nat, h < (Word - 8) \div 8
  PROVE  /\ AdjustStrideFromFormat(f, h) = RowsNeeded(f, h)
         /\ RowsNeeded(f, h) \in Nat
         /\ RowsNeeded(f, h) + 2 <= Word
<1>1. 8 * h + 16 <= Word
  BY LayoutAssumption
<1>2. RowsNeeded(f, h) \in Nat /\ RowsNeeded(f, h) + 2 <= Word
  BY <1>1, LayoutAssumption DEF RowsNeeded
<1>3. CASE f = "rgb"
  BY <1>2, <1>3 DEF AdjustStrideFromFormat, RowsNeeded
<1>4. CASE f # "rgb"
  <2>1. PICK s \in {6, 8} :
          /\ Radio[f][1] = 4
          /\ Radio[f][1] + Radio[f][2] + Radio[f][3] = s
          /\ s = 6 <=> f \in {"yuv420sp", "yuv420p"}
    BY <1>4 DEF Radio, Formats
  <2>2. h * s \in Nat /\ h * s < Word
    BY <1>1, LayoutAssumption
  <2>3. Wrap(h * s) = h * s
    BY <2>2, WrapSmall
  <2>4. h * s + 4 - 1 \in Nat /\ h * s + 4 - 1 < Word
    BY <1>1, LayoutAssumption
  <2>5. Wrap(h * s + 4 - 1) = h * s + 4 - 1
    BY <2>4, WrapSmall
  <2>6. AdjustStrideFromFormat(f, h) = (h * s + 4 - 1) \div 4
    BY <1>4, <2>1, <2>3, <2>5 DEF AdjustStrideFromFormat, DivRoundUp
  <2>7. CASE s = 6
    <3>1. (h * 6 + 4 - 1) \div 4 = h + (h + 1) \div 2
      OBVIOUS
    <3>2. QED
      BY <1>2, <2>1, <2>6, <2>7, <3>1 DEF RowsNeeded
  <2>8. CASE s = 8
    <3>1. (h * 8 + 4 - 1) \div 4 = h + h
      OBVIOUS
    <3>2. f \in {"yuv422sp", "yuv422p"}
      BY <1>4, <2>1, <2>8 DEF Formats
    <3>3. QED
      BY <1>2, <2>6, <2>8, <3>1, <3>2 DEF RowsNeeded
  <2>9. QED
    BY <2>1, <2>7, <2>8
<1>5. QED
  BY <1>3, <1>4

(* The requests and what is asked of the kernel stay within a word. *)
THEOREM LayoutTypeCorrect == LayoutSpec => []LayoutTypeOK
<1>1. LayoutInit => LayoutTypeOK
  BY LayoutAssumption DEF LayoutInit, LayoutTypeOK, NoDumb
<1>2. LayoutTypeOK /\ [LayoutNext]_layoutVars => LayoutTypeOK'
  <2>1. SUFFICES ASSUME LayoutTypeOK, [LayoutNext]_layoutVars PROVE LayoutTypeOK'
    OBVIOUS
  <2>2. CASE CreateBo
    <3>1. request.width \in Nat /\ request.height \in Nat /\ request.format \in Formats
      <4>1. request.width \in Requests /\ request.height \in Requests
        BY <2>1 DEF LayoutTypeOK
      <4>2. request.format \in Formats
        BY <2>1 DEF LayoutTypeOK
      <4>3. QED
        BY <4>1, <4>2, RequestsNat
    <3>2. AdjustStrideFromFormat(request.format, request.height) \in Nat
      BY <3>1, AdjustType
    <3>3. /\ AlignUp(request.width, WIDTH_ALIGN) \in 0 .. (Word - 1)
          /\ AlignUp(AdjustStrideFromFormat(request.format, request.height), HEIGHT_ALIGN)
               \in 0 .. (Word - 1)
      BY <3>1, <3>2, AlignUpType
    <3>4. QED
      BY <2>1, <2>2, <3>3 DEF LayoutTypeOK, CreateBo
  <2>3. CASE UNCHANGED layoutVars
    BY <2>1, <2>3 DEF LayoutTypeOK, layoutVars
  <2>4. QED
    BY <2>1, <2>2, <2>3 DEF LayoutNext
<1>3. QED
  BY <1>1, <1>2, PTL DEF LayoutSpec

(* For every word size, format, width and height that does not wrap, the   *)
(* dumb buffer holds all planes and wastes less than the alignment.        *)
THEOREM PlanesFitAlways == LayoutSpec => []PlanesFit
<1>1. LayoutInit => PlanesFit
  BY DEF LayoutInit, PlanesFit
<1>2. LayoutTypeOK /\ PlanesFit /\ [LayoutNext]_layoutVars => PlanesFit'
  <2>1. SUFFICES ASSUME LayoutTypeOK, PlanesFit, [LayoutNext]_layoutVars PROVE PlanesFit'
    OBVIOUS
  <2>2. CASE CreateBo
    <3>1. SUFFICES ASSUME InRange
                   PROVE  /\ RowsNeeded(request.format, request.height) <= dumb'.height
                          /\ dumb'.height
                               < RowsNeeded(request.format, request.height) + HEIGHT_ALIGN
                          /\ request.width <= dumb'.width
                          /\ dumb'.width < request.width + WIDTH_ALIGN
      BY <2>2 DEF PlanesFit, InRange, CreateBo
    <3>2. request.width \in Nat /\ request.height \in Nat /\ request.format \in Formats
      <4>1. request.width \in Requests /\ request.height \in Requests
        BY <2>1 DEF LayoutTypeOK
      <4>2. request.format \in Formats
        BY <2>1 DEF LayoutTypeOK
      <4>3. QED
        BY <4>1, <4>2, RequestsNat
    <3>3. /\ AdjustStrideFromFormat(request.format, request.height)
               = RowsNeeded(request.format, request.height)
          /\ RowsNeeded(request.format, request.height) \in Nat
          /\ RowsNeeded(request.format, request.height) + HEIGHT_ALIGN <= Word
      BY <3>1, <3>2, AdjustIsRowsNeeded DEF InRange, HEIGHT_ALIGN
    <3>4. request.width + WIDTH_ALIGN <= Word
      BY <3>1, <3>2, LayoutAssumption DEF InRange, WIDTH_ALIGN
    <3>5. /\ RowsNeeded(request.format, request.height)
               <= AlignUp(RowsNeeded(request.format, request.height), HEIGHT_ALIGN)
          /\ AlignUp(RowsNeeded(request.format, request.height), HEIGHT_ALIGN)
               < RowsNeeded(request.format, request.height) + HEIGHT_ALIGN
      BY <3>3, AlignUpSmall
    <3>6. /\ request.width <= AlignUp(request.width, WIDTH_ALIGN)
          /\ AlignUp(request.width, WIDTH_ALIGN) < request.width + WIDTH_ALIGN
      BY <3>2, <3>4, AlignUpSmall
    <3>7. QED
      BY <2>2, <3>3, <3>5, <3>6 DEF CreateBo
  <2>3. CASE UNCHANGED layoutVars
    BY <2>1, <2>3 DEF PlanesFit, InRange, layoutVars
  <2>4. QED
    BY <2>1, <2>2, <2>3 DEF LayoutNext
<1>3. QED
  BY <1>1, <1>2, LayoutTypeCorrect, PTL DEF LayoutSpec
=============================================================================
