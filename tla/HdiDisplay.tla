------------------------------ MODULE HdiDisplay ------------------------------
(***************************************************************************)
(* The layer registry of the composer HAL: HdiDisplay and the static part  *)
(* of HdiLayer.  Every display keeps its layers twice: mLayersMap owns     *)
(* them by id, mLayers is a multiset of raw pointers ordered by z-order,   *)
(* which Prepare walks from bottom to top.  The layer ids come from one    *)
(* static pool shared by all displays.                                     *)
(*                                                                         *)
(* Abstractions.  A layer object is identified with its id.  mVisible is   *)
(* left out: nothing the VDI exposes calls SetLayerVisible, so it is       *)
(* always true.  Crop, alpha, blending, transform and region are data no   *)
(* decision of these functions reads.  A call that names an unknown        *)
(* display or layer fails and changes nothing: it is a stuttering step.    *)
(***************************************************************************)
EXTENDS Naturals, Sequences, SequencesExt

CONSTANTS
  Displays,     \* the keys of HdiSession::mHdiDisplays
  Zorders,      \* z-orders a caller may set
  CallerTypes,  \* composition types a caller may set
  InitZ,        \* the initial mZorder, (uint32_t)-1: above every other value
  Buffers,      \* buffer handles a caller may attach
  NoBuffer,     \* mHdiBuffer == nullptr
  MaxLayers,    \* bound: ids handed out, far below INVALIDE_LAYER_ID
  Callers       \* kinds of caller: the displays, z-orders, types and buffers
                \* one uses, and whether it keeps the protocol below

CompTypes == {"CLIENT", "DEVICE", "CURSOR"}
LayerIds  == 0 .. (MaxLayers - 1)

ASSUME ConstantsAssumption ==
  /\ Zorders \subseteq Nat
  /\ CallerTypes \subseteq CompTypes
  /\ InitZ \in Nat
  /\ NoBuffer \notin Buffers
  /\ MaxLayers \in Nat
  /\ \A c \in Callers : c.disciplined \in BOOLEAN

VARIABLES
  mIdleId, mIdSets,   \* HdiLayer's static id pool
  mLayersMap,         \* per display: the ids of the layers it owns
  mLayers,            \* per display: the multiset, in iteration order
  mZorder,            \* per layer
  mCompositionType,   \* per layer
  mDeviceSelect,      \* per layer
  mHdiBuffer,         \* per layer
  mChangeLayers,      \* per display: the layers the last Prepare changed
  mCursorLayers,      \* per display: buffer given to the composer's cursor layer
  crashed,            \* the process has dereferenced a null buffer
  caller,             \* the caller, chosen by Init
  unread,             \* caller: has not read the changes of the last Prepare
  knownType           \* caller: composition type it believes a layer has

idVars     == <<mIdleId, mIdSets>>
layerVars  == <<mZorder, mCompositionType, mDeviceSelect, mHdiBuffer>>
callerVars == <<unread, knownType>>
vars == <<idVars, mLayersMap, mLayers, layerVars, mChangeLayers, mCursorLayers,
          crashed, caller, callerVars>>

Disciplined == caller.disciplined

-----------------------------------------------------------------------------
(***************************************************************************)
(* std::multiset<HdiLayer *, SortLayersByZ>.                               *)
(***************************************************************************)

(* Mutant: insert as lower_bound would, with the comparison the wrong way. *)
IsUpperBoundReversed(s, z, k) ==
  /\ \A i \in 1 .. (k - 1) : mZorder[s[i]] >= z
  /\ k <= Len(s) => z > mZorder[s[k]]

(* emplace puts an element after all those that do not compare greater. *)
IsUpperBound(s, z, k) ==
  /\ \A i \in 1 .. (k - 1) : mZorder[s[i]] <= z
  /\ k <= Len(s) => z < mZorder[s[k]]

(* Mutant: the loop stops one element early. *)
EqualRangeShort(s, z) ==
  {i \in 1 .. (Len(s) - 1) : /\ \E j \in 1 .. i : mZorder[s[j]] >= z
                             /\ \A j \in 1 .. i : mZorder[s[j]] <= z}

(* equal_range: from the first element not below z to the last not above. *)
EqualRange(s, z) ==
  {i \in 1 .. Len(s) : /\ \E j \in 1 .. i : mZorder[s[j]] >= z
                       /\ \A j \in 1 .. i : mZorder[s[j]] <= z}

(* Erase the pointer l, looked for among the elements of its z-order. *)
Erase(s, l) ==
  IF \E i \in EqualRange(s, mZorder[l]) : s[i] = l
    THEN RemoveAt(s, CHOOSE i \in EqualRange(s, mZorder[l]) : s[i] = l)
    ELSE s

(* GetHdiLayer: a call that names a layer the display does not own fails.  *)
GetHdiLayer(d, l) == l \in mLayersMap[d]

-----------------------------------------------------------------------------
(***************************************************************************)
(* What a caller that follows the protocol does: it reads the changes of   *)
(* a Prepare once, before it prepares again or destroys a layer, and gives *)
(* a layer a buffer before it makes it a cursor layer.                     *)
(***************************************************************************)
CallerMayPrepare(d)    == Disciplined => ~unread[d]
CallerMayRead(d)       == Disciplined => unread[d]
CallerMayDestroy(d)    == Disciplined => ~unread[d]
CallerMayRetype(l, t)  == Disciplined /\ t = "CURSOR" => mHdiBuffer[l] # NoBuffer

(* Mutant: the pool forgets to advance and to record the id. *)
GetIdleIdForgets(id) ==
  /\ mIdleId <= id
  /\ id \notin mIdSets
  /\ mIdleId .. (id - 1) \subseteq mIdSets
  /\ UNCHANGED idVars

(* HdiLayer::GetIdleId and Init: the first id not in use from mIdleId on. *)
(* The scan that wraps around the id space is the subject of IdPool.      *)
GetIdleId(id) ==
  /\ mIdleId <= id
  /\ id \notin mIdSets
  /\ mIdleId .. (id - 1) \subseteq mIdSets
  /\ mIdSets' = mIdSets \cup {id}
  /\ mIdleId' = id + 1

CreateLayer(d) ==
  /\ ~crashed
  /\ \E id \in LayerIds :
       /\ GetIdleId(id)
       /\ mZorder' = [mZorder EXCEPT ![id] = InitZ]
       /\ mCompositionType' = [mCompositionType EXCEPT ![id] = "CLIENT"]
       /\ mDeviceSelect' = [mDeviceSelect EXCEPT ![id] = "CLIENT"]
       /\ mHdiBuffer' = [mHdiBuffer EXCEPT ![id] = NoBuffer]
       /\ knownType' = [knownType EXCEPT ![id] = "CLIENT"]
       /\ \E k \in 1 .. (Len(mLayers[d]) + 1) :
            /\ IsUpperBound(mLayers[d], InitZ, k)
            /\ mLayers' = [mLayers EXCEPT ![d] = InsertAt(@, k, id)]
       /\ mLayersMap' = [mLayersMap EXCEPT ![d] = @ \cup {id}]
  /\ UNCHANGED <<mChangeLayers, mCursorLayers, crashed, unread>>

DestroyLayer(d, l) ==
  /\ ~crashed
  /\ CallerMayDestroy(d)
  /\ GetHdiLayer(d, l)
  /\ mLayers' = [mLayers EXCEPT ![d] = Erase(@, l)]
  /\ mLayersMap' = [mLayersMap EXCEPT ![d] = @ \ {l}]
  /\ UNCHANGED <<idVars, layerVars, mChangeLayers, mCursorLayers, crashed, callerVars>>

(* The layer leaves the multiset under its old z-order, then comes back    *)
(* under the new one; an unchanged z-order returns early.                  *)
SetLayerZorder(d, l, z) ==
  /\ ~crashed
  /\ GetHdiLayer(d, l)
  /\ mZorder[l] # z
  /\ LET rest == Erase(mLayers[d], l)
     IN \E k \in 1 .. (Len(rest) + 1) :
          /\ IsUpperBound(rest, z, k)
          /\ mLayers' = [mLayers EXCEPT ![d] = InsertAt(rest, k, l)]
  /\ mZorder' = [mZorder EXCEPT ![l] = z]
  /\ UNCHANGED <<idVars, mLayersMap, mCompositionType, mDeviceSelect, mHdiBuffer,
                 mChangeLayers, mCursorLayers, crashed, callerVars>>

SetLayerCompositionType(d, l, t) ==
  /\ ~crashed
  /\ GetHdiLayer(d, l)
  /\ CallerMayRetype(l, t)
  /\ mCompositionType' = [mCompositionType EXCEPT ![l] = t]
  /\ knownType' = [knownType EXCEPT ![l] = t]
  /\ UNCHANGED <<idVars, mLayersMap, mLayers, mZorder, mDeviceSelect, mHdiBuffer,
                 mChangeLayers, mCursorLayers, crashed, unread>>

SetLayerBuffer(d, l, b) ==
  /\ ~crashed
  /\ GetHdiLayer(d, l)
  /\ mHdiBuffer' = [mHdiBuffer EXCEPT ![l] = b]
  /\ UNCHANGED <<idVars, mLayersMap, mLayers, mZorder, mCompositionType, mDeviceSelect,
                 mChangeLayers, mCursorLayers, crashed, callerVars>>

-----------------------------------------------------------------------------
(***************************************************************************)
(* HdiDisplay::PrepareDisplayLayers.                                       *)
(***************************************************************************)

(* HdiDrmComposition::SetLayers: every layer but a cursor layer is left to *)
(* the client's composition.                                               *)
SetLayers(s) ==
  [l \in LayerIds |->
     IF l \in ToSet(s) /\ mCompositionType[l] # "CURSOR" THEN "CLIENT" ELSE mDeviceSelect[l]]

(* Mutant: a cursor layer is skipped after its buffer was copied. *)
ChangedSkipCursor(d, select) ==
  {l \in ToSet(mLayers[d]) : select[l] # mCompositionType[l] /\ mCompositionType[l] # "CURSOR"}

(* Mutant: the changes of the last Prepare are not cleared. *)
ChangedUncleared(d, select) ==
  mChangeLayers[d] \cup {l \in ToSet(mLayers[d]) : select[l] # mCompositionType[l]}

(* mChangeLayers after the loop: it is cleared first, then takes the       *)
(* layers whose type the device overrides.                                 *)
Changed(d, select) == {l \in ToSet(mLayers[d]) : select[l] # mCompositionType[l]}

(* Places of the cursor layers in the multiset. *)
Cursors(s) == {i \in 1 .. Len(s) : mCompositionType[s[i]] = "CURSOR"}

(* Every cursor layer's buffer is copied into mCursorLayer in turn: the    *)
(* topmost one stays.                                                      *)
SetCursorLayer(d, s) ==
  \/ Cursors(s) = {} /\ UNCHANGED mCursorLayers
  \/ \E i \in Cursors(s) :
       /\ \A j \in Cursors(s) : j <= i
       /\ mCursorLayers' = [mCursorLayers EXCEPT ![d] = mHdiBuffer[s[i]]]

PrepareDisplayLayers(d) ==
  LET s      == mLayers[d]
      select == SetLayers(s)
  IN /\ ~crashed
     /\ CallerMayPrepare(d)
     /\ \A i \in Cursors(s) : mHdiBuffer[s[i]] # NoBuffer
     /\ mDeviceSelect' = select
     /\ mChangeLayers' = [mChangeLayers EXCEPT ![d] = Changed(d, select)]
     /\ mCompositionType' =
          [l \in LayerIds |-> IF l \in ToSet(s) THEN select[l] ELSE mCompositionType[l]]
     /\ SetCursorLayer(d, s)
     /\ unread' = [unread EXCEPT ![d] = TRUE]
     /\ UNCHANGED <<idVars, mLayersMap, mLayers, mZorder, mHdiBuffer, crashed, knownType>>

(* A cursor layer that never got a buffer: &layerBuffer->mHandle is read   *)
(* through a null pointer and the composer host dies.                      *)
PrepareNullBuffer(d) ==
  /\ ~crashed
  /\ CallerMayPrepare(d)
  /\ \E i \in Cursors(mLayers[d]) : mHdiBuffer[mLayers[d][i]] = NoBuffer
  /\ crashed' = TRUE
  /\ UNCHANGED <<idVars, mLayersMap, mLayers, layerVars, mChangeLayers,
                 mCursorLayers, callerVars>>

(* GetDisplayCompChange with arrays: the caller learns the current type of *)
(* every layer of mChangeLayers.  A pointer to a destroyed layer yields    *)
(* some type or other.                                                     *)
GetDisplayCompChange(d) ==
  /\ ~crashed
  /\ CallerMayRead(d)
  /\ \E garbage \in CompTypes :
       knownType' = [l \in LayerIds |->
         IF l \notin mChangeLayers[d] THEN knownType[l]
         ELSE IF l \in mLayersMap[d] THEN mCompositionType[l] ELSE garbage]
  /\ unread' = [unread EXCEPT ![d] = FALSE]
  /\ UNCHANGED <<idVars, mLayersMap, mLayers, layerVars, mChangeLayers, mCursorLayers,
                 crashed>>

-----------------------------------------------------------------------------
Init ==
  /\ mIdleId = 0 /\ mIdSets = {}
  /\ mLayersMap = [d \in Displays |-> {}]
  /\ mLayers = [d \in Displays |-> <<>>]
  /\ mZorder = [l \in LayerIds |-> InitZ]
  /\ mCompositionType = [l \in LayerIds |-> "CLIENT"]
  /\ mDeviceSelect = [l \in LayerIds |-> "CLIENT"]
  /\ mHdiBuffer = [l \in LayerIds |-> NoBuffer]
  /\ mChangeLayers = [d \in Displays |-> {}]
  /\ mCursorLayers = [d \in Displays |-> NoBuffer]
  /\ crashed = FALSE
  /\ caller \in Callers
  /\ unread = [d \in Displays |-> FALSE]
  /\ knownType = [l \in LayerIds |-> "CLIENT"]

Next ==
  /\ UNCHANGED caller
  /\ \E d \in Displays \cap caller.displays :
       \/ CreateLayer(d)
       \/ PrepareDisplayLayers(d)
       \/ PrepareNullBuffer(d)
       \/ GetDisplayCompChange(d)
       \/ \E l \in LayerIds :
            \/ DestroyLayer(d, l)
            \/ \E z \in Zorders \cap caller.zorders : SetLayerZorder(d, l, z)
            \/ \E t \in CallerTypes \cap caller.types : SetLayerCompositionType(d, l, t)
            \/ \E b \in Buffers \cap caller.buffers : SetLayerBuffer(d, l, b)

Spec == Init /\ [][Next]_vars

-----------------------------------------------------------------------------
(* The containers hold layer ids and every layer's composition type is one *)
(* the HAL knows, whatever the device selects.                             *)
TypeOK ==
  /\ mIdleId \in Nat
  /\ mIdSets \subseteq LayerIds
  /\ mLayersMap \in [Displays -> SUBSET LayerIds]
  /\ mLayers \in [Displays -> Seq(LayerIds)]
  /\ mZorder \in [LayerIds -> Nat]
  /\ mCompositionType \in [LayerIds -> CompTypes]
  /\ mDeviceSelect \in [LayerIds -> CompTypes]
  /\ mHdiBuffer \in [LayerIds -> Buffers \cup {NoBuffer}]
  /\ mChangeLayers \in [Displays -> SUBSET LayerIds]
  /\ mCursorLayers \in [Displays -> Buffers \cup {NoBuffer}]
  /\ crashed \in BOOLEAN
  /\ caller \in Callers
  /\ unread \in [Displays -> BOOLEAN]
  /\ knownType \in [LayerIds -> CompTypes]

Sorted(s)  == \A i, j \in 1 .. Len(s) : i < j => mZorder[s[i]] <= mZorder[s[j]]
NoDups(s)  == \A i, j \in 1 .. Len(s) : s[i] = s[j] => i = j

(* The two containers of a display never disagree: the multiset holds      *)
(* exactly the layers the map owns, each once, from the lowest z-order to  *)
(* the highest.  A layer erased under the wrong z-order would stay behind  *)
(* as a pointer to freed memory that Prepare walks into.                   *)
Registry ==
  \A d \in Displays :
    /\ ToSet(mLayers[d]) = mLayersMap[d]
    /\ NoDups(mLayers[d])
    /\ Sorted(mLayers[d])

(* An id names at most one layer: no layer belongs to two displays, and    *)
(* every id in use is recorded in the pool.                                *)
IdsUnique ==
  \A d \in Displays :
    /\ mLayersMap[d] \subseteq mIdSets
    /\ \A e \in Displays : d # e => mLayersMap[d] \cap mLayersMap[e] = {}

(* The registry implements LayerStack: seen from outside, a display is a    *)
(* stack of distinct layers sorted by z-order, and CreateLayer,            *)
(* DestroyLayer and SetLayerZorder never disturb the other layers.         *)
Abstract == INSTANCE LayerStack WITH
              Ids <- LayerIds, stack <- mLayers, zorder <- mZorder, used <- mIdSets
ImplementsLayerStack == Abstract!StackSpec

(* A caller that keeps the protocol is never wrong about a layer's type    *)
(* once it has read the changes: whenever its belief differs from the      *)
(* layer, the layer is still waiting in mChangeLayers.                     *)
ChangesReported ==
  Disciplined => \A d \in Displays : \A l \in mLayersMap[d] :
    knownType[l] # mCompositionType[l] => unread[d] /\ l \in mChangeLayers[d]

(* Under the same protocol no destroyed layer is read through              *)
(* mChangeLayers, which DestroyLayer does not clean.                       *)
ChangesAlive ==
  Disciplined => \A d \in Displays : unread[d] => mChangeLayers[d] \subseteq mLayersMap[d]
=============================================================================
