----------------------------- MODULE DrmDiscovery -----------------------------
(***************************************************************************)
(* How the composer HAL finds its displays.  HdiSession::Init runs once    *)
(* per process: it opens the KMS card, reads CRTCs, encoders, connectors   *)
(* and planes from the kernel and then, connector by connector, picks a    *)
(* CRTC and planes and makes a DrmDisplay.  Afterwards clients register    *)
(* hot-plug callbacks and are told about the displays.                     *)
(*                                                                         *)
(* The maps of CRTCs and connectors are unordered, so the order in which   *)
(* the loops visit them is a choice.  mPossibleEncoders has the order the  *)
(* kernel gives, which is a choice as well.                                *)
(***************************************************************************)
EXTENDS Naturals, FiniteSets

CONSTANTS
  NCrtcs, Encoders, Connectors, Planes,
  Topologies,  \* the hardware and its state at boot, one record each
  Callbacks,   \* hot-plug callbacks of the composer service
  Faults,      \* what may fail: subset of {"device", "gfx", "frame"}
  MaxLost,     \* bound: kernel objects whose Init fails
  Nobody       \* INVALIDE_DISPLAY_ID

Crtcs == 1 .. NCrtcs            \* in the order of drmModeRes
Pipe(crtc) == crtc - 1          \* mPipe of a DrmCrtc is its index
Pipes == 0 .. (NCrtcs - 1)
Ids == 0 .. (Cardinality(Connectors) - 1)
Stages == {"gfx", "planes", "bind", "frame", "ready"}
PlaneTypes == {"primary", "overlay", "cursor"}

(***************************************************************************)
(* A topology: the pipes an encoder can drive, the encoders a connector    *)
(* can use, which connector is lit through which encoder and CRTC, which   *)
(* is connected, which reports modes, and the planes.                      *)
(***************************************************************************)
Dark == [encoder |-> Nobody, crtc |-> 0]
LitStates == {Dark} \cup [encoder : Encoders, crtc : Crtcs]
TopologyTypes ==
  [pipesOf : [Encoders -> SUBSET Pipes],
   encodersOf : [Connectors -> SUBSET Encoders],
   lit : [Connectors -> LitStates],
   connected : SUBSET Connectors,
   withModes : SUBSET Connectors,
   plane : [Planes -> [pipes : SUBSET Pipes, type : PlaneTypes]]]

(* The kernel lights a connector only through an encoder and a CRTC it can *)
(* use, and drives two connectors with different ones: the KMS clones of   *)
(* one picture, which virtio-gpu does not offer, are left out.             *)
KernelConsistent(t) ==
  \A k \in Connectors :
    t.lit[k] # Dark =>
      /\ t.lit[k].encoder \in t.encodersOf[k]
      /\ Pipe(t.lit[k].crtc) \in t.pipesOf[t.lit[k].encoder]
      /\ \A j \in Connectors \ {k} :
           t.lit[j].encoder # t.lit[k].encoder /\ t.lit[j].crtc # t.lit[k].crtc

ASSUME DiscoveryAssumption ==
  /\ NCrtcs \in Nat /\ MaxLost \in Nat
  /\ IsFiniteSet(Connectors)
  /\ Nobody \notin Nat /\ Nobody \notin Encoders
  /\ \A t \in Topologies : t \in TopologyTypes /\ KernelConsistent(t)

VARIABLES
  pc,          \* "start", "travel" (the connectors), "done"
  topo,
  mCrtcs, mEncoders, mConnectors, mPlanes,   \* what the HAL has found
  todo,        \* connectors the loop has not visited
  mDisplayId,  \* DrmCrtc: the display bound to it
  mPipe,       \* DrmPlane: the pipe it is bound to; 0 stands for none, too
  mDisplays,   \* displays by id
  mHotPlugCallBacks,
  told         \* ids each callback was called with

found == <<mCrtcs, mEncoders, mConnectors, mPlanes>>
vars == <<pc, topo, found, todo, mDisplayId, mPipe, mDisplays, mHotPlugCallBacks, told>>

Displays == [connector : Connectors, crtc : Crtcs, stage : Stages, planes : SUBSET Planes]

-----------------------------------------------------------------------------
(* The card cannot be opened, the HAL does not become master or the        *)
(* kernel's resources cannot be read: no display, and no error either.     *)
DiscoveryDeviceFails ==
  /\ pc = "start"
  /\ "device" \in Faults
  /\ pc' = "done"
  /\ UNCHANGED <<topo, found, todo, mDisplayId, mPipe, mDisplays, mHotPlugCallBacks, told>>

(* FindAllCrtc, FindAllEncoder, FindAllConnector, FindAllPlane: an object  *)
(* that cannot be read is left out, and so is an unconnected connector.    *)
FindAll ==
  /\ pc = "start"
  /\ \E lost \in SUBSET (Crtcs \cup Encoders \cup Connectors \cup Planes) :
       /\ Cardinality(lost) <= MaxLost
       /\ mCrtcs' = Crtcs \ lost
       /\ mEncoders' = Encoders \ lost
       /\ mConnectors' = topo.connected \ lost
       /\ mPlanes' = Planes \ lost
  /\ todo' = mConnectors'
  /\ pc' = "travel"
  /\ UNCHANGED <<topo, mDisplayId, mPipe, mDisplays, mHotPlugCallBacks, told>>

-----------------------------------------------------------------------------
CanBind(crtc) == mDisplayId[crtc] = Nobody

(* The CRTC the kernel drives an encoder with; 0 if none. *)
KernelCrtc(encoder) ==
  LET users == {k \in Connectors : topo.lit[k].encoder = encoder}
  IN  IF users = {} THEN 0 ELSE topo.lit[CHOOSE k \in users : TRUE].crtc

(* Mutant: the mask of possible CRTCs is not tested. *)
EncoderPickAny(encoder) ==
  IF KernelCrtc(encoder) \in mCrtcs
  THEN {KernelCrtc(encoder)}
  ELSE {crtc \in mCrtcs : CanBind(crtc)}

(* DrmEncoder::PickIdleCrtcId: the CRTC the kernel uses, bound or not,     *)
(* else an idle one among the possible.                                    *)
EncoderPickIdleCrtcId(encoder) ==
  IF KernelCrtc(encoder) \in mCrtcs
  THEN {KernelCrtc(encoder)}
  ELSE {crtc \in mCrtcs : CanBind(crtc) /\ Pipe(crtc) \in topo.pipesOf[encoder]}

TryPickEncoder(encoder) ==
  IF encoder \in mEncoders THEN EncoderPickIdleCrtcId(encoder) ELSE {}

(* Mutant: only the encoder the kernel uses is tried. *)
PickIdleCrtcIdCurrentOnly(connector) == TryPickEncoder(topo.lit[connector].encoder)

(* DrmConnector::PickIdleCrtcId: what the connector's current encoder      *)
(* picks, else what a possible one does.                                   *)
PickIdleCrtcId(connector) ==
  LET current == TryPickEncoder(topo.lit[connector].encoder)
  IN  IF current # {}
      THEN current
      ELSE UNION {TryPickEncoder(e) : e \in topo.encodersOf[connector]}

(* Mutant: the mask of possible CRTCs is not tested. *)
GetDrmPlaneAnyPipe(pipe) == {p \in mPlanes : mPipe[p] = 0}

(* GetDrmPlane, for the three types: the planes a composition takes.       *)
(* IsIdle is mPipe == 0.                                                   *)
GetDrmPlane(pipe) == {p \in mPlanes : mPipe[p] = 0 /\ pipe \in topo.plane[p].pipes}

HasPrimary(planes) == \E p \in planes : topo.plane[p].type = "primary"

(* Mutant: BindToDisplay takes a CRTC away from its display. *)
InitStageSteals(connector, crtc, planes, gfxFails, frameFails) ==
  IF gfxFails THEN "gfx"
  ELSE IF ~HasPrimary(planes) THEN "planes"
  ELSE IF frameFails \/ connector \notin topo.withModes THEN "frame"
  ELSE "ready"

(* DrmDisplay::Init returns at the first step that fails: the gfx module,  *)
(* a primary plane, BindToDisplay, or the first frame, for which a mode    *)
(* and memory are needed.                                                  *)
InitStage(connector, crtc, planes, gfxFails, frameFails) ==
  IF gfxFails THEN "gfx"
  ELSE IF ~HasPrimary(planes) THEN "planes"
  ELSE IF ~CanBind(crtc) THEN "bind"
  ELSE IF frameFails \/ connector \notin topo.withModes THEN "frame"
  ELSE "ready"

Bound(stage) == stage \in {"frame", "ready"}

(* A DrmDisplay is constructed, with the number of displays as its id,     *)
(* initialised on the CRTC picked, and stored.                             *)
MakeDisplay(connector, crtc, gfxFails, frameFails) ==
  LET id     == Cardinality(DOMAIN mDisplays)
      planes == IF gfxFails THEN {} ELSE GetDrmPlane(Pipe(crtc))
      stage  == InitStage(connector, crtc, planes, gfxFails, frameFails)
  IN  /\ mPipe' = [p \in Planes |-> IF p \in planes THEN Pipe(crtc) ELSE mPipe[p]]
      /\ mDisplayId' = [mDisplayId EXCEPT ![crtc] = IF Bound(stage) THEN id ELSE @]
      /\ mDisplays' = [i \in DOMAIN mDisplays \cup {id} |->
                         IF i = id
                         THEN [connector |-> connector, crtc |-> crtc,
                               stage |-> stage, planes |-> planes]
                         ELSE mDisplays[i]]

(* One turn of DiscoveryDisplay's loop that makes a display.  The result   *)
(* of its Init is not looked at.                                           *)
AddDisplay(connector) ==
  /\ pc = "travel"
  /\ connector \in todo
  /\ \E crtc \in PickIdleCrtcId(connector) :
     \E gfxFails \in {"gfx" \in Faults, FALSE}, frameFails \in {"frame" \in Faults, FALSE} :
       MakeDisplay(connector, crtc, gfxFails, frameFails)
  /\ todo' = todo \ {connector}
  /\ UNCHANGED <<pc, topo, found, mHotPlugCallBacks, told>>

(* The turn of a connector for which no CRTC is found. *)
SkipConnector(connector) ==
  /\ pc = "travel"
  /\ connector \in todo
  /\ PickIdleCrtcId(connector) = {}
  /\ todo' = todo \ {connector}
  /\ UNCHANGED <<pc, topo, found, mDisplayId, mPipe, mDisplays, mHotPlugCallBacks, told>>

(* HdiSession::Init takes over the displays. *)
DiscoveryDone ==
  /\ pc = "travel"
  /\ todo = {}
  /\ pc' = "done"
  /\ UNCHANGED <<topo, found, todo, mDisplayId, mPipe, mDisplays, mHotPlugCallBacks, told>>

-----------------------------------------------------------------------------
(* Mutant: only displays that come later are announced. *)
RegHotPlugCallbackSilent(cb) ==
  /\ pc = "done"
  /\ mHotPlugCallBacks' = mHotPlugCallBacks \cup {cb}
  /\ told' = [c \in Callbacks |->
                IF c \in mHotPlugCallBacks THEN told[c] \cup DOMAIN mDisplays ELSE told[c]]
  /\ UNCHANGED <<pc, topo, found, todo, mDisplayId, mPipe, mDisplays>>

(* RegHotPlugCallback calls every registered callback, old and new, for    *)
(* every connected display.                                                *)
RegHotPlugCallback(cb) ==
  /\ pc = "done"
  /\ mHotPlugCallBacks' = mHotPlugCallBacks \cup {cb}
  /\ told' = [c \in Callbacks |->
                IF c \in mHotPlugCallBacks'
                THEN told[c] \cup {d \in DOMAIN mDisplays :
                                     mDisplays[d].connector \in topo.connected}
                ELSE told[c]]
  /\ UNCHANGED <<pc, topo, found, todo, mDisplayId, mPipe, mDisplays>>

-----------------------------------------------------------------------------
Init ==
  /\ pc = "start"
  /\ topo \in Topologies
  /\ mCrtcs = {} /\ mEncoders = {} /\ mConnectors = {} /\ mPlanes = {}
  /\ todo = {}
  /\ mDisplayId = [c \in Crtcs |-> Nobody]
  /\ mPipe = [p \in Planes |-> 0]
  /\ mDisplays = [i \in {} |-> Nobody]
  /\ mHotPlugCallBacks = {}
  /\ told = [c \in Callbacks |-> {}]

Next ==
  \/ DiscoveryDeviceFails
  \/ FindAll
  \/ \E k \in Connectors : AddDisplay(k)
  \/ \E k \in Connectors : SkipConnector(k)
  \/ DiscoveryDone
  \/ \E cb \in Callbacks : RegHotPlugCallback(cb)

Spec == Init /\ [][Next]_vars

-----------------------------------------------------------------------------
(* The HAL's tables hold what the kernel has, and the loop only visits     *)
(* connectors that were found.                                             *)
TypeOK ==
  /\ pc \in {"start", "travel", "done"}
  /\ topo \in Topologies
  /\ mCrtcs \subseteq Crtcs /\ mEncoders \subseteq Encoders
  /\ mConnectors \subseteq Connectors /\ mPlanes \subseteq Planes
  /\ todo \subseteq mConnectors
  /\ mDisplayId \in [Crtcs -> Ids \cup {Nobody}]
  /\ mPipe \in [Planes -> Pipes]
  /\ DOMAIN mDisplays \subseteq Ids
  /\ \A d \in DOMAIN mDisplays : mDisplays[d] \in Displays
  /\ mHotPlugCallBacks \subseteq Callbacks
  /\ told \in [Callbacks -> SUBSET Ids]

(* A CRTC that says it is bound to a display is the CRTC that display      *)
(* uses, and a display that got past BindToDisplay has its CRTC to itself  *)
(* whatever was picked for the displays after it.                          *)
BindingsAgree ==
  /\ \A c \in Crtcs : mDisplayId[c] # Nobody =>
       /\ mDisplayId[c] \in DOMAIN mDisplays
       /\ mDisplays[mDisplayId[c]].crtc = c
  /\ \A d \in DOMAIN mDisplays :
       Bound(mDisplays[d].stage) => mDisplayId[mDisplays[d].crtc] = d

(* The CRTC of a display can be reached from its connector through an      *)
(* encoder that was found.                                                 *)
CrtcReachable ==
  \A d \in DOMAIN mDisplays :
    \E e \in mEncoders \cap topo.encodersOf[mDisplays[d].connector] :
      Pipe(mDisplays[d].crtc) \in topo.pipesOf[e]

(* A connector stays without a display only if, in the end, no CRTC that   *)
(* one of its encoders can drive is idle.                                  *)
NoCrtcWasted ==
  pc = "done" =>
    \A k \in mConnectors :
      \/ \E d \in DOMAIN mDisplays : mDisplays[d].connector = k
      \/ \A e \in mEncoders \cap topo.encodersOf[k], c \in mCrtcs :
           Pipe(c) \in topo.pipesOf[e] => ~CanBind(c)

(* Every output has hardware of its own, as on virtio-gpu: no two encoders *)
(* share a pipe, no two connectors an encoder, and a plane serves one pipe. *)
Dedicated(t) ==
  /\ \A d, e \in Encoders : d # e => t.pipesOf[d] \cap t.pipesOf[e] = {}
  /\ \A j, k \in Connectors : j # k => t.encodersOf[j] \cap t.encodersOf[k] = {}
  /\ \A p \in Planes : Cardinality(t.plane[p].pipes) <= 1

(* On such hardware no two displays present their frames through one CRTC  *)
(* or one plane, although a CRTC the kernel uses is taken without asking   *)
(* whether it is idle and a plane of pipe 0 always looks idle.             *)
DedicatedExclusive ==
  Dedicated(topo) =>
    \A d, e \in DOMAIN mDisplays : d # e =>
      /\ mDisplays[d].crtc # mDisplays[e].crtc
      /\ mDisplays[d].planes \cap mDisplays[e].planes = {}

(* A client that registered a callback knows every display, and displays   *)
(* only.                                                                   *)
EveryDisplayAnnounced ==
  \A c \in mHotPlugCallBacks : told[c] = DOMAIN mDisplays
=============================================================================
