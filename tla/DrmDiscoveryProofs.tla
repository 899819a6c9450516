-------------------------- MODULE DrmDiscoveryProofs --------------------------
(***************************************************************************)
(* For any hardware the kernel can describe, any order of the loops and    *)
(* any failures: a CRTC and the display bound to it agree, every display   *)
(* is reachable from its connector, no idle CRTC is wasted, hardware of    *)
(* one output is never shared, and callbacks hear of every display.        *)
(***************************************************************************)
EXTENDS DrmDiscovery, FiniteSetTheorems, TLAPS

(* Displays are numbered without gaps: the next id, which is their number, *)
(* is a fresh one.  Every display has a CRTC that was found.               *)
Numbered ==
  /\ mCrtcs \subseteq Crtcs
  /\ mDisplayId \in [Crtcs -> Nat \cup {Nobody}]
  /\ \E n \in Nat : DOMAIN mDisplays = 0 .. (n - 1)
  /\ \A d \in DOMAIN mDisplays : mDisplays[d].crtc \in Crtcs

Inv == Numbered /\ BindingsAgree

(* Only CRTCs that were found are picked. *)
LEMMA PickFound ==
  ASSUME NEW k, NEW c \in PickIdleCrtcId(k)
  PROVE  c \in mCrtcs
<1>1. \A e : TryPickEncoder(e) \subseteq mCrtcs
  BY DEF TryPickEncoder, EncoderPickIdleCrtcId
<1>2. QED
  BY <1>1 DEF PickIdleCrtcId

(* The id that a new display gets is a number no display has. *)
LEMMA NextIdFresh ==
  ASSUME Numbered
  PROVE  LET id == Cardinality(DOMAIN mDisplays)
         IN  /\ id \in Nat /\ id \notin DOMAIN mDisplays
             /\ DOMAIN mDisplays \cup {id} = 0 .. ((id + 1) - 1)
<1>1. PICK n \in Nat : DOMAIN mDisplays = 0 .. (n - 1)
  BY DEF Numbered
<1>2. Cardinality(0 .. (n - 1)) = n
  <2>1. CASE n = 0
    <3>1. 0 .. (n - 1) = {}
      BY <2>1
    <3>2. QED
      BY <2>1, <3>1, FS_EmptySet
  <2>2. CASE n # 0
    <3>1. Cardinality(0 .. (n - 1)) = IF 0 > n - 1 THEN 0 ELSE (n - 1) - 0 + 1
      BY FS_Interval
    <3>2. QED
      BY <2>2, <3>1
  <2>3. QED
    BY <2>1, <2>2
<1>3. n \notin 0 .. (n - 1) /\ 0 .. (n - 1) \cup {n} = 0 .. ((n + 1) - 1)
  OBVIOUS
<1>4. QED
  BY <1>1, <1>2, <1>3

(* The turn that makes a display preserves Inv: what is bound before stays *)
(* bound to the same display, because BindToDisplay refuses a bound CRTC.  *)
LEMMA AddDisplayStep ==
  ASSUME Inv, NEW k \in Connectors, AddDisplay(k)
  PROVE  Inv'
<1> DEFINE id == Cardinality(DOMAIN mDisplays)
<1>0. PICK c \in PickIdleCrtcId(k), gfx \in {"gfx" \in Faults, FALSE},
           frame \in {"frame" \in Faults, FALSE} : MakeDisplay(k, c, gfx, frame)
  BY DEF AddDisplay
<1> DEFINE planes == IF gfx THEN {} ELSE GetDrmPlane(Pipe(c))
<1> DEFINE stage == InitStage(k, c, planes, gfx, frame)
<1>1. /\ mDisplayId' = [mDisplayId EXCEPT ![c] = IF Bound(stage) THEN id ELSE @]
      /\ mDisplays' = [i \in DOMAIN mDisplays \cup {id} |->
                         IF i = id
                         THEN [connector |-> k, crtc |-> c, stage |-> stage, planes |-> planes]
                         ELSE mDisplays[i]]
  BY <1>0 DEF MakeDisplay
<1>2. UNCHANGED mCrtcs
  BY DEF AddDisplay, found
<1>3. id \in Nat /\ id \notin DOMAIN mDisplays
  BY NextIdFresh DEF Inv
<1>4. DOMAIN mDisplays \cup {id} = 0 .. ((id + 1) - 1)
  BY NextIdFresh DEF Inv
<1>5. c \in Crtcs
  BY <1>0, PickFound DEF Inv, Numbered
<1>6. Bound(stage) => mDisplayId[c] = Nobody
  BY DEF InitStage, Bound, CanBind
<1> HIDE DEF id, planes, stage
<1>7. /\ DOMAIN mDisplays' = DOMAIN mDisplays \cup {id}
      /\ mDisplays'[id].crtc = c /\ mDisplays'[id].stage = stage
      /\ \A d \in DOMAIN mDisplays : mDisplays'[d] = mDisplays[d]
  BY <1>1, <1>3
<1>8. /\ mDisplayId'[c] = IF Bound(stage) THEN id ELSE mDisplayId[c]
      /\ \A x \in Crtcs \ {c} : mDisplayId'[x] = mDisplayId[x]
  BY <1>1, <1>5 DEF Inv, Numbered
<1>9. Numbered'
  <2>1. mDisplayId' \in [Crtcs -> Nat \cup {Nobody}]
    BY <1>1, <1>3 DEF Inv, Numbered
  <2>2. id + 1 \in Nat /\ DOMAIN mDisplays' = 0 .. ((id + 1) - 1)
    BY <1>3, <1>4, <1>7
  <2>3. \A d \in DOMAIN mDisplays' : mDisplays'[d].crtc \in Crtcs
    BY <1>5, <1>7 DEF Inv, Numbered
  <2>4. QED
    BY <1>2, <2>1, <2>2, <2>3 DEF Inv, Numbered
<1>10. ASSUME NEW x \in Crtcs, mDisplayId'[x] # Nobody
       PROVE  mDisplayId'[x] \in DOMAIN mDisplays' /\ mDisplays'[mDisplayId'[x]].crtc = x
  <2>1. CASE x = c /\ Bound(stage)
    BY <1>7, <1>8, <2>1
  <2>2. CASE ~(x = c /\ Bound(stage))
    <3>1. mDisplayId'[x] = mDisplayId[x]
      BY <1>8, <2>2
    <3>2. mDisplayId[x] \in DOMAIN mDisplays /\ mDisplays[mDisplayId[x]].crtc = x
      BY <1>10, <3>1 DEF Inv, BindingsAgree
    <3>3. QED
      BY <1>7, <3>1, <3>2
  <2>3. QED
    BY <2>1, <2>2
<1>11. ASSUME NEW d \in DOMAIN mDisplays', Bound(mDisplays'[d].stage)
       PROVE  mDisplayId'[mDisplays'[d].crtc] = d
  <2>1. CASE d = id
    BY <1>7, <1>8, <1>11, <2>1
  <2>2. CASE d \in DOMAIN mDisplays
    <3>1. mDisplays'[d] = mDisplays[d] /\ mDisplayId[mDisplays[d].crtc] = d
      BY <1>7, <1>11, <2>2 DEF Inv, BindingsAgree
    <3>2. mDisplays[d].crtc \in Crtcs /\ d # Nobody
      BY <2>2, DiscoveryAssumption DEF Inv, Numbered
    <3>3. mDisplays[d].crtc = c => ~Bound(stage)
      BY <1>6, <3>1, <3>2
    <3>4. QED
      BY <1>8, <3>1, <3>2, <3>3
  <2>3. QED
    BY <1>7, <2>1, <2>2
<1>12. QED
  BY <1>9, <1>10, <1>11 DEF Inv, BindingsAgree

(* The numbering of the displays and their bindings hold in every state.   *)
LEMMA InvInvariant ==
  (Init => Inv) /\ (Inv /\ [Next]_vars => Inv')
<1>1. Init => Inv
  <2>1. SUFFICES ASSUME Init PROVE Inv
    OBVIOUS
  <2>2. mCrtcs = {} /\ mDisplayId = [c \in Crtcs |-> Nobody] /\ DOMAIN mDisplays = {}
    BY <2>1 DEF Init
  <2>3. {} = 0 .. (0 - 1)
    OBVIOUS
  <2>4. QED
    BY <2>2, <2>3 DEF Inv, Numbered, BindingsAgree
<1>2. Inv /\ [Next]_vars => Inv'
  <2>1. SUFFICES ASSUME Inv, [Next]_vars PROVE Inv'
    OBVIOUS
  <2>2. ASSUME UNCHANGED <<mDisplayId, mDisplays>>, mCrtcs' \subseteq Crtcs PROVE Inv'
    BY <2>1, <2>2 DEF Inv, Numbered, BindingsAgree
  <2>3. mCrtcs \subseteq Crtcs
    BY <2>1 DEF Inv, Numbered
  <2>4. CASE DiscoveryDeviceFails
    BY <2>2, <2>3, <2>4 DEF DiscoveryDeviceFails, found
  <2>5. CASE FindAll
    BY <2>2, <2>5 DEF FindAll
  <2>6. CASE \E k \in Connectors : AddDisplay(k)
    BY <2>1, <2>6, AddDisplayStep
  <2>7. CASE \E k \in Connectors : SkipConnector(k)
    BY <2>2, <2>3, <2>7 DEF SkipConnector, found
  <2>8. CASE DiscoveryDone
    BY <2>2, <2>3, <2>8 DEF DiscoveryDone, found
  <2>9. CASE \E cb \in Callbacks : RegHotPlugCallback(cb)
    BY <2>2, <2>3, <2>9 DEF RegHotPlugCallback, found
  <2>10. CASE UNCHANGED vars
    BY <2>2, <2>3, <2>10 DEF vars, found
  <2>11. QED
    BY <2>1, <2>4, <2>5, <2>6, <2>7, <2>8, <2>9, <2>10 DEF Next
<1>3. QED
  BY <1>1, <1>2

(* However the kernel's objects are wired, whichever of them cannot be     *)
(* read and whichever step of DrmDisplay::Init fails, a bound CRTC belongs *)
(* to exactly the display that says so.                                    *)
THEOREM BindingsAgreeAlways == Spec => []BindingsAgree
<1>1. Inv => BindingsAgree
  BY DEF Inv
<1>2. QED
  BY <1>1, InvInvariant, PTL DEF Spec

-----------------------------------------------------------------------------
(* A CRTC with the right pipe can be reached from a connector. *)
Reaches(k, c) ==
  \E e \in mEncoders \cap topo.encodersOf[k] : Pipe(c) \in topo.pipesOf[e]

(* No idle CRTC can be reached from a connector. *)
NothingIdle(k) ==
  \A e \in mEncoders \cap topo.encodersOf[k], c \in mCrtcs :
    Pipe(c) \in topo.pipesOf[e] => ~CanBind(c)

(* What the loop has done so far: each display belongs to a connector that *)
(* was visited, different displays to different ones, and a visited        *)
(* connector without a display had nothing idle to use.                    *)
LoopInv ==
  /\ pc \in {"start", "travel", "done"}
  /\ topo \in Topologies
  /\ mEncoders \subseteq Encoders /\ mPlanes \subseteq Planes
  /\ mConnectors \subseteq topo.connected
  /\ todo \subseteq mConnectors
  /\ pc = "start" => mConnectors = {} /\ DOMAIN mDisplays = {}
  /\ pc = "done" => todo = {}
  /\ \A d \in DOMAIN mDisplays :
       /\ mDisplays[d].connector \in mConnectors \ todo
       /\ Reaches(mDisplays[d].connector, mDisplays[d].crtc)
       /\ \A p \in mDisplays[d].planes :
            p \in Planes /\ Pipe(mDisplays[d].crtc) \in topo.plane[p].pipes
  /\ \A d, e \in DOMAIN mDisplays :
       d # e => mDisplays[d].connector # mDisplays[e].connector
  /\ \A k \in mConnectors \ todo :
       (\E d \in DOMAIN mDisplays : mDisplays[d].connector = k) \/ NothingIdle(k)

(* Nobody registers before the displays are known, and a callback that is  *)
(* not registered has been told nothing.                                   *)
ToldInv ==
  /\ mHotPlugCallBacks \subseteq Callbacks
  /\ pc # "done" => mHotPlugCallBacks = {}
  /\ \A c \in Callbacks \ mHotPlugCallBacks : told[c] = {}
  /\ EveryDisplayAnnounced

WholeInv == Inv /\ LoopInv /\ ToldInv

(* What an encoder picks, it can drive: the CRTC the kernel drives it with *)
(* is one it can use, and an idle one passed the test of the mask.         *)
LEMMA EncoderPickDrives ==
  ASSUME topo \in Topologies, mCrtcs \subseteq Crtcs,
         NEW e \in Encoders, NEW c \in EncoderPickIdleCrtcId(e)
  PROVE  Pipe(c) \in topo.pipesOf[e]
<1>1. CASE KernelCrtc(e) \in mCrtcs
  <2> DEFINE users == {k \in Connectors : topo.lit[k].encoder = e}
  <2>1. c = KernelCrtc(e) /\ c \in Crtcs
    BY <1>1 DEF EncoderPickIdleCrtcId
  <2>2. c # 0
    BY <2>1, DiscoveryAssumption DEF Crtcs
  <2>3. users # {} /\ c = topo.lit[CHOOSE k \in users : TRUE].crtc
    BY <2>1, <2>2 DEF KernelCrtc
  <2>4. PICK k \in users : c = topo.lit[k].crtc
    BY <2>3
  <2>5. topo.lit[k].encoder = e /\ topo.lit[k] # Dark
    BY <2>4, DiscoveryAssumption DEF Dark
  <2>6. KernelConsistent(topo)
    BY DiscoveryAssumption
  <2>7. Pipe(topo.lit[k].crtc) \in topo.pipesOf[topo.lit[k].encoder]
    BY <2>4, <2>5, <2>6 DEF KernelConsistent
  <2>8. QED
    BY <2>4, <2>5, <2>7
<1>2. CASE KernelCrtc(e) \notin mCrtcs
  BY <1>2 DEF EncoderPickIdleCrtcId
<1>3. QED
  BY <1>1, <1>2

(* What a connector picks can be reached from it. *)
LEMMA PickReaches ==
  ASSUME topo \in Topologies, mCrtcs \subseteq Crtcs, mEncoders \subseteq Encoders,
         NEW k \in Connectors, NEW c \in PickIdleCrtcId(k)
  PROVE  Reaches(k, c)
<1>1. \A e : c \in TryPickEncoder(e) => e \in mEncoders /\ Pipe(c) \in topo.pipesOf[e]
  BY EncoderPickDrives DEF TryPickEncoder
<1>2. CASE c \in TryPickEncoder(topo.lit[k].encoder)
  <2>1. topo.lit[k].encoder \in Encoders
    BY <1>1, <1>2
  <2>2. topo.lit[k] # Dark
    BY <2>1, DiscoveryAssumption DEF Dark
  <2>3. topo.lit[k].encoder \in topo.encodersOf[k]
    BY <2>2, DiscoveryAssumption DEF KernelConsistent
  <2>4. QED
    BY <1>1, <1>2, <2>3 DEF Reaches
<1>3. CASE \E e \in topo.encodersOf[k] : c \in TryPickEncoder(e)
  BY <1>1, <1>3 DEF Reaches
<1>4. QED
  BY <1>2, <1>3 DEF PickIdleCrtcId

(* A connector that picks nothing had nothing idle to pick. *)
LEMMA PickNothing ==
  ASSUME NEW k, PickIdleCrtcId(k) = {}
  PROVE  NothingIdle(k)
<1>1. SUFFICES ASSUME NEW e \in mEncoders \cap topo.encodersOf[k], NEW c \in mCrtcs,
                      Pipe(c) \in topo.pipesOf[e], CanBind(c)
               PROVE  FALSE
  BY DEF NothingIdle
<1>2. TryPickEncoder(e) # {}
  BY <1>1 DEF TryPickEncoder, EncoderPickIdleCrtcId
<1>3. QED
  BY <1>1, <1>2 DEF PickIdleCrtcId

(* The turn that makes a display adds one display, of the connector of     *)
(* this turn, and frees no CRTC.                                           *)
LEMMA AddDisplayFacts ==
  ASSUME WholeInv, NEW k \in Connectors, AddDisplay(k)
  PROVE  \E id, c, planes :
           /\ id \notin DOMAIN mDisplays
           /\ DOMAIN mDisplays' = DOMAIN mDisplays \cup {id}
           /\ mDisplays'[id].connector = k
           /\ mDisplays'[id].crtc = c
           /\ mDisplays'[id].planes = planes
           /\ \A d \in DOMAIN mDisplays : mDisplays'[d] = mDisplays[d]
           /\ Reaches(k, c)
           /\ \A p \in planes : p \in mPlanes /\ Pipe(c) \in topo.plane[p].pipes
           /\ \A x \in Crtcs : mDisplayId[x] # Nobody => mDisplayId'[x] # Nobody
<1> DEFINE id == Cardinality(DOMAIN mDisplays)
<1>0. PICK c \in PickIdleCrtcId(k), gfx \in {"gfx" \in Faults, FALSE},
           frame \in {"frame" \in Faults, FALSE} : MakeDisplay(k, c, gfx, frame)
  BY DEF AddDisplay
<1> DEFINE planes == IF gfx THEN {} ELSE GetDrmPlane(Pipe(c))
<1> DEFINE stage == InitStage(k, c, planes, gfx, frame)
<1>1. /\ mDisplayId' = [mDisplayId EXCEPT ![c] = IF Bound(stage) THEN id ELSE @]
      /\ mDisplays' = [i \in DOMAIN mDisplays \cup {id} |->
                         IF i = id
                         THEN [connector |-> k, crtc |-> c, stage |-> stage, planes |-> planes]
                         ELSE mDisplays[i]]
  BY <1>0 DEF MakeDisplay
<1>2. id \in Nat /\ id \notin DOMAIN mDisplays
  BY NextIdFresh DEF WholeInv, Inv
<1>3. Reaches(k, c)
  BY <1>0, PickReaches DEF WholeInv, Inv, Numbered, LoopInv
<1>4. \A p \in planes : p \in mPlanes /\ Pipe(c) \in topo.plane[p].pipes
  BY DEF GetDrmPlane
<1> HIDE DEF id, planes, stage
<1>5. id # Nobody /\ DOMAIN mDisplayId = Crtcs
  BY <1>2, DiscoveryAssumption DEF WholeInv, Inv, Numbered
<1>6. \A x \in Crtcs : mDisplayId[x] # Nobody => mDisplayId'[x] # Nobody
  BY <1>1, <1>5
<1>7. /\ DOMAIN mDisplays' = DOMAIN mDisplays \cup {id}
      /\ mDisplays'[id].connector = k /\ mDisplays'[id].crtc = c
      /\ mDisplays'[id].planes = planes
      /\ \A d \in DOMAIN mDisplays : mDisplays'[d] = mDisplays[d]
  BY <1>1, <1>2
<1>8. QED
  BY <1>2, <1>3, <1>4, <1>6, <1>7

(* The turn that makes a display preserves what the loop has done. *)
LEMMA AddDisplayLoop ==
  ASSUME WholeInv, NEW k \in Connectors, AddDisplay(k)
  PROVE  LoopInv'
<1>1. PICK id, c, planes :
        /\ id \notin DOMAIN mDisplays
        /\ DOMAIN mDisplays' = DOMAIN mDisplays \cup {id}
        /\ mDisplays'[id].connector = k
        /\ mDisplays'[id].crtc = c
        /\ mDisplays'[id].planes = planes
        /\ \A d \in DOMAIN mDisplays : mDisplays'[d] = mDisplays[d]
        /\ Reaches(k, c)
        /\ \A p \in planes : p \in mPlanes /\ Pipe(c) \in topo.plane[p].pipes
        /\ \A x \in Crtcs : mDisplayId[x] # Nobody => mDisplayId'[x] # Nobody
  BY AddDisplayFacts
<1>2. /\ pc = "travel" /\ k \in todo /\ todo' = todo \ {k}
      /\ UNCHANGED <<pc, topo, mCrtcs, mEncoders, mConnectors, mPlanes>>
  BY DEF AddDisplay, found
<1>3. LoopInv
  BY DEF WholeInv
<1>4. \A j, x : Reaches(j, x) => Reaches(j, x)'
  BY <1>2 DEF Reaches
<1>5. mCrtcs \subseteq Crtcs
  BY DEF WholeInv, Inv, Numbered
<1>6. \A j : NothingIdle(j) => NothingIdle(j)'
  BY <1>1, <1>2, <1>5 DEF NothingIdle, CanBind
<1>7. ASSUME NEW d \in DOMAIN mDisplays'
      PROVE  /\ mDisplays'[d].connector \in mConnectors' \ todo'
             /\ Reaches(mDisplays[d].connector, mDisplays[d].crtc)'
             /\ \A p \in mDisplays'[d].planes :
                  p \in Planes /\ Pipe(mDisplays'[d].crtc) \in topo'.plane[p].pipes
  <2>1. CASE d = id
    <3>1. Reaches(k, c)'
      BY <1>1, <1>4
    <3>2. Reaches(mDisplays[d].connector, mDisplays[d].crtc)'
      BY <1>1, <2>1, <3>1 DEF Reaches
    <3>3. QED
      BY <1>1, <1>2, <1>3, <2>1, <3>2 DEF LoopInv
  <2>2. CASE d \in DOMAIN mDisplays
    <3>1. mDisplays'[d] = mDisplays[d]
      BY <1>1, <2>2
    <3>2. Reaches(mDisplays[d].connector, mDisplays[d].crtc)'
      BY <1>2, <1>3, <2>2, <3>1 DEF Reaches, LoopInv
    <3>3. QED
      BY <1>2, <1>3, <2>2, <3>1, <3>2 DEF LoopInv
  <2>3. QED
    BY <1>1, <2>1, <2>2
<1>8. ASSUME NEW d \in DOMAIN mDisplays', NEW e \in DOMAIN mDisplays', d # e
      PROVE  mDisplays'[d].connector # mDisplays'[e].connector
  <2>1. \A i \in DOMAIN mDisplays : mDisplays'[i].connector # k
    BY <1>1, <1>2, <1>3 DEF LoopInv
  <2>2. CASE d \in DOMAIN mDisplays /\ e \in DOMAIN mDisplays
    BY <1>1, <1>3, <1>8, <2>2 DEF LoopInv
  <2>3. QED
    BY <1>1, <1>8, <2>1, <2>2
<1>9. ASSUME NEW j \in mConnectors' \ todo'
      PROVE  (\E d \in DOMAIN mDisplays' : mDisplays'[d].connector = j) \/ NothingIdle(j)'
  <2>1. CASE j = k
    BY <1>1, <2>1
  <2>2. CASE j # k
    <3>1. (\E d \in DOMAIN mDisplays : mDisplays[d].connector = j) \/ NothingIdle(j)
      BY <1>2, <1>3, <2>2 DEF LoopInv
    <3>2. QED
      BY <1>1, <1>6, <3>1
  <2>3. QED
    BY <2>1, <2>2
<1>10. QED
  BY <1>2, <1>3, <1>7, <1>8, <1>9 DEF LoopInv

(* Registering tells the callbacks about every display: all displays are   *)
(* of connected connectors.                                                *)
LEMMA RegisterTold ==
  ASSUME WholeInv, NEW cb \in Callbacks, RegHotPlugCallback(cb)
  PROVE  ToldInv'
<1>1. /\ pc = "done" /\ mHotPlugCallBacks' = mHotPlugCallBacks \cup {cb}
      /\ told' = [c \in Callbacks |->
                    IF c \in mHotPlugCallBacks'
                    THEN told[c] \cup {d \in DOMAIN mDisplays :
                                         mDisplays[d].connector \in topo.connected}
                    ELSE told[c]]
      /\ UNCHANGED <<pc, mDisplays>>
  BY DEF RegHotPlugCallback
<1>2. {d \in DOMAIN mDisplays : mDisplays[d].connector \in topo.connected} = DOMAIN mDisplays
  BY DEF WholeInv, LoopInv
<1>3. \A c \in mHotPlugCallBacks' : told'[c] = told[c] \cup DOMAIN mDisplays
  BY <1>1, <1>2 DEF WholeInv, ToldInv
<1>4. \A c \in Callbacks : told[c] = {} \/ told[c] = DOMAIN mDisplays
  BY DEF WholeInv, ToldInv, EveryDisplayAnnounced
<1>5. EveryDisplayAnnounced'
  <2>1. mHotPlugCallBacks' \subseteq Callbacks
    BY <1>1 DEF WholeInv, ToldInv
  <2>2. \A c \in mHotPlugCallBacks' : told'[c] = DOMAIN mDisplays
    <3>1. SUFFICES ASSUME NEW c \in mHotPlugCallBacks' PROVE told'[c] = DOMAIN mDisplays
      OBVIOUS
    <3>2. told'[c] = told[c] \cup DOMAIN mDisplays
      BY <1>3
    <3>3. told[c] = {} \/ told[c] = DOMAIN mDisplays
      BY <1>4, <2>1
    <3>4. QED
      BY <3>2, <3>3
  <2>3. mDisplays' = mDisplays
    BY <1>1
  <2>4. QED
    BY <2>2, <2>3, Zenon DEF EveryDisplayAnnounced
<1>6. \A c \in Callbacks \ mHotPlugCallBacks' : told'[c] = {}
  BY <1>1 DEF WholeInv, ToldInv
<1>7. QED
  BY <1>1, <1>5, <1>6 DEF WholeInv, ToldInv

(* The initial states satisfy the invariant. *)
LEMMA InitWhole == Init => LoopInv /\ ToldInv
BY DiscoveryAssumption
   DEF Init, LoopInv, ToldInv, EveryDisplayAnnounced, TopologyTypes

(* Every step preserves it. *)
LEMMA NextWhole ==
  ASSUME WholeInv, [Next]_vars
  PROVE  LoopInv' /\ ToldInv'
<1>0. LoopInv /\ ToldInv
  BY DEF WholeInv
<1>1. ASSUME UNCHANGED <<topo, mCrtcs, mEncoders, mConnectors, mPlanes, mDisplayId, mDisplays>>
      PROVE  /\ \A k, c : Reaches(k, c)' <=> Reaches(k, c)
             /\ \A k : NothingIdle(k)' <=> NothingIdle(k)
             /\ \A d \in DOMAIN mDisplays :
                  Reaches(mDisplays[d].connector, mDisplays[d].crtc)'
                    <=> Reaches(mDisplays[d].connector, mDisplays[d].crtc)
  BY <1>1 DEF Reaches, NothingIdle, CanBind
<1>2. CASE DiscoveryDeviceFails
  BY <1>0, <1>1, <1>2
     DEF DiscoveryDeviceFails, found, LoopInv, ToldInv, EveryDisplayAnnounced
<1>3. CASE FindAll
  <2>1. DOMAIN mDisplays = {} /\ UNCHANGED <<topo, mDisplays, mHotPlugCallBacks, told>>
    BY <1>0, <1>3 DEF FindAll, LoopInv
  <2>2. /\ mEncoders' \subseteq Encoders /\ mPlanes' \subseteq Planes
        /\ mConnectors' \subseteq topo.connected /\ todo' = mConnectors'
        /\ pc = "start" /\ pc' = "travel"
    BY <1>3 DEF FindAll
  <2>3. QED
    BY <1>0, <2>1, <2>2 DEF LoopInv, ToldInv, EveryDisplayAnnounced
<1>4. ASSUME NEW k \in Connectors, AddDisplay(k) PROVE LoopInv' /\ ToldInv'
  <2>1. pc # "done" /\ UNCHANGED <<pc, mHotPlugCallBacks, told>>
    BY <1>4 DEF AddDisplay
  <2>2. ToldInv'
    BY <1>0, <2>1 DEF ToldInv, EveryDisplayAnnounced
  <2>3. QED
    BY <1>4, <2>2, AddDisplayLoop
<1>5. ASSUME NEW k \in Connectors, SkipConnector(k) PROVE LoopInv' /\ ToldInv'
  <2>1. /\ pc = "travel" /\ todo' = todo \ {k}
        /\ UNCHANGED <<pc, topo, mCrtcs, mEncoders, mConnectors, mPlanes, mDisplayId, mDisplays,
                       mHotPlugCallBacks, told>>
    BY <1>5 DEF SkipConnector, found
  <2>2. NothingIdle(k)
    BY <1>5, PickNothing DEF SkipConnector
  <2>3. \A j \in mConnectors' \ todo' :
          (\E d \in DOMAIN mDisplays : mDisplays[d].connector = j) \/ NothingIdle(j)
    BY <1>0, <2>1, <2>2 DEF LoopInv
  <2>4. QED
    BY <1>0, <1>1, <2>1, <2>3 DEF LoopInv, ToldInv, EveryDisplayAnnounced
<1>6. CASE DiscoveryDone
  BY <1>0, <1>1, <1>6 DEF DiscoveryDone, found, LoopInv, ToldInv, EveryDisplayAnnounced
<1>7. ASSUME NEW cb \in Callbacks, RegHotPlugCallback(cb) PROVE LoopInv' /\ ToldInv'
  <2>1. UNCHANGED <<pc, topo, mCrtcs, mEncoders, mConnectors, mPlanes, todo, mDisplayId, mDisplays>>
    BY <1>7 DEF RegHotPlugCallback, found
  <2>2. LoopInv'
    BY <1>0, <1>1, <2>1 DEF LoopInv
  <2>3. QED
    BY <1>7, <2>2, RegisterTold
<1>8. CASE UNCHANGED vars
  BY <1>0, <1>1, <1>8 DEF vars, found, LoopInv, ToldInv, EveryDisplayAnnounced
<1>9. QED
  BY <1>2, <1>3, <1>4, <1>5, <1>6, <1>7, <1>8 DEF Next

(* The invariant holds in every state of every run. *)
LEMMA WholeInvariant == Spec => []WholeInv
<1>1. Init => WholeInv
  BY InvInvariant, InitWhole DEF WholeInv
<1>2. WholeInv /\ [Next]_vars => WholeInv'
  BY InvInvariant, NextWhole DEF WholeInv
<1>3. QED
  BY <1>1, <1>2, PTL DEF Spec

(* Whatever the kernel lit at boot and whatever cannot be read, the CRTC   *)
(* that DrmConnector::PickIdleCrtcId chose for a display can be driven by  *)
(* an encoder of its connector.                                            *)
THEOREM CrtcReachableAlways == Spec => []CrtcReachable
<1>1. WholeInv => CrtcReachable
  BY DEF WholeInv, LoopInv, CrtcReachable, Reaches
<1>2. QED
  BY <1>1, WholeInvariant, PTL

(* In whichever order DiscoveryDisplay visits the connectors, at the end   *)
(* one without a display has no idle CRTC it could use.                    *)
THEOREM NoCrtcWastedAlways == Spec => []NoCrtcWasted
<1>1. WholeInv => NoCrtcWasted
  BY DEF WholeInv, LoopInv, NoCrtcWasted, NothingIdle
<1>2. QED
  BY <1>1, WholeInvariant, PTL

(* Two members of a finite set of at most one element are equal. *)
LEMMA AtMostOneEqual ==
  ASSUME NEW S, IsFiniteSet(S), Cardinality(S) <= 1, NEW a \in S, NEW b \in S
  PROVE  a = b
<1>1. SUFFICES ASSUME a # b PROVE FALSE
  OBVIOUS
<1>2. IsFiniteSet({a}) /\ Cardinality({a}) = 1
  BY FS_Singleton
<1>3. {a} \subseteq S /\ {a} # S
  BY <1>1
<1>4. Cardinality({a}) <= Cardinality(S) /\ Cardinality(S) # Cardinality({a})
  BY <1>3, FS_Subset, Zenon
<1>5. Cardinality(S) \in Nat
  BY FS_CardinalityType
<1>6. QED
  BY <1>2, <1>4, <1>5

(* On hardware where every output has its own encoder, pipe and planes,    *)
(* any number of displays present through CRTCs and planes of their own:   *)
(* connectors differ, so encoders, pipes and CRTCs do.                     *)
THEOREM DedicatedExclusiveAlways == Spec => []DedicatedExclusive
<1>1. ASSUME WholeInv PROVE DedicatedExclusive
  <2>1. SUFFICES ASSUME Dedicated(topo), NEW d \in DOMAIN mDisplays,
                        NEW e \in DOMAIN mDisplays, d # e
                 PROVE  /\ mDisplays[d].crtc # mDisplays[e].crtc
                        /\ mDisplays[d].planes \cap mDisplays[e].planes = {}
    BY DEF DedicatedExclusive
  <2> DEFINE j == mDisplays[d].connector
             k == mDisplays[e].connector
             b == mDisplays[d].crtc
             c == mDisplays[e].crtc
  <2>2. j # k /\ j \in Connectors /\ k \in Connectors
    BY <1>1, <2>1, DiscoveryAssumption DEF WholeInv, LoopInv, TopologyTypes
  <2>3. topo \in TopologyTypes /\ b \in Crtcs /\ c \in Crtcs
    BY <1>1, <2>1, DiscoveryAssumption DEF WholeInv, LoopInv, Inv, Numbered
  <2>4. PICK x \in mEncoders \cap topo.encodersOf[j] : Pipe(b) \in topo.pipesOf[x]
    BY <1>1, <2>1 DEF WholeInv, LoopInv, Reaches
  <2>5. PICK y \in mEncoders \cap topo.encodersOf[k] : Pipe(c) \in topo.pipesOf[y]
    BY <1>1, <2>1 DEF WholeInv, LoopInv, Reaches
  <2>6. x # y /\ x \in Encoders /\ y \in Encoders
    BY <1>1, <2>1, <2>2, <2>4, <2>5 DEF WholeInv, LoopInv, Dedicated
  <2>7. Pipe(b) # Pipe(c)
    BY <2>1, <2>4, <2>5, <2>6 DEF Dedicated
  <2>8. b # c
    BY <2>7
  <2>9. ASSUME NEW p \in mDisplays[d].planes, p \in mDisplays[e].planes PROVE FALSE
    <3>1. /\ p \in Planes /\ Pipe(b) \in topo.plane[p].pipes
          /\ Pipe(c) \in topo.plane[p].pipes
      BY <1>1, <2>1, <2>9 DEF WholeInv, LoopInv
    <3>2. Cardinality(topo.plane[p].pipes) <= 1
      BY <2>1, <3>1 DEF Dedicated
    <3>3. topo.plane[p].pipes \subseteq 0 .. (NCrtcs - 1)
      BY <2>3, <3>1 DEF TopologyTypes, Pipes
    <3>4. IsFiniteSet(0 .. (NCrtcs - 1))
      BY DiscoveryAssumption, FS_Interval
    <3>5. IsFiniteSet(topo.plane[p].pipes)
      BY <3>3, <3>4, FS_Subset
    <3>6. QED
      BY <2>7, <3>1, <3>2, <3>5, AtMostOneEqual
  <2>10. QED
    BY <2>8, <2>9
<1>2. QED
  BY <1>1, WholeInvariant, PTL

(* Whenever it registers, a client hears of every display and of no other, *)
(* the ones whose Init failed included.                                    *)
THEOREM EveryDisplayAnnouncedAlways == Spec => []EveryDisplayAnnounced
<1>1. WholeInv => EveryDisplayAnnounced
  BY DEF WholeInv, ToldInv
<1>2. QED
  BY <1>1, WholeInvariant, PTL
=============================================================================
