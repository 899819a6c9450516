------------------------------ MODULE DrmCommit ------------------------------
(***************************************************************************)
(* One frame through the DRM back end: HdiDisplay::Commit,                 *)
(* HdiDrmComposition::Apply and the DrmGemBuffer objects behind the client *)
(* layer and the cursor layer.  Every frame wraps the layer's buffer in a  *)
(* new DrmGemBuffer (GEM handle + framebuffer id); the layer owns the last *)
(* two of them, and the composition keeps raw pointers to them so that it  *)
(* can release the one that has left the screen.                           *)
(*                                                                         *)
(* Apply runs on one thread; its stages are separate actions, told apart   *)
(* by pc, because each may fail on its own.  The setup chosen by Init says *)
(* which calls may fail, what the pipe has and what the caller asks for.   *)
(* The kernel's tables (handles, fbs, screen) are modelled from how the    *)
(* code uses them.                                                         *)
(***************************************************************************)
EXTENDS Integers, Sequences, FiniteSets, FiniteSetsExt

CONSTANTS
  Buffers,         \* dma-bufs a caller may present
  FirstBuffer,     \* the buffer PushFirstFrame allocates
  Modes,           \* mode ids of the connector
  Setups,          \* the combinations Init may choose from, see CommitAssumption
  MaxCursorFences  \* fences on the cursor layer, which nobody takes, are counted up to this

FaultKinds  == {"prop", "import", "addfb", "blob", "commit", "dpms"}
PowerStates == {"ON", "STANDBY", "SUSPEND", "OFF"}

(* faults: kernel calls that may fail; cursorPlanes: planes of type CURSOR *)
(* bound to the pipe; modes: mode ids the caller may ask for, known to the *)
(* connector or not; power: states it may ask for; dpms: the state that    *)
(* DrmConnector::Init reads.                                               *)
ASSUME CommitAssumption ==
  /\ Modes \subseteq Nat /\ Modes # {}
  /\ \A s \in Setups :
       /\ s.faults \subseteq FaultKinds
       /\ s.cursorPlanes \in Nat
       /\ s.modes \subseteq Nat
       /\ s.power \subseteq PowerStates
       /\ s.dpms \in PowerStates
  /\ MaxCursorFences \in Nat

Null      == 0                   \* nullptr, INVALID_DRM_ID, no framebuffer
Layers    == {"client", "cursor"}
AllBuffers == Buffers \cup {FirstBuffer}
MaxIds     == 5                  \* two owned objects per layer and one new
FenceRing == 3                   \* out-fences are numbered modulo FenceRing
NoFence   == FenceRing           \* the descriptor -1
NoMode    == -1                  \* INVALID_MODE_ID
Absent    == MaxIds + 1      \* the request does not set FB_ID

VARIABLES
  pc,             \* stage of Apply, "rest" between calls, "off" before Init
  firstFrame,     \* Apply was entered from PushFirstFrame
  layerBuffer,    \* per layer: mHdiBuffer
  cursorLayers,   \* mCursorLayers holds the cursor layer
  isAnimationEnd, \* boot animation seen to have ended
  plane,          \* cursor planes done so far in this Apply
  mCurrentBuffer, lastBuffer,            \* per layer: the two objects it owns
  mLastGemBuffer, mCurrentGemBuffer,     \* per layer: raw pointers of the composition,
                                         \* told apart by what they point to
  req,            \* per layer: FB_ID of the atomic request, and whether it sets CRTC_ID
  mActiveModeId, mNeedModeSet,           \* DrmCrtc
  handles, fbs,   \* kernel: GEM handle -> dma-buf, framebuffer id -> dma-buf
  screen,         \* kernel: framebuffer each plane scans out
  kernelMode,     \* kernel: mode of the CRTC
  kernelActive,   \* kernel: the CRTC is running
  mDpmsState,     \* DrmConnector: the power state reported to the caller
  outFence,       \* kernel: number of the last out-fence
  releaseFences,  \* client layer's queue
  cursorFences,   \* length of the cursor layer's queue
  fence,          \* the fence the last Commit returned
  dangling,       \* a destroyed DrmGemBuffer was released
  setup           \* chosen by Init

Faults         == setup.faults
CursorPlanes   == setup.cursorPlanes
RequestedModes == setup.modes

objVars    == <<mCurrentBuffer, lastBuffer>>
ptrVars    == <<mLastGemBuffer, mCurrentGemBuffer>>
kernelVars == <<handles, fbs, screen>>
modeVars   == <<mActiveModeId, mNeedModeSet, kernelMode, kernelActive, mDpmsState>>
fenceVars  == <<outFence, releaseFences, cursorFences, fence>>
inputVars  == <<layerBuffer, cursorLayers>>
vars == <<pc, firstFrame, inputVars, isAnimationEnd, plane, objVars, ptrVars, req,
          kernelVars, modeVars, fenceVars, dangling, setup>>

-----------------------------------------------------------------------------
(***************************************************************************)
(* The kernel.  Ids are the smallest free ones, from 1 on.                 *)
(***************************************************************************)
FreeId(table) == Min((1 .. (MaxIds + 1)) \ DOMAIN table)
Put(table, i, b) == [j \in DOMAIN table \cup {i} |-> IF j = i THEN b ELSE table[j]]
Drop(table, i) == [j \in DOMAIN table \ {i} |-> table[j]]

(* drmPrimeFDToHandle: a dma-buf that is already imported keeps its handle. *)
HandleOf(b) == IF \E h \in DOMAIN handles : handles[h] = b
                 THEN CHOOSE h \in DOMAIN handles : handles[h] = b
                 ELSE FreeId(handles)

(* drmModeRmFB also switches off a plane that shows the framebuffer. *)
Blanked(fb) == [k \in Layers |-> IF screen[k] = fb THEN Null ELSE screen[k]]

-----------------------------------------------------------------------------
(***************************************************************************)
(* DrmGemBuffer.                                                           *)
(***************************************************************************)
Empty == [fb |-> Null, handle |-> Null]   \* a null unique_ptr: nothing to release

(* Where a raw pointer of layer k can point. *)
Pointers == {"null", "current", "last", "gone"}

(* Mutant: the framebuffer is left to the kernel. *)
RemoveKeepsFb(o, h, f) ==
  /\ handles' = Drop(h, o.handle)
  /\ fbs' = f
  /\ UNCHANGED screen

(* Mutant: the GEM handle is not closed. *)
RemoveKeepsHandle(o, h, f) ==
  /\ fbs' = Drop(f, o.fb)
  /\ screen' = IF o.fb \in DOMAIN f THEN Blanked(o.fb) ELSE screen
  /\ handles' = h

(* ~DrmGemBuffer and releaseBuffer make the same calls for an object o,    *)
(* here on the tables h and f: a zero id is passed over, an id the kernel  *)
(* does not know is an error that is only logged.                          *)
Remove(o, h, f) ==
  /\ fbs' = Drop(f, o.fb)
  /\ screen' = IF o.fb \in DOMAIN f THEN Blanked(o.fb) ELSE screen
  /\ handles' = Drop(h, o.handle)

(* What releaseBuffer leaves in the object: an id is forgotten only if the *)
(* kernel accepted its removal.                                            *)
Released(o) ==
  [fb     |-> IF o.fb \in DOMAIN fbs THEN Null ELSE o.fb,
   handle |-> IF o.handle \in DOMAIN handles THEN Null ELSE o.handle]

(* IsValid tests mFdId >= 0, which an unsigned id always satisfies. *)
IsValid(o) == o.handle # Null

(* A raw pointer of layer k after the layer has taken in a new object. *)
Shifted(p) == CASE p = "current" -> "last"
                [] p = "last"    -> "gone"
                [] OTHER         -> p

(* Mutant: the layer keeps only the newest object. *)
GetGemBufferKeepsOne(k, o, h, f) ==
  /\ Remove(mCurrentBuffer[k], h, f)
  /\ mCurrentBuffer' = [mCurrentBuffer EXCEPT ![k] = o]
  /\ mLastGemBuffer' = [mLastGemBuffer EXCEPT ![k] = IF @ = "current" THEN "gone" ELSE @]
  /\ mCurrentGemBuffer' = [mCurrentGemBuffer EXCEPT ![k] = "current"]
  /\ UNCHANGED lastBuffer

(***************************************************************************)
(* HdiDrmLayer::GetGemBuffer for layer k: o wraps the layer's buffer (h, f *)
(* are the kernel's tables after that), the current object is pushed down  *)
(* and the one below it destroyed.                                         *)
(***************************************************************************)
GetGemBuffer(k, o, h, f) ==
  /\ Remove(lastBuffer[k], h, f)
  /\ lastBuffer' = [lastBuffer EXCEPT ![k] = mCurrentBuffer[k]]
  /\ mCurrentBuffer' = [mCurrentBuffer EXCEPT ![k] = o]
  /\ mLastGemBuffer' = [mLastGemBuffer EXCEPT ![k] = Shifted(@)]
  /\ mCurrentGemBuffer' = [mCurrentGemBuffer EXCEPT ![k] = "current"]

(* DrmGemBuffer::Init fills in what the kernel grants: failed is the call  *)
(* that fails, if any.                                                     *)
GemInit(k, failed) ==
  LET handle == IF failed = "import" THEN Null ELSE HandleOf(layerBuffer[k])
      fb     == IF failed \in {"import", "addfb"} THEN Null ELSE FreeId(fbs)
  IN  GetGemBuffer(k, [fb |-> fb, handle |-> handle],
                   IF handle = Null THEN handles ELSE Put(handles, handle, layerBuffer[k]),
                   IF fb = Null THEN fbs ELSE Put(fbs, fb, layerBuffer[k]))

(***************************************************************************)
(* ApplyPlane and ApplyCursor.  "prop" is a property that cannot be added: *)
(* before the buffer is wrapped ("early"), FB_ID ("fbid") or CRTC_ID       *)
(* ("crtcid").                                                             *)
(***************************************************************************)
Failures == {"none"} \cup (Faults \cap {"import", "addfb"})
                     \cup (IF "prop" \in Faults THEN {"early", "fbid", "crtcid"} ELSE {})

ApplyTo(k, failed) ==
  IF failed = "early"
    THEN UNCHANGED <<objVars, ptrVars, kernelVars, req>>
    ELSE LET o == mCurrentBuffer'[k]
         IN  /\ GemInit(k, failed)
             /\ req' = IF ~IsValid(o) \/ failed = "fbid" THEN req
                       ELSE [req EXCEPT ![k] = [fb |-> o.fb, crtc |-> failed # "crtcid"]]

(* ret != DISPLAY_SUCCESS: what makes Apply leave its loop. *)
Failed(failed) == failed \in {"early", "import", "fbid", "crtcid"}

-----------------------------------------------------------------------------
(***************************************************************************)
(* Calls of the caller between frames.                                     *)
(***************************************************************************)
SetDisplayClientBuffer(b) ==
  /\ pc = "rest" /\ ~dangling
  /\ layerBuffer' = [layerBuffer EXCEPT !["client"] = b]
  /\ UNCHANGED <<pc, firstFrame, cursorLayers, isAnimationEnd, plane, objVars, ptrVars, req,
                 kernelVars, modeVars, fenceVars, dangling>>

(* PrepareDisplayLayers with a layer of type CURSOR: its buffer is copied  *)
(* into the cursor layer, which stays in mCursorLayers from then on.       *)
PrepareCursor(b) ==
  /\ pc = "rest" /\ ~dangling
  /\ layerBuffer' = [layerBuffer EXCEPT !["cursor"] = b]
  /\ cursorLayers' = TRUE
  /\ UNCHANGED <<pc, firstFrame, isAnimationEnd, plane, objVars, ptrVars, req,
                 kernelVars, modeVars, fenceVars, dangling>>

(* DrmCrtc::SetActivieMode.  mNeedModeSet is never reset. *)
SetDisplayMode(m) ==
  /\ pc = "rest" /\ ~dangling
  /\ mNeedModeSet' = (mNeedModeSet \/ mActiveModeId # m)
  /\ mActiveModeId' = m
  /\ UNCHANGED <<pc, firstFrame, inputVars, isAnimationEnd, plane, objVars, ptrVars, req,
                 kernelVars, kernelMode, kernelActive, mDpmsState, fenceVars, dangling>>

(* Mutant: the state is remembered before the kernel has answered. *)
SetDpmsStateEarly(dpms, failed) ==
  /\ mDpmsState' = dpms
  /\ kernelActive' = IF failed THEN kernelActive
                     ELSE kernelMode # NoMode /\ dpms = "ON"

(* DrmConnector::SetDpmsState: what the kernel refuses is not remembered.  *)
(* A CRTC runs in state ON only; one without a mode does not run.          *)
SetDpmsState(dpms, failed) ==
  IF failed
    THEN UNCHANGED <<mDpmsState, kernelActive>>
    ELSE /\ mDpmsState' = dpms
         /\ kernelActive' = (kernelMode # NoMode /\ dpms = "ON")

(* The caller is told SUCCESS whatever SetDpmsState answers; an unknown    *)
(* state is refused before it.                                             *)
SetDisplayPowerStatus(status) ==
  /\ pc = "rest" /\ ~dangling
  /\ \E failed \in BOOLEAN :
       /\ failed => "dpms" \in Faults
       /\ SetDpmsState(status, failed)
  /\ UNCHANGED <<pc, firstFrame, inputVars, isAnimationEnd, plane, objVars, ptrVars, req,
                 kernelVars, mActiveModeId, mNeedModeSet, kernelMode, fenceVars, dangling>>

(* DrmDisplay::Init: choose a mode, allocate a buffer and push it.         *)
PushFirstFrame ==
  /\ pc = "off"
  /\ \E m \in Modes : mActiveModeId' = m
  /\ mNeedModeSet' = TRUE
  /\ layerBuffer' = [layerBuffer EXCEPT !["client"] = FirstBuffer]
  /\ firstFrame' = TRUE
  /\ req' = [k \in Layers |-> [fb |-> Absent, crtc |-> FALSE]]
  /\ pc' = "plane"
  /\ UNCHANGED <<cursorLayers, isAnimationEnd, plane, objVars, ptrVars,
                 kernelVars, kernelMode, kernelActive, mDpmsState, fenceVars, dangling>>

(* HdiDisplay::Commit enters Apply. *)
Commit ==
  /\ pc = "rest" /\ ~dangling
  /\ firstFrame' = FALSE
  /\ req' = [k \in Layers |-> [fb |-> Absent, crtc |-> FALSE]]
  /\ pc' = "plane"
  /\ UNCHANGED <<inputVars, isAnimationEnd, plane, objVars, ptrVars,
                 kernelVars, modeVars, fenceVars, dangling>>

-----------------------------------------------------------------------------
(***************************************************************************)
(* The stages of Apply.                                                    *)
(***************************************************************************)

(* Mutant: PushFirstFrame takes the fence of its own frame, so that the    *)
(* queue is empty when the first Commit starts.                            *)
AnswerEager ==
  /\ fence' = IF releaseFences = <<>> THEN NoFence ELSE Head(releaseFences)
  /\ releaseFences' = IF releaseFences = <<>> THEN <<>> ELSE Tail(releaseFences)

(* Mutant: the fence is read but stays in the queue. *)
AnswerPeeks ==
  /\ fence' = IF releaseFences = <<>> THEN NoFence ELSE Head(releaseFences)
  /\ UNCHANGED releaseFences

(* HdiDisplay::Commit takes one fence of the client layer, whatever Apply  *)
(* said, and answers SUCCESS; PushFirstFrame takes none.                   *)
Answer ==
  /\ IF firstFrame
       THEN UNCHANGED <<releaseFences, fence>>
       ELSE /\ fence' = IF releaseFences = <<>> THEN NoFence ELSE Head(releaseFences)
            /\ releaseFences' = IF releaseFences = <<>> THEN <<>> ELSE Tail(releaseFences)

(* A plane that cannot be applied is logged and left out; Apply goes on. *)
ApplyPlane ==
  /\ pc = "plane"
  /\ \E failed \in Failures : ApplyTo("client", failed)
  /\ plane' = 0
  /\ pc' = "cursor"
  /\ UNCHANGED <<firstFrame, inputVars, isAnimationEnd, modeVars, fenceVars,
                 dangling>>

(* Setting the out-fence property is the first thing Apply does. *)
ApplyRefused ==
  /\ pc = "plane" /\ "prop" \in Faults
  /\ Answer
  /\ pc' = "rest"
  /\ UNCHANGED <<firstFrame, inputVars, isAnimationEnd, plane, objVars, ptrVars, req,
                 kernelVars, modeVars, outFence, cursorFences, dangling>>

(* CheckbootCompleted reads a system parameter that turns true at some     *)
(* moment; TRUE is remembered.                                             *)
CheckbootCompleted(answer) ==
  /\ isAnimationEnd => answer
  /\ isAnimationEnd' = answer

(* One cursor plane; a failure leaves the loop over the planes. *)
ApplyCursor ==
  /\ pc = "cursor"
  /\ cursorLayers /\ plane < CursorPlanes
  /\ CheckbootCompleted(TRUE)
  /\ \E failed \in Failures :
       /\ ApplyTo("cursor", failed)
       /\ plane' = IF Failed(failed) THEN CursorPlanes ELSE plane + 1
  /\ UNCHANGED <<pc, firstFrame, inputVars, modeVars, fenceVars, dangling>>

ApplyCursorDone ==
  /\ pc = "cursor"
  /\ \E answer \in BOOLEAN :
       /\ CheckbootCompleted(answer)
       /\ answer /\ cursorLayers => plane = CursorPlanes
  /\ pc' = "commit"
  /\ UNCHANGED <<firstFrame, inputVars, plane, objVars, ptrVars, req,
                 kernelVars, modeVars, fenceVars, dangling>>

(* DrmModeBlock: does the kernel make the blob of the mode? *)
BlobAnswers == {TRUE} \cup (IF "blob" \in Faults THEN {FALSE} ELSE {})

(* Mutant: without a blob the mode set is given up. *)
UpdateModeGivesUp(blob) ==
  LET set == mNeedModeSet /\ mActiveModeId \in Modes /\ blob
  IN  /\ kernelMode' = IF set THEN mActiveModeId ELSE kernelMode
      /\ kernelActive' = (set \/ kernelActive)
      /\ mNeedModeSet' = (mNeedModeSet /\ blob)

(* UpdateMode adds ACTIVE and the mode when the connector has that mode    *)
(* and its blob was made; otherwise it adds nothing, and succeeds.  As     *)
(* mNeedModeSet is never reset, every frame tries, also while the display  *)
(* is switched off.                                                        *)
ModeIsSet(blob) == mNeedModeSet /\ mActiveModeId \in Modes /\ blob
UpdateMode(blob) ==
  /\ kernelMode' = IF ModeIsSet(blob) THEN mActiveModeId ELSE kernelMode
  /\ kernelActive' = (ModeIsSet(blob) \/ kernelActive)
  /\ UNCHANGED mNeedModeSet

NextFence == (outFence + 1) % FenceRing

(* The kernel wants a plane to have both a CRTC and a framebuffer, or      *)
(* neither; what the request leaves out stays as it was.  Every request    *)
(* asks for an out-fence, which a CRTC that is off and stays off cannot    *)
(* signal.                                                                 *)
Acceptable(blob) ==
  /\ \A k \in Layers :
       req[k].fb # Absent => (req[k].fb # Null) = (req[k].crtc \/ screen[k] # Null)
  /\ ModeIsSet(blob) \/ kernelActive

AtomicCommit ==
  /\ pc = "commit"
  /\ \E blob \in BlobAnswers : Acceptable(blob) /\ UpdateMode(blob)
  /\ screen' = [k \in Layers |-> IF req[k].fb = Absent THEN screen[k] ELSE req[k].fb]
  /\ outFence' = NextFence
  /\ releaseFences' = Append(releaseFences, NextFence)
  /\ cursorFences' = IF cursorLayers THEN Min({cursorFences + 1, MaxCursorFences})
                                   ELSE cursorFences
  /\ pc' = "release"
  /\ UNCHANGED <<firstFrame, inputVars, isAnimationEnd, plane, objVars, ptrVars, req, handles, fbs,
                 mActiveModeId, mDpmsState, fence, dangling>>

(* Mutant: the current object is remembered first and then released. *)
ReleaseLastSwapped(k) ==
  /\ mLastGemBuffer' = [mLastGemBuffer EXCEPT ![k] = mCurrentGemBuffer[k]]
  /\ IF mLastGemBuffer'[k] = "null"
       THEN UNCHANGED <<objVars, kernelVars>>
       ELSE /\ Remove(mCurrentBuffer[k], handles, fbs)
            /\ mCurrentBuffer' = [mCurrentBuffer EXCEPT ![k] = Released(@)]
            /\ UNCHANGED lastBuffer
  /\ UNCHANGED dangling

(* Release the object that has left layer k's plane, then remember the     *)
(* current one.                                                            *)
ReleaseLast(k) ==
  /\ \/ /\ mLastGemBuffer[k] = "null"
        /\ UNCHANGED <<objVars, kernelVars, dangling>>
     \/ /\ mLastGemBuffer[k] = "current"
        /\ Remove(mCurrentBuffer[k], handles, fbs)
        /\ mCurrentBuffer' = [mCurrentBuffer EXCEPT ![k] = Released(@)]
        /\ UNCHANGED <<lastBuffer, dangling>>
     \/ /\ mLastGemBuffer[k] = "last"
        /\ Remove(lastBuffer[k], handles, fbs)
        /\ lastBuffer' = [lastBuffer EXCEPT ![k] = Released(@)]
        /\ UNCHANGED <<mCurrentBuffer, dangling>>
     \/ /\ mLastGemBuffer[k] = "gone"
        /\ dangling' = TRUE
        /\ UNCHANGED <<objVars, kernelVars>>
  /\ mLastGemBuffer' = [mLastGemBuffer EXCEPT ![k] = mCurrentGemBuffer[k]]

Release ==
  /\ pc = "release"
  /\ ReleaseLast("client")
  /\ pc' = "releaseCursor"
  /\ UNCHANGED <<firstFrame, inputVars, isAnimationEnd, plane, mCurrentGemBuffer,
                 req, modeVars, fenceVars>>

ReleaseCursor ==
  /\ pc = "releaseCursor"
  /\ ReleaseLast("cursor")
  /\ Answer
  /\ pc' = "rest"
  /\ UNCHANGED <<firstFrame, inputVars, isAnimationEnd, plane, mCurrentGemBuffer,
                 req, modeVars, outFence, cursorFences>>

(* A property UpdateMode cannot add, or a commit the kernel turns down,    *)
(* ends Apply: nothing is released and no fence is queued.                 *)
AtomicCommitFails ==
  /\ pc = "commit"
  /\ \E blob \in BlobAnswers :
       \/ ~Acceptable(blob)
       \/ "commit" \in Faults
       \/ "prop" \in Faults /\ ModeIsSet(blob)
  /\ Answer
  /\ pc' = "rest"
  /\ UNCHANGED <<firstFrame, inputVars, isAnimationEnd, plane, objVars, ptrVars, req,
                 kernelVars, modeVars, outFence, cursorFences, dangling>>

-----------------------------------------------------------------------------
Init ==
  /\ pc = "off" /\ firstFrame = FALSE
  /\ layerBuffer = [k \in Layers |-> FirstBuffer]
  /\ cursorLayers = FALSE /\ isAnimationEnd = FALSE /\ plane = 0
  /\ mCurrentBuffer = [k \in Layers |-> Empty] /\ lastBuffer = [k \in Layers |-> Empty]
  /\ mLastGemBuffer = [k \in Layers |-> "null"] /\ mCurrentGemBuffer = [k \in Layers |-> "null"]
  /\ req = [k \in Layers |-> [fb |-> Absent, crtc |-> FALSE]]
  /\ mActiveModeId = NoMode /\ mNeedModeSet = FALSE
  /\ handles = <<>> /\ fbs = <<>> /\ screen = [k \in Layers |-> Null]
  /\ kernelMode = NoMode /\ kernelActive = FALSE
  /\ outFence = 0 /\ releaseFences = <<>> /\ cursorFences = 0 /\ fence = NoFence
  /\ dangling = FALSE
  /\ setup \in Setups /\ mDpmsState = setup.dpms

Apply ==
  \/ ApplyRefused \/ ApplyPlane \/ ApplyCursor \/ ApplyCursorDone
  \/ AtomicCommit \/ AtomicCommitFails \/ Release \/ ReleaseCursor

Next ==
  /\ UNCHANGED setup
  /\ \/ PushFirstFrame
     \/ Commit
     \/ Apply
     \/ \E b \in Buffers : SetDisplayClientBuffer(b) \/ PrepareCursor(b)
     \/ \E m \in RequestedModes : SetDisplayMode(m)
     \/ \E status \in setup.power : SetDisplayPowerStatus(status)

Spec == Init /\ [][Next]_vars

-----------------------------------------------------------------------------
(***************************************************************************)
(* Properties.                                                             *)
(***************************************************************************)

(* Every table holds ids the kernel can have issued and every pointer is   *)
(* null or an address; the out-fence descriptors in flight are numbered.   *)
TypeOK ==
  /\ pc \in {"off", "rest", "plane", "cursor", "commit", "release", "releaseCursor"}
  /\ layerBuffer \in [Layers -> AllBuffers]
  /\ plane \in 0 .. CursorPlanes
  /\ mCurrentBuffer \in [Layers -> [fb : 0 .. MaxIds, handle : 0 .. MaxIds]]
  /\ lastBuffer \in [Layers -> [fb : 0 .. MaxIds, handle : 0 .. MaxIds]]
  /\ mLastGemBuffer \in [Layers -> Pointers]
  /\ mCurrentGemBuffer \in [Layers -> {"null", "current"}]
  /\ \A k \in Layers : req[k] \in [fb : 0 .. Absent, crtc : BOOLEAN]
  /\ DOMAIN handles \subseteq 1 .. MaxIds /\ DOMAIN fbs \subseteq 1 .. MaxIds
  /\ screen \in [Layers -> 0 .. MaxIds]
  /\ mActiveModeId \in {NoMode} \cup Modes \cup RequestedModes
  /\ kernelMode \in {NoMode} \cup Modes
  /\ kernelActive \in BOOLEAN /\ mDpmsState \in PowerStates
  /\ releaseFences \in Seq(0 .. (FenceRing - 1))
  /\ cursorFences \in 0 .. MaxCursorFences
  /\ fence \in 0 .. NoFence

(* The composition's raw pointers (mLastGemBuffer, mLastCursorGemBuffer)   *)
(* name objects the layer still owns, on every step of Apply: releaseBuffer *)
(* is never called on a destroyed DrmGemBuffer.  Stated, like the others   *)
(* that begin with Accepting, of a kernel that accepts every call - for    *)
(* which the caller may ask only for modes of the connector, as UpdateMode *)
(* leaves ACTIVE out for another one and a display that is off stays off - *)
(* and, like NoFbLeak, of a pipe with at most one cursor plane: a second one    *)
(* would have ApplyCursor wrap the buffer twice per frame, and the layer   *)
(* destroy the object that mLastCursorGemBuffer still names.               *)
Accepting == Faults \subseteq {"dpms"} /\ RequestedModes \subseteq Modes
OneCursorPlane == CursorPlanes <= 1
RawPointersOwned ==
  Accepting /\ OneCursorPlane =>
    /\ ~dangling
    /\ \A k \in Layers : mLastGemBuffer[k] # "gone"

(* A successful Apply leaves on each plane it was asked to fill a          *)
(* registered framebuffer of the buffer the layer holds: the releases that *)
(* follow the atomic commit never take the new frame off the screen.       *)
NewFrameShown ==
  [][ Accepting /\ pc = "releaseCursor" /\ pc' = "rest" =>
        /\ screen'["client"] # Null /\ fbs'[screen'["client"]] = layerBuffer["client"]
        /\ (cursorLayers /\ isAnimationEnd /\ CursorPlanes > 0) =>
             screen'["cursor"] # Null /\ fbs'[screen'["cursor"]] = layerBuffer["cursor"] ]_vars

(* The primary plane, once lit by PushFirstFrame, is never dark between    *)
(* two calls nor in the middle of one.                                     *)
NeverDark ==
  [][ Accepting /\ screen["client"] # Null => screen'["client"] # Null ]_vars

(* Between calls the only registered framebuffers are those on the screen: *)
(* the previous frame's was removed by releaseBuffer, exactly once.        *)
NoFbLeak ==
  Accepting /\ OneCursorPlane /\ pc = "rest" => DOMAIN fbs = {screen[k] : k \in Layers} \ {Null}

Objects == {mCurrentBuffer[k] : k \in Layers} \cup {lastBuffer[k] : k \in Layers}

(* Every open GEM handle is recorded by a DrmGemBuffer that will close it, *)
(* although two objects that wrap the same dma-buf share one handle and    *)
(* the first to be released closes it for both.                            *)
HandlesOwned ==
  \A h \in DOMAIN handles : \E o \in Objects : o.handle = h

(* The fence Commit returns is the out-fence of the commit before: the one *)
(* after which the previous client buffer, not the new one, is on screen.  *)
FenceLagsByOne ==
  [][ (Accepting /\ pc = "releaseCursor" /\ pc' = "rest" /\ ~firstFrame) =>
        fence' = (outFence + FenceRing - 1) % FenceRing ]_vars

(* After a successful commit the CRTC runs, whatever failed before and     *)
(* whatever was done to its power.  It runs in the mode that was asked for *)
(* last, provided the connector has it and the blob of the mode could be   *)
(* made: UpdateMode passes over one that could not, and the commit         *)
(* succeeds in the old mode.  Then, as after a failed commit, the mode is  *)
(* not forgotten: it stays to be set by a later frame.                     *)
ModeApplied ==
  /\ pc = "release" => kernelActive
  /\ pc = "release" /\ mActiveModeId \in Modes /\ "blob" \notin Faults => kernelMode = mActiveModeId
  /\ pc # "off" /\ kernelMode # mActiveModeId => mNeedModeSet

(* A display that is reported to be on, and has been lit, is lit, although *)
(* the result of SetDpmsState is dropped.  The converse does not hold: the *)
(* first commit after a power-off lights a display reported to be off.     *)
ReportedOnIsLit ==
  mDpmsState = "ON" /\ kernelMode # NoMode => kernelActive

(* Whatever fails, between calls at most one out-fence waits in the client *)
(* layer's queue and it is that of the last atomic commit: no descriptor   *)
(* piles up or is handed out twice.                                        *)
FenceQueueShort ==
  pc = "rest" => releaseFences \in {<<>>, <<outFence>>}

(* Whatever fails, every registered framebuffer is recorded by a live      *)
(* DrmGemBuffer, whose release or destruction will remove it.              *)
FbsOwned ==
  \A f \in DOMAIN fbs : \E o \in Objects : o.fb = f

(* "release gem buffer" (hdi_drm_composition.cpp:251): releaseBuffer is     *)
(* called on an existing object.  Refuted when a commit may fail.          *)
ReleasedIsAlive == ~dangling
=============================================================================
