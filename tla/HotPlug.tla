-------------------------------- MODULE HotPlug --------------------------------
(***************************************************************************)
(* Hot plug in the RK3568 variant of the HAL: HdiNetLinkMonitor reads the  *)
(* kernel's uevents on a detached thread; HdiSession::HandleHotplug has    *)
(* DrmConnector compare the connection it has recorded with the kernel's,  *)
(* switch vsync and the CRTC, and then tells the clients.  Clients         *)
(* register on threads of their own, and none of this takes mMutex.        *)
(*                                                                         *)
(* Abstractions.  One display, the HDMI one the uevents are about; a panel *)
(* never changes state, so the loop over displays passes it by.  mEnable   *)
(* and ACTIVE of the CRTC are what the last hot plug made them: what       *)
(* clients do to them is in DrmVsyncWorker and DrmCommit.  A socket        *)
(* without room drops the message and the next read fails.  Every uevent   *)
(* of the kernel takes room in it and is read; those that are not about    *)
(* HDMI are passed over and not modelled.                                  *)
(***************************************************************************)
EXTENDS Naturals, Sequences

CONSTANTS
  Clients,     \* hot plug callbacks
  MaxToggles,  \* bound: how often the cable is moved
  Room,        \* messages the receive buffer holds (SO_RCVBUF 1024)
  Setups       \* [slow, faults]: does the cable rest until its message was
               \* handled, and which calls may fail

FaultKinds == {"bind", "alloc", "get", "crtc", "blob", "commit"}

ASSUME HotPlugAssumption ==
  /\ MaxToggles \in Nat
  /\ Room \in Nat \ {0}
  /\ \A s \in Setups : s.slow \in BOOLEAN /\ s.faults \subseteq FaultKinds

VARIABLES
  plugged,        \* kernel: connection of the connector
  uevents,        \* kernel: messages in the socket
  bound,          \* kernel: the socket is bound
  overrun,        \* kernel: a message was dropped for want of room
  crtcActive,     \* kernel: ACTIVE of the CRTC, "client" before the first hot plug
  toggles,        \* how often plugged has changed
  init,           \* stage of HdiSession::Init, run once by call_once
  mRunning,       \* HdiNetLinkMonitor
  pc,             \* stage of the monitor thread
  plugIn,         \* monitor: what the message said
  seen,           \* monitor: c->connection
  mConnectState,  \* DrmConnector: the connection recorded last
  mEnable,        \* DrmVsyncWorker, "client" before the first hot plug
  mHotPlugCallBacks,
  registering,    \* clients that have seen a connected display and will say so
  told,           \* per client: what it was told last
  missed,         \* history: the last change of plugged left no message
  overlapped,     \* history: a hot plug was handled during a registration
  setup           \* chosen by Init

kernelVars  == <<plugged, uevents, bound, overrun, toggles>>
monitorVars == <<pc, plugIn, seen>>
clientVars  == <<mHotPlugCallBacks, registering, told>>
vars == <<kernelVars, crtcActive, init, mRunning, monitorVars, mConnectState, mEnable, clientVars,
          missed, overlapped, setup>>

MayFail(what) == what \in setup.faults
State(b)      == IF b THEN "in" ELSE "out"

-----------------------------------------------------------------------------
(***************************************************************************)
(* The cable.                                                              *)
(***************************************************************************)
Idle == pc \in {"off", "test", "read", "dead"}

Toggle ==
  /\ toggles < MaxToggles
  /\ setup.slow => uevents = <<>> /\ Idle
  /\ plugged' = ~plugged
  /\ toggles' = toggles + 1
  /\ \/ /\ ~bound
        /\ missed' = (init # "start")
        /\ UNCHANGED <<uevents, overrun>>
     \/ /\ bound /\ Len(uevents) < Room
        /\ uevents' = Append(uevents, plugged')
        /\ missed' = FALSE
        /\ UNCHANGED overrun
     \/ /\ bound /\ Len(uevents) >= Room
        /\ overrun' = TRUE
        /\ missed' = TRUE
        /\ UNCHANGED uevents
  /\ UNCHANGED <<bound, crtcActive, init, mRunning, monitorVars, mConnectState, mEnable,
                 clientVars, overlapped, setup>>

-----------------------------------------------------------------------------
(***************************************************************************)
(* HdiSession::Init: the displays are discovered first, then the monitor   *)
(* thread is started, then mRunning is set.                                *)
(***************************************************************************)
Discover ==
  /\ init = "start"
  /\ init' = "discovered"
  /\ mConnectState' = plugged
  /\ UNCHANGED <<kernelVars, crtcActive, mRunning, monitorVars, mEnable, clientVars, missed, overlapped, setup>>

StartMonitor ==
  /\ init = "discovered"
  /\ init' = "started"
  /\ pc' = "bind"
  /\ UNCHANGED <<kernelVars, crtcActive, mRunning, plugIn, seen, mConnectState, mEnable,
                 clientVars, missed, overlapped, setup>>

(* Mutant: the thread is joined instead of detached. *)
SetRunningJoin ==
  /\ init = "started"
  /\ init' = IF pc = "dead" THEN "done" ELSE "started"
  /\ mRunning' = TRUE
  /\ UNCHANGED <<kernelVars, crtcActive, monitorVars, mConnectState, mEnable, clientVars,
                 missed, overlapped, setup>>

SetRunning ==
  /\ init = "started"
  /\ init' = "done"
  /\ mRunning' = TRUE
  /\ UNCHANGED <<kernelVars, crtcActive, monitorVars, mConnectState, mEnable, clientVars,
                 missed, overlapped, setup>>

-----------------------------------------------------------------------------
(***************************************************************************)
(* The monitor thread.                                                     *)
(***************************************************************************)
ThreadInit ==
  /\ pc = "bind"
  /\ \/ bound' = TRUE /\ pc' = "test"
     \/ MayFail("bind") /\ pc' = "dead" /\ UNCHANGED bound
  /\ UNCHANGED <<plugged, uevents, overrun, toggles, crtcActive, init, mRunning, plugIn, seen,
                 mConnectState, mEnable, clientVars, missed, overlapped, setup>>

(* while (mRunning) *)
MonitorTest ==
  /\ pc = "test"
  /\ pc' = IF mRunning THEN "read" ELSE "dead"
  /\ UNCHANGED <<kernelVars, crtcActive, init, mRunning, plugIn, seen, mConnectState, mEnable,
                 clientVars, missed, overlapped, setup>>

(* A dropped message makes the read fail, which ends the thread. *)
ReadUevent ==
  /\ pc = "read"
  /\ \/ /\ overrun
        /\ pc' = "dead"
        /\ UNCHANGED <<uevents, plugIn>>
     \/ /\ ~overrun /\ uevents # <<>>
        /\ pc' = "get"
        /\ plugIn' = Head(uevents)
        /\ uevents' = Tail(uevents)
  /\ UNCHANGED <<plugged, bound, overrun, toggles, crtcActive, init, mRunning, seen,
                 mConnectState, mEnable, clientVars, missed, overlapped, setup>>

(* mConnectState is compared with the kernel's answer, not with the message. *)
Differs == plugged # mConnectState

(* GetInstance waits for Init.  Nothing to do when the recorded state is   *)
(* the kernel's.  Without memory for the request DISPLAY_NULL_PTR is       *)
(* returned, which as a bool is true: the clients are told.                *)
GetConnector ==
  /\ pc = "get" /\ init = "done"
  /\ \/ seen' = plugged /\ pc' = IF Differs THEN "switch" ELSE "test"
     \/ MayFail("alloc") /\ pc' = "tell" /\ UNCHANGED seen
     \/ MayFail("get") /\ pc' = "test" /\ UNCHANGED seen
  /\ overlapped' = (overlapped \/ registering # {})
  /\ UNCHANGED <<kernelVars, crtcActive, init, mRunning, plugIn, mConnectState, mEnable,
                 clientVars, missed, setup>>

(* UpdateCrtcId and EnableVsync.  Without a CRTC DISPLAY_FAILURE is        *)
(* returned, again true as a bool.                                         *)
UpdateCrtcId ==
  /\ pc = "switch"
  /\ \/ mEnable' = State(plugIn) /\ pc' = "commit"
     \/ MayFail("crtc") /\ pc' = "tell" /\ UNCHANGED mEnable
  /\ UNCHANGED <<kernelVars, crtcActive, init, mRunning, plugIn, seen, mConnectState,
                 clientVars, missed, overlapped, setup>>

(* Mutant: the connection is not recorded. *)
RecordNothing == UNCHANGED mConnectState

(* mConnectState = c->connection, after a successful commit only. *)
Record == mConnectState' = seen

(* The atomic commit.  A connector that was unplugged has no modes: the    *)
(* blob is not made and blob_id is read uninitialised, which the kernel    *)
(* may refuse ("blob").  A failure is again returned as true.              *)
SwitchCrtc ==
  /\ pc = "commit"
  /\ \/ crtcActive' = State(plugIn) /\ Record
     \/ /\ MayFail("commit") \/ (MayFail("blob") /\ ~seen)
        /\ UNCHANGED <<crtcActive, mConnectState>>
  /\ pc' = "tell"
  /\ UNCHANGED <<kernelVars, init, mRunning, plugIn, seen, mEnable, clientVars, missed,
                 overlapped, setup>>

(* Mutant: only the first callback is called. *)
TellOne(connect, callbacks) ==
  \E c \in callbacks : told' = [told EXCEPT ![c] = State(connect)]

DoHotPlugCallback(connect, callbacks) ==
  told' = [c \in Clients |-> IF c \in callbacks THEN State(connect) ELSE told[c]]

(* DrmDevice::HandleHotplug finds the connector of the display and passes  *)
(* its answer on: whatever was not zero is true.  It also has the connector *)
(* read its property ids and dpms state anew, which nothing here reads.    *)
IsSuccess == pc = "tell"

TellClients ==
  /\ IsSuccess
  /\ DoHotPlugCallback(plugIn, mHotPlugCallBacks)
  /\ overlapped' = (overlapped \/ registering # {})
  /\ pc' = "test"
  /\ UNCHANGED <<kernelVars, crtcActive, init, mRunning, plugIn, seen, mConnectState, mEnable,
                 mHotPlugCallBacks, registering, missed, setup>>

-----------------------------------------------------------------------------
(***************************************************************************)
(* RegHotPlugCallback: the callback is stored, the connection is read, and *)
(* a connected display is announced to every client.                       *)
(***************************************************************************)
RegHotPlugCallback(c) ==
  /\ init = "done"
  /\ c \notin registering
  /\ mHotPlugCallBacks' = mHotPlugCallBacks \cup {c}
  /\ registering' = IF mConnectState THEN registering \cup {c} ELSE registering
  /\ overlapped' = (overlapped \/ ~Idle)
  /\ UNCHANGED <<kernelVars, crtcActive, init, mRunning, monitorVars, mConnectState, mEnable,
                 told, missed, setup>>

RegAnnounce(c) ==
  /\ c \in registering
  /\ DoHotPlugCallback(TRUE, mHotPlugCallBacks)
  /\ registering' = registering \ {c}
  /\ UNCHANGED <<kernelVars, crtcActive, init, mRunning, monitorVars, mConnectState, mEnable,
                 mHotPlugCallBacks, missed, overlapped, setup>>

-----------------------------------------------------------------------------
Init ==
  /\ plugged \in BOOLEAN
  /\ uevents = <<>> /\ bound = FALSE /\ overrun = FALSE /\ toggles = 0
  /\ crtcActive = "client"
  /\ init = "start" /\ mRunning = FALSE
  /\ pc = "off" /\ plugIn = FALSE /\ seen = FALSE
  /\ mConnectState = FALSE /\ mEnable = "client"
  /\ mHotPlugCallBacks = {} /\ registering = {}
  /\ told = [c \in Clients |-> "nothing"]
  /\ missed = FALSE /\ overlapped = FALSE
  /\ setup \in Setups

SessionInit == Discover \/ StartMonitor \/ SetRunning
MonitorThread ==
  \/ ThreadInit \/ MonitorTest \/ ReadUevent \/ GetConnector \/ UpdateCrtcId
  \/ SwitchCrtc \/ TellClients

Next ==
  \/ Toggle
  \/ SessionInit
  \/ MonitorThread
  \/ \E c \in Clients : RegHotPlugCallback(c) \/ RegAnnounce(c)

Spec == Init /\ [][Next]_vars

(* Every thread that can run does; nobody has to move the cable or to      *)
(* register.                                                               *)
FairSpec ==
  /\ Spec
  /\ WF_vars(SessionInit)
  /\ WF_vars(MonitorThread)
  /\ \A c \in Clients : WF_vars(RegAnnounce(c))

-----------------------------------------------------------------------------
(* Nothing failed that the code does not recover from: no call is refused, *)
(* the monitor reached its loop after mRunning was set, no message was     *)
(* dropped, and the cable was not moved between discovery and bind.        *)
Healthy == setup.faults = {} /\ pc # "dead" /\ ~overrun /\ ~missed

(* However fast the cable is moved, and although messages are stale when   *)
(* they are read, the recorded connection ends up being the kernel's.      *)
RecordSettles == <>[](Healthy => mConnectState = plugged)

Quiet == init = "done" /\ pc = "read" /\ uevents = <<>> /\ registering = {}

(* If the cable rests until its message is handled, then between hot plugs *)
(* the CRTC runs, vsync is on and every client was told so exactly when    *)
(* the display is connected.  A registration that overlaps a hot plug may  *)
(* announce a display that has just gone, to every client.                 *)
ToldTheTruth ==
  Quiet /\ Healthy /\ setup.slow /\ ~overlapped =>
    /\ crtcActive \in {"client", State(plugged)}
    /\ mEnable \in {"client", State(plugged)}
    /\ \A c \in mHotPlugCallBacks :
         told[c] \in IF plugged THEN {"in"} ELSE {"out", "nothing"}

(* Every message is handled to the end: whichever stage of the monitor and *)
(* of HdiSession::Init it finds, the monitor comes back to its read with   *)
(* nothing left to read, and has then recorded the connection of the       *)
(* kernel unless a call was refused or a message lost.  It hangs nowhere;  *)
(* the one other end is that of the thread.                                *)
EveryMessageHandled ==
  (uevents # <<>> \/ ~Idle) ~>
    \/ pc = "dead"
    \/ pc = "read" /\ uevents = <<>> /\ (Healthy => mConnectState = plugged)

(* "if (isSuccess == true)" (hdi_session.cpp:64): the clients are told of  *)
(* a hot plug that was carried out.                                        *)
OnlySuccessTold == pc = "tell" => mConnectState = seen
=============================================================================
