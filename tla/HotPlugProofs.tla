----------------------------- MODULE HotPlugProofs -----------------------------
(***************************************************************************)
(* Between hot plugs the display and the clients agree with the cable, for *)
(* every number of clients and of cable moves.                             *)
(***************************************************************************)
EXTENDS HotPlug, TLAPS

InitStages    == {"start", "discovered", "started", "done"}
MonitorStages == {"off", "bind", "test", "read", "get", "switch", "commit", "tell", "dead"}

TypeOK ==
  /\ plugged \in BOOLEAN /\ uevents \in Seq(BOOLEAN) /\ bound \in BOOLEAN
  /\ overrun \in BOOLEAN /\ toggles \in Nat
  /\ init \in InitStages /\ mRunning \in BOOLEAN
  /\ pc \in MonitorStages /\ plugIn \in BOOLEAN /\ seen \in BOOLEAN
  /\ mConnectState \in BOOLEAN
  /\ crtcActive \in {"client", "in", "out"} /\ mEnable \in {"client", "in", "out"}
  /\ mHotPlugCallBacks \subseteq Clients /\ registering \subseteq Clients
  /\ told \in [Clients -> {"nothing", "in", "out"}]
  /\ missed \in BOOLEAN /\ overlapped \in BOOLEAN
  /\ setup \in Setups

(* The clients and the monitor come after the stage of Init they wait for. *)
StagesInv ==
  /\ init = "start" => ~missed /\ crtcActive = "client" /\ mEnable = "client"
  /\ init \in {"start", "discovered"} => pc = "off" /\ ~bound
  /\ init # "done" => mHotPlugCallBacks = {} /\ registering = {}
  /\ pc \in {"switch", "commit", "tell"} => init = "done"

(* While the cable rests until its message is handled, at most one message *)
(* is on its way, it says what the kernel says, and it is not dropped.     *)
MessageInv ==
  /\ ~overrun
  /\ uevents # <<>> => uevents = <<plugged>> /\ bound
  /\ pc \in {"get", "switch", "commit", "tell"} => uevents = <<>> /\ plugIn = plugged

(* Such a cable does not move while its message is handled. *)
RecordInv ==
  /\ pc \in {"switch", "commit"} => seen = plugged /\ mConnectState # plugged
  /\ pc = "tell" => mConnectState = plugged

(* However fast the cable is moved: as long as no call is refused and the  *)
(* last move left a message, the connection DrmConnector has recorded is   *)
(* behind the kernel's only while a message is in the socket or is being   *)
(* handled.                                                                *)
RecordFollows ==
  setup.faults = {} /\ init # "start" /\ ~missed /\ uevents = <<>>
    /\ pc \notin {"get", "switch", "commit"}
  => mConnectState = plugged

(* What is about to be recorded is behind only if another message waits. *)
SeenInv ==
  setup.faults = {} /\ ~missed /\ uevents = <<>> /\ pc \in {"switch", "commit"}
  => seen = plugged

(* What the CRTC, vsync and the clients were made to follow is the         *)
(* recorded connection: vsync is switched just before it is recorded, the  *)
(* clients are told just after.  A registration without a hot plug         *)
(* announces a connection that still stands.                               *)
FollowInv ==
  /\ registering # {} =>
       mConnectState /\ pc \notin {"switch", "commit", "tell"}
  /\ crtcActive \in {"client", State(mConnectState)}
  /\ mEnable \in {"client", State(IF pc = "commit" THEN plugged ELSE mConnectState)}
  /\ pc # "tell" =>
       \A c \in mHotPlugCallBacks :
         IF mConnectState THEN registering = {} => told[c] = "in"
                          ELSE told[c] \in {"out", "nothing"}
  /\ \A c \in Clients \ mHotPlugCallBacks : told[c] = "nothing"

Calm == setup.faults = {} /\ setup.slow

Inv ==
  /\ TypeOK /\ StagesInv /\ SeenInv /\ RecordFollows
  /\ Calm => MessageInv /\ RecordInv
  /\ Calm /\ ~overlapped => FollowInv

-----------------------------------------------------------------------------
(* Appending to no message, and taking the only one. *)
LEMMA OneMessage ==
  ASSUME NEW b
  PROVE  /\ Append(<<>>, b) = <<b>>
         /\ Len(<<>>) = 0
         /\ Head(<<b>>) = b
         /\ Tail(<<b>>) = <<>>
<1>1. Append(<<>>, b) = <<b>>
  OBVIOUS
<1>2. Len(<<>>) = 0
  OBVIOUS
<1>3. Head(<<b>>) = b
  OBVIOUS
<1>4. Tail(<<b>>) = <<>>
  OBVIOUS
<1>5. QED
  BY <1>1, <1>2, <1>3, <1>4

(* Messages stay messages. *)
LEMMA MessageTypes ==
  ASSUME NEW s \in Seq(BOOLEAN), NEW b \in BOOLEAN
  PROVE  /\ Append(s, b) \in Seq(BOOLEAN)
         /\ s # <<>> => Head(s) \in BOOLEAN /\ Tail(s) \in Seq(BOOLEAN)
<1>1. ASSUME NEW S, NEW t \in Seq(S), t # <<>>
      PROVE  Head(t) \in S /\ Tail(t) \in Seq(S)
  BY <1>1
<1>2. Append(s, b) \in Seq(BOOLEAN)
  OBVIOUS
<1>3. QED
  BY <1>1, <1>2

(* A connection is one of the two states a client is told of. *)
LEMMA StateType == \A b \in BOOLEAN : State(b) \in {"in", "out"}
  BY DEF State

(* Calling the callbacks tells each of them and nobody else. *)
LEMMA CallbackFacts ==
  ASSUME NEW b \in BOOLEAN, TypeOK, DoHotPlugCallback(b, mHotPlugCallBacks)
  PROVE  /\ told' \in [Clients -> {"nothing", "in", "out"}]
         /\ \A c \in mHotPlugCallBacks : told'[c] = State(b)
         /\ \A c \in Clients \ mHotPlugCallBacks : told'[c] = told[c]
<1>1. mHotPlugCallBacks \subseteq Clients
  BY DEF TypeOK
<1>2. \A c \in Clients : told[c] \in {"nothing", "in", "out"}
  BY DEF TypeOK
<1>3. QED
  BY <1>1, <1>2, StateType DEF DoHotPlugCallback

-----------------------------------------------------------------------------
(* Every step keeps the types and the order of the stages. *)
LEMMA StagesStep == TypeOK /\ StagesInv /\ [Next]_vars => TypeOK' /\ StagesInv'
<1> SUFFICES ASSUME TypeOK, StagesInv, [Next]_vars PROVE TypeOK' /\ StagesInv'
  OBVIOUS
<1> USE DEF TypeOK, StagesInv, InitStages, MonitorStages, kernelVars, monitorVars, clientVars
<1>1. CASE Toggle
  <2>1. plugged' \in BOOLEAN /\ Append(uevents, plugged') \in Seq(BOOLEAN)
    BY <1>1, MessageTypes DEF Toggle
  <2>2. uevents' \in Seq(BOOLEAN) /\ missed' \in BOOLEAN /\ overrun' \in BOOLEAN
    BY <1>1, <2>1 DEF Toggle
  <2>3. init = "start" => ~missed'
    BY <1>1 DEF Toggle
  <2>4. QED
    BY <1>1, <2>1, <2>2, <2>3 DEF Toggle
<1>2. CASE Discover
  BY <1>2 DEF Discover
<1>3. CASE StartMonitor
  BY <1>3 DEF StartMonitor
<1>4. CASE SetRunning
  BY <1>4 DEF SetRunning
<1>5. CASE ThreadInit
  <2>1. bound' \in BOOLEAN /\ pc' \in {"test", "dead"} /\ init \in {"started", "done"}
    BY <1>5 DEF ThreadInit
  <2>2. QED
    BY <1>5, <2>1 DEF ThreadInit
<1>6. CASE MonitorTest
  BY <1>6 DEF MonitorTest
<1>7. CASE ReadUevent
  <2>1. uevents' \in Seq(BOOLEAN) /\ plugIn' \in BOOLEAN
    BY <1>7, MessageTypes DEF ReadUevent
  <2>2. QED
    BY <1>7, <2>1 DEF ReadUevent
<1>8. CASE GetConnector
  BY <1>8 DEF GetConnector
<1>9. CASE UpdateCrtcId
  BY <1>9, StateType DEF UpdateCrtcId
<1>10. CASE SwitchCrtc
  BY <1>10, StateType DEF SwitchCrtc, Record
<1>11. CASE TellClients
  <2>1. told' \in [Clients -> {"nothing", "in", "out"}]
    BY <1>11, CallbackFacts DEF IsSuccess, TellClients
  <2>2. QED
    BY <1>11, <2>1 DEF IsSuccess, TellClients
<1>12. ASSUME NEW c \in Clients, RegHotPlugCallback(c) PROVE TypeOK' /\ StagesInv'
  BY <1>12 DEF RegHotPlugCallback
<1>13. ASSUME NEW c \in Clients, RegAnnounce(c) PROVE TypeOK' /\ StagesInv'
  <2>1. told' \in [Clients -> {"nothing", "in", "out"}]
    BY <1>13, CallbackFacts DEF RegAnnounce
  <2>2. QED
    BY <1>13, <2>1 DEF RegAnnounce
<1>14. CASE UNCHANGED vars
  BY <1>14 DEF vars
<1>15. QED
  BY <1>1, <1>2, <1>3, <1>4, <1>5, <1>6, <1>7, <1>8, <1>9, <1>10, <1>11, <1>12, <1>13, <1>14
     DEF Next, SessionInit, MonitorThread

(* The set-up is chosen once, and an overlap is never forgotten. *)
LEMMA HistoryStep == [Next]_vars => setup' = setup /\ (overlapped => overlapped')
<1> SUFFICES ASSUME [Next]_vars PROVE setup' = setup /\ (overlapped => overlapped')
  OBVIOUS
<1>1. CASE Toggle
  BY <1>1 DEF Toggle
<1>2. CASE SessionInit
  BY <1>2 DEF SessionInit, Discover, StartMonitor, SetRunning
<1>3. CASE MonitorThread
  <2>1. CASE ThreadInit \/ MonitorTest \/ ReadUevent \/ UpdateCrtcId \/ SwitchCrtc
    BY <2>1 DEF ThreadInit, MonitorTest, ReadUevent, UpdateCrtcId, SwitchCrtc
  <2>2. CASE GetConnector
    BY <2>2, Zenon DEF GetConnector
  <2>3. CASE TellClients
    BY <2>3, Zenon DEF IsSuccess, TellClients
  <2>4. QED
    BY <1>3, <2>1, <2>2, <2>3 DEF MonitorThread
<1>4. CASE \E c \in Clients : RegHotPlugCallback(c) \/ RegAnnounce(c)
  <2>1. ASSUME NEW c \in Clients, RegHotPlugCallback(c)
        PROVE  setup' = setup /\ (overlapped => overlapped')
    BY <2>1, Zenon DEF RegHotPlugCallback
  <2>2. ASSUME NEW c \in Clients, RegAnnounce(c)
        PROVE  setup' = setup /\ (overlapped => overlapped')
    BY <2>2 DEF RegAnnounce
  <2>3. QED
    BY <1>4, <2>1, <2>2
<1>5. CASE UNCHANGED vars
  BY <1>5 DEF vars
<1>6. QED
  BY <1>1, <1>2, <1>3, <1>4, <1>5 DEF Next

(* While the cable rests, a message on its way is the truth, also while it *)
(* is handled.                                                             *)
LEMMA RecordStep ==
  TypeOK /\ StagesInv /\ Calm /\ MessageInv /\ RecordInv /\ [Next]_vars
    => MessageInv' /\ RecordInv'
<1> SUFFICES ASSUME TypeOK, StagesInv, Calm, MessageInv, RecordInv, [Next]_vars
             PROVE  MessageInv' /\ RecordInv'
  OBVIOUS
<1>a. /\ plugged \in BOOLEAN /\ mConnectState \in BOOLEAN /\ plugIn \in BOOLEAN
      /\ seen \in BOOLEAN /\ missed \in BOOLEAN /\ overrun \in BOOLEAN
      /\ pc \in MonitorStages
  BY DEF TypeOK
<1>b. \A what : ~MayFail(what)
  BY DEF Calm, MayFail
<1> USE <1>a, <1>b DEF StagesInv, MessageInv, RecordInv, MonitorStages, kernelVars, monitorVars,
        clientVars
<1>1. CASE Toggle
  <2>1. uevents = <<>> /\ Idle
    BY <1>1 DEF Toggle, Calm
  <2>2. Append(uevents, plugged') = <<plugged'>> /\ Len(uevents) < Room
    BY <2>1, OneMessage, HotPlugAssumption
  <2>3. overrun' = overrun
    BY <1>1, <2>2, HotPlugAssumption, OneMessage, <2>1 DEF Toggle
  <2>4. CASE ~bound
    BY <1>1, <2>1, <2>3, <2>4 DEF Toggle, Idle
  <2>5. CASE bound
    <3>1. uevents' = <<plugged'>>
      BY <1>1, <2>1, <2>2, <2>5, OneMessage, HotPlugAssumption DEF Toggle
    <3>2. uevents' # <<>>
      BY <3>1
    <3>3. QED
      BY <1>1, <2>1, <2>3, <2>5, <3>1, <3>2 DEF Toggle, Idle
  <2>6. QED
    BY <2>4, <2>5
<1>2. CASE Discover
  BY <1>2 DEF Discover
<1>3. CASE StartMonitor
  BY <1>3 DEF StartMonitor
<1>4. CASE SetRunning
  BY <1>4 DEF SetRunning
<1>5. CASE ThreadInit
  BY <1>5 DEF ThreadInit
<1>6. CASE MonitorTest
  BY <1>6 DEF MonitorTest
<1>7. CASE ReadUevent
  <2>1. uevents = <<plugged>>
    BY <1>7 DEF ReadUevent
  <2>2. plugIn' = plugged /\ uevents' = <<>>
    BY <1>7, <2>1, OneMessage DEF ReadUevent
  <2>3. QED
    BY <1>7, <2>2 DEF ReadUevent
<1>8. CASE GetConnector
  BY <1>8 DEF GetConnector, Differs
<1>9. CASE UpdateCrtcId
  BY <1>9 DEF UpdateCrtcId
<1>10. CASE SwitchCrtc
  BY <1>10 DEF SwitchCrtc, Record
<1>11. CASE TellClients
  BY <1>11 DEF IsSuccess, TellClients
<1>12. CASE \E c \in Clients : RegHotPlugCallback(c) \/ RegAnnounce(c)
  <2>1. UNCHANGED <<plugged, uevents, bound, overrun, init, pc, plugIn, seen, mConnectState, missed>>
    BY <1>12 DEF RegHotPlugCallback, RegAnnounce
  <2>2. QED
    BY <2>1
<1>13. CASE UNCHANGED vars
  BY <1>13 DEF vars
<1>14. QED
  BY <1>1, <1>2, <1>3, <1>4, <1>5, <1>6, <1>7, <1>8, <1>9, <1>10, <1>11, <1>12, <1>13
     DEF Next, SessionInit, MonitorThread

(* A move leaves a message, and after the last message the kernel is asked *)
(* for its own answer.                                                     *)
LEMMA FollowsStep ==
  TypeOK /\ StagesInv /\ SeenInv /\ RecordFollows /\ [Next]_vars => SeenInv' /\ RecordFollows'
<1> SUFFICES ASSUME TypeOK, StagesInv, SeenInv, RecordFollows, [Next]_vars, setup'.faults = {}
             PROVE  SeenInv' /\ RecordFollows'
  BY DEF SeenInv, RecordFollows
<1>a. /\ plugged \in BOOLEAN /\ mConnectState \in BOOLEAN /\ seen \in BOOLEAN
      /\ missed \in BOOLEAN /\ pc \in MonitorStages /\ uevents \in Seq(BOOLEAN)
  BY DEF TypeOK
<1>b. setup' = setup /\ setup.faults = {} /\ \A what : ~MayFail(what)
  BY HistoryStep DEF MayFail
<1> USE <1>a, <1>b DEF SeenInv, RecordFollows, MonitorStages, kernelVars, monitorVars, clientVars
<1>1. CASE Toggle
  <2>1. CASE ~bound
    BY <1>1, <2>1 DEF Toggle, StagesInv
  <2>2. CASE bound
    <3>1. plugged' \in BOOLEAN
      BY <1>1 DEF Toggle
    <3>2. Append(uevents, plugged') # <<>>
      BY <3>1
    <3>3. uevents' # <<>> \/ missed'
      BY <1>1, <2>2, <3>2 DEF Toggle
    <3>4. QED
      BY <3>3
  <2>3. QED
    BY <2>1, <2>2
<1>2. CASE Discover
  BY <1>2 DEF Discover, StagesInv
<1>3. CASE StartMonitor
  BY <1>3 DEF StartMonitor, StagesInv
<1>4. CASE SetRunning
  BY <1>4 DEF SetRunning
<1>5. CASE ThreadInit
  BY <1>5 DEF ThreadInit
<1>6. CASE MonitorTest
  BY <1>6 DEF MonitorTest
<1>7. CASE ReadUevent
  BY <1>7 DEF ReadUevent
<1>8. CASE GetConnector
  BY <1>8 DEF GetConnector, Differs
<1>9. CASE UpdateCrtcId
  BY <1>9 DEF UpdateCrtcId
<1>10. CASE SwitchCrtc
  BY <1>10 DEF SwitchCrtc, Record
<1>11. CASE TellClients
  BY <1>11 DEF IsSuccess, TellClients
<1>12. CASE \E c \in Clients : RegHotPlugCallback(c) \/ RegAnnounce(c)
  <2>1. UNCHANGED <<plugged, uevents, init, pc, seen, mConnectState, missed>>
    BY <1>12 DEF RegHotPlugCallback, RegAnnounce
  <2>2. QED
    BY <2>1
<1>13. CASE UNCHANGED vars
  BY <1>13 DEF vars
<1>14. QED
  BY <1>1, <1>2, <1>3, <1>4, <1>5, <1>6, <1>7, <1>8, <1>9, <1>10, <1>11, <1>12, <1>13
     DEF Next, SessionInit, MonitorThread

(* Nothing but a hot plug and a registration changes what is followed. *)
LEMMA FollowStep ==
  TypeOK /\ StagesInv /\ Calm /\ MessageInv /\ RecordInv /\ FollowInv /\ [Next]_vars /\ ~overlapped'
    => FollowInv'
<1> SUFFICES ASSUME TypeOK, StagesInv, Calm, MessageInv, RecordInv, FollowInv, [Next]_vars,
                    ~overlapped'
             PROVE  FollowInv'
  OBVIOUS
<1>a. /\ plugged \in BOOLEAN /\ mConnectState \in BOOLEAN /\ plugIn \in BOOLEAN
      /\ seen \in BOOLEAN /\ pc \in MonitorStages /\ mHotPlugCallBacks \subseteq Clients
  BY DEF TypeOK
<1>b. \A what : ~MayFail(what)
  BY DEF Calm, MayFail
<1> USE <1>a, <1>b DEF FollowInv, MonitorStages, kernelVars, monitorVars, clientVars
<1>1. CASE Toggle
  <2>1. Idle
    BY <1>1 DEF Toggle, Calm
  <2>2. QED
    BY <1>1, <2>1 DEF Toggle, Idle
<1>2. CASE Discover
  BY <1>2 DEF Discover, StagesInv
<1>3. CASE StartMonitor
  BY <1>3 DEF StartMonitor, StagesInv
<1>4. CASE SetRunning
  BY <1>4 DEF SetRunning
<1>5. CASE ThreadInit
  BY <1>5 DEF ThreadInit
<1>6. CASE MonitorTest
  BY <1>6 DEF MonitorTest
<1>7. CASE ReadUevent
  BY <1>7 DEF ReadUevent
<1>8. CASE GetConnector
  BY <1>8 DEF GetConnector
<1>9. CASE UpdateCrtcId
  BY <1>9 DEF UpdateCrtcId, MessageInv
<1>10. CASE SwitchCrtc
  BY <1>10 DEF SwitchCrtc, Record, MessageInv, RecordInv
<1>11. CASE TellClients
  <2>1. /\ \A c \in mHotPlugCallBacks : told'[c] = State(plugIn)
        /\ \A c \in Clients \ mHotPlugCallBacks : told'[c] = told[c]
    BY <1>11, CallbackFacts DEF IsSuccess, TellClients
  <2>2. plugIn = mConnectState
    BY <1>11 DEF IsSuccess, TellClients, MessageInv, RecordInv
  <2>3. QED
    BY <1>11, <2>1, <2>2 DEF IsSuccess, TellClients, State
<1>12. ASSUME NEW c \in Clients, RegHotPlugCallback(c) PROVE FollowInv'
  <2>1. Idle
    BY <1>12 DEF RegHotPlugCallback
  <2>2. QED
    BY <1>12, <2>1 DEF RegHotPlugCallback, Idle
<1>13. ASSUME NEW c \in Clients, RegAnnounce(c) PROVE FollowInv'
  <2>1. /\ \A d \in mHotPlugCallBacks : told'[d] = State(TRUE)
        /\ \A d \in Clients \ mHotPlugCallBacks : told'[d] = told[d]
    BY <1>13, CallbackFacts DEF RegAnnounce
  <2>2. mConnectState /\ pc \notin {"switch", "commit", "tell"}
    BY <1>13 DEF RegAnnounce
  <2>3. QED
    BY <1>13, <2>1, <2>2 DEF RegAnnounce, State
<1>14. CASE UNCHANGED vars
  BY <1>14 DEF vars
<1>15. QED
  BY <1>1, <1>2, <1>3, <1>4, <1>5, <1>6, <1>7, <1>8, <1>9, <1>10, <1>11, <1>12, <1>13, <1>14
     DEF Next, SessionInit, MonitorThread

-----------------------------------------------------------------------------
(* Inv is inductive. *)
LEMMA InvInvariant == Spec => []Inv
<1>1. Init => Inv
  <2>1. ASSUME Init PROVE TypeOK /\ StagesInv
    <3>1. uevents \in Seq(BOOLEAN)
      BY <2>1 DEF Init
    <3>2. told \in [Clients -> {"nothing", "in", "out"}]
      BY <2>1 DEF Init
    <3>3. QED
      BY <2>1, <3>1, <3>2 DEF Init, TypeOK, StagesInv, InitStages, MonitorStages
  <2>2. ASSUME Init PROVE MessageInv /\ RecordInv /\ SeenInv /\ RecordFollows
    BY <2>2 DEF Init, MessageInv, RecordInv, SeenInv, RecordFollows
  <2>3. ASSUME Init PROVE FollowInv
    BY <2>3 DEF Init, FollowInv
  <2>4. QED
    BY <2>1, <2>2, <2>3 DEF Inv
<1>2. Inv /\ [Next]_vars => Inv'
  <2> SUFFICES ASSUME Inv, [Next]_vars PROVE Inv'
    OBVIOUS
  <2>1. TypeOK' /\ StagesInv'
    BY StagesStep DEF Inv
  <2>2. setup' = setup /\ (overlapped => overlapped')
    BY HistoryStep
  <2>3. Calm' => Calm
    BY <2>2 DEF Calm
  <2>4. Calm' => MessageInv' /\ RecordInv'
    BY <2>3, RecordStep DEF Inv
  <2>5. Calm' /\ ~overlapped' => FollowInv'
    BY <2>2, <2>3, FollowStep DEF Inv
  <2>6. SeenInv' /\ RecordFollows'
    BY FollowsStep DEF Inv
  <2>7. QED
    BY <2>1, <2>4, <2>5, <2>6 DEF Inv
<1>3. QED
  BY <1>1, <1>2, PTL DEF Spec

(* The monitor, the session and the clients keep their state well-typed,   *)
(* whatever fails and however fast the cable is moved.                     *)
THEOREM TypeCorrect == Spec => []TypeOK
<1>1. Inv => TypeOK
  BY DEF Inv
<1>2. QED
  BY <1>1, InvInvariant, PTL

(* The safety half of RecordSettles, for every cable: when the socket is   *)
(* empty and HandleHotplug has returned, mConnectState is the kernel's     *)
(* answer, although messages are stale when they are read.                 *)
THEOREM RecordFollowsAlways == Spec => []RecordFollows
<1>1. Inv => RecordFollows
  BY DEF Inv
<1>2. QED
  BY <1>1, InvInvariant, PTL

(* For any number of clients, cable moves and room in the socket: once     *)
(* HandleHotplug has done with a cable that rests, the CRTC, vsync and     *)
(* every client agree with the cable, unless a registration overlapped.    *)
THEOREM ToldTheTruthAlways == Spec => []ToldTheTruth
<1>1. Inv => ToldTheTruth
  <2> SUFFICES ASSUME Inv, Quiet, Healthy, setup.slow, ~overlapped
               PROVE  /\ crtcActive \in {"client", State(plugged)}
                      /\ mEnable \in {"client", State(plugged)}
                      /\ \A c \in mHotPlugCallBacks :
                           told[c] \in IF plugged THEN {"in"} ELSE {"out", "nothing"}
    BY DEF ToldTheTruth
  <2>1. FollowInv
    BY DEF Inv, Calm, Healthy
  <2>2. mConnectState = plugged
    BY DEF Inv, RecordFollows, Quiet, Healthy
  <2>3. QED
    BY <2>1, <2>2 DEF FollowInv, Quiet
<1>2. QED
  BY <1>1, InvInvariant, PTL
=============================================================================
