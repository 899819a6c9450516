------------------------- MODULE DrmVsyncWorkerProofs -------------------------
(***************************************************************************)
(* The vsync worker against any number of HAL threads and any number of    *)
(* registered callbacks.                                                   *)
(***************************************************************************)
EXTENDS DrmVsyncWorker, TLAPS

(* The worker holds the mutex exactly while it is inside                   *)
(* WaitSignalAndCheckRuning and not asleep.                                *)
LockInv == mutexHeld <=> wpc \in {"test", "check"}

(* What the call_once of GetInstance separates: before it is over there is *)
(* no API call, no exit and nothing delivered.                             *)
OnceInv ==
  /\ once = "no" => wpc = "none"
  /\ once # "done" => ~mRunning /\ ~mEnable /\ exitPc = "no" /\ late = 0
  /\ once # "done" => wpc \notin {"vblank", "callback", "call"}

(* A worker on its way to a delivery nobody asked for is the first since   *)
(* vsync went off: it tested the predicate while vsync was on, or before   *)
(* SetRunning.                                                             *)
LateInv ==
  /\ late <= 1
  /\ ~mEnable /\ wpc \in {"vblank", "callback", "call"} => late = 0
  /\ ~mEnable /\ wpc = "check" /\ mRunning => late = 0

(* One registration frees nothing; the destructor frees after the join.    *)
FreedInv ==
  /\ regs = 0 => mCallBack = NoCallback
  /\ regs <= 1 /\ exitPc # "done" => freed = {}
  /\ exitPc = "done" => wpc \in {"none", "exit"}

(* The inductive invariant. *)
Inv == TypeOK /\ LockInv /\ OnceInv /\ LateInv /\ FreedInv

(* Before the first GetInstance there is no thread and no callback. *)
LEMMA InitInv == Init => Inv
<1> SUFFICES ASSUME Init PROVE Inv
  OBVIOUS
<1>1. mutexHeld \in BOOLEAN /\ mRunning \in BOOLEAN /\ mEnable \in BOOLEAN
  BY Zenon DEF Init
<1> QED BY <1>1, WorkerAssumption
  DEF Init, Inv, TypeOK, LockInv, OnceInv, LateInv, FreedInv, CallBacks

(* Every step of the callers, of the worker and of the destructor keeps    *)
(* the invariant.                                                          *)
LEMMA NextInv == Inv /\ [Next]_vars => Inv'
<1> SUFFICES ASSUME Inv, [Next]_vars PROVE Inv'
  OBVIOUS
<1> USE WorkerAssumption DEF Inv, TypeOK, LockInv, OnceInv, LateInv, FreedInv, CallBacks
<1>1. ASSUME NEW c \in Callers, StartThread(c) PROVE Inv'
  BY <1>1 DEF StartThread
<1>2. ASSUME NEW c \in Callers, InitFails(c) PROVE Inv'
  BY <1>2 DEF InitFails
<1>3. ASSUME NEW c \in Callers, SetRunning(c) PROVE Inv'
  BY <1>3 DEF SetRunning
<1>4. ASSUME NEW c \in Callers, NEW enable \in BOOLEAN, EnableVsync(c, enable) PROVE Inv'
  BY <1>4 DEF EnableVsync, Ready, Exiting
<1>5. ASSUME NEW c \in Callers, NotifyOne(c) PROVE Inv'
  BY <1>5 DEF NotifyOne, Wake
<1>6. ASSUME NEW c \in Callers, ReqesterVBlankCb(c) PROVE Inv'
  <2>1. /\ once = "done" /\ ~Exiting /\ regs < MaxRegs
        /\ regs' = regs + 1 /\ mCallBack' = regs + 1
        /\ freed' = freed \cup ({mCallBack} \ {NoCallback})
        /\ UNCHANGED <<once, initializer, wpc, mutexHeld, mRunning, mEnable, current, notify,
                       exitPc, late>>
    BY <1>6 DEF ReqesterVBlankCb, Ready
  <2>2. regs' \in 1 .. MaxRegs /\ mCallBack' \in CallBacks
    BY <2>1
  <2>3. freed' \subseteq CallBacks /\ (regs' <= 1 => freed' = {})
    <3>1. freed' \subseteq CallBacks
      BY <2>1
    <3>2. regs' <= 1 => regs = 0
      BY <2>1
    <3>3. regs = 0 => mCallBack = NoCallback /\ freed = {}
      BY <2>1 DEF Exiting
    <3> QED BY <2>1, <3>1, <3>2, <3>3
  <2>4. FreedInv'
    BY <2>1, <2>2, <2>3 DEF Exiting
  <2> QED BY <2>1, <2>2, <2>3, <2>4
<1>7. CASE WorkerLock
  BY <1>7 DEF WorkerLock
<1>8. CASE WorkerTest
  BY <1>8 DEF WorkerTest, WaitPredicate
<1>9. CASE SpuriousWakeup
  BY <1>9 DEF SpuriousWakeup
<1>10. CASE WorkerCheckRunning
  BY <1>10 DEF WorkerCheckRunning
<1>11. CASE WaitNextVBlank
  BY <1>11 DEF WaitNextVBlank
<1>12. CASE ReadCallback
  <2>1. current' \in CallBacks \cup {NoCallback} /\ wpc' \in {"lock", "call"}
    BY <1>12 DEF ReadCallback
  <2> QED BY <1>12, <2>1 DEF ReadCallback
<1>13. CASE CallVsync
  <2>1. mEnable \/ late = 0
    BY <1>13 DEF CallVsync
  <2>2. late' \in Nat /\ late' <= 1 /\ (once # "done" => late' = 0)
    BY <1>13, <2>1 DEF CallVsync
  <2> QED BY <1>13, <2>2 DEF CallVsync
<1>14. CASE ExitStop
  BY <1>14 DEF ExitStop
<1>15. CASE ExitNotify
  BY <1>15 DEF ExitNotify, Wake
<1>16. CASE ExitJoin
  BY <1>16 DEF ExitJoin
<1>17. CASE UNCHANGED vars
  BY <1>17 DEF vars
<1> QED BY <1>1, <1>2, <1>3, <1>4, <1>5, <1>6, <1>7, <1>8, <1>9, <1>10, <1>11, <1>12, <1>13,
          <1>14, <1>15, <1>16, <1>17 DEF Next, Worker, Caller, Destructor, Terminated

(* The program counters and flags of the worker stay in their ranges.      *)
THEOREM TypeCorrect == Spec => []TypeOK
<1>1. Inv => TypeOK
  BY DEF Inv
<1> QED BY InitInv, NextInv, <1>1, PTL DEF Spec

(* However the callers, the worker and the destructor interleave, at most  *)
(* one vsync is delivered after EnableVsync(false) has returned.           *)
THEOREM LateBounded == Spec => []AtMostOneLate
<1>1. Inv => AtMostOneLate
  BY DEF Inv, LateInv, AtMostOneLate
<1> QED BY InitInv, NextInv, <1>1, PTL DEF Spec

(* With one registration, Vsync never runs on a destroyed VsyncCallBack,   *)
(* process exit included.                                                  *)
THEOREM CallbackIsAlive == Spec => []CallbackAlive
<1>1. Inv => CallbackAlive
  BY DEF Inv, FreedInv, CallbackAlive
<1> QED BY InitInv, NextInv, <1>1, PTL DEF Spec
=============================================================================
