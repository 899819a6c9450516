---------------------------- MODULE DrmVsyncWorker ----------------------------
(***************************************************************************)
(* The vsync thread of the composer HAL.  A singleton starts one worker,   *)
(* which sleeps on a condition variable while vsync is disabled and        *)
(* otherwise waits for the next vertical blank and calls the registered    *)
(* callback.  HAL threads register callbacks and switch vsync on and off;  *)
(* at process exit the static object's destructor stops and joins the      *)
(* worker.                                                                 *)
(*                                                                         *)
(* Lock scopes of the callers contain one assignment and no wait, so each  *)
(* is one step, taken while the mutex is free.  mRunning is written        *)
(* without the lock by Init, and mCallBack without any lock by             *)
(* ReqesterVBlankCb: those writes interleave with every step of the        *)
(* worker.                                                                 *)
(***************************************************************************)
EXTENDS Naturals

CONSTANTS
  Callers,     \* HAL threads that use the singleton
  MaxRegs,     \* bound: callbacks registered during a run
  NoCallback   \* mCallBack == nullptr

ASSUME WorkerAssumption ==
  /\ MaxRegs \in Nat
  /\ NoCallback \notin 1 .. MaxRegs

CallBacks == 1 .. MaxRegs    \* the VsyncCallBack objects, in order of creation

VARIABLES
  once,        \* GetInstance's once_flag: "no", "thread" (spawned), "done"
  initializer, \* the caller that runs Init, while it does
  wpc,         \* worker: where it is
  mutexHeld,   \* the worker holds mMutex
  mRunning, mEnable, mCallBack,
  regs,        \* callbacks created so far
  freed,       \* VsyncCallBack objects already destroyed
  current,     \* worker: object whose Vsync it is about to run
  notify,      \* callers that have left the lock scope and not yet notified
  exitPc,      \* destructor: "no", "notify", "join", "done"
  late         \* callbacks delivered since vsync was last switched off

vars == <<once, initializer, wpc, mutexHeld, mRunning, mEnable, mCallBack, regs, freed,
          current, notify, exitPc, late>>

Exiting == exitPc # "no"

-----------------------------------------------------------------------------
(***************************************************************************)
(* GetInstance: call_once runs Init for the first caller; the others wait. *)
(***************************************************************************)

(* Init starts the thread ... *)
StartThread(c) ==
  /\ once = "no"
  /\ once' = "thread"
  /\ initializer' = c
  /\ wpc' = "lock"
  /\ UNCHANGED <<mutexHeld, mRunning, mEnable, mCallBack, regs, freed, current, notify,
                 exitPc, late>>

(* ... unless there is no DRM descriptor: then Init fails, which is only   *)
(* logged, and there is no worker ...                                      *)
InitFails(c) ==
  /\ once = "no"
  /\ once' = "done"
  /\ initializer' = c
  /\ UNCHANGED <<wpc, mutexHeld, mRunning, mEnable, mCallBack, regs, freed, current, notify,
                 exitPc, late>>

(* ... and only then sets mRunning, without the lock. *)
SetRunning(c) ==
  /\ once = "thread"
  /\ initializer = c
  /\ once' = "done"
  /\ mRunning' = TRUE
  /\ UNCHANGED <<initializer, wpc, mutexHeld, mEnable, mCallBack, regs, freed, current, notify,
                 exitPc, late>>

Ready(c) == once = "done" /\ ~Exiting /\ c \notin notify

(* EnableVsync: assign under the lock ... *)
EnableVsync(c, enable) ==
  /\ Ready(c)
  /\ ~mutexHeld
  /\ mEnable' = enable
  /\ late' = IF mEnable /\ ~enable THEN 0 ELSE late
  /\ notify' = notify \cup {c}
  /\ UNCHANGED <<once, initializer, wpc, mutexHeld, mRunning, mCallBack, regs, freed, current,
                 exitPc>>

(* notify_one wakes the worker if it waits, and is lost otherwise. *)
Wake == wpc' = IF wpc = "waiting" THEN "lock" ELSE wpc

(* Mutant: nobody is woken. *)
NotifyOneSilent(c) ==
  /\ c \in notify
  /\ notify' = notify \ {c}
  /\ UNCHANGED <<once, initializer, wpc, mutexHeld, mRunning, mEnable, mCallBack, regs, freed,
                 current, exitPc, late>>

(* ... and notify_one after leaving it. *)
NotifyOne(c) ==
  /\ c \in notify
  /\ notify' = notify \ {c}
  /\ Wake
  /\ UNCHANGED <<once, initializer, mutexHeld, mRunning, mEnable, mCallBack, regs, freed,
                 current, exitPc, late>>

(* RegDisplayVBlankCallback / ReqesterVBlankCb: a new VsyncCallBack        *)
(* replaces the old one, which is destroyed with its last reference.       *)
ReqesterVBlankCb(c) ==
  /\ Ready(c)
  /\ regs < MaxRegs
  /\ regs' = regs + 1
  /\ mCallBack' = regs + 1
  /\ freed' = freed \cup ({mCallBack} \ {NoCallback})
  /\ UNCHANGED <<once, initializer, wpc, mutexHeld, mRunning, mEnable, current, notify,
                 exitPc, late>>

-----------------------------------------------------------------------------
(***************************************************************************)
(* WorkThread.                                                             *)
(***************************************************************************)

(* WaitSignalAndCheckRuning takes the mutex ... *)
WorkerLock ==
  /\ wpc = "lock"
  /\ ~mutexHeld
  /\ mutexHeld' = TRUE
  /\ wpc' = "test"
  /\ UNCHANGED <<once, initializer, mRunning, mEnable, mCallBack, regs, freed, current, notify,
                 exitPc, late>>

(* Mutant: the predicate forgets that the worker has to stop. *)
WaitPredicateEnableOnly == mEnable

(* Mutant: the predicate forgets mEnable. *)
WaitPredicateAlways == TRUE

(* What ends the wait. *)
WaitPredicate == mEnable \/ ~mRunning

(* ... tests the predicate: wait releases the mutex and sleeps ... *)
WorkerTest ==
  /\ wpc = "test"
  /\ IF WaitPredicate
       THEN wpc' = "check" /\ UNCHANGED mutexHeld
       ELSE wpc' = "waiting" /\ mutexHeld' = FALSE
  /\ UNCHANGED <<once, initializer, mRunning, mEnable, mCallBack, regs, freed, current, notify,
                 exitPc, late>>

(* ... or is woken for no reason, which the standard allows ... *)
SpuriousWakeup ==
  /\ wpc = "waiting"
  /\ wpc' = "lock"
  /\ UNCHANGED <<once, initializer, mutexHeld, mRunning, mEnable, mCallBack, regs, freed,
                 current, notify, exitPc, late>>

(* ... and reads mRunning a second time for the result. *)
WorkerCheckRunning ==
  /\ wpc = "check"
  /\ mutexHeld' = FALSE
  /\ wpc' = IF mRunning THEN "vblank" ELSE "exit"
  /\ UNCHANGED <<once, initializer, mRunning, mEnable, mCallBack, regs, freed, current, notify,
                 exitPc, late>>

(* WaitNextVBlank returns, with a time or with the result of a failed      *)
(* drmWaitVBlank; the loop does not tell them apart.                       *)
WaitNextVBlank ==
  /\ wpc = "vblank"
  /\ wpc' = "callback"
  /\ UNCHANGED <<once, initializer, mutexHeld, mRunning, mEnable, mCallBack, regs, freed,
                 current, notify, exitPc, late>>

(* The null test reads mCallBack, and so does the call on the next line:   *)
(* one step here, as the two loads differ only if the callback is replaced *)
(* between them, and no property speaks of a replaced callback ...         *)
ReadCallback ==
  /\ wpc = "callback"
  /\ current' = mCallBack
  /\ wpc' = IF mCallBack = NoCallback THEN "lock" ELSE "call"
  /\ UNCHANGED <<once, initializer, mutexHeld, mRunning, mEnable, mCallBack, regs, freed,
                 notify, exitPc, late>>

(* ... and Vsync runs on the object, with no reference held. *)
CallVsync ==
  /\ wpc = "call"
  /\ late' = IF mEnable THEN late ELSE late + 1
  /\ current' = NoCallback
  /\ wpc' = "lock"
  /\ UNCHANGED <<once, initializer, mutexHeld, mRunning, mEnable, mCallBack, regs, freed,
                 notify, exitPc>>

-----------------------------------------------------------------------------
(***************************************************************************)
(* ~DrmVsyncWorker at process exit, when no HAL call is in flight.         *)
(***************************************************************************)
ExitStop ==
  /\ once = "done" /\ exitPc = "no" /\ notify = {}
  /\ ~mutexHeld
  /\ mRunning' = FALSE
  /\ exitPc' = "notify"
  /\ UNCHANGED <<once, initializer, wpc, mutexHeld, mEnable, mCallBack, regs, freed, current,
                 notify, late>>

ExitNotify ==
  /\ exitPc = "notify"
  /\ Wake
  /\ exitPc' = "join"
  /\ UNCHANGED <<once, initializer, mutexHeld, mRunning, mEnable, mCallBack, regs, freed,
                 current, notify, late>>

(* Mutant: the destructor does not join the thread. *)
ExitDetach ==
  /\ exitPc = "join"
  /\ exitPc' = "done"
  /\ freed' = freed \cup ({mCallBack} \ {NoCallback})
  /\ UNCHANGED <<once, initializer, wpc, mutexHeld, mRunning, mEnable, mCallBack, regs,
                 current, notify, late>>

(* join returns, if there is a thread, then the members are destroyed, mCallBack among them. *)
ExitJoin ==
  /\ exitPc = "join"
  /\ wpc \in {"none", "exit"}
  /\ exitPc' = "done"
  /\ freed' = freed \cup ({mCallBack} \ {NoCallback})
  /\ UNCHANGED <<once, initializer, wpc, mutexHeld, mRunning, mEnable, mCallBack, regs,
                 current, notify, late>>

Terminated == exitPc = "done" /\ wpc \in {"none", "exit"} /\ UNCHANGED vars

-----------------------------------------------------------------------------
Init ==
  /\ once = "no" /\ initializer \in Callers
  /\ wpc = "none" /\ mutexHeld = FALSE
  /\ mRunning = FALSE /\ mEnable = FALSE /\ mCallBack = NoCallback
  /\ regs = 0 /\ freed = {} /\ current = NoCallback
  /\ notify = {} /\ exitPc = "no" /\ late = 0

Worker == \/ WorkerLock \/ WorkerTest \/ WorkerCheckRunning
          \/ WaitNextVBlank \/ ReadCallback \/ CallVsync

Caller(c) == \/ StartThread(c) \/ InitFails(c) \/ SetRunning(c)
             \/ \E enable \in BOOLEAN : EnableVsync(c, enable)
             \/ NotifyOne(c) \/ ReqesterVBlankCb(c)

Destructor == ExitStop \/ ExitNotify \/ ExitJoin

Next == \/ Worker \/ SpuriousWakeup
        \/ \E c \in Callers : Caller(c)
        \/ Destructor \/ Terminated

Spec == Init /\ [][Next]_vars

(* The scheduler runs the worker, a caller that has left the lock scope    *)
(* goes on to notify, and a destructor that has begun goes on; nobody is   *)
(* obliged to call the API or to exit.                                     *)
FairSpec ==
  /\ Spec
  /\ WF_vars(Worker)
  /\ \A c \in Callers : WF_vars(NotifyOne(c)) /\ WF_vars(SetRunning(c))
  /\ WF_vars(ExitNotify) /\ WF_vars(ExitJoin)

-----------------------------------------------------------------------------
(* Program counters, flags and callback objects stay in their ranges; only *)
(* objects that existed are freed.                                         *)
TypeOK ==
  /\ once \in {"no", "thread", "done"}
  /\ initializer \in Callers
  /\ wpc \in {"none", "lock", "test", "waiting", "check", "vblank", "callback", "call", "exit"}
  /\ mutexHeld \in BOOLEAN /\ mRunning \in BOOLEAN /\ mEnable \in BOOLEAN
  /\ mCallBack \in CallBacks \cup {NoCallback}
  /\ current \in CallBacks \cup {NoCallback}
  /\ regs \in 0 .. MaxRegs
  /\ freed \subseteq CallBacks
  /\ notify \subseteq Callers
  /\ exitPc \in {"no", "notify", "join", "done"}
  /\ late \in Nat

(* After vsync is switched off at most one more callback is delivered: the *)
(* one whose vblank the worker was already waiting for.  The same holds    *)
(* before vsync is switched on for the first time, when a worker that      *)
(* overtakes Init sees mRunning change between its two reads.              *)
AtMostOneLate == late <= 1

(* As long as one callback has been registered, the object whose Vsync     *)
(* runs is alive: the destructor frees it only after the worker is gone.   *)
(* A second registration destroys the first object under the worker's feet *)
(* and nothing is promised then.                                           *)
CallbackAlive == regs <= 1 /\ wpc = "call" => current \notin freed

(* Once vsync is on and a callback is registered, a worker that has not    *)
(* exited delivers a vsync, unless vsync is switched off or the process    *)
(* exits first.                                                            *)
Waiting == mEnable /\ mCallBack # NoCallback /\ wpc \notin {"none", "exit"} /\ ~Exiting
EnabledIsServed == Waiting ~> (wpc = "call" \/ ~mEnable \/ Exiting \/ wpc = "exit")

(* The destructor never hangs in join. *)
DestructorTerminates == Exiting ~> (exitPc = "done")

(* GetInstance logs "Vsync Worker Init failed" (drm_vsync_worker.cpp:44)   *)
(* when there is no worker; silence means a worker that serves vsync until *)
(* the process exits.                                                      *)
WorkerSurvivesInit == once = "done" /\ ~Exiting => wpc # "exit"
=============================================================================
