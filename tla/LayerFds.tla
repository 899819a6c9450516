------------------------------- MODULE LayerFds -------------------------------
(***************************************************************************)
(* The descriptors of one display's layers.  Caller and HAL live in the    *)
(* composer host and share one descriptor table, in which a number that    *)
(* was closed names another file soon after.  A layer duplicates the       *)
(* buffer and the acquire fence it is given and keeps, next to them, a     *)
(* copy of the caller's handle with the caller's own number; Prepare fills *)
(* the cursor layer from that copy.  Out-fences enter a queue of plain     *)
(* numbers and leave it into the caller's hands.                           *)
(*                                                                         *)
(* Abstractions.  The kernel hands out the lowest free number; as other    *)
(* threads of the host open and close files all the time, any free number  *)
(* may come.  Z-order and composition types are in HdiDisplay: the last    *)
(* cursor layer Prepare visits is any layer with a buffer.  The queue of   *)
(* the cursor layer, which nothing reads, is counted in DrmCommit.  As     *)
(* there, the display is one whose Init succeeded: PushFirstFrame got its  *)
(* buffer.                                                                 *)
(***************************************************************************)
EXTENDS Naturals, Sequences

CONSTANTS
  Fds,          \* bound: the numbers of the descriptor table (RLIMIT_NOFILE)
  NoFd,         \* -1
  Layers,       \* layers of mLayersMap
  Buffers,      \* dma-bufs the caller may open
  Fences,       \* acquire fences the caller may open
  FirstBuffer   \* what PushFirstFrame allocates

ASSUME FdsAssumption ==
  /\ NoFd \notin Fds
  /\ {"client", "cursor"} \cap Layers = {}
  /\ FirstBuffer \notin Buffers
  /\ (Buffers \cup {FirstBuffer}) \cap Fences = {}
  /\ "out" \notin Buffers \cup Fences \cup {FirstBuffer}
  /\ "none" \notin Buffers \cup Fences \cup {FirstBuffer}

AllLayers == Layers \cup {"client", "cursor"}
Files     == Buffers \cup Fences \cup {FirstBuffer, "out"}
Owners    == {"hal", "caller", "handle"}
Closed    == [file |-> "none", owner |-> "none"]

VARIABLES
  table,          \* number -> the file behind it and who has to close it: the caller,
                  \* the HAL, or FreeMem of the handle of the first frame
  mFd,            \* HdiLayerBuffer::mFd of every layer's buffer
  mHandle,        \* HdiLayerBuffer::mHandle.fd of the layers of mLayersMap
  mAcquireFence,  \* HdiLayer::mAcquireFence
  releaseFences,  \* releaseFences_ of the client layer
  started,        \* PushFirstFrame has run
  keeps,          \* caller: keeps a handle open until the layer has another
  given,          \* history: the buffer a layer was given last
  givenFence      \* history: the acquire fence a layer was given last

layerVars == <<mFd, mHandle, mAcquireFence>>
history   == <<given, givenFence>>
vars == <<table, layerVars, releaseFences, started, keeps, history>>

-----------------------------------------------------------------------------
Free(t) == {n \in Fds : t[n] = Closed}

Open(t, n, file, owner) == [t EXCEPT ![n] = [file |-> file, owner |-> owner]]

(* Mutant: the number is borrowed instead of duplicated. *)
DupBorrowed(t, n) == {[fd |-> n, table |-> t]}

(* dup: EBADF for a number that is not open, EMFILE when the table is full. *)
Dup(t, n) ==
  IF n # NoFd /\ t[n] # Closed /\ Free(t) # {}
    THEN {[fd |-> f, table |-> Open(t, f, t[n].file, "hal")] : f \in Free(t)}
    ELSE {[fd |-> NoFd, table |-> t]}

(* Mutant: nothing is closed. *)
CloseFdNot(t, n) == t

(* ~HdiLayerBuffer, ~HdiFd and HdiFd::operator=. *)
CloseFd(t, n) == IF n = NoFd THEN t ELSE [t EXCEPT ![n] = Closed]

(* Mutant: a layer that waits for a fence keeps it. *)
SetAcquireFenceOnce(k, t, fence) ==
  IF fence = NoFd \/ mAcquireFence[k] # NoFd
    THEN table' = t /\ UNCHANGED mAcquireFence
    ELSE \E a \in Dup(t, fence) :
           /\ table' = a.table
           /\ mAcquireFence' = [mAcquireFence EXCEPT ![k] = a.fd]

(* mAcquireFence = dup(fence); without a fence the old one stays. *)
SetAcquireFence(k, t, fence) ==
  IF fence = NoFd
    THEN table' = t /\ UNCHANGED mAcquireFence
    ELSE \E a \in Dup(t, fence) :
           /\ table' = CloseFd(a.table, mAcquireFence[k])
           /\ mAcquireFence' = [mAcquireFence EXCEPT ![k] = a.fd]

(* Mutant: the old HdiLayerBuffer is assigned to, and its operator= leaves *)
(* mHandle alone.                                                          *)
NewHandleKept(k, n) == IF mHandle[k] = NoFd THEN n ELSE mHandle[k]

(* A new HdiLayerBuffer copies the whole handle, the number included. *)
NewHandle(k, n) == n

(* HdiLayer::SetLayerBuffer: the new object is made before the old one     *)
(* is destroyed.                                                           *)
Attach(k, n, fence) ==
  \E b \in Dup(table, n) :
    /\ SetAcquireFence(k, CloseFd(b.table, mFd[k]), fence)
    /\ mFd' = [mFd EXCEPT ![k] = b.fd]
    /\ mHandle' = [l \in Layers |-> IF l = k THEN NewHandle(k, n) ELSE mHandle[l]]

-----------------------------------------------------------------------------
(***************************************************************************)
(* The caller.                                                             *)
(***************************************************************************)
Callers(files) == {n \in Fds : table[n].owner = "caller" /\ table[n].file \in files}

CallerOpens(file) ==
  /\ started
  /\ \E n \in Free(table) : table' = Open(table, n, file, "caller")
  /\ UNCHANGED <<layerVars, releaseFences, started, keeps, history>>

CallerCloses(n) ==
  /\ table[n].owner = "caller"
  /\ keeps => \A l \in Layers : mHandle[l] # n
  /\ table' = [table EXCEPT ![n] = Closed]
  /\ UNCHANGED <<layerVars, releaseFences, started, keeps, history>>

(* SetLayerBuffer and SetDisplayClientBuffer. *)
SetLayerBuffer(k, n, fence) ==
  /\ started
  /\ Attach(k, n, fence)
  /\ given' = [l \in Layers |-> IF l = k THEN table[n].file ELSE given[l]]
  /\ givenFence' = IF fence = NoFd THEN givenFence
                   ELSE [givenFence EXCEPT ![k] = table[fence].file]
  /\ UNCHANGED <<releaseFences, started, keeps>>

(* PrepareDisplayLayers whose last cursor layer is l. *)
PrepareCursor(l) ==
  /\ started
  /\ mHandle[l] # NoFd
  /\ Attach("cursor", mHandle[l], NoFd)
  /\ UNCHANGED <<releaseFences, started, keeps, history>>

(* The layer's destructor closes its buffer and its fence; a new layer     *)
(* takes the place, without either.                                        *)
DestroyLayer(l) ==
  /\ mHandle[l] # NoFd
  /\ table' = CloseFd(CloseFd(table, mFd[l]), mAcquireFence[l])
  /\ mFd' = [mFd EXCEPT ![l] = NoFd]
  /\ mHandle' = [mHandle EXCEPT ![l] = NoFd]
  /\ mAcquireFence' = [mAcquireFence EXCEPT ![l] = NoFd]
  /\ given' = [given EXCEPT ![l] = "none"]
  /\ givenFence' = [givenFence EXCEPT ![l] = "none"]
  /\ UNCHANGED <<releaseFences, started, keeps>>

-----------------------------------------------------------------------------
(***************************************************************************)
(* Frames.  A commit the kernel accepts makes an out-fence; it is refused  *)
(* when no number is free, and may be for other reasons.                   *)
(***************************************************************************)

(* What is queued, and the table, after Apply. *)
Applied(t) ==
  {[table |-> t, queue |-> releaseFences]}
  \cup {[table |-> Open(t, n, "out", "hal"), queue |-> Append(releaseFences, n)] : n \in Free(t)}

(* PushFirstFrame: AllocMem opens a number for its handle and the client   *)
(* layer duplicates it; the handle itself is forgotten, not freed.         *)
PushFirstFrame ==
  /\ ~started
  /\ \E n \in Free(table) : \E b \in Dup(Open(table, n, FirstBuffer, "handle"), n) :
       /\ mFd' = [mFd EXCEPT !["client"] = b.fd]
       /\ \E a \in Applied(b.table) : table' = a.table /\ releaseFences' = a.queue
  /\ started' = TRUE
  /\ UNCHANGED <<mHandle, mAcquireFence, keeps, history>>

(* GetReleaseFenceFd: the number leaves the queue and is the caller's. *)
ReleaseFenceFd(a) ==
  IF a.queue = <<>>
    THEN table' = a.table /\ releaseFences' = a.queue
    ELSE /\ table' = [a.table EXCEPT ![Head(a.queue)].owner = "caller"]
         /\ releaseFences' = Tail(a.queue)

Commit ==
  /\ started
  /\ \E a \in Applied(table) : ReleaseFenceFd(a)
  /\ UNCHANGED <<layerVars, started, keeps, history>>

-----------------------------------------------------------------------------
Init ==
  /\ table = [n \in Fds |-> Closed]
  /\ mFd = [k \in AllLayers |-> NoFd]
  /\ mHandle = [l \in Layers |-> NoFd]
  /\ mAcquireFence = [k \in AllLayers |-> NoFd]
  /\ releaseFences = <<>>
  /\ started = FALSE
  /\ keeps \in BOOLEAN
  /\ given = [l \in Layers |-> "none"]
  /\ givenFence = [k \in AllLayers |-> "none"]

Next ==
  \/ PushFirstFrame
  \/ Commit
  \/ \E file \in Buffers \cup Fences : CallerOpens(file)
  \/ \E n \in Fds : CallerCloses(n)
  \/ \E k \in AllLayers \ {"cursor"}, n \in Callers(Buffers), fence \in Callers(Fences) \cup {NoFd} :
       SetLayerBuffer(k, n, fence)
  \/ \E l \in Layers : PrepareCursor(l) \/ DestroyLayer(l)

Spec == Init /\ [][Next]_vars

-----------------------------------------------------------------------------
TypeOK ==
  /\ table \in [Fds -> [file : Files, owner : Owners] \cup {Closed}]
  /\ mFd \in [AllLayers -> Fds \cup {NoFd}]
  /\ mHandle \in [Layers -> Fds \cup {NoFd}]
  /\ mAcquireFence \in [AllLayers -> Fds \cup {NoFd}]
  /\ releaseFences \in Seq(Fds)
  /\ started \in BOOLEAN /\ keeps \in BOOLEAN
  /\ given \in [Layers -> Files \cup {"none"}]
  /\ givenFence \in [AllLayers -> Files \cup {"none"}]

(* The places where the HAL remembers a number it will close or hand out. *)
Places == {<<"buffer", k>> : k \in AllLayers} \cup {<<"fence", k>> : k \in AllLayers}
          \cup {<<"queue", i>> : i \in 1 .. Len(releaseFences)}
Held(p) == CASE p[1] = "buffer" -> mFd[p[2]]
             [] p[1] = "fence"  -> mAcquireFence[p[2]]
             [] p[1] = "queue"  -> releaseFences[p[2]]
Holding == {p \in Places : Held(p) # NoFd}

(* Whoever the HAL closes or hands out is its own: every number a layer or *)
(* the fence queue remembers is open, belongs to the HAL, and is           *)
(* remembered in one place only.  A close through a second copy would hit  *)
(* a file of somebody else that has taken the number since.                *)
HeldAreOwn ==
  \A p \in Holding :
    /\ table[Held(p)].owner = "hal"
    /\ \A q \in Holding : Held(p) = Held(q) => p = q

(* The HAL loses one descriptor, and never another one: that of the handle *)
(* PushFirstFrame allocates, which stays open for good, as nobody frees    *)
(* the handle.  Whichever dup or commit fails, every other number it has   *)
(* opened is remembered where it will be closed or handed out.             *)
Lost == {n \in Fds : table[n].owner \in {"hal", "handle"} /\ \A p \in Holding : Held(p) # n}
OnlyFirstHandleLost ==
  IF started THEN \E n \in Fds : Lost = {n} /\ table[n].file = FirstBuffer ELSE Lost = {}

(* The cursor layer gets the buffer of the layer it is copied from,        *)
(* although the copy goes through the caller's number, as long as the      *)
(* caller keeps a handle open until the layer has another one.             *)
CursorShowsLayer ==
  [][ \A l \in Layers :
        PrepareCursor(l) /\ keeps /\ mFd'["cursor"] # NoFd =>
          table'[mFd'["cursor"]].file = given[l] ]_vars

(* The fence a layer passes to the kernel is the one it was given last,    *)
(* perhaps with an earlier buffer, and never a file that took its number.  *)
WaitsForLastFence ==
  \A k \in AllLayers :
    mAcquireFence[k] # NoFd => table[mAcquireFence[k]].file = givenFence[k]
=============================================================================
