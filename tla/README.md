# The display HAL of the OpenHarmony QEMU port, specified in TLA+

The repository is the board and SoC support of an OpenHarmony port to QEMU's
arm64 virt machine. Nearly all of its 1.4 million lines are vendored kernel
drivers, media libraries, firmware and configuration. The logic of the port
itself is the display hardware abstraction layer (HAL) in
`src/device/soc/qemu/arm64_virt/hardware/display`, about 6,300 lines of C++ that
are built with `PLANE_CURSOR_SUPPORT`. This project models that HAL, and of its
RK3568 variant the one thing it has in addition, hot plug at run time.

Below, `D/` stands for
`src/device/soc/qemu/arm64_virt/hardware/display/src/display_device/` and `G/`
for `.../display/src/display_gralloc/`; `R/` is
`src/device/soc/qemu/arm64_virt/hardware.rk3568/display/src/display_device/`.

## 1. Inventory

| Component | State | Operations | Interaction |
|---|---|---|---|
| Composer VDI, `D/composer/display_composer_vdi_impl.cpp` | none | one forwarding method per HDI call | called by the composer service; calls `HdiSession` |
| `HdiSession`, `D/core/hdi_session.cpp` | displays by id, hot-plug callbacks | Init, RegHotPlugCallback, dispatch by id | owns the `HdiDisplay`s |
| `HdiDisplay`, `HdiLayer`, `D/core/` | `mLayersMap`, `mLayers`, `mChangeLayers`, static id pools, z-order, type and buffer of a layer | CreateLayer, DestroyLayer, SetLayerZorder, SetLayerBuffer, SetLayerCompositionType, PrepareDisplayLayers, GetDisplayCompChange, Commit | Prepare and Commit go through `HdiComposer` to the composition |
| `HdiDrmComposition`, `HdiDrmLayer`, `DrmGemBuffer`, `D/drm/` | raw pointers to the last and the current buffer, two owned buffers per layer, release fences | SetLayers, SetCursorLayer, Apply | atomic requests to the kernel |
| `DrmDisplay`, `DrmCrtc`, `D/drm/` | active mode, need-mode-set flag | Init with PushFirstFrame, SetDisplayMode, power, backlight | owns the composer; shares connector and CRTC with the composition |
| `DrmVsyncWorker`, `D/drm/` | running and enabled flags, callback, a thread | GetInstance, EnableVsync, ReqesterVBlankCb, destructor | a thread of its own; calls back into the composer service |
| `DrmDevice`, `DrmConnector`, `DrmEncoder`, `DrmPlane`, `D/drm/` | kernel objects found at start | discovery, choice of CRTC and planes | creates the `DrmDisplay`s |
| Gralloc, `G/` | GBM device with a reference count, buffer handles | AllocMem, FreeMem, Mmap, Unmap, cache synchronisation | used by PushFirstFrame and by other processes |
| `HdiFd`, `HdiLayerBuffer`, fence queues, `D/core/` | descriptor numbers of buffers, acquire fences and out-fences | SetLayerBuffer, the destructors, SetReleaseFence, GetReleaseFenceFd | one descriptor table, shared with the composer service |
| `HdiNetLinkMonitor`, `HandleHotplug`, `R/` | recorded connection of a connector, callbacks, a socket, a thread | Init, MonitorThread, HandleHotplug, RegHotPlugCallback | uevents in, vsync and CRTC switched, clients told |
| Gfx composition, other RK3568 copies of the HAL, mpp, rga, isp, GPU and kernel trees | – | – | dead, superseded or vendored code |

What is hard here: two containers that must agree about which layers exist,
one of them sorted by a key that changes; raw pointers next to owning ones,
moved in one order on success and left alone on failure; a kernel that may
refuse any step of a frame; a thread that is started, woken and joined around
flags that are partly read without their lock; descriptor numbers that are
copied next to descriptors that are owned; messages that are stale when they
are read; and id arithmetic at the edge of an unsigned type. The full list, each entry at its line, is under `hazards` in
`PROJECT.json`.

What makes each component correct:

* registry: the containers agree, the order is the z-order, ids are unique, the
  caller learns every change of a composition type;
* id pool: an id in use is never handed out, the scan ends;
* vsync worker: enabled vsync is served, disabled vsync falls silent, shutdown
  ends and frees nothing in use;
* frame commit: the frame the caller gave is on the screen, nothing leaks,
  nothing is used after it was destroyed, errors reach the caller;
* discovery: no CRTC serves two displays, a display that could not be
  initialised is not offered;
* gralloc: the device is closed once and not before its last user, no handle is
  unmapped or closed twice;
* descriptors of layers: closed once, by their owner, whichever call fails;
* hot plug: the record follows the cable, clients hear the truth, no message is
  left lying.

## 2. Modules

| Module | Models | Proofs |
|---|---|---|
| `HdiDisplay` | layer registry, Prepare, change list; several displays over one id pool | `HdiDisplayProofs` |
| `LayerStack` | what the registry promises: a stack of distinct layers sorted by z-order | refined in `HdiDisplayProofs` |
| `IdPool` | `GetIdleId` one loop turn per step | `IdPoolProofs` |
| `DrmVsyncWorker` | the worker thread, its callers, its destructor | `DrmVsyncWorkerProofs` |
| `DrmCommit` | one display's frames, from `Commit` through `Apply` to the release of old buffers | `DrmCommitProofs` |
| `LayerFds` | the descriptors layers duplicate, copy, queue and hand out | `LayerFdsProofs` |
| `HotPlug` | the netlink thread of the RK3568 variant, the session's start and late registrations | `HotPlugProofs` |
| `DrmDiscovery` | how `HdiSession::Init` finds displays, binds CRTCs and planes, and announces them | `DrmDiscoveryProofs` |
| `GbmGralloc` | users of the GBM device, life cycle of buffer handles | `GbmGrallocProofs` |
| `GbmLayout` | the size arithmetic of `hdi_gbm_bo_create` | `GbmGrallocProofs` |
| `MCHdiDisplay`, `MCIdPool`, `MCDrmVsyncWorker`, `MCDrmCommit`, `MCDrmDiscovery`, `MCGbmGralloc`, `MCGbmLayout`, `MCLayerFds`, `MCHotPlug` | instances for TLC | – |

The modules meet at narrow places. `HdiDisplay` takes from `IdPool` that a fresh
id is fresh; `DrmCommit` begins with a display that `DrmDiscovery` calls
"ready", with a CRTC and planes of its own; the first frame `DrmCommit` pushes
is a buffer of `GbmGralloc`. `LayerFds` looks at `SetLayerBuffer`, Prepare and
Commit once more, from the side of the descriptor table. Each module states what it takes over as its
`Init` or as a guard.

Variables keep the names of the members they model, actions those of the
functions (`SetLayerZorder`, `ReqesterVBlankCb`, `CheckbootCompleted`). A
definition that begins with the comment "Mutant:" is a deliberately wrong variant of the definition that follows;
nothing uses it except the mutation runs recorded in `PROJECT.json`.

**HdiDisplay.** A layer object is its id. `mLayersMap[d]` is the set of layers a
display owns, `mLayers[d]` the multiset in iteration order. `IsUpperBound` and
`EqualRange` are the positions `std::multiset` defines for the comparison
`SortLayersByZ`; `Erase` is the loop that looks for the pointer among layers of
its z-order. `PrepareDisplayLayers` contains the calls it makes:
`HdiComposer::Prepare`, `HdiDrmComposition::SetLayers`, the copy of the cursor
buffer, and the change list. The caller is the composer service, which is not in
the repository; `Init` chooses one of `Callers`. A disciplined one reads the
changes after each Prepare and before it destroys a layer, any other may do
anything; a record also says which displays, z-orders, types and buffers it uses.
`PrepareNullBuffer` is the crash of line 201. `IdleId` wrap-around is not here
but in `IdPool`.

**IdPool.** One call at a time, as the static members have no lock. `Invalid`
stands for 2^32 - 1, `Width` for 2^32. `Releases` tells `HdiDisplay`, whose
destructor gives the id back, from `HdiLayer`, which never does; as nobody has
to give an id back, `TRUE` covers both.

**DrmVsyncWorker.** A caller's lock scope is one step, taken while the worker
does not hold the mutex. `Init` is two steps, because the thread runs as soon
as it is created and `mRunning` is set afterwards without the lock. The wait is
split into taking the mutex, testing the predicate, sleeping, and reading
`mRunning` again for the result.

**DrmCommit.** `pc` walks through `Apply`. Each layer kind (client, cursor) owns
two `DrmGemBuffer` objects, `mCurrentBuffer` and `lastBuffer`; the raw pointers
of the composition are modelled by what they point to: null, the layer's
current object, its last object, or one that is gone. The kernel keeps a table
of GEM handles (a dma-buf imported twice has one handle), a table of
framebuffers, and what each plane shows; removing a framebuffer that is shown
switches its plane off. `Init` chooses a setup: the kernel calls that may fail
(`prop`, a property cannot be added; `import`, `addfb`, `blob`, `commit`,
`dpms`), the number of cursor planes, and the modes and power states the caller
asks for. Without the blob of the mode, or for a mode the connector does not
have, `UpdateMode` leaves ACTIVE and MODE_ID out of the request and reports
success: the commit succeeds in the old mode, unless the CRTC is off, as the
kernel refuses an out-fence on one that stays off (`Acceptable`). The GEM and
framebuffer tables are external: the DRM core is in the repository as a vendored
tree, which section 5 leaves out.
`SetDisplayPowerStatus` switches the CRTC and remembers what the kernel
accepted; the next frame sets ACTIVE again, because `mNeedModeSet` is never
reset, and the remembered state does not learn of it. A use after free sets
`dangling` and ends the behaviour.

**LayerFds.** `table` is the descriptor table of the process: the file behind
each number, and who has to close it. `dup` may return any free number and
fails when there is none. `mHandle` is the caller's number that
`HdiLayerBuffer` copies along with the handle; nothing closes it, but Prepare
passes it to `dup` again for the cursor layer. `PushFirstFrame` opens a number
of its own besides the duplicate of the client layer: that of the handle it
allocates, which `FreeMem` would have to close and nobody calls `FreeMem` for
(owner `"handle"`). A caller with `keeps` holds a
handle open until the layer has another one. `given` and `givenFence` are
history variables: what the layer was given by file, not by number.

**HotPlug.** The cable, `HdiSession::Init`, the monitor thread and registering
clients are four kinds of actors. `uevents` is the socket, with its HDMI
messages only: other uevents take room too and are read and passed over; a
message that finds no room is dropped and makes the next `read` fail. The thread's `pc` follows
`HandleHotplug` through its early returns; where the code returns
`DISPLAY_FAILURE` or `DISPLAY_NULL_PTR` from a function of type `bool`, the
model goes on to `tell`, as `DrmDevice::HandleHotplug` does; that it also has
the connector read its properties and dpms state anew is left out. A setup says whether the cable rests until its message
was handled, and which calls may fail. `missed` and `overlapped` are history
variables that the properties exclude cases with.

**DrmDiscovery.** A topology record is what the kernel reports: pipes per
encoder, encoders per connector, what is lit, connected and has modes, planes.
It is external and chosen by `Init` among the constant `Topologies`;
`KernelConsistent` is what KMS guarantees of it, on hardware that does not clone
one CRTC's picture to two connectors. `mCrtcs` and `mConnectors` are
hash maps, so `EncoderPickIdleCrtcId` and `PickIdleCrtcId` are the sets of
CRTCs the loops can end with and the loop over connectors takes any next one.
`stage` of a display is the step of `DrmDisplay::Init` that failed; "ready" if
none did. `mPipe` is 0 both for an unbound plane and for one bound to the first
CRTC, as in the code.

**GbmGralloc.** The functions on the manager hold `g_lock` and are one step.
The functions on a handle hold none; a handle is assumed to be used by one
thread at a time. `faults`, chosen once, is the set of calls that may fail;
`GbmAllocMem` chooses the subset that fails this time, and `FdLeft`, `DumbLeft` and `BoLeft` say what
its error paths leave behind. The kernel's objects are counted, as no property
tells two of them apart. `crashed` is the null device read at `G/qemu_gbm.cpp`
line 143.

**GbmLayout.** `Wrap` is the reduction of `uint32_t`; `Word` is 2^32 in the
code. `RowsNeeded` is the reference definition, counted plane by plane.

## 3. Runs

| Run | Question | Result |
|---|---|---|
| `hdi_display` | Do the containers agree after any calls on two displays, does the registry implement `LayerStack`, does a caller that reads the changes always know the types? | holds, 331,760 states |
| `id_pool` | Is a fresh id fresh, does the scan end while an id is free? | holds, 979 states |
| `vsync` | Lost wake-ups, late callbacks, use after free, join | holds, 908 states |
| `vsync_init_race` | Does the worker survive its start? | no |
| `commit` | Frames, buffers, modes, power and fences when the kernel accepts everything; ownership and fences when any call may fail | holds, 5,568,779 states |
| `commit_dangling` | Is the object that is released alive when a commit may fail? | no |
| `discovery` | For any wiring and any failure: do bindings agree, is a connector without a display one that had no idle CRTC to use, does every client learn of every display? Has a display hardware of its own where the hardware is not shared? | holds, 2,571,596 states |
| `gralloc` | Descriptors, mappings, dumb buffers and the device, while any call may fail | holds, 32,001 states |
| `layout` | Does the dumb buffer hold every plane? | holds, 655,152 states |
| `layer_fds` | Are only own descriptors closed and handed out, is none but the first handle's lost, are buffer and fence the ones that were given? | holds, 347,119 states up to renaming of numbers |
| `hotplug` | Does the record follow the cable, are clients told the truth, is every message handled to the end? | holds, 48,439 states |
| `hotplug_failed` | Are clients told only of a hot plug that was carried out? | no |

The three runs that fail each refute a statement of the code's own messages or
comments; `findings` in `PROJECT.json` quotes them.

The models also contain, as actions or values, behaviour of the code that a
maintainer will want to know of but that needs no search to see; the hazards
give the lines:

* with every id in use and the scan starting at the invalid id, `GetIdleId`
  loops for ever instead of reporting "have no id to used";
* a frame committed while the display is off lights it again, and the reported
  power state stays off;
* a mode whose blob the kernel does not make is passed over and the commit
  succeeds in the old mode; with a mode the connector does not have, a display
  that is off stays off and every commit is refused;
* a buffer set without a fence keeps the fence of the one before it; the cursor
  layer's fence queue grows with every frame; the handle `PushFirstFrame`
  allocates is never freed, so each display costs one descriptor for good;
* hot plug ends for good when the thread tests `mRunning` before it is set or
  when a burst of messages overruns the socket; a fast cable leaves the CRTC
  switched the way an old message said; a registration that overlaps an unplug
  announces a display that has gone; `EnableVsync` is global, so unplugging one
  display stops the vsync of all;
* a failed `drmWaitVBlank` is delivered to the callback as the time 2^64 - 1;
* an object without a framebuffer passes `IsValid`, and a commit the kernel
  rejects is answered with success;
* with encoders that share CRTCs, two displays can get one CRTC, and a plane
  both CRTCs can use is handed out twice, because pipe 0 means unbound;
* a display whose `Init` failed is stored and announced;
* an allocation through an object that could not open the device reads a null
  device, a failed `mmap` is remembered as an address, and the last user does
  not close the device.

### Bounds

* Three layers and three z-orders with `InitZ` above two of them give ties at
  the bottom, middle and top of the multiset, which is where `equal_range` can
  go wrong; two displays exercise the shared pool. `MaxLayers` bounds ids, not
  live layers: as `HdiLayer` never returns an id this bounds creations, too.
* Four valid ids let the pool wrap several times and start a scan at every
  position, the reserved one included.
* Two HAL threads are enough for every pair of concurrent callers; `MaxRegs = 2`
  lets a callback be replaced while vsync runs. `CallbackAlive` speaks of the
  single registration the service makes (`regs <= 1`): after a second one the
  worker may call through a pointer that another thread has replaced without a
  lock. That is a limit of the claim, stated in the hazards.
* Two buffers besides the first frame's cover presenting the same buffer twice
  and alternating; two modes plus one the connector does not have cover mode
  changes. `MaxIds = 5` kernel ids are as many as four owned objects and a new
  one need. `FenceRing = 3` tells the fence of this commit, the one before and
  an older one apart. `MaxCursorFences` caps a queue that grows for ever.
  `CursorPlanes = 1` is what virtio-gpu offers per CRTC. With two planes
  `ApplyCursor` takes in two objects per frame, `mLastCursorGemBuffer` dangles
  and framebuffers stay behind even without failures; `RawPointersOwned` and
  `NoFbLeak` therefore say `OneCursorPlane`. The other properties hold with two
  planes as well: the proofs do not bound the number of planes, and TLC agrees
  on an instance with two.
* `MCSetups` of `MCDrmCommit` has five members: no faults, a cursor and mode
  changes; every call of `Apply` may fail, without a cursor; only the commit may
  fail, with a cursor; switching power may fail; only the blob of a mode may
  fail, with mode and power changes. The properties that
  need an accepting kernel say so (`Accepting`, which also asks that the caller
  wants only modes the connector has: see `UpdateMode` above).
* Six descriptor numbers are as many as the handle of the first frame, and
  buffers and fences of a layer, the client layer and the cursor layer need to
  fill the table and to have a number reused; numbers are interchangeable, so
  TLC compares states by the view `UpToRenaming`, which tells two states apart
  exactly if no permutation of the numbers takes one to the other. One layer besides
  client and cursor is enough, as layers share nothing but the table. Two
  buffers and two fences tell the right file from a wrong one.
* `MaxToggles = 4` moves with `Room = 3` fill the socket and overrun it; two
  clients tell all from some.
* Two outputs are what it takes for displays to compete. `WiredTopologies` is
  every wiring and boot state of two encoders, connectors and CRTCs, with planes
  of one or both pipes and connectors with and without modes; virtio-gpu is one
  of them. `MaxLost = 1` lets any single kernel object be unreadable. Two
  callbacks show a late registration. `NoCrtcWasted` is stated of the end of the
  discovery, when the bindings are final. `DedicatedExclusive` is conditional
  on the topology, since on shared hardware it is false.
* Three users of the GBM device tell the first, a middle and the last apart and
  allow two failed constructions beside a good one; three handles are live at
  once. `MaxLeft` caps what failing calls leave behind. `FaultSets` has two
  members: every call may fail, and only the calls the code cleans up after; the
  properties say for which faults they are stated.
* `Word = 256` and all widths and heights below it cover every remainder of the
  alignments and ratios and every wrap; the theorem removes the bound.

`CHECK_DEADLOCK FALSE` is set where the system may stop: when the caller has
used up the ids of the bounded pool and everything is destroyed or after the
crash of `PrepareNullBuffer` (`MCHdiDisplay`), after a use after free
(`MCCommit`), after the crash of an allocation without a device (`MCGralloc`),
when the one call of `GbmLayout` has returned (`MCLayout`), and when the cable
is not moved any more (`MCHotPlug`).

### Fairness

`IdPool`: weak fairness of the loop turn and of the return, that is, the calling
thread is scheduled. `DrmVsyncWorker`: weak fairness of the worker, of a caller
between its lock scope and its `notify_one`, of `Init` between its two
statements and of a destructor that has begun. `drmWaitVBlank` is assumed to
return, with or without an error. `HotPlug`: weak fairness of the session's
start, of the monitor thread and of a registration that has begun; nobody has
to move the cable. Nobody is obliged to call the API, and
spurious wake-ups are allowed but never relied on.

## 4. Proofs

All theorems are checked by TLAPS for every value of the constants that
satisfies the named assumptions (`ConstantsAssumption`, `PoolAssumption`,
`WorkerAssumption`, `CommitAssumption`, `DiscoveryAssumption`,
`GrallocAssumption`, `LayoutAssumption`, `FdsAssumption`, `HotPlugAssumption`).
Every safety property of a passing run is a theorem. The inductive invariants
were checked by TLC on the instances of the runs before they were proved.

**`HdiDisplayProofs`**: `TypeCorrect`, `RegistryAlways`, `IdsUniqueAlways`,
`ChangesReportedAlways`, `ChangesAliveAlways`, `RegistryRefinesLayerStack`.

* `RegistryInv` is `TypeOK /\ Registry /\ IdsUnique`. `Registry` alone is not
  inductive: changing the z-order of a layer of one display would disorder
  another display's multiset if the layer were in both, so `IdsUnique` is
  needed; and `IdsUnique` needs that every layer in use is recorded in the pool.
  In a sorted sequence the equal range of a z-order is the contiguous block of
  layers with it, so `Erase` finds the layer (`EraseRemoves`); inserting at an
  upper bound keeps the sequence sorted and without repetition
  (`EmplaceCorrect`); the other displays do not notice (`OthersCorrect`). The
  module begins with what `InsertAt` and `RemoveAt` of the community modules do
  to the elements of a sequence.
* `ReportInv` adds `ChangesReported` and `ChangesAlive`, which need each other:
  a destroyed layer in an unread change list would let the report overwrite what
  the caller knows of a layer of another display.
* The refinement uses `RegistryInv` on both sides of a step: creation,
  destruction and a change of z-order are `AddLayer`, `TakeLayer` and
  `MoveLayer`, every other operation leaves the stacks alone.

**`IdPoolProofs`**: `TypeCorrect`, `FreshIdAlways`, `ReportsOnlyWhenFullAlways`.
`PoolInv` says that live ids are recorded and that the scan stays within the
valid ids; `ScanInv` that all ids from the start of the scan up to where it is,
around the end of the id space if it wrapped, are in use. Back at its start the
scan has seen them all.

**`DrmVsyncWorkerProofs`**: `TypeCorrect`, `LateBounded`, `CallbackIsAlive`. The
invariant ties the mutex to the stages of the worker (`LockInv`) and says what
`call_once` separates (`OnceInv`). `LateInv` is the argument for one late
callback: a worker on its way to a callback nobody asked for any more passed the
predicate while vsync was on, so it is the first. `FreedInv`: one registration
frees nothing, the destructor frees after the join.

**`DrmCommitProofs`**: `TypeCorrect`, `FbsOwnedAlways`, `HandlesOwnedAlways`,
`ModeAppliedAlways`, `ReportedOnIsLitAlways`, `FenceQueueShortAlways`, whichever
calls fail; `RawPointersOwnedAlways`, `NoFbLeakAlways`, `NewFrameShownAlways`,
`NeverDarkAlways`, `FenceLagsByOneAlways` for a kernel that accepts every call.

* `CoreInv` is the types, ownership (`OwnInv`), `ModeInv` and `FenceInv`.
  `ModeInv` adds to the mode and power properties that from the first frame on a
  mode was chosen and `mNeedModeSet` stays set, so that a mode one commit did
  without is in the next request.
  Ownership of framebuffers is inductive only with `Registered`: ids that
  objects record are registered and no two objects record the same one, as
  otherwise the release of one object would remove the framebuffer another one
  still records, and a new framebuffer could get that id. Handles are different:
  two objects may share one, and the first to be released closes it for both.
* `AcceptInv` adds, while the kernel accepts everything, what each layer looks
  like at each step of `Apply`: `Settled` between frames (one framebuffer, and
  it is on the screen; the raw pointers agree), `HeldNew` once the new buffer
  was wrapped (it is in the request, later on the screen), `Between` until the
  previous object is released. `LagInv` is the queue with the fence of the
  commit before. For the cursor layer this holds with at most one cursor plane
  (`CursorInv`); attempting the proof for any number of planes is what showed
  that `RawPointersOwned` and `NoFbLeak` need `OneCursorPlane`.
* The number of kernel ids, `MaxIds`, is shown to be no restriction: with
  ownership there are at most four framebuffers and four handles, so a free id
  exists whenever one is needed (`FreeIdFresh`).

**`LayerFdsProofs`**: `TypeCorrect`, `HeldAreOwnAlways`,
`OnlyFirstHandleLostAlways`, `WaitsForLastFenceAlways`, and the action property `CursorShowsLayerAlways`.
`Owns` says that buffers, fences and the queue hold exactly the numbers the HAL
has to close, each in one place. Every operation is a few moves on that set - a
slot is replaced, emptied, a number is queued or handed out - and there is one
lemma per move. `HeldAreOwn` and `OnlyFirstHandleLost` are two halves of it and
neither is inductive alone: closing an old descriptor is safe only because
nobody else holds its number. That exactly one number stays lost is `FirstKept`:
no operation opens another one for a handle or closes the first
(`SameFirst`, a relation between the tables before and after each move). `HandlesKept` says of a caller that keeps its
handles open that the number a layer remembers still names the buffer it gave.

**`DrmDiscoveryProofs`**: `BindingsAgreeAlways`, `CrtcReachableAlways`,
`NoCrtcWastedAlways`, `DedicatedExclusiveAlways`, `EveryDisplayAnnouncedAlways`.
A bound CRTC may be picked again, yet the binding survives, because
`BindToDisplay` refuses and the second display never gets past that step. The
invariant `Inv` adds that displays are numbered without gaps, so that the next
id, their number, is not the id of one of them. `LoopInv` is the invariant of
the loop over connectors: displays belong to different visited connectors, reach
their CRTC, and a visited connector without a display had nothing idle to use -
which stays so, as no CRTC becomes idle again. On dedicated hardware different
connectors reach different pipes. `ToldInv` adds that nobody registers before
the displays are known.

**`GbmGrallocProofs`**: `TypeCorrect`, `FdsOwnedAlways`,
`DeviceWhileUsedAlways`, `MappingsOwnedAlways`, `NoBoLeftAlways`, and of
`GbmLayout` `LayoutTypeCorrect` and `PlanesFitAlways`.

* The first two rest on one invariant: descriptors equal live handles in number,
  and mappings are at least as many as the handles that know one - equality
  fails after a failed `munmap`, and without the inequality `maps` could become
  negative. If `munmap` works, `MapsCounted` gives the equality.
* `DeviceWhileUsed` rests on `CountedIfOpen`: if opening the device never fails,
  the count is the number of users. With failing constructions it is false, as
  those are not counted but their destructors are, so the property is stated
  without them.
* For requests in `InRange` nothing wraps and the ratios reduce to the rows of
  `RowsNeeded`; for others only the type is claimed.

**`HotPlugProofs`**: `TypeCorrect`, `RecordFollowsAlways`, `ToldTheTruthAlways`.
`RecordFollows`, the safety half of `RecordSettles`, holds for every cable: a
message may be stale when it is read, but what is recorded is the kernel's own
answer, and a move after that answer leaves another message (`SeenInv`). If the
cable moreover rests until its message is handled, at most one message is on its
way and it says what the kernel says (`MessageInv`, `RecordInv`); vsync is
switched just before the record, the clients are told just after it
(`FollowInv`). The last part needs that no hot plug overlapped a registration:
the connection a registration has read must still stand when it is announced.

Only model-checked: the liveness properties (`ScanEndsWhenFree`,
`EnabledIsServed`, `DestructorTerminates`, `RecordSettles`,
`EveryMessageHandled`), as the prover has no rules for fairness - the end state
that `EveryMessageHandled` promises rests on `RecordFollows`, which is proved; and the three
refutations, which are counterexamples.

## 5. Not modelled

Contents of buffers, formats, regions, crops, alpha and transforms; the debug
dump of a layer; logging, except where a message states a property. The gfx
composition, because both calls into it are commented out. The RK3568 variants
of the same HAL, which the board in this repository does not build, except for
hot plug. The backlight level, which nothing but its getter reads. Cache synchronisation of
buffers, which keeps no state. Concurrent use of one buffer handle. What a client
does with a display whose `Init` failed; `DrmCommit` starts from a complete one.

The vendored trees: Linux (`sdk_linux`, dma-fence and the DRM core among it),
Wi-Fi, media and camera drivers, more than 99 % of the repository's lines. They
are other projects' code in copies of a given version; the HAL meets them
through system calls, and those are modelled from how the HAL uses them. The
share of the repository that the modules cover is small for that reason; of the
HAL they cover what keeps state.

## 6. Plan

Done: registry with its abstract specification, id pool, vsync worker, frame
commit with power states, descriptors of layers, discovery, gralloc, hot plug;
theorems for every safety property and for the refinement. Left:

1. A module that composes `HdiDisplay` and `DrmCommit`, so that the cursor layer
   of a Prepare is the one the following Commit shows.
2. A theorem for a kernel that refuses commits only: which of the composition's
   raw pointers can fall behind, and after which sequence of frames.
