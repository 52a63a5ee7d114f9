# A formal model of the S5P6818 platform code

The repository holds the multimedia platform code of a Nexell S5P4418/S5P6818
board: the kernel driver of its video block (a Chips&Media coda960), and user
libraries for codecs, graphics, camera, display, memory and events. This
directory models the parts of it that keep state over several calls, threads or
interrupts, checks them with TLC on small instances and proves their main
properties with TLAPS for every instance.

Contents: [system](#the-system), [modules](#the-modules), [runs](#the-runs),
[bounds and fairness](#bounds-and-fairness), [proofs](#the-proofs),
[defects](#what-the-models-found), [limits](#what-is-not-modelled),
[plan](#plan).

## The system

| Component | Source | State it keeps | Operations | Hard because |
|---|---|---|---|---|
| VPU driver: instances and power | `modules/coda960/linux/linux_vpu_drv.c`, `src/nx_vpu_api.c` | instance table, quota counters, power and boot flags, saved registers, `private_data` of each file | open, release, ioctl, suspend, resume | open/close/leak sequences, a block that hangs or is left busy, suspend in the middle |
| VPU driver: command handshake | `nx_vpu_api.c` 265-520, `vpu_hw_interface.c` | event flag, wait queue, `BIT_INT_REASON`, `BIT_BUSY_FLAG`, clock gate | issue a command, wait, handle an interrupt, time out, reset | ioctl, block and interrupt handler interleave; signals and timeouts leave an answer behind for the next command |
| Decoder stream ring, display flags | `nx_vpu_api.c` 1961-2138, 2691-3025 | read and write positions, display flags, frames to return, time stamps | feed, parse, register, decode, return a frame, flush, close | wrap-around, frames owned by block, driver and client in turn, commands that stop for stream or fail half way |
| Codec library (libnxvpu) | `libnxvpu/nx_video_api.c` | session memory, timestamps, display information | open, init, decode/encode, flush, close | errors half way through, timestamps across wrapped positions |
| Graphic tools: service | `nx_graphictools.cpp`, `NX_GTService.cpp`, `NX_Queue.cpp`, `NX_Semaphore.cpp` | reference count, thread, command queue, two semaphores, two mutexes | open, do, close of four tools; the service thread | a thread that starts and stops under its clients, records on callers' stacks, counting of wake-ups |
| Graphic tools: engines | `NX_GTService.cpp` 100-681, `vr_*.cpp` | surface caches keyed by buffer addresses; textures, current context and references of five GL contexts | open, do, close | full caches, surfaces that fail half way, textures deleted in whatever context is current |
| Capture (libnxv4l2) | `nx_vip.cpp`, `nxp-v4l2-dev.cpp` | slots, counter, stream flag | init, queue, dequeue (one or two devices), change of configuration, close | slots are emptied and the stream started outside the mutex |
| Display (libnxv4l2) | `nx_dsp.cpp` | next index, stream flag | queue, dequeue, change of format | no lock at all |
| Memory (libnxmalloc, libion) | `nx_alloc_mem_ion.c`, `ion.c` | descriptors | allocate, free | failure half way |
| Events (libnxuevent) | `uevent.c` | handler list | add, remove, dispatch | handlers run with the list locked |
| Deinterlacer, scaler, CEC, libhevc, theora, prebuilt GL | | none that outlives a call, or vendored | | |

How they interact. libnxvpu opens `/dev/nx_vpu` once per codec session and sends
ioctls; each one runs under `gstDrvMutex`, most issue one command to the block
and sleep until the interrupt handler wakes them. The graphic tools give every
caller's command to one thread that owns the GL context. An application moves
buffers from the capture library to a codec, the graphic tools or the display.

What makes each component correct:

- *Instances and power.* No two files ever use one instance; the counters are
  the instances in use; below its quota a client gets an instance; an instance
  starts clean; the block is booted and on for whoever holds one; suspend and
  resume preserve the firmware's state; the last close switches the block off.
- *Handshake.* An ioctl returns, with the outcome of its own command; the clock
  is not taken from a command in execution nor from the interrupt handler; a
  timeout is reported when there was one.
- *Graphic tools.* The service runs exactly while it is used; a command is
  executed once, between call and return; no wake-up is lost; no record is used
  after its caller returned; the last close ends.
- *Decoder stream.* The ring holds what was fed and not read; a frame the client
  holds is not decoded into, and none is forgotten; a picture comes with its own
  time stamp.
- *Engines.* A command draws from its input to its output or says why not, as
  long as the caches have room; each context counts its targets; a close harms no
  other handle (the code does not keep this one).
- *Capture.* A dequeued buffer is the one the device filled; buffers and pairs
  come back in the order they were lent; no slot is lost; no dequeue is made on
  a stopped device or blocks for ever.

## The modules

| Module | What it is |
|---|---|
| `VpuDriver` | open, release, ioctl, suspend, resume; one action per entry point |
| `InstancePool` | abstract: leases of instances within two quotas |
| `VpuCommand` | one command, step by step: caller, block, interrupt handler |
| `NxQueue` | the ring of `NX_Queue.cpp` |
| `BoundedFifo` | abstract: a bounded first-in first-out queue |
| `NxSemaphore` | operators: `NX_Semaphore.cpp` as a value with a pending signal |
| `GraphicTools` | clients and service thread over the queue and the semaphores |
| `CommandService` | abstract: submit, serve once, deliver |
| `GraphicEngines` | the four engines, their surface caches and the GL contexts below |
| `DecoderStream` | one decoder session: stream ring, display flags, time stamps |
| `VipCapture` | queueing and dequeueing threads over one or two capture devices |
| `BufferLoan` | abstract: buffers lent and returned in order |
| `*Proofs` | the theorems about the module they extend |
| `NumberFacts` | lemmas on natural numbers and rings that four of them share |
| `MC*` | instances for TLC |

Definitions whose names end in `Bug` are plausible mistakes in the definition
that follows them. No specification uses them; each documents what a property
guards against, by replacing the correct definition.

**VpuDriver.** `inst[f]` is `filp->private_data`, `inUse`, `codecMode`,
`seqReady` (`isInitialized`) and `needMore` (`needMoreFrame`) the columns of the
instance table, `numInstance`, `encInstance`, `decInstance` the three counters,
`powered`, `ready` are `gstIsVPUOn`, `gstIsInitialized`. `regsLoaded` says that
the BIT registers hold what `NX_VpuInit` wrote, `regStore` that the saved copy
does, `running` which command left `BIT_BUSY_FLAG` set. Every entry point runs
under `gstDrvMutex` from start to end, so each is one action; what happens inside
a command is `VpuCommand`'s subject, here its outcome is chosen among those the
hardware can produce. Whether a command that returned early leaves the block
busy is taken from the `needMoreFrame` path of `VPU_WaitBitInterrupt`. Four
constants describe the surroundings: `Hangs` (no answer within a timeout),
`Stalls` (the firmware waits for stream inside a picture), `Reopen` (a client
repeats OPEN_INSTANCE), `CopyFails` (`copy_to_user` fails). Clients are the ones
libnxvpu makes: one thread per file, codec commands only on an instance of the
kind. (`nx_vpu_ioctl` reads `private_data` at line 152, before it takes the
mutex; only a file shared by threads would notice.)

**VpuCommand.** One caller at a time issues commands `1 .. MaxCmds`. `pc` walks
through issue, `wait_event_interruptible_timeout`, the poll of `BIT_INT_REASON`
after a signal, the reset after a timeout, the poll of `BIT_BUSY_FLAG`, and the
return that gates the clock. `hw`, `stalled`, `busy`, `reason` are the block;
`irq` is an interrupt whose handler has not run; `event` is `gVpuEventPresent`.
Each answer carries the number of its command (`retOf`, `reasonOf`), which is
what `OwnAnswer` compares. Constants: `Signals`, `Timeouts`, `SlowIrq`, `Stalls`;
the passing run has all four. What goes wrong in the code then goes wrong in the
model, so the properties say what it takes: two history variables record that the
current ioctl found something left over by an earlier one (`inherited`), or that a
signal broke its wait and it read the reason before its interrupt handler had run
(`overtook`), and `expired` that its timer ran out. `OwnAnswer` and `TrueTimeout`
are promised to every ioctl that inherited nothing, `GatedWhenQuiet` to those of
them whose timer does not run out, `HandlerFindsClock` and `NothingLeftOver` to
those that besides overtook no handler.

**NxQueue, BoundedFifo.** `head`, `tail`, `curElement` over an array that may be
larger than the limit, as in `NX_QUEUE_INFO`. `contents <- ` the cells from head
on gives the refinement. The operations hold the queue's own mutex throughout.

**GraphicTools.** A client stands for a thread with a handle. `session` are the
clients between the reference an open takes and its return, so `refCnt` can be
compared with it. `pc` follows `nx_graphictools.cpp` into `NX_GTServiceCommand`
(lock, push, post, pend, unlock) and, for the last close, into the stop and join
of the thread; `tpc` follows `GTServiceThread`. `gstInstMutex` is held across
single steps and across the join (`instLock`). The queue is used through the
behaviour `NxQueue` implements, a sequence. A semaphore is its value and whether
a sleeper has been signalled; `Spurious` lets a sleeper wake unsignalled,
`ThreadFails` lets `pthread_create` fail. The tools differ in one thing: an
`NX_GTDeintOpen` that finds a service creates none, the other opens make a new
one at every first reference (`ServiceInit`), and both are in the model.

**GraphicEngines.** What `Execute` of `GraphicTools` abstracts: each command of the
service thread is one action. `ins[h]` and `outs[h]` are the slots of a handle
(`inputImage`/`inputFd` with `hInSurface`, and the output side); a slot is the
key of its buffer and a surface, and a surface is the buffer and its texture
names. `gl` holds the textures of each context by name, the context that is
current and `sEGLContextRef`. A creator may fail at any plane; it then forgets
the textures it made. `glDeleteTextures` acts on the current context, which the
last creator or the last draw left (the line that was to put the caller's context
back is commented out, `vr_deinterlace.cpp:39`). `Deinterlace` reports errors; `Convert` (the
other three) draws with what it has: two of them read a null source and take the
process down (`Crashes`, `Restart`). Constants: `CreateFails` (engines whose
surfaces may fail). Handles of any engines may be open together. A target of the
RGB to YUV converter whose second plane fails keeps the reference counted for the
first (`Torn`).
`EngineAssumption` says that a null surface is no buffer and no surface, that the
deinterlacer's reference is no client's buffer, and that every cache has a slot.

**DecoderStream.** A call of `nx_video_api.c` with the ioctl it makes is one
action, for the ioctl runs under `gstDrvMutex` and a session has one thread.
`unread` are the chunks the ring really holds, which `RingAgrees` compares with
`readPos` and `writePos`; `reg` the three registers all instances share, which
keep their values only while a command waits for stream (`pending`). A frame is
wanted by the block (`waiting`), flagged (`frameDisplayFlag`), about to be
released (`clearDisplayIndexes`), held by the client or hidden from it (an
undisplayable first B frame of VC-1). The block is external: it reads up to
`MaxLag` chunks less than it was given, decodes into any frame that is neither
flagged nor waiting, and shows a waiting one or none. `Failures` lets commands
time out or fail, `Stalls` lets them ask for stream. The client feeds what fits,
returns a frame once, and flushes before it parses again. While the block waits
for stream inside a picture it may feed the rest of that picture with the same
stamp, flush, call without stream, or close. It is not told that the block waits
(the call returns `VID_ERR_NONE`, see `dec_errors`), so the one thing assumed of it
there, that what it feeds next belongs to the same picture, is a client that hands
over one picture in pieces and not one that reacts to a return value. A flush
leaves `needMoreFrame` set while the block has given up its command: the next call
then issues nothing (`Commanded` is false) and fails after the timeout, as does a
call without stream to a block that waits. `NX_VpuDecFlush` issues
`DEC_BUF_FLUSH` over a picture that waits (2118) and takes it to be over; that the
firmware does the same is an assumption. `PutDispInfo` keeps the first field's stamp; the separate
stamp of a second field is left out, and a second field may be decoded into a
frame that waits to be shown. The driver enables the interrupts for an empty
bitstream buffer; whether the firmware raises one in the two bitstream modes the
driver uses is not known here, so `Stalls` allows it.

**VipCapture.** The part of each call under `hMutex` is one step, everything
else a step of its own, per device: `VIDIOC_QBUF`, the test of `streamOnFlag`,
`VIDIOC_STREAMON`, `VIDIOC_DQBUF`, reading and emptying the slot, the decrement.
`mode` is a variable chosen by `NX_VipInit`; with `CLIP_DEC2` both devices take
part and the two arrays of slots are used. The devices are external: `queued`
and `filled` sequences of `<<index, buffer>>`, and `streaming`. `mine` and
`lent` are the application's view, mapped to `BufferLoan`. A failed DQBUF leaves
the index uninitialised (its result is ignored): the model lets it be any slot.

## The runs

| Run | Configuration | What it shows |
|---|---|---|
| `vpu_clients` | 4 files, 3 instances, quotas 2+1, hanging and stalling block, one instance per file | types, exact counters, no search that fails below a quota, clean instances, live hardware; implements `InstancePool` |
| `vpu_careless` | 3 files, clients repeat OPEN_INSTANCE, `copy_to_user` fails; responsive block | instances leak, none is shared; the firmware's state is preserved; the last close switches off |
| `vpu_suspend_busy` | a decoder whose SEQ_INIT waits for stream and leaves the block busy | **violation** of `FirmwareSurvives` |
| `cmd_handshake` | 4 commands; signals, expiring timers, stalls and late handlers together | answers, gating, handler's clock, timeouts and what is left to the next ioctl are right but for the events the properties name; every ioctl returns |
| `cmd_false_timeout` | a completion just after the timer | **violation** of `TimeoutMeansTimeout` |
| `gt_ring` | 3 values, limit 3 in an array of 4 | the ring is a bounded FIFO queue around every wrap |
| `gt_service` | 2 clients, 5 calls | service, wake-ups, records, exactly-once service, and that every command is answered and the last close ends |
| `gt_engines` | 2 handles of deinterlacer, scaler and RGB to YUV converter in any combination, 2 inputs, 2 outputs, caches of 1 slot, surfaces of two engines fail at any plane | every command draws or has a reason not to; references are exact in every context but UV, which never has too few |
| `gt_together` | a deinterlacer and a scaler, 3 planes each, nothing fails | **violation** of `TexturesIntact` |
| `dec_stream` | ring of 6 cells, chunks of 1 and 2, 2 frames, failures and stalls | the ring agrees with what was fed; frames are neither overwritten nor leaked; stamps follow pictures |
| `dec_errors` | the same block | **violation** of `ErrorReported` |
| `vip_camera` | a queueing and a dequeueing thread, 4 buffers, 3 slots, all modes, reconfiguration and reopening between calls | slots agree with devices, counter, order and pairing of buffers, no dequeue on a stopped device, none blocks for ever |

The properties are stated and explained at the end of each module; `hazards` in
`PROJECT.json` says which danger in the code each one is about.

## Bounds and fairness

- `VpuDriver`: a file more than there are instances makes both the table and the
  quotas run out; two encoders and one decoder make the kinds compete. No
  counter is unbounded: the state space is complete. Files are symmetric and no
  liveness is checked with symmetry.
- `VpuCommand`: `MaxCmds` bounds the ioctls. What one command can leave to a
  later one is a flag, a register and a command register, so a third and a
  fourth command meet everything the first two can leave. The system stops at
  the bound, hence `CHECK_DEADLOCK FALSE`. The timers are not clocks: a timer may
  run out at any moment when `Timeouts` holds, never otherwise.
- `GraphicTools`: `MaxCalls` bounds opens and operations (again the reason for
  `CHECK_DEADLOCK FALSE`); five calls suffice for two sessions, the stop, and a
  restart with left-over tokens. `MaxCmdSize = 2` suffices because `hLock` keeps
  the queue to one command, which `StageInv` proves.
- `GraphicEngines`: two buffers on either side for caches of one slot fill and
  overflow both caches; two handles of equal or different engines interleave. One
  plane per surface (`VR_YUV_CNT = 1`) but two for the RGB to YUV converter, whose
  planes lie in different contexts; the planes of the others only matter to
  textures, and `gt_together` has three. Of the two converters that cannot report
  an error and may crash, the scaler is in the run and YUV to RGB is not: their
  actions are the same. `MaxName = 2` names per context and `MaxTextures = 4` in all
  bound the textures that failures and closes leave behind; a step that would need
  more is not taken, so behaviours that leak on are cut off there, and of two RGB to
  YUV converters one at a time has a cached source, both have targets. `MaxTorn = 1`
  bounds the surplus references of the UV context: beyond it a target fails as a
  whole.
  The theorems need none of these bounds to be small.
- `DecoderStream`: chunks of 1 and 2 in a ring of 6 wrap at and across its end;
  `MaxChunks = 2` is one chunk being read and one that lags, `MaxLag = 1`; two
  frames are one on display and one to decode into. `Followed` is the stamp of one picture at a
  time, which makes its picture recognisable without a counter. The state space
  is complete under these bounds.
- `VipCapture`: 3 slots instead of 32 and a buffer more than slots, so that the
  refusal of a queue, full arrays and differing indices in the two arrays all
  occur. No counter is unbounded.

Fairness, only where the code's scheduling gives it:

- `VpuCommand`: the ioctl and the interrupt handler run (weak fairness). The
  block answers only when `Timeouts` is false. Nobody owes a caller a signal.
- `GraphicTools`: the service thread runs, and so does a client that holds the
  mutex it needs (`Proceed`). Nothing is assumed about who gets a contended
  mutex, nor that clients call anything.
- `VipCapture`: calls in progress go on; a streaming device fills a buffer when
  it has another to go on with, as drivers that hold on to their last buffer do.
- `VpuDriver`, `NxQueue`, `GraphicEngines`, `DecoderStream`: safety only.

## The proofs

All theorems hold for every value of the constants allowed by the named
assumptions of the modules; `tlapm` checks each proof module in a few minutes at most.
Every invariant and every safety action property that a passing run checks is one
of them, and so is each of the four refinements.

**NumberFacts.** Two facts on recursive functions need an induction. The provers
cannot instantiate an induction theorem whose parameter is an operator, so
`Upwards` states induction up to a bound over the *set* of the numbers that
satisfy a formula, from the least element of a set (`Least`), which comes from the
well-foundedness of `<` on the naturals. The rest is arithmetic modulo the size of a ring.

**VpuDriverProofs**, in three parts with growing hypotheses.

1. *Whatever clients and hardware do* (`OwnInv`): `Typing`, `Ownership`,
   `HardwareIsLive`. The invariant adds to `TypeOK` and `SlotOwnership` that
   `gstCurNumInstance` is the number of open files. Without it the reset of the
   instance table by `NX_VpuInit` could not be shown harmless: it happens only
   when the counter is 0, and then no file is open.
2. *Disciplined clients*, `~Reopen /\ ~CopyFails` (`LeaseInv`):
   `ExactAccounting`, `FreshSlots`, `QuotasSuffice`, `ImplementsPool`.
   `QuotasSuffice` needs the counters to be cardinalities, and that the quotas add
   up to at most the table (`LimitsAssumption`; 3 + 2 <= 5 in
   `nx_vpu_config.h`). `vpu_careless` shows what the hypothesis excludes.
3. *A responsive block*, `~Hangs /\ ~Stalls` (`PowerInv`): `FirmwareSafe`,
   `PowerSaving`. `vpu_suspend_busy` shows the hypothesis is needed.

**VpuCommandProofs**, with no hypothesis on block or caller. `CommandTyping`,
`OwnAnswers`, `NoFalseTimeout`, `ClockGating`, `HandsOnClean`, `HandlerClocked`: signals,
expiring timers, stalls and late handlers may come in any combination, and the
events after which a promise no longer holds are part of its statement, read off
the history variables. `HandshakeInv` says what each program point may find in an
ioctl that inherited nothing and whose timer has not run out: before the command is
issued nothing is left in flag, line or register and the block is quiet; during a
wait the answer exists exactly once, in the line or in the flag; a wait broken by a
signal may collect an answer whose interrupt is still to be handled, and only then
does the ioctl leave something to the next. `OutcomeInv` carries what remains true
after a timer ran out. Two steps from a clean state to a wrong answer are thus
separated: `HandsOnClean` says which ioctl can leave something, the others that only
an ioctl that found it can go wrong. `cmd_false_timeout` shows one that does.

**NxQueueProofs.** `RingConsistent` and `ImplementsFifo`, on the lemmas about
adding one modulo the size of the ring in `NumberFacts`.

**GraphicToolsProofs.** Under `Sound == ~Spurious /\ ~ThreadFails`, each half of
which is needed: `NX_SemaporePend` takes every return of `pthread_cond_wait` for a
post, and `NX_GTServiceStart` takes a failed `pthread_create` for success.
`ServiceTyping`, `RunsExactlyWhileUsed`, `RecordsAlive`, `WakeUpsKept`, `ResultsWaitedFor`,
`ImplementsService`. The inductive invariant has one part per mechanism:
`LockInv` (one client inside the command), `RefInv` (the count is the number of
sessions), `RunInv` (the thread exists exactly while it is used), `StageInv` (the
one command is queued, in execution, executed or answered, and the result
semaphore agrees), `TokenInv` (a queued command whose token was posted finds the
thread about to look, holding a token, or signalled). `TokenInv` is what makes
left-over tokens harmless: the thread looks at the queue before it takes a
token, so there may be more tokens than commands but never fewer.

**DecoderStreamProofs**, for any ring, any set of frames, with failures and
stalls and no hypothesis beyond `StreamAssumption` except in the last theorem.

1. *Frames* (`FrameInv`): `NoFrameLeaked`, `HeldIsClientsAlone`. The
   invariant says who owns a frame: `PendingInv` (what the block is inside of, and
   the stages that allows), `OwnerInv` (a frame decoded
   but not shown is not flagged, one the client holds is), `RegisterInv` and
   `NoLeak`. `RegisterInv` is needed because a `PIC_RUN` that waits for stream goes
   on with the flags it was started with: frames returned meanwhile are still in
   the register and must be exactly those `clearDisplayIndexes` keeps for the
   command after it.
2. *Ring* (`RingInv`): `RingHoldsTheUnread`, `TypeCorrect`. `Positions` adds to
   `RingAgrees` that the registers of an unfinished command hold the positions of
   this stream: a command that goes on writes none of them (`ForeignRegs` shows
   what it would find otherwise). `Sums` adds up a sequence of chunks; that a chunk
   adds its size and that the block reads a prefix is proved by `Upwards`.
3. *Stamps* (`StampInv`): `NoForeignStamp`, under `MaxLag <= 1`. Until a call fails,
   at most one chunk is left over between calls and the saved stamp is its own or
   none; the remembered read position is that of the ring except where it does no
   harm (no stamp saved, or the ring read from its start). The hypothesis is
   needed: the library saves one stamp, and with `MaxLag = 2`, `MaxChunks = 3` TLC
   shows a picture with the stamp of another.

**GraphicEnginesProofs**, for any number of handles, buffers, slots, planes and names.

1. *Shape and references* (`EngineInv`): `ReferencesAreCounted` (exact but for the UV
   context, which has no fewer), `TypeCorrect`. To
   `ReferencesCounted` it adds that slots are filled from the first on and that a
   closed handle's caches are empty (`CachesInv`), that no handle is open while the
   service is down (`RunInv`), and that the targets of a context are finitely many.
   Without the last, `Cardinality` would say nothing when `Handles` is infinite; a
   command adds at most one target. Without `CachesInv`, the slot
   a command stores into could be one that holds a target already.
2. *Draws* (`DrawnInv`): `CommandsDrawOrAreRefused`. The three outcomes of a search
   (found, made and stored, no slot) are proved once and used for inputs and
   outputs of all engines. What makes a full cache full *of others* is
   `DistinctInv`: no buffer has two slots and no slot a null surface, for the
   deinterlacer, which tests its surfaces, and for engines whose surfaces can be
   made. For the others null surfaces take slots, which the property excludes.
3. *Textures* (`TexturesInv`): `TexturesLostOnlyTogether`, of the behaviours in
   which engines of two kinds, or two RGB to YUV converters, are never open together
   (`[]Separate`). The code does not keep clients from it and `gt_together` shows what
   then happens; the theorem says that there is no other cause. Two sources that
   share no texture now must not come to share one: the invariant says that the
   textures of each cached source are in use and show its buffer (so a new name is
   none of theirs), and `CurrentInv` that, while a source is cached, the current
   context is one of its engine's, so that a close deletes no texture but those
   of the handle it closes. `Separate` is what gives `CurrentInv`. The planes of a
   source are followed by induction on the planes (`PlaneEntered`, `PlanesInTurn`): a
   failure at plane *p* leaves the textures of the planes before it, and takes none
   that was there.

**VipCaptureProofs**, for any numbers of slots, buffers and dequeueing threads.
Under `OneQueuer == ~Racing /\ (at most one queueing thread)`: `CaptureTyping`,
`RightBuffer`, `ExactCount`, `NeverTooEarly`. The invariant `CaptureInv` says that a
slot in use is named once, by its device or by the one thread that carries it
(`Carries`, `OneOwner`): a queue between its search and `VIDIOC_QBUF`, a dequeue
between `VIDIOC_DQBUF` and the emptying of the slot. That is why emptying a slot
outside `hMutex` is harmless. `StreamInv` says that until the devices are started
at most one buffer is queued and nobody dequeues; two queueing threads break it,
for the second may return before the first has started the devices. Under
`OnePair`, with at most one dequeueing thread as well, `ImplementsLoan`: `LentInOrder`
reads off what is lent, for each device, as what a dequeue has taken, what the
device has and what is on its way to it, in this order.

Only model-checked: the liveness properties (`EveryIoctlReturns`,
`EveryCommandAnswered`, `LastCloseReturns`, `DequeueReturns`), for temporal reasoning
with fairness and `ENABLED` is out of the prover's reach, and what happens outside
the hypotheses named above, which the runs named there show.

## What the models found

With a run:

- Suspend drops `VPU_RET_BUSY` (`linux_vpu_drv.c:668`); resume then restores
  registers nobody saved (`vpu_suspend_busy`).
- A completion between the end of a timed-out wait and the reset leaves
  `gVpuEventPresent` set; the next wait ends at once and is reported as a timeout
  (`cmd_false_timeout`).
- Closing a deinterlacer while a scaler is open deletes textures of the scaler's
  cached source: `glDeleteTextures` acts on whatever context is current, and
  contexts share no names (`vr_deinterlace.cpp:1930`). `test_graphicutil.cpp:335-392`
  makes exactly these calls (`gt_together`).
- `NX_VidDecDecodeFrame` returns `decArg.iRet` after a failed `RUN_FRAME`, which
  nobody sets: every error comes back as `VID_ERR_NONE` (`dec_errors`).

By a change of constants in a `.cfg` above:

- `NX_SemaporePend` has no loop around `pthread_cond_wait`: with
  `Spurious = TRUE`, `ServiceSpec` fails.
- `NX_GTServiceStart` tests `0 > pthread_create(...)`, which returns positive
  errors: with `ThreadFails = TRUE`, `EveryCommandAnswered` fails.
- An instance leaks when a client repeats OPEN_INSTANCE or `copy_to_user` fails
  (`linux_vpu_drv.c:206`, `:212`): with `Reopen = TRUE` or `CopyFails = TRUE`,
  `Accounting` fails in `MCVpuDriver_clients.cfg`, and with `CopyFails = TRUE`
  `SearchSucceeds` too.
- The last close does not power the block off while it is busy
  (`linux_vpu_drv.c:128`): with `Stalls = TRUE` or `Hangs = TRUE`, `LastCloseSwitchesOff`
  fails in `MCVpuDriver_careless.cfg`.

Allowed by a property's own words:

- `vrCreateCvt2YuvTarget` counts a reference after each plane: when the second
  plane fails the reference of the first stays, and `vrTerminateGLSurface` asserts
  "ctx_ref must be zero" (`vr_deinterlace.cpp:229`). `ReferencesCounted` says that the
  UV context may have too many and that nothing else is wrong.
- A signal that ends a wait before the handler has run leaves the event flag to the
  next ioctl, and lets the handler meet a gated clock (`nx_vpu_api.c:406`):
  `overtook` in `NothingLeftOver` and `HandlerFindsClock`.
- A flush while the block waits for stream leaves `needMoreFrame` set
  (`nx_vpu_api.c:2108-2131`): the next decode issues no command and can only time
  out. `DecodeFails` contains it, and frames and ring survive it.

In the code only:

- `NX_GTServiceDeinit` is commented out in every close, and all opens but
  `NX_GTDeintOpen` make a new service at the first reference: one service is
  leaked by every reopening.
- `NX_VipChangeConfig` between the check and the decrement of a dequeue takes
  `curQueuedSize` to -1 and loses slots. Set `Racing = TRUE` in
  `MCVipCapture_camera.cfg` to see it.
- Two threads in `NX_VipDequeueBuffer2` can swap halves of two pairs; give
  `Dequeuers` a second member to see `LoanSpec` fail.
- The library keeps one time stamp for stream the block has not read
  (`savedTimeStamp`, `nx_video_api.c:1318`): a block that leaves two chunks unread
  gets a picture the stamp of another. Set `MaxLag = 2` and `MaxChunks = 3` in
  `MCDecoderStream_stream.cfg` to see `StampFollowsPicture` fail.
- A decoder call that fails after taking `clearDisplayIndexes`
  (`nx_vpu_api.c:3158`) loses the frames returned before it until a flush; hence
  `~failed` in `FramesAccounted`.
- Scaler, RGB to YUV and YUV to RGB converters return 0 when they could not draw;
  `vrRunScale` and `vrRunCvt2Rgba` read a null source.
- No call of the graphic tools makes them forget a buffer: a descriptor or an
  address that is used again is drawn through its old surface.
- `nx_vip.h:86` declares `NX_VipGetCurrentQueuedCount`, `nx_vip.cpp:546` defines
  `NX_VipGetCurrentBufCount`.

## What is not modelled

Register encodings, constant tables and firmware; pixel arithmetic and shaders;
unloading of the driver; formats, crops and timestamps of V4L2; the JPEG unit's
registers (its instances are in `VpuDriver`); the memory of a codec session and
the encoder side of libnxvpu, whose stream is written and read within one ioctl;
the display library, one device of the kind `VipCapture` has two of; vendored and
prebuilt libraries; the `_64` directories, which are ports of the same code. Most
lines of the repository are of these kinds. `PROJECT.json` lists every component
with its reason.

Within `DecoderStream`: clients that break the assumptions above (a chunk that
does not fit overwrites unread stream, for `FillBuffer` compares nothing), frames
freed or resized under the block, and what a picture looks like. Within
`GraphicEngines`: a failed EGL start, whose result `GTServiceThread` ignores,
`maxInOutBufSize` beyond the arrays, and buffers whose key changes meaning.

## Plan

In order, the most important behaviour first; all are done.

1. `InstancePool`, `VpuDriver`, their proofs.
2. `VpuCommand`, its proofs.
3. `BoundedFifo`, `NxQueue`, their proofs.
4. `NxSemaphore`, `CommandService`, `GraphicTools` (composes both), its proofs.
5. `BufferLoan`, `VipCapture`.
6. `DecoderStream`.
7. `GraphicEngines`.
8. `DecoderStreamProofs`: frames, then ring and stamps.
9. `VipCaptureProofs`.
10. `GraphicEnginesProofs`: references, draws, textures.
11. Weaker hypotheses: `VpuCommandProofs` without any, textures under a condition on
    behaviours instead of an assumption.

What could follow: a run for the surplus UV reference against the assertion at
`vr_deinterlace.cpp:229`, the YUV to RGB converter next to the others in
`gt_engines`, and the display library.
