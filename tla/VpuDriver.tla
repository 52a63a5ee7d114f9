------------------------------ MODULE VpuDriver ------------------------------
(***************************************************************************)
(* The coda960 kernel driver: the open, release, ioctl, suspend and resume  *)
(* entry points of linux_vpu_drv.c over the instance table and the power    *)
(* state of nx_vpu_api.c.                                                   *)
(*                                                                         *)
(* Every entry point runs from start to end under gstDrvMutex, so each is   *)
(* one action.  What happens inside one command, while the interrupt        *)
(* handler runs, is the subject of module VpuCommand; here a command has an *)
(* outcome, chosen by the hardware.  The definitions whose names end in Bug *)
(* are plausible mistakes in the definition after them; nothing uses them.  *)
(***************************************************************************)
EXTENDS Integers, FiniteSets

CONSTANTS
  Files,          \* open file descriptions of /dev/nx_vpu
  MaxInstance,    \* NX_MAX_VPU_INSTANCE = NX_MAX_VPU_INST_SPACE
  MaxEnc,         \* NX_MAX_VPU_ENC_INST
  MaxDec,         \* NX_MAX_VPU_DEC_INST
  Hangs,          \* the hardware may fail to answer within a timeout
  Stalls,         \* the firmware may stop inside a picture for want of stream
  Reopen,         \* a client may send OPEN_INSTANCE twice on one file
  CopyFails       \* copy_to_user may fail at the end of OPEN_INSTANCE

ASSUME LimitsAssumption ==
  /\ MaxInstance \in Nat \ {0}
  /\ MaxEnc \in Nat
  /\ MaxDec \in Nat
  /\ MaxEnc + MaxDec <= MaxInstance

ASSUME EnvironmentAssumption ==
  /\ Hangs \in BOOLEAN
  /\ Stalls \in BOOLEAN
  /\ Reopen \in BOOLEAN
  /\ CopyFails \in BOOLEAN

Slots == 0 .. MaxInstance - 1
NoInst == -1                    \* filp->private_data == 0
Idle == -1                      \* BIT_BUSY_FLAG is clear
Boot == -2                      \* BIT_BUSY_FLAG left set by the boot code
Kinds == {"dec", "enc", "jpg"}  \* codecMode < AVC_ENC, AVC_ENC or MP4_ENC, MJPG_ENC

VARIABLES
  opened,         \* the files that are open
  inst,           \* filp->private_data of each file
  inUse,          \* instances with inUse = 1
  codecMode,      \* codecMode of each instance
  seqReady,       \* instances with isInitialized = 1
  needMore,       \* instances with needMoreFrame = 1
  numInstance,    \* gstCurNumInstance
  encInstance,    \* gstCruEncInstance
  decInstance,    \* gstCruDecInstance
  powered,        \* gstIsVPUOn
  ready,          \* gstIsInitialized
  running,        \* the instance whose command left BIT_BUSY_FLAG set
  regsLoaded,     \* the BIT registers hold the addresses NX_VpuInit programs
  regStore,       \* the same, of the copy in gstVpuRegStore
  asleep          \* the system is suspended

tableVars == <<inUse, codecMode, seqReady, needMore>>
countVars == <<numInstance, encInstance, decInstance>>
powerVars == <<powered, ready, running, regsLoaded, regStore>>
vars == <<opened, inst, tableVars, countVars, powerVars, asleep>>

TypeOK ==
  /\ opened \subseteq Files
  /\ inst \in [Files -> Slots \cup {NoInst}]
  /\ inUse \subseteq Slots
  /\ codecMode \in [Slots -> Kinds]
  /\ seqReady \subseteq Slots
  /\ needMore \subseteq Slots
  /\ numInstance \in 0 .. MaxInstance
  /\ encInstance \in Int
  /\ decInstance \in Int
  /\ powered \in BOOLEAN
  /\ ready \in BOOLEAN
  /\ running \in Slots \cup {Idle, Boot}
  /\ regsLoaded \in BOOLEAN
  /\ regStore \in BOOLEAN
  /\ asleep \in BOOLEAN

\* After the module has loaded: nx_vpu_init has booted the firmware.
Init ==
  /\ opened = {}
  /\ inst = [f \in Files |-> NoInst]
  /\ inUse = {}
  /\ codecMode = [s \in Slots |-> "dec"]
  /\ seqReady = {}
  /\ needMore = {}
  /\ numInstance = 0
  /\ encInstance = 0
  /\ decInstance = 0
  /\ powered = TRUE
  /\ ready = TRUE
  /\ running = Idle
  /\ regsLoaded = TRUE
  /\ regStore = FALSE
  /\ asleep = FALSE

-----------------------------------------------------------------------------
(* Opening and closing the device *)

\* NX_VpuInit: nothing when the firmware already runs, else power up, load the
\* code and wait; only a boot that answers in time clears the instance table.
VpuInit ==
  \/ /\ ready
     /\ UNCHANGED <<inUse, powered, ready, running, regsLoaded>>
  \/ /\ ~ready
     /\ powered' = TRUE
     /\ regsLoaded' = TRUE
     /\ \/ inUse' = {} /\ ready' = TRUE /\ running' = Idle
        \/ Hangs /\ inUse' = {} /\ ready' = TRUE /\ running' = Boot
        \/ Hangs /\ running' = Boot /\ UNCHANGED <<inUse, ready>>

RoomForFileBug == numInstance <= MaxInstance
RoomForFile == numInstance < MaxInstance

\* nx_vpu_open; a refused open changes nothing.
Open(f) ==
  /\ ~asleep
  /\ f \notin opened
  /\ RoomForFile
  /\ IF numInstance = 0
       THEN VpuInit
       ELSE UNCHANGED <<inUse, powered, ready, running, regsLoaded>>
  /\ numInstance' = numInstance + 1
  /\ opened' = opened \cup {f}
  /\ inst' = [inst EXCEPT ![f] = NoInst]
  /\ UNCHANGED <<codecMode, seqReady, needMore, encInstance, decInstance,
                 regStore, asleep>>

\* Where SEQ_END leaves the busy flag: clear when the firmware answers; after
\* a timeout VPU_SWReset may or may not clear it.
AfterSeqEnd(s) == IF Hangs THEN {Idle, s} ELSE {Idle}

\* VPU_EncCloseCommand, VPU_DecCloseCommand: SEQ_END for an instance whose
\* sequence was started.  MJPG_ENC uses the JPEG block and sends nothing.
AfterClose(s) ==
  IF s \in seqReady /\ codecMode[s] # "jpg" THEN AfterSeqEnd(s) ELSE {running}

\* nx_vpu_close clears isInitialized whatever the codec did with it.
SeqAfterCloseBug(s) == IF codecMode[s] = "jpg" THEN seqReady ELSE seqReady \ {s}
SeqAfterClose(s) == seqReady \ {s}

CountAfterCloseBug(s) ==
  IF codecMode[s] # "jpg"
    THEN decInstance' = decInstance - 1 /\ UNCHANGED encInstance
    ELSE encInstance' = encInstance - 1 /\ UNCHANGED decInstance
CountAfterClose(s) ==
  IF codecMode[s] = "dec"
    THEN decInstance' = decInstance - 1 /\ UNCHANGED encInstance
    ELSE encInstance' = encInstance - 1 /\ UNCHANGED decInstance

LastFileGoneBug == numInstance' <= 1
LastFileGoneEarlyBug == numInstance = 0
LastFileGone == numInstance' = 0

\* NX_VpuDeInit: a block that is busy stays on, and stays initialised.
VpuDeInitBug ==
  /\ powered' = FALSE
  /\ IF ready /\ running' = Idle
       THEN ready' = FALSE /\ regsLoaded' = FALSE
       ELSE UNCHANGED <<ready, regsLoaded>>
VpuDeInit ==
  IF ready /\ running' = Idle
    THEN powered' = FALSE /\ ready' = FALSE /\ regsLoaded' = FALSE
    ELSE UNCHANGED <<powered, ready, regsLoaded>>

\* nx_vpu_close; the last file takes the block down with it.
Close(f) ==
  /\ ~asleep
  /\ f \in opened
  /\ LET s == inst[f] IN
     IF s # NoInst /\ s \in inUse
       THEN /\ inUse' = inUse \ {s}
            /\ seqReady' = SeqAfterClose(s)
            /\ needMore' = needMore \ {s}
            /\ running' \in AfterClose(s)
            /\ CountAfterClose(s)
       ELSE UNCHANGED <<inUse, seqReady, needMore, running, encInstance,
                        decInstance>>
  /\ numInstance' = numInstance - 1
  /\ opened' = opened \ {f}
  /\ inst' = [inst EXCEPT ![f] = NoInst]
  /\ IF LastFileGone THEN VpuDeInit ELSE UNCHANGED <<powered, ready, regsLoaded>>
  /\ UNCHANGED <<codecMode, regStore, asleep>>

\* NX_VpuEncOpen, NX_VpuDecOpen search the table from index 0.
FirstFreeBug(s) == s \in Slots
FirstFree(s) ==
  /\ s \in Slots \ inUse
  /\ \A t \in Slots \ inUse : s <= t

\* ... and set up the instance they found: codecInfo is cleared, isInitialized
\* is not.
TakeInstance(s, k) ==
  /\ inUse' = inUse \cup {s}
  /\ codecMode' = [codecMode EXCEPT ![s] = k]
  /\ needMore' = needMore \ {s}
  /\ UNCHANGED seqReady

\* A JPEG encoder counts as an encoder; NX_MAX_VPU_JPG_INST is never consulted.
QuotaLeftBug(k) == CASE k = "dec" -> decInstance < MaxDec
                     [] k = "enc" -> encInstance < MaxEnc
                     [] k = "jpg" -> TRUE
QuotaLeft(k) == IF k = "dec" THEN decInstance < MaxDec ELSE encInstance < MaxEnc

\* IOCTL_VPU_OPEN_INSTANCE.  The instance is taken before copy_to_user; when
\* that fails neither the file nor the counters learn of it.
OpenInstance(f, k, copied) ==
  /\ ~asleep
  /\ f \in opened
  /\ Reopen \/ inst[f] = NoInst
  /\ copied \/ CopyFails
  /\ QuotaLeft(k)
  /\ ready
  /\ \E s \in Slots :
       /\ FirstFree(s)
       /\ TakeInstance(s, k)
       /\ inst' = IF copied THEN [inst EXCEPT ![f] = s] ELSE inst
  /\ decInstance' = IF copied /\ k = "dec" THEN decInstance + 1 ELSE decInstance
  /\ encInstance' = IF copied /\ k # "dec" THEN encInstance + 1 ELSE encInstance
  /\ UNCHANGED <<opened, numInstance, powerVars, asleep>>

\* IOCTL_VPU_CLOSE_INSTANCE ends the sequence; file and counters keep the
\* instance until the file is closed.  MJPG_ENC does nothing here.
CloseInstance(f) ==
  /\ ~asleep
  /\ inst[f] # NoInst
  /\ running' \in AfterClose(inst[f])
  /\ seqReady' = IF codecMode[inst[f]] = "jpg" THEN seqReady ELSE seqReady \ {inst[f]}
  /\ UNCHANGED <<opened, inst, inUse, codecMode, needMore, countVars,
                 powered, ready, regsLoaded, regStore, asleep>>

-----------------------------------------------------------------------------
(* Codec commands of a file that holds an instance *)

Caller(f, kinds) ==
  /\ ~asleep
  /\ inst[f] # NoInst
  /\ codecMode[inst[f]] \in kinds

QuietVars == <<opened, inst, inUse, codecMode, countVars, powered, ready,
               regsLoaded, regStore, asleep>>

\* Commands that wait for an interrupt.  A timeout resets the block, which may
\* or may not end what it was doing; an error report of the firmware does not.
TimedOut(s) == Hangs /\ running' \in {Idle, s}

\* VPU_EncSeqCommand
EncSeqCommand(s) ==
  \/ seqReady' = seqReady \cup {s} /\ running' = Idle
  \/ seqReady' = seqReady /\ (running' = Idle \/ TimedOut(s))

\* VPU_DecSeqComplete reads the outcome of an answered SEQ_INIT.
DecSeqComplete(s) == running' = Idle /\ seqReady' \in {seqReady \cup {s}, seqReady}

\* VPU_DecSeqInitCommand: a SEQ_INIT, or the rest of one that asked for stream.
DecSeqInitCommand(s) ==
  \/ needMore' = needMore \ {s} /\ DecSeqComplete(s)
  \/ needMore' = needMore \ {s} /\ seqReady' = seqReady /\ TimedOut(s)
  \/ Stalls /\ needMore' = needMore \cup {s} /\ seqReady' = seqReady /\ running' = s

\* VPU_EncOneFrameCommand: a full stream buffer returns VPU_RET_ERR_STRM_FULL
\* and leaves the firmware inside the picture.
EncOneFrameCommand(s) ==
  \/ running' = Idle
  \/ TimedOut(s)
  \/ Stalls /\ running' = s

\* VPU_DecStartOneFrameCommand: a PIC_RUN, or the rest of one.
DecStartOneFrameCommand(s) ==
  \/ needMore' = needMore \ {s} /\ (running' = Idle \/ TimedOut(s))
  \/ Stalls /\ needMore' = needMore \cup {s} /\ running' = s

\* The commands that poll BIT_BUSY_FLAG give up without a reset.
PolledCommand(s) == running' = Idle \/ (Hangs /\ running' = s)

\* IOCTL_VPU_ENC_SET_SEQ_PARAM; MJPG_ENC only fills its tables.
EncSetSeqParam(f) ==
  /\ Caller(f, {"enc", "jpg"})
  /\ \/ /\ codecMode[inst[f]] = "jpg"
        /\ seqReady' = seqReady \cup {inst[f]}
        /\ UNCHANGED running
     \/ codecMode[inst[f]] = "enc" /\ EncSeqCommand(inst[f])
  /\ UNCHANGED <<needMore, QuietVars>>

\* IOCTL_VPU_DEC_SET_SEQ_INFO
DecSetSeqInfo(f) ==
  /\ Caller(f, {"dec"})
  /\ DecSeqInitCommand(inst[f])
  /\ UNCHANGED QuietVars

\* IOCTL_VPU_ENC_RUN_FRAME
EncRunFrame(f) ==
  /\ Caller(f, {"enc"})
  /\ EncOneFrameCommand(inst[f])
  /\ UNCHANGED <<seqReady, needMore, QuietVars>>

\* IOCTL_VPU_DEC_RUN_FRAME
DecRunFrame(f) ==
  /\ Caller(f, {"dec"})
  /\ DecStartOneFrameCommand(inst[f])
  /\ UNCHANGED <<seqReady, QuietVars>>

EncPolled(f) ==
  /\ Caller(f, {"enc"})
  /\ PolledCommand(inst[f])
  /\ UNCHANGED <<seqReady, needMore, QuietVars>>

EncSetFrameBuf(f) == EncPolled(f)   \* IOCTL_VPU_ENC_SET_FRAME_BUF
EncGetHeader(f) == EncPolled(f)     \* IOCTL_VPU_ENC_GET_HEADER, two commands
EncChgParam(f) == EncPolled(f)      \* IOCTL_VPU_ENC_CHG_PARAM

DecPolled(f) ==
  /\ Caller(f, {"dec"})
  /\ PolledCommand(inst[f])
  /\ UNCHANGED <<seqReady, needMore, QuietVars>>

DecRegFrameBuf(f) == DecPolled(f)   \* IOCTL_VPU_DEC_REG_FRAME_BUF
DecFlush(f) == DecPolled(f)         \* IOCTL_VPU_DEC_FLUSH keeps needMoreFrame

Command(f) ==
  \/ EncSetSeqParam(f)
  \/ EncSetFrameBuf(f)
  \/ EncGetHeader(f)
  \/ EncRunFrame(f)
  \/ EncChgParam(f)
  \/ DecSetSeqInfo(f)
  \/ DecRegFrameBuf(f)
  \/ DecRunFrame(f)
  \/ DecFlush(f)

-----------------------------------------------------------------------------
(* Power management.  User processes are frozen while the system sleeps. *)

\* nx_vpu_drv_suspend ignores what NX_VpuSuspend returns: a busy block is
\* neither saved nor switched off, and the system goes to sleep all the same.
Suspend ==
  /\ ~asleep
  /\ asleep' = TRUE
  /\ IF ready /\ running = Idle
       THEN regStore' = regsLoaded /\ regsLoaded' = FALSE /\ powered' = FALSE
       ELSE UNCHANGED <<regStore, regsLoaded, powered>>
  /\ UNCHANGED <<opened, inst, tableVars, countVars, ready, running>>

\* What NX_VpuResume writes to the BIT registers: the copy, whatever it holds.
RestoredRegsBug == FALSE
RestoredRegs == regStore

\* nx_vpu_drv_resume: power up, reset, write the saved registers, boot.
Resume ==
  /\ asleep
  /\ asleep' = FALSE
  /\ IF ready
       THEN /\ powered' = TRUE
            /\ regsLoaded' = RestoredRegs
            /\ running' \in (IF Hangs THEN {Idle, Boot} ELSE {Idle})
       ELSE UNCHANGED <<powered, regsLoaded, running>>
  /\ UNCHANGED <<opened, inst, tableVars, countVars, ready, regStore>>

-----------------------------------------------------------------------------
Next ==
  \/ \E f \in Files :
       \/ Open(f)
       \/ Close(f)
       \/ \E k \in Kinds, copied \in BOOLEAN : OpenInstance(f, k, copied)
       \/ CloseInstance(f)
       \/ Command(f)
  \/ Suspend
  \/ Resume

Spec == Init /\ [][Next]_vars

-----------------------------------------------------------------------------
(* Properties *)

Owners == {f \in Files : inst[f] # NoInst}
Leased == {inst[f] : f \in Owners}

\* Every instance a file holds is in use, and no two files hold the same one,
\* whatever clients do: linux_vpu_drv.c:105 trusts private_data on this.
SlotOwnership ==
  /\ Owners \subseteq opened
  /\ Leased \subseteq inUse
  /\ \A f, g \in Owners : inst[f] = inst[g] => f = g

\* The two quota counters are exactly the instances held, by kind, and no
\* instance is in use without a holder (lines 108, 215 against inUse).
Accounting ==
  /\ inUse = Leased
  /\ decInstance = Cardinality({f \in Owners : codecMode[inst[f]] = "dec"})
  /\ encInstance = Cardinality({f \in Owners : codecMode[inst[f]] # "dec"})

\* The quotas keep the instance table from filling up: whenever a client is
\* below its quota the search of NX_VpuEncOpen and NX_VpuDecOpen succeeds, so
\* VPU_RET_ERR_INST (nx_vpu_api.c:830) is never returned.
SearchSucceeds == (\E k \in Kinds : QuotaLeft(k)) => Slots \ inUse # {}

\* A free instance carries no sequence of its last holder: its next holder's
\* close sends SEQ_END only for a sequence that holder started (line 111).
FreshSlot == seqReady \subseteq inUse

\* While the system is awake, a file that holds an instance finds the block
\* initialised and switched on; no ioctl tests either (lines 221-614).
LiveHardware == ~asleep => \A f \in Owners : ready /\ powered

\* The block the driver believes initialised has the buffer addresses and the
\* interrupt mask of NX_VpuInit in its registers (linux_vpu_drv.c:661: suspend
\* and resume support for the video firmware).
FirmwareSurvives == (ready /\ ~asleep) => regsLoaded

\* The close of the last file switches the block off (linux_vpu_drv.c:126).
LastCloseSwitchesOff == [][opened # {} /\ opened' = {} => ~powered']_vars

\* What clients see of the instance table is the abstract pool: each one leases
\* an instance nobody holds, within its quota, and only it gives it back.
Pool == INSTANCE InstancePool WITH
          lease <- [f \in Files |-> IF inst[f] = NoInst THEN <<>>
                                     ELSE <<inst[f], codecMode[inst[f]]>>]
PoolSpec == Pool!PoolSpec
=============================================================================
