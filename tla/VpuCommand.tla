------------------------------ MODULE VpuCommand ------------------------------
(***************************************************************************)
(* One coda960 command, step by step: the ioctl that switches the clock on, *)
(* writes the command and waits, the block that executes it, the interrupt  *)
(* handler, and the signal or the timeout that may end the wait early       *)
(* (VPU_WaitVpuInterrupt, VPU_WaitBitInterrupt, VPU_InterruptHandler of     *)
(* nx_vpu_api.c).  gstDrvMutex admits one ioctl at a time, so one caller    *)
(* issues commands 1 .. MaxCmds; what is left behind by one command meets   *)
(* the next; two history variables, inherited and overtook, record how that *)
(* came about.  Definitions whose names end in Bug are plausible mistakes   *)
(* in the definition after them; nothing uses them.                         *)
(***************************************************************************)
EXTENDS Integers

CONSTANTS
  MaxCmds,     \* how many ioctls the model runs
  Signals,     \* a signal may be pending for the caller
  Timeouts,    \* the block may fail to answer before the timer runs out
  SlowIrq,     \* the handler may run some time after the interrupt is raised
  Stalls       \* the firmware may stop for want of stream or of room

ASSUME CommandAssumption ==
  /\ MaxCmds \in Nat \ {0}
  /\ Signals \in BOOLEAN
  /\ Timeouts \in BOOLEAN
  /\ SlowIrq \in BOOLEAN
  /\ Stalls \in BOOLEAN

\* "dec": SEQ_INIT and PIC_RUN of a decoder.  "enc": PIC_RUN of an encoder.
\* "polled": SET_FRAME_BUF, ENCODE_HEADER, ...  "close": SEQ_END.
Kinds == {"dec", "enc", "polled", "close"}
Interrupting == {"dec", "enc"}
Serials == 0 .. MaxCmds
None == 0
Answers == {"ok", "needstream", "full"}

VARIABLES
  pc,          \* where the ioctl is; "idle" outside gstDrvMutex
  serial,      \* number of the current or last command
  kind,        \* kind of each command issued so far
  ret,         \* what the last command returned
  retOf,       \* the command whose outcome that was
  needMore,    \* needMoreFrame of the decoder
  event,       \* gVpuEventPresent
  clockOn,     \* CODA960CLKENB_REG
  hw,          \* the command the block executes, or None
  cmdReg,      \* a command written while the block was executing another
  stalled,     \* hw waits for stream or room
  busy,        \* BIT_BUSY_FLAG
  reason,      \* BIT_INT_REASON: "none", "done" or "stall"
  reasonOf,    \* the command that set it
  lastDone,    \* the last command the block finished
  irq,         \* an interrupt is raised and its handler has not run
  expired,     \* the timer ran out in the current command
  inherited,   \* history: the current command found something left over
  overtook     \* history: its broken wait was over before its handler ran

taskVars == <<pc, serial, kind, ret, retOf, needMore, clockOn, expired,
              inherited, overtook>>
hwVars == <<hw, cmdReg, stalled, busy, lastDone>>
reasonVars == <<reason, reasonOf>>
vars == <<taskVars, hwVars, reasonVars, event, irq>>

PCs == {"idle", "issue", "wait", "pollreason", "reset", "resetpoll", "resetclose",
        "collect", "discard", "poll", "return"}

TypeOK ==
  /\ pc \in PCs
  /\ serial \in Serials
  /\ kind \in [1 .. MaxCmds -> Kinds]
  /\ ret \in Answers \cup {"none", "timeout"}
  /\ retOf \in Serials
  /\ needMore \in BOOLEAN
  /\ event \in BOOLEAN
  /\ clockOn \in BOOLEAN
  /\ hw \in Serials
  /\ cmdReg \in Serials
  /\ stalled \in BOOLEAN
  /\ busy \in BOOLEAN
  /\ reason \in {"none", "done", "stall"}
  /\ reasonOf \in Serials
  /\ lastDone \in Serials
  /\ irq \in BOOLEAN
  /\ expired \in BOOLEAN
  /\ inherited \in BOOLEAN
  /\ overtook \in BOOLEAN

Init ==
  /\ pc = "idle"
  /\ serial = 0
  /\ kind = [n \in 1 .. MaxCmds |-> "polled"]
  /\ ret = "none"
  /\ retOf = None
  /\ needMore = FALSE
  /\ event = FALSE
  /\ clockOn = FALSE
  /\ hw = None
  /\ cmdReg = None
  /\ stalled = FALSE
  /\ busy = FALSE
  /\ reason = "none"
  /\ reasonOf = None
  /\ lastDone = None
  /\ irq = FALSE
  /\ expired = FALSE
  /\ inherited = FALSE
  /\ overtook = FALSE

\* The block executes nothing, or waits inside a picture.
Quiet == hw = None \/ stalled

\* Nothing is left in the event flag, the line or the reason register.
Clean == ~event /\ ~irq /\ reason = "none"

\* An ioctl may begin as if it were the first.
NothingLeft == Quiet /\ cmdReg = None /\ Clean

-----------------------------------------------------------------------------
(* The ioctl *)

\* nx_vpu_ioctl: lock, clock on.
Start(k) ==
  /\ pc = "idle"
  /\ serial < MaxCmds
  /\ pc' = "issue"
  /\ serial' = serial + 1
  /\ kind' = [kind EXCEPT ![serial + 1] = k]
  /\ ret' = "none"
  /\ retOf' = None
  /\ clockOn' = TRUE
  /\ expired' = FALSE
  /\ inherited' = ~NothingLeft
  /\ overtook' = FALSE
  /\ UNCHANGED <<needMore, hwVars, reasonVars, event, irq>>

\* VpuBitIssueCommand: busy, then the command.  A block inside a stalled
\* command drops it; one that is executing finishes first.
IssueCommand ==
  /\ pc = "issue"
  /\ ~(needMore /\ kind[serial] = "dec")
  /\ busy' = TRUE
  /\ IF hw = None \/ stalled
       THEN hw' = serial /\ stalled' = FALSE /\ UNCHANGED cmdReg
       ELSE cmdReg' = serial /\ UNCHANGED <<hw, stalled>>
  /\ pc' = IF kind[serial] \in Interrupting THEN "wait" ELSE "poll"
  /\ UNCHANGED <<serial, kind, ret, retOf, needMore, clockOn, expired, lastDone,
                 reasonVars, event, irq, inherited, overtook>>

\* needMoreFrame: the write pointer moves on, no command is issued.  A block
\* that is no longer inside the picture has nothing to go on with.
FeedStream ==
  /\ pc = "issue"
  /\ needMore /\ kind[serial] = "dec"
  /\ needMore' = FALSE
  /\ IF stalled THEN hw' = serial /\ stalled' = FALSE ELSE UNCHANGED <<hw, stalled>>
  /\ pc' = "wait"
  /\ UNCHANGED <<serial, kind, ret, retOf, clockOn, expired, cmdReg, busy, lastDone,
                 reasonVars, event, irq, inherited, overtook>>

\* VPU_WaitVpuInterrupt, the event has come: consume it.
EventAfterWaitBug == TRUE
EventAfterWait == FALSE

WaitOverBug == event \/ reason # "none"
WaitOver == event

WaitEvent ==
  /\ pc = "wait"
  /\ WaitOver
  /\ event' = EventAfterWait
  /\ pc' = "collect"
  /\ UNCHANGED <<serial, kind, ret, retOf, needMore, clockOn, expired, hwVars,
                 reasonVars, irq, inherited, overtook>>

\* The wait is interrupted (its result is negative, not 0): go on by polling
\* BIT_INT_REASON.
AfterSignalBug == "collect"
AfterSignal == "pollreason"

WaitSignal ==
  /\ pc = "wait"
  /\ Signals
  /\ ~event
  /\ pc' = AfterSignal
  /\ UNCHANGED <<serial, kind, ret, retOf, needMore, clockOn, expired, hwVars,
                 reasonVars, event, irq, inherited, overtook>>

\* The timer runs out: the event is cleared before the block is reset.
WaitExpire ==
  /\ pc = "wait"
  /\ Timeouts
  /\ ~event
  /\ expired' = TRUE
  /\ event' = FALSE
  /\ pc' = "reset"
  /\ UNCHANGED <<serial, kind, ret, retOf, needMore, clockOn, hwVars, reasonVars, irq,
                 inherited, overtook>>

EventAfterPollBug == event
EventAfterPoll == FALSE

PollSees ==
  /\ pc = "pollreason"
  /\ reason # "none"
  /\ event' = EventAfterPoll
  /\ pc' = "collect"
  /\ overtook' = irq
  /\ UNCHANGED <<serial, kind, ret, retOf, needMore, clockOn, expired, hwVars,
                 reasonVars, irq, inherited>>

PollGivesUpBug == FALSE
PollGivesUp == Timeouts

PollExpire ==
  /\ pc = "pollreason"
  /\ PollGivesUp
  /\ reason = "none"
  /\ expired' = TRUE
  /\ pc' = "resetpoll"
  /\ UNCHANGED <<serial, kind, ret, retOf, needMore, clockOn, hwVars, reasonVars,
                 event, irq, inherited, overtook>>

\* VPU_SWReset stops the block, or gives up waiting for the bus.
SWReset ==
  /\ pc \in {"reset", "resetpoll", "resetclose"}
  /\ \/ hw' = None /\ cmdReg' = None /\ stalled' = FALSE /\ busy' = FALSE
     \/ UNCHANGED <<hw, cmdReg, stalled, busy>>
  /\ event' = IF pc = "resetpoll" THEN FALSE ELSE event
  /\ pc' = IF pc = "resetclose" THEN "return" ELSE "discard"
  /\ UNCHANGED <<serial, kind, ret, retOf, needMore, clockOn, expired, lastDone,
                 reasonVars, irq, inherited, overtook>>

\* VPU_WaitBitInterrupt after a timeout: read the reason, clear it, report 0.
Discard ==
  /\ pc = "discard"
  /\ reason' = "none"
  /\ ret' = "timeout"
  /\ pc' = "return"
  /\ UNCHANGED <<serial, kind, retOf, needMore, clockOn, expired, hwVars, reasonOf,
                 event, irq, inherited, overtook>>

\* BIT_INT_CLEAR: the line goes down; a handler that is already on its way
\* runs all the same.
ClearLine == irq' \in {FALSE, irq}

\* VPU_WaitBitInterrupt after an event: the caller tells from the reason what
\* happened; no reason at all is VPU_RET_ERR_TIMEOUT.
ReasonAfterCollectBug == reason
ReasonAfterCollect == "none"

OutcomeBug(k) == reason
Outcome(k) ==
  IF reason = "none" THEN "timeout"
  ELSE IF reason = "done" THEN "ok"
  ELSE IF k = "dec" THEN "needstream" ELSE "full"

Collect ==
  /\ pc = "collect"
  /\ ClearLine
  /\ ret' = Outcome(kind[serial])
  /\ retOf' = reasonOf
  /\ needMore' = (needMore \/ (reason = "stall" /\ kind[serial] = "dec"))
  /\ reason' = ReasonAfterCollect
  /\ pc' = "return"
  /\ UNCHANGED <<serial, kind, clockOn, expired, hwVars, reasonOf, event,
                 inherited, overtook>>

\* VPU_WaitVpuBusy: the flag goes down.  VPU_DecCloseCommand and
\* VPU_EncCloseCommand then clear what a broken wait may have left.
PollOverBug == TRUE
PollOver == ~busy

PollBusy ==
  /\ pc = "poll"
  /\ PollOver
  /\ ret' = "ok"
  /\ retOf' = lastDone
  /\ IF kind[serial] = "close"
       THEN event' = FALSE /\ ClearLine
       ELSE UNCHANGED <<event, irq>>
  /\ pc' = "return"
  /\ UNCHANGED <<serial, kind, needMore, clockOn, expired, hwVars, reasonVars,
                 inherited, overtook>>

PollBusyExpire ==
  /\ pc = "poll"
  /\ Timeouts
  /\ busy
  /\ expired' = TRUE
  /\ ret' = "timeout"
  /\ IF kind[serial] = "close"
       THEN event' = FALSE /\ ClearLine /\ pc' = "resetclose"
       ELSE pc' = "return" /\ UNCHANGED <<event, irq>>
  /\ UNCHANGED <<serial, kind, retOf, needMore, clockOn, hwVars, reasonVars,
                 inherited, overtook>>

\* Clock off, unlock.
Return ==
  /\ pc = "return"
  /\ pc' = "idle"
  /\ clockOn' = FALSE
  /\ UNCHANGED <<serial, kind, ret, retOf, needMore, expired, hwVars, reasonVars,
                 event, irq, inherited, overtook>>

-----------------------------------------------------------------------------
(* The block, which runs only while it has a clock, and the handler *)

RaiseIrqBug == UNCHANGED <<event, irq>>
RaiseIrq ==
  IF SlowIrq THEN irq' = TRUE /\ UNCHANGED event
             ELSE event' = TRUE /\ UNCHANGED irq

\* The command is done; a command written meanwhile is taken up.
HwDone ==
  /\ clockOn
  /\ hw # None /\ ~stalled
  /\ busy' = FALSE
  /\ lastDone' = hw
  /\ hw' = cmdReg
  /\ cmdReg' = None
  /\ IF kind[hw] \in Interrupting
       THEN reason' = "done" /\ reasonOf' = hw /\ RaiseIrq
       ELSE UNCHANGED <<reasonVars, event, irq>>
  /\ UNCHANGED <<taskVars, stalled>>

\* BIT_BUF_EMPTY or BIT_BUF_FULL: the firmware waits inside the picture.
HwStall ==
  /\ Stalls
  /\ clockOn
  /\ hw # None /\ ~stalled
  /\ kind[hw] \in Interrupting
  /\ stalled' = TRUE
  /\ reason' = "stall"
  /\ reasonOf' = hw
  /\ RaiseIrq
  /\ UNCHANGED <<taskVars, hw, cmdReg, busy, lastDone>>

\* VPU_InterruptHandler
InterruptHandler ==
  /\ irq
  /\ irq' = FALSE
  /\ event' = TRUE
  /\ UNCHANGED <<taskVars, hwVars, reasonVars>>

-----------------------------------------------------------------------------
Task ==
  \/ IssueCommand
  \/ FeedStream
  \/ WaitEvent
  \/ WaitExpire
  \/ PollSees
  \/ PollExpire
  \/ SWReset
  \/ Discard
  \/ Collect
  \/ PollBusy
  \/ PollBusyExpire
  \/ Return

Block == HwDone \/ HwStall

Next ==
  \/ \E k \in Kinds : Start(k)
  \/ Task
  \/ WaitSignal
  \/ Block
  \/ InterruptHandler

\* The kernel runs the ioctl and the handler; nobody owes the caller a signal;
\* where the timer may run out, nothing is asked of the block.
Fairness ==
  /\ WF_vars(Task)
  /\ WF_vars(InterruptHandler)
  /\ ~Timeouts => WF_vars(Block)

Spec == Init /\ [][Next]_vars /\ Fairness

-----------------------------------------------------------------------------
(* Properties *)

\* An ioctl that found nothing left over and reports an outcome reports that of
\* its own command, whatever signals, stalls and late handlers it met.
OwnAnswer == (pc = "return" /\ ret \in Answers /\ ~inherited) => retOf = serial

\* An ioctl that found nothing left over reports VPU_RET_ERR_TIMEOUT only when
\* its timer ran out.
TrueTimeout == (pc = "return" /\ ret = "timeout" /\ ~inherited) => expired

\* linux_vpu_drv.c gates the clock at the end of every ioctl: never under a
\* command in execution (it may wait for stream), unless the timer ran out.
GatedWhenQuiet == (~clockOn /\ ~inherited /\ ~expired) => Quiet

\* Nothing went wrong in the current or last ioctl, nor was left by an earlier
\* one: it found nothing left over, its timer did not run out, and no signal
\* made it overtake its interrupt handler.
Undisturbed == ~inherited /\ ~expired /\ ~overtook

\* The handler's write of BIT_INT_CLEAR finds the block clocked.
HandlerFindsClock == (irq /\ Undisturbed) => clockOn

\* An undisturbed ioctl leaves nothing to the next: trouble starts only with a
\* timer that runs out or with a signal before a late handler.
NothingLeftOver == (pc \in {"return", "idle"} /\ Undisturbed) => NothingLeft

\* Every ioctl returns, so gstDrvMutex is never held for ever.
EveryIoctlReturns == (pc # "idle") ~> (pc = "idle")

\* VPU_RET_ERR_TIMEOUT is what nx_vpu_api.h:97 says: "VPU Wait Timeout".
TimeoutMeansTimeout == (pc = "return" /\ ret = "timeout") => expired
=============================================================================
