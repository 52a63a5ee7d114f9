--------------------------- MODULE VpuCommandProofs ---------------------------
(***************************************************************************)
(* What VpuCommand guarantees for any number of ioctls, with signals, timer *)
(* expiries, stalls and late handlers at any moment.  Nothing is assumed of *)
(* the block or the caller: each promise is made to the ioctl that found    *)
(* nothing left over, and the events that break a promise are named in it.  *)
(* What then goes wrong is what the run cmd_false_timeout shows.            *)
(***************************************************************************)
EXTENDS VpuCommand, TLAPS

\* The block executes the current command.
Running == hw = serial /\ ~stalled

\* The block has answered the current command and stopped.
Answered == reason # "none" /\ reasonOf = serial /\ Quiet

\* Which steps of an ioctl the timer's running out leads to.
ExpiryInv ==
  /\ ~SlowIrq => ~irq
  /\ clockOn <=> pc # "idle"
  /\ pc \in {"reset", "resetpoll", "resetclose", "discard"} => expired
  /\ pc = "resetclose" => ret = "timeout"
  /\ pc \in {"issue", "wait", "pollreason", "collect", "poll"} => ~expired
  /\ pc \in {"issue", "wait", "pollreason", "poll"} => ~overtook

\* During a wait the answer exists exactly once, in the line or in the event
\* flag; a broken wait may collect it while the line still holds it.
HandshakeInv ==
  /\ cmdReg = None
  /\ pc = "issue" => Quiet /\ Clean
  /\ pc \in {"wait", "pollreason"} =>
       \/ Clean /\ (Quiet \/ Running)
       \/ Answered /\ (event <=> ~irq)
  /\ pc = "collect" => Answered /\ (event \/ irq => overtook)
  /\ pc = "poll" =>
       /\ Clean
       /\ \/ busy /\ Running /\ kind[serial] \notin Interrupting
          \/ ~busy /\ hw = None /\ lastDone = serial
  /\ pc \in {"return", "idle"} => Quiet /\ (Clean \/ overtook)

\* What an ioctl that found nothing left over may return.
OutcomeInv == pc = "return" =>
  /\ ret \in Answers => retOf = serial
  /\ ret = "timeout" => expired

CommandInv ==
  /\ ExpiryInv
  /\ ~inherited => OutcomeInv /\ (~expired => HandshakeInv)

-----------------------------------------------------------------------------
(* Type correctness, whatever the block and the caller do *)

\* Every step keeps every variable within its type.
LEMMA TypeStep == TypeOK /\ [Next]_vars => TypeOK'
<1> SUFFICES ASSUME TypeOK, [Next]_vars
             PROVE  TypeOK'
  OBVIOUS
<1>0. 0 \in Serials
  BY CommandAssumption DEF Serials
<1>h. inherited' \in BOOLEAN /\ overtook' \in BOOLEAN
  BY DEF TypeOK, vars, taskVars, Next, Task, Block, Start, IssueCommand, FeedStream,
     WaitEvent, WaitSignal, WaitExpire, PollSees, PollExpire, SWReset, Discard, Collect,
     PollBusy, PollBusyExpire, Return, HwDone, HwStall, InterruptHandler
<1> USE <1>0, <1>h DEF TypeOK, None, PCs, Answers
<1>1. ASSUME NEW k \in Kinds, Start(k)
      PROVE  TypeOK'
  <2>1. serial + 1 \in 1 .. MaxCmds /\ serial + 1 \in Serials
    BY <1>1, CommandAssumption DEF Start, Serials
  <2> QED
    BY <1>1, <2>1 DEF Start, hwVars, reasonVars
<1>2. CASE IssueCommand
  BY <1>2 DEF IssueCommand, reasonVars, Interrupting
<1>3. CASE FeedStream
  BY <1>3 DEF FeedStream, reasonVars
<1>4. CASE WaitEvent
  BY <1>4 DEF WaitEvent, EventAfterWait, hwVars, reasonVars
<1>5. CASE WaitSignal \/ WaitExpire
  <2>1. pc' \in PCs /\ expired' \in BOOLEAN /\ event' \in BOOLEAN
    BY <1>5 DEF WaitSignal, AfterSignal, WaitExpire
  <2>2. UNCHANGED <<serial, kind, ret, retOf, needMore, clockOn, hwVars, reasonVars, irq,
                  inherited, overtook>>
    BY <1>5 DEF WaitSignal, WaitExpire
  <2> QED
    BY <2>1, <2>2 DEF hwVars, reasonVars
<1>6. CASE PollSees \/ PollExpire
  <2>1. pc' \in PCs /\ expired' \in BOOLEAN /\ event' \in BOOLEAN
    BY <1>6 DEF PollSees, PollExpire, EventAfterPoll
  <2>2. UNCHANGED <<serial, kind, ret, retOf, needMore, clockOn, hwVars, reasonVars, irq>>
    BY <1>6 DEF PollSees, PollExpire
  <2> QED
    BY <2>1, <2>2 DEF hwVars, reasonVars
<1>7. CASE SWReset
  <2>1. /\ pc' \in PCs /\ hw' \in Serials /\ cmdReg' \in Serials
        /\ stalled' \in BOOLEAN /\ busy' \in BOOLEAN /\ event' \in BOOLEAN
    BY <1>7 DEF SWReset
  <2>2. UNCHANGED <<serial, kind, ret, retOf, needMore, clockOn, expired, lastDone,
                    reasonVars, irq>>
    BY <1>7 DEF SWReset
  <2> QED
    BY <2>1, <2>2 DEF reasonVars
<1>8. CASE Discard
  BY <1>8 DEF Discard, hwVars
<1>9. CASE Collect
  BY <1>9 DEF Collect, ClearLine, Outcome, ReasonAfterCollect, hwVars
<1>10. CASE PollBusy \/ PollBusyExpire
  BY <1>10 DEF PollBusy, PollBusyExpire, ClearLine, hwVars, reasonVars
<1>11. CASE Return
  BY <1>11 DEF Return, hwVars, reasonVars
<1>12. CASE HwDone
  <2>1. UNCHANGED <<taskVars, stalled>>
    BY <1>12 DEF HwDone
  <2>2. busy' \in BOOLEAN /\ hw' \in Serials /\ cmdReg' \in Serials /\ lastDone' \in Serials
    BY <1>12 DEF HwDone
  <2>3. /\ reason' \in {"none", "done", "stall"} /\ reasonOf' \in Serials
        /\ event' \in BOOLEAN /\ irq' \in BOOLEAN
    BY <1>12 DEF HwDone, RaiseIrq, reasonVars
  <2> QED
    BY <2>1, <2>2, <2>3 DEF taskVars
<1>13. CASE HwStall
  <2>1. /\ stalled' \in BOOLEAN /\ reason' \in {"none", "done", "stall"}
        /\ reasonOf' \in Serials /\ event' \in BOOLEAN /\ irq' \in BOOLEAN
    BY <1>13 DEF HwStall, RaiseIrq
  <2>2. UNCHANGED <<taskVars, hw, cmdReg, busy, lastDone>>
    BY <1>13 DEF HwStall
  <2> QED
    BY <2>1, <2>2 DEF taskVars
<1>14. CASE InterruptHandler
  <2>1. UNCHANGED <<taskVars, hwVars, reasonVars>>
    BY <1>14 DEF InterruptHandler
  <2>2. irq' \in BOOLEAN /\ event' \in BOOLEAN
    BY <1>14 DEF InterruptHandler
  <2> QED
    BY <2>1, <2>2 DEF taskVars, hwVars, reasonVars
<1>15. CASE UNCHANGED vars
  BY <1>15 DEF vars, taskVars, hwVars, reasonVars
<1> QED
  BY <1>1, <1>2, <1>3, <1>4, <1>5, <1>6, <1>7, <1>8, <1>9, <1>10, <1>11, <1>12,
     <1>13, <1>14, <1>15 DEF Next, Task, Block

\* Every variable keeps its type in every behaviour, with any signals, timeouts,
\* stalls and delays.
THEOREM CommandTyping == Spec => []TypeOK
<1>1. Init => TypeOK
  <2> SUFFICES ASSUME Init PROVE TypeOK
    OBVIOUS
  <2>1. kind \in [1 .. MaxCmds -> Kinds]
    BY DEF Init, Kinds
  <2>2. 0 \in Serials
    BY CommandAssumption DEF Serials
  <2> QED
    BY <2>1, <2>2 DEF Init, TypeOK, None, PCs, Answers
<1> QED
  BY <1>1, TypeStep, PTL DEF Spec

-----------------------------------------------------------------------------
(* The handshake *)

\* BIT_INT_CLEAR raises no interrupt.
LEMMA LineCleared == ASSUME ClearLine PROVE irq' => irq
<1>1. CASE irq' = FALSE
  BY <1>1
<1>2. CASE irq' = irq
  BY <1>2
<1> QED
  BY <1>1, <1>2 DEF ClearLine

\* The steps of the ioctl keep the handshake.
LEMMA TaskKeepsHandshake ==
  ASSUME TypeOK, CommandInv, (\E k \in Kinds : Start(k)) \/ Task \/ WaitSignal
  PROVE  CommandInv'
<1> USE CommandAssumption
    DEF TypeOK, CommandInv, ExpiryInv, HandshakeInv, OutcomeInv, Quiet, Clean, Running,
        Answered, None
<1>1. ASSUME NEW k \in Kinds, Start(k)
      PROVE  CommandInv'
  BY <1>1 DEF Start, NothingLeft, hwVars, reasonVars
<1>2. CASE IssueCommand
  BY <1>2 DEF IssueCommand, reasonVars
<1>3. CASE FeedStream
  BY <1>3 DEF FeedStream, reasonVars
<1>4. CASE WaitEvent
  BY <1>4 DEF WaitEvent, WaitOver, EventAfterWait, hwVars, reasonVars
<1>5. CASE WaitSignal
  BY <1>5 DEF WaitSignal, AfterSignal, hwVars, reasonVars
<1>6. CASE PollSees
  BY <1>6 DEF PollSees, EventAfterPoll, hwVars, reasonVars
<1>7. CASE WaitExpire \/ PollExpire \/ PollBusyExpire
  <2>1. expired' /\ UNCHANGED <<clockOn, overtook>>
    BY <1>7 DEF WaitExpire, PollExpire, PollBusyExpire
  <2>3. irq' => irq
    <3>1. ClearLine \/ UNCHANGED irq
      BY <1>7 DEF WaitExpire, PollExpire, PollBusyExpire
    <3> QED
      BY <3>1, LineCleared
  <2>2. /\ pc # "idle"
        /\ \/ pc' \in {"reset", "resetpoll"}
           \/ pc' \in {"resetclose", "return"} /\ ret' = "timeout"
    BY <1>7 DEF WaitExpire, PollExpire, PollBusyExpire
  <2> QED
    BY <2>1, <2>2, <2>3 DEF Answers
<1>8. CASE SWReset \/ Discard
  <2>1. expired /\ UNCHANGED <<clockOn, expired, irq>>
    BY <1>8 DEF SWReset, Discard
  <2>2. pc # "idle" /\ (pc' = "discard" \/ (pc' = "return" /\ ret' = "timeout"))
    BY <1>8 DEF SWReset, Discard
  <2> QED
    BY <2>1, <2>2 DEF Answers
<1>9. CASE Collect
  <2>1. UNCHANGED <<serial, clockOn, expired, event, inherited, overtook, hwVars>>
    BY <1>9 DEF Collect
  <2>2. ExpiryInv'
    <3>1. pc = "collect" /\ pc' = "return" /\ (irq' => irq)
      BY <1>9, LineCleared DEF Collect
    <3> QED
      BY <2>1, <3>1
  <2>3. ASSUME ~inherited
        PROVE  (OutcomeInv /\ HandshakeInv)'
    <3>1. reason \in {"done", "stall"} /\ reasonOf = serial /\ Quiet
          /\ (event \/ irq => overtook) /\ cmdReg = None
      BY <1>9, <2>3 DEF Collect
    <3>2. ret' # "timeout" /\ retOf' = serial
      BY <1>9, <3>1 DEF Collect, Outcome
    <3>4. irq' => irq
      BY <1>9, LineCleared DEF Collect
    <3>3. reason' = "none" /\ pc' = "return" /\ (irq' => overtook)
      BY <1>9, <3>1, <3>4 DEF Collect, ReasonAfterCollect
    <3> QED
      BY <2>1, <3>1, <3>2, <3>3 DEF hwVars
  <2> QED
    BY <2>1, <2>2, <2>3
<1>10. CASE PollBusy
  BY <1>10 DEF PollBusy, PollOver, ClearLine, hwVars, reasonVars
<1>11. CASE Return
  BY <1>11 DEF Return, hwVars, reasonVars
<1> QED
  BY <1>1, <1>2, <1>3, <1>4, <1>5, <1>6, <1>7, <1>8, <1>9, <1>10, <1>11 DEF Task

\* The steps of the block and of the handler keep the handshake.
LEMMA BlockKeepsHandshake ==
  ASSUME TypeOK, CommandInv, Block \/ InterruptHandler
  PROVE  CommandInv'
<1> USE CommandAssumption
    DEF TypeOK, CommandInv, ExpiryInv, HandshakeInv, OutcomeInv, Quiet, Clean, Running,
        Answered, None, PCs
<1>1. CASE HwDone
  <2>1. CASE kind[hw] \in Interrupting
    BY <1>1, <2>1 DEF HwDone, RaiseIrq, taskVars
  <2>2. CASE kind[hw] \notin Interrupting
    BY <1>1, <2>2 DEF HwDone, taskVars, reasonVars
  <2> QED
    BY <2>1, <2>2
<1>2. CASE HwStall
  BY <1>2 DEF HwStall, RaiseIrq, taskVars
<1>3. CASE InterruptHandler
  <2>1. irq /\ ~irq' /\ event'
    BY <1>3 DEF InterruptHandler
  <2>2. UNCHANGED <<taskVars, hwVars, reasonVars>>
    BY <1>3 DEF InterruptHandler
  <2> QED
    BY <2>1, <2>2 DEF taskVars, hwVars, reasonVars
<1> QED
  BY <1>1, <1>2, <1>3 DEF Block

\* The handshake holds in every behaviour.
LEMMA Handshake == Spec => []CommandInv
<1>1. Init => CommandInv
  BY DEF Init, CommandInv, ExpiryInv, HandshakeInv, OutcomeInv, Quiet, Clean, None
<1>2. TypeOK /\ CommandInv /\ [Next]_vars => CommandInv'
  <2> SUFFICES ASSUME TypeOK, CommandInv, [Next]_vars
               PROVE  CommandInv'
    OBVIOUS
  <2>1. CASE (\E k \in Kinds : Start(k)) \/ Task \/ WaitSignal
    BY <2>1, TaskKeepsHandshake
  <2>2. CASE Block \/ InterruptHandler
    BY <2>2, BlockKeepsHandshake
  <2>3. CASE UNCHANGED vars
    BY <2>3 DEF vars, taskVars, hwVars, reasonVars, CommandInv, ExpiryInv,
       HandshakeInv, OutcomeInv, Quiet, Clean, Running, Answered
  <2> QED
    BY <2>1, <2>2, <2>3 DEF Next
<1> QED
  BY <1>1, <1>2, CommandTyping, PTL DEF Spec

-----------------------------------------------------------------------------
(* What follows from it *)

\* No ioctl that found nothing left over reports the outcome of another
\* ioctl's command, whatever happens to it meanwhile.
THEOREM OwnAnswers == Spec => []OwnAnswer
<1>1. CommandInv => OwnAnswer
  BY DEF CommandInv, OutcomeInv, OwnAnswer
<1> QED
  BY <1>1, Handshake, PTL

\* No ioctl that found nothing left over reports a timeout while its timer
\* runs: a false timeout is always the fault of an earlier ioctl.
THEOREM NoFalseTimeout == Spec => []TrueTimeout
<1>1. CommandInv => TrueTimeout
  BY DEF CommandInv, OutcomeInv, TrueTimeout
<1> QED
  BY <1>1, Handshake, PTL

\* The clock is taken from a block that executes a command only when a timer
\* ran out, in this ioctl or in the one that left something to it.
THEOREM ClockGating == Spec => []GatedWhenQuiet
<1>1. TypeOK /\ CommandInv => GatedWhenQuiet
  BY DEF TypeOK, PCs, CommandInv, ExpiryInv, HandshakeInv, GatedWhenQuiet
<1> QED
  BY <1>1, CommandTyping, Handshake, PTL

\* An ioctl that found nothing left over, whose timer does not run out and
\* which does not overtake its handler leaves nothing to the next ioctl.
THEOREM HandsOnClean == Spec => []NothingLeftOver
<1>1. CommandInv => NothingLeftOver
  BY DEF CommandInv, HandshakeInv, NothingLeftOver, NothingLeft, Undisturbed
<1> QED
  BY <1>1, Handshake, PTL

\* Until one of these two things happens the interrupt handler never runs
\* without the clock, however late it runs.
THEOREM HandlerClocked == Spec => []HandlerFindsClock
<1>1. CommandInv => HandlerFindsClock
  BY DEF CommandInv, ExpiryInv, HandshakeInv, HandlerFindsClock, Undisturbed, Clean
<1> QED
  BY <1>1, Handshake, PTL
=============================================================================
