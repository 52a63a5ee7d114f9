------------------------------- MODULE VipCapture -------------------------------
(***************************************************************************)
(* The capture half of libnxv4l2 (nx_vip.cpp): threads that queue empty     *)
(* buffers to the clipper, the decimator or both, and threads that dequeue  *)
(* filled ones.  hMutex guards the slot search and the counter; the calls   *)
(* into V4L2, the flag of the stream and the emptying of a slot run outside *)
(* it, so they are steps of their own.                                      *)
(*                                                                         *)
(* A buffer stands for the memories an application hands over in one call:  *)
(* one for NX_VipQueueBuffer, the pair for NX_VipQueueBuffer2.  The devices *)
(* are external: a queue of empty buffers, a queue of filled ones, and      *)
(* whether they stream.  Definitions whose names end in Bug are plausible   *)
(* mistakes in the definition after them; nothing uses them.                *)
(***************************************************************************)
EXTENDS Integers, Sequences, FiniteSets

CONSTANTS
  Queuers,            \* threads that call NX_VipQueueBuffer(2)
  Dequeuers,          \* threads that call NX_VipDequeueBuffer(2)
  Buffers,            \* buffers of the application
  NULL,               \* an empty slot
  VIP_MAX_BUF_SIZE,
  Racing              \* NX_VipChangeConfig may run beside other calls

ASSUME VipAssumption ==
  /\ Queuers \cap Dequeuers = {} /\ IsFiniteSet(Dequeuers)
  /\ NULL \notin Buffers
  /\ VIP_MAX_BUF_SIZE \in Nat \ {0}
  /\ Racing \in BOOLEAN

VARIABLES
  mode,            \* of the handle
  pMgmtMem,        \* the slots of each device: pMgmtMem1 when there is one,
                   \* pMgmtMem1 (clipper) and pMgmtMem2 when there are two
  curQueuedSize,
  streamOnFlag,
  queued, filled,  \* for each device, <<index, buffer>> to fill and filled
  streaming,       \* devices that stream
  pc, todo,        \* where each thread is; the devices this phase still visits
  idx, mem,        \* each thread's slot and buffer for each device
  mine, lent       \* buffers the application has, and those it lent, in order

handleVars == <<mode, pMgmtMem, curQueuedSize, streamOnFlag>>
deviceVars == <<queued, filled, streaming>>
threadVars == <<pc, todo, idx, mem>>
loanVars == <<mine, lent>>
vars == <<handleVars, deviceVars, threadVars, loanVars>>

Devices == {"clipper", "decimator"}
Modes == {"CLIPPER", "DECIMATOR", "CLIP_DEC", "CLIP_DEC2"}
CLIP_STATUS(m) == m \in {"CLIPPER", "CLIP_DEC2"}
DECI_STATUS(m) == m \in {"DECIMATOR", "CLIP_DEC", "CLIP_DEC2"}
DevicesOf(m) == {d \in Devices : IF d = "clipper" THEN CLIP_STATUS(m) ELSE DECI_STATUS(m)}
Used == DevicesOf(mode)

Slots == 0 .. VIP_MAX_BUF_SIZE - 1
Threads == Queuers \cup Dequeuers
NoSlot == [d \in Devices |-> 0]
NoMemory == [d \in Devices |-> NULL]
EmptySlots == [d \in Devices |-> [i \in Slots |-> NULL]]
NoFrames == [d \in Devices |-> <<>>]

\* The clipper is queued to and dequeued from first, but started last.
ClipperFirst(D) == IF "clipper" \in D THEN "clipper" ELSE "decimator"
ClipperLast(D) == IF "decimator" \in D THEN "decimator" ELSE "clipper"

QueuerPCs == {"idle", "qbuf", "stream", "streamon"}
DequeuerPCs == {"idle", "dqbuf", "take", "return"}

TypeOK ==
  /\ mode \in Modes
  /\ pMgmtMem \in [Devices -> [Slots -> Buffers \cup {NULL}]]
  /\ curQueuedSize \in Int
  /\ ~Racing => curQueuedSize \in 0 .. VIP_MAX_BUF_SIZE
  /\ streamOnFlag \in BOOLEAN
  /\ queued \in [Devices -> Seq(Slots \X Buffers)]
  /\ filled \in [Devices -> Seq(Slots \X Buffers)]
  /\ streaming \subseteq Devices
  /\ pc \in [Threads -> QueuerPCs \cup DequeuerPCs]
  /\ todo \in [Threads -> SUBSET Devices]
  /\ idx \in [Threads -> [Devices -> Slots]]
  /\ mem \in [Threads -> [Devices -> Buffers \cup {NULL}]]
  /\ mine \subseteq Buffers
  /\ lent \in Seq(Buffers)

Init ==
  /\ mode \in Modes
  /\ pMgmtMem = EmptySlots
  /\ curQueuedSize = 0
  /\ streamOnFlag = FALSE
  /\ queued = NoFrames /\ filled = NoFrames /\ streaming = {}
  /\ pc = [t \in Threads |-> "idle"]
  /\ todo = [t \in Threads |-> {}]
  /\ idx = [t \in Threads |-> NoSlot]
  /\ mem = [t \in Threads |-> NoMemory]
  /\ mine = Buffers /\ lent = <<>>

-----------------------------------------------------------------------------
(* Queueing. *)

\* A call returns and its local variables are gone.
Forget(t) == idx' = [idx EXCEPT ![t] = NoSlot] /\ mem' = [mem EXCEPT ![t] = NoMemory]

Empty(d) == {i \in Slots : pMgmtMem[d][i] = NULL}
FirstEmptyBug(d) == curQueuedSize
FirstEmpty(d) == CHOOSE i \in Empty(d) : \A j \in Empty(d) : i <= j

\* The devices that get a slot: the search ends at the first array with none.
Placed == {d \in Used : Empty(d) # {} /\ Empty(ClipperFirst(Used)) # {}}

RoomLeft == curQueuedSize < VIP_MAX_BUF_SIZE
CountAfterQueueBug(n) == n + Cardinality(Used)
CountAfterQueue(n) == n + 1

\* The locked half of NX_VipQueueBuffer and NX_VipQueueBuffer2.
QueueBuffer(q, b) ==
  /\ pc[q] = "idle"
  /\ b \in mine
  /\ RoomLeft
  /\ pMgmtMem' = [d \in Devices |->
       IF d \in Placed THEN [pMgmtMem[d] EXCEPT ![FirstEmpty(d)] = b] ELSE pMgmtMem[d]]
  /\ IF Placed = Used
       THEN /\ curQueuedSize' = CountAfterQueue(curQueuedSize)
            /\ pc' = [pc EXCEPT ![q] = "qbuf"]
            /\ todo' = [todo EXCEPT ![q] = Used]
            /\ idx' = [idx EXCEPT ![q] =
                 [d \in Devices |-> IF d \in Used THEN FirstEmpty(d) ELSE 0]]
            /\ mem' = [mem EXCEPT ![q] =
                 [d \in Devices |-> IF d \in Used THEN b ELSE NULL]]
            /\ mine' = mine \ {b}
            /\ lent' = Append(lent, b)
       ELSE UNCHANGED <<curQueuedSize, threadVars, loanVars>>
  /\ UNCHANGED <<mode, streamOnFlag, deviceVars>>

\* VIDIOC_QBUF refuses an index the device already has; nobody looks.
DeviceHas(d, i) ==
  \E n \in 1 .. Len(queued[d] \o filled[d]) : (queued[d] \o filled[d])[n][1] = i

QBuf(q) ==
  LET d == ClipperFirst(todo[q]) IN
  /\ pc[q] = "qbuf"
  /\ queued' = IF DeviceHas(d, idx[q][d]) THEN queued
               ELSE [queued EXCEPT ![d] = Append(@, <<idx[q][d], mem[q][d]>>)]
  /\ todo' = [todo EXCEPT ![q] = @ \ {d}]
  /\ pc' = [pc EXCEPT ![q] = IF todo[q] = {d} THEN "stream" ELSE "qbuf"]
  /\ UNCHANGED <<handleVars, filled, streaming, idx, mem, loanVars>>

\* The unlocked test of streamOnFlag.  Two threads that both find it unset both
\* start the devices, and the second start does nothing.
TestStream(q) ==
  /\ pc[q] = "stream"
  /\ streamOnFlag' = TRUE
  /\ pc' = [pc EXCEPT ![q] = IF streamOnFlag THEN "idle" ELSE "streamon"]
  /\ todo' = [todo EXCEPT ![q] = IF streamOnFlag THEN {} ELSE Used]
  /\ IF streamOnFlag THEN Forget(q) ELSE UNCHANGED <<idx, mem>>
  /\ UNCHANGED <<mode, pMgmtMem, curQueuedSize, deviceVars, loanVars>>

StreamOn(q) ==
  LET d == ClipperLast(todo[q]) IN
  /\ pc[q] = "streamon"
  /\ streaming' = streaming \cup {d}
  /\ todo' = [todo EXCEPT ![q] = @ \ {d}]
  /\ pc' = [pc EXCEPT ![q] = IF todo[q] = {d} THEN "idle" ELSE "streamon"]
  /\ IF todo[q] = {d} THEN Forget(q) ELSE UNCHANGED <<idx, mem>>
  /\ UNCHANGED <<handleVars, queued, filled, loanVars>>

-----------------------------------------------------------------------------
(* Dequeueing. *)

EnoughQueuedBug == curQueuedSize >= 1
EnoughQueued == curQueuedSize >= 2

\* The locked check at the head of NX_VipDequeueBuffer(2).
CheckQueued(t) ==
  /\ pc[t] = "idle"
  /\ EnoughQueued
  /\ pc' = [pc EXCEPT ![t] = "dqbuf"]
  /\ todo' = [todo EXCEPT ![t] = Used]
  /\ UNCHANGED <<handleVars, deviceVars, idx, mem, loanVars>>

\* v4l2_dqbuf blocks while the device streams and has nothing filled.  Its
\* result is not looked at: when it fails the index stays uninitialised, and
\* the model lets it name any slot.
DQBuf(t) ==
  LET d == ClipperFirst(todo[t]) IN
  /\ pc[t] = "dqbuf"
  /\ IF d \in streaming
       THEN /\ filled[d] # <<>>
            /\ idx' = [idx EXCEPT ![t][d] = Head(filled[d])[1]]
            /\ filled' = [filled EXCEPT ![d] = Tail(@)]
       ELSE /\ \E i \in Slots : idx' = [idx EXCEPT ![t][d] = i]
            /\ UNCHANGED filled
  /\ todo' = [todo EXCEPT ![t] = IF @ = {d} THEN Used ELSE @ \ {d}]
  /\ pc' = [pc EXCEPT ![t] = IF todo[t] = {d} THEN "take" ELSE "dqbuf"]
  /\ UNCHANGED <<handleVars, queued, streaming, mem, loanVars>>

TakenIndexBug(t, d) == idx[t]["clipper"]
TakenIndex(t, d) == idx[t][d]

\* The buffer is looked up and its slot emptied without hMutex.  The code looks
\* up both buffers before it empties either slot; no other queue or dequeue uses a slot
\* this one still names, so the order of the accesses to the two arrays does not
\* show.
Take(t) ==
  LET d == ClipperFirst(todo[t]) IN
  /\ pc[t] = "take"
  /\ mem' = [mem EXCEPT ![t][d] = pMgmtMem[d][TakenIndex(t, d)]]
  /\ pMgmtMem' = [pMgmtMem EXCEPT ![d][TakenIndex(t, d)] = NULL]
  /\ todo' = [todo EXCEPT ![t] = @ \ {d}]
  /\ pc' = [pc EXCEPT ![t] = IF todo[t] = {d} THEN "return" ELSE "take"]
  /\ UNCHANGED <<mode, curQueuedSize, streamOnFlag, deviceVars, idx, loanVars>>

CountAfterReturnBug(n) == n
CountAfterReturn(n) == n - 1

\* A buffer is back with the application when all its memories are.
ReturnToCaller(t) ==
  /\ pc[t] = "return"
  /\ curQueuedSize' = CountAfterReturn(curQueuedSize)
  /\ pc' = [pc EXCEPT ![t] = "idle"]
  /\ Forget(t)
  /\ mine' = mine \cup {b \in Buffers : \A d \in Used : mem[t][d] = b}
  /\ lent' = IF lent = <<>> THEN lent ELSE Tail(lent)
  /\ UNCHANGED <<mode, pMgmtMem, streamOnFlag, deviceVars, todo>>

-----------------------------------------------------------------------------
(* Reconfiguration, and the devices. *)

\* Buffers that calls in progress still name.
Carried == {b \in Buffers : \E t \in Threads, d \in Devices : mem[t][d] = b}

\* NX_VipChangeConfig: everything goes back to its start but the mode and the
\* threads.  VIDIOC_STREAMOFF returns what a device has, and so does
\* VIDIOC_REQBUFS unless the device streams.
ChangeConfig ==
  /\ Racing \/ \A t \in Threads : pc[t] = "idle"
  /\ pMgmtMem' = EmptySlots
  /\ curQueuedSize' = 0
  /\ streamOnFlag' = FALSE
  /\ IF streamOnFlag \/ streaming = {}
       THEN queued' = NoFrames /\ filled' = NoFrames /\ streaming' = {}
       ELSE UNCHANGED deviceVars
  /\ mine' = Buffers \ Carried
  /\ lent' = <<>>
  /\ UNCHANGED <<mode, threadVars>>

\* NX_VipClose, then NX_VipInit with any mode; v4l2_exit closes the devices.
CloseAndInit ==
  /\ \A t \in Threads : pc[t] = "idle"
  /\ mode' \in Modes
  /\ pMgmtMem' = EmptySlots
  /\ curQueuedSize' = 0
  /\ streamOnFlag' = FALSE
  /\ queued' = NoFrames /\ filled' = NoFrames /\ streaming' = {}
  /\ mine' = Buffers /\ lent' = <<>>
  /\ UNCHANGED threadVars

\* A streaming device fills its oldest buffer.
FillFrame(d) ==
  /\ d \in streaming
  /\ queued[d] # <<>>
  /\ queued' = [queued EXCEPT ![d] = Tail(@)]
  /\ filled' = [filled EXCEPT ![d] = Append(@, Head(queued[d]))]
  /\ UNCHANGED <<handleVars, streaming, threadVars, loanVars>>

QueuerStep(q) == QBuf(q) \/ TestStream(q) \/ StreamOn(q)
DequeuerStep(t) == DQBuf(t) \/ Take(t) \/ ReturnToCaller(t)

Next ==
  \/ \E q \in Queuers : QueuerStep(q) \/ \E b \in Buffers : QueueBuffer(q, b)
  \/ \E t \in Dequeuers : DequeuerStep(t) \/ CheckQueued(t)
  \/ ChangeConfig \/ CloseAndInit
  \/ \E d \in Devices : FillFrame(d)

\* Calls in progress go on.  A device need not fill the only buffer it has,
\* it may keep that one to go on capturing into.
Fairness ==
  /\ \A q \in Queuers : WF_vars(QueuerStep(q))
  /\ \A t \in Dequeuers : WF_vars(DequeuerStep(t))
  /\ \A d \in Devices : WF_vars(FillFrame(d) /\ Len(queued[d]) > 1)

Spec == Init /\ [][Next]_vars /\ Fairness

-----------------------------------------------------------------------------
(* Properties. *)

\* Every index a device holds, filled or not, names the slot that holds the
\* buffer it was queued with, and no index is there twice: whatever dequeue
\* takes out of pMgmtMem is what the device wrote, and no VIDIOC_QBUF is
\* refused, though slots are emptied without hMutex.
SlotsMatchDevice ==
  \A d \in Devices :
    LET held == filled[d] \o queued[d] IN
    /\ \A n \in 1 .. Len(held) : pMgmtMem[d][held[n][1]] = held[n][2]
    /\ \A m, n \in 1 .. Len(held) : held[m][1] = held[n][1] => m = n

\* Dequeuers that have emptied their slot of d but not yet counted it.
Uncounted(d) ==
  {t \in Dequeuers : pc[t] = "return" \/ (pc[t] = "take" /\ d \notin todo[t])}

\* curQueuedSize is the "Number of video memory" its declaration promises:
\* the slots in use plus those a dequeue has emptied and is about to count.
\* So it is never negative, and a call that finds room finds an empty slot in
\* both arrays ("Have no empty slot" would leave a buffer behind in the first).
CountsMemories ==
  \A d \in Used :
    curQueuedSize = Cardinality(Slots \ Empty(d)) + Cardinality(Uncounted(d))

\* v4l2_dqbuf is called only on a device that streams, so it never fails and
\* the index it leaves is never the uninitialised one.  The flag alone does
\* not say so: it is set before the devices are started.
DequeueWhileStreaming ==
  \A t \in Dequeuers : pc[t] = "dqbuf" => todo[t] \subseteq streaming

\* Buffers come back filled in the order they were lent, each once, and the two
\* memories of a pair come back together.
Loan == INSTANCE BufferLoan
LoanSpec == Loan!LoanSpec

\* A dequeue that passed the check of two queued buffers returns, even when the
\* device keeps the last buffer it has.
DequeueReturns == \A t \in Dequeuers : pc[t] = "dqbuf" ~> pc[t] = "idle"
=============================================================================
