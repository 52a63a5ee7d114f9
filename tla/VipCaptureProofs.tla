---------------------------- MODULE VipCaptureProofs ----------------------------
(***************************************************************************)
(* Theorems about VipCapture, for any number of slots, buffers and threads    *)
(* that dequeue, and one that queues: a slot in use is named once, by its     *)
(* device or by the one thread that is passing it on.                        *)
(***************************************************************************)
EXTENDS VipCapture, NumberFacts, FiniteSetTheorems, SequenceTheorems, TLAPS

\* A device that fills its oldest buffer has what it had, in the same order.
LEMMA Filling ==
  ASSUME NEW S, NEW f \in Seq(S), NEW q \in Seq(S), q # <<>>
  PROVE  Append(f, Head(q)) \o Tail(q) = f \o q
<1>1. Append(f, Head(q)) \in Seq(S) /\ Tail(q) \in Seq(S)
  BY HeadTailProperties
<1>2. Len(Append(f, Head(q)) \o Tail(q)) = Len(f \o q)
  BY <1>1
<1>3. \A i \in 1 .. Len(f \o q) : (Append(f, Head(q)) \o Tail(q))[i] = (f \o q)[i]
  BY <1>1
<1> QED
  BY <1>1, <1>2, <1>3, SeqEqual

\* What a device has after the oldest filled buffer left.
LEMMA Dequeueing ==
  ASSUME NEW S, NEW f \in Seq(S), NEW q \in Seq(S), f # <<>>
  PROVE  /\ Len(Tail(f) \o q) = Len(f \o q) - 1
         /\ \A n \in 1 .. Len(Tail(f) \o q) : (Tail(f) \o q)[n] = (f \o q)[n + 1]
         /\ (f \o q)[1] = Head(f)
         /\ Len(f \o q) > 0
  OBVIOUS

\* What a device has after a buffer was queued.
LEMMA Enqueueing ==
  ASSUME NEW S, NEW f \in Seq(S), NEW q \in Seq(S), NEW e
  PROVE  /\ Len(f \o Append(q, e)) = Len(f \o q) + 1
         /\ \A n \in 1 .. Len(f \o q) : (f \o Append(q, e))[n] = (f \o q)[n]
         /\ (f \o Append(q, e))[Len(f \o q) + 1] = e
  OBVIOUS

-----------------------------------------------------------------------------
\* The threads the theorems are about.  With two threads queueing, a third may
\* find two buffers before the devices are started.
OneQueuer == ~Racing /\ \A p, q \in Queuers : p = q

\* The shapes of the variables.
Shapes ==
  /\ mode \in Modes
  /\ pMgmtMem \in [Devices -> [Slots -> Buffers \cup {NULL}]]
  /\ curQueuedSize \in Int /\ curQueuedSize <= VIP_MAX_BUF_SIZE
  /\ streamOnFlag \in BOOLEAN
  /\ queued \in [Devices -> Seq(Slots \X Buffers)]
  /\ filled \in [Devices -> Seq(Slots \X Buffers)]
  /\ streaming \subseteq Devices
  /\ pc \in [Threads -> QueuerPCs \cup DequeuerPCs]
  /\ todo \in [Threads -> SUBSET Devices]
  /\ idx \in [Threads -> [Devices -> Slots]]
  /\ mem \in [Threads -> [Devices -> Buffers \cup {NULL}]]
  /\ mine \subseteq Buffers
  /\ lent \in Seq(Buffers)

\* Which steps are whose, and that a phase over the devices has one left.
ControlInv ==
  /\ \A q \in Queuers : pc[q] \in QueuerPCs
  /\ \A t \in Dequeuers : pc[t] \in DequeuerPCs
  /\ \A t \in Threads : pc[t] \in {"qbuf", "streamon", "dqbuf", "take"} =>
       todo[t] # {} /\ todo[t] \subseteq Used
  /\ \A q \in Queuers : pc[q] = "qbuf" => \A d \in todo[q] : mem[q][d] \in Buffers

Starting == ~streamOnFlag \/ \E q \in Queuers : pc[q] = "streamon"

\* Until the devices are started only one buffer is queued, so nobody dequeues.
StreamInv ==
  /\ streaming # {} => streamOnFlag
  /\ Starting => curQueuedSize <= 1 /\ \A t \in Dequeuers : pc[t] = "idle"
  /\ ~Starting => Used \subseteq streaming
  /\ \A q \in Queuers :
       /\ pc[q] = "idle" /\ ~streamOnFlag => curQueuedSize = 0
       /\ pc[q] = "streamon" => streamOnFlag /\ Used \ todo[q] \subseteq streaming

\* What a device has, oldest first.
Held(d) == filled[d] \o queued[d]

\* A thread names a slot of d that the device does not: on the way to it, or
\* taken from it and not emptied.
Carries(t, d) ==
  \/ t \in Queuers /\ pc[t] = "qbuf" /\ d \in todo[t]
  \/ t \in Dequeuers /\ pc[t] = "dqbuf" /\ d \in Used \ todo[t]
  \/ t \in Dequeuers /\ pc[t] = "take" /\ d \in todo[t]

\* The conjunct of SlotsMatchDevice for one device.
Matches(d) ==
  /\ \A n \in 1 .. Len(Held(d)) : pMgmtMem[d][Held(d)[n][1]] = Held(d)[n][2]
  /\ \A m, n \in 1 .. Len(Held(d)) : Held(d)[m][1] = Held(d)[n][1] => m = n

\* A slot in use is named once: by the device or by one thread.
OneOwner(d) ==
  \A t \in Threads : Carries(t, d) =>
    /\ pMgmtMem[d][idx[t][d]] # NULL
    /\ t \in Queuers => pMgmtMem[d][idx[t][d]] = mem[t][d]
    /\ \A n \in 1 .. Len(Held(d)) : Held(d)[n][1] # idx[t][d]
    /\ \A u \in Threads : Carries(u, d) /\ idx[u][d] = idx[t][d] => u = t

CaptureInv ==
  /\ Shapes /\ ControlInv /\ StreamInv /\ CountsMemories
  /\ \A d \in Devices : Matches(d) /\ OneOwner(d)

-----------------------------------------------------------------------------
\* Slots and threads can be counted.
LEMMA Countable ==
  ASSUME NEW d
  PROVE  /\ IsFiniteSet(Slots) /\ Cardinality(Slots) = VIP_MAX_BUF_SIZE
         /\ IsFiniteSet(Slots \ Empty(d)) /\ Cardinality(Slots \ Empty(d)) \in Nat
         /\ IsFiniteSet(Uncounted(d)) /\ Cardinality(Uncounted(d)) \in Nat
<1>1. IsFiniteSet(Slots) /\ Cardinality(Slots) = VIP_MAX_BUF_SIZE
  BY VipAssumption, FS_Interval DEF Slots
<1>2. IsFiniteSet(Slots \ Empty(d))
  <2>1. Slots \ Empty(d) \in SUBSET Slots
    OBVIOUS
  <2> QED
    BY <1>1, <2>1, FS_Subset
<1>3. IsFiniteSet(Uncounted(d))
  <2>1. Uncounted(d) \in SUBSET Dequeuers
    BY DEF Uncounted
  <2> QED
    BY <2>1, VipAssumption, FS_Subset
<1> QED
  BY <1>1, <1>2, <1>3, FS_CardinalityType

\* The invariant says at least what the properties say.
LEMMA Implied ==
  ASSUME CaptureInv, OneQueuer
  PROVE  TypeOK /\ SlotsMatchDevice /\ CountsMemories /\ DequeueWhileStreaming
<1> USE DEF CaptureInv
<1>1. SlotsMatchDevice
  BY DEF SlotsMatchDevice, Matches, Held
<1>2. DequeueWhileStreaming
  BY DEF DequeueWhileStreaming, StreamInv, ControlInv, Threads
<1>3. 0 <= curQueuedSize
  <2>1. PICK d \in Devices : d \in Used
    BY DEF Shapes, Used, DevicesOf, Devices, Modes, CLIP_STATUS, DECI_STATUS
  <2>2. Cardinality(Slots \ Empty(d)) \in Nat /\ Cardinality(Uncounted(d)) \in Nat
    BY Countable
  <2>3. curQueuedSize = Cardinality(Slots \ Empty(d)) + Cardinality(Uncounted(d))
    BY <2>1 DEF CountsMemories
  <2> QED
    BY <2>2, <2>3
<1>4. TypeOK
  BY <1>3, VipAssumption DEF Shapes, TypeOK
<1> QED
  BY <1>1, <1>2, <1>4

\* The initial states satisfy the invariant.
LEMMA CaptureInit == Init => CaptureInv
<1> SUFFICES ASSUME Init PROVE CaptureInv
  OBVIOUS
<1> USE VipAssumption DEF Init
<1>1. Shapes
  <2>1. NoSlot \in [Devices -> Slots] /\ NoMemory \in [Devices -> Buffers \cup {NULL}]
    BY DEF NoSlot, NoMemory, Slots
  <2>2. EmptySlots \in [Devices -> [Slots -> Buffers \cup {NULL}]]
    BY DEF EmptySlots
  <2>3. NoFrames \in [Devices -> Seq(Slots \X Buffers)] /\ <<>> \in Seq(Buffers)
    BY EmptySeq DEF NoFrames
  <2>4. /\ pc \in [Threads -> QueuerPCs \cup DequeuerPCs]
        /\ todo \in [Threads -> SUBSET Devices]
        /\ idx \in [Threads -> [Devices -> Slots]]
        /\ mem \in [Threads -> [Devices -> Buffers \cup {NULL}]]
    BY <2>1 DEF QueuerPCs
  <2>5. curQueuedSize \in Int /\ curQueuedSize <= VIP_MAX_BUF_SIZE
    OBVIOUS
  <2> QED
    BY <2>2, <2>3, <2>4, <2>5 DEF Shapes
<1>2. ControlInv /\ StreamInv
  BY DEF ControlInv, StreamInv, Starting, QueuerPCs, DequeuerPCs, Threads
<1>3. \A d \in Devices : Matches(d) /\ OneOwner(d)
  BY DEF Matches, OneOwner, Held, Carries, NoFrames, Threads
<1>4. CountsMemories
  <2>1. ASSUME NEW d \in Used
        PROVE  Cardinality(Slots \ Empty(d)) = 0 /\ Cardinality(Uncounted(d)) = 0
    <3>1. Slots \ Empty(d) = {} /\ Uncounted(d) = {}
      BY DEF Used, DevicesOf, Empty, EmptySlots, Uncounted, Threads
    <3> QED
      BY <3>1, FS_EmptySet
  <2> QED
    BY <2>1 DEF CountsMemories
<1> QED
  BY <1>1, <1>2, <1>3, <1>4 DEF CaptureInv

-----------------------------------------------------------------------------
\* A step leaves a device alone when neither it, nor its slots, nor who names
\* one of them changes.
LEMMA Untouched ==
  ASSUME NEW d \in Devices, Matches(d), OneOwner(d),
         Held(d)' = Held(d), pMgmtMem'[d] = pMgmtMem[d],
         \A t \in Threads : Carries(t, d)' => Carries(t, d) /\ idx'[t][d] = idx[t][d]
                                              /\ (t \in Queuers => mem'[t][d] = mem[t][d])
  PROVE  Matches(d)' /\ OneOwner(d)'
<1>1. Matches(d)'
  BY DEF Matches
<1>2. OneOwner(d)'
  BY DEF OneOwner
<1> QED
  BY <1>1, <1>2

\* A search that finds room finds the same buffer a slot in every array.
LEMMA RoomFound ==
  ASSUME CaptureInv, RoomLeft
  PROVE  /\ Placed = Used
         /\ \A d \in Used : FirstEmpty(d) \in Slots /\ pMgmtMem[d][FirstEmpty(d)] = NULL
<1> USE VipAssumption DEF CaptureInv
<1>1. ASSUME NEW d \in Used PROVE Empty(d) # {}
  <2>1. curQueuedSize = Cardinality(Slots \ Empty(d)) + Cardinality(Uncounted(d))
    BY DEF CountsMemories
  <2>2. Cardinality(Slots \ Empty(d)) < VIP_MAX_BUF_SIZE
    BY <2>1, Countable DEF RoomLeft
  <2> QED
    BY <2>2, Countable
<1>2. ASSUME NEW d \in Used PROVE FirstEmpty(d) \in Empty(d)
  <2>1. Empty(d) \in SUBSET Nat
    BY DEF Empty, Slots
  <2>2. \E i \in Empty(d) : \A j \in Empty(d) : i <= j
    BY <1>1, <2>1, Least
  <2> QED
    BY <2>2 DEF FirstEmpty
<1>3. Placed = Used
  <2>1. ClipperFirst(Used) \in Used
    BY DEF Shapes, Used, ClipperFirst, DevicesOf, Devices, Modes, CLIP_STATUS, DECI_STATUS
  <2> QED
    BY <1>1, <2>1 DEF Placed
<1> QED
  BY <1>2, <1>3 DEF Empty

\* A buffer goes into a slot nothing names; the count grows with it.
LEMMA QueueStep ==
  ASSUME CaptureInv, OneQueuer, NEW q \in Queuers, NEW b \in Buffers, QueueBuffer(q, b)
  PROVE  CaptureInv'
<1> USE VipAssumption DEF CaptureInv
<1>1. /\ \A d \in Used : FirstEmpty(d) \in Slots /\ pMgmtMem[d][FirstEmpty(d)] = NULL
      /\ Placed = Used /\ Used \subseteq Devices /\ Used # {}
  <2>1. RoomLeft
    BY DEF QueueBuffer
  <2> QED
    BY <2>1, RoomFound
       DEF Shapes, Used, DevicesOf, Devices, Modes, CLIP_STATUS, DECI_STATUS
<1>2. /\ pc[q] = "idle" /\ b \in mine /\ curQueuedSize < VIP_MAX_BUF_SIZE
      /\ pMgmtMem' = [d \in Devices |->
           IF d \in Used THEN [pMgmtMem[d] EXCEPT ![FirstEmpty(d)] = b] ELSE pMgmtMem[d]]
      /\ curQueuedSize' = curQueuedSize + 1
      /\ pc' = [pc EXCEPT ![q] = "qbuf"]
      /\ todo' = [todo EXCEPT ![q] = Used]
      /\ idx' = [idx EXCEPT ![q] = [d \in Devices |-> IF d \in Used THEN FirstEmpty(d) ELSE 0]]
      /\ mem' = [mem EXCEPT ![q] = [d \in Devices |-> IF d \in Used THEN b ELSE NULL]]
      /\ mine' = mine \ {b} /\ lent' = Append(lent, b)
      /\ mode' = mode /\ streamOnFlag' = streamOnFlag
      /\ queued' = queued /\ filled' = filled /\ streaming' = streaming
  BY <1>1 DEF QueueBuffer, RoomLeft, CountAfterQueue, deviceVars
<1>3. Used' = Used
  BY <1>2 DEF Used
<1>4. q \in Threads /\ q \notin Dequeuers
  BY DEF Threads
<1>5. Shapes'
  <2>1. pMgmtMem' \in [Devices -> [Slots -> Buffers \cup {NULL}]]
    BY <1>1, <1>2 DEF Shapes
  <2>2. /\ pc' \in [Threads -> QueuerPCs \cup DequeuerPCs]
        /\ todo' \in [Threads -> SUBSET Devices]
    BY <1>1, <1>2 DEF Shapes, QueuerPCs
  <2>3. idx' \in [Threads -> [Devices -> Slots]]
    <3>1. [d \in Devices |-> IF d \in Used THEN FirstEmpty(d) ELSE 0] \in [Devices -> Slots]
      BY <1>1 DEF Slots
    <3> QED
      BY <1>2, <3>1 DEF Shapes
  <2>4. mem' \in [Threads -> [Devices -> Buffers \cup {NULL}]]
    <3>1. [d \in Devices |-> IF d \in Used THEN b ELSE NULL] \in [Devices -> Buffers \cup {NULL}]
      OBVIOUS
    <3> QED
      BY <1>2, <3>1 DEF Shapes
  <2>5. mine' \subseteq Buffers /\ lent' \in Seq(Buffers)
    BY <1>2, AppendProperties DEF Shapes
  <2>6. curQueuedSize' \in Int /\ curQueuedSize' <= VIP_MAX_BUF_SIZE
    BY <1>2 DEF Shapes
  <2> QED
    BY <1>2, <2>1, <2>2, <2>3, <2>4, <2>5, <2>6 DEF Shapes
<1>6. ControlInv'
  <2>1. mem'[q] = [d \in Devices |-> IF d \in Used THEN b ELSE NULL]
    BY <1>2, <1>4 DEF Shapes
  <2> QED
    BY <1>1, <1>2, <1>3, <1>4, <2>1 DEF ControlInv, Shapes, QueuerPCs, Threads
<1>7. StreamInv'
  <2>1. \A p \in Queuers : p = q
    BY DEF OneQueuer
  <2> QED
    BY <1>2, <1>3, <1>4, <2>1 DEF StreamInv, Starting, Shapes, Threads
<1>8. ASSUME NEW d \in Devices PROVE Matches(d)' /\ OneOwner(d)'
  <2>1. CASE d \notin Used
    <3>1. pMgmtMem'[d] = pMgmtMem[d] /\ Held(d)' = Held(d)
      BY <1>2, <2>1 DEF Held
    <3>2. \A t \in Threads : Carries(t, d)' => Carries(t, d) /\ t # q
      BY <1>2, <1>3, <1>4, <2>1 DEF Carries, Shapes
    <3>3. \A t \in Threads : t # q => idx'[t] = idx[t] /\ mem'[t] = mem[t]
      BY <1>2 DEF Shapes
    <3> QED
      BY <3>1, <3>2, <3>3, Untouched
  <2>2. CASE d \in Used
    <3> DEFINE i == FirstEmpty(d)
    <3>1. /\ i \in Slots /\ pMgmtMem[d][i] = NULL /\ pMgmtMem'[d] = [pMgmtMem[d] EXCEPT ![i] = b]
          /\ pMgmtMem[d] \in [Slots -> Buffers \cup {NULL}]
          /\ Held(d)' = Held(d) /\ idx'[q][d] = i /\ mem'[q][d] = b
      BY <1>1, <1>2, <1>4, <2>2 DEF Held, Shapes
    <3>2. \A t \in Threads : t # q =>
            /\ Carries(t, d)' <=> Carries(t, d)
            /\ idx'[t] = idx[t] /\ mem'[t] = mem[t]
      BY <1>2, <1>3 DEF Carries, Shapes
    <3>3. ~Carries(q, d)
      BY <1>2, <1>4 DEF Carries
    <3>4. \A n \in 1 .. Len(Held(d)) :
            Held(d)[n][1] \in Slots /\ Held(d)[n][2] \in Buffers /\ Held(d)[n][1] # i
      <4>1. Held(d) \in Seq(Slots \X Buffers)
        BY ConcatProperties DEF Held, Shapes
      <4> QED
        BY <3>1, <4>1 DEF Matches
    <3>5. Matches(d)'
      BY <3>1, <3>4 DEF Matches
    <3>6. \A t \in Threads : Carries(t, d) =>
             idx[t][d] \in Slots /\ idx[t][d] # i /\ pMgmtMem'[d][idx[t][d]] = pMgmtMem[d][idx[t][d]]
      BY <3>1 DEF OneOwner, Shapes
    <3>7. OneOwner(d)'
      <4> SUFFICES ASSUME NEW t \in Threads, Carries(t, d)'
                   PROVE  /\ pMgmtMem'[d][idx'[t][d]] # NULL
                          /\ t \in Queuers => pMgmtMem'[d][idx'[t][d]] = mem'[t][d]
                          /\ \A n \in 1 .. Len(Held(d)) : Held(d)[n][1] # idx'[t][d]
                          /\ \A u \in Threads : Carries(u, d)' /\ idx'[u][d] = idx'[t][d] => u = t
        BY <3>1 DEF OneOwner
      <4>1. CASE t = q
        BY <3>1, <3>2, <3>4, <3>6, <4>1
      <4>2. CASE t # q
        BY <3>1, <3>2, <3>6, <4>2 DEF OneOwner
      <4> QED
        BY <4>1, <4>2
    <3> QED
      BY <3>5, <3>7
  <2> QED
    BY <2>1, <2>2
<1>9. CountsMemories'
  <2> SUFFICES ASSUME NEW d \in Used
               PROVE  curQueuedSize' = Cardinality(Slots \ Empty(d)') + Cardinality(Uncounted(d)')
    BY <1>3 DEF CountsMemories
  <2> DEFINE i == FirstEmpty(d)
  <2>1. Uncounted(d)' = Uncounted(d)
    BY <1>2, <1>4 DEF Uncounted, Shapes, Threads
  <2>2. Slots \ Empty(d)' = (Slots \ Empty(d)) \cup {i} /\ i \notin Slots \ Empty(d)
    <3>1. /\ pMgmtMem'[d] = [pMgmtMem[d] EXCEPT ![i] = b]
          /\ pMgmtMem[d] \in [Slots -> Buffers \cup {NULL}]
      BY <1>1, <1>2 DEF Shapes
    <3> QED
      BY <1>1, <3>1 DEF Empty
  <2>3. Cardinality(Slots \ Empty(d)') = Cardinality(Slots \ Empty(d)) + 1
    BY <2>2, Countable, FS_AddElement
  <2>4. curQueuedSize = Cardinality(Slots \ Empty(d)) + Cardinality(Uncounted(d))
    BY DEF CountsMemories
  <2>5. Cardinality(Slots \ Empty(d)) \in Nat /\ Cardinality(Uncounted(d)) \in Nat
    BY Countable
  <2>6. Cardinality(Uncounted(d)') = Cardinality(Uncounted(d))
    BY <2>1
  <2>7. curQueuedSize' = curQueuedSize + 1
    BY <1>2
  <2> HIDE DEF i
  <2> QED
    BY <2>3, <2>4, <2>5, <2>6, <2>7
<1> QED
  BY <1>5, <1>6, <1>7, <1>8, <1>9

\* The count is right as long as neither it, the slots nor the threads about to
\* change it do.
LEMMA SameCount ==
  ASSUME CountsMemories, UNCHANGED <<mode, curQueuedSize, pMgmtMem>>,
         \A d \in Used : Uncounted(d)' = Uncounted(d)
  PROVE  CountsMemories'
<1>1. Used' = Used /\ \A d \in Used : Empty(d)' = Empty(d)
  BY DEF Used, Empty
<1> QED
  BY <1>1 DEF CountsMemories

\* The next device of a phase is one of those left.
LEMMA NextDevice ==
  ASSUME NEW D \in SUBSET Devices, D # {}
  PROVE  ClipperFirst(D) \in D /\ ClipperLast(D) \in D
BY DEF ClipperFirst, ClipperLast, Devices

\* VIDIOC_QBUF hands the slot on to the device.
LEMMA QBufStep ==
  ASSUME CaptureInv, OneQueuer, NEW q \in Queuers, QBuf(q)
  PROVE  CaptureInv'
<1> DEFINE e == ClipperFirst(todo[q])
<1> USE VipAssumption DEF CaptureInv
<1>1. /\ pc[q] = "qbuf" /\ q \in Threads /\ q \notin Dequeuers
      /\ todo[q] # {} /\ todo[q] \subseteq Used /\ Used \subseteq Devices
      /\ e \in todo[q] /\ e \in Devices /\ mem[q][e] \in Buffers /\ idx[q][e] \in Slots
  <2>1. /\ pc[q] = "qbuf" /\ q \in Threads /\ q \notin Dequeuers
        /\ todo[q] # {} /\ todo[q] \subseteq Used /\ Used \subseteq Devices
    BY DEF QBuf, ControlInv, Threads, Used, DevicesOf
  <2>2. e \in todo[q] /\ e \in Devices
    BY <2>1, NextDevice
  <2> QED
    BY <2>1, <2>2 DEF ControlInv, Shapes
<1> HIDE DEF e
<1>2. /\ \/ queued' = queued
         \/ queued' = [queued EXCEPT ![e] = Append(@, <<idx[q][e], mem[q][e]>>)]
      /\ todo' = [todo EXCEPT ![q] = @ \ {e}]
      /\ pc' = [pc EXCEPT ![q] = IF todo[q] = {e} THEN "stream" ELSE "qbuf"]
      /\ UNCHANGED <<mode, pMgmtMem, curQueuedSize, streamOnFlag, filled, streaming, idx, mem,
                     mine, lent>>
  BY DEF QBuf, handleVars, loanVars, e
<1>3. Used' = Used
  BY <1>2 DEF Used
<1>4. Shapes'
  <2>1. queued' \in [Devices -> Seq(Slots \X Buffers)]
    <3>1. queued[e] \in Seq(Slots \X Buffers)
      BY <1>1 DEF Shapes
    <3>2. <<idx[q][e], mem[q][e]>> \in Slots \X Buffers
      BY <1>1
    <3>3. Append(queued[e], <<idx[q][e], mem[q][e]>>) \in Seq(Slots \X Buffers)
      BY <3>1, <3>2, AppendProperties
    <3> QED
      BY <1>1, <1>2, <3>3 DEF Shapes
  <2>2. pc' \in [Threads -> QueuerPCs \cup DequeuerPCs] /\ todo' \in [Threads -> SUBSET Devices]
    BY <1>2 DEF Shapes, QueuerPCs
  <2> QED
    BY <1>2, <2>1, <2>2 DEF Shapes
<1>5. ControlInv'
  <2>1. todo'[q] = todo[q] \ {e} /\ pc'[q] = IF todo[q] = {e} THEN "stream" ELSE "qbuf"
    BY <1>1, <1>2 DEF Shapes
  <2>2. \A t \in Threads : t # q => todo'[t] = todo[t] /\ pc'[t] = pc[t]
    BY <1>2 DEF Shapes
  <2>3. mem' = mem
    BY <1>2
  <2>4. \A t \in Threads : pc'[t] \in {"qbuf", "streamon", "dqbuf", "take"} =>
          todo'[t] # {} /\ todo'[t] \subseteq Used'
    BY <1>1, <1>3, <2>1, <2>2 DEF ControlInv
  <2>5. \A p \in Queuers : pc'[p] = "qbuf" => \A d \in todo'[p] : mem'[p][d] \in Buffers
    BY <1>1, <2>1, <2>2, <2>3 DEF ControlInv, Threads
  <2> QED
    BY <1>1, <2>1, <2>2, <2>4, <2>5 DEF ControlInv, QueuerPCs, Threads
<1>6. StreamInv'
  <2>1. \A p \in Queuers : p = q
    BY DEF OneQueuer
  <2>2. pc'[q] # "idle" /\ pc'[q] # "streamon" /\ \A t \in Dequeuers : pc'[t] = pc[t]
    BY <1>1, <1>2 DEF Shapes, Threads
  <2> QED
    BY <1>1, <1>2, <1>3, <2>1, <2>2 DEF StreamInv, Starting
<1>7. CountsMemories'
  <2>1. \A d \in Used : Uncounted(d)' = Uncounted(d)
    BY <1>1, <1>2 DEF Uncounted, Shapes
  <2> QED
    BY <1>2, <2>1, SameCount
<1>8. ASSUME NEW d \in Devices PROVE Matches(d)' /\ OneOwner(d)'
  <2>1. /\ \A t \in Threads : Carries(t, d)' => Carries(t, d) /\ (t = q => d # e)
        /\ pMgmtMem' = pMgmtMem /\ idx' = idx /\ mem' = mem
    BY <1>1, <1>2, <1>3 DEF Carries, Shapes
  <2>2. CASE Held(d)' = Held(d)
    BY <2>1, <2>2, Untouched
  <2>3. CASE Held(d)' # Held(d)
    <3>1. /\ d = e
          /\ Held(d)' = filled[d] \o Append(queued[d], <<idx[q][d], mem[q][d]>>)
      BY <1>1, <1>2, <2>3 DEF Held, Shapes
    <3>2. filled[d] \in Seq(Slots \X Buffers) /\ queued[d] \in Seq(Slots \X Buffers)
      BY DEF Shapes
    <3>3. /\ Len(Held(d)') = Len(Held(d)) + 1 /\ Len(Held(d)) \in Nat
          /\ \A n \in 1 .. Len(Held(d)) : Held(d)'[n] = Held(d)[n]
          /\ Held(d)'[Len(Held(d)) + 1] = <<idx[q][d], mem[q][d]>>
      <4> DEFINE T == Slots \X Buffers
                 f == filled[d]
                 w == queued[d]
                 x == <<idx[q][d], mem[q][d]>>
      <4>1. f \in Seq(T) /\ w \in Seq(T)
        BY <3>2
      <4>2. Held(d) = f \o w /\ Held(d)' = f \o Append(w, x)
        BY <3>1 DEF Held
      <4> HIDE DEF T, f, w, x
      <4>3. /\ Len(f \o Append(w, x)) = Len(f \o w) + 1
            /\ \A n \in 1 .. Len(f \o w) : (f \o Append(w, x))[n] = (f \o w)[n]
            /\ (f \o Append(w, x))[Len(f \o w) + 1] = x
        BY <4>1, Enqueueing
      <4>4. Len(f \o w) \in Nat
        BY <4>1, ConcatProperties
      <4> QED
        BY <4>2, <4>3, <4>4 DEF x
    <3>4. Carries(q, d)
      BY <1>1, <3>1 DEF Carries
    <3>5. /\ pMgmtMem[d][idx[q][d]] = mem[q][d]
          /\ \A n \in 1 .. Len(Held(d)) : Held(d)[n][1] # idx[q][d]
          /\ \A u \in Threads : Carries(u, d) /\ u # q => idx[u][d] # idx[q][d]
      BY <1>1, <3>4 DEF OneOwner
    <3>6. Matches(d)'
      <4>1. \A n \in 1 .. Len(Held(d)') : n \in 1 .. Len(Held(d)) \/ n = Len(Held(d)) + 1
        BY <3>3
      <4>2. \A n \in 1 .. Len(Held(d)') : pMgmtMem[d][Held(d)'[n][1]] = Held(d)'[n][2]
        BY <3>3, <3>5, <4>1 DEF Matches
      <4>3. \A m, n \in 1 .. Len(Held(d)') : Held(d)'[m][1] = Held(d)'[n][1] => m = n
        BY <3>3, <3>5, <4>1 DEF Matches
      <4> QED
        BY <2>1, <4>2, <4>3 DEF Matches
    <3>7. OneOwner(d)'
      <4>1. \A n \in 1 .. Len(Held(d)') : n \in 1 .. Len(Held(d)) \/ n = Len(Held(d)) + 1
        BY <3>3
      <4>2. \A t \in Threads : Carries(t, d)' => Carries(t, d) /\ t # q
        BY <2>1, <3>1
      <4>3. \A t \in Threads : Carries(t, d)' =>
              \A n \in 1 .. Len(Held(d)') : Held(d)'[n][1] # idx[t][d]
        BY <3>3, <3>5, <4>1, <4>2 DEF OneOwner
      <4> QED
        BY <2>1, <4>2, <4>3 DEF OneOwner
    <3> QED
      BY <3>6, <3>7
  <2> QED
    BY <2>2, <2>3
<1> QED
  BY <1>4, <1>5, <1>6, <1>7, <1>8

\* The devices are started by the one queueing thread.
LEMMA StreamStep ==
  ASSUME CaptureInv, OneQueuer, NEW q \in Queuers, TestStream(q) \/ StreamOn(q)
  PROVE  CaptureInv'
<1> DEFINE e == ClipperLast(todo[q])
<1> USE VipAssumption DEF CaptureInv
<1>1. /\ q \in Threads /\ q \notin Dequeuers /\ Used \subseteq Devices /\ Used # {}
      /\ \A p \in Queuers : p = q
  BY DEF Threads, OneQueuer, Shapes, Used, DevicesOf, Devices, Modes, CLIP_STATUS, DECI_STATUS
<1>2. /\ UNCHANGED <<mode, pMgmtMem, curQueuedSize, queued, filled, mine, lent>>
      /\ pc[q] \in {"stream", "streamon"} /\ pc' = [pc EXCEPT ![q] = pc'[q]]
      /\ pc'[q] \in {"idle", "streamon"}
      /\ todo' = [todo EXCEPT ![q] = todo'[q]]
  BY <1>1 DEF TestStream, StreamOn, handleVars, deviceVars, loanVars, Shapes
<1>3. Used' = Used /\ \A d \in Devices : Held(d)' = Held(d)
  BY <1>2 DEF Used, Held
<1>4. \A t \in Threads \ {q} : pc'[t] = pc[t] /\ todo'[t] = todo[t]
                               /\ idx'[t] = idx[t] /\ mem'[t] = mem[t]
  BY DEF TestStream, StreamOn, Forget, Shapes
<1>5. /\ todo'[q] \subseteq Used
      /\ pc'[q] = "streamon" => todo'[q] # {} /\ streamOnFlag'
      /\ streaming' \subseteq Devices /\ streaming \subseteq streaming' /\ streamOnFlag' = TRUE
      /\ pc[q] = "streamon" => streamOnFlag
      /\ pc'[q] = "streamon" => Used \ todo'[q] \subseteq streaming'
      /\ pc'[q] = "idle" => Used \subseteq streaming'
      /\ pc'[q] = "streamon" => Starting
  <2>1. CASE TestStream(q)
    <3>1. /\ streamOnFlag' = TRUE /\ streaming' = streaming
          /\ pc'[q] = IF streamOnFlag THEN "idle" ELSE "streamon"
          /\ todo'[q] = IF streamOnFlag THEN {} ELSE Used
          /\ pc[q] = "stream"
      BY <1>1, <2>1 DEF TestStream, deviceVars, Shapes
    <3>2. streamOnFlag => Used \subseteq streaming
      BY <1>1, <3>1 DEF StreamInv, Starting
    <3> QED
      BY <1>1, <3>1, <3>2 DEF Starting, Shapes
  <2>2. CASE StreamOn(q)
    <3>1. /\ pc[q] = "streamon" /\ streaming' = streaming \cup {e}
          /\ todo'[q] = todo[q] \ {e}
          /\ pc'[q] = IF todo[q] = {e} THEN "idle" ELSE "streamon"
          /\ streamOnFlag' = streamOnFlag
      BY <1>1, <2>2 DEF StreamOn, handleVars, Shapes
    <3>2. todo[q] # {} /\ todo[q] \subseteq Used /\ streamOnFlag /\ Used \ todo[q] \subseteq streaming
      BY <1>1, <3>1 DEF ControlInv, StreamInv
    <3>3. e \in todo[q]
      BY <1>1, <3>2, NextDevice
    <3> HIDE DEF e
    <3> QED
      BY <1>1, <3>1, <3>2, <3>3 DEF Starting, Shapes
  <2> QED
    BY <2>1, <2>2
<1>6. Shapes'
  <2>1. /\ pc' \in [Threads -> QueuerPCs \cup DequeuerPCs]
        /\ todo' \in [Threads -> SUBSET Devices]
    BY <1>1, <1>2, <1>5 DEF Shapes, QueuerPCs
  <2>2. NoSlot \in [Devices -> Slots] /\ NoMemory \in [Devices -> Buffers \cup {NULL}]
    BY DEF NoSlot, NoMemory, Slots
  <2>3. /\ idx' \in [Threads -> [Devices -> Slots]]
        /\ mem' \in [Threads -> [Devices -> Buffers \cup {NULL}]]
    <3>1. \/ idx' = idx /\ mem' = mem
          \/ idx' = [idx EXCEPT ![q] = NoSlot] /\ mem' = [mem EXCEPT ![q] = NoMemory]
      BY DEF TestStream, StreamOn, Forget
    <3> QED
      BY <2>2, <3>1 DEF Shapes
  <2> QED
    BY <1>2, <1>5, <2>1, <2>3 DEF Shapes
<1>7. ControlInv'
  BY <1>1, <1>2, <1>3, <1>4, <1>5 DEF ControlInv, QueuerPCs, Threads
<1>8. StreamInv'
  <2>1. \A t \in Dequeuers : pc'[t] = pc[t]
    BY <1>1, <1>4 DEF Threads
  <2>2. Starting' => Starting
    BY <1>1, <1>5 DEF Starting
  <2>3. Starting' => pc'[q] = "streamon"
    BY <1>1, <1>5 DEF Starting
  <2>4. ~Starting' => Used' \subseteq streaming'
    BY <1>1, <1>2, <1>3, <1>5 DEF Starting
  <2> QED
    BY <1>1, <1>2, <1>3, <1>5, <2>1, <2>2, <2>4 DEF StreamInv
<1>9. CountsMemories'
  <2>1. \A d \in Used : Uncounted(d)' = Uncounted(d)
    BY <1>1, <1>4 DEF Uncounted, Threads
  <2> QED
    BY <1>2, <2>1, SameCount
<1>10. ASSUME NEW d \in Devices PROVE Matches(d)' /\ OneOwner(d)'
  <2>1. \A t \in Threads : Carries(t, d)' => Carries(t, d) /\ t # q
    BY <1>1, <1>2, <1>3, <1>4 DEF Carries
  <2> QED
    BY <1>2, <1>3, <1>4, <2>1, Untouched
<1> QED
  BY <1>6, <1>7, <1>8, <1>9, <1>10

\* Two buffers are queued only when the devices have been started.
LEMMA CheckStep ==
  ASSUME CaptureInv, OneQueuer, NEW t \in Dequeuers, CheckQueued(t)
  PROVE  CaptureInv'
<1> USE VipAssumption DEF CaptureInv
<1>1. /\ pc[t] = "idle" /\ curQueuedSize >= 2
      /\ pc' = [pc EXCEPT ![t] = "dqbuf"] /\ todo' = [todo EXCEPT ![t] = Used]
      /\ UNCHANGED <<mode, pMgmtMem, curQueuedSize, streamOnFlag, queued, filled, streaming,
                     idx, mem, mine, lent>>
  BY DEF CheckQueued, EnoughQueued, handleVars, deviceVars, loanVars
<1>2. /\ t \in Threads /\ t \notin Queuers /\ Used \subseteq Devices /\ Used # {}
      /\ Used' = Used
  BY <1>1 DEF Threads, Shapes, Used, DevicesOf, Devices, Modes, CLIP_STATUS, DECI_STATUS
<1>3. Shapes'
  BY <1>1, <1>2 DEF Shapes, DequeuerPCs
<1>4. ControlInv'
  BY <1>1, <1>2 DEF ControlInv, Shapes, DequeuerPCs, Threads
<1>5. StreamInv'
  <2>1. ~Starting
    BY <1>1 DEF StreamInv, Shapes
  <2>2. \A q \in Queuers : pc'[q] = pc[q]
    BY <1>1, <1>2 DEF Shapes, Threads
  <2>3. \A q \in Queuers : todo'[q] = todo[q]
    BY <1>1, <1>2 DEF Shapes, Threads
  <2>4. ~Starting'
    BY <1>1, <2>1, <2>2 DEF Starting
  <2> QED
    BY <1>1, <1>2, <2>1, <2>2, <2>3, <2>4 DEF StreamInv
<1>6. CountsMemories'
  <2>1. \A d \in Used : Uncounted(d)' = Uncounted(d)
    BY <1>1, <1>2 DEF Uncounted, Shapes, Threads
  <2> QED
    BY <1>1, <2>1, SameCount
<1>7. ASSUME NEW d \in Devices PROVE Matches(d)' /\ OneOwner(d)'
  <2>1. \A u \in Threads : Carries(u, d)' => Carries(u, d)
    BY <1>1, <1>2 DEF Carries, Shapes
  <2>2. Held(d)' = Held(d)
    BY <1>1 DEF Held
  <2> QED
    BY <1>1, <2>1, <2>2, Untouched
<1> QED
  BY <1>3, <1>4, <1>5, <1>6, <1>7

\* The oldest filled buffer leaves the device; its slot is the thread's.
LEMMA DQBufStep ==
  ASSUME CaptureInv, OneQueuer, NEW t \in Dequeuers, DQBuf(t)
  PROVE  CaptureInv'
<1> DEFINE e == ClipperFirst(todo[t])
           T == Slots \X Buffers
<1> USE VipAssumption DEF CaptureInv
<1>1. /\ pc[t] = "dqbuf" /\ t \in Threads /\ t \notin Queuers
      /\ todo[t] # {} /\ todo[t] \subseteq Used /\ Used \subseteq Devices /\ Used # {}
      /\ e \in todo[t] /\ e \in Devices /\ e \in streaming
  <2>1. /\ pc[t] = "dqbuf" /\ t \in Threads /\ t \notin Queuers
        /\ todo[t] # {} /\ todo[t] \subseteq Used /\ Used \subseteq Devices
    BY DEF DQBuf, ControlInv, Threads, Used, DevicesOf
  <2>2. e \in todo[t] /\ e \in Devices
    BY <2>1, NextDevice
  <2>3. Used \subseteq streaming
    BY <2>1 DEF StreamInv
  <2> QED
    BY <2>1, <2>2, <2>3
<1>2. /\ filled[e] # <<>>
      /\ idx' = [idx EXCEPT ![t][e] = Head(filled[e])[1]]
      /\ filled' = [filled EXCEPT ![e] = Tail(@)]
      /\ todo' = [todo EXCEPT ![t] = IF @ = {e} THEN Used ELSE @ \ {e}]
      /\ pc' = [pc EXCEPT ![t] = IF todo[t] = {e} THEN "take" ELSE "dqbuf"]
      /\ UNCHANGED <<mode, pMgmtMem, curQueuedSize, streamOnFlag, queued, streaming, mem,
                     mine, lent>>
  BY <1>1 DEF DQBuf, handleVars, loanVars
<1> HIDE DEF e
<1>3. Used' = Used
  BY <1>2 DEF Used
<1>4. /\ filled[e] \in Seq(T) /\ queued[e] \in Seq(T)
      /\ Head(filled[e]) \in T /\ Tail(filled[e]) \in Seq(T)
      /\ Head(filled[e])[1] \in Slots
  <2>1. filled[e] \in Seq(T) /\ queued[e] \in Seq(T)
    BY <1>1 DEF Shapes
  <2>2. Head(filled[e]) \in T /\ Tail(filled[e]) \in Seq(T)
    BY <1>2, <2>1, HeadTailProperties
  <2> QED
    BY <2>1, <2>2
<1>5. /\ todo'[t] = IF todo[t] = {e} THEN Used ELSE todo[t] \ {e}
      /\ pc'[t] = IF todo[t] = {e} THEN "take" ELSE "dqbuf"
      /\ \A u \in Threads : u # t => todo'[u] = todo[u] /\ pc'[u] = pc[u] /\ idx'[u] = idx[u]
      /\ idx'[t][e] = Head(filled[e])[1]
      /\ \A d \in Devices : d # e => idx'[t][d] = idx[t][d]
  BY <1>1, <1>2 DEF Shapes
<1>6. Shapes'
  <2>1. idx' \in [Threads -> [Devices -> Slots]]
    BY <1>1, <1>2, <1>4 DEF Shapes
  <2>2. filled' \in [Devices -> Seq(T)]
    BY <1>1, <1>2, <1>4 DEF Shapes
  <2>3. /\ pc' \in [Threads -> QueuerPCs \cup DequeuerPCs]
        /\ todo' \in [Threads -> SUBSET Devices]
    BY <1>1, <1>2 DEF Shapes, DequeuerPCs
  <2> QED
    BY <1>2, <2>1, <2>2, <2>3 DEF Shapes
<1>7. ControlInv'
  <2>1. mem' = mem
    BY <1>2
  <2>2. \A u \in Threads : pc'[u] \in {"qbuf", "streamon", "dqbuf", "take"} =>
          todo'[u] # {} /\ todo'[u] \subseteq Used'
    BY <1>1, <1>3, <1>5 DEF ControlInv
  <2>3. \A q \in Queuers : pc'[q] = pc[q] /\ todo'[q] = todo[q]
    BY <1>1, <1>5 DEF Threads
  <2>4. \A u \in Dequeuers : pc'[u] \in DequeuerPCs
    BY <1>1, <1>5 DEF ControlInv, DequeuerPCs, Threads
  <2> QED
    BY <2>1, <2>2, <2>3, <2>4 DEF ControlInv
<1>8. StreamInv'
  <2>1. ~Starting
    BY <1>1 DEF StreamInv
  <2>2. \A q \in Queuers : pc'[q] = pc[q] /\ todo'[q] = todo[q]
    BY <1>1, <1>5 DEF Threads
  <2>3. ~Starting'
    BY <1>2, <2>1, <2>2 DEF Starting
  <2> QED
    BY <1>2, <1>3, <2>1, <2>2, <2>3 DEF StreamInv
<1>9. CountsMemories'
  <2>1. ASSUME NEW d \in Used PROVE Uncounted(d)' = Uncounted(d)
    BY <1>1, <1>5 DEF Uncounted, Threads
  <2> QED
    BY <1>2, <2>1, SameCount
<1>10. ASSUME NEW d \in Devices PROVE Matches(d)' /\ OneOwner(d)'
  <2>1. CASE d # e
    <3>1. Held(d)' = Held(d)
      BY <1>2, <2>1 DEF Held, Shapes
    <3>2. \A u \in Threads : Carries(u, d)' => Carries(u, d)
      BY <1>1, <1>3, <1>5, <2>1 DEF Carries
    <3>3. \A u \in Threads : idx'[u][d] = idx[u][d]
      BY <1>5, <2>1
    <3> QED
      BY <1>2, <3>1, <3>2, <3>3, Untouched
  <2>2. CASE d = e
    <3>1. /\ Held(d) = filled[e] \o queued[e]
          /\ Held(d)' = Tail(filled[e]) \o queued[e]
      BY <1>1, <1>2, <2>2 DEF Held, Shapes
    <3> HIDE DEF T
    <3>2. /\ Len(Held(d)') = Len(Held(d)) - 1 /\ Len(Held(d)) > 0 /\ Len(Held(d)) \in Nat
          /\ \A n \in 1 .. Len(Held(d)') : Held(d)'[n] = Held(d)[n + 1]
          /\ Held(d)[1] = Head(filled[e])
      <4> DEFINE f == filled[e]
                 w == queued[e]
      <4>1. f \in Seq(T) /\ w \in Seq(T) /\ f # <<>>
        BY <1>2, <1>4
      <4>2. Held(d) = f \o w /\ Held(d)' = Tail(f) \o w
        BY <3>1
      <4> HIDE DEF f, w
      <4>3. /\ Len(Tail(f) \o w) = Len(f \o w) - 1
            /\ \A n \in 1 .. Len(Tail(f) \o w) : (Tail(f) \o w)[n] = (f \o w)[n + 1]
            /\ (f \o w)[1] = Head(f)
            /\ Len(f \o w) > 0
        BY <4>1, Dequeueing
      <4>4. Len(f \o w) \in Nat
        BY <4>1, ConcatProperties
      <4> QED
        BY <4>2, <4>3, <4>4 DEF f
    <3>3. \A n \in 1 .. Len(Held(d)') : n + 1 \in 1 .. Len(Held(d)) /\ n + 1 # 1
      BY <3>2
    <3>4. 1 \in 1 .. Len(Held(d))
      BY <3>2
    <3> DEFINE i == idx'[t][d]
    <3>5. /\ i = Held(d)[1][1] /\ pMgmtMem[d][i] = Held(d)[1][2] /\ pMgmtMem[d][i] # NULL
      BY <1>4, <1>5, <2>2, <3>2, <3>4 DEF Matches, T
    <3>6. Matches(d)'
      <4>1. \A n \in 1 .. Len(Held(d)') : pMgmtMem[d][Held(d)'[n][1]] = Held(d)'[n][2]
        BY <3>2, <3>3 DEF Matches
      <4>2. \A m, n \in 1 .. Len(Held(d)') : Held(d)'[m][1] = Held(d)'[n][1] => m = n
        <5> TAKE m, n \in 1 .. Len(Held(d)')
        <5>1. m \in Nat /\ n \in Nat
          BY <3>2
        <5>2. Held(d)'[m] = Held(d)[m + 1] /\ Held(d)'[n] = Held(d)[n + 1]
          BY <3>2
        <5>3. m + 1 \in 1 .. Len(Held(d)) /\ n + 1 \in 1 .. Len(Held(d))
          BY <3>3
        <5>4. Held(d)[m + 1][1] = Held(d)[n + 1][1] => m + 1 = n + 1
          BY <5>3 DEF Matches
        <5> QED
          BY <5>1, <5>2, <5>4
      <4> QED
        BY <1>2, <4>1, <4>2 DEF Matches
    <3>7. \A n \in 1 .. Len(Held(d)') : Held(d)'[n][1] # i
      BY <3>2, <3>3, <3>4, <3>5 DEF Matches
    <3>8. \A u \in Threads : Carries(u, d)' /\ u # t => Carries(u, d) /\ idx'[u][d] = idx[u][d]
      BY <1>1, <1>3, <1>5 DEF Carries
    <3>9. \A u \in Threads : Carries(u, d)' /\ u # t =>
            /\ idx'[u][d] # i
            /\ \A n \in 1 .. Len(Held(d)') : Held(d)'[n][1] # idx'[u][d]
      BY <3>2, <3>3, <3>4, <3>5, <3>8 DEF OneOwner
    <3>10. OneOwner(d)'
      BY <1>1, <1>2, <3>5, <3>7, <3>8, <3>9 DEF OneOwner
    <3> QED
      BY <3>6, <3>10
  <2> QED
    BY <2>1, <2>2
<1> QED
  BY <1>6, <1>7, <1>8, <1>9, <1>10

\* Emptying a slot outside hMutex empties the one that nobody else names.
LEMMA TakeStep ==
  ASSUME CaptureInv, OneQueuer, NEW t \in Dequeuers, Take(t)
  PROVE  CaptureInv'
<1> USE VipAssumption DEF CaptureInv
<1>0. PICK e \in Devices : e = ClipperFirst(todo[t])
  BY DEF ClipperFirst, Devices
<1> DEFINE i == idx[t][e]
<1>1. /\ pc[t] = "take" /\ t \in Threads /\ t \notin Queuers
      /\ todo[t] # {} /\ todo[t] \subseteq Used /\ Used \subseteq Devices
      /\ e \in todo[t] /\ e \in Devices /\ i \in Slots
  <2>1. /\ pc[t] = "take" /\ t \in Threads /\ t \notin Queuers
        /\ todo[t] # {} /\ todo[t] \subseteq Used /\ Used \subseteq Devices
    BY DEF Take, ControlInv, Threads, Used, DevicesOf
  <2>2. e \in todo[t] /\ e \in Devices
    BY <1>0, <2>1, NextDevice
  <2> QED
    BY <2>1, <2>2 DEF Shapes
<1>2. /\ mem' = [mem EXCEPT ![t][e] = pMgmtMem[e][i]]
      /\ pMgmtMem' = [pMgmtMem EXCEPT ![e][i] = NULL]
      /\ todo' = [todo EXCEPT ![t] = @ \ {e}]
      /\ pc' = [pc EXCEPT ![t] = IF todo[t] = {e} THEN "return" ELSE "take"]
      /\ UNCHANGED <<mode, curQueuedSize, streamOnFlag, queued, filled, streaming, idx,
                     mine, lent>>
  BY <1>0 DEF Take, TakenIndex, deviceVars, loanVars
<1>3. Used' = Used /\ \A d \in Devices : Held(d)' = Held(d)
  BY <1>2 DEF Used, Held
<1>4. /\ pMgmtMem[e] \in [Slots -> Buffers \cup {NULL}]
      /\ pMgmtMem'[e] = [pMgmtMem[e] EXCEPT ![i] = NULL]
      /\ \A d \in Devices : d # e => pMgmtMem'[d] = pMgmtMem[d]
      /\ todo'[t] = todo[t] \ {e}
      /\ pc'[t] = IF todo[t] = {e} THEN "return" ELSE "take"
      /\ \A u \in Threads : u # t => todo'[u] = todo[u] /\ pc'[u] = pc[u] /\ mem'[u] = mem[u]
  BY <1>1, <1>2 DEF Shapes
<1>5. Carries(t, e) /\ ~Carries(t, e)'
  BY <1>1, <1>3, <1>4 DEF Carries
<1>6. Shapes'
  <2>1. pMgmtMem' \in [Devices -> [Slots -> Buffers \cup {NULL}]]
    BY <1>1, <1>2, <1>4 DEF Shapes
  <2>2. mem' \in [Threads -> [Devices -> Buffers \cup {NULL}]]
    BY <1>1, <1>2, <1>4 DEF Shapes
  <2>3. /\ pc' \in [Threads -> QueuerPCs \cup DequeuerPCs]
        /\ todo' \in [Threads -> SUBSET Devices]
    BY <1>1, <1>2 DEF Shapes, DequeuerPCs
  <2> QED
    BY <1>2, <2>1, <2>2, <2>3 DEF Shapes
<1>7. ControlInv'
  <2>1. \A u \in Threads : pc'[u] \in {"qbuf", "streamon", "dqbuf", "take"} =>
          todo'[u] # {} /\ todo'[u] \subseteq Used'
    BY <1>1, <1>3, <1>4 DEF ControlInv
  <2>2. \A q \in Queuers : pc'[q] = pc[q] /\ todo'[q] = todo[q] /\ mem'[q] = mem[q]
    BY <1>1, <1>4 DEF Threads
  <2>3. \A u \in Dequeuers : pc'[u] \in DequeuerPCs
    BY <1>1, <1>4 DEF ControlInv, DequeuerPCs, Threads
  <2> QED
    BY <2>1, <2>2, <2>3 DEF ControlInv
<1>8. StreamInv'
  <2>1. ~Starting
    BY <1>1 DEF StreamInv
  <2>2. \A q \in Queuers : pc'[q] = pc[q] /\ todo'[q] = todo[q]
    BY <1>1, <1>4 DEF Threads
  <2>3. ~Starting'
    BY <1>2, <2>1, <2>2 DEF Starting
  <2> QED
    BY <1>2, <1>3, <2>1, <2>2, <2>3 DEF StreamInv
<1>9. \A u \in Threads : u # t /\ Carries(u, e) => idx[u][e] # i
  BY <1>1, <1>5 DEF OneOwner
<1>10. CountsMemories'
  <2> SUFFICES ASSUME NEW d \in Used
               PROVE  curQueuedSize' = Cardinality(Slots \ Empty(d)') + Cardinality(Uncounted(d)')
    BY <1>3 DEF CountsMemories
  <2>1. curQueuedSize = Cardinality(Slots \ Empty(d)) + Cardinality(Uncounted(d))
    BY DEF CountsMemories
  <2>2. CASE d # e
    <3>1. Uncounted(d)' = Uncounted(d)
      BY <1>1, <1>4, <2>2 DEF Uncounted, Threads
    <3>2. Empty(d)' = Empty(d)
      BY <1>1, <1>4, <2>2 DEF Empty
    <3> QED
      BY <1>2, <2>1, <3>1, <3>2
  <2>3. CASE d = e
    <3>1. Uncounted(d)' = Uncounted(d) \cup {t} /\ t \notin Uncounted(d)
      BY <1>1, <1>4, <2>3 DEF Uncounted, Threads
    <3>2. pMgmtMem[e][i] # NULL
      BY <1>1, <1>5 DEF OneOwner
    <3>3. Slots \ Empty(d)' = (Slots \ Empty(d)) \ {i} /\ i \in Slots \ Empty(d)
      BY <1>1, <1>4, <2>3, <3>2 DEF Empty
    <3> HIDE DEF i
    <3>4. /\ Cardinality(Uncounted(d)) \in Nat /\ Cardinality(Slots \ Empty(d)) \in Nat
          /\ IsFiniteSet(Uncounted(d)) /\ IsFiniteSet(Slots \ Empty(d))
      BY Countable
    <3>5. Cardinality(Uncounted(d)') = Cardinality(Uncounted(d)) + 1
      BY <3>1, <3>4, FS_AddElement
    <3>6. Cardinality(Slots \ Empty(d)') = Cardinality(Slots \ Empty(d)) - 1
      <4> DEFINE F == Slots \ Empty(d)
      <4>1. IsFiniteSet(F) /\ i \in F /\ Slots \ Empty(d)' = F \ {i}
        BY <3>3, <3>4
      <4> HIDE DEF F
      <4>2. Cardinality(F \ {i}) = Cardinality(F) - 1
        BY <4>1, FS_RemoveElement
      <4> QED
        BY <4>1, <4>2 DEF F
    <3> QED
      BY <1>2, <2>1, <3>4, <3>5, <3>6
  <2> QED
    BY <2>2, <2>3
<1>11. ASSUME NEW d \in Devices PROVE Matches(d)' /\ OneOwner(d)'
  <2>1. \A u \in Threads : Carries(u, d)' => Carries(u, d) /\ (u = t => d # e)
    BY <1>1, <1>3, <1>4, <1>5 DEF Carries
  <2>2. \A u \in Threads : u \in Queuers => mem'[u][d] = mem[u][d]
    BY <1>1, <1>4
  <2>3. CASE d # e
    BY <1>2, <1>3, <1>4, <2>1, <2>2, <2>3, Untouched
  <2>4. CASE d = e
    <3>1. \A n \in 1 .. Len(Held(d)) :
            Held(d)[n][1] \in Slots /\ Held(d)[n][1] # i
      <4>1. Held(d) \in Seq(Slots \X Buffers)
        BY ConcatProperties DEF Held, Shapes
      <4> QED
        BY <1>1, <1>5, <2>4, <4>1 DEF OneOwner
    <3>2. \A j \in Slots : j # i => pMgmtMem'[d][j] = pMgmtMem[d][j]
      BY <1>4, <2>4
    <3>3. Matches(d)'
      BY <1>3, <3>1, <3>2 DEF Matches
    <3>4. \A u \in Threads : Carries(u, d)' => Carries(u, d) /\ idx[u][d] # i /\ idx[u][d] \in Slots
      BY <1>9, <2>1, <2>4 DEF Shapes
    <3>5. OneOwner(d)'
      BY <1>2, <1>3, <2>2, <3>2, <3>4 DEF OneOwner
    <3> QED
      BY <3>3, <3>5
  <2> QED
    BY <2>3, <2>4
<1> QED
  BY <1>6, <1>7, <1>8, <1>10, <1>11

\* A dequeue that emptied its slots counts them.
LEMMA ReturnStep ==
  ASSUME CaptureInv, OneQueuer, NEW t \in Dequeuers, ReturnToCaller(t)
  PROVE  CaptureInv'
<1> USE VipAssumption DEF CaptureInv
<1>1. /\ pc[t] = "return" /\ t \in Threads /\ t \notin Queuers
      /\ curQueuedSize' = curQueuedSize - 1
      /\ pc' = [pc EXCEPT ![t] = "idle"]
      /\ idx' = [idx EXCEPT ![t] = NoSlot] /\ mem' = [mem EXCEPT ![t] = NoMemory]
      /\ mine' = mine \cup {b \in Buffers : \A d \in Used : mem[t][d] = b}
      /\ lent' = IF lent = <<>> THEN lent ELSE Tail(lent)
      /\ UNCHANGED <<mode, pMgmtMem, streamOnFlag, queued, filled, streaming, todo>>
  BY DEF ReturnToCaller, CountAfterReturn, Forget, deviceVars, Threads
<1>2. Used' = Used /\ \A d \in Devices : Held(d)' = Held(d)
  BY <1>1 DEF Used, Held
<1>3. \A u \in Threads : u # t => pc'[u] = pc[u] /\ idx'[u] = idx[u] /\ mem'[u] = mem[u]
  BY <1>1 DEF Shapes
<1>4. pc'[t] = "idle"
  BY <1>1 DEF Shapes
<1>5. Shapes'
  <2>1. NoSlot \in [Devices -> Slots] /\ NoMemory \in [Devices -> Buffers \cup {NULL}]
    BY DEF NoSlot, NoMemory, Slots
  <2>2. /\ idx' \in [Threads -> [Devices -> Slots]]
        /\ mem' \in [Threads -> [Devices -> Buffers \cup {NULL}]]
        /\ pc' \in [Threads -> QueuerPCs \cup DequeuerPCs]
    BY <1>1, <2>1 DEF Shapes, DequeuerPCs
  <2>3. lent' \in Seq(Buffers)
    BY <1>1, HeadTailProperties DEF Shapes
  <2>4. mine' \subseteq Buffers /\ curQueuedSize' \in Int /\ curQueuedSize' <= VIP_MAX_BUF_SIZE
    BY <1>1 DEF Shapes
  <2> QED
    BY <1>1, <2>2, <2>3, <2>4 DEF Shapes
<1>6. ControlInv'
  BY <1>1, <1>2, <1>3, <1>4 DEF ControlInv, DequeuerPCs, Threads
<1>7. StreamInv'
  <2>1. ~Starting
    BY <1>1 DEF StreamInv
  <2>2. \A q \in Queuers : pc'[q] = pc[q]
    BY <1>1, <1>3 DEF Threads
  <2>3. ~Starting'
    BY <1>1, <2>1, <2>2 DEF Starting
  <2>4. streamOnFlag
    BY <2>1 DEF Starting
  <2> QED
    BY <1>1, <1>2, <2>1, <2>2, <2>3, <2>4 DEF StreamInv
<1>8. CountsMemories'
  <2> SUFFICES ASSUME NEW d \in Used
               PROVE  curQueuedSize' = Cardinality(Slots \ Empty(d)') + Cardinality(Uncounted(d)')
    BY <1>2 DEF CountsMemories
  <2> DEFINE U == Uncounted(d)
  <2>1. curQueuedSize = Cardinality(Slots \ Empty(d)) + Cardinality(U)
    BY DEF CountsMemories
  <2>2. Uncounted(d)' = U \ {t} /\ t \in U
    BY <1>1, <1>3, <1>4 DEF Uncounted, Threads
  <2>3. Empty(d)' = Empty(d)
    BY <1>1 DEF Empty
  <2>4. IsFiniteSet(U) /\ Cardinality(U) \in Nat /\ Cardinality(Slots \ Empty(d)) \in Nat
    BY Countable
  <2> HIDE DEF U
  <2>5. Cardinality(U \ {t}) = Cardinality(U) - 1
    BY <2>2, <2>4, FS_RemoveElement
  <2> QED
    BY <1>1, <2>1, <2>2, <2>3, <2>4, <2>5
<1>9. ASSUME NEW d \in Devices PROVE Matches(d)' /\ OneOwner(d)'
  <2>1. \A u \in Threads : Carries(u, d)' => Carries(u, d) /\ u # t
    BY <1>1, <1>2, <1>3, <1>4 DEF Carries
  <2> QED
    BY <1>1, <1>2, <1>3, <2>1, Untouched
<1> QED
  BY <1>5, <1>6, <1>7, <1>8, <1>9

\* A device that fills a buffer keeps what it has, in the order it got it.
LEMMA FillStep ==
  ASSUME CaptureInv, OneQueuer, NEW e \in Devices, FillFrame(e)
  PROVE  CaptureInv'
<1> DEFINE T == Slots \X Buffers
<1> USE VipAssumption DEF CaptureInv
<1>1. /\ queued[e] # <<>>
      /\ queued' = [queued EXCEPT ![e] = Tail(@)]
      /\ filled' = [filled EXCEPT ![e] = Append(@, Head(queued[e]))]
      /\ UNCHANGED <<mode, pMgmtMem, curQueuedSize, streamOnFlag, streaming, pc, todo, idx, mem,
                     mine, lent>>
  BY DEF FillFrame, handleVars, threadVars, loanVars
<1>2. queued[e] \in Seq(T) /\ filled[e] \in Seq(T)
  BY DEF Shapes
<1>3. /\ Tail(queued[e]) \in Seq(T) /\ Append(filled[e], Head(queued[e])) \in Seq(T)
      /\ Append(filled[e], Head(queued[e])) \o Tail(queued[e]) = filled[e] \o queued[e]
  <2> DEFINE w == queued[e]
             f == filled[e]
  <2> HIDE DEF T
  <2>1. Head(w) \in T /\ Tail(w) \in Seq(T)
    BY <1>1, <1>2, HeadTailProperties
  <2>2. Append(f, Head(w)) \in Seq(T)
    BY <1>2, <2>1, AppendProperties
  <2>3. Append(f, Head(w)) \o Tail(w) = f \o w
    BY <1>1, <1>2, Filling
  <2> QED
    BY <2>1, <2>2, <2>3
<1>4. Shapes'
  BY <1>1, <1>3 DEF Shapes
<1>5. Used' = Used
  BY <1>1 DEF Used
<1>6. ControlInv' /\ StreamInv'
  BY <1>1, <1>5 DEF ControlInv, StreamInv, Starting
<1>7. CountsMemories'
  <2>1. \A d \in Used : Uncounted(d)' = Uncounted(d)
    BY <1>1 DEF Uncounted
  <2> QED
    BY <1>1, <2>1, SameCount
<1>8. ASSUME NEW d \in Devices PROVE Matches(d)' /\ OneOwner(d)'
  <2>1. Held(d)' = Held(d)
    BY <1>1, <1>3 DEF Held, Shapes
  <2>2. \A u \in Threads : Carries(u, d)' => Carries(u, d)
    BY <1>1, <1>5 DEF Carries
  <2> QED
    BY <1>1, <2>1, <2>2, Untouched
<1> QED
  BY <1>4, <1>6, <1>7, <1>8

\* A handle that starts afresh, while no call is in progress, names nothing.
LEMMA ConfigStep ==
  ASSUME CaptureInv, OneQueuer, ChangeConfig \/ CloseAndInit
  PROVE  CaptureInv'
<1> USE VipAssumption DEF CaptureInv
<1>1. /\ \A t \in Threads : pc[t] = "idle"
      /\ mode' \in Modes /\ pMgmtMem' = EmptySlots /\ curQueuedSize' = 0 /\ streamOnFlag' = FALSE
      /\ queued' = NoFrames /\ filled' = NoFrames /\ streaming' = {}
      /\ mine' \subseteq Buffers /\ lent' = <<>>
      /\ UNCHANGED <<pc, todo, idx, mem>>
  <2>1. CASE ChangeConfig
    BY <2>1 DEF ChangeConfig, OneQueuer, StreamInv, Shapes, threadVars
  <2>2. CASE CloseAndInit
    BY <2>2 DEF CloseAndInit, threadVars
  <2> QED
    BY <2>1, <2>2
<1>2. Shapes'
  <2>1. EmptySlots \in [Devices -> [Slots -> Buffers \cup {NULL}]]
    BY DEF EmptySlots
  <2>2. NoFrames \in [Devices -> Seq(Slots \X Buffers)] /\ <<>> \in Seq(Buffers)
    BY EmptySeq DEF NoFrames
  <2>3. curQueuedSize' \in Int /\ curQueuedSize' <= VIP_MAX_BUF_SIZE
    BY <1>1
  <2> QED
    BY <1>1, <2>1, <2>2, <2>3 DEF Shapes
<1>3. ControlInv' /\ StreamInv'
  BY <1>1 DEF ControlInv, StreamInv, Starting, Threads, QueuerPCs, DequeuerPCs
<1>4. ASSUME NEW d \in Devices PROVE Matches(d)' /\ OneOwner(d)'
  <2>1. Held(d)' = <<>> \o <<>>
    BY <1>1 DEF Held, NoFrames
  <2>2. \A t \in Threads : ~Carries(t, d)'
    BY <1>1 DEF Carries
  <2>3. Matches(d)'
    BY <2>1 DEF Matches
  <2> QED
    BY <2>2, <2>3 DEF OneOwner
<1>5. CountsMemories'
  <2>1. ASSUME NEW d \in Used'
        PROVE  Cardinality(Slots \ Empty(d)') = 0 /\ Cardinality(Uncounted(d)') = 0
    <3>1. d \in Devices
      BY DEF Used, DevicesOf
    <3>2. Slots \ Empty(d)' = {} /\ Uncounted(d)' = {}
      BY <1>1, <3>1 DEF Empty, EmptySlots, Uncounted, Threads
    <3> QED
      BY <3>2, FS_EmptySet
  <2> QED
    BY <1>1, <2>1 DEF CountsMemories
<1> QED
  BY <1>2, <1>3, <1>4, <1>5

\* Every step keeps the invariant.
LEMMA CaptureStep ==
  ASSUME OneQueuer, CaptureInv, [Next]_vars
  PROVE  CaptureInv'
<1>1. ASSUME NEW q \in Queuers, QueuerStep(q) \/ \E b \in Buffers : QueueBuffer(q, b)
      PROVE  CaptureInv'
  BY <1>1, QBufStep, StreamStep, QueueStep DEF QueuerStep
<1>2. ASSUME NEW t \in Dequeuers, DequeuerStep(t) \/ CheckQueued(t)
      PROVE  CaptureInv'
  BY <1>2, DQBufStep, TakeStep, ReturnStep, CheckStep DEF DequeuerStep
<1>3. CASE ChangeConfig \/ CloseAndInit
  BY <1>3, ConfigStep
<1>4. ASSUME NEW d \in Devices, FillFrame(d) PROVE CaptureInv'
  BY <1>4, FillStep
<1>5. CASE UNCHANGED vars
  <2>1. /\ Used' = Used
        /\ UNCHANGED <<mode, pMgmtMem, curQueuedSize, streamOnFlag, queued, filled, streaming,
                       pc, todo, idx, mem, mine, lent>>
    BY <1>5 DEF vars, handleVars, deviceVars, threadVars, loanVars, Used
  <2>2. \A d \in Devices, t \in Threads : Carries(t, d)' => Carries(t, d)
    BY <2>1 DEF Carries
  <2>3. \A d \in Devices : Held(d)' = Held(d)
    BY <2>1 DEF Held
  <2>4. \A d \in Devices : Matches(d)' /\ OneOwner(d)'
    BY <2>1, <2>2, <2>3, Untouched DEF CaptureInv
  <2>5. \A d \in Used : Uncounted(d)' = Uncounted(d)
    BY <2>1 DEF Uncounted
  <2>6. CountsMemories'
    BY <2>1, <2>5, SameCount DEF CaptureInv
  <2>7. Shapes' /\ ControlInv' /\ StreamInv'
    BY <2>1 DEF CaptureInv, Shapes, ControlInv, StreamInv, Starting
  <2> QED
    BY <2>4, <2>6, <2>7 DEF CaptureInv
<1> QED
  BY <1>1, <1>2, <1>3, <1>4, <1>5 DEF Next

-----------------------------------------------------------------------------
\* With one queueing thread and no reconfiguration beside other calls, the
\* invariant holds in every reachable state.
THEOREM Invariant ==
  ASSUME OneQueuer
  PROVE  Spec => []CaptureInv
<1>1. CaptureInv /\ [Next]_vars => CaptureInv'
  BY CaptureStep
<1> QED
  BY <1>1, CaptureInit, PTL DEF Spec

\* The shapes hold, and the count of queued memories stays within its array.
THEOREM CaptureTyping ==
  ASSUME OneQueuer
  PROVE  Spec => []TypeOK
<1>1. CaptureInv => TypeOK
  BY Implied
<1> QED
  BY <1>1, Invariant, PTL

\* NX_VipDequeueBuffer hands out the buffer the device filled, however many
\* threads empty slots outside hMutex.
THEOREM RightBuffer ==
  ASSUME OneQueuer
  PROVE  Spec => []SlotsMatchDevice
<1>1. CaptureInv => SlotsMatchDevice
  BY Implied
<1> QED
  BY <1>1, Invariant, PTL

\* NX_VipQueueBuffer never finds room and no empty slot.
THEOREM ExactCount ==
  ASSUME OneQueuer
  PROVE  Spec => []CountsMemories
<1>1. CaptureInv => CountsMemories
  BY Implied
<1> QED
  BY <1>1, Invariant, PTL

\* v4l2_dqbuf is never called before VIDIOC_STREAMON.
THEOREM NeverTooEarly ==
  ASSUME OneQueuer
  PROVE  Spec => []DequeueWhileStreaming
<1>1. CaptureInv => DequeueWhileStreaming
  BY Implied
<1> QED
  BY <1>1, Invariant, PTL

-----------------------------------------------------------------------------
\* The refinement needs one thread that dequeues, too: two could return their
\* buffers in either order.
OnePair == OneQueuer /\ \A t, u \in Dequeuers : t = u

\* A dequeue has a buffer of d; its name is still in its slot until it is taken.
Passing(t, d) == pc[t] \in {"take", "return"} \/ (pc[t] = "dqbuf" /\ d \notin todo[t])
Passed(t, d) == IF t \in Uncounted(d) THEN mem[t][d] ELSE pMgmtMem[d][idx[t][d]]
Taken(d) == IF \E t \in Dequeuers : Passing(t, d) THEN 1 ELSE 0

\* A queueing thread is about to give d a buffer.
Giving(q, d) == pc[q] = "qbuf" /\ d \in todo[q]
Given(d) == IF \E q \in Queuers : Giving(q, d) THEN 1 ELSE 0

\* What the application lent is, in order: what a dequeue has taken from the
\* device, what the device has, what is on its way to it.
LentInOrder(d) ==
  /\ Len(lent) = Taken(d) + Len(Held(d)) + Given(d)
  /\ \A n \in 1 .. Len(Held(d)) : Held(d)[n][2] = lent[Taken(d) + n]
  /\ \A t \in Dequeuers : Passing(t, d) => Passed(t, d) = lent[1]
  /\ \A q \in Queuers : Giving(q, d) => mem[q][d] = lent[Len(lent)]

LoanInv ==
  /\ \A d \in Used : LentInOrder(d)
  /\ \A t \in Threads : pc[t] = "idle" => mem[t] = NoMemory

\* Lengths are numbers, and what is on loan at all is in [Buffers].
LEMMA Lengths ==
  ASSUME CaptureInv
  PROVE  /\ lent \in Seq(Buffers) /\ Len(lent) \in Nat
         /\ \A d \in Devices : Held(d) \in Seq(Slots \X Buffers) /\ Len(Held(d)) \in Nat
         /\ Used \subseteq Devices /\ Used # {}
<1>1. \A d \in Devices : Held(d) \in Seq(Slots \X Buffers)
  BY ConcatProperties DEF CaptureInv, Shapes, Held
<1>2. lent \in Seq(Buffers)
  BY DEF CaptureInv, Shapes
<1>3. Used \subseteq Devices /\ Used # {}
  <2>1. mode \in Modes
    BY DEF CaptureInv, Shapes
  <2> QED
    BY <2>1 DEF Used, DevicesOf, Devices, Modes, CLIP_STATUS, DECI_STATUS
<1> QED
  BY <1>1, <1>2, <1>3, LenProperties

\* A device keeps its part of the order when its buffers and the two threads'
\* are the same.
LEMMA SameOrder ==
  ASSUME NEW d, LentInOrder(d), lent' = lent, Held(d)' = Held(d),
         \A t \in Dequeuers : Passing(t, d)' <=> Passing(t, d),
         \A q \in Queuers : Giving(q, d)' <=> Giving(q, d),
         \A t \in Dequeuers : Passing(t, d) => Passed(t, d)' = Passed(t, d),
         \A q \in Queuers : Giving(q, d) => mem'[q][d] = mem[q][d]
  PROVE  LentInOrder(d)'
<1>1. Taken(d)' = Taken(d) /\ Given(d)' = Given(d)
  BY DEF Taken, Given
<1> QED
  BY <1>1 DEF LentInOrder

\* Lending puts the buffer at the end of the order.
LEMMA LendOrder ==
  ASSUME CaptureInv, LoanInv, OnePair, NEW q \in Queuers, NEW b \in Buffers, QueueBuffer(q, b)
  PROVE  LoanInv' /\ ((\E c \in Buffers : Loan!Lend(c)) \/ UNCHANGED <<mine, lent>>)
<1> USE VipAssumption DEF CaptureInv
<1>1. /\ \A d \in Used : FirstEmpty(d) \in Slots /\ pMgmtMem[d][FirstEmpty(d)] = NULL
      /\ Placed = Used
  <2>1. RoomLeft
    BY DEF QueueBuffer
  <2> QED
    BY <2>1, RoomFound
<1>2. /\ pc[q] = "idle" /\ b \in mine
      /\ pMgmtMem' = [d \in Devices |->
           IF d \in Used THEN [pMgmtMem[d] EXCEPT ![FirstEmpty(d)] = b] ELSE pMgmtMem[d]]
      /\ pc' = [pc EXCEPT ![q] = "qbuf"]
      /\ todo' = [todo EXCEPT ![q] = Used]
      /\ idx' = [idx EXCEPT ![q] = [d \in Devices |-> IF d \in Used THEN FirstEmpty(d) ELSE 0]]
      /\ mem' = [mem EXCEPT ![q] = [d \in Devices |-> IF d \in Used THEN b ELSE NULL]]
      /\ mine' = mine \ {b} /\ lent' = Append(lent, b)
      /\ UNCHANGED <<mode, queued, filled>>
  BY <1>1 DEF QueueBuffer, deviceVars
<1>3. /\ Used' = Used /\ Used \subseteq Devices /\ q \in Threads /\ q \notin Dequeuers
      /\ \A d \in Devices : Held(d)' = Held(d)
      /\ \A t \in Threads : t # q =>
           pc'[t] = pc[t] /\ todo'[t] = todo[t] /\ idx'[t] = idx[t] /\ mem'[t] = mem[t]
      /\ pc'[q] = "qbuf" /\ todo'[q] = Used
      /\ \A d \in Used : mem'[q][d] = b
  BY <1>2 DEF Used, DevicesOf, Threads, Held, Shapes
<1>4. ASSUME NEW d \in Used PROVE LentInOrder(d)'
  <2>1. LentInOrder(d) /\ Held(d)' = Held(d) /\ Len(Held(d)) \in Nat
    BY <1>3, Lengths DEF LoanInv
  <2>2. \A t \in Dequeuers : (Passing(t, d)' <=> Passing(t, d)) /\ t \in Threads /\ t # q
    BY <1>3 DEF Passing, Threads
  <2>3. Taken(d)' = Taken(d) /\ Taken(d) \in {0, 1}
    BY <2>2 DEF Taken
  <2>4. Given(d) = 0 /\ Given(d)' = 1
    BY <1>2, <1>3 DEF Given, Giving, OnePair, OneQueuer
  <2>5. /\ Len(lent) \in Nat /\ Len(lent') = Len(lent) + 1 /\ lent'[Len(lent) + 1] = b
        /\ \A n \in 1 .. Len(lent) : lent'[n] = lent[n]
    BY <1>2, Lengths, AppendProperties
  <2>6. \A t \in Dequeuers : Passing(t, d) => Passed(t, d)' = Passed(t, d)
    <3> SUFFICES ASSUME NEW t \in Dequeuers, Passing(t, d)
                 PROVE  Passed(t, d)' = Passed(t, d)
      OBVIOUS
    <3>1. t \in Uncounted(d)' <=> t \in Uncounted(d)
      BY <1>3, <2>2 DEF Uncounted
    <3>2. CASE t \in Uncounted(d)
      BY <1>3, <2>2, <3>1, <3>2 DEF Passed
    <3>3. CASE t \notin Uncounted(d)
      <4>1. Carries(t, d)
        BY <3>3 DEF Carries, Passing, Uncounted
      <4>2. idx[t][d] \in Slots /\ pMgmtMem[d][idx[t][d]] # NULL
        BY <1>3, <2>2, <4>1 DEF OneOwner, Shapes
      <4>3. pMgmtMem'[d][idx[t][d]] = pMgmtMem[d][idx[t][d]]
        BY <1>1, <1>2, <1>3, <4>2 DEF Shapes
      <4> QED
        BY <1>3, <2>2, <3>1, <3>3, <4>3 DEF Passed
    <3> QED
      BY <3>2, <3>3
  <2>7. Len(lent') = Taken(d)' + Len(Held(d)') + Given(d)'
    BY <2>1, <2>3, <2>4, <2>5 DEF LentInOrder
  <2>8. \A n \in 1 .. Len(Held(d)') : Held(d)'[n][2] = lent'[Taken(d)' + n]
    <3>1. \A n \in 1 .. Len(Held(d)) : Taken(d) + n \in 1 .. Len(lent)
      BY <2>1, <2>3, <2>4, <2>5 DEF LentInOrder
    <3> QED
      BY <2>1, <2>3, <2>5, <3>1 DEF LentInOrder
  <2>9. \A t \in Dequeuers : Passing(t, d)' => Passed(t, d)' = lent'[1]
    <3>1. (\E t \in Dequeuers : Passing(t, d)) => 1 \in 1 .. Len(lent)
      BY <2>1, <2>4, <2>5 DEF LentInOrder, Taken
    <3> QED
      BY <2>1, <2>2, <2>5, <2>6, <3>1 DEF LentInOrder
  <2>10. \A p \in Queuers : Giving(p, d)' => mem'[p][d] = lent'[Len(lent')]
    BY <1>3, <2>5 DEF OnePair, OneQueuer
  <2> QED
    BY <2>7, <2>8, <2>9, <2>10 DEF LentInOrder
<1>5. LoanInv'
  BY <1>3, <1>4 DEF LoanInv
<1>6. Loan!Lend(b)
  BY <1>2 DEF Loan!Lend
<1> QED
  BY <1>5, <1>6

\* A device takes the buffer that was lent last.
LEMMA QBufOrder ==
  ASSUME CaptureInv, LoanInv, OnePair, NEW q \in Queuers, QBuf(q)
  PROVE  LoanInv' /\ UNCHANGED <<mine, lent>>
<1> USE VipAssumption DEF CaptureInv
<1>0. PICK e \in Devices : e = ClipperFirst(todo[q])
  BY DEF ClipperFirst, Devices
<1>1. /\ pc[q] = "qbuf" /\ q \in Threads /\ q \notin Dequeuers
      /\ e \in todo[q] /\ todo[q] \subseteq Used /\ Carries(q, e) /\ todo[q] \subseteq Devices
  <2>1. pc[q] = "qbuf" /\ q \in Threads /\ q \notin Dequeuers /\ todo[q] # {} /\ todo[q] \subseteq Used
    BY DEF QBuf, ControlInv, Threads
  <2>2. todo[q] \subseteq Devices
    BY <2>1 DEF Shapes
  <2>3. e \in todo[q]
    BY <1>0, <2>1, <2>2, NextDevice
  <2> QED
    BY <2>1, <2>2, <2>3 DEF Carries
<1>2. ~DeviceHas(e, idx[q][e])
  <2> DEFINE f == filled[e]
             w == queued[e]
             T == Slots \X Buffers
  <2>1. f \in Seq(T) /\ w \in Seq(T) /\ Held(e) = f \o w
    BY DEF Shapes, Held
  <2> HIDE DEF f, w, T
  <2>2. \A n \in 1 .. Len(w \o f) : \E m \in 1 .. Len(f \o w) : (w \o f)[n] = (f \o w)[m]
    <3> TAKE n \in 1 .. Len(w \o f)
    <3>1. /\ Len(w \o f) = Len(w) + Len(f) /\ Len(f \o w) = Len(f) + Len(w)
          /\ Len(w) \in Nat /\ Len(f) \in Nat
      BY <2>1, ConcatProperties
    <3>2. CASE n <= Len(w)
      <4>1. (w \o f)[n] = w[n] /\ (f \o w)[Len(f) + n] = w[n] /\ Len(f) + n \in 1 .. Len(f \o w)
        BY <2>1, <3>1, <3>2
      <4> QED
        BY <4>1
    <3>3. CASE n > Len(w)
      <4>1. /\ (w \o f)[n] = f[n - Len(w)] /\ (f \o w)[n - Len(w)] = f[n - Len(w)]
            /\ n - Len(w) \in 1 .. Len(f \o w)
        BY <2>1, <3>1, <3>3
      <4> QED
        BY <4>1
    <3> QED
      BY <3>1, <3>2, <3>3
  <2>3. \A m \in 1 .. Len(f \o w) : (f \o w)[m][1] # idx[q][e]
    BY <1>1, <2>1 DEF OneOwner
  <2> QED
    BY <2>2, <2>3 DEF DeviceHas, f, w
<1>3. /\ queued' = [queued EXCEPT ![e] = Append(@, <<idx[q][e], mem[q][e]>>)]
      /\ todo' = [todo EXCEPT ![q] = @ \ {e}]
      /\ pc' = [pc EXCEPT ![q] = IF todo[q] = {e} THEN "stream" ELSE "qbuf"]
      /\ UNCHANGED <<mode, pMgmtMem, filled, idx, mem, mine, lent>>
  BY <1>0, <1>2 DEF QBuf, handleVars, loanVars
<1>4. /\ Used' = Used
      /\ \A t \in Threads : t # q => pc'[t] = pc[t] /\ todo'[t] = todo[t]
      /\ \A d \in Devices : Giving(q, d)' <=> Giving(q, d) /\ d # e
      /\ \A d \in Devices : d # e => Held(d)' = Held(d)
      /\ \A p \in Queuers : p = q
      /\ \A t \in Dequeuers : t \in Threads /\ t # q
  BY <1>1, <1>3 DEF Used, Shapes, Giving, Held, Threads, OnePair, OneQueuer
<1>5. ASSUME NEW d \in Used PROVE LentInOrder(d)'
  <2>1. /\ \A t \in Dequeuers : (Passing(t, d)' <=> Passing(t, d)) /\ Passed(t, d)' = Passed(t, d)
        /\ Taken(d)' = Taken(d) /\ Taken(d) \in {0, 1} /\ d \in Devices /\ LentInOrder(d)
    <3>1. \A t \in Dequeuers : Passing(t, d)' <=> Passing(t, d)
      BY <1>4 DEF Passing
    <3>2. \A t \in Dequeuers : t \in Uncounted(d)' <=> t \in Uncounted(d)
      BY <1>4 DEF Uncounted
    <3> QED
      BY <1>3, <3>1, <3>2, Lengths DEF Taken, Passed, LoanInv
  <2>2. CASE d # e
    BY <1>3, <1>4, <2>1, <2>2, SameOrder
  <2>3. CASE d = e
    <3>1. Given(d) = 1 /\ Given(d)' = 0 /\ Giving(q, d)
      BY <1>1, <1>4, <2>3 DEF Given, Giving
    <3>2. /\ Len(Held(d)') = Len(Held(d)) + 1 /\ Len(Held(d)) \in Nat
          /\ \A n \in 1 .. Len(Held(d)) : Held(d)'[n] = Held(d)[n]
          /\ Held(d)'[Len(Held(d)) + 1] = <<idx[q][d], mem[q][d]>>
      <4> DEFINE T == Slots \X Buffers
                 f == filled[d]
                 w == queued[d]
                 x == <<idx[q][d], mem[q][d]>>
      <4>1. f \in Seq(T) /\ w \in Seq(T)
        BY <2>1 DEF Shapes
      <4>2. Held(d) = f \o w /\ Held(d)' = f \o Append(w, x)
        BY <1>3, <2>1, <2>3 DEF Held, Shapes
      <4> HIDE DEF T, f, w, x
      <4>3. /\ Len(f \o Append(w, x)) = Len(f \o w) + 1
            /\ \A n \in 1 .. Len(f \o w) : (f \o Append(w, x))[n] = (f \o w)[n]
            /\ (f \o Append(w, x))[Len(f \o w) + 1] = x
        BY <4>1, Enqueueing
      <4>4. Len(f \o w) \in Nat
        BY <4>1, ConcatProperties
      <4> QED
        BY <4>2, <4>3, <4>4 DEF x
    <3>3. Len(lent) = Taken(d) + (Len(Held(d)) + 1)
      BY <2>1, <3>1, <3>2 DEF LentInOrder
    <3>4. Len(lent') = Taken(d)' + Len(Held(d)') + Given(d)'
      BY <1>3, <2>1, <3>1, <3>2, <3>3
    <3>5. \A n \in 1 .. Len(Held(d)') : Held(d)'[n][2] = lent'[Taken(d)' + n]
      <4>1. Held(d)'[Len(Held(d)) + 1][2] = lent[Taken(d) + (Len(Held(d)) + 1)]
        BY <2>1, <3>1, <3>2, <3>3 DEF LentInOrder
      <4>2. \A n \in 1 .. Len(Held(d)') : n \in 1 .. Len(Held(d)) \/ n = Len(Held(d)) + 1
        BY <3>2
      <4> QED
        BY <1>3, <2>1, <3>2, <4>1, <4>2 DEF LentInOrder
    <3>6. \A p \in Queuers : ~Giving(p, d)'
      BY <1>4, <2>3, <2>1
    <3> QED
      BY <1>3, <2>1, <3>4, <3>5, <3>6 DEF LentInOrder
  <2> QED
    BY <2>2, <2>3
<1>6. LoanInv'
  <2>1. \A t \in Threads : pc'[t] = "idle" => mem'[t] = NoMemory
    BY <1>1, <1>3, <1>4 DEF LoanInv, Shapes
  <2> QED
    BY <1>4, <1>5, <2>1 DEF LoanInv
<1> QED
  BY <1>3, <1>6

\* A dequeue takes the buffer that was lent first.
LEMMA DQBufOrder ==
  ASSUME CaptureInv, LoanInv, OnePair, NEW t \in Dequeuers, DQBuf(t)
  PROVE  LoanInv' /\ UNCHANGED <<mine, lent>>
<1> DEFINE T == Slots \X Buffers
<1> USE VipAssumption DEF CaptureInv
<1>0. PICK e \in Devices : e = ClipperFirst(todo[t])
  BY DEF ClipperFirst, Devices
<1>1. /\ pc[t] = "dqbuf" /\ t \in Threads /\ t \notin Queuers
      /\ todo[t] \subseteq Used /\ Used \subseteq Devices
      /\ e \in todo[t] /\ e \in streaming
  <2>1. /\ pc[t] = "dqbuf" /\ t \in Threads /\ t \notin Queuers
        /\ todo[t] # {} /\ todo[t] \subseteq Used /\ Used \subseteq Devices
    BY DEF DQBuf, ControlInv, Threads, Used, DevicesOf
  <2>2. e \in todo[t]
    BY <1>0, <2>1, NextDevice
  <2>3. Used \subseteq streaming
    BY <2>1 DEF StreamInv
  <2> QED
    BY <2>1, <2>2, <2>3
<1>2. /\ filled[e] # <<>>
      /\ idx' = [idx EXCEPT ![t][e] = Head(filled[e])[1]]
      /\ filled' = [filled EXCEPT ![e] = Tail(@)]
      /\ todo' = [todo EXCEPT ![t] = IF @ = {e} THEN Used ELSE @ \ {e}]
      /\ pc' = [pc EXCEPT ![t] = IF todo[t] = {e} THEN "take" ELSE "dqbuf"]
      /\ UNCHANGED <<mode, pMgmtMem, queued, mem, mine, lent>>
  BY <1>0, <1>1 DEF DQBuf, handleVars, loanVars
<1>3. /\ Used' = Used
      /\ todo'[t] = IF todo[t] = {e} THEN Used ELSE todo[t] \ {e}
      /\ pc'[t] = IF todo[t] = {e} THEN "take" ELSE "dqbuf"
      /\ \A u \in Threads : u # t => todo'[u] = todo[u] /\ pc'[u] = pc[u] /\ idx'[u] = idx[u]
      /\ idx'[t][e] = Head(filled[e])[1]
      /\ \A d \in Devices : d # e => idx'[t][d] = idx[t][d] /\ Held(d)' = Held(d)
      /\ \A u \in Dequeuers : u = t
      /\ \A q \in Queuers : q \in Threads /\ q # t
  BY <1>1, <1>2 DEF Shapes, Used, Held, OnePair, Threads
<1>4. ASSUME NEW d \in Used PROVE LentInOrder(d)'
  <2>1. /\ \A q \in Queuers : Giving(q, d)' <=> Giving(q, d)
        /\ Given(d)' = Given(d) /\ Given(d) \in {0, 1} /\ d \in Devices /\ LentInOrder(d)
    <3>1. \A q \in Queuers : Giving(q, d)' <=> Giving(q, d)
      BY <1>3 DEF Giving
    <3> QED
      BY <1>1, <3>1 DEF Given, LoanInv
  <2>2. t \notin Uncounted(d) /\ t \notin Uncounted(d)'
    BY <1>1, <1>3 DEF Uncounted
  <2>3. CASE d # e
    <3>1. Passing(t, d)' <=> Passing(t, d)
      BY <1>1, <1>3, <2>3 DEF Passing
    <3>2. Passed(t, d)' = Passed(t, d)
      BY <1>2, <1>3, <2>1, <2>2, <2>3 DEF Passed
    <3> QED
      BY <1>2, <1>3, <2>1, <2>3, <3>1, <3>2, SameOrder
  <2>4. CASE d = e
    <3>1. ~Passing(t, d) /\ Passing(t, d)'
      BY <1>1, <1>3, <2>4 DEF Passing
    <3>2. Taken(d) = 0 /\ Taken(d)' = 1
      BY <1>3, <3>1 DEF Taken
    <3>3. /\ Len(Held(d)') = Len(Held(d)) - 1 /\ Len(Held(d)) > 0 /\ Len(Held(d)) \in Nat
          /\ \A n \in 1 .. Len(Held(d)') : Held(d)'[n] = Held(d)[n + 1]
          /\ Held(d)[1] = Head(filled[e])
      <4> DEFINE f == filled[e]
                 w == queued[e]
      <4>1. f \in Seq(T) /\ w \in Seq(T) /\ f # <<>>
        BY <1>2 DEF Shapes
      <4>2. Held(d) = f \o w /\ Held(d)' = Tail(f) \o w
        BY <1>2, <2>4 DEF Held, Shapes
      <4> HIDE DEF f, w, T
      <4>3. /\ Len(Tail(f) \o w) = Len(f \o w) - 1
            /\ \A n \in 1 .. Len(Tail(f) \o w) : (Tail(f) \o w)[n] = (f \o w)[n + 1]
            /\ (f \o w)[1] = Head(f)
            /\ Len(f \o w) > 0
        BY <4>1, Dequeueing
      <4>4. Len(f \o w) \in Nat
        BY <4>1, ConcatProperties
      <4> QED
        BY <4>2, <4>3, <4>4 DEF f
    <3>4. Passed(t, d)' = lent[1]
      <4>1. 1 \in 1 .. Len(Held(d))
        BY <3>3
      <4>2. Passed(t, d)' = pMgmtMem[d][Held(d)[1][1]]
        BY <1>2, <1>3, <2>2, <2>4, <3>3 DEF Passed
      <4>3. Held(d)[1][2] = lent[0 + 1]
        BY <2>1, <3>2, <4>1 DEF LentInOrder
      <4> QED
        BY <2>1, <4>1, <4>2, <4>3 DEF Matches
    <3>5. \A n \in 1 .. Len(Held(d)') : Held(d)'[n][2] = lent'[1 + n]
      <4> TAKE n \in 1 .. Len(Held(d)')
      <4>1. n + 1 \in 1 .. Len(Held(d)) /\ 0 + (n + 1) = 1 + n
        BY <3>3
      <4>2. Held(d)[n + 1][2] = lent[0 + (n + 1)]
        BY <2>1, <3>2, <4>1 DEF LentInOrder
      <4> QED
        BY <1>2, <3>3, <4>1, <4>2
    <3>6. Len(lent') = 1 + Len(Held(d)') + Given(d)'
      BY <1>2, <2>1, <3>2, <3>3 DEF LentInOrder
    <3>7. \A q \in Queuers : Giving(q, d)' => mem'[q][d] = lent'[Len(lent')]
      BY <1>2, <2>1 DEF LentInOrder
    <3> QED
      BY <1>2, <1>3, <3>2, <3>4, <3>5, <3>6, <3>7 DEF LentInOrder
  <2> QED
    BY <2>3, <2>4
<1>5. \A u \in Threads : pc'[u] = "idle" => mem'[u] = NoMemory
  BY <1>2, <1>3 DEF LoanInv
<1> QED
  BY <1>2, <1>3, <1>4, <1>5 DEF LoanInv

\* Emptying the slot keeps the buffer in the hands of the dequeue.
LEMMA TakeOrder ==
  ASSUME CaptureInv, LoanInv, OnePair, NEW t \in Dequeuers, Take(t)
  PROVE  LoanInv' /\ UNCHANGED <<mine, lent>>
<1> USE VipAssumption DEF CaptureInv
<1>0. PICK e \in Devices : e = ClipperFirst(todo[t])
  BY DEF ClipperFirst, Devices
<1>1. /\ pc[t] = "take" /\ t \in Threads /\ t \notin Queuers
      /\ todo[t] \subseteq Used /\ Used \subseteq Devices /\ e \in todo[t]
  <2>1. /\ pc[t] = "take" /\ t \in Threads /\ t \notin Queuers
        /\ todo[t] # {} /\ todo[t] \subseteq Used /\ Used \subseteq Devices
    BY DEF Take, ControlInv, Threads, Used, DevicesOf
  <2>2. e \in todo[t]
    BY <1>0, <2>1, NextDevice
  <2> QED
    BY <2>1, <2>2
<1>2. /\ mem' = [mem EXCEPT ![t][e] = pMgmtMem[e][idx[t][e]]]
      /\ pMgmtMem' = [pMgmtMem EXCEPT ![e][idx[t][e]] = NULL]
      /\ todo' = [todo EXCEPT ![t] = @ \ {e}]
      /\ pc' = [pc EXCEPT ![t] = IF todo[t] = {e} THEN "return" ELSE "take"]
      /\ UNCHANGED <<mode, queued, filled, idx, mine, lent>>
  BY <1>0 DEF Take, TakenIndex, deviceVars, loanVars
<1>3. /\ Used' = Used /\ \A d \in Devices : Held(d)' = Held(d)
      /\ \A d \in Devices : d # e => pMgmtMem'[d] = pMgmtMem[d] /\ mem'[t][d] = mem[t][d]
      /\ mem'[t][e] = pMgmtMem[e][idx[t][e]]
      /\ todo'[t] = todo[t] \ {e}
      /\ pc'[t] = IF todo[t] = {e} THEN "return" ELSE "take"
      /\ \A u \in Threads : u # t => todo'[u] = todo[u] /\ pc'[u] = pc[u] /\ mem'[u] = mem[u]
      /\ \A u \in Dequeuers : u = t
      /\ \A q \in Queuers : q \in Threads /\ q # t
  BY <1>1, <1>2 DEF Shapes, Used, Held, OnePair, Threads
<1>4. ASSUME NEW d \in Used PROVE LentInOrder(d)'
  <2>1. d \in Devices /\ LentInOrder(d)
    BY <1>1 DEF LoanInv
  <2>2. Passing(t, d) /\ Passing(t, d)'
    BY <1>1, <1>3 DEF Passing
  <2>3. \A q \in Queuers : (Giving(q, d)' <=> Giving(q, d)) /\ mem'[q][d] = mem[q][d]
    BY <1>3 DEF Giving
  <2>4. Passed(t, d)' = Passed(t, d)
    <3>1. CASE d # e
      <4>1. t \in Uncounted(d)' <=> t \in Uncounted(d)
        BY <1>1, <1>3, <3>1 DEF Uncounted
      <4> QED
        BY <1>2, <1>3, <2>1, <3>1, <4>1 DEF Passed
    <3>2. CASE d = e
      <4>1. t \in Uncounted(d)' /\ t \notin Uncounted(d)
        BY <1>1, <1>3, <3>2 DEF Uncounted
      <4> QED
        BY <1>3, <3>2, <4>1 DEF Passed
    <3> QED
      BY <3>1, <3>2
  <2> QED
    BY <1>2, <1>3, <2>1, <2>2, <2>3, <2>4, SameOrder
<1>5. \A u \in Threads : pc'[u] = "idle" => mem'[u] = NoMemory
  BY <1>3 DEF LoanInv
<1> QED
  BY <1>2, <1>3, <1>4, <1>5 DEF LoanInv

\* What comes back is the buffer that was lent first.
LEMMA ReturnOrder ==
  ASSUME CaptureInv, LoanInv, OnePair, NEW t \in Dequeuers, ReturnToCaller(t)
  PROVE  LoanInv' /\ Loan!GiveBack
<1> USE VipAssumption DEF CaptureInv
<1>1. /\ pc[t] = "return" /\ t \in Threads /\ t \notin Queuers
      /\ pc' = [pc EXCEPT ![t] = "idle"]
      /\ mem' = [mem EXCEPT ![t] = NoMemory]
      /\ mine' = mine \cup {b \in Buffers : \A d \in Used : mem[t][d] = b}
      /\ lent' = IF lent = <<>> THEN lent ELSE Tail(lent)
      /\ UNCHANGED <<mode, pMgmtMem, queued, filled, todo>>
  BY DEF ReturnToCaller, Forget, deviceVars, Threads
<1>2. /\ Used' = Used /\ \A d \in Devices : Held(d)' = Held(d)
      /\ \A u \in Threads : u # t => pc'[u] = pc[u] /\ mem'[u] = mem[u]
      /\ pc'[t] = "idle" /\ mem'[t] = NoMemory
      /\ \A u \in Dequeuers : u = t
      /\ \A q \in Queuers : q \in Threads /\ q # t
  BY <1>1 DEF Shapes, Used, Held, OnePair, Threads
<1>3. ASSUME NEW d \in Used
      PROVE  /\ Taken(d) = 1 /\ Len(Held(d)) \in Nat /\ Given(d) \in {0, 1}
             /\ Len(lent) = 1 + Len(Held(d)) + Given(d)
             /\ mem[t][d] = lent[1] /\ LentInOrder(d)
  <2>1. LentInOrder(d) /\ Passing(t, d) /\ t \in Uncounted(d)
    BY <1>1 DEF LoanInv, Passing, Uncounted
  <2>2. Taken(d) = 1
    BY <2>1 DEF Taken
  <2>3. Passed(t, d) = mem[t][d]
    BY <2>1 DEF Passed
  <2> QED
    BY <2>1, <2>2, <2>3, Lengths DEF LentInOrder, Given
<1>4. /\ lent \in Seq(Buffers) /\ Len(lent) > 0 /\ Len(lent) \in Nat /\ lent # <<>>
      /\ Head(lent) = lent[1] /\ lent[1] \in Buffers
      /\ lent' = Tail(lent) /\ Len(lent') = Len(lent) - 1
      /\ \A n \in 1 .. Len(lent') : lent'[n] = lent[n + 1]
  <2>1. PICK d : d \in Used
    BY Lengths
  <2>2. Len(lent) > 0 /\ Len(lent) \in Nat /\ lent \in Seq(Buffers)
    BY <1>3, <2>1, Lengths
  <2>3. lent # <<>>
    BY <2>2
  <2> QED
    BY <1>1, <2>2, <2>3, HeadTailProperties
<1>5. Loan!GiveBack
  <2>1. {b \in Buffers : \A d \in Used : mem[t][d] = b} = {Head(lent)}
    BY <1>3, <1>4, Lengths
  <2> QED
    BY <1>1, <1>4, <2>1 DEF Loan!GiveBack
<1>6. ASSUME NEW d \in Used PROVE LentInOrder(d)'
  <2>1. Taken(d)' = 0
    BY <1>2 DEF Taken, Passing
  <2>2. Given(d)' = Given(d) /\ \A q \in Queuers : Giving(q, d)' <=> Giving(q, d)
    BY <1>1, <1>2 DEF Given, Giving
  <2>3. Held(d)' = Held(d)
    BY <1>2, Lengths
  <2>4. Len(lent') = Taken(d)' + Len(Held(d)') + Given(d)'
    BY <1>3, <1>4, <2>1, <2>2, <2>3
  <2>5. \A n \in 1 .. Len(Held(d)) : Held(d)[n][2] = lent'[0 + n]
    <3> TAKE n \in 1 .. Len(Held(d))
    <3>1. n \in 1 .. Len(lent') /\ 1 + n = n + 1 /\ 0 + n = n
      BY <1>3, <1>4
    <3>2. Held(d)[n][2] = lent[1 + n]
      BY <1>3 DEF LentInOrder
    <3> QED
      BY <1>4, <3>1, <3>2
  <2>6. \A q \in Queuers : Giving(q, d)' => mem'[q][d] = lent'[Len(lent')]
    <3> SUFFICES ASSUME NEW q \in Queuers, Giving(q, d)'
                 PROVE  mem'[q][d] = lent'[Len(lent')]
      OBVIOUS
    <3>1. Giving(q, d) /\ Given(d) = 1
      BY <2>2 DEF Given
    <3>2. mem'[q][d] = lent[Len(lent)]
      <4>1. LentInOrder(d) /\ mem'[q] = mem[q]
        BY <1>2, <1>3
      <4> QED
        BY <3>1, <4>1 DEF LentInOrder
    <3>3. Len(lent') \in 1 .. Len(lent') /\ Len(lent') + 1 = Len(lent)
      BY <1>3, <1>4, <3>1
    <3> QED
      BY <1>4, <3>2, <3>3
  <2>7. \A u \in Dequeuers : ~Passing(u, d)'
    BY <1>2 DEF Passing
  <2> QED
    BY <2>1, <2>3, <2>4, <2>5, <2>6, <2>7 DEF LentInOrder
<1>7. \A u \in Threads : pc'[u] = "idle" => mem'[u] = NoMemory
  BY <1>2 DEF LoanInv
<1> QED
  BY <1>2, <1>5, <1>6, <1>7 DEF LoanInv

\* The steps that move no buffer, or all of them.
LEMMA OtherOrder ==
  ASSUME CaptureInv, LoanInv, OnePair,
         \/ \E q \in Queuers : TestStream(q) \/ StreamOn(q)
         \/ \E t \in Dequeuers : CheckQueued(t)
         \/ \E d \in Devices : FillFrame(d)
         \/ UNCHANGED vars
  PROVE  LoanInv' /\ UNCHANGED <<mine, lent>>
<1> USE VipAssumption DEF CaptureInv
<1>1. /\ UNCHANGED <<mode, pMgmtMem, mine, lent>> /\ Used' = Used
  BY DEF TestStream, StreamOn, CheckQueued, FillFrame, vars, handleVars, loanVars, Used
<1>2. \A d \in Devices : Held(d)' = Held(d)
  <2>1. CASE \E e \in Devices : FillFrame(e)
    <3>1. PICK e \in Devices : FillFrame(e)
      BY <2>1
    <3> DEFINE T == Slots \X Buffers
               w == queued[e]
               f == filled[e]
    <3>2. f \in Seq(T) /\ w \in Seq(T) /\ w # <<>>
      BY <3>1 DEF Shapes, FillFrame
    <3>3. /\ queued' = [queued EXCEPT ![e] = Tail(w)]
          /\ filled' = [filled EXCEPT ![e] = Append(f, Head(w))]
      BY <3>1 DEF FillFrame
    <3> HIDE DEF T
    <3>4. Append(f, Head(w)) \o Tail(w) = f \o w
      BY <3>2, Filling
    <3> QED
      BY <3>3, <3>4 DEF Held, Shapes
  <2>2. CASE ~\E e \in Devices : FillFrame(e)
    BY <2>2 DEF TestStream, StreamOn, CheckQueued, vars, deviceVars, Held
  <2> QED
    BY <2>1, <2>2
<1>3. /\ \A q \in Queuers, d \in Used :
           (Giving(q, d)' <=> Giving(q, d)) /\ (Giving(q, d) => mem'[q][d] = mem[q][d])
      /\ \A t \in Dequeuers, d \in Used :
           /\ Passing(t, d)' <=> Passing(t, d)
           /\ Passing(t, d) => Passed(t, d)' = Passed(t, d)
      /\ \A u \in Threads : pc'[u] = "idle" => mem'[u] = NoMemory
  <2>1. CASE \E q \in Queuers : TestStream(q) \/ StreamOn(q)
    <3>1. PICK q \in Queuers : TestStream(q) \/ StreamOn(q)
      BY <2>1
    <3>2. /\ pc[q] \in {"stream", "streamon"} /\ pc'[q] \in {"idle", "streamon"}
          /\ q \in Threads /\ q \notin Dequeuers
          /\ pc'[q] = "idle" => mem'[q] = NoMemory
      BY <3>1 DEF TestStream, StreamOn, Forget, Shapes, Threads
    <3>3. \A u \in Threads : u # q => pc'[u] = pc[u] /\ todo'[u] = todo[u]
                                      /\ idx'[u] = idx[u] /\ mem'[u] = mem[u]
      BY <3>1 DEF TestStream, StreamOn, Forget, Shapes
    <3>4. \A t \in Dequeuers, d \in Used : t \in Uncounted(d)' <=> t \in Uncounted(d)
      BY <3>2, <3>3 DEF Uncounted, Threads
    <3>5. \A p \in Queuers : p # q => p \in Threads
      BY DEF Threads
    <3>6. \A t \in Dequeuers : t \in Threads /\ t # q
      BY <3>2 DEF Threads
    <3> QED
      BY <1>1, <3>2, <3>3, <3>4, <3>5, <3>6 DEF Giving, Passing, Passed, LoanInv
  <2>2. CASE \E t \in Dequeuers : CheckQueued(t)
    <3>1. PICK t \in Dequeuers : CheckQueued(t)
      BY <2>2
    <3>2. /\ t \in Threads /\ t \notin Queuers /\ pc[t] = "idle"
          /\ pc'[t] = "dqbuf" /\ todo'[t] = Used /\ idx' = idx /\ mem' = mem
          /\ \A u \in Threads : u # t => pc'[u] = pc[u] /\ todo'[u] = todo[u]
      BY <3>1 DEF CheckQueued, Shapes, Threads
    <3>3. \A u \in Dequeuers, d \in Used :
            (u \in Uncounted(d)' <=> u \in Uncounted(d)) /\ (Passing(u, d)' <=> Passing(u, d))
      BY <3>2 DEF Uncounted, Passing, Threads
    <3>4. \A q \in Queuers : q \in Threads /\ q # t
      BY <3>2 DEF Threads
    <3> QED
      BY <1>1, <3>2, <3>3, <3>4 DEF Giving, Passed, LoanInv
  <2>3. CASE (\E d \in Devices : FillFrame(d)) \/ UNCHANGED vars
    <3>1. UNCHANGED <<pc, todo, idx, mem>>
      BY <2>3 DEF FillFrame, vars, threadVars
    <3> QED
      BY <1>1, <3>1 DEF Giving, Passing, Passed, Uncounted, LoanInv
  <2> QED
    BY <2>1, <2>2, <2>3
<1>4. \A d \in Used : LentInOrder(d)'
  BY <1>1, <1>2, <1>3, SameOrder, Lengths DEF LoanInv
<1> QED
  BY <1>1, <1>3, <1>4 DEF LoanInv

\* Between calls nothing is on its way, and a new configuration returns all.
LEMMA ConfigOrder ==
  ASSUME CaptureInv, LoanInv, OnePair, ChangeConfig \/ CloseAndInit
  PROVE  LoanInv' /\ Loan!Withdraw
<1> USE VipAssumption DEF CaptureInv
<1>1. /\ \A t \in Threads : pc[t] = "idle" /\ mem[t] = NoMemory
      /\ queued' = NoFrames /\ filled' = NoFrames /\ lent' = <<>>
      /\ UNCHANGED <<pc, todo, idx, mem>>
  <2>1. CASE ChangeConfig
    BY <2>1 DEF ChangeConfig, OnePair, OneQueuer, StreamInv, Shapes, threadVars, LoanInv
  <2>2. CASE CloseAndInit
    BY <2>2 DEF CloseAndInit, threadVars, LoanInv
  <2> QED
    BY <2>1, <2>2
<1>2. mine' = Buffers
  <2>1. Carried = {}
    BY <1>1 DEF Carried, NoMemory
  <2> QED
    BY <2>1 DEF ChangeConfig, CloseAndInit
<1>3. ASSUME NEW d \in Devices PROVE LentInOrder(d)'
  <2>1. Held(d)' = <<>> \o <<>>
    BY <1>1 DEF Held, NoFrames
  <2>2. Len(Held(d)') = 0 /\ Len(lent') = 0
    BY <1>1, <2>1
  <2>3. (\A t \in Dequeuers : ~Passing(t, d)') /\ (\A q \in Queuers : ~Giving(q, d)')
    BY <1>1 DEF Passing, Giving, Threads
  <2>4. Taken(d)' = 0 /\ Given(d)' = 0
    BY <2>3 DEF Taken, Given
  <2> QED
    BY <2>2, <2>3, <2>4 DEF LentInOrder
<1>4. LoanInv'
  BY <1>1, <1>3 DEF LoanInv, Used, DevicesOf
<1> QED
  BY <1>1, <1>2, <1>4 DEF Loan!Withdraw

\* Every step lends, gives back, withdraws or moves nothing.
LEMMA LoanStep ==
  ASSUME OnePair, CaptureInv, LoanInv, [Next]_vars
  PROVE  LoanInv' /\ [Loan!LoanNext]_<<mine, lent>>
<1> DEFINE Moves == (\E b \in Buffers : Loan!Lend(b)) \/ Loan!GiveBack \/ Loan!Withdraw
           Goal == LoanInv' /\ (Moves \/ UNCHANGED <<mine, lent>>)
<1>1. ASSUME NEW q \in Queuers, QueuerStep(q) \/ \E b \in Buffers : QueueBuffer(q, b)
      PROVE  Goal
  BY <1>1, QBufOrder, OtherOrder, LendOrder DEF QueuerStep
<1>2. ASSUME NEW t \in Dequeuers, DequeuerStep(t) \/ CheckQueued(t)
      PROVE  Goal
  BY <1>2, DQBufOrder, TakeOrder, ReturnOrder, OtherOrder DEF DequeuerStep
<1>3. ASSUME ChangeConfig \/ CloseAndInit PROVE Goal
  BY <1>3, ConfigOrder
<1>4. ASSUME (\E d \in Devices : FillFrame(d)) \/ UNCHANGED vars PROVE Goal
  BY <1>4, OtherOrder
<1>5. Goal
  BY <1>1, <1>2, <1>3, <1>4 DEF Next
<1> QED
  BY <1>5 DEF Loan!LoanNext

\* With one thread queueing and one dequeueing, buffers come back in the order
\* they were lent, each once, and the two memories of a pair together.
THEOREM ImplementsLoan ==
  ASSUME OnePair
  PROVE  Spec => LoanSpec
<1>1. OneQueuer
  BY DEF OnePair
<1>2. Init => LoanInv /\ Loan!LoanInit
  <2> SUFFICES ASSUME Init PROVE LoanInv /\ Loan!LoanInit
    OBVIOUS
  <2>1. ASSUME NEW d \in Used PROVE LentInOrder(d)
    <3>1. d \in Devices
      BY DEF Used, DevicesOf
    <3>2. Held(d) = <<>> \o <<>>
      BY <3>1 DEF Init, Held, NoFrames
    <3>3. Len(Held(d)) = 0 /\ Len(lent) = 0
      BY <3>2 DEF Init
    <3>4. (\A t \in Dequeuers : ~Passing(t, d)) /\ (\A q \in Queuers : ~Giving(q, d))
      BY DEF Init, Passing, Giving, Threads
    <3>5. Taken(d) = 0 /\ Given(d) = 0
      BY <3>4 DEF Taken, Given
    <3> QED
      BY <3>3, <3>4, <3>5 DEF LentInOrder
  <2> QED
    BY <2>1 DEF Init, LoanInv, Loan!LoanInit
<1>3. CaptureInv /\ LoanInv /\ [Next]_vars => LoanInv' /\ [Loan!LoanNext]_<<mine, lent>>
  BY LoanStep
<1>4. Spec => []CaptureInv
  BY <1>1, Invariant
<1> QED
  BY <1>2, <1>3, <1>4, PTL DEF Spec, LoanSpec, Loan!LoanSpec
=============================================================================
