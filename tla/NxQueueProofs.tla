----------------------------- MODULE NxQueueProofs -----------------------------
(***************************************************************************)
(* NX_Queue keeps its ring consistent and behaves like a bounded first-in   *)
(* first-out queue, for every size, the empty one included.                 *)
(***************************************************************************)
EXTENDS NxQueue, NumberFacts, SequenceTheorems, TLAPS

-----------------------------------------------------------------------------
(* Arithmetic of the ring *)

\* Advancing the index of a cell is going one place on.
LEMMA AdvanceCell ==
  ASSUME NEW M \in Nat, NEW h \in 0 .. M - 1, NEW n \in 0 .. M - 1
  PROVE  /\ (((h + n) % M) + 1) % M = (h + (n + 1)) % M
         /\ (((h + 1) % M) + n) % M = (h + (n + 1)) % M
<1>1. CASE h + n + 1 < M
  <2>1. (h + n) % M = h + n /\ (h + 1) % M = h + 1
    BY <1>1, ModBelow
  <2> QED
    BY <1>1, <2>1
<1>2. CASE h + n + 1 >= M /\ h + n < M
  <2>1. (h + n) % M = h + n
    BY <1>2, ModBelow
  <2>2. CASE h + 1 = M
    BY <1>2, <2>1, <2>2, ModRound
  <2>3. CASE h + 1 < M
    BY <1>2, <2>1, <2>3, ModBelow
  <2> QED
    BY <2>2, <2>3
<1>3. CASE h + n >= M
  <2>1. (h + n) % M = h + n - M /\ (h + (n + 1)) % M = h + (n + 1) - M
    BY <1>3
  <2>2. (h + n - M + 1) % M = h + n - M + 1
    BY <1>3, ModBelow
  <2>3. CASE h + 1 = M
    <3>1. (h + 1) % M = 0 /\ n % M = n
      BY <2>3, ModRound, ModBelow
    <3> QED
      BY <2>1, <2>2, <2>3, <3>1
  <2>4. CASE h + 1 < M
    <3>1. (h + 1) % M = h + 1
      BY <2>4, ModBelow
    <3> QED
      BY <2>1, <2>2, <2>4, <3>1
  <2> QED
    BY <2>3, <2>4
<1> QED
  BY <1>1, <1>2, <1>3

\* Two places of the ring less than a round apart are different cells.
LEMMA DistinctCells ==
  ASSUME NEW M \in Nat, NEW h \in 0 .. M - 1, NEW n \in 0 .. M - 1,
         NEW k \in 0 .. n, k # n
  PROVE  (h + k) % M # (h + n) % M
<1>1. CASE h + n < M
  <2>1. (h + k) % M = h + k /\ (h + n) % M = h + n
    BY <1>1, ModBelow
  <2> QED
    BY <2>1
<1>2. CASE h + n >= M /\ h + k < M
  <2>1. (h + k) % M = h + k
    BY <1>2, ModBelow
  <2>2. (h + n) % M = h + n - M
    BY <1>2
  <2> QED
    BY <2>1, <2>2
<1>3. CASE h + k >= M
  <2>1. (h + k) % M = h + k - M /\ (h + n) % M = h + n - M
    BY <1>3
  <2> QED
    BY <2>1
<1> QED
  BY <1>1, <1>2, <1>3

-----------------------------------------------------------------------------
(* The ring is consistent *)

\* The first state has a consistent ring.
LEMMA RingInit == Init => RingOK
BY QueueAssumption, ModBelow DEF Init, RingOK, TypeOK, Cells, Null

\* Both operations keep the ring consistent.
LEMMA RingStep == RingOK /\ [Next]_vars => RingOK'
<1> SUFFICES ASSUME RingOK, [Next]_vars
             PROVE  RingOK'
  OBVIOUS
<1> USE QueueAssumption DEF RingOK, TypeOK, Cells
<1>1. ASSUME NEW e \in Elements, Push(e), ~Full
      PROVE  RingOK'
  <2>1. /\ MaxElement > 0 /\ head \in 0 .. MaxElement - 1
        /\ curElement \in 0 .. MaxElement - 1
    BY <1>1 DEF Full
  <2>2. tail \in 0 .. MaxElement - 1
    BY <2>1, CellAfter
  <2>3. tail' = (head' + curElement') % MaxElement
    BY <1>1, <2>1, AdvanceCell DEF Push, Advance
  <2>4. tail' \in Nat
    BY <2>1, <2>3, <1>1, CellAfter DEF Push
  <2>5. pElements' \in [Cells -> Elements \cup {Null}]
    BY <1>1, <2>2 DEF Push
  <2> QED
    BY <1>1, <2>1, <2>3, <2>4, <2>5 DEF Push
<1>2. CASE Pop /\ curElement # 0
  <2>1. MaxElement > 0 /\ head \in 0 .. MaxElement - 1 /\ curElement - 1 \in 0 .. MaxElement - 1
    BY <1>2
  <2>2. head' \in 0 .. MaxElement - 1
    BY <1>2, <2>1, CellAfter DEF Pop, Advance
  <2>3. tail = (head' + (curElement - 1)) % MaxElement
    BY <1>2, <2>1, AdvanceCell DEF Pop, Advance
  <2> QED
    BY <1>2, <2>1, <2>2, <2>3 DEF Pop
<1>3. CASE (\E e \in Elements : Push(e) /\ Full) \/ (Pop /\ curElement = 0)
  BY <1>3 DEF Push, Pop
<1>4. CASE UNCHANGED vars
  BY <1>4 DEF vars
<1> QED
  BY <1>1, <1>2, <1>3, <1>4 DEF Next

\* The ring stays consistent: head, tail and curElement agree and no element
\* that was not popped is overwritten.
THEOREM RingConsistent == Spec => []RingOK
BY RingInit, RingStep, PTL DEF Spec

-----------------------------------------------------------------------------
(* The ring is a bounded queue *)

\* What is in the ring is a sequence of curElement elements.
LEMMA ContentsType ==
  ASSUME RingOK
  PROVE  /\ Contents \in Seq(Elements \cup {Null})
         /\ Len(Contents) = curElement
         /\ MaxElement > 0 => pElements[head] = Contents[1] \/ curElement = 0
<1> USE QueueAssumption DEF RingOK, TypeOK, Cells, Contents
<1>1. ASSUME NEW i \in 1 .. curElement
      PROVE  (head + i - 1) % MaxElement \in Cells
  <2>1. head \in 0 .. MaxElement - 1 /\ i - 1 \in 0 .. MaxElement
    OBVIOUS
  <2>2. (head + (i - 1)) % MaxElement \in 0 .. MaxElement - 1
    BY <2>1, CellAfter
  <2> QED
    BY <2>2
<1>2. \A i \in 1 .. curElement : Contents[i] \in Elements \cup {Null}
  BY <1>1
<1>3. Contents \in Seq(Elements \cup {Null}) /\ Len(Contents) = curElement
  BY <1>2
<1>4. MaxElement > 0 => head % MaxElement = head
  BY ModBelow
<1> QED
  BY <1>3, <1>4

\* A push that is not refused appends to the queue.
LEMMA PushAppends ==
  ASSUME RingOK, NEW e \in Elements, Push(e), ~Full
  PROVE  Contents' = Append(Contents, e)
<1> USE QueueAssumption DEF RingOK, TypeOK, Cells
<1>1. MaxElement > 0 /\ head \in 0 .. MaxElement - 1 /\ curElement \in 0 .. MaxElement - 1
  BY DEF Full
<1>2. tail \in Cells
  BY <1>1, CellAfter
<1>3. Contents' = [i \in 1 .. curElement + 1 |-> pElements'[(head + i - 1) % MaxElement]]
  BY DEF Push, Contents
<1>4. ASSUME NEW i \in 1 .. curElement + 1
      PROVE  pElements'[(head + i - 1) % MaxElement] = Append(Contents, e)[i]
  <2>1. CASE i = curElement + 1
    BY <2>1, <1>1, <1>2, ContentsType DEF Push
  <2>2. CASE i # curElement + 1
    <3>1. (head + (i - 1)) % MaxElement # tail
      BY <2>2, <1>1, DistinctCells
    <3>2. (head + (i - 1)) % MaxElement \in Cells
      BY <2>2, <1>1, CellAfter
    <3>3. pElements'[(head + i - 1) % MaxElement] = Contents[i]
      BY <3>1, <3>2, <2>2 DEF Push, Contents
    <3> QED
      BY <3>3, <2>2, ContentsType
  <2> QED
    BY <2>1, <2>2
<1>5. Append(Contents, e) \in Seq(Elements \cup {Null}) /\ Len(Append(Contents, e)) = curElement + 1
  BY ContentsType
<1>6. Append(Contents, e) = [i \in 1 .. curElement + 1 |-> Append(Contents, e)[i]]
  BY <1>5, LenProperties
<1> QED
  BY <1>3, <1>4, <1>6

\* A pop that is not refused removes the oldest element and returns it.
LEMMA PopRemovesHead ==
  ASSUME RingOK, Pop, curElement # 0
  PROVE  /\ Contents # <<>>
         /\ Contents' = Tail(Contents)
         /\ pElements[head] = Head(Contents)
<1> USE QueueAssumption DEF RingOK, TypeOK, Cells
<1>1. MaxElement > 0 /\ head \in 0 .. MaxElement - 1
  OBVIOUS
<1>2. Contents' = [i \in 1 .. curElement - 1 |-> pElements[(head' + i - 1) % MaxElement]]
  BY DEF Pop, Contents
<1>3. ASSUME NEW i \in 1 .. curElement - 1
      PROVE  pElements[(head' + i - 1) % MaxElement] = Contents[i + 1]
  <2>1. i - 1 \in 0 .. MaxElement - 1
    OBVIOUS
  <2>2. (((head + 1) % MaxElement) + (i - 1)) % MaxElement = (head + ((i - 1) + 1)) % MaxElement
    BY <1>1, <2>1, AdvanceCell
  <2>3. head' = (head + 1) % MaxElement /\ head' \in 0 .. MaxElement - 1
    BY <1>1, CellAfter DEF Pop, Advance
  <2>4. Contents[i + 1] = pElements[(head + (i + 1) - 1) % MaxElement]
    BY DEF Contents
  <2> QED
    BY <2>2, <2>3, <2>4
<1>4. Contents # <<>> /\ Head(Contents) = Contents[1]
  BY ContentsType
<1>6. /\ Tail(Contents) \in Seq(Elements \cup {Null})
      /\ Len(Tail(Contents)) = curElement - 1
      /\ \A i \in 1 .. curElement - 1 : Tail(Contents)[i] = Contents[i + 1]
  BY ContentsType, <1>4, HeadTailProperties
<1>5. Tail(Contents) = [i \in 1 .. curElement - 1 |-> Contents[i + 1]]
  BY <1>6, LenProperties
<1> QED
  BY <1>1, <1>2, <1>3, <1>4, <1>5, ContentsType

\* Whatever sequence of calls its users make, NX_Queue is a first-in first-out
\* queue of at most maxElement elements.
THEOREM ImplementsFifo == Spec => FifoSpec
<1>1. Init => Fifo!FifoInit
  BY DEF Init, Fifo!FifoInit, Contents, Call, Fifo!Call, Null
<1>2. RingOK /\ [Next]_vars => [Fifo!FifoNext]_<<Contents, out>>
  <2> SUFFICES ASSUME RingOK, [Next]_vars
               PROVE  [Fifo!FifoNext]_<<Contents, out>>
    OBVIOUS
  <2>1. ASSUME NEW e \in Elements, Push(e), ~Full
        PROVE  Fifo!Put(e)
    BY <2>1, PushAppends, ContentsType, QueueAssumption
       DEF Fifo!Put, Push, Full, Call, Fifo!Call, RingOK, TypeOK
  <2>2. ASSUME NEW e \in Elements, Push(e), Full
        PROVE  Fifo!Put(e)
    BY <2>2, ContentsType, QueueAssumption
       DEF Fifo!Put, Push, Full, Call, Fifo!Call, RingOK, TypeOK, Contents
  <2>3. CASE Pop /\ curElement # 0
    <3>1. out' = Call("pop", 0, pElements[head])
      BY <2>3 DEF Pop, Popped
    <3>2. Contents # <<>> /\ Contents' = Tail(Contents) /\ pElements[head] = Head(Contents)
      BY <2>3, PopRemovesHead
    <3> QED
      BY <3>1, <3>2 DEF Fifo!FifoNext, Fifo!Get, Call, Fifo!Call
  <2>4. CASE Pop /\ curElement = 0
    <3>1. out' = Call("pop", -1, Null) /\ Contents' = Contents
      BY <2>4 DEF Pop, Contents
    <3>2. Contents = <<>>
      BY <2>4 DEF Contents
    <3> QED
      BY <3>1, <3>2 DEF Fifo!FifoNext, Fifo!Get, Call, Fifo!Call, Null
  <2>5. CASE UNCHANGED vars
    BY <2>5 DEF vars, Contents
  <2> QED
    BY <2>1, <2>2, <2>3, <2>4, <2>5 DEF Next, Fifo!FifoNext
<1> QED
  BY <1>1, <1>2, RingConsistent, PTL DEF Spec, FifoSpec, Fifo!FifoSpec
=============================================================================
