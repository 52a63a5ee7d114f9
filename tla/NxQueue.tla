-------------------------------- MODULE NxQueue --------------------------------
(***************************************************************************)
(* NX_Queue of libnxgraphictools: the ring of pointers in which commands    *)
(* travel to the service thread.  Push and pop run under hMutex, so each is *)
(* one action, of whichever thread calls it.                                *)
(***************************************************************************)
EXTENDS Integers, Sequences

CONSTANTS
  Elements,     \* the pointers that are pushed
  MaxElement,   \* maxElement, the argument of NX_QueueInit
  ArraySize     \* NX_MAX_QUEUE_ELEMENT, the size of pElements

\* NX_QueueInit refuses a larger queue.
ASSUME QueueAssumption ==
  /\ ArraySize \in Nat
  /\ MaxElement \in Nat
  /\ MaxElement <= ArraySize

Cells == 0 .. ArraySize - 1
Null == {}                \* the NULL of an empty cell, no element

VARIABLES
  head, tail, curElement, pElements,
  out                     \* what the last call returned

vars == <<head, tail, curElement, pElements, out>>

Call(op, ret, element) == [op |-> op, ret |-> ret, element |-> element]

TypeOK ==
  /\ head \in Nat
  /\ tail \in Nat
  /\ curElement \in 0 .. MaxElement
  /\ pElements \in [Cells -> Elements \cup {Null}]

Init ==
  /\ head = 0
  /\ tail = 0
  /\ curElement = 0
  /\ pElements = [i \in Cells |-> Null]
  /\ out = Call("init", 0, Null)

FullBug == curElement > MaxElement
Full == curElement >= MaxElement

AdvanceBug(i) == (i + 1) % ArraySize
Advance(i) == (i + 1) % MaxElement

\* NX_QueuePush
Push(e) ==
  IF Full
    THEN /\ out' = Call("push", -1, e)
         /\ UNCHANGED <<head, tail, curElement, pElements>>
    ELSE /\ pElements' = [pElements EXCEPT ![tail] = e]
         /\ tail' = Advance(tail)
         /\ curElement' = curElement + 1
         /\ out' = Call("push", 0, e)
         /\ UNCHANGED head

PoppedBug == tail
Popped == head

\* NX_QueuePop
Pop ==
  IF curElement = 0
    THEN /\ out' = Call("pop", -1, Null)
         /\ UNCHANGED <<head, tail, curElement, pElements>>
    ELSE /\ out' = Call("pop", 0, pElements[Popped])
         /\ head' = Advance(head)
         /\ curElement' = curElement - 1
         /\ UNCHANGED <<tail, pElements>>

Next == (\E e \in Elements : Push(e)) \/ Pop

Spec == Init /\ [][Next]_vars

-----------------------------------------------------------------------------
(* Properties *)

\* The queue as its users see it: curElement cells from head on, around the end.
Contents == [i \in 1 .. curElement |-> pElements[(head + i - 1) % MaxElement]]

\* The three counters agree: tail is curElement cells after head, both inside
\* the part of the array the queue may use, so no element is ever overwritten
\* before it is popped.
RingOK ==
  /\ TypeOK
  /\ MaxElement > 0 => head < MaxElement /\ tail = (head + curElement) % MaxElement

\* The ring behaves like a bounded first-in first-out queue.
Fifo == INSTANCE BoundedFifo WITH fifo <- Contents
FifoSpec == Fifo!FifoSpec
=============================================================================
