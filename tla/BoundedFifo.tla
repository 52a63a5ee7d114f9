------------------------------ MODULE BoundedFifo ------------------------------
(***************************************************************************)
(* What NX_Queue promises its users: a first-in first-out queue of at most  *)
(* MaxElement elements whose push refuses when it is full and whose pop     *)
(* refuses when it is empty.                                                *)
(***************************************************************************)
EXTENDS Integers, Sequences

CONSTANTS Elements, MaxElement

VARIABLES
  fifo,     \* the elements, oldest first
  out       \* what the last call returned

Call(op, ret, element) == [op |-> op, ret |-> ret, element |-> element]

FifoInit == fifo = <<>> /\ out = Call("init", 0, {})

Put(e) ==
  \/ /\ Len(fifo) < MaxElement
     /\ fifo' = Append(fifo, e)
     /\ out' = Call("push", 0, e)
  \/ /\ Len(fifo) = MaxElement
     /\ fifo' = fifo
     /\ out' = Call("push", -1, e)

Get ==
  \/ /\ fifo # <<>>
     /\ fifo' = Tail(fifo)
     /\ out' = Call("pop", 0, Head(fifo))
  \/ /\ fifo = <<>>
     /\ fifo' = fifo
     /\ out' = Call("pop", -1, {})

FifoNext == (\E e \in Elements : Put(e)) \/ Get

FifoSpec == FifoInit /\ [][FifoNext]_<<fifo, out>>
=============================================================================
