------------------------------- MODULE BufferLoan -------------------------------
(***************************************************************************)
(* What the capture library promises an application: it lends buffers to    *)
(* the camera and gets them back filled, first lent first returned, until   *)
(* a new configuration returns all of them at once.                         *)
(***************************************************************************)
EXTENDS Sequences

CONSTANT Buffers

VARIABLES
  mine,    \* buffers the application may touch
  lent     \* buffers the camera has, in the order they were lent

LoanInit == mine = Buffers /\ lent = <<>>

Lend(b) ==
  /\ b \in mine
  /\ mine' = mine \ {b}
  /\ lent' = Append(lent, b)

GiveBack ==
  /\ lent # <<>>
  /\ mine' = mine \cup {Head(lent)}
  /\ lent' = Tail(lent)

Withdraw == mine' = Buffers /\ lent' = <<>>

LoanNext == (\E b \in Buffers : Lend(b)) \/ GiveBack \/ Withdraw

LoanSpec == LoanInit /\ [][LoanNext]_<<mine, lent>>
=============================================================================
