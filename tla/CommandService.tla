----------------------------- MODULE CommandService -----------------------------
(***************************************************************************)
(* What NX_GTServiceCommand promises its callers: every command is executed *)
(* once by the service, between the call and the return, and the caller     *)
(* returns only when its own command has been executed.                     *)
(***************************************************************************)
CONSTANT Clients

VARIABLE call     \* for each client: "none", "waiting" or "served"

ServiceInit == call = [c \in Clients |-> "none"]

Submit(c) == call[c] = "none" /\ call' = [call EXCEPT ![c] = "waiting"]

Serve(c) == call[c] = "waiting" /\ call' = [call EXCEPT ![c] = "served"]

Deliver(c) == call[c] = "served" /\ call' = [call EXCEPT ![c] = "none"]

ServiceNext == \E c \in Clients : Submit(c) \/ Serve(c) \/ Deliver(c)

ServiceSpec == ServiceInit /\ [][ServiceNext]_call
=============================================================================
