------------------------------ MODULE GraphicTools ------------------------------
(***************************************************************************)
(* libnxgraphictools: threads that open, use and close graphic tools        *)
(* (nx_graphictools.cpp) over the one service thread that owns the GL       *)
(* context (NX_GTService.cpp).  A command is a record on its caller's       *)
(* stack; its address travels through hCmd, and two semaphores stand for    *)
(* "there is a command" and "there is a result".                            *)
(*                                                                         *)
(* The queue is the bounded queue that module NxQueue implements.  A client *)
(* stands for a thread with one handle.  Definitions whose names end in Bug *)
(* are plausible mistakes in the definition after them; nothing uses them.  *)
(***************************************************************************)
EXTENDS Integers, Sequences, FiniteSets, NxSemaphore

CONSTANTS
  Clients,       \* threads that use the library
  NoClient,      \* nobody
  MaxCmdSize,    \* MAX_CMD_SIZE, the capacity of hCmd
  MaxCalls,      \* how many opens and operations the model runs
  Spurious,      \* pthread_cond_wait may return without a signal
  ThreadFails    \* pthread_create may fail

ASSUME ServiceAssumption ==
  /\ NoClient \notin Clients
  /\ MaxCmdSize \in Nat \ {0}
  /\ MaxCalls \in Nat
  /\ Spurious \in BOOLEAN
  /\ ThreadFails \in BOOLEAN

VARIABLES
  pc,           \* where each client is
  goal,         \* the command it is about: "open", "do" or "close"
  session,      \* clients between the reference an open takes and its return
  calls,        \* opens and operations so far
  refCnt,       \* gstInstRefCnt
  instLock,     \* holder of gstInstMutex across the join of a close
  gstService,   \* gstService # NULL
  hLock,        \* holder of hLock
  bThreadRun,   \* bThreadRun
  hCmd,         \* the queue of commands, each named by its client
  hSemCmd, hSemResult,
  served,       \* clients whose current command has been executed
  tpc,          \* where the service thread is; "off" when there is none
  pCmd          \* the command it executes, or NoClient

clientVars == <<pc, goal, session, calls>>
refVars == <<refCnt, instLock, gstService>>
threadVars == <<tpc, pCmd>>
vars == <<clientVars, refVars, threadVars, hLock, bThreadRun, hCmd, hSemCmd,
          hSemResult, served>>

InCommand == {"push", "post", "pend", "asleep", "unlock"}
PCs == InCommand \cup {"idle", "call", "release", "stop", "join"}
ThreadPCs == {"off", "while", "count", "pend", "asleep", "pop", "execute", "reply"}

ClientTypes ==
  /\ pc \in [Clients -> PCs]
  /\ goal \in [Clients -> {"open", "do", "close"}]
  /\ session \subseteq Clients
  /\ calls \in 0 .. MaxCalls
  /\ served \subseteq Clients

ServiceTypes ==
  /\ refCnt \in Nat
  /\ instLock \in Clients \cup {NoClient}
  /\ gstService \in BOOLEAN
  /\ hLock \in Clients \cup {NoClient}
  /\ bThreadRun \in BOOLEAN
  /\ tpc \in ThreadPCs
  /\ pCmd \in Clients \cup {NoClient}

QueueTypes ==
  /\ hCmd \in Seq(Clients)
  /\ Len(hCmd) <= MaxCmdSize

\* Tokens are never overdrawn, unless a wait returns for no reason.
SemaphoreTypes ==
  /\ hSemCmd \in Semaphores
  /\ hSemResult \in Semaphores
  /\ ~Spurious => hSemCmd.value >= 0 /\ hSemResult.value >= 0

TypeOK == ClientTypes /\ ServiceTypes /\ QueueTypes /\ SemaphoreTypes

Init ==
  /\ pc = [c \in Clients |-> "idle"]
  /\ goal = [c \in Clients |-> "open"]
  /\ session = {}
  /\ calls = 0
  /\ refCnt = 0
  /\ instLock = NoClient
  /\ gstService = FALSE
  /\ hLock = NoClient
  /\ bThreadRun = FALSE
  /\ hCmd = <<>>
  /\ hSemCmd = NewSemaphore
  /\ hSemResult = NewSemaphore
  /\ served = {}
  /\ tpc = "off"
  /\ pCmd = NoClient

Goto(c, l) == pc' = [pc EXCEPT ![c] = l]

-----------------------------------------------------------------------------
(* Opening a tool *)

\* NX_GTServiceInit: a fresh service, whatever became of the last one.
ServiceInit ==
  /\ gstService' = TRUE
  /\ hCmd' = <<>>
  /\ hSemCmd' = NewSemaphore
  /\ hSemResult' = NewSemaphore
  /\ hLock' = NoClient

\* NX_GTServiceStart: pthread_create reports failure by a positive number,
\* which the test for a negative one never sees.  It would refuse to start a
\* service that runs, but without references none does (StoppedWhenUnused).
ServiceStart ==
  /\ bThreadRun' = TRUE
  /\ \/ tpc' = "while"
     \/ ThreadFails /\ tpc' = "off"

\* NX_GTDeintOpen creates a service only when there is none; NX_GTSclOpen,
\* NX_GTRgb2YuvOpen and NX_GTYuv2RgbOpen create one whenever none is in use.
Create(tool) == tool = "other" \/ ~gstService

Open(c, tool) ==
  /\ pc[c] = "idle"
  /\ c \notin session
  /\ instLock = NoClient
  /\ calls < MaxCalls
  /\ calls' = calls + 1
  /\ IF refCnt = 0
       THEN /\ IF Create(tool) THEN ServiceInit
                 ELSE UNCHANGED <<gstService, hCmd, hSemCmd, hSemResult, hLock>>
            /\ ServiceStart
       ELSE UNCHANGED <<gstService, hCmd, hSemCmd, hSemResult, hLock, bThreadRun, tpc>>
  /\ refCnt' = refCnt + 1
  /\ session' = session \cup {c}
  /\ goal' = [goal EXCEPT ![c] = "open"]
  /\ Goto(c, "call")
  /\ UNCHANGED <<instLock, served, pCmd>>

\* NX_GTDeintDoDeinterlace, NX_GTSclDoScale, NX_GTRgb2YuvDoConvert,
\* NX_GTYuv2RgbDoConvert
Do(c) ==
  /\ pc[c] = "idle"
  /\ c \in session
  /\ calls < MaxCalls
  /\ calls' = calls + 1
  /\ goal' = [goal EXCEPT ![c] = "do"]
  /\ Goto(c, "call")
  /\ UNCHANGED <<session, refVars, threadVars, hLock, bThreadRun, hCmd, hSemCmd,
                 hSemResult, served>>

\* NX_GTDeintClose, NX_GTSclClose, NX_GTRgb2YuvClose, NX_GTYuv2RgbClose
Close(c) ==
  /\ pc[c] = "idle"
  /\ c \in session
  /\ goal' = [goal EXCEPT ![c] = "close"]
  /\ Goto(c, "call")
  /\ UNCHANGED <<session, calls, refVars, threadVars, hLock, bThreadRun, hCmd,
                 hSemCmd, hSemResult, served>>

-----------------------------------------------------------------------------
(* NX_GTServiceCommand *)

AfterCommand(c) == Goto(c, IF goal[c] = "close" THEN "release" ELSE "idle")

LockFreeBug == TRUE
LockFree == hLock = NoClient

\* Lock and test bThreadRun; a service that is not running is an error.
Enter(c) ==
  /\ pc[c] = "call"
  /\ LockFree
  /\ IF bThreadRun
       THEN /\ hLock' = c
            /\ Goto(c, "push")
            /\ served' = served \ {c}
       ELSE AfterCommand(c) /\ UNCHANGED <<hLock, served>>
  /\ UNCHANGED <<goal, session, calls, refVars, threadVars, bThreadRun, hCmd, hSemCmd,
                 hSemResult>>

\* NX_QueuePush, whose refusal is not looked at.
PushCommand(c) ==
  /\ pc[c] = "push"
  /\ hCmd' = IF Len(hCmd) < MaxCmdSize THEN Append(hCmd, c) ELSE hCmd
  /\ Goto(c, "post")
  /\ UNCHANGED <<goal, session, calls, refVars, threadVars, hLock, bThreadRun,
                 hSemCmd, hSemResult, served>>

CommandPostedBug == Post(hSemCmd, FALSE)
CommandPosted == Post(hSemCmd, tpc = "asleep")

PostCommand(c) ==
  /\ pc[c] = "post"
  /\ hSemCmd' = CommandPosted
  /\ Goto(c, "pend")
  /\ UNCHANGED <<goal, session, calls, refVars, threadVars, hLock, bThreadRun, hCmd,
                 hSemResult, served>>

PendResult(c) ==
  /\ pc[c] = "pend"
  /\ Goto(c, IF MustSleep(hSemResult) THEN "asleep" ELSE "unlock")
  /\ hSemResult' = Take(hSemResult)
  /\ UNCHANGED <<goal, session, calls, refVars, threadVars, hLock, bThreadRun, hCmd,
                 hSemCmd, served>>

WakeUp(c) ==
  /\ pc[c] = "asleep"
  /\ hSemResult.signalled \/ Spurious
  /\ hSemResult' = Woken(hSemResult)
  /\ Goto(c, "unlock")
  /\ UNCHANGED <<goal, session, calls, refVars, threadVars, hLock, bThreadRun, hCmd,
                 hSemCmd, served>>

Leave(c) ==
  /\ pc[c] = "unlock"
  /\ hLock' = NoClient
  /\ AfterCommand(c)
  /\ UNCHANGED <<goal, session, calls, refVars, threadVars, bThreadRun, hCmd, hSemCmd,
                 hSemResult, served>>

-----------------------------------------------------------------------------
(* The last close stops the service *)

LastReferenceBug == refCnt' <= 1
LastReferenceLateBug == refCnt = 0
LastReference == refCnt' = 0

\* Give the reference back; NX_GTServiceStop begins by clearing bThreadRun.
Release(c) ==
  /\ pc[c] = "release"
  /\ instLock = NoClient
  /\ session' = session \ {c}
  /\ refCnt' = IF refCnt > 0 THEN refCnt - 1 ELSE 0
  /\ IF refCnt > 0 /\ LastReference /\ bThreadRun
       THEN instLock' = c /\ bThreadRun' = FALSE /\ Goto(c, "stop")
       ELSE Goto(c, "idle") /\ UNCHANGED <<instLock, bThreadRun>>
  /\ UNCHANGED <<goal, calls, gstService, threadVars, hLock, hCmd, hSemCmd, hSemResult,
                 served>>

\* ... then posts a token with no command, so that the thread looks again.
StopPostedBug == hSemCmd
StopPosted == Post(hSemCmd, tpc = "asleep")

PostStop(c) ==
  /\ pc[c] = "stop"
  /\ hSemCmd' = StopPosted
  /\ Goto(c, "join")
  /\ UNCHANGED <<goal, session, calls, refVars, threadVars, hLock, bThreadRun, hCmd,
                 hSemResult, served>>

\* pthread_join, unlock gstInstMutex
Join(c) ==
  /\ pc[c] = "join"
  /\ tpc = "off"
  /\ instLock' = NoClient
  /\ Goto(c, "idle")
  /\ UNCHANGED <<goal, session, calls, refCnt, gstService, threadVars, hLock, bThreadRun,
                 hCmd, hSemCmd, hSemResult, served>>

-----------------------------------------------------------------------------
(* GTServiceThread *)

serviceVars == <<clientVars, refVars, hLock, bThreadRun>>

TestRun ==
  /\ tpc = "while"
  /\ tpc' = IF bThreadRun THEN "count" ELSE "off"
  /\ UNCHANGED <<serviceVars, pCmd, hCmd, hSemCmd, hSemResult, served>>

\* NX_QueueGetCount: with a command at hand the token is left for later.
TestQueue ==
  /\ tpc = "count"
  /\ tpc' = IF hCmd = <<>> THEN "pend" ELSE "pop"
  /\ UNCHANGED <<serviceVars, pCmd, hCmd, hSemCmd, hSemResult, served>>

PendCommand ==
  /\ tpc = "pend"
  /\ tpc' = IF MustSleep(hSemCmd) THEN "asleep" ELSE "pop"
  /\ hSemCmd' = Take(hSemCmd)
  /\ UNCHANGED <<serviceVars, pCmd, hCmd, hSemResult, served>>

WakeThread ==
  /\ tpc = "asleep"
  /\ hSemCmd.signalled \/ Spurious
  /\ hSemCmd' = Woken(hSemCmd)
  /\ tpc' = "pop"
  /\ UNCHANGED <<serviceVars, pCmd, hCmd, hSemResult, served>>

\* NX_QueuePop; without a command the loop starts over.
PopCommand ==
  /\ tpc = "pop"
  /\ IF hCmd = <<>>
       THEN tpc' = "while" /\ UNCHANGED <<pCmd, hCmd>>
       ELSE tpc' = "execute" /\ pCmd' = Head(hCmd) /\ hCmd' = Tail(hCmd)
  /\ UNCHANGED <<serviceVars, hSemCmd, hSemResult, served>>

\* GTOpen, GTDo or GTClose, and the store to pCmd->retCode.
Execute ==
  /\ tpc = "execute"
  /\ served' = served \cup {pCmd}
  /\ tpc' = "reply"
  /\ UNCHANGED <<serviceVars, pCmd, hCmd, hSemCmd, hSemResult>>

ReplyPostedBug == Post(hSemResult, FALSE)
ReplyPosted == Post(hSemResult, \E c \in Clients : pc[c] = "asleep")

Reply ==
  /\ tpc = "reply"
  /\ hSemResult' = ReplyPosted
  /\ tpc' = "while"
  /\ pCmd' = NoClient
  /\ UNCHANGED <<serviceVars, hCmd, hSemCmd, served>>

-----------------------------------------------------------------------------
\* The steps of a client that has begun a call and holds what it needs.
Proceed(c) ==
  \/ PushCommand(c)
  \/ PostCommand(c)
  \/ PendResult(c)
  \/ WakeUp(c)
  \/ Leave(c)
  \/ PostStop(c)
  \/ Join(c)

\* The steps of a client that takes a mutex.
Acquire(c) == Enter(c) \/ Release(c)

ServiceThread ==
  \/ TestRun
  \/ TestQueue
  \/ PendCommand
  \/ WakeThread
  \/ PopCommand
  \/ Execute
  \/ Reply

Next ==
  \/ \E c \in Clients :
       \/ \E tool \in {"deint", "other"} : Open(c, tool)
       \/ Do(c)
       \/ Close(c)
       \/ Acquire(c)
       \/ Proceed(c)
  \/ ServiceThread

\* The threads run: the service thread, and a client from the moment it holds
\* the mutex.  Nothing is asked of how pthread grants a mutex, and clients need
\* not call anything.
Fairness ==
  /\ WF_vars(ServiceThread)
  /\ \A c \in Clients : WF_vars(Proceed(c))

Spec == Init /\ [][Next]_vars /\ Fairness

-----------------------------------------------------------------------------
(* Properties *)

\* gstInstRefCnt counts the open handles, and while it is not 0 the service
\* runs: no NX_GTServiceCommand of nx_graphictools.cpp finds it stopped.
ServiceWhileUsed ==
  /\ refCnt = Cardinality(session)
  /\ session # {} => bThreadRun /\ tpc # "off"

\* When every handle is closed the thread is gone and no command is left.
StoppedWhenUnused ==
  (refCnt = 0 /\ instLock = NoClient) => tpc = "off" /\ ~bThreadRun /\ hCmd = <<>>

\* The service runs while handles are open and is gone when none is.
ServiceMatchesUse == ServiceWhileUsed /\ StoppedWhenUnused

\* The thread and the queue refer only to records of callers that have not
\* returned, NX_GTServiceCommand keeps them on its stack.
StackAlive ==
  /\ pCmd # NoClient => pc[pCmd] \in InCommand \ {"unlock"}
  /\ \A i \in 1 .. Len(hCmd) : pc[hCmd[i]] \in InCommand \ {"unlock"}

\* A thread asleep with a command in the queue is about to be woken, and a
\* caller asleep whose command has been executed is: no wake-up is lost,
\* although tokens are left over when a command is seen before its token.
NoLostWakeUp ==
  /\ (tpc = "asleep" /\ hCmd # <<>> /\ ~hSemCmd.signalled) =>
       \E c \in Clients : pc[c] = "post"
  /\ \A c \in Clients :
       (pc[c] = "asleep" /\ c \in served /\ ~hSemResult.signalled) => tpc = "reply"

\* "wait result..": a caller goes on only after its command was executed.
ResultAfterService == \A c \in Clients : pc[c] = "unlock" => c \in served

\* A command that was accepted is answered.
EveryCommandAnswered == \A c \in Clients : (pc[c] = "push") ~> (pc[c] = "unlock")

\* The last close returns: the join ends.
LastCloseReturns == \A c \in Clients : (pc[c] = "stop") ~> (pc[c] = "idle")

\* Commands are executed once each, between call and return.
Service == INSTANCE CommandService WITH
             call <- [c \in Clients |->
                        IF pc[c] \notin InCommand THEN "none"
                        ELSE IF c \in served THEN "served" ELSE "waiting"]
ServiceSpec == Service!ServiceSpec
=============================================================================
