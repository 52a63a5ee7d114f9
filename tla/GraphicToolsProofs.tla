--------------------------- MODULE GraphicToolsProofs ---------------------------
(***************************************************************************)
(* Why the graphic tools work when condition variables wake up only when    *)
(* signalled and the service thread can be created: every property of       *)
(* GraphicTools but the liveness ones, for any number of clients and calls. *)
(***************************************************************************)
EXTENDS GraphicTools, FiniteSetTheorems, TLAPS

Sound == ~Spurious /\ ~ThreadFails

-----------------------------------------------------------------------------
(* The inductive invariant *)

\* hLock is held by the one client inside NX_GTServiceCommand.
LockInv == \A c \in Clients : pc[c] \in InCommand <=> hLock = c

\* The references are the clients of session; gstInstMutex is held across a
\* join only by the client that gave back the last one.
RefInv ==
  /\ IsFiniteSet(session)
  /\ refCnt = Cardinality(session)
  /\ \A c \in Clients :
       /\ pc[c] \in InCommand \cup {"call", "release"} => c \in session
       /\ pc[c] \in {"stop", "join"} <=> instLock = c
  /\ instLock # NoClient => session = {}

\* The service runs exactly while there is a reference.
RunInv ==
  /\ bThreadRun <=> session # {}
  /\ bThreadRun => tpc # "off"
  /\ session = {} /\ instLock = NoClient => tpc = "off"

\* The thread has no command in hand and owes no result.
Free == pCmd = NoClient /\ tpc \notin {"execute", "reply"}

NoResult == hSemResult.value = 0 /\ ~hSemResult.signalled

\* A command passes through these stages, one at a time: queued, in execution,
\* executed, answered.
Resting == hCmd = <<>> /\ Free /\ NoResult
Queued(c) == hCmd = <<c>> /\ Free /\ NoResult /\ c \notin served
Executing(c) == hCmd = <<>> /\ pCmd = c /\ tpc = "execute" /\ NoResult /\ c \notin served
Executed(c) == hCmd = <<>> /\ pCmd = c /\ tpc = "reply" /\ NoResult /\ c \in served
Answered(c) ==
  /\ hCmd = <<>> /\ Free /\ c \in served
  /\ hSemResult.value = 1
  /\ hSemResult.signalled <=> pc[c] = "asleep"

StageInv ==
  /\ hLock = NoClient => Resting
  /\ \A c \in Clients :
       /\ pc[c] = "push" => Resting /\ c \notin served
       /\ pc[c] \in {"post", "pend", "asleep"} =>
            Queued(c) \/ Executing(c) \/ Executed(c) \/ Answered(c)
       /\ pc[c] = "unlock" => Resting /\ c \in served

\* A queued command whose token was posted finds the thread about to look, or
\* with a token to take, or woken.
TokenInv ==
  /\ hSemCmd.value >= 0
  /\ hSemCmd.signalled => tpc = "asleep" /\ hSemCmd.value >= 1
  /\ \A c \in Clients :
       (pc[c] \in {"pend", "asleep"} /\ hCmd # <<>>) =>
         /\ tpc = "pend" => hSemCmd.value >= 1
         /\ tpc = "asleep" => hSemCmd.signalled

IInv == TypeOK /\ LockInv /\ RefInv /\ RunInv /\ StageInv /\ TokenInv

-----------------------------------------------------------------------------
(* Types *)

\* What the operations on a semaphore return.
LEMMA NewType ==
  NewSemaphore \in Semaphores /\ NewSemaphore.value = 0 /\ ~NewSemaphore.signalled
BY DEF NewSemaphore, Semaphores

LEMMA PostType ==
  ASSUME NEW sem \in Semaphores, NEW b \in BOOLEAN
  PROVE  /\ Post(sem, b) \in Semaphores /\ sem.value \in Int
         /\ Post(sem, b).value = sem.value + 1
         /\ sem.value = 0 => Post(sem, b).value = 1
         /\ Post(sem, b).signalled <=> (sem.signalled \/ b)
BY DEF Post, Semaphores

LEMMA TakeType ==
  ASSUME NEW sem \in Semaphores
  PROVE  /\ Take(sem) \in Semaphores /\ sem.value \in Int
         /\ sem.value > 0 => Take(sem).value = sem.value - 1
         /\ sem.value = 0 => Take(sem).value = 0
         /\ sem.value = 1 => Take(sem).value = 0
         /\ Take(sem).signalled <=> sem.signalled
BY DEF Take, Semaphores

LEMMA WokenType ==
  ASSUME NEW sem \in Semaphores
  PROVE  /\ Woken(sem) \in Semaphores /\ sem.value \in Int
         /\ Woken(sem).value = sem.value - 1
         /\ ~Woken(sem).signalled
BY DEF Woken, Semaphores

-----------------------------------------------------------------------------
(* The mutexes and the references *)

\* Every step keeps hLock with the one client inside the command.
LEMMA LockStep ==
  ASSUME Sound, IInv, [Next]_vars
  PROVE  LockInv'
<1> USE ServiceAssumption DEF IInv, TypeOK, ClientTypes, ServiceTypes, LockInv, InCommand, PCs, Goto
<1>1. ASSUME NEW c \in Clients, NEW tool \in {"deint", "other"}, Open(c, tool)
      PROVE  LockInv'
  <2>1. CASE refCnt # 0
    BY <1>1, <2>1 DEF Open
  <2>2. CASE refCnt = 0
    <3>1. session = {}
      BY <2>2, FS_EmptySet DEF RefInv
    <3>2. \A d \in Clients : pc[d] \notin InCommand
      BY <3>1 DEF RefInv
    <3>3. hLock = NoClient
      BY <3>2
    <3>4. hLock' = NoClient
      BY <1>1, <2>2, <3>3 DEF Open, ServiceInit
    <3> QED
      BY <1>1, <3>2, <3>4 DEF Open
  <2> QED
    BY <2>1, <2>2
<1>2. ASSUME NEW c \in Clients, Do(c) \/ Close(c)
      PROVE  LockInv'
  BY <1>2 DEF Do, Close
<1>3. ASSUME NEW c \in Clients, Enter(c)
      PROVE  LockInv'
  BY <1>3 DEF Enter, LockFree, AfterCommand
<1>4. ASSUME NEW c \in Clients, Release(c)
      PROVE  LockInv'
  BY <1>4 DEF Release
<1>5. ASSUME NEW c \in Clients, Leave(c)
      PROVE  LockInv'
  BY <1>5 DEF Leave, AfterCommand
<1>6. ASSUME NEW c \in Clients, PushCommand(c) \/ PostCommand(c)
      PROVE  LockInv'
  BY <1>6 DEF PushCommand, PostCommand
<1>7. ASSUME NEW c \in Clients, PendResult(c) \/ WakeUp(c)
      PROVE  LockInv'
  BY <1>7 DEF PendResult, WakeUp
<1>8. ASSUME NEW c \in Clients, PostStop(c) \/ Join(c)
      PROVE  LockInv'
  BY <1>8 DEF PostStop, Join
<1>9. CASE ServiceThread \/ UNCHANGED vars
  <2>1. UNCHANGED <<pc, hLock>>
    BY <1>9 DEF ServiceThread, TestRun, TestQueue, PendCommand, WakeThread, PopCommand,
       Execute, Reply, serviceVars, clientVars, vars
  <2> QED
    BY <2>1
<1> QED
  BY <1>1, <1>2, <1>3, <1>4, <1>5, <1>6, <1>7, <1>8, <1>9 DEF Next, Acquire, Proceed

\* Every step keeps gstInstRefCnt the number of references.
LEMMA RefStep ==
  ASSUME Sound, IInv, [Next]_vars
  PROVE  RefInv'
<1> USE ServiceAssumption DEF IInv, TypeOK, ClientTypes, ServiceTypes, RefInv, InCommand, PCs, Goto
<1>1. ASSUME NEW c \in Clients, NEW tool \in {"deint", "other"}, Open(c, tool)
      PROVE  RefInv'
  <2>1. IsFiniteSet(session') /\ Cardinality(session') = Cardinality(session) + 1
    BY <1>1, FS_AddElement DEF Open
  <2>2. refCnt' = Cardinality(session')
    BY <1>1, <2>1 DEF Open
  <2> QED
    BY <1>1, <2>1, <2>2 DEF Open
<1>2. ASSUME NEW c \in Clients, Do(c) \/ Close(c)
      PROVE  RefInv'
  BY <1>2 DEF Do, Close, refVars
<1>3. ASSUME NEW c \in Clients, Enter(c)
      PROVE  RefInv'
  BY <1>3 DEF Enter, AfterCommand, refVars
<1>4. ASSUME NEW c \in Clients, Release(c)
      PROVE  RefInv'
  <2>1. c \in session /\ session' = session \ {c} /\ instLock = NoClient
    BY <1>4 DEF Release
  <2>2. IsFiniteSet(session') /\ Cardinality(session') = Cardinality(session) - 1
    BY <2>1, FS_RemoveElement
  <2>3. refCnt > 0 /\ refCnt' = refCnt - 1
    <3>1. refCnt # 0
      BY <2>1, FS_EmptySet
    <3> QED
      BY <1>4, <3>1 DEF Release
  <2>4. refCnt' = Cardinality(session')
    BY <2>2, <2>3
  <2>5. refCnt' = 0 => session' = {}
    BY <2>2, <2>4, FS_EmptySet
  <2>6. \/ instLock' = c /\ pc' = [pc EXCEPT ![c] = "stop"] /\ session' = {}
        \/ instLock' = NoClient /\ pc' = [pc EXCEPT ![c] = "idle"]
    <3>1. CASE refCnt > 0 /\ LastReference /\ bThreadRun
      <4>1. instLock' = c /\ pc' = [pc EXCEPT ![c] = "stop"]
        BY <1>4, <3>1 DEF Release
      <4> QED
        BY <4>1, <3>1, <2>5 DEF LastReference
    <3>2. CASE ~(refCnt > 0 /\ LastReference /\ bThreadRun)
      <4>1. instLock' = instLock /\ pc' = [pc EXCEPT ![c] = "idle"]
        BY <1>4, <3>2 DEF Release
      <4> QED
        BY <4>1, <2>1
    <3> QED
      BY <3>1, <3>2
  <2>7. \A d \in Clients \ {c} : pc'[d] = pc[d]
    BY <2>6
  <2>8. \A d \in Clients : pc[d] \notin {"stop", "join"}
    BY <2>1
  <2> QED
    BY <2>1, <2>2, <2>4, <2>6, <2>7, <2>8
<1>5. ASSUME NEW c \in Clients, Leave(c)
      PROVE  RefInv'
  BY <1>5 DEF Leave, AfterCommand, refVars
<1>6. ASSUME NEW c \in Clients, PushCommand(c) \/ PostCommand(c)
      PROVE  RefInv'
  BY <1>6 DEF PushCommand, PostCommand, refVars
<1>7. ASSUME NEW c \in Clients, PendResult(c) \/ WakeUp(c)
      PROVE  RefInv'
  BY <1>7 DEF PendResult, WakeUp, refVars
<1>8. ASSUME NEW c \in Clients, PostStop(c)
      PROVE  RefInv'
  BY <1>8 DEF PostStop, refVars
<1>9. ASSUME NEW c \in Clients, Join(c)
      PROVE  RefInv'
  BY <1>9 DEF Join
<1>10. CASE ServiceThread \/ UNCHANGED vars
  <2>1. UNCHANGED <<pc, session, refCnt, instLock>>
    BY <1>10 DEF ServiceThread, TestRun, TestQueue, PendCommand, WakeThread, PopCommand,
       Execute, Reply, serviceVars, clientVars, refVars, vars
  <2> QED
    BY <2>1
<1> QED
  BY <1>1, <1>2, <1>3, <1>4, <1>5, <1>6, <1>7, <1>8, <1>9, <1>10
     DEF Next, Acquire, Proceed

\* Every step keeps the service running exactly while there is a reference.
LEMMA RunStep ==
  ASSUME Sound, IInv, [Next]_vars
  PROVE  RunInv'
<1> USE ServiceAssumption DEF IInv, TypeOK, ClientTypes, ServiceTypes, RunInv, InCommand, PCs, Goto
<1>1. ASSUME NEW c \in Clients, NEW tool \in {"deint", "other"}, Open(c, tool)
      PROVE  RunInv'
  <2>1. refCnt = 0 <=> session = {}
    BY FS_EmptySet DEF RefInv
  <2>2. session' # {}
    BY <1>1 DEF Open
  <2>3. bThreadRun' /\ tpc' # "off"
    BY <1>1, <2>1 DEF Open, ServiceStart, Sound
  <2> QED
    BY <2>2, <2>3
<1>2. ASSUME NEW c \in Clients, Release(c)
      PROVE  RunInv'
  <2>1. c \in session /\ session' = session \ {c} /\ instLock = NoClient /\ bThreadRun
        /\ UNCHANGED tpc
    BY <1>2 DEF Release, RefInv, threadVars
  <2>2. RefInv'
    BY RefStep, <1>2 DEF Next, Acquire
  <2>3. refCnt' = 0 <=> session' = {}
    BY <2>2, FS_EmptySet DEF RefInv
  <2>4. refCnt > 0
    BY <2>1, FS_EmptySet DEF RefInv
  <2>5. CASE session' = {}
    BY <1>2, <2>1, <2>3, <2>4, <2>5 DEF Release, LastReference
  <2>6. CASE session' # {}
    BY <1>2, <2>1, <2>3, <2>4, <2>6 DEF Release, LastReference
  <2> QED
    BY <2>5, <2>6
<1>3. ASSUME NEW c \in Clients, Join(c)
      PROVE  RunInv'
  BY <1>3 DEF Join, threadVars
<1>4. ASSUME NEW c \in Clients, Do(c) \/ Close(c) \/ Enter(c) \/ Leave(c)
      PROVE  RunInv'
  BY <1>4 DEF Do, Close, Enter, Leave, refVars, threadVars
<1>5. ASSUME NEW c \in Clients,
             PushCommand(c) \/ PostCommand(c) \/ PendResult(c) \/ WakeUp(c) \/ PostStop(c)
      PROVE  RunInv'
  BY <1>5 DEF PushCommand, PostCommand, PendResult, WakeUp, PostStop, refVars, threadVars
<1>6. CASE ServiceThread
  <2>1. UNCHANGED <<session, instLock, bThreadRun>> /\ tpc # "off"
    BY <1>6 DEF ServiceThread, TestRun, TestQueue, PendCommand, WakeThread, PopCommand,
       Execute, Reply, serviceVars, clientVars, refVars
  <2>2. bThreadRun => tpc' # "off"
    BY <1>6 DEF ServiceThread, TestRun, TestQueue, PendCommand, WakeThread, PopCommand,
       Execute, Reply
  <2> QED
    BY <2>1, <2>2
<1>7. CASE UNCHANGED vars
  BY <1>7 DEF vars, clientVars, refVars, threadVars
<1> QED
  BY <1>1, <1>2, <1>3, <1>4, <1>5, <1>6, <1>7 DEF Next, Acquire, Proceed

-----------------------------------------------------------------------------
(* The stages of a command *)

\* hLock makes the stages of one client those of the whole service.
LEMMA OneCaller ==
  ASSUME LockInv, NEW c \in Clients, pc[c] \in InCommand
  PROVE  hLock = c /\ \A d \in Clients \ {c} : pc[d] \notin InCommand
BY DEF LockInv

\* Outside a command, or at its two ends, nothing is under way.
LEMMA RestingOutside ==
  ASSUME StageInv, LockInv, hLock = NoClient
  PROVE  Resting /\ \A d \in Clients : pc[d] \notin InCommand
BY ServiceAssumption DEF StageInv, LockInv

\* The steps of a caller keep its command at the stage its pc says.
LEMMA StageCaller ==
  ASSUME Sound, IInv, NEW c \in Clients,
         Enter(c) \/ PushCommand(c) \/ PostCommand(c) \/ PendResult(c)
         \/ WakeUp(c) \/ Leave(c)
  PROVE  StageInv'
<1> USE ServiceAssumption DEF IInv, TypeOK, ClientTypes, ServiceTypes, InCommand, PCs, Goto,
      Resting, Queued, Executing, Executed, Answered, Free, NoResult
<1>1. CASE Enter(c)
  <2>1. hLock = NoClient /\ Resting /\ \A d \in Clients : pc[d] \notin InCommand
    BY <1>1, RestingOutside DEF Enter, LockFree
  <2>2. UNCHANGED <<hCmd, pCmd, tpc, hSemResult>>
    BY <1>1 DEF Enter, threadVars
  <2>3. Resting'
    BY <2>1, <2>2
  <2>4. CASE bThreadRun
    <3>1. pc' = [pc EXCEPT ![c] = "push"] /\ c \notin served' /\ hLock' = c
      BY <1>1, <2>4 DEF Enter
    <3> QED
      BY <2>1, <2>3, <3>1 DEF StageInv
  <2>5. CASE ~bThreadRun
    <3>1. \A d \in Clients : pc'[d] \notin InCommand
      BY <1>1, <2>1, <2>5 DEF Enter, AfterCommand
    <3> QED
      BY <2>3, <3>1 DEF StageInv
  <2> QED
    BY <2>4, <2>5
<1>2. CASE PushCommand(c)
  <2>1. pc[c] = "push" /\ hLock = c /\ \A d \in Clients \ {c} : pc[d] \notin InCommand
    BY <1>2, OneCaller DEF PushCommand
  <2>2. Resting /\ c \notin served
    BY <2>1 DEF StageInv
  <2>3. /\ hCmd' = <<c>> /\ pc' = [pc EXCEPT ![c] = "post"]
        /\ UNCHANGED <<pCmd, tpc, hSemResult, served, hLock>>
    BY <1>2, <2>2 DEF PushCommand, threadVars
  <2>4. Queued(c)'
    BY <2>2, <2>3
  <2> QED
    BY <2>1, <2>3, <2>4 DEF StageInv
<1>3. CASE PostCommand(c)
  <2>1. pc[c] = "post" /\ hLock = c /\ \A d \in Clients \ {c} : pc[d] \notin InCommand
    BY <1>3, OneCaller DEF PostCommand
  <2>2. Queued(c) \/ Executing(c) \/ Executed(c) \/ Answered(c)
    BY <2>1 DEF StageInv
  <2>3. /\ pc' = [pc EXCEPT ![c] = "pend"]
        /\ UNCHANGED <<hCmd, pCmd, tpc, hSemResult, served, hLock>>
    BY <1>3 DEF PostCommand, threadVars
  <2>4. Queued(c)' \/ Executing(c)' \/ Executed(c)' \/ Answered(c)'
    BY <2>1, <2>2, <2>3
  <2> QED
    BY <2>1, <2>3, <2>4 DEF StageInv
<1>4. CASE PendResult(c)
  <2>0. hSemResult \in Semaphores
    BY DEF SemaphoreTypes
  <2>1. pc[c] = "pend" /\ hLock = c /\ \A d \in Clients \ {c} : pc[d] \notin InCommand
    BY <1>4, OneCaller DEF PendResult
  <2>2. Queued(c) \/ Executing(c) \/ Executed(c) \/ Answered(c)
    BY <2>1 DEF StageInv
  <2>3. UNCHANGED <<hCmd, pCmd, tpc, served, hLock>> /\ hSemResult' = Take(hSemResult)
    BY <1>4 DEF PendResult, threadVars
  <2>4. CASE hSemResult.value = 0
    <3>0. hSemResult'.value = 0 /\ (hSemResult'.signalled <=> hSemResult.signalled)
      BY <2>0, <2>3, <2>4, TakeType
    <3>1. pc' = [pc EXCEPT ![c] = "asleep"]
      BY <1>4, <2>4 DEF PendResult, MustSleep
    <3>2. Queued(c)' \/ Executing(c)' \/ Executed(c)'
      BY <2>2, <2>3, <2>4, <3>0
    <3> QED
      BY <2>1, <2>3, <3>1, <3>2 DEF StageInv
  <2>5. CASE hSemResult.value = 1
    <3>0. hSemResult'.value = 0 /\ (hSemResult'.signalled <=> hSemResult.signalled)
      BY <2>0, <2>3, <2>5, TakeType
    <3>1. pc' = [pc EXCEPT ![c] = "unlock"]
      BY <1>4, <2>5 DEF PendResult, MustSleep
    <3>2. Answered(c)
      BY <2>2, <2>5
    <3>3. Resting' /\ c \in served'
      BY <2>1, <2>3, <3>0, <3>2
    <3> QED
      BY <2>1, <2>3, <3>1, <3>3 DEF StageInv
  <2> QED
    BY <2>2, <2>4, <2>5
<1>5. CASE WakeUp(c)
  <2>1. pc[c] = "asleep" /\ hLock = c /\ \A d \in Clients \ {c} : pc[d] \notin InCommand
    BY <1>5, OneCaller DEF WakeUp
  <2>2. hSemResult.signalled
    BY <1>5 DEF WakeUp, Sound
  <2>3. Answered(c)
    BY <2>1, <2>2 DEF StageInv
  <2>4. /\ pc' = [pc EXCEPT ![c] = "unlock"]
        /\ UNCHANGED <<hCmd, pCmd, tpc, served, hLock>> /\ hSemResult' = Woken(hSemResult)
    BY <1>5 DEF WakeUp, threadVars
  <2>5. hSemResult'.value = 0 /\ ~hSemResult'.signalled
    BY <2>3, <2>4, WokenType DEF SemaphoreTypes
  <2>6. Resting' /\ c \in served'
    BY <2>3, <2>4, <2>5
  <2> QED
    BY <2>1, <2>4, <2>6 DEF StageInv
<1>6. CASE Leave(c)
  <2>1. pc[c] = "unlock" /\ \A d \in Clients \ {c} : pc[d] \notin InCommand
    BY <1>6, OneCaller DEF Leave
  <2>2. Resting
    BY <2>1 DEF StageInv
  <2>3. UNCHANGED <<hCmd, pCmd, tpc, hSemResult>>
    BY <1>6 DEF Leave, threadVars
  <2>4. \A d \in Clients : pc'[d] \notin InCommand
    BY <1>6, <2>1 DEF Leave, AfterCommand
  <2> QED
    BY <2>2, <2>3, <2>4 DEF StageInv
<1> QED
  BY <1>1, <1>2, <1>3, <1>4, <1>5, <1>6

\* The steps of the service thread move the command of the caller on.
LEMMA StageThread ==
  ASSUME Sound, IInv, ServiceThread
  PROVE  StageInv'
<1> USE ServiceAssumption DEF IInv, TypeOK, ClientTypes, ServiceTypes, InCommand, PCs,
      Resting, Queued, Executing, Executed, Answered, Free, NoResult
<1>0. UNCHANGED <<pc, hLock>>
  BY DEF ServiceThread, TestRun, TestQueue, PendCommand, WakeThread, PopCommand,
     Execute, Reply, serviceVars, clientVars
<1>1. CASE TestRun \/ TestQueue \/ PendCommand \/ WakeThread
  <2>1. UNCHANGED <<hCmd, pCmd, hSemResult, served>>
        /\ tpc \notin {"execute", "reply"} /\ tpc' \notin {"execute", "reply"}
    BY <1>1 DEF TestRun, TestQueue, PendCommand, WakeThread
  <2> QED
    BY <1>0, <2>1 DEF StageInv
<1>2. CASE PopCommand /\ hCmd = <<>>
  <2>1. UNCHANGED <<hCmd, pCmd, hSemResult, served>> /\ tpc = "pop" /\ tpc' = "while"
    BY <1>2 DEF PopCommand
  <2> QED
    BY <1>0, <2>1 DEF StageInv
<1>3. CASE PopCommand /\ hCmd # <<>>
  <2>1. PICK c \in Clients : hLock = c /\ Queued(c) /\ pc[c] \in {"post", "pend", "asleep"}
    BY <1>3 DEF PopCommand, StageInv, LockInv
  <2>2. hCmd' = <<>> /\ pCmd' = c /\ tpc' = "execute" /\ UNCHANGED <<hSemResult, served>>
    BY <1>3, <2>1 DEF PopCommand
  <2>3. Executing(c)'
    BY <2>1, <2>2
  <2> QED
    BY <1>0, <2>1, <2>3 DEF StageInv, LockInv
<1>4. CASE Execute
  <2>1. PICK c \in Clients : hLock = c /\ Executing(c) /\ pc[c] \in {"post", "pend", "asleep"}
    BY <1>4 DEF Execute, StageInv, LockInv
  <2>2. /\ UNCHANGED <<hCmd, pCmd, hSemResult>>
        /\ tpc' = "reply" /\ served' = served \cup {c}
    BY <1>4, <2>1 DEF Execute
  <2>3. Executed(c)'
    BY <2>1, <2>2
  <2> QED
    BY <1>0, <2>1, <2>3 DEF StageInv, LockInv
<1>5. CASE Reply
  <2>1. PICK c \in Clients : hLock = c /\ Executed(c) /\ pc[c] \in {"post", "pend", "asleep"}
    BY <1>5 DEF Reply, StageInv, LockInv
  <2>2. /\ UNCHANGED <<hCmd, served>> /\ tpc' = "while" /\ pCmd' = NoClient
        /\ hSemResult' = Post(hSemResult, \E d \in Clients : pc[d] = "asleep")
    BY <1>5 DEF Reply, ReplyPosted
  <2>3. (\E d \in Clients : pc[d] = "asleep") <=> pc[c] = "asleep"
    BY <2>1 DEF LockInv
  <2>4. hSemResult'.value = 1 /\ (hSemResult'.signalled <=> pc[c] = "asleep")
    <3>1. hSemResult \in Semaphores
      BY DEF SemaphoreTypes
    <3>2. PICK b \in BOOLEAN : (b <=> pc[c] = "asleep") /\ hSemResult' = Post(hSemResult, b)
      BY <2>2, <2>3
    <3>3. hSemResult'.value = 1 /\ (hSemResult'.signalled <=> b)
      BY <2>1, <3>1, <3>2, PostType
    <3> QED
      BY <3>2, <3>3
  <2>5. Answered(c)'
    BY <1>0, <2>1, <2>2, <2>4
  <2> QED
    BY <1>0, <2>1, <2>5 DEF StageInv, LockInv
<1> QED
  BY <1>1, <1>2, <1>3, <1>4, <1>5 DEF ServiceThread

\* Every step keeps the one command at the stage its caller's pc says.
LEMMA StageStep ==
  ASSUME Sound, IInv, [Next]_vars
  PROVE  StageInv'
<1> USE ServiceAssumption DEF IInv, TypeOK, ClientTypes, ServiceTypes, InCommand, PCs, Goto,
      Resting, Queued, Executing, Executed, Answered, Free, NoResult
<1>1. ASSUME NEW c \in Clients, NEW tool \in {"deint", "other"}, Open(c, tool), refCnt = 0
      PROVE  StageInv'
  <2>1. session = {}
    BY <1>1, FS_EmptySet DEF RefInv
  <2>2. \A d \in Clients : pc[d] \notin InCommand
    BY <2>1 DEF RefInv
  <2>3. Resting
    BY <2>2 DEF StageInv, LockInv
  <2>4. hCmd' = <<>> /\ pCmd' = pCmd /\ tpc' \notin {"execute", "reply"}
    BY <1>1, <2>3 DEF Open, ServiceInit, ServiceStart
  <2>5. NoResult'
    BY <1>1, <2>3, NewType DEF Open, ServiceInit
  <2>6. \A d \in Clients : pc'[d] \notin InCommand
    BY <1>1, <2>2 DEF Open
  <2> QED
    BY <2>3, <2>4, <2>5, <2>6 DEF StageInv
<1>2. ASSUME NEW c \in Clients, NEW l \in {"idle", "call", "stop", "join"},
             pc[c] \notin InCommand, pc' = [pc EXCEPT ![c] = l],
             UNCHANGED <<hLock, hCmd, hSemResult, threadVars, served>>
      PROVE  StageInv'
  <2>1. \A d \in Clients : pc'[d] \in InCommand => pc'[d] = pc[d]
    BY <1>2
  <2> QED
    BY <1>2, <2>1 DEF StageInv, threadVars
<1>3. ASSUME NEW c \in Clients, NEW tool \in {"deint", "other"}, Open(c, tool), refCnt # 0
      PROVE  StageInv'
  BY <1>3, <1>2 DEF Open, threadVars
<1>4. ASSUME NEW c \in Clients, Do(c) \/ Close(c) \/ Release(c) \/ PostStop(c) \/ Join(c)
      PROVE  StageInv'
  BY <1>4, <1>2 DEF Do, Close, Release, PostStop, Join
<1>5. CASE UNCHANGED vars
  BY <1>5 DEF vars, clientVars, threadVars, StageInv
<1> QED
  BY <1>1, <1>3, <1>4, <1>5, StageCaller, StageThread DEF Next, Acquire, Proceed

\* Every step leaves a posted command with a token or a wake-up to be found by.
LEMMA TokenStep ==
  ASSUME Sound, IInv, [Next]_vars
  PROVE  TokenInv'
<1>0. hSemCmd.value \in Int
  BY DEF IInv, TypeOK, SemaphoreTypes, Semaphores
<1> USE ServiceAssumption DEF IInv, TypeOK, ClientTypes, ServiceTypes, SemaphoreTypes,
      InCommand, PCs, Goto, TokenInv
<1>1. ASSUME NEW c \in Clients, NEW tool \in {"deint", "other"}, Open(c, tool)
      PROVE  TokenInv'
  <2>1. CASE refCnt # 0
    BY <1>1, <2>1 DEF Open
  <2>2. CASE refCnt = 0
    <3>1. session = {}
      BY <2>2, FS_EmptySet DEF RefInv
    <3>2. \A d \in Clients : pc[d] \notin InCommand
      BY <3>1 DEF RefInv
    <3>3. tpc = "off" /\ tpc' = "while"
      BY <1>1, <2>2, <3>1 DEF Open, ServiceStart, RunInv, Sound
    <3>4. hSemCmd'.value >= 0 /\ ~hSemCmd'.signalled
      BY <1>1, <2>2, <3>3, NewType DEF Open, ServiceInit
    <3>5. \A d \in Clients : pc'[d] \notin InCommand
      BY <1>1, <3>2 DEF Open
    <3> QED
      BY <3>3, <3>4, <3>5
  <2> QED
    BY <2>1, <2>2
<1>2. ASSUME NEW c \in Clients, NEW l \in PCs \ {"pend", "asleep"},
             pc' = [pc EXCEPT ![c] = l], UNCHANGED <<hCmd, hSemCmd, tpc>>
      PROVE  TokenInv'
  BY <1>2
<1>3. ASSUME NEW c \in Clients, Do(c) \/ Close(c) \/ Release(c) \/ Join(c)
      PROVE  TokenInv'
  BY <1>3, <1>2 DEF Do, Close, Release, Join, threadVars
<1>4. ASSUME NEW c \in Clients, Enter(c) \/ WakeUp(c) \/ Leave(c)
      PROVE  TokenInv'
  BY <1>4, <1>2 DEF Enter, WakeUp, Leave, AfterCommand, threadVars
<1>5. ASSUME NEW c \in Clients, PushCommand(c)
      PROVE  TokenInv'
  <2>1. pc' = [pc EXCEPT ![c] = "post"] /\ UNCHANGED <<hSemCmd, tpc>>
    BY <1>5 DEF PushCommand, threadVars
  <2>2. \A d \in Clients : pc'[d] \notin {"pend", "asleep"}
    BY <1>5, <2>1, OneCaller DEF PushCommand
  <2> QED
    BY <2>1, <2>2
<1>6. ASSUME NEW c \in Clients, PostCommand(c)
      PROVE  TokenInv'
  <2>1. /\ pc' = [pc EXCEPT ![c] = "pend"] /\ UNCHANGED <<hCmd, tpc>>
        /\ hSemCmd' = Post(hSemCmd, tpc = "asleep")
    BY <1>6 DEF PostCommand, CommandPosted, threadVars
  <2>2. /\ hSemCmd'.value = hSemCmd.value + 1
        /\ hSemCmd'.signalled <=> hSemCmd.signalled \/ tpc = "asleep"
    BY <2>1, PostType DEF SemaphoreTypes
  <2> QED
    BY <1>0, <2>1, <2>2
<1>7. ASSUME NEW c \in Clients, PendResult(c)
      PROVE  TokenInv'
  <2>1. pc[c] = "pend" /\ UNCHANGED <<hCmd, tpc, hSemCmd>>
    BY <1>7 DEF PendResult, threadVars
  <2>2. \A d \in Clients : pc'[d] \in {"pend", "asleep"} => pc[d] \in {"pend", "asleep"}
    BY <1>7 DEF PendResult
  <2> QED
    BY <2>1, <2>2
<1>8. ASSUME NEW c \in Clients, PostStop(c)
      PROVE  TokenInv'
  <2>1. /\ pc' = [pc EXCEPT ![c] = "join"] /\ UNCHANGED <<hCmd, tpc>>
        /\ hSemCmd' = Post(hSemCmd, tpc = "asleep")
    BY <1>8 DEF PostStop, StopPosted, threadVars
  <2>2. /\ hSemCmd'.value = hSemCmd.value + 1
        /\ hSemCmd'.signalled <=> hSemCmd.signalled \/ tpc = "asleep"
    BY <2>1, PostType DEF SemaphoreTypes
  <2> QED
    BY <1>0, <2>1, <2>2
<1>9. CASE ServiceThread
  <2>0. UNCHANGED pc
    BY <1>9 DEF ServiceThread, TestRun, TestQueue, PendCommand, WakeThread, PopCommand,
       Execute, Reply, serviceVars, clientVars
  <2>1. CASE TestRun \/ Execute \/ Reply
    BY <2>0, <2>1 DEF TestRun, Execute, Reply
  <2>2. CASE TestQueue
    BY <2>0, <2>2 DEF TestQueue
  <2>3. CASE PendCommand
    <3>1. UNCHANGED hCmd /\ hSemCmd' = Take(hSemCmd) /\ tpc = "pend" /\ ~hSemCmd.signalled
      BY <2>3 DEF PendCommand
    <3>2. CASE hSemCmd.value = 0
      <4>1. hSemCmd'.value = 0 /\ ~hSemCmd'.signalled
        BY <3>1, <3>2, TakeType DEF SemaphoreTypes
      <4>2. tpc' = "asleep"
        BY <2>3, <3>2 DEF PendCommand, MustSleep
      <4>3. \A d \in Clients : pc[d] \in {"pend", "asleep"} => hCmd = <<>>
        BY <3>1, <3>2
      <4> QED
        BY <2>0, <3>1, <4>1, <4>2, <4>3
    <3>3. CASE hSemCmd.value > 0
      <4>1. hSemCmd'.value >= 0 /\ ~hSemCmd'.signalled
        BY <3>1, <3>3, TakeType DEF SemaphoreTypes
      <4>2. tpc' = "pop"
        BY <2>3, <3>3 DEF PendCommand, MustSleep
      <4> QED
        BY <4>1, <4>2
    <3> QED
      BY <1>0, <3>2, <3>3
  <2>4. CASE WakeThread
    <3>1. hSemCmd.signalled /\ hSemCmd' = Woken(hSemCmd) /\ tpc' = "pop"
      BY <2>4 DEF WakeThread, Sound
    <3>2. hSemCmd'.value >= 0 /\ ~hSemCmd'.signalled
      BY <3>1, WokenType DEF SemaphoreTypes
    <3> QED
      BY <3>1, <3>2
  <2>5. CASE PopCommand
    BY <2>0, <2>5 DEF PopCommand
  <2> QED
    BY <1>9, <2>1, <2>2, <2>3, <2>4, <2>5 DEF ServiceThread
<1>10. CASE UNCHANGED vars
  BY <1>10 DEF vars, clientVars, threadVars
<1> QED
  BY <1>1, <1>3, <1>4, <1>5, <1>6, <1>7, <1>8, <1>9, <1>10 DEF Next, Acquire, Proceed

-----------------------------------------------------------------------------
(* The types, and the invariant *)

\* Every step keeps the types of the clients and of the service.
LEMMA ClientTypeStep ==
  ASSUME IInv, [Next]_vars
  PROVE  ClientTypes' /\ ServiceTypes'
<1> USE ServiceAssumption DEF IInv, TypeOK, ClientTypes, ServiceTypes, InCommand, PCs,
      ThreadPCs, Goto
<1>1. ASSUME NEW c \in Clients, NEW tool \in {"deint", "other"}, Open(c, tool)
      PROVE  ClientTypes' /\ ServiceTypes'
  <2>1. pc' = [pc EXCEPT ![c] = "call"] /\ ClientTypes'
    BY <1>1 DEF Open
  <2>2. gstService' \in BOOLEAN /\ hLock' \in Clients \cup {NoClient}
    BY <1>1 DEF Open, ServiceInit
  <2>3. bThreadRun' \in BOOLEAN /\ tpc' \in ThreadPCs
    BY <1>1 DEF Open, ServiceStart
  <2>4. refCnt' \in Nat /\ UNCHANGED <<instLock, pCmd>>
    BY <1>1 DEF Open
  <2> QED
    BY <2>1, <2>2, <2>3, <2>4
<1>2. ASSUME NEW c \in Clients, Do(c) \/ Close(c) \/ Enter(c) \/ Leave(c)
      PROVE  ClientTypes' /\ ServiceTypes'
  BY <1>2 DEF Do, Close, Enter, Leave, AfterCommand, refVars, threadVars
<1>3. ASSUME NEW c \in Clients, Release(c)
      PROVE  ClientTypes' /\ ServiceTypes'
  <2>1. refCnt' \in Nat /\ ClientTypes'
    BY <1>3 DEF Release
  <2> QED
    BY <1>3, <2>1 DEF Release, threadVars
<1>4. ASSUME NEW c \in Clients, PushCommand(c) \/ PostCommand(c) \/ PostStop(c) \/ Join(c)
      PROVE  ClientTypes' /\ ServiceTypes'
  BY <1>4 DEF PushCommand, PostCommand, PostStop, Join, refVars, threadVars
<1>5. ASSUME NEW c \in Clients, PendResult(c) \/ WakeUp(c)
      PROVE  ClientTypes' /\ ServiceTypes'
  BY <1>5 DEF PendResult, WakeUp, refVars, threadVars
<1>6. CASE TestRun \/ TestQueue \/ PendCommand \/ WakeThread \/ Reply
  BY <1>6 DEF TestRun, TestQueue, PendCommand, WakeThread, Reply, serviceVars,
     clientVars, refVars
<1>7. CASE PopCommand
  <2>1. hCmd # <<>> => Head(hCmd) \in Clients
    BY DEF QueueTypes
  <2> QED
    BY <1>7, <2>1 DEF PopCommand, serviceVars, clientVars, refVars
<1>8. CASE Execute
  <2>1. pCmd \in Clients
    BY <1>8 DEF Execute, StageInv, LockInv, Resting, Queued, Executing, Executed,
       Answered, Free
  <2> QED
    BY <1>8, <2>1 DEF Execute, serviceVars, clientVars, refVars
<1>9. CASE UNCHANGED vars
  BY <1>9 DEF vars, clientVars, refVars, threadVars
<1> QED
  BY <1>1, <1>2, <1>3, <1>4, <1>5, <1>6, <1>7, <1>8, <1>9
     DEF Next, Acquire, Proceed, ServiceThread

\* The queue holds clients, no more than it has room for.
LEMMA QueueTypeStep ==
  ASSUME IInv, [Next]_vars
  PROVE  QueueTypes'
<1> USE ServiceAssumption DEF IInv, TypeOK, QueueTypes
<1>1. CASE hCmd' = hCmd
  BY <1>1
<1>2. CASE hCmd' = <<>>
  BY <1>2
<1>3. ASSUME NEW c \in Clients, PushCommand(c)
      PROVE  QueueTypes'
  BY <1>3 DEF PushCommand
<1>4. CASE PopCommand
  BY <1>4 DEF PopCommand
<1>5. ASSUME NEW c \in Clients, NEW tool \in {"deint", "other"}, Open(c, tool)
      PROVE  hCmd' = hCmd \/ hCmd' = <<>>
  BY <1>5 DEF Open, ServiceInit
<1>6. ASSUME NEW c \in Clients, Do(c) \/ Close(c) \/ Acquire(c) \/ PostCommand(c)
               \/ PendResult(c) \/ WakeUp(c) \/ Leave(c) \/ PostStop(c) \/ Join(c)
      PROVE  hCmd' = hCmd
  BY <1>6 DEF Do, Close, Acquire, Enter, Release, PostCommand, PendResult, WakeUp,
     Leave, PostStop, Join
<1>7. CASE TestRun \/ TestQueue \/ PendCommand \/ WakeThread \/ Execute \/ Reply
           \/ UNCHANGED vars
  <2>1. hCmd' = hCmd
    BY <1>7 DEF TestRun, TestQueue, PendCommand, WakeThread, Execute, Reply, vars
  <2> QED
    BY <1>1, <2>1
<1> QED
  BY <1>1, <1>2, <1>3, <1>4, <1>5, <1>6, <1>7 DEF Next, Proceed, ServiceThread

\* Tokens are not overdrawn: who is woken was signalled after a post.
LEMMA SemaphoreTypeStep ==
  ASSUME Sound, IInv, [Next]_vars
  PROVE  SemaphoreTypes'
<1> USE DEF IInv, TypeOK, SemaphoreTypes, Sound
<1>1. ASSUME NEW c \in Clients, NEW tool \in {"deint", "other"}, Open(c, tool)
      PROVE  SemaphoreTypes'
  <2>1. \/ UNCHANGED <<hSemCmd, hSemResult>>
        \/ hSemCmd' = NewSemaphore /\ hSemResult' = NewSemaphore
    BY <1>1 DEF Open, ServiceInit
  <2> QED
    BY <2>1, NewType
<1>2. ASSUME NEW b \in BOOLEAN, hSemCmd' = Post(hSemCmd, b), UNCHANGED hSemResult
      PROVE  SemaphoreTypes'
  BY <1>2, PostType DEF Semaphores
<1>3. ASSUME NEW b \in BOOLEAN, hSemResult' = Post(hSemResult, b), UNCHANGED hSemCmd
      PROVE  SemaphoreTypes'
  BY <1>3, PostType DEF Semaphores
<1>4. ASSUME NEW c \in Clients, PostCommand(c) \/ PostStop(c)
      PROVE  SemaphoreTypes'
  BY <1>2, <1>4 DEF PostCommand, PostStop, CommandPosted, StopPosted
<1>5. CASE Reply
  BY <1>3, <1>5 DEF Reply, ReplyPosted
<1>6. CASE PendCommand
  <2>1. hSemCmd' = Take(hSemCmd) /\ UNCHANGED hSemResult
    BY <1>6 DEF PendCommand
  <2> QED
    BY <2>1, TakeType DEF Semaphores
<1>7. ASSUME NEW c \in Clients, PendResult(c)
      PROVE  SemaphoreTypes'
  <2>1. hSemResult' = Take(hSemResult) /\ UNCHANGED hSemCmd
    BY <1>7 DEF PendResult
  <2> QED
    BY <2>1, TakeType DEF Semaphores
<1>8. CASE WakeThread
  <2>1. hSemCmd.value >= 1 /\ hSemCmd' = Woken(hSemCmd) /\ UNCHANGED hSemResult
    BY <1>8 DEF WakeThread, TokenInv
  <2> QED
    BY <2>1, WokenType DEF Semaphores
<1>9. ASSUME NEW c \in Clients, WakeUp(c)
      PROVE  SemaphoreTypes'
  <2>1. /\ hSemResult.signalled /\ hSemResult' = Woken(hSemResult) /\ UNCHANGED hSemCmd
        /\ pc[c] = "asleep"
    BY <1>9 DEF WakeUp
  <2>2. hSemResult.value = 1
    BY <2>1 DEF StageInv, Queued, Executing, Executed, Answered, NoResult
  <2> QED
    BY <2>1, <2>2, WokenType DEF Semaphores
<1>10. ASSUME NEW c \in Clients, Do(c) \/ Close(c) \/ Acquire(c) \/ PushCommand(c)
               \/ Leave(c) \/ Join(c)
      PROVE  UNCHANGED <<hSemCmd, hSemResult>>
  BY <1>10 DEF Do, Close, Acquire, Enter, Release, PushCommand, Leave, Join
<1>11. CASE TestRun \/ TestQueue \/ PopCommand \/ Execute \/ UNCHANGED vars
  <2>1. UNCHANGED <<hSemCmd, hSemResult>>
    BY <1>11 DEF TestRun, TestQueue, PopCommand, Execute, vars
  <2> QED
    BY <2>1
<1>12. CASE UNCHANGED <<hSemCmd, hSemResult>>
  BY <1>12
<1> QED
  BY <1>1, <1>4, <1>5, <1>6, <1>7, <1>8, <1>9, <1>10, <1>11, <1>12
     DEF Next, Proceed, ServiceThread

\* The library starts with no thread and no reference.
LEMMA InitIInv == Init => IInv
<1> SUFFICES ASSUME Init PROVE IInv
  OBVIOUS
<1> USE ServiceAssumption DEF Init
<1>1. hSemCmd \in Semaphores /\ hSemCmd.value = 0 /\ ~hSemCmd.signalled
      /\ hSemResult \in Semaphores /\ hSemResult.value = 0 /\ ~hSemResult.signalled
  BY NewType
<1>2. TypeOK
  <2>1. ClientTypes
    BY DEF ClientTypes, PCs
  <2>2. ServiceTypes
    BY DEF ServiceTypes, ThreadPCs
  <2>3. QueueTypes /\ SemaphoreTypes
    BY <1>1 DEF QueueTypes, SemaphoreTypes
  <2> QED
    BY <2>1, <2>2, <2>3 DEF TypeOK
<1>3. LockInv /\ RunInv
  BY DEF LockInv, RunInv, InCommand
<1>4. RefInv
  BY FS_EmptySet DEF RefInv, InCommand
<1>5. StageInv
  BY <1>1 DEF StageInv, Resting, Free, NoResult
<1>6. TokenInv
  BY <1>1 DEF TokenInv
<1> QED
  BY <1>2, <1>3, <1>4, <1>5, <1>6 DEF IInv

\* The invariant holds always.
LEMMA Invariant ==
  ASSUME Sound
  PROVE  Spec => []IInv
<1>1. IInv /\ [Next]_vars => IInv'
  BY ClientTypeStep, QueueTypeStep, SemaphoreTypeStep, LockStep, RefStep, RunStep,
     StageStep, TokenStep DEF IInv, TypeOK
<1> QED
  BY <1>1, InitIInv, PTL DEF Spec

-----------------------------------------------------------------------------
(* The theorems *)

\* Types, and tokens that are never negative.
THEOREM ServiceTyping ==
  ASSUME Sound
  PROVE  Spec => []TypeOK
<1>1. IInv => TypeOK
  BY DEF IInv
<1> QED
  BY <1>1, Invariant, PTL

\* gstInstRefCnt counts the handles, and the service runs while it is not 0.
THEOREM RunsWhileUsed ==
  ASSUME Sound
  PROVE  Spec => []ServiceWhileUsed
<1>1. IInv => ServiceWhileUsed
  BY DEF IInv, RefInv, RunInv, ServiceWhileUsed
<1> QED
  BY <1>1, Invariant, PTL

\* After the last close there is no thread and no command.
THEOREM StopsWhenUnused ==
  ASSUME Sound
  PROVE  Spec => []StoppedWhenUnused
<1>1. ASSUME IInv, refCnt = 0, instLock = NoClient
      PROVE  tpc = "off" /\ ~bThreadRun /\ hCmd = <<>>
  <2>1. session = {}
    BY <1>1, FS_EmptySet DEF IInv, RefInv
  <2>2. \A c \in Clients : pc[c] \notin InCommand
    BY <1>1, <2>1 DEF IInv, RefInv
  <2>3. hLock = NoClient
    BY <1>1, <2>2 DEF IInv, LockInv, TypeOK, ServiceTypes
  <2> QED
    BY <1>1, <2>1, <2>3 DEF IInv, RunInv, StageInv, Resting
<1>2. IInv => StoppedWhenUnused
  BY <1>1 DEF StoppedWhenUnused
<1> QED
  BY <1>2, Invariant, PTL

\* The service runs while handles are open and is gone when none is.
THEOREM RunsExactlyWhileUsed ==
  ASSUME Sound
  PROVE  Spec => []ServiceMatchesUse
<1>1. ServiceWhileUsed /\ StoppedWhenUnused => ServiceMatchesUse
  BY DEF ServiceMatchesUse
<1> QED
  BY <1>1, RunsWhileUsed, StopsWhenUnused, PTL

\* In a stage other than rest, the command is that of the holder of hLock.
LEMMA Busy ==
  ASSUME IInv, ~Resting
  PROVE  \E c \in Clients :
           /\ pc[c] \in {"post", "pend", "asleep"}
           /\ Queued(c) \/ Executing(c) \/ Executed(c) \/ Answered(c)
BY DEF IInv, TypeOK, ClientTypes, ServiceTypes, LockInv, StageInv, InCommand

\* No record on the stack of a caller that has returned is ever used.
THEOREM RecordsAlive ==
  ASSUME Sound
  PROVE  Spec => []StackAlive
<1>1. ASSUME IInv PROVE StackAlive
  <2>1. CASE Resting
    BY <2>1 DEF Resting, Free, StackAlive
  <2>2. CASE ~Resting
    <3>1. PICK c \in Clients :
            /\ pc[c] \in {"post", "pend", "asleep"}
            /\ Queued(c) \/ Executing(c) \/ Executed(c) \/ Answered(c)
      BY <1>1, <2>2, Busy
    <3>2. pCmd \in {c, NoClient} /\ hCmd \in {<<>>, <<c>>}
      BY <3>1 DEF Queued, Executing, Executed, Answered, Free
    <3> QED
      BY <3>1, <3>2 DEF StackAlive, InCommand
  <2> QED
    BY <2>1, <2>2
<1> QED
  BY <1>1, Invariant, PTL

\* No wake-up is lost, of the thread or of a caller.
THEOREM WakeUpsKept ==
  ASSUME Sound
  PROVE  Spec => []NoLostWakeUp
<1>1. ASSUME IInv PROVE NoLostWakeUp
  <2>1. ASSUME tpc = "asleep", hCmd # <<>>, ~hSemCmd.signalled
        PROVE  \E c \in Clients : pc[c] = "post"
    <3>1. PICK c \in Clients : pc[c] \in {"post", "pend", "asleep"}
      BY <1>1, <2>1, Busy DEF Resting
    <3> QED
      BY <1>1, <2>1, <3>1 DEF IInv, TokenInv
  <2>2. ASSUME NEW c \in Clients, pc[c] = "asleep", c \in served, ~hSemResult.signalled
        PROVE  tpc = "reply"
    BY <1>1, <2>2 DEF IInv, StageInv, Queued, Executing, Executed, Answered
  <2> QED
    BY <2>1, <2>2 DEF NoLostWakeUp
<1> QED
  BY <1>1, Invariant, PTL

\* A caller goes on only after its command was executed.
THEOREM ResultsWaitedFor ==
  ASSUME Sound
  PROVE  Spec => []ResultAfterService
<1>1. IInv => ResultAfterService
  BY DEF IInv, StageInv, ResultAfterService
<1> QED
  BY <1>1, Invariant, PTL

\* The state of a call that the service sees.
Call == [c \in Clients |-> IF pc[c] \notin InCommand THEN "none"
                          ELSE IF c \in served THEN "served" ELSE "waiting"]

\* A step submits, serves or delivers one command, or none.
LEMMA CallStep ==
  ASSUME Sound, IInv, [Next]_vars
  PROVE  \/ Call' = Call
         \/ \E c \in Clients :
              \/ Call[c] = "none" /\ Call' = [Call EXCEPT ![c] = "waiting"]
              \/ Call[c] = "waiting" /\ Call' = [Call EXCEPT ![c] = "served"]
              \/ Call[c] = "served" /\ Call' = [Call EXCEPT ![c] = "none"]
<1> USE DEF IInv, TypeOK, ClientTypes, InCommand, PCs, Goto
<1> DEFINE Silent == /\ \A c \in Clients : pc'[c] \in InCommand <=> pc[c] \in InCommand
                     /\ UNCHANGED served
<1>1. Silent => Call' = Call
  BY DEF Call
<1>2. ASSUME NEW c \in Clients, NEW tool \in {"deint", "other"}, Open(c, tool)
      PROVE  Silent
  BY <1>2 DEF Open
<1>3. ASSUME NEW c \in Clients, Do(c) \/ Close(c) \/ Release(c) \/ PostStop(c) \/ Join(c)
      PROVE  Silent
  BY <1>3 DEF Do, Close, Release, PostStop, Join
<1>4. ASSUME NEW c \in Clients, PushCommand(c) \/ PostCommand(c) \/ PendResult(c) \/ WakeUp(c)
      PROVE  Silent
  BY <1>4 DEF PushCommand, PostCommand, PendResult, WakeUp
<1>5. ASSUME NEW c \in Clients, Enter(c)
      PROVE  Silent \/ (Call[c] = "none" /\ Call' = [Call EXCEPT ![c] = "waiting"])
  <2>1. CASE bThreadRun
    <3>1. pc[c] = "call" /\ pc' = [pc EXCEPT ![c] = "push"] /\ served' = served \ {c}
      BY <1>5, <2>1 DEF Enter
    <3> QED
      BY <3>1 DEF Call
  <2>2. CASE ~bThreadRun
    BY <1>5, <2>2 DEF Enter, AfterCommand
  <2> QED
    BY <2>1, <2>2
<1>6. ASSUME NEW c \in Clients, Leave(c)
      PROVE  Call[c] = "served" /\ Call' = [Call EXCEPT ![c] = "none"]
  <2>1. pc[c] = "unlock" /\ c \in served /\ UNCHANGED served
    BY <1>6 DEF Leave, StageInv
  <2>2. \/ pc' = [pc EXCEPT ![c] = "release"]
        \/ pc' = [pc EXCEPT ![c] = "idle"]
    BY <1>6 DEF Leave, AfterCommand
  <2> QED
    BY <2>1, <2>2 DEF Call
<1>7. CASE Execute
  <2>1. PICK c \in Clients : Executing(c) /\ pc[c] \in {"post", "pend", "asleep"}
    BY <1>7, Busy DEF Execute, Resting, Queued, Executed, Answered, Free
  <2>2. c \notin served /\ served' = served \cup {c} /\ UNCHANGED pc
    BY <1>7, <2>1 DEF Execute, Executing, serviceVars, clientVars
  <2>3. Call[c] = "waiting" /\ Call' = [Call EXCEPT ![c] = "served"]
    BY <2>1, <2>2 DEF Call
  <2> QED
    BY <2>3
<1>8. CASE TestRun \/ TestQueue \/ PendCommand \/ WakeThread \/ PopCommand \/ Reply
           \/ UNCHANGED vars
  <2>1. UNCHANGED <<pc, served>>
    BY <1>8 DEF TestRun, TestQueue, PendCommand, WakeThread, PopCommand, Reply,
       serviceVars, clientVars, vars
  <2> QED
    BY <1>1, <2>1
<1> QED
  BY <1>1, <1>2, <1>3, <1>4, <1>5, <1>6, <1>7, <1>8
     DEF Next, Acquire, Proceed, ServiceThread

\* NX_GTServiceCommand keeps its promise: each command is executed once,
\* between its call and its return.
THEOREM ImplementsService ==
  ASSUME Sound
  PROVE  Spec => ServiceSpec
<1>1. Init => Service!ServiceInit
  BY DEF Init, Service!ServiceInit, InCommand
<1>2. IInv /\ [Next]_vars =>
        [Service!ServiceNext]_([c \in Clients |-> IF pc[c] \notin InCommand THEN "none"
                                  ELSE IF c \in served THEN "served" ELSE "waiting"])
  BY CallStep DEF Call, Service!ServiceNext, Service!Submit, Service!Serve, Service!Deliver
<1> QED
  BY <1>1, <1>2, Invariant, PTL DEF Spec, ServiceSpec, Service!ServiceSpec
=============================================================================
