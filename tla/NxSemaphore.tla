------------------------------ MODULE NxSemaphore ------------------------------
(***************************************************************************)
(* NX_Semaphore of libnxgraphictools: a counter and a condition variable.   *)
(* A semaphore is a record of its value and whether the thread asleep in    *)
(* NX_SemaporePend has been signalled; each semaphore has one such thread   *)
(* at most (NX_GTService pends on hSemCmd from the service thread alone and *)
(* on hSemResult under hLock).  maxValue only decides what NX_SemaporePost  *)
(* returns, which nobody reads.  TakeBug is a plausible mistake.            *)
(***************************************************************************)
EXTENDS Integers

Semaphores == [value : Int, signalled : BOOLEAN]

\* NX_SemaporeInit(max, 0)
NewSemaphore == [value |-> 0, signalled |-> FALSE]

\* NX_SemaporePost: a signal that finds nobody asleep is lost.
Post(sem, asleep) ==
  [value |-> sem.value + 1, signalled |-> sem.signalled \/ asleep]

\* NX_SemaporePend sleeps at 0, takes one above, and returns at once below.
MustSleep(sem) == sem.value = 0

TakeBug(sem) == [sem EXCEPT !.value = @ - 1]
Take(sem) == IF sem.value > 0 THEN [sem EXCEPT !.value = @ - 1] ELSE sem

\* pthread_cond_wait has returned, signalled or not: the value is not tested
\* again.
Woken(sem) == [value |-> sem.value - 1, signalled |-> FALSE]
=============================================================================
