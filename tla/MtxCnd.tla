------------------------------- MODULE MtxCnd -------------------------------
(***************************************************************************)
(* The monitor the threaded servers are built on: a clMutex and a          *)
(* clCondition of the external libDSP library, which wrap a pthread mutex  *)
(* and a pthread condition variable.  The servers use five operations of   *)
(* them: Mtx.Wait() (lock), Mtx.Release() (unlock), Cnd.Wait(mutex),       *)
(* Cnd.NotifyAll(), and whatever else makes pthread_cond_wait() return.    *)
(*                                                                         *)
(* A thread in the wait set is blocked inside Cnd.Wait().  Leaving it is   *)
(* not enough to run on: the thread still has to lock the mutex again.     *)
(***************************************************************************)
CONSTANT NoThread   \* the owner of a mutex nobody holds

VARIABLES Mtx,      \* the thread that holds the mutex, or NoThread
          Cnd       \* the wait set: the threads blocked in Cnd.Wait()

Lock(t) ==
    /\ Mtx = NoThread
    /\ Mtx' = t

Unlock ==
    Mtx' = NoThread

\* Gives the mutex back and blocks, in one step as POSIX demands.
Wait(t) ==
    /\ Unlock
    /\ Cnd' = Cnd \cup {t}

NotifyAll ==
    Cnd' = {}

\* POSIX allows pthread_cond_wait() to return although nobody notified.
Spurious(t) ==
    /\ t \in Cnd
    /\ Cnd' = Cnd \ {t}
=============================================================================
