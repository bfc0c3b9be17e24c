------------------------------- MODULE Mutex --------------------------------
(***************************************************************************)
(* The re-entrant sleeping mutex (src/kernel/sync/mutex.c).                *)
(*                                                                         *)
(* A region under mtx->lock is one action; between two of them, and between *)
(* the unlocked test of the owner and the first of them, anything can      *)
(* happen.  WAIT_BLOCK_LOCK queues the thread before it releases the lock, *)
(* so testing and starting to wait are one action.  A wait ends by         *)
(* wait_unblock() of a release or by a note; either way the caller tests   *)
(* the owner again.  A failed allocation of the wait entry only repeats    *)
(* the test, still under the lock, and is a stuttering step.               *)
(***************************************************************************)
EXTENDS Integers

CONSTANTS
  Threads,    \* the threads that use the mutex
  Timeouts,   \* the kinds of timeout callers pass: "zero", "some", "never"
  MaxSpin,    \* CONFIG_MUTEX_MAX_SLOW_SPIN
  MaxDepth,   \* bound on the recursion of the modelled threads
  DepthMod,   \* 2^32: mtx->depth is a uint32_t
  None

ASSUME MutexAssumption ==
  /\ Timeouts \subseteq {"zero", "some", "never"}
  /\ MaxSpin \in Nat
  /\ MaxDepth \in Nat \ {0}
  /\ DepthMod \in Nat /\ MaxDepth < DepthMod
  /\ None \notin Threads

VARIABLES
  owner,    \* mtx->owner
  depth,    \* mtx->depth
  waiters,  \* threads on mtx->waitQueue
  pc,       \* where each thread is in mutex_acquire_timeout()
  timeout,  \* its argument
  spin,     \* its local counter
  holds,    \* how many successful acquisitions the thread has not released
  stolen    \* history: a finite timeout overrode an owner

vars == <<owner, depth, waiters, pc, timeout, spin, holds, stolen>>

TypeOK ==
  /\ owner \in Threads \cup {None}
  /\ depth \in 0..(DepthMod - 1)
  /\ waiters \subseteq Threads
  /\ pc \in [Threads -> {"run", "spin", "wait"}]
  /\ timeout \in [Threads -> {"zero", "some", "never"}]
  /\ spin \in [Threads -> Nat] /\ \A t \in Threads : spin[t] <= MaxSpin
  /\ holds \in [Threads -> Nat]
  /\ stolen \in BOOLEAN

\* mutex_init()
Init ==
  /\ owner = None
  /\ depth = 0
  /\ waiters = {}
  /\ pc = [t \in Threads |-> "run"]
  /\ timeout = [t \in Threads |-> "never"]
  /\ spin = [t \in Threads |-> 0]
  /\ holds = [t \in Threads |-> 0]
  /\ stolen = FALSE

-----------------------------------------------------------------------------
(* mutex_acquire_timeout() *)

\* The caller goes on as an owner, or without the mutex.
Take(t) ==
  /\ owner' = t
  /\ depth' = 1
  /\ holds' = [holds EXCEPT ![t] = @ + 1]
  /\ pc' = [pc EXCEPT ![t] = "run"]

Fail(t) ==
  /\ pc' = [pc EXCEPT ![t] = "run"]
  /\ UNCHANGED <<owner, depth, holds>>

\* The fast path, without the lock.
AcquireAgain(t) ==
  /\ pc[t] = "run"
  /\ owner = t
  /\ holds[t] < MaxDepth
  /\ depth' = (depth + 1) % DepthMod
  /\ holds' = [holds EXCEPT ![t] = @ + 1]
  /\ UNCHANGED <<owner, waiters, pc, timeout, spin, stolen>>

Acquire(t) ==
  /\ pc[t] = "run"
  /\ owner # t
  /\ holds[t] < MaxDepth
  /\ \E k \in Timeouts : timeout' = [timeout EXCEPT ![t] = k]
  /\ spin' = [spin EXCEPT ![t] = 0]
  /\ pc' = [pc EXCEPT ![t] = "spin"]
  /\ UNCHANGED <<owner, depth, waiters, holds, stolen>>

SpinTake(t) ==
  /\ pc[t] = "spin" /\ spin[t] < MaxSpin
  /\ owner = None
  /\ Take(t)
  /\ UNCHANGED <<waiters, timeout, spin, stolen>>

SpinAgain(t) ==
  /\ pc[t] = "spin" /\ spin[t] < MaxSpin
  /\ owner # None
  /\ spin' = [spin EXCEPT ![t] = @ + 1]
  /\ UNCHANGED <<owner, depth, waiters, pc, timeout, holds, stolen>>

SpinEnd(t) ==
  /\ pc[t] = "spin" /\ spin[t] = MaxSpin
  /\ IF timeout[t] = "zero" THEN Fail(t)
     ELSE pc' = [pc EXCEPT ![t] = "wait"] /\ UNCHANGED <<owner, depth, holds>>
  /\ UNCHANGED <<waiters, timeout, spin, stolen>>

Waiting(t, k) == pc[t] = "wait" /\ t \notin waiters /\ timeout[t] = k

\* Mutant: a woken thread does not test the owner again.
Free_NotTested == TRUE

Free == owner = None

\* WAIT_BLOCK_LOCK on the owner.
WaitTake(t) ==
  /\ Waiting(t, "never")
  /\ Free
  /\ Take(t)
  /\ UNCHANGED <<waiters, timeout, spin, stolen>>

WaitBlock(t) ==
  /\ Waiting(t, "never")
  /\ ~Free
  /\ waiters' = waiters \cup {t}
  /\ UNCHANGED <<owner, depth, pc, timeout, spin, holds, stolen>>

\* A note ends the wait with EINTR, the caller's loop waits again.
WaitError(t) ==
  /\ t \in waiters
  /\ waiters' = waiters \ {t}
  /\ UNCHANGED <<owner, depth, pc, timeout, spin, holds, stolen>>

\* A finite timeout that has passed by the time the lock is taken.
TimedOut(t) ==
  /\ Waiting(t, "some")
  /\ Fail(t)
  /\ UNCHANGED <<waiters, timeout, spin, stolen>>

\* The loop of WAIT_BLOCK_LOCK_TIMEOUT runs only while its result is ERR, which
\* it is not at first: the macro returns 0 at once, whoever owns the mutex.
TimedTake(t) ==
  /\ Waiting(t, "some")
  /\ Take(t)
  /\ stolen' = (stolen \/ ~Free)
  /\ UNCHANGED <<waiters, timeout, spin>>

-----------------------------------------------------------------------------
(* mutex_release() *)

\* Mutant: nobody is unblocked.
Unblocked_Nobody == {}

\* wait_unblock() of "one" waiter scans the queue until it finds no blocked
\* thread any more and so unblocks every waiter.
Unblocked == waiters

\* Mutant: the first release of a recursive owner gives the mutex away.
LastRelease_First == TRUE

LastRelease == depth = 1

\* The assertion that t is the owner is not compiled into a release build, so
\* the model goes on without it; OwnerHolds states that it cannot fail.
Release(t) ==
  /\ pc[t] = "run"
  /\ holds[t] > 0
  /\ depth' = (depth - 1) % DepthMod
  /\ holds' = [holds EXCEPT ![t] = @ - 1]
  /\ IF LastRelease
     THEN /\ owner' = None
          /\ waiters' = waiters \ Unblocked
     ELSE UNCHANGED <<owner, waiters>>
  /\ UNCHANGED <<pc, timeout, spin, stolen>>

-----------------------------------------------------------------------------
Next ==
  \E t \in Threads :
    \/ AcquireAgain(t) \/ Acquire(t) \/ SpinTake(t) \/ SpinAgain(t) \/ SpinEnd(t)
    \/ WaitTake(t) \/ WaitBlock(t) \/ WaitError(t) \/ TimedOut(t) \/ TimedTake(t)
    \/ Release(t)

Spec == Init /\ [][Next]_vars

-----------------------------------------------------------------------------
(* Properties *)

\* Until a finite timeout overrides an owner: the thread that believes it holds
\* the mutex is its recorded owner, as many times deep, which mutex_release()
\* asserts; no other thread believes so.
OwnerHolds ==
  ~stolen => \A t \in Threads : IF owner = t THEN depth = holds[t] /\ depth > 0
                                ELSE holds[t] = 0

\* No thread holds the mutex together with another one (mutex.h,
\* mutex_acquire_timeout() returns "true if the mutex was acquired, false if the
\* timeout was reached").
MutualExclusion ==
  \A t, u \in Threads : holds[t] > 0 /\ holds[u] > 0 => t = u

\* No wakeup is lost: a thread sleeps only while somebody owns the mutex and
\* has yet to release it.
NoLostWakeup == waiters # {} => owner # None

\* Until a finite timeout overrides an owner the mutex is an exclusive lock:
\* SharedLock that is never shared.
Lock == INSTANCE SharedLock WITH
  readers <- {}, writers <- IF stolen THEN {} ELSE {t \in Threads : holds[t] > 0}

ImplementsLock == Lock!Spec
=============================================================================
