--------------------------------- MODULE Mtx --------------------------------
(***************************************************************************)
(* The mutex of user space (mtx_lock() and mtx_unlock() under              *)
(* src/libstd/user/functions/thread) on the futex of the kernel            *)
(* (src/kernel/sync/futex.c).                                              *)
(*                                                                         *)
(* FUTEX_WAIT queues the thread first, compares the value then, and        *)
(* commits or cancels; a wake that comes between takes the thread off the  *)
(* queue, and the commit returns at once.  The attempts of the spinning    *)
(* phase are the same compare-and-exchange as the ones of the loop.        *)
(***************************************************************************)
EXTENDS Naturals, FiniteSets

CONSTANTS Threads, MaxDepth, None

VARIABLES
  state,     \* mutex->state: 0 unlocked, 1 locked, 2 contested
  owner, depth,
  queue,     \* the wait queue of the futex
  pc

vars == <<state, owner, depth, queue, pc>>

Init ==
  /\ state = 0 /\ owner = None /\ depth = 0 /\ queue = {}
  /\ pc = [t \in Threads |-> "run"]

Goto(t, from, to) == pc[t] = from /\ pc' = [pc EXCEPT ![t] = to]

\* mtx_lock() of the owner
LockAgain(t) ==
  /\ pc[t] = "run" /\ owner = t /\ depth < MaxDepth
  /\ depth' = depth + 1 /\ UNCHANGED <<state, owner, queue, pc>>

Lock(t) ==
  /\ owner # t /\ Goto(t, "run", "try") /\ UNCHANGED <<state, owner, depth, queue>>

\* The compare-and-exchange; a failed one knows what it found.
Try(t) ==
  /\ \/ state = 0 /\ Goto(t, "try", "own") /\ state' = 1
     \/ state = 1 /\ Goto(t, "try", "mark") /\ UNCHANGED state
     \/ state = 2 /\ Goto(t, "try", "prepare") /\ UNCHANGED state
  /\ UNCHANGED <<owner, depth, queue>>

Own(t) ==
  /\ Goto(t, "own", "run") /\ owner' = t /\ depth' = 1 /\ UNCHANGED <<state, queue>>

Mark(t) ==
  /\ Goto(t, "mark", "prepare")
  /\ state' = IF state = 1 THEN 2 ELSE state
  /\ UNCHANGED <<owner, depth, queue>>

\* SYS_FUTEX with FUTEX_WAIT
Prepare(t) ==
  /\ Goto(t, "prepare", "compare") /\ queue' = queue \cup {t}
  /\ UNCHANGED <<state, owner, depth>>

Compare(t) ==
  /\ IF state = 2
     THEN Goto(t, "compare", "commit") /\ UNCHANGED queue
     ELSE Goto(t, "compare", "try") /\ queue' = queue \ {t}
  /\ UNCHANGED <<state, owner, depth>>

\* wait_block_commit() returns, because of a wake, or of a note for the thread.
Commit(t) ==
  /\ Goto(t, "commit", "try") /\ t \notin queue /\ UNCHANGED <<state, owner, depth, queue>>

Noted(t) ==
  /\ Goto(t, "commit", "try") /\ t \in queue /\ queue' = queue \ {t}
  /\ UNCHANGED <<state, owner, depth>>

\* mtx_unlock()
Unlock(t) ==
  /\ owner = t /\ depth' = depth - 1
  /\ IF depth > 1
     THEN pc[t] = "run" /\ UNCHANGED <<owner, pc>>
     ELSE Goto(t, "run", "exchange") /\ owner' = None
  /\ UNCHANGED <<state, queue>>

Exchange(t) ==
  /\ Goto(t, "exchange", IF state = 2 THEN "wake" ELSE "run")
  /\ state' = 0 /\ UNCHANGED <<owner, depth, queue>>

\* SYS_FUTEX with FUTEX_WAKE: the amount is 1, but that is how many wait_unblock() wakes in one
\* pass.  It releases the lock of the queue and goes on until a pass finds nobody to wake.
Wake(t) ==
  /\ \/ queue = {} /\ Goto(t, "wake", "run") /\ UNCHANGED queue
     \/ pc[t] = "wake" /\ (\E u \in queue : queue' = queue \ {u}) /\ UNCHANGED pc
  /\ UNCHANGED <<state, owner, depth>>

Next ==
  \E t \in Threads :
    \/ LockAgain(t) \/ Lock(t) \/ Try(t) \/ Own(t) \/ Mark(t)
    \/ Prepare(t) \/ Compare(t) \/ Commit(t) \/ Noted(t)
    \/ Unlock(t) \/ Exchange(t) \/ Wake(t)

Spec == Init /\ [][Next]_vars

\* Every step of the mutex is a step of a lock at most one thread holds.
Holders == {t \in DOMAIN pc : owner = t \/ pc[t] \in {"own", "exchange"}}
Abstract == INSTANCE SharedLock WITH readers <- {}, writers <- Holders
ImplementsLock == Abstract!Spec

\* While a thread sleeps in FUTEX_WAIT, another one holds the mutex and will see from its state
\* that it is contested, or is waking the queue: nobody is forgotten in front of the mutex.
NoLostWakeup ==
  \A t \in Threads : pc[t] = "commit" /\ t \in queue =>
    \E u \in Threads \ {t} : (state = 2 /\ u \in Holders) \/ pc[u] = "wake"
=============================================================================
