------------------------------ MODULE RwMutex -------------------------------
(***************************************************************************)
(* The sleeping read-write mutex (src/kernel/sync/rwmutex.c), which lets   *)
(* writers go first.  Every operation is one region under mtx->lock, left  *)
(* only inside WAIT_BLOCK_LOCK, which queues the thread before it releases *)
(* the lock and takes the lock again before it tests its condition.  A     *)
(* wait that ends by a note or fails for lack of memory is tried again.    *)
(***************************************************************************)
EXTENDS Integers, FiniteSets

CONSTANTS
  Threads,
  Writers   \* the threads that write; the others only read

VARIABLES
  activeReaders, waitingWriters, hasWriter,
  readerQueue, writerQueue,  \* the threads on the wait queues
  pc   \* what each thread does with the mutex

vars == <<activeReaders, waitingWriters, hasWriter, readerQueue, writerQueue, pc>>

TypeOK ==
  /\ activeReaders \in Nat
  /\ waitingWriters \in Nat
  /\ hasWriter \in BOOLEAN
  /\ readerQueue \subseteq Threads
  /\ writerQueue \subseteq Threads
  /\ pc \in [Threads -> {"run", "read_wait", "reading", "write_wait", "writing"}]

\* rwmutex_init()
Init ==
  /\ activeReaders = 0
  /\ waitingWriters = 0
  /\ hasWriter = FALSE
  /\ readerQueue = {}
  /\ writerQueue = {}
  /\ pc = [t \in Threads |-> "run"]

-----------------------------------------------------------------------------
(* Readers *)

\* Mutant: readers overtake waiting writers.
ReadersMayEnter_Overtake == ~hasWriter

ReadersMayEnter == ~(hasWriter \/ waitingWriters > 0)

\* rwmutex_read_acquire(), its first or a later test of the condition.
ReadAcquire(t) ==
  /\ pc[t] = "run" \/ (pc[t] = "read_wait" /\ t \notin readerQueue)
  /\ IF ReadersMayEnter
     THEN /\ activeReaders' = activeReaders + 1
          /\ pc' = [pc EXCEPT ![t] = "reading"]
          /\ UNCHANGED readerQueue
     ELSE /\ readerQueue' = readerQueue \cup {t}
          /\ pc' = [pc EXCEPT ![t] = "read_wait"]
          /\ UNCHANGED activeReaders
  /\ UNCHANGED <<waitingWriters, hasWriter, writerQueue>>

ReadTryAcquire(t) ==
  /\ pc[t] = "run"
  /\ ReadersMayEnter
  /\ activeReaders' = activeReaders + 1
  /\ pc' = [pc EXCEPT ![t] = "reading"]
  /\ UNCHANGED <<waitingWriters, hasWriter, readerQueue, writerQueue>>

\* wait_unblock() of "one" writer scans the queue until it finds no blocked
\* thread any more and so unblocks them all.
ReadRelease(t) ==
  /\ pc[t] = "reading"
  /\ activeReaders' = activeReaders - 1
  /\ writerQueue' = IF activeReaders' = 0 /\ waitingWriters > 0 THEN {} ELSE writerQueue
  /\ pc' = [pc EXCEPT ![t] = "run"]
  /\ UNCHANGED <<waitingWriters, hasWriter, readerQueue>>

-----------------------------------------------------------------------------
(* Writers *)

WriterMayEnter == ~(activeReaders > 0 \/ hasWriter)

\* rwmutex_write_acquire(): the writer is counted, then tests the condition.
WriteAcquire(t) ==
  /\ t \in Writers
  /\ pc[t] = "run"
  /\ IF WriterMayEnter
     THEN /\ hasWriter' = TRUE
          /\ pc' = [pc EXCEPT ![t] = "writing"]
          /\ UNCHANGED <<waitingWriters, writerQueue>>
     ELSE /\ waitingWriters' = waitingWriters + 1
          /\ writerQueue' = writerQueue \cup {t}
          /\ pc' = [pc EXCEPT ![t] = "write_wait"]
          /\ UNCHANGED hasWriter
  /\ UNCHANGED <<activeReaders, readerQueue>>

\* Mutant: the writer that got in is still counted as waiting.
WriteRetest_StillCounted(t) ==
  /\ pc[t] = "write_wait" /\ t \notin writerQueue
  /\ IF WriterMayEnter
     THEN /\ hasWriter' = TRUE
          /\ pc' = [pc EXCEPT ![t] = "writing"]
          /\ UNCHANGED writerQueue
     ELSE /\ writerQueue' = writerQueue \cup {t}
          /\ UNCHANGED <<hasWriter, pc>>
  /\ UNCHANGED <<activeReaders, waitingWriters, readerQueue>>

\* Its loop, after the wait.
WriteRetest(t) ==
  /\ pc[t] = "write_wait" /\ t \notin writerQueue
  /\ IF WriterMayEnter
     THEN /\ waitingWriters' = waitingWriters - 1
          /\ hasWriter' = TRUE
          /\ pc' = [pc EXCEPT ![t] = "writing"]
          /\ UNCHANGED writerQueue
     ELSE /\ writerQueue' = writerQueue \cup {t}
          /\ UNCHANGED <<waitingWriters, hasWriter, pc>>
  /\ UNCHANGED <<activeReaders, readerQueue>>

WriteTryAcquire(t) ==
  /\ t \in Writers
  /\ pc[t] = "run"
  /\ WriterMayEnter
  /\ hasWriter' = TRUE
  /\ pc' = [pc EXCEPT ![t] = "writing"]
  /\ UNCHANGED <<activeReaders, waitingWriters, readerQueue, writerQueue>>

\* Mutant: readers are never unblocked.
WriteRelease_NoReaders(t) ==
  /\ pc[t] = "writing"
  /\ hasWriter' = FALSE
  /\ writerQueue' = {}
  /\ pc' = [pc EXCEPT ![t] = "run"]
  /\ UNCHANGED <<activeReaders, waitingWriters, readerQueue>>

WriteRelease(t) ==
  /\ pc[t] = "writing"
  /\ hasWriter' = FALSE
  /\ IF waitingWriters > 0 THEN writerQueue' = {} /\ UNCHANGED readerQueue
                           ELSE readerQueue' = {} /\ UNCHANGED writerQueue
  /\ pc' = [pc EXCEPT ![t] = "run"]
  /\ UNCHANGED <<activeReaders, waitingWriters>>

\* A note ends the wait of a thread.
Interrupt(t) ==
  /\ t \in readerQueue \cup writerQueue
  /\ readerQueue' = readerQueue \ {t}
  /\ writerQueue' = writerQueue \ {t}
  /\ UNCHANGED <<activeReaders, waitingWriters, hasWriter, pc>>

-----------------------------------------------------------------------------
Next ==
  \E t \in Threads :
    \/ ReadAcquire(t) \/ ReadTryAcquire(t) \/ ReadRelease(t)
    \/ WriteAcquire(t) \/ WriteRetest(t) \/ WriteTryAcquire(t) \/ WriteRelease(t)
    \/ Interrupt(t)

Spec == Init /\ [][Next]_vars

\* Holders release the mutex and a woken thread tests its condition: mtx->lock
\* is a ticket lock.  Nobody has to ask for the mutex.
Fairness ==
  \A t \in Threads : /\ WF_vars(ReadRelease(t)) /\ WF_vars(WriteRelease(t))
                     /\ WF_vars(WriteRetest(t))
                     /\ WF_vars(pc[t] = "read_wait" /\ ReadAcquire(t))

FairSpec == Spec /\ Fairness

-----------------------------------------------------------------------------
(* Properties *)

In(where) == {t \in Threads : pc[t] \in where}

\* The counters, which every decision is based on, agree with what the threads
\* do: rwmutex_read_release() asserts that activeReaders is positive,
\* rwmutex_deinit() that all three are zero once nobody uses the mutex.
Counted ==
  /\ activeReaders = Cardinality(In({"reading"}))
  /\ waitingWriters = Cardinality(In({"write_wait"}))
  /\ hasWriter = (In({"writing"}) # {})

\* No wakeup is lost.  A reader sleeps only while a writer is in or waits; a
\* writer sleeps only while the mutex is held or another waiting writer is awake.
NoLostWakeup ==
  /\ readerQueue # {} => hasWriter \/ waitingWriters > 0
  /\ writerQueue # {} => hasWriter \/ activeReaders > 0 \/ In({"write_wait"}) # writerQueue

\* Readers and at most one writer exclude each other.
Lock == INSTANCE SharedLock WITH
  readers <- In({"reading"}), writers <- In({"writing"})

ImplementsLock == Lock!Spec

\* However many readers come and go, a waiting writer is not kept out by them
\* (rwmutex.h: the implementation "prioritizes writers over readers"): it, or
\* another writer, gets in.
WritersGetIn == (waitingWriters > 0) ~> hasWriter
=============================================================================
