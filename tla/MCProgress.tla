----------------------------- MODULE MCProgress -----------------------------
(***************************************************************************)
(* What eventually happens, for TLC.  The value of part selects the        *)
(* component that runs, under the fairness of its own module; the others   *)
(* stay in their initial states: read-copy-update, one thread that waits,  *)
(* three threads on one CPU, the read-write mutex, and a ring whose        *)
(* requests end only by their timeouts.                                    *)
(***************************************************************************)
EXTENDS Rcu, Sequences

CONSTANTS None, Idle, One, q1, Crowd, Users, Writers

VARIABLES
  part,
  wPc, wState, qs, held, err, deadline, owner, note, cpu, queue, blocked,      \* Wait
  lock, wTimer, wUptime, removing, wreq, wBatch,
  state, saved, woken, sPc, rq, run, weight, off, armed, ipi, sTodo, best,     \* Sched
  load, victim, dead,
  activeReaders, waitingWriters, hasWriter, readerQueue, writerQueue, rwPc,    \* RwMutex
  busy, mapped, thread, sq, irp, free, cqueue, ctail, chead, stack, timeouts,  \* IoRing
  now, timer, uptime, halted, sent, popped, dropped

W == INSTANCE Wait WITH
  Threads <- {"thread"}, Cpus <- {One}, Wakers <- {"waker"}, Queues <- {q1}, Orders <- {<<q1>>},
  Amounts <- {1}, Timeouts <- {0, 1, 99}, Never <- 99, MaxUptime <- 1, MinTimeout <- 1,
  AllocMayFail <- TRUE,
  pc <- wPc, state <- wState, timer <- wTimer, uptime <- wUptime, batch <- wBatch

S == INSTANCE Sched WITH
  Cpus <- {One}, Threads <- Crowd, MayBlock <- Crowd, MayDisable <- TRUE,
  pc <- sPc, todo <- sTodo

RW == INSTANCE RwMutex WITH Threads <- Users, pc <- rwPc

I == INSTANCE IoRing WITH
  Threads <- {"thread"}, Cpus <- {One}, Ops <- {"nop"}, Timeouts <- {1}, Never <- 99,
  Links <- {"none"}, Centries <- 2, Sentries <- 2, IndexMod <- 4, MaxSqes <- 2,
  MaxUptime <- 2, seen <- popped

waitVars == <<wPc, wState, qs, held, err, deadline, owner, note, cpu, queue, blocked,
              lock, wTimer, wUptime, removing, wreq, wBatch>>

schedVars == <<state, saved, woken, sPc, rq, run, weight, off, armed, ipi, sTodo, best,
               load, victim, dead>>

rwVars == <<activeReaders, waitingWriters, hasWriter, readerQueue, writerQueue, rwPc>>
ringVars == <<busy, mapped, thread, sq, irp, free, cqueue, ctail, chead, stack, timeouts,
              now, timer, uptime, halted, sent, popped, dropped>>

allVars == <<part, vars, waitVars, schedVars, rwVars, ringVars>>

MCInit ==
  /\ part \in {"rcu", "wait", "sched", "rwmutex", "ring"}
  /\ Init /\ W!Init /\ S!Init /\ RW!Init /\ I!Init
  /\ part # "rcu" => \A c \in Cpus : idle[c]

MCNext ==
  /\ UNCHANGED part
  /\ \/ part = "rcu" /\ Next /\ UNCHANGED <<waitVars, schedVars, rwVars, ringVars>>
     \/ part = "wait" /\ W!Next /\ UNCHANGED <<vars, schedVars, rwVars, ringVars>>
     \/ part = "sched" /\ S!Next /\ UNCHANGED <<vars, waitVars, rwVars, ringVars>>
     \/ part = "rwmutex" /\ RW!Next /\ UNCHANGED <<vars, waitVars, schedVars, ringVars>>
     \/ part = "ring" /\ I!Next /\ UNCHANGED <<vars, waitVars, schedVars, rwVars>>

MCSpec ==
  /\ MCInit /\ [][MCNext]_allVars
  /\ \/ part = "rcu" /\ Fairness
     \/ part = "wait" /\ W!Fairness
     \/ part = "sched" /\ S!Fairness
     \/ part = "rwmutex" /\ RW!Fairness
     \/ part = "ring" /\ I!Fairness

-----------------------------------------------------------------------------
(* GraceEnds is the one of Rcu. *)

\* A wait with a timeout ends, since wait_timer_handler() finds it, and so does the wait of
\* a thread that is sent a note while it is blocking or blocked.
WaitsEnd == W!TimedWaitEnds /\ W!NoteEndsWait

\* A thread on a run queue comes to run.
QueuedRuns == S!QueuedRuns

\* Readers do not keep a writer of the read-write mutex out for ever.
WritersGetIn == RW!WritersGetIn

\* A request with a timeout is answered.
TimedAnswered == I!TimedAnswered
=============================================================================
