------------------------------- MODULE Sched --------------------------------
(***************************************************************************)
(* Where threads are (src/kernel/sched/sched.c): the run queue, the        *)
(* running thread and the total weight of every CPU, sched_do() with its   *)
(* work stealing, and sched_submit() from other CPUs.                      *)
(*                                                                         *)
(* sched_do() holds the lock of its own CPU from "locked" to the switch;   *)
(* what it does there that other CPUs can see is a step of its own.  Every *)
(* other critical section under a scheduler lock is one step.              *)
(*                                                                         *)
(* All threads weigh 1, so a CPU's total weight counts its threads.  Which *)
(* eligible thread sched_first_eligible() returns is left open, and so is  *)
(* whether a thread is cache-hot and hence which CPU sched_submit() picks. *)
(* The waiting subsystem is reduced to the state changes it makes: module  *)
(* Wait has the details.                                                   *)
(***************************************************************************)
EXTENDS Integers, FiniteSets

CONSTANTS
  Cpus,
  Threads,
  MayBlock,    \* the threads that wait
  MayDisable,  \* whether threads call sched_disable()
  Idle,        \* the idle thread of any CPU
  None

ASSUME SchedAssumption ==
  /\ IsFiniteSet(Cpus) /\ Cpus # {}
  /\ IsFiniteSet(Threads)
  /\ MayBlock \subseteq Threads
  /\ MayDisable \in BOOLEAN
  /\ Idle \notin Threads
  /\ None \notin Threads \cup Cpus

VARIABLES
  state,    \* thread->state
  saved,    \* thread->frame holds the context the thread stopped in
  woken,    \* threads taken out of THREAD_BLOCKED, to be submitted by a waker
  pc,       \* where each CPU is in sched_do()
  rq,       \* sched->runqueue
  run,      \* sched->runThread
  weight,   \* sched->totalWeight
  off,      \* sched->preemptCount is not zero
  armed,    \* the CPU's timer is armed
  ipi,      \* a wake-up IPI is pending
  todo, best, load,  \* the loop of sched_steal() over the other CPUs
  victim,   \* the thread sched_steal() returned
  dead      \* threadToFree

threadVars == <<state, saved, woken>>
intVars    == <<off, armed, ipi>>
stealVars  == <<todo, best, load, victim>>
vars == <<threadVars, pc, rq, run, weight, intVars, stealVars, dead>>

Pcs == {"run", "locked", "blocking", "picking", "sampling", "stealing", "entering", "freeing"}

TypeOK ==
  /\ state \in [Threads -> {"new", "active", "pre_block", "blocked", "unblocking", "dying",
                            "freed"}]
  /\ saved \in [Threads -> BOOLEAN]
  /\ woken \subseteq Threads
  /\ pc \in [Cpus -> Pcs]
  /\ rq \in [Cpus -> SUBSET Threads]
  /\ run \in [Cpus -> Threads \cup {Idle}]
  /\ weight \in [Cpus -> Nat]
  /\ off \in [Cpus -> BOOLEAN] /\ armed \in [Cpus -> BOOLEAN] /\ ipi \in [Cpus -> BOOLEAN]
  /\ todo \in [Cpus -> SUBSET Cpus]
  /\ best \in [Cpus -> Cpus \cup {None}]
  /\ load \in [Cpus -> Int]
  /\ victim \in [Cpus -> Threads \cup {None}]
  /\ dead \in [Cpus -> Threads \cup {None}]

\* Every CPU runs its idle thread, no thread was submitted yet.
Init ==
  /\ state = [t \in Threads |-> "new"]
  /\ saved = [t \in Threads |-> TRUE]
  /\ woken = {}
  /\ pc = [c \in Cpus |-> "run"]
  /\ rq = [c \in Cpus |-> {}]
  /\ run = [c \in Cpus |-> Idle]
  /\ weight = [c \in Cpus |-> 0]
  /\ off = [c \in Cpus |-> FALSE]
  /\ armed = [c \in Cpus |-> FALSE]
  /\ ipi = [c \in Cpus |-> FALSE]
  /\ todo = [c \in Cpus |-> {}]
  /\ best = [c \in Cpus |-> None]
  /\ load = [c \in Cpus |-> 0]
  /\ victim = [c \in Cpus |-> None]
  /\ dead = [c \in Cpus |-> None]

\* sched->lock is held by sched_do() of its own CPU.
Locked(c) == pc[c] \notin {"run", "freeing"}

\* sched_leave() and sched_enter().
Leave(c, t) ==
  /\ rq' = [rq EXCEPT ![c] = @ \ {t}]
  /\ weight' = [weight EXCEPT ![c] = @ - 1]

\* Mutant: the thread is not queued.
Enter_NotQueued(c, t) ==
  /\ UNCHANGED <<rq, weight>>
  /\ state' = [state EXCEPT ![t] = "active"]

Enter(c, t) ==
  /\ rq' = [rq EXCEPT ![c] = @ \cup {t}]
  /\ weight' = [weight EXCEPT ![c] = @ + 1]
  /\ state' = [state EXCEPT ![t] = "active"]

Goto(c, next) == pc' = [pc EXCEPT ![c] = next]

-----------------------------------------------------------------------------
(* What the running thread does *)

Running(c, t) == pc[c] = "run" /\ run[c] = t /\ t # Idle /\ state[t] = "active"

\* Who disabled preemption is not kept: a thread may have moved since, and the count that
\* sched_enable() lowers is the one of the CPU it is called on.
SchedDisable(c) ==
  /\ MayDisable
  /\ ~off[c]
  /\ \E t \in Threads : Running(c, t)
  /\ off' = [off EXCEPT ![c] = TRUE]
  /\ UNCHANGED <<threadVars, pc, rq, run, weight, armed, ipi, stealVars, dead>>

SchedEnable(c) ==
  /\ off[c]
  /\ \E t \in Threads : Running(c, t)
  /\ off' = [off EXCEPT ![c] = FALSE]
  /\ UNCHANGED <<threadVars, pc, rq, run, weight, armed, ipi, stealVars, dead>>

\* wait_block_prepare() and wait_block_commit(); sched_thread_exit().  Nothing keeps a thread
\* from doing so with preemption disabled: the count of the CPU then stays up.
StopRunning(c, t, next) ==
  /\ Running(c, t)
  /\ state' = [state EXCEPT ![t] = next]
  /\ UNCHANGED <<saved, woken, pc, rq, run, weight, intVars, stealVars, dead>>

Block(c, t) == t \in MayBlock /\ StopRunning(c, t, "pre_block")
Exit(c, t)  == StopRunning(c, t, "dying")

\* A waker finds the thread before it is blocked ...
UnblockEarly(t) ==
  /\ state[t] = "pre_block"
  /\ state' = [state EXCEPT ![t] = "unblocking"]
  /\ UNCHANGED <<saved, woken, pc, rq, run, weight, intVars, stealVars, dead>>

\* ... or after, and then has to submit it.
Unblock(t) ==
  /\ state[t] = "blocked"
  /\ state' = [state EXCEPT ![t] = "unblocking"]
  /\ woken' = woken \cup {t}
  /\ UNCHANGED <<saved, pc, rq, run, weight, intVars, stealVars, dead>>

\* Mutant: the CPU is not woken up.
Submit_NoIpi(t, c) ==
  /\ t \in woken \/ state[t] = "new"
  /\ ~Locked(c)
  /\ Enter(c, t)
  /\ woken' = woken \ {t}
  /\ UNCHANGED <<saved, pc, run, off, armed, ipi, stealVars, dead>>

\* sched_submit() of a new or of an unblocked thread.
Submit(t, c) ==
  /\ t \in woken \/ state[t] = "new"
  /\ ~Locked(c)
  /\ Enter(c, t)
  /\ woken' = woken \ {t}
  /\ ipi' = [ipi EXCEPT ![c] = TRUE]
  /\ UNCHANGED <<saved, pc, run, off, armed, stealVars, dead>>

-----------------------------------------------------------------------------
(* sched_do(), entered from a timer interrupt, a wake-up IPI, the ipi_invoke() *)
(* of a thread that blocks or exits, or any other interrupt.                   *)

\* The early returns: preemption is disabled and the running thread, maybe the idle one,
\* goes on; or there is nothing to do.  Neither arms the timer.
Skips(c) ==
  \/ off[c] /\ (run[c] # Idle => state[run[c]] = "active")
  \/ run[c] = Idle /\ rq[c] = {}

SchedDo(c) ==
  /\ pc[c] = "run"
  /\ IF Skips(c) THEN UNCHANGED pc ELSE Goto(c, "locked")
  /\ UNCHANGED <<threadVars, rq, run, weight, off, stealVars, dead>>

\* timer_ack_eoi() leaves the timer disarmed.
TimerInterrupt(c) ==
  /\ armed[c]
  /\ armed' = [armed EXCEPT ![c] = FALSE]
  /\ SchedDo(c)
  /\ UNCHANGED ipi

IpiInterrupt(c) ==
  /\ ipi[c]
  /\ ipi' = [ipi EXCEPT ![c] = FALSE]
  /\ SchedDo(c)
  /\ UNCHANGED armed

IpiInvoke(c) ==
  /\ run[c] # Idle /\ state[run[c]] # "active"
  /\ SchedDo(c)
  /\ UNCHANGED <<armed, ipi>>

OtherInterrupt(c) == SchedDo(c) /\ ~Skips(c) /\ UNCHANGED <<armed, ipi>>

\* The switch on the state of the thread that ran.
KeepRunnable(c) ==
  /\ pc[c] = "locked"
  /\ run[c] # Idle => state[run[c]] = "active"
  /\ Goto(c, "picking")
  /\ UNCHANGED <<threadVars, rq, run, weight, intVars, stealVars, dead>>

LeaveDying(c) ==
  /\ pc[c] = "locked" /\ run[c] # Idle
  /\ state[run[c]] = "dying"
  /\ Leave(c, run[c])
  /\ dead' = [dead EXCEPT ![c] = run[c]]
  /\ Goto(c, "picking")
  /\ UNCHANGED <<threadVars, run, intVars, stealVars>>

\* wait_block_finalize() returns false: unblocked too early, or a note.
FinalizeEarly(c) ==
  /\ pc[c] = "locked" /\ run[c] # Idle
  /\ state[run[c]] \in {"unblocking", "pre_block"}
  /\ state' = [state EXCEPT ![run[c]] = "active"]
  /\ Goto(c, "picking")
  /\ UNCHANGED <<saved, woken, rq, run, weight, intVars, stealVars, dead>>

\* wait_block_finalize() returns true.  From here on the thread can be
\* unblocked and submitted by others, although it is still on the run queue.
FinalizeBlock(c) ==
  /\ pc[c] = "locked" /\ run[c] # Idle
  /\ state[run[c]] = "pre_block"
  /\ state' = [state EXCEPT ![run[c]] = "blocked"]
  /\ Goto(c, "blocking")
  /\ UNCHANGED <<saved, woken, rq, run, weight, intVars, stealVars, dead>>

LeaveBlocked(c) ==
  /\ pc[c] = "blocking"
  /\ Leave(c, run[c])
  /\ Goto(c, "picking")
  /\ UNCHANGED <<threadVars, run, intVars, stealVars, dead>>

\* Context switch, unlock, and a new time slice unless the CPU goes idle.
Switch(c, next) ==
  /\ saved' = [t \in Threads |-> IF next = run[c] THEN saved[t]
                                 ELSE IF t = run[c] THEN TRUE
                                 ELSE IF t = next THEN FALSE ELSE saved[t]]
  /\ run' = [run EXCEPT ![c] = next]
  /\ armed' = [armed EXCEPT ![c] = @ \/ next # Idle]
  /\ Goto(c, IF dead[c] = None THEN "run" ELSE "freeing")

\* sched_first_eligible() on a run queue that is not empty.
PickQueued(c, t) ==
  /\ pc[c] = "picking"
  /\ t \in rq[c]
  /\ Switch(c, t)
  /\ UNCHANGED <<state, woken, rq, weight, off, ipi, stealVars, dead>>

\* sched_steal(): the weights of the other CPUs are read without any lock.
StealStart(c) ==
  /\ pc[c] = "picking"
  /\ rq[c] = {}
  /\ todo' = [todo EXCEPT ![c] = Cpus \ {c}]
  /\ best' = [best EXCEPT ![c] = None]
  /\ load' = [load EXCEPT ![c] = 0]
  /\ Goto(c, "sampling")
  /\ UNCHANGED <<threadVars, rq, run, weight, intVars, victim, dead>>

\* Mutant: a CPU without load is a candidate.
MoreLoaded_NoLoad(c, d) == weight[d] >= load[c]

MoreLoaded(c, d) == weight[d] > load[c]

StealSample(c) ==
  /\ pc[c] = "sampling"
  /\ \E d \in todo[c] :
       /\ todo' = [todo EXCEPT ![c] = @ \ {d}]
       /\ IF MoreLoaded(c, d)
          THEN /\ best' = [best EXCEPT ![c] = d]
               /\ load' = [load EXCEPT ![c] = weight[d]]
          ELSE UNCHANGED <<best, load>>
  /\ UNCHANGED <<threadVars, pc, rq, run, weight, intVars, victim, dead>>

StealLock(c) ==
  /\ pc[c] = "sampling" /\ todo[c] = {}
  /\ best[c] # None
  /\ Goto(c, "stealing")
  /\ UNCHANGED <<threadVars, rq, run, weight, intVars, stealVars, dead>>

\* A thread that runs must not be stolen, one that is cache-hot is not.
Stealable(d) == rq[d] \ {run[d]}

\* Mutant: the stolen thread stays where it was.
StealThread_NotRemoved(c) ==
  /\ pc[c] = "stealing" /\ ~Locked(best[c])
  /\ \E t \in Stealable(best[c]) : victim' = [victim EXCEPT ![c] = t]
  /\ Goto(c, "entering")
  /\ UNCHANGED <<threadVars, rq, weight, run, intVars, todo, best, load, dead>>

\* Under the lock of the most loaded CPU.
StealThread(c) ==
  /\ pc[c] = "stealing" /\ ~Locked(best[c])
  /\ \E t \in Stealable(best[c]) :
       /\ Leave(best[c], t)
       /\ victim' = [victim EXCEPT ![c] = t]
  /\ Goto(c, "entering")
  /\ UNCHANGED <<threadVars, run, intVars, todo, best, load, dead>>

\* The idle thread is next: no CPU had any load, or every thread there runs or
\* is cache-hot.
StealNothing(c) ==
  /\ \/ pc[c] = "sampling" /\ todo[c] = {} /\ best[c] = None
     \/ pc[c] = "stealing" /\ ~Locked(best[c])
  /\ Switch(c, Idle)
  /\ UNCHANGED <<state, woken, rq, weight, off, ipi, stealVars, dead>>

EnterVictim(c) ==
  /\ pc[c] = "entering"
  /\ Enter(c, victim[c])
  /\ victim' = [victim EXCEPT ![c] = None]
  /\ Switch(c, victim[c])
  /\ UNCHANGED <<woken, off, ipi, todo, best, load, dead>>

\* thread_free(), after the switch.
FreeThread(c) ==
  /\ pc[c] = "freeing"
  /\ state' = [state EXCEPT ![dead[c]] = "freed"]
  /\ dead' = [dead EXCEPT ![c] = None]
  /\ Goto(c, "run")
  /\ UNCHANGED <<saved, woken, rq, run, weight, intVars, stealVars>>

-----------------------------------------------------------------------------
ThreadStep(c) ==
  \/ SchedDisable(c) \/ SchedEnable(c)
  \/ \E t \in Threads : Block(c, t) \/ Exit(c, t)

InterruptStep(c) ==
  TimerInterrupt(c) \/ IpiInterrupt(c) \/ IpiInvoke(c) \/ OtherInterrupt(c)

SchedStep(c) ==
  \/ KeepRunnable(c) \/ LeaveDying(c) \/ FinalizeEarly(c) \/ FinalizeBlock(c)
  \/ LeaveBlocked(c) \/ StealStart(c) \/ StealSample(c) \/ StealLock(c)
  \/ StealThread(c) \/ StealNothing(c) \/ EnterVictim(c) \/ FreeThread(c)

Next ==
  \/ \E c \in Cpus : ThreadStep(c) \/ InterruptStep(c) \/ SchedStep(c)
  \/ \E c \in Cpus, t \in Threads : PickQueued(c, t) \/ Submit(t, c)
  \/ \E t \in Threads : UnblockEarly(t) \/ Unblock(t)

Spec == Init /\ [][Next]_vars

\* sched_do() runs to its end; armed timers fire, IPIs are delivered, a thread
\* that blocks or exits enters sched_do().  EEVDF selects every queued thread
\* eventually (strong fairness of PickQueued).  Nothing makes a thread block,
\* exit, be unblocked, or enable preemption again.
Fairness ==
  /\ \A c \in Cpus : /\ WF_vars(SchedStep(c))
                     /\ WF_vars(TimerInterrupt(c)) /\ WF_vars(IpiInterrupt(c))
                     /\ WF_vars(IpiInvoke(c))
                     /\ \A t \in Threads : SF_vars(PickQueued(c, t))
  /\ \A t \in Threads : WF_vars(\E c \in Cpus : Submit(t, c))

FairSpec == Spec /\ Fairness

-----------------------------------------------------------------------------
(* Properties *)

\* A thread is in one place: on one run queue, or taken from one and about to
\* enter another, or on none.
OneRunQueue ==
  \A t \in Threads : \A c, d \in Cpus :
    /\ t \in rq[c] /\ t \in rq[d] => c = d
    /\ t \in rq[c] => victim[d] # t
    /\ victim[c] = t /\ victim[d] = t => c = d

\* What sched_verify() panics on at the beginning of sched_do().
Verified ==
  \A c \in Cpus : pc[c] = "locked" =>
    /\ run[c] # Idle => run[c] \in rq[c]
    /\ weight[c] = Cardinality(rq[c])
    /\ \A t \in rq[c] : state[t] = "active" \/ t = run[c]

\* The default case of sched_do()'s switch panics.
ValidRunState ==
  \A c \in Cpus : pc[c] = "locked" /\ run[c] # Idle =>
    state[run[c]] \in {"dying", "pre_block", "unblocking", "active"}

\* A thread that some CPU may load next has its whole context in thread->frame,
\* and no two CPUs run the same thread.
ContextSaved ==
  /\ \A c \in Cpus : \A t \in rq[c] : t # run[c] => saved[t]
  /\ \A c, d \in Cpus : run[c] = run[d] /\ run[c] # Idle => c = d

\* A runnable thread is not forgotten: it is queued, or on its way from one
\* queue to another; and a freed thread neither runs nor can be picked.
NoThreadLost ==
  \A t \in Threads :
    /\ state[t] = "active" => \E c \in Cpus : t \in rq[c] \/ victim[c] = t
    /\ state[t] = "freed" => \A c \in Cpus : run[c] # t /\ t \notin rq[c] /\ victim[c] # t

\* Whatever CPUs steal and threads leave: the weight of a run queue is that of its threads,
\* only a thread whose context is saved is run elsewhere, and no thread that may run is off
\* every queue.
RunQueuesSound == Verified /\ ContextSaved /\ NoThreadLost

\* CPUs that steal keep their own lock while they wait for another one's; they
\* never wait for each other in a circle.
StealAcyclic ==
  \A S \in (SUBSET Cpus) \ {{}} :
    \E c \in S : ~(pc[c] = "stealing" /\ best[c] \in S)

\* Nothing will make the CPU enter sched_do() and look at its run queue: preemption is
\* disabled, or a thread runs without a timer, because its interrupt came while preemption
\* was disabled, sched_do() returned at once, and sched_enable() arms nothing.
Stranded(c) ==
  off[c] \/ (pc[c] = "run" /\ run[c] # Idle /\ ~armed[c] /\ ~ipi[c])

\* Every queued thread gets to run (sched.h, "create the illusion that multiple
\* threads are running simultaneously on a single CPU"), whoever blocks, exits or disables
\* preemption when, unless a CPU is stranded for ever.
QueuedRuns ==
  \/ \E c \in Cpus : <>[]Stranded(c)
  \/ \A t \in Threads : (\E c \in Cpus : t \in rq[c]) ~> (\E c \in Cpus : run[c] = t)
=============================================================================
