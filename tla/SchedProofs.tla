---------------------------- MODULE SchedProofs -----------------------------
(***************************************************************************)
(* Proofs about Sched, for any number of CPUs and threads, waiting or not, *)
(* and about the waits that run beside it in MCScheduling, which are       *)
(* instances of Wait: what WaitProofs shows of them, for the properties    *)
(* that the run checks.                                                    *)
(***************************************************************************)
EXTENDS MCScheduling, FiniteSetTheorems, TLAPS

\* Thread t has blocked on CPU c, which has yet to take it off its run queue.
Stale(c, t) == pc[c] = "blocking" /\ run[c] = t

\* What each place in sched_do() knows.
Places ==
  \A c \in Cpus :
    /\ pc[c] = "entering" <=> victim[c] # None
    /\ pc[c] = "freeing" => dead[c] # None
    /\ pc[c] = "blocking" => run[c] # Idle
    /\ pc[c] \in {"sampling", "stealing"} => load[c] >= 0
    /\ pc[c] = "stealing" => best[c] # None

\* A CPU that looks for a thread elsewhere has none itself.
StealsWhenEmpty ==
  \A c \in Cpus : pc[c] \in {"sampling", "stealing", "entering"} => rq[c] = {}

\* The thread a CPU runs stays on its run queue until sched_do() decides.
RunQueued ==
  \A c \in Cpus : pc[c] \in {"run", "freeing", "locked", "blocking"} /\ run[c] # Idle
                    => run[c] \in rq[c]

\* Apart from stale entries a thread is in one place, and one that waits or is
\* new is in none.
Settled ==
  \A t \in Threads : \A c, d \in Cpus :
    /\ t \in rq[c] /\ t \in rq[d] => c = d \/ Stale(c, t) \/ Stale(d, t)
    /\ t \in rq[c] /\ victim[d] = t => Stale(c, t)
    /\ victim[c] = t /\ victim[d] = t => c = d
    /\ state[t] \in {"new", "blocked"} \/ t \in woken =>
         (t \in rq[c] => Stale(c, t)) /\ victim[c] # t

\* sched->totalWeight is the weight of what is queued, always.
Weighed == \A c \in Cpus : weight[c] = Cardinality(rq[c])

\* The CPU a stealing one has its eye on was not stealing when it was sampled.
\* A chain of such CPUs ends at one that is not stealing, or has found nothing.
ChainsEnd ==
  \A S \in (SUBSET Cpus) \ {{}} :
    \E c \in S : ~(pc[c] \in {"sampling", "stealing"} /\ best[c] \in S)

Inv == TypeOK /\ Places /\ StealsWhenEmpty /\ RunQueued /\ Settled /\ Weighed

-----------------------------------------------------------------------------
(* Run queues are finite: the weight can be counted *)

\* The cardinality of a run queue is a number.
LEMMA QueueFinite ==
  ASSUME NEW Q \in SUBSET Threads
  PROVE  IsFiniteSet(Q) /\ Cardinality(Q) \in Nat /\ (Cardinality(Q) = 0 <=> Q = {})
  BY SchedAssumption, FS_Subset, FS_CardinalityType, FS_EmptySet

\* A thread that enters adds one.
LEMMA QueueEnter ==
  ASSUME NEW Q \in SUBSET Threads, NEW t \in Threads, t \notin Q
  PROVE  Cardinality(Q \cup {t}) = Cardinality(Q) + 1
  BY QueueFinite, FS_AddElement

\* A thread that leaves subtracts one.
LEMMA QueueLeave ==
  ASSUME NEW Q \in SUBSET Threads, NEW t \in Q
  PROVE  Cardinality(Q \ {t}) = Cardinality(Q) - 1
  BY QueueFinite, FS_RemoveElement

\* sched_enter() keeps the weight right for a thread that is not queued.
LEMMA EnterWeighed ==
  ASSUME TypeOK, Weighed, NEW c \in Cpus, NEW t \in Threads, t \notin rq[c], Enter(c, t)
  PROVE  Weighed' /\ weight' \in [Cpus -> Nat]
<1>1. rq[c] \in SUBSET Threads /\ weight[c] = Cardinality(rq[c])
  BY DEF TypeOK, Weighed
<1>2. Cardinality(rq[c] \cup {t}) = weight[c] + 1
  BY <1>1, QueueEnter
<1> QED BY <1>2 DEF Enter, Weighed, TypeOK

\* sched_leave() keeps the weight right, and not negative, for a queued thread.
LEMMA LeaveWeighed ==
  ASSUME TypeOK, Weighed, NEW c \in Cpus, NEW t \in rq[c], Leave(c, t)
  PROVE  Weighed' /\ weight' \in [Cpus -> Nat]
<1>1. rq[c] \in SUBSET Threads /\ weight[c] = Cardinality(rq[c])
  BY DEF TypeOK, Weighed
<1>2. Cardinality(rq[c] \ {t}) = weight[c] - 1
  BY <1>1, QueueLeave
<1>3. weight[c] # 0
  BY <1>1, QueueFinite
<1> QED BY <1>2, <1>3 DEF Leave, Weighed, TypeOK

-----------------------------------------------------------------------------
(* The invariant is inductive *)

\* Each place of sched_do() is reached with what it needs.
LEMMA PlacesStep == Inv /\ [Next]_vars => Places'
<1> SUFFICES ASSUME Inv, [Next]_vars PROVE Places'
  OBVIOUS
<1>h. TypeOK /\ Places
  BY DEF Inv
<1>g. None \notin Threads /\ None \notin Cpus
  BY SchedAssumption
<1> USE DEF Places, TypeOK, threadVars, intVars, stealVars
<1>a. ASSUME NEW c \in Cpus, SchedDisable(c) \/ SchedEnable(c) PROVE Places'
  BY <1>a, <1>h DEF SchedDisable, SchedEnable
<1>b. ASSUME NEW c \in Cpus, NEW t \in Threads, Block(c, t) \/ Exit(c, t) PROVE Places'
  BY <1>b, <1>h DEF Block, Exit, StopRunning, Running
<1>i. ASSUME NEW c \in Cpus, InterruptStep(c) PROVE Places'
  BY <1>i, <1>h DEF InterruptStep, TimerInterrupt, IpiInterrupt, IpiInvoke, OtherInterrupt,
          SchedDo, Goto
<1>k. ASSUME NEW c \in Cpus, KeepRunnable(c) PROVE Places'
  BY <1>k, <1>h DEF KeepRunnable, Goto
<1>d. ASSUME NEW c \in Cpus, LeaveDying(c) PROVE Places'
  BY <1>d, <1>h DEF LeaveDying, Leave, Goto
<1>e. ASSUME NEW c \in Cpus, FinalizeEarly(c) PROVE Places'
  BY <1>e, <1>h DEF FinalizeEarly, Goto
<1>f. ASSUME NEW c \in Cpus, FinalizeBlock(c) PROVE Places'
  BY <1>f, <1>h DEF FinalizeBlock, Goto
<1>l. ASSUME NEW c \in Cpus, LeaveBlocked(c) PROVE Places'
  BY <1>l, <1>h DEF LeaveBlocked, Leave, Goto
<1>p. ASSUME NEW c \in Cpus, NEW t \in Threads, PickQueued(c, t) PROVE Places'
  BY <1>p, <1>h DEF PickQueued, Switch, Goto
<1>s. ASSUME NEW c \in Cpus, StealStart(c) PROVE Places'
  BY <1>s, <1>h DEF StealStart, Goto
<1>m. ASSUME NEW c \in Cpus, StealSample(c) PROVE Places'
  BY <1>m, <1>h DEF StealSample
<1>o. ASSUME NEW c \in Cpus, StealLock(c) PROVE Places'
  BY <1>o, <1>h DEF StealLock, Goto
<1>t. ASSUME NEW c \in Cpus, StealThread(c) PROVE Places'
  BY <1>t, <1>h, <1>g DEF StealThread, Stealable, Leave, Goto
<1>n. ASSUME NEW c \in Cpus, StealNothing(c) PROVE Places'
  BY <1>n, <1>h DEF StealNothing, Switch, Goto
<1>v. ASSUME NEW c \in Cpus, EnterVictim(c) PROVE Places'
  BY <1>v, <1>h DEF EnterVictim, Enter, Switch, Goto
<1>r. ASSUME NEW c \in Cpus, FreeThread(c) PROVE Places'
  BY <1>r, <1>h DEF FreeThread, Goto
<1>u. ASSUME NEW c \in Cpus, NEW t \in Threads, Submit(t, c) PROVE Places'
  BY <1>u, <1>h DEF Submit, Enter, Locked
<1>x. ASSUME NEW t \in Threads, UnblockEarly(t) PROVE Places'
  BY <1>x, <1>h DEF UnblockEarly
<1>y. ASSUME NEW t \in Threads, Unblock(t) PROVE Places'
  BY <1>y, <1>h DEF Unblock
<1>z. CASE UNCHANGED vars
  BY <1>z, <1>h DEF vars
<1> QED
  BY <1>a, <1>b, <1>i, <1>k, <1>d, <1>e, <1>f, <1>l, <1>p, <1>s,
     <1>m, <1>o, <1>t, <1>n, <1>v, <1>r, <1>u, <1>x, <1>y, <1>z
     DEF Next, ThreadStep, SchedStep

\* Nobody adds to the run queue of a CPU that is locked.
LEMMA EmptyStep == Inv /\ [Next]_vars => StealsWhenEmpty'
<1> SUFFICES ASSUME Inv, [Next]_vars PROVE StealsWhenEmpty'
  OBVIOUS
<1>h. TypeOK /\ Places /\ StealsWhenEmpty
  BY DEF Inv
<1> USE DEF StealsWhenEmpty, TypeOK, threadVars, intVars, stealVars
<1>a. ASSUME NEW c \in Cpus, SchedDisable(c) \/ SchedEnable(c) PROVE StealsWhenEmpty'
  BY <1>a, <1>h DEF SchedDisable, SchedEnable
<1>b. ASSUME NEW c \in Cpus, NEW t \in Threads, Block(c, t) \/ Exit(c, t) PROVE StealsWhenEmpty'
  BY <1>b, <1>h DEF Block, Exit, StopRunning, Running
<1>i. ASSUME NEW c \in Cpus, InterruptStep(c) PROVE StealsWhenEmpty'
  BY <1>i, <1>h DEF InterruptStep, TimerInterrupt, IpiInterrupt, IpiInvoke, OtherInterrupt,
          SchedDo, Goto
<1>k. ASSUME NEW c \in Cpus, KeepRunnable(c) PROVE StealsWhenEmpty'
  BY <1>k, <1>h DEF KeepRunnable, Goto
<1>d. ASSUME NEW c \in Cpus, LeaveDying(c) PROVE StealsWhenEmpty'
  BY <1>d, <1>h DEF LeaveDying, Leave, Goto
<1>e. ASSUME NEW c \in Cpus, FinalizeEarly(c) PROVE StealsWhenEmpty'
  BY <1>e, <1>h DEF FinalizeEarly, Goto
<1>f. ASSUME NEW c \in Cpus, FinalizeBlock(c) PROVE StealsWhenEmpty'
  BY <1>f, <1>h DEF FinalizeBlock, Goto
<1>l. ASSUME NEW c \in Cpus, LeaveBlocked(c) PROVE StealsWhenEmpty'
  BY <1>l, <1>h DEF LeaveBlocked, Leave, Goto
<1>p. ASSUME NEW c \in Cpus, NEW t \in Threads, PickQueued(c, t) PROVE StealsWhenEmpty'
  BY <1>p, <1>h DEF PickQueued, Switch, Goto
<1>s. ASSUME NEW c \in Cpus, StealStart(c) PROVE StealsWhenEmpty'
  BY <1>s, <1>h DEF StealStart, Goto
<1>m. ASSUME NEW c \in Cpus, StealSample(c) PROVE StealsWhenEmpty'
  BY <1>m, <1>h DEF StealSample
<1>o. ASSUME NEW c \in Cpus, StealLock(c) PROVE StealsWhenEmpty'
  BY <1>o, <1>h DEF StealLock, Goto
<1>t. ASSUME NEW c \in Cpus, StealThread(c) PROVE StealsWhenEmpty'
  BY <1>t, <1>h DEF StealThread, Stealable, Leave, Goto
<1>n. ASSUME NEW c \in Cpus, StealNothing(c) PROVE StealsWhenEmpty'
  BY <1>n, <1>h DEF StealNothing, Switch, Goto
<1>v. ASSUME NEW c \in Cpus, EnterVictim(c) PROVE StealsWhenEmpty'
  BY <1>v, <1>h DEF EnterVictim, Enter, Switch, Goto
<1>r. ASSUME NEW c \in Cpus, FreeThread(c) PROVE StealsWhenEmpty'
  BY <1>r, <1>h DEF FreeThread, Goto
<1>u. ASSUME NEW c \in Cpus, NEW t \in Threads, Submit(t, c) PROVE StealsWhenEmpty'
  BY <1>u, <1>h DEF Submit, Enter, Locked
<1>x. ASSUME NEW t \in Threads, UnblockEarly(t) PROVE StealsWhenEmpty'
  BY <1>x, <1>h DEF UnblockEarly
<1>y. ASSUME NEW t \in Threads, Unblock(t) PROVE StealsWhenEmpty'
  BY <1>y, <1>h DEF Unblock
<1>z. CASE UNCHANGED vars
  BY <1>z, <1>h DEF vars
<1> QED
  BY <1>a, <1>b, <1>i, <1>k, <1>d, <1>e, <1>f, <1>l, <1>p, <1>s,
     <1>m, <1>o, <1>t, <1>n, <1>v, <1>r, <1>u, <1>x, <1>y, <1>z
     DEF Next, ThreadStep, SchedStep

\* A running thread is not stolen.
LEMMA RunQueuedStep == Inv /\ [Next]_vars => RunQueued'
<1> SUFFICES ASSUME Inv, [Next]_vars PROVE RunQueued'
  OBVIOUS
<1>h. TypeOK /\ Places /\ RunQueued
  BY DEF Inv
<1> USE DEF RunQueued, TypeOK, threadVars, intVars, stealVars
<1>a. ASSUME NEW c \in Cpus, SchedDisable(c) \/ SchedEnable(c) PROVE RunQueued'
  BY <1>a, <1>h DEF SchedDisable, SchedEnable
<1>b. ASSUME NEW c \in Cpus, NEW t \in Threads, Block(c, t) \/ Exit(c, t) PROVE RunQueued'
  BY <1>b, <1>h DEF Block, Exit, StopRunning, Running
<1>i. ASSUME NEW c \in Cpus, InterruptStep(c) PROVE RunQueued'
  BY <1>i, <1>h DEF InterruptStep, TimerInterrupt, IpiInterrupt, IpiInvoke, OtherInterrupt,
          SchedDo, Goto
<1>k. ASSUME NEW c \in Cpus, KeepRunnable(c) PROVE RunQueued'
  BY <1>k, <1>h DEF KeepRunnable, Goto
<1>d. ASSUME NEW c \in Cpus, LeaveDying(c) PROVE RunQueued'
  BY <1>d, <1>h DEF LeaveDying, Leave, Goto
<1>e. ASSUME NEW c \in Cpus, FinalizeEarly(c) PROVE RunQueued'
  BY <1>e, <1>h DEF FinalizeEarly, Goto
<1>f. ASSUME NEW c \in Cpus, FinalizeBlock(c) PROVE RunQueued'
  BY <1>f, <1>h DEF FinalizeBlock, Goto
<1>l. ASSUME NEW c \in Cpus, LeaveBlocked(c) PROVE RunQueued'
  BY <1>l, <1>h DEF LeaveBlocked, Leave, Goto
<1>p. ASSUME NEW c \in Cpus, NEW t \in Threads, PickQueued(c, t) PROVE RunQueued'
  BY <1>p, <1>h DEF PickQueued, Switch, Goto
<1>s. ASSUME NEW c \in Cpus, StealStart(c) PROVE RunQueued'
  BY <1>s, <1>h DEF StealStart, Goto
<1>m. ASSUME NEW c \in Cpus, StealSample(c) PROVE RunQueued'
  BY <1>m, <1>h DEF StealSample
<1>o. ASSUME NEW c \in Cpus, StealLock(c) PROVE RunQueued'
  BY <1>o, <1>h DEF StealLock, Goto
<1>t. ASSUME NEW c \in Cpus, StealThread(c) PROVE RunQueued'
  BY <1>t, <1>h DEF StealThread, Stealable, Leave, Goto
<1>n. ASSUME NEW c \in Cpus, StealNothing(c) PROVE RunQueued'
  BY <1>n, <1>h DEF StealNothing, Switch, Goto
<1>v. ASSUME NEW c \in Cpus, EnterVictim(c) PROVE RunQueued'
  BY <1>v, <1>h DEF EnterVictim, Enter, Switch, Goto
<1>r. ASSUME NEW c \in Cpus, FreeThread(c) PROVE RunQueued'
  BY <1>r, <1>h DEF FreeThread, Goto
<1>u. ASSUME NEW c \in Cpus, NEW t \in Threads, Submit(t, c) PROVE RunQueued'
  BY <1>u, <1>h DEF Submit, Enter, Locked
<1>x. ASSUME NEW t \in Threads, UnblockEarly(t) PROVE RunQueued'
  BY <1>x, <1>h DEF UnblockEarly
<1>y. ASSUME NEW t \in Threads, Unblock(t) PROVE RunQueued'
  BY <1>y, <1>h DEF Unblock
<1>z. CASE UNCHANGED vars
  BY <1>z, <1>h DEF vars
<1> QED
  BY <1>a, <1>b, <1>i, <1>k, <1>d, <1>e, <1>f, <1>l, <1>p, <1>s,
     <1>m, <1>o, <1>t, <1>n, <1>v, <1>r, <1>u, <1>x, <1>y, <1>z
     DEF Next, ThreadStep, SchedStep

\* A thread enters a queue only from nowhere or from one it has left.
LEMMA SettledStep == Inv /\ [Next]_vars => Settled'
<1> SUFFICES ASSUME Inv, [Next]_vars PROVE Settled'
  OBVIOUS
<1>h. TypeOK /\ Places /\ StealsWhenEmpty /\ RunQueued /\ Settled
  BY DEF Inv
<1>g. None \notin Threads /\ Idle \notin Threads
  BY SchedAssumption
<1> USE DEF Settled, Stale, TypeOK, threadVars, intVars, stealVars
<1>a. ASSUME NEW c \in Cpus, SchedDisable(c) \/ SchedEnable(c) PROVE Settled'
  BY <1>a, <1>h DEF SchedDisable, SchedEnable
<1>b. ASSUME NEW c \in Cpus, NEW t \in Threads, Block(c, t) \/ Exit(c, t) PROVE Settled'
  BY <1>b, <1>h DEF Block, Exit, StopRunning, Running, RunQueued
<1>i. ASSUME NEW c \in Cpus, InterruptStep(c) PROVE Settled'
  BY <1>i, <1>h DEF InterruptStep, TimerInterrupt, IpiInterrupt, IpiInvoke, OtherInterrupt,
          SchedDo, Goto
<1>k. ASSUME NEW c \in Cpus, KeepRunnable(c) PROVE Settled'
  BY <1>k, <1>h DEF KeepRunnable, Goto
<1>d. ASSUME NEW c \in Cpus, LeaveDying(c) PROVE Settled'
  BY <1>d, <1>h DEF LeaveDying, Leave, Goto, RunQueued
<1>e. ASSUME NEW c \in Cpus, FinalizeEarly(c) PROVE Settled'
  BY <1>e, <1>h DEF FinalizeEarly, Goto, RunQueued
<1>f. ASSUME NEW c \in Cpus, FinalizeBlock(c) PROVE Settled'
  BY <1>f, <1>h DEF FinalizeBlock, Goto, RunQueued
<1>l. ASSUME NEW c \in Cpus, LeaveBlocked(c) PROVE Settled'
  BY <1>l, <1>h DEF LeaveBlocked, Leave, Goto
<1>p. ASSUME NEW c \in Cpus, NEW t \in Threads, PickQueued(c, t) PROVE Settled'
  BY <1>p, <1>h DEF PickQueued, Switch, Goto
<1>s. ASSUME NEW c \in Cpus, StealStart(c) PROVE Settled'
  BY <1>s, <1>h DEF StealStart, Goto
<1>m. ASSUME NEW c \in Cpus, StealSample(c) PROVE Settled'
  BY <1>m, <1>h DEF StealSample
<1>o. ASSUME NEW c \in Cpus, StealLock(c) PROVE Settled'
  BY <1>o, <1>h DEF StealLock, Goto
<1>t. ASSUME NEW c \in Cpus, StealThread(c) PROVE Settled'
  <2>1. PICK v \in Stealable(best[c]) : Leave(best[c], v) /\ victim' = [victim EXCEPT ![c] = v]
    BY <1>t DEF StealThread
  <2>2. best[c] \in Cpus /\ ~Locked(best[c]) /\ pc[c] = "stealing"
    BY <1>t, <1>h DEF StealThread, Places
  <2>3. v \in Threads /\ v \in rq[best[c]] /\ ~Stale(best[c], v)
    BY <1>h, <2>1, <2>2 DEF Stealable, Locked
  <2>4. \A d \in Cpus : (v \in rq[d] => d = best[c] \/ Stale(d, v)) /\ victim[d] # v
    BY <1>h, <2>2, <2>3
  <2>5. state[v] \notin {"new", "blocked"} /\ v \notin woken
    BY <1>h, <2>2, <2>3
  <2>6. rq' = [rq EXCEPT ![best[c]] = @ \ {v}] /\ pc' = [pc EXCEPT ![c] = "entering"]
        /\ UNCHANGED <<run, state, woken>>
    BY <1>t, <2>1 DEF StealThread, Leave, Goto
  <2> HIDE DEF Settled
  <2>7. \A u \in Threads, d \in Cpus : Stale(d, u)' <=> Stale(d, u)
    BY <2>2, <2>6
  <2>8. \A u \in Threads, d \in Cpus :
          /\ u \in rq'[d] <=> u \in rq[d] /\ ~(u = v /\ d = best[c])
          /\ victim'[d] = u <=> (IF d = c THEN u = v ELSE victim[d] = u)
    BY <1>h, <2>1, <2>2, <2>3, <2>6
  <2>9. \A u \in Threads : victim[c] # u
    BY <1>h, <1>g, <2>2 DEF Places
  <2> HIDE DEF Stale
  <2> QED BY <1>h, <2>2, <2>3, <2>4, <2>5, <2>6, <2>7, <2>8, <2>9 DEF Settled
<1>n. ASSUME NEW c \in Cpus, StealNothing(c) PROVE Settled'
  BY <1>n, <1>h DEF StealNothing, Switch, Goto
<1>v. ASSUME NEW c \in Cpus, EnterVictim(c) PROVE Settled'
  <2>1. victim[c] \in Threads /\ rq[c] = {}
    BY <1>v, <1>h DEF EnterVictim, Places, StealsWhenEmpty
  <2>2. PICK w \in Threads : w = victim[c]
    BY <2>1
  <2>3. \A d \in Cpus : w \in rq[d] => Stale(d, w)
    BY <2>2, <1>h
  <2> QED BY <1>v, <1>h, <1>g, <2>1, <2>2, <2>3 DEF EnterVictim, Enter, Switch, Goto
<1>r. ASSUME NEW c \in Cpus, FreeThread(c) PROVE Settled'
  BY <1>r, <1>h DEF FreeThread, Goto
<1>u. ASSUME NEW c \in Cpus, NEW t \in Threads, Submit(t, c) PROVE Settled'
  BY <1>u, <1>h DEF Submit, Enter, Locked, Places
<1>x. ASSUME NEW t \in Threads, UnblockEarly(t) PROVE Settled'
  BY <1>x, <1>h DEF UnblockEarly
<1>y. ASSUME NEW t \in Threads, Unblock(t) PROVE Settled'
  BY <1>y, <1>h DEF Unblock
<1>z. CASE UNCHANGED vars
  BY <1>z, <1>h DEF vars
<1> QED
  BY <1>a, <1>b, <1>i, <1>k, <1>d, <1>e, <1>f, <1>l, <1>p, <1>s,
     <1>m, <1>o, <1>t, <1>n, <1>v, <1>r, <1>u, <1>x, <1>y, <1>z
     DEF Next, ThreadStep, SchedStep

\* Types and weights: a weight is decremented only for a thread that is queued.
LEMMA TypeOKStep == Inv /\ [Next]_vars => TypeOK' /\ Weighed'
<1> SUFFICES ASSUME Inv, [Next]_vars PROVE TypeOK' /\ Weighed'
  OBVIOUS
<1>h. TypeOK /\ Places /\ StealsWhenEmpty /\ RunQueued /\ Settled /\ Weighed
  BY DEF Inv
<1>g. None \notin Threads
  BY SchedAssumption
<1>q. ASSUME UNCHANGED <<rq, weight>> PROVE Weighed'
  BY <1>q, <1>h DEF Weighed
<1> USE DEF Pcs, threadVars, intVars, stealVars
<1>a. ASSUME NEW c \in Cpus, SchedDisable(c) \/ SchedEnable(c) PROVE TypeOK' /\ Weighed'
  BY <1>a, <1>h, <1>q DEF SchedDisable, SchedEnable, TypeOK
<1>b. ASSUME NEW c \in Cpus, NEW t \in Threads, Block(c, t) \/ Exit(c, t) PROVE TypeOK' /\
        Weighed'
  BY <1>b, <1>h, <1>q DEF Block, Exit, StopRunning, Running, TypeOK
<1>i. ASSUME NEW c \in Cpus, InterruptStep(c) PROVE TypeOK' /\ Weighed'
  BY <1>i, <1>h, <1>q DEF InterruptStep, TimerInterrupt, IpiInterrupt, IpiInvoke, OtherInterrupt,
          SchedDo, Goto, TypeOK
<1>k. ASSUME NEW c \in Cpus, KeepRunnable(c) PROVE TypeOK' /\ Weighed'
  BY <1>k, <1>h, <1>q DEF KeepRunnable, Goto, TypeOK
<1>d. ASSUME NEW c \in Cpus, LeaveDying(c) PROVE TypeOK' /\ Weighed'
  <2>1. run[c] \in rq[c] /\ run[c] \in Threads /\ Leave(c, run[c])
    BY <1>d, <1>h DEF LeaveDying, RunQueued, TypeOK
  <2>2. Weighed' /\ weight' \in [Cpus -> Nat]
    BY <1>h, <2>1, LeaveWeighed
  <2> QED BY <1>d, <1>h, <2>1, <2>2 DEF LeaveDying, Leave, Goto, TypeOK
<1>e. ASSUME NEW c \in Cpus, FinalizeEarly(c) PROVE TypeOK' /\ Weighed'
  BY <1>e, <1>h, <1>q DEF FinalizeEarly, Goto, TypeOK
<1>f. ASSUME NEW c \in Cpus, FinalizeBlock(c) PROVE TypeOK' /\ Weighed'
  BY <1>f, <1>h, <1>q DEF FinalizeBlock, Goto, TypeOK
<1>l. ASSUME NEW c \in Cpus, LeaveBlocked(c) PROVE TypeOK' /\ Weighed'
  <2>1. run[c] \in rq[c] /\ Leave(c, run[c])
    BY <1>l, <1>h DEF LeaveBlocked, RunQueued, Places
  <2>2. Weighed' /\ weight' \in [Cpus -> Nat]
    BY <1>h, <2>1, LeaveWeighed
  <2> QED BY <1>l, <1>h, <2>1, <2>2 DEF LeaveBlocked, Leave, Goto, TypeOK
<1>p. ASSUME NEW c \in Cpus, NEW t \in Threads, PickQueued(c, t) PROVE TypeOK' /\ Weighed'
  BY <1>p, <1>h, <1>q DEF PickQueued, Switch, Goto, TypeOK
<1>s. ASSUME NEW c \in Cpus, StealStart(c) PROVE TypeOK' /\ Weighed'
  BY <1>s, <1>h, <1>q DEF StealStart, Goto, TypeOK
<1>m. ASSUME NEW c \in Cpus, StealSample(c) PROVE TypeOK' /\ Weighed'
  BY <1>m, <1>h, <1>q DEF StealSample, TypeOK
<1>o. ASSUME NEW c \in Cpus, StealLock(c) PROVE TypeOK' /\ Weighed'
  BY <1>o, <1>h, <1>q DEF StealLock, Goto, TypeOK
<1>t. ASSUME NEW c \in Cpus, StealThread(c) PROVE TypeOK' /\ Weighed'
  <2>1. PICK v \in Stealable(best[c]) : Leave(best[c], v) /\ victim' = [victim EXCEPT ![c] = v]
    BY <1>t DEF StealThread
  <2>2. best[c] \in Cpus
    BY <1>t, <1>h DEF StealThread, Places, TypeOK
  <2>3. v \in rq[best[c]] /\ v \in Threads
    BY <1>h, <2>1, <2>2 DEF Stealable, TypeOK
  <2>4. Weighed' /\ weight' \in [Cpus -> Nat]
    BY <1>h, <2>1, <2>2, <2>3, LeaveWeighed
  <2> QED BY <1>t, <1>h, <2>1, <2>2, <2>3, <2>4 DEF StealThread, Leave, Goto, TypeOK
<1>n. ASSUME NEW c \in Cpus, StealNothing(c) PROVE TypeOK' /\ Weighed'
  BY <1>n, <1>h, <1>q DEF StealNothing, Switch, Goto, TypeOK
<1>v. ASSUME NEW c \in Cpus, EnterVictim(c) PROVE TypeOK' /\ Weighed'
  <2>1. victim[c] \in Threads /\ victim[c] \notin rq[c] /\ Enter(c, victim[c])
    BY <1>v, <1>h DEF EnterVictim, Places, StealsWhenEmpty, TypeOK
  <2>2. Weighed' /\ weight' \in [Cpus -> Nat]
    BY <1>h, <2>1, EnterWeighed
  <2>3. saved' \in [Threads -> BOOLEAN] /\ armed' \in [Cpus -> BOOLEAN]
    BY <1>v, <1>h DEF EnterVictim, Switch, TypeOK
  <2>4. /\ state' \in [Threads -> {"new", "active", "pre_block", "blocked", "unblocking",
          "dying", "freed"}]
        /\ rq' \in [Cpus -> SUBSET Threads]
    BY <1>h, <2>1 DEF Enter, TypeOK
  <2>5. pc' \in [Cpus -> Pcs] /\ run' \in [Cpus -> Threads \cup {Idle}]
    BY <1>v, <1>h, <2>1 DEF EnterVictim, Switch, Goto, TypeOK
  <2> QED BY <1>v, <1>h, <2>2, <2>3, <2>4, <2>5 DEF EnterVictim, TypeOK
<1>r. ASSUME NEW c \in Cpus, FreeThread(c) PROVE TypeOK' /\ Weighed'
  BY <1>r, <1>h, <1>q DEF FreeThread, Goto, TypeOK
<1>u. ASSUME NEW c \in Cpus, NEW t \in Threads, Submit(t, c) PROVE TypeOK' /\ Weighed'
  <2>1. t \notin rq[c] /\ Enter(c, t)
    BY <1>u, <1>h DEF Submit, Settled, Stale, Locked
  <2>2. Weighed' /\ weight' \in [Cpus -> Nat]
    BY <1>h, <2>1, EnterWeighed
  <2> QED BY <1>u, <1>h, <2>1, <2>2 DEF Submit, Enter, TypeOK
<1>x. ASSUME NEW t \in Threads, UnblockEarly(t) PROVE TypeOK' /\ Weighed'
  BY <1>x, <1>h, <1>q DEF UnblockEarly, TypeOK
<1>y. ASSUME NEW t \in Threads, Unblock(t) PROVE TypeOK' /\ Weighed'
  BY <1>y, <1>h, <1>q DEF Unblock, TypeOK
<1>z. CASE UNCHANGED vars
  BY <1>z, <1>h, <1>q DEF vars, TypeOK
<1> QED
  BY <1>a, <1>b, <1>i, <1>k, <1>d, <1>e, <1>f, <1>l, <1>p, <1>s,
     <1>m, <1>o, <1>t, <1>n, <1>v, <1>r, <1>u, <1>x, <1>y, <1>z
     DEF Next, ThreadStep, SchedStep

\* A CPU sets its eye only on one with threads, which is not stealing.
LEMMA ChainsStep == Inv /\ [Next]_vars => (ChainsEnd => ChainsEnd')
<1> SUFFICES ASSUME Inv, [Next]_vars PROVE (ChainsEnd => ChainsEnd')
  OBVIOUS
<1>h. TypeOK /\ Places /\ StealsWhenEmpty /\ Weighed
  BY DEF Inv
<1>g. None \notin Cpus
  BY SchedAssumption
<1>e1. \A c \in Cpus : pc[c] \in {"sampling", "stealing"} => weight[c] = 0
  BY <1>h, QueueFinite DEF StealsWhenEmpty, Weighed, TypeOK
<1>c. ASSUME NEW c \in Cpus, ChainsEnd, \A d \in Cpus \ {c} : pc'[d] = pc[d] /\
        best'[d] = best[d],
             \/ pc'[c] \notin {"sampling", "stealing"} \/ best'[c] = None
             \/ pc[c] \in {"sampling", "stealing"} /\ best'[c] = best[c]
      PROVE  ChainsEnd'
  BY <1>c, <1>g DEF ChainsEnd
<1> USE DEF threadVars, intVars, stealVars
<1>a. ASSUME NEW c \in Cpus, SchedDisable(c) \/ SchedEnable(c) PROVE (ChainsEnd => ChainsEnd')
  BY <1>a DEF SchedDisable, SchedEnable, ChainsEnd
<1>b. ASSUME NEW c \in Cpus, NEW t \in Threads, Block(c, t) \/ Exit(c, t) PROVE (ChainsEnd =>
        ChainsEnd')
  BY <1>b DEF Block, Exit, StopRunning, ChainsEnd
<1>i. ASSUME NEW c \in Cpus, InterruptStep(c) PROVE (ChainsEnd => ChainsEnd')
  BY <1>i, <1>h, <1>c DEF InterruptStep, TimerInterrupt, IpiInterrupt, IpiInvoke, OtherInterrupt,
          SchedDo, Goto, TypeOK
<1>k. ASSUME NEW c \in Cpus, KeepRunnable(c) PROVE (ChainsEnd => ChainsEnd')
  BY <1>k, <1>h, <1>c DEF KeepRunnable, Goto, TypeOK
<1>d. ASSUME NEW c \in Cpus, LeaveDying(c) PROVE (ChainsEnd => ChainsEnd')
  BY <1>d, <1>h, <1>c DEF LeaveDying, Leave, Goto, TypeOK
<1>e. ASSUME NEW c \in Cpus, FinalizeEarly(c) PROVE (ChainsEnd => ChainsEnd')
  BY <1>e, <1>h, <1>c DEF FinalizeEarly, Goto, TypeOK
<1>f. ASSUME NEW c \in Cpus, FinalizeBlock(c) PROVE (ChainsEnd => ChainsEnd')
  BY <1>f, <1>h, <1>c DEF FinalizeBlock, Goto, TypeOK
<1>l. ASSUME NEW c \in Cpus, LeaveBlocked(c) PROVE (ChainsEnd => ChainsEnd')
  BY <1>l, <1>h, <1>c DEF LeaveBlocked, Leave, Goto, TypeOK
<1>p. ASSUME NEW c \in Cpus, NEW t \in Threads, PickQueued(c, t) PROVE (ChainsEnd => ChainsEnd')
  BY <1>p, <1>h, <1>c DEF PickQueued, Switch, Goto, TypeOK
<1>s. ASSUME NEW c \in Cpus, StealStart(c) PROVE (ChainsEnd => ChainsEnd')
  BY <1>s, <1>h, <1>c DEF StealStart, Goto, TypeOK
<1>m. ASSUME NEW c \in Cpus, StealSample(c) PROVE (ChainsEnd => ChainsEnd')
  <2>1. PICK d \in todo[c] : IF MoreLoaded(c,
          d) THEN best' = [best EXCEPT ![c] = d] ELSE UNCHANGED best
    BY <1>m DEF StealSample
  <2>2. d \in Cpus /\ pc[c] = "sampling" /\ pc' = pc
    BY <1>m, <1>h, <2>1 DEF StealSample, TypeOK
  <2>3. CASE ~MoreLoaded(c, d)
    BY <2>1, <2>2, <2>3 DEF ChainsEnd
  <2>4. CASE MoreLoaded(c, d)
    <3>1. pc[d] \notin {"sampling", "stealing"}
      BY <1>h, <1>e1, <2>2, <2>4 DEF MoreLoaded, Places, TypeOK
    <3>2. best'[c] = d /\ \A x \in Cpus \ {c} : best'[x] = best[x]
      BY <1>h, <2>1, <2>4 DEF TypeOK
    <3>3. SUFFICES ASSUME ChainsEnd, NEW S \in (SUBSET Cpus) \ {{}}
                   PROVE  \E x \in S : ~(pc[x] \in {"sampling", "stealing"} /\ best'[x] \in S)
      BY <2>2 DEF ChainsEnd
    <3>4. CASE c \in S /\ d \in S
      BY <3>1, <3>4
    <3>5. CASE c \in S /\ d \notin S
      BY <3>2, <3>5
    <3>6. CASE c \notin S
      BY <3>2, <3>3, <3>6 DEF ChainsEnd
    <3> QED BY <3>4, <3>5, <3>6
  <2> QED BY <2>3, <2>4
<1>o. ASSUME NEW c \in Cpus, StealLock(c) PROVE (ChainsEnd => ChainsEnd')
  BY <1>o, <1>h, <1>c DEF StealLock, Goto, TypeOK
<1>t. ASSUME NEW c \in Cpus, StealThread(c) PROVE (ChainsEnd => ChainsEnd')
  BY <1>t, <1>h, <1>c DEF StealThread, Stealable, Leave, Goto, TypeOK
<1>n. ASSUME NEW c \in Cpus, StealNothing(c) PROVE (ChainsEnd => ChainsEnd')
  BY <1>n, <1>h, <1>c DEF StealNothing, Switch, Goto, TypeOK
<1>v. ASSUME NEW c \in Cpus, EnterVictim(c) PROVE (ChainsEnd => ChainsEnd')
  BY <1>v, <1>h, <1>c DEF EnterVictim, Enter, Switch, Goto, TypeOK
<1>r. ASSUME NEW c \in Cpus, FreeThread(c) PROVE (ChainsEnd => ChainsEnd')
  BY <1>r, <1>h, <1>c DEF FreeThread, Goto, TypeOK
<1>u. ASSUME NEW c \in Cpus, NEW t \in Threads, Submit(t, c) PROVE (ChainsEnd => ChainsEnd')
  BY <1>u DEF Submit, ChainsEnd
<1>x. ASSUME NEW t \in Threads, UnblockEarly(t) PROVE (ChainsEnd => ChainsEnd')
  BY <1>x DEF UnblockEarly, ChainsEnd
<1>y. ASSUME NEW t \in Threads, Unblock(t) PROVE (ChainsEnd => ChainsEnd')
  BY <1>y DEF Unblock, ChainsEnd
<1>z. CASE UNCHANGED vars
  BY <1>z DEF vars, ChainsEnd
<1> QED
  BY <1>a, <1>b, <1>i, <1>k, <1>d, <1>e, <1>f, <1>l, <1>p, <1>s,
     <1>m, <1>o, <1>t, <1>n, <1>v, <1>r, <1>u, <1>x, <1>y, <1>z
     DEF Next, ThreadStep, SchedStep

\* Boot: idle CPUs and no thread anywhere.
LEMMA InvInit == Init => Inv /\ ChainsEnd
<1> SUFFICES ASSUME Init PROVE Inv /\ ChainsEnd
  OBVIOUS
<1>1. TypeOK /\ Places
  BY SchedAssumption DEF Init, TypeOK, Pcs, Places
<1>2. StealsWhenEmpty /\ RunQueued
  BY DEF Init, StealsWhenEmpty, RunQueued
<1>3. Settled
  BY SchedAssumption DEF Init, Settled
<1>4. Weighed
  BY FS_EmptySet DEF Init, Weighed
<1>5. ChainsEnd
  <2> SUFFICES ASSUME NEW S \in (SUBSET Cpus) \ {{}}
      PROVE  \E c \in S : ~(pc[c] \in {"sampling", "stealing"} /\ best[c] \in S)
    BY DEF ChainsEnd
  <2>1. PICK c \in S : c \in Cpus
    OBVIOUS
  <2>2. pc[c] = "run"
    BY <2>1 DEF Init
  <2> QED BY <2>1, <2>2
<1> QED BY <1>1, <1>2, <1>3, <1>4, <1>5 DEF Inv

\* The invariant holds throughout.
LEMMA InvAlways == Spec => [](Inv /\ ChainsEnd)
<1>1. Inv /\ [Next]_vars => Inv'
  BY PlacesStep, EmptyStep, RunQueuedStep, SettledStep, TypeOKStep DEF Inv
<1>2. Inv /\ ChainsEnd /\ [Next]_vars => ChainsEnd'
  BY ChainsStep
<1> QED BY InvInit, <1>1, <1>2, PTL DEF Spec

-----------------------------------------------------------------------------
(* Results *)

\* Every variable of the scheduler keeps its type; in particular no total weight
\* becomes negative, even when a thread is woken while it is still on a queue.
THEOREM TypeCorrect == Spec => []TypeOK
  BY InvAlways, PTL DEF Inv

\* The total weight sched_verify() compares is right at every step, not only where
\* it is compared, and so is what sched_steal() reads without the lock.
THEOREM WeightsRight == Spec => []Weighed
  BY InvAlways, PTL DEF Inv

\* CPUs that steal from each other, each holding its own lock while it waits for
\* another one's, never wait in a circle.
THEOREM StealingEnds == Spec => []StealAcyclic
<1>1. ChainsEnd => StealAcyclic
  BY DEF ChainsEnd, StealAcyclic
<1> QED BY <1>1, InvAlways, PTL

\* Without threads that wait no run queue entry is ever stale.
LEMMA NobodyBlocks ==
  ASSUME MayBlock = {}
  PROVE  Spec => [](\A c \in Cpus : pc[c] # "blocking")
<1> DEFINE Never == /\ \A c \in Cpus : pc[c] # "blocking"
                    /\ \A t \in Threads : state[t] # "pre_block"
<1>1. Init => Never
  BY DEF Init
<1>2. TypeOK /\ Places /\ Never /\ [Next]_vars => Never'
  <2> SUFFICES ASSUME TypeOK, Places, Never, [Next]_vars PROVE Never'
    OBVIOUS
  <2> USE DEF TypeOK, threadVars, intVars, stealVars
  <2>1. ASSUME NEW c \in Cpus, ThreadStep(c) PROVE Never'
    BY <2>1 DEF ThreadStep, SchedDisable, SchedEnable, Block, Exit, StopRunning
  <2>2. ASSUME NEW c \in Cpus, InterruptStep(c) PROVE Never'
    BY <2>2 DEF InterruptStep, TimerInterrupt, IpiInterrupt, IpiInvoke, OtherInterrupt, SchedDo,
            Goto
  <2>3. ASSUME NEW c \in Cpus,
               KeepRunnable(c) \/ LeaveDying(c) \/ FinalizeEarly(c) \/ FinalizeBlock(c) \/
                       LeaveBlocked(c)
        PROVE  Never'
    BY <2>3 DEF KeepRunnable, LeaveDying, FinalizeEarly, FinalizeBlock, LeaveBlocked, Goto
  <2>4. ASSUME NEW c \in Cpus, StealStart(c) \/ StealSample(c) \/ StealLock(c) \/
          StealThread(c) PROVE Never'
    BY <2>4 DEF StealStart, StealSample, StealLock, StealThread, Goto
  <2>5. ASSUME NEW c \in Cpus, StealNothing(c) \/ EnterVictim(c) \/ FreeThread(c) PROVE Never'
    BY <2>5 DEF StealNothing, EnterVictim, FreeThread, Enter, Switch, Goto
  <2>6. ASSUME NEW c \in Cpus, NEW t \in Threads, PickQueued(c, t) PROVE Never'
    BY <2>6 DEF PickQueued, Switch, Goto
  <2>9. ASSUME NEW c \in Cpus, NEW t \in Threads, Submit(t, c) PROVE Never'
    BY <2>9 DEF Submit, Enter
  <2>7. ASSUME NEW t \in Threads, UnblockEarly(t) \/ Unblock(t) PROVE Never'
    BY <2>7 DEF UnblockEarly, Unblock
  <2>8. CASE UNCHANGED vars
    BY <2>8 DEF vars
  <2> QED BY <2>1, <2>2, <2>3, <2>4, <2>5, <2>6, <2>7, <2>8, <2>9 DEF Next, SchedStep
<1>3. Never => \A c \in Cpus : pc[c] # "blocking"
  OBVIOUS
<1> QED BY <1>1, <1>2, <1>3, InvAlways, PTL DEF Spec, Inv

\* Stealing, exits and preemption alone never put a thread in two places: only
\* waiting does.
THEOREM OnePlaceUnlessWaiting == MayBlock = {} => (Spec => []OneRunQueue)
<1> SUFFICES ASSUME MayBlock = {} PROVE Spec => []OneRunQueue
  OBVIOUS
<1>1. Settled /\ (\A c \in Cpus : pc[c] # "blocking") => OneRunQueue
  BY DEF Settled, Stale, OneRunQueue
<1>2. Spec => [](\A c \in Cpus : pc[c] # "blocking")
  BY NobodyBlocks
<1> QED BY <1>1, <1>2, InvAlways, PTL DEF Inv

-----------------------------------------------------------------------------
(* Contexts: what a CPU loads is complete, as long as nobody waits *)

\* Which thread may be where, in which state, and whose frame is complete.
RunsOnce ==
  \A c, d \in Cpus : run[c] = run[d] /\ run[c] # Idle => c = d
SavedRight ==
  \A t \in Threads : saved[t] <=> \A c \in Cpus : run[c] # t
RunPlaced ==
  \A c \in Cpus : run[c] # Idle => run[c] \in rq[c] \/ dead[c] = run[c]
QueuedHere ==
  \A t \in Threads : \A c, d \in Cpus : t \in rq[c] /\ run[d] = t => c = d
VictimIdle ==
  \A c, d \in Cpus : victim[c] # None => state[victim[c]] = "active" /\ run[d] # victim[c]
QueuedStates ==
  \A c \in Cpus : \A t \in rq[c] :
    \/ state[t] = "active"
    \/ state[t] = "dying" /\ t = run[c] /\ pc[c] \in {"run", "locked"}
ActivePlaced ==
  \A t \in Threads : state[t] = "active" => \E c \in Cpus : t \in rq[c] \/ victim[c] = t
Elsewhere ==
  \A t \in Threads : state[t] \in {"new", "freed"} =>
    \A c \in Cpus : run[c] # t /\ t \notin rq[c] /\ victim[c] # t /\ dead[c] # t
DeadGone ==
  \A c, d \in Cpus : dead[c] # None =>
    /\ state[dead[c]] = "dying"
    /\ pc[c] \in {"picking", "sampling", "stealing", "entering", "freeing"}
    /\ dead[c] \notin rq[d] /\ victim[d] # dead[c]
    /\ run[d] = dead[c] => d = c /\ pc[c] # "freeing"
    /\ dead[d] = dead[c] => d = c
NobodyWaits ==
  /\ woken = {} /\ \A c \in Cpus : pc[c] # "blocking"
  /\ \A t \in Threads : state[t] \in {"new", "active", "dying", "freed"}

Contexts == /\ RunsOnce /\ SavedRight /\ RunPlaced /\ QueuedHere /\ VictimIdle /\ QueuedStates
            /\ ActivePlaced /\ Elsewhere /\ DeadGone /\ NobodyWaits

\* A context is saved before anybody else can find the thread.
LEMMA ContextsStep ==
  ASSUME MayBlock = {}
  PROVE  Inv /\ Contexts /\ [Next]_vars => Contexts'
<1> SUFFICES ASSUME Inv, Contexts, [Next]_vars PROVE Contexts'
  OBVIOUS
<1>h. TypeOK /\ Places /\ StealsWhenEmpty /\ RunQueued /\ Settled
  BY DEF Inv
<1>g. None \notin Threads /\ Idle \notin Threads /\ None \notin Cpus
  BY SchedAssumption
<1> USE DEF Contexts, RunsOnce, SavedRight, RunPlaced, QueuedHere, VictimIdle, QueuedStates,
            ActivePlaced, Elsewhere, DeadGone, NobodyWaits, TypeOK, threadVars, intVars, stealVars
<1>a. ASSUME NEW c \in Cpus, SchedDisable(c) \/ SchedEnable(c) PROVE Contexts'
  BY <1>a, <1>h, <1>g DEF SchedDisable, SchedEnable, Places, StealsWhenEmpty, RunQueued, Settled,
          Stale
<1>b. ASSUME NEW c \in Cpus, NEW t \in Threads, Block(c, t) \/ Exit(c, t) PROVE Contexts'
  <2>1. Running(c, t) /\ state' = [state EXCEPT ![t] = "dying"] /\ UNCHANGED <<saved, woken, pc,
          rq, run, victim, dead>>
    BY <1>b DEF Block, Exit, StopRunning
  <2>2. t \in rq[c] /\ run[c] = t /\ pc[c] = "run"
    BY <1>h, <2>1 DEF RunQueued, Running
  <2>3. \A d \in Cpus : (t \in rq[d] => d = c) /\ victim[d] # t /\ dead[d] # t
    BY <1>g, <2>1, <2>2 DEF Running
  <2> QED BY <1>h, <1>g, <2>1, <2>2, <2>3
<1>i. ASSUME NEW c \in Cpus, InterruptStep(c) PROVE Contexts'
  <2>1. UNCHANGED <<state, saved, woken, rq, run, victim, dead>> /\ pc[c] = "run"
    BY <1>i DEF InterruptStep, TimerInterrupt, IpiInterrupt, IpiInvoke, OtherInterrupt, SchedDo
  <2>2. pc' = pc \/ pc' = [pc EXCEPT ![c] = "locked"]
    BY <1>i DEF InterruptStep, TimerInterrupt, IpiInterrupt, IpiInvoke, OtherInterrupt, SchedDo,
            Goto
  <2>3. CASE pc' = pc
    BY <2>1, <2>3
  <2>4. CASE pc' = [pc EXCEPT ![c] = "locked"]
    BY <1>h, <2>1, <2>4
  <2> QED BY <2>2, <2>3, <2>4
<1>k. ASSUME NEW c \in Cpus, KeepRunnable(c) PROVE Contexts'
  BY <1>k, <1>h, <1>g DEF KeepRunnable, Goto, Places, StealsWhenEmpty, RunQueued, Settled, Stale
<1>d. ASSUME NEW c \in Cpus, LeaveDying(c) PROVE Contexts'
  BY <1>d, <1>h, <1>g DEF LeaveDying, Leave, Goto, Places, StealsWhenEmpty, RunQueued, Settled,
          Stale
<1>e. ASSUME NEW c \in Cpus, FinalizeEarly(c) \/ FinalizeBlock(c) \/
        LeaveBlocked(c) PROVE Contexts'
  BY <1>e, <1>h, <1>g DEF FinalizeEarly, FinalizeBlock, LeaveBlocked, Places, StealsWhenEmpty,
          RunQueued, Settled, Stale
<1>p. ASSUME NEW c \in Cpus, NEW t \in Threads, PickQueued(c, t) PROVE Contexts'
  BY <1>p, <1>h, <1>g DEF PickQueued, Switch, Goto, Places, StealsWhenEmpty, RunQueued, Settled,
          Stale
<1>s. ASSUME NEW c \in Cpus, StealStart(c) PROVE Contexts'
  BY <1>s, <1>h, <1>g DEF StealStart, Goto, Places, StealsWhenEmpty, RunQueued, Settled, Stale
<1>m. ASSUME NEW c \in Cpus, StealSample(c) PROVE Contexts'
  BY <1>m, <1>h, <1>g DEF StealSample, Places, StealsWhenEmpty, RunQueued, Settled, Stale
<1>o. ASSUME NEW c \in Cpus, StealLock(c) PROVE Contexts'
  BY <1>o, <1>h, <1>g DEF StealLock, Goto, Places, StealsWhenEmpty, RunQueued, Settled, Stale
<1>t. ASSUME NEW c \in Cpus, StealThread(c) PROVE Contexts'
  BY <1>t, <1>h, <1>g DEF StealThread, Stealable, Leave, Goto, Locked, Places, StealsWhenEmpty,
          RunQueued, Settled, Stale
<1>n. ASSUME NEW c \in Cpus, StealNothing(c) PROVE Contexts'
  BY <1>n, <1>h, <1>g DEF StealNothing, Switch, Goto, Places, StealsWhenEmpty, RunQueued,
          Settled, Stale
<1>v. ASSUME NEW c \in Cpus, EnterVictim(c) PROVE Contexts'
  BY <1>v, <1>h, <1>g DEF EnterVictim, Enter, Switch, Goto, Places, StealsWhenEmpty, RunQueued,
          Settled, Stale
<1>r. ASSUME NEW c \in Cpus, FreeThread(c) PROVE Contexts'
  BY <1>r, <1>h, <1>g DEF FreeThread, Goto, Places, StealsWhenEmpty, RunQueued, Settled, Stale
<1>u. ASSUME NEW c \in Cpus, NEW t \in Threads, Submit(t, c) PROVE Contexts'
  BY <1>u, <1>h, <1>g DEF Submit, Enter, Locked, Places, StealsWhenEmpty, RunQueued, Settled,
          Stale
<1>x. ASSUME NEW t \in Threads, UnblockEarly(t) \/ Unblock(t) PROVE Contexts'
  BY <1>x, <1>h, <1>g DEF UnblockEarly, Unblock, Places, StealsWhenEmpty, RunQueued, Settled,
          Stale
<1>z. CASE UNCHANGED vars
  BY <1>z, <1>h DEF vars
<1> QED
  BY <1>a, <1>b, <1>i, <1>k, <1>d, <1>e, <1>p, <1>s,
     <1>m, <1>o, <1>t, <1>n, <1>v, <1>r, <1>u, <1>x, <1>z
     DEF Next, ThreadStep, SchedStep

\* The state of every thread says where it is.
LEMMA ContextsAlways ==
  ASSUME MayBlock = {}
  PROVE  Spec => []Contexts
<1>1. Init => Contexts
  BY SchedAssumption DEF Init, Contexts, RunsOnce, SavedRight, RunPlaced, QueuedHere, VictimIdle,
          QueuedStates,
     ActivePlaced, Elsewhere, DeadGone, NobodyWaits
<1> QED BY <1>1, ContextsStep, InvAlways, PTL DEF Spec

\* As long as nobody waits, sched_verify() has nothing to report, no CPU loads the context
\* of a thread that another one still runs, and no runnable thread is forgotten.
THEOREM QueuesSoundUnlessWaiting == MayBlock = {} => (Spec => []RunQueuesSound)
<1> SUFFICES ASSUME MayBlock = {} PROVE Spec => []RunQueuesSound
  OBVIOUS
<1>1. Inv /\ Contexts => Verified
  BY DEF Inv, Contexts, RunQueued, Weighed, QueuedStates, Verified
<1>2. Inv /\ Contexts => ContextSaved
  BY DEF Inv, TypeOK, Contexts, SavedRight, RunsOnce, QueuedHere, ContextSaved
<1>3. Contexts => NoThreadLost
  BY DEF Contexts, ActivePlaced, Elsewhere, NoThreadLost
<1>4. Inv /\ Contexts => RunQueuesSound
  BY <1>1, <1>2, <1>3 DEF RunQueuesSound
<1> QED BY <1>4, ContextsAlways, InvAlways, PTL
-----------------------------------------------------------------------------
(* The suite: the proofs about waiting on the two instances the run checks *)

RaceProofs == INSTANCE WaitProofs WITH
  Threads <- RaceThreads, Cpus <- RaceCpus, Wakers <- RaceWakers, Queues <- {q1, q2},
  Orders <- {<<q1>>, <<q1, q2>>}, Amounts <- {1}, Timeouts <- {1, 99}, Never <- 99,
  MaxUptime <- 1, MinTimeout <- 1, AllocMayFail <- FALSE,
  pc <- wpc, state <- wstate, batch <- wbatch

PairProofs == INSTANCE WaitProofs WITH
  Threads <- PairThreads, Cpus <- PairCpus, Wakers <- PairWakers, Queues <- {q1, q2},
  Orders <- {<<q1, q2>>, <<q2, q1>>}, Amounts <- {1}, Timeouts <- {1}, Never <- 99,
  MaxUptime <- 1, MinTimeout <- 1, AllocMayFail <- FALSE,
  pc <- wpc, state <- wstate, batch <- wbatch

TimedProofs == INSTANCE WaitProofs WITH
  Threads <- PairThreads, Cpus <- PairCpus, Wakers <- PairWakers, Queues <- {q1, q2},
  Orders <- {<<q1>>}, Amounts <- {1}, Timeouts <- {1, 2}, Never <- 99,
  MaxUptime <- 2, MinTimeout <- 1, AllocMayFail <- FALSE,
  pc <- wpc, state <- wstate, batch <- wbatch

\* The proofs are about the same specification.
LEMMA SameRace ==
  /\ RaceProofs!Init <=> Race!Init
  /\ RaceProofs!Next <=> Race!Next
  /\ RaceProofs!vars = Race!vars
<1>1. RaceProofs!Init <=> Race!Init
  BY DEF RaceProofs!Init, Race!Init, RaceProofs!Agents, Race!Agents, RaceProofs!NoReq, Race!NoReq
<1>2. RaceProofs!Next <=> Race!Next
  BY DEF
     RaceProofs!Agents, Race!Agents, RaceProofs!Deadline, Race!Deadline, RaceProofs!NotBefore, 
     Race!NotBefore, RaceProofs!TimerSet, Race!TimerSet, RaceProofs!Expired, Race!Expired, 
     RaceProofs!NotePending, Race!NotePending, RaceProofs!Claimable, Race!Claimable, 
     RaceProofs!Acquire, Race!Acquire, RaceProofs!QueuesOf, Race!QueuesOf, RaceProofs!LocksOf, 
     Race!LocksOf, RaceProofs!QueueUnlocked, Race!QueueUnlocked, RaceProofs!Submit, Race!Submit, 
     RaceProofs!PrepareStart, Race!PrepareStart, RaceProofs!PrepareLock, Race!PrepareLock, 
     RaceProofs!PreparePush, Race!PreparePush, RaceProofs!PrepareNoMem, Race!PrepareNoMem, 
     RaceProofs!PrepareCas, Race!PrepareCas, RaceProofs!RemoveEntry, Race!RemoveEntry, 
     RaceProofs!EntriesGone, Race!EntriesGone, RaceProofs!Cancel, Race!Cancel, 
     RaceProofs!CommitEarly, Race!CommitEarly, RaceProofs!CommitBlock, Race!CommitBlock, 
     RaceProofs!ResumeSelf, Race!ResumeSelf, RaceProofs!FinalizeBlock, Race!FinalizeBlock, 
     RaceProofs!FinalizeEarly, Race!FinalizeEarly, RaceProofs!FinalizeNote, Race!FinalizeNote, 
     RaceProofs!FinalizeDone, Race!FinalizeDone, RaceProofs!FinalizeResume, Race!FinalizeResume, 
     RaceProofs!UnblockStart, Race!UnblockStart, RaceProofs!UnblockCollect, Race!UnblockCollect, 
     RaceProofs!UnblockTake, Race!UnblockTake, RaceProofs!UnblockSubmit, Race!UnblockSubmit, 
     RaceProofs!SendNote, Race!SendNote, RaceProofs!SendNoteCas, Race!SendNoteCas, 
     RaceProofs!HandleNote, Race!HandleNote, RaceProofs!Tick, Race!Tick, 
     RaceProofs!TimerInterrupt, Race!TimerInterrupt, RaceProofs!OtherInterrupt, 
     Race!OtherInterrupt, RaceProofs!First, Race!First, RaceProofs!ScanEnd, Race!ScanEnd, 
     RaceProofs!ScanExpired, Race!ScanExpired, RaceProofs!ExpireSubmit, Race!ExpireSubmit, 
     RaceProofs!ThreadStep, Race!ThreadStep, RaceProofs!WakerStep, Race!WakerStep, 
     RaceProofs!CpuStep, Race!CpuStep, RaceProofs!Next, Race!Next, RaceProofs!waitVars, 
     Race!waitVars, RaceProofs!cpuVars, Race!cpuVars, RaceProofs!wakeVars, Race!wakeVars, 
     RaceProofs!NoReq, Race!NoReq, RaceProofs!Cardinality, Race!Cardinality
<1>3. RaceProofs!vars = Race!vars
  BY DEF RaceProofs!vars, Race!vars, RaceProofs!waitVars, Race!waitVars, RaceProofs!cpuVars,
          Race!cpuVars,
     RaceProofs!wakeVars, Race!wakeVars
<1> QED BY <1>1, <1>2, <1>3

\* The parameters of the instance are sensible.
LEMMA RaceSensible == RaceProofs!Sensible
<1>1. <<q1>> \in Seq({q1, q2}) /\ <<q1, q2>> \in Seq({q1, q2})
  OBVIOUS
<1> QED BY <1>1, SuiteAssumption DEF RaceProofs!Sensible, RaceProofs!Agents

\* The proofs are about the same specification.
LEMMA SamePair ==
  /\ PairProofs!Init <=> Pair!Init
  /\ PairProofs!Next <=> Pair!Next
  /\ PairProofs!vars = Pair!vars
<1>1. PairProofs!Init <=> Pair!Init
  BY DEF PairProofs!Init, Pair!Init, PairProofs!Agents, Pair!Agents, PairProofs!NoReq, Pair!NoReq
<1>2. PairProofs!Next <=> Pair!Next
  BY DEF
     PairProofs!Agents, Pair!Agents, PairProofs!Deadline, Pair!Deadline, PairProofs!NotBefore, 
     Pair!NotBefore, PairProofs!TimerSet, Pair!TimerSet, PairProofs!Expired, Pair!Expired, 
     PairProofs!NotePending, Pair!NotePending, PairProofs!Claimable, Pair!Claimable, 
     PairProofs!Acquire, Pair!Acquire, PairProofs!QueuesOf, Pair!QueuesOf, PairProofs!LocksOf, 
     Pair!LocksOf, PairProofs!QueueUnlocked, Pair!QueueUnlocked, PairProofs!Submit, Pair!Submit, 
     PairProofs!PrepareStart, Pair!PrepareStart, PairProofs!PrepareLock, Pair!PrepareLock, 
     PairProofs!PreparePush, Pair!PreparePush, PairProofs!PrepareNoMem, Pair!PrepareNoMem, 
     PairProofs!PrepareCas, Pair!PrepareCas, PairProofs!RemoveEntry, Pair!RemoveEntry, 
     PairProofs!EntriesGone, Pair!EntriesGone, PairProofs!Cancel, Pair!Cancel, 
     PairProofs!CommitEarly, Pair!CommitEarly, PairProofs!CommitBlock, Pair!CommitBlock, 
     PairProofs!ResumeSelf, Pair!ResumeSelf, PairProofs!FinalizeBlock, Pair!FinalizeBlock, 
     PairProofs!FinalizeEarly, Pair!FinalizeEarly, PairProofs!FinalizeNote, Pair!FinalizeNote, 
     PairProofs!FinalizeDone, Pair!FinalizeDone, PairProofs!FinalizeResume, Pair!FinalizeResume, 
     PairProofs!UnblockStart, Pair!UnblockStart, PairProofs!UnblockCollect, Pair!UnblockCollect, 
     PairProofs!UnblockTake, Pair!UnblockTake, PairProofs!UnblockSubmit, Pair!UnblockSubmit, 
     PairProofs!SendNote, Pair!SendNote, PairProofs!SendNoteCas, Pair!SendNoteCas, 
     PairProofs!HandleNote, Pair!HandleNote, PairProofs!Tick, Pair!Tick, 
     PairProofs!TimerInterrupt, Pair!TimerInterrupt, PairProofs!OtherInterrupt, 
     Pair!OtherInterrupt, PairProofs!First, Pair!First, PairProofs!ScanEnd, Pair!ScanEnd, 
     PairProofs!ScanExpired, Pair!ScanExpired, PairProofs!ExpireSubmit, Pair!ExpireSubmit, 
     PairProofs!ThreadStep, Pair!ThreadStep, PairProofs!WakerStep, Pair!WakerStep, 
     PairProofs!CpuStep, Pair!CpuStep, PairProofs!Next, Pair!Next, PairProofs!waitVars, 
     Pair!waitVars, PairProofs!cpuVars, Pair!cpuVars, PairProofs!wakeVars, Pair!wakeVars, 
     PairProofs!NoReq, Pair!NoReq, PairProofs!Cardinality, Pair!Cardinality
<1>3. PairProofs!vars = Pair!vars
  BY DEF PairProofs!vars, Pair!vars, PairProofs!waitVars, Pair!waitVars, PairProofs!cpuVars,
          Pair!cpuVars,
     PairProofs!wakeVars, Pair!wakeVars
<1> QED BY <1>1, <1>2, <1>3

\* The parameters of the instance are sensible.
LEMMA PairSensible == PairProofs!Sensible
<1>1. <<q1, q2>> \in Seq({q1, q2}) /\ <<q2, q1>> \in Seq({q1, q2})
  OBVIOUS
<1> QED BY <1>1, SuiteAssumption DEF PairProofs!Sensible, PairProofs!Agents

\* The proofs are about the same specification.
LEMMA SameTimed ==
  /\ TimedProofs!Init <=> Timed!Init
  /\ TimedProofs!Next <=> Timed!Next
  /\ TimedProofs!vars = Timed!vars
<1>1. TimedProofs!Init <=> Timed!Init
  BY DEF TimedProofs!Init, Timed!Init, TimedProofs!Agents, Timed!Agents, TimedProofs!NoReq,
     Timed!NoReq
<1>2. TimedProofs!Next <=> Timed!Next
  BY DEF
     TimedProofs!Agents, Timed!Agents, TimedProofs!Deadline, Timed!Deadline, TimedProofs!NotBefore, 
     Timed!NotBefore, TimedProofs!TimerSet, Timed!TimerSet, TimedProofs!Expired, Timed!Expired, 
     TimedProofs!NotePending, Timed!NotePending, TimedProofs!Claimable, Timed!Claimable, 
     TimedProofs!Acquire, Timed!Acquire, TimedProofs!QueuesOf, Timed!QueuesOf, TimedProofs!LocksOf, 
     Timed!LocksOf, TimedProofs!QueueUnlocked, Timed!QueueUnlocked, TimedProofs!Submit,
     Timed!Submit, 
     TimedProofs!PrepareStart, Timed!PrepareStart, TimedProofs!PrepareLock, Timed!PrepareLock, 
     TimedProofs!PreparePush, Timed!PreparePush, TimedProofs!PrepareNoMem, Timed!PrepareNoMem, 
     TimedProofs!PrepareCas, Timed!PrepareCas, TimedProofs!RemoveEntry, Timed!RemoveEntry, 
     TimedProofs!EntriesGone, Timed!EntriesGone, TimedProofs!Cancel, Timed!Cancel, 
     TimedProofs!CommitEarly, Timed!CommitEarly, TimedProofs!CommitBlock, Timed!CommitBlock, 
     TimedProofs!ResumeSelf, Timed!ResumeSelf, TimedProofs!FinalizeBlock, Timed!FinalizeBlock, 
     TimedProofs!FinalizeEarly, Timed!FinalizeEarly, TimedProofs!FinalizeNote, Timed!FinalizeNote, 
     TimedProofs!FinalizeDone, Timed!FinalizeDone, TimedProofs!FinalizeResume,
     Timed!FinalizeResume, 
     TimedProofs!UnblockStart, Timed!UnblockStart, TimedProofs!UnblockCollect,
     Timed!UnblockCollect, 
     TimedProofs!UnblockTake, Timed!UnblockTake, TimedProofs!UnblockSubmit, Timed!UnblockSubmit, 
     TimedProofs!SendNote, Timed!SendNote, TimedProofs!SendNoteCas, Timed!SendNoteCas, 
     TimedProofs!HandleNote, Timed!HandleNote, TimedProofs!Tick, Timed!Tick, 
     TimedProofs!TimerInterrupt, Timed!TimerInterrupt, TimedProofs!OtherInterrupt, 
     Timed!OtherInterrupt, TimedProofs!First, Timed!First, TimedProofs!ScanEnd, Timed!ScanEnd, 
     TimedProofs!ScanExpired, Timed!ScanExpired, TimedProofs!ExpireSubmit, Timed!ExpireSubmit, 
     TimedProofs!ThreadStep, Timed!ThreadStep, TimedProofs!WakerStep, Timed!WakerStep, 
     TimedProofs!CpuStep, Timed!CpuStep, TimedProofs!Next, Timed!Next, TimedProofs!waitVars, 
     Timed!waitVars, TimedProofs!cpuVars, Timed!cpuVars, TimedProofs!wakeVars, Timed!wakeVars, 
     TimedProofs!NoReq, Timed!NoReq, TimedProofs!Cardinality, Timed!Cardinality
<1>3. TimedProofs!vars = Timed!vars
  BY DEF TimedProofs!vars, Timed!vars, TimedProofs!waitVars, Timed!waitVars, TimedProofs!cpuVars,
          Timed!cpuVars,
     TimedProofs!wakeVars, Timed!wakeVars
<1> QED BY <1>1, <1>2, <1>3

\* The parameters of the instance are sensible.
LEMMA TimedSensible == TimedProofs!Sensible
<1>1. <<q1>> \in Seq({q1, q2})
  OBVIOUS
<1> QED BY <1>1, SuiteAssumption DEF TimedProofs!Sensible, TimedProofs!Agents

\* The properties are the same too.
LEMMA SameProperties ==
  /\ RaceProofs!ExclusiveUnblocker <=> Race!ExclusiveUnblocker
  /\ RaceProofs!ListedOnOwner <=> Race!ListedOnOwner
  /\ RaceProofs!NoLostNote <=> Race!NoLostNote
  /\ PairProofs!NoStaleEntry <=> Pair!NoStaleEntry
  /\ TimedProofs!TimerCovers <=> Timed!TimerCovers
  /\ TimedProofs!NoEarlyTimeout <=> Timed!NoEarlyTimeout
<1>1. RaceProofs!ExclusiveUnblocker <=> Race!ExclusiveUnblocker
  BY DEF RaceProofs!ExclusiveUnblocker, Race!ExclusiveUnblocker, RaceProofs!Handles, Race!Handles,
     RaceProofs!Agents, Race!Agents
<1>2. RaceProofs!ListedOnOwner <=> Race!ListedOnOwner
  BY DEF RaceProofs!ListedOnOwner, Race!ListedOnOwner, RaceProofs!Agents, Race!Agents
<1>3. RaceProofs!NoLostNote <=> Race!NoLostNote
  BY DEF RaceProofs!NoLostNote, Race!NoLostNote
<1>4. PairProofs!NoStaleEntry <=> Pair!NoStaleEntry
  BY DEF PairProofs!NoStaleEntry, Pair!NoStaleEntry
<1>5. TimedProofs!TimerCovers <=> Timed!TimerCovers
  BY DEF TimedProofs!TimerCovers, Timed!TimerCovers, TimedProofs!NotBefore, Timed!NotBefore
<1>6. TimedProofs!NoEarlyTimeout <=> Timed!NoEarlyTimeout
  BY DEF TimedProofs!NoEarlyTimeout, Timed!NoEarlyTimeout
<1> QED BY <1>1, <1>2, <1>3, <1>4, <1>5, <1>6

\* The invariants of waiting, for the instance that runs.
SuiteInv ==
  /\ part = "race" => RaceProofs!TimeInv
  /\ part = "pair" => PairProofs!TimeInv
  /\ part = "timed" => TimedProofs!TimeInv

\* The waits of the suite start in their invariants.
LEMMA SuiteInit == MCInit => SuiteInv
<1> SUFFICES ASSUME MCInit PROVE SuiteInv
  OBVIOUS
<1>1. ASSUME part = "race" PROVE RaceProofs!TimeInv
  BY <1>1, SameRace, RaceSensible, RaceProofs!TimeInit DEF MCInit
<1>2. ASSUME part = "pair" PROVE PairProofs!TimeInv
  BY <1>2, SamePair, PairSensible, PairProofs!TimeInit DEF MCInit
<1>3. ASSUME part = "timed" PROVE TimedProofs!TimeInv
  BY <1>3, SameTimed, TimedSensible, TimedProofs!TimeInit DEF MCInit
<1> QED BY <1>1, <1>2, <1>3 DEF SuiteInv

\* A step of the suite is a step of the instance that runs.
LEMMA SuiteSteps ==
  ASSUME [MCNext]_allVars
  PROVE  /\ part' = part
         /\ part = "race" => [RaceProofs!Next]_(RaceProofs!vars)
         /\ part = "pair" => [PairProofs!Next]_(PairProofs!vars)
         /\ part = "timed" => [TimedProofs!Next]_(TimedProofs!vars)
<1>1. UNCHANGED waitVars => /\ UNCHANGED RaceProofs!vars
                            /\ UNCHANGED PairProofs!vars
                            /\ UNCHANGED TimedProofs!vars
  BY DEF waitVars, RaceProofs!vars, PairProofs!vars, TimedProofs!vars, RaceProofs!waitVars,
     PairProofs!waitVars, TimedProofs!waitVars, RaceProofs!cpuVars, PairProofs!cpuVars,
     TimedProofs!cpuVars, RaceProofs!wakeVars, PairProofs!wakeVars, TimedProofs!wakeVars
<1> QED BY <1>1, SameRace, SamePair, SameTimed DEF MCNext, allVars

\* Every step of the suite keeps them.
LEMMA SuiteStep == SuiteInv /\ [MCNext]_allVars => SuiteInv'
<1> SUFFICES ASSUME SuiteInv, [MCNext]_allVars PROVE SuiteInv'
  OBVIOUS
<1>1. ASSUME part = "race" PROVE RaceProofs!TimeInv'
  BY <1>1, SuiteSteps, RaceSensible, RaceProofs!TimeStep DEF SuiteInv
<1>2. ASSUME part = "pair" PROVE PairProofs!TimeInv'
  BY <1>2, SuiteSteps, PairSensible, PairProofs!TimeStep DEF SuiteInv
<1>3. ASSUME part = "timed" PROVE TimedProofs!TimeInv'
  BY <1>3, SuiteSteps, TimedSensible, TimedProofs!TimeStep DEF SuiteInv
<1> QED BY <1>1, <1>2, <1>3, SuiteSteps DEF SuiteInv

\* They always hold.
LEMMA SuiteAlways == MCSpec => []SuiteInv
  BY SuiteInit, SuiteStep, PTL DEF MCSpec

\* Of wakers, timeouts, notes and the thread itself exactly one ends a wait: what the run
\* checks for one thread, for any number of threads, CPUs and wakers.
THEOREM SuiteExclusive == MCSpec => []ExclusiveUnblocker
<1>1. SuiteInv => ExclusiveUnblocker
  BY SameProperties, RaceSensible, RaceProofs!InvExclusive
  DEF SuiteInv, ExclusiveUnblocker, RaceProofs!TimeInv
<1> QED BY <1>1, SuiteAlways, PTL

\* Waiters are on the list of the CPU that owns them, threads that do not wait are on no
\* queue, and a note finds its thread.
THEOREM SuiteListed == MCSpec => []WaitersListed
<1>1. SuiteInv => WaitersListed
  BY SameProperties, RaceSensible, RaceProofs!InvListed, PairProofs!InvEntered
  DEF SuiteInv, WaitersListed, RaceProofs!TimeInv, PairProofs!TimeInv
<1> QED BY <1>1, SuiteAlways, PTL

\* Armed timers cover every deadline on their CPU's list, and no wait times out early.
THEOREM SuiteOnTime == MCSpec => []TimeoutsOnTime
<1>1. SuiteInv => TimeoutsOnTime
  BY SameProperties DEF SuiteInv, TimeoutsOnTime, TimedProofs!TimeInv
<1> QED BY <1>1, SuiteAlways, PTL

\* The error of a thread off its CPU is set only by the agent that ends its wait.
THEOREM SuiteErr == MCSpec => ErrOnlyByUnblocker
<1>1. SuiteInv /\ [MCNext]_allVars =>
        [part = "race" => \A t \in RaceThreads : err'[t] # err[t] /\ wpc[t] = "off" =>
           \E a \in Race!Agents \ {t} : removing'[a] = t /\ removing[a] # t]_allVars
  <2> SUFFICES ASSUME SuiteInv, [MCNext]_allVars, part = "race", NEW t \in RaceThreads,
                      err'[t] # err[t], wpc[t] = "off"
               PROVE  \E a \in Race!Agents \ {t} : removing'[a] = t /\ removing[a] # t
    OBVIOUS
  <2>1. RaceProofs!Inv /\ [RaceProofs!Next]_(RaceProofs!vars)
    BY SuiteSteps DEF SuiteInv, RaceProofs!TimeInv
  <2>2. RaceProofs!Agents = Race!Agents
    BY DEF RaceProofs!Agents, Race!Agents
  <2> QED BY <2>1, <2>2, RaceSensible, RaceProofs!ErrStep
<1> QED BY <1>1, SuiteAlways, PTL DEF MCSpec, ErrOnlyByUnblocker
=============================================================================
