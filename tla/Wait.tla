-------------------------------- MODULE Wait --------------------------------
(***************************************************************************)
(* The waiting subsystem (src/kernel/sched/wait.c): threads block on one   *)
(* or more wait queues, wakers unblock them, per-CPU timeouts expire them  *)
(* and notes interrupt them.  Every window the code leaves open between    *)
(* two locked regions or two atomic accesses is a separate action here.    *)
(*                                                                         *)
(* The scheduler is seen only through what wait.c needs of it: a thread    *)
(* that committed to block is finalized by sched_do() on its CPU, and      *)
(* sched_submit() makes a thread run again on some CPU.                    *)
(*                                                                         *)
(* Wait lists are sets: a queue's FIFO order is abstracted to any scan     *)
(* order, the deadline-sorted blockedThreads to "a thread with the least   *)
(* deadline comes first".                                                  *)
(***************************************************************************)
EXTENDS Naturals, Sequences, FiniteSets

CONSTANTS
  Threads,       \* thread_t objects; threads, CPUs and wakers are distinct
  Cpus,          \* CPUs, each with a wait_t
  Wakers,        \* contexts that call wait_unblock() or thread_send_note()
  Queues,        \* wait_queue_t objects
  Orders,        \* the arrays of queues callers pass to wait_block_prepare()
  Amounts,       \* the amounts callers pass to wait_unblock()
  Timeouts,      \* the timeouts callers pass to wait_block_prepare()
  Never,         \* CLOCKS_NEVER, larger than every deadline
  MaxUptime,     \* bound on the modelled deadlines
  MinTimeout,    \* CONFIG_MIN_TIMER_TIMEOUT
  AllocMayFail,  \* whether cache_alloc(&waitEntryCache) may return NULL
  None

Agents == Threads \cup Cpus \cup Wakers

\* What the code justifies of the parameters: the agents are distinct, and times are numbers.
Sensible ==
  /\ Threads \cap Cpus = {} /\ Threads \cap Wakers = {} /\ Cpus \cap Wakers = {}
  /\ None \notin Agents \cup Queues
  /\ Orders \subseteq Seq(Queues) /\ Amounts \subseteq Nat /\ Timeouts \subseteq Nat
  /\ Never \in Nat /\ MaxUptime \in Nat /\ MinTimeout \in Nat

VARIABLES
  pc,        \* where each agent is in the code
  state,     \* thread->state
  qs,        \* the queues of the thread's wait entries
  held,      \* how many queue locks wait_block_prepare() holds so far
  err,       \* thread->wait.err
  deadline,  \* thread->wait.deadline
  owner,     \* thread->wait.owner
  note,      \* the thread has a pending note
  cpu,       \* the CPU the thread was last submitted to
  queue,     \* wait_queue_t->entries, as the set of waiting threads
  blocked,   \* wait_t->blockedThreads of each CPU
  lock,      \* wait_t->lock of each CPU, its holder or None
  timer,     \* the deadline armed in each CPU's timer
  uptime,    \* clock_uptime()
  removing,  \* the thread whose wait entries an agent is removing
  wreq,      \* what a waker was called with
  batch      \* the threads a waker collected and has not processed

waitVars == <<qs, held, err, deadline, owner, cpu>>
cpuVars  == <<blocked, lock, timer>>
wakeVars == <<wreq, batch>>
vars == <<pc, state, waitVars, note, queue, cpuVars, uptime, removing, wakeVars>>

ThreadPcs == {"run", "locking", "pushed", "prepared", "cancelling", "early",
              "committed", "fin_note", "fin_early", "off"}

CpuPcs == {"idle", "scan", "expire"}
WakerPcs == {"idle", "noted", "collected", "taken"}
States == {"active", "pre_block", "blocked", "unblocking"}
Errs   == {"EOK", "ETIMEDOUT", "EINTR"}
NoReq  == [queue |-> None, amount |-> 0, err |-> "EOK"]
Reqs   == [queue : Queues \cup {None}, amount : Nat, err : Errs]

PcType ==
  /\ pc \in [Agents -> ThreadPcs \cup CpuPcs \cup WakerPcs]
  /\ \A t \in Threads : pc[t] \in ThreadPcs
  /\ \A c \in Cpus : pc[c] \in CpuPcs
  /\ \A w \in Wakers : pc[w] \in WakerPcs

ThreadType ==
  /\ state \in [Threads -> States]
  /\ err \in [Threads -> Errs]
  /\ deadline \in [Threads -> Nat]
  /\ owner \in [Threads -> Cpus \cup {None}]
  /\ note \in [Threads -> BOOLEAN]
  /\ cpu \in [Threads -> Cpus]

EntryType ==
  /\ qs \in [Threads -> Seq(Queues)]
  /\ held \in [Threads -> Nat] /\ \A t \in Threads : held[t] <= Len(qs[t])
  /\ queue \in [Queues -> SUBSET Threads]

CpuType ==
  /\ blocked \in [Cpus -> SUBSET Threads]
  /\ lock \in [Cpus -> Agents \cup {None}]
  /\ timer \in [Cpus -> Nat]
  /\ uptime \in Nat

WakeType ==
  /\ removing \in [Agents -> Threads \cup {None}]
  /\ wreq \in [Wakers -> Reqs]
  /\ batch \in [Wakers -> SUBSET Threads]

TypeOK == PcType /\ ThreadType /\ EntryType /\ CpuType /\ WakeType

Init ==
  /\ pc = [a \in Agents |-> IF a \in Threads THEN "run" ELSE "idle"]
  /\ state = [t \in Threads |-> "active"]
  /\ qs = [t \in Threads |-> <<>>]
  /\ held = [t \in Threads |-> 0]
  /\ err = [t \in Threads |-> "EOK"]
  /\ deadline = [t \in Threads |-> 0]
  /\ owner = [t \in Threads |-> None]
  /\ note = [t \in Threads |-> FALSE]
  /\ cpu \in [Threads -> Cpus]
  /\ queue = [q \in Queues |-> {}]
  /\ blocked = [c \in Cpus |-> {}]
  /\ lock = [c \in Cpus |-> None]
  /\ timer = [c \in Cpus |-> Never]
  /\ uptime = 0
  /\ removing = [a \in Agents |-> None]
  /\ wreq = [w \in Wakers |-> NoReq]
  /\ batch = [w \in Wakers |-> {}]

-----------------------------------------------------------------------------
(* Helpers *)

\* CLOCKS_DEADLINE
Deadline(timeout) ==
  IF timeout = Never \/ timeout > Never - uptime THEN Never ELSE uptime + timeout

\* timer_set(): a deadline too close is moved away, and only an earlier one
\* than the armed one rearms the CPU's timer.
NotBefore(d) == IF d < uptime + MinTimeout THEN uptime + MinTimeout ELSE d

\* Mutant: a later deadline rearms the timer, an earlier one does not.
TimerSet_Latest(c, d) ==
  [timer EXCEPT ![c] = IF d # Never /\ NotBefore(d) > @ THEN NotBefore(d) ELSE @]

TimerSet(c, d) ==
  [timer EXCEPT ![c] = IF d # Never /\ NotBefore(d) < @ THEN NotBefore(d) ELSE @]

Expired(t) == deadline[t] <= uptime

\* thread_is_note_pending()
NotePending(t) == note[t]

\* Mutant: the state is not compared before it is exchanged.
Claimable_NoCas(t) == state[t] # "active"

\* The compare-exchange from blocked to unblocking succeeds: its winner, and
\* nobody else, ends the wait.
Claimable(t) == state[t] = "blocked"

\* wait->lock of a CPU, taken by agent a.
Acquire(c, a) ==
  /\ lock[c] = None
  /\ lock' = [lock EXCEPT ![c] = a]

QueuesOf(t) == {qs[t][i] : i \in 1..Len(qs[t])}
LocksOf(t)  == {qs[t][i] : i \in 1..held[t]}

\* The lock of queue q is free.  Only wait_block_prepare() keeps a queue lock
\* over several steps; every other region under it is one action.
QueueUnlocked(q) == \A t \in Threads : pc[t] = "locking" => q \notin LocksOf(t)

\* sched_submit(): the thread is active again on some CPU and resumes after
\* its wait_block_commit().  Its list of wait entries is empty by now.
Submit(t, a, next) ==
  /\ state' = [state EXCEPT ![t] = "active"]
  /\ qs' = [qs EXCEPT ![t] = <<>>]
  /\ pc' = [pc EXCEPT ![t] = "run", ![a] = next]
  /\ \E c \in Cpus : cpu' = [cpu EXCEPT ![t] = c]

-----------------------------------------------------------------------------
(* wait_block_prepare() *)

PrepareStart(t) ==
  /\ pc[t] = "run"
  /\ \E s \in Orders : qs' = [qs EXCEPT ![t] = s]
  /\ held' = [held EXCEPT ![t] = 0]
  /\ pc' = [pc EXCEPT ![t] = "locking"]
  /\ UNCHANGED <<state, err, deadline, owner, cpu, note, queue, cpuVars, uptime, removing,
                 wakeVars>>

\* The queue locks are taken one after the other, in the caller's order.
PrepareLock(t) ==
  /\ pc[t] = "locking"
  /\ held[t] < Len(qs[t])
  /\ QueueUnlocked(qs[t][held[t] + 1])
  /\ held' = [held EXCEPT ![t] = @ + 1]
  /\ UNCHANGED <<pc, state, qs, err, deadline, owner, cpu, note, queue, cpuVars, uptime, removing,
                 wakeVars>>

PreparePush(t) ==
  /\ pc[t] = "locking"
  /\ held[t] = Len(qs[t])
  /\ \E timeout \in Timeouts :
       /\ timeout # Never => uptime + timeout <= MaxUptime
       /\ deadline' = [deadline EXCEPT ![t] = Deadline(timeout)]
  /\ queue' = [q \in Queues |-> IF q \in QueuesOf(t) THEN queue[q] \cup {t} ELSE queue[q]]
  /\ err' = [err EXCEPT ![t] = "EOK"]
  /\ owner' = [owner EXCEPT ![t] = None]
  /\ held' = [held EXCEPT ![t] = 0]
  /\ pc' = [pc EXCEPT ![t] = "pushed"]
  /\ UNCHANGED <<state, qs, cpu, note, cpuVars, uptime, removing, wakeVars>>

\* The k-th allocation fails: the entries made so far are freed after having
\* been taken off the thread's list only, they stay linked in their queues.
PrepareNoMem(t) ==
  /\ AllocMayFail
  /\ pc[t] = "locking"
  /\ held[t] = Len(qs[t])
  /\ \E k \in 1..Len(qs[t]) :
       queue' = [q \in Queues |-> IF \E i \in 1..(k - 1) : qs[t][i] = q
                                  THEN queue[q] \cup {t} ELSE queue[q]]
  /\ held' = [held EXCEPT ![t] = 0]
  /\ qs' = [qs EXCEPT ![t] = <<>>]
  /\ pc' = [pc EXCEPT ![t] = "run"]
  /\ UNCHANGED <<state, err, deadline, owner, cpu, note, cpuVars, uptime, removing, wakeVars>>

\* A waker may have set the state to unblocking since the locks were released;
\* commit or cancel will notice.
PrepareCas(t) ==
  /\ pc[t] = "pushed"
  /\ state' = [state EXCEPT ![t] = IF @ = "active" THEN "pre_block" ELSE @]
  /\ pc' = [pc EXCEPT ![t] = "prepared"]
  /\ UNCHANGED <<waitVars, note, queue, cpuVars, uptime, removing, wakeVars>>

-----------------------------------------------------------------------------
(* wait_remove_wait_entries(): one entry after the other, each under the     *)
(* lock of its queue.                                                        *)

RemoveEntry(a) ==
  /\ removing[a] # None
  /\ \E q \in QueuesOf(removing[a]) :
       /\ removing[a] \in queue[q]
       /\ QueueUnlocked(q)
       /\ queue' = [queue EXCEPT ![q] = @ \ {removing[a]}]
  /\ UNCHANGED <<pc, state, waitVars, note, cpuVars, uptime, removing, wakeVars>>

\* Mutant: only one entry is removed.
EntriesGone_One(t) == \E q \in QueuesOf(t) : t \notin queue[q]

EntriesGone(t) == \A q \in QueuesOf(t) : t \notin queue[q]

-----------------------------------------------------------------------------
(* wait_block_cancel() and wait_block_commit() *)

Cancel(t) ==
  /\ pc[t] = "prepared"
  /\ state' = [state EXCEPT ![t] = "unblocking"]
  /\ err' = [err EXCEPT ![t] = "EOK"]
  /\ removing' = [removing EXCEPT ![t] = t]
  /\ pc' = [pc EXCEPT ![t] = "cancelling"]
  /\ UNCHANGED <<qs, held, deadline, owner, cpu, note, queue, cpuVars, uptime, wakeVars>>

CommitEarly(t) ==
  /\ pc[t] = "prepared"
  /\ state[t] = "unblocking"
  /\ err' = [err EXCEPT ![t] = "EOK"]
  /\ removing' = [removing EXCEPT ![t] = t]
  /\ pc' = [pc EXCEPT ![t] = "early"]
  /\ UNCHANGED <<state, qs, held, deadline, owner, cpu, note, queue, cpuVars, uptime, wakeVars>>

CommitBlock(t) ==
  /\ pc[t] = "prepared"
  /\ state[t] = "pre_block"
  /\ pc' = [pc EXCEPT ![t] = "committed"]
  /\ UNCHANGED <<state, waitVars, note, queue, cpuVars, uptime, removing, wakeVars>>

\* The end of wait_block_cancel() and of the early return of commit.
ResumeSelf(t) ==
  /\ pc[t] \in {"cancelling", "early"}
  /\ EntriesGone(t)
  /\ state' = [state EXCEPT ![t] = "active"]
  /\ removing' = [removing EXCEPT ![t] = None]
  /\ qs' = [qs EXCEPT ![t] = <<>>]
  /\ pc' = [pc EXCEPT ![t] = "run"]
  /\ UNCHANGED <<held, err, deadline, owner, cpu, note, queue, cpuVars, uptime, wakeVars>>

-----------------------------------------------------------------------------
(* wait_block_finalize(), called by sched_do() on the thread's CPU *)

FinalizeBlock(t) ==
  /\ pc[t] = "committed"
  /\ Acquire(cpu[t], t)
  /\ state[t] = "pre_block"
  /\ state' = [state EXCEPT ![t] = "blocked"]
  /\ owner' = [owner EXCEPT ![t] = cpu[t]]
  /\ blocked' = [blocked EXCEPT ![cpu[t]] = @ \cup {t}]
  /\ pc' = [pc EXCEPT ![t] = "fin_note"]
  /\ UNCHANGED <<qs, held, err, deadline, cpu, note, queue, timer, uptime, removing, wakeVars>>

\* Prematurely unblocked: the thread is taken off the list again.
FinalizeEarly(t) ==
  /\ pc[t] = "committed"
  /\ Acquire(cpu[t], t)
  /\ state[t] = "unblocking"
  /\ owner' = [owner EXCEPT ![t] = cpu[t]]
  /\ err' = [err EXCEPT ![t] = "EOK"]
  /\ removing' = [removing EXCEPT ![t] = t]
  /\ pc' = [pc EXCEPT ![t] = "fin_early"]
  /\ UNCHANGED <<state, qs, held, deadline, cpu, note, queue, blocked, timer, uptime, wakeVars>>

FinalizeNote(t) ==
  /\ pc[t] = "fin_note"
  /\ NotePending(t) /\ Claimable(t)
  /\ state' = [state EXCEPT ![t] = "unblocking"]
  /\ blocked' = [blocked EXCEPT ![owner[t]] = @ \ {t}]
  /\ err' = [err EXCEPT ![t] = "EINTR"]
  /\ removing' = [removing EXCEPT ![t] = t]
  /\ pc' = [pc EXCEPT ![t] = "fin_early"]
  /\ UNCHANGED <<qs, held, deadline, owner, cpu, note, queue, lock, timer, uptime, wakeVars>>

FinalizeDone(t) ==
  /\ pc[t] = "fin_note"
  /\ ~(NotePending(t) /\ Claimable(t))
  /\ timer' = TimerSet(owner[t], deadline[t])
  /\ lock' = [lock EXCEPT ![owner[t]] = None]
  /\ pc' = [pc EXCEPT ![t] = "off"]
  /\ UNCHANGED <<state, waitVars, note, queue, blocked, uptime, removing, wakeVars>>

FinalizeResume(t) ==
  /\ pc[t] = "fin_early"
  /\ EntriesGone(t)
  /\ state' = [state EXCEPT ![t] = "active"]
  /\ lock' = [lock EXCEPT ![owner[t]] = None]
  /\ removing' = [removing EXCEPT ![t] = None]
  /\ qs' = [qs EXCEPT ![t] = <<>>]
  /\ pc' = [pc EXCEPT ![t] = "run"]
  /\ UNCHANGED <<held, err, deadline, owner, cpu, note, queue, blocked, timer, uptime, wakeVars>>

-----------------------------------------------------------------------------
(* wait_unblock() *)

UnblockStart(w) ==
  /\ pc[w] = "idle"
  /\ wreq[w] = NoReq
  /\ \E q \in Queues, n \in Amounts :
       wreq' = [wreq EXCEPT ![w] = [queue |-> q, amount |-> n, err |-> "EOK"]]
  /\ UNCHANGED <<pc, state, waitVars, note, queue, cpuVars, uptime, removing, batch>>

\* One scan of the queue under its lock.  Every scanned thread is exchanged to
\* unblocking; those that were blocked are collected.  The scan ends when the
\* amount is reached, so an incomplete scan has collected exactly that many.
UnblockCollect(w) ==
  /\ pc[w] = "idle"
  /\ wreq[w].queue # None
  /\ QueueUnlocked(wreq[w].queue)
  /\ \E scanned \in SUBSET queue[wreq[w].queue] :
       LET found == {t \in scanned : state[t] = "blocked"} IN
         /\ \/ Cardinality(found) = wreq[w].amount
            \/ Cardinality(found) < wreq[w].amount /\ scanned = queue[wreq[w].queue]
         /\ state' = [t \in Threads |-> IF t \in scanned THEN "unblocking" ELSE state[t]]
         /\ queue' = [queue EXCEPT ![wreq[w].queue] = @ \ found]
         /\ batch' = [batch EXCEPT ![w] = found]
         /\ pc' = [pc EXCEPT ![w] = IF found = {} THEN "idle" ELSE "collected"]
         /\ wreq' = [wreq EXCEPT ![w] = IF found = {} THEN NoReq ELSE @]
  /\ UNCHANGED <<waitVars, note, cpuVars, uptime, removing>>

\* Under the lock of the thread's owner CPU: off blockedThreads, then its
\* remaining wait entries.
UnblockTake(w) ==
  /\ pc[w] = "collected"
  /\ \E t \in batch[w] :
       /\ Acquire(owner[t], w)
       /\ blocked' = [blocked EXCEPT ![owner[t]] = @ \ {t}]
       /\ err' = [err EXCEPT ![t] = wreq[w].err]
       /\ removing' = [removing EXCEPT ![w] = t]
       /\ batch' = [batch EXCEPT ![w] = @ \ {t}]
  /\ pc' = [pc EXCEPT ![w] = "taken"]
  /\ UNCHANGED <<state, qs, held, deadline, owner, cpu, note, queue, timer, uptime, wreq>>

\* Lock released, thread submitted.  When the batch is empty the loop scans the
\* queue again, for the same amount.
UnblockSubmit(w) ==
  /\ pc[w] = "taken"
  /\ EntriesGone(removing[w])
  /\ Submit(removing[w], w, IF batch[w] = {} THEN "idle" ELSE "collected")
  /\ lock' = [lock EXCEPT ![owner[removing[w]]] = None]
  /\ removing' = [removing EXCEPT ![w] = None]
  /\ wreq' = [wreq EXCEPT ![w] = IF @.queue = None THEN NoReq ELSE @]
  /\ UNCHANGED <<held, err, deadline, owner, note, queue, blocked, timer, uptime, batch>>

-----------------------------------------------------------------------------
(* thread_send_note() and wait_unblock_thread() *)

SendNote(w, t) ==
  /\ pc[w] = "idle"
  /\ wreq[w] = NoReq
  /\ note' = [note EXCEPT ![t] = TRUE]
  /\ batch' = [batch EXCEPT ![w] = {t}]
  /\ wreq' = [wreq EXCEPT ![w].err = "EINTR"]
  /\ pc' = [pc EXCEPT ![w] = "noted"]
  /\ UNCHANGED <<state, waitVars, queue, cpuVars, uptime, removing>>

\* The compare-exchange from blocked to unblocking after the note is queued.
SendNoteCas(w) ==
  /\ pc[w] = "noted"
  /\ \E t \in batch[w] :
       IF Claimable(t)
       THEN /\ state' = [state EXCEPT ![t] = "unblocking"]
            /\ pc' = [pc EXCEPT ![w] = "collected"]
            /\ UNCHANGED <<batch, wreq>>
       ELSE /\ pc' = [pc EXCEPT ![w] = "idle"]
            /\ batch' = [batch EXCEPT ![w] = {}]
            /\ wreq' = [wreq EXCEPT ![w] = NoReq]
            /\ UNCHANGED state
  /\ UNCHANGED <<waitVars, note, queue, cpuVars, uptime, removing>>

\* note_handle_pending(): the running thread handles its pending notes.
HandleNote(t) ==
  /\ pc[t] = "run"
  /\ note[t]
  /\ note' = [note EXCEPT ![t] = FALSE]
  /\ UNCHANGED <<pc, state, waitVars, queue, cpuVars, uptime, removing, wakeVars>>

-----------------------------------------------------------------------------
(* wait_check_timeouts(), called by interrupt_handler() on each CPU *)

\* Once no deadline can come any more the clock only runs for an armed timer.
Tick ==
  /\ uptime < MaxUptime \/ \E c \in Cpus : timer[c] # Never /\ uptime < timer[c]
  /\ uptime' = uptime + 1
  /\ UNCHANGED <<pc, state, waitVars, note, queue, cpuVars, removing, wakeVars>>

\* The armed timer fires: timer_ack_eoi() disarms it, then the timeouts are
\* checked under the CPU's wait lock.
TimerInterrupt(c) ==
  /\ pc[c] = "idle"
  /\ timer[c] <= uptime
  /\ Acquire(c, c)
  /\ timer' = [timer EXCEPT ![c] = Never]
  /\ pc' = [pc EXCEPT ![c] = "scan"]
  /\ UNCHANGED <<state, waitVars, note, queue, blocked, uptime, removing, wakeVars>>

\* Any other interrupt checks the timeouts too, the timer stays armed.
OtherInterrupt(c) ==
  /\ pc[c] = "idle"
  /\ Acquire(c, c)
  /\ pc' = [pc EXCEPT ![c] = "scan"]
  /\ UNCHANGED <<state, waitVars, note, queue, blocked, timer, uptime, removing, wakeVars>>

\* list_first(&wait->blockedThreads)
First(c, t) == t \in blocked[c] /\ \A u \in blocked[c] : deadline[t] <= deadline[u]

ScanEnd(c) ==
  /\ pc[c] = "scan"
  /\ \/ blocked[c] = {} /\ UNCHANGED timer
     \/ \E t \in Threads : /\ First(c, t)
                           /\ ~Expired(t)
                           /\ timer' = TimerSet(c, deadline[t])
  /\ lock' = [lock EXCEPT ![c] = None]
  /\ pc' = [pc EXCEPT ![c] = "idle"]
  /\ UNCHANGED <<state, waitVars, note, queue, blocked, uptime, removing, wakeVars>>

\* Mutant: the error is written before the thread is claimed.
ScanExpired_ErrFirst(c) ==
  /\ pc[c] = "scan"
  /\ \E t \in Threads :
       /\ First(c, t)
       /\ Expired(t)
       /\ err' = [err EXCEPT ![t] = "ETIMEDOUT"]
       /\ blocked' = [blocked EXCEPT ![c] = @ \ {t}]
       /\ IF Claimable(t)
          THEN /\ state' = [state EXCEPT ![t] = "unblocking"]
               /\ removing' = [removing EXCEPT ![c] = t]
               /\ pc' = [pc EXCEPT ![c] = "expire"]
          ELSE UNCHANGED <<state, removing, pc>>
  /\ UNCHANGED <<qs, held, deadline, owner, cpu, note, queue, lock, timer, uptime, wakeVars>>

\* The first thread's deadline passed.  If the exchange fails somebody else is
\* unblocking the thread and the scan goes on without it.
ScanExpired(c) ==
  /\ pc[c] = "scan"
  /\ \E t \in Threads :
       /\ First(c, t)
       /\ Expired(t)
       /\ blocked' = [blocked EXCEPT ![c] = @ \ {t}]
       /\ IF Claimable(t)
          THEN /\ state' = [state EXCEPT ![t] = "unblocking"]
               /\ err' = [err EXCEPT ![t] = "ETIMEDOUT"]
               /\ removing' = [removing EXCEPT ![c] = t]
               /\ pc' = [pc EXCEPT ![c] = "expire"]
          ELSE UNCHANGED <<state, err, removing, pc>>
  /\ UNCHANGED <<qs, held, deadline, owner, cpu, note, queue, lock, timer, uptime, wakeVars>>

ExpireSubmit(c) ==
  /\ pc[c] = "expire"
  /\ EntriesGone(removing[c])
  /\ Submit(removing[c], c, "scan")
  /\ removing' = [removing EXCEPT ![c] = None]
  /\ UNCHANGED <<held, err, deadline, owner, note, queue, cpuVars, uptime, wakeVars>>

-----------------------------------------------------------------------------
ThreadStep(t) ==
  \/ PrepareStart(t) \/ PrepareLock(t) \/ PreparePush(t) \/ PrepareNoMem(t)
  \/ PrepareCas(t) \/ Cancel(t) \/ CommitEarly(t) \/ CommitBlock(t)
  \/ ResumeSelf(t) \/ FinalizeBlock(t) \/ FinalizeEarly(t) \/ FinalizeNote(t)
  \/ FinalizeDone(t) \/ FinalizeResume(t) \/ HandleNote(t)

WakerStep(w) ==
  \/ UnblockStart(w) \/ UnblockCollect(w) \/ UnblockTake(w) \/ UnblockSubmit(w)
  \/ SendNoteCas(w)
  \/ \E t \in Threads : SendNote(w, t)

CpuStep(c) ==
  \/ TimerInterrupt(c) \/ OtherInterrupt(c)
  \/ ScanEnd(c) \/ ScanExpired(c) \/ ExpireSubmit(c)

Next ==
  \/ \E t \in Threads : ThreadStep(t)
  \/ \E w \in Wakers : WakerStep(w)
  \/ \E c \in Cpus : CpuStep(c)
  \/ \E a \in Agents : RemoveEntry(a)
  \/ Tick

Spec == Init /\ [][Next]_vars

\* Fairness.  A thread that entered the code between wait_block_prepare() and
\* its return runs with interrupts disabled, or is being scheduled away, and
\* goes on; so do wakers and interrupt handlers.  lock_t is a ticket lock:
\* whoever asks for it gets it although others take it again and again, hence
\* strong fairness for the steps that acquire one.  The clock advances and an
\* armed timer fires.  Nothing forces a thread to wait, a waker to come, a note
\* to be sent, or an interrupt other than the timer's.
Fairness ==
  /\ WF_vars(Tick)
  /\ \A t \in Threads :
       /\ SF_vars(PrepareLock(t)) /\ WF_vars(PreparePush(t)) /\ WF_vars(PrepareCas(t))
       /\ WF_vars(CommitEarly(t)) /\ WF_vars(CommitBlock(t)) /\ WF_vars(ResumeSelf(t))
       /\ SF_vars(FinalizeBlock(t)) /\ SF_vars(FinalizeEarly(t))
       /\ WF_vars(FinalizeNote(t)) /\ WF_vars(FinalizeDone(t)) /\ WF_vars(FinalizeResume(t))
  /\ \A w \in Wakers :
       /\ SF_vars(UnblockCollect(w)) /\ SF_vars(UnblockTake(w))
       /\ WF_vars(UnblockSubmit(w)) /\ WF_vars(SendNoteCas(w))
  /\ \A c \in Cpus :
       /\ SF_vars(TimerInterrupt(c))
       /\ WF_vars(ScanEnd(c)) /\ WF_vars(ScanExpired(c)) /\ WF_vars(ExpireSubmit(c))
  /\ \A a \in Agents : SF_vars(RemoveEntry(a))

FairSpec == Spec /\ Fairness

-----------------------------------------------------------------------------
(* Properties *)

\* The thread whose wait agent a has taken it upon itself to end.
Handles(a, t) ==
  \/ removing[a] = t
  \/ a \in Wakers /\ pc[a] \in {"collected", "taken"} /\ t \in batch[a]

\* At most one agent ends a wait: whoever moved the state away from blocked.
\* A second one would remove freed wait entries and submit the thread twice.
\* The assertions and panics of wait.c on the thread's state hold at every place
\* that has one: prepare's compare-exchange, cancel, commit, finalize and
\* wait_remove_wait_entries().
ExclusiveUnblocker ==
  \A t \in Threads :
    /\ \A a, b \in Agents : Handles(a, t) /\ Handles(b, t) => a = b
    /\ \A a \in Agents : Handles(a, t) => state[t] = "unblocking"
    /\ pc[t] = "pushed" => state[t] \in {"active", "unblocking"}
    /\ pc[t] \in {"prepared", "committed"} => state[t] \in {"pre_block", "unblocking"}

\* A thread is unblocked by another agent only when its own CPU is done with
\* wait_block_finalize(): the wait lock of its owner orders the two.  A blocked
\* thread is on blockedThreads of the CPU its owner field names, and no thread
\* is on another CPU's list, where the wrong lock would guard it.
ListedOnOwner ==
  /\ \A t \in Threads : \A a \in Agents \ {t} : removing[a] = t => pc[t] = "off"
  /\ \A t \in Threads : state[t] = "blocked" => owner[t] # None /\ t \in blocked[owner[t]]
  /\ \A c \in Cpus : \A t \in blocked[c] : owner[t] = c /\ pc[t] \in {"fin_note", "off"}

\* A running thread has no entry in any wait queue: a waker that found one
\* would set the state of a thread that does not wait.
NoStaleEntry ==
  \A t \in Threads : pc[t] \in {"run", "locking"} => \A q \in Queues : t \notin queue[q]

\* A note is never lost on a thread that just blocked: either finalize saw it or
\* its sender has yet to try its compare-exchange.
NoLostNote ==
  \A t \in Threads :
    note[t] /\ pc[t] = "off" /\ state[t] = "blocked" =>
      \E w \in Wakers : pc[w] = "noted" /\ t \in batch[w]

\* The timer of a CPU is armed for the earliest deadline on its list, or for the
\* minimal timeout from now, whenever neither wait_check_timeouts() nor
\* wait_block_finalize() is in the middle of changing the list.
TimerCovers ==
  \A c \in Cpus : \A t \in blocked[c] :
    pc[c] = "idle" /\ pc[t] = "off" => timer[c] <= NotBefore(deadline[t])

\* A wait reports ETIMEDOUT only when its deadline has passed.
NoEarlyTimeout ==
  \A t \in Threads : err[t] = "ETIMEDOUT" => deadline[t] <= uptime

\* No cycle among threads each waiting in wait_block_prepare() for a queue lock
\* that another one holds.  Interrupts are disabled there, so such threads are on
\* different CPUs.
WaitsFor(t, u) ==
  /\ cpu[t] # cpu[u]
  /\ pc[t] = "locking" /\ held[t] < Len(qs[t])
  /\ pc[u] = "locking" /\ qs[t][held[t] + 1] \in LocksOf(u)

LocksAcyclic ==
  \A S \in (SUBSET Threads) \ {{}} : \E t \in S : \A u \in S : ~WaitsFor(t, u)

\* A blocked thread with a timeout runs again.
TimedWaitEnds ==
  \A t \in Threads : (state[t] = "blocked" /\ deadline[t] # Never) ~> (pc[t] = "run")

\* A note that finds its thread blocked interrupts the wait.
NoteEndsWait ==
  \A t \in Threads : (state[t] = "blocked" /\ note[t]) ~> (pc[t] = "run")

\* The wait of a thread ends with the error of the agent that ended it, and no
\* other step of the wait changes a blocked thread's error.
ErrOnlyByUnblocker ==
  [][\A t \in Threads : err'[t] # err[t] /\ pc[t] = "off" =>
       \E a \in Agents \ {t} : removing'[a] = t /\ removing[a] # t]_vars
=============================================================================
