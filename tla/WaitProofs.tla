----------------------------- MODULE WaitProofs -----------------------------
(***************************************************************************)
(* Proofs about the waiting subsystem, for any number of threads, CPUs,    *)
(* wakers and queues.  The allocation of wait entries does not fail: with  *)
(* PrepareNoMem a thread leaves entries behind, and the invariants are     *)
(* false.                                                                  *)
(***************************************************************************)
EXTENDS Wait, TLAPS

\* What the place of a thread in wait.c tells of its state.
Placed ==
  \A t \in Threads :
    /\ pc[t] # "locking" => held[t] = 0
    /\ pc[t] \in {"run", "locking"} => state[t] = "active"
    /\ pc[t] = "pushed" => state[t] \in {"active", "unblocking"}
    /\ pc[t] \in {"prepared", "committed"} => state[t] \in {"pre_block", "unblocking"}
    /\ pc[t] \in {"cancelling", "early", "fin_early"} => state[t] = "unblocking"
    /\ pc[t] \in {"fin_note", "off"} => state[t] \in {"blocked", "unblocking"}

\* A thread has entries only in the queues it asked for, and only once it has pushed them.
Entered ==
  \A t \in Threads : \A q \in Queues :
    t \in queue[q] => q \in QueuesOf(t) /\ pc[t] \notin {"run", "locking"}

\* Who removes the entries of a thread and when: the thread itself, or another agent
\* once the thread is off its CPU.
Removers ==
  \A a \in Agents : \A t \in Threads : removing[a] = t =>
    \/ a = t /\ pc[t] \in {"cancelling", "early", "fin_early"}
    \/ a \in Wakers /\ pc[a] = "taken" /\ pc[t] = "off" /\ state[t] = "unblocking"
    \/ a \in Cpus /\ pc[a] = "expire" /\ pc[t] = "off" /\ state[t] = "unblocking" /\ owner[t] = a

SelfRemoves == \A t \in Threads : pc[t] \in {"cancelling", "early", "fin_early"} =>
        removing[t] = t

AgentsRemove ==
  /\ \A w \in Wakers : pc[w] = "taken" => removing[w] \in Threads
  /\ \A c \in Cpus : pc[c] = "expire" => removing[c] \in Threads

Removes == Removers /\ SelfRemoves /\ AgentsRemove

\* What a waker has collected is claimed by it, and committed to block.
Claimed ==
  \A w \in Wakers : \A t \in Threads : pc[w] \in {"collected", "taken"} /\ t \in batch[w] =>
    /\ state[t] = "unblocking" /\ pc[t] \in {"fin_note", "off"} /\ owner[t] \in Cpus
    /\ \A a \in Agents : removing[a] # t

ClaimedOnce ==
  \A v, w \in Wakers : \A t \in Threads :
    pc[v] \in {"collected", "taken"} /\ pc[w] \in {"collected", "taken"} =>
      (t \in batch[v] /\ t \in batch[w] => v = w)

\* An idle waker has collected nothing, the sender of a note is after one thread.
Batches ==
  /\ \A w \in Wakers : pc[w] = "idle" => batch[w] = {}
  /\ \A w \in Wakers : pc[w] = "noted" => \A t, u \in batch[w] : t = u

Collected == Claimed /\ ClaimedOnce /\ Batches

\* No two agents remove the entries of the same thread.
OneRemoves == \A a, b \in Agents : removing[a] \in Threads /\ removing[a] = removing[b] => a = b

\* Who holds the wait lock of a CPU: a thread in wait_block_finalize(), the CPU's interrupt
\* handler, or a waker that unblocks a thread the CPU owns.
LockedByThread ==
  \A t \in Threads : pc[t] \in {"fin_note", "fin_early"} => owner[t] \in Cpus /\
          lock[owner[t]] = t

LockedByCpu == \A c \in Cpus : pc[c] \in {"scan", "expire"} => lock[c] = c

LockedByWaker ==
  \A w \in Wakers : \A t \in Threads :
    pc[w] = "taken" /\ removing[w] = t => owner[t] \in Cpus /\ lock[owner[t]] = w

Locked == LockedByThread /\ LockedByCpu /\ LockedByWaker

\* blockedThreads has the threads that are blocked, on the list of their owner.
BlockedListed == \A t \in Threads : state[t] = "blocked" => owner[t] \in Cpus /\
        t \in blocked[owner[t]]

ListedOwned == \A c \in Cpus : \A t \in blocked[c] : owner[t] = c /\ pc[t] \in {"fin_note", "off"}

GoneUnlisted == \A a \in Agents : \A t \in Threads : \A c \in Cpus : removing[a] = t =>
        t \notin blocked[c]

Listed == BlockedListed /\ ListedOwned /\ GoneUnlisted

Inv == TypeOK /\ Placed /\ Entered /\ Removes /\ OneRemoves /\ Collected /\ Locked /\ Listed

\* The agents are told apart.
Apart ==
  /\ \A t \in Threads : t \notin Cpus /\ t \notin Wakers
  /\ \A c \in Cpus : c \notin Wakers
  /\ None \notin Threads /\ None \notin Cpus /\ None \notin Wakers

\* Sensible parameters keep the agents apart.
LEMMA SensibleApart == Sensible => Apart
  BY DEF Sensible, Apart, Agents

\* sched_submit() by a waker that has removed all the thread's entries.
Submitted(w, t) ==
  /\ removing[w] = t /\ pc[w] = "taken" /\ pc[t] = "off" /\ state[t] = "unblocking"
  /\ owner[t] \in Cpus /\ lock[owner[t]] = w
  /\ \A q \in QueuesOf(t) : t \notin queue[q]
  /\ state' = [state EXCEPT ![t] = "active"]
  /\ qs' = [qs EXCEPT ![t] = <<>>]
  /\ pc'[t] = "run" /\ pc'[w] = (IF batch[w] = {} THEN "idle" ELSE "collected")
  /\ \A u \in Threads : u # t => pc'[u] = pc[u]
  /\ \A v \in Wakers : v # w => pc'[v] = pc[v]
  /\ \A c \in Cpus : pc'[c] = pc[c]
  /\ \A c \in Cpus : lock'[c] = IF c = owner[t] THEN None ELSE lock[c]
  /\ removing'[w] = None
  /\ \A a \in Agents : a # w => removing'[a] = removing[a] /\ removing[a] # t
  /\ UNCHANGED <<held, owner, queue, blocked, batch, err, deadline, note, timer, uptime>>

\* What UnblockSubmit does.
LEMMA UnblockSubmitFx ==
  ASSUME Sensible, Inv, NEW w \in Wakers, UnblockSubmit(w)
  PROVE  \E t \in Threads : Submitted(w, t)
<1> DEFINE t == removing[w]
<1>1. PcType /\ WakeType /\ Removes /\ OneRemoves /\ Locked /\ Apart
  BY SensibleApart DEF Inv, TypeOK
<1>2. t \in Threads /\ pc[w] = "taken" /\ owner[t] \in Cpus /\ lock[owner[t]] = w
  BY <1>1 DEF UnblockSubmit, Removes, AgentsRemove, Locked, LockedByWaker, LockedByCpu
<1>3. pc[t] = "off" /\ state[t] = "unblocking"
  BY <1>1, <1>2 DEF Removes, Removers, Apart, Agents
<1>4. \A a \in Agents : a # w => removing[a] # t
  BY <1>1, <1>2 DEF OneRemoves, Agents
<1>8. \A c \in Cpus : lock'[c] = IF c = owner[t] THEN None ELSE lock[c]
  BY DEF UnblockSubmit, Inv, TypeOK, CpuType
<1>5. pc' = [pc EXCEPT ![t] = "run", ![w] = IF batch[w] = {} THEN "idle" ELSE "collected"]
  BY DEF UnblockSubmit, Submit
<1>6. /\ pc'[t] = "run" /\ pc'[w] = (IF batch[w] = {} THEN "idle" ELSE "collected")
      /\ \A u \in Threads : u # t => pc'[u] = pc[u]
      /\ \A v \in Wakers : v # w => pc'[v] = pc[v]
      /\ \A c \in Cpus : pc'[c] = pc[c]
  <2> HIDE DEF t
  <2>1. t # w /\ t \in Agents /\ w \in Agents
    BY <1>1, <1>2 DEF Apart, Agents
  <2> QED BY <1>1, <1>2, <1>5, <2>1 DEF PcType, Apart, Agents
<1>7. removing'[w] = None /\ \A a \in Agents : a # w => removing'[a] = removing[a]
  BY <1>1 DEF UnblockSubmit, WakeType, Agents
<1> QED BY <1>2, <1>3, <1>4, <1>6, <1>7, <1>8 DEF Submitted, UnblockSubmit, Submit, EntriesGone

\* sched_submit() by an interrupt handler that has removed all the thread's entries.
Resubmitted(c, t) ==
  /\ removing[c] = t /\ pc[c] = "expire" /\ pc[t] = "off" /\ state[t] = "unblocking"
  /\ owner[t] = c /\ lock[c] = c
  /\ \A q \in QueuesOf(t) : t \notin queue[q]
  /\ state' = [state EXCEPT ![t] = "active"]
  /\ qs' = [qs EXCEPT ![t] = <<>>]
  /\ pc'[t] = "run" /\ pc'[c] = "scan"
  /\ \A u \in Threads : u # t => pc'[u] = pc[u]
  /\ \A v \in Wakers : pc'[v] = pc[v]
  /\ \A d \in Cpus : d # c => pc'[d] = pc[d]
  /\ removing'[c] = None
  /\ \A a \in Agents : a # c => removing'[a] = removing[a] /\ removing[a] # t
  /\ UNCHANGED <<held, owner, queue, blocked, batch, err, deadline, note, timer, uptime, lock,
          wreq>>

\* What ExpireSubmit does.
LEMMA ExpireSubmitFx ==
  ASSUME Sensible, Inv, NEW c \in Cpus, ExpireSubmit(c)
  PROVE  \E t \in Threads : Resubmitted(c, t)
<1> DEFINE t == removing[c]
<1>1. PcType /\ WakeType /\ Removes /\ OneRemoves /\ Locked /\ Apart
  BY SensibleApart DEF Inv, TypeOK
<1>2. t \in Threads /\ pc[c] = "expire" /\ lock[c] = c
  BY <1>1 DEF ExpireSubmit, Removes, AgentsRemove, Locked, LockedByWaker, LockedByCpu
<1>3. pc[t] = "off" /\ state[t] = "unblocking" /\ owner[t] = c
  BY <1>1, <1>2 DEF Removes, Removers, Apart, Agents
<1>4. \A a \in Agents : a # c => removing[a] # t
  BY <1>1, <1>2 DEF OneRemoves, Agents
<1>5. pc' = [pc EXCEPT ![t] = "run", ![c] = "scan"]
  BY DEF ExpireSubmit, Submit
<1>6. /\ pc'[t] = "run" /\ pc'[c] = "scan"
      /\ \A u \in Threads : u # t => pc'[u] = pc[u]
      /\ \A v \in Wakers : pc'[v] = pc[v]
      /\ \A d \in Cpus : d # c => pc'[d] = pc[d]
  <2> HIDE DEF t
  <2>1. t # c /\ t \in Agents /\ c \in Agents
    BY <1>1, <1>2 DEF Apart, Agents
  <2> QED BY <1>1, <1>2, <1>5, <2>1 DEF PcType, Apart, Agents
<1>7. removing'[c] = None /\ \A a \in Agents : a # c => removing'[a] = removing[a]
  BY <1>1 DEF ExpireSubmit, WakeType, Agents
<1> QED BY <1>2, <1>3, <1>4, <1>6, <1>7 DEF Resubmitted, ExpireSubmit, Submit, EntriesGone,
        cpuVars, wakeVars

\* A collected thread is taken off the list of its owner, under its owner's wait lock: its
\* CPU is done with wait_block_finalize().
Taken(w, t) ==
  /\ pc[w] = "collected" /\ t \in batch[w] /\ pc[t] = "off" /\ state[t] = "unblocking"
  /\ owner[t] \in Cpus /\ lock[owner[t]] = None
  /\ \A a \in Agents : removing[a] # t
  /\ \A v \in Wakers : pc[v] \in {"collected", "taken"} /\ t \in batch[v] => v = w
  /\ lock' = [lock EXCEPT ![owner[t]] = w]
  /\ blocked' = [blocked EXCEPT ![owner[t]] = blocked[owner[t]] \ {t}]
  /\ err' = [err EXCEPT ![t] = wreq[w].err]
  /\ removing' = [removing EXCEPT ![w] = t]
  /\ batch' = [batch EXCEPT ![w] = batch[w] \ {t}]
  /\ pc' = [pc EXCEPT ![w] = "taken"]
  /\ UNCHANGED <<state, qs, held, deadline, owner, cpu, note, queue, timer, uptime, wreq>>

\* What UnblockTake does.
LEMMA UnblockTakeFx ==
  ASSUME Sensible, Inv, NEW w \in Wakers, UnblockTake(w)
  PROVE  \E t \in Threads : Taken(w, t)
<1>1. PICK t \in batch[w] :
        /\ lock[owner[t]] = None
        /\ lock' = [lock EXCEPT ![owner[t]] = w]
        /\ blocked' = [blocked EXCEPT ![owner[t]] = blocked[owner[t]] \ {t}]
        /\ err' = [err EXCEPT ![t] = wreq[w].err]
        /\ removing' = [removing EXCEPT ![w] = t]
        /\ batch' = [batch EXCEPT ![w] = batch[w] \ {t}]
  BY DEF UnblockTake, Acquire
<1>2. t \in Threads /\ pc[w] = "collected"
  BY DEF UnblockTake, Inv, TypeOK, WakeType
<1>3. /\ state[t] = "unblocking" /\ pc[t] \in {"fin_note", "off"} /\ owner[t] \in Cpus
      /\ \A a \in Agents : removing[a] # t
      /\ \A v \in Wakers : pc[v] \in {"collected", "taken"} /\ t \in batch[v] => v = w
  BY <1>2 DEF Inv, Collected, Claimed, ClaimedOnce
<1>4. pc[t] = "off"
  BY <1>1, <1>2, <1>3, SensibleApart DEF Inv, Locked, LockedByThread, Apart
<1> QED BY <1>1, <1>2, <1>3, <1>4 DEF Taken, UnblockTake

\* One scan of a queue: what was scanned is unblocking, what was blocked is collected.
Scanned(w, q, scanned, found) ==
  /\ pc[w] = "idle" /\ scanned \subseteq queue[q]
  /\ \A t \in Threads : t \in found <=> t \in scanned /\ state[t] = "blocked"
  /\ \A t \in Threads : state'[t] = IF t \in scanned THEN "unblocking" ELSE state[t]
  /\ queue' = [queue EXCEPT ![q] = queue[q] \ found]
  /\ batch'[w] = found /\ \A v \in Wakers : v # w => batch'[v] = batch[v]
  /\ pc' = [pc EXCEPT ![w] = IF found = {} THEN "idle" ELSE "collected"]
  /\ UNCHANGED <<qs, held, err, deadline, owner, cpu, note, blocked, lock, timer, uptime,
          removing>>

\* What UnblockCollect does.
LEMMA UnblockCollectFx ==
  ASSUME Sensible, Inv, NEW w \in Wakers, UnblockCollect(w)
  PROVE  \E q \in Queues, scanned \in SUBSET Threads, found \in SUBSET Threads : Scanned(w, q,
          scanned, found)
<1> DEFINE q == wreq[w].queue
<1>1. PICK scanned \in SUBSET queue[q] :
        /\ state' = [t \in Threads |-> IF t \in scanned THEN "unblocking" ELSE state[t]]
        /\ queue' = [queue EXCEPT ![q] = queue[q] \ {t \in scanned : state[t] = "blocked"}]
        /\ batch' = [batch EXCEPT ![w] = {t \in scanned : state[t] = "blocked"}]
        /\ pc' = [pc EXCEPT ![w] = IF {t \in scanned :
                state[t] = "blocked"} = {} THEN "idle" ELSE "collected"]
  BY DEF UnblockCollect
<1>2. q \in Queues /\ queue[q] \subseteq Threads
  BY DEF UnblockCollect, Inv, TypeOK, WakeType, EntryType, Reqs
<1> DEFINE found == {t \in scanned : state[t] = "blocked"}
<1>3. /\ scanned \in SUBSET Threads /\ found \in SUBSET Threads
      /\ \A t \in Threads : t \in found <=> t \in scanned /\ state[t] = "blocked"
  BY <1>2
<1>4. /\ batch' = [batch EXCEPT ![w] = found]
      /\ queue' = [queue EXCEPT ![q] = queue[q] \ found]
      /\ pc' = [pc EXCEPT ![w] = IF found = {} THEN "idle" ELSE "collected"]
  BY <1>1
<1>5. \A t \in Threads : state'[t] = IF t \in scanned THEN "unblocking" ELSE state[t]
  BY <1>1
<1>6. batch'[w] = found /\ \A v \in Wakers : v # w => batch'[v] = batch[v]
  BY <1>4 DEF Inv, TypeOK, WakeType
<1>7. pc[w] = "idle" /\ UNCHANGED <<qs, held, err, deadline, owner, cpu, note, blocked, lock,
        timer, uptime, removing>>
  BY DEF UnblockCollect, waitVars, cpuVars
<1> HIDE DEF found, q
<1> QED BY <1>2, <1>3, <1>4, <1>5, <1>6, <1>7 DEF Scanned

\* The first thread of the list has expired: it is off its CPU, and nobody removes its entries.
TimedOut(c, t) ==
  /\ pc[c] = "scan" /\ lock[c] = c /\ t \in blocked[c] /\ owner[t] = c /\ pc[t] = "off"
  /\ deadline[t] <= uptime
  /\ \A a \in Agents : removing[a] # t
  /\ blocked' = [blocked EXCEPT ![c] = blocked[c] \ {t}]
  /\ \/ /\ state[t] = "blocked"
        /\ state' = [state EXCEPT ![t] = "unblocking"]
        /\ err' = [err EXCEPT ![t] = "ETIMEDOUT"]
        /\ removing' = [removing EXCEPT ![c] = t]
        /\ pc' = [pc EXCEPT ![c] = "expire"]
     \/ state[t] # "blocked" /\ UNCHANGED <<state, err, removing, pc>>
  /\ UNCHANGED <<qs, held, deadline, owner, cpu, note, queue, lock, timer, uptime, wreq, batch>>

\* What ScanExpired does.
LEMMA ScanExpiredFx ==
  ASSUME Sensible, Inv, NEW c \in Cpus, ScanExpired(c)
  PROVE  \E t \in Threads : TimedOut(c, t)
<1>1. CpuType /\ WakeType /\ Locked /\ Listed /\ Apart
  BY SensibleApart DEF Inv, TypeOK
<1>2. PICK t \in Threads :
        /\ t \in blocked[c]
        /\ deadline[t] <= uptime
        /\ blocked' = [blocked EXCEPT ![c] = blocked[c] \ {t}]
        /\ \/ /\ state[t] = "blocked"
              /\ state' = [state EXCEPT ![t] = "unblocking"]
              /\ err' = [err EXCEPT ![t] = "ETIMEDOUT"]
              /\ removing' = [removing EXCEPT ![c] = t]
              /\ pc' = [pc EXCEPT ![c] = "expire"]
           \/ state[t] # "blocked" /\ UNCHANGED <<state, err, removing, pc>>
  BY DEF ScanExpired, First, Expired, Claimable
<1>3. pc[c] = "scan" /\ lock[c] = c
  BY <1>1 DEF ScanExpired, Locked, LockedByCpu
<1>4. owner[t] = c /\ pc[t] = "off"
  BY <1>1, <1>2, <1>3 DEF Listed, ListedOwned, Locked, LockedByThread, Apart
<1>5. \A a \in Agents : removing[a] # t
  BY <1>1, <1>2 DEF Listed, GoneUnlisted, CpuType
<1> QED BY <1>2, <1>3, <1>4, <1>5 DEF TimedOut, ScanExpired, wakeVars

\* timer_set() arms the timer for a number.
LEMMA TimerSetType ==
  ASSUME Sensible, CpuType, NEW c, NEW d \in Nat
  PROVE  TimerSet(c, d) \in [Cpus -> Nat]
<1>1. NotBefore(d) \in Nat
  BY DEF NotBefore, Sensible, CpuType
<1> QED BY <1>1 DEF TimerSet, CpuType

\* Every step preserves PcType.
LEMMA PcStep == Sensible /\ ~AllocMayFail /\ Inv /\ [Next]_vars => PcType'
<1> SUFFICES ASSUME Sensible, ~AllocMayFail, Inv, [Next]_vars PROVE PcType'
  OBVIOUS
<1> USE DEF Inv, TypeOK, Agents, Sensible, PcType, ThreadPcs, CpuPcs, WakerPcs
<1>1. ASSUME UNCHANGED <<pc>> PROVE PcType'
  BY <1>1
<1>2. ASSUME NEW t \in Threads, PrepareStart(t) PROVE PcType'
  BY <1>2 DEF PrepareStart, waitVars, cpuVars, wakeVars
<1>3. ASSUME NEW t \in Threads, PreparePush(t) PROVE PcType'
  BY <1>3 DEF PreparePush, Deadline, waitVars, cpuVars, wakeVars
<1>4. ASSUME NEW t \in Threads, PrepareCas(t) PROVE PcType'
  BY <1>4 DEF PrepareCas, waitVars, cpuVars, wakeVars
<1>5. ASSUME NEW t \in Threads, Cancel(t) PROVE PcType'
  BY <1>5 DEF Cancel, waitVars, cpuVars, wakeVars
<1>6. ASSUME NEW t \in Threads, CommitEarly(t) PROVE PcType'
  BY <1>6 DEF CommitEarly, waitVars, cpuVars, wakeVars
<1>7. ASSUME NEW t \in Threads, CommitBlock(t) PROVE PcType'
  BY <1>7 DEF CommitBlock, waitVars, cpuVars, wakeVars
<1>8. ASSUME NEW t \in Threads, ResumeSelf(t) PROVE PcType'
  BY <1>8 DEF ResumeSelf, waitVars, cpuVars, wakeVars
<1>9. ASSUME NEW t \in Threads, FinalizeBlock(t) PROVE PcType'
  BY <1>9 DEF FinalizeBlock, Acquire, waitVars, cpuVars, wakeVars
<1>10. ASSUME NEW t \in Threads, FinalizeEarly(t) PROVE PcType'
  BY <1>10 DEF FinalizeEarly, Acquire, waitVars, cpuVars, wakeVars
<1>11. ASSUME NEW t \in Threads, FinalizeNote(t) PROVE PcType'
  BY <1>11 DEF FinalizeNote, NotePending, Claimable, waitVars, cpuVars, wakeVars
<1>12. ASSUME NEW t \in Threads, FinalizeDone(t) PROVE PcType'
  BY <1>12 DEF FinalizeDone, NotePending, Claimable, TimerSet, NotBefore, waitVars, cpuVars,
      wakeVars
<1>13. ASSUME NEW t \in Threads, FinalizeResume(t) PROVE PcType'
  BY <1>13 DEF FinalizeResume, waitVars, cpuVars, wakeVars
<1>14. ASSUME NEW w \in Wakers, UnblockCollect(w) PROVE PcType'
  BY <1>14 DEF UnblockCollect, waitVars, cpuVars, wakeVars
<1>15. ASSUME NEW w \in Wakers, UnblockTake(w) PROVE PcType'
  BY <1>15 DEF UnblockTake, Acquire, waitVars, cpuVars, wakeVars
<1>16. ASSUME NEW w \in Wakers, UnblockSubmit(w) PROVE PcType'
  BY <1>16 DEF UnblockSubmit, Submit, Removes, AgentsRemove, WakeType, waitVars, cpuVars,
      wakeVars
<1>17. ASSUME NEW w \in Wakers, SendNoteCas(w) PROVE PcType'
  BY <1>17 DEF SendNoteCas, Claimable, waitVars, cpuVars, wakeVars
<1>18. ASSUME NEW w \in Wakers, NEW t \in Threads, SendNote(w, t) PROVE PcType'
  BY <1>18 DEF SendNote, waitVars, cpuVars, wakeVars
<1>19. ASSUME NEW c \in Cpus, TimerInterrupt(c) PROVE PcType'
  BY <1>19 DEF TimerInterrupt, Acquire, waitVars, cpuVars, wakeVars
<1>20. ASSUME NEW c \in Cpus, OtherInterrupt(c) PROVE PcType'
  BY <1>20 DEF OtherInterrupt, Acquire, waitVars, cpuVars, wakeVars
<1>21. ASSUME NEW c \in Cpus, ScanEnd(c) PROVE PcType'
  BY <1>21 DEF ScanEnd, TimerSet, NotBefore, waitVars, cpuVars, wakeVars
<1>22. ASSUME NEW c \in Cpus, ScanExpired(c) PROVE PcType'
  BY <1>22 DEF ScanExpired, Claimable, waitVars, cpuVars, wakeVars
<1>23. ASSUME NEW c \in Cpus, ExpireSubmit(c) PROVE PcType'
  BY <1>23 DEF ExpireSubmit, Submit, Removes, AgentsRemove, WakeType, waitVars, cpuVars,
      wakeVars
<1>24. ASSUME NEW t \in Threads, PrepareLock(t) \/ HandleNote(t)
      PROVE  PcType'
  BY <1>1, <1>24 DEF PrepareLock, HandleNote, waitVars, cpuVars, wakeVars
<1>25. ASSUME NEW w \in Wakers, UnblockStart(w)
      PROVE  PcType'
  BY <1>1, <1>25 DEF UnblockStart, waitVars, cpuVars, wakeVars
<1>26. ASSUME NEW a \in Agents, RemoveEntry(a)
      PROVE  PcType'
  BY <1>1, <1>26 DEF RemoveEntry, waitVars, cpuVars, wakeVars
<1>27. ASSUME Tick
      PROVE  PcType'
  BY <1>1, <1>27 DEF Tick, waitVars, cpuVars, wakeVars
<1>28. CASE UNCHANGED vars
  BY <1>1, <1>28 DEF vars, waitVars, cpuVars, wakeVars
<1>29. ASSUME NEW t \in Threads, PrepareNoMem(t) PROVE FALSE
  BY <1>29 DEF PrepareNoMem
<1> QED BY <1>1, <1>2, <1>3, <1>4, <1>5, <1>6, <1>7, <1>8, <1>9, <1>10, <1>11, <1>12, <1>13,
           <1>14, <1>15, <1>16, <1>17, <1>18, <1>19, <1>20, <1>21, <1>22, <1>23, <1>24, <1>25,
           <1>26, <1>27, <1>28, <1>29
  DEF Next, ThreadStep, WakerStep, CpuStep

\* Every step preserves ThreadType.
LEMMA ThreadTypeStep == Sensible /\ ~AllocMayFail /\ Inv /\ [Next]_vars => ThreadType'
<1> SUFFICES ASSUME Sensible, ~AllocMayFail, Inv, [Next]_vars PROVE ThreadType'
  OBVIOUS
<1> USE DEF Inv, TypeOK, Agents, Sensible, ThreadType, States, Errs
<1>1. ASSUME UNCHANGED <<state, err, deadline, owner, note, cpu>> PROVE ThreadType'
  BY <1>1
<1>2. ASSUME NEW t \in Threads, PreparePush(t) PROVE ThreadType'
  BY <1>2 DEF PreparePush, Deadline, CpuType, waitVars, cpuVars, wakeVars
<1>3. ASSUME NEW t \in Threads, PrepareCas(t) PROVE ThreadType'
  BY <1>3 DEF PrepareCas, waitVars, cpuVars, wakeVars
<1>4. ASSUME NEW t \in Threads, Cancel(t) PROVE ThreadType'
  BY <1>4 DEF Cancel, waitVars, cpuVars, wakeVars
<1>5. ASSUME NEW t \in Threads, CommitEarly(t) PROVE ThreadType'
  BY <1>5 DEF CommitEarly, waitVars, cpuVars, wakeVars
<1>6. ASSUME NEW t \in Threads, ResumeSelf(t) PROVE ThreadType'
  BY <1>6 DEF ResumeSelf, waitVars, cpuVars, wakeVars
<1>7. ASSUME NEW t \in Threads, FinalizeBlock(t) PROVE ThreadType'
  BY <1>7 DEF FinalizeBlock, Acquire, waitVars, cpuVars, wakeVars
<1>8. ASSUME NEW t \in Threads, FinalizeEarly(t) PROVE ThreadType'
  BY <1>8 DEF FinalizeEarly, Acquire, waitVars, cpuVars, wakeVars
<1>9. ASSUME NEW t \in Threads, FinalizeNote(t) PROVE ThreadType'
  BY <1>9 DEF FinalizeNote, NotePending, Claimable, waitVars, cpuVars, wakeVars
<1>10. ASSUME NEW t \in Threads, FinalizeResume(t) PROVE ThreadType'
  BY <1>10 DEF FinalizeResume, waitVars, cpuVars, wakeVars
<1>11. ASSUME NEW t \in Threads, HandleNote(t) PROVE ThreadType'
  BY <1>11 DEF HandleNote, waitVars, cpuVars, wakeVars
<1>12. ASSUME NEW w \in Wakers, UnblockCollect(w) PROVE ThreadType'
  BY <1>12 DEF UnblockCollect, waitVars, cpuVars, wakeVars
<1>13. ASSUME NEW w \in Wakers, UnblockTake(w) PROVE ThreadType'
  BY <1>13 DEF UnblockTake, Acquire, Collected, WakeType, Reqs, Errs, waitVars, cpuVars,
      wakeVars
<1>14. ASSUME NEW w \in Wakers, UnblockSubmit(w) PROVE ThreadType'
  <2>1. PICK c2 \in Cpus : cpu' = [cpu EXCEPT ![removing[w]] = c2]
    BY <1>14 DEF UnblockSubmit, Submit
  <2>2. cpu' \in [Threads -> Cpus]
    BY <2>1
  <2> QED BY <1>14, <2>2 DEF UnblockSubmit, Submit, cpuVars, wakeVars
<1>15. ASSUME NEW w \in Wakers, SendNoteCas(w) PROVE ThreadType'
  BY <1>15 DEF SendNoteCas, Claimable, waitVars, cpuVars, wakeVars
<1>16. ASSUME NEW w \in Wakers, NEW t \in Threads, SendNote(w, t) PROVE ThreadType'
  BY <1>16 DEF SendNote, waitVars, cpuVars, wakeVars
<1>17. ASSUME NEW c \in Cpus, ScanExpired(c) PROVE ThreadType'
  BY <1>17 DEF ScanExpired, Claimable, waitVars, cpuVars, wakeVars
<1>18. ASSUME NEW c \in Cpus, ExpireSubmit(c) PROVE ThreadType'
  <2>1. PICK c2 \in Cpus : cpu' = [cpu EXCEPT ![removing[c]] = c2]
    BY <1>18 DEF ExpireSubmit, Submit
  <2>2. cpu' \in [Threads -> Cpus]
    BY <2>1
  <2> QED BY <1>18, <2>2 DEF ExpireSubmit, Submit, cpuVars, wakeVars
<1>19. ASSUME NEW t \in Threads, PrepareStart(t) \/ PrepareLock(t) \/ CommitBlock(t) \/
        FinalizeDone(t)
      PROVE  ThreadType'
  BY <1>1, <1>19 DEF PrepareStart, PrepareLock, CommitBlock, FinalizeDone, NotePending,
      Claimable, TimerSet, NotBefore, waitVars, cpuVars, wakeVars
<1>20. ASSUME NEW w \in Wakers, UnblockStart(w)
      PROVE  ThreadType'
  BY <1>1, <1>20 DEF UnblockStart, waitVars, cpuVars, wakeVars
<1>21. ASSUME NEW c \in Cpus, TimerInterrupt(c) \/ OtherInterrupt(c) \/ ScanEnd(c)
      PROVE  ThreadType'
  BY <1>1, <1>21 DEF TimerInterrupt, OtherInterrupt, ScanEnd, Acquire, TimerSet, NotBefore,
      waitVars, cpuVars, wakeVars
<1>22. ASSUME NEW a \in Agents, RemoveEntry(a)
      PROVE  ThreadType'
  BY <1>1, <1>22 DEF RemoveEntry, waitVars, cpuVars, wakeVars
<1>23. ASSUME Tick
      PROVE  ThreadType'
  BY <1>1, <1>23 DEF Tick, waitVars, cpuVars, wakeVars
<1>24. CASE UNCHANGED vars
  BY <1>1, <1>24 DEF vars, waitVars, cpuVars, wakeVars
<1>25. ASSUME NEW t \in Threads, PrepareNoMem(t) PROVE FALSE
  BY <1>25 DEF PrepareNoMem
<1> QED BY <1>1, <1>2, <1>3, <1>4, <1>5, <1>6, <1>7, <1>8, <1>9, <1>10, <1>11, <1>12, <1>13,
           <1>14, <1>15, <1>16, <1>17, <1>18, <1>19, <1>20, <1>21, <1>22, <1>23, <1>24, <1>25
  DEF Next, ThreadStep, WakerStep, CpuStep

\* Every step preserves EntryType.
LEMMA EntryTypeStep == Sensible /\ ~AllocMayFail /\ Inv /\ [Next]_vars => EntryType'
<1> SUFFICES ASSUME Sensible, ~AllocMayFail, Inv, [Next]_vars PROVE EntryType'
  OBVIOUS
<1> USE DEF Inv, TypeOK, Agents, Sensible, EntryType
<1>1. ASSUME UNCHANGED <<qs, held, queue>> PROVE EntryType'
  BY <1>1
<1>2. ASSUME NEW t \in Threads, PrepareStart(t) PROVE EntryType'
  BY <1>2 DEF PrepareStart, waitVars, cpuVars, wakeVars
<1>3. ASSUME NEW t \in Threads, PrepareLock(t) PROVE EntryType'
  BY <1>3 DEF PrepareLock, waitVars, cpuVars, wakeVars
<1>4. ASSUME NEW t \in Threads, PreparePush(t) PROVE EntryType'
  BY <1>4 DEF PreparePush, Deadline, waitVars, cpuVars, wakeVars
<1>5. ASSUME NEW t \in Threads, ResumeSelf(t) PROVE EntryType'
  <2>1. t \in Threads /\ held[t] = 0
    BY <1>5 DEF ResumeSelf, Placed
  <2>2. qs' = [qs EXCEPT ![t] = <<>>] /\ UNCHANGED <<held, queue>>
    BY <1>5 DEF ResumeSelf, Submit
  <2>3. qs' \in [Threads -> Seq(Queues)]
    BY <2>1, <2>2
  <2>4. \A u \in Threads : held'[u] <= Len(qs'[u])
    BY <2>1, <2>2
  <2> QED BY <2>2, <2>3, <2>4
<1>6. ASSUME NEW t \in Threads, FinalizeResume(t) PROVE EntryType'
  <2>1. t \in Threads /\ held[t] = 0
    BY <1>6 DEF FinalizeResume, Placed
  <2>2. qs' = [qs EXCEPT ![t] = <<>>] /\ UNCHANGED <<held, queue>>
    BY <1>6 DEF FinalizeResume, Submit
  <2>3. qs' \in [Threads -> Seq(Queues)]
    BY <2>1, <2>2
  <2>4. \A u \in Threads : held'[u] <= Len(qs'[u])
    BY <2>1, <2>2
  <2> QED BY <2>2, <2>3, <2>4
<1>7. ASSUME NEW w \in Wakers, UnblockCollect(w) PROVE EntryType'
  <2>1. PICK s : queue' = [queue EXCEPT ![wreq[w].queue] = queue[wreq[w].queue] \ s]
    BY <1>7 DEF UnblockCollect
  <2>2. queue' \in [Queues -> SUBSET Threads]
    BY <2>1
  <2> QED BY <1>7, <2>2 DEF UnblockCollect, waitVars
<1>8. ASSUME NEW w \in Wakers, UnblockSubmit(w) PROVE EntryType'
  <2>1. removing[w] \in Threads /\ held[removing[w]] = 0
    BY <1>8, UnblockSubmitFx DEF Submitted, Placed
  <2>2. qs' = [qs EXCEPT ![removing[w]] = <<>>] /\ UNCHANGED <<held, queue>>
    BY <1>8 DEF UnblockSubmit, Submit
  <2>3. qs' \in [Threads -> Seq(Queues)]
    BY <2>1, <2>2
  <2>4. \A u \in Threads : held'[u] <= Len(qs'[u])
    BY <2>1, <2>2
  <2> QED BY <2>2, <2>3, <2>4
<1>9. ASSUME NEW c \in Cpus, ExpireSubmit(c) PROVE EntryType'
  <2>1. removing[c] \in Threads /\ held[removing[c]] = 0
    BY <1>9, ExpireSubmitFx DEF Resubmitted, Placed
  <2>2. qs' = [qs EXCEPT ![removing[c]] = <<>>] /\ UNCHANGED <<held, queue>>
    BY <1>9 DEF ExpireSubmit, Submit
  <2>3. qs' \in [Threads -> Seq(Queues)]
    BY <2>1, <2>2
  <2>4. \A u \in Threads : held'[u] <= Len(qs'[u])
    BY <2>1, <2>2
  <2> QED BY <2>2, <2>3, <2>4
<1>10. ASSUME NEW a \in Agents, RemoveEntry(a) PROVE EntryType'
  <2>1. PICK q : queue' = [queue EXCEPT ![q] = queue[q] \ {removing[a]}]
    BY <1>10 DEF RemoveEntry
  <2>2. queue' \in [Queues -> SUBSET Threads]
    BY <2>1
  <2> QED BY <1>10, <2>2 DEF RemoveEntry, waitVars
<1>11. ASSUME NEW t \in Threads, PrepareCas(t) \/ Cancel(t) \/ CommitEarly(t) \/
        CommitBlock(t) \/ FinalizeBlock(t) \/ FinalizeEarly(t) \/ FinalizeNote(t) \/
        FinalizeDone(t) \/ HandleNote(t)
      PROVE  EntryType'
  BY <1>1, <1>11 DEF PrepareCas, Cancel, CommitEarly, CommitBlock, FinalizeBlock, FinalizeEarly,
      FinalizeNote, FinalizeDone, HandleNote, Acquire, NotePending, Claimable, TimerSet,
      NotBefore, waitVars, cpuVars, wakeVars
<1>12. ASSUME NEW w \in Wakers, UnblockStart(w) \/ UnblockTake(w) \/ SendNoteCas(w) \/
        (\E t \in Threads : SendNote(w, t))
      PROVE  EntryType'
  BY <1>1, <1>12 DEF UnblockStart, UnblockTake, SendNoteCas, SendNote, Acquire, Claimable,
      waitVars, cpuVars, wakeVars
<1>13. ASSUME NEW c \in Cpus, TimerInterrupt(c) \/ OtherInterrupt(c) \/ ScanEnd(c) \/
        ScanExpired(c)
      PROVE  EntryType'
  BY <1>1, <1>13 DEF TimerInterrupt, OtherInterrupt, ScanEnd, ScanExpired, Acquire, TimerSet,
      NotBefore, Claimable, waitVars, cpuVars, wakeVars
<1>14. ASSUME Tick
      PROVE  EntryType'
  BY <1>1, <1>14 DEF Tick, waitVars, cpuVars, wakeVars
<1>15. CASE UNCHANGED vars
  BY <1>1, <1>15 DEF vars, waitVars, cpuVars, wakeVars
<1>16. ASSUME NEW t \in Threads, PrepareNoMem(t) PROVE FALSE
  BY <1>16 DEF PrepareNoMem
<1> QED BY <1>1, <1>2, <1>3, <1>4, <1>5, <1>6, <1>7, <1>8, <1>9, <1>10, <1>11, <1>12, <1>13,
           <1>14, <1>15, <1>16
  DEF Next, ThreadStep, WakerStep, CpuStep

\* Every step preserves CpuType.
LEMMA CpuTypeStep == Sensible /\ ~AllocMayFail /\ Inv /\ [Next]_vars => CpuType'
<1> SUFFICES ASSUME Sensible, ~AllocMayFail, Inv, [Next]_vars PROVE CpuType'
  OBVIOUS
<1> USE DEF Inv, TypeOK, Agents, Sensible, CpuType
<1>1. ASSUME UNCHANGED <<blocked, lock, timer, uptime>> PROVE CpuType'
  BY <1>1
<1>2. ASSUME NEW t \in Threads, FinalizeBlock(t) PROVE CpuType'
  BY <1>2 DEF FinalizeBlock, Acquire, waitVars, cpuVars, wakeVars
<1>3. ASSUME NEW t \in Threads, FinalizeEarly(t) PROVE CpuType'
  BY <1>3 DEF FinalizeEarly, Acquire, waitVars, cpuVars, wakeVars
<1>4. ASSUME NEW t \in Threads, FinalizeNote(t) PROVE CpuType'
  BY <1>4 DEF FinalizeNote, NotePending, Claimable, waitVars, cpuVars, wakeVars
<1>5. ASSUME NEW t \in Threads, FinalizeDone(t) PROVE CpuType'
  <2>1. timer' \in [Cpus -> Nat]
    BY <1>5, TimerSetType DEF FinalizeDone, ThreadType
  <2> QED BY <1>5, <2>1 DEF FinalizeDone
<1>6. ASSUME NEW t \in Threads, FinalizeResume(t) PROVE CpuType'
  BY <1>6 DEF FinalizeResume, waitVars, cpuVars, wakeVars
<1>7. ASSUME NEW w \in Wakers, UnblockTake(w) PROVE CpuType'
  <2>1. PICK t \in batch[w] : /\ lock' = [lock EXCEPT ![owner[t]] = w]
                           /\ blocked' = [blocked EXCEPT ![owner[t]] = blocked[owner[t]] \ {t}]
    BY <1>7 DEF UnblockTake, Acquire
  <2>2. lock' \in [Cpus -> Agents \cup {None}] /\ blocked' \in [Cpus -> SUBSET Threads]
    BY <2>1
  <2> QED BY <1>7, <2>2 DEF UnblockTake
<1>8. ASSUME NEW w \in Wakers, UnblockSubmit(w) PROVE CpuType'
  BY <1>8 DEF UnblockSubmit, Submit, waitVars, cpuVars, wakeVars
<1>9. ASSUME NEW c \in Cpus, TimerInterrupt(c) PROVE CpuType'
  BY <1>9 DEF TimerInterrupt, Acquire, waitVars, cpuVars, wakeVars
<1>10. ASSUME NEW c \in Cpus, OtherInterrupt(c) PROVE CpuType'
  BY <1>10 DEF OtherInterrupt, Acquire, waitVars, cpuVars, wakeVars
<1>11. ASSUME NEW c \in Cpus, ScanEnd(c) PROVE CpuType'
  <2>1. timer' \in [Cpus -> Nat]
    BY <1>11, TimerSetType DEF ScanEnd, ThreadType
  <2> QED BY <1>11, <2>1 DEF ScanEnd
<1>12. ASSUME NEW c \in Cpus, ScanExpired(c) PROVE CpuType'
  BY <1>12 DEF ScanExpired, Claimable, waitVars, cpuVars, wakeVars
<1>13. ASSUME Tick PROVE CpuType'
  BY <1>13 DEF Tick, waitVars, cpuVars, wakeVars
<1>14. ASSUME NEW t \in Threads, PrepareStart(t) \/ PrepareLock(t) \/ PreparePush(t) \/
        PrepareCas(t) \/ Cancel(t) \/ CommitEarly(t) \/ CommitBlock(t) \/ ResumeSelf(t) \/
        HandleNote(t)
      PROVE  CpuType'
  BY <1>1, <1>14 DEF PrepareStart, PrepareLock, PreparePush, PrepareCas, Cancel, CommitEarly,
      CommitBlock, ResumeSelf, HandleNote, Deadline, waitVars, cpuVars, wakeVars
<1>15. ASSUME NEW w \in Wakers, UnblockStart(w) \/ UnblockCollect(w) \/ SendNoteCas(w) \/
        (\E t \in Threads : SendNote(w, t))
      PROVE  CpuType'
  BY <1>1, <1>15 DEF UnblockStart, UnblockCollect, SendNoteCas, SendNote, Claimable, waitVars,
      cpuVars, wakeVars
<1>16. ASSUME NEW c \in Cpus, ExpireSubmit(c)
      PROVE  CpuType'
  BY <1>1, <1>16 DEF ExpireSubmit, Submit, waitVars, cpuVars, wakeVars
<1>17. ASSUME NEW a \in Agents, RemoveEntry(a)
      PROVE  CpuType'
  BY <1>1, <1>17 DEF RemoveEntry, waitVars, cpuVars, wakeVars
<1>18. CASE UNCHANGED vars
  BY <1>1, <1>18 DEF vars, waitVars, cpuVars, wakeVars
<1>19. ASSUME NEW t \in Threads, PrepareNoMem(t) PROVE FALSE
  BY <1>19 DEF PrepareNoMem
<1> QED BY <1>1, <1>2, <1>3, <1>4, <1>5, <1>6, <1>7, <1>8, <1>9, <1>10, <1>11, <1>12, <1>13,
           <1>14, <1>15, <1>16, <1>17, <1>18, <1>19
  DEF Next, ThreadStep, WakerStep, CpuStep

\* Every step preserves WakeType.
LEMMA WakeTypeStep == Sensible /\ ~AllocMayFail /\ Inv /\ [Next]_vars => WakeType'
<1> SUFFICES ASSUME Sensible, ~AllocMayFail, Inv, [Next]_vars PROVE WakeType'
  OBVIOUS
<1> USE DEF Inv, TypeOK, Agents, Sensible, WakeType
<1>1. ASSUME UNCHANGED <<removing, wreq, batch>> PROVE WakeType'
  BY <1>1
<1>2. ASSUME NEW t \in Threads, Cancel(t) PROVE WakeType'
  BY <1>2 DEF Cancel, waitVars, cpuVars, wakeVars
<1>3. ASSUME NEW t \in Threads, CommitEarly(t) PROVE WakeType'
  BY <1>3 DEF CommitEarly, waitVars, cpuVars, wakeVars
<1>4. ASSUME NEW t \in Threads, ResumeSelf(t) PROVE WakeType'
  BY <1>4 DEF ResumeSelf, waitVars, cpuVars, wakeVars
<1>5. ASSUME NEW t \in Threads, FinalizeEarly(t) PROVE WakeType'
  BY <1>5 DEF FinalizeEarly, Acquire, waitVars, cpuVars, wakeVars
<1>6. ASSUME NEW t \in Threads, FinalizeNote(t) PROVE WakeType'
  BY <1>6 DEF FinalizeNote, NotePending, Claimable, waitVars, cpuVars, wakeVars
<1>7. ASSUME NEW t \in Threads, FinalizeResume(t) PROVE WakeType'
  BY <1>7 DEF FinalizeResume, waitVars, cpuVars, wakeVars
<1>8. ASSUME NEW w \in Wakers, UnblockStart(w) PROVE WakeType'
  <2>1. PICK r \in Reqs : wreq' = [wreq EXCEPT ![w] = r]
    BY <1>8 DEF UnblockStart, Reqs, Errs
  <2> QED BY <1>8, <2>1 DEF UnblockStart
<1>9. ASSUME NEW w \in Wakers, UnblockCollect(w) PROVE WakeType'
  <2>1. NoReq \in Reqs
    BY DEF NoReq, Reqs, Errs
  <2>2. wreq' \in [Wakers -> Reqs]
    BY <1>9, <2>1 DEF UnblockCollect
  <2>3. PICK s \in SUBSET queue[wreq[w].queue] : batch' = [batch EXCEPT ![w] = {t \in s :
          state[t] = "blocked"}]
    BY <1>9 DEF UnblockCollect
  <2>4. queue[wreq[w].queue] \in SUBSET Threads
    BY <1>9 DEF UnblockCollect, EntryType, Reqs
  <2>5. batch' \in [Wakers -> SUBSET Threads]
    BY <2>3, <2>4
  <2> QED BY <1>9, <2>2, <2>5 DEF UnblockCollect
<1>10. ASSUME NEW w \in Wakers, UnblockTake(w) PROVE WakeType'
  BY <1>10 DEF UnblockTake, Acquire, waitVars, cpuVars, wakeVars
<1>11. ASSUME NEW w \in Wakers, UnblockSubmit(w) PROVE WakeType'
  <2>1. NoReq \in Reqs
    BY DEF NoReq, Reqs, Errs
  <2> QED BY <1>11, <2>1 DEF UnblockSubmit
<1>12. ASSUME NEW w \in Wakers, SendNoteCas(w) PROVE WakeType'
  <2>1. NoReq \in Reqs
    BY DEF NoReq, Reqs, Errs
  <2>2. wreq' \in [Wakers -> Reqs]
    BY <1>12, <2>1 DEF SendNoteCas
  <2>3. batch' \in [Wakers -> SUBSET Threads]
    BY <1>12 DEF SendNoteCas
  <2> QED BY <1>12, <2>2, <2>3 DEF SendNoteCas
<1>13. ASSUME NEW w \in Wakers, NEW t \in Threads, SendNote(w, t) PROVE WakeType'
  <2>1. wreq[w] \in Reqs
    OBVIOUS
  <2>2. [wreq[w] EXCEPT !.err = "EINTR"] \in Reqs
    BY <2>1 DEF Reqs, Errs
  <2> QED BY <1>13, <2>2 DEF SendNote
<1>14. ASSUME NEW c \in Cpus, ScanExpired(c) PROVE WakeType'
  BY <1>14 DEF ScanExpired, Claimable, waitVars, cpuVars, wakeVars
<1>15. ASSUME NEW c \in Cpus, ExpireSubmit(c) PROVE WakeType'
  BY <1>15 DEF ExpireSubmit, Submit, waitVars, cpuVars, wakeVars
<1>16. ASSUME NEW t \in Threads, PrepareStart(t) \/ PrepareLock(t) \/ PreparePush(t) \/
        PrepareCas(t) \/ CommitBlock(t) \/ FinalizeBlock(t) \/ FinalizeDone(t) \/ HandleNote(t)
      PROVE  WakeType'
  BY <1>1, <1>16 DEF PrepareStart, PrepareLock, PreparePush, PrepareCas, CommitBlock,
      FinalizeBlock, FinalizeDone, HandleNote, Deadline, Acquire, NotePending, Claimable,
      TimerSet, NotBefore, waitVars, cpuVars, wakeVars
<1>17. ASSUME NEW c \in Cpus, TimerInterrupt(c) \/ OtherInterrupt(c) \/ ScanEnd(c)
      PROVE  WakeType'
  BY <1>1, <1>17 DEF TimerInterrupt, OtherInterrupt, ScanEnd, Acquire, TimerSet, NotBefore,
      waitVars, cpuVars, wakeVars
<1>18. ASSUME NEW a \in Agents, RemoveEntry(a)
      PROVE  WakeType'
  BY <1>1, <1>18 DEF RemoveEntry, waitVars, cpuVars, wakeVars
<1>19. ASSUME Tick
      PROVE  WakeType'
  BY <1>1, <1>19 DEF Tick, waitVars, cpuVars, wakeVars
<1>20. CASE UNCHANGED vars
  BY <1>1, <1>20 DEF vars, waitVars, cpuVars, wakeVars
<1>21. ASSUME NEW t \in Threads, PrepareNoMem(t) PROVE FALSE
  BY <1>21 DEF PrepareNoMem
<1> QED BY <1>1, <1>2, <1>3, <1>4, <1>5, <1>6, <1>7, <1>8, <1>9, <1>10, <1>11, <1>12, <1>13,
           <1>14, <1>15, <1>16, <1>17, <1>18, <1>19, <1>20, <1>21
  DEF Next, ThreadStep, WakerStep, CpuStep

\* Every step preserves Placed.
LEMMA PlacedStep == Sensible /\ ~AllocMayFail /\ Inv /\ [Next]_vars => Placed'
<1> SUFFICES ASSUME Apart, Sensible, ~AllocMayFail, Inv, [Next]_vars,
                    PcType, ThreadType, EntryType, CpuType, WakeType, Placed, Entered, Removes,
                            OneRemoves, Collected, Locked, Listed
             PROVE  Placed'
  BY SensibleApart DEF Inv, TypeOK
<1> USE DEF Apart, Agents, PcType, ThreadType, EntryType, Placed
<1>1. ASSUME UNCHANGED <<pc, state, held>> PROVE Placed'
  BY <1>1
<1>2. ASSUME NEW t \in Threads, PrepareStart(t) PROVE Placed'
  BY <1>2 DEF PrepareStart, waitVars, cpuVars, wakeVars
<1>3. ASSUME NEW t \in Threads, PrepareLock(t) PROVE Placed'
  BY <1>3 DEF PrepareLock, waitVars, cpuVars, wakeVars
<1>4. ASSUME NEW t \in Threads, PreparePush(t) PROVE Placed'
  BY <1>4 DEF PreparePush, Deadline, waitVars, cpuVars, wakeVars
<1>5. ASSUME NEW t \in Threads, PrepareCas(t) PROVE Placed'
  BY <1>5 DEF PrepareCas, waitVars, cpuVars, wakeVars
<1>6. ASSUME NEW t \in Threads, Cancel(t) PROVE Placed'
  BY <1>6 DEF Cancel, waitVars, cpuVars, wakeVars
<1>7. ASSUME NEW t \in Threads, CommitEarly(t) PROVE Placed'
  BY <1>7 DEF CommitEarly, waitVars, cpuVars, wakeVars
<1>8. ASSUME NEW t \in Threads, CommitBlock(t) PROVE Placed'
  BY <1>8 DEF CommitBlock, waitVars, cpuVars, wakeVars
<1>9. ASSUME NEW t \in Threads, ResumeSelf(t) PROVE Placed'
  BY <1>9 DEF ResumeSelf, waitVars, cpuVars, wakeVars
<1>10. ASSUME NEW t \in Threads, FinalizeBlock(t) PROVE Placed'
  BY <1>10 DEF FinalizeBlock, Acquire, waitVars, cpuVars, wakeVars
<1>11. ASSUME NEW t \in Threads, FinalizeEarly(t) PROVE Placed'
  BY <1>11 DEF FinalizeEarly, Acquire, waitVars, cpuVars, wakeVars
<1>12. ASSUME NEW t \in Threads, FinalizeNote(t) PROVE Placed'
  BY <1>12 DEF FinalizeNote, NotePending, Claimable, waitVars, cpuVars, wakeVars
<1>13. ASSUME NEW t \in Threads, FinalizeDone(t) PROVE Placed'
  BY <1>13 DEF FinalizeDone, NotePending, Claimable, TimerSet, NotBefore, waitVars, cpuVars,
      wakeVars
<1>14. ASSUME NEW t \in Threads, FinalizeResume(t) PROVE Placed'
  BY <1>14 DEF FinalizeResume, waitVars, cpuVars, wakeVars
<1>15. ASSUME NEW w \in Wakers, UnblockCollect(w) PROVE Placed'
  <2>1. PICK q \in Queues, scanned \in SUBSET Threads, found \in SUBSET Threads : Scanned(w, q,
          scanned, found)
    BY <1>15, UnblockCollectFx
  <2> QED BY <2>1 DEF Scanned, Entered
<1>16. ASSUME NEW w \in Wakers, UnblockTake(w) PROVE Placed'
  BY <1>16 DEF UnblockTake, Acquire, waitVars, cpuVars, wakeVars
<1>17. ASSUME NEW w \in Wakers, UnblockSubmit(w) PROVE Placed'
  <2>1. PICK t \in Threads : Submitted(w, t)
    BY <1>17, UnblockSubmitFx
  <2> QED BY <2>1 DEF Submitted
<1>18. ASSUME NEW w \in Wakers, SendNoteCas(w) PROVE Placed'
  BY <1>18 DEF SendNoteCas, Claimable, waitVars, cpuVars, wakeVars
<1>19. ASSUME NEW w \in Wakers, NEW t \in Threads, SendNote(w, t) PROVE Placed'
  BY <1>19 DEF SendNote, waitVars, cpuVars, wakeVars
<1>20. ASSUME NEW c \in Cpus, TimerInterrupt(c) PROVE Placed'
  BY <1>20 DEF TimerInterrupt, Acquire, waitVars, cpuVars, wakeVars
<1>21. ASSUME NEW c \in Cpus, OtherInterrupt(c) PROVE Placed'
  BY <1>21 DEF OtherInterrupt, Acquire, waitVars, cpuVars, wakeVars
<1>22. ASSUME NEW c \in Cpus, ScanEnd(c) PROVE Placed'
  BY <1>22 DEF ScanEnd, TimerSet, NotBefore, waitVars, cpuVars, wakeVars
<1>23. ASSUME NEW c \in Cpus, ScanExpired(c) PROVE Placed'
  <2>1. PICK t \in Threads : TimedOut(c, t)
    BY <1>23, ScanExpiredFx
  <2> QED BY <2>1 DEF TimedOut
<1>24. ASSUME NEW c \in Cpus, ExpireSubmit(c) PROVE Placed'
  <2>1. PICK t \in Threads : Resubmitted(c, t)
    BY <1>24, ExpireSubmitFx
  <2> QED BY <2>1 DEF Resubmitted
<1>25. ASSUME NEW t \in Threads, HandleNote(t)
      PROVE  Placed'
  BY <1>1, <1>25 DEF HandleNote, waitVars, cpuVars, wakeVars
<1>26. ASSUME NEW w \in Wakers, UnblockStart(w)
      PROVE  Placed'
  BY <1>1, <1>26 DEF UnblockStart, waitVars, cpuVars, wakeVars
<1>27. ASSUME NEW a \in Agents, RemoveEntry(a)
      PROVE  Placed'
  BY <1>1, <1>27 DEF RemoveEntry, waitVars, cpuVars, wakeVars
<1>28. ASSUME Tick
      PROVE  Placed'
  BY <1>1, <1>28 DEF Tick, waitVars, cpuVars, wakeVars
<1>29. CASE UNCHANGED vars
  BY <1>1, <1>29 DEF vars, waitVars, cpuVars, wakeVars
<1>30. ASSUME NEW t \in Threads, PrepareNoMem(t) PROVE FALSE
  BY <1>30 DEF PrepareNoMem
<1> QED BY <1>1, <1>2, <1>3, <1>4, <1>5, <1>6, <1>7, <1>8, <1>9, <1>10, <1>11, <1>12, <1>13,
           <1>14, <1>15, <1>16, <1>17, <1>18, <1>19, <1>20, <1>21, <1>22, <1>23, <1>24, <1>25,
           <1>26, <1>27, <1>28, <1>29, <1>30
  DEF Next, ThreadStep, WakerStep, CpuStep

\* Every step preserves Entered.
LEMMA EnteredStep == Sensible /\ ~AllocMayFail /\ Inv /\ [Next]_vars => Entered'
<1> SUFFICES ASSUME Apart, Sensible, ~AllocMayFail, Inv, [Next]_vars,
                    PcType, ThreadType, EntryType, CpuType, WakeType, Placed, Entered, Removes,
                            OneRemoves, Collected, Locked, Listed
             PROVE  Entered'
  BY SensibleApart DEF Inv, TypeOK
<1> USE DEF Apart, PcType, EntryType, Agents, Entered, QueuesOf
<1>1. ASSUME UNCHANGED <<queue, qs, pc>> PROVE Entered'
  BY <1>1
<1>2. ASSUME NEW t \in Threads, PrepareStart(t) PROVE Entered'
  BY <1>2 DEF PrepareStart, waitVars, cpuVars, wakeVars
<1>3. ASSUME NEW t \in Threads, PreparePush(t) PROVE Entered'
  BY <1>3 DEF PreparePush, Deadline, waitVars, cpuVars, wakeVars
<1>4. ASSUME NEW t \in Threads, PrepareCas(t) PROVE Entered'
  BY <1>4 DEF PrepareCas, waitVars, cpuVars, wakeVars
<1>5. ASSUME NEW t \in Threads, Cancel(t) PROVE Entered'
  BY <1>5 DEF Cancel, waitVars, cpuVars, wakeVars
<1>6. ASSUME NEW t \in Threads, CommitEarly(t) PROVE Entered'
  BY <1>6 DEF CommitEarly, waitVars, cpuVars, wakeVars
<1>7. ASSUME NEW t \in Threads, CommitBlock(t) PROVE Entered'
  BY <1>7 DEF CommitBlock, waitVars, cpuVars, wakeVars
<1>8. ASSUME NEW t \in Threads, ResumeSelf(t) PROVE Entered'
  <2>2. \A q \in Queues : t \notin queue[q]
    BY <1>8 DEF ResumeSelf, EntriesGone
  <2>3. \A u \in Threads : u # t => qs'[u] = qs[u] /\ pc'[u] = pc[u]
    BY <1>8 DEF ResumeSelf, EntriesGone
  <2>4. queue' = queue
    BY <1>8 DEF ResumeSelf, EntriesGone
  <2>5. ASSUME NEW u \in Threads, NEW q \in Queues, u \in queue'[q]
        PROVE  q \in QueuesOf(u)' /\ pc'[u] \notin {"run", "locking"}
    BY <2>2, <2>3, <2>4, <2>5
  <2> QED BY <2>5
<1>9. ASSUME NEW t \in Threads, FinalizeBlock(t) PROVE Entered'
  BY <1>9 DEF FinalizeBlock, Acquire, waitVars, cpuVars, wakeVars
<1>10. ASSUME NEW t \in Threads, FinalizeEarly(t) PROVE Entered'
  BY <1>10 DEF FinalizeEarly, Acquire, waitVars, cpuVars, wakeVars
<1>11. ASSUME NEW t \in Threads, FinalizeNote(t) PROVE Entered'
  BY <1>11 DEF FinalizeNote, NotePending, Claimable, waitVars, cpuVars, wakeVars
<1>12. ASSUME NEW t \in Threads, FinalizeDone(t) PROVE Entered'
  BY <1>12 DEF FinalizeDone, NotePending, Claimable, TimerSet, NotBefore, waitVars, cpuVars,
      wakeVars
<1>13. ASSUME NEW t \in Threads, FinalizeResume(t) PROVE Entered'
  <2>2. \A q \in Queues : t \notin queue[q]
    BY <1>13 DEF FinalizeResume, EntriesGone
  <2>3. \A u \in Threads : u # t => qs'[u] = qs[u] /\ pc'[u] = pc[u]
    BY <1>13 DEF FinalizeResume, EntriesGone
  <2>4. queue' = queue
    BY <1>13 DEF FinalizeResume, EntriesGone
  <2>5. ASSUME NEW u \in Threads, NEW q \in Queues, u \in queue'[q]
        PROVE  q \in QueuesOf(u)' /\ pc'[u] \notin {"run", "locking"}
    BY <2>2, <2>3, <2>4, <2>5
  <2> QED BY <2>5
<1>14. ASSUME NEW w \in Wakers, UnblockCollect(w) PROVE Entered'
  <2>1. PICK q \in Queues, scanned \in SUBSET Threads, found \in SUBSET Threads : Scanned(w, q,
          scanned, found)
    BY <1>14, UnblockCollectFx
  <2> QED BY <2>1 DEF Scanned
<1>15. ASSUME NEW w \in Wakers, UnblockTake(w) PROVE Entered'
  BY <1>15 DEF UnblockTake, Acquire, waitVars, cpuVars, wakeVars
<1>16. ASSUME NEW w \in Wakers, UnblockSubmit(w) PROVE Entered'
  <2>1. PICK t \in Threads : Submitted(w, t)
    BY <1>16, UnblockSubmitFx
  <2>2. \A q \in Queues : t \notin queue[q]
    BY <2>1 DEF Submitted
  <2>3. \A u \in Threads : u # t => qs'[u] = qs[u] /\ pc'[u] = pc[u]
    BY <2>1 DEF Submitted
  <2>4. queue' = queue
    BY <2>1 DEF Submitted
  <2>5. ASSUME NEW u \in Threads, NEW q \in Queues, u \in queue'[q]
        PROVE  q \in QueuesOf(u)' /\ pc'[u] \notin {"run", "locking"}
    BY <2>2, <2>3, <2>4, <2>5
  <2> QED BY <2>5
<1>17. ASSUME NEW w \in Wakers, SendNoteCas(w) PROVE Entered'
  BY <1>17 DEF SendNoteCas, Claimable, waitVars, cpuVars, wakeVars
<1>18. ASSUME NEW w \in Wakers, NEW t \in Threads, SendNote(w, t) PROVE Entered'
  BY <1>18 DEF SendNote, waitVars, cpuVars, wakeVars
<1>19. ASSUME NEW c \in Cpus, TimerInterrupt(c) PROVE Entered'
  BY <1>19 DEF TimerInterrupt, Acquire, waitVars, cpuVars, wakeVars
<1>20. ASSUME NEW c \in Cpus, OtherInterrupt(c) PROVE Entered'
  BY <1>20 DEF OtherInterrupt, Acquire, waitVars, cpuVars, wakeVars
<1>21. ASSUME NEW c \in Cpus, ScanEnd(c) PROVE Entered'
  BY <1>21 DEF ScanEnd, TimerSet, NotBefore, waitVars, cpuVars, wakeVars
<1>22. ASSUME NEW c \in Cpus, ScanExpired(c) PROVE Entered'
  <2>1. PICK t \in Threads : TimedOut(c, t)
    BY <1>22, ScanExpiredFx
  <2> QED BY <2>1 DEF TimedOut
<1>23. ASSUME NEW c \in Cpus, ExpireSubmit(c) PROVE Entered'
  <2>1. PICK t \in Threads : Resubmitted(c, t)
    BY <1>23, ExpireSubmitFx
  <2>2. \A q \in Queues : t \notin queue[q]
    BY <2>1 DEF Resubmitted
  <2>3. \A u \in Threads : u # t => qs'[u] = qs[u] /\ pc'[u] = pc[u]
    BY <2>1 DEF Resubmitted
  <2>4. queue' = queue
    BY <2>1 DEF Resubmitted
  <2>5. ASSUME NEW u \in Threads, NEW q \in Queues, u \in queue'[q]
        PROVE  q \in QueuesOf(u)' /\ pc'[u] \notin {"run", "locking"}
    BY <2>2, <2>3, <2>4, <2>5
  <2> QED BY <2>5
<1>24. ASSUME NEW a \in Agents, RemoveEntry(a) PROVE Entered'
  BY <1>24 DEF RemoveEntry, waitVars, cpuVars, wakeVars
<1>25. ASSUME NEW t \in Threads, PrepareLock(t) \/ HandleNote(t)
      PROVE  Entered'
  BY <1>1, <1>25 DEF PrepareLock, HandleNote, waitVars, cpuVars, wakeVars
<1>26. ASSUME NEW w \in Wakers, UnblockStart(w)
      PROVE  Entered'
  BY <1>1, <1>26 DEF UnblockStart, waitVars, cpuVars, wakeVars
<1>27. ASSUME Tick
      PROVE  Entered'
  BY <1>1, <1>27 DEF Tick, waitVars, cpuVars, wakeVars
<1>28. CASE UNCHANGED vars
  BY <1>1, <1>28 DEF vars, waitVars, cpuVars, wakeVars
<1>29. ASSUME NEW t \in Threads, PrepareNoMem(t) PROVE FALSE
  BY <1>29 DEF PrepareNoMem
<1> QED BY <1>1, <1>2, <1>3, <1>4, <1>5, <1>6, <1>7, <1>8, <1>9, <1>10, <1>11, <1>12, <1>13,
           <1>14, <1>15, <1>16, <1>17, <1>18, <1>19, <1>20, <1>21, <1>22, <1>23, <1>24, <1>25,
           <1>26, <1>27, <1>28, <1>29
  DEF Next, ThreadStep, WakerStep, CpuStep

\* Every step preserves OneRemoves.
LEMMA OneRemovesStep == Sensible /\ ~AllocMayFail /\ Inv /\ [Next]_vars => OneRemoves'
<1> SUFFICES ASSUME Apart, Sensible, ~AllocMayFail, Inv, [Next]_vars,
                    PcType, ThreadType, EntryType, CpuType, WakeType, Placed, Entered, Removes,
                            OneRemoves, Collected, Locked, Listed
             PROVE  OneRemoves'
  BY SensibleApart DEF Inv, TypeOK
<1> USE DEF Apart, WakeType, Agents, OneRemoves
<1>1. ASSUME UNCHANGED <<removing>> PROVE OneRemoves'
  BY <1>1
<1>2. ASSUME NEW t \in Threads, Cancel(t) PROVE OneRemoves'
  BY <1>2 DEF Cancel, Removes, Removers, waitVars, cpuVars, wakeVars
<1>3. ASSUME NEW t \in Threads, CommitEarly(t) PROVE OneRemoves'
  BY <1>3 DEF CommitEarly, Removes, Removers, waitVars, cpuVars, wakeVars
<1>4. ASSUME NEW t \in Threads, ResumeSelf(t) PROVE OneRemoves'
  BY <1>4 DEF ResumeSelf, waitVars, cpuVars, wakeVars
<1>5. ASSUME NEW t \in Threads, FinalizeEarly(t) PROVE OneRemoves'
  BY <1>5 DEF FinalizeEarly, Acquire, Removes, Removers, waitVars, cpuVars, wakeVars
<1>6. ASSUME NEW t \in Threads, FinalizeNote(t) PROVE OneRemoves'
  BY <1>6 DEF FinalizeNote, NotePending, Claimable, Removes, Removers, waitVars, cpuVars,
      wakeVars
<1>7. ASSUME NEW t \in Threads, FinalizeResume(t) PROVE OneRemoves'
  BY <1>7 DEF FinalizeResume, waitVars, cpuVars, wakeVars
<1>8. ASSUME NEW w \in Wakers, UnblockTake(w) PROVE OneRemoves'
  <2>1. PICK t \in Threads : Taken(w, t)
    BY <1>8, UnblockTakeFx
  <2> QED BY <2>1 DEF Taken
<1>9. ASSUME NEW w \in Wakers, UnblockSubmit(w) PROVE OneRemoves'
  BY <1>9 DEF UnblockSubmit, Submit, waitVars, cpuVars, wakeVars
<1>10. ASSUME NEW c \in Cpus, ScanExpired(c) PROVE OneRemoves'
  <2>1. PICK t \in Threads : TimedOut(c, t)
    BY <1>10, ScanExpiredFx
  <2> QED BY <2>1 DEF TimedOut
<1>11. ASSUME NEW c \in Cpus, ExpireSubmit(c) PROVE OneRemoves'
  BY <1>11 DEF ExpireSubmit, Submit, waitVars, cpuVars, wakeVars
<1>12. ASSUME NEW t \in Threads, PrepareStart(t) \/ PrepareLock(t) \/ PreparePush(t) \/
        PrepareCas(t) \/ CommitBlock(t) \/ FinalizeBlock(t) \/ FinalizeDone(t) \/ HandleNote(t)
      PROVE  OneRemoves'
  BY <1>1, <1>12 DEF PrepareStart, PrepareLock, PreparePush, PrepareCas, CommitBlock,
      FinalizeBlock, FinalizeDone, HandleNote, Deadline, Acquire, NotePending, Claimable,
      TimerSet, NotBefore, waitVars, cpuVars, wakeVars
<1>13. ASSUME NEW w \in Wakers, UnblockStart(w) \/ UnblockCollect(w) \/ SendNoteCas(w) \/
        (\E t \in Threads : SendNote(w, t))
      PROVE  OneRemoves'
  BY <1>1, <1>13 DEF UnblockStart, UnblockCollect, SendNoteCas, SendNote, Claimable, waitVars,
      cpuVars, wakeVars
<1>14. ASSUME NEW c \in Cpus, TimerInterrupt(c) \/ OtherInterrupt(c) \/ ScanEnd(c)
      PROVE  OneRemoves'
  BY <1>1, <1>14 DEF TimerInterrupt, OtherInterrupt, ScanEnd, Acquire, TimerSet, NotBefore,
      waitVars, cpuVars, wakeVars
<1>15. ASSUME NEW a \in Agents, RemoveEntry(a)
      PROVE  OneRemoves'
  BY <1>1, <1>15 DEF RemoveEntry, waitVars, cpuVars, wakeVars
<1>16. ASSUME Tick
      PROVE  OneRemoves'
  BY <1>1, <1>16 DEF Tick, waitVars, cpuVars, wakeVars
<1>17. CASE UNCHANGED vars
  BY <1>1, <1>17 DEF vars, waitVars, cpuVars, wakeVars
<1>18. ASSUME NEW t \in Threads, PrepareNoMem(t) PROVE FALSE
  BY <1>18 DEF PrepareNoMem
<1> QED BY <1>1, <1>2, <1>3, <1>4, <1>5, <1>6, <1>7, <1>8, <1>9, <1>10, <1>11, <1>12, <1>13,
           <1>14, <1>15, <1>16, <1>17, <1>18
  DEF Next, ThreadStep, WakerStep, CpuStep

\* Every step preserves Removers.
LEMMA RemoversStep == Sensible /\ ~AllocMayFail /\ Inv /\ [Next]_vars => Removers'
<1> SUFFICES ASSUME Apart, Sensible, ~AllocMayFail, Inv, [Next]_vars,
                    PcType, ThreadType, EntryType, CpuType, WakeType, Placed, Entered, Removes,
                            OneRemoves, Collected, Locked, Listed
             PROVE  Removers'
  BY SensibleApart DEF Inv, TypeOK
<1> USE DEF Apart, Agents, PcType, ThreadType, WakeType, Removes, Removers
<1>1. ASSUME UNCHANGED <<removing, pc, state, owner>> PROVE Removers'
  BY <1>1
<1>2. ASSUME NEW t \in Threads, PrepareStart(t) PROVE Removers'
  BY <1>2 DEF PrepareStart, waitVars, cpuVars, wakeVars
<1>3. ASSUME NEW t \in Threads, PreparePush(t) PROVE Removers'
  BY <1>3 DEF PreparePush, Deadline, waitVars, cpuVars, wakeVars
<1>4. ASSUME NEW t \in Threads, PrepareCas(t) PROVE Removers'
  BY <1>4 DEF PrepareCas, waitVars, cpuVars, wakeVars
<1>5. ASSUME NEW t \in Threads, Cancel(t) PROVE Removers'
  BY <1>5 DEF Cancel, waitVars, cpuVars, wakeVars
<1>6. ASSUME NEW t \in Threads, CommitEarly(t) PROVE Removers'
  BY <1>6 DEF CommitEarly, waitVars, cpuVars, wakeVars
<1>7. ASSUME NEW t \in Threads, CommitBlock(t) PROVE Removers'
  BY <1>7 DEF CommitBlock, waitVars, cpuVars, wakeVars
<1>8. ASSUME NEW t \in Threads, ResumeSelf(t) PROVE Removers'
  BY <1>8 DEF ResumeSelf, waitVars, cpuVars, wakeVars
<1>9. ASSUME NEW t \in Threads, FinalizeBlock(t) PROVE Removers'
  BY <1>9 DEF FinalizeBlock, Acquire, waitVars, cpuVars, wakeVars
<1>10. ASSUME NEW t \in Threads, FinalizeEarly(t) PROVE Removers'
  BY <1>10 DEF FinalizeEarly, Acquire, waitVars, cpuVars, wakeVars
<1>11. ASSUME NEW t \in Threads, FinalizeNote(t) PROVE Removers'
  BY <1>11 DEF FinalizeNote, NotePending, Claimable, waitVars, cpuVars, wakeVars
<1>12. ASSUME NEW t \in Threads, FinalizeDone(t) PROVE Removers'
  BY <1>12 DEF FinalizeDone, NotePending, Claimable, TimerSet, NotBefore, waitVars, cpuVars,
      wakeVars
<1>13. ASSUME NEW t \in Threads, FinalizeResume(t) PROVE Removers'
  <2>2. ASSUME NEW a \in Agents, NEW u \in Threads, removing'[a] = u
        PROVE  a # t /\ u # t /\ removing[a] = u
    BY <1>13, <2>2 DEF FinalizeResume, SelfRemoves, OneRemoves
  <2>3. \A a \in Agents : a # t => pc'[a] = pc[a]
    BY <1>13 DEF FinalizeResume
  <2>4. \A u \in Threads : u # t => state'[u] = state[u] /\ owner'[u] = owner[u]
    BY <1>13 DEF FinalizeResume
  <2> QED BY <2>2, <2>3, <2>4
<1>14. ASSUME NEW w \in Wakers, UnblockCollect(w) PROVE Removers'
  <2>1. PICK q \in Queues, scanned \in SUBSET Threads, found \in SUBSET Threads : Scanned(w, q,
          scanned, found)
    BY <1>14, UnblockCollectFx
  <2> QED BY <2>1 DEF Scanned, Entered, Placed
<1>15. ASSUME NEW w \in Wakers, UnblockTake(w) PROVE Removers'
  <2>1. PICK t \in Threads : Taken(w, t)
    BY <1>15, UnblockTakeFx
  <2> QED BY <2>1 DEF Taken
<1>16. ASSUME NEW w \in Wakers, UnblockSubmit(w) PROVE Removers'
  <2>1. PICK t \in Threads : Submitted(w, t)
    BY <1>16, UnblockSubmitFx
  <2>2. ASSUME NEW a \in Agents, NEW u \in Threads, removing'[a] = u
        PROVE  a # t /\ a # w /\ u # t /\ removing[a] = u
    BY <2>1, <2>2 DEF Submitted, SelfRemoves, OneRemoves
  <2>3. \A a \in Agents : a # t /\ a # w => pc'[a] = pc[a]
    BY <2>1 DEF Submitted
  <2>4. \A u \in Threads : u # t => state'[u] = state[u] /\ owner'[u] = owner[u]
    BY <2>1 DEF Submitted
  <2> QED BY <2>2, <2>3, <2>4
<1>17. ASSUME NEW w \in Wakers, SendNoteCas(w) PROVE Removers'
  BY <1>17 DEF SendNoteCas, Claimable, waitVars, cpuVars, wakeVars
<1>18. ASSUME NEW w \in Wakers, NEW t \in Threads, SendNote(w, t) PROVE Removers'
  BY <1>18 DEF SendNote, waitVars, cpuVars, wakeVars
<1>19. ASSUME NEW c \in Cpus, TimerInterrupt(c) PROVE Removers'
  BY <1>19 DEF TimerInterrupt, Acquire, waitVars, cpuVars, wakeVars
<1>20. ASSUME NEW c \in Cpus, OtherInterrupt(c) PROVE Removers'
  BY <1>20 DEF OtherInterrupt, Acquire, waitVars, cpuVars, wakeVars
<1>21. ASSUME NEW c \in Cpus, ScanEnd(c) PROVE Removers'
  BY <1>21 DEF ScanEnd, TimerSet, NotBefore, waitVars, cpuVars, wakeVars
<1>22. ASSUME NEW c \in Cpus, ScanExpired(c) PROVE Removers'
  <2>1. PICK t \in Threads : TimedOut(c, t)
    BY <1>22, ScanExpiredFx
  <2> QED BY <2>1 DEF TimedOut
<1>23. ASSUME NEW c \in Cpus, ExpireSubmit(c) PROVE Removers'
  <2>1. PICK t \in Threads : Resubmitted(c, t)
    BY <1>23, ExpireSubmitFx
  <2>2. ASSUME NEW a \in Agents, NEW u \in Threads, removing'[a] = u
        PROVE  a # t /\ a # c /\ u # t /\ removing[a] = u
    BY <2>1, <2>2 DEF Resubmitted, SelfRemoves, OneRemoves
  <2>3. \A a \in Agents : a # t /\ a # c => pc'[a] = pc[a]
    BY <2>1 DEF Resubmitted
  <2>4. \A u \in Threads : u # t => state'[u] = state[u] /\ owner'[u] = owner[u]
    BY <2>1 DEF Resubmitted
  <2> QED BY <2>2, <2>3, <2>4
<1>24. ASSUME NEW t \in Threads, PrepareLock(t) \/ HandleNote(t)
      PROVE  Removers'
  BY <1>1, <1>24 DEF PrepareLock, HandleNote, waitVars, cpuVars, wakeVars
<1>25. ASSUME NEW w \in Wakers, UnblockStart(w)
      PROVE  Removers'
  BY <1>1, <1>25 DEF UnblockStart, waitVars, cpuVars, wakeVars
<1>26. ASSUME NEW a \in Agents, RemoveEntry(a)
      PROVE  Removers'
  BY <1>1, <1>26 DEF RemoveEntry, waitVars, cpuVars, wakeVars
<1>27. ASSUME Tick
      PROVE  Removers'
  BY <1>1, <1>27 DEF Tick, waitVars, cpuVars, wakeVars
<1>28. CASE UNCHANGED vars
  BY <1>1, <1>28 DEF vars, waitVars, cpuVars, wakeVars
<1>29. ASSUME NEW t \in Threads, PrepareNoMem(t) PROVE FALSE
  BY <1>29 DEF PrepareNoMem
<1> QED BY <1>1, <1>2, <1>3, <1>4, <1>5, <1>6, <1>7, <1>8, <1>9, <1>10, <1>11, <1>12, <1>13,
           <1>14, <1>15, <1>16, <1>17, <1>18, <1>19, <1>20, <1>21, <1>22, <1>23, <1>24, <1>25,
           <1>26, <1>27, <1>28, <1>29
  DEF Next, ThreadStep, WakerStep, CpuStep

\* Every step preserves SelfRemoves.
LEMMA SelfRemovesStep == Sensible /\ ~AllocMayFail /\ Inv /\ [Next]_vars => SelfRemoves'
<1> SUFFICES ASSUME Apart, Sensible, ~AllocMayFail, Inv, [Next]_vars,
                    PcType, ThreadType, EntryType, CpuType, WakeType, Placed, Entered, Removes,
                            OneRemoves, Collected, Locked, Listed
             PROVE  SelfRemoves'
  BY SensibleApart DEF Inv, TypeOK
<1> USE DEF Apart, Agents, PcType, WakeType, Removes, SelfRemoves
<1>1. ASSUME UNCHANGED <<removing, pc>> PROVE SelfRemoves'
  BY <1>1
<1>2. ASSUME NEW t \in Threads, PrepareStart(t) PROVE SelfRemoves'
  BY <1>2 DEF PrepareStart, waitVars, cpuVars, wakeVars
<1>3. ASSUME NEW t \in Threads, PreparePush(t) PROVE SelfRemoves'
  BY <1>3 DEF PreparePush, Deadline, waitVars, cpuVars, wakeVars
<1>4. ASSUME NEW t \in Threads, PrepareCas(t) PROVE SelfRemoves'
  BY <1>4 DEF PrepareCas, waitVars, cpuVars, wakeVars
<1>5. ASSUME NEW t \in Threads, Cancel(t) PROVE SelfRemoves'
  BY <1>5 DEF Cancel, waitVars, cpuVars, wakeVars
<1>6. ASSUME NEW t \in Threads, CommitEarly(t) PROVE SelfRemoves'
  BY <1>6 DEF CommitEarly, waitVars, cpuVars, wakeVars
<1>7. ASSUME NEW t \in Threads, CommitBlock(t) PROVE SelfRemoves'
  BY <1>7 DEF CommitBlock, waitVars, cpuVars, wakeVars
<1>8. ASSUME NEW t \in Threads, ResumeSelf(t) PROVE SelfRemoves'
  BY <1>8 DEF ResumeSelf, waitVars, cpuVars, wakeVars
<1>9. ASSUME NEW t \in Threads, FinalizeBlock(t) PROVE SelfRemoves'
  BY <1>9 DEF FinalizeBlock, Acquire, waitVars, cpuVars, wakeVars
<1>10. ASSUME NEW t \in Threads, FinalizeEarly(t) PROVE SelfRemoves'
  BY <1>10 DEF FinalizeEarly, Acquire, waitVars, cpuVars, wakeVars
<1>11. ASSUME NEW t \in Threads, FinalizeNote(t) PROVE SelfRemoves'
  BY <1>11 DEF FinalizeNote, NotePending, Claimable, waitVars, cpuVars, wakeVars
<1>12. ASSUME NEW t \in Threads, FinalizeDone(t) PROVE SelfRemoves'
  BY <1>12 DEF FinalizeDone, NotePending, Claimable, TimerSet, NotBefore, waitVars, cpuVars,
      wakeVars
<1>13. ASSUME NEW t \in Threads, FinalizeResume(t) PROVE SelfRemoves'
  BY <1>13 DEF FinalizeResume, waitVars, cpuVars, wakeVars
<1>14. ASSUME NEW w \in Wakers, UnblockCollect(w) PROVE SelfRemoves'
  <2>1. PICK q \in Queues, scanned \in SUBSET Threads, found \in SUBSET Threads : Scanned(w, q,
          scanned, found)
    BY <1>14, UnblockCollectFx
  <2> QED BY <2>1 DEF Scanned, Entered, Placed
<1>15. ASSUME NEW w \in Wakers, UnblockTake(w) PROVE SelfRemoves'
  <2>1. PICK t \in Threads : Taken(w, t)
    BY <1>15, UnblockTakeFx
  <2> QED BY <2>1 DEF Taken
<1>16. ASSUME NEW w \in Wakers, UnblockSubmit(w) PROVE SelfRemoves'
  <2>1. PICK t \in Threads : Submitted(w, t)
    BY <1>16, UnblockSubmitFx
  <2> QED BY <2>1 DEF Submitted
<1>17. ASSUME NEW w \in Wakers, SendNoteCas(w) PROVE SelfRemoves'
  BY <1>17 DEF SendNoteCas, Claimable, waitVars, cpuVars, wakeVars
<1>18. ASSUME NEW w \in Wakers, NEW t \in Threads, SendNote(w, t) PROVE SelfRemoves'
  BY <1>18 DEF SendNote, waitVars, cpuVars, wakeVars
<1>19. ASSUME NEW c \in Cpus, TimerInterrupt(c) PROVE SelfRemoves'
  BY <1>19 DEF TimerInterrupt, Acquire, waitVars, cpuVars, wakeVars
<1>20. ASSUME NEW c \in Cpus, OtherInterrupt(c) PROVE SelfRemoves'
  BY <1>20 DEF OtherInterrupt, Acquire, waitVars, cpuVars, wakeVars
<1>21. ASSUME NEW c \in Cpus, ScanEnd(c) PROVE SelfRemoves'
  BY <1>21 DEF ScanEnd, TimerSet, NotBefore, waitVars, cpuVars, wakeVars
<1>22. ASSUME NEW c \in Cpus, ScanExpired(c) PROVE SelfRemoves'
  <2>1. PICK t \in Threads : TimedOut(c, t)
    BY <1>22, ScanExpiredFx
  <2> QED BY <2>1 DEF TimedOut
<1>23. ASSUME NEW c \in Cpus, ExpireSubmit(c) PROVE SelfRemoves'
  <2>1. PICK t \in Threads : Resubmitted(c, t)
    BY <1>23, ExpireSubmitFx
  <2> QED BY <2>1 DEF Resubmitted
<1>24. ASSUME NEW t \in Threads, PrepareLock(t) \/ HandleNote(t)
      PROVE  SelfRemoves'
  BY <1>1, <1>24 DEF PrepareLock, HandleNote, waitVars, cpuVars, wakeVars
<1>25. ASSUME NEW w \in Wakers, UnblockStart(w)
      PROVE  SelfRemoves'
  BY <1>1, <1>25 DEF UnblockStart, waitVars, cpuVars, wakeVars
<1>26. ASSUME NEW a \in Agents, RemoveEntry(a)
      PROVE  SelfRemoves'
  BY <1>1, <1>26 DEF RemoveEntry, waitVars, cpuVars, wakeVars
<1>27. ASSUME Tick
      PROVE  SelfRemoves'
  BY <1>1, <1>27 DEF Tick, waitVars, cpuVars, wakeVars
<1>28. CASE UNCHANGED vars
  BY <1>1, <1>28 DEF vars, waitVars, cpuVars, wakeVars
<1>29. ASSUME NEW t \in Threads, PrepareNoMem(t) PROVE FALSE
  BY <1>29 DEF PrepareNoMem
<1> QED BY <1>1, <1>2, <1>3, <1>4, <1>5, <1>6, <1>7, <1>8, <1>9, <1>10, <1>11, <1>12, <1>13,
           <1>14, <1>15, <1>16, <1>17, <1>18, <1>19, <1>20, <1>21, <1>22, <1>23, <1>24, <1>25,
           <1>26, <1>27, <1>28, <1>29
  DEF Next, ThreadStep, WakerStep, CpuStep

\* Every step preserves AgentsRemove.
LEMMA AgentsRemoveStep == Sensible /\ ~AllocMayFail /\ Inv /\ [Next]_vars => AgentsRemove'
<1> SUFFICES ASSUME Apart, Sensible, ~AllocMayFail, Inv, [Next]_vars,
                    PcType, ThreadType, EntryType, CpuType, WakeType, Placed, Entered, Removes,
                            OneRemoves, Collected, Locked, Listed
             PROVE  AgentsRemove'
  BY SensibleApart DEF Inv, TypeOK
<1> USE DEF Apart, Agents, PcType, WakeType, Removes, AgentsRemove
<1>1. ASSUME UNCHANGED <<removing, pc>> PROVE AgentsRemove'
  BY <1>1
<1>2. ASSUME NEW t \in Threads, PrepareStart(t) PROVE AgentsRemove'
  BY <1>2 DEF PrepareStart, waitVars, cpuVars, wakeVars
<1>3. ASSUME NEW t \in Threads, PreparePush(t) PROVE AgentsRemove'
  BY <1>3 DEF PreparePush, Deadline, waitVars, cpuVars, wakeVars
<1>4. ASSUME NEW t \in Threads, PrepareCas(t) PROVE AgentsRemove'
  BY <1>4 DEF PrepareCas, waitVars, cpuVars, wakeVars
<1>5. ASSUME NEW t \in Threads, Cancel(t) PROVE AgentsRemove'
  BY <1>5 DEF Cancel, waitVars, cpuVars, wakeVars
<1>6. ASSUME NEW t \in Threads, CommitEarly(t) PROVE AgentsRemove'
  BY <1>6 DEF CommitEarly, waitVars, cpuVars, wakeVars
<1>7. ASSUME NEW t \in Threads, CommitBlock(t) PROVE AgentsRemove'
  BY <1>7 DEF CommitBlock, waitVars, cpuVars, wakeVars
<1>8. ASSUME NEW t \in Threads, ResumeSelf(t) PROVE AgentsRemove'
  BY <1>8 DEF ResumeSelf, waitVars, cpuVars, wakeVars
<1>9. ASSUME NEW t \in Threads, FinalizeBlock(t) PROVE AgentsRemove'
  BY <1>9 DEF FinalizeBlock, Acquire, waitVars, cpuVars, wakeVars
<1>10. ASSUME NEW t \in Threads, FinalizeEarly(t) PROVE AgentsRemove'
  BY <1>10 DEF FinalizeEarly, Acquire, waitVars, cpuVars, wakeVars
<1>11. ASSUME NEW t \in Threads, FinalizeNote(t) PROVE AgentsRemove'
  BY <1>11 DEF FinalizeNote, NotePending, Claimable, waitVars, cpuVars, wakeVars
<1>12. ASSUME NEW t \in Threads, FinalizeDone(t) PROVE AgentsRemove'
  BY <1>12 DEF FinalizeDone, NotePending, Claimable, TimerSet, NotBefore, waitVars, cpuVars,
      wakeVars
<1>13. ASSUME NEW t \in Threads, FinalizeResume(t) PROVE AgentsRemove'
  BY <1>13 DEF FinalizeResume, waitVars, cpuVars, wakeVars
<1>14. ASSUME NEW w \in Wakers, UnblockCollect(w) PROVE AgentsRemove'
  <2>1. PICK q \in Queues, scanned \in SUBSET Threads, found \in SUBSET Threads : Scanned(w, q,
          scanned, found)
    BY <1>14, UnblockCollectFx
  <2> QED BY <2>1 DEF Scanned, Entered, Placed
<1>15. ASSUME NEW w \in Wakers, UnblockTake(w) PROVE AgentsRemove'
  <2>1. PICK t \in Threads : Taken(w, t)
    BY <1>15, UnblockTakeFx
  <2> QED BY <2>1 DEF Taken
<1>16. ASSUME NEW w \in Wakers, UnblockSubmit(w) PROVE AgentsRemove'
  <2>1. PICK t \in Threads : Submitted(w, t)
    BY <1>16, UnblockSubmitFx
  <2> QED BY <2>1 DEF Submitted
<1>17. ASSUME NEW w \in Wakers, SendNoteCas(w) PROVE AgentsRemove'
  BY <1>17 DEF SendNoteCas, Claimable, waitVars, cpuVars, wakeVars
<1>18. ASSUME NEW w \in Wakers, NEW t \in Threads, SendNote(w, t) PROVE AgentsRemove'
  BY <1>18 DEF SendNote, waitVars, cpuVars, wakeVars
<1>19. ASSUME NEW c \in Cpus, TimerInterrupt(c) PROVE AgentsRemove'
  BY <1>19 DEF TimerInterrupt, Acquire, waitVars, cpuVars, wakeVars
<1>20. ASSUME NEW c \in Cpus, OtherInterrupt(c) PROVE AgentsRemove'
  BY <1>20 DEF OtherInterrupt, Acquire, waitVars, cpuVars, wakeVars
<1>21. ASSUME NEW c \in Cpus, ScanEnd(c) PROVE AgentsRemove'
  BY <1>21 DEF ScanEnd, TimerSet, NotBefore, waitVars, cpuVars, wakeVars
<1>22. ASSUME NEW c \in Cpus, ScanExpired(c) PROVE AgentsRemove'
  <2>1. PICK t \in Threads : TimedOut(c, t)
    BY <1>22, ScanExpiredFx
  <2> QED BY <2>1 DEF TimedOut
<1>23. ASSUME NEW c \in Cpus, ExpireSubmit(c) PROVE AgentsRemove'
  <2>1. PICK t \in Threads : Resubmitted(c, t)
    BY <1>23, ExpireSubmitFx
  <2> QED BY <2>1 DEF Resubmitted
<1>24. ASSUME NEW t \in Threads, PrepareLock(t) \/ HandleNote(t)
      PROVE  AgentsRemove'
  BY <1>1, <1>24 DEF PrepareLock, HandleNote, waitVars, cpuVars, wakeVars
<1>25. ASSUME NEW w \in Wakers, UnblockStart(w)
      PROVE  AgentsRemove'
  BY <1>1, <1>25 DEF UnblockStart, waitVars, cpuVars, wakeVars
<1>26. ASSUME NEW a \in Agents, RemoveEntry(a)
      PROVE  AgentsRemove'
  BY <1>1, <1>26 DEF RemoveEntry, waitVars, cpuVars, wakeVars
<1>27. ASSUME Tick
      PROVE  AgentsRemove'
  BY <1>1, <1>27 DEF Tick, waitVars, cpuVars, wakeVars
<1>28. CASE UNCHANGED vars
  BY <1>1, <1>28 DEF vars, waitVars, cpuVars, wakeVars
<1>29. ASSUME NEW t \in Threads, PrepareNoMem(t) PROVE FALSE
  BY <1>29 DEF PrepareNoMem
<1> QED BY <1>1, <1>2, <1>3, <1>4, <1>5, <1>6, <1>7, <1>8, <1>9, <1>10, <1>11, <1>12, <1>13,
           <1>14, <1>15, <1>16, <1>17, <1>18, <1>19, <1>20, <1>21, <1>22, <1>23, <1>24, <1>25,
           <1>26, <1>27, <1>28, <1>29
  DEF Next, ThreadStep, WakerStep, CpuStep

\* Every step preserves LockedByThread.
LEMMA LockedByThreadStep == Sensible /\ ~AllocMayFail /\ Inv /\ [Next]_vars => LockedByThread'
<1> SUFFICES ASSUME Apart, Sensible, ~AllocMayFail, Inv, [Next]_vars,
                    PcType, ThreadType, EntryType, CpuType, WakeType, Placed, Entered, Removes,
                            OneRemoves, Collected, Locked, Listed
             PROVE  LockedByThread'
  BY SensibleApart DEF Inv, TypeOK
<1> USE DEF Apart, Agents, PcType, ThreadType, WakeType, CpuType, Locked, LockedByThread
<1>1. ASSUME UNCHANGED <<lock, pc, owner>> PROVE LockedByThread'
  BY <1>1
<1>2. ASSUME NEW t \in Threads, PrepareStart(t) PROVE LockedByThread'
  BY <1>2 DEF PrepareStart, waitVars, cpuVars, wakeVars
<1>3. ASSUME NEW t \in Threads, PreparePush(t) PROVE LockedByThread'
  BY <1>3 DEF PreparePush, Deadline, waitVars, cpuVars, wakeVars
<1>4. ASSUME NEW t \in Threads, PrepareCas(t) PROVE LockedByThread'
  BY <1>4 DEF PrepareCas, waitVars, cpuVars, wakeVars
<1>5. ASSUME NEW t \in Threads, Cancel(t) PROVE LockedByThread'
  BY <1>5 DEF Cancel, waitVars, cpuVars, wakeVars
<1>6. ASSUME NEW t \in Threads, CommitEarly(t) PROVE LockedByThread'
  BY <1>6 DEF CommitEarly, waitVars, cpuVars, wakeVars
<1>7. ASSUME NEW t \in Threads, CommitBlock(t) PROVE LockedByThread'
  BY <1>7 DEF CommitBlock, waitVars, cpuVars, wakeVars
<1>8. ASSUME NEW t \in Threads, ResumeSelf(t) PROVE LockedByThread'
  BY <1>8 DEF ResumeSelf, waitVars, cpuVars, wakeVars
<1>9. ASSUME NEW t \in Threads, FinalizeBlock(t) PROVE LockedByThread'
  BY <1>9 DEF FinalizeBlock, Acquire, waitVars, cpuVars, wakeVars
<1>10. ASSUME NEW t \in Threads, FinalizeEarly(t) PROVE LockedByThread'
  BY <1>10 DEF FinalizeEarly, Acquire, waitVars, cpuVars, wakeVars
<1>11. ASSUME NEW t \in Threads, FinalizeNote(t) PROVE LockedByThread'
  BY <1>11 DEF FinalizeNote, NotePending, Claimable, waitVars, cpuVars, wakeVars
<1>12. ASSUME NEW t \in Threads, FinalizeDone(t) PROVE LockedByThread'
  BY <1>12 DEF FinalizeDone, NotePending, Claimable, TimerSet, NotBefore, waitVars, cpuVars,
      wakeVars
<1>13. ASSUME NEW t \in Threads, FinalizeResume(t) PROVE LockedByThread'
  BY <1>13 DEF FinalizeResume, waitVars, cpuVars, wakeVars
<1>14. ASSUME NEW w \in Wakers, UnblockCollect(w) PROVE LockedByThread'
  <2>1. PICK q \in Queues, scanned \in SUBSET Threads, found \in SUBSET Threads : Scanned(w, q,
          scanned, found)
    BY <1>14, UnblockCollectFx
  <2> QED BY <2>1 DEF Scanned
<1>15. ASSUME NEW w \in Wakers, UnblockTake(w) PROVE LockedByThread'
  <2>1. PICK t \in Threads : Taken(w, t)
    BY <1>15, UnblockTakeFx
  <2> QED BY <2>1 DEF Taken
<1>16. ASSUME NEW w \in Wakers, UnblockSubmit(w) PROVE LockedByThread'
  <2>1. PICK t \in Threads : Submitted(w, t)
    BY <1>16, UnblockSubmitFx
  <2> QED BY <2>1 DEF Submitted
<1>17. ASSUME NEW w \in Wakers, SendNoteCas(w) PROVE LockedByThread'
  BY <1>17 DEF SendNoteCas, Claimable, waitVars, cpuVars, wakeVars
<1>18. ASSUME NEW w \in Wakers, NEW t \in Threads, SendNote(w, t) PROVE LockedByThread'
  BY <1>18 DEF SendNote, waitVars, cpuVars, wakeVars
<1>19. ASSUME NEW c \in Cpus, TimerInterrupt(c) PROVE LockedByThread'
  BY <1>19 DEF TimerInterrupt, Acquire, waitVars, cpuVars, wakeVars
<1>20. ASSUME NEW c \in Cpus, OtherInterrupt(c) PROVE LockedByThread'
  BY <1>20 DEF OtherInterrupt, Acquire, waitVars, cpuVars, wakeVars
<1>21. ASSUME NEW c \in Cpus, ScanEnd(c) PROVE LockedByThread'
  BY <1>21 DEF ScanEnd, TimerSet, NotBefore, LockedByCpu, waitVars, cpuVars, wakeVars
<1>22. ASSUME NEW c \in Cpus, ScanExpired(c) PROVE LockedByThread'
  <2>1. PICK t \in Threads : TimedOut(c, t)
    BY <1>22, ScanExpiredFx
  <2> QED BY <2>1 DEF TimedOut
<1>23. ASSUME NEW c \in Cpus, ExpireSubmit(c) PROVE LockedByThread'
  <2>1. PICK t \in Threads : Resubmitted(c, t)
    BY <1>23, ExpireSubmitFx
  <2> QED BY <2>1 DEF Resubmitted
<1>24. ASSUME NEW t \in Threads, PrepareLock(t) \/ HandleNote(t)
      PROVE  LockedByThread'
  BY <1>1, <1>24 DEF PrepareLock, HandleNote, waitVars, cpuVars, wakeVars
<1>25. ASSUME NEW w \in Wakers, UnblockStart(w)
      PROVE  LockedByThread'
  BY <1>1, <1>25 DEF UnblockStart, waitVars, cpuVars, wakeVars
<1>26. ASSUME NEW a \in Agents, RemoveEntry(a)
      PROVE  LockedByThread'
  BY <1>1, <1>26 DEF RemoveEntry, waitVars, cpuVars, wakeVars
<1>27. ASSUME Tick
      PROVE  LockedByThread'
  BY <1>1, <1>27 DEF Tick, waitVars, cpuVars, wakeVars
<1>28. CASE UNCHANGED vars
  BY <1>1, <1>28 DEF vars, waitVars, cpuVars, wakeVars
<1>29. ASSUME NEW t \in Threads, PrepareNoMem(t) PROVE FALSE
  BY <1>29 DEF PrepareNoMem
<1> QED BY <1>1, <1>2, <1>3, <1>4, <1>5, <1>6, <1>7, <1>8, <1>9, <1>10, <1>11, <1>12, <1>13,
           <1>14, <1>15, <1>16, <1>17, <1>18, <1>19, <1>20, <1>21, <1>22, <1>23, <1>24, <1>25,
           <1>26, <1>27, <1>28, <1>29
  DEF Next, ThreadStep, WakerStep, CpuStep

\* Every step preserves LockedByCpu.
LEMMA LockedByCpuStep == Sensible /\ ~AllocMayFail /\ Inv /\ [Next]_vars => LockedByCpu'
<1> SUFFICES ASSUME Apart, Sensible, ~AllocMayFail, Inv, [Next]_vars,
                    PcType, ThreadType, EntryType, CpuType, WakeType, Placed, Entered, Removes,
                            OneRemoves, Collected, Locked, Listed
             PROVE  LockedByCpu'
  BY SensibleApart DEF Inv, TypeOK
<1> USE DEF Apart, Agents, PcType, ThreadType, WakeType, CpuType, Locked, LockedByThread,
            LockedByCpu
<1>1. ASSUME UNCHANGED <<lock, pc>> PROVE LockedByCpu'
  BY <1>1
<1>2. ASSUME NEW t \in Threads, PrepareStart(t) PROVE LockedByCpu'
  BY <1>2 DEF PrepareStart, waitVars, cpuVars, wakeVars
<1>3. ASSUME NEW t \in Threads, PreparePush(t) PROVE LockedByCpu'
  BY <1>3 DEF PreparePush, Deadline, waitVars, cpuVars, wakeVars
<1>4. ASSUME NEW t \in Threads, PrepareCas(t) PROVE LockedByCpu'
  BY <1>4 DEF PrepareCas, waitVars, cpuVars, wakeVars
<1>5. ASSUME NEW t \in Threads, Cancel(t) PROVE LockedByCpu'
  BY <1>5 DEF Cancel, waitVars, cpuVars, wakeVars
<1>6. ASSUME NEW t \in Threads, CommitEarly(t) PROVE LockedByCpu'
  BY <1>6 DEF CommitEarly, waitVars, cpuVars, wakeVars
<1>7. ASSUME NEW t \in Threads, CommitBlock(t) PROVE LockedByCpu'
  BY <1>7 DEF CommitBlock, waitVars, cpuVars, wakeVars
<1>8. ASSUME NEW t \in Threads, ResumeSelf(t) PROVE LockedByCpu'
  BY <1>8 DEF ResumeSelf, waitVars, cpuVars, wakeVars
<1>9. ASSUME NEW t \in Threads, FinalizeBlock(t) PROVE LockedByCpu'
  BY <1>9 DEF FinalizeBlock, Acquire, waitVars, cpuVars, wakeVars
<1>10. ASSUME NEW t \in Threads, FinalizeEarly(t) PROVE LockedByCpu'
  BY <1>10 DEF FinalizeEarly, Acquire, waitVars, cpuVars, wakeVars
<1>11. ASSUME NEW t \in Threads, FinalizeNote(t) PROVE LockedByCpu'
  BY <1>11 DEF FinalizeNote, NotePending, Claimable, waitVars, cpuVars, wakeVars
<1>12. ASSUME NEW t \in Threads, FinalizeDone(t) PROVE LockedByCpu'
  BY <1>12 DEF FinalizeDone, NotePending, Claimable, TimerSet, NotBefore, waitVars, cpuVars,
      wakeVars
<1>13. ASSUME NEW t \in Threads, FinalizeResume(t) PROVE LockedByCpu'
  BY <1>13 DEF FinalizeResume, waitVars, cpuVars, wakeVars
<1>14. ASSUME NEW w \in Wakers, UnblockCollect(w) PROVE LockedByCpu'
  <2>1. PICK q \in Queues, scanned \in SUBSET Threads, found \in SUBSET Threads : Scanned(w, q,
          scanned, found)
    BY <1>14, UnblockCollectFx
  <2> QED BY <2>1 DEF Scanned
<1>15. ASSUME NEW w \in Wakers, UnblockTake(w) PROVE LockedByCpu'
  <2>1. PICK t \in Threads : Taken(w, t)
    BY <1>15, UnblockTakeFx
  <2> QED BY <2>1 DEF Taken
<1>16. ASSUME NEW w \in Wakers, UnblockSubmit(w) PROVE LockedByCpu'
  <2>1. PICK t \in Threads : Submitted(w, t)
    BY <1>16, UnblockSubmitFx
  <2> QED BY <2>1 DEF Submitted
<1>17. ASSUME NEW w \in Wakers, SendNoteCas(w) PROVE LockedByCpu'
  BY <1>17 DEF SendNoteCas, Claimable, waitVars, cpuVars, wakeVars
<1>18. ASSUME NEW w \in Wakers, NEW t \in Threads, SendNote(w, t) PROVE LockedByCpu'
  BY <1>18 DEF SendNote, waitVars, cpuVars, wakeVars
<1>19. ASSUME NEW c \in Cpus, TimerInterrupt(c) PROVE LockedByCpu'
  BY <1>19 DEF TimerInterrupt, Acquire, waitVars, cpuVars, wakeVars
<1>20. ASSUME NEW c \in Cpus, OtherInterrupt(c) PROVE LockedByCpu'
  BY <1>20 DEF OtherInterrupt, Acquire, waitVars, cpuVars, wakeVars
<1>21. ASSUME NEW c \in Cpus, ScanEnd(c) PROVE LockedByCpu'
  BY <1>21 DEF ScanEnd, TimerSet, NotBefore, waitVars, cpuVars, wakeVars
<1>22. ASSUME NEW c \in Cpus, ScanExpired(c) PROVE LockedByCpu'
  <2>1. PICK t \in Threads : TimedOut(c, t)
    BY <1>22, ScanExpiredFx
  <2> QED BY <2>1 DEF TimedOut
<1>23. ASSUME NEW c \in Cpus, ExpireSubmit(c) PROVE LockedByCpu'
  <2>1. PICK t \in Threads : Resubmitted(c, t)
    BY <1>23, ExpireSubmitFx
  <2> QED BY <2>1 DEF Resubmitted
<1>24. ASSUME NEW t \in Threads, PrepareLock(t) \/ HandleNote(t)
      PROVE  LockedByCpu'
  BY <1>1, <1>24 DEF PrepareLock, HandleNote, waitVars, cpuVars, wakeVars
<1>25. ASSUME NEW w \in Wakers, UnblockStart(w)
      PROVE  LockedByCpu'
  BY <1>1, <1>25 DEF UnblockStart, waitVars, cpuVars, wakeVars
<1>26. ASSUME NEW a \in Agents, RemoveEntry(a)
      PROVE  LockedByCpu'
  BY <1>1, <1>26 DEF RemoveEntry, waitVars, cpuVars, wakeVars
<1>27. ASSUME Tick
      PROVE  LockedByCpu'
  BY <1>1, <1>27 DEF Tick, waitVars, cpuVars, wakeVars
<1>28. CASE UNCHANGED vars
  BY <1>1, <1>28 DEF vars, waitVars, cpuVars, wakeVars
<1>29. ASSUME NEW t \in Threads, PrepareNoMem(t) PROVE FALSE
  BY <1>29 DEF PrepareNoMem
<1> QED BY <1>1, <1>2, <1>3, <1>4, <1>5, <1>6, <1>7, <1>8, <1>9, <1>10, <1>11, <1>12, <1>13,
           <1>14, <1>15, <1>16, <1>17, <1>18, <1>19, <1>20, <1>21, <1>22, <1>23, <1>24, <1>25,
           <1>26, <1>27, <1>28, <1>29
  DEF Next, ThreadStep, WakerStep, CpuStep

\* Every step preserves LockedByWaker.
LEMMA LockedByWakerStep == Sensible /\ ~AllocMayFail /\ Inv /\ [Next]_vars => LockedByWaker'
<1> SUFFICES ASSUME Apart, Sensible, ~AllocMayFail, Inv, [Next]_vars,
                    PcType, ThreadType, EntryType, CpuType, WakeType, Placed, Entered, Removes,
                            OneRemoves, Collected, Locked, Listed
             PROVE  LockedByWaker'
  BY SensibleApart DEF Inv, TypeOK
<1> USE DEF Apart, Agents, PcType, ThreadType, WakeType, CpuType, Locked, LockedByThread,
            LockedByWaker
<1>1. ASSUME UNCHANGED <<lock, pc, owner, removing>> PROVE LockedByWaker'
  BY <1>1
<1>2. ASSUME NEW t \in Threads, PrepareStart(t) PROVE LockedByWaker'
  BY <1>2 DEF PrepareStart, waitVars, cpuVars, wakeVars
<1>3. ASSUME NEW t \in Threads, PreparePush(t) PROVE LockedByWaker'
  <2>1. \A v \in Wakers : removing[v] # t
    BY <1>3 DEF PreparePush, Removes, Removers
  <2> QED BY <1>3, <2>1 DEF PreparePush, cpuVars, wakeVars
<1>4. ASSUME NEW t \in Threads, PrepareCas(t) PROVE LockedByWaker'
  BY <1>4 DEF PrepareCas, waitVars, cpuVars, wakeVars
<1>5. ASSUME NEW t \in Threads, Cancel(t) PROVE LockedByWaker'
  BY <1>5 DEF Cancel, waitVars, cpuVars, wakeVars
<1>6. ASSUME NEW t \in Threads, CommitEarly(t) PROVE LockedByWaker'
  BY <1>6 DEF CommitEarly, waitVars, cpuVars, wakeVars
<1>7. ASSUME NEW t \in Threads, CommitBlock(t) PROVE LockedByWaker'
  BY <1>7 DEF CommitBlock, waitVars, cpuVars, wakeVars
<1>8. ASSUME NEW t \in Threads, ResumeSelf(t) PROVE LockedByWaker'
  BY <1>8 DEF ResumeSelf, waitVars, cpuVars, wakeVars
<1>9. ASSUME NEW t \in Threads, FinalizeBlock(t) PROVE LockedByWaker'
  BY <1>9 DEF FinalizeBlock, Acquire, Removes, Removers, waitVars, cpuVars, wakeVars
<1>10. ASSUME NEW t \in Threads, FinalizeEarly(t) PROVE LockedByWaker'
  BY <1>10 DEF FinalizeEarly, Acquire, Removes, Removers, waitVars, cpuVars, wakeVars
<1>11. ASSUME NEW t \in Threads, FinalizeNote(t) PROVE LockedByWaker'
  BY <1>11 DEF FinalizeNote, NotePending, Claimable, Removes, Removers, waitVars, cpuVars,
      wakeVars
<1>12. ASSUME NEW t \in Threads, FinalizeDone(t) PROVE LockedByWaker'
  BY <1>12 DEF FinalizeDone, NotePending, Claimable, TimerSet, NotBefore, waitVars, cpuVars,
      wakeVars
<1>13. ASSUME NEW t \in Threads, FinalizeResume(t) PROVE LockedByWaker'
  BY <1>13 DEF FinalizeResume, Removes, Removers, waitVars, cpuVars, wakeVars
<1>14. ASSUME NEW w \in Wakers, UnblockCollect(w) PROVE LockedByWaker'
  <2>1. PICK q \in Queues, scanned \in SUBSET Threads, found \in SUBSET Threads : Scanned(w, q,
          scanned, found)
    BY <1>14, UnblockCollectFx
  <2> QED BY <2>1 DEF Scanned
<1>15. ASSUME NEW w \in Wakers, UnblockTake(w) PROVE LockedByWaker'
  <2>1. PICK t \in Threads : Taken(w, t)
    BY <1>15, UnblockTakeFx
  <2> QED BY <2>1 DEF Taken
<1>16. ASSUME NEW w \in Wakers, UnblockSubmit(w) PROVE LockedByWaker'
  <2>1. PICK t \in Threads : Submitted(w, t)
    BY <1>16, UnblockSubmitFx
  <2> QED BY <2>1 DEF Submitted
<1>17. ASSUME NEW w \in Wakers, SendNoteCas(w) PROVE LockedByWaker'
  BY <1>17 DEF SendNoteCas, Claimable, waitVars, cpuVars, wakeVars
<1>18. ASSUME NEW w \in Wakers, NEW t \in Threads, SendNote(w, t) PROVE LockedByWaker'
  BY <1>18 DEF SendNote, waitVars, cpuVars, wakeVars
<1>19. ASSUME NEW c \in Cpus, TimerInterrupt(c) PROVE LockedByWaker'
  BY <1>19 DEF TimerInterrupt, Acquire, waitVars, cpuVars, wakeVars
<1>20. ASSUME NEW c \in Cpus, OtherInterrupt(c) PROVE LockedByWaker'
  BY <1>20 DEF OtherInterrupt, Acquire, waitVars, cpuVars, wakeVars
<1>21. ASSUME NEW c \in Cpus, ScanEnd(c) PROVE LockedByWaker'
  BY <1>21 DEF ScanEnd, TimerSet, NotBefore, LockedByCpu, waitVars, cpuVars, wakeVars
<1>22. ASSUME NEW c \in Cpus, ScanExpired(c) PROVE LockedByWaker'
  <2>1. PICK t \in Threads : TimedOut(c, t)
    BY <1>22, ScanExpiredFx
  <2> QED BY <2>1 DEF TimedOut
<1>23. ASSUME NEW c \in Cpus, ExpireSubmit(c) PROVE LockedByWaker'
  <2>1. PICK t \in Threads : Resubmitted(c, t)
    BY <1>23, ExpireSubmitFx
  <2>4. \A v \in Wakers : v # c /\ v \in Agents
    OBVIOUS
  <2>2. \A v \in Wakers : removing'[v] = removing[v] /\ pc'[v] = pc[v]
    BY <2>1, <2>4 DEF Resubmitted
  <2>3. UNCHANGED <<owner, lock>>
    BY <2>1 DEF Resubmitted
  <2> QED BY <2>2, <2>3
<1>24. ASSUME NEW t \in Threads, PrepareLock(t) \/ HandleNote(t)
      PROVE  LockedByWaker'
  BY <1>1, <1>24 DEF PrepareLock, HandleNote, waitVars, cpuVars, wakeVars
<1>25. ASSUME NEW w \in Wakers, UnblockStart(w)
      PROVE  LockedByWaker'
  BY <1>1, <1>25 DEF UnblockStart, waitVars, cpuVars, wakeVars
<1>26. ASSUME NEW a \in Agents, RemoveEntry(a)
      PROVE  LockedByWaker'
  BY <1>1, <1>26 DEF RemoveEntry, waitVars, cpuVars, wakeVars
<1>27. ASSUME Tick
      PROVE  LockedByWaker'
  BY <1>1, <1>27 DEF Tick, waitVars, cpuVars, wakeVars
<1>28. CASE UNCHANGED vars
  BY <1>1, <1>28 DEF vars, waitVars, cpuVars, wakeVars
<1>29. ASSUME NEW t \in Threads, PrepareNoMem(t) PROVE FALSE
  BY <1>29 DEF PrepareNoMem
<1> QED BY <1>1, <1>2, <1>3, <1>4, <1>5, <1>6, <1>7, <1>8, <1>9, <1>10, <1>11, <1>12, <1>13,
           <1>14, <1>15, <1>16, <1>17, <1>18, <1>19, <1>20, <1>21, <1>22, <1>23, <1>24, <1>25,
           <1>26, <1>27, <1>28, <1>29
  DEF Next, ThreadStep, WakerStep, CpuStep

\* Every step preserves BlockedListed.
LEMMA BlockedListedStep == Sensible /\ ~AllocMayFail /\ Inv /\ [Next]_vars => BlockedListed'
<1> SUFFICES ASSUME Apart, Sensible, ~AllocMayFail, Inv, [Next]_vars,
                    PcType, ThreadType, EntryType, CpuType, WakeType, Placed, Entered, Removes,
                            OneRemoves, Collected, Locked, Listed
             PROVE  BlockedListed'
  BY SensibleApart DEF Inv, TypeOK
<1> USE DEF Apart, Agents, ThreadType, CpuType, Listed, BlockedListed
<1>1. ASSUME UNCHANGED <<blocked, owner, state>> PROVE BlockedListed'
  BY <1>1
<1>2. ASSUME NEW t \in Threads, PreparePush(t) PROVE BlockedListed'
  BY <1>2 DEF PreparePush, Deadline, Placed, waitVars, cpuVars, wakeVars
<1>3. ASSUME NEW t \in Threads, PrepareCas(t) PROVE BlockedListed'
  BY <1>3 DEF PrepareCas, waitVars, cpuVars, wakeVars
<1>4. ASSUME NEW t \in Threads, Cancel(t) PROVE BlockedListed'
  BY <1>4 DEF Cancel, waitVars, cpuVars, wakeVars
<1>5. ASSUME NEW t \in Threads, ResumeSelf(t) PROVE BlockedListed'
  BY <1>5 DEF ResumeSelf, waitVars, cpuVars, wakeVars
<1>6. ASSUME NEW t \in Threads, FinalizeBlock(t) PROVE BlockedListed'
  BY <1>6 DEF FinalizeBlock, Acquire, Placed, Removes, Removers, waitVars, cpuVars, wakeVars
<1>7. ASSUME NEW t \in Threads, FinalizeEarly(t) PROVE BlockedListed'
  BY <1>7 DEF FinalizeEarly, Acquire, waitVars, cpuVars, wakeVars
<1>8. ASSUME NEW t \in Threads, FinalizeNote(t) PROVE BlockedListed'
  BY <1>8 DEF FinalizeNote, NotePending, Claimable, Locked, LockedByThread, waitVars, cpuVars,
      wakeVars
<1>9. ASSUME NEW t \in Threads, FinalizeResume(t) PROVE BlockedListed'
  BY <1>9 DEF FinalizeResume, waitVars, cpuVars, wakeVars
<1>10. ASSUME NEW w \in Wakers, UnblockCollect(w) PROVE BlockedListed'
  <2>1. PICK q \in Queues, scanned \in SUBSET Threads, found \in SUBSET Threads : Scanned(w, q,
          scanned, found)
    BY <1>10, UnblockCollectFx
  <2> QED BY <2>1 DEF Scanned, Entered
<1>11. ASSUME NEW w \in Wakers, UnblockTake(w) PROVE BlockedListed'
  <2>1. PICK t \in Threads : Taken(w, t)
    BY <1>11, UnblockTakeFx
  <2> QED BY <2>1 DEF Taken
<1>12. ASSUME NEW w \in Wakers, UnblockSubmit(w) PROVE BlockedListed'
  <2>1. PICK t \in Threads : Submitted(w, t)
    BY <1>12, UnblockSubmitFx
  <2> QED BY <2>1 DEF Submitted
<1>13. ASSUME NEW w \in Wakers, SendNoteCas(w) PROVE BlockedListed'
  BY <1>13 DEF SendNoteCas, Claimable, waitVars, cpuVars, wakeVars
<1>14. ASSUME NEW c \in Cpus, ScanExpired(c) PROVE BlockedListed'
  <2>1. PICK t \in Threads : TimedOut(c, t)
    BY <1>14, ScanExpiredFx
  <2> QED BY <2>1 DEF TimedOut
<1>15. ASSUME NEW c \in Cpus, ExpireSubmit(c) PROVE BlockedListed'
  <2>1. PICK t \in Threads : Resubmitted(c, t)
    BY <1>15, ExpireSubmitFx
  <2> QED BY <2>1 DEF Resubmitted
<1>16. ASSUME NEW t \in Threads, PrepareStart(t) \/ PrepareLock(t) \/ CommitEarly(t) \/
        CommitBlock(t) \/ FinalizeDone(t) \/ HandleNote(t)
      PROVE  BlockedListed'
  BY <1>1, <1>16 DEF PrepareStart, PrepareLock, CommitEarly, CommitBlock, FinalizeDone,
      HandleNote, NotePending, Claimable, TimerSet, NotBefore, waitVars, cpuVars, wakeVars
<1>17. ASSUME NEW w \in Wakers, UnblockStart(w) \/ (\E t \in Threads : SendNote(w, t))
      PROVE  BlockedListed'
  BY <1>1, <1>17 DEF UnblockStart, SendNote, waitVars, cpuVars, wakeVars
<1>18. ASSUME NEW c \in Cpus, TimerInterrupt(c) \/ OtherInterrupt(c) \/ ScanEnd(c)
      PROVE  BlockedListed'
  BY <1>1, <1>18 DEF TimerInterrupt, OtherInterrupt, ScanEnd, Acquire, TimerSet, NotBefore,
      waitVars, cpuVars, wakeVars
<1>19. ASSUME NEW a \in Agents, RemoveEntry(a)
      PROVE  BlockedListed'
  BY <1>1, <1>19 DEF RemoveEntry, waitVars, cpuVars, wakeVars
<1>20. ASSUME Tick
      PROVE  BlockedListed'
  BY <1>1, <1>20 DEF Tick, waitVars, cpuVars, wakeVars
<1>21. CASE UNCHANGED vars
  BY <1>1, <1>21 DEF vars, waitVars, cpuVars, wakeVars
<1>22. ASSUME NEW t \in Threads, PrepareNoMem(t) PROVE FALSE
  BY <1>22 DEF PrepareNoMem
<1> QED BY <1>1, <1>2, <1>3, <1>4, <1>5, <1>6, <1>7, <1>8, <1>9, <1>10, <1>11, <1>12, <1>13,
           <1>14, <1>15, <1>16, <1>17, <1>18, <1>19, <1>20, <1>21, <1>22
  DEF Next, ThreadStep, WakerStep, CpuStep

\* Every step preserves ListedOwned.
LEMMA ListedOwnedStep == Sensible /\ ~AllocMayFail /\ Inv /\ [Next]_vars => ListedOwned'
<1> SUFFICES ASSUME Apart, Sensible, ~AllocMayFail, Inv, [Next]_vars,
                    PcType, ThreadType, EntryType, CpuType, WakeType, Placed, Entered, Removes,
                            OneRemoves, Collected, Locked, Listed
             PROVE  ListedOwned'
  BY SensibleApart DEF Inv, TypeOK
<1> USE DEF Apart, Agents, PcType, ThreadType, CpuType, Listed, ListedOwned
<1>1. ASSUME UNCHANGED <<blocked, owner, pc>> PROVE ListedOwned'
  BY <1>1
<1>2. ASSUME NEW t \in Threads, PrepareStart(t) PROVE ListedOwned'
  BY <1>2 DEF PrepareStart, waitVars, cpuVars, wakeVars
<1>3. ASSUME NEW t \in Threads, PreparePush(t) PROVE ListedOwned'
  BY <1>3 DEF PreparePush, Deadline, waitVars, cpuVars, wakeVars
<1>4. ASSUME NEW t \in Threads, PrepareCas(t) PROVE ListedOwned'
  BY <1>4 DEF PrepareCas, waitVars, cpuVars, wakeVars
<1>5. ASSUME NEW t \in Threads, Cancel(t) PROVE ListedOwned'
  BY <1>5 DEF Cancel, waitVars, cpuVars, wakeVars
<1>6. ASSUME NEW t \in Threads, CommitEarly(t) PROVE ListedOwned'
  BY <1>6 DEF CommitEarly, waitVars, cpuVars, wakeVars
<1>7. ASSUME NEW t \in Threads, CommitBlock(t) PROVE ListedOwned'
  BY <1>7 DEF CommitBlock, waitVars, cpuVars, wakeVars
<1>8. ASSUME NEW t \in Threads, ResumeSelf(t) PROVE ListedOwned'
  BY <1>8 DEF ResumeSelf, waitVars, cpuVars, wakeVars
<1>9. ASSUME NEW t \in Threads, FinalizeBlock(t) PROVE ListedOwned'
  BY <1>9 DEF FinalizeBlock, Acquire, Placed, Removes, Removers, waitVars, cpuVars, wakeVars
<1>10. ASSUME NEW t \in Threads, FinalizeEarly(t) PROVE ListedOwned'
  BY <1>10 DEF FinalizeEarly, Acquire, waitVars, cpuVars, wakeVars
<1>11. ASSUME NEW t \in Threads, FinalizeNote(t) PROVE ListedOwned'
  BY <1>11 DEF FinalizeNote, NotePending, Claimable, Locked, LockedByThread, waitVars, cpuVars,
      wakeVars
<1>12. ASSUME NEW t \in Threads, FinalizeDone(t) PROVE ListedOwned'
  BY <1>12 DEF FinalizeDone, NotePending, Claimable, TimerSet, NotBefore, waitVars, cpuVars,
      wakeVars
<1>13. ASSUME NEW t \in Threads, FinalizeResume(t) PROVE ListedOwned'
  BY <1>13 DEF FinalizeResume, waitVars, cpuVars, wakeVars
<1>14. ASSUME NEW w \in Wakers, UnblockCollect(w) PROVE ListedOwned'
  <2>1. PICK q \in Queues, scanned \in SUBSET Threads, found \in SUBSET Threads : Scanned(w, q,
          scanned, found)
    BY <1>14, UnblockCollectFx
  <2> QED BY <2>1 DEF Scanned, Entered
<1>15. ASSUME NEW w \in Wakers, UnblockTake(w) PROVE ListedOwned'
  <2>1. PICK t \in Threads : Taken(w, t)
    BY <1>15, UnblockTakeFx
  <2> QED BY <2>1 DEF Taken
<1>16. ASSUME NEW w \in Wakers, UnblockSubmit(w) PROVE ListedOwned'
  <2>1. PICK t \in Threads : Submitted(w, t)
    BY <1>16, UnblockSubmitFx
  <2> QED BY <2>1 DEF Submitted, GoneUnlisted
<1>17. ASSUME NEW w \in Wakers, SendNoteCas(w) PROVE ListedOwned'
  BY <1>17 DEF SendNoteCas, Claimable, waitVars, cpuVars, wakeVars
<1>18. ASSUME NEW w \in Wakers, NEW t \in Threads, SendNote(w, t) PROVE ListedOwned'
  BY <1>18 DEF SendNote, waitVars, cpuVars, wakeVars
<1>19. ASSUME NEW c \in Cpus, TimerInterrupt(c) PROVE ListedOwned'
  BY <1>19 DEF TimerInterrupt, Acquire, waitVars, cpuVars, wakeVars
<1>20. ASSUME NEW c \in Cpus, OtherInterrupt(c) PROVE ListedOwned'
  BY <1>20 DEF OtherInterrupt, Acquire, waitVars, cpuVars, wakeVars
<1>21. ASSUME NEW c \in Cpus, ScanEnd(c) PROVE ListedOwned'
  BY <1>21 DEF ScanEnd, TimerSet, NotBefore, waitVars, cpuVars, wakeVars
<1>22. ASSUME NEW c \in Cpus, ScanExpired(c) PROVE ListedOwned'
  <2>1. PICK t \in Threads : TimedOut(c, t)
    BY <1>22, ScanExpiredFx
  <2> QED BY <2>1 DEF TimedOut
<1>23. ASSUME NEW c \in Cpus, ExpireSubmit(c) PROVE ListedOwned'
  <2>1. PICK t \in Threads : Resubmitted(c, t)
    BY <1>23, ExpireSubmitFx
  <2> QED BY <2>1 DEF Resubmitted, GoneUnlisted
<1>24. ASSUME NEW t \in Threads, PrepareLock(t) \/ HandleNote(t)
      PROVE  ListedOwned'
  BY <1>1, <1>24 DEF PrepareLock, HandleNote, waitVars, cpuVars, wakeVars
<1>25. ASSUME NEW w \in Wakers, UnblockStart(w)
      PROVE  ListedOwned'
  BY <1>1, <1>25 DEF UnblockStart, waitVars, cpuVars, wakeVars
<1>26. ASSUME NEW a \in Agents, RemoveEntry(a)
      PROVE  ListedOwned'
  BY <1>1, <1>26 DEF RemoveEntry, waitVars, cpuVars, wakeVars
<1>27. ASSUME Tick
      PROVE  ListedOwned'
  BY <1>1, <1>27 DEF Tick, waitVars, cpuVars, wakeVars
<1>28. CASE UNCHANGED vars
  BY <1>1, <1>28 DEF vars, waitVars, cpuVars, wakeVars
<1>29. ASSUME NEW t \in Threads, PrepareNoMem(t) PROVE FALSE
  BY <1>29 DEF PrepareNoMem
<1> QED BY <1>1, <1>2, <1>3, <1>4, <1>5, <1>6, <1>7, <1>8, <1>9, <1>10, <1>11, <1>12, <1>13,
           <1>14, <1>15, <1>16, <1>17, <1>18, <1>19, <1>20, <1>21, <1>22, <1>23, <1>24, <1>25,
           <1>26, <1>27, <1>28, <1>29
  DEF Next, ThreadStep, WakerStep, CpuStep

\* Every step preserves GoneUnlisted.
LEMMA GoneUnlistedStep == Sensible /\ ~AllocMayFail /\ Inv /\ [Next]_vars => GoneUnlisted'
<1> SUFFICES ASSUME Apart, Sensible, ~AllocMayFail, Inv, [Next]_vars,
                    PcType, ThreadType, EntryType, CpuType, WakeType, Placed, Entered, Removes,
                            OneRemoves, Collected, Locked, Listed
             PROVE  GoneUnlisted'
  BY SensibleApart DEF Inv, TypeOK
<1> USE DEF Apart, Agents, WakeType, CpuType, Listed, GoneUnlisted
<1>1. ASSUME UNCHANGED <<blocked, removing>> PROVE GoneUnlisted'
  BY <1>1
<1>2. ASSUME NEW t \in Threads, Cancel(t) PROVE GoneUnlisted'
  BY <1>2 DEF Cancel, ListedOwned, waitVars, cpuVars, wakeVars
<1>3. ASSUME NEW t \in Threads, CommitEarly(t) PROVE GoneUnlisted'
  BY <1>3 DEF CommitEarly, ListedOwned, waitVars, cpuVars, wakeVars
<1>4. ASSUME NEW t \in Threads, ResumeSelf(t) PROVE GoneUnlisted'
  BY <1>4 DEF ResumeSelf, waitVars, cpuVars, wakeVars
<1>5. ASSUME NEW t \in Threads, FinalizeBlock(t) PROVE GoneUnlisted'
  BY <1>5 DEF FinalizeBlock, Acquire, Placed, Removes, Removers, waitVars, cpuVars, wakeVars
<1>6. ASSUME NEW t \in Threads, FinalizeEarly(t) PROVE GoneUnlisted'
  BY <1>6 DEF FinalizeEarly, Acquire, ListedOwned, waitVars, cpuVars, wakeVars
<1>7. ASSUME NEW t \in Threads, FinalizeNote(t) PROVE GoneUnlisted'
  BY <1>7 DEF FinalizeNote, NotePending, Claimable, Locked, LockedByThread, ListedOwned,
      waitVars, cpuVars, wakeVars
<1>8. ASSUME NEW t \in Threads, FinalizeResume(t) PROVE GoneUnlisted'
  BY <1>8 DEF FinalizeResume, waitVars, cpuVars, wakeVars
<1>9. ASSUME NEW w \in Wakers, UnblockTake(w) PROVE GoneUnlisted'
  <2>1. PICK t \in Threads : Taken(w, t)
    BY <1>9, UnblockTakeFx
  <2> QED BY <2>1 DEF Taken, ListedOwned
<1>10. ASSUME NEW w \in Wakers, UnblockSubmit(w) PROVE GoneUnlisted'
  <2>1. PICK t \in Threads : Submitted(w, t)
    BY <1>10, UnblockSubmitFx
  <2> QED BY <2>1 DEF Submitted
<1>11. ASSUME NEW c \in Cpus, ScanExpired(c) PROVE GoneUnlisted'
  <2>1. PICK t \in Threads : TimedOut(c, t)
    BY <1>11, ScanExpiredFx
  <2> QED BY <2>1 DEF TimedOut, ListedOwned
<1>12. ASSUME NEW c \in Cpus, ExpireSubmit(c) PROVE GoneUnlisted'
  <2>1. PICK t \in Threads : Resubmitted(c, t)
    BY <1>12, ExpireSubmitFx
  <2> QED BY <2>1 DEF Resubmitted
<1>13. ASSUME NEW t \in Threads, PrepareStart(t) \/ PrepareLock(t) \/ PreparePush(t) \/
        PrepareCas(t) \/ CommitBlock(t) \/ FinalizeDone(t) \/ HandleNote(t)
      PROVE  GoneUnlisted'
  BY <1>1, <1>13 DEF PrepareStart, PrepareLock, PreparePush, PrepareCas, CommitBlock,
      FinalizeDone, HandleNote, Deadline, NotePending, Claimable, TimerSet, NotBefore, waitVars,
      cpuVars, wakeVars
<1>14. ASSUME NEW w \in Wakers, UnblockStart(w) \/ UnblockCollect(w) \/ SendNoteCas(w) \/
        (\E t \in Threads : SendNote(w, t))
      PROVE  GoneUnlisted'
  BY <1>1, <1>14 DEF UnblockStart, UnblockCollect, SendNoteCas, SendNote, Claimable, waitVars,
      cpuVars, wakeVars
<1>15. ASSUME NEW c \in Cpus, TimerInterrupt(c) \/ OtherInterrupt(c) \/ ScanEnd(c)
      PROVE  GoneUnlisted'
  BY <1>1, <1>15 DEF TimerInterrupt, OtherInterrupt, ScanEnd, Acquire, TimerSet, NotBefore,
      waitVars, cpuVars, wakeVars
<1>16. ASSUME NEW a \in Agents, RemoveEntry(a)
      PROVE  GoneUnlisted'
  BY <1>1, <1>16 DEF RemoveEntry, waitVars, cpuVars, wakeVars
<1>17. ASSUME Tick
      PROVE  GoneUnlisted'
  BY <1>1, <1>17 DEF Tick, waitVars, cpuVars, wakeVars
<1>18. CASE UNCHANGED vars
  BY <1>1, <1>18 DEF vars, waitVars, cpuVars, wakeVars
<1>19. ASSUME NEW t \in Threads, PrepareNoMem(t) PROVE FALSE
  BY <1>19 DEF PrepareNoMem
<1> QED BY <1>1, <1>2, <1>3, <1>4, <1>5, <1>6, <1>7, <1>8, <1>9, <1>10, <1>11, <1>12, <1>13,
           <1>14, <1>15, <1>16, <1>17, <1>18, <1>19
  DEF Next, ThreadStep, WakerStep, CpuStep

\* Every step preserves Batches.
LEMMA BatchesStep == Sensible /\ ~AllocMayFail /\ Inv /\ [Next]_vars => Batches'
<1> SUFFICES ASSUME Apart, Sensible, ~AllocMayFail, Inv, [Next]_vars,
                    PcType, ThreadType, EntryType, CpuType, WakeType, Placed, Entered, Removes,
                            OneRemoves, Collected, Locked, Listed
             PROVE  Batches'
  BY SensibleApart DEF Inv, TypeOK
<1> USE DEF Apart, Agents, PcType, WakeType, Collected, Batches
<1>1. ASSUME UNCHANGED <<batch, pc>> PROVE Batches'
  BY <1>1
<1>2. ASSUME NEW t \in Threads, PrepareStart(t) PROVE Batches'
  BY <1>2 DEF PrepareStart, waitVars, cpuVars, wakeVars
<1>3. ASSUME NEW t \in Threads, PreparePush(t) PROVE Batches'
  BY <1>3 DEF PreparePush, Deadline, waitVars, cpuVars, wakeVars
<1>4. ASSUME NEW t \in Threads, PrepareCas(t) PROVE Batches'
  BY <1>4 DEF PrepareCas, waitVars, cpuVars, wakeVars
<1>5. ASSUME NEW t \in Threads, Cancel(t) PROVE Batches'
  BY <1>5 DEF Cancel, waitVars, cpuVars, wakeVars
<1>6. ASSUME NEW t \in Threads, CommitEarly(t) PROVE Batches'
  BY <1>6 DEF CommitEarly, waitVars, cpuVars, wakeVars
<1>7. ASSUME NEW t \in Threads, CommitBlock(t) PROVE Batches'
  BY <1>7 DEF CommitBlock, waitVars, cpuVars, wakeVars
<1>8. ASSUME NEW t \in Threads, ResumeSelf(t) PROVE Batches'
  BY <1>8 DEF ResumeSelf, waitVars, cpuVars, wakeVars
<1>9. ASSUME NEW t \in Threads, FinalizeBlock(t) PROVE Batches'
  BY <1>9 DEF FinalizeBlock, Acquire, waitVars, cpuVars, wakeVars
<1>10. ASSUME NEW t \in Threads, FinalizeEarly(t) PROVE Batches'
  BY <1>10 DEF FinalizeEarly, Acquire, waitVars, cpuVars, wakeVars
<1>11. ASSUME NEW t \in Threads, FinalizeNote(t) PROVE Batches'
  BY <1>11 DEF FinalizeNote, NotePending, Claimable, waitVars, cpuVars, wakeVars
<1>12. ASSUME NEW t \in Threads, FinalizeDone(t) PROVE Batches'
  BY <1>12 DEF FinalizeDone, NotePending, Claimable, TimerSet, NotBefore, waitVars, cpuVars,
      wakeVars
<1>13. ASSUME NEW t \in Threads, FinalizeResume(t) PROVE Batches'
  BY <1>13 DEF FinalizeResume, waitVars, cpuVars, wakeVars
<1>14. ASSUME NEW w \in Wakers, UnblockCollect(w) PROVE Batches'
  <2>1. PICK q \in Queues, scanned \in SUBSET Threads, found \in SUBSET Threads : Scanned(w, q,
          scanned, found)
    BY <1>14, UnblockCollectFx
  <2> QED BY <2>1 DEF Scanned, Batches
<1>15. ASSUME NEW w \in Wakers, UnblockTake(w) PROVE Batches'
  <2>1. PICK t \in Threads : Taken(w, t)
    BY <1>15, UnblockTakeFx
  <2> QED BY <2>1 DEF Taken
<1>16. ASSUME NEW w \in Wakers, UnblockSubmit(w) PROVE Batches'
  <2>1. PICK t \in Threads : Submitted(w, t)
    BY <1>16, UnblockSubmitFx
  <2> QED BY <2>1 DEF Submitted
<1>17. ASSUME NEW w \in Wakers, SendNoteCas(w) PROVE Batches'
  BY <1>17 DEF SendNoteCas, Claimable, waitVars, cpuVars, wakeVars
<1>18. ASSUME NEW w \in Wakers, NEW t \in Threads, SendNote(w, t) PROVE Batches'
  BY <1>18 DEF SendNote, waitVars, cpuVars, wakeVars
<1>19. ASSUME NEW c \in Cpus, TimerInterrupt(c) PROVE Batches'
  BY <1>19 DEF TimerInterrupt, Acquire, waitVars, cpuVars, wakeVars
<1>20. ASSUME NEW c \in Cpus, OtherInterrupt(c) PROVE Batches'
  BY <1>20 DEF OtherInterrupt, Acquire, waitVars, cpuVars, wakeVars
<1>21. ASSUME NEW c \in Cpus, ScanEnd(c) PROVE Batches'
  BY <1>21 DEF ScanEnd, TimerSet, NotBefore, waitVars, cpuVars, wakeVars
<1>22. ASSUME NEW c \in Cpus, ScanExpired(c) PROVE Batches'
  <2>1. PICK t \in Threads : TimedOut(c, t)
    BY <1>22, ScanExpiredFx
  <2> QED BY <2>1 DEF TimedOut
<1>23. ASSUME NEW c \in Cpus, ExpireSubmit(c) PROVE Batches'
  <2>1. PICK t \in Threads : Resubmitted(c, t)
    BY <1>23, ExpireSubmitFx
  <2> QED BY <2>1 DEF Resubmitted
<1>24. ASSUME NEW t \in Threads, PrepareLock(t) \/ HandleNote(t)
      PROVE  Batches'
  BY <1>1, <1>24 DEF PrepareLock, HandleNote, waitVars, cpuVars, wakeVars
<1>25. ASSUME NEW w \in Wakers, UnblockStart(w)
      PROVE  Batches'
  BY <1>1, <1>25 DEF UnblockStart, waitVars, cpuVars, wakeVars
<1>26. ASSUME NEW a \in Agents, RemoveEntry(a)
      PROVE  Batches'
  BY <1>1, <1>26 DEF RemoveEntry, waitVars, cpuVars, wakeVars
<1>27. ASSUME Tick
      PROVE  Batches'
  BY <1>1, <1>27 DEF Tick, waitVars, cpuVars, wakeVars
<1>28. CASE UNCHANGED vars
  BY <1>1, <1>28 DEF vars, waitVars, cpuVars, wakeVars
<1>29. ASSUME NEW t \in Threads, PrepareNoMem(t) PROVE FALSE
  BY <1>29 DEF PrepareNoMem
<1> QED BY <1>1, <1>2, <1>3, <1>4, <1>5, <1>6, <1>7, <1>8, <1>9, <1>10, <1>11, <1>12, <1>13,
           <1>14, <1>15, <1>16, <1>17, <1>18, <1>19, <1>20, <1>21, <1>22, <1>23, <1>24, <1>25,
           <1>26, <1>27, <1>28, <1>29
  DEF Next, ThreadStep, WakerStep, CpuStep

\* Every step preserves ClaimedOnce.
LEMMA ClaimedOnceStep == Sensible /\ ~AllocMayFail /\ Inv /\ [Next]_vars => ClaimedOnce'
<1> SUFFICES ASSUME Apart, Sensible, ~AllocMayFail, Inv, [Next]_vars,
                    PcType, ThreadType, EntryType, CpuType, WakeType, Placed, Entered, Removes,
                            OneRemoves, Collected, Locked, Listed
             PROVE  ClaimedOnce'
  BY SensibleApart DEF Inv, TypeOK
<1> USE DEF Apart, Agents, PcType, WakeType, Collected, ClaimedOnce
<1>1. ASSUME UNCHANGED <<batch, pc>> PROVE ClaimedOnce'
  BY <1>1
<1>2. ASSUME NEW t \in Threads, PrepareStart(t) PROVE ClaimedOnce'
  BY <1>2 DEF PrepareStart, waitVars, cpuVars, wakeVars
<1>3. ASSUME NEW t \in Threads, PreparePush(t) PROVE ClaimedOnce'
  BY <1>3 DEF PreparePush, Deadline, waitVars, cpuVars, wakeVars
<1>4. ASSUME NEW t \in Threads, PrepareCas(t) PROVE ClaimedOnce'
  BY <1>4 DEF PrepareCas, waitVars, cpuVars, wakeVars
<1>5. ASSUME NEW t \in Threads, Cancel(t) PROVE ClaimedOnce'
  BY <1>5 DEF Cancel, waitVars, cpuVars, wakeVars
<1>6. ASSUME NEW t \in Threads, CommitEarly(t) PROVE ClaimedOnce'
  BY <1>6 DEF CommitEarly, waitVars, cpuVars, wakeVars
<1>7. ASSUME NEW t \in Threads, CommitBlock(t) PROVE ClaimedOnce'
  BY <1>7 DEF CommitBlock, waitVars, cpuVars, wakeVars
<1>8. ASSUME NEW t \in Threads, ResumeSelf(t) PROVE ClaimedOnce'
  BY <1>8 DEF ResumeSelf, waitVars, cpuVars, wakeVars
<1>9. ASSUME NEW t \in Threads, FinalizeBlock(t) PROVE ClaimedOnce'
  BY <1>9 DEF FinalizeBlock, Acquire, waitVars, cpuVars, wakeVars
<1>10. ASSUME NEW t \in Threads, FinalizeEarly(t) PROVE ClaimedOnce'
  BY <1>10 DEF FinalizeEarly, Acquire, waitVars, cpuVars, wakeVars
<1>11. ASSUME NEW t \in Threads, FinalizeNote(t) PROVE ClaimedOnce'
  BY <1>11 DEF FinalizeNote, NotePending, Claimable, waitVars, cpuVars, wakeVars
<1>12. ASSUME NEW t \in Threads, FinalizeDone(t) PROVE ClaimedOnce'
  BY <1>12 DEF FinalizeDone, NotePending, Claimable, TimerSet, NotBefore, waitVars, cpuVars,
      wakeVars
<1>13. ASSUME NEW t \in Threads, FinalizeResume(t) PROVE ClaimedOnce'
  BY <1>13 DEF FinalizeResume, waitVars, cpuVars, wakeVars
<1>14. ASSUME NEW w \in Wakers, UnblockCollect(w) PROVE ClaimedOnce'
  <2>1. PICK q \in Queues, scanned \in SUBSET Threads, found \in SUBSET Threads : Scanned(w, q,
          scanned, found)
    BY <1>14, UnblockCollectFx
  <2> QED BY <2>1 DEF Scanned, Claimed, Batches
<1>15. ASSUME NEW w \in Wakers, UnblockTake(w) PROVE ClaimedOnce'
  <2>1. PICK t \in Threads : Taken(w, t)
    BY <1>15, UnblockTakeFx
  <2>2. \A v \in Wakers : (\A u \in Threads : u \in batch'[v] => u \in batch[v]) /\
          (pc'[v] \in {"collected", "taken"} => pc[v] \in {"collected", "taken"})
    BY <2>1 DEF Taken
  <2> QED BY <2>2
<1>16. ASSUME NEW w \in Wakers, UnblockSubmit(w) PROVE ClaimedOnce'
  <2>1. PICK t \in Threads : Submitted(w, t)
    BY <1>16, UnblockSubmitFx
  <2> QED BY <2>1 DEF Submitted
<1>17. ASSUME NEW w \in Wakers, SendNoteCas(w) PROVE ClaimedOnce'
  BY <1>17 DEF SendNoteCas, Claimable, Claimed, Batches, waitVars, cpuVars, wakeVars
<1>18. ASSUME NEW w \in Wakers, NEW t \in Threads, SendNote(w, t) PROVE ClaimedOnce'
  BY <1>18 DEF SendNote, waitVars, cpuVars, wakeVars
<1>19. ASSUME NEW c \in Cpus, TimerInterrupt(c) PROVE ClaimedOnce'
  BY <1>19 DEF TimerInterrupt, Acquire, waitVars, cpuVars, wakeVars
<1>20. ASSUME NEW c \in Cpus, OtherInterrupt(c) PROVE ClaimedOnce'
  BY <1>20 DEF OtherInterrupt, Acquire, waitVars, cpuVars, wakeVars
<1>21. ASSUME NEW c \in Cpus, ScanEnd(c) PROVE ClaimedOnce'
  BY <1>21 DEF ScanEnd, TimerSet, NotBefore, waitVars, cpuVars, wakeVars
<1>22. ASSUME NEW c \in Cpus, ScanExpired(c) PROVE ClaimedOnce'
  <2>1. PICK t \in Threads : TimedOut(c, t)
    BY <1>22, ScanExpiredFx
  <2> QED BY <2>1 DEF TimedOut
<1>23. ASSUME NEW c \in Cpus, ExpireSubmit(c) PROVE ClaimedOnce'
  <2>1. PICK t \in Threads : Resubmitted(c, t)
    BY <1>23, ExpireSubmitFx
  <2> QED BY <2>1 DEF Resubmitted
<1>24. ASSUME NEW t \in Threads, PrepareLock(t) \/ HandleNote(t)
      PROVE  ClaimedOnce'
  BY <1>1, <1>24 DEF PrepareLock, HandleNote, waitVars, cpuVars, wakeVars
<1>25. ASSUME NEW w \in Wakers, UnblockStart(w)
      PROVE  ClaimedOnce'
  BY <1>1, <1>25 DEF UnblockStart, waitVars, cpuVars, wakeVars
<1>26. ASSUME NEW a \in Agents, RemoveEntry(a)
      PROVE  ClaimedOnce'
  BY <1>1, <1>26 DEF RemoveEntry, waitVars, cpuVars, wakeVars
<1>27. ASSUME Tick
      PROVE  ClaimedOnce'
  BY <1>1, <1>27 DEF Tick, waitVars, cpuVars, wakeVars
<1>28. CASE UNCHANGED vars
  BY <1>1, <1>28 DEF vars, waitVars, cpuVars, wakeVars
<1>29. ASSUME NEW t \in Threads, PrepareNoMem(t) PROVE FALSE
  BY <1>29 DEF PrepareNoMem
<1> QED BY <1>1, <1>2, <1>3, <1>4, <1>5, <1>6, <1>7, <1>8, <1>9, <1>10, <1>11, <1>12, <1>13,
           <1>14, <1>15, <1>16, <1>17, <1>18, <1>19, <1>20, <1>21, <1>22, <1>23, <1>24, <1>25,
           <1>26, <1>27, <1>28, <1>29
  DEF Next, ThreadStep, WakerStep, CpuStep

\* Every step preserves Claimed.
LEMMA ClaimedStep == Sensible /\ ~AllocMayFail /\ Inv /\ [Next]_vars => Claimed'
<1> SUFFICES ASSUME Apart, Sensible, ~AllocMayFail, Inv, [Next]_vars,
                    PcType, ThreadType, EntryType, CpuType, WakeType, Placed, Entered, Removes,
                            OneRemoves, Collected, Locked, Listed
             PROVE  Claimed'
  BY SensibleApart DEF Inv, TypeOK
<1> USE DEF Apart, Agents, PcType, ThreadType, WakeType, Collected, Claimed
<1>1. ASSUME UNCHANGED <<batch, pc, state, owner, removing>> PROVE Claimed'
  BY <1>1
<1>2. ASSUME NEW t \in Threads, PrepareStart(t) PROVE Claimed'
  BY <1>2 DEF PrepareStart, waitVars, cpuVars, wakeVars
<1>3. ASSUME NEW t \in Threads, PreparePush(t) PROVE Claimed'
  BY <1>3 DEF PreparePush, Deadline, waitVars, cpuVars, wakeVars
<1>4. ASSUME NEW t \in Threads, PrepareCas(t) PROVE Claimed'
  BY <1>4 DEF PrepareCas, waitVars, cpuVars, wakeVars
<1>5. ASSUME NEW t \in Threads, Cancel(t) PROVE Claimed'
  BY <1>5 DEF Cancel, waitVars, cpuVars, wakeVars
<1>6. ASSUME NEW t \in Threads, CommitEarly(t) PROVE Claimed'
  BY <1>6 DEF CommitEarly, waitVars, cpuVars, wakeVars
<1>7. ASSUME NEW t \in Threads, CommitBlock(t) PROVE Claimed'
  BY <1>7 DEF CommitBlock, waitVars, cpuVars, wakeVars
<1>8. ASSUME NEW t \in Threads, ResumeSelf(t) PROVE Claimed'
  BY <1>8 DEF ResumeSelf, waitVars, cpuVars, wakeVars
<1>9. ASSUME NEW t \in Threads, FinalizeBlock(t) PROVE Claimed'
  BY <1>9 DEF FinalizeBlock, Acquire, waitVars, cpuVars, wakeVars
<1>10. ASSUME NEW t \in Threads, FinalizeEarly(t) PROVE Claimed'
  BY <1>10 DEF FinalizeEarly, Acquire, waitVars, cpuVars, wakeVars
<1>11. ASSUME NEW t \in Threads, FinalizeNote(t) PROVE Claimed'
  BY <1>11 DEF FinalizeNote, NotePending, Claimable, waitVars, cpuVars, wakeVars
<1>12. ASSUME NEW t \in Threads, FinalizeDone(t) PROVE Claimed'
  BY <1>12 DEF FinalizeDone, NotePending, Claimable, TimerSet, NotBefore, waitVars, cpuVars,
      wakeVars
<1>13. ASSUME NEW t \in Threads, FinalizeResume(t) PROVE Claimed'
  BY <1>13 DEF FinalizeResume, waitVars, cpuVars, wakeVars
<1>14. ASSUME NEW w \in Wakers, UnblockCollect(w) PROVE Claimed'
  <2>1. PICK q \in Queues, scanned \in SUBSET Threads, found \in SUBSET Threads : Scanned(w, q,
          scanned, found)
    BY <1>14, UnblockCollectFx
  <2>2. \A u \in Threads : state[u] = "blocked" =>
               pc[u] \in {"fin_note", "off"} /\ owner[u] \in Cpus /\ \A a \in Agents :
                       removing[a] # u
    BY DEF Removes, Removers, Placed, Listed, BlockedListed, ThreadPcs
  <2> QED BY <2>1, <2>2 DEF Scanned
<1>15. ASSUME NEW w \in Wakers, UnblockTake(w) PROVE Claimed'
  <2>1. PICK t \in Threads : Taken(w, t)
    BY <1>15, UnblockTakeFx
  <2> QED BY <2>1 DEF Taken
<1>16. ASSUME NEW w \in Wakers, UnblockSubmit(w) PROVE Claimed'
  <2>1. PICK t \in Threads : Submitted(w, t)
    BY <1>16, UnblockSubmitFx
  <2>2. \A v \in Wakers : batch'[v] = batch[v] /\ (pc'[v] \in {"collected", "taken"} =>
          pc[v] \in {"collected", "taken"})
    BY <2>1 DEF Submitted
  <2>3. \A u \in Threads : u # t => state'[u] = state[u] /\ pc'[u] = pc[u] /\ owner'[u] = owner[u]
    BY <2>1 DEF Submitted
  <2>4. ASSUME NEW a \in Agents, NEW u \in Threads, removing'[a] = u PROVE removing[a] = u
    BY <2>1, <2>4 DEF Submitted
  <2>5. \A v \in Wakers : pc[v] \in {"collected", "taken"} => t \notin batch[v]
    BY <2>1 DEF Submitted
  <2> QED BY <2>2, <2>3, <2>4, <2>5
<1>17. ASSUME NEW w \in Wakers, SendNoteCas(w) PROVE Claimed'
  <2>2. \A u \in Threads : state[u] = "blocked" =>
               pc[u] \in {"fin_note", "off"} /\ owner[u] \in Cpus /\ \A a \in Agents :
                       removing[a] # u
    BY DEF Removes, Removers, Placed, Listed, BlockedListed, ThreadPcs
  <2> QED BY <1>17, <2>2 DEF SendNoteCas, Claimable, Batches, waitVars
<1>18. ASSUME NEW w \in Wakers, NEW t \in Threads, SendNote(w, t) PROVE Claimed'
  BY <1>18 DEF SendNote, waitVars, cpuVars, wakeVars
<1>19. ASSUME NEW c \in Cpus, TimerInterrupt(c) PROVE Claimed'
  BY <1>19 DEF TimerInterrupt, Acquire, waitVars, cpuVars, wakeVars
<1>20. ASSUME NEW c \in Cpus, OtherInterrupt(c) PROVE Claimed'
  BY <1>20 DEF OtherInterrupt, Acquire, waitVars, cpuVars, wakeVars
<1>21. ASSUME NEW c \in Cpus, ScanEnd(c) PROVE Claimed'
  BY <1>21 DEF ScanEnd, TimerSet, NotBefore, waitVars, cpuVars, wakeVars
<1>22. ASSUME NEW c \in Cpus, ScanExpired(c) PROVE Claimed'
  <2>1. PICK t \in Threads : TimedOut(c, t)
    BY <1>22, ScanExpiredFx
  <2> QED BY <2>1 DEF TimedOut
<1>23. ASSUME NEW c \in Cpus, ExpireSubmit(c) PROVE Claimed'
  <2>1. PICK t \in Threads : Resubmitted(c, t)
    BY <1>23, ExpireSubmitFx
  <2>2. \A v \in Wakers : batch'[v] = batch[v] /\ (pc'[v] \in {"collected", "taken"} =>
          pc[v] \in {"collected", "taken"})
    BY <2>1 DEF Resubmitted
  <2>3. \A u \in Threads : u # t => state'[u] = state[u] /\ pc'[u] = pc[u] /\ owner'[u] = owner[u]
    BY <2>1 DEF Resubmitted
  <2>4. ASSUME NEW a \in Agents, NEW u \in Threads, removing'[a] = u PROVE removing[a] = u
    BY <2>1, <2>4 DEF Resubmitted
  <2>5. \A v \in Wakers : pc[v] \in {"collected", "taken"} => t \notin batch[v]
    BY <2>1 DEF Resubmitted
  <2> QED BY <2>2, <2>3, <2>4, <2>5
<1>24. ASSUME NEW t \in Threads, PrepareLock(t) \/ HandleNote(t)
      PROVE  Claimed'
  BY <1>1, <1>24 DEF PrepareLock, HandleNote, waitVars, cpuVars, wakeVars
<1>25. ASSUME NEW w \in Wakers, UnblockStart(w)
      PROVE  Claimed'
  BY <1>1, <1>25 DEF UnblockStart, waitVars, cpuVars, wakeVars
<1>26. ASSUME NEW a \in Agents, RemoveEntry(a)
      PROVE  Claimed'
  BY <1>1, <1>26 DEF RemoveEntry, waitVars, cpuVars, wakeVars
<1>27. ASSUME Tick
      PROVE  Claimed'
  BY <1>1, <1>27 DEF Tick, waitVars, cpuVars, wakeVars
<1>28. CASE UNCHANGED vars
  BY <1>1, <1>28 DEF vars, waitVars, cpuVars, wakeVars
<1>29. ASSUME NEW t \in Threads, PrepareNoMem(t) PROVE FALSE
  BY <1>29 DEF PrepareNoMem
<1> QED BY <1>1, <1>2, <1>3, <1>4, <1>5, <1>6, <1>7, <1>8, <1>9, <1>10, <1>11, <1>12, <1>13,
           <1>14, <1>15, <1>16, <1>17, <1>18, <1>19, <1>20, <1>21, <1>22, <1>23, <1>24, <1>25,
           <1>26, <1>27, <1>28, <1>29
  DEF Next, ThreadStep, WakerStep, CpuStep

-----------------------------------------------------------------------------
(* The invariant *)

\* The invariant holds initially.
LEMMA InvInit == Sensible /\ Init => Inv
<1> SUFFICES ASSUME Apart, Sensible, Init PROVE Inv
  BY SensibleApart
<1> USE DEF Apart, Agents, Init
<1>1. PcType
  BY DEF PcType, ThreadPcs, CpuPcs, WakerPcs
<1>2. ThreadType
  BY DEF ThreadType, States, Errs
<1>3. EntryType
  <2>1. qs \in [Threads -> Seq(Queues)] /\ held \in [Threads -> Nat] /\
          queue \in [Queues -> SUBSET Threads]
    OBVIOUS
  <2>2. \A t \in Threads : held[t] <= Len(qs[t])
    OBVIOUS
  <2> QED BY <2>1, <2>2 DEF EntryType
<1>4. CpuType
  BY DEF CpuType, Sensible
<1>5. WakeType
  BY DEF WakeType, NoReq, Reqs, Errs
<1>6. Placed /\ Entered
  BY DEF Placed, Entered
<1>7. Removes /\ OneRemoves
  BY DEF Removes, Removers, SelfRemoves, AgentsRemove, OneRemoves
<1>8. Collected
  BY DEF Collected, Claimed, ClaimedOnce, Batches
<1>9. Locked /\ Listed
  BY DEF Locked, LockedByThread, LockedByCpu, LockedByWaker, Listed, BlockedListed, ListedOwned,
          GoneUnlisted
<1> QED BY <1>1, <1>2, <1>3, <1>4, <1>5, <1>6, <1>7, <1>8, <1>9 DEF Inv, TypeOK

\* Every step preserves the invariant.
LEMMA InvStep == Sensible /\ ~AllocMayFail /\ Inv /\ [Next]_vars => Inv'
  BY PcStep, ThreadTypeStep, EntryTypeStep, CpuTypeStep, WakeTypeStep, PlacedStep, EnteredStep,
     OneRemovesStep, RemoversStep, SelfRemovesStep, AgentsRemoveStep, LockedByThreadStep,
     LockedByCpuStep, LockedByWakerStep, BlockedListedStep, ListedOwnedStep, GoneUnlistedStep,
     BatchesStep, ClaimedOnceStep, ClaimedStep
  DEF Inv, TypeOK, Removes, Locked, Listed, Collected

\* Whoever handles a thread does so alone, and the thread is unblocking.
LEMMA InvExclusive == Sensible /\ Inv => ExclusiveUnblocker
<1> SUFFICES ASSUME Apart, Sensible, Inv, NEW t \in Threads
             PROVE  /\ \A a, b \in Agents : Handles(a, t) /\ Handles(b, t) => a = b
                    /\ \A a \in Agents : Handles(a, t) => state[t] = "unblocking"
                    /\ pc[t] = "pushed" => state[t] \in {"active", "unblocking"}
                    /\ pc[t] \in {"prepared", "committed"} => state[t] \in {"pre_block",
                            "unblocking"}
  BY SensibleApart DEF ExclusiveUnblocker
<1>1. Claimed /\ ClaimedOnce /\ Removers /\ OneRemoves /\ Placed /\ WakeType
  BY DEF Inv, TypeOK, Collected, Removes
<1>2. ASSUME NEW a \in Agents, NEW b \in Agents, Handles(a, t), Handles(b, t) PROVE a = b
  BY <1>1, <1>2 DEF Handles, Claimed, ClaimedOnce, OneRemoves
<1>3. ASSUME NEW a \in Agents, Handles(a, t) PROVE state[t] = "unblocking"
  BY <1>1, <1>3 DEF Handles, Claimed, Removers, Placed
<1>4. /\ pc[t] = "pushed" => state[t] \in {"active", "unblocking"}
      /\ pc[t] \in {"prepared", "committed"} => state[t] \in {"pre_block", "unblocking"}
  BY <1>1 DEF Placed
<1> QED BY <1>2, <1>3, <1>4

\* The lists name the owners, and only the thread itself removes its entries while it runs.
LEMMA InvListed == Sensible /\ Inv => ListedOnOwner
<1> SUFFICES ASSUME Apart, Inv PROVE ListedOnOwner
  BY SensibleApart
<1>1. Removers /\ Listed
  BY DEF Inv, Removes
<1> QED BY <1>1 DEF ListedOnOwner, Removers, Listed, BlockedListed, ListedOwned, Apart

\* Entries are made after the locks are taken and are gone before the thread runs.
LEMMA InvEntered == Inv => NoStaleEntry
  BY DEF Inv, Entered, NoStaleEntry

-----------------------------------------------------------------------------
(* Notes and timeouts *)

\* A waker never reports a timeout.
NoTimeoutReported == \A w \in Wakers : wreq[w].err # "ETIMEDOUT"

\* A timer is never armed for later than CLOCKS_NEVER.
TimerBounded == \A c \in Cpus : timer[c] <= Never

TimeInv == Inv /\ NoTimeoutReported /\ TimerBounded /\ NoLostNote /\ NoEarlyTimeout /\ TimerCovers

\* Nothing is blocked and no timer armed initially.
LEMMA TimeInit == Sensible /\ Init => TimeInv
<1> SUFFICES ASSUME Sensible, Init, Inv PROVE TimeInv
  BY InvInit
<1>1. NoTimeoutReported
  BY DEF NoTimeoutReported, Init, NoReq
<1>2. TimerBounded
  BY DEF TimerBounded, Init, Sensible
<1>3. NoLostNote /\ NoEarlyTimeout /\ TimerCovers
  BY DEF NoLostNote, NoEarlyTimeout, TimerCovers, Init
<1> QED BY <1>1, <1>2, <1>3 DEF TimeInv

\* wait_unblock() and thread_send_note() report other errors.
LEMMA NoTimeoutReportedStep == Sensible /\ ~AllocMayFail /\ Inv /\ NoTimeoutReported /\
        [Next]_vars => NoTimeoutReported'
<1> SUFFICES ASSUME Apart, Sensible, ~AllocMayFail, Inv, [Next]_vars,
                    PcType, ThreadType, EntryType, CpuType, WakeType, Placed, Entered, Removes,
                            OneRemoves, Collected, Locked, Listed,
                    NoTimeoutReported
             PROVE  NoTimeoutReported'
  BY SensibleApart DEF Inv, TypeOK
<1> USE DEF WakeType, NoTimeoutReported, NoReq
<1>1. ASSUME UNCHANGED <<wreq>> PROVE NoTimeoutReported'
  BY <1>1
<1>2. ASSUME NEW w \in Wakers, UnblockStart(w) PROVE NoTimeoutReported'
  BY <1>2 DEF UnblockStart, waitVars, cpuVars, wakeVars
<1>3. ASSUME NEW w \in Wakers, UnblockCollect(w) PROVE NoTimeoutReported'
  BY <1>3 DEF UnblockCollect, waitVars, cpuVars, wakeVars
<1>4. ASSUME NEW w \in Wakers, UnblockSubmit(w) PROVE NoTimeoutReported'
  BY <1>4 DEF UnblockSubmit, Submit, waitVars, cpuVars, wakeVars
<1>5. ASSUME NEW w \in Wakers, SendNoteCas(w) PROVE NoTimeoutReported'
  BY <1>5 DEF SendNoteCas, Claimable, waitVars, cpuVars, wakeVars
<1>6. ASSUME NEW w \in Wakers, NEW t \in Threads, SendNote(w, t) PROVE NoTimeoutReported'
  BY <1>6 DEF SendNote, waitVars, cpuVars, wakeVars
<1>7. ASSUME NEW t \in Threads, PrepareStart(t) \/ PrepareLock(t) \/ PreparePush(t) \/
        PrepareCas(t) \/ Cancel(t) \/ CommitEarly(t) \/ CommitBlock(t) \/ ResumeSelf(t) \/
        FinalizeBlock(t) \/ FinalizeEarly(t) \/ FinalizeNote(t) \/ FinalizeDone(t) \/
        FinalizeResume(t) \/ HandleNote(t)
      PROVE  NoTimeoutReported'
  BY <1>1, <1>7 DEF PrepareStart, PrepareLock, PreparePush, PrepareCas, Cancel, CommitEarly,
      CommitBlock, ResumeSelf, FinalizeBlock, FinalizeEarly, FinalizeNote, FinalizeDone,
      FinalizeResume, HandleNote, Deadline, Acquire, NotePending, Claimable, TimerSet,
      NotBefore, waitVars, cpuVars, wakeVars
<1>8. ASSUME NEW w \in Wakers, UnblockTake(w)
      PROVE  NoTimeoutReported'
  BY <1>1, <1>8 DEF UnblockTake, Acquire, waitVars, cpuVars, wakeVars
<1>9. ASSUME NEW c \in Cpus, TimerInterrupt(c) \/ OtherInterrupt(c) \/ ScanEnd(c) \/
        ScanExpired(c) \/ ExpireSubmit(c)
      PROVE  NoTimeoutReported'
  BY <1>1, <1>9 DEF TimerInterrupt, OtherInterrupt, ScanEnd, ScanExpired, ExpireSubmit, Acquire,
      TimerSet, NotBefore, Claimable, Submit, waitVars, cpuVars, wakeVars
<1>10. ASSUME NEW a \in Agents, RemoveEntry(a)
      PROVE  NoTimeoutReported'
  BY <1>1, <1>10 DEF RemoveEntry, waitVars, cpuVars, wakeVars
<1>11. ASSUME Tick
      PROVE  NoTimeoutReported'
  BY <1>1, <1>11 DEF Tick, waitVars, cpuVars, wakeVars
<1>12. CASE UNCHANGED vars
  BY <1>1, <1>12 DEF vars, waitVars, cpuVars, wakeVars
<1>13. ASSUME NEW t \in Threads, PrepareNoMem(t) PROVE FALSE
  BY <1>13 DEF PrepareNoMem
<1> QED BY <1>1, <1>2, <1>3, <1>4, <1>5, <1>6, <1>7, <1>8, <1>9, <1>10, <1>11, <1>12, <1>13
  DEF Next, ThreadStep, WakerStep, CpuStep

\* Every step preserves NoLostNote.
LEMMA NoLostNoteStep == Sensible /\ ~AllocMayFail /\ Inv /\ NoLostNote /\ [Next]_vars =>
        NoLostNote'
<1> SUFFICES ASSUME Apart, Sensible, ~AllocMayFail, Inv, [Next]_vars,
                    PcType, ThreadType, EntryType, CpuType, WakeType, Placed, Entered, Removes,
                            OneRemoves, Collected, Locked, Listed,
                    NoLostNote
             PROVE  NoLostNote'
  BY SensibleApart DEF Inv, TypeOK
<1> USE DEF Apart, Agents, PcType, ThreadType, WakeType, NoLostNote
<1>1. ASSUME UNCHANGED <<note, pc, state, batch>> PROVE NoLostNote'
  BY <1>1
<1>2. ASSUME NEW t \in Threads, PrepareStart(t) PROVE NoLostNote'
  BY <1>2 DEF PrepareStart, waitVars, cpuVars, wakeVars
<1>3. ASSUME NEW t \in Threads, PreparePush(t) PROVE NoLostNote'
  BY <1>3 DEF PreparePush, Deadline, waitVars, cpuVars, wakeVars
<1>4. ASSUME NEW t \in Threads, PrepareCas(t) PROVE NoLostNote'
  BY <1>4 DEF PrepareCas, waitVars, cpuVars, wakeVars
<1>5. ASSUME NEW t \in Threads, Cancel(t) PROVE NoLostNote'
  BY <1>5 DEF Cancel, waitVars, cpuVars, wakeVars
<1>6. ASSUME NEW t \in Threads, CommitEarly(t) PROVE NoLostNote'
  BY <1>6 DEF CommitEarly, waitVars, cpuVars, wakeVars
<1>7. ASSUME NEW t \in Threads, CommitBlock(t) PROVE NoLostNote'
  BY <1>7 DEF CommitBlock, waitVars, cpuVars, wakeVars
<1>8. ASSUME NEW t \in Threads, ResumeSelf(t) PROVE NoLostNote'
  BY <1>8 DEF ResumeSelf, waitVars, cpuVars, wakeVars
<1>9. ASSUME NEW t \in Threads, FinalizeBlock(t) PROVE NoLostNote'
  BY <1>9 DEF FinalizeBlock, Acquire, waitVars, cpuVars, wakeVars
<1>10. ASSUME NEW t \in Threads, FinalizeEarly(t) PROVE NoLostNote'
  BY <1>10 DEF FinalizeEarly, Acquire, waitVars, cpuVars, wakeVars
<1>11. ASSUME NEW t \in Threads, FinalizeNote(t) PROVE NoLostNote'
  BY <1>11 DEF FinalizeNote, NotePending, Claimable, waitVars, cpuVars, wakeVars
<1>12. ASSUME NEW t \in Threads, FinalizeDone(t) PROVE NoLostNote'
  BY <1>12 DEF FinalizeDone, NotePending, Claimable, TimerSet, NotBefore, waitVars, cpuVars,
      wakeVars
<1>13. ASSUME NEW t \in Threads, FinalizeResume(t) PROVE NoLostNote'
  BY <1>13 DEF FinalizeResume, waitVars, cpuVars, wakeVars
<1>14. ASSUME NEW t \in Threads, HandleNote(t) PROVE NoLostNote'
  BY <1>14 DEF HandleNote, waitVars, cpuVars, wakeVars
<1>15. ASSUME NEW w \in Wakers, UnblockCollect(w) PROVE NoLostNote'
  <2>1. PICK q \in Queues, scanned \in SUBSET Threads, found \in SUBSET Threads : Scanned(w, q,
          scanned, found)
    BY <1>15, UnblockCollectFx
  <2> QED BY <2>1 DEF Scanned, Collected, Batches
<1>16. ASSUME NEW w \in Wakers, UnblockTake(w) PROVE NoLostNote'
  <2>1. PICK t \in Threads : Taken(w, t)
    BY <1>16, UnblockTakeFx
  <2> QED BY <2>1 DEF Taken
<1>17. ASSUME NEW w \in Wakers, UnblockSubmit(w) PROVE NoLostNote'
  <2>1. PICK t \in Threads : Submitted(w, t)
    BY <1>17, UnblockSubmitFx
  <2>2. \A u \in Threads : pc'[u] = "off" => state'[u] = state[u] /\ pc[u] = "off" /\
          note'[u] = note[u]
    BY <2>1 DEF Submitted
  <2>3. \A v \in Wakers : pc[v] = "noted" => pc'[v] = "noted" /\ batch'[v] = batch[v]
    BY <2>1 DEF Submitted
  <2> QED BY <2>2, <2>3
<1>18. ASSUME NEW w \in Wakers, SendNoteCas(w) PROVE NoLostNote'
  BY <1>18 DEF SendNoteCas, Claimable, Collected, Batches, waitVars, cpuVars, wakeVars
<1>19. ASSUME NEW w \in Wakers, NEW t \in Threads, SendNote(w, t) PROVE NoLostNote'
  BY <1>19 DEF SendNote, waitVars, cpuVars, wakeVars
<1>20. ASSUME NEW c \in Cpus, TimerInterrupt(c) PROVE NoLostNote'
  BY <1>20 DEF TimerInterrupt, Acquire, waitVars, cpuVars, wakeVars
<1>21. ASSUME NEW c \in Cpus, OtherInterrupt(c) PROVE NoLostNote'
  BY <1>21 DEF OtherInterrupt, Acquire, waitVars, cpuVars, wakeVars
<1>22. ASSUME NEW c \in Cpus, ScanEnd(c) PROVE NoLostNote'
  BY <1>22 DEF ScanEnd, TimerSet, NotBefore, waitVars, cpuVars, wakeVars
<1>23. ASSUME NEW c \in Cpus, ScanExpired(c) PROVE NoLostNote'
  <2>1. PICK t \in Threads : TimedOut(c, t)
    BY <1>23, ScanExpiredFx
  <2> QED BY <2>1 DEF TimedOut
<1>24. ASSUME NEW c \in Cpus, ExpireSubmit(c) PROVE NoLostNote'
  <2>1. PICK t \in Threads : Resubmitted(c, t)
    BY <1>24, ExpireSubmitFx
  <2>2. \A u \in Threads : pc'[u] = "off" => state'[u] = state[u] /\ pc[u] = "off" /\
          note'[u] = note[u]
    BY <2>1 DEF Resubmitted
  <2>3. \A v \in Wakers : pc[v] = "noted" => pc'[v] = "noted" /\ batch'[v] = batch[v]
    BY <2>1 DEF Resubmitted
  <2> QED BY <2>2, <2>3
<1>25. ASSUME NEW t \in Threads, PrepareLock(t)
      PROVE  NoLostNote'
  BY <1>1, <1>25 DEF PrepareLock, waitVars, cpuVars, wakeVars
<1>26. ASSUME NEW w \in Wakers, UnblockStart(w)
      PROVE  NoLostNote'
  BY <1>1, <1>26 DEF UnblockStart, waitVars, cpuVars, wakeVars
<1>27. ASSUME NEW a \in Agents, RemoveEntry(a)
      PROVE  NoLostNote'
  BY <1>1, <1>27 DEF RemoveEntry, waitVars, cpuVars, wakeVars
<1>28. ASSUME Tick
      PROVE  NoLostNote'
  BY <1>1, <1>28 DEF Tick, waitVars, cpuVars, wakeVars
<1>29. CASE UNCHANGED vars
  BY <1>1, <1>29 DEF vars, waitVars, cpuVars, wakeVars
<1>30. ASSUME NEW t \in Threads, PrepareNoMem(t) PROVE FALSE
  BY <1>30 DEF PrepareNoMem
<1> QED BY <1>1, <1>2, <1>3, <1>4, <1>5, <1>6, <1>7, <1>8, <1>9, <1>10, <1>11, <1>12, <1>13,
           <1>14, <1>15, <1>16, <1>17, <1>18, <1>19, <1>20, <1>21, <1>22, <1>23, <1>24, <1>25,
           <1>26, <1>27, <1>28, <1>29, <1>30
  DEF Next, ThreadStep, WakerStep, CpuStep

\* Every step preserves NoEarlyTimeout.
LEMMA NoEarlyTimeoutStep == Sensible /\ ~AllocMayFail /\ Inv /\ NoEarlyTimeout /\
        NoTimeoutReported /\ [Next]_vars => NoEarlyTimeout'
<1> SUFFICES ASSUME Apart, Sensible, ~AllocMayFail, Inv, [Next]_vars,
                    PcType, ThreadType, EntryType, CpuType, WakeType, Placed, Entered, Removes,
                            OneRemoves, Collected, Locked, Listed,
                    NoEarlyTimeout, NoTimeoutReported
             PROVE  NoEarlyTimeout'
  BY SensibleApart DEF Inv, TypeOK
<1> USE DEF ThreadType, CpuType, WakeType, NoEarlyTimeout
<1>1. ASSUME UNCHANGED <<err, deadline, uptime>> PROVE NoEarlyTimeout'
  BY <1>1
<1>2. ASSUME NEW t \in Threads, PreparePush(t) PROVE NoEarlyTimeout'
  BY <1>2 DEF PreparePush, Deadline, waitVars, cpuVars, wakeVars
<1>3. ASSUME NEW t \in Threads, Cancel(t) PROVE NoEarlyTimeout'
  BY <1>3 DEF Cancel, waitVars, cpuVars, wakeVars
<1>4. ASSUME NEW t \in Threads, CommitEarly(t) PROVE NoEarlyTimeout'
  BY <1>4 DEF CommitEarly, waitVars, cpuVars, wakeVars
<1>5. ASSUME NEW t \in Threads, FinalizeEarly(t) PROVE NoEarlyTimeout'
  BY <1>5 DEF FinalizeEarly, Acquire, waitVars, cpuVars, wakeVars
<1>6. ASSUME NEW t \in Threads, FinalizeNote(t) PROVE NoEarlyTimeout'
  BY <1>6 DEF FinalizeNote, NotePending, Claimable, waitVars, cpuVars, wakeVars
<1>7. ASSUME NEW w \in Wakers, UnblockTake(w) PROVE NoEarlyTimeout'
  <2>1. PICK t \in Threads : Taken(w, t)
    BY <1>7, UnblockTakeFx
  <2> QED BY <2>1 DEF Taken, NoTimeoutReported
<1>8. ASSUME NEW c \in Cpus, ScanExpired(c) PROVE NoEarlyTimeout'
  <2>1. PICK t \in Threads : TimedOut(c, t)
    BY <1>8, ScanExpiredFx
  <2> QED BY <2>1 DEF TimedOut
<1>9. ASSUME Tick PROVE NoEarlyTimeout'
  BY <1>9 DEF Tick, waitVars, cpuVars, wakeVars
<1>10. ASSUME NEW t \in Threads, PrepareStart(t) \/ PrepareLock(t) \/ PrepareCas(t) \/
        CommitBlock(t) \/ ResumeSelf(t) \/ FinalizeBlock(t) \/ FinalizeDone(t) \/
        FinalizeResume(t) \/ HandleNote(t)
      PROVE  NoEarlyTimeout'
  BY <1>1, <1>10 DEF PrepareStart, PrepareLock, PrepareCas, CommitBlock, ResumeSelf,
      FinalizeBlock, FinalizeDone, FinalizeResume, HandleNote, Acquire, NotePending, Claimable,
      TimerSet, NotBefore, waitVars, cpuVars, wakeVars
<1>11. ASSUME NEW w \in Wakers, UnblockStart(w) \/ UnblockCollect(w) \/ UnblockSubmit(w) \/
        SendNoteCas(w) \/ (\E t \in Threads : SendNote(w, t))
      PROVE  NoEarlyTimeout'
  BY <1>1, <1>11 DEF UnblockStart, UnblockCollect, UnblockSubmit, SendNoteCas, SendNote, Submit,
      Claimable, waitVars, cpuVars, wakeVars
<1>12. ASSUME NEW c \in Cpus, TimerInterrupt(c) \/ OtherInterrupt(c) \/ ScanEnd(c) \/
        ExpireSubmit(c)
      PROVE  NoEarlyTimeout'
  BY <1>1, <1>12 DEF TimerInterrupt, OtherInterrupt, ScanEnd, ExpireSubmit, Acquire, TimerSet,
      NotBefore, Submit, waitVars, cpuVars, wakeVars
<1>13. ASSUME NEW a \in Agents, RemoveEntry(a)
      PROVE  NoEarlyTimeout'
  BY <1>1, <1>13 DEF RemoveEntry, waitVars, cpuVars, wakeVars
<1>14. CASE UNCHANGED vars
  BY <1>1, <1>14 DEF vars, waitVars, cpuVars, wakeVars
<1>15. ASSUME NEW t \in Threads, PrepareNoMem(t) PROVE FALSE
  BY <1>15 DEF PrepareNoMem
<1> QED BY <1>1, <1>2, <1>3, <1>4, <1>5, <1>6, <1>7, <1>8, <1>9, <1>10, <1>11, <1>12, <1>13,
           <1>14, <1>15
  DEF Next, ThreadStep, WakerStep, CpuStep

\* timer_set() moves a timer only forward, and arms it no later than what it is called with.
LEMMA TimerSetFx ==
  ASSUME Sensible, CpuType, TimerBounded, NEW c \in Cpus, NEW d \in Nat
  PROVE  /\ \A e \in Cpus : TimerSet(c, d)[e] <= timer[e]
         /\ TimerSet(c, d)[c] <= NotBefore(d)
         /\ d <= NotBefore(d) /\ NotBefore(d) \in Nat
<1>1. d <= NotBefore(d) /\ NotBefore(d) \in Nat
  BY DEF NotBefore, Sensible, CpuType
<1>2. timer \in [Cpus -> Nat] /\ timer[c] <= Never /\ Never \in Nat
  BY DEF CpuType, TimerBounded, Sensible
<1> HIDE DEF NotBefore
<1> QED BY <1>1, <1>2 DEF TimerSet

\* Every step preserves TimerBounded.
LEMMA TimerBoundedStep == Sensible /\ ~AllocMayFail /\ Inv /\ TimerBounded /\ [Next]_vars =>
        TimerBounded'
<1> SUFFICES ASSUME Apart, Sensible, ~AllocMayFail, Inv, [Next]_vars,
                    PcType, ThreadType, EntryType, CpuType, WakeType, Placed, Entered, Removes,
                            OneRemoves, Collected, Locked, Listed,
                    TimerBounded
             PROVE  TimerBounded'
  BY SensibleApart DEF Inv, TypeOK
<1> USE DEF TimerBounded
<1>1. ASSUME UNCHANGED <<timer>> PROVE TimerBounded'
  BY <1>1
<1>2. ASSUME NEW t \in Threads, FinalizeDone(t) PROVE TimerBounded'
  <2>1. \A e \in Cpus : timer'[e] <= timer[e]
    BY <1>2, TimerSetFx DEF FinalizeDone, ThreadType, CpuType, LockedByThread, Locked
  <2>2. timer \in [Cpus -> Nat] /\ timer' \in [Cpus -> Nat] /\ Never \in Nat
    BY <1>2, CpuTypeStep DEF CpuType, Sensible
  <2> QED BY <2>1, <2>2
<1>3. ASSUME NEW c \in Cpus, TimerInterrupt(c) PROVE TimerBounded'
  BY <1>3 DEF TimerInterrupt, Acquire, CpuType, Sensible, waitVars, cpuVars, wakeVars
<1>4. ASSUME NEW c \in Cpus, ScanEnd(c) PROVE TimerBounded'
  <2>1. \A e \in Cpus : timer'[e] <= timer[e]
    BY <1>4, TimerSetFx DEF ScanEnd, ThreadType, CpuType
  <2>2. timer \in [Cpus -> Nat] /\ timer' \in [Cpus -> Nat] /\ Never \in Nat
    BY <1>4, CpuTypeStep DEF CpuType, Sensible
  <2> QED BY <2>1, <2>2
<1>5. ASSUME NEW t \in Threads, PrepareStart(t) \/ PrepareLock(t) \/ PreparePush(t) \/
        PrepareCas(t) \/ Cancel(t) \/ CommitEarly(t) \/ CommitBlock(t) \/ ResumeSelf(t) \/
        FinalizeBlock(t) \/ FinalizeEarly(t) \/ FinalizeNote(t) \/ FinalizeResume(t) \/
        HandleNote(t)
      PROVE  TimerBounded'
  BY <1>1, <1>5 DEF PrepareStart, PrepareLock, PreparePush, PrepareCas, Cancel, CommitEarly,
      CommitBlock, ResumeSelf, FinalizeBlock, FinalizeEarly, FinalizeNote, FinalizeResume,
      HandleNote, Deadline, Acquire, NotePending, Claimable, waitVars, cpuVars, wakeVars
<1>6. ASSUME NEW w \in Wakers, UnblockStart(w) \/ UnblockCollect(w) \/ UnblockTake(w) \/
        UnblockSubmit(w) \/ SendNoteCas(w) \/ (\E t \in Threads : SendNote(w, t))
      PROVE  TimerBounded'
  BY <1>1, <1>6 DEF UnblockStart, UnblockCollect, UnblockTake, UnblockSubmit, SendNoteCas,
      SendNote, Acquire, Submit, Claimable, waitVars, cpuVars, wakeVars
<1>7. ASSUME NEW c \in Cpus, OtherInterrupt(c) \/ ScanExpired(c) \/ ExpireSubmit(c)
      PROVE  TimerBounded'
  BY <1>1, <1>7 DEF OtherInterrupt, ScanExpired, ExpireSubmit, Acquire, Claimable, Submit,
      waitVars, cpuVars, wakeVars
<1>8. ASSUME NEW a \in Agents, RemoveEntry(a)
      PROVE  TimerBounded'
  BY <1>1, <1>8 DEF RemoveEntry, waitVars, cpuVars, wakeVars
<1>9. ASSUME Tick
      PROVE  TimerBounded'
  BY <1>1, <1>9 DEF Tick, waitVars, cpuVars, wakeVars
<1>10. CASE UNCHANGED vars
  BY <1>1, <1>10 DEF vars, waitVars, cpuVars, wakeVars
<1>11. ASSUME NEW t \in Threads, PrepareNoMem(t) PROVE FALSE
  BY <1>11 DEF PrepareNoMem
<1> QED BY <1>1, <1>2, <1>3, <1>4, <1>5, <1>6, <1>7, <1>8, <1>9, <1>10, <1>11
  DEF Next, ThreadStep, WakerStep, CpuStep

\* A step that adds nobody to a list and moves no timer back keeps the lists covered.
Keeps(e, u) ==
  u \in blocked'[e] /\ pc'[e] = "idle" /\ pc'[u] = "off" =>
    /\ u \in blocked[e] /\ pc[e] = "idle" /\ pc[u] = "off"
    /\ deadline'[u] = deadline[u] /\ timer'[e] <= timer[e]

\* The minimal timeout moves with the clock.
LEMMA LaterBound ==
  ASSUME NEW d \in Nat, NEW m \in Nat, NEW n \in Nat, NEW p \in Nat, n <= p
  PROVE  /\ (IF d < n + m THEN n + m ELSE d) <= (IF d < p + m THEN p + m ELSE d)
         /\ (IF d < n + m THEN n + m ELSE d) \in Nat
         /\ (IF d < p + m THEN p + m ELSE d) \in Nat
  OBVIOUS

\* Such a step preserves TimerCovers.
LEMMA CoversKept ==
  ASSUME Sensible, ThreadType, CpuType, CpuType', TimerCovers, uptime <= uptime',
         \A e \in Cpus, u \in Threads : Keeps(e, u)
  PROVE  TimerCovers'
<1> SUFFICES ASSUME NEW e \in Cpus, NEW u \in blocked'[e], pc'[e] = "idle", pc'[u] = "off"
             PROVE  timer'[e] <= NotBefore(deadline[u])'
  BY DEF TimerCovers
<1>1. u \in Threads
  BY DEF CpuType
<1>2. u \in blocked[e] /\ pc[e] = "idle" /\ pc[u] = "off" /\ deadline'[u] = deadline[u] /\
        timer'[e] <= timer[e]
  BY <1>1 DEF Keeps
<1> DEFINE d == deadline[u]
           At(now) == IF d < now + MinTimeout THEN now + MinTimeout ELSE d
<1>3. timer[e] <= At(uptime) /\ NotBefore(deadline[u])' = At(uptime')
  BY <1>2 DEF TimerCovers, NotBefore
<1>4. timer[e] \in Nat /\ timer'[e] \in Nat /\ uptime \in Nat /\ uptime' \in Nat /\
        MinTimeout \in Nat /\ d \in Nat
  BY <1>1 DEF ThreadType, CpuType, Sensible
<1> HIDE DEF d
<1>5. At(uptime) <= At(uptime') /\ At(uptime) \in Nat /\ At(uptime') \in Nat
  BY ONLY <1>4, uptime <= uptime', LaterBound DEF At
<1> HIDE DEF At
<1> QED BY <1>2, <1>3, <1>4, <1>5

\* Every step preserves TimerCovers.
LEMMA TimerCoversStep == Sensible /\ ~AllocMayFail /\ Inv /\ TimerBounded /\ TimerCovers /\
        [Next]_vars => TimerCovers'
<1> SUFFICES ASSUME Apart, Sensible, ~AllocMayFail, Inv, [Next]_vars,
                    PcType, ThreadType, EntryType, CpuType, WakeType, Placed, Entered, Removes,
                            OneRemoves, Collected, Locked, Listed,
                    TimerBounded, TimerCovers
             PROVE  TimerCovers'
  BY SensibleApart DEF Inv, TypeOK
<1> USE DEF Inv, TypeOK
<1>1. ASSUME UNCHANGED <<blocked, pc, timer, uptime, deadline>> PROVE TimerCovers'
  BY <1>1 DEF TimerCovers, NotBefore
<1>2. ASSUME NEW t \in Threads, PrepareStart(t) PROVE TimerCovers'
  <2>1. \A e \in Cpus, u \in Threads : Keeps(e, u)
    BY <1>2 DEF PrepareStart, cpuVars, waitVars, wakeVars, Keeps, PcType, CpuType, ThreadType,
            Apart, Agents
  <2>2. uptime <= uptime'
    BY <1>2 DEF PrepareStart, cpuVars, waitVars, wakeVars, CpuType
  <2> QED BY <2>1, <2>2, CpuTypeStep, CoversKept
<1>3. ASSUME NEW t \in Threads, PreparePush(t) PROVE TimerCovers'
  <2>1. \A e \in Cpus, u \in Threads : Keeps(e, u)
    BY <1>3 DEF PreparePush, Deadline, Listed, ListedOwned, cpuVars, waitVars, wakeVars, Keeps,
            PcType, CpuType, ThreadType, Apart, Agents
  <2>2. uptime <= uptime'
    BY <1>3 DEF PreparePush, Deadline, Listed, ListedOwned, cpuVars, waitVars, wakeVars, CpuType
  <2> QED BY <2>1, <2>2, CpuTypeStep, CoversKept
<1>4. ASSUME NEW t \in Threads, PrepareCas(t) PROVE TimerCovers'
  <2>1. \A e \in Cpus, u \in Threads : Keeps(e, u)
    BY <1>4 DEF PrepareCas, cpuVars, waitVars, wakeVars, Keeps, PcType, CpuType, ThreadType,
            Apart, Agents
  <2>2. uptime <= uptime'
    BY <1>4 DEF PrepareCas, cpuVars, waitVars, wakeVars, CpuType
  <2> QED BY <2>1, <2>2, CpuTypeStep, CoversKept
<1>5. ASSUME NEW t \in Threads, Cancel(t) PROVE TimerCovers'
  <2>1. \A e \in Cpus, u \in Threads : Keeps(e, u)
    BY <1>5 DEF Cancel, cpuVars, waitVars, wakeVars, Keeps, PcType, CpuType, ThreadType, Apart,
            Agents
  <2>2. uptime <= uptime'
    BY <1>5 DEF Cancel, cpuVars, waitVars, wakeVars, CpuType
  <2> QED BY <2>1, <2>2, CpuTypeStep, CoversKept
<1>6. ASSUME NEW t \in Threads, CommitEarly(t) PROVE TimerCovers'
  <2>1. \A e \in Cpus, u \in Threads : Keeps(e, u)
    BY <1>6 DEF CommitEarly, cpuVars, waitVars, wakeVars, Keeps, PcType, CpuType, ThreadType,
            Apart, Agents
  <2>2. uptime <= uptime'
    BY <1>6 DEF CommitEarly, cpuVars, waitVars, wakeVars, CpuType
  <2> QED BY <2>1, <2>2, CpuTypeStep, CoversKept
<1>7. ASSUME NEW t \in Threads, CommitBlock(t) PROVE TimerCovers'
  <2>1. \A e \in Cpus, u \in Threads : Keeps(e, u)
    BY <1>7 DEF CommitBlock, cpuVars, waitVars, wakeVars, Keeps, PcType, CpuType, ThreadType,
            Apart, Agents
  <2>2. uptime <= uptime'
    BY <1>7 DEF CommitBlock, cpuVars, waitVars, wakeVars, CpuType
  <2> QED BY <2>1, <2>2, CpuTypeStep, CoversKept
<1>8. ASSUME NEW t \in Threads, ResumeSelf(t) PROVE TimerCovers'
  <2>1. \A e \in Cpus, u \in Threads : Keeps(e, u)
    BY <1>8 DEF ResumeSelf, cpuVars, waitVars, wakeVars, Keeps, PcType, CpuType, ThreadType,
            Apart, Agents
  <2>2. uptime <= uptime'
    BY <1>8 DEF ResumeSelf, cpuVars, waitVars, wakeVars, CpuType
  <2> QED BY <2>1, <2>2, CpuTypeStep, CoversKept
<1>9. ASSUME NEW t \in Threads, FinalizeBlock(t) PROVE TimerCovers'
  <2>1. \A e \in Cpus, u \in Threads : Keeps(e, u)
    BY <1>9 DEF FinalizeBlock, Acquire, cpuVars, waitVars, wakeVars, Keeps, PcType, CpuType,
            ThreadType, Apart, Agents
  <2>2. uptime <= uptime'
    BY <1>9 DEF FinalizeBlock, Acquire, cpuVars, waitVars, wakeVars, CpuType
  <2> QED BY <2>1, <2>2, CpuTypeStep, CoversKept
<1>10. ASSUME NEW t \in Threads, FinalizeEarly(t) PROVE TimerCovers'
  <2>1. \A e \in Cpus, u \in Threads : Keeps(e, u)
    BY <1>10 DEF FinalizeEarly, Acquire, cpuVars, waitVars, wakeVars, Keeps, PcType, CpuType,
            ThreadType, Apart, Agents
  <2>2. uptime <= uptime'
    BY <1>10 DEF FinalizeEarly, Acquire, cpuVars, waitVars, wakeVars, CpuType
  <2> QED BY <2>1, <2>2, CpuTypeStep, CoversKept
<1>11. ASSUME NEW t \in Threads, FinalizeNote(t) PROVE TimerCovers'
  <2>1. \A e \in Cpus, u \in Threads : Keeps(e, u)
    BY <1>11 DEF FinalizeNote, NotePending, Claimable, cpuVars, waitVars, wakeVars, Keeps,
            PcType, CpuType, ThreadType, Apart, Agents
  <2>2. uptime <= uptime'
    BY <1>11 DEF FinalizeNote, NotePending, Claimable, cpuVars, waitVars, wakeVars, CpuType
  <2> QED BY <2>1, <2>2, CpuTypeStep, CoversKept
<1>12. ASSUME NEW t \in Threads, FinalizeDone(t) PROVE TimerCovers'
  <2>1. owner[t] \in Cpus /\ deadline[t] \in Nat
    BY <1>12 DEF FinalizeDone, Locked, LockedByThread, ThreadType
  <2>2. /\ \A e \in Cpus : timer'[e] <= timer[e]
        /\ timer'[owner[t]] <= NotBefore(deadline[t])
    BY <1>12, <2>1, TimerSetFx DEF FinalizeDone
  <2>3. UNCHANGED <<deadline, uptime, blocked, owner>> /\ \A a \in Agents : a # t =>
          pc'[a] = pc[a]
    BY <1>12 DEF FinalizeDone, waitVars, PcType, Agents
  <2>4. ASSUME NEW e \in Cpus, NEW u \in blocked'[e], pc'[e] = "idle", pc'[u] = "off"
        PROVE  timer'[e] <= NotBefore(deadline[u])'
    <3>1. u \in Threads /\ NotBefore(deadline[u])' = NotBefore(deadline[u]) /\
            NotBefore(deadline[u]) \in Nat
      BY <2>3, <2>4 DEF CpuType, ThreadType, NotBefore, Sensible
    <3>2. CASE u = t
      BY <2>2, <2>3, <2>4, <3>1, <3>2 DEF Listed, ListedOwned
    <3>3. CASE u # t
      <4>1. timer[e] <= NotBefore(deadline[u])
        BY <2>3, <2>4, <3>1, <3>3 DEF TimerCovers, Apart, Agents
      <4>2. timer[e] \in Nat /\ timer'[e] \in Nat /\ timer'[e] <= timer[e]
        BY <2>2, CpuTypeStep DEF CpuType
      <4> QED BY <3>1, <4>1, <4>2
    <3> QED BY <3>2, <3>3
  <2> QED BY <2>4 DEF TimerCovers
<1>13. ASSUME NEW t \in Threads, FinalizeResume(t) PROVE TimerCovers'
  <2>1. \A e \in Cpus, u \in Threads : Keeps(e, u)
    BY <1>13 DEF FinalizeResume, cpuVars, waitVars, wakeVars, Keeps, PcType, CpuType, ThreadType,
            Apart, Agents
  <2>2. uptime <= uptime'
    BY <1>13 DEF FinalizeResume, cpuVars, waitVars, wakeVars, CpuType
  <2> QED BY <2>1, <2>2, CpuTypeStep, CoversKept
<1>14. ASSUME NEW w \in Wakers, UnblockCollect(w) PROVE TimerCovers'
  <2>3. PICK q \in Queues, scanned \in SUBSET Threads, found \in SUBSET Threads : Scanned(w, q,
          scanned, found)
    BY <1>14, UnblockCollectFx
  <2>1. \A e \in Cpus, u \in Threads : Keeps(e, u)
    BY <2>3 DEF Scanned, Keeps, PcType, CpuType, ThreadType, Apart, Agents
  <2>2. uptime <= uptime'
    BY <2>3 DEF Scanned, CpuType
  <2> QED BY <2>1, <2>2, CpuTypeStep, CoversKept
<1>15. ASSUME NEW w \in Wakers, UnblockTake(w) PROVE TimerCovers'
  <2>3. PICK t \in Threads : Taken(w, t)
    BY <1>15, UnblockTakeFx
  <2>1. \A e \in Cpus, u \in Threads : Keeps(e, u)
    BY <2>3 DEF Taken, Keeps, PcType, CpuType, ThreadType, Apart, Agents
  <2>2. uptime <= uptime'
    BY <2>3 DEF Taken, CpuType
  <2> QED BY <2>1, <2>2, CpuTypeStep, CoversKept
<1>16. ASSUME NEW w \in Wakers, UnblockSubmit(w) PROVE TimerCovers'
  <2>3. PICK t \in Threads : Submitted(w, t)
    BY <1>16, UnblockSubmitFx
  <2>1. \A e \in Cpus, u \in Threads : Keeps(e, u)
    BY <2>3 DEF Submitted, GoneUnlisted, Listed, Keeps, PcType, CpuType, ThreadType, Apart, Agents
  <2>2. uptime <= uptime'
    BY <2>3 DEF Submitted, GoneUnlisted, Listed, CpuType
  <2> QED BY <2>1, <2>2, CpuTypeStep, CoversKept
<1>17. ASSUME NEW w \in Wakers, SendNoteCas(w) PROVE TimerCovers'
  <2>1. \A e \in Cpus, u \in Threads : Keeps(e, u)
    BY <1>17 DEF SendNoteCas, Claimable, cpuVars, waitVars, wakeVars, Keeps, PcType, CpuType,
            ThreadType, Apart, Agents
  <2>2. uptime <= uptime'
    BY <1>17 DEF SendNoteCas, Claimable, cpuVars, waitVars, wakeVars, CpuType
  <2> QED BY <2>1, <2>2, CpuTypeStep, CoversKept
<1>18. ASSUME NEW w \in Wakers, NEW t \in Threads, SendNote(w, t) PROVE TimerCovers'
  <2>1. \A e \in Cpus, u \in Threads : Keeps(e, u)
    BY <1>18 DEF SendNote, cpuVars, waitVars, wakeVars, Keeps, PcType, CpuType, ThreadType,
            Apart, Agents
  <2>2. uptime <= uptime'
    BY <1>18 DEF SendNote, cpuVars, waitVars, wakeVars, CpuType
  <2> QED BY <2>1, <2>2, CpuTypeStep, CoversKept
<1>19. ASSUME NEW c \in Cpus, TimerInterrupt(c) PROVE TimerCovers'
  <2>1. \A e \in Cpus, u \in Threads : Keeps(e, u)
    BY <1>19 DEF TimerInterrupt, Acquire, cpuVars, waitVars, wakeVars, Keeps, PcType, CpuType,
            ThreadType, Apart, Agents
  <2>2. uptime <= uptime'
    BY <1>19 DEF TimerInterrupt, Acquire, cpuVars, waitVars, wakeVars, CpuType
  <2> QED BY <2>1, <2>2, CpuTypeStep, CoversKept
<1>20. ASSUME NEW c \in Cpus, OtherInterrupt(c) PROVE TimerCovers'
  <2>1. \A e \in Cpus, u \in Threads : Keeps(e, u)
    BY <1>20 DEF OtherInterrupt, Acquire, cpuVars, waitVars, wakeVars, Keeps, PcType, CpuType,
            ThreadType, Apart, Agents
  <2>2. uptime <= uptime'
    BY <1>20 DEF OtherInterrupt, Acquire, cpuVars, waitVars, wakeVars, CpuType
  <2> QED BY <2>1, <2>2, CpuTypeStep, CoversKept
<1>21. ASSUME NEW c \in Cpus, ScanEnd(c) PROVE TimerCovers'
  <2>1. ASSUME NEW e \in Cpus, NEW u \in blocked'[e], pc'[e] = "idle", pc'[u] = "off"
        PROVE  timer'[e] <= NotBefore(deadline[u])'
    <3>1. /\ UNCHANGED <<deadline, uptime, blocked>> /\ pc[c] = "scan"
          /\ \A a \in Agents : a # c => pc'[a] = pc[a]
      BY <1>21 DEF ScanEnd, waitVars, PcType, Agents
    <3>2. u \in Threads /\ NotBefore(deadline[u])' = NotBefore(deadline[u]) /\
            NotBefore(deadline[u]) \in Nat /\ deadline[u] \in Nat
      BY <2>1, <3>1 DEF CpuType, ThreadType, NotBefore, Sensible
    <3>3. \A d \in Cpus : timer'[d] <= timer[d]
      BY <1>21, TimerSetFx DEF ScanEnd, ThreadType, CpuType
    <3>4. CASE e = c
      <4>1. PICK t \in Threads : First(c, t) /\ timer' = TimerSet(c, deadline[t])
        BY <1>21, <2>1, <3>1, <3>4 DEF ScanEnd
      <4>2. deadline[t] \in Nat /\ timer'[c] <= NotBefore(deadline[t])
        BY <4>1, TimerSetFx DEF ThreadType
      <4>3. deadline[t] <= deadline[u]
        BY <2>1, <3>1, <3>4, <4>1 DEF First
      <4>4. NotBefore(deadline[t]) <= NotBefore(deadline[u]) /\ NotBefore(deadline[t]) \in Nat
        BY <3>2, <4>2, <4>3 DEF NotBefore, CpuType, Sensible
      <4>5. timer'[c] \in Nat
        BY CpuTypeStep DEF CpuType
      <4> QED BY <3>2, <3>4, <4>2, <4>4, <4>5
    <3>5. CASE e # c
      <4>1. timer[e] <= NotBefore(deadline[u])
        BY <2>1, <3>1, <3>2, <3>5 DEF TimerCovers, Apart, Agents
      <4>2. timer[e] \in Nat /\ timer'[e] \in Nat /\ timer'[e] <= timer[e]
        BY <3>3, CpuTypeStep DEF CpuType
      <4> QED BY <3>2, <4>1, <4>2
    <3> QED BY <3>4, <3>5
  <2> QED BY <2>1 DEF TimerCovers
<1>22. ASSUME NEW c \in Cpus, ScanExpired(c) PROVE TimerCovers'
  <2>3. PICK t \in Threads : TimedOut(c, t)
    BY <1>22, ScanExpiredFx
  <2>1. \A e \in Cpus, u \in Threads : Keeps(e, u)
    BY <2>3 DEF TimedOut, Keeps, PcType, CpuType, ThreadType, Apart, Agents
  <2>2. uptime <= uptime'
    BY <2>3 DEF TimedOut, CpuType
  <2> QED BY <2>1, <2>2, CpuTypeStep, CoversKept
<1>23. ASSUME NEW c \in Cpus, ExpireSubmit(c) PROVE TimerCovers'
  <2>3. PICK t \in Threads : Resubmitted(c, t)
    BY <1>23, ExpireSubmitFx
  <2>1. \A e \in Cpus, u \in Threads : Keeps(e, u)
    BY <2>3 DEF Resubmitted, GoneUnlisted, Listed, Keeps, PcType, CpuType, ThreadType, Apart,
            Agents
  <2>2. uptime <= uptime'
    BY <2>3 DEF Resubmitted, GoneUnlisted, Listed, CpuType
  <2> QED BY <2>1, <2>2, CpuTypeStep, CoversKept
<1>24. ASSUME Tick PROVE TimerCovers'
  <2>1. \A e \in Cpus, u \in Threads : Keeps(e, u)
    BY <1>24 DEF Tick, cpuVars, waitVars, wakeVars, Keeps, PcType, CpuType, ThreadType, Apart,
            Agents
  <2>2. uptime <= uptime'
    BY <1>24 DEF Tick, cpuVars, waitVars, wakeVars, CpuType
  <2> QED BY <2>1, <2>2, CpuTypeStep, CoversKept
<1>25. ASSUME NEW t \in Threads, PrepareLock(t) \/ HandleNote(t)
      PROVE  TimerCovers'
  BY <1>1, <1>25 DEF PrepareLock, HandleNote, waitVars, cpuVars, wakeVars
<1>26. ASSUME NEW w \in Wakers, UnblockStart(w)
      PROVE  TimerCovers'
  BY <1>1, <1>26 DEF UnblockStart, waitVars, cpuVars, wakeVars
<1>27. ASSUME NEW a \in Agents, RemoveEntry(a)
      PROVE  TimerCovers'
  BY <1>1, <1>27 DEF RemoveEntry, waitVars, cpuVars, wakeVars
<1>28. CASE UNCHANGED vars
  BY <1>1, <1>28 DEF vars, waitVars, cpuVars, wakeVars
<1>29. ASSUME NEW t \in Threads, PrepareNoMem(t) PROVE FALSE
  BY <1>29 DEF PrepareNoMem
<1> QED BY <1>1, <1>2, <1>3, <1>4, <1>5, <1>6, <1>7, <1>8, <1>9, <1>10, <1>11, <1>12, <1>13,
           <1>14, <1>15, <1>16, <1>17, <1>18, <1>19, <1>20, <1>21, <1>22, <1>23, <1>24, <1>25,
           <1>26, <1>27, <1>28, <1>29
  DEF Next, ThreadStep, WakerStep, CpuStep


\* Every step preserves the invariant on notes and times.
LEMMA TimeStep == Sensible /\ ~AllocMayFail /\ TimeInv /\ [Next]_vars => TimeInv'
  BY InvStep, NoTimeoutReportedStep, TimerBoundedStep, NoLostNoteStep, NoEarlyTimeoutStep,
     TimerCoversStep DEF TimeInv

\* The steps that write the error of a thread that is off its CPU are the two that claim it.
LEMMA ErrStep ==
  ASSUME Sensible, ~AllocMayFail, Inv, [Next]_vars, NEW t \in Threads,
         err'[t] # err[t], pc[t] = "off"
  PROVE  \E a \in Agents \ {t} : removing'[a] = t /\ removing[a] # t
<1> DEFINE Claims == \E a \in Agents \ {t} : removing'[a] = t /\ removing[a] # t
<1> USE DEF Inv, TypeOK
<1>1. ASSUME NEW w \in Wakers, UnblockTake(w) PROVE Claims
  <2>1. PICK u \in Threads : Taken(w, u)
    BY <1>1, UnblockTakeFx
  <2>2. u = t /\ w \in Agents /\ w # t
    BY <2>1, SensibleApart DEF Taken, ThreadType, Apart, Agents
  <2> QED BY <2>1, <2>2 DEF Taken, WakeType
<1>2. ASSUME NEW c \in Cpus, ScanExpired(c) PROVE Claims
  <2>1. PICK u \in Threads : TimedOut(c, u)
    BY <1>2, ScanExpiredFx
  <2>2. u = t /\ c \in Agents /\ c # t
    BY <2>1, SensibleApart DEF TimedOut, ThreadType, Apart, Agents
  <2>3. err' # err
    OBVIOUS
  <2> QED BY <2>1, <2>2, <2>3 DEF TimedOut, WakeType
<1> HIDE DEF Claims
<1>3. ASSUME NEW u \in Threads, ThreadStep(u) PROVE Claims
  BY <1>3 DEF ThreadType, ThreadStep, PrepareStart, PrepareLock, PreparePush, PrepareNoMem,
     PrepareCas, Cancel, CommitEarly, CommitBlock, ResumeSelf, FinalizeBlock, FinalizeEarly,
     FinalizeNote, FinalizeDone, FinalizeResume, HandleNote, waitVars
<1>4. ASSUME NEW w \in Wakers, WakerStep(w) PROVE Claims
  BY <1>1, <1>4 DEF WakerStep, UnblockStart, UnblockCollect, UnblockSubmit, SendNoteCas,
          SendNote, waitVars
<1>5. ASSUME NEW c \in Cpus, CpuStep(c) PROVE Claims
  BY <1>2, <1>5 DEF CpuStep, TimerInterrupt, OtherInterrupt, ScanEnd, ExpireSubmit, waitVars
<1>6. CASE Tick \/ (\E a \in Agents : RemoveEntry(a)) \/ UNCHANGED vars
  BY <1>6 DEF Tick, RemoveEntry, waitVars, vars
<1> QED BY <1>3, <1>4, <1>5, <1>6 DEF Next, Claims

-----------------------------------------------------------------------------
(* The theorems *)

\* The variables keep their types, whatever the interleaving.
THEOREM TypeCorrect == Sensible /\ ~AllocMayFail => (Spec => []TypeOK)
<1> SUFFICES ASSUME Sensible, ~AllocMayFail PROVE Spec => []TypeOK
  OBVIOUS
<1>1. Init => Inv
  BY InvInit
<1>2. Inv /\ [Next]_vars => Inv'
  BY InvStep
<1>3. Inv => TypeOK
  BY DEF Inv
<1> QED BY <1>1, <1>2, <1>3, PTL DEF Spec

\* A wait is ended by one agent: of a waker, a timeout, the sender of a note and the
\* thread itself only the one whose exchange of the state succeeds removes the entries
\* and submits the thread.
THEOREM OneUnblocker == Sensible /\ ~AllocMayFail => (Spec => []ExclusiveUnblocker)
<1> SUFFICES ASSUME Sensible, ~AllocMayFail PROVE Spec => []ExclusiveUnblocker
  OBVIOUS
<1>1. Init => Inv
  BY InvInit
<1>2. Inv /\ [Next]_vars => Inv'
  BY InvStep
<1>3. Inv => ExclusiveUnblocker
  BY InvExclusive
<1> QED BY <1>1, <1>2, <1>3, PTL DEF Spec

\* blockedThreads of a CPU has the threads whose owner field names it, and a thread that is
\* blocked is on such a list.
THEOREM OwnersList == Sensible /\ ~AllocMayFail => (Spec => []ListedOnOwner)
<1> SUFFICES ASSUME Sensible, ~AllocMayFail PROVE Spec => []ListedOnOwner
  OBVIOUS
<1>1. Init => Inv
  BY InvInit
<1>2. Inv /\ [Next]_vars => Inv'
  BY InvStep
<1>3. Inv => ListedOnOwner
  BY InvListed
<1> QED BY <1>1, <1>2, <1>3, PTL DEF Spec

\* A thread that returned from its wait has left every queue.
THEOREM QueuesLeft == Sensible /\ ~AllocMayFail => (Spec => []NoStaleEntry)
<1> SUFFICES ASSUME Sensible, ~AllocMayFail PROVE Spec => []NoStaleEntry
  OBVIOUS
<1>1. Init => Inv
  BY InvInit
<1>2. Inv /\ [Next]_vars => Inv'
  BY InvStep
<1>3. Inv => NoStaleEntry
  BY InvEntered
<1> QED BY <1>1, <1>2, <1>3, PTL DEF Spec

\* A note on a blocked thread has a sender that will still claim it, a timer covers every
\* deadline, and no wait times out early.
THEOREM NotesAndTimers ==
  Sensible /\ ~AllocMayFail => (Spec => [](NoLostNote /\ TimerCovers /\ NoEarlyTimeout))
<1> SUFFICES ASSUME Sensible, ~AllocMayFail
             PROVE  Spec => [](NoLostNote /\ TimerCovers /\ NoEarlyTimeout)
  OBVIOUS
<1>1. Init => TimeInv
  BY TimeInit
<1>2. TimeInv /\ [Next]_vars => TimeInv'
  BY TimeStep
<1>3. TimeInv => NoLostNote /\ TimerCovers /\ NoEarlyTimeout
  BY DEF TimeInv
<1> QED BY <1>1, <1>2, <1>3, PTL DEF Spec

\* The error of a thread off its CPU is written only by the agent that claims it.
THEOREM ErrByUnblocker == Sensible /\ ~AllocMayFail => (Spec => ErrOnlyByUnblocker)
<1> SUFFICES ASSUME Sensible, ~AllocMayFail PROVE Spec => ErrOnlyByUnblocker
  OBVIOUS
<1>1. Init => Inv
  BY InvInit
<1>2. Inv /\ [Next]_vars => Inv'
  BY InvStep
<1>3. Inv /\ [Next]_vars =>
        [\A t \in Threads : err'[t] # err[t] /\ pc[t] = "off" =>
           \E a \in Agents \ {t} : removing'[a] = t /\ removing[a] # t]_vars
  BY ErrStep
<1> QED BY <1>1, <1>2, <1>3, PTL DEF Spec, ErrOnlyByUnblocker
=============================================================================
