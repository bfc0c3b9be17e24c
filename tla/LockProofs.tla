----------------------------- MODULE LockProofs -----------------------------
(***************************************************************************)
(* Proofs about the locks: the mutex, for any threads, timeouts, spins and *)
(* depths; the read-write mutex, the sequence lock, the ticket lock, the   *)
(* read-write ticket lock and the mutex of user space, for any number of   *)
(* CPUs and threads.                                                       *)
(***************************************************************************)
EXTENDS MCLocks, FiniteSetTheorems, TLAPS

-----------------------------------------------------------------------------
(* The mutex *)


\* The arithmetic of a uint32_t.
LEMMA ModRange ==
  ASSUME NEW a \in Int, NEW m \in Nat \ {0}
  PROVE  a % m \in 0..(m - 1)
  OBVIOUS

\* A number that fits is not changed.
LEMMA ModSmall ==
  ASSUME NEW a \in Nat, NEW m \in Nat, a < m
  PROVE  a % m = a
  OBVIOUS
-----------------------------------------------------------------------------
\* TypeOK is inductive.
LEMMA TypeOKStep == TypeOK /\ [Next]_vars => TypeOK'
<1> SUFFICES ASSUME TypeOK, [Next]_vars PROVE TypeOK'
  OBVIOUS
<1>m. DepthMod \in Nat \ {0} /\ 0 \in 0..(DepthMod - 1)
  BY MutexAssumption
<1>o. 1 \in 0..(DepthMod - 1)
  BY MutexAssumption
<1>0. CASE UNCHANGED vars
  BY <1>0 DEF vars, TypeOK
<1>1. ASSUME NEW t \in Threads, AcquireAgain(t) PROVE TypeOK'
  <2>1. (depth + 1) % DepthMod \in 0..(DepthMod - 1)
    BY <1>m, ModRange DEF TypeOK
  <2> QED BY <1>1, <2>1 DEF AcquireAgain, TypeOK
<1>2. ASSUME NEW t \in Threads, Acquire(t) PROVE TypeOK'
  BY <1>2, MutexAssumption DEF Acquire, TypeOK
<1>3. ASSUME NEW t \in Threads, SpinTake(t) PROVE TypeOK'
  BY <1>3, <1>o DEF SpinTake, Take, TypeOK
<1>4. ASSUME NEW t \in Threads, SpinAgain(t) PROVE TypeOK'
  BY <1>4, MutexAssumption DEF SpinAgain, TypeOK
<1>5. ASSUME NEW t \in Threads, SpinEnd(t) PROVE TypeOK'
  BY <1>5 DEF SpinEnd, Fail, TypeOK
<1>6. ASSUME NEW t \in Threads, WaitTake(t) PROVE TypeOK'
  BY <1>6, <1>o DEF WaitTake, Take, TypeOK
<1>7. ASSUME NEW t \in Threads, WaitBlock(t) PROVE TypeOK'
  BY <1>7 DEF WaitBlock, TypeOK
<1>8. ASSUME NEW t \in Threads, WaitError(t) PROVE TypeOK'
  BY <1>8 DEF WaitError, TypeOK
<1>9. ASSUME NEW t \in Threads, TimedOut(t) PROVE TypeOK'
  BY <1>9 DEF TimedOut, Fail, TypeOK
<1>10. ASSUME NEW t \in Threads, TimedTake(t) PROVE TypeOK'
  BY <1>10, <1>o DEF TimedTake, Take, TypeOK
<1>11. ASSUME NEW t \in Threads, Release(t) PROVE TypeOK'
  <2>1. (depth - 1) % DepthMod \in 0..(DepthMod - 1)
    BY <1>m, ModRange DEF TypeOK
  <2> QED BY <1>11, <2>1 DEF Release, Unblocked, TypeOK
<1> QED
  BY <1>0, <1>1, <1>2, <1>3, <1>4, <1>5, <1>6, <1>7, <1>8, <1>9, <1>10, <1>11 DEF Next

\* The owner and the depth agree with what the callers hold, and somebody will
\* wake the waiters, until and after every step.
LEMMA OwnerHoldsStep == TypeOK /\ OwnerHolds /\ [Next]_vars => OwnerHolds'
<1> SUFFICES ASSUME TypeOK, OwnerHolds, [Next]_vars, ~stolen' PROVE OwnerHolds'
  BY DEF OwnerHolds
<1>n. ~stolen
  <2>1. stolen \in BOOLEAN /\ stolen' \in BOOLEAN
    BY TypeOKStep DEF TypeOK
  <2>2. ASSUME NEW t \in Threads, TimedTake(t) PROVE ~stolen
    BY <2>1, <2>2 DEF TimedTake
  <2> QED BY <2>1, <2>2 DEF Next, vars, AcquireAgain, Acquire, SpinTake, SpinAgain,
                SpinEnd, WaitTake, WaitBlock, WaitError, TimedOut, Release
<1>h. \A u \in Threads : IF owner = u THEN depth = holds[u] /\ depth > 0 ELSE holds[u] = 0
  BY <1>n DEF OwnerHolds
<1>k. ASSUME NEW t \in Threads, Take(t), owner = None PROVE OwnerHolds'
  BY <1>k, <1>h, MutexAssumption DEF Take, OwnerHolds, TypeOK
<1>s. ASSUME UNCHANGED <<owner, depth, holds>> PROVE OwnerHolds'
  BY <1>s, <1>h DEF OwnerHolds
<1>1. ASSUME NEW t \in Threads, AcquireAgain(t) PROVE OwnerHolds'
  <2>1. depth = holds[t] /\ depth > 0 /\ depth \in Nat /\ depth + 1 < DepthMod
    BY <1>1, <1>h, MutexAssumption DEF AcquireAgain, TypeOK
  <2>2. depth' = depth + 1
    BY <2>1, <1>1, ModSmall, MutexAssumption DEF AcquireAgain
  <2> QED BY <1>1, <1>h, <2>1, <2>2 DEF AcquireAgain, OwnerHolds, TypeOK
<1>2. ASSUME NEW t \in Threads, Release(t) PROVE OwnerHolds'
  <2>1. owner = t /\ depth = holds[t] /\ depth > 0 /\ depth \in Nat /\ depth < DepthMod
    BY <1>2, <1>h, MutexAssumption DEF Release, TypeOK
  <2>2. depth' = depth - 1
    <3>1. depth - 1 \in Nat /\ depth - 1 < DepthMod
      BY <2>1, MutexAssumption
    <3> QED BY <3>1, <1>2, ModSmall, MutexAssumption DEF Release
  <2>3. CASE depth = 1
    BY <1>2, <1>h, <2>1, <2>2, <2>3, MutexAssumption DEF Release, LastRelease, OwnerHolds, TypeOK
  <2>4. CASE depth # 1
    BY <1>2, <1>h, <2>1, <2>2, <2>4 DEF Release, LastRelease, OwnerHolds, TypeOK
  <2> QED BY <2>3, <2>4
<1>3. ASSUME NEW t \in Threads, SpinTake(t) PROVE OwnerHolds'
  BY <1>3, <1>k DEF SpinTake
<1>4. ASSUME NEW t \in Threads, WaitTake(t) PROVE OwnerHolds'
  BY <1>4, <1>k DEF WaitTake, Free
<1>5. ASSUME NEW t \in Threads, TimedTake(t) PROVE OwnerHolds'
  <2>1. owner = None
    BY <1>5 DEF TimedTake, Free
  <2> QED BY <1>5, <1>k, <2>1 DEF TimedTake
<1>6. CASE UNCHANGED vars
  BY <1>6, <1>s DEF vars
<1>7. ASSUME NEW t \in Threads,
             Acquire(t) \/ SpinAgain(t) \/ SpinEnd(t) \/ WaitBlock(t) \/ WaitError(t) \/
                     TimedOut(t)
      PROVE  OwnerHolds'
  BY <1>7, <1>s DEF Acquire, SpinAgain, SpinEnd, WaitBlock, WaitError, TimedOut, Fail
<1> QED
  BY <1>1, <1>2, <1>3, <1>4, <1>5, <1>6, <1>7 DEF Next

\* Every release unblocks a waiter, every sleeper has seen an owner.
LEMMA NoLostWakeupStep == TypeOK /\ NoLostWakeup /\ [Next]_vars => NoLostWakeup'
<1> SUFFICES ASSUME TypeOK, NoLostWakeup, [Next]_vars PROVE NoLostWakeup'
  OBVIOUS
<1>1. ASSUME NEW t \in Threads, Take(t) PROVE NoLostWakeup'
  BY <1>1, MutexAssumption DEF Take, NoLostWakeup
<1>2. ASSUME NEW t \in Threads, SpinTake(t) \/ WaitTake(t) \/ TimedTake(t) PROVE NoLostWakeup'
  BY <1>1, <1>2 DEF SpinTake, WaitTake, TimedTake
<1>3. ASSUME NEW t \in Threads, Release(t) PROVE NoLostWakeup'
  BY <1>3 DEF Release, Unblocked, NoLostWakeup
<1>4. ASSUME NEW t \in Threads, WaitBlock(t) \/ WaitError(t) PROVE NoLostWakeup'
  BY <1>4 DEF WaitBlock, WaitError, Free, NoLostWakeup
<1>5. ASSUME NEW t \in Threads,
             AcquireAgain(t) \/ Acquire(t) \/ SpinAgain(t) \/ SpinEnd(t) \/ TimedOut(t)
      PROVE  NoLostWakeup'
  BY <1>5 DEF AcquireAgain, Acquire, SpinAgain, SpinEnd, TimedOut, Fail, NoLostWakeup
<1>6. CASE UNCHANGED vars
  BY <1>6 DEF vars, NoLostWakeup
<1> QED
  BY <1>2, <1>3, <1>4, <1>5, <1>6 DEF Next

-----------------------------------------------------------------------------
\* The initial state of mutex_init() satisfies all of it.
LEMMA InitInv == Init => TypeOK /\ OwnerHolds /\ NoLostWakeup
<1> SUFFICES ASSUME Init PROVE TypeOK /\ OwnerHolds /\ NoLostWakeup
  OBVIOUS
<1>1. TypeOK
  <2>1. 0 \in 0..(DepthMod - 1) /\ 0 <= MaxSpin
    BY MutexAssumption
  <2>2. stolen \in BOOLEAN
    BY DEF Init
  <2> QED BY <2>1, <2>2 DEF Init, TypeOK
<1>2. OwnerHolds
  BY MutexAssumption DEF Init, OwnerHolds
<1> QED BY <1>1, <1>2 DEF Init, NoLostWakeup

\* Every variable keeps its type: the counter of the spinning loop stays within
\* its bound and depth, whatever callers do, within 32 bits.
THEOREM TypeCorrect == Spec => []TypeOK
  BY InitInv, TypeOKStep, PTL DEF Spec

\* mutex_release() is only ever called by the recorded owner, at the recorded
\* depth, until a finite timeout overrides an owner.
THEOREM OwnerIsHolder == Spec => []OwnerHolds
  BY InitInv, TypeOKStep, OwnerHoldsStep, PTL DEF Spec

\* No thread sleeps on a mutex that nobody owns.
THEOREM WakeupsArrive == Spec => []NoLostWakeup
  BY InitInv, TypeOKStep, NoLostWakeupStep, PTL DEF Spec

-----------------------------------------------------------------------------
(* Exclusion *)

\* Without finite timeouts no owner is overridden.
Untimed == ~stolen /\ \A t \in Threads : timeout[t] # "some"

\* No step of a caller without finite timeouts does.
LEMMA UntimedStep ==
  ASSUME "some" \notin Timeouts
  PROVE  TypeOK /\ Untimed /\ [Next]_vars => Untimed'
<1> SUFFICES ASSUME TypeOK, Untimed, [Next]_vars PROVE Untimed'
  OBVIOUS
<1>1. ASSUME NEW t \in Threads, Acquire(t) PROVE Untimed'
  BY <1>1 DEF Acquire, Untimed, TypeOK
<1>2. ASSUME NEW t \in Threads, TimedTake(t) PROVE FALSE
  BY <1>2 DEF TimedTake, Waiting, Untimed
<1> QED
  BY <1>1, <1>2 DEF Next, vars, Untimed, AcquireAgain, SpinTake, SpinAgain, SpinEnd,
       WaitTake, WaitBlock, WaitError, TimedOut, Release

\* A mutex whose callers never pass a finite timeout is held by one thread at a
\* time, however deep its acquisitions nest.
THEOREM Exclusion == "some" \notin Timeouts => (Spec => []MutualExclusion)
<1> SUFFICES ASSUME "some" \notin Timeouts PROVE Spec => []MutualExclusion
  OBVIOUS
<1>1. Init => Untimed
  BY DEF Init, Untimed
<1>2. Untimed /\ OwnerHolds => MutualExclusion
  BY DEF Untimed, OwnerHolds, MutualExclusion
<1>3. TypeOK /\ Untimed /\ [Next]_vars => Untimed'
  BY UntimedStep
<1> QED
  BY <1>1, <1>2, <1>3, TypeCorrect, OwnerIsHolder, PTL DEF Spec

-----------------------------------------------------------------------------
(* Refinement *)

Holders == IF stolen THEN {} ELSE {t \in Threads : holds[t] > 0}

\* Only an owner, whose depth is positive, holds anything.
LEMMA OnlyOwner ==
  ASSUME NEW h \in [Threads -> Nat], NEW o \in Threads \cup {None}, NEW d \in Int,
         \A t \in Threads : IF o = t THEN d = h[t] /\ d > 0 ELSE h[t] = 0
  PROVE  {t \in Threads : h[t] > 0} = IF o = None THEN {} ELSE {o}
<1>1. ASSUME NEW t \in Threads PROVE h[t] > 0 <=> t = o
  <2>1. CASE o = t
    BY <2>1
  <2>2. CASE o # t
    BY <2>2
  <2> QED
    BY <2>1, <2>2
<1>2. {t \in Threads : h[t] > 0} = {t \in Threads : t = o}
  BY <1>1
<1> QED BY <1>2, MutexAssumption

\* Once a mutex was taken past a waiter, the history says so for ever.
LEMMA StolenStays == TypeOK /\ [Next]_vars => (stolen => stolen')
  BY DEF Next, vars, TypeOK, AcquireAgain, Acquire, SpinTake, SpinAgain, SpinEnd,
       WaitTake, WaitBlock, WaitError, TimedOut, TimedTake, Release

\* A step of the mutex owns or gives up the abstract lock, or leaves it alone.
LEMMA LockStep ==
  TypeOK /\ OwnerHolds /\ [Next]_vars => [Lock!Next]_(Lock!vars)
<1> SUFFICES ASSUME TypeOK, OwnerHolds, [Next]_vars PROVE [Lock!Next]_(Lock!vars)
  OBVIOUS
<1>1. TypeOK' /\ OwnerHolds'
  BY TypeOKStep, OwnerHoldsStep
<1>2. Holders = IF stolen \/ owner = None THEN {} ELSE {owner}
  <2>1. CASE stolen
    BY <2>1 DEF Holders
  <2>2. CASE ~stolen
    <3>1. depth \in Int /\ holds \in [Threads -> Nat] /\ owner \in Threads \cup {None}
      BY MutexAssumption DEF TypeOK
    <3>2. \A t \in Threads : IF owner = t THEN depth = holds[t] /\ depth > 0 ELSE holds[t] = 0
      BY <2>2 DEF OwnerHolds
    <3>3. {t \in Threads : holds[t] > 0} = IF owner = None THEN {} ELSE {owner}
      BY <3>1, <3>2, OnlyOwner
    <3> QED BY <2>2, <3>3 DEF Holders
  <2> QED BY <2>1, <2>2
<1>3. Holders' = IF stolen' \/ owner' = None THEN {} ELSE {owner'}
  <2>1. CASE stolen'
    BY <2>1 DEF Holders
  <2>2. CASE ~stolen'
    <3>1. depth' \in Int /\ holds' \in [Threads -> Nat] /\ owner' \in Threads \cup {None}
      BY <1>1, MutexAssumption DEF TypeOK
    <3>2. \A t \in Threads : IF owner' = t THEN depth' = holds'[t] /\
            depth' > 0 ELSE holds'[t] = 0
      BY <1>1, <2>2 DEF OwnerHolds
    <3>3. {t \in Threads : holds'[t] > 0} = IF owner' = None THEN {} ELSE {owner'}
      BY <3>1, <3>2, OnlyOwner
    <3> QED BY <2>2, <3>3 DEF Holders
  <2> QED BY <2>1, <2>2
<1>u. ASSUME Holders' = Holders PROVE [Lock!Next]_(Lock!vars)
  BY <1>u DEF Holders, Lock!vars
<1>o. ASSUME NEW t \in Threads, Holders = {}, Holders' = {t} PROVE [Lock!Next]_(Lock!vars)
  <2>1. Lock!Own(t)
    BY <1>o DEF Holders, Lock!Own
  <2> QED BY <2>1 DEF Lock!Next
<1>d. ASSUME NEW t \in Threads, Holders = {t}, Holders' = {} PROVE [Lock!Next]_(Lock!vars)
  <2>1. Lock!Disown(t)
    BY <1>d DEF Holders, Lock!Disown
  <2> QED BY <2>1 DEF Lock!Next
<1>s. stolen => stolen'
  BY StolenStays
<1>t. owner \in Threads \cup {None} /\ owner' \in Threads \cup {None}
  BY <1>1 DEF TypeOK
<1>4. CASE stolen'
  <2>1. Holders' = {}
    BY <1>4, <1>3
  <2> QED BY <2>1, <1>2, <1>t, <1>u, <1>d
<1>5. CASE ~stolen'
  <2>1. ~stolen
    BY <1>5, <1>s
  <2>2. owner' = owner \/ owner = None \/ owner' = None
    <3>1. ASSUME NEW t \in Threads, TimedTake(t) PROVE owner = None
      BY <3>1, <1>5 DEF TimedTake, Free
    <3> QED
      BY <3>1 DEF Next, vars, AcquireAgain, Acquire, SpinTake, SpinAgain, SpinEnd, Fail,
         WaitTake, Free, WaitBlock, WaitError, TimedOut, Release
  <2> QED BY <2>1, <2>2, <1>5, <1>2, <1>3, <1>t, <1>u, <1>o, <1>d
<1> QED BY <1>4, <1>5

\* Until a finite timeout overrides an owner the mutex implements an exclusive
\* lock: it is given to a thread only when no thread holds it.
THEOREM Implements == Spec => ImplementsLock
<1>1. Init => Lock!Init
  BY DEF Init, Lock!Init
<1> QED
  BY <1>1, LockStep, TypeCorrect, OwnerIsHolder, PTL DEF Spec, ImplementsLock, Lock!Spec

-----------------------------------------------------------------------------
(* The sequence lock *)

SeqType ==
  /\ sequence \in Nat /\ writer \in BOOLEAN /\ data \in Nat \X Nat
  /\ seqPc \in [Cpus -> {"run", "write1", "write2", "written", "unlock", "read1", "read2",
          "check", "done"}]
  /\ seq \in [Cpus -> Nat] /\ copy \in [Cpus -> Nat \X Nat]

\* Only one CPU writes, and the sequence number is odd while it changes the words.
OneWrites ==
  \A c \in Cpus :
    /\ seqPc[c] \in {"write1", "write2", "written", "unlock"} => writer
    /\ seqPc[c] \in {"write1", "write2", "written"} => sequence % 2 = 1
    /\ seqPc[c] = "unlock" => sequence % 2 = 0
    /\ \A d \in Cpus : (/\ seqPc[c] \in {"write1", "write2", "written", "unlock"}
                        /\ seqPc[d] \in {"write1", "write2", "written", "unlock"}) => c = d
EvenOutside ==
  ~writer => sequence % 2 = 0

\* The words agree, except between the two stores.
WordsAgree ==
  /\ sequence % 2 = 0 => data[1] = data[2]
  /\ \A c \in Cpus : /\ seqPc[c] = "write2" => data[1] = sequence
                     /\ seqPc[c] = "written" => data[1] = data[2]

\* What a reader has copied is current as long as the sequence number is the one it began with.
CopyCurrent ==
  \A c \in Cpus :
    /\ seq[c] <= sequence
    /\ seqPc[c] \in {"read2", "check"} /\ seq[c] = sequence /\ sequence % 2 = 0 =>
            copy[c][1] = data[1]
    /\ seqPc[c] = "check" /\ seq[c] = sequence /\ sequence % 2 = 0 => copy[c][2] = data[2]
    /\ seqPc[c] = "done" => copy[c][1] = copy[c][2]

SeqInv == SeqType /\ OneWrites /\ EvenOutside /\ WordsAgree /\ CopyCurrent

\* One more makes an even number odd and an odd one even.
LEMMA Parity ==
  ASSUME NEW n \in Nat
  PROVE  /\ n % 2 \in {0, 1}
         /\ n % 2 = 0 => (n + 1) % 2 = 1
         /\ n % 2 = 1 => (n + 1) % 2 = 0
  OBVIOUS

\* Every step of a sequential lock keeps its invariant.
LEMMA SeqStep == SeqInv /\ [QL!Next]_(QL!vars) => SeqInv'
<1> SUFFICES ASSUME SeqInv, [QL!Next]_(QL!vars) PROVE SeqInv'
  OBVIOUS
<1>p. /\ sequence \in Nat /\ sequence % 2 \in {0, 1}
      /\ sequence % 2 = 0 => (sequence + 1) % 2 = 1
      /\ sequence % 2 = 1 => (sequence + 1) % 2 = 0
  BY Parity DEF SeqInv, SeqType
<1> USE DEF SeqInv, SeqType, OneWrites, EvenOutside, WordsAgree, CopyCurrent, QL!Goto
<1>1. ASSUME NEW c \in Cpus, QL!WriteBegin(c) PROVE SeqInv'
  BY <1>1, <1>p DEF QL!WriteBegin
<1>2. ASSUME NEW c \in Cpus, QL!WriteFirst(c) PROVE SeqInv'
  BY <1>2, <1>p DEF QL!WriteFirst
<1>3. ASSUME NEW c \in Cpus, QL!WriteSecond(c) PROVE SeqInv'
  BY <1>3, <1>p DEF QL!WriteSecond
<1>4. ASSUME NEW c \in Cpus, QL!WriteEnd(c) PROVE SeqInv'
  BY <1>4, <1>p DEF QL!WriteEnd
<1>5. ASSUME NEW c \in Cpus, QL!WriteUnlock(c) PROVE SeqInv'
  <2>1. seqPc[c] = "unlock" /\ seqPc' = [seqPc EXCEPT ![c] = "run"] /\ writer' = FALSE
        /\ UNCHANGED <<sequence, data, seq, copy>>
    BY <1>5 DEF QL!WriteUnlock
  <2>2. sequence % 2 = 0 /\ \A d \in Cpus \ {c} : seqPc[d] \notin {"write1", "write2", "written",
          "unlock"}
    BY <2>1
  <2>3. SeqType' /\ WordsAgree' /\ CopyCurrent'
    BY <2>1
  <2>4. EvenOutside'
    BY <2>1, <2>2
  <2>5. OneWrites'
    BY <2>1, <2>2
  <2> QED BY <2>3, <2>4, <2>5
<1>6. ASSUME NEW c \in Cpus, QL!ReadBegin(c) PROVE SeqInv'
  BY <1>6, <1>p DEF QL!ReadBegin
<1>7. ASSUME NEW c \in Cpus, QL!ReadFirst(c) PROVE SeqInv'
  BY <1>7, <1>p DEF QL!ReadFirst
<1>8. ASSUME NEW c \in Cpus, QL!ReadSecond(c) PROVE SeqInv'
  BY <1>8, <1>p DEF QL!ReadSecond
<1>9. ASSUME NEW c \in Cpus, QL!ReadEnd(c) PROVE SeqInv'
  BY <1>9, <1>p DEF QL!ReadEnd, QL!Retry
<1>10. ASSUME NEW c \in Cpus, QL!ReadDone(c) PROVE SeqInv'
  BY <1>10, <1>p DEF QL!ReadDone
<1>11. CASE UNCHANGED QL!vars
  BY <1>11 DEF QL!vars
<1> QED BY <1>1, <1>2, <1>3, <1>4, <1>5, <1>6, <1>7, <1>8, <1>9, <1>10, <1>11 DEF QL!Next

\* A reader that does not retry has both words of one write, for any number of CPUs and of
\* writes between its loads.
THEOREM SeqSnapshot == QL!Spec => []SnapshotWhole
<1>1. ASSUME QL!Init PROVE SeqInv
  <2>1. 0 % 2 = 0
    OBVIOUS
  <2>2. SeqType
    BY <1>1 DEF QL!Init, SeqType
  <2>3. EvenOutside
    BY <1>1, <2>1 DEF QL!Init, EvenOutside
  <2>5. OneWrites
    BY <1>1 DEF QL!Init, OneWrites
  <2>4. WordsAgree /\ CopyCurrent
    BY <1>1, <2>1 DEF QL!Init, WordsAgree, CopyCurrent
  <2> QED BY <2>2, <2>3, <2>4, <2>5 DEF SeqInv
<1>2. SeqInv => SnapshotWhole
  BY DEF SeqInv, CopyCurrent, SnapshotWhole, QL!SnapshotWhole
<1> QED BY <1>1, <1>2, SeqStep, PTL DEF QL!Spec

-----------------------------------------------------------------------------
(* The mutex of user space *)

MtxHolds(t) == userOwner = t \/ userPc[t] \in {"own", "exchange"}

MtxType(S) ==
  /\ state \in {0, 1, 2} /\ userOwner \in S \cup {None} /\ queue \subseteq S
  /\ userPc \in [S -> {"run", "try", "own", "mark", "prepare", "compare", "commit", "exchange",
          "wake"}]

\* The state tells whether somebody holds the mutex: from the exchange that takes it to the
\* one that gives it back, the owner being noted in between.
StateTells(S) ==
  /\ \A t \in S : userOwner = t => userPc[t] = "run"
  /\ \A t, u \in S : MtxHolds(t) /\ MtxHolds(u) => t = u
  /\ state = 0 <=> \A t \in S : ~MtxHolds(t)

\* A thread is on the futex queue only while it is in FUTEX_WAIT.  One that sleeps there has
\* marked the mutex, or will be woken.
Queued(S) == \A t \in S : t \in queue => userPc[t] \in {"compare", "commit"}
Marked(S) ==
  \A t \in S : userPc[t] = "commit" /\ t \in queue =>
    \E u \in S : u # t /\ ((state = 2 /\ MtxHolds(u)) \/ userPc[u] = "wake")

MtxInv(S) == MtxType(S) /\ StateTells(S) /\ Queued(S)

\* One step of thread t.
MtxStep(t) ==
  \/ UM!LockAgain(t) \/ UM!Lock(t) \/ UM!Try(t) \/ UM!Own(t) \/ UM!Mark(t)
  \/ UM!Prepare(t) \/ UM!Compare(t) \/ UM!Commit(t) \/ UM!Noted(t)
  \/ UM!Unlock(t) \/ UM!Exchange(t) \/ UM!Wake(t)

\* Every step of a user mutex keeps its invariant, for whichever threads take part.
LEMMA MtxKeeps ==
  ASSUME NEW S, None \notin S, NEW t \in S, MtxInv(S), MtxStep(t)
  PROVE  MtxInv(S)'
<1> USE DEF MtxInv, MtxType, StateTells, Queued, MtxHolds, UM!Goto
<1>1. CASE UM!LockAgain(t) \/ UM!Lock(t)
  BY <1>1 DEF UM!LockAgain, UM!Lock
<1>2. CASE UM!Try(t)
  BY <1>2 DEF UM!Try
<1>3. CASE UM!Own(t)
  BY <1>3 DEF UM!Own
<1>4. CASE UM!Mark(t)
  BY <1>4 DEF UM!Mark
<1>5. CASE UM!Prepare(t) \/ UM!Compare(t)
  BY <1>5 DEF UM!Prepare, UM!Compare
<1>6. CASE UM!Commit(t) \/ UM!Noted(t)
  BY <1>6 DEF UM!Commit, UM!Noted
<1>7. CASE UM!Unlock(t)
  BY <1>7 DEF UM!Unlock
<1>8. CASE UM!Exchange(t)
  BY <1>8 DEF UM!Exchange
<1>9. CASE UM!Wake(t)
  BY <1>9 DEF UM!Wake
<1> QED BY <1>1, <1>2, <1>3, <1>4, <1>5, <1>6, <1>7, <1>8, <1>9 DEF MtxStep

\* A step takes the abstract lock, gives it back, or leaves it alone.
LEMMA MtxLocks ==
  ASSUME NEW S \in SUBSET Threads, None \notin S, NEW t \in S, MtxInv(S), MtxStep(t)
  PROVE  [UM!Abstract!Next]_(UM!Abstract!vars)
<1>h. DOMAIN userPc = S /\ DOMAIN userPc' = S
  BY MtxKeeps DEF MtxInv, MtxType
<1>1. UM!Holders = {u \in S : MtxHolds(u)} /\ UM!Holders' = {u \in S : MtxHolds(u)'}
  BY <1>h DEF UM!Holders, MtxHolds
<1>2. UM!Holders' = UM!Holders \/ (UM!Holders = {} /\ UM!Holders' = {t}) \/ (UM!Holders' = {} /\
        UM!Holders = {t})
  BY <1>1, MtxKeeps DEF MtxInv, MtxType, StateTells, MtxHolds, UM!Goto, MtxStep,
     UM!LockAgain, UM!Lock, UM!Try, UM!Own, UM!Mark, UM!Prepare, UM!Compare, UM!Commit, UM!Noted,
             UM!Unlock, UM!Exchange, UM!Wake
<1> QED BY <1>2 DEF UM!Abstract!Next, UM!Abstract!vars, UM!Abstract!Own, UM!Abstract!Disown

\* Whoever gives a marked mutex back wakes the queue until it is empty.
LEMMA MarkedKeeps ==
  ASSUME NEW S, None \notin S, NEW t \in S, MtxInv(S), Marked(S), MtxStep(t)
  PROVE  Marked(S)'
<1> USE DEF MtxInv, MtxType, StateTells, Queued, Marked, MtxHolds, UM!Goto
<1>1. CASE UM!LockAgain(t) \/ UM!Lock(t)
  BY <1>1 DEF UM!LockAgain, UM!Lock
<1>2. CASE UM!Try(t)
  BY <1>2 DEF UM!Try
<1>3. CASE UM!Own(t)
  BY <1>3 DEF UM!Own
<1>4. CASE UM!Mark(t)
  BY <1>4 DEF UM!Mark
<1>5. CASE UM!Prepare(t) \/ UM!Compare(t)
  BY <1>5 DEF UM!Prepare, UM!Compare
<1>6. CASE UM!Commit(t) \/ UM!Noted(t)
  BY <1>6 DEF UM!Commit, UM!Noted
<1>7. CASE UM!Unlock(t)
  BY <1>7 DEF UM!Unlock
<1>8. CASE UM!Exchange(t)
  BY <1>8 DEF UM!Exchange
<1>9. CASE UM!Wake(t)
  BY <1>9 DEF UM!Wake
<1> QED BY <1>1, <1>2, <1>3, <1>4, <1>5, <1>6, <1>7, <1>8, <1>9 DEF MtxStep

\* The user-space mutex is an exclusive lock for any number of threads.
THEOREM MtxImplements == UM!Spec => UM!ImplementsLock
<1>n. None \notin Threads
  BY MutexAssumption
<1>1. UM!Init => MtxInv(Threads) /\ UM!Abstract!Init
  BY <1>n DEF UM!Init, MtxInv, MtxType, StateTells, Queued, MtxHolds, UM!Abstract!Init, UM!Holders
<1>2. ASSUME MtxInv(Threads), [UM!Next]_(UM!vars)
      PROVE  MtxInv(Threads)' /\ [UM!Abstract!Next]_(UM!Abstract!vars)
  <2>1. CASE UNCHANGED UM!vars
    BY <1>2, <2>1 DEF UM!vars, MtxInv, MtxType, StateTells, Queued, MtxHolds, UM!Abstract!vars,
            UM!Holders
  <2>2. CASE UM!Next
    <3>1. PICK t \in Threads : MtxStep(t)
      BY <2>2 DEF UM!Next, MtxStep
    <3> QED BY <1>2, <1>n, <3>1, MtxKeeps, MtxLocks
  <2> QED BY <1>2, <2>1, <2>2
<1> QED BY <1>1, <1>2, PTL DEF UM!Spec, UM!ImplementsLock, UM!Abstract!Spec

-----------------------------------------------------------------------------
(* Tickets *)

\* How far ticket t is behind the turn now.
Ahead(t, now) == IF t >= now THEN t - now ELSE t - now + TicketMod
Tickets == 0..(TicketMod - 1)

\* The next ticket wraps to zero.
LEMMA TicketNext ==
  ASSUME NEW n \in Tickets
  PROVE  (n + 1) % TicketMod = (IF n + 1 = TicketMod THEN 0 ELSE n + 1)
  BY SuiteAssumption DEF Tickets

Following(n) == (n + 1) % TicketMod

\* Where a ticket stands: the arithmetic of tickets that wrap.
LEMMA TicketOrder ==
  ASSUME NEW t \in Tickets, NEW now \in Tickets
  PROVE  /\ Following(t) \in Tickets
         /\ Ahead(t, now) \in Tickets
         /\ Ahead(t, now) = 0 <=> t = now
         /\ t # now => Ahead(t, Following(now)) = Ahead(t, now) - 1
         /\ Ahead(t, now) + 1 < TicketMod => Ahead(Following(t), now) = Ahead(t, now) + 1
         /\ \A u \in Tickets : Ahead(u, now) = Ahead(t, now) => u = t
  BY TicketNext, SuiteAssumption DEF Tickets, Ahead, Following

\* CPUs that have a set in common are counted and fewer than the tickets.
LEMMA CpusCounted ==
  ASSUME NEW S \in SUBSET Cpus
  PROVE  /\ IsFiniteSet(S) /\ Cardinality(S) \in Nat /\ Cardinality(S) < TicketMod
         /\ Cardinality(S) = 0 <=> S = {}
         /\ \A c \in Cpus \ S : Cardinality(S \cup {c}) = Cardinality(S) + 1
         /\ \A c \in S : Cardinality(S \ {c}) = Cardinality(S) - 1
<1>1. IsFiniteSet(S) /\ Cardinality(S) <= Cardinality(Cpus)
  BY SuiteAssumption, FS_Subset
<1>2. Cardinality(S) \in Nat /\ Cardinality(Cpus) \in Nat
  BY <1>1, SuiteAssumption, FS_CardinalityType
<1>3. Cardinality(S) < TicketMod /\ (Cardinality(S) = 0 <=> S = {})
  BY <1>1, <1>2, SuiteAssumption, FS_EmptySet
<1>4. \A c \in Cpus \ S : Cardinality(S \cup {c}) = Cardinality(S) + 1
  BY <1>1, FS_AddElement
<1>5. \A c \in S : Cardinality(S \ {c}) = Cardinality(S) - 1
  BY <1>1, FS_RemoveElement
<1> QED BY <1>1, <1>2, <1>3, <1>4, <1>5

-----------------------------------------------------------------------------
(* The ticket lock *)

SpinOut == {c \in Cpus : spinPc[c] \in {"spin", "hold"}}

SpinType ==
  /\ nextTicket \in Tickets /\ nowServing \in Tickets
  /\ spinPc \in [Cpus -> {"run", "spin", "load", "cas", "hold"}]
  /\ spinTicket \in [Cpus -> Tickets]

\* The tickets that are out lie between the one that is served and the next one, each at one
\* CPU; the holder's is served.
TicketsOut ==
  /\ Ahead(nextTicket, nowServing) = Cardinality(SpinOut)
  /\ \A c \in SpinOut : Ahead(spinTicket[c], nowServing) < Cardinality(SpinOut)
  /\ \A c, d \in SpinOut : spinTicket[c] = spinTicket[d] => c = d
  /\ \A c \in Cpus : spinPc[c] = "hold" => spinTicket[c] = nowServing

\* As long as the next ticket is the one that a try found, the lock is free.
TryStillFree ==
  \A c \in Cpus : spinPc[c] = "cas" /\ nextTicket = spinTicket[c] => nowServing = nextTicket

SpinInv == SpinType /\ TicketsOut /\ TryStillFree

\* It holds until a try is lapped.
SpinUnlapped == lapped \in BOOLEAN /\ (~lapped => SpinInv)

\* Who takes a ticket of a spin lock gets one that nobody else holds.
LEMMA SpinTaken ==
  ASSUME SpinInv, NEW c \in Cpus, c \notin SpinOut, NEW x \in {"spin", "hold"}, ~SL!Laps(c),
         nextTicket' = Following(nextTicket), nowServing' = nowServing,
         spinPc' = [spinPc EXCEPT ![c] = x], spinTicket' = [spinTicket EXCEPT ![c] = nextTicket],
         x = "hold" => nextTicket = nowServing
  PROVE  SpinInv'
<1>1. SpinOut' = SpinOut \cup {c}
  BY DEF SpinOut, SpinInv, SpinType
<1>2. SpinOut \in SUBSET Cpus /\ SpinOut \cup {c} \in SUBSET Cpus
  BY DEF SpinOut
<1>3. /\ Cardinality(SpinOut) \in Nat
      /\ Cardinality(SpinOut') = Cardinality(SpinOut) + 1 /\ Cardinality(SpinOut') < TicketMod
  BY <1>1, <1>2, CpusCounted
<1>4. /\ Ahead(nextTicket', nowServing') = Cardinality(SpinOut')
      /\ nextTicket' \in Tickets
  <2>1. nextTicket \in Tickets /\ nowServing \in Tickets /\ Ahead(nextTicket,
          nowServing) + 1 < TicketMod
    BY <1>3 DEF SpinInv, SpinType, TicketsOut
  <2>2. Ahead(Following(nextTicket), nowServing) = Ahead(nextTicket, nowServing) + 1
    BY <2>1, TicketOrder
  <2>3. Following(nextTicket) \in Tickets
    BY <2>1, TicketNext, SuiteAssumption DEF Following, Tickets
  <2> QED BY <1>3, <2>2, <2>3 DEF SpinInv, TicketsOut
<1>5. SpinType'
  BY <1>4 DEF SpinInv, SpinType
<1>6. \A d \in SpinOut : d # c /\ spinTicket'[d] = spinTicket[d] /\ spinTicket[d] # nextTicket
  BY <1>3 DEF SpinInv, SpinType, TicketsOut, SpinOut
<1>7. spinTicket'[c] = nextTicket /\ Ahead(nextTicket, nowServing) < Cardinality(SpinOut')
  BY <1>3 DEF SpinInv, SpinType, TicketsOut, Tickets
<1>8. TicketsOut'
  <2>1. \A d \in SpinOut : Ahead(spinTicket[d], nowServing) < Cardinality(SpinOut')
    <3> SUFFICES ASSUME NEW d \in SpinOut PROVE Ahead(spinTicket[d],
            nowServing) < Cardinality(SpinOut')
      OBVIOUS
    <3>1. spinTicket[d] \in Tickets /\ nowServing \in Tickets
      BY DEF SpinInv, SpinType, SpinOut
    <3>2. Ahead(spinTicket[d], nowServing) \in Tickets
      BY <3>1, TicketOrder
    <3> QED BY <1>3, <3>2 DEF SpinInv, TicketsOut, Tickets
  <2>2. \A d \in SpinOut' : Ahead(spinTicket'[d], nowServing') < Cardinality(SpinOut')
    BY <1>1, <1>6, <1>7, <2>1
  <2>3. \A d, e \in SpinOut' : spinTicket'[d] = spinTicket'[e] => d = e
    BY <1>1, <1>6, <1>7 DEF SpinInv, TicketsOut
  <2>4. \A d \in Cpus : spinPc'[d] = "hold" => spinTicket'[d] = nowServing'
    BY <1>7 DEF SpinInv, SpinType, TicketsOut
  <2> QED BY <1>4, <2>2, <2>3, <2>4 DEF TicketsOut
<1>9. TryStillFree'
  BY DEF SpinInv, SpinType, TryStillFree, SL!Laps, Following
<1> QED BY <1>5, <1>8, <1>9 DEF SpinInv

\* The holder's ticket was the one that is served; the others move up.
LEMMA SpinReleased ==
  ASSUME SpinInv, NEW c \in Cpus, SL!Release(c)
  PROVE  SpinInv'
<1>0. /\ spinPc[c] = "hold" /\ spinPc' = [spinPc EXCEPT ![c] = "run"]
      /\ nowServing' = Following(nowServing) /\ UNCHANGED <<nextTicket, spinTicket>>
  BY DEF SL!Release, Following
<1>1. SpinOut' = SpinOut \ {c} /\ c \in SpinOut /\ spinTicket[c] = nowServing
  BY <1>0 DEF SpinOut, SpinInv, SpinType, TicketsOut
<1>2. SpinOut \in SUBSET Cpus
  BY DEF SpinOut
<1>3. Cardinality(SpinOut) \in Nat /\ Cardinality(SpinOut') = Cardinality(SpinOut) - 1 /\
        SpinOut # {}
  BY <1>1, <1>2, CpusCounted
<1>4. Cardinality(SpinOut) # 0
  BY <1>2, <1>3, CpusCounted
<1>5. SpinType'
  <2>1. Following(nowServing) \in Tickets
    BY TicketOrder DEF SpinInv, SpinType
  <2> QED BY <1>0, <2>1 DEF SpinInv, SpinType
<1>6. Ahead(nextTicket, nowServing') = Ahead(nextTicket, nowServing) - 1
  <2>1. nextTicket # nowServing
    BY <1>4, TicketOrder DEF SpinInv, SpinType, TicketsOut
  <2> QED BY <1>0, <2>1, TicketOrder DEF SpinInv, SpinType
<1>7. \A d \in SpinOut' : /\ spinTicket[d] # nowServing /\ d # c /\ d \in SpinOut
                          /\ Ahead(spinTicket[d], nowServing') = Ahead(spinTicket[d],
                                  nowServing) - 1
                          /\ Ahead(spinTicket[d], nowServing) \in Tickets
  <2> SUFFICES ASSUME NEW d \in SpinOut'
               PROVE  /\ spinTicket[d] # nowServing /\ d # c /\ d \in SpinOut
                      /\ Ahead(spinTicket[d], nowServing') = Ahead(spinTicket[d], nowServing) - 1
                      /\ Ahead(spinTicket[d], nowServing) \in Tickets
    OBVIOUS
  <2>1. d \in SpinOut /\ d # c
    BY <1>1
  <2>2. spinTicket[d] # nowServing
    BY <1>1, <2>1 DEF SpinInv, TicketsOut
  <2>3. spinTicket[d] \in Tickets /\ nowServing \in Tickets
    BY <2>1 DEF SpinInv, SpinType, SpinOut
  <2> QED BY <1>0, <2>1, <2>2, <2>3, TicketOrder
<1>8. TicketsOut'
  <2>1. Ahead(nextTicket', nowServing') = Cardinality(SpinOut')
    BY <1>0, <1>3, <1>6 DEF SpinInv, TicketsOut
  <2>2. \A d \in SpinOut' : Ahead(spinTicket'[d], nowServing') < Cardinality(SpinOut')
    BY <1>0, <1>3, <1>7 DEF SpinInv, TicketsOut, Tickets
  <2>3. \A d, e \in SpinOut' : spinTicket'[d] = spinTicket'[e] => d = e
    BY <1>0, <1>7 DEF SpinInv, TicketsOut
  <2>4. \A d \in Cpus : spinPc'[d] # "hold"
    BY <1>0, <1>1 DEF SpinInv, SpinType, TicketsOut, SpinOut
  <2> QED BY <2>1, <2>2, <2>3, <2>4 DEF TicketsOut
<1>9. TryStillFree'
  BY <1>0, <1>4, TicketOrder DEF SpinInv, SpinType, TryStillFree, TicketsOut
<1> QED BY <1>5, <1>8, <1>9 DEF SpinInv

\* Steps that neither take nor return a ticket.
LEMMA SpinOther ==
  ASSUME SpinInv, NEW c \in Cpus, SL!Served(c) \/ SL!TryLoad(c) \/ SL!TryServing(c)
  PROVE  SpinInv'
<1>1. UNCHANGED <<nextTicket, nowServing>> /\ SpinOut' = SpinOut /\ SpinType'
  BY DEF SpinInv, SpinType, SpinOut, SL!Served, SL!TryLoad, SL!TryServing
<1>2. \A d \in SpinOut : spinTicket'[d] = spinTicket[d]
  BY DEF SpinInv, SpinType, SpinOut, SL!Served, SL!TryLoad, SL!TryServing
<1>3. \A d \in Cpus : spinPc'[d] = "hold" => spinTicket'[d] = nowServing
  BY DEF SpinInv, SpinType, TicketsOut, SL!Served, SL!TryLoad, SL!TryServing
<1>4. TicketsOut'
  BY <1>1, <1>2, <1>3 DEF SpinInv, TicketsOut
<1>5. TryStillFree'
  BY <1>1 DEF SpinInv, SpinType, TryStillFree, SL!Served, SL!TryLoad, SL!TryServing
<1> QED BY <1>1, <1>4, <1>5 DEF SpinInv

\* A try that succeeds takes the ticket that is served.
LEMMA SpinTry ==
  ASSUME SpinInv, NEW c \in Cpus, SL!TryCas(c), ~lapped'
  PROVE  SpinInv'
<1>1. CASE nextTicket = spinTicket[c]
  <2>1. /\ spinPc[c] = "cas" /\ ~SL!Laps(c) /\ spinPc' = [spinPc EXCEPT ![c] = "hold"]
        /\ nextTicket' = Following(nextTicket) /\ UNCHANGED <<nowServing, spinTicket>>
    BY <1>1 DEF SL!TryCas, Following
  <2>2. nextTicket = nowServing /\ c \notin SpinOut
    BY <1>1, <2>1 DEF SpinInv, TryStillFree, SpinOut
  <2>3. spinTicket' = [spinTicket EXCEPT ![c] = nextTicket]
    BY <1>1, <2>1 DEF SpinInv, SpinType
  <2> QED BY <2>1, <2>2, <2>3, SpinTaken
<1>2. CASE nextTicket # spinTicket[c]
  <2>1. UNCHANGED <<nextTicket, nowServing, spinTicket>> /\
          spinPc' = [spinPc EXCEPT ![c] = "run"] /\ spinPc[c] = "cas"
    BY <1>2 DEF SL!TryCas
  <2>2. SpinOut' = SpinOut /\ SpinType'
    BY <2>1 DEF SpinInv, SpinType, SpinOut
  <2>3. TicketsOut' /\ TryStillFree'
    BY <2>1, <2>2 DEF SpinInv, SpinType, TicketsOut, TryStillFree
  <2> QED BY <2>2, <2>3 DEF SpinInv
<1> QED BY <1>1, <1>2

\* Every step of a spin lock that laps no try keeps its invariant.
LEMMA SpinStep == SpinInv /\ [SL!Next]_(SL!vars) /\ ~lapped' => SpinInv'
<1> SUFFICES ASSUME SpinInv, [SL!Next]_(SL!vars), ~lapped' PROVE SpinInv'
  OBVIOUS
<1>1. ASSUME NEW c \in Cpus, SL!TakeTicket(c) PROVE SpinInv'
  <2>1. c \notin SpinOut
    BY <1>1 DEF SL!TakeTicket, SpinOut
  <2> QED BY <1>1, <2>1, SpinTaken DEF SL!TakeTicket, Following
<1>2. CASE UNCHANGED SL!vars
  <2>1. SpinOut' = SpinOut
    BY <1>2 DEF SL!vars, SpinOut
  <2> QED BY <1>2, <2>1 DEF SL!vars, SpinInv, SpinType, TicketsOut, TryStillFree
<1> QED BY <1>1, <1>2, SpinTry, SpinReleased, SpinOther DEF SL!Next

\* Whoever is let in finds nobody inside.
LEMMA SpinLocks ==
  SpinInv /\ ~lapped /\ [SL!Next]_(SL!vars) /\ ~lapped' => [SL!Lock!Next]_(SL!Lock!vars)
<1> SUFFICES ASSUME SpinInv, ~lapped, ~lapped', [SL!Next]_(SL!vars)
             PROVE  [SL!Lock!Next]_(SL!Lock!vars)
  OBVIOUS
<1> DEFINE H == {c \in Cpus : spinPc[c] = "hold"}
<1> DEFINE Goal == [SL!Lock!Next]_(SL!Lock!vars)
<1>1. ASSUME NEW c \in Cpus, H = {}, H' = {c} PROVE Goal
  BY <1>1 DEF SL!Lock!Next, SL!Lock!Own
<1>2. ASSUME NEW c \in Cpus, c \in H, H' = H \ {c} PROVE Goal
  BY <1>2 DEF SL!Lock!Next, SL!Lock!Disown
<1>3. ASSUME H' = H PROVE Goal
  BY <1>3 DEF SL!Lock!vars
<1>4. ASSUME NEW c \in Cpus, SL!Served(c) PROVE H = {} /\ H' = {c}
  BY <1>4 DEF SL!Served, SpinInv, SpinType, TicketsOut, SpinOut
<1>5. ASSUME NEW c \in Cpus, SL!TryCas(c), nextTicket = spinTicket[c]
      PROVE  H = {} /\ H' = {c}
  <2>1. Ahead(nextTicket, nowServing) = 0
    BY <1>5, TicketOrder DEF SL!TryCas, SpinInv, SpinType, TryStillFree
  <2>2. SpinOut = {}
    BY <2>1, CpusCounted DEF SpinInv, TicketsOut, SpinOut
  <2> QED BY <1>5, <2>2 DEF SpinOut, SL!TryCas, SpinInv, SpinType
<1>6. ASSUME NEW c \in Cpus, SL!TryCas(c), nextTicket # spinTicket[c] PROVE H' = H
  BY <1>6 DEF SL!TryCas, SpinInv, SpinType
<1>7. ASSUME NEW c \in Cpus, SL!Release(c) PROVE c \in H /\ H' = H \ {c}
  BY <1>7 DEF SL!Release, SpinInv, SpinType
<1>8. ASSUME NEW c \in Cpus, SL!TakeTicket(c) PROVE H' = H
  BY <1>8 DEF SL!TakeTicket, SpinInv, SpinType
<1>9. ASSUME NEW c \in Cpus, SL!TryLoad(c) PROVE H' = H
  BY <1>9 DEF SL!TryLoad, SpinInv, SpinType
<1>10. ASSUME NEW c \in Cpus, SL!TryServing(c) PROVE H' = H
  BY <1>10 DEF SL!TryServing, SpinInv, SpinType
<1>11. CASE UNCHANGED SL!vars
  BY <1>11 DEF SL!vars, SL!Lock!vars
<1> HIDE DEF H, Goal
<1>12. ASSUME NEW c \in Cpus, SL!TryCas(c) PROVE Goal
  <2>1. CASE nextTicket = spinTicket[c]
    BY <1>1, <1>5, <1>12, <2>1
  <2>2. CASE nextTicket # spinTicket[c]
    BY <1>3, <1>6, <1>12, <2>2
  <2> QED BY <2>1, <2>2
<1>13. ASSUME SL!Next PROVE Goal
  BY <1>1, <1>2, <1>3, <1>4, <1>7, <1>8, <1>9, <1>10, <1>12, <1>13 DEF SL!Next
<1> QED BY <1>11, <1>13 DEF Goal

\* A lap stays recorded; the step that laps a try at most takes the lock away from the abstraction.
LEMMA SpinLapStep ==
  SpinUnlapped /\ [SL!Next]_(SL!vars) => SpinUnlapped' /\ [SL!Lock!Next]_(SL!Lock!vars)
<1> SUFFICES ASSUME SpinUnlapped, [SL!Next]_(SL!vars)
             PROVE  SpinUnlapped' /\ [SL!Lock!Next]_(SL!Lock!vars)
  OBVIOUS
<1> DEFINE H == {c \in Cpus : spinPc[c] = "hold"}
<1>1. lapped' \in BOOLEAN /\ (lapped => lapped')
  BY DEF SpinUnlapped, SL!Next, SL!vars, SL!TakeTicket, SL!Served, SL!TryLoad, SL!TryServing,
     SL!TryCas, SL!Release, SL!Laps
<1>2. CASE ~lapped'
  BY <1>1, <1>2, SpinStep, SpinLocks DEF SpinUnlapped
<1>3. CASE lapped /\ lapped'
  BY <1>1, <1>3 DEF SpinUnlapped, SL!Lock!vars
<1>4. CASE ~lapped /\ lapped'
  <2>0. \A c, d \in Cpus : spinPc[c] = "hold" /\ spinPc[d] = "hold" => c = d
    BY <1>4 DEF SpinUnlapped, SpinInv, TicketsOut, SpinOut
  <2>1. H = {} \/ \E c \in Cpus : H = {c}
    BY <2>0
  <2> DEFINE W == IF lapped THEN {} ELSE H
  <2>w. W = H /\ W' = {}
    BY <1>4
  <2>2. CASE H = {}
    <3>1. W' = W
      BY <2>2, <2>w
    <3>2. (SL!Lock!vars)' = SL!Lock!vars
      BY <3>1 DEF SL!Lock!vars
    <3> QED BY <1>1, <1>4, <3>2 DEF SpinUnlapped
  <2>3. ASSUME NEW c \in Cpus, H = {c} PROVE [SL!Lock!Next]_(SL!Lock!vars)
    <3>1. c \in W /\ W' = W \ {c}
      BY <2>3, <2>w
    <3>2. SL!Lock!Disown(c)
      BY <3>1 DEF SL!Lock!Disown
    <3> QED BY <3>2 DEF SL!Lock!Next
  <2> QED BY <1>1, <1>4, <2>1, <2>2, <2>3 DEF SpinUnlapped
<1> QED BY <1>1, <1>2, <1>3, <1>4

\* Until a try is lapped the ticket lock is an exclusive lock, however the tickets wrap, as
\* long as there are fewer CPUs than tickets.
THEOREM SpinImplements == SL!Spec => SL!ImplementsLock
<1>1. ASSUME SL!Init PROVE SpinUnlapped /\ SL!Lock!Init
  <2>1. SpinOut = {} /\ 0 \in Tickets
    BY <1>1, SuiteAssumption, CpusCounted DEF SL!Init, SpinOut, Tickets
  <2>2. Ahead(0, 0) = 0 /\ Cardinality({}) = 0
    BY FS_EmptySet DEF Ahead
  <2>3. SpinInv
    BY <1>1, <2>1, <2>2 DEF SL!Init, SpinInv, SpinType, TicketsOut, TryStillFree
  <2> QED BY <1>1, <2>3 DEF SL!Init, SL!Lock!Init, SpinUnlapped
<1> QED BY <1>1, SpinLapStep, PTL DEF SL!Spec, SL!ImplementsLock, SL!Lock!Spec

-----------------------------------------------------------------------------
(* The read-write ticket lock *)

\* The CPUs in out stand in line: their tickets lie between the one that is served and
\* the next one, each at one CPU.
InLine(out, tk, next, now) ==
  /\ Ahead(next, now) = Cardinality(out)
  /\ \A c \in out : tk[c] \in Tickets /\ Ahead(tk[c], now) < Cardinality(out)
  /\ \A c, d \in out : tk[c] = tk[d] => c = d

\* Who takes the next ticket is the last in line.
LEMMA LineGrows ==
  ASSUME NEW out \in SUBSET Cpus, NEW c \in Cpus \ out, NEW tk, NEW tk1,
         NEW next \in Tickets, NEW now \in Tickets, InLine(out, tk, next, now),
         tk1[c] = next, \A d \in out : tk1[d] = tk[d]
  PROVE  InLine(out \cup {c}, tk1, Following(next), now)
<1>1. /\ Cardinality(out) \in Nat /\ Cardinality(out \cup {c}) = Cardinality(out) + 1
      /\ Cardinality(out \cup {c}) < TicketMod
  <2>1. out \cup {c} \in SUBSET Cpus
    OBVIOUS
  <2> QED BY <2>1, CpusCounted
<1>2. Ahead(Following(next), now) = Cardinality(out \cup {c})
  BY <1>1, TicketOrder DEF InLine
<1>3. \A d \in out \cup {c} : tk1[d] \in Tickets /\ Ahead(tk1[d], now) < Cardinality(out \cup {c})
  <2>1. \A t \in Tickets : Ahead(t, now) \in Tickets
    BY TicketOrder
  <2>2. \A d \in out : Ahead(tk[d], now) \in Nat /\ Ahead(tk[d], now) < Cardinality(out)
    BY <2>1 DEF InLine, Tickets
  <2> QED BY <1>1, <2>2 DEF InLine
<1>4. \A d \in out : tk[d] # next
  BY <1>1 DEF InLine
<1> QED BY <1>2, <1>3, <1>4 DEF InLine

\* When the first in line leaves the others move up.
LEMMA LineMoves ==
  ASSUME NEW out \in SUBSET Cpus, NEW c \in out, NEW tk, NEW tk1,
         NEW next \in Tickets, NEW now \in Tickets, InLine(out, tk, next, now),
         tk[c] = now, \A d \in out \ {c} : tk1[d] = tk[d]
  PROVE  InLine(out \ {c}, tk1, next, Following(now))
<1>1. Cardinality(out) \in Nat /\ Cardinality(out \ {c}) = Cardinality(out) - 1 /\
        Cardinality(out) # 0
  BY CpusCounted
<1>2. next # now
  BY <1>1, TicketOrder DEF InLine
<1>3. Ahead(next, Following(now)) = Cardinality(out \ {c})
  BY <1>1, <1>2, TicketOrder DEF InLine
<1>4. \A d \in out \ {c} : tk1[d] \in Tickets /\ Ahead(tk1[d],
        Following(now)) < Cardinality(out \ {c})
  <2> SUFFICES ASSUME NEW d \in out \ {c}
               PROVE  tk1[d] \in Tickets /\ Ahead(tk1[d], Following(now)) < Cardinality(out \ {c})
    OBVIOUS
  <2>1. tk1[d] \in Tickets /\ tk1[d] # now /\ Ahead(tk1[d], now) < Cardinality(out)
    BY DEF InLine
  <2>2. \A t \in Tickets : t # now => /\ Ahead(t, Following(now)) = Ahead(t, now) - 1
                                      /\ Ahead(t, now) \in Tickets
    BY TicketOrder
  <2> QED BY <1>1, <2>1, <2>2 DEF Tickets
<1> QED BY <1>3, <1>4 DEF InLine

RlIn == {c \in Cpus : rlPc[c] \in {"test", "testTicket", "testServe", "back", "admit", "reading"}}
RlOut == {c \in Cpus : rlPc[c] \in {"write", "drain", "writing"}}

\* A writer whose turn has come forgets its ticket: it was the one that is served.
RlTurn == [c \in Cpus |-> IF rlPc[c] = "write" THEN rlTicket[c] ELSE writeServe]

RlType ==
  /\ writeTicket \in Tickets /\ writeServe \in Tickets /\ readTicket \in Tickets
  /\ rlPc \in [Cpus -> {"run", "read", "enter", "test", "testTicket", "testServe", "back", "idle",
                        "admit", "reading", "write", "drain", "writing"}]
  /\ rlTicket \in [Cpus -> Tickets] /\ seen \in [Cpus -> Tickets]

\* While one writes no reader was admitted, and what a reader that tests has loaded first
\* will tell it that somebody writes.
NoneAdmitted ==
  \A w, c \in Cpus : rlPc[w] = "writing" =>
    /\ rlPc[c] \notin {"admit", "reading"}
    /\ rlPc[c] = "testServe" => seen[c] # writeServe
    /\ rlPc[c] = "testTicket" => seen[c] = writeServe

ReadersCounted == inside = Cardinality(RlIn)
WritersInLine == InLine(RlOut, RlTurn, writeTicket, writeServe)
RlInv == RlType /\ ReadersCounted /\ WritersInLine /\ NoneAdmitted

\* One CPU waits for the readers or writes; while it does there are tickets out.
LEMMA OneTurn ==
  ASSUME RlInv, NEW c \in Cpus, rlPc[c] \in {"drain", "writing"}
  PROVE  /\ \A d \in Cpus : rlPc[d] \in {"drain", "writing"} => d = c
         /\ writeTicket # writeServe
<1>1. c \in RlOut /\ RlTurn[c] = writeServe
  BY DEF RlOut, RlTurn
<1>2. Cardinality(RlOut) # 0
  BY <1>1, CpusCounted DEF RlOut
<1>3. writeTicket # writeServe
  BY <1>2, TicketOrder DEF RlInv, RlType, WritersInLine, InLine
<1> QED BY <1>1, <1>3 DEF RlInv, WritersInLine, InLine, RlOut, RlTurn

\* The counters wrap like the tickets do.
LEMMA InsideWraps ==
  ASSUME NEW n \in Nat, n < TicketMod
  PROVE  /\ n + 1 < TicketMod => RL!Inc(n) = n + 1
         /\ n # 0 => (n + TicketMod - 1) % TicketMod = n - 1
  BY SuiteAssumption DEF RL!Inc

\* A step of a CPU that neither enters nor leaves the readers' count, nor the line of the writers.
LEMMA RlStays ==
  ASSUME RlInv, NEW c \in Cpus, NEW x, NEW t \in Tickets, NEW n \in Tickets, rlPc[c] # "write",
         rlPc' = [rlPc EXCEPT ![c] = x], rlTicket' = [rlTicket EXCEPT ![c] = t],
         seen' = [seen EXCEPT ![c] = n], UNCHANGED <<writeTicket, writeServe>>,
         readTicket' \in Tickets,
         \/ rlPc[c] = "run" /\ x = "read"
         \/ rlPc[c] = "read" /\ x = "enter"
         \/ rlPc[c] = "idle" /\ x = "enter"
         \/ rlPc[c] = "enter" /\ x = "test"
         \/ rlPc[c] = "back" /\ x = "idle"
         \/ rlPc[c] = "test" /\ x = "testTicket" /\ n = writeServe
         \/ rlPc[c] = "test" /\ x = "testServe" /\ n = writeTicket
         \/ rlPc[c] = "testTicket" /\ x = (IF seen[c] = writeTicket THEN "admit" ELSE "back")
         \/ rlPc[c] = "testServe" /\ x = (IF seen[c] = writeServe THEN "admit" ELSE "back")
         \/ rlPc[c] = "admit" /\ x = "reading"
         \/ rlPc[c] = "reading" /\ x = "run"
  PROVE  RlType' /\ WritersInLine' /\ NoneAdmitted'
<1>1. RlType'
  BY DEF RlInv, RlType
<1>2. RlOut' = RlOut
  BY DEF RlInv, RlType, RlOut
<1>3. \A d \in RlOut : RlTurn'[d] = RlTurn[d]
  BY DEF RlInv, RlType, RlOut, RlTurn
<1>4. WritersInLine'
  BY <1>2, <1>3 DEF RlInv, WritersInLine, InLine
<1>5. NoneAdmitted'
  <2> SUFFICES ASSUME NEW w \in Cpus, NEW d \in Cpus, rlPc'[w] = "writing"
               PROVE  /\ rlPc'[d] \notin {"admit", "reading"}
                      /\ rlPc'[d] = "testServe" => seen'[d] # writeServe'
                      /\ rlPc'[d] = "testTicket" => seen'[d] = writeServe'
    BY DEF NoneAdmitted
  <2>1. w # c /\ rlPc[w] = "writing"
    BY DEF RlInv, RlType
  <2>2. writeTicket # writeServe
    BY <2>1, OneTurn
  <2>3. CASE d # c
    BY <2>1, <2>3 DEF RlInv, RlType, NoneAdmitted
  <2>4. CASE d = c
    BY <2>1, <2>2, <2>4 DEF RlInv, RlType, NoneAdmitted
  <2> QED BY <2>3, <2>4
<1> QED BY <1>1, <1>4, <1>5

\* The reader counter after a step of a CPU from one place to another.
LEMMA RlCounts ==
  ASSUME RlInv, NEW c \in Cpus
  PROVE  /\ RlIn' = RlIn /\ inside' = inside => ReadersCounted'
         /\ c \notin RlIn /\ RlIn' = RlIn \cup {c} /\ inside' = RL!Inc(inside) => ReadersCounted'
         /\ c \in RlIn /\ RlIn' = RlIn \ {c} /\ inside' = (inside + TicketMod - 1) % TicketMod =>
                 ReadersCounted'
<1>1. RlIn \in SUBSET Cpus /\ RlIn \cup {c} \in SUBSET Cpus
  BY DEF RlIn
<1>2. inside = Cardinality(RlIn) /\ inside \in Nat /\ inside < TicketMod
  BY <1>1, CpusCounted DEF RlInv, ReadersCounted
<1>3. ASSUME RlIn' = RlIn, inside' = inside PROVE ReadersCounted'
  BY <1>2, <1>3 DEF ReadersCounted
<1>4. ASSUME c \notin RlIn, RlIn' = RlIn \cup {c}, inside' = RL!Inc(inside) PROVE ReadersCounted'
  <2>1. Cardinality(RlIn \cup {c}) = inside + 1 /\ Cardinality(RlIn \cup {c}) < TicketMod
    BY <1>1, <1>2, <1>4, CpusCounted
  <2> QED BY <1>2, <1>4, <2>1, InsideWraps DEF ReadersCounted
<1>5. ASSUME c \in RlIn, RlIn' = RlIn \ {c}, inside' = (inside + TicketMod - 1) % TicketMod
      PROVE  ReadersCounted'
  <2>1. Cardinality(RlIn \ {c}) = inside - 1 /\ inside # 0
    BY <1>1, <1>2, <1>5, CpusCounted
  <2> QED BY <1>2, <1>5, <2>1, InsideWraps DEF ReadersCounted
<1> QED BY <1>3, <1>4, <1>5

\* The steps of readers keep the invariant of a read-write lock.
LEMMA RlReads ==
  ASSUME RlInv, NEW c \in Cpus, RL!Read(c)
  PROVE  RlInv'
<1>0. /\ rlTicket[c] \in Tickets /\ seen[c] \in Tickets /\ 0 \in Tickets
      /\ rlTicket = [rlTicket EXCEPT ![c] = rlTicket[c]] /\ seen = [seen EXCEPT ![c] = seen[c]]
      /\ readTicket \in Tickets /\ writeTicket \in Tickets /\ writeServe \in Tickets
      /\ RL!Inc(readTicket) \in Tickets
  <2>1. \A n \in Tickets : Following(n) \in Tickets
    BY TicketOrder
  <2>2. 0 \in Tickets
    BY SuiteAssumption DEF RlInv, RlType, Tickets
  <2> QED BY <2>1, <2>2 DEF RlInv, RlType, RL!Inc, Following
<1>1. CASE RL!ReadTicket(c)
  <2>1. RlType' /\ WritersInLine' /\ NoneAdmitted'
    BY <1>0, <1>1, RlStays DEF RL!ReadTicket, RL!Goto
  <2>2. RlIn' = RlIn /\ inside' = inside
    BY <1>0, <1>1 DEF RL!ReadTicket, RL!Goto, RlIn, RlInv, RlType
  <2> QED BY <2>1, <2>2, RlCounts DEF RlInv
<1>2. CASE RL!ReadServed(c)
  <2>1. RlType' /\ WritersInLine' /\ NoneAdmitted'
    BY <1>0, <1>2, RlStays DEF RL!ReadServed, RL!Goto, RL!lock
  <2>2. RlIn' = RlIn /\ inside' = inside
    BY <1>0, <1>2 DEF RL!ReadServed, RL!Goto, RlIn, RL!lock, RlInv, RlType
  <2> QED BY <2>1, <2>2, RlCounts DEF RlInv
<1>3. CASE RL!ReadEnter(c)
  <2>1. RlType' /\ WritersInLine' /\ NoneAdmitted'
    BY <1>0, <1>3, RlStays DEF RL!ReadEnter, RL!Goto
  <2>2. c \notin RlIn /\ RlIn' = RlIn \cup {c} /\ inside' = RL!Inc(inside)
    BY <1>0, <1>3 DEF RL!ReadEnter, RL!Goto, RlIn, RlInv, RlType
  <2> QED BY <2>1, <2>2, RlCounts DEF RlInv
<1>4. CASE RL!ReadFirst(c)
  <2>1. RlType' /\ WritersInLine' /\ NoneAdmitted'
    BY <1>0, <1>4, RlStays DEF RL!ReadFirst, RL!Goto, RL!lock
  <2>2. RlIn' = RlIn /\ inside' = inside
    BY <1>0, <1>4 DEF RL!ReadFirst, RL!Goto, RlIn, RL!lock, RlInv, RlType
  <2> QED BY <2>1, <2>2, RlCounts DEF RlInv
<1>5. CASE RL!ReadSecond(c)
  <2>1. RlType' /\ WritersInLine' /\ NoneAdmitted'
    BY <1>0, <1>5, RlStays DEF RL!ReadSecond, RL!Goto, RL!lock
  <2>2. RlIn' = RlIn /\ inside' = inside
    BY <1>0, <1>5 DEF RL!ReadSecond, RL!Goto, RlIn, RL!lock, RlInv, RlType
  <2> QED BY <2>1, <2>2, RlCounts DEF RlInv
<1>6. CASE RL!ReadBack(c)
  <2>1. RlType' /\ WritersInLine' /\ NoneAdmitted'
    BY <1>0, <1>6, RlStays DEF RL!ReadBack, RL!Goto
  <2>2. c \in RlIn /\ RlIn' = RlIn \ {c} /\ inside' = (inside + TicketMod - 1) % TicketMod
    BY <1>0, <1>6 DEF RL!ReadBack, RL!Goto, RlIn, RlInv, RlType
  <2> QED BY <2>1, <2>2, RlCounts DEF RlInv
<1>7. CASE RL!ReadAgain(c)
  <2>1. RlType' /\ WritersInLine' /\ NoneAdmitted'
    BY <1>0, <1>7, RlStays DEF RL!ReadAgain, RL!Goto, RL!lock
  <2>2. RlIn' = RlIn /\ inside' = inside
    BY <1>0, <1>7 DEF RL!ReadAgain, RL!Goto, RlIn, RL!lock, RlInv, RlType
  <2> QED BY <2>1, <2>2, RlCounts DEF RlInv
<1>8. CASE RL!ReadAdmit(c)
  <2>1. RlType' /\ WritersInLine' /\ NoneAdmitted'
    BY <1>0, <1>8, RlStays DEF RL!ReadAdmit, RL!Goto
  <2>2. RlIn' = RlIn /\ inside' = inside
    BY <1>0, <1>8 DEF RL!ReadAdmit, RL!Goto, RlIn, RlInv, RlType
  <2> QED BY <2>1, <2>2, RlCounts DEF RlInv
<1>9. CASE RL!ReadRelease(c)
  <2>1. RlType' /\ WritersInLine' /\ NoneAdmitted'
    BY <1>0, <1>9, RlStays DEF RL!ReadRelease, RL!Goto
  <2>2. c \in RlIn /\ RlIn' = RlIn \ {c} /\ inside' = (inside + TicketMod - 1) % TicketMod
    BY <1>0, <1>9 DEF RL!ReadRelease, RL!Goto, RlIn, RlInv, RlType
  <2> QED BY <2>1, <2>2, RlCounts DEF RlInv
<1> QED BY <1>1, <1>2, <1>3, <1>4, <1>5, <1>6, <1>7, <1>8, <1>9 DEF RL!Read

\* The steps of writers keep the invariant of a read-write lock.
LEMMA RlWrites ==
  ASSUME RlInv, NEW c \in Cpus, RL!Write(c)
  PROVE  RlInv'
<1>0. /\ RlOut \in SUBSET Cpus /\ writeTicket \in Tickets /\ writeServe \in Tickets /\
        0 \in Tickets
      /\ Following(writeTicket) \in Tickets /\ Following(writeServe) \in Tickets
  <2>1. \A n \in Tickets : Following(n) \in Tickets
    BY TicketOrder
  <2>2. 0 \in Tickets
    BY SuiteAssumption DEF RlInv, RlType, Tickets
  <2> QED BY <2>1, <2>2 DEF RlInv, RlType, RlOut
<1>1. CASE RL!WriteTicket(c)
  <2>1. RlType'
    BY <1>0, <1>1 DEF RL!WriteTicket, RL!Goto, RL!Inc, Following, RlInv, RlType
  <2>2. RlIn' = RlIn /\ inside' = inside
    BY <1>1 DEF RL!WriteTicket, RL!Goto, RlIn, RlInv, RlType
  <2>3. c \notin RlOut /\ RlOut' = RlOut \cup {c}
    BY <1>1 DEF RL!WriteTicket, RL!Goto, RlOut, RlInv, RlType
  <2>4. RlTurn'[c] = writeTicket /\ \A d \in RlOut : RlTurn'[d] = RlTurn[d]
    BY <1>1, <2>3 DEF RL!WriteTicket, RL!Goto, RlOut, RlTurn, RlInv, RlType
  <2>5. InLine(RlOut \cup {c}, RlTurn', Following(writeTicket), writeServe)
    BY <1>0, <2>3, <2>4, LineGrows DEF RlInv, WritersInLine
  <2>6. WritersInLine'
    BY <1>1, <2>3, <2>5 DEF WritersInLine, InLine, RL!WriteTicket, RL!Inc, Following
  <2>7. NoneAdmitted'
    BY <1>1 DEF RL!WriteTicket, RL!Goto, RlInv, RlType, NoneAdmitted
  <2> QED BY <2>1, <2>2, <2>6, <2>7, RlCounts DEF RlInv
<1>2. CASE RL!WriteServed(c)
  <2>1. RlType'
    BY <1>0, <1>2 DEF RL!WriteServed, RL!Goto, RL!lock, RlInv, RlType
  <2>2. RlIn' = RlIn /\ inside' = inside
    BY <1>2 DEF RL!WriteServed, RL!Goto, RL!lock, RlIn, RlInv, RlType
  <2>3. RlOut' = RlOut /\ \A d \in RlOut : RlTurn'[d] = RlTurn[d]
    BY <1>2 DEF RL!WriteServed, RL!Goto, RL!lock, RlOut, RlTurn, RlInv, RlType
  <2>4. WritersInLine'
    BY <1>2, <2>3 DEF WritersInLine, InLine, RL!WriteServed, RL!lock, RlInv
  <2>5. NoneAdmitted'
    BY <1>2 DEF RL!WriteServed, RL!Goto, RL!lock, RlInv, RlType, NoneAdmitted
  <2> QED BY <2>1, <2>2, <2>4, <2>5, RlCounts DEF RlInv
<1>3. CASE RL!WriteEnter(c)
  <2>1. RlType'
    BY <1>0, <1>3 DEF RL!WriteEnter, RL!Goto, RL!lock, RlInv, RlType
  <2>2. RlIn' = RlIn /\ inside' = inside
    BY <1>3 DEF RL!WriteEnter, RL!Goto, RL!lock, RlIn, RlInv, RlType
  <2>3. RlOut' = RlOut /\ \A d \in RlOut : RlTurn'[d] = RlTurn[d]
    BY <1>3 DEF RL!WriteEnter, RL!Goto, RL!lock, RlOut, RlTurn, RlInv, RlType
  <2>4. WritersInLine'
    BY <1>3, <2>3 DEF WritersInLine, InLine, RL!WriteEnter, RL!lock, RlInv
  <2>5. RlIn = {}
    BY <1>3, CpusCounted DEF RL!WriteEnter, RlInv, ReadersCounted, RlIn
  <2>6. NoneAdmitted'
    BY <1>3, <2>5 DEF RL!WriteEnter, RL!Goto, RL!lock, RlInv, RlType, NoneAdmitted, RlIn
  <2> QED BY <2>1, <2>2, <2>4, <2>6, RlCounts DEF RlInv
<1>4. CASE RL!WriteRelease(c)
  <2>1. RlType'
    BY <1>0, <1>4 DEF RL!WriteRelease, RL!Goto, RL!Inc, Following, RlInv, RlType
  <2>2. RlIn' = RlIn /\ inside' = inside
    BY <1>4 DEF RL!WriteRelease, RL!Goto, RlIn, RlInv, RlType
  <2>3. c \in RlOut /\ RlOut' = RlOut \ {c} /\ RlTurn[c] = writeServe
    BY <1>4 DEF RL!WriteRelease, RL!Goto, RlOut, RlTurn, RlInv, RlType
  <2>4. \A d \in Cpus : rlPc[d] \in {"drain", "writing"} => d = c
    BY <1>4, OneTurn DEF RL!WriteRelease, RL!Goto
  <2>5. \A d \in RlOut \ {c} : RlTurn'[d] = RlTurn[d]
    BY <1>4, <2>4 DEF RL!WriteRelease, RL!Goto, RlOut, RlTurn, RlInv, RlType
  <2>6. InLine(RlOut \ {c}, RlTurn', writeTicket, Following(writeServe))
    BY <1>0, <2>3, <2>5, LineMoves DEF RlInv, WritersInLine
  <2>7. WritersInLine'
    BY <1>4, <2>3, <2>6 DEF WritersInLine, InLine, RL!WriteRelease, RL!Inc, Following
  <2>8. NoneAdmitted'
    BY <1>4, <2>4 DEF RL!WriteRelease, RL!Goto, RlInv, RlType, NoneAdmitted
  <2> QED BY <2>1, <2>2, <2>7, <2>8, RlCounts DEF RlInv
<1> QED BY <1>1, <1>2, <1>3, <1>4 DEF RL!Write

\* Every step of a read-write lock keeps its invariant.
LEMMA RlStep == RlInv /\ [RL!Next]_(RL!vars) => RlInv'
<1> SUFFICES ASSUME RlInv, [RL!Next]_(RL!vars) PROVE RlInv'
  OBVIOUS
<1>1. CASE UNCHANGED RL!vars
  <2>1. RlIn' = RlIn /\ RlOut' = RlOut /\ RlTurn' = RlTurn
    BY <1>1 DEF RL!vars, RL!lock, RlIn, RlOut, RlTurn
  <2> QED BY <1>1, <2>1 DEF RL!vars, RL!lock, RlInv, RlType, ReadersCounted, WritersInLine,
          InLine, NoneAdmitted
<1> QED BY <1>1, RlReads, RlWrites DEF RL!Next

\* A reader is admitted when nobody writes, a writer when nobody is inside.
LEMMA RlLocks ==
  RlInv /\ [RL!Next]_(RL!vars) => [RL!Lock!Next]_(RL!Lock!vars)
<1> SUFFICES ASSUME RlInv, [RL!Next]_(RL!vars) PROVE [RL!Lock!Next]_(RL!Lock!vars)
  OBVIOUS
<1> DEFINE R == {c \in Cpus : rlPc[c] \in {"admit", "reading"}}
           W == {c \in Cpus : rlPc[c] = "writing"}
           Goal == [RL!Lock!Next]_(RL!Lock!vars)
<1>1. ASSUME NEW c \in Cpus, W = {}, c \notin R, R' = R \cup {c}, W' = W PROVE Goal
  BY <1>1 DEF RL!Lock!Next, RL!Lock!Share
<1>2. ASSUME NEW c \in Cpus, c \in R, R' = R \ {c}, W' = W PROVE Goal
  BY <1>2 DEF RL!Lock!Next, RL!Lock!Unshare
<1>3. ASSUME NEW c \in Cpus, W = {}, R = {}, W' = {c}, R' = R PROVE Goal
  BY <1>3 DEF RL!Lock!Next, RL!Lock!Own
<1>4. ASSUME NEW c \in Cpus, c \in W, W' = W \ {c}, R' = R PROVE Goal
  BY <1>4 DEF RL!Lock!Next, RL!Lock!Disown
<1>5. ASSUME R' = R, W' = W PROVE Goal
  BY <1>5 DEF RL!Lock!vars
<1>6. ASSUME NEW c \in Cpus, RL!ReadSecond(c) PROVE W' = W /\ (R' = R \/ (W = {} /\ c \notin R /\
        R' = R \cup {c}))
  <2>1. W' = W
    BY <1>6 DEF RL!ReadSecond, RL!Goto, RlInv, RlType
  <2>2. rlPc[c] \notin {"admit", "reading"} /\ rlPc = [d \in Cpus |-> rlPc[d]]
    BY <1>6 DEF RL!ReadSecond, RL!Goto, RlInv, RlType
  <2>3. ASSUME rlPc' = [rlPc EXCEPT ![c] = "back"] PROVE R' = R
    BY <2>2, <2>3
  <2>4. ASSUME rlPc' = [rlPc EXCEPT ![c] = "admit"] PROVE c \notin R /\ R' = R \cup {c}
    BY <2>2, <2>4
  <2>5. rlPc' = [rlPc EXCEPT ![c] = "back"] \/ rlPc' = [rlPc EXCEPT ![c] = "admit"]
    BY <1>6 DEF RL!ReadSecond, RL!Goto
  <2>6. ASSUME W # {} PROVE rlPc' = [rlPc EXCEPT ![c] = "back"]
    <3>1. PICK w \in Cpus : rlPc[w] = "writing"
      BY <2>6
    <3>2. writeTicket # writeServe
      BY <3>1, OneTurn
    <3>3. /\ rlPc[c] = "testServe" => seen[c] # writeServe
          /\ rlPc[c] = "testTicket" => seen[c] = writeServe
      BY <3>1 DEF RlInv, NoneAdmitted
    <3> QED BY <1>6, <3>2, <3>3 DEF RL!ReadSecond, RL!Goto
  <2> HIDE DEF R, W
  <2> QED BY <2>1, <2>3, <2>4, <2>5, <2>6
<1>7. ASSUME NEW c \in Cpus, RL!ReadRelease(c) PROVE c \in R /\ R' = R \ {c} /\ W' = W
  BY <1>7 DEF RL!ReadRelease, RL!Goto, RlInv, RlType
<1>8. ASSUME NEW c \in Cpus, RL!WriteEnter(c) PROVE W = {} /\ R = {} /\ W' = {c} /\ R' = R
  <2>1. RlIn = {}
    BY <1>8, CpusCounted DEF RL!WriteEnter, RlInv, ReadersCounted, RlIn
  <2>2. \A d \in Cpus : rlPc[d] \in {"drain", "writing"} => d = c
    BY <1>8, OneTurn DEF RL!WriteEnter, RL!Goto
  <2> QED BY <1>8, <2>1, <2>2 DEF RL!WriteEnter, RL!Goto, RlIn, RlInv, RlType
<1>9. ASSUME NEW c \in Cpus, RL!WriteRelease(c) PROVE c \in W /\ W' = W \ {c} /\ R' = R
  BY <1>9 DEF RL!WriteRelease, RL!Goto, RlInv, RlType
<1> DEFINE Other(c) == \/ RL!ReadTicket(c) \/ RL!ReadServed(c) \/ RL!ReadEnter(c)
                       \/ RL!ReadFirst(c) \/ RL!ReadBack(c) \/ RL!ReadAgain(c) \/ RL!ReadAdmit(c)
                       \/ RL!WriteTicket(c) \/ RL!WriteServed(c)
<1>10. ASSUME NEW c \in Cpus, Other(c) PROVE R' = R /\ W' = W
  BY <1>10 DEF RL!ReadTicket, RL!ReadServed, RL!ReadEnter, RL!ReadFirst, RL!ReadBack,
          RL!ReadAgain,
               RL!ReadAdmit, RL!WriteTicket, RL!WriteServed, RL!Goto, RlInv, RlType
<1>11. CASE UNCHANGED RL!vars
  BY <1>11 DEF RL!vars, RL!lock, RL!Lock!vars
<1> HIDE DEF R, W, Goal, Other
<1>12. ASSUME NEW c \in Cpus, RL!Read(c) \/ RL!Write(c) PROVE Goal
  <2>1. Other(c) \/ RL!ReadSecond(c) \/ RL!ReadRelease(c) \/ RL!WriteEnter(c) \/
          RL!WriteRelease(c)
    BY <1>12 DEF RL!Read, RL!Write, Other
  <2>2. CASE RL!ReadSecond(c)
    BY <1>1, <1>5, <1>6, <2>2
  <2>3. CASE RL!ReadRelease(c)
    BY <1>2, <1>7, <2>3
  <2>4. CASE RL!WriteEnter(c)
    BY <1>3, <1>8, <2>4
  <2>5. CASE RL!WriteRelease(c)
    BY <1>4, <1>9, <2>5
  <2>6. CASE Other(c)
    BY <1>5, <1>10, <2>6
  <2> QED BY <2>1, <2>2, <2>3, <2>4, <2>5, <2>6
<1> QED BY <1>11, <1>12 DEF Goal, RL!Next

\* The read-write ticket lock is a lock of one writer or of many readers, although a reader
\* compares two counters that it loads one after the other, in either order.
THEOREM RwLockImplements == RL!Spec => RL!ImplementsLock
<1>1. ASSUME RL!Init PROVE RlInv /\ RL!Lock!Init
  <2>1. RlIn = {} /\ RlOut = {} /\ 0 \in Tickets
    BY <1>1, SuiteAssumption, CpusCounted DEF RL!Init, RlIn, RlOut, Tickets
  <2>2. Ahead(0, 0) = 0 /\ Cardinality({}) = 0
    BY FS_EmptySet DEF Ahead
  <2>3. RlInv
    BY <1>1, <2>1, <2>2 DEF RL!Init, RlInv, RlType, ReadersCounted, WritersInLine, InLine,
            NoneAdmitted
  <2> QED BY <1>1, <2>3 DEF RL!Init, RL!Lock!Init
<1> QED BY <1>1, RlStep, RlLocks, PTL DEF RL!Spec, RL!ImplementsLock, RL!Lock!Spec

-----------------------------------------------------------------------------
(* The read-write mutex *)

\* Who is queued waits.
RwQueued ==
  /\ readerQueue \subseteq RW!In({"read_wait"})
  /\ writerQueue \subseteq RW!In({"write_wait"})

\* A writer is alone.
RwAlone ==
  \A t, u \in Users : rwPc[t] = "writing" /\ rwPc[u] \in {"reading", "writing"} => t = u

RwInv == IsFiniteSet(Users) /\ RW!TypeOK /\ RW!Counted /\ RwQueued /\ RwAlone /\ RW!NoLostWakeup

\* The threads that f, a value of pc, puts at place w, and how many they are.
RwAt(f, w) == {t \in Users : f[t] \in {w}}
RwCount(f, w) == Cardinality(RwAt(f, w))

\* Thread t and no other moves when pc changes from f to g.
RwMoves(f, g, t) == g[t] # f[t] /\ \A u \in Users : u # t => g[u] = f[u]

\* The threads at a place can be counted.
LEMMA RwCountFinite ==
  ASSUME IsFiniteSet(Users), NEW f, NEW w
  PROVE  /\ IsFiniteSet(RwAt(f, w)) /\ RwCount(f, w) \in Nat
         /\ RwCount(f, w) = 0 <=> RwAt(f, w) = {}
<1>1. RwAt(f, w) \in SUBSET Users
  BY DEF RwAt
<1>2. IsFiniteSet(RwAt(f, w))
  BY <1>1, FS_Subset
<1> QED BY <1>2, FS_CardinalityType, FS_EmptySet DEF RwCount

\* What a move does to the number of threads at a place.
LEMMA RwCountMove ==
  ASSUME IsFiniteSet(Users), NEW f, NEW g, NEW t \in Users, NEW w, RwMoves(f, g, t)
  PROVE  RwCount(g, w) = IF g[t] = w THEN RwCount(f, w) + 1
                       ELSE IF f[t] = w THEN RwCount(f, w) - 1 ELSE RwCount(f, w)
<1>1. IsFiniteSet(RwAt(f, w)) /\ RwCount(f, w) \in Nat
  BY RwCountFinite
<1>2. CASE g[t] = w
  <2>1. RwAt(g, w) = RwAt(f, w) \cup {t} /\ t \notin RwAt(f, w)
    BY <1>2 DEF RwAt, RwMoves
  <2> QED BY <1>1, <1>2, <2>1, FS_AddElement DEF RwCount
<1>3. CASE g[t] # w /\ f[t] = w
  <2>1. RwAt(g, w) = RwAt(f, w) \ {t} /\ t \in RwAt(f, w)
    BY <1>3 DEF RwAt, RwMoves
  <2> QED BY <1>1, <1>3, <2>1, FS_RemoveElement DEF RwCount
<1>4. CASE g[t] # w /\ f[t] # w
  <2>1. RwAt(g, w) = RwAt(f, w)
    BY <1>4 DEF RwAt, RwMoves
  <2> QED BY <1>4, <2>1 DEF RwCount
<1> QED BY <1>2, <1>3, <1>4

\* Counted in these terms.
LEMMA RwCountedMeans ==
  RW!Counted <=> /\ activeReaders = RwCount(rwPc, "reading")
                 /\ waitingWriters = RwCount(rwPc, "write_wait")
                 /\ hasWriter = (RwAt(rwPc, "writing") # {})
<1>1. \A S : RW!Cardinality(S) = Cardinality(S)
  BY DEF RW!Cardinality, Cardinality
<1>2. \A w : RW!In({w}) = RwAt(rwPc, w)
  BY DEF RW!In, RwAt
<1> QED BY <1>1, <1>2 DEF RW!Counted, RwCount

\* The conditions of the code mean what they should.
LEMMA RwConditions ==
  ASSUME IsFiniteSet(Users), RW!TypeOK, RW!Counted
  PROVE  /\ activeReaders = 0 <=> \A t \in Users : rwPc[t] # "reading"
         /\ waitingWriters = 0 <=> \A t \in Users : rwPc[t] # "write_wait"
         /\ hasWriter <=> \E t \in Users : rwPc[t] = "writing"
         /\ RW!ReadersMayEnter => \A t \in Users : rwPc[t] # "writing"
         /\ RW!WriterMayEnter => \A t \in Users : rwPc[t] \notin {"reading", "writing"}
<1>1. activeReaders = 0 <=> \A t \in Users : rwPc[t] # "reading"
  BY RwCountedMeans, RwCountFinite DEF RwAt
<1>2. waitingWriters = 0 <=> \A t \in Users : rwPc[t] # "write_wait"
  BY RwCountedMeans, RwCountFinite DEF RwAt
<1>3. hasWriter <=> \E t \in Users : rwPc[t] = "writing"
  BY RwCountedMeans DEF RwAt
<1>4. RW!ReadersMayEnter => \A t \in Users : rwPc[t] # "writing"
  BY <1>3 DEF RW!ReadersMayEnter
<1>5. ~(activeReaders > 0) <=> activeReaders = 0
  BY DEF RW!TypeOK
<1>6. RW!WriterMayEnter => \A t \in Users : rwPc[t] \notin {"reading", "writing"}
  BY <1>1, <1>3, <1>5 DEF RW!WriterMayEnter
<1> QED BY <1>1, <1>2, <1>3, <1>4, <1>6

\* The counters stay right when the thread that moves changes them.
LEMMA RwCountedMove ==
  ASSUME IsFiniteSet(Users), RW!Counted, NEW t \in Users, RwMoves(rwPc, rwPc', t),
         activeReaders' = IF rwPc'[t] = "reading" THEN activeReaders + 1
                          ELSE IF rwPc[t] = "reading" THEN activeReaders - 1 ELSE activeReaders,
         waitingWriters' = IF rwPc'[t] = "write_wait" THEN waitingWriters + 1
                           ELSE IF rwPc[t] = "write_wait" THEN waitingWriters - 1
                           ELSE waitingWriters,
         hasWriter' = (\E u \in Users : rwPc'[u] = "writing")
  PROVE  RW!Counted'
<1>1. activeReaders' = RwCount(rwPc', "reading")
  BY RwCountedMeans, RwCountMove
<1>2. waitingWriters' = RwCount(rwPc', "write_wait")
  BY RwCountedMeans, RwCountMove
<1>3. hasWriter' = (RwAt(rwPc', "writing") # {})
  BY DEF RwAt
<1>c. \A S : RW!Cardinality(S) = Cardinality(S)
  BY DEF RW!Cardinality, Cardinality
<1> QED BY <1>1, <1>2, <1>3, <1>c DEF RW!Counted, RW!In, RwAt, RwCount

\* A counter is changed by the thread that moves, and is only decremented while
\* it counts somebody.
LEMMA RwCountedStep == RwInv /\ [RW!Next]_(RW!vars) => RW!TypeOK' /\ RW!Counted'
<1> SUFFICES ASSUME RwInv, [RW!Next]_(RW!vars) PROVE RW!TypeOK' /\ RW!Counted'
  OBVIOUS
<1>i. IsFiniteSet(Users) /\ RW!TypeOK /\ RW!Counted /\ RwAlone
  BY DEF RwInv
<1>w. hasWriter = (\E t \in Users : rwPc[t] = "writing")
  BY <1>i, RwConditions DEF RW!TypeOK
<1>s. ASSUME UNCHANGED <<activeReaders, waitingWriters, hasWriter, rwPc>> PROVE RW!Counted'
  BY <1>s, <1>i DEF RW!Counted, RW!In
<1>1. ASSUME NEW t \in Users, RW!ReadAcquire(t) PROVE RW!TypeOK' /\ RW!Counted'
  <2>1. RW!TypeOK'
    BY <1>1, <1>i DEF RW!ReadAcquire, RW!TypeOK
  <2>2. CASE rwPc' = rwPc
    BY <1>1, <1>s, <2>1, <2>2, <1>i DEF RW!ReadAcquire, RW!TypeOK
  <2>3. CASE rwPc' # rwPc
    <3>1. RwMoves(rwPc, rwPc', t)
      BY <1>1, <1>i, <2>3 DEF RW!ReadAcquire, RW!TypeOK, RwMoves
    <3>2. hasWriter' = (\E u \in Users : rwPc'[u] = "writing")
      BY <1>1, <1>i, <1>w DEF RW!ReadAcquire, RW!TypeOK
    <3> QED BY <1>1, <1>i, <2>1, <3>1, <3>2, RwCountedMove DEF RW!ReadAcquire, RW!TypeOK
  <2> QED BY <2>2, <2>3
<1>2. ASSUME NEW t \in Users, RW!ReadTryAcquire(t) PROVE RW!TypeOK' /\ RW!Counted'
  <2>1. RW!TypeOK' /\ RwMoves(rwPc, rwPc', t)
    BY <1>2, <1>i DEF RW!ReadTryAcquire, RW!TypeOK, RwMoves
  <2>2. hasWriter' = (\E u \in Users : rwPc'[u] = "writing")
    BY <1>2, <1>i, <1>w DEF RW!ReadTryAcquire, RW!TypeOK
  <2> QED BY <1>2, <1>i, <2>1, <2>2, RwCountedMove DEF RW!ReadTryAcquire, RW!TypeOK
<1>3. ASSUME NEW t \in Users, RW!ReadRelease(t) PROVE RW!TypeOK' /\ RW!Counted'
  <2>1. activeReaders # 0
    BY <1>3, <1>i, RwConditions DEF RW!ReadRelease
  <2>2. RW!TypeOK' /\ RwMoves(rwPc, rwPc', t)
    <3>1. activeReaders' \in Nat
      BY <1>3, <1>i, <2>1 DEF RW!ReadRelease, RW!TypeOK
    <3> QED BY <1>3, <1>i, <3>1 DEF RW!ReadRelease, RW!TypeOK, RwMoves
  <2>3. hasWriter' = (\E u \in Users : rwPc'[u] = "writing")
    BY <1>3, <1>i, <1>w DEF RW!ReadRelease, RW!TypeOK
  <2> QED BY <1>3, <1>i, <2>2, <2>3, RwCountedMove DEF RW!ReadRelease, RW!TypeOK
<1>4. ASSUME NEW t \in Users, RW!WriteAcquire(t) PROVE RW!TypeOK' /\ RW!Counted'
  <2>1. RW!TypeOK' /\ RwMoves(rwPc, rwPc', t)
    <3>1. CASE RW!WriterMayEnter
      BY <1>4, <1>i, <3>1 DEF RW!WriteAcquire, RW!TypeOK, RwMoves
    <3>2. CASE ~RW!WriterMayEnter
      BY <1>4, <1>i, <3>2 DEF RW!WriteAcquire, RW!TypeOK, RwMoves
    <3> QED BY <3>1, <3>2
  <2>2. hasWriter' = (\E u \in Users : rwPc'[u] = "writing")
    BY <1>4, <1>i, <1>w DEF RW!WriteAcquire, RW!TypeOK
  <2> QED BY <1>4, <1>i, <2>1, <2>2, RwCountedMove DEF RW!WriteAcquire, RW!TypeOK
<1>5. ASSUME NEW t \in Users, RW!WriteRetest(t) PROVE RW!TypeOK' /\ RW!Counted'
  <2>1. CASE RW!WriterMayEnter
    <3>1. waitingWriters # 0
      BY <1>5, <1>i, RwConditions DEF RW!WriteRetest
    <3>2. RW!TypeOK' /\ RwMoves(rwPc, rwPc', t)
      BY <1>5, <1>i, <2>1, <3>1 DEF RW!WriteRetest, RW!TypeOK, RwMoves
    <3>3. hasWriter' = (\E u \in Users : rwPc'[u] = "writing")
      BY <1>5, <1>i, <2>1 DEF RW!WriteRetest, RW!TypeOK
    <3> QED BY <1>5, <1>i, <2>1, <3>2, <3>3, RwCountedMove DEF RW!WriteRetest, RW!TypeOK
  <2>2. CASE ~RW!WriterMayEnter
    BY <1>5, <1>i, <1>s, <2>2 DEF RW!WriteRetest, RW!TypeOK
  <2> QED BY <2>1, <2>2
<1>6. ASSUME NEW t \in Users, RW!WriteTryAcquire(t) PROVE RW!TypeOK' /\ RW!Counted'
  <2>1. RW!TypeOK' /\ RwMoves(rwPc, rwPc', t)
    BY <1>6, <1>i DEF RW!WriteTryAcquire, RW!TypeOK, RwMoves
  <2>2. hasWriter' = (\E u \in Users : rwPc'[u] = "writing")
    BY <1>6, <1>i DEF RW!WriteTryAcquire, RW!TypeOK
  <2> QED BY <1>6, <1>i, <2>1, <2>2, RwCountedMove DEF RW!WriteTryAcquire, RW!TypeOK
<1>7. ASSUME NEW t \in Users, RW!WriteRelease(t) PROVE RW!TypeOK' /\ RW!Counted'
  <2>1. RW!TypeOK' /\ RwMoves(rwPc, rwPc', t)
    BY <1>7, <1>i DEF RW!WriteRelease, RW!TypeOK, RwMoves
  <2>2. hasWriter' = (\E u \in Users : rwPc'[u] = "writing")
    BY <1>7, <1>i DEF RW!WriteRelease, RW!TypeOK, RwAlone
  <2> QED BY <1>7, <1>i, <2>1, <2>2, RwCountedMove DEF RW!WriteRelease, RW!TypeOK
<1>8. ASSUME NEW t \in Users, RW!Interrupt(t) PROVE RW!TypeOK' /\ RW!Counted'
  BY <1>8, <1>i, <1>s DEF RW!Interrupt, RW!TypeOK
<1>9. CASE UNCHANGED RW!vars
  BY <1>9, <1>i, <1>s DEF RW!vars, RW!TypeOK
<1> QED
  BY <1>1, <1>2, <1>3, <1>4, <1>5, <1>6, <1>7, <1>8, <1>9 DEF RW!Next

\* Queued threads wait, and a writer shares the mutex with nobody.
LEMMA RwQueuedStep == RwInv /\ [RW!Next]_(RW!vars) => RwQueued'
<1> SUFFICES ASSUME RW!TypeOK, RwQueued, [RW!Next]_(RW!vars) PROVE RwQueued'
  BY DEF RwInv
<1> USE DEF RwQueued, RW!TypeOK, RW!In
<1>1. ASSUME NEW t \in Users, RW!ReadAcquire(t) PROVE RwQueued'
  BY <1>1 DEF RW!ReadAcquire
<1>2. ASSUME NEW t \in Users, RW!ReadTryAcquire(t) \/ RW!ReadRelease(t) PROVE RwQueued'
  BY <1>2 DEF RW!ReadTryAcquire, RW!ReadRelease
<1>3. ASSUME NEW t \in Users, RW!WriteAcquire(t) PROVE RwQueued'
  BY <1>3 DEF RW!WriteAcquire
<1>4. ASSUME NEW t \in Users, RW!WriteRetest(t) PROVE RwQueued'
  BY <1>4 DEF RW!WriteRetest
<1>5. ASSUME NEW t \in Users, RW!WriteTryAcquire(t) \/ RW!WriteRelease(t) PROVE RwQueued'
  BY <1>5 DEF RW!WriteTryAcquire, RW!WriteRelease
<1>6. ASSUME NEW t \in Users, RW!Interrupt(t) PROVE RwQueued'
  BY <1>6 DEF RW!Interrupt
<1>7. CASE UNCHANGED RW!vars
  BY <1>7 DEF RW!vars
<1> QED
  BY <1>1, <1>2, <1>3, <1>4, <1>5, <1>6, <1>7 DEF RW!Next

\* Every step keeps writers alone.
LEMMA RwAloneStep == RwInv /\ [RW!Next]_(RW!vars) => RwAlone'
<1> SUFFICES ASSUME IsFiniteSet(Users), RW!TypeOK, RW!Counted, RwAlone,
                    [RW!Next]_(RW!vars)
             PROVE  RwAlone'
  BY DEF RwInv
<1>r. RW!ReadersMayEnter => \A t \in Users : rwPc[t] # "writing"
  BY RwConditions
<1>w. RW!WriterMayEnter => \A t \in Users : rwPc[t] \notin {"reading", "writing"}
  BY RwConditions
<1> USE DEF RwAlone, RW!TypeOK
<1>1. ASSUME NEW t \in Users, RW!ReadAcquire(t) PROVE RwAlone'
  BY <1>1, <1>r DEF RW!ReadAcquire
<1>2. ASSUME NEW t \in Users, RW!ReadTryAcquire(t) PROVE RwAlone'
  BY <1>2, <1>r DEF RW!ReadTryAcquire
<1>3. ASSUME NEW t \in Users, RW!ReadRelease(t) \/ RW!WriteRelease(t) PROVE RwAlone'
  BY <1>3 DEF RW!ReadRelease, RW!WriteRelease
<1>4. ASSUME NEW t \in Users, RW!WriteAcquire(t) PROVE RwAlone'
  BY <1>4, <1>w DEF RW!WriteAcquire
<1>5. ASSUME NEW t \in Users, RW!WriteRetest(t) PROVE RwAlone'
  BY <1>5, <1>w DEF RW!WriteRetest
<1>6. ASSUME NEW t \in Users, RW!WriteTryAcquire(t) PROVE RwAlone'
  BY <1>6, <1>w DEF RW!WriteTryAcquire
<1>7. ASSUME NEW t \in Users, RW!Interrupt(t) PROVE RwAlone'
  BY <1>7 DEF RW!Interrupt
<1>8. CASE UNCHANGED RW!vars
  BY <1>8 DEF RW!vars
<1> QED
  BY <1>1, <1>2, <1>3, <1>4, <1>5, <1>6, <1>7, <1>8 DEF RW!Next

\* Whoever leaves wakes the group that can go on.
LEMMA RwWakeupStep == RwInv /\ [RW!Next]_(RW!vars) => RW!NoLostWakeup'
<1> SUFFICES ASSUME IsFiniteSet(Users), RW!TypeOK, RW!Counted, RwQueued, RW!NoLostWakeup,
        [RW!Next]_(RW!vars) PROVE RW!NoLostWakeup'
  BY DEF RwInv
<1>c. waitingWriters = 0 => writerQueue = {}
  BY RwConditions DEF RwQueued, RW!In
<1>n. activeReaders \in Nat /\ waitingWriters \in Nat
  BY DEF RW!TypeOK
<1>1. ASSUME NEW t \in Users, RW!ReadAcquire(t) PROVE RW!NoLostWakeup'
  <2>1. RW!In({"write_wait"})' = RW!In({"write_wait"})
    BY <1>1 DEF RW!ReadAcquire, RW!In, RW!TypeOK
  <2> QED BY <1>1, <1>n, <2>1 DEF RW!ReadAcquire, RW!ReadersMayEnter, RW!NoLostWakeup
<1>2. ASSUME NEW t \in Users, RW!ReadTryAcquire(t) PROVE RW!NoLostWakeup'
  BY <1>2, <1>n DEF RW!ReadTryAcquire, RW!ReadersMayEnter, RW!NoLostWakeup
<1>3. ASSUME NEW t \in Users, RW!ReadRelease(t) PROVE RW!NoLostWakeup'
  <2>1. readerQueue' # {} => hasWriter' \/ waitingWriters' > 0
    BY <1>3 DEF RW!ReadRelease, RW!NoLostWakeup
  <2>2. writerQueue' # {} => activeReaders' # 0
    BY <1>3, <1>n, <1>c DEF RW!ReadRelease
  <2>3. activeReaders' \in Nat
    BY <1>3, RwConditions DEF RW!ReadRelease, RW!TypeOK
  <2> QED BY <2>1, <2>2, <2>3 DEF RW!NoLostWakeup
<1>4. ASSUME NEW t \in Users, RW!WriteAcquire(t) PROVE RW!NoLostWakeup'
  BY <1>4, <1>n DEF RW!WriteAcquire, RW!WriterMayEnter, RW!NoLostWakeup
<1>5. ASSUME NEW t \in Users, RW!WriteRetest(t) PROVE RW!NoLostWakeup'
  BY <1>5, <1>n DEF RW!WriteRetest, RW!WriterMayEnter, RW!NoLostWakeup
<1>6. ASSUME NEW t \in Users, RW!WriteTryAcquire(t) PROVE RW!NoLostWakeup'
  BY <1>6 DEF RW!WriteTryAcquire, RW!NoLostWakeup
<1>7. ASSUME NEW t \in Users, RW!WriteRelease(t) PROVE RW!NoLostWakeup'
  BY <1>7, <1>n, <1>c DEF RW!WriteRelease, RW!NoLostWakeup
<1>8. ASSUME NEW t \in Users, RW!Interrupt(t) PROVE RW!NoLostWakeup'
  <2>1. CASE t \in writerQueue
    <3>1. t \in RW!In({"write_wait"})' /\ t \notin writerQueue'
      BY <1>8, <2>1 DEF RW!Interrupt, RwQueued, RW!In
    <3> QED BY <1>8, <3>1 DEF RW!Interrupt, RW!NoLostWakeup
  <2>2. CASE t \notin writerQueue
    <3>1. writerQueue' = writerQueue /\ RW!In({"write_wait"})' = RW!In({"write_wait"})
      BY <1>8, <2>2 DEF RW!Interrupt, RW!In
    <3> QED BY <1>8, <3>1 DEF RW!Interrupt, RW!NoLostWakeup
  <2> QED BY <2>1, <2>2
<1>9. CASE UNCHANGED RW!vars
  BY <1>9 DEF RW!vars, RW!NoLostWakeup, RW!In
<1> QED
  BY <1>1, <1>2, <1>3, <1>4, <1>5, <1>6, <1>7, <1>8, <1>9 DEF RW!Next

\* The invariant holds at the start.
LEMMA RwInvInit ==
  ASSUME IsFiniteSet(Users), RW!Init
  PROVE  RwInv
<1>1. RW!TypeOK
  BY DEF RW!Init, RW!TypeOK
<1>2. RwAt(rwPc, "reading") = {} /\ RwAt(rwPc, "write_wait") = {} /\ RwAt(rwPc, "writing") = {}
  BY DEF RW!Init, RwAt
<1>3. RW!Counted
  BY <1>2, FS_EmptySet, RwCountedMeans DEF RW!Init, RwCount
<1>4. RwQueued /\ RwAlone /\ RW!NoLostWakeup
  BY DEF RW!Init, RwQueued, RwAlone, RW!NoLostWakeup
<1> QED BY <1>1, <1>3, <1>4 DEF RwInv

\* Every step keeps the invariant.
LEMMA RwInvStep == RwInv /\ [RW!Next]_(RW!vars) => RwInv'
  BY RwCountedStep, RwQueuedStep, RwAloneStep, RwWakeupStep DEF RwInv

\* The invariant always holds.
LEMMA RwInvAlways == RW!Spec => []RwInv
<1>1. RW!Init => RwInv
  BY RwInvInit, SuiteAssumption
<1> QED BY <1>1, RwInvStep, PTL DEF RW!Spec

\* No counter of the read-write mutex becomes negative.
THEOREM RwTypeCorrect == RW!Spec => []RW!TypeOK
  BY RwInvAlways, PTL DEF RwInv

\* The counters rwmutex.c decides by agree with what the threads do.
THEOREM RwCountersRight == RW!Spec => []RW!Counted
  BY RwInvAlways, PTL DEF RwInv

\* Whoever releases the read-write mutex wakes somebody who can go on.
THEOREM RwWakeupsArrive == RW!Spec => []RW!NoLostWakeup
  BY RwInvAlways, PTL DEF RwInv

\* A step enters or leaves the abstract lock, or leaves it alone.
LEMMA RwLockStep == RwInv /\ [RW!Next]_(RW!vars) => [RW!Lock!Next]_(RW!Lock!vars)
<1> SUFFICES ASSUME RwInv, [RW!Next]_(RW!vars) PROVE [RW!Lock!Next]_(RW!Lock!vars)
  OBVIOUS
<1>i. IsFiniteSet(Users) /\ RW!TypeOK /\ RW!Counted /\ RwAlone
  BY DEF RwInv
<1>r. RW!ReadersMayEnter => RW!In({"writing"}) = {}
  BY <1>i, RwConditions DEF RW!In
<1>w. RW!WriterMayEnter => RW!In({"writing"}) = {} /\ RW!In({"reading"}) = {}
  BY <1>i, RwConditions DEF RW!In
<1>s. ASSUME RW!In({"reading"})' = RW!In({"reading"}), RW!In({"writing"})' = RW!In({"writing"})
      PROVE  [RW!Lock!Next]_(RW!Lock!vars)
  BY <1>s DEF RW!Lock!vars
<1>a. ASSUME NEW t \in Users, RW!ReadersMayEnter, rwPc[t] \in {"run", "read_wait"},
             rwPc' = [rwPc EXCEPT ![t] = "reading"]
      PROVE  [RW!Lock!Next]_(RW!Lock!vars)
  <2>1. /\ RW!In({"reading"})' = RW!In({"reading"}) \cup {t} /\ t \notin RW!In({"reading"})
        /\ RW!In({"writing"})' = RW!In({"writing"})
    BY <1>a, <1>i DEF RW!In, RW!TypeOK
  <2>2. RW!Lock!Share(t)
    BY <2>1, <1>a, <1>r DEF RW!Lock!Share
  <2> QED BY <2>2 DEF RW!Lock!Next
<1>b. ASSUME NEW t \in Users, RW!WriterMayEnter, rwPc[t] \in {"run", "write_wait"},
             rwPc' = [rwPc EXCEPT ![t] = "writing"]
      PROVE  [RW!Lock!Next]_(RW!Lock!vars)
  <2>1. /\ RW!In({"reading"})' = RW!In({"reading"})
        /\ RW!In({"writing"})' = RW!In({"writing"}) \cup {t}
    BY <1>b, <1>i DEF RW!In, RW!TypeOK
  <2>2. RW!Lock!Own(t)
    BY <2>1, <1>b, <1>w DEF RW!Lock!Own
  <2> QED BY <2>2 DEF RW!Lock!Next
<1>c. ASSUME NEW t \in Users, NEW p \in {"read_wait", "write_wait"},
             rwPc[t] \in {"run", "read_wait", "write_wait"}, rwPc' = [rwPc EXCEPT ![t] = p]
      PROVE  [RW!Lock!Next]_(RW!Lock!vars)
  BY <1>c, <1>i, <1>s DEF RW!In, RW!TypeOK
<1>1. ASSUME NEW t \in Users, RW!ReadAcquire(t) PROVE [RW!Lock!Next]_(RW!Lock!vars)
  BY <1>1, <1>a, <1>c DEF RW!ReadAcquire
<1>2. ASSUME NEW t \in Users, RW!ReadTryAcquire(t) PROVE [RW!Lock!Next]_(RW!Lock!vars)
  BY <1>2, <1>a DEF RW!ReadTryAcquire
<1>3. ASSUME NEW t \in Users, RW!ReadRelease(t) PROVE [RW!Lock!Next]_(RW!Lock!vars)
  <2>1. /\ t \in RW!In({"reading"}) /\ RW!In({"reading"})' = RW!In({"reading"}) \ {t}
        /\ RW!In({"writing"})' = RW!In({"writing"})
    BY <1>3, <1>i DEF RW!ReadRelease, RW!In, RW!TypeOK
  <2>2. RW!Lock!Unshare(t)
    BY <2>1 DEF RW!Lock!Unshare
  <2> QED BY <2>2 DEF RW!Lock!Next
<1>4. ASSUME NEW t \in Users, RW!WriteAcquire(t) PROVE [RW!Lock!Next]_(RW!Lock!vars)
  BY <1>4, <1>b, <1>c DEF RW!WriteAcquire
<1>5. ASSUME NEW t \in Users, RW!WriteRetest(t) PROVE [RW!Lock!Next]_(RW!Lock!vars)
  <2>1. CASE RW!WriterMayEnter
    BY <1>5, <1>b, <2>1 DEF RW!WriteRetest
  <2>2. CASE ~RW!WriterMayEnter
    BY <1>5, <1>s, <2>2 DEF RW!WriteRetest, RW!In
  <2> QED BY <2>1, <2>2
<1>6. ASSUME NEW t \in Users, RW!WriteTryAcquire(t) PROVE [RW!Lock!Next]_(RW!Lock!vars)
  BY <1>6, <1>b DEF RW!WriteTryAcquire
<1>7. ASSUME NEW t \in Users, RW!WriteRelease(t) PROVE [RW!Lock!Next]_(RW!Lock!vars)
  <2>1. /\ t \in RW!In({"writing"}) /\ RW!In({"writing"})' = RW!In({"writing"}) \ {t}
        /\ RW!In({"reading"})' = RW!In({"reading"})
    BY <1>7, <1>i DEF RW!WriteRelease, RW!In, RW!TypeOK
  <2>2. RW!Lock!Disown(t)
    BY <2>1 DEF RW!Lock!Disown
  <2> QED BY <2>2 DEF RW!Lock!Next
<1>8. ASSUME NEW t \in Users, RW!Interrupt(t) PROVE [RW!Lock!Next]_(RW!Lock!vars)
  BY <1>8, <1>s DEF RW!Interrupt, RW!In
<1>9. CASE UNCHANGED RW!vars
  BY <1>9, <1>s DEF RW!vars, RW!In
<1> QED
  BY <1>1, <1>2, <1>3, <1>4, <1>5, <1>6, <1>7, <1>8, <1>9 DEF RW!Next

\* The read-write mutex implements SharedLock: readers share it, a writer has it
\* for itself.
THEOREM RwImplements == RW!Spec => RW!ImplementsLock
<1>1. RW!Init => RW!Lock!Init
  BY DEF RW!Init, RW!In, RW!Lock!Init
<1> QED
  BY <1>1, RwLockStep, RwInvAlways, PTL DEF RW!Spec, RW!ImplementsLock, RW!Lock!Spec

-----------------------------------------------------------------------------
(* The suite: the locks that are not selected stay put *)

\* A step of the suite is a step of each of its locks, or leaves it alone.
LEMMA SuiteSteps ==
  ASSUME [MCNext]_allVars
  PROVE  /\ [RW!Next]_(RW!vars) /\ [SL!Next]_(SL!vars) /\ [RL!Next]_(RL!vars) /\
          [QL!Next]_(QL!vars)
         /\ part' = part
         /\ UNCHANGED UM!vars \/ \E t \in Threads : MtxStep(t)
<1> USE DEF allVars, rwVars, spinVars, rlVars, seqVars, userVars, RW!vars, SL!vars, RL!vars,
        RL!lock, QL!vars, UM!vars
<1>1. part' = part
  BY DEF MCNext
<1>2. [RW!Next]_(RW!vars)
  BY DEF MCNext
<1>3. [SL!Next]_(SL!vars)
  BY DEF MCNext
<1>4. [RL!Next]_(RL!vars)
  BY DEF MCNext
<1>5. [QL!Next]_(QL!vars)
  BY DEF MCNext
<1>7. ASSUME UM!Next PROVE \E t \in Threads : MtxStep(t)
  BY <1>7 DEF MtxStep, UM!Next
<1>8. UNCHANGED UM!vars \/ UM!Next
  BY DEF MCNext
<1> QED BY <1>1, <1>2, <1>3, <1>4, <1>5, <1>7, <1>8

\* Each lock of the suite behaves like its own specification.
LEMMA SuiteSpecs == MCSpec => RW!Spec /\ SL!Spec /\ RL!Spec /\ QL!Spec
<1>1. MCInit => RW!Init /\ SL!Init /\ RL!Init /\ QL!Init
  BY DEF MCInit
<1>2. [MCNext]_allVars =>
        [RW!Next]_(RW!vars) /\ [SL!Next]_(SL!vars) /\ [RL!Next]_(RL!vars) /\ [QL!Next]_(QL!vars)
  BY SuiteSteps
<1> QED BY <1>1, <1>2, PTL DEF MCSpec, RW!Spec, SL!Spec, RL!Spec, QL!Spec

\* Steps that leave the user mutex alone keep what is known of it.
LEMMA MtxStutters ==
  ASSUME NEW S, UNCHANGED UM!vars
  PROVE  /\ MtxInv(S) => MtxInv(S)'
         /\ Marked(S) => Marked(S)'
         /\ UM!Abstract!vars' = UM!Abstract!vars
  BY DEF UM!vars, MtxInv, MtxType, StateTells, Queued, Marked, MtxHolds, UM!Abstract!vars,
          UM!Holders

\* The user mutex starts in its invariant.
LEMMA SuiteInit ==
  ASSUME MCInit
  PROVE  MtxInv(Threads) /\ Marked(Threads) /\ UM!Abstract!Init
<1>1. None \notin Threads
  BY MutexAssumption
<1>2. state = 0 /\ userOwner = None /\ queue = {} /\ userPc = [t \in Threads |-> "run"]
  BY DEF MCInit, UM!Init
<1>3. MtxInv(Threads)
  BY <1>1, <1>2 DEF MtxInv, MtxType, StateTells, Queued, MtxHolds
<1>4. UM!Holders = {}
  BY <1>1, <1>2 DEF UM!Holders
<1> QED BY <1>2, <1>3, <1>4 DEF UM!Abstract!Init, Marked

\* Every step of the suite keeps the invariant of the user mutex and is a step of a lock.
LEMMA SuiteMtx ==
  ASSUME MtxInv(Threads), [MCNext]_allVars
  PROVE  /\ MtxInv(Threads)' /\ [UM!Abstract!Next]_(UM!Abstract!vars)
         /\ Marked(Threads) => Marked(Threads)'
<1>1. None \notin Threads /\ Threads \in SUBSET Threads
  BY MutexAssumption
<1>2. CASE UNCHANGED UM!vars
  BY <1>2, MtxStutters
<1>3. ASSUME NEW t \in Threads, MtxStep(t)
      PROVE  /\ MtxInv(Threads)' /\ [UM!Abstract!Next]_(UM!Abstract!vars)
             /\ Marked(Threads) => Marked(Threads)'
  BY <1>1, <1>3, MtxKeeps, MtxLocks, MarkedKeeps
<1> QED BY <1>2, <1>3, SuiteSteps

\* Every lock of the kernel but the mutex, whose theorem is above, and the mutex of user
\* space implement the lock they promise: the run's property, for any number of threads and CPUs.
THEOREM LocksImplement == MCSpec => OthersImplementLock
<1>1. MCSpec => RW!ImplementsLock
  BY SuiteSpecs, RwImplements
<1>2. MCSpec => SL!ImplementsLock /\ RL!ImplementsLock
  BY SuiteSpecs, SpinImplements, RwLockImplements
<1>3. MCSpec => UM!ImplementsLock
  <2>1. MCInit => MtxInv(Threads) /\ UM!Abstract!Init
    BY SuiteInit
  <2>2. MtxInv(Threads) /\ [MCNext]_allVars
          => MtxInv(Threads)' /\ [UM!Abstract!Next]_(UM!Abstract!vars)
    BY SuiteMtx
  <2> QED BY <2>1, <2>2, PTL DEF MCSpec, UM!ImplementsLock, UM!Abstract!Spec
<1> QED BY <1>1, <1>2, <1>3 DEF OthersImplementLock

\* The counters of the read-write mutex are right whichever lock of the suite is used.
THEOREM SuiteCounted == MCSpec => []Counted
<1>1. MCSpec => []RW!Counted
  BY SuiteSpecs, RwCountersRight, PTL
<1> QED BY <1>1, PTL DEF Counted

\* No reader of the sequence lock keeps a torn snapshot.
THEOREM SuiteSnapshot == MCSpec => []SnapshotWhole
  BY SuiteSpecs, SeqSnapshot

\* Nobody is left asleep in front of a read-write mutex that is free or a user-space mutex
\* whose holder does not know of it, for any number of threads: the run's property.
THEOREM SuiteWakeups == MCSpec => []NobodyLeftAsleep
<1>1. MCSpec => []RW!NoLostWakeup
  BY SuiteSpecs, RwWakeupsArrive, PTL
<1> DEFINE I == MtxInv(Threads) /\ Marked(Threads)
<1>2. MCInit => I
  BY SuiteInit
<1>3. I /\ [MCNext]_allVars => I'
  BY SuiteMtx
<1>4. I => UM!NoLostWakeup
  BY DEF MtxInv, MtxType, Marked, MtxHolds, UM!NoLostWakeup, UM!Holders
<1> QED BY <1>1, <1>2, <1>3, <1>4, PTL DEF MCSpec, NobodyLeftAsleep
=============================================================================
