------------------------------- MODULE MCLocks ------------------------------
(***************************************************************************)
(* The locks for TLC.  The value of part selects the lock that is used; the *)
(* others stay in their initial states.                                    *)
(***************************************************************************)
EXTENDS Mutex, FiniteSets

CONSTANTS Users, Writers, Cpus, TicketMod, MaxWrites

\* There are fewer CPUs than tickets (CPU_MAX is far below 2^16).
ASSUME SuiteAssumption ==
  /\ IsFiniteSet(Users) /\ Writers \subseteq Users
  /\ IsFiniteSet(Cpus) /\ TicketMod \in Nat /\ Cardinality(Cpus) < TicketMod
  /\ MaxWrites \in Nat

VARIABLES
  part,
  activeReaders, waitingWriters, hasWriter, readerQueue, writerQueue, rwPc,      \* RwMutex
  nextTicket, nowServing, spinPc, spinTicket, lapped,                            \* SpinLock
  readTicket, readServe, writeTicket, writeServe, inside, rlPc, rlTicket, seen,  \* RwLock
  sequence, writer, data, seqPc, seq, copy,                                      \* SeqLock
  state, userOwner, userDepth, queue, userPc                                     \* Mtx

RW == INSTANCE RwMutex WITH Threads <- Users, pc <- rwPc
SL == INSTANCE SpinLock WITH pc <- spinPc, ticket <- spinTicket
RL == INSTANCE RwLock WITH activeReaders <- inside, pc <- rlPc, ticket <- rlTicket
QL == INSTANCE SeqLock WITH pc <- seqPc
UM == INSTANCE Mtx WITH owner <- userOwner, depth <- userDepth, pc <- userPc

rwVars == <<activeReaders, waitingWriters, hasWriter, readerQueue, writerQueue, rwPc>>
spinVars == <<nextTicket, nowServing, spinPc, spinTicket, lapped>>
rlVars == <<readTicket, readServe, writeTicket, writeServe, inside, rlPc, rlTicket, seen>>
seqVars == <<sequence, writer, data, seqPc, seq, copy>>
userVars == <<state, userOwner, userDepth, queue, userPc>>
allVars == <<part, vars, rwVars, spinVars, rlVars, seqVars, userVars>>

MCInit ==
  /\ part \in {"mutex", "rwmutex", "spin", "rwlock", "seqlock", "mtx"}
  /\ Init /\ RW!Init /\ SL!Init /\ RL!Init /\ QL!Init /\ UM!Init

MCNext ==
  /\ UNCHANGED part
  /\ \/ part = "mutex" /\ Next /\ UNCHANGED <<rwVars, spinVars, rlVars, seqVars, userVars>>
     \/ part = "rwmutex" /\ RW!Next /\ UNCHANGED <<vars, spinVars, rlVars, seqVars, userVars>>
     \/ part = "spin" /\ SL!Next /\ UNCHANGED <<vars, rwVars, rlVars, seqVars, userVars>>
     \/ part = "rwlock" /\ RL!Next /\ UNCHANGED <<vars, rwVars, spinVars, seqVars, userVars>>
     \/ part = "seqlock" /\ QL!Next /\ UNCHANGED <<vars, rwVars, spinVars, rlVars, userVars>>
     \/ part = "mtx" /\ UM!Next /\ UNCHANGED <<vars, rwVars, spinVars, rlVars, seqVars>>

MCSpec == MCInit /\ [][MCNext]_allVars

-----------------------------------------------------------------------------
(* OwnerHolds, NoLostWakeup and ImplementsLock are the ones of Mutex. *)

\* The counters of rwmutex.c agree with the threads that read, write and wait.
Counted == RW!Counted

\* Nobody sleeps in front of a read-write mutex or a user-space mutex that is free or will be
\* given back without a wake: a release that comes between the test and the sleep is noticed.
NobodyLeftAsleep == RW!NoLostWakeup /\ UM!NoLostWakeup

\* The ticket lock, until a try is lapped, the read-write lock, the read-write mutex and the
\* user-space mutex each implement a lock that one writer or many readers hold.
OthersImplementLock ==
  RW!ImplementsLock /\ SL!ImplementsLock /\ RL!ImplementsLock /\ UM!ImplementsLock

\* A reader of a sequence lock that does not retry has all of one write.
SnapshotWhole == QL!SnapshotWhole
=============================================================================
