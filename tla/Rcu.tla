-------------------------------- MODULE Rcu ---------------------------------
(***************************************************************************)
(* Read-copy-update (src/kernel/sync/rcu.c): one global grace period,      *)
(* acknowledged by every CPU that was not idle when it started, and per    *)
(* CPU three lists of callbacks that rotate as grace periods end.          *)
(*                                                                         *)
(* An object is linked until it is handed to rcu_call(); a read-side       *)
(* section may hold every object that was linked when it began.  Running   *)
(* an object's callback is freeing it.  The lists are sets.  Fields read   *)
(* under the RCU lock are read in one step; the two reads rcu_advance()    *)
(* makes without it are two steps, and so are the two stores of            *)
(* rcu_start_grace() that they race with.                                  *)
(***************************************************************************)
EXTENDS Naturals, FiniteSets, TLAPS

CONSTANTS
  Cpus,     \* the CPUs
  Objects   \* objects freed through rcu_call()

ASSUME CpusAssumption == IsFiniteSet(Cpus) /\ Cpus # {}

VARIABLES
  ack,      \* CPUs that have not acknowledged the grace period yet
  grace,    \* number of the newest grace period
  active,   \* whether it is still going on
  todo,     \* CPUs rcu_start_grace() has not tested for idleness yet
  pc,       \* where each CPU is in rcu_report_quiescent()
  wake,     \* what rcu_check_quiescent() returned on each CPU
  seen,     \* the unlocked reads of rcu_advance(): "active" and "grace"
  rgrace,   \* pcpu_rcu->grace, the grace period the waiting list waits for
  batch, waiting, ready,  \* the lists pcpu_rcu points to
  idle,     \* the CPU runs its idle thread
  refs,     \* objects the read-side section of each CPU may be using
  reading,  \* the CPU is in a read-side section
  linked, freed,
  early     \* history: objects waiting for a grace period begun before them

lists == <<batch, waiting, ready>>
glob  == <<ack, grace, active, todo>>
world == <<idle, refs, reading, linked, freed>>
vars  == <<glob, pc, wake, seen, rgrace, lists, world, early>>

NoRead == [active |-> {}, grace |-> {}]

TypeOK ==
  /\ ack \subseteq Cpus /\ grace \in Nat /\ active \in BOOLEAN /\ todo \subseteq Cpus
  /\ pc \in [Cpus -> {"run", "report", "advance", "reread", "invoke", "start", "begun", "scan"}]
  /\ wake \in [Cpus -> BOOLEAN]
  /\ seen \in [Cpus -> [active : SUBSET BOOLEAN, grace : SUBSET Nat]]
  /\ rgrace \in [Cpus -> Nat]
  /\ batch \in [Cpus -> SUBSET Objects]
  /\ waiting \in [Cpus -> SUBSET Objects]
  /\ ready \in [Cpus -> SUBSET Objects]
  /\ idle \in [Cpus -> BOOLEAN]
  /\ refs \in [Cpus -> SUBSET Objects]
  /\ reading \in [Cpus -> BOOLEAN]
  /\ linked \subseteq Objects /\ freed \subseteq Objects /\ early \subseteq Objects

Init ==
  /\ ack = {} /\ grace = 0 /\ active = FALSE /\ todo = {}
  /\ pc = [c \in Cpus |-> "run"]
  /\ wake = [c \in Cpus |-> FALSE]
  /\ seen = [c \in Cpus |-> NoRead]
  /\ rgrace = [c \in Cpus |-> 0]
  /\ batch = [c \in Cpus |-> {}]
  /\ waiting = [c \in Cpus |-> {}]
  /\ ready = [c \in Cpus |-> {}]
  /\ idle \in [Cpus -> BOOLEAN]
  /\ refs = [c \in Cpus |-> {}]
  /\ reading = [c \in Cpus |-> FALSE]
  /\ linked = Objects /\ freed = {} /\ early = {}

\* The RCU lock is held over several steps only by rcu_start_grace(): between its
\* stores to active and grace, and while it tests the CPUs for idleness.
Unlocked == \A c \in Cpus : pc[c] \notin {"begun", "scan"}

-----------------------------------------------------------------------------
(* Threads *)

ReadLock(c) ==
  /\ pc[c] = "run" /\ ~idle[c] /\ ~reading[c]
  /\ reading' = [reading EXCEPT ![c] = TRUE]
  /\ refs' = [refs EXCEPT ![c] = linked]
  /\ UNCHANGED <<glob, pc, wake, seen, rgrace, lists, idle, linked, freed, early>>

ReadUnlock(c) ==
  /\ pc[c] = "run" /\ reading[c]
  /\ reading' = [reading EXCEPT ![c] = FALSE]
  /\ refs' = [refs EXCEPT ![c] = {}]
  /\ UNCHANGED <<glob, pc, wake, seen, rgrace, lists, idle, linked, freed, early>>

\* A running thread unlinks an object and gives it to rcu_call().
RcuCall(c, o) ==
  /\ o \in linked
  /\ pc[c] = "run" /\ ~idle[c]
  /\ linked' = linked \ {o}
  /\ batch' = [batch EXCEPT ![c] = @ \cup {o}]
  /\ UNCHANGED <<glob, pc, wake, seen, rgrace, waiting, ready, idle, refs, reading, freed, early>>

\* sched_do(): returns at once when preemption is disabled, otherwise switches
\* to some thread or to the idle thread and reports a quiescent state.  A dying
\* thread it switched away from goes to rcu_call() first, by thread_free().
SchedDo(c) ==
  /\ pc[c] = "run" /\ ~reading[c]
  /\ \E i \in BOOLEAN : idle' = [idle EXCEPT ![c] = i]
  /\ \E dead \in {{}} \cup (IF idle[c] THEN {} ELSE {{o} : o \in linked}) :
       /\ linked' = linked \ dead
       /\ batch' = [batch EXCEPT ![c] = @ \cup dead]
  /\ pc' = [pc EXCEPT ![c] = "report"]
  /\ UNCHANGED <<glob, wake, seen, rgrace, waiting, ready, refs, reading, freed, early>>

-----------------------------------------------------------------------------
(* rcu_report_quiescent() *)

\* Mutant: the list is released while its grace period is going on.
CheckQuiescent_StillActive(c) ==
  /\ pc[c] = "report" /\ Unlocked
  /\ ack' = IF active THEN ack \ {c} ELSE ack
  /\ active' = (active /\ ~(c \in ack /\ ack = {c}))
  /\ wake' = [wake EXCEPT ![c] =
       waiting[c] # {} /\ (grace > rgrace[c] \/ grace = rgrace[c])]
  /\ pc' = [pc EXCEPT ![c] = "advance"]
  /\ UNCHANGED <<grace, todo, seen, rgrace, lists, world, early>>

\* Mutant: the last acknowledgement does not end the grace period.
CheckQuiescent_NeverEnds(c) ==
  /\ pc[c] = "report" /\ Unlocked
  /\ ack' = IF active THEN ack \ {c} ELSE ack
  /\ active' = active
  /\ wake' = [wake EXCEPT ![c] =
       waiting[c] # {} /\ (grace > rgrace[c] \/ (grace = rgrace[c] /\ ~active'))]
  /\ pc' = [pc EXCEPT ![c] = "advance"]
  /\ UNCHANGED <<grace, todo, seen, rgrace, lists, world, early>>

CheckQuiescent(c) ==
  /\ pc[c] = "report" /\ Unlocked
  /\ ack' = IF active THEN ack \ {c} ELSE ack
  /\ active' = (active /\ ~(c \in ack /\ ack = {c}))
  /\ wake' = [wake EXCEPT ![c] =
       waiting[c] # {} /\ (grace > rgrace[c] \/ (grace = rgrace[c] /\ ~active'))]
  /\ pc' = [pc EXCEPT ![c] = "advance"]
  /\ UNCHANGED <<grace, todo, seen, rgrace, lists, world, early>>

\* rcu_advance() after the first rcu_invoke_callbacks(): the ready list is
\* emptied and a waiting list whose grace period ended becomes the ready one ...
StillWaiting(c) == IF wake[c] THEN {} ELSE waiting[c]

Rotate(c) ==
  /\ pc[c] = "advance"
  /\ freed' = freed \cup ready[c]
  /\ ready' = [ready EXCEPT ![c] = IF wake[c] THEN waiting[c] ELSE {}]
  /\ UNCHANGED <<glob, wake, idle, refs, reading, linked, early>>

\* ... and the batch becomes the waiting list when that is free.
AdvanceBatch(c) ==
  /\ Rotate(c) /\ Unlocked
  /\ StillWaiting(c) = {} /\ batch[c] # {}
  /\ waiting' = [waiting EXCEPT ![c] = batch[c]]
  /\ batch' = [batch EXCEPT ![c] = {}]
  /\ rgrace' = [rgrace EXCEPT ![c] = grace + 1]
  /\ seen' = [seen EXCEPT ![c] = NoRead]
  /\ pc' = [pc EXCEPT ![c] = "reread"]

AdvanceNoBatch(c) ==
  /\ Rotate(c)
  /\ StillWaiting(c) # {} \/ batch[c] = {}
  /\ waiting' = [waiting EXCEPT ![c] = StillWaiting(c)]
  /\ pc' = [pc EXCEPT ![c] = "invoke"]
  /\ UNCHANGED <<batch, rgrace, seen>>

\* The last line of rcu_advance() reads active, then grace, without the lock ...
RereadActive(c) ==
  /\ pc[c] = "reread" /\ seen[c].active = {}
  /\ seen' = [seen EXCEPT ![c].active = {active}]
  /\ UNCHANGED <<glob, pc, wake, rgrace, lists, world, early>>

RereadGrace(c) ==
  /\ pc[c] = "reread" /\ seen[c].active # {} /\ seen[c].grace = {}
  /\ seen' = [seen EXCEPT ![c].grace = {grace}]
  /\ UNCHANGED <<glob, pc, wake, rgrace, lists, world, early>>

\* ... and replaces the value written under it.
RereadDone(c) ==
  /\ pc[c] = "reread"
  /\ \E a \in seen[c].active, g \in seen[c].grace :
       /\ rgrace' = [rgrace EXCEPT ![c] = IF a THEN g ELSE g + 1]
       /\ early' = IF rgrace'[c] > grace THEN early ELSE early \cup waiting[c]
  /\ seen' = [seen EXCEPT ![c] = NoRead]
  /\ pc' = [pc EXCEPT ![c] = "invoke"]
  /\ UNCHANGED <<glob, wake, lists, world>>

\* Mutant: the callbacks stay on the ready list.
InvokeCallbacks_NotPopped(c) ==
  /\ pc[c] = "invoke"
  /\ freed' = freed \cup ready[c]
  /\ ready' = ready
  /\ pc' = [pc EXCEPT ![c] = "start"]
  /\ UNCHANGED <<glob, wake, seen, rgrace, batch, waiting, idle, refs, reading, linked, early>>

InvokeCallbacks(c) ==
  /\ pc[c] = "invoke"
  /\ freed' = freed \cup ready[c]
  /\ ready' = [ready EXCEPT ![c] = {}]
  /\ pc' = [pc EXCEPT ![c] = "start"]
  /\ UNCHANGED <<glob, wake, seen, rgrace, batch, waiting, idle, refs, reading, linked, early>>

StartNoGrace(c) ==
  /\ pc[c] = "start" /\ Unlocked
  /\ waiting[c] = {} \/ active
  /\ pc' = [pc EXCEPT ![c] = "run"]
  /\ UNCHANGED <<glob, wake, seen, rgrace, lists, world, early>>

StartGrace(c) ==
  /\ pc[c] = "start" /\ Unlocked
  /\ waiting[c] # {} /\ ~active
  /\ active' = TRUE
  /\ pc' = [pc EXCEPT ![c] = "begun"]
  /\ UNCHANGED <<ack, grace, todo, wake, seen, rgrace, lists, world, early>>

NumberGrace(c) ==
  /\ pc[c] = "begun"
  /\ grace' = grace + 1
  /\ ack' = Cpus
  /\ todo' = Cpus
  /\ pc' = [pc EXCEPT ![c] = "scan"]
  /\ UNCHANGED <<active, wake, seen, rgrace, lists, world, early>>

\* sched_is_idle() of one CPU after the other.
ScanIdle(c) ==
  /\ pc[c] = "scan"
  /\ \E d \in todo :
       /\ todo' = todo \ {d}
       /\ ack' = IF idle[d] THEN ack \ {d} ELSE ack
  /\ UNCHANGED <<grace, active, pc, wake, seen, rgrace, lists, world, early>>

ScanDone(c) ==
  /\ pc[c] = "scan" /\ todo = {}
  /\ pc' = [pc EXCEPT ![c] = "run"]
  /\ UNCHANGED <<glob, wake, seen, rgrace, lists, world, early>>

-----------------------------------------------------------------------------
Report(c) ==
  \/ CheckQuiescent(c) \/ AdvanceBatch(c) \/ AdvanceNoBatch(c)
  \/ RereadActive(c) \/ RereadGrace(c) \/ RereadDone(c)
  \/ InvokeCallbacks(c) \/ StartNoGrace(c) \/ StartGrace(c)
  \/ NumberGrace(c) \/ ScanIdle(c) \/ ScanDone(c)

Next ==
  \E c \in Cpus :
    \/ ReadLock(c) \/ ReadUnlock(c) \/ SchedDo(c) \/ Report(c)
    \/ \E o \in Objects : RcuCall(c, o)

Spec == Init /\ [][Next]_vars

\* rcu_report_quiescent() runs to its end, its lock is a ticket lock.  Nothing makes a
\* CPU call it: sched_do() returns before it when preemption is disabled, and arms no timer.
Fairness == \A c \in Cpus : SF_vars(Report(c))

FairSpec == Spec /\ Fairness

-----------------------------------------------------------------------------
(* Properties *)

\* An object is in exactly one place: linked, on one list of one CPU, or freed.
\* Otherwise its callback would run twice or never.
Pending(c) == batch[c] \cup waiting[c] \cup ready[c]

OnePlace ==
  /\ linked \cap freed = {}
  /\ \A c \in Cpus : /\ Pending(c) \cap (linked \cup freed) = {}
                     /\ batch[c] \cap waiting[c] = {}
                     /\ batch[c] \cap ready[c] = {}
                     /\ waiting[c] \cap ready[c] = {}
                     /\ \A d \in Cpus \ {c} : Pending(c) \cap Pending(d) = {}
  /\ \A o \in Objects : o \in linked \cup freed \/ \E c \in Cpus : o \in Pending(c)

\* No object is freed while a read-side section that may have found it is still
\* open (rcu.h, "delaying the freeing of a resource until its known to be
\* impossible for any CPU to be using said resource").
SafeFree == \A c \in Cpus : refs[c] \cap freed = {}

\* The same for the objects whose batch waits for a grace period that begins
\* after they were unlinked.
SafeFreeFresh == \A c \in Cpus : refs[c] \cap (freed \ early) = {}

\* A grace period that some CPU has yet to acknowledge ends, whatever CPUs become idle, read
\* or call back meanwhile, unless one of them never again gets past sched_do().  One that was
\* begun while every CPU was idle has nobody to end it.
GraceEnds ==
  \/ \E c \in Cpus : <>[](c \in ack /\ pc[c] = "run")
  \/ (active /\ ack # {} /\ Unlocked) ~> ~active

-----------------------------------------------------------------------------
(* Proofs, for any number of CPUs and objects.  The inductive invariant is   *)
(* SafetyInv, on top of TypeOK and OnePlace.                                 *)

\* Read-side sections run on busy CPUs outside rcu_report_quiescent().
ReadersRun ==
  \A c \in Cpus : /\ refs[c] # {} => reading[c]
                  /\ reading[c] => pc[c] = "run" /\ ~idle[c]

\* Whoever holds an object of a fresh waiting list has yet to acknowledge the
\* grace period the list waits for.
FreshWaits ==
  \A c \in Cpus : \A o \in waiting[c] \ early : \A d \in Cpus :
    pc[c] # "reread" /\ o \in refs[d] =>
      grace < rgrace[c] \/ (grace = rgrace[c] /\ active /\ d \in ack)

\* A list found to be past its grace period has no holders left.
WokenUnheld ==
  \A c \in Cpus : pc[c] = "advance" /\ wake[c] =>
    \A o \in waiting[c] \ early : \A d \in Cpus : o \notin refs[d]

ReadyUnheld ==
  \A c \in Cpus : \A o \in ready[c] \ early : \A d \in Cpus : o \notin refs[d]

\* rcu_start_grace() is run by one CPU at a time, and finds no acknowledgement due.
StartsAlone ==
  /\ \A c, d \in Cpus : pc[c] \in {"begun", "scan"} /\ pc[d] \in {"begun", "scan"} => c = d
  /\ ~active => ack = {}
  /\ \A c \in Cpus : pc[c] = "begun" => active /\ ack = {}

SafetyInv ==
  ReadersRun /\ StartsAlone /\ FreshWaits /\ WokenUnheld /\ ReadyUnheld /\ SafeFreeFresh

-----------------------------------------------------------------------------
(* Type correctness *)

\* TypeOK is inductive.
LEMMA TypeOKStep == TypeOK /\ [Next]_vars => TypeOK'
<1> SUFFICES ASSUME TypeOK, [Next]_vars PROVE TypeOK'
  OBVIOUS
<1> USE DEF TypeOK, glob, lists, world
<1>0. CASE UNCHANGED vars
  BY <1>0 DEF vars
<1>1. ASSUME NEW c \in Cpus, ReadLock(c) PROVE TypeOK'
  BY <1>1 DEF ReadLock
<1>2. ASSUME NEW c \in Cpus, ReadUnlock(c) PROVE TypeOK'
  BY <1>2 DEF ReadUnlock
<1>3. ASSUME NEW c \in Cpus, SchedDo(c) PROVE TypeOK'
  BY <1>3 DEF SchedDo
<1>4. ASSUME NEW c \in Cpus, CheckQuiescent(c) PROVE TypeOK'
  BY <1>4 DEF CheckQuiescent
<1>5. ASSUME NEW c \in Cpus, AdvanceBatch(c) PROVE TypeOK'
  BY <1>5 DEF AdvanceBatch, Rotate, StillWaiting, NoRead
<1>6. ASSUME NEW c \in Cpus, AdvanceNoBatch(c) PROVE TypeOK'
  BY <1>6 DEF AdvanceNoBatch, Rotate, StillWaiting
<1>7. ASSUME NEW c \in Cpus, RereadActive(c) PROVE TypeOK'
  BY <1>7 DEF RereadActive
<1>8. ASSUME NEW c \in Cpus, RereadGrace(c) PROVE TypeOK'
  BY <1>8 DEF RereadGrace
<1>9. ASSUME NEW c \in Cpus, RereadDone(c) PROVE TypeOK'
  BY <1>9 DEF RereadDone, NoRead
<1>10. ASSUME NEW c \in Cpus, InvokeCallbacks(c) PROVE TypeOK'
  BY <1>10 DEF InvokeCallbacks
<1>11. ASSUME NEW c \in Cpus, StartNoGrace(c) PROVE TypeOK'
  BY <1>11 DEF StartNoGrace
<1>12. ASSUME NEW c \in Cpus, StartGrace(c) PROVE TypeOK'
  BY <1>12 DEF StartGrace
<1>13. ASSUME NEW c \in Cpus, ScanIdle(c) PROVE TypeOK'
  BY <1>13 DEF ScanIdle
<1>14. ASSUME NEW c \in Cpus, ScanDone(c) PROVE TypeOK'
  BY <1>14 DEF ScanDone
<1>15. ASSUME NEW c \in Cpus, NEW o \in Objects, RcuCall(c, o) PROVE TypeOK'
  BY <1>15 DEF RcuCall
<1>16. ASSUME NEW c \in Cpus, NumberGrace(c) PROVE TypeOK'
  BY <1>16 DEF NumberGrace
<1> QED
  BY <1>0, <1>1, <1>2, <1>3, <1>4, <1>5, <1>6, <1>7, <1>8, <1>9, <1>10, <1>11, <1>12, <1>13,
          <1>14, <1>15, <1>16 DEF Next, Report

\* The state of RCU stays within its types: every list, counter and flag of
\* rcu.c holds what its declaration says, whatever the interleaving.
THEOREM TypeCorrect == Spec => []TypeOK
<1>1. Init => TypeOK
  <2> SUFFICES ASSUME Init PROVE TypeOK
    OBVIOUS
  <2>1. NoRead \in [active : SUBSET BOOLEAN, grace : SUBSET Nat]
    BY DEF NoRead
  <2> QED
    BY <2>1 DEF Init, TypeOK
<1> QED
  BY <1>1, TypeOKStep, PTL DEF Spec

-----------------------------------------------------------------------------
(* Every object is in one place *)

\* The places depend on the lists and on linked and freed only.
LEMMA OnePlaceFrame ==
  OnePlace /\ UNCHANGED <<lists, linked, freed>> => OnePlace'
  BY DEF OnePlace, Pending, lists

\* Every step leaves each callback in at most one place.
LEMMA OnePlaceStep == TypeOK /\ OnePlace /\ [Next]_vars => OnePlace'
<1> SUFFICES ASSUME TypeOK, OnePlace, [Next]_vars PROVE OnePlace'
  OBVIOUS
<1>0. CASE UNCHANGED <<lists, linked, freed>>
  BY <1>0, OnePlaceFrame
<1> USE DEF TypeOK, OnePlace, Pending
<1>1. ASSUME NEW c \in Cpus, SchedDo(c) PROVE OnePlace'
  BY <1>1 DEF SchedDo
<1>2. ASSUME NEW c \in Cpus, AdvanceBatch(c) PROVE OnePlace'
  BY <1>2 DEF AdvanceBatch, Rotate, StillWaiting
<1>3. ASSUME NEW c \in Cpus, AdvanceNoBatch(c) PROVE OnePlace'
  BY <1>3 DEF AdvanceNoBatch, Rotate, StillWaiting
<1>4. ASSUME NEW c \in Cpus, InvokeCallbacks(c) PROVE OnePlace'
  BY <1>4 DEF InvokeCallbacks
<1>5. ASSUME NEW c \in Cpus, NEW o \in Objects, RcuCall(c, o) PROVE OnePlace'
  BY <1>5 DEF RcuCall
<1> QED
  BY <1>0, <1>1, <1>2, <1>3, <1>4, <1>5
  DEF Next, Report, vars, world, ReadLock, ReadUnlock, CheckQuiescent, RereadActive,
      RereadGrace, RereadDone, StartNoGrace, StartGrace, NumberGrace, ScanIdle, ScanDone

\* No callback is lost and none runs twice: the three lists of every CPU, the
\* linked and the freed objects partition the objects in every reachable state.
THEOREM CallbackOnce == Spec => []OnePlace
<1>1. Init => OnePlace
  BY DEF Init, OnePlace, Pending
<1> QED
  BY <1>1, OnePlaceStep, TypeCorrect, PTL DEF Spec

-----------------------------------------------------------------------------
(* Nothing that waited for a fresh grace period is freed while it is held *)

\* A list is woken, made ready and freed only when its last holder is gone.
LEMMA SafetyStep == TypeOK /\ OnePlace /\ SafetyInv /\ [Next]_vars => SafetyInv'
<1> SUFFICES ASSUME TypeOK, OnePlace, SafetyInv, [Next]_vars PROVE SafetyInv'
  OBVIOUS
<1> USE DEF TypeOK, SafetyInv, ReadersRun, StartsAlone, FreshWaits, WokenUnheld, ReadyUnheld,
            SafeFreeFresh, glob, lists, world
<1>0. CASE UNCHANGED vars
  BY <1>0 DEF vars
<1>1. ASSUME NEW c \in Cpus, ReadLock(c) PROVE SafetyInv'
  BY <1>1 DEF ReadLock, OnePlace, Pending
<1>2. ASSUME NEW c \in Cpus, ReadUnlock(c) PROVE SafetyInv'
  BY <1>2 DEF ReadUnlock
<1>3. ASSUME NEW c \in Cpus, SchedDo(c) PROVE SafetyInv'
  BY <1>3 DEF SchedDo
<1>4. ASSUME NEW c \in Cpus, CheckQuiescent(c) PROVE SafetyInv'
  BY <1>4 DEF CheckQuiescent, Unlocked
<1>5. ASSUME NEW c \in Cpus, AdvanceBatch(c) PROVE SafetyInv'
  BY <1>5 DEF AdvanceBatch, Rotate, StillWaiting
<1>6. ASSUME NEW c \in Cpus, AdvanceNoBatch(c) PROVE SafetyInv'
  BY <1>6 DEF AdvanceNoBatch, Rotate, StillWaiting
<1>7. ASSUME NEW c \in Cpus, RereadActive(c) PROVE SafetyInv'
  BY <1>7 DEF RereadActive
<1>8. ASSUME NEW c \in Cpus, RereadGrace(c) PROVE SafetyInv'
  BY <1>8 DEF RereadGrace
<1>9. ASSUME NEW c \in Cpus, RereadDone(c) PROVE SafetyInv'
  BY <1>9 DEF RereadDone
<1>10. ASSUME NEW c \in Cpus, InvokeCallbacks(c) PROVE SafetyInv'
  BY <1>10 DEF InvokeCallbacks
<1>11. ASSUME NEW c \in Cpus, StartNoGrace(c) PROVE SafetyInv'
  BY <1>11 DEF StartNoGrace
<1>12. ASSUME NEW c \in Cpus, StartGrace(c) PROVE SafetyInv'
  BY <1>12 DEF StartGrace, Unlocked
<1>13. ASSUME NEW c \in Cpus, ScanIdle(c) PROVE SafetyInv'
  BY <1>13 DEF ScanIdle
<1>14. ASSUME NEW c \in Cpus, ScanDone(c) PROVE SafetyInv'
  BY <1>14 DEF ScanDone
<1>15. ASSUME NEW c \in Cpus, NEW o \in Objects, RcuCall(c, o) PROVE SafetyInv'
  BY <1>15 DEF RcuCall
<1>16. ASSUME NEW c \in Cpus, NumberGrace(c) PROVE SafetyInv'
  BY <1>16 DEF NumberGrace
<1> QED
  BY <1>0, <1>1, <1>2, <1>3, <1>4, <1>5, <1>6, <1>7, <1>8, <1>9, <1>10, <1>11, <1>12, <1>13,
          <1>14, <1>15, <1>16 DEF Next, Report

\* An object whose batch waits for a grace period that begins after it was
\* unlinked is not freed while a read-side section that may have found it is
\* open, for any number of CPUs: rcu_check_quiescent() releases the list only
\* when every CPU that could hold the object has passed sched_do().
THEOREM FreshObjectsSafe == Spec => []SafeFreeFresh
<1>1. Init => SafetyInv
  BY DEF Init, SafetyInv, ReadersRun, StartsAlone, FreshWaits, WokenUnheld, ReadyUnheld,
         SafeFreeFresh
<1>2. Spec => []SafetyInv
  BY <1>1, SafetyStep, TypeCorrect, CallbackOnce, PTL DEF Spec
<1>3. SafetyInv => SafeFreeFresh
  BY DEF SafetyInv
<1> QED
  BY <1>2, <1>3, PTL
=============================================================================
