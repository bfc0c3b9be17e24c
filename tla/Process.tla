------------------------------- MODULE Process ------------------------------
(***************************************************************************)
(* The life of a process: creation (src/kernel/proc/process.c), its        *)
(* threads (src/kernel/sched/thread.c), SYS_SPAWN and SYS_THREAD_CREATE    *)
(* (src/kernel/sched/loader.c), process_kill(), reading its "wait" file    *)
(* (src/kernel/fs/procfs.c) and the reaper (src/kernel/proc/reaper.c).     *)
(*                                                                         *)
(* Reference counts are kept as the code keeps them, by REF and UNREF; who *)
(* owns a reference is only used by the properties.  Regions under one     *)
(* lock are one action.  Freeing memory through RCU is module Rcu.         *)
(***************************************************************************)
EXTENDS Naturals, FiniteSets

CONSTANTS
  Procs, Threads,
  First, Main,   \* the process that exists at the start and its thread
  None

ASSUME ProcessAssumption ==
  /\ IsFiniteSet(Threads) /\ First \in Procs /\ Main \in Threads
  /\ None \notin Procs \cup Threads

VARIABLES
  refs,     \* process->ref
  state,    \* of a process: "none", "alive" or "freed"
  dying,    \* PROCESS_DYING
  status,   \* process->status: who wrote it
  listed,   \* in pidMap and _processes
  owner,    \* thread->process
  linked,   \* threads in the list of their process
  note,     \* threads with NOTE_QUEUE_RECEIVED_KILL
  job,      \* what a running thread does in the kernel
  zombies,  \* the reaper's list
  reaper,   \* reaper_thread(): what it has and where it is
  before    \* history: threads of a process when process_kill() marked it

procs == <<refs, state, dying, status, listed>>
thrds == <<owner, linked, note>>
vars  == <<procs, thrds, job, zombies, reaper, before>>

\* A job: the process it is about, whether it holds a reference to it, the thread it
\* creates and the threads it has not told yet.
Run == [at |-> "user", proc |-> None, held |-> FALSE, thread |-> None, todo |-> {}]

Init ==
  /\ refs = [p \in Procs |-> IF p = First THEN 2 ELSE 0]  \* the list and its thread
  /\ state = [p \in Procs |-> IF p = First THEN "alive" ELSE "none"]
  /\ dying = {} /\ status = [p \in Procs |-> None] /\ listed = {First}
  /\ owner = [t \in Threads |-> IF t = Main THEN First ELSE None]
  /\ linked = {Main} /\ note = {}
  /\ job = [t \in Threads |-> IF t = Main THEN Run ELSE [Run EXCEPT !.at = "none"]]
  /\ zombies = {} /\ reaper = [at |-> "sleep", local |-> {}]
  /\ before = [p \in Procs |-> {}]

-----------------------------------------------------------------------------
\* REF and UNREF: the last one runs process_free().
Ref(p) == refs' = [refs EXCEPT ![p] = @ + 1] /\ UNCHANGED state
Unref(p) ==
  /\ refs' = [refs EXCEPT ![p] = @ - 1]
  /\ state' = IF refs[p] = 1 THEN [state EXCEPT ![p] = "freed"] ELSE state

ThreadsOf(p) == {t \in linked : owner[t] = p}
At(t, at) == job[t].at = at
Goto(t, at) == job' = [job EXCEPT ![t].at = at]
Begin(t, at, p, held) ==
  job' = [job EXCEPT ![t] = [Run EXCEPT !.at = at, !.proc = p, !.held = held]]

\* SYS_SPAWN: process_new() leaves one reference in the list and one with the caller.
Spawn(t, p) ==
  /\ At(t, "user") /\ state[p] = "none"
  /\ state' = [state EXCEPT ![p] = "alive"] /\ refs' = [refs EXCEPT ![p] = 2]
  /\ listed' = listed \cup {p}
  /\ Begin(t, "spawned", p, TRUE)
  /\ UNCHANGED <<dying, status, thrds, zombies, reaper, before>>

\* thread_new() of SYS_SPAWN or SYS_THREAD_CREATE: a dying process gets no thread.
ThreadNew(t) ==
  LET p == IF At(t, "spawned") THEN job[t].proc ELSE owner[t] IN
  /\ At(t, "spawned") \/ At(t, "user")
  /\ \/ /\ p \notin dying
        /\ \E u \in Threads : /\ At(u, "none") /\ \A v \in Threads : job[v].thread # u
                              /\ job' = [job EXCEPT ![t] = [@ EXCEPT !.proc = p, !.thread = u,
                                           !.at = IF At(t, "user") THEN "create" ELSE "add"]]
     \/ /\ p \in dying /\ At(t, "spawned") /\ Goto(t, "unref")
  /\ UNCHANGED <<procs, thrds, zombies, reaper, before>>

\* REF(process), then the list under its lock; the thread is submitted.
ThreadAdd(t) ==
  LET p == job[t].proc  u == job[t].thread IN
  /\ At(t, "add") \/ At(t, "create")
  /\ owner' = [owner EXCEPT ![u] = p] /\ linked' = linked \cup {u}
  /\ Ref(p)
  /\ job' = [job EXCEPT ![u] = Run,
                        ![t] = IF At(t, "create") THEN Run
                               ELSE [@ EXCEPT !.at = "unref", !.thread = None]]
  /\ UNCHANGED <<dying, status, listed, note, zombies, reaper, before>>

SpawnDone(t) ==
  /\ At(t, "unref") /\ Unref(job[t].proc) /\ job' = [job EXCEPT ![t] = Run]
  /\ UNCHANGED <<dying, status, listed, thrds, zombies, reaper, before>>

\* process_get(), for a file under /proc: REF_TRY on what the map holds.
Get(t, p, at) ==
  /\ At(t, "user") /\ p \in listed /\ refs[p] > 0
  /\ Ref(p) /\ Begin(t, at, p, TRUE)
  /\ UNCHANGED <<dying, status, listed, thrds, zombies, reaper, before>>

-----------------------------------------------------------------------------
(* process_kill(), by the "kill" file or by sched_exits() *)

Exits(t) == At(t, "user") /\ Begin(t, "kill", owner[t], FALSE)
            /\ UNCHANGED <<procs, thrds, zombies, reaper, before>>

\* Back from process_kill(): sched_exits() ends the thread, a file is closed.
Killed(t) == IF job[t].held THEN "unref" ELSE "dying"

KillMark(t) ==
  LET p == job[t].proc IN
  /\ At(t, "kill")
  /\ dying' = dying \cup {p}
  /\ IF p \in dying
     THEN Goto(t, Killed(t)) /\ UNCHANGED before
     ELSE Goto(t, "status") /\ before' = [before EXCEPT ![p] = ThreadsOf(p)]
  /\ UNCHANGED <<refs, state, status, listed, thrds, zombies, reaper>>

\* Mutant: the walk begins behind the first thread of the list.
KillStatus_SkipsFirst(t) ==
  LET p == job[t].proc IN
  /\ At(t, "status")
  /\ status' = [status EXCEPT ![p] = t]
  /\ job' = [job EXCEPT ![t].at = "walk",
             ![t].todo = ThreadsOf(p) \ {CHOOSE u \in ThreadsOf(p) : TRUE}]
  /\ UNCHANGED <<refs, state, dying, listed, thrds, zombies, reaper, before>>

\* The status is copied; the walk over the threads begins.
KillStatus(t) ==
  LET p == job[t].proc IN
  /\ At(t, "status")
  /\ status' = [status EXCEPT ![p] = t]
  /\ job' = [job EXCEPT ![t].at = "walk", ![t].todo = ThreadsOf(p)]
  /\ UNCHANGED <<refs, state, dying, listed, thrds, zombies, reaper, before>>

\* One thread of the list gets the note, unless it has left the list by now.
KillNote(t) ==
  /\ At(t, "walk")
  /\ \E u \in job[t].todo :
       /\ job' = [job EXCEPT ![t].todo = @ \ {u}]
       /\ note' = IF u \in linked THEN note \cup {u} ELSE note
  /\ UNCHANGED <<procs, owner, linked, zombies, reaper, before>>

\* Files, working directory, namespace and group are given up, everyone who reads
\* the "wait" file is woken.
KillClean(t) ==
  /\ At(t, "walk") /\ job[t].todo = {}
  /\ job' = [u \in Threads |->
               IF u = t THEN [job[t] EXCEPT !.at = "push"]
               ELSE IF At(u, "waiting") /\ job[u].proc = job[t].proc
                    THEN [job[u] EXCEPT !.at = "wait"] ELSE job[u]]
  /\ UNCHANGED <<procs, thrds, zombies, reaper, before>>

ReaperLocked == reaper.at = "scan"

\* Mutant: no reference for the reaper.
KillPush_NoRef(t) ==
  /\ At(t, "push") /\ ~ReaperLocked
  /\ zombies' = zombies \cup {job[t].proc} /\ UNCHANGED <<refs, state>>
  /\ Goto(t, Killed(t))
  /\ UNCHANGED <<dying, status, listed, thrds, reaper, before>>

\* reaper_push()
KillPush(t) ==
  /\ At(t, "push") /\ ~ReaperLocked
  /\ zombies' = zombies \cup {job[t].proc} /\ Ref(job[t].proc)
  /\ Goto(t, Killed(t))
  /\ UNCHANGED <<dying, status, listed, thrds, reaper, before>>

-----------------------------------------------------------------------------
(* Reading the "wait" file: WAIT_BLOCK() tests before it queues the thread *)

WaitTest(t) ==
  /\ At(t, "wait") /\ Goto(t, IF job[t].proc \in dying THEN "unref" ELSE "prepare")
  /\ UNCHANGED <<procs, thrds, zombies, reaper, before>>

WaitPrepare(t) ==
  /\ At(t, "prepare") /\ Goto(t, "waiting")
  /\ UNCHANGED <<procs, thrds, zombies, reaper, before>>

\* A note ends the wait.
WaitNoted(t) ==
  /\ At(t, "waiting") /\ t \in note /\ Goto(t, "unref")
  /\ UNCHANGED <<procs, thrds, zombies, reaper, before>>

-----------------------------------------------------------------------------
\* note_handle_pending() on the way to user space; SYS_THREAD_EXIT.
HandleKill(t) ==
  /\ At(t, "user") /\ t \in note /\ Goto(t, "dying") /\ note' = note \ {t}
  /\ UNCHANGED <<procs, owner, linked, zombies, reaper, before>>

ThreadExit(t) ==
  /\ At(t, "user") /\ Goto(t, "dying")
  /\ UNCHANGED <<procs, thrds, zombies, reaper, before>>

\* thread_free(), by the scheduler.
ThreadFree(t) ==
  /\ At(t, "dying")
  /\ linked' = linked \ {t} /\ Unref(owner[t])
  /\ owner' = [owner EXCEPT ![t] = None] /\ Goto(t, "gone")
  /\ UNCHANGED <<dying, status, listed, note, zombies, reaper, before>>

-----------------------------------------------------------------------------
(* reaper_thread() *)

ReaperWakes ==
  /\ reaper.at = "sleep" /\ reaper' = [at |-> "scan", local |-> {}]
  /\ UNCHANGED <<procs, thrds, job, zombies, before>>

\* A zombie without threads is taken; one with threads goes to the end of the list
\* and is tested again, under the lock, until it has none.
ReaperTakes ==
  /\ reaper.at = "scan"
  /\ \E p \in zombies :
       /\ ThreadsOf(p) = {}
       /\ zombies' = zombies \ {p} /\ reaper' = [reaper EXCEPT !.local = @ \cup {p}]
  /\ UNCHANGED <<procs, thrds, job, before>>

ReaperUnlocks ==
  /\ reaper.at = "scan" /\ zombies = {} /\ reaper' = [reaper EXCEPT !.at = "remove"]
  /\ UNCHANGED <<procs, thrds, job, zombies, before>>

\* process_remove() and UNREF(process): two references.
ReaperRemoves ==
  /\ reaper.at = "remove"
  /\ \E p \in reaper.local :
       /\ listed' = listed \ {p}
       /\ refs' = [refs EXCEPT ![p] = @ - 2]
       /\ state' = IF refs[p] = 2 THEN [state EXCEPT ![p] = "freed"] ELSE state
       /\ reaper' = [reaper EXCEPT !.local = @ \ {p}]
  /\ UNCHANGED <<dying, status, thrds, job, zombies, before>>

ReaperSleeps ==
  /\ reaper.at = "remove" /\ reaper.local = {} /\ reaper' = [reaper EXCEPT !.at = "sleep"]
  /\ UNCHANGED <<procs, thrds, job, zombies, before>>

-----------------------------------------------------------------------------
Kill(t) == KillMark(t) \/ KillStatus(t) \/ KillNote(t) \/ KillClean(t) \/ KillPush(t)
Create(t) == ThreadNew(t) \/ ThreadAdd(t) \/ SpawnDone(t) \/ \E p \in Procs : Spawn(t, p)
Wait(t) == WaitTest(t) \/ WaitPrepare(t) \/ WaitNoted(t)
Finish(t) == Exits(t) \/ HandleKill(t) \/ ThreadExit(t) \/ ThreadFree(t)
Reap == ReaperWakes \/ ReaperTakes \/ ReaperUnlocks \/ ReaperRemoves \/ ReaperSleeps

Next ==
  \/ \E t \in Threads : Kill(t) \/ Create(t) \/ Wait(t) \/ Finish(t)
                          \/ \E p \in Procs : Get(t, p, "kill") \/ Get(t, p, "wait")
  \/ Reap

Spec == Init /\ [][Next]_vars

-----------------------------------------------------------------------------
(* Properties *)

\* Everything that may still reach process p: the list of processes, its threads, a
\* thread that got it from spawn() or process_get(), and the reaper.
Holders(p) ==
  (IF p \in listed THEN 1 ELSE 0) + Cardinality(ThreadsOf(p))
    + Cardinality({t \in Threads : job[t].proc = p /\ job[t].held})
    + (IF p \in zombies \cup reaper.local THEN 1 ELSE 0)

\* The reference count of a process is the number of its holders, and it is freed
\* when, and only when, there is none left: neither a late thread, a killer that
\* still works on it, nor the reaper finds freed memory.
CountedHolders ==
  \A p \in Procs : state[p] # "none" => /\ refs[p] = Holders(p)
                                        /\ state[p] = "freed" <=> Holders(p) = 0

\* When process_kill() hands a process to the reaper, every thread the process had
\* when it was marked has been told, or has gone already, whatever threads exited
\* during the walk.
KillTellsAll ==
  \A p \in zombies \cup reaper.local : \A t \in before[p] :
    t \in linked => t \in note \/ job[t].at = "dying"
=============================================================================
