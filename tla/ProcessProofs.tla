---------------------------- MODULE ProcessProofs ---------------------------
(***************************************************************************)
(* Proofs about the life of a process, for any number of processes and     *)
(* threads: its reference count is the number of its holders, and a kill   *)
(* tells every thread.                                                     *)
(***************************************************************************)
EXTENDS Process, FiniteSetTheorems, TLAPS

Places == {"none", "user", "spawned", "add", "create", "unref", "kill", "status", "walk", "push",
           "wait", "prepare", "waiting", "dying", "gone"}
Jobs == [at : Places, proc : Procs \cup {None}, held : BOOLEAN, thread : Threads \cup {None},
         todo : SUBSET Threads]

ProcType ==
  /\ refs \in [Procs -> Int] /\ state \in [Procs -> {"none", "alive", "freed"}]
  /\ dying \subseteq Procs /\ listed \subseteq Procs /\ before \in [Procs -> SUBSET Threads]

ThreadType ==
  /\ owner \in [Threads -> Procs \cup {None}] /\ linked \subseteq Threads /\
          note \subseteq Threads

JobType == job \in [Threads -> Jobs]

ReaperType ==
  /\ zombies \subseteq Procs
  /\ reaper.at \in {"sleep", "scan", "remove"} /\ reaper.local \subseteq Procs
  /\ reaper = [at |-> reaper.at, local |-> reaper.local]
  /\ reaper.at = "sleep" => reaper.local = {}

TypeOK == ProcType /\ ThreadType /\ JobType /\ ReaperType

\* A thread is in the list of its process from thread_new() to thread_free().
Lives ==
  \A t \in Threads : /\ t \in linked <=> job[t].at \notin {"none", "gone"}
                     /\ t \in linked <=> owner[t] # None

\* A thread that is being created has not run and has one creator.
Creates ==
  \A t \in Threads :
    /\ job[t].at \in {"add", "create"} =>
         job[t].thread \in Threads /\ job[job[t].thread].at = "none"
    /\ job[t].at \notin {"add", "create"} => job[t].thread = None
    /\ \A u \in Threads : job[t].thread # None /\ job[t].thread = job[u].thread => t = u

\* Which processes a thread in the kernel works on, and whether it holds a reference.
Holds ==
  \A t \in Threads :
    /\ job[t].at \in {"none", "user", "create", "dying", "gone"} => ~job[t].held
    /\ job[t].at \in {"spawned", "add", "unref", "wait", "prepare", "waiting"} => job[t].held
    /\ job[t].held => job[t].proc # None
    /\ ~job[t].held /\ job[t].at \in {"create", "kill", "status", "walk", "push"} =>
         job[t].proc = owner[t]

\* A process that was not made yet is known to nobody, one that is not listed is dying.
Made ==
  \A p \in Procs :
    /\ state[p] = "none" =>
         /\ p \notin listed /\ p \notin dying
         /\ \A t \in Threads : owner[t] # p /\ job[t].proc # p
    /\ state[p] # "none" => p \in listed \/ p \in dying

Kills(t, p) == job[t].at \in {"status", "walk", "push"} /\ job[t].proc = p

\* A process is killed by one thread, and goes to the reaper afterwards.
Killing ==
  /\ \A t \in Threads : \A p \in Procs : Kills(t, p) =>
       /\ p \in dying /\ p \in listed /\ p \notin zombies /\ p \notin reaper.local
       /\ \A u \in Threads : Kills(u, p) => u = t
  /\ \A p \in Procs : p \in zombies \/ p \in reaper.local => p \in dying /\ p \in listed
  /\ \A p \in zombies : p \notin reaper.local

Counted ==
  \A p \in Procs : state[p] # "none" => refs[p] = Holders(p) /\ (state[p] = "freed" <=>
          refs[p] = 0)

Inv == TypeOK /\ Lives /\ Creates /\ Holds /\ Made /\ Killing /\ Counted

Told(u) == u \in note \/ job[u].at = "dying"

\* The threads a process had when it was marked.
Before ==
  \A p \in Procs : \A u \in before[p] :
    /\ job[u].at # "none"
    /\ u \in linked => owner[u] = p
    /\ p \in zombies \/ p \in reaper.local => (u \in linked => Told(u))
    /\ \A t \in Threads : job[t].proc = p =>
         /\ job[t].at = "walk" /\ u \in linked => u \in job[t].todo \/ Told(u)
         /\ job[t].at = "push" /\ u \in linked => Told(u)
    /\ p \in dying

\* Thread t, in the user program or in SYS_SPAWN, has got a thread u for process p.
Newly(t, u, p) ==
  /\ p \in Procs /\ p \notin dying /\ u \in Threads /\ job[u].at = "none" /\ u # t
  /\ \A v \in Threads : job[v].thread # u
  /\ \/ job[t].at = "user" /\ p = owner[t] /\ job'[t].at = "create"
     \/ job[t].at = "spawned" /\ p = job[t].proc /\ job'[t].at = "add"
  /\ job'[t].proc = p /\ job'[t].thread = u /\ job'[t].held = job[t].held
  /\ job'[t].todo = job[t].todo
  /\ \A v \in Threads : v # t => job'[v] = job[v]
  /\ job' \in [Threads -> Jobs]

\* Thread t has gone from a place to another, at most.
Moves(t, at) ==
  /\ job'[t].at = at /\ job'[t].proc = job[t].proc /\ job'[t].thread = job[t].thread
  /\ job'[t].held = job[t].held /\ job'[t].todo = job[t].todo
  /\ \A v \in Threads : v # t => job'[v] = job[v]
  /\ job' \in [Threads -> Jobs]

\* Thread t has put its new thread u into the list of p.
Added(t, u, p) ==
  /\ p \in Procs /\ u \in Threads /\ u # t /\ job[t].proc = p /\ job[t].thread = u
  /\ job[u].at = "none" /\ u \notin linked /\ owner[u] = None /\ ~job[u].held
  /\ owner'[u] = p /\ (\A v \in Threads : v # u => owner'[v] = owner[v])
  /\ owner' \in [Threads -> Procs \cup {None}]
  /\ linked' = linked \cup {u}
  /\ refs' = [refs EXCEPT ![p] = @ + 1] /\ state' = state
  /\ job'[u] = Run
  /\ \/ job[t].at = "create" /\ job'[t] = Run /\ ~job[t].held
     \/ /\ job[t].at = "add" /\ job'[t].at = "unref" /\ job'[t].thread = None
        /\ job'[t].proc = p /\ job'[t].held /\ job[t].held /\ job'[t].todo = job[t].todo
  /\ \A v \in Threads : v # t /\ v # u => job'[v] = job[v]
  /\ job' \in [Threads -> Jobs]

\* The process a thread works on, or is a thread of, exists.
LEMMA Works ==
  ASSUME Inv
  PROVE  \A t \in Threads :
           /\ job[t].at \in {"spawned", "add", "create", "unref", "kill", "status", "walk",
                   "push",
                             "wait", "prepare", "waiting"} =>
                job[t].proc \in Procs /\ state[job[t].proc] # "none"
           /\ job[t].at \notin {"none", "gone"} => owner[t] \in Procs /\ state[owner[t]] # "none"
<1> USE DEF Inv, TypeOK, JobType, Jobs, ThreadType, Lives, Made
<1> SUFFICES ASSUME NEW t \in Threads
             PROVE  /\ job[t].at \in {"spawned", "add", "create", "unref", "kill", "status",
                     "walk",
                                      "push", "wait", "prepare", "waiting"} =>
                         job[t].proc \in Procs /\ state[job[t].proc] # "none"
                    /\ job[t].at \notin {"none", "gone"} =>
                         owner[t] \in Procs /\ state[owner[t]] # "none"
  OBVIOUS
<1>1. job[t].at \notin {"none", "gone"} => owner[t] \in Procs /\ state[owner[t]] # "none"
  OBVIOUS
<1>2. job[t].at \in {"spawned", "add", "create", "unref", "kill", "status", "walk", "push",
                     "wait", "prepare", "waiting"} => job[t].proc \in Procs
  BY <1>1 DEF Holds
<1> QED BY <1>1, <1>2

\* What a place's change leaves.
LEMMA GotoFx ==
  ASSUME JobType, NEW t \in Threads, NEW at \in Places, Goto(t, at)
  PROVE  Moves(t, at)
BY DEF JobType, Jobs, Goto, Moves

\* What thread_new() does.
LEMMA ThreadNewFx ==
  ASSUME Inv, NEW t \in Threads, ThreadNew(t)
  PROVE  \/ \E u \in Threads, p \in Procs : Newly(t, u, p)
         \/ job[t].at = "spawned" /\ Moves(t, "unref")
<1> DEFINE p == IF At(t, "spawned") THEN job[t].proc ELSE owner[t]
<1>0. JobType /\ p \in Procs /\ job[t].at \in {"spawned", "user"}
  BY Works DEF ThreadNew, At, Inv, TypeOK
<1>1. CASE p \in dying /\ At(t, "spawned") /\ Goto(t, "unref")
  BY <1>0, <1>1, GotoFx DEF At, Places
<1>2. ASSUME NEW u \in Threads, p \notin dying, At(u, "none"),
             \A v \in Threads : job[v].thread # u,
             job' = [job EXCEPT ![t] = [@ EXCEPT !.proc = p, !.thread = u,
                                          !.at = IF At(t, "user") THEN "create" ELSE "add"]]
      PROVE  Newly(t, u, p)
  <2> DEFINE to == IF At(t, "user") THEN "create" ELSE "add"
             r  == [job[t] EXCEPT !.proc = p, !.thread = u, !.at = to]
  <2>1. /\ r \in Jobs /\ r.proc = p /\ r.thread = u /\ r.at = to
        /\ r.held = job[t].held /\ r.todo = job[t].todo
    BY <1>0 DEF JobType, Jobs, Places
  <2>2. job'[t] = r /\ (\A v \in Threads : v # t => job'[v] = job[v])
    BY <1>2, <1>0 DEF JobType
  <2>3. job' \in [Threads -> Jobs]
    BY <1>2, <1>0, <2>1 DEF JobType
  <2>4. \/ job[t].at = "user" /\ p = owner[t] /\ to = "create"
        \/ job[t].at = "spawned" /\ p = job[t].proc /\ to = "add"
    BY <1>0 DEF At
  <2> HIDE DEF p, to, r
  <2> QED BY <1>0, <1>2, <2>1, <2>2, <2>3, <2>4 DEF Newly, At
<1> HIDE DEF p
<1>3. \/ p \in dying /\ At(t, "spawned") /\ Goto(t, "unref")
      \/ \E u \in Threads :
           /\ p \notin dying /\ At(u, "none") /\ \A v \in Threads : job[v].thread # u
           /\ job' = [job EXCEPT ![t] = [@ EXCEPT !.proc = p, !.thread = u,
                                          !.at = IF At(t, "user") THEN "create" ELSE "add"]]
  BY DEF ThreadNew, p
<1> QED BY <1>0, <1>1, <1>2, <1>3

\* What the new thread's entry into the list does.
LEMMA ThreadAddFx ==
  ASSUME Inv, NEW t \in Threads, ThreadAdd(t)
  PROVE  \E u \in Threads, p \in Procs : Added(t, u, p)
<1> DEFINE p == job[t].proc
           u == job[t].thread
           r == IF At(t, "create") THEN Run ELSE [job[t] EXCEPT !.at = "unref", !.thread = None]
<1>0. /\ JobType /\ job[t] \in Jobs
      /\ p \in Procs /\ job[t].at \in {"add", "create"} /\ u \in Threads /\ job[u].at = "none"
  BY Works DEF ThreadAdd, At, Inv, TypeOK, Creates, JobType
<1>1. u # t /\ u \notin linked /\ owner[u] = None /\ ~job[u].held
  BY <1>0 DEF Inv, Lives, Holds
<1>2. /\ owner'[u] = p /\ (\A v \in Threads : v # u => owner'[v] = owner[v])
      /\ owner' \in [Threads -> Procs \cup {None}]
  BY <1>0 DEF ThreadAdd, Inv, TypeOK, ThreadType
<1>3. Run \in Jobs /\ r \in Jobs
  BY <1>0 DEF Run, Jobs, Places
<1>4. /\ job'[u] = Run /\ job'[t] = r /\ job' \in [Threads -> Jobs]
      /\ \A v \in Threads : v # t /\ v # u => job'[v] = job[v]
  <2>1. job' = [job EXCEPT ![u] = Run, ![t] = r]
    BY <1>0, <1>1 DEF ThreadAdd, JobType
  <2> HIDE DEF r, u
  <2> QED BY <2>1, <1>0, <1>1, <1>3 DEF JobType
<1>5. \/ job[t].at = "create" /\ r = Run /\ ~job[t].held
      \/ /\ job[t].at = "add" /\ r.at = "unref" /\ r.thread = None
         /\ r.proc = p /\ r.held /\ job[t].held /\ r.todo = job[t].todo
  BY <1>0 DEF At, Inv, Holds, Jobs
<1>6. /\ linked' = linked \cup {u} /\ refs' = [refs EXCEPT ![p] = @ + 1] /\ state' = state
  BY DEF ThreadAdd, Ref
<1> HIDE DEF r
<1>7. Added(t, u, p)
  BY <1>0, <1>1, <1>2, <1>4, <1>5, <1>6 DEF Added
<1> QED BY <1>0, <1>7


\* Every step preserves ProcType.
LEMMA ProcTypeStep == Inv /\ [Next]_vars => ProcType'
<1> SUFFICES ASSUME Inv, [Next]_vars, ProcType, ThreadType, JobType, ReaperType, Lives, Creates,
        Holds, Made, Killing, Counted
             PROVE  ProcType'
  BY DEF Inv, TypeOK
<1> USE ProcessAssumption
<1> USE DEF ProcType, ThreadType, JobType, ReaperType, Jobs, Holds, Creates, At
<1>1. ASSUME UNCHANGED <<refs, state, dying, listed, before>> PROVE ProcType'
  BY <1>1
<1>2. ASSUME NEW t \in Threads, NEW p \in Procs, Spawn(t, p) PROVE ProcType'
  BY <1>2 DEF Spawn, Begin, Run, procs, thrds
<1>3. ASSUME NEW t \in Threads, ThreadAdd(t) PROVE ProcType'
  <2> HIDE DEF At
  <2>0. UNCHANGED <<dying, listed, note, zombies, reaper, before, status>>
    BY <1>3 DEF ThreadAdd
  <2>1. PICK u \in Threads, q \in Procs : Added(t, u, q)
    BY <1>3, ThreadAddFx
  <2> QED BY <2>0, <2>1 DEF Added, Run
<1>4. ASSUME NEW t \in Threads, SpawnDone(t) PROVE ProcType'
  BY <1>4 DEF SpawnDone, Unref, Run, procs, thrds
<1>5. ASSUME NEW t \in Threads, NEW p \in Procs, NEW at \in {"kill", "wait"}, Get(t, p,
        at) PROVE ProcType'
  BY <1>5 DEF Get, Ref, Begin, Run, procs, thrds
<1>6. ASSUME NEW t \in Threads, KillMark(t) PROVE ProcType'
  BY <1>6, Works DEF KillMark, Goto, Killed, ThreadsOf, procs, thrds
<1>7. ASSUME NEW t \in Threads, KillPush(t) PROVE ProcType'
  BY <1>7, Works DEF KillPush, Ref, Goto, Killed, ReaperLocked, procs, thrds
<1>8. ASSUME NEW t \in Threads, ThreadFree(t) PROVE ProcType'
  BY <1>8, Works DEF ThreadFree, Unref, Goto, procs, thrds
<1>9. ASSUME ReaperRemoves PROVE ProcType'
  BY <1>9 DEF ReaperRemoves, procs, thrds
<1>10. ASSUME NEW t \in Threads, ThreadNew(t) \/ Exits(t) \/ KillStatus(t) \/ KillNote(t) \/
        KillClean(t) \/ WaitTest(t) \/ WaitPrepare(t) \/ WaitNoted(t) \/ HandleKill(t) \/
        ThreadExit(t)
      PROVE  ProcType'
  BY <1>1, <1>10 DEF ThreadNew, Exits, KillStatus, KillNote, KillClean, WaitTest, WaitPrepare,
      WaitNoted, HandleKill, ThreadExit, Goto, Begin, Run, ThreadsOf, procs, thrds
<1>11. ASSUME ReaperWakes \/ ReaperTakes \/ ReaperUnlocks \/ ReaperSleeps
      PROVE  ProcType'
  BY <1>1, <1>11 DEF ReaperWakes, ReaperTakes, ReaperUnlocks, ReaperSleeps, ThreadsOf, procs,
      thrds
<1>12. CASE UNCHANGED vars
  BY <1>1, <1>12 DEF vars, procs, thrds
<1> QED BY <1>1, <1>2, <1>3, <1>4, <1>5, <1>6, <1>7, <1>8, <1>9, <1>10, <1>11, <1>12
  DEF Next, Kill, Create, Wait, Finish, Reap

\* Every step preserves ThreadType.
LEMMA ThreadTypeStep == Inv /\ [Next]_vars => ThreadType'
<1> SUFFICES ASSUME Inv, [Next]_vars, ProcType, ThreadType, JobType, ReaperType, Lives, Creates,
        Holds, Made, Killing, Counted
             PROVE  ThreadType'
  BY DEF Inv, TypeOK
<1> USE ProcessAssumption
<1> USE DEF ThreadType, JobType, Jobs, Creates, Holds, At
<1>1. ASSUME UNCHANGED <<owner, linked, note>> PROVE ThreadType'
  BY <1>1
<1>2. ASSUME NEW t \in Threads, ThreadAdd(t) PROVE ThreadType'
  <2> HIDE DEF At
  <2>0. UNCHANGED <<dying, listed, note, zombies, reaper, before, status>>
    BY <1>2 DEF ThreadAdd
  <2>1. PICK u \in Threads, q \in Procs : Added(t, u, q)
    BY <1>2, ThreadAddFx
  <2> QED BY <2>0, <2>1 DEF Added, Run
<1>3. ASSUME NEW t \in Threads, KillNote(t) PROVE ThreadType'
  BY <1>3 DEF KillNote, procs, thrds
<1>4. ASSUME NEW t \in Threads, HandleKill(t) PROVE ThreadType'
  BY <1>4 DEF HandleKill, Goto, procs, thrds
<1>5. ASSUME NEW t \in Threads, ThreadFree(t) PROVE ThreadType'
  BY <1>5 DEF ThreadFree, Unref, Goto, procs, thrds
<1>6. ASSUME NEW t \in Threads, ThreadNew(t) \/ SpawnDone(t) \/ Exits(t) \/ KillMark(t) \/
        KillStatus(t) \/ KillClean(t) \/ KillPush(t) \/ WaitTest(t) \/ WaitPrepare(t) \/
        WaitNoted(t) \/ ThreadExit(t)
      PROVE  ThreadType'
  BY <1>1, <1>6 DEF ThreadNew, SpawnDone, Exits, KillMark, KillStatus, KillClean, KillPush,
      WaitTest, WaitPrepare, WaitNoted, ThreadExit, Goto, Unref, Run, Begin, Killed, ThreadsOf,
      Ref, ReaperLocked, procs, thrds
<1>7. ASSUME NEW t \in Threads, NEW p \in Procs, Spawn(t, p)
      PROVE  ThreadType'
  BY <1>1, <1>7 DEF Spawn, Begin, Run, procs, thrds
<1>8. ASSUME NEW t \in Threads, NEW p \in Procs, NEW at \in {"kill", "wait"}, Get(t, p, at)
      PROVE  ThreadType'
  BY <1>1, <1>8 DEF Get, Ref, Begin, Run, procs, thrds
<1>9. ASSUME ReaperWakes \/ ReaperTakes \/ ReaperUnlocks \/ ReaperRemoves \/ ReaperSleeps
      PROVE  ThreadType'
  BY <1>1, <1>9 DEF ReaperWakes, ReaperTakes, ReaperUnlocks, ReaperRemoves, ReaperSleeps,
      ThreadsOf, procs, thrds
<1>10. CASE UNCHANGED vars
  BY <1>1, <1>10 DEF vars, procs, thrds
<1> QED BY <1>1, <1>2, <1>3, <1>4, <1>5, <1>6, <1>7, <1>8, <1>9, <1>10
  DEF Next, Kill, Create, Wait, Finish, Reap

\* Every step preserves JobType.
LEMMA JobTypeStep == Inv /\ [Next]_vars => JobType'
<1> SUFFICES ASSUME Inv, [Next]_vars, ProcType, ThreadType, JobType, ReaperType, Lives, Creates,
        Holds, Made, Killing, Counted
             PROVE  JobType'
  BY DEF Inv, TypeOK
<1> USE ProcessAssumption
<1> USE DEF JobType, ThreadType, Jobs, Places, At
<1>1. ASSUME UNCHANGED <<job>> PROVE JobType'
  BY <1>1
<1>2. ASSUME NEW t \in Threads, NEW p \in Procs, Spawn(t, p) PROVE JobType'
  BY <1>2 DEF Spawn, Begin, Run, procs, thrds
<1>3. ASSUME NEW t \in Threads, ThreadNew(t) PROVE JobType'
  <2> HIDE DEF At
  <2>0. UNCHANGED <<dying, listed, linked, owner, note, refs, state, zombies, reaper, before,
          status>>
    BY <1>3 DEF ThreadNew, procs, thrds
  <2>1. CASE job[t].at = "spawned" /\ Moves(t, "unref")
    BY <2>0, <2>1 DEF Moves
  <2>2. ASSUME NEW u \in Threads, NEW q \in Procs, Newly(t, u, q) PROVE JobType'
    BY <2>0, <2>2 DEF Newly
  <2> QED BY <1>3, <2>1, <2>2, ThreadNewFx
<1>4. ASSUME NEW t \in Threads, ThreadAdd(t) PROVE JobType'
  <2> HIDE DEF At
  <2>0. UNCHANGED <<dying, listed, note, zombies, reaper, before, status>>
    BY <1>4 DEF ThreadAdd
  <2>1. PICK u \in Threads, q \in Procs : Added(t, u, q)
    BY <1>4, ThreadAddFx
  <2> QED BY <2>0, <2>1 DEF Added, Run
<1>5. ASSUME NEW t \in Threads, SpawnDone(t) PROVE JobType'
  BY <1>5 DEF SpawnDone, Unref, Run, procs, thrds
<1>6. ASSUME NEW t \in Threads, NEW p \in Procs, NEW at \in {"kill", "wait"}, Get(t, p,
        at) PROVE JobType'
  BY <1>6 DEF Get, Ref, Begin, Run, procs, thrds
<1>7. ASSUME NEW t \in Threads, Exits(t) PROVE JobType'
  BY <1>7 DEF Exits, Begin, Run, procs, thrds
<1>8. ASSUME NEW t \in Threads, KillMark(t) PROVE JobType'
  BY <1>8 DEF KillMark, Goto, Killed, ThreadsOf, procs, thrds
<1>9. ASSUME NEW t \in Threads, KillStatus(t) PROVE JobType'
  <2>1. ThreadsOf(job[t].proc) \in SUBSET Threads
    BY DEF ThreadsOf
  <2> DEFINE r == [job[t] EXCEPT !.at = "walk", !.todo = ThreadsOf(job[t].proc)]
  <2>4. job[t] \in Jobs /\ "walk" \in Places
    OBVIOUS
  <2>2. r \in Jobs
    BY ONLY <2>1, <2>4 DEF Jobs
  <2>3. job' = [job EXCEPT ![t] = r]
    BY <1>9 DEF KillStatus
  <2> HIDE DEF r
  <2> QED BY <2>2, <2>3
<1>10. ASSUME NEW t \in Threads, KillNote(t) PROVE JobType'
  BY <1>10 DEF KillNote, procs, thrds
<1>11. ASSUME NEW t \in Threads, KillClean(t) PROVE JobType'
  BY <1>11 DEF KillClean, procs, thrds
<1>12. ASSUME NEW t \in Threads, KillPush(t) PROVE JobType'
  BY <1>12 DEF KillPush, Ref, Goto, Killed, ReaperLocked, procs, thrds
<1>13. ASSUME NEW t \in Threads, WaitTest(t) PROVE JobType'
  BY <1>13 DEF WaitTest, Goto, procs, thrds
<1>14. ASSUME NEW t \in Threads, WaitPrepare(t) PROVE JobType'
  BY <1>14 DEF WaitPrepare, Goto, procs, thrds
<1>15. ASSUME NEW t \in Threads, WaitNoted(t) PROVE JobType'
  BY <1>15 DEF WaitNoted, Goto, procs, thrds
<1>16. ASSUME NEW t \in Threads, HandleKill(t) PROVE JobType'
  BY <1>16 DEF HandleKill, Goto, procs, thrds
<1>17. ASSUME NEW t \in Threads, ThreadExit(t) PROVE JobType'
  BY <1>17 DEF ThreadExit, Goto, procs, thrds
<1>18. ASSUME NEW t \in Threads, ThreadFree(t) PROVE JobType'
  BY <1>18 DEF ThreadFree, Unref, Goto, procs, thrds
<1>19. ASSUME ReaperWakes \/ ReaperTakes \/ ReaperUnlocks \/ ReaperRemoves \/ ReaperSleeps
      PROVE  JobType'
  BY <1>1, <1>19 DEF ReaperWakes, ReaperTakes, ReaperUnlocks, ReaperRemoves, ReaperSleeps,
      ThreadsOf, procs, thrds
<1>20. CASE UNCHANGED vars
  BY <1>1, <1>20 DEF vars, procs, thrds
<1> QED BY <1>1, <1>2, <1>3, <1>4, <1>5, <1>6, <1>7, <1>8, <1>9, <1>10, <1>11, <1>12, <1>13,
           <1>14, <1>15, <1>16, <1>17, <1>18, <1>19, <1>20
  DEF Next, Kill, Create, Wait, Finish, Reap

\* Every step preserves ReaperType.
LEMMA ReaperTypeStep == Inv /\ [Next]_vars => ReaperType'
<1> SUFFICES ASSUME Inv, [Next]_vars, ProcType, ThreadType, JobType, ReaperType, Lives, Creates,
        Holds, Made, Killing, Counted
             PROVE  ReaperType'
  BY DEF Inv, TypeOK
<1> USE ProcessAssumption
<1> USE DEF ReaperType, JobType, Jobs, Holds, At
<1>1. ASSUME UNCHANGED <<zombies, reaper>> PROVE ReaperType'
  BY <1>1
<1>2. ASSUME NEW t \in Threads, KillPush(t) PROVE ReaperType'
  BY <1>2, Works DEF KillPush, Ref, Goto, Killed, ReaperLocked, procs, thrds
<1>3. ASSUME ReaperWakes PROVE ReaperType'
  BY <1>3 DEF ReaperWakes, procs, thrds
<1>4. ASSUME ReaperTakes PROVE ReaperType'
  <2>1. PICK p \in zombies : zombies' = zombies \ {p} /\
          reaper' = [reaper EXCEPT !.local = reaper.local \cup {p}]
    BY <1>4 DEF ReaperTakes
  <2> DEFINE a == reaper.at
             l == reaper.local
  <2>2. reaper = [at |-> a, local |-> l]
    OBVIOUS
  <2>3. reaper' = [at |-> a, local |-> l \cup {p}]
    BY ONLY <2>1, <2>2
  <2>4. p \in Procs /\ a \in {"sleep", "scan", "remove"} /\ l \subseteq Procs /\
          zombies' \subseteq Procs
    BY <2>1
  <2>5. a = "scan"
    BY <1>4 DEF ReaperTakes
  <2> HIDE DEF a, l
  <2> QED BY ONLY <2>3, <2>4, <2>5 DEF ReaperType
<1>5. ASSUME ReaperUnlocks PROVE ReaperType'
  BY <1>5 DEF ReaperUnlocks, procs, thrds
<1>6. ASSUME ReaperRemoves PROVE ReaperType'
  BY <1>6 DEF ReaperRemoves, procs, thrds
<1>7. ASSUME ReaperSleeps PROVE ReaperType'
  BY <1>7 DEF ReaperSleeps, procs, thrds
<1>8. ASSUME NEW t \in Threads, ThreadNew(t) \/ ThreadAdd(t) \/ SpawnDone(t) \/ Exits(t) \/
        KillMark(t) \/ KillStatus(t) \/ KillNote(t) \/ KillClean(t) \/ WaitTest(t) \/
        WaitPrepare(t) \/ WaitNoted(t) \/ HandleKill(t) \/ ThreadExit(t) \/ ThreadFree(t)
      PROVE  ReaperType'
  BY <1>1, <1>8 DEF ThreadNew, ThreadAdd, SpawnDone, Exits, KillMark, KillStatus, KillNote,
      KillClean, WaitTest, WaitPrepare, WaitNoted, HandleKill, ThreadExit, ThreadFree, Goto,
      Ref, Run, Unref, Begin, Killed, ThreadsOf, procs, thrds
<1>9. ASSUME NEW t \in Threads, NEW p \in Procs, Spawn(t, p)
      PROVE  ReaperType'
  BY <1>1, <1>9 DEF Spawn, Begin, Run, procs, thrds
<1>10. ASSUME NEW t \in Threads, NEW p \in Procs, NEW at \in {"kill", "wait"}, Get(t, p, at)
      PROVE  ReaperType'
  BY <1>1, <1>10 DEF Get, Ref, Begin, Run, procs, thrds
<1>11. CASE UNCHANGED vars
  BY <1>1, <1>11 DEF vars, procs, thrds
<1> QED BY <1>1, <1>2, <1>3, <1>4, <1>5, <1>6, <1>7, <1>8, <1>9, <1>10, <1>11
  DEF Next, Kill, Create, Wait, Finish, Reap

\* Every step preserves Lives.
LEMMA LivesStep == Inv /\ [Next]_vars => Lives'
<1> SUFFICES ASSUME Inv, [Next]_vars, ProcType, ThreadType, JobType, ReaperType, Lives, Creates,
        Holds, Made, Killing, Counted
             PROVE  Lives'
  BY DEF Inv, TypeOK
<1> USE ProcessAssumption
<1> USE DEF ThreadType, JobType, Jobs, Lives, Creates, Holds, At
<1>1. ASSUME UNCHANGED <<linked, job, owner>> PROVE Lives'
  BY <1>1
<1>2. ASSUME NEW t \in Threads, NEW p \in Procs, Spawn(t, p) PROVE Lives'
  BY <1>2 DEF Spawn, Begin, Run, procs, thrds
<1>3. ASSUME NEW t \in Threads, ThreadNew(t) PROVE Lives'
  <2> HIDE DEF At
  <2>0. UNCHANGED <<dying, listed, linked, owner, note, refs, state, zombies, reaper, before,
          status>>
    BY <1>3 DEF ThreadNew, procs, thrds
  <2>1. CASE job[t].at = "spawned" /\ Moves(t, "unref")
    BY <2>0, <2>1 DEF Moves
  <2>2. ASSUME NEW u \in Threads, NEW q \in Procs, Newly(t, u, q) PROVE Lives'
    BY <2>0, <2>2 DEF Newly
  <2> QED BY <1>3, <2>1, <2>2, ThreadNewFx
<1>4. ASSUME NEW t \in Threads, ThreadAdd(t) PROVE Lives'
  <2> HIDE DEF At
  <2>0. UNCHANGED <<dying, listed, note, zombies, reaper, before, status>>
    BY <1>4 DEF ThreadAdd
  <2>1. PICK u \in Threads, q \in Procs : Added(t, u, q)
    BY <1>4, ThreadAddFx
  <2> QED BY <2>0, <2>1 DEF Added, Run
<1>5. ASSUME NEW t \in Threads, SpawnDone(t) PROVE Lives'
  BY <1>5 DEF SpawnDone, Unref, Run, procs, thrds
<1>6. ASSUME NEW t \in Threads, NEW p \in Procs, NEW at \in {"kill", "wait"}, Get(t, p,
        at) PROVE Lives'
  BY <1>6 DEF Get, Ref, Begin, Run, procs, thrds
<1>7. ASSUME NEW t \in Threads, Exits(t) PROVE Lives'
  BY <1>7 DEF Exits, Begin, Run, procs, thrds
<1>8. ASSUME NEW t \in Threads, KillMark(t) PROVE Lives'
  BY <1>8 DEF KillMark, Goto, Killed, ThreadsOf, procs, thrds
<1>9. ASSUME NEW t \in Threads, KillStatus(t) PROVE Lives'
  BY <1>9 DEF KillStatus, ThreadsOf, procs, thrds
<1>10. ASSUME NEW t \in Threads, KillNote(t) PROVE Lives'
  BY <1>10 DEF KillNote, procs, thrds
<1>11. ASSUME NEW t \in Threads, KillClean(t) PROVE Lives'
  BY <1>11 DEF KillClean, procs, thrds
<1>12. ASSUME NEW t \in Threads, KillPush(t) PROVE Lives'
  BY <1>12 DEF KillPush, Ref, Goto, Killed, ReaperLocked, procs, thrds
<1>13. ASSUME NEW t \in Threads, WaitTest(t) PROVE Lives'
  BY <1>13 DEF WaitTest, Goto, procs, thrds
<1>14. ASSUME NEW t \in Threads, WaitPrepare(t) PROVE Lives'
  BY <1>14 DEF WaitPrepare, Goto, procs, thrds
<1>15. ASSUME NEW t \in Threads, WaitNoted(t) PROVE Lives'
  BY <1>15 DEF WaitNoted, Goto, procs, thrds
<1>16. ASSUME NEW t \in Threads, HandleKill(t) PROVE Lives'
  BY <1>16 DEF HandleKill, Goto, procs, thrds
<1>17. ASSUME NEW t \in Threads, ThreadExit(t) PROVE Lives'
  BY <1>17 DEF ThreadExit, Goto, procs, thrds
<1>18. ASSUME NEW t \in Threads, ThreadFree(t) PROVE Lives'
  BY <1>18 DEF ThreadFree, Unref, Goto, procs, thrds
<1>19. ASSUME ReaperWakes \/ ReaperTakes \/ ReaperUnlocks \/ ReaperRemoves \/ ReaperSleeps
      PROVE  Lives'
  BY <1>1, <1>19 DEF ReaperWakes, ReaperTakes, ReaperUnlocks, ReaperRemoves, ReaperSleeps,
      ThreadsOf, procs, thrds
<1>20. CASE UNCHANGED vars
  BY <1>1, <1>20 DEF vars, procs, thrds
<1> QED BY <1>1, <1>2, <1>3, <1>4, <1>5, <1>6, <1>7, <1>8, <1>9, <1>10, <1>11, <1>12, <1>13,
           <1>14, <1>15, <1>16, <1>17, <1>18, <1>19, <1>20
  DEF Next, Kill, Create, Wait, Finish, Reap

\* Every step preserves Creates.
LEMMA CreatesStep == Inv /\ [Next]_vars => Creates'
<1> SUFFICES ASSUME Inv, [Next]_vars, ProcType, ThreadType, JobType, ReaperType, Lives, Creates,
        Holds, Made, Killing, Counted
             PROVE  Creates'
  BY DEF Inv, TypeOK
<1> USE ProcessAssumption
<1> USE DEF JobType, Jobs, Creates, At
<1>1. ASSUME UNCHANGED <<job>> PROVE Creates'
  BY <1>1
<1>2. ASSUME NEW t \in Threads, NEW p \in Procs, Spawn(t, p) PROVE Creates'
  BY <1>2 DEF Spawn, Begin, Run, procs, thrds
<1>3. ASSUME NEW t \in Threads, ThreadNew(t) PROVE Creates'
  <2> HIDE DEF At
  <2>0. UNCHANGED <<dying, listed, linked, owner, note, refs, state, zombies, reaper, before,
          status>>
    BY <1>3 DEF ThreadNew, procs, thrds
  <2>1. CASE job[t].at = "spawned" /\ Moves(t, "unref")
    BY <2>0, <2>1 DEF Moves
  <2>2. ASSUME NEW u \in Threads, NEW q \in Procs, Newly(t, u, q) PROVE Creates'
    BY <2>0, <2>2 DEF Newly
  <2> QED BY <1>3, <2>1, <2>2, ThreadNewFx
<1>4. ASSUME NEW t \in Threads, ThreadAdd(t) PROVE Creates'
  <2> HIDE DEF At
  <2>0. UNCHANGED <<dying, listed, note, zombies, reaper, before, status>>
    BY <1>4 DEF ThreadAdd
  <2>1. PICK u \in Threads, q \in Procs : Added(t, u, q)
    BY <1>4, ThreadAddFx
  <2> QED BY <2>0, <2>1 DEF Added, Run
<1>5. ASSUME NEW t \in Threads, SpawnDone(t) PROVE Creates'
  BY <1>5 DEF SpawnDone, Unref, Run, procs, thrds
<1>6. ASSUME NEW t \in Threads, NEW p \in Procs, NEW at \in {"kill", "wait"}, Get(t, p,
        at) PROVE Creates'
  BY <1>6 DEF Get, Ref, Begin, Run, procs, thrds
<1>7. ASSUME NEW t \in Threads, Exits(t) PROVE Creates'
  BY <1>7 DEF Exits, Begin, Run, procs, thrds
<1>8. ASSUME NEW t \in Threads, KillMark(t) PROVE Creates'
  BY <1>8 DEF KillMark, Goto, Killed, ThreadsOf, procs, thrds
<1>9. ASSUME NEW t \in Threads, KillStatus(t) PROVE Creates'
  BY <1>9 DEF KillStatus, ThreadsOf, procs, thrds
<1>10. ASSUME NEW t \in Threads, KillNote(t) PROVE Creates'
  BY <1>10 DEF KillNote, procs, thrds
<1>11. ASSUME NEW t \in Threads, KillClean(t) PROVE Creates'
  BY <1>11 DEF KillClean, procs, thrds
<1>12. ASSUME NEW t \in Threads, KillPush(t) PROVE Creates'
  BY <1>12 DEF KillPush, Ref, Goto, Killed, ReaperLocked, procs, thrds
<1>13. ASSUME NEW t \in Threads, WaitTest(t) PROVE Creates'
  BY <1>13 DEF WaitTest, Goto, procs, thrds
<1>14. ASSUME NEW t \in Threads, WaitPrepare(t) PROVE Creates'
  BY <1>14 DEF WaitPrepare, Goto, procs, thrds
<1>15. ASSUME NEW t \in Threads, WaitNoted(t) PROVE Creates'
  BY <1>15 DEF WaitNoted, Goto, procs, thrds
<1>16. ASSUME NEW t \in Threads, HandleKill(t) PROVE Creates'
  BY <1>16 DEF HandleKill, Goto, procs, thrds
<1>17. ASSUME NEW t \in Threads, ThreadExit(t) PROVE Creates'
  BY <1>17 DEF ThreadExit, Goto, procs, thrds
<1>18. ASSUME NEW t \in Threads, ThreadFree(t) PROVE Creates'
  BY <1>18 DEF ThreadFree, Unref, Goto, procs, thrds
<1>19. ASSUME ReaperWakes \/ ReaperTakes \/ ReaperUnlocks \/ ReaperRemoves \/ ReaperSleeps
      PROVE  Creates'
  BY <1>1, <1>19 DEF ReaperWakes, ReaperTakes, ReaperUnlocks, ReaperRemoves, ReaperSleeps,
      ThreadsOf, procs, thrds
<1>20. CASE UNCHANGED vars
  BY <1>1, <1>20 DEF vars, procs, thrds
<1> QED BY <1>1, <1>2, <1>3, <1>4, <1>5, <1>6, <1>7, <1>8, <1>9, <1>10, <1>11, <1>12, <1>13,
           <1>14, <1>15, <1>16, <1>17, <1>18, <1>19, <1>20
  DEF Next, Kill, Create, Wait, Finish, Reap

\* Every step preserves Holds.
LEMMA HoldsStep == Inv /\ [Next]_vars => Holds'
<1> SUFFICES ASSUME Inv, [Next]_vars, ProcType, ThreadType, JobType, ReaperType, Lives, Creates,
        Holds, Made, Killing, Counted
             PROVE  Holds'
  BY DEF Inv, TypeOK
<1> USE ProcessAssumption
<1> USE DEF ThreadType, JobType, Jobs, Creates, Holds, Lives, At
<1>1. ASSUME UNCHANGED <<job, owner>> PROVE Holds'
  BY <1>1
<1>2. ASSUME NEW t \in Threads, NEW p \in Procs, Spawn(t, p) PROVE Holds'
  BY <1>2 DEF Spawn, Begin, Run, procs, thrds
<1>3. ASSUME NEW t \in Threads, ThreadNew(t) PROVE Holds'
  <2> HIDE DEF At
  <2>0. UNCHANGED <<dying, listed, linked, owner, note, refs, state, zombies, reaper, before,
          status>>
    BY <1>3 DEF ThreadNew, procs, thrds
  <2>1. CASE job[t].at = "spawned" /\ Moves(t, "unref")
    BY <2>0, <2>1 DEF Moves
  <2>2. ASSUME NEW u \in Threads, NEW q \in Procs, Newly(t, u, q) PROVE Holds'
    BY <2>0, <2>2 DEF Newly
  <2> QED BY <1>3, <2>1, <2>2, ThreadNewFx
<1>4. ASSUME NEW t \in Threads, ThreadAdd(t) PROVE Holds'
  <2> HIDE DEF At
  <2>0. UNCHANGED <<dying, listed, note, zombies, reaper, before, status>>
    BY <1>4 DEF ThreadAdd
  <2>1. PICK u \in Threads, q \in Procs : Added(t, u, q)
    BY <1>4, ThreadAddFx
  <2> QED BY <2>0, <2>1 DEF Added, Run
<1>5. ASSUME NEW t \in Threads, SpawnDone(t) PROVE Holds'
  BY <1>5 DEF SpawnDone, Unref, Run, procs, thrds
<1>6. ASSUME NEW t \in Threads, NEW p \in Procs, NEW at \in {"kill", "wait"}, Get(t, p,
        at) PROVE Holds'
  BY <1>6 DEF Get, Ref, Begin, Run, procs, thrds
<1>7. ASSUME NEW t \in Threads, Exits(t) PROVE Holds'
  BY <1>7 DEF Exits, Begin, Run, procs, thrds
<1>8. ASSUME NEW t \in Threads, KillMark(t) PROVE Holds'
  BY <1>8 DEF KillMark, Goto, Killed, ThreadsOf, procs, thrds
<1>9. ASSUME NEW t \in Threads, KillStatus(t) PROVE Holds'
  BY <1>9 DEF KillStatus, ThreadsOf, procs, thrds
<1>10. ASSUME NEW t \in Threads, KillNote(t) PROVE Holds'
  BY <1>10 DEF KillNote, procs, thrds
<1>11. ASSUME NEW t \in Threads, KillClean(t) PROVE Holds'
  BY <1>11 DEF KillClean, procs, thrds
<1>12. ASSUME NEW t \in Threads, KillPush(t) PROVE Holds'
  BY <1>12 DEF KillPush, Ref, Goto, Killed, ReaperLocked, procs, thrds
<1>13. ASSUME NEW t \in Threads, WaitTest(t) PROVE Holds'
  BY <1>13 DEF WaitTest, Goto, procs, thrds
<1>14. ASSUME NEW t \in Threads, WaitPrepare(t) PROVE Holds'
  BY <1>14 DEF WaitPrepare, Goto, procs, thrds
<1>15. ASSUME NEW t \in Threads, WaitNoted(t) PROVE Holds'
  BY <1>15 DEF WaitNoted, Goto, procs, thrds
<1>16. ASSUME NEW t \in Threads, HandleKill(t) PROVE Holds'
  BY <1>16 DEF HandleKill, Goto, procs, thrds
<1>17. ASSUME NEW t \in Threads, ThreadExit(t) PROVE Holds'
  BY <1>17 DEF ThreadExit, Goto, procs, thrds
<1>18. ASSUME NEW t \in Threads, ThreadFree(t) PROVE Holds'
  BY <1>18 DEF ThreadFree, Unref, Goto, procs, thrds
<1>19. ASSUME ReaperWakes \/ ReaperTakes \/ ReaperUnlocks \/ ReaperRemoves \/ ReaperSleeps
      PROVE  Holds'
  BY <1>1, <1>19 DEF ReaperWakes, ReaperTakes, ReaperUnlocks, ReaperRemoves, ReaperSleeps,
      ThreadsOf, procs, thrds
<1>20. CASE UNCHANGED vars
  BY <1>1, <1>20 DEF vars, procs, thrds
<1> QED BY <1>1, <1>2, <1>3, <1>4, <1>5, <1>6, <1>7, <1>8, <1>9, <1>10, <1>11, <1>12, <1>13,
           <1>14, <1>15, <1>16, <1>17, <1>18, <1>19, <1>20
  DEF Next, Kill, Create, Wait, Finish, Reap

\* Every step preserves Made.
LEMMA MadeStep == Inv /\ [Next]_vars => Made'
<1> SUFFICES ASSUME Inv, [Next]_vars, ProcType, ThreadType, JobType, ReaperType, Lives, Creates,
        Holds, Made, Killing, Counted
             PROVE  Made'
  BY DEF Inv, TypeOK
<1> USE ProcessAssumption
<1> USE DEF ProcType, ThreadType, JobType, Jobs, Creates, Holds, Lives, Made, At
<1>1. ASSUME UNCHANGED <<state, listed, dying, owner, job>> PROVE Made'
  BY <1>1
<1>2. ASSUME NEW t \in Threads, NEW p \in Procs, Spawn(t, p) PROVE Made'
  BY <1>2 DEF Spawn, Begin, Run, procs, thrds
<1>3. ASSUME NEW t \in Threads, ThreadNew(t) PROVE Made'
  <2> HIDE DEF At
  <2>0. UNCHANGED <<dying, listed, linked, owner, note, refs, state, zombies, reaper, before,
          status>>
    BY <1>3 DEF ThreadNew, procs, thrds
  <2>1. CASE job[t].at = "spawned" /\ Moves(t, "unref")
    BY <2>0, <2>1 DEF Moves
  <2>2. ASSUME NEW u \in Threads, NEW q \in Procs, Newly(t, u, q) PROVE Made'
    BY <2>0, <2>2 DEF Newly
  <2> QED BY <1>3, <2>1, <2>2, ThreadNewFx
<1>4. ASSUME NEW t \in Threads, ThreadAdd(t) PROVE Made'
  <2> HIDE DEF At
  <2>0. UNCHANGED <<dying, listed, note, zombies, reaper, before, status>>
    BY <1>4 DEF ThreadAdd
  <2>1. PICK u \in Threads, q \in Procs : Added(t, u, q)
    BY <1>4, ThreadAddFx
  <2> QED BY <2>0, <2>1 DEF Added, Run
<1>5. ASSUME NEW t \in Threads, SpawnDone(t) PROVE Made'
  BY <1>5 DEF SpawnDone, Unref, Run, procs, thrds
<1>6. ASSUME NEW t \in Threads, NEW p \in Procs, NEW at \in {"kill", "wait"}, Get(t, p,
        at) PROVE Made'
  BY <1>6 DEF Get, Ref, Begin, Run, procs, thrds
<1>7. ASSUME NEW t \in Threads, Exits(t) PROVE Made'
  BY <1>7 DEF Exits, Begin, Run, procs, thrds
<1>8. ASSUME NEW t \in Threads, KillMark(t) PROVE Made'
  BY <1>8 DEF KillMark, Goto, Killed, ThreadsOf, procs, thrds
<1>9. ASSUME NEW t \in Threads, KillStatus(t) PROVE Made'
  BY <1>9 DEF KillStatus, ThreadsOf, procs, thrds
<1>10. ASSUME NEW t \in Threads, KillNote(t) PROVE Made'
  BY <1>10 DEF KillNote, procs, thrds
<1>11. ASSUME NEW t \in Threads, KillClean(t) PROVE Made'
  BY <1>11 DEF KillClean, procs, thrds
<1>12. ASSUME NEW t \in Threads, KillPush(t) PROVE Made'
  BY <1>12 DEF KillPush, Ref, Goto, Killed, ReaperLocked, procs, thrds
<1>13. ASSUME NEW t \in Threads, WaitTest(t) PROVE Made'
  BY <1>13 DEF WaitTest, Goto, procs, thrds
<1>14. ASSUME NEW t \in Threads, WaitPrepare(t) PROVE Made'
  BY <1>14 DEF WaitPrepare, Goto, procs, thrds
<1>15. ASSUME NEW t \in Threads, WaitNoted(t) PROVE Made'
  BY <1>15 DEF WaitNoted, Goto, procs, thrds
<1>16. ASSUME NEW t \in Threads, HandleKill(t) PROVE Made'
  BY <1>16 DEF HandleKill, Goto, procs, thrds
<1>17. ASSUME NEW t \in Threads, ThreadExit(t) PROVE Made'
  BY <1>17 DEF ThreadExit, Goto, procs, thrds
<1>18. ASSUME NEW t \in Threads, ThreadFree(t) PROVE Made'
  BY <1>18 DEF ThreadFree, Unref, Goto, procs, thrds
<1>19. ASSUME ReaperRemoves PROVE Made'
  BY <1>19 DEF ReaperRemoves, Killing, procs, thrds
<1>20. ASSUME ReaperWakes \/ ReaperTakes \/ ReaperUnlocks \/ ReaperSleeps
      PROVE  Made'
  BY <1>1, <1>20 DEF ReaperWakes, ReaperTakes, ReaperUnlocks, ReaperSleeps, ThreadsOf, procs,
      thrds
<1>21. CASE UNCHANGED vars
  BY <1>1, <1>21 DEF vars, procs, thrds
<1> QED BY <1>1, <1>2, <1>3, <1>4, <1>5, <1>6, <1>7, <1>8, <1>9, <1>10, <1>11, <1>12, <1>13,
           <1>14, <1>15, <1>16, <1>17, <1>18, <1>19, <1>20, <1>21
  DEF Next, Kill, Create, Wait, Finish, Reap

\* Every step preserves Killing.
LEMMA KillingStep == Inv /\ [Next]_vars => Killing'
<1> SUFFICES ASSUME Inv, [Next]_vars, ProcType, ThreadType, JobType, ReaperType, Lives, Creates,
        Holds, Made, Killing, Counted
             PROVE  Killing'
  BY DEF Inv, TypeOK
<1> USE ProcessAssumption
<1> USE DEF ProcType, ReaperType, ThreadType, JobType, Jobs, Killing, Kills, Made, At
<1>1. ASSUME UNCHANGED <<job, dying, listed, zombies, reaper>> PROVE Killing'
  BY <1>1
<1>2. ASSUME NEW t \in Threads, NEW p \in Procs, Spawn(t, p) PROVE Killing'
  BY <1>2 DEF Spawn, Begin, Run, procs, thrds
<1>3. ASSUME NEW t \in Threads, ThreadNew(t) PROVE Killing'
  <2> HIDE DEF At
  <2>0. UNCHANGED <<dying, listed, linked, owner, note, refs, state, zombies, reaper, before,
          status>>
    BY <1>3 DEF ThreadNew, procs, thrds
  <2>1. CASE job[t].at = "spawned" /\ Moves(t, "unref")
    BY <2>0, <2>1 DEF Moves
  <2>2. ASSUME NEW u \in Threads, NEW q \in Procs, Newly(t, u, q) PROVE Killing'
    BY <2>0, <2>2 DEF Newly
  <2> QED BY <1>3, <2>1, <2>2, ThreadNewFx
<1>4. ASSUME NEW t \in Threads, ThreadAdd(t) PROVE Killing'
  <2> HIDE DEF At
  <2>0. UNCHANGED <<dying, listed, note, zombies, reaper, before, status>>
    BY <1>4 DEF ThreadAdd
  <2>1. PICK u \in Threads, q \in Procs : Added(t, u, q)
    BY <1>4, ThreadAddFx
  <2>2. \A v \in Threads, p \in Procs : Kills(v, p)' => Kills(v, p)
    BY <2>1 DEF Added, Run
  <2> HIDE DEF Kills
  <2> QED BY <2>0, <2>2
<1>5. ASSUME NEW t \in Threads, SpawnDone(t) PROVE Killing'
  BY <1>5 DEF SpawnDone, Unref, Run, procs, thrds
<1>6. ASSUME NEW t \in Threads, NEW p \in Procs, NEW at \in {"kill", "wait"}, Get(t, p,
        at) PROVE Killing'
  BY <1>6 DEF Get, Ref, Begin, Run, procs, thrds
<1>7. ASSUME NEW t \in Threads, Exits(t) PROVE Killing'
  BY <1>7 DEF Exits, Begin, Run, procs, thrds
<1>8. ASSUME NEW t \in Threads, KillMark(t) PROVE Killing'
  BY <1>8 DEF KillMark, Goto, Killed, ThreadsOf, procs, thrds
<1>9. ASSUME NEW t \in Threads, KillStatus(t) PROVE Killing'
  BY <1>9 DEF KillStatus, ThreadsOf, procs, thrds
<1>10. ASSUME NEW t \in Threads, KillNote(t) PROVE Killing'
  BY <1>10 DEF KillNote, procs, thrds
<1>11. ASSUME NEW t \in Threads, KillClean(t) PROVE Killing'
  BY <1>11 DEF KillClean, procs, thrds
<1>12. ASSUME NEW t \in Threads, KillPush(t) PROVE Killing'
  BY <1>12 DEF KillPush, Ref, Goto, Killed, ReaperLocked, procs, thrds
<1>13. ASSUME NEW t \in Threads, WaitTest(t) PROVE Killing'
  BY <1>13 DEF WaitTest, Goto, procs, thrds
<1>14. ASSUME NEW t \in Threads, WaitPrepare(t) PROVE Killing'
  BY <1>14 DEF WaitPrepare, Goto, procs, thrds
<1>15. ASSUME NEW t \in Threads, WaitNoted(t) PROVE Killing'
  BY <1>15 DEF WaitNoted, Goto, procs, thrds
<1>16. ASSUME NEW t \in Threads, HandleKill(t) PROVE Killing'
  BY <1>16 DEF HandleKill, Goto, procs, thrds
<1>17. ASSUME NEW t \in Threads, ThreadExit(t) PROVE Killing'
  BY <1>17 DEF ThreadExit, Goto, procs, thrds
<1>18. ASSUME NEW t \in Threads, ThreadFree(t) PROVE Killing'
  BY <1>18 DEF ThreadFree, Unref, Goto, procs, thrds
<1>19. ASSUME ReaperWakes PROVE Killing'
  BY <1>19 DEF ReaperWakes, procs, thrds
<1>20. ASSUME ReaperTakes PROVE Killing'
  BY <1>20 DEF ReaperTakes, ThreadsOf, procs, thrds
<1>21. ASSUME ReaperUnlocks PROVE Killing'
  BY <1>21 DEF ReaperUnlocks, procs, thrds
<1>22. ASSUME ReaperRemoves PROVE Killing'
  BY <1>22 DEF ReaperRemoves, procs, thrds
<1>23. ASSUME ReaperSleeps PROVE Killing'
  BY <1>23 DEF ReaperSleeps, procs, thrds
<1>24. CASE UNCHANGED vars
  BY <1>1, <1>24 DEF vars, procs, thrds
<1> QED BY <1>1, <1>2, <1>3, <1>4, <1>5, <1>6, <1>7, <1>8, <1>9, <1>10, <1>11, <1>12, <1>13,
           <1>14, <1>15, <1>16, <1>17, <1>18, <1>19, <1>20, <1>21, <1>22, <1>23, <1>24
  DEF Next, Kill, Create, Wait, Finish, Reap

\* The parts of Holders(p).
Hold(p)   == {t \in Threads : job[t].proc = p /\ job[t].held}
List(p)   == IF p \in listed THEN 1 ELSE 0
Reaped(p) == IF p \in zombies \cup reaper.local THEN 1 ELSE 0
CountedAt(p) ==
  state[p] # "none" =>
    /\ refs[p] = List(p) + Cardinality(ThreadsOf(p)) + Cardinality(Hold(p)) + Reaped(p)
    /\ state[p] = "freed" <=> refs[p] = 0

\* Counted is CountedAt of every process.
LEMMA CountedByParts == Counted <=> \A p \in Procs : CountedAt(p)
BY DEF Counted, CountedAt, Holders, Hold, List, Reaped

\* The same of the next state.
LEMMA CountedNext ==
  ASSUME \A p \in Procs : CountedAt(p)' PROVE Counted'
BY DEF Counted, CountedAt, Holders, Hold, List, Reaped

\* The parts of Holders(p) are numbers.
LEMMA PartsNat ==
  ASSUME Inv, NEW p \in Procs
  PROVE  /\ IsFiniteSet(ThreadsOf(p)) /\ Cardinality(ThreadsOf(p)) \in Nat
         /\ IsFiniteSet(Hold(p)) /\ Cardinality(Hold(p)) \in Nat
         /\ List(p) \in {0, 1} /\ Reaped(p) \in {0, 1} /\ refs[p] \in Int
<1>1. ThreadsOf(p) \subseteq Threads /\ Hold(p) \subseteq Threads
  BY DEF Inv, TypeOK, ThreadType, ThreadsOf, Hold
<1>2. IsFiniteSet(ThreadsOf(p)) /\ IsFiniteSet(Hold(p))
  BY <1>1, FS_Subset, ProcessAssumption
<1> QED BY <1>2, FS_CardinalityType DEF Inv, TypeOK, ProcType, List, Reaped

\* A process somebody holds is alive.
LEMMA HeldAlive ==
  ASSUME Inv, NEW p \in Procs, state[p] # "none",
         p \in listed \/ ThreadsOf(p) # {} \/ Hold(p) # {} \/ refs[p] > 0
  PROVE  refs[p] >= 1 /\ refs[p] \in Nat /\ state[p] = "alive"
<1>1. CountedAt(p)
  BY CountedByParts DEF Inv
<1>2. ThreadsOf(p) # {} => Cardinality(ThreadsOf(p)) # 0
  BY PartsNat, FS_EmptySet
<1>3. Hold(p) # {} => Cardinality(Hold(p)) # 0
  BY PartsNat, FS_EmptySet
<1>4. p \in listed => List(p) = 1
  BY DEF List
<1>5. refs[p] >= 1 /\ refs[p] \in Nat
  BY <1>1, <1>2, <1>3, <1>4, PartsNat DEF CountedAt
<1> QED BY <1>1, <1>5 DEF CountedAt, Inv, TypeOK, ProcType

\* Steps that give and take no reference.
LEMMA Uncounted ==
  ASSUME Inv, NEW p \in Procs, state'[p] = state[p], refs'[p] = refs[p],
         ThreadsOf(p)' = ThreadsOf(p), Hold(p)' = Hold(p), List(p)' = List(p),
         Reaped(p)' = Reaped(p)
  PROVE  CountedAt(p)'
<1>1. CountedAt(p)
  BY CountedByParts DEF Inv
<1> QED BY <1>1 DEF CountedAt

\* The caller gives its reference back.
LEMMA SpawnDoneCounts ==
  ASSUME Inv, NEW t \in Threads, SpawnDone(t)
  PROVE  Counted'
<1> USE DEF ThreadType, JobType, ReaperType, ProcType, Jobs, At
<1>0. ThreadType /\ JobType /\ ReaperType /\ ProcType /\ Lives /\ Creates /\ Holds /\ Made /\
        Killing
  BY DEF Inv, TypeOK
<1>1. PICK p \in Procs :
        p = job[t].proc /\ state[p] # "none" /\ job[t].held
  BY <1>0, Works DEF SpawnDone, Holds
<1>2. /\ refs' = [refs EXCEPT ![p] = @ - 1]
      /\ state' = IF refs[p] = 1 THEN [state EXCEPT ![p] = "freed"] ELSE state
      /\ UNCHANGED <<listed, linked, owner, zombies, reaper>>
  BY <1>1 DEF SpawnDone, Unref, thrds
<1>3. job' = [job EXCEPT ![t] = Run] /\ ~Run.held /\ Run.proc = None
  BY DEF SpawnDone, Run
<1>4. \A q \in Procs : /\ ThreadsOf(q)' = ThreadsOf(q)
                       /\ List(q)' = List(q) /\ Reaped(q)' = Reaped(q)
  BY <1>2 DEF ThreadsOf, List, Reaped
<1>5. \A q \in Procs : Hold(q)' = IF q = p THEN Hold(p) \ {t} ELSE Hold(q)
  BY <1>0, <1>1, <1>3 DEF Hold
<1>6. t \in Hold(p)
  BY <1>1 DEF Hold
<1>7. Cardinality(Hold(p)') = Cardinality(Hold(p)) - 1
  BY <1>1, <1>5, <1>6, PartsNat, FS_RemoveElement
<1>8. CountedAt(p)'
  <2>1. CountedAt(p) /\ refs[p] \in Nat /\ refs[p] >= 1 /\ state[p] = "alive"
    BY <1>1, <1>6, HeldAlive, CountedByParts DEF Inv
  <2>2. refs'[p] = refs[p] - 1 /\ state'[p] = IF refs[p] = 1 THEN "freed" ELSE "alive"
    BY <1>0, <1>1, <1>2, <2>1
  <2> QED BY <1>1, <2>1, <2>2, <1>4, <1>7, PartsNat DEF CountedAt
<1>9. \A q \in Procs : q # p => CountedAt(q)'
  BY <1>0, <1>1, <1>2, <1>4, <1>5, Uncounted
<1> QED BY <1>8, <1>9, CountedNext

\* A thread that is freed gives its reference back.
LEMMA ThreadFreeCounts ==
  ASSUME Inv, NEW t \in Threads, ThreadFree(t)
  PROVE  Counted'
<1> USE DEF ThreadType, JobType, ReaperType, ProcType, Jobs, At
<1>0. ThreadType /\ JobType /\ ReaperType /\ ProcType /\ Lives /\ Creates /\ Holds /\ Made /\
        Killing
  BY DEF Inv, TypeOK
<1>1. PICK p \in Procs :
        p = owner[t] /\ state[p] # "none" /\ ~job[t].held /\ t \in linked
  BY <1>0, Works DEF ThreadFree, Holds, Lives
<1>2. /\ refs' = [refs EXCEPT ![p] = @ - 1]
      /\ state' = IF refs[p] = 1 THEN [state EXCEPT ![p] = "freed"] ELSE state
      /\ linked' = linked \ {t} /\ owner' = [owner EXCEPT ![t] = None]
      /\ UNCHANGED <<listed, zombies, reaper>>
  BY <1>1 DEF ThreadFree, Unref
<1>3. Moves(t, "gone")
  BY <1>0, GotoFx DEF ThreadFree, Places
<1>4. \A q \in Procs : /\ Hold(q)' = Hold(q)
                       /\ List(q)' = List(q) /\ Reaped(q)' = Reaped(q)
  BY <1>1, <1>2, <1>3 DEF Hold, List, Reaped, Moves
<1>5. \A q \in Procs : ThreadsOf(q)' = IF q = p THEN ThreadsOf(p) \ {t} ELSE ThreadsOf(q)
  BY <1>0, <1>1, <1>2 DEF ThreadsOf
<1>6. t \in ThreadsOf(p)
  BY <1>1 DEF ThreadsOf
<1>7. Cardinality(ThreadsOf(p)') = Cardinality(ThreadsOf(p)) - 1
  BY <1>1, <1>5, <1>6, PartsNat, FS_RemoveElement
<1>8. CountedAt(p)'
  <2>1. CountedAt(p) /\ refs[p] \in Nat /\ refs[p] >= 1 /\ state[p] = "alive"
    BY <1>1, <1>6, HeldAlive, CountedByParts DEF Inv
  <2>2. refs'[p] = refs[p] - 1 /\ state'[p] = IF refs[p] = 1 THEN "freed" ELSE "alive"
    BY <1>0, <1>1, <1>2, <2>1
  <2> QED BY <1>1, <2>1, <2>2, <1>4, <1>7, PartsNat DEF CountedAt
<1>9. \A q \in Procs : q # p => CountedAt(q)'
  BY <1>0, <1>1, <1>2, <1>4, <1>5, Uncounted
<1> QED BY <1>8, <1>9, CountedNext

\* process_get() takes a reference for the caller.
LEMMA GetCounts ==
  ASSUME Inv, NEW t \in Threads, NEW p \in Procs, NEW at \in {"kill", "wait"}, Get(t, p, at)
  PROVE  Counted'
<1> USE DEF ThreadType, JobType, ReaperType, ProcType, Jobs, At
<1>0. ThreadType /\ JobType /\ ReaperType /\ ProcType /\ Lives /\ Creates /\ Holds /\ Made /\
        Killing
  BY DEF Inv, TypeOK
<1>1. state[p] # "none" /\ ~job[t].held /\ job[t].at = "user"
  BY <1>0 DEF Get, Holds, Made
<1>2. /\ refs' = [refs EXCEPT ![p] = @ + 1] /\ state' = state /\ refs[p] > 0
      /\ UNCHANGED <<listed, linked, owner, zombies, reaper>>
  BY DEF Get, Ref, thrds
<1>3. /\ job'[t].proc = p /\ job'[t].held
      /\ \A v \in Threads : v # t => job'[v] = job[v]
  BY <1>0 DEF Get, Begin, Run
<1>4. \A q \in Procs : /\ ThreadsOf(q)' = ThreadsOf(q)
                       /\ List(q)' = List(q) /\ Reaped(q)' = Reaped(q)
  BY <1>2 DEF ThreadsOf, List, Reaped
<1>5. \A q \in Procs : Hold(q)' = IF q = p THEN Hold(p) \cup {t} ELSE Hold(q)
  BY <1>0, <1>1, <1>3 DEF Hold
<1>6. t \notin Hold(p)
  BY <1>1 DEF Hold
<1>7. Cardinality(Hold(p)') = Cardinality(Hold(p)) + 1
  BY <1>5, <1>6, PartsNat, FS_AddElement
<1>8. CountedAt(p)'
  <2>1. CountedAt(p) /\ refs[p] \in Nat /\ refs[p] >= 1 /\ state[p] = "alive"
    BY <1>1, <1>2, HeldAlive, CountedByParts DEF Inv
  <2>2. refs'[p] = refs[p] + 1 /\ state'[p] = "alive"
    BY <1>0, <1>2, <2>1
  <2> QED BY <2>1, <2>2, <1>4, <1>7, PartsNat DEF CountedAt
<1>9. \A q \in Procs : q # p => CountedAt(q)'
  BY <1>0, <1>2, <1>4, <1>5, Uncounted
<1> QED BY <1>8, <1>9, CountedNext

\* process_new(): the list and the caller hold the new process.
LEMMA SpawnCounts ==
  ASSUME Inv, NEW t \in Threads, NEW p \in Procs, Spawn(t, p)
  PROVE  Counted'
<1> USE DEF ThreadType, JobType, ReaperType, ProcType, Jobs, At
<1>0. ThreadType /\ JobType /\ ReaperType /\ ProcType /\ Lives /\ Creates /\ Holds /\ Made /\
        Killing
  BY DEF Inv, TypeOK
<1>1. /\ state[p] = "none" /\ ~job[t].held /\ job[t].at = "user"
      /\ p \notin zombies /\ p \notin reaper.local
      /\ \A u \in Threads : owner[u] # p /\ job[u].proc # p
  BY <1>0 DEF Spawn, Holds, Made, Killing
<1>2. /\ refs' = [refs EXCEPT ![p] = 2] /\ state' = [state EXCEPT ![p] = "alive"]
      /\ listed' = listed \cup {p} /\ UNCHANGED <<linked, owner, zombies, reaper>>
  BY DEF Spawn, thrds
<1>3. /\ job'[t].proc = p /\ job'[t].held
      /\ \A v \in Threads : v # t => job'[v] = job[v]
  BY <1>0 DEF Spawn, Begin, Run
<1>4. \A q \in Procs : ThreadsOf(q)' = ThreadsOf(q) /\ Reaped(q)' = Reaped(q)
  BY <1>2 DEF ThreadsOf, Reaped
<1>5. \A q \in Procs : q # p => List(q)' = List(q)
  BY <1>2 DEF List
<1>6. \A q \in Procs : Hold(q)' = IF q = p THEN {t} ELSE Hold(q)
  BY <1>0, <1>1, <1>3 DEF Hold
<1>7. ThreadsOf(p)' = {} /\ List(p)' = 1 /\ Reaped(p)' = 0
  BY <1>0, <1>1, <1>2, <1>4 DEF ThreadsOf, List, Reaped
<1>8. CountedAt(p)'
  <2>1. Cardinality({t}) = 1 /\ Cardinality({}) = 0
    BY FS_Singleton, FS_EmptySet
  <2>2. refs'[p] = 2 /\ state'[p] = "alive" /\ Hold(p)' = {t}
    BY <1>0, <1>2, <1>6
  <2> QED BY <2>1, <2>2, <1>7 DEF CountedAt
<1>9. \A q \in Procs : q # p => CountedAt(q)'
  BY <1>0, <1>2, <1>4, <1>5, <1>6, Uncounted
<1> QED BY <1>8, <1>9, CountedNext

\* The new thread holds its process.
LEMMA ThreadAddCounts ==
  ASSUME Inv, NEW t \in Threads, ThreadAdd(t)
  PROVE  Counted'
<1> USE DEF ThreadType, JobType, ReaperType, ProcType, Jobs, At
<1>0. ThreadType /\ JobType /\ ReaperType /\ ProcType /\ Lives /\ Creates /\ Holds /\ Made /\
        Killing
  BY DEF Inv, TypeOK
<1>1. PICK u \in Threads, p \in Procs : Added(t, u, p)
  BY ThreadAddFx
<1>2. UNCHANGED <<listed, zombies, reaper>>
  BY DEF ThreadAdd
<1>3. state[p] # "none"
  BY <1>1, Works DEF Added
<1>4. \A q \in Procs : /\ Hold(q)' = Hold(q)
                       /\ List(q)' = List(q) /\ Reaped(q)' = Reaped(q)
  <2>1. \A v \in Threads : /\ job'[v].held = job[v].held
                           /\ job[v].held => job'[v].proc = job[v].proc
    BY <1>0, <1>1 DEF Added, Run
  <2> QED BY <1>2, <2>1 DEF Hold, List, Reaped
<1>5. \A q \in Procs : ThreadsOf(q)' = IF q = p THEN ThreadsOf(p) \cup {u} ELSE ThreadsOf(q)
  BY <1>0, <1>1 DEF ThreadsOf, Added
<1>6. u \notin ThreadsOf(p)
  BY <1>1 DEF ThreadsOf, Added
<1>7. Cardinality(ThreadsOf(p)') = Cardinality(ThreadsOf(p)) + 1
  BY <1>5, <1>6, PartsNat, FS_AddElement
<1>8. CountedAt(p)'
  <2>1. t \in Hold(p) \/ t \in ThreadsOf(p)
    BY <1>0, <1>1 DEF Added, Hold, ThreadsOf, Holds, Lives
  <2>2. CountedAt(p) /\ refs[p] \in Nat /\ refs[p] >= 1 /\ state[p] = "alive"
    BY <1>3, <2>1, HeldAlive, CountedByParts DEF Inv
  <2>3. refs'[p] = refs[p] + 1 /\ state'[p] = "alive"
    BY <1>0, <1>1, <2>2 DEF Added
  <2> QED BY <2>2, <2>3, <1>4, <1>7, PartsNat DEF CountedAt
<1>9. \A q \in Procs : q # p => CountedAt(q)'
  <2>1. \A q \in Procs : q # p => refs'[q] = refs[q] /\ state'[q] = state[q]
    BY <1>0, <1>1 DEF Added
  <2> QED BY <2>1, <1>4, <1>5, Uncounted
<1> QED BY <1>8, <1>9, CountedNext

\* The reaper holds what is pushed.
LEMMA KillPushCounts ==
  ASSUME Inv, NEW t \in Threads, KillPush(t)
  PROVE  Counted'
<1> USE DEF ThreadType, JobType, ReaperType, ProcType, Jobs, At
<1>0. ThreadType /\ JobType /\ ReaperType /\ ProcType /\ Lives /\ Creates /\ Holds /\ Made /\
        Killing
  BY DEF Inv, TypeOK
<1>1. PICK p \in Procs :
        /\ p = job[t].proc /\ state[p] # "none" /\ Kills(t, p)
        /\ p \in listed /\ p \notin zombies /\ p \notin reaper.local
  BY <1>0, Works DEF KillPush, Kills, Killing
<1>2. /\ refs' = [refs EXCEPT ![p] = @ + 1] /\ state' = state /\ zombies' = zombies \cup {p}
      /\ UNCHANGED <<listed, linked, owner, reaper>>
  BY <1>1 DEF KillPush, Ref, thrds
<1>3. PICK at \in Places : Moves(t, at)
  <2>1. Killed(t) \in Places
    BY DEF Killed, Places
  <2> QED BY <1>0, <2>1, GotoFx DEF KillPush
<1>4. \A q \in Procs : /\ Hold(q)' = Hold(q)
                       /\ List(q)' = List(q) /\ ThreadsOf(q)' = ThreadsOf(q)
  BY <1>1, <1>2, <1>3 DEF Hold, List, ThreadsOf, Moves
<1>5. \A q \in Procs : q # p => Reaped(q)' = Reaped(q)
  BY <1>2 DEF Reaped
<1>6. Reaped(p) = 0 /\ Reaped(p)' = 1
  BY <1>1, <1>2 DEF Reaped
<1>8. CountedAt(p)'
  <2>1. CountedAt(p) /\ refs[p] \in Nat /\ refs[p] >= 1 /\ state[p] = "alive"
    BY <1>1, HeldAlive, CountedByParts DEF Inv
  <2>2. refs'[p] = refs[p] + 1 /\ state'[p] = "alive"
    BY <1>0, <1>1, <1>2, <2>1
  <2> QED BY <1>1, <2>1, <2>2, <1>4, <1>6, PartsNat DEF CountedAt
<1>9. \A q \in Procs : q # p => CountedAt(q)'
  BY <1>0, <1>1, <1>2, <1>4, <1>5, Uncounted
<1> QED BY <1>8, <1>9, CountedNext

\* The references of the list and of the reaper end together.
LEMMA ReaperRemovesCounts ==
  ASSUME Inv, ReaperRemoves
  PROVE  Counted'
<1> USE DEF ThreadType, JobType, ReaperType, ProcType, Jobs, At
<1>0. ThreadType /\ JobType /\ ReaperType /\ ProcType /\ Lives /\ Creates /\ Holds /\ Made /\
        Killing
  BY DEF Inv, TypeOK
<1>1. PICK p \in reaper.local :
        /\ listed' = listed \ {p} /\ refs' = [refs EXCEPT ![p] = @ - 2]
        /\ state' = IF refs[p] = 2 THEN [state EXCEPT ![p] = "freed"] ELSE state
        /\ reaper' = [reaper EXCEPT !.local = @ \ {p}]
  BY DEF ReaperRemoves
<1>2. p \in Procs /\ p \in listed /\ state[p] # "none" /\ p \notin zombies
  BY <1>0, <1>1 DEF Made, Killing
<1>3. reaper'.local = reaper.local \ {p} /\ UNCHANGED <<linked, owner, zombies, job>>
  BY <1>0, <1>1 DEF ReaperRemoves, thrds
<1>4. \A q \in Procs : Hold(q)' = Hold(q) /\ ThreadsOf(q)' = ThreadsOf(q)
  BY <1>3 DEF Hold, ThreadsOf
<1>5. \A q \in Procs : q # p => Reaped(q)' = Reaped(q) /\ List(q)' = List(q)
  BY <1>1, <1>3 DEF Reaped, List
<1>6. Reaped(p) = 1 /\ Reaped(p)' = 0 /\ List(p) = 1 /\ List(p)' = 0
  BY <1>1, <1>2, <1>3 DEF Reaped, List
<1>8. CountedAt(p)'
  <2>1. CountedAt(p) /\ refs[p] \in Nat /\ state[p] = "alive"
    BY <1>2, HeldAlive, CountedByParts DEF Inv
  <2>2. refs'[p] = refs[p] - 2 /\ state'[p] = IF refs[p] = 2 THEN "freed" ELSE "alive"
    BY <1>0, <1>1, <1>2, <2>1
  <2> QED BY <1>2, <2>1, <2>2, <1>4, <1>6, PartsNat DEF CountedAt
<1>9. \A q \in Procs : q # p => CountedAt(q)'
  <2>1. \A q \in Procs : q # p => refs'[q] = refs[q] /\ state'[q] = state[q]
    BY <1>0, <1>1, <1>2
  <2> QED BY <2>1, <1>4, <1>5, Uncounted
<1> QED BY <1>8, <1>9, CountedNext

\* The other steps change nothing that Holders counts.
SameCount ==
  /\ UNCHANGED <<refs, state, listed, linked, owner>>
  /\ zombies' \cup reaper'.local = zombies \cup reaper.local
  /\ \A t \in Threads : /\ job'[t].held = job[t].held
                        /\ job[t].held => job'[t].proc = job[t].proc

\* Such a step keeps the counts right.
LEMMA SameCounted == Inv /\ SameCount => Counted'
<1> SUFFICES ASSUME Inv, SameCount PROVE Counted'
  OBVIOUS
<1>1. \A p \in Procs : /\ Hold(p)' = Hold(p) /\ ThreadsOf(p)' = ThreadsOf(p)
                       /\ List(p)' = List(p) /\ Reaped(p)' = Reaped(p)
                       /\ state'[p] = state[p] /\ refs'[p] = refs[p]
  BY DEF SameCount, Hold, ThreadsOf, List, Reaped
<1>2. \A p \in Procs : CountedAt(p)'
  BY <1>1, Uncounted
<1> QED BY <1>2, CountedNext

\* Every step preserves Counted.
LEMMA CountedStep == Inv /\ [Next]_vars => Counted'
<1> SUFFICES ASSUME Inv, [Next]_vars PROVE Counted'
  OBVIOUS
<1>0. ThreadType /\ JobType /\ ReaperType /\ ProcType /\ Holds
  BY DEF Inv, TypeOK
<1> USE DEF JobType, Jobs, At
<1>1. ASSUME NEW t \in Threads, NEW p \in Procs, Spawn(t, p) PROVE Counted'
  BY <1>1, SpawnCounts
<1>2. ASSUME NEW t \in Threads, ThreadNew(t) PROVE Counted'
  <2>0. UNCHANGED <<refs, state, listed, linked, owner, zombies, reaper>>
    BY <1>2 DEF ThreadNew, procs, thrds
  <2>1. \A v \in Threads : job'[v].held = job[v].held /\ (job[v].held =>
          job'[v].proc = job[v].proc)
    <3>1. CASE Moves(t, "unref")
      BY <3>1 DEF Moves
    <3>2. ASSUME NEW u \in Threads, NEW p \in Procs, Newly(t, u, p)
          PROVE  \A v \in Threads : job'[v].held = job[v].held /\ (job[v].held =>
                  job'[v].proc = job[v].proc)
      BY <1>0, <3>2 DEF Newly, Holds
    <3> QED BY <1>2, <3>1, <3>2, ThreadNewFx
  <2> QED BY <2>0, <2>1, SameCounted DEF SameCount
<1>3. ASSUME NEW t \in Threads, ThreadAdd(t) PROVE Counted'
  BY <1>3, ThreadAddCounts
<1>4. ASSUME NEW t \in Threads, SpawnDone(t) PROVE Counted'
  BY <1>4, SpawnDoneCounts
<1>5. ASSUME NEW t \in Threads, NEW p \in Procs, NEW at \in {"kill", "wait"}, Get(t, p,
        at) PROVE Counted'
  BY <1>5, GetCounts
<1>6. ASSUME NEW t \in Threads, Exits(t) PROVE Counted'
  <2>1. SameCount
    BY <1>0, <1>6 DEF Exits, Begin, Run, procs, thrds, SameCount, ReaperType, Holds
  <2> QED BY <2>1, SameCounted
<1>7. ASSUME NEW t \in Threads, KillMark(t) PROVE Counted'
  <2>1. SameCount
    BY <1>0, <1>7 DEF KillMark, Goto, Killed, ThreadsOf, procs, thrds, SameCount, ReaperType,
            Holds
  <2> QED BY <2>1, SameCounted
<1>8. ASSUME NEW t \in Threads, KillStatus(t) PROVE Counted'
  <2>1. SameCount
    BY <1>0, <1>8 DEF KillStatus, ThreadsOf, procs, thrds, SameCount, ReaperType, Holds
  <2> QED BY <2>1, SameCounted
<1>9. ASSUME NEW t \in Threads, KillNote(t) PROVE Counted'
  <2>1. SameCount
    BY <1>0, <1>9 DEF KillNote, procs, thrds, SameCount, ReaperType, Holds
  <2> QED BY <2>1, SameCounted
<1>10. ASSUME NEW t \in Threads, KillClean(t) PROVE Counted'
  <2>1. SameCount
    BY <1>0, <1>10 DEF KillClean, procs, thrds, SameCount, ReaperType, Holds
  <2> QED BY <2>1, SameCounted
<1>11. ASSUME NEW t \in Threads, KillPush(t) PROVE Counted'
  BY <1>11, KillPushCounts
<1>12. ASSUME NEW t \in Threads, WaitTest(t) PROVE Counted'
  <2>1. SameCount
    BY <1>0, <1>12 DEF WaitTest, Goto, procs, thrds, SameCount, ReaperType, Holds
  <2> QED BY <2>1, SameCounted
<1>13. ASSUME NEW t \in Threads, WaitPrepare(t) PROVE Counted'
  <2>1. SameCount
    BY <1>0, <1>13 DEF WaitPrepare, Goto, procs, thrds, SameCount, ReaperType, Holds
  <2> QED BY <2>1, SameCounted
<1>14. ASSUME NEW t \in Threads, WaitNoted(t) PROVE Counted'
  <2>1. SameCount
    BY <1>0, <1>14 DEF WaitNoted, Goto, procs, thrds, SameCount, ReaperType, Holds
  <2> QED BY <2>1, SameCounted
<1>15. ASSUME NEW t \in Threads, HandleKill(t) PROVE Counted'
  <2>1. SameCount
    BY <1>0, <1>15 DEF HandleKill, Goto, procs, thrds, SameCount, ReaperType, Holds
  <2> QED BY <2>1, SameCounted
<1>16. ASSUME NEW t \in Threads, ThreadExit(t) PROVE Counted'
  <2>1. SameCount
    BY <1>0, <1>16 DEF ThreadExit, Goto, procs, thrds, SameCount, ReaperType, Holds
  <2> QED BY <2>1, SameCounted
<1>17. ASSUME NEW t \in Threads, ThreadFree(t) PROVE Counted'
  BY <1>17, ThreadFreeCounts
<1>18. ASSUME ReaperWakes PROVE Counted'
  <2>1. reaper.local = {}
    BY <1>18, <1>0 DEF ReaperWakes, ReaperType
  <2> QED BY <1>18, <2>1, SameCounted DEF ReaperWakes, SameCount, procs, thrds
<1>19. ASSUME ReaperTakes PROVE Counted'
  <2>1. PICK p \in zombies : zombies' = zombies \ {p} /\
          reaper' = [reaper EXCEPT !.local = @ \cup {p}]
    BY <1>19 DEF ReaperTakes
  <2>2. reaper'.local = reaper.local \cup {p}
    BY <1>0, <2>1 DEF ReaperType
  <2> QED BY <1>19, <2>1, <2>2, SameCounted DEF ReaperTakes, SameCount, procs, thrds
<1>20. ASSUME ReaperUnlocks PROVE Counted'
  <2>1. SameCount
    BY <1>0, <1>20 DEF ReaperUnlocks, procs, thrds, SameCount, ReaperType, Holds
  <2> QED BY <2>1, SameCounted
<1>21. ASSUME ReaperRemoves PROVE Counted'
  BY <1>21, ReaperRemovesCounts
<1>22. ASSUME ReaperSleeps PROVE Counted'
  <2>1. SameCount
    BY <1>0, <1>22 DEF ReaperSleeps, procs, thrds, SameCount, ReaperType, Holds
  <2> QED BY <2>1, SameCounted
<1>23. CASE UNCHANGED vars
  BY <1>23, SameCounted DEF SameCount, vars, procs, thrds
<1> QED BY <1>1, <1>2, <1>3, <1>4, <1>5, <1>6, <1>7, <1>8, <1>9, <1>10, <1>11, <1>12, <1>13,
           <1>14, <1>15, <1>16, <1>17, <1>18, <1>19, <1>20, <1>21, <1>22, <1>23
  DEF Next, Kill, Create, Wait, Finish, Reap

\* What leaves Before as it was: nobody begins or goes on with a walk, nobody is born
\* or told.
LEMMA BeforeCalm ==
  ASSUME Before, ProcType, UNCHANGED <<before, dying, note, zombies, reaper>>,
         \A v \in Threads :
           /\ job'[v].at \in {"walk", "push"} => job'[v] = job[v]
           /\ job[v].at = "dying" => job'[v].at = "dying"
           /\ job[v].at # "none" => /\ job'[v].at # "none"
                                    /\ v \in linked' => v \in linked /\ owner'[v] = owner[v]
  PROVE  Before'
BY DEF Before, ProcType, Told

\* Every step preserves Before.
LEMMA BeforeStep == Inv /\ Before /\ [Next]_vars => Before'
<1> SUFFICES ASSUME Inv, [Next]_vars, ProcType, ThreadType, JobType, ReaperType, Lives, Creates,
        Holds, Made, Killing, Counted, Before
             PROVE  Before'
  BY DEF Inv, TypeOK
<1> USE ProcessAssumption
<1> USE DEF ProcType, ReaperType, ThreadType, JobType, Jobs, Before, Told, Lives, At
<1>1. ASSUME UNCHANGED <<job, linked, note, owner, zombies, reaper, dying, before>> PROVE Before'
  BY <1>1
<1>2. ASSUME NEW t \in Threads, NEW p \in Procs, Spawn(t, p) PROVE Before'
  BY <1>2 DEF Spawn, Begin, Run, procs, thrds
<1>3. ASSUME NEW t \in Threads, ThreadNew(t) PROVE Before'
  <2> HIDE DEF At, Before
  <2>0. UNCHANGED <<dying, listed, linked, owner, note, refs, state, zombies, reaper, before,
          status>>
    BY <1>3 DEF ThreadNew, procs, thrds
  <2>1. CASE job[t].at = "spawned" /\ Moves(t, "unref")
    <3>1. \A v \in Threads :
             /\ job'[v].at \in {"walk", "push"} => job'[v] = job[v]
             /\ job[v].at = "dying" => job'[v].at = "dying"
             /\ job[v].at # "none" => /\ job'[v].at # "none"
                                      /\ v \in linked' => v \in linked /\ owner'[v] = owner[v]
      BY <2>0, <2>1 DEF Moves
    <3> QED BY <2>0, <3>1, BeforeCalm
  <2>2. ASSUME NEW u \in Threads, NEW q \in Procs, Newly(t, u, q) PROVE Before'
    <3>1. \A v \in Threads :
             /\ job'[v].at \in {"walk", "push"} => job'[v] = job[v]
             /\ job[v].at = "dying" => job'[v].at = "dying"
             /\ job[v].at # "none" => /\ job'[v].at # "none"
                                      /\ v \in linked' => v \in linked /\ owner'[v] = owner[v]
      BY <2>0, <2>2 DEF Newly
    <3> QED BY <2>0, <3>1, BeforeCalm
  <2> QED BY <1>3, <2>1, <2>2, ThreadNewFx
<1>4. ASSUME NEW t \in Threads, ThreadAdd(t) PROVE Before'
  <2> HIDE DEF At, Before
  <2>0. UNCHANGED <<dying, listed, note, zombies, reaper, before, status>>
    BY <1>4 DEF ThreadAdd
  <2>1. PICK u \in Threads, q \in Procs : Added(t, u, q)
    BY <1>4, ThreadAddFx
  <2> QED
    <3>1. \A v \in Threads :
             /\ job'[v].at \in {"walk", "push"} => job'[v] = job[v]
             /\ job[v].at = "dying" => job'[v].at = "dying"
             /\ job[v].at # "none" => /\ job'[v].at # "none"
                                      /\ v \in linked' => v \in linked /\ owner'[v] = owner[v]
      BY <2>1 DEF Added, Run
    <3> QED BY <2>0, <3>1, BeforeCalm
<1>5. ASSUME NEW t \in Threads, SpawnDone(t) PROVE Before'
  BY <1>5 DEF SpawnDone, Unref, Run, procs, thrds
<1>6. ASSUME NEW t \in Threads, NEW p \in Procs, NEW at \in {"kill", "wait"}, Get(t, p,
        at) PROVE Before'
  BY <1>6 DEF Get, Ref, Begin, Run, procs, thrds
<1>7. ASSUME NEW t \in Threads, Exits(t) PROVE Before'
  BY <1>7 DEF Exits, Begin, Run, procs, thrds
<1>8. ASSUME NEW t \in Threads, KillMark(t) PROVE Before'
  <2> DEFINE at == IF job[t].proc \in dying THEN Killed(t) ELSE "status"
  <2>1. job[t].at = "kill" /\ at \in {"unref", "dying", "status"} /\ job[t].proc \in Procs
    BY <1>8, Works DEF KillMark, Killed
  <2>2. Moves(t, at)
    BY <1>8, <2>1, GotoFx DEF KillMark, Places
  <2>3. UNCHANGED <<linked, owner, note, zombies, reaper>>
    BY <1>8 DEF KillMark, thrds
  <2>4. CASE job[t].proc \in dying
    <3>1. dying' = dying /\ before' = before
      BY <1>8, <2>4 DEF KillMark
    <3> HIDE DEF Before, at
    <3> QED BY <2>1, <2>2, <2>3, <3>1, BeforeCalm DEF Moves
  <2>5. CASE job[t].proc \notin dying
    <3>1. /\ dying' = dying \cup {job[t].proc} /\
            before' = [before EXCEPT ![job[t].proc] = ThreadsOf(job[t].proc)]
          /\ at = "status"
      BY <1>8, <2>5 DEF KillMark
    <3>2. \A v \in Threads : Kills(v, job[t].proc) => FALSE
      BY <2>1, <2>5 DEF Killing
    <3>3. job[t].proc \notin zombies /\ job[t].proc \notin reaper.local
      BY <2>1, <2>5 DEF Killing
    <3>4. \A u \in ThreadsOf(job[t].proc) : u \in Threads /\ job[u].at # "none" /\
            owner[u] = job[t].proc
      BY DEF ThreadsOf
    <3> HIDE DEF at
    <3> SUFFICES ASSUME NEW p \in Procs, NEW u \in before'[p]
                 PROVE  /\ job'[u].at # "none"
                        /\ u \in linked' => owner'[u] = p
                        /\ p \in zombies' \/ p \in reaper'.local => (u \in linked' => Told(u)')
                        /\ \A v \in Threads : job'[v].proc = p =>
                             /\ job'[v].at = "walk" /\ u \in linked' => u \in job'[v].todo \/
                                     Told(u)'
                             /\ job'[v].at = "push" /\ u \in linked' => Told(u)'
                        /\ p \in dying'
      OBVIOUS
    <3>5. CASE p = job[t].proc
      <4>1. u \in Threads /\ job[u].at # "none" /\ owner[u] = p
        BY <2>1, <3>1, <3>4, <3>5
      <4>2. job'[u].at # "none"
        BY <2>1, <2>2, <3>1, <4>1 DEF Moves
      <4>3. \A v \in Threads : job'[v].proc = p => job'[v].at \notin {"walk", "push"}
        BY <2>2, <3>1, <3>2, <3>5 DEF Moves, Kills
      <4> QED BY <2>1, <2>3, <3>1, <3>3, <3>5, <4>1, <4>2, <4>3
    <3>6. CASE p # job[t].proc
      <4>1. u \in before[p] /\ u \in Threads
        BY <3>1, <3>6
      <4>2. \A v \in Threads : job'[v].at \in {"walk", "push"} => job'[v] = job[v]
        BY <2>2, <3>1 DEF Moves
      <4>3. job'[u].at # "none" /\ (job[u].at = "dying" => job'[u].at = "dying")
        BY <2>1, <2>2, <3>1, <4>1 DEF Moves
      <4> QED BY <2>3, <3>1, <4>1, <4>2, <4>3
    <3> QED BY <3>5, <3>6
  <2> QED BY <2>4, <2>5
<1>9. ASSUME NEW t \in Threads, KillStatus(t) PROVE Before'
  BY <1>9 DEF KillStatus, ThreadsOf, procs, thrds
<1>10. ASSUME NEW t \in Threads, KillNote(t) PROVE Before'
  BY <1>10 DEF KillNote, procs, thrds
<1>11. ASSUME NEW t \in Threads, KillClean(t) PROVE Before'
  BY <1>11 DEF KillClean, procs, thrds
<1>12. ASSUME NEW t \in Threads, KillPush(t) PROVE Before'
  BY <1>12 DEF KillPush, Ref, Goto, Killed, ReaperLocked, procs, thrds
<1>13. ASSUME NEW t \in Threads, WaitTest(t) PROVE Before'
  BY <1>13 DEF WaitTest, Goto, procs, thrds
<1>14. ASSUME NEW t \in Threads, WaitPrepare(t) PROVE Before'
  BY <1>14 DEF WaitPrepare, Goto, procs, thrds
<1>15. ASSUME NEW t \in Threads, WaitNoted(t) PROVE Before'
  BY <1>15 DEF WaitNoted, Goto, procs, thrds
<1>16. ASSUME NEW t \in Threads, HandleKill(t) PROVE Before'
  BY <1>16 DEF HandleKill, Goto, procs, thrds
<1>17. ASSUME NEW t \in Threads, ThreadExit(t) PROVE Before'
  BY <1>17 DEF ThreadExit, Goto, procs, thrds
<1>18. ASSUME NEW t \in Threads, ThreadFree(t) PROVE Before'
  BY <1>18 DEF ThreadFree, Unref, Goto, procs, thrds
<1>19. ASSUME ReaperWakes PROVE Before'
  BY <1>19 DEF ReaperWakes, procs, thrds
<1>20. ASSUME ReaperTakes PROVE Before'
  BY <1>20 DEF ReaperTakes, ThreadsOf, procs, thrds
<1>21. ASSUME ReaperUnlocks PROVE Before'
  BY <1>21 DEF ReaperUnlocks, procs, thrds
<1>22. ASSUME ReaperRemoves PROVE Before'
  BY <1>22 DEF ReaperRemoves, procs, thrds
<1>23. ASSUME ReaperSleeps PROVE Before'
  BY <1>23 DEF ReaperSleeps, procs, thrds
<1>24. CASE UNCHANGED vars
  BY <1>1, <1>24 DEF vars, procs, thrds
<1> QED BY <1>1, <1>2, <1>3, <1>4, <1>5, <1>6, <1>7, <1>8, <1>9, <1>10, <1>11, <1>12, <1>13,
           <1>14, <1>15, <1>16, <1>17, <1>18, <1>19, <1>20, <1>21, <1>22, <1>23, <1>24
  DEF Next, Kill, Create, Wait, Finish, Reap

\* Inv holds of the initial states.
LEMMA InvInit == Init => Inv
<1> SUFFICES ASSUME Init PROVE Inv
  OBVIOUS
<1> USE ProcessAssumption DEF Init, Run
<1>1. TypeOK
  <2>1. ProcType /\ ThreadType /\ ReaperType
    BY DEF ProcType, ThreadType, ReaperType
  <2>2. Run \in Jobs /\ [Run EXCEPT !.at = "none"] \in Jobs
    BY DEF Jobs, Places
  <2>3. JobType
    BY <2>2 DEF JobType
  <2> QED BY <2>1, <2>3 DEF TypeOK
<1>2. Lives /\ Creates /\ Holds
  BY DEF Lives, Creates, Holds
<1>3. Made /\ Killing
  BY DEF Made, Killing, Kills
<1>4. Counted
  <2> SUFFICES ASSUME NEW p \in Procs, state[p] # "none" PROVE CountedAt(p)
    BY CountedByParts DEF CountedAt
  <2>1. p = First /\ refs[p] = 2 /\ state[p] = "alive"
    OBVIOUS
  <2>2. ThreadsOf(p) = {Main} /\ Hold(p) = {} /\ List(p) = 1 /\ Reaped(p) = 0
    BY <2>1 DEF ThreadsOf, Hold, List, Reaped
  <2>3. Cardinality(ThreadsOf(p)) = 1 /\ Cardinality(Hold(p)) = 0
    BY <2>2, FS_Singleton, FS_EmptySet
  <2> QED BY <2>1, <2>2, <2>3 DEF CountedAt
<1> QED BY <1>1, <1>2, <1>3, <1>4 DEF Inv

\* Every step preserves Inv.
LEMMA InvStep == Inv /\ [Next]_vars => Inv'
BY ProcTypeStep, ThreadTypeStep, JobTypeStep, ReaperTypeStep, LivesStep, CreatesStep, HoldsStep,
   MadeStep, KillingStep, CountedStep DEF Inv, TypeOK

\* The variables have their types.
THEOREM TypeCorrect == Spec => []TypeOK
<1>1. Inv => TypeOK
  BY DEF Inv
<1> QED BY <1>1, InvInit, InvStep, PTL DEF Spec

\* For every number of processes and threads, the reference count of a process is
\* the number of those who may still reach it (the list of processes, its threads,
\* SYS_SPAWN, open files of procfs, the reaper), and process_free() runs exactly
\* when the last of them has gone, in whatever order they go.
THEOREM ReferencesExact == Spec => []CountedHolders
<1>1. Inv => CountedHolders
  BY DEF Inv, Counted, CountedHolders
<1> QED BY <1>1, InvInit, InvStep, PTL DEF Spec

\* For every number of processes and threads: when process_kill() hands a process to
\* the reaper, each thread that the process had when it was marked has its note, is
\* on its way out, or has left the list, although threads exit during the walk.
THEOREM KillReachesAll == Spec => []KillTellsAll
<1>1. Init => Before
  BY ProcessAssumption DEF Init, Before
<1>2. Inv /\ Before => KillTellsAll
  BY DEF Inv, TypeOK, ReaperType, Before, KillTellsAll, Told
<1> QED BY <1>1, <1>2, InvInit, InvStep, BeforeStep, PTL DEF Spec

=============================================================================
