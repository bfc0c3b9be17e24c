---------------------------- MODULE MCScheduling ----------------------------
(***************************************************************************)
(* The safety of scheduling and waiting for TLC.  The value of part        *)
(* selects the component that runs; the others stay in their initial       *)
(* states.  Three CPUs steal threads from each other; one thread waits     *)
(* against two wakers and two CPUs ("race"); two threads wait, each on two *)
(* queues, which a caller names in either order ("pair"); two threads wait *)
(* on one queue with deadlines that differ ("timed").                      *)
(***************************************************************************)
EXTENDS Sched, Sequences

CONSTANTS
  RaceThreads, RaceCpus, RaceWakers,
  PairThreads, PairCpus, PairWakers, q1, q2

\* The model values are told apart.
ASSUME SuiteAssumption ==
  /\ RaceThreads \cap RaceCpus = {} /\ RaceThreads \cap RaceWakers = {}
       /\ RaceCpus \cap RaceWakers = {}
  /\ PairThreads \cap PairCpus = {} /\ PairThreads \cap PairWakers = {}
       /\ PairCpus \cap PairWakers = {}
  /\ None \notin RaceThreads \cup RaceCpus \cup RaceWakers
                   \cup PairThreads \cup PairCpus \cup PairWakers
  /\ q1 # q2 /\ None \notin {q1, q2}

VARIABLES
  part,
  wpc, wstate, qs, held, err, deadline, owner, note, cpu, queue, blocked,   \* Wait
  lock, timer, uptime, removing, wreq, wbatch

Race == INSTANCE Wait WITH
  Threads <- RaceThreads, Cpus <- RaceCpus, Wakers <- RaceWakers, Queues <- {q1, q2},
  Orders <- {<<q1>>, <<q1, q2>>}, Amounts <- {1}, Timeouts <- {1, 99}, Never <- 99,
  MaxUptime <- 1, MinTimeout <- 1, AllocMayFail <- FALSE,
  pc <- wpc, state <- wstate, batch <- wbatch

Pair == INSTANCE Wait WITH
  Threads <- PairThreads, Cpus <- PairCpus, Wakers <- PairWakers, Queues <- {q1, q2},
  Orders <- {<<q1, q2>>, <<q2, q1>>}, Amounts <- {1}, Timeouts <- {1}, Never <- 99,
  MaxUptime <- 1, MinTimeout <- 1, AllocMayFail <- FALSE,
  pc <- wpc, state <- wstate, batch <- wbatch

Timed == INSTANCE Wait WITH
  Threads <- PairThreads, Cpus <- PairCpus, Wakers <- PairWakers, Queues <- {q1, q2},
  Orders <- {<<q1>>}, Amounts <- {1}, Timeouts <- {1, 2}, Never <- 99,
  MaxUptime <- 2, MinTimeout <- 1, AllocMayFail <- FALSE,
  pc <- wpc, state <- wstate, batch <- wbatch

waitVars == <<wpc, wstate, qs, held, err, deadline, owner, note, cpu, queue, blocked,
              lock, timer, uptime, removing, wreq, wbatch>>

allVars == <<part, vars, waitVars>>

MCInit ==
  /\ part \in {"sched", "race", "pair", "timed"}
  /\ Init /\ (CASE part = "pair" -> Pair!Init
              [] part = "timed" -> Timed!Init
              [] OTHER -> Race!Init)
  /\ part = "sched" => cpu = [t \in RaceThreads |-> CHOOSE c \in RaceCpus : TRUE]

MCNext ==
  /\ UNCHANGED part
  /\ \/ part = "sched" /\ Next /\ UNCHANGED waitVars
     \/ part = "race" /\ Race!Next /\ UNCHANGED vars
     \/ part = "pair" /\ Pair!Next /\ UNCHANGED vars
     \/ part = "timed" /\ Timed!Next /\ UNCHANGED vars

MCSpec == MCInit /\ [][MCNext]_allVars

-----------------------------------------------------------------------------
(* The properties of Wait on the instance that puts them to the test; the  *)
(* ones of Sched keep their names.                                         *)

\* Exactly one of wakers, timeouts, notes and the thread itself ends a wait.
ExclusiveUnblocker == part = "race" => Race!ExclusiveUnblocker

\* A thread that waits is on the list of the CPU that owns it, a note is not lost on a
\* thread that is blocking, and a thread that does not wait is on no queue.
WaitersListed ==
  /\ part = "race" => Race!ListedOnOwner /\ Race!NoLostNote
  /\ part = "pair" => Pair!NoStaleEntry

\* Only the agent that ends a wait sets its error.
ErrOnlyByUnblocker ==
  [][part = "race" => \A t \in RaceThreads : err'[t] # err[t] /\ wpc[t] = "off" =>
       \E a \in Race!Agents \ {t} : removing'[a] = t /\ removing[a] # t]_allVars

\* The timer is armed for the earliest deadline, and no wait times out before its own.
TimeoutsOnTime == part = "timed" => Timed!TimerCovers /\ Timed!NoEarlyTimeout

\* Threads that take the locks of several queues do not wait for each other in a circle,
\* whatever order wait_block_prepare() is given the queues in.
LocksAcyclic == part = "pair" => Pair!LocksAcyclic
=============================================================================
