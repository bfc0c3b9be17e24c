------------------------------ MODULE SpinLock ------------------------------
(***************************************************************************)
(* The ticket lock (include/kernel/sync/lock.h).  Tickets are uint16_t and *)
(* wrap; a CPU, which has interrupts disabled, takes at most one.  The     *)
(* exchange of lock_try_acquire() compares the next ticket only.  If the   *)
(* others take a whole round of tickets between the test and the exchange, *)
(* it succeeds wrongly; lapped records that they did.                      *)
(***************************************************************************)
EXTENDS Naturals

CONSTANTS Cpus, TicketMod  \* 2^16

VARIABLES
  nextTicket, nowServing,
  pc, ticket,  \* per CPU
  lapped       \* the next ticket came round to the one a CPU is about to compare (history)

vars == <<nextTicket, nowServing, pc, ticket, lapped>>

Init ==
  /\ nextTicket = 0 /\ nowServing = 0
  /\ pc = [c \in Cpus |-> "run"] /\ ticket = [c \in Cpus |-> 0]
  /\ lapped = FALSE

\* The ticket after the next one is what another CPU is about to compare.
Laps(self) ==
  \E c \in Cpus \ {self} : pc[c] = "cas" /\ (nextTicket + 1) % TicketMod = ticket[c]

\* lock_acquire(): fetch-and-add, then spin.
TakeTicket(c) ==
  /\ pc[c] = "run" /\ pc' = [pc EXCEPT ![c] = "spin"]
  /\ ticket' = [ticket EXCEPT ![c] = nextTicket]
  /\ nextTicket' = (nextTicket + 1) % TicketMod /\ lapped' = (lapped \/ Laps(c))
  /\ UNCHANGED nowServing

Served(c) ==
  /\ pc[c] = "spin" /\ nowServing = ticket[c]
  /\ pc' = [pc EXCEPT ![c] = "hold"]
  /\ UNCHANGED <<nextTicket, nowServing, ticket, lapped>>

\* lock_try_acquire(): two loads and a compare-and-exchange; where they differ it fails.
TryLoad(c) ==
  /\ pc[c] = "run" /\ pc' = [pc EXCEPT ![c] = "load"]
  /\ ticket' = [ticket EXCEPT ![c] = nextTicket]
  /\ UNCHANGED <<nextTicket, nowServing, lapped>>

TryServing(c) ==
  /\ pc[c] = "load"
  /\ pc' = [pc EXCEPT ![c] = IF nowServing = ticket[c] THEN "cas" ELSE "run"]
  /\ UNCHANGED <<nextTicket, nowServing, ticket, lapped>>

\* Mutant: the ticket is taken without comparing.
TryCas_NoCompare(c) ==
  /\ pc[c] = "cas"
  /\ pc' = [pc EXCEPT ![c] = "hold"] /\ nextTicket' = (nextTicket + 1) % TicketMod
  /\ lapped' = (lapped \/ Laps(c))
  /\ UNCHANGED <<nowServing, ticket>>

TryCas(c) ==
  /\ pc[c] = "cas"
  /\ IF nextTicket = ticket[c]
     THEN /\ pc' = [pc EXCEPT ![c] = "hold"] /\ nextTicket' = (nextTicket + 1) % TicketMod
          /\ lapped' = (lapped \/ Laps(c))
     ELSE pc' = [pc EXCEPT ![c] = "run"] /\ UNCHANGED <<nextTicket, lapped>>
  /\ UNCHANGED <<nowServing, ticket>>

Release(c) ==
  /\ pc[c] = "hold" /\ pc' = [pc EXCEPT ![c] = "run"]
  /\ nowServing' = (nowServing + 1) % TicketMod
  /\ UNCHANGED <<nextTicket, ticket, lapped>>

Next == \E c \in Cpus : TakeTicket(c) \/ Served(c) \/ TryLoad(c) \/ TryServing(c) \/ TryCas(c)
                          \/ Release(c)

Spec == Init /\ [][Next]_vars

\* Until a try is lapped, every step of the ticket lock is a step of a lock at most one CPU
\* holds, however the tickets wrap.
Lock == INSTANCE SharedLock WITH Threads <- Cpus, readers <- {},
          writers <- IF lapped THEN {} ELSE {c \in Cpus : pc[c] = "hold"}

ImplementsLock == Lock!Spec
=============================================================================
