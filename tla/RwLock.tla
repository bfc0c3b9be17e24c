------------------------------- MODULE RwLock -------------------------------
(***************************************************************************)
(* The read-write ticket lock (include/kernel/sync/rwlock.h).  A reader    *)
(* announces itself before it looks for writers, a writer takes a ticket   *)
(* before it looks for readers; every access is a step of its own.  The    *)
(* comparison of writeServe with writeTicket loads them in either order.   *)
(* A local variable is 0 again when it is not used any more.               *)
(***************************************************************************)
EXTENDS Naturals, FiniteSets

CONSTANTS Cpus, TicketMod  \* 2^16

VARIABLES
  readTicket, readServe, writeTicket, writeServe, activeReaders,
  pc, ticket, seen  \* per CPU: where it is, its ticket and the first value loaded

lock == <<readTicket, readServe, writeTicket, writeServe, activeReaders>>
vars == <<lock, pc, ticket, seen>>

Init ==
  /\ readTicket = 0 /\ readServe = 0 /\ writeTicket = 0 /\ writeServe = 0
  /\ activeReaders = 0
  /\ pc = [c \in Cpus |-> "run"] /\ ticket = [c \in Cpus |-> 0] /\ seen = [c \in Cpus |-> 0]

Inc(n) == (n + 1) % TicketMod
Goto(c, from, to) == pc[c] = from /\ pc' = [pc EXCEPT ![c] = to]

\* rwlock_read_acquire(): readers enter in the order of their tickets.
ReadTicket(c) ==
  /\ Goto(c, "run", "read")
  /\ ticket' = [ticket EXCEPT ![c] = readTicket] /\ readTicket' = Inc(readTicket)
  /\ UNCHANGED <<readServe, writeTicket, writeServe, activeReaders, seen>>

ReadServed(c) ==
  /\ Goto(c, "read", "enter") /\ readServe = ticket[c]
  /\ ticket' = [ticket EXCEPT ![c] = 0]
  /\ UNCHANGED <<lock, seen>>

ReadEnter(c) ==
  /\ Goto(c, "enter", "test") /\ activeReaders' = Inc(activeReaders)
  /\ UNCHANGED <<readTicket, readServe, writeTicket, writeServe, ticket, seen>>

ReadFirst(c) ==
  /\ \/ Goto(c, "test", "testTicket") /\ seen' = [seen EXCEPT ![c] = writeServe]
     \/ Goto(c, "test", "testServe") /\ seen' = [seen EXCEPT ![c] = writeTicket]
  /\ UNCHANGED <<lock, ticket>>

ReadSecond(c) ==
  /\ \/ Goto(c, "testTicket", IF seen[c] = writeTicket THEN "admit" ELSE "back")
     \/ Goto(c, "testServe", IF seen[c] = writeServe THEN "admit" ELSE "back")
  /\ seen' = [seen EXCEPT ![c] = 0]
  /\ UNCHANGED <<lock, ticket>>

ReadBack(c) ==
  /\ Goto(c, "back", "idle") /\ activeReaders' = (activeReaders + TicketMod - 1) % TicketMod
  /\ UNCHANGED <<readTicket, readServe, writeTicket, writeServe, ticket, seen>>

ReadAgain(c) ==
  /\ Goto(c, "idle", "enter") /\ writeServe = writeTicket
  /\ UNCHANGED <<lock, ticket, seen>>

\* The reader is in and lets the next one try.
ReadAdmit(c) ==
  /\ Goto(c, "admit", "reading") /\ readServe' = Inc(readServe)
  /\ UNCHANGED <<readTicket, writeTicket, writeServe, activeReaders, ticket, seen>>

ReadRelease(c) ==
  /\ Goto(c, "reading", "run") /\ activeReaders' = (activeReaders + TicketMod - 1) % TicketMod
  /\ UNCHANGED <<readTicket, readServe, writeTicket, writeServe, ticket, seen>>

\* rwlock_write_acquire(): the turn of the ticket, then no reader left.
WriteTicket(c) ==
  /\ Goto(c, "run", "write")
  /\ ticket' = [ticket EXCEPT ![c] = writeTicket] /\ writeTicket' = Inc(writeTicket)
  /\ UNCHANGED <<readTicket, readServe, writeServe, activeReaders, seen>>

WriteServed(c) ==
  /\ Goto(c, "write", "drain") /\ writeServe = ticket[c]
  /\ ticket' = [ticket EXCEPT ![c] = 0]
  /\ UNCHANGED <<lock, seen>>

WriteEnter(c) ==
  /\ Goto(c, "drain", "writing") /\ activeReaders = 0
  /\ UNCHANGED <<lock, ticket, seen>>

WriteRelease(c) ==
  /\ Goto(c, "writing", "run") /\ writeServe' = Inc(writeServe)
  /\ UNCHANGED <<readTicket, readServe, writeTicket, activeReaders, ticket, seen>>

Read(c) == ReadTicket(c) \/ ReadServed(c) \/ ReadEnter(c) \/ ReadFirst(c) \/ ReadSecond(c)
             \/ ReadBack(c) \/ ReadAgain(c) \/ ReadAdmit(c) \/ ReadRelease(c)

Write(c) == WriteTicket(c) \/ WriteServed(c) \/ WriteEnter(c) \/ WriteRelease(c)
Next == \E c \in Cpus : Read(c) \/ Write(c)

Spec == Init /\ [][Next]_vars

\* A reader counts as one from the moment both loads told it that no writer is there.
\* Every step is then a step of a lock that is held by readers or by one writer.
Lock == INSTANCE SharedLock WITH Threads <- Cpus,
                                 readers <- {c \in Cpus : pc[c] \in {"admit", "reading"}},
                                 writers <- {c \in Cpus : pc[c] = "writing"}

ImplementsLock == Lock!Spec
=============================================================================
