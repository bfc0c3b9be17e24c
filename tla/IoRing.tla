------------------------------- MODULE IoRing -------------------------------
(***************************************************************************)
(* One I/O ring of a process: its context (src/kernel/io/ring.c), the      *)
(* request packets it is served with (src/kernel/io/irp.c) and the user    *)
(* side of its queues (include/sys/ioring.h).                              *)
(*                                                                         *)
(* ioring_ctx_complete() takes no lock: a thread in SYS_ENTER completes    *)
(* the requests it cannot serve, an interrupt the ones that time out, and  *)
(* completing one request may dispatch, and complete, the next one of its  *)
(* chain.  A context, a thread or the interrupt of a CPU, therefore has a  *)
(* stack of completions, and every access to the shared indices is a step. *)
(* The pool is the set of its free packets (module Irp has the list), the *)
(* result registers and the arguments of a request are left out.           *)
(***************************************************************************)
EXTENDS Integers, Sequences, FiniteSets, SequencesExt

CONSTANTS
  Threads, Cpus,
  Ops,         \* operations submitted: "nop", or "bad" for those dispatch refuses
  Timeouts,    \* sqe.timeout of the submitted requests
  Never,       \* CLOCKS_NEVER, above all times
  Links,       \* "none", "link", "hard": SQE_LINK and SQE_HARDLINK
  Centries,    \* entries of the completion queue, and packets in the pool
  Sentries,    \* entries of the submission queue
  IndexMod,    \* 2^32: the indices are uint32_t
  MaxSqes,     \* bound on the requests of a behaviour
  MaxUptime    \* bound on the clock

Irps == 1..Centries
NoIrp == 0
Contexts == Threads \cup Cpus

VARIABLES
  busy, mapped,  \* the flags of the context
  thread,        \* per thread: where it is in ioring_ctx_notify(), its locals
  sq,            \* submitted requests that were not popped yet
  irp,           \* the packets
  free,          \* packets in the pool
  cqueue, ctail, chead,
  stack,         \* per context: the running calls of ioring_ctx_complete()
  timeouts,      \* pcpu_irps.timeouts
  now,           \* irp_timeouts_check(): the time it works with, or Never
  timer,         \* when the timer of a CPU fires
  uptime,
  halted,        \* the completion queue overflowed: panic(); or two completions have the
                 \*   same tail, and one of them will be lost
  sent,          \* history: how many requests were submitted
  seen,          \* history: the completions the process popped, in order
  dropped        \* history: requests given up: one before them failed, or teardown

flags == <<busy, mapped>>
cq    == <<cqueue, ctail, chead>>
time  == <<timeouts, now, timer, uptime>>
hist  == <<sent, seen, dropped>>
vars  == <<flags, thread, sq, irp, free, cq, stack, time, halted, hist>>

Away == [at |-> "user", want |-> 0, wait |-> 0, irps |-> <<>>, link |-> NoIrp]
NoSqe == [n |-> 0, op |-> "nop", timeout |-> Never, link |-> "none"]
Blank == [sqe |-> NoSqe, next |-> NoIrp, err |-> "EOK",
          cancel |-> "NULL", cpu |-> NoIrp, deadline |-> Never]

Init ==
  /\ busy = FALSE /\ mapped = FALSE
  /\ thread = [t \in Threads |-> Away]
  /\ sq = <<>> /\ irp = [i \in Irps |-> Blank] /\ free = Irps
  /\ cqueue = [i \in 0..(Centries - 1) |-> [n |-> 0, err |-> "EOK"]] /\ ctail = 0 /\ chead = 0
  /\ stack = [k \in Contexts |-> <<>>]
  /\ timeouts = [c \in Cpus |-> <<>>]
  /\ now = [c \in Cpus |-> Never] /\ timer = [c \in Cpus |-> Never] /\ uptime = 0
  /\ halted = FALSE /\ sent = 0 /\ seen = <<>> /\ dropped = {}

-----------------------------------------------------------------------------
(* The process *)

Avail == (ctail - chead) % IndexMod

\* SYS_SETUP, where ioring_ctx_map() succeeds; a failure frees what it mapped.
Setup(t) ==
  /\ thread[t].at = "user" /\ ~busy /\ ~mapped
  /\ mapped' = TRUE /\ free' = Irps /\ sq' = <<>> /\ chead' = 0 /\ ctail' = 0
  /\ UNCHANGED <<busy, thread, irp, cqueue, stack, time, halted, hist>>

\* Completions the queue holds for the process, oldest first.
Pending == [j \in 1..Avail |-> cqueue[(chead + j - 1) % Centries]]
Numbers(s) == {s[j].n : j \in 1..Len(s)}

\* SYS_TEARDOWN: refused while a packet of the pool is used.  What the queues still
\* hold is gone.
Teardown(t) ==
  /\ thread[t].at = "user" /\ ~busy /\ mapped /\ free = Irps
  /\ mapped' = FALSE /\ sq' = <<>> /\ chead' = ctail
  /\ dropped' = dropped \cup Numbers(sq) \cup Numbers(Pending)
  /\ UNCHANGED <<busy, thread, irp, free, cqueue, ctail, stack, time, halted, sent, seen>>

\* sqe_push()
SqePush ==
  /\ mapped /\ sent < MaxSqes /\ Len(sq) < Sentries
  /\ \E op \in Ops, timeout \in Timeouts, link \in Links :
       sq' = Append(sq, [n |-> sent + 1, op |-> op, timeout |-> timeout, link |-> link])
  /\ sent' = sent + 1
  /\ UNCHANGED <<flags, thread, irp, free, cq, stack, time, halted, seen, dropped>>

\* cqe_pop()
CqePop ==
  /\ mapped /\ chead # ctail
  /\ seen' = Append(seen, cqueue[chead % Centries])
  /\ chead' = (chead + 1) % IndexMod
  /\ UNCHANGED <<flags, thread, sq, irp, free, cqueue, ctail, stack, time, halted, sent, dropped>>

-----------------------------------------------------------------------------
(* ioring_ctx_notify(); the calls that return at once change nothing *)

Enter(t) ==
  /\ thread[t].at = "user" /\ ~busy /\ mapped
  /\ \E want \in 1..Sentries, wait \in 0..1 :
       thread' = [thread EXCEPT ![t] = [Away EXCEPT !.at = "pop", !.want = want, !.wait = wait]]
  /\ busy' = TRUE
  /\ UNCHANGED <<mapped, sq, irp, free, cq, stack, time, halted, hist>>

\* ioring_ctx_sqe_pop(): a new packet starts a chain or continues the open one.
\* The packets of the pool are interchangeable.
Pop(t) ==
  LET me == thread[t]  i == CHOOSE i \in free : TRUE IN
  /\ me.at = "pop" /\ me.want > 0 /\ sq # <<>> /\ free # {}
  /\ free' = free \ {i}
  /\ irp' = [j \in Irps |->
               IF j = i THEN [Blank EXCEPT !.sqe = Head(sq)]
               ELSE IF j = me.link THEN [irp[j] EXCEPT !.next = i] ELSE irp[j]]
  /\ thread' = [thread EXCEPT ![t] =
       [@ EXCEPT !.want = @ - 1,
                 !.irps = IF me.link = NoIrp THEN Append(@, i) ELSE @,
                 !.link = IF Head(sq).link = "none" THEN NoIrp ELSE i]]
  /\ sq' = Tail(sq)
  /\ UNCHANGED <<flags, cq, stack, time, halted, hist>>

PopEnds(t) ==
  /\ thread[t].at = "pop" /\ (thread[t].want = 0 \/ sq = <<>> \/ free = {})
  /\ thread' = [thread EXCEPT ![t].at = "dispatch"]
  /\ UNCHANGED <<flags, sq, irp, free, cq, stack, time, halted, hist>>

\* irp_timeout_add() on CPU c: the list is sorted, later ones go behind equals.
Deadline(timeout) == IF timeout = Never THEN Never ELSE uptime + timeout

TimeoutAdd(i, c, d) ==
  LET before(j) == irp[j].deadline <= d
      q == timeouts[c]
  IN /\ timeouts' = [timeouts EXCEPT ![c] =
                       SelectSeq(q, before) \o <<i>> \o SelectSeq(q, LAMBDA j : ~before(j))]
     /\ timer' = [timer EXCEPT ![c] = IF d < @ THEN d ELSE @]

\* irp_set_complete(), irp_call_direct() and ioring_ctx_dispatch(), by context k on
\* CPU c with the rest of its stack: either the request waits for its timeout, or
\* irp_error() completes it and k runs ioring_ctx_complete() for it.
Dispatch(k, c, rest, packets, i) ==
  LET sqe == packets[i].sqe  d == Deadline(sqe.timeout) IN
  \/ /\ sqe.op = "nop"
     /\ stack' = [stack EXCEPT ![k] = rest]
     /\ irp' = [packets EXCEPT ![i] =
                  [@ EXCEPT !.cancel = "nop_cancel", !.deadline = d,
                            !.cpu = IF d = Never THEN NoIrp ELSE c]]
     /\ IF d = Never THEN UNCHANGED <<timeouts, timer>> ELSE TimeoutAdd(i, c, d)
  \/ /\ sqe.op = "bad"
     /\ stack' = [stack EXCEPT ![k] = Append(rest, [irp |-> i, at |-> "load", tail |-> 0])]
     /\ irp' = [packets EXCEPT ![i].err = "EINVAL"]
     /\ UNCHANGED <<timeouts, timer>>

DispatchNext(t) ==
  LET me == thread[t] IN
  /\ me.at = "dispatch" /\ stack[t] = <<>> /\ me.irps # <<>>
  /\ \E c \in Cpus : Dispatch(t, c, <<>>, irp, Head(me.irps))
  /\ thread' = [thread EXCEPT ![t].irps = Tail(@)]
  /\ UNCHANGED <<flags, sq, free, cq, now, uptime, halted, hist>>

\* Nothing is left to dispatch: return, or WAIT_BLOCK().
Release(t) ==
  /\ thread' = [thread EXCEPT ![t] = Away]
  /\ busy' = FALSE
  /\ UNCHANGED <<mapped, sq, irp, free, cq, stack, time, halted, hist>>

Move(t, from, to) ==
  /\ thread[t].at = from
  /\ thread' = [thread EXCEPT ![t].at = to]
  /\ UNCHANGED <<flags, sq, irp, free, cq, stack, time, halted, hist>>

Leave(t) ==
  /\ thread[t].at = "dispatch" /\ stack[t] = <<>> /\ thread[t].irps = <<>>
  /\ IF thread[t].wait = 0 THEN Release(t) ELSE Move(t, "dispatch", "test")

Test(t) ==
  /\ thread[t].at = "test"
  /\ IF Avail >= thread[t].wait THEN Release(t) ELSE Move(t, "test", "prepare")

\* wait_block_prepare() queues the thread; the condition was tested before.
Prepare(t) == Move(t, "prepare", "wait")

\* A note ends the wait.
Interrupted(t) == thread[t].at = "wait" /\ Release(t)

-----------------------------------------------------------------------------
(* ioring_ctx_complete() *)

Top(k) == Last(stack[k])
AtTop(k, at) == stack[k] # <<>> /\ Top(k).at = at
SetTop(k, f) == stack' = [stack EXCEPT ![k] = Append(Front(@), f)]

\* Another completion has loaded the tail and not stored it yet.
Overlaps(k) == \E j \in Contexts \ {k} : AtTop(j, "write") \/ AtTop(j, "store")


\* The indices are loaded; a full queue is a panic.  No lock keeps two completions apart:
\* when they overlap the behaviour ends.
CompleteLoad(k) ==
  /\ AtTop(k, "load")
  /\ IF Avail >= Centries \/ Overlaps(k)
     THEN halted' = TRUE /\ UNCHANGED stack
     ELSE SetTop(k, [Top(k) EXCEPT !.at = "write", !.tail = ctail]) /\ UNCHANGED halted
  /\ UNCHANGED <<flags, thread, sq, irp, free, cq, time, hist>>

CompleteWrite(k) ==
  /\ AtTop(k, "write")
  /\ cqueue' = [cqueue EXCEPT ![Top(k).tail % Centries] =
                  [n |-> irp[Top(k).irp].sqe.n, err |-> irp[Top(k).irp].err]]
  /\ SetTop(k, [Top(k) EXCEPT !.at = "store"])
  /\ UNCHANGED <<flags, thread, sq, irp, free, ctail, chead, time, halted, hist>>

\* The new tail is published and everyone who waits tests again.
CompleteStore(k) ==
  /\ AtTop(k, "store")
  /\ ctail' = (Top(k).tail + 1) % IndexMod
  /\ thread' = [t \in Threads |-> IF thread[t].at = "wait"
                                  THEN [thread[t] EXCEPT !.at = "test"] ELSE thread[t]]
  /\ SetTop(k, [Top(k) EXCEPT !.at = "chain"])
  /\ UNCHANGED <<flags, sq, irp, free, cqueue, chead, time, halted, hist>>

\* The packets linked behind i.
Chain(i) ==
  LET reach[n \in 0..Centries] ==
        IF n = 0 THEN {irp[i].next} \ {NoIrp}
        ELSE reach[n - 1] \cup ({irp[j].next : j \in reach[n - 1]} \ {NoIrp})
  IN reach[Centries]

\* A failed request takes its chain with it, unless SQE_HARDLINK is set: every
\* packet of it is freed.  Otherwise irp_chain_next() cuts off the next packet,
\* which is dispatched.
CompleteChain(k) ==
  LET i == Top(k).irp
      next == irp[i].next
      rest == Append(Front(stack[k]), [Top(k) EXCEPT !.at = "finish"])
      fails == irp[i].err # "EOK" /\ irp[i].sqe.link # "hard"
  IN
  /\ AtTop(k, "chain")
  /\ \/ /\ fails \/ next = NoIrp
        /\ free' = free \cup Chain(i)
        /\ dropped' = dropped \cup {irp[j].sqe.n : j \in Chain(i)}
        /\ irp' = [irp EXCEPT ![i].next = NoIrp]
        /\ stack' = [stack EXCEPT ![k] = rest]
        /\ UNCHANGED <<timeouts, timer>>
     \/ /\ ~fails /\ next # NoIrp
        /\ \E c \in IF k \in Cpus THEN {k} ELSE Cpus :
             Dispatch(k, c, rest, [irp EXCEPT ![i].next = irp[next].next, ![next].next = NoIrp],
                      next)
        /\ UNCHANGED <<free, dropped>>
  /\ UNCHANGED <<flags, thread, sq, cq, now, uptime, halted, sent, seen>>

\* irp_complete(): the packet is freed, unless it was cancelled.
CompleteFinish(k) ==
  /\ AtTop(k, "finish")
  /\ free' = IF irp[Top(k).irp].cancel = "IRP_CANCELLED" THEN free ELSE free \cup {Top(k).irp}
  /\ stack' = [stack EXCEPT ![k] = Front(@)]
  /\ UNCHANGED <<flags, thread, sq, irp, cq, time, halted, hist>>

-----------------------------------------------------------------------------
(* irp_timeouts_check(), called by every interrupt *)

Interrupt(c) ==
  /\ now[c] = Never
  /\ now' = [now EXCEPT ![c] = uptime]
  /\ timer' = [timer EXCEPT ![c] = IF @ <= uptime THEN Never ELSE @]
  /\ UNCHANGED <<flags, thread, sq, irp, free, cq, stack, timeouts, uptime, halted, hist>>

\* The first request has expired: it leaves the list, and its cancel handler, which
\* finds it cancelled already, is called before it completes.
Expire(c) ==
  LET i == Head(timeouts[c]) IN
  /\ now[c] # Never /\ stack[c] = <<>> /\ timeouts[c] # <<>> /\ irp[i].deadline <= now[c]
  /\ timeouts' = [timeouts EXCEPT ![c] = Tail(@)]
  /\ irp' = [irp EXCEPT ![i] = [@ EXCEPT !.deadline = Never, !.cpu = NoIrp, !.err = "ETIMEDOUT",
                                         !.cancel = "IRP_CANCELLED"]]
  /\ stack' = [stack EXCEPT ![c] = <<[irp |-> i, at |-> "load", tail |-> 0]>>]
  /\ UNCHANGED <<flags, thread, sq, free, cq, now, timer, uptime, halted, hist>>

\* Mutant: the timer is not armed for the next deadline.
CheckEnds_NotRearmed(c) ==
  LET d == IF timeouts[c] = <<>> THEN Never ELSE irp[Head(timeouts[c])].deadline IN
  /\ now[c] # Never /\ stack[c] = <<>> /\ (timeouts[c] = <<>> \/ d > now[c])
  /\ UNCHANGED timer
  /\ now' = [now EXCEPT ![c] = Never]
  /\ UNCHANGED <<flags, thread, sq, irp, free, cq, stack, timeouts, uptime, halted, hist>>

CheckEnds(c) ==
  LET d == IF timeouts[c] = <<>> THEN Never ELSE irp[Head(timeouts[c])].deadline IN
  /\ now[c] # Never /\ stack[c] = <<>> /\ (timeouts[c] = <<>> \/ d > now[c])
  /\ timer' = [timer EXCEPT ![c] = IF d < @ THEN d ELSE @]
  /\ now' = [now EXCEPT ![c] = Never]
  /\ UNCHANGED <<flags, thread, sq, irp, free, cq, stack, timeouts, uptime, halted, hist>>

Tick ==
  /\ uptime < MaxUptime
  /\ uptime' = uptime + 1
  /\ UNCHANGED <<flags, thread, sq, irp, free, cq, stack, timeouts, now, timer, halted, hist>>

-----------------------------------------------------------------------------
User == SqePush \/ CqePop \/ \E t \in Threads : Setup(t) \/ Teardown(t) \/ Enter(t)
Notify(t) == Pop(t) \/ PopEnds(t) \/ DispatchNext(t) \/ Leave(t) \/ Test(t) \/ Prepare(t)
Complete(k) == CompleteLoad(k) \/ CompleteWrite(k) \/ CompleteStore(k) \/ CompleteChain(k)
                 \/ CompleteFinish(k)

Irq(c) == Interrupt(c) \/ Expire(c) \/ CheckEnds(c)

Next ==
  /\ ~halted
  /\ \/ User \/ Tick
     \/ \E t \in Threads : Notify(t) \/ Interrupted(t)
     \/ \E k \in Contexts : Complete(k)
     \/ \E c \in Cpus : Irq(c)

Spec == Init /\ [][Next]_vars

\* A thread in the kernel and an interrupt go on, a timer that is due fires.
Fairness ==
  /\ \A c \in Cpus : /\ WF_vars(~halted /\ timer[c] <= uptime /\ Interrupt(c))
                      /\ WF_vars(~halted /\ (Expire(c) \/ CheckEnds(c) \/ Complete(c)))
  /\ \A t \in Threads : WF_vars(~halted /\ (Notify(t) \/ Complete(t)))
  /\ WF_vars(~halted /\ Tick)

-----------------------------------------------------------------------------
(* Properties *)

OnStack(i, ats) == \E k \in Contexts : \E j \in 1..Len(stack[k]) :
                     stack[k][j].irp = i /\ stack[k][j].at \in ats

Told == Numbers(seen) \cup Numbers(Pending)

\* A packet that still owes its process an answer: not in the pool, not answered, and
\* not one that timed out, which is never given back.
Owing == {i \in Irps \ free : /\ ~OnStack(i, {"chain", "finish"})
                              /\ irp[i].cancel = "IRP_CANCELLED"
                                   => OnStack(i, {"load", "write", "store"})}

\* Every request is in exactly one place: it waits in the submission queue, or in a
\* packet that is not answered yet, or its completion is in the completion queue or
\* was popped, or it was given up.  No completion is lost, overwritten or delivered
\* twice (ioring_ctx_sqe_pop(), ioring_ctx_complete(), cqe_pop()), as long as completions
\* do not overlap.
EachInOnePlace ==
  LET parts == <<Numbers(sq), {irp[i].sqe.n : i \in Owing}, Told, dropped>> IN
  /\ 1..sent = UNION Range(parts)
  /\ sent = Len(sq) + Cardinality(Owing) + Len(seen) + Avail + Cardinality(dropped)

\* A packet that an interrupt or a completion still uses is not in the pool, and the
\* pool is not freed under it (SYS_TEARDOWN tests the packets in use).
NoUseAfterFree ==
  \A i \in Irps :
    OnStack(i, {"load", "write", "store", "chain", "finish"})
      \/ \E c \in Cpus : Contains(timeouts[c], i)
      => mapped /\ i \notin free

\* A request that is due within the bound of the clock is answered: its timeout is
\* noticed, whatever was armed and re-armed in between (irp_timeout_add(),
\* irp_timeouts_check()).
TimedAnswered ==
  \A n \in 1..MaxSqes :
    (\E c \in Cpus : \E i \in Irps : Contains(timeouts[c], i) /\ irp[i].sqe.n = n
     /\ irp[i].deadline <= MaxUptime)
      ~> (halted \/ n \in Told)

\* irp_perform_completion() asserts that a packet it frees has no packet linked to it.
ChainDone == \A k \in Contexts : AtTop(k, "finish") => irp[Top(k).irp].next = NoIrp

\* No thread sleeps while as many completions as it waits for are there.
NoLostCompletion == \A t \in Threads : thread[t].at = "wait" => Avail < thread[t].wait
=============================================================================
