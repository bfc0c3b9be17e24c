--------------------------------- MODULE Irq --------------------------------
(***************************************************************************)
(* Interrupt requests, src/kernel/cpu/irq.c: physical IRQs are bound to    *)
(* virtual ones, whose handlers are called, through the domains that the   *)
(* drivers of interrupt controllers register and take back.                *)
(* The lock of the list of domains is held over whole calls; the lock of   *)
(* an IRQ is taken for one IRQ at a time, so a search or a loop over the   *)
(* IRQs interleaves with calls that use one of them.                       *)
(* external: a chip routes an IRQ between enable() and disable(), to the   *)
(* CPU that it was enabled for.                                            *)
(***************************************************************************)
EXTENDS Integers, FiniteSets

CONSTANTS
  Virts,              \* the vectors: 1..n
  Phys, Cpus, Funcs,  \* physical IRQs, CPUs and handler functions
  Domains,            \* domains that drivers register
  Span,               \* [Domains -> SUBSET Phys]: start and end of each
  Allocators,         \* threads that allocate
  Driver,             \* the thread that registers and unregisters domains
  MaxRefs,            \* bound: allocations of one IRQ
  FailsIn,            \* calls in which enable() may fail
  None

Callers == Allocators \cup {Driver}
Start == 1
End == Cardinality(Virts) + 1

VARIABLES
  irqs,               \* [Virts -> irq_t]
  domains,            \* the registered ones
  route,              \* external: what the hardware delivers
  readers, writer,    \* domainsLock
  op,                 \* the call of each thread that is under way
  fault               \* a chip was called through no domain, or a freed handler stays linked;
                      \*   it ends the behaviour

vars == <<irqs, domains, route, readers, writer, op, fault>>

Idle == [at |-> "idle", virt |-> Start, arg |-> None]
NoIrq == [phys |-> None, flags |-> None, cpu |-> None, domain |-> None, refCount |-> 0,
          handlers |-> {}]

\* irq_init()
Init ==
  /\ irqs = [v \in Virts |-> NoIrq] /\ route = [v \in Virts |-> None] /\ domains = {}
  /\ readers = {} /\ writer = None /\ op = [t \in Callers |-> Idle]
  /\ fault = [why |-> "none", phys |-> None]

\* irq_domain_lookup()
DomainLookup(phys) ==
  IF \E d \in domains : phys \in Span[d] THEN CHOOSE d \in domains : phys \in Span[d] ELSE None

Routed(irq) == [domain |-> irq.domain, phys |-> irq.phys, cpu |-> irq.cpu]

\* irq_update(): the states of the hardware that it may leave behind, and whether it fails.
Update(v, irq, call) ==
  IF irq.domain = None THEN {[route |-> route[v], ok |-> TRUE]}
  ELSE IF irq.handlers = {} THEN {[route |-> None, ok |-> TRUE]}
  ELSE {[route |-> Routed(irq), ok |-> TRUE]}
         \cup (IF call \in FailsIn THEN {[route |-> route[v], ok |-> FALSE]} ELSE {})

Set(v, irq, r) == irqs' = [irqs EXCEPT ![v] = irq] /\ route' = [route EXCEPT ![v] = r]
Step(t, at, v) == op' = [op EXCEPT ![t] = [@ EXCEPT !.at = at, !.virt = v]]
Return(t) == op' = [op EXCEPT ![t] = Idle]

\* The last handler goes, and the chip of the domain is told, whether there is one or not.
Disable(v) ==
  fault' = IF irqs[v].domain # None THEN fault ELSE [why |-> "chip", phys |-> irqs[v].phys]

-----------------------------------------------------------------------------
\* irq_virt_alloc() holds the lock of the domains for reading.
Alloc(t) ==
  /\ op[t] = Idle /\ writer = None /\ readers' = readers \cup {t}
  /\ \E phys \in Phys, flags \in {"shared", "exclusive"}, cpu \in Cpus :
       op' = [op EXCEPT ![t] = [at |-> "share", virt |-> Start,
                                arg |-> [phys |-> phys, flags |-> flags, cpu |-> cpu]]]
  /\ UNCHANGED <<irqs, domains, route, writer, fault>>

AllocEnd(t) == Return(t) /\ readers' = readers \ {t}

\* The IRQ that was found is bound while its lock is still held.
Bind(t, v) ==
  LET a == op[t].arg
      irq == [irqs[v] EXCEPT !.phys = a.phys, !.flags = a.flags, !.cpu = a.cpu,
                             !.domain = DomainLookup(a.phys)]
  IN \E u \in Update(v, irq, "alloc") :
       /\ Set(v, [irq EXCEPT !.refCount = IF u.ok THEN @ + 1 ELSE @], u.route)
       /\ AllocEnd(t)

\* The first loop looks for the physical IRQ, the second one for a free virtual IRQ.
AllocShare(t) ==
  LET v == op[t].virt
  IN /\ op[t].at = "share"
     /\ IF v = End THEN Step(t, "search", Start) /\ UNCHANGED <<irqs, route, readers>>
        ELSE IF irqs[v].refCount > 0 /\ irqs[v].phys = op[t].arg.phys
        THEN IF irqs[v].flags # op[t].arg.flags \/ irqs[v].flags = "exclusive"
             THEN AllocEnd(t) /\ UNCHANGED <<irqs, route>>
             ELSE irqs[v].refCount < MaxRefs /\ Bind(t, v)
        ELSE Step(t, "share", v + 1) /\ UNCHANGED <<irqs, route, readers>>
     /\ UNCHANGED <<domains, writer, fault>>

AllocSearch(t) ==
  LET v == op[t].virt
  IN /\ op[t].at = "search"
     /\ IF v = End THEN AllocEnd(t) /\ UNCHANGED <<irqs, route>>
        ELSE IF irqs[v].refCount = 0 THEN Bind(t, v)
        ELSE Step(t, "search", v + 1) /\ UNCHANGED <<irqs, route, readers>>
     /\ UNCHANGED <<domains, writer, fault>>

\* irq_virt_free(): the last one takes the handlers with it.
VirtFree(v) ==
  /\ irqs[v].refCount > 0
  /\ IF irqs[v].refCount > 1
     THEN Set(v, [irqs[v] EXCEPT !.refCount = @ - 1], route[v]) /\ UNCHANGED fault
     ELSE /\ Set(v, NoIrq, IF irqs[v].handlers = {} THEN route[v] ELSE None)
          /\ IF irqs[v].handlers = {} THEN UNCHANGED fault ELSE Disable(v)
  /\ UNCHANGED <<domains, readers, writer, op>>

\* irq_virt_set_affinity()
SetAffinity(v, cpu) ==
  /\ irqs[v].domain # None
  /\ \E u \in IF irqs[v].handlers = {} THEN {[route |-> route[v], ok |-> TRUE]}
              ELSE Update(v, [irqs[v] EXCEPT !.cpu = cpu], "affinity") :
       Set(v, [irqs[v] EXCEPT !.cpu = cpu], IF u.ok THEN u.route ELSE None)
  /\ UNCHANGED <<domains, readers, writer, op, fault>>

\* irq_handler_register(), by a caller that has allocated the IRQ.  When the chip cannot
\* enable it the handler is freed and stays in the list.
HandlerRegister(v, f) ==
  /\ irqs[v].refCount > 0 /\ f \notin irqs[v].handlers
  /\ \E irq \in {[irqs[v] EXCEPT !.handlers = @ \cup {f}]} : \E u \in Update(v, irq, "register") :
       /\ Set(v, irq, u.route)
       /\ fault' = IF u.ok THEN fault ELSE [why |-> "handler", phys |-> irq.phys]
  /\ UNCHANGED <<domains, readers, writer, op>>

HandlerUnregister(v, f) ==
  /\ f \in irqs[v].handlers
  /\ Set(v, [irqs[v] EXCEPT !.handlers = @ \ {f}],
         IF irqs[v].handlers = {f} THEN None ELSE route[v])
  /\ IF irqs[v].handlers = {f} THEN Disable(v) ELSE UNCHANGED fault
  /\ UNCHANGED <<domains, readers, writer, op>>

-----------------------------------------------------------------------------
Locked(at, d) ==
  /\ op[Driver] = Idle /\ readers = {} /\ writer = None /\ writer' = Driver
  /\ op' = [op EXCEPT ![Driver] = [at |-> at, virt |-> Start, arg |-> d]]

DriverEnds == writer' = None /\ Return(Driver)

\* irq_chip_register(): a domain that overlaps another one is refused.
ChipRegister(d) ==
  /\ Locked("rebind", d) /\ \A e \in domains : Span[d] \cap Span[e] = {}
  /\ domains' = domains \cup {d}
  /\ UNCHANGED <<irqs, route, readers, fault>>

\* irq_domain_rebind_orphaned_irqs(): one IRQ; a failure starts the way back.
Rebind ==
  LET v == op[Driver].virt
      d == op[Driver].arg
  IN /\ op[Driver].at = "rebind"
     /\ IF v = End THEN DriverEnds /\ UNCHANGED <<irqs, route>>
        ELSE IF irqs[v].refCount = 0 \/ irqs[v].phys \notin Span[d]
        THEN Step(Driver, "rebind", v + 1) /\ UNCHANGED <<irqs, route, writer>>
        ELSE /\ \E irq \in {[irqs[v] EXCEPT !.domain = d]} : \E u \in Update(v, irq, "rebind") :
                  IF u.ok THEN Set(v, irq, u.route) /\ Step(Driver, "rebind", v + 1)
                  ELSE Set(v, [irq EXCEPT !.domain = None], u.route)
                         /\ Step(Driver, "revert", v - 1)
             /\ UNCHANGED writer
     /\ UNCHANGED <<domains, readers, fault>>

Unbind(v, d) ==
  IF irqs[v].domain = d THEN Set(v, [irqs[v] EXCEPT !.domain = None],
                                 IF irqs[v].handlers = {} THEN route[v] ELSE None)
  ELSE UNCHANGED <<irqs, route>>

\* The IRQs before the one that failed; then the domain goes.
Revert ==
  LET v == op[Driver].virt
      d == op[Driver].arg
  IN /\ op[Driver].at = "revert"
     /\ IF v = 0 THEN DriverEnds /\ domains' = domains \ {d} /\ UNCHANGED <<irqs, route>>
        ELSE Unbind(v, d) /\ Step(Driver, "revert", v - 1) /\ UNCHANGED <<domains, writer>>
     /\ UNCHANGED <<readers, fault>>

\* irq_chip_unregister(), of a chip with one domain
ChipUnregister(d) ==
  /\ d \in domains /\ Locked("unbind", d)
  /\ UNCHANGED <<irqs, domains, route, readers, fault>>

UnbindAll ==
  LET v == op[Driver].virt
      d == op[Driver].arg
  IN /\ op[Driver].at = "unbind"
     /\ IF v = End THEN DriverEnds /\ domains' = domains \ {d} /\ UNCHANGED <<irqs, route>>
        ELSE Unbind(v, d) /\ Step(Driver, "unbind", v + 1) /\ UNCHANGED <<domains, writer>>
     /\ UNCHANGED <<readers, fault>>

\* irq_dispatch(): the handlers that an interrupt runs, and whether it is acknowledged.
Dispatch(v) == IF irqs[v].domain = None THEN [ran |-> {}, eoi |-> FALSE]
               ELSE [ran |-> irqs[v].handlers, eoi |-> TRUE]

Next ==
  /\ fault.why = "none"
  /\ \/ \E t \in Allocators : Alloc(t) \/ AllocShare(t) \/ AllocSearch(t)
     \/ \E v \in Virts :
          \/ VirtFree(v) \/ \E cpu \in Cpus : SetAffinity(v, cpu)
          \/ \E f \in Funcs : HandlerRegister(v, f) \/ HandlerUnregister(v, f)
     \/ \E d \in Domains : ChipRegister(d) \/ ChipUnregister(d)
     \/ Rebind \/ Revert \/ UnbindAll

Spec == Init /\ [][Next]_vars

-----------------------------------------------------------------------------
\* The hardware delivers an IRQ exactly when it has a domain and handlers, on the CPU that it
\* is set to, so an interrupt always finds handlers and is acknowledged, and no handler that
\* is gone is linked.  A chip that is not there is called only for an IRQ that no registered
\* domain covers, or while the driver is at work.
RoutedExactly ==
  /\ fault.why # "handler"
  /\ fault.why = "chip" => DomainLookup(fault.phys) = None \/ writer = Driver
  /\ \A v \in Virts :
       /\ route[v] = IF irqs[v].domain # None /\ irqs[v].handlers # {}
                     THEN Routed(irqs[v]) ELSE None
       /\ route[v] # None => Dispatch(v).ran # {} /\ Dispatch(v).eoi

\* An IRQ is bound to a registered domain that covers it, and to one as soon as there is one;
\* a physical IRQ has one virtual IRQ, and an exclusive one has one user.
BoundToDomain ==
  \A v \in Virts :
    /\ irqs[v].domain # None => irqs[v].domain \in domains
         /\ irqs[v].phys \in Span[irqs[v].domain]
    /\ irqs[v].refCount > 0 /\ writer = None => irqs[v].domain = DomainLookup(irqs[v].phys)
    /\ irqs[v].flags = "exclusive" => irqs[v].refCount <= 1
    /\ \A w \in Virts \ {v} :
         irqs[v].refCount > 0 /\ irqs[w].refCount > 0 => irqs[v].phys # irqs[w].phys
=============================================================================
