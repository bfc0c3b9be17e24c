-------------------------------- MODULE Tlb --------------------------------
(***************************************************************************)
(* Address spaces, their translation caches and the inter-processor        *)
(* interrupts that keep them coherent: src/kernel/mem/vmm.c, the locks and *)
(* CPU sets of src/kernel/mem/space.c, src/kernel/cpu/ipi.c.  A space maps *)
(* one region; the kernel's is mapped, with global entries, in every other *)
(* space too.  Interrupts are disabled wherever stage is not "run", a CPU  *)
(* that spins on a lock included.                                          *)
(***************************************************************************)
EXTENDS Integers, Sequences, FiniteSets, SequencesExt

CONSTANTS
  Cores, None,     \* the CPUs
  AllSpaces, Kernel,   \* all spaces, and kernelSpace
  Frames,          \* physical memory
  Changing,        \* spaces whose region is mapped and unmapped
  Large,           \* those of them with a region of more than 16 pages
  QueueSize        \* IPI_QUEUE_SIZE

ASSUME TlbAssumption ==
  /\ IsFiniteSet(Cores) /\ Kernel \in AllSpaces
  /\ None \notin Cores /\ None \notin AllSpaces /\ None \notin Frames

VARIABLES
  pte,      \* space -> its frame, None
  spaceLock, cpus, acks,        \* space->lock, ->cpus, ->shootdownAcks
  current, cr3, tlb,            \* per CPU: pcpu_vmm->space, the page table, cached translations
  shootdowns, ipis, pending,    \*   pcpu_vmm->shootdowns, pcpu_ipi, interrupt raised
  stage, target, tell, expected, old

tlbVars == <<pte, spaceLock, cpus, acks, current, cr3, tlb, shootdowns, ipis, pending,
             stage, target, tell, expected, old>>

tables == <<pte, spaceLock, cpus, acks>>
ipiVars == <<shootdowns, ipis, pending>>
locals == <<target, tell, expected, old>>

\* vmm_cpu_init()
TlbInit ==
  /\ pte = [s \in AllSpaces |-> None] /\ spaceLock = [s \in AllSpaces |-> None]
  /\ cpus = [s \in AllSpaces |-> IF s = Kernel THEN Cores ELSE {}]
  /\ acks = [s \in AllSpaces |-> 0]
  /\ current = [c \in Cores |-> Kernel] /\ cr3 = [c \in Cores |-> Kernel]
  /\ tlb = [c \in Cores |-> {}] /\ shootdowns = [c \in Cores |-> <<>>]
  /\ ipis = [c \in Cores |-> 0] /\ pending = [c \in Cores |-> FALSE]
  /\ stage = [c \in Cores |-> "run"] /\ target = [c \in Cores |-> None]
  /\ tell = [c \in Cores |-> <<>>] /\ expected = [c \in Cores |-> 0]
  /\ old = [c \in Cores |-> None]

Goto(c, from, to) == stage[c] = from /\ stage' = [stage EXCEPT ![c] = to]

Free == Frames \ ({pte[s] : s \in AllSpaces} \cup {old[c] : c \in Cores})

\* What CPU c has cached after its page table register was written: that
\* drops all but global entries.
Flushed(c) == {e \in tlb[c] : e.space = Kernel}

\* tlb_invalidate()
Invalidated(c, s) ==
  IF s \in Large THEN Flushed(c) ELSE {e \in tlb[c] : e.space # s}

\* Memory is used: the translation is cached.
Touch(c, s) ==
  /\ stage[c] = "run" /\ s \in {cr3[c], Kernel} /\ pte[s] # None
  /\ ~\E e \in tlb[c] : e.space = s
  /\ tlb' = [tlb EXCEPT ![c] = @ \cup {[space |-> s, frame |-> pte[s]]}]
  /\ UNCHANGED <<tables, current, cr3, ipiVars, stage, locals>>

\* space_mapping_start() spins on the lock of the space.
MappingStart(c, s, op) ==
  /\ Goto(c, "run", op) /\ s \in Changing \cap {cr3[c], Kernel}
  /\ target' = [target EXCEPT ![c] = s]
  /\ UNCHANGED <<tables, current, cr3, tlb, ipiVars, tell, expected, old>>

\* vmm_alloc(): the lock is held to space_mapping_end().
Alloc(c) ==
  LET s == target[c] IN
  /\ Goto(c, "alloc", "run") /\ spaceLock[s] = None
  /\ IF pte[s] # None THEN UNCHANGED pte        \* VMM_ALLOC_FAIL_IF_MAPPED
     ELSE \E f \in Free : pte' = [pte EXCEPT ![s] = f]
  /\ UNCHANGED <<spaceLock, cpus, acks, current, cr3, tlb, ipiVars, locals>>

\* vmm_unmap(): page_table_unmap(), and vmm_tlb_shootdown() begins.
Unmap(c) ==
  LET s == target[c] IN
  /\ Goto(c, "unmap", "push") /\ spaceLock[s] = None
  /\ spaceLock' = [spaceLock EXCEPT ![s] = c]
  /\ pte' = [pte EXCEPT ![s] = None] /\ old' = [old EXCEPT ![c] = pte[s]]
  /\ tlb' = [tlb EXCEPT ![c] = Invalidated(c, s)]
  /\ acks' = [acks EXCEPT ![s] = 0] /\ expected' = [expected EXCEPT ![c] = 0]
  /\ tell' = [tell EXCEPT ![c] = SetToSeq(cpus[s] \ {c})]
  /\ UNCHANGED <<cpus, current, cr3, ipiVars, target>>

ShootdownPush(c) ==
  /\ Goto(c, "push", "send") /\ tell[c] # <<>>
  /\ shootdowns' = [shootdowns EXCEPT ![Head(tell[c])] = Append(@, target[c])]
  /\ UNCHANGED <<tables, current, cr3, tlb, ipis, pending, locals>>

\* ipi_send(): without room in the queue the kernel panics.
ShootdownSend(c) ==
  LET d == Head(tell[c]) IN
  /\ Goto(c, "send", "push") /\ ipis[d] < QueueSize - 1
  /\ ipis' = [ipis EXCEPT ![d] = @ + 1] /\ pending' = [pending EXCEPT ![d] = TRUE]
  /\ tell' = [tell EXCEPT ![c] = Tail(@)] /\ expected' = [expected EXCEPT ![c] = @ + 1]
  /\ UNCHANGED <<tables, current, cr3, tlb, shootdowns, target, old>>

\* Mutant: the memory is freed without waiting for the answers.
UnmapEnd_NoWait(c) ==
  LET s == target[c] IN
  /\ Goto(c, "push", "run") /\ tell[c] = <<>>
  /\ old' = [old EXCEPT ![c] = None] /\ spaceLock' = [spaceLock EXCEPT ![s] = None]
  /\ UNCHANGED <<pte, cpus, acks, current, cr3, tlb, ipiVars, target, tell, expected>>

\* All have answered: page_table_clear() frees the memory.
UnmapEnd(c) ==
  LET s == target[c] IN
  /\ Goto(c, "push", "run") /\ tell[c] = <<>> /\ acks[s] >= expected[c]
  /\ old' = [old EXCEPT ![c] = None] /\ spaceLock' = [spaceLock EXCEPT ![s] = None]
  /\ UNCHANGED <<pte, cpus, acks, current, cr3, tlb, ipiVars, target, tell, expected>>

\* ipi_handle_pending()
Interrupt(c) ==
  /\ Goto(c, "run", "ipi") /\ pending[c] /\ pending' = [pending EXCEPT ![c] = FALSE]
  /\ UNCHANGED <<tables, current, cr3, tlb, shootdowns, ipis, locals>>

\* vmm_tlb_shootdown_ipi(), called for every message, empties the list.
IpiShootdown(c) ==
  LET s == Last(shootdowns[c]) IN
  /\ stage[c] = "ipi" /\ ipis[c] > 0 /\ shootdowns[c] # <<>>
  /\ shootdowns' = [shootdowns EXCEPT ![c] = Front(@)]
  /\ tlb' = [tlb EXCEPT ![c] = Invalidated(c, s)] /\ acks' = [acks EXCEPT ![s] = @ + 1]
  /\ UNCHANGED <<pte, spaceLock, cpus, current, cr3, ipis, pending, stage, locals>>

IpiNext(c) ==
  /\ stage[c] = "ipi" /\ ipis[c] > 0 /\ shootdowns[c] = <<>>
  /\ ipis' = [ipis EXCEPT ![c] = @ - 1]
  /\ UNCHANGED <<tables, current, cr3, tlb, shootdowns, pending, stage, locals>>

IpiEnd(c) ==
  /\ Goto(c, "ipi", "run") /\ ipis[c] = 0
  /\ UNCHANGED <<tables, current, cr3, tlb, ipiVars, locals>>

\* vmm_load(), by the scheduler: the old space is left, the new one entered,
\* and the page table register is written last.
Load(c, s) ==
  /\ Goto(c, "run", "leave") /\ s # current[c] /\ target' = [target EXCEPT ![c] = s]
  /\ UNCHANGED <<tables, current, cr3, tlb, ipiVars, tell, expected, old>>

LoadLeave(c) ==
  /\ Goto(c, "leave", "enter") /\ spaceLock[current[c]] = None
  /\ cpus' = [cpus EXCEPT ![current[c]] = @ \ {c}] /\ current' = [current EXCEPT ![c] = None]
  /\ UNCHANGED <<pte, spaceLock, acks, cr3, tlb, ipiVars, locals>>

LoadEnter(c) ==
  LET s == target[c] IN
  /\ Goto(c, "enter", "cr3") /\ spaceLock[s] = None
  /\ cpus' = [cpus EXCEPT ![s] = @ \cup {c}] /\ current' = [current EXCEPT ![c] = s]
  /\ UNCHANGED <<pte, spaceLock, acks, cr3, tlb, ipiVars, locals>>

LoadCr3(c) ==
  /\ Goto(c, "cr3", "run") /\ cr3' = [cr3 EXCEPT ![c] = current[c]]
  /\ tlb' = [tlb EXCEPT ![c] = Flushed(c)]
  /\ UNCHANGED <<tables, current, ipiVars, locals>>

TlbNext ==
  \E c \in Cores :
    \/ \E s \in AllSpaces : \/ Touch(c, s) \/ Load(c, s)
                            \/ \E op \in {"alloc", "unmap"} : MappingStart(c, s, op)
    \/ Alloc(c) \/ Unmap(c) \/ ShootdownPush(c) \/ ShootdownSend(c) \/ UnmapEnd(c)
    \/ Interrupt(c) \/ IpiShootdown(c) \/ IpiNext(c) \/ IpiEnd(c)
    \/ LoadLeave(c) \/ LoadEnter(c) \/ LoadCr3(c)

TlbSpec == TlbInit /\ [][TlbNext]_tlbVars

-----------------------------------------------------------------------------
(* No CPU that may use memory has a translation to a frame that was freed  *)
(* or that now belongs to another mapping: memory is freed only after      *)
(* every CPU dropped its translations (vmm_unmap(), vmm_load()).           *)
NoStaleTranslation ==
  \A c \in Cores : \A e \in tlb[c] :
    stage[c] = "run" /\ e.space \in {cr3[c], Kernel} =>
      e.frame = pte[e.space] \/ \E d \in Cores : old[d] = e.frame /\ target[d] = e.space

(* A CPU that is asked to drop its translations can answer: it does not    *)
(* spin, with interrupts disabled, on the lock that the asking CPU holds   *)
(* until the answer.                                                       *)
ShootdownAnswered ==
  \A c, d \in Cores :
    ~(/\ stage[c] = "push" /\ shootdowns[d] # <<>> /\ spaceLock[target[c]] = c
      /\ \/ stage[d] \in {"alloc", "unmap", "enter"} /\ target[d] = target[c]
         \/ stage[d] = "leave" /\ current[d] = target[c])
=============================================================================
