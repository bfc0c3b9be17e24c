------------------------------- MODULE Cache -------------------------------
(***************************************************************************)
(* The object cache of src/kernel/mem/cache.c: slabs of objects on a list  *)
(* of free, of partly used and of full slabs, and an active slab for every *)
(* CPU.  A slab has a lock for its objects, the cache one for the lists    *)
(* and owners.  What runs under one lock is one step.  The bufctl list of  *)
(* a slab is abstracted to the set of its allocated objects; constructors  *)
(* and the layout are left out.                                            *)
(***************************************************************************)
EXTENDS Integers, Sequences, FiniteSets, SequencesExt

CONSTANTS
  Cpus,     \* each runs one thread; cache_alloc() is not preempted
  None,
  Slabs,    \* memory for slabs
  Amount,   \* cache->layout.amount
  Limit     \* CACHE_LIMIT

VARIABLES
  lists,    \* "free", "partial" and "full"
  freeCount,
  owner,    \* slab -> CPU, None (CPU_ID_INVALID)
  used,     \* slab -> its allocated objects
  mapped,   \* slabs that have memory
  active,   \* cache->cpus[]
  pc, slab, \* per CPU: where it is, and the slab it works on
  wasFull, isEmpty,
  spurious  \* CPUs that were given no object though there was memory

vars == <<lists, freeCount, owner, used, mapped, active, pc, slab, wasFull, isEmpty, spurious>>

Init ==
  /\ lists = [l \in {"free", "partial", "full"} |-> <<>>] /\ freeCount = 0
  /\ owner = [s \in Slabs |-> None] /\ used = [s \in Slabs |-> {}]
  /\ mapped = {} /\ active = [c \in Cpus |-> None]
  /\ pc = [c \in Cpus |-> "run"] /\ slab = [c \in Cpus |-> None]
  /\ wasFull = [c \in Cpus |-> FALSE] /\ isEmpty = [c \in Cpus |-> FALSE]
  /\ spurious = {}

Goto(c, from, to) == pc[c] = from /\ pc' = [pc EXCEPT ![c] = to]

\* list_remove() and list_push_back(): an entry is linked in one list.
Move(ls, s, l) ==
  [m \in DOMAIN ls |->
     LET rest == SelectSeq(ls[m], LAMBDA x : x # s) IN IF m = l THEN Append(rest, s) ELSE rest]

Room(s) == Cardinality(used[s]) < Amount

\* cache_slab_alloc(): an object of s for CPU c, none if it has none.
SlabAlloc(c, s) ==
  IF Room(s)
  THEN /\ \E i \in (1..Amount) \ used[s] : used' = [used EXCEPT ![s] = @ \cup {i}]
       /\ UNCHANGED spurious
  ELSE spurious' = spurious \cup {c} /\ UNCHANGED used

(* cache_alloc() *)

\* The active slab is tried under its own lock.
AllocActive(c) ==
  /\ active[c] # None
  /\ IF Room(active[c])
     THEN SlabAlloc(c, active[c]) /\ pc[c] = "run" /\ UNCHANGED pc
     ELSE Goto(c, "run", "full") /\ UNCHANGED <<used, spurious>>
  /\ UNCHANGED <<lists, freeCount, owner, mapped, active, slab, wasFull, isEmpty>>

AllocNoActive(c) ==
  /\ active[c] = None /\ Goto(c, "run", "allocate")
  /\ UNCHANGED <<lists, freeCount, owner, used, mapped, active, slab, wasFull, isEmpty, spurious>>

\* A slab for the CPU: a partly used one without owner, a free or a new one.
Acquire(c, ls, own) ==
  LET unowned == SelectSeq(ls["partial"], LAMBDA s : own[s] = None)
      Take(s, l) ==
        /\ lists' = Move(l, s, "partial") /\ owner' = [own EXCEPT ![s] = c]
        /\ active' = [active EXCEPT ![c] = s] /\ slab' = [slab EXCEPT ![c] = s]
        /\ pc' = [pc EXCEPT ![c] = "take"]
  IN \/ unowned # <<>> /\ Take(Head(unowned), ls) /\ UNCHANGED <<freeCount, used, mapped>>
     \/ /\ unowned = <<>> /\ ls["free"] # <<>>
        /\ Take(Head(ls["free"]), ls) /\ freeCount' = freeCount - 1 /\ UNCHANGED <<used, mapped>>
     \/ /\ unowned = <<>> /\ ls["free"] = <<>>
        /\ \E s \in Slabs \ mapped :
              /\ Take(s, ls) /\ mapped' = mapped \cup {s}
              /\ used' = [used EXCEPT ![s] = {}] /\ UNCHANGED freeCount
     \/ /\ unowned = <<>> /\ ls["free"] = <<>> /\ mapped = Slabs    \* out of memory
        /\ pc' = [pc EXCEPT ![c] = "run"] /\ lists' = ls /\ owner' = own
        /\ active' = [active EXCEPT ![c] = None] /\ UNCHANGED <<freeCount, used, mapped, slab>>

\* The active slab was full: it is tested again under both locks.
AllocFull(c) ==
  LET s == active[c] IN
  /\ pc[c] = "full" /\ UNCHANGED <<wasFull, isEmpty>>
  /\ \/ /\ Room(s) /\ SlabAlloc(c, s) /\ Goto(c, "full", "run")
        /\ UNCHANGED <<lists, freeCount, owner, mapped, active, slab>>
     \/ /\ ~Room(s) /\ UNCHANGED spurious
        /\ Acquire(c, Move(lists, s, "full"), [owner EXCEPT ![s] = None])

AllocSlow(c) ==
  /\ pc[c] = "allocate" /\ Acquire(c, lists, owner) /\ UNCHANGED <<wasFull, isEmpty, spurious>>

\* The cache's lock was released before that of the slab is taken.
AllocTake(c) ==
  /\ Goto(c, "take", "run") /\ SlabAlloc(c, slab[c])
  /\ slab' = [slab EXCEPT ![c] = None]
  /\ UNCHANGED <<lists, freeCount, owner, mapped, active, wasFull, isEmpty>>

(* cache_free() *)

FreeObject(c) ==
  \E s \in Slabs : \E i \in used[s] :
    /\ pc[c] = "run"
    /\ used' = [used EXCEPT ![s] = @ \ {i}]
    /\ wasFull' = [wasFull EXCEPT ![c] = ~Room(s)]
    /\ isEmpty' = [isEmpty EXCEPT ![c] = used[s] = {i}]
    /\ IF ~Room(s) \/ used[s] = {i}
       THEN pc' = [pc EXCEPT ![c] = "free"] /\ slab' = [slab EXCEPT ![c] = s]
       ELSE UNCHANGED <<pc, slab>>
    /\ UNCHANGED <<lists, freeCount, owner, mapped, active, spurious>>

\* What was seen under the slab's lock is acted upon under the cache's.
FreeSlab(c) ==
  LET s     == slab[c]
      moved == IF wasFull[c] THEN Move(lists, s, "partial") ELSE lists
      freed == Move(moved, s, "free")
      excess == SubSeq(freed["free"], 1, freeCount + 1 - Limit)
  IN /\ Goto(c, "free", "run") /\ slab' = [slab EXCEPT ![c] = None]
     /\ IF isEmpty[c] /\ owner[s] = None
        THEN /\ freeCount' = freeCount + 1 - Len(excess)
             /\ lists' = [freed EXCEPT !["free"] = SubSeq(@, Len(excess) + 1, Len(@))]
             /\ mapped' = mapped \ Range(excess)
        ELSE lists' = moved /\ UNCHANGED <<freeCount, mapped>>
     /\ UNCHANGED <<owner, used, active, wasFull, isEmpty, spurious>>

Next ==
  \E c \in Cpus :
    \/ AllocActive(c) \/ AllocNoActive(c) \/ AllocFull(c) \/ AllocSlow(c) \/ AllocTake(c)
    \/ FreeObject(c) \/ FreeSlab(c)

Spec == Init /\ [][Next]_vars

-----------------------------------------------------------------------------
(* The memory of an object that was not freed is not given back: the       *)
(* decision that cache_free() made under the slab's lock is still right    *)
(* when it is carried out under the cache's.                               *)
ObjectsStay == \A s \in Slabs : used[s] # {} => s \in mapped

(* The objects stay, exactly the slabs that have memory are linked, a free *)
(* one has no objects, the free ones are counted and not too many, and     *)
(* cache_alloc() failed only when no memory for a slab was left.           *)
SlabsIntact ==
  /\ ObjectsStay /\ spurious = {}
  /\ freeCount = Len(lists["free"]) /\ freeCount <= Limit
  /\ \A s \in Slabs : s \in mapped <=> \E l \in DOMAIN lists : \E i \in DOMAIN lists[l] :
       lists[l][i] = s
  /\ \A s \in Range(lists["free"]) : used[s] = {} /\ owner[s] = None
=============================================================================
