-------------------------------- MODULE Pmm --------------------------------
(***************************************************************************)
(* The physical memory manager of src/kernel/mem/pmm.c and the bitmaps of  *)
(* include/sys/bitmap.h: the free pages below BitmapPages are the clear    *)
(* bits of a bitmap, the free ones above it form a stack that is kept in   *)
(* the free pages themselves.  Every page has a counter of its references. *)
(* All operations hold one lock, so that each is one step.                 *)
(***************************************************************************)
EXTENDS Integers, Sequences, FiniteSets, SequencesExt

CONSTANTS
  KindOf,       \* page -> "avail", "loader" (EfiLoaderData) or "reserved"
  BitmapPages,  \* CONFIG_PMM_BITMAP_MAX_ADDR / PAGE_SIZE
  Word,         \* bits of a word of the bitmap: 64
  FreePageMax,  \* entries of a page of the stack: FREE_PAGE_MAX
  RefMax,       \* UINT16_MAX
  Counts        \* sizes of regions

VARIABLES
  m,       \* stack (of pages, each with the free pages it lists above its
           \*   location), bits (the set ones of the bitmap), ref, avail
  held,    \* page -> references that callers have
  booted   \* boot_info_free() was called

vars == <<m, held, booted>>

Pages == DOMAIN KindOf
Err == -1
PagesOf(kind) == {p \in Pages : KindOf[p] = kind}

Push(s, p) ==
  IF s.stack = <<>> \/ Len(Head(s.stack).pages) = FreePageMax   \* location == 0
  THEN [s EXCEPT !.stack = <<[page |-> p, pages |-> <<>>]>> \o @]
  ELSE [s EXCEPT !.stack[1].pages = <<p>> \o @]

\* pmm_stack_pop(): the page and what is left.
Pop(s) ==
  IF s.stack = <<>> THEN [page |-> Err, rest |-> s]
  ELSE IF Head(s.stack).pages = <<>>                            \* location == FREE_PAGE_MAX
  THEN [page |-> Head(s.stack).page, rest |-> [s EXCEPT !.stack = Tail(@)]]
  ELSE [page |-> Head(Head(s.stack).pages), rest |-> [s EXCEPT !.stack[1].pages = Tail(@)]]

\* bitmap_find_clear_region_and_set(): the lowest region that is aligned.
BitmapSet(s, count, maxPfn, align) ==
  LET end   == IF maxPfn < BitmapPages THEN maxPfn ELSE BitmapPages
      fits  == {p \in 0..(end - count) : p % align = 0 /\ (p..(p + count - 1)) \cap s.bits = {}}
  IN IF fits = {} THEN [page |-> Err, rest |-> s]
     ELSE LET p == CHOOSE p \in fits : \A q \in fits : p <= q
          IN [page |-> p, rest |-> [s EXCEPT !.bits = @ \cup (p..(p + count - 1))]]

\* A page from the stack, from the bitmap when the stack is empty.
TakePage(s) ==
  IF Pop(s).page # Err THEN Pop(s) ELSE BitmapSet(s, 1, BitmapPages, 1)

GiveBack(s, p) == IF p >= BitmapPages THEN Push(s, p) ELSE [s EXCEPT !.bits = @ \ {p}]

FreeUnlocked(s, p) ==
  LET t == [s EXCEPT !.ref[p] = @ - 1]
  IN IF t.ref[p] > 0 THEN t ELSE [GiveBack(t, p) EXCEPT !.avail = @ + 1]

FreeRegionUnlocked(s, ps) == FoldLeft(FreeUnlocked, s, ps)

\* BITMAP_CREATE_ONE() initializes the first word of the bitmap only.
InitialBits == {p \in 0..(BitmapPages - 1) : p < Word}

\* pmm_init(): the available pages are freed, the others keep all references.
Init ==
  LET loaded == [stack |-> <<>>, bits |-> InitialBits, avail |-> 0,
                 ref |-> [p \in Pages |-> IF KindOf[p] = "avail" THEN 1 ELSE RefMax]]
  IN /\ m = FreeRegionUnlocked(loaded, SetToSortSeq(PagesOf("avail"), <))
     /\ held = [p \in Pages |-> 0] /\ booted = FALSE

\* The pages ps are given to a caller with a reference each.
Given(s, ps) ==
  /\ m' = [s EXCEPT !.ref = [p \in Pages |-> IF p \in ps THEN 1 ELSE @[p]],
                    !.avail = @ - Cardinality(ps)]
  /\ held' = [p \in Pages |-> held[p] + IF p \in ps THEN 1 ELSE 0]

Alloc ==
  LET r == TakePage(m)
  IN r.page # Err /\ Given(r.rest, {r.page}) /\ UNCHANGED booted

\* pmm_alloc_pages(): all pages or none; those already taken are put back.
AllocPages(count) ==
  LET step(r, i) == IF r.failed THEN r
                    ELSE LET t == TakePage(r.rest)
                         IN IF t.page = Err THEN [r EXCEPT !.failed = TRUE]
                            ELSE [r EXCEPT !.rest = t.rest, !.pages = Append(@, t.page)]
      r == FoldLeft(step, [failed |-> FALSE, rest |-> m, pages |-> <<>>], [i \in 1..count |-> i])
  IN /\ IF r.failed
        THEN m' = FoldLeft(GiveBack, r.rest, r.pages) /\ UNCHANGED held
        ELSE Given(r.rest, Range(r.pages))
     /\ UNCHANGED booted

\* pmm_alloc_bitmap(); a region longer than maxPfn is never asked for.
AllocBitmap(count, maxPfn, align) ==
  LET r == BitmapSet(m, count, maxPfn, align)
  IN /\ count <= maxPfn /\ r.page # Err
     /\ Given(r.rest, r.page..(r.page + count - 1)) /\ UNCHANGED booted

\* pmm_free_region() (pmm_free() for one page) of pages that the caller has.
FreeRegion(p, count) ==
  LET ps == p..(p + count - 1)
  IN /\ \A q \in ps : q \in Pages /\ held[q] > 0
     /\ m' = FreeRegionUnlocked(m, [i \in 1..count |-> p + i - 1])
     /\ held' = [q \in Pages |-> held[q] - IF q \in ps THEN 1 ELSE 0]
     /\ UNCHANGED booted

\* pmm_ref_inc(), of pages that the caller has: without effect at the limit.
RefInc(p, count) ==
  LET ps == p..(p + count - 1)
  IN /\ \A q \in ps : q \in Pages /\ held[q] > 0 /\ m.ref[q] # RefMax
     /\ m' = [m EXCEPT !.ref = [q \in Pages |-> @[q] + IF q \in ps THEN 1 ELSE 0]]
     /\ held' = [q \in Pages |-> held[q] + IF q \in ps THEN 1 ELSE 0]
     /\ UNCHANGED booted

\* boot_info_free() frees what the boot loader had allocated.
BootInfoFree ==
  /\ ~booted /\ booted' = TRUE
  /\ m' = FreeRegionUnlocked(m, SetToSortSeq(PagesOf("loader"), <))
  /\ UNCHANGED held

Next ==
  \/ Alloc \/ BootInfoFree
  \/ \E n \in Counts : AllocPages(n)
  \/ \E n \in Counts, a \in {1, 2}, e \in 1..BitmapPages : AllocBitmap(n, e, a)
  \/ \E p \in Pages, n \in Counts : FreeRegion(p, n) \/ RefInc(p, n)

Spec == Init /\ [][Next]_vars

-----------------------------------------------------------------------------
\* The pages of the stack, one after the other.
StackPages == FlattenSeq([i \in DOMAIN m.stack |-> <<m.stack[i].page>> \o m.stack[i].pages])

(* Memory that the firmware or the boot loader uses is never handed out.   *)
ReservedStay == \A p \in Pages \ PagesOf("avail") : held[p] = 0

(* A page is free exactly when nobody has a reference to it, and then it   *)
(* lies in exactly one place, the pages that hold the stack included; the  *)
(* failure of one allocation of several loses no page, and all free pages  *)
(* are counted.                                                            *)
PagesAccounted ==
  /\ ReservedStay
  /\ \A p \in PagesOf("avail") :
        /\ m.ref[p] = held[p]
        /\ Cardinality({i \in DOMAIN StackPages : StackPages[i] = p}) =
             IF p >= BitmapPages /\ m.ref[p] = 0 THEN 1 ELSE 0
        /\ p < BitmapPages => (p \notin m.bits <=> m.ref[p] = 0)
  /\ m.avail = Cardinality({p \in PagesOf("avail") : m.ref[p] = 0})

(* Once boot_info_free() ran, what the boot loader used can be allocated.  *)
LoaderFreed == booted => \A p \in PagesOf("loader") : m.ref[p] # RefMax - 1
=============================================================================
