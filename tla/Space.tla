------------------------------- MODULE Space --------------------------------
(***************************************************************************)
(* The address space of a process: the page table with four levels of      *)
(* include/kernel/mem/paging.h, the regions, pins and callbacks of         *)
(* src/kernel/mem/space.c and the calls of src/kernel/mem/vmm.c.  Every    *)
(* call holds the lock of the space from space_mapping_start() to          *)
(* space_mapping_end(), so that each is one step; what other CPUs have     *)
(* cached meanwhile is the subject of Tlb.  Addresses are page numbers.    *)
(***************************************************************************)
EXTENDS Integers, Sequences, FiniteSets, FiniteSetsExt, SequencesExt

CONSTANTS
  Fan,          \* entries of a table: PML_INDEX_AMOUNT
  Start, End,   \* the pages Start..End - 1 of the user space
  Frames,       \* frames that the page allocator can give
  Foreign,      \* frames that the caller of vmm_map() and vmm_map_pages() provides
  KernelTable,  \* the table of the kernel's entry in the PML4
  Stack,        \* the pages of the user stack, which grow on demand
  Callbacks,    \* callback identifiers: 0..PML_MAX_CALLBACK - 1
  Batch,        \* pages that vmm_alloc() takes at a time: 64
  Amounts,      \* numbers of pages of a call
  Aligns,       \* alignments of a call
  MaxPins,      \* bound on the pins that callers hold
  MaxCalls      \* bound on the calls of a run

VARIABLES
  s,        \* mem (table -> its entries), root, free, lost (frames that nobody has),
            \*   spread (frames of callers that vmm_protect() marked owned), hint (freeAddress),
            \*   pinCount (the map pinnedPages), amount (of each callback), alloc (callbackBitmap),
            \*   halted (an assertion failed), dead (deinitialized)
  held,     \* the pins of callers, each <<page, amount>>
  calls     \* calls so far

vars == <<s, held, calls>>

-----------------------------------------------------------------------------
(* include/kernel/mem/paging.h.                                            *)

NoCallback == -1
Zero == [present |-> FALSE, owned |-> FALSE, pinned |-> FALSE, write |-> FALSE,
         cb |-> NoCallback, pfn |-> 0]

Pages == Start..(End - 1)
Size(level) == Fan ^ (level - 1)                              \* PMLn_SIZE / PAGE_SIZE
Index(p, level) == (p \div Size(level)) % Fan                 \* PML_ADDR_TO_INDEX()
IndexToAddr(i, level) == i * Size(level)                      \* PML_INDEX_TO_ADDR()
RoundUp(p, n) == ((p + n - 1) \div n) * n
Lesser(a, b) == IF a < b THEN a ELSE b
Greater(a, b) == IF a > b THEN a ELSE b

\* pml_new(): an empty table.
NewTable(t, frame) ==
  [t EXCEPT !.free = @ \ {frame},
            !.mem = [f \in DOMAIN @ \cup {frame} |->
                       IF f = frame THEN [i \in 0..(Fan - 1) |-> Zero] ELSE @[f]]]

\* page_table_get_pml(): w has the state t, the table tbl reached so far, and ok.
GetPml(w, p, level, create) ==
  LET e == w.t.mem[w.tbl][Index(p, level)]
      f == Min(w.t.free)
  IN IF ~w.ok THEN w
     ELSE IF e.present THEN [w EXCEPT !.tbl = e.pfn]
     ELSE IF ~create \/ w.t.free = {} THEN [w EXCEPT !.ok = FALSE]
     ELSE [w EXCEPT !.t = [NewTable(@, f) EXCEPT
                             !.mem[w.tbl][Index(p, level)] =
                               [Zero EXCEPT !.present = TRUE, !.write = TRUE, !.pfn = f]],
                    !.tbl = f]

\* page_table_traverse(): the valid flags of its cache are never set, so that every call
\* walks from the root.
FromRoot(t) == [t |-> t, tbl |-> t.root, ok |-> TRUE]
Traverse(t, p, create) ==
  GetPml(GetPml(GetPml(FromRoot(t), p, 4, create), p, 3, create), p, 2, create)

Leaf(w, p) == IF w.ok THEN w.t.mem[w.tbl][Index(p, 1)] ELSE Zero
SetLeaf(w, p, e) == [w.t EXCEPT !.mem[w.tbl][Index(p, 1)] = e]
Entry(t, p) == Leaf(Traverse(t, p, FALSE), p)
Region(p, n) == p..(p + n - 1)
InOrder(p, n) == [i \in 1..n |-> p + i - 1]

IsMapped(t, p, n) == \A q \in Region(p, n) : Entry(t, q).present
IsUnmapped(t, p, n) == \A q \in Region(p, n) : ~Entry(t, q).present
Fixed(e) == e.present /\ e.pinned
IsPinned(t, p, n) == \E q \in Region(p, n) : Fixed(Entry(t, q))

\* One round of page_table_map_pages(); the result has the state t and ok.
Fill(w, p, e) ==
  IF ~w.ok \/ Leaf(w, p).present THEN [t |-> w.t, ok |-> FALSE]
  ELSE [t |-> SetLeaf(w, p, e), ok |-> TRUE]

MapOne(r, p, e) == IF r.ok THEN Fill(Traverse(r.t, p, TRUE), p, e) ELSE r

\* page_table_map_pages(): what was mapped before an error stays.
MapPages(t, p, pfns, e) ==
  FoldLeft(LAMBDA r, i : MapOne(r, p + i - 1, [e EXCEPT !.pfn = pfns[i]]),
           [t |-> t, ok |-> TRUE], [i \in 1..Len(pfns) |-> i])

\* page_table_unmap(): the entries lose their present bits only.
UnmapOne(w, p) ==
  IF Leaf(w, p).present THEN SetLeaf(w, p, [Leaf(w, p) EXCEPT !.present = FALSE]) ELSE w.t

Unmap(t, p, n) == FoldLeft(LAMBDA u, q : UnmapOne(Traverse(u, q, FALSE), q), t, InOrder(p, n))

\* The frames of a page buffer go back to the allocator.
FreePages(t, fs) == [t EXCEPT !.free = @ \cup fs]

ClearOne_Shared(w, p) ==
  IF ~w.ok \/ Leaf(w, p).present THEN w.t
  ELSE FreePages(SetLeaf(w, p, Zero), IF Leaf(w, p).pfn # 0 THEN {Leaf(w, p).pfn} ELSE {})

\* One round of page_table_clear(); since the traversals never are valid, no table is freed.
ClearOne(w, p) ==
  IF ~w.ok \/ Leaf(w, p).present THEN w.t
  ELSE FreePages(SetLeaf(w, p, Zero), IF Leaf(w, p).owned THEN {Leaf(w, p).pfn} ELSE {})

Clear(t, p, n) == FoldLeft(LAMBDA u, q : ClearOne(Traverse(u, q, FALSE), q), t, InOrder(p, n))

\* page_table_collect_callbacks(): the pages of each callback in a region.
UsesCallback(e, c) == e.present /\ e.cb = c
CollectCallbacks(t, p, n) ==
  [c \in Callbacks |-> Cardinality({q \in Region(p, n) : UsesCallback(Entry(t, q), c)})]

\* One round of page_table_set_flags(): the PML_OWNED of one page is also set for the later
\* ones, the frames of a caller among them.
Spread(t, e, owned) ==
  IF owned /\ ~e.owned THEN [t EXCEPT !.spread = @ \cup {e.pfn}] ELSE t
SetOne(r, w, p) ==
  IF ~r.ok \/ ~w.ok THEN r
  ELSE IF ~Leaf(w, p).present THEN [r EXCEPT !.ok = FALSE]
  ELSE [r EXCEPT !.t = Spread(SetLeaf(w, p, [Leaf(w, p) EXCEPT !.write = r.write,
                                                               !.owned = @ \/ r.owned]),
                              Leaf(w, p), r.owned),
                 !.owned = @ \/ Leaf(w, p).owned]

SetFlags(t, p, n, write) ==
  FoldLeft(LAMBDA r, q : SetOne(r, Traverse(r.t, q, FALSE), q),
           [t |-> t, ok |-> TRUE, write |-> write, owned |-> FALSE], InOrder(p, n))

-----------------------------------------------------------------------------
(* page_table_find_unmapped_region() and page_table_count_pages_with_flags(). *)

\* The level of the first entry on the way to page p that is absent, 0 if p is mapped.
LevelBelow(w, p, level, found) ==
  IF w.t.mem[w.tbl][Index(p, level)].present THEN found ELSE level

Down(a, p, level) ==
  IF a.absent # 0 \/ level = 0 THEN a
  ELSE [w |-> GetPml(a.w, p, level, FALSE), absent |-> LevelBelow(a.w, p, level, 0)]

AbsentLevel(t, p) ==
  Down(Down(Down(Down([w |-> FromRoot(t), absent |-> 0], p, 4), p, 3), p, 2), p, 1).absent

NotFound == -1

\* The loops for large regions: the first absent entry of level atLeast or above is taken,
\* whatever follows it.  The state a of a search is where it is and what it found.
LargeStep(a, end, align, level, atLeast, next) ==
  IF level >= atLeast /\ RoundUp(a.at, align) < Lesser(next, end)
  THEN [a EXCEPT !.found = RoundUp(a.at, align)] ELSE [a EXCEPT !.at = next]

FindLarge(t, from, end, align, atLeast) ==
  FoldLeft(LAMBDA a, q :
             IF a.found # NotFound \/ q # a.at THEN a
             ELSE LargeStep(a, end, align, AbsentLevel(t, q), atLeast,
                            RoundUp(q + 1, Size(Greater(AbsentLevel(t, q), atLeast)))),
           [at |-> from, found |-> NotFound], InOrder(from, end - from)).found

\* The loop for small regions counts absent pages in a row; a start is aligned except
\* below an absent entry of the PML4.
Longer(a, start, run, next, n) ==
  [at |-> next, start |-> start, run |-> run, found |-> IF run >= n THEN start ELSE NotFound]

SmallStep(a, end, n, first, next) ==
  IF a.run > 0 THEN Longer(a, a.start, a.run + Lesser(next, end) - a.at, next, n)
  ELSE IF first < Lesser(next, end) THEN Longer(a, first, Lesser(next, end) - first, next, n)
  ELSE [a EXCEPT !.at = next]

SmallAt(a, end, n, align, level) ==
  IF level = 0 THEN [a EXCEPT !.at = @ + 1, !.run = 0]
  ELSE SmallStep(a, end, n, IF level = 4 THEN a.at ELSE RoundUp(a.at, align),
                 RoundUp(a.at + 1, Size(level)))

FindSmall(t, from, end, n, align) ==
  FoldLeft(LAMBDA a, q : IF a.found # NotFound \/ q # a.at THEN a
                         ELSE SmallAt(a, end, n, align, AbsentLevel(t, q)),
           [at |-> from, start |-> 0, run |-> 0, found |-> NotFound],
           InOrder(from, end - from)).found

FindUnmappedRegion(t, from, end, n, align) ==
  IF n >= Size(2) THEN FindLarge(t, from, end, align, IF n >= Size(3) THEN 3 ELSE 2)
  ELSE FindSmall(t, from, end, n, align)

\* page_table_count_pages_with_flags(): an absent table is skipped up to the next index of
\* its level, which is an address of the lowest table only.
CountAt(a, level, e, end) ==
  IF level <= 1 THEN [at |-> a.at + 1, count |-> a.count + IF e.present /\ e.owned THEN 1 ELSE 0]
  ELSE [a EXCEPT !.at = IF IndexToAddr(Index(@, level) + 1, level) > @
                        THEN IndexToAddr(Index(@, level) + 1, level) ELSE end]

CountPages(t, p, n) ==
  FoldLeft(LAMBDA a, q : IF q # a.at THEN a
                         ELSE CountAt(a, AbsentLevel(t, q), Entry(t, q), p + n),
           [at |-> p, count |-> 0], InOrder(p, n)).count

-----------------------------------------------------------------------------
(* src/kernel/mem/space.c.                                                 *)

\* space_find_free_region(): above the last region first.  The assertion that the region is
\* unmapped may fail.
Found(t, p, n) ==
  [page |-> p, t |-> [t EXCEPT !.halted = p # NotFound /\ ~IsUnmapped(t, p, n)]]

FindFreeRegion(t, n, align, above) ==
  IF above # NotFound THEN Found([t EXCEPT !.hint = above + n], above, n)
  ELSE Found(t, FindUnmappedRegion(t, Start, t.hint, n, align), n)

\* space_mapping_start(): the region of a call that gives the page at, or none.
Anywhere == NotFound
MappingStart(t, at, n, align) ==
  IF at = Anywhere THEN FindFreeRegion(t, n, align, FindUnmappedRegion(t, t.hint, End, n, align))
  ELSE [page |-> IF at % align = 0 THEN at ELSE NotFound, t |-> t]

\* space_mapping_end() after a success, with space_update_free_address().
MappingEnd(t, p, n) ==
  [t EXCEPT !.hint = IF p <= @ /\ @ < p + n THEN p + n ELSE @]

\* space_populate_user_region(): a page that is absent gets a frame, until none is left.
OwnedEntry == [Zero EXCEPT !.present = TRUE, !.owned = TRUE, !.write = TRUE]
Populated(m, f) == IF m.ok THEN m ELSE [t |-> FreePages(m.t, {f}), ok |-> FALSE]
PopulateOne(r, p, f) ==
  Populated(MapOne([t |-> [r.t EXCEPT !.free = @ \ {f}], ok |-> TRUE], p,
                   [OwnedEntry EXCEPT !.pfn = f]), f)

Populate(t, p, n) ==
  FoldLeft(LAMBDA r, q : IF ~r.ok \/ Entry(r.t, q).present THEN r
                         ELSE IF r.t.free = {} THEN [r EXCEPT !.ok = FALSE]
                         ELSE PopulateOne(r, q, Min(r.t.free)),
           [t |-> t, ok |-> TRUE], InOrder(p, n))

\* space_pin_depth_dec() for a page: a page that is not in the map is pinned once.
DepthDecOne(w, p) ==
  IF ~Fixed(Leaf(w, p)) THEN w.t
  ELSE [SetLeaf(w, p, [Leaf(w, p) EXCEPT !.pinned = w.t.pinCount[p] > 1])
        EXCEPT !.pinCount[p] = Greater(@ - 1, 0)]

DepthDec(t, p, n) ==
  FoldLeft(LAMBDA u, q : DepthDecOne(Traverse(u, q, FALSE), q), t, InOrder(p, n))

\* space_pin_depth_inc(): the first pin is the bit of the entry, the second one adds an
\* element to the map, for which memory may be missing (oom).
DepthIncOne(r, w, p, q, oom) ==
  IF ~r.ok \/ ~Leaf(w, q).present THEN r
  ELSE IF ~Leaf(w, q).pinned THEN [r EXCEPT !.t = SetLeaf(w, q,
                                                          [Leaf(w, q) EXCEPT !.pinned = TRUE])]
  ELSE IF oom /\ r.t.pinCount[q] = 0 THEN [t |-> DepthDec(r.t, p, q - p), ok |-> FALSE]
  ELSE [r EXCEPT !.t.pinCount[q] = IF @ = 0 THEN 2 ELSE @ + 1]

DepthInc(t, p, n, oom) ==
  FoldLeft(LAMBDA r, q : DepthIncOne(r, Traverse(r.t, q, FALSE), p, q, oom),
           [t |-> t, ok |-> TRUE], InOrder(p, n))

\* What a pin needs of a region: all of it is mapped, or grows with the stack.
Grown(t, p, n) ==
  IF IsMapped(t, p, n) THEN [t |-> t, ok |-> TRUE]
  ELSE IF Region(p, n) \subseteq Stack THEN Populate(t, p, n)
  ELSE [t |-> t, ok |-> FALSE]

Pinned(r, p, n, oom) == IF r.ok THEN DepthInc(r.t, p, n, oom) ELSE r
PinRegion(t, p, n, oom) == Pinned(Grown(t, p, n), p, n, oom)

\* space_alloc_callback(), for n pages.
AllocCallback(t, c, n) ==
  IF c = NoCallback THEN t ELSE [t EXCEPT !.alloc = @ \cup {c}, !.amount[c] = n]

FreeCallback(t, c) == [t EXCEPT !.alloc = @ \ {c}]

\* space_init() with the kernel's entry of the PML4.
Init ==
  LET root == Min(Frames)
      blank == [mem |-> [f \in {} |-> <<>>], root |-> root, free |-> Frames, lost |-> {},
                spread |-> {}, hint |-> Start, pinCount |-> [p \in Pages |-> 0],
                amount |-> [c \in Callbacks |-> 0], alloc |-> {}, halted |-> FALSE,
                dead |-> FALSE]
  IN /\ s = [NewTable(blank, root) EXCEPT
               !.mem[root][Fan - 1] = [Zero EXCEPT !.present = TRUE, !.write = TRUE,
                                                   !.pfn = KernelTable]]
     /\ held = <<>>
     /\ calls = 0

\* A user call: nothing runs any more after a failed assertion or space_deinit(), and no
\* behaviour is followed once a frame that still is a caller's is free or a table.
Live == ~s.halted /\ ~s.dead /\ s.free \cup DOMAIN s.mem \subseteq Frames

-----------------------------------------------------------------------------
(* src/kernel/mem/vmm.c.                                                   *)

\* vmm_page_table_unmap_with_shootdown().
UnmapWithShootdown(t, p, n) == Clear(Unmap(t, p, n), p, n)

\* pmm_alloc_pages(): n frames, here the lowest ones.
FirstFrees(t, n) ==
  [i \in 1..n |-> CHOOSE f \in t.free : Cardinality({g \in t.free : g < f}) = i - 1]

\* A batch of vmm_alloc(): r has the state t, the pages mapped so far, and ok.  When a table
\* is missing, the frames of the batch that are not mapped yet belong to nobody.
Unused(t, p, n, pfns) == {f \in Range(pfns) : \A q \in Region(p, n) : Entry(t, q).pfn # f}
Batched(m, p, n, done, pfns) ==
  IF m.ok THEN [t |-> m.t, done |-> done + Len(pfns), ok |-> TRUE]
  ELSE [t |-> UnmapWithShootdown([m.t EXCEPT !.lost = @ \cup Unused(m.t, p, n, pfns)], p, done),
        done |-> done, ok |-> FALSE]

MapBatch(r, p, n, pfns) ==
  Batched(MapPages([r.t EXCEPT !.free = @ \ Range(pfns)], p + r.done, pfns, OwnedEntry),
          p, n, r.done, pfns)

AllocBatch(r, p, n, size) ==
  IF ~r.ok \/ r.done = n THEN r
  ELSE IF Cardinality(r.t.free) < size
  THEN [t |-> UnmapWithShootdown(r.t, p, r.done), done |-> r.done, ok |-> FALSE]
  ELSE MapBatch(r, p, n, FirstFrees(r.t, size))

AllocBatches(t, p, n) ==
  FoldLeft(LAMBDA r, i : AllocBatch(r, p, n, Lesser(Batch, n - r.done)),
           [t |-> t, done |-> 0, ok |-> TRUE], InOrder(1, n))

\* The region of a call is free and unmapped: what was there is unmapped first.
Fails(start, n) == start.page = NotFound \/ start.t.halted \/ IsPinned(start.t, start.page, n)
Cleaned(t, p, n) == IF IsUnmapped(t, p, n) THEN t ELSE UnmapWithShootdown(t, p, n)
Mapped(r, p, n) == IF r.ok THEN MappingEnd(r.t, p, n) ELSE r.t

\* vmm_alloc().
Alloc(at, n, align, failIfMapped) ==
  /\ Live
  /\ \E start \in {MappingStart(s, at, n, align)} :
       s' = IF Fails(start, n) \/ (failIfMapped /\ ~IsUnmapped(start.t, start.page, n))
            THEN start.t
            ELSE Mapped(AllocBatches(Cleaned(start.t, start.page, n), start.page, n), start.page,
                        n)
  /\ UNCHANGED held

\* vmm_map() and vmm_map_pages(): frames of the caller, with a callback or without one; when
\* a table is missing, all is unmapped and the callback freed.
MappedFor(r, p, n, c) ==
  IF r.ok THEN MappingEnd(r.t, p, n)
  ELSE UnmapWithShootdown(IF c # NoCallback THEN FreeCallback(r.t, c) ELSE r.t, p, n)

MapAt(start, pfns, c) ==
  MappedFor(MapPages(Cleaned(AllocCallback(start.t, c, Len(pfns)), start.page, Len(pfns)),
                     start.page,
                     pfns, [Zero EXCEPT !.present = TRUE, !.write = TRUE, !.cb = c]),
            start.page, Len(pfns), c)

MapFrames(at, pfns, withCallback) ==
  /\ Live
  /\ \E start \in {MappingStart(s, at, Len(pfns), 1)} :
       s' = IF Fails(start, Len(pfns)) \/ (withCallback /\
               Callbacks \subseteq s.alloc) THEN start.t
            ELSE MapAt(start, pfns, IF withCallback THEN Min(Callbacks \ s.alloc) ELSE NoCallback)
  /\ UNCHANGED held

\* The loop of vmm_unmap() over the callbacks: a callback without pages runs and is freed.
RunCallbacks(t, counts) ==
  [t EXCEPT !.amount = [c \in Callbacks |-> IF c \in t.alloc THEN @[c] - counts[c] ELSE @[c]],
            !.alloc = {c \in @ : t.amount[c] # counts[c]},
            !.halted = \E c \in t.alloc : t.amount[c] < counts[c]]

\* vmm_unmap().
UnmapRegion(p, n) ==
  /\ Live
  /\ s' = IF IsPinned(s, p, n) THEN s
          ELSE MappingEnd(RunCallbacks(UnmapWithShootdown(s, p, n), CollectCallbacks(s, p, n)), p,
                          n)
  /\ UNCHANGED held

\* vmm_protect().
Protect(p, n, write) ==
  /\ Live
  /\ s' = IF IsPinned(s, p, n) \/ IsUnmapped(s, p, n) THEN s
          ELSE Mapped(SetFlags(s, p, n, write), p, n)
  /\ UNCHANGED held

-----------------------------------------------------------------------------
(* The pins of system calls, and the end.                                  *)

\* space_pin().
Pin(p, n, oom) ==
  /\ Live /\ Len(held) < MaxPins
  /\ \E r \in {PinRegion(s, p, n, oom)} :
       s' = r.t /\ held' = IF r.ok THEN Append(held, <<p, n>>) ELSE held

\* space_pin_terminated(): page by page, until the terminator, which page p + n - 1 has if
\* found, else the call unpins all and fails.
Further(a, one) ==
  IF one.ok THEN [t |-> one.t, done |-> a.done + 1, ok |-> TRUE]
  ELSE [a EXCEPT !.t = one.t, !.ok = FALSE]

PinEach(p, n, oom) ==
  FoldLeft(LAMBDA a, q : IF a.ok THEN Further(a, PinRegion(a.t, q, 1, oom)) ELSE a,
           [t |-> s, done |-> 0, ok |-> TRUE], InOrder(p, n))

PinTerminated(p, n, found, oom) ==
  /\ Live /\ Len(held) < MaxPins
  /\ \E r \in {PinEach(p, n, oom)} :
       IF r.ok /\ found THEN s' = r.t /\ held' = Append(held, <<p, n>>)
       ELSE s' = DepthDec(r.t, p, r.done) /\ UNCHANGED held

\* space_unpin(), of what a call has pinned.
Unpin(i) ==
  /\ Live
  /\ s' = DepthDec(s, held[i][1], held[i][2])
  /\ held' = RemoveAt(held, i)

\* What pml_free() frees: the tables and the owned frames that a table leads to.
Present(t, f) == {t.mem[f][i] : i \in {j \in 0..(Fan - 1) : t.mem[f][j].present}}
Below(t, fs) == {e.pfn : e \in UNION {Present(t, f) : f \in fs \cap DOMAIN t.mem}}
OwnedBy(t, fs) ==
  {e.pfn : e \in {x \in UNION {Present(t, f) : f \in fs \cap DOMAIN t.mem} : x.owned}}

Tree(t, pml3) ==
  UNION {pml3, Below(t, pml3), Below(t, Below(t, pml3)), OwnedBy(t, Below(t, Below(t, pml3)))}

Gone(t) ==
  /\ Live /\ held = <<>>
  /\ s' = [t EXCEPT !.dead = TRUE, !.alloc = {}, !.mem = [f \in {} |-> <<>>],
                    !.free = @ \cup {t.root} \cup Tree(t, Below(t, {t.root}))]
  /\ UNCHANGED held

\* space_deinit(), when no thread is left: all callbacks run, the kernel's entry is removed,
\* and the rest of the tree is freed.
Deinit == Gone([s EXCEPT !.mem[s.root][Fan - 1] = Zero])

Regions == {<<p, n>> \in Pages \X Amounts : p + n <= End}

Call ==
  \/ \E n \in Amounts, align \in Aligns :
       \/ Alloc(Anywhere, n, align, FALSE)
       \/ \E p \in Pages, fail \in BOOLEAN : p + n <= End /\ Alloc(p, n, align, fail)
  \/ \E r \in Regions, c \in BOOLEAN :
       \/ MapFrames(r[1], InOrder(Min(Foreign), r[2]), c)
       \/ MapFrames(Anywhere, InOrder(Min(Foreign), r[2]), c)
  \/ \E r \in Regions :
       \/ UnmapRegion(r[1], r[2])
       \/ Protect(r[1], r[2], FALSE)
       \/ \E oom \in BOOLEAN :
            \/ Pin(r[1], r[2], oom)
            \/ \E found \in BOOLEAN : PinTerminated(r[1], r[2], found, oom)
  \/ \E i \in 1..Len(held) : Unpin(i)

Next == \/ calls < MaxCalls /\ calls' = calls + 1 /\ Call
        \/ calls' = calls /\ Deinit

Spec == Init /\ [][Next]_vars

-----------------------------------------------------------------------------
OwnedPages == {p \in Pages : ~s.dead /\ Entry(s, p).present /\ Entry(s, p).owned}
OwnedFrames == {Entry(s, p).pfn : p \in OwnedPages}

\* A frame of the allocator is free, or a table, or owned by exactly one page, or lost: the
\* only loss are the frames of the batch that vmm_alloc() could not map for want of a table
\* (vmm.c:212), so that after space_deinit() all others are free.  The kernel's table is
\* never freed, and of the frames of callers only those that a vmm_protect() over pages of
\* both kinds marked owned (paging.h:698).
FramesAccounted ==
  LET mine == {p \in OwnedPages : Entry(s, p).pfn \in Frames} IN
  /\ UNION {s.free, DOMAIN s.mem, OwnedFrames} \subseteq Frames \cup s.spread
  /\ Frames \subseteq UNION {s.free, s.lost, DOMAIN s.mem, OwnedFrames}
  /\ Cardinality(s.free \cap Frames) + Cardinality(s.lost)
       + Cardinality(DOMAIN s.mem \cap Frames) + Cardinality(mine) = Cardinality(Frames)

\* A page is pinned as often as callers pin it, although calls failed half way, and its
\* mapping stays until the last one unpins it.
Depth(e, count) == IF Fixed(e) THEN Greater(count, 1) ELSE 0
PinsCounted ==
  ~s.dead => \A p \in Pages :
    Depth(Entry(s, p), s.pinCount[p])
      = Cardinality({i \in 1..Len(held) : p \in Region(held[i][1], held[i][2])})

\* A callback that ran has no page left, and its count covers the pages that are mapped
\* with it (the assertion of vmm_unmap()).
CallbacksCover ==
  ~s.dead => \A c \in Callbacks :
    Cardinality({p \in Pages : UsesCallback(Entry(s, p),
            c)}) <= IF c \in s.alloc THEN s.amount[c] ELSE 0

\* The assertion of space_find_free_region() holds for regions smaller than a table.
FoundUnmapped == s.halted => \E n \in Amounts : n >= Size(2)

\* What procfs reports is the number of owned pages.
PagesReported == ~s.dead => CountPages(s, Start, End - Start) = Cardinality(OwnedPages)

\* A mapping whose page is pinned stays as it is, but for the pin.
Mapping(e) == <<e.present, e.pfn, e.write, e.owned, e.cb>>
PinnedStay ==
  [][\A p \in Pages : Fixed(Entry(s, p)) /\ ~s'.dead
     => Mapping(Entry(s, p)) = Mapping(Entry(s', p))]_vars
=============================================================================
