-------------------------------- MODULE Heap --------------------------------
(***************************************************************************)
(* The heap (src/libstd/common/heap.c) and malloc(), calloc(), realloc()   *)
(* and free() on top of it, of the kernel and of programs.                 *)
(*                                                                         *)
(* Memory is counted in units of _HEAP_ALIGNMENT bytes; a header takes one.*)
(* Every function runs under the heap lock and is one step; realloc() that *)
(* has to move is a malloc() and a free(), which other calls may come      *)
(* between.  A caller may write all it is given, so that only memory that  *)
(* was never given out is known to be zero.                                *)
(*                                                                         *)
(* The list of blocks is circular, and its head is taken for a block where *)
(* the code asks for NULL.  It lies above the heap in the kernel, whose    *)
(* binary is mapped there, and below it in a program.  What stands where a *)
(* header would have flags and size is not a free block that ends or       *)
(* starts at another one, so _heap_free() does not merge with it; the      *)
(* search of _heap_block_new() compares its address.                       *)
(***************************************************************************)
EXTENDS Integers, Sequences, FiniteSets, SequencesExt

CONSTANTS
  Page,       \* units per page
  MaxPages,   \* pages the system can give
  Threshold,  \* _HEAP_LARGE_ALLOC_THRESHOLD
  Sizes       \* sizes asked for, in units, rounded up

Bins == 1..Threshold    \* _heap_get_bin_index() + 1
ToPages(n) == (n + Page - 1) \div Page

VARIABLES
  blocks,     \* _heapList: address, size, flags of the blocks
  bins,       \* freeLists: the addresses of free blocks, per bin
  large,      \* address and size of blocks that are mapped directly
  dirty,      \* units that may not be zero
  head        \* the head of _heapList: "below" or "above" all blocks; "hung": a search for
              \*   the place of a block goes round for ever, and the heap stays locked

vars == <<blocks, bins, large, dirty, head>>

Init ==
  /\ blocks = <<>> /\ bins = [b \in Bins |-> <<>>] /\ large = {} /\ dirty = {}
  /\ head \in {"below", "above"}

Units(addr, n) == addr..(addr + n - 1)
Total(b) == b.size + 1
Taken ==
  UNION ({Units(b.addr, Total(b)) : b \in Range(blocks)}
         \cup {Units(b.addr, Total(b)) : b \in large})

\* _heap_map_memory(): pages that are free, anywhere
Mappable(n) == {a \in {p * Page : p \in 0..(MaxPages - ToPages(n))} :
                  Units(a, ToPages(n) * Page) \cap Taken = {}}

-----------------------------------------------------------------------------
(* Operations on a heap h, a record of blocks, bins and dirty *)

Heap == [blocks |-> blocks, bins |-> bins, dirty |-> dirty]
At(h, addr) == CHOOSE i \in 1..Len(h.blocks) : h.blocks[i].addr = addr

ToFreeList(h, b) ==
  IF b.size > Threshold THEN h ELSE [h EXCEPT !.bins[b.size] = Append(@, b.addr)]

OffFreeList(h, b) ==
  IF b.size > Threshold THEN h ELSE [h EXCEPT !.bins[b.size] = SelectSeq(@, LAMBDA a :
        a # b.addr)]

\* Block i and its free, adjacent successor become one, if that is not too large.
Mergeable(h, i) ==
  /\ i \in 1..(Len(h.blocks) - 1)
  /\ h.blocks[i].addr + Total(h.blocks[i]) = h.blocks[i + 1].addr
  /\ Total(h.blocks[i]) + h.blocks[i + 1].size <= Threshold

\* Mutant: the block stays marked as zeroed.
Merge_Zeroed(h, i) ==
  LET b == h.blocks[i]
      c == h.blocks[i + 1]
      both == [b EXCEPT !.size = Total(b) + c.size, !.zeroed = b.zeroed]
  IN [h EXCEPT !.blocks = RemoveAt(ReplaceAt(@, i, both), i + 1)]

Merge(h, i) ==
  LET b == h.blocks[i]
      c == h.blocks[i + 1]
      both == [b EXCEPT !.size = Total(b) + c.size, !.zeroed = b.zeroed /\ c.zeroed]
  IN [h EXCEPT !.blocks = RemoveAt(ReplaceAt(@, i, both), i + 1)]

\* _heap_free(): with the next block, then with the previous one
FreeBlock(h0, addr) ==
  LET i == At(h0, addr)
      h1 == [h0 EXCEPT !.blocks[i].alloc = FALSE]
      h2 == IF Mergeable(h1, i) /\ ~h1.blocks[i + 1].alloc
            THEN Merge(OffFreeList(h1, h1.blocks[i + 1]), i) ELSE h1
      j == IF i > 1 /\ Mergeable(h2, i - 1) /\ ~h2.blocks[i - 1].alloc THEN i - 1 ELSE i
      h3 == IF j < i THEN Merge(OffFreeList(h2, h2.blocks[j]), j) ELSE h2
  IN ToFreeList(h3, h3.blocks[j])

\* _heap_block_split(): the rest becomes a block with a header of its own, and is freed.
Split(h, addr, size) ==
  LET i == At(h, addr)
      b == h.blocks[i]
      rest == [b EXCEPT !.addr = addr + size + 1, !.size = b.size - size - 1, !.alloc = FALSE]
      h1 == [h EXCEPT !.blocks = InsertAt(ReplaceAt(@, i, [b EXCEPT !.size = size]), i + 1, rest),
                      !.dirty = @ \cup {rest.addr}]
  IN FreeBlock(h1, rest.addr)

SplitIfLarge(h, addr, size) ==
  IF h.blocks[At(h, addr)].size >= size + 2 THEN Split(h, addr, size) ELSE h

\* _heap_block_new() goes back from the last block to one with a lower address, or to the
\* head if that is lower; otherwise it goes round.
GoesRound(h, addr) ==
  h.blocks # <<>> /\ head = "above" /\ \A b \in Range(h.blocks) : b.addr > addr

\* A new block, at its place in the order of addresses
NewBlock(h, addr, size) ==
  LET pages == ToPages(size + 1)
      b == [addr |-> addr, size |-> pages * Page - 1, alloc |-> FALSE, zeroed |-> TRUE]
      before(c) == c.addr < addr
  IN [h EXCEPT !.blocks = SelectSeq(@, before) \o <<b>> \o SelectSeq(@, LAMBDA c : ~before(c)),
               !.dirty = (@ \ Units(addr, pages * Page)) \cup {addr}]

\* bitmap_find_first_set(): the first bin from this one on that has a free block
Suitable(h, size) == {b \in size..Threshold : h.bins[b] # <<>>}

\* _heap_alloc(), when the block at this address is taken from its bin or new
Taking(h, addr, size) ==
  SplitIfLarge([h EXCEPT !.blocks[At(h, addr)].alloc = TRUE], addr, size)

\* The heaps after _heap_alloc() of a small size, with the block; none without memory.
Allocated(size) ==
  IF Suitable(Heap, size) # {}
  THEN LET b == CHOOSE x \in Suitable(Heap, size) : \A y \in Suitable(Heap, size) : x <= y
           addr == Head(bins[b])
       IN {<<Taking([Heap EXCEPT !.bins[b] = Tail(@)], addr, size), addr>>}
  ELSE {<<Taking(NewBlock(Heap, addr, size), addr, size), addr>> :
          addr \in {a \in Mappable(size + 1) : ~GoesRound(Heap, a)}}

\* The caller of malloc() or calloc() has the block now.
Give(h, addr) ==
  LET i == At(h, addr)
      b == h.blocks[i]
  IN [h EXCEPT !.blocks[i].zeroed = FALSE, !.dirty = @ \cup Units(addr, Total(b))]

Become(h) == blocks' = h.blocks /\ bins' = h.bins /\ dirty' = h.dirty

-----------------------------------------------------------------------------
(* The functions *)

\* malloc(), calloc()
Malloc ==
  \E size \in Sizes :
    IF size > Threshold
    THEN \E addr \in Mappable(size + 1) :
           /\ large' = large \cup {[addr |-> addr, size |-> ToPages(size + 1) * Page - 1]}
           /\ dirty' = dirty \cup Units(addr, ToPages(size + 1) * Page)
           /\ UNCHANGED <<blocks, bins, head>>
    ELSE \/ \E r \in Allocated(size) : Become(Give(r[1], r[2])) /\ UNCHANGED <<large, head>>
         \/ /\ Suitable(Heap, size) = {} /\ \E a \in Mappable(size + 1) : GoesRound(Heap, a)
            /\ head' = "hung" /\ UNCHANGED <<blocks, bins, large, dirty>>

\* free()
Free ==
  \/ \E b \in large : large' = large \ {b} /\ UNCHANGED <<blocks, bins, dirty, head>>
  \/ \E b \in Range(blocks) : b.alloc /\ Become(FreeBlock(Heap, b.addr))
                                       /\ UNCHANGED <<large, head>>

\* realloc() in place: the block shrinks, or takes in the free block behind it.
Realloc ==
  \E b \in Range(blocks) : \E size \in Sizes :
    LET i == At(Heap, b.addr)
        grown == Merge(OffFreeList(Heap, blocks[i + 1]), i)
    IN
    /\ b.alloc /\ size # b.size /\ UNCHANGED <<large, head>>
    /\ \/ size < b.size /\ Become(SplitIfLarge(Heap, b.addr, size))
       \/ /\ size > b.size /\ Mergeable(Heap, i) /\ ~blocks[i + 1].alloc
          /\ Total(b) + blocks[i + 1].size >= size
          /\ Become(Give(SplitIfLarge(grown, b.addr, size), b.addr))

Next == head # "hung" /\ (Malloc \/ Free \/ Realloc)

Spec == Init /\ [][Next]_vars

-----------------------------------------------------------------------------
(* Properties *)

\* The blocks tile the memory they came from, in the order of their addresses and without
\* overlap; a free block is in the list for its size, once, and an allocated one in none;
\* two free neighbours are too large together to be one.
WellFormed ==
  /\ \A i, j \in 1..Len(blocks) : i < j => blocks[i].addr + Total(blocks[i]) <= blocks[j].addr
  /\ Cardinality(Taken) % Page = 0
  /\ \A b \in Bins : \A a \in Range(bins[b]) : \E c \in Range(blocks) : c.addr = a
  /\ \A b \in Range(blocks) : \A n \in Bins :
       Len(SelectSeq(bins[n], LAMBDA a : a = b.addr)) = IF ~b.alloc /\ b.size = n THEN 1 ELSE 0
  /\ \A i \in 1..(Len(blocks) - 1) :
       ~blocks[i].alloc /\ ~blocks[i + 1].alloc => ~Mergeable(Heap, i)

\* A block marked as zeroed, which calloc() does not clear, has no unit that was ever
\* written, neither by a caller nor as a header.
ZeroedIsZero ==
  \A b \in Range(blocks) : b.zeroed => Units(b.addr + 1, b.size) \cap dirty = {}

\* An allocation returns, and the heap lock with it.  The kernel violates this: once a large
\* allocation below all blocks is freed, the next block may be mapped there.
AllocReturns == head # "hung"
=============================================================================
