----------------------------- MODULE Containers -----------------------------
(***************************************************************************)
(* The containers that the kernel is built on: the doubly linked list with *)
(* its variant for readers under RCU (include/sys/list.h), the hash map    *)
(* with open addressing (src/kernel/utils/map.c) and the bitmap with its   *)
(* hint (include/sys/bitmap.h).  Each has a next-state relation of its     *)
(* own: ListNext, MapNext and BitNext.                                     *)
(*                                                                         *)
(* A writer holds the lock of the list.  The RCU variants store one link   *)
(* at a time, in any order between two fences, while a reader walks along  *)
(* the next links; an entry that was removed is used again only when the   *)
(* walks that were under way are over.                                     *)
(***************************************************************************)
EXTENDS Integers, Sequences, SequencesExt, FiniteSetsExt

CONSTANTS
  Entries, Anchor, Readers,                      \* lists; Anchor is the head
  Items, Keys, Hash, MinCapacity, MaxCapacity,   \* maps; Hash maps a key to its hash
  Null, Tombstone,
  Word, Length                                   \* bitmaps: bits of a word, and of the bitmap

VARIABLES
  next, prev,    \* the links
  stores,        \* what an RCU operation has still to store: a sequence of sets
  live,          \* ghost: the entries of the list, in order
  walk,          \* where each reader is, and what it saw
  leaving,       \* per entry the readers that may still be at it
  slots, length, tombstones, entry, content,     \* map; content is a ghost
  buffer, firstZeroIdx, bits                     \* bitmap; bits is a ghost

listVars == <<next, prev, stores, live, walk, leaving>>
mapVars == <<slots, length, tombstones, entry, content>>
bitVars == <<buffer, firstZeroIdx, bits>>

-----------------------------------------------------------------------------
(* Lists *)

Nodes == Entries \cup {Anchor}
NoWalk == [at |-> Null, seen |-> <<>>, must |-> {}, may |-> {}]

ListInit ==
  /\ next = [n \in Nodes |-> n] /\ prev = [n \in Nodes |-> n]
  /\ stores = <<>> /\ live = <<>>
  /\ walk = [r \in Readers |-> NoWalk]
  /\ leaving = [e \in Entries |-> {}]

Link(n, p) == next' = n /\ prev' = p
InList(e) == next[e] # e /\ prev[e] # e
Walking == {r \in Readers : walk[r].at # Null}

\* A new entry may be seen by the walks under way, and one that goes need not be.
Enters(e) == walk' = [r \in Readers |-> [walk[r] EXCEPT !.may = @ \cup {e}]]
Goes(e) == walk' = [r \in Readers |-> [walk[r] EXCEPT !.must = @ \ {e}]]

Position(e) == CHOOSE i \in DOMAIN live : live[i] = e
After(p, e) == IF p = Anchor THEN <<e>> \o live ELSE InsertAt(live, Position(p) + 1, e)

\* list_add() with its assertions; list_append(), list_prepend(), list_push_back() and
\* list_push_front() differ in the place.
Add(p, e) ==
  /\ stores = <<>> /\ Walking = {} /\ next[e] = e /\ prev[e] = e
       /\ (p = Anchor \/ p \in Range(live))
  /\ Link([next EXCEPT ![e] = next[p], ![p] = e], [prev EXCEPT ![next[p]] = e, ![e] = p])
  /\ live' = After(p, e)
  /\ UNCHANGED <<stores, walk, leaving>>

AppendTo(p, e) == p # Anchor /\ Add(p, e)
Prepend(n, e) == n # Anchor /\ Add(prev[n], e)
PushBack(e) == Add(prev[Anchor], e)
PushFront(e) == Add(Anchor, e)

\* list_remove(), list_pop_front() and list_pop_back()
Unlink(e) ==
  /\ stores = <<>> /\ Walking = {}
  /\ Link([next EXCEPT ![prev[e]] = next[e], ![e] = e],
          [prev EXCEPT ![next[e]] = prev[e], ![e] = e])
  /\ live' = SelectSeq(live, LAMBDA x : x # e)
  /\ UNCHANGED <<stores, walk, leaving>>

Delete(e) == InList(e) /\ e \in Range(live) /\ Unlink(e)
PopFront == next[Anchor] # Anchor /\ Unlink(next[Anchor])
PopBack == next[Anchor] # Anchor /\ Unlink(prev[Anchor])

\* Mutant: the entry is published before its own link is stored.
AddRcu_Early(p, e) ==
  /\ stores = <<>> /\ e \notin Range(live) /\ leaving[e] = {} /\ (p = Anchor \/ p \in Range(live))
  /\ stores' = <<{<<"prev", next[p], e>>, <<"next", e, next[p]>>, <<"prev", e, p>>,
                  <<"next", p, e>>}>>
  /\ live' = After(p, e) /\ Enters(e)
  /\ UNCHANGED <<next, prev, leaving>>

\* list_add_rcu() after p; list_push_back_rcu() has the last entry for p.
AddRcu(p, e) ==
  /\ stores = <<>> /\ e \notin Range(live) /\ leaving[e] = {} /\ (p = Anchor \/ p \in Range(live))
  /\ stores' = << {<<"prev", next[p], e>>, <<"next", e, next[p]>>, <<"prev", e, p>>},
                 {<<"next", p, e>>} >>
  /\ live' = After(p, e) /\ Enters(e)
  /\ UNCHANGED <<next, prev, leaving>>

PushBackRcu(e) == AddRcu(prev[Anchor], e)

\* list_remove_rcu(): the entry keeps its links for the readers that are at it.
RemoveRcu(e) ==
  /\ stores = <<>> /\ e \in Range(live)
  /\ stores' = << {<<"next", prev[e], next[e]>>}, {<<"prev", next[e], prev[e]>>} >>
  /\ live' = SelectSeq(live, LAMBDA x : x # e) /\ Goes(e)
  /\ leaving' = [leaving EXCEPT ![e] = Readers]
  /\ UNCHANGED <<next, prev>>

\* One store, and once the last one is done only the walks under way may be at what left.
Store ==
  /\ stores # <<>>
  /\ \E s \in Head(stores) :
       /\ IF s[1] = "next" THEN Link([next EXCEPT ![s[2]] = s[3]], prev)
                          ELSE Link(next, [prev EXCEPT ![s[2]] = s[3]])
       /\ stores' = IF Head(stores) = {s} THEN Tail(stores) ELSE [stores EXCEPT ![1] = @ \ {s}]
  /\ leaving' = IF stores' # <<>> THEN leaving ELSE [e \in Entries |-> leaving[e] \cap Walking]
  /\ UNCHANGED <<live, walk>>

\* The entries along the next links, at most n of them
Along(n) ==
  LET f[i \in 0..n] == IF i = 0 THEN <<next[Anchor]>>
                       ELSE IF Last(f[i - 1]) = Anchor THEN f[i - 1]
                       ELSE Append(f[i - 1], next[Last(f[i - 1])])
  IN SelectSeq(f[n], LAMBDA e : e # Anchor)

Linked == Along(Cardinality(Entries))

\* LIST_FOR_EACH() of a reader
WalkBegin(r) ==
  /\ walk[r].at = Null
  /\ walk' = [walk EXCEPT ![r] = [at |-> next[Anchor], seen |-> <<>>,
                 must |-> Range(Linked) \cap Range(live), may |-> Range(Linked) \cup Range(live)]]
  /\ UNCHANGED <<next, prev, stores, live, leaving>>

WalkNext(r) ==
  /\ walk[r].at \in Entries
  /\ walk' = [walk EXCEPT ![r].seen = Append(@, walk[r].at), ![r].at = next[walk[r].at]]
  /\ UNCHANGED <<next, prev, stores, live, leaving>>

WalkEnd(r) ==
  /\ walk[r].at = Anchor
  /\ walk' = [walk EXCEPT ![r] = NoWalk]
  /\ leaving' = IF stores # <<>> THEN leaving ELSE [e \in Entries |-> leaving[e] \ {r}]
  /\ UNCHANGED <<next, prev, stores, live>>

ListNext ==
  \/ \E e \in Entries : PushBack(e) \/ PushFront(e) \/ Delete(e) \/ PushBackRcu(e) \/ RemoveRcu(e)
  \/ \E e, p \in Entries : AppendTo(p, e) \/ Prepend(p, e) \/ AddRcu(p, e)
  \/ PopFront \/ PopBack \/ Store
  \/ \E r \in Readers : WalkBegin(r) \/ WalkNext(r) \/ WalkEnd(r)

-----------------------------------------------------------------------------
(* Maps *)

Capacity == Cardinality(DOMAIN slots)
NoEntry == [key |-> Null, index |-> Null]

MapInit ==
  /\ slots = <<>> /\ length = 0 /\ tombstones = 0
  /\ entry = [e \in Items |-> NoEntry]
  /\ content = [k \in Keys |-> Null]

\* map_find_slot(): the slots are probed from the hash on, up to an empty one.  keys gives
\* the key of every entry.
FindSlot(table, keys, k, forInsertion) ==
  LET n == Cardinality(DOMAIN table)
      at(i) == (Hash[k] + i) % n
      stops == {i \in 0 .. (n - 1) : table[at(i)] = Null \/
                                     (table[at(i)] # Tombstone /\ keys[table[at(i)]] = k)}
      stop == IF stops = {} THEN n ELSE Min(stops)
      graves == {i \in 0 .. (stop - 1) : table[at(i)] = Tombstone}
  IN IF forInsertion /\ graves # {} /\ (stops = {} \/ table[at(stop)] = Null) THEN at(Min(graves))
     ELSE IF stops = {} THEN Null ELSE at(stop)

KeysOf(entries) == [e \in Items |-> entries[e].key]

\* map_resize(): a smaller table is never made.
Pow2(n) == Min({c \in {2^i : i \in 0..8} : c >= n})
Rehash(table, entries, k) ==
  LET moved == FoldLeft(LAMBDA t, i :
                 IF table[i] \in {Null, Tombstone} THEN t
                 ELSE [t EXCEPT ![FindSlot(t, KeysOf(entries), entries[table[i]].key, TRUE)] =
                         table[i]],
                 [i \in 0 .. (k - 1) |-> Null], [i \in 1 .. Cardinality(DOMAIN table) |-> i - 1])
  IN [table |-> moved, tombstones |-> 0,
      entries |-> [e \in Items |-> IF e \in {moved[i] : i \in DOMAIN moved}
                                   THEN [entries[e] EXCEPT !.index = CHOOSE i \in DOMAIN moved :
                                           moved[i] = e]
                                   ELSE entries[e]]]

Resize(newCapacity) ==
  IF Pow2(newCapacity) <= Capacity THEN [table |-> slots, tombstones |-> tombstones,
                                         entries |-> entry]
  ELSE Rehash(slots, entry, Pow2(newCapacity))

\* map_resize_check()
Crowded == (length + tombstones) * 100 >= 75 * Capacity
Checked ==
  IF Crowded THEN Resize(IF Capacity = 0 THEN MinCapacity ELSE Capacity * 2)
  ELSE [table |-> slots, tombstones |-> tombstones, entries |-> entry]

Bounded == Crowded => 2 * Capacity <= MaxCapacity

\* Item e goes to slot i of the table m.
Put(m, i, k, e) ==
  /\ slots' = [m.table EXCEPT ![i] = e]
  /\ tombstones' = m.tombstones - (IF m.table[i] = Tombstone THEN 1 ELSE 0)
  /\ entry' = [m.entries EXCEPT ![e] = [key |-> k, index |-> i]]
  /\ content' = [content EXCEPT ![k] = e]

Resized(m) == slots' = m.table /\ tombstones' = m.tombstones /\ entry' = m.entries

\* map_insert(); the table may not be had.
Insert(k, e) ==
  /\ entry[e].index = Null /\ Bounded
  /\ \/ Crowded /\ UNCHANGED mapVars
     \/ LET i == FindSlot(Checked.table, KeysOf(Checked.entries), k, TRUE)
        IN IF Checked.table[i] \in Items
           THEN Resized(Checked) /\ UNCHANGED <<length, content>>
           ELSE Put(Checked, i, k, e) /\ length' = length + 1

\* map_replace(); the entry that was there is not told, and its owner forgets it.
Replace(k, e) ==
  /\ entry[e].index = Null /\ Bounded
  /\ LET i == FindSlot(Checked.table, KeysOf(Checked.entries), k, TRUE)
         old == Checked.table[i]
         kept == [x \in Items |-> IF x = old THEN NoEntry ELSE Checked.entries[x]]
     IN /\ Put([Checked EXCEPT !.entries = kept], i, k, e)
        /\ length' = length + (IF old \in Items THEN 0 ELSE 1)

\* map_get()
Get(k) ==
  LET i == FindSlot(slots, KeysOf(entry), k, FALSE)
  IN IF i = Null THEN Null
     ELSE IF slots[i] \in Items /\ entry[slots[i]].key = k THEN slots[i] ELSE Null

\* map_remove_index(), whose attempt to shrink does nothing
RemoveIndex(i) ==
  /\ slots' = [slots EXCEPT ![i] = Tombstone]
  /\ length' = length - 1 /\ tombstones' = tombstones + 1
  /\ content' = [content EXCEPT ![entry[slots[i]].key] = Null]
  /\ entry' = [entry EXCEPT ![slots[i]].index = Null]

\* map_remove(), and map_remove_key() or map_get_and_remove()
RemoveEntry(e) == entry[e].index # Null /\ RemoveIndex(entry[e].index)
RemoveKey(k) == Get(k) # Null /\ RemoveIndex(FindSlot(slots, KeysOf(entry), k, FALSE))

\* map_clear(): the entries keep their keys.
Clear ==
  /\ length > 0
  /\ slots' = [i \in DOMAIN slots |-> Null] /\ length' = 0 /\ tombstones' = 0
  /\ entry' = [e \in Items |-> [entry[e] EXCEPT !.index = Null]]
  /\ content' = [k \in Keys |-> Null]

\* map_reserve()
Reserve(n) ==
  /\ n >= length /\ Pow2(n) <= MaxCapacity
  /\ Resized(Resize(n)) /\ UNCHANGED <<length, content>>

MapNext ==
  \/ \E k \in Keys, e \in Items : Insert(k, e) \/ Replace(k, e)
  \/ \E e \in Items : RemoveEntry(e)
  \/ \E k \in Keys : RemoveKey(k)
  \/ Clear
  \/ \E n \in 1 .. MaxCapacity : Reserve(n)

-----------------------------------------------------------------------------
(* Bitmaps: a word is the set of its bits that are set. *)

Words == 0 .. ((Length + Word - 1) \div Word - 1)
Full == 0 .. (Word - 1)

\* bitmap_init() over memory that is zero, or set to ones
BitInit ==
  /\ \E w \in {{}, Full} : buffer = [i \in Words |-> w]
  /\ firstZeroIdx = 0
  /\ bits = {i \in 0 .. (Length - 1) : buffer[0] = Full}

\* bitmap_is_set(), bitmap_is_empty()
IsSet(i) == i < Length /\ i % Word \in buffer[i \div Word]
IsEmpty ==
  /\ \A i \in 0 .. ((Length \div Word) - 1) : buffer[i] = {}
  /\ Length % Word # 0 => buffer[Length \div Word] \cap 0 .. ((Length % Word) - 1) = {}

\* The bits of word i that a range covers: the first and the last word in part
Mask(i, low, high) ==
  LET from == low \div Word
      to == (high - 1) \div Word
  IN (IF i = from THEN (low % Word) .. (Word - 1) ELSE IF i > from THEN Full ELSE {})
       \cap (IF i = to THEN 0 .. ((high - 1) % Word) ELSE IF i < to THEN Full ELSE {})

\* bitmap_set(), bitmap_set_range()
SetRange(low, high) ==
  /\ low < high /\ high <= Length
  /\ buffer' = [i \in Words |-> buffer[i] \cup Mask(i, low, high)]
  /\ bits' = bits \cup low .. (high - 1)
  /\ UNCHANGED firstZeroIdx

SetBit(i) ==
  /\ i < Length
  /\ buffer' = [buffer EXCEPT ![i \div Word] = @ \cup {i % Word}] /\ bits' = bits \cup {i}
  /\ UNCHANGED firstZeroIdx

\* bitmap_clear(), bitmap_clear_range(): the hint moves down; nothing moves it up.
ClearRange(low, high) ==
  /\ low < high /\ high <= Length
  /\ firstZeroIdx' = IF low < firstZeroIdx THEN low ELSE firstZeroIdx
  /\ buffer' = [i \in Words |-> buffer[i] \ Mask(i, low, high)]
  /\ bits' = bits \ (low .. (high - 1))

ClearBit(i) ==
  /\ i < Length
  /\ buffer' = [buffer EXCEPT ![i \div Word] = @ \ {i % Word}] /\ bits' = bits \ {i}
  /\ firstZeroIdx' = IF firstZeroIdx < i THEN firstZeroIdx ELSE i

\* The first word of the range with a bit that find picks, and that bit, if it is below end
FirstOf(words, end, find) ==
  LET found == {i \in words : find[i] # {}}
  IN IF found = {} THEN Length
     ELSE LET r == Min(found) * Word + Min(find[Min(found)]) IN IF r < end THEN r ELSE Length

\* bitmap_find_first_clear() and bitmap_find_first_set(): the first word is masked
LastWord(end) == ((IF end < Length THEN end ELSE Length) + Word - 1) \div Word - 1
FindFirstClear(from, end) ==
  LET start == IF from > firstZeroIdx THEN from ELSE firstZeroIdx
      masked(i) == IF i = start \div Word THEN 0 .. ((start % Word) - 1) ELSE {}
      clear == [i \in Words |-> Full \ (buffer[i] \cup masked(i))]
  IN IF firstZeroIdx >= Length THEN Length
     ELSE FirstOf((start \div Word) .. LastWord(end), end, clear)

FindFirstSet(start, end) ==
  LET set == [i \in Words |->
               buffer[i] \ (IF i = start \div Word THEN 0 .. ((start % Word) - 1) ELSE {})]
  IN IF start >= Length THEN Length
     ELSE FirstOf((start \div Word) .. LastWord(end), end, set)

\* bitmap_find_clear_region_and_set(): where the search is going to stop.  Behind every set
\* bit it goes on at the next aligned place.
RoundUp(n, a) == ((n + a - 1) \div a) * a
FindRegion(min, max, count, align) ==
  LET start == RoundUp(IF min > firstZeroIdx THEN min ELSE firstZeroIdx, align)
      search[i \in 0 .. (2 * Length)] ==
        IF i > max - count THEN Length
        ELSE LET s == FindFirstSet(i, i + count)
             IN IF s >= i + count THEN i ELSE search[RoundUp(s + 1, align)]
  IN IF count = 0 \/ min >= max \/ max > Length THEN Length ELSE search[start]

FindAndSet(min, max, count, align) ==
  LET i == FindRegion(min, max, count, align)
  IN i # Length /\ SetRange(i, i + count)

Places == 0 .. Length
BitNext ==
  \/ \E low, high \in Places : SetRange(low, high) \/ ClearRange(low, high)
  \/ \E i \in Places : SetBit(i) \/ ClearBit(i)
  \/ \E min, max, count \in Places, align \in {1, 2} : count <= max
       /\ FindAndSet(min, max, count, align)

-----------------------------------------------------------------------------
(* Properties *)

\* When no store is outstanding the list is linked in both directions as it should be, and a
\* walk of a reader finds every entry that was in the list all the time, once and in finitely
\* many steps, and none that never was (list_add_rcu(), list_remove_rcu()).
ListSound ==
  /\ stores = <<>> =>
       /\ Linked = live
       /\ \A n \in Range(live) \cup {Anchor} : prev[next[n]] = n
  /\ \A r \in Readers :
       /\ IsInjective(walk[r].seen)
       /\ Range(walk[r].seen) \subseteq walk[r].may
       /\ walk[r].at = Anchor => walk[r].must \subseteq Range(walk[r].seen)

\* The map finds exactly what was put in and not taken out, and its entries know their slots.
MapAgrees ==
  /\ \A k \in Keys : Get(k) = content[k]
  /\ length = Cardinality({k \in Keys : content[k] # Null})
  /\ tombstones = Cardinality({i \in DOMAIN slots : slots[i] = Tombstone})
  /\ \A e \in Items : entry[e].index # Null => slots[entry[e].index] = e

\* The bitmap has the bits that were set, and the searches with their masks and the hint find
\* the first bit or region there is.
Least(S) == IF S = {} THEN Length ELSE Min(S)
BitmapAgrees ==
  /\ \A i \in 0 .. (Length - 1) : IsSet(i) <=> i \in bits
  /\ IsEmpty <=> bits = {}
  /\ \A from, end \in Places :
       /\ FindFirstSet(from, end) = Least({i \in bits : from <= i /\ i < end})
       /\ from < Length => FindFirstClear(from, end) =
              Least({i \in from .. (end - 1) : i \notin bits})
  /\ \A min, max, count \in Places, align \in {1, 2} :
       min < max /\ 0 < count /\ count <= max =>
         FindRegion(min, max, count, align) =
           Least({i \in min .. (max - count) : i % align = 0
                  /\ (i .. (i + count - 1)) \cap bits = {}})
=============================================================================
