----------------------------- MODULE FilesProofs ----------------------------
(***************************************************************************)
(* Proofs about Files: references to open files are counted, for any       *)
(* finite set of processes, any files, descriptors, keys and timeouts.     *)
(***************************************************************************)
EXTENDS Files, FiniteSetTheorems, FunctionTheorems, WellFoundedInduction, TLAPS

Entry == [key : Nat, file : Files, expiry : Nat]

TypeOK ==
  /\ mem \in [Files -> {"none", "open", "freed"}]
  /\ refs \in [Files -> Int]
  /\ files \in [Tables -> [Fds -> Files \cup {None}]]
  /\ bitmap \in [Tables -> SUBSET Fds]
  /\ using \in [Tables -> Files \cup {None}]
  /\ keyList \in Seq(Entry) /\ shared \in Nat /\ uptime \in Nat

Inv == TypeOK /\ ReferencesCounted

\* Who refers to file f: entries of the tables, running system calls, keys.
Slots(fs, f) == {s \in Tables \X Fds : fs[s[1]][s[2]] = f}
Callers(u, f) == {p \in Tables : u[p] = f}
Keys(l, f) == {i \in 1..Len(l) : l[i].file = f}
Here(fs, p, fds, f) == {fd \in fds : fs[p][fd] = f}
Total(f) ==
  Cardinality(Slots(files, f)) + Cardinality(Callers(using, f)) + Cardinality(Keys(keyList, f))

-----------------------------------------------------------------------------
(* Counting *)

\* Descriptors are numbers, and finitely many.
LEMMA FdsFinite == IsFiniteSet(Fds) /\ Fds \subseteq Nat
<1>1. Fds = 0..(MaxFd - 1) /\ MaxFd - 1 \in Int
  BY FilesAssumption DEF Fds
<1> QED BY <1>1, FS_Interval

\* Whoever refers to a file can be counted.
LEMMA RefsFinite ==
  ASSUME NEW fs, NEW u, NEW S, NEW l \in Seq(S), NEW f, NEW p, NEW fds \in SUBSET Fds
  PROVE  /\ IsFiniteSet(Slots(fs, f)) /\ IsFiniteSet(Callers(u, f)) /\ IsFiniteSet(Keys(l, f))
         /\ IsFiniteSet(Here(fs, p, fds, f))
         /\ Cardinality(Slots(fs, f)) \in Nat /\ Cardinality(Callers(u, f)) \in Nat
         /\ Cardinality(Keys(l, f)) \in Nat /\ Cardinality(Here(fs, p, fds, f)) \in Nat
<1>1. IsFiniteSet(Tables \X Fds)
  BY FdsFinite, FilesAssumption, FS_Product
<1>2. Slots(fs, f) \in SUBSET (Tables \X Fds)
  BY DEF Slots
<1>3. Callers(u, f) \in SUBSET Tables
  BY DEF Callers
<1>4. IsFiniteSet(1..Len(l))
  BY FS_Interval
<1>5. Keys(l, f) \in SUBSET (1..Len(l))
  BY DEF Keys
<1>6. Here(fs, p, fds, f) \in SUBSET Fds
  BY DEF Here
<1>7. IsFiniteSet(Slots(fs, f)) /\ IsFiniteSet(Callers(u, f))
  BY <1>1, <1>2, <1>3, FilesAssumption, FS_Subset
<1>8. IsFiniteSet(Keys(l, f)) /\ IsFiniteSet(Here(fs, p, fds, f))
  BY <1>4, <1>5, <1>6, FdsFinite, FS_Subset
<1> QED BY <1>7, <1>8, FS_CardinalityType

\* The entries of one table can be counted by their descriptors.
LEMMA RowCounts ==
  ASSUME NEW p, NEW A, IsFiniteSet(A)
  PROVE  IsFiniteSet({p} \X A) /\ Cardinality({p} \X A) = Cardinality(A)
<1>1. IsFiniteSet({p}) /\ Cardinality({p}) = 1
  BY FS_Singleton
<1>2. IsFiniteSet({p} \X A) /\ Cardinality({p} \X A) = Cardinality({p}) * Cardinality(A)
  BY <1>1, FS_Product
<1> QED BY <1>1, <1>2, FS_CardinalityType

\* The entries for f are those of table p in fds, and the others.
LEMMA SlotsSplit ==
  ASSUME NEW fs, NEW p \in Tables, NEW fds \in SUBSET Fds, NEW f
  PROVE  LET rest == {s \in Slots(fs, f) : ~(s[1] = p /\ s[2] \in fds)} IN
         /\ Cardinality(rest) \in Nat
         /\ Cardinality(Slots(fs, f)) = Cardinality(rest) + Cardinality(Here(fs, p, fds, f))
<1> DEFINE rest == {s \in Slots(fs, f) : ~(s[1] = p /\ s[2] \in fds)}
           row == {p} \X Here(fs, p, fds, f)
<1>1. IsFiniteSet(Slots(fs, f)) /\ IsFiniteSet(Here(fs, p, fds, f))
  BY RefsFinite, <<>> \in Seq({})
<1>2. IsFiniteSet(rest) /\ Cardinality(rest) \in Nat
  BY <1>1, FS_Subset, FS_CardinalityType
<1>3. IsFiniteSet(row) /\ Cardinality(row) = Cardinality(Here(fs, p, fds, f))
  BY <1>1, RowCounts
<1>4. Slots(fs, f) = rest \cup row
  <2>1. row \subseteq Slots(fs, f)
    BY DEF Slots, Here
  <2>2. \A s \in Slots(fs, f) : s[1] = p /\ s[2] \in fds => s \in row
    BY DEF Slots, Here
  <2> QED BY <2>1, <2>2
<1>5. rest \cap row = {}
  BY DEF Here
<1>6. Cardinality(rest \cap row) = 0
  BY <1>5, FS_EmptySet
<1>7. Cardinality(Here(fs, p, fds, f)) \in Nat
  BY <1>1, FS_CardinalityType
<1> HIDE DEF rest, row
<1>8. Cardinality(Slots(fs, f)) = Cardinality(rest) + Cardinality(row) - 0
  BY <1>2, <1>3, <1>4, <1>6, FS_Union
<1> QED BY <1>2, <1>3, <1>7, <1>8 DEF rest

\* What a change of some entries of a table does to the number of entries for a file.
LEMMA SlotsChange ==
  ASSUME NEW fs, NEW gs, NEW p \in Tables, NEW fds \in SUBSET Fds, NEW f,
         \A q \in Tables, fd \in Fds : q # p \/ fd \notin fds => gs[q][fd] = fs[q][fd]
  PROVE  /\ Cardinality(Slots(fs, f)) \in Nat /\ Cardinality(Slots(gs, f)) \in Nat
         /\ Cardinality(Here(fs, p, fds, f)) \in Nat /\ Cardinality(Here(gs, p, fds, f)) \in Nat
         /\ Cardinality(Slots(gs, f)) = Cardinality(Slots(fs, f))
              - Cardinality(Here(fs, p, fds, f)) + Cardinality(Here(gs, p, fds, f))
<1>1. /\ Cardinality(Slots(fs, f)) \in Nat /\ Cardinality(Slots(gs, f)) \in Nat
      /\ Cardinality(Here(fs, p, fds, f)) \in Nat /\ Cardinality(Here(gs, p, fds, f)) \in Nat
  BY RefsFinite, <<>> \in Seq({})
<1> DEFINE rest(h) == {s \in Slots(h, f) : ~(s[1] = p /\ s[2] \in fds)}
<1>2. rest(fs) = rest(gs)
  BY DEF Slots
<1>3. /\ Cardinality(rest(fs)) \in Nat
      /\ Cardinality(Slots(fs, f)) = Cardinality(rest(fs)) + Cardinality(Here(fs, p, fds, f))
  BY SlotsSplit
<1>4. Cardinality(Slots(gs, f)) = Cardinality(rest(gs)) + Cardinality(Here(gs, p, fds, f))
  BY SlotsSplit
<1> HIDE DEF rest
<1> QED BY <1>1, <1>2, <1>3, <1>4

\* The same for the file a thread of process p works with.
OnlyOf(u, v, p) == \A q \in Tables : q # p => v[q] = u[q]

LEMMA CallersChange ==
  ASSUME NEW u, NEW v, NEW p \in Tables, NEW f, OnlyOf(u, v, p)
  PROVE  /\ Cardinality(Callers(u, f)) \in Nat /\ Cardinality(Callers(v, f)) \in Nat
         /\ Cardinality(Callers(v, f)) = Cardinality(Callers(u, f))
              - (IF u[p] = f THEN 1 ELSE 0) + (IF v[p] = f THEN 1 ELSE 0)
<1>1. /\ IsFiniteSet(Callers(u, f)) /\ IsFiniteSet(Callers(v, f))
      /\ Cardinality(Callers(u, f)) \in Nat /\ Cardinality(Callers(v, f)) \in Nat
  BY RefsFinite, <<>> \in Seq({}), {} \in SUBSET Fds
<1>2. Callers(u, f) \ {p} = Callers(v, f) \ {p}
  BY DEF Callers, OnlyOf
<1>3. ASSUME NEW w, IsFiniteSet(Callers(w, f)), Cardinality(Callers(w, f)) \in Nat
      PROVE  Cardinality(Callers(w, f) \ {p})
               = Cardinality(Callers(w, f)) - (IF w[p] = f THEN 1 ELSE 0)
  <2>1. p \in Callers(w, f) <=> w[p] = f
    BY DEF Callers
  <2>2. Cardinality(Callers(w, f) \ {p}) = IF p \in Callers(w, f) THEN Cardinality(Callers(w, f)) - 1
                                           ELSE Cardinality(Callers(w, f))
    BY <1>3, FS_RemoveElement
  <2> QED BY <1>3, <2>1, <2>2
<1>4. Cardinality(Callers(u, f) \ {p}) = Cardinality(Callers(u, f)) - (IF u[p] = f THEN 1 ELSE 0)
  BY <1>1, <1>3
<1>5. Cardinality(Callers(v, f) \ {p}) = Cardinality(Callers(v, f)) - (IF v[p] = f THEN 1 ELSE 0)
  BY <1>1, <1>3
<1> DEFINE c == Cardinality(Callers(u, f))
           d == Cardinality(Callers(v, f))
<1>6. c - (IF u[p] = f THEN 1 ELSE 0) = d - (IF v[p] = f THEN 1 ELSE 0)
  BY <1>2, <1>4, <1>5
<1>7. c \in Nat /\ d \in Nat
  BY <1>1
<1> HIDE DEF c, d
<1>8. d = c - (IF u[p] = f THEN 1 ELSE 0) + (IF v[p] = f THEN 1 ELSE 0)
  BY <1>6, <1>7
<1> QED BY <1>7, <1>8 DEF c, d

\* List l has one entry more than list r, at place i.
Longer(l, r, i) ==
  /\ Len(l) = Len(r) + 1 /\ i \in 1..Len(l)
  /\ \A j \in 1..Len(r) : l[IF j < i THEN j ELSE j + 1] = r[j]

LEMMA KeysChange ==
  ASSUME NEW S, NEW l \in Seq(S), NEW r \in Seq(S), NEW i, Longer(l, r, i), NEW f
  PROVE  /\ Cardinality(Keys(l, f)) \in Nat /\ Cardinality(Keys(r, f)) \in Nat
         /\ Cardinality(Keys(l, f)) = Cardinality(Keys(r, f)) + (IF l[i].file = f THEN 1 ELSE 0)
<1>1. /\ IsFiniteSet(Keys(l, f)) /\ IsFiniteSet(Keys(r, f))
      /\ Cardinality(Keys(l, f)) \in Nat /\ Cardinality(Keys(r, f)) \in Nat
  BY RefsFinite, {} \in SUBSET Fds
<1> DEFINE A == Keys(r, f)
           B == Keys(l, f) \ {i}
           h == [j \in A |-> IF j < i THEN j ELSE j + 1]
<1>n. Len(r) \in Nat /\ Len(l) = Len(r) + 1 /\ i \in 1..(Len(r) + 1)
  BY DEF Longer
<1>2. h \in [A -> B]
  BY <1>n DEF Keys, Longer
<1>3. \A j, k \in A : h[j] = h[k] => j = k
  BY <1>n DEF Keys
<1>4. \A k \in B : \E j \in A : h[j] = k
  <2> SUFFICES ASSUME NEW k \in B PROVE \E j \in A : h[j] = k
    OBVIOUS
  <2>1. k \in 1..(Len(r) + 1) /\ k # i /\ l[k].file = f
    BY <1>n DEF Keys
  <2>2. CASE k < i
    <3>1. k \in 1..Len(r) /\ l[k] = r[k]
      BY <1>n, <2>1, <2>2 DEF Longer
    <3>2. k \in A
      BY <2>1, <3>1 DEF Keys
    <3> QED BY <2>2, <3>2
  <2>3. CASE k > i
    <3>1. k - 1 \in 1..Len(r) /\ ~(k - 1 < i) /\ (k - 1) + 1 = k
      BY <1>n, <2>1, <2>3
    <3>2. l[k] = r[k - 1]
      BY <3>1 DEF Longer
    <3>3. k - 1 \in A
      BY <2>1, <3>1, <3>2 DEF Keys
    <3> QED BY <3>1, <3>3
  <2> QED BY <1>n, <2>1, <2>2, <2>3
<1>5. IsFiniteSet(A)
  BY <1>1
<1>6. Cardinality(B) = Cardinality(A)
  <2> HIDE DEF A, B, h
  <2>1. h \in Bijection(A, B)
    BY <1>2, <1>3, <1>4, Fun_IsBij
  <2>2. ExistsBijection(A, B)
    BY <2>1 DEF ExistsBijection
  <2> QED BY <1>5, <2>2, FS_Bijection
<1>7. i \in Keys(l, f) <=> l[i].file = f
  BY <1>n DEF Keys
<1>8. Cardinality(B) = IF i \in Keys(l, f) THEN Cardinality(Keys(l, f)) - 1
                       ELSE Cardinality(Keys(l, f))
  BY <1>1, FS_RemoveElement
<1> QED BY <1>1, <1>6, <1>7, <1>8

\* The elements of a concatenation.
LEMMA Concat ==
  ASSUME NEW S, NEW s \in Seq(S), NEW t \in Seq(S)
  PROVE  /\ s \o t \in Seq(S) /\ Len(s \o t) = Len(s) + Len(t)
         /\ \A j \in 1..Len(s) : (s \o t)[j] = s[j]
         /\ \A j \in 1..Len(t) : (s \o t)[j + Len(s)] = t[j]
  OBVIOUS

\* A key is inserted, or removed.
LEMMA Inserted ==
  ASSUME NEW S, NEW l \in Seq(S), NEW i \in 1..(Len(l) + 1), NEW e \in S
  PROVE  /\ InsertAt(l, i, e) \in Seq(S) /\ Longer(InsertAt(l, i, e), l, i)
         /\ InsertAt(l, i, e)[i] = e
<1> DEFINE a == SubSeq(l, 1, i - 1)
           b == SubSeq(l, i, Len(l))
           m == a \o <<e>> \o b
<1>1. /\ a \in Seq(S) /\ Len(a) = i - 1 /\ \A j \in 1..(i - 1) : a[j] = l[j]
  OBVIOUS
<1>2. /\ b \in Seq(S) /\ Len(b) = Len(l) - i + 1
      /\ \A j \in 1..(Len(l) - i + 1) : b[j] = l[j + i - 1]
  OBVIOUS
<1> HIDE DEF a, b
<1>3. a \o <<e>> \in Seq(S) /\ Len(a \o <<e>>) = i /\ (a \o <<e>>)[i] = e
      /\ \A j \in 1..(i - 1) : (a \o <<e>>)[j] = l[j]
  BY <1>1
<1>n. Len(l) \in Nat /\ i \in Int /\ 1 <= i /\ i <= Len(l) + 1
  OBVIOUS
<1> DEFINE c == a \o <<e>>
<1> HIDE DEF c
<1>c. c \in Seq(S) /\ Len(c) = i /\ c[i] = e /\ \A j \in 1..(i - 1) : c[j] = l[j]
  BY <1>3 DEF c
<1>d. /\ c \o b \in Seq(S) /\ Len(c \o b) = Len(c) + Len(b)
      /\ \A j \in 1..Len(c) : (c \o b)[j] = c[j]
      /\ \A j \in 1..Len(b) : (c \o b)[j + Len(c)] = b[j]
  BY <1>c, <1>2, Concat
<1>m. m = c \o b
  BY DEF c
<1> HIDE DEF m
<1>4. m \in Seq(S) /\ Len(m) = Len(l) + 1 /\ m[i] = e
      /\ \A j \in 1..(i - 1) : m[j] = l[j]
  BY <1>n, <1>2, <1>c, <1>d, <1>m
<1>5. ASSUME NEW j \in i..Len(l) PROVE m[j + 1] = l[j]
  <2>1. j + 1 - i \in 1..(Len(l) - i + 1) /\ (j + 1 - i) + i = j + 1 /\ (j + 1 - i) + i - 1 = j
    BY <1>n
  <2>2. m[(j + 1 - i) + i] = b[j + 1 - i]
    BY <1>2, <1>c, <1>d, <1>m, <2>1
  <2>3. b[j + 1 - i] = l[(j + 1 - i) + i - 1]
    BY <1>2, <2>1
  <2> QED BY <2>1, <2>2, <2>3
<1>6. Longer(m, l, i)
  BY <1>4, <1>5 DEF Longer
<1>7. InsertAt(l, i, e) = m
  BY DEF InsertAt, m, a, b
<1> QED BY <1>4, <1>6, <1>7

LEMMA Removed ==
  ASSUME NEW S, NEW l \in Seq(S), NEW i \in 1..Len(l)
  PROVE  RemoveAt(l, i) \in Seq(S) /\ Longer(l, RemoveAt(l, i), i)
<1> DEFINE a == SubSeq(l, 1, i - 1)
           b == SubSeq(l, i + 1, Len(l))
           r == a \o b
<1>1. /\ a \in Seq(S) /\ Len(a) = i - 1 /\ \A j \in 1..(i - 1) : a[j] = l[j]
  OBVIOUS
<1>2. /\ b \in Seq(S) /\ Len(b) = Len(l) - i
      /\ \A j \in 1..(Len(l) - i) : b[j] = l[j + i]
  OBVIOUS
<1> HIDE DEF a, b
<1>n. Len(l) \in Nat /\ i \in Int /\ 1 <= i /\ i <= Len(l)
  OBVIOUS
<1>d. /\ r \in Seq(S) /\ Len(r) = Len(a) + Len(b)
      /\ \A j \in 1..Len(a) : r[j] = a[j]
      /\ \A j \in 1..Len(b) : r[j + Len(a)] = b[j]
  <2>1. a \in Seq(S) /\ b \in Seq(S)
    BY <1>1, <1>2
  <2> QED BY <2>1, Concat
<1> HIDE DEF r
<1>3. r \in Seq(S) /\ Len(r) = Len(l) - 1 /\ \A j \in 1..(i - 1) : r[j] = l[j]
  <2>1. Len(r) = Len(l) - 1
    BY <1>1, <1>2, <1>n, <1>d
  <2>2. \A j \in 1..(i - 1) : r[j] = l[j]
    BY <1>1, <1>d
  <2> QED BY <1>d, <2>1, <2>2
<1>4. ASSUME NEW j \in i..(Len(l) - 1) PROVE r[j] = l[j + 1]
  <2>1. /\ j - i + 1 \in 1..(Len(l) - i) /\ (j - i + 1) + (i - 1) = j
        /\ (j - i + 1) + i = j + 1
    BY <1>n
  <2>2. r[(j - i + 1) + (i - 1)] = b[j - i + 1]
    BY <1>1, <1>2, <1>d, <2>1
  <2>3. b[j - i + 1] = l[(j - i + 1) + i]
    BY <1>2, <2>1
  <2> QED BY <2>1, <2>2, <2>3
<1>5. Longer(l, r, i)
  BY <1>3, <1>4 DEF Longer
<1>6. RemoveAt(l, i) = r
  BY DEF RemoveAt, r, a, b
<1> QED BY <1>3, <1>5, <1>6

-----------------------------------------------------------------------------
(* What the operations have in common *)

\* A free descriptor is found when there is one.
LEMMA FirstClearFree ==
  ASSUME TypeOK, NEW p \in Tables, bitmap[p] # Fds
  PROVE  FirstClear(p) \in Fds \ bitmap[p]
<1> DEFINE S == Fds \ bitmap[p]
<1>1. S # {} /\ S \subseteq Nat
  BY FdsFinite DEF TypeOK
<1>2. \E h \in S : \A g \in S : h <= g
  <2> HIDE DEF S
  <2>1. PICK h \in S : \A g \in S : <<g, h>> \notin OpToRel(<, Nat)
    BY <1>1, NatLessThanWellFounded, WFMin
  <2>2. \A g \in S : g < h => <<g, h>> \in OpToRel(<, Nat)
    BY <1>1 DEF OpToRel
  <2>3. \A g \in S : h <= g
    <3> SUFFICES ASSUME NEW g \in S PROVE h <= g
      OBVIOUS
    <3>1. g \in Nat /\ h \in Nat /\ ~(g < h)
      BY <1>1, <2>1, <2>2
    <3> QED BY <3>1
  <2> QED BY <2>3
<1>3. Min(S) \in S
  <2> HIDE DEF S
  <2> QED BY <1>2, Zenon DEF Min
<1> QED BY <1>3 DEF FirstClear

\* ReferencesCounted in these terms.
LEMMA CountedMeans ==
  ReferencesCounted <=>
    /\ \A f \in Files : refs[f] = Total(f) /\ (mem[f] = "open" <=> refs[f] > 0)
    /\ \A p \in Tables : bitmap[p] = OpenFds(p)
  BY DEF ReferencesCounted, Total, Slots, Callers, Keys

LEMMA TotalNat ==
  ASSUME TypeOK, NEW f
  PROVE  /\ Total(f) \in Nat /\ Cardinality(Slots(files, f)) \in Nat
         /\ Cardinality(Callers(using, f)) \in Nat /\ Cardinality(Keys(keyList, f)) \in Nat
<1>1. keyList \in Seq(Entry)
  BY DEF TypeOK
<1>2. /\ Cardinality(Slots(files, f)) \in Nat
      /\ Cardinality(Callers(using, f)) \in Nat /\ Cardinality(Keys(keyList, f)) \in Nat
  BY <1>1, RefsFinite, {} \in SUBSET Fds
<1> QED BY <1>2 DEF Total

\* Whatever somebody refers to is open.
LEMMA Referred ==
  ASSUME Inv
  PROVE  /\ \A p \in Tables, fd \in Fds : files[p][fd] # None =>
               files[p][fd] \in Files /\ mem[files[p][fd]] = "open"
         /\ \A p \in Tables : using[p] # None => using[p] \in Files /\ mem[using[p]] = "open"
         /\ \A i \in 1..Len(keyList) :
               keyList[i].file \in Files /\ mem[keyList[i].file] = "open"
<1>t. TypeOK
  BY DEF Inv
<1>c. \A f \in Files : refs[f] = Total(f) /\ (mem[f] = "open" <=> refs[f] > 0)
  BY CountedMeans DEF Inv
<1>k. keyList \in Seq(Entry)
  BY <1>t DEF TypeOK
<1>1. ASSUME NEW f \in Files,
             Slots(files, f) # {} \/ Callers(using, f) # {} \/ Keys(keyList, f) # {}
      PROVE  mem[f] = "open"
  <2>1. /\ IsFiniteSet(Slots(files, f)) /\ IsFiniteSet(Callers(using, f))
        /\ IsFiniteSet(Keys(keyList, f))
    BY <1>k, RefsFinite, {} \in SUBSET Fds
  <2>2. \/ Cardinality(Slots(files, f)) # 0 \/ Cardinality(Callers(using, f)) # 0
        \/ Cardinality(Keys(keyList, f)) # 0
    BY <1>1, <2>1, FS_EmptySet
  <2>3. Total(f) > 0
    BY <1>t, <2>2, TotalNat DEF Total
  <2> QED BY <1>c, <2>3
<1>2. ASSUME NEW p \in Tables, NEW fd \in Fds, files[p][fd] # None
      PROVE  files[p][fd] \in Files /\ mem[files[p][fd]] = "open"
  <2>1. files[p][fd] \in Files
    BY <1>2, <1>t DEF TypeOK
  <2>2. <<p, fd>> \in Slots(files, files[p][fd])
    BY DEF Slots
  <2> QED BY <1>1, <2>1, <2>2
<1>3. ASSUME NEW p \in Tables, using[p] # None
      PROVE  using[p] \in Files /\ mem[using[p]] = "open"
  <2>1. using[p] \in Files
    BY <1>3, <1>t DEF TypeOK
  <2>2. p \in Callers(using, using[p])
    BY DEF Callers
  <2> QED BY <1>1, <2>1, <2>2
<1>4. ASSUME NEW i \in 1..Len(keyList)
      PROVE  keyList[i].file \in Files /\ mem[keyList[i].file] = "open"
  <2>1. keyList[i].file \in Files
    <3>1. keyList[i] \in Entry
      BY <1>k
    <3> QED BY <3>1 DEF Entry
  <2>2. i \in Keys(keyList, keyList[i].file)
    BY DEF Keys
  <2> QED BY <1>1, <2>1, <2>2
<1> QED BY <1>2, <1>3, <1>4

\* A step that counts what it adds and drops, and adds references to open files only.
Freed == mem' = [f \in Files |-> IF mem[f] = "open" /\ refs'[f] = 0 THEN "freed" ELSE mem[f]]

LEMMA Recount ==
  ASSUME Inv, TypeOK', Freed,
         \A f \in Files : /\ refs'[f] - refs[f] = Total(f)' - Total(f)
                          /\ refs'[f] > refs[f] => mem[f] = "open"
  PROVE  \A f \in Files : refs'[f] = Total(f)' /\ (mem'[f] = "open" <=> refs'[f] > 0)
<1> SUFFICES ASSUME NEW f \in Files
             PROVE  refs'[f] = Total(f)' /\ (mem'[f] = "open" <=> refs'[f] > 0)
  OBVIOUS
<1>1. refs[f] = Total(f) /\ (mem[f] = "open" <=> refs[f] > 0)
  BY CountedMeans DEF Inv
<1>2. Total(f) \in Nat /\ refs'[f] \in Int
  BY TotalNat DEF Inv, TypeOK
<1>3. Total(f)' \in Nat
  <2>1. keyList' \in Seq(Entry)
    BY DEF TypeOK
  <2>2. /\ Cardinality(Slots(files', f)) \in Nat
        /\ Cardinality(Callers(using', f)) \in Nat /\ Cardinality(Keys(keyList', f)) \in Nat
    BY <2>1, RefsFinite, {} \in SUBSET Fds
  <2>3. Total(f)' = Cardinality(Slots(files', f)) + Cardinality(Callers(using', f))
                      + Cardinality(Keys(keyList', f))
    BY DEF Total, Slots, Callers, Keys
  <2> QED BY <2>2, <2>3
<1>4. refs'[f] = Total(f)'
  BY <1>1, <1>2, <1>3
<1>5. mem'[f] = IF mem[f] = "open" /\ refs'[f] = 0 THEN "freed" ELSE mem[f]
  BY DEF Freed
<1> QED BY <1>1, <1>2, <1>3, <1>4, <1>5

\* The bitmap follows the entries of a table.
RowOnly(p, fds) ==
  /\ files' \in [Tables -> [Fds -> Files \cup {None}]]
  /\ \A q \in Tables, fd \in Fds : q # p \/ fd \notin fds => files'[q][fd] = files[q][fd]
  /\ bitmap' \in [Tables -> SUBSET Fds]
  /\ \A q \in Tables : q # p => bitmap'[q] = bitmap[q]
  /\ bitmap'[p] = (bitmap[p] \ fds) \cup {fd \in fds : files'[p][fd] # None}

LEMMA BitmapKept ==
  ASSUME Inv, NEW p \in Tables, NEW fds \in SUBSET Fds, RowOnly(p, fds)
  PROVE  \A q \in Tables : bitmap'[q] = OpenFds(q)'
<1>1. \A q \in Tables : bitmap[q] = OpenFds(q)
  BY CountedMeans DEF Inv
<1> SUFFICES ASSUME NEW q \in Tables PROVE bitmap'[q] = {fd \in Fds : files'[q][fd] # None}
  BY DEF OpenFds
<1>2. CASE q # p
  BY <1>1, <1>2 DEF RowOnly, OpenFds
<1>3. CASE q = p
  BY <1>1, <1>3 DEF RowOnly, OpenFds
<1> QED BY <1>2, <1>3

\* A step counts what the changed entries of a table refer to.
Accounts(p, fds) ==
  /\ refs' = [f \in Files |-> refs[f] + (Cardinality(Here(files', p, fds, f))
                                        - Cardinality(Here(files, p, fds, f)))]
  /\ \A fd \in fds : files'[p][fd] # None => mem[files'[p][fd]] = "open"
  /\ Freed /\ UNCHANGED <<using, keyList, shared, uptime>>

\* Such a step keeps the invariant.
LEMMA TableStep ==
  ASSUME Inv, NEW p \in Tables, NEW fds \in SUBSET Fds, RowOnly(p, fds), Accounts(p, fds)
  PROVE  Inv'
<1>a. /\ refs' = [f \in Files |-> refs[f] + (Cardinality(Here(files', p, fds, f))
                                            - Cardinality(Here(files, p, fds, f)))]
      /\ \A fd \in fds : files'[p][fd] # None => mem[files'[p][fd]] = "open"
      /\ Freed /\ UNCHANGED <<using, keyList, shared, uptime>>
  BY DEF Accounts
<1>t. TypeOK
  BY DEF Inv
<1>d. \A q \in Tables, fd \in Fds : q # p \/ fd \notin fds => files'[q][fd] = files[q][fd]
  BY DEF RowOnly
<1>h. ASSUME NEW f \in Files
      PROVE  /\ Cardinality(Slots(files, f)) \in Nat /\ Cardinality(Slots(files', f)) \in Nat
             /\ Cardinality(Here(files, p, fds, f)) \in Nat
             /\ Cardinality(Here(files', p, fds, f)) \in Nat
             /\ Cardinality(Slots(files', f)) = Cardinality(Slots(files, f))
                  - Cardinality(Here(files, p, fds, f)) + Cardinality(Here(files', p, fds, f))
  BY <1>d, SlotsChange
<1>1. TypeOK'
  <2>1. \A f \in Files : refs[f] \in Int
    BY <1>t DEF TypeOK
  <2>2. refs' \in [Files -> Int]
    BY <1>a, <1>h, <2>1
  <2>3. mem' \in [Files -> {"none", "open", "freed"}]
    BY <1>a, <1>t DEF TypeOK, Freed
  <2> QED BY <1>a, <1>t, <2>2, <2>3 DEF TypeOK, RowOnly
<1>2. ASSUME NEW f \in Files
      PROVE  /\ refs'[f] - refs[f] = Total(f)' - Total(f)
             /\ refs'[f] > refs[f] => mem[f] = "open"
  <2> DEFINE a == Cardinality(Here(files, p, fds, f))
             b == Cardinality(Here(files', p, fds, f))
             c == Cardinality(Slots(files, f))
             d == Cardinality(Slots(files', f))
             k == Cardinality(Callers(using, f))
             m == Cardinality(Keys(keyList, f))
  <2>1. refs[f] \in Int /\ refs'[f] = refs[f] + (b - a)
    BY <1>a, <1>t DEF TypeOK
  <2>2. a \in Nat /\ b \in Nat /\ c \in Nat /\ d = c - a + b
    BY <1>h
  <2>3. k \in Nat /\ m \in Nat
    BY <1>t, TotalNat
  <2>4. Total(f) = c + k + m
    BY DEF Total
  <2>5. Total(f)' = d + k + m
    BY <1>a DEF Total, Slots, Callers, Keys
  <2>6. b > 0 => mem[f] = "open"
    <3> SUFFICES ASSUME b > 0 PROVE mem[f] = "open"
      OBVIOUS
    <3>0. Cardinality({}) = 0
      BY FS_EmptySet
    <3>1. ASSUME Here(files', p, fds, f) = {} PROVE FALSE
      <4>1. b = 0
        BY <3>0, <3>1
      <4> HIDE DEF b
      <4> QED BY <4>1
    <3>2. PICK fd \in fds : files'[p][fd] = f
      BY <3>1 DEF Here
    <3> QED BY <1>a, <3>2, FilesAssumption
  <2> HIDE DEF a, b, c, d, k, m
  <2>7. refs'[f] - refs[f] = Total(f)' - Total(f)
    BY <2>1, <2>2, <2>3, <2>4, <2>5
  <2>8. refs'[f] > refs[f] => b > 0
    BY <2>1, <2>2
  <2> QED BY <2>6, <2>7, <2>8
<1>3. \A f \in Files : refs'[f] = Total(f)' /\ (mem'[f] = "open" <=> refs'[f] > 0)
  BY <1>a, <1>1, <1>2, Recount
<1>4. \A q \in Tables : bitmap'[q] = OpenFds(q)'
  BY BitmapKept
<1>5. ReferencesCounted'
  BY <1>3, <1>4 DEF ReferencesCounted, Total, Slots, Callers, Keys
<1> QED BY <1>1, <1>5 DEF Inv

-----------------------------------------------------------------------------
(* The operations on tables *)

LEMMA CloseStep ==
  ASSUME Inv, NEW p \in Tables, NEW fds \in SUBSET Fds, CloseFds(p, fds)
  PROVE  Inv'
<1>t. TypeOK
  BY DEF Inv
<1>u. UNCHANGED <<using, keyList, shared, uptime>> /\ Freed
  BY DEF CloseFds, Count, keys, Freed
<1>1. \A fd \in fds : files'[p][fd] = None
  BY <1>t DEF CloseFds, TypeOK
<1>2. RowOnly(p, fds)
  <2>1. files' \in [Tables -> [Fds -> Files \cup {None}]]
    BY <1>t DEF CloseFds, TypeOK
  <2>2. \A q \in Tables, fd \in Fds : q # p \/ fd \notin fds => files'[q][fd] = files[q][fd]
    BY <1>t DEF CloseFds, TypeOK
  <2>3. bitmap' = [bitmap EXCEPT ![p] = @ \ fds]
    BY DEF CloseFds
  <2> QED BY <1>t, <1>1, <2>1, <2>2, <2>3 DEF RowOnly, TypeOK
<1>3. ASSUME NEW f \in Files
      PROVE  -Of(p, fds)[f] = Cardinality(Here(files', p, fds, f)) - Cardinality(Here(files, p, fds, f))
  <2>1. Here(files', p, fds, f) = {}
    BY <1>1, FilesAssumption DEF Here
  <2>2. Cardinality(Here(files', p, fds, f)) = 0
    BY <2>1, FS_EmptySet
  <2>3. Of(p, fds)[f] = Cardinality(Here(files, p, fds, f))
    BY DEF Of, Here
  <2>4. Cardinality(Here(files, p, fds, f)) \in Nat
    BY RefsFinite, <<>> \in Seq({})
  <2> QED BY <2>2, <2>3, <2>4
<1>4. refs' = [f \in Files |-> refs[f] + (Cardinality(Here(files', p, fds, f))
                                         - Cardinality(Here(files, p, fds, f)))]
  <2>1. refs' = [f \in Files |-> refs[f] + -Of(p, fds)[f]]
    BY DEF CloseFds, Count
  <2> QED BY <1>3, <2>1
<1>5. Accounts(p, fds)
  BY <1>u, <1>1, <1>4 DEF Accounts
<1> QED BY <1>2, <1>5, TableStep

LEMMA CopyStep ==
  ASSUME Inv, NEW p \in Tables, NEW src \in Tables, Copy(p, src)
  PROVE  Inv'
<1>t. TypeOK
  BY DEF Inv
<1>1. PICK fds \in SUBSET Fds :
        /\ fds \subseteq OpenFds(src) /\ p # src
        /\ files' = [files EXCEPT ![p] = [fd \in Fds |-> IF fd \in fds THEN files[src][fd] ELSE @[fd]]]
        /\ bitmap' = [bitmap EXCEPT ![p] = @ \cup fds]
        /\ Count([f \in Files |-> Of(src, fds)[f] - Of(p, fds)[f]])
        /\ UNCHANGED <<private, using, keys>>
  <2>1. PICK max \in 1..MaxFd :
          LET fds == {fd \in OpenFds(src) : fd < max} IN
          /\ p # src /\ fds # {}
          /\ files' = [files EXCEPT ![p] = [fd \in Fds |-> IF fd \in fds THEN files[src][fd] ELSE @[fd]]]
          /\ bitmap' = [bitmap EXCEPT ![p] = @ \cup fds]
          /\ Count([f \in Files |-> Of(src, fds)[f] - Of(p, fds)[f]])
          /\ UNCHANGED <<private, using, keys>>
    BY DEF Copy
  <2>2. {fd \in OpenFds(src) : fd < max} \in SUBSET Fds
    BY DEF OpenFds
  <2> QED BY <2>1, <2>2, Zenon
<1>u. UNCHANGED <<using, keyList, shared, uptime>> /\ Freed
  BY <1>1 DEF Count, keys, Freed
<1>2. \A fd \in fds : files'[p][fd] = files[src][fd] /\ files[src][fd] # None
  BY <1>t, <1>1 DEF TypeOK, OpenFds
<1>3. RowOnly(p, fds)
  <2>1. files' \in [Tables -> [Fds -> Files \cup {None}]]
    BY <1>t, <1>1 DEF TypeOK
  <2>2. \A q \in Tables, fd \in Fds : q # p \/ fd \notin fds => files'[q][fd] = files[q][fd]
    BY <1>t, <1>1 DEF TypeOK
  <2>3. bitmap' = [bitmap EXCEPT ![p] = @ \cup fds]
    BY <1>1
  <2> QED BY <1>t, <1>2, <2>1, <2>2, <2>3 DEF RowOnly, TypeOK
<1>4. refs' = [f \in Files |-> refs[f] + (Cardinality(Here(files', p, fds, f))
                                         - Cardinality(Here(files, p, fds, f)))]
  <2>1. refs' = [f \in Files |-> refs[f] + (Of(src, fds)[f] - Of(p, fds)[f])]
    BY <1>1 DEF Count
  <2>2. ASSUME NEW f \in Files
        PROVE  /\ Of(src, fds)[f] = Cardinality(Here(files', p, fds, f))
               /\ Of(p, fds)[f] = Cardinality(Here(files, p, fds, f))
    <3>1. Here(files', p, fds, f) = {fd \in fds : files[src][fd] = f}
      BY <1>2 DEF Here
    <3> QED BY <3>1 DEF Of, Here
  <2> QED BY <2>1, <2>2
<1>5. \A fd \in fds : files'[p][fd] # None => mem[files'[p][fd]] = "open"
  BY <1>2, Referred
<1>6. Accounts(p, fds)
  BY <1>u, <1>4, <1>5 DEF Accounts
<1> QED BY <1>3, <1>6, TableStep

\* The file of one descriptor becomes that of another one, too.
LEMMA DupStep ==
  ASSUME Inv, NEW p \in Tables, NEW old \in OpenFds(p), NEW new \in Fds,
         files' = [files EXCEPT ![p][new] = files[p][old]],
         bitmap' = [bitmap EXCEPT ![p] = @ \cup {new}],
         refs' = [f \in Files |-> refs[f] + (One(files[p][old], 1)[f] - Of(p, {new})[f])],
         Freed, UNCHANGED <<using, keyList, shared, uptime>>
  PROVE  Inv'
<1>t. TypeOK /\ old \in Fds /\ files[p][old] # None
  BY DEF Inv, OpenFds
<1>n. {new} \in SUBSET Fds
  OBVIOUS
<1>1. files'[p][new] = files[p][old]
  BY <1>t DEF TypeOK
<1>2. RowOnly(p, {new})
  <2>1. files' \in [Tables -> [Fds -> Files \cup {None}]]
    BY <1>t DEF TypeOK
  <2>2. \A q \in Tables, fd \in Fds : q # p \/ fd \notin {new} => files'[q][fd] = files[q][fd]
    BY <1>t DEF TypeOK
  <2> QED BY <1>t, <1>1, <2>1, <2>2 DEF RowOnly, TypeOK
<1>3. ASSUME NEW f \in Files
      PROVE  /\ One(files[p][old], 1)[f] = Cardinality(Here(files', p, {new}, f))
             /\ Of(p, {new})[f] = Cardinality(Here(files, p, {new}, f))
  <2>1. Here(files', p, {new}, f) = IF files[p][old] = f THEN {new} ELSE {}
    BY <1>1 DEF Here
  <2>2. Cardinality({new}) = 1 /\ Cardinality({}) = 0
    BY FS_Singleton, FS_EmptySet
  <2>3. One(files[p][old], 1)[f] = IF files[p][old] = f THEN 1 ELSE 0
    BY DEF One
  <2>4. Of(p, {new})[f] = Cardinality(Here(files, p, {new}, f))
    BY DEF Of, Here
  <2> QED BY <2>1, <2>2, <2>3, <2>4
<1>4. refs' = [f \in Files |-> refs[f] + (Cardinality(Here(files', p, {new}, f))
                                         - Cardinality(Here(files, p, {new}, f)))]
  BY <1>3
<1>5. \A fd \in {new} : files'[p][fd] # None => mem[files'[p][fd]] = "open"
  BY <1>t, <1>1, Referred
<1>6. Accounts(p, {new})
  BY <1>4, <1>5 DEF Accounts
<1> QED BY <1>n, <1>2, <1>6, TableStep

LEMMA DupsStep ==
  ASSUME Inv, NEW p \in Tables, Dup(p) \/ Dup2(p)
  PROVE  Inv'
<1>t. TypeOK
  BY DEF Inv
<1>1. CASE Dup(p)
  <2>1. PICK old \in OpenFds(p) :
          /\ bitmap[p] # Fds
          /\ files' = [files EXCEPT ![p][FirstClear(p)] = files[p][old]]
          /\ bitmap' = [bitmap EXCEPT ![p] = @ \cup {FirstClear(p)}]
          /\ Count(One(files[p][old], 1))
          /\ UNCHANGED <<private, using, keys>>
    BY <1>1 DEF Dup
  <2>2. PICK new \in Fds \ bitmap[p] : new = FirstClear(p)
    BY <1>t, <2>1, FirstClearFree
  <2>3. files[p][new] = None
    BY <2>2, CountedMeans DEF Inv, OpenFds
  <2>4. \A f \in Files : Of(p, {new})[f] = 0
    <3> SUFFICES ASSUME NEW f \in Files PROVE Of(p, {new})[f] = 0
      OBVIOUS
    <3>1. {fd \in {new} : files[p][fd] = f} = {}
      BY <2>3, FilesAssumption
    <3>2. Cardinality({}) = 0
      BY FS_EmptySet
    <3> QED BY <3>1, <3>2 DEF Of
  <2>5. \A f \in Files : One(files[p][old], 1)[f] \in Int
    BY DEF One
  <2>6. refs' = [f \in Files |-> refs[f] + One(files[p][old], 1)[f]]
    BY <2>1 DEF Count
  <2>7. refs' = [f \in Files |-> refs[f] + (One(files[p][old], 1)[f] - Of(p, {new})[f])]
    <3>1. \A f \in Files : One(files[p][old], 1)[f] - Of(p, {new})[f] = One(files[p][old], 1)[f]
      BY <2>4, <2>5
    <3> QED BY <2>6, <3>1
  <2>8. Freed /\ UNCHANGED <<using, keyList, shared, uptime>>
    BY <2>1 DEF Count, keys, Freed
  <2> QED BY <2>1, <2>2, <2>7, <2>8, DupStep
<1>2. CASE Dup2(p)
  <2>1. PICK old \in OpenFds(p) : \E new \in Fds \ {old} :
          /\ files' = [files EXCEPT ![p][new] = files[p][old]]
          /\ bitmap' = [bitmap EXCEPT ![p] = @ \cup {new}]
          /\ Count([f \in Files |-> One(files[p][old], 1)[f] - Of(p, {new})[f]])
          /\ UNCHANGED <<private, using, keys>>
    BY <1>2 DEF Dup2
  <2>2. PICK new \in Fds \ {old} :
          /\ files' = [files EXCEPT ![p][new] = files[p][old]]
          /\ bitmap' = [bitmap EXCEPT ![p] = @ \cup {new}]
          /\ Count([f \in Files |-> One(files[p][old], 1)[f] - Of(p, {new})[f]])
          /\ UNCHANGED <<private, using, keys>>
    BY <2>1
  <2>3. refs' = [f \in Files |-> refs[f] + (One(files[p][old], 1)[f] - Of(p, {new})[f])]
    BY <2>2 DEF Count
  <2>4. Freed /\ UNCHANGED <<using, keyList, shared, uptime>>
    BY <2>2 DEF Count, keys, Freed
  <2> QED BY <2>2, <2>3, <2>4, DupStep
<1> QED BY <1>1, <1>2

\* A new file has one reference.
LEMMA OpenStep ==
  ASSUME Inv, NEW p \in Tables, Open(p)
  PROVE  Inv'
<1>t. TypeOK
  BY DEF Inv
<1>1. PICK o \in Files : \E priv \in BOOLEAN :
        /\ mem[o] = "none" /\ bitmap[p] # Fds
        /\ mem' = [mem EXCEPT ![o] = "open"] /\ refs' = [refs EXCEPT ![o] = 1]
        /\ private' = IF priv THEN private \cup {o} ELSE private
        /\ files' = [files EXCEPT ![p][FirstClear(p)] = o]
        /\ bitmap' = [bitmap EXCEPT ![p] = @ \cup {FirstClear(p)}]
        /\ UNCHANGED <<using, keys>>
  BY DEF Open
<1>2. PICK new \in Fds \ bitmap[p] : new = FirstClear(p)
  BY <1>t, <1>1, FirstClearFree
<1>u. UNCHANGED <<using, keyList, shared, uptime>>
  BY <1>1 DEF keys
<1>3. files[p][new] = None /\ files'[p][new] = o
  BY <1>t, <1>1, <1>2, CountedMeans DEF Inv, OpenFds, TypeOK
<1>4. RowOnly(p, {new})
  <2>1. files' \in [Tables -> [Fds -> Files \cup {None}]]
    BY <1>t, <1>1, <1>2 DEF TypeOK
  <2>2. \A q \in Tables, fd \in Fds : q # p \/ fd \notin {new} => files'[q][fd] = files[q][fd]
    BY <1>t, <1>1, <1>2 DEF TypeOK
  <2>3. files'[p][new] # None
    BY <1>3, FilesAssumption
  <2> QED BY <1>t, <1>1, <1>2, <2>1, <2>2, <2>3 DEF RowOnly, TypeOK
<1>5. TypeOK'
  BY <1>t, <1>1, <1>4, <1>u DEF TypeOK, RowOnly
<1>6. ASSUME NEW f \in Files PROVE refs'[f] = Total(f)' /\ (mem'[f] = "open" <=> refs'[f] > 0)
  <2> DEFINE c == Cardinality(Slots(files, f))
             d == Cardinality(Slots(files', f))
             k == Cardinality(Callers(using, f))
             m == Cardinality(Keys(keyList, f))
  <2>1. refs[f] = Total(f) /\ (mem[f] = "open" <=> refs[f] > 0)
    BY CountedMeans DEF Inv
  <2>2. c \in Nat /\ k \in Nat /\ m \in Nat /\ Total(f) = c + k + m
    BY <1>t, TotalNat DEF Total
  <2>3. Total(f)' = d + k + m
    BY <1>u DEF Total, Slots, Callers, Keys
  <2>4. d = c - Cardinality(Here(files, p, {new}, f)) + Cardinality(Here(files', p, {new}, f))
    BY <1>4, SlotsChange DEF RowOnly
  <2>5. Cardinality({new}) = 1 /\ Cardinality({}) = 0
    BY FS_Singleton, FS_EmptySet
  <2>6. Here(files, p, {new}, f) = {} /\ Here(files', p, {new}, f) = IF o = f THEN {new} ELSE {}
    BY <1>3, FilesAssumption DEF Here
  <2>7. d = IF o = f THEN c + 1 ELSE c
    <3>1. Cardinality(Here(files, p, {new}, f)) = 0
      BY <2>5, <2>6
    <3>2. Cardinality(Here(files', p, {new}, f)) = IF o = f THEN 1 ELSE 0
      BY <2>5, <2>6
    <3> HIDE DEF c, d, k, m
    <3> QED BY <2>2, <2>4, <3>1, <3>2
  <2> HIDE DEF c, d, k, m
  <2>8. CASE o = f
    <3>1. mem'[f] = "open" /\ refs'[f] = 1 /\ mem[f] # "open"
      BY <1>1, <1>t, <2>8 DEF TypeOK
    <3> QED BY <2>1, <2>2, <2>3, <2>7, <2>8, <3>1
  <2>9. CASE o # f
    <3>1. mem'[f] = mem[f] /\ refs'[f] = refs[f]
      BY <1>1, <1>t, <2>9 DEF TypeOK
    <3> QED BY <2>1, <2>2, <2>3, <2>7, <2>9, <3>1
  <2> QED BY <2>8, <2>9
<1>7. \A q \in Tables : bitmap'[q] = OpenFds(q)'
  <2>1. {new} \in SUBSET Fds
    OBVIOUS
  <2> QED BY <1>4, <2>1, BitmapKept
<1>8. ReferencesCounted'
  BY <1>6, <1>7 DEF ReferencesCounted, Total, Slots, Callers, Keys
<1> QED BY <1>5, <1>8 DEF Inv

-----------------------------------------------------------------------------
(* System calls at work, and keys *)

\* A step that leaves the tables alone.
LEMMA CountStep ==
  ASSUME Inv, TypeOK', Freed, UNCHANGED <<files, bitmap>>,
         \A f \in Files : /\ refs'[f] - refs[f] = Total(f)' - Total(f)
                          /\ refs'[f] > refs[f] => mem[f] = "open"
  PROVE  Inv'
<1>1. \A f \in Files : refs'[f] = Total(f)' /\ (mem'[f] = "open" <=> refs'[f] > 0)
  BY Recount
<1>2. \A q \in Tables : bitmap'[q] = OpenFds(q)'
  BY CountedMeans DEF Inv, OpenFds
<1>3. ReferencesCounted'
  BY <1>1, <1>2 DEF ReferencesCounted, Total, Slots, Callers, Keys
<1> QED BY <1>3 DEF Inv

\* What Count() does, for one file.
LEMMA CountOne ==
  ASSUME TypeOK, NEW g \in Files, NEW n \in Int, Count(One(g, n))
  PROVE  /\ Freed /\ refs' \in [Files -> Int]
         /\ mem' \in [Files -> {"none", "open", "freed"}]
         /\ \A f \in Files : refs'[f] = refs[f] + (IF f = g THEN n ELSE 0)
<1>1. \A f \in Files : One(g, n)[f] = (IF f = g THEN n ELSE 0) /\ One(g, n)[f] \in Int
  BY DEF One
<1>2. refs' = [f \in Files |-> refs[f] + One(g, n)[f]] /\ Freed
  BY DEF Count, Freed
<1>3. mem' \in [Files -> {"none", "open", "freed"}]
  BY <1>2 DEF Freed, TypeOK
<1> QED BY <1>1, <1>2, <1>3 DEF TypeOK

LEMMA GetPutStep ==
  ASSUME Inv, NEW p \in Tables, Get(p) \/ Put(p)
  PROVE  Inv'
<1>t. TypeOK
  BY DEF Inv
<1>u. UNCHANGED <<files, bitmap, keyList, shared, uptime>>
  BY DEF Get, Put, keys
<1>1. PICK g \in Files, n \in {1, -1} :
        /\ Count(One(g, n)) /\ mem[g] = "open"
        /\ n = 1 => using[p] = None /\ using' = [using EXCEPT ![p] = g]
        /\ n = -1 => using[p] = g /\ using' = [using EXCEPT ![p] = None]
  <2>1. CASE Get(p)
    <3>1. PICK fd \in OpenFds(p) :
            /\ using[p] = None /\ using' = [using EXCEPT ![p] = files[p][fd]]
            /\ Count(One(files[p][fd], 1))
      BY <2>1 DEF Get
    <3>2. files[p][fd] \in Files /\ mem[files[p][fd]] = "open"
      BY Referred DEF OpenFds
    <3>3. PICK g \in Files : g = files[p][fd]
      BY <3>2
    <3>4. Count(One(g, 1)) /\ mem[g] = "open" /\ using[p] = None /\ using' = [using EXCEPT ![p] = g]
      BY <3>1, <3>2, <3>3
    <3>5. 1 \in {1, -1} /\ 1 # -1
      OBVIOUS
    <3> QED BY <3>4, <3>5, Zenon
  <2>2. CASE Put(p)
    <3>1. using[p] # None /\ using' = [using EXCEPT ![p] = None] /\ Count(One(using[p], -1))
      BY <2>2 DEF Put
    <3>2. using[p] \in Files /\ mem[using[p]] = "open"
      BY <3>1, Referred
    <3>3. PICK g \in Files : g = using[p]
      BY <3>2
    <3>4. Count(One(g, -1)) /\ mem[g] = "open" /\ using[p] = g /\ using' = [using EXCEPT ![p] = None]
      BY <3>1, <3>2, <3>3
    <3>5. -1 \in {1, -1} /\ -1 # 1
      OBVIOUS
    <3> QED BY <3>4, <3>5, Zenon
  <2> QED BY <2>1, <2>2
<1>2. /\ Freed /\ refs' \in [Files -> Int] /\ mem' \in [Files -> {"none", "open", "freed"}]
      /\ \A f \in Files : refs'[f] = refs[f] + (IF f = g THEN n ELSE 0)
  BY <1>t, <1>1, CountOne
<1>3. using' \in [Tables -> Files \cup {None}]
  BY <1>t, <1>1 DEF TypeOK
<1>4. TypeOK'
  BY <1>t, <1>u, <1>2, <1>3 DEF TypeOK
<1>5. ASSUME NEW f \in Files
      PROVE  /\ refs'[f] - refs[f] = Total(f)' - Total(f)
             /\ refs'[f] > refs[f] => mem[f] = "open"
  <2> DEFINE c == Cardinality(Slots(files, f))
             k == Cardinality(Callers(using, f))
             l == Cardinality(Callers(using', f))
             m == Cardinality(Keys(keyList, f))
  <2>1. refs[f] \in Int /\ refs'[f] = refs[f] + (IF f = g THEN n ELSE 0)
    BY <1>t, <1>2 DEF TypeOK
  <2>2. c \in Nat /\ k \in Nat /\ m \in Nat /\ Total(f) = c + k + m
    BY <1>t, TotalNat DEF Total
  <2>3. Total(f)' = c + l + m
    BY <1>u DEF Total, Slots, Callers, Keys
  <2>4. OnlyOf(using, using', p)
    BY <1>t, <1>1 DEF TypeOK, OnlyOf
  <2>5. l = k - (IF using[p] = f THEN 1 ELSE 0) + (IF using'[p] = f THEN 1 ELSE 0)
    BY <2>4, CallersChange
  <2>6. /\ n = 1 => using[p] = None /\ using'[p] = g
        /\ n = -1 => using[p] = g /\ using'[p] = None
    BY <1>t, <1>1 DEF TypeOK
  <2>7. f # None
    BY FilesAssumption
  <2> HIDE DEF c, k, l, m
  <2>8. l = k + (IF f = g THEN n ELSE 0)
    BY <2>2, <2>5, <2>6, <2>7
  <2>9. (IF f = g THEN n ELSE 0) \in Int
    OBVIOUS
  <2>10. refs'[f] - refs[f] = Total(f)' - Total(f)
    BY <2>1, <2>2, <2>3, <2>8, <2>9
  <2>11. refs'[f] > refs[f] => f = g
    BY <2>1
  <2> QED BY <1>1, <2>10, <2>11
<1> QED BY <1>u, <1>2, <1>4, <1>5, CountStep

LEMMA ShareStep ==
  ASSUME Inv, NEW p \in Tables, Share(p)
  PROVE  Inv'
<1>t. TypeOK /\ keyList \in Seq(Entry)
  BY DEF Inv, TypeOK
<1>1. PICK timeout \in Timeouts, i \in 1..(Len(keyList) + 1) :
        /\ using[p] # None /\ shared' = shared + 1
        /\ keyList' = InsertAt(keyList, i,
                        [key |-> shared + 1, file |-> using[p], expiry |-> uptime + timeout])
        /\ Count(One(using[p], 1))
        /\ UNCHANGED <<private, files, bitmap, using, late, uptime>>
  BY DEF Share
<1> DEFINE e == [key |-> shared + 1, file |-> using[p], expiry |-> uptime + timeout]
<1>2. using[p] \in Files /\ mem[using[p]] = "open"
  BY <1>1, Referred
<1>3. e \in Entry /\ e.file = using[p]
  BY <1>t, <1>2, FilesAssumption DEF TypeOK, Entry
<1>4. keyList' = InsertAt(keyList, i, e)
  BY <1>1
<1> HIDE DEF e
<1>5. keyList' \in Seq(Entry) /\ Longer(keyList', keyList, i) /\ keyList'[i] = e
  BY <1>t, <1>3, <1>4, Inserted
<1>6. /\ Freed /\ refs' \in [Files -> Int] /\ mem' \in [Files -> {"none", "open", "freed"}]
      /\ \A f \in Files : refs'[f] = refs[f] + (IF f = using[p] THEN 1 ELSE 0)
  <2>1. PICK g \in Files : g = using[p]
    BY <1>2
  <2>2. Count(One(g, 1))
    BY <1>1, <2>1
  <2> QED BY <1>t, <2>1, <2>2, CountOne
<1>7. TypeOK'
  BY <1>t, <1>1, <1>5, <1>6 DEF TypeOK
<1>8. ASSUME NEW f \in Files
      PROVE  /\ refs'[f] - refs[f] = Total(f)' - Total(f)
             /\ refs'[f] > refs[f] => mem[f] = "open"
  <2> DEFINE c == Cardinality(Slots(files, f))
             k == Cardinality(Callers(using, f))
             m == Cardinality(Keys(keyList, f))
             n == Cardinality(Keys(keyList', f))
  <2>1. refs[f] \in Int /\ refs'[f] = refs[f] + (IF f = using[p] THEN 1 ELSE 0)
    BY <1>t, <1>6 DEF TypeOK
  <2>2. c \in Nat /\ k \in Nat /\ m \in Nat /\ Total(f) = c + k + m
    BY <1>t, TotalNat DEF Total
  <2>3. Total(f)' = c + k + n
    BY <1>1 DEF Total, Slots, Callers, Keys
  <2>4. n = m + (IF keyList'[i].file = f THEN 1 ELSE 0)
    BY <1>t, <1>5, KeysChange
  <2> HIDE DEF c, k, m, n
  <2> QED BY <1>2, <1>3, <1>5, <2>1, <2>2, <2>3, <2>4
<1> QED BY <1>1, <1>6, <1>7, <1>8, CountStep

\* The reference of a key goes to the table, or is dropped.
LEMMA ClaimStep ==
  ASSUME Inv, NEW p \in Tables, Claim(p)
  PROVE  Inv'
<1>t. TypeOK /\ keyList \in Seq(Entry)
  BY DEF Inv, TypeOK
<1>1. PICK i \in 1..Len(keyList) :
        /\ keyList' = RemoveAt(keyList, i)
        /\ IF bitmap[p] = Fds
           THEN Count(One(keyList[i].file, -1)) /\ UNCHANGED <<files, bitmap>>
           ELSE /\ files' = [files EXCEPT ![p][FirstClear(p)] = keyList[i].file]
                /\ bitmap' = [bitmap EXCEPT ![p] = @ \cup {FirstClear(p)}]
                /\ UNCHANGED <<mem, refs>>
        /\ UNCHANGED <<private, using, shared, uptime>>
  BY DEF Claim
<1>2. PICK g \in Files : g = keyList[i].file /\ mem[g] = "open"
  BY Referred
<1>3. keyList' \in Seq(Entry) /\ Longer(keyList, keyList', i)
  BY <1>t, <1>1, Removed
<1>4. ASSUME NEW f \in Files
      PROVE  /\ Cardinality(Keys(keyList', f)) \in Nat
             /\ Cardinality(Keys(keyList, f))
                  = Cardinality(Keys(keyList', f)) + (IF f = g THEN 1 ELSE 0)
  <2>1. /\ Cardinality(Keys(keyList', f)) \in Nat
        /\ Cardinality(Keys(keyList, f))
             = Cardinality(Keys(keyList', f)) + (IF keyList[i].file = f THEN 1 ELSE 0)
    BY <1>t, <1>3, KeysChange
  <2> QED BY <1>2, <2>1
<1>5. CASE bitmap[p] = Fds
  <2>u. UNCHANGED <<files, bitmap, using, shared, uptime>>
    BY <1>1, <1>5
  <2>1. Count(One(g, -1))
    BY <1>1, <1>2, <1>5
  <2>2. /\ Freed /\ refs' \in [Files -> Int] /\ mem' \in [Files -> {"none", "open", "freed"}]
        /\ \A f \in Files : refs'[f] = refs[f] + (IF f = g THEN -1 ELSE 0)
    BY <1>t, <2>1, CountOne
  <2>3. TypeOK'
    BY <1>t, <1>3, <2>u, <2>2 DEF TypeOK
  <2>4. ASSUME NEW f \in Files
        PROVE  /\ refs'[f] - refs[f] = Total(f)' - Total(f)
               /\ refs'[f] > refs[f] => mem[f] = "open"
    <3> DEFINE c == Cardinality(Slots(files, f))
               k == Cardinality(Callers(using, f))
               m == Cardinality(Keys(keyList, f))
               n == Cardinality(Keys(keyList', f))
    <3>1. refs[f] \in Int /\ refs'[f] = refs[f] + (IF f = g THEN -1 ELSE 0)
      BY <1>t, <2>2 DEF TypeOK
    <3>2. c \in Nat /\ k \in Nat /\ m \in Nat /\ Total(f) = c + k + m
      BY <1>t, TotalNat DEF Total
    <3>3. Total(f)' = c + k + n
      BY <2>u DEF Total, Slots, Callers, Keys
    <3>4. n \in Nat /\ m = n + (IF f = g THEN 1 ELSE 0)
      BY <1>4
    <3> HIDE DEF c, k, m, n
    <3> QED BY <3>1, <3>2, <3>3, <3>4
  <2> QED BY <2>u, <2>2, <2>3, <2>4, CountStep
<1>6. CASE bitmap[p] # Fds
  <2>1. PICK new \in Fds \ bitmap[p] : new = FirstClear(p)
    BY <1>t, <1>6, FirstClearFree
  <2>2. /\ files' = [files EXCEPT ![p][new] = g] /\ bitmap' = [bitmap EXCEPT ![p] = @ \cup {new}]
        /\ UNCHANGED <<mem, refs, using, shared, uptime>>
    BY <1>1, <1>2, <1>6, <2>1
  <2>3. files[p][new] = None /\ files'[p][new] = g
    BY <1>t, <2>1, <2>2, CountedMeans DEF Inv, OpenFds, TypeOK
  <2>4. RowOnly(p, {new})
    <3>1. files' \in [Tables -> [Fds -> Files \cup {None}]]
      BY <1>t, <2>2 DEF TypeOK
    <3>2. \A q \in Tables, fd \in Fds : q # p \/ fd \notin {new} => files'[q][fd] = files[q][fd]
      BY <1>t, <2>2 DEF TypeOK
    <3>3. files'[p][new] # None
      BY <2>3, FilesAssumption
    <3> QED BY <1>t, <2>2, <3>1, <3>2, <3>3 DEF RowOnly, TypeOK
  <2>5. TypeOK'
    BY <1>t, <1>3, <2>2, <2>4 DEF TypeOK, RowOnly
  <2>6. ASSUME NEW f \in Files PROVE refs'[f] = Total(f)' /\ (mem'[f] = "open" <=> refs'[f] > 0)
    <3> DEFINE c == Cardinality(Slots(files, f))
               d == Cardinality(Slots(files', f))
               k == Cardinality(Callers(using, f))
               m == Cardinality(Keys(keyList, f))
               n == Cardinality(Keys(keyList', f))
    <3>1. refs[f] = Total(f) /\ (mem[f] = "open" <=> refs[f] > 0)
      BY CountedMeans DEF Inv
    <3>2. c \in Nat /\ k \in Nat /\ m \in Nat /\ Total(f) = c + k + m
      BY <1>t, TotalNat DEF Total
    <3>3. Total(f)' = d + k + n
      BY <2>2 DEF Total, Slots, Callers, Keys
    <3>4. n \in Nat /\ m = n + (IF f = g THEN 1 ELSE 0)
      BY <1>4
    <3>5. d = c - Cardinality(Here(files, p, {new}, f)) + Cardinality(Here(files', p, {new}, f))
      BY <2>4, SlotsChange DEF RowOnly
    <3>6. Here(files, p, {new}, f) = {} /\ Here(files', p, {new}, f) = IF f = g THEN {new} ELSE {}
      BY <2>3, FilesAssumption DEF Here
    <3>7. Cardinality({new}) = 1 /\ Cardinality({}) = 0
      BY FS_Singleton, FS_EmptySet
    <3>8. Cardinality(Here(files, p, {new}, f)) = 0
      BY <3>6, <3>7
    <3>9. Cardinality(Here(files', p, {new}, f)) = IF f = g THEN 1 ELSE 0
      BY <3>6, <3>7
    <3> HIDE DEF c, d, k, m, n
    <3>10. Total(f)' = Total(f)
      BY <3>2, <3>3, <3>4, <3>5, <3>8, <3>9
    <3> QED BY <2>2, <3>1, <3>10
  <2>7. \A q \in Tables : bitmap'[q] = OpenFds(q)'
    <3>1. {new} \in SUBSET Fds
      OBVIOUS
    <3> QED BY <2>4, <3>1, BitmapKept
  <2>8. ReferencesCounted'
    BY <2>6, <2>7 DEF ReferencesCounted, Total, Slots, Callers, Keys
  <2> QED BY <2>5, <2>8 DEF Inv
<1> QED BY <1>5, <1>6

-----------------------------------------------------------------------------
(* Results *)

\* Every way to close descriptors.
LEMMA ClosesStep ==
  ASSUME Inv, NEW p \in Tables, Close(p) \/ CloseAll(p) \/ CloseMode(p) \/ CloseRange(p)
  PROVE  Inv'
<1>1. PICK fds \in SUBSET Fds : CloseFds(p, fds)
  <2>1. CASE Close(p)
    <3>1. PICK fd \in OpenFds(p) : CloseFds(p, {fd})
      BY <2>1 DEF Close
    <3>2. {fd} \in SUBSET Fds
      BY DEF OpenFds
    <3> QED BY <3>1, <3>2, Zenon
  <2>2. CASE CloseAll(p)
    <3>1. OpenFds(p) \in SUBSET Fds
      BY DEF OpenFds
    <3> QED BY <2>2, <3>1, Zenon DEF CloseAll
  <2>3. CASE CloseMode(p)
    <3>1. {fd \in OpenFds(p) : files[p][fd] \in private} \in SUBSET Fds
      BY DEF OpenFds
    <3> QED BY <2>3, <3>1, Zenon DEF CloseMode
  <2>4. CASE CloseRange(p)
    <3>1. PICK min, max \in 0..MaxFd : CloseFds(p, {fd \in OpenFds(p) : min <= fd /\ fd < max})
      BY <2>4 DEF CloseRange
    <3>2. {fd \in OpenFds(p) : min <= fd /\ fd < max} \in SUBSET Fds
      BY DEF OpenFds
    <3> QED BY <3>1, <3>2, Zenon
  <2> QED BY <2>1, <2>2, <2>3, <2>4
<1> QED BY <1>1, CloseStep

\* Every step keeps the invariant.
LEMMA InvStep == Inv /\ [Next]_vars => Inv'
<1> SUFFICES ASSUME Inv, [Next]_vars PROVE Inv'
  OBVIOUS
<1>1. CASE UNCHANGED vars
  BY <1>1 DEF vars, keys, Inv, TypeOK, ReferencesCounted, OpenFds
<1>2. CASE Tick
  <2>1. TypeOK'
    BY <1>2 DEF Tick, Inv, TypeOK
  <2>2. ReferencesCounted'
    BY <1>2 DEF Tick, Inv, ReferencesCounted, OpenFds
  <2> QED BY <2>1, <2>2 DEF Inv
<1>3. ASSUME NEW p \in Tables, Open(p) PROVE Inv'
  BY <1>3, OpenStep
<1>4. ASSUME NEW p \in Tables, Close(p) \/ CloseAll(p) \/ CloseMode(p) \/ CloseRange(p) PROVE Inv'
  BY <1>4, ClosesStep
<1>5. ASSUME NEW p \in Tables, Dup(p) \/ Dup2(p) PROVE Inv'
  BY <1>5, DupsStep
<1>6. ASSUME NEW p \in Tables, Get(p) \/ Put(p) PROVE Inv'
  BY <1>6, GetPutStep
<1>7. ASSUME NEW p \in Tables, Share(p) PROVE Inv'
  BY <1>7, ShareStep
<1>8. ASSUME NEW p \in Tables, Claim(p) PROVE Inv'
  BY <1>8, ClaimStep
<1>9. ASSUME NEW p \in Tables, NEW src \in Tables, Copy(p, src) PROVE Inv'
  BY <1>9, CopyStep
<1> QED BY <1>1, <1>2, <1>3, <1>4, <1>5, <1>6, <1>7, <1>8, <1>9 DEF Next

\* Nothing is open at the start.
LEMMA InvInit == Init => Inv
<1> SUFFICES ASSUME Init PROVE Inv
  OBVIOUS
<1>1. TypeOK
  BY DEF Init, TypeOK
<1>2. ASSUME NEW f \in Files PROVE Total(f) = 0
  <2>1. Slots(files, f) = {}
    BY FilesAssumption DEF Init, Slots
  <2>2. Callers(using, f) = {}
    BY FilesAssumption DEF Init, Callers
  <2>3. Keys(keyList, f) = {}
    BY DEF Init, Keys
  <2>4. Cardinality({}) = 0
    BY FS_EmptySet
  <2> QED BY <2>1, <2>2, <2>3, <2>4 DEF Total
<1>3. \A f \in Files : refs[f] = 0 /\ mem[f] = "none"
  BY DEF Init
<1>4. \A p \in Tables : bitmap[p] = OpenFds(p)
  BY DEF Init, OpenFds
<1>5. ReferencesCounted
  BY <1>2, <1>3, <1>4, CountedMeans
<1> QED BY <1>1, <1>5 DEF Inv

\* Whatever processes open, close, duplicate, inherit and share (file_table.c, key.c): a file
\* has exactly the references that descriptors, keys and running system calls have to it,
\* and is freed with the last one.
THEOREM FilesCounted == Spec => []ReferencesCounted
<1>1. Inv => ReferencesCounted
  BY DEF Inv
<1> QED BY <1>1, InvInit, InvStep, PTL DEF Spec
=============================================================================
