----------------------------- MODULE TlbProofs ------------------------------
(***************************************************************************)
(* Proofs about the shootdown of translations, for any number of CPUs,     *)
(* spaces and frames.  The space of the kernel is not unmapped: its        *)
(* translations are cached by CPUs that have another space loaded, which   *)
(* nobody tells.                                                           *)
(***************************************************************************)
EXTENDS Tlb, FiniteSetTheorems, TLAPS

In(x, q) == \E i \in 1..Len(q) : q[i] = x

\* No element of q comes twice.
Distinct(q) == \A i, j \in 1..Len(q) : q[i] = q[j] => i = j

Stages == {"run", "alloc", "unmap", "push", "send", "ipi", "leave", "enter", "cr3"}
Entries == [space : AllSpaces, frame : Frames]

TlbType ==
  /\ pte \in [AllSpaces -> Frames \cup {None}] /\ spaceLock \in [AllSpaces -> Cores \cup {None}]
  /\ cpus \in [AllSpaces -> SUBSET Cores] /\ acks \in [AllSpaces -> Nat]
  /\ current \in [Cores -> AllSpaces \cup {None}] /\ cr3 \in [Cores -> AllSpaces]
  /\ tlb \in [Cores -> SUBSET Entries] /\ shootdowns \in [Cores -> Seq(AllSpaces)]
  /\ stage \in [Cores -> Stages] /\ target \in [Cores -> AllSpaces \cup {None}]
  /\ tell \in [Cores -> Seq(Cores)] /\ expected \in [Cores -> Nat]
  /\ old \in [Cores -> Frames \cup {None}]

\* What the place of a CPU tells of the spaces it deals with.
Placed ==
  \A c \in Cores :
    /\ stage[c] \in {"alloc", "unmap", "push", "send"} =>
         target[c] = cr3[c] /\ target[c] \in Changing
    /\ stage[c] \in {"leave", "enter", "cr3"} => target[c] \in AllSpaces /\ target[c] # cr3[c]
    /\ stage[c] \notin {"enter", "cr3"} => current[c] = cr3[c]
    /\ stage[c] = "enter" => current[c] = None
    /\ stage[c] = "cr3" => current[c] = target[c]
    /\ stage[c] = "send" => tell[c] # <<>>

\* space->cpus has the CPUs whose vmm_cpu_t names the space.
Members == \A s \in AllSpaces : \A c \in Cores : c \in cpus[s] <=> current[c] = s

\* The CPU that unmaps s
Unmappers(s) == {c \in Cores : stage[c] \in {"push", "send"} /\ target[c] = s}

\* The lock of a space is held while somebody unmaps it, and then only.
Locked == \A s \in AllSpaces : \A c \in Cores : spaceLock[s] = c <=> c \in Unmappers(s)

\* A CPU caches translations of the page table it uses, and of no other.
OfTable == \A c \in Cores : \A e \in tlb[c] : e.space = cr3[c] /\ e.space # Kernel

KernelStays == pte[Kernel] = None

\* The CPUs that have been told to drop translations of s and have not done it yet
Asked(s) == {c \in Cores : In(s, shootdowns[c])}

\* The CPUs that c has yet to tell
Untold(c) == {d \in Cores : In(d, IF stage[c] = "send" THEN Tail(tell[c]) ELSE tell[c])}

\* A CPU that is not about to drop all its translations has the current one, or one
\* that it is or will be told to drop.
Current ==
  \A c \in Cores : \A e \in tlb[c] : stage[c] \notin {"enter", "cr3"} =>
    \/ e.frame = pte[e.space]
    \/ \E d \in Cores \ {c} : /\ d \in Unmappers(e.space) /\ old[d] = e.frame
                              /\ c \in Untold(d) \cup Asked(e.space)

\* Nobody is asked twice, or without an unmap.
AskedOnce ==
  /\ \A c \in Cores : Distinct(shootdowns[c]) /\ Distinct(tell[c])
  /\ \A s \in AllSpaces : Unmappers(s) = {} => Asked(s) = {}
  /\ \A s \in AllSpaces : \A c \in Unmappers(s) : Untold(c) \cap Asked(s) = {}

\* The answers, and those that are still to come, are as many as the CPUs that were asked.
Answers ==
  \A s \in AllSpaces : \A c \in Unmappers(s) :
    acks[s] + Cardinality(Asked(s)) = expected[c] + (IF stage[c] = "send" THEN 1 ELSE 0)

Inv ==
  /\ TlbType /\ Placed /\ Members /\ Locked
  /\ OfTable /\ KernelStays /\ Current /\ AskedOnce /\ Answers

-----------------------------------------------------------------------------
(* Sequences without duplicates *)

\* SetToSeq() lists a finite set once.
LEMMA Listed ==
  ASSUME NEW S, IsFiniteSet(S)
  PROVE  /\ SetToSeq(S) \in Seq(S) /\ Distinct(SetToSeq(S))
         /\ \A x \in S : In(x, SetToSeq(S))
<1> DEFINE n == Cardinality(S)
<1>1. n \in Nat
  BY FS_CardinalityType
<1>2. \E f \in [1..n -> S] : IsInjective(f)
  BY FS_CardinalityType, Zenon DEF ExistsBijection, Bijection, Injection
<1>3. SetToSeq(S) \in [1..n -> S] /\ IsInjective(SetToSeq(S))
  BY <1>2, Zenon DEF SetToSeq
<1>4. SetToSeq(S) \in Injection(1..n, S)
  BY <1>3, Zenon DEF Injection
<1>5. Cardinality(1..n) = n /\ IsFiniteSet(1..n)
  BY <1>1, FS_Interval
<1>6. SetToSeq(S) \in Surjection(1..n, S)
  BY <1>4, <1>5, FS_Injection
<1>7. \A x \in S : \E i \in 1..n : SetToSeq(S)[i] = x
  BY <1>6 DEF Surjection
<1> HIDE DEF n
<1>8. SetToSeq(S) \in Seq(S) /\ Len(SetToSeq(S)) = n
  BY <1>1, <1>3
<1> QED BY <1>3, <1>7, <1>8 DEF Distinct, In, IsInjective

\* An element that is not there is appended.
LEMMA Appended ==
  ASSUME NEW S, NEW q \in Seq(S), NEW x \in S, Distinct(q), ~In(x, q)
  PROVE  /\ Append(q, x) \in Seq(S) /\ Distinct(Append(q, x))
         /\ \A y : In(y, Append(q, x)) <=> In(y, q) \/ y = x
<1> DEFINE r == Append(q, x)
<1>1. r \in Seq(S) /\ Len(r) = Len(q) + 1 /\ r[Len(q) + 1] = x
  OBVIOUS
<1>2. \A i \in 1..Len(q) : r[i] = q[i]
  OBVIOUS
<1>3. Len(q) \in Nat
  OBVIOUS
<1> HIDE DEF r
<1>4. Distinct(r)
  BY <1>1, <1>2, <1>3 DEF Distinct, In
<1>5. \A y : In(y, r) <=> In(y, q) \/ y = x
  BY <1>1, <1>2, <1>3 DEF In
<1> QED BY <1>1, <1>4, <1>5 DEF r

\* The first element is taken off.
LEMMA Headless ==
  ASSUME NEW S, NEW q \in Seq(S), q # <<>>, Distinct(q)
  PROVE  /\ Head(q) \in S /\ In(Head(q), q) /\ Tail(q) \in Seq(S) /\ Distinct(Tail(q))
         /\ \A y : In(y, Tail(q)) <=> In(y, q) /\ y # Head(q)
<1> DEFINE r == Tail(q)
<1>1. r \in Seq(S) /\ Len(r) = Len(q) - 1 /\ Head(q) = q[1]
  OBVIOUS
<1>2. \A i \in 1..Len(r) : r[i] = q[i + 1]
  OBVIOUS
<1>3. Len(q) \in Nat /\ Len(q) >= 1 /\ q[1] \in S
  OBVIOUS
<1> HIDE DEF r
<1>4. Distinct(r)
  BY <1>1, <1>2, <1>3 DEF Distinct
<1>5. ASSUME NEW y PROVE In(y, r) => In(y, q) /\ y # q[1]
  BY <1>1, <1>2, <1>3 DEF Distinct, In
<1>6. ASSUME NEW y, In(y, q), y # q[1] PROVE In(y, r)
  <2>1. PICK i \in 1..Len(q) : q[i] = y
    BY <1>6 DEF In
  <2>2. i - 1 \in 1..Len(r) /\ r[i - 1] = y
    BY <1>1, <1>2, <1>3, <1>6, <2>1
  <2> QED BY <2>2 DEF In
<1>7. In(q[1], q)
  BY <1>3 DEF In
<1> QED BY <1>1, <1>3, <1>4, <1>5, <1>6, <1>7 DEF r

\* The last element is taken off.
LEMMA Lastless ==
  ASSUME NEW S, NEW q \in Seq(S), q # <<>>, Distinct(q)
  PROVE  /\ Last(q) \in S /\ In(Last(q), q) /\ Front(q) \in Seq(S) /\ Distinct(Front(q))
         /\ \A y : In(y, Front(q)) <=> In(y, q) /\ y # Last(q)
<1> DEFINE r == Front(q)
<1>1. Len(q) \in Nat /\ Len(q) >= 1 /\ Last(q) = q[Len(q)] /\ q[Len(q)] \in S
  BY DEF Last
<1>2. r \in Seq(S) /\ Len(r) = Len(q) - 1 /\ \A i \in 1..Len(r) : r[i] = q[i]
  <2>1. r = SubSeq(q, 1, Len(q) - 1)
    BY DEF Front
  <2>2. PICK n \in Nat : n = Len(q) - 1
    BY <1>1
  <2>3. /\ SubSeq(q, 1, n) \in Seq(S) /\ Len(SubSeq(q, 1, n)) = n
        /\ \A i \in 1..n : SubSeq(q, 1, n)[i] = q[i]
    BY <1>1, <2>2
  <2> QED BY <2>1, <2>2, <2>3
<1> HIDE DEF r
<1>3. Distinct(r)
  BY <1>1, <1>2 DEF Distinct
<1>4. \A y : In(y, r) <=> In(y, q) /\ y # q[Len(q)]
  BY <1>1, <1>2 DEF Distinct, In
<1>5. In(q[Len(q)], q)
  BY <1>1 DEF In
<1> QED BY <1>1, <1>2, <1>3, <1>4, <1>5 DEF r

-----------------------------------------------------------------------------
(* Steps that ask nobody *)

\* The CPUs that unmap go on with it.
SameUnmaps ==
  \A d \in Cores :
    \/ stage'[d] = stage[d] /\ target'[d] = target[d]
    \/ stage[d] \notin {"push", "send"} /\ stage'[d] \notin {"push", "send"}

\* Whom a step asks, and who was asked, is the same.
SameQuestions ==
  /\ \A s \in AllSpaces : Asked(s)' = Asked(s) /\ Unmappers(s)' = Unmappers(s)
  /\ \A s \in AllSpaces : \A d \in Unmappers(s) : Untold(d)' = Untold(d)

\* A step by which no CPU begins or ends an unmap changes neither.
LEMMA QuestionsStay ==
  ASSUME Inv, SameUnmaps, UNCHANGED <<shootdowns, tell>>
  PROVE  SameQuestions
<1>1. \A s \in AllSpaces : Asked(s)' = Asked(s)
  BY DEF Asked, In
<1>2. \A s \in AllSpaces : Unmappers(s)' = Unmappers(s)
  BY DEF Inv, TlbType, SameUnmaps, Unmappers
<1>3. ASSUME NEW s \in AllSpaces, NEW d \in Unmappers(s) PROVE Untold(d)' = Untold(d)
  <2>1. stage'[d] = stage[d]
    BY <1>3 DEF SameUnmaps, Unmappers
  <2> QED BY <2>1 DEF Untold, In
<1> QED BY <1>1, <1>2, <1>3 DEF SameQuestions

\* The questions and answers of a shootdown are not touched by other steps.
LEMMA AskedStays ==
  ASSUME Inv, SameUnmaps, UNCHANGED <<shootdowns, tell, expected, acks>>
  PROVE  AskedOnce' /\ Answers'
<1>1. SameQuestions
  BY QuestionsStay
<1>2. \A d \in Cores : /\ Distinct(shootdowns[d])' <=> Distinct(shootdowns[d])
                       /\ Distinct(tell[d])' <=> Distinct(tell[d])
  BY DEF Distinct
<1>3. AskedOnce'
  <2>1. (\A d \in Cores : Distinct(shootdowns[d]) /\ Distinct(tell[d]))'
    BY <1>2 DEF Inv, AskedOnce
  <2>2. (\A s \in AllSpaces : Unmappers(s) = {} => Asked(s) = {})'
    BY <1>1 DEF Inv, AskedOnce, SameQuestions
  <2>3. (\A s \in AllSpaces : \A d \in Unmappers(s) : Untold(d) \cap Asked(s) = {})'
    <3> SUFFICES ASSUME NEW s \in AllSpaces, NEW d \in Unmappers(s)'
                 PROVE  Untold(d)' \cap Asked(s)' = {}
      OBVIOUS
    <3>1. d \in Unmappers(s) /\ Untold(d)' = Untold(d) /\ Asked(s)' = Asked(s)
      BY <1>1 DEF SameQuestions
    <3> QED BY <3>1 DEF Inv, AskedOnce
  <2> QED BY <2>1, <2>2, <2>3 DEF AskedOnce
<1>4. \A s \in AllSpaces : \A d \in Unmappers(s) : stage'[d] = stage[d]
  BY DEF SameUnmaps, Unmappers
<1>5. Answers'
  <2> SUFFICES ASSUME NEW s \in AllSpaces, NEW d \in Unmappers(s)'
               PROVE  acks[s] + Cardinality(Asked(s)') =
                        expected[d] + (IF stage'[d] = "send" THEN 1 ELSE 0)
    BY DEF Answers
  <2>1. d \in Unmappers(s) /\ Asked(s)' = Asked(s)
    BY <1>1 DEF SameQuestions
  <2>2. stage'[d] = stage[d]
    BY <1>4, <2>1
  <2> QED BY <2>1, <2>2 DEF Inv, Answers
<1> QED BY <1>3, <1>5

\* Translations stay current when none is added and no page table changes.
LEMMA CurrentStays ==
  ASSUME Inv, SameUnmaps, UNCHANGED <<pte, old, tell, shootdowns>>,
         \A d \in Cores : /\ tlb'[d] \subseteq tlb[d]
                          /\ stage'[d] \notin {"enter", "cr3"} /\ tlb'[d] # {} =>
                               stage[d] \notin {"enter", "cr3"}
  PROVE  Current'
<1> SUFFICES ASSUME NEW c \in Cores, NEW e \in tlb'[c], stage'[c] \notin {"enter", "cr3"}
             PROVE  \/ e.frame = pte[e.space]
                    \/ \E d \in Cores \ {c} : /\ d \in Unmappers(e.space)' /\ old[d] = e.frame
                                              /\ c \in Untold(d)' \cup Asked(e.space)'
  BY DEF Current
<1>1. e \in tlb[c] /\ stage[c] \notin {"enter", "cr3"}
  OBVIOUS
<1>2. e.space \in AllSpaces
  BY <1>1 DEF Inv, TlbType, Entries
<1>3. SameQuestions
  BY QuestionsStay
<1> QED BY <1>1, <1>2, <1>3 DEF Inv, Current, SameQuestions

\* A CPU that unmaps a space is the only one that does so, and holds its lock.
LEMMA OneUnmaps ==
  ASSUME Inv, NEW c \in Cores, NEW s \in AllSpaces
  PROVE  /\ c \in Unmappers(s) => Unmappers(s) = {c}
         /\ spaceLock[s] = None => Unmappers(s) = {}
  BY TlbAssumption DEF Inv, Locked, Unmappers

\* There are finitely many CPUs to ask.
LEMMA AskedFinite ==
  ASSUME NEW s
  PROVE  IsFiniteSet(Asked(s)) /\ Cardinality(Asked(s)) \in Nat
  BY TlbAssumption, FS_Subset, FS_CardinalityType DEF Asked

-----------------------------------------------------------------------------
(* Steps *)

\* Memory is used through the loaded page table, so the new entry is the current one.
LEMMA TouchKeeps ==
  ASSUME Inv, Kernel \notin Changing, NEW c \in Cores, NEW s \in AllSpaces, Touch(c, s)
  PROVE  Inv'
<1>1. SameUnmaps /\ UNCHANGED <<shootdowns, tell, expected, acks>>
  BY TlbAssumption DEF Inv, TlbType, SameUnmaps, Touch, Goto, tables, ipiVars, locals
<1>2. TlbType'
  BY TlbAssumption DEF Inv, TlbType, Placed, Touch, Goto, tables, ipiVars, locals, Stages, Entries
<1>3. Placed'
  BY TlbAssumption DEF Inv, TlbType, Placed, Touch, Goto, tables, ipiVars, locals, Stages, Entries
<1>4. Members'
  BY TlbAssumption DEF Inv, TlbType, Placed, Members, Touch, Goto, tables, ipiVars, locals,
         Stages, Entries
<1>5. Locked'
  BY TlbAssumption DEF Inv, TlbType, Placed, Locked, Unmappers, Touch, Goto, tables, ipiVars,
         locals, Stages, Entries
<1>6. OfTable'
  BY TlbAssumption DEF Inv, TlbType, Placed, OfTable, KernelStays, Touch, Goto, tables,
         ipiVars, locals, Stages, Entries
<1>7. KernelStays'
  BY TlbAssumption DEF Inv, TlbType, Placed, KernelStays, Touch, Goto, tables, ipiVars, locals,
         Stages, Entries
<1>8. Current'
  <2> SUFFICES ASSUME NEW d \in Cores, NEW e \in tlb'[d], stage'[d] \notin {"enter", "cr3"},
                      e.frame # pte[e.space]
               PROVE  \E b \in Cores \ {d} : /\ b \in Unmappers(e.space)' /\ old[b] = e.frame
                                             /\ d \in Untold(b)' \cup Asked(e.space)'
    BY DEF Current, Touch, tables, locals
  <2>1. SameQuestions
    BY <1>1, QuestionsStay
  <2>2. e \in tlb[d] /\ stage[d] \notin {"enter", "cr3"} /\ e.space \in AllSpaces
    BY DEF Inv, TlbType, Touch, Entries
  <2> QED BY <2>1, <2>2 DEF Inv, Current, SameQuestions
<1>9. AskedOnce'
  BY <1>1, AskedStays
<1>10. Answers'
  BY <1>1, AskedStays
<1> QED BY <1>2, <1>3, <1>4, <1>5, <1>6, <1>7, <1>8, <1>9, <1>10 DEF Inv

\* The scheduler chooses another space (vmm_load()); nothing is dropped yet.
LEMMA LoadKeeps ==
  ASSUME Inv, Kernel \notin Changing, NEW c \in Cores, NEW s \in AllSpaces, Load(c, s)
  PROVE  Inv'
<1>1. SameUnmaps /\ UNCHANGED <<shootdowns, tell, expected, acks>>
  BY TlbAssumption DEF Inv, TlbType, SameUnmaps, Load, Goto, tables, ipiVars, locals
<1>2. TlbType'
  BY TlbAssumption DEF Inv, TlbType, Placed, Load, Goto, tables, ipiVars, locals, Stages
<1>3. Placed'
  BY TlbAssumption DEF Inv, TlbType, Placed, Load, Goto, tables, ipiVars, locals, Stages
<1>4. Members'
  BY TlbAssumption DEF Inv, TlbType, Placed, Members, Load, Goto, tables, ipiVars, locals, Stages
<1>5. Locked'
  BY TlbAssumption DEF Inv, TlbType, Placed, Locked, Unmappers, Load, Goto, tables, ipiVars,
         locals, Stages
<1>6. OfTable'
  BY TlbAssumption DEF Inv, TlbType, Placed, OfTable, KernelStays, Load, Goto, tables, ipiVars,
         locals, Stages
<1>7. KernelStays'
  BY TlbAssumption DEF Inv, TlbType, Placed, KernelStays, Load, Goto, tables, ipiVars, locals,
         Stages
<1>8. Current'
  BY <1>1, CurrentStays DEF Inv, TlbType, Load, Goto, tables, ipiVars, locals
<1>9. AskedOnce'
  BY <1>1, AskedStays
<1>10. Answers'
  BY <1>1, AskedStays
<1> QED BY <1>2, <1>3, <1>4, <1>5, <1>6, <1>7, <1>8, <1>9, <1>10 DEF Inv

\* A caller is about to take the lock of the space it runs in.
LEMMA MappingStartKeeps ==
  ASSUME Inv, Kernel \notin Changing, NEW c \in Cores, NEW s \in AllSpaces,
         NEW op \in {"alloc", "unmap"}, MappingStart(c, s, op)
  PROVE  Inv'
<1>1. SameUnmaps /\ UNCHANGED <<shootdowns, tell, expected, acks>>
  BY TlbAssumption DEF Inv, TlbType, SameUnmaps, MappingStart, Goto, tables, ipiVars, locals
<1>2. TlbType'
  BY TlbAssumption DEF Inv, TlbType, Placed, MappingStart, Goto, tables, ipiVars, locals, Stages
<1>3. Placed'
  BY TlbAssumption DEF Inv, TlbType, Placed, MappingStart, Goto, tables, ipiVars, locals, Stages
<1>4. Members'
  BY TlbAssumption DEF Inv, TlbType, Placed, Members, MappingStart, Goto, tables, ipiVars,
         locals, Stages
<1>5. Locked'
  BY TlbAssumption DEF Inv, TlbType, Placed, Locked, Unmappers, MappingStart, Goto, tables,
         ipiVars, locals, Stages
<1>6. OfTable'
  BY TlbAssumption DEF Inv, TlbType, Placed, OfTable, KernelStays, MappingStart, Goto, tables,
         ipiVars, locals, Stages
<1>7. KernelStays'
  BY TlbAssumption DEF Inv, TlbType, Placed, KernelStays, MappingStart, Goto, tables, ipiVars,
         locals, Stages
<1>8. Current'
  BY <1>1, CurrentStays DEF Inv, TlbType, MappingStart, Goto, tables, ipiVars, locals
<1>9. AskedOnce'
  BY <1>1, AskedStays
<1>10. Answers'
  BY <1>1, AskedStays
<1> QED BY <1>2, <1>3, <1>4, <1>5, <1>6, <1>7, <1>8, <1>9, <1>10 DEF Inv

\* A frame is mapped where none was, under the lock: no translation can name the space.
LEMMA AllocKeeps ==
  ASSUME Inv, Kernel \notin Changing, NEW c \in Cores, Alloc(c)
  PROVE  Inv'
<1>1. SameUnmaps /\ UNCHANGED <<shootdowns, tell, expected, acks>>
  BY TlbAssumption DEF Inv, TlbType, SameUnmaps, Alloc, Goto, tables, ipiVars, locals
<1>2. TlbType'
  <2>1. target[c] \in AllSpaces
    BY DEF Inv, TlbType, Placed, Alloc, Goto
  <2>2. pte' \in [AllSpaces -> Frames \cup {None}]
    BY <2>1 DEF Inv, TlbType, Alloc, Free
  <2> QED BY <2>2 DEF Inv, TlbType, Stages, Alloc, Goto, tables, ipiVars, locals
<1>3. Placed'
  BY TlbAssumption DEF Inv, TlbType, Placed, Alloc, Goto, tables, ipiVars, locals, Stages, Free
<1>4. Members'
  BY TlbAssumption DEF Inv, TlbType, Placed, Members, Alloc, Goto, tables, ipiVars, locals,
         Stages, Free
<1>5. Locked'
  BY TlbAssumption DEF Inv, TlbType, Placed, Locked, Unmappers, Alloc, Goto, tables, ipiVars,
         locals, Stages, Free
<1>6. OfTable'
  BY TlbAssumption DEF Inv, TlbType, Placed, OfTable, KernelStays, Alloc, Goto, tables,
         ipiVars, locals, Stages, Free
<1>7. KernelStays'
  BY TlbAssumption DEF Inv, TlbType, Placed, KernelStays, Alloc, Goto, tables, ipiVars, locals,
         Stages, Free
<1>8. Current'
  <2> SUFFICES ASSUME NEW d \in Cores, NEW e \in tlb'[d], stage'[d] \notin {"enter", "cr3"},
                      e.frame # pte'[e.space]
               PROVE  \E b \in Cores \ {d} : /\ b \in Unmappers(e.space)' /\ old[b] = e.frame
                                             /\ d \in Untold(b)' \cup Asked(e.space)'
    BY DEF Current, Alloc, locals
  <2>1. SameQuestions
    BY <1>1, QuestionsStay
  <2>2. e \in tlb[d] /\ stage[d] \notin {"enter", "cr3"} /\ e.space \in AllSpaces /\ e.frame # None
    BY TlbAssumption DEF Inv, TlbType, Alloc, Goto, Entries
  <2>3. CASE e.frame # pte[e.space]
    BY <2>1, <2>2, <2>3 DEF Inv, Current, SameQuestions
  <2>4. CASE e.frame = pte[e.space]
    BY <2>2, <2>4 DEF Inv, TlbType, Alloc
  <2> QED BY <2>3, <2>4
<1>9. AskedOnce'
  BY <1>1, AskedStays
<1>10. Answers'
  BY <1>1, AskedStays
<1> QED BY <1>2, <1>3, <1>4, <1>5, <1>6, <1>7, <1>8, <1>9, <1>10 DEF Inv

\* The page is unmapped; the CPUs that use the space are now to be told.
LEMMA UnmapKeeps ==
  ASSUME Inv, Kernel \notin Changing, NEW c \in Cores, Unmap(c)
  PROVE  Inv'
<1> DEFINE s == target[c]
<1>1. /\ s \in AllSpaces /\ s # Kernel /\ s = cr3[c] /\ stage[c] = "unmap" /\ spaceLock[s] = None
      /\ Unmappers(s) = {}
  <2>1. s \in AllSpaces /\ s # Kernel /\ s = cr3[c] /\ stage[c] = "unmap" /\ spaceLock[s] = None
    BY DEF Inv, TlbType, Placed, Unmap, Goto
  <2> QED BY <2>1, OneUnmaps
<1>2. /\ tell' = [tell EXCEPT ![c] = SetToSeq(cpus[s] \ {c})]
      /\ SetToSeq(cpus[s] \ {c}) \in Seq(Cores) /\ Distinct(SetToSeq(cpus[s] \ {c}))
      /\ \A x \in cpus[s] \ {c} : In(x, SetToSeq(cpus[s] \ {c}))
  <2>1. cpus[s] \ {c} \subseteq Cores
    BY <1>1 DEF Inv, TlbType
  <2>2. IsFiniteSet(cpus[s] \ {c})
    BY <2>1, TlbAssumption, FS_Subset
  <2> HIDE DEF s
  <2>3. /\ SetToSeq(cpus[s] \ {c}) \in Seq(cpus[s] \ {c}) /\ Distinct(SetToSeq(cpus[s] \ {c}))
        /\ \A x \in cpus[s] \ {c} : In(x, SetToSeq(cpus[s] \ {c}))
    BY <2>2, Listed
  <2>4. tell' = [tell EXCEPT ![c] = SetToSeq(cpus[s] \ {c})]
    BY DEF Unmap, s
  <2>5. ASSUME NEW S, S \subseteq Cores, NEW q \in Seq(S) PROVE q \in Seq(Cores)
    BY <2>5
  <2>6. SetToSeq(cpus[s] \ {c}) \in Seq(Cores)
    BY <2>1, <2>3, <2>5, Zenon
  <2> QED BY <2>3, <2>4, <2>6, Zenon
<1>3. /\ \A t \in AllSpaces : Asked(t)' = Asked(t)
      /\ \A t \in AllSpaces : Unmappers(t)' = IF t = s THEN {c} ELSE Unmappers(t)
      /\ \A t \in AllSpaces : c \notin Unmappers(t) /\ Unmappers(t) \subseteq Cores
      /\ \A d \in Cores \ {c} : /\ Untold(d)' = Untold(d) /\ stage'[d] = stage[d]
  BY <1>1 DEF Inv, TlbType, Unmap, Goto, ipiVars, Asked, Untold, Unmappers, In
<1>4. Asked(s) = {}
  BY <1>1 DEF Inv, AskedOnce
<1>5. \A d \in cpus[s] \ {c} : d \in Cores => d \in Untold(c)'
  BY <1>1, <1>2 DEF Inv, TlbType, Unmap, Goto, Untold, In
<1>6. tlb'[c] = {} /\ \A d \in Cores \ {c} : tlb'[d] = tlb[d]
  BY <1>1 DEF Inv, TlbType, OfTable, Unmap, Invalidated, Flushed
<1> HIDE DEF s
<1>7. TlbType'
  BY <1>1, <1>2 DEF Inv, TlbType, Unmap, Goto, ipiVars, Stages, Invalidated, Flushed, s
<1>8. Placed'
  BY TlbAssumption DEF Inv, TlbType, Placed, Unmap, Goto, tables, ipiVars, locals, Stages,
         Invalidated, Flushed, Entries
<1>9. Members'
  BY TlbAssumption DEF Inv, TlbType, Placed, Members, Unmap, Goto, tables, ipiVars, locals,
         Stages, Invalidated, Flushed, Entries
<1>10. Locked'
  BY TlbAssumption DEF Inv, TlbType, Placed, Locked, Unmappers, Unmap, Goto, tables, ipiVars,
         locals, Stages, Invalidated, Flushed, Entries
<1>11. OfTable'
  BY <1>6 DEF Inv, OfTable, Unmap
<1>12. KernelStays'
  BY TlbAssumption DEF Inv, TlbType, Placed, KernelStays, Unmap, Goto, tables, ipiVars, locals,
         Stages, Invalidated, Flushed, Entries
<1>13. Current'
  <2> SUFFICES ASSUME NEW d \in Cores, NEW e \in tlb'[d], stage'[d] \notin {"enter", "cr3"},
                      e.frame # pte'[e.space]
               PROVE  \E b \in Cores \ {d} : /\ b \in Unmappers(e.space)' /\ old'[b] = e.frame
                                             /\ d \in Untold(b)' \cup Asked(e.space)'
    BY DEF Current
  <2>1. d # c /\ e \in tlb[d] /\ stage[d] \notin {"enter", "cr3"} /\ e.space \in AllSpaces
    BY <1>3, <1>6 DEF Inv, TlbType, Entries
  <2>2. CASE e.space = s
    <3>1. e.frame = pte[s]
      BY <1>1, <2>1, <2>2 DEF Inv, Current
    <3>2. old'[c] = e.frame
      BY <3>1 DEF Inv, TlbType, Unmap, s
    <3>3. d \in cpus[s]
      BY <2>1, <2>2, <1>1 DEF Inv, OfTable, Placed, Members
    <3> QED BY <1>3, <1>5, <2>1, <2>2, <3>2, <3>3
  <2>3. CASE e.space # s
    <3>1. e.frame # pte[e.space]
      BY <2>1, <2>3 DEF Inv, TlbType, Unmap, s
    <3>2. PICK b \in Cores \ {d} : /\ b \in Unmappers(e.space) /\ old[b] = e.frame
                                    /\ d \in Untold(b) \cup Asked(e.space)
      BY <2>1, <3>1 DEF Inv, Current
    <3>3. b # c /\ old'[b] = old[b]
      BY <1>3, <2>1, <3>2 DEF Inv, TlbType, Unmap
    <3>4. e.space # s /\ b \in Unmappers(e.space)' /\ Untold(b)' = Untold(b)
          /\ Asked(e.space)' = Asked(e.space)
      BY <1>3, <2>1, <2>3, <3>2, <3>3
    <3> QED BY <3>2, <3>3, <3>4
  <2> QED BY <2>2, <2>3
<1>14. AskedOnce'
  <2>1. (\A d \in Cores : Distinct(shootdowns[d]) /\ Distinct(tell[d]))'
    BY <1>2 DEF Inv, TlbType, AskedOnce, Unmap, ipiVars, Distinct
  <2>2. (\A t \in AllSpaces : Unmappers(t) = {} => Asked(t) = {})'
    BY <1>1, <1>3 DEF Inv, AskedOnce
  <2>3. ASSUME NEW t \in AllSpaces, NEW d \in Unmappers(t)' PROVE Untold(d)' \cap Asked(t)' = {}
    BY <1>1, <1>3, <1>4, <2>3 DEF Inv, AskedOnce
  <2> QED BY <2>1, <2>2, <2>3 DEF AskedOnce
<1>15. Answers'
  <2> SUFFICES ASSUME NEW t \in AllSpaces, NEW d \in Unmappers(t)'
               PROVE  acks'[t] + Cardinality(Asked(t)') =
                        expected'[d] + (IF stage'[d] = "send" THEN 1 ELSE 0)
    BY DEF Answers
  <2>1. CASE d = c
    <3>1. t = s /\ Asked(t)' = {} /\ Cardinality(Asked(t)') = 0
      BY <1>1, <1>3, <1>4, <2>1, FS_EmptySet
    <3>2. acks'[t] = 0 /\ expected'[c] = 0 /\ stage'[c] = "push"
      BY <1>1, <3>1 DEF Inv, TlbType, Unmap, Goto, s
    <3> QED BY <2>1, <3>1, <3>2
  <2>2. CASE d # c
    <3>1. d \in Unmappers(t) /\ t # s /\ Asked(t)' = Asked(t) /\ stage'[d] = stage[d]
      BY <1>1, <1>3, <2>2
    <3>2. acks'[t] = acks[t] /\ expected'[d] = expected[d]
      BY <2>2, <3>1 DEF Inv, TlbType, Unmap, s
    <3> QED BY <3>1, <3>2 DEF Inv, Answers
  <2> QED BY <2>1, <2>2
<1> QED BY <1>7, <1>8, <1>9, <1>10, <1>11, <1>12, <1>13, <1>14, <1>15 DEF Inv

\* The next CPU's list gets the space: it is asked, and no longer to be told.
LEMMA ShootdownPushKeeps ==
  ASSUME Inv, Kernel \notin Changing, NEW c \in Cores, ShootdownPush(c)
  PROVE  Inv'
<1> DEFINE s == target[c]
           h == Head(tell[c])
<1>1. /\ s \in AllSpaces /\ stage[c] = "push" /\ stage'[c] = "send" /\ tell[c] \in Seq(Cores)
      /\ tell[c] # <<>> /\ Distinct(tell[c]) /\ c \in Unmappers(s)
  BY TlbAssumption DEF Inv, TlbType, Placed, AskedOnce, ShootdownPush, Goto, Unmappers
<1>2. /\ h \in Cores /\ In(h, tell[c])
      /\ \A y : In(y, Tail(tell[c])) <=> In(y, tell[c]) /\ y # h
  BY <1>1, Headless
<1>3. h \in Untold(c) /\ Untold(c)' = Untold(c) \ {h}
  BY <1>1, <1>2 DEF Untold, ShootdownPush, locals
<1>4. h \notin Asked(s) /\ ~In(s, shootdowns[h]) /\ Unmappers(s) = {c}
  BY <1>1, <1>2, <1>3, OneUnmaps DEF Inv, AskedOnce, Asked
<1> HIDE DEF s, h
<1>5. /\ shootdowns' = [shootdowns EXCEPT ![h] = Append(shootdowns[h], s)]
      /\ UNCHANGED <<pte, spaceLock, cpus, acks, current, cr3, tlb, target, tell, expected, old>>
      /\ \A d \in Cores \ {c} : stage'[d] = stage[d]
  BY DEF Inv, TlbType, ShootdownPush, Goto, tables, locals, s, h
<1>6. /\ Append(shootdowns[h], s) \in Seq(AllSpaces) /\ Distinct(Append(shootdowns[h], s))
      /\ \A y : In(y, Append(shootdowns[h], s)) <=> In(y, shootdowns[h]) \/ y = s
  <2>1. shootdowns[h] \in Seq(AllSpaces) /\ Distinct(shootdowns[h])
    BY <1>2 DEF Inv, TlbType, AskedOnce
  <2> QED BY <1>1, <1>4, <2>1, Appended
<1>7. \A t \in AllSpaces : Asked(t)' = IF t = s THEN Asked(t) \cup {h} ELSE Asked(t)
  <2>1. \A d \in Cores : \A t \in AllSpaces :
          In(t, shootdowns'[d]) <=> In(t, shootdowns[d]) \/ (d = h /\ t = s)
    BY <1>2, <1>5, <1>6 DEF Inv, TlbType
  <2>2. \A t \in AllSpaces : Asked(t)' = {d \in Cores : In(t, shootdowns'[d])}
    BY DEF Asked, In
  <2> QED BY <1>2, <2>1, <2>2 DEF Asked
<1>8. \A t \in AllSpaces : Unmappers(t)' = Unmappers(t) /\ Unmappers(t) \subseteq Cores
  BY <1>1, <1>5 DEF Unmappers
<1>9. \A d \in Cores \ {c} : Untold(d)' = Untold(d)
  BY <1>5 DEF Untold, In
<1>10. TlbType'
  <2>1. stage' \in [Cores -> Stages]
    BY DEF Inv, TlbType, Stages, ShootdownPush, Goto
  <2>2. shootdowns' \in [Cores -> Seq(AllSpaces)]
    BY <1>2, <1>5, <1>6 DEF Inv, TlbType
  <2> QED BY <1>5, <2>1, <2>2 DEF Inv, TlbType
<1>11. Placed'
  BY TlbAssumption DEF Inv, TlbType, Placed, ShootdownPush, Goto, tables, ipiVars, locals, Stages
<1>12. Members'
  BY TlbAssumption DEF Inv, TlbType, Placed, Members, ShootdownPush, Goto, tables, ipiVars,
         locals, Stages
<1>13. Locked'
  BY <1>5, <1>8 DEF Inv, Locked
<1>14. OfTable'
  BY TlbAssumption DEF Inv, TlbType, Placed, OfTable, KernelStays, ShootdownPush, Goto, tables,
         ipiVars, locals, Stages
<1>15. KernelStays'
  BY TlbAssumption DEF Inv, TlbType, Placed, KernelStays, ShootdownPush, Goto, tables, ipiVars,
         locals, Stages
<1>16. Current'
  <2> SUFFICES ASSUME NEW d \in Cores, NEW e \in tlb'[d], stage'[d] \notin {"enter", "cr3"},
                      e.frame # pte'[e.space]
               PROVE  \E b \in Cores \ {d} : /\ b \in Unmappers(e.space)' /\ old'[b] = e.frame
                                             /\ d \in Untold(b)' \cup Asked(e.space)'
    BY DEF Current
  <2>1. e \in tlb[d] /\ stage[d] \notin {"enter", "cr3"} /\ e.space \in AllSpaces
    BY <1>1, <1>5 DEF Inv, TlbType, Entries
  <2>2. PICK b \in Cores \ {d} : /\ b \in Unmappers(e.space) /\ old[b] = e.frame
                                  /\ d \in Untold(b) \cup Asked(e.space)
    BY <1>5, <2>1 DEF Inv, Current
  <2>3. b = c => e.space = s
    BY <1>5, <2>1, <2>2 DEF Unmappers, s
  <2>4. d \in Untold(b)' \cup Asked(e.space)'
    BY <1>3, <1>7, <1>9, <2>1, <2>2, <2>3
  <2> QED BY <1>5, <1>8, <2>1, <2>2, <2>4
<1>17. AskedOnce'
  <2>1. (\A d \in Cores : Distinct(shootdowns[d]) /\ Distinct(tell[d]))'
    BY <1>5, <1>6 DEF Inv, TlbType, AskedOnce
  <2>2. (\A t \in AllSpaces : Unmappers(t) = {} => Asked(t) = {})'
    BY <1>4, <1>7, <1>8 DEF Inv, AskedOnce
  <2>3. ASSUME NEW t \in AllSpaces, NEW d \in Unmappers(t)' PROVE Untold(d)' \cap Asked(t)' = {}
    <3>1. d \in Unmappers(t) /\ Untold(d) \cap Asked(t) = {}
      BY <1>8, <2>3 DEF Inv, AskedOnce
    <3>2. CASE d = c
      <4>1. t = s
        BY <3>1, <3>2 DEF Unmappers, s
      <4> QED BY <1>3, <1>7, <3>1, <3>2, <4>1
    <3>3. CASE d # c
      <4>1. t # s
        BY <1>4, <3>1, <3>3
      <4> QED BY <1>7, <1>8, <1>9, <3>1, <3>3, <4>1
    <3> QED BY <3>2, <3>3
  <2> QED BY <2>1, <2>2, <2>3 DEF AskedOnce
<1>18. Answers'
  <2> SUFFICES ASSUME NEW t \in AllSpaces, NEW d \in Unmappers(t)'
               PROVE  acks'[t] + Cardinality(Asked(t)') =
                        expected'[d] + (IF stage'[d] = "send" THEN 1 ELSE 0)
    BY DEF Answers
  <2>1. /\ d \in Unmappers(t) /\ d \in Cores
        /\ acks[t] + Cardinality(Asked(t)) = expected[d] + (IF stage[d] = "send" THEN 1 ELSE 0)
    BY <1>8 DEF Inv, Answers
  <2>2. CASE d = c
    <3>1. t = s
      BY <2>1, <2>2 DEF Unmappers, s
    <3>2. Cardinality(Asked(t)') = Cardinality(Asked(t)) + 1 /\ Cardinality(Asked(t)) \in Nat
      BY <1>1, <1>4, <1>7, <3>1, AskedFinite, FS_AddElement
    <3> QED BY <1>1, <1>5, <2>1, <2>2, <3>2 DEF Inv, TlbType
  <2>3. CASE d # c
    <3>1. t # s
      BY <1>4, <2>1, <2>3
    <3> QED BY <1>5, <1>7, <2>1, <2>3, <3>1
  <2> QED BY <2>2, <2>3
<1> QED BY <1>10, <1>11, <1>12, <1>13, <1>14, <1>15, <1>16, <1>17, <1>18 DEF Inv

\* The interrupt is counted as an answer to be waited for.
LEMMA ShootdownSendKeeps ==
  ASSUME Inv, Kernel \notin Changing, NEW c \in Cores, ShootdownSend(c)
  PROVE  Inv'
<1> DEFINE s == target[c]
<1>1. /\ s \in AllSpaces /\ stage[c] = "send" /\ stage'[c] = "push" /\ tell[c] \in Seq(Cores)
      /\ tell[c] # <<>> /\ Distinct(tell[c]) /\ c \in Unmappers(s)
  BY TlbAssumption DEF Inv, TlbType, Placed, AskedOnce, ShootdownSend, Goto, Unmappers
<1>2. Tail(tell[c]) \in Seq(Cores) /\ Distinct(Tail(tell[c]))
  BY <1>1, Headless
<1> HIDE DEF s
<1>3. /\ tell' = [tell EXCEPT ![c] = Tail(tell[c])]
      /\ expected' = [expected EXCEPT ![c] = expected[c] + 1]
      /\ UNCHANGED <<pte, spaceLock, cpus, acks, current, cr3, tlb, target, shootdowns, old>>
      /\ \A d \in Cores \ {c} : stage'[d] = stage[d]
  BY DEF Inv, TlbType, ShootdownSend, Goto, tables
<1>4. \A d \in Cores : Untold(d)' = Untold(d)
  <2>1. \A d \in Cores \ {c} : Untold(d)' = Untold(d)
    BY <1>3 DEF Inv, TlbType, Untold, In
  <2>2. tell'[c] = Tail(tell[c])
    BY <1>3 DEF Inv, TlbType
  <2>3. Untold(c)' = Untold(c)
    BY <1>1, <2>2 DEF Untold, In
  <2> QED BY <2>1, <2>3
<1>5. \A t \in AllSpaces : /\ Unmappers(t)' = Unmappers(t) /\ Unmappers(t) \subseteq Cores
                           /\ Asked(t)' = Asked(t)
  BY <1>1, <1>3 DEF Unmappers, Asked, In
<1>6. TlbType'
  <2>1. tell' \in [Cores -> Seq(Cores)]
    BY <1>2, <1>3 DEF Inv, TlbType
  <2>2. expected[c] + 1 \in Nat /\ expected \in [Cores -> Nat]
    BY DEF Inv, TlbType
  <2>3. expected' \in [Cores -> Nat]
    BY <1>3, <2>2
  <2>4. stage' \in [Cores -> Stages]
    BY DEF Inv, TlbType, Stages, ShootdownSend, Goto
  <2> QED BY <1>3, <2>1, <2>3, <2>4 DEF Inv, TlbType
<1>7. Placed'
  BY TlbAssumption DEF Inv, TlbType, Placed, ShootdownSend, Goto, tables, ipiVars, locals, Stages
<1>8. Members'
  BY TlbAssumption DEF Inv, TlbType, Placed, Members, ShootdownSend, Goto, tables, ipiVars,
         locals, Stages
<1>9. Locked'
  BY <1>3, <1>5 DEF Inv, Locked
<1>10. OfTable'
  BY TlbAssumption DEF Inv, TlbType, Placed, OfTable, KernelStays, ShootdownSend, Goto, tables,
         ipiVars, locals, Stages
<1>11. KernelStays'
  BY TlbAssumption DEF Inv, TlbType, Placed, KernelStays, ShootdownSend, Goto, tables, ipiVars,
         locals, Stages
<1>12. Current'
  <2> SUFFICES ASSUME NEW d \in Cores, NEW e \in tlb'[d], stage'[d] \notin {"enter", "cr3"},
                      e.frame # pte'[e.space]
               PROVE  \E b \in Cores \ {d} : /\ b \in Unmappers(e.space)' /\ old'[b] = e.frame
                                             /\ d \in Untold(b)' \cup Asked(e.space)'
    BY DEF Current
  <2>1. e \in tlb[d] /\ stage[d] \notin {"enter", "cr3"} /\ e.space \in AllSpaces
    <3>1. e \in tlb[d]
      BY <1>3
    <3>2. stage[d] \notin {"enter", "cr3"}
      BY <1>1, <1>3
    <3> QED BY <3>1, <3>2 DEF Inv, TlbType, Entries
  <2>2. PICK b \in Cores \ {d} : /\ b \in Unmappers(e.space) /\ old[b] = e.frame
                                  /\ d \in Untold(b) \cup Asked(e.space)
    BY <1>3, <2>1 DEF Inv, Current
  <2> QED BY <1>3, <1>4, <1>5, <2>1, <2>2
<1>13. AskedOnce'
  <2>1. (\A d \in Cores : Distinct(shootdowns[d]) /\ Distinct(tell[d]))'
    BY <1>2, <1>3 DEF Inv, TlbType, AskedOnce
  <2> QED BY <1>4, <1>5, <2>1 DEF Inv, AskedOnce
<1>14. Answers'
  <2> SUFFICES ASSUME NEW t \in AllSpaces, NEW d \in Unmappers(t)'
               PROVE  acks'[t] + Cardinality(Asked(t)') =
                        expected'[d] + (IF stage'[d] = "send" THEN 1 ELSE 0)
    BY DEF Answers
  <2>1. /\ d \in Unmappers(t) /\ d \in Cores /\ Asked(t)' = Asked(t)
        /\ acks[t] + Cardinality(Asked(t)) = expected[d] + (IF stage[d] = "send" THEN 1 ELSE 0)
    BY <1>5 DEF Inv, Answers
  <2>2. acks[t] \in Nat /\ expected[d] \in Nat /\ Cardinality(Asked(t)) \in Nat
    BY <2>1, AskedFinite DEF Inv, TlbType
  <2>3. expected'[d] = IF d = c THEN expected[c] + 1 ELSE expected[d]
    BY <1>3, <2>1 DEF Inv, TlbType
  <2> QED BY <1>1, <1>3, <2>1, <2>2, <2>3
<1> QED BY <1>6, <1>7, <1>8, <1>9, <1>10, <1>11, <1>12, <1>13, <1>14 DEF Inv

\* As many answers as questions have come, so nobody has the old translation.
LEMMA UnmapEndKeeps ==
  ASSUME Inv, Kernel \notin Changing, NEW c \in Cores, UnmapEnd(c)
  PROVE  Inv'
<1> DEFINE s == target[c]
<1>1. /\ s \in AllSpaces /\ stage[c] = "push" /\ stage'[c] = "run" /\ tell[c] = <<>>
      /\ acks[s] >= expected[c] /\ c \in Unmappers(s)
  BY TlbAssumption DEF Inv, TlbType, Placed, UnmapEnd, Goto, Unmappers
<1> HIDE DEF s
<1>2. Asked(s) = {} /\ Untold(c) = {} /\ Unmappers(s) = {c}
  <2>1. acks[s] + Cardinality(Asked(s)) = expected[c]
    <3>1. acks[s] + Cardinality(Asked(s)) = expected[c] + (IF stage[c] = "send" THEN 1 ELSE 0)
      BY <1>1 DEF Inv, Answers
    <3>2. expected[c] \in Nat
      BY DEF Inv, TlbType
    <3> QED BY <1>1, <3>1, <3>2
  <2>2. Cardinality(Asked(s)) = 0
    BY <1>1, <2>1, AskedFinite DEF Inv, TlbType
  <2>3. Asked(s) = {}
    BY <2>2, AskedFinite, FS_EmptySet
  <2>4. Untold(c) = {}
    BY <1>1 DEF Untold, In
  <2> QED BY <1>1, <2>3, <2>4, OneUnmaps
<1>3. /\ old' = [old EXCEPT ![c] = None]
      /\ UNCHANGED <<pte, cpus, acks, current, cr3, tlb, target, tell, expected, shootdowns>>
      /\ \A d \in Cores \ {c} : stage'[d] = stage[d]
  BY DEF Inv, TlbType, UnmapEnd, Goto, ipiVars
<1>4. \A t \in AllSpaces : /\ Unmappers(t)' = IF t = s THEN {} ELSE Unmappers(t)
                           /\ Unmappers(t) \subseteq Cores /\ Asked(t)' = Asked(t)
                           /\ t # s => c \notin Unmappers(t)
  <2>1. \A t \in AllSpaces : t # s => c \notin Unmappers(t)
    BY DEF Unmappers, s
  <2>2. \A t \in AllSpaces : Unmappers(t)' = Unmappers(t) \ {c} /\ Unmappers(t) \subseteq Cores
    BY <1>1, <1>3 DEF Unmappers
  <2>3. \A t \in AllSpaces : Asked(t)' = Asked(t)
    BY <1>3 DEF Asked, In
  <2> QED BY <1>2, <2>1, <2>2, <2>3
<1>5. \A d \in Cores \ {c} : Untold(d)' = Untold(d)
  BY <1>3 DEF Untold, In
<1>6. TlbType'
  BY TlbAssumption DEF Inv, TlbType, Placed, UnmapEnd, Goto, tables, ipiVars, locals, Stages
<1>7. Placed'
  BY TlbAssumption DEF Inv, TlbType, Placed, UnmapEnd, Goto, tables, ipiVars, locals, Stages
<1>8. Members'
  BY TlbAssumption DEF Inv, TlbType, Placed, Members, UnmapEnd, Goto, tables, ipiVars, locals,
         Stages
<1>9. Locked'
  BY TlbAssumption DEF Inv, TlbType, Placed, Locked, Unmappers, UnmapEnd, Goto, tables,
         ipiVars, locals, Stages
<1>10. OfTable'
  BY TlbAssumption DEF Inv, TlbType, Placed, OfTable, KernelStays, UnmapEnd, Goto, tables,
         ipiVars, locals, Stages
<1>11. KernelStays'
  BY TlbAssumption DEF Inv, TlbType, Placed, KernelStays, UnmapEnd, Goto, tables, ipiVars,
         locals, Stages
<1>12. Current'
  <2> SUFFICES ASSUME NEW d \in Cores, NEW e \in tlb'[d], stage'[d] \notin {"enter", "cr3"},
                      e.frame # pte'[e.space]
               PROVE  \E b \in Cores \ {d} : /\ b \in Unmappers(e.space)' /\ old'[b] = e.frame
                                             /\ d \in Untold(b)' \cup Asked(e.space)'
    BY DEF Current
  <2>1. e \in tlb[d] /\ stage[d] \notin {"enter", "cr3"} /\ e.space \in AllSpaces
    BY <1>1, <1>3 DEF Inv, TlbType, Entries
  <2>2. PICK b \in Cores \ {d} : /\ b \in Unmappers(e.space) /\ old[b] = e.frame
                                  /\ d \in Untold(b) \cup Asked(e.space)
    BY <1>3, <2>1 DEF Inv, Current
  <2>3. e.space # s /\ b # c
    BY <1>2, <1>4, <2>1, <2>2
  <2>4. old'[b] = old[b]
    BY <1>3, <2>3 DEF Inv, TlbType
  <2> QED BY <1>4, <1>5, <2>1, <2>2, <2>3, <2>4
<1>13. AskedOnce'
  <2>1. (\A d \in Cores : Distinct(shootdowns[d]) /\ Distinct(tell[d]))'
    BY <1>3 DEF Inv, AskedOnce
  <2>2. (\A t \in AllSpaces : Unmappers(t) = {} => Asked(t) = {})'
    BY <1>2, <1>4 DEF Inv, AskedOnce
  <2>3. ASSUME NEW t \in AllSpaces, NEW d \in Unmappers(t)' PROVE Untold(d)' \cap Asked(t)' = {}
    <3>1. t # s /\ d \in Unmappers(t) /\ d \in Cores \ {c}
      BY <1>4, <2>3
    <3> QED BY <1>4, <1>5, <3>1 DEF Inv, AskedOnce
  <2> QED BY <2>1, <2>2, <2>3 DEF AskedOnce
<1>14. Answers'
  <2> SUFFICES ASSUME NEW t \in AllSpaces, NEW d \in Unmappers(t)'
               PROVE  acks'[t] + Cardinality(Asked(t)') =
                        expected'[d] + (IF stage'[d] = "send" THEN 1 ELSE 0)
    BY DEF Answers
  <2>1. t # s /\ d \in Unmappers(t) /\ d \in Cores \ {c} /\ Asked(t)' = Asked(t)
    BY <1>4
  <2> QED BY <1>3, <2>1 DEF Inv, Answers
<1> QED BY <1>6, <1>7, <1>8, <1>9, <1>10, <1>11, <1>12, <1>13, <1>14 DEF Inv

\* A CPU begins to handle its interrupts.
LEMMA InterruptKeeps ==
  ASSUME Inv, Kernel \notin Changing, NEW c \in Cores, Interrupt(c)
  PROVE  Inv'
<1>1. SameUnmaps /\ UNCHANGED <<shootdowns, tell, expected, acks>>
  BY TlbAssumption DEF Inv, TlbType, SameUnmaps, Interrupt, Goto, tables, ipiVars, locals
<1>2. TlbType'
  BY TlbAssumption DEF Inv, TlbType, Placed, Interrupt, Goto, tables, ipiVars, locals, Stages
<1>3. Placed'
  BY TlbAssumption DEF Inv, TlbType, Placed, Interrupt, Goto, tables, ipiVars, locals, Stages
<1>4. Members'
  BY TlbAssumption DEF Inv, TlbType, Placed, Members, Interrupt, Goto, tables, ipiVars, locals,
         Stages
<1>5. Locked'
  BY TlbAssumption DEF Inv, TlbType, Placed, Locked, Unmappers, Interrupt, Goto, tables,
         ipiVars, locals, Stages
<1>6. OfTable'
  BY TlbAssumption DEF Inv, TlbType, Placed, OfTable, KernelStays, Interrupt, Goto, tables,
         ipiVars, locals, Stages
<1>7. KernelStays'
  BY TlbAssumption DEF Inv, TlbType, Placed, KernelStays, Interrupt, Goto, tables, ipiVars,
         locals, Stages
<1>8. Current'
  BY <1>1, CurrentStays DEF Inv, TlbType, Interrupt, Goto, tables, ipiVars, locals
<1>9. AskedOnce'
  BY <1>1, AskedStays
<1>10. Answers'
  BY <1>1, AskedStays
<1> QED BY <1>2, <1>3, <1>4, <1>5, <1>6, <1>7, <1>8, <1>9, <1>10 DEF Inv

\* The asked CPU drops its translations and answers.
LEMMA IpiShootdownKeeps ==
  ASSUME Inv, Kernel \notin Changing, NEW c \in Cores, IpiShootdown(c)
  PROVE  Inv'
<1> DEFINE s == Last(shootdowns[c])
<1>1. /\ s \in AllSpaces /\ In(s, shootdowns[c])
      /\ Front(shootdowns[c]) \in Seq(AllSpaces) /\ Distinct(Front(shootdowns[c]))
      /\ \A y : In(y, Front(shootdowns[c])) <=> In(y, shootdowns[c]) /\ y # s
  <2>1. shootdowns[c] \in Seq(AllSpaces) /\ shootdowns[c] # <<>> /\ Distinct(shootdowns[c])
    BY DEF Inv, TlbType, AskedOnce, IpiShootdown
  <2> QED BY <2>1, Lastless
<1> HIDE DEF s
<1>2. /\ shootdowns' = [shootdowns EXCEPT ![c] = Front(shootdowns[c])]
      /\ tlb' = [tlb EXCEPT ![c] = Invalidated(c, s)] /\ acks' = [acks EXCEPT ![s] = acks[s] + 1]
      /\ UNCHANGED <<pte, spaceLock, cpus, current, cr3, stage, target, tell, expected, old>>
  BY DEF IpiShootdown, locals, s
<1>3. c \in Asked(s) /\ \A t \in AllSpaces : Asked(t)' = IF t = s THEN Asked(t) \ {c} ELSE Asked(t)
  <2>1. \A d \in Cores : \A t \in AllSpaces :
          In(t, shootdowns'[d]) <=> In(t, shootdowns[d]) /\ ~(d = c /\ t = s)
    BY <1>1, <1>2 DEF Inv, TlbType
  <2>2. \A t \in AllSpaces : Asked(t)' = {d \in Cores : In(t, shootdowns'[d])}
    BY DEF Asked, In
  <2> QED BY <1>1, <2>1, <2>2 DEF Asked
<1>4. /\ \A t \in AllSpaces : Unmappers(t)' = Unmappers(t) /\ Unmappers(t) \subseteq Cores
      /\ \A d \in Cores : Untold(d)' = Untold(d)
  BY <1>2 DEF Unmappers, Untold, In
<1>5. \A e \in tlb'[c] : e \in tlb[c] /\ e.space # s
  BY <1>2 DEF Inv, TlbType, OfTable, Invalidated, Flushed
<1>6. \A d \in Cores : tlb'[d] \subseteq tlb[d]
  BY <1>2, <1>5 DEF Inv, TlbType
<1>7. TlbType'
  <2>1. tlb' \in [Cores -> SUBSET Entries]
    BY <1>2, <1>6 DEF Inv, TlbType
  <2>2. acks' \in [AllSpaces -> Nat] /\ shootdowns' \in [Cores -> Seq(AllSpaces)]
    BY <1>1, <1>2 DEF Inv, TlbType
  <2> QED BY <1>2, <2>1, <2>2 DEF Inv, TlbType
<1>8. Placed'
  BY TlbAssumption DEF Inv, TlbType, Placed, IpiShootdown, Goto, tables, ipiVars, locals,
         Stages, Invalidated, Flushed, Entries
<1>9. Members'
  BY TlbAssumption DEF Inv, TlbType, Placed, Members, IpiShootdown, Goto, tables, ipiVars,
         locals, Stages, Invalidated, Flushed, Entries
<1>10. Locked'
  BY TlbAssumption DEF Inv, TlbType, Placed, Locked, Unmappers, IpiShootdown, Goto, tables,
         ipiVars, locals, Stages, Invalidated, Flushed, Entries
<1>11. OfTable'
  BY <1>2, <1>6 DEF Inv, OfTable
<1>12. KernelStays'
  BY TlbAssumption DEF Inv, TlbType, Placed, KernelStays, IpiShootdown, Goto, tables, ipiVars,
         locals, Stages, Invalidated, Flushed, Entries
<1>13. Current'
  <2> SUFFICES ASSUME NEW d \in Cores, NEW e \in tlb'[d], stage'[d] \notin {"enter", "cr3"},
                      e.frame # pte'[e.space]
               PROVE  \E b \in Cores \ {d} : /\ b \in Unmappers(e.space)' /\ old'[b] = e.frame
                                             /\ d \in Untold(b)' \cup Asked(e.space)'
    BY DEF Current
  <2>1. e \in tlb[d] /\ stage[d] \notin {"enter", "cr3"} /\ e.space \in AllSpaces
    BY <1>2, <1>6 DEF Inv, TlbType, Entries
  <2>2. PICK b \in Cores \ {d} : /\ b \in Unmappers(e.space) /\ old[b] = e.frame
                                  /\ d \in Untold(b) \cup Asked(e.space)
    BY <1>2, <2>1 DEF Inv, Current
  <2>3. d = c => e.space # s
    BY <1>5
  <2>4. d \in Untold(b)' \cup Asked(e.space)'
    BY <1>3, <1>4, <2>1, <2>2, <2>3
  <2> QED BY <1>2, <1>4, <2>1, <2>2, <2>4
<1>14. AskedOnce'
  <2>1. (\A d \in Cores : Distinct(shootdowns[d]) /\ Distinct(tell[d]))'
    BY <1>1, <1>2 DEF Inv, TlbType, AskedOnce
  <2>2. (\A t \in AllSpaces : Unmappers(t) = {} => Asked(t) = {})'
    BY <1>3, <1>4 DEF Inv, AskedOnce
  <2>3. ASSUME NEW t \in AllSpaces, NEW d \in Unmappers(t)' PROVE Untold(d)' \cap Asked(t)' = {}
    <3>1. d \in Unmappers(t) /\ d \in Cores /\ Untold(d) \cap Asked(t) = {}
      BY <1>4, <2>3 DEF Inv, AskedOnce
    <3> QED BY <1>3, <1>4, <3>1
  <2> QED BY <2>1, <2>2, <2>3 DEF AskedOnce
<1>15. Answers'
  <2> SUFFICES ASSUME NEW t \in AllSpaces, NEW d \in Unmappers(t)'
               PROVE  acks'[t] + Cardinality(Asked(t)') =
                        expected'[d] + (IF stage'[d] = "send" THEN 1 ELSE 0)
    BY DEF Answers
  <2>1. /\ d \in Unmappers(t) /\ d \in Cores /\ stage'[d] = stage[d] /\ expected'[d] = expected[d]
        /\ acks[t] + Cardinality(Asked(t)) = expected[d] + (IF stage[d] = "send" THEN 1 ELSE 0)
    BY <1>2, <1>4 DEF Inv, Answers
  <2>2. CASE t = s
    <3>1. Cardinality(Asked(t)') = Cardinality(Asked(t)) - 1 /\ Cardinality(Asked(t)) \in Nat
      BY <1>3, <2>2, AskedFinite, FS_RemoveElement
    <3>2. acks'[t] = acks[t] + 1 /\ acks[t] \in Nat
      BY <1>2, <2>2 DEF Inv, TlbType
    <3> QED BY <2>1, <3>1, <3>2
  <2>3. CASE t # s
    <3>1. acks'[t] = acks[t] /\ Asked(t)' = Asked(t)
      BY <1>2, <1>3, <2>3 DEF Inv, TlbType
    <3> QED BY <2>1, <3>1
  <2> QED BY <2>2, <2>3
<1> QED BY <1>7, <1>8, <1>9, <1>10, <1>11, <1>12, <1>13, <1>14, <1>15 DEF Inv

\* A message whose work has been done already is taken off.
LEMMA IpiNextKeeps ==
  ASSUME Inv, Kernel \notin Changing, NEW c \in Cores, IpiNext(c)
  PROVE  Inv'
<1>1. SameUnmaps /\ UNCHANGED <<shootdowns, tell, expected, acks>>
  BY TlbAssumption DEF Inv, TlbType, SameUnmaps, IpiNext, Goto, tables, ipiVars, locals
<1>2. TlbType'
  BY TlbAssumption DEF Inv, TlbType, Placed, IpiNext, Goto, tables, ipiVars, locals, Stages
<1>3. Placed'
  BY TlbAssumption DEF Inv, TlbType, Placed, IpiNext, Goto, tables, ipiVars, locals, Stages
<1>4. Members'
  BY TlbAssumption DEF Inv, TlbType, Placed, Members, IpiNext, Goto, tables, ipiVars, locals,
         Stages
<1>5. Locked'
  BY TlbAssumption DEF Inv, TlbType, Placed, Locked, Unmappers, IpiNext, Goto, tables, ipiVars,
         locals, Stages
<1>6. OfTable'
  BY TlbAssumption DEF Inv, TlbType, Placed, OfTable, KernelStays, IpiNext, Goto, tables,
         ipiVars, locals, Stages
<1>7. KernelStays'
  BY TlbAssumption DEF Inv, TlbType, Placed, KernelStays, IpiNext, Goto, tables, ipiVars,
         locals, Stages
<1>8. Current'
  BY <1>1, CurrentStays DEF Inv, TlbType, IpiNext, Goto, tables, ipiVars, locals
<1>9. AskedOnce'
  BY <1>1, AskedStays
<1>10. Answers'
  BY <1>1, AskedStays
<1> QED BY <1>2, <1>3, <1>4, <1>5, <1>6, <1>7, <1>8, <1>9, <1>10 DEF Inv

\* The handler returns with nothing left to do.
LEMMA IpiEndKeeps ==
  ASSUME Inv, Kernel \notin Changing, NEW c \in Cores, IpiEnd(c)
  PROVE  Inv'
<1>1. SameUnmaps /\ UNCHANGED <<shootdowns, tell, expected, acks>>
  BY TlbAssumption DEF Inv, TlbType, SameUnmaps, IpiEnd, Goto, tables, ipiVars, locals
<1>2. TlbType'
  BY TlbAssumption DEF Inv, TlbType, Placed, IpiEnd, Goto, tables, ipiVars, locals, Stages
<1>3. Placed'
  BY TlbAssumption DEF Inv, TlbType, Placed, IpiEnd, Goto, tables, ipiVars, locals, Stages
<1>4. Members'
  BY TlbAssumption DEF Inv, TlbType, Placed, Members, IpiEnd, Goto, tables, ipiVars, locals,
         Stages
<1>5. Locked'
  BY TlbAssumption DEF Inv, TlbType, Placed, Locked, Unmappers, IpiEnd, Goto, tables, ipiVars,
         locals, Stages
<1>6. OfTable'
  BY TlbAssumption DEF Inv, TlbType, Placed, OfTable, KernelStays, IpiEnd, Goto, tables,
         ipiVars, locals, Stages
<1>7. KernelStays'
  BY TlbAssumption DEF Inv, TlbType, Placed, KernelStays, IpiEnd, Goto, tables, ipiVars,
         locals, Stages
<1>8. Current'
  BY <1>1, CurrentStays DEF Inv, TlbType, IpiEnd, Goto, tables, ipiVars, locals
<1>9. AskedOnce'
  BY <1>1, AskedStays
<1>10. Answers'
  BY <1>1, AskedStays
<1> QED BY <1>2, <1>3, <1>4, <1>5, <1>6, <1>7, <1>8, <1>9, <1>10 DEF Inv

\* The CPU leaves the old space's set while its translations are still cached.
LEMMA LoadLeaveKeeps ==
  ASSUME Inv, Kernel \notin Changing, NEW c \in Cores, LoadLeave(c)
  PROVE  Inv'
<1>1. SameUnmaps /\ UNCHANGED <<shootdowns, tell, expected, acks>>
  BY TlbAssumption DEF Inv, TlbType, SameUnmaps, LoadLeave, Goto, tables, ipiVars, locals
<1>2. TlbType'
  BY TlbAssumption DEF Inv, TlbType, Placed, LoadLeave, Goto, tables, ipiVars, locals, Stages
<1>3. Placed'
  BY TlbAssumption DEF Inv, TlbType, Placed, LoadLeave, Goto, tables, ipiVars, locals, Stages
<1>4. Members'
  BY TlbAssumption DEF Inv, TlbType, Placed, Members, LoadLeave, Goto, tables, ipiVars, locals,
         Stages
<1>5. Locked'
  BY TlbAssumption DEF Inv, TlbType, Placed, Locked, Unmappers, LoadLeave, Goto, tables,
         ipiVars, locals, Stages
<1>6. OfTable'
  BY TlbAssumption DEF Inv, TlbType, Placed, OfTable, KernelStays, LoadLeave, Goto, tables,
         ipiVars, locals, Stages
<1>7. KernelStays'
  BY TlbAssumption DEF Inv, TlbType, Placed, KernelStays, LoadLeave, Goto, tables, ipiVars,
         locals, Stages
<1>8. Current'
  BY <1>1, CurrentStays DEF Inv, TlbType, LoadLeave, Goto, tables, ipiVars, locals
<1>9. AskedOnce'
  BY <1>1, AskedStays
<1>10. Answers'
  BY <1>1, AskedStays
<1> QED BY <1>2, <1>3, <1>4, <1>5, <1>6, <1>7, <1>8, <1>9, <1>10 DEF Inv

\* It enters the new space's set before the page table register is written.
LEMMA LoadEnterKeeps ==
  ASSUME Inv, Kernel \notin Changing, NEW c \in Cores, LoadEnter(c)
  PROVE  Inv'
<1>1. SameUnmaps /\ UNCHANGED <<shootdowns, tell, expected, acks>>
  BY TlbAssumption DEF Inv, TlbType, SameUnmaps, LoadEnter, Goto, tables, ipiVars, locals
<1>2. TlbType'
  BY TlbAssumption DEF Inv, TlbType, Placed, LoadEnter, Goto, tables, ipiVars, locals, Stages
<1>3. Placed'
  BY TlbAssumption DEF Inv, TlbType, Placed, LoadEnter, Goto, tables, ipiVars, locals, Stages
<1>4. Members'
  BY TlbAssumption DEF Inv, TlbType, Placed, Members, LoadEnter, Goto, tables, ipiVars, locals,
         Stages
<1>5. Locked'
  BY TlbAssumption DEF Inv, TlbType, Placed, Locked, Unmappers, LoadEnter, Goto, tables,
         ipiVars, locals, Stages
<1>6. OfTable'
  BY TlbAssumption DEF Inv, TlbType, Placed, OfTable, KernelStays, LoadEnter, Goto, tables,
         ipiVars, locals, Stages
<1>7. KernelStays'
  BY TlbAssumption DEF Inv, TlbType, Placed, KernelStays, LoadEnter, Goto, tables, ipiVars,
         locals, Stages
<1>8. Current'
  BY <1>1, CurrentStays DEF Inv, TlbType, LoadEnter, Goto, tables, ipiVars, locals
<1>9. AskedOnce'
  BY <1>1, AskedStays
<1>10. Answers'
  BY <1>1, AskedStays
<1> QED BY <1>2, <1>3, <1>4, <1>5, <1>6, <1>7, <1>8, <1>9, <1>10 DEF Inv

\* The page table register is written, which drops the translations of the old space.
LEMMA LoadCr3Keeps ==
  ASSUME Inv, Kernel \notin Changing, NEW c \in Cores, LoadCr3(c)
  PROVE  Inv'
<1>1. SameUnmaps /\ UNCHANGED <<shootdowns, tell, expected, acks>>
  BY TlbAssumption DEF Inv, TlbType, SameUnmaps, LoadCr3, Goto, tables, ipiVars, locals
<1>2. TlbType'
  BY TlbAssumption DEF Inv, TlbType, Placed, LoadCr3, Goto, tables, ipiVars, locals, Stages,
         Flushed, Entries
<1>3. Placed'
  BY TlbAssumption DEF Inv, TlbType, Placed, LoadCr3, Goto, tables, ipiVars, locals, Stages,
         Flushed, Entries
<1>4. Members'
  BY TlbAssumption DEF Inv, TlbType, Placed, Members, LoadCr3, Goto, tables, ipiVars, locals,
         Stages, Flushed, Entries
<1>5. Locked'
  BY TlbAssumption DEF Inv, TlbType, Placed, Locked, Unmappers, LoadCr3, Goto, tables, ipiVars,
         locals, Stages, Flushed, Entries
<1>6. OfTable'
  BY TlbAssumption DEF Inv, TlbType, Placed, OfTable, KernelStays, LoadCr3, Goto, tables,
         ipiVars, locals, Stages, Flushed, Entries
<1>7. KernelStays'
  BY TlbAssumption DEF Inv, TlbType, Placed, KernelStays, LoadCr3, Goto, tables, ipiVars,
         locals, Stages, Flushed, Entries
<1>8. Current'
  BY <1>1, CurrentStays DEF Inv, TlbType, LoadCr3, Goto, tables, ipiVars, locals, Flushed, OfTable
<1>9. AskedOnce'
  BY <1>1, AskedStays
<1>10. Answers'
  BY <1>1, AskedStays
<1> QED BY <1>2, <1>3, <1>4, <1>5, <1>6, <1>7, <1>8, <1>9, <1>10 DEF Inv

-----------------------------------------------------------------------------
(* The theorem *)

\* The invariant holds at first.
LEMMA InvInit == TlbInit => Inv
<1> SUFFICES ASSUME TlbInit PROVE Inv
  OBVIOUS
<1>1. \A s \in AllSpaces : Asked(s) = {} /\ Unmappers(s) = {}
  BY DEF TlbInit, Asked, Unmappers, In
<1>2. TlbType /\ Placed /\ Members
  BY TlbAssumption DEF TlbInit, TlbType, Placed, Members, Stages
<1>3. Locked
  BY <1>1, TlbAssumption DEF TlbInit, Locked
<1>4. OfTable /\ KernelStays /\ Current
  BY TlbAssumption DEF TlbInit, OfTable, KernelStays, Current
<1>5. AskedOnce /\ Answers
  BY <1>1 DEF TlbInit, AskedOnce, Answers, Distinct
<1> QED BY <1>2, <1>3, <1>4, <1>5 DEF Inv

\* Every step keeps it.
LEMMA InvStep == Kernel \notin Changing /\ Inv /\ [TlbNext]_tlbVars => Inv'
<1> SUFFICES ASSUME Kernel \notin Changing, Inv, [TlbNext]_tlbVars PROVE Inv'
  OBVIOUS
<1>1. CASE TlbNext
  <2>1. ASSUME NEW c \in Cores, NEW s \in AllSpaces, Touch(c, s) \/ Load(c, s) PROVE Inv'
    BY <2>1, TouchKeeps, LoadKeeps
  <2>2. ASSUME NEW c \in Cores, NEW s \in AllSpaces, NEW op \in {"alloc", "unmap"},
               MappingStart(c, s, op)
        PROVE  Inv'
    BY <2>2, MappingStartKeeps
  <2>3. ASSUME NEW c \in Cores,
               Alloc(c) \/ Unmap(c) \/ ShootdownPush(c) \/ ShootdownSend(c) \/ UnmapEnd(c)
        PROVE  Inv'
    BY <2>3, AllocKeeps, UnmapKeeps, ShootdownPushKeeps, ShootdownSendKeeps, UnmapEndKeeps
  <2>4. ASSUME NEW c \in Cores, Interrupt(c) \/ IpiShootdown(c) \/ IpiNext(c) \/ IpiEnd(c)
        PROVE  Inv'
    BY <2>4, InterruptKeeps, IpiShootdownKeeps, IpiNextKeeps, IpiEndKeeps
  <2>5. ASSUME NEW c \in Cores, LoadLeave(c) \/ LoadEnter(c) \/ LoadCr3(c) PROVE Inv'
    BY <2>5, LoadLeaveKeeps, LoadEnterKeeps, LoadCr3Keeps
  <2> QED BY <1>1, <2>1, <2>2, <2>3, <2>4, <2>5 DEF TlbNext
<1>2. CASE UNCHANGED tlbVars
  <2>1. SameUnmaps /\ UNCHANGED <<shootdowns, tell, expected, acks>>
    BY <1>2 DEF tlbVars, SameUnmaps
  <2>2. AskedOnce' /\ Answers'
    BY <2>1, AskedStays
  <2>3. Current'
    BY <1>2, <2>1, CurrentStays DEF tlbVars
  <2>4. TlbType' /\ Placed' /\ Members' /\ OfTable' /\ KernelStays'
    BY <1>2 DEF tlbVars, Inv, TlbType, Placed, Members, OfTable, KernelStays
  <2>5. Locked'
    BY <1>2 DEF tlbVars, Inv, Locked, Unmappers
  <2> QED BY <2>2, <2>3, <2>4, <2>5 DEF Inv
<1> QED BY <1>1, <1>2

\* No CPU uses a translation of a user space to memory that was given back, for any number of
\* CPUs and spaces: vmm_unmap() frees memory only after every CPU of the space has answered.
THEOREM NoStaleUserTranslation == Kernel \notin Changing => (TlbSpec => []NoStaleTranslation)
<1> SUFFICES ASSUME Kernel \notin Changing PROVE TlbSpec => []NoStaleTranslation
  OBVIOUS
<1>1. Inv => NoStaleTranslation
  BY DEF Inv, TlbType, Current, Unmappers, NoStaleTranslation
<1> QED BY <1>1, InvInit, InvStep, PTL DEF TlbSpec
=============================================================================
