-------------------------------- MODULE Libstd ------------------------------
(***************************************************************************)
(* The C library, src/libstd, in three parts.                              *)
(* Memory, strings and numbers: functions/string, strings, argsplit and    *)
(* stdlib, on a small memory.  A pointer is an address of the memory, a    *)
(* function that writes gives the new memory, and a read outside of the    *)
(* memory is an error of the model.  A character is a number; 0 ends a     *)
(* string.                                                                 *)
(* Formatted input and output: common/print.h and common/scan.h.  A format *)
(* is a sequence of directives: a text that is copied or matched, or a     *)
(* conversion with its flags, width, precision, length and specifier.      *)
(* Streams: user/common/file.c and user/functions/stdio.                   *)
(***************************************************************************)
EXTENDS Integers, Sequences, SequencesExt, FiniteSets, FiniteSetsExt

CONSTANTS
  Word,      \* bytes that are copied at once: 8
  Top        \* the memory has the addresses 0..Top

Null == -1

-----------------------------------------------------------------------------
(* Memory.                                                                 *)

\* One access of k bytes: all are read before any is written.
Chunk(m, d, s, k) == [a \in DOMAIN m |-> IF a \in d..(d + k - 1) THEN m[s + a - d] ELSE m[a]]

\* memcpy() and the forward part of memmove(): bytes until the destination is aligned,
\* then words, then bytes.
RECURSIVE CopyForward(_, _, _, _)
CopyForward(m, d, s, n) ==
  IF n = 0 THEN m
  ELSE IF d % Word # 0 \/ n < Word THEN CopyForward(Chunk(m, d, s, 1), d + 1, s + 1, n - 1)
  ELSE CopyForward(Chunk(m, d, s, Word), d + Word, s + Word, n - Word)

\* From the end: bytes as long as the two pointers are aligned differently.
RECURSIVE CopyBackward(_, _, _, _)
CopyBackward(m, d, s, n) ==
  IF n = 0 THEN m
  ELSE IF d % Word # s % Word \/ n < Word
  THEN CopyBackward(Chunk(m, d - 1, s - 1, 1), d - 1, s - 1, n - 1)
  ELSE CopyBackward(Chunk(m, d - Word, s - Word, Word), d - Word, s - Word, n - Word)

Memmove_Forward(m, d, s, n) == CopyForward(m, d, s, n)

Memmove(m, d, s, n) ==
  IF d > s /\ d < s + n THEN CopyBackward(m, d + n, s + n, n) ELSE CopyForward(m, d, s, n)

Memcpy(m, d, s, n) == CopyForward(m, d, s, n)

Memset(m, d, c, n) == [a \in DOMAIN m |-> IF a \in d..(d + n - 1) THEN c ELSE m[a]]

\* The checked ones give the memory and whether the constraints held.
Memset_s(m, d, max, c, n) ==
  IF n > max THEN [m |-> Memset(m, d, 0, max), ok |-> FALSE]
  ELSE [m |-> Memset(m, d, c, n), ok |-> TRUE]

Memcpy_s(m, d, max, s, n) ==
  IF n > max \/ (d < s /\ d + n > s) \/ (s < d /\ s + n > d)
  THEN [m |-> Memset(m, d, 0, max), ok |-> FALSE]
  ELSE [m |-> CopyForward(m, d, s, n), ok |-> TRUE]

Memmove_s(m, d, max, s, n) ==
  IF n > max THEN [m |-> Memset(m, d, 0, max), ok |-> FALSE]
  ELSE [m |-> Memmove(m, d, s, n), ok |-> TRUE]

RECURSIVE Memchr(_, _, _, _)
Memchr(m, s, c, n) ==
  IF n = 0 THEN Null ELSE IF m[s] = c THEN s ELSE Memchr(m, s + 1, c, n - 1)

RECURSIVE Memcmp(_, _, _, _)
Memcmp(m, s, z, n) ==
  IF n = 0 THEN 0 ELSE IF m[s] # m[z] THEN m[s] - m[z] ELSE Memcmp(m, s + 1, z + 1, n - 1)

-----------------------------------------------------------------------------
(* Strings.                                                                *)

RECURSIVE Strlen(_, _)
Strlen(m, s) == IF m[s] = 0 THEN 0 ELSE 1 + Strlen(m, s + 1)

RECURSIVE StrnlenS(_, _, _)
StrnlenS(m, s, max) == IF max = 0 \/ m[s] = 0 THEN 0 ELSE 1 + StrnlenS(m, s + 1, max - 1)

Put(m, a, c) == [m EXCEPT ![a] = c]

RECURSIVE Strcpy(_, _, _)
Strcpy(m, d, s) == IF m[s] = 0 THEN Put(m, d, 0) ELSE Strcpy(Put(m, d, m[s]), d + 1, s + 1)

Strcat(m, d, s) == Strcpy(m, d + Strlen(m, d), s)

\* strncpy() fills the rest of the n bytes with zeros.
RECURSIVE Strncpy(_, _, _, _)
Strncpy(m, d, s, n) ==
  IF n = 0 THEN m
  ELSE IF m[s] = 0 THEN Memset(m, d, 0, n)
  ELSE Strncpy(Put(m, d, m[s]), d + 1, s + 1, n - 1)

RECURSIVE Append_n(_, _, _, _)
Append_n(m, d, s, n) ==
  IF n = 0 \/ m[s] = 0 THEN Put(m, d, 0) ELSE Append_n(Put(m, d, m[s]), d + 1, s + 1, n - 1)

Strncat(m, d, s, n) == Append_n(m, d + Strlen(m, d), s, n)

Failed(m) == [m |-> m, ok |-> FALSE]

\* The checked copies count max down to -1 when the string does not fit; -1 is a large
\* number, so that the destination is not made empty.  Strings that run into each other
\* are found by the pointers; then it is.
RECURSIVE CopyChecked(_, _, _, _, _, _)
CopyChecked(m, d, s, left, to, from) ==
  IF left = 0 THEN Failed(m)
  ELSE IF d = from \/ s = to THEN Failed(IF left > 1 THEN Put(m, to, 0) ELSE m)
  ELSE IF m[s] = 0 THEN [m |-> Put(m, d, 0), ok |-> TRUE]
  ELSE CopyChecked(Put(m, d, m[s]), d + 1, s + 1, left - 1, to, from)

Strcpy_s(m, d, max, s) == IF max = 0 THEN Failed(m) ELSE CopyChecked(m, d, s, max, d, s)

\* strncpy_s() also ends after n characters, without a terminator.
RECURSIVE NCopyChecked(_, _, _, _, _, _, _)
NCopyChecked(m, d, s, left, n, to, from) ==
  IF left = 0 THEN Failed(m)
  ELSE IF d = from \/ s = to THEN Failed(IF left > 1 THEN Put(m, to, 0) ELSE m)
  ELSE IF n = 0 THEN [m |-> m, ok |-> TRUE]
  ELSE IF m[s] = 0 THEN [m |-> Put(m, d, 0), ok |-> TRUE]
  ELSE NCopyChecked(Put(m, d, m[s]), d + 1, s + 1, left - 1, n - 1, to, from)

Strncpy_s(m, d, max, s, n) ==
  IF max = 0 THEN Failed(m) ELSE NCopyChecked(m, d, s, max, n, d, s)

RanInto(m, d, s) == s \in d..(d + Strlen(m, d) - 1)
Strcat_s(m, d, max, s) ==
  IF max > 0 /\ RanInto(m, d, s) /\ s - d < max
  THEN Failed(IF s - d + 1 < max THEN Put(m, d, 0) ELSE m)
  ELSE IF max = 0 \/ Strlen(m, d) > max THEN Failed(m)
  ELSE CopyChecked(m, d + Strlen(m, d), s, max - Strlen(m, d), d, s)

\* strncat_s() tests n first: the terminator after n characters may be one byte too far.
RECURSIVE NAppendChecked(_, _, _, _, _, _, _)
NAppendChecked(m, d, s, left, n, to, from) ==
  IF n = 0 THEN [m |-> Put(m, d, 0), ok |-> TRUE]
  ELSE IF left = 0 THEN Failed(m)
  ELSE IF d = from \/ s = to THEN Failed(IF left > 1 THEN Put(m, to, 0) ELSE m)
  ELSE IF m[s] = 0 THEN [m |-> Put(m, d, 0), ok |-> TRUE]
  ELSE NAppendChecked(Put(m, d, m[s]), d + 1, s + 1, left - 1, n - 1, to, from)

Strncat_s(m, d, max, s, n) ==
  IF max > 0 /\ RanInto(m, d, s) /\ s - d + 1 < max THEN Failed(Put(m, d, 0))
  ELSE IF max = 0 \/ Strlen(m, d) >= max THEN Failed(m)
  ELSE NAppendChecked(m, d + Strlen(m, d), s, max - Strlen(m, d), n, d, s)

RECURSIVE Strcmp(_, _, _)
Strcmp(m, s, z) == IF m[s] # 0 /\ m[s] = m[z] THEN Strcmp(m, s + 1, z + 1) ELSE m[s] - m[z]

RECURSIVE Strncmp(_, _, _, _)
Strncmp(m, s, z, n) ==
  IF n = 0 THEN 0
  ELSE IF m[s] # 0 /\ m[s] = m[z] THEN Strncmp(m, s + 1, z + 1, n - 1) ELSE m[s] - m[z]

RECURSIVE Strchr(_, _, _)
Strchr(m, s, c) == IF m[s] = c THEN s ELSE IF m[s] = 0 THEN Null ELSE Strchr(m, s + 1, c)

RECURSIVE LastFrom(_, _, _, _)
LastFrom(m, s, i, c) ==
  IF m[s + i] = c THEN s + i ELSE IF i = 0 THEN Null ELSE LastFrom(m, s, i - 1, c)

Strrchr(m, s, c) == LastFrom(m, s, Strlen(m, s), c)

\* The characters of a set that a string gives.
CharsOf(m, s) == {m[s + i] : i \in 0..(Strlen(m, s) - 1)}

RECURSIVE Strspn(_, _, _)
Strspn(m, s, set) ==
  IF m[s] = 0 \/ m[s] \notin CharsOf(m, set) THEN 0 ELSE 1 + Strspn(m, s + 1, set)

RECURSIVE Strcspn(_, _, _)
Strcspn(m, s, set) ==
  IF m[s] = 0 \/ m[s] \in CharsOf(m, set) THEN 0 ELSE 1 + Strcspn(m, s + 1, set)

RECURSIVE Strpbrk(_, _, _)
Strpbrk(m, s, set) ==
  IF m[s] = 0 THEN Null ELSE IF m[s] \in CharsOf(m, set) THEN s ELSE Strpbrk(m, s + 1, set)

\* An empty string is found in every string but an empty one.
RECURSIVE Prefix(_, _, _)
Prefix(m, s, z) == m[z] = 0 \/ (m[s] = m[z] /\ Prefix(m, s + 1, z + 1))
RECURSIVE Strstr(_, _, _)
Strstr(m, s, z) == IF m[s] = 0 THEN Null ELSE IF Prefix(m, s, z) THEN s ELSE Strstr(m, s + 1, z)

\* strtok_s(): the memory, the token and where the next call goes on; max counts what is
\* left of the string.
Strtok(m, s, set) ==
  LET t == s + Strspn(m, s, set)
      e == t + Strcspn(m, t, set)
  IN IF m[t] = 0 THEN [m |-> m, token |-> Null, next |-> t]
     ELSE IF m[e] = 0 THEN [m |-> m, token |-> t, next |-> e]
     ELSE [m |-> Put(m, e, 0), token |-> t, next |-> e + 1]

RECURSIVE Tokens(_, _, _)
Tokens(m, s, set) ==
  LET r == Strtok(m, s, set)
  IN IF r.token = Null THEN <<>>
     ELSE <<[i \in 1..Strlen(r.m, r.token) |-> r.m[r.token + i - 1]]>> \o Tokens(r.m, r.next, set)

-----------------------------------------------------------------------------
(* Numbers.  Character 1 is a space, 2 a minus, 3 a plus, 4 an x and 5 + d  *)
(* the digit d.                                                             *)

CONSTANTS
  Oct, Dec, Hex,     \* the bases: 8, 10 and 16
  MaxNumber          \* LLONG_MAX; ULONG_MAX is 2 * MaxNumber + 1

Blank == 1
Minus == 2
Plus == 3
LetterX == 4
Zero == 5
DigitOf(c) == c - Zero
IsDigit(c, base) == c >= Zero /\ DigitOf(c) < base

RECURSIVE SkipBlank(_, _)
SkipBlank(m, s) == IF m[s] = Blank THEN SkipBlank(m, s + 1) ELSE s

\* _strtoll_prelim(): a prefix 0x counts only in front of a digit.
BaseAt(m, p, base) ==
  IF m[p] = Zero /\ base \in {0, Hex} /\ m[p + 1] = LetterX
  THEN [at |-> IF IsDigit(m[p + 2], Hex) THEN p + 2 ELSE p, base |-> Hex]
  ELSE [at |-> p, base |-> IF base # 0 THEN base ELSE IF m[p] = Zero THEN Oct ELSE Dec]

Prelim(m, s, base) ==
  LET p == SkipBlank(m, s)
      r == BaseAt(m, IF m[p] \in {Plus, Minus} THEN p + 1 ELSE p, base)
  IN [at |-> r.at, base |-> r.base, minus |-> m[p] = Minus]

\* _strtoll_main(): above the limit the digits are skipped; without a digit there is no end.
RECURSIVE SkipDigits(_, _, _)
SkipDigits(m, p, base) == IF IsDigit(m[p], base) THEN SkipDigits(m, p + 1, base) ELSE p
RECURSIVE Digits(_, _, _, _, _)
Digits(m, p, base, limit, rc) ==
  IF ~IsDigit(m[p], base) THEN [value |-> rc, end |-> p, range |-> FALSE]
  ELSE IF rc < limit \div base \/ (rc = limit \div base /\ DigitOf(m[p]) <= limit % base)
  THEN Digits(m, p + 1, base, limit, (rc * base) + DigitOf(m[p]))
  ELSE [value |-> limit, end |-> SkipDigits(m, p, base), range |-> TRUE]

StrtoxMain(m, s, p, base, limit) ==
  IF IsDigit(m[p], base) THEN Digits(m, p, base, limit, 0)
  ELSE [value |-> 0, end |-> s, range |-> FALSE]

Strtoll(m, s, base) ==
  LET at == Prelim(m, s, base)
      r  == StrtoxMain(m, s, at.at, at.base, IF at.minus THEN MaxNumber + 1 ELSE MaxNumber)
  IN [r EXCEPT !.value = IF at.minus THEN -@ ELSE @]

\* A negative number is taken modulo 2 ^ 64; one that is too large is not negated.
Strtoul(m, s, base) ==
  LET at == Prelim(m, s, base)
      r  == StrtoxMain(m, s, at.at, at.base, (2 * MaxNumber) + 1)
  IN [r EXCEPT !.value = IF at.minus /\ ~r.range THEN (-@) % (2 * MaxNumber + 2) ELSE @]

\* atoll() has no limit: the result wraps, as two's complement does.
Wrap(n) == ((n + MaxNumber + 1) % (2 * MaxNumber + 2)) - MaxNumber - 1
RECURSIVE WrapDigits(_, _, _)
WrapDigits(m, p, rc) ==
  IF IsDigit(m[p], Dec) THEN WrapDigits(m, p + 1, Wrap(rc * Dec + DigitOf(m[p]))) ELSE rc

Atoll(m, s) ==
  LET p == SkipBlank(m, s)
      n == WrapDigits(m, IF m[p] \in {Plus, Minus} THEN p + 1 ELSE p, 0)
  IN Wrap(IF m[p] = Minus THEN -n ELSE n)

\* lltoa(), ulltoa(): the digits from the lowest one, then reversed.
RECURSIVE Lowest(_, _)
Lowest(n, base) == IF n = 0 THEN <<>> ELSE <<Zero + (n % base)>> \o Lowest(n \div base, base)
Lltoa(n, base) ==
  IF n = 0 THEN <<Zero>> ELSE Reverse(IF n < 0 THEN Append(Lowest(-n, base), Minus)
                                      ELSE Lowest(n, base))

Ulltoa(n, base) == IF n = 0 THEN <<Zero>> ELSE Reverse(Lowest(n, base))

-----------------------------------------------------------------------------
(* argsplit(): words, and quotes and backslashes within them.  Character 1  *)
(* is a space, 2 a quote and 3 a backslash.                                 *)

Quote == 2
Escape == 3

\* At most max characters are looked at; 0 is no limit.
AtEnd(st) == st.max # 0 /\ st.done >= st.max
StepOn(st) == [st EXCEPT !.at = @ + 1, !.done = @ + 1]
Stopped(st) == [st EXCEPT !.more = FALSE]

\* _argsplit_step_state(): to the next character of an argument.  more says that there is
\* one, new that an argument begins with it.
RECURSIVE OverBlank(_, _)
OverBlank(m, st) ==
  IF AtEnd(st) THEN Stopped(st) ELSE IF m[st.at] = Blank THEN OverBlank(m, StepOn(st)) ELSE st
RECURSIVE Scan(_, _)
OnChar(m, st) ==
  IF m[st.at] = Escape /\ st.escaped = 0 THEN Scan(m, StepOn([st EXCEPT !.escaped = 2]))
  ELSE IF m[st.at] = Quote THEN Scan(m, StepOn([st EXCEPT !.inQuote = ~@, !.new = TRUE]))
  ELSE [st EXCEPT !.more = m[st.at] # 0]

BeforeChar(m, st) ==
  IF st.escaped = 0 /\ ~st.inQuote /\ m[st.at] = Blank
  THEN OverBlank(m, StepOn([st EXCEPT !.new = TRUE])) ELSE st

Scan(m, st) ==
  IF AtEnd(st) /\ st.done > 0 THEN Stopped(st)
  ELSE LET next == BeforeChar(m, [st EXCEPT !.escaped = IF @ > 0 THEN @ - 1 ELSE 0])
       IN IF next.more THEN OnChar(m, next) ELSE next

StepState(m, st) ==
  Scan(m, IF st.first THEN [st EXCEPT !.first = FALSE,
          !.new = TRUE] ELSE StepOn([st EXCEPT !.new = FALSE]))

SplitStart(s, max) ==
  [at |-> s, done |-> 0, max |-> max, escaped |-> 0, inQuote |-> FALSE, new |-> FALSE,
   first |-> TRUE,
   more |-> TRUE]

\* _argsplit_count_chars_and_args().
RECURSIVE CountFrom(_, _, _, _)
CountFrom(m, st, argc, chars) ==
  LET next == StepState(m, st)
  IN IF ~next.more THEN [argc |-> argc, chars |-> chars, ok |-> ~next.inQuote /\ next.escaped = 0]
     ELSE CountFrom(m, next, IF next.new THEN argc + 1 ELSE argc, chars + 1)

\* _argsplit_backend(): args are the places of the arguments in what was written.
RECURSIVE WriteFrom(_, _, _, _)
WriteFrom(m, st, args, out) ==
  LET next  == StepState(m, st)
      ended == IF out # <<>> /\ Last(out) # 0 THEN Append(out, 0) ELSE out
  IN IF ~next.more THEN [args |-> args, out |-> ended]
     ELSE IF next.new THEN WriteFrom(m, next, Append(args, Len(ended)), Append(ended, m[next.at]))
     ELSE WriteFrom(m, next, args, Append(out, m[next.at]))

\* The blanks in front of the arguments count as well; when they are all of the max
\* characters, there is no limit any more.
RECURSIVE LeadingBlanks(_, _, _)
LeadingBlanks(m, s, max) ==
  IF m[s] = Blank /\ max # 0 THEN 1 + LeadingBlanks(m, s + 1, max - 1) ELSE 0

Argsplit(m, s, max) ==
  LET k == LeadingBlanks(m, s, IF max = 0 THEN -1 ELSE max)
      start == SplitStart(s + k, IF max > k THEN max - k ELSE 0)
      c == CountFrom(m, start, 0, 0)
      w == WriteFrom(m, start, <<>>, <<>>)
  IN IF ~c.ok THEN [ok |-> FALSE, argc |-> 0, size |-> 0, args |-> <<>>, out |-> <<>>]
     ELSE IF c.argc = 0 THEN [ok |-> TRUE, argc |-> 0, size |-> 0, args |-> <<>>, out |-> <<>>]
     ELSE [ok |-> TRUE, argc |-> c.argc, size |-> c.chars + c.argc, args |-> w.args,
           out |-> w.out]

-----------------------------------------------------------------------------
(* qsort().                                                                *)

CONSTANT Threshold     \* elements that are sorted by insertion: T

Swap(a, i, j) == [a EXCEPT ![i] = a[j], ![j] = a[i]]
SwapIf(a, i, j) == IF a[i] > a[j] THEN Swap(a, i, j) ELSE a

\* The median of the first, the middle and the last element becomes the first.
Median(a, base, limit) ==
  LET b == Swap(a, base, base + (limit - base) \div 2)
  IN SwapIf(SwapIf(SwapIf(b, base + 1, limit - 1), base, limit - 1), base + 1, base)

RECURSIVE GoRight(_, _, _)
GoRight(a, base, i) == IF a[i] < a[base] THEN GoRight(a, base, i + 1) ELSE i
RECURSIVE GoLeft(_, _, _)
GoLeft(a, base, j) == IF a[j] > a[base] THEN GoLeft(a, base, j - 1) ELSE j

\* The scans from both ends until they cross.
RECURSIVE Partition(_, _, _, _)
Partition(a, base, i, j) ==
  LET i2 == GoRight(a, base, i + 1)
      j2 == GoLeft(a, base, j - 1)
  IN IF i2 > j2 THEN [a |-> Swap(a, base, j2), i |-> i2, j |-> j2]
     ELSE Partition(Swap(a, i2, j2), base, i2, j2)

RECURSIVE Sink(_, _, _)
Sink(a, base, j) ==
  IF a[j] <= a[j + 1] THEN a
  ELSE IF j = base THEN Swap(a, j, j + 1) ELSE Sink(Swap(a, j, j + 1), base, j - 1)

InsertionSort(a, base, limit) ==
  FoldLeft(LAMBDA b, i : Sink(b, base, i - 1), a, [k \in 1..(limit - base - 1) |-> base + k])

\* The larger part waits on the stack; depth is the largest number of parts there.
RECURSIVE Sort(_, _, _, _, _)
Sort(a, base, limit, stack, depth) ==
  IF limit - base > Threshold
  THEN LET p == Partition(Median(a, base, limit), base, base + 1, limit - 1)
           deeper == Max({depth, Len(stack) + 1})
       IN IF p.j - base > limit - p.i
          THEN Sort(p.a, p.i, limit, Append(stack, <<base, p.j>>), deeper)
          ELSE Sort(p.a, base, p.j, Append(stack, <<p.i, limit>>), deeper)
  ELSE LET b == InsertionSort(a, base, limit)
       IN IF stack = <<>> THEN [a |-> b, depth |-> depth]
          ELSE Sort(b, Last(stack)[1], Last(stack)[2], Front(stack), depth)

Qsort(a) == Sort(a, 1, Len(a) + 1, <<>>, 0)
-----------------------------------------------------------------------------
(* What the functions promise, on one memory m.                            *)

Addresses == 0..Top
IsString(m, s) == \E a \in s..Top : m[a] = 0
StringsOf(m) == {s \in Addresses : IsString(m, s)}
Text(m, s) == [i \in 1..Strlen(m, s) |-> m[s + i - 1]]
Apart(s, n, z, k) == s + n <= z \/ z + k <= s
FirstOr(set) == IF set = {} THEN Null ELSE Min(set)
Positions(m, s) == s..(s + Strlen(m, s) - 1)

\* memmove() copies as if through a third place, however the regions overlap and are
\* aligned; memcpy() does when they do not overlap; and the checked functions leave alone
\* what is behind the max bytes of the destination.
MemoryCopied(m) ==
  \A d, s \in Addresses : \A n \in 0..(Top + 1 - Max({d, s})) :
    /\ Memmove(m, d, s, n) = Chunk(m, d, s, n)
    /\ Apart(d, n, s, n) => Memcpy(m, d, s, n) = Chunk(m, d, s, n)
    /\ (Memcmp(m, d, s, n) = 0) <=> (Chunk(m, d, s, n) = m)
    /\ \A max \in 0..(Top + 1 - d) :
         \A r \in {Memcpy_s(m, d, max, s, n), Memmove_s(m, d, max, s, n)} :
           /\ \A a \in Addresses \ (d..(d + max - 1)) : r.m[a] = m[a]
           /\ r.ok => r.m = Chunk(m, d, s, n)

\* The searching functions find the first or last place that there is, and the comparing
\* ones the order of the texts.
StringsSearched(m) ==
  \A s \in StringsOf(m) :
    /\ \A c \in {m[a] : a \in Addresses} :
         /\ Strchr(m, s, c) = FirstOr({a \in s..(s + Strlen(m, s)) : m[a] = c})
         /\ Memchr(m, s, c, Strlen(m, s)) = FirstOr({a \in Positions(m, s) : m[a] = c})
         /\ Strrchr(m, s, c) = LET places == {a \in s..(s + Strlen(m, s)) : m[a] = c}
                               IN IF places = {} THEN Null ELSE Max(places)
    /\ \A z \in StringsOf(m) :
         /\ (Strcmp(m, s, z) = 0) <=> (Text(m, s) = Text(m, z))
         /\ (Strcmp(m, s, z) < 0) <=> (Strcmp(m, z, s) > 0)
         /\ \A n \in 0..2 : (Strncmp(m, s, z, n) = 0) <=>
              (SubSeq(Text(m, s), 1, Min({n, Strlen(m, s)})) =
                 SubSeq(Text(m, z), 1, Min({n, Strlen(m, z)})))
         /\ Strpbrk(m, s, z) = FirstOr({a \in Positions(m, s) : m[a] \in CharsOf(m, z)})
         /\ Strcspn(m, s, z) = IF Strpbrk(m, s, z) = Null THEN Strlen(m, s)
                               ELSE Strpbrk(m, s, z) - s
         /\ Strstr(m, s, z) = FirstOr({a \in Positions(m, s) : IsPrefix(Text(m, z), Text(m, a))})

\* A copy that fits and does not overlap is the text of the source, and a checked copy
\* that succeeds has left the bytes behind the destination alone.
StringsCopied(m) ==
  \A s, d \in StringsOf(m) :
    /\ LET n == Strlen(m, s) + 1
       IN (d + n <= Top + 1 /\ Apart(d, n, s, n)) =>
            /\ Strcpy(m, d, s) = Chunk(m, d, s, n)
            /\ Strcpy_s(m, d, n, s) = [m |-> Chunk(m, d, s, n), ok |-> TRUE]
    /\ LET n == Strlen(m, d) + Strlen(m, s) + 1
       IN (d + n <= Top + 1 /\ Apart(d, n, s, Strlen(m, s) + 1)) =>
            /\ Text(Strcat(m, d, s), d) = Text(m, d) \o Text(m, s)
            /\ Text(Strncat(m, d, s, 1), d) =
                   Text(m, d) \o SubSeq(Text(m, s), 1, Min({1, Strlen(m, s)}))
            /\ Strcat_s(m, d, n, s) = [m |-> Strcat(m, d, s), ok |-> TRUE]
            /\ Strncat_s(m, d, n, s, n) = [m |-> Strcat(m, d, s), ok |-> TRUE]
    /\ \A max \in 0..(Top + 1 - d) : \A n \in 0..2 :
         \A r \in {Strcpy_s(m, d, max, s), Strncpy_s(m, d, max, s, n), Strcat_s(m, d, max, s)} :
           \A a \in Addresses \ (d..(d + max - 1)) : r.m[a] = m[a]

\* strtok() gives the pieces of the string between separators.
Separated(m, s, z) ==
  LET other(a)  == a \in Positions(m, s) /\ m[a] \notin CharsOf(m, z)
      starts    == {a \in Positions(m, s) : other(a) /\ ~other(a - 1)}
      stop(a)   == Min({b \in (a + 1)..(s + Strlen(m, s)) : ~other(b)})
      piece(a)  == [i \in 1..(stop(a) - a) |-> m[a + i - 1]]
      nth(i)    == CHOOSE a \in starts : Cardinality({b \in starts : b < a}) = i - 1
  IN [i \in 1..Cardinality(starts) |-> piece(nth(i))]

TokensSeparated(m) ==
  \A s, z \in StringsOf(m) :
    Apart(s, Strlen(m, s) + 1, z, Strlen(m, z) + 1) => Tokens(m, s, z) = Separated(m, s, z)

\* A number is read from the longest text that is one, with its value or the nearest that
\* there is; and the text that lltoa() gives a number reads as the number, in every base.
RECURSIVE ValueOf(_, _)
ValueOf(digits, base) ==
  IF digits = <<>> THEN 0 ELSE (ValueOf(Front(digits), base) * base) + DigitOf(Last(digits))

Within(n, low, high) == Min({Max({n, low}), high})
Written(text) == [a \in 0..Len(text) |-> IF a < Len(text) THEN text[a + 1] ELSE 0]
Reading(m, at, e, base) ==
  [end |-> e, value |-> ValueOf([i \in 1..(e - at) |-> m[at + i - 1]], base)]

Readings(m, at, base) ==
  {Reading(m, at, e, base) : e \in {e \in (at + 1)..Top : \A a \in at..(e - 1) :
                                      IsDigit(m[a], base)}}

Subjects(m, at, base) ==
  Readings(m, at, IF base # 0 THEN base ELSE IF m[at] = Zero THEN Oct ELSE Dec)
    \cup (IF base \in {0, Hex} /\ at + 1 < Top /\ m[at] = Zero /\ m[at + 1] = LetterX
          THEN Readings(m, at + 2, Hex) ELSE {})

NumbersRead(m) ==
  \A s \in StringsOf(m) : \A base \in {0, Oct, Dec, Hex} :
    LET p    == CHOOSE a \in s..Top : m[a] # Blank /\ \A b \in s..(a - 1) : m[b] = Blank
        all  == Subjects(m, IF m[p] \in {Plus, Minus} THEN p + 1 ELSE p, base)
        best == CHOOSE r \in all : \A q \in all : q.end <= r.end
        n    == IF all = {} THEN 0 ELSE IF m[p] = Minus THEN -best.value ELSE best.value
    IN /\ Strtoll(m, s, base).value = Within(n, -MaxNumber - 1, MaxNumber)
       /\ Strtoll(m, s, base).end = IF all = {} THEN s ELSE best.end
       /\ Strtoul(m, s, base).end = Strtoll(m, s, base).end
       /\ ~Strtoul(m, s, base).range => Strtoul(m, s, base).value = n % (2 * MaxNumber + 2)
       /\ base = Dec => Atoll(m, s) = Wrap(n)

NumbersRoundTrip ==
  \A base \in {Oct, Dec, Hex} :
    /\ \A n \in (-MaxNumber)..MaxNumber : Strtoll(Written(Lltoa(n, base)), 0, base).value = n
    /\ \A n \in 0..(2 * MaxNumber + 1) : Strtoul(Written(Ulltoa(n, base)), 0, base).value = n

\* argsplit() writes as many arguments as it counted, within the memory that it counted,
\* each of them ended; and without quotes and backslashes they are the words among the
\* characters that it may look at.
Limited(m, s, max) ==
  [a \in 0..(Top + 2) |-> IF a = Top + 1 THEN Blank
                          ELSE IF a > Top \/ (max # 0 /\ a >= s + max) THEN 0 ELSE m[a]]

ArgumentsFit(m) ==
  \A s \in StringsOf(m) : \A max \in 0..2 :
    (max = 0 \/ \E a \in s..(s + max - 1) : m[a] # Blank) =>
      \A r \in {Argsplit(m, s, max)} : r.ok =>
        /\ Len(r.args) = r.argc /\ Len(r.out) <= r.size
        /\ r.argc > 0 => Last(r.out) = 0
        /\ {Quote, Escape} \cap CharsOf(m, s) = {} =>
             [i \in 1..r.argc |-> Text(Written(r.out), r.args[i])] =
                 Separated(Limited(m, s, max), s, Top + 1)

\* qsort() gives a permutation in order, and the stack has at most log2 of the elements.
Sorted(m) ==
  LET a == [i \in 1..(2 * Top + 2) |-> m[(i - 1) % (Top + 1)]]
      r == Qsort(a)
      count(b, x) == Cardinality({i \in DOMAIN b : b[i] = x})
  IN /\ \A i \in 1..(Len(a) - 1) : r.a[i] <= r.a[i + 1]
     /\ \A x \in {m[k] : k \in Addresses} : count(a, x) = count(r.a, x)
     /\ 2 ^ r.depth <= Len(a)

StringsAgree(m) ==
  /\ MemoryCopied(m) /\ StringsSearched(m) /\ StringsCopied(m) /\ TokensSeparated(m)
  /\ ArgumentsFit(m) /\ Sorted(m)

-----------------------------------------------------------------------------
(* Formatted input and output.                                             *)

CONSTANTS
  CharSize, ShortSize,    \* numbers of a char and of a short
  PointerDigits           \* 2 * sizeof(void*)

EOF == -1
Star == -9                \* a width or precision that is an argument
Percent == 30
LongSize == 2 * MaxNumber + 2
SizeOf(length) ==
  CASE length = "hh" -> CharSize [] length = "h" -> ShortSize [] OTHER -> LongSize

AsUnsigned(n, size) == n % size
AsSigned(n, size) == ((n + (size \div 2)) % size) - (size \div 2)

Times(c, n) == [i \in 1..n |-> c]
TextIs(text) == [spec |-> "text", text |-> text]
Conversion(spec, flags, width, precision, length) ==
  [spec |-> spec, flags |-> flags, width |-> width, precision |-> precision, length |-> length]

-----------------------------------------------------------------------------
(* Printing.  p is the context: what was put out, how much that is, the    *)
(* arguments that are left, and the counts that %n stored.                 *)

\* _PRINT_WRITE() and _PRINT_FILL() of vsnprintf(), with the counting behind each use.
Emit(p, text) == [p EXCEPT !.out = @ \o text, !.written = @ + Len(text)]
Taken(p) == [p EXCEPT !.args = Tail(@)]     \* va_arg()

Padding(f, len) == IF f.width > len THEN f.width - len ELSE 0
PadsZero(f) == "0" \in f.flags /\ f.precision = EOF

\* _print_padding_left(), _print_padding_right()
PaddingLeft(p, f, len) ==
  IF "-" \in f.flags THEN p ELSE Emit(p,
                                      Times(IF PadsZero(f) THEN Zero ELSE Blank, Padding(f, len)))

PaddingRight(p, f, padding) == IF "-" \in f.flags THEN Emit(p, Times(Blank, padding)) ELSE p

\* The digits are made from the lowest one, in base ten two at a time.
RECURSIVE Pairs(_)
Pairs(n) ==
  IF n >= Dec * Dec
  THEN Pairs(n \div (Dec * Dec)) \o <<Zero + ((n % (Dec * Dec)) \div Dec), Zero + (n % Dec)>>
  ELSE Reverse(Lowest(n, Dec))

DigitsIn(n, base) == IF base = Dec THEN Pairs(n) ELSE Reverse(Lowest(n, base))

\* _print_integer_print(): the sign and the prefix are in front of zeros and behind blanks.
PrefixOf(f, made, base) ==
  IF "#" \notin f.flags \/ made = <<>> THEN <<>>
  ELSE CASE base = Oct -> <<Zero>> [] base = Hex -> <<Zero, LetterX>> [] OTHER -> <<>>

SignOf(f, sign) ==
  CASE sign < 0 -> <<Minus>>
    [] sign > 0 /\ "+" \in f.flags -> <<Plus>>
    [] sign > 0 /\ "+" \notin f.flags /\ " " \in f.flags -> <<Blank>>
    [] OTHER -> <<>>

PrintBody(p, f, body, len) == PaddingRight(Emit(p, body), f, Padding(f, len))
PrintParts(p, f, lead, body) ==
  IF PadsZero(f)
  THEN PrintBody(PaddingLeft(Emit(p, lead), f, Len(lead \o body)), f, body, Len(lead \o body))
  ELSE PrintBody(Emit(PaddingLeft(p, f, Len(lead \o body)), lead), f, body, Len(lead \o body))

IntegerPrint(p, f, made, base, sign) ==
  PrintParts(p, f, SignOf(f, sign) \o PrefixOf(f, made, base),
             Times(Zero, IF f.precision > Len(made) THEN f.precision - Len(made) ELSE 0)
               \o (IF f.precision = EOF /\ made = <<>> THEN <<Zero>> ELSE made))

SignedNumber(p, f, n) ==
  IntegerPrint(p, f, DigitsIn(IF n < 0 THEN -n ELSE n, Dec), Dec, IF n < 0 THEN -1 ELSE 1)

SignedInteger(p, f) == SignedNumber(Taken(p), f, AsSigned(Head(p.args), SizeOf(f.length)))

UnsignedInteger(p, f, base) ==
  IntegerPrint(Taken(p), f, DigitsIn(AsUnsigned(Head(p.args), SizeOf(f.length)), base), base, 0)

PrintChar(p, f) == PrintBody(PaddingLeft(Taken(p), f, 1), f, <<Head(p.args)>>, 1)

\* A string may have no end when the precision is its length.
PrintString(p, f) ==
  LET len == IF f.precision = EOF THEN Len(Head(p.args))
             ELSE Max({0, Min({f.precision, Len(Head(p.args))})})
  IN PrintBody(PaddingLeft(Taken(p), f, len), f, SubSeq(Head(p.args), 1, len), len)

\* _print_format_written()
PrintWritten(p) == [p EXCEPT !.counts = Append(@, p.written)]

Failed_(p) == [p EXCEPT !.ok = FALSE]

\* _print_format(): a width and a precision of * are arguments, in this order.
Convert(p, f) ==
  CASE f.spec \in {"d", "i"} -> SignedInteger(p, f)
    [] f.spec \in {"u", "o", "x"} ->
         UnsignedInteger(p, f,
                 CASE f.spec = "u" -> Dec [] f.spec = "o" -> Oct [] f.spec = "x" -> Hex)
    [] f.spec = "c" -> PrintChar(p, [f EXCEPT !.flags = @ \ {"0"}])
    [] f.spec = "s" -> PrintString(p, [f EXCEPT !.flags = @ \ {"0"}])
    [] f.spec = "p" -> UnsignedInteger(p, [f EXCEPT !.length = "z",
            !.flags = @ \cup {"#", "0"}, !.precision = PointerDigits], Hex)
    [] f.spec = "n" -> PrintWritten(p)
    [] f.spec = "%" -> Emit(p, <<Percent>>)
    [] OTHER -> Failed_(p)     \* floating point, and what is no specifier

WithPrecision(p, f) ==
  IF f.precision # Star THEN Convert(p, f)
  ELSE Convert(Taken(p), [f EXCEPT !.precision = Head(p.args)])

PrintFormat(p, f) ==
  IF f.width # Star THEN WithPrecision(p, f)
  ELSE WithPrecision(Taken(p), [f EXCEPT !.width = Head(p.args)])

\* _print(): to the end, or to the first directive that fails.
PrintAll(format, args) ==
  FoldLeft(LAMBDA p, f : IF ~p.ok THEN p
                         ELSE IF f.spec = "text" THEN Emit(p, f.text) ELSE PrintFormat(p, f),
           [out |-> <<>>, written |-> 0, args |-> args, counts |-> <<>>, ok |-> TRUE], format)

\* vsnprintf(): the size of the buffer only says whether the text is ended; a text that is
\* longer is written nevertheless.
Ended(n, p) ==
  [text |-> IF n > 0 THEN Append(p.out, 0) ELSE p.out, result |-> p.written, counts |-> p.counts]

Vsnprintf(n, format, args) == Ended(n, PrintAll(format, args))

-----------------------------------------------------------------------------
(* Scanning.  s is the context: the input that is left, the character that *)
(* was taken back, how many characters were consumed, and what was stored. *)
(* got counts the characters that were fetched from the source.            *)

Space == [spec |-> "space"]
ScanConversion(spec, suppress, width, length, set, invert) ==
  [spec |-> spec, suppress |-> suppress, width |-> width, length |-> length, set |-> set,
   invert |-> invert]

ScanChar(c) == [spec |-> "text", char |-> c]

\* _scan_next(), _scan_undo(); r is a context and the character that it gave.
ScanNext(s) ==
  IF s.prev # EOF THEN [c |-> s.prev, s |-> [s EXCEPT !.prev = EOF, !.count = @ + 1]]
  ELSE IF s.input = <<>> THEN [c |-> EOF, s |-> [s EXCEPT !.got = @ + 1]]
  ELSE [c |-> Head(s.input), s |-> [s EXCEPT !.input = Tail(@), !.count = @ + 1, !.got = @ + 1]]

ScanUndo(s, c) == IF c = EOF THEN s ELSE [s EXCEPT !.prev = c, !.count = @ - 1]

Stop(s) == [s EXCEPT !.more = FALSE]

\* Characters of a set, at most width of them; r.text are those taken, and r.c the first
\* that is none of them.
RECURSIVE TakeWhile(_, _, _, _)
TakeFrom(r, set, width, text) ==
  IF r.c = EOF THEN [s |-> r.s, text |-> text, c |-> EOF]
  ELSE IF r.c \in set THEN TakeWhile(r.s, set, width, Append(text, r.c))
  ELSE [s |-> ScanUndo(r.s, r.c), text |-> text, c |-> r.c]

TakeWhile(s, set, width, text) ==
  IF width = Len(text) THEN [s |-> s, text |-> text, c |-> 0]
  ELSE TakeFrom(ScanNext(s), set, width, text)

Chars == 1..Percent
NoLimit == -1       \* UINT64_MAX

\* _scan_whitespace()
AfterBlanks(r) == IF r.c = EOF THEN Stop(r.s) ELSE r.s
ScanWhitespace(s) == AfterBlanks(TakeWhile(s, {Blank}, NoLimit, <<>>))

Store(s, value) == [s EXCEPT !.stored = Append(@, value)]
Counted_(s) == [s EXCEPT !.items = @ + 1]

\* _scan_asign_signed_int(), _scan_asign_unsigned_int(): the value in the type of the length.
AssignSigned(s, f, value) == Store(s, AsSigned(value, SizeOf(f.length)))
AssignUnsigned(s, f, value) == Store(s, AsUnsigned(value, SizeOf(f.length)))

\* _scan_format_integer(): a sign, a prefix that chooses the base, and digits.
AfterSign(r) ==
  IF r.c \in {Minus, Plus} THEN ScanNext(r.s) @@ [minus |-> r.c = Minus] ELSE r @@ [minus |-> FALSE]

TakeSign(s) == AfterSign(ScanNext(s))
AfterZero(n, base) ==
  IF n.c = LetterX THEN ScanNext(n.s) @@ [base |-> Hex]
  ELSE [c |-> Zero, s |-> ScanUndo(n.s, n.c), base |-> IF base = 0 THEN Oct ELSE base]

TakePrefix(r, base) ==
  IF r.c = Zero /\ base \in {0, Hex} THEN AfterZero(ScanNext(r.s), base)
  ELSE [c |-> r.c, s |-> r.s, base |-> IF base = 0 THEN Dec ELSE base]

\* After the last digit that the width allows, one more character is fetched and not
\* taken back.
RECURSIVE TakeDigits(_, _, _, _)
TakeDigits(r, base, left, n) ==
  IF r.c = EOF \/ left = 0 THEN [s |-> r.s, n |-> n]
  ELSE IF ~IsDigit(r.c, base) THEN [s |-> ScanUndo(r.s, r.c), n |-> n]
  ELSE TakeDigits(ScanNext(r.s), base, left - 1,
                  [value |-> ((n.value * base) + DigitOf(r.c)) % LongSize, some |-> TRUE])

AssignInteger(d, f, minus, signed) ==
  IF ~d.n.some \/ f.suppress THEN d.s
  ELSE Counted_(IF signed THEN AssignSigned(d.s, f, IF minus THEN -d.n.value ELSE d.n.value)
                ELSE AssignUnsigned(d.s, f, d.n.value))

AfterPrefix(p, f, minus, signed) ==
  AssignInteger(TakeDigits(p, p.base, f.width, [value |-> 0, some |-> FALSE]), f, minus, signed)

Signed(r, f, base, signed) ==
  IF r.c = EOF THEN Stop(r.s) ELSE AfterPrefix(TakePrefix(r, base), f, r.minus, signed)

ScanInteger(s, f, base, signed) == Signed(TakeSign(s), f, base, signed)

\* _scan_format_char(): it counts as an item before the characters are there.
StopAtEnd(c, s) == IF c = EOF THEN Stop(s) ELSE s
CharsTaken(r, f) == StopAtEnd(r.c, IF f.suppress THEN r.s ELSE Counted_(Store(r.s, r.text)))
ScanChars(s, f) ==
  CharsTaken(TakeWhile(s, Chars, IF f.width = NoLimit THEN 1 ELSE f.width, <<>>), f)

\* _scan_format_string() and _scan_format_scanset(): at the end of the input a set fails,
\* with what it has stored not ended and not counted.
RunTaken(r, f, atEnd) ==
  IF r.text = <<>> \/ (r.c = EOF /\ ~atEnd) THEN Stop(r.s)
  ELSE IF f.suppress THEN r.s ELSE Counted_(Store(r.s, r.text))

ScanRun(s, f, set, atEnd) == RunTaken(TakeWhile(s, set, f.width, <<>>), f, atEnd)
ScanString(s, f) == ScanRun(s, f, Chars \ {Blank}, TRUE)
ScanSet(s, f) == ScanRun(s, f, IF f.invert THEN Chars \ f.set ELSE f.set, FALSE)

\* _scan_format_percent(), and a character of the format.
Match(r, char) == IF r.c = char THEN r.s ELSE Stop(ScanUndo(r.s, r.c))
ScanLiteral(s, char) == Match(ScanNext(s), char)

ScanBase(spec) ==
  CASE spec = "i" -> 0
    [] spec \in {"d", "u"} -> Dec
    [] spec = "o" -> Oct
    [] spec \in {"x", "p"} -> Hex

ScanFormat(s, f) ==
  CASE f.spec \in {"i", "d"} -> ScanInteger(s, f, ScanBase(f.spec), TRUE)
    [] f.spec \in {"u", "o", "x", "p"} ->
         ScanInteger(s, IF f.spec = "p"
                        THEN [f EXCEPT !.length = "z"] ELSE f, ScanBase(f.spec), FALSE)
    [] f.spec = "c" -> ScanChars(s, f)
    [] f.spec = "s" -> ScanString(s, f)
    [] f.spec = "[" -> ScanSet(s, f)
    [] f.spec = "n" -> IF f.suppress THEN s ELSE AssignSigned(s, f, s.count)
    [] f.spec = "%" -> ScanLiteral(s, Percent)
    [] OTHER -> Stop(s)

\* _scan(): the character that was taken back last is given back to the source.
ScanEnd(s) ==
  [left |-> IF s.prev = EOF THEN s.input ELSE <<s.prev>> \o s.input, stored |-> s.stored,
   result |-> IF s.count = 0 THEN EOF ELSE s.items, count |-> s.count, got |-> s.got,
   undone |-> s.prev # EOF]

ScanStep(s, f) ==
  CASE ~s.more -> s
    [] s.more /\ f.spec = "space" -> ScanWhitespace(s)
    [] s.more /\ f.spec = "text" -> ScanLiteral(s, f.char)
    [] s.more /\ f.spec \notin {"space", "text"} -> ScanFormat(s, f)

ScanAll(format, input) ==
  ScanEnd(FoldLeft(ScanStep, [input |-> input, prev |-> EOF, count |-> 0, got |-> 0, items |-> 0,
                              stored |-> <<>>, more |-> TRUE], format))

\* vsscanf()
Vsscanf(m, at, format) == ScanAll(format, Text(m, at))

-----------------------------------------------------------------------------
(* What printing and scanning promise.                                     *)

\* The text of a conversion of a number, as the standard describes it (a prefix of base
\* eight and a negative precision apart).
Reference(f, n, base, signed) ==
  LET digits == IF n = 0 /\ f.precision = 0 THEN <<>>
                ELSE Ulltoa(IF n < 0 THEN -n ELSE n, base)
      sign   == IF n < 0 THEN <<Minus>>
                ELSE IF signed /\ "+" \in f.flags THEN <<Plus>>
                ELSE IF signed /\ " " \in f.flags THEN <<Blank>> ELSE <<>>
      prefix == IF "#" \in f.flags /\ base = Hex /\ n # 0 THEN <<Zero, LetterX>> ELSE <<>>
      lead   == sign \o prefix
      number == Times(Zero, Max({0, f.precision - Len(digits)})) \o digits
      gap    == Max({0, f.width - Len(lead \o number)})
  IN IF "-" \in f.flags THEN lead \o number \o Times(Blank, gap)
     ELSE IF "0" \in f.flags /\ f.precision = EOF THEN lead \o Times(Zero, gap) \o number
     ELSE Times(Blank, gap) \o lead \o number

\* A number is printed as the standard says, in the type of the length, the result is the
\* length of the text, and %n gives it; and the text reads as the number that was printed,
\* and as nothing more, whatever the flags, the width and the precision are.
ValueOfType(f, n) ==
  IF f.spec = "d" THEN AsSigned(n, SizeOf(f.length)) ELSE AsUnsigned(n, SizeOf(f.length))

PrintedAs(f, value, p, text) ==
  /\ ("#" \in f.flags /\ f.spec = "o")
       \/ text = Reference(f, value, ScanBase(f.spec), f.spec = "d")
  /\ p.result = Len(text) /\ p.counts = <<Len(text)>>
  /\ (value # 0 \/ f.precision # 0) =>
       \A s \in {ScanAll(<<Space, ScanConversion(f.spec, FALSE, NoLimit, f.length, {}, FALSE)>>,
                         text)} :
         s.stored = <<value>> /\ \A i \in DOMAIN s.left : s.left[i] = Blank

NumberPrinted(f) ==
  \A n \in (-MaxNumber - 1)..(2 * MaxNumber + 1) :
    \A p \in {Vsnprintf(1, <<f, Conversion("n", {}, EOF, EOF, "")>>, <<n>>)} :
      PrintedAs(f, ValueOfType(f, n), p, Front(p.text))

\* %d, %i, %u, %o and %x read what strtoll() and strtoul() read: the same characters, and
\* the same value unless it is too large, or a minus in front of an unsigned number, which
\* is ignored here.
NumberScanned(m) ==
  \A spec \in {"i", "d", "u", "o", "x"} :
    \A s \in {Vsscanf(m, 0, <<Space, ScanConversion(spec, FALSE, NoLimit, "l", {}, FALSE)>>)} :
      \A r \in {IF spec \in {"i", "d"} THEN Strtoll(m, 0, ScanBase(spec))
                ELSE Strtoul(m, 0, ScanBase(spec))} :
        /\ s.result = 1 => s.count = r.end
        /\ (s.result = 1 /\ ~r.range /\ (spec \in {"i", "d"} \/ Minus \notin CharsOf(m, 0))) =>
             s.stored = <<r.value>>
        /\ s.result # 1 => (r.end = 0 \/ m[r.end] = LetterX)

\* %s reads the words of the text, %[ the longest run of the set; and whatever a call reads,
\* the characters that it did not count are those that the next one gets.
Words(m) == Separated(Limited(m, 0, 0), 0, Top + 1)
Wanted(spec, width) == ScanConversion(spec, FALSE, width, "", {Blank, Minus}, FALSE)
Mixed ==
  {<<Wanted("s", NoLimit), Space, Wanted("s", NoLimit)>>, <<Wanted("[", NoLimit)>>,
   <<Wanted("d", 1), Wanted("[", 2), Wanted("c", 1)>>, <<Wanted("[", NoLimit), Wanted("d", 2)>>,
   <<Wanted("d", NoLimit), ScanChar(LetterX), Wanted("c", 2)>>,
   <<Space, Wanted("s", 1), [Wanted("[", NoLimit) EXCEPT !.invert = TRUE]>>}

TextScanned(m) ==
  /\ \A w \in {Words(m)} :
       Vsscanf(m, 0, <<Space, Wanted("s", NoLimit), Space, Wanted("s", NoLimit)>>).stored
         = SubSeq(w, 1, Min({2, Len(w)}))
  /\ \A format \in Mixed : \A s \in {Vsscanf(m, 0, format)} :
       /\ s.left = SubSeq(Text(m, 0), s.count + 1, Strlen(m, 0))
       /\ (format[1].spec = "[" /\ s.stored # <<>>) =>
            s.stored[1] = SubSeq(Text(m, 0), 1, Min({k \in 0..Top : m[k] \notin {Blank, Minus}}))

-----------------------------------------------------------------------------
(* Streams.  One stream on a file of a file system (external: what read(), *)
(* write() and seek() do with the file and its offset).                    *)

CONSTANTS
  BufSize,           \* BUFSIZ
  UngetMax,          \* _UNGETC_MAX
  Modes, Buffering,  \* modes that a stream is opened with, and how it is buffered
  CallsFail,         \* those of read(), write() and seek() that may fail
  FlushesAll,        \* the program calls fflush(NULL)
  MaxFile            \* bound: the length of the file

VARIABLES
  file, offset,      \* the bytes of the file, and the offset of the descriptor
  fh,                \* the stream; cleared: clearerr() found its buffer full, which it still is
  text, at           \* what the program has written and where it is, as the standard says

stdioVars == <<file, offset, fh, text, at>>

Newline == Blank
Closed == [open |-> FALSE, flags |-> {}, buf |-> <<>>, bufIndex |-> 0, bufEnd |-> 0, pos |-> 0,
           unget |-> <<>>, cleared |-> FALSE]

StdioInit == /\ file \in {<<>>, <<Zero, Newline, LetterX, Zero>>} /\ offset = 0 /\ fh = Closed
             /\ text = file /\ at = 0

\* A stream and its file during a call: ok says that the call has not failed so far, broken
\* which system calls fail; out is what it read, or put into the buffer.
World(broken) ==
  [file |-> file, offset |-> offset, fh |-> fh, broken |-> broken, ok |-> TRUE, out |-> <<>>]

Has(w, flag) == flag \in w.fh.flags
Fail(w, flag) == [w EXCEPT !.ok = FALSE, !.fh.flags = @ \cup {flag}]

\* write(): over the bytes at the offset, or behind the end.
Overlay(f, k, bytes) ==
  IF bytes = <<>> THEN f
  ELSE [i \in 1..Max({Len(f), k + Len(bytes)}) |->
     IF i > k /\ i <= k + Len(bytes) THEN bytes[i - k] ELSE IF i <= Len(f) THEN f[i] ELSE 0]

SysWrite(w, bytes) ==
  [w EXCEPT !.file = Overlay(@, w.offset, bytes), !.offset = @ + Len(bytes)]

\* _file_flush_buffer()
FlushBuffer(w) ==
  IF "write" \in w.broken THEN Fail(w, "error")
  ELSE [SysWrite(w, SubSeq(w.fh.buf, 1, w.fh.bufIndex))
          EXCEPT !.fh.pos = @ + w.fh.bufIndex, !.fh.bufIndex = 0]

\* _file_fill_buffer()
Filled(w, bytes) ==
  IF bytes = <<>> THEN Fail(w, "eof")
  ELSE [w EXCEPT !.offset = @ + Len(bytes), !.fh.pos = @ + Len(bytes), !.fh.buf = bytes,
                 !.fh.bufEnd = Len(bytes), !.fh.bufIndex = 0]

FillBuffer(w) ==
  IF "read" \in w.broken THEN Fail(w, "error")
  ELSE Filled(w, SubSeq(w.file, w.offset + 1, Min({Len(w.file), w.offset + BufSize})))

\* _file_seek()
Seek(w, to) ==
  IF "seek" \in w.broken THEN [w EXCEPT !.ok = FALSE]
  ELSE [w EXCEPT !.offset = to, !.fh.unget = <<>>, !.fh.bufIndex = 0, !.fh.bufEnd = 0,
        !.fh.pos = to]

\* _file_prepare_read(), _file_prepare_write()
PrepareRead(w) ==
  IF \/ w.fh.bufIndex > w.fh.bufEnd \/ w.fh.flags \cap {"write", "append", "error", "eof"} # {}
     \/ w.fh.flags \cap {"read", "rw"} = {}
  THEN Fail(w, "error") ELSE [w EXCEPT !.fh.flags = @ \cup {"read"}]

PrepareWrite(w) ==
  IF \/ w.fh.bufIndex < w.fh.bufEnd \/ w.fh.unget # <<>>
     \/ w.fh.flags \cap {"read", "error", "eof"} # {}
     \/ w.fh.flags \cap {"write", "append", "rw"} = {}
  THEN Fail(w, "error") ELSE [w EXCEPT !.fh.flags = @ \cup {"write"}]

\* _FILE_CHECK_AVAIL() and _FILE_GETC(): what was pushed back comes first.
Available(w) == IF w.fh.bufIndex = w.fh.bufEnd /\ w.fh.unget = <<>> THEN FillBuffer(w) ELSE w
TakeChar(w) ==
  IF ~w.ok THEN w
  ELSE IF w.fh.unget # <<>>
  THEN [w EXCEPT !.out = Append(@, Last(w.fh.unget)), !.fh.unget = Front(@)]
  ELSE [w EXCEPT !.out = Append(@, w.fh.buf[w.fh.bufIndex + 1]), !.fh.bufIndex = @ + 1]

GetChar(w) == TakeChar(Available(w))

RECURSIVE GetChars(_, _, _)
GetChars(w, n, stop) ==
  IF n = 0 \/ ~w.ok \/ (w.out # <<>> /\ Last(w.out) = stop) THEN w
  ELSE GetChars(GetChar(w), n - 1, stop)

IfPrepared(w, n, stop) == IF w.ok THEN GetChars(w, n, stop) ELSE w
Reads(w, n, stop) == IfPrepared(PrepareRead(w), n, stop)

Fgetc(w) == Reads(w, 1, EOF)

\* fgets() reads size characters, one more than there is room for with the terminator.
Fgets(w, size) == IF size < 2 THEN w ELSE Reads(w, size, Newline)

Fread(w, size, nmemb) == Reads(w, size * nmemb, EOF)

Ungetc(w, c) ==
  IF c = EOF \/ Len(w.fh.unget) = UngetMax THEN [w EXCEPT !.ok = FALSE]
  ELSE [w EXCEPT !.fh.unget = Append(@, c)]

\* vfscanf(): the characters one by one; the last one may be given back.
GiveBack(w, s) == IF s.undone THEN Ungetc([w EXCEPT !.ok = TRUE], Head(s.left)) ELSE w
AfterScan(w, s) ==
  GiveBack(FoldLeft(LAMBDA a, i : IF a.ok THEN Fgetc(a) ELSE a, w, [i \in 1..s.got |-> i]), s)

Scanned(w, format) == ScanAll(format, Reads(w, 2 * MaxFile, EOF).out)
Vfscanf(w, format) == AfterScan(w, Scanned(w, format))

\* A byte into the buffer, and the buffer into the file when it is full.
PutByte(w, c) ==
  [w EXCEPT !.fh.buf = Append(SubSeq(@, 1, w.fh.bufIndex), c), !.fh.bufIndex = @ + 1,
            !.out = Append(@, c)]

FlushIf(w, condition) == IF condition THEN FlushBuffer(w) ELSE w
IsFull(w) == w.fh.bufIndex = BufSize

FputcPut(w, c) ==
  FlushIf(w, IsFull(w) \/ (Has(w, "line") /\ c = Newline) \/ Has(w, "unbuffered"))

FputcTo(w, c) == IF w.ok THEN FputcPut(PutByte(w, c), c) ELSE w
Fputc(w, c) == FputcTo(PrepareWrite(w), c)

FputsPut(w, c) == FlushIf(w, IsFull(w) \/ (Has(w, "line") /\ c = Newline))
FputsStep(w, c) == IF w.ok THEN FputsPut(PutByte(w, c), c) ELSE w
FputsEnd(w) == FlushIf(w, w.ok /\ Has(w, "unbuffered"))
Fputs(w, bytes) == FputsEnd(FoldLeft(FputsStep, PrepareWrite(w), bytes))

PutsPut(w) == FlushIf(w, IsFull(w))
PutsStep(w, c) == IF w.ok THEN PutsPut(PutByte(w, c)) ELSE w
PutsLine(w) == FlushIf(w, IsFull(w) \/ Has(w, "line") \/ Has(w, "unbuffered"))
PutsEnd(w) == IF w.ok THEN PutsLine(PutByte(w, Newline)) ELSE w
Puts(w, bytes) == PutsEnd(FoldLeft(PutsStep, PrepareWrite(w), bytes))

\* fwrite(): a line-buffered stream writes up to the last newline, and moves the rest to
\* the start of the buffer; lines is where the line after the last newline begins.
Moved(w, r, rest) ==
  IF r.ok THEN [r EXCEPT !.fh.buf = rest, !.fh.bufIndex = Len(rest)]
  ELSE [r EXCEPT !.fh.bufIndex = w.fh.bufIndex]

LinesOut(w, lines) ==
  Moved(w, FlushBuffer([w EXCEPT !.fh.bufIndex = lines]),
        SubSeq(w.fh.buf, lines + 1, w.fh.bufIndex))

FwritePut(w, c, lines) ==
  IF IsFull(w) THEN [w |-> FlushBuffer(w), lines |-> 0]
  ELSE [w |-> w, lines |-> IF c = Newline THEN w.fh.bufIndex ELSE lines]

FwriteStep(a, c) == IF a.w.ok THEN FwritePut(PutByte(a.w, c), c, a.lines) ELSE a
FwriteEnd(w, lines) ==
  IF ~w.ok THEN w
  ELSE IF Has(w, "unbuffered") THEN FlushBuffer(w)
  ELSE IF Has(w, "line") /\ lines > 0 THEN LinesOut(w, lines) ELSE w

FwriteAll(a) == FwriteEnd(a.w, a.lines)
Fwrite(w, bytes) == FwriteAll(FoldLeft(FwriteStep, [w |-> PrepareWrite(w), lines |-> 0], bytes))

\* vfprintf(): text is written by fwrite(), padding by fputc(), until one of them fails.
FputcNext(w, c) == IF w.ok THEN Fputc(w, c) ELSE w
PieceOut(w, piece) ==
  IF ~w.ok THEN w
  ELSE IF piece.fill THEN FoldLeft(FputcNext, w, piece.bytes) ELSE Fwrite(w, piece.bytes)

Vfprintf(w, pieces) == FoldLeft(PieceOut, w, pieces)

\* The offset that the three origins give; SEEK_CUR counts what is in the buffers.
Ftell(w) == w.fh.pos - ((w.fh.bufEnd - w.fh.bufIndex) + Len(w.fh.unget))
SeekTarget(w, by, whence) ==
  by + (CASE whence = "set" -> 0
          [] whence = "cur" -> w.offset - ((w.fh.bufEnd - w.fh.bufIndex) + Len(w.fh.unget))
          [] whence = "end" -> Len(w.file))

\* fseek(): a stream for reading and writing may change between them here, even when
\* seek() then fails and the buffers stay as they are.
Turned(w) == (w.fh.flags \ {"eof"}) \ (IF Has(w, "rw") THEN {"read", "write"} ELSE {})
SeekFlushed(w, by, whence) ==
  IF w.ok THEN Seek([w EXCEPT !.fh.flags = Turned(w)], SeekTarget(w, by, whence)) ELSE w

Fseek(w, by, whence) == SeekFlushed(FlushIf(w, Has(w, "write")), by, whence)

\* fflush()
Fflush(w) == FlushBuffer(w)

\* fclose(), and for every stream _files_close() when the program ends.
CloseFlushed(w) == IF w.ok THEN [w EXCEPT !.fh = Closed] ELSE w
Fclose(w) == CloseFlushed(FlushIf(w, Has(w, "write")))

\* _file_flags_parse(), and fopen() with the flags of _flags_to_string(), which knows no
\* combination with append: the file is neither truncated nor appended to.
FlagsParse(mode) ==
  (CASE mode \in {"r", "r+"} -> {"read"} [] mode \in {"w", "w+"} -> {"write"}
     [] mode \in {"a", "a+"} -> {"append", "write"})
    \cup (IF mode \in {"r+", "w+", "a+"} THEN {"rw"} ELSE {})

Truncates(flags) == "write" \in flags /\ "append" \notin flags
Fopen(mode, buffering) ==
  LET flags == FlagsParse(mode)
  IN [file |-> IF Truncates(flags) THEN <<>> ELSE file, offset |-> 0, ok |-> TRUE, out |-> <<>>,
      fh |-> [Closed EXCEPT !.open = TRUE, !.flags = flags \cup {buffering}]]

-----------------------------------------------------------------------------
(* A program with one stream.  The mutex of the stream makes every call    *)
(* one step, whatever threads there are.                                   *)

Strings_ == {<<>>, <<Newline, Zero>>, <<Zero, Newline, Zero>>}
Pieces == {<<[fill |-> TRUE, bytes |-> <<Zero>>], [fill |-> FALSE, bytes |-> <<Newline, Zero>>]>>}
Formats == {<<ScanConversion("x", FALSE, NoLimit, "", {}, FALSE)>>, <<Space, ScanChar(LetterX)>>}

Took(w) == /\ file' = w.file /\ offset' = w.offset
           /\ fh' = [w.fh EXCEPT !.cleared = @ /\ w.fh.bufIndex >= BufSize]
ReadCall(call) ==
  \E w \in {call} : fh.open /\ Took(w) /\ at' = at + Len(w.out) /\ UNCHANGED text

Place == IF "append" \in fh.flags THEN Len(text) ELSE at
WriteCall(call) ==
  \E w \in {call} :
    /\ fh.open /\ Took(w) /\ text' = Overlay(text, Place, w.out)
    /\ at' = (IF w.out = <<>> THEN at ELSE Place + Len(w.out))
         /\ Len(text') <= Max({Len(text), MaxFile})

Open(mode, buffering) ==
  /\ ~fh.open /\ Took(Fopen(mode, buffering)) /\ at' = 0
  /\ text' = IF mode \in {"w", "w+"} THEN <<>> ELSE text

Read(w) == \/ ReadCall(Fgetc(w)) \/ ReadCall(Fgets(w, 2)) \/ ReadCall(Fread(w, 1, 2))

\* What is pushed back is what was read.
Unread(w) ==
  /\ fh.open /\ at > 0 /\ at <= Len(text) /\ "write" \notin fh.flags
  /\ \E r \in {Ungetc(w, text[at])} : Took(r) /\ at' = (IF r.ok THEN at - 1 ELSE at)
  /\ UNCHANGED text

ScanF(w) ==
  \E f \in Formats : \E r \in {Vfscanf(w, f)} :
    fh.open /\ Took(r) /\ at' = at + Scanned(w, f).count /\ UNCHANGED text

Write(w) ==
  \/ \E c \in {Zero, Newline} : WriteCall(Fputc(w, c))
  \/ \E bytes \in Strings_ : WriteCall(Fputs(w, bytes)) \/ WriteCall(Puts(w, bytes))
       \/ WriteCall(Fwrite(w, bytes))
  \/ \E pieces \in Pieces : WriteCall(Vfprintf(w, pieces))

Position(w) ==
  \E whence \in {"set", "cur", "end"}, by \in {-1, 0, 1} :
    \E r \in {Fseek(w, by, whence)},
       to \in {by + (CASE whence = "set" -> 0
                       [] whence = "cur" -> at
                       [] whence = "end" -> Len(text))} :
      /\ fh.open /\ to \in 0..(MaxFile + 1)
      /\ Took(r) /\ at' = (IF r.ok THEN to ELSE at) /\ UNCHANGED text

Flush(w) ==
  /\ fh.open /\ ("write" \in fh.flags \/ FlushesAll)
  /\ \E r \in {Fflush(w)} : Took(r) /\ UNCHANGED <<text, at>>

Close(w) ==
  \E r \in {Fclose(w)} :
    fh.open /\ Took(r) /\ at' = (IF r.fh.open THEN at ELSE 0) /\ UNCHANGED text

\* clearerr(), also after a full buffer could not be written.
Clearerr ==
  /\ fh.open /\ fh.flags \cap {"error", "eof"} # {}
  /\ fh' = [fh EXCEPT !.flags = @ \ {"error", "eof"}, !.cleared = fh.bufIndex = BufSize]
  /\ UNCHANGED <<file, offset, text, at>>

\* No behaviour is followed once a byte was written behind the buffer.
StdioNext ==
  /\ fh.bufIndex <= BufSize
  /\ \/ \E mode \in Modes, buffering \in Buffering : Open(mode, buffering)
     \/ \E broken \in {{}, CallsFail} : \E w \in {World(broken)} :
          Read(w) \/ Unread(w) \/ ScanF(w) \/ Write(w) \/ Position(w) \/ Flush(w) \/ Close(w)
     \/ Clearerr

\* The file, with what waits in the buffer, is what the program has written; ftell() gives
\* the place where the program is; what the stream would read next is what is there; and a
\* closed stream has left nothing behind.  Nothing is written behind the buffer, unless
\* clearerr() was called while a full buffer could not be written (fputc.c:17).
Upcoming(w) == [w EXCEPT !.broken = {}, !.fh.flags = (@ \ {"eof", "error"})]
StreamsAgree ==
  /\ text = IF "write" \in fh.flags
            THEN Overlay(file, offset, SubSeq(fh.buf, 1, fh.bufIndex)) ELSE file
  /\ fh.open => /\ Ftell(World({})) = at /\ fh.pos = offset
                /\ fh.bufIndex <= BufSize \/ fh.cleared
                /\ "write" \notin fh.flags =>
                     GetChars(Upcoming(World({})), 2 * MaxFile, EOF).out =
                         SubSeq(text, at + 1, Len(text))
=============================================================================
