------------------------------ MODULE Streams -------------------------------
(***************************************************************************)
(* The ways data reach a thread in order, side by side: the notes of a     *)
(* thread, a pipe, and local sockets.  They share no state.                *)
(*                                                                         *)
(* In the proofs the ring buffer of fifo.h is described by the age of its  *)
(* cells, their distance from the tail: the cells whose age is below the   *)
(* number of bytes in use hold the next bytes of a stream S.  Reads and    *)
(* writes move the borders, and no step needs the contents of the ring as  *)
(* a sequence.  A pipe carries the stream 1, 2, 3, ...; a socket carries   *)
(* some stream in which packet k starts at off[k], the two are chosen anew *)
(* in each state, so that no proof needs an induction over the packets.    *)
(***************************************************************************)
EXTENDS Fifo, TLAPS

CONSTANTS
  NoteCapacity, Places, MaxNotesSent,                             \* Note
  Users, PipeSize, MaxBytes,                                      \* Pipe
  Peers, SocketSize, PacketSizes, Backlogs, MaxPackets            \* Local

\* Buffers have cells, and the handler of notes is no other place of the program.
ASSUME StreamsAssumption ==
  /\ NoteCapacity \in Nat \ {0} /\ "handler" \notin Places
  /\ PipeSize \in Nat \ {0} /\ SocketSize \in Nat \ {0}
  /\ PacketSizes \subseteq Nat /\ Backlogs \subseteq Nat

VARIABLES
  queue, kill, handling, noteFrame, func, nDying, frame, nSent, delivered,     \* Note
  files, ring, isReadClosed, isWriteClosed, op, sent, received,                \* Pipe
  lstate, accepting, listen, conn, lState, lOp, lSent, got, corrupt            \* Local

noteVars == <<queue, kill, handling, noteFrame, func, nDying, frame, nSent, delivered>>
pipeVars == <<files, ring, isReadClosed, isWriteClosed, op, sent, received>>
localVars == <<lstate, accepting, listen, conn, lState, lOp, lSent, got, corrupt>>
streamVars == <<noteVars, pipeVars, localVars>>

Notes == INSTANCE Note WITH
  MaxNotes <- NoteCapacity, MaxSent <- MaxNotesSent, dying <- nDying, sent <- nSent

P == INSTANCE Pipe WITH Threads <- Users, Size <- PipeSize

Sockets == INSTANCE Local WITH
  Clients <- Peers, Size <- SocketSize, Counts <- PacketSizes,
  state <- lState, op <- lOp, sent <- lSent

StreamsInit == Notes!Init /\ P!Init /\ Sockets!Init

StreamsNext ==
  \/ Notes!Next /\ UNCHANGED <<pipeVars, localVars>>
  \/ P!Next /\ UNCHANGED <<noteVars, localVars>>
  \/ Sockets!Next /\ UNCHANGED <<noteVars, pipeVars>>

StreamsSpec == StreamsInit /\ [][StreamsNext]_streamVars

-----------------------------------------------------------------------------
(* Properties *)

\* Notes, the bytes of a pipe and the packets of a connection arrive once and in order.
StreamInOrder == Notes!StreamInOrder /\ P!StreamInOrder /\ Sockets!StreamInOrder

\* No reader, writer, sender or receiver of a pipe or socket, and no accept(), sleeps while
\* it could go on.
NobodyMissed == P!NoLostWakeup /\ Sockets!NoLostWakeup

-----------------------------------------------------------------------------
(* The ring buffer *)

\* A sum of two places of a buffer of n cells, taken modulo n.
LEMMA Wrap ==
  ASSUME NEW n \in Nat \ {0}, NEW a \in 0..(2 * n - 1)
  PROVE  a % n = IF a < n THEN a ELSE a - n
<1>1. CASE a < n
  <2>1. a \in 0..(n - 1)
    BY <1>1
  <2> QED
    BY <2>1, <1>1
<1>2. CASE a >= n
  <2>1. a \in n..(2 * n - 1)
    BY <1>2
  <2> QED
    BY <2>1, <1>2
<1> QED
  BY <1>1, <1>2

\* How many of n cells are in use, and how far cell i is from the oldest byte.
Filled(n, h, t) == IF h >= t THEN h - t ELSE n - (t - h)
Age(n, t, i) == IF i >= t THEN i - t ELSE i + n - t

\* The cells in use hold the part of the stream S that follows its first b cells, in order.
Stored(n, buf, h, t, b, S) ==
  \A i \in 0..(n - 1) : Age(n, t, i) < Filled(n, h, t) => buf[i] = S[b + Age(n, t, i) + 1]

\* The places of k consecutive cells from t on: first to the end of the buffer, the
\* others from its start.
Split(n, t, k, first, wrapped) ==
  /\ first = Least(n - t, k)
  /\ wrapped = (t + first) % n

\* u is the place k cells behind t.
Moved(n, t, k, u) == u = IF t + k < n THEN t + k ELSE t + k - n

\* The smaller of two numbers (the MIN of fifo.h) is neither above the one nor the other.
LEMMA LeastRange ==
  ASSUME NEW a \in Nat, NEW b \in Nat
  PROVE  Least(a, b) \in Nat /\ Least(a, b) <= a /\ Least(a, b) <= b
BY DEF Least

\* How fifo_read() and fifo_write() split a copy at the end of the buffer: the first part ends
\* with the copy or with the buffer, and what remains goes on at cell 0.
LEMMA SplitEffect ==
  ASSUME NEW n \in Nat \ {0}, NEW t \in 0..(n - 1), NEW k \in 0..(n - 1), NEW first,
         NEW wrapped, Split(n, t, k, first, wrapped)
  PROVE  /\ first \in 0..k /\ t + first <= n
         /\ first = k \/ t + first = n
         /\ wrapped = IF t + first = n THEN 0 ELSE t + first
         /\ Moved(n, t, k, (wrapped + (k - first)) % n)
<1>1. /\ first \in 0..k /\ t + first <= n
      /\ first = k \/ t + first = n
  BY DEF Split, Least
<1>2. wrapped = IF t + first = n THEN 0 ELSE t + first
  <2>1. PICK a \in 0..(2 * n - 1) : a = t + first
    BY <1>1
  <2>2. a % n = IF a < n THEN a ELSE a - n
    BY Wrap
  <2>3. wrapped = a % n
    BY <2>1 DEF Split
  <2> QED
    BY <1>1, <2>1, <2>2, <2>3
<1>3. PICK a \in 0..(2 * n - 1) : a = wrapped + (k - first)
  BY <1>1, <1>2
<1>4. a % n = IF a < n THEN a ELSE a - n
  BY Wrap
<1>5. Moved(n, t, k, a % n)
  BY <1>1, <1>2, <1>3, <1>4 DEF Moved
<1> QED
  BY <1>1, <1>2, <1>3, <1>5

\* Taking k bytes moves the tail past them.
LEMMA TakeEffect ==
  ASSUME NEW n \in Nat \ {0}, NEW h \in 0..(n - 1), NEW t \in 0..(n - 1),
         NEW S, NEW buf, NEW b \in Nat, Stored(n, buf, h, t, b, S),
         NEW k \in 0..Filled(n, h, t), NEW u, Moved(n, t, k, u)
  PROVE  /\ u \in 0..(n - 1) /\ Filled(n, h, u) = Filled(n, h, t) - k
         /\ Stored(n, buf, h, u, b + k, S)
<1>1. u \in 0..(n - 1) /\ Filled(n, h, u) = Filled(n, h, t) - k
  BY DEF Filled, Moved
<1>2. ASSUME NEW i \in 0..(n - 1), Age(n, u, i) < Filled(n, h, u)
      PROVE  buf[i] = S[(b + k) + Age(n, u, i) + 1]
  <2>1. Age(n, t, i) = Age(n, u, i) + k /\ Age(n, t, i) < Filled(n, h, t)
    BY <1>1, <1>2 DEF Age, Filled, Moved
  <2>2. buf[i] = S[b + Age(n, t, i) + 1]
    BY <2>1 DEF Stored
  <2>3. Age(n, u, i) \in Int
    BY <1>1 DEF Age
  <2> QED
    BY <2>1, <2>2, <2>3
<1> QED
  BY <1>1, <1>2 DEF Stored

\* The bytes taken are the oldest, in order.
Bytes(S, b, k) == [j \in 1..k |-> S[b + j]]
Taken(buf, t, k, first, wrapped) ==
  [j \in 1..first |-> buf[t + j - 1]] \o [j \in 1..(k - first) |-> buf[wrapped + j - 1]]

\* The two parts that fifo_read() copies are, put together, the oldest bytes in order.
LEMMA TakenBytes ==
  ASSUME NEW n \in Nat \ {0}, NEW h \in 0..(n - 1), NEW t \in 0..(n - 1),
         NEW S, NEW buf, NEW b \in Nat, Stored(n, buf, h, t, b, S),
         NEW k \in 0..Filled(n, h, t), NEW first, NEW wrapped, Split(n, t, k, first, wrapped)
  PROVE  Taken(buf, t, k, first, wrapped) = Bytes(S, b, k)
<1>1. Filled(n, h, t) \in 0..(n - 1) /\ k \in 0..(n - 1)
  BY DEF Filled
<1>2. /\ first \in 0..k /\ t + first <= n
      /\ first = k \/ t + first = n
      /\ wrapped = IF t + first = n THEN 0 ELSE t + first
  BY <1>1, SplitEffect
<1>3. ASSUME NEW j \in 1..first PROVE buf[t + j - 1] = S[b + j]
  <2>1. t + j - 1 \in 0..(n - 1) /\ Age(n, t, t + j - 1) = j - 1
    BY <1>1, <1>2 DEF Age
  <2>2. buf[t + j - 1] = S[b + Age(n, t, t + j - 1) + 1]
    BY <2>1, <1>1, <1>2 DEF Stored
  <2> QED
    BY <2>1, <2>2
<1>4. ASSUME NEW j \in 1..(k - first) PROVE buf[wrapped + j - 1] = S[b + first + j]
  <2>1. /\ wrapped + j - 1 \in 0..(n - 1) /\ Age(n, t, wrapped + j - 1) = first + j - 1
        /\ first + j - 1 < k
    BY <1>1, <1>2 DEF Age
  <2>2. buf[wrapped + j - 1] = S[b + Age(n, t, wrapped + j - 1) + 1]
    BY <2>1, <1>1, <1>2 DEF Stored
  <2> QED
    BY <2>1, <2>2, <1>2
<1>5. ASSUME NEW x \in Nat, NEW y \in Nat
      PROVE  [j \in 1..x |-> S[b + j]] \o [j \in 1..y |-> S[b + x + j]]
               = [j \in 1..(x + y) |-> S[b + j]]
  OBVIOUS
<1>6. [j \in 1..first |-> buf[t + j - 1]] = [j \in 1..first |-> S[b + j]]
  BY <1>3
<1>7. [j \in 1..(k - first) |-> buf[wrapped + j - 1]] = [j \in 1..(k - first) |-> S[b + first + j]]
  BY <1>4
<1>8. first \in Nat /\ k - first \in Nat /\ first + (k - first) = k
  BY <1>1, <1>2
<1>9. [j \in 1..first |-> S[b + j]] \o [j \in 1..(k - first) |-> S[b + first + j]]
        = [j \in 1..(first + (k - first)) |-> S[b + j]]
  BY <1>5, <1>8
<1> QED
  BY <1>6, <1>7, <1>8, <1>9 DEF Taken, Bytes

\* The age of a cell is below the size of the buffer.
LEMMA AgeRange ==
  ASSUME NEW n \in Nat \ {0}, NEW t \in 0..(n - 1), NEW i \in 0..(n - 1)
  PROVE  Age(n, t, i) \in 0..(n - 1)
BY DEF Age

\* The buffer buf after the bytes that follow the first s of a stream were put in it.
PutBytes(new, n, buf, h, k, first, wrapped, s, S) ==
  \A i \in 0..(n - 1) :
    new[i] = IF i >= h /\ i < h + first THEN S[s + (i - h + 1)]
             ELSE IF i >= wrapped /\ i < wrapped + (k - first) THEN S[s + (i - wrapped + first + 1)]
             ELSE buf[i]

\* Adding k bytes puts the next ones of the stream behind those in the ring.
PutStep(n, buf, h, t, b, k, first, wrapped, u, new, S) ==
  /\ n \in Nat \ {0} /\ h \in 0..(n - 1) /\ t \in 0..(n - 1) /\ b \in Nat
  /\ Stored(n, buf, h, t, b, S)
  /\ k \in 0..(n - 1 - Filled(n, h, t)) /\ Split(n, h, k, first, wrapped)
  /\ Moved(n, h, k, u)
  /\ PutBytes(new, n, buf, h, k, first, wrapped, b + Filled(n, h, t), S)

\* What fifo_write() does to the cells: those that were filled keep what they hold, the next ones
\* hold what follows in the stream.
LEMMA PutEffect ==
  ASSUME NEW n, NEW h, NEW t, NEW buf, NEW b, NEW k, NEW first, NEW wrapped, NEW u, NEW new, NEW S,
         PutStep(n, buf, h, t, b, k, first, wrapped, u, new, S)
  PROVE  /\ u \in 0..(n - 1) /\ Filled(n, u, t) = Filled(n, h, t) + k
         /\ Stored(n, new, u, t, b, S)
<1> SUFFICES ASSUME n \in Nat \ {0}, h \in 0..(n - 1), t \in 0..(n - 1), b \in Nat,
                    k \in 0..(n - 1 - Filled(n, h, t))
             PROVE  /\ u \in 0..(n - 1) /\ Filled(n, u, t) = Filled(n, h, t) + k
                    /\ Stored(n, new, u, t, b, S)
  BY DEF PutStep
<1>1. /\ Stored(n, buf, h, t, b, S) /\ Split(n, h, k, first, wrapped) /\ Moved(n, h, k, u)
      /\ PutBytes(new, n, buf, h, k, first, wrapped, b + Filled(n, h, t), S)
  BY DEF PutStep
<1>2. Filled(n, h, t) \in 0..(n - 1) /\ k \in 0..(n - 1)
  BY DEF Filled
<1>3. /\ first \in 0..k /\ h + first <= n
      /\ first = k \/ h + first = n
      /\ wrapped = IF h + first = n THEN 0 ELSE h + first
  BY <1>1, <1>2, SplitEffect
<1>4. u \in 0..(n - 1) /\ Filled(n, u, t) = Filled(n, h, t) + k
  BY <1>1, <1>2 DEF Filled, Moved
<1>5. ASSUME NEW i \in 0..(n - 1), Age(n, t, i) < Filled(n, u, t)
      PROVE  new[i] = S[b + Age(n, t, i) + 1]
  <2>1. PICK old \in 0..(n - 1) : old = Filled(n, h, t)
    BY <1>2
  <2>2. PICK a \in 0..(n - 1) : a = Age(n, t, i)
    BY AgeRange
  <2>3. old = (IF h >= t THEN h - t ELSE n - (t - h)) /\ old + k < n
    BY <1>2, <2>1 DEF Filled
  <2>4. a = (IF i >= t THEN i - t ELSE i + n - t) /\ a < old + k
    BY <1>4, <1>5, <2>1, <2>2 DEF Age
  <2>5. /\ (i >= h /\ i < h + first) => a = old + (i - h)
        /\ (~(i >= h /\ i < h + first) /\ i >= wrapped /\ i < wrapped + (k - first))
             => a = old + (i - wrapped + first)
        /\ (~(i >= h /\ i < h + first) /\ ~(i >= wrapped /\ i < wrapped + (k - first)))
             => a < old
    <3>1. /\ n \in Nat \ {0} /\ h \in 0..(n - 1) /\ t \in 0..(n - 1)
          /\ k \in 0..(n - 1) /\ first \in 0..k /\ h + first <= n
      BY <1>2, <1>3
    <3>2. first = k \/ h + first = n
      BY <1>3
    <3>3. wrapped = IF h + first = n THEN 0 ELSE h + first
      BY <1>3
    <3>4. CASE h >= t /\ h + first = n
      BY ONLY <3>4, <2>3, <2>4, <3>1, <3>2, <3>3
    <3>5. CASE h >= t /\ h + first # n
      BY ONLY <3>5, <2>3, <2>4, <3>1, <3>2, <3>3
    <3>6. CASE h < t
      BY ONLY <3>6, <2>3, <2>4, <3>1, <3>2, <3>3
    <3> QED
      BY <3>4, <3>5, <3>6
  <2>6. CASE i >= h /\ i < h + first
    <3>1. a = old + (i - h)
      BY <2>6, <2>5
    <3>2. new[i] = S[b + old + (i - h + 1)]
      BY <1>1, <2>1, <2>6 DEF PutBytes
    <3> QED
      BY <2>2, <3>1, <3>2
  <2>7. CASE ~(i >= h /\ i < h + first) /\ i >= wrapped /\ i < wrapped + (k - first)
    <3>1. wrapped = 0 /\ h + first = n
      BY <1>2, <1>3, <2>7
    <3>2. a = old + (i - wrapped + first)
      BY <2>7, <2>5
    <3>3. new[i] = S[b + old + (i - wrapped + first + 1)]
      BY <1>1, <2>1, <2>7 DEF PutBytes
    <3> QED
      BY <2>2, <1>3, <3>1, <3>2, <3>3
  <2>8. CASE ~(i >= h /\ i < h + first) /\ ~(i >= wrapped /\ i < wrapped + (k - first))
    <3>1. a < old
      BY <2>8, <2>5
    <3>2. new[i] = buf[i]
      BY <1>1, <2>8 DEF PutBytes
    <3> QED
      BY <1>1, <2>1, <2>2, <3>1, <3>2 DEF Stored
  <2> QED
    BY <2>6, <2>7, <2>8
<1> QED
  BY <1>4, <1>5 DEF Stored

\* A ring buffer of n cells, and that it holds the bytes b + 1 to s of a stream, in order.
Rings(n, V) ==
  [size : {n}, buffer : [0..(n - 1) -> V], head : 0..(n - 1), tail : 0..(n - 1)]

HoldsBytes(f, b, s, S) ==
  /\ b \in Nat /\ s = b + Filled(f.size, f.head, f.tail)
  /\ Stored(f.size, f.buffer, f.head, f.tail, b, S)

\* The fields of a ring have their ranges.
LEMMA RingFields ==
  ASSUME NEW n \in Nat \ {0}, NEW V, NEW f \in Rings(n, V)
  PROVE  /\ f.size = n /\ f.head \in 0..(n - 1) /\ f.tail \in 0..(n - 1)
         /\ f.buffer \in [0..(n - 1) -> V]
BY DEF Rings

\* fifo_bytes_readable() and fifo_bytes_writeable(): one cell is never used.
LEMMA ReadableRange ==
  ASSUME NEW n \in Nat \ {0}, NEW V, NEW f \in Rings(n, V)
  PROVE  /\ Readable(f) = Filled(n, f.head, f.tail) /\ Readable(f) \in 0..(n - 1)
         /\ Writeable(f) = n - 1 - Readable(f) /\ Writeable(f) \in 0..(n - 1)
<1> DEFINE h == f.head
           t == f.tail
           z == f.size
<1>1. z = n /\ h \in 0..(n - 1) /\ t \in 0..(n - 1)
  BY RingFields
<1>2. /\ Readable(f) = IF h >= t THEN h - t ELSE z - (t - h)
      /\ Writeable(f) = IF t > h THEN t - h - 1 ELSE z - (h - t) - 1
  BY DEF Readable, Writeable
<1> HIDE DEF h, t, z
<1>3. /\ Readable(f) = Filled(n, h, t) /\ Readable(f) \in 0..(n - 1)
      /\ Writeable(f) = n - 1 - Readable(f) /\ Writeable(f) \in 0..(n - 1)
  BY <1>1, <1>2 DEF Filled
<1> QED
  BY <1>3 DEF h, t

\* fifo_read() takes the oldest bytes, in order, and leaves the others.
LEMMA ReadEffect ==
  ASSUME NEW n \in Nat \ {0}, NEW V, NEW f \in Rings(n, V), NEW b, NEW s, NEW S \in [Nat -> V],
         HoldsBytes(f, b, s, S), NEW count \in Nat
  PROVE  \E k \in Nat :
           /\ k = Least(count, Readable(f))
           /\ FifoRead(f, count).ring \in Rings(n, V)
           /\ FifoRead(f, count).data = Bytes(S, b, k)
           /\ HoldsBytes(FifoRead(f, count).ring, b + k, s, S)
<1> DEFINE h == f.head
           t == f.tail
           buf == f.buffer
           k == Least(count, Readable(f))
           first == Least(f.size - f.tail, k)
           wrapped == (f.tail + first) % f.size
           u == (wrapped + (k - first)) % f.size
           r == [f EXCEPT !.tail = u]
<1>1. /\ f.size = n /\ h \in 0..(n - 1) /\ t \in 0..(n - 1) /\ buf \in [0..(n - 1) -> V]
      /\ b \in Nat /\ s = b + Filled(n, h, t) /\ Stored(n, buf, h, t, b, S)
      /\ Readable(f) = Filled(n, h, t) /\ Readable(f) \in 0..(n - 1)
  BY RingFields, ReadableRange DEF HoldsBytes
<1>2. k \in 0..Filled(n, h, t) /\ k \in 0..(n - 1) /\ k \in Nat
  BY <1>1 DEF Least
<1>3. Split(n, t, k, first, wrapped) /\ u = (wrapped + (k - first)) % n
  BY <1>1 DEF Split
<1>4. /\ FifoRead(f, count).ring = r
      /\ FifoRead(f, count).data = [j \in 1..first |-> buf[t + j - 1]]
                                     \o [j \in 1..(k - first) |-> buf[wrapped + j - 1]]
  BY DEF FifoRead
<1>5. h = f.head /\ t = f.tail /\ buf = f.buffer
  OBVIOUS
<1>6. r = [f EXCEPT !.tail = u]
  OBVIOUS
<1>7. k = Least(count, Readable(f))
  OBVIOUS
<1> HIDE DEF h, t, buf, k, first, wrapped, u, r
<1>8. r = [size |-> n, buffer |-> buf, head |-> h, tail |-> u]
  <2>1. /\ f.size = n /\ f.buffer = buf /\ f.head = h
        /\ f \in [size : {n}, buffer : [0..(n - 1) -> V], head : 0..(n - 1), tail : 0..(n - 1)]
    BY <1>1, <1>5 DEF Rings
  <2> QED
    BY ONLY <1>6, <2>1
<1>9. Moved(n, t, k, u)
  BY <1>1, <1>2, <1>3, SplitEffect
<1>10. /\ u \in 0..(n - 1) /\ Filled(n, h, u) = Filled(n, h, t) - k
       /\ Stored(n, buf, h, u, b + k, S)
  BY <1>1, <1>2, <1>9, TakeEffect
<1>11. FifoRead(f, count).data = Bytes(S, b, k)
  <2>1. Taken(buf, t, k, first, wrapped) = Bytes(S, b, k)
    BY <1>1, <1>2, <1>3, TakenBytes
  <2>2. FifoRead(f, count).data = Taken(buf, t, k, first, wrapped)
    BY <1>4 DEF Taken
  <2> QED
    BY <2>1, <2>2
<1>12. r \in Rings(n, V) /\ r.size = n /\ r.buffer = buf /\ r.head = h /\ r.tail = u
  BY <1>1, <1>8, <1>10 DEF Rings
<1>13. s = (b + k) + Filled(n, h, u) /\ b + k \in Nat
  <2>1. PICK x \in 0..(n - 1) : x = Filled(n, h, t)
    BY <1>1
  <2> QED
    BY <2>1, <1>1, <1>2, <1>10
<1>14. HoldsBytes(r, b + k, s, S)
  BY <1>10, <1>12, <1>13 DEF HoldsBytes
<1> QED
  BY <1>2, <1>4, <1>11, <1>12, <1>14, <1>7

\* The sequence q follows in the stream of the bytes that the ring holds.
Follows(n, V, f, b, s, S, q) ==
  /\ n \in Nat \ {0} /\ f \in Rings(n, V) /\ S \in [Nat -> V] /\ s \in Nat
  /\ HoldsBytes(f, b, s, S) /\ q \in Seq(V) /\ \A j \in 1..Len(q) : q[j] = S[s + j]

\* fifo_write() puts the first of the bytes that follow in the stream behind the others.
LEMMA WriteEffect ==
  ASSUME NEW n, NEW V, NEW f, NEW b, NEW s, NEW S, NEW q, Follows(n, V, f, b, s, S, q)
  PROVE  \E k \in Nat :
           /\ k = Least(Len(q), Writeable(f)) /\ FifoWrite(f, q).count = k
           /\ FifoWrite(f, q).ring \in Rings(n, V)
           /\ HoldsBytes(FifoWrite(f, q).ring, b, s + k, S)
<1> n \in Nat \ {0} /\ f \in Rings(n, V) /\ S \in [Nat -> V] /\ s \in Nat /\ q \in Seq(V)
  BY DEF Follows
<1> HoldsBytes(f, b, s, S) /\ \A j \in 1..Len(q) : q[j] = S[s + j]
  BY DEF Follows
<1> DEFINE w == FifoWrite(f, q)
           h == f.head
           t == f.tail
           buf == f.buffer
           count == Len(q)
           k == Least(Len(q), Writeable(f))
           first == Least(f.size - f.head, k)
           wrapped == (f.head + first) % f.size
           u == (wrapped + (k - first)) % f.size
           cell(i) == IF i >= f.head /\ i < f.head + first THEN q[i - f.head + 1]
                      ELSE IF i >= wrapped /\ i < wrapped + (k - first)
                           THEN q[i - wrapped + first + 1]
                      ELSE f.buffer[i]
           new == [i \in DOMAIN f.buffer |-> cell(i)]
           r == [f EXCEPT !.buffer = new, !.head = u]
<1>1. /\ f.size = n /\ h \in 0..(n - 1) /\ t \in 0..(n - 1) /\ buf \in [0..(n - 1) -> V]
      /\ b \in Nat /\ s = b + Filled(n, h, t) /\ Stored(n, buf, h, t, b, S)
      /\ Filled(n, h, t) \in 0..(n - 1)
      /\ Writeable(f) = n - 1 - Filled(n, h, t) /\ Writeable(f) \in 0..(n - 1)
  BY RingFields, ReadableRange DEF HoldsBytes
<1>2. count \in Nat /\ \A j \in 1..count : q[j] = S[s + j]
  OBVIOUS
<1>3. k \in 0..(n - 1 - Filled(n, h, t)) /\ k \in 0..(n - 1) /\ k \in Nat /\ k <= count
  <2>1. PICK room \in Nat : room = Writeable(f)
    BY <1>1
  <2>2. k = Least(count, room)
    BY <1>2, <2>1
  <2>3. k \in Nat /\ k <= count /\ k <= room
    BY <2>2, LeastRange
  <2> HIDE DEF k
  <2> QED
    BY <2>1, <2>3, <1>1
<1>4. Split(n, h, k, first, wrapped) /\ u = (wrapped + (k - first)) % n
  BY <1>1 DEF Split
<1>5. w.ring = r /\ w.count = k /\ k = Least(Len(q), Writeable(f))
  BY DEF FifoWrite
<1>6. /\ DOMAIN buf = 0..(n - 1)
      /\ \A i \in 0..(n - 1) :
           new[i] = IF i >= h /\ i < h + first THEN q[i - h + 1]
                    ELSE IF i >= wrapped /\ i < wrapped + (k - first)
                         THEN q[i - wrapped + first + 1]
                    ELSE buf[i]
  BY <1>1
<1>7. new = [i \in 0..(n - 1) |-> new[i]]
  BY <1>6
<1> HIDE DEF count, k, first, wrapped, u, new
<1> HIDE DEF h, t, buf, r, w
<1>8. /\ Moved(n, h, k, u)
      /\ first \in 0..k /\ h + first <= n
      /\ first = k \/ h + first = n
      /\ wrapped = IF h + first = n THEN 0 ELSE h + first
  BY <1>1, <1>3, <1>4, SplitEffect
<1>9. PICK old \in 0..(n - 1) : old = Filled(n, h, t) /\ s = b + old
  BY <1>1
<1>10. ASSUME NEW i \in 0..(n - 1)
       PROVE  /\ new[i] = IF i >= h /\ i < h + first THEN S[s + (i - h + 1)]
                           ELSE IF i >= wrapped /\ i < wrapped + (k - first)
                                THEN S[s + (i - wrapped + first + 1)]
                           ELSE buf[i]
              /\ new[i] \in V
  <2>1. /\ h \in 0..(n - 1) /\ first \in 0..k /\ k \in Nat /\ k <= count /\ wrapped \in Nat
        /\ count \in Nat
    BY <1>1, <1>2, <1>3, <1>8
  <2>2. CASE i >= h /\ i < h + first
    <3>1. PICK a \in 1..count : a = i - h + 1
      BY <2>1, <2>2
    <3>2. new[i] = q[a]
      BY <1>6, <2>2, <3>1
    <3>3. q[a] = S[s + a] /\ S[s + a] \in V
      BY <1>2, <2>1, <3>1
    <3> QED
      BY <2>2, <3>1, <3>2, <3>3
  <2>3. CASE ~(i >= h /\ i < h + first) /\ i >= wrapped /\ i < wrapped + (k - first)
    <3>1. PICK a \in 1..count : a = i - wrapped + first + 1
      BY <2>1, <2>3
    <3>2. new[i] = q[a]
      BY <1>6, <2>3, <3>1
    <3>3. q[a] = S[s + a] /\ S[s + a] \in V
      BY <1>2, <2>1, <3>1
    <3> QED
      BY <2>3, <3>1, <3>2, <3>3
  <2>4. CASE ~(i >= h /\ i < h + first) /\ ~(i >= wrapped /\ i < wrapped + (k - first))
    BY <1>1, <1>6, <2>4
  <2> QED
    BY <2>2, <2>3, <2>4
<1>11. PutBytes(new, n, buf, h, k, first, wrapped, b + Filled(n, h, t), S)
       /\ new \in [0..(n - 1) -> V]
  BY <1>9, <1>10, <1>7 DEF PutBytes
<1>12. /\ u \in 0..(n - 1) /\ Filled(n, u, t) = Filled(n, h, t) + k
       /\ Stored(n, new, u, t, b, S)
  <2>1. PutStep(n, buf, h, t, b, k, first, wrapped, u, new, S)
    BY <1>1, <1>3, <1>4, <1>8, <1>11 DEF PutStep
  <2> QED
    BY <2>1, PutEffect
<1>13. r \in Rings(n, V) /\ r.size = n /\ r.buffer = new /\ r.head = u /\ r.tail = t
  BY <1>1, <1>11, <1>12 DEF Rings, r, t
<1>14. s + k = b + Filled(n, u, t)
  <2>1. PICK x \in 0..(n - 1) : x = Filled(n, h, t)
    BY <1>1
  <2> QED
    BY <2>1, <1>1, <1>3, <1>12
<1>15. HoldsBytes(r, b, s + k, S)
  BY <1>1, <1>12, <1>13, <1>14 DEF HoldsBytes
<1>16. /\ k = Least(Len(q), Writeable(f)) /\ w.count = k
       /\ w.ring \in Rings(n, V) /\ HoldsBytes(w.ring, b, s + k, S)
  BY <1>5, <1>13, <1>15
<1> QED
  BY <1>3, <1>16 DEF w

Joined(S, b, k, c) == Bytes(S, 0, b) \o Bytes(S, b, k) = Bytes(S, 0, c)

\* Two neighbouring parts of a stream make one.
LEMMA BytesAppend ==
  ASSUME NEW S, NEW b \in Nat, NEW k \in Nat, NEW c \in Nat, c = b + k
  PROVE  Joined(S, b, k, c)
BY DEF Joined, Bytes

\* A ring of n cells holds fewer than n bytes.
LEMMA FilledRange ==
  ASSUME NEW n \in Nat \ {0}, NEW h \in 0..(n - 1), NEW t \in 0..(n - 1)
  PROVE  Filled(n, h, t) \in 0..(n - 1)
BY DEF Filled

\* A difference of two places of a buffer of n cells, taken modulo n.
LEMMA WrapBack ==
  ASSUME NEW n \in Nat \ {0}, NEW a \in (-n)..(n - 1)
  PROVE  a % n = IF a >= 0 THEN a ELSE a + n
<1>1. CASE a >= 0
  <2>1. a \in 0..(n - 1)
    BY <1>1
  <2> QED
    BY <2>1, <1>1
<1>2. CASE a < 0
  <2>1. a \in (-n)..(-1)
    BY <1>2
  <2> QED
    BY <2>1, <1>2
<1> QED
  BY <1>1, <1>2

\* What a reader would get are the bytes the ring holds.
LEMMA ContentsBytes ==
  ASSUME NEW n \in Nat \ {0}, NEW V, NEW f \in Rings(n, V), NEW b, NEW s, NEW S,
         HoldsBytes(f, b, s, S)
  PROVE  \E m \in Nat : Contents(f) = Bytes(S, b, m) /\ s = b + m /\ b \in Nat
<1> DEFINE h == f.head
           t == f.tail
           buf == f.buffer
<1>1. /\ f.size = n /\ h \in 0..(n - 1) /\ t \in 0..(n - 1) /\ buf \in [0..(n - 1) -> V]
      /\ b \in Nat /\ s = b + Filled(n, h, t) /\ Stored(n, buf, h, t, b, S)
  BY RingFields DEF HoldsBytes
<1>2. Contents(f) = [j \in 1..((h - t) % n) |-> buf[(t + j - 1) % n]]
  BY <1>1 DEF Contents
<1> HIDE DEF h, t, buf
<1>3. PICK m \in 0..(n - 1) : m = Filled(n, h, t)
  BY <1>1, FilledRange
<1>4. (h - t) % n = m
  <2>1. PICK d \in (-n)..(n - 1) : d = h - t
    BY <1>1
  <2>2. d % n = IF d >= 0 THEN d ELSE d + n
    BY WrapBack
  <2>3. (h - t) % n = d % n
    BY <2>1
  <2> QED
    BY <2>1, <2>2, <2>3, <1>1, <1>3 DEF Filled
<1>5. ASSUME NEW j \in 1..m PROVE buf[(t + j - 1) % n] = S[b + j]
  <2>1. PICK a \in 0..(2 * n - 1) : a = t + j - 1
    BY <1>1
  <2>2. a % n = IF a < n THEN a ELSE a - n
    BY Wrap
  <2>3. PICK i \in 0..(n - 1) : i = a % n
    BY <2>1, <2>2, <1>1
  <2>4. t \in 0..(n - 1)
    BY <1>1
  <2>5. Age(n, t, i) = j - 1
    BY ONLY <2>1, <2>2, <2>3, <2>4, n \in Nat \ {0} DEF Age
  <2>6. Age(n, t, i) < Filled(n, h, t)
    BY <2>5, <1>3
  <2>7. buf[i] = S[b + Age(n, t, i) + 1]
    BY <2>6, <1>1 DEF Stored
  <2> QED
    BY <2>1, <2>3, <2>5, <2>7, <1>1
<1>6. Contents(f) = Bytes(S, b, m)
  BY <1>2, <1>4, <1>5 DEF Bytes
<1> QED
  BY <1>1, <1>3, <1>6

-----------------------------------------------------------------------------
(* Pipes: their stream is the one of all numbers. *)

Numbers == [j \in Nat |-> j]

\* A part of the stream of all numbers.
LEMMA NumberBytes ==
  ASSUME NEW b \in Nat, NEW k \in Nat
  PROVE  Bytes(Numbers, b, k) = [j \in 1..k |-> b + j]
BY DEF Bytes, Numbers

\* The stream of all numbers holds j at place j.
LEMMA NumbersType == Numbers \in [Nat -> Nat] /\ \A j \in Nat : Numbers[j] = j
BY DEF Numbers

\* Pipe and Local use the same queue.
LEMMA PipeFifo ==
  ASSUME NEW f, NEW x
  PROVE  /\ P!FifoRead(f, x) = FifoRead(f, x) /\ P!FifoWrite(f, x) = FifoWrite(f, x)
         /\ P!Readable(f) = Readable(f) /\ P!Writeable(f) = Writeable(f)
         /\ P!FifoInit(x) = FifoInit(x) /\ P!Contents(f) = Contents(f)
<1>1. P!Readable(f) = Readable(f) /\ P!Writeable(f) = Writeable(f)
  BY DEF P!Readable, P!Writeable, Readable, Writeable
<1>2. \A a, b : P!Least(a, b) = Least(a, b)
  BY DEF P!Least, Least
<1>3. P!FifoRead(f, x) = FifoRead(f, x)
  BY <1>1, <1>2 DEF P!FifoRead, FifoRead
<1>4. P!FifoWrite(f, x) = FifoWrite(f, x)
  BY <1>1, <1>2 DEF P!FifoWrite, FifoWrite
<1>5. P!FifoInit(x) = FifoInit(x) /\ P!Contents(f) = Contents(f)
  BY DEF P!FifoInit, FifoInit, P!Contents, Contents
<1> QED
  BY <1>1, <1>3, <1>4, <1>5

Ops == [kind : {"none", "read", "write"}, count : Nat, at : {"run", "wait", "woken"}]

\* The inductive invariant: the ring holds what was sent and not yet received, and who
\* sleeps has found no reason to go on.
InOrder == \E b \in Nat : received = Bytes(Numbers, 0, b) /\ HoldsBytes(ring, b, sent, Numbers)
Asleep ==
  \A t \in Users : op[t].at = "wait" =>
    \/ op[t].kind = "read" /\ ~P!MayRead
    \/ op[t].kind = "write" /\ ~P!MayWrite

PipeInv ==
  /\ ring \in Rings(PipeSize, Nat) /\ sent \in Nat /\ op \in [Users -> Ops]
  /\ InOrder /\ Asleep

\* pipe_open(): a new pipe is empty, and nobody waits for it.
LEMMA PipeInit == ASSUME PipeSize \in Nat \ {0}, P!Init PROVE PipeInv
<1>1. ring = [size |-> PipeSize, buffer |-> [i \in 0..(PipeSize - 1) |-> 0], head |-> 0, tail |-> 0]
  BY PipeFifo DEF P!Init, FifoInit
<1>2. ring \in Rings(PipeSize, Nat)
  BY <1>1 DEF Rings
<1>3. HoldsBytes(ring, 0, sent, Numbers)
  <2>1. Filled(PipeSize, 0, 0) = 0
    BY DEF Filled
  <2>2. \A i \in 0..(PipeSize - 1) : Age(PipeSize, 0, i) = i
    BY DEF Age
  <2>3. Stored(PipeSize, ring.buffer, 0, 0, 0, Numbers)
    BY <2>1, <2>2 DEF Stored
  <2> QED
    BY <1>1, <2>1, <2>3 DEF HoldsBytes, P!Init
<1>4. received = Bytes(Numbers, 0, 0)
  BY DEF P!Init, Bytes
<1>5. op \in [Users -> Ops] /\ Asleep
  BY DEF P!Init, P!Idle, Ops, Asleep
<1> QED
  BY <1>2, <1>3, <1>4, <1>5 DEF PipeInv, InOrder, P!Init

\* Nobody sleeps after everybody was woken.
LEMMA WakeAll ==
  ASSUME NEW o \in [Users -> Ops]
  PROVE  P!Wake(o) \in [Users -> Ops] /\ \A t \in Users : P!Wake(o)[t].at # "wait"
BY DEF P!Wake, Ops

\* pipe_read() hands out the bytes that follow those it gave before, and wakes everybody.
LEMMA ReadStep ==
  ASSUME PipeSize \in Nat \ {0}, PipeInv, NEW t \in Users, NEW count \in Nat, P!Read(t, count)
  PROVE  PipeInv'
<1>1. PICK b \in Nat : received = Bytes(Numbers, 0, b) /\ HoldsBytes(ring, b, sent, Numbers)
  BY DEF PipeInv, InOrder
<1>2. ring \in Rings(PipeSize, Nat)
  BY DEF PipeInv
<1>3. PICK k \in Nat :
        /\ FifoRead(ring, count).ring \in Rings(PipeSize, Nat)
        /\ FifoRead(ring, count).data = Bytes(Numbers, b, k)
        /\ HoldsBytes(FifoRead(ring, count).ring, b + k, sent, Numbers)
  BY <1>1, <1>2, NumbersType, ReadEffect
<1>4. /\ ring' = FifoRead(ring, count).ring
      /\ received' = received \o FifoRead(ring, count).data /\ sent' = sent
  BY PipeFifo DEF P!Read
<1>5. PICK c \in Nat : c = b + k
  OBVIOUS
<1>6. received' = Bytes(Numbers, 0, c)
  <2>1. FifoRead(ring, count).data = Bytes(Numbers, b, k)
    BY <1>3
  <2>2. Bytes(Numbers, 0, b) \o Bytes(Numbers, b, k) = Bytes(Numbers, 0, c)
    <3>1. Joined(Numbers, b, k, c)
      BY <1>5, BytesAppend
    <3> QED
      BY <3>1 DEF Joined
  <2> QED
    BY <1>1, <1>4, <2>1, <2>2
<1>7. InOrder'
  BY <1>3, <1>4, <1>6, <1>5 DEF InOrder
<1>8. [op EXCEPT ![t] = P!Idle] \in [Users -> Ops]
  BY DEF PipeInv, P!Idle, Ops
<1>9. op' \in [Users -> Ops] /\ Asleep'
  BY <1>8, WakeAll DEF P!Read, Asleep
<1> QED
  BY <1>3, <1>4, <1>7, <1>9 DEF PipeInv

\* pipe_write() adds bytes behind those in the ring, and wakes everybody.
LEMMA WriteStep ==
  ASSUME PipeSize \in Nat \ {0}, PipeInv, NEW t \in Users, NEW count \in Nat, P!Write(t, count)
  PROVE  PipeInv'
<1>1. PICK b \in Nat : received = Bytes(Numbers, 0, b) /\ HoldsBytes(ring, b, sent, Numbers)
  BY DEF PipeInv, InOrder
<1>2. ring \in Rings(PipeSize, Nat) /\ sent \in Nat
  BY DEF PipeInv
<1>3. PICK w : w = FifoWrite(ring, [j \in 1..count |-> sent + j])
  OBVIOUS
<1>4. /\ w.count \in Nat /\ w.ring \in Rings(PipeSize, Nat)
      /\ HoldsBytes(w.ring, b, sent + w.count, Numbers)
  <2>1. PICK q : q = [j \in 1..count |-> sent + j]
    OBVIOUS
  <2>2. q \in Seq(Nat) /\ Len(q) = count
    BY <2>1, <1>2
  <2>3. \A j \in 1..Len(q) : q[j] = Numbers[sent + j]
    BY <2>1, <2>2, <1>2, NumbersType
  <2>4. w = FifoWrite(ring, q)
    BY <1>3, <2>1
  <2> QED
    <3>1. Follows(PipeSize, Nat, ring, b, sent, Numbers, q)
      BY <1>1, <1>2, <2>2, <2>3, NumbersType DEF Follows
    <3> QED
      BY <3>1, <2>4, WriteEffect
<1>5. \/ ring' = ring /\ sent' = sent
      \/ ring' = w.ring /\ sent' = sent + w.count
  BY <1>3, PipeFifo DEF P!Write
<1>6. received' = received
  BY DEF P!Write
<1>7. InOrder' /\ ring' \in Rings(PipeSize, Nat) /\ sent' \in Nat
  BY <1>1, <1>2, <1>4, <1>5, <1>6 DEF InOrder
<1>8. [op EXCEPT ![t] = P!Idle] \in [Users -> Ops]
  BY DEF PipeInv, P!Idle, Ops
<1>9. op' \in [Users -> Ops] /\ Asleep'
  BY <1>8, WakeAll DEF P!Write, Asleep
<1> QED
  BY <1>7, <1>9 DEF PipeInv

\* An operation that leaves the bytes alone.
LEMMA SleepStep ==
  ASSUME PipeInv, NEW t \in Users, NEW kind \in {"read", "write"}, NEW count \in Nat,
         P!Sleep(t, kind, count), kind = "read" => ~P!MayRead, kind = "write" => ~P!MayWrite
  PROVE  PipeInv'
<1>1. /\ ring' = ring /\ sent' = sent /\ received' = received
      /\ isReadClosed' = isReadClosed /\ isWriteClosed' = isWriteClosed
      /\ op' = [op EXCEPT ![t] = [kind |-> kind, count |-> count, at |-> "wait"]]
  BY DEF P!Sleep, P!closed
<1>2. op' \in [Users -> Ops]
  BY <1>1 DEF PipeInv, Ops
<1>3. InOrder'
  BY <1>1 DEF PipeInv, InOrder
<1>4. P!MayRead' = P!MayRead /\ P!MayWrite' = P!MayWrite
  BY <1>1 DEF P!MayRead, P!MayWrite
<1>5. Asleep'
  BY <1>1, <1>4 DEF PipeInv, Asleep
<1> QED
  BY <1>1, <1>2, <1>3, <1>5 DEF PipeInv

\* Every operation of a pipe keeps the invariant: open, read, write, sleeping, being woken or
\* interrupted, and the end of either side.
LEMMA PipeStep ==
  ASSUME PipeSize \in Nat \ {0}, PipeInv, [P!Next]_(P!vars)
  PROVE  PipeInv'
<1>1. CASE P!Open
  <2>1. /\ ring' = ring /\ sent' = sent /\ received' = received /\ op' = op
        /\ isReadClosed' = isReadClosed /\ isWriteClosed' = isWriteClosed
    BY <1>1 DEF P!Open, P!closed
  <2> QED
    BY <2>1 DEF PipeInv, InOrder, Asleep, P!MayRead, P!MayWrite
<1>2. ASSUME NEW end \in {"read", "write"}, P!Close(end) PROVE PipeInv'
  <2>1. ring' = ring /\ sent' = sent /\ received' = received /\ op' = P!Wake(op)
    BY <1>2 DEF P!Close
  <2>2. op' \in [Users -> Ops] /\ Asleep'
    BY <2>1, WakeAll DEF PipeInv, Asleep
  <2> QED
    BY <2>1, <2>2 DEF PipeInv, InOrder
<1>3. ASSUME NEW t \in Users, P!PipeRead(t) PROVE PipeInv'
  <2>1. PICK count \in 1..(PipeSize - 1) : P!TryRead(t, count)
    BY <1>3 DEF P!PipeRead
  <2> QED
    BY <2>1, ReadStep, SleepStep DEF P!TryRead
<1>4. ASSUME NEW t \in Users, P!PipeWrite(t) PROVE PipeInv'
  <2>1. PICK count \in 0..(PipeSize - 1) : P!TryWrite(t, count)
    BY <1>4 DEF P!PipeWrite
  <2> QED
    BY <2>1, WriteStep, SleepStep DEF P!TryWrite
<1>5. ASSUME NEW t \in Users, P!Resume(t) PROVE PipeInv'
  <2>1. op[t].count \in Nat
    BY DEF PipeInv, Ops
  <2> QED
    BY <1>5, <2>1, ReadStep, WriteStep, SleepStep DEF P!Resume, P!TryRead, P!TryWrite
<1>6. ASSUME NEW t \in Users, P!Interrupted(t) PROVE PipeInv'
  <2>1. /\ ring' = ring /\ sent' = sent /\ received' = received
        /\ isReadClosed' = isReadClosed /\ isWriteClosed' = isWriteClosed
        /\ op' = [op EXCEPT ![t] = P!Idle]
    BY <1>6 DEF P!Interrupted, P!Return, P!closed
  <2> QED
    BY <2>1 DEF PipeInv, InOrder, Asleep, P!MayRead, P!MayWrite, Ops, P!Idle
<1>7. CASE UNCHANGED P!vars
  <2>1. /\ ring' = ring /\ sent' = sent /\ received' = received /\ op' = op
        /\ isReadClosed' = isReadClosed /\ isWriteClosed' = isWriteClosed
    BY <1>7 DEF P!vars, P!closed
  <2> QED
    BY <2>1 DEF PipeInv, InOrder, Asleep, P!MayRead, P!MayWrite
<1> QED
  BY <1>1, <1>2, <1>3, <1>4, <1>5, <1>6, <1>7 DEF P!Next

\* Whatever the size of the ring, the bytes that were read, and after them those in the
\* ring, are the bytes that were written, in order.
LEMMA PipeOrder == ASSUME PipeSize \in Nat \ {0}, PipeInv PROVE P!StreamInOrder
<1>1. PICK b \in Nat : received = Bytes(Numbers, 0, b) /\ HoldsBytes(ring, b, sent, Numbers)
  BY DEF PipeInv, InOrder
<1>2. PICK m \in Nat : Contents(ring) = Bytes(Numbers, b, m) /\ sent = b + m
  BY <1>1, ContentsBytes DEF PipeInv
<1>3. sent \in Nat
  BY DEF PipeInv
<1>4. PICK k \in Nat : k = sent /\ k = b + m
  BY <1>2, <1>3
<1>5. Bytes(Numbers, 0, b) \o Bytes(Numbers, b, m) = Bytes(Numbers, 0, k)
  <2>1. Joined(Numbers, b, m, k)
    BY ONLY <1>4, b \in Nat, m \in Nat, k \in Nat, BytesAppend
  <2> QED
    BY <2>1 DEF Joined
<1>6. Bytes(Numbers, 0, sent) = [j \in 1..sent |-> j]
  BY <1>3, NumberBytes
<1> QED
  BY <1>1, <1>2, <1>5, <1>6, <1>4, PipeFifo DEF P!StreamInOrder

\* No reader or writer of a pipe sleeps on although pipe_poll() would tell it to go on,
\* whichever ends are closed meanwhile.
LEMMA PipeAwake == ASSUME PipeSize \in Nat \ {0}, PipeInv PROVE P!NoLostWakeup
<1> SUFFICES ASSUME NEW t \in Users, op[t].at = "wait"
             PROVE  IF op[t].kind = "read" THEN "POLLIN" \notin P!Poll("read")
                    ELSE "POLLOUT" \notin P!Poll("write")
  BY DEF P!NoLostWakeup
<1>1. \/ op[t].kind = "read" /\ ~P!MayRead
      \/ op[t].kind = "write" /\ ~P!MayWrite
  BY DEF PipeInv, Asleep
<1>2. Writeable(ring) \in Nat
  BY ReadableRange DEF PipeInv
<1>3. P!MayWrite <=> Writeable(ring) > 0 \/ isReadClosed
  BY <1>2, PipeFifo DEF P!MayWrite
<1> QED
  BY <1>1, <1>3, PipeFifo DEF P!MayRead, P!Poll
-----------------------------------------------------------------------------
(* Notes *)

\* The length cells from t on hold the notes that follow the first b, in order.
NotesStored(n, buf, t, length, b) ==
  \A i \in 0..(n - 1) : Age(n, t, i) < length => buf[i] = b + Age(n, t, i) + 1

\* A queue of n cells that holds length notes, the first of them b + 1, from t on.
NoteRing(n, buf, t, length, w, b) ==
  /\ n \in Nat \ {0} /\ t \in 0..(n - 1) /\ length \in 0..n /\ b \in Nat
  /\ buf \in [0..(n - 1) -> Nat] /\ Moved(n, t, length, w) /\ NotesStored(n, buf, t, length, b)

Queues(n) ==
  [notes : [0..(n - 1) -> Nat], readIndex : 0..(n - 1), writeIndex : 0..(n - 1), length : 0..n]

\* The inductive invariant, which ends with the thread: the queue holds the notes that were
\* sent and not delivered, and a running handler knows where it was called.
QueueInOrder ==
  /\ queue \in Queues(NoteCapacity)
  /\ Moved(NoteCapacity, queue.readIndex, queue.length, queue.writeIndex)
  /\ delivered \in Seq([note : Nat, at : Places])
  /\ \A j \in 1..Len(delivered) : delivered[j].note = j
  /\ nSent = Len(delivered) + queue.length
  /\ NotesStored(NoteCapacity, queue.notes, queue.readIndex, queue.length, Len(delivered))

CalledFrom ==
  /\ handling \in BOOLEAN
  /\ ~handling => frame \in Places
  /\ handling => /\ frame = Notes!Handler /\ Len(delivered) > 0 /\ noteFrame \in Places
                 /\ noteFrame = delivered[Len(delivered)].at

NoteInv == ~nDying => QueueInOrder /\ CalledFrom

\* note_queue_init(): a new thread has no note and runs its own code.
LEMMA NoteInit ==
  ASSUME NoteCapacity \in Nat \ {0}, Notes!Init
  PROVE  QueueInOrder /\ CalledFrom
<1>1. /\ queue = [notes |-> [i \in 0..(NoteCapacity - 1) |-> 0], readIndex |-> 0,
                  writeIndex |-> 0, length |-> 0]
      /\ nSent = 0 /\ delivered = <<>> /\ handling = FALSE /\ frame \in Places
  BY DEF Notes!Init
<1>2. queue \in Queues(NoteCapacity)
  BY <1>1 DEF Queues
<1>3. Moved(NoteCapacity, queue.readIndex, queue.length, queue.writeIndex)
  BY <1>1 DEF Moved
<1>4. \A i \in 0..(NoteCapacity - 1) : Age(NoteCapacity, 0, i) = i
  BY DEF Age
<1>5. NotesStored(NoteCapacity, queue.notes, queue.readIndex, queue.length, Len(delivered))
  BY <1>1, <1>4 DEF NotesStored
<1> QED
  BY <1>1, <1>2, <1>3, <1>5 DEF QueueInOrder, CalledFrom

\* The fields of the queue.
LEMMA QueueFields ==
  ASSUME NEW n \in Nat \ {0}, NEW q \in Queues(n)
  PROVE  /\ q.notes \in [0..(n - 1) -> Nat] /\ q.readIndex \in 0..(n - 1)
         /\ q.writeIndex \in 0..(n - 1) /\ q.length \in 0..n
         /\ q = [notes |-> q.notes, readIndex |-> q.readIndex, writeIndex |-> q.writeIndex,
                 length |-> q.length]
BY DEF Queues

\* A note goes in the cell behind the others.
LEMMA NotePut ==
  ASSUME NEW n, NEW buf, NEW t, NEW len, NEW w, NEW b, NoteRing(n, buf, t, len, w, b), len < n
  PROVE  /\ NoteRing(n, [buf EXCEPT ![w] = b + len + 1], t, len + 1, (w + 1) % n, b)
         /\ (w + 1) % n \in 0..(n - 1)
<1>1. PICK new, u : new = [buf EXCEPT ![w] = b + len + 1] /\ u = (w + 1) % n
  OBVIOUS
<1> n \in Nat \ {0} /\ t \in 0..(n - 1) /\ len \in 0..(n - 1) /\ b \in Nat
  BY DEF NoteRing
<1> buf \in [0..(n - 1) -> Nat] /\ Moved(n, t, len, w) /\ NotesStored(n, buf, t, len, b)
  BY DEF NoteRing
<1>2. w \in 0..(n - 1) /\ Age(n, t, w) = len
  BY DEF Moved, Age
<1>3. u \in 0..(n - 1) /\ Moved(n, t, len + 1, u)
  <2>1. PICK a \in 0..(2 * n - 1) : a = w + 1
    BY <1>2
  <2>2. a % n = IF a < n THEN a ELSE a - n
    BY Wrap
  <2>3. u = a % n
    BY <1>1, <2>1
  <2> QED
    BY <1>2, <2>1, <2>2, <2>3 DEF Moved
<1>4. new \in [0..(n - 1) -> Nat]
  BY <1>1, <1>2
<1>5. ASSUME NEW i \in 0..(n - 1), Age(n, t, i) < len + 1
      PROVE  new[i] = b + Age(n, t, i) + 1
  <2>1. CASE i = w
    BY <2>1, <1>1, <1>2
  <2>2. CASE i # w
    <3>1. Age(n, t, i) \in Int /\ Age(n, t, i) # Age(n, t, w)
      BY <1>2, <2>2 DEF Age
    <3>2. Age(n, t, i) < len
      BY <3>1, <1>2, <1>5
    <3> QED
      BY <3>2, <2>2, <1>1, <1>2 DEF NotesStored
  <2> QED
    BY <2>1, <2>2
<1>6. NotesStored(n, new, t, len + 1, b)
  BY <1>5 DEF NotesStored
<1>7. NoteRing(n, new, t, len + 1, u, b)
  BY <1>3, <1>4, <1>6 DEF NoteRing
<1> QED
  BY ONLY <1>1, <1>3, <1>7

\* The oldest note is taken.
LEMMA NoteTake ==
  ASSUME NEW n, NEW buf, NEW t, NEW len, NEW w, NEW b, NoteRing(n, buf, t, len, w, b), len # 0,
         NEW u, u = (t + 1) % n
  PROVE  NoteRing(n, buf, u, len - 1, w, b + 1) /\ buf[t] = b + 1 /\ u \in 0..(n - 1)
<1>1. n \in Nat \ {0} /\ t \in 0..(n - 1) /\ len \in 1..n /\ b \in Nat
  BY DEF NoteRing
<1> USE <1>1
<1> buf \in [0..(n - 1) -> Nat] /\ Moved(n, t, len, w) /\ NotesStored(n, buf, t, len, b)
  BY DEF NoteRing
<1>2. buf[t] = b + 1
  <2>1. Age(n, t, t) = 0
    BY DEF Age
  <2> QED
    BY <2>1 DEF NotesStored
<1>3. u = IF t + 1 < n THEN t + 1 ELSE t + 1 - n
  <2>1. PICK a \in 0..(2 * n - 1) : a = t + 1
    OBVIOUS
  <2>2. a % n = IF a < n THEN a ELSE a - n
    BY Wrap
  <2>3. u = a % n
    BY <2>1
  <2> QED
    BY <2>1, <2>2, <2>3
<1>4. u \in 0..(n - 1) /\ Moved(n, u, len - 1, w)
  BY ONLY <1>1, <1>3, Moved(n, t, len, w) DEF Moved
<1>5. ASSUME NEW i \in 0..(n - 1), Age(n, u, i) < len - 1
      PROVE  buf[i] = (b + 1) + Age(n, u, i) + 1
  <2>1. Age(n, t, i) = Age(n, u, i) + 1 /\ Age(n, u, i) \in Int
    BY ONLY <1>1, <1>3, <1>4, <1>5 DEF Age
  <2>2. Age(n, t, i) < len
    BY <2>1, <1>5
  <2>3. buf[i] = b + Age(n, t, i) + 1
    BY <2>2 DEF NotesStored
  <2> QED
    BY <2>1, <2>3
<1>6. NotesStored(n, buf, u, len - 1, b + 1)
  BY <1>5 DEF NotesStored
<1> QED
  BY <1>2, <1>4, <1>6 DEF NoteRing

\* What a step that leaves queue and history alone cannot disturb.
LEMMA QueueKept ==
  ASSUME QueueInOrder, UNCHANGED <<queue, delivered, nSent>>
  PROVE  QueueInOrder'
BY DEF QueueInOrder

\* note_send(): a note goes behind the pending ones, unless the queue is full.
LEMMA SendStep ==
  ASSUME NoteCapacity \in Nat \ {0}, QueueInOrder, CalledFrom, Notes!Send
  PROVE  QueueInOrder' /\ CalledFrom'
<1>1. /\ queue.length < NoteCapacity /\ nSent' = nSent + 1 /\ delivered' = delivered
      /\ handling' = handling /\ frame' = frame /\ noteFrame' = noteFrame
      /\ queue' = [queue EXCEPT !.notes[queue.writeIndex] = nSent + 1,
                                !.writeIndex = (queue.writeIndex + 1) % NoteCapacity,
                                !.length = queue.length + 1]
  BY DEF Notes!Send
<1>2. PICK n \in Nat \ {0} : n = NoteCapacity
  OBVIOUS
<1>3. PICK buf, t, w, len :
        /\ queue = [notes |-> buf, readIndex |-> t, writeIndex |-> w, length |-> len]
        /\ buf \in [0..(n - 1) -> Nat] /\ t \in 0..(n - 1) /\ w \in 0..(n - 1) /\ len \in 0..n
  BY <1>2, QueueFields DEF QueueInOrder
<1>4. PICK b \in Nat : b = Len(delivered)
  BY DEF QueueInOrder
<1>5. /\ Moved(n, t, len, w) /\ NotesStored(n, buf, t, len, b) /\ nSent = b + len
      /\ len \in 0..(n - 1)
  BY <1>1, <1>2, <1>3, <1>4 DEF QueueInOrder
<1>6. PICK new, u : new = [buf EXCEPT ![w] = b + len + 1] /\ u = (w + 1) % n
  OBVIOUS
<1>7. queue' = [notes |-> new, readIndex |-> t, writeIndex |-> u, length |-> len + 1]
  BY <1>1, <1>2, <1>3, <1>5, <1>6
<1>8. /\ u \in 0..(n - 1) /\ Moved(n, t, len + 1, u)
      /\ new \in [0..(n - 1) -> Nat] /\ NotesStored(n, new, t, len + 1, b)
  <2>1. NoteRing(n, buf, t, len, w, b)
    BY <1>3, <1>5 DEF NoteRing
  <2>2. len < n
    BY <1>5
  <2>3. NoteRing(n, new, t, len + 1, u, b) /\ u \in 0..(n - 1)
    BY ONLY <2>1, <2>2, <1>6, NotePut
  <2> QED
    BY <2>3 DEF NoteRing
<1>9. queue' \in Queues(n)
  <2>1. PICK k \in 0..n : k = len + 1
    BY <1>3, <1>5
  <2>2. queue' = [notes |-> new, readIndex |-> t, writeIndex |-> u, length |-> k]
    BY <1>7, <2>1
  <2> QED
    BY <1>3, <1>8, <2>2 DEF Queues
<1>10. nSent' = b + (len + 1)
  BY <1>1, <1>5
<1>11. QueueInOrder'
  <2>1. /\ queue'.notes = new /\ queue'.readIndex = t /\ queue'.writeIndex = u
        /\ queue'.length = len + 1
    BY <1>7
  <2>2. /\ delivered \in Seq([note : Nat, at : Places])
        /\ \A j \in 1..Len(delivered) : delivered[j].note = j
    BY DEF QueueInOrder
  <2>3. delivered' = delivered
    BY <1>1
  <2> QED
    BY ONLY <1>2, <1>4, <1>8, <1>9, <1>10, <2>1, <2>2, <2>3 DEF QueueInOrder
<1>12. CalledFrom'
  BY <1>1 DEF CalledFrom
<1> QED
  BY <1>11, <1>12

\* note_handle_pending(): the oldest note is delivered, to the handler or, without one, to the
\* end of the thread.
LEMMA DeliverStep ==
  ASSUME NoteCapacity \in Nat \ {0}, QueueInOrder, CalledFrom, Notes!Deliver, ~nDying'
  PROVE  QueueInOrder' /\ CalledFrom'
<1>1. /\ queue.length # 0 /\ ~handling /\ nSent' = nSent /\ handling' = TRUE
      /\ noteFrame' = frame /\ frame' = Notes!Handler
      /\ delivered' = Append(delivered, [note |-> queue.notes[queue.readIndex], at |-> frame])
      /\ queue' = [queue EXCEPT !.readIndex = (queue.readIndex + 1) % NoteCapacity,
                                !.length = queue.length - 1]
  BY DEF Notes!Deliver
<1>2. PICK n \in Nat \ {0} : n = NoteCapacity
  OBVIOUS
<1>3. PICK buf, t, w, len :
        /\ queue = [notes |-> buf, readIndex |-> t, writeIndex |-> w, length |-> len]
        /\ buf \in [0..(n - 1) -> Nat] /\ t \in 0..(n - 1) /\ w \in 0..(n - 1) /\ len \in 0..n
  BY <1>2, QueueFields DEF QueueInOrder
<1>4. PICK b \in Nat : b = Len(delivered)
  BY DEF QueueInOrder
<1>5. /\ Moved(n, t, len, w) /\ NotesStored(n, buf, t, len, b) /\ nSent = b + len
      /\ len \in 1..n
  BY <1>1, <1>2, <1>3, <1>4 DEF QueueInOrder
<1>6. PICK u : u = (t + 1) % n
  OBVIOUS
<1>7. queue' = [notes |-> buf, readIndex |-> u, writeIndex |-> w, length |-> len - 1]
  BY <1>1, <1>2, <1>3, <1>6
<1>8. /\ buf[t] = b + 1 /\ u \in 0..(n - 1) /\ Moved(n, u, len - 1, w)
      /\ NotesStored(n, buf, u, len - 1, b + 1)
  <2>1. NoteRing(n, buf, t, len, w, b)
    BY <1>3, <1>5 DEF NoteRing
  <2>2. len # 0
    BY <1>5
  <2>3. NoteRing(n, buf, u, len - 1, w, b + 1) /\ buf[t] = b + 1 /\ u \in 0..(n - 1)
    BY ONLY <2>1, <2>2, <1>6, NoteTake
  <2> QED
    BY <2>3 DEF NoteRing
<1>9. queue' \in Queues(n)
  BY <1>3, <1>5, <1>7, <1>8 DEF Queues
<1>10. /\ delivered \in Seq([note : Nat, at : Places]) /\ frame \in Places
       /\ \A j \in 1..Len(delivered) : delivered[j].note = j
  BY <1>1 DEF QueueInOrder, CalledFrom
<1>11. delivered' = Append(delivered, [note |-> b + 1, at |-> frame])
  BY <1>1, <1>3, <1>8
<1>12. /\ delivered' \in Seq([note : Nat, at : Places]) /\ Len(delivered') = b + 1
       /\ \A j \in 1..Len(delivered') : delivered'[j].note = j
       /\ delivered'[Len(delivered')].at = frame
  BY <1>4, <1>10, <1>11
<1>13. nSent' = (b + 1) + (len - 1)
  BY <1>1, <1>5
<1>14. QueueInOrder'
  BY <1>2, <1>7, <1>8, <1>9, <1>12, <1>13 DEF QueueInOrder
<1>15. CalledFrom'
  BY <1>1, <1>10, <1>12 DEF CalledFrom
<1> QED
  BY <1>14, <1>15

\* Every operation on the notes of a thread keeps the invariant.
LEMMA NoteStep ==
  ASSUME NoteCapacity \in Nat \ {0}, Notes!Handler \notin Places, NoteInv, [Notes!Next]_(Notes!vars)
  PROVE  NoteInv'
<1> SUFFICES ASSUME ~nDying' PROVE QueueInOrder' /\ CalledFrom'
  BY DEF NoteInv
<1>1. CASE UNCHANGED Notes!vars
  BY <1>1 DEF Notes!vars, NoteInv, QueueInOrder, CalledFrom
<1>2. CASE Notes!Next
  <2>1. QueueInOrder /\ CalledFrom
    BY <1>2 DEF Notes!Next, NoteInv
  <2>2. CASE Notes!Send
    BY <2>1, <2>2, SendStep
  <2>3. CASE Notes!SendKill \/ Notes!Notify
    <3>1. UNCHANGED <<queue, nSent, delivered, handling, noteFrame, frame>>
      BY <2>3 DEF Notes!SendKill, Notes!Notify
    <3> QED
      BY <2>1, <3>1, QueueKept DEF CalledFrom
  <2>4. CASE Notes!Kill \/ Notes!NoHandler
    BY <2>4 DEF Notes!Kill, Notes!NoHandler
  <2>5. CASE Notes!Deliver
    BY <2>1, <2>5, DeliverStep
  <2>6. CASE Notes!Noted
    <3>1. handling /\ handling' = FALSE /\ frame' = noteFrame
          /\ UNCHANGED <<queue, nSent, delivered, noteFrame>>
      BY <2>6 DEF Notes!Noted
    <3> QED
      BY <2>1, <3>1, QueueKept DEF CalledFrom
  <2>7. CASE Notes!Run
    <3>1. /\ frame \in Places /\ frame' \in Places
          /\ UNCHANGED <<queue, nSent, delivered, handling, noteFrame>>
      BY <2>7 DEF Notes!Run
    <3>2. ~handling
      BY <2>1, <3>1 DEF CalledFrom
    <3> QED
      BY <2>1, <3>1, <3>2, QueueKept DEF CalledFrom
  <2> QED
    BY <1>2, <2>2, <2>3, <2>4, <2>5, <2>6, <2>7 DEF Notes!Next
<1> QED
  BY <1>1, <1>2

\* What is pending are the notes that follow the delivered ones.
LEMMA PendingNotes ==
  ASSUME NoteCapacity \in Nat \ {0}, QueueInOrder
  PROVE  \E m \in Nat :
           Notes!Pending = Bytes(Numbers, Len(delivered), m) /\ nSent = Len(delivered) + m
<1>1. PICK n \in Nat \ {0} : n = NoteCapacity
  OBVIOUS
<1>2. PICK buf, t, w, len :
        /\ queue = [notes |-> buf, readIndex |-> t, writeIndex |-> w, length |-> len]
        /\ buf \in [0..(n - 1) -> Nat] /\ t \in 0..(n - 1) /\ w \in 0..(n - 1) /\ len \in 0..n
  BY <1>1, QueueFields DEF QueueInOrder
<1>3. PICK b \in Nat : b = Len(delivered)
  BY DEF QueueInOrder
<1>4. NotesStored(n, buf, t, len, b) /\ nSent = b + len
  BY <1>1, <1>2, <1>3 DEF QueueInOrder
<1>5. ASSUME NEW j \in 1..len PROVE buf[(t + j - 1) % n] = b + j
  <2>1. PICK a \in 0..(2 * n - 1) : a = t + j - 1
    BY <1>2
  <2>2. a % n = IF a < n THEN a ELSE a - n
    BY Wrap
  <2>3. PICK i \in 0..(n - 1) : i = a % n
    BY <2>1, <2>2, <1>2
  <2>4. t \in 0..(n - 1) /\ len \in 0..n
    BY <1>2
  <2>5. Age(n, t, i) = j - 1
    BY ONLY <2>1, <2>2, <2>3, <2>4, <1>5, n \in Nat \ {0} DEF Age
  <2>6. Age(n, t, i) < len
    BY <2>4, <2>5
  <2>7. buf[i] = b + Age(n, t, i) + 1
    BY <2>6, <1>4 DEF NotesStored
  <2> QED
    BY <2>1, <2>3, <2>5, <2>7
<1>6. Notes!Pending = [j \in 1..len |-> buf[(t + j - 1) % n]]
  BY <1>1, <1>2 DEF Notes!Pending
<1>7. Notes!Pending = Bytes(Numbers, b, len)
  <2>1. len \in Nat
    BY <1>2
  <2>2. Bytes(Numbers, b, len) = [j \in 1..len |-> b + j]
    BY ONLY <1>3, <2>1, NumberBytes
  <2> QED
    BY <1>5, <1>6, <2>2
<1> QED
  BY <1>2, <1>3, <1>4, <1>7

\* A thread that lives gets the notes its queue accepted in their order, none lost,
\* overwritten or delivered twice, for every capacity of the queue; its handler is not
\* entered again while it runs, and SYS_NOTED returns to where it was called.
LEMMA NoteOrder ==
  ASSUME NoteCapacity \in Nat \ {0}, Notes!Handler \notin Places, NoteInv
  PROVE  Notes!StreamInOrder
<1> SUFFICES ASSUME ~nDying PROVE Notes!StreamInOrder
  BY DEF Notes!StreamInOrder
<1>1. QueueInOrder /\ CalledFrom
  BY DEF NoteInv
<1>2. PICK m \in Nat :
        Notes!Pending = Bytes(Numbers, Len(delivered), m) /\ nSent = Len(delivered) + m
  BY <1>1, PendingNotes
<1>3. PICK b \in Nat : b = Len(delivered)
  BY <1>1 DEF QueueInOrder
<1>4. [j \in 1..Len(delivered) |-> delivered[j].note] = Bytes(Numbers, 0, b)
  <2>1. Bytes(Numbers, 0, b) = [j \in 1..b |-> 0 + j]
    BY NumberBytes
  <2>2. \A j \in 1..b : delivered[j].note = 0 + j
    BY <1>1, <1>3 DEF QueueInOrder
  <2> QED
    BY <1>3, <2>1, <2>2
<1>5. nSent \in Nat /\ nSent = b + m
  BY <1>2, <1>3
<1>6. Bytes(Numbers, 0, b) \o Bytes(Numbers, b, m) = Bytes(Numbers, 0, nSent)
  <2>1. Joined(Numbers, b, m, nSent)
    BY <1>5, BytesAppend
  <2> QED
    BY <2>1 DEF Joined
<1>7. Bytes(Numbers, 0, nSent) = [j \in 1..nSent |-> j]
  BY <1>5, NumberBytes
<1>8. handling <=> frame = Notes!Handler
  BY <1>1 DEF CalledFrom
<1>9. handling => noteFrame = delivered[Len(delivered)].at
  BY <1>1 DEF CalledFrom
<1> QED
  BY <1>2, <1>3, <1>4, <1>7, <1>8, <1>9, <1>6 DEF Notes!StreamInOrder

-----------------------------------------------------------------------------
(* The packets of a socket: the stream S has packet k, a header and its bytes, from cell *)
(* off[k] on.                                                                            *)

Header(size) == [magic |-> TRUE, size |-> size]
Cells == Nat \cup [magic : BOOLEAN, size : Nat]

SentStream(S, off, q) ==
  /\ S \in [Nat -> Cells] /\ off \in [Nat -> Nat] /\ off[1] = 0
  /\ \A k \in 1..Len(q) : /\ off[k + 1] = off[k] + q[k] + 1 /\ off[k + 1] <= off[Len(q) + 1]
                          /\ S[off[k] + 1] = Header(q[k])
                          /\ \A j \in 1..q[k] : S[off[k] + 1 + j] = k

\* The ring f carries the packets q from the one behind the first m on.
Carries(f, q, m) ==
  \E S \in [Nat -> Cells], off \in [Nat -> Nat] :
    SentStream(S, off, q) /\ HoldsBytes(f, off[m + 1], off[Len(q) + 1], S)

\* How much can be read from and written to a ring.
LEMMA HoldsRoom ==
  ASSUME NEW n \in Nat \ {0}, NEW V, NEW f \in Rings(n, V), NEW b, NEW s, NEW S,
         HoldsBytes(f, b, s, S)
  PROVE  /\ b \in Nat /\ s \in Nat /\ b <= s /\ s - b <= n - 1
         /\ Readable(f) = s - b /\ Writeable(f) = n - 1 - (s - b)
<1>1. PICK x \in 0..(n - 1) : x = Filled(n, f.head, f.tail)
  BY RingFields, FilledRange
<1>2. Readable(f) = x /\ Writeable(f) = n - 1 - x
  BY <1>1, ReadableRange
<1>3. b \in Nat /\ s = b + x
  BY <1>1, RingFields DEF HoldsBytes
<1> QED
  BY <1>2, <1>3

\* Cells behind the ones in use do not matter.
SameUpTo(S, S2, s) == \A i \in 0..s : S2[i] = S[i]

\* A ring holds the same bytes of every stream that agrees on the cells in use.
LEMMA HoldsOther ==
  ASSUME NEW n \in Nat \ {0}, NEW V, NEW f \in Rings(n, V), NEW b, NEW s, NEW S,
         HoldsBytes(f, b, s, S), NEW S2, SameUpTo(S, S2, s)
  PROVE  HoldsBytes(f, b, s, S2)
<1>1. PICK h \in 0..(n - 1), t \in 0..(n - 1) : h = f.head /\ t = f.tail
  BY RingFields
<1>2. PICK x \in 0..(n - 1) : x = Filled(n, h, t)
  BY FilledRange
<1>3. f.size = n /\ b \in Nat /\ s = b + x /\ Stored(n, f.buffer, h, t, b, S)
  BY <1>1, <1>2, RingFields DEF HoldsBytes
<1>4. ASSUME NEW i \in 0..(n - 1), Age(n, t, i) < x
      PROVE  f.buffer[i] = S2[b + Age(n, t, i) + 1]
  <2>1. PICK a \in 0..(n - 1) : a = Age(n, t, i)
    BY AgeRange
  <2>2. f.buffer[i] = S[b + a + 1]
    BY <1>2, <1>3, <1>4, <2>1 DEF Stored
  <2>3. b + a + 1 \in 0..s
    BY <1>3, <1>4, <2>1
  <2> QED
    BY <2>1, <2>2, <2>3 DEF SameUpTo
<1>5. Stored(n, f.buffer, h, t, b, S2)
  BY <1>2, <1>4 DEF Stored
<1> QED
  BY <1>1, <1>2, <1>3, <1>5 DEF HoldsBytes

\* The stream after packet q[Len(q) + 1] of count bytes is added to it.
Extendable(S, off, q, count, s) ==
  /\ q \in Seq(Nat) /\ SentStream(S, off, q) /\ count \in Nat /\ s \in Nat /\ s = off[Len(q) + 1]

Extended(S, off, q, count, s, S2, off2) ==
  /\ S2 \in [Nat -> Cells] /\ off2 \in [Nat -> Nat]
  /\ SentStream(S2, off2, Append(q, count)) /\ SameUpTo(S, S2, s)
  /\ \A k \in 1..(Len(q) + 1) : off2[k] = off[k]
  /\ off2[Len(q) + 2] = s + count + 1
  /\ S2[s + 1] = Header(count)
  /\ \A j \in 1..count : S2[s + 1 + j] = Len(q) + 1

\* A stream of packets can be continued by one more packet.
LEMMA StreamExtended ==
  ASSUME NEW S, NEW off, NEW q, NEW count, NEW s, Extendable(S, off, q, count, s)
  PROVE  \E S2, off2 : Extended(S, off, q, count, s, S2, off2)
<1> q \in Seq(Nat) /\ SentStream(S, off, q) /\ count \in Nat /\ s \in Nat /\ s = off[Len(q) + 1]
  BY DEF Extendable
<1>1. PICK p \in Nat : p = Len(q)
  OBVIOUS
<1>2. S \in [Nat -> Cells] /\ off \in [Nat -> Nat] /\ off[1] = 0 /\ s = off[p + 1]
  BY <1>1 DEF SentStream
<1>3. \A k \in 1..p : /\ off[k + 1] = off[k] + q[k] + 1 /\ off[k + 1] <= s
                       /\ S[off[k] + 1] = Header(q[k])
                       /\ \A j \in 1..q[k] : S[off[k] + 1 + j] = k
  BY <1>1 DEF SentStream
<1>4. PICK S2 : S2 = [i \in Nat |-> IF i <= s THEN S[i]
                                    ELSE IF i = s + 1 THEN Header(count) ELSE p + 1]
  OBVIOUS
<1>5. PICK e \in Nat : e = s + count + 1
  OBVIOUS
<1>6. PICK off2 : off2 = [k \in Nat |-> IF k = p + 2 THEN e ELSE off[k]]
  OBVIOUS
<1>7. S2 \in [Nat -> Cells] /\ off2 \in [Nat -> Nat]
  <2>1. Header(count) \in Cells /\ p + 1 \in Cells
    BY DEF Cells, Header
  <2>2. S2 \in [Nat -> Cells]
    BY <1>2, <1>4, <2>1
  <2>3. off2 \in [Nat -> Nat]
    BY ONLY <1>2, <1>6, <1>5
  <2> QED
    BY <2>2, <2>3
<1>8. /\ \A i \in 0..s : S2[i] = S[i]
      /\ S2[s + 1] = Header(count)
      /\ \A j \in 1..count : S2[s + 1 + j] = p + 1
  BY <1>4
<1>9. /\ \A k \in 1..(p + 1) : off2[k] = off[k]
      /\ off2[p + 2] = e
  BY <1>6
<1>10. PICK r : r = Append(q, count)
  OBVIOUS
<1>11. Len(r) = p + 1 /\ r[p + 1] = count /\ \A k \in 1..p : r[k] = q[k] /\ q[k] \in Nat
  BY <1>1, <1>10
<1>12. ASSUME NEW k \in 1..(p + 1)
       PROVE  /\ off2[k + 1] = off2[k] + r[k] + 1 /\ off2[k + 1] <= off2[p + 2]
              /\ S2[off2[k] + 1] = Header(r[k])
              /\ \A j \in 1..r[k] : S2[off2[k] + 1 + j] = k
  <2>1. CASE k = p + 1
    <3>1. off2[k] = s /\ off2[k + 1] = s + count + 1 /\ r[k] = count
      BY <1>2, <1>9, <1>11, <1>5, <2>1
    <3> QED
      BY <2>1, <3>1, <1>8, <1>9, <1>5
  <2>2. CASE k \in 1..p
    <3>1. off2[k] = off[k] /\ off2[k + 1] = off[k + 1] /\ r[k] = q[k] /\ q[k] \in Nat
      BY <1>9, <1>11, <2>2
    <3>2. /\ off[k + 1] = off[k] + q[k] + 1 /\ off[k + 1] <= s
          /\ S[off[k] + 1] = Header(q[k]) /\ \A j \in 1..q[k] : S[off[k] + 1 + j] = k
      BY <1>3, <2>2
    <3>3. PICK a \in Nat, z \in Nat : a = off[k] /\ z = q[k] /\ a + z + 1 <= s
      <4>1. off[k] \in Nat
        BY ONLY <1>2, <2>2, p \in Nat
      <4> QED
        BY ONLY <4>1, <3>1, <3>2, s \in Nat
    <3>4. S2[a + 1] = S[a + 1]
      BY ONLY <1>8, <3>3, s \in Nat
    <3>5. ASSUME NEW j \in 1..z PROVE S2[a + 1 + j] = S[a + 1 + j]
      <4>1. a + 1 + j \in 0..s
        BY ONLY <3>3, j \in 1..z, s \in Nat
      <4> QED
        BY <4>1, <1>8
    <3>6. off2[k + 1] <= off2[p + 2]
      <4>1. off2[k + 1] = a + z + 1
        BY ONLY <3>1, <3>2, <3>3
      <4> QED
        BY ONLY <4>1, <1>9, <1>5, <3>3, s \in Nat, count \in Nat
    <3> QED
      BY <3>1, <3>2, <3>4, <3>5, <3>6, <3>3
  <2> QED
    BY <2>1, <2>2
<1>13. SentStream(S2, off2, r)
  <2>1. off2[1] = 0
    <3>1. 1 \in 1..(p + 1)
      OBVIOUS
    <3> QED
      BY <1>2, <1>9, <3>1
  <2>2. Len(r) + 1 = p + 2
    BY <1>11
  <2> QED
    BY <1>7, <1>11, <1>12, <2>1, <2>2 DEF SentStream
<1> QED
  BY <1>1, <1>7, <1>8, <1>9, <1>10, <1>13, <1>5 DEF Extended, SameUpTo

\* When there is enough, the amount that was asked for is taken.
LEMMA LeastFirst == ASSUME NEW a \in Int, NEW b \in Int, a <= b PROVE Least(a, b) = a
BY DEF Least

\* local_socket_send(), once there is room: a header and the bytes of packet k.
PutPacket(f, k, count) ==
  FifoWrite(FifoWrite(f, <<Header(count)>>).ring, [j \in 1..count |-> k]).ring

\* local_socket_send(), header and payload in two calls of fifo_write(): the ring carries the new
\* packet behind the others, wherever the writes wrap.
LEMMA SendPacket ==
  ASSUME NEW n \in Nat \ {0}, NEW f \in Rings(n, Cells), NEW q \in Seq(Nat), NEW m,
         Carries(f, q, m), m \in 0..Len(q), NEW count \in Nat, Writeable(f) >= count + 1
  PROVE  /\ PutPacket(f, Len(q) + 1, count) \in Rings(n, Cells)
         /\ Carries(PutPacket(f, Len(q) + 1, count), Append(q, count), m)
<1>1. PICK S \in [Nat -> Cells], off \in [Nat -> Nat] :
        SentStream(S, off, q) /\ HoldsBytes(f, off[m + 1], off[Len(q) + 1], S)
  BY DEF Carries
<1>2. PICK p \in Nat : p = Len(q) /\ m \in 0..p
  OBVIOUS
<1>3. PICK b \in Nat, s \in Nat : b = off[m + 1] /\ s = off[p + 1]
  <2>1. m + 1 \in Nat /\ p + 1 \in Nat
    BY <1>2
  <2>2. off[m + 1] \in Nat /\ off[p + 1] \in Nat
    BY ONLY <1>1, <2>1
  <2> QED
    BY <2>2
<1>4. HoldsBytes(f, b, s, S) /\ s = off[Len(q) + 1]
  BY <1>1, <1>2, <1>3
<1>5. PICK S2, off2 : Extended(S, off, q, count, s, S2, off2)
  <2>1. Extendable(S, off, q, count, s)
    BY <1>1, <1>4 DEF Extendable
  <2> QED
    BY ONLY <2>1, StreamExtended
<1>6. /\ S2 \in [Nat -> Cells] /\ off2 \in [Nat -> Nat]
      /\ SentStream(S2, off2, Append(q, count)) /\ SameUpTo(S, S2, s)
      /\ \A k \in 1..(Len(q) + 1) : off2[k] = off[k]
      /\ off2[Len(q) + 2] = s + count + 1
      /\ S2[s + 1] = Header(count)
      /\ \A j \in 1..count : S2[s + 1 + j] = Len(q) + 1
  BY <1>5 DEF Extended
<1>7. HoldsBytes(f, b, s, S2)
  BY ONLY <1>4, <1>6, n \in Nat \ {0}, f \in Rings(n, Cells), HoldsOther
<1>8. b \in Nat /\ b <= s /\ Writeable(f) = n - 1 - (s - b)
  BY ONLY <1>4, s \in Nat, n \in Nat \ {0}, f \in Rings(n, Cells), HoldsRoom
<1>9. PICK s1 \in Nat : s1 = s + 1
  OBVIOUS
<1>10. PICK g : g = FifoWrite(f, <<Header(count)>>).ring
  OBVIOUS
<1>11. g \in Rings(n, Cells) /\ HoldsBytes(g, b, s1, S2)
  <2>1. PICK x : x = <<Header(count)>>
    OBVIOUS
  <2>2. x \in Seq(Cells) /\ Len(x) = 1 /\ x[1] = Header(count)
    BY <2>1 DEF Cells, Header
  <2>3. \A j \in 1..Len(x) : x[j] = S2[s + j]
    BY <1>6, <2>2
  <2>4. Follows(n, Cells, f, b, s, S2, x)
    BY <1>6, <1>7, <2>2, <2>3 DEF Follows
  <2>5. PICK k \in Nat :
          /\ k = Least(Len(x), Writeable(f)) /\ FifoWrite(f, x).ring \in Rings(n, Cells)
          /\ HoldsBytes(FifoWrite(f, x).ring, b, s + k, S2)
    BY ONLY <2>4, WriteEffect
  <2>6. k = 1
    BY <2>2, <2>5, <1>8 DEF Least
  <2> QED
    BY <1>10, <1>9, <2>1, <2>5, <2>6
<1>12. Writeable(g) = n - 1 - (s1 - b)
  BY ONLY <1>11, n \in Nat \ {0}, HoldsRoom
<1>13. PICK l : l = FifoWrite(g, [j \in 1..count |-> p + 1]).ring
  OBVIOUS
<1>14. l \in Rings(n, Cells) /\ HoldsBytes(l, b, s1 + count, S2)
  <2>1. PICK x : x = [j \in 1..count |-> p + 1]
    OBVIOUS
  <2>2. x \in Seq(Cells) /\ Len(x) = count /\ \A j \in 1..count : x[j] = p + 1
    <3>1. p + 1 \in Cells
      BY DEF Cells
    <3> QED
      BY <2>1, <3>1
  <2>3. \A j \in 1..Len(x) : x[j] = S2[s1 + j]
    BY <1>2, <1>6, <1>9, <2>2
  <2>4. Follows(n, Cells, g, b, s1, S2, x)
    BY <1>6, <1>11, <2>2, <2>3 DEF Follows
  <2>5. PICK k \in Nat :
          /\ k = Least(Len(x), Writeable(g)) /\ FifoWrite(g, x).ring \in Rings(n, Cells)
          /\ HoldsBytes(FifoWrite(g, x).ring, b, s1 + k, S2)
    BY ONLY <2>4, WriteEffect
  <2>6. k = count
    BY <2>2, <2>5, <1>8, <1>12, <1>9 DEF Least
  <2> QED
    BY <1>13, <2>1, <2>5, <2>6
<1>15. l = PutPacket(f, Len(q) + 1, count)
  BY <1>2, <1>10, <1>13 DEF PutPacket
<1>16. Carries(l, Append(q, count), m)
  <2>1. m + 1 \in 1..(Len(q) + 1)
    BY <1>2
  <2>2. off2[m + 1] = b
    BY <1>3, <1>6, <2>1
  <2>3. Len(Append(q, count)) + 1 = Len(q) + 2 /\ s + count + 1 = s1 + count
    BY <1>9
  <2>4. off2[Len(Append(q, count)) + 1] = s1 + count
    BY <1>6, <2>3
  <2>5. SentStream(S2, off2, Append(q, count)) /\ S2 \in [Nat -> Cells] /\ off2 \in [Nat -> Nat]
    BY <1>6
  <2>6. HoldsBytes(l, off2[m + 1], off2[Len(Append(q, count)) + 1], S2)
    BY <1>14, <2>2, <2>4
  <2> QED
    BY ONLY <2>5, <2>6 DEF Carries
<1> QED
  BY <1>14, <1>15, <1>16

\* local_socket_recv(), of a packet into a buffer of count bytes.
HeadOf(f) == FifoRead(f, 1)
SizeOf(f) == HeadOf(f).data[1].size
Cut(f, count) == IF SizeOf(f) < count THEN SizeOf(f) ELSE count
Body(f, count) == FifoRead(HeadOf(f).ring, Cut(f, count))
Rest(f, count) == FifoRead(Body(f, count).ring, SizeOf(f) - Cut(f, count)).ring

Receivable(n, f, q, m, count) ==
  /\ n \in Nat \ {0} /\ f \in Rings(n, Cells) /\ q \in Seq(Nat) /\ Carries(f, q, m)
  /\ m \in 0..Len(q) /\ count \in Nat /\ Readable(f) >= 1

\* local_socket_recv(), three calls of fifo_read(): it finds a whole header at the tail, takes the
\* packet that follows the ones received, cut to the buffer, and leaves the tail at the next header.
LEMMA RecvPacket ==
  ASSUME NEW n, NEW f, NEW q, NEW m, NEW count, Receivable(n, f, q, m, count)
  PROVE  /\ m < Len(q) /\ SizeOf(f) = q[m + 1]
         /\ Rest(f, count) \in Rings(n, Cells) /\ Carries(Rest(f, count), q, m + 1)
         /\ Body(f, count).data = [j \in 1..Cut(f, count) |-> m + 1]
<1> /\ n \in Nat \ {0} /\ f \in Rings(n, Cells) /\ q \in Seq(Nat) /\ Carries(f, q, m)
    /\ m \in 0..Len(q) /\ count \in Nat /\ Readable(f) >= 1
  BY DEF Receivable
<1>1. PICK S \in [Nat -> Cells], off \in [Nat -> Nat] :
        SentStream(S, off, q) /\ HoldsBytes(f, off[m + 1], off[Len(q) + 1], S)
  BY DEF Carries
<1>2. PICK p \in Nat : p = Len(q) /\ m \in 0..p
  OBVIOUS
<1>3. PICK b \in Nat, s \in Nat : b = off[m + 1] /\ s = off[p + 1]
  <2>1. m + 1 \in Nat /\ p + 1 \in Nat
    BY <1>2
  <2>2. off[m + 1] \in Nat /\ off[p + 1] \in Nat
    BY ONLY <1>1, <2>1
  <2> QED
    BY <2>2
<1>4. HoldsBytes(f, b, s, S)
  BY <1>1, <1>2, <1>3
<1>5. b <= s /\ Readable(f) = s - b
  BY ONLY <1>4, <1>3, n \in Nat \ {0}, f \in Rings(n, Cells), HoldsRoom
<1>6. m \in 0..(p - 1) /\ m + 1 \in 1..p
  <2>1. m # p
    BY <1>3, <1>5
  <2> QED
    BY <1>2, <2>1
<1>7. PICK z \in Nat : z = q[m + 1]
  BY <1>2, <1>6
<1>8. /\ off[(m + 1) + 1] = b + z + 1 /\ off[(m + 1) + 1] <= s /\ S[b + 1] = Header(z)
      /\ \A j \in 1..z : S[b + 1 + j] = m + 1
  BY <1>1, <1>2, <1>3, <1>6, <1>7 DEF SentStream
<1>9. PICK b1 \in Nat : b1 = b + 1
  OBVIOUS
<1>10. /\ off[(m + 1) + 1] = b + z + 1 /\ b1 + z <= s /\ S[b1] = Header(z)
       /\ \A j \in 1..z : S[b1 + j] = m + 1
  BY <1>8, <1>9
<1>11. b1 + z <= s
  BY <1>10
<1>12. PICK g : g = HeadOf(f).ring
  OBVIOUS
<1>13. g \in Rings(n, Cells) /\ HoldsBytes(g, b1, s, S) /\ SizeOf(f) = z
  <2>1. PICK k \in Nat :
          /\ k = Least(1, Readable(f)) /\ FifoRead(f, 1).ring \in Rings(n, Cells)
          /\ FifoRead(f, 1).data = Bytes(S, b, k) /\ HoldsBytes(FifoRead(f, 1).ring, b + k, s, S)
    BY ONLY <1>1, <1>4, n \in Nat \ {0}, f \in Rings(n, Cells), ReadEffect
  <2>2. k = 1
    BY <2>1, <1>5 DEF Least
  <2>3. Bytes(S, b, 1)[1] = S[b1]
    BY <1>9 DEF Bytes
  <2>4. HeadOf(f).data[1] = S[b1]
    BY <2>1, <2>2, <2>3 DEF HeadOf
  <2>5. SizeOf(f) = z
    BY <2>4, <1>10 DEF SizeOf, Header
  <2> QED
    BY <1>12, <1>9, <2>1, <2>2, <2>5 DEF HeadOf
<1>14. PICK c \in Nat : c = Cut(f, count) /\ c <= z
  <2>1. Cut(f, count) = IF z < count THEN z ELSE count
    BY <1>13 DEF Cut
  <2>2. (IF z < count THEN z ELSE count) \in Nat /\ (IF z < count THEN z ELSE count) <= z
    OBVIOUS
  <2> QED
    BY <2>1, <2>2
<1>15. Readable(g) = s - b1
  BY ONLY <1>13, n \in Nat \ {0}, HoldsRoom
<1>16. PICK l : l = Body(f, count).ring
  OBVIOUS
<1>17. /\ l \in Rings(n, Cells) /\ HoldsBytes(l, b1 + c, s, S)
       /\ Body(f, count).data = Bytes(S, b1, c)
  <2>1. PICK k \in Nat :
          /\ k = Least(c, Readable(g)) /\ FifoRead(g, c).ring \in Rings(n, Cells)
          /\ FifoRead(g, c).data = Bytes(S, b1, k)
          /\ HoldsBytes(FifoRead(g, c).ring, b1 + k, s, S)
    BY ONLY <1>1, <1>13, <1>14, n \in Nat \ {0}, ReadEffect
  <2>2. k = c
    BY <2>1, <1>14, <1>15, <1>11, LeastFirst
  <2> QED
    BY <1>12, <1>14, <1>16, <2>1, <2>2 DEF Body
<1>18. PICK b2 \in Nat : b2 = b1 + c
  OBVIOUS
<1>19. Readable(l) = s - b2 /\ HoldsBytes(l, b2, s, S)
  <2>1. HoldsBytes(l, b2, s, S)
    BY <1>17, <1>18
  <2> QED
    BY ONLY <2>1, <1>17, n \in Nat \ {0}, HoldsRoom
<1>20. Rest(f, count) \in Rings(n, Cells) /\ HoldsBytes(Rest(f, count), b + z + 1, s, S)
  <2>1. PICK d \in Nat : d = z - c
    BY <1>14
  <2>2. PICK k \in Nat :
          /\ k = Least(d, Readable(l)) /\ FifoRead(l, d).ring \in Rings(n, Cells)
          /\ HoldsBytes(FifoRead(l, d).ring, b2 + k, s, S)
    BY ONLY <1>1, <1>17, <1>19, <2>1, n \in Nat \ {0}, ReadEffect
  <2>3. k = d
    <3>1. Readable(l) \in Int /\ d <= Readable(l)
      <4>1. Readable(l) = s - b2
        BY <1>19
      <4> QED
        BY ONLY <2>1, <4>1, <1>18, <1>11
    <3> QED
      BY <2>1, <2>2, <3>1, LeastFirst
  <2>4. b2 + k = b + z + 1
    BY <2>1, <2>3, <1>14, <1>9, <1>18
  <2>5. Rest(f, count) = FifoRead(l, d).ring
    BY <1>13, <1>14, <1>16, <2>1 DEF Rest
  <2> QED
    BY <2>2, <2>4, <2>5
<1>21. Carries(Rest(f, count), q, m + 1)
  <2>1. b + z + 1 = off[(m + 1) + 1] /\ s = off[Len(q) + 1]
    BY <1>2, <1>3, <1>10
  <2> QED
    BY <1>1, <1>20, <2>1 DEF Carries
<1>22. Body(f, count).data = [j \in 1..c |-> m + 1]
  <2>1. ASSUME NEW j \in 1..c PROVE S[b1 + j] = m + 1
    <3>1. j \in 1..z
      BY <1>14
    <3> QED
      BY <1>10, <3>1
  <2> QED
    BY <1>17, <2>1 DEF Bytes
<1> QED
  BY <1>2, <1>6, <1>7, <1>13, <1>14, <1>20, <1>21, <1>22

-----------------------------------------------------------------------------
(* Sockets *)

\* The queue that Local uses is the one of Fifo.
LEMMA SocketFifo ==
  ASSUME NEW f, NEW x
  PROVE  /\ Sockets!FifoRead(f, x) = FifoRead(f, x) /\ Sockets!FifoWrite(f, x) = FifoWrite(f, x)
         /\ Sockets!Readable(f) = Readable(f) /\ Sockets!Writeable(f) = Writeable(f)
         /\ Sockets!FifoInit(x) = FifoInit(x)
<1>1. Sockets!Readable(f) = Readable(f) /\ Sockets!Writeable(f) = Writeable(f)
  BY DEF Sockets!Readable, Sockets!Writeable, Readable, Writeable
<1>2. \A a, b : Sockets!Least(a, b) = Least(a, b)
  BY DEF Sockets!Least, Least
<1>3. Sockets!FifoRead(f, x) = FifoRead(f, x)
  BY <1>1, <1>2 DEF Sockets!FifoRead, FifoRead
<1>4. Sockets!FifoWrite(f, x) = FifoWrite(f, x)
  BY <1>1, <1>2 DEF Sockets!FifoWrite, FifoWrite
<1>5. Sockets!FifoInit(x) = FifoInit(x)
  BY DEF Sockets!FifoInit, FifoInit
<1> QED
  BY <1>1, <1>3, <1>4, <1>5

Received == [data : Seq(Nat), count : Nat]

\* What one end sent and the other got, and the ring between them: the packets that were not
\* received yet are in the ring, and the others were received, cut to the size of the buffer.
StreamOk(f, q, g) ==
  /\ f \in Rings(SocketSize, Cells) /\ q \in Seq(Nat) /\ g \in Seq(Received)
  /\ Len(g) \in 0..Len(q) /\ Carries(f, q, Len(g))
  /\ \A n \in 1..Len(g) :
       g[n].data = [j \in 1..(IF q[n] < g[n].count THEN q[n] ELSE g[n].count) |-> n]

\* The ring of a new connection is empty and carries no packet.
LEMMA StreamStart ==
  ASSUME SocketSize \in Nat \ {0}
  PROVE  StreamOk(FifoInit(SocketSize), <<>>, <<>>)
<1>1. PICK f : f = FifoInit(SocketSize)
  OBVIOUS
<1>2. f = [size |-> SocketSize, buffer |-> [i \in 0..(SocketSize - 1) |-> 0],
           head |-> 0, tail |-> 0]
  BY <1>1 DEF FifoInit
<1>3. 0 \in Cells
  BY DEF Cells
<1>4. f \in Rings(SocketSize, Cells)
  BY <1>2, <1>3 DEF Rings
<1>5. PICK S \in [Nat -> Cells] : S = [i \in Nat |-> 0]
  BY <1>3
<1>6. PICK off \in [Nat -> Nat] : off = [i \in Nat |-> 0]
  OBVIOUS
<1>7. SentStream(S, off, <<>>)
  BY <1>6 DEF SentStream
<1>8. HoldsBytes(f, 0, 0, S)
  <2>1. Filled(SocketSize, 0, 0) = 0
    BY DEF Filled
  <2>2. \A i \in 0..(SocketSize - 1) : Age(SocketSize, 0, i) = i
    BY DEF Age
  <2>3. Stored(SocketSize, f.buffer, 0, 0, 0, S)
    BY <2>1, <2>2 DEF Stored
  <2> QED
    BY <1>2, <2>1, <2>3 DEF HoldsBytes
<1>9. Carries(f, <<>>, 0)
  <2>1. off[0 + 1] = 0 /\ off[Len(<<>>) + 1] = 0
    BY <1>6
  <2> QED
    BY <1>7, <1>8, <2>1 DEF Carries
<1> QED
  BY <1>1, <1>4, <1>9 DEF StreamOk

\* A packet sent keeps a stream in order.
LEMMA StreamSend ==
  ASSUME SocketSize \in Nat \ {0}, NEW f, NEW q, NEW g, StreamOk(f, q, g), NEW count \in Nat,
         Writeable(f) >= count + 1
  PROVE  StreamOk(PutPacket(f, Len(q) + 1, count), Append(q, count), g)
<1>1. /\ f \in Rings(SocketSize, Cells) /\ q \in Seq(Nat) /\ g \in Seq(Received)
      /\ Len(g) \in 0..Len(q) /\ Carries(f, q, Len(g))
      /\ \A n \in 1..Len(g) :
           g[n].data = [j \in 1..(IF q[n] < g[n].count THEN q[n] ELSE g[n].count) |-> n]
  BY DEF StreamOk
<1>2. /\ PutPacket(f, Len(q) + 1, count) \in Rings(SocketSize, Cells)
      /\ Carries(PutPacket(f, Len(q) + 1, count), Append(q, count), Len(g))
  BY <1>1, SendPacket
<1>3. PICK r : r = Append(q, count)
  OBVIOUS
<1>4. r \in Seq(Nat) /\ Len(r) = Len(q) + 1 /\ \A n \in 1..Len(q) : r[n] = q[n]
  BY <1>1, <1>3
<1>5. Len(g) \in 0..Len(r) /\ \A n \in 1..Len(g) : r[n] = q[n]
  BY <1>1, <1>4
<1>6. \A n \in 1..Len(g) :
        g[n].data = [j \in 1..(IF r[n] < g[n].count THEN r[n] ELSE g[n].count) |-> n]
  BY <1>1, <1>5
<1> QED
  BY <1>1, <1>2, <1>3, <1>4, <1>5, <1>6 DEF StreamOk

\* A packet received is the next of those sent, and keeps the stream in order.
LEMMA StreamRecv ==
  ASSUME SocketSize \in Nat \ {0}, NEW f, NEW q, NEW g, StreamOk(f, q, g), NEW count \in Nat,
         Readable(f) >= 1
  PROVE  StreamOk(Rest(f, count), q, Append(g, [data |-> Body(f, count).data, count |-> count]))
<1>1. /\ f \in Rings(SocketSize, Cells) /\ q \in Seq(Nat) /\ g \in Seq(Received)
      /\ Len(g) \in 0..Len(q) /\ Carries(f, q, Len(g))
      /\ \A n \in 1..Len(g) :
           g[n].data = [j \in 1..(IF q[n] < g[n].count THEN q[n] ELSE g[n].count) |-> n]
  BY DEF StreamOk
<1>2. PICK m \in Nat : m = Len(g)
  BY <1>1
<1>3. /\ m < Len(q) /\ SizeOf(f) = q[m + 1]
      /\ Rest(f, count) \in Rings(SocketSize, Cells) /\ Carries(Rest(f, count), q, m + 1)
      /\ Body(f, count).data = [j \in 1..Cut(f, count) |-> m + 1]
  <2>1. Receivable(SocketSize, f, q, m, count)
    BY <1>1, <1>2 DEF Receivable
  <2> QED
    BY ONLY <2>1, RecvPacket
<1>4. PICK x : x = [data |-> Body(f, count).data, count |-> count]
  OBVIOUS
<1>5. Cut(f, count) = (IF q[m + 1] < count THEN q[m + 1] ELSE count) /\ Cut(f, count) \in Nat
  <2>1. q[m + 1] \in Nat
    BY <1>1, <1>2, <1>3
  <2> QED
    BY <1>3, <2>1 DEF Cut
<1>6. /\ x \in Received /\ x.count = count
      /\ x.data = [j \in 1..(IF q[m + 1] < x.count THEN q[m + 1] ELSE x.count) |-> m + 1]
  <2>1. [j \in 1..Cut(f, count) |-> m + 1] \in Seq(Nat)
    BY <1>5
  <2> QED
    BY <1>3, <1>4, <1>5, <2>1 DEF Received
<1>7. PICK h : h = Append(g, x)
  OBVIOUS
<1>8. h \in Seq(Received) /\ Len(h) = m + 1 /\ h[m + 1] = x /\ \A n \in 1..m : h[n] = g[n]
  BY <1>1, <1>2, <1>6, <1>7
<1>9. ASSUME NEW n \in 1..Len(h)
      PROVE  h[n].data = [j \in 1..(IF q[n] < h[n].count THEN q[n] ELSE h[n].count) |-> n]
  <2>1. CASE n = m + 1
    BY <1>6, <1>8, <2>1
  <2>2. CASE n \in 1..m
    BY <1>1, <1>2, <1>8, <2>2
  <2> QED
    BY <1>8, <2>1, <2>2
<1>10. Len(h) \in 0..Len(q) /\ Carries(Rest(f, count), q, Len(h))
  BY <1>1, <1>2, <1>3, <1>8
<1> QED
  BY <1>1, <1>3, <1>4, <1>7, <1>8, <1>9, <1>10 DEF StreamOk

\* The inductive invariant: types; a client that never connected has left no trace; every
\* stream is in order; and who sleeps has no reason to be awake.
SocketOps == [kind : {"none", "send", "recv"}, count : Nat, at : {"run", "wait", "woken"}]
Conns ==
  [mem : {"none", "live", "freed"}, refs : Int, isClosed : BOOLEAN,
   ring : [Sockets!Sides -> Rings(SocketSize, Cells)]]
Listens ==
  [mem : {"none", "live", "dying", "freed"}, refs : Int, isClosed : BOOLEAN, max : Nat,
   backlog : Seq(Peers)]

SocketTypes ==
  /\ listen \in Listens /\ conn \in [Peers -> Conns] /\ lOp \in [Sockets!Ends -> SocketOps]
  /\ lState \in [Sockets!Ends -> {"none", "NEW", "CONNECTED", "closed"}]
  /\ lSent \in [Sockets!Ends -> Seq(Nat)] /\ got \in [Sockets!Ends -> Seq(Received)]

Unused ==
  \A c \in Peers : lState[<<c, "client">>] = "NEW" =>
    /\ lState[<<c, "server">>] = "none"
    /\ \A side \in Sockets!Sides : /\ lOp[<<c, side>>].at = "run"
                                   /\ lSent[<<c, side>>] = <<>> /\ got[<<c, side>>] = <<>>
    /\ \A i \in 1..Len(listen.backlog) : listen.backlog[i] # c

StreamsOk ==
  \A c \in Peers, side \in Sockets!Sides :
    StreamOk(conn[c].ring[side], lSent[<<c, side>>], got[<<c, Sockets!Peer(side)>>])

AcceptSleeps == accepting = "wait" => ~listen.isClosed /\ listen.backlog = <<>>
EndsSleep ==
  \A c \in Peers, side \in Sockets!Sides : lOp[<<c, side>>].at = "wait" =>
    /\ ~conn[c].isClosed
    /\ IF lOp[<<c, side>>].kind = "recv" THEN ~Sockets!HasPacket(c, side)
       ELSE ~Sockets!Room(c, side, lOp[<<c, side>>].count)

SocketInv == SocketTypes /\ Unused /\ StreamsOk /\ AcceptSleeps /\ EndsSleep

\* A connection has two sides, each the peer of the other.
LEMMA PeerSides ==
  /\ "client" \in Sockets!Sides /\ "server" \in Sockets!Sides
  /\ \A side \in Sockets!Sides : /\ Sockets!Peer(side) \in Sockets!Sides
                                 /\ Sockets!Peer(Sockets!Peer(side)) = side
                                 /\ Sockets!Peer(side) # side
BY DEF Sockets!Sides, Sockets!Peer

\* Each side of each connection is an end.
LEMMA EndOf ==
  ASSUME NEW c \in Peers, NEW side \in Sockets!Sides
  PROVE  <<c, side>> \in Sockets!Ends
BY DEF Sockets!Ends

\* Before anybody binds or connects the invariant holds.
LEMMA SocketInit == ASSUME SocketSize \in Nat \ {0}, Sockets!Init PROVE SocketInv
<1>1. PICK f : f = FifoInit(SocketSize) /\ StreamOk(f, <<>>, <<>>)
  BY StreamStart
<1>2. f \in Rings(SocketSize, Cells)
  BY <1>1 DEF StreamOk
<1>3. /\ listen = [mem |-> "none", refs |-> 0, isClosed |-> FALSE, max |-> 2, backlog |-> <<>>]
      /\ conn = [c \in Peers |-> [mem |-> "none", refs |-> 0, isClosed |-> FALSE,
                                  ring |-> [side \in Sockets!Sides |-> f]]]
      /\ lState = [e \in Sockets!Ends |-> IF e[2] = "client" THEN "NEW" ELSE "none"]
      /\ lOp = [e \in Sockets!Ends |-> [kind |-> "none", count |-> 0, at |-> "run"]]
      /\ lSent = [e \in Sockets!Ends |-> <<>>] /\ got = [e \in Sockets!Ends |-> <<>>]
      /\ accepting = "none"
  BY <1>1, SocketFifo
     DEF Sockets!Init, Sockets!NoConn, Sockets!Idle, Sockets!MaxBacklog
<1>4. SocketTypes
  <2>1. listen \in Listens
    BY <1>3 DEF Listens
  <2>2. conn \in [Peers -> Conns]
    BY <1>2, <1>3 DEF Conns
  <2>3. lOp \in [Sockets!Ends -> SocketOps]
    BY <1>3 DEF SocketOps
  <2>4. lState \in [Sockets!Ends -> {"none", "NEW", "CONNECTED", "closed"}]
    BY <1>3
  <2>5. lSent \in [Sockets!Ends -> Seq(Nat)]
    BY <1>3
  <2>6. got \in [Sockets!Ends -> Seq(Received)]
    BY <1>3
  <2> QED
    BY <2>1, <2>2, <2>3, <2>4, <2>5, <2>6 DEF SocketTypes
<1>5. Unused
  BY <1>3, EndOf, PeerSides DEF Unused
<1>6. StreamsOk
  BY <1>1, <1>3, EndOf, PeerSides DEF StreamsOk
<1>7. AcceptSleeps /\ EndsSleep
  BY <1>3, EndOf DEF AcceptSleeps, EndsSleep
<1> QED
  BY <1>4, <1>5, <1>6, <1>7 DEF SocketInv

\* What the streams and the sleepers depend on.
LEMMA StreamsKept ==
  ASSUME StreamsOk, UNCHANGED <<lSent, got>>,
         \A c \in Peers : conn'[c].ring = conn[c].ring
  PROVE  StreamsOk'
BY DEF StreamsOk

\* Who slept rightly sleeps rightly after a step that changes no ring, no end and no operation.
LEMMA SleepersKept ==
  ASSUME EndsSleep, UNCHANGED <<lOp>>,
         \A c \in Peers : conn'[c].ring = conn[c].ring /\ conn'[c].isClosed = conn[c].isClosed
  PROVE  EndsSleep'
BY DEF EndsSleep, Sockets!HasPacket, Sockets!Room

\* A step of the listener that leaves the connections alone.
LEMMA ListenerStep ==
  ASSUME SocketInv, UNCHANGED <<conn, lState, lOp, lSent, got>>, listen' \in Listens,
         listen'.backlog = listen.backlog \/ listen'.backlog = <<>>, AcceptSleeps'
  PROVE  SocketInv'
<1>1. SocketTypes'
  BY DEF SocketInv, SocketTypes
<1>2. Unused'
  BY DEF SocketInv, Unused
<1>3. StreamsOk' /\ EndsSleep'
  BY StreamsKept, SleepersKept DEF SocketInv
<1> QED
  BY <1>1, <1>2, <1>3 DEF SocketInv

\* After a wakeup no end of c sleeps, and the other ends are as they were.
Woken(c) ==
  /\ lOp' \in [Sockets!Ends -> SocketOps]
  /\ \A side \in Sockets!Sides : lOp'[<<c, side>>].at # "wait"
  /\ \A d \in Peers \ {c}, side \in Sockets!Sides : lOp'[<<d, side>>] = lOp[<<d, side>>]

\* WakeConn() reaches both ends of its connection and no other.
LEMMA WakeEffect ==
  ASSUME NEW c \in Peers, NEW ops \in [Sockets!Ends -> SocketOps], lOp' = Sockets!WakeConn(c, ops),
         \A d \in Peers \ {c}, side \in Sockets!Sides : ops[<<d, side>>] = lOp[<<d, side>>]
  PROVE  Woken(c)
<1>1. lOp' = [e \in Sockets!Ends |-> IF e[1] = c /\ ops[e].at = "wait"
                                     THEN [ops[e] EXCEPT !.at = "woken"] ELSE ops[e]]
  BY DEF Sockets!WakeConn
<1>2. \A o \in SocketOps : [o EXCEPT !.at = "woken"] \in SocketOps
                           /\ [o EXCEPT !.at = "woken"].at = "woken"
  BY DEF SocketOps
<1>3. lOp' \in [Sockets!Ends -> SocketOps]
  BY <1>1, <1>2
<1>4. \A side \in Sockets!Sides : lOp'[<<c, side>>].at # "wait"
  BY <1>1, <1>2, EndOf
<1>5. \A d \in Peers \ {c}, side \in Sockets!Sides : lOp'[<<d, side>>] = ops[<<d, side>>]
  BY <1>1, EndOf
<1> QED
  BY <1>3, <1>4, <1>5 DEF Woken

\* The end of an operation, which wakes who waits for the connection.
LEMMA FinishEffect ==
  ASSUME SocketInv, NEW c \in Peers, NEW side \in Sockets!Sides, Sockets!Finish(c, side)
  PROVE  Woken(c)
<1>1. PICK ops : ops = [lOp EXCEPT ![<<c, side>>] = Sockets!Idle]
  OBVIOUS
<1>2. Sockets!Idle \in SocketOps
  BY DEF Sockets!Idle, SocketOps
<1>3. ops \in [Sockets!Ends -> SocketOps]
  BY <1>1, <1>2 DEF SocketInv, SocketTypes
<1>4. \A d \in Peers \ {c}, s \in Sockets!Sides : ops[<<d, s>>] = lOp[<<d, s>>]
  BY <1>1, EndOf DEF SocketInv, SocketTypes
<1>5. lOp' = Sockets!WakeConn(c, ops)
  BY <1>1 DEF Sockets!Finish
<1> QED
  BY <1>3, <1>4, <1>5, WakeEffect

\* Who sleeps after a step on the connection c that wakes its ends sleeps rightly.
LEMMA WokenSleep ==
  ASSUME SocketInv, NEW c \in Peers, Woken(c),
         \A d \in Peers \ {c} : conn'[d] = conn[d]
  PROVE  EndsSleep'
<1> SUFFICES ASSUME NEW d \in Peers, NEW side \in Sockets!Sides, lOp'[<<d, side>>].at = "wait"
             PROVE  /\ ~conn'[d].isClosed
                    /\ IF lOp'[<<d, side>>].kind = "recv" THEN ~Sockets!HasPacket(d, side)'
                       ELSE ~(Sockets!Room(d, side, lOp[<<d, side>>].count)')
  BY DEF EndsSleep
<1>1. d # c /\ lOp'[<<d, side>>] = lOp[<<d, side>>] /\ conn'[d] = conn[d]
  BY DEF Woken
<1> QED
  BY <1>1 DEF SocketInv, EndsSleep, Sockets!HasPacket, Sockets!Room

\* Only the ends of c change.
Others(c) ==
  \A d \in Peers \ {c}, side \in Sockets!Sides :
    /\ lState'[<<d, side>>] = lState[<<d, side>>] /\ lOp'[<<d, side>>] = lOp[<<d, side>>]
    /\ lSent'[<<d, side>>] = lSent[<<d, side>>] /\ got'[<<d, side>>] = got[<<d, side>>]

BacklogOf(c) ==
  \A i \in 1..Len(listen'.backlog) :
    \/ listen'.backlog[i] = c
    \/ \E j \in 1..Len(listen.backlog) : listen'.backlog[i] = listen.backlog[j]

\* A step of the connected client c does not touch a client that has not connected.
LEMMA UnusedKept ==
  ASSUME SocketInv, NEW c \in Peers, lState'[<<c, "client">>] # "NEW", Others(c), BacklogOf(c)
  PROVE  Unused'
<1> SUFFICES ASSUME NEW d \in Peers, lState'[<<d, "client">>] = "NEW"
             PROVE  /\ lState'[<<d, "server">>] = "none"
                    /\ \A side \in Sockets!Sides :
                         /\ lOp'[<<d, side>>].at = "run"
                         /\ lSent'[<<d, side>>] = <<>> /\ got'[<<d, side>>] = <<>>
                    /\ \A i \in 1..Len(listen'.backlog) : listen'.backlog[i] # d
  BY DEF Unused
<1>1. d # c /\ d \in Peers \ {c}
  OBVIOUS
<1>2. /\ lState'[<<d, "server">>] = lState[<<d, "server">>]
      /\ lState'[<<d, "client">>] = lState[<<d, "client">>]
      /\ \A side \in Sockets!Sides :
           /\ lOp'[<<d, side>>] = lOp[<<d, side>>]
           /\ lSent'[<<d, side>>] = lSent[<<d, side>>] /\ got'[<<d, side>>] = got[<<d, side>>]
  BY <1>1, PeerSides DEF Others
<1>3. /\ lState[<<d, "server">>] = "none"
      /\ \A side \in Sockets!Sides : /\ lOp[<<d, side>>].at = "run"
                                     /\ lSent[<<d, side>>] = <<>> /\ got[<<d, side>>] = <<>>
      /\ \A i \in 1..Len(listen.backlog) : listen.backlog[i] # d
  BY <1>2 DEF SocketInv, Unused
<1>4. \A i \in 1..Len(listen'.backlog) : listen'.backlog[i] # d
  BY <1>1, <1>3 DEF BacklogOf
<1> QED
  BY <1>2, <1>3, <1>4

\* Who has an operation, or a socket on the server's side, has connected.
LEMMA HasConnected ==
  ASSUME SocketInv, NEW c \in Peers, NEW side \in Sockets!Sides,
         lState[<<c, side>>] = "CONNECTED" \/ lOp[<<c, side>>].at # "run"
  PROVE  lState[<<c, "client">>] # "NEW"
BY DEF SocketInv, Unused, Sockets!Sides

\* What changes when an end sleeps or gives up: only its operation.
LEMMA OperationStep ==
  ASSUME SocketInv, NEW c \in Peers, NEW side \in Sockets!Sides,
         lState[<<c, "client">>] # "NEW", NEW o \in SocketOps,
         lOp' = [lOp EXCEPT ![<<c, side>>] = o],
         UNCHANGED <<listen, accepting, conn, lState, lSent, got>>,
         o.at = "wait" => /\ ~conn[c].isClosed
                          /\ IF o.kind = "recv" THEN ~Sockets!HasPacket(c, side)
                             ELSE ~Sockets!Room(c, side, o.count)
  PROVE  SocketInv'
<1>1. <<c, side>> \in Sockets!Ends /\ lOp \in [Sockets!Ends -> SocketOps]
  BY EndOf DEF SocketInv, SocketTypes
<1>2. SocketTypes'
  BY <1>1 DEF SocketInv, SocketTypes
<1>3. /\ lOp'[<<c, side>>] = o
      /\ \A d \in Peers, s \in Sockets!Sides :
           <<d, s>> # <<c, side>> => lOp'[<<d, s>>] = lOp[<<d, s>>]
  BY <1>1, EndOf
<1>4. Unused'
  <2>1. Others(c)
    BY <1>3 DEF Others
  <2>2. BacklogOf(c)
    BY DEF BacklogOf
  <2> QED
    BY <2>1, <2>2, UnusedKept
<1>5. StreamsOk'
  BY StreamsKept DEF SocketInv
<1>6. AcceptSleeps'
  BY DEF SocketInv, AcceptSleeps
<1>7. EndsSleep'
  <2> SUFFICES ASSUME NEW d \in Peers, NEW s \in Sockets!Sides, lOp'[<<d, s>>].at = "wait"
               PROVE  /\ ~conn[d].isClosed
                      /\ IF lOp'[<<d, s>>].kind = "recv" THEN ~Sockets!HasPacket(d, s)
                         ELSE ~Sockets!Room(d, s, lOp'[<<d, s>>].count)
    BY DEF EndsSleep, Sockets!HasPacket, Sockets!Room
  <2>1. CASE d = c /\ s = side
    BY <1>3, <2>1
  <2>2. CASE <<d, s>> # <<c, side>>
    BY <1>3, <2>2 DEF SocketInv, EndsSleep
  <2> QED
    BY <2>1, <2>2
<1> QED
  BY <1>2, <1>4, <1>5, <1>6, <1>7 DEF SocketInv

\* local_socket_send() and local_socket_recv() of a closed connection, or ended by a note.
LEMMA EndFails ==
  ASSUME SocketInv, NEW c \in Peers, NEW side \in Sockets!Sides,
         lState[<<c, "client">>] # "NEW", Sockets!Fail(c, side)
  PROVE  SocketInv'
<1>1. Sockets!Idle \in SocketOps /\ Sockets!Idle.at = "run"
  BY DEF Sockets!Idle, SocketOps
<1>2. /\ lOp' = [lOp EXCEPT ![<<c, side>>] = Sockets!Idle]
      /\ UNCHANGED <<listen, accepting, conn, lState, lSent, got>>
  BY DEF Sockets!Fail, Sockets!listener, Sockets!history
<1> QED
  BY <1>1, <1>2, OperationStep

\* local_socket_send() without room and local_socket_recv() without a packet sleep.
LEMMA EndSleeps ==
  ASSUME SocketInv, NEW c \in Peers, NEW side \in Sockets!Sides,
         lState[<<c, "client">>] # "NEW", NEW k \in {"send", "recv"}, NEW n \in Nat,
         Sockets!Sleep(c, side, k, n), ~conn[c].isClosed,
         k = "recv" => ~Sockets!HasPacket(c, side),
         k = "send" => ~Sockets!Room(c, side, n)
  PROVE  SocketInv'
<1>1. PICK o : o = [kind |-> k, count |-> n, at |-> "wait"]
  OBVIOUS
<1>2. o \in SocketOps /\ o.kind = k /\ o.count = n
  BY <1>1 DEF SocketOps
<1>3. /\ lOp' = [lOp EXCEPT ![<<c, side>>] = o]
      /\ UNCHANGED <<listen, accepting, conn, lState, lSent, got>>
  BY <1>1 DEF Sockets!Sleep, Sockets!listener, Sockets!history
<1>4. CASE k = "recv"
  <2>1. o.kind = "recv" /\ ~Sockets!HasPacket(c, side)
    BY <1>2, <1>4
  <2> QED
    BY <1>2, <1>3, <2>1, OperationStep
<1>5. CASE k = "send"
  <2>1. o.kind # "recv" /\ ~Sockets!Room(c, side, o.count)
    BY <1>2, <1>5
  <2> QED
    BY <1>2, <1>3, <2>1, OperationStep
<1> QED
  BY <1>4, <1>5

\* A packet sent or received: one ring and one history of the connection c change, and
\* everyone who waits for it is woken.
LEMMA TransferStep ==
  ASSUME SocketInv, NEW c \in Peers, NEW s \in Sockets!Sides, NEW f, NEW q, NEW g,
         lState[<<c, "client">>] # "NEW", StreamOk(f, q, g),
         conn' = [conn EXCEPT ![c].ring[s] = f],
         lSent' = [lSent EXCEPT ![<<c, s>>] = q],
         got' = [got EXCEPT ![<<c, Sockets!Peer(s)>>] = g],
         Woken(c), UNCHANGED <<listen, accepting, lState>>
  PROVE  SocketInv'
<1>1. /\ conn \in [Peers -> Conns] /\ lSent \in [Sockets!Ends -> Seq(Nat)]
      /\ got \in [Sockets!Ends -> Seq(Received)]
  BY DEF SocketInv, SocketTypes
<1>2. f \in Rings(SocketSize, Cells) /\ q \in Seq(Nat) /\ g \in Seq(Received)
  BY DEF StreamOk
<1>3. PICK k \in Conns : k = [conn[c] EXCEPT !.ring[s] = f]
  BY <1>1, <1>2 DEF Conns
<1>4. conn' = [conn EXCEPT ![c] = k]
  BY <1>3
<1>5. /\ \A d \in Peers \ {c} : conn'[d] = conn[d]
      /\ conn'[c].ring[s] = f
      /\ \A side \in Sockets!Sides : side # s => conn'[c].ring[side] = conn[c].ring[side]
      /\ conn' \in [Peers -> Conns]
  <2>1. /\ conn[c].ring \in [Sockets!Sides -> Rings(SocketSize, Cells)]
        /\ k.ring = [conn[c].ring EXCEPT ![s] = f]
    BY <1>1, <1>3 DEF Conns
  <2>2. /\ k.ring[s] = f
        /\ \A side \in Sockets!Sides : side # s => k.ring[side] = conn[c].ring[side]
    BY <2>1
  <2>3. /\ \A d \in Peers \ {c} : conn'[d] = conn[d]
        /\ conn'[c] = k /\ conn' \in [Peers -> Conns]
    BY <1>1, <1>4
  <2> QED
    BY <2>2, <2>3
<1>6. /\ lSent'[<<c, s>>] = q /\ lSent' \in [Sockets!Ends -> Seq(Nat)]
      /\ \A d \in Peers, side \in Sockets!Sides :
           <<d, side>> # <<c, s>> => lSent'[<<d, side>>] = lSent[<<d, side>>]
  BY <1>1, <1>2, EndOf
<1>7. /\ got'[<<c, Sockets!Peer(s)>>] = g /\ got' \in [Sockets!Ends -> Seq(Received)]
      /\ \A d \in Peers, side \in Sockets!Sides :
           <<d, side>> # <<c, Sockets!Peer(s)>> => got'[<<d, side>>] = got[<<d, side>>]
  BY <1>1, <1>2, EndOf, PeerSides
<1>8. SocketTypes'
  BY <1>5, <1>6, <1>7 DEF SocketInv, SocketTypes, Woken
<1>9. Unused'
  <2>1. Others(c)
    BY <1>6, <1>7 DEF Others, Woken
  <2>2. BacklogOf(c)
    BY DEF BacklogOf
  <2> QED
    BY <2>1, <2>2, UnusedKept
<1>10. StreamsOk'
  <2> SUFFICES ASSUME NEW d \in Peers, NEW side \in Sockets!Sides
               PROVE  StreamOk(conn'[d].ring[side], lSent'[<<d, side>>],
                               got'[<<d, Sockets!Peer(side)>>])
    BY DEF StreamsOk
  <2>1. CASE d = c /\ side = s
    BY <1>5, <1>6, <1>7, <2>1
  <2>2. CASE <<d, side>> # <<c, s>>
    <3>1. <<d, Sockets!Peer(side)>> # <<c, Sockets!Peer(s)>>
      BY <2>2, PeerSides
    <3>2. /\ conn'[d].ring[side] = conn[d].ring[side] /\ lSent'[<<d, side>>] = lSent[<<d, side>>]
          /\ got'[<<d, Sockets!Peer(side)>>] = got[<<d, Sockets!Peer(side)>>]
      BY <1>5, <1>6, <1>7, <2>2, <3>1, PeerSides
    <3>3. StreamOk(conn[d].ring[side], lSent[<<d, side>>], got[<<d, Sockets!Peer(side)>>])
      BY DEF SocketInv, StreamsOk
    <3> QED
      BY <3>2, <3>3
  <2> QED
    BY <2>1, <2>2
<1>11. AcceptSleeps'
  BY DEF SocketInv, AcceptSleeps
<1>12. EndsSleep'
  BY <1>5, WokenSleep
<1> QED
  BY <1>8, <1>9, <1>10, <1>11, <1>12 DEF SocketInv

\* local_socket_send()
LEMMA PacketSent ==
  ASSUME SocketSize \in Nat \ {0}, SocketInv, NEW c \in Peers, NEW side \in Sockets!Sides,
         lState[<<c, "client">>] # "NEW", NEW count \in Nat, Sockets!TrySend(c, side, count)
  PROVE  SocketInv'
<1>1. CASE conn[c].isClosed /\ Sockets!Fail(c, side)
  BY <1>1, EndFails
<1>2. CASE ~conn[c].isClosed /\ ~Sockets!Room(c, side, count)
           /\ Sockets!Sleep(c, side, "send", count)
  BY <1>2, EndSleeps
<1>3. CASE ~(conn[c].isClosed /\ Sockets!Fail(c, side))
           /\ ~(~conn[c].isClosed /\ ~Sockets!Room(c, side, count)
                /\ Sockets!Sleep(c, side, "send", count))
  <2>1. PICK f : f = conn[c].ring[side]
    OBVIOUS
  <2>2. PICK q : q = lSent[<<c, side>>]
    OBVIOUS
  <2>3. PICK g : g = got[<<c, Sockets!Peer(side)>>]
    OBVIOUS
  <2>4. StreamOk(f, q, g)
    BY <2>1, <2>2, <2>3 DEF SocketInv, StreamsOk
  <2>5. PICK n : n = Len(q) + 1
    OBVIOUS
  <2>6. /\ Sockets!Room(c, side, count)
        /\ conn' = [conn EXCEPT ![c].ring[side] = PutPacket(f, n, count)]
        /\ lSent' = [lSent EXCEPT ![<<c, side>>] = Append(@, count)]
        /\ Sockets!Finish(c, side)
        /\ UNCHANGED <<Sockets!listener, lState, got, corrupt>>
    <3>1. \A x, k : Sockets!FifoWrite(x, k) = FifoWrite(x, k)
      BY SocketFifo
    <3>2. PutPacket(f, n, count) =
            Sockets!FifoWrite(Sockets!FifoWrite(conn[c].ring[side],
                                                <<[magic |-> TRUE, size |-> count]>>).ring,
                              [j \in 1..count |-> Len(lSent[<<c, side>>]) + 1]).ring
      BY <2>1, <2>2, <2>5, <3>1 DEF PutPacket, Header
    <3> QED
      BY <1>3, <3>2 DEF Sockets!TrySend
  <2>7. Writeable(f) >= count + 1
    BY <2>1, <2>6, SocketFifo DEF Sockets!Room
  <2>8. StreamOk(PutPacket(f, n, count), Append(q, count), g)
    BY <2>4, <2>5, <2>7, StreamSend
  <2>9. Woken(c)
    BY <2>6, FinishEffect
  <2>10. lSent' = [lSent EXCEPT ![<<c, side>>] = Append(q, count)]
    BY <2>2, <2>6, EndOf DEF SocketInv, SocketTypes
  <2>11. got' = [got EXCEPT ![<<c, Sockets!Peer(side)>>] = g]
    BY <2>3, <2>6, EndOf, PeerSides DEF SocketInv, SocketTypes
  <2>12. UNCHANGED <<listen, accepting, lState>>
    BY <2>6 DEF Sockets!listener
  <2>13. conn' = [conn EXCEPT ![c].ring[side] = PutPacket(f, n, count)]
    BY <2>6
  <2> QED
    BY ONLY <2>8, <2>9, <2>10, <2>11, <2>12, <2>13, SocketInv, c \in Peers,
            side \in Sockets!Sides, lState[<<c, "client">>] # "NEW", TransferStep
<1> QED
  BY <1>1, <1>2, <1>3

\* local_socket_recv()
LEMMA PacketReceived ==
  ASSUME SocketSize \in Nat \ {0}, SocketInv, NEW c \in Peers, NEW side \in Sockets!Sides,
         lState[<<c, "client">>] # "NEW", NEW count \in Nat, Sockets!TryRecv(c, side, count)
  PROVE  SocketInv'
<1>1. CASE ~Sockets!HasPacket(c, side) /\ conn[c].isClosed /\ Sockets!Fail(c, side)
  BY <1>1, EndFails
<1>2. CASE ~Sockets!HasPacket(c, side) /\ ~conn[c].isClosed
           /\ Sockets!Sleep(c, side, "recv", count)
  BY <1>2, EndSleeps
<1>3. CASE ~(~Sockets!HasPacket(c, side) /\ conn[c].isClosed /\ Sockets!Fail(c, side))
           /\ ~(~Sockets!HasPacket(c, side) /\ ~conn[c].isClosed
                /\ Sockets!Sleep(c, side, "recv", count))
  <2>1. PICK s \in Sockets!Sides : s = Sockets!Peer(side) /\ Sockets!Peer(s) = side
    BY PeerSides
  <2>2. PICK f : f = conn[c].ring[s]
    OBVIOUS
  <2>3. PICK q : q = lSent[<<c, s>>]
    OBVIOUS
  <2>4. PICK g : g = got[<<c, side>>]
    OBVIOUS
  <2>5. StreamOk(f, q, g)
    BY <2>1, <2>2, <2>3, <2>4 DEF SocketInv, StreamsOk
  <2>6. /\ Sockets!HasPacket(c, side)
        /\ conn' = [conn EXCEPT ![c].ring[s] = Rest(f, count)]
        /\ got' = [got EXCEPT ![<<c, side>>] =
                     Append(@, [data |-> Body(f, count).data, count |-> count])]
        /\ Sockets!Finish(c, side)
        /\ UNCHANGED <<Sockets!listener, lState, lSent, corrupt>>
    <3>1. /\ HeadOf(f) = Sockets!FifoRead(conn[c].ring[Sockets!Peer(side)], 1)
          /\ \A x, k : Sockets!FifoRead(x, k) = FifoRead(x, k)
      BY <2>1, <2>2, SocketFifo DEF HeadOf
    <3> QED
      BY <1>3, <2>1, <3>1 DEF Sockets!TryRecv, Rest, Body, Cut, SizeOf
  <2>7. Readable(f) >= 1
    BY <2>1, <2>2, <2>6, SocketFifo DEF Sockets!HasPacket
  <2>8. PICK h : h = Append(g, [data |-> Body(f, count).data, count |-> count])
    OBVIOUS
  <2>9. StreamOk(Rest(f, count), q, h)
    BY <2>5, <2>7, <2>8, StreamRecv
  <2>10. Woken(c)
    BY <2>6, FinishEffect
  <2>11. got' = [got EXCEPT ![<<c, Sockets!Peer(s)>>] = h]
    BY <2>1, <2>4, <2>6, <2>8, EndOf DEF SocketInv, SocketTypes
  <2>12. lSent' = [lSent EXCEPT ![<<c, s>>] = q]
    BY <2>3, <2>6, EndOf DEF SocketInv, SocketTypes
  <2>13. UNCHANGED <<listen, accepting, lState>>
    BY <2>6 DEF Sockets!listener
  <2>14. conn' = [conn EXCEPT ![c].ring[s] = Rest(f, count)]
    BY <2>6
  <2> QED
    BY ONLY <2>9, <2>10, <2>11, <2>12, <2>13, <2>14, SocketInv, c \in Peers,
            s \in Sockets!Sides, lState[<<c, "client">>] # "NEW", TransferStep
<1> QED
  BY <1>1, <1>2, <1>3

Memories == {"none", "live", "dying", "freed"}

\* What the fields of a listener and of a connection are after the changes that are made to
\* them.
LEMMA ListenFields ==
  ASSUME NEW l \in Listens
  PROVE  /\ l.mem \in Memories /\ l.refs \in Int /\ l.isClosed \in BOOLEAN
         /\ l.max \in Nat /\ l.backlog \in Seq(Peers)
BY DEF Listens, Memories

\* UNREF() of a listener changes neither its backlog nor whether it is closed.
LEMMA ListenDropped ==
  ASSUME NEW l \in Listens
  PROVE  /\ Sockets!Dropped(l) \in Listens /\ Sockets!Dropped(l).backlog = l.backlog
         /\ Sockets!Dropped(l).isClosed = l.isClosed
<1>1. PICK r \in Int : r = l.refs - 1
  BY ListenFields
<1>2. PICK m \in Memories : m = IF l.refs = 1 THEN "dying" ELSE l.mem
  BY ListenFields DEF Memories
<1>3. Sockets!Dropped(l) = [l EXCEPT !.refs = r, !.mem = m]
  BY <1>1, <1>2 DEF Sockets!Dropped, Listens
<1>4. PICK k : k = Sockets!Dropped(l)
  OBVIOUS
<1>5. k \in Listens /\ k.backlog = l.backlog /\ k.isClosed = l.isClosed
  BY <1>3, <1>4 DEF Listens, Memories
<1> QED
  BY <1>4, <1>5

\* The fields of a connection have their types.
LEMMA ConnFields ==
  ASSUME NEW k \in Conns
  PROVE  /\ k.mem \in {"none", "live", "freed"} /\ k.refs \in Int /\ k.isClosed \in BOOLEAN
         /\ k.ring \in [Sockets!Sides -> Rings(SocketSize, Cells)]
BY DEF Conns

\* REF() of a connection changes neither its rings nor whether it is closed.
LEMMA ConnCounted ==
  ASSUME NEW l \in Conns, NEW r \in Int, NEW k, k = [l EXCEPT !.refs = r]
  PROVE  k \in Conns /\ k.ring = l.ring /\ k.isClosed = l.isClosed
BY DEF Conns


\* netfs_ctl_bind(), netfs_ctl_listen(), accept() that sleeps or ends, the end of a listener.
LEMMA ListenerSteps ==
  ASSUME SocketInv, Backlogs \subseteq Nat,
         \/ Sockets!Bind \/ Sockets!Listen \/ Sockets!Wait \/ Sockets!AcceptEnds
         \/ Sockets!CloseListener \/ Sockets!ListenFree
  PROVE  SocketInv'
<1>1. listen \in Listens /\ (accepting = "wait" => ~listen.isClosed /\ listen.backlog = <<>>)
  BY DEF SocketInv, SocketTypes, AcceptSleeps
<1> USE DEF Sockets!history
<1>2. CASE Sockets!Bind
  <2>1. /\ listen' \in Listens /\ listen'.backlog = listen.backlog
        /\ listen'.isClosed = listen.isClosed
    <3>1. PICK r \in Int : r = 1
      OBVIOUS
    <3>2. listen' = [listen EXCEPT !.mem = "live", !.refs = r]
      BY <1>2, <3>1 DEF Sockets!Bind
    <3> QED
      BY <1>1, <3>2 DEF Listens
  <2>2. UNCHANGED <<accepting, conn, lState, lOp, lSent, got>>
    BY <1>2 DEF Sockets!Bind
  <2>3. AcceptSleeps'
    BY <1>1, <2>1, <2>2 DEF AcceptSleeps
  <2> QED
    BY <2>1, <2>2, <2>3, ListenerStep
<1>3. CASE Sockets!Listen
  <2>1. PICK b \in Nat : listen' = [listen EXCEPT !.max = IF b < Sockets!MaxBacklog
                                                          THEN b ELSE @, !.isClosed = FALSE]
    BY <1>3 DEF Sockets!Listen
  <2>2. listen' \in Listens /\ listen'.backlog = listen.backlog /\ ~listen'.isClosed
    BY <1>1, <2>1 DEF Listens
  <2>3. UNCHANGED <<accepting, conn, lState, lOp, lSent, got>>
    BY <1>3 DEF Sockets!Listen
  <2>4. AcceptSleeps'
    BY <1>1, <2>2, <2>3 DEF AcceptSleeps
  <2> QED
    BY <2>2, <2>3, <2>4, ListenerStep
<1>4. CASE Sockets!Wait
  BY <1>1, <1>4, ListenerStep DEF Sockets!Wait, AcceptSleeps
<1>5. CASE Sockets!AcceptEnds
  BY <1>1, <1>5, ListenerStep DEF Sockets!AcceptEnds, AcceptSleeps
<1>6. CASE Sockets!CloseListener
  <2>1. listen' \in Listens /\ listen'.backlog = listen.backlog
    <3>1. PICK l : l = [listen EXCEPT !.isClosed = TRUE]
      OBVIOUS
    <3>2. l \in Listens /\ l.backlog = listen.backlog
      BY <1>1, <3>1 DEF Listens
    <3>3. listen' = Sockets!Dropped(l)
      BY <1>6, <3>1 DEF Sockets!CloseListener
    <3> QED
      BY <3>2, <3>3, ListenDropped
  <2>2. UNCHANGED <<conn, lState, lOp, lSent, got>> /\ accepting' # "wait"
    BY <1>6 DEF Sockets!CloseListener
  <2>3. AcceptSleeps'
    BY <2>2 DEF AcceptSleeps
  <2> QED
    BY <2>1, <2>2, <2>3, ListenerStep
<1>7. CASE Sockets!ListenFree
  <2>1. listen' \in Listens /\ listen'.backlog = <<>> /\ listen'.isClosed = listen.isClosed
    <3>1. <<>> \in Seq(Peers)
      OBVIOUS
    <3>2. PICK b \in Seq(Peers) : b = <<>>
      BY <3>1
    <3>3. listen' = [listen EXCEPT !.mem = "freed", !.backlog = b]
      BY <1>7, <3>2 DEF Sockets!ListenFree
    <3>4. listen' \in Listens /\ listen'.backlog = b /\ listen'.isClosed = listen.isClosed
      BY <1>1, <3>3 DEF Listens
    <3> QED
      BY <3>2, <3>4
  <2>2. UNCHANGED <<accepting, conn, lState, lOp, lSent, got>>
    BY <1>7 DEF Sockets!ListenFree
  <2>3. AcceptSleeps'
    BY <1>1, <2>1, <2>2 DEF AcceptSleeps
  <2> QED
    BY <2>1, <2>2, <2>3, ListenerStep
<1> QED
  BY <1>2, <1>3, <1>4, <1>5, <1>6, <1>7

\* local_socket_accept() that finds a connection.
LEMMA TakeStep ==
  ASSUME SocketInv, Sockets!Take
  PROVE  SocketInv'
<1>1. /\ listen \in Listens /\ conn \in [Peers -> Conns]
      /\ lState \in [Sockets!Ends -> {"none", "NEW", "CONNECTED", "closed"}]
  BY DEF SocketInv, SocketTypes
<1>2. PICK b \in Seq(Peers) : b = listen.backlog
  BY <1>1 DEF Listens
<1>3. PICK c : c = Head(b)
  OBVIOUS
<1>4. /\ b # <<>> /\ listen' = [listen EXCEPT !.backlog = Tail(b)] /\ accepting' = "none"
      /\ \/ /\ conn' = [conn EXCEPT ![c].refs = @ + 1]
            /\ lState' = [lState EXCEPT ![<<c, "server">>] = "CONNECTED"]
         \/ UNCHANGED <<conn, lState>>
      /\ UNCHANGED <<lOp, lSent, got>>
  BY <1>1, <1>2, <1>3 DEF Sockets!Take, Sockets!history, Listens
<1>5. /\ c \in Peers /\ c = b[1] /\ 1 \in 1..Len(b)
      /\ Tail(b) \in Seq(Peers) /\ Len(Tail(b)) = Len(b) - 1
      /\ \A i \in 1..Len(Tail(b)) : Tail(b)[i] = b[i + 1] /\ i + 1 \in 1..Len(b)
  BY <1>3, <1>4
<1>6. lState[<<c, "client">>] # "NEW"
  BY <1>2, <1>5 DEF SocketInv, Unused
<1>7. listen' \in Listens /\ listen'.backlog = Tail(b)
  BY <1>1, <1>4, <1>5 DEF Listens
<1>8. /\ conn' \in [Peers -> Conns]
      /\ \A d \in Peers : conn'[d].ring = conn[d].ring /\ conn'[d].isClosed = conn[d].isClosed
  <2>1. PICK l \in Conns, r \in Int : l = conn[c] /\ r = l.refs + 1
    BY <1>1, <1>5, ConnFields
  <2>2. PICK k : k = [l EXCEPT !.refs = r]
    OBVIOUS
  <2>3. k \in Conns /\ k.ring = l.ring /\ k.isClosed = l.isClosed
    BY <2>1, <2>2, ConnCounted
  <2>4. conn' = [conn EXCEPT ![c] = k] \/ conn' = conn
    BY <1>4, <2>1, <2>2
  <2> QED
    BY <1>1, <1>5, <2>1, <2>3, <2>4
<1>9. /\ lState' \in [Sockets!Ends -> {"none", "NEW", "CONNECTED", "closed"}]
      /\ \A d \in Peers, side \in Sockets!Sides :
           <<d, side>> # <<c, "server">> => lState'[<<d, side>>] = lState[<<d, side>>]
  BY <1>1, <1>4, <1>5, EndOf
<1>10. SocketTypes'
  BY <1>4, <1>7, <1>8, <1>9 DEF SocketInv, SocketTypes
<1>11. Unused'
  <2>1. Others(c)
    BY <1>4, <1>9 DEF Others
  <2>2. BacklogOf(c)
    BY <1>2, <1>5, <1>7 DEF BacklogOf
  <2>3. lState'[<<c, "client">>] # "NEW"
    BY <1>5, <1>6, <1>9, PeerSides
  <2> QED
    BY <1>5, <2>1, <2>2, <2>3, UnusedKept
<1>12. StreamsOk' /\ EndsSleep'
  BY <1>4, <1>8, StreamsKept, SleepersKept DEF SocketInv
<1>13. AcceptSleeps'
  BY <1>4 DEF AcceptSleeps
<1> QED
  BY <1>10, <1>11, <1>12, <1>13 DEF SocketInv

\* local_socket_connect()
LEMMA ConnectStep ==
  ASSUME SocketSize \in Nat \ {0}, SocketInv, NEW c \in Peers, Sockets!Connect(c)
  PROVE  SocketInv'
<1>1. /\ listen \in Listens /\ conn \in [Peers -> Conns]
      /\ lState \in [Sockets!Ends -> {"none", "NEW", "CONNECTED", "closed"}]
      /\ lOp \in [Sockets!Ends -> SocketOps]
  BY DEF SocketInv, SocketTypes
<1>2. CASE listen.mem = "dying"
           /\ UNCHANGED <<Sockets!listener, conn, lState, lOp, Sockets!history>>
  <2>1. UNCHANGED <<listen, accepting, conn, lState, lOp, lSent, got>>
    BY <1>2 DEF Sockets!listener, Sockets!history
  <2> QED
    BY <1>1, <2>1, ListenerStep DEF SocketInv, AcceptSleeps
<1>3. CASE listen.mem # "dying"
  <2>1. PICK f : f = FifoInit(SocketSize) /\ StreamOk(f, <<>>, <<>>)
    BY StreamStart
  <2>2. PICK l \in Conns :
          l = Sockets!NoConn /\ ~l.isClosed /\ \A side \in Sockets!Sides : l.ring[side] = f
    <3>1. Sockets!NoConn = [mem |-> "none", refs |-> 0, isClosed |-> FALSE,
                            ring |-> [side \in Sockets!Sides |-> f]]
      BY <2>1, SocketFifo DEF Sockets!NoConn
    <3>2. f \in Rings(SocketSize, Cells)
      BY <2>1 DEF StreamOk
    <3>3. PICK g \in [Sockets!Sides -> Rings(SocketSize, Cells)] :
            g = [side \in Sockets!Sides |-> f]
      BY <3>2
    <3>4. PICK l : l = [mem |-> "none", refs |-> 0, isClosed |-> FALSE, ring |-> g]
      OBVIOUS
    <3>5. l \in Conns
      BY <3>4 DEF Conns
    <3>6. l.isClosed = FALSE /\ l.ring = g
      BY <3>4
    <3>7. l = Sockets!NoConn
      BY <3>1, <3>3, <3>4
    <3> QED
      BY <3>3, <3>5, <3>6, <3>7
  <2>3. PICK r \in Int : r = 1
    OBVIOUS
  <2>4. PICK k \in Conns :
          /\ k = [l EXCEPT !.mem = "live", !.refs = r]
          /\ ~k.isClosed /\ \A side \in Sockets!Sides : k.ring[side] = f
    <3>1. PICK k : k = [l EXCEPT !.mem = "live", !.refs = r]
      OBVIOUS
    <3>2. k \in Conns /\ k.isClosed = l.isClosed /\ k.ring = l.ring
      BY <3>1 DEF Conns
    <3> QED
      BY <2>2, <3>1, <3>2
  <2>5. /\ lState[<<c, "client">>] = "NEW"
        /\ listen' = [listen EXCEPT !.refs = @ + 1, !.backlog = Append(@, c)]
        /\ accepting' = IF accepting = "wait" THEN "woken" ELSE accepting
        /\ conn' = [conn EXCEPT ![c] = k]
        /\ lState' = [lState EXCEPT ![<<c, "client">>] = "CONNECTED"]
        /\ UNCHANGED <<lOp, lSent, got>>
    BY <1>3, <2>2, <2>3, <2>4 DEF Sockets!Connect, Sockets!WakeListen, Sockets!history
  <2>6. listen.backlog \in Seq(Peers) /\ listen.refs \in Int
    BY <1>1 DEF Listens
  <2>7. /\ listen' \in Listens /\ listen'.backlog = Append(listen.backlog, c)
    <3>1. listen.refs + 1 \in Int /\ Append(listen.backlog, c) \in Seq(Peers)
      BY <2>6
    <3>2. PICK n \in Int, b \in Seq(Peers) : n = listen.refs + 1 /\ b = Append(listen.backlog, c)
      BY ONLY <3>1
    <3>3. listen' = [listen EXCEPT !.refs = n, !.backlog = b]
      BY <2>5, <3>2
    <3>4. listen' \in Listens /\ listen'.backlog = b
      BY ONLY <1>1, <3>3, n \in Int, b \in Seq(Peers) DEF Listens
    <3> QED
      BY <3>2, <3>4
  <2>8. /\ conn' \in [Peers -> Conns] /\ conn'[c] = k
        /\ \A d \in Peers \ {c} : conn'[d] = conn[d]
    BY <1>1, <2>4, <2>5
  <2>9. /\ lState' \in [Sockets!Ends -> {"none", "NEW", "CONNECTED", "closed"}]
        /\ lState'[<<c, "client">>] = "CONNECTED"
        /\ \A d \in Peers \ {c}, side \in Sockets!Sides : lState'[<<d, side>>] = lState[<<d, side>>]
    BY <1>1, <2>5, EndOf, PeerSides
  <2>10. SocketTypes'
    BY <2>5, <2>7, <2>8, <2>9 DEF SocketInv, SocketTypes
  <2>11. \A side \in Sockets!Sides : /\ lOp[<<c, side>>].at = "run"
                                     /\ lSent[<<c, side>>] = <<>> /\ got[<<c, side>>] = <<>>
    BY <2>5 DEF SocketInv, Unused
  <2>12. Unused'
    <3>1. Others(c)
      BY <2>5, <2>9 DEF Others
    <3>2. BacklogOf(c)
      BY <2>6, <2>7 DEF BacklogOf
    <3> QED
      BY <2>9, <3>1, <3>2, UnusedKept
  <2>13. StreamsOk'
    <3> SUFFICES ASSUME NEW d \in Peers, NEW side \in Sockets!Sides
                 PROVE  StreamOk(conn'[d].ring[side], lSent[<<d, side>>],
                                 got[<<d, Sockets!Peer(side)>>])
      BY <2>5 DEF StreamsOk
    <3>1. CASE d = c
      BY <2>1, <2>4, <2>8, <2>11, <3>1, PeerSides
    <3>2. CASE d # c
      BY <2>8, <3>2 DEF SocketInv, StreamsOk
    <3> QED
      BY <3>1, <3>2
  <2>14. AcceptSleeps'
    BY <2>5 DEF AcceptSleeps
  <2>15. EndsSleep'
    <3>1. Woken(c)
      BY <1>1, <2>5, <2>11 DEF Woken
    <3> QED
      BY <2>8, <3>1, WokenSleep
  <2> QED
    BY <2>10, <2>12, <2>13, <2>14, <2>15 DEF SocketInv
<1> QED
  BY <1>2, <1>3 DEF Sockets!Connect

\* netfs_data_close()
LEMMA CloseStep ==
  ASSUME SocketInv, NEW c \in Peers, NEW side \in Sockets!Sides, Sockets!Close(c, side)
  PROVE  SocketInv'
<1>1. /\ listen \in Listens /\ conn \in [Peers -> Conns]
      /\ lState \in [Sockets!Ends -> {"none", "NEW", "CONNECTED", "closed"}]
      /\ lOp \in [Sockets!Ends -> SocketOps]
  BY DEF SocketInv, SocketTypes
<1>2. /\ lState[<<c, side>>] = "CONNECTED"
      /\ lState' = [lState EXCEPT ![<<c, side>>] = "closed"]
      /\ conn' = [conn EXCEPT ![c] =
                    [conn[c] EXCEPT !.isClosed = TRUE, !.refs = @ - 1,
                                    !.mem = IF conn[c].refs = 1 THEN "freed" ELSE @]]
      /\ lOp' = Sockets!WakeConn(c, lOp)
      /\ listen' = IF conn[c].refs = 1 THEN Sockets!Dropped(listen) ELSE listen
      /\ UNCHANGED <<accepting, lSent, got>>
  BY DEF Sockets!Close, Sockets!history
<1>3. listen' \in Listens /\ listen'.backlog = listen.backlog /\ listen'.isClosed = listen.isClosed
  BY <1>1, <1>2, ListenDropped
<1>4. /\ conn' \in [Peers -> Conns] /\ \A d \in Peers \ {c} : conn'[d] = conn[d]
      /\ \A d \in Peers : conn'[d].ring = conn[d].ring
  <2>1. PICK l \in Conns, r \in Int : l = conn[c] /\ r = l.refs - 1
    BY <1>1, ConnFields
  <2>2. PICK m \in {"none", "live", "freed"} : m = IF l.refs = 1 THEN "freed" ELSE l.mem
    BY ConnFields
  <2>3. PICK k : k = [l EXCEPT !.isClosed = TRUE, !.refs = r, !.mem = m]
    OBVIOUS
  <2>4. k \in Conns /\ k.ring = l.ring
    BY <2>3 DEF Conns
  <2>5. conn' = [conn EXCEPT ![c] = k]
    <3>1. k = [conn[c] EXCEPT !.isClosed = TRUE, !.refs = @ - 1,
                              !.mem = IF conn[c].refs = 1 THEN "freed" ELSE @]
      BY <2>1, <2>2, <2>3 DEF Conns
    <3> QED
      BY ONLY <1>2, <3>1
  <2> QED
    BY <1>1, <2>1, <2>4, <2>5
<1>5. /\ lState' \in [Sockets!Ends -> {"none", "NEW", "CONNECTED", "closed"}]
      /\ \A d \in Peers \ {c}, s \in Sockets!Sides : lState'[<<d, s>>] = lState[<<d, s>>]
      /\ lState'[<<c, "client">>] \in {"closed", lState[<<c, "client">>]}
  BY <1>1, <1>2, EndOf, PeerSides
<1>6. Woken(c)
  BY <1>1, <1>2, WakeEffect
<1>7. SocketTypes'
  BY <1>2, <1>3, <1>4, <1>5, <1>6 DEF SocketInv, SocketTypes, Woken
<1>8. Unused'
  <2>1. Others(c)
    BY <1>2, <1>5, <1>6 DEF Others, Woken
  <2>2. BacklogOf(c)
    BY <1>3 DEF BacklogOf
  <2>3. lState'[<<c, "client">>] # "NEW"
    BY <1>2, <1>5, HasConnected
  <2> QED
    BY <2>1, <2>2, <2>3, UnusedKept
<1>9. StreamsOk'
  BY <1>2, <1>4, StreamsKept DEF SocketInv
<1>10. EndsSleep'
  BY <1>4, <1>6, WokenSleep
<1>11. AcceptSleeps'
  BY <1>2, <1>3 DEF SocketInv, AcceptSleeps
<1> QED
  BY <1>7, <1>8, <1>9, <1>10, <1>11 DEF SocketInv

\* Every step of the sockets keeps the invariant.
LEMMA SocketStep ==
  ASSUME StreamsAssumption, SocketInv, [Sockets!Next]_(Sockets!vars)
  PROVE  SocketInv'
<1>1. SocketSize \in Nat \ {0} /\ PacketSizes \subseteq Nat /\ Backlogs \subseteq Nat
  BY DEF StreamsAssumption
<1>2. CASE \/ Sockets!Bind \/ Sockets!Listen \/ Sockets!Accept \/ Sockets!AcceptEnds
           \/ Sockets!CloseListener \/ Sockets!ListenFree
  BY <1>1, <1>2, ListenerSteps, TakeStep DEF Sockets!Accept
<1>3. ASSUME NEW c \in Peers, Sockets!Connect(c) PROVE SocketInv'
  BY <1>1, <1>3, ConnectStep
<1>4. ASSUME NEW c \in Peers, NEW side \in Sockets!Sides,
             \/ Sockets!Close(c, side) \/ Sockets!Send(c, side) \/ Sockets!Recv(c, side)
             \/ Sockets!Resume(c, side) \/ Sockets!Interrupted(c, side)
      PROVE  SocketInv'
  <2>1. CASE Sockets!Close(c, side)
    BY <2>1, CloseStep
  <2>2. CASE Sockets!Send(c, side)
    <3>1. lState[<<c, "client">>] # "NEW"
      BY <2>2, HasConnected DEF Sockets!Send
    <3>2. PICK count \in Nat : Sockets!TrySend(c, side, count)
      BY <1>1, <2>2 DEF Sockets!Send
    <3> QED
      BY <1>1, <3>1, <3>2, PacketSent
  <2>3. CASE Sockets!Recv(c, side)
    <3>1. lState[<<c, "client">>] # "NEW"
      BY <2>3, HasConnected DEF Sockets!Recv
    <3>2. PICK count \in Nat : Sockets!TryRecv(c, side, count)
      BY <1>1, <2>3 DEF Sockets!Recv
    <3> QED
      BY <1>1, <3>1, <3>2, PacketReceived
  <2>4. CASE Sockets!Resume(c, side)
    <3>1. lState[<<c, "client">>] # "NEW"
      BY <2>4, HasConnected DEF Sockets!Resume
    <3>2. PICK count \in Nat : count = lOp[<<c, side>>].count
      BY EndOf DEF SocketInv, SocketTypes, SocketOps
    <3>3. Sockets!TrySend(c, side, count) \/ Sockets!TryRecv(c, side, count)
      BY <2>4, <3>2 DEF Sockets!Resume
    <3> QED
      BY <1>1, <3>1, <3>3, PacketSent, PacketReceived
  <2>5. CASE Sockets!Interrupted(c, side)
    <3>1. lState[<<c, "client">>] # "NEW"
      BY <2>5, HasConnected DEF Sockets!Interrupted
    <3> QED
      BY <2>5, <3>1, EndFails DEF Sockets!Interrupted
  <2> QED
    BY <1>4, <2>1, <2>2, <2>3, <2>4, <2>5
<1>5. CASE UNCHANGED Sockets!vars
  <2>1. UNCHANGED <<listen, accepting, conn, lState, lOp, lSent, got>>
    BY <1>5 DEF Sockets!vars, Sockets!listener, Sockets!history
  <2>2. listen \in Listens /\ AcceptSleeps
    BY DEF SocketInv, SocketTypes
  <2>3. AcceptSleeps'
    BY <2>1, <2>2 DEF AcceptSleeps
  <2> QED
    BY <2>1, <2>2, <2>3, ListenerStep
<1> QED
  BY <1>2, <1>3, <1>4, <1>5 DEF Sockets!Next

\* From the invariant: what each end received are the packets its peer sent, in order, each once
\* and cut to the buffer it was received into.
LEMMA SocketOrder == SocketInv => Sockets!StreamInOrder
<1> SUFFICES ASSUME SocketInv, NEW e \in Sockets!Ends
             PROVE  /\ Len(got[e]) <= Len(lSent[<<e[1], Sockets!Peer(e[2])>>])
                    /\ \A n \in 1..Len(got[e]) :
                         got[e][n].data =
                           [j \in 1..(IF lSent[<<e[1], Sockets!Peer(e[2])>>][n] < got[e][n].count
                                      THEN lSent[<<e[1], Sockets!Peer(e[2])>>][n]
                                      ELSE got[e][n].count) |-> n]
  BY DEF Sockets!StreamInOrder
<1>1. PICK c \in Peers, side \in Sockets!Sides : e = <<c, side>> /\ c = e[1] /\ side = e[2]
  BY DEF Sockets!Ends
<1>2. PICK s \in Sockets!Sides : s = Sockets!Peer(side) /\ Sockets!Peer(s) = side
  BY PeerSides
<1>3. StreamOk(conn[c].ring[s], lSent[<<c, s>>], got[<<c, Sockets!Peer(s)>>])
  BY DEF SocketInv, StreamsOk
<1>4. PICK q, g : q = lSent[<<c, s>>] /\ g = got[e]
  OBVIOUS
<1>5. StreamOk(conn[c].ring[s], q, g)
  BY <1>1, <1>2, <1>3, <1>4
<1>6. /\ q \in Seq(Nat) /\ g \in Seq(Received) /\ Len(g) \in 0..Len(q)
      /\ \A n \in 1..Len(g) :
           g[n].data = [j \in 1..(IF q[n] < g[n].count THEN q[n] ELSE g[n].count) |-> n]
  BY <1>5 DEF StreamOk
<1>7. lSent[<<e[1], Sockets!Peer(e[2])>>] = q /\ got[e] = g
  BY <1>1, <1>2, <1>4
<1>8. Len(g) <= Len(q)
  BY <1>6
<1> QED
  BY ONLY <1>6, <1>7, <1>8

\* From the invariant: accept() sleeps only while the backlog is empty, a sender only without room,
\* a receiver only without a packet, and nobody on a closed connection.
LEMMA SocketAwake == SocketInv => Sockets!NoLostWakeup
<1> SUFFICES ASSUME SocketInv PROVE Sockets!NoLostWakeup
  OBVIOUS
<1>1. accepting = "wait" => ~listen.isClosed /\ listen.backlog = <<>>
  BY DEF SocketInv, AcceptSleeps
<1>2. ASSUME NEW e \in Sockets!Ends, lOp[e].at = "wait"
      PROVE  /\ ~conn[e[1]].isClosed
             /\ IF lOp[e].kind = "recv" THEN ~Sockets!HasPacket(e[1], e[2])
                ELSE ~Sockets!Room(e[1], e[2], lOp[e].count)
  <2>1. PICK c \in Peers, side \in Sockets!Sides : e = <<c, side>> /\ c = e[1] /\ side = e[2]
    BY DEF Sockets!Ends
  <2> QED
    BY <1>2, <2>1 DEF SocketInv, EndsSleep
<1> QED
  BY <1>1, <1>2 DEF Sockets!NoLostWakeup

-----------------------------------------------------------------------------
(* The three together *)

\* The state of the streams is good.
StreamsInv == NoteInv /\ PipeInv /\ SocketInv

\* The invariant holds at the start.
LEMMA StreamsStart == ASSUME StreamsAssumption, StreamsInit PROVE StreamsInv
<1>1. NoteInv
  BY NoteInit DEF StreamsAssumption, StreamsInit, NoteInv
<1>2. PipeInv
  BY PipeInit DEF StreamsAssumption, StreamsInit
<1>3. SocketInv
  BY SocketInit DEF StreamsAssumption, StreamsInit
<1> QED
  BY <1>1, <1>2, <1>3 DEF StreamsInv

\* A step of one of the three keeps the invariant of each: it is a step of that one and leaves
\* the variables of the others alone.
LEMMA StreamsStep ==
  ASSUME StreamsAssumption, StreamsInv, [StreamsNext]_streamVars
  PROVE  StreamsInv'
<1>1. [Notes!Next]_(Notes!vars)
  BY DEF StreamsNext, streamVars, noteVars, Notes!vars
<1>2. [P!Next]_(P!vars)
  BY DEF StreamsNext, streamVars, pipeVars, P!vars, P!closed
<1>3. [Sockets!Next]_(Sockets!vars)
  BY DEF StreamsNext, streamVars, localVars, Sockets!vars, Sockets!listener, Sockets!history
<1>4. NoteInv'
  BY <1>1, NoteStep DEF StreamsInv, StreamsAssumption, Notes!Handler
<1>5. PipeInv'
  BY <1>2, PipeStep DEF StreamsInv, StreamsAssumption
<1>6. SocketInv'
  BY <1>3, SocketStep DEF StreamsInv
<1> QED
  BY <1>4, <1>5, <1>6 DEF StreamsInv

\* The inductive invariant of the streams: each component keeps its own, whatever the others
\* do.
LEMMA StreamsInvariant == StreamsSpec => []StreamsInv
<1>1. StreamsInit => StreamsInv
  BY StreamsAssumption, StreamsStart
<1>2. StreamsInv /\ [StreamsNext]_streamVars => StreamsInv'
  BY StreamsAssumption, StreamsStep
<1> QED
  BY <1>1, <1>2, PTL DEF StreamsSpec

\* Notes, pipes and local sockets, for every capacity of a note queue, every size of the rings and
\* of the packets, any number of clients, readers and writers: what arrives is what was sent, in
\* order, each item once, wherever fifo_read(), fifo_write() and the queue of notes wrap.
THEOREM StreamsArrive == StreamsSpec => []StreamInOrder
<1>1. StreamsInv => StreamInOrder
  <2> SUFFICES ASSUME StreamsInv PROVE StreamInOrder
    OBVIOUS
  <2>1. Notes!StreamInOrder
    BY StreamsAssumption, NoteOrder DEF StreamsInv, StreamsAssumption, Notes!Handler
  <2>2. P!StreamInOrder
    BY StreamsAssumption, PipeOrder DEF StreamsInv, StreamsAssumption
  <2>3. Sockets!StreamInOrder
    BY SocketOrder DEF StreamsInv
  <2> QED
    BY <2>1, <2>2, <2>3 DEF StreamInOrder
<1> QED
  BY <1>1, StreamsInvariant, PTL

\* Pipes and local sockets, for all such values: no reader, writer, sender, receiver or accept()
\* sleeps on when a byte, room, a packet, a connection or the end of the other side is there.
THEOREM NobodySleepsOn == StreamsSpec => []NobodyMissed
<1>1. StreamsInv => NobodyMissed
  BY StreamsAssumption, PipeAwake, SocketAwake DEF StreamsInv, StreamsAssumption, NobodyMissed
<1> QED
  BY <1>1, StreamsInvariant, PTL
=============================================================================
