-------------------------------- MODULE Fifo --------------------------------
(***************************************************************************)
(* The byte queue of include/kernel/utils/fifo.h: a ring buffer of size    *)
(* cells, one of which is always free.                                     *)
(***************************************************************************)
EXTENDS Integers, Sequences

Least(a, b) == IF a < b THEN a ELSE b

\* fifo_init(); the cells are whatever malloc() returned, here 0.
FifoInit(size) == [size |-> size, buffer |-> [i \in 0..(size - 1) |-> 0], head |-> 0, tail |-> 0]

\* fifo_bytes_readable()
Readable(f) ==
  IF f.head >= f.tail THEN f.head - f.tail ELSE f.size - (f.tail - f.head)

\* fifo_bytes_writeable()
Writeable(f) ==
  IF f.tail > f.head THEN f.tail - f.head - 1 ELSE f.size - (f.head - f.tail) - 1

\* fifo_read(): the bytes up to the end of the buffer, then those at its start.
FifoRead(f, count) ==
  LET n == Least(count, Readable(f))
      first == Least(f.size - f.tail, n)
      wrapped == (f.tail + first) % f.size
      copy(at, k) == [j \in 1..k |-> f.buffer[at + j - 1]]
  IN [ring |-> [f EXCEPT !.tail = (wrapped + (n - first)) % f.size],
      data |-> copy(f.tail, first) \o copy(wrapped, n - first)]

\* fifo_write() of the sequence s: what there is room for.
FifoWrite(f, s) ==
  LET n == Least(Len(s), Writeable(f))
      first == Least(f.size - f.head, n)
      wrapped == (f.head + first) % f.size
      cell(i) == IF i >= f.head /\ i < f.head + first THEN s[i - f.head + 1]
                 ELSE IF i >= wrapped /\ i < wrapped + (n - first) THEN s[i - wrapped + first + 1]
                 ELSE f.buffer[i]
  IN [ring |-> [f EXCEPT !.buffer = [i \in DOMAIN f.buffer |-> cell(i)],
                         !.head = (wrapped + (n - first)) % f.size],
      count |-> n]

\* What a reader would get, oldest first.
Contents(f) == [j \in 1..((f.head - f.tail) % f.size) |-> f.buffer[(f.tail + j - 1) % f.size]]
=============================================================================
