------------------------------- MODULE SeqLock ------------------------------
(***************************************************************************)
(* The sequence lock (include/kernel/sync/seqlock.h) around data of two    *)
(* words.  The lock of the writers is a mutual exclusion (module SpinLock) *)
(* and the sequence number, a uint64_t, does not wrap.                     *)
(***************************************************************************)
EXTENDS Naturals

CONSTANTS Cpus, MaxWrites  \* bound on the writes of a behaviour

VARIABLES
  sequence, writer, data,
  pc, seq, copy  \* per CPU: where it is, what seqlock_read_begin() returned, what it read

vars == <<sequence, writer, data, pc, seq, copy>>

Init ==
  /\ sequence = 0 /\ writer = FALSE /\ data = <<0, 0>>
  /\ pc = [c \in Cpus |-> "run"] /\ seq = [c \in Cpus |-> 0]
  /\ copy = [c \in Cpus |-> <<0, 0>>]

Goto(c, from, to) == pc[c] = from /\ pc' = [pc EXCEPT ![c] = to]

\* seqlock_write_acquire(), the two words, seqlock_write_release()
WriteBegin(c) ==
  /\ Goto(c, "run", "write1") /\ ~writer /\ sequence < 2 * MaxWrites
  /\ writer' = TRUE /\ sequence' = sequence + 1
  /\ UNCHANGED <<data, seq, copy>>

WriteFirst(c) ==
  /\ Goto(c, "write1", "write2") /\ data' = [data EXCEPT ![1] = sequence]
  /\ UNCHANGED <<sequence, writer, seq, copy>>

WriteSecond(c) ==
  /\ Goto(c, "write2", "written") /\ data' = [data EXCEPT ![2] = sequence]
  /\ UNCHANGED <<sequence, writer, seq, copy>>

WriteEnd(c) ==
  /\ Goto(c, "written", "unlock") /\ sequence' = sequence + 1
  /\ UNCHANGED <<writer, data, seq, copy>>

WriteUnlock(c) ==
  /\ Goto(c, "unlock", "run") /\ writer' = FALSE
  /\ UNCHANGED <<sequence, data, seq, copy>>

\* seqlock_read_begin(), the two words, seqlock_read_retry()
ReadBegin(c) ==
  /\ Goto(c, "run", "read1") /\ seq' = [seq EXCEPT ![c] = sequence]
  /\ UNCHANGED <<sequence, writer, data, copy>>

ReadFirst(c) ==
  /\ Goto(c, "read1", "read2") /\ copy' = [copy EXCEPT ![c][1] = data[1]]
  /\ UNCHANGED <<sequence, writer, data, seq>>

ReadSecond(c) ==
  /\ Goto(c, "read2", "check") /\ copy' = [copy EXCEPT ![c][2] = data[2]]
  /\ UNCHANGED <<sequence, writer, data, seq>>

\* Mutant: that a writer was inside is not tested.
Retry_Odd(c) == sequence # seq[c]

Retry(c) == sequence # seq[c] \/ seq[c] % 2 = 1

ReadEnd(c) ==
  /\ Goto(c, "check", IF Retry(c) THEN "run" ELSE "done")
  /\ UNCHANGED <<sequence, writer, data, seq, copy>>

ReadDone(c) ==
  /\ Goto(c, "done", "run") /\ UNCHANGED <<sequence, writer, data, seq, copy>>

Next ==
  \E c \in Cpus :
    \/ WriteBegin(c) \/ WriteFirst(c) \/ WriteSecond(c) \/ WriteEnd(c) \/ WriteUnlock(c)
    \/ ReadBegin(c) \/ ReadFirst(c) \/ ReadSecond(c) \/ ReadEnd(c) \/ ReadDone(c)

Spec == Init /\ [][Next]_vars

\* A reader that does not retry has two words of the same write.
SnapshotWhole == \A c \in Cpus : pc[c] = "done" => copy[c][1] = copy[c][2]
=============================================================================
