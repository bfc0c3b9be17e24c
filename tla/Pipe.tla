-------------------------------- MODULE Pipe --------------------------------
(***************************************************************************)
(* A pipe (src/modules/ipc/pipe/pipe.c).                                   *)
(*                                                                         *)
(* Every operation runs under the lock of the pipe and is one step up to   *)
(* the place where WAIT_BLOCK_LOCK() gives the lock up; the thread is in   *)
(* the wait queue before it does.  A thread in read or write holds a       *)
(* reference to its file, so that an end is closed only when no thread is  *)
(* inside an operation on it.                                              *)
(***************************************************************************)
EXTENDS Fifo

CONSTANTS
  Threads,
  Size,      \* PAGE_SIZE, the bytes of the ring
  MaxBytes   \* bound on the bytes a behaviour writes

VARIABLES
  files,     \* "none" yet, "one" file for both ends, "two" files, or "freed"
  ring, isReadClosed, isWriteClosed,
  op,        \* per thread: the operation it is in
  sent,      \* history: bytes written are numbered
  received   \* history: bytes read

closed == <<isReadClosed, isWriteClosed>>
vars == <<files, ring, closed, op, sent, received>>

Idle == [kind |-> "none", count |-> 0, at |-> "run"]

Init ==
  /\ files = "none" /\ ring = FifoInit(Size) /\ isReadClosed = FALSE /\ isWriteClosed = FALSE
  /\ op = [t \in Threads |-> Idle] /\ sent = 0 /\ received = <<>>

\* pipe_open(), pipe_open2()
Open ==
  /\ files = "none" /\ files' \in {"one", "two"}
  /\ UNCHANGED <<ring, closed, op, sent, received>>

\* The ends a close of the read end, or of the write end, closes.
Ends(end) == IF files = "one" THEN {"read", "write"} ELSE {end}
IsClosed(end) == IF end = "read" THEN isReadClosed ELSE isWriteClosed

\* wait_unblock() of all, after self did what it came for and was left as it is.
Wake(others) == [t \in Threads |-> IF others[t].at = "wait" THEN [others[t] EXCEPT !.at = "woken"]
                                   ELSE others[t]]

\* Mutant: who waits for the other end is not woken.
Close_NoWake(end) ==
  /\ files \in {"one", "two"} /\ ~IsClosed(end)
  /\ \A t \in Threads : op[t].kind \notin Ends(end)
  /\ isReadClosed' = (isReadClosed \/ "read" \in Ends(end))
  /\ isWriteClosed' = (isWriteClosed \/ "write" \in Ends(end))
  /\ op' = op
  /\ files' = IF isReadClosed' /\ isWriteClosed' THEN "freed" ELSE files
  /\ UNCHANGED <<ring, sent, received>>

\* pipe_close()
Close(end) ==
  /\ files \in {"one", "two"} /\ ~IsClosed(end)
  /\ \A t \in Threads : op[t].kind \notin Ends(end)
  /\ isReadClosed' = (isReadClosed \/ "read" \in Ends(end))
  /\ isWriteClosed' = (isWriteClosed \/ "write" \in Ends(end))
  /\ op' = Wake(op)
  /\ files' = IF isReadClosed' /\ isWriteClosed' THEN "freed" ELSE files
  /\ UNCHANGED <<ring, sent, received>>

\* The conditions of WAIT_BLOCK_LOCK()
MayRead == Readable(ring) # 0 \/ isWriteClosed
MayWrite == Writeable(ring) # 0 \/ isReadClosed

Sleep(t, kind, count) ==
  /\ op' = [op EXCEPT ![t] = [kind |-> kind, count |-> count, at |-> "wait"]]
  /\ UNCHANGED <<files, ring, closed, sent, received>>

Return(t) == op' = [op EXCEPT ![t] = Idle] /\ UNCHANGED <<files, ring, closed, sent, received>>

Read(t, count) ==
  /\ MayRead
  /\ LET r == FifoRead(ring, count) IN ring' = r.ring /\ received' = received \o r.data
  /\ op' = Wake([op EXCEPT ![t] = Idle])
  /\ UNCHANGED <<files, closed, sent>>

\* Without a reader it is EPIPE; otherwise a part of the bytes may be written.
Write(t, count) ==
  /\ MayWrite
  /\ LET w == FifoWrite(ring, [j \in 1..count |-> sent + j]) IN
     IF isReadClosed THEN UNCHANGED <<ring, sent>> ELSE ring' = w.ring /\ sent' = sent + w.count
  /\ op' = Wake([op EXCEPT ![t] = Idle])
  /\ UNCHANGED <<files, closed, received>>

TryRead(t, count) == Read(t, count) \/ (~MayRead /\ Sleep(t, "read", count))
TryWrite(t, count) == Write(t, count) \/ (~MayWrite /\ Sleep(t, "write", count))

\* pipe_read(), pipe_write(); a file with MODE_NONBLOCK returns EAGAIN instead of
\* sleeping, which changes nothing.
PipeRead(t) ==
  /\ files \in {"one", "two"} /\ op[t] = Idle /\ ~isReadClosed
  /\ \E count \in 1..(Size - 1) : TryRead(t, count)

PipeWrite(t) ==
  /\ files \in {"one", "two"} /\ op[t] = Idle /\ ~isWriteClosed
  /\ \E count \in {n \in 0..(Size - 1) : sent + n <= MaxBytes} : TryWrite(t, count)

\* A woken thread has the lock again and tests its condition.
Resume(t) ==
  /\ op[t].at = "woken"
  /\ \/ op[t].kind = "read" /\ TryRead(t, op[t].count)
     \/ op[t].kind = "write" /\ TryWrite(t, op[t].count)

\* A note ends the wait.
Interrupted(t) == op[t].at = "wait" /\ Return(t)

Next ==
  \/ Open \/ \E end \in {"read", "write"} : Close(end)
  \/ \E t \in Threads : PipeRead(t) \/ PipeWrite(t) \/ Resume(t) \/ Interrupted(t)

Spec == Init /\ [][Next]_vars

\* pipe_poll(), for the file of an end
Poll(end) ==
  (IF Readable(ring) # 0 \/ isWriteClosed THEN {"POLLIN"} ELSE {})
  \cup (IF Writeable(ring) > 0 \/ isReadClosed THEN {"POLLOUT"} ELSE {})
  \cup (IF (end = "read" /\ isWriteClosed)
        \/ (end = "write" /\ isReadClosed) THEN {"POLLHUP"} ELSE {})

-----------------------------------------------------------------------------
(* Properties *)

\* The bytes that were read, and after them those in the ring, are the bytes that were
\* written, in order: no byte is lost, doubled or overtaken, whatever the sizes and
\* the places where the ring wraps.
StreamInOrder == received \o Contents(ring) = [j \in 1..sent |-> j]

\* A thread that sleeps in read or write, and was not woken, has no reason to be awake:
\* poll would not tell it that it may go on.
NoLostWakeup ==
  \A t \in Threads : op[t].at = "wait" =>
    IF op[t].kind = "read" THEN "POLLIN" \notin Poll("read") ELSE "POLLOUT" \notin Poll("write")
=============================================================================
