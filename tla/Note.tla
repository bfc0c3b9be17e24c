-------------------------------- MODULE Note --------------------------------
(***************************************************************************)
(* The notes of one thread (src/kernel/ipc/note.c): its bounded queue, the *)
(* handler of its process, and the frame user space returns to when it has *)
(* handled a note.  Every operation runs under the lock of the queue.      *)
(* Notes are numbered in the order they are accepted.                      *)
(***************************************************************************)
EXTENDS Integers, Sequences

CONSTANTS
  MaxNotes,    \* CONFIG_MAX_NOTES
  Places,      \* places of user code, outside of the handler
  MaxSent      \* bound on the notes of a behaviour

VARIABLES
  queue,       \* note_queue_t without its flags
  kill, handling,   \* the flags NOTE_QUEUE_RECEIVED_KILL, NOTE_QUEUE_HANDLING
  noteFrame,
  func,        \* noteHandler.func # NULL
  dying,       \* THREAD_DYING
  frame,       \* where the thread is in user space
  sent,        \* history: how many notes were accepted
  delivered    \* history: notes the handler was called with, and where it was called

vars == <<queue, kill, handling, noteFrame, func, dying, frame, sent, delivered>>

Handler == "handler"

\* note_queue_init(), note_handler_init()
Init ==
  /\ queue = [notes |-> [i \in 0..(MaxNotes - 1) |-> 0], readIndex |-> 0, writeIndex |-> 0,
              length |-> 0]
  /\ kill = FALSE /\ handling = FALSE /\ noteFrame = "zeros" /\ func = FALSE
  /\ dying = FALSE /\ frame \in Places /\ sent = 0 /\ delivered = <<>>

\* note_send() of "kill"
SendKill ==
  /\ kill' = TRUE
  /\ UNCHANGED <<queue, handling, noteFrame, func, dying, frame, sent, delivered>>

\* note_send() of another note; a full queue is EAGAIN.
Send ==
  /\ queue.length < MaxNotes /\ sent < MaxSent
  /\ queue' = [queue EXCEPT !.notes[queue.writeIndex] = sent + 1,
                            !.writeIndex = (@ + 1) % MaxNotes, !.length = @ + 1]
  /\ sent' = sent + 1
  /\ UNCHANGED <<kill, handling, noteFrame, func, dying, frame, delivered>>

\* note_handle_pending(), at an interrupt of user space; copying the note to the
\* stack of the thread may fail.
Kill ==
  /\ kill /\ kill' = FALSE /\ dying' = TRUE
  /\ UNCHANGED <<queue, handling, noteFrame, func, frame, sent, delivered>>

NoHandler ==
  /\ ~kill /\ queue.length # 0 /\ ~handling /\ ~func /\ dying' = TRUE
  /\ UNCHANGED <<queue, kill, handling, noteFrame, func, frame, sent, delivered>>

\* Mutant: a note is delivered while the handler runs.
Deliver_Nested ==
  /\ ~kill /\ queue.length # 0 /\ func
  /\ queue' = [queue EXCEPT !.readIndex = (@ + 1) % MaxNotes, !.length = @ - 1]
  /\ noteFrame' = frame /\ handling' = TRUE
  /\ \/ /\ frame' = Handler /\ UNCHANGED dying
        /\ delivered' = Append(delivered, [note |-> queue.notes[queue.readIndex], at |-> frame])
     \/ dying' = TRUE /\ UNCHANGED <<frame, delivered>>
  /\ UNCHANGED <<kill, func, sent>>

Deliver ==
  /\ ~kill /\ queue.length # 0 /\ ~handling /\ func
  /\ queue' = [queue EXCEPT !.readIndex = (@ + 1) % MaxNotes, !.length = @ - 1]
  /\ noteFrame' = frame /\ handling' = TRUE
  /\ \/ /\ frame' = Handler /\ UNCHANGED dying
        /\ delivered' = Append(delivered, [note |-> queue.notes[queue.readIndex], at |-> frame])
     \/ dying' = TRUE /\ UNCHANGED <<frame, delivered>>
  /\ UNCHANGED <<kill, func, sent>>

\* SYS_NOTIFY
Notify ==
  /\ func' \in BOOLEAN
  /\ UNCHANGED <<queue, kill, handling, noteFrame, dying, frame, sent, delivered>>

\* SYS_NOTED, from the handler or by mistake
Noted ==
  /\ \/ /\ handling /\ handling' = FALSE /\ frame' = noteFrame /\ UNCHANGED dying
     \/ /\ ~handling /\ dying' = TRUE /\ UNCHANGED <<handling, frame>>
  /\ UNCHANGED <<queue, kill, noteFrame, func, sent, delivered>>

\* User code goes on, within the handler or outside of it.
Run ==
  /\ frame \in Places /\ frame' \in Places
  /\ UNCHANGED <<queue, kill, handling, noteFrame, func, dying, sent, delivered>>

Next ==
  /\ ~dying
  /\ Send \/ SendKill \/ Kill \/ NoHandler \/ Deliver \/ Notify \/ Noted \/ Run

Spec == Init /\ [][Next]_vars

-----------------------------------------------------------------------------
Pending == [j \in 1..queue.length |-> queue.notes[(queue.readIndex + j - 1) % MaxNotes]]

\* The notes that were delivered, and after them those that are pending, are the notes
\* that were accepted, in order: none is lost in a full queue or overwritten (a thread
\* that dies may take one with it), and the handler, while it runs, is not entered
\* again but returns to where it was called.
StreamInOrder ==
  ~dying => /\ [j \in 1..Len(delivered) |-> delivered[j].note] \o Pending = [j \in 1..sent |-> j]
            /\ handling <=> frame = Handler
            /\ handling => noteFrame = delivered[Len(delivered)].at
=============================================================================
