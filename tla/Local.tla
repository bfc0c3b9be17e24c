------------------------------- MODULE Local --------------------------------
(***************************************************************************)
(* Local sockets: the sockets of src/kernel/fs/netfs.c and the "local"     *)
(* family of src/modules/net/local.                                        *)
(*                                                                         *)
(* One socket listens, each client socket connects to it; the connection   *)
(* and the socket that accept() makes for it are named after the client.   *)
(* An operation holds the mutex of its socket to its end, also while it    *)
(* sleeps, and the file that is used keeps the socket: a socket has at     *)
(* most one operation, and is closed when it has none.  What happens under *)
(* the lock of a listener or a connection is one step.                     *)
(*                                                                         *)
(* A reference through a pointer whose object is freed, or is being freed, *)
(* ends the behaviour with corrupt = TRUE.                                 *)
(***************************************************************************)
EXTENDS Fifo, SequencesExt

CONSTANTS
  Clients,
  Size,        \* LOCAL_BUFFER_SIZE; a header takes one cell of it
  Counts,      \* sizes of packets, and of the buffers to receive into
  Backlogs,    \* backlogs given to listen
  MaxPackets   \* bound on the packets sent by an end

MaxPacketSize == Size - 1   \* LOCAL_MAX_PACKET_SIZE
MaxBacklog == 2             \* LOCAL_MAX_BACKLOG

Sides == {"client", "server"}
Peer(side) == IF side = "client" THEN "server" ELSE "client"
Ends == Clients \X Sides

VARIABLES
  lstate,    \* state of the listening socket
  accepting, \* its operation: "none", "wait", "woken"
  listen,    \* local_listen_t; mem: "none", "live", "dying" (no reference left), "freed"
  conn,      \* local_conn_t per client; ring[side] holds what side sent
  state,     \* per end: state of its socket
  op,        \* per end: the operation of its socket
  sent, got, \* history, per end: the packets sent, and what was received
  corrupt

listener == <<lstate, accepting, listen>>
history == <<sent, got>>
vars == <<listener, conn, state, op, history, corrupt>>

Idle == [kind |-> "none", count |-> 0, at |-> "run"]
NoConn == [mem |-> "none", refs |-> 0, isClosed |-> FALSE,
           ring |-> [side \in Sides |-> FifoInit(Size)]]

Init ==
  /\ lstate = "NEW" /\ accepting = "none"
  /\ listen = [mem |-> "none", refs |-> 0, isClosed |-> FALSE, max |-> MaxBacklog,
               backlog |-> <<>>]
  /\ conn = [c \in Clients |-> NoConn]
  /\ state = [e \in Ends |-> IF e[2] = "client" THEN "NEW" ELSE "none"]
  /\ op = [e \in Ends |-> Idle]
  /\ sent = [e \in Ends |-> <<>>] /\ got = [e \in Ends |-> <<>>] /\ corrupt = FALSE

\* wait_unblock() of the queue of a connection, of the queue of the listener
WakeConn(c, ops) == [e \in Ends |-> IF e[1] = c /\ ops[e].at = "wait"
                                    THEN [ops[e] EXCEPT !.at = "woken"] ELSE ops[e]]

WakeListen == accepting' = IF accepting = "wait" THEN "woken" ELSE accepting

\* UNREF(listen): the last one calls local_listen_free().
Dropped(l) == [l EXCEPT !.refs = @ - 1, !.mem = IF l.refs = 1 THEN "dying" ELSE @]

-----------------------------------------------------------------------------
(* The listening socket *)

\* netfs_ctl_bind(), local_listen_new()
Bind ==
  /\ lstate = "NEW" /\ lstate' = "BOUND"
  /\ listen' = [listen EXCEPT !.mem = "live", !.refs = 1]
  /\ UNCHANGED <<accepting, conn, state, op, history, corrupt>>

Listen ==
  /\ lstate = "BOUND" /\ lstate' = "LISTENING"
  /\ \E backlog \in Backlogs :
       listen' = [listen EXCEPT !.max = IF backlog < MaxBacklog
                                        THEN backlog ELSE @, !.isClosed = FALSE]
  /\ UNCHANGED <<accepting, conn, state, op, history, corrupt>>

\* local_socket_accept(), once it has the lock: the oldest pending connection gets a
\* socket; MODE_NONBLOCK does not sleep.
Take ==
  LET c == Head(listen.backlog) IN
  /\ ~listen.isClosed /\ listen.backlog # <<>>
  /\ listen' = [listen EXCEPT !.backlog = Tail(@)]
  /\ accepting' = "none"
  /\ IF conn[c].mem = "live"
     THEN /\ conn' = [conn EXCEPT ![c].refs = @ + 1]
          /\ state' = [state EXCEPT ![<<c, "server">>] = "CONNECTED"]
          /\ UNCHANGED corrupt
     ELSE corrupt' = TRUE /\ UNCHANGED <<conn, state>>
  /\ UNCHANGED <<lstate, op, history>>

Wait ==
  /\ ~listen.isClosed /\ listen.backlog = <<>> /\ accepting' = "wait"
  /\ UNCHANGED <<lstate, listen, conn, state, op, history, corrupt>>

Accept == lstate = "LISTENING" /\ accepting \in {"none", "woken"} /\ (Take \/ Wait)

\* A note ends the wait, as the end of the listener would.
AcceptEnds ==
  /\ accepting = "wait" \/ (accepting = "woken" /\ listen.isClosed)
  /\ accepting' = "none"
  /\ UNCHANGED <<lstate, listen, conn, state, op, history, corrupt>>

\* local_socket_deinit() of the listening socket
CloseListener ==
  /\ lstate \in {"BOUND", "LISTENING"} /\ accepting = "none" /\ lstate' = "closed"
  /\ listen' = Dropped([listen EXCEPT !.isClosed = TRUE])
  /\ UNCHANGED <<accepting, conn, state, op, history, corrupt>>

\* local_listen_free(): out of the map, and the connections nobody accepted are
\* closed and lose a reference, which the backlog never had.
ListenFree ==
  /\ listen.mem = "dying"
  /\ listen' = [listen EXCEPT !.mem = "freed", !.backlog = <<>>]
  /\ corrupt' = (corrupt \/ listen.backlog # <<>>)
  /\ UNCHANGED <<lstate, accepting, conn, state, op, history>>

-----------------------------------------------------------------------------
(* The sockets of a connection *)

\* netfs_ctl_connect(), local_socket_connect(); a refused one leaves all as it was.
\* local_listen_find() finds a listener until local_listen_free() has removed it.
Connect(c) ==
  /\ state[<<c, "client">>] = "NEW"
  /\ \/ /\ listen.mem = "dying" /\ corrupt' = TRUE
        /\ UNCHANGED <<listener, conn, state, op, history>>
     \/ /\ listen.mem = "live" /\ ~listen.isClosed /\ Len(listen.backlog) < listen.max
        /\ listen' = [listen EXCEPT !.refs = @ + 1, !.backlog = Append(@, c)]
        /\ WakeListen
        /\ conn' = [conn EXCEPT ![c] = [NoConn EXCEPT !.mem = "live", !.refs = 1]]
        /\ state' = [state EXCEPT ![<<c, "client">>] = "CONNECTED"]
        /\ UNCHANGED <<lstate, op, history, corrupt>>

\* netfs_data_close(), local_socket_deinit(), and local_conn_free() with the last end
Close(c, side) ==
  LET last == conn[c].refs = 1 IN
  /\ state[<<c, side>>] = "CONNECTED" /\ op[<<c, side>>] = Idle
  /\ state' = [state EXCEPT ![<<c, side>>] = "closed"]
  /\ conn' = [conn EXCEPT ![c] = [conn[c] EXCEPT !.isClosed = TRUE, !.refs = @ - 1,
                                                 !.mem = IF last THEN "freed" ELSE @]]
  /\ op' = WakeConn(c, op)
  /\ listen' = IF last THEN Dropped(listen) ELSE listen
  /\ UNCHANGED <<lstate, accepting, history, corrupt>>

Finish(c, side) == op' = WakeConn(c, [op EXCEPT ![<<c, side>>] = Idle])
Sleep(c, side, kind, count) ==
  /\ op' = [op EXCEPT ![<<c, side>>] = [kind |-> kind, count |-> count, at |-> "wait"]]
  /\ UNCHANGED <<listener, conn, state, history, corrupt>>

Fail(c, side) ==
  /\ op' = [op EXCEPT ![<<c, side>>] = Idle]
  /\ UNCHANGED <<listener, conn, state, history, corrupt>>

\* local_socket_send(): a header and the payload, once there is room for both.  The
\* bytes of a packet are its number.
Room(c, side, count) == Writeable(conn[c].ring[side]) >= count + 1

TrySend(c, side, count) ==
  LET me == <<c, side>>
      n == Len(sent[me]) + 1
      head == FifoWrite(conn[c].ring[side], <<[magic |-> TRUE, size |-> count]>>)
      all == FifoWrite(head.ring, [j \in 1..count |-> n])
  IN
  \/ conn[c].isClosed /\ Fail(c, side)
  \/ ~conn[c].isClosed /\ ~Room(c, side, count) /\ Sleep(c, side, "send", count)
  \/ /\ ~conn[c].isClosed /\ Room(c, side, count)
     /\ conn' = [conn EXCEPT ![c].ring[side] = all.ring]
     /\ sent' = [sent EXCEPT ![me] = Append(@, count)]
     /\ Finish(c, side)
     /\ UNCHANGED <<listener, state, got, corrupt>>

\* local_socket_recv(): what the buffer does not take of a packet is dropped.
HasPacket(c, side) == Readable(conn[c].ring[Peer(side)]) >= 1

TryRecv(c, side, count) ==
  LET me == <<c, side>>
      head == FifoRead(conn[c].ring[Peer(side)], 1)
      size == head.data[1].size
      taken == IF size < count THEN size ELSE count
      body == FifoRead(head.ring, taken)
  IN
  \/ ~HasPacket(c, side) /\ conn[c].isClosed /\ Fail(c, side)
  \/ ~HasPacket(c, side) /\ ~conn[c].isClosed /\ Sleep(c, side, "recv", count)
  \/ /\ HasPacket(c, side)
     /\ conn' = [conn EXCEPT ![c].ring[Peer(side)] = FifoRead(body.ring, size - taken).ring]
     /\ got' = [got EXCEPT ![me] = Append(@, [data |-> body.data, count |-> count])]
     /\ Finish(c, side)
     /\ UNCHANGED <<listener, state, sent, corrupt>>

\* netfs_data_write(), netfs_data_read()
Send(c, side) ==
  /\ state[<<c, side>>] = "CONNECTED" /\ op[<<c, side>>] = Idle
       /\ Len(sent[<<c, side>>]) < MaxPackets
  /\ \E count \in Counts : count <= MaxPacketSize /\ TrySend(c, side, count)

Recv(c, side) ==
  /\ state[<<c, side>>] = "CONNECTED" /\ op[<<c, side>>] = Idle
  /\ \E count \in Counts : TryRecv(c, side, count)

Resume(c, side) ==
  LET me == op[<<c, side>>] IN
  /\ me.at = "woken"
  /\ \/ me.kind = "send" /\ TrySend(c, side, me.count)
     \/ me.kind = "recv" /\ TryRecv(c, side, me.count)

\* A note ends the wait.
Interrupted(c, side) == op[<<c, side>>].at = "wait" /\ Fail(c, side)

Next ==
  /\ ~corrupt
  /\ \/ Bind \/ Listen \/ Accept \/ AcceptEnds \/ CloseListener \/ ListenFree
     \/ \E c \in Clients :
          \/ Connect(c)
          \/ \E side \in Sides : Close(c, side) \/ Send(c, side) \/ Recv(c, side)
                                   \/ Resume(c, side) \/ Interrupted(c, side)

Spec == Init /\ [][Next]_vars

-----------------------------------------------------------------------------
(* Properties *)

\* What an end received are the packets its peer sent, in order, each once and each
\* cut to the size of the buffer: however the ring wraps, no packet runs into the next.
StreamInOrder ==
  \A e \in Ends :
    LET from == sent[<<e[1], Peer(e[2])>>]
        cut(n, room) == [j \in 1..(IF from[n] < room THEN from[n] ELSE room) |-> n]
    IN /\ Len(got[e]) <= Len(from)
       /\ \A n \in 1..Len(got[e]) : got[e][n].data = cut(n, got[e][n].count)

\* Who sleeps and was not woken has no reason to be awake.
NoLostWakeup ==
  /\ accepting = "wait" => ~listen.isClosed /\ listen.backlog = <<>>
  /\ \A e \in Ends : op[e].at = "wait" =>
       /\ ~conn[e[1]].isClosed
       /\ IF op[e].kind = "recv" THEN ~HasPacket(e[1], e[2]) ELSE ~Room(e[1], e[2], op[e].count)

\* Objects are freed with the last socket that uses them: a connected socket has a
\* live connection, a connection a live listener.  Freed memory is used in two cases only:
\* connect() finds a listener that is being freed, and the backlog, which holds no reference,
\* has a connection that its client gave up before accept() took it.
NoUseAfterFree ==
  /\ \A e \in Ends : state[e] = "CONNECTED" => conn[e[1]].mem = "live"
  /\ \A c \in Clients : conn[c].mem = "live" => listen.mem = "live"
  /\ lstate \in {"BOUND", "LISTENING"} => listen.mem = "live"
  /\ corrupt => \/ listen.mem = "dying"
                \/ \E c \in Clients : conn[c].mem = "freed" /\ state[<<c, "server">>] = "none"
=============================================================================
