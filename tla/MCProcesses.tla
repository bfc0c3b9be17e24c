---------------------------- MODULE MCProcesses -----------------------------
(***************************************************************************)
(* Processes and their ways to talk to the kernel and to each other, for   *)
(* TLC: I/O rings, request packets, interrupt requests, processes and      *)
(* threads, notes, pipes, local sockets, the window manager and its        *)
(* programs.  The value of part selects the component that runs; the       *)
(* others stay in their initial states.                                    *)
(* The ring runs with requests that fail at once, by one thread ("chains") *)
(* or two ("enter"), and with requests that end by a timeout or by         *)
(* teardown ("timeouts"); the packets of a pool are taken and given back   *)
(* ("pool"), one is passed through three layers ("layers"), two are served *)
(* at a time ("packets"), one is given buffers ("buffers"), and interrupts *)
(* are routed ("irq"); "spawn" has two processes with two threads and      *)
(* "kill" one process with three; two clients connect to a socket          *)
(* ("backlog") or one exchanges packets with it ("stream").  The window    *)
(* manager has surfaces that move and overlap ("windows"), that are        *)
(* painted, with timers ("painting"), and clients that come, stop reading  *)
(* and go, with the keyboard ("session"); two programs use it, the taskbar *)
(* ("taskbar") and the calculator ("calculator").                          *)
(***************************************************************************)
EXTENDS Process, Streams

CONSTANTS t1, t2, t3, c1, p1, p2, x, y   \* members of Threads and Procs, and others

VARIABLES
  part,
  busy, mapped, thread, sq, irp, free, cqueue, ctail, chead, stack, timeouts,  \* IoRing
  now, timer, uptime, halted, rSent, seen, dropped,
  d, turn,                                                                    \* Desktop
  u, srv, wire, sock,                                                         \* Toolkit
  pFree, pNext, pUsed, pPc, pHead, pLink, pIdx, own,                          \* Irp: pool
  irps, active, procRefs, vnodeRefs, agent, device, owed, misrun,             \* Irp
  irqs, domains, route, readers, writer, iOp, fault                           \* Irq

Chains == INSTANCE IoRing WITH
  Threads <- {t1}, Cpus <- {c1}, Ops <- {"bad"}, Timeouts <- {99}, Never <- 99,
  Links <- {"none", "link", "hard"}, Centries <- 2, Sentries <- 2, IndexMod <- 4,
  MaxSqes <- 3, MaxUptime <- 0, sent <- rSent

Enter == INSTANCE IoRing WITH
  Threads <- {t1, t2}, Cpus <- {c1}, Ops <- {"bad"}, Timeouts <- {99}, Never <- 99,
  Links <- {"none", "hard"}, Centries <- 2, Sentries <- 2, IndexMod <- 4,
  MaxSqes <- 3, MaxUptime <- 0, sent <- rSent

Timed == INSTANCE IoRing WITH
  Threads <- {t1}, Cpus <- {c1}, Ops <- {"nop"}, Timeouts <- {1, 99}, Never <- 99,
  Links <- {"none", "hard"}, Centries <- 2, Sentries <- 2, IndexMod <- 4,
  MaxSqes <- 2, MaxUptime <- 2, sent <- rSent

Layers == INSTANCE Irp WITH
  Threads <- {t1, t2}, Capacity <- 3, TagBound <- 5, PageSize <- 2, MappedPages <- 0..2,
  SmallSegs <- 2, Irps <- {x}, FrameMax <- 3, Vnodes <- {p1, p2}, Broken <- {p2},
  Buffers <- {}, MaxMdls <- 1, free <- pFree, next <- pNext, used <- pUsed, pc <- pPc,
  head <- pHead, link <- pLink, idx <- pIdx

Packets == INSTANCE Irp WITH
  Threads <- {t1, t2}, Capacity <- 3, TagBound <- 5, PageSize <- 2, MappedPages <- 0..2,
  SmallSegs <- 2, Irps <- {x, y}, FrameMax <- 1, Vnodes <- {p1}, Broken <- {},
  Buffers <- {}, MaxMdls <- 1, free <- pFree, next <- pNext, used <- pUsed, pc <- pPc,
  head <- pHead, link <- pLink, idx <- pIdx

Buffered == INSTANCE Irp WITH
  Threads <- {t1, t2}, Capacity <- 3, TagBound <- 5, PageSize <- 2, MappedPages <- 0..2,
  SmallSegs <- 2, Irps <- {x}, FrameMax <- 1, Vnodes <- {p1}, Broken <- {},
  Buffers <- {<<1, 4>>, <<0, 1>>, <<3, 3>>, <<4, 3>>}, MaxMdls <- 2, free <- pFree, next <- pNext,
  used <- pUsed, pc <- pPc, head <- pHead, link <- pLink, idx <- pIdx

\* A domain of both IRQs, and one of the first that overlaps it
Interrupts == INSTANCE Irq WITH
  Virts <- {1, 2}, Phys <- {1, 2}, Cpus <- {c1}, Funcs <- {t1, t2}, Domains <- {x, y},
  Span <- [domain \in {x, y} |-> IF domain = x THEN {1} ELSE {1, 2}], Allocators <- {t1},
  Driver <- t2, MaxRefs <- 2, FailsIn <- {"rebind"}, op <- iOp

Windows == INSTANCE Desktop WITH
  Clients <- {t1, t2}, Loose <- {t2}, Breakable <- {}, Width <- 2, Height <- 1,
  Rects <- {<<0, 0, 1, 1>>, <<1, 0, 2, 1>>}, Paints <- {}, Types <- {"window"}, MaxRegion <- 4,
  Moves <- {<<1, 0>>}, Keys <- {}, Timers <- {}, MaxReady <- 1, MaxSurfaces <- 2

Painting == INSTANCE Desktop WITH
  Clients <- {t1, t2}, Loose <- {t2}, Breakable <- {}, Width <- 2, Height <- 2,
  Rects <- {<<0, 0, 1, 2>>, <<1, 0, 2, 1>>}, Paints <- {<<0, 0, 1, 2>>, <<1, 0, 2, 1>>},
  Types <- {"panel", "wall"}, MaxRegion <- 4, Moves <- {<<1, 1>>}, Keys <- {},
  Timers <- {"once"}, MaxReady <- 1, MaxSurfaces <- 1

Session == INSTANCE Desktop WITH
  Clients <- {t1, t2, t3}, Loose <- {t2, t3}, Breakable <- {t3}, Width <- 1, Height <- 1,
  Rects <- {<<0, 0, 1, 1>>}, Paints <- {}, Types <- {"window", "fullscreen"},
  MaxRegion <- 4, Moves <- {<<0, 0>>}, Keys <- {"a"}, Timers <- {}, MaxReady <- 2,
  MaxSurfaces <- 1

Taskbar == INSTANCE Toolkit WITH
  App <- "taskbar", Wins <- {x, y}, Points <- {0, 1}, MaxEvents <- 64, MaxInputs <- 3

Calculator == INSTANCE Toolkit WITH
  App <- "window", Wins <- {x}, Points <- {0, 1, 2, 3}, MaxEvents <- 64, MaxInputs <- 4

ringVars == <<busy, mapped, thread, sq, irp, free, cqueue, ctail, chead, stack, timeouts,
              now, timer, uptime, halted, rSent, seen, dropped>>

deskVars == <<d, turn, u, srv, wire, sock>>
poolVars == <<pFree, pNext, pUsed, pPc, pHead, pLink, pIdx, own>>
irpVars == <<irps, active, procRefs, vnodeRefs, agent, device, owed, misrun>>
irqVars == <<irqs, domains, route, readers, writer, iOp, fault>>
lowVars == <<poolVars, irpVars, irqVars>>
allVars == <<part, ringVars, vars, streamVars, deskVars, lowVars>>

MCInit ==
  /\ part \in {"chains", "enter", "timeouts", "pool", "layers", "packets", "buffers", "irq",
              "spawn", "kill", "note", "pipe", "backlog", "stream", "windows", "painting",
              "session", "taskbar", "calculator"}
  /\ IF part = "enter" THEN Enter!Init ELSE Chains!Init
  /\ Init
  /\ StreamsInit
  /\ CASE part = "painting" -> Painting!Init
       [] part = "session" -> Session!Init
       [] OTHER -> Windows!Init
  /\ IF part = "calculator" THEN Calculator!Init ELSE Taskbar!Init
  /\ part # "note" => frame = x
  /\ Layers!PoolInit /\ Interrupts!Init
  /\ CASE part = "layers" -> Layers!IrpInit
       [] part = "packets" -> Packets!IrpInit
       [] OTHER -> Buffered!IrpInit

\* The third thread takes part in "kill" only, the second process in "spawn" only.
InPart ==
  /\ part = "spawn" => job[t3].at = "none" /\ \A t \in Threads : job[t].thread # t3
  /\ part = "kill" => state[p2] = "none"

\* One of notes, pipe and sockets runs.
OthersStay ==
  /\ IF part = "note" THEN TRUE ELSE UNCHANGED noteVars
  /\ IF part = "pipe" THEN TRUE ELSE UNCHANGED pipeVars
  /\ IF part \in {"backlog", "stream"} THEN TRUE ELSE UNCHANGED localVars

\* Of the sockets, two clients send one small packet each ("backlog"), or one sends packets
\* of any size to a listener with a backlog of one ("stream").
StreamPart ==
  /\ part = "stream" => lState'[<<p2, "client">>] = "NEW"
  /\ part = "stream" /\ lstate' = "LISTENING" => listen'.max = 1
  /\ part = "backlog" => \A e \in Sockets!Ends :
       /\ lOp'[e].count <= 1
       /\ lSent'[e] = <<>> \/ (lSent'[e] = <<1>> /\ e[2] = "client" /\ lOp'[e].kind # "send")
       /\ \A n \in DOMAIN got'[e] : got'[e][n].count = 1

MCNext ==
  /\ UNCHANGED part
  /\ \/ /\ \/ part = "chains" /\ Chains!Next
           \/ part = "enter" /\ Enter!Next
           \/ part = "timeouts" /\ Timed!Next
        /\ UNCHANGED <<vars, streamVars, deskVars, lowVars>>
     \/ /\ part \in {"spawn", "kill"} /\ Next /\ InPart'
        /\ UNCHANGED <<ringVars, streamVars, deskVars, lowVars>>
     \/ /\ part \in {"note", "pipe", "backlog", "stream"} /\ OthersStay /\ StreamsNext /\ StreamPart
        /\ UNCHANGED <<ringVars, vars, deskVars, lowVars>>
     \/ /\ \/ part = "windows" /\ Windows!Next
           \/ part = "painting" /\ Painting!Next
           \/ part = "session" /\ Session!Next
        /\ UNCHANGED <<u, srv, wire, sock, ringVars, vars, streamVars, lowVars>>
     \/ /\ \/ part = "taskbar" /\ Taskbar!Next
           \/ part = "calculator" /\ Calculator!Next
        /\ UNCHANGED <<d, turn, ringVars, vars, streamVars, lowVars>>
     \/ /\ \/ part = "pool" /\ Layers!PoolNext /\ UNCHANGED <<irpVars, irqVars>>
           \/ part = "layers" /\ Layers!IrpNext /\ UNCHANGED <<poolVars, irqVars>>
           \/ part = "packets" /\ Packets!IrpNext /\ UNCHANGED <<poolVars, irqVars>>
           \/ part = "buffers" /\ Buffered!IrpNext /\ UNCHANGED <<poolVars, irqVars>>
           \/ part = "irq" /\ Interrupts!Next /\ UNCHANGED <<poolVars, irpVars>>
        /\ UNCHANGED <<ringVars, vars, streamVars, deskVars>>

MCSpec == MCInit /\ [][MCNext]_allVars

-----------------------------------------------------------------------------
(* CountedHolders and KillTellsAll are the ones of Process, StreamInOrder and *)
(* NobodyMissed those of Streams. *)


\* Every surface of the window manager is in the lists that its state calls for, of one client,
\* and nothing that is freed is used, unless a send has just disconnected a client.
SurfacesListed ==
  /\ part = "windows" => Windows!SurfacesListed
  /\ part = "painting" => Painting!SurfacesListed
  /\ part = "session" => Session!SurfacesListed

\* What the screen shows after a frame is there, and is what the client has painted.
NoGhosts ==
  /\ part = "windows" => Windows!NoGhosts
  /\ part = "painting" => Painting!NoGhosts
  /\ part = "session" => Session!NoGhosts

\* When a program that is still connected has handled all events, its windows show what they
\* should and the taskbar lists the open windows as they are, also when events came in while
\* it waited for an answer and were handled late.
ProgramsCurrent ==
  /\ part = "taskbar" => Taskbar!PictureCurrent /\ Taskbar!TaskbarAgrees
  /\ part = "calculator" => Calculator!PictureCurrent /\ Calculator!FocusShown
=============================================================================
