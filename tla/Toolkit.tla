------------------------------ MODULE Toolkit ------------------------------
(***************************************************************************)
(* The client side of the desktop: the event queue of a display, windows,  *)
(* elements and buttons of libpatchwork, with the taskbar and its start    *)
(* menu (src/boxes/core/taskbar) or a decorated window, the calculator, as *)
(* the program that uses them.                                             *)
(*                                                                         *)
(* The program is one thread, and its state is the record u.  It goes on   *)
(* with one event at a time, of the queue first, or reads the socket in a  *)
(* wait for an answer, which may happen within the handling of an event.   *)
(* srv is the window manager as the program sees it: wire holds the        *)
(* commands it has not handled yet and sock the events it has sent.        *)
(*                                                                         *)
(* Windows are lines of cells: a rectangle is <<left, right>>, relative to *)
(* the parent element.  A cell shows the element that was drawn there and  *)
(* how that element looked.  Commands are sent as soon as they are         *)
(* complete (display_cmd_alloc() and display_cmds_flush()).                *)
(***************************************************************************)
EXTENDS Integers, Sequences, FiniteSets, SequencesExt

CONSTANTS
  App,         \* "taskbar" or "window"
  Wins,        \* windows of other programs, each opened once
  Points,      \* where the mouse may be in a window
  MaxEvents,   \* DISPLAY_MAX_EVENT
  MaxInputs    \* bound on what happens outside the program

VARIABLES u, srv, wire, sock

vars == <<u, srv, wire, sock>>

Width == 5
NoRect == <<0, 0>>
Cells(r) == r[1] .. (r[2] - 1)
Overlap(r, o) == ~(r[2] <= o[1] \/ r[1] >= o[2])
Hull(r, o) ==
  IF r[1] = r[2] THEN o
  ELSE <<IF r[1] < o[1] THEN r[1] ELSE o[1], IF r[2] > o[2] THEN r[2] ELSE o[2]>>

Members(s) == {s[i] : i \in DOMAIN s}
Without(s, x) == SelectSeq(s, LAMBDA y : y # x)

-----------------------------------------------------------------------------
(* display.c *)

Event(target, type, id, arg) == [target |-> target, type |-> type, id |-> id, arg |-> arg]
Command(type, target, arg) == [type |-> type, target |-> target, arg |-> arg]

\* display_push(): an event that does not fit is dropped.
Push(e, event) ==
  IF Len(e.queue) + 1 = MaxEvents THEN e ELSE [e EXCEPT !.queue = Append(@, event)]

\* The commands of one step are collected in out.
Send(e, command) == IF e.connected THEN [e EXCEPT !.out = Append(@, command)] ELSE e

-----------------------------------------------------------------------------
(* element.c, button.c, label.c: the elements of window w by their ids; the *)
(* root has the id "root".                                                   *)

Parts(e, w) == DOMAIN e.el[w]

RECURSIVE WindowPoint(_, _, _)
WindowPoint(e, w, id) ==
  e.el[w][id].rect[1] + (IF e.el[w][id].parent = "none" THEN 0
                         ELSE WindowPoint(e, w, e.el[w][id].parent))

ContentRect(elem) == <<0, elem.rect[2] - elem.rect[1]>>

Redraw(e, w, id, propagate) == Push(e, Event(w, "redraw", id, propagate))
ForceAction(e, w, id, action) == Push(e, Event(w, "force", id, action))
SendAction(e, w, id, action) == Push(e, Event(w, "action", id, action))

\* The title bar of a decorated window and its buttons
Titlebar == <<0, 3>>
DecoButton(index) == <<2 - index, 3 - index>>

\* How an element looks at a cell of its own
LookAt(elem, cell) ==
  CASE elem.kind \in {"button", "toggle"} -> <<elem.pressed, elem.hovered, elem.focused>>
    [] elem.kind = "label" -> <<elem.text>>
    [] elem.kind = "deco" /\ cell \in Cells(Titlebar) -> <<elem.focused>>
    [] OTHER -> <<>>

\* element_draw_end(): the drawn area is invalid, and the children below it are drawn again.
DrawEnd(e, w, id, area, at) ==
  LET elem == e.el[w][id]
      shown == {at + c : c \in Cells(area)}
      look(c) == <<id, LookAt(elem, c - at)>>
      drawn == [e EXCEPT !.pic[w] = [c \in DOMAIN @ |-> IF c \in shown THEN look(c) ELSE @[c]],
                         !.untold[w] = @ \cup shown,
                         !.invalid[w] = Hull(@, <<at + area[1], at + area[2]>>)]
      below == SelectSeq(elem.kids, LAMBDA k : Overlap(area, e.el[w][k].rect))
  IN FoldLeft(LAMBDA f, k : Redraw(f, w, k, FALSE), drawn, below)

Draw(e, w, id, area) == DrawEnd(e, w, id, area, WindowPoint(e, w, id))
DrawAll(e, w, id) == Draw(e, w, id, ContentRect(e.el[w][id]))

\* button_procedure() on EVENT_MOUSE, pos being relative to the parent
Clicked(b, inside, mouse) ==
  IF b.kind = "toggle"
  THEN [b EXCEPT !.hovered = inside,
                 !.pressed = IF inside /\ mouse.pressed THEN ~@ ELSE @,
                 !.focused = IF mouse.pressed THEN inside ELSE @]
  ELSE [b EXCEPT !.hovered = inside,
                 !.pressed = inside /\ (mouse.pressed \/ (@ /\ ~mouse.released)),
                 !.focused = IF mouse.pressed THEN inside ELSE @]

ActionOf(old, new, inside) ==
  IF new.pressed THEN "press" ELSE IF inside \/ old.kind = "toggle" THEN "release" ELSE "cancel"

\* The button is drawn when it has changed, after the action.
Update(e, w, id, new) ==
  IF new = e.el[w][id] THEN e ELSE DrawAll([e EXCEPT !.el[w][id] = new], w, id)

Moved(e, w, id, new, inside) ==
  Update(IF new.pressed = e.el[w][id].pressed THEN e
         ELSE SendAction(e, w, id, ActionOf(e.el[w][id], new, inside)), w, id, new)

Button(e, w, id, event) ==
  LET b == e.el[w][id] IN
  CASE event.type = "redraw" -> DrawAll(e, w, id)
    [] event.type = "mouse" ->
         LET inside == event.arg.pos - b.rect[1] \in Cells(ContentRect(b))
         IN Moved(e, w, id, Clicked(b, inside, event.arg), inside)
    [] event.type = "leave" -> Update(e, w, id, [b EXCEPT !.hovered = FALSE])
    [] event.type = "report" -> Update(e, w, id, [b EXCEPT !.focused = @ /\ event.arg])
    [] event.type = "force" ->
         DrawAll([e EXCEPT !.el[w][id].pressed = (event.arg = "press"),
                           !.el[w][id].focused = (event.arg = "press"),
                           !.blurred = @ \ {event.id}], w, id)
    [] OTHER -> e

Label(e, w, id, event) == IF event.type = "redraw" THEN DrawAll(e, w, id) ELSE e

Element(kind, parent, rect) ==
  [kind |-> kind, parent |-> parent, rect |-> rect, kids |-> <<>>, pressed |-> FALSE,
   hovered |-> FALSE, focused |-> FALSE, text |-> 0]

\* element_new() of an element whose EVENT_LIB_INIT makes no others: it is drawn later.
ElementNew(e, w, id, kind, parent, rect) ==
  Redraw([e EXCEPT !.el[w] = [i \in DOMAIN @ \cup {id} |->
                      IF i = id THEN Element(kind, parent, rect)
                      ELSE IF i = parent THEN [@[i] EXCEPT !.kids = Append(@, id)] ELSE @[i]]],
         w, id, FALSE)

ElementFree(e, w, id) ==
  [e EXCEPT !.el[w] = [i \in DOMAIN @ \ {id} |-> [@[i] EXCEPT !.kids = Without(@, id)]]]

SetText(e, w, id) == Redraw([e EXCEPT !.el[w][id].text = 1 - @], w, id, FALSE)

-----------------------------------------------------------------------------
(* window.c: the decoration *)

\* window_deco_init(), then the client element and what it holds
DecoNew(e, w) ==
  LET buttons == ElementNew(ElementNew(e, w, "close", "button", "root", DecoButton(0)),
                            w, "mini", "button", "root", DecoButton(1))
  IN Redraw(buttons, w, "root", FALSE)

Dragged(e, w, mouse) ==
  IF e.dragging
  THEN IF mouse.held THEN Send(e, Command("move", w,
          mouse.pos)) ELSE [e EXCEPT !.dragging = FALSE]
  ELSE [e EXCEPT !.dragging = mouse.pressed /\
          mouse.pos \in Titlebar[1] .. (DecoButton(1)[1] - 1)]

Deco(e, w, event) ==
  CASE event.type = "redraw" -> DrawAll(e, w, "root")
    [] event.type = "action" /\ event.arg = "release"
      /\ event.id = "close" -> Push(e, Event(w, "quit", "none", 0))
    [] event.type = "action" /\ event.arg = "release"
      /\ event.id = "mini" -> Send(e, Command("visible", w, FALSE))
    [] event.type = "report" -> Draw([e EXCEPT !.el[w]["root"].focused = event.arg], w, "root",
                                     Titlebar)
    [] event.type = "mouse" -> Dragged(e, w, event.arg)
    [] OTHER -> e

-----------------------------------------------------------------------------
(* The programs: calculator/main.c, taskbar.c and start_menu.c *)

\* A digit, an operation, or any other button; the input and the accumulator are left out.
Calculate(e, w, id) ==
  CASE id = "digit" -> SetText(e, w, "label")
    [] id # "digit" /\ e.operation \in {"=", "plus"}
          -> SetText([e EXCEPT !.operation = id], w, "label")
    [] OTHER -> e

Calculator(e, w, event) ==
  CASE event.type = "redraw" -> DrawAll(e, w, "client")
    [] event.type = "action" /\ event.arg = "release" -> Calculate(e, w, event.id)
    [] event.type = "quit" -> [e EXCEPT !.connected = FALSE]
    [] OTHER -> e

StartRect == <<0, 1>>
ClockRect == <<4, 5>>
TaskRect(index, count) == IF count = 1 THEN <<1, 3>> ELSE <<index, index + 1>>

Reposition(e) ==
  LET n == Len(e.entries) IN
  FoldLeft(LAMBDA f, i : [f EXCEPT !.el["bar"][e.entries[i]].rect = TaskRect(i, n)], e,
           [i \in 1..n |-> i])

EntryAdd(e, x) ==
  LET added == Redraw([e EXCEPT !.entries = Append(@, x)], "bar", "root", TRUE)
      n == Len(added.entries)
  IN Reposition(ElementNew(added, "bar", x, "toggle", "root", TaskRect(n, n)))

EntryRemove_NotDrawn(e, x) ==
  IF x \in Members(e.entries)
  THEN Reposition(ElementFree([e EXCEPT !.entries = Without(@, x)], "bar", x))
  ELSE e

EntryRemove(e, x) ==
  LET drawn == Redraw(e, "bar", "root", TRUE)
  IN IF x \in Members(e.entries)
     THEN Reposition(ElementFree([drawn EXCEPT !.entries = Without(@, x)], "bar", x))
     ELSE drawn

\* start_menu_open(), up to the wait for the size of the screen; the entries are loaded once.
LoadEntries(e) ==
  IF "entry" \in Parts(e, "menu") THEN e
  ELSE ElementNew(e, "menu", "entry", "button", "root", <<1, 2>>)

MenuOpen(e) ==
  IF e.menu \in {"open", "opening"} THEN e
  ELSE Send([LoadEntries(e) EXCEPT !.at = "opening"], Command("screen", "none", 0))

MenuOpened(e) ==
  FoldLeft(Send, [e EXCEPT !.menu = "opening", !.at = "run"],
    <<Command("move", "menu", 0), Command("timer", "menu", TRUE), Command("focus", "menu", 0)>>)

MenuClose(e) ==
  IF e.menu \in {"closed", "closing"} THEN e
  ELSE Push(Send([e EXCEPT !.menu = "closing"], Command("timer", "menu", TRUE)),
            Event("bar", "menuclose", "none", 0))

\* A frame of the animation; whether it is the last one depends on the clock.
MenuFrame(e, isComplete) ==
  LET moved == Send([e EXCEPT !.at = "run"], Command("move", "menu", 0))
      to == IF e.menu = "opening" THEN "open" ELSE "closed"
  IN IF e.menu \notin {"opening", "closing"} THEN [e EXCEPT !.at = "run"]
     ELSE IF isComplete THEN Send([moved EXCEPT !.menu = to], Command("timer", "menu", FALSE))
          ELSE moved

StartMenu(e, event) ==
  CASE event.type = "redraw" -> DrawAll(e, "menu", "root")
    [] event.type = "action" /\ event.arg = "release" -> MenuClose(e)
    [] event.type = "timer" -> Send([e EXCEPT !.at = "frame"], Command("screen", "none", 0))
    [] OTHER -> e

Taskbar(e, event) ==
  CASE event.type = "redraw" -> DrawAll(e, "bar", "root")
    [] event.type = "timer" -> SetText(e, "bar", "clock")
    [] event.type = "action" /\
            event.id = "start" -> IF event.arg = "press" THEN MenuOpen(e) ELSE MenuClose(e)
    [] event.type = "action" /\ event.id # "start"
          -> Send(e, Command("show", event.id, event.arg = "release"))
    [] event.type = "attach" -> EntryAdd(e, event.id)
    [] event.type = "detach" -> EntryRemove(e, event.id)
    [] event.type = "greport" /\ event.id \in Members(e.entries) ->
         ForceAction(e, "bar", event.id, IF event.arg THEN "release" ELSE "press")
    [] event.type = "kbd" ->
         IF e.menu \in {"open", "opening"}
         THEN MenuClose(ForceAction(e, "bar", "start", "release"))
         ELSE MenuOpen(ForceAction(e, "bar", "start", "press"))
    [] OTHER -> e

-----------------------------------------------------------------------------
(* Dispatching *)

Procedure(e, w, id, event) ==
  CASE e.el[w][id].kind \in {"button", "toggle"} -> Button(e, w, id, event)
    [] e.el[w][id].kind = "label" -> Label(e, w, id, event)
    [] e.el[w][id].kind = "deco" -> Deco(e, w, event)
    [] e.el[w][id].kind = "calculator" -> Calculator(e, w, event)
    [] e.el[w][id].kind = "taskbar" -> Taskbar(e, event)
    [] OTHER -> StartMenu(e, event)

\* element_dispatch(): the element, then its children.  A redraw goes to the children only
\* if it says so.  When the start menu is closed the taskbar passes a release on to all its
\* children, which makes them forget what was reported (blurred).
RECURSIVE ElementDispatch(_, _, _, _)
ChildrenDispatch(e, w, id, event) ==
  FoldLeft(LAMBDA f, k : ElementDispatch(f, w, k, event), e, e.el[w][id].kids)

ElementDispatch(e, w, id, event) ==
  LET done == Procedure(e, w, id, event) IN
  CASE event.type = "redraw" /\ ~event.arg -> done
    [] event.type = "mouse" ->
         ChildrenDispatch(done, w, id, [event EXCEPT !.arg.pos = @ - e.el[w][id].rect[1]])
    [] event.type = "menuclose" ->
         [ChildrenDispatch(done, w, id, [event EXCEPT !.type = "force", !.arg = "release"])
            EXCEPT !.blurred = Members(e.entries)]
    [] OTHER -> ChildrenDispatch(done, w, id, event)

\* window_invalidate_flush(): the command is not answered, so what it says is enough.
InvalidateFlush(e, w) ==
  [e EXCEPT !.untold[w] = @ \ Cells(e.invalid[w]), !.invalid[w] = NoRect]

\* window_dispatch(): an element that is not there is an error, which ends the connection.
WindowDispatch(e, w, event) ==
  IF event.type \notin {"redraw", "force"}
  THEN InvalidateFlush(ElementDispatch(e, w, "root", event), w)
  ELSE IF event.id \in Parts(e, w) THEN InvalidateFlush(ElementDispatch(e, w, event.id, event), w)
  ELSE [e EXCEPT !.connected = FALSE]

Dispatch(e, event) ==
  FoldLeft(LAMBDA f, w : WindowDispatch(f, w, event), e,
    SelectSeq(e.windows, LAMBDA w : event.target \in {w, "all"}))

\* display_dispatch_pending(): the queue goes round once.
RECURSIVE DispatchPending(_, _, _)
DispatchPending(e, w, n) ==
  IF n = 0 THEN e
  ELSE LET event == Head(e.queue)
           rest == [e EXCEPT !.queue = Tail(@)]
       IN DispatchPending(IF event.type = "redraw" /\ event.target = w THEN Dispatch(rest, event)
                          ELSE Push(rest, event), w, n - 1)

SetVisible(e, w) == Send(DispatchPending(e, w, Len(e.queue)), Command("visible", w, TRUE))

-----------------------------------------------------------------------------
(* The program starts: window_new() with its wait, and main() *)

Blank == [c \in 0 .. (Width - 1) |-> <<"none", <<>>>>]
Root(e, w, kind) ==
  [e EXCEPT !.windows = Append(@, w),
   !.el[w] = [i \in {"root"} |-> Element(kind, "none", <<0, Width>>)]]

\* The surface of window w is there.
WindowNew(e) ==
  CASE e.at = "window" ->
         LET deco == DecoNew(Root(e, "win", "deco"), "win")
             client == [deco EXCEPT !.el["win"] = [i \in DOMAIN @ \cup {"client"} |->
                          IF i = "client" THEN Element("calculator", "root", <<3, 5>>)
                          ELSE IF i = "root"
                               THEN [@[i] EXCEPT !.kids = Append(@, "client")] ELSE @[i]]]
             parts == ElementNew(ElementNew(client, "win", "plus", "button", "client", <<0, 1>>),
                                 "win", "label", "label", "client", <<1, 2>>)
         IN SetVisible(Redraw([parts EXCEPT !.at = "run"], "win", "client", FALSE), "win")
    [] e.at = "bar" ->
         LET parts == ElementNew(ElementNew(Root(e, "bar", "taskbar"), "bar", "start", "toggle",
                                            "root", StartRect),
                                 "bar", "clock", "label", "root", ClockRect)
         IN Send(SetText(Send([parts EXCEPT !.at = "menusize"], Command("timer", "bar", TRUE)),
                         "bar", "clock"),
                 Command("screen", "none", 0))
    [] e.at = "menu" ->
         LET shown == SetVisible(Redraw(Root(e, "menu", "menu"), "menu", "root", FALSE), "menu")
         IN SetVisible(Redraw([shown EXCEPT !.at = "run"], "bar", "root", FALSE), "bar")

\* What follows a wait
Expected(at) == IF at \in {"window", "bar", "menu"} THEN "new" ELSE "screen"
GoOn(e, isComplete) ==
  CASE e.at = "barsize" ->
         FoldLeft(Send, [e EXCEPT !.at = "bar"],
           <<Command("subscribe", "none", "attach"), Command("subscribe", "none", "detach"),
             Command("subscribe", "none", "greport"), Command("subscribe", "none", "kbd"),
             Command("new", "bar", 0)>>)
    [] e.at = "menusize" -> Send([e EXCEPT !.at = "menu"], Command("new", "menu", 0))
    [] e.at = "opening" -> MenuOpened(e)
    [] e.at = "frame" -> MenuFrame(e, isComplete)
    [] OTHER -> WindowNew(e)

OwnWindows == {"win", "bar", "menu"}
Start ==
  [connected |-> TRUE, at |-> IF App = "window" THEN "window" ELSE "barsize",
   queue |-> <<>>, out |-> <<>>, windows |-> <<>>, el |-> [w \in OwnWindows |-> <<>>],
   pic |-> [w \in OwnWindows |-> Blank], invalid |-> [w \in OwnWindows |-> NoRect],
   untold |-> [w \in OwnWindows |-> {}], dragging |-> FALSE, operation |-> "=",
   entries |-> <<>>, menu |-> "closed", blurred |-> {}]

Init ==
  /\ u = Start
  /\ srv = [subs |-> {}, open |-> {}, opened |-> {}, known |-> {}, shown |-> {}, visible |-> {},
            surfaces |-> {},
            focus |-> "none", timers |-> {}, held |-> FALSE, gone |-> FALSE, inputs |-> 0]
  /\ wire = <<IF App = "window" THEN Command("new", "win", 0) ELSE Command("screen", "none", 0)>>
  /\ sock = <<>>

\* Whatever the program does, its commands go out together.
Does(e) == u' = [e EXCEPT !.out = <<>>] /\ wire' = wire \o e.out

\* The loop of main(): display_next() and display_dispatch()
Handle ==
  /\ u.at = "run" /\ u.connected
  /\ \/ /\ u.queue # <<>>
        /\ Does(Dispatch([u EXCEPT !.queue = Tail(@)], Head(u.queue)))
        /\ UNCHANGED sock
     \/ /\ u.queue = <<>> /\ sock # <<>>
        /\ Does(Dispatch(u, Head(sock)))
        /\ sock' = Tail(sock)
  /\ UNCHANGED srv

\* display_wait(): what was not expected is queued.
Wait ==
  /\ u.at \notin {"run", "dead"} /\ sock # <<>> /\ sock' = Tail(sock)
  /\ IF Head(sock).type = Expected(u.at)
     THEN \E isComplete \in BOOLEAN : (isComplete => u.at = "frame") /\ Does(GoOn(u, isComplete))
     ELSE Does(Push(u, Head(sock)))
  /\ UNCHANGED srv

\* The window manager is gone.
Lost ==
  /\ srv.gone /\ sock = <<>> /\ u.at # "dead" /\ (u.at = "run" => u.queue = <<>>)
  /\ u' = [u EXCEPT !.connected = FALSE, !.at = "run"]
  /\ u.connected
  /\ UNCHANGED <<srv, wire, sock>>

\* window_free() and display_free() at the end of main()
End ==
  /\ ~u.connected /\ u.at # "dead"
  /\ u' = [u EXCEPT !.at = "dead", !.el = [w \in OwnWindows |-> <<>>], !.windows = <<>>,
           !.queue = <<>>]
  /\ UNCHANGED <<srv, wire, sock>>

-----------------------------------------------------------------------------
(* The window manager and everybody else *)

\* What the program does depends only on the order of the events in its socket, so it may run
\* until it needs another one: the commands of a slow program stay in wire for long instead.
Idle == sock = <<>> /\ (u.at = "run" /\ u.connected => u.queue = <<>>)

Global(s, event) == IF event.type \in s.subs THEN <<event>> ELSE <<>>

\* dwm_focus_set(): the windows of the program that lose and get the focus are told.
Focus(s, w) ==
  IF s.focus = w THEN <<>>
  ELSE (IF s.focus \in OwnWindows THEN <<Event(s.focus, "report", "none", FALSE)>> ELSE <<>>)
         \o (IF w \in OwnWindows THEN <<Event(w, "report", "none", TRUE)>> ELSE <<>>)

Report(s, x, isVisible) == Global(s, Event("all", "greport", x, isVisible))

Answers(s, c) ==
  CASE c.type = "screen" -> [srv |-> s, events |-> <<Event("none", "screen", "none", 0)>>]
    [] c.type = "subscribe" -> [srv |-> [s EXCEPT !.subs = @ \cup {c.arg}], events |-> <<>>]
    [] c.type = "new" -> [srv |-> [s EXCEPT !.surfaces = @ \cup {c.target}],
                          events |-> <<Event(c.target, "new", "none", 0)>>]
    [] c.type = "timer" ->
         [srv |-> [s EXCEPT !.timers = IF c.arg THEN @ \cup {c.target} ELSE @ \ {c.target}],
          events |-> <<>>]
    [] c.type = "move" -> [srv |-> s,
                           events |-> <<Event(c.target, "report", "none", s.focus = c.target)>>]
    [] c.type \in {"focus", "visible"}
          -> [srv |-> [s EXCEPT !.focus = c.target], events |-> Focus(s, c.target)]
    [] c.type = "show" /\ c.target \in s.open /\ (c.target \in s.visible) # c.arg ->
         [srv |-> [s EXCEPT !.focus = c.target,
                 !.visible = IF c.arg THEN @ \cup {c.target} ELSE @ \ {c.target}],
          events |-> Focus(s, c.target) \o Report(s, c.target, c.arg)]
    [] OTHER -> [srv |-> s, events |-> <<>>]

Serve ==
  /\ Idle /\ wire # <<>> /\ ~srv.gone
  /\ srv' = Answers(srv, Head(wire)).srv
  /\ sock' = sock \o Answers(srv, Head(wire)).events
  /\ wire' = Tail(wire)
  /\ UNCHANGED u

Input(s, events) ==
  /\ Idle /\ ~srv.gone /\ srv.inputs < MaxInputs
  /\ srv' = [s EXCEPT !.inputs = @ + 1]
  /\ sock' = sock \o events
  /\ UNCHANGED <<u, wire>>

AllSubs == {"attach", "detach", "greport", "kbd"}
Open(x) ==
  /\ x \notin srv.opened
  /\ Input([srv EXCEPT !.open = @ \cup {x}, !.opened = @ \cup {x},
                       !.known = IF srv.subs = AllSubs THEN @ \cup {x} ELSE @],
           Global(srv, Event("all", "attach", x, FALSE)))

Close(x) ==
  /\ x \in srv.open
  /\ Input([srv EXCEPT !.open = @ \ {x}, !.visible = @ \ {x}],
           Global(srv, Event("all", "detach", x, FALSE)))

Toggle(x) ==
  /\ x \in srv.open
  /\ Input([srv EXCEPT !.focus = x, !.shown = @ \cup {x},
          !.visible = IF x \in @ THEN @ \ {x} ELSE @ \cup {x}],
           Focus(srv, x) \o Report(srv, x, x \notin srv.visible))

Mouse(w) ==
  \E p \in Points, click \in {"no", "press", "release"} :
    /\ w \in srv.surfaces
    /\ click # "no" => srv.held = (click = "release")
    /\ LET held == click = "press" \/ (srv.held /\ click = "no")
           s == [srv EXCEPT !.held = held, !.focus = IF click = "press" THEN w ELSE @]
       IN Input(s, (IF click = "press" THEN Focus(srv, w) ELSE <<>>)
                     \o <<Event(w, "mouse", "none",
                                [pos |-> p, pressed |-> click = "press",
                                 released |-> click = "release", held |-> held])>>)

Leave(w) == w \in srv.surfaces /\ Input(srv, <<Event(w, "leave", "none", 0)>>)
Super == "kbd" \in srv.subs /\ Input(srv, <<Event("all", "kbd", "none", 0)>>)
Tick(w) == w \in srv.timers /\ Input(srv, <<Event(w, "timer", "none", 0)>>)
Gone == Idle /\ ~srv.gone /\ srv' = [srv EXCEPT !.gone = TRUE] /\ UNCHANGED <<u, wire, sock>>

Next ==
  \/ Handle \/ Wait \/ Lost \/ End \/ Serve \/ Super \/ Gone
  \/ \E x \in Wins : Open(x) \/ Close(x) \/ Toggle(x)
  \/ \E w \in OwnWindows : Mouse(w) \/ Leave(w) \/ Tick(w)

Spec == Init /\ [][Next]_vars

-----------------------------------------------------------------------------
(* Properties *)

Quiet == u.connected /\ u.at = "run" /\ u.queue = <<>> /\ sock = <<>> /\ wire = <<>> /\ ~srv.gone

\* The element whose picture belongs at cell c: the innermost one that is there
Covers(w, id, c) == c - WindowPoint(u, w, id) \in Cells(ContentRect(u.el[w][id]))
Topmost(w, c) ==
  CHOOSE id \in Parts(u, w) :
    /\ Covers(w, id, c)
    /\ \A k \in Members(u.el[w][id].kids) : ~Covers(w, k, c)

\* When nothing is left to handle every window shows all its elements as they are now, and
\* the window manager knows what to copy (element_draw_end(), window_invalidate_flush()).
PictureCurrent ==
  Quiet => \A w \in Members(u.windows) :
    /\ u.untold[w] = {}
    /\ \A c \in 0 .. (Width - 1) :
         LET id == Topmost(w, c)
         IN u.pic[w][c] = <<id, LookAt(u.el[w][id], c - WindowPoint(u, w, id))>>

\* When nothing is left to handle the taskbar lists the windows that are open, and a button is
\* pressed exactly when its window is hidden, unless no report has come since the start menu
\* was closed, which releases every button (taskbar.c).  Only windows that were opened after
\* the subscriptions are meant, and only a taskbar that is still connected: an event that was
\* queued in a wait and names an element freed since ends the connection (display.c:425).
TaskbarAgrees ==
  Quiet /\ App = "taskbar" =>
    /\ Members(u.entries) \cap srv.known = srv.open \cap srv.known
    /\ \A x \in (srv.open \cap srv.known) \ u.blurred :
         /\ u.el["bar"][x].pressed => x \notin srv.visible
         /\ x \in srv.shown \ srv.visible => u.el["bar"][x].pressed

\* The decoration shows the focus that the window manager has.
FocusShown ==
  Quiet /\ App = "window" => (u.el["win"]["root"].focused <=> srv.focus = "win")

\* The calculator knows the operation it has to apply.
OperationKnown == u.operation \in {"=", "plus"}
=============================================================================
