------------------------------ MODULE Desktop -------------------------------
(***************************************************************************)
(* The desktop window manager (src/boxes/core/dwm).                        *)
(*                                                                         *)
(* It is one thread: dwm_update() polls, handles what is ready in a fixed  *)
(* order, and draws.  The state of its globals is the record d, and every  *)
(* function of the program that changes them is an operator on d; turn     *)
(* says how far dwm_update() has come.                                     *)
(*                                                                         *)
(* A pixel of the screen is the surface it was copied from, the place in   *)
(* the buffer of that surface, and the colour that was there: 0, or 1 where *)
(* the client has painted.  An event changes nothing here, but the send    *)
(* fails when the client does not read (broken), and sending a global      *)
(* event to such a client disconnects it, which kicked remembers until the *)
(* round of dwm_update() is over.  The use of a client or surface that is  *)
(* freed, or of none, ends the behaviour with lost = TRUE.                 *)
(***************************************************************************)
EXTENDS Integers, Sequences, FiniteSets, SequencesExt

CONSTANTS
  Clients, Loose,      \* the clients, those that may go and free their surfaces,
  Breakable,           \*   and those that may stop to read
  Width, Height,       \* of the screen
  Rects,               \* the shapes of windows and panels, and their places
  Paints,              \* parts of a surface that its client paints
  Types,               \* the types of surfaces that clients create
  MaxRegion,           \* MAX_REGION_RECTS
  Moves,               \* movements of the mouse
  Keys,                \* keys of the keyboard
  Timers,              \* kinds of timers
  MaxReady,            \* bound on the sources that are ready at once
  MaxSurfaces,         \* bound on the surfaces a behaviour creates
  None

VARIABLES d, turn

vars == <<d, turn>>

-----------------------------------------------------------------------------
(* rect.h: <<left, top, right, bottom>> *)

Screen == <<0, 0, Width, Height>>
Least(a, b) == IF a < b THEN a ELSE b
Most(a, b) == IF a > b THEN a ELSE b
Clamp(x, low, high) == Least(Most(x, low), high)

AreaOf(r) == (r[3] - r[1]) * (r[4] - r[2])
Pixels(r) == (r[1] .. (r[3] - 1)) \X (r[2] .. (r[4] - 1))
Overlap(r, o) == ~(r[3] <= o[1] \/ r[1] >= o[3] \/ r[4] <= o[2] \/ r[2] >= o[4])
Expand(r, o) == <<Least(r[1], o[1]), Least(r[2], o[2]), Most(r[3], o[3]), Most(r[4], o[4])>>
Fit(r, p) == <<Clamp(r[1], p[1], p[3]), Clamp(r[2], p[2], p[4]),
               Clamp(r[3], p[1], p[3]), Clamp(r[4], p[2], p[4])>>

Intersect(r, o) == <<Most(r[1], o[1]), Most(r[2], o[2]), Least(r[3], o[3]), Least(r[4], o[4])>>
Shifted(r, x, y) == <<r[1] + x, r[2] + y, r[3] + x, r[4] + y>>

\* RECT_SUBTRACT(): what is above, below, left and right of o.
Subtract(r, o) ==
  LET top == Most(r[2], o[2])  bottom == Least(r[4], o[4])
      pieces == << <<o[2] > r[2], <<r[1], r[2], r[3], o[2]>>>>,
                   <<o[4] < r[4], <<r[1], o[4], r[3], r[4]>>>>,
                   <<o[1] > r[1], <<r[1], top, o[1], bottom>>>>,
                   <<o[3] < r[3], <<o[3], top, r[3], bottom>>>> >>
      there == SelectSeq(pieces, LAMBDA p : p[1])
  IN IF ~Overlap(r, o) THEN <<r>> ELSE [i \in 1..Len(there) |-> there[i][2]]

-----------------------------------------------------------------------------
(* region.h: a sequence of at most MaxRegion rectangles *)

\* Every rectangle that overlaps rect is taken out, its place goes to the last one, and is
\* made part of the new rectangle.
RECURSIVE Absorb(_, _, _, _)
Absorb(region, i, rect, new) ==
  IF i > Len(region) THEN <<region, new>>
  ELSE IF Overlap(region[i], rect)
       THEN Absorb(Front([region EXCEPT ![i] = Last(region)]), i, rect, Expand(new, region[i]))
       ELSE Absorb(region, i + 1, rect, new)

Appended(region, new) ==
  IF Len(region) < MaxRegion THEN Append(region, new)
  ELSE <<FoldLeft(Expand, region[1], Append(Tail(region), new))>>

RegionAdd(region, rect) ==
  LET a == Absorb(region, 1, rect, rect)
  IN IF AreaOf(rect) = 0 THEN region ELSE Appended(a[1], a[2])

RegionSubtract(region, rect) ==
  FoldLeft(RegionAdd, <<>>, FlattenSeq([i \in 1..Len(region) |-> Subtract(region[i], rect)]))

RegionIntersect(region, rect) ==
  FoldLeft(RegionAdd, <<>>,
    SelectSeq([i \in 1..Len(region) |-> Intersect(region[i], rect)], LAMBDA r : AreaOf(r) > 0))

-----------------------------------------------------------------------------
(* screen.c and compositor.c *)

\* The pixel that surface s has for the place p of the screen
PixelOf(e, s, p) ==
  LET at == <<p[1] - e.surf[s].rect[1], p[2] - e.surf[s].rect[2]>>
  IN <<s, at, IF at \in e.surf[s].painted THEN 1 ELSE 0>>

Copied(buffer, e, s, rect) ==
  [p \in DOMAIN buffer |-> IF p \in Pixels(rect) THEN PixelOf(e, s, p) ELSE buffer[p]]

\* screen_transfer(), and screen_transfer_blend() of an opaque cursor
Transfer(e, s, rect) ==
  LET fit == Fit(rect, Screen) IN
  [e EXCEPT !.back = Copied(@, e, s, fit), !.swap = RegionAdd(@, fit)]

TransferFront(e, s, rect) ==
  [e EXCEPT !.front = Copied(@, e, s, Fit(rect, Screen)), !.swap = <<>>]

\* screen_swap()
Swap(e) ==
  LET changed == UNION {Pixels(e.swap[i]) : i \in 1..Len(e.swap)} IN
  [e EXCEPT !.front = [p \in DOMAIN @ |-> IF p \in changed THEN e.back[p] ELSE @[p]],
   !.swap = <<>>]

Invalidate(e, rect) == [e EXCEPT !.invalid = RegionAdd(@, Fit(rect, Screen))]

\* compositor_draw_surface(); nothing is left to draw once the invalid region is empty.
DrawSurface(e, s) ==
  LET r == e.surf[s].rect
      region == RegionIntersect(e.invalid, r)
      drawn == FoldLeft(LAMBDA f, rect : Transfer(f, s, rect), e, region)
  IN IF ~e.surf[s].visible \/ region = <<>> THEN e
     ELSE [drawn EXCEPT !.invalid = RegionSubtract(@, r)]

DrawFullscreen(e) ==
  LET s == e.fullscreen
      region == RegionIntersect(e.invalid, e.surf[s].rect)
      drawn == FoldLeft(LAMBDA f, rect : TransferFront(f, s, rect), e, region)
  IN IF ~e.surf[s].visible \/ region = <<>> THEN e ELSE [drawn EXCEPT !.invalid = <<>>]

NoRect == <<0, 0, 0, 0>>

\* The surfaces from the front to the back
Stacked(e) ==
  Reverse(e.panels) \o Reverse(e.windows) \o (IF e.wall = None THEN <<>> ELSE <<e.wall>>)

\* compositor_draw_cursor()
DrawCursor(e, c) ==
  IF c = None THEN [e EXCEPT !.prevCursor = NoRect]
  ELSE IF ~e.surf[c].visible THEN [e EXCEPT !.prevCursor = NoRect]
  ELSE [Transfer(e, c, e.surf[c].rect) EXCEPT !.prevCursor = e.surf[c].rect]

DrawInvalid(e) ==
  IF e.invalid = <<>> THEN e
  ELSE [DrawCursor(FoldLeft(DrawSurface, e, Stacked(e)), e.cursor) EXCEPT !.invalid = <<>>]

\* compositor_draw_all(): from the front to the back, then the cursor
DrawAll(e) ==
  DrawInvalid(IF AreaOf(e.prevCursor) > 0 THEN Invalidate(e, e.prevCursor) ELSE e)

CompositorDraw(e) ==
  IF e.wall = None THEN e
  ELSE IF e.fullscreen # None THEN DrawFullscreen(e)
  ELSE Swap(DrawAll(e))

-----------------------------------------------------------------------------
(* Surfaces and clients *)

Members(seq) == {seq[i] : i \in DOMAIN seq}
Without(seq, s) == SelectSeq(seq, LAMBDA x : x # s)
Lose(e) == [e EXCEPT !.lost = TRUE]
Alive(e, s) == s \in DOMAIN e.surf

\* The client behind c in the list, if any
NextClient(e, c) ==
  LET after == {i \in 2..Len(e.clients) : e.clients[i - 1] = c}
  IN IF after = {} THEN None ELSE e.clients[CHOOSE i \in after : TRUE]

FirstClient(e) == IF e.clients = <<>> THEN None ELSE Head(e.clients)

\* dwm_detach(), after the surface has left the list of its client; without the event
Unlinked(e, s) ==
  [e EXCEPT !.windows = Without(@, s), !.panels = Without(@, s),
            !.wall = IF @ = s THEN None ELSE @, !.cursor = IF @ = s THEN None ELSE @,
            !.focus = IF e.fullscreen = s THEN None ELSE @,
            !.fullscreen = IF @ = s THEN None ELSE @]

Freed(e, s) == [e EXCEPT !.surf = [x \in DOMAIN @ \ {s} |-> @[x]]]

\* Mutant: the surface may still be the one under the cursor.
Unfocused_KeepPrev(e, s) == [e EXCEPT !.focus = IF @ = s THEN None ELSE @]

Unfocused(e, s) ==
  [e EXCEPT !.focus = IF @ = s THEN None ELSE @, !.prev = IF @ = s THEN None ELSE @]

RECURSIVE SendFrom(_, _), Disconnect(_, _), FreeAll(_, _)

\* dwm_send_event_to_all(), from client c of the list on; the next client is chosen
\* before the event is sent.
SendOn(sent, next) ==
  IF next # None /\ next \notin Members(sent.clients) THEN Lose(sent) ELSE SendFrom(sent, next)

SendFrom(e, c) ==
  IF c = None \/ e.lost THEN e
  ELSE SendOn(IF c \in e.broken \cap e.globals THEN Disconnect([e EXCEPT !.kicked = TRUE], c)
              ELSE e, NextClient(e, c))

SendToAll(e) == SendFrom(e, FirstClient(e))

Detach(e, s) == Unlinked(SendToAll(Unfocused(e, s)), s)

\* One surface is invalidated, leaves its client, is detached and freed.
SurfaceGone(e, c, s) ==
  Freed(Detach([Invalidate(e, e.surf[s].rect) EXCEPT !.own[c] = Without(@, s)], s), s)

\* dwm_client_disconnect(), client_free()
FreeAll(e, c) ==
  IF e.own[c] = <<>> \/ e.lost THEN e ELSE FreeAll(SurfaceGone(e, c, Head(e.own[c])), c)

Disconnect(e, c) ==
  [FreeAll([e EXCEPT !.clients = Without(@, c)], c)
   EXCEPT !.broken = @ \ {c}, !.globals = @ \ {c}]

\* dwm_attach(): there is one cursor, one wall and one fullscreen surface.
MayAttach(e, type) ==
  CASE type = "cursor" -> e.cursor = None
    [] type = "wall" -> e.wall = None
    [] type = "fullscreen" -> e.fullscreen = None
    [] OTHER -> type # "none"

Attach(e, s, type) ==
  SendToAll(
    CASE type = "window" -> [e EXCEPT !.windows = Append(@, s)]
      [] type = "panel" -> [e EXCEPT !.panels = Append(@, s)]
      [] type = "cursor" -> [e EXCEPT !.cursor = s]
      [] type = "wall" -> [e EXCEPT !.wall = s]
      [] type = "fullscreen" -> [e EXCEPT !.fullscreen = s, !.focus = s])

\* dwm_focus_set(): the old and the new focus are reported to everybody.
FocusTaken(e) ==
  IF e.focus = None THEN e ELSE SendToAll([e EXCEPT !.surf[e.focus].focused = FALSE])

FocusGiven(e, s) ==
  IF e.lost \/ ~Alive(e, s) THEN Lose(e)
  ELSE SendToAll([e EXCEPT !.surf[s].focused = TRUE, !.focus = s,
                           !.windows = IF e.surf[s].type = "window"
                                       THEN Append(Without(@, s), s) ELSE @])

FocusSet(e, s) ==
  CASE e.fullscreen # None \/ s = e.focus -> e
    [] s = None -> [FocusTaken(e) EXCEPT !.focus = None]
    [] OTHER -> FocusGiven(FocusTaken(e), s)

\* What the callers of dwm_focus_set() do then: the surface is drawn again.
Redrawn(e, s) == IF e.lost \/ ~Alive(e, s) THEN Lose(e) ELSE Invalidate(e, e.surf[s].rect)

\* dwm_surface_under_point(), whether visible or not
UnderPoint(e, p) ==
  LET hits == SelectSeq(Stacked(e), LAMBDA s : p \in Pixels(e.surf[s].rect))
  IN IF e.fullscreen # None THEN e.fullscreen ELSE IF hits = <<>> THEN None ELSE Head(hits)

-----------------------------------------------------------------------------
(* The commands of a client; one that fails is an error of the whole buffer. *)

Done(e) == [d |-> e, ok |-> TRUE]
Failed(e) == [d |-> e, ok |-> FALSE]

\* client_surface_find(), dwm_surface_find(); the cursor is found by its client only.
Found(e, c, s, isGlobal) ==
  IF isGlobal THEN Alive(e, s) /\ s # e.cursor ELSE s \in Members(e.own[c])

NewSurface(c, type, rect) ==
  [client |-> c, type |-> type, rect |-> rect, visible |-> FALSE, focused |-> FALSE,
   painted |-> {}, timer |-> "off"]

Owned(e, c, s) ==
  IF c \notin Members(e.clients) THEN Lose(e) ELSE [e EXCEPT !.own[c] = Append(@, s)]

SurfaceNew(e, c, type, rect) ==
  LET s == e.newId
      made == [e EXCEPT !.newId = s + 1,
                        !.surf = [x \in DOMAIN @ \cup {s} |->
                                    IF x = s THEN NewSurface(c, type, rect) ELSE @[x]]]
  IN CASE AreaOf(rect) <= 0 -> Failed(e)
       [] ~MayAttach(e, type) -> Failed(Freed(made, s))
       [] OTHER -> Done(Owned(Attach(made, s, type), c, s))

SurfaceFree(e, c, s) == IF Found(e, c, s, FALSE) THEN Done(SurfaceGone(e, c, s)) ELSE Failed(e)

\* Mutant: what the surface leaves is not drawn again.
SurfaceMove_KeepOld(e, c, s, x, y) ==
  LET old == e.surf[s].rect
      new == Shifted(old, x - old[1], y - old[2])
  IN IF ~Found(e, c, s, FALSE) THEN Failed(e)
     ELSE Done(SendToAll(Invalidate([e EXCEPT !.surf[s].rect = new], new)))

\* To <<x, y>>; with another size it fails.
SurfaceMove(e, c, s, x, y) ==
  LET old == e.surf[s].rect
      new == Shifted(old, x - old[1], y - old[2])
  IN IF ~Found(e, c, s, FALSE) THEN Failed(e)
     ELSE Done(SendToAll(Invalidate(Invalidate([e EXCEPT !.surf[s].rect = new], old), new)))

TimerSet(e, c, s, timer) ==
  IF Found(e, c, s, FALSE) THEN Done([e EXCEPT !.surf[s].timer = timer]) ELSE Failed(e)

\* The client has painted rect of its buffer before it sent the command.
SurfaceInvalidate(e, c, s, rect) ==
  LET r == e.surf[s].rect
      fit == Fit(rect, <<0, 0, r[3] - r[1], r[4] - r[2]>>)
      painted == [e EXCEPT !.surf[s].painted = @ \cup Pixels(fit)]
  IN IF ~Found(e, c, s, FALSE) THEN Failed(e)
     ELSE Done(Invalidate(painted, Shifted(fit, r[1], r[2])))

\* A surface that is gone is no error.
FocusCommand(e, c, s, isGlobal) ==
  Done(IF Found(e, c, s, isGlobal) THEN Redrawn(FocusSet(e, s), s) ELSE e)

VisibleSet(e, c, s, isVisible, isGlobal) ==
  Done(IF ~Found(e, c, s, isGlobal) THEN e
       ELSE IF e.surf[s].visible = isVisible THEN e
       ELSE SendToAll(Redrawn(FocusSet([e EXCEPT !.surf[s].visible = isVisible], s), s)))

Report(e, c, s, isGlobal) == Done(IF Found(e, c, s, isGlobal) THEN SendToAll(e) ELSE e)
Subscribe(e, c) == Done([e EXCEPT !.globals = @ \cup {c}])
Unsubscribe(e, c) == Done([e EXCEPT !.globals = @ \ {c}])

\* client_receive_cmds() with one command: a client whose command fails is disconnected, and
\* one that was freed meanwhile is used once more.
Received(c, result) ==
  IF c \notin Members(result.d.clients) THEN Lose(result.d)
  ELSE IF result.ok THEN result.d ELSE Disconnect(result.d, c)

-----------------------------------------------------------------------------
(* dwm_update() *)

Desk == CHOOSE c \in Clients : c \notin Loose
Idle ==
  [at |-> "poll", kbd |-> FALSE, mouse |-> FALSE, revents |-> <<>>, i |-> 0, client |-> None]

\* The wall and the cursor are there, which their programs never free.
Wall == [NewSurface(Desk, "wall", Screen) EXCEPT !.visible = TRUE]
Cursor == [NewSurface(Desk, "cursor", <<0, 0, 1, 1>>) EXCEPT !.visible = TRUE, !.focused = TRUE]
StartScreen == [p \in Pixels(Screen) |-> IF p = <<0, 0>> THEN <<1, p, 0>> ELSE <<0, p, 0>>]

Init ==
  /\ d = [clients |-> <<Desk>>, broken |-> {}, globals |-> {},
          own |-> [c \in Clients |-> IF c = Desk THEN <<0, 1>> ELSE <<>>],
          surf |-> [s \in {0, 1} |-> IF s = 0 THEN Wall ELSE Cursor], newId |-> 2,
          windows |-> <<>>, panels |-> <<>>, wall |-> 0, cursor |-> 1, fullscreen |-> None,
          focus |-> 1, prev |-> None, held |-> FALSE, prevHeld |-> FALSE, mods |-> {},
          invalid |-> <<>>, prevCursor |-> <<0, 0, 1, 1>>, swap |-> <<>>,
          back |-> StartScreen, front |-> StartScreen, lost |-> FALSE,
          kicked |-> FALSE]
  /\ turn = Idle

\* dwm_client_accept(); the poll is repeated before anything is drawn.
Accept(c) ==
  /\ turn = Idle /\ c \notin Members(d.clients)
  /\ d' = [d EXCEPT !.clients = Append(@, c)]
  /\ UNCHANGED turn

\* A client stops; its events pile up in the socket.
Break(c) ==
  /\ turn = Idle /\ c \in Breakable \cap Members(d.clients)
  /\ d' = [d EXCEPT !.broken = @ \cup {c}]
  /\ UNCHANGED turn

\* The loop over the clients goes on with client c, the i-th of them, or with the next one
\* for which poll() returned anything.
RECURSIVE GoOn(_, _, _, _)
GoOn(e, t, i, c) ==
  IF c # None /\ t.revents[i] = "no" THEN GoOn(e, t, i + 1, NextClient(e, c))
  ELSE [t EXCEPT !.at = "clients", !.i = i, !.client = c]

Loop(e, t) == GoOn(e, t, 1, FirstClient(e))

Begin(kbd, mouse, revents) ==
  LET t == [at |-> "kbd", kbd |-> kbd, mouse |-> mouse, revents |-> revents, i |-> 0,
            client |-> None]
  IN IF kbd THEN t ELSE IF mouse THEN [t EXCEPT !.at = "mouse"] ELSE Loop(d, t)

ReadyCount(kbd, mouse, revents) ==
  (IF kbd THEN 1 ELSE 0) + (IF mouse THEN 1 ELSE 0)
    + Cardinality({i \in DOMAIN revents : revents[i] # "no"})

\* dwm_poll(), which returns early for the first timer that is due.
Poll ==
  /\ turn = Idle
  /\ \E kbd, mouse \in BOOLEAN : \E revents \in [1..Len(d.clients) -> {"no", "hup", "in"}] :
       /\ \A i \in DOMAIN revents :
            /\ revents[i] # "no" => d.clients[i] \in Loose
            /\ revents[i] = "in" => d.clients[i] \notin d.broken
       /\ ReadyCount(kbd, mouse, revents) \in 1..MaxReady
       /\ turn' = Begin(kbd, mouse, revents)
  /\ UNCHANGED d

TimerDue ==
  /\ turn = Idle
  /\ \E s \in DOMAIN d.surf :
       /\ d.surf[s].timer # "off"
       /\ d' = IF d.surf[s].timer = "once" THEN [d EXCEPT !.surf[s].timer = "off"] ELSE d
  /\ turn' = Begin(FALSE, FALSE, [i \in 1..Len(d.clients) |-> "no"])

\* dwm_kbd_read(): who has the focus is told, and everybody who wants to know.
KbdRead ==
  /\ turn.at = "kbd"
  /\ \E key \in Keys, press \in BOOLEAN :
       LET mods == CASE key = "caps" ->
                          IF press THEN (d.mods \cup {key}) \ (d.mods \cap {key}) ELSE d.mods
                     [] key \in {"shift", "ctrl", "alt", "super"} ->
                          IF press THEN d.mods \cup {key} ELSE d.mods \ {key}
                     [] OTHER -> d.mods
           e == [d EXCEPT !.mods = mods]
       IN d' = IF d.focus = None THEN e ELSE SendToAll(e)
  /\ turn' = IF turn.mouse THEN [turn EXCEPT !.at = "mouse"] ELSE Loop(d', turn)

\* dwm_handle_mouse_event(): the cursor moves, a button that goes down gives the focus to the
\* surface under it, and that surface or, while a button is held, the focus is told.
CursorMoved(e, pos) ==
  LET r == e.surf[e.cursor].rect
  IN [e EXCEPT !.surf[e.cursor].rect = Shifted(r, pos[1] - r[1], pos[2] - r[2]),
               !.prev = UnderPoint(e, pos)]

Pressed(e, buttons) ==
  IF ~buttons \/ e.prevHeld THEN e
  ELSE IF e.prev = None THEN Lose(e) ELSE Redrawn(FocusSet(e, e.prev), e.prev)

Told(e, dest) ==
  IF dest = None THEN e ELSE IF ~Alive(e, dest) THEN Lose(e) ELSE SendToAll(e)

Directed(e, s, buttons) == Told(e, IF buttons /\ e.focus # None THEN e.focus ELSE s)
MouseEvent(e, x, y, buttons) ==
  LET r == e.surf[e.cursor].rect
      pos == <<Clamp(r[1] + x, 0, Width - 1), Clamp(r[2] + y, 0, Height - 1)>>
  IN IF e.cursor = None THEN e
     ELSE [Directed(Pressed(CursorMoved(e, pos), buttons), UnderPoint(e, pos), buttons)
           EXCEPT !.prevHeld = buttons]

\* dwm_mouse_read(): movements are added up until a button changes.
Clicked(e, click) ==
  IF click = "no" THEN e
  ELSE MouseEvent([e EXCEPT !.held = click = "press"], 0, 0, click = "press")

MouseRead ==
  /\ turn.at = "mouse"
  /\ \E move \in Moves \cup {<<0, 0>>}, click \in {"no", "press", "release"} :
       d' = Clicked(IF move = <<0, 0>> THEN d ELSE MouseEvent(d, move[1], move[2], d.held), click)
  /\ turn' = Loop(d', turn)

\* The next client was chosen before this one is handled.
After(c, e) ==
  LET next == NextClient(d, c)
      gone == next # None /\ next \notin Members(e.clients)
  IN /\ d' = IF gone THEN Lose(e) ELSE e
     /\ turn' = IF gone THEN turn ELSE GoOn(e, turn, turn.i + 1, next)

Handles(c, revent) == turn.at = "clients" /\ turn.client = c /\ turn.revents[turn.i] = revent

HungUp(c) == Handles(c, "hup") /\ After(c, Disconnect(d, c))
Command(c, result) == Handles(c, "in") /\ After(c, Received(c, result))

Ids == 0..(MaxSurfaces + 1)

CreateCommand(c) ==
  /\ d.newId <= MaxSurfaces + 1
  /\ \E type \in Types : \E rect \in IF type \in {"window", "panel"} THEN Rects ELSE {Screen} :
       Command(c, SurfaceNew(d, c, type, rect))

FreeCommand(c) == \E s \in Ids : Command(c, SurfaceFree(d, c, s))
MoveCommand(c) ==
  \E s \in Ids : \E r \in Rects : Command(c, SurfaceMove(d, c, s, r[1], r[2]))

TimerCommand(c) == \E s \in Ids : \E timer \in Timers : Command(c, TimerSet(d, c, s, timer))
InvalidateCommand(c) ==
  \E s \in Ids : \E r \in Paints : Command(c, SurfaceInvalidate(d, c, s, r))

FocusedCommand(c) ==
  \E s \in Ids, isGlobal \in BOOLEAN : Command(c, FocusCommand(d, c, s, isGlobal))

VisibleCommand(c) ==
  \E s \in Ids, isVisible, isGlobal \in BOOLEAN :
       Command(c, VisibleSet(d, c, s, isVisible, isGlobal))

OtherCommand(c) ==
  \/ \E s \in Ids, isGlobal \in BOOLEAN : Command(c, Report(d, c, s, isGlobal))
  \/ Command(c, Subscribe(d, c)) \/ Command(c, Unsubscribe(d, c))
  \/ Command(c, Done(d))     \* CMD_SCREEN_INFO
  \/ Command(c, Failed(d))   \* a command, or a buffer of commands, that is not well formed

Draw ==
  /\ turn.at = "clients" /\ turn.client = None
  /\ d' = [CompositorDraw(d) EXCEPT !.kicked = FALSE]
  /\ turn' = Idle

Next ==
  /\ ~d.lost
  /\ \/ Poll \/ TimerDue \/ KbdRead \/ MouseRead \/ Draw
     \/ \E c \in Clients :
          \/ Accept(c) \/ Break(c) \/ HungUp(c) \/ CreateCommand(c) \/ FreeCommand(c)
          \/ MoveCommand(c) \/ TimerCommand(c) \/ InvalidateCommand(c) \/ FocusedCommand(c)
          \/ VisibleCommand(c) \/ OtherCommand(c)

Spec == Init /\ [][Next]_vars

-----------------------------------------------------------------------------
(* Properties *)

\* A surface is in the one place of its type and in the list of its client, which is
\* connected, and nothing that is gone keeps the focus or the cursor.  Nothing that is gone is
\* used, whoever hangs up, unless a send of the same round has disconnected a client
\* (dwm_detach(), client_free(), dwm_send_event_to_all()).
SurfacesListed ==
  /\ d.lost => d.kicked
  /\ d.lost \/
       /\ \A s \in DOMAIN d.surf :
            /\ d.surf[s].client \in Members(d.clients)
            /\ \A c \in Clients : s \in Members(d.own[c]) <=> c = d.surf[s].client
            /\ s \in Members(d.windows) <=> d.surf[s].type = "window"
            /\ s \in Members(d.panels) <=> d.surf[s].type = "panel"
            /\ s = d.wall <=> d.surf[s].type = "wall"
            /\ s = d.cursor <=> d.surf[s].type = "cursor"
            /\ s = d.fullscreen <=> d.surf[s].type = "fullscreen"
       /\ \A c \in Clients : Members(d.own[c]) \subseteq DOMAIN d.surf
       /\ Members(d.windows) \cup Members(d.panels) \cup {d.focus, d.prev}
            \subseteq DOMAIN d.surf \cup {None}
       /\ Len(d.windows) + Len(d.panels) = Cardinality(Members(d.windows) \cup Members(d.panels))

\* Once everything is drawn, and the wall and a fullscreen surface are visible, no pixel shows
\* what is not there: neither a surface that was freed, hidden or moved away, nor an old place
\* or an old picture of one (compositor_invalidate(), compositor_draw()).
NoGhosts ==
  turn = Idle /\ d.invalid = <<>> /\ d.surf[d.wall].visible
      /\ (d.fullscreen # None => d.surf[d.fullscreen].visible) =>
    \A p \in Pixels(Screen) :
      LET s == d.front[p][1] IN
      /\ Alive(d, s) /\ d.surf[s].visible /\ p \in Pixels(d.surf[s].rect)
      /\ d.front[p] = PixelOf(d, s, p)

\* The front-most surface is shown, unless the cursor is.
FrontMost ==
  turn = Idle /\ d.invalid = <<>> /\ d.fullscreen = None /\ d.surf[d.wall].visible =>
    \A p \in Pixels(Screen) :
      LET stack == SelectSeq(Stacked(d),
                             LAMBDA s : d.surf[s].visible /\ p \in Pixels(d.surf[s].rect))
      IN d.front[p][1] \in {d.cursor, Head(stack)}

\* Exactly the surface with the focus says so.
OneFocus == d.fullscreen = None => \A s \in DOMAIN d.surf : d.surf[s].focused <=> s = d.focus
=============================================================================
