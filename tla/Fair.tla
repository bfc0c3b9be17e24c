-------------------------------- MODULE Fair --------------------------------
(***************************************************************************)
(* The run queue of one CPU: virtual time, lag and the choice of the next  *)
(* thread in sched.c (earliest eligible virtual deadline first), on the    *)
(* red-black tree of utils/rbtree.c.  Numbers are fixed point with Scale   *)
(* steps to a unit of time.  The uptime enters as the time that passed     *)
(* since the last update.                                                  *)
(***************************************************************************)
EXTENDS Integers, FiniteSets, FiniteSetsExt

CONSTANTS
  Threads,       \* numbers from 1: the addresses of the clients
  Weights,       \* priorities plus SCHED_WEIGHT_BASE
  Slice,         \* CONFIG_TIME_SLICE
  Scale,         \* 2 ^ SCHED_FIXED_POINT
  Epsilon,       \* SCHED_EPSILON
  Deltas,        \* times that may pass between two updates
  MaxCalls       \* bound of the calls of the scheduler

VARIABLES
  q,       \* sched_t: the tree, the clients, vtime, totalWeight and runThread
  calls,   \* history: how often the scheduler was called
  panicked \* sched_first_eligible() found nothing in a run queue that is not empty

Null == 0
Left == 0
Right == 1
Opposite(dir) == 1 - dir

-----------------------------------------------------------------------------
(* The tree: root, parents up, children kid, the red nodes, and with every *)
(* node the smallest eligible time below it, min.                          *)

\* sched_fixed_cmp(): whole units that differ by at most Epsilon are equal.
Cmp(a, b) ==
  LET diff == (a - b) \div Scale
  IN IF diff > Epsilon THEN 1 ELSE IF diff < -(Epsilon + 1) THEN -1 ELSE 0

\* sched_node_compare(): by deadline, then by address.
Before(t, a, b) == t.deadline[a] < t.deadline[b] \/ (t.deadline[a] = t.deadline[b] /\ a < b)

\* sched_node_update().
Smaller(t, min, child) == IF child # Null /\ Cmp(t.min[child], min) < 0 THEN t.min[child] ELSE min
Update(t, n) ==
  [t EXCEPT !.min[n] = Smaller(t, Smaller(t, t.eligible[n], t.kid[n][Left]), t.kid[n][Right])]
RECURSIVE UpdateToRoot(_, _)
UpdateToRoot(t, n) == IF n = Null THEN t ELSE UpdateToRoot(Update(t, n), t.up[n])

SetUp(t, n, p) == IF n = Null THEN t ELSE [t EXCEPT !.up[n] = p]
FromParent(t, n) == IF t.kid[t.up[n]][Right] = n THEN Right ELSE Left
\* p's child old, or the root, becomes new.
Replace(t, p, old, new) ==
  IF p = Null THEN [t EXCEPT !.root = new]
  ELSE [t EXCEPT !.kid[p][IF t.kid[p][Right] = old THEN Right ELSE Left] = new]

IsRed(t, n) == n # Null /\ n \in t.red
Blacken(t, n) == [t EXCEPT !.red = @ \ {n}]
Redden(t, n) == [t EXCEPT !.red = @ \cup {n}]

Rotated(t, n, dir, r) ==
  [Replace(SetUp(t, t.kid[r][dir], n), t.up[n], n, r)
     EXCEPT !.kid[n][Opposite(dir)] = t.kid[r][dir], !.kid[r][dir] = n, !.up[r] = t.up[n],
            !.up[n] = r]

Rotate(t, n, dir) == UpdateToRoot(Rotated(t, n, dir, t.kid[n][Opposite(dir)]), n)

\* rbtree_insert_at(): until there is no red node below a red one.
RECURSIVE InsertFix(_, _, _)
InsertTurn(t, node, parent, grand, dir) ==
  Redden(Blacken(Rotate(t, grand, Opposite(dir)), parent), grand)

InsertFix(t, node, parent) ==
  IF parent = Null \/ ~IsRed(t, parent) THEN t
  ELSE IF t.up[parent] = Null THEN Blacken(t, parent)
  ELSE LET grand == t.up[parent]
           dir   == FromParent(t, parent)
           uncle == t.kid[grand][Opposite(dir)]
       IN IF IsRed(t, uncle)
          THEN InsertFix(Redden([t EXCEPT !.red = @ \ {parent, uncle}], grand), grand,
                         t.up[grand])
          ELSE IF node = t.kid[parent][Opposite(dir)]
          THEN InsertTurn(Rotate(t, parent, dir), parent, node, grand, dir)
          ELSE InsertTurn(t, node, parent, grand, dir)

InsertAt(t, parent, node, dir) ==
  IF parent = Null THEN [t EXCEPT !.root = node, !.up[node] = Null, !.red = @ \cup {node}]
  ELSE InsertFix(UpdateToRoot([t EXCEPT !.kid[parent][dir] = node, !.up[node] = parent,
                                        !.red = @ \cup {node}], node), node, parent)

RECURSIVE Descend(_, _, _)
Descend(t, node, at) ==
  LET dir == IF Before(t, node, at) THEN Left ELSE Right
  IN IF t.kid[at][dir] = Null THEN <<at, dir>> ELSE Descend(t, node, t.kid[at][dir])

Insert(t, node) ==
  LET place == IF t.root = Null THEN <<Null, Left>> ELSE Descend(t, node, t.root)
      new   == InsertAt(t, place[1], node, place[2])
  IN Blacken(new, new.root)

RECURSIVE FindEnd(_, _, _)
FindEnd(t, n, dir) == IF t.kid[n][dir] = Null THEN n ELSE FindEnd(t, t.kid[n][dir], dir)

\* rbtree_next() and rbtree_prev().
RECURSIVE Climb(_, _, _)
Climb(t, n, dir) ==
  IF t.up[n] # Null /\ n = t.kid[t.up[n]][dir] THEN Climb(t, t.up[n], dir) ELSE t.up[n]

Neighbour(t, n, dir) ==
  IF t.kid[n][dir] # Null THEN FindEnd(t, t.kid[n][dir], Opposite(dir)) ELSE Climb(t, n, dir)

\* rbtree_swap(): the two nodes change places and colors.
SwapColors(t, a, b) ==
  [t EXCEPT !.red = (@ \ {a,
          b}) \cup (IF a \in @ THEN {b} ELSE {}) \cup (IF b \in @ THEN {a} ELSE {})]

SetKids(t, n, kids) ==
  SetUp(SetUp([t EXCEPT !.kid[n] = kids], kids[Left], n), kids[Right], n)

SwapAdjacent(t, a, b) ==
  LET side == FromParent(t, b)
      kids == [d \in {Left, Right} |-> IF d = side THEN a ELSE t.kid[a][d]]
  IN SetKids(SetKids([Replace(t, t.up[a], a, b) EXCEPT !.up[b] = t.up[a]], b, kids), a, t.kid[b])

SwapApart(t, a, b) ==
  LET moved == Replace(Replace(t, t.up[b], b, a), t.up[a], a, b)
  IN SetKids(SetKids([moved EXCEPT !.up[a] = t.up[b], !.up[b] = t.up[a]], a, t.kid[b]), b,
             t.kid[a])

SwapNodes(t, a, b) ==
  UpdateToRoot(UpdateToRoot(IF t.up[a] = b THEN SwapAdjacent(SwapColors(t, a, b), b, a)
                            ELSE IF t.up[b] = a THEN SwapAdjacent(SwapColors(t, a, b), a, b)
                            ELSE SwapApart(SwapColors(t, a, b), a, b), a), b)

\* rbtree_remove_sanitize().
Sanitize(t, n) ==
  [UpdateToRoot(t, t.up[n]) EXCEPT !.up[n] = Null, !.kid[n] = [d \in {Left, Right} |-> Null],
   !.red = @ \cup {n}]

\* The loop of rbtree_remove(): the child of parent on the side dir lacks a black node.
RECURSIVE RemoveFix(_, _, _)
FarTurn(t, parent, dir, sibling) ==
  LET r == [Rotate(t, parent,
          dir) EXCEPT !.red = (@ \ {sibling}) \cup (IF parent \in @ THEN {sibling} ELSE {})]
  IN [r EXCEPT !.red = @ \ {parent, r.kid[sibling][Opposite(dir)]}]

BlackSibling(t, parent, dir, sibling) ==
  LET far  == t.kid[sibling][Opposite(dir)]
      near == t.kid[sibling][dir]
  IN IF ~IsRed(t, far) /\ ~IsRed(t, near)
     THEN IF t.up[parent] = Null THEN Redden(t, sibling)
          ELSE IF IsRed(t, parent) THEN Blacken(Redden(t, sibling), parent)
          ELSE RemoveFix(Redden(t, sibling), t.up[parent], FromParent(t, parent))
     ELSE IF ~IsRed(t, far)
     THEN FarTurn(Blacken(Redden(Rotate(t, sibling, Opposite(dir)), sibling), near), parent, dir,
                  near)
     ELSE FarTurn(t, parent, dir, sibling)

RedSibling(t, parent, dir, sibling) == Blacken(Redden(Rotate(t, parent, dir), parent), sibling)
RemoveFix(t, parent, dir) ==
  LET sibling == t.kid[parent][Opposite(dir)]
      turned  == RedSibling(t, parent, dir, sibling)
  IN IF IsRed(t, sibling) THEN BlackSibling(turned, parent, dir,
                                            turned.kid[parent][Opposite(dir)])
     ELSE BlackSibling(t, parent, dir, sibling)

RootBlack(t) == Blacken(t, t.root)
RemoveLow(t, n) ==
  LET child == IF t.kid[n][Left] # Null THEN t.kid[n][Left] ELSE t.kid[n][Right]
      gone  == Sanitize(Replace(t, t.up[n], n, Null), n)
  IN IF n \in t.red \/ (child = Null /\ t.up[n] = Null) THEN gone
     ELSE IF child # Null
     THEN Sanitize(Blacken([Replace(t, t.up[n], n, child) EXCEPT !.up[child] = t.up[n]], child),
                   n)
     ELSE RootBlack(RemoveFix(gone, t.up[n], FromParent(t, n)))

Remove(t, n) ==
  IF t.kid[n][Left] # Null /\ t.kid[n][Right] # Null
  THEN RemoveLow(SwapNodes(t, n, FindEnd(t, t.kid[n][Right], Left)), n) ELSE RemoveLow(t, n)

\* rbtree_fix(): after the key of n changed.
RECURSIVE Fix(_, _)
Fix(t, n) ==
  LET next == Neighbour(t, n, Right)
      prev == Neighbour(t, n, Left)
  IN IF next # Null /\ Before(t, next, n) THEN Fix(SwapNodes(t, n, next), n)
     ELSE IF prev # Null /\ Before(t, n, prev) THEN Fix(SwapNodes(t, n, prev), n)
     ELSE UpdateToRoot(t, n)

-----------------------------------------------------------------------------
(* Virtual time.                                                           *)

\* Division of C, towards zero.
Div(a, b) == IF a >= 0 THEN a \div b ELSE -((-a) \div b)

RECURSIVE Below(_, _)
Below(t, n) ==
  IF n = Null THEN {} ELSE {n} \cup Below(t, t.kid[n][Left]) \cup Below(t, t.kid[n][Right])

Queue(t) == Below(t, t.root)

\* sched_client_update_veligible().
SetEligible(t, n, v) ==
  [t EXCEPT !.eligible[n] = v, !.min[n] = v, !.deadline[n] = v + Div(Slice * Scale, t.weight[n])]

\* sched_vtime_update().
VtimeUpdate(t, delta) ==
  IF t.total = 0 \/ t.run = Null THEN [t EXCEPT !.vtime = 0]
  ELSE Fix(SetEligible([t EXCEPT !.vtime = @ + Div(delta * Scale, t.total)], t.run,
                       t.eligible[t.run] + Div(delta * Scale, t.weight[t.run])), t.run)

\* sched_enter(), the time being updated before.
Entered(t, n, w) ==
  Insert(SetEligible([t EXCEPT !.weight[n] = w, !.total = @ + w], n, t.vtime), n)

\* sched_leave(): the lag of the thread is spread over the others.
LeaveWith(t, n, lag) ==
  IF t.total = t.weight[n] THEN [Remove(t, n) EXCEPT !.total = 0, !.vtime = 0]
  ELSE [Remove(t, n) EXCEPT !.total = t.total - t.weight[n],
        !.vtime = @ + Div(lag, t.total - t.weight[n])]

LeaveQueue(t, n) == LeaveWith(t, n, (t.vtime - t.eligible[n]) * t.weight[n])

\* sched_first_eligible(): down the tree, Null when there is none.
RECURSIVE FirstFrom(_, _)
FirstFrom(t, at) ==
  IF at = Null THEN Null
  ELSE IF t.kid[at][Left] # Null /\ Cmp(t.min[t.kid[at][Left]], t.vtime) <= 0
       THEN FirstFrom(t, t.kid[at][Left])
  ELSE IF Cmp(t.eligible[at], t.vtime) <= 0 THEN at ELSE FirstFrom(t, t.kid[at][Right])

-----------------------------------------------------------------------------
Init ==
  /\ q = [root |-> Null, up |-> [n \in Threads |-> Null],
          kid |-> [n \in Threads |-> [d \in {Left, Right} |-> Null]], red |-> {},
          min |-> [n \in Threads |-> 0], eligible |-> [n \in Threads |-> 0],
          deadline |-> [n \in Threads |-> 0],
          weight |-> [n \in Threads |-> 1], vtime |-> 0, total |-> 0, run |-> Null]
  /\ calls = 0 /\ panicked = FALSE

Called == calls < MaxCalls /\ calls' = calls + 1

\* sched_submit() from here or from another CPU.
Submit(n, w, delta) ==
  /\ n \notin Queue(q) /\ Called
  /\ q' = Entered(VtimeUpdate(q, delta), n, w)
  /\ UNCHANGED panicked

\* Another CPU steals a thread; the time is not updated.
Steal(n) ==
  /\ n \in Queue(q) \ {q.run} /\ Called
  /\ q' = LeaveQueue(q, n)
  /\ UNCHANGED panicked

\* The choice of sched_first_eligible() in t; with an empty queue a victim of another CPU
\* enters, or the CPU is idle.
Choose(t) ==
  IF t.root = Null
  THEN \/ q' = [t EXCEPT !.run = Null] /\ UNCHANGED panicked
       \/ \E n \in Threads, w \in Weights :
            q' = [Entered(VtimeUpdate(t, 0), n, w) EXCEPT !.run = n] /\ UNCHANGED panicked
  ELSE /\ q' = [t EXCEPT !.run = IF FirstFrom(t, t.root) = Null THEN FindEnd(t, t.root, Left)
                                 ELSE FirstFrom(t, t.root)]
       /\ panicked' = (panicked \/ FirstFrom(t, t.root) = Null)

\* sched_do(): the running thread goes on, or it blocks or dies and leaves.
SchedDo(delta, leaves) ==
  /\ q.run # Null \/ q.root # Null
  /\ leaves => q.run # Null
  /\ Called
  /\ \E t \in {VtimeUpdate(q, delta)} : Choose(IF leaves THEN LeaveQueue(t, q.run) ELSE t)

Next ==
  \/ \E n \in Threads, w \in Weights, delta \in Deltas : Submit(n, w, delta)
  \/ \E n \in Threads : Steal(n)
  \/ \E delta \in Deltas, leaves \in BOOLEAN : SchedDo(delta, leaves)

vars == <<q, calls, panicked>>
Spec == Init /\ [][Next]_vars

-----------------------------------------------------------------------------
RECURSIVE BlackHeight(_)
BlackHeight(n) ==
  IF n = Null THEN 0
  ELSE LET l == BlackHeight(q.kid[n][Left])
           r == BlackHeight(q.kid[n][Right])
       IN IF l = -1 \/ l # r THEN -1 ELSE IF n \in q.red THEN l ELSE l + 1

\* The tree stays a search tree by deadline with consistent links, and a red-black tree:
\* the search for the next thread takes logarithmic time.
TreeSound ==
  /\ BlackHeight(q.root) # -1 /\ ~IsRed(q, q.root)
  /\ \A n \in Queue(q) :
       /\ \A d \in {Left, Right} : q.kid[n][d] # Null => q.up[q.kid[n][d]] = n
       /\ n \in q.red => (~IsRed(q, q.kid[n][Left]) /\ ~IsRed(q, q.kid[n][Right]))
       /\ \A m \in Below(q, q.kid[n][Left]) : Before(q, m, n)
       /\ \A m \in Below(q, q.kid[n][Right]) : Before(q, n, m)
  /\ q.total = MapThenSumSet(LAMBDA n : q.weight[n], Queue(q))
  /\ \A n \in Threads \ Queue(q) : q.up[n] = Null /\ q.kid[n][Left] = Null
       /\ q.kid[n][Right] = Null

\* What sched_verify() asserts of the eligible times in the tree.  The code violates it when
\* two of them differ by exactly Epsilon + 1 units: sched_fixed_cmp() is not symmetric.
MinVerified ==
  \A n \in Queue(q) :
    /\ \A d \in {Left, Right} : q.kid[n][d] # Null => Cmp(q.min[n], q.min[q.kid[n][d]]) <= 0
    /\ (q.kid[n][Left] = Null /\ q.kid[n][Right] = Null) => Cmp(q.min[n], q.eligible[n]) = 0

\* The sum of all lags is zero but for rounding, as sched_verify() asserts, and the eligible
\* time of a subtree is too large by at most Epsilon + 1 units for each level.
RECURSIVE Height(_)
Height(n) == IF n = Null THEN 0 ELSE 1 + Max({Height(q.kid[n][Left]), Height(q.kid[n][Right])})
LagZero ==
  /\ Cmp(MapThenSumSet(LAMBDA n : (q.vtime - q.eligible[n]) * q.weight[n], Queue(q)), 0) = 0
  /\ \A n \in Queue(q), m \in Threads : m \in Below(q, n) =>
       q.min[n] <= q.eligible[m] + ((Epsilon + 1) * Scale * (Height(n) - 1))

\* There is an eligible thread whenever there is a thread, and the one that is chosen has
\* the earliest deadline of all that are eligible.
EarliestEligible ==
  /\ ~panicked
  /\ \A n \in Queue(q) : (q.eligible[n] <= q.vtime /\ FirstFrom(q, q.root) # Null) =>
       ~Before(q, n, FirstFrom(q, q.root))
=============================================================================
