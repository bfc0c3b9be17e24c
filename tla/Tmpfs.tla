------------------------------- MODULE Tmpfs --------------------------------
(***************************************************************************)
(* Names: the dentry cache (src/kernel/fs/dentry.c), the operations of the *)
(* virtual file system that create, link and remove names                  *)
(* (src/kernel/fs/vfs.c), and the file system that keeps its files in      *)
(* memory (src/kernel/fs/tmpfs.c).                                         *)
(*                                                                         *)
(* A thread walks to the parent and to the target of its path, holds a     *)
(* reference to both, runs its operation, and drops the references; a file *)
(* that stays open is a thread that has not dropped them yet.  The mutex   *)
(* of the directory makes the body of an operation one step; the walk, and *)
(* the tests that vfs.c makes before it, are steps of their own.  A vnode  *)
(* is the dentry it was created for and a type.                            *)
(***************************************************************************)
EXTENDS Integers, Sequences, FiniteSets, SequencesExt

CONSTANTS
  Threads, None,
  Ops,        \* operations of the threads
  Paths,      \* sequences of names
  MaxDentries \* bound on the dentries allocated in a behaviour

Root == 0     \* the dentry of the root directory
Dentries == 1..MaxDentries

VARIABLES
  pc, op,
  todo,       \* per thread: the paths that are still to be walked
  held,       \* per thread: dentries it has references to, parent before target
  freeing,    \* per thread: the dentry whose dentry_free() it runs, or None
  parent, name, vnode, refs,  \* per dentry
  map,        \* the hash chains, newest dentry first
  siblings,   \* dentries on the list of children of their parent
  listed,     \* dentries on the list of the superblock
  over,       \* per dentry: how often the reference of that list was dropped once too often
  panic       \* an assertion failed

dentries == <<parent, name, vnode, refs, map, siblings, listed, over>>
vars == <<pc, op, todo, held, freeing, dentries, panic>>

Count == Len(parent)

Init ==
  /\ pc = [t \in Threads |-> "idle"] /\ op = [t \in Threads |-> None]
  /\ todo = [t \in Threads |-> <<>>] /\ held = [t \in Threads |-> <<>>]
  /\ freeing = [t \in Threads |-> None]
  /\ parent = <<>> /\ name = <<>> /\ vnode = <<>> /\ refs = <<>>
  /\ map = <<>> /\ siblings = {} /\ listed = {} /\ over = <<>> /\ panic = FALSE

IsDir(d) == d = Root \/ (vnode[d] # None /\ vnode[d][2] = "dir")
Positive(d) == d = Root \/ vnode[d] # None

\* The references after d gained n, of the dentries with a count.
Refs(d, n) == IF d = Root THEN refs ELSE [refs EXCEPT ![d] = @ + n]

\* dentry_rcu_get(): the first dentry of the chain with this parent and name
Matches(p, n) == SelectSeq(map, LAMBDA d : parent[d] = p /\ name[d] = n)
Live(p, n) == SelectSeq(Matches(p, n), LAMBDA d : refs[d] > 0)

At(t, label) == pc[t] = label /\ freeing[t] = None /\ ~panic
Goto(t, label) == pc' = [pc EXCEPT ![t] = label]

Begin(t) ==
  /\ At(t, "idle")
  /\ \E o \in Ops : \E p \in Paths : \E q \in IF o = "link" THEN Paths ELSE {<<>>} :
       /\ op' = [op EXCEPT ![t] = o]
       /\ todo' = [todo EXCEPT ![t] = IF o = "link" THEN <<p, q>> ELSE <<p>>]
       /\ held' = [held EXCEPT ![t] = <<Root>>]
  /\ Goto(t, "step") /\ UNCHANGED <<freeing, dentries, panic>>

Dir(t) == Last(held[t])
Name(t) == Head(Head(todo[t]))

\* The step found d, to which the thread has a reference from now on: the next name of
\* the path, the next path, or the operation.
Arrive(t, d) ==
  LET rest == Tail(Head(todo[t]))
      paths == IF rest = <<>> THEN Tail(todo[t]) ELSE <<rest>> \o Tail(todo[t])
  IN
  /\ todo' = [todo EXCEPT ![t] = paths]
  /\ held' = [held EXCEPT ![t] = @ \o (IF rest = <<>> /\ paths # <<>> THEN <<d, Root>>
                                       ELSE <<d>>)]
  /\ Goto(t, IF paths = <<>> THEN "op" ELSE "step")

\* path_rcu_step(): a dentry in the cache that is dying ends the walk.
Step(t) ==
  /\ At(t, "step") /\ UNCHANGED <<op, freeing, parent, name, vnode, map, siblings, listed, over,
                                  panic>>
  /\ LET found == Matches(Dir(t), Name(t)) IN
     \/ /\ found # <<>> /\ refs[Head(found)] > 0
        /\ Arrive(t, Head(found)) /\ refs' = Refs(Head(found), 1)
     \/ found # <<>> /\ refs[Head(found)] = 0 /\ Goto(t, "drop") /\ UNCHANGED <<refs, todo, held>>
     \/ found = <<>> /\ Goto(t, IF IsDir(Dir(t)) THEN "new" ELSE "drop")
          /\ UNCHANGED <<refs, todo, held>>

\* dentry_new(), dentry_map_add(): a live dentry of this name is used in place of a
\* new one, which stays negative.
New(t) ==
  /\ At(t, "new") /\ UNCHANGED <<op, freeing, siblings, listed, panic>>
  /\ IF Live(Dir(t), Name(t)) # <<>>
     THEN Goto(t, "again") /\ UNCHANGED <<todo, held, parent, name, vnode, refs, map, over>>
     ELSE /\ Count < MaxDentries
          /\ Arrive(t, Count + 1)
          /\ parent' = Append(parent, Dir(t)) /\ name' = Append(name, Name(t))
          /\ vnode' = Append(vnode, None) /\ refs' = Append(Refs(Dir(t), 1), 1)
          /\ map' = <<Count + 1>> \o map /\ over' = Append(over, 0)

\* dentry_get() after EEXIST
Again(t) ==
  /\ At(t, "again") /\ UNCHANGED <<op, freeing, parent, name, vnode, map, siblings, listed,
                                   over, panic>>
  /\ LET found == Matches(Dir(t), Name(t)) IN
     IF found # <<>> /\ refs[Head(found)] > 0
     THEN Arrive(t, Head(found)) /\ refs' = Refs(Head(found), 1)
     ELSE Goto(t, "drop") /\ UNCHANGED <<refs, todo, held>>

-----------------------------------------------------------------------------
(* Operations *)

Target(t) == Last(held[t])
Parent(t) == held[t][Len(held[t]) - 1]

\* dentry_make_positive(), tmpfs_dentry_add(): list_push_back() asserts that the
\* dentry is on no list yet.
MakePositive(d, v) ==
  /\ vnode' = [vnode EXCEPT ![d] = v]
  /\ panic' = (d \in siblings)
  /\ siblings' = siblings \cup {d} /\ listed' = listed \cup {d}
  /\ refs' = Refs(d, 1)
  /\ UNCHANGED <<parent, name, map, over>>

Fail(t) == Goto(t, "drop") /\ UNCHANGED <<op, todo, held, freeing, dentries, panic>>

\* vfs_openat() without MODE_CREATE
Open(t) == At(t, "op") /\ op[t] = "open" /\ Fail(t)

\* vfs_create(), tmpfs_create(), under the mutex of the directory
Create(t) ==
  LET d == Target(t) IN
  /\ At(t, "op") /\ op[t] \in {"create", "mkdir"}
  /\ IF Positive(d) \/ ~Positive(Parent(t))
     THEN Fail(t)
     ELSE /\ MakePositive(d, <<d, IF op[t] = "mkdir" THEN "dir" ELSE "reg">>)
          /\ Goto(t, "drop") /\ UNCHANGED <<op, todo, held, freeing>>

\* vfs_link(), tmpfs_link(): nothing asks whether the new name is positive.
Old(t) == LET second == CHOOSE i \in 2..Len(held[t]) : held[t][i] = Root IN held[t][second - 1]

Link(t) ==
  /\ At(t, "op") /\ op[t] = "link"
  /\ IF ~Positive(Old(t)) \/ IsDir(Old(t)) \/ ~Positive(Parent(t))
     THEN Fail(t)
     ELSE /\ MakePositive(Target(t), vnode[Old(t)])
          /\ Goto(t, "drop") /\ UNCHANGED <<op, todo, held, freeing>>

\* The tests of vfs_symlink() and vfs_remove(), without the mutex
Test(t) ==
  LET d == Target(t) IN
  /\ At(t, "op") /\ op[t] \in {"symlink", "remove", "rmdir"}
  /\ Goto(t, IF CASE op[t] = "symlink" -> Positive(Parent(t)) /\ ~Positive(d)
                  [] op[t] = "remove" -> Positive(d) /\ ~IsDir(d)
                  [] OTHER -> Positive(d) /\ IsDir(d)
             THEN "locked" ELSE "drop")
  /\ UNCHANGED <<op, todo, held, freeing, dentries, panic>>

\* tmpfs_symlink()
Symlink(t) ==
  /\ At(t, "locked") /\ op[t] = "symlink"
  /\ MakePositive(Target(t), <<Target(t), "symlink">>)
  /\ Goto(t, "drop") /\ UNCHANGED <<op, todo, held, freeing>>

\* tmpfs_remove(), tmpfs_dentry_remove(), dentry_remove(): nothing asks whether the name is
\* still there, so that of two removals the second one drops a reference nobody has; it may
\* be the last one.
Unlink(t) ==
  LET d == Target(t) IN
  /\ At(t, "locked") /\ op[t] \in {"remove", "rmdir"}
  /\ IF \E c \in siblings : parent[c] = d
     THEN Fail(t)
     ELSE /\ listed' = listed \ {d} /\ refs' = Refs(d, -1)
          /\ over' = [over EXCEPT ![d] = @ + IF d \in listed THEN 0 ELSE 1]
          /\ freeing' = [freeing EXCEPT ![t] = IF refs'[d] = 0 THEN d ELSE None]
          /\ map' = SelectSeq(map, LAMBDA e : e # d)
          /\ Goto(t, "drop") /\ UNCHANGED <<op, todo, held, parent, name, vnode, siblings, panic>>

-----------------------------------------------------------------------------
(* References *)

\* path_put(): the last reference is the one of a dentry_free().
Drop(t) ==
  /\ At(t, "drop")
  /\ IF held[t] = <<>>
     THEN /\ Goto(t, "idle") /\ op' = [op EXCEPT ![t] = None] /\ todo' = [todo EXCEPT ![t] = <<>>]
          /\ UNCHANGED <<held, freeing, refs>>
     ELSE /\ held' = [held EXCEPT ![t] = Front(@)] /\ refs' = Refs(Target(t), -1)
          /\ freeing' = [freeing EXCEPT ![t] =
                           IF Target(t) # Root /\ refs'[Target(t)] = 0 THEN Target(t) ELSE None]
          /\ UNCHANGED <<pc, op, todo>>
  /\ UNCHANGED <<parent, name, vnode, map, siblings, listed, over, panic>>

\* dentry_free(): out of the cache and the list of the parent, whose reference goes too
Free(t) ==
  LET d == freeing[t]
      p == parent[d]
  IN
  /\ d # None /\ ~panic
  /\ map' = SelectSeq(map, LAMBDA e : e # d) /\ siblings' = siblings \ {d}
  /\ refs' = Refs(p, -1)
  /\ freeing' = [freeing EXCEPT ![t] = IF p # Root /\ refs'[p] = 0 THEN p ELSE None]
  /\ UNCHANGED <<pc, op, todo, held, parent, name, vnode, listed, over, panic>>

\* No behaviour is followed once a thread has a dentry that is freed.
HeldFreed(d) == refs[d] = 0 /\ \E t \in Threads : d \in Range(held[t])

Next ==
  /\ \A d \in 1..Count : ~HeldFreed(d)
  /\ \E t \in Threads :
       \/ Begin(t) \/ Step(t) \/ New(t) \/ Again(t)
       \/ Open(t) \/ Create(t) \/ Link(t) \/ Test(t) \/ Symlink(t) \/ Unlink(t)
       \/ Drop(t) \/ Free(t)

Spec == Init /\ [][Next]_vars

-----------------------------------------------------------------------------
(* Properties *)

HeldBy(t, d) == {i \in 1..Len(held[t]) : held[t][i] = d}
Freed(d) == refs[d] = 0 /\ \A t \in Threads : freeing[t] # d

\* A dentry has exactly the references of the walks and open files that hold it, of the
\* superblock that lists it and of its children.  Nobody holds one that is freed, unless its
\* name was removed twice (vfs.c:1233), when a reference is missing.
ReferencesCounted ==
  ~panic => \A d \in 1..Count :
    /\ refs[d] + over[d]
         = Cardinality({h \in Threads \X (1..6) : h[2] \in HeldBy(h[1], d)})
             + (IF d \in listed THEN 1 ELSE 0)
             + Cardinality({c \in 1..Count : parent[c] = d /\ ~Freed(c)})
    /\ HeldFreed(d) => over[d] > 0

\* The cache and the file system agree on the names: no two live dentries for one name,
\* and a file that was created and not removed is the one the cache finds.
NamesAgree == ~panic =>
  /\ \A i, j \in 1..Len(map) :
       i # j /\ parent[map[i]] = parent[map[j]] /\ name[map[i]] = name[map[j]]
         => refs[map[i]] = 0 \/ refs[map[j]] = 0
  /\ \A d \in listed : Positive(d) /\ Matches(parent[d], name[d]) # <<>>
                         /\ Head(Matches(parent[d], name[d])) = d

\* What a positive dentry names does not change.
PositiveStays ==
  [][\A d \in 1..Count : vnode[d] # None => vnode'[d] = vnode[d]]_vars
=============================================================================
