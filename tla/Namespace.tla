----------------------------- MODULE Namespace ------------------------------
(***************************************************************************)
(* Namespaces and paths: mounts, their stacks, their propagation to child  *)
(* namespaces (src/kernel/fs/namespace.c, src/kernel/fs/mount.c), walking  *)
(* a path and naming a place (src/kernel/fs/path.c).                       *)
(*                                                                         *)
(* The directories and symbolic links are constants; a place is a mount    *)
(* and a dentry, as in path_t.  A thread that adds or removes a mount      *)
(* locks a namespace, changes it, and goes on to its children with the     *)
(* lock held; every lock of a child is a step of its own.  A walk takes    *)
(* the lock of one namespace for reading at each step and is modelled as   *)
(* one step.  mountCount only saves lookups of mountMap that find nothing, *)
(* and is left out.                                                        *)
(***************************************************************************)
EXTENDS Integers, Sequences, FiniteSets, SequencesExt

CONSTANTS
  Threads, Namespaces, First, None,
  Spawners,   \* threads that create namespaces
  Dentries, RootDentry, FsRoots,
  ParentOf,   \* per dentry: dentry->parent; itself for the root of a file system
  NameOf,     \* per dentry: its name
  LinkOf,     \* per symbolic link: its path, <<>> for other dentries
  Paths,      \* absolute paths of the system calls
  Flags,      \* flags of mounts: sets of "propagate", "private", "locked"
  Tree,       \* per namespace: its parent in the initial state, None if not created
  MaxMounts,  \* bound on the mounts of a behaviour
  MaxStack    \* MOUNT_STACK_MAX_MOUNTS

Places == (1..MaxMounts) \X Dentries
Keys == Places \cup {None}      \* None is root_key()
MaxSymlink == 2                 \* PATH_MAX_SYMLINK

VARIABLES
  mounts,     \* mounts[m]: source dentry, target place or None, flags
  stacks,     \* per namespace and key: the mounts of the stack
  parent,     \* per namespace: its parent, None if it does not exist
  pc, job,    \* per thread: what it does, with which mount, from where, and what is done
  locks,      \* per thread: namespaces it has write locked, in that order
  early       \* the pairs of a namespace and a mount that was added to it before its copy

vars == <<mounts, stacks, parent, pc, job, locks, early>>

NoJob == [mount |-> 0, from |-> None, deep |-> FALSE, done |-> {}]
Exists(n) == n = First \/ parent[n] # None

Init ==
  /\ mounts = <<[source |-> RootDentry, target |-> None, flags |-> {"propagate"}]>>
  /\ stacks = [n \in Namespaces |-> [k \in Keys |->
                 IF k = None /\ (n = First \/ Tree[n] # None) THEN <<1>> ELSE <<>>]]
  /\ parent = Tree
  /\ pc = [t \in Threads |-> "idle"] /\ job = [t \in Threads |-> NoJob]
  /\ locks = [t \in Threads |-> <<>>] /\ early = {}

-----------------------------------------------------------------------------
(* Paths: a walk ends at a place, at the empty path None, or fails. *)

Fail == <<>>

\* namespace_rcu_get_root()
GetRoot(n) ==
  LET s == stacks[n][None] IN IF s = <<>> THEN None ELSE <<Last(s), mounts[Last(s)].source>>

\* namespace_rcu_traverse(): from a mountpoint to the mount on top of its stack
RECURSIVE Traverse(_, _)
Traverse(n, place) ==
  LET s == stacks[n][place] IN
  IF s = <<>> THEN place ELSE Traverse(n, <<Last(s), mounts[Last(s)].source>>)

\* path_rcu_dotdot(): out of the mounts whose root this is, then to the parent
RECURSIVE Dotdot(_)
Dotdot(place) ==
  LET m == mounts[place[1]] IN
  IF place[2] = m.source /\ m.target # None
  THEN Dotdot(m.target)
  ELSE <<place[1], ParentOf[place[2]]>>

\* path_rcu_walk(), path_rcu_step(), path_rcu_symlink(): a path that starts with "/" is
\* walked from the root; a symbolic link is walked from the directory it is in.
RECURSIVE Walk(_, _, _, _)
Walk(n, place, path, depth) ==
  IF path = <<>> THEN place
  ELSE LET rest(p) == Walk(n, p, Tail(path), depth) IN
    CASE Head(path) = "/" -> rest(GetRoot(n))
      [] place = None -> Fail
      [] Head(path) = ".." -> rest(Dotdot(place))
      [] OTHER ->
           LET next == {d \in Dentries : ParentOf[d] = place[2] /\ NameOf[d] = Head(path)}
               d == CHOOSE x \in next : TRUE
           IN IF next = {} THEN Fail
              ELSE IF LinkOf[d] = <<>> THEN rest(Traverse(n, <<place[1], d>>))
              ELSE IF depth = MaxSymlink THEN Fail
              ELSE LET to == Walk(n, place, LinkOf[d], depth + 1)
                   IN IF to = Fail THEN Fail ELSE rest(to)

Resolve(n, path) == Walk(n, None, path, 0)

\* Mutant: every root of a file system is taken for the root.
RECURSIVE ToName_FsRoot(_)
ToName_FsRoot(place) ==
  LET d == place[2]
  IN IF ParentOf[d] = d THEN <<"/">>
     ELSE Append(ToName_FsRoot(<<place[1], ParentOf[d]>>), NameOf[d])

\* path_to_name(): fails when the names lead to the root of a file system that is not
\* the source of the mount.
RECURSIVE ToName(_)
ToName(place) ==
  LET m == mounts[place[1]]
      d == place[2]
      up(p) == LET name == ToName(p) IN IF name = Fail THEN Fail ELSE Append(name, NameOf[d])
  IN
  IF d = m.source
  THEN IF m.target = None THEN <<"/">> ELSE ToName(m.target)
  ELSE IF ParentOf[d] = d THEN Fail ELSE up(<<place[1], ParentOf[d]>>)

-----------------------------------------------------------------------------
(* Operations *)

Free(n) == \A t \in Threads : n \notin Range(locks[t])
Idle(t) == pc[t] = "idle"
Start(t, label, j) == pc' = [pc EXCEPT ![t] = label] /\ job' = [job EXCEPT ![t] = j]

\* SYS_MOUNT, SYS_BIND, up to namespace_add(): the root of a file system, or any place,
\* goes on the place the path leads to.
Mount(t) ==
  \E n \in Namespaces : \E path \in Paths : \E flags \in Flags :
    LET target == Resolve(n, path)
        bound == {Resolve(n, p)[2] : p \in {q \in Paths : Resolve(n, q) \notin {Fail, None}}}
    IN
    /\ Idle(t) /\ Exists(n) /\ target # Fail /\ Len(mounts) < MaxMounts
    /\ \E source \in FsRoots \cup bound :
         mounts' = Append(mounts, [source |-> source, target |-> target, flags |-> flags])
    /\ Start(t, "add", [mount |-> Len(mounts) + 1, from |-> n, deep |-> "propagate" \in flags,
                        done |-> {}])
    /\ UNCHANGED <<stacks, parent, locks, early>>

\* SYS_UNMOUNT: the mount that the path leads to
Unmount(t) ==
  \E n \in Namespaces : \E path \in Paths : \E deep \in BOOLEAN :
    LET place == Resolve(n, path) IN
    /\ Idle(t) /\ Exists(n) /\ place \notin {Fail, None} /\ "locked" \notin mounts[place[1]].flags
    /\ Start(t, "remove", [mount |-> place[1], from |-> n, deep |-> deep, done |-> {}])
    /\ UNCHANGED <<mounts, stacks, parent, locks, early>>

\* mount_stack_push(), mount_stack_remove()
Push(s, m) == Append(s, m)
Drop(s, m) ==
  LET i == CHOOSE j \in 1..Len(s) : s[j] = m IN IF m \in Range(s) THEN RemoveAt(s, i) ELSE s

\* The namespaces that namespace_add() and namespace_remove() lock next
Ahead(t) ==
  IF locks[t] = <<>> THEN {job[t].from} \ job[t].done
  ELSE {n \in Namespaces : job[t].deep /\ parent[n] = Last(locks[t])} \ job[t].done

\* A namespace between namespace_new() and namespace_copy(), when nobody has locked it
Copied(n) == \E t \in Threads : pc[t] = "copy" /\ job[t].from = n

\* One level of namespace_add() or namespace_remove(); a full stack ends it everywhere.
Enter(t) ==
  \E n \in Ahead(t) :
    LET m == job[t].mount
        s == stacks[n][mounts[m].target]
    IN
    /\ pc[t] \in {"add", "remove"} /\ Free(n) /\ UNCHANGED <<mounts, parent>>
    /\ IF pc[t] = "add" /\ Len(s) = MaxStack
       THEN /\ Start(t, "idle", NoJob) /\ locks' = [locks EXCEPT ![t] = <<>>]
            /\ UNCHANGED <<stacks, early>>
       ELSE /\ stacks' = [stacks EXCEPT ![n][mounts[m].target] = IF pc[t] = "add"
                                                                 THEN Push(s, m) ELSE Drop(s, m)]
            /\ early' = early \cup {<<n, x>> : x \in IF pc[t] = "add" /\ Copied(n) THEN {m} ELSE {}}
            /\ locks' = [locks EXCEPT ![t] = Append(@, n)]
            /\ job' = [job EXCEPT ![t].done = @ \cup {n}] /\ UNCHANGED pc

\* The children are done: the lock goes, and after the last one the system call returns.
Leave(t) ==
  /\ pc[t] \in {"add", "remove"} /\ locks[t] # <<>> /\ Ahead(t) = {}
  /\ locks' = [locks EXCEPT ![t] = Front(@)]
  /\ IF Len(locks[t]) = 1 THEN Start(t, "idle", NoJob) ELSE UNCHANGED <<pc, job>>
  /\ UNCHANGED <<mounts, stacks, parent, early>>

\* SYS_SPAWN: namespace_new(), and namespace_copy() unless the namespace stays empty
New(t) ==
  \E n, c \in Namespaces : \E copy \in BOOLEAN :
    /\ Idle(t) /\ t \in Spawners /\ Exists(n) /\ ~Exists(c) /\ Free(n)
    /\ parent' = [parent EXCEPT ![c] = n]
    /\ IF copy THEN Start(t, "copy", [NoJob EXCEPT !.from = c]) ELSE UNCHANGED <<pc, job>>
    /\ UNCHANGED <<mounts, stacks, locks, early>>

LockCopy(t) ==
  /\ pc[t] = "copy" /\ locks[t] = <<>> /\ Free(job[t].from)
  /\ locks' = [locks EXCEPT ![t] = <<job[t].from>>]
  /\ UNCHANGED <<mounts, stacks, parent, pc, job, early>>

\* With both locks; a full stack ends the copy, and the caller drops the namespace.
Copy(t) ==
  LET c == job[t].from
      old == stacks[parent[c]]
      public(k) == SelectSeq(old[k], LAMBDA m : "private" \notin mounts[m].flags)
  IN
  /\ pc[t] = "copy" /\ locks[t] # <<>> /\ Free(parent[c])
  /\ IF \E k \in Keys : Len(stacks[c][k] \o public(k)) > MaxStack
     THEN /\ stacks' = [stacks EXCEPT ![c] = [k \in Keys |-> <<>>]]
          /\ parent' = [parent EXCEPT ![c] = None]
     ELSE /\ stacks' = [stacks EXCEPT ![c] = [k \in Keys |-> @[k] \o public(k)]]
          /\ UNCHANGED parent
  /\ locks' = [locks EXCEPT ![t] = <<>>] /\ Start(t, "idle", NoJob)
  /\ UNCHANGED <<mounts, early>>

\* namespace_free(), when the last process of the namespace is gone
FreeNamespace ==
  \E n \in Namespaces \ {First} :
    /\ parent[n] # None /\ \A c \in Namespaces : parent[c] # n
    /\ \A t \in Threads : job[t].from # n
    /\ Free(n) /\ Free(parent[n])
    /\ parent' = [parent EXCEPT ![n] = None]
    /\ stacks' = [stacks EXCEPT ![n] = [k \in Keys |-> <<>>]]
    /\ early' = {e \in early : e[1] # n}
    /\ UNCHANGED <<mounts, pc, job, locks>>

Next ==
  \/ FreeNamespace
  \/ \E t \in Threads :
       Mount(t) \/ Unmount(t) \/ Enter(t) \/ Leave(t) \/ New(t) \/ LockCopy(t) \/ Copy(t)

Spec == Init /\ [][Next]_vars

-----------------------------------------------------------------------------
(* Properties *)

\* The name of a place leads back to the place: what path_to_name() says of the end of a
\* walk, walked from the root, ends there again, whatever is mounted and bound where.
Reached(n) == IF Exists(n) THEN {Resolve(n, path) : path \in Paths} \ {Fail, None} ELSE {}
RoundTrip ==
  \A n \in Namespaces : \A place \in Reached(n) :
    ToName(place) # Fail => Resolve(n, ToName(place)) = place

\* The way up undoes the way down: ".." after a name leads back to where the name was
\* looked up, whatever is mounted on it, bound to it or stacked there.
Below(place, d) == place[2] = ParentOf[d] /\ place[2] # d /\ LinkOf[d] = <<>>
WayUp ==
  \A n \in Namespaces : \A place \in Reached(n) :
    \A d \in {x \in Dentries : Below(place, x)} :
      Walk(n, place, <<NameOf[d], "..">>, 0) = place

\* A namespace has a mount once, so that unmounting it takes it away, unless the mount came
\* between the creation of the namespace and its copy: then at most twice.
Times(n, k, m) == Cardinality({i \in 1..Len(stacks[n][k]) : stacks[n][k][i] = m})
MountedOnce ==
  \A n \in Namespaces : \A k \in Keys : \A m \in Range(stacks[n][k]) :
    Times(n, k, m) <= IF <<n, m>> \in early THEN 2 ELSE 1

\* The locks of namespaces never close a circle: of two threads, each waits for a
\* namespace that the other has locked.
Wants(t) ==
  CASE pc[t] \in {"add", "remove"} -> Ahead(t)
    [] pc[t] = "copy" -> IF locks[t] = <<>> THEN {job[t].from} ELSE {parent[job[t].from]}
    [] OTHER -> {}

NoLockCycle ==
  \A t, u \in Threads :
    t # u => ~(Wants(t) \cap Range(locks[u]) # {} /\ Wants(u) \cap Range(locks[t]) # {})
=============================================================================
