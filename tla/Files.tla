------------------------------- MODULE Files --------------------------------
(***************************************************************************)
(* Open files and who refers to them: the file tables of processes         *)
(* (src/kernel/fs/file_table.c), the keys a file is shared with            *)
(* (src/kernel/fs/key.c), and the system calls that use a file             *)
(* (src/kernel/fs/file.c, src/kernel/fs/vfs.c).                            *)
(*                                                                         *)
(* Every operation runs under the lock of its table, or of the keys.  A    *)
(* file is a reference count and a flag, MODE_PRIVATE.  key_timer_handler()*)
(* is never called, so that a key stays until it is claimed.               *)
(***************************************************************************)
EXTENDS Integers, Sequences, FiniteSets, FiniteSetsExt, SequencesExt

CONSTANTS
  Tables,     \* processes
  Files,
  None,
  MaxFd,      \* CONFIG_MAX_FD
  Timeouts,   \* timeouts of shared keys
  MaxKeys,    \* bound on the keys shared in a behaviour
  MaxUptime   \* bound on the clock

ASSUME FilesAssumption ==
  /\ IsFiniteSet(Tables) /\ None \notin Files
  /\ MaxFd \in Nat \ {0} /\ Timeouts \subseteq Nat

Fds == 0..(MaxFd - 1)

VARIABLES
  mem,        \* per file: "none", "open", "freed"
  private,    \* files opened with MODE_PRIVATE
  refs,
  files,      \* per table: table->files
  bitmap,     \* per table: descriptors in use
  using,      \* per table: the file a thread of the process works with, or None
  keyList,    \* entries sorted by their expiry
  shared,     \* history: how many keys were generated
  late,       \* history: a key was claimed after its time
  uptime

keys == <<keyList, shared, late, uptime>>
vars == <<mem, private, refs, files, bitmap, using, keys>>

Init ==
  /\ mem = [f \in Files |-> "none"] /\ private = {} /\ refs = [f \in Files |-> 0]
  /\ files = [p \in Tables |-> [fd \in Fds |-> None]] /\ bitmap = [p \in Tables |-> {}]
  /\ using = [p \in Tables |-> None]
  /\ keyList = <<>> /\ shared = 0 /\ late = FALSE /\ uptime = 0

OpenFds(p) == {fd \in Fds : files[p][fd] # None}
FirstClear(p) == Min(Fds \ bitmap[p])

\* The counts after gained[f] references more; file_free() with the last one.
Count(gained) ==
  /\ refs' = [f \in Files |-> refs[f] + gained[f]]
  /\ mem' = [f \in Files |-> IF mem[f] = "open" /\ refs'[f] = 0 THEN "freed" ELSE mem[f]]

One(f, n) == [g \in Files |-> IF g = f THEN n ELSE 0]
Of(p, fds) == [f \in Files |-> Cardinality({fd \in fds : files[p][fd] = f})]

\* SYS_OPEN: file_new(), file_table_open(), UNREF().
Open(p) ==
  \E f \in Files : \E priv \in BOOLEAN :
    /\ mem[f] = "none" /\ bitmap[p] # Fds
    /\ mem' = [mem EXCEPT ![f] = "open"] /\ refs' = [refs EXCEPT ![f] = 1]
    /\ private' = IF priv THEN private \cup {f} ELSE private
    /\ files' = [files EXCEPT ![p][FirstClear(p)] = f]
    /\ bitmap' = [bitmap EXCEPT ![p] = @ \cup {FirstClear(p)}]
    /\ UNCHANGED <<using, keys>>

\* The body of every close: entries are cleared, the references dropped.
CloseFds(p, fds) ==
  /\ fds # {}
  /\ files' = [files EXCEPT ![p] = [fd \in Fds |-> IF fd \in fds THEN None ELSE @[fd]]]
  /\ bitmap' = [bitmap EXCEPT ![p] = @ \ fds]
  /\ Count([f \in Files |-> -Of(p, fds)[f]])
  /\ UNCHANGED <<private, using, keys>>

Close(p) == \E fd \in OpenFds(p) : CloseFds(p, {fd})
CloseAll(p) == CloseFds(p, OpenFds(p))
CloseMode(p) == CloseFds(p, {fd \in OpenFds(p) : files[p][fd] \in private})
CloseRange(p) ==
  \E min, max \in 0..MaxFd : CloseFds(p, {fd \in OpenFds(p) : min <= fd /\ fd < max})

\* file_table_dup(), file_table_dup2()
Dup(p) ==
  \E old \in OpenFds(p) :
    /\ bitmap[p] # Fds
    /\ files' = [files EXCEPT ![p][FirstClear(p)] = files[p][old]]
    /\ bitmap' = [bitmap EXCEPT ![p] = @ \cup {FirstClear(p)}]
    /\ Count(One(files[p][old], 1))
    /\ UNCHANGED <<private, using, keys>>

\* Mutant: the file that the descriptor had is not dropped.
Dup2_NotDropped(p) ==
  \E old \in OpenFds(p) : \E new \in Fds \ {old} :
    /\ files' = [files EXCEPT ![p][new] = files[p][old]]
    /\ bitmap' = [bitmap EXCEPT ![p] = @ \cup {new}]
    /\ Count(One(files[p][old], 1))
    /\ UNCHANGED <<private, using, keys>>

Dup2(p) ==
  \E old \in OpenFds(p) : \E new \in Fds \ {old} :
    /\ files' = [files EXCEPT ![p][new] = files[p][old]]
    /\ bitmap' = [bitmap EXCEPT ![p] = @ \cup {new}]
    /\ Count([f \in Files |-> One(files[p][old], 1)[f] - Of(p, {new})[f]])
    /\ UNCHANGED <<private, using, keys>>

\* file_table_copy(), of all descriptors or of the first ones
Copy(p, src) ==
  \E max \in 1..MaxFd :
    LET fds == {fd \in OpenFds(src) : fd < max} IN
    /\ p # src /\ fds # {}
    /\ files' = [files EXCEPT ![p] = [fd \in Fds |-> IF fd \in fds THEN files[src][fd] ELSE @[fd]]]
    /\ bitmap' = [bitmap EXCEPT ![p] = @ \cup fds]
    /\ Count([f \in Files |-> Of(src, fds)[f] - Of(p, fds)[f]])
    /\ UNCHANGED <<private, using, keys>>

\* A system call gets the file of a descriptor, works with it, and drops it.
Get(p) ==
  \E fd \in OpenFds(p) :
    /\ using[p] = None /\ using' = [using EXCEPT ![p] = files[p][fd]]
    /\ Count(One(files[p][fd], 1))
    /\ UNCHANGED <<private, files, bitmap, keys>>

Put(p) ==
  /\ using[p] # None /\ using' = [using EXCEPT ![p] = None]
  /\ Count(One(using[p], -1))
  /\ UNCHANGED <<private, files, bitmap, keys>>

\* SYS_SHARE, key_share(): a new key for the file in use, before the first one that
\* expires later.
Share(p) ==
  \E timeout \in Timeouts : \E i \in 1..(Len(keyList) + 1) :
    LET e == [key |-> shared + 1, file |-> using[p], expiry |-> uptime + timeout] IN
    /\ using[p] # None /\ shared < MaxKeys /\ shared' = shared + 1
    /\ \A j \in 1..(i - 1) : e.expiry >= keyList[j].expiry
    /\ i <= Len(keyList) => e.expiry < keyList[i].expiry
    /\ keyList' = InsertAt(keyList, i, e)
    /\ Count(One(using[p], 1))
    /\ UNCHANGED <<private, files, bitmap, using, late, uptime>>

\* SYS_CLAIM, key_claim(): the reference of the key goes to the table, if there is room.
Claim(p) ==
  \E i \in 1..Len(keyList) :
    LET e == keyList[i] IN
    /\ keyList' = RemoveAt(keyList, i)
    /\ late' = (late \/ e.expiry < uptime)
    /\ IF bitmap[p] = Fds
       THEN Count(One(e.file, -1)) /\ UNCHANGED <<files, bitmap>>
       ELSE /\ files' = [files EXCEPT ![p][FirstClear(p)] = e.file]
            /\ bitmap' = [bitmap EXCEPT ![p] = @ \cup {FirstClear(p)}]
            /\ UNCHANGED <<mem, refs>>
    /\ UNCHANGED <<private, using, shared, uptime>>

Tick ==
  /\ uptime < MaxUptime /\ uptime' = uptime + 1
  /\ UNCHANGED <<mem, private, refs, files, bitmap, using, keyList, shared, late>>

Next ==
  \/ Tick
  \/ \E p \in Tables :
       \/ Open(p) \/ Close(p) \/ CloseAll(p) \/ CloseMode(p) \/ CloseRange(p)
       \/ Dup(p) \/ Dup2(p) \/ Get(p) \/ Put(p) \/ Share(p) \/ Claim(p)
       \/ \E src \in Tables : Copy(p, src)

Spec == Init /\ [][Next]_vars

-----------------------------------------------------------------------------
(* Properties *)

\* A file has exactly the references that tables, keys and running system calls have
\* to it, and is closed with the last one: no use after a close, no file that stays
\* open for nobody.  The bitmap of a table has exactly the descriptors in use.
ReferencesCounted ==
  /\ \A f \in Files :
       /\ refs[f] = Cardinality({s \in Tables \X Fds : files[s[1]][s[2]] = f})
                      + Cardinality({p \in Tables : using[p] = f})
                      + Cardinality({i \in 1..Len(keyList) : keyList[i].file = f})
       /\ mem[f] = "open" <=> refs[f] > 0
  /\ \A p \in Tables : bitmap[p] = OpenFds(p)

\* A key cannot be claimed when its time is over.
KeysExpire == ~late
=============================================================================
