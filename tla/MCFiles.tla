------------------------------- MODULE MCFiles ------------------------------
(***************************************************************************)
(* Files for TLC: descriptors and keys, directories of tmpfs, and mounts.  *)
(* The value of part selects the component that runs; the others stay in   *)
(* their initial states.  Two threads work on a tree of two levels         *)
(* ("tree"), or open, create and remove one name again and again ("name"); *)
(* one thread mounts, binds, unmounts and creates a namespace ("spawn"),   *)
(* or two do so, each at any step of the other ("mounts").                 *)
(* The algorithms on data structures are checked here too: the functions   *)
(* of the C library on all small memories ("text", "numbers"), its formats *)
(* ("print"), the tree of a run queue, with four threads of two weights    *)
(* ("fair") and with five of one ("tree5"), and the containers of the      *)
(* kernel ("list", "map" and "bits").  A program uses a stream of the C    *)
(* library on one file ("stream").                                         *)
(***************************************************************************)
EXTENDS Files, TLC

CONSTANTS t1, t2, n0, n1

VARIABLES
  part,
  tPc, op, todo, held, freeing, tParent, name, vnode, tRefs, map, siblings,    \* Tmpfs
  listed, over, panic,
  mounts, stacks, parent, pc, job, locks, early,                               \* Namespace
  bytes, file, offset, fh, text, at,                                           \* Libstd
  runq, calls, panicked,                                                       \* Fair
  next, prev, stores, live, walk, leaving, slots, length, tombstones, entry,   \* Containers
  content, buffer, firstZeroIdx, bits

TreeFs == INSTANCE Tmpfs WITH
  Threads <- {t1, t2}, Paths <- {<<"a">>, <<"a", "b">>}, MaxDentries <- 2,
  Ops <- {"mkdir", "remove", "rmdir", "link", "symlink"},
  pc <- tPc, parent <- tParent, refs <- tRefs

NameFs == INSTANCE Tmpfs WITH
  Threads <- {t1, t2}, Paths <- {<<"a">>}, MaxDentries <- 4,
  Ops <- {"open", "create", "remove"}, pc <- tPc, parent <- tParent, refs <- tRefs

\* The root file system has /a, /a/b and a link /a/s to ../a/b; q is the root of another.
Spawned == INSTANCE Namespace WITH
  Threads <- {t1}, Spawners <- {t1}, Namespaces <- {n0, n1}, First <- n0,
  Dentries <- {"r", "a", "b", "s", "q"}, RootDentry <- "r", FsRoots <- {"r", "q"},
  ParentOf <- "r" :> "r" @@ "a" :> "r" @@ "b" :> "a" @@ "s" :> "a" @@ "q" :> "q",
  NameOf <- "r" :> "" @@ "a" :> "a" @@ "b" :> "b" @@ "s" :> "s" @@ "q" :> "",
  LinkOf <- "r" :> <<>> @@ "a" :> <<>> @@ "b" :> <<>> @@ "s" :> <<"..", "a", "b">> @@ "q" :> <<>>,
  Paths <- {<<"/">>, <<"/", "a">>, <<"/", "a", "s">>, <<"/", "a", "..", "a", "b", "..">>},
  Flags <- {{"propagate"}}, Tree <- n0 :> None @@ n1 :> None, MaxMounts <- 3, MaxStack <- 2

Mounted == INSTANCE Namespace WITH
  Threads <- {t1, t2}, Spawners <- {t1}, Namespaces <- {n0, n1}, First <- n0,
  Dentries <- {"r", "a", "b", "s", "q"}, RootDentry <- "r", FsRoots <- {"r", "q"},
  ParentOf <- "r" :> "r" @@ "a" :> "r" @@ "b" :> "a" @@ "s" :> "a" @@ "q" :> "q",
  NameOf <- "r" :> "" @@ "a" :> "a" @@ "b" :> "b" @@ "s" :> "s" @@ "q" :> "",
  LinkOf <- "r" :> <<>> @@ "a" :> <<>> @@ "b" :> <<>> @@ "s" :> <<"..", "a", "b">> @@ "q" :> <<>>,
  Paths <- {<<"/">>, <<"/", "a">>, <<"/", "a", "s">>, <<"/", "a", "..", "a", "b", "..">>},
  Flags <- {{}, {"propagate"}}, Tree <- n0 :> None @@ n1 :> None, MaxMounts <- 2, MaxStack <- 2

\* Words of two bytes, and numbers up to 7 in the bases 2, 3 and 4.
Li == INSTANCE Libstd WITH
  Word <- 2, Top <- 4, Oct <- 2, Dec <- 3, Hex <- 4, MaxNumber <- 7, Threshold <- 3,
  CharSize <- 4, ShortSize <- 8, PointerDigits <- 3, BufSize <- 2, UngetMax <- 1,
  Modes <- {"r", "w", "r+", "w+"}, Buffering <- {"line", "unbuffered"},
  CallsFail <- {"read", "write"}, FlushesAll <- FALSE, MaxFile <- 3

Virtual == INSTANCE Fair WITH
  Threads <- 1..4, Weights <- {1, 2}, Slice <- 2, Scale <- 60, Epsilon <- 0, Deltas <- {1},
  MaxCalls <- 6, q <- runq

Tree5 == INSTANCE Fair WITH
  Threads <- 1..5, Weights <- {1}, Slice <- 2, Scale <- 60, Epsilon <- 0, Deltas <- {1},
  MaxCalls <- 7, q <- runq

\* Two keys have the same hash.
Co == INSTANCE Containers WITH
  Entries <- {1, 2, 3}, Anchor <- 0, Readers <- {t1}, Items <- {1, 2, 3}, Keys <- 1..3,
  Hash <- <<3, 1, 3>>, MinCapacity <- 2, MaxCapacity <- 8, Null <- None, Tombstone <- -1,
  Word <- 3, Length <- 5

treeVars == <<tPc, op, todo, held, freeing, tParent, name, vnode, tRefs, map, siblings,
              listed, over, panic>>

mountVars == <<mounts, stacks, parent, pc, job, locks, early>>
fairVars == <<runq, calls, panicked>>
listVars == <<next, prev, stores, live, walk, leaving>>
mapVars == <<slots, length, tombstones, entry, content>>
bitVars == <<buffer, firstZeroIdx, bits>>
streamVars == <<file, offset, fh, text, at>>
otherVars == <<listVars, mapVars, bitVars, streamVars>>
allVars == <<part, vars, treeVars, mountVars, bytes, fairVars, otherVars>>

MCInit ==
  /\ part \in {"files", "tree", "name", "spawn", "mounts", "text", "numbers", "fair", "tree5",
              "list", "map", "bits", "print", "stream"}
  /\ Init
  /\ IF part = "name" THEN NameFs!Init ELSE TreeFs!Init
  /\ IF part = "spawn" THEN Spawned!Init ELSE Mounted!Init
  /\ IF part = "tree5" THEN Tree5!Init ELSE Virtual!Init
  /\ Co!ListInit /\ Co!MapInit /\ Co!BitInit /\ (part # "bits" => bits = {})
  /\ Li!StdioInit /\ (part # "stream" => file = <<>>)
  /\ bytes \in CASE part = "text" -> {m \in [0..4 -> 0..4] : m[4] = 0}
                [] part = "numbers" -> {m \in [0..4 -> 0..8] : m[4] = 0}
                [] part = "print" ->
                     {Li!Conversion(spec, flags, width, precision, size) :
                       spec \in {"d", "u", "o", "x"}, flags \in SUBSET {"-", "+", " ", "#", "0"},
                       width \in {-1, 4}, precision \in {-1, 0, 2}, size \in {"hh", "l"}}
                [] OTHER -> {<<>>}

MCNext ==
  /\ UNCHANGED <<part, bytes>>
  /\ \/ part = "files" /\ Next /\ UNCHANGED <<treeVars, mountVars, fairVars, otherVars>>
     \/ part = "tree" /\ TreeFs!Next /\ UNCHANGED <<vars, mountVars, fairVars, otherVars>>
     \/ part = "name" /\ NameFs!Next /\ UNCHANGED <<vars, mountVars, fairVars, otherVars>>
     \/ part = "spawn" /\ Spawned!Next /\ UNCHANGED <<vars, treeVars, fairVars,
             otherVars>>
     \/ part = "mounts" /\ Mounted!Next /\ UNCHANGED <<vars, treeVars, fairVars,
             otherVars>>
     \/ part = "fair" /\ Virtual!Next /\ UNCHANGED <<vars, treeVars, mountVars,
             otherVars>>
     \/ part = "tree5" /\ Tree5!Next /\ UNCHANGED <<vars, treeVars, mountVars, otherVars>>
     \/ /\ \/ part = "list" /\ Co!ListNext /\ UNCHANGED <<mapVars, bitVars, streamVars>>
           \/ part = "map" /\ Co!MapNext /\ UNCHANGED <<listVars, bitVars, streamVars>>
           \/ part = "bits" /\ Co!BitNext /\ UNCHANGED <<listVars, mapVars, streamVars>>
           \/ part = "stream" /\ Li!StdioNext /\ UNCHANGED <<listVars, mapVars, bitVars>>
        /\ UNCHANGED <<vars, treeVars, mountVars, fairVars>>

MCSpec == MCInit /\ [][MCNext]_allVars

-----------------------------------------------------------------------------
(* ReferencesCounted is the one of Files. *)

\* A name of a directory means one file, for every look-up, and the references to a dentry
\* are its children, the file system and the calls that use it, one less when the name was
\* removed twice.  The name that path_to_name() makes of a place leads to this place, ".."
\* leads back to where a name was looked up, and a mount is on one stack of a namespace,
\* once, or twice when it came between the creation of the namespace and its copy.
NamesSound ==
  /\ part = "tree" => TreeFs!ReferencesCounted /\ TreeFs!NamesAgree
  /\ part = "name" => NameFs!ReferencesCounted /\ NameFs!NamesAgree
  /\ part = "spawn" => Spawned!RoundTrip /\ Spawned!WayUp /\ Spawned!MountedOnce
  /\ part = "mounts" => Mounted!RoundTrip /\ Mounted!WayUp /\ Mounted!MountedOnce

\* Whoever enters, leaves and is stolen: the tree of the run queue stays a red-black search
\* tree, the lags add up to zero as sched_verify() asserts, there is an eligible thread
\* whenever there is one, and the chosen one has the earliest deadline of the eligible.
\* Lists, maps and bitmaps hold what was put in, and a reader under RCU misses nothing.
StructuresSound ==
  /\ part = "fair" => Virtual!TreeSound /\ Virtual!LagZero /\ Virtual!EarliestEligible
  /\ part = "tree5" => Tree5!TreeSound /\ Tree5!LagZero /\ Tree5!EarliestEligible
  /\ part = "list" => Co!ListSound
  /\ part = "map" => Co!MapAgrees
  /\ part = "bits" => Co!BitmapAgrees

\* The functions on memory and text compute what they are meant to, on every small memory;
\* what is printed reads as what it was; and a stream that was not opened to append is its
\* file, with a place in it, as long as seek() does not fail and fflush(NULL) is not called.
TextAgrees ==
  /\ part = "text" => Li!StringsAgree(bytes)
  /\ part = "print" => Li!NumberPrinted(bytes)
  /\ (part = "print" /\ bytes.flags = {}) => Li!NumbersRoundTrip
  /\ part = "numbers" => /\ Li!NumbersRead(bytes)
                         /\ Li!NumberScanned(bytes) /\ Li!TextScanned(bytes)
  /\ part = "stream" => Li!StreamsAgree
=============================================================================
