------------------------------ MODULE MCMemory ------------------------------
(***************************************************************************)
(* Memory for TLC: read-copy-update on two CPUs, the object cache on one   *)
(* CPU, the page allocator, an address space, the translations that CPUs   *)
(* cache of a user space, the heap of user space, kernel modules, and the  *)
(* AML interpreter with integers of one byte.  The value of part selects   *)
(* the component that runs; the others stay in their initial states.       *)
(***************************************************************************)
EXTENDS Rcu, Tlb

CONSTANTS c1, s1, s2, s3

VARIABLES
  part,
  cLists, freeCount, owner, cUsed, mapped, cActive, cPc, slab, wasFull,         \* Cache
  isEmpty, spurious,
  m, pHeld, booted,                                                           \* Pmm
  aspace, held, sCalls,                                                       \* Space
  blocks, bins, large, dirty, head,                                           \* Heap
  modules, loaded, devices, handlers, unordered, events,                      \* Modules
  st, loads, phase, calls, last                                               \* Aml

Ca == INSTANCE Cache WITH
  Cpus <- {c1}, Slabs <- {s1, s2, s3}, Amount <- 2, Limit <- 1, used <- cUsed, pc <- cPc,
  lists <- cLists, active <- cActive

Pm == INSTANCE Pmm WITH
  KindOf <- [p \in 0..7 |-> IF p = 1 THEN "loader" ELSE "avail"],
  BitmapPages <- 4, Word <- 2, FreePageMax <- 2, RefMax <- 2, Counts <- {1, 2, 5}, held <- pHeld

\* Three pages below two entries of the PML4, and frames for two of them
Sp == INSTANCE Space WITH
  Fan <- 3, Start <- 26, End <- 29, Frames <- 1..9, Foreign <- {21, 22}, KernelTable <- 30,
  Stack <- {28}, Callbacks <- {0}, Batch <- 2, Amounts <- {1, 2}, Aligns <- {2}, MaxPins <- 2,
  MaxCalls <- 4, s <- aspace, calls <- sCalls

He == INSTANCE Heap WITH Page <- 4, MaxPages <- 4, Threshold <- 8, Sizes <- {1, 3, 8, 9}

Mo == INSTANCE Modules WITH
  Mods <- {"a", "b", "c"}, Devices <- {"d1", "d2"},
  Uses <- "a" :> <<"b">> @@ "b" :> <<"c">> @@ "c" :> <<>>,
  Handlers <- "d1" :> <<"a">> @@ "d2" :> <<"c", "b">>, MaxEvents <- 4

-----------------------------------------------------------------------------
(* Tables for Aml: between them their terms use every opcode of the          *)
(* interpreter, fields that begin and end inside an access and that need     *)
(* several, indexed, banked and locked fields, methods that leave or fail at *)
(* every kind of place, and names that are defined later.                    *)

LOCAL Lone(x) == [root |-> FALSE, up |-> 0, path |-> <<x>>]
LOCAL Abs(p) == [root |-> TRUE, up |-> 0, path |-> p]
LOCAL Up(n, p) == [root |-> FALSE, up |-> n, path |-> p]
LOCAL N(x) == <<"Name", Lone(x)>>
LOCAL Call(x, args) == <<"Name", Lone(x), args>>
LOCAL I(n) == <<"Integer", n>>
LOCAL Str(s) == <<"String", s>>
LOCAL Buf(bytes) == <<"Buffer", I(Len(bytes)), bytes>>
LOCAL A0 == <<"Arg", 0>>
LOCAL L0 == <<"Local", 0>>
LOCAL L1 == <<"Local", 1>>
LOCAL X == <<"Null">>
LOCAL Flags(access, lock, update) == [access |-> access, lock |-> lock, update |-> update]
LOCAL Method(name, args, sync, body) ==
    <<"Method", Lone(name), [argCount |-> args, serialized |-> sync # 0, sync |-> sync], body>>

Declarations ==
  << <<"NameOp", Lone("A"), I(5)>>,
     <<"NameOp", Lone("B"), Str(<<49, 50>>)>>,
     <<"NameOp", Lone("C"), <<"Buffer", I(3), <<1, 255>>>>>>,
     <<"NameOp", Lone("D"), <<"Package", 4, <<I(7), Str(<<65>>), N("A"), N("LATE")>>>>>>,
     <<"Alias", Lone("A"), Lone("E")>>,
     <<"OpRegion", Lone("MEM"), "memory", I(0), I(4)>>,
     <<"OpRegion", Lone("IO"), "io", I(1), I(3)>>,
     <<"OpRegion", Lone("PCI"), "pci", I(0), I(4)>>,
     <<"OpRegion", Lone("EC"), "ec", I(0), I(1)>>,
     <<"Field", Lone("MEM"), Flags("byte", FALSE, "preserve"),
       <<<<"F1", 3>>, <<"none", 2>>, <<"F2", 6>>, <<"F3", 12>>>>>>,
     <<"Field", Lone("IO"), Flags("any", TRUE, "preserve"), <<<<"none", 1>>, <<"F4", 5>>>>>>,
     <<"Field", Lone("PCI"), Flags("word", FALSE, "ones"),
       <<<<"none", 4>>, <<"F5", 8>>, <<"F6", 8>>>>>>,
     <<"Field", Lone("PCI"), Flags("any", FALSE, "zeros"), <<<<"F7", 2>>>>>>,
     <<"Field", Lone("EC"), Flags("any", FALSE, "preserve"), <<<<"F8", 4>>>>>>,
     <<"IndexField", Lone("F5"), Lone("F6"), Flags("byte", FALSE, "preserve"),
       <<<<"none", 9>>, <<"X1", 4>>>>>>,
     <<"BankField", Lone("MEM"), Lone("F1"), I(2), Flags("byte", FALSE, "preserve"),
       <<<<"none", 24>>, <<"X2", 8>>>>>>,
     <<"Mutex", Lone("M"), 3>>,
     <<"Event", Lone("EVT")>>,
     <<"CreateField", N("C"), I(3), I(7), Lone("C1")>>,
     <<"CreateBitField", N("C"), I(17), Lone("C2")>>,
     <<"CreateByteField", N("C"), I(1), Lone("C3")>>,
     <<"CreateWordField", N("C"), I(1), Lone("C4")>>,
     <<"Device", Lone("DEV"), <<<<"NameOp", Lone("A"), I(1)>>,
                                Method("OWN", 0, 0, <<<<"Return", N("A")>>>>)>>>>,
     <<"Processor", Lone("CPU"), <<>>>>,
     <<"ThermalZone", Abs(<<"_SB", "TZ">>), <<<<"NameOp", Up(1, <<"T">>), I(1)>>>>>>,
     <<"PowerRes", Lone("PWR"), <<>>>>,
     <<"Scope", Abs(<<"_SB">>), <<<<"NameOp", Lone("S"), I(4)>>>>>> >>

\* What a method does, by its name; the last number is its sync level, 0 if it is not serialized
Programs ==
  << Method("ARI", 0, 0, <<
         <<"Add", I(200), I(100), L0>>, <<"Subtract", L0, I(50), L1>>,
         <<"Multiply", L1, I(3), N("A")>>,
         <<"Divide", N("A"), I(7), L0, L1>>, <<"Mod", L1, I(0), X>>, <<"Return", L1>> >>),
     Method("BIT", 0, 0, <<
         <<"And", N("A"), I(6), L0>>, <<"NAnd", L0, I(3), L0>>, <<"Or", L0, I(8), L0>>,
         <<"NOr", L0, I(1), L0>>,
         <<"XOr", L0, I(85), L0>>, <<"Not", L0, L0>>, <<"ShiftLeft", L0, I(1), L1>>,
         <<"ShiftRight", L1, I(9), L0>>,
         <<"FindSetLeftBit", L1, N("A")>>, <<"FindSetRightBit", L1, X>>, <<"Return", N("E")>> >>),
     Method("CNT", 0, 0, << <<"Increment", N("A")>>, <<"Decrement", N("F1")>>,
                           <<"Increment", N("B")>>, <<"Decrement", N("C3")>> >>),
     Method("IDX", 0, 0, <<
         <<"Store", I(9), <<"Index", N("C"), I(1), X>>>>,
         <<"Store", <<"Index", N("D"), I(0), X>>, L0>>,
         <<"Store", I(3), <<"DerefOf", L0>>>>, <<"Store", I(66), <<"Index", N("B"), I(0), X>>>>,
         <<"Return", <<"DerefOf", <<"Index", N("D"), I(1), L1>>>>>> >>),
     Method("FLD", 0, 0, <<
         <<"Store", I(255), N("F2")>>, <<"Store", N("F2"), N("F3")>>,
         <<"Store", I(170), N("F4")>>, <<"Store", I(1), N("F7")>>,
         <<"Store", N("F3"), L0>>, <<"Store", I(77), N("C4")>>, <<"Store", I(6), N("C1")>>,
         <<"Return", L0>> >>),
     Method("XFL", 0, 0, << <<"Store", I(11), N("X1")>>, <<"Store", I(90), N("X2")>>,
                           <<"Return", N("X1")>> >>),
     Method("ECF", 0, 0, << <<"Store", I(1), N("F8")>> >>),
     Method("CNV", 0, 0, <<
         <<"ToBuffer", N("A"), L0>>, <<"ToInteger", Str(<<48, 120, 49, 65>>), N("A")>>,
         <<"ToDecimalString", N("A"), L1>>,
         <<"ToHexString", N("A"), N("B")>>, <<"ToBCD", I(42), L1>>,
         <<"ToString", N("C"), I(2), L1>>,
         <<"Store", N("C"), N("B")>>, <<"Store", I(77), N("C")>>, <<"Return", N("B")>> >>),
     Method("TXT", 0, 0, <<
         <<"Concat", I(1), Str(<<50>>), L0>>, <<"Concat", N("B"), N("A"), N("B")>>,
         <<"Concat", N("C"), N("B"), L1>>,
         <<"Mid", N("B"), I(1), I(2), N("B")>>, <<"Return", <<"SizeOf", L1>>>> >>),
     Method("SEE", 0, 0, <<
         <<"CondRefOf", N("A"), L0>>, <<"Store", <<"ObjectType", L0>>, L1>>,
         <<"Store", <<"ObjectType", <<"RefOf", N("DEV")>>>>, L1>>,
         <<"Store", <<"SizeOf", N("D")>>, L1>>,
         <<"Store", <<"DerefOf", Str(<<92, 65>>)>>, <<"Debug">>>>,
         <<"Store", <<"Timer">>, L1>>, <<"CopyObject", I(4), N("B")>>, <<"Return", L1>> >>),
     Method("CMP", 0, 0, <<
         <<"If", <<"LAnd", <<"LEqual", N("A"), I(5)>>, <<"LNot", I(0)>>>>,
           << <<"Return", I(1)>> >>, << <<"Noop">> >>>>,
         <<"If", <<"LOr", <<"LGreater", N("B"), Str(<<49>>)>>, <<"LLess", N("C"), Buf(<<1>>)>>>>,
             << <<"Store", <<"LGreaterEqual", I(1), I(2)>>, L0>>,
               <<"Store", <<"LLessEqual", I(1), Str(<<>>)>>, L1>>,
                <<"Return", <<"LNotEqual", L0, L1>>>> >>, <<>>>> >>),
     Method("LOP", 0, 0, <<
         <<"Store", I(4), L0>>,
         <<"While", L0, << <<"Decrement", L0>>,
                          <<"If", <<"LEqual", L0, I(2)>>, << <<"Continue">> >>, <<>>>>,
                           <<"If", <<"LEqual", L0, I(1)>>, << <<"Break">> >>, <<>>>>,
                           <<"Increment", N("A")>> >>>>,
         <<"While", I(1), << <<"Return",
                               <<"Match", N("D"), "MEQ", I(7), "MTR", I(0), I(0)>>>> >>>> >>),
     Method("FIN", 0, 0, <<
         <<"Store", <<"Match", <<"Package", 3, <<I(1), I(4), I(9)>>>>, "MGE", I(2), "MLT", I(9),
                      I(0)>>, L0>>,
         <<"Store", <<"Match", <<"Package", 2, <<Str(<<65>>), I(4)>>>>, "MLE", I(3), "MGT", I(1),
                      I(1)>>, L1>>, <<"Return", L1>> >>),
     Method("PUT", 1, 0, << <<"Store", I(33), A0>>, <<"Return", A0>> >>),
     Method("ARG", 0, 0, << Call("PUT", <<<<"RefOf", N("A")>>>>),
                           <<"Store", Call("PUT", <<I(2)>>), L0>>, Call("_OSI", <<Str(<<87>>)>>),
                            <<"Store", N("_REV"), L1>>, <<"Store", N("NONE"), L0>>,
                            <<"Store", N("_OS"), L1>> >>),
     Method("NEW", 0, 0, <<
         <<"NameOp", Lone("T"), <<"VarPackage", N("A"), <<I(1)>>>>>>,
         <<"Device", Lone("U"), << <<"NameOp", Lone("T"), I(2)>> >>>>,
         Method("V", 0, 2, << <<"NameOp", Lone("W"), I(3)>>, <<"Return", N("W")>> >>),
         <<"Return", N("V")>> >>),
     Method("BAD", 0, 2, <<
         <<"NameOp", Lone("T"), I(1)>>,
         <<"Device", Lone("U"), << <<"NameOp", Lone("T"), I(2)>>,
                                  <<"NameOp", Lone("T"), I(3)>> >>>> >>),
     Method("HLD", 0, 0, << <<"Acquire", N("M")>> >>),
     Method("RLS", 0, 0, << <<"Release", N("M")>> >>),
     Method("LOW", 0, 1, << <<"Acquire", N("M")>>, N("HI"), <<"Release", N("M")>> >>),
     Method("HI", 0, 5, << <<"Return", I(1)>> >>),
     Method("INV", 0, 5, << N("LOW") >>),
     Method("DIV", 0, 2, << <<"Acquire", N("M")>>, <<"Divide", I(1), I(1), X, X>> >>) >>

\* The first table, one that defines a name twice, one that refers to a name that never
\* comes, and one with a name of the second table, which then fails half way.
FirstTables ==
  { Declarations \o Programs,
    << <<"NameOp", Lone("A"), I(1)>>,
      <<"Device", Lone("DEV"), << <<"NameOp", Lone("A"), I(2)>> >>>>,
      <<"NameOp", Lone("A"), I(3)>> >>,
    << <<"NameOp", Lone("D"), <<"Package", 1, <<N("GONE")>>>>>> >>,
    << <<"NameOp", Lone("LATE"), I(1)>>,
      <<"Device", Lone("DEV"), << <<"NameOp", Lone("A"), I(2)>> >>>> >> }

LaterTables ==
  << << <<"NameOp", Abs(<<"_SB", "Z">>), I(1)>>, <<"NameOp", Lone("LATE"), Str(<<66>>)>> >> >>

Evaluated ==
    {[path |-> <<p[2].path[1]>>, types |-> {"integer", "string", "buffer", "package", "ref"}] :
       p \in Range(Programs)}
        \cup {[path |-> <<"DEV", "OWN">>, types |-> {"integer"}],
              [path |-> <<"F3">>, types |-> {"integer"}]}

StartMemory == [r \in {"memory", "io", "pci"} |-> [a \in 0 .. 3 |-> IF a = 1 THEN 165 ELSE 0]]

-----------------------------------------------------------------------------
Am == INSTANCE Aml WITH
  IntBytes <- 1, GlobalLock <- 2, Dsdts <- FirstTables, Ssdts <- LaterTables,
  Evaluations <- Evaluated, MaxCalls <- 3, Times <- {3}, Memory <- StartMemory

cacheVars == <<cLists, freeCount, owner, cUsed, mapped, cActive, cPc, slab, wasFull,
               isEmpty, spurious>>

pmmVars == <<m, pHeld, booted>>
spaceVars == <<aspace, held, sCalls>>
heapVars == <<blocks, bins, large, dirty, head>>
moduleVars == <<modules, loaded, devices, handlers, unordered, events>>
amlVars == <<st, loads, phase, calls, last>>
allVars == <<part, vars, cacheVars, pmmVars, spaceVars, tlbVars, heapVars, moduleVars, amlVars>>

MCInit ==
  /\ part \in {"rcu", "cache", "pmm", "space", "tlb", "heap", "modules", "aml"}
  /\ Init /\ Ca!Init /\ Pm!Init /\ Sp!Init /\ TlbInit /\ He!Init /\ Mo!Init /\ Am!Init
  /\ part # "rcu" => \A c \in Cpus : ~idle[c]
  /\ part # "heap" => head = "below"

MCNext ==
  /\ UNCHANGED part
  /\ \/ /\ part = "cache" /\ Ca!Next
        /\ UNCHANGED <<vars, pmmVars, spaceVars, tlbVars, heapVars, moduleVars, amlVars>>
     \/ /\ part = "pmm" /\ Pm!Next
        /\ UNCHANGED <<vars, cacheVars, spaceVars, tlbVars, heapVars, moduleVars, amlVars>>
     \/ /\ part = "space" /\ Sp!Next
        /\ UNCHANGED <<vars, cacheVars, pmmVars, tlbVars, heapVars, moduleVars, amlVars>>
     \/ /\ part = "tlb" /\ TlbNext
        /\ UNCHANGED <<vars, cacheVars, pmmVars, spaceVars, heapVars, moduleVars, amlVars>>
     \/ /\ part = "heap" /\ He!Next
        /\ UNCHANGED <<vars, cacheVars, pmmVars, spaceVars, tlbVars, moduleVars, amlVars>>
     \/ /\ part = "rcu" /\ Next
        /\ UNCHANGED <<cacheVars, pmmVars, spaceVars, tlbVars, heapVars, moduleVars, amlVars>>
     \/ /\ part = "modules" /\ Mo!Next
        /\ UNCHANGED <<vars, cacheVars, pmmVars, spaceVars, tlbVars, heapVars, amlVars>>
     \/ /\ part = "aml" /\ Am!Next
        /\ UNCHANGED <<vars, cacheVars, pmmVars, spaceVars, tlbVars, heapVars, moduleVars>>

MCSpec == MCInit /\ [][MCNext]_allVars

-----------------------------------------------------------------------------
(* OnePlace and SafeFreeFresh are the ones of Rcu, NoStaleTranslation is the one of Tlb. *)

\* An object of a slab and a page are each free or of one caller, and the free ones are
\* linked exactly once, whatever failed and, for pages, overlapped; the cache is used by one
\* CPU at a time.
\* The blocks of the heap do not overlap, exactly the free ones are listed, and memory that
\* calloc() does not clear is zero.
AllocatorsIntact ==
  /\ Ca!SlabsIntact /\ Pm!PagesAccounted
  /\ He!WellFormed /\ He!ZeroedIsZero

\* In an address space every frame is free, a table or of one page, but for the frames that
\* a failing vmm_alloc() loses and those of callers that vmm_protect() marks owned, and every
\* page is pinned as often as callers pin it, although calls failed half way.
SpaceIntact ==
  part = "space" =>
    /\ Sp!FramesAccounted /\ Sp!PinsCounted /\ Sp!CallbacksCover /\ Sp!FoundUnmapped

\* A module is listed only when it is loaded as a whole.
NothingHalfLoaded == Mo!NothingHalfLoaded

\* Between two calls of the AML interpreter every name is a committed one that leads to the
\* root, and is unique, although tables and methods failed half way.
\* A store to a field changes exactly the bits of the field.
NamespaceSound == Am!NamespaceSound /\ (part = "aml" => Am!FieldsExact)

\* A method that runs, whether it fails or not, and a table that fails leave the names as
\* they were, and a method that succeeds has given back the mutexes of serialized methods
\* (one that fails may keep them, method.c:103).
NamesKept == Am!NamesKept
=============================================================================
