------------------------------ MODULE Modules -------------------------------
(***************************************************************************)
(* The module loader (src/kernel/module/module.c): modules are loaded for  *)
(* the devices they handle, with the modules whose symbols they use, and   *)
(* collected when no device needs them.                                    *)
(*                                                                         *)
(* All of it runs under one mutex; an attach or a detach is one step.      *)
(* Which files cannot be loaded and which procedures report an error is    *)
(* chosen anew for every attach.  The files and their symbols are          *)
(* constants, so that symbolCache and deviceCache are too: a symbol is     *)
(* known by the module that defines it.                                    *)
(***************************************************************************)
EXTENDS Integers, Sequences, FiniteSets, SequencesExt

CONSTANTS
  Mods, Devices,
  Uses,       \* per module: the modules whose symbols it uses, in relocation order
  Handlers,   \* per device: the modules for its type, in the order of the cache
  MaxEvents   \* bound on attaches and detaches

VARIABLES
  modules,    \* modulesList
  loaded,     \* modules with MODULE_FLAG_LOADED
  devices,    \* devices in deviceMap
  handlers,   \* pairs of a module and a device, in the order of device->handlers
  unordered,  \* history: a module was loaded before one that it uses
  events

vars == <<modules, loaded, devices, handlers, unordered, events>>

Init ==
  /\ modules = <<>> /\ loaded = {} /\ devices = {} /\ handlers = <<>>
  /\ unordered = FALSE /\ events = 0

-----------------------------------------------------------------------------
(* Loading.  A load context is the list of modules, ctx->dependencies, the *)
(* modules loaded, and whether all went well.                              *)

Without(s, S) == SelectSeq(s, LAMBDA m : m \notin S)

\* module_load_and_relocate_elf(), module_resolve_symbol_callback(),
\* module_load_dependency(): the modules that define the symbols m uses are loaded
\* first, unless they are there; one that cannot be is freed again.
RECURSIVE LoadElf(_, _, _)
LoadElf(m, ctx, broken) ==
  IF m \in broken THEN [ctx EXCEPT !.ok = FALSE]
  ELSE FoldLeft(
         LAMBDA c, u :
           IF ~c.ok \/ u \in Range(c.modules) THEN c
           ELSE LET d == LoadElf(u, [c EXCEPT !.modules = Append(@, u)], broken)
                IN IF d.ok THEN [d EXCEPT !.dependencies = Append(@, u)]
                           ELSE [d EXCEPT !.modules = Without(@, {u})],
         ctx, Uses[m])

\* module->dependencies: the callback returns before it records the dependency
\* whenever the provider of the symbol is found, and fails when it is not.
Dependencies(m) == {}

\* The order in which the load events of the dependencies are sent
LoadOrder(dependencies) == Reverse(dependencies)

\* module_call_load_event() for the dependencies, then for the module
Begun(order, failing) ==
  LET bad == {i \in 1..Len(order) : order[i] \in failing}
  IN IF bad = {} THEN order ELSE SubSeq(order, 1, (CHOOSE i \in bad : \A j \in bad : i <= j) - 1)

\* Mutant: an error leaves the dependencies on the list.
GetOrLoad_DependenciesStay(m, ctx, broken, failing) ==
  IF m \in Range(ctx.modules) THEN ctx
  ELSE LET elf == LoadElf(m, [ctx EXCEPT !.modules = Append(@, m), !.dependencies = <<>>], broken)
           order == LoadOrder(elf.dependencies)
           begun == Begun(order, failing)
           early == \E i \in 1..Len(begun) : \E u \in Range(Uses[begun[i]]) :
                      u \in Range(order) /\ u \notin Range(SubSeq(begun, 1, i))
           failed(gone) == [elf EXCEPT !.modules = Without(@, gone \cup {m}), !.ok = FALSE,
                                       !.loaded = (@ \cup Range(begun)) \ gone,
                                       !.unordered = @ \/ early]
       IN CASE ~elf.ok \/ begun # order -> failed({})
            [] m \in failing -> failed({})
            [] OTHER -> [elf EXCEPT !.loaded = @ \cup Range(begun) \cup {m},
                                    !.unordered = @ \/ early]

\* module_get_or_load(): an error unloads and frees the dependencies, unless it is the
\* module itself that fails its load event.
GetOrLoad(m, ctx, broken, failing) ==
  IF m \in Range(ctx.modules) THEN ctx
  ELSE LET elf == LoadElf(m, [ctx EXCEPT !.modules = Append(@, m), !.dependencies = <<>>], broken)
           order == LoadOrder(elf.dependencies)
           begun == Begun(order, failing)
           early == \E i \in 1..Len(begun) : \E u \in Range(Uses[begun[i]]) :
                      u \in Range(order) /\ u \notin Range(SubSeq(begun, 1, i))
           failed(gone) == [elf EXCEPT !.modules = Without(@, gone \cup {m}), !.ok = FALSE,
                                       !.loaded = (@ \cup Range(begun)) \ gone,
                                       !.unordered = @ \/ early]
       IN CASE ~elf.ok \/ begun # order -> failed(Range(elf.dependencies))
            [] m \in failing -> failed({})
            [] OTHER -> [elf EXCEPT !.loaded = @ \cup Range(begun) \cup {m},
                                    !.unordered = @ \/ early]

-----------------------------------------------------------------------------
(* Collection *)

RECURSIVE Closure(_)
Closure(S) ==
  LET T == S \cup UNION {Dependencies(m) : m \in S} IN IF T = S THEN S ELSE Closure(T)

\* module_gc_mark_reachable(), module_gc_sweep_unreachable(), module_gc_collect():
\* the modules that stay
Kept(ms, hs) == Closure({h[1] : h \in Range(hs)} \cap Range(ms))
Collect(ms, ld, hs) ==
  /\ modules' = SelectSeq(ms, LAMBDA m : m \in Kept(ms, hs))
  /\ loaded' = ld \cap Kept(ms, hs)

-----------------------------------------------------------------------------
(* Operations *)

\* The loop of module_device_attach() over the modules for the type: those that do not
\* load are skipped, one that fails the attach event ends it with an error.
RECURSIVE Attached(_, _, _, _, _)
Attached(ms, ctx, new, all, f) ==
  IF ms = <<>> THEN [ctx |-> ctx, new |-> new, error |-> FALSE]
  ELSE LET c == GetOrLoad(Head(ms), [ctx EXCEPT !.ok = TRUE], f.broken, f.load)
       IN CASE ~c.ok -> Attached(Tail(ms), c, new, all, f)
            [] Head(ms) \in f.attach -> [ctx |-> c, new |-> new, error |-> TRUE]
            [] OTHER -> IF all THEN Attached(Tail(ms), c, Append(new, Head(ms)), all, f)
                        ELSE [ctx |-> c, new |-> Append(new, Head(ms)), error |-> FALSE]

HandlersOf(d) == SelectSeq(handlers, LAMBDA h : h[2] = d)

\* module_device_attach(), with MODULE_LOAD_ALL or without
Attach(d) ==
  \E all \in BOOLEAN : \E broken, load, attach \in SUBSET Mods :
    LET r == Attached(Handlers[d],
               [modules |-> modules, dependencies |-> <<>>, loaded |-> loaded,
                unordered |-> unordered, ok |-> TRUE],
               <<>>, all, [broken |-> broken, load |-> load, attach |-> attach])
        new == [i \in 1..Len(r.new) |-> <<r.new[i], d>>]
    IN
    /\ events < MaxEvents /\ events' = events + 1
    /\ Handlers[d] # <<>> /\ (all \/ HandlersOf(d) = <<>>)
    /\ unordered' = r.ctx.unordered
    /\ IF r.error
       THEN /\ devices' = IF HandlersOf(d) = <<>> THEN devices \ {d} ELSE devices
            /\ Collect(r.ctx.modules, r.ctx.loaded, handlers) /\ UNCHANGED handlers
       ELSE /\ devices' = devices \cup {d} /\ handlers' = handlers \o new
            /\ modules' = r.ctx.modules /\ loaded' = r.ctx.loaded

\* module_device_detach()
Detach(d) ==
  /\ d \in devices /\ events < MaxEvents /\ events' = events + 1
  /\ handlers' = SelectSeq(handlers, LAMBDA h : h[2] # d)
  /\ Collect(modules, loaded, handlers')
  /\ devices' = devices \ {d} /\ UNCHANGED unordered

Next == \E d \in Devices : Attach(d) \/ Detach(d)

Spec == Init /\ [][Next]_vars

-----------------------------------------------------------------------------
(* Properties *)

\* An attach that fails anywhere leaves nothing half loaded: the modules of the list are
\* the ones that received their load event, and they include those of the handlers, whose
\* devices are known.
NothingHalfLoaded ==
  /\ Range(modules) = loaded /\ IsInjective(modules)
  /\ \A h \in Range(handlers) : h[1] \in loaded /\ h[2] \in devices

\* A module that handles a device has the modules whose symbols it uses.
DependenciesStay ==
  \A h \in Range(handlers) : Range(Uses[h[1]]) \subseteq Range(modules)

\* A module receives its load event after the modules it uses, when there is no circle.
DeepestFirst == ~unordered
=============================================================================
