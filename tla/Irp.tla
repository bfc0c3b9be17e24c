--------------------------------- MODULE Irp --------------------------------
(***************************************************************************)
(* I/O request packets, src/kernel/io/irp.c and include/kernel/io/irp.h.   *)
(* A packet is passed down a stack of frames, one for each layer, and its  *)
(* completion, cancellation or timeout runs the completion routines of the *)
(* frames from the lowest one up.  Its memory descriptors (mem/mdl.c) hold *)
(* the pages of the caller's buffers.  The packets are taken from the      *)
(* lock-free pool of mem/pool.c, which comes first.                        *)
(* The layers are external: a layer passes the packet on, completes it, or *)
(* leaves it to its device, whose interrupt completes it later.            *)
(***************************************************************************)
EXTENDS Integers, Sequences, SequencesExt, FiniteSets, FiniteSetsExt

-----------------------------------------------------------------------------
(* The pool: a list of free elements whose head carries a tag that every   *)
(* change of it increments.  The tag has 48 bits; TagBound bounds the      *)
(* changes of a behaviour.                                                 *)

CONSTANTS Threads, Capacity, TagBound

NoIdx == Capacity   \* POOL_IDX_MAX
Elements == 0..(Capacity - 1)

VARIABLES
  free,            \* index and tag of the head
  next,            \* the links
  used,
  pc, head, link,  \* per thread: where it is, and its locals
  idx,             \*   element it allocates or frees
  own              \* per thread: elements it owns

poolVars == <<free, next, used, pc, head, link, idx, own>>

\* pool_init()
PoolInit ==
  /\ free = [idx |-> 0, tag |-> 0] /\ used = 0
  /\ next = [i \in Elements |-> i + 1]
  /\ pc = [t \in Threads |-> "run"] /\ head = [t \in Threads |-> free]
  /\ link = [t \in Threads |-> NoIdx] /\ idx = [t \in Threads |-> NoIdx]
  /\ own = [t \in Threads |-> {}]

Goto(t, from, to) == pc[t] = from /\ pc' = [pc EXCEPT ![t] = to]

\* pool_alloc(): the head is loaded; an empty pool has none to give.
AllocLoad(t) ==
  /\ free.idx # NoIdx /\ Goto(t, "run", "next")
  /\ head' = [head EXCEPT ![t] = free]
  /\ UNCHANGED <<free, next, used, link, idx, own>>

\* The link is read from an element that may no longer be free.
AllocNext(t) ==
  /\ Goto(t, "next", "take")
  /\ link' = [link EXCEPT ![t] = next[head[t].idx]]
  /\ UNCHANGED <<free, next, used, head, idx, own>>

AllocSwap(t) ==
  /\ free.tag < TagBound
  /\ IF free = head[t]
     THEN /\ Goto(t, "take", "count")
          /\ free' = [idx |-> link[t], tag |-> free.tag + 1]
          /\ own' = [own EXCEPT ![t] = @ \cup {head[t].idx}]
     ELSE Goto(t, "take", "run") /\ UNCHANGED <<free, own>>
  /\ UNCHANGED <<next, used, head, link, idx>>

AllocCount(t) ==
  /\ Goto(t, "count", "run") /\ used' = used + 1
  /\ UNCHANGED <<free, next, head, link, idx, own>>

\* pool_free(): the element points to the head that was loaded.
FreeLoad(t) ==
  /\ \/ pc[t] = "run" /\ \E i \in own[t] : idx' = [idx EXCEPT ![t] = i]
     \/ pc[t] = "again" /\ UNCHANGED idx
  /\ pc' = [pc EXCEPT ![t] = "link"]
  /\ head' = [head EXCEPT ![t] = free]
  /\ UNCHANGED <<free, next, used, link, own>>

FreeLink(t) ==
  /\ Goto(t, "link", "give")
  /\ next' = [next EXCEPT ![idx[t]] = head[t].idx]
  /\ UNCHANGED <<free, used, head, link, idx, own>>

FreeSwap(t) ==
  /\ free.tag < TagBound
  /\ IF free = head[t]
     THEN /\ Goto(t, "give", "uncount")
          /\ free' = [idx |-> idx[t], tag |-> free.tag + 1]
          /\ own' = [own EXCEPT ![t] = @ \ {idx[t]}]
     ELSE Goto(t, "give", "again") /\ UNCHANGED <<free, own>>
  /\ UNCHANGED <<next, used, head, link, idx>>

FreeCount(t) ==
  /\ Goto(t, "uncount", "run") /\ used' = used - 1
  /\ UNCHANGED <<free, next, head, link, idx, own>>

PoolNext == \E t \in Threads : AllocLoad(t) \/ AllocNext(t) \/ AllocSwap(t) \/ AllocCount(t)
                             \/ FreeLoad(t) \/ FreeLink(t) \/ FreeSwap(t) \/ FreeCount(t)


\* The elements on the free list, followed from its head.
Listed ==
  LET from[n \in 0..Capacity] ==
        IF n = 0 THEN {free.idx} \ {NoIdx}
        ELSE from[n - 1] \cup ({next[i] : i \in from[n - 1]} \ {NoIdx})
  IN from[Capacity]

\* The list is intact and no element is given out twice: each is either owned by one
\* thread or on the list, and the count of used ones is theirs once everybody is done.
PoolIntact ==
  /\ \A t \in Threads : own[t] \cap Listed = {}
       /\ \A u \in Threads \ {t} : own[t] \cap own[u] = {}
  /\ Elements = Listed \cup UNION {own[t] : t \in Threads}
  /\ used = Capacity - Cardinality(Listed)
              - Cardinality({t \in Threads : pc[t] = "count"})
              + Cardinality({t \in Threads : pc[t] = "uncount"})

-----------------------------------------------------------------------------
(* Memory descriptors.  A segment is a part of one page frame.             *)

CONSTANTS
  PageSize, MappedPages,  \* bytes of a page; pages of the process that are mapped
  SmallSegs               \* MDL_SEGS_SMALL_MAX: segments that need no allocation

PhysOf(page) == Max(MappedPages) - page         \* external: space_virt_to_phys()

\* mdl_init(); region is what the segments stand for (a ghost).
EmptyMdl == [segs |-> <<>>, region |-> <<>>]

\* mdl_add(): one segment for each page that the buffer touches, from its first byte on.
SegOf(addr, size, page) ==
  LET from == Max({addr, page * PageSize})
  IN [pfn |-> PhysOf(page), offset |-> from % PageSize,
      size |-> Min({addr + size, (page + 1) * PageSize}) - from]

PagesOf(addr, size) == [k \in 1..(((addr + size - 1) \div PageSize) - (addr \div PageSize) + 1) |->
                          (addr \div PageSize) + k - 1]

\* It stops at a page that is not mapped, or when mdl_push() cannot enlarge the array, which
\* it does by four; the segments that it has pushed stay.
StopsAt(mdl, pages, n) ==
  \/ n = Len(pages)
  \/ pages[n + 1] \notin MappedPages
  \/ Len(mdl.segs) + n >= SmallSegs /\ (Len(mdl.segs) + n - SmallSegs) % 4 = 0

Pushable(mdl, addr, size) ==
  {n \in 0..Len(PagesOf(addr, size)) :
     /\ StopsAt(mdl, PagesOf(addr, size), n)
     /\ \A k \in 1..n : PagesOf(addr, size)[k] \in MappedPages}

MdlPush(mdl, addr, size, n) ==
  LET segs == [k \in 1..n |-> SegOf(addr, size, PagesOf(addr, size)[k])]
  IN [segs |-> mdl.segs \o segs,
      region |-> mdl.region \o 
                   [k \in 1..SumFunction([j \in 1..n |-> segs[j].size]) |-> addr + k - 1]]

\* mdl_read() and mdl_write() find the segment of the offset, and go on segment by segment;
\* the bytes that they copy, as pairs of frame and offset.
SegBytes(seg, from, n) == [k \in 1..n |-> <<seg.pfn, seg.offset + from + k - 1>>]
Before(segs, i) == SumFunction([k \in 1..(i - 1) |-> segs[k].size])
CopySeg(c, seg) ==
  LET n == Min({c.left, seg.size - c.from})
  IN IF c.left = 0 THEN c
     ELSE [out |-> c.out \o SegBytes(seg, c.from, n), left |-> c.left - n, from |-> 0]

CopyFrom(segs, i, count, offset) ==
  FoldLeft(CopySeg, [out |-> <<>>, left |-> count, from |-> offset - Before(segs, i)],
           SubSeq(segs, i, Len(segs))).out

MdlCopy(mdl, count, offset) ==
  CopyFrom(mdl.segs,
           Min({Len(mdl.segs) + 1} \cup {i \in DOMAIN mdl.segs :
                                           Before(mdl.segs, i + 1) > offset}),
           count, offset)

-----------------------------------------------------------------------------
(* Packets.                                                                *)

CONSTANTS
  Irps, FrameMax,        \* packets of the pool, and IRP_FRAME_MAX
  Vnodes, Broken,        \* vnodes, and those that have no function for the request
  None,
  Buffers,               \* address and size of the buffers that are described
  MaxMdls                \* bound: descriptors of a packet

Agents == {"owner", "canceller", "interrupt"}
Frames == 0..(FrameMax - 1)

VARIABLES
  irps,              \* the packets
  active, procRefs,  \* packets in use, and the references to the process
  vnodeRefs,         \* references that frames hold
  agent,             \* what the thread that owns packets, the one that cancels them and the
                     \*   interrupts of device and timer do
  device,            \* packets that a device has
  owed, misrun       \* ghosts: frames whose routine is to run; one ran that was not

irpVars == <<irps, active, procRefs, vnodeRefs, agent, device, owed, misrun>>

Idle == [at |-> "idle", irp |-> None]
On(a, at, i) == agent' = [agent EXCEPT ![a] = [at |-> at, irp |-> i]]
Leave(a) == agent' = [agent EXCEPT ![a] = Idle]
At(a, at, i) == agent[a] = [at |-> at, irp |-> i]

\* irp_pool_new() clears the packets; irp_new() does not touch the frames.
IrpInit ==
  /\ irps = [i \in Irps |-> [used |-> FALSE, frame |-> FrameMax, cancel |-> "null",
                             queued |-> FALSE, timed |-> FALSE, err |-> "ok", mdl |-> <<>>,
                             raced |-> FALSE,
                             stack |-> [k \in Frames |-> [vnode |-> None, complete |-> FALSE]]]]
  /\ active = 0 /\ procRefs = 0 /\ vnodeRefs = [v \in Vnodes |-> 0]
  /\ agent = [a \in Agents |-> Idle] /\ device = {}
  /\ owed = [i \in Irps |-> {}] /\ misrun = FALSE

Change(i, irp) == irps' = [irps EXCEPT ![i] = irp]
Ref(refs, v) == [refs EXCEPT ![v] = @ + 1]
Unref(refs, v) == IF v = None THEN refs ELSE [refs EXCEPT ![v] = @ - 1]
Current(irp) == irp.stack[irp.frame]

\* IRP_CANCELLED; the model also remembers who left the mark.
Marked(irp) == irp.cancel \in Agents

New(i) ==
  /\ agent["owner"] = Idle /\ ~irps[i].used
  /\ \E timed \in BOOLEAN :
       Change(i, [irps[i] EXCEPT !.used = TRUE, !.frame = FrameMax, !.cancel = "null",
                    !.queued = FALSE, !.timed = timed, !.err = "ok", !.mdl = <<EmptyMdl>>])
  /\ active' = active + 1 /\ procRefs' = IF active = 0 THEN procRefs + 1 ELSE procRefs
  /\ On("owner", "setup", i)
  /\ UNCHANGED <<vnodeRefs, device, owed, misrun>>

\* irp_get_mdl(): the first descriptor of the chain that is empty, or a new one.
GetMdl(i) ==
  /\ At("owner", "setup", i)
  /\ \E buffer \in Buffers :
     \E chain \in {IF Last(irps[i].mdl).segs = <<>> THEN irps[i].mdl
                   ELSE Append(irps[i].mdl, EmptyMdl)} :
     \E n \in Pushable(Last(chain), buffer[1], buffer[2]) :
       /\ Len(chain) <= MaxMdls
       /\ Change(i, [irps[i] EXCEPT !.mdl =
                       Append(Front(chain), MdlPush(Last(chain), buffer[1], buffer[2], n))])
  /\ UNCHANGED <<active, procRefs, vnodeRefs, agent, device, owed, misrun>>

\* irp_call(): a vnode without the function ends the request.
Calling(i, irp, refs, v) ==
  IF v \in Broken
  THEN /\ Change(i, [irp EXCEPT !.frame = @ - 1, !.err = "error"])
       /\ vnodeRefs' = refs /\ On("owner", "complete", i)
  ELSE /\ Change(i, [irp EXCEPT !.frame = @ - 1, !.cancel = "null",
                                !.stack[irp.frame - 1].vnode = v])
       /\ vnodeRefs' = Ref(refs, v) /\ UNCHANGED agent

SetComplete(irp) == [irp EXCEPT !.stack[irp.frame - 1].complete = TRUE]
Calls(i) == At("owner", "setup", i) /\ irps[i].frame > 0

\* A layer calls the next one with a routine of its own: irp_set_complete(), irp_call().
Call(i, v) ==
  /\ Calls(i) /\ Calling(i, SetComplete(irps[i]), vnodeRefs, v)
  /\ owed' = [owed EXCEPT ![i] = @ \cup {irps[i].frame - 1}]
  /\ UNCHANGED <<active, procRefs, device, misrun>>

\* irp_set_complete(), irp_call_direct()
CallDirect(i) ==
  /\ Calls(i)
  /\ Change(i, [SetComplete(irps[i]) EXCEPT !.frame = @ - 1, !.cancel = "null",
                                            !.stack[irps[i].frame - 1].vnode = None])
  /\ vnodeRefs' = Unref(vnodeRefs, irps[i].stack[irps[i].frame - 1].vnode)
  /\ owed' = [owed EXCEPT ![i] = @ \cup {irps[i].frame - 1}]
  /\ UNCHANGED <<active, procRefs, agent, device, misrun>>

\* irp_copy_to_next(), irp_call(): the copy has no routine.
CopyCall(i, v) ==
  /\ Calls(i) /\ irps[i].frame < FrameMax
  /\ Calling(i, [irps[i] EXCEPT !.stack[irps[i].frame - 1] =
                   [vnode |-> None, complete |-> FALSE]],
             Unref(vnodeRefs, irps[i].stack[irps[i].frame - 1].vnode), v)
  /\ UNCHANGED <<active, procRefs, device, owed, misrun>>

\* irp_skip(), irp_call(): the next layer runs in the frame, and with the routine, of this one.
SkipCall(i, v) ==
  /\ At("owner", "setup", i) /\ irps[i].frame < FrameMax
  /\ Calling(i, [irps[i] EXCEPT !.stack[irps[i].frame].vnode = None, !.frame = @ + 1],
             Unref(vnodeRefs, Current(irps[i]).vnode), v)
  /\ UNCHANGED <<active, procRefs, device, owed, misrun>>

\* A layer is done at once, or leaves the packet to its device with a cancellation handler:
\* irp_set_cancel(), irp_timeout_add().
Done(i) ==
  /\ At("owner", "setup", i) /\ irps[i].frame < FrameMax
  /\ On("owner", "complete", i)
  /\ UNCHANGED <<irps, active, procRefs, vnodeRefs, device, owed, misrun>>

Pend(i) ==
  /\ At("owner", "setup", i) /\ irps[i].frame < FrameMax
  /\ IF Marked(irps[i])
     THEN Leave("owner") /\ UNCHANGED <<irps, device>>
     ELSE /\ Change(i, [irps[i] EXCEPT !.cancel = "handler"]) /\ device' = device \cup {i}
          /\ IF irps[i].timed THEN On("owner", "arm", i) ELSE Leave("owner")
  /\ UNCHANGED <<active, procRefs, vnodeRefs, owed, misrun>>

TimeoutAdd(i) ==
  /\ At("owner", "arm", i) /\ Change(i, [irps[i] EXCEPT !.queued = TRUE]) /\ Leave("owner")
  /\ UNCHANGED <<active, procRefs, vnodeRefs, device, owed, misrun>>

\* Ghost: the packet is ended between irp_set_cancel() and irp_timeout_add(), and its owner
\* will put a packet that may be free on the list of timeouts.
Raced(i) == irps[i].raced \/ At("owner", "arm", i)

\* irp_complete(): whoever finds that the packet is cancelled leaves it to the canceller.
Claim(a, i) ==
  IF Marked(irps[i]) THEN Leave(a) /\ UNCHANGED irps
  ELSE On(a, "unwind", i) /\ Change(i, [irps[i] EXCEPT !.cancel = "null", !.raced = Raced(i)])

Complete(a, i) ==
  /\ At(a, "complete", i) /\ Claim(a, i)
  /\ UNCHANGED <<active, procRefs, vnodeRefs, device, owed, misrun>>

\* The interrupt of the device; the driver's lock covers its list and the claim.
Interrupt(i) ==
  /\ agent["interrupt"] = Idle /\ i \in device /\ device' = device \ {i}
  /\ Claim("interrupt", i)
  /\ UNCHANGED <<active, procRefs, vnodeRefs, owed, misrun>>

\* irp_perform_completion(): one frame; its routine, if there is one, calls irp_complete().
Unwind(a, i) ==
  /\ At(a, "unwind", i) /\ irps[i].frame < FrameMax
  /\ Change(i, [irps[i] EXCEPT !.frame = @ + 1, !.stack[irps[i].frame].vnode = None,
                               !.queued = @ /\ irps[i].frame + 1 < FrameMax])
  /\ vnodeRefs' = Unref(vnodeRefs, Current(irps[i]).vnode)
  /\ owed' = [owed EXCEPT ![i] = @ \ {irps[i].frame}]
  /\ IF Current(irps[i]).complete
     THEN On(a, "complete", i) /\ misrun' = (misrun \/ irps[i].frame \notin owed[i])
     ELSE UNCHANGED <<agent, misrun>>
  /\ UNCHANGED <<active, procRefs, device>>

\* At the top the descriptors are released and the packet goes back to the pool, and only
\* then is the count of active ones lowered.
Free(a, i) ==
  /\ At(a, "unwind", i) /\ irps[i].frame = FrameMax
  /\ Change(i, [irps[i] EXCEPT !.used = FALSE, !.mdl = <<>>]) /\ On(a, "drop", i)
  /\ UNCHANGED <<active, procRefs, vnodeRefs, device, owed, misrun>>

Drop(a, i) ==
  /\ At(a, "drop", i) /\ Leave(a)
  /\ active' = active - 1 /\ procRefs' = IF active = 1 THEN procRefs - 1 ELSE procRefs
  /\ UNCHANGED <<irps, vnodeRefs, device, owed, misrun>>

\* irp_cancel() and irp_timeouts_check(): the handler is exchanged for the mark.  Without a
\* handler the mark is taken back by a store of its own, which may come so late that it
\* erases a handler, or the mark of another, that was left in between.
Exchange(a, i, irp, err) ==
  /\ Change(i, [irp EXCEPT !.cancel = IF Marked(irp) THEN @ ELSE a,
                           !.err = IF irp.cancel = "handler" THEN err ELSE @])
  /\ CASE Marked(irp) -> UNCHANGED agent
       [] irp.cancel = "null" -> On(a, "restore", i)
       [] irp.cancel = "handler" -> On(a, "handler", i)
  /\ UNCHANGED <<active, procRefs, vnodeRefs, device, owed, misrun>>

Cancel(i) ==
  /\ agent["canceller"] = Idle /\ irps[i].used
  /\ Exchange("canceller", i, [irps[i] EXCEPT !.raced = Raced(i)], "cancelled")

Expire(i) ==
  /\ agent["interrupt"] = Idle /\ irps[i].queued
  /\ Exchange("interrupt", i, [irps[i] EXCEPT !.queued = FALSE], "timedout")

Restore(a, i) ==
  /\ At(a, "restore", i) /\ Leave(a)
  /\ Change(i, [irps[i] EXCEPT !.cancel = "null", !.raced = @ \/ irps[i].cancel # a])
  /\ UNCHANGED <<active, procRefs, vnodeRefs, device, owed, misrun>>

\* The handler takes the packet from the device, or fails; it is completed in both cases.
\* A canceller has removed the timeout before.
Handler(a, i) ==
  /\ At(a, "handler", i) /\ On(a, "unwind", i)
  /\ Change(i, [irps[i] EXCEPT !.queued = @ /\ a # "canceller"])
  /\ \/ device' = device \ {i}
     \/ UNCHANGED device
  /\ UNCHANGED <<active, procRefs, vnodeRefs, owed, misrun>>

\* A behaviour ends with the first step of a race that irp.c does not exclude.
IrpNext ==
  /\ \A i \in Irps : ~irps[i].raced
  /\ \E i \in Irps :
       \/ New(i) \/ GetMdl(i) \/ Done(i) \/ Pend(i) \/ TimeoutAdd(i) \/ CallDirect(i)
       \/ \E v \in Vnodes : Call(i, v) \/ CopyCall(i, v) \/ SkipCall(i, v)
       \/ Interrupt(i) \/ Cancel(i) \/ Expire(i)
       \/ \E a \in Agents : Restore(a, i) \/ Handler(a, i)
       \/ \E a \in Agents : Complete(a, i) \/ Unwind(a, i) \/ Free(a, i) \/ Drop(a, i)

-----------------------------------------------------------------------------
\* Completion, cancellation and timeout of a packet exclude each other (irp.h:36 and :190): a
\* routine runs at most once, for the call that registered it, from the lowest frame up, and
\* nobody works on a packet that is back in the pool.  This holds until a packet is ended
\* before its owner has armed its timeout, or a canceller's late store erases what another
\* has left in the packet (raced).
CompletedOnce ==
  /\ ~misrun
  /\ \A i \in Irps :
       /\ \A k \in owed[i] : k >= irps[i].frame
       /\ ~irps[i].used => owed[i] = {} /\ ~irps[i].queued /\ i \notin device
       /\ \/ Cardinality({a \in Agents : agent[a].irp = i /\ agent[a].at # "restore"}) <= 1
          \/ \E a \in Agents : agent[a].irp = i /\ agent[a].at = "drop"
          \/ irps[i].raced
  /\ \A a \in Agents : agent[a].at \in {"setup", "arm", "complete", "unwind", "handler"}
                         => irps[agent[a].irp].used

\* A vnode is referenced once for every frame it is in, a frame that is left references none,
\* and the process is referenced while packets are active.
FramesCounted ==
  /\ \A v \in Vnodes :
       vnodeRefs[v] = Cardinality({f \in Irps \X Frames : irps[f[1]].stack[f[2]].vnode = v})
  /\ \A i \in Irps : \A k \in Frames : k < irps[i].frame => irps[i].stack[k].vnode = None
  /\ active = Cardinality({i \in Irps : irps[i].used})
                + Cardinality({a \in Agents : agent[a].at = "drop"})
  /\ procRefs = IF active > 0 THEN 1 ELSE 0

\* A descriptor stands for the bytes of the buffer, and a copy of any part of it touches
\* exactly the bytes of that part.
DescriptorsExact ==
  \A i \in Irps : \A n \in DOMAIN irps[i].mdl :
    LET mdl == irps[i].mdl[n]
        byte(k) == <<PhysOf(mdl.region[k] \div PageSize), mdl.region[k] % PageSize>>
        size == Len(mdl.region)
    IN \A offset \in 0..(size + 1), count \in 0..(size + 1) :
         MdlCopy(mdl, count, offset)
           = [k \in 1..Max({0, Min({count, size - offset})}) |-> byte(offset + k)]

\* No packet is forgotten: one that is in use is worked on, or a device has it.  irp_cancel()
\* breaks this: what it marked is completed by nobody but itself, and routines that it runs
\* find the mark.
NoneForgotten ==
  \A i \in Irps : irps[i].used => i \in device \/ \E a \in Agents : agent[a].irp = i
=============================================================================
