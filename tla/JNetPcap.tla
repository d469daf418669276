------------------------------- MODULE JNetPcap -------------------------------
(***************************************************************************)
(* The Java binding of libpcap (jni/jnetpcap): Pcap objects, the loops that *)
(* call a Java handler for every packet, and the native memory that Java    *)
(* objects point into.                                                      *)
(*                                                                          *)
(* A JMemory object has an address (physical), a length, a keeper - an      *)
(* object it holds so that the memory stays - and, when it allocated the    *)
(* memory itself, a JMemoryReference, the phantom reference through which   *)
(* the cleanup thread of DisposableGC frees it once the object is garbage.  *)
(* A PcapPacket is four such objects: itself (the packet data), its capture *)
(* header, its state (what the scanner found) and a private buffer.  A      *)
(* JHeader is two: the bytes of the header, and its entry of the state.     *)
(*                                                                          *)
(* Every thread of the application, the garbage collector, the finalizer    *)
(* and the cleanup thread take their steps in any order; a Pcap, a packet or *)
(* a header is used by one thread at a time (Pcap.java asks the application *)
(* to see to that), and breakloop() may be called by another thread.        *)
(***************************************************************************)
EXTENDS Integers, Sequences, FiniteSets, SequencesExt, Interfaces

CONSTANTS
  Pcaps,        \* Pcap objects
  Packets,      \* PcapPacket objects
  Views,        \* JHeader objects
  Kinds,        \* what a Pcap is opened on
  Caplen,       \* Caplen[k]: the captured length of the k-th packet
  Callbacks,    \* the callbacks that are tried
  Counts,       \* the counts that are asked for
  Machines,     \* the machines findAllDevs may meet (see Interfaces)
  HeaderSize,   \* sizeof(pcap_pkthdr)
  StateSize,    \* the size of a scanned packet_state_t with its headers
  MaxCopy,      \* the 1 MB of transferToNewBuffer
  BlockSize,    \* the size of a block of JMemoryPool
  Blocks,       \* the places malloc can give: the limit of direct memory
  MaxCopies,    \* bound: copies the application makes
  MaxFaults     \* bound: allocations and Java objects that are refused

ASSUME SizesAssumption ==
  /\ HeaderSize \in Nat \ {0} /\ StateSize \in Nat \ {0}
  /\ Caplen \in Seq(Nat \ {0})

ASSUME KindsAssumption ==
  /\ Kinds \subseteq {"offline", "live", "batch", "dead"}
  /\ Callbacks \subseteq {"handler", "bytes", "jbuffer", "packet", "dumper"}
  /\ Counts \subseteq (Nat \ {0}) \union {-1}

\* 0 stands for no block, and for no packet.
ASSUME BlocksAssumption == 0 \notin Blocks
ASSUME PacketsAssumption == 0 \notin Packets

VARIABLES
  pcap,    \* Pcaps -> state of the Pcap object and of its pcap_t
  mem,     \* JMemory objects -> their fields
  heap,    \* blocks -> what malloc gave
  held,    \* Packets -> the packet the application counts on; 0 when it
           \* counts on nothing, -1 when it does not hold the object
  view,    \* Views -> is it held, of which PcapPacket, showing which packet
  pool,    \* the current block of JMemoryPool and how much of it is used
  copies,  \* copies so far
  queue,   \* blocks whose reference the collector has enqueued
  call,    \* the dispatch() or loop() that is running
  frames,  \* packets libpcap has taken so far
  ring,    \* the packet whose state lies at the current place of the scanner
  found,   \* what findAllDevs made of the list of interfaces
  dumper,  \* the PcapDumper object
  faults,  \* refusals so far
  last     \* what the step just taken must not have done

vars == <<pcap, mem, heap, held, view, pool, queue, call, frames, ring,
          copies, found, dumper, faults, last>>

-----------------------------------------------------------------------------
(* Addresses: of a block of the heap, of the memory of a pcap_t (its capture *)
(* header at 0, the packet at 1), of the stack of libpcap's read function    *)
(* (the header it shows a callback), or of the ring of the thread's scanner. *)

NULL == <<"null", 0, 0>>
None == <<"none", 0>>
Scanner == <<"scanner", 0>>

header(n) == <<"header", n>>
data(n) == <<"data", n>>
state(n) == <<"state", n>>
memory(n) == <<"memory", n>>

Parts(n) == {header(n), data(n), state(n), memory(n)}
ViewParts(v) == {<<"view", v>>, <<"vstate", v>>}

JMemory == (UNION {Parts(n) : n \in Packets})
           \union (UNION {ViewParts(v) : v \in Views})
           \union {<<"block", b>> : b \in Blocks}

Fresh == [at |-> NULL, size |-> 0, keeper |-> None, ref |-> 0]
NoCall == [on |-> FALSE, p |-> 0, kind |-> "none", left |-> 0, once |-> FALSE,
           any |-> FALSE, batch |-> 0, work |-> 0, pending |-> "none"]
Free == [live |-> FALSE, size |-> 0, text |-> {}]
NotFound ==
  [machine |-> <<>>, result |-> "none", native |-> <<>>, list |-> <<>>, freed |-> FALSE]
NoPcap == [physical |-> FALSE, native |-> "none", kind |-> "none", held |-> FALSE,
           break |-> FALSE, holds |-> 0]
Unheld == [held |-> FALSE, of |-> 0, from |-> 0, shows |-> 0]

Init ==
  /\ pcap = [p \in Pcaps |-> NoPcap]
  /\ mem = [o \in JMemory |-> Fresh]
  /\ heap = [b \in Blocks |-> Free]
  /\ held = [n \in Packets |-> -1]
  /\ view = [v \in Views |-> Unheld]
  /\ pool = [block |-> 0, current |-> 0]
  /\ copies = 0
  /\ queue = {}
  /\ call = NoCall
  /\ frames = 0
  /\ ring = 0
  /\ found = NotFound
  /\ dumper = "none"
  /\ faults = 0
  /\ last = "none"

-----------------------------------------------------------------------------
(* The memory of JMemory objects.  An operator takes the world w - the       *)
(* objects and the heap - and returns the one it leaves.                     *)

World == [mem |-> mem, heap |-> heap]

disposeNative0(h, b) == IF b = 0 THEN h ELSE [h EXCEPT ![b] = Free]

cleanup_Keeps(w, o) == [w EXCEPT !.mem[o] = Fresh]

cleanup(w, o) ==
  [mem |-> [w.mem EXCEPT ![o] = Fresh],
   heap |-> disposeNative0(w.heap, w.mem[o].ref)]

peer0(w, o, at, len, keeper) ==
  LET c == IF w.mem[o].at # at THEN cleanup(w, o) ELSE w
  IN  [c EXCEPT !.mem[o].at = at, !.mem[o].size = len, !.mem[o].keeper = keeper]

setJMemoryPhysical(w, o, at) ==
  LET c == cleanup(w, o) IN [c EXCEPT !.mem[o].at = at]

Shift(at, off) == <<at[1], at[2], at[3] + off>>

peer(w, o, q, off, len) ==
  peer0(w, o, Shift(w.mem[q].at, off), len, w.mem[q].keeper)

\* malloc may give any place that is free, also one that was used before.
malloc(b) == ~heap[b].live
Full == \A b \in Blocks : heap[b].live

allocate(w, o, b, len) ==
  [mem |-> [w.mem EXCEPT ![o] =
              [at |-> <<"heap", b, 0>>, size |-> len, keeper |-> o, ref |-> b]],
   heap |-> [w.heap EXCEPT ![b] = [live |-> TRUE, size |-> len, text |-> {}]]]

\* Bytes of packet k are copied to an address: what they overlap is gone.
memcpy(w, at, len, k) ==
  [w EXCEPT !.heap[at[2]].text =
     {e \in @ : e.off + e.len <= at[3] \/ at[3] + len <= e.off}
     \union {[off |-> at[3], len |-> len, of |-> k]}]

\* The packet whose bytes are read through an object; -1 for NULL, 0 for
\* memory that holds nothing of a packet any more.
Read(o) ==
  LET at == mem[o].at
  IN  CASE at = NULL -> -1
        [] at[1] = "heap" ->
             IF heap[at[2]].live
                /\ \E e \in heap[at[2]].text : e.off = at[3]
             THEN (CHOOSE e \in heap[at[2]].text : e.off = at[3]).of ELSE 0
        [] at[1] = "pcap" ->
             IF pcap[at[2]].native = "active" THEN pcap[at[2]].holds ELSE 0
        [] at[1] = "ring" -> ring
        [] OTHER -> 0

getByte(n) == Read(data(n))
hdr_caplen(n) == Read(header(n))
getHeaderCount(n) == Read(state(n))
getOffset(v) == Read(<<"vstate", v>>)

-----------------------------------------------------------------------------
(* What the collector may not take.                                          *)

Links(o) ==
  CASE o[1] = "pcap" -> {}
    [] o[1] = "data" -> Parts(o[2]) \union {mem[o].keeper}
    [] o[1] = "view" -> ViewParts(o[2]) \union {mem[o].keeper}
                        \union {data(n) : n \in Packets \intersect {view[o[2]].of}}
    [] OTHER -> {mem[o].keeper}

Held(S) == (S \union UNION {Links(o) : o \in S}) \ {None, Scanner}

Reachable ==
  Held(Held(Held(Held(
    {data(n) : n \in {m \in Packets : held[m] >= 0 \/ m = call.work}}
    \union {<<"view", v>> : v \in {x \in Views : view[x].held}}
    \union {<<"block", b>> : b \in Blocks \intersect {pool.block}}
    \union {<<"pcap", p>> : p \in {q \in Pcaps : pcap[q].held \/ q = call.p}}))))

FreePackets ==
  {n \in Packets : /\ held[n] = -1 /\ n # call.work
                   /\ \A o \in Parts(n) : mem[o] = Fresh
                   /\ \A v \in Views : view[v].from # n}
FreeViews == {v \in Views : ~view[v].held /\ \A o \in ViewParts(v) : mem[o] = Fresh}

-----------------------------------------------------------------------------
(* The Pcap object: the pointer in its field, and the pcap_t behind it.      *)

getPcap(p) == pcap[p].physical

\* The application may use p: no thread is in a loop on it.
Mine(p) == pcap[p].held /\ ~(call.on /\ call.p = p)

SamePackets == UNCHANGED <<mem, heap, held, view, pool, queue, ring>>

\* A native method that passes the pointer to libpcap: it throws
\* PcapClosedException when the pointer is cleared, and must not meet a pcap_t
\* that is freed.
Usable(p) == getPcap(p) /\ pcap[p].native # "freed"
Use(p) == IF getPcap(p) /\ pcap[p].native = "freed" THEN "stale" ELSE "none"

newPcap(p, native, kind) ==
  pcap' = [pcap EXCEPT ![p] = [physical |-> TRUE, native |-> native, kind |-> kind,
                               held |-> TRUE, break |-> FALSE, holds |-> 0]]

\* The application opens its Pcaps one after the other.
Opened(p, native, kind) ==
  /\ pcap[p] = NoPcap /\ \A q \in Pcaps : q < p => pcap[q] # NoPcap
  /\ newPcap(p, native, kind) \/ UNCHANGED pcap    \* libpcap may fail
  /\ found' = NotFound /\ last' = "none"
  /\ SamePackets /\ UNCHANGED <<call, frames, copies, dumper, faults>>

openLive(p) ==
  \E kind \in Kinds \intersect {"live", "batch"} : Opened(p, "active", kind)
openDead(p) == "dead" \in Kinds /\ Opened(p, "active", "dead")
openOffline(p) == "offline" \in Kinds /\ Opened(p, "active", "offline")
create(p) == "batch" \in Kinds /\ Opened(p, "created", "batch")

\* Bound: what shares no memory with packets is tried while there are none.
Apart == \A o \in JMemory : mem[o] = Fresh

\* A native method that asks libpcap something and changes nothing here.
Asked(p) ==
  /\ Mine(p) /\ Apart
  /\ last' = Use(p)
  /\ SamePackets /\ UNCHANGED <<pcap, call, frames, found, copies, dumper, faults>>

datalink(p) == Asked(p)
setNonBlock(p) == Asked(p)
setDatalink(p) == Asked(p)
majorVersion(p) == Asked(p)
stats(p) == Asked(p)
sendPacket(p) == Asked(p)

\* Settings only count before activation (pcap_check_activated).
setSnaplen(p) == Asked(p)

activate(p) ==
  /\ Mine(p)
  /\ last' = Use(p)
  /\ pcap' = IF Usable(p) /\ pcap[p].native = "created"
             THEN [pcap EXCEPT ![p].native = "active"] ELSE pcap
  /\ SamePackets /\ UNCHANGED <<call, frames, found, copies, dumper, faults>>

Closed(p) == [pcap EXCEPT ![p].physical = FALSE, ![p].native = "freed",
                          ![p].break = FALSE, ![p].holds = 0]

\* A packet the application only borrows: part of it is libpcap's memory or the
\* scanner's.  It is good until something else is done with them.
Foreign(at) == at[1] \in {"pcap", "stack", "ring"}
Borrowed(n) == \E o \in Parts(n) : Foreign(mem[o].at)

Returned == [n \in Packets |-> IF held[n] > 0 /\ Borrowed(n) THEN 0 ELSE held[n]]

\* The application lets go of the headers and buffers on packets it overwrites,
\* and of those on memory it only borrows.
Blank(S) ==
  [v \in Views |->
     IF view[v].from \in S \/ \E o \in ViewParts(v) : Foreign(mem[o].at)
     THEN Unheld ELSE view[v]]

close(p) ==
  /\ Mine(p)
  /\ last' = Use(p)
  /\ IF Usable(p)
     THEN pcap' = Closed(p) /\ held' = Returned /\ view' = Blank({})
     ELSE UNCHANGED <<pcap, held, view>>
  /\ UNCHANGED <<mem, heap, pool, queue, ring, call, frames, found, copies, dumper, faults>>

\* Another thread may call it while the loop runs; a call that comes before the
\* loop is like one that comes before its first packet.
breakloop(p) ==
  /\ pcap[p].held /\ (call.on \/ Apart)
  /\ last' = Use(p)
  /\ pcap' = IF Usable(p) THEN [pcap EXCEPT ![p].break = TRUE] ELSE pcap
  /\ SamePackets /\ UNCHANGED <<call, frames, found, copies, dumper, faults>>

dumpOpen(p) ==
  /\ Mine(p) /\ Apart /\ dumper = "none"
  /\ last' = Use(p)
  /\ dumper' \in IF Usable(p) THEN {"open", "none"} ELSE {"none"}
  /\ SamePackets /\ UNCHANGED <<pcap, call, frames, found, copies, faults>>

dumperClose ==
  /\ dumper # "none" /\ call.kind # "dumper"
  /\ dumper' = "closed"
  /\ last' = "none"
  /\ SamePackets /\ UNCHANGED <<pcap, call, frames, found, copies, faults>>

-----------------------------------------------------------------------------
(* dispatch() and loop().  The read function of libpcap takes packets one at *)
(* a time, the one of a TPACKET_V3 ring in batches; it looks at the break    *)
(* flag before it takes any.                                                 *)

\* The header and data objects a call lends to its callback.
Begin(p, kind, cnt, once) ==
  /\ ~call.on /\ pcap[p].held /\ pcap[p].kind # "dead"
  /\ kind = "dumper" => dumper # "none"
  /\ IF kind \in {"jbuffer", "packet"} THEN dumper = "none" ELSE Apart
  /\ LET lends == kind \in {"bytes", "jbuffer", "packet"}
         ready == /\ Usable(p) /\ pcap[p].native = "active"
                  /\ kind = "dumper" => dumper = "open"
     IN  /\ last' = Use(p)
         /\ \E n \in (IF lends /\ ready THEN FreePackets ELSE {0}) :
              call' = IF ready
                      THEN [NoCall EXCEPT !.on = TRUE, !.p = p, !.kind = kind,
                                          !.left = cnt, !.once = once, !.work = n]
                      ELSE NoCall
  /\ SamePackets /\ UNCHANGED <<pcap, frames, found, copies, dumper, faults>>

dispatch(p) ==
  \E kind \in Callbacks \ {"dumper"}, cnt \in Counts : Begin(p, kind, cnt, TRUE)
loop(p) ==
  \E kind \in Callbacks \ {"dumper"}, cnt \in Counts : Begin(p, kind, cnt, FALSE)
dumperLoop(p) ==
  \E cnt \in Counts, once \in BOOLEAN : Begin(p, "dumper", cnt, once)

\* The native method returns; an exception that is pending is thrown.
Return(clear) ==
  /\ pcap' = [pcap EXCEPT ![call.p].break = @ /\ ~clear]
  /\ call' = NoCall
  /\ last' = "none"
  /\ SamePackets /\ UNCHANGED <<frames, found, copies, dumper, faults>>

\* The bound on packets, counting those of a batch that is under way.
More == frames + call.batch < Len(Caplen)

\* Between two packets, or batches, of pcap_loop and pcap_dispatch.
pcap_dispatch ==
  /\ call.on /\ call.batch = 0
  /\ LET c == pcap[call.p]
     IN  \/ call.left = 0 /\ Return(FALSE)
         \/ /\ call.left # 0 /\ c.break
            /\ Return(~(call.once /\ call.any))
         \/ /\ call.left # 0 /\ ~c.break /\ c.kind = "offline" /\ ~More
            /\ Return(FALSE)
         \/ /\ call.left # 0 /\ ~c.break /\ c.kind # "offline" /\ call.once
            /\ Return(FALSE)                      \* the read timeout expired
         \/ /\ call.left # 0 /\ ~c.break /\ More
            /\ \E b \in 1..(IF c.kind = "batch" THEN 2 ELSE 1) :
                 /\ call.left > 0 => b <= call.left
                 /\ frames + b <= Len(Caplen)
                 /\ call' = [call EXCEPT !.batch = b]
            /\ last' = "none"
            /\ SamePackets /\ UNCHANGED <<pcap, frames, found, copies, dumper, faults>>

\* Counting of the read function: a live dispatch ends with its batch.
Counted ==
  [call EXCEPT !.batch = @ - 1, !.any = TRUE,
               !.left = CASE call.once /\ pcap[call.p].kind # "offline" /\ call.batch = 1 -> 0
                          [] @ > 0 -> @ - 1
                          [] OTHER -> @]

\* The next packet is in the pcap_t; exc is the exception its callback leaves
\* behind, brk whether it called pcap_breakloop.
Taken(exc, brk, outcome) ==
  /\ frames' = frames + 1
  /\ pcap' = [pcap EXCEPT ![call.p].holds = frames + 1, ![call.p].break = @ \/ brk]
  /\ call' = [Counted EXCEPT !.pending = IF call.pending = "none" THEN exc ELSE @]
  /\ last' = outcome
  /\ UNCHANGED <<pool, queue, found, copies, dumper>>

\* How a Java handler may end: the exception stays pending, and the callback
\* breaks the loop.
Handled ==
  \/ Taken("none", FALSE, "none")
  \/ Taken("handler", TRUE, "none")

\* Java is called although an exception is pending, which JNI forbids: what
\* follows is not looked at.
Forbidden == Taken("none", FALSE, "pending")

\* Java has no room for an object.
Refused == faults < MaxFaults /\ faults' = faults + 1

pcap_callback ==
  /\ call.kind = "handler" /\ call.batch > 0
  /\ \/ call.pending # "none" /\ Taken("none", FALSE, "none") /\ UNCHANGED faults
     \/ call.pending = "none" /\ Taken("buffer", FALSE, "none") /\ Refused
     \/ call.pending = "none" /\ Handled /\ UNCHANGED faults
  /\ held' = Returned /\ view' = Blank({})
  /\ UNCHANGED <<mem, heap, ring>>

\* What a callback stores in the objects the call lends.
Lent(w) == mem' = w.mem /\ heap' = w.heap

cb_byte_buffer_dispatch ==
  /\ call.kind = "bytes" /\ call.batch > 0
  /\ \/ /\ call.pending # "none" /\ Forbidden
        /\ UNCHANGED <<mem, heap, faults>>
     \/ /\ call.pending = "none"
        /\ Lent(setJMemoryPhysical(World, header(call.work), <<"stack", call.p, 0>>))
        /\ \/ Taken("buffer", FALSE, "none") /\ Refused
           \/ Handled /\ UNCHANGED faults
  /\ held' = Returned /\ view' = Blank({})
  /\ UNCHANGED ring

jmemoryPeer(w, o, at, len, keeper) == peer0(w, o, at, len, keeper)

Peered(k) ==
  jmemoryPeer(jmemoryPeer(World, header(call.work), <<"stack", call.p, 0>>, HeaderSize,
                          <<"pcap", call.p>>),
              data(call.work), <<"pcap", call.p, 1>>, Caplen[k], <<"pcap", call.p>>)

\* The handler may keep the objects, although their bytes will change.
cb_jbuffer_dispatch ==
  /\ call.kind = "jbuffer" /\ call.batch > 0 /\ UNCHANGED faults
  /\ \/ /\ call.pending # "none" /\ Forbidden
        /\ held' = Returned
        /\ UNCHANGED <<mem, heap>>
     \/ /\ call.pending = "none"
        /\ Lent(Peered(frames + 1))
        /\ Handled
        /\ \E keep \in BOOLEAN :
             held' = [Returned EXCEPT ![call.work] = IF keep THEN 0 ELSE @]
  /\ view' = Blank({})
  /\ UNCHANGED ring

copySize(k) == Caplen[k] + StateSize + HeaderSize

\* The header owns the new block; data and state lie behind it.
transferToNewBuffer(w, n, b, k) ==
  LET a == allocate(w, header(n), b, copySize(k))
      at == HeaderSize + Caplen[k] + (Caplen[k] % 8)
      h == [memcpy(a, <<"heap", b, 0>>, HeaderSize, k) EXCEPT !.mem[header(n)].size = HeaderSize]
      d == jmemoryPeer(memcpy(h, <<"heap", b, HeaderSize>>, Caplen[k], k),
                       data(n), <<"heap", b, HeaderSize>>, Caplen[k], header(n))
  IN  jmemoryPeer(memcpy(d, <<"heap", b, at>>, StateSize, k),
                  state(n), <<"heap", b, at>>, StateSize, header(n))

\* scan: the state is peered with the scanner's memory.
scan(w, n) == jmemoryPeer(w, state(n), <<"ring", 0, 0>>, StateSize, Scanner)

cb_pcap_packet_dispatch ==
  /\ call.kind = "packet" /\ call.batch > 0 /\ UNCHANGED faults
  /\ \/ /\ call.pending # "none" /\ Forbidden
        /\ held' = Returned
        /\ UNCHANGED <<mem, heap, ring>>
     \/ /\ call.pending = "none"
        /\ ring' = frames + 1
        /\ \/ /\ copySize(frames + 1) > MaxCopy \/ FreePackets = {} \/ Full
              /\ Lent(scan(Peered(frames + 1), call.work))
              /\ Taken("copy", TRUE, "none") /\ held' = Returned
           \/ \E n \in FreePackets, b \in Blocks :
                /\ copySize(frames + 1) <= MaxCopy /\ malloc(b)
                /\ Lent(transferToNewBuffer(scan(Peered(frames + 1), call.work),
                                            n, b, frames + 1))
                /\ Handled
                /\ held' = [Returned EXCEPT ![n] = frames + 1]
  /\ view' = Blank({})

cb_pcap_dumper_handler ==
  /\ call.kind = "dumper" /\ call.batch > 0
  /\ Taken("none", FALSE, IF dumper = "open" THEN "none" ELSE "stale")
  /\ held' = Returned /\ view' = Blank({})
  /\ UNCHANGED <<mem, heap, ring, faults>>

-----------------------------------------------------------------------------
(* next() and nextEx(): the objects show libpcap's memory, with no keeper.   *)

Readable(p) == /\ Mine(p) /\ pcap[p].kind # "dead" /\ dumper = "none"
               /\ ~Usable(p) \/ pcap[p].native = "active"

Got(p) == /\ frames' = frames + 1
          /\ pcap' = [pcap EXCEPT ![p].holds = frames + 1]
          /\ last' = "none"

\* No packet: the end of the file, the read timeout, or a broken loop.
Nothing(p) ==
  /\ ~Usable(p) \/ pcap[p].break \/ pcap[p].kind # "offline" \/ ~More
  /\ pcap' = [pcap EXCEPT ![p].break = FALSE]
  /\ last' = Use(p)
  /\ UNCHANGED frames

\* The objects of packet n the application has, or those of a new one.  What a
\* running call lends is no place to read or copy another packet into.
Has(n) == (held[n] >= 0 /\ n # call.work) \/ n \in FreePackets

nextEx(p, n) ==
  /\ Readable(p) /\ Has(n)
  /\ \/ /\ Usable(p) /\ ~pcap[p].break /\ More /\ Got(p)
        /\ LET h == setJMemoryPhysical(World, header(n), <<"pcap", p, 0>>)
               d == setJMemoryPhysical(h, data(n), <<"pcap", p, 1>>)
               s == [d EXCEPT !.mem[header(n)].size = HeaderSize,
                              !.mem[data(n)].size = Caplen[frames + 1]]
           IN  Lent(scan(s, n))
        /\ ring' = frames + 1
        /\ held' = [Returned EXCEPT ![n] = frames + 1]
        /\ view' = Blank({n})
     \/ /\ Nothing(p)
        /\ mem[data(n)].at # NULL /\ Usable(p)
        /\ Lent(scan(World, n))                   \* it is scanned all the same
        /\ ring' = getByte(n)
        /\ held' = Returned /\ view' = Blank({})
     \/ /\ Nothing(p)
        /\ mem[data(n)].at = NULL \/ ~Usable(p)
        /\ UNCHANGED <<mem, heap, ring, held, view>>
  /\ UNCHANGED <<pool, queue, call, found, copies, dumper, faults>>

\* libpcap copies the capture header into the memory the header must have.
next(p, n) ==
  /\ Readable(p) /\ Has(n)
  /\ mem[header(n)].at = NULL \/ mem[header(n)].at[1] = "heap"
  /\ \/ /\ Usable(p) /\ mem[header(n)].at # NULL
        /\ ~pcap[p].break /\ More /\ Got(p)
        /\ LET c == memcpy(World, mem[header(n)].at, HeaderSize, frames + 1)
               d == setJMemoryPhysical(c, data(n), <<"pcap", p, 1>>)
           IN  Lent([d EXCEPT !.mem[data(n)].size = Caplen[frames + 1]])
        /\ held' = [Returned EXCEPT ![n] = 0]
        /\ view' = Blank({n})
     \/ /\ Nothing(p) /\ mem[header(n)].at # NULL
        /\ held' = Returned /\ view' = Blank({})
        /\ UNCHANGED <<mem, heap>>
     \/ /\ mem[header(n)].at = NULL
        /\ last' = Use(p)
        /\ UNCHANGED <<pcap, frames, mem, heap, held, view>>
  /\ UNCHANGED <<ring, pool, queue, call, found, copies, dumper, faults>>

\* The variants with a PcapPktHdr copy the header into Java fields and wrap the
\* packet in a ByteBuffer.
nextPktHdr(p) ==
  /\ Readable(p)
  /\ \/ Usable(p) /\ ~pcap[p].break /\ More /\ Got(p)
     \/ Nothing(p)
  /\ held' = Returned /\ view' = Blank({})
  /\ UNCHANGED <<mem, heap, ring, pool, queue, call, found, copies, dumper, faults>>

-----------------------------------------------------------------------------
(* What the application does with packets, in any thread.                    *)

\* getHeaderByIndex: a JHeader is peered with a header of the packet; it holds
\* the packet object (setPacket).
peerHeaderByIndex(v, n) ==
  /\ held[n] > 0 /\ (view[v].held \/ v \in FreeViews)
  /\ LET s == setJMemoryPhysical(World, <<"vstate", v>>, mem[state(n)].at)
     IN  Lent(peer(s, <<"view", v>>, data(n), 0, 1))
  /\ view' = [view EXCEPT ![v] = [held |-> TRUE, of |-> n, from |-> n, shows |-> held[n]]]
  /\ last' = "none"
  /\ UNCHANGED <<pcap, held, pool, queue, call, frames, ring, found, copies, dumper, faults>>

\* JBuffer.peer: a buffer on the bytes of the packet; it knows the packet by its
\* keeper only.
peerBuffer(v, n) ==
  /\ held[n] > 0 /\ v \in FreeViews
  /\ Lent(peer(World, <<"view", v>>, data(n), 0, 1))
  /\ view' = [view EXCEPT ![v] = [held |-> TRUE, of |-> 0, from |-> n, shows |-> held[n]]]
  /\ last' = "none"
  /\ UNCHANGED <<pcap, held, pool, queue, call, frames, ring, found, copies, dumper, faults>>

\* Block.allocate of JMemoryPool.
Padded(size) == size + (size % 4)
Advance_Not(pl, size) == pl
Advance(pl, size) == [pl EXCEPT !.current = @ + Padded(size)]

Room(size) == pool.block # 0 /\ pool.current + Padded(size) <= heap[pool.block].size

newBlock(size) == IF Padded(size) > BlockSize THEN Padded(size) ELSE BlockSize

\* The copy into the memory of packet d: header, state, then data.
Filled(w, d, k) ==
  LET at == w.mem[memory(d)].at
      h == peer(memcpy(w, at, HeaderSize, k), header(d), memory(d), 0, HeaderSize)
      s == memcpy(peer(h, state(d), memory(d), HeaderSize, StateSize),
                  Shift(at, HeaderSize), StateSize, k)
      o == HeaderSize + StateSize
  IN  memcpy(peer(s, data(d), memory(d), o, Caplen[k]), Shift(at, o), Caplen[k], k)

Copied(n, d) ==
  /\ held' = [held EXCEPT ![d] = held[n]]
  /\ view' = Blank({d})
  /\ last' = "none"

\* new PcapPacket(packet), or transferStateAndDataTo another packet: into the
\* memory d has if that is large enough, else into memory of the pool.
transferStateAndDataTo(n, d) ==
  /\ n # d /\ held[n] > 0 /\ Has(d) /\ copies < MaxCopies /\ copies' = copies + 1
  /\ \/ /\ mem[memory(d)].at # NULL /\ mem[memory(d)].size >= copySize(held[n])
        /\ Lent(Filled(World, d, held[n])) /\ Copied(n, d)
        /\ UNCHANGED pool
     \/ /\ mem[memory(d)].at = NULL \/ mem[memory(d)].size < copySize(held[n])
        /\ Room(copySize(held[n]))
        /\ Lent(Filled(peer(World, memory(d), <<"block", pool.block>>, pool.current,
                            copySize(held[n])), d, held[n]))
        /\ pool' = Advance(pool, copySize(held[n])) /\ Copied(n, d)
     \/ /\ mem[memory(d)].at = NULL \/ mem[memory(d)].size < copySize(held[n])
        /\ ~Room(copySize(held[n]))
        /\ \E b \in Blocks :
             LET w == allocate(World, <<"block", b>>, b, newBlock(copySize(held[n])))
             IN  /\ malloc(b)
                 /\ Lent(Filled(peer(w, memory(d), <<"block", b>>, 0, copySize(held[n])),
                                d, held[n]))
                 /\ pool' = Advance([block |-> b, current |-> 0], copySize(held[n]))
        /\ Copied(n, d)
     \/ /\ mem[memory(d)].at = NULL \/ mem[memory(d)].size < copySize(held[n])
        /\ ~Room(copySize(held[n])) /\ Full       \* OutOfMemoryError
        /\ last' = "none"
        /\ UNCHANGED <<mem, heap, held, view, pool>>
  /\ UNCHANGED <<pcap, queue, call, frames, ring, found, dumper, faults>>

\* The application lets go of an object.
Dropped == UNCHANGED <<mem, heap, pool, queue, call, frames, ring, found, copies, dumper, faults>>

DropPacket(n) ==
  /\ held[n] >= 0 /\ held' = [held EXCEPT ![n] = -1] /\ last' = "none"
  /\ UNCHANGED <<pcap, view>> /\ Dropped
DropView(v) ==
  /\ view[v].held /\ view' = [view EXCEPT ![v] = Unheld] /\ last' = "none"
  /\ UNCHANGED <<pcap, held>> /\ Dropped
DropPcap(p) ==
  /\ Mine(p) /\ pcap' = [pcap EXCEPT ![p].held = FALSE] /\ last' = "none"
  /\ held' = Returned /\ view' = Blank({}) /\ Dropped

-----------------------------------------------------------------------------
(* The collector, the finalizer and the cleanup thread of DisposableGC.      *)

Garbage == {o \in JMemory : mem[o] # Fresh} \ Reachable

Collect ==
  /\ Garbage # {}
  /\ queue' = queue \union ({mem[o].ref : o \in Garbage} \ {0})
  /\ mem' = [o \in JMemory |-> IF o \in Garbage THEN Fresh ELSE mem[o]]
  /\ last' = "none"
  /\ UNCHANGED <<pcap, heap, held, view, pool, call, frames, ring, found, copies, dumper, faults>>

\* drainRefQueueLoop takes a reference and frees its block.
Dispose(b) ==
  /\ b \in queue
  /\ queue' = queue \ {b}
  /\ heap' = disposeNative0(heap, b)
  /\ last' = "none"
  /\ UNCHANGED <<pcap, mem, held, view, pool, call, frames, ring, found, copies, dumper, faults>>

\* Pcap.finalize closes what is still open.
Finalize(p) ==
  /\ pcap[p] # NoPcap /\ <<"pcap", p>> \notin Reachable /\ pcap[p].physical
  /\ pcap' = Closed(p)
  /\ last' = Use(p)
  /\ SamePackets /\ UNCHANGED <<call, frames, found, copies, dumper, faults>>

-----------------------------------------------------------------------------
(* findAllDevs.  It shares nothing with the rest and is called first.        *)

\* The bytes of the sockaddr that become the address: where, and how many.
newPcapSockAddr(family) ==
  CASE family = "AF_INET" -> <<4, 4>>
    [] family = "AF_INET6" -> <<8, 16>>
    [] OTHER -> <<4, 14>>

\* Both recursions add the successors of an element before the element.
newPcapAddr(addresses) ==
  Reverse([i \in DOMAIN addresses |->
    [a \in DOMAIN addresses[i] |->
       IF a = "addr" \/ addresses[i][a] THEN newPcapSockAddr("AF_INET") ELSE <<>>]])

newPcapIf(native, i) ==
  [name |-> native[i].name, next |-> IF i < Len(native) THEN native[i + 1].name ELSE <<>>,
   addresses |-> newPcapAddr(native[i].addresses)]

\* The Java list when the elements after i have been added.
ListAfter(i, native) ==
  [j \in 1..(Len(native) - i) |-> newPcapIf(native, Len(native) + 1 - j)]

\* What a call makes of machine m; the list of libpcap is freed but when the Java
\* virtual machine has no memory for element i or the list does not take it.
Found(m, result, i, native) ==
  [machine |-> <<m>>, result |-> result, native |-> native, list |-> ListAfter(i, native),
   freed |-> result # "failed"]

First == found = NotFound /\ \A p \in Pcaps : pcap[p] = NoPcap

findAllDevs ==
  /\ First
  /\ \E m \in Machines :
       LET r == pcap_findalldevs(m)
       IN \/ /\ r.ret = -1 /\ UNCHANGED faults
             /\ found' = Found(m, "error", 0, <<>>)
          \/ /\ r.ret = 0 /\ UNCHANGED faults
             /\ found' = Found(m, "value", 0, r.list)
          \/ /\ r.ret = 0 /\ Refused
             /\ \E i \in DOMAIN r.list : found' = Found(m, "failed", i, r.list)
  /\ last' = "none"
  /\ SamePackets /\ UNCHANGED <<pcap, call, frames, copies, dumper>>

lookupDev ==
  /\ First
  /\ \E m \in Machines :
       found' = [NotFound EXCEPT !.machine = <<m>>, !.result = "device",
                                 !.native = pcap_lookupdev(m)]
  /\ last' = "none"
  /\ SamePackets /\ UNCHANGED <<pcap, call, frames, copies, dumper, faults>>

-----------------------------------------------------------------------------
LoopStep ==
  \/ pcap_dispatch
  \/ pcap_callback
  \/ cb_byte_buffer_dispatch
  \/ cb_jbuffer_dispatch
  \/ cb_pcap_packet_dispatch
  \/ cb_pcap_dumper_handler

Step ==
  \/ LoopStep
  \/ \E p \in Pcaps :
       \/ openLive(p) \/ openDead(p) \/ openOffline(p) \/ create(p)
       \/ datalink(p) \/ setNonBlock(p) \/ setDatalink(p) \/ majorVersion(p)
       \/ stats(p) \/ sendPacket(p) \/ setSnaplen(p) \/ activate(p) \/ close(p) \/ breakloop(p) \/ dumpOpen(p)
       \/ dispatch(p) \/ loop(p) \/ dumperLoop(p)
       \/ nextPktHdr(p)
       \/ \E n \in Packets : nextEx(p, n) \/ next(p, n)
       \/ DropPcap(p) \/ Finalize(p)
  \/ dumperClose
  \/ \E n \in Packets : DropPacket(n)
  \/ \E v \in Views, n \in Packets : peerHeaderByIndex(v, n) \/ peerBuffer(v, n)
  \/ \E n, d \in Packets : transferStateAndDataTo(n, d)
  \/ \E v \in Views : DropView(v)
  \/ \E b \in Blocks : Dispose(b)
  \/ findAllDevs
  \/ lookupDev

Next ==
  \/ Collect
  \/ Garbage = {} /\ Step

Spec == Init /\ [][Next]_vars

-----------------------------------------------------------------------------
(* Properties.                                                               *)

\* A block that malloc gave and nobody freed has exactly one JMemoryReference:
\* of the object that allocated it, or in the queue of the cleanup thread.  So
\* no block is freed twice (JMemory.cleanup, disposeNative0) and none is lost.
OneReferencePerBlock ==
  \A b \in Blocks :
    LET owners == {o \in JMemory : mem[o].ref = b}
    IN  /\ heap[b].live <=> (owners # {} \/ b \in queue)
        /\ Cardinality(owners) <= 1 /\ ~(owners # {} /\ b \in queue)

\* Whatever later packets, copies, close(), the collector and the cleanup thread
\* do: a packet of the packet loop, a copy (transferStateAndDataTo), a packet of
\* nextEx until the next use of libpcap, and every header and buffer on them show
\* header, state and bytes of the packet they were made from.
KeptPacketsReadBack ==
  /\ \A n \in Packets : held[n] > 0 =>
       getByte(n) = held[n] /\ hdr_caplen(n) = held[n] /\ getHeaderCount(n) = held[n]
  /\ \A v \in Views : view[v].held =>
       /\ Read(<<"view", v>>) = view[v].shows
       /\ view[v].of # 0 => getOffset(v) = view[v].shows

\* No native method hands libpcap a pcap_t or a dump file that is freed: close()
\* clears the pointer of the object, and so does the finalizer.
NoStaleHandle == last # "stale"

\* Java code is called with an exception pending only from a batch of a
\* TPACKET_V3 ring, whose read function looks at the break flag between batches,
\* or when the refusal of a ByteBuffer has not broken the loop; and never for a
\* PcapHandler, whose callback looks for one (pcap_callback).
PendingOnlyInBatches ==
  last = "pending" => /\ call.kind # "handler"
                      /\ pcap[call.p].kind = "batch" \/ call.pending = "buffer"

\* What the application reads and what native code uses is there: packets and
\* their views, the pcap_t, and a Java environment that may be called.
UsesAreValid == KeptPacketsReadBack /\ NoStaleHandle /\ PendingOnlyInBatches

\* The Java list has every entry of libpcap's once, the last one first, with its
\* successor in next and an address for each of its own, in the order of the
\* recursions of newPcapIf and newPcapAddr; libpcap's list is freed.
AllDevicesListed ==
  found.result = "value" =>
    /\ found.freed
    /\ [i \in DOMAIN found.list |-> found.list[i].name]
         = Reverse([i \in DOMAIN found.native |-> found.native[i].name])
    /\ \A i \in DOMAIN found.list :
         /\ i > 1 => found.list[i].next = found.list[i - 1].name
         /\ Len(found.list[i].addresses)
              = Len(found.native[Len(found.list) + 1 - i].addresses)

\* Interfaces of a machine that are there all the time, can be opened, and have an
\* address or are listed by the kernel.
Offered(m) == {k \in DOMAIN m.ifs :
  /\ m.ifs[k].trouble = "no" /\ CanOpen(m.ifs[k])
  /\ (m.ifs[k].addrs # <<>> /\ ~m.ifs[k].dummy) \/ "yes" \in {m.sys, m.proc}}

\* Whatever is up and whatever disappears while pcap_findalldevs looks: each
\* interface that can be opened is in the list once, with all its IPv4 addresses
\* in the kernel's order, although it may be met by address, by name and as a
\* device of another type; the list is in order of merit; and an interface that
\* cannot be opened, or has no address when it disappears, does not end the search.
DevicesInOrder ==
  found.result \in {"value", "error"} =>
    LET m == found.machine[1]
        list == found.native
        At(name) == {k \in DOMAIN list : list[k].name = name}
    IN IF found.result = "error"
       THEN \/ "fails" \in {m.socket, m.conf, m.sys, m.proc, m.netlink}
            \/ m.any = "entry"
            \/ \E k \in DOMAIN m.ifs :
                 \/ m.ifs[k].trouble = "entry"
                 \/ m.ifs[k].trouble \in {"flags", "mask", "address"} /\ m.ifs[k].addrs # <<>>
                 \/ m.ifs[k].trouble = "open" /\ Len(m.ifs[k].addrs) > 1
       ELSE /\ \A j, k \in DOMAIN list :
                 j < k => /\ list[j].name # list[k].name
                          /\ ~Better(get_figure_of_merit(list[k]), get_figure_of_merit(list[j]))
            /\ \A i \in Offered(m) : \E k \in At(m.ifs[i].name) :
                 ~m.ifs[i].dummy =>
                   m.ifs[i].addrs = [a \in DOMAIN list[k].addresses |-> list[k].addresses[a].addr]
            /\ \A k \in DOMAIN list :
                 \/ \E i \in DOMAIN m.ifs : m.ifs[i].name = list[k].name
                 \/ list[k].name \in {<<"any">>, <<"nflog">>, <<"nfqueue">>}
                 \/ \E n \in Range(m.usb) : list[k].name = <<"usbmon", n>>

\* The device that lookupDev chooses is up and no loopback device, and no better
\* interface was to be had: of those that run, it has the lowest unit number.  The
\* "any" device is what makes it so: the comment in pcap_lookupdev takes a loopback
\* device at the head for a proof that there is no other.
LookupPrefersLowestUnit ==
  found.result = "device" /\ found.machine[1].any = "no" =>
    \/ found.native = <<>> /\ pcap_findalldevs(found.machine[1]).ret = -1
    \/ /\ found.native # <<>> /\ found.native[1].up /\ ~found.native[1].loopback
       /\ \A k \in Offered(found.machine[1]) :
            LET i == found.machine[1].ifs[k]
            IN i.running /\ ~i.loopback => found.native[1].unit <= i.unit

\* The devices that Java sees are those of the machine: every one that can be
\* opened, in order of merit, and the best of them when one is asked for.
DevicesListed == AllDevicesListed /\ DevicesInOrder /\ LookupPrefersLowestUnit

\* The copy of a packet lies in the block allocated for it.
CopyFits ==
  \A b \in Blocks : \A e \in heap[b].text : e.off + e.len <= heap[b].size
=============================================================================
