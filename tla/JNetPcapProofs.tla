--------------------------- MODULE JNetPcapProofs ---------------------------
(***************************************************************************)
(* Theorems about the Java binding of libpcap, for every number of packet  *)
(* objects, views, handles and blocks of native memory.                    *)
(***************************************************************************)
EXTENDS JNetPcap, FiniteSetTheorems, TLAPS

-----------------------------------------------------------------------------
(* Blocks and their references *)

\* the fields that JMemory objects and blocks have
Shaped(w) ==
  /\ DOMAIN w = {"mem", "heap"} /\ DOMAIN w.mem = JMemory /\ DOMAIN w.heap = Blocks
  /\ \A o \in JMemory : /\ DOMAIN w.mem[o] = {"at", "size", "keeper", "ref"}
                        /\ w.mem[o].ref \in Blocks \union {0}
  /\ \A b \in Blocks : DOMAIN w.heap[b] = {"live", "size", "text"} /\ w.heap[b].live \in BOOLEAN

\* With the blocks of q in the queue of the cleanup thread: a block in use has its reference in
\* one object or in the queue, and a reference is to a block in use.
Owned(w, q) ==
  /\ \A b \in Blocks : w.heap[b].live => b \in q \/ \E o \in JMemory : w.mem[o].ref = b
  /\ \A o \in JMemory : w.mem[o].ref # 0 => w.heap[w.mem[o].ref].live /\ w.mem[o].ref \notin q
  /\ \A b \in q : b \in Blocks /\ w.heap[b].live
  /\ \A o, x \in JMemory : w.mem[o].ref = w.mem[x].ref /\ w.mem[o].ref # 0 => o = x
  /\ \A b \in Blocks : w.mem[<<"block", b>>].ref \in {0, b}

Good(w, q) == Shaped(w) /\ Owned(w, q)

\* v differs from w in the references of S at most, and has no block in use that w has not
Lets(w, v, S) ==
  /\ \A x \in JMemory \ S : v.mem[x].ref = w.mem[x].ref
  /\ \A b \in Blocks : v.heap[b].live => w.heap[b].live

\* the same references and the same blocks in use
Alike(w, v) ==
  /\ Shaped(v)
  /\ \A x \in JMemory : v.mem[x].ref = w.mem[x].ref
  /\ \A b \in Blocks : v.heap[b].live = w.heap[b].live

LEMMA Objects ==
  /\ \A n \in Packets : Parts(n) \subseteq JMemory
  /\ \A v \in Views : ViewParts(v) \subseteq JMemory
  /\ \A b \in Blocks : <<"block", b>> \in JMemory
<1> DEFINE P == UNION {Parts(n) : n \in Packets}
           V == UNION {ViewParts(v) : v \in Views}
           B == {<<"block", b>> : b \in Blocks}
<1>1. \A n \in Packets : Parts(n) \subseteq P  OBVIOUS
<1>2. \A v \in Views : ViewParts(v) \subseteq V  OBVIOUS
<1>3. \A b \in Blocks : <<"block", b>> \in B  OBVIOUS
<1>4. JMemory = (P \union V) \union B  BY DEF JMemory
<1> HIDE DEF P, V, B
<1>5. QED BY <1>1, <1>2, <1>3, <1>4

LEMMA AlikeGood ==
  ASSUME NEW w, NEW v, NEW q, Good(w, q), Alike(w, v)
  PROVE  Good(v, q) /\ Lets(w, v, {})
<1>1. Shaped(v) /\ Shaped(w) /\ Owned(w, q)  BY DEF Good, Alike
<1>2. \A b \in Blocks : <<"block", b>> \in JMemory  BY Objects
<1>3. Owned(v, q)  BY <1>1, <1>2 DEF Owned, Alike, Shaped
<1>4. QED BY <1>1, <1>3 DEF Good, Lets, Alike

LEMMA LetsChain ==
  ASSUME NEW u, NEW v, NEW w, NEW S, NEW T, Lets(u, v, S), Lets(v, w, T)
  PROVE  Lets(u, w, S \union T)
BY DEF Lets

\* An object lets go of its memory: the block it owned is free and nobody else has it.
LEMMA CleanupGood ==
  ASSUME NEW w, NEW q, Good(w, q), NEW o \in JMemory
  PROVE  /\ Good(cleanup(w, o), q) /\ Lets(w, cleanup(w, o), {o})
         /\ cleanup(w, o).mem[o] = Fresh
<1> DEFINE v == cleanup(w, o)
           r == w.mem[o].ref
<1>1. Shaped(w) /\ Owned(w, q) /\ r \in Blocks \union {0}  BY DEF Good, Shaped
<1>2. DOMAIN v = {"mem", "heap"} /\ v.mem = [w.mem EXCEPT ![o] = Fresh]
      /\ v.heap = disposeNative0(w.heap, r)
  BY DEF cleanup
<1>3. /\ DOMAIN v.mem = JMemory /\ v.mem[o] = Fresh
      /\ \A x \in JMemory : x # o => v.mem[x] = w.mem[x]
  BY <1>1, <1>2 DEF Shaped
<1>4. /\ DOMAIN v.heap = Blocks
      /\ \A b \in Blocks : IF b = r THEN v.heap[b] = Free ELSE v.heap[b] = w.heap[b]
  BY <1>1, <1>2, BlocksAssumption DEF Shaped, disposeNative0
<1>5. /\ DOMAIN Fresh = {"at", "size", "keeper", "ref"} /\ Fresh.ref = 0
      /\ DOMAIN Free = {"live", "size", "text"} /\ Free.live = FALSE
  BY DEF Fresh, Free
<1> HIDE DEF v
<1>6. Shaped(v)  BY <1>1, <1>2, <1>3, <1>4, <1>5 DEF Shaped
<1>7. \A x \in JMemory : v.mem[x].ref = IF x = o THEN 0 ELSE w.mem[x].ref  BY <1>3, <1>5
<1>8. \A b \in Blocks : v.heap[b].live <=> w.heap[b].live /\ b # r  BY <1>1, <1>4, <1>5 DEF Shaped
<1> HIDE DEF r
<1>9. Owned(v, q)
  <2>1. \A b \in Blocks : v.heap[b].live => b \in q \/ \E x \in JMemory : v.mem[x].ref = b
    BY <1>1, <1>7, <1>8 DEF Owned, r
  <2>2. \A x \in JMemory : v.mem[x].ref # 0 => v.heap[v.mem[x].ref].live /\ v.mem[x].ref \notin q
    BY <1>1, <1>7, <1>8 DEF Owned, Shaped, r
  <2>3. \A b \in q : b \in Blocks /\ v.heap[b].live  BY <1>1, <1>8, BlocksAssumption DEF Owned, r
  <2>4. \A x, y \in JMemory : v.mem[x].ref = v.mem[y].ref /\ v.mem[x].ref # 0 => x = y
    BY <1>1, <1>7 DEF Owned
  <2>5. \A b \in Blocks : v.mem[<<"block", b>>].ref \in {0, b}  BY <1>1, <1>7, Objects DEF Owned
  <2>6. QED BY <2>1, <2>2, <2>3, <2>4, <2>5 DEF Owned
<1>10. Lets(w, v, {o})  BY <1>7, <1>8 DEF Lets
<1>11. QED BY <1>3, <1>6, <1>9, <1>10 DEF Good, v

LEMMA SetFieldsAlike ==
  ASSUME NEW w, Shaped(w), NEW o \in JMemory, NEW a, NEW s, NEW k
  PROVE  /\ Alike(w, [w EXCEPT !.mem[o].at = a])
         /\ Alike(w, [w EXCEPT !.mem[o].size = s])
         /\ Alike(w, [w EXCEPT !.mem[o].at = a, !.mem[o].size = s, !.mem[o].keeper = k])
<1>1. Alike(w, [w EXCEPT !.mem[o].at = a])  BY DEF Shaped, Alike
<1>2. Alike(w, [w EXCEPT !.mem[o].size = s])  BY DEF Shaped, Alike
<1>3. Alike(w, [w EXCEPT !.mem[o].at = a, !.mem[o].size = s, !.mem[o].keeper = k])  BY DEF Shaped, Alike
<1>4. QED BY <1>1, <1>2, <1>3

LEMMA SizeGood ==
  ASSUME NEW w, NEW q, Good(w, q), NEW o \in JMemory, NEW s
  PROVE  Good([w EXCEPT !.mem[o].size = s], q)
<1>1. Alike(w, [w EXCEPT !.mem[o].size = s])  BY SetFieldsAlike DEF Good
<1>2. QED BY <1>1, AlikeGood

\* An object is made to show another place: what it owned is freed first.
LEMMA PeerGood ==
  ASSUME NEW w, NEW q, Good(w, q), NEW o \in JMemory, NEW a, NEW n, NEW k
  PROVE  /\ Good(peer0(w, o, a, n, k), q) /\ Lets(w, peer0(w, o, a, n, k), {o})
<1> DEFINE c == IF w.mem[o].at # a THEN cleanup(w, o) ELSE w
           v == [c EXCEPT !.mem[o].at = a, !.mem[o].size = n, !.mem[o].keeper = k]
<1>1. Good(c, q) /\ Lets(w, c, {o})  BY CleanupGood DEF Lets
<1>2. peer0(w, o, a, n, k) = v  BY DEF peer0
<1> HIDE DEF c
<1>3. Alike(c, v)  BY <1>1, SetFieldsAlike DEF Good
<1> HIDE DEF v
<1>4. Good(v, q) /\ Lets(c, v, {})  BY <1>1, <1>3, AlikeGood
<1>5. QED BY <1>1, <1>2, <1>4 DEF Lets

LEMMA PhysicalGood ==
  ASSUME NEW w, NEW q, Good(w, q), NEW o \in JMemory, NEW a
  PROVE  /\ Good(setJMemoryPhysical(w, o, a), q) /\ Lets(w, setJMemoryPhysical(w, o, a), {o})
<1> DEFINE c == cleanup(w, o)
           v == [c EXCEPT !.mem[o].at = a]
<1>1. Good(c, q) /\ Lets(w, c, {o})  BY CleanupGood
<1>2. setJMemoryPhysical(w, o, a) = v  BY DEF setJMemoryPhysical
<1> HIDE DEF c
<1>3. Alike(c, v)  BY <1>1, SetFieldsAlike DEF Good
<1> HIDE DEF v
<1>4. Good(v, q) /\ Lets(c, v, {})  BY <1>1, <1>3, AlikeGood
<1>5. QED BY <1>1, <1>2, <1>4 DEF Lets

\* Copied bytes change neither.
LEMMA CopyGood ==
  ASSUME NEW w, NEW q, Good(w, q), NEW a, NEW n, NEW k
  PROVE  Good(memcpy(w, a, n, k), q) /\ Lets(w, memcpy(w, a, n, k), {})
<1>1. Alike(w, memcpy(w, a, n, k))  BY DEF Good, Shaped, Alike, memcpy
<1>2. QED BY <1>1, AlikeGood

\* A block that is free gets its reference in an object that has none.
LEMMA AllocateGood ==
  ASSUME NEW w, NEW q, Good(w, q), NEW o \in JMemory, NEW b \in Blocks, NEW n,
         ~w.heap[b].live, w.mem[o].ref = 0, \A c \in Blocks \ {b} : o # <<"block", c>>
  PROVE  Good(allocate(w, o, b, n), q)
<1> DEFINE v == allocate(w, o, b, n)
           x == [at |-> <<"heap", b, 0>>, size |-> n, keeper |-> o, ref |-> b]
           y == [live |-> TRUE, size |-> n, text |-> {}]
<1>1. Shaped(w) /\ Owned(w, q) /\ b # 0  BY BlocksAssumption DEF Good
<1>2. DOMAIN v = {"mem", "heap"} /\ v.mem = [w.mem EXCEPT ![o] = x] /\ v.heap = [w.heap EXCEPT ![b] = y]
  BY DEF allocate
<1>3. /\ DOMAIN x = {"at", "size", "keeper", "ref"} /\ x.ref = b
      /\ DOMAIN y = {"live", "size", "text"} /\ y.live = TRUE
  OBVIOUS
<1> HIDE DEF v, x, y
<1>4. /\ DOMAIN v.mem = JMemory /\ v.mem[o] = x /\ \A z \in JMemory : z # o => v.mem[z] = w.mem[z]
      /\ DOMAIN v.heap = Blocks /\ v.heap[b] = y /\ \A c \in Blocks : c # b => v.heap[c] = w.heap[c]
  BY <1>1, <1>2 DEF Shaped
<1>5. Shaped(v)
  <2>1. \A z \in JMemory : /\ DOMAIN v.mem[z] = {"at", "size", "keeper", "ref"}
                           /\ v.mem[z].ref \in Blocks \union {0}
    <3>1. TAKE z \in JMemory
    <3>2. CASE z = o  BY <1>3, <1>4, <3>2
    <3>3. CASE z # o  BY <1>1, <1>4, <3>3 DEF Shaped
    <3>4. QED BY <3>2, <3>3
  <2>2. \A c \in Blocks : DOMAIN v.heap[c] = {"live", "size", "text"} /\ v.heap[c].live \in BOOLEAN
    <3>1. TAKE c \in Blocks
    <3>2. CASE c = b  BY <1>3, <1>4, <3>2
    <3>3. CASE c # b  BY <1>1, <1>4, <3>3 DEF Shaped
    <3>4. QED BY <3>2, <3>3
  <2>3. QED BY <1>2, <1>4, <2>1, <2>2 DEF Shaped
<1>6. \A z \in JMemory : v.mem[z].ref = IF z = o THEN b ELSE w.mem[z].ref  BY <1>3, <1>4
<1>7. \A c \in Blocks : v.heap[c].live <=> c = b \/ w.heap[c].live  BY <1>1, <1>3, <1>4 DEF Shaped
<1>8. b \notin q /\ \A z \in JMemory : w.mem[z].ref # b  BY <1>1 DEF Owned
<1>9. Owned(v, q)
  <2>1. \A c \in Blocks : v.heap[c].live => c \in q \/ \E z \in JMemory : v.mem[z].ref = c
    <3>1. TAKE c \in Blocks
    <3>2. CASE c = b  BY <1>6, <3>2
    <3>3. CASE c # b
      <4>1. HAVE v.heap[c].live
      <4>2. c \in q \/ \E z \in JMemory : w.mem[z].ref = c  BY <1>1, <1>7, <3>3, <4>1 DEF Owned
      <4>3. \A z \in JMemory : w.mem[z].ref = c => z # o  BY BlocksAssumption
      <4>4. QED BY <1>6, <4>2, <4>3
    <3>4. QED BY <3>2, <3>3
  <2>2. \A z \in JMemory : v.mem[z].ref # 0 => v.heap[v.mem[z].ref].live /\ v.mem[z].ref \notin q
    BY <1>1, <1>6, <1>7, <1>8 DEF Owned, Shaped
  <2>3. \A c \in q : c \in Blocks /\ v.heap[c].live  BY <1>1, <1>7 DEF Owned
  <2>4. \A z, u \in JMemory : v.mem[z].ref = v.mem[u].ref /\ v.mem[z].ref # 0 => z = u
    BY <1>1, <1>6, <1>8 DEF Owned
  <2>5. \A c \in Blocks : v.mem[<<"block", c>>].ref \in {0, c}
    BY <1>1, <1>6, Objects DEF Owned
  <2>6. QED BY <2>1, <2>2, <2>3, <2>4, <2>5 DEF Owned
<1>10. QED BY <1>5, <1>9 DEF Good, v

-----------------------------------------------------------------------------
(* The native methods *)

\* a call that lends objects has them
Lends == call.kind \in {"bytes", "jbuffer", "packet"} => call.work \in Packets

RefInv ==
  /\ Good(World, queue)
  /\ Lends /\ {"kind", "work"} \subseteq DOMAIN call

LEMMA PeeredGood ==
  ASSUME Good(World, queue), call.work \in Packets, NEW k
  PROVE  /\ Good(Peered(k), queue) /\ Lets(World, Peered(k), Parts(call.work))
         /\ Good(scan(Peered(k), call.work), queue)
         /\ Lets(World, scan(Peered(k), call.work), Parts(call.work))
<1> DEFINE n == call.work
           a == jmemoryPeer(World, header(n), <<"stack", call.p, 0>>, HeaderSize, <<"pcap", call.p>>)
           b == jmemoryPeer(a, data(n), <<"pcap", call.p, 1>>, Caplen[k], <<"pcap", call.p>>)
           c == jmemoryPeer(b, state(n), <<"ring", 0, 0>>, StateSize, Scanner)
<1>1. header(n) \in JMemory /\ data(n) \in JMemory /\ state(n) \in JMemory
      /\ header(n) \in Parts(n) /\ data(n) \in Parts(n) /\ state(n) \in Parts(n)
  BY Objects DEF Parts
<1>2. Peered(k) = b /\ scan(Peered(k), n) = c  BY DEF Peered, scan
<1>3. Good(a, queue) /\ Lets(World, a, {header(n)})  BY <1>1, PeerGood DEF jmemoryPeer
<1> HIDE DEF a
<1>4. Good(b, queue) /\ Lets(a, b, {data(n)})  BY <1>1, <1>3, PeerGood DEF jmemoryPeer
<1> HIDE DEF b
<1>5. Good(c, queue) /\ Lets(b, c, {state(n)})  BY <1>1, <1>4, PeerGood DEF jmemoryPeer
<1> HIDE DEF c
<1>6. Lets(World, b, Parts(n)) /\ Lets(World, c, Parts(n))  BY <1>1, <1>3, <1>4, <1>5 DEF Lets
<1>7. QED BY <1>2, <1>4, <1>5, <1>6

\* the copy that a packet handler is given
LEMMA TransferGood ==
  ASSUME NEW w, NEW q, Good(w, q), NEW n \in Packets, NEW b \in Blocks, NEW k,
         ~w.heap[b].live, w.mem[header(n)].ref = 0
  PROVE  Good(transferToNewBuffer(w, n, b, k), q)
<1> DEFINE at == HeaderSize + Caplen[k] + (Caplen[k] % 8)
           a == allocate(w, header(n), b, copySize(k))
           m == memcpy(a, <<"heap", b, 0>>, HeaderSize, k)
           h == [m EXCEPT !.mem[header(n)].size = HeaderSize]
           m2 == memcpy(h, <<"heap", b, HeaderSize>>, Caplen[k], k)
           d == jmemoryPeer(m2, data(n), <<"heap", b, HeaderSize>>, Caplen[k], header(n))
           m3 == memcpy(d, <<"heap", b, at>>, StateSize, k)
           r == jmemoryPeer(m3, state(n), <<"heap", b, at>>, StateSize, header(n))
<1>1. header(n) \in JMemory /\ data(n) \in JMemory /\ state(n) \in JMemory
  BY Objects DEF Parts
<1>2. transferToNewBuffer(w, n, b, k) = r  BY DEF transferToNewBuffer
<1>3. \A c \in Blocks : header(n) # <<"block", c>>  BY DEF header
<1>4. Good(a, q)  BY <1>1, <1>3, AllocateGood
<1> HIDE DEF a
<1>5. Good(m, q)  BY <1>4, CopyGood
<1> HIDE DEF m
<1>6. Good(h, q)  BY <1>1, <1>5, SizeGood
<1> HIDE DEF h
<1>7. Good(m2, q)  BY <1>6, CopyGood
<1> HIDE DEF m2
<1>8. Good(d, q)  BY <1>1, <1>7, PeerGood DEF jmemoryPeer
<1> HIDE DEF d
<1>9. Good(m3, q)  BY <1>8, CopyGood
<1> HIDE DEF m3
<1>10. Good(r, q)  BY <1>1, <1>9, PeerGood DEF jmemoryPeer
<1>11. QED BY <1>2, <1>10

\* the copy of a packet into memory that it has
LEMMA FilledGood ==
  ASSUME NEW w, NEW q, Good(w, q), NEW d \in Packets, NEW k
  PROVE  Good(Filled(w, d, k), q)
<1> DEFINE at == w.mem[memory(d)].at
           o == HeaderSize + StateSize
           m == memcpy(w, at, HeaderSize, k)
           h == peer(m, header(d), memory(d), 0, HeaderSize)
           p == peer(h, state(d), memory(d), HeaderSize, StateSize)
           s == memcpy(p, Shift(at, HeaderSize), StateSize, k)
           x == peer(s, data(d), memory(d), o, Caplen[k])
           r == memcpy(x, Shift(at, o), Caplen[k], k)
<1>1. header(d) \in JMemory /\ data(d) \in JMemory /\ state(d) \in JMemory
  BY Objects DEF Parts
<1>2. Filled(w, d, k) = r  BY DEF Filled
<1>3. Good(m, q)  BY CopyGood
<1> HIDE DEF m
<1>4. Good(h, q)  BY <1>1, <1>3, PeerGood DEF peer
<1> HIDE DEF h
<1>5. Good(p, q)  BY <1>1, <1>4, PeerGood DEF peer
<1> HIDE DEF p
<1>6. Good(s, q)  BY <1>5, CopyGood
<1> HIDE DEF s
<1>7. Good(x, q)  BY <1>1, <1>6, PeerGood DEF peer
<1> HIDE DEF x
<1>8. Good(r, q)  BY <1>7, CopyGood
<1>9. QED BY <1>2, <1>8

-----------------------------------------------------------------------------
(* Every step *)

\* The world after a step is the one its native methods leave.
LEMMA LentWorld == ASSUME NEW w, DOMAIN w = {"mem", "heap"}, Lent(w), NEW q, Good(w, q)
                   PROVE  Good(World', q)
<1>1. mem' = w.mem /\ heap' = w.heap  BY DEF Lent
<1>2. /\ World'.mem = w.mem /\ World'.heap = w.heap /\ DOMAIN World' = {"mem", "heap"}
  BY <1>1 DEF World
<1>3. QED BY <1>2 DEF Good, Shaped, Owned

LEMMA InitRef == Init => RefInv
<1> SUFFICES ASSUME Init PROVE RefInv
  OBVIOUS
<1>1. \A o \in JMemory : mem[o] = Fresh  BY DEF Init
<1>2. \A b \in Blocks : heap[b] = Free  BY DEF Init
<1>3. World.mem = mem /\ World.heap = heap /\ DOMAIN World = {"mem", "heap"}  BY DEF World
<1>4. DOMAIN mem = JMemory /\ DOMAIN heap = Blocks /\ queue = {}  BY DEF Init
<1>5. /\ DOMAIN Fresh = {"at", "size", "keeper", "ref"} /\ Fresh.ref = 0
      /\ DOMAIN Free = {"live", "size", "text"} /\ Free.live = FALSE
  BY DEF Fresh, Free
<1>6. Shaped(World)  BY <1>1, <1>2, <1>3, <1>4, <1>5 DEF Shaped
<1>7. Owned(World, queue)  BY <1>1, <1>2, <1>3, <1>4, <1>5, Objects DEF Owned
<1>8. Lends /\ {"kind", "work"} \subseteq DOMAIN call  BY DEF Init, NoCall, Lends
<1>9. QED BY <1>6, <1>7, <1>8 DEF RefInv, Good

\* a packet is taken by the call: its kind and the objects it lends stay
LEMMA TakenCall ==
  ASSUME RefInv, NEW e, NEW x, NEW o, Taken(e, x, o)
  PROVE  Lends' /\ {"kind", "work"} \subseteq DOMAIN call' /\ queue' = queue
BY DEF RefInv, Taken, Counted, Lends

LEMMA LoopRef == ASSUME RefInv, LoopStep PROVE RefInv'
<1> USE DEF RefInv
<1>1. ASSUME NEW e, NEW x, NEW o, Taken(e, x, o), NEW w, Good(w, queue), Lent(w)
      PROVE  RefInv'
  <2>1. Good(World', queue)  BY <1>1, LentWorld DEF Good, Shaped
  <2>2. QED BY <1>1, <2>1, TakenCall
<1>2. ASSUME NEW e, NEW x, NEW o, Taken(e, x, o), UNCHANGED <<mem, heap>>
      PROVE  RefInv'
  <2>1. World' = World  BY <1>2 DEF World
  <2>2. QED BY <1>2, <2>1, TakenCall
<1>3. ASSUME NEW w, Good(w, queue), Lent(w), Handled PROVE RefInv'
  BY <1>1, <1>3 DEF Handled
<1>4. CASE pcap_dispatch
  <2>1. UNCHANGED <<mem, heap, queue>>  BY <1>4 DEF pcap_dispatch, Return, SamePackets
  <2>2. World' = World  BY <2>1 DEF World
  <2>3. CASE call' = NoCall  BY <2>1, <2>2, <2>3 DEF NoCall, Lends
  <2>4. CASE \E b \in 1 .. 2 : call' = [call EXCEPT !.batch = b]
    BY <2>1, <2>2, <2>4 DEF Lends
  <2>5. call' = NoCall \/ \E b \in 1 .. 2 : call' = [call EXCEPT !.batch = b]
    BY <1>4 DEF pcap_dispatch, Return
  <2>6. QED BY <2>3, <2>4, <2>5
<1>5. CASE pcap_callback \/ cb_pcap_dumper_handler
  <2>1. UNCHANGED <<mem, heap>> /\ \E e, x, o : Taken(e, x, o)
    BY <1>5 DEF pcap_callback, cb_pcap_dumper_handler, Handled
  <2>2. QED BY <1>2, <2>1
<1>6. CASE cb_byte_buffer_dispatch
  <2> DEFINE w == setJMemoryPhysical(World, header(call.work), <<"stack", call.p, 0>>)
  <2>1. call.work \in Packets  BY <1>6 DEF cb_byte_buffer_dispatch, Lends
  <2>2. Good(w, queue)  BY <2>1, Objects, PhysicalGood DEF Parts
  <2> HIDE DEF w
  <2>3. \/ (\E e, x, o : Taken(e, x, o)) /\ UNCHANGED <<mem, heap>>
        \/ (\E e, x, o : Taken(e, x, o)) /\ Lent(w)
    BY <1>6 DEF cb_byte_buffer_dispatch, Forbidden, Handled, w
  <2>4. QED BY <1>1, <1>2, <2>2, <2>3
<1>7. CASE cb_jbuffer_dispatch
  <2>1. call.work \in Packets  BY <1>7 DEF cb_jbuffer_dispatch, Lends
  <2>2. Good(Peered(frames + 1), queue)  BY <2>1, PeeredGood
  <2>3. \/ (\E e, x, o : Taken(e, x, o)) /\ UNCHANGED <<mem, heap>>
        \/ Handled /\ Lent(Peered(frames + 1))
    BY <1>7 DEF cb_jbuffer_dispatch, Forbidden
  <2>4. QED BY <1>2, <1>3, <2>2, <2>3
<1>8. CASE cb_pcap_packet_dispatch
  <2> DEFINE w == scan(Peered(frames + 1), call.work)
  <2>1. call.work \in Packets  BY <1>8 DEF cb_pcap_packet_dispatch, Lends
  <2>2. Good(w, queue) /\ Lets(World, w, Parts(call.work))  BY <2>1, PeeredGood
  <2> HIDE DEF w
  <2>3. \/ (\E e, x, o : Taken(e, x, o)) /\ UNCHANGED <<mem, heap>>
        \/ (\E e, x, o : Taken(e, x, o)) /\ Lent(w)
        \/ \E n \in FreePackets, b \in Blocks :
             malloc(b) /\ Lent(transferToNewBuffer(w, n, b, frames + 1)) /\ Handled
    BY <1>8 DEF cb_pcap_packet_dispatch, Forbidden, w
  <2>4. ASSUME NEW n \in FreePackets, NEW b \in Blocks, malloc(b),
               Lent(transferToNewBuffer(w, n, b, frames + 1)), Handled
        PROVE  RefInv'
    <3>1. n \in Packets /\ n # call.work /\ mem[header(n)] = Fresh  BY DEF FreePackets, Parts
    <3>2. header(n) \in JMemory \ Parts(call.work)
      BY <3>1, Objects DEF Parts, header, data, state, memory
    <3>3. w.mem[header(n)].ref = 0 /\ ~w.heap[b].live
      BY <2>2, <2>4, <3>1, <3>2 DEF Lets, World, Fresh, malloc
    <3>4. Good(transferToNewBuffer(w, n, b, frames + 1), queue)  BY <2>2, <3>1, <3>3, TransferGood
    <3>5. QED BY <1>3, <2>4, <3>4
  <2>5. QED BY <1>1, <1>2, <2>2, <2>3, <2>4
<1>9. QED BY <1>4, <1>5, <1>6, <1>7, <1>8 DEF LoopStep

LEMMA PcapRef ==
  ASSUME RefInv, NEW p \in Pcaps,
         \/ openLive(p) \/ openDead(p) \/ openOffline(p) \/ create(p)
         \/ datalink(p) \/ setNonBlock(p) \/ setDatalink(p) \/ majorVersion(p)
         \/ stats(p) \/ sendPacket(p) \/ setSnaplen(p) \/ activate(p) \/ close(p) \/ breakloop(p)
         \/ dumpOpen(p) \/ dispatch(p) \/ loop(p) \/ dumperLoop(p)
         \/ nextPktHdr(p) \/ DropPcap(p) \/ Finalize(p)
  PROVE  RefInv'
<1> USE DEF RefInv
<1>1. UNCHANGED <<mem, heap, queue>>
  BY DEF openLive, openDead, openOffline, create, Opened, datalink, setNonBlock, setDatalink, majorVersion,
         stats, sendPacket, setSnaplen, Asked, activate, close, breakloop, dumpOpen, dispatch, loop,
         dumperLoop, Begin, nextPktHdr, DropPcap, Dropped, Finalize, SamePackets
<1>2. World' = World  BY <1>1 DEF World
<1>3. CASE UNCHANGED call  BY <1>1, <1>2, <1>3 DEF Lends
<1>4. CASE dispatch(p) \/ loop(p) \/ dumperLoop(p)
  <2>1. PICK k, c, o : Begin(p, k, c, o)  BY <1>4 DEF dispatch, loop, dumperLoop
  <2> DEFINE lends == k \in {"bytes", "jbuffer", "packet"}
  <2>2. \/ call' = NoCall
        \/ \E n \in (IF lends THEN FreePackets ELSE {0}) :
             call' = [NoCall EXCEPT !.on = TRUE, !.p = p, !.kind = k, !.left = c, !.once = o, !.work = n]
    BY <2>1 DEF Begin
  <2>3. CASE call' = NoCall  BY <1>1, <1>2, <2>3 DEF NoCall, Lends
  <2>4. CASE \E n \in (IF lends THEN FreePackets ELSE {0}) :
               call' = [NoCall EXCEPT !.on = TRUE, !.p = p, !.kind = k, !.left = c, !.once = o, !.work = n]
    <3>1. PICK n \in (IF lends THEN FreePackets ELSE {0}) :
            call' = [NoCall EXCEPT !.on = TRUE, !.p = p, !.kind = k, !.left = c, !.once = o, !.work = n]
      BY <2>4
    <3>2. call'.kind = k /\ call'.work = n /\ {"kind", "work"} \subseteq DOMAIN call'
      BY <3>1 DEF NoCall
    <3>3. lends => n \in Packets  BY DEF FreePackets
    <3>4. QED BY <1>1, <1>2, <3>2, <3>3 DEF Lends
  <2>5. QED BY <2>2, <2>3, <2>4
<1>5. QED
  BY <1>3, <1>4 DEF openLive, openDead, openOffline, create, Opened, datalink, setNonBlock, setDatalink,
     majorVersion, stats, sendPacket, setSnaplen, Asked, activate, close, breakloop, dumpOpen,
     nextPktHdr, DropPcap, Dropped, Finalize

\* next() and nextEx()
LEMMA NextRef ==
  ASSUME RefInv, NEW p \in Pcaps, NEW n \in Packets, nextEx(p, n) \/ next(p, n)
  PROVE  RefInv'
<1> USE DEF RefInv
<1>1. header(n) \in JMemory /\ data(n) \in JMemory /\ state(n) \in JMemory
  BY Objects DEF Parts
<1>2. UNCHANGED <<queue, call>>  BY DEF nextEx, next
<1>3. ASSUME NEW w, Good(w, queue), Lent(w) PROVE RefInv'
  <2>1. Good(World', queue)  BY <1>3, LentWorld DEF Good, Shaped
  <2>2. QED BY <1>2, <2>1 DEF Lends
<1>4. CASE UNCHANGED <<mem, heap>>
  <2>1. World' = World  BY <1>4 DEF World
  <2>2. QED BY <1>2, <2>1 DEF Lends
<1>5. CASE nextEx(p, n)
  <2> DEFINE h == setJMemoryPhysical(World, header(n), <<"pcap", p, 0>>)
             d == setJMemoryPhysical(h, data(n), <<"pcap", p, 1>>)
             e == [d EXCEPT !.mem[header(n)].size = HeaderSize]
             s == [e EXCEPT !.mem[data(n)].size = Caplen[frames + 1]]
             r == [d EXCEPT !.mem[header(n)].size = HeaderSize,
                            !.mem[data(n)].size = Caplen[frames + 1]]
  <2>1. Lent(scan(r, n)) \/ Lent(scan(World, n)) \/ UNCHANGED <<mem, heap>>  BY <1>5 DEF nextEx
  <2>2. Good(h, queue)  BY <1>1, PhysicalGood
  <2> HIDE DEF h
  <2>3. Good(d, queue)  BY <1>1, <2>2, PhysicalGood
  <2> HIDE DEF d
  <2>4. Good(e, queue)  BY <1>1, <2>3, SizeGood
  <2>5. r = s  OBVIOUS
  <2> HIDE DEF e
  <2>6. Good(s, queue)  BY <1>1, <2>4, SizeGood
  <2> HIDE DEF s, r
  <2>7. Good(scan(r, n), queue)  BY <1>1, <2>5, <2>6, PeerGood DEF scan, jmemoryPeer
  <2>8. Good(scan(World, n), queue)  BY <1>1, PeerGood DEF scan, jmemoryPeer
  <2>9. QED BY <1>3, <1>4, <2>1, <2>7, <2>8
<1>6. CASE next(p, n)
  <2> DEFINE c == memcpy(World, mem[header(n)].at, HeaderSize, frames + 1)
             d == setJMemoryPhysical(c, data(n), <<"pcap", p, 1>>)
             e == [d EXCEPT !.mem[data(n)].size = Caplen[frames + 1]]
  <2>1. Lent(e) \/ UNCHANGED <<mem, heap>>  BY <1>6 DEF next
  <2>2. Good(c, queue)  BY CopyGood
  <2> HIDE DEF c
  <2>3. Good(d, queue)  BY <1>1, <2>2, PhysicalGood
  <2> HIDE DEF d
  <2>4. Good(e, queue)  BY <1>1, <2>3, SizeGood
  <2>5. QED BY <1>3, <1>4, <2>1, <2>4
<1>7. QED BY <1>5, <1>6

\* what the application does with packets
LEMMA UseRef ==
  ASSUME RefInv,
         \/ \E v \in Views, n \in Packets : peerHeaderByIndex(v, n) \/ peerBuffer(v, n)
         \/ \E n, d \in Packets : transferStateAndDataTo(n, d)
  PROVE  RefInv'
<1> USE DEF RefInv
<1>1. UNCHANGED <<queue, call>>  BY DEF peerHeaderByIndex, peerBuffer, transferStateAndDataTo
<1>2. ASSUME NEW w, Good(w, queue), Lent(w) PROVE RefInv'
  <2>1. Good(World', queue)  BY <1>2, LentWorld DEF Good, Shaped
  <2>2. QED BY <1>1, <2>1 DEF Lends
<1>3. CASE UNCHANGED <<mem, heap>>
  <2>1. World' = World  BY <1>3 DEF World
  <2>2. QED BY <1>1, <2>1 DEF Lends
<1>4. ASSUME NEW v \in Views, NEW n \in Packets, peerHeaderByIndex(v, n) \/ peerBuffer(v, n)
      PROVE  RefInv'
  <2> DEFINE s == setJMemoryPhysical(World, <<"vstate", v>>, mem[state(n)].at)
  <2>1. Lent(peer(s, <<"view", v>>, data(n), 0, 1)) \/ Lent(peer(World, <<"view", v>>, data(n), 0, 1))
    BY <1>4 DEF peerHeaderByIndex, peerBuffer
  <2>2. <<"vstate", v>> \in JMemory /\ <<"view", v>> \in JMemory  BY Objects DEF ViewParts
  <2>3. Good(s, queue)  BY <2>2, PhysicalGood
  <2> HIDE DEF s
  <2>4. /\ Good(peer(s, <<"view", v>>, data(n), 0, 1), queue)
        /\ Good(peer(World, <<"view", v>>, data(n), 0, 1), queue)
    BY <2>2, <2>3, PeerGood DEF peer
  <2>5. QED BY <1>2, <2>1, <2>4
<1>5. ASSUME NEW n \in Packets, NEW d \in Packets, transferStateAndDataTo(n, d)
      PROVE  RefInv'
  <2> DEFINE k == held[n]
             pooled == peer(World, memory(d), <<"block", pool.block>>, pool.current, copySize(k))
             new(b) == allocate(World, <<"block", b>>, b, newBlock(copySize(k)))
             placed(b) == peer(new(b), memory(d), <<"block", b>>, 0, copySize(k))
  <2>1. \/ Lent(Filled(World, d, k)) \/ Lent(Filled(pooled, d, k))
        \/ \E b \in Blocks : malloc(b) /\ Lent(Filled(placed(b), d, k))
        \/ UNCHANGED <<mem, heap>>
    BY <1>5 DEF transferStateAndDataTo
  <2>2. memory(d) \in JMemory  BY Objects DEF Parts
  <2>3. Good(Filled(World, d, k), queue)  BY FilledGood
  <2>4. Good(Filled(pooled, d, k), queue)
    <3>1. Good(pooled, queue)  BY <2>2, PeerGood DEF peer
    <3> HIDE DEF pooled
    <3>2. QED BY <3>1, FilledGood
  <2>5. ASSUME NEW b \in Blocks, malloc(b) PROVE Good(Filled(placed(b), d, k), queue)
    <3>1. <<"block", b>> \in JMemory /\ \A c \in Blocks \ {b} : <<"block", b>> # <<"block", c>>
      BY Objects
    <3>2. ~World.heap[b].live /\ World.mem[<<"block", b>>].ref = 0
      <4>1. ~World.heap[b].live  BY <2>5 DEF malloc, World
      <4>2. World.mem[<<"block", b>>].ref \in {0, b}  BY DEF Good, Owned
      <4>3. World.mem[<<"block", b>>].ref # b  BY <3>1, <4>1, BlocksAssumption DEF Good, Owned
      <4>4. QED BY <4>1, <4>2, <4>3
    <3>3. Good(new(b), queue)  BY <3>1, <3>2, AllocateGood
    <3> HIDE DEF new
    <3>4. Good(placed(b), queue)  BY <2>2, <3>3, PeerGood DEF peer
    <3> HIDE DEF placed
    <3>5. QED BY <3>4, FilledGood
  <2> HIDE DEF pooled, placed
  <2>6. QED BY <1>2, <1>3, <2>1, <2>3, <2>4, <2>5
<1>6. QED BY <1>4, <1>5

\* the references of garbage go to the queue, and the cleanup thread takes them from there
LEMMA CollectRef ==
  ASSUME RefInv, Collect \/ (\E b \in Blocks : Dispose(b))
  PROVE  RefInv'
<1> USE DEF RefInv
<1>1. UNCHANGED call  BY DEF Collect, Dispose
<1>2. /\ World.mem = mem /\ World.heap = heap /\ World'.mem = mem' /\ World'.heap = heap'
      /\ DOMAIN World = {"mem", "heap"} /\ DOMAIN World' = {"mem", "heap"}
  BY DEF World
<1>3. DOMAIN Fresh = {"at", "size", "keeper", "ref"} /\ Fresh.ref = 0  BY DEF Fresh
<1>4. Shaped(World) /\ Owned(World, queue)  BY DEF Good
<1>5. CASE Collect
  <2> DEFINE G == Garbage
             F == {mem[o].ref : o \in G} \ {0}
  <2>1. /\ queue' = queue \union F /\ UNCHANGED heap
        /\ mem' = [o \in JMemory |-> IF o \in G THEN Fresh ELSE mem[o]]
    BY <1>5 DEF Collect
  <2>2. G \subseteq JMemory  BY DEF Garbage
  <2> HIDE DEF G
  <2>3. \A o \in JMemory : mem'[o].ref = IF o \in G THEN 0 ELSE mem[o].ref  BY <1>3, <2>1
  <2>4. Shaped(World')
    <3>1. \A o \in JMemory : DOMAIN mem'[o] = {"at", "size", "keeper", "ref"}
      BY <1>2, <1>3, <1>4, <2>1 DEF Shaped
    <3>2. \A o \in JMemory : mem'[o].ref \in Blocks \union {0}  BY <1>2, <1>4, <2>3 DEF Shaped
    <3>3. DOMAIN mem' = JMemory  BY <2>1
    <3>4. QED BY <1>2, <1>4, <2>1, <3>1, <3>2, <3>3 DEF Shaped
  <2>5. \A b \in F : b # 0 /\ \E o \in G : mem[o].ref = b  OBVIOUS
  <2>6. \A o \in G : mem[o].ref # 0 => mem[o].ref \in F  OBVIOUS
  <2> HIDE DEF F
  <2>7. \A b \in Blocks : heap'[b].live => b \in queue' \/ \E o \in JMemory : mem'[o].ref = b
    <3>1. TAKE b \in Blocks
    <3>2. HAVE heap'[b].live
    <3>3. b \in queue \/ \E o \in JMemory : mem[o].ref = b  BY <1>2, <1>4, <2>1, <3>2 DEF Owned
    <3>4. \A o \in G : mem[o].ref = b => b \in F  BY <2>6, BlocksAssumption
    <3>5. QED BY <2>1, <2>3, <3>3, <3>4
  <2>8. \A o \in JMemory : mem'[o].ref # 0 => heap'[mem'[o].ref].live /\ mem'[o].ref \notin queue'
    <3>1. TAKE o \in JMemory
    <3>2. HAVE mem'[o].ref # 0
    <3>3. o \notin G /\ mem'[o].ref = mem[o].ref  BY <2>3, <3>2
    <3>4. heap[mem[o].ref].live /\ mem[o].ref \notin queue  BY <1>2, <1>4, <3>2, <3>3 DEF Owned
    <3>5. \A x \in G : mem[x].ref # mem[o].ref
      BY <1>2, <1>4, <2>2, <3>2, <3>3 DEF Owned
    <3>6. mem[o].ref \notin F  BY <2>5, <3>5
    <3>7. QED BY <2>1, <3>3, <3>4, <3>6
  <2>9. \A b \in queue' : b \in Blocks /\ heap'[b].live
    BY <1>2, <1>4, <2>1, <2>2, <2>5 DEF Owned, Shaped
  <2>10. \A o, x \in JMemory : mem'[o].ref = mem'[x].ref /\ mem'[o].ref # 0 => o = x
    BY <1>2, <1>4, <2>3 DEF Owned
  <2>11. \A b \in Blocks : mem'[<<"block", b>>].ref \in {0, b}
    BY <1>2, <1>4, <2>3, Objects DEF Owned
  <2>12. Owned(World', queue')  BY <1>2, <2>7, <2>8, <2>9, <2>10, <2>11 DEF Owned
  <2>13. QED BY <1>1, <2>4, <2>12 DEF Good, Lends
<1>6. ASSUME NEW b \in Blocks, Dispose(b) PROVE RefInv'
  <2>1. b \in queue /\ queue' = queue \ {b} /\ heap' = [heap EXCEPT ![b] = Free] /\ UNCHANGED mem
    BY <1>6, BlocksAssumption DEF Dispose, disposeNative0
  <2>2. DOMAIN heap' = Blocks /\ heap'[b] = Free /\ \A c \in Blocks : c # b => heap'[c] = heap[c]
    BY <1>2, <1>4, <2>1 DEF Shaped
  <2>3. DOMAIN Free = {"live", "size", "text"} /\ Free.live = FALSE  BY DEF Free
  <2>4. Shaped(World')
    <3>1. \A c \in Blocks : DOMAIN heap'[c] = {"live", "size", "text"} /\ heap'[c].live \in BOOLEAN
      <4>1. TAKE c \in Blocks
      <4>2. CASE c = b  BY <2>2, <2>3, <4>2
      <4>3. CASE c # b  BY <1>2, <1>4, <2>2, <4>3 DEF Shaped
      <4>4. QED BY <4>2, <4>3
    <3>2. QED BY <1>2, <1>4, <2>1, <2>2, <3>1 DEF Shaped
  <2>5. Owned(World', queue')  BY <1>2, <1>4, <2>1, <2>2, <2>3 DEF Owned, Shaped
  <2>6. QED BY <1>1, <2>4, <2>5 DEF Good, Lends
<1>7. QED BY <1>5, <1>6

LEMMA RefStep == RefInv /\ [Next]_vars => RefInv'
<1> SUFFICES ASSUME RefInv, [Next]_vars PROVE RefInv'
  OBVIOUS
<1>1. CASE dumperClose \/ findAllDevs \/ lookupDev \/ (\E n \in Packets : DropPacket(n))
           \/ (\E v \in Views : DropView(v)) \/ UNCHANGED vars
  <2>1. UNCHANGED <<mem, heap, queue, call>>
    BY <1>1 DEF dumperClose, findAllDevs, lookupDev, DropPacket, DropView, Dropped, SamePackets, vars
  <2>2. World' = World  BY <2>1 DEF World
  <2>3. QED BY <2>1, <2>2 DEF RefInv, Lends
<1>2. QED BY <1>1, LoopRef, PcapRef, NextRef, UseRef, CollectRef DEF Next, Step

LEMMA RefAlways == Spec => []RefInv
BY InitRef, RefStep, PTL DEF Spec

\* However packets, copies and views are made, dropped and collected, and whichever places malloc
\* gives: a block in use has one reference, so it is freed once and not lost (JMemory,
\* DisposableGC).
THEOREM BlocksFreedOnce == Spec => []OneReferencePerBlock
<1>1. RefInv => OneReferencePerBlock
  <2> SUFFICES ASSUME RefInv, NEW b \in Blocks
               PROVE  LET owners == {o \in JMemory : mem[o].ref = b}
                      IN  /\ heap[b].live <=> (owners # {} \/ b \in queue)
                          /\ Cardinality(owners) <= 1 /\ ~(owners # {} /\ b \in queue)
    BY DEF OneReferencePerBlock
  <2> DEFINE owners == {o \in JMemory : mem[o].ref = b}
  <2>1. World.mem = mem /\ World.heap = heap /\ Owned(World, queue) /\ b # 0
    BY BlocksAssumption DEF World, RefInv, Good
  <2>2. heap[b].live <=> (owners # {} \/ b \in queue)
    <3>1. heap[b].live => owners # {} \/ b \in queue  BY <2>1 DEF Owned
    <3>2. owners # {} => heap[b].live  BY <2>1 DEF Owned
    <3>3. b \in queue => heap[b].live  BY <2>1 DEF Owned
    <3>4. heap[b].live \in BOOLEAN  BY <2>1 DEF RefInv, Good, Shaped
    <3>5. QED BY <3>1, <3>2, <3>3, <3>4
  <2>3. ~(owners # {} /\ b \in queue)  BY <2>1 DEF Owned
  <2>4. Cardinality(owners) <= 1
    <3>1. CASE owners = {}  BY <3>1, FS_EmptySet
    <3>2. CASE owners # {}
      <4>1. PICK o : o \in owners  BY <3>2
      <4>2. owners = {o}  BY <2>1, <4>1 DEF Owned
      <4>3. Cardinality({o}) = 1  BY FS_Singleton
      <4> HIDE DEF owners
      <4>4. QED BY <4>2, <4>3
    <3>3. QED BY <3>1, <3>2
  <2>5. QED BY <2>2, <2>3, <2>4
<1>2. QED BY <1>1, RefAlways, PTL

-----------------------------------------------------------------------------
(* Handles and pending exceptions *)

PcapFields == {"physical", "native", "kind", "held", "break", "holds"}
CallFields == {"on", "p", "kind", "left", "once", "any", "batch", "work", "pending"}

\* A pointer that is not cleared is to a pcap_t that is not freed; a call has its pcap_t and its
\* dump file open; and an exception that broke the loop of a handle that reads one packet at a
\* time finds the flag set before the next one is taken.
HandleInv ==
  /\ DOMAIN pcap = Pcaps /\ \A p \in Pcaps : DOMAIN pcap[p] = PcapFields
  /\ \A p \in Pcaps : pcap[p].physical => pcap[p].native # "freed"
  /\ DOMAIN call = CallFields /\ call.batch \in 0 .. 2
  /\ IF call.on THEN call.p \in Pcaps /\ pcap[call.p].physical ELSE call = NoCall
  /\ call.kind = "dumper" => dumper = "open"
  /\ call.on /\ pcap[call.p].kind # "batch" =>
       /\ call.batch <= 1
       /\ call.pending \notin {"none", "buffer"} => call.batch = 0 /\ pcap[call.p].break
  /\ last # "stale" /\ PendingOnlyInBatches

\* what a step leaves as it is of every handle
SameHandles ==
  /\ DOMAIN pcap' = Pcaps
  /\ \A p \in Pcaps : /\ DOMAIN pcap'[p] = PcapFields /\ pcap'[p].physical = pcap[p].physical
                      /\ pcap'[p].native = pcap[p].native /\ pcap'[p].kind = pcap[p].kind

LEMMA InitHandle == Init => HandleInv
BY DEF Init, HandleInv, NoPcap, NoCall, PcapFields, CallFields, PendingOnlyInBatches

LEMMA NotStale == ASSUME HandleInv, NEW p \in Pcaps PROVE Use(p) = "none"
BY DEF HandleInv, Use, getPcap

\* a step outside of the call that leaves its handle and its dump file open
LEMMA OutsideHandle ==
  ASSUME HandleInv, SameHandles, UNCHANGED call, call.kind = "dumper" => dumper' = dumper,
         call.on => pcap'[call.p].break = pcap[call.p].break \/ pcap'[call.p].break,
         last' = "none"
  PROVE  HandleInv'
BY DEF HandleInv, SameHandles, PendingOnlyInBatches

\* a packet is taken
LEMMA TakenHandle ==
  ASSUME HandleInv, call.batch > 0, NEW e, NEW x \in BOOLEAN, NEW o, Taken(e, x, o),
         e \in {"none", "buffer"} \/ x,
         o # "stale",
         o = "pending" => call.pending # "none" /\ call.kind # "handler"
  PROVE  HandleInv'
<1>1. call.on /\ call.p \in Pcaps /\ pcap[call.p].physical  BY DEF HandleInv, NoCall
<1>2. /\ pcap' = [pcap EXCEPT ![call.p].holds = frames + 1, ![call.p].break = @ \/ x]
      /\ call' = [Counted EXCEPT !.pending = IF call.pending = "none" THEN e ELSE @]
      /\ last' = o /\ UNCHANGED dumper
  BY DEF Taken
<1>3. /\ DOMAIN call' = CallFields /\ call'.batch = call.batch - 1 /\ call'.on = call.on
      /\ call'.p = call.p /\ call'.kind = call.kind
      /\ call'.pending = IF call.pending = "none" THEN e ELSE call.pending
  BY <1>2 DEF Counted, HandleInv, CallFields
<1>4. SameHandles  BY <1>2 DEF SameHandles, HandleInv, PcapFields
<1>5. pcap'[call.p].break <=> pcap[call.p].break \/ x
  BY <1>1, <1>2 DEF HandleInv, PcapFields
<1>6. call'.batch \in 0 .. 2 /\ (call.batch <= 1 => call'.batch = 0)
  BY <1>3 DEF HandleInv
<1>7. ASSUME call'.on, pcap'[call'.p].kind # "batch"
      PROVE  /\ call'.batch <= 1
             /\ call'.pending \notin {"none", "buffer"} => call'.batch = 0 /\ pcap'[call'.p].break
  <2>1. call.batch <= 1 /\ call.pending \in {"none", "buffer"}
    BY <1>1, <1>3, <1>4, <1>7 DEF HandleInv, SameHandles
  <2>2. QED BY <1>3, <1>5, <1>6, <2>1
<1>8. PendingOnlyInBatches'
  <2> SUFFICES ASSUME o = "pending"
               PROVE  call'.kind # "handler" /\ (pcap'[call'.p].kind = "batch" \/ call'.pending = "buffer")
    BY <1>2 DEF PendingOnlyInBatches
  <2>1. call.pending # "none" /\ call.kind # "handler"  OBVIOUS
  <2>2. pcap[call.p].kind = "batch" \/ call.pending = "buffer"
    BY <1>1, <2>1 DEF HandleInv
  <2>3. QED BY <1>1, <1>3, <1>4, <2>1, <2>2 DEF SameHandles
<1>9. /\ DOMAIN pcap' = Pcaps /\ \A p \in Pcaps : DOMAIN pcap'[p] = PcapFields
      /\ \A p \in Pcaps : pcap'[p].physical => pcap'[p].native # "freed"
      /\ call'.on /\ call'.p \in Pcaps /\ pcap'[call'.p].physical
  BY <1>1, <1>3, <1>4 DEF HandleInv, SameHandles
<1>10. call'.kind = "dumper" => dumper' = "open"  BY <1>2, <1>3 DEF HandleInv
<1>11. last' # "stale"  BY <1>2
<1>12. QED BY <1>3, <1>6, <1>7, <1>8, <1>9, <1>10, <1>11 DEF HandleInv

LEMMA LoopHandle == ASSUME HandleInv, LoopStep PROVE HandleInv'
<1>1. CASE pcap_dispatch
  <2>1. CASE \E c \in BOOLEAN : Return(c)
    <3>1. call' = NoCall /\ last' = "none" /\ SameHandles
      BY <2>1 DEF Return, SameHandles, HandleInv, PcapFields
    <3>2. QED BY <3>1 DEF HandleInv, SameHandles, NoCall, CallFields, PendingOnlyInBatches
  <2>2. CASE /\ call.on /\ call.batch = 0 /\ ~pcap[call.p].break
             /\ \E b \in 1 .. (IF pcap[call.p].kind = "batch" THEN 2 ELSE 1) : call' = [call EXCEPT !.batch = b]
             /\ last' = "none" /\ UNCHANGED <<pcap, dumper>>
    <3>1. PICK b \in 1 .. 2 : /\ call' = [call EXCEPT !.batch = b]
                              /\ pcap[call.p].kind # "batch" => b <= 1
      BY <2>2
    <3>2. /\ DOMAIN call' = CallFields /\ call'.batch = b /\ call'.on = call.on /\ call'.p = call.p
          /\ call'.kind = call.kind /\ call'.pending = call.pending
      BY <3>1 DEF HandleInv, CallFields
    <3>3. QED BY <2>2, <3>1, <3>2 DEF HandleInv, PendingOnlyInBatches
  <2>3. QED BY <1>1, <2>1, <2>2 DEF pcap_dispatch
<1>2. ASSUME Handled, call.batch > 0 PROVE HandleInv'
  BY <1>2, TakenHandle DEF Handled
<1>3. ASSUME Forbidden, call.batch > 0, call.pending # "none", call.kind # "handler" PROVE HandleInv'
  BY <1>3, TakenHandle DEF Forbidden
<1>4. CASE pcap_callback  BY <1>2, <1>4, TakenHandle DEF pcap_callback
<1>5. CASE cb_byte_buffer_dispatch  BY <1>2, <1>3, <1>5, TakenHandle DEF cb_byte_buffer_dispatch
<1>6. CASE cb_jbuffer_dispatch  BY <1>2, <1>3, <1>6 DEF cb_jbuffer_dispatch
<1>7. CASE cb_pcap_packet_dispatch  BY <1>2, <1>3, <1>7, TakenHandle DEF cb_pcap_packet_dispatch
<1>8. CASE cb_pcap_dumper_handler
  <2>1. dumper = "open"  BY <1>8 DEF cb_pcap_dumper_handler, HandleInv
  <2>2. QED BY <1>8, <2>1, TakenHandle DEF cb_pcap_dumper_handler
<1>9. QED BY <1>1, <1>4, <1>5, <1>6, <1>7, <1>8 DEF LoopStep

\* a call keeps its Pcap object
LEMMA CallReaches ==
  ASSUME HandleInv, call.on
  PROVE  <<"pcap", call.p>> \in Reachable
<1> DEFINE r == <<"pcap", call.p>>
<1>1. call.p \in {q \in Pcaps : pcap[q].held \/ q = call.p}  BY DEF HandleInv
<1>2. r \notin {None, Scanner}  BY DEF None, Scanner
<1>3. ASSUME NEW A, r \in A PROVE r \in Held(A)  BY <1>2, <1>3 DEF Held
<1> DEFINE I == {data(n) : n \in {m \in Packets : held[m] >= 0 \/ m = call.work}}
                \union {<<"view", v>> : v \in {x \in Views : view[x].held}}
                \union {<<"block", b>> : b \in Blocks \intersect {pool.block}}
           J == {<<"pcap", p>> : p \in {q \in Pcaps : pcap[q].held \/ q = call.p}}
<1>4. Reachable = Held(Held(Held(Held(I \union J))))  BY Zenon DEF Reachable
<1>5. r \in J  BY <1>1
<1> HIDE DEF I, J, r
<1>6. r \in I \union J  BY <1>5
<1>7. QED BY <1>3, <1>4, <1>6 DEF r

LEMMA PcapHandle ==
  ASSUME HandleInv, NEW p \in Pcaps,
         \/ openLive(p) \/ openDead(p) \/ openOffline(p) \/ create(p)
         \/ datalink(p) \/ setNonBlock(p) \/ setDatalink(p) \/ majorVersion(p)
         \/ stats(p) \/ sendPacket(p) \/ setSnaplen(p) \/ activate(p) \/ close(p) \/ breakloop(p)
         \/ dumpOpen(p) \/ DropPcap(p) \/ Finalize(p)
  PROVE  HandleInv'
<1>0. Use(p) = "none"  BY NotStale
<1>1. CASE datalink(p) \/ setNonBlock(p) \/ setDatalink(p) \/ majorVersion(p)
           \/ stats(p) \/ sendPacket(p) \/ setSnaplen(p)
  <2>1. last' = "none" /\ UNCHANGED <<pcap, call, dumper>>
    BY <1>0, <1>1 DEF datalink, setNonBlock, setDatalink, majorVersion, stats, sendPacket, setSnaplen, Asked
  <2>2. SameHandles  BY <2>1 DEF SameHandles, HandleInv
  <2>3. QED BY <2>1, <2>2, OutsideHandle
<1>2. CASE breakloop(p) \/ DropPcap(p) \/ dumpOpen(p)
  <2>1. last' = "none" /\ UNCHANGED call  BY <1>0, <1>2 DEF breakloop, DropPcap, Dropped, dumpOpen
  <2>2. SameHandles  BY <1>2 DEF breakloop, DropPcap, dumpOpen, SameHandles, HandleInv, PcapFields
  <2>3. call.kind = "dumper" => dumper' = dumper
    BY <1>2 DEF breakloop, DropPcap, Dropped, dumpOpen, HandleInv
  <2>4. call.on => pcap'[call.p].break = pcap[call.p].break \/ pcap'[call.p].break
    BY <1>2 DEF breakloop, DropPcap, dumpOpen, HandleInv, PcapFields
  <2>5. QED BY <2>1, <2>2, <2>3, <2>4, OutsideHandle
<1>3. ASSUME UNCHANGED <<call, dumper>>, last' = "none", DOMAIN pcap' = Pcaps,
             call.on => p # call.p, \A r \in Pcaps \ {p} : pcap'[r] = pcap[r],
             DOMAIN pcap'[p] = PcapFields, pcap'[p].physical => pcap'[p].native # "freed"
      PROVE  HandleInv'
  BY <1>3 DEF HandleInv, PendingOnlyInBatches
<1>4. ASSUME NEW native \in {"active", "created"}, NEW kind, Opened(p, native, kind)
      PROVE  HandleInv'
  <2>1. /\ UNCHANGED <<call, dumper>> /\ last' = "none" /\ pcap[p] = NoPcap
        /\ newPcap(p, native, kind) \/ UNCHANGED pcap
    BY <1>4 DEF Opened
  <2>2. call.on => p # call.p  BY <2>1 DEF HandleInv, NoPcap
  <2>3. CASE newPcap(p, native, kind)
    <3>1. /\ DOMAIN pcap' = Pcaps /\ \A r \in Pcaps \ {p} : pcap'[r] = pcap[r]
          /\ DOMAIN pcap'[p] = PcapFields /\ pcap'[p].native # "freed"
      BY <2>3 DEF newPcap, HandleInv, PcapFields
    <3>2. QED BY <1>3, <2>1, <2>2, <3>1
  <2>4. CASE UNCHANGED pcap
    BY <1>3, <2>1, <2>2, <2>4 DEF HandleInv
  <2>5. QED BY <2>1, <2>3, <2>4
<1>5. CASE openLive(p) \/ openDead(p) \/ openOffline(p) \/ create(p)
  BY <1>4, <1>5 DEF openLive, openDead, openOffline, create
<1>6. CASE activate(p)
  <2>1. UNCHANGED <<call, dumper>> /\ last' = "none" /\ (call.on => p # call.p)
    BY <1>0, <1>6 DEF activate, Mine
  <2>2. /\ DOMAIN pcap' = Pcaps /\ \A r \in Pcaps \ {p} : pcap'[r] = pcap[r]
        /\ DOMAIN pcap'[p] = PcapFields /\ (pcap'[p].physical => pcap'[p].native # "freed")
    BY <1>6 DEF activate, HandleInv, PcapFields
  <2>3. QED BY <1>3, <2>1, <2>2
<1>7. CASE close(p) \/ Finalize(p)
  <2>1. UNCHANGED <<call, dumper>> /\ last' = "none"  BY <1>0, <1>7 DEF close, Finalize
  <2>2. call.on => p # call.p  BY <1>7, CallReaches DEF close, Mine, Finalize
  <2>3. /\ DOMAIN pcap' = Pcaps /\ \A r \in Pcaps \ {p} : pcap'[r] = pcap[r]
        /\ DOMAIN pcap'[p] = PcapFields /\ (pcap'[p].physical => pcap'[p].native # "freed")
    BY <1>7 DEF close, Finalize, Closed, HandleInv, PcapFields
  <2>4. QED BY <1>3, <2>1, <2>2, <2>3
<1>8. QED BY <1>1, <1>2, <1>5, <1>6, <1>7

\* the calls that read
LEMMA ReadHandle ==
  ASSUME HandleInv, NEW p \in Pcaps,
         \/ dispatch(p) \/ loop(p) \/ dumperLoop(p) \/ nextPktHdr(p)
         \/ \E n \in Packets : nextEx(p, n) \/ next(p, n)
  PROVE  HandleInv'
<1>0. Use(p) = "none"  BY NotStale
<1>1. CASE dispatch(p) \/ loop(p) \/ dumperLoop(p)
  <2>1. PICK k, c, o : Begin(p, k, c, o)  BY <1>1 DEF dispatch, loop, dumperLoop
  <2>2. last' = "none" /\ UNCHANGED <<pcap, dumper>>  BY <1>0, <2>1 DEF Begin
  <2>3. \/ call' = NoCall
        \/ /\ Usable(p) /\ (k = "dumper" => dumper = "open")
           /\ \E n : call' = [NoCall EXCEPT !.on = TRUE, !.p = p, !.kind = k, !.left = c, !.once = o, !.work = n]
    BY <2>1 DEF Begin
  <2>4. CASE call' = NoCall
    BY <2>2, <2>4 DEF HandleInv, NoCall, CallFields, PendingOnlyInBatches
  <2>5. CASE /\ Usable(p) /\ (k = "dumper" => dumper = "open")
             /\ \E n : call' = [NoCall EXCEPT !.on = TRUE, !.p = p, !.kind = k, !.left = c, !.once = o, !.work = n]
    <3>1. PICK n : call' = [NoCall EXCEPT !.on = TRUE, !.p = p, !.kind = k, !.left = c, !.once = o, !.work = n]
      BY <2>5
    <3>2. /\ DOMAIN call' = CallFields /\ call'.on /\ call'.p = p /\ call'.kind = k
          /\ call'.batch = 0 /\ call'.pending = "none"
      BY <3>1 DEF NoCall, CallFields
    <3>3. QED BY <2>2, <2>5, <3>2 DEF HandleInv, PendingOnlyInBatches, Usable, getPcap
  <2>6. QED BY <2>3, <2>4, <2>5
<1>2. ASSUME Readable(p), Got(p) \/ Nothing(p) \/ (last' = Use(p) /\ UNCHANGED pcap), UNCHANGED <<call, dumper>>
      PROVE  HandleInv'
  <2>1. last' = "none"  BY <1>0, <1>2 DEF Got, Nothing
  <2>2. SameHandles  BY <1>2 DEF Got, Nothing, SameHandles, HandleInv, PcapFields
  <2>3. call.on => p # call.p  BY <1>2 DEF Readable, Mine
  <2>4. call.on => pcap'[call.p].break = pcap[call.p].break
    BY <1>2, <2>3 DEF Got, Nothing, HandleInv
  <2>5. QED BY <1>2, <2>1, <2>2, <2>4, OutsideHandle
<1>3. CASE nextPktHdr(p)  BY <1>2, <1>3 DEF nextPktHdr
<1>4. ASSUME NEW n \in Packets, nextEx(p, n) PROVE HandleInv'  BY <1>2, <1>4 DEF nextEx
<1>5. ASSUME NEW n \in Packets, next(p, n) PROVE HandleInv'  BY <1>2, <1>5 DEF next
<1>6. QED BY <1>1, <1>3, <1>4, <1>5

LEMMA HandleStep == HandleInv /\ [Next]_vars => HandleInv'
<1> SUFFICES ASSUME HandleInv, [Next]_vars PROVE HandleInv'
  OBVIOUS
<1>1. ASSUME UNCHANGED <<pcap, call>>, last' = "none", call.kind = "dumper" => dumper' = dumper
      PROVE  HandleInv'
  <2>1. SameHandles  BY <1>1 DEF SameHandles, HandleInv
  <2>2. QED BY <1>1, <2>1, OutsideHandle
<1>2. CASE dumperClose \/ findAllDevs \/ lookupDev
  BY <1>1, <1>2 DEF dumperClose, findAllDevs, lookupDev
<1>3. CASE (\E n \in Packets : DropPacket(n)) \/ (\E v \in Views : DropView(v))
  BY <1>1, <1>3 DEF DropPacket, DropView, Dropped
<1>4. CASE \/ \E v \in Views, n \in Packets : peerHeaderByIndex(v, n) \/ peerBuffer(v, n)
           \/ \E n, d \in Packets : transferStateAndDataTo(n, d)
  <2>1. CASE \E v \in Views, n \in Packets : peerHeaderByIndex(v, n) \/ peerBuffer(v, n)
    BY <1>1, <2>1 DEF peerHeaderByIndex, peerBuffer
  <2>2. ASSUME NEW n \in Packets, NEW d \in Packets, transferStateAndDataTo(n, d) PROVE HandleInv'
    <3>1. UNCHANGED <<pcap, call, dumper>>  BY <2>2 DEF transferStateAndDataTo
    <3>2. last' = "none"  BY <2>2 DEF transferStateAndDataTo, Copied
    <3>3. QED BY <1>1, <3>1, <3>2
  <2>3. QED BY <1>4, <2>1, <2>2
<1>5. CASE Collect \/ (\E b \in Blocks : Dispose(b))  BY <1>1, <1>5 DEF Collect, Dispose
<1>6. CASE UNCHANGED vars  BY <1>6 DEF vars, HandleInv, PendingOnlyInBatches
<1>7. QED BY <1>2, <1>3, <1>4, <1>5, <1>6, LoopHandle, PcapHandle, ReadHandle DEF Next, Step

\* Whatever thread closes, breaks, finalizes or uses a Pcap, and whatever the handlers throw: no
\* native method uses a pcap_t or a dump file that is freed, and Java is called with an exception
\* pending only where the loop has not looked at its flag since.
THEOREM HandlesAreLive == Spec => [](NoStaleHandle /\ PendingOnlyInBatches)
<1>1. HandleInv => NoStaleHandle /\ PendingOnlyInBatches  BY DEF HandleInv, NoStaleHandle
<1>2. QED BY <1>1, InitHandle, HandleStep, PTL DEF Spec

-----------------------------------------------------------------------------
(* What kept packets rest on *)

\* packet objects that the application has, or that a call lends
Used(n) == held[n] >= 0 \/ n = call.work

\* the private memory of packet d has none of len bytes at an address
Clear(d, at, len) ==
  LET m == mem[memory(d)]
  IN  m.at # NULL /\ m.at[2] = at[2] => at[3] + len <= m.at[3] \/ m.at[3] + m.size <= at[3]

\* object a owns the block of an address, where len bytes of the k-th packet lie
Stored(w, a, at, len, k) ==
  /\ at[1] = "heap" /\ at[2] \in Blocks /\ at[3] \in Nat
  /\ a \in JMemory /\ w.mem[a].ref = at[2]
  /\ [off |-> at[3], len |-> len, of |-> k] \in w.heap[at[2]].text

\* a is the capture header of packet n, or a block of the pool that has given these bytes out and
\* not to another packet
Reserved(a, n, at, len) ==
  a # header(n) =>
    /\ a = <<"block", at[2]>>
    /\ at[2] = pool.block => at[3] + len <= pool.current
    /\ \A d \in Packets : Used(d) /\ d # n => Clear(d, at, len)

Claim(a, n, at, len, k) == Stored(World, a, at, len, k) /\ Reserved(a, n, at, len)

\* libpcap's buffer and the scanner's memory have the k-th packet
Shows(p, k) == pcap[p].held /\ pcap[p].native = "active" /\ pcap[p].holds = k
InRing(at, k) == at = <<"ring", 0, 0>> /\ ring = k

\* A packet that the application counts on has its parts in one block, which its data keeps, or
\* shows libpcap's memory; its state may be the scanner's in both cases.
KeptPacket(n) ==
  LET k == held[n]
      a == mem[data(n)].keeper
  IN  /\ k \in DOMAIN Caplen
      /\ \/ /\ Claim(a, n, mem[data(n)].at, Caplen[k], k)
            /\ Claim(a, n, mem[header(n)].at, HeaderSize, k)
            /\ Claim(a, n, mem[state(n)].at, StateSize, k) \/ InRing(mem[state(n)].at, k)
         \/ \E p \in Pcaps :
              /\ Shows(p, k) /\ InRing(mem[state(n)].at, k)
              /\ mem[data(n)].at = <<"pcap", p, 1>> /\ mem[header(n)].at = <<"pcap", p, 0>>

KeptView(v) ==
  LET n == view[v].from
      k == view[v].shows
      a == mem[<<"view", v>>].keeper
      at == mem[<<"view", v>>].at
      st == mem[<<"vstate", v>>].at
  IN  /\ n \in Packets /\ k \in DOMAIN Caplen
      /\ \/ /\ Claim(a, n, at, Caplen[k], k)
            /\ view[v].of # 0 => Claim(a, n, st, StateSize, k) \/ InRing(st, k)
         \/ \E p \in Pcaps : /\ Shows(p, k) /\ at = <<"pcap", p, 1>>
                             /\ view[v].of # 0 => InRing(st, k)

\* The private memory of a packet is in a block of the pool and no other packet's; its capture
\* header is there or owns a block.
InPool(n) ==
  LET m == mem[memory(n)]
  IN  m.at # NULL =>
        /\ m.at = <<"heap", m.at[2], m.at[3]>> /\ m.at[2] \in Blocks /\ m.at[3] \in Nat /\ m.size \in Nat
        /\ HeaderSize <= m.size
        /\ m.keeper = <<"block", m.at[2]>> /\ mem[m.keeper].ref = m.at[2]
        /\ m.at[2] = pool.block => m.at[3] + m.size <= pool.current
        /\ \A d \in Packets : Used(d) /\ d # n => Clear(d, m.at, m.size)

Topped(n) ==
  LET m == mem[memory(n)].at
      h == mem[header(n)].at
  IN  h[1] = "heap" => \/ h[2] \in Blocks /\ h[3] \in Nat /\ mem[header(n)].ref = h[2]
                       \/ m # NULL /\ h[2] = m[2] /\ h[3] = m[3]

\* what a block holds does not overlap
Texts(w) ==
  \A b \in Blocks : \A e, f \in w.heap[b].text :
    /\ e.off \in Nat /\ e.len \in Nat \ {0}
    /\ e = f \/ e.off + e.len <= f.off \/ f.off + f.len <= e.off

PoolBlock ==
  /\ DOMAIN pool = {"block", "current"} /\ pool.current \in Nat
  /\ pool.block # 0 =>
       LET o == <<"block", pool.block>>
       IN  /\ pool.block \in Blocks
           /\ mem[o].at = <<"heap", pool.block, 0>> /\ mem[o].keeper = o /\ mem[o].ref = pool.block

Counting ==
  /\ frames \in Nat /\ frames + call.batch <= Len(Caplen)
  /\ held \in [Packets -> Int]
  /\ view \in [Views -> [held : BOOLEAN, of : Packets \union {0}, from : Packets \union {0}, shows : Int]]
  /\ call.work \in Packets => held[call.work] <= 0 /\ \A v \in Views : view[v].from # call.work

KeepInv ==
  /\ Counting /\ PoolBlock /\ Texts(World)
  /\ \A n \in Packets : held[n] > 0 => KeptPacket(n)
  /\ \A v \in Views : view[v].held => KeptView(v)
  /\ \A n \in Packets : Used(n) => InPool(n) /\ Topped(n)

\* v differs from w in the objects of T at most, and their blocks may be freed
Touch(w, v, T) ==
  /\ \A x \in JMemory \ T : v.mem[x] = w.mem[x]
  /\ \A x \in JMemory : v.mem[x].ref \in {w.mem[x].ref, 0}
  /\ \A b \in Blocks : \/ v.heap[b].text = w.heap[b].text
                       \/ v.heap[b].text = {} /\ \E x \in JMemory \intersect T : w.mem[x].ref = b

LEMMA TouchChain ==
  ASSUME NEW u, NEW v, NEW w, NEW S, NEW T, Touch(u, v, S), Touch(v, w, T)
  PROVE  Touch(u, w, S \union T)
<1>1. \A x \in JMemory \ (S \union T) : w.mem[x] = u.mem[x]  BY DEF Touch
<1>2. \A x \in JMemory : w.mem[x].ref \in {u.mem[x].ref, 0}  BY DEF Touch
<1>3. ASSUME NEW b \in Blocks
      PROVE  \/ w.heap[b].text = u.heap[b].text
             \/ w.heap[b].text = {} /\ \E x \in JMemory \intersect (S \union T) : u.mem[x].ref = b
  <2>1. b # 0  BY BlocksAssumption
  <2>2. \A x \in JMemory : v.mem[x].ref = b => u.mem[x].ref = b  BY <2>1 DEF Touch
  <2>3. QED BY <2>2 DEF Touch
<1>4. QED BY <1>1, <1>2, <1>3 DEF Touch

LEMMA TouchNothing == ASSUME NEW w, NEW T PROVE Touch(w, w, T)
BY DEF Touch

LEMMA CleanupTouch ==
  ASSUME NEW w, NEW q, Good(w, q), NEW o \in JMemory
  PROVE  Touch(w, cleanup(w, o), {o}) /\ cleanup(w, o).mem[o] = Fresh
<1> DEFINE v == cleanup(w, o)
           r == w.mem[o].ref
<1>1. Shaped(w) /\ Owned(w, q) /\ r \in Blocks \union {0}  BY DEF Good, Shaped
<1>2. v.mem = [w.mem EXCEPT ![o] = Fresh] /\ v.heap = disposeNative0(w.heap, r)
  BY DEF cleanup
<1>3. v.mem[o] = Fresh /\ \A x \in JMemory : x # o => v.mem[x] = w.mem[x]
  BY <1>1, <1>2 DEF Shaped
<1>4. \A b \in Blocks : IF b = r THEN v.heap[b] = Free ELSE v.heap[b] = w.heap[b]
  BY <1>1, <1>2, BlocksAssumption DEF Shaped, disposeNative0
<1>5. Fresh.ref = 0 /\ Free.text = {}  BY DEF Fresh, Free
<1> HIDE DEF v
<1>6. \A x \in JMemory : v.mem[x].ref \in {w.mem[x].ref, 0}  BY <1>3, <1>5
<1>7. QED BY <1>3, <1>4, <1>5, <1>6 DEF Touch, v

\* An object whose address is set.
LEMMA AtTouch ==
  ASSUME NEW w, Shaped(w), NEW o \in JMemory, NEW a
  PROVE  /\ Touch(w, [w EXCEPT !.mem[o].at = a], {o})
         /\ [w EXCEPT !.mem[o].at = a].mem[o] = [w.mem[o] EXCEPT !.at = a]
<1> DEFINE x == [w EXCEPT !.mem[o].at = a]
<1>1. /\ x.heap = w.heap /\ x.mem[o] = [w.mem[o] EXCEPT !.at = a]
      /\ \A c \in JMemory : c # o => x.mem[c] = w.mem[c]
  BY DEF Shaped
<1>2. DOMAIN w.mem[o] = {"at", "size", "keeper", "ref"}  BY DEF Shaped
<1> HIDE DEF x
<1>3. x.mem[o].ref = w.mem[o].ref  BY <1>1, <1>2
<1>4. Touch(w, x, {o})  BY <1>1, <1>3 DEF Touch
<1>5. QED BY <1>1, <1>4 DEF x

LEMMA PeerTouch ==
  ASSUME NEW w, NEW q, Good(w, q), NEW o \in JMemory, NEW a, NEW n, NEW k
  PROVE  LET v == peer0(w, o, a, n, k)
         IN  Touch(w, v, {o}) /\ v.mem[o].at = a /\ v.mem[o].size = n /\ v.mem[o].keeper = k
<1> DEFINE c == IF w.mem[o].at # a THEN cleanup(w, o) ELSE w
           v == [c EXCEPT !.mem[o].at = a, !.mem[o].size = n, !.mem[o].keeper = k]
<1>1. Good(c, q) /\ Touch(w, c, {o})  BY CleanupGood, CleanupTouch, TouchNothing
<1>2. peer0(w, o, a, n, k) = v  BY DEF peer0
<1> HIDE DEF c
<1>3. Shaped(c)  BY <1>1 DEF Good
<1>4. DOMAIN c.mem[o] = {"at", "size", "keeper", "ref"}  BY <1>1 DEF Good, Shaped
<1>5. /\ v.heap = c.heap /\ v.mem[o] = [c.mem[o] EXCEPT !.at = a, !.size = n, !.keeper = k]
       /\ \A x \in JMemory : x # o => v.mem[x] = c.mem[x]
  BY <1>3 DEF Shaped
<1> HIDE DEF v
<1>6. v.mem[o].at = a /\ v.mem[o].size = n /\ v.mem[o].keeper = k /\ v.mem[o].ref = c.mem[o].ref
  BY <1>4, <1>5
<1>7. Touch(c, v, {o})  BY <1>6, <1>5 DEF Touch
<1>8. Touch(w, v, {o} \union {o})  BY <1>1, <1>7, TouchChain
<1>9. {o} \union {o} = {o}  OBVIOUS
<1>10. QED BY <1>2, <1>6, <1>8, <1>9

LEMMA SourceTouch ==
  ASSUME NEW w, NEW q, Good(w, q), NEW o \in JMemory, NEW src, NEW off, NEW len
  PROVE  LET v == peer(w, o, src, off, len)
         IN  Touch(w, v, {o}) /\ v.mem[o].at = Shift(w.mem[src].at, off)
             /\ v.mem[o].size = len /\ v.mem[o].keeper = w.mem[src].keeper
<1> DEFINE v == peer(w, o, src, off, len)
<1>1. PICK a, k : a = Shift(w.mem[src].at, off) /\ k = w.mem[src].keeper  OBVIOUS
<1>2. v = peer0(w, o, a, len, k)  BY <1>1 DEF peer
<1> HIDE DEF v
<1>3. Touch(w, v, {o}) /\ v.mem[o].at = a /\ v.mem[o].size = len /\ v.mem[o].keeper = k
  BY <1>2, PeerTouch
<1>4. QED BY <1>1, <1>3 DEF v

LEMMA PhysicalTouch ==
  ASSUME NEW w, NEW q, Good(w, q), NEW o \in JMemory, NEW a
  PROVE  LET v == setJMemoryPhysical(w, o, a)
         IN  Touch(w, v, {o}) /\ v.mem[o] = [Fresh EXCEPT !.at = a]
<1> DEFINE c == cleanup(w, o)
           v == [c EXCEPT !.mem[o].at = a]
<1>1. Good(c, q) /\ Touch(w, c, {o}) /\ c.mem[o] = Fresh  BY CleanupGood, CleanupTouch
<1>2. setJMemoryPhysical(w, o, a) = v  BY DEF setJMemoryPhysical
<1> HIDE DEF c
<1>3. Shaped(c)  BY <1>1 DEF Good
<1>4. Touch(c, v, {o}) /\ v.mem[o] = [c.mem[o] EXCEPT !.at = a]  BY <1>3, AtTouch
<1>5. Touch(c, v, {o}) /\ v.mem[o] = [Fresh EXCEPT !.at = a]  BY <1>1, <1>4
<1> HIDE DEF v
<1>6. Touch(w, v, {o} \union {o})  BY <1>1, <1>5, TouchChain
<1>7. {o} \union {o} = {o}  OBVIOUS
<1>8. QED BY <1>2, <1>5, <1>6, <1>7

\* what another object keeps stays, and what blocks hold does not overlap
LEMMA TouchKeeps ==
  ASSUME NEW w, NEW q, Good(w, q), NEW v, NEW T, Touch(w, v, T)
  PROVE  /\ \A a, at, len, k : a \notin T /\ Stored(w, a, at, len, k) => Stored(v, a, at, len, k)
         /\ Texts(w) => Texts(v)
<1>1. ASSUME NEW a, NEW at, NEW len, NEW k, a \notin T, Stored(w, a, at, len, k)
      PROVE  Stored(v, a, at, len, k)
  <2>1. a \in JMemory /\ w.mem[a].ref = at[2] /\ at[2] \in Blocks /\ at[2] # 0
    BY <1>1, BlocksAssumption DEF Stored
  <2>2. v.mem[a] = w.mem[a]  BY <1>1, <2>1 DEF Touch
  <2>3. ~\E x \in JMemory \intersect T : w.mem[x].ref = at[2]  BY <1>1, <2>1 DEF Good, Owned
  <2>4. v.heap[at[2]].text = w.heap[at[2]].text  BY <2>1, <2>3 DEF Touch
  <2>5. QED BY <1>1, <2>2, <2>4 DEF Stored
<1>2. ASSUME Texts(w) PROVE Texts(v)
  <2>1. \A b \in Blocks : v.heap[b].text \subseteq w.heap[b].text  BY DEF Touch
  <2>2. QED BY <1>2, <2>1 DEF Texts
<1>3. QED BY <1>1, <1>2

\* Bytes are copied to an address.
LEMMA CopyKeeps ==
  ASSUME NEW w, NEW q, Good(w, q), NEW x, NEW n \in Nat \ {0}, NEW j, x[2] \in Blocks, x[3] \in Nat,
         Texts(w)
  PROVE  /\ memcpy(w, x, n, j).mem = w.mem
         /\ Texts(memcpy(w, x, n, j))
         /\ \A a, at, len, k :
              /\ Stored(w, a, at, len, k)
              /\ at[2] # x[2] \/ at[3] + len <= x[3] \/ x[3] + n <= at[3]
              => Stored(memcpy(w, x, n, j), a, at, len, k)
         /\ \A a \in JMemory : x[1] = "heap" /\ w.mem[a].ref = x[2]
              => Stored(memcpy(w, x, n, j), a, x, n, j)
<1> DEFINE v == memcpy(w, x, n, j)
           new == [off |-> x[3], len |-> n, of |-> j]
           old == {e \in w.heap[x[2]].text : e.off + e.len <= x[3] \/ x[3] + n <= e.off}
<1>1. v.mem = w.mem /\ v.heap[x[2]].text = old \union {new}
      /\ \A b \in Blocks : b # x[2] => v.heap[b] = w.heap[b]
  BY DEF memcpy, Good, Shaped
<1>2. new.off = x[3] /\ new.len = n  OBVIOUS
<1>3. old \subseteq w.heap[x[2]].text
      /\ \A e \in old : e.off + e.len <= x[3] \/ x[3] + n <= e.off
  OBVIOUS
<1>4. \A e \in w.heap[x[2]].text : e.off + e.len <= x[3] \/ x[3] + n <= e.off => e \in old
  OBVIOUS
<1>5. new \in v.heap[x[2]].text  BY <1>1
<1> HIDE DEF v, old, new
<1>6. Texts(v)
  <2> SUFFICES ASSUME NEW b \in Blocks, NEW e \in v.heap[b].text, NEW f \in v.heap[b].text
               PROVE  /\ e.off \in Nat /\ e.len \in Nat \ {0}
                      /\ e = f \/ e.off + e.len <= f.off \/ f.off + f.len <= e.off
    BY DEF Texts
  <2>1. CASE b # x[2]  BY <1>1, <2>1 DEF Texts
  <2>2. CASE b = x[2]
    <3>1. e \in old \/ e = new  BY <1>1, <2>2
    <3>2. f \in old \/ f = new  BY <1>1, <2>2
    <3>3. ASSUME NEW g \in old
          PROVE  g.off \in Nat /\ g.len \in Nat \ {0} /\ (g.off + g.len <= x[3] \/ x[3] + n <= g.off)
      BY <1>3 DEF Texts
    <3>4. CASE e \in old /\ f \in old  BY <1>3, <3>4, <2>2 DEF Texts
    <3>5. CASE e \in old /\ f = new  BY <1>2, <3>3, <3>5
    <3>6. CASE e = new /\ f \in old  BY <1>2, <3>3, <3>6
    <3>7. CASE e = new /\ f = new  BY <1>2, <3>7
    <3>8. QED BY <3>1, <3>2, <3>4, <3>5, <3>6, <3>7
  <2>3. QED BY <2>1, <2>2
<1>7. ASSUME NEW a, NEW at, NEW len, NEW k, Stored(w, a, at, len, k),
             at[2] # x[2] \/ at[3] + len <= x[3] \/ x[3] + n <= at[3]
      PROVE  Stored(v, a, at, len, k)
  <2> DEFINE e == [off |-> at[3], len |-> len, of |-> k]
  <2>1. e \in w.heap[at[2]].text /\ e.off = at[3] /\ e.len = len /\ at[2] \in Blocks  BY <1>7 DEF Stored
  <2> HIDE DEF e
  <2>2. e \in v.heap[at[2]].text
    <3>1. CASE at[2] # x[2]  BY <1>1, <2>1, <3>1
    <3>2. CASE at[2] = x[2]
      <4>1. e \in old  BY <1>4, <1>7, <2>1, <3>2
      <4>2. QED BY <1>1, <3>2, <4>1
    <3>3. QED BY <3>1, <3>2
  <2>3. QED BY <1>1, <1>7, <2>2 DEF Stored, e
<1>8. ASSUME NEW a \in JMemory, x[1] = "heap", w.mem[a].ref = x[2] PROVE Stored(v, a, x, n, j)
  BY <1>1, <1>5, <1>8 DEF Stored, new
<1>9. QED BY <1>1, <1>6, <1>7, <1>8 DEF v

LEMMA AllocateKeeps ==
  ASSUME NEW w, NEW q, Good(w, q), NEW o \in JMemory, NEW b \in Blocks, NEW n, ~w.heap[b].live
  PROVE  LET v == allocate(w, o, b, n)
         IN  /\ v.mem[o] = [at |-> <<"heap", b, 0>>, size |-> n, keeper |-> o, ref |-> b]
             /\ \A x \in JMemory \ {o} : v.mem[x] = w.mem[x]
             /\ \A a, at, len, k : Stored(w, a, at, len, k) =>
                  at[2] # b /\ (a # o => Stored(v, a, at, len, k))
             /\ Texts(w) => Texts(v)
<1> DEFINE v == allocate(w, o, b, n)
           x == [at |-> <<"heap", b, 0>>, size |-> n, keeper |-> o, ref |-> b]
           y == [live |-> TRUE, size |-> n, text |-> {}]
<1>1. v.mem = [w.mem EXCEPT ![o] = x] /\ v.heap = [w.heap EXCEPT ![b] = y] /\ y.text = {}
  BY DEF allocate
<1> HIDE DEF v, y
<1>2. v.mem[o] = x /\ \A z \in JMemory \ {o} : v.mem[z] = w.mem[z]
  BY <1>1 DEF Good, Shaped
<1>3. v.heap[b] = y /\ \A c \in Blocks : c # b => v.heap[c] = w.heap[c]
  BY <1>1 DEF Good, Shaped
<1> HIDE DEF x
<1>4. ASSUME NEW a, NEW at, NEW len, NEW k, Stored(w, a, at, len, k)
      PROVE  at[2] # b /\ (a # o => Stored(v, a, at, len, k))
  <2>1. at[2] # b  BY <1>4, BlocksAssumption DEF Stored, Good, Owned
  <2>2. QED BY <1>2, <1>3, <1>4, <2>1 DEF Stored
<1>5. Texts(w) => Texts(v)
  <2>1. \A c \in Blocks : v.heap[c].text \subseteq w.heap[c].text  BY <1>1, <1>3
  <2>2. QED BY <2>1 DEF Texts
<1>6. QED BY <1>2, <1>4, <1>5 DEF v, x

-----------------------------------------------------------------------------
(* What is kept reads back *)

LEMMA StoredRead ==
  ASSUME Good(World, queue), Texts(World), NEW o, NEW a, NEW len, NEW k,
         Stored(World, a, mem[o].at, len, k)
  PROVE  Read(o) = k
<1> DEFINE at == mem[o].at
           e == [off |-> at[3], len |-> len, of |-> k]
           t == heap[at[2]].text
<1>1. World.mem = mem /\ World.heap = heap  BY DEF World
<1>2. at[1] = "heap" /\ at[2] \in Blocks /\ at[2] # 0 /\ a \in JMemory /\ mem[a].ref = at[2] /\ e \in t
  BY <1>1, BlocksAssumption DEF Stored
<1>3. heap[at[2]].live  BY <1>1, <1>2 DEF Good, Owned
<1>4. at # NULL  BY <1>2 DEF NULL
<1>5. e.off = at[3] /\ e.of = k  OBVIOUS
<1> HIDE DEF e
<1>6. \A f \in t : f.off = at[3] => f = e
  <2>1. TAKE f \in t
  <2>2. HAVE f.off = at[3]
  <2>3. /\ e.off \in Nat /\ e.len \in Nat \ {0} /\ f.len \in Nat \ {0}
        /\ e = f \/ e.off + e.len <= f.off \/ f.off + f.len <= e.off
    BY <1>1, <1>2 DEF Texts
  <2>4. QED BY <1>5, <2>2, <2>3
<1>7. (CHOOSE f \in t : f.off = at[3]) = e  BY <1>2, <1>5, <1>6
<1>8. Read(o) = IF heap[at[2]].live /\ \E f \in t : f.off = at[3]
                THEN (CHOOSE f \in t : f.off = at[3]).of ELSE 0
  BY <1>2, <1>4 DEF Read
<1>9. QED BY <1>2, <1>3, <1>5, <1>7, <1>8

LEMMA ShownRead ==
  ASSUME NEW o, NEW p, NEW k, NEW i, Shows(p, k), mem[o].at = <<"pcap", p, i>>
  PROVE  Read(o) = k
BY DEF Read, Shows, NULL

LEMMA RingRead == ASSUME NEW o, NEW k, InRing(mem[o].at, k) PROVE Read(o) = k
BY DEF Read, InRing, NULL

\* the packet and the views that it keeps
LEMMA KeptReads ==
  ASSUME Good(World, queue), KeepInv
  PROVE  KeptPacketsReadBack
<1>1. ASSUME NEW n \in Packets, held[n] > 0
      PROVE  getByte(n) = held[n] /\ hdr_caplen(n) = held[n] /\ getHeaderCount(n) = held[n]
  <2> DEFINE k == held[n]
             a == mem[data(n)].keeper
  <2>1. \/ /\ Stored(World, a, mem[data(n)].at, Caplen[k], k)
           /\ Stored(World, a, mem[header(n)].at, HeaderSize, k)
           /\ Stored(World, a, mem[state(n)].at, StateSize, k) \/ InRing(mem[state(n)].at, k)
        \/ \E p \in Pcaps :
             /\ Shows(p, k) /\ InRing(mem[state(n)].at, k)
             /\ mem[data(n)].at = <<"pcap", p, 1>> /\ mem[header(n)].at = <<"pcap", p, 0>>
    BY <1>1 DEF KeepInv, KeptPacket, Claim
  <2>2. Texts(World)  BY DEF KeepInv
  <2> HIDE DEF k, a
  <2>3. Read(data(n)) = k /\ Read(header(n)) = k /\ Read(state(n)) = k
    BY <2>1, <2>2, StoredRead, ShownRead, RingRead
  <2>4. QED BY <2>3 DEF getByte, hdr_caplen, getHeaderCount, k
<1>2. ASSUME NEW v \in Views, view[v].held
      PROVE  /\ Read(<<"view", v>>) = view[v].shows
             /\ view[v].of # 0 => getOffset(v) = view[v].shows
  <2> DEFINE k == view[v].shows
             a == mem[<<"view", v>>].keeper
             x == <<"view", v>>
             y == <<"vstate", v>>
  <2>1. \/ /\ Stored(World, a, mem[x].at, Caplen[k], k)
           /\ view[v].of # 0 => Stored(World, a, mem[y].at, StateSize, k) \/ InRing(mem[y].at, k)
        \/ \E p \in Pcaps : /\ Shows(p, k) /\ mem[x].at = <<"pcap", p, 1>>
                            /\ view[v].of # 0 => InRing(mem[y].at, k)
    BY <1>2 DEF KeepInv, KeptView, Claim
  <2>2. Texts(World)  BY DEF KeepInv
  <2> HIDE DEF k, a, x, y
  <2>3. Read(x) = k /\ (view[v].of # 0 => Read(y) = k)
    BY <2>1, <2>2, StoredRead, ShownRead, RingRead
  <2>4. QED BY <2>3 DEF getOffset, k, x, y
<1>3. QED BY <1>1, <1>2 DEF KeptPacketsReadBack

-----------------------------------------------------------------------------
(* What a step leaves alone *)

\* with the objects of T changed and bytes of the packets of N written
SameObjects(T) == \A o \in JMemory \ T : mem'[o] = mem[o]
KeepsClaims(T, N) ==
  \A a, n, at, len, k :
    n \in Packets \ N /\ a \notin T /\ Claim(a, n, at, len, k) => Claim(a, n, at, len, k)'

\* libpcap's memory and the scanner's show what they did
Calm == ring' = ring /\ \A p \in Pcaps, k \in Int : Shows(p, k) => Shows(p, k)'

LEMMA PacketStays ==
  ASSUME NEW T, NEW N, SameObjects(T), KeepsClaims(T, N), NEW n \in Packets \ N,
         KeptPacket(n), held[n] \in Int, held'[n] = held[n],
         mem[data(n)].at[1] = "heap" => mem[data(n)].keeper \notin T,
         {header(n), data(n), state(n)} \intersect T = {}, Calm \/ ~Borrowed(n)
  PROVE  KeptPacket(n)'
<1>0. PICK k, a : k = held[n] /\ a = mem[data(n)].keeper  OBVIOUS
<1>1. header(n) \in JMemory /\ data(n) \in JMemory /\ state(n) \in JMemory  BY Objects DEF Parts
<1>2. mem'[header(n)] = mem[header(n)] /\ mem'[data(n)] = mem[data(n)] /\ mem'[state(n)] = mem[state(n)]
  BY <1>1 DEF SameObjects
<1>3. mem[data(n)].at[1] = "heap" => \A at, len : Claim(a, n, at, len, k) => Claim(a, n, at, len, k)'
  BY <1>0 DEF KeepsClaims
<1>4. InRing(mem[state(n)].at, k) => InRing(mem[state(n)].at, k)'
  BY <1>2 DEF InRing, Calm, Borrowed, Foreign, Parts
<1>5. ASSUME NEW p \in Pcaps, Shows(p, k), mem[data(n)].at = <<"pcap", p, 1>>
      PROVE  Shows(p, k)'
  <2>1. Borrowed(n)  BY <1>5 DEF Borrowed, Foreign, Parts
  <2>2. QED BY <1>0, <1>5, <2>1 DEF Calm
<1>6. Claim(a, n, mem[data(n)].at, Caplen[k], k) => mem[data(n)].at[1] = "heap"  BY DEF Claim, Stored
<1>7. QED BY <1>0, <1>2, <1>3, <1>4, <1>5, <1>6 DEF KeptPacket

LEMMA ViewStays ==
  ASSUME NEW T, NEW N, SameObjects(T), KeepsClaims(T, N), NEW v \in Views, KeptView(v),
         view'[v] = view[v], view[v].shows \in Int, view[v].from \notin N,
         mem[<<"view", v>>].at[1] = "heap" => mem[<<"view", v>>].keeper \notin T, ViewParts(v) \intersect T = {},
         Calm \/ ~\E o \in ViewParts(v) : Foreign(mem[o].at)
  PROVE  KeptView(v)'
<1> DEFINE x == <<"view", v>>
           y == <<"vstate", v>>
<1>0. PICK n, k, a : n = view[v].from /\ k = view[v].shows /\ a = mem[x].keeper  OBVIOUS
<1>1. x \in JMemory /\ y \in JMemory /\ x \in ViewParts(v) /\ y \in ViewParts(v)  BY Objects DEF ViewParts
<1>2. mem'[x] = mem[x] /\ mem'[y] = mem[y]  BY <1>1 DEF SameObjects
<1>3. n \in Packets  BY <1>0 DEF KeptView
<1>4. mem[x].at[1] = "heap" => \A at, len : Claim(a, n, at, len, k) => Claim(a, n, at, len, k)'
  BY <1>0, <1>3 DEF KeepsClaims
<1>5. InRing(mem[y].at, k) => InRing(mem[y].at, k)'
  BY <1>1, <1>2 DEF InRing, Calm, Foreign
<1>6. ASSUME NEW p \in Pcaps, Shows(p, k), mem[x].at = <<"pcap", p, 1>>
      PROVE  Shows(p, k)'
  <2>1. Foreign(mem[x].at)  BY <1>6 DEF Foreign
  <2>2. QED BY <1>0, <1>1, <1>6, <2>1 DEF Calm
<1>7. Claim(a, n, mem[x].at, Caplen[k], k) => mem[x].at[1] = "heap"  BY DEF Claim, Stored
<1>8. QED BY <1>0, <1>2, <1>4, <1>5, <1>6, <1>7 DEF KeptView

\* the memory of packets stays where it is: a packet object that comes into use has none
SameMemory ==
  /\ pool' = pool
  /\ \A d \in Packets : Used(d)' => \/ mem'[memory(d)].at = NULL
                                    \/ Used(d) /\ mem'[memory(d)] = mem[memory(d)]

LEMMA ReservedStays ==
  ASSUME SameMemory, NEW a, NEW n, NEW at, NEW len, Reserved(a, n, at, len)
  PROVE  Reserved(a, n, at, len)'
<1>1. ASSUME NEW d \in Packets, Used(d)', Used(d) => Clear(d, at, len) PROVE Clear(d, at, len)'
  BY <1>1 DEF SameMemory, Clear
<1>2. QED BY <1>1 DEF Reserved, SameMemory

LEMMA ClaimsStay ==
  ASSUME SameMemory, NEW T, NEW N,
         \A a, n, at, len, k : n \in Packets \ N /\ a \notin T /\ Claim(a, n, at, len, k)
                                 => Stored(World', a, at, len, k)
  PROVE  KeepsClaims(T, N)
BY ReservedStays DEF KeepsClaims, Claim, Stored

LEMMA PoolStays ==
  ASSUME SameMemory, KeepInv, NEW n \in Packets, Used(n)',
         Used(n) /\ mem[memory(n)].at # NULL => mem'[mem[memory(n)].keeper].ref = mem[mem[memory(n)].keeper].ref
  PROVE  InPool(n)'
<1> DEFINE m == mem[memory(n)]
<1>1. CASE mem'[memory(n)].at = NULL  BY <1>1 DEF InPool
<1>2. CASE mem'[memory(n)].at # NULL
  <2>1. Used(n) /\ mem'[memory(n)] = m  BY <1>2 DEF SameMemory
  <2>2. InPool(n)  BY <2>1 DEF KeepInv
  <2>3. ASSUME NEW d \in Packets, Used(d)', d # n PROVE Clear(d, m.at, m.size)'
    <3>1. Used(d) => Clear(d, m.at, m.size)  BY <1>2, <2>1, <2>2, <2>3 DEF InPool
    <3>2. QED BY <2>1, <2>3, <3>1 DEF SameMemory, Clear
  <2>4. pool' = pool  BY DEF SameMemory
  <2>5. QED BY <1>2, <2>1, <2>2, <2>3, <2>4 DEF InPool
<1>3. QED BY <1>1, <1>2

\* a packet that a step does not write, and a view that it does not change
Still(n, T, N) ==
  /\ n \notin N /\ held[n] > 0 /\ held'[n] = held[n]
  /\ {header(n), data(n), state(n)} \intersect T = {}
  /\ Calm \/ ~Borrowed(n)

StillView(v, T, N) ==
  /\ view[v].held /\ view'[v] = view[v] /\ view[v].from \notin N
  /\ header(view[v].from) \notin T /\ ViewParts(v) \intersect T = {}
  /\ Calm \/ ~\E o \in ViewParts(v) : Foreign(mem[o].at)

\* A step that leaves the pool and the private memory of packets alone.
LEMMA SteadyKeep ==
  ASSUME KeepInv, NEW T, NEW N, SameObjects(T), pool' = pool,
         \A b \in Blocks : <<"block", b>> \notin T,
         \A d \in Packets : memory(d) \notin T,
         Counting', Texts(World'),
         \A a, n, at, len, k : n \in Packets \ N /\ a \notin T /\ Claim(a, n, at, len, k)
                                 => Stored(World', a, at, len, k),
         \A n \in Packets : held'[n] > 0 => KeptPacket(n)' \/ Still(n, T, N),
         \A v \in Views : view'[v].held => KeptView(v)' \/ StillView(v, T, N),
         \A n \in Packets : Used(n)' => Used(n) \/ n \in FreePackets,
         \A n \in Packets : Used(n)' => Topped(n)' \/ header(n) \notin T
  PROVE  KeepInv'
<1>1. \A n \in Packets : n \in FreePackets => /\ mem[memory(n)].at = NULL /\ mem[header(n)].at = NULL
                                              /\ memory(n) \in JMemory /\ header(n) \in JMemory
  BY Objects DEF FreePackets, Parts, Fresh
<1>2. \A n \in Packets : memory(n) \in JMemory /\ header(n) \in JMemory  BY Objects DEF Parts
<1>3. \A b \in Blocks : <<"block", b>> \in JMemory  BY Objects
<1>4. \A n \in Packets : mem'[memory(n)] = mem[memory(n)]  BY <1>2 DEF SameObjects
<1>5. \A b \in Blocks : mem'[<<"block", b>>] = mem[<<"block", b>>]  BY <1>3 DEF SameObjects
<1>6. SameMemory  BY <1>1, <1>4 DEF SameMemory
<1>7. KeepsClaims(T, N)  BY <1>6, ClaimsStay
<1>8. \A a, n, at, len, k : Claim(a, n, at, len, k) =>
        at[1] = "heap" /\ (a = header(n) \/ (at[2] \in Blocks /\ a = <<"block", at[2]>>))
  BY DEF Claim, Stored, Reserved
<1>9. \A n \in Packets : held'[n] > 0 => KeptPacket(n)'
  <2> SUFFICES ASSUME NEW n \in Packets, Still(n, T, N) PROVE KeptPacket(n)'
    OBVIOUS
  <2>1. KeptPacket(n) /\ held[n] \in Int  BY DEF KeepInv, Counting, Still
  <2>2. mem[data(n)].at[1] = "heap" => mem[data(n)].keeper \notin T
    <3>1. HAVE mem[data(n)].at[1] = "heap"
    <3>2. Claim(mem[data(n)].keeper, n, mem[data(n)].at, Caplen[held[n]], held[n])
      BY <2>1, <3>1 DEF KeptPacket
    <3>3. QED BY <1>8, <3>2 DEF Still
  <2>3. QED BY <1>7, <2>1, <2>2, PacketStays DEF Still
<1>10. \A v \in Views : view'[v].held => KeptView(v)'
  <2> SUFFICES ASSUME NEW v \in Views, StillView(v, T, N) PROVE KeptView(v)'
    OBVIOUS
  <2>1. KeptView(v) /\ view[v].shows \in Int  BY DEF KeepInv, Counting, StillView
  <2> DEFINE x == <<"view", v>>
  <2>2. mem[x].at[1] = "heap" => mem[x].keeper \notin T
    <3>1. HAVE mem[x].at[1] = "heap"
    <3>2. Claim(mem[x].keeper, view[v].from, mem[x].at, Caplen[view[v].shows], view[v].shows)
      BY <2>1, <3>1 DEF KeptView
    <3>3. QED BY <1>8, <3>2 DEF StillView
  <2>3. QED BY <1>7, <2>1, <2>2, ViewStays DEF StillView
<1>11. \A n \in Packets : Used(n)' => InPool(n)'
  <2> SUFFICES ASSUME NEW n \in Packets, Used(n)' PROVE InPool(n)'
    OBVIOUS
  <2>1. Used(n) /\ mem[memory(n)].at # NULL => mem'[mem[memory(n)].keeper] = mem[mem[memory(n)].keeper]
    BY <1>5 DEF KeepInv, InPool
  <2>2. QED BY <1>6, <2>1, PoolStays
<1>12. \A n \in Packets : Used(n)' => Topped(n)'
  <2> SUFFICES ASSUME NEW n \in Packets, Used(n)', header(n) \notin T PROVE Topped(n)'
    OBVIOUS
  <2>1. mem'[header(n)] = mem[header(n)]  BY <1>2 DEF SameObjects
  <2>2. CASE Used(n)  BY <1>4, <2>1, <2>2 DEF KeepInv, Topped
  <2>3. CASE n \in FreePackets  BY <1>1, <2>1, <2>3 DEF Topped, NULL
  <2>4. QED BY <2>2, <2>3
<1>13. PoolBlock'  BY <1>5 DEF KeepInv, PoolBlock
<1>14. QED BY <1>9, <1>10, <1>11, <1>12, <1>13 DEF KeepInv

\* the application's packets and views after a step that takes some from it
Lessened(N) ==
  /\ \A n \in Packets : held'[n] > 0 =>
       n \in N \/ (held'[n] = held[n] /\ (Calm \/ ~Borrowed(n)))
  /\ \A v \in Views : view'[v].held =>
       /\ view'[v] = view[v] /\ view[v].from \notin N
       /\ Calm \/ ~\E o \in ViewParts(v) : Foreign(mem[o].at)

\* A step that changes no object and copies nothing.
LEMMA QuietKeep ==
  ASSUME KeepInv, RefInv, UNCHANGED <<mem, heap, pool>>, Counting', Lessened({}),
         \A n \in Packets : held'[n] >= 0 => held[n] >= 0,
         call'.work = call.work \/ call'.work \notin Packets \/ call'.work \in FreePackets
  PROVE  KeepInv'
<1>1. SameObjects({})  BY DEF SameObjects
<1>2. World' = World  BY DEF World
<1>3. Texts(World')  BY <1>2 DEF KeepInv
<1>4. \A a, n, at, len, k : Claim(a, n, at, len, k) => Stored(World', a, at, len, k)
  BY <1>2 DEF Claim
<1>5. \A n \in Packets : held'[n] > 0 => Still(n, {}, {})  BY DEF Lessened, Still
<1>6. \A v \in Views : view'[v].held => StillView(v, {}, {})  BY DEF Lessened, StillView
<1>7. \A n \in Packets : Used(n)' => Used(n) \/ n \in FreePackets  BY DEF Used
<1>8. QED BY <1>1, <1>3, <1>4, <1>5, <1>6, <1>7, SteadyKeep

-----------------------------------------------------------------------------
(* What the collector does not take *)

Roots ==
  {data(n) : n \in {m \in Packets : held[m] >= 0 \/ m = call.work}}
  \union {<<"view", v>> : v \in {x \in Views : view[x].held}}
  \union {<<"block", b>> : b \in Blocks \intersect {pool.block}}
  \union {<<"pcap", p>> : p \in {q \in Pcaps : pcap[q].held \/ q = call.p}}

LEMMA Reaches ==
  ASSUME NEW o \in Roots, o \notin {None, Scanner}
  PROVE  /\ o \in Reachable
         /\ \A x \in Links(o) \ {None, Scanner} :
              x \in Reachable /\ \A y \in Links(x) \ {None, Scanner} : y \in Reachable
<1>1. Reachable = Held(Held(Held(Held(Roots))))  BY Zenon DEF Reachable, Roots
<1>2. ASSUME NEW A, NEW x \in A, x \notin {None, Scanner} PROVE x \in Held(A)  BY <1>2 DEF Held
<1>3. ASSUME NEW A, NEW x \in A, NEW y \in Links(x) \ {None, Scanner} PROVE y \in Held(A)  BY <1>3 DEF Held
<1> DEFINE A == Held(Roots)
           B == Held(A)
           C == Held(B)
<1>4. Reachable = Held(C)  BY <1>1
<1>5. o \in A  BY <1>2
<1>6. \A x \in Links(o) \ {None, Scanner} : x \in A  BY <1>3
<1> HIDE DEF A
<1>7. o \in B /\ \A x \in Links(o) \ {None, Scanner} : x \in B  BY <1>2, <1>5, <1>6
<1>8. \A x \in Links(o) \ {None, Scanner} : \A y \in Links(x) \ {None, Scanner} : y \in B  BY <1>3, <1>6
<1> HIDE DEF B
<1>9. /\ o \in C
      /\ \A x \in Links(o) \ {None, Scanner} : x \in C /\ \A y \in Links(x) \ {None, Scanner} : y \in C
  BY <1>2, <1>7, <1>8
<1> HIDE DEF C
<1>10. QED BY <1>2, <1>4, <1>9

-----------------------------------------------------------------------------
(* Steps that copy nothing *)

LEMMA ReturnedHeld ==
  ASSUME Counting
  PROVE  /\ Returned \in [Packets -> Int]
         /\ \A n \in Packets : /\ Returned[n] > 0 => Returned[n] = held[n] /\ ~Borrowed(n)
                               /\ Returned[n] >= 0 => held[n] >= 0
                               /\ held[n] <= 0 => Returned[n] = held[n]
BY DEF Returned, Counting

LEMMA BlankViews ==
  ASSUME Counting, NEW S
  PROVE  /\ Blank(S) \in [Views -> [held : BOOLEAN, of : Packets \union {0}, from : Packets \union {0}, shows : Int]]
         /\ \A v \in Views : Blank(S)[v].held =>
              /\ Blank(S)[v] = view[v] /\ view[v].from \notin S
              /\ ~\E o \in ViewParts(v) : Foreign(mem[o].at)
         /\ \A v \in Views : Blank(S)[v].from \in {view[v].from, 0}
<1> DEFINE F(v) == view[v].from \in S \/ \E o \in ViewParts(v) : Foreign(mem[o].at)
<1>1. Blank(S) = [v \in Views |-> IF F(v) THEN Unheld ELSE view[v]]  BY DEF Blank
<1>2. /\ Unheld \in [held : BOOLEAN, of : Packets \union {0}, from : Packets \union {0}, shows : Int]
      /\ Unheld.held = FALSE /\ Unheld.from = 0
  BY DEF Unheld
<1>3. \A v \in Views : view[v] \in [held : BOOLEAN, of : Packets \union {0}, from : Packets \union {0}, shows : Int]
  BY DEF Counting
<1>4. \A v \in Views : Blank(S)[v] = IF F(v) THEN Unheld ELSE view[v]  BY <1>1
<1>5. Blank(S) \in [Views -> [held : BOOLEAN, of : Packets \union {0}, from : Packets \union {0}, shows : Int]]
  <2>1. \A v \in Views : (IF F(v) THEN Unheld ELSE view[v])
          \in [held : BOOLEAN, of : Packets \union {0}, from : Packets \union {0}, shows : Int]
    BY <1>2, <1>3
  <2> HIDE DEF F
  <2>2. QED BY <1>1, <2>1
<1>6. QED BY <1>2, <1>4, <1>5

\* the application gives back what it borrows
LEMMA GivesBack ==
  ASSUME Counting, NEW N, NEW S, N \subseteq S,
         \A n \in Packets \ N : held'[n] > 0 => held'[n] = Returned[n], view' = Blank(S)
  PROVE  Lessened(N)
<1>1. \A n \in Packets \ N : held'[n] > 0 => held'[n] = held[n] /\ ~Borrowed(n)  BY ReturnedHeld
<1>2. \A v \in Views : view'[v].held =>
              /\ view'[v] = view[v] /\ view[v].from \notin S
              /\ ~\E o \in ViewParts(v) : Foreign(mem[o].at)
  BY BlankViews
<1>3. QED BY <1>1, <1>2 DEF Lessened

LEMMA ReturnsKeep ==
  ASSUME KeepInv, RefInv, UNCHANGED <<mem, heap, pool>>, held' = Returned, view' = Blank({}),
         frames' \in Nat, frames' + call'.batch <= Len(Caplen), call'.work = call.work
  PROVE  KeepInv'
<1>1. Counting  BY DEF KeepInv
<1>2. Lessened({})  BY <1>1, GivesBack
<1>3. \A n \in Packets : /\ held'[n] >= 0 => held[n] >= 0
                         /\ held[n] <= 0 => held'[n] = held[n]
  BY <1>1, ReturnedHeld
<1>4. Counting'
  <2>1. held' \in [Packets -> Int]  BY <1>1, ReturnedHeld
  <2>2. view' \in [Views -> [held : BOOLEAN, of : Packets \union {0}, from : Packets \union {0}, shows : Int]]
    BY <1>1, BlankViews
  <2>3. ASSUME call'.work \in Packets
        PROVE  held'[call'.work] <= 0 /\ \A v \in Views : view'[v].from # call'.work
    <3>1. \A v \in Views : view'[v].from \in {view[v].from, 0}  BY <1>1, BlankViews
    <3>2. QED BY <1>1, <1>3, <2>3, <3>1, PacketsAssumption DEF Counting
  <2>4. QED BY <2>1, <2>2, <2>3 DEF Counting
<1>5. QED BY <1>2, <1>3, <1>4, QuietKeep

\* what the application has it may drop, and libpcap's memory is left alone
LEMMA CalmKeep ==
  ASSUME KeepInv, RefInv, UNCHANGED <<mem, heap, pool, frames, ring>>, Calm,
         held' \in [Packets -> Int], \A n \in Packets : held'[n] = held[n] \/ held'[n] = -1,
         \/ view' = view
         \/ \E v \in Views : view' = [view EXCEPT ![v] = Unheld],
         frames + call'.batch <= Len(Caplen),
         call'.work = call.work \/ call'.work \notin Packets \/ call'.work \in FreePackets
  PROVE  KeepInv'
<1>1. Counting  BY DEF KeepInv
<1>2. /\ Unheld \in [held : BOOLEAN, of : Packets \union {0}, from : Packets \union {0}, shows : Int]
      /\ Unheld.held = FALSE /\ Unheld.from = 0
  BY DEF Unheld
<1>3. /\ view' \in [Views -> [held : BOOLEAN, of : Packets \union {0}, from : Packets \union {0}, shows : Int]]
      /\ \A v \in Views : view'[v] = view[v] \/ view'[v] = Unheld
  BY <1>1, <1>2 DEF Counting
<1>4. Counting'
  <2>1. ASSUME call'.work \in Packets
        PROVE  held'[call'.work] <= 0 /\ \A v \in Views : view'[v].from # call'.work
    <3>1. held[call'.work] <= 0 /\ \A v \in Views : view[v].from # call'.work
      BY <1>1, <2>1 DEF Counting, FreePackets
    <3>2. QED BY <1>2, <1>3, <2>1, <3>1, PacketsAssumption
  <2>2. QED BY <1>1, <1>3, <2>1 DEF Counting
<1>5. Lessened({})
  <2>1. \A n \in Packets : held'[n] > 0 => held'[n] = held[n]  OBVIOUS
  <2>2. \A v \in Views : view'[v].held => view'[v] = view[v]  BY <1>2, <1>3
  <2>3. QED BY <2>1, <2>2 DEF Lessened
<1>6. \A n \in Packets : held'[n] >= 0 => held[n] >= 0  OBVIOUS
<1>7. QED BY <1>4, <1>5, <1>6, QuietKeep

LEMMA CalmHandles ==
  ASSUME HandleInv, UNCHANGED ring,
         \A p \in Pcaps : pcap[p].held /\ pcap[p].native = "active" =>
           pcap'[p].held /\ pcap'[p].native = "active" /\ pcap'[p].holds = pcap[p].holds
  PROVE  Calm
BY DEF Calm, Shows

\* opening, asking, breaking a loop, finalizing
LEMMA PcapKeep ==
  ASSUME KeepInv, RefInv, HandleInv, NEW p \in Pcaps,
         \/ openLive(p) \/ openDead(p) \/ openOffline(p) \/ create(p)
         \/ datalink(p) \/ setNonBlock(p) \/ setDatalink(p) \/ majorVersion(p)
         \/ stats(p) \/ sendPacket(p) \/ setSnaplen(p) \/ activate(p) \/ breakloop(p)
         \/ dumpOpen(p) \/ Finalize(p)
  PROVE  KeepInv'
<1>1. UNCHANGED <<mem, heap, held, view, pool, ring, call, frames>>
  BY DEF openLive, openDead, openOffline, create, Opened, datalink, setNonBlock, setDatalink, majorVersion,
         stats, sendPacket, setSnaplen, Asked, activate, breakloop, dumpOpen, Finalize, SamePackets
<1>2. ASSUME Calm PROVE KeepInv'
  <2>1. Counting  BY DEF KeepInv
  <2>2. held' \in [Packets -> Int] /\ \A n \in Packets : held'[n] = held[n] \/ held'[n] = -1
    BY <1>1, <2>1 DEF Counting
  <2>3. frames + call'.batch <= Len(Caplen)  BY <1>1, <2>1 DEF Counting
  <2>4. QED BY <1>1, <1>2, <2>2, <2>3, CalmKeep
<1>3. CASE UNCHANGED pcap
  <2>1. Calm  BY <1>1, <1>3, CalmHandles
  <2>2. QED BY <1>2, <2>1
<1>4. ASSUME NEW native, NEW kind, Opened(p, native, kind) PROVE KeepInv'
  <2>1. CASE newPcap(p, native, kind)
    <3>1. pcap[p].held = FALSE  BY <1>4 DEF Opened, NoPcap
    <3>2. \A q \in Pcaps : q # p => pcap'[q] = pcap[q]  BY <2>1 DEF newPcap, HandleInv
    <3>3. Calm  BY <1>1, <3>1, <3>2, CalmHandles
    <3>4. QED BY <1>2, <3>3
  <2>2. QED BY <1>3, <1>4, <2>1 DEF Opened
<1>5. CASE activate(p)
  <2>1. \A q \in Pcaps : pcap[q].native = "active" => pcap'[q] = pcap[q]
    BY <1>5 DEF activate, HandleInv
  <2>2. Calm  BY <1>1, <2>1, CalmHandles
  <2>3. QED BY <1>2, <2>2
<1>6. CASE breakloop(p)
  <2>1. \A q \in Pcaps : /\ pcap'[q].held = pcap[q].held /\ pcap'[q].native = pcap[q].native
                         /\ pcap'[q].holds = pcap[q].holds
    BY <1>6 DEF breakloop, HandleInv, PcapFields
  <2>2. Calm  BY <1>1, <2>1, CalmHandles
  <2>3. QED BY <1>2, <2>2
<1>7. CASE Finalize(p)
  <2>1. ~pcap[p].held
    <3>1. SUFFICES ASSUME pcap[p].held PROVE FALSE
      OBVIOUS
    <3>2. <<"pcap", p>> \in Roots  BY <3>1 DEF Roots
    <3>3. <<"pcap", p>> \notin {None, Scanner}  BY DEF None, Scanner
    <3>4. <<"pcap", p>> \in Reachable  BY <3>2, <3>3, Reaches
    <3>5. QED BY <1>7, <3>4 DEF Finalize
  <2>2. \A q \in Pcaps : q # p => pcap'[q] = pcap[q]  BY <1>7 DEF Finalize, Closed, HandleInv
  <2>3. Calm  BY <1>1, <2>1, <2>2, CalmHandles
  <2>4. QED BY <1>2, <2>3
<1>8. CASE datalink(p) \/ setNonBlock(p) \/ setDatalink(p) \/ majorVersion(p)
           \/ stats(p) \/ sendPacket(p) \/ setSnaplen(p) \/ dumpOpen(p)
  BY <1>3, <1>8 DEF datalink, setNonBlock, setDatalink, majorVersion, stats, sendPacket, setSnaplen,
                    Asked, dumpOpen
<1>9. CASE openLive(p) \/ openDead(p) \/ openOffline(p) \/ create(p)
  BY <1>4, <1>9 DEF openLive, openDead, openOffline, create
<1>10. QED BY <1>5, <1>6, <1>7, <1>8, <1>9

\* a call begins, takes the next packets or returns
LEMMA CallKeep ==
  ASSUME KeepInv, RefInv, HandleInv,
         pcap_dispatch \/ \E p \in Pcaps : dispatch(p) \/ loop(p) \/ dumperLoop(p)
  PROVE  KeepInv'
<1>1. UNCHANGED <<mem, heap, held, view, pool, ring, frames>>
  <2>1. CASE pcap_dispatch  BY <2>1 DEF pcap_dispatch, Return, SamePackets
  <2>2. ASSUME NEW p, NEW kind, NEW cnt, NEW once, Begin(p, kind, cnt, once)
        PROVE  UNCHANGED <<mem, heap, held, view, pool, ring, frames>>
    BY <2>2 DEF Begin, SamePackets
  <2>3. QED BY <2>1, <2>2 DEF dispatch, loop, dumperLoop
<1>2. Counting /\ frames \in Nat /\ frames + call.batch <= Len(Caplen)  BY DEF KeepInv, Counting
<1>3. held' \in [Packets -> Int] /\ \A n \in Packets : held'[n] = held[n] \/ held'[n] = -1
  BY <1>1, <1>2 DEF Counting
<1>4. \A q \in Pcaps : /\ pcap'[q].held = pcap[q].held /\ pcap'[q].native = pcap[q].native
                       /\ pcap'[q].holds = pcap[q].holds
  <2>1. UNCHANGED pcap \/ \E x : pcap' = [pcap EXCEPT ![call.p].break = x]
    <3>1. ASSUME NEW c, Return(c) PROVE \E x : pcap' = [pcap EXCEPT ![call.p].break = x]
      BY <3>1 DEF Return
    <3>2. QED BY <3>1 DEF pcap_dispatch, dispatch, loop, dumperLoop, Begin
  <2>2. DOMAIN pcap = Pcaps /\ \A q \in Pcaps : DOMAIN pcap[q] = PcapFields  BY DEF HandleInv
  <2>3. ASSUME NEW x, pcap' = [pcap EXCEPT ![call.p].break = x], NEW q \in Pcaps
        PROVE  /\ pcap'[q].held = pcap[q].held /\ pcap'[q].native = pcap[q].native
               /\ pcap'[q].holds = pcap[q].holds
    BY <2>2, <2>3 DEF PcapFields
  <2>4. QED BY <2>1, <2>3
<1>5. Calm  BY <1>1, <1>4, CalmHandles
<1>6. ASSUME call'.work = call.work \/ call'.work \notin Packets \/ call'.work \in FreePackets,
             frames + call'.batch <= Len(Caplen)
      PROVE  KeepInv'
  BY <1>1, <1>3, <1>5, <1>6, CalmKeep
<1>7. NoCall.work = 0 /\ NoCall.batch = 0  BY DEF NoCall
<1>8. frames + 0 <= Len(Caplen)  BY <1>2 DEF HandleInv
<1>9. CASE call' = NoCall  BY <1>6, <1>7, <1>8, <1>9, PacketsAssumption
<1>10. CASE pcap_dispatch
  <2>1. ASSUME NEW b \in 1 .. 2, frames + b <= Len(Caplen), call' = [call EXCEPT !.batch = b]
        PROVE  KeepInv'
    <3>1. call'.work = call.work /\ call'.batch = b  BY <2>1 DEF HandleInv, CallFields
    <3>2. QED BY <1>6, <2>1, <3>1
  <2>2. call' = NoCall \/ \E b \in 1 .. 2 : frames + b <= Len(Caplen) /\ call' = [call EXCEPT !.batch = b]
    BY <1>10 DEF pcap_dispatch, Return
  <2>3. QED BY <1>9, <2>1, <2>2
<1>11. ASSUME NEW p \in Pcaps, dispatch(p) \/ loop(p) \/ dumperLoop(p) PROVE KeepInv'
  <2>1. PICK k, c, o : Begin(p, k, c, o)  BY <1>11 DEF dispatch, loop, dumperLoop
  <2>2. \/ call' = NoCall
        \/ \E n \in FreePackets \union {0} :
             call' = [NoCall EXCEPT !.on = TRUE, !.p = p, !.kind = k, !.left = c, !.once = o, !.work = n]
    BY <2>1 DEF Begin
  <2>3. ASSUME NEW n \in FreePackets \union {0},
               call' = [NoCall EXCEPT !.on = TRUE, !.p = p, !.kind = k, !.left = c, !.once = o, !.work = n]
        PROVE  KeepInv'
    <3>1. call'.work = n /\ call'.batch = 0  BY <2>3 DEF NoCall
    <3>2. QED BY <1>6, <1>8, <3>1, PacketsAssumption
  <2>4. QED BY <1>9, <2>2, <2>3
<1>12. QED BY <1>10, <1>11

\* the application lets go of what it has, and the steps apart from packets
LEMMA DropKeep ==
  ASSUME KeepInv, RefInv, HandleInv,
         \/ dumperClose \/ findAllDevs \/ lookupDev
         \/ (\E n \in Packets : DropPacket(n)) \/ (\E v \in Views : DropView(v))
  PROVE  KeepInv'
<1>1. UNCHANGED <<mem, heap, pool, ring, frames, call, pcap>>
  BY DEF dumperClose, findAllDevs, lookupDev, DropPacket, DropView, Dropped, SamePackets
<1>2. Counting  BY DEF KeepInv
<1>3. Calm  BY <1>1, CalmHandles
<1>4. frames + call'.batch <= Len(Caplen)  BY <1>1, <1>2 DEF Counting
<1>5. held' \in [Packets -> Int] /\ \A n \in Packets : held'[n] = held[n] \/ held'[n] = -1
  <2>1. UNCHANGED held \/ \E n \in Packets : held' = [held EXCEPT ![n] = -1]
    BY DEF dumperClose, findAllDevs, lookupDev, DropPacket, DropView, SamePackets
  <2>2. QED BY <1>2, <2>1 DEF Counting
<1>6. view' = view \/ \E v \in Views : view' = [view EXCEPT ![v] = Unheld]
  BY DEF dumperClose, findAllDevs, lookupDev, DropPacket, DropView, SamePackets
<1>7. QED BY <1>1, <1>3, <1>4, <1>5, <1>6, CalmKeep

\* what counts for a packet that is taken
LEMMA TakenCounts ==
  ASSUME KeepInv, HandleInv, NEW e, NEW x, NEW o, Taken(e, x, o)
  PROVE  /\ frames' = frames + 1 /\ frames' \in Nat /\ frames' + call'.batch <= Len(Caplen)
         /\ call'.work = call.work /\ pool' = pool
<1>1. frames' = frames + 1 /\ pool' = pool
      /\ call' = [Counted EXCEPT !.pending = IF call.pending = "none" THEN e ELSE @]
  BY DEF Taken
<1>2. call'.batch = call.batch - 1 /\ call'.work = call.work
  BY <1>1 DEF Counted, HandleInv, CallFields
<1>3. QED BY <1>1, <1>2 DEF KeepInv, Counting, HandleInv

LEMMA GotCounts ==
  ASSUME KeepInv, HandleInv, NEW p, Got(p), More, UNCHANGED call
  PROVE  /\ frames' = frames + 1 /\ frames' \in Nat /\ frames' + call'.batch <= Len(Caplen)
         /\ frames + 1 \in DOMAIN Caplen
<1>1. frames \in Nat /\ call.batch \in Nat  BY DEF KeepInv, Counting, HandleInv
<1>2. frames' = frames + 1 /\ call'.batch = call.batch  BY DEF Got
<1>3. Len(Caplen) \in Nat /\ DOMAIN Caplen = 1 .. Len(Caplen)  BY SizesAssumption
<1>4. frames + call.batch < Len(Caplen)  BY DEF More
<1>5. QED BY <1>1, <1>2, <1>3, <1>4

\* steps after which the application has only what is its own
LEMMA BackKeep ==
  ASSUME KeepInv, RefInv, HandleInv,
         \/ pcap_callback \/ cb_pcap_dumper_handler
         \/ \E p \in Pcaps : close(p) \/ DropPcap(p) \/ nextPktHdr(p)
  PROVE  KeepInv'
<1>1. frames \in Nat /\ frames + call.batch <= Len(Caplen) /\ Counting  BY DEF KeepInv, Counting
<1>2. CASE pcap_callback \/ cb_pcap_dumper_handler
  <2>1. UNCHANGED <<mem, heap>> /\ held' = Returned /\ view' = Blank({}) /\ \E e, x, o : Taken(e, x, o)
    BY <1>2 DEF pcap_callback, cb_pcap_dumper_handler, Handled
  <2>2. QED BY <2>1, TakenCounts, ReturnsKeep
<1>3. ASSUME NEW p \in Pcaps, close(p) PROVE KeepInv'
  <2>1. UNCHANGED <<mem, heap, pool, ring, frames, call>>  BY <1>3 DEF close
  <2>2. CASE held' = Returned /\ view' = Blank({})  BY <1>1, <2>1, <2>2, ReturnsKeep
  <2>3. CASE UNCHANGED <<pcap, held, view>>
    <3>1. Calm  BY <2>1, <2>3, CalmHandles
    <3>2. held' \in [Packets -> Int] /\ \A n \in Packets : held'[n] = held[n] \/ held'[n] = -1
      BY <1>1, <2>3 DEF Counting
    <3>3. QED BY <1>1, <2>1, <2>3, <3>1, <3>2, CalmKeep
  <2>4. QED BY <1>3, <2>2, <2>3 DEF close
<1>4. ASSUME NEW p \in Pcaps, DropPcap(p) PROVE KeepInv'
  BY <1>1, <1>4, ReturnsKeep DEF DropPcap, Dropped
<1>5. ASSUME NEW p \in Pcaps, nextPktHdr(p) PROVE KeepInv'
  <2>1. UNCHANGED <<mem, heap, pool, call>> /\ held' = Returned /\ view' = Blank({})
    BY <1>5 DEF nextPktHdr
  <2>2. frames' \in Nat /\ frames' + call'.batch <= Len(Caplen)
    BY <1>1, <1>5, <2>1, GotCounts DEF nextPktHdr, Nothing
  <2>3. QED BY <2>1, <2>2, ReturnsKeep
<1>6. QED BY <1>2, <1>3, <1>4, <1>5

-----------------------------------------------------------------------------
(* Steps that make objects show other memory *)

LEMMA LentTouch ==
  ASSUME KeepInv, RefInv, NEW T, NEW w, Touch(World, w, T), Lent(w)
  PROVE  /\ SameObjects(T) /\ Texts(World')
         /\ \A a, n, at, len, k : a \notin T /\ Claim(a, n, at, len, k) => Stored(World', a, at, len, k)
<1>1. World.mem = mem /\ World'.mem = w.mem /\ World'.heap = w.heap /\ mem' = w.mem  BY DEF World, Lent
<1>2. SameObjects(T)  BY <1>1 DEF SameObjects, Touch
<1>3. /\ \A a, at, len, k : a \notin T /\ Stored(World, a, at, len, k) => Stored(w, a, at, len, k)
      /\ Texts(w)
  BY TouchKeeps DEF RefInv, KeepInv
<1>4. \A a, at, len, k : Stored(w, a, at, len, k) => Stored(World', a, at, len, k)  BY <1>1 DEF Stored
<1>5. Texts(World')  BY <1>1, <1>3 DEF Texts
<1>6. QED BY <1>2, <1>3, <1>4, <1>5 DEF Claim

LEMMA Distinct ==
  /\ \A n, m : header(n) # data(m) /\ header(n) # state(m) /\ data(n) # state(m)
               /\ memory(n) # header(m) /\ memory(n) # data(m) /\ memory(n) # state(m)
               /\ header(n) # <<"block", m>> /\ data(n) # <<"block", m>> /\ state(n) # <<"block", m>>
               /\ memory(n) # <<"block", m>>
               /\ header(n) # <<"view", m>> /\ data(n) # <<"view", m>> /\ state(n) # <<"view", m>>
               /\ header(n) # <<"vstate", m>> /\ data(n) # <<"vstate", m>> /\ state(n) # <<"vstate", m>>
               /\ memory(n) # <<"view", m>> /\ memory(n) # <<"vstate", m>>
               /\ <<"block", n>> # <<"view", m>> /\ <<"block", n>> # <<"vstate", m>>
               /\ <<"view", n>> # <<"vstate", m>>
  /\ \A n, m : n # m => /\ header(n) # header(m) /\ data(n) # data(m) /\ state(n) # state(m)
                        /\ memory(n) # memory(m) /\ <<"block", n>> # <<"block", m>>
                        /\ <<"view", n>> # <<"view", m>> /\ <<"vstate", n>> # <<"vstate", m>>
BY DEF header, data, state, memory

\* Objects of one packet are written and the application gives back what it borrows: it has no
\* view on that packet any more, and the packet is kept or is not counted on.
LEMMA OnePacketKeep ==
  ASSUME KeepInv, RefInv, HandleInv, NEW m \in Packets, NEW w, Lent(w), NEW T,
         Touch(World, w, T), T \subseteq {header(m), data(m), state(m)},
         pool' = pool, call'.work = call.work, frames' \in Nat, frames' + call'.batch <= Len(Caplen),
         held' \in [Packets -> Int], \A n \in Packets \ {m} : held'[n] = Returned[n],
         held'[m] > 0 => KeptPacket(m)', m = call.work => held'[m] <= 0,
         Used(m) \/ m \in FreePackets, w.mem[header(m)].at[1] # "heap",
         view' = Blank({m}) \/ (view' = Blank({}) /\ m = call.work)
  PROVE  KeepInv'
<1>1. Counting /\ Texts(World)  BY DEF KeepInv
<1>2. SameObjects(T) /\ Texts(World')
      /\ \A a, n, at, len, k : a \notin T /\ Claim(a, n, at, len, k) => Stored(World', a, at, len, k)
  BY LentTouch
<1>3. PICK S : view' = Blank(S)  OBVIOUS
<1>4. /\ view' \in [Views -> [held : BOOLEAN, of : Packets \union {0}, from : Packets \union {0}, shows : Int]]
      /\ \A v \in Views : view'[v].held =>
           /\ view'[v] = view[v]
           /\ ~\E o \in ViewParts(v) : Foreign(mem[o].at)
      /\ \A v \in Views : view'[v].from \in {view[v].from, 0}
  BY <1>1, <1>3, BlankViews
<1>5. \A v \in Views : view'[v].held => view[v].from # m
  <2>1. CASE view' = Blank({m})  BY <1>1, <2>1, BlankViews
  <2>2. CASE m = call.work  BY <1>1, <2>2 DEF Counting
  <2>3. QED BY <2>1, <2>2
<1>6. \A n \in Packets \ {m} : /\ held'[n] > 0 => held'[n] = held[n] /\ ~Borrowed(n)
                               /\ held'[n] >= 0 => held[n] >= 0
                               /\ held[n] <= 0 => held'[n] = held[n]
  BY <1>1, ReturnedHeld
<1>7. Counting'
  <2>1. ASSUME call'.work \in Packets
        PROVE  held'[call'.work] <= 0 /\ \A v \in Views : view'[v].from # call'.work
    BY <1>1, <1>4, <1>6, <2>1, PacketsAssumption DEF Counting
  <2>2. QED BY <1>4, <2>1 DEF Counting
<1>8. (\A b \in Blocks : <<"block", b>> \notin T) /\ (\A d \in Packets : memory(d) \notin T)
  BY Distinct
<1>9. \A n \in Packets : held'[n] > 0 => KeptPacket(n)' \/ Still(n, T, {})
  <2> SUFFICES ASSUME NEW n \in Packets, n # m, held'[n] > 0 PROVE Still(n, T, {})
    OBVIOUS
  <2>1. {header(n), data(n), state(n)} \intersect T = {}  BY Distinct
  <2>2. QED BY <1>6, <2>1 DEF Still
<1>10. \A v \in Views : view'[v].held => StillView(v, T, {})
  <2> SUFFICES ASSUME NEW v \in Views, view'[v].held PROVE StillView(v, T, {})
    OBVIOUS
  <2>1. ViewParts(v) \intersect T = {}  BY Distinct DEF ViewParts
  <2>2. header(view[v].from) \notin T  BY <1>5, Distinct
  <2>3. QED BY <1>4, <2>1, <2>2 DEF StillView
<1>11. \A n \in Packets : Used(n)' => Used(n) \/ n \in FreePackets  BY <1>6 DEF Used
<1>12. \A n \in Packets : Used(n)' => Topped(n)' \/ header(n) \notin T
  <2> SUFFICES ASSUME NEW n \in Packets, header(n) \in T PROVE Topped(n)'
    OBVIOUS
  <2>1. n = m  BY Distinct
  <2>2. mem'[header(n)].at[1] # "heap"  BY <2>1 DEF Lent
  <2>3. QED BY <2>2 DEF Topped
<1>13. QED BY <1>2, <1>7, <1>8, <1>9, <1>10, <1>11, <1>12, SteadyKeep

LEMMA PeeredTouch ==
  ASSUME RefInv, call.work \in Packets, NEW k
  PROVE  LET n == call.work
             T == {header(n), data(n), state(n)}
         IN  /\ Touch(World, Peered(k), T) /\ Peered(k).mem[header(n)].at = <<"stack", call.p, 0>>
             /\ Touch(World, scan(Peered(k), n), T)
             /\ scan(Peered(k), n).mem[header(n)].at = <<"stack", call.p, 0>>
<1> DEFINE n == call.work
           T == {header(n), data(n), state(n)}
           a == jmemoryPeer(World, header(n), <<"stack", call.p, 0>>, HeaderSize, <<"pcap", call.p>>)
           b == jmemoryPeer(a, data(n), <<"pcap", call.p, 1>>, Caplen[k], <<"pcap", call.p>>)
           c == jmemoryPeer(b, state(n), <<"ring", 0, 0>>, StateSize, Scanner)
<1>1. header(n) \in JMemory /\ data(n) \in JMemory /\ state(n) \in JMemory
  BY Objects DEF Parts
<1>2. Peered(k) = b /\ scan(Peered(k), n) = c  BY DEF Peered, scan
<1>3. Good(World, queue)  BY DEF RefInv
<1>4. Good(a, queue) /\ Touch(World, a, {header(n)}) /\ a.mem[header(n)].at = <<"stack", call.p, 0>>
  BY <1>1, <1>3, PeerGood, PeerTouch DEF jmemoryPeer
<1> HIDE DEF a
<1>5. Good(b, queue) /\ Touch(a, b, {data(n)})  BY <1>1, <1>4, PeerGood, PeerTouch DEF jmemoryPeer
<1> HIDE DEF b
<1>6. Good(c, queue) /\ Touch(b, c, {state(n)})  BY <1>1, <1>5, PeerGood, PeerTouch DEF jmemoryPeer
<1> HIDE DEF c
<1>7. Touch(World, b, {header(n)} \union {data(n)})  BY <1>4, <1>5, TouchChain
<1>8. Touch(World, c, ({header(n)} \union {data(n)}) \union {state(n)})  BY <1>6, <1>7, TouchChain
<1>9. Touch(World, b, T)  BY <1>7 DEF Touch
<1>10. ({header(n)} \union {data(n)}) \union {state(n)} = T  OBVIOUS
<1>11. b.mem[header(n)] = a.mem[header(n)] /\ c.mem[header(n)] = b.mem[header(n)]
  BY <1>1, <1>5, <1>6, Distinct DEF Touch
<1> HIDE DEF T
<1>12. QED BY <1>2, <1>4, <1>8, <1>9, <1>10, <1>11 DEF T

\* the callbacks that lend objects to Java
LEMMA LendKeep ==
  ASSUME KeepInv, RefInv, HandleInv, call.work \in Packets, NEW w, Lent(w),
         Touch(World, w, {header(call.work), data(call.work), state(call.work)}),
         w.mem[header(call.work)].at = <<"stack", call.p, 0>>,
         NEW e, NEW x, NEW o, Taken(e, x, o), view' = Blank({}),
         held' = Returned \/ held' = [Returned EXCEPT ![call.work] = 0]
  PROVE  KeepInv'
<1>0. PICK m : m = call.work  OBVIOUS
<1> DEFINE T == {header(m), data(m), state(m)}
<1>1. Counting  BY DEF KeepInv
<1>2. m \in Packets /\ held[m] <= 0  BY <1>0, <1>1 DEF Counting
<1>3. /\ held' \in [Packets -> Int] /\ \A n \in Packets \ {m} : held'[n] = Returned[n]
      /\ held'[m] <= 0
  <2>1. Returned \in [Packets -> Int] /\ Returned[m] <= 0  BY <1>1, <1>2, ReturnedHeld
  <2>2. QED BY <1>0, <1>2, <2>1
<1>4. Touch(World, w, T) /\ w.mem[header(m)].at[1] # "heap" /\ Used(m)  BY <1>0 DEF Used
<1>5. frames' \in Nat /\ frames' + call'.batch <= Len(Caplen) /\ call'.work = call.work /\ pool' = pool
  BY TakenCounts
<1>6. held'[m] > 0 => KeptPacket(m)'
  <2>1. held'[m] \in Int /\ held'[m] <= 0  BY <1>2, <1>3
  <2>2. ~(held'[m] > 0)  BY <2>1
  <2>3. QED BY <2>2
<1>7. T \subseteq {header(m), data(m), state(m)}  OBVIOUS
<1> HIDE DEF T
<1>8. QED BY <1>0, <1>2, <1>3, <1>4, <1>5, <1>6, <1>7, OnePacketKeep

LEMMA CallbackKeep ==
  ASSUME KeepInv, RefInv, HandleInv, cb_byte_buffer_dispatch \/ cb_jbuffer_dispatch
  PROVE  KeepInv'
<1>1. call.work \in Packets  BY DEF cb_byte_buffer_dispatch, cb_jbuffer_dispatch, RefInv, Lends
<1>2. view' = Blank({})  BY DEF cb_byte_buffer_dispatch, cb_jbuffer_dispatch
<1>3. ASSUME NEW e, NEW x, NEW o, Taken(e, x, o), UNCHANGED <<mem, heap>>, held' = Returned
      PROVE  KeepInv'
  BY <1>2, <1>3, TakenCounts, ReturnsKeep
<1>4. CASE cb_byte_buffer_dispatch
  <2> DEFINE h == header(call.work)
             T == {h, data(call.work), state(call.work)}
             w == setJMemoryPhysical(World, h, <<"stack", call.p, 0>>)
  <2>1. h \in JMemory /\ Good(World, queue)  BY <1>1, Objects DEF Parts, RefInv
  <2>2. Touch(World, w, {h}) /\ w.mem[h] = [Fresh EXCEPT !.at = <<"stack", call.p, 0>>]
    BY <2>1, PhysicalTouch
  <2>3. w.mem[h].at = <<"stack", call.p, 0>>  BY <2>2 DEF Fresh
  <2> HIDE DEF w
  <2>4. Touch(World, w, T)  BY <2>2 DEF Touch
  <2>5. held' = Returned  BY <1>4 DEF cb_byte_buffer_dispatch
  <2>6. \/ (\E e, x, o : Taken(e, x, o)) /\ UNCHANGED <<mem, heap>>
        \/ (\E e, x, o : Taken(e, x, o)) /\ Lent(w)
    BY <1>4 DEF cb_byte_buffer_dispatch, Forbidden, Handled, w
  <2>7. QED BY <1>1, <1>2, <1>3, <2>3, <2>4, <2>5, <2>6, LendKeep
<1>5. CASE cb_jbuffer_dispatch
  <2> DEFINE w == Peered(frames + 1)
             T == {header(call.work), data(call.work), state(call.work)}
  <2>1. Touch(World, w, T) /\ w.mem[header(call.work)].at = <<"stack", call.p, 0>>
    BY <1>1, PeeredTouch
  <2> HIDE DEF w
  <2>2. \/ (\E e, x, o : Taken(e, x, o)) /\ UNCHANGED <<mem, heap>> /\ held' = Returned
        \/ /\ \E e, x, o : Taken(e, x, o)
           /\ Lent(w) /\ \E keep \in BOOLEAN : held' = [Returned EXCEPT ![call.work] = IF keep THEN 0 ELSE @]
    BY <1>5 DEF cb_jbuffer_dispatch, Forbidden, Handled, w
  <2>3. ASSUME NEW keep \in BOOLEAN, held' = [Returned EXCEPT ![call.work] = IF keep THEN 0 ELSE @]
        PROVE  held' = Returned \/ held' = [Returned EXCEPT ![call.work] = 0]
    <3>1. CASE keep  BY <2>3, <3>1
    <3>2. CASE ~keep  BY <2>3, <3>2 DEF Returned
    <3>3. QED BY <3>1, <3>2
  <2>4. QED BY <1>1, <1>2, <1>3, <2>1, <2>2, <2>3, LendKeep
<1>6. QED BY <1>4, <1>5

\* Has(n): a packet that is used, or a new one, but not what a call lends
LEMMA HasPacket ==
  ASSUME Counting, NEW n \in Packets, Has(n)
  PROVE  n # call.work /\ (n \in FreePackets \/ (Used(n) /\ held[n] >= 0))
BY DEF Has, FreePackets, Used, Counting

\* the objects of packet n after nextEx has read a packet of Pcap p
ReadWorld(u, p, n, len) ==
  LET h == setJMemoryPhysical(u, header(n), <<"pcap", p, 0>>)
      d == setJMemoryPhysical(h, data(n), <<"pcap", p, 1>>)
      s == [d EXCEPT !.mem[header(n)].size = HeaderSize, !.mem[data(n)].size = len]
  IN  scan(s, n)

LEMMA NextExWorld ==
  ASSUME NEW u, NEW q, Good(u, q), NEW p, NEW n \in Packets, NEW len
  PROVE  LET w == ReadWorld(u, p, n, len)
         IN  /\ Touch(u, w, {header(n), data(n), state(n)})
             /\ w.mem[header(n)].at = <<"pcap", p, 0>> /\ w.mem[data(n)].at = <<"pcap", p, 1>>
             /\ w.mem[state(n)].at = <<"ring", 0, 0>>
<1> DEFINE T == {header(n), data(n), state(n)}
           h == setJMemoryPhysical(u, header(n), <<"pcap", p, 0>>)
           d == setJMemoryPhysical(h, data(n), <<"pcap", p, 1>>)
           e == [d EXCEPT !.mem[header(n)].size = HeaderSize]
           s == [e EXCEPT !.mem[data(n)].size = len]
           w == jmemoryPeer(s, state(n), <<"ring", 0, 0>>, StateSize, Scanner)
<1>1. header(n) \in JMemory /\ data(n) \in JMemory /\ state(n) \in JMemory
  BY Objects DEF Parts
<1>2. ReadWorld(u, p, n, len) = w
  <2>1. s = [d EXCEPT !.mem[header(n)].size = HeaderSize, !.mem[data(n)].size = len]
    OBVIOUS
  <2>2. ReadWorld(u, p, n, len) = scan([d EXCEPT !.mem[header(n)].size = HeaderSize, !.mem[data(n)].size = len], n)
    BY DEF ReadWorld
  <2> HIDE DEF s, d
  <2>3. QED BY <2>1, <2>2 DEF scan
<1>3. Good(h, q) /\ Touch(u, h, {header(n)}) /\ h.mem[header(n)].at = <<"pcap", p, 0>>
  <2>1. Good(h, q)  BY <1>1, PhysicalGood
  <2>2. Touch(u, h, {header(n)}) /\ h.mem[header(n)] = [Fresh EXCEPT !.at = <<"pcap", p, 0>>]
    BY <1>1, PhysicalTouch
  <2> HIDE DEF h
  <2>3. QED BY <2>1, <2>2 DEF Fresh
<1> HIDE DEF h
<1>4. Good(d, q) /\ Touch(h, d, {data(n)}) /\ d.mem[data(n)].at = <<"pcap", p, 1>>
  <2>1. Good(d, q)  BY <1>1, <1>3, PhysicalGood
  <2>2. Touch(h, d, {data(n)}) /\ d.mem[data(n)] = [Fresh EXCEPT !.at = <<"pcap", p, 1>>]
    BY <1>1, <1>3, PhysicalTouch
  <2> HIDE DEF d
  <2>3. QED BY <2>1, <2>2 DEF Fresh
<1> HIDE DEF d
<1>5. Good(e, q) /\ Touch(d, e, {header(n)}) /\ e.mem[header(n)].at = d.mem[header(n)].at
  <2>1. Good(e, q)  BY <1>1, <1>4, SizeGood
  <2>2. Touch(d, e, {header(n)}) /\ e.mem[header(n)].at = d.mem[header(n)].at
    <3>1. Shaped(d) /\ DOMAIN d.mem[header(n)] = {"at", "size", "keeper", "ref"}
      BY <1>1, <1>4 DEF Good, Shaped
    <3>2. /\ e.heap = d.heap /\ e.mem[header(n)] = [d.mem[header(n)] EXCEPT !.size = HeaderSize]
          /\ \A x \in JMemory : x # header(n) => e.mem[x] = d.mem[x]
      BY <1>1, <3>1 DEF Shaped
    <3> HIDE DEF e
    <3>3. e.mem[header(n)].at = d.mem[header(n)].at /\ e.mem[header(n)].ref = d.mem[header(n)].ref
      BY <3>1, <3>2
    <3>4. QED BY <3>2, <3>3 DEF Touch
  <2>3. QED BY <2>1, <2>2
<1> HIDE DEF e
<1>6. Good(s, q) /\ Touch(e, s, {data(n)}) /\ s.mem[data(n)].at = e.mem[data(n)].at
  <2>1. Good(s, q)  BY <1>1, <1>5, SizeGood
  <2>2. Touch(e, s, {data(n)}) /\ s.mem[data(n)].at = e.mem[data(n)].at
    <3>1. Shaped(e) /\ DOMAIN e.mem[data(n)] = {"at", "size", "keeper", "ref"}
      BY <1>1, <1>5 DEF Good, Shaped
    <3>2. /\ s.heap = e.heap /\ s.mem[data(n)] = [e.mem[data(n)] EXCEPT !.size = len]
          /\ \A x \in JMemory : x # data(n) => s.mem[x] = e.mem[x]
      BY <1>1, <3>1 DEF Shaped
    <3> HIDE DEF s
    <3>3. s.mem[data(n)].at = e.mem[data(n)].at /\ s.mem[data(n)].ref = e.mem[data(n)].ref
      BY <3>1, <3>2
    <3>4. QED BY <3>2, <3>3 DEF Touch
  <2>3. QED BY <2>1, <2>2
<1> HIDE DEF s
<1>7. Touch(s, w, {state(n)}) /\ w.mem[state(n)].at = <<"ring", 0, 0>>
  BY <1>1, <1>6, PeerTouch DEF jmemoryPeer
<1> HIDE DEF w
<1>8. Touch(u, w, T)
  <2>1. Touch(u, d, {header(n)} \union {data(n)})  BY <1>3, <1>4, TouchChain
  <2>2. Touch(u, e, ({header(n)} \union {data(n)}) \union {header(n)})  BY <2>1, <1>5, TouchChain
  <2>3. Touch(u, s, (({header(n)} \union {data(n)}) \union {header(n)}) \union {data(n)})
    BY <2>2, <1>6, TouchChain
  <2>4. Touch(u, w, ((({header(n)} \union {data(n)}) \union {header(n)}) \union {data(n)}) \union {state(n)})
    BY <2>3, <1>7, TouchChain
  <2>5. ((({header(n)} \union {data(n)}) \union {header(n)}) \union {data(n)}) \union {state(n)} = T
    OBVIOUS
  <2> HIDE DEF T
  <2>6. QED BY <2>4, <2>5
<1>9. w.mem[header(n)].at = <<"pcap", p, 0>> /\ w.mem[data(n)].at = <<"pcap", p, 1>>
  BY <1>1, <1>3, <1>4, <1>5, <1>6, <1>7, Distinct DEF Touch
<1>10. QED BY <1>2, <1>7, <1>8, <1>9 DEF h, d

\* nextEx reads a packet
LEMMA NextExReads ==
  ASSUME KeepInv, RefInv, HandleInv, NEW p \in Pcaps, NEW n \in Packets, Readable(p), Has(n),
         Usable(p), More, Got(p), UNCHANGED <<pool, call>>, NEW w, Lent(w),
         Touch(World, w, {header(n), data(n), state(n)}),
         w.mem[header(n)].at = <<"pcap", p, 0>>, w.mem[data(n)].at = <<"pcap", p, 1>>,
         w.mem[state(n)].at = <<"ring", 0, 0>>,
         ring' = frames + 1, held' = [Returned EXCEPT ![n] = frames + 1], view' = Blank({n})
  PROVE  KeepInv'
<1>1. Counting  BY DEF KeepInv
<1>2. PICK f : f = frames + 1  OBVIOUS
<1>3. frames' \in Nat /\ frames' + call'.batch <= Len(Caplen) /\ f \in DOMAIN Caplen /\ f \in Nat
  BY <1>1, <1>2, GotCounts DEF Counting
<1>4. held'[n] = f /\ held' \in [Packets -> Int] /\ \A m \in Packets \ {n} : held'[m] = Returned[m]
  BY <1>1, <1>2, <1>3, ReturnedHeld
<1>5. Shows(p, f)'
  <2>1. pcap[p].held /\ pcap[p].native = "active"  BY DEF Readable, Mine
  <2>2. pcap' = [pcap EXCEPT ![p].holds = f]  BY <1>2 DEF Got
  <2>3. pcap'[p].held /\ pcap'[p].native = "active" /\ pcap'[p].holds = f
    BY <2>1, <2>2 DEF HandleInv, PcapFields
  <2>4. QED BY <2>3 DEF Shows
<1>6. KeptPacket(n)'
  <2>1. /\ mem'[header(n)].at = <<"pcap", p, 0>> /\ mem'[data(n)].at = <<"pcap", p, 1>>
        /\ mem'[state(n)].at = <<"ring", 0, 0>>
    BY DEF Lent
  <2>2. InRing(mem[state(n)].at, f)'  BY <1>2, <2>1 DEF InRing
  <2>3. QED BY <1>3, <1>4, <1>5, <2>1, <2>2 DEF KeptPacket
<1>7. n # call.work /\ (Used(n) \/ n \in FreePackets)  BY <1>1, HasPacket
<1>8. w.mem[header(n)].at[1] # "heap"  OBVIOUS
<1> DEFINE T == {header(n), data(n), state(n)}
<1>9. Touch(World, w, T) /\ T \subseteq {header(n), data(n), state(n)}  OBVIOUS
<1> HIDE DEF T
<1>10. QED BY <1>3, <1>4, <1>6, <1>7, <1>8, <1>9, OnePacketKeep

\* nextEx finds no packet, and scans the one there is once more
LEMMA NextExScans ==
  ASSUME KeepInv, RefInv, HandleInv, NEW n \in Packets, UNCHANGED <<pool, call, frames>>,
         Lent(scan(World, n)), ring' = getByte(n), held' = Returned, view' = Blank({})
  PROVE  KeepInv'
<1> DEFINE s == state(n)
           w == scan(World, n)
<1>1. Counting /\ Texts(World) /\ Good(World, queue)  BY DEF KeepInv, RefInv
<1>2. s \in JMemory  BY Objects DEF Parts
<1>3. Touch(World, w, {s}) /\ w.mem[s].at = <<"ring", 0, 0>>
  BY <1>1, <1>2, PeerTouch DEF scan, jmemoryPeer
<1>4. Lent(w)  OBVIOUS
<1> HIDE DEF w
<1>5. /\ SameObjects({s}) /\ Texts(World')
      /\ \A a, m, at, len, k : a \notin {s} /\ Claim(a, m, at, len, k) => Stored(World', a, at, len, k)
  BY <1>3, <1>4, LentTouch
<1>6. mem'[s].at = <<"ring", 0, 0>>  BY <1>3, <1>4 DEF Lent
<1>7. \A m \in Packets : /\ held'[m] > 0 => held'[m] = held[m] /\ ~Borrowed(m)
                         /\ held'[m] >= 0 => held[m] >= 0
                         /\ held[m] <= 0 => held'[m] = held[m]
  BY <1>1, ReturnedHeld
<1>8. /\ view' \in [Views -> [held : BOOLEAN, of : Packets \union {0}, from : Packets \union {0}, shows : Int]]
      /\ \A v \in Views : view'[v].held =>
           view'[v] = view[v] /\ ~\E o \in ViewParts(v) : Foreign(mem[o].at)
      /\ \A v \in Views : view'[v].from \in {view[v].from, 0}
  BY <1>1, BlankViews
<1>9. Counting'
  <2>1. held' \in [Packets -> Int]  BY <1>1, ReturnedHeld
  <2>2. ASSUME call'.work \in Packets
        PROVE  held'[call'.work] <= 0 /\ \A v \in Views : view'[v].from # call'.work
    BY <1>1, <1>7, <1>8, <2>2, PacketsAssumption DEF Counting
  <2>3. QED BY <1>1, <1>8, <2>1, <2>2 DEF Counting
<1>10. (\A b \in Blocks : <<"block", b>> \notin {s}) /\ (\A d \in Packets : memory(d) \notin {s} /\ header(d) \notin {s})
  BY Distinct
<1>11. \A m \in Packets : Used(m)' => Used(m)  BY <1>7 DEF Used
<1>12. held'[n] > 0 => KeptPacket(n)'
  <2> SUFFICES ASSUME held'[n] > 0 PROVE KeptPacket(n)'
    OBVIOUS
  <2>1. held'[n] = held[n] /\ ~Borrowed(n) /\ held[n] > 0  BY <1>7
  <2>2. PICK k, a : k = held[n] /\ a = mem[data(n)].keeper  OBVIOUS
  <2>3. KeptPacket(n)  BY <2>1 DEF KeepInv
  <2>4. ~Foreign(mem[data(n)].at)  BY <2>1 DEF Borrowed, Parts
  <2>5. Claim(a, n, mem[data(n)].at, Caplen[k], k) /\ Claim(a, n, mem[header(n)].at, HeaderSize, k)
        /\ k \in DOMAIN Caplen
    BY <2>2, <2>3, <2>4 DEF KeptPacket, Foreign
  <2>6. ring' = k
    <3>1. Stored(World, a, mem[data(n)].at, Caplen[k], k)  BY <2>5 DEF Claim
    <3>2. getByte(n) = k  BY <1>1, <3>1, StoredRead DEF getByte
    <3>3. QED BY <3>2
  <2>7. mem'[data(n)] = mem[data(n)] /\ mem'[header(n)] = mem[header(n)]
    <3>1. data(n) \in JMemory /\ header(n) \in JMemory  BY Objects DEF Parts
    <3>2. QED BY <1>5, <3>1, Distinct DEF SameObjects
  <2>8. a \notin {s}
    <3>1. a = header(n) \/ \E b \in Blocks : a = <<"block", b>>
      BY <2>5 DEF Claim, Reserved, Stored
    <3>2. QED BY <1>10, <3>1
  <2>9. SameMemory
    <3>1. \A d \in Packets : mem'[memory(d)] = mem[memory(d)]
      BY <1>5, <1>10, Objects DEF SameObjects, Parts
    <3>2. QED BY <1>11, <3>1 DEF SameMemory
  <2>10. \A at, len : Claim(a, n, at, len, k) => Claim(a, n, at, len, k)'
    BY <1>5, <2>8, <2>9, ReservedStays DEF Claim, Stored
  <2>11. /\ Claim(a, n, mem[data(n)].at, Caplen[k], k)' /\ Claim(a, n, mem[header(n)].at, HeaderSize, k)'
         /\ InRing(mem[state(n)].at, k)'
    BY <1>6, <2>5, <2>6, <2>7, <2>10 DEF InRing
  <2>12. QED BY <2>1, <2>2, <2>5, <2>7, <2>11 DEF KeptPacket
<1>13. \A m \in Packets : held'[m] > 0 => KeptPacket(m)' \/ Still(m, {s}, {})
  <2> SUFFICES ASSUME NEW m \in Packets, m # n, held'[m] > 0 PROVE Still(m, {s}, {})
    BY <1>12
  <2>1. {header(m), data(m), state(m)} \intersect {s} = {}  BY Distinct
  <2>2. QED BY <1>7, <2>1 DEF Still
<1>14. \A v \in Views : view'[v].held => StillView(v, {s}, {})
  <2> SUFFICES ASSUME NEW v \in Views, view'[v].held PROVE StillView(v, {s}, {})
    OBVIOUS
  <2>1. ViewParts(v) \intersect {s} = {}  BY Distinct DEF ViewParts
  <2>2. header(view[v].from) \notin {s}  BY Distinct
  <2>3. QED BY <1>8, <2>1, <2>2 DEF StillView
<1> DEFINE T == {s}
<1>15. T = {s}  OBVIOUS
<1> HIDE DEF T, s
<1>16. QED BY <1>5, <1>9, <1>10, <1>11, <1>13, <1>14, <1>15, SteadyKeep

-----------------------------------------------------------------------------
(* Copies *)

LEMMA StoredSame ==
  ASSUME NEW w, NEW v, NEW o \in JMemory, v.heap = w.heap, v.mem[o].ref = w.mem[o].ref,
         \A x \in JMemory : x # o => v.mem[x] = w.mem[x]
  PROVE  \A a, at, len, k : Stored(w, a, at, len, k) => Stored(v, a, at, len, k)
BY DEF Stored

LEMMA Sizes ==
  ASSUME NEW k \in DOMAIN Caplen
  PROVE  /\ HeaderSize \in Nat \ {0} /\ StateSize \in Nat \ {0} /\ Caplen[k] \in Nat \ {0}
         /\ Caplen[k] % 8 \in Nat /\ copySize(k) \in Nat
         /\ copySize(k) = HeaderSize + StateSize + Caplen[k]
<1>1. Caplen[k] \in Nat \ {0}  BY SizesAssumption
<1>2. Caplen[k] % 8 \in Nat  BY <1>1
<1>3. QED BY <1>1, <1>2, SizesAssumption DEF copySize

\* the packet that is given to a packet handler: its capture header has the block
LEMMA TransferWorld ==
  ASSUME NEW w, NEW q, Good(w, q), Texts(w), NEW n \in Packets, NEW b \in Blocks,
         NEW k \in DOMAIN Caplen, ~w.heap[b].live, w.mem[header(n)].ref = 0
  PROVE  LET r == transferToNewBuffer(w, n, b, k)
             T == {header(n), data(n), state(n)}
         IN  /\ Texts(r) /\ \A x \in JMemory \ T : r.mem[x] = w.mem[x]
             /\ \A a, at, len, j : a \notin T /\ Stored(w, a, at, len, j) => Stored(r, a, at, len, j)
             /\ r.mem[header(n)].ref = b /\ r.mem[header(n)].at = <<"heap", b, 0>>
             /\ r.mem[data(n)].keeper = header(n)
             /\ Stored(r, header(n), r.mem[header(n)].at, HeaderSize, k)
             /\ Stored(r, header(n), r.mem[data(n)].at, Caplen[k], k)
             /\ Stored(r, header(n), r.mem[state(n)].at, StateSize, k)
<1> DEFINE off == HeaderSize + Caplen[k] + (Caplen[k] % 8)
           x1 == <<"heap", b, 0>>
           x2 == <<"heap", b, HeaderSize>>
           x3 == <<"heap", b, off>>
           a == allocate(w, header(n), b, copySize(k))
           m == memcpy(a, x1, HeaderSize, k)
           h == [m EXCEPT !.mem[header(n)].size = HeaderSize]
           m2 == memcpy(h, x2, Caplen[k], k)
           d == jmemoryPeer(m2, data(n), x2, Caplen[k], header(n))
           m3 == memcpy(d, x3, StateSize, k)
           r == jmemoryPeer(m3, state(n), x3, StateSize, header(n))
           T == {header(n), data(n), state(n)}
           S(u) == \A o, at, len, j : o \notin T /\ Stored(w, o, at, len, j) => Stored(u, o, at, len, j)
<1>1. header(n) \in JMemory /\ data(n) \in JMemory /\ state(n) \in JMemory
  BY Objects DEF Parts
<1>2. transferToNewBuffer(w, n, b, k) = r  BY DEF transferToNewBuffer
<1>3. \A c \in Blocks : header(n) # <<"block", c>>  BY DEF header
<1>4. /\ HeaderSize \in Nat \ {0} /\ StateSize \in Nat \ {0} /\ Caplen[k] \in Nat \ {0} /\ off \in Nat
      /\ HeaderSize + Caplen[k] <= off
  BY Sizes
<1>5. /\ x1[1] = "heap" /\ x1[2] = b /\ x1[3] = 0
      /\ x2[1] = "heap" /\ x2[2] = b /\ x2[3] = HeaderSize
      /\ x3[1] = "heap" /\ x3[2] = b /\ x3[3] = off
  OBVIOUS
<1>6. \A o, at, len, j : Stored(w, o, at, len, j) => at[2] # b
  BY BlocksAssumption DEF Stored, Good, Owned
<1> HIDE DEF off
<1>7. /\ Good(a, q) /\ Texts(a) /\ S(a) /\ a.mem[header(n)].ref = b /\ a.mem[header(n)].at = x1
      /\ \A x \in JMemory \ T : a.mem[x] = w.mem[x]
  <2>1. Good(a, q)  BY <1>1, <1>3, AllocateGood
  <2>2. /\ a.mem[header(n)] = [at |-> <<"heap", b, 0>>, size |-> copySize(k), keeper |-> header(n), ref |-> b]
        /\ \A x \in JMemory \ {header(n)} : a.mem[x] = w.mem[x]
        /\ \A o, at, len, j : Stored(w, o, at, len, j) => (o # header(n) => Stored(a, o, at, len, j))
        /\ Texts(a)
    BY <1>1, AllocateKeeps
  <2> HIDE DEF a
  <2>3. QED BY <2>1, <2>2
<1> HIDE DEF a, x1, x2, x3
<1>8. /\ Good(m, q) /\ Texts(m) /\ S(m) /\ m.mem = a.mem /\ Stored(m, header(n), x1, HeaderSize, k)
  <2>1. Good(m, q)  BY <1>7, CopyGood
  <2>2. /\ m.mem = a.mem /\ Texts(m)
        /\ \A o, at, len, j : Stored(a, o, at, len, j) /\ at[2] # b => Stored(m, o, at, len, j)
        /\ Stored(m, header(n), x1, HeaderSize, k)
    BY <1>1, <1>4, <1>5, <1>7, CopyKeeps
  <2> HIDE DEF m
  <2>3. QED BY <1>6, <1>7, <2>1, <2>2
<1> HIDE DEF m
<1>9. /\ Good(h, q) /\ Texts(h) /\ S(h) /\ Stored(h, header(n), x1, HeaderSize, k)
      /\ h.mem[header(n)].ref = b /\ h.mem[header(n)].at = x1
      /\ \A x \in JMemory \ T : h.mem[x] = w.mem[x]
  <2>1. Good(h, q)  BY <1>1, <1>8, SizeGood
  <2>2. DOMAIN m.mem[header(n)] = {"at", "size", "keeper", "ref"} /\ Shaped(m)  BY <1>1, <1>8 DEF Good, Shaped
  <2>3. /\ h.heap = m.heap /\ h.mem[header(n)] = [m.mem[header(n)] EXCEPT !.size = HeaderSize]
        /\ \A x \in JMemory : x # header(n) => h.mem[x] = m.mem[x]
    BY <1>1, <2>2 DEF Shaped
  <2> HIDE DEF h
  <2>4. h.mem[header(n)].ref = m.mem[header(n)].ref /\ h.mem[header(n)].at = m.mem[header(n)].at
    BY <2>2, <2>3
  <2>5. \A o, at, len, j : Stored(m, o, at, len, j) => Stored(h, o, at, len, j)
    BY <1>1, <2>3, <2>4, StoredSame
  <2>6. Texts(h)  BY <1>8, <2>3 DEF Texts
  <2>7. QED BY <1>7, <1>8, <2>1, <2>3, <2>4, <2>5, <2>6
<1> HIDE DEF h
<1>10. /\ Good(m2, q) /\ Texts(m2) /\ S(m2) /\ m2.mem = h.mem
       /\ Stored(m2, header(n), x1, HeaderSize, k) /\ Stored(m2, header(n), x2, Caplen[k], k)
  <2>1. Good(m2, q)  BY <1>9, CopyGood
  <2>2. /\ m2.mem = h.mem /\ Texts(m2)
        /\ \A o, at, len, j : Stored(h, o, at, len, j)
              /\ (at[2] # b \/ at[3] + len <= HeaderSize \/ HeaderSize + Caplen[k] <= at[3])
              => Stored(m2, o, at, len, j)
        /\ Stored(m2, header(n), x2, Caplen[k], k)
    BY <1>1, <1>4, <1>5, <1>9, CopyKeeps
  <2> HIDE DEF m2
  <2>3. Stored(m2, header(n), x1, HeaderSize, k)  BY <1>4, <1>5, <1>9, <2>2
  <2>4. QED BY <1>6, <1>9, <2>1, <2>2, <2>3
<1> HIDE DEF m2
<1>11. /\ Good(d, q) /\ Texts(d) /\ S(d) /\ d.mem[data(n)].at = x2 /\ d.mem[data(n)].keeper = header(n)
       /\ Stored(d, header(n), x1, HeaderSize, k) /\ Stored(d, header(n), x2, Caplen[k], k)
       /\ d.mem[header(n)].ref = b /\ d.mem[header(n)].at = x1
       /\ \A x \in JMemory \ T : d.mem[x] = w.mem[x]
  <2>1. Good(d, q)  BY <1>1, <1>10, PeerGood DEF jmemoryPeer
  <2>2. Touch(m2, d, {data(n)}) /\ d.mem[data(n)].at = x2 /\ d.mem[data(n)].keeper = header(n)
    BY <1>1, <1>10, PeerTouch DEF jmemoryPeer
  <2> HIDE DEF d
  <2>3. /\ Texts(d)
        /\ \A o, at, len, j : o # data(n) /\ Stored(m2, o, at, len, j) => Stored(d, o, at, len, j)
    BY <1>10, <2>2, TouchKeeps
  <2>4. \A x \in JMemory : x # data(n) => d.mem[x] = m2.mem[x]  BY <2>2 DEF Touch
  <2>5. header(n) # data(n)  BY Distinct
  <2>6. QED BY <1>1, <1>9, <1>10, <2>1, <2>2, <2>3, <2>4, <2>5
<1> HIDE DEF d
<1>12. /\ Good(m3, q) /\ Texts(m3) /\ S(m3) /\ m3.mem = d.mem
       /\ Stored(m3, header(n), x1, HeaderSize, k) /\ Stored(m3, header(n), x2, Caplen[k], k)
       /\ Stored(m3, header(n), x3, StateSize, k)
  <2>1. Good(m3, q)  BY <1>11, CopyGood
  <2>2. /\ m3.mem = d.mem /\ Texts(m3)
        /\ \A o, at, len, j : Stored(d, o, at, len, j)
              /\ (at[2] # b \/ at[3] + len <= off \/ off + StateSize <= at[3])
              => Stored(m3, o, at, len, j)
        /\ Stored(m3, header(n), x3, StateSize, k)
    BY <1>1, <1>4, <1>5, <1>11, CopyKeeps
  <2> HIDE DEF m3
  <2>3. Stored(m3, header(n), x1, HeaderSize, k) /\ Stored(m3, header(n), x2, Caplen[k], k)
    BY <1>4, <1>5, <1>11, <2>2
  <2>4. QED BY <1>6, <1>11, <2>1, <2>2, <2>3
<1> HIDE DEF m3
<1>13. /\ Texts(r) /\ S(r) /\ r.mem[state(n)].at = x3
       /\ Stored(r, header(n), x1, HeaderSize, k) /\ Stored(r, header(n), x2, Caplen[k], k)
       /\ Stored(r, header(n), x3, StateSize, k)
       /\ r.mem[header(n)] = d.mem[header(n)] /\ r.mem[data(n)] = d.mem[data(n)]
       /\ \A x \in JMemory \ T : r.mem[x] = w.mem[x]
  <2>1. Touch(m3, r, {state(n)}) /\ r.mem[state(n)].at = x3
    BY <1>1, <1>12, PeerTouch DEF jmemoryPeer
  <2> HIDE DEF r
  <2>2. /\ Texts(r)
        /\ \A o, at, len, j : o # state(n) /\ Stored(m3, o, at, len, j) => Stored(r, o, at, len, j)
    BY <1>12, <2>1, TouchKeeps
  <2>3. \A x \in JMemory : x # state(n) => r.mem[x] = m3.mem[x]  BY <2>1 DEF Touch
  <2>4. header(n) # state(n) /\ data(n) # state(n)  BY Distinct
  <2>5. QED BY <1>1, <1>11, <1>12, <2>1, <2>2, <2>3, <2>4
<1> HIDE DEF r
<1>14. QED BY <1>2, <1>11, <1>13 DEF x1

\* A packet that a handler is given is kept by its own header.
LEMMA PacketCopyKeep ==
  ASSUME KeepInv, RefInv, HandleInv, NEW n \in FreePackets, NEW b \in Blocks, malloc(b),
         call.work \in Packets, call.batch > 0, NEW w, Good(w, queue),
         Touch(World, w, {header(call.work), data(call.work), state(call.work)}),
         w.mem[header(call.work)].at = <<"stack", call.p, 0>>, ~w.heap[b].live,
         Lent(transferToNewBuffer(w, n, b, frames + 1)),
         NEW e, NEW x, NEW o, Taken(e, x, o),
         held' = [Returned EXCEPT ![n] = frames + 1], view' = Blank({})
  PROVE  KeepInv'
<1>0. PICK m, f : m = call.work /\ f = frames + 1  OBVIOUS
<1> DEFINE S == {header(m), data(m), state(m)}
           U == {header(n), data(n), state(n)}
           T == S \union U
           r == transferToNewBuffer(w, n, b, f)
<1>1. Counting /\ Texts(World) /\ Good(World, queue) /\ World.mem = mem  BY DEF KeepInv, RefInv, World
<1>2. m \in Packets /\ n \in Packets /\ n # m /\ held[m] <= 0 /\ mem[header(n)] = Fresh
      /\ \A v \in Views : view[v].from # n /\ view[v].from # m
  BY <1>0, <1>1 DEF Counting, FreePackets, Parts
<1>3. f \in DOMAIN Caplen /\ f \in Nat  BY <1>0, <1>1, SizesAssumption DEF Counting, HandleInv
<1>4. header(n) \in JMemory /\ header(m) \in JMemory  BY <1>2, Objects DEF Parts
<1>5. w.mem[header(n)].ref = 0 /\ Touch(World, w, S)
  <2>1. Touch(World, w, S)  BY <1>0
  <2>2. header(n) \notin S  BY <1>2, Distinct
  <2> HIDE DEF S
  <2>3. w.mem[header(n)] = Fresh  BY <1>1, <1>2, <1>4, <2>1, <2>2 DEF Touch
  <2>4. QED BY <2>1, <2>3 DEF Fresh
<1>6. /\ \A a, at, len, k : a \notin S /\ Stored(World, a, at, len, k) => Stored(w, a, at, len, k)
      /\ Texts(w)
  BY <1>1, <1>5, TouchKeeps
<1>7. /\ Texts(r) /\ \A y \in JMemory \ U : r.mem[y] = w.mem[y]
      /\ \A a, at, len, j : a \notin U /\ Stored(w, a, at, len, j) => Stored(r, a, at, len, j)
      /\ r.mem[header(n)].ref = b /\ r.mem[header(n)].at = <<"heap", b, 0>>
      /\ r.mem[data(n)].keeper = header(n)
      /\ Stored(r, header(n), r.mem[header(n)].at, HeaderSize, f)
      /\ Stored(r, header(n), r.mem[data(n)].at, Caplen[f], f)
      /\ Stored(r, header(n), r.mem[state(n)].at, StateSize, f)
  BY <1>2, <1>3, <1>5, <1>6, TransferWorld
<1>8. Lent(r)  BY <1>0
<1> HIDE DEF r
<1>9. mem' = r.mem /\ World'.mem = r.mem /\ World'.heap = r.heap  BY <1>8 DEF Lent, World
<1>10. \A a, at, len, k : Stored(r, a, at, len, k) => Stored(World', a, at, len, k)  BY <1>9 DEF Stored
<1>11. Texts(World')  BY <1>7, <1>9 DEF Texts
<1>12. SameObjects(T)  BY <1>1, <1>5, <1>7, <1>9 DEF SameObjects, Touch
<1>13. \A a, l, at, len, k : a \notin T /\ Claim(a, l, at, len, k) => Stored(World', a, at, len, k)
  BY <1>6, <1>7, <1>10 DEF Claim
<1>14. held'[n] = f /\ held' \in [Packets -> Int] /\ \A l \in Packets \ {n} : held'[l] = Returned[l]
  BY <1>0, <1>1, <1>2, <1>3, ReturnedHeld
<1>15. \A l \in Packets \ {n} : /\ held'[l] > 0 => held'[l] = held[l] /\ ~Borrowed(l)
                                /\ held'[l] >= 0 => held[l] >= 0
                                /\ held[l] <= 0 => held'[l] = held[l]
  BY <1>1, <1>14, ReturnedHeld
<1>16. /\ view' \in [Views -> [held : BOOLEAN, of : Packets \union {0}, from : Packets \union {0}, shows : Int]]
       /\ \A v \in Views : view'[v].held =>
            view'[v] = view[v] /\ ~\E y \in ViewParts(v) : Foreign(mem[y].at)
       /\ \A v \in Views : view'[v].from \in {view[v].from, 0}
  BY <1>1, BlankViews
<1>17. frames' \in Nat /\ frames' + call'.batch <= Len(Caplen) /\ call'.work = call.work /\ pool' = pool
  BY TakenCounts
<1>18. Counting'
  <2>1. held'[m] <= 0 /\ \A v \in Views : view'[v].from # m
    BY <1>2, <1>15, <1>16, PacketsAssumption
  <2>2. QED BY <1>0, <1>14, <1>16, <1>17, <2>1 DEF Counting
<1>19. (\A c \in Blocks : <<"block", c>> \notin T) /\ (\A d \in Packets : memory(d) \notin T)
  BY Distinct
<1>20. KeptPacket(n)'
  <2>1. PICK a : a = header(n)  OBVIOUS
  <2>2. \A at, len : Reserved(a, n, at, len)'  BY <2>1 DEF Reserved
  <2>3. /\ Stored(World', a, mem'[header(n)].at, HeaderSize, f)
        /\ Stored(World', a, mem'[data(n)].at, Caplen[f], f)
        /\ Stored(World', a, mem'[state(n)].at, StateSize, f)
    BY <1>7, <1>9, <1>10, <2>1
  <2>4. /\ Claim(a, n, mem[header(n)].at, HeaderSize, f)' /\ Claim(a, n, mem[data(n)].at, Caplen[f], f)'
        /\ Claim(a, n, mem[state(n)].at, StateSize, f)'
    BY <2>2, <2>3 DEF Claim, Stored
  <2>5. mem'[data(n)].keeper = a  BY <1>7, <1>9, <2>1
  <2>6. QED BY <1>3, <1>14, <2>4, <2>5 DEF KeptPacket
<1>21. \A l \in Packets : held'[l] > 0 => KeptPacket(l)' \/ Still(l, T, {})
  <2> SUFFICES ASSUME NEW l \in Packets, l # n, held'[l] > 0 PROVE Still(l, T, {})
    BY <1>20
  <2>1. held'[l] = held[l] /\ ~Borrowed(l) /\ held[l] > 0  BY <1>15
  <2>2. l # m
    <3>1. held'[m] = held[m] /\ held[m] \in Int  BY <1>1, <1>2, <1>15 DEF Counting
    <3>2. QED BY <1>2, <2>1, <3>1
  <2>3. {header(l), data(l), state(l)} \intersect T = {}  BY <2>2, Distinct
  <2> HIDE DEF T
  <2>4. QED BY <2>1, <2>3 DEF Still
<1>22. \A v \in Views : view'[v].held => StillView(v, T, {})
  <2> SUFFICES ASSUME NEW v \in Views, view'[v].held PROVE StillView(v, T, {})
    OBVIOUS
  <2>1. ViewParts(v) \intersect T = {}  BY Distinct DEF ViewParts
  <2>2. header(view[v].from) \notin T  BY <1>2, Distinct
  <2> HIDE DEF T
  <2>3. QED BY <1>16, <2>1, <2>2 DEF StillView
<1>23. \A l \in Packets : Used(l)' => Used(l) \/ l \in FreePackets  BY <1>15, <1>17 DEF Used
<1>24. \A l \in Packets : Used(l)' => Topped(l)' \/ header(l) \notin T
  <2> SUFFICES ASSUME NEW l \in Packets, header(l) \in T PROVE Topped(l)'
    OBVIOUS
  <2>1. l = m \/ l = n  BY Distinct
  <2>2. CASE l = n
    <3>1. mem'[header(l)].at = <<"heap", b, 0>> /\ mem'[header(l)].ref = b  BY <1>7, <1>9, <2>2
    <3>2. QED BY <3>1 DEF Topped
  <2>3. CASE l = m
    <3>1. header(m) \notin U  BY <1>2, Distinct
    <3>2. mem'[header(m)].at = <<"stack", call.p, 0>>  BY <1>0, <1>4, <1>7, <1>9, <3>1
    <3>3. QED BY <2>3, <3>2 DEF Topped
  <2>4. QED BY <2>1, <2>2, <2>3
<1> HIDE DEF T
<1>25. QED BY <1>11, <1>12, <1>13, <1>17, <1>18, <1>19, <1>21, <1>22, <1>23, <1>24, SteadyKeep

LEMMA PacketCallbackKeep ==
  ASSUME KeepInv, RefInv, HandleInv, cb_pcap_packet_dispatch
  PROVE  KeepInv'
<1> DEFINE w == scan(Peered(frames + 1), call.work)
           T == {header(call.work), data(call.work), state(call.work)}
<1>1. call.work \in Packets /\ call.batch > 0  BY DEF cb_pcap_packet_dispatch, RefInv, Lends
<1>2. view' = Blank({})  BY DEF cb_pcap_packet_dispatch
<1>3. Touch(World, w, T) /\ w.mem[header(call.work)].at = <<"stack", call.p, 0>>  BY <1>1, PeeredTouch
<1>4. Good(w, queue) /\ Lets(World, w, Parts(call.work))  BY <1>1, PeeredGood DEF RefInv
<1> HIDE DEF w
<1>5. \/ (\E e, x, o : Taken(e, x, o)) /\ UNCHANGED <<mem, heap>> /\ held' = Returned
      \/ (\E e, x, o : Taken(e, x, o)) /\ Lent(w) /\ held' = Returned
      \/ \E n \in FreePackets, b \in Blocks :
           /\ malloc(b) /\ Lent(transferToNewBuffer(w, n, b, frames + 1))
           /\ \E e, x, o : Taken(e, x, o)
           /\ held' = [Returned EXCEPT ![n] = frames + 1]
  BY DEF cb_pcap_packet_dispatch, Forbidden, Handled, w
<1>6. ASSUME NEW e, NEW x, NEW o, Taken(e, x, o), UNCHANGED <<mem, heap>>, held' = Returned
      PROVE  KeepInv'
  BY <1>2, <1>6, TakenCounts, ReturnsKeep
<1>7. ASSUME NEW e, NEW x, NEW o, Taken(e, x, o), Lent(w), held' = Returned PROVE KeepInv'
  BY <1>1, <1>2, <1>3, <1>7, LendKeep
<1>8. ASSUME NEW n \in FreePackets, NEW b \in Blocks, malloc(b),
             Lent(transferToNewBuffer(w, n, b, frames + 1)),
             NEW e, NEW x, NEW o, Taken(e, x, o), held' = [Returned EXCEPT ![n] = frames + 1]
      PROVE  KeepInv'
  <2>1. ~w.heap[b].live  BY <1>4, <1>8 DEF malloc, Lets, World
  <2>2. QED BY <1>1, <1>2, <1>3, <1>4, <1>8, <2>1, PacketCopyKeep
<1>9. QED BY <1>5, <1>6, <1>7, <1>8

-----------------------------------------------------------------------------
(* next() *)

\* What another packet has is not where the capture header of a packet in use lies, nor in its
\* private memory.
LEMMA HeaderApart ==
  ASSUME KeepInv, RefInv, NEW n \in Packets, Used(n), mem[header(n)].at[1] = "heap"
  PROVE  LET x == mem[header(n)].at
         IN  /\ x[2] \in Blocks /\ x[3] \in Nat
             /\ \A a, m, at, len, k : m # n /\ Claim(a, m, at, len, k) =>
                  at[2] # x[2] \/ at[3] + len <= x[3] \/ x[3] + HeaderSize <= at[3]
<1> DEFINE x == mem[header(n)].at
           y == mem[memory(n)]
<1>1. World.mem = mem /\ Owned(World, queue) /\ Texts(World) /\ Topped(n) /\ InPool(n)
  BY DEF World, RefInv, Good, KeepInv
<1>2. \A o, p \in JMemory : mem[o].ref = mem[p].ref /\ mem[o].ref # 0 => o = p  BY <1>1 DEF Owned
<1>3. \A a, m, at, len, k : Claim(a, m, at, len, k) =>
        /\ a \in JMemory /\ mem[a].ref = at[2] /\ at[2] \in Blocks /\ at[2] # 0 /\ at[3] \in Nat
        /\ a = header(m) \/ a = <<"block", at[2]>>
  BY <1>1, BlocksAssumption DEF Claim, Stored, Reserved
<1>4. header(n) \in JMemory /\ \A b \in Blocks : <<"block", b>> \in JMemory  BY Objects DEF Parts
<1>5. HeaderSize \in Nat  BY SizesAssumption
<1>6. CASE x[2] \in Blocks /\ x[3] \in Nat /\ mem[header(n)].ref = x[2]
  <2>1. ASSUME NEW a, NEW m, NEW at, NEW len, NEW k, m # n, Claim(a, m, at, len, k) PROVE at[2] # x[2]
    <3>1. a # header(n)  BY <1>3, <2>1, Distinct
    <3>2. QED BY <1>2, <1>3, <1>4, <1>6, <2>1, <3>1
  <2>2. QED BY <1>6, <2>1
<1>7. CASE y.at # NULL /\ x[2] = y.at[2] /\ x[3] = y.at[3]
  <2>1. /\ y.at[2] \in Blocks /\ y.at[3] \in Nat /\ y.size \in Nat /\ HeaderSize <= y.size
        /\ mem[<<"block", y.at[2]>>].ref = y.at[2]
    BY <1>1, <1>7 DEF InPool
  <2>2. ASSUME NEW a, NEW m, NEW at, NEW len, NEW k, m # n, Claim(a, m, at, len, k), at[2] = x[2]
        PROVE  at[3] + len <= x[3] \/ x[3] + HeaderSize <= at[3]
    <3>1. a # header(m)
      <4>1. mem[a].ref = mem[<<"block", y.at[2]>>].ref  BY <1>3, <1>7, <2>1, <2>2
      <4>2. a = <<"block", y.at[2]>>  BY <1>2, <1>3, <1>4, <2>1, <2>2, <4>1
      <4>3. QED BY <4>2, Distinct
    <3>2. Clear(n, at, len)  BY <2>2, <3>1 DEF Claim, Reserved
    <3>3. at[3] + len <= y.at[3] \/ y.at[3] + y.size <= at[3]  BY <1>7, <2>2, <3>2 DEF Clear
    <3>4. at[3] \in Nat  BY <1>3, <2>2
    <3>5. QED BY <1>5, <1>7, <2>1, <3>3, <3>4
  <2>3. QED BY <1>7, <2>1, <2>2
<1>8. QED BY <1>1, <1>6, <1>7 DEF Topped

\* next() copies the capture header and shows libpcap's packet
LEMMA NextReads ==
  ASSUME KeepInv, RefInv, HandleInv, NEW p \in Pcaps, NEW n \in Packets, Has(n),
         mem[header(n)].at[1] = "heap", More, Got(p), UNCHANGED <<pool, call>>,
         LET c == memcpy(World, mem[header(n)].at, HeaderSize, frames + 1)
             d == setJMemoryPhysical(c, data(n), <<"pcap", p, 1>>)
         IN  Lent([d EXCEPT !.mem[data(n)].size = Caplen[frames + 1]]),
         held' = [Returned EXCEPT ![n] = 0], view' = Blank({n})
  PROVE  KeepInv'
<1>0. PICK x, f : x = mem[header(n)].at /\ f = frames + 1  OBVIOUS
<1> DEFINE T == {data(n)}
           c == memcpy(World, x, HeaderSize, f)
           d == setJMemoryPhysical(c, data(n), <<"pcap", p, 1>>)
           w == [d EXCEPT !.mem[data(n)].size = Caplen[f]]
<1>1. Counting /\ Texts(World) /\ Good(World, queue) /\ World.mem = mem  BY DEF KeepInv, RefInv, World
<1>2. n # call.work /\ Used(n)
  <2>1. n \in FreePackets => mem[header(n)].at[1] = "null"  BY DEF FreePackets, Parts, Fresh, NULL
  <2>2. QED BY <1>1, <2>1, HasPacket
<1>3. /\ x[2] \in Blocks /\ x[3] \in Nat
      /\ \A a, m, at, len, k : m # n /\ Claim(a, m, at, len, k) =>
           at[2] # x[2] \/ at[3] + len <= x[3] \/ x[3] + HeaderSize <= at[3]
  BY <1>0, <1>2, HeaderApart
<1>4. HeaderSize \in Nat \ {0} /\ data(n) \in JMemory  BY SizesAssumption, Objects DEF Parts
<1>5. Lent(w)  BY <1>0
<1>6. Good(c, queue)  BY <1>1, CopyGood
<1>7. /\ c.mem = mem /\ Texts(c)
      /\ \A a, at, len, k :
              /\ Stored(World, a, at, len, k)
              /\ at[2] # x[2] \/ at[3] + len <= x[3] \/ x[3] + HeaderSize <= at[3]
              => Stored(c, a, at, len, k)
  BY <1>1, <1>3, <1>4, CopyKeeps
<1> HIDE DEF c
<1>8. Good(d, queue) /\ Touch(c, d, T)
  <2>1. Good(d, queue)  BY <1>4, <1>6, PhysicalGood
  <2>2. Touch(c, d, T)  BY <1>4, <1>6, PhysicalTouch
  <2>3. QED BY <2>1, <2>2
<1> HIDE DEF d
<1>9. Touch(d, w, T)
  <2>1. Shaped(d) /\ DOMAIN d.mem[data(n)] = {"at", "size", "keeper", "ref"}
    BY <1>4, <1>8 DEF Good, Shaped
  <2>2. /\ w.heap = d.heap /\ w.mem[data(n)] = [d.mem[data(n)] EXCEPT !.size = Caplen[f]]
        /\ \A o \in JMemory : o # data(n) => w.mem[o] = d.mem[o]
    BY <1>4, <2>1 DEF Shaped
  <2> HIDE DEF w
  <2>3. w.mem[data(n)].ref = d.mem[data(n)].ref  BY <2>1, <2>2
  <2>4. QED BY <2>2, <2>3 DEF Touch
<1> HIDE DEF w
<1>10. Touch(c, w, T)
  <2>1. Touch(c, w, T \union T)  BY <1>8, <1>9, TouchChain
  <2>2. T \union T = T  OBVIOUS
  <2> HIDE DEF T
  <2>3. QED BY <2>1, <2>2
<1>11. /\ \A a, at, len, k : a \notin T /\ Stored(c, a, at, len, k) => Stored(w, a, at, len, k)
       /\ Texts(w)
  BY <1>6, <1>7, <1>10, TouchKeeps
<1>12. mem' = w.mem /\ World'.mem = w.mem /\ World'.heap = w.heap  BY <1>5 DEF Lent, World
<1>13. \A a, at, len, k : Stored(w, a, at, len, k) => Stored(World', a, at, len, k)  BY <1>12 DEF Stored
<1>14. Texts(World')  BY <1>11, <1>12 DEF Texts
<1>15. SameObjects(T)  BY <1>7, <1>10, <1>12 DEF SameObjects, Touch
<1>16. \A a, m, at, len, k : m \in Packets \ {n} /\ a \notin T /\ Claim(a, m, at, len, k)
                               => Stored(World', a, at, len, k)
  <2>1. TAKE a, m, at, len, k
  <2>2. HAVE m \in Packets \ {n} /\ a \notin T /\ Claim(a, m, at, len, k)
  <2>3. Stored(World, a, at, len, k)  BY <2>2 DEF Claim
  <2>4. Stored(c, a, at, len, k)  BY <1>3, <1>7, <2>2, <2>3
  <2> HIDE DEF T
  <2>5. QED BY <1>11, <1>13, <2>2, <2>4
<1>17. frames' \in Nat /\ frames' + call'.batch <= Len(Caplen)  BY GotCounts
<1>18. held'[n] = 0 /\ held' \in [Packets -> Int] /\ \A m \in Packets \ {n} : held'[m] = Returned[m]
  BY <1>1, ReturnedHeld
<1>19. \A m \in Packets \ {n} : /\ held'[m] > 0 => held'[m] = held[m] /\ ~Borrowed(m)
                                /\ held'[m] >= 0 => held[m] >= 0
                                /\ held[m] <= 0 => held'[m] = held[m]
  BY <1>1, <1>18, ReturnedHeld
<1>20. /\ view' \in [Views -> [held : BOOLEAN, of : Packets \union {0}, from : Packets \union {0}, shows : Int]]
       /\ \A v \in Views : view'[v].held =>
            view'[v] = view[v] /\ view[v].from # n /\ ~\E y \in ViewParts(v) : Foreign(mem[y].at)
       /\ \A v \in Views : view'[v].from \in {view[v].from, 0}
  BY <1>1, BlankViews
<1>21. Counting'
  <2>1. ASSUME call'.work \in Packets
        PROVE  held'[call'.work] <= 0 /\ \A v \in Views : view'[v].from # call'.work
    <3>1. PICK m : m = call.work  OBVIOUS
    <3>2. call'.work = m  BY <3>1
    <3>3. m \in Packets /\ m # n /\ held[m] <= 0 /\ \A v \in Views : view[v].from # m
      BY <1>1, <1>2, <2>1, <3>1, <3>2 DEF Counting
    <3>4. held'[m] <= 0  BY <1>19, <3>3
    <3>5. \A v \in Views : view'[v].from # m  BY <1>20, <3>3, PacketsAssumption
    <3>6. QED BY <3>2, <3>4, <3>5
  <2>2. QED BY <1>17, <1>18, <1>20, <2>1 DEF Counting
<1>22. /\ \A b \in Blocks : <<"block", b>> \notin T
       /\ \A m \in Packets : memory(m) \notin T /\ header(m) \notin T
  BY Distinct
<1>23. \A m \in Packets : held'[m] > 0 => Still(m, T, {n})
  <2> SUFFICES ASSUME NEW m \in Packets, held'[m] > 0 PROVE Still(m, T, {n})
    OBVIOUS
  <2>1. m # n  BY <1>18
  <2>2. {header(m), data(m), state(m)} \intersect T = {}  BY <2>1, Distinct
  <2> HIDE DEF T
  <2>3. QED BY <1>19, <2>1, <2>2 DEF Still
<1>24. \A v \in Views : view'[v].held => StillView(v, T, {n})
  <2> SUFFICES ASSUME NEW v \in Views, view'[v].held PROVE StillView(v, T, {n})
    OBVIOUS
  <2>1. ViewParts(v) \intersect T = {}  BY Distinct DEF ViewParts
  <2>2. header(view[v].from) \notin T  BY Distinct
  <2> HIDE DEF T
  <2>3. QED BY <1>20, <2>1, <2>2 DEF StillView
<1>25. \A m \in Packets : Used(m)' => Used(m)  BY <1>2, <1>19 DEF Used
<1> HIDE DEF T
<1>26. QED BY <1>14, <1>15, <1>16, <1>21, <1>22, <1>23, <1>24, <1>25, SteadyKeep

LEMMA NextKeep ==
  ASSUME KeepInv, RefInv, HandleInv, NEW p \in Pcaps, NEW n \in Packets, nextEx(p, n) \/ next(p, n)
  PROVE  KeepInv'
<1>1. Readable(p) /\ Has(n) /\ UNCHANGED <<pool, queue, call>>  BY DEF nextEx, next
<1>2. Counting /\ frames \in Nat /\ frames + call.batch <= Len(Caplen)  BY DEF KeepInv, Counting
<1>3. ASSUME UNCHANGED <<mem, heap, held, view, ring, frames>>,
             UNCHANGED pcap \/ pcap' = [pcap EXCEPT ![p].break = FALSE]
      PROVE  KeepInv'
  <2>1. \A q \in Pcaps : /\ pcap'[q].held = pcap[q].held /\ pcap'[q].native = pcap[q].native
                         /\ pcap'[q].holds = pcap[q].holds
    BY <1>3 DEF HandleInv, PcapFields
  <2>2. Calm  BY <1>3, <2>1, CalmHandles
  <2>3. held' \in [Packets -> Int] /\ \A m \in Packets : held'[m] = held[m] \/ held'[m] = -1
    BY <1>2, <1>3 DEF Counting
  <2>4. frames + call'.batch <= Len(Caplen)  BY <1>1, <1>2
  <2>5. QED BY <1>1, <1>3, <2>2, <2>3, <2>4, CalmKeep
<1>4. CASE nextEx(p, n)
  <2> DEFINE w == ReadWorld(World, p, n, Caplen[frames + 1])
  <2>1. \/ /\ Usable(p) /\ More /\ Got(p) /\ Lent(w)
           /\ ring' = frames + 1 /\ held' = [Returned EXCEPT ![n] = frames + 1] /\ view' = Blank({n})
        \/ /\ Nothing(p) /\ Lent(scan(World, n)) /\ ring' = getByte(n)
           /\ held' = Returned /\ view' = Blank({})
        \/ Nothing(p) /\ UNCHANGED <<mem, heap, ring, held, view>>
    BY <1>4 DEF nextEx, ReadWorld
  <2>2. /\ Touch(World, w, {header(n), data(n), state(n)})
        /\ w.mem[header(n)].at = <<"pcap", p, 0>> /\ w.mem[data(n)].at = <<"pcap", p, 1>>
        /\ w.mem[state(n)].at = <<"ring", 0, 0>>
    <3>1. PICK u, q, len : u = World /\ q = queue /\ len = Caplen[frames + 1]  OBVIOUS
    <3>2. Good(u, q)  BY <3>1 DEF RefInv
    <3> DEFINE r == ReadWorld(u, p, n, len)
    <3>3. /\ Touch(u, r, {header(n), data(n), state(n)})
          /\ r.mem[header(n)].at = <<"pcap", p, 0>> /\ r.mem[data(n)].at = <<"pcap", p, 1>>
          /\ r.mem[state(n)].at = <<"ring", 0, 0>>
      BY <3>2, NextExWorld
    <3>4. w = r  BY <3>1
    <3> HIDE DEF r, w
    <3>5. QED BY <3>1, <3>3, <3>4
  <2> HIDE DEF w
  <2>3. CASE /\ Usable(p) /\ More /\ Got(p) /\ Lent(w)
             /\ ring' = frames + 1 /\ held' = [Returned EXCEPT ![n] = frames + 1] /\ view' = Blank({n})
    BY <1>1, <2>2, <2>3, NextExReads
  <2>4. CASE /\ Nothing(p) /\ Lent(scan(World, n)) /\ ring' = getByte(n)
             /\ held' = Returned /\ view' = Blank({})
    <3>1. UNCHANGED frames  BY <2>4 DEF Nothing
    <3>2. QED BY <1>1, <2>4, <3>1, NextExScans
  <2>5. CASE Nothing(p) /\ UNCHANGED <<mem, heap, ring, held, view>>
    BY <1>3, <2>5 DEF Nothing
  <2>6. QED BY <2>1, <2>3, <2>4, <2>5
<1>5. CASE next(p, n)
  <2>1. CASE /\ Usable(p) /\ mem[header(n)].at # NULL
             /\ ~pcap[p].break /\ More /\ Got(p)
             /\ LET c == memcpy(World, mem[header(n)].at, HeaderSize, frames + 1)
                    d == setJMemoryPhysical(c, data(n), <<"pcap", p, 1>>)
                IN  Lent([d EXCEPT !.mem[data(n)].size = Caplen[frames + 1]])
             /\ held' = [Returned EXCEPT ![n] = 0] /\ view' = Blank({n})
    <3>1. mem[header(n)].at[1] = "heap"  BY <1>5, <2>1 DEF next
    <3>2. QED BY <1>1, <2>1, <3>1, NextReads
  <2>2. CASE Nothing(p) /\ held' = Returned /\ view' = Blank({}) /\ UNCHANGED <<mem, heap>>
    <3>1. UNCHANGED frames  BY <2>2 DEF Nothing
    <3>2. QED BY <1>1, <1>2, <2>2, <3>1, ReturnsKeep
  <2>3. CASE UNCHANGED <<pcap, frames, mem, heap, held, view>>
    <3>1. UNCHANGED ring  BY <1>5 DEF next
    <3>2. QED BY <1>3, <2>3, <3>1
  <2>4. QED BY <1>5, <2>1, <2>2, <2>3 DEF next
<1>6. QED BY <1>4, <1>5

-----------------------------------------------------------------------------
(* Views *)

\* A header or a buffer is peered with a packet: its address is that of the packet's data, and what
\* keeps the packet keeps it.
LEMMA ViewsKeep ==
  ASSUME KeepInv, RefInv, HandleInv, NEW v \in Views, NEW n \in Packets, held[n] > 0, NEW w, Lent(w),
         NEW T, T \subseteq ViewParts(v), Touch(World, w, T),
         w.mem[<<"view", v>>].at = Shift(mem[data(n)].at, 0),
         w.mem[<<"view", v>>].keeper = mem[data(n)].keeper,
         NEW of \in {0, n}, of = n => w.mem[<<"vstate", v>>].at = mem[state(n)].at,
         view' = [view EXCEPT ![v] = [held |-> TRUE, of |-> of, from |-> n, shows |-> held[n]]],
         UNCHANGED <<pcap, held, pool, call, frames, ring>>
  PROVE  KeepInv'
<1>0. PICK k, a, at, st : k = held[n] /\ a = mem[data(n)].keeper /\ at = mem[data(n)].at /\ st = mem[state(n)].at
  OBVIOUS
<1>1. Counting /\ KeptPacket(n) /\ k \in Int /\ n # call.work
  BY <1>0 DEF KeepInv, Counting
<1>2. SameObjects(T) /\ Texts(World')
      /\ \A b, m, x, len, j : b \notin T /\ Claim(b, m, x, len, j) => Stored(World', b, x, len, j)
  BY LentTouch
<1>3. /\ \A b \in Blocks : <<"block", b>> \notin T
      /\ \A m : memory(m) \notin T /\ header(m) \notin T /\ data(m) \notin T /\ state(m) \notin T
  BY Distinct DEF ViewParts
<1>4. Calm  BY DEF Calm, Shows
<1>5. view'[v] = [held |-> TRUE, of |-> of, from |-> n, shows |-> k] /\ \A u \in Views \ {v} : view'[u] = view[u]
  BY <1>0, <1>1 DEF Counting
<1>6. Counting'
  <2>1. view' \in [Views -> [held : BOOLEAN, of : Packets \union {0}, from : Packets \union {0}, shows : Int]]
    BY <1>0, <1>1 DEF Counting
  <2>2. call.work \in Packets => \A u \in Views : view'[u].from # call.work
    BY <1>1, <1>5 DEF Counting
  <2>3. QED BY <1>1, <2>1, <2>2 DEF Counting
<1>7. SameMemory
  <2>1. \A d \in Packets : memory(d) \in JMemory  BY Objects DEF Parts
  <2>2. QED BY <1>2, <1>3, <2>1 DEF SameMemory, SameObjects, Used
<1>8. KeepsClaims(T, {})  BY <1>2, <1>7, ClaimsStay
<1>9. ASSUME NEW x, NEW len, Claim(a, n, x, len, k) PROVE Claim(a, n, x, len, k)'
  <2>1. a \notin T
    <3>1. a = header(n) \/ (a = <<"block", x[2]>> /\ x[2] \in Blocks)  BY <1>9 DEF Claim, Stored, Reserved
    <3>2. QED BY <1>3, <3>1
  <2>2. QED BY <1>8, <1>9, <2>1 DEF KeepsClaims
<1>10. /\ mem'[<<"view", v>>].at = Shift(at, 0) /\ mem'[<<"view", v>>].keeper = a
       /\ of # 0 => mem'[<<"vstate", v>>].at = st
  BY <1>0 DEF Lent
<1>11. ASSUME NEW y, y = Shift(at, 0), Claim(a, n, at, Caplen[k], k) PROVE Claim(a, n, y, Caplen[k], k)
  <2>1. at[3] \in Nat  BY <1>11 DEF Claim, Stored
  <2>2. y[1] = at[1] /\ y[2] = at[2] /\ y[3] = at[3]  BY <1>11, <2>1 DEF Shift
  <2>3. \A d : Clear(d, at, Caplen[k]) => Clear(d, y, Caplen[k])  BY <2>2 DEF Clear
  <2>4. QED BY <1>11, <2>2, <2>3 DEF Claim, Stored, Reserved
<1>12. KeptView(v)'
  <2>1. PICK y : y = Shift(at, 0)  OBVIOUS
  <2>2. view'[v].from = n /\ view'[v].shows = k /\ view'[v].of = of  BY <1>5
  <2>3. k \in DOMAIN Caplen  BY <1>0, <1>1 DEF KeptPacket
  <2>4. CASE /\ Claim(a, n, at, Caplen[k], k)
             /\ Claim(a, n, st, StateSize, k) \/ InRing(st, k)
    <3>1. Claim(a, n, y, Caplen[k], k)'  BY <1>9, <1>11, <2>1, <2>4
    <3>2. Claim(a, n, st, StateSize, k)' \/ InRing(st, k)'  BY <1>9, <2>4 DEF InRing
    <3>3. QED BY <1>10, <2>1, <2>2, <2>3, <3>1, <3>2 DEF KeptView
  <2>5. CASE \E p \in Pcaps : Shows(p, k) /\ InRing(st, k) /\ at = <<"pcap", p, 1>>
    <3>1. PICK p \in Pcaps : Shows(p, k) /\ InRing(st, k) /\ at = <<"pcap", p, 1>>  BY <2>5
    <3>2. Shows(p, k)' /\ InRing(st, k)'  BY <3>1 DEF Shows, InRing
    <3>3. y = <<"pcap", p, 1>>  BY <2>1, <3>1 DEF Shift
    <3>4. QED BY <1>10, <2>1, <2>2, <2>3, <3>2, <3>3 DEF KeptView
  <2>6. QED BY <1>0, <1>1, <2>4, <2>5 DEF KeptPacket
<1>13. \A m \in Packets : held'[m] > 0 => Still(m, T, {})  BY <1>3, <1>4 DEF Still
<1>14. \A u \in Views : view'[u].held => KeptView(u)' \/ StillView(u, T, {})
  <2> SUFFICES ASSUME NEW u \in Views, u # v, view'[u].held PROVE StillView(u, T, {})
    BY <1>12
  <2>1. ViewParts(u) \intersect ViewParts(v) = {}  BY Distinct DEF ViewParts
  <2>2. ViewParts(u) \intersect T = {}  BY <2>1
  <2>3. QED BY <1>3, <1>4, <1>5, <2>2 DEF StillView
<1>15. \A m \in Packets : Used(m)' => Used(m)  BY DEF Used
<1>16. QED BY <1>2, <1>3, <1>6, <1>13, <1>14, <1>15, SteadyKeep

LEMMA ViewKeep ==
  ASSUME KeepInv, RefInv, HandleInv, NEW v \in Views, NEW n \in Packets,
         peerHeaderByIndex(v, n) \/ peerBuffer(v, n)
  PROVE  KeepInv'
<1> DEFINE x == <<"view", v>>
           y == <<"vstate", v>>
           s == setJMemoryPhysical(World, y, mem[state(n)].at)
           h == peer(s, x, data(n), 0, 1)
           p == peer(World, x, data(n), 0, 1)
<1>1. x \in JMemory /\ y \in JMemory /\ data(n) \in JMemory /\ x # y /\ y # data(n) /\ ViewParts(v) = {x, y}
  BY Objects, Distinct DEF Parts, ViewParts
<1>2. Good(World, queue) /\ World.mem = mem  BY DEF RefInv, World
<1>3. CASE peerHeaderByIndex(v, n)
  <2>1. Good(s, queue)  BY <1>1, <1>2, PhysicalGood
  <2>2. Touch(World, s, {y}) /\ s.mem[y] = [Fresh EXCEPT !.at = mem[state(n)].at]
    BY <1>1, <1>2, PhysicalTouch
  <2>3. /\ held[n] > 0 /\ Lent(h) /\ UNCHANGED <<pcap, held, pool, call, frames, ring>>
        /\ view' = [view EXCEPT ![v] = [held |-> TRUE, of |-> n, from |-> n, shows |-> held[n]]]
    BY <1>3 DEF peerHeaderByIndex
  <2> HIDE DEF s
  <2>4. s.mem[data(n)] = mem[data(n)] /\ s.mem[y].at = mem[state(n)].at
    <3>1. s.mem[data(n)] = mem[data(n)]  BY <1>1, <1>2, <2>2 DEF Touch
    <3>2. s.mem[y].at = mem[state(n)].at  BY <2>2 DEF Fresh
    <3>3. QED BY <3>1, <3>2
  <2>5. Touch(s, h, {x}) /\ h.mem[x].at = Shift(mem[data(n)].at, 0) /\ h.mem[x].keeper = mem[data(n)].keeper
    <3>1. Touch(s, h, {x}) /\ h.mem[x].at = Shift(s.mem[data(n)].at, 0) /\ h.mem[x].keeper = s.mem[data(n)].keeper
      BY <1>1, <2>1, SourceTouch
    <3> HIDE DEF h
    <3>2. QED BY <2>4, <3>1
  <2> HIDE DEF h
  <2>6. h.mem[y].at = mem[state(n)].at  BY <1>1, <2>4, <2>5 DEF Touch
  <2>7. Touch(World, h, {y} \union {x})  BY <2>2, <2>5, TouchChain
  <2>8. {y} \union {x} \subseteq ViewParts(v)  BY <1>1
  <2>9. QED BY <2>3, <2>5, <2>6, <2>7, <2>8, ViewsKeep
<1>4. CASE peerBuffer(v, n)
  <2>1. /\ held[n] > 0 /\ Lent(p) /\ UNCHANGED <<pcap, held, pool, call, frames, ring>>
        /\ view' = [view EXCEPT ![v] = [held |-> TRUE, of |-> 0, from |-> n, shows |-> held[n]]]
    BY <1>4 DEF peerBuffer
  <2>2. Touch(World, p, {x}) /\ p.mem[x].at = Shift(mem[data(n)].at, 0) /\ p.mem[x].keeper = mem[data(n)].keeper
    <3>1. Touch(World, p, {x}) /\ p.mem[x].at = Shift(World.mem[data(n)].at, 0)
          /\ p.mem[x].keeper = World.mem[data(n)].keeper
      BY <1>1, <1>2, SourceTouch
    <3> HIDE DEF p
    <3>2. QED BY <1>2, <3>1
  <2> HIDE DEF p
  <2>3. {x} \subseteq ViewParts(v)  BY <1>1
  <2>4. 0 # n  BY PacketsAssumption
  <2>5. QED BY <2>1, <2>2, <2>3, <2>4, ViewsKeep
<1>5. QED BY <1>3, <1>4

-----------------------------------------------------------------------------
(* Copies into the memory of the pool *)

\* a part of the copy: its object is peered with a place in the private memory of the packet
LEMMA PartWorld ==
  ASSUME NEW w, NEW q, Good(w, q), Texts(w), NEW d \in Packets, NEW o \in JMemory, NEW off \in Nat, NEW len,
         o # memory(d)
  PROVE  LET v == peer(w, o, memory(d), off, len)
         IN  /\ Good(v, q) /\ Texts(v) /\ \A x \in JMemory : x # o => v.mem[x] = w.mem[x]
             /\ \A a, at, l, j : a # o /\ Stored(w, a, at, l, j) => Stored(v, a, at, l, j)
             /\ v.mem[o].at = Shift(w.mem[memory(d)].at, off)
             /\ v.mem[o].keeper = w.mem[memory(d)].keeper
             /\ \A x \in JMemory : v.mem[x].ref \in {w.mem[x].ref, 0}
<1> DEFINE v == peer(w, o, memory(d), off, len)
<1>1. Good(v, q)  BY PeerGood DEF peer
<1>2. /\ Touch(w, v, {o}) /\ v.mem[o].at = Shift(w.mem[memory(d)].at, off)
      /\ v.mem[o].keeper = w.mem[memory(d)].keeper
  BY SourceTouch
<1> HIDE DEF v
<1>3. /\ Texts(v)
      /\ \A a, at, l, j : a # o /\ Stored(w, a, at, l, j) => Stored(v, a, at, l, j)
  BY <1>2, TouchKeeps
<1>4. (\A x \in JMemory : x # o => v.mem[x] = w.mem[x]) /\ (\A x \in JMemory : v.mem[x].ref \in {w.mem[x].ref, 0})
  BY <1>2 DEF Touch
<1>5. QED BY <1>1, <1>2, <1>3, <1>4 DEF v

\* The copy has its three parts one behind the other in the private memory of packet d, and what
\* lies elsewhere stays.
LEMMA FilledWorld ==
  ASSUME NEW w, NEW q, Good(w, q), Texts(w), NEW d \in Packets, NEW k \in DOMAIN Caplen,
         NEW b \in Blocks, NEW i \in Nat,
         w.mem[memory(d)].at = <<"heap", b, i>>, w.mem[memory(d)].keeper = <<"block", b>>,
         w.mem[<<"block", b>>].ref = b
  PROVE  LET r == Filled(w, d, k)
             T == {header(d), data(d), state(d)}
             a == <<"block", b>>
         IN  /\ Texts(r) /\ \A x \in JMemory \ T : r.mem[x] = w.mem[x]
             /\ \A o, at, len, j :
                  /\ o \notin T /\ Stored(w, o, at, len, j)
                  /\ at[2] # b \/ at[3] + len <= i \/ i + copySize(k) <= at[3]
                  => Stored(r, o, at, len, j)
             /\ r.mem[data(d)].keeper = a
             /\ r.mem[header(d)].at = <<"heap", b, i>>
             /\ r.mem[state(d)].at = <<"heap", b, i + HeaderSize>>
             /\ r.mem[data(d)].at = <<"heap", b, i + (HeaderSize + StateSize)>>
             /\ Stored(r, a, r.mem[header(d)].at, HeaderSize, k)
             /\ Stored(r, a, r.mem[state(d)].at, StateSize, k)
             /\ Stored(r, a, r.mem[data(d)].at, Caplen[k], k)
<1> DEFINE T == {header(d), data(d), state(d)}
           a == <<"block", b>>
           off == HeaderSize + StateSize
           x1 == <<"heap", b, i>>
           x2 == <<"heap", b, i + HeaderSize>>
           x3 == <<"heap", b, i + off>>
           u1 == memcpy(w, x1, HeaderSize, k)
           v1 == peer(u1, header(d), memory(d), 0, HeaderSize)
           v2 == peer(v1, state(d), memory(d), HeaderSize, StateSize)
           u2 == memcpy(v2, x2, StateSize, k)
           v3 == peer(u2, data(d), memory(d), off, Caplen[k])
           r == memcpy(v3, x3, Caplen[k], k)
           S(u) == \A o, at, len, j : /\ o \notin T /\ Stored(w, o, at, len, j)
                                      /\ at[2] # b \/ at[3] + len <= i \/ i + copySize(k) <= at[3]
                                      => Stored(u, o, at, len, j)
           M(u) == \A x \in JMemory \ T : u.mem[x] = w.mem[x]
<1>1. /\ header(d) \in JMemory /\ data(d) \in JMemory /\ state(d) \in JMemory /\ memory(d) \in JMemory
      /\ a \in JMemory /\ a \notin T /\ memory(d) \notin T
      /\ header(d) # memory(d) /\ data(d) # memory(d) /\ state(d) # memory(d)
      /\ a # header(d) /\ a # data(d) /\ a # state(d)
      /\ header(d) # data(d) /\ header(d) # state(d) /\ data(d) # state(d)
  BY Objects, Distinct DEF Parts
<1>2. /\ HeaderSize \in Nat \ {0} /\ StateSize \in Nat \ {0} /\ Caplen[k] \in Nat \ {0} /\ off \in Nat
      /\ copySize(k) \in Nat /\ copySize(k) = HeaderSize + StateSize + Caplen[k]
      /\ off = HeaderSize + StateSize
  BY Sizes
<1> HIDE DEF off
<1>3. /\ Shift(x1, 0) = x1 /\ Shift(x1, HeaderSize) = x2 /\ Shift(x1, off) = x3  BY DEF Shift
<1>4. Filled(w, d, k) = r  BY <1>3 DEF Filled, off
<1>5. /\ x1[1] = "heap" /\ x1[2] = b /\ x1[3] = i
      /\ x2[1] = "heap" /\ x2[2] = b /\ x2[3] = i + HeaderSize
      /\ x3[1] = "heap" /\ x3[2] = b /\ x3[3] = i + off
      /\ x2[3] \in Nat /\ x3[3] \in Nat
  BY <1>2
<1>6. w.mem[memory(d)].at = x1 /\ w.mem[memory(d)].keeper = a /\ w.mem[a].ref = b  OBVIOUS
<1> HIDE DEF x1, x2, x3, a
<1>7. Good(u1, q) /\ Texts(u1) /\ S(u1) /\ u1.mem = w.mem /\ Stored(u1, a, x1, HeaderSize, k)
  <2>1. Good(u1, q)  BY CopyGood
  <2>2. /\ u1.mem = w.mem /\ Texts(u1)
        /\ \A o, at, len, j : /\ Stored(w, o, at, len, j)
                              /\ at[2] # b \/ at[3] + len <= i \/ i + HeaderSize <= at[3]
                              => Stored(u1, o, at, len, j)
        /\ Stored(u1, a, x1, HeaderSize, k)
    BY <1>1, <1>2, <1>5, <1>6, CopyKeeps
  <2> HIDE DEF u1
  <2>3. S(u1)
    <3>1. \A o, at, len, j : Stored(w, o, at, len, j) => at[3] \in Nat  BY DEF Stored
    <3>2. QED BY <1>2, <2>2, <3>1
  <2>4. QED BY <2>1, <2>2, <2>3
<1> HIDE DEF u1
<1>8. /\ Good(v1, q) /\ Texts(v1) /\ S(v1) /\ M(v1) /\ Stored(v1, a, x1, HeaderSize, k)
      /\ v1.mem[header(d)].at = x1
  <2>1. /\ Good(v1, q) /\ Texts(v1) /\ \A x \in JMemory : x # header(d) => v1.mem[x] = u1.mem[x]
        /\ \A o, at, l, j : o # header(d) /\ Stored(u1, o, at, l, j) => Stored(v1, o, at, l, j)
        /\ v1.mem[header(d)].at = Shift(x1, 0)
    <3>1. 0 \in Nat /\ u1.mem[memory(d)].at = x1  BY <1>6, <1>7
    <3>2. QED BY <1>1, <1>7, <3>1, PartWorld
  <2> HIDE DEF v1
  <2>2. QED BY <1>1, <1>3, <1>7, <2>1
<1> HIDE DEF v1
<1>9. /\ Good(v2, q) /\ Texts(v2) /\ S(v2) /\ M(v2) /\ Stored(v2, a, x1, HeaderSize, k)
      /\ v2.mem[header(d)].at = x1 /\ v2.mem[state(d)].at = x2
  <2>1. /\ Good(v2, q) /\ Texts(v2) /\ \A x \in JMemory : x # state(d) => v2.mem[x] = v1.mem[x]
        /\ \A o, at, l, j : o # state(d) /\ Stored(v1, o, at, l, j) => Stored(v2, o, at, l, j)
        /\ v2.mem[state(d)].at = Shift(x1, HeaderSize)
    <3>1. HeaderSize \in Nat /\ v1.mem[memory(d)].at = x1  BY <1>1, <1>2, <1>6, <1>8
    <3>2. QED BY <1>1, <1>8, <3>1, PartWorld
  <2> HIDE DEF v2
  <2>2. QED BY <1>1, <1>3, <1>8, <2>1
<1> HIDE DEF v2
<1>10. /\ Good(u2, q) /\ Texts(u2) /\ S(u2) /\ u2.mem = v2.mem
       /\ Stored(u2, a, x1, HeaderSize, k) /\ Stored(u2, a, x2, StateSize, k)
  <2>1. Good(u2, q)  BY <1>9, CopyGood
  <2>2. /\ u2.mem = v2.mem /\ Texts(u2)
        /\ \A o, at, len, j : /\ Stored(v2, o, at, len, j)
                              /\ at[2] # b \/ at[3] + len <= i + HeaderSize \/ (i + HeaderSize) + StateSize <= at[3]
                              => Stored(u2, o, at, len, j)
        /\ Stored(u2, a, x2, StateSize, k)
    BY <1>1, <1>2, <1>5, <1>6, <1>9, CopyKeeps
  <2> HIDE DEF u2
  <2>3. S(u2)
    <3>1. \A o, at, len, j : Stored(w, o, at, len, j) => at[3] \in Nat /\ [off |-> at[3], len |-> len, of |-> j] \in w.heap[at[2]].text
      BY DEF Stored
    <3>2. \A o, at, len, j : Stored(w, o, at, len, j) => at[3] \in Nat /\ len \in Nat
      BY <3>1 DEF Texts, Stored
    <3>3. QED BY <1>2, <1>9, <2>2, <3>2
  <2>4. Stored(u2, a, x1, HeaderSize, k)  BY <1>2, <1>5, <1>9, <2>2
  <2>5. QED BY <2>1, <2>2, <2>3, <2>4
<1> HIDE DEF u2
<1>11. /\ Good(v3, q) /\ Texts(v3) /\ S(v3) /\ M(v3) /\ Stored(v3, a, x1, HeaderSize, k)
       /\ Stored(v3, a, x2, StateSize, k) /\ v3.mem[data(d)].at = x3 /\ v3.mem[data(d)].keeper = a
       /\ v3.mem[header(d)].at = x1 /\ v3.mem[state(d)].at = x2
  <2>1. /\ Good(v3, q) /\ Texts(v3) /\ \A x \in JMemory : x # data(d) => v3.mem[x] = u2.mem[x]
        /\ \A o, at, l, j : o # data(d) /\ Stored(u2, o, at, l, j) => Stored(v3, o, at, l, j)
        /\ v3.mem[data(d)].at = Shift(x1, off) /\ v3.mem[data(d)].keeper = a
    <3>1. u2.mem[memory(d)].at = x1 /\ u2.mem[memory(d)].keeper = a  BY <1>1, <1>6, <1>9, <1>10
    <3>2. QED BY <1>1, <1>2, <1>10, <3>1, PartWorld
  <2> HIDE DEF v3
  <2>2. QED BY <1>1, <1>3, <1>9, <1>10, <2>1
<1> HIDE DEF v3
<1>12. /\ Texts(r) /\ S(r) /\ r.mem = v3.mem /\ Stored(r, a, x1, HeaderSize, k)
       /\ Stored(r, a, x2, StateSize, k) /\ Stored(r, a, x3, Caplen[k], k)
  <2>1. /\ r.mem = v3.mem /\ Texts(r)
        /\ \A o, at, len, j : /\ Stored(v3, o, at, len, j)
                              /\ at[2] # b \/ at[3] + len <= i + off \/ (i + off) + Caplen[k] <= at[3]
                              => Stored(r, o, at, len, j)
        /\ Stored(r, a, x3, Caplen[k], k)
    BY <1>1, <1>2, <1>5, <1>6, <1>11, CopyKeeps
  <2> HIDE DEF r
  <2>2. S(r)
    <3>1. \A o, at, len, j : Stored(w, o, at, len, j) => at[3] \in Nat /\ [off |-> at[3], len |-> len, of |-> j] \in w.heap[at[2]].text
      BY DEF Stored
    <3>2. \A o, at, len, j : Stored(w, o, at, len, j) => at[3] \in Nat /\ len \in Nat
      BY <3>1 DEF Texts, Stored
    <3>3. QED BY <1>2, <1>11, <2>1, <3>2
  <2>3. Stored(r, a, x1, HeaderSize, k)  BY <1>2, <1>5, <1>11, <2>1
  <2>4. Stored(r, a, x2, StateSize, k)
    <3>1. x2[3] + StateSize = i + off  BY <1>2, <1>5
    <3>2. QED BY <1>2, <1>5, <1>11, <2>1, <3>1
  <2>5. QED BY <2>1, <2>2, <2>3, <2>4
<1> HIDE DEF r
<1>13. QED BY <1>4, <1>11, <1>12 DEF x1, x2, x3, off, a

\* len bytes at an address are none of the size bytes at place i of block b
Off(at, len, b, i, size) == at[2] # b \/ at[3] + len <= i \/ i + size <= at[3]

\* no packet but d has any of them
Vacant(d, b, i, size) ==
  /\ \A a, m, at, len, k : m \in Packets \ {d} /\ Claim(a, m, at, len, k) => Off(at, len, b, i, size)
  /\ \A m \in Packets \ {d} : Used(m) /\ mem[memory(m)].at # NULL =>
       Off(mem[memory(m)].at, mem[memory(m)].size, b, i, size)

\* nor any of block b
Unused(d, b) ==
  /\ \A a, m, at, len, k : m \in Packets \ {d} /\ Claim(a, m, at, len, k) => at[2] # b
  /\ \A m \in Packets \ {d} : Used(m) /\ mem[memory(m)].at # NULL => mem[memory(m)].at[2] # b

\* the private memory of d in world u, and the pool that has given it out
Granted(u, d, b, i, size) ==
  /\ \A x \in JMemory \ {memory(d), <<"block", b>>} : u.mem[x] = mem[x]
  /\ u.mem[memory(d)].at = <<"heap", b, i>> /\ u.mem[memory(d)].size = size
  /\ u.mem[memory(d)].keeper = <<"block", b>> /\ u.mem[<<"block", b>>].ref = b
  /\ u.mem[<<"block", b>>] = mem[<<"block", b>>] \/ Unused(d, b)
  /\ b = pool'.block => i + size <= pool'.current
  /\ \/ pool'.block = pool.block /\ pool.current <= pool'.current
     \/ pool'.block = b /\ Unused(d, b)
  /\ DOMAIN pool' = {"block", "current"} /\ pool'.current \in Nat
  /\ pool'.block # 0 =>
       LET o == <<"block", pool'.block>>
       IN  /\ pool'.block \in Blocks /\ u.mem[o].at = <<"heap", pool'.block, 0>>
           /\ u.mem[o].keeper = o /\ u.mem[o].ref = pool'.block

\* the claims of the other packets
LEMMA OthersStay ==
  ASSUME KeepInv, NEW d \in Packets, NEW b \in Blocks, NEW i \in Nat, NEW size \in Nat, NEW u, NEW r,
         Vacant(d, b, i, size), Granted(u, d, b, i, size), Lent(r), UNCHANGED call,
         \A m \in Packets \ {d} : held'[m] = held[m],
         \A x \in JMemory \ {header(d), data(d), state(d)} : r.mem[x] = u.mem[x],
         NEW m \in Packets \ {d}, NEW a, NEW at, NEW len, NEW k, Claim(a, m, at, len, k),
         Stored(r, a, at, len, k)
  PROVE  Claim(a, m, at, len, k)'
<1>1. Off(at, len, b, i, size) /\ at[3] \in Nat  BY DEF Vacant, Claim, Stored
<1>2. World'.mem = r.mem /\ World'.heap = r.heap /\ mem' = r.mem  BY DEF Lent, World
<1>3. Stored(World', a, at, len, k)  BY <1>2 DEF Stored
<1>4. \A c \in Packets : memory(c) \in JMemory /\ memory(c) \notin {header(d), data(d), state(d)}
                         /\ memory(c) # <<"block", b>> /\ (c # d => memory(c) # memory(d))
  BY Objects, Distinct DEF Parts
<1>5. \A c \in Packets \ {d} : mem'[memory(c)] = mem[memory(c)]  BY <1>2, <1>4 DEF Granted
<1>6. mem'[memory(d)].at = <<"heap", b, i>> /\ mem'[memory(d)].size = size  BY <1>2, <1>4 DEF Granted
<1>7. ASSUME NEW c \in Packets, Used(c)', c # m, Used(c) => Clear(c, at, len) PROVE Clear(c, at, len)'
  <2>1. CASE c = d  BY <1>1, <1>6, <2>1 DEF Clear, Off
  <2>2. CASE c # d  BY <1>5, <1>7, <2>2 DEF Clear, Used
  <2>3. QED BY <2>1, <2>2
<1>8. ASSUME at[2] = pool.block => at[3] + len <= pool.current, at[2] = pool'.block
      PROVE  at[3] + len <= pool'.current
  <2>1. at[2] # b \/ ~Unused(d, b)  BY DEF Unused
  <2>2. pool.current <= pool'.current /\ pool'.current \in Nat /\ at[3] + len <= pool.current
    BY <1>8, <2>1 DEF Granted
  <2>3. len \in Nat
    <3>1. at[2] \in Blocks /\ [off |-> at[3], len |-> len, of |-> k] \in World.heap[at[2]].text  BY DEF Claim, Stored
    <3>2. QED BY <3>1 DEF KeepInv, Texts
  <2>4. pool.current \in Nat  BY DEF KeepInv, PoolBlock
  <2>5. QED BY <1>1, <2>2, <2>3, <2>4
<1>9. Reserved(a, m, at, len)'
  <2>1. Reserved(a, m, at, len)  BY DEF Claim
  <2>2. CASE a = header(m)  BY <2>2 DEF Reserved
  <2>3. CASE a # header(m)
    <3>1. /\ a = <<"block", at[2]>>
          /\ at[2] = pool.block => at[3] + len <= pool.current
          /\ \A c \in Packets : Used(c) /\ c # m => Clear(c, at, len)
      BY <2>1, <2>3 DEF Reserved
    <3>2. at[2] = pool'.block => at[3] + len <= pool'.current  BY <1>8, <3>1
    <3>3. \A c \in Packets : Used(c)' /\ c # m => Clear(c, at, len)'  BY <1>7, <3>1
    <3>4. QED BY <3>1, <3>2, <3>3 DEF Reserved
  <2>4. QED BY <2>2, <2>3
<1>10. QED BY <1>3, <1>9 DEF Claim, Stored

\* the private memory of the packets, the one that is copied to included
LEMMA MemoryStays ==
  ASSUME KeepInv, NEW d \in Packets, NEW b \in Blocks, NEW i \in Nat, NEW size \in Nat, NEW u, NEW r,
         HeaderSize <= size,
         Vacant(d, b, i, size), Granted(u, d, b, i, size), Lent(r), UNCHANGED call,
         \A m \in Packets \ {d} : held'[m] = held[m],
         \A x \in JMemory \ {header(d), data(d), state(d)} : r.mem[x] = u.mem[x],
         NEW m \in Packets, Used(m)'
  PROVE  InPool(m)'
<1>1. mem' = r.mem  BY DEF Lent
<1>2. \A c \in Packets : memory(c) \in JMemory /\ memory(c) \notin {header(d), data(d), state(d)}
                         /\ memory(c) # <<"block", b>> /\ (c # d => memory(c) # memory(d))
  BY Objects, Distinct DEF Parts
<1>3. \A c \in Packets \ {d} : mem'[memory(c)] = mem[memory(c)]  BY <1>1, <1>2 DEF Granted
<1>4. /\ mem'[memory(d)].at = <<"heap", b, i>> /\ mem'[memory(d)].size = size
      /\ mem'[memory(d)].keeper = <<"block", b>>
  BY <1>1, <1>2 DEF Granted
<1>5. \A c \in Blocks : <<"block", c>> \in JMemory /\ <<"block", c>> \notin {header(d), data(d), state(d)}
                        /\ <<"block", c>> # memory(d)
  BY Objects, Distinct
<1>6. \A c \in Blocks : mem'[<<"block", c>>] = u.mem[<<"block", c>>]  BY <1>1, <1>5
<1>7. \A c \in Packets \ {d} : Used(c)' => Used(c)  BY DEF Used
<1>8. \A c \in Packets \ {d} : Used(c) /\ mem[memory(c)].at # NULL =>
        /\ InPool(c) /\ mem[memory(c)].at[3] \in Nat /\ mem[memory(c)].size \in Nat
        /\ Off(mem[memory(c)].at, mem[memory(c)].size, b, i, size)
  BY DEF KeepInv, InPool, Vacant
<1>9. CASE m = d
  <2>1. PICK at : at = <<"heap", b, i>>  OBVIOUS
  <2>2. at[2] = b /\ at[3] = i /\ at[1] = "heap"  BY <2>1
  <2>3. mem'[<<"block", b>>].ref = b  BY <1>6 DEF Granted
  <2>4. b = pool'.block => i + size <= pool'.current  BY DEF Granted
  <2>5. ASSUME NEW c \in Packets, Used(c)', c # d PROVE Clear(c, at, size)'
    <3>1. SUFFICES ASSUME mem[memory(c)].at # NULL PROVE Clear(c, at, size)'
      BY <1>3, <2>5 DEF Clear
    <3>2. Off(mem[memory(c)].at, mem[memory(c)].size, b, i, size)  BY <1>7, <1>8, <2>5, <3>1
    <3>3. QED BY <1>3, <2>2, <2>5, <3>2 DEF Clear, Off
  <2>6. QED BY <1>4, <1>9, <2>1, <2>2, <2>3, <2>4, <2>5 DEF InPool
<1>10. CASE m # d /\ mem[memory(m)].at # NULL
  <2>1. PICK y : y = mem[memory(m)]  OBVIOUS
  <2>2. mem'[memory(m)] = y /\ Used(m) /\ y.at # NULL  BY <1>3, <1>7, <1>10, <2>1
  <2>3. InPool(m) /\ Off(y.at, y.size, b, i, size)  BY <1>8, <1>10, <2>1, <2>2
  <2>4. /\ y.at = <<"heap", y.at[2], y.at[3]>> /\ y.at[2] \in Blocks /\ y.at[3] \in Nat /\ y.size \in Nat
        /\ HeaderSize <= y.size /\ y.keeper = <<"block", y.at[2]>> /\ mem[<<"block", y.at[2]>>].ref = y.at[2]
        /\ y.at[2] = pool.block => y.at[3] + y.size <= pool.current
        /\ \A c \in Packets : Used(c) /\ c # m => Clear(c, y.at, y.size)
    BY <2>1, <2>2, <2>3 DEF InPool
  <2>5. y.at[2] # b \/ ~Unused(d, b)  BY <1>10, <2>1, <2>2 DEF Unused
  <2>6. mem'[<<"block", y.at[2]>>].ref = y.at[2]
    <3>1. u.mem[<<"block", y.at[2]>>] = mem[<<"block", y.at[2]>>]
      <4>1. CASE y.at[2] = b  BY <2>5, <4>1 DEF Granted
      <4>2. CASE y.at[2] # b
        <5>1. <<"block", y.at[2]>> # <<"block", b>>  BY <4>2
        <5>2. QED BY <1>5, <2>4, <5>1 DEF Granted
      <4>3. QED BY <4>1, <4>2
    <3>2. QED BY <1>6, <2>4, <3>1
  <2>7. y.at[2] = pool'.block => y.at[3] + y.size <= pool'.current
    <3>1. HAVE y.at[2] = pool'.block
    <3>2. pool.current <= pool'.current /\ pool'.current \in Nat /\ y.at[3] + y.size <= pool.current
      BY <2>4, <2>5, <3>1 DEF Granted
    <3>3. pool.current \in Nat  BY DEF KeepInv, PoolBlock
    <3>4. QED BY <2>4, <3>2, <3>3
  <2>8. ASSUME NEW c \in Packets, Used(c)', c # m PROVE Clear(c, y.at, y.size)'
    <3>1. CASE c = d  BY <1>4, <2>3, <3>1 DEF Clear, Off
    <3>2. CASE c # d
      <4>1. Clear(c, y.at, y.size)  BY <1>7, <2>4, <2>8, <3>2
      <4>2. QED BY <1>3, <2>8, <3>2, <4>1 DEF Clear
    <3>3. QED BY <3>1, <3>2
  <2>9. QED BY <2>2, <2>4, <2>6, <2>7, <2>8 DEF InPool
<1>11. CASE m # d /\ mem[memory(m)].at = NULL
  <2>1. mem'[memory(m)].at = NULL  BY <1>3, <1>11
  <2>2. QED BY <2>1 DEF InPool
<1>12. QED BY <1>9, <1>10, <1>11

\* A packet is copied into memory that no other packet has.
LEMMA CopiedKeep ==
  ASSUME KeepInv, RefInv, HandleInv, NEW n \in Packets, NEW d \in Packets, n # d, held[n] > 0, Has(d),
         NEW b \in Blocks, NEW i \in Nat, NEW size \in Nat, NEW u, Good(u, queue), Texts(u),
         copySize(held[n]) <= size, Vacant(d, b, i, size), Granted(u, d, b, i, size),
         \A a, m, at, len, k : m \in Packets \ {d} /\ Claim(a, m, at, len, k) => Stored(u, a, at, len, k),
         Lent(Filled(u, d, held[n])), Copied(n, d), UNCHANGED <<pcap, call, frames, ring>>
  PROVE  KeepInv'
<1>0. PICK k : k = held[n]  OBVIOUS
<1> DEFINE S == {header(d), data(d), state(d)}
           T == S \union {memory(d)} \union (IF Unused(d, b) THEN {<<"block", b>>} ELSE {})
           r == Filled(u, d, k)
           c == <<"block", b>>
<1>1. Counting /\ KeptPacket(n) /\ d # call.work /\ (d \in FreePackets \/ Used(d))
  BY HasPacket DEF KeepInv
<1>2. k \in DOMAIN Caplen /\ k \in Int /\ k > 0  BY <1>0, <1>1 DEF KeptPacket, Counting
<1>3. /\ HeaderSize \in Nat \ {0} /\ StateSize \in Nat \ {0} /\ Caplen[k] \in Nat \ {0}
      /\ HeaderSize + StateSize + Caplen[k] <= size /\ HeaderSize <= size
  <2>1. HeaderSize \in Nat \ {0} /\ StateSize \in Nat \ {0} /\ Caplen[k] \in Nat \ {0}
        /\ copySize(k) = HeaderSize + StateSize + Caplen[k]
    BY <1>2, Sizes
  <2>2. QED BY <1>0, <2>1
<1>4. /\ Texts(r) /\ \A x \in JMemory \ S : r.mem[x] = u.mem[x]
      /\ \A o, at, len, j :
           o \notin S /\ Stored(u, o, at, len, j) /\ Off(at, len, b, i, copySize(k)) => Stored(r, o, at, len, j)
      /\ r.mem[data(d)].keeper = c
      /\ r.mem[header(d)].at = <<"heap", b, i>>
      /\ r.mem[state(d)].at = <<"heap", b, i + HeaderSize>>
      /\ r.mem[data(d)].at = <<"heap", b, i + (HeaderSize + StateSize)>>
      /\ Stored(r, c, r.mem[header(d)].at, HeaderSize, k)
      /\ Stored(r, c, r.mem[state(d)].at, StateSize, k)
      /\ Stored(r, c, r.mem[data(d)].at, Caplen[k], k)
  <2>1. /\ u.mem[memory(d)].at = <<"heap", b, i>> /\ u.mem[memory(d)].keeper = <<"block", b>>
        /\ u.mem[<<"block", b>>].ref = b
    BY DEF Granted
  <2>2. QED BY <1>2, <2>1, FilledWorld DEF Off
<1>5. Lent(r)  BY <1>0
<1> HIDE DEF r
<1>6. mem' = r.mem /\ World'.mem = r.mem /\ World'.heap = r.heap  BY <1>5 DEF Lent, World
<1>7. Texts(World')  BY <1>4, <1>6 DEF Texts
<1>8. held'[d] = k /\ held' \in [Packets -> Int] /\ \A m \in Packets \ {d} : held'[m] = held[m]
  BY <1>0, <1>1, <1>2 DEF Copied, Counting
<1>9. /\ view' \in [Views -> [held : BOOLEAN, of : Packets \union {0}, from : Packets \union {0}, shows : Int]]
      /\ \A v \in Views : view'[v].held => view'[v] = view[v] /\ view[v].from # d
      /\ \A v \in Views : view'[v].from \in {view[v].from, 0}
  BY <1>1, BlankViews DEF Copied
<1>10. Counting'
  <2>1. ASSUME call'.work \in Packets
        PROVE  held'[call'.work] <= 0 /\ \A v \in Views : view'[v].from # call'.work
    <3>1. PICK m : m = call.work  OBVIOUS
    <3>2. call'.work = m  BY <3>1
    <3>3. m \in Packets /\ m # d /\ held[m] <= 0 /\ \A v \in Views : view[v].from # m
      BY <1>1, <2>1, <3>1, <3>2 DEF Counting
    <3>4. held'[m] <= 0  BY <1>8, <3>3
    <3>5. \A v \in Views : view'[v].from # m  BY <1>9, <3>3, PacketsAssumption
    <3>6. QED BY <3>2, <3>4, <3>5
  <2>2. frames' \in Nat /\ frames' + call'.batch <= Len(Caplen)  BY <1>1 DEF Counting
  <2>3. QED BY <1>8, <1>9, <2>1, <2>2 DEF Counting
<1>11. \A a, m, at, len, j : m \in Packets \ {d} /\ Claim(a, m, at, len, j) => a \notin T
  <2> SUFFICES ASSUME NEW a, NEW m \in Packets \ {d}, NEW at, NEW len, NEW j, Claim(a, m, at, len, j)
               PROVE  a \notin T
    OBVIOUS
  <2>1. a = header(m) \/ (a = <<"block", at[2]>> /\ (Unused(d, b) => at[2] # b))
    BY DEF Claim, Reserved, Unused
  <2>2. QED BY <2>1, Distinct
<1>12. \A a, m, at, len, j : m \in Packets \ {d} /\ Claim(a, m, at, len, j) => Claim(a, m, at, len, j)'
  <2> SUFFICES ASSUME NEW a, NEW m \in Packets \ {d}, NEW at, NEW len, NEW j, Claim(a, m, at, len, j)
               PROVE  Claim(a, m, at, len, j)'
    OBVIOUS
  <2>1. a \notin S  BY <1>11
  <2>2. Off(at, len, b, i, size) /\ at[3] \in Nat  BY DEF Vacant, Claim, Stored
  <2>3. copySize(k) \in Nat /\ copySize(k) <= size  BY <1>0, <1>2, Sizes
  <2>4. Off(at, len, b, i, copySize(k))  BY <2>2, <2>3 DEF Off
  <2>5. Stored(r, a, at, len, j)  BY <1>4, <2>1, <2>4
  <2>6. QED BY <1>4, <1>5, <1>8, <2>5, OthersStay
<1>13. KeepsClaims(T, {d})  BY <1>12 DEF KeepsClaims
<1>14. \A m \in Packets : Used(m)' => InPool(m)'  BY <1>3, <1>4, <1>5, <1>8, MemoryStays
<1>15. SameObjects(T)
  <2> SUFFICES ASSUME NEW x \in JMemory, x \notin T PROVE mem'[x] = mem[x]
    BY DEF SameObjects
  <2>1. x \notin S /\ x # memory(d)  OBVIOUS
  <2>2. mem'[x] = u.mem[x]  BY <1>4, <1>6, <2>1
  <2>3. CASE x # <<"block", b>>  BY <2>1, <2>2, <2>3 DEF Granted
  <2>4. CASE x = <<"block", b>>
    <3>1. ~Unused(d, b)  BY <2>4
    <3>2. QED BY <2>2, <2>4, <3>1 DEF Granted
  <2>5. QED BY <2>3, <2>4
<1>16. Calm  BY DEF Calm, Shows
<1>17. \A m \in Packets : m # d => {header(m), data(m), state(m), memory(m)} \intersect T = {}
  BY Distinct
<1>18. KeptPacket(d)'
  <2>1. ASSUME NEW at, NEW len \in Nat, NEW o \in Nat, at = <<"heap", b, i + o>>, o + len <= size,
               Stored(r, c, at, len, k)
        PROVE  Claim(c, d, at, len, k)'
    <3>1. Stored(World', c, at, len, k)  BY <1>6, <2>1 DEF Stored
    <3>2. at[2] = b /\ at[3] = i + o  BY <2>1
    <3>3. at[2] = pool'.block => at[3] + len <= pool'.current
      <4>1. HAVE at[2] = pool'.block
      <4>2. i + size <= pool'.current /\ pool'.current \in Nat  BY <3>2, <4>1 DEF Granted
      <4>3. QED BY <2>1, <3>2, <4>2
    <3>4. ASSUME NEW m \in Packets, Used(m)', m # d PROVE Clear(m, at, len)'
      <4>1. mem'[memory(m)] = mem[memory(m)] /\ Used(m)
        <5>1. memory(m) \in JMemory  BY Objects DEF Parts
        <5>2. memory(m) \notin T  BY <1>17, <3>4
        <5>3. mem'[memory(m)] = mem[memory(m)]  BY <1>15, <5>1, <5>2 DEF SameObjects
        <5>4. QED BY <1>8, <3>4, <5>3 DEF Used
      <4>2. CASE mem[memory(m)].at = NULL  BY <4>1, <4>2 DEF Clear
      <4>3. CASE mem[memory(m)].at # NULL
        <5>1. InPool(m)  BY <4>1 DEF KeepInv
        <5>2. mem[memory(m)].at[3] \in Nat /\ mem[memory(m)].size \in Nat  BY <4>3, <5>1 DEF InPool
        <5>3. Off(mem[memory(m)].at, mem[memory(m)].size, b, i, size)  BY <3>4, <4>1, <4>3 DEF Vacant
        <5>4. PICK y : y = mem[memory(m)]  OBVIOUS
        <5>5. y.at[2] = b => i + o + len <= y.at[3] \/ y.at[3] + y.size <= i + o
          BY <2>1, <5>2, <5>3, <5>4 DEF Off
        <5>6. QED BY <3>2, <4>1, <5>4, <5>5 DEF Clear
      <4>4. QED BY <4>2, <4>3
    <3>5. Reserved(c, d, at, len)'  BY <3>2, <3>3, <3>4 DEF Reserved
    <3>6. QED BY <3>1, <3>5 DEF Claim, Stored
  <2>2. PICK x, y, z : x = <<"heap", b, i + 0>> /\ y = <<"heap", b, i + HeaderSize>>
                       /\ z = <<"heap", b, i + (HeaderSize + StateSize)>>
    OBVIOUS
  <2>3. mem'[header(d)].at = x /\ mem'[state(d)].at = y /\ mem'[data(d)].at = z /\ mem'[data(d)].keeper = c
    BY <1>4, <1>6, <2>2
  <2>4. Stored(r, c, x, HeaderSize, k) /\ Stored(r, c, y, StateSize, k) /\ Stored(r, c, z, Caplen[k], k)
    BY <1>4, <1>6, <2>3
  <2>5. Claim(c, d, x, HeaderSize, k)'  BY <1>3, <2>1, <2>2, <2>4
  <2>6. Claim(c, d, y, StateSize, k)'  BY <1>3, <2>1, <2>2, <2>4
  <2>7. Claim(c, d, z, Caplen[k], k)'  BY <1>3, <2>1, <2>2, <2>4
  <2> HIDE DEF c
  <2>8. QED BY <1>2, <1>8, <2>3, <2>5, <2>6, <2>7 DEF KeptPacket
<1>19. \A m \in Packets : held'[m] > 0 => KeptPacket(m)'
  <2> SUFFICES ASSUME NEW m \in Packets, m # d, held'[m] > 0 PROVE KeptPacket(m)'
    BY <1>18
  <2>1. held'[m] = held[m] /\ held[m] \in Int /\ KeptPacket(m)  BY <1>1, <1>8 DEF KeepInv, Counting
  <2>2. mem[data(m)].at[1] = "heap" => mem[data(m)].keeper \notin T
    <3>1. HAVE mem[data(m)].at[1] = "heap"
    <3>2. Claim(mem[data(m)].keeper, m, mem[data(m)].at, Caplen[held[m]], held[m])
      BY <2>1, <3>1 DEF KeptPacket
    <3> HIDE DEF T
    <3>3. QED BY <1>11, <3>2
  <2>3. {header(m), data(m), state(m)} \intersect T = {}  BY <1>17
  <2> HIDE DEF T
  <2>4. QED BY <1>13, <1>15, <1>16, <2>1, <2>2, <2>3, PacketStays
<1>20. \A v \in Views : view'[v].held => KeptView(v)'
  <2> SUFFICES ASSUME NEW v \in Views, view'[v].held PROVE KeptView(v)'
    OBVIOUS
  <2>1. view'[v] = view[v] /\ view[v].from \notin {d} /\ KeptView(v) /\ view[v].shows \in Int
    BY <1>1, <1>9 DEF KeepInv, Counting
  <2> DEFINE x == <<"view", v>>
  <2>2. mem[x].at[1] = "heap" => mem[x].keeper \notin T
    <3>1. HAVE mem[x].at[1] = "heap"
    <3>2. Claim(mem[x].keeper, view[v].from, mem[x].at, Caplen[view[v].shows], view[v].shows)
          /\ view[v].from \in Packets
      BY <2>1, <3>1 DEF KeptView
    <3> HIDE DEF T
    <3>3. QED BY <1>11, <2>1, <3>2
  <2>3. ViewParts(v) \intersect T = {}  BY Distinct DEF ViewParts
  <2> HIDE DEF T
  <2>4. QED BY <1>13, <1>15, <1>16, <2>1, <2>2, <2>3, ViewStays
<1>21. \A m \in Packets : Used(m)' => Topped(m)'
  <2> SUFFICES ASSUME NEW m \in Packets, Used(m)' PROVE Topped(m)'
    OBVIOUS
  <2>1. CASE m = d
    <3>1. memory(d) \in JMemory \ S  BY Objects, Distinct DEF Parts
    <3>2. mem'[memory(d)].at = <<"heap", b, i>> /\ mem'[header(d)].at = <<"heap", b, i>>
      BY <1>4, <1>6, <3>1 DEF Granted
    <3>3. QED BY <2>1, <3>2 DEF Topped, NULL
  <2>2. CASE m # d
    <3>1. header(m) \in JMemory \ T /\ memory(m) \in JMemory \ T
      <4>1. header(m) \in JMemory /\ memory(m) \in JMemory  BY Objects DEF Parts
      <4>2. header(m) \notin T /\ memory(m) \notin T  BY <1>17, <2>2
      <4>3. QED BY <4>1, <4>2
    <3>2. mem'[header(m)] = mem[header(m)] /\ mem'[memory(m)] = mem[memory(m)]
      BY <1>15, <3>1 DEF SameObjects
    <3>3. Used(m)  BY <1>8, <2>2 DEF Used
    <3>4. QED BY <3>2, <3>3 DEF KeepInv, Topped
  <2>3. QED BY <2>1, <2>2
<1>22. PoolBlock'
  <2>1. \A e \in Blocks : <<"block", e>> \in JMemory \ S  BY Objects, Distinct
  <2>2. \A e \in Blocks : mem'[<<"block", e>>] = u.mem[<<"block", e>>]  BY <1>4, <1>6, <2>1
  <2>3. QED BY <2>2 DEF Granted, PoolBlock
<1>23. QED BY <1>7, <1>10, <1>14, <1>19, <1>20, <1>21, <1>22 DEF KeepInv

\* what another packet has in a block that a block object owns is kept by that object
LEMMA PoolClaims ==
  ASSUME KeepInv, RefInv, NEW b \in Blocks, mem[<<"block", b>>].ref = b
  PROVE  \A a, m, at, len, k : Claim(a, m, at, len, k) /\ at[2] = b => a # header(m)
<1>1. World.mem = mem /\ Owned(World, queue)  BY DEF RefInv, Good, World
<1>2. <<"block", b>> \in JMemory /\ b # 0 /\ \A m : header(m) # <<"block", b>>  BY Objects, Distinct, BlocksAssumption
<1>3. \A a, m, at, len, k : Claim(a, m, at, len, k) => a \in JMemory /\ mem[a].ref = at[2]
  BY <1>1 DEF Claim, Stored
<1>4. QED BY <1>1, <1>2, <1>3 DEF Owned

\* the size of what the pool gives out
LEMMA PaddedSize == ASSUME NEW size \in Nat PROVE Padded(size) \in Nat /\ size <= Padded(size)
<1>1. size % 4 \in Nat  OBVIOUS
<1>2. QED BY <1>1 DEF Padded

\* into the memory that packet d has
LEMMA OwnMemoryKeep ==
  ASSUME KeepInv, RefInv, HandleInv, NEW n \in Packets, NEW d \in Packets, n # d, held[n] > 0, Has(d),
         mem[memory(d)].at # NULL, mem[memory(d)].size >= copySize(held[n]),
         Lent(Filled(World, d, held[n])), Copied(n, d), UNCHANGED <<pool, pcap, call, frames, ring>>
  PROVE  KeepInv'
<1>0. PICK y, b, i, size : y = mem[memory(d)] /\ b = y.at[2] /\ i = y.at[3] /\ size = y.size  OBVIOUS
<1>1. Used(d)
  <2>1. d \in FreePackets => mem[memory(d)].at = NULL  BY DEF FreePackets, Parts, Fresh
  <2>2. Counting  BY DEF KeepInv
  <2>3. QED BY <2>1, <2>2, HasPacket
<1>2. /\ y.at = <<"heap", b, i>> /\ b \in Blocks /\ i \in Nat /\ size \in Nat
      /\ y.keeper = <<"block", b>> /\ mem[<<"block", b>>].ref = b
      /\ b = pool.block => i + size <= pool.current
      /\ \A m \in Packets : Used(m) /\ m # d => Clear(m, y.at, y.size)
  <2>1. InPool(d)  BY <1>1 DEF KeepInv
  <2>2. QED BY <1>0, <2>1 DEF InPool
<1>3. Good(World, queue) /\ Texts(World) /\ World.mem = mem  BY DEF RefInv, KeepInv, World
<1>4. copySize(held[n]) <= size
  <2>1. KeptPacket(n)  BY DEF KeepInv
  <2>2. held[n] \in DOMAIN Caplen  BY <2>1 DEF KeptPacket
  <2>3. copySize(held[n]) \in Nat  BY <2>2, Sizes
  <2>4. QED BY <1>0, <1>2, <2>3
<1>5. Vacant(d, b, i, size)
  <2>1. ASSUME NEW a, NEW m \in Packets \ {d}, NEW at, NEW len, NEW k, Claim(a, m, at, len, k), at[2] = b
        PROVE  Off(at, len, b, i, size)
    <3>1. a # header(m)  BY <1>2, <2>1, PoolClaims
    <3>2. Clear(d, at, len)  BY <1>1, <2>1, <3>1 DEF Claim, Reserved
    <3>3. QED BY <1>0, <2>1, <3>2 DEF Clear, Off
  <2>2. ASSUME NEW m \in Packets \ {d}, Used(m), mem[memory(m)].at # NULL
        PROVE  Off(mem[memory(m)].at, mem[memory(m)].size, b, i, size)
    <3>1. InPool(m)  BY <2>2 DEF KeepInv
    <3>2. Clear(d, mem[memory(m)].at, mem[memory(m)].size)  BY <1>1, <2>2, <3>1 DEF InPool
    <3>3. QED BY <1>0, <3>2 DEF Clear, Off
  <2>3. QED BY <2>1, <2>2 DEF Vacant, Off
<1>6. Granted(World, d, b, i, size)
  <2>1. PoolBlock /\ pool' = pool  BY DEF KeepInv
  <2>2. pool.current <= pool.current  BY <2>1 DEF PoolBlock
  <2>3. QED BY <1>0, <1>2, <1>3, <2>1, <2>2 DEF Granted, PoolBlock
<1>7. \A a, m, at, len, k : Claim(a, m, at, len, k) => Stored(World, a, at, len, k)  BY DEF Claim
<1>8. QED BY <1>2, <1>3, <1>4, <1>5, <1>6, <1>7, CopiedKeep

\* the private memory of d is peered with place i of block b
LEMMA GrantWorld ==
  ASSUME NEW w, NEW q, Good(w, q), Texts(w), NEW d \in Packets, NEW b \in Blocks, NEW i \in Nat, NEW size,
         w.mem[<<"block", b>>].at = <<"heap", b, 0>>, w.mem[<<"block", b>>].keeper = <<"block", b>>
  PROVE  LET u == peer(w, memory(d), <<"block", b>>, i, size)
         IN  /\ Good(u, q) /\ Texts(u) /\ \A x \in JMemory : x # memory(d) => u.mem[x] = w.mem[x]
             /\ u.mem[memory(d)].at = <<"heap", b, i>> /\ u.mem[memory(d)].size = size
             /\ u.mem[memory(d)].keeper = <<"block", b>>
             /\ \A a, at, l, j : a # memory(d) /\ Stored(w, a, at, l, j) => Stored(u, a, at, l, j)
<1> DEFINE u == peer(w, memory(d), <<"block", b>>, i, size)
<1>0. PICK x, y : x = <<"heap", b, i>> /\ y = <<"block", b>>  OBVIOUS
<1>1. memory(d) \in JMemory  BY Objects DEF Parts
<1>2. u = peer0(w, memory(d), x, size, y)  BY <1>0 DEF peer, Shift
<1> HIDE DEF u
<1>3. Good(u, q)  BY <1>1, <1>2, PeerGood
<1>4. Touch(w, u, {memory(d)}) /\ u.mem[memory(d)].at = x /\ u.mem[memory(d)].size = size
      /\ u.mem[memory(d)].keeper = y
  BY <1>1, <1>2, PeerTouch
<1>5. /\ \A a, at, l, j : a # memory(d) /\ Stored(w, a, at, l, j) => Stored(u, a, at, l, j)
      /\ Texts(u)
  BY <1>4, TouchKeeps
<1>6. \A z \in JMemory : z # memory(d) => u.mem[z] = w.mem[z]  BY <1>4 DEF Touch
<1>7. QED BY <1>0, <1>3, <1>4, <1>5, <1>6 DEF u

\* into the block that the pool is at
LEMMA PoolMemoryKeep ==
  ASSUME KeepInv, RefInv, HandleInv, NEW n \in Packets, NEW d \in Packets, n # d, held[n] > 0, Has(d),
         pool.block # 0,
         Lent(Filled(peer(World, memory(d), <<"block", pool.block>>, pool.current, copySize(held[n])),
                     d, held[n])),
         pool' = Advance(pool, copySize(held[n])),
         Copied(n, d), UNCHANGED <<pcap, call, frames, ring>>
  PROVE  KeepInv'
<1>0. PICK b, i, size, w, q : b = pool.block /\ i = pool.current /\ size = copySize(held[n])
                              /\ w = World /\ q = queue
  OBVIOUS
<1> DEFINE u == peer(w, memory(d), <<"block", b>>, i, size)
<1>1. /\ b \in Blocks /\ i \in Nat /\ DOMAIN pool = {"block", "current"}
      /\ mem[<<"block", b>>].at = <<"heap", b, 0>> /\ mem[<<"block", b>>].keeper = <<"block", b>>
      /\ mem[<<"block", b>>].ref = b
  <2>1. PoolBlock  BY DEF KeepInv
  <2>2. QED BY <1>0, <2>1 DEF PoolBlock
<1>2. Good(w, q) /\ Texts(w) /\ w.mem = mem  BY <1>0 DEF RefInv, KeepInv, World
<1>3. size \in Nat /\ Padded(size) \in Nat /\ size <= Padded(size)
  <2>1. KeptPacket(n)  BY DEF KeepInv
  <2>2. held[n] \in DOMAIN Caplen  BY <2>1 DEF KeptPacket
  <2>3. QED BY <1>0, <2>2, Sizes, PaddedSize
<1>4. /\ Good(u, q) /\ Texts(u) /\ \A x \in JMemory : x # memory(d) => u.mem[x] = w.mem[x]
      /\ u.mem[memory(d)].at = <<"heap", b, i>> /\ u.mem[memory(d)].size = size
      /\ u.mem[memory(d)].keeper = <<"block", b>>
      /\ \A a, at, l, j : a # memory(d) /\ Stored(w, a, at, l, j) => Stored(u, a, at, l, j)
  BY <1>1, <1>2, GrantWorld
<1>5. Lent(Filled(u, d, held[n]))  BY <1>0
<1> HIDE DEF u
<1>6. pool'.block = b /\ pool'.current = i + Padded(size) /\ DOMAIN pool' = {"block", "current"}
  BY <1>0, <1>1 DEF Advance
<1>7. Vacant(d, b, i, size)
  <2>1. ASSUME NEW a, NEW m \in Packets \ {d}, NEW at, NEW len, NEW k, Claim(a, m, at, len, k), at[2] = b
        PROVE  Off(at, len, b, i, size)
    <3>1. a # header(m)  BY <1>1, <2>1, PoolClaims
    <3>2. at[3] + len <= i  BY <1>0, <2>1, <3>1 DEF Claim, Reserved
    <3>3. QED BY <3>2 DEF Off
  <2>2. ASSUME NEW m \in Packets \ {d}, Used(m), mem[memory(m)].at # NULL
        PROVE  Off(mem[memory(m)].at, mem[memory(m)].size, b, i, size)
    <3>1. InPool(m)  BY <2>2 DEF KeepInv
    <3>2. mem[memory(m)].at[2] = b => mem[memory(m)].at[3] + mem[memory(m)].size <= i
      BY <1>0, <2>2, <3>1 DEF InPool
    <3>3. QED BY <3>2 DEF Off
  <2>3. QED BY <2>1, <2>2 DEF Vacant, Off
<1>8. Granted(u, d, b, i, size)
  <2>1. <<"block", b>> \in JMemory /\ <<"block", b>> # memory(d)  BY <1>1, Objects, Distinct
  <2>2. u.mem[<<"block", b>>] = mem[<<"block", b>>]  BY <1>2, <1>4, <2>1
  <2>3. i + size <= i + Padded(size) /\ i <= i + Padded(size) /\ i + Padded(size) \in Nat  BY <1>1, <1>3
  <2>4. \A x \in JMemory \ {memory(d), <<"block", b>>} : u.mem[x] = mem[x]  BY <1>2, <1>4
  <2>5. QED BY <1>0, <1>1, <1>4, <1>6, <2>2, <2>3, <2>4 DEF Granted
<1>9. \A a, m, at, len, k : m \in Packets \ {d} /\ Claim(a, m, at, len, k) => Stored(u, a, at, len, k)
  <2>1. \A a, m, at, len, k : Claim(a, m, at, len, k) => a # memory(d) /\ Stored(w, a, at, len, k)
    BY <1>0, Distinct DEF Claim, Reserved
  <2>2. QED BY <1>4, <2>1
<1>10. Good(u, queue) /\ copySize(held[n]) <= size  BY <1>0, <1>3, <1>4
<1>11. QED BY <1>1, <1>3, <1>4, <1>5, <1>7, <1>8, <1>9, <1>10, CopiedKeep

\* block b is allocated for the pool, and the private memory of d peered with its first bytes
LEMMA NewBlockWorld ==
  ASSUME NEW v, NEW q, Good(v, q), Texts(v), NEW d \in Packets, NEW b \in Blocks, NEW len, NEW size,
         ~v.heap[b].live, v.mem[<<"block", b>>].ref = 0
  PROVE  LET u == peer(allocate(v, <<"block", b>>, b, len), memory(d), <<"block", b>>, 0, size)
         IN  /\ Good(u, q) /\ Texts(u)
             /\ \A x \in JMemory \ {memory(d), <<"block", b>>} : u.mem[x] = v.mem[x]
             /\ u.mem[memory(d)].at = <<"heap", b, 0>> /\ u.mem[memory(d)].size = size
             /\ u.mem[memory(d)].keeper = <<"block", b>>
             /\ u.mem[<<"block", b>>].at = <<"heap", b, 0>> /\ u.mem[<<"block", b>>].ref = b
             /\ u.mem[<<"block", b>>].keeper = <<"block", b>>
             /\ \A a, at, l, j : Stored(v, a, at, l, j) =>
                  at[2] # b /\ (a # memory(d) /\ a # <<"block", b>> => Stored(u, a, at, l, j))
<1> DEFINE w == allocate(v, <<"block", b>>, b, len)
           u == peer(w, memory(d), <<"block", b>>, 0, size)
<1>0. PICK c, i : c = <<"block", b>> /\ i = 0  OBVIOUS
<1>1. c \in JMemory /\ c # memory(d) /\ \A e \in Blocks \ {b} : c # <<"block", e>>
  BY <1>0, Objects, Distinct
<1>2. Good(w, q)  BY <1>0, <1>1, AllocateGood
<1>3. /\ w.mem[c] = [at |-> <<"heap", b, 0>>, size |-> len, keeper |-> c, ref |-> b]
      /\ \A x \in JMemory \ {c} : w.mem[x] = v.mem[x]
      /\ \A a, at, l, k : Stored(v, a, at, l, k) => at[2] # b /\ (a # c => Stored(w, a, at, l, k))
      /\ Texts(w)
  BY <1>0, <1>1, AllocateKeeps
<1> HIDE DEF w
<1>4. w.mem[c].at = <<"heap", b, 0>> /\ w.mem[c].keeper = c /\ w.mem[c].ref = b  BY <1>3
<1>5. u = peer(w, memory(d), <<"block", b>>, i, size) /\ i \in Nat  BY <1>0
<1> HIDE DEF u
<1>6. w.mem[<<"block", b>>].at = <<"heap", b, 0>> /\ w.mem[<<"block", b>>].keeper = <<"block", b>>
  BY <1>0, <1>4
<1>7. /\ Good(u, q) /\ Texts(u) /\ \A x \in JMemory : x # memory(d) => u.mem[x] = w.mem[x]
      /\ u.mem[memory(d)].at = <<"heap", b, i>> /\ u.mem[memory(d)].size = size
      /\ u.mem[memory(d)].keeper = <<"block", b>>
      /\ \A a, at, l, j : a # memory(d) /\ Stored(w, a, at, l, j) => Stored(u, a, at, l, j)
  <2>1. Texts(w) /\ i \in Nat  BY <1>3, <1>5
  <2> DEFINE e == peer(w, memory(d), <<"block", b>>, i, size)
  <2>2. /\ Good(e, q) /\ Texts(e) /\ \A x \in JMemory : x # memory(d) => e.mem[x] = w.mem[x]
        /\ e.mem[memory(d)].at = <<"heap", b, i>> /\ e.mem[memory(d)].size = size
        /\ e.mem[memory(d)].keeper = <<"block", b>>
        /\ \A a, at, l, j : a # memory(d) /\ Stored(w, a, at, l, j) => Stored(e, a, at, l, j)
    BY <1>2, <1>6, <2>1, GrantWorld
  <2>3. u = e  BY <1>5
  <2> HIDE DEF e
  <2>4. QED BY <2>2, <2>3
<1>8. QED BY <1>0, <1>1, <1>3, <1>4, <1>7 DEF u, w

\* into a new block
LEMMA NewBlockKeep ==
  ASSUME KeepInv, RefInv, HandleInv, NEW n \in Packets, NEW d \in Packets, n # d, held[n] > 0, Has(d),
         NEW b \in Blocks, malloc(b),
         LET w == allocate(World, <<"block", b>>, b, newBlock(copySize(held[n])))
         IN  Lent(Filled(peer(w, memory(d), <<"block", b>>, 0, copySize(held[n])), d, held[n])),
         pool' = Advance([block |-> b, current |-> 0], copySize(held[n])),
         Copied(n, d), UNCHANGED <<pcap, call, frames, ring>>
  PROVE  KeepInv'
<1>0. PICK c, size, len, v, q : c = <<"block", b>> /\ size = copySize(held[n]) /\ len = newBlock(size)
                                /\ v = World /\ q = queue
  OBVIOUS
<1> DEFINE w == allocate(v, <<"block", b>>, b, len)
           u == peer(w, memory(d), <<"block", b>>, 0, size)
<1>1. Good(v, q) /\ Texts(v) /\ v.mem = mem /\ ~v.heap[b].live  BY <1>0 DEF RefInv, KeepInv, World, malloc
<1>2. c \in JMemory /\ c # memory(d) /\ b # 0 /\ \A e \in Blocks \ {b} : c # <<"block", e>>
  BY <1>0, Objects, Distinct, BlocksAssumption
<1>3. \A x \in JMemory : mem[x].ref # b
  <2>1. \A x \in JMemory : v.mem[x].ref # 0 => v.heap[v.mem[x].ref].live  BY <1>1 DEF Good, Owned
  <2>2. QED BY <1>1, <1>2, <2>1
<1>4. mem[c].ref = 0  BY <1>0, <1>1, <1>2, <1>3 DEF Good, Owned
<1>5. size \in Nat /\ Padded(size) \in Nat /\ size <= Padded(size)
  <2>1. KeptPacket(n)  BY DEF KeepInv
  <2>2. held[n] \in DOMAIN Caplen  BY <2>1 DEF KeptPacket
  <2>3. QED BY <1>0, <2>2, Sizes, PaddedSize
<1>6. w = allocate(World, <<"block", b>>, b, newBlock(copySize(held[n])))  BY <1>0
<1>7. /\ Good(u, q) /\ Texts(u)
      /\ \A x \in JMemory \ {memory(d), <<"block", b>>} : u.mem[x] = v.mem[x]
      /\ u.mem[memory(d)].at = <<"heap", b, 0>> /\ u.mem[memory(d)].size = size
      /\ u.mem[memory(d)].keeper = <<"block", b>>
      /\ u.mem[<<"block", b>>].at = <<"heap", b, 0>> /\ u.mem[<<"block", b>>].ref = b
      /\ u.mem[<<"block", b>>].keeper = <<"block", b>>
      /\ \A a, at, l, j : Stored(v, a, at, l, j) =>
           at[2] # b /\ (a # memory(d) /\ a # <<"block", b>> => Stored(u, a, at, l, j))
  <2>1. v.mem[<<"block", b>>].ref = 0  BY <1>0, <1>1, <1>4
  <2>2. QED BY <1>1, <2>1, NewBlockWorld
<1> HIDE DEF w
<1>8. Lent(Filled(u, d, held[n]))  BY <1>0, <1>6
<1> HIDE DEF u
<1>9. pool'.block = b /\ pool'.current = Padded(size) /\ DOMAIN pool' = {"block", "current"}
  <2>1. pool' = [[block |-> b, current |-> 0] EXCEPT !.current = @ + Padded(size)]  BY <1>0 DEF Advance
  <2>2. QED BY <1>5, <2>1
<1>10. \A a, m, at, l, k : Claim(a, m, at, l, k) =>
         /\ at[2] # b /\ Stored(v, a, at, l, k) /\ a # memory(d) /\ a # c
  <2>1. \A a, m, at, l, k : Claim(a, m, at, l, k) =>
          Stored(v, a, at, l, k) /\ a # memory(d) /\ (a = header(m) \/ a = <<"block", at[2]>>)
    BY <1>0, Distinct DEF Claim, Reserved
  <2>2. QED BY <1>0, <1>7, <2>1, Distinct
<1>11. Unused(d, b)
  <2>1. ASSUME NEW m \in Packets \ {d}, Used(m), mem[memory(m)].at # NULL PROVE mem[memory(m)].at[2] # b
    <3>1. InPool(m)  BY <2>1 DEF KeepInv
    <3>2. PICK e : e = mem[memory(m)].at[2]  OBVIOUS
    <3>3. e \in Blocks /\ mem[<<"block", e>>].ref = e  BY <2>1, <3>1, <3>2 DEF InPool
    <3>4. <<"block", e>> \in JMemory  BY <3>3, Objects
    <3>5. QED BY <1>3, <3>2, <3>3, <3>4
  <2>2. QED BY <1>10, <2>1 DEF Unused
<1>12. Vacant(d, b, 0, size)  BY <1>11 DEF Vacant, Unused, Off
<1>13. Granted(u, d, b, 0, size)
  <2>1. 0 + size <= Padded(size)  BY <1>5
  <2>2. QED BY <1>1, <1>5, <1>7, <1>9, <1>11, <2>1 DEF Granted
<1>14. \A a, m, at, l, k : m \in Packets \ {d} /\ Claim(a, m, at, l, k) => Stored(u, a, at, l, k)
  BY <1>0, <1>7, <1>10
<1>15. Good(u, queue) /\ copySize(held[n]) <= size /\ 0 \in Nat  BY <1>0, <1>5, <1>7
<1>16. QED BY <1>5, <1>7, <1>8, <1>12, <1>13, <1>14, <1>15, CopiedKeep

LEMMA TransferKeep ==
  ASSUME KeepInv, RefInv, HandleInv, NEW n \in Packets, NEW d \in Packets, transferStateAndDataTo(n, d)
  PROVE  KeepInv'
<1>1. n # d /\ held[n] > 0 /\ Has(d) /\ UNCHANGED <<pcap, call, frames, ring>>
  BY DEF transferStateAndDataTo
<1>2. CASE /\ mem[memory(d)].at # NULL /\ mem[memory(d)].size >= copySize(held[n])
           /\ Lent(Filled(World, d, held[n])) /\ Copied(n, d) /\ UNCHANGED pool
  BY <1>1, <1>2, OwnMemoryKeep
<1>3. CASE /\ Room(copySize(held[n]))
           /\ Lent(Filled(peer(World, memory(d), <<"block", pool.block>>, pool.current,
                               copySize(held[n])), d, held[n]))
           /\ pool' = Advance(pool, copySize(held[n])) /\ Copied(n, d)
  <2>1. pool.block # 0  BY <1>3 DEF Room
  <2>2. QED BY <1>1, <1>3, <2>1, PoolMemoryKeep
<1>4. CASE /\ \E b \in Blocks :
                LET w == allocate(World, <<"block", b>>, b, newBlock(copySize(held[n])))
                IN  /\ malloc(b)
                    /\ Lent(Filled(peer(w, memory(d), <<"block", b>>, 0, copySize(held[n])), d, held[n]))
                    /\ pool' = Advance([block |-> b, current |-> 0], copySize(held[n]))
           /\ Copied(n, d)
  BY <1>1, <1>4, NewBlockKeep
<1>5. CASE UNCHANGED <<mem, heap, held, view, pool>>
  <2>1. Calm  BY <1>1 DEF Calm, Shows
  <2>2. Counting  BY DEF KeepInv
  <2>3. held' \in [Packets -> Int] /\ \A m \in Packets : held'[m] = held[m] \/ held'[m] = -1
    BY <1>5, <2>2 DEF Counting
  <2>4. frames + call'.batch <= Len(Caplen) /\ call'.work = call.work  BY <1>1, <2>2 DEF Counting
  <2>5. UNCHANGED <<mem, heap, pool, frames, ring>> /\ view' = view  BY <1>1, <1>5
  <2>6. QED BY <2>1, <2>3, <2>4, <2>5, CalmKeep
<1>6. QED BY <1>2, <1>3, <1>4, <1>5 DEF transferStateAndDataTo

-----------------------------------------------------------------------------
(* The collector and the cleanup thread *)

\* The collector leaves what packets in use, views and the pool rest on.
LEMMA NotGarbage ==
  /\ \A n \in Packets : Used(n) =>
       /\ Parts(n) \intersect Garbage = {}
       /\ mem[data(n)].keeper \in JMemory => mem[data(n)].keeper \notin Garbage
       /\ mem[memory(n)].keeper \in JMemory => mem[memory(n)].keeper \notin Garbage
  /\ \A v \in Views : view[v].held =>
       /\ ViewParts(v) \intersect Garbage = {}
       /\ mem[<<"view", v>>].keeper \in JMemory => mem[<<"view", v>>].keeper \notin Garbage
  /\ pool.block \in Blocks => <<"block", pool.block>> \notin Garbage
<1>1. \A o \in Reachable : o \notin Garbage  BY DEF Garbage
<1>2. \A o \in JMemory : o \notin {None, Scanner}
  <2>1. \A n : /\ header(n) \notin {None, Scanner} /\ data(n) \notin {None, Scanner}
               /\ state(n) \notin {None, Scanner} /\ memory(n) \notin {None, Scanner}
               /\ <<"view", n>> \notin {None, Scanner} /\ <<"vstate", n>> \notin {None, Scanner}
               /\ <<"block", n>> \notin {None, Scanner}
    BY DEF header, data, state, memory, None, Scanner
  <2>2. QED BY <2>1 DEF JMemory, Parts, ViewParts
<1>3. ASSUME NEW n \in Packets, Used(n)
      PROVE  /\ Parts(n) \intersect Garbage = {}
             /\ mem[data(n)].keeper \in JMemory => mem[data(n)].keeper \notin Garbage
             /\ mem[memory(n)].keeper \in JMemory => mem[memory(n)].keeper \notin Garbage
  <2>1. data(n) \in Roots  BY <1>3 DEF Roots, Used
  <2>2. Parts(n) \subseteq JMemory /\ data(n) \in JMemory /\ memory(n) \in Parts(n)  BY Objects DEF Parts
  <2>3. Links(data(n)) = Parts(n) \union {mem[data(n)].keeper}  BY DEF Links, data
  <2>4. Links(memory(n)) = {mem[memory(n)].keeper}  BY DEF Links, memory
  <2>5. \A x \in Links(data(n)) \ {None, Scanner} :
          x \in Reachable /\ \A y \in Links(x) \ {None, Scanner} : y \in Reachable
    BY <1>2, <2>1, <2>2, Reaches
  <2>6. \A x \in JMemory : x \in Parts(n) \/ x = mem[data(n)].keeper => x \in Reachable
    BY <1>2, <2>3, <2>5
  <2>7. mem[memory(n)].keeper \in JMemory => mem[memory(n)].keeper \in Reachable
    BY <1>2, <2>2, <2>3, <2>4, <2>5
  <2>8. QED BY <1>1, <2>2, <2>6, <2>7
<1>4. ASSUME NEW v \in Views, view[v].held
      PROVE  /\ ViewParts(v) \intersect Garbage = {}
             /\ mem[<<"view", v>>].keeper \in JMemory => mem[<<"view", v>>].keeper \notin Garbage
  <2> DEFINE o == <<"view", v>>
  <2>1. o \in Roots  BY <1>4 DEF Roots
  <2>2. ViewParts(v) \subseteq JMemory /\ o \in JMemory  BY Objects DEF ViewParts
  <2>3. ViewParts(v) \union {mem[o].keeper} \subseteq Links(o)  BY DEF Links
  <2> HIDE DEF o
  <2>4. \A x \in Links(o) \ {None, Scanner} : x \in Reachable  BY <1>2, <2>1, <2>2, Reaches
  <2>5. QED BY <1>1, <1>2, <2>2, <2>3, <2>4 DEF o
<1>5. ASSUME pool.block \in Blocks PROVE <<"block", pool.block>> \notin Garbage
  <2> DEFINE o == <<"block", pool.block>>
  <2>1. o \in Roots  BY <1>5 DEF Roots
  <2>2. o \in JMemory  BY <1>5, Objects
  <2> HIDE DEF o
  <2>3. o \in Reachable  BY <1>2, <2>1, <2>2, Reaches
  <2>4. QED BY <1>1, <2>3 DEF o
<1>6. QED BY <1>3, <1>4, <1>5

LEMMA CollectKeep == ASSUME KeepInv, RefInv, HandleInv, Collect PROVE KeepInv'
<1>1. /\ mem' = [o \in JMemory |-> IF o \in Garbage THEN Fresh ELSE mem[o]]
      /\ UNCHANGED <<pcap, heap, held, view, pool, call, frames, ring>>
  BY DEF Collect
<1>2. PICK T : T = Garbage  OBVIOUS
<1>3. SameObjects(T)  BY <1>1, <1>2 DEF SameObjects
<1>4. \A n \in Packets : Used(n) =>
        /\ {header(n), data(n), state(n), memory(n)} \intersect T = {}
        /\ mem[data(n)].keeper \in JMemory => mem[data(n)].keeper \notin T
        /\ mem[memory(n)].keeper \in JMemory => mem[memory(n)].keeper \notin T
  BY <1>2, NotGarbage DEF Parts
<1>5. \A v \in Views : view[v].held =>
        /\ ViewParts(v) \intersect T = {}
        /\ mem[<<"view", v>>].keeper \in JMemory => mem[<<"view", v>>].keeper \notin T
  BY <1>2, NotGarbage
<1>6. \A n \in Packets : Used(n)' <=> Used(n)  BY <1>1 DEF Used
<1>7. \A n \in Packets : header(n) \in JMemory /\ memory(n) \in JMemory  BY Objects DEF Parts
<1>8. \A n \in Packets : Used(n) => mem'[memory(n)] = mem[memory(n)] /\ mem'[header(n)] = mem[header(n)]
  BY <1>3, <1>4, <1>7 DEF SameObjects
<1>9. World'.mem = mem' /\ World.mem = mem /\ World'.heap = heap /\ World.heap = heap  BY <1>1 DEF World
<1>10. SameMemory  BY <1>1, <1>6, <1>8 DEF SameMemory
<1>11. \A a, at, len, k : a \notin T /\ Stored(World, a, at, len, k) => Stored(World', a, at, len, k)
  BY <1>3, <1>9 DEF Stored, SameObjects
<1>12. KeepsClaims(T, {})
  <2>1. \A a, n, at, len, k : n \in Packets \ {} /\ a \notin T /\ Claim(a, n, at, len, k)
                                => Stored(World', a, at, len, k)
    BY <1>11 DEF Claim
  <2>2. QED BY <1>10, <2>1, ClaimsStay
<1>13. Calm  BY <1>1 DEF Calm, Shows
<1>14. \A a, n, at, len, k : Claim(a, n, at, len, k) => a \in JMemory  BY DEF Claim, Stored
<1>15. \A n \in Packets : held'[n] > 0 => KeptPacket(n)'
  <2> SUFFICES ASSUME NEW n \in Packets, held'[n] > 0 PROVE KeptPacket(n)'
    OBVIOUS
  <2>1. held'[n] = held[n] /\ held[n] \in Int /\ KeptPacket(n) /\ Used(n)
    <3>1. held[n] > 0 /\ held[n] \in Int /\ held'[n] = held[n]  BY <1>1 DEF KeepInv, Counting
    <3>2. QED BY <3>1 DEF KeepInv, Used
  <2>2. mem[data(n)].at[1] = "heap" => mem[data(n)].keeper \notin T
    <3>1. HAVE mem[data(n)].at[1] = "heap"
    <3>2. Claim(mem[data(n)].keeper, n, mem[data(n)].at, Caplen[held[n]], held[n])
      BY <2>1, <3>1 DEF KeptPacket
    <3>3. QED BY <1>4, <1>14, <2>1, <3>2
  <2>3. {header(n), data(n), state(n)} \intersect T = {}  BY <1>4, <2>1
  <2>4. QED BY <1>3, <1>12, <1>13, <2>1, <2>2, <2>3, PacketStays
<1>16. \A v \in Views : view'[v].held => KeptView(v)'
  <2> SUFFICES ASSUME NEW v \in Views, view'[v].held PROVE KeptView(v)'
    OBVIOUS
  <2>1. view'[v] = view[v] /\ view[v].held /\ KeptView(v) /\ view[v].shows \in Int
    BY <1>1 DEF KeepInv, Counting
  <2> DEFINE x == <<"view", v>>
  <2>2. mem[x].at[1] = "heap" => mem[x].keeper \notin T
    <3>1. HAVE mem[x].at[1] = "heap"
    <3>2. Claim(mem[x].keeper, view[v].from, mem[x].at, Caplen[view[v].shows], view[v].shows)
      BY <2>1, <3>1 DEF KeptView
    <3>3. QED BY <1>5, <1>14, <2>1, <3>2
  <2>3. ViewParts(v) \intersect T = {}  BY <1>5, <2>1
  <2>4. QED BY <1>3, <1>12, <1>13, <2>1, <2>2, <2>3, ViewStays
<1>17. \A n \in Packets : Used(n)' => InPool(n)' /\ Topped(n)'
  <2> SUFFICES ASSUME NEW n \in Packets, Used(n)' PROVE InPool(n)' /\ Topped(n)'
    OBVIOUS
  <2>1. Used(n) /\ InPool(n) /\ Topped(n)  BY <1>6 DEF KeepInv
  <2>2. Topped(n)'  BY <1>8, <2>1 DEF Topped
  <2>3. mem[memory(n)].at # NULL => mem'[mem[memory(n)].keeper].ref = mem[mem[memory(n)].keeper].ref
    <3>1. HAVE mem[memory(n)].at # NULL
    <3>2. mem[memory(n)].keeper \in JMemory  BY <2>1, <3>1, Objects DEF InPool
    <3>3. QED BY <1>3, <1>4, <2>1, <3>2 DEF SameObjects
  <2>4. QED BY <1>10, <2>2, <2>3, PoolStays
<1>18. PoolBlock'
  <2>1. PoolBlock  BY DEF KeepInv
  <2>2. pool.block \in Blocks => mem'[<<"block", pool.block>>] = mem[<<"block", pool.block>>]
    BY <1>2, <1>3, NotGarbage, Objects DEF SameObjects
  <2>3. QED BY <1>1, <2>1, <2>2 DEF PoolBlock
<1>19. Texts(World')  BY <1>9 DEF KeepInv, Texts
<1>20. Counting'  BY <1>1 DEF KeepInv, Counting
<1>21. QED BY <1>15, <1>16, <1>17, <1>18, <1>19, <1>20 DEF KeepInv

LEMMA DisposeKeep == ASSUME KeepInv, RefInv, HandleInv, NEW b \in Blocks, Dispose(b) PROVE KeepInv'
<1>1. b \in queue /\ heap' = [heap EXCEPT ![b] = Free]
      /\ UNCHANGED <<pcap, mem, held, view, pool, call, frames, ring>>
  BY BlocksAssumption DEF Dispose, disposeNative0
<1>2. World'.mem = mem /\ World.mem = mem /\ World'.heap = heap' /\ World.heap = heap  BY <1>1 DEF World
<1>3. Good(World, queue)  BY DEF RefInv
<1>4. heap'[b].text = {} /\ \A c \in Blocks \ {b} : heap'[c] = heap[c]
  BY <1>1, <1>2, <1>3 DEF Good, Shaped, Free
<1>5. \A o \in JMemory : mem[o].ref # b  BY <1>1, <1>2, <1>3, BlocksAssumption DEF Good, Owned
<1>6. \A a, at, len, k : Stored(World, a, at, len, k) => Stored(World', a, at, len, k)
  BY <1>2, <1>4, <1>5 DEF Stored
<1>7. Texts(World')
  <2>1. \A c \in Blocks : World'.heap[c].text \subseteq World.heap[c].text  BY <1>2, <1>4
  <2>2. QED BY <2>1 DEF KeepInv, Texts
<1>8. Counting'  BY <1>1 DEF KeepInv, Counting
<1>9. Calm  BY <1>1 DEF Calm, Shows
<1>10. SameObjects({})  BY <1>1 DEF SameObjects
<1>11. \A n \in Packets : held'[n] > 0 => Still(n, {}, {})  BY <1>1, <1>9 DEF Still
<1>12. \A v \in Views : view'[v].held => StillView(v, {}, {})  BY <1>1, <1>9 DEF StillView
<1>13. \A n \in Packets : Used(n)' => Used(n)  BY <1>1 DEF Used
<1>14. \A a, n, at, len, k : Claim(a, n, at, len, k) => Stored(World', a, at, len, k)  BY <1>6 DEF Claim
<1>15. pool' = pool  BY <1>1
<1>16. QED BY <1>7, <1>8, <1>10, <1>11, <1>12, <1>13, <1>14, <1>15, SteadyKeep

-----------------------------------------------------------------------------
LEMMA InitKeep == Init => KeepInv
<1> SUFFICES ASSUME Init PROVE KeepInv
  OBVIOUS
<1>1. held = [n \in Packets |-> -1] /\ view = [v \in Views |-> Unheld] /\ call = NoCall /\ frames = 0
      /\ pool = [block |-> 0, current |-> 0] /\ heap = [b \in Blocks |-> Free]
      /\ mem = [o \in JMemory |-> Fresh]
  BY DEF Init
<1>2. Unheld \in [held : BOOLEAN, of : Packets \union {0}, from : Packets \union {0}, shows : Int]
      /\ Unheld.held = FALSE /\ NoCall.batch = 0 /\ NoCall.work = 0
  BY DEF Unheld, NoCall
<1>3. Len(Caplen) \in Nat  BY SizesAssumption
<1>4. Counting  BY <1>1, <1>2, <1>3, PacketsAssumption DEF Counting
<1>5. PoolBlock  BY <1>1 DEF PoolBlock
<1>6. Texts(World)  BY <1>1 DEF Texts, World, Free
<1>7. \A n \in Packets : held[n] = -1 /\ ~Used(n)  BY <1>1, <1>2, PacketsAssumption DEF Used
<1>8. QED BY <1>1, <1>2, <1>4, <1>5, <1>6, <1>7 DEF KeepInv

LEMMA KeepStep == KeepInv /\ RefInv /\ HandleInv /\ [Next]_vars => KeepInv'
<1> SUFFICES ASSUME KeepInv, RefInv, HandleInv, [Next]_vars PROVE KeepInv'
  OBVIOUS
<1>1. CASE UNCHANGED vars
  <2>1. UNCHANGED <<mem, heap, pool, frames, ring, pcap, held, view, call>>  BY <1>1 DEF vars
  <2>2. Counting /\ Calm  BY <2>1 DEF KeepInv, Calm, Shows
  <2>3. held' \in [Packets -> Int] /\ \A n \in Packets : held'[n] = held[n] \/ held'[n] = -1
    BY <2>1, <2>2 DEF Counting
  <2>4. frames + call'.batch <= Len(Caplen)  BY <2>1, <2>2 DEF Counting
  <2>5. QED BY <2>1, <2>2, <2>3, <2>4, CalmKeep
<1>2. CASE Collect  BY <1>2, CollectKeep
<1>3. CASE LoopStep
  BY <1>3, CallKeep, BackKeep, CallbackKeep, PacketCallbackKeep DEF LoopStep
<1>4. ASSUME NEW p \in Pcaps,
             \/ openLive(p) \/ openDead(p) \/ openOffline(p) \/ create(p)
             \/ datalink(p) \/ setNonBlock(p) \/ setDatalink(p) \/ majorVersion(p)
             \/ stats(p) \/ sendPacket(p) \/ setSnaplen(p) \/ activate(p) \/ close(p) \/ breakloop(p)
             \/ dumpOpen(p) \/ dispatch(p) \/ loop(p) \/ dumperLoop(p) \/ nextPktHdr(p)
             \/ \E n \in Packets : nextEx(p, n) \/ next(p, n)
             \/ DropPcap(p) \/ Finalize(p)
      PROVE  KeepInv'
  <2>1. CASE close(p) \/ nextPktHdr(p) \/ DropPcap(p)  BY <2>1, BackKeep
  <2>2. CASE dispatch(p) \/ loop(p) \/ dumperLoop(p)  BY <2>2, CallKeep
  <2>3. CASE \E n \in Packets : nextEx(p, n) \/ next(p, n)  BY <2>3, NextKeep
  <2>4. CASE \/ openLive(p) \/ openDead(p) \/ openOffline(p) \/ create(p)
             \/ datalink(p) \/ setNonBlock(p) \/ setDatalink(p) \/ majorVersion(p)
             \/ stats(p) \/ sendPacket(p) \/ setSnaplen(p) \/ activate(p) \/ breakloop(p)
             \/ dumpOpen(p) \/ Finalize(p)
    BY <2>4, PcapKeep
  <2>5. QED BY <1>4, <2>1, <2>2, <2>3, <2>4
<1>5. CASE \/ dumperClose \/ findAllDevs \/ lookupDev
           \/ (\E n \in Packets : DropPacket(n)) \/ (\E v \in Views : DropView(v))
  BY <1>5, DropKeep
<1>6. CASE \E v \in Views, n \in Packets : peerHeaderByIndex(v, n) \/ peerBuffer(v, n)  BY <1>6, ViewKeep
<1>7. CASE \E n, d \in Packets : transferStateAndDataTo(n, d)  BY <1>7, TransferKeep
<1>8. CASE \E b \in Blocks : Dispose(b)  BY <1>8, DisposeKeep
<1>9. QED BY <1>1, <1>2, <1>3, <1>4, <1>5, <1>6, <1>7, <1>8 DEF Next, Step

\* Whatever the sizes and numbers of packets, views and blocks, the order in which packets are read,
\* copied, peered, dropped and collected, and whichever places malloc gives: a packet, a header or a
\* buffer that the application counts on shows the bytes of its own packet (PcapPacket
\* transferStateAndDataTo, JMemoryPool, transferToNewBuffer, peerHeaderByIndex), and no native
\* method meets a pcap_t or a dump file that is freed.
THEOREM UsesStayValid == Spec => []UsesAreValid
<1>1. HandleInv => NoStaleHandle /\ PendingOnlyInBatches  BY DEF HandleInv, NoStaleHandle
<1>2. RefInv => Good(World, queue)  BY DEF RefInv
<1>3. Good(World, queue) /\ KeepInv => KeptPacketsReadBack  BY KeptReads
<1>4. RefInv /\ HandleInv /\ KeepInv => UsesAreValid  BY <1>1, <1>2, <1>3 DEF UsesAreValid
<1>5. QED BY <1>4, InitRef, RefStep, InitHandle, HandleStep, InitKeep, KeepStep, PTL DEF Spec
=============================================================================
