---------------------------- MODULE CaptureProofs ---------------------------
(***************************************************************************)
(* Theorems about the capture handle of libpcap, for every set of handles, *)
(* size of the ring, traffic and count.                                    *)
(***************************************************************************)
EXTENDS Capture, SequenceTheorems, FiniteSetTheorems, TLAPS

-----------------------------------------------------------------------------
(* Types *)

\* the queue of a socket or device and a block of the ring hold no more than there is room for
Bounded == {q \in Seq(Packets) : Len(q) <= BlockCap}

HandleStates ==
    [fcode : Filters, userland : BOOLEAN, countdown : Nat, offset : Slots, current : Nat,
     left : 0 .. BlockCap, break_loop : BOOLEAN, direction : {"IN", "OUT", "INOUT"}, timeout : Int,
     nonblock : BOOLEAN, packets_read : Nat, recv : Int, drop : Int, stale : BOOLEAN,
     bogus : BOOLEAN, since : Nat, buffer : Bounded, lost : SUBSET Nat]

Operations == {"none", "dispatch", "next", "loop", "setfilter"}
Reads == {"recv", "recvmsg", "wait", "poll", "frame", "block", "batch", "read", "event"}
Sets == {"program", "install", "total", "drain", "attach", "userland", "walk"}

CallStates ==
    [op : Operations, at : {"idle"} \cup Reads \cup Sets, max : Int, pkts : Nat, todo : Nat, cnt : Int, given : Nat,
     f : Filters, total : BOOLEAN, nflush : Nat]

Ring == [Slots -> [user : BOOLEAN, pkts : Bounded]]

KernelStates ==
    [filter : Filters, queue : Bounded, pos : Slots, inflight : SUBSET Packets, next : Nat,
     ring : Ring, packets : Nat, drops : Nat, held : SUBSET Nat]

TypeOK ==
    /\ hd \in Handles /\ h \in HandleStates /\ call \in CallStates /\ kern \in KernelStates
    /\ call.at = "batch" => call.todo <= h.left

LEMMA HandleType ==
    ASSUME TypeOK
    PROVE  /\ hd.mode \in Modes /\ hd.timeout \in Int /\ hd.snapshot \in Nat
           /\ hd.traffic \subseteq Packets /\ hd.filters \subseteq Filters
BY HandleAssumption DEF TypeOK

LEMMA NoFilterType == NoFilter \in Filters /\ TotalFilter \in Filters
BY DEF NoFilter, TotalFilter, Filters

LEMMA EmptyType == <<>> \in Bounded
BY CaptureAssumption DEF Bounded

LEMMA IdleType == Idle \in CallStates
BY NoFilterType DEF Idle, CallStates, Operations

LEMMA ZeroSlot == 0 \in Slots
BY CaptureAssumption DEF Slots

LEMMA NextSlot == ASSUME NEW s \in Slots PROVE (s + 1) % Frames \in Slots
BY CaptureAssumption DEF Slots

LEMMA InitType == Init => TypeOK
<1> SUFFICES ASSUME Init PROVE TypeOK
  OBVIOUS
<1> USE NoFilterType, EmptyType, ZeroSlot
<1>1. hd \in Handles /\ hd.timeout \in Int  BY HandleAssumption DEF Init
<1>2. h \in HandleStates  BY <1>1, CaptureAssumption DEF Init, HandleStates
<1>3. call \in CallStates /\ call.at # "batch"  BY IdleType DEF Init, Idle
<1>4. kern.ring \in Ring  BY DEF Init, Ring
<1>5. kern \in KernelStates  BY <1>4 DEF Init, KernelStates
<1>6. QED BY <1>1, <1>2, <1>3, <1>5 DEF TypeOK

LEMMA BoundedAppend ==
    ASSUME NEW q \in Bounded, NEW p \in Packets, Len(q) < BlockCap
    PROVE  Append(q, p) \in Bounded
BY CaptureAssumption DEF Bounded

LEMMA BoundedOne == ASSUME NEW p \in Packets PROVE <<p>> \in Bounded
BY CaptureAssumption DEF Bounded

LEMMA BoundedTail ==
    ASSUME NEW q \in Bounded, q # <<>>
    PROVE  /\ Tail(q) \in Bounded /\ Head(q) \in Packets
           /\ Len(q) \in Nat /\ Len(q) > 0 /\ Len(Tail(q)) = Len(q) - 1
<1>1. q \in Seq(Packets) /\ Len(q) <= BlockCap /\ Len(q) \in Nat  BY DEF Bounded
<1>2. Len(q) > 0  BY <1>1, EmptySeq
<1>3. Tail(q) \in Seq(Packets) /\ Len(Tail(q)) = Len(q) - 1 /\ Head(q) \in Packets
  BY <1>1, HeadTailProperties
<1>4. QED BY <1>1, <1>2, <1>3, CaptureAssumption DEF Bounded

LEMMA BoundedSub ==
    ASSUME NEW q \in Bounded, NEW i \in 1 .. Len(q) + 1, NEW j \in 0 .. Len(q)
    PROVE  SubSeq(q, i, j) \in Bounded /\ Len(SubSeq(q, i, j)) = IF i <= j THEN j - i + 1 ELSE 0
<1>1. q \in Seq(Packets) /\ Len(q) <= BlockCap /\ Len(q) \in Nat  BY DEF Bounded
<1>2. \A n \in i .. j : q[n] \in Packets  BY <1>1
<1>3. /\ SubSeq(q, i, j) \in Seq(Packets)
      /\ Len(SubSeq(q, i, j)) = IF i <= j THEN j - i + 1 ELSE 0
  BY <1>1, <1>2, SubSeqProperties
<1>4. QED BY <1>1, <1>3, CaptureAssumption DEF Bounded

LEMMA FilteredType ==
    ASSUME NEW t \in Packets, NEW f \in Filters, NEW n \in Nat
    PROVE  /\ [t EXCEPT !.id = n] \in Packets
           /\ Filtered(t, f) \in Packets /\ Filtered(t, f).id = t.id
<1>1. t.len \in Nat /\ f.ret \in Nat  BY DEF Packets, Filters
<1>2. (IF f = NoFilter THEN t.len ELSE Minimum(t.len, f.ret)) \in Nat  BY <1>1 DEF Minimum
<1>3. QED BY <1>2 DEF Filtered, Packets

LEMMA StoredType ==
    ASSUME NEW k \in KernelStates, NEW p \in Packets
    PROVE  Stored(k, p) \in KernelStates
<1> DEFINE s == k.pos
           t == (s + 1) % Frames
           b == k.ring[s]
           c == [k EXCEPT !.packets = @ + 1]
           one == [user |-> TRUE, pkts |-> <<p>>]
           full == Len(k.ring[s].pkts) = BlockCap
<1>1. s \in Slots /\ t \in Slots  BY NextSlot DEF KernelStates
<1>2. b \in [user : BOOLEAN, pkts : Bounded] /\ Len(b.pkts) \in Nat
  BY <1>1 DEF KernelStates, Ring, Bounded
<1>3. c \in KernelStates /\ c.ring = k.ring /\ c.queue = k.queue  BY DEF KernelStates
<1>4. one \in [user : BOOLEAN, pkts : Bounded]  BY BoundedOne
<1>5. ASSUME NEW x \in KernelStates PROVE Dropped(x) \in KernelStates
  <2>1. x.drops + 1 \in Nat /\ x.packets + 1 \in Nat  BY DEF KernelStates
  <2>2. QED BY <2>1 DEF Dropped, KernelStates
<1>6. ASSUME NEW x \in KernelStates, NEW u \in Slots, NEW w \in [user : BOOLEAN, pkts : Bounded]
      PROVE  [x EXCEPT !.ring[u] = w] \in KernelStates
  <2> DEFINE r == [x.ring EXCEPT ![u] = w]
  <2>1. r \in Ring  BY DEF KernelStates, Ring
  <2> HIDE DEF r
  <2>2. [x EXCEPT !.ring = r] \in KernelStates  BY <2>1 DEF KernelStates
  <2>3. QED BY <2>2 DEF r
<1>7. ASSUME NEW x \in KernelStates, NEW u \in Slots PROVE [x EXCEPT !.pos = u] \in KernelStates
  BY DEF KernelStates
<1>8. CASE ~mmapped /\ Len(k.queue) < BlockCap
  <2> DEFINE q == Append(k.queue, p)
             g == IF hd.mode = "nfqueue" THEN c.held \cup {p.id} ELSE c.held
  <2>1. q \in Bounded  BY <1>8, BoundedAppend DEF KernelStates
  <2>2. p.id \in Nat  BY DEF Packets
  <2>3. g \in SUBSET Nat  BY <1>3, <2>2 DEF KernelStates
  <2>4. Stored(k, p) = [c EXCEPT !.queue = Append(@, p),
                                 !.held = IF hd.mode = "nfqueue" THEN @ \cup {p.id} ELSE @]
    BY <1>8 DEF Stored, mmapped
  <2>5. Stored(k, p) = [c EXCEPT !.queue = q, !.held = g]  BY <1>3, <2>4
  <2> HIDE DEF q, g, c
  <2>6. QED BY <1>3, <2>1, <2>3, <2>5, Zenon DEF KernelStates
<1>9. CASE mmapped /\ hd.mode # "v3" /\ ~b.user
  <2> DEFINE y == [c EXCEPT !.ring[s] = one]
  <2>1. Stored(k, p) = [y EXCEPT !.pos = t]  BY <1>9 DEF Stored, mmapped
  <2> HIDE DEF c, one, s, t
  <2>2. y \in KernelStates  BY <1>1, <1>3, <1>4, <1>6
  <2> HIDE DEF y
  <2>3. QED BY <1>1, <1>7, <2>1, <2>2
<1>10. CASE hd.mode = "v3" /\ ~b.user /\ ~full
  <2> DEFINE w == [b EXCEPT !.pkts = Append(@, p)]
  <2>1. Append(b.pkts, p) \in Bounded
    BY <1>2, <1>10, BoundedAppend, CaptureAssumption DEF Bounded
  <2>2. w \in [user : BOOLEAN, pkts : Bounded]  BY <1>2, <2>1
  <2>3. Stored(k, p) = [c EXCEPT !.ring[s] = w]
    BY <1>3, <1>10 DEF Stored, mmapped
  <2> HIDE DEF c, w, s
  <2>4. QED BY <1>1, <1>3, <1>6, <2>2, <2>3
<1>11. CASE hd.mode = "v3" /\ ~b.user /\ full
  <2> DEFINE w == [b EXCEPT !.user = TRUE]
             y == [c EXCEPT !.ring[s] = w]
             closed == [c EXCEPT !.ring[s].user = TRUE, !.pos = t]
  <2>1. w \in [user : BOOLEAN, pkts : Bounded]  BY <1>2
  <2>2. closed = [y EXCEPT !.pos = t]  BY <1>3
  <2>3. closed \in KernelStates
    <3> HIDE DEF c, w, s, t, closed
    <3>1. y \in KernelStates  BY <1>1, <1>3, <1>6, <2>1
    <3> HIDE DEF y
    <3>2. QED BY <1>1, <1>7, <2>2, <3>1
  <2>4. CASE ~k.ring[t].user /\ s # t
    <3> DEFINE v == [closed.ring[t] EXCEPT !.pkts = <<p>>]
    <3>1. Stored(k, p) = [closed EXCEPT !.ring[t].pkts = <<p>>]
      BY <1>11, <2>4 DEF Stored, mmapped
    <3> HIDE DEF closed, t
    <3>2. Stored(k, p) = [closed EXCEPT !.ring[t] = v]  BY <3>1
    <3>3. v \in [user : BOOLEAN, pkts : Bounded]  BY <1>1, <2>3, BoundedOne DEF KernelStates, Ring
    <3> HIDE DEF v
    <3>4. QED BY <1>1, <1>6, <2>3, <3>2, <3>3
  <2>5. CASE ~(~k.ring[t].user /\ s # t)
    <3>1. Stored(k, p) = [closed EXCEPT !.drops = @ + 1]  BY <1>11, <2>5 DEF Stored, mmapped
    <3> HIDE DEF closed
    <3>2. QED BY <2>3, <3>1 DEF KernelStates
  <2>6. QED BY <2>4, <2>5
<1>12. CASE IF mmapped THEN b.user ELSE ~(Len(k.queue) < BlockCap)
  <2>1. Stored(k, p) = Dropped(k)  BY <1>12 DEF Stored, mmapped
  <2>2. QED BY <1>5, <2>1
<1>13. QED BY <1>8, <1>9, <1>10, <1>11, <1>12 DEF mmapped

-----------------------------------------------------------------------------
(* The calls *)

\* where a read operation starts
Starts == {"recv", "wait", "block", "read"}

LEMMA ReadingType ==
    ASSUME TypeOK, NEW c \in CallStates, NEW m \in Int
    PROVE  /\ Reading(c, m) \in CallStates
           /\ Reading(c, m).at \in Starts /\ Reading(c, m).pkts = 0 /\ Reading(c, m).max = m
           /\ Reading(c, m).cnt = c.cnt /\ Reading(c, m).given = c.given
           /\ Reading(c, m).nflush = 0 /\ Reading(c, m).op = c.op
           /\ Reading(c, m).at = "recv" => hd.mode = "sock"
           /\ Reading(c, m).at = "wait" => mmapped
           /\ Reading(c, m).at = "block" => hd.mode = "v3"
           /\ Reading(c, m).at = "read" => Device
<1> DEFINE w == CASE Device -> "read" [] hd.mode = "sock" -> "recv"
                  [] hd.mode = "v3" /\ h.current # 0 -> "block" [] OTHER -> "wait"
<1>1. /\ w \in Starts /\ (w = "recv" => hd.mode = "sock") /\ (w = "wait" => mmapped)
      /\ (w = "block" => hd.mode = "v3") /\ (w = "read" => Device)
  BY HandleType DEF Starts, Device, mmapped, Modes
<1>2. Reading(c, m) = [c EXCEPT !.max = m, !.pkts = 0, !.nflush = 0, !.at = w]
  BY DEF Reading
<1> HIDE DEF w
<1>3. w \in {"idle"} \cup Reads \cup Sets  BY <1>1 DEF Starts, Reads
<1>4. Reading(c, m) \in CallStates  BY <1>2, <1>3, 0 \in Nat, Zenon DEF CallStates
<1>5. QED BY <1>1, <1>2, <1>4 DEF CallStates

\* a read operation that returns ends the call, or pcap_loop() starts the next one
LEMMA ReturnType ==
    ASSUME TypeOK, NEW n \in Int, NEW g \in Nat, Return(n, g)
    PROVE  /\ call' \in CallStates /\ call'.at \in Starts \cup {"idle"}
           /\ call'.given = call.given + g /\ call'.cnt = call.cnt /\ call'.nflush = 0
           /\ call'.at # "idle" =>
                /\ call'.pkts = 0 /\ n >= 0
                /\ call.max > 0 => call'.max = call.max - n /\ (n > 0 => call'.max > 0)
           /\ call'.at = "recv" => hd.mode = "sock"
           /\ call'.at = "wait" => mmapped
           /\ call'.at = "block" => hd.mode = "v3"
           /\ call'.at = "read" => Device
<1> DEFINE c == [call EXCEPT !.given = @ + g]
           m == IF Unlimited(call.max) THEN call.max ELSE call.max - n
           ends == [Idle EXCEPT !.cnt = c.cnt, !.given = c.given]
           ending == call.op # "loop" \/ n < 0 \/ (n > 0 /\ ~Unlimited(call.max) /\ m <= 0)
<1>1. c \in CallStates /\ c.given = call.given + g /\ c.cnt = call.cnt
  BY DEF TypeOK, CallStates
<1>2. m \in Int /\ call.max \in Int  BY DEF TypeOK, CallStates, Unlimited
<1>3. call' = IF ending THEN ends ELSE Reading(c, m)  BY DEF Return
<1>4. /\ ends \in CallStates /\ ends.at = "idle" /\ ends.given = c.given
      /\ ends.cnt = c.cnt /\ ends.nflush = 0
  <2> HIDE DEF c
  <2>1. c.given \in Nat /\ c.cnt \in Int  BY <1>1 DEF CallStates
  <2>2. QED BY <2>1, IdleType DEF CallStates, Idle
<1>5. CASE ending  BY <1>1, <1>3, <1>4, <1>5
<1>6. CASE ~ending
  <2>1. call' = Reading(c, m)  BY <1>3, <1>6
  <2>2. n >= 0 /\ (call.max > 0 => m = call.max - n /\ (n > 0 => m > 0))
    BY <1>2, <1>6 DEF Unlimited
  <2> HIDE DEF c, m
  <2>3. QED BY <1>1, <1>2, <2>1, <2>2, ReadingType
<1>7. QED BY <1>5, <1>6

LEMMA AtType ==
    ASSUME TypeOK, NEW a \in {"idle"} \cup Reads \cup Sets, At(a)
    PROVE  /\ call' \in CallStates /\ call'.at = a /\ call'.given = call.given
           /\ call'.cnt = call.cnt /\ call'.max = call.max /\ call'.pkts = call.pkts
           /\ call'.todo = call.todo
BY DEF At, TypeOK, CallStates

LEMMA CountedType ==
    ASSUME NEW x \in HandleStates
    PROVE  /\ Counted(x) \in HandleStates /\ Counted(x).break_loop = x.break_loop
           /\ Counted(x).since = (IF x.break_loop THEN x.since + 1 ELSE 0)
           /\ Counted(x).left = x.left /\ Counted(x).buffer = x.buffer /\ Counted(x).lost = x.lost
           /\ Counted(x).current = x.current /\ Counted(x).offset = x.offset
<1>1. x.packets_read + 1 \in Nat /\ (IF x.break_loop THEN x.since + 1 ELSE 0) \in Nat
  BY DEF HandleStates
<1>2. Counted(x) \in HandleStates  BY <1>1, Zenon DEF Counted, HandleStates
<1>3. QED BY <1>2 DEF Counted, HandleStates

LEMMA ResetType ==
    ASSUME NEW x \in HandleStates
    PROVE  /\ Reset(x) \in HandleStates /\ Reset(x).break_loop = FALSE /\ Reset(x).since = 0
           /\ Reset(x).left = x.left /\ Reset(x).buffer = x.buffer /\ Reset(x).lost = x.lost
           /\ Reset(x).current = x.current /\ Reset(x).offset = x.offset
<1>1. Reset(x) \in HandleStates  BY 0 \in Nat, FALSE \in BOOLEAN, Zenon DEF Reset, HandleStates
<1>2. QED BY <1>1 DEF Reset, HandleStates

LEMMA ReleasedType ==
    ASSUME NEW x \in HandleStates
    PROVE  /\ Released(x) \in HandleStates /\ Released(x).break_loop = x.break_loop
           /\ Released(x).since = x.since /\ Released(x).left = x.left
           /\ Released(x).buffer = x.buffer
<1>1. /\ (x.offset + 1) % Frames \in Slots
      /\ (IF x.countdown > 0 THEN x.countdown - 1 ELSE 0) \in Nat
      /\ (IF x.countdown = 1 THEN FALSE ELSE x.userland) \in BOOLEAN
  <2>1. x.offset \in Slots /\ x.countdown \in Nat /\ x.userland \in BOOLEAN  BY DEF HandleStates
  <2>2. (x.offset + 1) % Frames \in Slots  BY <2>1, NextSlot
  <2>3. (IF x.countdown > 0 THEN x.countdown - 1 ELSE 0) \in Nat  BY <2>1
  <2>4. (IF x.countdown = 1 THEN FALSE ELSE x.userland) \in BOOLEAN  BY <2>1, Zenon
  <2>5. QED BY <2>2, <2>3, <2>4, Zenon
<1>2. Released(x) \in HandleStates  BY <1>1, 0 \in Nat, Zenon DEF Released, HandleStates
<1>3. QED BY <1>2 DEF Released, HandleStates

LEMMA LostType ==
    ASSUME NEW x \in HandleStates, NEW ps \in SUBSET Nat
    PROVE  /\ Lost(x, ps) \in HandleStates /\ Lost(x, ps).buffer = <<>>
           /\ Lost(x, ps).since = x.since /\ Lost(x, ps).break_loop = x.break_loop
           /\ Lost(x, ps).lost = IF hd.mode = "nfqueue" THEN x.lost \cup ps ELSE x.lost
<1> DEFINE l == IF hd.mode = "nfqueue" THEN x.lost \cup ps ELSE x.lost
<1>1. l \in SUBSET Nat  BY DEF HandleStates
<1>2. Lost(x, ps) = [x EXCEPT !.buffer = <<>>, !.lost = l]  BY DEF Lost
<1> HIDE DEF l
<1>3. Lost(x, ps) \in HandleStates  BY <1>1, <1>2, EmptyType, Zenon DEF HandleStates
<1>4. Lost(x, ps).lost = l  BY <1>2, <1>3 DEF HandleStates
<1>5. QED BY <1>2, <1>3, <1>4 DEF HandleStates, l

\* the packets of a datagram that a break throws away
LEMMA ReadLost ==
    ASSUME TypeOK, NEW n \in Datagrams
    PROVE  /\ n \in 0 .. Len(kern.queue)
           /\ {p.id : p \in Range(Taken(n))} \in SUBSET Nat
           /\ Lost(h, {p.id : p \in Range(Taken(n))}) \in HandleStates
<1>1. kern.queue \in Bounded /\ Len(kern.queue) \in Nat  BY DEF TypeOK, KernelStates, Bounded
<1>2. n \in 0 .. Len(kern.queue)  BY <1>1 DEF Datagrams, Minimum
<1>3. Taken(n) \in Seq(Packets)  BY <1>1, <1>2, BoundedSub DEF Taken, Bounded
<1>4. Range(Taken(n)) \subseteq Packets  BY <1>3, RangeOfSeq
<1>5. {p.id : p \in Range(Taken(n))} \in SUBSET Nat  BY <1>4 DEF Packets
<1>6. QED BY <1>2, <1>5, LostType DEF TypeOK

LEMMA GivenBackType == ASSUME TypeOK PROVE GivenBack(kern) \in KernelStates
<1> DEFINE b == [user |-> FALSE, pkts |-> <<>>]
           r == [kern.ring EXCEPT ![h.offset] = b]
<1>1. b \in [user : BOOLEAN, pkts : Bounded]  BY EmptyType
<1> HIDE DEF b
<1>2. r \in Ring  BY <1>1 DEF TypeOK, KernelStates, Ring
<1>3. GivenBack(kern) = [kern EXCEPT !.ring = r]  BY DEF GivenBack, b
<1> HIDE DEF r
<1>4. QED BY <1>2, <1>3 DEF TypeOK, KernelStates

LEMMA ReceivedType ==
    ASSUME TypeOK, NEW t \in hd.traffic
    PROVE  /\ Received(t) \in KernelStates /\ Arrived \in KernelStates
           /\ Filtered(Numbered(t), kern.filter) \in Packets
<1>1. t \in Packets  BY HandleType
<1>2. kern.next \in Nat /\ kern.filter \in Filters  BY DEF TypeOK, KernelStates
<1>3. Filtered(Numbered(t), kern.filter) \in Packets  BY <1>1, <1>2, FilteredType DEF Numbered
<1>4. Arrived \in KernelStates  BY DEF Arrived, TypeOK, KernelStates
<1>5. QED BY <1>3, <1>4, StoredType DEF Received

\* a queue of which the first n packets are taken
LEMMA LeftType ==
    ASSUME TypeOK, NEW n \in 0 .. Len(kern.queue)
    PROVE  /\ Left(n) \in KernelStates /\ Taken(n) \in Bounded /\ Len(Taken(n)) = n
           /\ Len(kern.queue) \in Nat
<1>1. kern.queue \in Bounded /\ Len(kern.queue) \in Nat  BY DEF TypeOK, KernelStates, Bounded
<1>2. SubSeq(kern.queue, n + 1, Len(kern.queue)) \in Bounded  BY <1>1, BoundedSub
<1>3. Taken(n) \in Bounded /\ Len(Taken(n)) = n  BY <1>1, BoundedSub DEF Taken
<1>4. Left(n) \in KernelStates  BY <1>2 DEF Left, TypeOK, KernelStates
<1>5. QED BY <1>1, <1>3, <1>4

\* the events that MON_IOCX_MFETCH frees, and how many it asks for
LEMMA FlushedType == ASSUME TypeOK PROVE Flushed \in KernelStates
<1>1. Len(kern.queue) \in Nat /\ call.nflush \in Nat
  BY DEF TypeOK, KernelStates, CallStates, Bounded
<1>2. Minimum(call.nflush, Len(kern.queue)) \in 0 .. Len(kern.queue)  BY <1>1 DEF Minimum
<1>3. QED BY <1>2, LeftType DEF Flushed

LEMMA LimitType ==
    ASSUME TypeOK
    PROVE  /\ Minimum(Limit, Len(Flushed.queue)) \in Nat
           /\ Minimum(Limit, Len(Flushed.queue)) <= VEC_SIZE
<1>1. Len(Flushed.queue) \in Nat  BY FlushedType DEF KernelStates, Bounded
<1>2. call.max \in Int /\ call.pkts \in Nat  BY DEF TypeOK, CallStates
<1>3. Limit \in Nat /\ Limit <= VEC_SIZE  BY <1>2, CaptureAssumption DEF Limit
<1>4. QED BY <1>1, <1>3, CaptureAssumption DEF Minimum

-----------------------------------------------------------------------------
(* Counts and breaks *)

\* which operation a place of a call belongs to, and what it has at hand there
Phase ==
    /\ call.at \in {"recv", "recvmsg"} => hd.mode = "sock"
    /\ call.at \in {"wait", "poll"} => mmapped
    /\ call.at = "frame" => hd.mode \in {"v1", "v2"}
    /\ call.at \in {"block", "batch"} => hd.mode = "v3"
    /\ call.at \in {"read", "event"} => Device
    /\ call.at \in Sets => call.cnt = 0
    /\ call.at = "event" /\ ~netfilter /\ hd.mode # "mapped" => Len(h.buffer) = 1

\* the messages of a datagram
Burst == IF hd.mode = "nflog" THEN BlockCap ELSE 1

\* A call that reads knows what is left of its count: max is cnt without what earlier turns of
\* pcap_loop() have shown, pkts what this turn has, and a batch goes beyond it by less than max.
Counting ==
    /\ Len(h.buffer) <= Burst
    /\ call.cnt > 0 /\ hd.mode # "mapped" /\ call.at \in Reads =>
         /\ call.max \in 1 .. call.cnt /\ call.given = call.cnt - call.max + call.pkts
         /\ call.at \in {"recv", "recvmsg", "wait", "poll", "read"} => call.pkts = 0
         /\ call.at = "frame" => call.pkts <= call.max
         /\ call.at = "block" => call.pkts <= 2 * call.max - 1
         /\ call.at = "batch" => call.pkts + call.todo <= 2 * call.max - 1
         /\ call.at = "event" => call.pkts + Len(h.buffer) <= Burst /\ (~netfilter => call.pkts = 0)

\* what was shown since the break and what is still to come before the flag is looked at
Prompt ==
    /\ ~h.break_loop => h.since = 0
    /\ hd.mode \in {"v1", "v2"} => h.since = 0
    /\ hd.mode = "sock" => h.since <= 1 /\ (call.at = "recvmsg" => h.since = 0)
    /\ hd.mode = "v3" => IF call.at = "batch" THEN h.since + call.todo <= BlockCap ELSE h.since = 0
    /\ Device /\ hd.mode # "mapped" =>
         h.since <= Burst /\ (call.at = "event" => h.since + Len(h.buffer) <= Burst)
    /\ hd.mode = "mapped" =>
         h.since <= VEC_SIZE /\ (call.at = "event" => h.since + call.todo <= VEC_SIZE)

StopInv == TypeOK /\ Phase /\ Counting /\ Prompt /\ CountIsBound

-----------------------------------------------------------------------------
(* Every step keeps the types *)

LEMMA BreakType ==
    ASSUME TypeOK, Break
    PROVE  /\ h' \in HandleStates /\ h'.since = 0 /\ h'.break_loop = FALSE
           /\ h'.buffer = h.buffer /\ h'.left = h.left
           /\ call' \in CallStates /\ call'.at = "idle"
           /\ call'.given = call.given /\ call'.cnt = call.cnt
<1>1. h \in HandleStates /\ h' = Reset(h) /\ Return(-2, 0)  BY DEF Break, TypeOK
<1>2. call.given \in Nat  BY DEF TypeOK, CallStates
<1>3. /\ call' \in CallStates /\ call'.at = "idle"
      /\ call'.given = call.given + 0 /\ call'.cnt = call.cnt
  BY <1>1, ReturnType
<1>4. call'.given = call.given  BY <1>2, <1>3
<1>5. QED BY <1>1, <1>3, <1>4, ResetType, Zenon

LEMMA ReadsType ==
    ASSUME TypeOK, Reader \/ pcap_breakloop
    PROVE  TypeOK'
<1>0. /\ hd \in Handles /\ h \in HandleStates /\ call \in CallStates /\ kern \in KernelStates
      /\ \A a \in Starts \cup {"idle", "poll", "recvmsg", "frame", "event"} :
           a # "batch" /\ a \in {"idle"} \cup Reads \cup Sets
  BY DEF TypeOK, Starts, Reads
<1>1. CASE Recv
  <2>1. CASE Break /\ UNCHANGED <<hd, kern>>  BY <1>0, <2>1, BreakType DEF TypeOK
  <2>2. CASE At("recvmsg") /\ UNCHANGED <<hd, h, kern>>  BY <1>0, <2>2, AtType DEF TypeOK
  <2>3. QED BY <1>1, <2>1, <2>2 DEF Recv, At
<1>2. CASE Recvmsg
  <2>1. ASSUME NEW n \in {-1, 0, 1}, NEW g \in {0, 1}, Return(n, g),
               h' = h \/ h' = Counted(h), kern' \in KernelStates, UNCHANGED hd
        PROVE  TypeOK'
    BY <1>0, <2>1, ReturnType, CountedType DEF TypeOK
  <2>2. kern.queue # <<>> => [kern EXCEPT !.queue = Tail(@)] \in KernelStates
    BY <1>0, BoundedTail DEF KernelStates
  <2>3. CASE kern.queue # <<>> /\ kern' = [kern EXCEPT !.queue = Tail(@)]
             /\ \E n \in {0, 1} : Return(n, n) /\ (h' = h \/ h' = Counted(h))
    BY <1>2, <2>1, <2>2, <2>3 DEF Recvmsg
  <2>4. CASE kern.queue # <<>> /\ kern' = [kern EXCEPT !.queue = Tail(@)] /\ Return(-1, 0) /\ h' = h
    BY <1>2, <2>1, <2>2, <2>4 DEF Recvmsg
  <2>5. CASE UNCHANGED <<h, kern>> /\ \E n \in {-1, 0} : Return(n, 0)
    BY <1>0, <1>2, <2>1, <2>5 DEF Recvmsg
  <2>6. CASE At("recv") /\ UNCHANGED <<hd, h, kern>>  BY <1>0, <2>6, AtType DEF TypeOK, Starts
  <2>7. QED BY <1>2, <2>3, <2>4, <2>5, <2>6 DEF Recvmsg, At
<1>3. CASE Wait
  <2>1. PICK a \in {"block", "frame", "poll"} : At(a)  BY <1>3 DEF Wait, Ready
  <2>2. QED BY <1>0, <1>3, <2>1, AtType DEF Wait, TypeOK, Starts
<1>4. CASE Poll
  <2>1. CASE Break  BY <1>0, <1>4, <2>1, BreakType DEF Poll, TypeOK
  <2>2. ASSUME NEW a \in {"block", "frame", "poll"}, At(a), UNCHANGED h PROVE TypeOK'
    BY <1>0, <1>4, <2>2, AtType DEF Poll, TypeOK, Starts
  <2>3. CASE Return(-1, 0) /\ UNCHANGED h
    BY <1>0, <1>4, <2>3, ReturnType DEF Poll, TypeOK
  <2>4. QED BY <1>4, <2>1, <2>2, <2>3 DEF Poll, AfterPoll, Ready
<1>5. CASE Frame
  <2>1. ASSUME NEW n \in Int, Return(n, 0), UNCHANGED <<h, kern>> PROVE TypeOK'
    BY <1>0, <1>5, <2>1, ReturnType DEF Frame, TypeOK
  <2>2. call.pkts \in Int  BY <1>0 DEF CallStates
  <2>3. ASSUME NEW n \in {0, 1}, NEW x \in HandleStates,
               kern' = GivenBack(kern),
               \/ Return(-2, n) /\ h' = Reset(Released(x))
               \/ call' = [call EXCEPT !.pkts = @ + n, !.given = @ + n] /\ h' = Released(x)
        PROVE  TypeOK'
    <3>1. Released(x) \in HandleStates /\ Reset(Released(x)) \in HandleStates
      BY ReleasedType, ResetType
    <3>2. kern' \in KernelStates  BY <2>3, GivenBackType
    <3>3. CASE Return(-2, n) /\ h' = Reset(Released(x))
      BY <1>0, <1>5, <3>1, <3>2, <3>3, ReturnType DEF Frame, TypeOK
    <3>4. CASE call' = [call EXCEPT !.pkts = @ + n, !.given = @ + n] /\ h' = Released(x)
      <4>1. call.pkts + n \in Nat /\ call.given + n \in Nat  BY <1>0 DEF CallStates
      <4>2. call' \in CallStates  BY <1>0, <3>4, <4>1, Zenon DEF CallStates
      <4>3. call'.at = call.at  BY <1>0, <3>4 DEF CallStates
      <4>4. QED BY <1>0, <1>5, <3>1, <3>2, <3>4, <4>2, <4>3 DEF Frame, TypeOK
    <3>5. QED BY <2>3, <3>3, <3>4
  <2>4. CASE UNCHANGED <<h, kern>> /\ (Return(call.pkts, 0) \/ Return(-1, 0))
    BY <2>1, <2>2, <2>4
  <2>5. CASE ~UNCHANGED <<h, kern>> \/ ~(Return(call.pkts, 0) \/ Return(-1, 0))
    <3> DEFINE p == kern.ring[h.offset].pkts[1]
               y == IF Shown(p) THEN Counted(h) ELSE h
    <3>1. y \in HandleStates  BY <1>0, CountedType
    <3>2. /\ kern' = GivenBack(kern)
          /\ \E n \in {0, 1} :
               \/ Return(-2, n) /\ h' = Reset(Released(y))
               \/ call' = [call EXCEPT !.pkts = @ + n, !.given = @ + n] /\ h' = Released(y)
      BY <1>5, <2>5 DEF Frame
    <3> HIDE DEF y
    <3>3. QED BY <2>3, <3>1, <3>2
  <2>6. QED BY <2>4, <2>5
<1>6. CASE Block
  <2>1. ASSUME NEW n \in Int, Return(n, 0), UNCHANGED <<h, kern>> PROVE TypeOK'
    BY <1>0, <1>6, <2>1, ReturnType DEF Block, TypeOK
  <2>2. call.pkts \in Int /\ call.max \in Int  BY <1>0 DEF CallStates
  <2>3. CASE ~UserFrame /\ Ended /\ UNCHANGED h
    <3>1. CASE Return(call.pkts, 0)  BY <1>6, <2>1, <2>2, <2>3, <3>1 DEF Block
    <3>2. ASSUME NEW a \in {"wait", "block"}, At(a) PROVE TypeOK'
      BY <1>0, <1>6, <2>3, <3>2, AtType DEF Block, TypeOK, Starts
    <3>3. QED BY <2>3, <3>1, <3>2 DEF Ended, At
  <2>4. CASE UserFrame /\ ~MayRead /\ Return(call.pkts, 0) /\ UNCHANGED h
    BY <1>6, <2>1, <2>2, <2>4 DEF Block
  <2>5. CASE UserFrame /\ MayRead
    <3> DEFINE left == IF h.current = 0 THEN Len(kern.ring[h.offset].pkts) ELSE h.left
               todo == IF Unlimited(call.max) THEN left ELSE Minimum(left, call.max)
               cur == IF h.current = 0 THEN 1 ELSE h.current
    <3>1. left \in 0 .. BlockCap /\ todo \in Nat /\ todo <= left /\ cur \in Nat
      <4>1. kern.ring[h.offset].pkts \in Bounded  BY <1>0 DEF KernelStates, HandleStates, Ring
      <4>2. Len(kern.ring[h.offset].pkts) \in 0 .. BlockCap  BY <4>1, CaptureAssumption DEF Bounded
      <4>3. left \in 0 .. BlockCap /\ cur \in Nat  BY <1>0, <4>2 DEF HandleStates
      <4> HIDE DEF left
      <4>4. QED BY <2>2, <4>3, CaptureAssumption DEF Unlimited, Minimum
    <3>2. /\ h' = [h EXCEPT !.current = cur, !.left = left]
          /\ call' = [call EXCEPT !.at = "batch", !.todo = todo] /\ UNCHANGED <<hd, kern>>
      BY <1>6, <2>5 DEF Block, Ended
    <3> HIDE DEF left, todo, cur
    <3>3. h' \in HandleStates /\ h'.left = left
      <4>1. h' \in HandleStates  BY <1>0, <3>1, <3>2, Zenon DEF HandleStates
      <4>2. QED BY <1>0, <3>2, <4>1 DEF HandleStates
    <3>4. call' \in CallStates /\ call'.todo = todo
      BY <1>0, <3>1, <3>2 DEF CallStates, Reads
    <3>5. QED BY <1>0, <3>1, <3>2, <3>3, <3>4 DEF TypeOK
  <2>6. QED BY <1>6, <2>3, <2>4, <2>5 DEF Block
<1>7. CASE BlockPacket
  <2> DEFINE p == kern.ring[h.offset].pkts[h.current]
             n == IF Shown(p) THEN 1 ELSE 0
             y == IF Shown(p) THEN Counted(h) ELSE h
  <2>1. CASE p.bad
    <3>1. /\ Return(-1, 0) /\ h' = [h EXCEPT !.current = 0, !.since = 0]
          /\ UNCHANGED <<hd, kern>>
      BY <1>7, <2>1 DEF BlockPacket
    <3>2. h' \in HandleStates  BY <1>0, <3>1, 0 \in Nat, Zenon DEF HandleStates
    <3>3. call' \in CallStates /\ call'.at # "batch"  BY <1>0, <3>1, ReturnType
    <3>4. QED BY <1>0, <3>1, <3>2, <3>3 DEF TypeOK
  <2>2. CASE ~p.bad
    <3>1. n \in {0, 1} /\ y \in HandleStates /\ y.left = h.left  BY <1>0, CountedType
    <3>2. /\ call' = [call EXCEPT !.todo = @ - 1, !.pkts = @ + n, !.given = @ + n]
          /\ h' = [y EXCEPT !.current = @ + 1, !.left = @ - 1] /\ UNCHANGED <<hd, kern>>
          /\ call.at = "batch" /\ call.todo > 0
      BY <1>7, <2>2 DEF BlockPacket
    <3> HIDE DEF n, y
    <3>3. call.todo \in Nat /\ call.todo <= h.left /\ h.left \in 0 .. BlockCap
      BY <1>0, <3>2 DEF TypeOK, CallStates, HandleStates
    <3>4. call.todo - 1 \in Nat /\ call.pkts + n \in Nat /\ call.given + n \in Nat
          /\ y.current + 1 \in Nat /\ y.left - 1 \in 0 .. BlockCap
      BY <1>0, <3>1, <3>2, <3>3, CaptureAssumption DEF CallStates, HandleStates
    <3>5. call' \in CallStates  BY <1>0, <3>2, <3>4, Zenon DEF CallStates
    <3>6. h' \in HandleStates  BY <3>1, <3>2, <3>4, Zenon DEF HandleStates
    <3>7. h'.left = h.left - 1 /\ call'.todo = call.todo - 1
      BY <1>0, <3>1, <3>2 DEF CallStates, HandleStates
    <3>8. QED BY <1>0, <3>2, <3>3, <3>5, <3>6, <3>7, CaptureAssumption DEF TypeOK
  <2>3. QED BY <2>1, <2>2
<1>8. CASE BlockDone
  <2> DEFINE x == IF h.left <= 0 THEN Released(h) ELSE h
  <2>1. x \in HandleStates  BY <1>0, ReleasedType
  <2>2. kern' \in KernelStates  BY <1>0, <1>8, GivenBackType DEF BlockDone
  <2>3. (Return(-2, 0) /\ h' = Reset(x)) \/ (At("block") /\ h' = x)
    BY <1>8 DEF BlockDone
  <2> HIDE DEF x
  <2>4. CASE Return(-2, 0) /\ h' = Reset(x)
    <3>1. call' \in CallStates /\ call'.at # "batch"  BY <1>0, <2>4, ReturnType
    <3>2. h' \in HandleStates  BY <2>1, <2>4, ResetType
    <3>3. QED BY <1>0, <1>8, <2>2, <3>1, <3>2 DEF BlockDone, TypeOK
  <2>5. CASE At("block") /\ h' = x
    BY <1>0, <1>8, <2>1, <2>2, <2>5, AtType DEF BlockDone, TypeOK, Starts
  <2>6. QED BY <2>3, <2>4, <2>5
<1>9. CASE Read
  <2>1. ASSUME NEW n \in Datagrams, kern' = Left(n), UNCHANGED hd,
               \/ Return(-2, 0) /\ h' = Reset(Lost(h, {p.id : p \in Range(Taken(n))}))
               \/ At("event") /\ h' = [h EXCEPT !.buffer = Taken(n)]
        PROVE  TypeOK'
    <3>1. n \in 0 .. Len(kern.queue)  BY ReadLost
    <3>2. kern' \in KernelStates /\ Taken(n) \in Bounded  BY <2>1, <3>1, LeftType
    <3>3. CASE Return(-2, 0) /\ h' = Reset(Lost(h, {p.id : p \in Range(Taken(n))}))
      <4>3. Lost(h, {p.id : p \in Range(Taken(n))}) \in HandleStates  BY ReadLost
      <4>4. h' \in HandleStates  BY <3>3, <4>3, ResetType
      <4>5. call' \in CallStates /\ call'.at # "batch"  BY <1>0, <3>3, ReturnType
      <4>6. QED BY <1>0, <2>1, <3>2, <4>4, <4>5 DEF TypeOK
    <3>4. CASE At("event") /\ h' = [h EXCEPT !.buffer = Taken(n)]
      <4>1. h' \in HandleStates  BY <1>0, <3>2, <3>4 DEF HandleStates
      <4>2. QED BY <1>0, <2>1, <3>2, <3>4, <4>1, AtType DEF TypeOK
    <3>5. QED BY <2>1, <3>3, <3>4
  <2>2. CASE Break /\ UNCHANGED <<hd, kern>>  BY <1>0, <2>2, BreakType DEF TypeOK
  <2>3. ASSUME NEW n \in {-1, 0}, Return(n, 0), UNCHANGED <<hd, h, kern>> PROVE TypeOK'
    BY <1>0, <2>3, ReturnType DEF TypeOK
  <2>4. CASE At("read") /\ UNCHANGED <<hd, h, kern>>  BY <1>0, <2>4, AtType DEF TypeOK, Starts
  <2>5. QED BY <1>9, <2>1, <2>2, <2>3, <2>4 DEF Read, AfterPoll
<1>10. ASSUME Handed \/ Unread, UNCHANGED <<hd, kern>> PROVE TypeOK'
  <2> DEFINE x == [h EXCEPT !.buffer = <<>>]
  <2>1. x \in HandleStates  BY <1>0, EmptyType DEF HandleStates
  <2>2. h' = x \/ h' = Counted(x)  BY <1>10 DEF Handed, Unread
  <2>3. \E n \in {-1, 0, 1}, g \in {0, 1} : Return(n, g)  BY <1>10 DEF Handed, Unread
  <2> HIDE DEF x
  <2>4. call' \in CallStates /\ call'.at # "batch"  BY <1>0, <2>3, ReturnType
  <2>5. h' \in HandleStates  BY <2>1, <2>2, CountedType
  <2>6. QED BY <1>0, <1>10, <2>4, <2>5 DEF TypeOK
<1>11. CASE usb_read_linux  BY <1>10, <1>11 DEF usb_read_linux
<1>12. CASE usb_read_linux_bin  BY <1>10, <1>12 DEF usb_read_linux_bin
<1>13. CASE can_read_linux  BY <1>10, <1>13 DEF can_read_linux
<1>14. CASE Message
  <2> DEFINE p == Head(h.buffer)
             n == IF DeviceShows(p) THEN 1 ELSE 0
             x == [h EXCEPT !.buffer = Tail(@)]
             y == IF DeviceShows(p) THEN Counted(x) ELSE x
  <2>1. h.buffer # <<>> /\ h.buffer \in Bounded  BY <1>0, <1>14 DEF Message, HandleStates
  <2>2. Tail(h.buffer) \in Bounded /\ p.id \in Nat  BY <2>1, BoundedTail DEF Packets
  <2>3. x \in HandleStates  BY <1>0, <2>2 DEF HandleStates
  <2>4. n \in {0, 1} /\ y \in HandleStates  BY <2>3, CountedType
  <2>5. \/ /\ call' = [call EXCEPT !.pkts = @ + n, !.given = @ + n]
           /\ \/ h' = y /\ kern' = Verdict(kern, p)
              \/ h' = [y EXCEPT !.lost = @ \cup {p.id}] /\ UNCHANGED kern
        \/ Return(-1, 0) /\ h' = Lost(h, {q.id : q \in Range(h.buffer)}) /\ UNCHANGED kern
    BY <1>14 DEF Message
  <2> HIDE DEF p, n, x, y
  <2>6. CASE /\ call' = [call EXCEPT !.pkts = @ + n, !.given = @ + n]
             /\ \/ h' = y /\ kern' = Verdict(kern, p)
                \/ h' = [y EXCEPT !.lost = @ \cup {p.id}] /\ UNCHANGED kern
    <3>1. call.pkts + n \in Nat /\ call.given + n \in Nat  BY <1>0, <2>4 DEF CallStates
    <3>2. call' \in CallStates /\ call'.at = call.at
      <4>1. call' \in CallStates  BY <1>0, <2>6, <3>1, Zenon DEF CallStates
      <4>2. QED BY <1>0, <2>6, <4>1 DEF CallStates
    <3>3. h' \in HandleStates  BY <2>2, <2>4, <2>6 DEF HandleStates
    <3>4. kern' \in KernelStates  BY <1>0, <2>6 DEF KernelStates, Verdict
    <3>5. QED BY <1>0, <1>14, <3>2, <3>3, <3>4 DEF Message, TypeOK
  <2>7. CASE Return(-1, 0) /\ h' = Lost(h, {q.id : q \in Range(h.buffer)}) /\ UNCHANGED kern
    <3> DEFINE ps == {q.id : q \in Range(h.buffer)}
    <3>1. Range(h.buffer) \subseteq Packets  BY <2>1, RangeOfSeq DEF Bounded
    <3>2. ps \subseteq Nat  BY <3>1 DEF Packets
    <3>3. h' \in HandleStates  BY <1>0, <2>7, <3>2, LostType
    <3>4. call' \in CallStates /\ call'.at # "batch"  BY <1>0, <2>7, ReturnType
    <3>5. QED BY <1>0, <1>14, <2>7, <3>3, <3>4 DEF Message, TypeOK
  <2>8. QED BY <2>5, <2>6, <2>7
<1>15. CASE DatagramDone
  <2>1. call' \in CallStates /\ call'.at # "batch"
    BY <1>0, <1>15, ReturnType DEF DatagramDone, CallStates
  <2>2. QED BY <1>0, <1>15, <2>1 DEF DatagramDone, TypeOK
<1>16. CASE Fetch
  <2>1. kern' \in KernelStates  BY <1>16, FlushedType DEF Fetch
  <2>2. CASE Break  BY <1>0, <1>16, <2>1, <2>2, BreakType DEF Fetch, TypeOK
  <2>3. ASSUME NEW n \in {-1, 0}, Return(n, 0), UNCHANGED h PROVE TypeOK'
    <3>1. call' \in CallStates /\ call'.at # "batch"  BY <1>0, <2>3, ReturnType
    <3>2. QED BY <1>0, <1>16, <2>1, <2>3, <3>1 DEF Fetch, TypeOK
  <2>4. CASE At("read") /\ UNCHANGED h
    BY <1>0, <1>16, <2>1, <2>4, AtType DEF Fetch, TypeOK, Starts
  <2>5. ASSUME NEW n, n = Minimum(Limit, Len(Flushed.queue)), UNCHANGED h,
               call' = [call EXCEPT !.at = "event", !.nflush = n, !.todo = n]
        PROVE  TypeOK'
    <3>1. n \in Nat  BY <2>5, LimitType
    <3>2. call' \in CallStates  BY <1>0, <2>5, <3>1, Zenon DEF CallStates
    <3>3. call'.at = "event"  BY <1>0, <2>5 DEF CallStates
    <3>4. QED BY <1>0, <1>16, <2>1, <2>5, <3>2, <3>3 DEF Fetch, TypeOK
  <2>6. QED BY <1>16, <2>2, <2>3, <2>4, <2>5 DEF Fetch, AfterPoll
<1>17. CASE FetchedEvent
  <2> DEFINE p == kern.queue[call.nflush - call.todo + 1]
             n == IF DeviceShows(p) THEN 1 ELSE 0
  <2>1. n \in {0, 1}  OBVIOUS
  <2>2. /\ call' = [call EXCEPT !.todo = @ - 1, !.pkts = @ + n, !.given = @ + n]
        /\ h' = Counted(h) \/ h' = h
        /\ call.todo > 0 /\ call.at = "event" /\ UNCHANGED <<hd, kern>>
    BY <1>17 DEF FetchedEvent
  <2> HIDE DEF n
  <2>3. call.todo - 1 \in Nat /\ call.pkts + n \in Nat /\ call.given + n \in Nat
    BY <1>0, <2>1, <2>2 DEF CallStates
  <2>4. call' \in CallStates  BY <1>0, <2>2, <2>3, Zenon DEF CallStates
  <2>5. call'.at = call.at  BY <1>0, <2>2 DEF CallStates
  <2>6. QED BY <1>0, <2>2, <2>4, <2>5, CountedType DEF TypeOK
<1>18. CASE FetchDone
  <2>1. kern' \in KernelStates  BY <1>0, <1>18, FlushedType DEF FetchDone
  <2>2. CASE Return(call.pkts, 0)
    <3>1. call' \in CallStates /\ call'.at # "batch"  BY <1>0, <2>2, ReturnType DEF CallStates
    <3>2. QED BY <1>0, <1>18, <2>1, <3>1 DEF FetchDone, TypeOK
  <2>3. CASE At("read")  BY <1>0, <1>18, <2>1, <2>3, AtType DEF FetchDone, TypeOK, Starts
  <2>4. QED BY <1>18, <2>2, <2>3 DEF FetchDone
<1>19. CASE pcap_breakloop
  <2>1. h' = [h EXCEPT !.break_loop = TRUE, !.since = 0] /\ UNCHANGED <<hd, call, kern>>
    BY <1>19 DEF pcap_breakloop
  <2>2. h' \in HandleStates  BY <1>0, <2>1, 0 \in Nat, TRUE \in BOOLEAN, Zenon DEF HandleStates
  <2>3. h'.left = h.left  BY <1>0, <2>1 DEF HandleStates
  <2>4. QED BY <2>1, <2>2, <2>3 DEF TypeOK
<1>20. QED
  BY <1>1, <1>2, <1>3, <1>4, <1>5, <1>6, <1>7, <1>8, <1>9, <1>11, <1>12, <1>13, <1>14,
     <1>15, <1>16, <1>17, <1>18, <1>19 DEF Reader

LEMMA FixType == ASSUME NEW f \in Filters PROVE fix_program(f) \in Filters
<1> DEFINE k == IF hd.cooked THEN fix_offset(f.k) ELSE f.k
           r == IF mmapped \/ f.ret = 0 THEN f.ret ELSE MAXIMUM_SNAPLEN
<1>1. k \in Int /\ r \in Nat
  BY CaptureAssumption DEF Filters, fix_offset, SLL_HDR_LEN, SKF_AD_PKTTYPE, SKF_AD_PROTOCOL
<1>2. fix_program(f) = [f EXCEPT !.k = k, !.ret = r]  BY DEF fix_program
<1> HIDE DEF k, r
<1>3. QED BY <1>1, <1>2, Zenon DEF Filters

LEMMA FreeType == FreeBehind \in 0 .. Frames
<1> DEFINE free(n) == ~kern.ring[(h.offset - 1 - n + 2 * Frames) % Frames].user
           N == {n \in 1 .. Frames : \A i \in 1 .. n : free(i)}
<1>1. IsFiniteSet(1 .. Frames) /\ Cardinality(1 .. Frames) = Frames
  BY FS_Interval, CaptureAssumption
<1>2. N \subseteq 1 .. Frames  OBVIOUS
<1>3. FreeBehind = Cardinality(N)  BY DEF FreeBehind
<1> HIDE DEF N
<1>4. IsFiniteSet(N) /\ Cardinality(N) <= Frames  BY <1>1, <1>2, FS_Subset
<1>5. QED BY <1>3, <1>4, FS_CardinalityType, CaptureAssumption

LEMMA SetsType ==
    ASSUME TypeOK, Setter
    PROVE  TypeOK'
<1>0. /\ hd \in Handles /\ h \in HandleStates /\ call \in CallStates /\ kern \in KernelStates
      /\ call.f \in Filters /\ h.countdown \in Nat
      /\ \A a \in Sets : a # "batch" /\ a \in {"idle"} \cup Reads \cup Sets
  BY DEF TypeOK, CallStates, HandleStates, Sets
<1> USE NoFilterType
<1>1. Finish => call' \in CallStates /\ call'.at # "batch"  BY IdleType DEF Finish, Idle
<1>2. ASSUME NEW f \in Filters
      PROVE  [h EXCEPT !.fcode = f] \in HandleStates /\ [kern EXCEPT !.filter = f] \in KernelStates
  BY <1>0 DEF HandleStates, KernelStates
<1>3. ASSUME NEW b \in BOOLEAN
      PROVE  /\ [h EXCEPT !.stale = b] \in HandleStates /\ [h EXCEPT !.bogus = b] \in HandleStates
             /\ [h EXCEPT !.userland = b] \in HandleStates
  BY <1>0, Zenon DEF HandleStates
<1>4. ASSUME NEW a \in Sets, At(a), h' \in HandleStates, kern' \in KernelStates, UNCHANGED hd
      PROVE  TypeOK'
  BY <1>0, <1>4, AtType DEF TypeOK
<1>5. ASSUME Finish, h' \in HandleStates, kern' \in KernelStates, UNCHANGED hd PROVE TypeOK'
  BY <1>0, <1>1, <1>5 DEF TypeOK
<1>6. (h.countdown > 0) \in BOOLEAN /\ (~mmapped) \in BOOLEAN  OBVIOUS
<1>7. CASE Program
  <2>1. h' \in HandleStates  BY <1>0, <1>2, <1>3, <1>7, TRUE \in BOOLEAN DEF Program
  <2>2. QED BY <1>0, <1>5, <1>7, <2>1 DEF Program
<1>8. CASE Install
  <2>1. CASE h' = [h EXCEPT !.fcode = NoFilter]
    BY <1>0, <1>2, <1>4, <1>5, <1>8, <2>1 DEF Install, Sets
  <2>2. ASSUME NEW s \in BOOLEAN, NEW g \in BOOLEAN,
               h' = [h EXCEPT !.fcode = call.f, !.userland = TRUE, !.stale = s, !.bogus = g]
        PROVE  TypeOK'
    <3>1. h' \in HandleStates  BY <1>0, <2>2, TRUE \in BOOLEAN, Zenon DEF HandleStates
    <3>2. QED BY <1>0, <1>4, <1>5, <1>8, <3>1 DEF Install, Sets
  <2>3. CASE h' = [h EXCEPT !.fcode = call.f, !.userland = TRUE, !.stale = h.countdown > 0]
    <3>1. h' \in HandleStates  BY <1>0, <1>6, <2>3, TRUE \in BOOLEAN, Zenon DEF HandleStates
    <3>2. QED BY <1>0, <1>4, <1>5, <1>8, <3>1 DEF Install, Sets
  <2>4. QED BY <1>8, <2>1, <2>2, <2>3 DEF Install
<1>9. CASE Total
  <2>1. CASE UNCHANGED h /\ kern' = [kern EXCEPT !.filter = TotalFilter]
             /\ call' = [call EXCEPT !.at = "drain", !.total = TRUE]
    <3>1. call' \in CallStates
      BY <1>0, <2>1, "drain" \in Sets, TRUE \in BOOLEAN, Zenon DEF CallStates, Sets
    <3>2. call'.at # "batch"  BY <1>0, <2>1 DEF CallStates
    <3>3. QED BY <1>0, <1>2, <1>9, <2>1, <3>1, <3>2 DEF Total, TypeOK
  <2>2. CASE UNCHANGED kern /\ At("attach") /\ h' = [h EXCEPT !.bogus = ~mmapped]
    BY <1>0, <1>3, <1>4, <1>6, <1>9, <2>2 DEF Total, Sets
  <2>3. QED BY <1>9, <2>1, <2>2 DEF Total
<1>10. CASE Drain
  <2>1. kern.queue # <<>> => [kern EXCEPT !.queue = Tail(@)] \in KernelStates
    BY <1>0, BoundedTail DEF KernelStates
  <2>2. kern' \in KernelStates  BY <1>0, <1>2, <1>10, <2>1 DEF Drain
  <2>3. CASE UNCHANGED <<h, call>>  BY <1>0, <1>10, <2>2, <2>3 DEF Drain, TypeOK
  <2>4. CASE At("attach") /\ UNCHANGED h
    BY <1>0, <1>4, <1>10, <2>2, <2>4 DEF Drain, Sets
  <2>5. CASE At("attach") /\ h' = [h EXCEPT !.bogus = ~mmapped]
    BY <1>3, <1>4, <1>6, <1>10, <2>2, <2>5 DEF Drain, Sets
  <2>6. CASE Finish /\ h' = [h EXCEPT !.stale = h.countdown > 0]
    BY <1>3, <1>5, <1>6, <1>10, <2>2, <2>6 DEF Drain
  <2>7. QED BY <1>10, <2>3, <2>4, <2>5, <2>6 DEF Drain
<1>11. CASE Attach
  <2>1. fix_program(call.f) \in Filters  BY <1>0, FixType
  <2>2. kern' \in KernelStates  BY <1>0, <1>2, <1>11, <2>1 DEF Attach
  <2>3. h' \in HandleStates  BY <1>0, <1>3, <1>11, FALSE \in BOOLEAN DEF Attach
  <2>4. QED BY <1>4, <1>5, <1>11, <2>2, <2>3 DEF Attach, Sets
<1>12. CASE Userland
  <2>1. kern' \in KernelStates /\ h' \in HandleStates  BY <1>2, <1>3, <1>6, <1>12 DEF Userland
  <2>2. QED BY <1>5, <1>12, <2>1 DEF Userland
<1>13. CASE Walk
  <2> DEFINE n == Frames - (IF FreeBehind = 0 THEN 0 ELSE FreeBehind - 1)
  <2>1. n \in Nat  BY FreeType, CaptureAssumption
  <2>2. h' = [h EXCEPT !.userland = TRUE, !.countdown = n]  BY <1>13 DEF Walk
  <2> HIDE DEF n
  <2>3. h' \in HandleStates  BY <1>0, <2>1, <2>2, TRUE \in BOOLEAN, Zenon DEF HandleStates
  <2>4. QED BY <1>0, <1>5, <1>13, <2>3 DEF Walk
<1>14. QED BY <1>7, <1>8, <1>9, <1>10, <1>11, <1>12, <1>13 DEF Setter

LEMMA BeginType ==
    ASSUME TypeOK, NEW c \in CallStates, c.at # "batch", Begin(c)
    PROVE  TypeOK'
BY DEF Begin, TypeOK

\* the calls that read start with all of their count to come
LEMMA ReadBegins ==
    ASSUME TypeOK, NEW o \in {"dispatch", "next", "loop"}, NEW n \in Int,
           NEW c, c = Reading([Idle EXCEPT !.op = o, !.cnt = n], n)
    PROVE  /\ c \in CallStates /\ c.at \in Starts /\ c.cnt = n /\ c.max = n
           /\ c.given = 0 /\ c.pkts = 0
           /\ c.at = "recv" => hd.mode = "sock"
           /\ c.at = "wait" => mmapped
           /\ c.at = "block" => hd.mode = "v3"
           /\ c.at = "read" => Device
<1> DEFINE d == [Idle EXCEPT !.op = o, !.cnt = n]
<1>1. d \in CallStates  BY IdleType, Zenon DEF CallStates, Operations
<1>2. d.cnt = n /\ d.given = 0  BY DEF Idle
<1>3. c = Reading(d, n)  OBVIOUS
<1> HIDE DEF d
<1>4. QED BY <1>1, <1>2, <1>3, ReadingType

LEMMA SetBegins ==
    ASSUME NEW f \in Filters, NEW a \in Sets
    PROVE  LET c == [Idle EXCEPT !.op = "setfilter", !.at = a, !.f = f]
           IN  c \in CallStates /\ c.at = a /\ c.cnt = 0
<1>1. "setfilter" \in Operations /\ a \in {"idle"} \cup Reads \cup Sets  BY DEF Operations
<1>2. [Idle EXCEPT !.op = "setfilter", !.at = a, !.f = f] \in CallStates
  BY <1>1, IdleType, Zenon DEF CallStates
<1>3. QED BY <1>2 DEF Idle

LEMMA CallsType ==
    ASSUME TypeOK, Kernel \/ Calls
    PROVE  TypeOK'
<1>0. /\ hd \in Handles /\ h \in HandleStates /\ call \in CallStates /\ kern \in KernelStates
      /\ "batch" \notin Starts \cup Sets
  BY DEF TypeOK, Starts, Sets
<1>1. ASSUME kern' \in KernelStates, UNCHANGED <<hd, h, call>> PROVE TypeOK'
  BY <1>0, <1>1 DEF TypeOK
<1>2. CASE Arrive
  <2>1. PICK t \in hd.traffic :
          kern' = Received(t)
          \/ kern' = [Arrived EXCEPT !.inflight = @ \cup {Filtered(Numbered(t), kern.filter)}]
    BY <1>2 DEF Arrive
  <2>2. kern' \in KernelStates
    <3> DEFINE p == Filtered(Numbered(t), kern.filter)
    <3>1. p \in Packets /\ Arrived \in KernelStates /\ Received(t) \in KernelStates
      BY ReceivedType
    <3> HIDE DEF p
    <3>2. [Arrived EXCEPT !.inflight = @ \cup {p}] \in KernelStates  BY <3>1 DEF KernelStates
    <3>3. QED BY <2>1, <3>1, <3>2 DEF p
  <2>3. QED BY <1>1, <1>2, <2>2 DEF Arrive
<1>3. CASE Store
  <2>1. PICK p \in kern.inflight : kern' = Stored([kern EXCEPT !.inflight = @ \ {p}], p)
    BY <1>3 DEF Store
  <2>2. p \in Packets /\ [kern EXCEPT !.inflight = @ \ {p}] \in KernelStates
    BY <1>0 DEF KernelStates
  <2>3. kern' \in KernelStates  BY <2>1, <2>2, StoredType
  <2>4. QED BY <1>1, <1>3, <2>3 DEF Store
<1>4. CASE RetireBlock
  <2> DEFINE w == [kern.ring[kern.pos] EXCEPT !.user = TRUE]
             r == [kern.ring EXCEPT ![kern.pos] = w]
             t == (kern.pos + 1) % Frames
  <2>1. kern.pos \in Slots /\ t \in Slots  BY <1>0, NextSlot DEF KernelStates
  <2>2. w \in [user : BOOLEAN, pkts : Bounded]  BY <1>0, <2>1 DEF KernelStates, Ring
  <2>3. kern' = [kern EXCEPT !.ring = r, !.pos = t]  BY <1>4 DEF RetireBlock
  <2> HIDE DEF w, t
  <2>4. r \in Ring  BY <1>0, <2>1, <2>2 DEF KernelStates, Ring
  <2> HIDE DEF r
  <2>5. kern' \in KernelStates  BY <1>0, <2>1, <2>3, <2>4, Zenon DEF KernelStates
  <2>6. QED BY <1>1, <1>4, <2>5 DEF RetireBlock
<1>5. ASSUME NEW o \in {"dispatch", "next", "loop"}, NEW n \in Int,
             Begin(Reading([Idle EXCEPT !.op = o, !.cnt = n], n))
      PROVE  TypeOK'
  <2> DEFINE c == Reading([Idle EXCEPT !.op = o, !.cnt = n], n)
  <2>0. c \in CallStates /\ c.at \in Starts  BY ReadBegins, Zenon
  <2>1. c \in CallStates /\ c.at # "batch"  BY <1>0, <2>0
  <2> HIDE DEF c
  <2>2. QED BY <1>5, <2>1, BeginType DEF c
<1>6. CASE pcap_dispatch \/ pcap_next_ex \/ pcap_loop
  <2>1. Counts \subseteq Int /\ 1 \in Int  BY CaptureAssumption
  <2>2. CASE pcap_dispatch  BY <1>5, <2>1, <2>2 DEF pcap_dispatch
  <2>3. CASE pcap_next_ex  BY <1>5, <2>1, <2>3 DEF pcap_next_ex
  <2>4. CASE pcap_loop  BY <1>5, <2>1, <2>4 DEF pcap_loop
  <2>5. QED BY <1>6, <2>2, <2>3, <2>4
<1>7. CASE pcap_setfilter
  <2>1. PICK f \in hd.filters, a \in {"program", "install"} :
          Begin([Idle EXCEPT !.op = "setfilter", !.at = a, !.f = f])
    BY <1>7 DEF pcap_setfilter
  <2>2. f \in Filters /\ a \in Sets  BY HandleType DEF Sets
  <2>3. QED BY <1>0, <2>1, <2>2, SetBegins, BeginType
<1>8. CASE pcap_setdirection
  <2>1. PICK d \in {"IN", "OUT"} : h' = [h EXCEPT !.direction = d] /\ UNCHANGED <<hd, call, kern>>
    BY <1>8 DEF pcap_setdirection, Do
  <2>2. h' \in HandleStates /\ h'.left = h.left  BY <1>0, <2>1 DEF HandleStates
  <2>3. QED BY <2>1, <2>2 DEF TypeOK
<1>9. CASE pcap_setnonblock
  <2>1. PICK b \in BOOLEAN :
          /\ h' = [h EXCEPT !.nonblock = b,
                            !.timeout = IF mmapped /\ (b <=> @ >= 0) THEN -1 - @ ELSE @]
          /\ UNCHANGED <<hd, call, kern>>
    BY <1>9 DEF pcap_setnonblock, Do
  <2> DEFINE t == IF mmapped /\ (b <=> h.timeout >= 0) THEN -1 - h.timeout ELSE h.timeout
  <2>2. t \in Int  BY <1>0 DEF HandleStates
  <2>3. h' = [h EXCEPT !.nonblock = b, !.timeout = t]  BY <2>1
  <2> HIDE DEF t
  <2>4. h' \in HandleStates  BY <1>0, <2>2, <2>3, Zenon DEF HandleStates
  <2>5. h'.left = h.left  BY <1>0, <2>3 DEF HandleStates
  <2>6. QED BY <2>1, <2>4, <2>5 DEF TypeOK
<1>10. ASSUME NEW r \in Int, NEW d \in Int, h' = [h EXCEPT !.recv = r, !.drop = d],
              kern' \in KernelStates, UNCHANGED <<hd, call>>
       PROVE  TypeOK'
  <2>1. h' \in HandleStates  BY <1>0, <1>10, Zenon DEF HandleStates
  <2>2. h'.left = h.left  BY <1>0, <1>10 DEF HandleStates
  <2>3. QED BY <1>10, <2>1, <2>2 DEF TypeOK
<1>11. CASE pcap_stats
  <2>1. h.recv + kern.packets \in Int /\ h.drop + kern.drops \in Int
    BY <1>0 DEF HandleStates, KernelStates
  <2>2. [kern EXCEPT !.packets = 0, !.drops = 0] \in KernelStates
    BY <1>0, 0 \in Nat, Zenon DEF KernelStates
  <2>3. QED BY <1>10, <1>11, <2>1, <2>2 DEF pcap_stats, Do
<1>12. CASE DeviceStats
  <2>1. h.packets_read \in Nat /\ Len(kern.queue) \in Nat /\ kern.drops \in Nat
    BY <1>0 DEF HandleStates, KernelStates, Bounded
  <2>2. ps_recv \in Int /\ ps_drop \in Int  BY <2>1 DEF ps_recv, ps_drop
  <2>3. QED BY <1>0, <1>10, <1>12, <2>2 DEF DeviceStats, Do
<1>13. CASE pcap_inject  BY <1>1, <1>13, ReceivedType DEF pcap_inject, Do
<1>14. QED
  BY <1>2, <1>3, <1>4, <1>6, <1>7, <1>8, <1>9, <1>11, <1>12, <1>13 DEF Kernel, Calls

LEMMA TypeStep == TypeOK /\ [Next]_vars => TypeOK'
<1>1. TypeOK /\ UNCHANGED vars => TypeOK'  BY DEF TypeOK, vars
<1>2. QED BY <1>1, ReadsType, SetsType, CallsType DEF Next

\* The handle, the call under way and the kernel's side keep their types for any handle, ring and
\* traffic: a block or queue never holds more than it has room for, and what is left of a block
\* covers the batch that is being read.
THEOREM TypeCorrect == Spec => []TypeOK
BY InitType, TypeStep, PTL DEF Spec

-----------------------------------------------------------------------------
(* Every call stops where the program said *)

\* what may be shown by a call in all
MostShown ==
    CASE hd.mode = "v3" -> 2 * call.cnt - 1
      [] hd.mode = "nflog" -> call.cnt - 1 + BlockCap
      [] OTHER -> call.cnt

\* what may have been shown since the break while no batch, datagram or fetch is at hand
MostLate ==
    CASE mmapped -> 0 [] hd.mode = "mapped" -> VEC_SIZE [] OTHER -> Burst

LEMMA InitStop == Init => StopInv
<1> SUFFICES ASSUME Init PROVE StopInv
  OBVIOUS
<1>1. TypeOK  BY InitType
<1>2. call.at = "idle" /\ call.cnt = 0 /\ h.since = 0 /\ h.buffer = <<>>  BY DEF Init, Idle
<1>3. Phase  BY <1>2 DEF Phase, Sets
<1>4. Counting  BY <1>2, CaptureAssumption DEF Counting, Burst, Reads
<1>5. Prompt /\ CountIsBound  BY <1>2, CaptureAssumption DEF Prompt, CountIsBound, Burst
<1>6. QED BY <1>1, <1>3, <1>4, <1>5 DEF StopInv

\* A read operation that returns what it has shown, within the bound, leaves the count right for
\* the next turn of pcap_loop().
LEMMA ReturnStops ==
    ASSUME StopInv, call.at \in Reads, NEW n \in Int, NEW g \in Nat, Return(n, g),
           UNCHANGED hd, TypeOK', Len(h'.buffer) <= Burst,
           call.cnt > 0 /\ hd.mode # "mapped" =>
             call.given + g <= MostShown /\ (n >= 0 => n = call.pkts + g),
           ~h'.break_loop => h'.since = 0, h'.since <= MostLate
    PROVE  StopInv'
<1> USE DEF StopInv
<1>1. /\ call'.at \in Starts \cup {"idle"} /\ call'.given = call.given + g /\ call'.cnt = call.cnt
      /\ call'.at # "idle" =>
           /\ call'.pkts = 0 /\ n >= 0
           /\ call.max > 0 => call'.max = call.max - n /\ (n > 0 => call'.max > 0)
      /\ call'.at = "recv" => hd.mode = "sock"
      /\ call'.at = "wait" => mmapped
      /\ call'.at = "block" => hd.mode = "v3"
      /\ call'.at = "read" => Device
  BY ReturnType
<1>2. hd.mode \in Modes /\ hd'.mode = hd.mode  BY HandleType
<1>3. /\ call.cnt \in Int /\ call.given \in Nat /\ call.max \in Int /\ call.pkts \in Nat
      /\ h'.since \in Nat /\ h'.break_loop \in BOOLEAN /\ call'.max \in Int
  BY DEF TypeOK, CallStates, HandleStates
<1>4. Phase'  BY <1>1, <1>2 DEF Phase, Starts, Sets, mmapped, Device
<1>5. Counting'
  <2>1. Len(h'.buffer) <= Burst'  BY <1>2 DEF Burst
  <2>2. ASSUME call'.cnt > 0, hd'.mode # "mapped", call'.at \in Starts
        PROVE  /\ call'.max \in 1 .. call'.cnt /\ call'.given = call'.cnt - call'.max + call'.pkts
               /\ call'.pkts = 0
    <3>1. call.max \in 1 .. call.cnt /\ call.given = call.cnt - call.max + call.pkts
      BY <1>1, <1>2, <2>2 DEF Counting
    <3>2. n = call.pkts + g /\ n >= 0 /\ call'.max = call.max - n /\ call'.pkts = 0
          /\ (n > 0 => call'.max > 0)
      BY <1>1, <1>2, <1>3, <2>2, <3>1 DEF Starts
    <3>3. call'.cnt = call.cnt /\ call'.given = call.given + g  BY <1>1
    <3>4. call'.max \in 1 .. call.cnt  BY <1>3, <3>1, <3>2
    <3>5. call.given + g = call.cnt - (call.max - n) + 0
      <4>1. \A c, m, p \in Int : (c - m + p) + g = c - (m - (p + g)) + 0  OBVIOUS
      <4>2. (call.cnt - call.max + call.pkts) + g = call.cnt - (call.max - (call.pkts + g)) + 0
        BY <1>3, <4>1, Nat \subseteq Int
      <4>3. QED BY <3>1, <3>2, <4>2, Zenon
    <3>6. QED BY <3>2, <3>3, <3>4, <3>5
  <2>3. call'.at \in Reads => call'.at \in Starts  BY <1>1 DEF Reads
  <2>4. call'.at \notin {"event", "batch", "frame"}  BY <1>1 DEF Starts
  <2>5. CASE call'.at \in Starts  BY <1>3, <2>1, <2>2, <2>4, <2>5 DEF Counting
  <2>6. CASE call'.at = "idle"  BY <2>1, <2>6 DEF Counting, Reads
  <2>7. QED BY <1>1, <2>5, <2>6
<1>6. CountIsBound'  BY <1>1, <1>2, <1>3 DEF CountIsBound, MostShown
<1>7. Prompt'
  <2>1. call'.at \notin {"batch", "event", "recvmsg"}  BY <1>1 DEF Starts
  <2>2. QED BY <1>2, <1>3, <2>1, CaptureAssumption
    DEF Prompt, MostLate, Burst, mmapped, Device, Modes
<1>8. QED BY <1>4, <1>5, <1>6, <1>7

\* The same for a step inside a read operation that shows g packets.
LEMMA BreakStops ==
    ASSUME StopInv, call.at \in Reads, Break, UNCHANGED hd, TypeOK'
    PROVE  StopInv'
<1>1. /\ Return(-2, 0) /\ h'.since = 0 /\ Len(h'.buffer) <= Burst
  BY BreakType DEF Break, StopInv, Counting
<1>2. MostLate >= 0  BY CaptureAssumption DEF MostLate, Burst
<1>3. call.cnt > 0 /\ hd.mode # "mapped" => call.given + 0 <= MostShown
  BY DEF StopInv, CountIsBound, MostShown, TypeOK, CallStates
<1>4. QED BY <1>1, <1>2, <1>3, ReturnStops

LEMMA FrameStops ==
    ASSUME StopInv, TypeOK', At("frame"), UNCHANGED <<hd, h>>, mmapped, hd.mode # "v3",
           call.at \in {"wait", "poll"}
    PROVE  StopInv'
<1>0. /\ TypeOK /\ Phase /\ Counting /\ Prompt /\ CountIsBound /\ hd.mode \in Modes
      /\ call.cnt \in Int /\ call.max \in Int
  BY HandleType DEF StopInv, TypeOK, CallStates
<1>1. /\ call'.at = "frame" /\ call'.given = call.given /\ call'.cnt = call.cnt
      /\ call'.max = call.max /\ call'.pkts = call.pkts
  BY <1>0, AtType DEF Reads
<1>2. Phase'  BY <1>0, <1>1 DEF Phase, Sets, mmapped
<1>3. Counting'  BY <1>0, <1>1 DEF Counting, Burst, Reads
<1>4. Prompt'  BY <1>0, <1>1 DEF Prompt, mmapped, Device
<1>5. CountIsBound'  BY <1>0, <1>1 DEF CountIsBound
<1>6. QED BY <1>2, <1>3, <1>4, <1>5 DEF StopInv

LEMMA StopReads ==
    ASSUME StopInv, Reader, TypeOK'
    PROVE  StopInv'
<1> USE CaptureAssumption
<1>0. /\ TypeOK /\ Phase /\ Counting /\ Prompt /\ CountIsBound /\ hd.mode \in Modes
      /\ h \in HandleStates /\ h.since \in Nat /\ h.break_loop \in BOOLEAN
      /\ call.cnt \in Int /\ call.given \in Nat /\ call.max \in Int /\ call.pkts \in Nat
      /\ call.todo \in Nat
  BY HandleType DEF StopInv, TypeOK, CallStates, HandleStates
<1>1. ASSUME NEW a \in {"recv", "recvmsg", "wait", "poll", "read", "block"}, At(a),
             call.at \in Reads \ {"event"}, UNCHANGED <<hd, h>>,
             (call.cnt > 0 /\ hd.mode # "mapped" => call.pkts = 0), h.since <= MostLate,
             a = "recvmsg" => h.since = 0,
             a \in {"recv", "recvmsg"} => hd.mode = "sock", a \in {"wait", "poll"} => mmapped,
             a = "block" => hd.mode = "v3", a = "read" => Device
      PROVE  StopInv'
  <2>1. /\ call'.at = a /\ call'.given = call.given /\ call'.cnt = call.cnt /\ call'.max = call.max
        /\ call'.pkts = call.pkts /\ call'.todo = call.todo
    BY <1>0, <1>1, AtType DEF Reads
  <2>2. Phase'  BY <1>0, <1>1, <2>1 DEF Phase, Sets, mmapped, Device
  <2>3. Counting'  BY <1>0, <1>1, <2>1 DEF Counting, Burst, Reads
  <2>4. Prompt'  BY <1>0, <1>1, <2>1 DEF Prompt, MostLate, Burst, mmapped, Device, Modes
  <2>5. CountIsBound'  BY <1>0, <1>1, <2>1 DEF CountIsBound
  <2>6. QED BY <2>2, <2>3, <2>4, <2>5 DEF StopInv
<1>2. h.since <= MostLate \/ call.at \in {"batch"}
  BY <1>0 DEF Prompt, MostLate, Burst, mmapped, Device, Modes
<1>3. call.cnt > 0 /\ hd.mode # "mapped" => call.given <= MostShown
  BY <1>0 DEF CountIsBound, MostShown
<1>4. ASSUME NEW n \in {-1, 0}, Return(n, 0), UNCHANGED <<hd, h>>, call.at \in Reads \ {"batch"},
             n = 0 => (call.cnt > 0 /\ hd.mode # "mapped" => call.pkts = 0)
      PROVE  StopInv'
  <2>1. Len(h'.buffer) <= Burst  BY <1>0, <1>4 DEF Counting
  <2>2. QED BY <1>0, <1>2, <1>3, <1>4, <2>1, ReturnStops DEF Prompt
<1>5. CASE Recv
  <2>0. call.at = "recv" /\ call.at \in Reads \ {"event"} /\ hd.mode = "sock"  
    BY <1>0, <1>5 DEF Recv, Reads, Phase
  <2>1. CASE Break  BY <1>0, <1>5, <2>0, <2>1, BreakStops DEF Recv, StopInv
  <2>2. CASE ~h.break_loop /\ At("recvmsg") /\ UNCHANGED h
    BY <1>0, <1>1, <1>2, <1>5, <2>0, <2>2 DEF Recv, Counting, Prompt
  <2>3. QED BY <1>5, <2>1, <2>2 DEF Recv, At
<1>6. CASE Recvmsg
  <2>0. call.at = "recvmsg" /\ call.at \in Reads \ {"event", "batch"} /\ hd.mode = "sock"
        /\ (call.cnt > 0 => call.pkts = 0 /\ call.given + 1 <= MostShown) /\ h.since = 0
    <3>1. call.at = "recvmsg" /\ call.at \in Reads \ {"event", "batch"} /\ hd.mode = "sock"
      BY <1>0, <1>6 DEF Recvmsg, Reads, Phase
    <3>2. h.since = 0  BY <1>0, <3>1 DEF Prompt
    <3>3. call.cnt > 0 => call.max >= 1 /\ call.given = call.cnt - call.max + call.pkts
                          /\ call.pkts = 0
      BY <1>0, <3>1 DEF Counting
    <3>4. MostShown = call.cnt  BY <3>1 DEF MostShown
    <3>5. QED BY <1>0, <3>1, <3>2, <3>3, <3>4
  <2>1. ASSUME NEW n \in {0, 1}, Return(n, n), h' = IF n = 1 THEN Counted(h) ELSE h PROVE StopInv'
    <3>1. /\ h'.buffer = h.buffer /\ h'.break_loop = h.break_loop /\ h'.since \in {0, 1}
          /\ (~h'.break_loop => h'.since = 0)
      BY <1>0, <2>0, <2>1, CountedType
    <3>2. Len(h'.buffer) <= Burst /\ h'.since <= MostLate
      BY <1>0, <2>0, <3>1 DEF Counting, MostLate, mmapped, Burst
    <3>3. call.cnt > 0 => call.given + n <= MostShown /\ n = call.pkts + n
      BY <1>0, <1>3, <2>0
    <3>4. n \in Int /\ n \in Nat /\ UNCHANGED hd /\ call.at \in Reads  BY <1>6, <2>0 DEF Recvmsg
    <3>5. QED BY <2>0, <2>1, <3>1, <3>2, <3>3, <3>4, ReturnStops
  <2>2. ASSUME NEW n \in {-1, 0}, Return(n, 0), UNCHANGED h PROVE StopInv'
    BY <1>4, <1>6, <2>0, <2>2 DEF Recvmsg
  <2>3. CASE At("recv") /\ UNCHANGED h  BY <1>1, <1>2, <1>6, <2>0, <2>3 DEF Recvmsg
  <2>4. QED BY <1>6, <2>1, <2>2, <2>3 DEF Recvmsg, At
<1>7. CASE Wait
  <2>0. call.at = "wait" /\ call.at \in Reads \ {"event", "batch"} /\ mmapped /\ hd.mode # "mapped"
    BY <1>0, <1>7 DEF Wait, Reads, Phase, mmapped
  <2>1. call.cnt > 0 => call.pkts = 0  BY <1>0, <2>0 DEF Counting
  <2>2. CASE At("poll")  BY <1>1, <1>2, <1>7, <2>0, <2>1, <2>2 DEF Wait
  <2>3. CASE At("block") /\ hd.mode = "v3"  BY <1>1, <1>2, <1>7, <2>0, <2>1, <2>3 DEF Wait
  <2>4. CASE At("frame") /\ hd.mode # "v3"  BY <1>7, <2>0, <2>1, <2>4, FrameStops DEF Wait
  <2>5. QED BY <1>7, <2>2, <2>3, <2>4 DEF Wait, Ready
<1>8. CASE Poll
  <2>0. call.at = "poll" /\ call.at \in Reads \ {"event", "batch"} /\ mmapped /\ hd.mode # "mapped"
    BY <1>0, <1>8 DEF Poll, Reads, Phase, mmapped
  <2>1. call.cnt > 0 => call.pkts = 0  BY <1>0, <2>0 DEF Counting
  <2>2. CASE At("poll") /\ UNCHANGED h  BY <1>1, <1>2, <1>8, <2>0, <2>1, <2>2 DEF Poll
  <2>3. CASE At("block") /\ hd.mode = "v3" /\ UNCHANGED h
    BY <1>1, <1>2, <1>8, <2>0, <2>1, <2>3 DEF Poll
  <2>4. CASE At("frame") /\ hd.mode # "v3" /\ UNCHANGED h
    BY <1>8, <2>0, <2>1, <2>4, FrameStops DEF Poll
  <2>5. CASE Break  BY <1>8, <2>0, <2>5, BreakStops DEF Poll
  <2>6. CASE Return(-1, 0) /\ UNCHANGED h  BY <1>4, <1>8, <2>0, <2>6 DEF Poll
  <2>7. QED BY <1>8, <2>2, <2>3, <2>4, <2>5, <2>6 DEF Poll, AfterPoll, Ready
<1>9. CASE Frame
  <2>0. call.at = "frame" /\ call.at \in Reads \ {"event", "batch"} /\ hd.mode \in {"v1", "v2"}
        /\ UNCHANGED hd /\ MostShown = call.cnt /\ MostLate = 0 /\ h.since = 0
    <3>1. call.at = "frame" /\ call.at \in Reads \ {"event", "batch"} /\ hd.mode \in {"v1", "v2"}
      BY <1>0, <1>9 DEF Frame, Reads, Phase
    <3>2. QED BY <1>0, <1>9, <3>1 DEF Frame, MostShown, MostLate, mmapped, Prompt
  <2>1. call.cnt > 0 => /\ call.max \in 1 .. call.cnt /\ call.pkts <= call.max
                        /\ call.given = call.cnt - call.max + call.pkts
    BY <1>0, <2>0 DEF Counting
  <2>2. CASE Return(call.pkts, 0) /\ UNCHANGED h
    <3>1. Len(h'.buffer) <= Burst  BY <1>0, <2>2 DEF Counting
    <3>2. call.cnt > 0 => call.given + 0 <= MostShown /\ call.pkts = call.pkts + 0
      BY <1>0, <2>0, <2>1
    <3>3. QED BY <1>0, <2>0, <2>2, <3>1, <3>2, ReturnStops
  <2>3. CASE Return(-1, 0) /\ UNCHANGED h  BY <1>4, <2>0, <2>3
  <2>4. ASSUME NEW n \in {0, 1}, NEW x \in HandleStates, x.buffer = h.buffer, MayRead,
               x.since = 0 \/ h.break_loop, x.break_loop = h.break_loop,
               \/ h.break_loop /\ Return(-2, n) /\ h' = Reset(x)
               \/ /\ ~h.break_loop
                  /\ call' = [call EXCEPT !.pkts = @ + n, !.given = @ + n] /\ h' = x
        PROVE  StopInv'
    <3>1. call.cnt > 0 => call.pkts + n <= call.max /\ call.given + n <= MostShown
      BY <1>0, <2>0, <2>1, <2>4 DEF MayRead, Unlimited
    <3>2. CASE Return(-2, n) /\ h' = Reset(x)
      <4>1. Len(h'.buffer) <= Burst /\ h'.since = 0  BY <1>0, <2>4, <3>2, ResetType DEF Counting
      <4>2. n \in Nat /\ -2 \in Int /\ ~(-2 >= 0) /\ call.at \in Reads /\ h'.since <= MostLate
        BY <2>0, <4>1
      <4>3. QED BY <2>0, <3>1, <3>2, <4>1, <4>2, ReturnStops
    <3>3. CASE ~h.break_loop /\ call' = [call EXCEPT !.pkts = @ + n, !.given = @ + n] /\ h' = x
      <4>1. /\ call'.at = "frame" /\ call'.given = call.given + n /\ call'.cnt = call.cnt
            /\ call'.max = call.max /\ call'.pkts = call.pkts + n
        BY <1>0, <2>0, <3>3 DEF TypeOK, CallStates
      <4>2. Phase'  BY <1>0, <2>0, <4>1 DEF Phase, Sets, mmapped
      <4>3. Counting'
        <5>1. Len(h'.buffer) <= Burst'  BY <1>0, <2>0, <2>4, <3>3 DEF Counting, Burst
        <5>2. call.cnt > 0 => call'.given = call'.cnt - call'.max + call'.pkts
          BY <1>0, <2>1, <4>1
        <5>3. QED BY <1>0, <2>0, <2>1, <3>1, <4>1, <5>1, <5>2 DEF Counting
      <4>4. Prompt'  BY <2>0, <2>4, <3>3, <4>1 DEF Prompt, mmapped, Device
      <4>5. CountIsBound'  BY <2>0, <3>1, <4>1 DEF CountIsBound
      <4>6. QED BY <4>2, <4>3, <4>4, <4>5 DEF StopInv
    <3>4. QED BY <2>4, <3>2, <3>3
  <2>5. CASE /\ ~(UNCHANGED <<h, kern>> /\ (Return(call.pkts, 0) \/ Return(-1, 0)))
    <3> DEFINE p == kern.ring[h.offset].pkts[1]
               n == IF Shown(p) THEN 1 ELSE 0
               y == IF Shown(p) THEN Counted(h) ELSE h
    <3>1. /\ y \in HandleStates /\ y.buffer = h.buffer /\ y.break_loop = h.break_loop
          /\ y.since = 0 \/ h.break_loop
      BY <1>0, <2>0, CountedType
    <3>2. /\ MayRead
          /\ \/ h.break_loop /\ Return(-2, n) /\ h' = Reset(Released(y))
             \/ /\ ~h.break_loop
                /\ call' = [call EXCEPT !.pkts = @ + n, !.given = @ + n] /\ h' = Released(y)
      BY <1>9, <2>5 DEF Frame, Broken
    <3>3. n \in {0, 1}  OBVIOUS
    <3> HIDE DEF y, n
    <3>4. QED BY <2>4, <3>1, <3>2, <3>3, ReleasedType
  <2>6. QED BY <2>2, <2>3, <2>5
<1>10. CASE Block
  <2>0. call.at = "block" /\ call.at \in Reads \ {"event", "batch"} /\ hd.mode = "v3" /\ mmapped
        /\ UNCHANGED hd /\ MostShown = 2 * call.cnt - 1 /\ MostLate = 0 /\ h.since = 0
    <3>1. call.at = "block" /\ call.at \in Reads \ {"event", "batch"} /\ hd.mode = "v3"
      BY <1>0, <1>10 DEF Block, Reads, Phase
    <3>2. QED BY <1>0, <1>10, <3>1 DEF Block, MostShown, MostLate, mmapped, Prompt
  <2>1. call.cnt > 0 => /\ call.max \in 1 .. call.cnt /\ call.pkts <= 2 * call.max - 1
                        /\ call.given = call.cnt - call.max + call.pkts
    BY <1>0, <2>0 DEF Counting
  <2>2. CASE Return(call.pkts, 0) /\ UNCHANGED h
    <3>1. Len(h'.buffer) <= Burst  BY <1>0, <2>2 DEF Counting
    <3>2. call.cnt > 0 => call.given + 0 <= MostShown /\ call.pkts = call.pkts + 0
      BY <1>0, <2>0, <2>1
    <3>3. QED BY <1>0, <2>0, <2>2, <3>1, <3>2, ReturnStops
  <2>3. ASSUME NEW a \in {"wait", "block"}, At(a), call.pkts = 0, UNCHANGED h PROVE StopInv'
    BY <1>1, <1>2, <2>0, <2>3
  <2>4. CASE UserFrame /\ MayRead
    <3> DEFINE left == IF h.current = 0 THEN Len(kern.ring[h.offset].pkts) ELSE h.left
               todo == IF Unlimited(call.max) THEN left ELSE Minimum(left, call.max)
               cur == IF h.current = 0 THEN 1 ELSE h.current
    <3>1. left \in 0 .. BlockCap
      <4>1. kern.ring[h.offset].pkts \in Bounded
        BY <1>0 DEF TypeOK, KernelStates, HandleStates, Ring
      <4>2. Len(kern.ring[h.offset].pkts) \in 0 .. BlockCap  BY <4>1 DEF Bounded
      <4>3. QED BY <1>0, <4>2 DEF HandleStates
    <3>2. /\ h' = [h EXCEPT !.current = cur, !.left = left]
          /\ call' = [call EXCEPT !.at = "batch", !.todo = todo]
      BY <1>10, <2>4 DEF Block, Ended
    <3> HIDE DEF left, cur
    <3>3. todo \in Nat /\ todo <= BlockCap
          /\ (call.cnt > 0 => todo <= call.max /\ call.pkts < call.max)
      BY <1>0, <2>1, <2>4, <3>1 DEF Unlimited, Minimum, MayRead
    <3> HIDE DEF todo
    <3>4. /\ h'.since = h.since /\ h'.buffer = h.buffer /\ h'.break_loop = h.break_loop
          /\ call'.at = "batch" /\ call'.given = call.given /\ call'.cnt = call.cnt
          /\ call'.max = call.max /\ call'.pkts = call.pkts /\ call'.todo = todo
      BY <1>0, <3>2 DEF HandleStates, TypeOK, CallStates
    <3>5. Phase'  BY <1>0, <2>0, <3>4 DEF Phase, Sets, mmapped
    <3>6. Counting'
      <4>1. Len(h'.buffer) <= Burst'  BY <1>0, <2>0, <3>4 DEF Counting, Burst
      <4>2. call.cnt > 0 => call.pkts + todo <= 2 * call.max - 1  BY <1>0, <2>1, <3>3
      <4>3. QED BY <2>0, <2>1, <3>4, <4>1, <4>2 DEF Counting
    <3>7. Prompt'  BY <2>0, <3>3, <3>4 DEF Prompt, mmapped, Device
    <3>8. CountIsBound'  BY <1>0, <2>0, <3>4 DEF CountIsBound
    <3>9. QED BY <3>5, <3>6, <3>7, <3>8 DEF StopInv
  <2>5. QED BY <1>10, <2>2, <2>3, <2>4 DEF Block, Ended, At
<1>11. CASE BlockPacket
  <2> DEFINE p == kern.ring[h.offset].pkts[h.current]
             n == IF Shown(p) THEN 1 ELSE 0
             y == IF Shown(p) THEN Counted(h) ELSE h
  <2>0. call.at = "batch" /\ hd.mode = "v3" /\ call.at \in Reads /\ call.todo > 0
        /\ UNCHANGED hd /\ MostShown = 2 * call.cnt - 1 /\ h.since + call.todo <= BlockCap
    <3>1. call.at = "batch" /\ hd.mode = "v3" /\ call.at \in Reads
      BY <1>0, <1>11 DEF BlockPacket, Reads, Phase
    <3>2. QED BY <1>0, <1>11, <3>1 DEF BlockPacket, MostShown, Prompt
  <2>1. call.cnt > 0 => /\ call.max \in 1 .. call.cnt /\ call.pkts + call.todo <= 2 * call.max - 1
                        /\ call.given = call.cnt - call.max + call.pkts
    BY <1>0, <2>0 DEF Counting
  <2>2. CASE p.bad
    <3>1. Return(-1, 0) /\ h' = [h EXCEPT !.current = 0, !.since = 0]
      BY <1>11, <2>2 DEF BlockPacket
    <3>2. h'.since = 0 /\ h'.buffer = h.buffer  BY <1>0, <3>1 DEF HandleStates
    <3>3. Len(h'.buffer) <= Burst /\ h'.since <= MostLate
      BY <1>0, <3>2 DEF Counting, MostLate, Burst
    <3>4. call.cnt > 0 => call.given + 0 <= MostShown  BY <1>0, <1>3, <2>0
    <3>5. QED BY <2>0, <3>1, <3>2, <3>3, <3>4, -1 \in Int, ~(-1 >= 0), ReturnStops
  <2>3. CASE ~p.bad
    <3>1. /\ n \in {0, 1} /\ y \in HandleStates /\ y.buffer = h.buffer
          /\ y.break_loop = h.break_loop /\ y.since <= h.since + 1 /\ y.since \in Nat
          /\ (~h.break_loop => y.since = 0)
      <4>1. Counted(h).since <= h.since + 1  BY <1>0, CountedType
      <4>2. y.break_loop = h.break_loop /\ y.buffer = h.buffer /\ y \in HandleStates
        BY <1>0, CountedType
      <4>3. ~h.break_loop => y.since = 0  BY <1>0, CountedType DEF Prompt
      <4>4. y.since <= h.since + 1 /\ y.since \in Nat  BY <1>0, <4>1, <4>2 DEF HandleStates
      <4>5. QED BY <4>2, <4>3, <4>4
    <3>2. /\ call' = [call EXCEPT !.todo = @ - 1, !.pkts = @ + n, !.given = @ + n]
          /\ h' = [y EXCEPT !.current = @ + 1, !.left = @ - 1]
      BY <1>11, <2>3 DEF BlockPacket
    <3> HIDE DEF n, y
    <3>3. /\ h'.since = y.since /\ h'.buffer = h.buffer /\ h'.break_loop = h.break_loop
          /\ call'.at = "batch" /\ call'.given = call.given + n /\ call'.cnt = call.cnt
          /\ call'.max = call.max /\ call'.pkts = call.pkts + n /\ call'.todo = call.todo - 1
      BY <1>0, <2>0, <3>1, <3>2 DEF HandleStates, TypeOK, CallStates
    <3>4. Phase'  BY <1>0, <2>0, <3>3 DEF Phase, Sets, mmapped
    <3>5. Counting'
      <4>1. Len(h'.buffer) <= Burst'  BY <1>0, <2>0, <3>3 DEF Counting, Burst
      <4>2. call.cnt > 0 => call'.pkts + call'.todo <= 2 * call.max - 1
        BY <1>0, <2>1, <3>1, <3>3
      <4>3. call.cnt > 0 => call'.given = call'.cnt - call'.max + call'.pkts
        BY <1>0, <2>1, <3>1, <3>3
      <4>4. QED BY <2>0, <2>1, <3>3, <4>1, <4>2, <4>3 DEF Counting
    <3>6. Prompt'
      <4>1. h'.since + call'.todo <= BlockCap  BY <1>0, <2>0, <3>1, <3>3
      <4>2. QED BY <2>0, <3>1, <3>3, <4>1 DEF Prompt, mmapped, Device
    <3>7. CountIsBound'
      <4>1. call.cnt > 0 => call.given + n <= 2 * call.cnt - 1  BY <1>0, <2>0, <2>1, <3>1
      <4>2. QED BY <2>0, <3>3, <4>1 DEF CountIsBound
    <3>8. QED BY <3>4, <3>5, <3>6, <3>7 DEF StopInv
  <2>4. QED BY <2>2, <2>3
<1>12. CASE BlockDone
  <2> DEFINE x == IF h.left <= 0 THEN Released(h) ELSE h
  <2>0. call.at = "batch" /\ hd.mode = "v3" /\ call.at \in Reads \ {"event"} /\ call.todo = 0
        /\ UNCHANGED hd /\ MostShown = 2 * call.cnt - 1 /\ MostLate = 0
    <3>1. call.at = "batch" /\ hd.mode = "v3" /\ call.at \in Reads \ {"event"}
      BY <1>0, <1>12 DEF BlockDone, Reads, Phase
    <3>2. QED BY <1>0, <1>12, <3>1 DEF BlockDone, MostShown, MostLate, mmapped
  <2>1. x \in HandleStates /\ x.buffer = h.buffer /\ x.since = h.since /\ x.break_loop = h.break_loop
    BY <1>0, ReleasedType
  <2>2. \/ Return(-2, 0) /\ h' = Reset(x)
        \/ ~h.break_loop /\ At("block") /\ h' = x
    BY <1>12 DEF BlockDone, Broken
  <2> HIDE DEF x
  <2>3. CASE Return(-2, 0) /\ h' = Reset(x)
    <3>1. Len(h'.buffer) <= Burst /\ h'.since = 0 /\ h'.since <= MostLate
      <4>1. h'.buffer = h.buffer /\ h'.since = 0  BY <2>1, <2>3, ResetType
      <4>2. QED BY <1>0, <2>0, <4>1 DEF Counting
    <3>2. call.cnt > 0 => call.given + 0 <= MostShown  BY <1>0, <1>3, <2>0
    <3>3. QED BY <2>0, <2>3, <3>1, <3>2, -2 \in Int, ~(-2 >= 0), ReturnStops
  <2>4. CASE ~h.break_loop /\ At("block") /\ h' = x
    <3>1. /\ call'.at = "block" /\ call'.given = call.given /\ call'.cnt = call.cnt
          /\ call'.max = call.max /\ call'.pkts = call.pkts
      BY <1>0, <2>4, AtType DEF Reads
    <3>2. Phase'  BY <1>0, <2>0, <3>1 DEF Phase, Sets, mmapped
    <3>3. Counting'
      <4>1. Len(h'.buffer) <= Burst'  BY <1>0, <2>0, <2>1, <2>4 DEF Counting, Burst
      <4>2. call.cnt > 0 => call.pkts <= 2 * call.max - 1  BY <1>0, <2>0 DEF Counting
      <4>3. QED BY <1>0, <2>0, <3>1, <4>1, <4>2 DEF Counting
    <3>4. Prompt'  BY <1>0, <2>0, <2>1, <2>4, <3>1 DEF Prompt, mmapped, Device
    <3>5. CountIsBound'  BY <1>0, <2>0, <3>1 DEF CountIsBound
    <3>6. QED BY <3>2, <3>3, <3>4, <3>5 DEF StopInv
  <2>5. QED BY <2>2, <2>3, <2>4
<1>13. CASE Read
  <2>0. call.at = "read" /\ call.at \in Reads \ {"event", "batch"} /\ Device /\ hd.mode # "mapped"
        /\ UNCHANGED hd /\ MostLate = Burst
    <3>1. call.at = "read" /\ call.at \in Reads \ {"event", "batch"} /\ Device /\ hd.mode # "mapped"
      BY <1>0, <1>13 DEF Read, Reads, Phase
    <3>2. QED BY <1>13, <3>1 DEF Read, MostLate, Device
  <2>1. call.cnt > 0 => /\ call.max \in 1 .. call.cnt /\ call.pkts = 0
                        /\ call.given = call.cnt - call.max + call.pkts
    BY <1>0, <2>0 DEF Counting
  <2>2. ASSUME NEW n \in Datagrams, Return(-2, 0),
               h' = Reset(Lost(h, {p.id : p \in Range(Taken(n))}))
        PROVE  StopInv'
    <3>1. Lost(h, {p.id : p \in Range(Taken(n))}) \in HandleStates
      BY <1>0, ReadLost
    <3>2. h'.since = 0 /\ h'.buffer = <<>>  BY <1>0, <2>2, <3>1, ResetType DEF Lost, HandleStates
    <3>3. Len(h'.buffer) <= Burst /\ h'.since <= MostLate  BY <2>0, <3>2 DEF Burst
    <3>4. call.cnt > 0 => call.given + 0 <= MostShown  BY <1>0, <1>3, <2>0
    <3>5. QED BY <2>0, <2>2, <3>2, <3>3, <3>4, -2 \in Int, ~(-2 >= 0), ReturnStops
  <2>3. ASSUME NEW n \in Datagrams, ~h.break_loop, At("event"), h' = [h EXCEPT !.buffer = Taken(n)]
        PROVE  StopInv'
    <3>1. n \in 1 .. Burst /\ n \in 0 .. Len(kern.queue)
      <4>1. Len(kern.queue) \in 0 .. BlockCap  BY <1>0 DEF TypeOK, KernelStates, Bounded
      <4>2. QED BY <4>1 DEF Datagrams, Minimum, Burst
    <3>2. Len(Taken(n)) = n  BY <1>0, <3>1, LeftType
    <3>3. /\ call'.at = "event" /\ call'.given = call.given /\ call'.cnt = call.cnt
          /\ call'.max = call.max /\ call'.pkts = call.pkts
      BY <1>0, <2>3, AtType DEF Reads
    <3>4. h'.since = h.since /\ h'.break_loop = h.break_loop /\ h'.buffer = Taken(n)
      BY <1>0, <2>3 DEF HandleStates
    <3>5. Burst \in Nat /\ Burst' = Burst /\ h.since = 0 /\ (hd.mode # "nflog" => Burst = 1)
      BY <1>0, <2>0, <2>3 DEF Burst, Prompt
    <3>6. Phase'  BY <1>0, <2>0, <3>1, <3>2, <3>3, <3>4, <3>5 DEF Phase, Sets, Device, netfilter, mmapped
    <3>7. Counting'  BY <1>0, <2>0, <2>1, <3>1, <3>2, <3>3, <3>4, <3>5 DEF Counting
    <3>8. Prompt'
      BY <1>0, <2>0, <3>1, <3>2, <3>3, <3>4, <3>5 DEF Prompt, mmapped, Device
    <3>9. CountIsBound'  BY <1>0, <2>0, <3>3 DEF CountIsBound
    <3>10. QED BY <3>6, <3>7, <3>8, <3>9 DEF StopInv
  <2>4. CASE Break  BY <2>0, <2>4, BreakStops
  <2>5. ASSUME NEW n \in {-1, 0}, Return(n, 0), UNCHANGED h PROVE StopInv'
    BY <1>4, <2>0, <2>1, <2>5
  <2>6. CASE At("read") /\ UNCHANGED h  BY <1>1, <1>2, <2>0, <2>1, <2>6
  <2>7. QED BY <1>13, <2>2, <2>3, <2>4, <2>5, <2>6 DEF Read, AfterPoll
<1>14. ASSUME Handed \/ Unread, hd.mode \in {"text", "bin", "can"}, call.at = "event", UNCHANGED hd
       PROVE  StopInv'
  <2> DEFINE x == [h EXCEPT !.buffer = <<>>]
  <2>0. call.at \in Reads /\ MostLate = 1 /\ MostShown = call.cnt /\ Burst = 1 /\ Len(h.buffer) = 1
    BY <1>0, <1>14 DEF Reads, MostLate, MostShown, Burst, mmapped, Phase, netfilter
  <2>1. call.cnt > 0 => /\ call.max \in 1 .. call.cnt /\ call.pkts = 0
                        /\ call.given = call.cnt - call.max + call.pkts
    BY <1>0, <1>14, <2>0 DEF Counting, netfilter
  <2>2. h.since = 0  BY <1>0, <1>14, <2>0 DEF Prompt, Device, mmapped
  <2>3. x \in HandleStates /\ x.buffer = <<>> /\ x.since = 0 /\ x.break_loop = h.break_loop
    BY <1>0, <2>2, EmptyType DEF HandleStates
  <2>4. \/ \E n \in {0, 1} : Return(n, n) /\ (h' = x \/ h' = Counted(x))
        \/ Return(-1, 0) /\ h' = x
    BY <1>14 DEF Handed, Unread
  <2> HIDE DEF x
  <2>5. h' = x \/ h' = Counted(x)  BY <2>4
  <2>6. Len(h'.buffer) <= Burst /\ h'.since <= MostLate /\ (~h'.break_loop => h'.since = 0)
    BY <2>0, <2>3, <2>5, CountedType
  <2>7. ASSUME NEW n \in {0, 1}, Return(n, n) PROVE StopInv'
    <3>1. call.cnt > 0 => call.given + n <= MostShown /\ n = call.pkts + n  BY <1>0, <2>0, <2>1
    <3>2. n \in Int /\ n \in Nat  OBVIOUS
    <3>3. QED BY <1>14, <2>0, <2>6, <2>7, <3>1, <3>2, ReturnStops
  <2>8. CASE Return(-1, 0)
    <3>1. call.cnt > 0 => call.given + 0 <= MostShown  BY <1>0, <2>0, <2>1
    <3>2. QED BY <1>14, <2>0, <2>6, <2>8, <3>1, -1 \in Int, ~(-1 >= 0), ReturnStops
  <2>9. QED BY <2>4, <2>7, <2>8
<1>15. CASE usb_read_linux \/ usb_read_linux_bin \/ can_read_linux
  BY <1>14, <1>15 DEF usb_read_linux, usb_read_linux_bin, can_read_linux
<1>16. CASE Message
  <2> DEFINE p == Head(h.buffer)
             n == IF DeviceShows(p) THEN 1 ELSE 0
             x == [h EXCEPT !.buffer = Tail(@)]
             y == IF DeviceShows(p) THEN Counted(x) ELSE x
  <2>0. call.at = "event" /\ call.at \in Reads /\ netfilter /\ UNCHANGED hd /\ h.buffer # <<>>
        /\ h.buffer \in Bounded
    BY <1>0, <1>16 DEF Message, Reads, HandleStates
  <2>1. hd.mode \notin {"mapped", "v3"} /\ MostLate = Burst /\ Burst \in Nat /\ Burst' = Burst
        /\ MostShown = call.cnt - 1 + Burst /\ Device
    BY <1>0, <2>0 DEF netfilter, MostLate, MostShown, Burst, Device, mmapped
  <2>2. call.cnt > 0 => /\ call.max \in 1 .. call.cnt /\ call.pkts + Len(h.buffer) <= Burst
                        /\ call.given = call.cnt - call.max + call.pkts
    BY <1>0, <2>0, <2>1 DEF Counting
  <2>3. h.since + Len(h.buffer) <= Burst  BY <1>0, <2>0, <2>1 DEF Prompt
  <2>4. Tail(h.buffer) \in Bounded /\ Len(h.buffer) \in Nat /\ Len(h.buffer) > 0
        /\ Len(Tail(h.buffer)) = Len(h.buffer) - 1 /\ p.id \in Nat
    BY <2>0, BoundedTail DEF Packets
  <2>5. x \in HandleStates /\ x.buffer = Tail(h.buffer) /\ x.since = h.since
        /\ x.break_loop = h.break_loop
    BY <1>0, <2>4 DEF HandleStates
  <2>6. \/ /\ call' = [call EXCEPT !.pkts = @ + n, !.given = @ + n]
           /\ h' = y \/ h' = [y EXCEPT !.lost = @ \cup {p.id}]
        \/ Return(-1, 0) /\ h' = Lost(h, {q.id : q \in Range(h.buffer)})
    BY <1>16 DEF Message
  <2>7. CASE /\ call' = [call EXCEPT !.pkts = @ + n, !.given = @ + n]
             /\ h' = y \/ h' = [y EXCEPT !.lost = @ \cup {p.id}]
    <3>0. n \in {0, 1}  OBVIOUS
    <3>1. /\ y \in HandleStates /\ y.buffer = Tail(h.buffer)
          /\ y.break_loop = h.break_loop /\ y.since <= h.since + 1 /\ y.since \in Nat
          /\ (~h.break_loop => y.since = 0)
      <4> HIDE DEF x
      <4>1. Counted(x).since <= h.since + 1  BY <1>0, <2>5, CountedType
      <4>2. y.break_loop = h.break_loop /\ y.buffer = Tail(h.buffer) /\ y \in HandleStates
        BY <2>5, CountedType
      <4>3. ~h.break_loop => y.since = 0  BY <1>0, <2>5, CountedType DEF Prompt
      <4>4. y.since <= h.since + 1 /\ y.since \in Nat  BY <1>0, <2>5, <4>1, <4>2 DEF HandleStates
      <4>5. QED BY <4>2, <4>3, <4>4
    <3> HIDE DEF n, y, x
    <3>2. /\ h'.since = y.since /\ h'.buffer = Tail(h.buffer) /\ h'.break_loop = h.break_loop
      BY <2>7, <3>1 DEF HandleStates
    <3>3. /\ call'.at = "event" /\ call'.given = call.given + n /\ call'.cnt = call.cnt
          /\ call'.max = call.max /\ call'.pkts = call.pkts + n
      BY <1>0, <2>0, <2>7 DEF TypeOK, CallStates
    <3>4. Phase'  BY <1>0, <2>0, <3>3 DEF Phase, Sets, Device, mmapped, netfilter
    <3>5. Counting'
      <4>1. Len(h'.buffer) <= Burst'  BY <1>0, <2>1, <2>4, <3>2 DEF Counting
      <4>2. call.cnt > 0 => call'.pkts + Len(h'.buffer) <= Burst
        BY <1>0, <2>1, <2>2, <2>4, <3>0, <3>2, <3>3
      <4>3. ASSUME call.cnt > 0 PROVE call'.given = call'.cnt - call'.max + call'.pkts
        <5>1. \A c, m, k \in Int : (c - m + k) + n = c - m + (k + n)  BY <3>0
        <5>2. call.given + n = call.cnt - call.max + (call.pkts + n)
          <6>1. call.given = call.cnt - call.max + call.pkts  BY <2>2, <4>3
          <6>2. call.cnt \in Int /\ call.max \in Int /\ call.pkts \in Int  BY <1>0
          <6>3. QED BY <5>1, <6>1, <6>2
        <5>3. QED BY <3>3, <5>2
      <4>4. QED BY <2>0, <2>1, <2>2, <3>3, <4>1, <4>2, <4>3 DEF Counting, netfilter
    <3>6. Prompt'
      <4>1. h'.since + Len(h'.buffer) <= Burst /\ h'.since <= Burst
        BY <1>0, <2>1, <2>3, <2>4, <3>1, <3>2
      <4>2. QED BY <2>0, <2>1, <3>1, <3>2, <3>3, <4>1 DEF Prompt, mmapped, Device
    <3>7. CountIsBound'
      <4>1. ASSUME call.cnt > 0 PROVE call.given + n <= call.cnt - 1 + Burst
        <5>1. call.max >= 1 /\ call.pkts + Len(h.buffer) <= Burst
              /\ call.given = call.cnt - call.max + call.pkts
          BY <1>0, <2>2, <4>1
        <5>2. call.pkts + n <= Burst  BY <1>0, <2>1, <2>4, <3>0, <5>1
        <5>3. \A c, m, k, e \in Int : m >= 1 /\ k + n <= e => (c - m + k) + n <= c - 1 + e
          BY <3>0
        <5>4. QED BY <1>0, <2>1, <5>1, <5>2, <5>3
      <4>2. hd.mode # "nflog" => Burst = 1  BY DEF Burst
      <4>3. CASE hd.mode = "nflog"  BY <2>0, <3>3, <4>1, <4>3 DEF CountIsBound, Burst
      <4>4. CASE hd.mode # "nflog"  BY <1>0, <2>0, <2>1, <3>0, <3>3, <4>1, <4>2, <4>4 DEF CountIsBound
      <4>5. QED BY <4>3, <4>4
    <3>8. QED BY <3>4, <3>5, <3>6, <3>7 DEF StopInv
  <2>8. CASE Return(-1, 0) /\ h' = Lost(h, {q.id : q \in Range(h.buffer)})
    <3>1. {q.id : q \in Range(h.buffer)} \in SUBSET Nat
      <4>1. Range(h.buffer) \subseteq Packets  BY <2>0, RangeOfSeq DEF Bounded
      <4>2. QED BY <4>1 DEF Packets
    <3>2. h'.buffer = <<>> /\ h'.since = h.since /\ h'.break_loop = h.break_loop
      BY <1>0, <2>8, <3>1, LostType
    <3>3. Len(h'.buffer) <= Burst /\ h'.since <= MostLate /\ (~h'.break_loop => h'.since = 0)
      BY <1>0, <2>1, <2>3, <2>4, <3>2 DEF Prompt
    <3>4. call.cnt > 0 => call.given + 0 <= MostShown  BY <1>0, <1>3, <2>1
    <3>5. QED BY <2>0, <2>8, <3>3, <3>4, -1 \in Int, ~(-1 >= 0), ReturnStops
  <2>9. QED BY <2>6, <2>7, <2>8
<1>17. CASE DatagramDone
  <2>0. call.at = "event" /\ call.at \in Reads /\ UNCHANGED <<hd, h>> /\ Return(call.pkts, 0)
    BY <1>17 DEF DatagramDone, Reads
  <2>1. Len(h'.buffer) <= Burst  BY <1>0, <2>0 DEF Counting
  <2>2. call.cnt > 0 /\ hd.mode # "mapped" =>
          call.given + 0 <= MostShown /\ call.pkts = call.pkts + 0
    BY <1>0, <1>3
  <2>3. QED BY <1>0, <1>2, <2>0, <2>1, <2>2, ReturnStops DEF Prompt
<1>18. CASE Fetch
  <2>0. call.at = "read" /\ call.at \in Reads \ {"event", "batch"} /\ hd.mode = "mapped" /\ Device
        /\ UNCHANGED hd
    BY <1>0, <1>18 DEF Fetch, Reads, Phase
  <2>1. CASE Break  BY <2>0, <2>1, BreakStops
  <2>2. ASSUME NEW n \in {-1, 0}, Return(n, 0), UNCHANGED h PROVE StopInv'
    BY <1>4, <2>0, <2>2
  <2>3. CASE At("read") /\ UNCHANGED h  BY <1>1, <1>2, <2>0, <2>3
  <2>4. ASSUME NEW n, n = Minimum(Limit, Len(Flushed.queue)), UNCHANGED h, ~h.break_loop,
               call' = [call EXCEPT !.at = "event", !.nflush = n, !.todo = n]
        PROVE  StopInv'
    <3>1. n \in Nat /\ n <= VEC_SIZE  BY <1>0, <2>4, LimitType
    <3>2. call'.at = "event" /\ call'.todo = n /\ call'.cnt = call.cnt
      BY <1>0, <2>4 DEF TypeOK, CallStates
    <3>3. Phase'  BY <1>0, <2>0, <3>2 DEF Phase, Sets, Device, mmapped
    <3>4. Counting'  BY <1>0, <2>0, <2>4 DEF Counting, Burst
    <3>5. Prompt'  BY <1>0, <2>0, <2>4, <3>1, <3>2 DEF Prompt
    <3>6. CountIsBound'  BY <2>0 DEF CountIsBound
    <3>7. QED BY <3>3, <3>4, <3>5, <3>6 DEF StopInv
  <2>5. QED BY <1>18, <2>1, <2>2, <2>3, <2>4 DEF Fetch, AfterPoll
<1>19. CASE FetchedEvent
  <2> DEFINE p == kern.queue[call.nflush - call.todo + 1]
             n == IF DeviceShows(p) THEN 1 ELSE 0
  <2>0. call.at = "event" /\ hd.mode = "mapped" /\ call.todo > 0 /\ UNCHANGED hd
        /\ n \in {0, 1} /\ (h' = h \/ h' = Counted(h))
        /\ call' = [call EXCEPT !.todo = @ - 1, !.pkts = @ + n, !.given = @ + n]
    BY <1>19 DEF FetchedEvent
  <2> HIDE DEF n
  <2>1. call'.at = "event" /\ call'.todo = call.todo - 1 /\ call'.cnt = call.cnt
    BY <1>0, <2>0 DEF TypeOK, CallStates
  <2>2. h'.buffer = h.buffer /\ h'.break_loop = h.break_loop /\ h'.since \in Nat
        /\ h'.since <= h.since + 1 /\ (~h'.break_loop => h'.since = 0)
    <3>1. CASE h' = h  BY <1>0, <3>1 DEF Prompt
    <3>2. CASE h' = Counted(h)  BY <1>0, <3>2, CountedType
    <3>3. QED BY <2>0, <3>1, <3>2
  <2>3. Phase'  BY <1>0, <2>0, <2>1 DEF Phase, Sets, Device, mmapped
  <2>4. Counting'  BY <1>0, <2>0, <2>2 DEF Counting, Burst
  <2>5. Prompt'
    <3>1. h.since + call.todo <= VEC_SIZE  BY <1>0, <2>0 DEF Prompt
    <3>2. h'.since <= VEC_SIZE /\ h'.since + call'.todo <= VEC_SIZE
      BY <1>0, <2>0, <2>1, <2>2, <3>1
    <3>3. QED BY <2>0, <2>1, <2>2, <3>2 DEF Prompt
  <2>6. CountIsBound'  BY <2>0 DEF CountIsBound
  <2>7. QED BY <2>3, <2>4, <2>5, <2>6 DEF StopInv
<1>20. CASE FetchDone
  <2>0. call.at = "event" /\ call.at \in Reads \ {"batch"} /\ hd.mode = "mapped" /\ UNCHANGED <<hd, h>>
    BY <1>20 DEF FetchDone, Reads
  <2>1. Len(h'.buffer) <= Burst  BY <1>0, <2>0 DEF Counting
  <2>2. CASE Return(call.pkts, 0)
    BY <1>0, <1>2, <2>0, <2>1, <2>2, ReturnStops DEF Prompt
  <2>3. CASE At("read")
    <3>1. call'.at = "read" /\ call'.cnt = call.cnt  BY <1>0, <2>3, AtType DEF Reads
    <3>2. Phase'  BY <1>0, <2>0, <3>1 DEF Phase, Sets, Device, mmapped
    <3>3. Counting'  BY <1>0, <2>0 DEF Counting, Burst
    <3>4. Prompt'  BY <1>0, <2>0, <3>1 DEF Prompt
    <3>5. CountIsBound'  BY <2>0 DEF CountIsBound
    <3>6. QED BY <3>2, <3>3, <3>4, <3>5 DEF StopInv
  <2>4. QED BY <1>20, <2>2, <2>3 DEF FetchDone
<1>21. QED
  BY <1>5, <1>6, <1>7, <1>8, <1>9, <1>10, <1>11, <1>12, <1>13, <1>15, <1>16, <1>17, <1>18,
     <1>19, <1>20 DEF Reader

\* A step outside the read operations leaves the count and what was shown alone.
LEMMA StopOthers ==
    ASSUME StopInv, Setter \/ Kernel \/ Calls \/ pcap_breakloop, TypeOK'
    PROVE  StopInv'
<1> USE CaptureAssumption
<1>0. /\ TypeOK /\ Phase /\ Counting /\ Prompt /\ CountIsBound /\ hd.mode \in Modes
      /\ h \in HandleStates /\ call \in CallStates /\ h.since \in Nat
  BY HandleType DEF StopInv, TypeOK, HandleStates
<1>1. ASSUME UNCHANGED hd, h'.since = h.since, h'.break_loop = h.break_loop, h'.buffer = h.buffer,
             call.at \in Sets \cup {"idle"}, call'.at \in Sets \cup {"idle"}, call'.cnt = 0
      PROVE  StopInv'
  <2>1. {"recv", "recvmsg", "wait", "poll", "frame", "block", "batch", "read", "event"}
          \cap (Sets \cup {"idle"}) = {}
    BY DEF Sets
  <2>2. Phase' /\ Counting'  BY <1>0, <1>1, <2>1 DEF Phase, Counting, Reads, Burst
  <2>3. Prompt'  BY <1>0, <1>1, <2>1 DEF Prompt, Burst, Device, mmapped
  <2>4. CountIsBound'  BY <1>1 DEF CountIsBound
  <2>5. QED BY <2>2, <2>3, <2>4 DEF StopInv
<1>2. ASSUME UNCHANGED <<hd, call>>, h'.since = h.since, h'.break_loop = h.break_loop,
             h'.buffer = h.buffer
      PROVE  StopInv'
  <2>1. Phase' /\ Counting'
    BY <1>0, <1>2 DEF Phase, Counting, Burst, mmapped, Device, netfilter
  <2>2. Prompt' /\ CountIsBound'  BY <1>0, <1>2 DEF Prompt, CountIsBound, Burst, mmapped, Device
  <2>3. QED BY <2>1, <2>2 DEF StopInv
<1>3. ASSUME Setter, UNCHANGED hd, h'.since = h.since, h'.break_loop = h.break_loop,
             h'.buffer = h.buffer
      PROVE  StopInv'
  <2>1. call.at \in Sets /\ call.cnt = 0
    BY <1>0, <1>3 DEF Setter, Program, Install, Total, Drain, Attach, Userland, Walk, Sets, Phase
  <2>2. CASE Finish  BY <1>1, <1>3, <2>1, <2>2 DEF Finish, Idle
  <2>3. ASSUME NEW a \in Sets, At(a) PROVE StopInv'
    BY <1>0, <1>1, <1>3, <2>1, <2>3, AtType
  <2>4. CASE call' = [call EXCEPT !.at = "drain", !.total = TRUE]
    <3>1. call'.at = "drain" /\ call'.cnt = call.cnt  BY <1>0, <2>4 DEF CallStates
    <3>2. QED BY <1>1, <1>3, <2>1, <3>1 DEF Sets
  <2>5. CASE UNCHANGED call  BY <1>2, <1>3, <2>5
  <2>6. QED BY <1>3, <2>2, <2>3, <2>4, <2>5
    DEF Setter, Program, Install, Total, Drain, Attach, Userland, Walk, Sets
<1>4. CASE Setter
  <2>1. h'.since = h.since /\ h'.break_loop = h.break_loop /\ h'.buffer = h.buffer
    BY <1>0, <1>4 DEF Setter, Program, Install, Total, Drain, Attach, Userland, Walk, HandleStates
  <2>2. QED BY <1>3, <1>4, <2>1 DEF Setter, Program, Install, Total, Drain, Attach, Userland, Walk
<1>5. CASE Kernel \/ pcap_inject
  BY <1>2, <1>5 DEF Kernel, Arrive, Store, RetireBlock, pcap_inject, Do
<1>6. CASE pcap_setdirection \/ pcap_setnonblock \/ pcap_stats \/ DeviceStats
  <2>1. h'.since = h.since /\ h'.break_loop = h.break_loop /\ h'.buffer = h.buffer
    BY <1>0, <1>6 DEF pcap_setdirection, pcap_setnonblock, pcap_stats, DeviceStats, Do, HandleStates
  <2>2. QED BY <1>2, <1>6, <2>1
    DEF pcap_setdirection, pcap_setnonblock, pcap_stats, DeviceStats, Do
<1>7. ASSUME NEW o \in {"dispatch", "next", "loop"}, NEW n \in Int,
             Begin(Reading([Idle EXCEPT !.op = o, !.cnt = n], n))
      PROVE  StopInv'
  <2>1. call.at = "idle" /\ UNCHANGED <<hd, h>>  BY <1>7 DEF Begin
  <2>2. /\ call'.at \in Starts /\ call'.cnt = n /\ call'.max = n /\ call'.given = 0 /\ call'.pkts = 0
        /\ call'.at = "recv" => hd.mode = "sock"
        /\ call'.at = "wait" => mmapped
        /\ call'.at = "block" => hd.mode = "v3"
        /\ call'.at = "read" => Device
    <3> DEFINE d == [Idle EXCEPT !.op = o, !.cnt = n]
    <3>1. d \in CallStates  BY IdleType, Zenon DEF CallStates, Operations
    <3>2. d.cnt = n /\ d.given = 0  BY DEF Idle
    <3>3. call' = Reading(d, n)  BY <1>7 DEF Begin
    <3>4. TypeOK  BY <1>0
    <3> HIDE DEF d
    <3>5. QED BY <3>1, <3>2, <3>3, <3>4, ReadingType
  <2>3. call'.at \notin {"recvmsg", "poll", "frame", "batch", "event"} \cup Sets
    BY <2>2 DEF Starts, Sets
  <2>4. Phase'  BY <1>0, <2>1, <2>2, <2>3 DEF Phase, mmapped, Device
  <2>5. Counting'
    <3>1. Len(h'.buffer) <= Burst'  BY <1>0, <2>1 DEF Counting, Burst
    <3>2. n > 0 => n \in 1 .. n /\ 0 = n - n + 0 /\ 0 <= 2 * n - 1  OBVIOUS
    <3>3. QED BY <2>2, <2>3, <3>1, <3>2 DEF Counting
  <2>6. Prompt'  BY <1>0, <2>1, <2>3 DEF Prompt, Burst, mmapped, Device
  <2>7. CountIsBound'
    <3>1. n > 0 => 0 <= 2 * n - 1 /\ 0 <= n - 1 + BlockCap /\ 0 <= n  OBVIOUS
    <3>2. QED BY <2>2, <3>1 DEF CountIsBound
  <2>8. QED BY <2>4, <2>5, <2>6, <2>7 DEF StopInv
<1>8. CASE pcap_dispatch  BY <1>7, <1>8 DEF pcap_dispatch
<1>9. CASE pcap_next_ex
  <2>1. Begin(Reading([Idle EXCEPT !.op = "next", !.cnt = 1], 1))  BY <1>9 DEF pcap_next_ex
  <2>2. "next" \in {"dispatch", "next", "loop"} /\ 1 \in Int  OBVIOUS
  <2>3. QED BY <1>7, <2>1, <2>2, Zenon
<1>10. CASE pcap_loop  BY <1>7, <1>10 DEF pcap_loop
<1>11. CASE pcap_setfilter
  <2>1. PICK f \in hd.filters, a \in {"program", "install"} :
          Begin([Idle EXCEPT !.op = "setfilter", !.at = a, !.f = f])
    BY <1>11 DEF pcap_setfilter
  <2>2. f \in Filters /\ a \in Sets  BY <1>0, HandleType DEF Sets
  <2>3. call'.at = a /\ call'.cnt = 0 /\ call.at = "idle" /\ UNCHANGED <<hd, h>>
    BY <2>1, <2>2, SetBegins DEF Begin
  <2>4. QED BY <1>1, <2>2, <2>3
<1>12. CASE pcap_breakloop
  <2>1. h' = [h EXCEPT !.break_loop = TRUE, !.since = 0] /\ UNCHANGED <<hd, call>>
    BY <1>12 DEF pcap_breakloop
  <2>2. h'.since = 0 /\ h'.buffer = h.buffer  BY <1>0, <2>1 DEF HandleStates
  <2>3. Phase' /\ Counting'
    BY <1>0, <2>1, <2>2 DEF Phase, Counting, Burst, mmapped, Device, netfilter
  <2>4. Prompt'
    <3>1. Burst \in Nat /\ Burst' = Burst  BY <2>1 DEF Burst
    <3>2. h.since >= 0 /\ call.todo \in Nat /\ Len(h.buffer) \in Nat
      BY <1>0 DEF CallStates, HandleStates, Bounded
    <3>3. QED BY <1>0, <2>1, <2>2, <3>1, <3>2 DEF Prompt, mmapped, Device
  <2>5. CountIsBound'  BY <1>0, <2>1 DEF CountIsBound
  <2>6. QED BY <2>3, <2>4, <2>5 DEF StopInv
<1>13. QED
  BY <1>4, <1>5, <1>6, <1>8, <1>9, <1>10, <1>11, <1>12 DEF Calls

LEMMA StopStep == StopInv /\ [Next]_vars => StopInv'
<1>1. StopInv /\ UNCHANGED vars => StopInv'
  BY DEF StopInv, TypeOK, Phase, Counting, Prompt, CountIsBound, Burst, mmapped, Device, netfilter, vars
<1>2. QED BY <1>1, TypeStep, StopReads, StopOthers DEF Next, StopInv

LEMMA StopAlways == Spec => []StopInv
BY InitStop, StopStep, PTL DEF Spec

\* Whatever the handle, the traffic, the filters and the counts, and however the calls and
\* pcap_breakloop() interleave with the packets that arrive: a call shows no more than its count
\* (with a ring of blocks, less than twice as many), and no more than a batch after a break.
THEOREM ReadsStop == Spec => []CallsStop
<1>1. StopInv => CallsStop
  <2>1. ASSUME StopInv PROVE BreakIsPrompt
    <3>1. hd.mode \in Modes /\ h.since \in Nat /\ call.todo \in Nat /\ Prompt
      BY <2>1, HandleType DEF StopInv, TypeOK, HandleStates, CallStates
    <3>2. QED BY <3>1, CaptureAssumption DEF Prompt, BreakIsPrompt, Burst, Device, mmapped, Modes
  <2>2. QED BY <2>1 DEF StopInv, CallsStop
<1>2. QED BY <1>1, StopAlways, PTL

-----------------------------------------------------------------------------
(* What an NFQUEUE group holds back *)

IdsOf(s) == {s[i].id : i \in DOMAIN s}

\* With b read and l lost, the kernel holds what is in b, in its queue or in l, and each packet is
\* in one of these places only, once, or is still on its way to the queue.
Accounted(k, b, l) ==
    /\ k.held = IdsOf(b) \cup IdsOf(k.queue) \cup l
    /\ \A i, j \in DOMAIN k.queue : k.queue[i].id = k.queue[j].id => i = j
    /\ IdsOf(b) \cap IdsOf(k.queue) = {}
    /\ l \cap (IdsOf(b) \cup IdsOf(k.queue)) = {}
    /\ \A p \in k.inflight : p.id \notin k.held /\ p.id < k.next
    /\ \A p, q \in k.inflight : p.id = q.id => p = q
    /\ \A n \in k.held : n < k.next

HeldInv ==
    /\ StopInv
    /\ hd.mode = "nfqueue" =>
         /\ Accounted(kern, h.buffer, h.lost)
         /\ call.at # "event" => h.buffer = <<>>
         /\ call.at \in Sets => call.at = "program"

LEMMA IdsAppend ==
    ASSUME NEW q \in Seq(Packets), NEW p \in Packets
    PROVE  IdsOf(Append(q, p)) = IdsOf(q) \cup {p.id}
<1>1. /\ DOMAIN q = 1 .. Len(q) /\ DOMAIN Append(q, p) = 1 .. Len(q) + 1 /\ Len(q) \in Nat
      /\ \A i \in 1 .. Len(q) : Append(q, p)[i] = q[i]
      /\ Append(q, p)[Len(q) + 1] = p
  BY AppendProperties
<1>2. \A i \in 1 .. Len(q) + 1 : i \in 1 .. Len(q) \/ i = Len(q) + 1  BY <1>1
<1>3. 1 .. Len(q) \subseteq 1 .. Len(q) + 1 /\ Len(q) + 1 \in 1 .. Len(q) + 1  BY <1>1
<1>4. QED BY <1>1, <1>2, <1>3, Zenon DEF IdsOf

LEMMA IdsEmpty == IdsOf(<<>>) = {}
BY DEF IdsOf

\* a packet is put into the queue, or dropped
LEMMA StoredHeld ==
    ASSUME hd.mode = "nfqueue", NEW k \in KernelStates, NEW b, NEW l, Accounted(k, b, l),
           NEW p \in Packets, p.id \notin k.held, p.id < k.next,
           \A q \in k.inflight : q.id # p.id
    PROVE  Accounted(Stored(k, p), b, l)
<1>1. CASE Len(k.queue) < BlockCap
  <2> DEFINE s == Stored(k, p)
  <2>1. s = [[k EXCEPT !.packets = @ + 1] EXCEPT !.queue = Append(@, p), !.held = @ \cup {p.id}]
    BY <1>1 DEF Stored, mmapped
  <2>2. /\ s.queue = Append(k.queue, p) /\ s.held = k.held \cup {p.id}
        /\ s.inflight = k.inflight /\ s.next = k.next
    BY <2>1 DEF KernelStates
  <2> HIDE DEF s
  <2>3. k.queue \in Seq(Packets)  BY DEF KernelStates, Bounded
  <2>4. IdsOf(s.queue) = IdsOf(k.queue) \cup {p.id}  BY <2>2, <2>3, IdsAppend
  <2>5. p.id \notin IdsOf(k.queue) /\ p.id \notin IdsOf(b) /\ p.id \notin l  BY DEF Accounted
  <2>6. \A i, j \in DOMAIN s.queue : s.queue[i].id = s.queue[j].id => i = j
    <3>1. /\ DOMAIN k.queue = 1 .. Len(k.queue) /\ DOMAIN s.queue = 1 .. Len(k.queue) + 1
          /\ \A i \in 1 .. Len(k.queue) : s.queue[i] = k.queue[i]
          /\ s.queue[Len(k.queue) + 1] = p /\ Len(k.queue) \in Nat
      BY <2>2, <2>3, AppendProperties
    <3>2. \A i \in DOMAIN s.queue : i \in DOMAIN k.queue \/ i = Len(k.queue) + 1  BY <3>1
    <3>3. \A i \in DOMAIN k.queue : k.queue[i].id # p.id  BY <2>5 DEF IdsOf
    <3>4. \A i, j \in DOMAIN k.queue : k.queue[i].id = k.queue[j].id => i = j  BY DEF Accounted
    <3>5. QED BY <3>1, <3>2, <3>3, <3>4, Zenon
  <2>7. QED BY <2>2, <2>4, <2>5, <2>6 DEF Accounted, s
<1>2. CASE ~(Len(k.queue) < BlockCap)
  <2>1. Stored(k, p) = Dropped(k)  BY <1>2 DEF Stored, mmapped
  <2>2. /\ Stored(k, p).queue = k.queue /\ Stored(k, p).held = k.held
        /\ Stored(k, p).inflight = k.inflight /\ Stored(k, p).next = k.next
    BY <2>1 DEF Dropped, KernelStates
  <2>3. QED BY <2>2 DEF Accounted
<1>3. QED BY <1>1, <1>2

\* the oldest packet of the queue is read, or a break throws it away
LEMMA TakenHeld ==
    ASSUME NEW k \in KernelStates, NEW l, Accounted(k, <<>>, l), k.queue # <<>>,
           NEW n, n = [k EXCEPT !.queue = SubSeq(@, 2, Len(@))],
           NEW t, t = SubSeq(k.queue, 1, 1)
    PROVE  Accounted(n, t, l) /\ Accounted(n, <<>>, l \cup IdsOf(t))
<1>1. k.queue \in Seq(Packets) /\ Len(k.queue) \in Nat /\ Len(k.queue) > 0
  BY EmptySeq DEF KernelStates, Bounded
<1>2. /\ n.queue = SubSeq(k.queue, 2, Len(k.queue)) /\ n.held = k.held
      /\ n.inflight = k.inflight /\ n.next = k.next
  BY DEF KernelStates
<1>3. /\ DOMAIN n.queue = 1 .. Len(k.queue) - 1
      /\ \A i \in 1 .. Len(k.queue) - 1 : n.queue[i] = k.queue[i + 1]
  <2>1. \A i \in 2 .. Len(k.queue) : k.queue[i] \in Packets  BY <1>1
  <2>2. QED BY <1>1, <1>2, <2>1, SubSeqProperties
<1>4. DOMAIN t = 1 .. 1 /\ t[1] = k.queue[1]
  <2>1. \A i \in 1 .. 1 : k.queue[i] \in Packets  BY <1>1
  <2>2. QED BY <1>1, <2>1, SubSeqProperties
<1>5. DOMAIN k.queue = 1 .. Len(k.queue)  BY <1>1
<1>6. \A i \in DOMAIN n.queue : i + 1 \in DOMAIN k.queue /\ i + 1 # 1 /\ i \in Nat
  BY <1>1, <1>3, <1>5
<1>7. \A i \in DOMAIN k.queue : i = 1 \/ (i - 1 \in DOMAIN n.queue /\ n.queue[i - 1] = k.queue[i])
  <2>1. TAKE i \in DOMAIN k.queue
  <2>2. i = 1 \/ (i - 1 \in 1 .. Len(k.queue) - 1 /\ (i - 1) + 1 = i)  BY <1>1, <1>5
  <2>3. i - 1 \in 1 .. Len(k.queue) - 1 => n.queue[i - 1] = k.queue[(i - 1) + 1]  BY <1>3
  <2>4. QED BY <1>3, <2>2, <2>3
<1>8. IdsOf(t) = {k.queue[1].id}  BY <1>4 DEF IdsOf
<1>9. \A i, j \in DOMAIN k.queue : k.queue[i].id = k.queue[j].id => i = j  BY DEF Accounted
<1>0. 1 \in DOMAIN k.queue  BY <1>1, <1>5
<1>10. k.queue[1].id \notin IdsOf(n.queue)
  <2>1. \A i \in DOMAIN n.queue : n.queue[i].id # k.queue[1].id
    BY <1>0, <1>3, <1>6, <1>9
  <2>2. QED BY <2>1, Zenon DEF IdsOf
<1>11. IdsOf(k.queue) = IdsOf(t) \cup IdsOf(n.queue)
  <2>1. IdsOf(n.queue) \subseteq IdsOf(k.queue)  BY <1>3, <1>6 DEF IdsOf
  <2>2. IdsOf(k.queue) \subseteq {k.queue[1].id} \cup IdsOf(n.queue)  BY <1>7 DEF IdsOf
  <2>3. k.queue[1].id \in IdsOf(k.queue)  BY <1>0, Zenon DEF IdsOf
  <2>4. QED BY <1>8, <2>1, <2>2, <2>3
<1>12. \A i, j \in DOMAIN n.queue : n.queue[i].id = n.queue[j].id => i = j
  <2>1. TAKE i, j \in DOMAIN n.queue
  <2>2. HAVE n.queue[i].id = n.queue[j].id
  <2>3. i + 1 = j + 1  BY <1>3, <1>6, <1>9, <2>2
  <2>4. QED BY <1>6, <2>3
<1>13. QED BY <1>2, <1>8, <1>10, <1>11, <1>12, IdsEmpty DEF Accounted

\* the packet at hand gets its verdict, or none ever
LEMMA VerdictHeld ==
    ASSUME NEW k \in KernelStates, NEW b \in Seq(Packets), Len(b) = 1, NEW l, Accounted(k, b, l)
    PROVE  /\ Accounted(Verdict(k, Head(b)), <<>>, l)
           /\ Accounted(k, <<>>, l \cup {Head(b).id})
           /\ IdsOf(b) = {Head(b).id}
<1>1. DOMAIN b = {1} /\ Head(b) = b[1]  OBVIOUS
<1>2. IdsOf(b) = {Head(b).id}  BY <1>1 DEF IdsOf
<1> DEFINE v == Verdict(k, Head(b))
<1>3. /\ v.queue = k.queue /\ v.held = k.held \ {Head(b).id}
      /\ v.inflight = k.inflight /\ v.next = k.next
  BY DEF Verdict, KernelStates
<1> HIDE DEF v
<1>4. Accounted(v, <<>>, l)  BY <1>2, <1>3, IdsEmpty DEF Accounted
<1>5. Accounted(k, <<>>, l \cup {Head(b).id})  BY <1>2, IdsEmpty DEF Accounted
<1>6. QED BY <1>2, <1>4, <1>5 DEF v

LEMMA InitHeld == Init => HeldInv
<1> SUFFICES ASSUME Init PROVE HeldInv
  OBVIOUS
<1>1. /\ kern.held = {} /\ kern.queue = <<>> /\ kern.inflight = {} /\ h.buffer = <<>> /\ h.lost = {}
      /\ call.at = "idle"
  BY DEF Init, Idle
<1>2. Accounted(kern, h.buffer, h.lost)  BY <1>1, IdsEmpty DEF Accounted
<1>3. QED BY <1>1, <1>2, InitStop DEF HeldInv, Sets

\* the kernel's steps and the packets that arrive
LEMMA KernelHolds ==
    ASSUME HeldInv, hd.mode = "nfqueue", Kernel
    PROVE  Accounted(kern', h.buffer, h.lost) /\ UNCHANGED <<h, call>>
<1> USE DEF HeldInv, StopInv
<1>1. TypeOK /\ kern \in KernelStates /\ Accounted(kern, h.buffer, h.lost) /\ kern.next \in Nat
  BY DEF TypeOK, KernelStates
<1>2. CASE Arrive
  <2>1. PICK t \in hd.traffic :
          \/ kern' = Received(t)
          \/ kern' = [Arrived EXCEPT !.inflight = @ \cup {Filtered(Numbered(t), kern.filter)}]
    BY <1>2 DEF Arrive
  <2> DEFINE p == Filtered(Numbered(t), kern.filter)
  <2>2. p \in Packets /\ Arrived \in KernelStates  BY <1>1, ReceivedType
  <2>3. p.id = kern.next
    <3>1. t \in Packets /\ kern.filter \in Filters  BY <1>1, HandleType DEF KernelStates
    <3>2. Numbered(t) \in Packets /\ Numbered(t).id = kern.next
      BY <1>1, <3>1, FilteredType DEF Numbered, Packets
    <3>3. QED BY <3>1, <3>2, FilteredType
  <2>4. /\ Arrived.next = kern.next + 1 /\ Arrived.held = kern.held /\ Arrived.queue = kern.queue
        /\ Arrived.inflight = kern.inflight
    BY <1>1 DEF Arrived, KernelStates
  <2> HIDE DEF p
  <2>5. /\ \A n \in kern.held : n < kern.next /\ n \in Nat
        /\ \A q \in kern.inflight : q.id < kern.next /\ q.id \in Nat /\ q.id \notin kern.held
    BY <1>1 DEF Accounted, KernelStates, Packets
  <2>6. /\ p.id \notin kern.held /\ p.id < kern.next + 1 /\ \A q \in kern.inflight : q.id # p.id
        /\ \A n \in kern.held : n < kern.next + 1
        /\ \A q \in kern.inflight : q.id < kern.next + 1
    BY <1>1, <2>3, <2>5
  <2>7. Accounted(Arrived, h.buffer, h.lost)  BY <1>1, <2>4, <2>6 DEF Accounted
  <2>8. CASE kern' = Received(t)
    <3>1. kern' = Stored(Arrived, p) \/ kern' = Arrived  BY <2>8 DEF Received, p
    <3>2. Accounted(Stored(Arrived, p), h.buffer, h.lost)
      BY <2>2, <2>4, <2>6, <2>7, StoredHeld
    <3>3. QED BY <1>2, <2>7, <3>1, <3>2 DEF Arrive
  <2>9. CASE kern' = [Arrived EXCEPT !.inflight = @ \cup {p}]
    <3>1. /\ kern'.inflight = kern.inflight \cup {p} /\ kern'.next = kern.next + 1
          /\ kern'.held = kern.held /\ kern'.queue = kern.queue
      BY <2>2, <2>4, <2>9 DEF KernelStates
    <3>2. Accounted(kern', h.buffer, h.lost)  BY <1>1, <2>6, <3>1 DEF Accounted
    <3>3. QED BY <1>2, <3>2 DEF Arrive
  <2>10. QED BY <2>1, <2>8, <2>9 DEF p
<1>3. CASE Store
  <2>1. PICK p \in kern.inflight : kern' = Stored([kern EXCEPT !.inflight = @ \ {p}], p)
    BY <1>3 DEF Store
  <2> DEFINE k == [kern EXCEPT !.inflight = @ \ {p}]
  <2>2. /\ k \in KernelStates /\ k.inflight = kern.inflight \ {p} /\ k.next = kern.next
        /\ k.held = kern.held /\ k.queue = kern.queue
    BY <1>1 DEF KernelStates
  <2>3. p \in Packets /\ p.id \notin k.held /\ p.id < k.next /\ \A q \in k.inflight : q.id # p.id
    BY <1>1, <2>2 DEF Accounted, KernelStates
  <2>4. kern' = Stored(k, p)  BY <2>1
  <2> HIDE DEF k
  <2>5. Accounted(k, h.buffer, h.lost)  BY <1>1, <2>2 DEF Accounted
  <2>6. QED BY <1>3, <2>2, <2>3, <2>4, <2>5, StoredHeld DEF Store
<1>4. QED BY <1>2, <1>3 DEF Kernel, RetireBlock

\* the steps of netfilter_read_linux()
LEMMA ReaderHolds ==
    ASSUME HeldInv, hd.mode = "nfqueue", Read \/ Message \/ DatagramDone
    PROVE  /\ Accounted(kern', h'.buffer, h'.lost)
           /\ call'.at # "event" => h'.buffer = <<>>
           /\ call'.at \notin Sets
<1> USE DEF HeldInv, StopInv
<1>1. /\ TypeOK /\ kern \in KernelStates /\ h \in HandleStates /\ call \in CallStates
      /\ Accounted(kern, h.buffer, h.lost) /\ Len(h.buffer) <= 1
      /\ call.at # "event" => h.buffer = <<>>
  BY DEF TypeOK, Counting, Burst
<1>2. h.buffer \in Seq(Packets) /\ Len(h.buffer) \in Nat  BY <1>1 DEF HandleStates, Bounded
<1>3. ASSUME NEW n \in Int, Return(n, 0) PROVE call'.at \in Starts \cup {"idle"}
  BY <1>1, <1>3, ReturnType
<1>4. Starts \cap (Sets \cup {"event"}) = {} /\ "idle" \notin Sets \cup {"event"} /\ "event" \notin Sets
  BY DEF Starts, Sets
<1>5. ASSUME Break PROVE h'.buffer = h.buffer /\ h'.lost = h.lost /\ call'.at = "idle"
  BY <1>1, <1>5, BreakType DEF Break, Reset, HandleStates
<1>6. CASE Read
  <2>1. h.buffer = <<>> /\ call.at = "read"  BY <1>1, <1>6 DEF Read
  <2>2. CASE \E n \in Datagrams :
               /\ kern' = Left(n)
               /\ IF h.break_loop THEN Return(-2, 0) /\ h' = Reset(Lost(h, {p.id : p \in Range(Taken(n))}))
                  ELSE At("event") /\ h' = [h EXCEPT !.buffer = Taken(n)]
    <3>1. PICK n \in Datagrams :
            /\ kern' = Left(n)
            /\ IF h.break_loop THEN Return(-2, 0) /\ h' = Reset(Lost(h, {p.id : p \in Range(Taken(n))}))
               ELSE At("event") /\ h' = [h EXCEPT !.buffer = Taken(n)]
      BY <2>2
    <3>2. n = 1 /\ kern.queue # <<>> /\ kern.queue \in Seq(Packets)
      BY <1>1 DEF Datagrams, Minimum, KernelStates, Bounded
    <3> DEFINE t == Taken(1)
    <3>3. /\ kern' = [kern EXCEPT !.queue = SubSeq(@, 2, Len(@))]
          /\ t = SubSeq(kern.queue, 1, 1)
      BY <3>1, <3>2 DEF Left, Taken
    <3>4. {p.id : p \in Range(t)} = IdsOf(t)
      <4>1. Range(t) = {t[i] : i \in DOMAIN t}  BY DEF Range
      <4>2. QED BY <4>1, Zenon DEF IdsOf
    <3> HIDE DEF t
    <3>5. Accounted(kern', t, h.lost) /\ Accounted(kern', <<>>, h.lost \cup IdsOf(t))
      BY <1>1, <2>1, <3>2, <3>3, TakenHeld
    <3>6. CASE h.break_loop
      <4>1. h' = Reset(Lost(h, IdsOf(t))) /\ Return(-2, 0)  BY <3>1, <3>2, <3>4, <3>6 DEF t
      <4>2. h'.buffer = <<>> /\ h'.lost = h.lost \cup IdsOf(t)
        BY <1>1, <4>1 DEF Reset, Lost, HandleStates
      <4>3. QED BY <1>3, <1>4, <3>5, <4>1, <4>2
    <3>7. CASE ~h.break_loop
      <4>1. h' = [h EXCEPT !.buffer = t] /\ At("event")  BY <3>1, <3>2, <3>7 DEF t
      <4>2. h'.buffer = t /\ h'.lost = h.lost /\ call'.at = "event"
        BY <1>1, <4>1 DEF At, HandleStates, CallStates
      <4>3. QED BY <1>4, <3>5, <4>2
    <3>8. QED BY <3>6, <3>7
  <2>3. CASE /\ UNCHANGED kern
             /\ \/ Break
                \/ \E n \in Int : Return(n, 0) /\ UNCHANGED h
                \/ At("read") /\ UNCHANGED h
    <3>2. CASE Break  BY <1>1, <1>4, <1>5, <2>1, <2>3, <3>2
    <3>3. CASE \E n \in Int : Return(n, 0) /\ UNCHANGED h  BY <1>1, <1>3, <1>4, <2>1, <2>3, <3>3
    <3>4. CASE At("read") /\ UNCHANGED h
      BY <1>1, <2>1, <2>3, <3>4 DEF At, CallStates, Sets
    <3>5. QED BY <2>3, <3>2, <3>3, <3>4
  <2>4. QED BY <1>6, <2>2, <2>3, 0 \in Int, -1 \in Int DEF Read, AfterPoll
<1>7. CASE Message
  <2> DEFINE p == Head(h.buffer)
             n == IF DeviceShows(p) THEN 1 ELSE 0
             x == [h EXCEPT !.buffer = Tail(@)]
             y == IF DeviceShows(p) THEN Counted(x) ELSE x
  <2>1. Len(h.buffer) = 1 /\ h.buffer # <<>> /\ call.at = "event"
    <3>1. h.buffer # <<>> /\ call.at = "event"  BY <1>7 DEF Message
    <3>2. Len(h.buffer) # 0  BY <1>2, <3>1, EmptySeq
    <3>3. \A k \in Nat : k <= 1 /\ k # 0 => k = 1  OBVIOUS
    <3>4. QED BY <1>1, <1>2, <3>1, <3>2, <3>3
  <2>2. Tail(h.buffer) = <<>>
    <3>1. Tail(h.buffer) \in Seq(Packets) /\ Len(Tail(h.buffer)) = 0
      BY <1>2, <2>1, HeadTailProperties
    <3>2. QED BY <3>1, EmptySeq
  <2>3. y.buffer = <<>> /\ y.lost = h.lost /\ DOMAIN y = DOMAIN h
    BY <1>1, <2>2 DEF Counted, HandleStates
  <2>4. /\ Accounted(Verdict(kern, p), <<>>, h.lost) /\ Accounted(kern, <<>>, h.lost \cup {p.id})
        /\ IdsOf(h.buffer) = {p.id}
    BY <1>1, <1>2, <2>1, VerdictHeld
  <2> HIDE DEF y
  <2>5. \/ h' = y /\ kern' = Verdict(kern, p) /\ call' = [call EXCEPT !.pkts = @ + n, !.given = @ + n]
        \/ /\ UNCHANGED kern /\ h' = [y EXCEPT !.lost = @ \cup {p.id}]
           /\ call' = [call EXCEPT !.pkts = @ + n, !.given = @ + n]
        \/ Return(-1, 0) /\ h' = Lost(h, {q.id : q \in Range(h.buffer)}) /\ UNCHANGED kern
    BY <1>7 DEF Message, y
  <2>6. CASE h' = y /\ kern' = Verdict(kern, p) /\ call' = [call EXCEPT !.pkts = @ + n, !.given = @ + n]
    <3>1. call'.at = "event"  BY <1>1, <2>1, <2>6 DEF CallStates
    <3>2. QED BY <1>4, <2>3, <2>4, <2>6, <3>1
  <2>7. CASE /\ UNCHANGED kern /\ h' = [y EXCEPT !.lost = @ \cup {p.id}]
             /\ call' = [call EXCEPT !.pkts = @ + n, !.given = @ + n]
    <3>1. call'.at = "event"  BY <1>1, <2>1, <2>7 DEF CallStates
    <3>2. h'.buffer = <<>> /\ h'.lost = h.lost \cup {p.id}
      BY <1>1, <2>3, <2>7 DEF HandleStates
    <3>3. QED BY <1>4, <2>4, <2>7, <3>1, <3>2
  <2>8. CASE Return(-1, 0) /\ h' = Lost(h, {q.id : q \in Range(h.buffer)}) /\ UNCHANGED kern
    <3>1. {q.id : q \in Range(h.buffer)} = {p.id}
      <4>1. Range(h.buffer) = {h.buffer[i] : i \in DOMAIN h.buffer}  BY DEF Range
      <4>2. {q.id : q \in Range(h.buffer)} = IdsOf(h.buffer)  BY <4>1, Zenon DEF IdsOf
      <4>3. QED BY <2>4, <4>2
    <3>2. h'.buffer = <<>> /\ h'.lost = h.lost \cup {p.id}
      BY <1>1, <2>8, <3>1 DEF Lost, HandleStates
    <3>3. call'.at \in Starts \cup {"idle"}  BY <1>3, <2>8, -1 \in Int
    <3>4. QED BY <1>4, <2>4, <2>8, <3>2, <3>3
  <2>9. QED BY <2>5, <2>6, <2>7, <2>8
<1>8. CASE DatagramDone
  <2>1. call.pkts \in Int /\ UNCHANGED <<h, kern>> /\ h.buffer = <<>> /\ Return(call.pkts, 0)
    BY <1>1, <1>8 DEF DatagramDone, CallStates
  <2>2. QED BY <1>1, <1>3, <1>4, <2>1
<1>9. QED BY <1>6, <1>7, <1>8

LEMMA HeldStep == HeldInv /\ [Next]_vars => HeldInv'
<1> SUFFICES ASSUME HeldInv, [Next]_vars PROVE HeldInv'
  OBVIOUS
<1>1. StopInv' /\ TypeOK /\ Phase  BY StopStep DEF HeldInv, StopInv
<1>2. UNCHANGED hd
  BY DEF Next, vars, Reader, Setter, Kernel, Calls, Recv, Recvmsg, Wait, Poll, Frame, Block, BlockPacket,
         BlockDone, Read, usb_read_linux, usb_read_linux_bin, can_read_linux, Message, DatagramDone, Fetch,
         FetchedEvent, FetchDone, Program, Install, Total, Drain, Attach, Userland, Walk, Arrive, Store,
         RetireBlock, pcap_dispatch, pcap_next_ex, pcap_loop, pcap_setfilter, pcap_setdirection,
         pcap_setnonblock, pcap_stats, DeviceStats, pcap_inject, pcap_breakloop, Begin, Do
<1> SUFFICES ASSUME hd.mode = "nfqueue"
             PROVE  /\ Accounted(kern', h'.buffer, h'.lost)
                    /\ call'.at # "event" => h'.buffer = <<>>
                    /\ call'.at \in Sets => call'.at = "program"
  BY <1>1, <1>2 DEF HeldInv
<1>3. /\ Accounted(kern, h.buffer, h.lost)
      /\ call.at # "event" => h.buffer = <<>>
      /\ call.at \in Sets => call.at = "program"
      /\ call.at \notin {"recv", "recvmsg", "wait", "poll", "frame", "block", "batch"}
      /\ Device /\ h \in HandleStates /\ call \in CallStates
  BY <1>1 DEF HeldInv, Phase, mmapped, Device, TypeOK
<1>4. CASE Reader
  <2>1. Read \/ Message \/ DatagramDone
    BY <1>3, <1>4 DEF Reader, Recv, Recvmsg, Wait, Poll, Frame, Block, BlockPacket, BlockDone,
         usb_read_linux, usb_read_linux_bin, can_read_linux, Fetch, FetchedEvent, FetchDone
  <2>2. QED BY <2>1, ReaderHolds
<1>5. CASE Setter
  <2>1. Program  BY <1>3, <1>5 DEF Setter, Install, Total, Drain, Attach, Userland, Walk, Sets
  <2>2. UNCHANGED kern /\ h'.buffer = h.buffer /\ h'.lost = h.lost /\ call'.at = "idle" /\ call.at = "program"
    BY <1>3, <2>1 DEF Program, Finish, Idle, HandleStates
  <2>3. QED BY <1>3, <2>2 DEF Sets
<1>6. CASE Kernel
  <2>1. Accounted(kern', h.buffer, h.lost) /\ UNCHANGED <<h, call>>  BY <1>6, KernelHolds
  <2>2. QED BY <1>3, <2>1
<1>7. CASE pcap_setdirection \/ pcap_setnonblock \/ DeviceStats
  <2>1. UNCHANGED <<kern, call>> /\ h'.buffer = h.buffer /\ h'.lost = h.lost
    BY <1>3, <1>7 DEF pcap_setdirection, pcap_setnonblock, DeviceStats, Do, HandleStates
  <2>2. QED BY <1>3, <2>1
<1>8. CASE pcap_dispatch \/ pcap_next_ex \/ pcap_loop
  <2>1. UNCHANGED <<h, kern>> /\ call.at = "idle"
    BY <1>8 DEF pcap_dispatch, pcap_next_ex, pcap_loop, Begin
  <2>2. \E o \in {"dispatch", "next", "loop"}, n \in Int :
          call' = Reading([Idle EXCEPT !.op = o, !.cnt = n], n)
    <3>1. Counts \subseteq Int /\ 1 \in Int  BY CaptureAssumption
    <3>2. CASE pcap_dispatch  BY <3>1, <3>2 DEF pcap_dispatch, Begin
    <3>3. CASE pcap_next_ex  BY <3>1, <3>3, Zenon DEF pcap_next_ex, Begin
    <3>4. CASE pcap_loop  BY <3>1, <3>4 DEF pcap_loop, Begin
    <3>5. QED BY <1>8, <3>2, <3>3, <3>4
  <2>3. PICK o \in {"dispatch", "next", "loop"}, n \in Int :
          call' = Reading([Idle EXCEPT !.op = o, !.cnt = n], n)
    BY <2>2
  <2>4. call'.at \in Starts
    <3> DEFINE d == [Idle EXCEPT !.op = o, !.cnt = n]
    <3>1. d \in CallStates  BY IdleType, Zenon DEF CallStates, Operations
    <3>2. call' = Reading(d, n)  BY <2>3
    <3> HIDE DEF d
    <3>3. QED BY <1>1, <3>1, <3>2, ReadingType
  <2>5. call'.at \notin Sets  BY <2>4 DEF Starts, Sets
  <2>6. QED BY <1>3, <2>1, <2>5
<1>9. CASE pcap_setfilter
  <2>1. PICK f \in hd.filters : Begin([Idle EXCEPT !.op = "setfilter", !.at = "program", !.f = f])
    BY <1>3, <1>9 DEF pcap_setfilter
  <2>2. UNCHANGED <<h, kern>> /\ call.at = "idle" /\ call'.at = "program"
    BY <2>1 DEF Begin, Idle
  <2>3. QED BY <1>3, <2>2
<1>10. CASE pcap_stats \/ pcap_inject  BY <1>3, <1>10 DEF pcap_stats, pcap_inject
<1>11. CASE pcap_breakloop
  <2>1. UNCHANGED <<kern, call>> /\ h'.buffer = h.buffer /\ h'.lost = h.lost
    BY <1>3, <1>11 DEF pcap_breakloop, HandleStates
  <2>2. QED BY <1>3, <2>1
<1>12. CASE UNCHANGED vars  BY <1>3, <1>12 DEF vars
<1>13. QED
  BY <1>4, <1>5, <1>6, <1>7, <1>8, <1>9, <1>10, <1>11, <1>12 DEF Next, Calls

LEMMA HeldAlways == Spec => []HeldInv
BY InitHeld, HeldStep, PTL DEF Spec

\* Whatever the datagrams, filters, breaks and failing verdicts, and however many packets are on
\* their way into the queue: the packets that the kernel holds back for an NFQUEUE group are those
\* the program has not got to and those whose verdict was lost (netfilter_read_linux()).
THEOREM NoneForgotten == Spec => []OnlyWaitingAreHeld
<1>1. HeldInv => OnlyWaitingAreHeld
  <2> SUFFICES ASSUME HeldInv, hd.mode = "nfqueue" PROVE kern.held = Pending \cup h.lost
    BY DEF OnlyWaitingAreHeld
  <2>1. kern.held = IdsOf(h.buffer) \cup IdsOf(kern.queue) \cup h.lost  BY DEF HeldInv, Accounted
  <2>2. Pending = {p.id : p \in Range(h.buffer) \cup Range(kern.queue)}  BY DEF Pending, mmapped
  <2>3. /\ Range(h.buffer) = {h.buffer[i] : i \in DOMAIN h.buffer}
        /\ Range(kern.queue) = {kern.queue[i] : i \in DOMAIN kern.queue}
    BY DEF Range
  <2>4. Pending = IdsOf(h.buffer) \cup IdsOf(kern.queue)  BY <2>2, <2>3, Zenon DEF IdsOf
  <2>5. QED BY <2>1, <2>4
<1>2. QED BY <1>1, HeldAlways, PTL
=============================================================================
