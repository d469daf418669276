------------------------------ MODULE Capture -------------------------------
(***************************************************************************)
(* An activated capture handle of libpcap on Linux at work: reading        *)
(* packets from the socket or from the ring that the kernel fills, the     *)
(* change of the filter while packets arrive, pcap_breakloop() from        *)
(* another thread, and the counters (jni/pcap/pcap-linux.c, pcap.c), and   *)
(* the same for USB monitors, CAN interfaces and netfilter groups          *)
(* (pcap-usb-linux.c, pcap-can-linux.c, pcap-netfilter-linux.c).           *)
(*                                                                         *)
(* A handle is [mode, cooked, lo, timeout, snapshot, traffic, ops, calls,  *)
(* filters]: mode "sock" (recvmsg), or the ring "v1", "v2" (a packet per   *)
(* frame) or "v3" (blocks of packets), or a device, "text", "bin" or       *)
(* "mapped" for USB, "can", "nflog" or "nfqueue"; the program makes calls  *)
(* of ops.  A packet is                                                    *)
(* [id, type, pay, len, vlan, bad, snaplen], where snaplen is what the     *)
(* kernel's filter cut it to; pay stands for its first byte, bad for a     *)
(* frame larger than the ring's, a line of USB text that does not parse,   *)
(* or a message without payload.  A filter [k, v, ret, len] accepts the    *)
(* packets that have v at offset k, up to ret bytes of them; len is the    *)
(* length of the program.                                                  *)
(***************************************************************************)
EXTENDS Integers, Sequences, FiniteSets, SequencesExt

CONSTANTS
    Handles,
    MAXIMUM_SNAPLEN, USHRT_MAX, VEC_SIZE,
    Frames,        \* frames or blocks of the ring (cc)
    BlockCap,      \* packets that a block, or the queue of the socket, has room for
    CPUs,          \* CPUs[mode]: packets between the kernel's filter and its buffer
    Counts,        \* the cnt arguments
    MaxPackets, MaxFaults

ASSUME CaptureAssumption ==
    /\ Frames \in Nat \ {0} /\ BlockCap \in Nat \ {0} /\ VEC_SIZE \in Nat \ {0}
    /\ MaxPackets \in Nat /\ MaxFaults \in Nat /\ Counts \subseteq Int
    /\ MAXIMUM_SNAPLEN \in Nat /\ USHRT_MAX \in Nat

Filters == [k : Int, v : Int, ret : Nat, len : Nat]
Packets == [id : Nat, type : Nat, pay : Nat, len : Nat, vlan : BOOLEAN, bad : BOOLEAN, snaplen : Nat]
Modes == {"sock", "v1", "v2", "v3", "text", "bin", "mapped", "can", "nflog", "nfqueue"}

ASSUME HandleAssumption ==
    Handles \subseteq [mode : Modes, cooked : BOOLEAN, lo : BOOLEAN, timeout : Int, snapshot : Nat,
                      traffic : SUBSET Packets, ops : SUBSET STRING, calls : Nat,
                      filters : SUBSET Filters]

VARIABLES
    hd,     \* the handle's kind (constant)
    h,      \* pcap_t and pcap_linux
    call,   \* the call that is under way
    kern,   \* the kernel's side: filter, buffer, counters
    last,   \* the packet looked at last, whether it should have been shown, and whether it was
    used    \* [calls, faults]

vars == <<hd, h, call, kern, last, used>>

mmapped == hd.mode \in {"v1", "v2", "v3"}
netfilter == hd.mode \in {"nflog", "nfqueue"}
Device == ~mmapped /\ hd.mode # "sock"
Snapshot == hd.snapshot
Slots == 0 .. Frames - 1
NoFilter == [k |-> 0, v |-> 0, ret |-> 0, len |-> 0]
TotalFilter == [NoFilter EXCEPT !.len = 1]
SLL_HDR_LEN == 16
VLAN_TAG_LEN == 4
SKF_AD_PKTTYPE == -4092
SKF_AD_PROTOCOL == -4096
vlan_offset == IF hd.cooked THEN 14 ELSE 12
Minimum(a, b) == IF a < b THEN a ELSE b

Idle == [op |-> "none", at |-> "idle", max |-> 0, pkts |-> 0, todo |-> 0, cnt |-> 0, given |-> 0,
         f |-> NoFilter, total |-> FALSE, nflush |-> 0]

Init ==
    /\ hd \in Handles
    /\ h = [fcode |-> NoFilter, userland |-> FALSE, countdown |-> 0, offset |-> 0, current |-> 0,
            left |-> 0, break_loop |-> FALSE, direction |-> "INOUT", timeout |-> hd.timeout,
            nonblock |-> FALSE, packets_read |-> 0, recv |-> 0, drop |-> 0,
            stale |-> FALSE, bogus |-> FALSE, since |-> 0, buffer |-> <<>>, lost |-> {}]
    /\ call = Idle
    /\ kern = [filter |-> NoFilter, queue |-> <<>>, pos |-> 0, inflight |-> {}, next |-> 1,
               ring |-> [s \in Slots |-> [user |-> FALSE, pkts |-> <<>>]],
               packets |-> 0, drops |-> 0, held |-> {}]
    /\ last = [id |-> 0, wanted |-> TRUE, given |-> TRUE, whole |-> TRUE, excused |-> FALSE]
    /\ used = [calls |-> 0, faults |-> 0]

Fault == used.faults < MaxFaults /\ used' = [used EXCEPT !.faults = @ + 1]
Works == UNCHANGED used

----------------------------------------------------------------------------
(* Filters and headers *)

map_packet_type_to_sll_type(t) == t

\* the byte at offset k of a packet with its link-layer header, or without it as the kernel
\* and the ring have it; -1 past the end
Field(p, header, k) ==
    IF header
    THEN CASE k = 0 -> map_packet_type_to_sll_type(p.type) [] k = 2 -> 1 [] k = 14 -> 8
           [] k = SLL_HDR_LEN -> p.pay [] OTHER -> -1
    ELSE CASE k = 0 -> p.pay [] k = SKF_AD_PKTTYPE -> p.type [] k = SKF_AD_PROTOCOL -> 8
           [] OTHER -> -1

Accepts(f, p, header) == f = NoFilter \/ (f # TotalFilter /\ Field(p, header, f.k) = f.v)

\* offsets are unsigned: the kernel's negative ones are moved as well
fix_offset(k) ==
    IF k >= SLL_HDR_LEN \/ k < 0 THEN k - SLL_HDR_LEN
    ELSE IF k = 0 THEN SKF_AD_PKTTYPE ELSE IF k = 14 THEN SKF_AD_PROTOCOL ELSE k

CanFix(f) == hd.cooked => f.k \notin 1 .. 13 \cup {15}

fix_program(f) ==
    [f EXCEPT !.k = IF hd.cooked THEN fix_offset(@) ELSE @,
              !.ret = IF mmapped \/ @ = 0 THEN @ ELSE MAXIMUM_SNAPLEN]

\* outgoing packets are type 4
linux_check_direction(p) ==
    IF p.type = 4 THEN ~hd.lo /\ h.direction # "IN" ELSE h.direction # "OUT"

\* an event that only fills the ring of a USB monitor up to its end
Filler(p) == p.type = 9

\* what the program asked for
Wanted(p) == ~Filler(p) /\ Accepts(h.fcode, p, hd.cooked) /\ linux_check_direction(p)

\* the userland filter of a ring sees the packet before its cooked header is put in front
UserlandRejects(p) ==
    h.userland /\ h.fcode # NoFilter /\ ~Accepts(h.fcode, p, hd.cooked /\ ~mmapped)

Cooked(n) == IF hd.cooked THEN n + SLL_HDR_LEN ELSE n
Tagged(n, p, room) ==
    IF p.vlan /\ hd.mode # "v1" /\ room >= vlan_offset THEN n + VLAN_TAG_LEN ELSE n

\* recvmsg() reports the length that the kernel's filter left
PacketLen(p) ==
    IF mmapped THEN Tagged(Cooked(p.len), p, p.snaplen)
    ELSE Tagged(Cooked(p.snaplen), p, Cooked(p.snaplen))
CapLen(p) ==
    Minimum(Snapshot, IF mmapped THEN Tagged(Cooked(p.snaplen), p, p.snaplen) ELSE PacketLen(p))

\* the lengths a device reports: in front of an event of a USB monitor there is a header of 48
\* bytes, in its ring of 64.  The length of a binary event is what is left after the cut, and
\* the netfilter messages have been cut by the kernel.
DeviceLen(p) ==
    CASE hd.mode = "text" -> p.len + 48
      [] hd.mode = "bin" -> Minimum(Snapshot - 48, p.len) + 48
      [] hd.mode = "mapped" -> p.len + 64
      [] netfilter -> Minimum(p.len, Snapshot)
      [] OTHER -> p.len
DeviceCap(p) ==
    CASE hd.mode = "text" -> Minimum(Snapshot, DeviceLen(p))
      [] hd.mode = "mapped" -> Minimum(Snapshot - 48, p.len) + 64
      [] OTHER -> DeviceLen(p)

\* whether the lengths are those of the packet on the wire; of the devices only USB text and CAN
\* claim as much
Whole(p) ==
    CASE ~Device -> LET n == Tagged(Cooked(p.len), p, p.len)
                    IN  PacketLen(p) = n /\ CapLen(p) = Minimum(Snapshot, n)
      [] hd.mode = "text" -> DeviceLen(p) = p.len + 48 /\ DeviceCap(p) = Minimum(Snapshot, p.len + 48)
      [] hd.mode = "can" -> DeviceLen(p) = p.len /\ DeviceCap(p) = p.len
      [] OTHER -> DeviceCap(p) <= DeviceLen(p)

Looked(p, given) ==
    [id |-> p.id, wanted |-> Wanted(p), given |-> given,
     excused |-> h.bogus \/ h.stale \/ (hd.mode \in {"bin", "mapped", "can"} /\ h.direction # "INOUT"),
     whole |-> given => Whole(p)]

----------------------------------------------------------------------------
(* The kernel.  It filters a packet and then puts it into the queue, the   *)
(* frame or the open block; between the two, the filter may change, but    *)
(* the program does not get as far as to read or to send again.            *)

Dropped(k) == [k EXCEPT !.drops = @ + 1, !.packets = @ + 1]

Stored(k, p) ==
    LET s == k.pos
        t == (s + 1) % Frames
        full == Len(k.ring[s].pkts) = BlockCap
        c == [k EXCEPT !.packets = @ + 1]
        one == [user |-> TRUE, pkts |-> <<p>>]
        closed == [c EXCEPT !.ring[s].user = TRUE, !.pos = t]
    IN  CASE ~mmapped /\ Len(k.queue) < BlockCap ->
               [c EXCEPT !.queue = Append(@, p), !.held = IF hd.mode = "nfqueue" THEN @ \cup {p.id} ELSE @]
          [] hd.mode \in {"v1", "v2"} /\ ~k.ring[s].user -> [c EXCEPT !.ring[s] = one, !.pos = t]
          [] hd.mode = "v3" /\ ~k.ring[s].user /\ ~full -> [c EXCEPT !.ring[s].pkts = Append(@, p)]
          [] hd.mode = "v3" /\ ~k.ring[s].user /\ full /\ ~k.ring[t].user /\ s # t ->
               [closed EXCEPT !.ring[t].pkts = <<p>>]
          [] hd.mode = "v3" /\ ~k.ring[s].user /\ full /\ (k.ring[t].user \/ s = t) ->
               [closed EXCEPT !.drops = @ + 1]
          [] OTHER -> Dropped(k)

Filtered(p, f) == [p EXCEPT !.snaplen = IF f = NoFilter THEN p.len ELSE Minimum(p.len, f.ret)]

Numbered(t) == [t EXCEPT !.id = kern.next]
Arrived == [kern EXCEPT !.next = @ + 1]
Passes(t) == Accepts(kern.filter, Numbered(t), FALSE)
Received(t) == IF Passes(t) THEN Stored(Arrived, Filtered(Numbered(t), kern.filter)) ELSE Arrived

Arrive ==
    /\ kern.next <= MaxPackets /\ UNCHANGED <<hd, h, call, last, used>>
    /\ \E t \in hd.traffic :
          \/ kern.inflight = {} /\ kern' = Received(t)
          \/ /\ Passes(t) /\ Cardinality(kern.inflight) < CPUs[hd.mode] /\ call.op = "setfilter"
             /\ kern' = [Arrived EXCEPT !.inflight = @ \cup {Filtered(Numbered(t), kern.filter)}]

Store ==
    /\ \E p \in kern.inflight : kern' = Stored([kern EXCEPT !.inflight = @ \ {p}], p)
    /\ UNCHANGED <<hd, h, call, last, used>>

\* the timer closes a block that is not full
RetireBlock ==
    /\ hd.mode = "v3" /\ ~kern.ring[kern.pos].user /\ kern.ring[kern.pos].pkts # <<>>
    /\ kern' = [kern EXCEPT !.ring[kern.pos].user = TRUE, !.pos = (@ + 1) % Frames]
    /\ UNCHANGED <<hd, h, call, last, used>>

----------------------------------------------------------------------------
(* Calls that read *)

Begin(c) ==
    /\ call.at = "idle" /\ c.op \in hd.ops /\ kern.inflight = {} /\ used.calls < hd.calls
    /\ used' = [used EXCEPT !.calls = @ + 1] /\ call' = c
    /\ UNCHANGED <<hd, h, kern, last>>

Unlimited(n) == n <= 0

\* where a read operation starts
Reading(c, max) ==
    [c EXCEPT !.max = max, !.pkts = 0,
              !.nflush = 0,
              !.at = CASE Device -> "read" [] hd.mode = "sock" -> "recv"
                       [] hd.mode = "v3" /\ h.current # 0 -> "block" [] OTHER -> "wait"]

pcap_dispatch == \E n \in Counts : Begin(Reading([Idle EXCEPT !.op = "dispatch", !.cnt = n], n))
pcap_next_ex == Begin(Reading([Idle EXCEPT !.op = "next", !.cnt = 1], 1))
pcap_loop == \E n \in Counts : Begin(Reading([Idle EXCEPT !.op = "loop", !.cnt = n], n))

\* the read operation returns n; pcap_loop() goes on until cnt packets, an error or a break
Return(n, given) ==
    LET c == [call EXCEPT !.given = @ + given]
        ends == [Idle EXCEPT !.cnt = c.cnt, !.given = c.given]
        cnt == IF Unlimited(call.max) THEN call.max ELSE call.max - n
        ending == call.op # "loop" \/ n < 0 \/ (n > 0 /\ ~Unlimited(call.max) /\ cnt <= 0)
    IN  call' = IF ending THEN ends ELSE Reading(c, cnt)

Reset(x) == [x EXCEPT !.break_loop = FALSE, !.since = 0]
Break == h' = Reset(h) /\ Return(-2, 0)

Counted(x) == [x EXCEPT !.packets_read = @ + 1, !.since = IF x.break_loop THEN @ + 1 ELSE 0]

\* pcap_read_packet()
Recv ==
    /\ call.at = "recv" /\ UNCHANGED hd
    /\ \/ h.break_loop /\ Break /\ Works /\ UNCHANGED <<kern, last>>
       \/ ~h.break_loop /\ call' = [call EXCEPT !.at = "recvmsg"] /\ Works /\ UNCHANGED <<h, kern, last>>

Recvmsg ==
    /\ call.at = "recvmsg" /\ UNCHANGED hd
    /\ \/ /\ kern.queue # <<>>
          /\ kern' = [kern EXCEPT !.queue = Tail(@)]
          /\ LET p == Head(kern.queue)
                 shown == linux_check_direction(p) /\ ~UserlandRejects(p)
             IN  \/ /\ last' = Looked(p, shown) /\ Works
                    /\ Return(IF shown THEN 1 ELSE 0, IF shown THEN 1 ELSE 0)
                    /\ h' = IF shown THEN Counted(h) ELSE h
                 \* the time stamp cannot be read
                 \/ /\ shown /\ Fault /\ Return(-1, 0) /\ last' = [Looked(p, FALSE) EXCEPT !.excused = TRUE]
                    /\ UNCHANGED h
       \/ /\ kern.queue = <<>> /\ h.nonblock /\ Return(0, 0) /\ Works /\ UNCHANGED <<h, kern, last>>
       \* EINTR
       \/ /\ kern.queue = <<>> /\ call' = [call EXCEPT !.at = "recv"] /\ Fault /\ UNCHANGED <<h, kern, last>>
       \* ENETDOWN and other errors
       \/ Return(-1, 0) /\ Fault /\ UNCHANGED <<h, kern, last>>

UserFrame == kern.ring[h.offset].user
At(p) == call' = [call EXCEPT !.at = p]
Ready == IF hd.mode = "v3" THEN "block" ELSE "frame"

\* pcap_wait_for_frames_mmap(); a ring of blocks with timeout 0 polls every millisecond
Wait ==
    /\ call.at = "wait" /\ At(IF UserFrame THEN Ready ELSE "poll")
    /\ UNCHANGED <<hd, h, kern, last, used>>

Forever == h.timeout = 0 /\ hd.mode # "v3"

AfterPoll_NoBreak(p) == At(p) /\ UNCHANGED h
AfterPoll(p) == IF h.break_loop THEN Break ELSE At(p) /\ UNCHANGED h

Poll ==
    /\ call.at = "poll" /\ UNCHANGED <<hd, kern, last>>
    /\ \/ ((\E s \in Slots : kern.ring[s].user) \/ ~Forever) /\ AfterPoll(Ready) /\ Works
       \* EINTR
       \/ AfterPoll("poll") /\ Fault
       \* POLLERR that recv() does not confirm: `continue' leaves the loop
       \/ At(Ready) /\ UNCHANGED h /\ Fault
       \* other errors
       \/ Return(-1, 0) /\ UNCHANGED h /\ Fault

\* pcap_handle_packet_mmap()
Shown(p) == ~UserlandRejects(p) /\ linux_check_direction(p)

\* a frame or a block goes back to the kernel
Released_Skips(x) == [x EXCEPT !.offset = (@ + 2) % Frames, !.current = 0]
Released(x) ==
    [x EXCEPT !.offset = (@ + 1) % Frames, !.current = 0,
              !.countdown = IF @ > 0 THEN @ - 1 ELSE 0,
              !.userland = IF x.countdown = 1 THEN FALSE ELSE @]
GivenBack(k) == [k EXCEPT !.ring[h.offset] = [user |-> FALSE, pkts |-> <<>>]]

MayRead_Late == Unlimited(call.max) \/ call.pkts <= call.max
MayRead == Unlimited(call.max) \/ call.pkts < call.max

\* the check after each frame or batch
Broken == h.break_loop

\* one turn of the loop of pcap_read_linux_mmap_v1() and _v2()
Frame ==
    /\ call.at = "frame" /\ UNCHANGED <<hd, used>>
    /\ \/ (~MayRead \/ ~UserFrame) /\ Return(call.pkts, 0) /\ UNCHANGED <<h, kern, last>>
       \/ /\ MayRead /\ UserFrame /\ kern.ring[h.offset].pkts[1].bad
          /\ Return(-1, 0) /\ UNCHANGED <<h, kern, last>>
       \/ /\ MayRead /\ UserFrame /\ ~kern.ring[h.offset].pkts[1].bad
          /\ LET p == kern.ring[h.offset].pkts[1]
                 n == IF Shown(p) THEN 1 ELSE 0
                 x == Released(IF Shown(p) THEN Counted(h) ELSE h)
             IN  /\ last' = Looked(p, Shown(p)) /\ kern' = GivenBack(kern)
                 /\ IF Broken THEN Return(-2, n) /\ h' = Reset(x)
                    ELSE call' = [call EXCEPT !.pkts = @ + n, !.given = @ + n] /\ h' = x

\* pcap_read_linux_mmap_v3(): without packets and without a time-out it starts again
Ended ==
    IF call.pkts = 0 /\ h.timeout = 0
    THEN call' = [call EXCEPT !.at = IF h.current = 0 THEN "wait" ELSE "block"]
    ELSE Return(call.pkts, 0)

Block ==
    /\ call.at = "block" /\ UNCHANGED <<hd, kern, last, used>>
    /\ \/ ~UserFrame /\ Ended /\ UNCHANGED h
       \/ UserFrame /\ ~MayRead /\ Return(call.pkts, 0) /\ UNCHANGED h
       \/ /\ UserFrame /\ MayRead
          /\ LET left == IF h.current = 0 THEN Len(kern.ring[h.offset].pkts) ELSE h.left
             IN  /\ h' = [h EXCEPT !.current = IF @ = 0 THEN 1 ELSE @, !.left = left]
                 /\ call' = [call EXCEPT !.at = "batch",
                               !.todo = IF Unlimited(call.max) THEN left ELSE Minimum(left, call.max)]

\* one packet of the batch
BlockPacket ==
    /\ call.at = "batch" /\ call.todo > 0 /\ UNCHANGED <<hd, kern, used>>
    /\ LET p == kern.ring[h.offset].pkts[h.current]
           n == IF Shown(p) THEN 1 ELSE 0
       IN  IF p.bad
           THEN Return(-1, 0) /\ h' = [h EXCEPT !.current = 0, !.since = 0] /\ UNCHANGED last
           ELSE /\ last' = Looked(p, Shown(p))
                /\ call' = [call EXCEPT !.todo = @ - 1, !.pkts = @ + n, !.given = @ + n]
                /\ h' = [(IF Shown(p) THEN Counted(h) ELSE h) EXCEPT !.current = @ + 1, !.left = @ - 1]

\* the batch is done
BlockDone ==
    /\ call.at = "batch" /\ call.todo = 0 /\ UNCHANGED <<hd, last, used>>
    /\ LET x == IF h.left <= 0 THEN Released(h) ELSE h
       IN  /\ kern' = IF h.left <= 0 THEN GivenBack(kern) ELSE kern
           /\ IF Broken THEN Return(-2, 0) /\ h' = Reset(x) ELSE At("block") /\ h' = x

----------------------------------------------------------------------------
(* Reading from devices.  The flag of pcap_breakloop() is looked at after  *)
(* the system call: what it returned is thrown away.                       *)

DeviceShows(p) ==
    /\ ~Filler(p) /\ Accepts(h.fcode, p, FALSE)
    /\ hd.mode = "text" => linux_check_direction(p)
    /\ netfilter => ~p.bad

\* usb_read_linux(), usb_read_linux_bin(), can_read_linux(), netfilter_read_linux(): one event,
\* or a datagram of messages.  A log packs several of them into one.
Taken(n) == SubSeq(kern.queue, 1, n)
Left(n) == [kern EXCEPT !.queue = SubSeq(@, n + 1, Len(@))]
Datagrams == 1 .. IF hd.mode = "nflog" THEN Len(kern.queue) ELSE Minimum(1, Len(kern.queue))
Lost(x, ps) == [x EXCEPT !.buffer = <<>>, !.lost = IF hd.mode = "nfqueue" THEN @ \cup ps ELSE @]

Read ==
    /\ call.at = "read" /\ hd.mode # "mapped" /\ UNCHANGED <<hd, last>>
    /\ \/ \E n \in Datagrams :
             /\ Works /\ kern' = Left(n)
             /\ IF h.break_loop THEN Return(-2, 0) /\ h' = Reset(Lost(h, {p.id : p \in Range(Taken(n))}))
                ELSE At("event") /\ h' = [h EXCEPT !.buffer = Taken(n)]
       \* EAGAIN
       \/ /\ kern.queue = <<>> /\ h.nonblock /\ Works /\ UNCHANGED kern
          /\ IF h.break_loop THEN Break
             ELSE Return(IF hd.mode \in {"text", "bin"} THEN 0 ELSE -1, 0) /\ UNCHANGED h
       \* EINTR, other errors
       \/ kern.queue = <<>> /\ Fault /\ AfterPoll("read") /\ UNCHANGED kern
       \/ Fault /\ UNCHANGED kern /\ IF h.break_loop THEN Break ELSE Return(-1, 0) /\ UNCHANGED h

\* the event goes through the filter and is shown, or it cannot be read: a line that does not
\* parse, a time that gettimeofday() does not give
Handed ==
    LET p == Head(h.buffer)
        n == IF DeviceShows(p) THEN 1 ELSE 0
        x == [h EXCEPT !.buffer = <<>>]
    IN  /\ Works /\ last' = Looked(p, DeviceShows(p)) /\ Return(n, n)
        /\ h' = IF DeviceShows(p) THEN Counted(x) ELSE x
Unread ==
    /\ last' = [Looked(Head(h.buffer), FALSE) EXCEPT !.excused = TRUE]
    /\ Return(-1, 0) /\ h' = [h EXCEPT !.buffer = <<>>]

usb_read_linux ==
    /\ call.at = "event" /\ hd.mode = "text" /\ UNCHANGED <<hd, kern>>
    /\ \/ ~Head(h.buffer).bad /\ Handed
       \/ Unread /\ IF Head(h.buffer).bad THEN Works ELSE Fault
usb_read_linux_bin == call.at = "event" /\ hd.mode = "bin" /\ Handed /\ UNCHANGED <<hd, kern>>
can_read_linux ==
    call.at = "event" /\ hd.mode = "can" /\ (Handed \/ (Unread /\ Fault)) /\ UNCHANGED <<hd, kern>>

\* nfqueue_send_verdict(): the kernel lets the packet go
Verdict_IfShown(k, p) == IF DeviceShows(p) THEN [k EXCEPT !.held = @ \ {p.id}] ELSE k
Verdict(k, p) == [k EXCEPT !.held = @ \ {p.id}]

\* one message of the datagram; all of them are shown, whatever max_packets says
Message ==
    /\ call.at = "event" /\ netfilter /\ h.buffer # <<>> /\ UNCHANGED hd
    /\ LET p == Head(h.buffer)
           n == IF DeviceShows(p) THEN 1 ELSE 0
           x == [h EXCEPT !.buffer = Tail(@)]
           y == IF DeviceShows(p) THEN Counted(x) ELSE x
       IN  \/ /\ Works /\ h' = y /\ kern' = Verdict(kern, p)
              /\ last' = [Looked(p, DeviceShows(p)) EXCEPT !.excused = @ \/ p.bad]
              /\ call' = [call EXCEPT !.pkts = @ + n, !.given = @ + n]
           \* sendto() fails, which nobody looks at
           \/ /\ Fault /\ hd.mode = "nfqueue" /\ UNCHANGED kern
              /\ h' = [y EXCEPT !.lost = @ \cup {p.id}]
              /\ last' = [Looked(p, DeviceShows(p)) EXCEPT !.excused = @ \/ p.bad]
              /\ call' = [call EXCEPT !.pkts = @ + n, !.given = @ + n]
           \* a message that is cut off
           \/ /\ Fault /\ Return(-1, 0) /\ h' = Lost(h, {q.id : q \in Range(h.buffer)})
              /\ UNCHANGED <<kern, last>>

DatagramDone ==
    /\ call.at = "event" /\ netfilter /\ h.buffer = <<>>
    /\ Return(call.pkts, 0) /\ UNCHANGED <<hd, h, kern, last, used>>

\* usb_read_linux_mmap(): MON_IOCX_MFETCH first frees nflush events, then waits for new ones.
\* Interrupted while it waits it is called again, and frees as many a second time.
Limit ==
    LET n == call.max - call.pkts
    IN  IF n <= 0 \/ n > VEC_SIZE THEN VEC_SIZE ELSE n
Flushed == Left(Minimum(call.nflush, Len(kern.queue)))

Fetch ==
    /\ call.at = "read" /\ hd.mode = "mapped" /\ kern' = Flushed /\ UNCHANGED <<hd, last>>
    /\ \/ /\ Flushed.queue # <<>> /\ Works
          /\ IF h.break_loop THEN Break
             ELSE LET n == Minimum(Limit, Len(Flushed.queue))
                  IN  call' = [call EXCEPT !.at = "event", !.nflush = n, !.todo = n] /\ UNCHANGED h
       \/ /\ Flushed.queue = <<>> /\ h.nonblock /\ Works
          /\ IF h.break_loop THEN Break ELSE Return(0, 0) /\ UNCHANGED h
       \/ Flushed.queue = <<>> /\ Fault /\ AfterPoll("read")
       \/ Fault /\ IF h.break_loop THEN Break ELSE Return(-1, 0) /\ UNCHANGED h

FetchedEvent ==
    /\ call.at = "event" /\ hd.mode = "mapped" /\ call.todo > 0 /\ UNCHANGED <<hd, kern, used>>
    /\ LET p == kern.queue[call.nflush - call.todo + 1]
           n == IF DeviceShows(p) THEN 1 ELSE 0
       IN  /\ last' = Looked(p, DeviceShows(p)) /\ h' = IF DeviceShows(p) THEN Counted(h) ELSE h
           /\ call' = [call EXCEPT !.todo = @ - 1, !.pkts = @ + n, !.given = @ + n]

\* another round, or MON_IOCH_MFLUSH
FetchDone ==
    /\ call.at = "event" /\ hd.mode = "mapped" /\ call.todo = 0 /\ UNCHANGED <<hd, h, last, used>>
    /\ IF Unlimited(call.max) \/ call.pkts = call.max
       THEN kern' = Flushed /\ Return(call.pkts, 0)
       ELSE At("read") /\ UNCHANGED kern

\* from another thread, a signal handler or the callback
pcap_breakloop ==
    /\ "breakloop" \in hd.ops /\ ~h.break_loop
    /\ h' = [h EXCEPT !.break_loop = TRUE, !.since = 0]
    /\ UNCHANGED <<hd, call, kern, last, used>>

----------------------------------------------------------------------------
(* The filter *)

pcap_setfilter == \E f \in hd.filters :
    Begin([Idle EXCEPT !.op = "setfilter", !.at = IF Device THEN "program" ELSE "install", !.f = f])

Finish == call' = Idle

\* the devices have install_bpf_program() alone; CAN accepts a filter and does not use it
Program ==
    /\ call.at = "program" /\ Finish /\ UNCHANGED <<hd, kern, last>>
    /\ \/ hd.mode = "can" /\ Works /\ h' = [h EXCEPT !.stale = TRUE]
       \/ hd.mode # "can" /\ Works /\ h' = [h EXCEPT !.fcode = call.f]
       \/ hd.mode # "can" /\ Fault /\ h' = [h EXCEPT !.fcode = NoFilter]

\* install_bpf_program(): without memory the old program is gone; fix_program() needs memory too
Install ==
    /\ call.at = "install" /\ UNCHANGED <<hd, kern, last>>
    /\ \/ /\ Fault /\ Finish /\ h' = [h EXCEPT !.fcode = NoFilter]
       \/ /\ Fault /\ Finish /\ call.f.len <= USHRT_MAX
          /\ h' = [h EXCEPT !.fcode = call.f, !.userland = TRUE, !.stale = h.countdown > 0]
       \/ /\ Works /\ h' = [h EXCEPT !.fcode = call.f, !.userland = TRUE, !.stale = FALSE, !.bogus = FALSE]
          /\ At(IF call.f.len > USHRT_MAX \/ ~CanFix(call.f) THEN "userland" ELSE "total")

\* set_kernel_filter(): nothing may arrive while the socket is drained; failures only mean
\* that a few old packets are shown
Total ==
    /\ call.at = "total" /\ UNCHANGED <<hd, last>>
    /\ \/ /\ Works /\ kern' = [kern EXCEPT !.filter = TotalFilter]
          /\ call' = [call EXCEPT !.at = "drain", !.total = TRUE] /\ UNCHANGED h
       \/ Fault /\ UNCHANGED kern /\ At("attach") /\ h' = [h EXCEPT !.bogus = ~mmapped]

Drain ==
    /\ call.at = "drain" /\ UNCHANGED <<hd, last>>
    /\ \/ kern.queue # <<>> /\ Works /\ kern' = [kern EXCEPT !.queue = Tail(@)] /\ UNCHANGED <<h, call>>
       \/ kern.queue = <<>> /\ Works /\ At("attach") /\ UNCHANGED <<h, kern>>
       \* fcntl() fails
       \/ Fault /\ At("attach") /\ UNCHANGED kern /\ h' = [h EXCEPT !.bogus = ~mmapped]
       \* recv() fails with another error: the program filters from now on
       \/ /\ Fault /\ kern' = [kern EXCEPT !.filter = NoFilter] /\ Finish
          /\ h' = [h EXCEPT !.stale = h.countdown > 0]

Attach ==
    /\ call.at = "attach" /\ UNCHANGED <<hd, last>>
    /\ \/ /\ Works /\ kern' = [kern EXCEPT !.filter = fix_program(call.f)]
          /\ h' = [h EXCEPT !.userland = FALSE]
          /\ IF mmapped THEN At("walk") ELSE Finish
       \/ /\ Fault /\ kern' = IF call.total THEN [kern EXCEPT !.filter = NoFilter] ELSE kern
          /\ At("userland") /\ UNCHANGED h

\* filtering in the program: reset_kernel_filter(); an old countdown goes on
Userland ==
    /\ call.at = "userland" /\ UNCHANGED <<hd, last, used>>
    /\ kern' = [kern EXCEPT !.filter = NoFilter]
    /\ h' = [h EXCEPT !.stale = h.countdown > 0] /\ Finish

\* free frames behind the reader, from the last but one on
FreeBehind ==
    LET free(n) == ~kern.ring[(h.offset - 1 - n + 2 * Frames) % Frames].user
    IN  Cardinality({n \in 1 .. Frames : \A i \in 1 .. n : free(i)})

Walk_Exact ==
    /\ call.at = "walk"
    /\ h' = [h EXCEPT !.userland = FreeBehind # Frames, !.countdown = Frames - FreeBehind]
    /\ Finish /\ UNCHANGED <<hd, kern, last, used>>
\* pcap_setfilter_linux_mmap(): one more than the frames in use, for a packet on its way
Walk ==
    /\ call.at = "walk"
    /\ h' = [h EXCEPT !.userland = TRUE,
                      !.countdown = Frames - (IF FreeBehind = 0 THEN 0 ELSE FreeBehind - 1)]
    /\ Finish /\ UNCHANGED <<hd, kern, last, used>>

----------------------------------------------------------------------------
(* Other operations *)

Do(op, x) ==
    /\ call.at = "idle" /\ op \in hd.ops /\ used.calls < hd.calls /\ used' = [used EXCEPT !.calls = @ + 1]
    /\ x

\* netfilter has no direction, CAN not that of outgoing packets
can_setdirection_linux(d) == hd.mode = "can" => d = "IN"
pcap_setdirection ==
    \E d \in {"IN", "OUT"} :
        /\ ~netfilter /\ can_setdirection_linux(d)
        /\ Do("setdirection", h' = [h EXCEPT !.direction = d] /\ UNCHANGED <<hd, call, kern, last>>)

\* the ring keeps its time-out in the complement
pcap_setnonblock ==
    \E b \in BOOLEAN :
        Do("setnonblock",
           /\ h' = [h EXCEPT !.nonblock = b,
                             !.timeout = IF mmapped /\ (b <=> @ >= 0) THEN -1 - @ ELSE @]
           /\ UNCHANGED <<hd, call, kern, last>>)

\* the kernel's counters are cleared by reading them
pcap_stats_Overwrites ==
    ~Device /\
    Do("stats",
       /\ h' = [h EXCEPT !.recv = kern.packets, !.drop = kern.drops]
       /\ kern' = [kern EXCEPT !.packets = 0, !.drops = 0] /\ UNCHANGED <<hd, call, last>>)
pcap_stats ==
    ~Device /\
    Do("stats",
       /\ h' = [h EXCEPT !.recv = @ + kern.packets, !.drop = @ + kern.drops]
       /\ kern' = [kern EXCEPT !.packets = 0, !.drops = 0] /\ UNCHANGED <<hd, call, last>>)

\* devices count what they show; a USB monitor knows what waits, and as text takes the number
\* of its readers for that of dropped events
ps_recv ==
    CASE hd.mode = "can" -> 0
      [] hd.mode \in {"bin", "mapped"} -> h.packets_read + Len(kern.queue)
      [] OTHER -> h.packets_read
ps_drop == CASE hd.mode = "text" -> 1 [] hd.mode \in {"bin", "mapped"} -> kern.drops [] OTHER -> 0
DeviceStats ==
    Device /\
    Do("stats",
       /\ h' = [h EXCEPT !.recv = ps_recv, !.drop = ps_drop]
       /\ UNCHANGED <<hd, call, kern, last>>)

\* a packet that is sent comes back as an outgoing one
pcap_inject ==
    ~Device /\
    Do("inject",
       /\ ~hd.cooked /\ kern.next <= MaxPackets /\ kern.inflight = {}
       /\ (\E t \in hd.traffic : t.type = 4 /\ kern' = Received(t)) /\ UNCHANGED <<hd, h, call, last>>)

----------------------------------------------------------------------------

Reader == Recv \/ Recvmsg \/ Wait \/ Poll \/ Frame \/ Block \/ BlockPacket \/ BlockDone
          \/ Read \/ usb_read_linux \/ usb_read_linux_bin \/ can_read_linux \/ Message \/ DatagramDone \/ Fetch \/ FetchedEvent \/ FetchDone
Setter == Program \/ Install \/ Total \/ Drain \/ Attach \/ Userland \/ Walk
Kernel == Arrive \/ Store \/ RetireBlock
Calls == pcap_dispatch \/ pcap_next_ex \/ pcap_loop \/ pcap_setfilter \/ pcap_setdirection
         \/ pcap_setnonblock \/ pcap_stats \/ DeviceStats \/ pcap_inject

Next == Reader \/ Setter \/ Kernel \/ Calls \/ pcap_breakloop

\* a call that can go on does
Spec == Init /\ [][Next]_vars /\ WF_vars(Reader \/ Setter)

----------------------------------------------------------------------------
(* Properties *)

\* the packets of a slot of the ring that have not been looked at
Waiting(s) ==
    LET pkts == kern.ring[s].pkts
    IN  {pkts[i] : i \in (IF s = h.offset /\ h.current # 0 THEN h.current ELSE 1) .. Len(pkts)}

\* the numbers of the packets that are stored and that the program has not got to
Pending ==
    {p.id : p \in
        CASE mmapped -> UNION {Waiting(s) : s \in Slots}
          [] hd.mode = "mapped" -> {kern.queue[i] : i \in call.nflush - call.todo + 1 .. Len(kern.queue)}
          [] OTHER -> Range(h.buffer) \cup Range(kern.queue)}

S == INSTANCE Stream WITH Packets <- 1 .. MaxPackets, queue <- Pending, seen <- last.id

\* The frames and blocks of the ring, the place of the reader in them and the kernel's own
\* place together are a queue: no packet is shown twice, skipped or shown out of order, however
\* the reader is cut off by a count, a break or an error (pcap_read_linux_mmap_v1() to _v3(),
\* pcap_read_packet()).  So are the queue of a device, the datagram taken from it and the events
\* fetched from its ring, except that a break throws away what was read last.  Left out are
\* packets that a ring of blocks rejects after it has shown others of the block: the next call
\* starts with the block again.
ImplementsStream == S!Spec

\* The program is shown the packets that the filter and the direction in force accept, and no
\* others, although packets that an older filter let through are still in the ring when the new
\* one is installed (set_kernel_filter(), pcap_setfilter_linux_mmap()).  Left out: a drain that
\* failed, a countdown left over from an older filter, cooked packets of a ring, the filter of
\* CAN and the direction of devices that take one and do not look at it.
ShownIffWanted ==
    \/ last.excused \/ (hd.cooked /\ mmapped)
    \/ last.given <=> last.wanted

\* The program is told the length the packet had on the wire, with the headers put in front, and
\* is given as much of it as the snapshot length allows, whichever filter cut it
\* (fix_program(), pcap_handle_packet_mmap(), pcap_read_packet()).
LengthsAreTrue == last.whole

\* What the program is shown is what it asked for, with its lengths (pcap_setfilter(),
\* pcap_setdirection(), the read operations).
ShownAsWanted == ShownIffWanted /\ LengthsAreTrue

\* pcap_dispatch() and pcap_loop() show no more than cnt packets; of a log, the rest of a datagram
\* as well (netfilter_read_linux()); with a ring of blocks, where the last batch is cut to cnt and
\* not to what is left of it, less than twice as many (pcap_read_linux_mmap_v3()).  Left out is
\* the mapped USB monitor, which returns 0 after packets were shown when a later round finds
\* none (usb_read_linux_mmap()), so that pcap_loop() counts them not.
CountIsBound ==
    call.cnt > 0 /\ hd.mode # "mapped" => call.given <= (CASE hd.mode = "v3" -> 2 * call.cnt - 1
                                        [] hd.mode = "nflog" -> call.cnt - 1 + BlockCap
                                        [] OTHER -> call.cnt)

\* After pcap_breakloop() at most one more packet is shown, or one more block, datagram or
\* fetch of them; a block that an error cuts short is read again by the next call.
BreakIsPrompt ==
    h.since <= (CASE hd.mode \in {"v3", "nflog"} -> BlockCap [] hd.mode = "mapped" -> VEC_SIZE [] OTHER -> 1)

\* A call that reads stops where the program said: at the count, and after a break.
CallsStop == CountIsBound /\ BreakIsPrompt

\* What pcap_stats() has added up and what the kernel has counted since account for every packet
\* that was shown or is waiting.
CountersAccount ==
    Device \/ h.recv + kern.packets - h.drop - kern.drops >= h.packets_read + Cardinality(Pending)

\* The kernel holds back no packet of an NFQUEUE group but those that the program has not got to:
\* every other one has had its verdict, filtered out or not, unless a break, a cut datagram or a
\* failing sendto() lost it (netfilter_read_linux()).
OnlyWaitingAreHeld ==
    hd.mode = "nfqueue" => kern.held = Pending \cup h.lost

\* A call under way ends once pcap_breakloop() was called, unless it waits for a packet without a
\* time-out.
BreakEndsCall ==
    (call.at # "idle" /\ h.break_loop /\ (IF mmapped THEN ~Forever ELSE h.nonblock)) ~> call.at = "idle"

=============================================================================
