------------------------------- MODULE Scanner ------------------------------
(***************************************************************************)
(* The packet scanner of jnetpcap (packet_jsmall_scanner.cpp): a scanner_t *)
(* takes one captured packet after another, finds its headers one by one   *)
(* with the functions of Protocol (or with Java header scanners), records  *)
(* each of them in the packet_state_t of the packet, computes the flow key *)
(* and leaves the state in a ring of packet states that Java objects look  *)
(* at.                                                                     *)
(*                                                                         *)
(* Every step is one turn of the loop of scan().  Sizes in the ring are    *)
(* counted in header_t entries.                                            *)
(***************************************************************************)
EXTENDS Protocol

CONSTANTS
    Packets,          \* what may be captured first: [layers, wirelen, first, plain, stale]
    Companions(_),    \* the packets that may follow a packet
    Configs,          \* scanner settings: [flags, java]
    ScLen,            \* entries in the ring of packet states
    MAX_ENTRY_COUNT,  \* entries that must be free behind sc_offset
    StateSize,        \* entries a packet_state_t takes without its headers
    MaxFrames         \* packets scanned one after another

VARIABLES
    config,           \* sc_flags and sc_java_header_scanners
    sc,               \* [offset, frame]: sc_offset and sc_cur_frame_num
    scan,             \* the scan_t, with the headers recorded so far
    state,            \* the packet_state_t being filled: [at, frame, truncated]
    done,             \* what became of the last packets scanned
    pc                \* "idle", "loop" or "flow"

vars == <<buf, config, sc, scan, state, done, pc>>

NoScan == [id |-> END_OF_HEADERS, headers |-> <<>>]
NoBuf == [layers |-> <<>>]
NoState == [at |-> 0, frame |-> 0, truncated |-> FALSE]

---------------------------------------------------------------------------
(* record_header and what it calls.                                        *)
Positive(n) == IF n < 0 THEN 0 ELSE n

(* Mutant: the lengths are recorded as the packet states them.             *)
KeepLengths(s) == s
(* What does not fit into the buffer is cut, from the back: the trailer,   *)
(* the payload, the gap, the header.                                       *)
adjustForTruncatedPacket(s) ==
    LET hdr == s.offset + s.prefix             \* where the parts begin
        gap == hdr + s.length
        pay == gap + s.gap
        post == pay + s.payload
        cutPost == post + s.postfix > s.buf_len /\ s.postfix > 0
        cutPay == post + s.postfix > s.buf_len /\ post > s.buf_len
        cutGap == cutPay /\ s.gap > 0 /\ pay > s.buf_len
        cutHdr == cutPay /\ gap > s.buf_len
    IN [s EXCEPT
          !.hdr_flags = @ \cup {f \in {"PREFIX_TRUNCATED"} : cutPost}
                          \cup {f \in {"PAYLOAD_TRUNCATED"} : cutPay}
                          \cup {f \in {"GAP_TRUNCATED"} : cutGap}
                          \cup {f \in {"HEADER_TRUNCATED"} : cutHdr},
          !.postfix = IF cutPost THEN Positive(s.mem_len - post) ELSE @,
          !.payload = IF cutPay THEN Positive(s.buf_len - pay) ELSE @,
          !.gap = IF cutGap THEN Positive(s.buf_len - gap) ELSE @,
          !.length = IF cutHdr THEN Positive(s.buf_len - hdr) ELSE @]

(* The mask of the cumulative flags is not in parentheses, so that every   *)
(* header gets IGNORE_BOUNDS.                                              *)
HeaderOf(s) ==
    [id |-> s.id, offset |-> s.offset + s.prefix, length |-> s.length,
     prefix |-> s.prefix % 256, gap |-> s.gap % 256,
     payload |-> U32(s.payload), postfix |-> s.postfix % 65536,
     flags |-> s.hdr_flags \cup (s.flags \cap {"FRAGMENTED"}) \cup {"IGNORE_BOUNDS"}]

Stored(s) ==
    [s EXCEPT !.headers = Append(@, HeaderOf(s)), !.map = @ \cup {s.id},
              !.hdr_flags = {}, !.prefix = 0, !.gap = 0, !.payload = 0, !.postfix = 0,
              !.is_recorded = TRUE]
WithoutTrailer(s) ==
    LET wire == s.wire_len - s.postfix
    IN [s EXCEPT !.wire_len = wire, !.buf_len = IF @ > wire THEN wire ELSE @]
RestIsPayload(s) ==
    IF s.payload = 0 /\ s.id # PAYLOAD_ID
    THEN [s EXCEPT !.payload = Positive(s.buf_len - (s.offset + s.prefix + s.length + s.gap))]
    ELSE s
record_header(s) ==
    IF s.is_recorded THEN s ELSE Stored(adjustForTruncatedPacket(RestIsPayload(WithoutTrailer(s))))

---------------------------------------------------------------------------
(* One turn of the loop.                                                   *)

(* A Java header scanner scans natively or sets the lengths itself; when   *)
(* no next header is known it records the header and asks its bindings.    *)
Bound(j, s) ==
    [s EXCEPT !.next_id = IF Get(LayerAt(s.offset + s.length + s.gap), "custom") = 1
                          THEN j.bind ELSE PAYLOAD_ID]
scanHeader(j, s) ==
    IF s.length = 0 \/ s.next_id # PAYLOAD_ID THEN s ELSE Bound(j, record_header(s))
SetLengths(l, s) ==
    [s EXCEPT !.prefix = l.prefix, !.length = l.header, !.gap = l.gap,
              !.payload = l.payload, !.postfix = l.postfix]
IsJava(s) == s.id \in DOMAIN config.java
Dispatched(s, s1) == IF IsJava(s) THEN scanHeader(config.java[s.id], s1) ELSE s1
Dispatch(s) ==
    Dispatched(s, IF IsJava(s) /\ ~config.java[s.id].direct
                  THEN SetLengths(config.java[s.id].lengths, s) ELSE native_scan(s.id, s))

(* Nothing found: the rest is payload; behind payload the stack continues. *)
NoHeader(s) ==
    IF s.id # PAYLOAD_ID THEN [s EXCEPT !.next_id = PAYLOAD_ID]
    ELSE IF s.stack = <<>> THEN [s EXCEPT !.next_id = END_OF_HEADERS]
    ELSE [s EXCEPT !.next_id = Last(s.stack).next_id, !.offset = Last(s.stack).offset,
                   !.stack = Front(@)]

Flags(id) == IF id \in DOMAIN config.flags THEN config.flags[id] ELSE {}
Override(s) == IF "OVERRIDE" \in Flags(s.id) THEN [s EXCEPT !.next_id = PAYLOAD_ID] ELSE s
(* The first validator that recognises the data behind the header.  Before *)
(* the known binding (PRE) or only when there is none.                     *)
Guess(s) ==
    LET ahead == [s EXCEPT !.offset = @ + s.length + s.gap]
        try(found, id) == IF found # INVALID THEN found ELSE validate(id, ahead)
    IN FoldLeft(try, INVALID, native_heuristics(s.id))
Guessed(s, id) ==
    IF "PRE" \in Flags(s.id)
    THEN [s EXCEPT !.next_id = IF id = PAYLOAD_ID THEN @ ELSE id]
    ELSE IF s.next_id = PAYLOAD_ID THEN [s EXCEPT !.next_id = id] ELSE s
Heuristics(s) == IF "HEURISTIC" \in Flags(s.id) THEN Guessed(s, Guess(s)) ELSE s

Advance(s) ==
    LET offset == s.offset + s.length + s.gap
    IN [s EXCEPT !.id = IF offset >= s.buf_len THEN END_OF_HEADERS ELSE s.next_id,
                 !.offset = offset, !.length = 0, !.next_id = PAYLOAD_ID]

Settle(s) ==
    IF s.length = 0 THEN NoHeader(s) ELSE record_header(Heuristics(Override(s)))
Turn(s) == Advance(Settle(Dispatch([s EXCEPT !.is_recorded = FALSE])))

---------------------------------------------------------------------------
StartScan(p, caplen) ==
    [id |-> p.first, next_id |-> PAYLOAD_ID, offset |-> 0, length |-> 0,
     buf_len |-> caplen, mem_len |-> caplen, wire_len |-> p.wirelen,
     prefix |-> 0, gap |-> 0, payload |-> 0, postfix |-> 0,
     flags |-> {}, hdr_flags |-> {}, is_recorded |-> FALSE, stack |-> <<>>,
     sctp_offset |-> 0, dport |-> 0, sport |-> 0,
     headers |-> <<>>, map |-> {}, key |-> EmptyKey]

(* JScanner.init, loadScanners and loadFlags.                              *)
Init ==
    /\ config \in Configs
    /\ sc = [offset |-> 0, frame |-> 0]
    /\ buf = NoBuf /\ scan = NoScan /\ state = NoState
    /\ done = <<>>
    /\ pc = "idle"

(* reloadAll: the settings change between two packets.                     *)
Reload ==
    /\ pc = "idle" /\ Len(done) = 1
    /\ config' \in Configs \ {config}
    /\ UNCHANGED <<buf, sc, scan, state, done, pc>>

(* Mutant: only the end of the ring is looked at.                          *)
NoReserve == IF sc.offset >= ScLen THEN 0 ELSE sc.offset
(* Where the next packet state begins: at the start again when there may   *)
(* not be room for it.                                                     *)
NextState == IF sc.offset > ScLen - MAX_ENTRY_COUNT THEN 0 ELSE sc.offset

scanJPacket(p, caplen) ==
    /\ pc = "idle" /\ Len(done) < MaxFrames
    /\ buf' = [layers |-> p.layers, caplen |-> caplen, wirelen |-> p.wirelen,
               stale |-> p.stale, plain |-> p.plain, first |-> p.first]
    /\ state' = [at |-> NextState, frame |-> sc.frame, truncated |-> caplen # p.wirelen]
    /\ sc' = [sc EXCEPT !.offset = NextState, !.frame = @ + 1]
    /\ scan' = StartScan(p, caplen)
    /\ pc' = "loop"
    /\ UNCHANGED <<config, done>>

Loop ==
    /\ pc = "loop"
    /\ IF scan.id = END_OF_HEADERS
       THEN pc' = "flow" /\ UNCHANGED scan
       ELSE scan' = Turn(scan) /\ UNCHANGED pc
    /\ UNCHANGED <<buf, config, sc, state, done>>

(* The flow key, the next place in the ring, and the packet is Java's.     *)
Finish ==
    /\ pc = "flow"
    /\ LET len == StateSize + Len(scan.headers)
       IN /\ sc' = [sc EXCEPT !.offset = @ + len]
          /\ done' = Append(done, [at |-> state.at, len |-> len, frame |-> state.frame, config |-> config,
                                   pkt |-> IF state.truncated THEN NoBuf ELSE buf,
                                   key |-> process_flow_key(scan.key)])
    /\ buf' = NoBuf /\ scan' = NoScan /\ state' = NoState
    /\ pc' = "idle"
    /\ UNCHANGED config

First == done = <<>> /\ \E p \in Packets : \E n \in 1..p.wirelen : scanJPacket(p, n)
Later ==
    /\ done # <<>>
    /\ \E p \in Companions(done[Len(done)].pkt) : scanJPacket(p, p.wirelen)
Next == First \/ Later \/ Reload \/ Loop \/ Finish
Spec == Init /\ [][Next]_vars

---------------------------------------------------------------------------
Headers == scan.headers
Scanned == pc = "flow"
End(h) == h.offset + h.length

(* Whatever the packet and wherever the snapshot length cut it, the        *)
(* recorded headers follow one another without a hole and without a byte   *)
(* read twice, none of them is empty, and all lie in the captured bytes.   *)
HeadersInOrder ==
    \A i \in 1..Len(Headers) :
        /\ Headers[i].length > 0
        /\ End(Headers[i]) <= buf.caplen
        /\ Headers[i].offset = IF i = 1 THEN 0 ELSE End(Headers[i - 1])

(* A header that is recorded under the id of a protocol is a header of     *)
(* that protocol: no cut makes the scanner take one layer for another.     *)
IdsAreTrue ==
    \A i \in 1..Len(Headers) :
        Headers[i].id # PAYLOAD_ID => Get(LayerAt(Headers[i].offset), "id") = Headers[i].id

(* With heuristics on, every layer is found in a whole capture of an       *)
(* ordinary packet, at its place and with its length: the chain of next_id *)
(* and offset never breaks off early.                                      *)
Recognised ==
    (/\ Scanned /\ buf.plain /\ buf.caplen = buf.wirelen
     /\ \A id \in {TCP_ID, UDP_ID} : "HEURISTIC" \in Flags(id)) =>
        LET layers == SelectSeq(buf.layers, LAMBDA l : Get(l, "trailer") = 0)
        IN [i \in 1..Len(Headers) |-> <<Headers[i].id, Headers[i].offset, Headers[i].length>>]
             = [i \in 1..Len(layers) |-> <<layers[i].id, layers[i].at, layers[i].len>>]

(* The flags tell the truth about the datagram: an IP header says that its *)
(* payload was cut exactly if the capture ends before the datagram does,   *)
(* and a header says that it is part of a fragment exactly if a header     *)
(* before it, or itself, is one.                                           *)
IpHeaders == {i \in 1..Len(Headers) : Headers[i].id \in {IP4_ID, IP6_ID}}
DatagramEnd(l) == IF l.id = IP4_ID THEN l.at + l.tot_len ELSE l.at + 40 + l.plen
IsFragment(l) == Get(l, "mf") = 1 \/ Get(l, "frag") > 0
FlagsTell ==
    /\ \A i \in IpHeaders :
         LET l == LayerAt(Headers[i].offset)
         IN ~IsFragment(l) =>
              ("PAYLOAD_TRUNCATED" \in Headers[i].flags <=> buf.caplen < DatagramEnd(l))
    /\ \A i \in 1..Len(Headers) :
         "FRAGMENTED" \in Headers[i].flags
            <=> \E j \in IpHeaders : j <= i /\ IsFragment(LayerAt(Headers[j].offset))

(* What a header calls its payload was captured, unless its length field   *)
(* is one the code takes as it is written: the length of an 802.3 frame,   *)
(* and an IP total length below the header's own (0 with TCP offload).     *)
TakenOnTrust(l) ==
    \/ Get(l, "id") \in {ETHERNET_ID, IEEE_802DOT3_ID} /\ l.type < 1536
    \/ Get(l, "id") = IP4_ID /\ l.tot_len < l.len
PayloadIsThere ==
    \A i \in 1..Len(Headers) :
        TakenOnTrust(LayerAt(Headers[i].offset)) \/ End(Headers[i]) + Headers[i].payload <= buf.caplen

(* Ethernet padding behind an IPv4 datagram belongs to no header and to no *)
(* payload but to the trailer of the Ethernet header, and a packet without *)
(* padding has no trailer.                                                 *)
Padding == buf.caplen - DatagramEnd(buf.layers[2])
PaddingStaysOut ==
    Scanned /\ Len(Headers) >= 2 /\ Headers[1].id = ETHERNET_ID /\ Headers[2].id = IP4_ID
      /\ buf.plain
      => /\ Headers[1].postfix = Positive(Padding)
         /\ \A i \in 2..Len(Headers) :
              End(Headers[i]) + Headers[i].payload <= DatagramEnd(buf.layers[2])

(* The state of the packet being scanned stays inside the ring, with the   *)
(* cleared entry behind its last header, and leaves the state of the       *)
(* packet before it untouched; frame numbers are consecutive.              *)
InUse == StateSize + Len(Headers) + 1
RingKeepsStates ==
    /\ pc # "idle" => /\ state.at + InUse <= ScLen
                      /\ done # <<>> =>
                           LET d == done[Len(done)]
                           IN d.at + d.len <= state.at \/ state.at + InUse <= d.at
    /\ \A i \in 1..Len(done) : done[i].frame = i - 1

(* The flow keys of the two directions of a conversation, scanned with the *)
(* same settings, are equal and match as reverse, whatever tunnels the     *)
(* packets went through.                                                   *)
Swap(l) ==
    [f \in DOMAIN l |->
       CASE f = "src" -> l.dst [] f = "dst" -> l.src
         [] f = "sport" -> l.dport [] f = "dport" -> l.sport [] OTHER -> l[f]]
Turned(p) == [p EXCEPT !.layers = [i \in DOMAIN @ |-> Swap(@[i])]]
BothDirectionsMatch ==
    \A i \in 2..Len(done) :
        LET p == done[i - 1]  q == done[i]
        IN (/\ p.key.rev /\ q.pkt # NoBuf /\ p.pkt # NoBuf
            /\ q.pkt.layers = Turned(p.pkt).layers /\ q.config = p.config) =>
               /\ JFlowKey_equal(p.key, q.key)
               /\ JFlowKey_match(p.key, q.key) = -1

(* The recorded headers and what they say of their payload agree with the  *)
(* packet, wherever the capture was cut (scan(), record_header()).         *)
HeadersAreRight == HeadersInOrder /\ FlagsTell /\ PayloadIsThere /\ PaddingStaysOut

(* The layers are recorded for what they are and, where the capture is     *)
(* whole, all of them are (the scanners and validators).                   *)
IdsAreRight == IdsAreTrue /\ Recognised

(* The states that scanned packets leave stay what they are, and their     *)
(* flow keys bring the two directions together (scanJPacket()).            *)
StatesAreSound == RingKeepsStates /\ BothDirectionsMatch

=============================================================================
