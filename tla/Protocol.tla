------------------------------ MODULE Protocol ------------------------------
(***************************************************************************)
(* The native protocol scanners of jnetpcap (packet_protocol.cpp): for     *)
(* every protocol the function that measures the header at the scan        *)
(* position, fills in the flow key and names the next header.              *)
(*                                                                         *)
(* A scan_t is a record; a scan function maps it to the scan_t it leaves   *)
(* behind.  The bytes of a packet are a sequence of layers (see Layers),   *)
(* each with its offset "at"; a field that a layer does not have reads as  *)
(* zero, which is what payload and padding hold here.                      *)
(***************************************************************************)
EXTENDS Layers, Sequences, FiniteSets, SequencesExt, Bitwise

CONSTANT Wrap32    \* 2^32, scaled down to a number larger than any packet

VARIABLE buf       \* the packet being scanned: [layers, caplen, wirelen, stale]

(* The layer whose first byte is at the scan position; Zeros elsewhere.    *)
Zeros == [at |-> 0, len |-> 0]
LayerAt(o) ==
    LET I == {i \in 1..Len(buf.layers) : buf.layers[i].at = o}
    IN IF I = {} THEN Zeros ELSE buf.layers[CHOOSE i \in I : TRUE]
Get(l, f) == IF f \in DOMAIN l THEN l[f] ELSE 0
Field(s, f) == Get(LayerAt(s.offset), f)
Remain(s) == s.buf_len - s.offset
is_accessible(s, o) == s.offset + o <= s.buf_len

---------------------------------------------------------------------------
(* Flow keys (packet_flow.h, packet_flow.cpp).  The forward pairs are      *)
(* slots 0..2, the reverse pairs slots 3..5, and slot 6 is what follows    *)
(* them in the structure: a fourth forward pair lands on the first reverse *)
(* pair, a fourth reverse pair on the ids.                                 *)
Word(n) == <<n, 0>>
XorWord(x, y) == <<x[1] ^^ y[1], x[2] ^^ y[2]>>
EmptyKey == [map |-> {}, rev |-> FALSE, count |-> 0, hash |-> Word(0),
             pair |-> [i \in 0..(2 * FLOW_KEY_PAIR_COUNT) |-> <<Word(0), Word(0)>>]]

(* An address layer that comes first restarts the key with two pairs (or   *)
(* one: 802.3); a later header of the same kind leaves the key alone.      *)
KeyAddresses(k, id, n, p0, p1) ==
    IF id \in k.map THEN k
    ELSE [k EXCEPT !.map = @ \cup {id}, !.count = n,
                   !.pair = [@ EXCEPT ![0] = p0, ![1] = p1]]
(* TCP and UDP append their ports and make the key reversible.             *)
KeyPorts(k, id, sport, dport) ==
    IF id \in k.map THEN k
    ELSE [k EXCEPT !.map = @ \cup {id}, !.count = @ + 1, !.rev = TRUE,
                   !.pair = [@ EXCEPT ![k.count] = <<Word(sport), Word(dport)>>]]

process_flow_key(k) ==
    LET turn(p, i) == [p EXCEPT ![FLOW_KEY_PAIR_COUNT + i] = <<p[i][2], p[i][1]>>]
        upto == [i \in 1..k.count |-> i - 1]
        pair == IF k.rev THEN FoldLeft(turn, k.pair, upto) ELSE k.pair
        swap(w) == <<w[2], w[1]>>            \* (w << 16) ^ (w >> 16)
        mix(h, i) == IF k.rev
                     THEN XorWord(h, XorWord(pair[FLOW_KEY_PAIR_COUNT + i][1],
                                     pair[FLOW_KEY_PAIR_COUNT + i][2]))
                     ELSE XorWord(h, XorWord(swap(pair[i][1]), swap(pair[i][2])))
        start == FoldSet(LAMBDA id, n : n + 2 ^ id, IF k.rev THEN 1 ELSE 0, k.map)
    IN [k EXCEPT !.pair = pair, !.hash = FoldLeft(mix, Word(start), upto)]

(* memcmp over pair_count * 2 bytes: one half-word per pair, counted from  *)
(* the start of the first pair.                                            *)
Halves(k, base) == k.pair[base][1] \o k.pair[base][2]
SamePairs(k1, k2, base) ==
    SubSeq(Halves(k1, 0), 1, k1.count) = SubSeq(Halves(k2, base), 1, k1.count)
SameShape(k1, k2) == k1.hash = k2.hash /\ k1.rev = k2.rev /\ k1.map = k2.map
JFlowKey_match(k1, k2) ==
    IF ~SameShape(k1, k2) THEN 0
    ELSE IF SamePairs(k1, k2, 0) THEN 1
    ELSE IF k1.rev /\ SamePairs(k1, k2, FLOW_KEY_PAIR_COUNT) THEN -1 ELSE 0
JFlowKey_equal(k1, k2) ==
    SameShape(k1, k2) /\ (SamePairs(k1, k2, 0) \/ (k1.rev /\ SamePairs(k1, k2, FLOW_KEY_PAIR_COUNT)))

---------------------------------------------------------------------------
(* Validators: does the data at the scan position look like the protocol?  *)
(* PACKET_STATE_HAS_HEADER compares before it masks, so for an id below 32 *)
(* it is always false and the size is always what is left of the buffer.   *)
PACKET_STATE_HAS_HEADER(s, id) == id \div 32 # 0 /\ 32 * (id \div 32) \in s.map
TextSize(s) ==
    IF PACKET_STATE_HAS_HEADER(s, TCP_ID) THEN s.headers[Len(s.headers)].payload ELSE Remain(s)

(* The first words the two validators know, with the bytes they compare;   *)
(* "CONNECT" is compared over 7 == 0 bytes, so it never counts.            *)
HttpWords == [HTTP |-> 4, OPTIONS |-> 7, DELETE |-> 6, TRACE |-> 5, HEAD |-> 4,
              POST |-> 4, PUT |-> 3, GET |-> 3]
SipWords == [REGISTER |-> 9, OPTIONS |-> 8, INVITE |-> 7, CANCEL |-> 7, ACK |-> 4,
             BYE |-> 4, PRACK |-> 6, REFER |-> 6, UPDATE |-> 7, NOTIFY |-> 7,
             SUBSCRIBE |-> 10, PUBLISH |-> 8, MESSAGE |-> 8, INFO |-> 5, SIP |-> 8]
Begins(s, words, least) ==
    LET l == LayerAt(s.offset)
    IN /\ "word" \in DOMAIN l
       /\ l.word \in DOMAIN words
       /\ TextSize(s) >= least /\ TextSize(s) >= words[l.word]
validate_http(s) == IF Begins(s, HttpWords, 5) THEN HTTP_ID ELSE INVALID
validate_sip(s) == IF Begins(s, SipWords, 3) THEN SIP_ID ELSE INVALID

(* A read past the captured bytes finds what the buffer held before.       *)
Captured(s, o, v) == IF s.offset + o <= s.mem_len THEN v ELSE buf.stale
validate_rtp(s) ==
    LET l == LayerAt(s.offset)
        cc == Get(l, "cc")
        xlen == Captured(s, 16 + 4 * cc, Get(l, "xwords")) * 4
        actual == 12 + 4 * cc + (IF Get(l, "ext") = 1 THEN xlen ELSE 0)
    IN IF /\ Remain(s) >= 12
          /\ Get(l, "ver") = 2 /\ Get(l, "ts") # 0
          /\ Get(l, "pt") \in 0..34 \cup 96..127
          /\ Get(l, "twins") = 0              \* two equal contributing sources
          /\ Get(l, "ext") = 1 => /\ xlen <= 1500
                                  /\ "FRAGMENTED" \in s.flags \/ s.offset + xlen <= s.wire_len
          /\ s.dport % 2 = 0
          /\ s.wire_len - s.offset >= actual \/ s.wire_len # s.buf_len
       THEN RTP_ID ELSE INVALID
validate_rtcp(s) ==
    LET l == LayerAt(s.offset)
    IN IF /\ Remain(s) >= 8
          /\ Get(l, "ver") = 2 /\ Get(l, "rc") <= 15
          /\ Get(l, "pt") \in 200..205
          /\ s.dport % 2 = 1
       THEN RTCP_ID + (Get(l, "pt") - 200) ELSE INVALID

validate(id, s) ==
    CASE id = HTTP_ID -> validate_http(s)
      [] id = SIP_ID -> validate_sip(s)
      [] id = RTP_ID -> validate_rtp(s)
      [] id = RTCP_ID -> validate_rtcp(s)
      [] OTHER -> id
(* Mutant: a well-known port or protocol number is believed.               *)
BelieveBinding(id, s) == id
validate_next(id, s) ==
    IF s.buf_len = s.offset THEN INVALID
    ELSE validate(id, [s EXCEPT !.offset = @ + s.length + s.gap])

(* native_heuristics: which validators are tried behind TCP and UDP.       *)
native_heuristics(id) ==
    CASE id = TCP_ID -> <<HTTP_ID, SIP_ID>>
      [] id = UDP_ID -> <<RTP_ID, RTCP_ID, SIP_ID>>
      [] OTHER -> <<>>

---------------------------------------------------------------------------
(* Link layers.                                                            *)
lookup_ethertype(t) ==
    CASE t = 2048 -> IP4_ID                                        \* 0x0800
      [] t = 2054 -> ARP_ID                                        \* 0x0806
      [] t = 34525 -> IP6_ID                                       \* 0x86DD
      [] t \in {33024, 34984, 37120} -> IEEE_802DOT1Q_ID    \* 8100, 88a8, 9100
      [] OTHER -> PAYLOAD_ID

(* The pair of a MAC header mixes the halves of both addresses.            *)
MacPair(l) ==
    LET d == l.dst  s == l.src
    IN << <<d[1] ^^ s[1], d[2]>>, <<s[2] ^^ d[3], s[3]>> >>

scan_802dot3(s) ==
    LET l == LayerAt(s.offset)
        s1 == [s EXCEPT !.length = 14]
    IN [s1 EXCEPT !.next_id = validate_next(IEEE_802DOT2_ID, s1),
                  !.payload = l.type - 14,
                  !.postfix = s.buf_len - l.type,
                  !.key = KeyAddresses(@, IEEE_802DOT3_ID, 1, MacPair(l), s.key.pair[1])]
scan_ethernet_v2(s) ==
    LET l == LayerAt(s.offset)
        s1 == [s EXCEPT !.length = 14,
                        !.key = KeyAddresses(@, ETHERNET_ID, 2, MacPair(l),
                                             <<Word(l.type), Word(l.type)>>)]
    IN IF l.type < 1536 THEN scan_802dot3(s1)
       ELSE [s1 EXCEPT !.next_id = validate_next(lookup_ethertype(l.type), s1)]
scan_ethernet(s) == IF Remain(s) < 14 THEN s ELSE scan_ethernet_v2(s)
(* As the first header, 802.3 hands a frame with a type over to Ethernet.  *)
scan_802dot3_first(s) ==
    IF Remain(s) < 14 THEN s
    ELSE IF Field(s, "type") >= 1536 THEN scan_ethernet_v2(s) ELSE scan_802dot3(s)

scan_vlan(s) ==
    LET type == Field(s, "type")
        s1 == [s EXCEPT !.length = 4]
    IN IF Remain(s) < 4 THEN s
       ELSE IF type < 1536
       THEN [s1 EXCEPT !.next_id = validate_next(IEEE_802DOT2_ID, s1),
                       !.payload = type - 4 - s.offset]
       ELSE [s1 EXCEPT !.next_id = validate_next(lookup_ethertype(type), s1)]

(* The control field is masked with 0x3 == 0x3, that is with 1.            *)
scan_llc(s) ==
    LET s1 == [s EXCEPT !.length = IF Field(s, "control") % 2 = 1 THEN 3 ELSE 4]
    IN IF Remain(s) < 3 THEN s
       ELSE [s1 EXCEPT !.next_id = IF Field(s, "dsap") = 170
                                   THEN validate_next(IEEE_SNAP_ID, s1) ELSE @]

scan_snap(s) ==
    LET pid == Field(s, "pid")
        s1 == [s EXCEPT !.length = 5,
                        !.key = KeyAddresses(@, IEEE_SNAP_ID, 2, @.pair[0],
                                             <<Word(pid), Word(pid)>>)]
    IN IF Remain(s) < 5 THEN s
       ELSE [s1 EXCEPT !.next_id = IF Field(s, "oui") \in {0, 248}
                                   THEN validate_next(lookup_ethertype(pid), s1) ELSE @]

scan_sll(s) ==
    LET s1 == [s EXCEPT !.length = 16]
    IN IF is_accessible(s, 16) /\ Field(s, "type") = 2048
       THEN [s1 EXCEPT !.next_id = validate_next(IP4_ID, s1)] ELSE s1
scan_null_header(s) ==
    IF is_accessible(s, 4)
    THEN [s EXCEPT !.id = NULL_HEADER_ID, !.length = 4,
                   !.next_id = IF Field(s, "type") = 2 THEN IP4_ID ELSE PAYLOAD_ID]
    ELSE s

scan_ppp(s) ==
    LET s1 == [s EXCEPT !.length = 4]
    IN IF Remain(s) < 4 THEN s
       ELSE [s1 EXCEPT !.next_id = CASE Field(s, "type") = 33 -> validate_next(IP4_ID, s1)
                                     [] Field(s, "type") = 87 -> validate_next(IP6_ID, s1)
                                     [] OTHER -> @]
(* Optional fields: length 2, sequence numbers 4, offset 4; T says control.*)
scan_l2tp(s) ==
    LET opt(f, n) == IF Field(s, f) = 1 THEN n ELSE 0
        s1 == [s EXCEPT !.length = 6 + opt("L", 2) + opt("S", 4) + opt("O", 4)]
    IN IF Remain(s) < 2 THEN s
       ELSE [s1 EXCEPT !.next_id = IF Field(s, "T") = 0 THEN validate_next(PPP_ID, s1) ELSE @]
scan_arp(s) ==
    IF Remain(s) < 6 THEN s
    ELSE [s EXCEPT !.length = (Field(s, "hlen") + Field(s, "plen")) * 2 + 8]

---------------------------------------------------------------------------
(* Internet layers.  A header that an Ethernet header directly precedes    *)
(* tells where the datagram ends: what is left of the frame becomes the    *)
(* trailer of the Ethernet header and is cut off the buffer.               *)
U32(n) == IF n < 0 THEN n + Wrap32 ELSE n
Fragmented == {"FRAGMENTED", "IGNORE_BOUNDS"}
TrimTrailer(s, end) ==
    LET n == Len(s.headers)
        postfix == s.buf_len - end
    IN IF postfix <= 0 THEN s
       ELSE [s EXCEPT !.buf_len = @ - postfix,
                      !.headers[n] = [@ EXCEPT !.postfix = postfix % 65536,
                                               !.payload = U32(@ - postfix)]]
AfterEthernet(s, least) ==
    Len(s.headers) >= least /\ s.headers[Len(s.headers)].id = ETHERNET_ID

IpProtocol(n) ==
    CASE n = 1 -> ICMP_ID
      [] n = 4 -> IP4_ID
      [] n = 6 -> TCP_ID
      [] n = 17 -> UDP_ID
      [] n = 115 -> L2TP_ID
      [] n = 132 -> SCTP_ID
      [] OTHER -> PAYLOAD_ID

scan_ip4(s) ==
    LET l == LayerAt(s.offset)
        length == 4 * Get(l, "ihl")
        tot_len == Get(l, "tot_len")
        frag == Get(l, "frag")
        s1 == [s EXCEPT !.length = length, !.payload = tot_len - length]
        s2 == IF AfterEthernet(s, 1) /\ tot_len <= s.buf_len
              THEN TrimTrailer(s1, s.offset + tot_len) ELSE s1
        s3 == IF Get(l, "mf") = 1 \/ frag > 0
              THEN [s2 EXCEPT !.flags = @ \cup Fragmented,
                              !.payload = s2.buf_len - length - s.offset]
              ELSE s2
        proto == Word(Get(l, "proto"))
        s4 == [s3 EXCEPT !.key = KeyAddresses(@, IP4_ID, 2, <<l.src, l.dst>>, <<proto, proto>>)]
    IN IF Remain(s) < 20 THEN s
       ELSE IF ~is_accessible(s3, 16) THEN s3
       ELSE [s4 EXCEPT !.next_id = IF frag # 0 \/ IpProtocol(proto[1]) = PAYLOAD_ID THEN PAYLOAD_ID
                                   ELSE validate_next(IpProtocol(proto[1]), s4)]

(* The chain of extension headers: each is [type, len] with the type that  *)
(* follows it.  The second bounds check counts the scan offset twice.      *)
RECURSIVE ip6_options(_, _, _)
ip6_options(s, type, i) ==
    IF type \in {0, 43, 44, 50, 51, 60, 135}
    THEN LET exts == LayerAt(s.offset).exts
             x == IF i <= Len(exts) THEN exts[i] ELSE [next |-> 0, len |-> 8]
             s1 == IF type = 44 THEN [s EXCEPT !.flags = @ \cup Fragmented] ELSE s
         IN IF ~is_accessible(s, s.length + 2) \/ ~is_accessible(s, s.offset + x.len) THEN s1
            ELSE ip6_options([s1 EXCEPT !.length = @ + x.len, !.payload = @ - x.len], x.next, i + 1)
    ELSE IF type \in {1, 4, 6, 17, 132} THEN [s EXCEPT !.next_id = validate_next(IpProtocol(type), s)]
    ELSE IF type = 59 /\ s.payload = 0 THEN [s EXCEPT !.next_id = END_OF_HEADERS]
    ELSE s

scan_ip6(s) ==
    LET l == LayerAt(s.offset)
        plen == Get(l, "plen")
        s1 == [s EXCEPT !.length = 40, !.payload = plen]
        s2 == IF AfterEthernet(s, 2) THEN TrimTrailer(s1, s.offset + plen + 40) ELSE s1
        fold(a) == FoldLeft(LAMBDA x, y : XorWord(x, y), Word(0), a)
        nxt == Word(l.nxt)
        s3 == [s2 EXCEPT !.key = KeyAddresses(@, IP6_ID, 2, <<fold(l.src), fold(l.dst)>>, <<nxt, nxt>>)]
    IN IF Remain(s) < 40 THEN s ELSE ip6_options(s3, l.nxt, 1)

scan_icmp(s) ==
    LET s1 == [s EXCEPT !.length = 8]
    IN IF Remain(s) < 4 THEN s
       ELSE IF Field(s, "type") \in {3, 12}
       THEN [s1 EXCEPT !.next_id = validate_next(IP4_ID, s1), !.flags = @ \cup {"IGNORE_BOUNDS"}]
       ELSE s1

---------------------------------------------------------------------------
(* Transport layers: the destination port, then the source port, may name  *)
(* the next protocol; a port below 1024 otherwise ends the scan.           *)
TcpPort(p) == IF p \in {80, 8080, 8081} THEN HTTP_ID ELSE IF p = 5060 THEN SIP_ID ELSE PAYLOAD_ID
UdpPort(p) ==
    CASE p = 1701 -> L2TP_ID
      [] p = 5004 -> RTP_ID
      [] p = 5005 -> RTCP_ID
      [] p = 5060 -> SIP_ID
      [] OTHER -> PAYLOAD_ID
NextOfPorts(s, byDport, bySport) ==
    IF byDport # PAYLOAD_ID THEN validate_next(byDport, s)
    ELSE IF bySport # PAYLOAD_ID THEN validate_next(bySport, s)
    ELSE IF s.dport < 1024 \/ s.sport < 1024 THEN END_OF_HEADERS
    ELSE s.next_id
scan_tcp(s) ==
    LET sp == Field(s, "sport")  dp == Field(s, "dport")
        s1 == [s EXCEPT !.length = 4 * Field(s, "doff"), !.sport = sp, !.dport = dp,
                        !.key = KeyPorts(@, TCP_ID, sp, dp)]
    IN IF Remain(s) < 20 THEN s
       ELSE [s1 EXCEPT !.next_id = NextOfPorts(s1, TcpPort(dp), TcpPort(sp))]
scan_udp(s) ==
    LET sp == Field(s, "sport")  dp == Field(s, "dport")
        s1 == [s EXCEPT !.length = 8, !.sport = sp, !.dport = dp,
                        !.key = KeyPorts(@, UDP_ID, sp, dp)]
    IN IF Remain(s) < 8 THEN s
       ELSE [s1 EXCEPT !.next_id = NextOfPorts(s1, UdpPort(dp), UdpPort(sp))]

scan_sctp(s) ==
    LET s1 == [s EXCEPT !.length = 12, !.sctp_offset = s.offset]
    IN IF is_accessible(s, 12) THEN [s1 EXCEPT !.next_id = SCTP_CHUNK_ID] ELSE s1
(* The length is read from where the type is, so that any chunk but DATA   *)
(* takes the rest of the packet.  Behind a DATA chunk comes its payload;   *)
(* what should be the chunk after it is pushed on the stack.               *)
scan_sctp_chunk(s) ==
    LET type == Field(s, "chunk")
        len == 256 * type
        ports == LayerAt(s.sctp_offset)
        s1 == [s EXCEPT !.id = SCTP_CHUNK_ID + type, !.length = IF type = 0 THEN 16 ELSE len,
                        !.next_id = IF type = 0 THEN PAYLOAD_ID ELSE SCTP_CHUNK_ID]
        s2 == [s1 EXCEPT !.stack = Append(@, [next_id |-> SCTP_CHUNK_ID, offset |-> s.offset + len])]
        s3 == [s2 EXCEPT !.dport = Get(ports, "dport"), !.sport = Get(ports, "sport")]
        try(p) == IF TcpPort(p) = PAYLOAD_ID THEN PAYLOAD_ID ELSE validate_next(TcpPort(p), s3)
    IN IF ~is_accessible(s, 4) THEN s
       ELSE IF type # 0 THEN s1
       ELSE IF Field(s, "first") = 0 THEN s2
       ELSE [s3 EXCEPT !.next_id = IF try(s3.dport) # PAYLOAD_ID THEN try(s3.dport) ELSE try(s3.sport)]

---------------------------------------------------------------------------
(* Applications.  A text header ends behind its first empty line ("hl").   *)
scan_http(s) ==
    LET size == TextSize(s)  hl == Field(s, "hl")
    IN [s EXCEPT !.length = IF hl > 0 /\ hl < size THEN hl ELSE size]
scan_html(s) == [s EXCEPT !.length = Remain(s)]
scan_sdp(s) == [s EXCEPT !.length = Remain(s)]
(* The comparison with "Content-Type:" is inverted: any other line that    *)
(* begins with a C ("c" = 1) counts as one, and any type but               *)
(* application/sdp counts as SDP when 15 bytes of body are there.          *)
scan_sip(s) ==
    LET size == Remain(s)  hl == Field(s, "hl")
        ends == hl > 0 /\ hl <= size
        s1 == [s EXCEPT !.length = IF ends THEN hl ELSE size]
    IN IF Field(s, "c") = 0 \/ ~ends \/ size - hl < 15 THEN s1
       ELSE [s1 EXCEPT !.next_id = validate_next(SDP_ID, s1)]

(* The padding count is only looked at when offset + wire_len - 1 bytes    *)
(* are there.                                                              *)
scan_rtp(s) ==
    LET l == LayerAt(s.offset)
        s1 == [s EXCEPT !.length = 12 + 4 * Get(l, "cc")]
        s2 == [s1 EXCEPT !.length = IF Get(l, "ext") = 1 THEN @ + 4 * Get(l, "xwords") + 4 ELSE @]
    IN IF ~is_accessible(s, 12) THEN s
       ELSE IF ~is_accessible(s1, s1.length + 4) THEN s1
       ELSE IF Get(l, "pad") > 0 /\ is_accessible(s2, s.wire_len - 1)
       THEN [s2 EXCEPT !.postfix = Get(l, "pad")] ELSE s2
scan_rtcp(s) ==
    LET s1 == [s EXCEPT !.length = 4 * (Field(s, "words") + 1)]
    IN IF ~is_accessible(s, 4) THEN s
       ELSE IF Field(s, "pt") \in 200..205
       THEN [s1 EXCEPT !.id = RTCP_ID + (Field(s, "pt") - 200), !.next_id = RTCP_ID]
       ELSE [s1 EXCEPT !.id = PAYLOAD_ID]

scan_payload(s) ==
    [s EXCEPT !.id = PAYLOAD_ID, !.next_id = END_OF_HEADERS, !.length = Remain(s)]

(* native_protocols: an id without a scanner leaves the scan_t alone.      *)
native_scan(id, s) ==
    CASE id = PAYLOAD_ID -> scan_payload(s)
      [] id = ETHERNET_ID -> scan_ethernet(s)
      [] id = IP4_ID -> scan_ip4(s)
      [] id = IP6_ID -> scan_ip6(s)
      [] id = TCP_ID -> scan_tcp(s)
      [] id = UDP_ID -> scan_udp(s)
      [] id = IEEE_802DOT3_ID -> scan_802dot3_first(s)
      [] id = IEEE_802DOT2_ID -> scan_llc(s)
      [] id = IEEE_SNAP_ID -> scan_snap(s)
      [] id = IEEE_802DOT1Q_ID -> scan_vlan(s)
      [] id = L2TP_ID -> scan_l2tp(s)
      [] id = PPP_ID -> scan_ppp(s)
      [] id = ICMP_ID -> scan_icmp(s)
      [] id = HTTP_ID -> scan_http(s)
      [] id = HTML_ID -> scan_html(s)
      [] id = ARP_ID -> scan_arp(s)
      [] id = SIP_ID -> scan_sip(s)
      [] id = SDP_ID -> scan_sdp(s)
      [] id = SLL_ID -> scan_sll(s)
      [] id = NULL_HEADER_ID -> scan_null_header(s)
      [] id = SCTP_ID -> scan_sctp(s)
      [] id \in 33..47 \ {38} -> scan_sctp_chunk(s)
      [] id = RTP_ID -> scan_rtp(s)
      [] id \in 49..53 -> scan_rtcp(s)
      [] OTHER -> s
=============================================================================
