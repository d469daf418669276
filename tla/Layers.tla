------------------------------- MODULE Layers -------------------------------
(***************************************************************************)
(* The headers the native scanners of jnetpcap know (packet_protocol.h):   *)
(* the ids, and for each structure the fields its GET macros read, with    *)
(* the length of the header as a sender writes it.                         *)
(*                                                                         *)
(* A 32-bit word is <<low, high>>, two 16-bit halves, as it lies in memory *)
(* on the little-endian target; a MAC address is three halves.             *)
(***************************************************************************)
EXTENDS Integers

END_OF_HEADERS == -1
PAYLOAD_ID == 0
ETHERNET_ID == 1
IP4_ID == 2
IP6_ID == 3
TCP_ID == 4
UDP_ID == 5
IEEE_802DOT3_ID == 6
IEEE_802DOT2_ID == 7
IEEE_SNAP_ID == 8
IEEE_802DOT1Q_ID == 9
L2TP_ID == 10
PPP_ID == 11
ICMP_ID == 12
HTTP_ID == 13
HTML_ID == 14
ARP_ID == 16
SIP_ID == 17
SDP_ID == 18
SLL_ID == 20
NULL_HEADER_ID == 21
SCTP_ID == 32
SCTP_CHUNK_ID == 33
RTP_ID == 48
RTCP_ID == 49
INVALID == PAYLOAD_ID

MAX_ID_COUNT == 256
FLOW_KEY_PAIR_COUNT == 3

---------------------------------------------------------------------------
MacA == <<1, 2, 3>>
MacB == <<4, 5, 6>>
HostA == <<257, 10>>
HostB == <<258, 10>>
HostA6 == <<<<1, 2>>, <<3, 4>>, <<5, 6>>, <<7, 8>>>>
HostB6 == <<<<1, 2>>, <<3, 4>>, <<5, 6>>, <<9, 8>>>>

eth(type) == [id |-> ETHERNET_ID, len |-> 14, type |-> type, src |-> MacA, dst |-> MacB]
vlan(type) == [id |-> IEEE_802DOT1Q_ID, len |-> 4, type |-> type]
llc(dsap, control, len) == [id |-> IEEE_802DOT2_ID, len |-> len, dsap |-> dsap, control |-> control]
snap(pid) == [id |-> IEEE_SNAP_ID, len |-> 5, oui |-> 0, pid |-> pid]
sll(type) == [id |-> SLL_ID, len |-> 16, type |-> type]
null(type) == [id |-> NULL_HEADER_ID, len |-> 4, type |-> type]
arp == [id |-> ARP_ID, len |-> 28, hlen |-> 6, plen |-> 4]
ip4x(proto, tot, ihl, mf, frag) ==
    [id |-> IP4_ID, len |-> 4 * ihl, ihl |-> ihl, tot_len |-> tot, proto |-> proto,
     mf |-> mf, frag |-> frag, src |-> HostA, dst |-> HostB]
ip4(proto, body) == ip4x(proto, 20 + body, 5, 0, 0)
ip6x(nxt, plen, exts, len) ==
    [id |-> IP6_ID, len |-> len, plen |-> plen, nxt |-> nxt, exts |-> exts,
     src |-> HostA6, dst |-> HostB6]
ip6(nxt, body) == ip6x(nxt, body, <<>>, 40)
tcp(sp, dp) == [id |-> TCP_ID, len |-> 20, doff |-> 5, sport |-> sp, dport |-> dp]
udp(sp, dp) == [id |-> UDP_ID, len |-> 8, sport |-> sp, dport |-> dp]
icmp(type) == [id |-> ICMP_ID, len |-> 8, type |-> type]
l2tp(L, S) == [id |-> L2TP_ID, len |-> 6 + 2 * L + 4 * S, L |-> L, S |-> S, O |-> 0, T |-> 0]
ppp(type) == [id |-> PPP_ID, len |-> 4, type |-> type]
sctp(sp, dp) == [id |-> SCTP_ID, len |-> 12, sport |-> sp, dport |-> dp]
chunk(type, len, first) ==
    [id |-> SCTP_CHUNK_ID + type, len |-> len, chunk |-> type, first |-> first]
http(word, hl) == [id |-> HTTP_ID, len |-> hl, word |-> word, hl |-> hl]
sip(word, hl) == [id |-> SIP_ID, len |-> hl, word |-> word, hl |-> hl, c |-> 1]
sdp(n) == [id |-> SDP_ID, len |-> n]
rtp(cc, ext, xw) ==
    [id |-> RTP_ID, len |-> 12 + 4 * cc + ext * (4 + 4 * xw), ver |-> 2, cc |-> cc, ext |-> ext,
     xwords |-> xw, ts |-> 1, pt |-> 8, twins |-> 0, pad |-> 0]
rtcp(pt, words) ==
    [id |-> RTCP_ID + (pt - 200), len |-> 4 * (words + 1), ver |-> 2, rc |-> 1, pt |-> pt, words |-> words]
raw(n) == [id |-> PAYLOAD_ID, len |-> n]
=============================================================================
