----------------------------- MODULE MCScanner ------------------------------
(***************************************************************************)
(* The scanner on a corpus of packets, each cut at every possible length,  *)
(* followed by answers and by a second conversation.                       *)
(***************************************************************************)
EXTENDS Scanner

rawCustom(n) == [id |-> 60, len |-> n, custom |-> 1]
pad(n) == [id |-> PAYLOAD_ID, len |-> n, trailer |-> 1]

Place(ls) ==
    [i \in 1..Len(ls) |-> [at |-> FoldLeft(LAMBDA n, l : n + l.len, 0, SubSeq(ls, 1, i - 1))] @@ ls[i]]
Length(ls) == FoldLeft(LAMBDA n, l : n + l.len, 0, ls)
Packet(first, plain, stale, ls) ==
    [layers |-> Place(ls), wirelen |-> Length(ls), first |-> first, plain |-> plain, stale |-> stale]
Plain(ls) == Packet(ETHERNET_ID, TRUE, 0, ls)
Odd(ls) == Packet(ETHERNET_ID, FALSE, 0, ls)
IP == 2048

(* Conversations: their packets are followed by the answer.                *)
Web(sp, dp) == Plain(<<eth(IP), ip4(6, 38), tcp(sp, dp), http("GET", 10), raw(8)>>)
Tunnel(inner) ==
    <<eth(IP), ip4(17, 8 + 8 + 4 + Length(inner)), udp(2000, 1701), l2tp(1, 0), ppp(33)>> \o inner
Conversations ==
    { Web(2000, 8080),
      Plain(<<eth(34525), ip6(6, 24), tcp(2000, 3000), raw(4)>>),
      Plain(<<eth(IP), ip4(17, 18), udp(4000, 4002), raw(10)>>),
      Plain(Tunnel(<<ip4(6, 24), tcp(2000, 3000), raw(4)>>)),
      Plain(<<eth(IP), ip4(4, 44), ip4(6, 24), tcp(2000, 3000), raw(4)>>) }

PlainPackets == Conversations \cup
    { Plain(<<eth(IP), ip4x(6, 44, 6, 0, 0), tcp(2000, 3000)>>),
      Plain(<<eth(IP), ip4(17, 12), udp(4000, 4002), raw(4), pad(6)>>),
      Plain(<<eth(IP), ip4(17, 8 + 12 + 20), udp(5060, 4000), sip("INVITE", 12), sdp(20)>>),
      Plain(<<eth(IP), ip4(6, 20 + 12), tcp(4000, 4002), sip("SIP", 12), pad(2)>>),
      Plain(<<eth(IP), ip4(17, 8 + 24 + 4), udp(4001, 5004), rtp(1, 1, 1), raw(4)>>),
      Plain(<<eth(IP), ip4(17, 8 + 8 + 12 + 8), udp(4000, 5005), rtcp(200, 1), rtcp(202, 2), rtcp(203, 1)>>),
      Plain(<<eth(IP), ip4(17, 8 + 12 + 4), udp(4000, 4002), rtp(0, 0, 0), raw(4)>>),
      Plain(<<eth(IP), ip4(1, 8 + 28), icmp(3), ip4(17, 8), udp(4000, 4002)>>),
      Plain(<<eth(IP), ip4(1, 12), icmp(8), raw(4)>>),
      Plain(<<eth(IP), ip4x(17, 32, 5, 0, 9), raw(12)>>),
      Plain(<<eth(IP), ip4x(17, 32, 5, 1, 0), udp(4000, 4002), raw(4)>>),
      Plain(<<eth(IP), ip4(132, 12 + 16 + 4), sctp(4000, 4002), chunk(0, 16, 0), raw(4)>>),
      Plain(<<eth(IP), ip4(132, 12 + 8), sctp(4000, 4002), chunk(3, 8, 0)>>),
      Plain(<<eth(IP), ip4(132, 12 + 16 + 10), sctp(4000, 80), chunk(0, 16, 1), http("POST", 10)>>),
      Plain(<<eth(IP), ip4(115, 10 + 4 + 4), l2tp(0, 1), ppp(49185), raw(4)>>),
      Plain(Tunnel(<<ip4(17, 12), udp(4000, 4002), raw(4)>>)),
      Plain(<<eth(34525), ip6x(0, 8 + 12, <<[next |-> 17, len |-> 8]>>, 48), udp(4000, 4002), raw(4)>>),
      Plain(<<eth(34525), ip6(58, 8), raw(8)>>),
      Plain(<<eth(2054), arp>>),
      Plain(<<eth(33024), vlan(IP), ip4(17, 12), udp(4000, 4002), raw(4)>>),
      Plain(<<eth(34984), vlan(33024), vlan(35020), raw(6)>>),
      Packet(SLL_ID, TRUE, 0, <<sll(IP), ip4(1, 8), icmp(0)>>),
      Packet(NULL_HEADER_ID, TRUE, 0, <<null(2), ip4(6, 20), tcp(3000, 2000)>>) }

(* Packets the scanner reads in part, or that are not what they claim.     *)
OddPackets ==
    { Odd(<<eth(IP), ip4(6, 24), tcp(2000, 22), raw(4)>>),
      Odd(<<eth(IP), ip4(17, 12), udp(4000, 53), raw(4), pad(6)>>),
      Odd(<<eth(IP), ip4(17, 36), udp(4000, 4002), [rtp(1, 1, 1) EXCEPT !.pad = 4], raw(4)>>),
      Packet(ETHERNET_ID, FALSE, 400, <<eth(IP), ip4(17, 32), udp(4000, 4002), rtp(1, 1, 1)>>),
      Odd(<<eth(IP), ip4(132, 12 + 20 + 8), sctp(4000, 4002), chunk(0, 16, 0), raw(4), chunk(3, 8, 0)>>),
      Odd(<<eth(IP), ip4(132, 12 + 8 + 20), sctp(4000, 4002), chunk(3, 8, 0), chunk(0, 16, 0), raw(4)>>),
      Odd(<<eth(IP), ip4x(6, 0, 5, 0, 0), tcp(2000, 3000), raw(4)>>),
      Odd(<<eth(IP), ip4(6, 20), [tcp(2000, 3000) EXCEPT !.doff = 0]>>),
      Odd(<<eth(IP), ip4(17, 12), udp(4000, 5060), raw(4)>>),
      Odd(<<eth(34525), ip6(59, 0)>>),
      Odd(<<eth(34525), ip6(17, 10), udp(4000, 4002), raw(2), pad(4)>>),
      Odd(<<eth(33024), vlan(20), llc(66, 3, 3), raw(10)>>),
      Odd(<<eth(36), llc(170, 3, 3), snap(2054), arp>>),
      Odd(<<eth(20), llc(66, 1, 4), raw(16)>>),
      Packet(IEEE_802DOT3_ID, FALSE, 0, <<[eth(20) EXCEPT !.id = IEEE_802DOT3_ID], llc(66, 0, 4), raw(16)>>),
      Odd(<<eth(33024), vlan(IP), ip4(17, 16), udp(4000, 5005), rtcp(201, 1), pad(4)>>),
      Odd(<<eth(IP), ip4(17, 18), udp(4000, 4002), rawCustom(6), raw(4)>>) }

MCPackets == PlainPackets \cup OddPackets

(* What may follow: the answer, and a conversation of the same hosts.      *)
MCCompanions(p) ==
    IF p = NoBuf THEN {Web(2001, 8081)}
    ELSE {Web(2001, 8081)} \cup
         { q \in {[layers |-> Turned(p).layers, wirelen |-> p.wirelen, first |-> p.first,
                   plain |-> p.plain, stale |-> p.stale]} :
             \E c \in Conversations : c.layers = p.layers }

(* The default settings, and a user's: heuristics before bindings, no UDP  *)
(* bindings, and a Java header bound to UDP.                               *)
Heuristic == [id \in {TCP_ID, UDP_ID} |-> {"HEURISTIC"}]
JavaUdp == [direct |-> TRUE, bind |-> 60]
JavaCustom ==
    [direct |-> FALSE, bind |-> PAYLOAD_ID,
     lengths |-> [prefix |-> 0, header |-> 6, gap |-> 0, payload |-> 0, postfix |-> 0]]
MCConfigs ==
    { [flags |-> Heuristic, java |-> <<>>],
      [flags |-> [Heuristic EXCEPT ![TCP_ID] = @ \cup {"PRE"}],
       java |-> [id \in {UDP_ID, 60} |-> IF id = 60 THEN JavaCustom ELSE JavaUdp]],
      [flags |-> [id \in {UDP_ID} |-> {"OVERRIDE"}], java |-> <<>>] }
=============================================================================
