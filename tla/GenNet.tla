------------------------------- MODULE GenNet -------------------------------
(***************************************************************************)
(* The code generator of jni/pcap/gencode.c, second part: the primitives   *)
(* on hosts, networks, protocols and ports.  What a name resolves to is an *)
(* input (Names models the lookups).  A qualifier is [proto, dir, addr],   *)
(* each a Q_ constant without its prefix; PROTO_UNDEF is -1.               *)
(***************************************************************************)
EXTENDS GenLink

IPPROTO == [ICMP |-> 1, IGMP |-> 2, TCP |-> 6, IGRP |-> 9, UDP |-> 17, ROUTING |-> 43,
            FRAGMENT |-> 44, ESP |-> 50, AH |-> 51, ICMPV6 |-> 58, NONE |-> 59, DSTOPTS |-> 60,
            HOPOPTS |-> 0, PIM |-> 103, VRRP |-> 112, CARP |-> 112, SCTP |-> 132]
PROTO_UNDEF == -1
ISO == [ESIS |-> 130, ISIS |-> 131, CLNP |-> 129]
ISIS == [L1_LAN_IIH |-> 15, L2_LAN_IIH |-> 16, PTP_IIH |-> 17, L1_LSP |-> 18, L2_LSP |-> 20,
         L1_CSNP |-> 24, L2_CSNP |-> 25, L1_PSNP |-> 26, L2_PSNP |-> 27]

WlanDirs == {"ADDR1", "ADDR2", "ADDR3", "ADDR4", "RA", "TA"}

\* the test of a source and of a destination, combined as the direction says
Dirs(dir, src, dst) ==
    CASE dir = "SRC" -> src
      [] dir = "DST" -> dst
      [] dir = "AND" -> And(src, dst)
      [] dir \in {"OR", "DEFAULT"} -> Or(src, dst)
      [] OTHER -> AbortCall

----------------------------------------------------------------------------
(* Addresses *)

\* each end is tested behind the test `type' of the link-layer type
TypedDirs(type, dir, src, dst) == Dirs(dir, And(type, src), And(type, dst))

gen_hostop(addr, mask, dir, proto, src_off, dst_off) ==
    TypedDirs(gen_linktype(proto), dir, gen_mcmp("NET", src_off, "W", addr, mask),
              gen_mcmp("NET", dst_off, "W", addr, mask))

\* an IPv6 address is the sequence of its four words
gen_hostop6(addr, mask, dir, proto, src_off, dst_off) ==
    LET word(off, i) == gen_mcmp("NET", off + 4 * (i - 1), "W", addr[i], mask[i])
        at(off) == And(word(off, 1), And(word(off, 2), And(word(off, 3), word(off, 4))))
    IN  TypedDirs(gen_linktype(proto), dir, at(src_off), at(dst_off))

\* link-layer addresses of LANs; the 802.11 directions are errors
LanHost(eaddr, dir, src_off, dst_off) ==
    IF dir \in WlanDirs THEN Err
    ELSE Dirs(dir, gen_bcmp("LINK", src_off, eaddr), gen_bcmp("LINK", dst_off, eaddr))

gen_ehostop(eaddr, dir) == LanHost(eaddr, dir, ll.off_mac + 6, ll.off_mac)
gen_fhostop(eaddr, dir) == LanHost(eaddr, dir, 7, 1)
gen_thostop(eaddr, dir) == LanHost(eaddr, dir, 8, 2)
gen_ipfchostop(eaddr, dir) == LanHost(eaddr, dir, 10, 2)

\* In a data frame the address is at `data'; in a management frame at
\* `management'; a control frame (bit 4) has none.
WlanAddr(data, management) ==
    And(Not(LinkBit(0, 4)),
        Or(And(Not(LinkBit(0, 8)), management), And(LinkBit(0, 8), data)))
\* where the address is depends on a DS bit
ByDs(bit, set, clear) == Or(And(Not(LinkBit(1, bit)), clear), And(LinkBit(1, bit), set))

wlan_src(eaddr) ==
    LET at(n) == gen_bcmp("LINK", n, eaddr)
    IN  WlanAddr(ByDs(2, ByDs(1, at(24), at(16)), at(10)), at(10))
wlan_dst(eaddr) ==
    LET at(n) == gen_bcmp("LINK", n, eaddr)
    IN  WlanAddr(ByDs(1, at(16), at(4)), at(4))

FrameIs(v, mask) == gen_mcmp("LINK", 0, "B", v, mask)
NotControl == Not(FrameIs(4, 12))
NotCtsNorAck == And(Not(FrameIs(192, 240)), Not(FrameIs(208, 240)))

\* the numbered addresses, the receiver and the transmitter
wlan_addr(eaddr, dir) ==
    LET at(n) == gen_bcmp("LINK", n, eaddr)
    IN  CASE dir = "RA" -> And(LinkBit(0, 8), at(4))
          [] dir = "TA" -> And(And(LinkBit(0, 8), Or(NotControl, NotCtsNorAck)), at(10))
          [] dir = "ADDR1" -> at(4)
          [] dir = "ADDR2" -> And(Or(NotControl, NotCtsNorAck), at(10))
          [] dir = "ADDR3" -> And(NotControl, at(16))
          [] dir = "ADDR4" -> And(gen_mcmp("LINK", 1, "B", 3, 3), at(24))

gen_wlanhostop(eaddr, dir) ==
    IF dir \in WlanDirs THEN wlan_addr(eaddr, dir)
    ELSE Dirs(dir, wlan_src(eaddr), wlan_dst(eaddr))

\* ntohs() of this host
Ntohs(v) == IF HostSwap THEN (256 * (v % 256)) + ((v \div 256) % 256) ELSE v % 65536

\* long and short DECnet headers, each with and without a padding byte
gen_dnhostop(addr, dir) ==
    LET node(off) == gen_cmp("NET", off, "H", Ntohs(addr))
        padded(flags, off) == And(gen_mcmp("NET", 2, "H", Ntohs(flags), Ntohs(2047)), node(3 + off))
        plain(flags, off) == And(gen_mcmp("NET", 2, "B", flags, 7), node(2 + off))
        at(lh, sh) ==
            Or(plain(2, sh), Or(padded(641, sh), Or(plain(6, lh), padded(1665, lh))))
    IN  IF dir = "ISO" THEN Err
        ELSE TypedDirs(gen_linktype(ETHERTYPE.DN), dir, at(15, 3), at(7, 1))

\* Q_ values that gen_host, gen_host6 and gen_proto refuse with an error
Refused == {"TCP", "SCTP", "UDP", "ICMP", "IGMP", "IGRP", "PIM", "VRRP", "CARP", "ATALK",
            "AARP", "SCA", "LAT", "MOPDL", "MOPRC", "ICMPV6", "AH", "ESP", "ISO", "ESIS",
            "ISIS", "CLNP", "STP", "IPX", "NETBEUI", "RADIO"}

\* no case for Q_LINK: "ether net 10.0.0.0/8" ends in abort()
gen_host(addr, mask, proto, dir) ==
    LET over(type) ==
            gen_hostop(addr, mask, dir, type, IF type = ETHERTYPE.IP THEN 12 ELSE 14,
                       IF type = ETHERTYPE.IP THEN 16 ELSE 24)
    IN  CASE proto \in {"DEFAULT", "IP", "ARP", "RARP"} ->
                AnyOf(CASE proto = "ARP" -> <<ETHERTYPE.ARP>>
                        [] proto = "RARP" -> <<ETHERTYPE.REVARP>>
                        [] proto = "DEFAULT" /\ ll.label_stack_depth = 0 ->
                              <<ETHERTYPE.IP, ETHERTYPE.ARP, ETHERTYPE.REVARP>>
                        [] OTHER -> <<ETHERTYPE.IP>>, over)
          [] proto = "DECNET" -> gen_dnhostop(addr, dir)
          [] proto \in Refused \cup {"IPV6"} -> Err
          [] OTHER -> AbortCall

gen_host6(addr, mask, proto, dir) ==
    CASE proto \in {"DEFAULT", "IPV6"} -> gen_hostop6(addr, mask, dir, ETHERTYPE.IPV6, 8, 24)
      [] proto \in Refused \cup {"LINK", "IP", "RARP", "ARP", "DECNET"} -> Err
      [] OTHER -> AbortCall

----------------------------------------------------------------------------
(* Protocols *)

gen_iso(v) ==
    LET hdlc == ll.linktype = "C_HDLC"
    IN  IF ll.linktype = "FRELAY" THEN gen_cmp("LINK", 2, "H", 768 + v)
        ELSE And(gen_linktype(IF hdlc THEN Sap2(LLCSAP.ISONS) ELSE LLCSAP.ISONS),
                 gen_cmp("NET_NOSNAP", IF hdlc THEN 1 ELSE 0, "B", v))

gen_ip_proto(v) == And(gen_linktype(ETHERTYPE.IP), gen_cmp("NET", 9, "B", v))

\* the next header of the IPv6 header, or of a fragment header behind it
gen_ip6_proto(v) ==
    And(gen_linktype(ETHERTYPE.IPV6),
        Or(gen_cmp("NET", 6, "B", v),
           And(gen_cmp("NET", 6, "B", IPPROTO.FRAGMENT), gen_cmp("NET", 40, "B", v))))

gen_isis(v) == And(gen_iso(ISO.ISIS), gen_cmp("NET_NOSNAP", 4, "B", v))

\* the number v in the header of a layer
ProtoIn(layer, v) ==
    CASE layer = "IP" -> gen_ip_proto(v)
      [] layer = "IPV6" -> gen_ip6_proto(v)
      [] layer = "ISO" -> gen_iso(v)
      [] layer = "ISIS" -> gen_isis(v)
      [] layer = "LINK" -> gen_linktype(v)

\* ISO and ISIS are types of their own here; the others are refused
gen_proto(v, proto, dir) ==
    LET over(layer) == ProtoIn(layer, v)
    IN  CASE dir # "DEFAULT" -> Err
           [] dir = "DEFAULT" /\ proto \in {"DEFAULT", "IP", "IPV6", "ISO", "ISIS", "LINK"} ->
                AnyOf(IF proto = "DEFAULT" THEN <<"IP", "IPV6">> ELSE <<proto>>, over)
           [] dir = "DEFAULT" /\ proto \in (Refused \ {"ISO", "ISIS", "ESIS", "CLNP"}) \cup {"ARP", "RARP", "DECNET"} -> Err
           [] OTHER -> AbortCall

\* protocols of IPv4 and IPv6, of IPv4 only, and those that are a link type
BothIP == {"SCTP", "TCP", "UDP", "PIM", "AH", "ESP"}
OnlyIP4 == {"ICMP", "IGMP", "IGRP", "VRRP", "CARP"}
LinkProto ==
    [IP |-> ETHERTYPE.IP, ARP |-> ETHERTYPE.ARP, RARP |-> ETHERTYPE.REVARP,
     ATALK |-> ETHERTYPE.ATALK, AARP |-> ETHERTYPE.AARP, DECNET |-> ETHERTYPE.DN,
     SCA |-> ETHERTYPE.SCA, LAT |-> ETHERTYPE.LAT, MOPDL |-> ETHERTYPE.MOPDL,
     MOPRC |-> ETHERTYPE.MOPRC, IPV6 |-> ETHERTYPE.IPV6, ISO |-> LLCSAP.ISONS,
     STP |-> LLCSAP.STP, IPX |-> LLCSAP.IPX, NETBEUI |-> LLCSAP.NETBEUI]

gen_proto_abbrev(proto) ==
    LET v == CASE proto \in DOMAIN LinkProto -> LinkProto[proto]
               [] proto \in DOMAIN ISO -> ISO[proto]
               [] OTHER -> IPPROTO[proto]
        layers == CASE proto \in BothIP -> <<"IPV6", "IP">>
                    [] proto \in OnlyIP4 -> <<"IP">>
                    [] proto = "ICMPV6" -> <<"IPV6">>
                    [] proto \in DOMAIN ISO -> <<"ISO">>
                    [] proto \in DOMAIN LinkProto -> <<"LINK">>
                    [] OTHER -> <<>>
        over(layer) == ProtoIn(layer, v)
    IN  IF layers # <<>> THEN AnyOf(layers, over)
        ELSE IF proto \in {"LINK", "RADIO"} THEN Err ELSE AbortCall

\* the IS-IS packet types of each abbreviation, or-ed in the order tested
IsisTypes ==
    [L1 |-> <<ISIS.L1_PSNP, ISIS.L1_CSNP, ISIS.L1_LSP, ISIS.L1_LAN_IIH, ISIS.PTP_IIH>>,
     L2 |-> <<ISIS.L2_PSNP, ISIS.L2_CSNP, ISIS.L2_LSP, ISIS.L2_LAN_IIH, ISIS.PTP_IIH>>,
     IIH |-> <<ISIS.PTP_IIH, ISIS.L1_LAN_IIH, ISIS.L2_LAN_IIH>>,
     LSP |-> <<ISIS.L1_LSP, ISIS.L2_LSP>>,
     SNP |-> <<ISIS.L2_PSNP, ISIS.L1_PSNP, ISIS.L1_CSNP, ISIS.L2_CSNP>>,
     CSNP |-> <<ISIS.L1_CSNP, ISIS.L2_CSNP>>,
     PSNP |-> <<ISIS.L1_PSNP, ISIS.L2_PSNP>>]
gen_isis_abbrev(group) == AnyFromLast(IsisTypes[group], gen_isis)

----------------------------------------------------------------------------
(* Ports *)

gen_ipfrag == Not(gen_ncmp("NET", 6, "H", AllOnes, "JSET", FALSE, 8191))

gen_portatom(off, v) == gen_cmp("TRAN_IPV4", off, "H", v)
gen_portatom6(off, v) == gen_cmp("TRAN_IPV6", off, "H", v)

gen_portop(port, proto, dir) ==
    And(And(gen_cmp("NET", 9, "B", proto), gen_ipfrag),
        Dirs(dir, gen_portatom(0, port), gen_portatom(2, port)))
gen_portop6(port, proto, dir) ==
    And(gen_cmp("NET", 6, "B", proto),
        Dirs(dir, gen_portatom6(0, port), gen_portatom6(2, port)))

\* one transport protocol, or any of the three
Transports(ip_proto) ==
    IF ip_proto = PROTO_UNDEF THEN <<IPPROTO.SCTP, IPPROTO.TCP, IPPROTO.UDP>> ELSE <<ip_proto>>

gen_port(port, ip_proto, dir) ==
    LET op(p) == gen_portop(port, p, dir)
    IN  And(gen_linktype(ETHERTYPE.IP), AnyFromLast(Transports(ip_proto), op))
gen_port6(port, ip_proto, dir) ==
    LET op(p) == gen_portop6(port, p, dir)
    IN  And(gen_linktype(ETHERTYPE.IPV6), AnyFromLast(Transports(ip_proto), op))

Lower(a, b) == IF a > b THEN b ELSE a
Upper(a, b) == IF a > b THEN a ELSE b
gen_portrangeatom(off, v1, v2) ==
    And(gen_cmp_ge("TRAN_IPV4", off, "H", Lower(v1, v2)),
        gen_cmp_le("TRAN_IPV4", off, "H", Upper(v1, v2)))
gen_portrangeatom6(off, v1, v2) ==
    And(gen_cmp_ge("TRAN_IPV6", off, "H", Lower(v1, v2)),
        gen_cmp_le("TRAN_IPV6", off, "H", Upper(v1, v2)))

gen_portrangeop(port1, port2, proto, dir) ==
    And(And(gen_cmp("NET", 9, "B", proto), gen_ipfrag),
        Dirs(dir, gen_portrangeatom(0, port1, port2), gen_portrangeatom(2, port1, port2)))
gen_portrangeop6(port1, port2, proto, dir) ==
    And(gen_cmp("NET", 6, "B", proto),
        Dirs(dir, gen_portrangeatom6(0, port1, port2), gen_portrangeatom6(2, port1, port2)))

gen_portrange(port1, port2, ip_proto, dir) ==
    LET op(p) == gen_portrangeop(port1, port2, p, dir)
    IN  And(gen_linktype(ETHERTYPE.IP), AnyFromLast(Transports(ip_proto), op))
gen_portrange6(port1, port2, ip_proto, dir) ==
    LET op(p) == gen_portrangeop6(port1, port2, p, dir)
    IN  And(gen_linktype(ETHERTYPE.IPV6), AnyFromLast(Transports(ip_proto), op))

----------------------------------------------------------------------------
(* protochain: a loop over the headers, written with a backward jump *)

\* reg2 is the register that holds the next header.  A = v ends the loop; a
\* jump to `again' counts from the statement behind it.
ChainStart(proto) ==
    LET nl == ll.off_macpl + ll.off_nl
    IN  IF proto = "IP" THEN <<LdAt("B", nl + 9), Ins(<<"LDX", "B", "MSH">>, nl)>>
        ELSE <<LdAt("B", nl + 6), Ins(<<"LDX", "W", "IMM">>, 40)>>

JA(k) == Ins(<<"JMP", "JA", "">>, k)

\* extension headers of IPv6: X += 8 * (length + 1)
ChainExtension(reg2) ==
    LET nl == ll.off_macpl + ll.off_nl
    IN  <<Jump("JEQ", IPPROTO.HOPOPTS, 3, 0), Jump("JEQ", IPPROTO.DSTOPTS, 2, 0),
          Jump("JEQ", IPPROTO.ROUTING, 1, 0), Jump("JEQ", IPPROTO.FRAGMENT, 0, 9),
          LdFrom("B", nl), StoreA(reg2), LdFrom("B", nl + 1), AluK("ADD", 1), AluK("MUL", 8),
          Ins(<<"ALU", "ADD", "X">>, 0), Tax, Ins(<<"LD", "W", "MEM">>, reg2), JA(-15)>>

\* The authentication header: the code sets X to (P[X + 1] + 2) * 4 and does
\* not add the offset it had.
ChainAh(reg2, middle) ==
    LET nl == ll.off_macpl + ll.off_nl
    IN  <<Jump("JEQ", IPPROTO.AH, 0, 12), Txa, LdFrom("B", nl), StoreA(reg2), Txa,
          AluK("ADD", 1), Tax, LdFrom("B", nl), AluK("ADD", 2), AluK("MUL", 4), Tax,
          Ins(<<"LD", "W", "MEM">>, reg2), JA(-(15 + middle)), AluK("ADD", 0)>>

\* one of IP and IPV6; both jumps in front go to the last statement
gen_protochain1(v, proto, reg2) ==
    LET middle == IF proto = "IPV6" THEN ChainExtension(reg2) ELSE <<AluK("ADD", 0)>>
        rest == middle \o ChainAh(reg2, Len(middle))
        n == Len(rest)
        stmts == ChainStart(proto)
                 \o <<Jump("JEQ", v, n, 0), Jump("JEQ", IPPROTO.NONE, n - 1, 0)>> \o rest
    IN  And(gen_linktype(IF proto = "IP" THEN ETHERTYPE.IP ELSE ETHERTYPE.IPV6),
            Test(stmts, <<"JMP", "JEQ", "K">>, v))

\* Q_DEFAULT allocates a register it neither uses nor frees (ChainLeak); the
\* two calls behind it each get, use and free the next one.
ChainLeak(proto) == IF proto = "DEFAULT" THEN {NextFree(reg.used, reg.cur)} ELSE {}
gen_protochain(v, proto, dir) ==
    LET reg2 == NextFree(reg.used \cup ChainLeak(proto), reg.cur)
        chain(version) == gen_protochain1(v, version, reg2)
    IN  CASE proto \notin {"IP", "IPV6", "DEFAULT"} -> Err
          [] proto \in {"IP", "IPV6", "DEFAULT"} /\ ll.linktype \in IEEE80211 -> Err
          [] proto \in {"IP", "IPV6", "DEFAULT"} /\ ll.linktype \notin IEEE80211 ->
                AnyOf(IF proto = "DEFAULT" THEN <<"IP", "IPV6">> ELSE <<proto>>, chain)

----------------------------------------------------------------------------
(* Primitives: an identifier or a number behind a qualifier *)

\* a link-layer address, by link type
LinkHost(eaddr, dir) ==
    CASE ll.linktype \in Ethernets -> gen_ehostop(eaddr, dir)
      [] ll.linktype = "FDDI" -> gen_fhostop(eaddr, dir)
      [] ll.linktype = "IEEE802" -> gen_thostop(eaddr, dir)
      [] ll.linktype \in IEEE80211 -> gen_wlanhostop(eaddr, dir)
      [] ll.linktype = "IP_OVER_FC" -> gen_ipfchostop(eaddr, dir)
      [] ll.linktype = "SUNATM" /\ ll.is_lane ->
            And(Not(gen_cmp("LINK", 4, "H", 65280)), gen_ehostop(eaddr, dir))
      [] OTHER -> Err

gen_ecode(eaddr, q) ==
    IF q.addr \in {"HOST", "DEFAULT"} /\ q.proto = "LINK" THEN LinkHost(eaddr, q.dir) ELSE Err

\* Shift a network number to the left until its first byte is not zero.
AlignedNet(v) ==
    LET n == CASE v = 0 -> 0
               [] v # 0 /\ Hi(v) >= 256 -> 0
               [] Hi(v) \in 1..255 -> 8
               [] v # 0 /\ Hi(v) = 0 /\ Lo(v) >= 256 -> 16
               [] OTHER -> 24
    IN  [addr |-> Shl32(v, n), mask |-> Shl32(AllOnes, n)]

\* the addresses a name has, in the order of getaddrinfo(); IPv4 ones are
\* passed over for "ip6 host", IPv6 ones for "ip host"
HostByName(addrs, q) ==
    LET raw == ll.off_linktype = -1 /\ q.proto = "DEFAULT"
        usable == SelectSeq(addrs, LAMBDA a : IF a.family = "INET" THEN q.proto # "IPV6"
                                              ELSE a.family = "INET6" /\ q.proto # "IP")
        one(a) == IF a.family = "INET"
                  THEN gen_host(a.addr, AllOnes, IF raw THEN "IP" ELSE q.proto, q.dir)
                  ELSE gen_host6(a.addr, <<-1, -1, -1, -1>>, IF raw THEN "IPV6" ELSE q.proto, q.dir)
    IN  IF usable = <<>> THEN Err ELSE AnyOf(usable, one)

\* the transport protocol of a port: that of the qualifier and of the name
PortProto(proto, real) ==
    IF proto = "DEFAULT" THEN real
    ELSE IF proto \in {"UDP", "TCP", "SCTP"} /\ real \in {PROTO_UNDEF, IPPROTO[proto]}
    THEN IPPROTO[proto] ELSE NoReg
PortTest(p1, p2, proto, real, dir) ==
    LET t == PortProto(proto, real)
    IN  IF t = NoReg \/ p1 \notin 0..65535 \/ p2 \notin 0..65535 THEN Err
        ELSE Or(gen_port6(p1, t, dir), gen_port(p1, t, dir))
PortRangeTest(p1, p2, proto, real, dir) ==
    LET t == PortProto(proto, real)
    IN  IF t = NoReg \/ p1 \notin 0..65535 \/ p2 \notin 0..65535 THEN Err
        ELSE Or(gen_portrange6(p1, p2, t, dir), gen_portrange(p1, p2, t, dir))

\* the number of a protocol name, by the layer the qualifier names
lookup_proto(r, proto) ==
    CASE proto \in {"DEFAULT", "IP", "IPV6"} -> r.proto
      [] proto = "LINK" -> IF r.eproto # PROTO_UNDEF THEN r.eproto ELSE r.llc
      [] proto = "ISO" -> r.iso
      [] OTHER -> PROTO_UNDEF

\* r: what the lookups say about the name
gen_scode(r, q) ==
    CASE q.addr = "NET" /\ r.net = 0 -> Err
      [] q.addr = "NET" /\ r.net # 0 ->
            gen_host(AlignedNet(r.net).addr, AlignedNet(r.net).mask, q.proto, q.dir)
      [] q.addr \in {"DEFAULT", "HOST"} ->
            (CASE q.proto = "LINK" -> IF r.ether = <<>> THEN Err ELSE LinkHost(r.ether, q.dir)
               [] q.proto = "DECNET" -> gen_dnhostop(r.dn, q.dir)
               [] OTHER -> HostByName(r.addrs, q))
      [] q.addr = "PORT" -> PortTest(r.port, r.port, q.proto, r.portproto, q.dir)
      [] q.addr = "PORTRANGE" -> PortRangeTest(r.port, r.port2, q.proto, r.portproto, q.dir)
      [] q.addr \in {"PROTO", "PROTOCHAIN"} ->
            LET v == lookup_proto(r, q.proto)
            IN  IF v < 0 THEN Err
                ELSE IF q.addr = "PROTO" THEN gen_proto(v, q.proto, q.dir)
                ELSE gen_protochain(v, q.proto, q.dir)
      [] q.addr \in {"GATEWAY", "UNDEF"} -> Err
      [] OTHER -> AbortCall

\* a network number of nlen bits with a mask of masklen bits
gen_mcode(number, nlen, masklen, q) ==
    LET n == Shl32(number, (32 - nlen) % 32)
        m == IF masklen = 0 THEN 0 ELSE Shl32(AllOnes, 32 - masklen)
    IN  IF masklen > 32 \/ And32(n, Not32(m)) # 0 \/ q.addr # "NET" THEN Err
        ELSE gen_host(n, m, q.proto, q.dir)

\* a number, or a dotted number of vlen bits
gen_ncode(v, vlen, dotted, q) ==
    CASE q.addr \in {"DEFAULT", "HOST", "NET"} ->
            LET id == CASE q.proto = "DECNET" -> [addr |-> v, mask |-> 0]
                        [] q.addr = "NET" /\ ~dotted /\ q.proto # "DECNET" -> AlignedNet(v)
                        [] OTHER -> [addr |-> Shl32(v, 32 - vlen), mask |-> Shl32(AllOnes, 32 - vlen)]
            IN  IF q.proto = "LINK" THEN Err ELSE gen_host(id.addr, id.mask, q.proto, q.dir)
      [] q.addr = "PORT" -> PortTest(v, v, q.proto, PROTO_UNDEF, q.dir)
      [] q.addr = "PORTRANGE" -> PortRangeTest(v, v, q.proto, PROTO_UNDEF, q.dir)
      [] q.addr = "PROTO" -> gen_proto(v, q.proto, q.dir)
      [] q.addr = "PROTOCHAIN" -> gen_protochain(v, q.proto, q.dir)
      [] q.addr \in {"GATEWAY", "UNDEF"} -> Err
      [] OTHER -> AbortCall

\* an IPv6 address with a prefix length
Mask6(masklen) ==
    [i \in 1..4 |->
        LET n == masklen - 32 * (i - 1)
        IN  IF n <= 0 THEN 0 ELSE IF n >= 32 THEN AllOnes ELSE Shl32(AllOnes, 32 - n)]
gen_mcode6(addr, masklen, q) ==
    IF \/ masklen > 128
       \/ \E i \in 1..4 : And32(addr[i], Not32(Mask6(masklen)[i])) # 0
       \/ q.addr \notin {"DEFAULT", "HOST", "NET"}
       \/ q.addr # "NET" /\ masklen # 128
    THEN Err ELSE gen_host6(addr, Mask6(masklen), q.proto, q.dir)
=============================================================================
