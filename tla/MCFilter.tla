------------------------------ MODULE MCFilter ------------------------------
(***************************************************************************)
(* Instances of Filter: expressions as the reductions the parser makes of  *)
(* them, packets, and programs written by hand.                            *)
(***************************************************************************)
EXTENDS Filter

Q(proto, dir, addr) == [proto |-> proto, dir |-> dir, addr |-> addr]
And2 == [r |-> "and"]
Or2 == [r |-> "or"]
Not1 == [r |-> "not"]
Paren == [r |-> "paren"]
Neg1 == [r |-> "neg"]
Length == [r |-> "len"]
Proto(p) == [r |-> "pname", proto |-> p]
Number1(v, q) == [r |-> "NUM", v |-> v, q |-> q]
Host(v, q) == [r |-> "HID", v |-> v, len |-> 32, q |-> q]
Network1(v, m, q) == [r |-> "HIDNET", v |-> v, len |-> 32, mask |-> m, q |-> q]
Host6(v, m, q) == [r |-> "HID6", v |-> v, mask |-> m, q |-> q]
Ether(v, q) == [r |-> "EID", v |-> v, q |-> q]
Arc(v, q) == [r |-> "AID", v |-> v, q |-> q]
Name == [net |-> 0, ether |-> <<>>, dn |-> 0, addrs |-> <<>>, port |-> -1, port2 |-> -1,
         portproto |-> -1, proto |-> -1, eproto |-> -1, llc |-> -1, iso |-> -1]
Range1(lo, hi, q) == [r |-> "ID", name |-> [Name EXCEPT !.port = lo, !.port2 = hi], q |-> q]
Imm(v) == [r |-> "loadi", v |-> v]
At1(proto, size) == [r |-> "load", proto |-> proto, size |-> size]
Op(code) == [r |-> "arth", code |-> code]
Rel(code, reversed) == [r |-> "rel", code |-> code, reversed |-> reversed]
Other(w) == [r |-> "other", what |-> w]
Other1(w, v) == [r |-> "other", what |-> w, v |-> v]

Port == Q("DEFAULT", "DEFAULT", "PORT")
TcpPort == Q("TCP", "DEFAULT", "PORT")
HostQ == Q("DEFAULT", "DEFAULT", "HOST")
a1 == Word(2560, 1)     \* 10.0.0.1
a2 == Word(2560, 2)     \* 10.0.0.2
a3 == Word(2817, 3)     \* 11.1.0.3

\* expressions with a meaning
MeantExprs ==
    << <<>>,                                                                 \* the empty filter
      <<Proto("TCP"), Proto("ICMP"), Or2, Paren, Not1, Proto("IP"), Proto("ARP"), Or2, Paren, And2>>,
      <<Number1(80, TcpPort)>>,                                              \* tcp port 80
      <<Number1(53, Q("DEFAULT", "SRC", "PORT")), Number1(80, Inherit), Or2>>,
      <<Number1(80, TcpPort), Number1(443, Port), Not1, And2>>,
      <<Range1(50, 80, Q("DEFAULT", "DST", "PORTRANGE"))>>,
      <<Range1(80, 90, Q("TCP", "AND", "PORTRANGE"))>>,
      <<Host(a1, Q("DEFAULT", "SRC", "HOST")), Host(a3, Inherit), Or2>>,
      <<Host(a2, Q("IP", "DEFAULT", "HOST")), Host(a1, Inherit), Not1, Paren, And2>>,
      <<Host(a2, Q("ARP", "DEFAULT", "HOST"))>>,
      <<Network1(Word(2560, 0), 8, Q("DEFAULT", "DEFAULT", "NET"))>>,
      <<Host6(<<0, 0, 0, a1>>, 128, HostQ)>>,
      <<Proto("IPV6"), Proto("UDP"), And2>>,
      <<Number1(6, Q("IP", "DEFAULT", "PROTO")), Number1(17, Q("DEFAULT", "DEFAULT", "PROTO")), Or2>>,
      <<Number1(2054, Q("LINK", "DEFAULT", "PROTO"))>>,
      <<Number1(6, Q("IP", "DEFAULT", "PROTOCHAIN"))>>,
      \* tcp[13] & 2 != 0
      <<Imm(13), At1("TCP", 1), Imm(2), Op("AND"), Imm(0), Rel("JEQ", TRUE)>>,
      \* ip[0] & 15 != 5 and ip[6:2] & 8191 = 0
      <<Imm(0), At1("IP", 1), Imm(15), Op("AND"), Imm(5), Rel("JEQ", TRUE),
        Imm(6), At1("IP", 2), Imm(8191), Op("AND"), Imm(0), Rel("JEQ", FALSE), And2>>,
      \* not udp[0:2] <= 53 or tcp[2:2] - 3 = 77
      <<Imm(0), At1("UDP", 2), Imm(53), Rel("JGT", TRUE), Not1,
        Imm(2), At1("TCP", 2), Imm(3), Op("SUB"), Imm(77), Rel("JEQ", FALSE), Or2>>,
      \* ip[tcp[4]] = 6, tcp[0] - tcp[2] = 0
      <<Imm(4), At1("TCP", 1), At1("IP", 1), Imm(6), Rel("JEQ", FALSE)>>,
      <<Imm(0), At1("TCP", 1), Imm(2), At1("TCP", 1), Op("SUB"), Imm(0), Rel("JEQ", FALSE)>>,
      \* (3 << 2) * 5 < len, -len & 3 = 2, len / 2 >= 28
      <<Imm(3), Imm(2), Op("LSH"), Imm(5), Op("MUL"), Length, Rel("JGE", TRUE)>>,
      <<Length, Neg1, Imm(3), Op("AND"), Imm(2), Rel("JEQ", FALSE)>>,
      <<Length, Imm(2), Op("DIV"), Imm(28), Rel("JGE", FALSE)>>,
      <<Other1("less", 50), Other1("greater", 70), Or2>>,
      <<[r |-> "other", what |-> "byte", byteop |-> "=", idx |-> 9, v |-> 6]>>,
      <<Ether(Station.to, Q("LINK", "DEFAULT", "HOST")), Ether(Station.from, Q("LINK", "DST", "HOST")), Not1, And2>>,
      <<Other1("vlan", -1), Number1(80, TcpPort), And2>>,
      <<Other1("vlan", 3), Host(a1, HostQ), And2>> >>

\* expressions that are compiled, or refused, on every kind of link
OtherExprs ==
    << <<Number1(53, Port)>>,
      <<Proto("CARP"), Proto("L1"), Or2>>,
      <<Proto("NETBEUI"), Proto("IPX"), Or2, Proto("DECNET"), Or2>>,
      <<Number1(6, Q("DEFAULT", "DEFAULT", "PROTOCHAIN")), Length, Imm(5), Rel("JEQ", FALSE), And2>>,
      <<Number1(5, Q("LINK", "DEFAULT", "PROTO"))>>,
      <<[Other("broadcast") EXCEPT !.what = "pf"]>>,
      <<[r |-> "other", what |-> "broadcast", proto |-> "DEFAULT"]>>,
      <<[r |-> "other", what |-> "multicast", proto |-> "IPV6"]>>,
      <<Other1("inbound", 0)>>,
      <<Other1("mpls", 100), Proto("IP"), And2>>,
      <<Other1("pppoes", 7), Proto("TCP"), And2>>,
      <<Other("pppoed")>>,
      <<[r |-> "other", what |-> "type", v |-> 128, mask |-> 252], Other1("dir", 1), Or2>>,
      <<Other1("atmtype", "LANE"), Proto("IP"), And2>>,
      <<Other1("atmmulti", "CONNECTMSG")>>,
      <<[r |-> "other", what |-> "atm", field |-> "VPI", v |-> 3, code |-> "JGT", reversed |-> TRUE]>>,
      <<Other1("mtp2", "FISU")>>,
      <<[r |-> "other", what |-> "mtp3", field |-> "OPC", v |-> 77, code |-> "JEQ", reversed |-> FALSE]>>,
      <<Arc(<<18>>, Q("LINK", "DEFAULT", "HOST"))>>,
      <<Ether(Station.to, Q("LINK", "ADDR2", "DEFAULT"))>>,
      <<Imm(1), Imm(0), Op("DIV"), Length, Rel("JEQ", FALSE)>>,
      <<Imm(0), At1("RADIO", 1), Imm(0), At1("TCP", 1), Rel("JEQ", FALSE)>>,
      <<Proto("IP"), Proto("ARP"), And2>> >>

OtherLinks ==
    {"EN10MB", "RAW", "NULL", "PPP", "LINUX_SLL", "IEEE802_11", "PRISM_HEADER", "IEEE802_11_RADIO_AVS",
     "PPI", "FDDI", "IEEE802", "SUNATM", "MTP2", "SLIP", "ARCNET", "IP_OVER_FC", "C_HDLC", "FRELAY",
     "IPNET", "LTALK", "JUNIPER_ATM1", "BACNET_MS_TP"}

Compiling(dlt, expr, frames) ==
    [dlt |-> dlt, expr |-> expr, mask |-> Word(65535, 65280), savefile |-> FALSE, snapshot |-> 96,
     activated |-> TRUE, frames |-> frames]

MCExprs == MeantExprs \o OtherExprs
Meanings == 1..Len(MeantExprs)
Others == (Len(MeantExprs) + 1)..Len(MCExprs)

MCCalls ==
    {Compiling(d, e, TRUE) : d \in Encoded, e \in Meanings}
    \cup {Compiling(d, e, FALSE) : d \in OtherLinks, e \in Others}
    \cup {[Compiling("RAW", 1, FALSE) EXCEPT !.activated = FALSE],
          [Compiling("RAW", 1, FALSE) EXCEPT !.snapshot = 0],
          [Compiling("PPP", Len(MeantExprs) + 9, FALSE)
            EXCEPT !.savefile = TRUE]}

Ip == [net |-> "ip", vlan |-> -1, qos |-> FALSE, ihl |-> 5, frag |-> 0, proto |-> 6,
       src |-> a1, dst |-> a2, sport |-> 1000, dport |-> 80,
       data |-> <<9, 0, 0, 0, 0, 0, 0, 0, 80, 2, 0, 0, 0, 0, 0, 0>>]

MCPackets ==
    { Ip,
      [Ip EXCEPT !.ihl = 6, !.proto = 17, !.sport = 53, !.dport = 1053, !.dst = a3],
      [Ip EXCEPT !.frag = 8197, !.sport = 80],
      [Ip EXCEPT !.frag = 16384, !.ihl = 7, !.sport = 85, !.dport = 443, !.src = a3],
      [Ip EXCEPT !.proto = 1, !.qos = TRUE],
      [Ip EXCEPT !.qos = TRUE, !.ihl = 6, !.sport = 80, !.dport = 80],
      [Ip EXCEPT !.net = "ip6"],
      [Ip EXCEPT !.net = "ip6", !.proto = 17, !.sport = 53, !.src = a2, !.dst = a3],
      [Ip EXCEPT !.net = "arp"],
      [Ip EXCEPT !.vlan = 3],
      [Ip EXCEPT !.vlan = 4, !.net = "ip6"] }

I(code, k) == [code |-> code, k |-> k, jt |-> 0, jf |-> 0]
J(op, src, k, jt, jf) == [code |-> <<"JMP", op, src>>, k |-> k, jt |-> jt, jf |-> jf]
RetA == I(<<"RET", "", "A">>, 0)

MCRawPrograms ==
    {[prog |-> p, buf |-> <<69, 1, 2, 3>>] :
        p \in { <<I(<<"LDX", "W", "LEN">>, 0), I(<<"LD", "B", "IND">>, -2), I(<<"ALU", "MOD", "X">>, 0), RetA>>,
                <<I(<<"LD", "H", "ABS">>, 3), RetA>>,
                <<I(<<"LDX", "B", "MSH">>, 9), RetA>>,
                <<I(<<"LDX", "W", "IMM">>, 0), I(<<"ALU", "DIV", "X">>, 0), RetA>>,
                <<I(<<"LDX", "B", "MSH">>, 0), I(<<"STX", "", "">>, 1), I(<<"LD", "W", "MEM">>, 1),
                  J("JGT", "X", 0, 1, 0), J("JGE", "X", 0, 0, 0), I(<<"JMP", "JA", "">>, 0), RetA>>,
                <<I(<<"LDX", "W", "MEM">>, 0), I(<<"MISC", "TXA", "">>, 0), RetA>>,
                <<I(<<"ALU", "NEG", "X">>, 0), RetA>>,
                <<J("JEQ", "K", 0, 1, 0), RetA>>,
                <<I(<<"ST", "", "">>, 16), RetA>>,
                <<I(<<"ALU", "DIV", "K">>, 0), RetA>> }}
=============================================================================
