------------------------------- MODULE GenMisc -------------------------------
(***************************************************************************)
(* The code generator of jni/pcap/gencode.c, third part: arithmetic and    *)
(* the remaining primitives.  An arithmetic expression is [s, b, regno]:   *)
(* the statements, the protocol test it needs (NoTest for none) and the    *)
(* register with its value.                                                *)
(***************************************************************************)
EXTENDS GenNet

AndOpt(a, b) == IF a.op = "none" THEN b ELSE IF b.op = "none" THEN a ELSE And(a, b)

AluX(op) == Ins(<<"ALU", op, "X">>, 0)
LdMemory(k) == Ins(<<"LD", "W", "MEM">>, k)
LdImm(k) == Ins(<<"LD", "W", "IMM">>, k)
LdLen == Ins(<<"LD", "W", "LEN">>, 0)

----------------------------------------------------------------------------
(* Registers *)

alloc_reg(rg) ==
    LET n == NextFree(rg.used, rg.cur)
    IN  [rg EXCEPT !.used = @ \cup {n}, !.cur = n]
free_reg(rg, n) == [rg EXCEPT !.used = @ \ {n}]

----------------------------------------------------------------------------
(* Arithmetic: regno is the register the caller allocated *)

xfer_to_x(a) == <<Ldx(a.regno)>>
xfer_to_a(a) == <<LdMemory(a.regno)>>

SizeCode(size) == CASE size = 1 -> "B" [] size = 2 -> "H" [] OTHER -> "W"
NetLoads == {"IP", "ARP", "RARP", "ATALK", "DECNET", "SCA", "LAT", "MOPRC", "MOPDL", "IPV6"}
TransportLoads == {"SCTP", "TCP", "UDP", "ICMP", "IGMP", "IGRP", "PIM", "VRRP", "CARP"}

\* X := a variable offset plus the index, or the index
IndexFrom(prefix, inst) ==
    IF prefix # <<>> THEN prefix \o xfer_to_a(inst) \o <<AluX("ADD"), Tax>> ELSE xfer_to_x(inst)

LoadCode(proto, inst, size) ==
    CASE proto = "RADIO" -> Append(xfer_to_x(inst), LdFrom(size, 0))
      [] proto = "LINK" -> Append(IndexFrom(gen_llprefixlen, inst), LdFrom(size, ll.off_ll))
      [] proto \in NetLoads ->
            Append(IndexFrom(gen_off_macpl, inst), LdFrom(size, ll.off_macpl + ll.off_nl))
      [] proto \in TransportLoads ->
            Append(IndexFrom(gen_loadx_iphdrlen, inst), LdFrom(size, ll.off_macpl + ll.off_nl))

\* the protocol the load needs; a transport header only in an IPv4 packet
\* that is not a later fragment
LoadGuard(proto, b, abbrev) ==
    CASE proto \in NetLoads -> AndOpt(b, abbrev)
      [] proto \in TransportLoads ->
            And(gen_linktype(ETHERTYPE.IP), AndOpt(b, And(abbrev, gen_ipfrag)))
      [] OTHER -> b
LoadTest(proto, inst) == LoadGuard(proto, inst.b, gen_proto_abbrev(proto))

LoadRefused(proto, size) ==
    \/ size \notin {1, 2, 4}
    \/ proto \notin {"RADIO", "LINK"} \cup NetLoads \cup TransportLoads
    \/ proto = "RADIO" /\ ll.linktype \notin {"IEEE802_11_RADIO_AVS", "IEEE802_11_RADIO", "PRISM_HEADER"}

Loaded(proto, inst, size, b, regno) ==
    [s |-> inst.s \o LoadCode(proto, inst, SizeCode(size)) \o <<StoreA(regno)>>,
     b |-> b, regno |-> regno]
gen_load(proto, inst, size, regno) == Loaded(proto, inst, size, LoadTest(proto, inst), regno)

gen_loadi(val, regno) == [s |-> <<LdImm(val), StoreA(regno)>>, b |-> NoTest, regno |-> regno]
gen_loadlen(regno) == [s |-> <<LdLen, StoreA(regno)>>, b |-> NoTest, regno |-> regno]

gen_neg(a) ==
    [a EXCEPT !.s = @ \o xfer_to_a(a) \o <<Ins(<<"ALU", "NEG", "K">>, 0), StoreA(a.regno)>>]

\* The tests of the second operand are dropped with a1: only a0.b survives.
gen_arth(code, a0, a1, regno) ==
    [s |-> a0.s \o a1.s \o xfer_to_x(a1) \o xfer_to_a(a0) \o <<AluX(code), StoreA(regno)>>,
     b |-> a0.b, regno |-> regno]

\* equality by subtraction, the others by a comparison with X
gen_relation(code, a0, a1, reversed) ==
    LET s == a0.s \o a1.s \o xfer_to_x(a1) \o xfer_to_a(a0)
        b == IF code = "JEQ" THEN Test(Append(s, AluX("SUB")), <<"JMP", code, "K">>, 0)
             ELSE Test(s, <<"JMP", code, "X">>, 0)
    IN  AndOpt(AndOpt(a0.b, a1.b), IF reversed THEN Not(b) ELSE b)

----------------------------------------------------------------------------
(* Length, bytes, broadcast and multicast *)

gen_len(jmp, n) == Test(<<LdLen>>, <<"JMP", jmp, "K">>, n)
gen_greater(n) == gen_len("JGE", n)
gen_less(n) == Not(gen_len("JGT", n))

\* For '|' and '&' the byte is not loaded: the test is on what A held.
gen_byteop(op, idx, val) ==
    CASE op = "=" -> gen_cmp("LINK", idx, "B", val)
      [] op = "<" -> gen_cmp_lt("LINK", idx, "B", val)
      [] op = ">" -> gen_cmp_gt("LINK", idx, "B", val)
      [] op = "|" -> Not(Test(<<AluK("OR", val)>>, <<"JMP", "JEQ", "K">>, 0))
      [] op = "&" -> Not(Test(<<AluK("AND", val)>>, <<"JMP", "JEQ", "K">>, 0))

gen_ahostop(aaddr, dir) ==
    IF dir \in WlanDirs THEN Err
    ELSE Dirs(dir, gen_bcmp("LINK", 0, aaddr), gen_bcmp("LINK", 1, aaddr))

gen_acode(aaddr, q) ==
    IF ll.linktype \in {"ARCNET", "ARCNET_LINUX"} /\ q.addr \in {"HOST", "DEFAULT"}
       /\ q.proto = "LINK"
    THEN gen_ahostop(aaddr, q.dir) ELSE Err

abroadcast == <<0>>

\* netmask: -1 is PCAP_NETMASK_UNKNOWN
gen_broadcast(proto, netmask) ==
    CASE proto \in {"DEFAULT", "LINK"} ->
            IF ll.linktype \in {"ARCNET", "ARCNET_LINUX"} THEN gen_ahostop(abroadcast, "DST")
            ELSE LinkHost([i \in 1..6 |-> 255], "DST")
      [] proto = "IP" ->
            IF netmask = -1 THEN Err
            ELSE LET hostmask == Not32(netmask)
                 IN  And(gen_linktype(ETHERTYPE.IP),
                         Or(gen_mcmp("NET", 16, "W", 0, hostmask),
                            gen_mcmp("NET", 16, "W", hostmask, hostmask)))
      [] OTHER -> Err

gen_mac_multicast(offset) == LinkBit(offset, 1)

LinkMulticast ==
    CASE ll.linktype \in {"ARCNET", "ARCNET_LINUX"} -> gen_ahostop(abroadcast, "DST")
      [] ll.linktype \in Ethernets -> gen_mac_multicast(0)
      [] ll.linktype = "FDDI" -> gen_mac_multicast(1)
      [] ll.linktype \in {"IEEE802", "IP_OVER_FC"} -> gen_mac_multicast(2)
      [] ll.linktype \in IEEE80211 ->
            WlanAddr(ByDs(1, gen_mac_multicast(16), gen_mac_multicast(4)), gen_mac_multicast(4))
      [] ll.linktype = "SUNATM" /\ ll.is_lane ->
            And(Not(gen_cmp("LINK", 4, "H", 65280)), gen_mac_multicast(ll.off_mac))
      [] OTHER -> Err

gen_multicast(proto) ==
    CASE proto \in {"DEFAULT", "LINK"} -> LinkMulticast
      [] proto = "IP" -> And(gen_linktype(ETHERTYPE.IP), gen_cmp_ge("NET", 16, "B", 224))
      [] proto = "IPV6" -> And(gen_linktype(ETHERTYPE.IPV6), gen_cmp("NET", 24, "B", 255))
      [] OTHER -> Err

----------------------------------------------------------------------------
(* Direction, 802.11 and encapsulations *)

\* On SLIP a byte of the header is compared with 0, by way of registers.
SlipDirection(dir) ==
    LET r0 == alloc_reg(reg)
        r1 == alloc_reg(r0)
        r2 == alloc_reg(free_reg(r1, r0.cur))
        byte == Loaded("LINK", gen_loadi(0, r0.cur), 1, NoTest, r1.cur)
    IN  gen_relation("JEQ", byte, gen_loadi(0, r2.cur), dir = 1)

\* dir: 0 inbound, 1 outbound.  Other link types ask the kernel, so a
\* savefile has no direction.
gen_inbound(dir, savefile) ==
    LET SKF_AD_PKTTYPE == 4 - 4096      \* ancillary data of the kernel's filter
        OUTGOING == 4                   \* PACKET_OUTGOING, LINUX_SLL_OUTGOING
        outgoing(off) ==
            LET b == gen_cmp("LINK", off, "H", OUTGOING) IN IF dir = 1 THEN b ELSE Not(b)
    IN  CASE ll.linktype = "SLIP" -> SlipDirection(dir)
          [] ll.linktype = "IPNET" -> gen_cmp("LINK", 2, "H", 2 - dir)
          [] ll.linktype = "LINUX_SLL" -> outgoing(0)
          [] ll.linktype = "PPP_PPPD" -> gen_cmp("LINK", 0, "B", dir)
          [] ll.linktype \in Juniper -> gen_mcmp("LINK", 3, "B", 1 - dir, 1)
          [] OTHER -> IF savefile THEN Err ELSE outgoing(SKF_AD_PKTTYPE)

\* pflog is not compiled in on Linux
gen_pf == Err

gen_p80211_type(type, mask) ==
    IF ll.linktype \in IEEE80211 \ {"PPI"} THEN gen_mcmp("LINK", 0, "B", type, mask) ELSE Err
gen_p80211_fcdir(fcdir) ==
    IF ll.linktype \in IEEE80211 \ {"PPI"} THEN gen_mcmp("LINK", 1, "B", fcdir, 3) ELSE Err

\* A VLAN tag pushes the rest of the packet four bytes on, for every test
\* behind it in the expression.
gen_vlan(vlan_num) ==
    LET tag == Or(TypeIs(ETHERTYPE.VLAN), TypeIs(ETHERTYPE.QINQ))
    IN  IF ll.label_stack_depth > 0 \/ ll.linktype \notin Ethernets THEN Err
        ELSE IF vlan_num >= 0 THEN And(tag, gen_mcmp("MACPL", 0, "H", vlan_num, 4095)) ELSE tag
vlan_offsets ==
    [ll EXCEPT !.orig_nl = ll.off_nl, !.off_macpl = @ + 4, !.off_linktype = @ + 4]

gen_mpls(label_num) ==
    LET outer == gen_mcmp("MACPL", ll.off_nl - 2, "B", 0, 1)
        first == CASE ll.linktype \in Ethernets \cup {"C_HDLC"} -> gen_linktype(ETHERTYPE.MPLS)
                   [] ll.linktype = "PPP" -> gen_linktype(PPP.MPLS_UCAST)
                   [] OTHER -> Err
        b0 == IF ll.label_stack_depth > 0 THEN outer ELSE first
    IN  IF label_num >= 0
        THEN And(b0, gen_mcmp("MACPL", ll.off_nl, "W", Shl32(label_num, 12), -4096)) ELSE b0
mpls_offsets ==
    [ll EXCEPT !.orig_nl = ll.off_nl, !.off_nl = @ + 4, !.off_nl_nosnap = @ + 4,
               !.label_stack_depth = @ + 1]

gen_pppoed == gen_linktype(ETHERTYPE.PPPOED)

\* The session is compared at the original network-layer offset.
gen_pppoes(sess_num) ==
    LET b0 == gen_linktype(ETHERTYPE.PPPOES)
    IN  IF sess_num >= 0
        THEN And(b0, gen_mcmp("MACPL", ll.off_nl, "W", sess_num, 65535)) ELSE b0
pppoes_offsets ==
    [ll EXCEPT !.orig_linktype = ll.off_linktype, !.orig_nl = ll.off_nl, !.is_pppoes = TRUE,
               !.off_linktype = ll.off_nl + 6, !.off_nl = 8, !.off_nl_nosnap = 8]

----------------------------------------------------------------------------
(* ATM and SS7 *)

gen_atmfield_code(atmfield, jvalue, jtype, reverse) ==
    LET at(off, size, mask) ==
            IF off = -1 THEN AbortCall
            ELSE gen_ncmp("LINK", off, size, mask, jtype, reverse, jvalue)
    IN  CASE atmfield \in {"VPI", "VCI", "CALLREFTYPE"} /\ ~ll.is_atm -> Err
          [] atmfield = "VPI" /\ ll.is_atm -> at(ll.off_vpi, "B", AllOnes)
          [] atmfield = "VCI" /\ ll.is_atm -> at(ll.off_vci, "H", AllOnes)
          [] atmfield = "CALLREFTYPE" /\ ll.is_atm -> at(ll.off_proto, "B", AllOnes)
          [] atmfield = "PROTOTYPE" -> at(ll.off_proto, "B", 15)
          [] atmfield = "MSGTYPE" ->
                IF ll.off_payload = -1 THEN AbortCall
                ELSE at(ll.off_payload + 5, "B", AllOnes)

AtmIs(field, v) == gen_atmfield_code(field, v, "JEQ", FALSE)
AtmCircuit == [METAC |-> 1, BCC |-> 2, OAMF4SC |-> 3, OAMF4EC |-> 4, SC |-> 5, ILMIC |-> 16]

gen_atmtype_abbrev(type) ==
    CASE ~ll.is_atm -> Err
      [] ll.is_atm /\ type \in DOMAIN AtmCircuit ->
            And(AtmIs("VPI", 0), AtmIs("VCI", AtmCircuit[type]))
      [] ll.is_atm /\ type = "LANE" -> AtmIs("PROTOTYPE", PT.LANE)
      [] ll.is_atm /\ type = "LLC" -> AtmIs("PROTOTYPE", PT.LLC)

\* LANE makes the rest of the expression look behind a MAC header
atmtype_offsets(type) ==
    IF type = "LANE" /\ ll.is_atm
    THEN LET mac == ll.off_payload + 2
         IN  [ll EXCEPT !.is_lane = TRUE, !.off_mac = mac, !.off_linktype = mac + 12,
                        !.off_macpl = mac + 14, !.off_nl = 0, !.off_nl_nosnap = 3]
    ELSE IF type = "LLC" THEN [ll EXCEPT !.is_lane = FALSE] ELSE ll

AtmMessage == [SETUP |-> 5, CALLPROCEED |-> 2, CONNECT |-> 7, CONNECTACK |-> 15,
               RELEASE |-> 77, RELEASE_DONE |-> 90]
gen_msg_abbrev(type) == AtmIs("MSGTYPE", AtmMessage[type])

gen_atmmulti_abbrev(type) ==
    LET call == Or(gen_msg_abbrev("CONNECT"),
                   Or(gen_msg_abbrev("SETUP"), gen_msg_abbrev("CALLPROCEED")))
        release(b) == Or(gen_msg_abbrev("RELEASE_DONE"), Or(gen_msg_abbrev("RELEASE"), b))
    IN  CASE ~ll.is_atm -> Err
          [] ll.is_atm /\ type \in {"OAM", "OAMF4"} ->
                And(AtmIs("VPI", 0), Or(AtmIs("VCI", 3), AtmIs("VCI", 4)))
          [] ll.is_atm /\ type = "CONNECTMSG" ->
                And(gen_atmtype_abbrev("SC"), release(Or(gen_msg_abbrev("CONNECTACK"), call)))
          [] ll.is_atm /\ type = "METACONNECT" -> And(gen_atmtype_abbrev("METAC"), release(call))

\* the length indicator tells fill-in, link status and message units apart
gen_mtp2type_abbrev(type) ==
    LET li(jtype, reverse, v) == gen_ncmp("PACKET", ll.off_li, "B", 63, jtype, reverse, v)
        hsl(jtype, reverse, v) == gen_ncmp("PACKET", ll.off_li_hsl, "H", 65408, jtype, reverse, v)
    IN  CASE ll.linktype \notin {"MTP2", "ERF", "MTP2_WITH_PHDR"} -> Err
          [] type = "FISU" -> li("JEQ", FALSE, 0)
          [] type = "LSSU" -> And(li("JGT", FALSE, 0), li("JGT", TRUE, 2))
          [] type = "MSU" -> li("JGT", FALSE, 2)
          [] type = "HFISU" -> hsl("JEQ", FALSE, 0)
          [] type = "HLSSU" -> And(hsl("JGT", FALSE, 0), hsl("JGT", TRUE, 256))
          [] type = "HMSU" -> hsl("JGT", FALSE, 256)

\* the 14 bits of a point code are spread over a little-endian label
OpcWord(v) == ((v \div 1024) % 16) + ((v \div 4) % 256) * 256 + (v % 4) * 4194304
DpcWord(v) == Word(((v % 256) * 256) + ((v \div 256) % 64), 0)

gen_mtp3field_code(field, jvalue, jtype, reverse) ==
    LET hsl == IF field \in {"HSIO", "HOPC", "HDPC", "HSLS"} THEN 3 ELSE 0
        cmp(off, size, mask, v) == gen_ncmp("PACKET", off + hsl, size, mask, jtype, reverse, v)
        too(max) == jvalue \notin 0..max
    IN  CASE field \in {"SIO", "HSIO"} ->
                IF ll.off_sio = -1 \/ too(255) THEN Err ELSE cmp(ll.off_sio, "B", AllOnes, jvalue)
          [] field \in {"OPC", "HOPC"} ->
                IF ll.off_opc = -1 \/ too(16383) THEN Err
                ELSE cmp(ll.off_opc, "W", Word(192, 65295), OpcWord(jvalue))
          [] field \in {"DPC", "HDPC"} ->
                IF ll.off_dpc = -1 \/ too(16383) THEN Err
                ELSE cmp(ll.off_dpc, "W", Word(65343, 0), DpcWord(jvalue))
          [] field \in {"SLS", "HSLS"} ->
                IF ll.off_sls = -1 \/ too(15) THEN Err ELSE cmp(ll.off_sls, "B", 240, jvalue * 16)
=============================================================================
