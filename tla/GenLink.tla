------------------------------- MODULE GenLink -------------------------------
(***************************************************************************)
(* The code generator of jni/pcap/gencode.c, first part: the link-layer    *)
(* state that init_linktype() sets up, the loads relative to a header and  *)
(* the tests of the link-layer type.                                       *)
(*                                                                         *)
(* A gen_* operator returns the test it generates as a tree:               *)
(*   [op |-> "test", stmts, code, k]  a block: statements and a branch;    *)
(*   [op |-> "cmp", offrel, offset, size, mask, jtype, v]  a block that     *)
(*       compares a field: its statements are those of gen_load_a();       *)
(*   [op |-> "and" | "or", l, r]      gen_and(l, r), gen_or(l, r);         *)
(*   [op |-> "not", l]                gen_not(l);                          *)
(*   [op |-> "err", abort]            bpf_error(), or abort().             *)
(* Compile turns a tree into blocks with the code's own gen_and, gen_or,   *)
(* gen_not and backpatch().  The file-scope variables of gencode.c are the *)
(* variables ll and reg.  A link type is the name of its DLT_ constant; an *)
(* offset of -1 is C's (u_int)-1.                                          *)
(***************************************************************************)
EXTENDS Word32, Sequences, Functions

CONSTANTS BPF_MEMWORDS,   \* words of scratch memory
          HostSwap        \* TRUE on a little-endian host: htonl() swaps

VARIABLES
    ll,     \* linktype and the off_* variables
    reg     \* the register table: used, cur, and reg_off_ll, reg_off_macpl

----------------------------------------------------------------------------
(* Trees and instructions *)

Err == [op |-> "err", abort |-> FALSE]
AbortCall == [op |-> "err", abort |-> TRUE]
Test(stmts, code, k) == [op |-> "test", stmts |-> stmts, code |-> code, k |-> k]
Node(op, a, b) ==
    IF a.op = "err" THEN a ELSE IF b.op = "err" THEN b ELSE [op |-> op, l |-> a, r |-> b]
And(a, b) == Node("and", a, b)
Or(a, b) == Node("or", a, b)
Not(a) == IF a.op = "err" THEN a ELSE [op |-> "not", l |-> a]

\* the tests F(s[1]), F(s[2]), ... combined by gen_or from the first to the
\* last, and from the last to the first
NoTest == [op |-> "none"]
OrOpt(a, b) == IF a.op = "none" THEN b ELSE IF b.op = "none" THEN a ELSE Or(a, b)
AnyOf(s, F(_)) ==
    LET any[i \in 0..Len(s)] ==
            IF i = 0 THEN NoTest
            ELSE OrOpt(any[i - 1], F(s[i]))
    IN  any[Len(s)]
AnyFromLast(s, F(_)) ==
    LET n == Len(s)
        any[i \in 0..n] ==
            IF i = 0 THEN NoTest ELSE OrOpt(F(s[n + 1 - i]), any[i - 1])
    IN  any[n]

Ins(code, k) == [code |-> code, k |-> k, jt |-> 0, jf |-> 0]
Jump(op, k, jt, jf) == [code |-> <<"JMP", op, "K">>, k |-> k, jt |-> jt, jf |-> jf]
Ldx(k) == Ins(<<"LDX", "W", "MEM">>, k)
AluK(op, k) == Ins(<<"ALU", op, "K">>, k)
StoreA(k) == Ins(<<"ST", "", "">>, k)
Tax == Ins(<<"MISC", "TAX", "">>, 0)
Txa == Ins(<<"MISC", "TXA", "">>, 0)
LdAt(size, k) == Ins(<<"LD", size, "ABS">>, k)
LdFrom(size, k) == Ins(<<"LD", size, "IND">>, k)

\* gen_uncond: "ld #!rsense; jeq #0"
gen_uncond(rsense) ==
    Test(<<Ins(<<"LD", "W", "IMM">>, IF rsense THEN 0 ELSE 1)>>, <<"JMP", "JEQ", "K">>, 0)
gen_true == gen_uncond(TRUE)
gen_false == gen_uncond(FALSE)

SWAPLONG(y) == Word(256 * (y % 256) + (Lo(y) \div 256), 256 * (Hi(y) % 256) + (Hi(y) \div 256))

----------------------------------------------------------------------------
(* Numbers of the headers *)

ETHERMTU == 1500
ETHERTYPE == [IP |-> 2048, ARP |-> 2054, REVARP |-> 32821, IPV6 |-> 34525, ATALK |-> 32923,
              AARP |-> 33011, DN |-> 24579, NS |-> 1536, IPX |-> 33079, VLAN |-> 33024,
              QINQ |-> 37120, MPLS |-> 34887, PPPOED |-> 34915, PPPOES |-> 34916, LAT |-> 24580,
              SCA |-> 24583, MOPDL |-> 24577, MOPRC |-> 24578]
LLCSAP == [IP |-> 6, STP |-> 66, SNAP |-> 170, IPX |-> 224, NETBEUI |-> 240, ISONS |-> 254]
PPP == [IP |-> 33, OSI |-> 35, NS |-> 37, DECNET |-> 39, APPLE |-> 41, IPX |-> 43, VJC |-> 45,
        VJNC |-> 47, BRPDU |-> 49, IPV6 |-> 87, MPLS_UCAST |-> 641]
LINUX_SLL_P == [P802_3 |-> 1, P802_2 |-> 4]
AF == [INET |-> 2, INET6 |-> 10, IPNET_INET6 |-> 26]
PT == [LANE |-> 1, LLC |-> 2]

IEEE80211 == {"IEEE802_11", "PRISM_HEADER", "IEEE802_11_RADIO_AVS", "IEEE802_11_RADIO", "PPI"}
RadioPrefix == IEEE80211 \ {"IEEE802_11"}
Ethernets == {"EN10MB", "NETANALYZER", "NETANALYZER_TRANSPARENT"}

----------------------------------------------------------------------------
(* init_linktype: the offsets of each link type *)

\* what every link type starts from
Reset(dlt) ==
    [linktype |-> dlt, off_ll |-> 0, off_mac |-> 0, macpl_variable |-> FALSE,
     is_atm |-> FALSE, is_lane |-> FALSE, is_pppoes |-> FALSE,
     off_vpi |-> -1, off_vci |-> -1, off_proto |-> -1, off_payload |-> -1,
     off_li |-> -1, off_li_hsl |-> -1, off_sio |-> -1, off_opc |-> -1,
     off_dpc |-> -1, off_sls |-> -1,
     orig_linktype |-> -1, orig_nl |-> -1, label_stack_depth |-> 0,
     off_linktype |-> -1, off_macpl |-> -1, off_nl |-> -1, off_nl_nosnap |-> -1]

Offsets(dlt, linktype, macpl, nl, nosnap) ==
    [Reset(dlt) EXCEPT !.off_linktype = linktype, !.off_macpl = macpl,
                       !.off_nl = nl, !.off_nl_nosnap = nosnap]

\* link types whose header has a fixed length, on a LAN or a serial line
LanLinkType(dlt) ==
    CASE dlt = "ARCNET" -> Offsets(dlt, 2, 6, 0, 0)
      [] dlt = "ARCNET_LINUX" -> Offsets(dlt, 4, 8, 0, 0)
      [] dlt = "EN10MB" -> Offsets(dlt, 12, 14, 0, 3)
      [] dlt = "SLIP" -> Offsets(dlt, -1, 16, 0, 0)
      [] dlt = "SLIP_BSDOS" -> Offsets(dlt, -1, 24, 0, 0)
      [] dlt \in {"NULL", "LOOP"} -> Offsets(dlt, 0, 4, 0, 0)
      [] dlt = "ENC" -> Offsets(dlt, 0, 12, 0, 0)
      [] dlt \in {"PPP", "PPP_PPPD", "C_HDLC", "PPP_SERIAL"} -> Offsets(dlt, 2, 4, 0, 0)
      [] dlt = "PPP_ETHER" -> Offsets(dlt, 6, 8, 0, 0)
      [] dlt = "PPP_BSDOS" -> Offsets(dlt, 5, 24, 0, 0)
      [] dlt = "FDDI" -> Offsets(dlt, 13, 13, 8, 3)
      [] dlt = "IEEE802" -> Offsets(dlt, 14, 14, 8, 3)

\* 802.11, ATM, raw IP and cooked captures
RadioLinkType(dlt) ==
    CASE dlt \in IEEE80211 -> [Offsets(dlt, 24, 0, 8, 3) EXCEPT !.macpl_variable = TRUE]
      [] dlt \in {"ATM_RFC1483", "ATM_CLIP"} -> Offsets(dlt, 0, 0, 8, 3)
      [] dlt = "SUNATM" ->
            [Offsets(dlt, 4, 4, 8, 3) EXCEPT
                !.is_atm = TRUE, !.off_vpi = 1, !.off_vci = 2, !.off_proto = 0,
                !.off_mac = -1, !.off_payload = 4]
      [] dlt \in {"RAW", "IPV4", "IPV6", "LTALK", "FRELAY"} -> Offsets(dlt, -1, 0, 0, 0)
      [] dlt = "LINUX_SLL" -> Offsets(dlt, 14, 16, 0, 0)
      [] dlt = "IP_OVER_FC" -> Offsets(dlt, 16, 16, 8, 3)
      [] dlt = "MFR" -> Offsets(dlt, -1, 0, 4, 0)
      [] dlt = "APPLE_IP_OVER_IEEE1394" -> Offsets(dlt, 16, 18, 0, 0)
      [] dlt = "SYMANTEC_FIREWALL" -> Offsets(dlt, 6, 44, 0, 0)

\* Juniper
JuniperLinkType(dlt) ==
    CASE dlt \in {"JUNIPER_MFR", "JUNIPER_MLFR", "JUNIPER_MLPPP", "JUNIPER_PPP", "JUNIPER_CHDLC",
                   "JUNIPER_FRELAY"} -> Offsets(dlt, 4, 4, 0, -1)
      [] dlt = "JUNIPER_ATM1" -> Offsets(dlt, 4, 4, 0, 10)
      [] dlt = "JUNIPER_ATM2" -> Offsets(dlt, 8, 8, 0, 10)
      [] dlt \in {"JUNIPER_PPPOE", "JUNIPER_ETHER"} -> Offsets(dlt, 16, 14, 18, 21)
      [] dlt = "JUNIPER_PPPOE_ATM" -> Offsets(dlt, 4, 6, 0, -1)
      [] dlt = "JUNIPER_GGSN" -> Offsets(dlt, 6, 12, 0, -1)
      [] dlt = "JUNIPER_ES" -> Offsets(dlt, 6, -1, -1, -1)
      [] dlt = "JUNIPER_MONITOR" -> Offsets(dlt, 12, 12, 0, -1)
      [] dlt = "JUNIPER_SERVICES" -> Offsets(dlt, 12, -1, -1, -1)
      [] dlt \in {"JUNIPER_VP", "JUNIPER_ST"} -> Offsets(dlt, 18, -1, -1, -1)
      [] dlt \in {"JUNIPER_ISM", "JUNIPER_VS", "JUNIPER_SRX_E2E", "JUNIPER_FIBRECHANNEL",
                   "JUNIPER_ATM_CEMIC"} -> Offsets(dlt, 8, -1, -1, -1)

\* SS7, the analysers and the rest
AnalyserLinkType(dlt) ==
    CASE dlt \in {"MTP2", "MTP2_WITH_PHDR", "ERF"} ->
            LET b == CASE dlt = "MTP2" -> 0 [] dlt = "ERF" -> 20 [] OTHER -> 4
            IN  [Reset(dlt) EXCEPT !.off_li = b + 2, !.off_li_hsl = b + 4, !.off_sio = b + 3,
                                   !.off_opc = b + 4, !.off_dpc = b + 4, !.off_sls = b + 7]
      [] dlt = "PFSYNC" -> Offsets(dlt, -1, 4, 0, 0)
      [] dlt = "AX25_KISS" -> [Reset(dlt) EXCEPT !.off_mac = 1]
      [] dlt = "IPNET" -> Offsets(dlt, 1, 24, 0, -1)
      [] dlt = "NETANALYZER" -> [Offsets(dlt, 16, 18, 0, 3) EXCEPT !.off_mac = 4]
      [] dlt = "NETANALYZER_TRANSPARENT" -> [Offsets(dlt, 24, 26, 0, 3) EXCEPT !.off_mac = 12]
      [] OTHER -> Reset(dlt)    \* BACNET_MS_TP and the DLT_MATCHING range

LanTypes == {"ARCNET", "ARCNET_LINUX", "EN10MB", "SLIP", "SLIP_BSDOS", "NULL", "LOOP", "ENC",
             "PPP", "PPP_PPPD", "C_HDLC", "PPP_SERIAL", "PPP_ETHER", "PPP_BSDOS", "FDDI", "IEEE802"}
RadioTypes == IEEE80211 \cup
    {"ATM_RFC1483", "ATM_CLIP", "SUNATM", "RAW", "IPV4", "IPV6", "LTALK", "FRELAY", "LINUX_SLL",
     "IP_OVER_FC", "MFR", "APPLE_IP_OVER_IEEE1394", "SYMANTEC_FIREWALL"}
Juniper == {"JUNIPER_MFR", "JUNIPER_PPP", "JUNIPER_CHDLC", "JUNIPER_ATM1", "JUNIPER_ATM2",
            "JUNIPER_PPPOE", "JUNIPER_ETHER", "JUNIPER_PPPOE_ATM", "JUNIPER_GGSN", "JUNIPER_ES",
            "JUNIPER_MONITOR", "JUNIPER_SERVICES", "JUNIPER_VP", "JUNIPER_ST", "JUNIPER_ISM",
            "JUNIPER_VS", "JUNIPER_MLFR", "JUNIPER_MLPPP", "JUNIPER_FRELAY", "JUNIPER_SRX_E2E",
            "JUNIPER_FIBRECHANNEL", "JUNIPER_ATM_CEMIC"}

init_linktype(dlt) ==
    IF dlt \in LanTypes THEN LanLinkType(dlt)
    ELSE IF dlt \in RadioTypes THEN RadioLinkType(dlt)
    ELSE IF dlt \in Juniper THEN JuniperLinkType(dlt)
    ELSE AnalyserLinkType(dlt)

----------------------------------------------------------------------------
(* Registers *)

init_regs == [used |-> {}, cur |-> 0, off_ll |-> -1, off_macpl |-> -1]

\* alloc_reg: the first free register from curreg on, or NoReg: an error
NoReg == -2
NextFree(used, cur) ==
    LET free == {d \in 0..(BPF_MEMWORDS - 1) : (cur + d) % BPF_MEMWORDS \notin used}
    IN  IF free = {} THEN NoReg
        ELSE (cur + (CHOOSE d \in free : \A e \in free : d <= e)) % BPF_MEMWORDS

\* The registers of the two variable offsets are allocated by the first use
\* (Claim in Compile); until finish_parse() a statement names them so.
REG_LL == 1000
REG_MACPL == 1001

----------------------------------------------------------------------------
(* Loads relative to a header *)

\* X := the length of the radio header, or no code
gen_llprefixlen == IF ll.linktype \in RadioPrefix THEN <<Ldx(REG_LL)>> ELSE <<>>
\* X := the offset of the MAC-layer payload, or no code
gen_off_macpl == IF ll.macpl_variable THEN <<Ldx(REG_MACPL)>> ELSE <<>>

gen_load_llrel(offset, size) ==
    IF gen_llprefixlen # <<>> THEN Append(gen_llprefixlen, LdFrom(size, offset))
    ELSE <<LdAt(size, Add32(offset, ll.off_ll))>>

gen_load_macplrel(offset, size) ==
    IF gen_off_macpl # <<>> THEN Append(gen_off_macpl, LdFrom(size, offset))
    ELSE <<LdAt(size, ll.off_macpl + offset)>>

\* X := the length of the IPv4 header, plus a variable payload offset
gen_loadx_iphdrlen ==
    IF gen_off_macpl # <<>>
    THEN gen_off_macpl \o <<LdFrom("B", ll.off_nl), AluK("AND", 15), AluK("LSH", 2),
                            Ins(<<"ALU", "ADD", "X">>, 0), Tax>>
    ELSE <<Ins(<<"LDX", "B", "MSH">>, ll.off_macpl + ll.off_nl)>>

gen_load_a(offrel, offset, size) ==
    CASE offrel = "PACKET" -> <<LdAt(size, offset)>>
      [] offrel = "LINK" -> gen_load_llrel(offset, size)
      [] offrel = "TRAN_IPV4" ->
            Append(gen_loadx_iphdrlen, LdFrom(size, ll.off_macpl + ll.off_nl + offset))
      [] OTHER ->
            gen_load_macplrel(offset + (CASE offrel = "MACPL" -> 0
                                          [] offrel = "NET" -> ll.off_nl
                                          [] offrel = "NET_NOSNAP" -> ll.off_nl_nosnap
                                          [] offrel = "TRAN_IPV6" -> ll.off_nl + 40), size)

----------------------------------------------------------------------------
(* Comparisons *)

AllOnes == -1       \* 0xffffffff

gen_ncmp(offrel, offset, size, mask, jtype, reverse, v) ==
    LET b == [op |-> "cmp", offrel |-> offrel, offset |-> offset, size |-> size,
              mask |-> mask, jtype |-> jtype, v |-> v]
    IN  IF reverse /\ jtype \in {"JGT", "JGE"} THEN Not(b) ELSE b

\* the block of a comparison
CmpBlock(c) ==
    LET load == gen_load_a(c.offrel, c.offset, c.size)
    IN  Test(IF c.mask = AllOnes THEN load ELSE Append(load, AluK("AND", c.mask)),
             <<"JMP", c.jtype, "K">>, c.v)

gen_cmp(offrel, offset, size, v) == gen_ncmp(offrel, offset, size, AllOnes, "JEQ", FALSE, v)
gen_cmp_gt(offrel, offset, size, v) == gen_ncmp(offrel, offset, size, AllOnes, "JGT", FALSE, v)
gen_cmp_ge(offrel, offset, size, v) == gen_ncmp(offrel, offset, size, AllOnes, "JGE", FALSE, v)
gen_cmp_lt(offrel, offset, size, v) == gen_ncmp(offrel, offset, size, AllOnes, "JGE", TRUE, v)
gen_cmp_le(offrel, offset, size, v) == gen_ncmp(offrel, offset, size, AllOnes, "JGT", TRUE, v)
gen_mcmp(offrel, offset, size, v, mask) == gen_ncmp(offrel, offset, size, mask, "JEQ", FALSE, v)

\* Compare the bytes v: words from the end, then half words, then a byte.
gen_bcmp(offrel, offset, v) ==
    LET all[n \in 1..Len(v)] ==
            LET w == IF n >= 4 THEN 4 ELSE IF n >= 2 THEN 2 ELSE 1
                k == CASE w = 4 -> Word(256 * v[n - 3] + v[n - 2], 256 * v[n - 1] + v[n])
                       [] w = 2 -> 256 * v[n - 1] + v[n]
                       [] OTHER -> v[n]
                size == CASE w = 4 -> "W" [] w = 2 -> "H" [] OTHER -> "B"
                b == gen_cmp(offrel, offset + n - w, size, k)
            IN  IF n = w THEN b ELSE And(b, all[n - w])
    IN  all[Len(v)]

\* an 802.2 header with a SNAP header of this organization and type
gen_snap(orgcode, ptype) ==
    gen_bcmp("MACPL", 0,
             <<LLCSAP.SNAP, LLCSAP.SNAP, 3, orgcode \div 65536, (orgcode \div 256) % 256,
               orgcode % 256, ptype \div 256, ptype % 256>>)

\* A byte at an offset from the link-layer header has a bit of mask set.
LinkBit(offset, mask) ==
    gen_ncmp("LINK", offset, "B", AllOnes, "JSET", FALSE, mask)

----------------------------------------------------------------------------
(* Link-layer type tests *)

Sap2(proto) == 256 * proto + proto
TypeIs(v) == gen_cmp("LINK", ll.off_linktype, "H", v)
TypeByte(v) == gen_cmp("LINK", ll.off_linktype, "B", v)
Is8023 == Not(gen_cmp_gt("LINK", ll.off_linktype, "H", ETHERMTU))
SnapOf(proto) == gen_snap(IF proto = ETHERTYPE.ATALK THEN 524295 ELSE 0, proto)

gen_ether_linktype(proto) ==
    CASE proto \in {LLCSAP.ISONS, LLCSAP.IP, LLCSAP.NETBEUI} ->
            And(Is8023, gen_cmp("MACPL", 0, "H", Sap2(proto)))
      [] proto = LLCSAP.IPX ->
            Or(TypeIs(ETHERTYPE.IPX),
               And(Is8023,
                   Or(gen_snap(0, ETHERTYPE.IPX),
                      Or(gen_cmp("MACPL", 0, "B", LLCSAP.IPX),
                         gen_cmp("MACPL", 0, "H", 65535)))))
      [] proto \in {ETHERTYPE.ATALK, ETHERTYPE.AARP} ->
            Or(TypeIs(proto), And(Is8023, SnapOf(proto)))
      [] proto \notin {LLCSAP.ISONS, LLCSAP.IP, LLCSAP.NETBEUI, LLCSAP.IPX,
                       ETHERTYPE.ATALK, ETHERTYPE.AARP} ->
            IF proto <= ETHERMTU
            THEN And(Is8023, gen_cmp("LINK", ll.off_linktype + 2, "B", proto))
            ELSE TypeIs(proto)

gen_ipnet_linktype(proto) ==
    CASE proto = ETHERTYPE.IP -> TypeByte(AF.INET)
      [] proto = ETHERTYPE.IPV6 -> TypeByte(AF.IPNET_INET6)
      [] OTHER -> gen_false

gen_linux_sll_linktype(proto) ==
    CASE proto \in {LLCSAP.ISONS, LLCSAP.IP, LLCSAP.NETBEUI} ->
            And(TypeIs(LINUX_SLL_P.P802_2), gen_cmp("MACPL", 0, "H", Sap2(proto)))
      [] proto = LLCSAP.IPX ->
            Or(TypeIs(ETHERTYPE.IPX),
               Or(TypeIs(LINUX_SLL_P.P802_3),
                  And(TypeIs(LINUX_SLL_P.P802_2),
                      Or(gen_cmp("MACPL", 0, "B", LLCSAP.IPX), gen_snap(0, ETHERTYPE.IPX)))))
      [] proto \in {ETHERTYPE.ATALK, ETHERTYPE.AARP} ->
            Or(TypeIs(proto), And(TypeIs(LINUX_SLL_P.P802_2), SnapOf(proto)))
      [] proto \notin {LLCSAP.ISONS, LLCSAP.IP, LLCSAP.NETBEUI, LLCSAP.IPX,
                       ETHERTYPE.ATALK, ETHERTYPE.AARP} ->
            IF proto <= ETHERMTU
            THEN And(TypeIs(LINUX_SLL_P.P802_2), gen_cmp("LINK", ll.off_macpl, "B", proto))
            ELSE TypeIs(proto)

gen_llc_linktype(proto) ==
    CASE proto \in {LLCSAP.ISONS, LLCSAP.IP, LLCSAP.NETBEUI} ->
            gen_cmp("MACPL", 0, "H", Sap2(proto))
      [] proto = ETHERTYPE.ATALK -> gen_snap(524295, ETHERTYPE.ATALK)
      [] proto \notin {LLCSAP.ISONS, LLCSAP.IP, LLCSAP.NETBEUI, ETHERTYPE.ATALK} ->
            IF proto <= ETHERMTU THEN gen_cmp("MACPL", 0, "B", proto)
            ELSE gen_cmp("MACPL", 6, "H", proto)

ethertype_to_ppptype(proto) ==
    CASE proto = ETHERTYPE.IP -> PPP.IP
      [] proto = ETHERTYPE.IPV6 -> PPP.IPV6
      [] proto = ETHERTYPE.DN -> PPP.DECNET
      [] proto = ETHERTYPE.ATALK -> PPP.APPLE
      [] proto = ETHERTYPE.NS -> PPP.NS
      [] proto = LLCSAP.ISONS -> PPP.OSI
      [] proto = LLCSAP.STP -> PPP.BRPDU
      [] proto = LLCSAP.IPX -> PPP.IPX
      [] OTHER -> proto

\* the bottom-of-stack bit before the network header, then the version
gen_mpls_linktype(version) ==
    And(gen_mcmp("NET", -2, "B", 1, 1), gen_mcmp("NET", 0, "B", 16 * version, 240))

\* type bits 10: a data frame
gen_check_802_11_data_frame == And(Not(LinkBit(0, 4)), LinkBit(0, 8))

\* DLT_NULL and DLT_ENC have the address family in the order of the host
\* that captured the packet, DLT_LOOP in network order.
AfTest(af) ==
    gen_cmp("LINK", 0, "W",
            IF ll.linktype = "LOOP" \/ ~HostSwap THEN af ELSE SWAPLONG(af))

ArcnetType(proto) ==
    CASE proto = ETHERTYPE.IPV6 -> TypeByte(196)
      [] proto = ETHERTYPE.IP -> Or(TypeByte(212), TypeByte(240))
      [] proto = ETHERTYPE.ARP -> Or(TypeByte(213), TypeByte(241))
      [] proto = ETHERTYPE.REVARP -> TypeByte(214)
      [] proto = ETHERTYPE.ATALK -> TypeByte(221)
      [] OTHER -> gen_false

FrelayType(proto) ==
    LET nlpid(v) == gen_cmp("LINK", 2, "H", 768 + v)
    IN  CASE proto = ETHERTYPE.IP -> nlpid(204)
          [] proto = ETHERTYPE.IPV6 -> nlpid(142)
          [] proto = LLCSAP.ISONS -> Or(nlpid(129), Or(nlpid(130), nlpid(131)))
          [] OTHER -> gen_false

\* link types that carry only IP and have no type field
RawType(proto) ==
    LET dlt == ll.linktype
    IN  CASE dlt \in {"SLIP", "SLIP_BSDOS", "RAW"} ->
                (CASE proto = ETHERTYPE.IP -> gen_mcmp("LINK", 0, "B", 64, 240)
                   [] proto = ETHERTYPE.IPV6 -> gen_mcmp("LINK", 0, "B", 96, 240)
                   [] OTHER -> gen_false)
          [] dlt = "IPV4" -> gen_uncond(proto = ETHERTYPE.IP)
          [] dlt = "IPV6" -> gen_uncond(proto = ETHERTYPE.IPV6)
          [] dlt = "LTALK" -> gen_uncond(proto = ETHERTYPE.ATALK)

PppType(proto) ==
    IF ll.linktype = "PPP_BSDOS" /\ proto = ETHERTYPE.IP
    THEN Or(Or(TypeIs(PPP.IP), TypeIs(PPP.VJC)), TypeIs(PPP.VJNC))
    ELSE TypeIs(ethertype_to_ppptype(proto))

\* LANE means Ethernet behind an ATM pseudo-header, else LLC.
SunAtmType(proto) ==
    IF ll.is_lane
    THEN And(Not(gen_cmp("LINK", 4, "H", 65280)), gen_ether_linktype(proto))
    ELSE And(gen_mcmp("LINK", ll.off_proto, "B", PT.LLC, 15), gen_llc_linktype(proto))

\* Ethernet and the links that carry LLC
LlcLinks == Ethernets \cup IEEE80211 \cup
            {"C_HDLC", "FDDI", "IEEE802", "ATM_RFC1483", "ATM_CLIP", "IP_OVER_FC"}
LlcType(proto) ==
    CASE ll.linktype \in Ethernets -> gen_ether_linktype(proto)
      [] ll.linktype = "C_HDLC" -> TypeIs(IF proto = LLCSAP.ISONS THEN Sap2(proto) ELSE proto)
      [] ll.linktype \in IEEE80211 -> And(gen_check_802_11_data_frame, gen_llc_linktype(proto))
      [] OTHER -> gen_llc_linktype(proto)

\* the test by link type, without MPLS and PPPoE
DltType(proto) ==
    LET dlt == ll.linktype
    IN  CASE dlt \in LlcLinks -> LlcType(proto)
          [] dlt = "SUNATM" -> SunAtmType(proto)
          [] dlt = "LINUX_SLL" -> gen_linux_sll_linktype(proto)
          [] dlt \in {"SLIP", "SLIP_BSDOS", "RAW", "IPV4", "IPV6", "LTALK"} -> RawType(proto)
          [] dlt \in {"PPP", "PPP_PPPD", "PPP_SERIAL", "PPP_ETHER", "PPP_BSDOS"} -> PppType(proto)
          [] dlt \in {"NULL", "LOOP", "ENC"} ->
                (CASE proto = ETHERTYPE.IP -> AfTest(AF.INET)
                   [] proto = ETHERTYPE.IPV6 -> AfTest(AF.INET6)
                   [] OTHER -> gen_false)
          [] dlt \in {"ARCNET", "ARCNET_LINUX"} -> ArcnetType(proto)
          [] dlt = "FRELAY" -> FrelayType(proto)
          [] dlt \in Juniper -> gen_mcmp("LINK", 0, "W", 1296515840, Not32(255))
          [] dlt = "BACNET_MS_TP" -> gen_mcmp("LINK", 0, "W", 1442775040, Not32(65535))
          [] dlt = "IPNET" -> gen_ipnet_linktype(proto)
          [] dlt \in {"MFR", "MTP2", "MTP2_WITH_PHDR", "ERF", "PFSYNC", "AX25_KISS"} -> Err
          [] OTHER -> IF ll.off_linktype # -1 THEN TypeIs(proto) ELSE Err

gen_linktype(proto) ==
    CASE ll.label_stack_depth > 0 ->
            (CASE proto \in {ETHERTYPE.IP, PPP.IP} -> gen_mpls_linktype(4)
               [] proto \in {ETHERTYPE.IPV6, PPP.IPV6} -> gen_mpls_linktype(6)
               [] OTHER -> Err)
      [] ll.label_stack_depth = 0 /\ ll.is_pppoes ->
            gen_cmp("MACPL", ll.off_linktype, "H", ethertype_to_ppptype(proto))
      [] ll.label_stack_depth = 0 /\ ~ll.is_pppoes -> DltType(proto)

----------------------------------------------------------------------------
(* The code in front of the program that computes the variable offsets *)

\* Prism, or AVS when the cookie says so: jumps inside a statement list
gen_load_prism_llprefixlen(r) ==
    <<LdAt("W", 0), AluK("AND", Word(65535, 61440)), Jump("JEQ", Word(32801, 4096), 0, 2),
      LdAt("W", 4), Ins(<<"JMP", "JA", "">>, 1), Ins(<<"LD", "W", "IMM">>, 144), StoreA(r), Tax>>
gen_load_avs_llprefixlen(r) == <<LdAt("W", 4), StoreA(r), Tax>>
\* the little-endian length at 2 of radiotap and PPI headers
gen_load_radiotap_llprefixlen(r) ==
    <<LdAt("B", 3), AluK("LSH", 8), Tax, LdAt("B", 2), Ins(<<"ALU", "OR", "X">>, 0),
      StoreA(r), Tax>>

PrefixCode ==
    IF reg.off_ll = -1 THEN <<>>
    ELSE CASE ll.linktype = "PRISM_HEADER" -> gen_load_prism_llprefixlen(reg.off_ll)
           [] ll.linktype = "IEEE802_11_RADIO_AVS" -> gen_load_avs_llprefixlen(reg.off_ll)
           [] ll.linktype \in {"IEEE802_11_RADIO", "PPI"} -> gen_load_radiotap_llprefixlen(reg.off_ll)
           [] OTHER -> <<>>

\* 24, 2 more with QoS, and the padding the radiotap flags announce; the
\* jumps to the end of the code go to the program's first own statement
gen_load_802_11_header_len(s) ==
    LET m == reg.off_macpl
        start == IF s = <<>> THEN <<Ins(<<"LDX", "W", "IMM">>, ll.off_ll)>> ELSE s
        qosAdd == <<Ins(<<"LD", "W", "MEM">>, m), AluK("ADD", 2), StoreA(m)>>
        pad == <<LdAt("W", 4), Jump("JSET", SWAPLONG(2), 0, 9), Jump("JSET", SWAPLONG(1), 0, 2),
                 LdAt("B", 16), Jump("JSET", 32, 2, 6), LdAt("B", 8), Jump("JSET", 32, 0, 4),
                 Ins(<<"LD", "W", "MEM">>, m), AluK("ADD", 3), AluK("AND", -4), StoreA(m)>>
        tail == IF ll.linktype = "IEEE802_11_RADIO" THEN pad ELSE <<>>
        n == Len(tail)
    IN  start \o <<Txa, AluK("ADD", 24), StoreA(m), LdFrom("B", 0),
                   Jump("JSET", 8, 0, 5 + n), Jump("JSET", 4, 4 + n, 0), Jump("JSET", 128, 0, 3)>>
              \o qosAdd \o tail

insert_compute_vloffsets ==
    IF ll.linktype \in IEEE80211 /\ reg.off_macpl # -1
    THEN gen_load_802_11_header_len(PrefixCode) ELSE PrefixCode

\* both functions set no_optimize
VloffsetsNotOptimizable ==
    \/ ll.linktype = "PRISM_HEADER"
    \/ ll.linktype \in IEEE80211 /\ reg.off_macpl # -1

\* PPI: the payload must be 802.11 (DLT 105, little-endian, at 4)
gen_ppi_dlt_check == Test(<<LdAt("W", 4)>>, <<"JMP", "JEQ", "K">>, SWAPLONG(105))
=============================================================================
