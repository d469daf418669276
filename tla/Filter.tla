------------------------------- MODULE Filter -------------------------------
(***************************************************************************)
(* A filter from its expression to its verdict: pcap_compile() with or     *)
(* without the optimizer, install_bpf_program(), and bpf_filter() on a     *)
(* frame.  A frame is a description (a packet) that Encode turns into the  *)
(* bytes of a link type; Denote gives what the expression says of the      *)
(* packet, from the description alone.                                     *)
(***************************************************************************)
EXTENDS Optimize

CONSTANTS
    Garbage,        \* what an unwritten word of scratch memory may hold
    Exprs,          \* expressions, each the sequence of its reductions
    Calls,          \* calls of pcap_compile: [dlt, expr, mask, savefile, snapshot, activated,
                    \* frames], with expr an index of Exprs and frames whether it has a meaning
    Packets,        \* descriptions of packets
    RawPrograms     \* programs that do not come from pcap_compile

VARIABLES call, pkt, prog, buf, wirelen, pc, A, X, mem, status, verdict

B == INSTANCE Bpf

ASSUME FilterAssumption == B!BpfAssumption

machine == <<prog, buf, wirelen, pc, A, X, mem, status, verdict>>
vars == <<compileVars, opt, call, pkt, machine>>

NoPacket == [net |-> "none"]

----------------------------------------------------------------------------
(* Frames *)

B16(n) == <<n \div 256, n % 256>>
B32(w) == B16(Hi(w)) \o B16(Lo(w))
Zeros(n) == [i \in 1..n |-> 0]

EtherOf == [ip |-> 2048, ip6 |-> 34525, arp |-> 2054]

\* ports and the bytes behind them
Transport(p) == B16(p.sport) \o B16(p.dport) \o p.data
Network(p) ==
    CASE p.net = "ip" ->
            <<64 + p.ihl, 0>> \o B16(4 * p.ihl + Len(Transport(p))) \o B16(0) \o B16(p.frag)
            \o <<64, p.proto>> \o B16(0) \o B32(p.src) \o B32(p.dst)
            \o Zeros(4 * (p.ihl - 5)) \o Transport(p)
      [] p.net = "ip6" ->
            <<96, 0, 0, 0>> \o B16(Len(Transport(p))) \o <<p.proto, 64>>
            \o Zeros(12) \o B32(p.src) \o Zeros(12) \o B32(p.dst) \o Transport(p)
      [] OTHER ->
            B16(1) \o B16(2048) \o <<6, 4, 0, 1>> \o Zeros(6) \o B32(p.src) \o Zeros(6) \o B32(p.dst)

Station == [to |-> <<1, 2, 3, 4, 5, 6>>, from |-> <<2, 2, 2, 2, 2, 2>>]
Tag(p) == IF p.vlan = -1 THEN <<>> ELSE B16(33024) \o B16(p.vlan)
Snap == <<170, 170, 3, 0, 0, 0>>

\* the link types that packets are sent on
Encoded == {"EN10MB", "LINUX_SLL", "RAW", "IEEE802_11_RADIO"}

Radiotap == <<0, 0, 8, 0, 0, 0, 0, 0>>

Encode(dlt, p) ==
    CASE dlt = "EN10MB" -> Station.to \o Station.from \o Tag(p) \o B16(EtherOf[p.net]) \o Network(p)
      [] dlt = "LINUX_SLL" -> Zeros(14) \o B16(EtherOf[p.net]) \o Network(p)
      [] dlt = "RAW" -> Network(p)
      [] OTHER ->  \* a radiotap header and a data frame, with or without QoS
            Radiotap \o (IF p.qos THEN <<136, 0>> ELSE <<8, 0>>) \o Zeros(2)
            \o Station.to \o Station.from \o Zeros(8) \o (IF p.qos THEN Zeros(2) ELSE <<>>)
            \o Snap \o B16(EtherOf[p.net]) \o Network(p)

Carries(dlt, p) ==
    /\ dlt \in Encoded
    /\ p.vlan # -1 => dlt = "EN10MB"
    /\ p.net = "arp" => dlt # "RAW"
    /\ p.qos => dlt = "IEEE802_11_RADIO"

----------------------------------------------------------------------------
(* What an expression says of a packet *)

ProtoOf == [ICMP |-> 1, TCP |-> 6, UDP |-> 17, SCTP |-> 132]

\* the network layer of p that a test sees: a tag is only looked behind
\* once the expression has said vlan
Net(p, untag) == IF (p.vlan # -1) = untag THEN p.net ELSE "other"
IsIp(p, u) == Net(p, u) = "ip"
IsProto(p, u, n) == Net(p, u) \in {"ip", "ip6"} /\ p.proto = n
Abbrev(p, u, name) ==
    CASE name = "IP" -> IsIp(p, u)
      [] name = "IPV6" -> Net(p, u) = "ip6"
      [] name = "ARP" -> Net(p, u) = "arp"
      [] name = "ICMP" -> IsIp(p, u) /\ p.proto = 1
      [] OTHER -> IsProto(p, u, ProtoOf[name])

\* which ends an id is compared with
Ends(dir, s, d) ==
    CASE dir = "SRC" -> s [] dir = "DST" -> d [] dir = "AND" -> s /\ d [] OTHER -> s \/ d

Ported == {6, 17, 132}
\* the ports are there in the first fragment only
HasPorts(p, u, proto) ==
    /\ Net(p, u) \in {"ip", "ip6"}
    /\ IsIp(p, u) => p.frag % 8192 = 0
    /\ IF proto \in DOMAIN ProtoOf THEN p.proto = ProtoOf[proto] ELSE p.proto \in Ported
PortIn(p, u, q, lo, hi) ==
    HasPorts(p, u, q.proto) /\ Ends(q.dir, p.sport \in lo..hi, p.dport \in lo..hi)

\* an IPv4 address or network, in IP and ARP headers
AddrIn(p, u, q, v, mask) ==
    /\ CASE q.proto = "IP" -> IsIp(p, u) [] q.proto = "ARP" -> Net(p, u) = "arp"
         [] OTHER -> Net(p, u) \in {"ip", "arp"}
    /\ Ends(q.dir, And32(p.src, mask) = v, And32(p.dst, mask) = v)

Mask(len) == IF len = 0 THEN 0 ELSE Shl32(-1, 32 - len)
Undefined == [def |-> FALSE, v |-> 0]
Defined(v) == [def |-> TRUE, v |-> v]

\* the frame from its link-layer header on
LinkLayer(dlt, p) ==
    IF dlt = "IEEE802_11_RADIO"
    THEN SubSeq(Encode(dlt, p), Len(Radiotap) + 1, Len(Encode(dlt, p))) ELSE Encode(dlt, p)

\* the size bytes at offset i of a header
Field(s, i, size) ==
    IF i < 0 \/ i + size > Len(s) THEN Undefined
    ELSE Defined(CASE size = 1 -> s[i + 1]
                   [] size = 2 -> 256 * s[i + 1] + s[i + 2]
                   [] OTHER -> Word(256 * s[i + 1] + s[i + 2], 256 * s[i + 3] + s[i + 4]))
Header(p, u, dlt, proto) ==
    CASE proto = "LINK" -> LinkLayer(dlt, p)
      [] proto = "IP" -> IF IsIp(p, u) THEN Network(p) ELSE <<>>
      [] OTHER -> IF IsIp(p, u) /\ HasPorts(p, u, proto) THEN Transport(p) ELSE <<>>

\* d is what the expression has said so far: its values and whether it is
\* behind a vlan
Meant(d, r, p, dlt, q) ==
    LET top == d.st[Len(d.st)].v
        under == d.st[Len(d.st) - 1].v
        u == d.untag
        put(n, v) == [d EXCEPT !.st = Append(SubSeq(@, 1, Len(@) - n), [v |-> v, q |-> q])]
        both(f) == IF top.def /\ under.def THEN Defined(f) ELSE Undefined
    IN  CASE r.r = "and" -> put(2, under /\ top)
          [] r.r = "or" -> put(2, under \/ top)
          [] r.r = "not" -> put(1, ~top)
          [] r.r = "paren" -> put(1, top)
          [] r.r = "pname" -> put(0, Abbrev(p, u, r.proto))
          [] r.r = "NUM" /\ q.addr = "PORT" -> put(0, PortIn(p, u, q, r.v, r.v))
          [] r.r = "NUM" /\ q.addr \in {"PROTO", "PROTOCHAIN"} ->
                put(0, CASE q.proto = "LINK" -> Net(p, u) # "other" /\ r.v = EtherOf[p.net]
                         [] q.proto = "IP" -> IsIp(p, u) /\ p.proto = r.v
                         [] OTHER -> IsProto(p, u, r.v))
          [] r.r = "ID" -> put(0, PortIn(p, u, q, r.name.port, r.name.port2))
          [] r.r = "HID" -> put(0, AddrIn(p, u, q, r.v, -1))
          [] r.r = "HIDNET" -> put(0, AddrIn(p, u, q, r.v, Mask(r.mask)))
          [] r.r = "HID6" -> put(0, Net(p, u) = "ip6" /\ Ends(q.dir, p.src = r.v[4], p.dst = r.v[4]))
          [] r.r = "EID" -> put(0, Ends(q.dir, Station.from = r.v, Station.to = r.v))
          [] r.r = "loadi" -> put(0, Defined(r.v))
          [] r.r = "len" -> put(0, Defined(Len(Encode(dlt, p))))
          [] r.r = "neg" -> put(1, IF top.def THEN Defined(Neg32(top.v)) ELSE Undefined)
          [] r.r = "arth" -> put(2, both(AluResult(r.code, under.v, top.v)))
          [] r.r = "load" ->
                put(1, IF top.def THEN Field(Header(p, u, dlt, r.proto), top.v, r.size) ELSE Undefined)
          [] r.r = "rel" ->
                put(2, top.def /\ under.def /\ (Holds(r.code, under.v, top.v) # r.reversed))
          [] r.what = "less" -> put(0, Len(Encode(dlt, p)) <= r.v)
          [] r.what = "greater" -> put(0, Len(Encode(dlt, p)) >= r.v)
          [] r.what = "byte" -> put(0, LinkLayer(dlt, p)[r.idx + 1] = r.v)
          [] r.what = "vlan" ->
                [put(0, p.vlan # -1 /\ r.v \in {-1, p.vlan}) EXCEPT !.untag = TRUE]
          [] OTHER -> put(0, FALSE)

\* the qualifier a reduction is made under, as in Qual
Under0(d, r) ==
    IF r.r \in {"NUM", "ID", "HID", "HIDNET", "HID6", "EID"} /\ r.q # Inherit THEN r.q
    ELSE IF d.st = <<>> THEN qerr ELSE d.st[Len(d.st)].q

Denote(dlt, expr, p) ==
    IF expr = <<>> THEN TRUE
    ELSE LET d == Seqs!FoldLeft(LAMBDA e, r : Meant(e, r, p, dlt, Under0(e, r)),
                                [st |-> <<>>, untag |-> FALSE], expr)
         IN  d.st[Len(d.st)].v

----------------------------------------------------------------------------
(* The life of a filter *)

NoCall == [dlt |-> "", expr |-> 0, mask |-> 0, savefile |-> FALSE, snapshot |-> 0,
           activated |-> FALSE, frames |-> FALSE]

Init ==
    /\ CompileInit /\ OptInit
    /\ call = NoCall /\ pkt = NoPacket
    /\ prog = <<>> /\ buf = <<>> /\ wirelen = 0 /\ pc = 1 /\ A = 0 /\ X = 0
    /\ mem = [i \in {} |-> 0] /\ status = "none" /\ verdict = 0

CallCompile(c, optimize) ==
    /\ pcap_compile([activated |-> c.activated, snapshot |-> c.snapshot, linktype |-> c.dlt,
                     savefile |-> c.savefile], Exprs[c.expr], optimize, c.mask)
    /\ call' = c
    /\ UNCHANGED <<opt, pkt, machine>>

Parse == (Reduce \/ finish_parse \/ icode_to_fcode) /\ UNCHANGED <<opt, call, pkt, machine>>
Optimizing == OptStep /\ UNCHANGED <<call, pkt, machine>>

\* pcap_setfilter on a handle that filters in userland: the program is
\* checked and installed, and applied to the next frame
install_bpf_program ==
    /\ phase = "done" /\ rc = 0 /\ status = "none" /\ call.frames
    /\ B!bpf_validate(fcode)
    /\ \E p \in Packets :
          /\ Carries(call.dlt, p)
          /\ pkt' = p
          /\ B!StartFilter(fcode, Encode(call.dlt, p), Len(Encode(call.dlt, p)))
    /\ UNCHANGED <<compileVars, opt, call>>

InstallRaw ==
    /\ phase = "idle" /\ status = "none"
    /\ \E r \in RawPrograms :
          IF B!bpf_validate(r.prog)
          THEN B!StartFilter(r.prog, r.buf, Len(r.buf))
          ELSE status' = "refused" /\ UNCHANGED <<prog, buf, wirelen, pc, A, X, mem, verdict>>
    /\ phase' = "done"
    /\ UNCHANGED <<pcap, args, todo, stack, no_optimize, blocks, root, rc, fcode, ll, reg>>
    /\ UNCHANGED <<opt, call, pkt>>

Execute == B!Execute /\ UNCHANGED <<compileVars, opt, call, pkt>>

Next ==
    \/ \E c \in Calls, optimize \in BOOLEAN : CallCompile(c, optimize)
    \/ Parse \/ Optimizing \/ install_bpf_program \/ InstallRaw \/ Execute

\* a call in progress; the absence of deadlock shows that it has a next step
Busy ==
    \/ phase \in {"parse", "optimize", "emit"}
    \/ phase = "done" /\ rc = 0 /\ status = "none" /\ call.frames /\ fcode # <<>>
    \/ status = "run"

Finished == phase # "idle" /\ ~Busy /\ UNCHANGED vars

\* The calls run in one thread to their end: weak fairness of Next while a
\* call is in progress.
Spec == Init /\ [][Next \/ Finished]_vars /\ (<>[]Busy => []<><<TRUE>>_vars)

----------------------------------------------------------------------------
(* Properties *)

Compiled == phase = "done" /\ rc = 0 /\ fcode # <<>>

\* A compiled filter passes exactly the packets its expression describes,
\* whether or not the optimizer rewrote it, on every link type packets are
\* sent on (gencode.c, optimize.c, bpf_filter.c).
VerdictIsMeaning ==
    status = "ret" /\ Compiled =>
        IF Denote(call.dlt, Exprs[call.expr], pkt) THEN verdict = pcap.snapshot ELSE verdict = 0

\* bpf_validate() accepts whatever pcap_compile() delivers: jumps stay within
\* the program after layout, memory words exist, no constant is divided by 0.
CompiledIsValid == Compiled => B!bpf_validate(fcode)

\* No compiled program reads a word of scratch memory that it has not
\* written, which the optimizer's removal of dead stores could bring about.
MemoryIsWritten ==
    status = "run" /\ Compiled /\ B!Cur.code[1] \in {"LD", "LDX"} /\ B!Cur.code[3] = "MEM"
        => B!Cur.k \in DOMAIN mem

\* The programs of pcap_compile() are safe to run: valid for bpf_validate(), and every word
\* they read was written, whatever the optimizer took away.
ProgramIsSafe == CompiledIsValid /\ MemoryIsWritten

\* opt_init()'s bound on the value numbers holds in every round: vmap[] and
\* the nodes are allocated once, for 3 numbers per statement.
ValueNumbersFit == phase = "optimize" /\ opt.step # "init" => Len(opt.vn) < opt.maxval

\* While an expression is parsed, two operands that are still to be used
\* never share a register, and none of them is one of the variable offsets'.
OperandsHaveOwnRegisters ==
    phase = "parse" =>
        LET arth == {i \in DOMAIN stack : "regno" \in DOMAIN stack[i]}
        IN  /\ \A i, j \in arth : i # j => stack[i].regno # stack[j].regno
            /\ \A i \in arth : /\ stack[i].regno \in reg.used
                               /\ stack[i].regno \notin {reg.off_ll, reg.off_macpl}

\* The compiler's tables of fixed size are enough: the value numbers of opt_init() and the
\* registers of alloc_reg().
TablesFit == ValueNumbersFit /\ OperandsHaveOwnRegisters

\* pcap_compile() comes to an end, the rounds of the optimizer included, and
\* so does the program on every frame.
FilterTerminates == Busy ~> ~Busy
=============================================================================
