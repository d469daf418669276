----------------------------- MODULE MCSavefile -----------------------------
(* Files for the checks of Savefile. *)
EXTENDS Savefile

Rec(id, sec, frac, caplen, len) ==
    [t |-> "REC", id |-> id, sec |-> sec, frac |-> frac, caplen |-> caplen, len |-> len,
     iso |-> FALSE, ndesc |-> 0, tlvs |-> <<>>]
Header(magic, minor, linktype, snaplen, rev) ==
    [magic |-> magic, major |-> 2, minor |-> minor, linktype |-> linktype, snaplen |-> snaplen, ext |-> 0, rev |-> rev]
SizeOf(hdr, units) ==
    FoldLeft(LAMBDA n, u : n + u.caplen + (IF hdr.magic = "kuznetzov" THEN 24 ELSE 16), 24, units)
Pcap(sw, hdr, units, less, precs, ops) ==
    [fmt |-> "pcap", swapped |-> sw, hdr |-> hdr, units |-> units, size |-> SizeOf(hdr, units) - less,
     precs |-> precs, ops |-> ops]

Both == {"MICRO", "NANO"}
All == Both \cup {"other"}
Two == <<Rec(1, 7, 5, 4, 6), Rec(2, 8, 0, 9, 9)>>
\* a packet larger than the snapshot length, one larger than any
Large == <<Rec(1, 7, 5, 12, 12), Rec(2, 8, 1, 101, 200)>>
Usb(iso, caplen) == [Rec(1, 1, 1, caplen, 110) EXCEPT !.iso = iso, !.ndesc = IF iso THEN 2 ELSE 0]
Nflog(tlvs, caplen, len) == [Rec(1, 1, 1, caplen, len) EXCEPT !.tlvs = tlvs]

\* byte orders, formats, versions and cut files
Plain == {Pcap(sw, Header(magic, minor, 1, 10, rev), Two, less, All, {}) :
            sw \in BOOLEAN, magic \in {"tcpdump", "kuznetzov", "nsec"}, minor \in {2, 3, 4}, rev \in BOOLEAN,
            less \in {0, 1, 9, 14, 26}}
MCPcap ==
    {x \in Plain : (x.hdr.minor = 2 => x.hdr.rev) /\ (x.hdr.minor = 4 => ~x.hdr.rev)}
    \cup {Pcap(FALSE, Header("tcpdump", 4, 1, 10, FALSE), <<>>, less, Both, {}) : less \in {0, 1, 21}}
    \cup {[Pcap(FALSE, Header("tcpdump", 4, 1, 10, FALSE), Two, 0, Both, {}) EXCEPT !.fmt = "other"],
          [Pcap(TRUE, Header("tcpdump", 4, 1, 10, FALSE), Two, 0, Both, {}) EXCEPT !.hdr.major = 1],
          [Pcap(TRUE, Header("tcpdump", 4, 1, 10, TRUE), Two, 0, Both, {}) EXCEPT !.hdr.major = 543]}
    \cup {Pcap(sw, Header(magic, 4, 1, snap, FALSE), Large, 0, Both, {"dump"}) :
            sw \in BOOLEAN, magic \in {"tcpdump", "nsec"}, snap \in {0, 10}}
    \cup {Pcap(TRUE, Header("tcpdump", 4, linktype, 200, FALSE), <<Usb(iso, caplen)>>, 0, {"MICRO"}, {"dump"}) :
            linktype \in {DLT_USB_LINUX, DLT_USB_LINUX_MMAPPED}, iso \in BOOLEAN,
            caplen \in {7, 13, 40, 46, 48, 62, 64, 77, 95, 100}}
    \cup {Pcap(TRUE, Header("tcpdump", 4, DLT_NFLOG, 200, FALSE), <<Nflog(tlvs, n, n + k)>>, 0, {"MICRO"}, {}) :
            tlvs \in {<<8, 6, 4>>, <<5, 10, 4>>}, n \in {3, 7, 8, 12, 14, 20, 24}, k \in {0, 4}}
    \* copies: link types whose numbers in files are others, breaks and filters
    \cup {Pcap(FALSE, Header("nsec", 4, linktype, 10, FALSE), Two, 0, Both, {"dump"}) : linktype \in {101, 12, 246, 300, 105}}
    \cup {Pcap(sw, Header("tcpdump", 4, 1, 10, FALSE), Append(Two, Rec(3, 9, 2, 4, 4)), 0, {"MICRO"},
               {"break", "filter"}) : sw \in BOOLEAN}

----------------------------------------------------------------------------

Room(t, opts) == 8 + FoldLeft(LAMBDA n, o : n + 4 + Pad(o.len), 0, opts)
Block(t, room) == [t |-> t, room |-> room, total |-> "right"]
IDB(linktype, opts) ==
    Block("IDB", Room("IDB", opts)) @@ [linktype |-> linktype, snaplen |-> 10, opts |-> opts]
Opt(code, len, bin, val) == [code |-> code, len |-> len, bin |-> bin, val |-> val]
Resol(bin, val) == Opt("TSRESOL", 1, bin, val)
End == Opt("ENDOFOPT", 0, FALSE, 0)
Packet(t, id, iface, ticks, caplen, len) ==
    Block(t, (IF t = "SPB" THEN 4 ELSE 20) + Pad(caplen))
    @@ [id |-> id, iface |-> iface, ticks |-> ticks, caplen |-> caplen, len |-> len,
        iso |-> FALSE, ndesc |-> 0, tlvs |-> <<>>]
SHB(order, major) == Block("SHB", 16) @@ [order |-> order, major |-> major]

NgSize(units) == FoldLeft(LAMBDA n, u : n + 12 + u.room, 28, units)
Ng(sw, units, less, precs, ops) ==
    [fmt |-> "ng", swapped |-> sw, hdr |-> [total |-> 28, major |-> 1], units |-> units,
     size |-> NgSize(units) - less, precs |-> precs, ops |-> ops]

Ethernet == IDB(1, <<>>)
Fine == IDB(1, <<Resol(FALSE, 3), Opt("TSOFFSET", 8, FALSE, 2), End>>)
Options == {<<Resol(FALSE, 1)>>, <<Opt("name", 5, FALSE, 0), Resol(TRUE, 3), End>>, <<Resol(FALSE, 9)>>,
            <<Resol(TRUE, 9)>>, <<Resol(FALSE, 3), Resol(FALSE, 3)>>, <<Opt("TSRESOL", 2, FALSE, 1)>>,
            <<Opt("TSOFFSET", 4, FALSE, 1)>>, <<Opt("TSOFFSET", 8, FALSE, 1), Opt("TSOFFSET", 8, FALSE, 1)>>,
            <<Opt("ENDOFOPT", 4, FALSE, 0)>>, <<End, Resol(FALSE, 3)>>}
Blocks ==
    {Ethernet, Fine, IDB(101, <<>>), SHB("same", 1), Packet("EPB", 1, 0, 100, 6, 9), Packet("EPB", 2, 1, 300, 12, 12),
     Packet("SPB", 3, 0, 0, 10, 13), Packet("PB", 4, 0, 50, 3, 3), Block("other", 4)}
Broken ==
    {SHB("other", 1), SHB("same", 2), [SHB("same", 1) EXCEPT !.room = 12], [Ethernet EXCEPT !.room = 4],
     [Fine EXCEPT !.room = 18], [Packet("EPB", 1, 0, 1, 6, 9) EXCEPT !.room = 24], [Packet("PB", 1, 0, 1, 6, 9) EXCEPT !.room = 16],
     [Block("other", 4) EXCEPT !.total = "big"], [Block("other", 4) EXCEPT !.total = "tiny"], [Ethernet EXCEPT !.snaplen = 11]}

MCNg ==
    \* every two and some three blocks after an interface; its first one after others
    {Ng(sw, <<Ethernet>> \o s, 0, Both, {}) : sw \in BOOLEAN, s \in [1 .. 2 -> Blocks]}
    \cup {Ng(TRUE, <<Ethernet, b, c, d>>, 0, {"MICRO"}, {}) :
            b \in {Ethernet, Fine, SHB("same", 1)}, c \in Blocks, d \in Blocks}
    \cup {Ng(TRUE, <<b, Fine, Packet("EPB", 1, 0, 100, 6, 9)>>, less, All, {}) : b \in Blocks \cup Broken, less \in {0, 5, 37}}
    \cup {Ng(TRUE, <<Ethernet, b, Packet("EPB", 1, 0, 100, 6, 9), Packet("EPB", 2, 1, 40, 3, 3)>>, 0, Both, {}) : b \in Broken}
    \cup {Ng(sw, <<Ethernet, IDB(1, o), Packet("EPB", 1, 1, 100, 6, 9)>>, 0, Both, {}) : sw \in BOOLEAN, o \in Options}
    \cup {Ng(sw, <<IDB(1, o), Packet("EPB", 1, 0, 100, 6, 9)>>, less, Both, {"dump"}) :
            sw \in BOOLEAN, o \in Options, less \in {0, 7, 45}}
    \* blocks larger than the buffer
    \cup {Ng(FALSE, <<Ethernet, Packet("EPB", 1, 0, 9, 70, 70), Ethernet, Packet("EPB", 2, 1, 9, 6, 6)>>, less,
             {"MICRO"}, {"dump", "break", "filter"}) : less \in {0, 3, 25, 40}}
    \cup {Ng(FALSE, <<Block("other", 80), Ethernet>>, 0, {"MICRO"}, {})}
    \cup {[Ng(FALSE, <<Ethernet>>, 0, {"MICRO"}, {}) EXCEPT !.hdr.major = 2, !.size = 40],
          [Ng(FALSE, <<Ethernet>>, 0, {"MICRO"}, {}) EXCEPT !.hdr.total = 20], Ng(TRUE, <<>>, 20, {"MICRO"}, {})}

MCFiles == MCPcap \cup MCNg
=============================================================================
