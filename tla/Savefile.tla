------------------------------ MODULE Savefile ------------------------------
(***************************************************************************)
(* Capture files: a program opens one, of the pcap or of the pcapng        *)
(* format and of either byte order, reads its packets and writes them to a *)
(* copy, may die on the way, and reads the copy (jni/pcap/savefile.c,      *)
(* sf-pcap.c, sf-pcap-ng.c, pcap-common.c).                                *)
(*                                                                         *)
(* A file is [fmt, swapped, hdr, units, size]: its units are the records   *)
(* of a pcap file or the blocks of a pcapng file, of which the first size  *)
(* bytes are there.  A unit holds the values that its writer meant; the    *)
(* bytes in the file are Raw() of them.  Resolutions, lengths and times    *)
(* are small numbers: Ten stands for 10, Micro and Nano for 10^6 and 10^9, *)
(* Width for the 32 bits of a number.                                      *)
(***************************************************************************)
EXTENDS Integers, Sequences, FiniteSets, SequencesExt

CONSTANTS
    Files,             \* the files there are to read
    Ten, Micro, Nano, Width,
    Big,               \* SWAPLONG() maps x to Big - x
    MAXIMUM_SNAPLEN,
    MaxBlock,          \* 16 MB: no block is larger
    Counts,            \* the cnt arguments
    MaxCalls, MaxFaults

ASSUME SavefileAssumption ==
    /\ Ten \in Nat \ {0} /\ Micro \in Nat \ {0} /\ Nano % Micro = 0 /\ 2 ^ Width > Nano
    /\ MaxCalls \in Nat /\ MaxFaults \in Nat /\ Counts \subseteq Int

VARIABLES
    f,      \* the file that is read
    h,      \* the handle: pcap_t with pcap_sf or pcap_ng_sf
    call,   \* the call that is under way
    mem,    \* what the program has allocated
    out,    \* the copy
    last,   \* the packet handed over last
    hist,   \* [tried, calls, got, err, end]: calls made for this file, packets handed over,
            \* an error was returned, the end of the file was
    used    \* [faults, phase]; phase 2 is about the copy

vars == <<f, h, call, mem, out, last, hist, used>>

Fault == used.faults < MaxFaults /\ used' = [used EXCEPT !.faults = @ + 1]
Works == UNCHANGED used
Minimum(a, b) == IF a < b THEN a ELSE b
Pad(n) == ((n + 3) \div 4) * 4

Closed ==
    [open |-> FALSE, swapped |-> FALSE, linktype |-> 0, ext |-> 0, snapshot |-> 0, bufsize |-> 0,
     scale |-> "PASS_THROUGH", lengths |-> "NOT_SWAPPED", hdrsize |-> 16, prec |-> "MICRO",
     ifaces |-> <<>>, ifcount |-> 0, fcode |-> "none", break_loop |-> FALSE, since |-> 0,
     i |-> 1, pos |-> 0, lost |-> FALSE]
Idle == [op |-> "none", at |-> "idle", max |-> 0, n |-> 0]
NoCopy == [at |-> "none", hdr |-> <<>>, units |-> <<>>, disk |-> 0, flushed |-> 0, full |-> FALSE, linktype |-> 0, prec |-> "MICRO"]
NoHistory == [tried |-> FALSE, calls |-> 0, got |-> <<>>, err |-> FALSE, end |-> FALSE]
NoPacket == [ok |-> TRUE, described |-> TRUE, same |-> TRUE]

Init ==
    /\ f \in Files /\ h = Closed /\ call = Idle /\ mem = {} /\ out = NoCopy /\ last = NoPacket
    /\ hist = NoHistory /\ used = [faults |-> 0, phase |-> 1]

----------------------------------------------------------------------------
(* Bytes and numbers *)

SWAPLONG(x) == Big - x
Raw(x) == IF f.swapped THEN SWAPLONG(x) ELSE x
\* a number of the file as the handle reads it
Number(sw, x) == IF sw THEN SWAPLONG(Raw(x)) ELSE Raw(x)

Left(x) == f.size - x.pos

\* <<dlt, linktype>>
map == {<<n, n>> : n \in 0 .. 10 \cup {50, 51, 99, 104, 107}}
       \cup {<<11, 100>>, <<12, 101>>, <<15, 102>>, <<16, 103>>, <<19, 106>>}
Matching == 104 .. 260
DLT_PFSYNC == 18
LINKTYPE_PFSYNC == 246
Second(m) == m[2]

dlt_to_linktype(d) ==
    CASE d = DLT_PFSYNC -> LINKTYPE_PFSYNC
      [] d \in Matching -> d
      [] \E m \in map : m[1] = d -> Second(CHOOSE m \in map : m[1] = d)
      [] OTHER -> -1

linktype_to_dlt(t) ==
    CASE t = LINKTYPE_PFSYNC -> DLT_PFSYNC
      [] t \in Matching /\ t # LINKTYPE_PFSYNC -> t
      [] t \notin Matching /\ (\E m \in map : m[2] = t) -> (CHOOSE m \in map : m[2] = t)[1]
      [] OTHER -> t

----------------------------------------------------------------------------
(* Headers that the kernel put in front of a packet in the byte order of   *)
(* the machine: their numbers as <<offset, bytes to be there, value>>.     *)

DLT_USB_LINUX == 189
DLT_USB_LINUX_MMAPPED == 220
DLT_NFLOG == 239
DLT_EN10MB == 1

Descriptors(at, n) == {<<at + 16 * i + k, 4, i + k + 1>> : i \in 0 .. n - 1, k \in {0, 4, 8}}
usb_header(u, long) ==
    {<<0, 8, 5>>, <<12, 2, 6>>, <<16, 8, 7>>} \cup {<<k, 4, k>> : k \in {24, 28, 32, 36}}
    \cup (IF u.iso THEN {<<40, 4, 9>>, <<44, 4, u.ndesc>>} ELSE {})
    \cup (IF long THEN {<<k, 4, k>> : k \in {48, 52, 56, 60}} ELSE {})
    \cup (IF u.iso THEN Descriptors(IF long THEN 64 ELSE 48, u.ndesc) ELSE {})
nflog_header(u) ==
    LET at[i \in 1 .. Len(u.tlvs)] == IF i = 1 THEN 4 ELSE at[i - 1] + Pad(u.tlvs[i - 1])
    IN  UNION {{<<at[i], 4, u.tlvs[i]>>, <<at[i] + 2, 2, i>>} : i \in DOMAIN u.tlvs}

Numbers(linktype, u, caplen) ==
    LET all == CASE linktype \in {DLT_USB_LINUX, DLT_USB_LINUX_MMAPPED} ->
                      usb_header(u, linktype = DLT_USB_LINUX_MMAPPED)
                 [] linktype = DLT_NFLOG -> nflog_header(u)
                 [] OTHER -> {}
    IN  {x \in all : x[1] + x[2] <= caplen}

\* <<offset, bytes to be there>> of what is swapped; caplen ends it wherever it falls
swap_linux_usb_header(caplen, iso, numdesc, long) ==
    LET offset == IF long THEN 64 ELSE 48
    IN  {x \in {<<0, 8>>, <<12, 2>>, <<16, 8>>, <<24, 4>>, <<28, 4>>, <<32, 4>>, <<36, 4>>}
               \cup (IF iso THEN {<<40, 4>>, <<44, 4>>} ELSE {})
               \cup (IF long THEN {<<48, 4>>, <<52, 4>>, <<56, 4>>, <<60, 4>>} ELSE {})
               \cup (IF iso THEN {<<offset + 16 * i + k, 4>> : i \in 0 .. numdesc - 1, k \in {0, 4, 8}}
                     ELSE {}) : x[1] + x[2] <= caplen}

swap_nflog_header(caplen, len, tlvs) ==
    LET size(i) == Pad(tlvs[i])
        \* where the loop meets a header, -1 once it has returned
        at[i \in 1 .. Len(tlvs)] ==
            LET o == IF i = 1 THEN 4 ELSE at[i - 1] + size(i - 1)
                goes == IF i = 1 THEN caplen >= 4 /\ len >= 4
                        ELSE at[i - 1] >= 0 /\ size(i - 1) >= 4 /\ Minimum(caplen, len) >= o
            IN  IF goes /\ caplen - o >= 4 THEN o ELSE -1
    IN  UNION {{<<at[i], 4>>, <<at[i] + 2, 2>>} : i \in {j \in DOMAIN tlvs : at[j] >= 0}}

swap_pseudo_headers(linktype, u, caplen, len) ==
    CASE linktype = DLT_USB_LINUX -> swap_linux_usb_header(caplen, u.iso, u.ndesc, FALSE)
      [] linktype = DLT_USB_LINUX_MMAPPED -> swap_linux_usb_header(caplen, u.iso, u.ndesc, TRUE)
      [] linktype = DLT_NFLOG -> swap_nflog_header(caplen, len, u.tlvs)
      [] OTHER -> {}

\* the numbers of the packet in the buffer, and what was spoilt next to them
Buffered(u, caplen, len) ==
    LET numbers == Numbers(h.linktype, u, caplen)
        swaps == IF h.swapped THEN swap_pseudo_headers(h.linktype, u, caplen, len) ELSE {}
    IN  [numbers |-> {<<x[1], x[2], IF <<x[1], x[2]>> \in swaps THEN SWAPLONG(Raw(x[3])) ELSE Raw(x[3])>>
                         : x \in numbers},
         spoilt |-> swaps \ {<<x[1], x[2]>> : x \in numbers}]

----------------------------------------------------------------------------
(* What the file says, for the properties *)

Power(b, n) == b ^ n
Exact(o) == IF o.bin THEN Power(2, o.val) ELSE Power(Ten, o.val)
Meant(opts) ==
    LET n == CHOOSE k \in 0 .. Len(opts) : /\ \A j \in 1 .. k : opts[j].code # "ENDOFOPT"
                                           /\ k < Len(opts) => opts[k + 1].code = "ENDOFOPT"
    IN  SubSeq(opts, 1, n)
Option(idb, code) == SelectSeq(Meant(idb.opts), LAMBDA o : o.code = code)
Resolution(idb) == IF Option(idb, "TSRESOL") = <<>> THEN Micro ELSE Exact(Option(idb, "TSRESOL")[1])
Offset(idb) == IF Option(idb, "TSOFFSET") = <<>> THEN 0 ELSE Option(idb, "TSOFFSET")[1].val

\* the interfaces of the section of the n-th block
Interfaces(n) ==
    LET before == SubSeq(f.units, 1, n - 1)
        sections == {j \in DOMAIN before : before[j].t = "SHB"}
        start == IF sections = {} THEN 0 ELSE CHOOSE j \in sections : \A k \in sections : k <= j
    IN  SelectSeq(SubSeq(before, start + 1, n - 1), LAMBDA u : u.t = "IDB")

IsPacket(u) == u.t \in {"REC", "EPB", "SPB", "PB"}
Accepts(fcode, u) == fcode = "none" \/ u.id % 2 = 1
Ids(s) == [k \in DOMAIN s |-> s[k].id]
Expected(n, fcode) == Ids(SelectSeq(SubSeq(f.units, 1, n), LAMBDA u : IsPacket(u) /\ Accepts(fcode, u)))

----------------------------------------------------------------------------
(* Opening *)

UserResolution(prec) == IF prec = "NANO" THEN Nano ELSE Micro
PCAP_VERSION_MAJOR == 2

Fail == call' = Idle /\ h' = Closed
\* pcap_open_offline_common(): the name of the source is freed by pcap_close() only
Opening == {"p", "source", "file"}
Failed(m) == m \ {"p", "file"}

Scale(magic, prec) ==
    CASE magic = "nsec" /\ prec = "MICRO" -> "SCALE_DOWN"
      [] magic # "nsec" /\ prec = "NANO" -> "SCALE_UP"
      [] OTHER -> "PASS_THROUGH"

Lengths(major, minor) ==
    CASE (major = 2 /\ minor < 3) \/ major = 543 -> "SWAPPED"
      [] major = 2 /\ minor = 3 -> "MAYBE_SWAPPED"
      [] OTHER -> "NOT_SWAPPED"

\* a magic number that is not ours in one byte order is looked at in the other
PcapHandle(prec) ==
    LET sw == f.swapped
        dlt == linktype_to_dlt(Number(sw, f.hdr.linktype))
        snap == Number(sw, f.hdr.snaplen) + (IF f.hdr.magic = "kuznetzov" /\ dlt = DLT_EN10MB THEN 14 ELSE 0)
    IN  [Closed EXCEPT !.open = TRUE, !.swapped = sw, !.linktype = dlt, !.ext = f.hdr.ext,
            !.snapshot = snap, !.bufsize = IF snap <= 0 THEN MAXIMUM_SNAPLEN ELSE snap,
            !.scale = Scale(f.hdr.magic, prec), !.lengths = Lengths(f.hdr.major, Number(sw, f.hdr.minor)),
            !.hdrsize = IF f.hdr.magic = "kuznetzov" THEN 24 ELSE 16, !.prec = prec, !.pos = 24]

\* pcap_check_header()
OpenPcap(prec) ==
    \/ /\ (f.size < 24 \/ f.hdr.major < PCAP_VERSION_MAJOR) /\ Fail /\ Works /\ UNCHANGED mem
    \/ /\ f.size >= 24 /\ f.hdr.major >= PCAP_VERSION_MAJOR
       /\ \/ Fault /\ Fail /\ UNCHANGED mem
          \/ Works /\ prec = "other" /\ Fail /\ mem' = mem \cup Failed(Opening)
          \/ Fault /\ prec # "other" /\ Fail /\ mem' = mem \cup Failed(Opening)
          \/ /\ Works /\ prec # "other" /\ h' = PcapHandle(prec) /\ call' = Idle
             /\ mem' = mem \cup Opening \cup {"buffer"}

\* pcap_ng_check_header() up to the section header: 12 bytes tell the byte order
OpenNg(prec) ==
    LET sw == f.swapped
        total == Number(sw, f.hdr.total)
        short == f.size < 12 \/ total < 28
    IN  \/ short /\ Fail /\ Works /\ UNCHANGED mem
        \/ /\ ~short
           /\ \/ Fault /\ Fail /\ UNCHANGED mem
              \/ Works /\ prec = "other" /\ Fail /\ mem' = mem \cup Failed(Opening)
              \/ Fault /\ prec # "other" /\ Fail /\ mem' = mem \cup Failed(Opening)
              \/ /\ Works /\ prec # "other" /\ (f.size < total \/ f.hdr.major # 1)
                 /\ Fail /\ mem' = mem \cup Failed(Opening)
              \/ /\ Works /\ prec # "other" /\ f.size >= total /\ f.hdr.major = 1
                 /\ h' = [Closed EXCEPT !.swapped = sw, !.prec = prec, !.pos = total,
                                        !.bufsize = IF total > 64 THEN total ELSE 64]
                 /\ call' = [Idle EXCEPT !.op = "open", !.at = "block"]
                 /\ mem' = mem \cup Opening \cup {"buffer"}

\* pcap_open_offline_with_tstamp_precision(); the formats are tried in turn
pcap_open_offline ==
    /\ call.at = "idle" /\ ~hist.tried
    /\ \E prec \in f.precs :
          \/ (f.size < 4 \/ f.fmt = "other") /\ Fail /\ Works /\ UNCHANGED mem
          \/ f.size >= 4 /\ f.fmt = "pcap" /\ OpenPcap(prec)
          \/ f.size >= 4 /\ f.fmt = "ng" /\ OpenNg(prec)
    /\ hist' = [hist EXCEPT !.tried = TRUE] /\ UNCHANGED <<f, out, last>>

----------------------------------------------------------------------------
(* Blocks of a pcapng file *)

Unit == f.units[h.i]
Total == CASE Unit.total = "big" -> MaxBlock + 1 [] Unit.total = "tiny" -> 8 [] OTHER -> 12 + Unit.room
BadTotal == Total > MaxBlock \/ Total < 12

\* read_block()
BlockEnd == Left(h) = 0
BlockBroken == Left(h) > 0 /\ (Left(h) < 8 \/ BadTotal \/ Left(h) < Total)
BlockThere == Left(h) >= 8 /\ ~BadTotal /\ Left(h) >= Total
\* without memory for a larger buffer the old one is lost
Reallocates == Left(h) >= 8 /\ ~BadTotal /\ h.bufsize < Total
Orphaned(m, x) == IF x \in m THEN (m \ {x}) \cup {"orphan"} ELSE m

NextBlock(x) == [x EXCEPT !.i = @ + 1, !.pos = @ + Total]

Junk == [res |-> 0, off |-> 0, scale |-> "junk"]
Grown(s) == IF s = <<>> THEN <<Junk>> ELSE s \o [k \in DOMAIN s |-> Junk]

\* 1 << exp, where the machine decides once exp is out of range, and 10 * .. * 10
TsResol(o, build) ==
    IF o.bin THEN (IF o.val < Width THEN 2 ^ o.val ELSE IF build = "zero" THEN 0 ELSE 2 ^ (o.val % Width))
    ELSE Power(Ten, o.val) % (2 ^ Width)

ParseOption(acc, o, build) ==
    LET left == acc.left - 4 - Pad(o.len)
        bad == [acc EXCEPT !.ok = FALSE, !.done = TRUE]
        next == [acc EXCEPT !.left = left]
        res == TsResol(o, build)
    IN  CASE acc.done \/ acc.left = 0 -> acc
          [] ~acc.done /\ acc.left # 0 /\ left < 0 -> bad
          [] ~acc.done /\ acc.left # 0 /\ left >= 0 ->
               (CASE o.code = "ENDOFOPT" -> IF o.len # 0 THEN bad ELSE [next EXCEPT !.done = TRUE]
                  [] o.code = "TSRESOL" ->
                       IF o.len # 1 \/ acc.res >= 0 \/ res = 0 THEN bad ELSE [next EXCEPT !.res = res]
                  [] o.code = "TSOFFSET" ->
                       IF o.len # 8 \/ acc.sawoff THEN bad
                       ELSE [next EXCEPT !.off = Number(h.swapped, o.val), !.sawoff = TRUE]
                  [] OTHER -> next)

process_idb_options(u, build) ==
    FoldLeft(LAMBDA acc, o : ParseOption(acc, o, build),
             [ok |-> TRUE, done |-> FALSE, left |-> u.room - 8, res |-> -1, off |-> 0, sawoff |-> FALSE],
             u.opts)

\* the count goes up first; the interface is there when its options make sense
add_interface(x, u, o) ==
    LET n == x.ifcount + 1
        ifaces == IF n > Len(x.ifaces) THEN Grown(x.ifaces) ELSE x.ifaces
        res == IF o.res < 0 THEN Micro ELSE o.res
    IN  [x EXCEPT !.ifcount = n,
            !.ifaces = IF ~o.ok THEN ifaces
                       ELSE [ifaces EXCEPT ![n] = [res |-> res, off |-> o.off,
                               scale |-> IF res = UserResolution(x.prec) THEN "PASS_THROUGH" ELSE "SCALE"]]]

NgFail(m) == Fail /\ mem' = m \ {"p", "file", "buffer", "ifaces"}

\* pcap_ng_check_header(): the blocks up to the first interface
OpenBlock ==
    /\ call.op = "open" /\ UNCHANGED <<f, out, last, hist>>
    /\ \/ (BlockEnd \/ BlockBroken) /\ NgFail(mem) /\ Works
       \/ Reallocates /\ NgFail(Orphaned(mem, "buffer")) /\ Fault
       \/ /\ BlockThere /\ (IsPacket(Unit) \/ (Unit.t = "IDB" /\ Unit.room < 8)) /\ NgFail(mem) /\ Works
       \* no memory for the interface
       \/ BlockThere /\ Unit.t = "IDB" /\ Unit.room >= 8 /\ NgFail(mem) /\ Fault
       \/ /\ BlockThere /\ Unit.t = "IDB" /\ Unit.room >= 8 /\ Works
          /\ \E build \in {"zero", "wrap"} :
                LET o == process_idb_options(Unit, build)
                IN  IF ~o.ok THEN NgFail(mem \cup {"ifaces"})
                    ELSE /\ h' = [NextBlock(add_interface(h, Unit, o)) EXCEPT !.open = TRUE,
                                     !.snapshot = Number(h.swapped, Unit.snaplen),
                                     !.linktype = linktype_to_dlt(Number(h.swapped, Unit.linktype))]
                         /\ mem' = mem \cup {"ifaces"} /\ call' = Idle
       \/ /\ BlockThere /\ ~IsPacket(Unit) /\ Unit.t # "IDB" /\ Works
          /\ h' = NextBlock(h) /\ UNCHANGED <<call, mem>>

----------------------------------------------------------------------------
(* Reading *)

Begin(op, max) ==
    /\ call.at = "idle" /\ h.open /\ ~h.lost /\ hist.calls < MaxCalls
    /\ hist' = [hist EXCEPT !.calls = @ + 1, !.end = FALSE]
    /\ call' = [op |-> op, at |-> "check", max |-> max, n |-> 0]
    /\ UNCHANGED <<f, h, mem, out, last, used>>

pcap_dispatch == \E n \in Counts : Begin("dispatch", n)
pcap_next_ex == Begin("next", 1)
pcap_loop == \E n \in Counts : Begin("loop", n)

\* pcap_offline_read() returns n; pcap_loop() goes on while packets come and are wanted
Return(n) ==
    LET left == call.max - n
    IN  call' = IF call.op = "loop" /\ n > 0 /\ (call.max <= 0 \/ left > 0)
                THEN [call EXCEPT !.at = "check", !.n = 0, !.max = IF @ > 0 THEN left ELSE @] ELSE Idle

\* the end of the file counts as no packets, whatever came before
Eof == Return(0) /\ hist' = [hist EXCEPT !.end = TRUE]
Error == Return(-1) /\ hist' = [hist EXCEPT !.err = TRUE]
Lost == h' = [h EXCEPT !.lost = TRUE]

BreakSeen == h.break_loop

Check ==
    /\ call.at = "check" /\ UNCHANGED <<f, mem, out, last, hist, used>>
    /\ \/ /\ BreakSeen /\ call.n = 0 /\ Return(-2) /\ h' = [h EXCEPT !.break_loop = FALSE, !.since = 0]
       \/ BreakSeen /\ call.n > 0 /\ Return(call.n) /\ UNCHANGED h
       \/ ~BreakSeen /\ call' = [call EXCEPT !.at = "next"] /\ UNCHANGED h

\* the filter and the callback, which writes the packet to the copy if there is one
HandOver_AfterBreak(x, pk, l) ==
    IF x.break_loop THEN Return(call.n) /\ h' = x /\ UNCHANGED <<out, last, hist>>
    ELSE /\ h' = x /\ last' = l /\ hist' = [hist EXCEPT !.got = Append(@, pk.id)]
         /\ call' = [call EXCEPT !.n = @ + 1, !.at = "check"] /\ UNCHANGED out
HandOver(x, pk, l) ==
    IF ~Accepts(x.fcode, pk)
    THEN call' = [call EXCEPT !.at = "check"] /\ h' = x /\ UNCHANGED <<out, last, hist>>
    ELSE /\ h' = [x EXCEPT !.since = IF x.break_loop THEN @ + 1 ELSE 0]
         /\ last' = l /\ hist' = [hist EXCEPT !.got = Append(@, pk.id)]
         \* pcap_dump()
         /\ out' = IF out.at = "open" /\ used.phase = 1 THEN [out EXCEPT !.units = Append(@, pk)] ELSE out
         /\ IF call.n + 1 >= call.max /\ call.max > 0 THEN Return(call.n + 1)
            ELSE call' = [call EXCEPT !.n = @ + 1, !.at = "check"]

Record(u, sec, frac, caplen, len) ==
    [t |-> "REC", id |-> u.id, sec |-> sec, frac |-> frac, caplen |-> caplen, len |-> len,
     iso |-> u.iso, ndesc |-> u.ndesc, tlvs |-> u.tlvs]

\* how the packet compares with what the file says, and a packet of the copy with the original
Seen(u, pk, sec, frac, caplen, described, exact, known) ==
    LET b == Buffered(u, pk.caplen, pk.len)
        k == Len(hist.got) + 1
    IN  [ok |-> /\ pk.len = u.len /\ pk.caplen = caplen /\ (known => pk.sec = sec) /\ (exact => pk.frac = frac)
                /\ b.numbers = Numbers(h.linktype, u, caplen) /\ b.spoilt = {},
         described |-> described \/ hist.err,
         same |-> used.phase = 2 =>
                    /\ h.linktype = out.linktype /\ k <= Len(out.units)
                    /\ pk = [out.units[k] EXCEPT !.caplen = Minimum(@, h.bufsize)]]

\* pcap_next_packet(): the lengths of the record
RecordLengths_Guess(stored, x) == IF x = "NOT_SWAPPED" THEN stored ELSE <<stored[2], stored[1]>>
RecordLengths(stored, x) ==
    IF x = "SWAPPED" \/ (x = "MAYBE_SWAPPED" /\ stored[1] > stored[2]) THEN <<stored[2], stored[1]>> ELSE stored
\* an old writer put the length first
Stored(u) == IF f.hdr.rev THEN <<u.len, u.caplen>> ELSE <<u.caplen, u.len>>

ScaledFrac(scale, x) ==
    CASE scale = "SCALE_UP" -> x * (Nano \div Micro) [] scale = "SCALE_DOWN" -> x \div (Nano \div Micro) [] OTHER -> x

NextPacket ==
    /\ call.at = "next" /\ f.fmt = "pcap" /\ UNCHANGED <<f, mem>>
    /\ \/ Left(h) = 0 /\ Eof /\ Works /\ UNCHANGED <<h, out, last>>
       \/ Left(h) \in 1 .. h.hdrsize - 1 /\ Error /\ Works /\ h' = [h EXCEPT !.pos = f.size] /\ UNCHANGED <<out, last>>
       \/ /\ Left(h) >= h.hdrsize
          /\ LET u == Unit
                 st == Stored(u)
                 ls == RecordLengths(<<Number(h.swapped, st[1]), Number(h.swapped, st[2])>>, h.lengths)
                 user == UserResolution(h.prec)
                 res == IF f.hdr.magic = "nsec" THEN Nano ELSE Micro
                 pk == Record(u, Number(h.swapped, u.sec), ScaledFrac(h.scale, Number(h.swapped, u.frac)),
                              Minimum(ls[1], h.bufsize), ls[2])
                 after == [h EXCEPT !.i = @ + 1, !.pos = @ + h.hdrsize + ls[1]]
             IN  \/ ls[1] > h.bufsize /\ ls[1] > MAXIMUM_SNAPLEN /\ Error /\ Works /\ Lost /\ UNCHANGED <<out, last>>
                 \* fread() fails, or malloc() for a packet that is larger than the buffer
                 \/ Error /\ Fault /\ Lost /\ UNCHANGED <<out, last>>
                 \/ /\ ls[1] <= h.bufsize \/ ls[1] <= MAXIMUM_SNAPLEN
                    /\ Left(h) < h.hdrsize + ls[1]
                    /\ Error /\ Works /\ h' = [h EXCEPT !.pos = f.size] /\ UNCHANGED <<out, last>>
                 \/ /\ ls[1] <= h.bufsize \/ ls[1] <= MAXIMUM_SNAPLEN
                    /\ Left(h) >= h.hdrsize + ls[1] /\ Works
                    /\ HandOver(after, pk, Seen(u, pk, u.sec, (u.frac * user) \div res, Minimum(u.caplen, h.bufsize),
                                                TRUE, TRUE, TRUE))

\* pcap_ng_next_packet(): the head of a packet block
HeadSize(u) == IF u.t = "SPB" THEN 4 ELSE 20
CapLen(u) ==
    IF u.t = "SPB" THEN Minimum(Number(h.swapped, u.len), h.snapshot) ELSE Number(h.swapped, u.caplen)
InterfaceId(u) == IF u.t = "SPB" THEN 0 ELSE Number(h.swapped, u.iface)
Ticks(u) == IF u.t = "SPB" THEN 0 ELSE Number(h.swapped, u.ticks)

BadPacket(u) ==
    u.room < HeadSize(u) \/ InterfaceId(u) >= h.ifcount \/ u.room - HeadSize(u) < CapLen(u)

\* the time; an interface without a description may have any resolution
Seconds(t, if) == IF if.res = 0 THEN 0 ELSE t \div if.res + if.off
Fraction(t, if) ==
    IF if.res = 0 THEN 0
    ELSE IF if.scale = "SCALE" THEN ((t % if.res) * if.res) \div UserResolution(h.prec)
    ELSE t % if.res

NgPacket(u) ==
    LET if == h.ifaces[InterfaceId(u) + 1]
        t == Ticks(u)
        pk == Record(u, Seconds(t, if), Fraction(t, if), CapLen(u), Number(h.swapped, u.len))
        there == Interfaces(h.i)
        described == InterfaceId(u) < Len(there)
        idb == there[InterfaceId(u) + 1]
        res == Resolution(idb)
        ticks == IF u.t = "SPB" THEN 0 ELSE u.ticks
        known == described /\ ~hist.err /\ res < 2 ^ Width
    IN  HandOver(NextBlock(h), pk,
          IF known THEN Seen(u, pk, ticks \div res + Offset(idb), ((ticks % res) * UserResolution(h.prec)) \div res,
                             IF u.t = "SPB" THEN Minimum(u.len, idb.snaplen) ELSE u.caplen,
                             if.res = res /\ if.off = Offset(idb), res = UserResolution(h.prec), TRUE)
          ELSE [Seen(u, pk, 0, 0, CapLen(u), described, FALSE, FALSE) EXCEPT !.ok = TRUE])

\* comments say that another link type than the first one's is refused: it is compared with
\* the number that the first one's was translated to
OtherType(u) ==
    h.linktype # Number(h.swapped, u.linktype) \/ h.snapshot # Number(h.swapped, u.snaplen)

\* another byte order or version: the blocks that follow cannot be read
BadSection(u) == u.room < 16 \/ u.order # "same" \/ u.major # 1
SectionStart(x) == [x EXCEPT !.ifcount = 0]

Skipped(x) == h' = NextBlock(x) /\ Works /\ UNCHANGED <<call, mem, out, last, hist>>
Refused(x) == h' = NextBlock(x) /\ Error /\ UNCHANGED <<out, last>>

NextNgPacket ==
    /\ call.at = "next" /\ f.fmt = "ng" /\ UNCHANGED f
    /\ \/ BlockEnd /\ Eof /\ Works /\ UNCHANGED <<h, mem, out, last>>
       \/ BlockBroken /\ Error /\ Works /\ Lost /\ UNCHANGED <<mem, out, last>>
       \/ Reallocates /\ Error /\ Fault /\ Lost /\ mem' = Orphaned(mem, "buffer") /\ UNCHANGED <<out, last>>
       \/ BlockThere /\ IsPacket(Unit) /\ BadPacket(Unit) /\ Refused(h) /\ Works /\ UNCHANGED mem
       \/ BlockThere /\ IsPacket(Unit) /\ ~BadPacket(Unit) /\ NgPacket(Unit) /\ Works /\ UNCHANGED mem
       \/ BlockThere /\ Unit.t = "IDB" /\ (Unit.room < 8 \/ OtherType(Unit)) /\ Refused(h) /\ Works /\ UNCHANGED mem
       \/ /\ BlockThere /\ Unit.t = "IDB" /\ Unit.room >= 8 /\ ~OtherType(Unit)
          /\ \/ \E build \in {"zero", "wrap"} :
                   LET o == process_idb_options(Unit, build)
                   IN  \/ o.ok /\ Skipped(add_interface(h, Unit, o))
                       \/ ~o.ok /\ Refused(add_interface(h, Unit, o)) /\ Works /\ UNCHANGED mem
             \/ /\ h.ifcount = Len(h.ifaces) /\ Error /\ Fault /\ Lost
                /\ mem' = Orphaned(mem, "ifaces") /\ UNCHANGED <<out, last>>
       \/ BlockThere /\ Unit.t = "SHB" /\ ~BadSection(Unit) /\ Skipped(SectionStart(h))
       \/ /\ BlockThere /\ Unit.t = "SHB" /\ BadSection(Unit)
          /\ Error /\ Works /\ Lost /\ UNCHANGED <<mem, out, last>>
       \/ BlockThere /\ Unit.t = "other" /\ Skipped(h)

\* from another thread, a signal handler or the callback
pcap_breakloop ==
    /\ h.open /\ "break" \in f.ops /\ ~h.break_loop /\ h' = [h EXCEPT !.break_loop = TRUE, !.since = 0]
    /\ UNCHANGED <<f, call, mem, out, last, hist, used>>

pcap_setfilter ==
    /\ call.at = "idle" /\ h.open /\ "filter" \in f.ops /\ hist.calls = 0 /\ h' = [h EXCEPT !.fcode = "odd"]
    /\ UNCHANGED <<f, call, mem, out, last, hist, used>>

\* sf_cleanup(), pcap_ng_cleanup()
pcap_close ==
    /\ call.at = "idle" /\ h.open /\ (hist.calls = MaxCalls \/ h.lost \/ hist.end)
    /\ h' = Closed /\ mem' = mem \ {"p", "source", "file", "buffer", "ifaces"}
    /\ UNCHANGED <<f, call, out, last, hist, used>>

----------------------------------------------------------------------------
(* Writing.  stdio moves what was written to the disk when it likes.       *)

sf_write_header_Micro(linktype) ==
    [magic |-> "tcpdump", major |-> 2, minor |-> 4,
     snaplen |-> h.snapshot, linktype |-> linktype, ext |-> h.ext, rev |-> FALSE]
sf_write_header(linktype) ==
    [magic |-> IF h.prec = "NANO" THEN "nsec" ELSE "tcpdump", major |-> 2, minor |-> 4,
     snaplen |-> h.snapshot, linktype |-> linktype, ext |-> h.ext, rev |-> FALSE]

\* bytes of the copy up to its n-th record
Written(n) == FoldLeft(LAMBDA acc, u : acc + 16 + u.caplen, 24, SubSeq(out.units, 1, n))
Everything == Written(Len(out.units))

pcap_dump_open ==
    /\ call.at = "idle" /\ h.open /\ "dump" \in f.ops /\ used.phase = 1 /\ out.at = "none"
    /\ LET linktype == dlt_to_linktype(h.linktype)
       IN  \/ linktype = -1 /\ out' = [out EXCEPT !.at = "refused"] /\ Works /\ UNCHANGED mem
           \* fopen() or fwrite() fails
           \/ linktype # -1 /\ out' = [out EXCEPT !.at = "refused"] /\ Fault /\ UNCHANGED mem
           \/ /\ linktype # -1 /\ mem' = mem \cup {"dump"} /\ Works
              /\ out' = [out EXCEPT !.at = "open", !.hdr = sf_write_header(linktype),
                                   !.linktype = h.linktype, !.prec = h.prec]
    /\ UNCHANGED <<f, h, call, last, hist>>

Spill ==
    /\ out.at = "open" /\ ~out.full /\ used.phase = 1
    /\ \E n \in 0 .. Len(out.units), k \in {0, 8, 16} :
          /\ Written(n) + k \in out.disk + 1 .. Everything
          /\ out' = [out EXCEPT !.disk = Written(n) + k]
    /\ UNCHANGED <<f, h, call, mem, last, hist, used>>

DiskFull ==
    /\ out.at = "open" /\ ~out.full /\ used.phase = 1 /\ Fault /\ out' = [out EXCEPT !.full = TRUE]
    /\ UNCHANGED <<f, h, call, mem, last, hist>>

\* a result of 0
pcap_dump_flush ==
    /\ call.at = "idle" /\ out.at = "open" /\ used.phase = 1 /\ ~out.full /\ out.flushed < Len(out.units)
    /\ out' = [out EXCEPT !.disk = Everything, !.flushed = Len(out.units)]
    /\ UNCHANGED <<f, h, call, mem, last, hist, used>>

pcap_dump_close ==
    /\ call.at = "idle" /\ out.at = "open" /\ used.phase = 1
    /\ out' = [out EXCEPT !.at = "closed", !.disk = IF out.full THEN @ ELSE Everything]
    /\ mem' = mem \ {"dump"}
    /\ UNCHANGED <<f, h, call, last, hist, used>>

\* the copy as the next program finds it
Copy == [fmt |-> "pcap", swapped |-> FALSE, hdr |-> out.hdr, units |-> out.units, size |-> out.disk,
         precs |-> {out.prec}, ops |-> {}]
ReadCopy ==
    /\ f' = Copy /\ h' = Closed /\ call' = Idle /\ last' = NoPacket /\ hist' = NoHistory
    /\ used' = [used EXCEPT !.phase = 2, !.faults = MaxFaults] /\ UNCHANGED out

Crash == used.phase = 1 /\ out.at = "open" /\ ReadCopy /\ mem' = {}
Done == used.phase = 1 /\ out.at = "closed" /\ call.at = "idle" /\ ~h.open /\ ReadCopy /\ UNCHANGED mem

----------------------------------------------------------------------------

Step == OpenBlock \/ Check \/ NextPacket \/ NextNgPacket
Calls == pcap_open_offline \/ pcap_dispatch \/ pcap_next_ex \/ pcap_loop \/ pcap_setfilter \/ pcap_close
         \/ pcap_dump_open \/ pcap_dump_flush \/ pcap_dump_close
Next == Step \/ Calls \/ pcap_breakloop \/ Spill \/ DiskFull \/ Crash \/ Done

Spec == Init /\ [][Next]_vars

----------------------------------------------------------------------------
(* Properties *)

\* Whatever the byte order of the file, its format, the version that wrote it and the order in
\* which that one stored the lengths, the program is given the lengths, the seconds, the numbers
\* in the headers that the kernel made, and, when no scaling is needed, the fractions that the
\* writer meant; nothing else in the buffer is touched (pcap_next_packet(),
\* pcap_ng_next_packet(), swap_pseudo_headers()).
PacketsAreTrue == last.ok

\* The interface whose resolution and offset are used is the one the packet names, as it was
\* described in the packet's own section, until a call has returned an error
\* (add_interface(), pcap_ng_next_packet()).
InterfacesAreDescribed == last.described

\* The packet that is handed over is the one in the file, read with its own interface.
PacketsAreRight == PacketsAreTrue /\ InterfacesAreDescribed

\* However the reading is divided into calls, by counts or by breaks, the packets read so far
\* that the filter accepts have been handed over once each and in order, and when the end of the
\* file is reported there are no more (pcap_offline_read(), pcap_loop()).
EachPacketOnce ==
    /\ (h.open /\ ~hist.err) => hist.got = Expected(h.i - 1, h.fcode)
    /\ (h.open /\ hist.end /\ ~hist.err) => Left(h) = 0

\* After pcap_breakloop() at most one more packet is handed over.
BreakIsPrompt == h.since <= 1

\* A packet read from the copy is the one that was handed to pcap_dump(), with the time in the
\* same resolution, on the same link type; it is cut to the snapshot length only if it was longer.
CopyIsFaithful == last.same

\* Whatever pcap_dump_flush() has confirmed is read from the copy after a crash: an error for a
\* torn record at the end comes after it (pcap_dump_flush(), pcap_next_packet()).
FlushedSurvives ==
    (used.phase = 2 /\ h.open /\ call.at = "idle" /\ (hist.end \/ hist.err)) => Len(hist.got) >= out.flushed

\* The copy that pcap_dump() leaves, torn by a crash or not, reads back as what was dumped.
CopyIsRight == CopyIsFaithful /\ FlushedSurvives

\* A program that holds no handle holds no memory and no file either, but for the name of the
\* source after an open that failed and a buffer that could not be made larger.
NothingLeaks == (call.at = "idle" /\ ~h.open) => mem \subseteq {"source", "orphan", "dump"}

\* Calls hand over every packet once, stop soon after a break, and leave no memory behind,
\* whichever way they end (pcap_offline_read(), pcap_ng_check_header()).
CallsAreExact == EachPacketOnce /\ BreakIsPrompt /\ NothingLeaks

=============================================================================
