------------------------- MODULE CaptureStreamProofs ------------------------
(***************************************************************************)
(* A capture handle implements the queue of Stream, and its counters       *)
(* account for the packets in it, for every size of the ring, traffic,     *)
(* filter and count: the buffers in front of the program are in the order  *)
(* of arrival.                                                             *)
(*                                                                         *)
(* Two kinds of handles are left out.  Where several packets at once may   *)
(* be on their way into the buffer, they are stored in any order.  And a   *)
(* block with a packet that libpcap rejects is read again from its start,  *)
(* so that packets before the bad one are shown twice                      *)
(* (pcap_read_linux_mmap_v3()).                                            *)
(*                                                                         *)
(* The last part shows that the program is given what its filter accepts:  *)
(* after a change the kernel's buffer still holds packets that an older    *)
(* filter let through, and the program filters as many frames itself as    *)
(* pcap_setfilter_linux_mmap() counted.                                    *)
(***************************************************************************)
EXTENDS CaptureProofs

\* what the theorems assume of the handle
OrderedHandle ==
    CPUs[hd.mode] \in {0, 1} /\ (hd.mode = "v3" => \A t \in hd.traffic : ~t.bad)

-----------------------------------------------------------------------------
(* The order of the buffers *)

Rising(s) == \A i, j \in DOMAIN s : i < j => s[i].id < s[j].id

\* The queue q of a socket or device, of which the first n have been looked at, and behind packet l
\* the packets b that were taken from it: all are in the order of their arrival, before m.
InQueue(q, b, n, l, m) ==
    /\ l < m
    /\ Rising(b) /\ Rising(q)
    /\ \A i \in DOMAIN b, j \in DOMAIN q : b[i].id < q[j].id
    /\ \A i \in DOMAIN b : l < b[i].id /\ b[i].id < m
    /\ \A i \in DOMAIN q : q[i].id < m
    /\ \A i \in DOMAIN q : n < i => l < q[i].id

QueueIds(q, b, n) ==
    {e \in Nat : \/ \E i \in DOMAIN b : e = b[i].id
                 \/ \E i \in DOMAIN q : n < i /\ e = q[i].id}

\* how far slot s is ahead of the reader at o
Ahead(s, o) == IF s >= o THEN s - o ELSE s - o + Frames

\* the first packet of slot s that the reader at o, with current c, has not looked at
First(s, o, c) == IF s = o /\ c # 0 THEN c ELSE 1

\* The slots of ring r from the reader at o on to the kernel's place w are in the hands of the
\* reader, all of them when the kernel has caught up with it; the others are empty, but for the
\* open block of a ring of blocks.  Their packets are in the order of their arrival, before m, and
\* those that have not been looked at come after packet l.
InRing(g, r, w, o, c, l, m) ==
    /\ l < m
    /\ \A s \in Slots : r[s].user <=> r[w].user \/ Ahead(s, o) < Ahead(w, o)
    /\ r[w].user => w = o
    /\ \A s \in Slots : Rising(r[s].pkts)
    /\ \A s, t \in Slots : Ahead(s, o) < Ahead(t, o) =>
          \A i \in DOMAIN r[s].pkts, j \in DOMAIN r[t].pkts : r[s].pkts[i].id < r[t].pkts[j].id
    /\ \A s \in Slots : ~r[s].user /\ (g # "v3" \/ s # w) => r[s].pkts = <<>>
    /\ \A s \in Slots : g # "v3" /\ r[s].user => Len(r[s].pkts) = 1
    /\ \A s \in Slots : \A i \in DOMAIN r[s].pkts : r[s].pkts[i].id < m
    /\ \A s \in Slots : \A i \in DOMAIN r[s].pkts : i >= First(s, o, c) => l < r[s].pkts[i].id

RingIds(r, o, c) ==
    {e \in Nat : \E s \in Slots : \E i \in DOMAIN r[s].pkts : i >= First(s, o, c) /\ e = r[s].pkts[i].id}

\* Pending p after packet l becomes q after packet m, as in Stream, while the balance of the
\* counters changes by d.
Advance(p, l, q, m, d) ==
    \/ q = p /\ m = l /\ d >= 0
    \/ \E e \in 1 .. MaxPackets :
          l < e /\ (\A f \in p : f < e) /\ q = p \cup {e} /\ m = l /\ d >= 1
    \/ \E e \in p : q = {f \in p : e < f} /\ m = l /\ d >= 0
    \/ \E e \in p : l < e /\ (\A f \in p : f = e \/ e < f) /\ q = {f \in p : e < f} /\ m = e /\ d >= -1

-----------------------------------------------------------------------------
(* The queue *)

LEMMA SeqFacts ==
    ASSUME NEW q \in Seq(Packets)
    PROVE  /\ Len(q) \in Nat /\ DOMAIN q = 1 .. Len(q)
           /\ \A i \in DOMAIN q : i \in Nat /\ i >= 1 /\ i <= Len(q) /\ q[i] \in Packets /\ q[i].id \in Nat
<1>1. Len(q) \in Nat /\ DOMAIN q = 1 .. Len(q)  OBVIOUS
<1>2. \A i \in DOMAIN q : q[i] \in Packets  OBVIOUS
<1>3. \A p \in Packets : p.id \in Nat  BY DEF Packets
<1>4. QED BY <1>1, <1>2, <1>3

\* a packet enters at the end; where the place is one that is skipped, it is lost
LEMMA QueueAppend ==
    ASSUME NEW q \in Seq(Packets), NEW b \in Seq(Packets), NEW n \in Int, NEW l \in Nat,
           NEW p \in Packets, NEW m \in Nat, InQueue(q, b, n, l, p.id), p.id < m
    PROVE  /\ InQueue(Append(q, p), b, n, l, m)
           /\ \/ QueueIds(Append(q, p), b, n) = QueueIds(q, b, n)
              \/ QueueIds(Append(q, p), b, n) = QueueIds(q, b, n) \cup {p.id}
           /\ \A e \in QueueIds(q, b, n) : e < p.id
<1> DEFINE a == Append(q, p)
           z == Len(q) + 1
<1>1. /\ z \in Nat /\ DOMAIN q = 1 .. Len(q) /\ DOMAIN a = 1 .. z /\ Len(q) \in Nat
      /\ (\A i \in 1 .. Len(q) : a[i] = q[i]) /\ a[z] = p
  BY AppendProperties
<1>2. p.id \in Nat  BY DEF Packets
<1>3. /\ \A i \in DOMAIN a : (i \in DOMAIN q /\ a[i] = q[i] /\ i < z) \/ i = z
      /\ \A i \in DOMAIN q : i \in DOMAIN a /\ a[i] = q[i]
      /\ z \in DOMAIN a
  BY <1>1
<1>4. /\ \A i \in DOMAIN q : q[i].id \in Nat
      /\ \A i \in DOMAIN b : b[i].id \in Nat
  BY SeqFacts
<1> HIDE DEF a, z
<1>5. Rising(a)
  <2>1. \A i, j \in DOMAIN q : i < j => q[i].id < q[j].id  BY DEF InQueue, Rising
  <2>2. \A i \in DOMAIN q : q[i].id < p.id  BY DEF InQueue
  <2>3. \A i \in DOMAIN a : i \in Nat  BY <1>1
  <2>4. \A i, j \in DOMAIN a : i < j => i \in DOMAIN q  BY <1>1, <1>3, <2>3
  <2>5. QED BY <1>1, <1>3, <2>1, <2>2, <2>4 DEF Rising
<1>6. InQueue(a, b, n, l, m)
  <2>1. l < m  BY <1>2 DEF InQueue
  <2>2. \A i \in DOMAIN b, j \in DOMAIN a : b[i].id < a[j].id  BY <1>1, <1>3 DEF InQueue
  <2>3. \A i \in DOMAIN b : l < b[i].id /\ b[i].id < m  BY <1>2, <1>4 DEF InQueue
  <2>4. \A i \in DOMAIN a : a[i].id < m  BY <1>1, <1>2, <1>3, <1>4 DEF InQueue
  <2>5. \A i \in DOMAIN a : n < i => l < a[i].id  BY <1>1, <1>3 DEF InQueue
  <2>6. QED BY <1>5, <2>1, <2>2, <2>3, <2>4, <2>5 DEF InQueue
<1>7. \A e \in QueueIds(q, b, n) : e < p.id  BY DEF QueueIds, InQueue
<1>8. CASE n < z
  <2>1. QueueIds(a, b, n) = QueueIds(q, b, n) \cup {p.id}
    BY <1>1, <1>2, <1>3, <1>8 DEF QueueIds
  <2>2. QED BY <1>6, <1>7, <2>1 DEF a
<1>9. CASE ~(n < z)
  <2>1. QueueIds(a, b, n) = QueueIds(q, b, n)
    BY <1>1, <1>2, <1>3, <1>9 DEF QueueIds
  <2>2. QED BY <1>6, <1>7, <2>1 DEF a
<1>10. QED BY <1>8, <1>9

LEMMA SubFacts ==
    ASSUME NEW q \in Seq(Packets), NEW d \in 0 .. Len(q)
    PROVE  LET r == SubSeq(q, d + 1, Len(q))
           IN
           /\ r \in Seq(Packets) /\ Len(r) = Len(q) - d
           /\ \A i \in DOMAIN r : i + d \in DOMAIN q /\ r[i] = q[i + d]
           /\ \A i \in DOMAIN q : d < i => i - d \in DOMAIN r /\ r[i - d] = q[i]
<1> DEFINE r == SubSeq(q, d + 1, Len(q))
<1>1. Len(q) \in Nat /\ DOMAIN q = 1 .. Len(q) /\ d \in Nat /\ d <= Len(q)  OBVIOUS
<1>2. \A i \in d + 1 .. Len(q) : q[i] \in Packets  BY <1>1
<1>3. /\ r \in Seq(Packets) /\ Len(r) = IF d + 1 <= Len(q) THEN Len(q) - (d + 1) + 1 ELSE 0
      /\ \A i \in 1 .. Len(q) - (d + 1) + 1 : r[i] = q[(d + 1) + i - 1]
  BY <1>1, <1>2, SubSeqProperties
<1> HIDE DEF r
<1>4. Len(r) = Len(q) - d
  <2>1. \A x, y \in Nat : y <= x => (IF y + 1 <= x THEN x - (y + 1) + 1 ELSE 0) = x - y  OBVIOUS
  <2>2. (IF d + 1 <= Len(q) THEN Len(q) - (d + 1) + 1 ELSE 0) = Len(q) - d  BY <1>1, <2>1
  <2>3. QED BY <1>3, <2>2
<1>5. DOMAIN r = 1 .. Len(q) - d  BY <1>3, <1>4
<1>6. \A i \in 1 .. Len(q) - d : (d + 1) + i - 1 = i + d /\ i + d \in 1 .. Len(q)  BY <1>1
<1>7. \A i \in DOMAIN r : i + d \in DOMAIN q /\ r[i] = q[i + d]
  <2>1. Len(q) - (d + 1) + 1 = Len(q) - d  BY <1>1
  <2>2. QED BY <1>1, <1>3, <1>5, <1>6, <2>1
<1>8. ASSUME NEW i \in DOMAIN q, d < i PROVE i - d \in DOMAIN r /\ r[i - d] = q[i]
  <2>1. i - d \in 1 .. Len(q) - d /\ (i - d) + d = i  BY <1>1, <1>8
  <2>2. QED BY <1>5, <1>7, <2>1
<1>9. QED BY <1>3, <1>4, <1>7, <1>8 DEF r

LEMMA EmptyFacts == <<>> \in Seq(Packets) /\ DOMAIN <<>> = {} /\ Len(<<>>) = 0
OBVIOUS

\* the d oldest packets are discarded or taken out; of one of them, that is to be shown
LEMMA QueueTake ==
    ASSUME NEW q \in Seq(Packets), NEW l \in Nat, NEW d \in 1 .. Len(q)
    PROVE  LET r == SubSeq(q, d + 1, Len(q))
               t == SubSeq(q, 1, d)
           IN
           /\ r \in Seq(Packets) /\ t \in Seq(Packets) /\ q[d].id \in Nat
           /\ \A m \in Nat : InQueue(q, <<>>, 0, l, m) =>
                /\ InQueue(r, <<>>, 0, l, m) /\ InQueue(r, t, 0, l, m) /\ InQueue(r, <<>>, 0, q[d].id, m)
                /\ QueueIds(r, t, 0) = QueueIds(q, <<>>, 0)
                /\ q[d].id \in QueueIds(q, <<>>, 0) /\ l < q[d].id
                /\ QueueIds(r, <<>>, 0) = {f \in QueueIds(q, <<>>, 0) : q[d].id < f}
                /\ d = 1 => \A f \in QueueIds(q, <<>>, 0) : f = q[d].id \/ q[d].id < f
<1> DEFINE r == SubSeq(q, d + 1, Len(q))
           t == SubSeq(q, 1, d)
<1>1. /\ Len(q) \in Nat /\ DOMAIN q = 1 .. Len(q) /\ d \in Nat /\ d \in DOMAIN q /\ d \in 0 .. Len(q)
      /\ \A i \in DOMAIN q : i \in Nat /\ i >= 1 /\ q[i].id \in Nat
  BY SeqFacts
<1>2. /\ r \in Seq(Packets) /\ Len(r) = Len(q) - d
      /\ \A i \in DOMAIN r : i + d \in DOMAIN q /\ r[i] = q[i + d]
      /\ \A i \in DOMAIN q : d < i => i - d \in DOMAIN r /\ r[i - d] = q[i]
  <2>1. d \in 0 .. Len(q)  BY <1>1
  <2>2. QED BY <2>1, SubFacts
<1>3. t \in Seq(Packets) /\ DOMAIN t = 1 .. d /\ \A i \in DOMAIN t : i \in DOMAIN q /\ t[i] = q[i]
  <2>1. \A i \in 1 .. d : q[i] \in Packets /\ i \in DOMAIN q  BY <1>1
  <2>2. t \in Seq(Packets) /\ Len(t) = d /\ \A i \in 1 .. d - 1 + 1 : t[i] = q[1 + i - 1]
    BY <1>1, <2>1, SubSeqProperties
  <2>3. DOMAIN t = 1 .. d  BY <2>2
  <2>4. \A i \in 1 .. d : i \in 1 .. d - 1 + 1 /\ 1 + i - 1 = i  BY <1>1
  <2>5. QED BY <2>1, <2>2, <2>3, <2>4
<1> HIDE DEF r, t
<1>4. \A i \in DOMAIN r : i \in Nat /\ i >= 1 /\ 0 < i /\ r[i].id \in Nat  BY <1>1, <1>2
<1>5. \A i \in DOMAIN t : i \in Nat /\ i >= 1 /\ i <= d /\ t[i].id \in Nat  BY <1>1, <1>3
<1>6. SUFFICES ASSUME NEW m \in Nat, InQueue(q, <<>>, 0, l, m)
               PROVE  /\ InQueue(r, <<>>, 0, l, m) /\ InQueue(r, t, 0, l, m) /\ InQueue(r, <<>>, 0, q[d].id, m)
                      /\ QueueIds(r, t, 0) = QueueIds(q, <<>>, 0)
                      /\ q[d].id \in QueueIds(q, <<>>, 0) /\ l < q[d].id
                      /\ QueueIds(r, <<>>, 0) = {f \in QueueIds(q, <<>>, 0) : q[d].id < f}
                      /\ d = 1 => \A f \in QueueIds(q, <<>>, 0) : f = q[d].id \/ q[d].id < f
  BY <1>1, <1>2, <1>3 DEF r, t
<1>7. /\ \A i, j \in DOMAIN q : i < j => q[i].id < q[j].id
      /\ \A i \in DOMAIN q : q[i].id < m /\ l < q[i].id
      /\ l < m
  BY <1>1, <1>6 DEF InQueue, Rising
<1>8. DOMAIN <<>> = {}  OBVIOUS
<1>9. Rising(r)
  <2>1. \A i, j \in DOMAIN r : i < j => i + d < j + d  BY <1>1, <1>4
  <2>2. QED BY <1>2, <1>7, <2>1 DEF Rising
<1>10. Rising(t) /\ Rising(<<>>)  BY <1>3, <1>7, <1>8 DEF Rising
<1>11. \A i \in DOMAIN r : r[i].id < m /\ l < r[i].id /\ q[d].id < r[i].id
  <2>1. \A i \in DOMAIN r : d < i + d  BY <1>1, <1>4
  <2>2. QED BY <1>1, <1>2, <1>7, <2>1
<1>12. \A i \in DOMAIN t, j \in DOMAIN r : t[i].id < r[j].id
  <2>1. \A i \in DOMAIN t, j \in DOMAIN r : i < j + d  BY <1>1, <1>4, <1>5
  <2>2. QED BY <1>2, <1>3, <1>7, <2>1
<1>13. InQueue(r, <<>>, 0, l, m) /\ InQueue(r, <<>>, 0, q[d].id, m)
  BY <1>1, <1>7, <1>8, <1>9, <1>10, <1>11 DEF InQueue
<1>14. InQueue(r, t, 0, l, m)
  BY <1>3, <1>7, <1>9, <1>10, <1>11, <1>12 DEF InQueue
<1>15. \A f : f \in QueueIds(q, <<>>, 0) <=> \E i \in DOMAIN q : f = q[i].id
  BY <1>1, <1>8 DEF QueueIds
<1>16. \A f : f \in QueueIds(r, <<>>, 0) <=> \E i \in DOMAIN r : f = r[i].id
  BY <1>4, <1>8 DEF QueueIds
<1>17. \A f : f \in QueueIds(r, t, 0) <=> (\E i \in DOMAIN r : f = r[i].id) \/ \E i \in DOMAIN t : f = t[i].id
  BY <1>4, <1>5 DEF QueueIds
<1>18. QueueIds(r, t, 0) = QueueIds(q, <<>>, 0)
  <2>1. \A i \in DOMAIN q : d < i \/ i \in DOMAIN t  BY <1>1, <1>3
  <2>2. QueueIds(r, t, 0) \subseteq QueueIds(q, <<>>, 0)
    <3>1. \A i \in DOMAIN r : \E j \in DOMAIN q : r[i].id = q[j].id  BY <1>2
    <3>2. \A i \in DOMAIN t : \E j \in DOMAIN q : t[i].id = q[j].id  BY <1>3
    <3>3. QED BY <1>15, <1>17, <3>1, <3>2
  <2>3. QueueIds(q, <<>>, 0) \subseteq QueueIds(r, t, 0)
    <3>1. ASSUME NEW f \in QueueIds(q, <<>>, 0) PROVE f \in QueueIds(r, t, 0)
      <4>1. PICK i \in DOMAIN q : f = q[i].id  BY <1>15
      <4>2. CASE d < i  BY <1>2, <1>17, <4>1, <4>2
      <4>3. CASE i \in DOMAIN t  BY <1>3, <1>17, <4>1, <4>3
      <4>4. QED BY <2>1, <4>2, <4>3
    <3>2. QED BY <3>1
  <2>4. QED BY <2>2, <2>3
<1>19. QueueIds(r, <<>>, 0) = {f \in QueueIds(q, <<>>, 0) : q[d].id < f}
  <2>1. ASSUME NEW f \in QueueIds(r, <<>>, 0) PROVE f \in QueueIds(q, <<>>, 0) /\ q[d].id < f
    BY <1>2, <1>11, <1>15, <1>16, <2>1
  <2>2. ASSUME NEW f \in QueueIds(q, <<>>, 0), q[d].id < f PROVE f \in QueueIds(r, <<>>, 0)
    <3>1. PICK i \in DOMAIN q : f = q[i].id  BY <1>15, <2>2
    <3>2. d < i
      <4>1. i = d \/ i < d \/ d < i  BY <1>1
      <4>2. QED BY <1>1, <1>7, <2>2, <3>1, <4>1
    <3>3. QED BY <1>2, <1>16, <3>1, <3>2
  <2>3. QED BY <2>1, <2>2
<1>20. d = 1 => \A f \in QueueIds(q, <<>>, 0) : f = q[d].id \/ q[d].id < f
  <2>1. d = 1 => \A i \in DOMAIN q : i = d \/ d < i  BY <1>1
  <2>2. ASSUME d = 1, NEW f \in QueueIds(q, <<>>, 0) PROVE f = q[d].id \/ q[d].id < f
    <3>1. PICK i \in DOMAIN q : f = q[i].id  BY <1>15, <2>2
    <3>2. i = d \/ d < i  BY <2>1, <2>2
    <3>3. QED BY <1>1, <1>7, <3>1, <3>2
  <2>3. QED BY <2>2
<1>21. QED BY <1>1, <1>7, <1>13, <1>14, <1>15, <1>18, <1>19, <1>20

\* events that were fetched are freed
LEMMA QueueFlush ==
    ASSUME NEW q \in Seq(Packets), NEW l \in Nat, NEW n \in Nat
    PROVE  LET r == SubSeq(q, Minimum(n, Len(q)) + 1, Len(q))
           IN  /\ \A m \in Nat : InQueue(q, <<>>, n, l, m) => InQueue(r, <<>>, 0, l, m)
               /\ QueueIds(r, <<>>, 0) = QueueIds(q, <<>>, n)
<1> DEFINE d == Minimum(n, Len(q))
           r == SubSeq(q, d + 1, Len(q))
<1>1. /\ Len(q) \in Nat /\ DOMAIN q = 1 .. Len(q)
      /\ \A i \in DOMAIN q : i \in Nat /\ i >= 1 /\ q[i].id \in Nat
  BY SeqFacts
<1>2. d \in 0 .. Len(q) /\ d \in Nat /\ \A i \in DOMAIN q : d < i <=> n < i  BY <1>1 DEF Minimum
<1> HIDE DEF d
<1>3. /\ r \in Seq(Packets) /\ Len(r) = Len(q) - d
      /\ \A i \in DOMAIN r : i + d \in DOMAIN q /\ r[i] = q[i + d]
      /\ \A i \in DOMAIN q : d < i => i - d \in DOMAIN r /\ r[i - d] = q[i]
  BY <1>2, SubFacts
<1> HIDE DEF r
<1>4. \A i \in DOMAIN r : i \in Nat /\ i >= 1 /\ d < i + d /\ 0 < i /\ r[i].id \in Nat
  <2>1. \A i \in DOMAIN r : i \in Nat /\ i >= 1 /\ r[i].id \in Nat  BY <1>3, SeqFacts
  <2>2. QED BY <1>2, <2>1
<1>5. DOMAIN <<>> = {}  OBVIOUS
<1>6. QueueIds(r, <<>>, 0) = QueueIds(q, <<>>, n)
  <2>1. \A e : e \in QueueIds(r, <<>>, 0) <=> \E i \in DOMAIN r : e = r[i].id
    BY <1>1, <1>3, <1>4, <1>5 DEF QueueIds
  <2>2. \A e : e \in QueueIds(q, <<>>, n) <=> \E i \in DOMAIN q : n < i /\ e = q[i].id
    BY <1>1, <1>5 DEF QueueIds
  <2>3. QueueIds(r, <<>>, 0) \subseteq QueueIds(q, <<>>, n)
    <3>1. \A i \in DOMAIN r : \E j \in DOMAIN q : n < j /\ r[i].id = q[j].id  BY <1>2, <1>3, <1>4
    <3>2. QED BY <2>1, <2>2, <3>1
  <2>4. QueueIds(q, <<>>, n) \subseteq QueueIds(r, <<>>, 0)
    <3>1. \A i \in DOMAIN q : n < i => \E j \in DOMAIN r : q[i].id = r[j].id  BY <1>2, <1>3
    <3>2. QED BY <2>1, <2>2, <3>1
  <2>5. QED BY <2>3, <2>4
<1>7. ASSUME NEW m \in Nat, InQueue(q, <<>>, n, l, m) PROVE InQueue(r, <<>>, 0, l, m)
  <2>1. /\ \A i, j \in DOMAIN q : i < j => q[i].id < q[j].id
        /\ \A i \in DOMAIN q : q[i].id < m /\ (n < i => l < q[i].id)
        /\ l < m
    BY <1>7 DEF InQueue, Rising
  <2>2. Rising(r) /\ Rising(<<>>)
    <3>1. \A i, j \in DOMAIN r : i < j => i + d < j + d  BY <1>2, <1>4
    <3>2. QED BY <1>3, <1>5, <2>1, <3>1 DEF Rising
  <2>3. \A i \in DOMAIN r : r[i].id < m /\ l < r[i].id  BY <1>2, <1>3, <1>4, <2>1
  <2>4. QED BY <1>5, <2>1, <2>2, <2>3 DEF InQueue
<1>8. QED BY <1>6, <1>7 DEF r, d

\* the next of the events that were fetched is shown
LEMMA QueueNext ==
    ASSUME NEW q \in Seq(Packets), NEW l \in Nat, NEW n \in Nat, n < Len(q)
    PROVE  /\ q[n + 1].id \in Nat
           /\ \A m \in Nat : InQueue(q, <<>>, n, l, m) =>
                /\ InQueue(q, <<>>, n + 1, q[n + 1].id, m)
                /\ q[n + 1].id \in QueueIds(q, <<>>, n) /\ l < q[n + 1].id
                /\ QueueIds(q, <<>>, n + 1) = {f \in QueueIds(q, <<>>, n) : q[n + 1].id < f}
                /\ \A f \in QueueIds(q, <<>>, n) : f = q[n + 1].id \/ q[n + 1].id < f
<1>1. /\ Len(q) \in Nat /\ DOMAIN q = 1 .. Len(q) /\ n + 1 \in DOMAIN q /\ n < n + 1
      /\ \A i \in DOMAIN q : i \in Nat /\ i >= 1 /\ q[i].id \in Nat
      /\ \A i \in DOMAIN q : n < i => i = n + 1 \/ n + 1 < i
      /\ \A i \in DOMAIN q : n + 1 < i => n < i
  BY SeqFacts
<1>2. SUFFICES ASSUME NEW m \in Nat, InQueue(q, <<>>, n, l, m)
               PROVE  /\ InQueue(q, <<>>, n + 1, q[n + 1].id, m)
                      /\ q[n + 1].id \in QueueIds(q, <<>>, n) /\ l < q[n + 1].id
                      /\ QueueIds(q, <<>>, n + 1) = {f \in QueueIds(q, <<>>, n) : q[n + 1].id < f}
                      /\ \A f \in QueueIds(q, <<>>, n) : f = q[n + 1].id \/ q[n + 1].id < f
  BY <1>1
<1>3. /\ \A i, j \in DOMAIN q : i < j => q[i].id < q[j].id
      /\ \A i \in DOMAIN q : q[i].id < m /\ (n < i => l < q[i].id)
      /\ Rising(q) /\ Rising(<<>>) /\ DOMAIN <<>> = {}
  BY <1>2 DEF InQueue, Rising
<1> DEFINE z == n + 1
<1>4. /\ \A e : e \in QueueIds(q, <<>>, n) <=> \E i \in DOMAIN q : n < i /\ e = q[i].id
      /\ \A e : e \in QueueIds(q, <<>>, z) <=> \E i \in DOMAIN q : z < i /\ e = q[i].id
  BY <1>1, <1>3 DEF QueueIds
<1>5. InQueue(q, <<>>, z, q[z].id, m)  BY <1>1, <1>3 DEF InQueue
<1>6. q[z].id \in QueueIds(q, <<>>, n) /\ l < q[z].id  BY <1>1, <1>3, <1>4
<1>7. \A f \in QueueIds(q, <<>>, n) : f = q[z].id \/ q[z].id < f  BY <1>1, <1>3, <1>4
<1>8. QueueIds(q, <<>>, z) = {f \in QueueIds(q, <<>>, n) : q[z].id < f}
  <2>1. ASSUME NEW f \in QueueIds(q, <<>>, z) PROVE f \in QueueIds(q, <<>>, n) /\ q[z].id < f
    BY <1>1, <1>3, <1>4, <2>1
  <2>2. ASSUME NEW f \in QueueIds(q, <<>>, n), q[z].id < f PROVE f \in QueueIds(q, <<>>, z)
    <3>1. PICK i \in DOMAIN q : n < i /\ f = q[i].id  BY <1>4, <2>2
    <3>2. i # z  BY <1>1, <2>2, <3>1
    <3>3. QED BY <1>1, <1>4, <3>1, <3>2
  <2>3. QED BY <2>1, <2>2
<1>9. QED BY <1>5, <1>6, <1>7, <1>8

\* the packet at the head of what was taken is shown, or all of that is thrown away
LEMMA BufferHead ==
    ASSUME NEW q \in Seq(Packets), NEW b \in Seq(Packets), NEW l \in Nat, b # <<>>
    PROVE  /\ Head(b).id \in Nat /\ Tail(b) \in Seq(Packets)
           /\ \A m \in Nat : InQueue(q, b, 0, l, m) =>
                /\ InQueue(q, Tail(b), 0, Head(b).id, m)
                /\ Head(b).id \in QueueIds(q, b, 0) /\ l < Head(b).id
                /\ QueueIds(q, Tail(b), 0) = {f \in QueueIds(q, b, 0) : Head(b).id < f}
                /\ \A f \in QueueIds(q, b, 0) : f = Head(b).id \/ Head(b).id < f
                /\ InQueue(q, <<>>, 0, l, m)
                /\ b[Len(b)].id \in QueueIds(q, b, 0)
                /\ QueueIds(q, <<>>, 0) = {f \in QueueIds(q, b, 0) : b[Len(b)].id < f}
<1> DEFINE r == Tail(b)
           z == Len(b)
<1>1. /\ z \in Nat /\ DOMAIN b = 1 .. z
      /\ \A i \in DOMAIN b : i \in Nat /\ i >= 1 /\ i <= z /\ b[i].id \in Nat
      /\ Len(q) \in Nat /\ DOMAIN q = 1 .. Len(q)
      /\ \A i \in DOMAIN q : i \in Nat /\ i >= 1 /\ 0 < i /\ q[i].id \in Nat
  BY SeqFacts
<1>2. z # 0  BY EmptySeq
<1>3. 1 \in DOMAIN b /\ z \in DOMAIN b /\ Head(b) = b[1]  BY <1>1, <1>2
<1>4. r \in Seq(Packets) /\ Len(r) = z - 1 /\ \A i \in 1 .. z - 1 : r[i] = b[i + 1]
  BY <1>2, HeadTailProperties
<1>5. /\ \A i \in DOMAIN r : i \in Nat /\ i >= 1 /\ i + 1 \in DOMAIN b /\ r[i] = b[i + 1] /\ 1 < i + 1
      /\ \A i \in DOMAIN b : 1 < i => i - 1 \in DOMAIN r /\ r[i - 1] = b[i]
  <2>1. DOMAIN r = 1 .. z - 1  BY <1>4
  <2>2. ASSUME NEW i \in DOMAIN b, 1 < i PROVE i - 1 \in 1 .. z - 1 /\ (i - 1) + 1 = i  BY <1>1, <2>2
  <2>3. QED BY <1>1, <1>4, <2>1, <2>2
<1> HIDE DEF r, z
<1>6. SUFFICES ASSUME NEW m \in Nat, InQueue(q, b, 0, l, m)
               PROVE  /\ InQueue(q, r, 0, b[1].id, m)
                      /\ b[1].id \in QueueIds(q, b, 0) /\ l < b[1].id
                      /\ QueueIds(q, r, 0) = {f \in QueueIds(q, b, 0) : b[1].id < f}
                      /\ \A f \in QueueIds(q, b, 0) : f = b[1].id \/ b[1].id < f
                      /\ InQueue(q, <<>>, 0, l, m)
                      /\ b[z].id \in QueueIds(q, b, 0)
                      /\ QueueIds(q, <<>>, 0) = {f \in QueueIds(q, b, 0) : b[z].id < f}
  BY <1>1, <1>3, <1>4 DEF r, z
<1>7. /\ \A i, j \in DOMAIN q : i < j => q[i].id < q[j].id
      /\ \A i, j \in DOMAIN b : i < j => b[i].id < b[j].id
      /\ \A i \in DOMAIN b, j \in DOMAIN q : b[i].id < q[j].id
      /\ \A i \in DOMAIN b : l < b[i].id /\ b[i].id < m
      /\ \A i \in DOMAIN q : q[i].id < m /\ l < q[i].id
      /\ l < m /\ Rising(q) /\ Rising(<<>>) /\ DOMAIN <<>> = {}
  BY <1>1, <1>6 DEF InQueue, Rising
<1>8. Rising(r)
  <2>1. \A i, j \in DOMAIN r : i < j => i + 1 < j + 1  BY <1>5
  <2>2. QED BY <1>5, <1>7, <2>1 DEF Rising
<1>9. InQueue(q, r, 0, b[1].id, m)  BY <1>3, <1>5, <1>7, <1>8 DEF InQueue
<1>10. InQueue(q, <<>>, 0, l, m)  BY <1>7 DEF InQueue
<1>11. /\ \A f : f \in QueueIds(q, b, 0) <=> (\E i \in DOMAIN b : f = b[i].id) \/ \E i \in DOMAIN q : f = q[i].id
       /\ \A f : f \in QueueIds(q, r, 0) <=> (\E i \in DOMAIN r : f = r[i].id) \/ \E i \in DOMAIN q : f = q[i].id
       /\ \A f : f \in QueueIds(q, <<>>, 0) <=> \E i \in DOMAIN q : f = q[i].id
  BY <1>1, <1>5, <1>7 DEF QueueIds
<1>12. b[1].id \in QueueIds(q, b, 0) /\ l < b[1].id /\ b[z].id \in QueueIds(q, b, 0)
  BY <1>3, <1>7, <1>11
<1>13. \A i \in DOMAIN b : i = 1 \/ 1 < i  BY <1>1
<1>14. \A i \in DOMAIN b : i = z \/ i < z  BY <1>1
<1>15. \A f \in QueueIds(q, b, 0) : f = b[1].id \/ b[1].id < f  BY <1>3, <1>7, <1>11, <1>13
<1>16. QueueIds(q, r, 0) = {f \in QueueIds(q, b, 0) : b[1].id < f}
  <2>1. ASSUME NEW f \in QueueIds(q, r, 0) PROVE f \in QueueIds(q, b, 0) /\ b[1].id < f
    <3>1. \A i \in DOMAIN r : b[1].id < r[i].id /\ \E j \in DOMAIN b : r[i].id = b[j].id
      BY <1>3, <1>5, <1>7
    <3>2. \A i \in DOMAIN q : b[1].id < q[i].id  BY <1>3, <1>7
    <3>3. QED BY <1>11, <2>1, <3>1, <3>2
  <2>2. ASSUME NEW f \in QueueIds(q, b, 0), b[1].id < f PROVE f \in QueueIds(q, r, 0)
    <3>1. CASE \E i \in DOMAIN q : f = q[i].id  BY <1>11, <3>1
    <3>2. CASE \E i \in DOMAIN b : f = b[i].id
      <4>1. PICK i \in DOMAIN b : f = b[i].id  BY <3>2
      <4>2. i # 1  BY <1>1, <1>3, <2>2, <4>1
      <4>3. QED BY <1>5, <1>11, <1>13, <4>1, <4>2
    <3>3. QED BY <1>11, <2>2, <3>1, <3>2
  <2>3. QED BY <2>1, <2>2
<1>17. QueueIds(q, <<>>, 0) = {f \in QueueIds(q, b, 0) : b[z].id < f}
  <2>1. ASSUME NEW f \in QueueIds(q, <<>>, 0) PROVE f \in QueueIds(q, b, 0) /\ b[z].id < f
    BY <1>3, <1>7, <1>11, <2>1
  <2>2. ASSUME NEW f \in QueueIds(q, b, 0), b[z].id < f PROVE f \in QueueIds(q, <<>>, 0)
    <3>1. ASSUME NEW i \in DOMAIN b, f = b[i].id PROVE FALSE
      BY <1>1, <1>3, <1>7, <1>14, <2>2, <3>1
    <3>2. QED BY <1>11, <2>2, <3>1
  <2>3. QED BY <2>1, <2>2
<1>18. QED BY <1>9, <1>10, <1>12, <1>15, <1>16, <1>17

-----------------------------------------------------------------------------
(* The ring *)

Good(r) == \A s \in Slots : \A i \in DOMAIN r[s].pkts : ~r[s].pkts[i].bad

LEMMA RingFacts ==
    ASSUME NEW r \in Ring, NEW s \in Slots
    PROVE  /\ r[s].user \in BOOLEAN /\ r[s].pkts \in Seq(Packets) /\ Len(r[s].pkts) \in Nat
           /\ DOMAIN r[s].pkts = 1 .. Len(r[s].pkts)
           /\ \A i \in DOMAIN r[s].pkts : i \in Nat /\ i >= 1 /\ i <= Len(r[s].pkts) /\ r[s].pkts[i].id \in Nat
<1>1. r[s].user \in BOOLEAN /\ r[s].pkts \in Seq(Packets)  BY DEF Ring, Bounded
<1>2. QED BY <1>1, SeqFacts

LEMMA AheadFacts ==
    ASSUME NEW o \in Slots
    PROVE  /\ \A s \in Slots : Ahead(s, o) \in 0 .. Frames - 1
           /\ \A s, t \in Slots : Ahead(s, o) = Ahead(t, o) => s = t
           /\ \A s \in Slots : Ahead(s, o) = 0 <=> s = o
BY CaptureAssumption DEF Slots, Ahead

LEMMA NextIs ==
    ASSUME NEW s \in Slots
    PROVE  (s + 1) % Frames = IF s + 1 = Frames THEN 0 ELSE s + 1
<1>1. s \in Nat /\ s < Frames /\ Frames \in Nat /\ Frames > 0  BY CaptureAssumption DEF Slots
<1>2. CASE s + 1 = Frames
  <2>1. Frames % Frames = 0  BY <1>1
  <2>2. QED BY <1>2, <2>1
<1>3. CASE s + 1 # Frames
  <2>1. s + 1 \in Nat /\ s + 1 < Frames  BY <1>1, <1>3
  <2>2. (s + 1) % Frames = s + 1  BY <1>1, <2>1
  <2>3. QED BY <1>3, <2>2
<1>4. QED BY <1>2, <1>3

LEMMA AheadNext ==
    ASSUME NEW s \in Slots, NEW o \in Slots, NEW t, t = (s + 1) % Frames
    PROVE  /\ t \in Slots
           /\ t = o <=> Ahead(s, o) = Frames - 1
           /\ t # o => Ahead(t, o) = Ahead(s, o) + 1
           /\ \A x \in Slots : x # s => Ahead(x, t) = Ahead(x, s) - 1
           /\ Ahead(s, t) = Frames - 1
<1>1. t = IF s + 1 = Frames THEN 0 ELSE s + 1  BY NextIs
<1>2. QED BY <1>1, CaptureAssumption DEF Slots, Ahead

\* from ring r to ring a: slot w is closed, a packet is added to it, it holds a packet that is the
\* reader's, it is given back
Closed(r, a, w) ==
    a[w].user = TRUE /\ \A s \in Slots : a[s].pkts = r[s].pkts /\ (s # w => a[s].user = r[s].user)
Added(r, a, w, p) ==
    /\ a[w].pkts = Append(r[w].pkts, p)
    /\ \A s \in Slots : a[s].user = r[s].user /\ (s # w => a[s].pkts = r[s].pkts)
Put(r, a, w, p) == a[w] = [user |-> TRUE, pkts |-> <<p>>] /\ \A s \in Slots \ {w} : a[s] = r[s]
Freed(r, a, w) == a[w] = [user |-> FALSE, pkts |-> <<>>] /\ \A s \in Slots \ {w} : a[s] = r[s]

\* the kernel closes its slot and goes on to the next
LEMMA RingClose ==
    ASSUME NEW r \in Ring, NEW w \in Slots, NEW o \in Slots, NEW c \in Nat,
           NEW l \in Nat, NEW m \in Nat, InRing("v3", r, w, o, c, l, m), ~r[w].user,
           NEW a, Closed(r, a, w)
    PROVE  /\ InRing("v3", a, (w + 1) % Frames, o, c, l, m)
           /\ RingIds(a, o, c) = RingIds(r, o, c) /\ (Good(r) => Good(a))
<1> DEFINE t == (w + 1) % Frames
<1>1. /\ \A s \in Slots : a[s].pkts = r[s].pkts /\ (s # w => a[s].user = r[s].user)
      /\ a[w].user = TRUE
  BY DEF Closed
<1>2. /\ t \in Slots
      /\ t = o <=> Ahead(w, o) = Frames - 1
      /\ t # o => Ahead(t, o) = Ahead(w, o) + 1
  BY AheadNext
<1> HIDE DEF t
<1>3. /\ \A s \in Slots : Ahead(s, o) \in 0 .. Frames - 1
      /\ \A s, u \in Slots : Ahead(s, o) = Ahead(u, o) => s = u
      /\ \A s \in Slots : Ahead(s, o) = 0 <=> s = o
  BY AheadFacts
<1>4. /\ \A s \in Slots : r[s].user <=> Ahead(s, o) < Ahead(w, o)
      /\ \A s \in Slots : r[s].user \in BOOLEAN
  BY RingFacts DEF InRing
<1>5. \A s \in Slots : a[s].user <=> Ahead(s, o) < Ahead(w, o) \/ s = w  BY <1>1, <1>4
<1>6. \A s \in Slots : a[s].user <=> Ahead(s, o) <= Ahead(w, o)  BY <1>3, <1>5
<1>7. Frames \in Nat /\ Frames > 0  BY CaptureAssumption
<1>8. a[t].user <=> t = o
  <2>1. CASE t = o  BY <1>2, <1>3, <1>6, <1>7, <2>1
  <2>2. CASE t # o  BY <1>2, <1>3, <1>6, <2>2
  <2>3. QED BY <2>1, <2>2
<1>9. \A s \in Slots : a[s].user <=> a[t].user \/ Ahead(s, o) < Ahead(t, o)
  <2>1. CASE t = o
    <3>1. \A s \in Slots : Ahead(s, o) <= Frames - 1  BY <1>3
    <3>2. QED BY <1>2, <1>6, <1>8, <2>1, <3>1
  <2>2. CASE t # o
    <3>1. \A s \in Slots : Ahead(s, o) <= Ahead(w, o) <=> Ahead(s, o) < Ahead(t, o)
      BY <1>2, <1>3, <2>2
    <3>2. QED BY <1>6, <1>8, <2>2, <3>1
  <2>3. QED BY <2>1, <2>2
<1>10. \A s \in Slots : ~a[s].user /\ s # t => a[s].pkts = <<>>
  <2>1. \A s \in Slots : ~a[s].user => ~r[s].user /\ s # w  BY <1>1
  <2>2. QED BY <1>1, <2>1 DEF InRing
<1>11. RingIds(a, o, c) = RingIds(r, o, c)  BY <1>1 DEF RingIds
<1>12. Good(r) => Good(a)  BY <1>1 DEF Good
<1>13. InRing("v3", a, t, o, c, l, m)
  BY <1>1, <1>2, <1>8, <1>9, <1>10 DEF InRing
<1>14. QED BY <1>11, <1>12, <1>13 DEF t

\* a packet is added to the open block
LEMMA RingAdd ==
    ASSUME NEW r \in Ring, NEW w \in Slots, NEW o \in Slots, NEW c \in Nat,
           NEW l \in Nat, NEW m \in Nat, NEW p \in Packets, p.id < m,
           InRing("v3", r, w, o, c, l, p.id), ~r[w].user, c # 0 => r[o].user,
           NEW a, Added(r, a, w, p)
    PROVE  /\ InRing("v3", a, w, o, c, l, m)
           /\ RingIds(a, o, c) = RingIds(r, o, c) \cup {p.id}
           /\ \A e \in RingIds(r, o, c) : e < p.id
           /\ Good(r) /\ ~p.bad => Good(a)
<1> DEFINE q == r[w].pkts
           z == Len(q) + 1
<1>1. /\ \A s \in Slots : a[s].user = r[s].user /\ (s # w => a[s].pkts = r[s].pkts)
      /\ a[w].pkts = Append(q, p)
  BY DEF Added
<1>2. p.id \in Nat  BY DEF Packets
<1>3. /\ Len(q) \in Nat /\ DOMAIN q = 1 .. Len(q) /\ q \in Seq(Packets)
      /\ \A s \in Slots : \A i \in DOMAIN r[s].pkts : i \in Nat /\ r[s].pkts[i].id \in Nat
  BY RingFacts
<1>4. /\ DOMAIN a[w].pkts = 1 .. z /\ z \in Nat /\ z >= 1
      /\ (\A i \in 1 .. Len(q) : a[w].pkts[i] = q[i]) /\ a[w].pkts[z] = p
  BY <1>1, <1>3, AppendProperties
<1>5. /\ \A i \in DOMAIN a[w].pkts : (i \in DOMAIN q /\ a[w].pkts[i] = q[i]) \/ i = z
      /\ \A i \in DOMAIN q : i \in DOMAIN a[w].pkts /\ a[w].pkts[i] = q[i] /\ i < z
      /\ \A i \in DOMAIN a[w].pkts : i \in Nat /\ i <= z
      /\ z \in DOMAIN a[w].pkts
  BY <1>3, <1>4
<1> HIDE DEF z
<1>6. \A s \in Slots : \A i \in DOMAIN a[s].pkts :
        (i \in DOMAIN r[s].pkts /\ a[s].pkts[i] = r[s].pkts[i]) \/ (s = w /\ i = z /\ a[s].pkts[i] = p)
  BY <1>1, <1>4, <1>5
<1>7. \A s \in Slots : \A i \in DOMAIN r[s].pkts : i \in DOMAIN a[s].pkts /\ a[s].pkts[i] = r[s].pkts[i]
  BY <1>1, <1>5
<1> HIDE DEF q
<1>8. \A s \in Slots : \A i \in DOMAIN r[s].pkts : r[s].pkts[i].id < p.id /\ r[s].pkts[i].id < m
  BY <1>2, <1>3 DEF InRing
<1>9. \A s \in Slots : Rising(a[s].pkts)
  <2>1. Rising(a[w].pkts)
    <3>1. \A i, j \in DOMAIN q : i < j => q[i].id < q[j].id  BY DEF InRing, Rising, q
    <3>2. \A i \in DOMAIN q : q[i].id < p.id  BY <1>8 DEF q
    <3>3. ASSUME NEW i \in DOMAIN a[w].pkts, NEW j \in DOMAIN a[w].pkts, i < j
          PROVE  a[w].pkts[i].id < a[w].pkts[j].id
      <4>1. i # z  BY <1>4, <1>5, <3>3
      <4>2. i \in DOMAIN q /\ a[w].pkts[i] = q[i]  BY <1>5, <4>1
      <4>3. CASE j = z  BY <1>4, <3>2, <4>2, <4>3
      <4>4. CASE j # z  BY <1>5, <3>1, <3>3, <4>2, <4>4
      <4>5. QED BY <4>3, <4>4
    <3>4. QED BY <3>3 DEF Rising
  <2>2. QED BY <1>1, <2>1 DEF InRing
<1>10. \A s \in Slots : r[s].user \in BOOLEAN  BY RingFacts
<1>11. \A s, t \in Slots : Ahead(s, o) < Ahead(t, o) =>
          \A i \in DOMAIN a[s].pkts, j \in DOMAIN a[t].pkts : a[s].pkts[i].id < a[t].pkts[j].id
  <2> SUFFICES ASSUME NEW s \in Slots, NEW t \in Slots, Ahead(s, o) < Ahead(t, o),
                      NEW i \in DOMAIN a[s].pkts, NEW j \in DOMAIN a[t].pkts
               PROVE  a[s].pkts[i].id < a[t].pkts[j].id
    OBVIOUS
  <2>1. Ahead(s, o) \in Nat /\ Ahead(t, o) \in Nat /\ Ahead(w, o) \in Nat
    BY AheadFacts, CaptureAssumption
  <2>2. CASE s = w
    <3>1. t # w /\ ~r[t].user  BY <2>1, <2>2 DEF InRing
    <3>2. r[t].pkts = <<>>  BY <3>1 DEF InRing
    <3>3. QED BY <1>1, <3>1, <3>2
  <2>3. CASE s # w
    <3>1. i \in DOMAIN r[s].pkts /\ a[s].pkts[i] = r[s].pkts[i]  BY <1>1, <2>3
    <3>2. CASE t = w /\ j = z  BY <1>4, <1>8, <3>1, <3>2
    <3>3. CASE ~(t = w /\ j = z)
      <4>1. j \in DOMAIN r[t].pkts /\ a[t].pkts[j] = r[t].pkts[j]  BY <1>6, <3>3
      <4>2. QED BY <3>1, <4>1 DEF InRing
    <3>4. QED BY <3>2, <3>3
  <2>4. QED BY <2>2, <2>3
<1>12. \A s \in Slots : \A i \in DOMAIN a[s].pkts : a[s].pkts[i].id < m  BY <1>6, <1>8
<1>13. \A s \in Slots : \A i \in DOMAIN a[s].pkts : i >= First(s, o, c) => l < a[s].pkts[i].id
  <2>1. l < p.id  BY DEF InRing
  <2>2. QED BY <1>6, <2>1 DEF InRing
<1>14. InRing("v3", a, w, o, c, l, m)
  <2>1. l < m  BY <1>2 DEF InRing
  <2>2. \A s \in Slots : a[s].user <=> a[w].user \/ Ahead(s, o) < Ahead(w, o)  BY <1>1 DEF InRing
  <2>3. a[w].user => w = o  BY <1>1
  <2>4. \A s \in Slots : ~a[s].user /\ s # w => a[s].pkts = <<>>  BY <1>1 DEF InRing
  <2>5. QED BY <1>9, <1>11, <1>12, <1>13, <2>1, <2>2, <2>3, <2>4 DEF InRing
<1>15. First(w, o, c) = 1
  BY DEF First
<1>16. RingIds(a, o, c) = RingIds(r, o, c) \cup {p.id}
  <2>1. p.id \in RingIds(a, o, c)  BY <1>2, <1>4, <1>5, <1>15 DEF RingIds
  <2>2. RingIds(r, o, c) \subseteq RingIds(a, o, c)  BY <1>7 DEF RingIds
  <2>3. ASSUME NEW e \in RingIds(a, o, c) PROVE e \in RingIds(r, o, c) \cup {p.id}
    BY <1>6 DEF RingIds
  <2>4. QED BY <2>1, <2>2, <2>3
<1>17. \A e \in RingIds(r, o, c) : e < p.id  BY <1>8 DEF RingIds
<1>18. Good(r) /\ ~p.bad => Good(a)  BY <1>6 DEF Good
<1>19. QED BY <1>14, <1>16, <1>17, <1>18

\* a frame is filled, and is the reader's
LEMMA RingPut ==
    ASSUME NEW g, g # "v3", NEW r \in Ring, NEW w \in Slots, NEW o \in Slots, NEW c \in Nat,
           NEW l \in Nat, NEW m \in Nat, NEW p \in Packets, p.id < m,
           InRing(g, r, w, o, c, l, p.id), ~r[w].user, c # 0 => r[o].user,
           NEW a, Put(r, a, w, p)
    PROVE  /\ InRing(g, a, (w + 1) % Frames, o, c, l, m)
           /\ RingIds(a, o, c) = RingIds(r, o, c) \cup {p.id}
           /\ \A e \in RingIds(r, o, c) : e < p.id
<1> DEFINE b == [r EXCEPT ![w] = [user |-> FALSE, pkts |-> <<p>>]]
           t == (w + 1) % Frames
<1>1. InRing("v3", r, w, o, c, l, p.id) /\ r[w].pkts = <<>>  BY DEF InRing
<1>2. r[w] \in [user : BOOLEAN, pkts : Bounded]  BY DEF Ring
<1>3. Append(r[w].pkts, p) = <<p>> /\ <<p>> \in Bounded  BY <1>1, BoundedOne
<1>4. /\ b \in Ring /\ b[w].pkts = <<p>> /\ b[w].user = FALSE
      /\ \A s \in Slots \ {w} : b[s] = r[s]
  BY <1>3 DEF Ring
<1> HIDE DEF b
<1>5. Added(r, b, w, p)  BY <1>2, <1>3, <1>4 DEF Added
<1>6. /\ InRing("v3", b, w, o, c, l, m) /\ RingIds(b, o, c) = RingIds(r, o, c) \cup {p.id}
      /\ \A e \in RingIds(r, o, c) : e < p.id
  BY <1>1, <1>5, RingAdd
<1>7. Closed(b, a, w)  BY <1>4 DEF Closed, Put
<1>8. InRing("v3", a, t, o, c, l, m) /\ RingIds(a, o, c) = RingIds(b, o, c)
  BY <1>4, <1>6, <1>7, RingClose
<1> HIDE DEF t
<1>9. \A s \in Slots : ~a[s].user => a[s].pkts = <<>>  BY DEF InRing, Put
<1>10. \A s \in Slots : a[s].user => Len(a[s].pkts) = 1
  <2>1. \A s \in Slots : r[s].user => Len(r[s].pkts) = 1  BY DEF InRing
  <2>2. Len(<<p>>) = 1  OBVIOUS
  <2>3. QED BY <2>1, <2>2 DEF Put
<1>11. InRing(g, a, t, o, c, l, m)  BY <1>8, <1>9, <1>10 DEF InRing
<1>12. QED BY <1>6, <1>8, <1>11 DEF t

\* the packets of the slots other than the reader's; they come after packet k
OtherIds(r, o) == {e \in Nat : \E s \in Slots \ {o} : \E i \in DOMAIN r[s].pkts : e = r[s].pkts[i].id}
Behind(r, o, k) == \A s \in Slots \ {o} : \A i \in DOMAIN r[s].pkts : k < r[s].pkts[i].id

\* the reader gives back its slot and goes on to the next; what comes after is unread
LEMMA RingRelease ==
    ASSUME NEW g, NEW r \in Ring, NEW w \in Slots, NEW o \in Slots, NEW c \in Nat,
           NEW l \in Nat, NEW m \in Nat, InRing(g, r, w, o, c, l, m), r[o].user,
           NEW a, Freed(r, a, o),
           NEW k \in Nat, k < m,
           Behind(r, o, k)
    PROVE  /\ InRing(g, a, w, (o + 1) % Frames, 0, k, m)
           /\ RingIds(a, (o + 1) % Frames, 0) = OtherIds(r, o)
           /\ Good(r) => Good(a)
<1> DEFINE t == (o + 1) % Frames
<1>1. /\ t \in Slots /\ Ahead(o, t) = Frames - 1
      /\ \A s \in Slots : s # o => Ahead(s, t) = Ahead(s, o) - 1
  BY AheadNext
<1> HIDE DEF t
<1>2. /\ \A s \in Slots : Ahead(s, o) \in 0 .. Frames - 1 /\ Ahead(s, t) \in 0 .. Frames - 1
      /\ \A s \in Slots : Ahead(s, o) = 0 <=> s = o
      /\ \A s, u \in Slots : Ahead(s, t) = Ahead(u, t) => s = u
  BY <1>1, AheadFacts
<1>3. Frames \in Nat /\ Frames > 0  BY CaptureAssumption
<1>4. /\ \A s \in Slots : a[s].user <=> s # o /\ r[s].user
      /\ \A s \in Slots : \A i \in DOMAIN a[s].pkts : s # o /\ a[s].pkts = r[s].pkts
      /\ \A s \in Slots : s # o => a[s].pkts = r[s].pkts
      /\ a[o].pkts = <<>> /\ ~a[o].user
  <2>1. \A s \in Slots : r[s].user \in BOOLEAN  BY RingFacts
  <2>2. DOMAIN <<>> = {}  OBVIOUS
  <2>3. QED BY <2>1, <2>2 DEF Freed
<1>5. \A s \in Slots : a[s].user <=> Ahead(s, t) < Ahead(w, t)
  <2>1. CASE r[w].user
    <3>1. w = o /\ \A s \in Slots : r[s].user  BY <2>1 DEF InRing
    <3>2. \A s \in Slots : s # o <=> Ahead(s, t) < Frames - 1  BY <1>1, <1>2, <1>3
    <3>3. QED BY <1>1, <1>4, <3>1, <3>2
  <2>2. CASE ~r[w].user
    <3>1. w # o /\ \A s \in Slots : r[s].user <=> Ahead(s, o) < Ahead(w, o)  BY <2>2 DEF InRing
    <3>2. \A s \in Slots : s # o => (Ahead(s, o) < Ahead(w, o) <=> Ahead(s, t) < Ahead(w, t))
      BY <1>1, <1>2, <3>1
    <3>3. ~(Ahead(o, t) < Ahead(w, t))  BY <1>1, <1>2, <1>3
    <3>4. QED BY <1>4, <3>1, <3>2, <3>3
  <2>3. QED BY <2>1, <2>2
<1>6. ~a[w].user  BY <1>2, <1>5
<1>7. DOMAIN <<>> = {}  OBVIOUS
<1>8. \A s \in Slots : Rising(a[s].pkts)  BY <1>4, <1>7 DEF InRing, Rising
<1>9. \A s, u \in Slots : Ahead(s, t) < Ahead(u, t) =>
          \A i \in DOMAIN a[s].pkts, j \in DOMAIN a[u].pkts : a[s].pkts[i].id < a[u].pkts[j].id
  <2>1. \A s, u \in Slots : s # o /\ u # o /\ Ahead(s, t) < Ahead(u, t) => Ahead(s, o) < Ahead(u, o)
    BY <1>1, <1>2
  <2>2. QED BY <1>4, <2>1 DEF InRing
<1>10. \A s \in Slots : ~a[s].user /\ (g # "v3" \/ s # w) => a[s].pkts = <<>>  BY <1>4 DEF InRing
<1>11. \A s \in Slots : g # "v3" /\ a[s].user => Len(a[s].pkts) = 1  BY <1>4 DEF InRing
<1>12. \A s \in Slots : \A i \in DOMAIN a[s].pkts : a[s].pkts[i].id < m /\ k < a[s].pkts[i].id
  BY <1>4 DEF InRing, Behind
<1>13. InRing(g, a, w, t, 0, k, m)
  BY <1>5, <1>6, <1>8, <1>9, <1>10, <1>11, <1>12 DEF InRing
<1>14. RingIds(a, t, 0) = OtherIds(r, o)
  <2>1. \A s \in Slots : First(s, t, 0) = 1  BY DEF First
  <2>2. \A s \in Slots : \A i \in DOMAIN r[s].pkts : i >= 1  BY RingFacts
  <2>3. \A e : e \in RingIds(a, t, 0) <=> e \in Nat /\ \E s \in Slots \ {o} : \E i \in DOMAIN r[s].pkts : e = r[s].pkts[i].id
    BY <1>4, <2>1, <2>2 DEF RingIds
  <2>4. QED BY <2>3 DEF OtherIds
<1>15. Good(r) => Good(a)  BY <1>4 DEF Good
<1>16. QED BY <1>13, <1>14, <1>15 DEF t

\* the next packet of the reader's slot is looked at
LEMMA RingLook ==
    ASSUME NEW g, NEW r \in Ring, NEW w \in Slots, NEW o \in Slots, NEW c \in Nat, NEW l \in Nat,
           NEW x \in DOMAIN r[o].pkts, x = First(o, o, c)
    PROVE  /\ r[o].pkts[x].id \in Nat
           /\ \A m \in Nat : InRing(g, r, w, o, c, l, m) =>
                /\ InRing(g, r, w, o, x + 1, r[o].pkts[x].id, m)
                /\ r[o].pkts[x].id \in RingIds(r, o, c) /\ l < r[o].pkts[x].id
                /\ RingIds(r, o, x + 1) = {f \in RingIds(r, o, c) : r[o].pkts[x].id < f}
                /\ \A f \in RingIds(r, o, c) : f = r[o].pkts[x].id \/ r[o].pkts[x].id < f
<1> DEFINE e == r[o].pkts[x].id
<1>1. /\ \A s \in Slots : \A i \in DOMAIN r[s].pkts : i \in Nat /\ i >= 1 /\ r[s].pkts[i].id \in Nat
      /\ x \in Nat /\ e \in Nat
  BY RingFacts
<1> SUFFICES ASSUME NEW m \in Nat, InRing(g, r, w, o, c, l, m)
             PROVE  /\ InRing(g, r, w, o, x + 1, e, m)
                    /\ e \in RingIds(r, o, c) /\ l < e
                    /\ RingIds(r, o, x + 1) = {f \in RingIds(r, o, c) : e < f}
                    /\ \A f \in RingIds(r, o, c) : f = e \/ e < f
  BY <1>1
<1>2. \A s \in Slots : /\ First(s, o, c) = IF s = o THEN x ELSE 1
                       /\ First(s, o, x + 1) = IF s = o THEN x + 1 ELSE 1
  BY <1>1 DEF First
<1>3. \A s \in Slots : s # o => Ahead(o, o) < Ahead(s, o)  BY AheadFacts
<1>4. \A s \in Slots : s # o => \A i \in DOMAIN r[s].pkts : e < r[s].pkts[i].id  BY <1>3 DEF InRing
<1>5. /\ \A i \in DOMAIN r[o].pkts : i >= x + 1 => e < r[o].pkts[i].id
      /\ \A i \in DOMAIN r[o].pkts : i >= x => i = x \/ i >= x + 1
  <2>1. \A i \in DOMAIN r[o].pkts : i >= x + 1 => x < i  BY <1>1
  <2>2. \A i, j \in DOMAIN r[o].pkts : i < j => r[o].pkts[i].id < r[o].pkts[j].id
    BY DEF InRing, Rising
  <2>3. QED BY <1>1, <2>1, <2>2
<1>6. l < e /\ e < m  BY <1>1, <1>2 DEF InRing
<1>7. \A s \in Slots : \A i \in DOMAIN r[s].pkts : i >= First(s, o, x + 1) => e < r[s].pkts[i].id
  BY <1>2, <1>4, <1>5
<1> HIDE DEF e
<1>8. InRing(g, r, w, o, x + 1, e, m)  BY <1>6, <1>7 DEF InRing
<1>9. \A f : f \in RingIds(r, o, c) <=>
               \/ \E i \in DOMAIN r[o].pkts : i >= x /\ f = r[o].pkts[i].id
               \/ \E s \in Slots \ {o} : \E i \in DOMAIN r[s].pkts : f = r[s].pkts[i].id
  BY <1>1, <1>2 DEF RingIds
<1>10. \A f : f \in RingIds(r, o, x + 1) <=>
               \/ \E i \in DOMAIN r[o].pkts : i >= x + 1 /\ f = r[o].pkts[i].id
               \/ \E s \in Slots \ {o} : \E i \in DOMAIN r[s].pkts : f = r[s].pkts[i].id
  BY <1>1, <1>2 DEF RingIds
<1>11. e \in RingIds(r, o, c)  BY <1>1, <1>9 DEF e
<1>12. \A f \in RingIds(r, o, c) : f = e \/ e < f
  <2>1. \A i \in DOMAIN r[o].pkts : i >= x => (r[o].pkts[i].id = e \/ e < r[o].pkts[i].id)  BY <1>5 DEF e
  <2>2. QED BY <1>4, <1>9, <2>1
<1>13. RingIds(r, o, x + 1) = {f \in RingIds(r, o, c) : e < f}
  <2>1. ASSUME NEW f \in RingIds(r, o, x + 1) PROVE f \in RingIds(r, o, c) /\ e < f
    <3>1. \A i \in DOMAIN r[o].pkts : i >= x + 1 => i >= x  BY <1>1
    <3>2. QED BY <1>4, <1>5, <1>9, <1>10, <3>1
  <2>2. ASSUME NEW f \in RingIds(r, o, c), e < f PROVE f \in RingIds(r, o, x + 1)
    <3>1. ASSUME NEW i \in DOMAIN r[o].pkts, i >= x, f = r[o].pkts[i].id PROVE f \in RingIds(r, o, x + 1)
      <4>1. i # x  BY <1>1, <2>2, <3>1 DEF e
      <4>2. QED BY <1>5, <1>10, <3>1, <4>1
    <3>2. QED BY <1>9, <1>10, <2>2, <3>1
  <2>3. QED BY <2>1, <2>2
<1>14. QED BY <1>6, <1>8, <1>11, <1>12, <1>13

-----------------------------------------------------------------------------
(* The invariant *)

Rings == {"v1", "v2", "v3"}

\* of the queue, how many packets have been looked at
Skip == IF hd.mode = "mapped" THEN call.nflush - call.todo ELSE 0

Ordered(g, k, x, n, l, m) ==
    IF g \in Rings THEN InRing(g, k.ring, k.pos, x.offset, x.current, l, m)
    ELSE InQueue(k.queue, x.buffer, n, l, m)

Ids(g, k, x, n) ==
    IF g \in Rings THEN RingIds(k.ring, x.offset, x.current) ELSE QueueIds(k.queue, x.buffer, n)

\* a USB monitor has fetched nflush events, and has looked at all but todo of them
Fetching ==
    /\ call.at = "event" => call.todo <= call.nflush /\ call.nflush <= Len(kern.queue)
    /\ call.at # "event" => call.todo = 0
    /\ call.at \notin {"read", "event"} => call.nflush = 0

\* where the reader is: it has taken packets out of the queue only while it goes through them, and
\* looks at a block from current on, of which left packets are left
Place ==
    /\ h.buffer # <<>> => call.at = "event" /\ hd.mode # "mapped"
    /\ call.at = "batch" => h.current # 0
    /\ h.current # 0 => /\ hd.mode = "v3" /\ kern.ring[h.offset].user
                        /\ h.current + h.left = Len(kern.ring[h.offset].pkts) + 1
    /\ hd.mode = "v3" => Good(kern.ring)
    /\ hd.mode = "mapped" => Fetching

\* the packet on its way, if there is one, comes after all that are stored
OnTheWay ==
    /\ \A p, q \in kern.inflight : p = q
    /\ \A p \in kern.inflight :
         /\ p.id \in 1 .. MaxPackets /\ p.id < kern.next /\ (hd.mode = "v3" => ~p.bad)
         /\ Ordered(hd.mode, kern, h, Skip, last.id, p.id)

StreamInv ==
    /\ StopInv /\ OrderedHandle /\ last.id \in Nat
    /\ Ordered(hd.mode, kern, h, Skip, last.id, kern.next)
    /\ OnTheWay /\ Place

Balance == h.recv + kern.packets - h.drop - kern.drops - h.packets_read
Change == IF Device THEN 1 ELSE Balance' - Balance

\* a step of the program: the order is kept, and the packets advance
Flow ==
    /\ last'.id \in Nat /\ kern'.inflight = kern.inflight /\ kern'.next = kern.next
    /\ \A m \in Nat : Ordered(hd.mode, kern, h, Skip, last.id, m)
                        => Ordered(hd.mode, kern', h', Skip', last'.id, m)
    /\ Advance(Ids(hd.mode, kern, h, Skip), last.id, Ids(hd.mode, kern', h', Skip'), last'.id, Change)

LEMMA StreamFacts ==
    ASSUME StreamInv
    PROVE  /\ TypeOK /\ Phase /\ h \in HandleStates /\ call \in CallStates /\ kern \in KernelStates
           /\ hd.mode \in Modes /\ last.id \in Nat /\ kern.next \in Nat
           /\ (mmapped <=> hd.mode \in Rings)
           /\ kern.ring \in Ring /\ kern.pos \in Slots /\ h.offset \in Slots /\ h.current \in Nat
           /\ h.left \in Nat /\ kern.queue \in Seq(Packets) /\ h.buffer \in Seq(Packets)
           /\ call.nflush \in Nat /\ call.todo \in Nat
           /\ h.recv \in Int /\ h.drop \in Int /\ h.packets_read \in Nat /\ kern.packets \in Nat /\ kern.drops \in Nat
           /\ Balance \in Int /\ (hd.mode # "mapped" => Skip = 0)
           /\ Skip \in Int /\ Place
           /\ \E m \in Nat : Ordered(hd.mode, kern, h, Skip, last.id, m)
<1>1. TypeOK /\ Phase /\ last.id \in Nat /\ Place  BY DEF StreamInv, StopInv
<1>2. h \in HandleStates /\ call \in CallStates /\ kern \in KernelStates  BY <1>1 DEF TypeOK
<1>3. hd.mode \in Modes /\ (mmapped <=> hd.mode \in Rings)  BY <1>1, HandleType DEF mmapped, Rings
<1>4. /\ kern.next \in Nat
      /\ kern.ring \in Ring /\ kern.pos \in Slots /\ kern.queue \in Seq(Packets)
      /\ kern.packets \in Nat /\ kern.drops \in Nat
  BY <1>2 DEF KernelStates, Bounded
<1>5. /\ h.offset \in Slots /\ h.current \in Nat /\ h.left \in Nat /\ h.buffer \in Seq(Packets)
      /\ h.recv \in Int /\ h.drop \in Int /\ h.packets_read \in Nat
  BY <1>2 DEF HandleStates, Bounded
<1>6. call.nflush \in Nat /\ call.todo \in Nat  BY <1>2 DEF CallStates
<1>7. Balance \in Int
  <2>1. \A a, b, c, d, e \in Int : a + b - c - d - e \in Int  OBVIOUS
  <2>2. kern.packets \in Int /\ kern.drops \in Int /\ h.packets_read \in Int  BY <1>4, <1>5
  <2>3. QED BY <1>5, <2>1, <2>2 DEF Balance
<1>8. (hd.mode # "mapped" => Skip = 0) /\ Skip \in Int  BY <1>6 DEF Skip
<1>9. \E m \in Nat : Ordered(hd.mode, kern, h, Skip, last.id, m)  BY <1>4 DEF StreamInv
<1>10. QED BY <1>1, <1>2, <1>3, <1>4, <1>5, <1>6, <1>7, <1>8, <1>9

\* a step that leaves the buffers and the reader's place in them alone
LEMMA QuietFlow ==
    ASSUME StreamInv, UNCHANGED hd, last'.id = last.id,
           kern'.queue = kern.queue, kern'.ring = kern.ring, kern'.pos = kern.pos,
           kern'.inflight = kern.inflight, kern'.next = kern.next,
           h'.offset = h.offset, h'.current = h.current, h'.buffer = h.buffer,
           hd.mode = "mapped" => Skip' = Skip,
           ~Device => Balance' >= Balance /\ Balance' \in Int
    PROVE  Flow
<1>1. last.id \in Nat /\ Balance \in Int  BY StreamFacts
<1>2. Skip' = Skip  BY DEF Skip
<1>3. /\ \A m \in Nat : Ordered(hd.mode, kern, h, Skip, last.id, m)
                          => Ordered(hd.mode, kern', h', Skip', last'.id, m)
      /\ Ids(hd.mode, kern', h', Skip') = Ids(hd.mode, kern, h, Skip)
  BY <1>2 DEF Ordered, Ids
<1>4. Change >= 0  BY <1>1 DEF Change
<1>5. QED BY <1>1, <1>3, <1>4 DEF Flow, Advance

\* a call that returns: the next turn of pcap_loop(), if there is one, starts anew
LEMMA ReturnPlace ==
    ASSUME TypeOK, NEW n \in Int, NEW g \in Nat, Return(n, g)
    PROVE  /\ call'.nflush = 0 /\ call'.todo \in {0, call.todo}
           /\ call'.at \in Starts \cup {"idle"} /\ call'.at \notin {"batch", "event"}
<1>1. call'.at \in Starts \cup {"idle"}  BY ReturnType
<1>2. call \in CallStates  BY DEF TypeOK
<1> DEFINE c == [call EXCEPT !.given = @ + g]
           ends == [Idle EXCEPT !.cnt = c.cnt, !.given = c.given]
           cnt == IF Unlimited(call.max) THEN call.max ELSE call.max - n
<1>3. call' = ends \/ call' = Reading(c, cnt)  BY DEF Return
<1>4. ends.nflush = 0 /\ ends.todo = 0  BY DEF Idle
<1>6. Reading(c, cnt).nflush = 0 /\ Reading(c, cnt).todo = call.todo
  BY <1>2 DEF Reading, CallStates
<1>7. call'.nflush = 0 /\ call'.todo \in {0, call.todo}
  <2> HIDE DEF ends, c, cnt
  <2>1. QED BY <1>3, <1>4, <1>6
<1>8. QED BY <1>1, <1>7 DEF Starts

-----------------------------------------------------------------------------
(* The kernel *)

Gain(k, y) == IF Device THEN 1 ELSE (y.packets - k.packets) - (y.drops - k.drops)

\* what storing packet p does to the buffers of k, which it leaves as y
StoredOutcome(k, y, p, m) ==
    /\ Ordered(hd.mode, y, h, Skip, last.id, m)
    /\ Advance(Ids(hd.mode, k, h, Skip), last.id, Ids(hd.mode, y, h, Skip), last.id, Gain(k, y))
    /\ y.inflight = k.inflight /\ y.next = k.next
    /\ hd.mode = "v3" => Good(y.ring)
    /\ \A s \in Slots : k.ring[s].user => y.ring[s] = k.ring[s]
    /\ Len(y.queue) >= Len(k.queue)

LEMMA OrderedLater ==
    ASSUME NEW g, NEW k \in KernelStates, NEW x \in HandleStates, NEW n, NEW l \in Nat, NEW e \in Nat,
           NEW m \in Nat, e <= m, Ordered(g, k, x, n, l, e)
    PROVE  Ordered(g, k, x, n, l, m)
<1>1. \A a \in Nat : a < e => a < m  OBVIOUS
<1>2. /\ k.ring \in Ring /\ k.queue \in Seq(Packets) /\ x.buffer \in Seq(Packets)
  BY DEF KernelStates, HandleStates, Bounded
<1>3. CASE g \in Rings
  <2>1. \A s \in Slots : \A i \in DOMAIN k.ring[s].pkts : k.ring[s].pkts[i].id \in Nat
    BY <1>2, RingFacts
  <2>2. InRing(g, k.ring, k.pos, x.offset, x.current, l, e)  BY <1>3 DEF Ordered
  <2>3. InRing(g, k.ring, k.pos, x.offset, x.current, l, m)  BY <1>1, <2>1, <2>2 DEF InRing
  <2>4. QED BY <1>3, <2>3 DEF Ordered
<1>4. CASE g \notin Rings
  <2>1. /\ \A i \in DOMAIN k.queue : k.queue[i].id \in Nat
        /\ \A i \in DOMAIN x.buffer : x.buffer[i].id \in Nat
    BY <1>2, SeqFacts
  <2>2. InQueue(k.queue, x.buffer, n, l, e)  BY <1>4 DEF Ordered
  <2>3. InQueue(k.queue, x.buffer, n, l, m)  BY <1>1, <2>1, <2>2 DEF InQueue
  <2>4. QED BY <1>4, <2>3 DEF Ordered
<1>5. QED BY <1>3, <1>4

LEMMA StoredFlow ==
    ASSUME StreamInv, NEW k \in KernelStates, k.ring = kern.ring, NEW p \in Packets, NEW m \in Nat,
           p.id \in 1 .. MaxPackets, p.id < m, Ordered(hd.mode, k, h, Skip, last.id, p.id),
           hd.mode = "v3" => ~p.bad
    PROVE  StoredOutcome(k, Stored(k, p), p, m)
<1> DEFINE y == Stored(k, p)
           w == k.pos
           t == (w + 1) % Frames
           full == Len(k.ring[w].pkts) = BlockCap
           a == k.packets
           c == [k EXCEPT !.packets = @ + 1]
           g == hd.mode
           l == last.id
<1>1. /\ k.ring \in Ring /\ w \in Slots /\ k.queue \in Seq(Packets) /\ k.packets \in Nat /\ k.drops \in Nat
      /\ h.buffer \in Seq(Packets) /\ h.offset \in Slots /\ h.current \in Nat /\ l \in Nat
      /\ Skip \in Int /\ g \in Modes /\ (mmapped <=> g \in Rings) /\ Place /\ Len(k.queue) \in Nat
  BY StreamFacts DEF KernelStates, Bounded
<1>2. t \in Slots /\ p.id \in Nat  BY <1>1, NextSlot
<1>3. h.current # 0 => k.ring[h.offset].user  BY <1>1 DEF Place
<1>4. g = "v3" => Good(k.ring)  BY <1>1 DEF Place
<1>5. /\ c.ring = k.ring /\ c.queue = k.queue /\ c.pos = w /\ c.inflight = k.inflight /\ c.next = k.next
      /\ c.packets = k.packets + 1 /\ c.drops = k.drops /\ c \in KernelStates
  BY DEF KernelStates
<1>6. l < p.id  BY DEF Ordered, InRing, InQueue
<1> HIDE DEF w, t, c
<1>7. CASE ~mmapped /\ Len(k.queue) < BlockCap
  <2>1. y = [c EXCEPT !.queue = Append(@, p), !.held = IF hd.mode = "nfqueue" THEN @ \cup {p.id} ELSE @]
    BY <1>7 DEF Stored, mmapped, c
  <2>2. /\ y.queue = Append(k.queue, p) /\ y.inflight = k.inflight /\ y.next = k.next /\ y.ring = k.ring
        /\ y.packets = k.packets + 1 /\ y.drops = k.drops
    BY <1>5, <2>1 DEF KernelStates
  <2> HIDE DEF y
  <2>3. g \notin Rings /\ InQueue(k.queue, h.buffer, Skip, l, p.id)  BY <1>1, <1>7 DEF Ordered
  <2>4. /\ InQueue(y.queue, h.buffer, Skip, l, m)
        /\ \/ QueueIds(y.queue, h.buffer, Skip) = QueueIds(k.queue, h.buffer, Skip)
           \/ QueueIds(y.queue, h.buffer, Skip) = QueueIds(k.queue, h.buffer, Skip) \cup {p.id}
        /\ \A e \in QueueIds(k.queue, h.buffer, Skip) : e < p.id
    <3> DEFINE q == k.queue
               b == h.buffer
               s == Skip
    <3>1. q \in Seq(Packets) /\ b \in Seq(Packets) /\ s \in Int /\ l \in Nat  BY <1>1
    <3>2. InQueue(q, b, s, l, p.id)  BY <2>3
    <3> HIDE DEF q, b, s, l
    <3>3. /\ InQueue(Append(q, p), b, s, l, m)
          /\ \/ QueueIds(Append(q, p), b, s) = QueueIds(q, b, s)
             \/ QueueIds(Append(q, p), b, s) = QueueIds(q, b, s) \cup {p.id}
          /\ \A e \in QueueIds(q, b, s) : e < p.id
      BY <3>1, <3>2, QueueAppend
    <3> USE DEF q, b, s, l
    <3>4. QED BY <2>2, <3>3
  <2>5. Ordered(g, y, h, Skip, l, m)  BY <2>3, <2>4 DEF Ordered
  <2>6. Gain(k, y) >= 1 /\ Gain(k, y) >= 0
    <3>1. (y.packets - k.packets) - (y.drops - k.drops) = 1  BY <1>1, <2>2
    <3>2. QED BY <3>1 DEF Gain
  <2>7. Advance(Ids(g, k, h, Skip), l, Ids(g, y, h, Skip), l, Gain(k, y))
    BY <1>6, <2>3, <2>4, <2>6 DEF Ids, Advance
  <2>8. Len(y.queue) >= Len(k.queue)
    <3>1. Len(y.queue) = Len(k.queue) + 1  BY <1>1, <2>2, AppendProperties
    <3>2. QED BY <1>1, <3>1
  <2>9. g # "v3"  BY <2>3 DEF Rings
  <2>10. QED BY <2>2, <2>5, <2>7, <2>8, <2>9 DEF StoredOutcome, y
<1>8. ASSUME y.packets = k.packets + 1, y.drops = k.drops PROVE Gain(k, y) >= 1 /\ Gain(k, y) >= 0
  <2> HIDE DEF y
  <2>1. (y.packets - k.packets) - (y.drops - k.drops) = 1  BY <1>1, <1>8
  <2>2. QED BY <2>1 DEF Gain
<1>9. ASSUME y.packets = k.packets + 1, y.drops = k.drops + 1 PROVE Gain(k, y) >= 0
  <2> HIDE DEF y
  <2>1. (y.packets - k.packets) - (y.drops - k.drops) = 0  BY <1>1, <1>9
  <2>2. QED BY <2>1 DEF Gain
<1> DEFINE o == h.offset
           u == h.current
<1>10. mmapped => g \in Rings /\ InRing(g, k.ring, w, o, u, l, p.id)  BY <1>1 DEF Ordered, w
<1>11. ASSUME mmapped, y.inflight = k.inflight, y.next = k.next, y.queue = k.queue,
              InRing(g, y.ring, y.pos, o, u, l, m), g = "v3" => Good(y.ring),
              \A s \in Slots : k.ring[s].user => y.ring[s] = k.ring[s],
              \/ RingIds(y.ring, o, u) = RingIds(k.ring, o, u) /\ Gain(k, y) >= 0
              \/ /\ RingIds(y.ring, o, u) = RingIds(k.ring, o, u) \cup {p.id} /\ Gain(k, y) >= 1
                 /\ \A e \in RingIds(k.ring, o, u) : e < p.id
       PROVE  StoredOutcome(k, y, p, m)
  <2> HIDE DEF y
  <2>1. Ordered(g, y, h, Skip, l, m)  BY <1>10, <1>11 DEF Ordered
  <2>2. Advance(Ids(g, k, h, Skip), l, Ids(g, y, h, Skip), l, Gain(k, y))
    BY <1>6, <1>10, <1>11 DEF Ids, Advance
  <2>3. Len(y.queue) >= Len(k.queue)  BY <1>1, <1>11
  <2>4. QED BY <1>11, <2>1, <2>2, <2>3 DEF StoredOutcome
<1>12. CASE IF mmapped THEN k.ring[w].user ELSE ~(Len(k.queue) < BlockCap)
  <2>1. y = Dropped(k)  BY <1>12 DEF Stored, mmapped, w
  <2>2. /\ y.queue = k.queue /\ y.inflight = k.inflight /\ y.next = k.next /\ y.ring = k.ring
        /\ y.packets = k.packets + 1 /\ y.drops = k.drops + 1 /\ y.pos = k.pos
    BY <2>1 DEF Dropped, KernelStates
  <2>3. Gain(k, y) >= 0  BY <1>9, <2>2
  <2> HIDE DEF y
  <2>4. Ordered(g, k, h, Skip, l, m)
    <3> DEFINE s == Skip
    <3>1. h \in HandleStates /\ l \in Nat /\ p.id \in Nat /\ p.id <= m  BY <1>1, <1>2, StreamFacts
    <3>2. Ordered(g, k, h, s, l, p.id)  OBVIOUS
    <3> HIDE DEF g, l, s
    <3>3. Ordered(g, k, h, s, l, m)  BY <3>1, <3>2, OrderedLater
    <3>4. QED BY <3>3 DEF s
  <2>5. Ordered(g, y, h, Skip, l, m) /\ Ids(g, y, h, Skip) = Ids(g, k, h, Skip)
    BY <2>2, <2>4 DEF Ordered, Ids
  <2>6. QED BY <1>1, <1>4, <2>2, <2>3, <2>5 DEF StoredOutcome, Advance, y
<1>13. CASE mmapped /\ g # "v3" /\ ~k.ring[w].user
  <2>1. y = [c EXCEPT !.ring[w] = [user |-> TRUE, pkts |-> <<p>>], !.pos = t]
    BY <1>13 DEF Stored, mmapped, c, w, t
  <2>2. /\ y.queue = k.queue /\ y.inflight = k.inflight /\ y.next = k.next
        /\ y.packets = k.packets + 1 /\ y.drops = k.drops /\ y.pos = t
        /\ y.ring = [k.ring EXCEPT ![w] = [user |-> TRUE, pkts |-> <<p>>]]
    BY <1>5, <2>1 DEF KernelStates
  <2>3. Put(k.ring, y.ring, w, p)  BY <1>1, <2>2 DEF Put, Ring
  <2>4. /\ InRing(g, y.ring, t, o, u, l, m)
        /\ RingIds(y.ring, o, u) = RingIds(k.ring, o, u) \cup {p.id}
        /\ \A e \in RingIds(k.ring, o, u) : e < p.id
    <3> HIDE DEF y
    <3>1. QED BY <1>1, <1>3, <1>10, <1>13, <2>3, RingPut DEF t
  <2>5. \A s \in Slots : k.ring[s].user => y.ring[s] = k.ring[s]  BY <1>13, <2>3 DEF Put
  <2>6. QED BY <1>8, <1>11, <1>13, <2>2, <2>4, <2>5
<1>14. CASE g = "v3" /\ ~k.ring[w].user /\ ~full
  <2>1. y = [c EXCEPT !.ring[w].pkts = Append(@, p)]
    BY <1>14 DEF Stored, mmapped, c, w
  <2>2. /\ y.queue = k.queue /\ y.inflight = k.inflight /\ y.next = k.next
        /\ y.packets = k.packets + 1 /\ y.drops = k.drops /\ y.pos = w
        /\ y.ring = [k.ring EXCEPT ![w].pkts = Append(@, p)]
    BY <1>5, <2>1 DEF KernelStates
  <2>3. Added(k.ring, y.ring, w, p)  BY <1>1, <2>2 DEF Added, Ring
  <2>4. mmapped  BY <1>1, <1>14 DEF Rings
  <2>5. /\ InRing("v3", y.ring, w, o, u, l, m)
        /\ RingIds(y.ring, o, u) = RingIds(k.ring, o, u) \cup {p.id}
        /\ \A e \in RingIds(k.ring, o, u) : e < p.id
        /\ Good(y.ring)
    <3> HIDE DEF y
    <3>1. InRing("v3", k.ring, w, o, u, l, p.id) /\ Good(k.ring) /\ ~p.bad /\ ~k.ring[w].user
      BY <1>4, <1>10, <1>14, <2>4
    <3> DEFINE r == k.ring
               z == y.ring
    <3>2. r \in Ring /\ w \in Slots /\ o \in Slots /\ u \in Nat /\ l \in Nat  BY <1>1
    <3>3. u # 0 => r[o].user  BY <1>3
    <3>4. Added(r, z, w, p)  BY <2>3
    <3>5. InRing("v3", r, w, o, u, l, p.id) /\ Good(r) /\ ~r[w].user  BY <3>1
    <3> HIDE DEF o, u, l, r, z
    <3>6. /\ InRing("v3", z, w, o, u, l, m)
          /\ RingIds(z, o, u) = RingIds(r, o, u) \cup {p.id}
          /\ \A e \in RingIds(r, o, u) : e < p.id
          /\ Good(z)
      BY <3>1, <3>2, <3>3, <3>4, <3>5, RingAdd
    <3>7. QED BY <3>6 DEF r, z
  <2>6. \A s \in Slots : k.ring[s].user => y.ring[s] = k.ring[s]  BY <1>1, <1>14, <2>2 DEF Ring
  <2>7. QED BY <1>8, <1>11, <1>14, <2>2, <2>4, <2>5, <2>6
<1>15. CASE g = "v3" /\ ~k.ring[w].user /\ full
  <2> DEFINE closed == [c EXCEPT !.ring[w].user = TRUE, !.pos = t]
             b == [k.ring EXCEPT ![w].user = TRUE]
  <2>1. /\ closed.ring = b /\ closed.queue = k.queue /\ closed.inflight = k.inflight
        /\ closed.next = k.next /\ closed.packets = k.packets + 1 /\ closed.drops = k.drops
        /\ closed.pos = t /\ DOMAIN closed = DOMAIN k
    BY <1>5 DEF KernelStates
  <2>2. Closed(k.ring, b, w) /\ b \in Ring  BY <1>1 DEF Closed, Ring
  <2>3. mmapped  BY <1>1, <1>15 DEF Rings
  <2>4. \A s \in Slots : k.ring[s].user => b[s] = k.ring[s]  BY <1>1, <1>15 DEF Ring
  <2> HIDE DEF b
  <2>5. /\ InRing("v3", b, t, o, u, l, p.id) /\ RingIds(b, o, u) = RingIds(k.ring, o, u) /\ Good(b)
    <3>1. InRing("v3", k.ring, w, o, u, l, p.id) /\ Good(k.ring) /\ ~k.ring[w].user
      BY <1>4, <1>10, <1>15, <2>3
    <3>2. k.ring \in Ring /\ w \in Slots /\ o \in Slots /\ u \in Nat /\ l \in Nat  BY <1>1
    <3> HIDE DEF o, u, l
    <3>3. QED BY <1>2, <2>2, <3>1, <3>2, RingClose DEF t
  <2>6. CASE ~k.ring[t].user /\ w # t
    <3>1. y = [closed EXCEPT !.ring[t].pkts = <<p>>]
      BY <1>15, <2>6 DEF Stored, mmapped, c, w, t
    <3> HIDE DEF closed
    <3>2. /\ y.queue = k.queue /\ y.inflight = k.inflight /\ y.next = k.next
          /\ y.packets = k.packets + 1 /\ y.drops = k.drops /\ y.pos = t
          /\ y.ring = [b EXCEPT ![t].pkts = <<p>>]
      BY <2>1, <3>1 DEF KernelStates
    <3>3. k.ring[t].pkts = <<>> /\ b[t].pkts = <<>> /\ b[t].user = k.ring[t].user
      BY <1>2, <1>10, <1>15, <2>2, <2>3, <2>6 DEF InRing, Closed
    <3>4. Append(b[t].pkts, p) = <<p>>  BY <3>3
    <3>5. Added(b, y.ring, t, p)  BY <1>2, <2>2, <3>2, <3>4 DEF Added, Ring
    <3>6. u # 0 => b[o].user  BY <1>1, <1>3, <2>4
    <3>7. /\ InRing("v3", y.ring, t, o, u, l, m)
          /\ RingIds(y.ring, o, u) = RingIds(b, o, u) \cup {p.id}
          /\ \A e \in RingIds(b, o, u) : e < p.id
          /\ Good(y.ring)
      <4> HIDE DEF y
      <4> DEFINE z == y.ring
      <4>1. o \in Slots /\ u \in Nat /\ l \in Nat /\ ~b[t].user /\ ~p.bad  BY <1>1, <1>15, <2>6, <3>3
      <4>2. b \in Ring /\ t \in Slots /\ Good(b) /\ InRing("v3", b, t, o, u, l, p.id)  BY <1>2, <2>2, <2>5
      <4>3. Added(b, z, t, p)  BY <3>5
      <4> HIDE DEF o, u, l, z
      <4>4. /\ InRing("v3", z, t, o, u, l, m)
            /\ RingIds(z, o, u) = RingIds(b, o, u) \cup {p.id}
            /\ \A e \in RingIds(b, o, u) : e < p.id
            /\ Good(z)
        BY <3>6, <4>1, <4>2, <4>3, RingAdd
      <4>5. QED BY <4>4 DEF z
    <3>8. \A s \in Slots : k.ring[s].user => y.ring[s] = k.ring[s]
      BY <2>2, <2>4, <2>6, <3>2 DEF Ring
    <3>9. QED BY <1>8, <1>11, <1>15, <2>3, <2>5, <3>2, <3>7, <3>8
  <2>7. CASE ~(~k.ring[t].user /\ w # t)
    <3>1. y = [closed EXCEPT !.drops = @ + 1]  BY <1>15, <2>7 DEF Stored, mmapped, c, w, t
    <3> HIDE DEF closed
    <3>2. /\ y.queue = k.queue /\ y.inflight = k.inflight /\ y.next = k.next
          /\ y.packets = k.packets + 1 /\ y.drops = k.drops + 1 /\ y.pos = t /\ y.ring = b
      BY <2>1, <3>1 DEF KernelStates
    <3>3. InRing("v3", b, t, o, u, l, m)
      <4>1. \A s \in Slots : \A i \in DOMAIN b[s].pkts : b[s].pkts[i].id \in Nat  BY <2>2, RingFacts
      <4>2. \A e \in Nat : e < p.id => e < m  BY <1>2
      <4>3. QED BY <1>1, <2>5, <4>1, <4>2 DEF InRing
    <3>4. QED BY <1>9, <1>11, <1>15, <2>3, <2>4, <2>5, <3>2, <3>3
  <2>8. QED BY <2>6, <2>7
<1>16. QED BY <1>7, <1>12, <1>13, <1>14, <1>15, <1>1 DEF Rings

\* what a step is to show
Streams ==
    /\ last'.id \in Nat /\ Ordered(hd.mode, kern', h', Skip', last'.id, kern'.next) /\ OnTheWay' /\ Place'
    /\ Advance(Ids(hd.mode, kern, h, Skip), last.id, Ids(hd.mode, kern', h', Skip'), last'.id, Change)

LEMMA FlowStreams ==
    ASSUME StreamInv, UNCHANGED hd, Flow, Place'
    PROVE  Streams
<1>1. kern.next \in Nat /\ kern.inflight \subseteq Packets  BY StreamFacts DEF KernelStates
<1>2. \A p \in kern.inflight : p.id \in Nat  BY <1>1 DEF Packets
<1>3. Ordered(hd.mode, kern', h', Skip', last'.id, kern'.next)  BY <1>1 DEF Flow, StreamInv
<1>4. OnTheWay'
  <2>1. \A p \in kern.inflight : Ordered(hd.mode, kern', h', Skip', last'.id, p.id)
    BY <1>2 DEF Flow, StreamInv, OnTheWay
  <2>2. QED BY <2>1 DEF Flow, StreamInv, OnTheWay
<1>5. QED BY <1>3, <1>4 DEF Streams, Flow

LEMMA StoredPlace ==
    ASSUME StreamInv, UNCHANGED <<hd, h, call>>, kern' \in KernelStates,
           \A s \in Slots : kern.ring[s].user => kern'.ring[s] = kern.ring[s],
           Len(kern'.queue) >= Len(kern.queue), hd.mode = "v3" => Good(kern'.ring)
    PROVE  Place'
<1>1. Place /\ h.offset \in Slots /\ Len(kern.queue) \in Nat /\ call.nflush \in Nat  BY StreamFacts
<1>2. Len(kern'.queue) \in Nat
  <2>1. kern'.queue \in Seq(Packets)  BY DEF KernelStates, Bounded
  <2>2. QED BY <2>1
<1>3. h.current # 0 => kern'.ring[h.offset] = kern.ring[h.offset]  BY <1>1 DEF Place
<1>4. call.nflush <= Len(kern.queue) => call.nflush <= Len(kern'.queue)  BY <1>1, <1>2
<1>5. QED BY <1>1, <1>3, <1>4 DEF Place, Fetching

\* a packet is filtered, and stored if it passes
LEMMA ReceivedStreams ==
    ASSUME StreamInv, UNCHANGED <<hd, h, call, last>>, kern.inflight = {}, kern.next <= MaxPackets,
           NEW t \in hd.traffic, kern' = Received(t)
    PROVE  Streams
<1> DEFINE p == Filtered(Numbered(t), kern.filter)
           k == Arrived
           m == kern.next + 1
<1>1. /\ TypeOK /\ kern \in KernelStates /\ kern.next \in Nat /\ last.id \in Nat /\ h \in HandleStates
      /\ hd.mode \in Modes /\ Skip \in Int /\ Place /\ Balance \in Int
      /\ h.recv \in Int /\ h.drop \in Int /\ h.packets_read \in Nat
      /\ kern.packets \in Nat /\ kern.drops \in Nat
  BY StreamFacts
<1>2. p \in Packets /\ k \in KernelStates  BY <1>1, ReceivedType
<1>3. p.id = kern.next /\ p.bad = t.bad
  <2>1. t \in Packets /\ kern.filter \in Filters  BY <1>1, HandleType DEF KernelStates
  <2>2. Numbered(t) \in Packets /\ Numbered(t).id = kern.next /\ Numbered(t).bad = t.bad
    BY <1>1, <2>1, FilteredType DEF Numbered, Packets
  <2>3. Filtered(Numbered(t), kern.filter).bad = Numbered(t).bad
    BY <2>2 DEF Filtered, Packets
  <2>4. QED BY <2>1, <2>2, <2>3, FilteredType
<1>4. /\ k.next = m /\ k.queue = kern.queue /\ k.ring = kern.ring /\ k.pos = kern.pos
      /\ k.inflight = {} /\ k.packets = kern.packets /\ k.drops = kern.drops
  BY <1>1 DEF Arrived, KernelStates
<1>5. kern' = Stored(k, p) \/ kern' = k  BY DEF Received
<1> HIDE DEF p, k
<1>6. Ordered(hd.mode, k, h, Skip, last.id, kern.next)  BY <1>4 DEF StreamInv, Ordered
<1>7. last.id < kern.next  BY DEF StreamInv, Ordered, InRing, InQueue
<1>8. p.id \in 1 .. MaxPackets /\ p.id < m /\ m \in Nat  BY <1>1, <1>3, <1>7, CaptureAssumption
<1>9. hd.mode = "v3" => ~p.bad  BY <1>3 DEF StreamInv, OrderedHandle
<1>10. Skip' = Skip  BY DEF Skip
<1>11. Ids(hd.mode, k, h, Skip) = Ids(hd.mode, kern, h, Skip)  BY <1>4 DEF Ids
<1>12. CASE kern' = Stored(k, p)
  <2>1. StoredOutcome(k, kern', p, m)
    <3>1. Ordered(hd.mode, k, h, Skip, last.id, p.id)  BY <1>3, <1>6
    <3>2. QED BY <1>2, <1>4, <1>8, <1>9, <1>12, <3>1, StoredFlow
  <2>2. kern' \in KernelStates  BY <1>2, <1>12, StoredType
  <2>3. Change = Gain(k, kern')
    <3>1. kern'.packets \in Nat /\ kern'.drops \in Nat  BY <2>2 DEF KernelStates
    <3>2. \A a, b, c, d, e, f, g \in Int :
            (a + b - c - d - e) - (a + f - c - g - e) = (b - f) - (d - g)
      OBVIOUS
    <3>3. Balance' - Balance = (kern'.packets - kern.packets) - (kern'.drops - kern.drops)
      <4>1. /\ Balance' = h.recv + kern'.packets - h.drop - kern'.drops - h.packets_read
            /\ Balance = h.recv + kern.packets - h.drop - kern.drops - h.packets_read
        BY DEF Balance
      <4>2. /\ h.recv \in Int /\ kern'.packets \in Int /\ h.drop \in Int /\ kern'.drops \in Int
            /\ h.packets_read \in Int /\ kern.packets \in Int /\ kern.drops \in Int
        BY <1>1, <3>1
      <4>3. QED BY <3>2, <4>1, <4>2
    <3>4. QED BY <1>4, <3>3 DEF Change, Gain
  <2>4. OnTheWay'
    <3>1. kern'.inflight = {}  BY <1>4, <2>1 DEF StoredOutcome
    <3>2. QED BY <3>1 DEF OnTheWay
  <2>5. Place'
    <3>1. \A s \in Slots : kern.ring[s].user => kern'.ring[s] = kern.ring[s]
      BY <1>4, <2>1 DEF StoredOutcome
    <3>2. Len(kern'.queue) >= Len(kern.queue) /\ (hd.mode = "v3" => Good(kern'.ring))
      BY <1>4, <2>1 DEF StoredOutcome
    <3>3. QED BY <2>2, <3>1, <3>2, StoredPlace
  <2>6. QED BY <1>1, <1>4, <1>10, <1>11, <2>1, <2>3, <2>4, <2>5 DEF Streams, StoredOutcome
<1>13. CASE kern' = k
  <2>1. Ordered(hd.mode, k, h, Skip, last.id, m)  BY <1>1, <1>2, <1>6, <1>8, OrderedLater
  <2>2. Change >= 0
    <3>1. Balance' = Balance  BY <1>4, <1>13 DEF Balance
    <3>2. QED BY <1>1, <3>1 DEF Change
  <2>3. OnTheWay'  BY <1>4, <1>13 DEF OnTheWay
  <2>4. Place'  BY <1>1, <1>4, <1>13 DEF Place, Fetching
  <2>5. QED BY <1>1, <1>4, <1>10, <1>11, <1>13, <2>1, <2>2, <2>3, <2>4 DEF Streams, Advance
<1>14. QED BY <1>5, <1>12, <1>13

LEMMA KernelStreams ==
    ASSUME StreamInv, Kernel \/ pcap_inject
    PROVE  Streams
<1>1. /\ TypeOK /\ kern \in KernelStates /\ kern.next \in Nat /\ last.id \in Nat /\ h \in HandleStates
      /\ hd.mode \in Modes /\ Skip \in Int /\ Place /\ Balance \in Int
      /\ h.recv \in Int /\ h.drop \in Int /\ h.packets_read \in Nat
      /\ kern.packets \in Nat /\ kern.drops \in Nat
  BY StreamFacts
<1>2. UNCHANGED <<hd, h, call, last>>
  BY DEF Kernel, Arrive, Store, RetireBlock, pcap_inject, Do
<1>3. Skip' = Skip  BY <1>2 DEF Skip
<1>4. CASE pcap_inject  BY <1>2, <1>4, ReceivedStreams DEF pcap_inject, Do
<1>5. CASE Arrive
  <2>1. PICK t \in hd.traffic :
          \/ kern.inflight = {} /\ kern' = Received(t)
          \/ /\ Cardinality(kern.inflight) < CPUs[hd.mode]
             /\ kern' = [Arrived EXCEPT !.inflight = @ \cup {Filtered(Numbered(t), kern.filter)}]
    BY <1>5 DEF Arrive
  <2>2. kern.next <= MaxPackets  BY <1>5 DEF Arrive
  <2>3. CASE kern.inflight = {} /\ kern' = Received(t)  BY <1>2, <2>2, <2>3, ReceivedStreams
  <2>4. CASE /\ Cardinality(kern.inflight) < CPUs[hd.mode]
             /\ kern' = [Arrived EXCEPT !.inflight = @ \cup {Filtered(Numbered(t), kern.filter)}]
    <3> DEFINE p == Filtered(Numbered(t), kern.filter)
    <3>1. kern.inflight = {}
      <4>1. CPUs[hd.mode] \in {0, 1}  BY DEF StreamInv, OrderedHandle
      <4>2. ASSUME NEW q \in kern.inflight PROVE FALSE
        <5>1. kern.inflight = {q}  BY <4>2 DEF StreamInv, OnTheWay
        <5>2. Cardinality({q}) = 1  BY FS_Singleton
        <5>3. QED BY <2>4, <4>1, <5>1, <5>2
      <4>3. QED BY <4>2
    <3>2. p \in Packets /\ Arrived \in KernelStates  BY <1>1, ReceivedType
    <3>3. p.id = kern.next /\ p.bad = t.bad
      <4>1. t \in Packets /\ kern.filter \in Filters  BY <1>1, HandleType DEF KernelStates
      <4>2. Numbered(t) \in Packets /\ Numbered(t).id = kern.next /\ Numbered(t).bad = t.bad
        BY <1>1, <4>1, FilteredType DEF Numbered, Packets
      <4>3. Filtered(Numbered(t), kern.filter).bad = Numbered(t).bad
        BY <4>2 DEF Filtered, Packets
      <4>4. QED BY <4>1, <4>2, <4>3, FilteredType
    <3>4. /\ Arrived.next = kern.next + 1 /\ Arrived.queue = kern.queue /\ Arrived.ring = kern.ring
          /\ Arrived.pos = kern.pos /\ Arrived.inflight = {} /\ Arrived.packets = kern.packets
          /\ Arrived.drops = kern.drops
      BY <1>1, <3>1 DEF Arrived, KernelStates
    <3> HIDE DEF p
    <3>5. /\ kern'.next = kern.next + 1 /\ kern'.queue = kern.queue /\ kern'.ring = kern.ring
          /\ kern'.pos = kern.pos /\ kern'.inflight = {p} /\ kern'.packets = kern.packets
          /\ kern'.drops = kern.drops
      <4>1. kern' = [Arrived EXCEPT !.inflight = @ \cup {p}]  BY <2>4 DEF p
      <4>2. QED BY <3>2, <3>4, <4>1 DEF KernelStates
    <3>6. kern' \in KernelStates
      <4>1. kern' = [Arrived EXCEPT !.inflight = @ \cup {p}]  BY <2>4 DEF p
      <4>2. Arrived.inflight \cup {p} \in SUBSET Packets  BY <3>2 DEF KernelStates
      <4>3. QED BY <3>2, <4>1, <4>2 DEF KernelStates
    <3>7. Ordered(hd.mode, kern', h, Skip, last.id, kern.next)  BY <3>5 DEF StreamInv, Ordered
    <3>8. last.id < kern.next  BY DEF StreamInv, Ordered, InRing, InQueue
    <3>9. Ordered(hd.mode, kern', h, Skip, last.id, kern'.next)
      BY <1>1, <3>5, <3>6, <3>7, OrderedLater
    <3>10. OnTheWay'
      <4>1. p.id \in 1 .. MaxPackets /\ p.id < kern'.next
        BY <1>1, <2>2, <3>3, <3>5, <3>8, CaptureAssumption
      <4>2. hd.mode = "v3" => ~p.bad  BY <3>3 DEF StreamInv, OrderedHandle
      <4>3. Ordered(hd.mode, kern', h', Skip', last'.id, p.id)  BY <1>2, <1>3, <3>3, <3>7
      <4>4. QED BY <1>2, <3>5, <4>1, <4>2, <4>3 DEF OnTheWay
    <3>11. Place'  BY <1>1, <1>2, <3>5 DEF Place, Fetching
    <3>12. Change >= 0
      <4>1. Balance' = Balance  BY <1>2, <3>5 DEF Balance
      <4>2. QED BY <1>1, <4>1 DEF Change
    <3>13. Ids(hd.mode, kern', h', Skip') = Ids(hd.mode, kern, h, Skip)  BY <1>2, <1>3, <3>5 DEF Ids
    <3>14. QED BY <1>1, <1>2, <1>3, <3>9, <3>10, <3>11, <3>12, <3>13 DEF Streams, Advance
  <2>5. QED BY <2>1, <2>3, <2>4
<1>6. CASE Store
  <2>1. PICK p \in kern.inflight : kern' = Stored([kern EXCEPT !.inflight = @ \ {p}], p)
    BY <1>6 DEF Store
  <2> DEFINE k == [kern EXCEPT !.inflight = @ \ {p}]
  <2>2. /\ k \in KernelStates /\ k.inflight = {} /\ k.next = kern.next
        /\ k.ring = kern.ring /\ k.queue = kern.queue /\ k.pos = kern.pos
        /\ k.packets = kern.packets /\ k.drops = kern.drops
    <3>1. kern.inflight \ {p} = {}  BY DEF StreamInv, OnTheWay
    <3>2. QED BY <1>1, <3>1 DEF KernelStates
  <2>3. kern' = Stored(k, p)  BY <2>1
  <2> HIDE DEF k
  <2>4. /\ p \in Packets /\ p.id \in 1 .. MaxPackets /\ p.id < kern.next /\ (hd.mode = "v3" => ~p.bad)
        /\ Ordered(hd.mode, kern, h, Skip, last.id, p.id)
    BY <1>1 DEF StreamInv, OnTheWay, KernelStates
  <2>5. Ordered(hd.mode, k, h, Skip, last.id, p.id)  BY <2>2, <2>4 DEF Ordered
  <2>6. StoredOutcome(k, kern', p, kern.next)  BY <1>1, <2>2, <2>3, <2>4, <2>5, StoredFlow
  <2>7. kern' \in KernelStates  BY <2>2, <2>3, <2>4, StoredType
  <2>8. Change = Gain(k, kern')
    <3>1. kern'.packets \in Nat /\ kern'.drops \in Nat  BY <2>7 DEF KernelStates
    <3>2. \A a, b, c, d, e, f, g \in Int :
            (a + b - c - d - e) - (a + f - c - g - e) = (b - f) - (d - g)
      OBVIOUS
    <3>3. Balance' - Balance = (kern'.packets - kern.packets) - (kern'.drops - kern.drops)
      <4>1. /\ Balance' = h.recv + kern'.packets - h.drop - kern'.drops - h.packets_read
            /\ Balance = h.recv + kern.packets - h.drop - kern.drops - h.packets_read
        BY <1>2 DEF Balance
      <4>2. /\ h.recv \in Int /\ kern'.packets \in Int /\ h.drop \in Int /\ kern'.drops \in Int
            /\ h.packets_read \in Int /\ kern.packets \in Int /\ kern.drops \in Int
        BY <1>1, <3>1
      <4>3. QED BY <3>2, <4>1, <4>2
    <3>4. QED BY <2>2, <3>3 DEF Change, Gain
  <2>9. OnTheWay'
    <3>1. kern'.inflight = {}  BY <2>2, <2>6 DEF StoredOutcome
    <3>2. QED BY <3>1 DEF OnTheWay
  <2>10. Place'
    <3>1. \A s \in Slots : kern.ring[s].user => kern'.ring[s] = kern.ring[s]
      BY <2>2, <2>6 DEF StoredOutcome
    <3>2. Len(kern'.queue) >= Len(kern.queue) /\ (hd.mode = "v3" => Good(kern'.ring))
      BY <2>2, <2>6 DEF StoredOutcome
    <3>3. QED BY <1>2, <2>7, <3>1, <3>2, StoredPlace
  <2>11. Ids(hd.mode, k, h, Skip) = Ids(hd.mode, kern, h, Skip)  BY <2>2 DEF Ids
  <2>12. kern'.next = kern.next  BY <2>2, <2>6 DEF StoredOutcome
  <2>13. QED BY <1>1, <1>2, <1>3, <2>6, <2>8, <2>9, <2>10, <2>11, <2>12 DEF Streams, StoredOutcome
<1>7. CASE RetireBlock
  <2> DEFINE w == kern.pos
             r == kern.ring
  <2>1. /\ hd.mode = "v3" /\ ~r[w].user
        /\ kern' = [kern EXCEPT !.ring[kern.pos].user = TRUE, !.pos = (@ + 1) % Frames]
    BY <1>7 DEF RetireBlock
  <2>2. /\ kern'.ring = [r EXCEPT ![w].user = TRUE] /\ kern'.pos = (w + 1) % Frames
        /\ kern'.queue = kern.queue /\ kern'.inflight = kern.inflight /\ kern'.next = kern.next
        /\ kern'.packets = kern.packets /\ kern'.drops = kern.drops
    BY <1>1, <2>1 DEF KernelStates
  <2>3. r \in Ring /\ w \in Slots /\ h.offset \in Slots /\ h.current \in Nat  BY StreamFacts
  <2>4. Closed(r, kern'.ring, w)
    <3> DEFINE b == [r EXCEPT ![w].user = TRUE]
    <3> HIDE DEF r, w
    <3>1. Closed(r, b, w)  BY <2>3 DEF Closed, Ring
    <3>2. QED BY <2>2, <3>1
  <2>5. \A s \in Slots : r[s].user => kern'.ring[s] = r[s]  BY <2>1, <2>2, <2>3 DEF Ring
  <2>6. Good(r)  BY <1>1, <2>1 DEF Place
  <2> HIDE DEF w, r
  <2>7. /\ \A m \in Nat : InRing("v3", r, w, h.offset, h.current, last.id, m)
                            => InRing("v3", kern'.ring, kern'.pos, h.offset, h.current, last.id, m)
        /\ RingIds(kern'.ring, h.offset, h.current) = RingIds(r, h.offset, h.current)
        /\ Good(kern'.ring)
    <3>1. ASSUME NEW m \in Nat, InRing("v3", r, w, h.offset, h.current, last.id, m)
          PROVE  /\ InRing("v3", kern'.ring, kern'.pos, h.offset, h.current, last.id, m)
                 /\ RingIds(kern'.ring, h.offset, h.current) = RingIds(r, h.offset, h.current)
                 /\ Good(kern'.ring)
      BY <1>1, <2>1, <2>2, <2>3, <2>4, <2>6, <3>1, RingClose
    <3>2. \E m \in Nat : InRing("v3", r, w, h.offset, h.current, last.id, m)
      BY <2>1, StreamFacts DEF Ordered, Rings, r, w
    <3>3. QED BY <3>1, <3>2
  <2>8. Place'
    BY <1>1, <1>2, <2>1, <2>2, <2>3, <2>5, <2>7 DEF Place, Fetching, r
  <2>9. Change >= 0
    <3>1. Balance' = Balance  BY <1>2, <2>2 DEF Balance
    <3>2. QED BY <1>1, <3>1 DEF Change
  <2>10. hd.mode \in Rings  BY <2>1 DEF Rings
  <2>11. Flow
    BY <1>1, <1>2, <2>1, <2>2, <2>7, <2>9, <2>10 DEF Flow, Ordered, Ids, Advance, r, w
  <2>12. QED BY <1>2, <2>8, <2>11, FlowStreams
<1>8. QED BY <1>4, <1>5, <1>6, <1>7 DEF Kernel

-----------------------------------------------------------------------------
(* The program *)

\* x is like h as far as the packets are concerned
Alike(x) ==
    /\ x.offset = h.offset /\ x.current = h.current /\ x.left = h.left /\ x.buffer = h.buffer
    /\ x.recv = h.recv /\ x.drop = h.drop

LEMMA AlikeFacts ==
    ASSUME h \in HandleStates
    PROVE  /\ Alike(h)
           /\ Alike(Counted(h)) /\ Counted(h).packets_read = h.packets_read + 1
           /\ Alike(Reset(h)) /\ Reset(h).packets_read = h.packets_read
BY DEF Alike, Counted, Reset, HandleStates

\* a step of the program that leaves the packets alone
LEMMA QuietStep ==
    ASSUME StreamInv, UNCHANGED <<hd, kern>>, last'.id = last.id, Alike(h'),
           h'.packets_read = h.packets_read,
           h.buffer # <<>> => call'.at = "event", call'.at = "batch" => h.current # 0,
           hd.mode = "mapped" => Skip' = Skip /\ Fetching'
    PROVE  Streams
<1>1. Place /\ Balance \in Int  BY StreamFacts
<1>2. Balance' = Balance  BY DEF Balance, Alike
<1>3. Balance' \in Int /\ Balance' >= Balance  BY <1>1, <1>2
<1>4. Flow  BY <1>3, QuietFlow DEF Alike
<1>5. Place'  BY <1>1 DEF Place, Alike
<1>6. QED BY <1>4, <1>5, FlowStreams

\* in particular a read operation of a socket or ring that returns or goes on waiting
LEMMA QuietRead ==
    ASSUME StreamInv, UNCHANGED <<hd, kern, last>>, h' = h \/ h' = Reset(h), call.at # "event",
           hd.mode # "mapped", call'.at # "batch"
    PROVE  Streams
<1>1. h \in HandleStates /\ Place  BY StreamFacts
<1>2. Alike(h') /\ h'.packets_read = h.packets_read  BY <1>1, AlikeFacts
<1>3. h.buffer = <<>>  BY <1>1 DEF Place
<1>4. QED BY <1>2, <1>3, QuietStep

\* a packet is looked at: in front of all others, it is taken out
LEMMA ShowAdvance ==
    ASSUME NEW p, NEW l, NEW q, NEW e, NEW d, e \in p, l < e, \A f \in p : f = e \/ e < f,
           q = {f \in p : e < f}, d >= -1
    PROVE  Advance(p, l, q, e, d)
BY DEF Advance

\* what a packet that is counted takes from the balance
LEMMA ChangeFacts ==
    ASSUME StreamInv, UNCHANGED hd, kern'.packets = kern.packets, kern'.drops = kern.drops,
           h'.recv = h.recv, h'.drop = h.drop,
           h'.packets_read = h.packets_read \/ h'.packets_read = h.packets_read + 1
    PROVE  Change >= -1 /\ (h'.packets_read = h.packets_read => Change >= 0)
<1>1. /\ h.recv \in Int /\ h.drop \in Int /\ h.packets_read \in Int /\ h'.packets_read \in Int
      /\ kern.packets \in Int /\ kern.drops \in Int
  <2>1. /\ h.recv \in Int /\ h.drop \in Int /\ h.packets_read \in Nat
        /\ kern.packets \in Nat /\ kern.drops \in Nat
    BY StreamFacts
  <2>2. QED BY <2>1
<1>2. /\ Balance = h.recv + kern.packets - h.drop - kern.drops - h.packets_read
      /\ Balance' = h.recv + kern.packets - h.drop - kern.drops - h'.packets_read
  BY DEF Balance
<1>3. \A a, b, c, d, e, f \in Int : f = e \/ f = e + 1 =>
        /\ (a + b - c - d - f) - (a + b - c - d - e) >= -1
        /\ f = e => (a + b - c - d - f) - (a + b - c - d - e) >= 0
  OBVIOUS
<1>4. Balance' - Balance >= -1 /\ (h'.packets_read = h.packets_read => Balance' - Balance >= 0)
  BY <1>1, <1>2, <1>3
<1>5. QED BY <1>4 DEF Change

\* a step on the queue of a socket or device
LEMMA QueueStep ==
    ASSUME StreamInv, UNCHANGED hd, hd.mode \notin Rings, last'.id \in Nat,
           kern'.inflight = kern.inflight, kern'.next = kern.next, Place',
           \A m \in Nat : InQueue(kern.queue, h.buffer, Skip, last.id, m) =>
             /\ InQueue(kern'.queue, h'.buffer, Skip', last'.id, m)
             /\ Advance(QueueIds(kern.queue, h.buffer, Skip), last.id,
                        QueueIds(kern'.queue, h'.buffer, Skip'), last'.id, Change)
    PROVE  Streams
<1>1. /\ \A k, x, n, l, m : Ordered(hd.mode, k, x, n, l, m) = InQueue(k.queue, x.buffer, n, l, m)
      /\ \A k, x, n : Ids(hd.mode, k, x, n) = QueueIds(k.queue, x.buffer, n)
  BY DEF Ordered, Ids
<1>2. \E m \in Nat : InQueue(kern.queue, h.buffer, Skip, last.id, m)  BY <1>1, StreamFacts
<1>3. \A m \in Nat : Ordered(hd.mode, kern, h, Skip, last.id, m)
                       => Ordered(hd.mode, kern', h', Skip', last'.id, m)
  BY <1>1
<1>4. Advance(Ids(hd.mode, kern, h, Skip), last.id, Ids(hd.mode, kern', h', Skip'), last'.id, Change)
  BY <1>1, <1>2
<1>5. Flow  BY <1>3, <1>4 DEF Flow
<1>6. QED BY <1>5, FlowStreams

\* the same for a ring
LEMMA RingStep ==
    ASSUME StreamInv, UNCHANGED hd, hd.mode \in Rings, last'.id \in Nat,
           kern'.inflight = kern.inflight, kern'.next = kern.next, Place',
           \A m \in Nat : InRing(hd.mode, kern.ring, kern.pos, h.offset, h.current, last.id, m) =>
             /\ InRing(hd.mode, kern'.ring, kern'.pos, h'.offset, h'.current, last'.id, m)
             /\ Advance(RingIds(kern.ring, h.offset, h.current), last.id,
                        RingIds(kern'.ring, h'.offset, h'.current), last'.id, Change)
    PROVE  Streams
<1>1. /\ \A k, x, n, l, m : Ordered(hd.mode, k, x, n, l, m) = InRing(hd.mode, k.ring, k.pos, x.offset, x.current, l, m)
      /\ \A k, x, n : Ids(hd.mode, k, x, n) = RingIds(k.ring, x.offset, x.current)
  BY DEF Ordered, Ids
<1>2. \E m \in Nat : InRing(hd.mode, kern.ring, kern.pos, h.offset, h.current, last.id, m)
  BY <1>1, StreamFacts
<1>3. \A m \in Nat : Ordered(hd.mode, kern, h, Skip, last.id, m)
                       => Ordered(hd.mode, kern', h', Skip', last'.id, m)
  BY <1>1
<1>4. Advance(Ids(hd.mode, kern, h, Skip), last.id, Ids(hd.mode, kern', h', Skip'), last'.id, Change)
  BY <1>1, <1>2
<1>5. Flow  BY <1>3, <1>4 DEF Flow
<1>6. QED BY <1>5, FlowStreams

\* packets are discarded
LEMMA DiscardAdvance ==
    ASSUME NEW p, NEW l, NEW q, NEW e, NEW d, e \in p, q = {f \in p : e < f}, d >= 0
    PROVE  Advance(p, l, q, l, d)
BY DEF Advance

\* the oldest packet of the queue is shown or discarded
LEMMA QueueTail ==
    ASSUME NEW q \in Seq(Packets), NEW l \in Nat, q # <<>>
    PROVE  /\ q[1].id \in Nat /\ Head(q) = q[1]
           /\ \A m \in Nat : InQueue(q, <<>>, 0, l, m) =>
                /\ InQueue(Tail(q), <<>>, 0, q[1].id, m) /\ InQueue(Tail(q), <<>>, 0, l, m)
                /\ q[1].id \in QueueIds(q, <<>>, 0) /\ l < q[1].id
                /\ QueueIds(Tail(q), <<>>, 0) = {f \in QueueIds(q, <<>>, 0) : q[1].id < f}
                /\ \A f \in QueueIds(q, <<>>, 0) : f = q[1].id \/ q[1].id < f
<1>1. Len(q) \in Nat /\ 1 \in 1 .. Len(q)  BY EmptySeq
<1>2. Tail(q) = SubSeq(q, 1 + 1, Len(q)) /\ Head(q) = q[1]  BY <1>1
<1> DEFINE r(d) == SubSeq(q, d + 1, Len(q))
<1>3. /\ q[1].id \in Nat
      /\ \A m \in Nat : InQueue(q, <<>>, 0, l, m) =>
           /\ InQueue(r(1), <<>>, 0, l, m) /\ InQueue(r(1), <<>>, 0, q[1].id, m)
           /\ q[1].id \in QueueIds(q, <<>>, 0) /\ l < q[1].id
           /\ QueueIds(r(1), <<>>, 0) = {f \in QueueIds(q, <<>>, 0) : q[1].id < f}
           /\ 1 = 1 => \A f \in QueueIds(q, <<>>, 0) : f = q[1].id \/ q[1].id < f
  BY <1>1, QueueTake
<1>4. r(1) = Tail(q)  BY <1>2
<1> HIDE DEF r
<1>5. QED BY <1>2, <1>3, <1>4

LEMMA SocketStreams ==
    ASSUME StreamInv, Recv \/ Recvmsg
    PROVE  Streams
<1>1. /\ TypeOK /\ h \in HandleStates /\ kern \in KernelStates /\ Place /\ hd.mode = "sock"
      /\ last.id \in Nat /\ kern.queue \in Seq(Packets) /\ Skip = 0 /\ hd.mode \notin Rings
      /\ call \in CallStates /\ UNCHANGED hd /\ call.at \in {"recv", "recvmsg"} /\ Skip' = 0
  <2>1. call.at \in {"recv", "recvmsg"} /\ UNCHANGED hd  BY DEF Recv, Recvmsg
  <2>2. hd.mode = "sock"  BY <2>1, StreamFacts DEF Phase
  <2>3. Skip' = 0  BY <2>1, <2>2 DEF Skip
  <2>4. QED BY <2>1, <2>2, <2>3, StreamFacts DEF Rings
<1>2. h.buffer = <<>>  BY <1>1 DEF Place
<1>3. ASSUME NEW n \in Int, NEW g \in Nat, Return(n, g) PROVE call'.at \notin {"batch", "event"}
  BY <1>1, <1>3, ReturnPlace
<1>4. ASSUME UNCHANGED <<kern, last>>, Break PROVE Streams
  <2>1. h' = Reset(h) /\ call'.at # "batch"  BY <1>1, <1>4, BreakType DEF Break
  <2>2. QED BY <1>1, <1>4, <2>1, QuietRead
<1>5. CASE Recv
  <2>1. \/ Break /\ UNCHANGED <<kern, last>>
        \/ call' = [call EXCEPT !.at = "recvmsg"] /\ UNCHANGED <<h, kern, last>>
    BY <1>5 DEF Recv
  <2>2. CASE call' = [call EXCEPT !.at = "recvmsg"] /\ UNCHANGED <<h, kern, last>>
    <3>1. call'.at = "recvmsg"  BY <1>1, <2>2 DEF CallStates
    <3>2. QED BY <1>1, <2>2, <3>1, QuietRead
  <2>3. QED BY <1>4, <2>1, <2>2
<1>6. CASE Recvmsg
  <2> DEFINE q == kern.queue
             p == Head(q)
             shown == linux_check_direction(p) /\ ~UserlandRejects(p)
  <2>1. ASSUME NEW n \in Int, Return(n, 0), UNCHANGED <<h, kern, last>> PROVE Streams
    BY <1>1, <1>3, <2>1, QuietRead
  <2>2. CASE call' = [call EXCEPT !.at = "recv"] /\ UNCHANGED <<h, kern, last>>
    <3>1. call'.at = "recv"  BY <1>1, <2>2 DEF CallStates
    <3>2. QED BY <1>1, <2>2, <3>1, QuietRead
  <2>3. ASSUME q # <<>>, kern' = [kern EXCEPT !.queue = Tail(@)], last'.id = p.id,
               h' = h \/ h' = Counted(h), NEW n \in Int, NEW g \in Nat, Return(n, g)
        PROVE  Streams
    <3>1. /\ kern'.queue = Tail(q) /\ kern'.ring = kern.ring /\ kern'.inflight = kern.inflight
          /\ kern'.next = kern.next /\ kern'.packets = kern.packets /\ kern'.drops = kern.drops
      BY <1>1, <2>3 DEF KernelStates
    <3>2. /\ q[1].id \in Nat /\ p = q[1]
          /\ \A m \in Nat : InQueue(q, <<>>, 0, last.id, m) =>
               /\ InQueue(Tail(q), <<>>, 0, q[1].id, m)
               /\ q[1].id \in QueueIds(q, <<>>, 0) /\ last.id < q[1].id
               /\ QueueIds(Tail(q), <<>>, 0) = {f \in QueueIds(q, <<>>, 0) : q[1].id < f}
               /\ \A f \in QueueIds(q, <<>>, 0) : f = q[1].id \/ q[1].id < f
      BY <1>1, <2>3, QueueTail
    <3>3. Alike(h') /\ (h'.packets_read = h.packets_read \/ h'.packets_read = h.packets_read + 1)
      BY <1>1, <2>3, AlikeFacts
    <3>4. h'.buffer = <<>> /\ h'.current = h.current /\ h'.offset = h.offset /\ h'.left = h.left
      BY <1>2, <3>3 DEF Alike
    <3>5. Change >= -1  BY <1>1, <3>1, <3>3, ChangeFacts DEF Alike
    <3>6. last'.id = q[1].id  BY <2>3, <3>2
    <3> HIDE DEF q, p
    <3>7. \A m \in Nat : InQueue(q, <<>>, 0, last.id, m) =>
             /\ InQueue(kern'.queue, <<>>, 0, last'.id, m)
             /\ Advance(QueueIds(q, <<>>, 0), last.id, QueueIds(kern'.queue, <<>>, 0), last'.id, Change)
      BY <3>1, <3>2, <3>5, <3>6, ShowAdvance
    <3>8. Place'
      <4>1. call'.at # "batch"  BY <1>3, <2>3
      <4>2. QED BY <1>1, <3>1, <3>4, <4>1 DEF Place
    <3>9. last'.id \in Nat  BY <3>2, <3>6
    <3>10. \A m \in Nat : InQueue(kern.queue, h.buffer, Skip, last.id, m) =>
             /\ InQueue(kern'.queue, h'.buffer, Skip', last'.id, m)
             /\ Advance(QueueIds(kern.queue, h.buffer, Skip), last.id,
                        QueueIds(kern'.queue, h'.buffer, Skip'), last'.id, Change)
      BY <1>1, <1>2, <3>4, <3>7 DEF q
    <3>11. QED BY <1>1, <3>1, <3>8, <3>9, <3>10, QueueStep
  <2>4. 0 \in Int /\ -1 \in Int /\ 1 \in Int /\ 0 \in Nat /\ 1 \in Nat  OBVIOUS
  <2>5. \/ /\ q # <<>> /\ kern' = [kern EXCEPT !.queue = Tail(@)] /\ last' = Looked(p, shown)
           /\ Return(IF shown THEN 1 ELSE 0, IF shown THEN 1 ELSE 0)
           /\ h' = IF shown THEN Counted(h) ELSE h
        \/ /\ q # <<>> /\ kern' = [kern EXCEPT !.queue = Tail(@)] /\ Return(-1, 0) /\ UNCHANGED h
           /\ last' = [Looked(p, FALSE) EXCEPT !.excused = TRUE]
        \/ (Return(0, 0) \/ Return(-1, 0)) /\ UNCHANGED <<h, kern, last>>
        \/ call' = [call EXCEPT !.at = "recv"] /\ UNCHANGED <<h, kern, last>>
    BY <1>6 DEF Recvmsg
  <2>6. CASE /\ q # <<>> /\ kern' = [kern EXCEPT !.queue = Tail(@)] /\ last' = Looked(p, shown)
             /\ Return(IF shown THEN 1 ELSE 0, IF shown THEN 1 ELSE 0)
             /\ h' = IF shown THEN Counted(h) ELSE h
    <3> HIDE DEF shown
    <3>1. last'.id = p.id  BY <2>6 DEF Looked
    <3>2. CASE shown  BY <2>3, <2>4, <2>6, <3>1, <3>2
    <3>3. CASE ~shown  BY <2>3, <2>4, <2>6, <3>1, <3>3
    <3>4. QED BY <3>2, <3>3
  <2>7. CASE /\ q # <<>> /\ kern' = [kern EXCEPT !.queue = Tail(@)] /\ Return(-1, 0) /\ UNCHANGED h
             /\ last' = [Looked(p, FALSE) EXCEPT !.excused = TRUE]
    <3>1. last'.id = p.id  BY <2>7 DEF Looked
    <3>2. QED BY <2>3, <2>4, <2>7, <3>1
  <2>8. QED BY <2>1, <2>2, <2>4, <2>5, <2>6, <2>7
<1>7. QED BY <1>5, <1>6

\* the packet of the reader's frame is shown, and the frame is given back
LEMMA FrameShown ==
    ASSUME NEW g, g # "v3", NEW r \in Ring, NEW w \in Slots, NEW o \in Slots, NEW l \in Nat,
           NEW m \in Nat, InRing(g, r, w, o, 0, l, m), r[o].user, NEW a, Freed(r, a, o)
    PROVE  LET e == r[o].pkts[1].id
               t == (o + 1) % Frames
           IN
           /\ e \in Nat /\ InRing(g, a, w, t, 0, e, m)
           /\ e \in RingIds(r, o, 0) /\ l < e
           /\ RingIds(a, t, 0) = {f \in RingIds(r, o, 0) : e < f}
           /\ \A f \in RingIds(r, o, 0) : f = e \/ e < f
<1> DEFINE e == r[o].pkts[1].id
           t == (o + 1) % Frames
<1>1. /\ \A s \in Slots : \A i \in DOMAIN r[s].pkts : i \in Nat /\ i >= 1 /\ r[s].pkts[i].id \in Nat
      /\ DOMAIN r[o].pkts = 1 .. Len(r[o].pkts)
  BY RingFacts
<1>2. Len(r[o].pkts) = 1  BY DEF InRing
<1>3. 1 \in DOMAIN r[o].pkts /\ \A i \in DOMAIN r[o].pkts : i = 1  BY <1>1, <1>2
<1>4. e \in Nat  BY <1>1, <1>3
<1>5. \A s \in Slots : s # o => Ahead(o, o) < Ahead(s, o)  BY AheadFacts
<1>6. \A s \in Slots \ {o} : \A i \in DOMAIN r[s].pkts : e < r[s].pkts[i].id  BY <1>3, <1>5 DEF InRing
<1>7. \A s \in Slots : First(s, o, 0) = 1  BY DEF First
<1>8. e < m /\ l < e  BY <1>1, <1>3, <1>7 DEF InRing
<1> HIDE DEF e
<1>9. /\ InRing(g, a, w, t, 0, e, m)
      /\ RingIds(a, t, 0) = OtherIds(r, o)
  <2>1. 0 \in Nat  OBVIOUS
  <2>2. Behind(r, o, e)  BY <1>6 DEF Behind
  <2>3. QED BY <1>4, <1>8, <2>1, <2>2, RingRelease
<1> HIDE DEF t
<1>10. \A f : f \in RingIds(a, t, 0) <=> \E s \in Slots \ {o} : \E i \in DOMAIN r[s].pkts : f = r[s].pkts[i].id
  BY <1>1, <1>9 DEF OtherIds
<1>11. \A f : f \in RingIds(r, o, 0) <=>
         f = e \/ \E s \in Slots \ {o} : \E i \in DOMAIN r[s].pkts : f = r[s].pkts[i].id
  <2>1. \A f : f \in RingIds(r, o, 0) <=> \E s \in Slots : \E i \in DOMAIN r[s].pkts : f = r[s].pkts[i].id
    BY <1>1, <1>7 DEF RingIds
  <2>2. \A f : (\E i \in DOMAIN r[o].pkts : f = r[o].pkts[i].id) <=> f = e  BY <1>3 DEF e
  <2>3. QED BY <2>1, <2>2
<1>12. \A f \in RingIds(a, t, 0) : e < f  BY <1>6, <1>10
<1>13. \A f : f \in RingIds(r, o, 0) <=> f = e \/ f \in RingIds(a, t, 0)  BY <1>10, <1>11
<1>14. RingIds(a, t, 0) = {f \in RingIds(r, o, 0) : e < f}  BY <1>4, <1>12, <1>13
<1>15. QED BY <1>4, <1>8, <1>9, <1>12, <1>13, <1>14 DEF e, t

ReadOut(r, o, c) == \A i \in DOMAIN r[o].pkts : i < c

\* a block of which all packets have been looked at is given back
LEMMA BlockFreed ==
    ASSUME NEW g, NEW r \in Ring, NEW w \in Slots, NEW o \in Slots, NEW c \in Nat, c # 0, NEW l \in Nat,
           ReadOut(r, o, c),
           NEW m \in Nat, InRing(g, r, w, o, c, l, m), r[o].user, NEW a, Freed(r, a, o)
    PROVE  /\ InRing(g, a, w, (o + 1) % Frames, 0, l, m)
           /\ RingIds(a, (o + 1) % Frames, 0) = RingIds(r, o, c)
           /\ Good(r) => Good(a)
<1> DEFINE t == (o + 1) % Frames
<1>1. /\ \A s \in Slots : \A i \in DOMAIN r[s].pkts : i \in Nat /\ i >= 1 /\ r[s].pkts[i].id \in Nat
  BY RingFacts
<1>2. \A s \in Slots : First(s, o, c) = IF s = o THEN c ELSE 1  BY DEF First
<1>3. \A i \in DOMAIN r[o].pkts : ~(i >= c)  BY <1>1 DEF ReadOut
<1>4. \A s \in Slots \ {o} : \A i \in DOMAIN r[s].pkts : l < r[s].pkts[i].id  BY <1>1, <1>2 DEF InRing
<1>5. l < m  BY DEF InRing
<1>6. /\ InRing(g, a, w, t, 0, l, m) /\ (Good(r) => Good(a))
      /\ RingIds(a, t, 0) = OtherIds(r, o)
  <2>1. Behind(r, o, l)  BY <1>4 DEF Behind
  <2>2. QED BY <1>5, <2>1, RingRelease
<1> HIDE DEF t
<1>7. \A f : f \in RingIds(a, t, 0) <=> \E s \in Slots \ {o} : \E i \in DOMAIN r[s].pkts : f = r[s].pkts[i].id
  BY <1>1, <1>6 DEF OtherIds
<1>8. \A f : f \in RingIds(r, o, c) <=> \E s \in Slots \ {o} : \E i \in DOMAIN r[s].pkts : f = r[s].pkts[i].id
  BY <1>1, <1>2, <1>3 DEF RingIds
<1>9. RingIds(a, t, 0) = RingIds(r, o, c)  BY <1>7, <1>8
<1>10. QED BY <1>6, <1>9 DEF t

LEMMA GivenBackFacts ==
    ASSUME kern \in KernelStates, h.offset \in Slots, NEW k, k = GivenBack(kern)
    PROVE  /\ Freed(kern.ring, k.ring, h.offset) /\ k.pos = kern.pos /\ k.inflight = kern.inflight
           /\ k.next = kern.next /\ k.packets = kern.packets /\ k.drops = kern.drops /\ k.queue = kern.queue
<1> DEFINE a == [kern.ring EXCEPT ![h.offset] = [user |-> FALSE, pkts |-> <<>>]]
<1>1. kern.ring \in Ring  BY DEF KernelStates
<1>2. /\ k.ring = a /\ k.pos = kern.pos /\ k.inflight = kern.inflight /\ k.queue = kern.queue
      /\ k.next = kern.next /\ k.packets = kern.packets /\ k.drops = kern.drops
  BY DEF GivenBack, KernelStates
<1>3. Freed(kern.ring, a, h.offset)  BY <1>1 DEF Freed, Ring
<1> HIDE DEF a
<1>4. QED BY <1>2, <1>3

LEMMA ReleasedFacts ==
    ASSUME NEW x \in HandleStates
    PROVE  /\ Released(x).offset = (x.offset + 1) % Frames /\ Released(x).current = 0
           /\ Released(x).buffer = x.buffer /\ Released(x).recv = x.recv /\ Released(x).drop = x.drop
           /\ Released(x).packets_read = x.packets_read
           /\ Reset(x).offset = x.offset /\ Reset(x).current = x.current /\ Reset(x).left = x.left
           /\ Reset(x).buffer = x.buffer /\ Reset(x).recv = x.recv /\ Reset(x).drop = x.drop
           /\ Reset(x).packets_read = x.packets_read
BY DEF Released, Reset, HandleStates

LEMMA RingReads ==
    ASSUME StreamInv, Wait \/ Poll \/ Frame \/ Block \/ BlockPacket \/ BlockDone
    PROVE  /\ TypeOK /\ h \in HandleStates /\ kern \in KernelStates /\ Place /\ call \in CallStates
           /\ hd.mode \in Rings /\ hd.mode # "mapped" /\ last.id \in Nat /\ kern.ring \in Ring
           /\ kern.pos \in Slots /\ h.offset \in Slots /\ h.current \in Nat /\ h.left \in Nat
           /\ UNCHANGED hd /\ h.buffer = <<>> /\ call.at # "event" /\ Phase
<1>1. /\ call.at \in {"wait", "poll", "frame", "block", "batch"} /\ UNCHANGED hd
  BY DEF Wait, Poll, Frame, Block, BlockPacket, BlockDone
<1>2. hd.mode \in Rings  BY <1>1, StreamFacts DEF Phase, Rings
<1>3. h.buffer = <<>>  BY <1>1, StreamFacts DEF Place
<1>4. QED BY <1>1, <1>2, <1>3, StreamFacts DEF Rings

LEMMA WaitStreams ==
    ASSUME StreamInv, Wait \/ Poll
    PROVE  Streams
<1>1. /\ TypeOK /\ hd.mode # "mapped" /\ call.at # "event" /\ UNCHANGED <<hd, kern, last>> /\ call \in CallStates
  BY RingReads DEF Wait, Poll
<1>2. ASSUME NEW a \in {"block", "frame", "poll"}, At(a), UNCHANGED h PROVE Streams
  <2>1. call'.at = a  BY <1>1, <1>2 DEF At, CallStates
  <2>2. QED BY <1>1, <1>2, <2>1, QuietRead
<1>3. CASE Break
  <2>1. h' = Reset(h) /\ call'.at # "batch"  BY <1>1, <1>3, BreakType DEF Break
  <2>2. QED BY <1>1, <2>1, QuietRead
<1>4. CASE Return(-1, 0) /\ UNCHANGED h
  <2>1. call'.at # "batch"  BY <1>1, <1>4, ReturnPlace, -1 \in Int, 0 \in Nat
  <2>2. QED BY <1>1, <1>4, <2>1, QuietRead
<1>5. CASE Wait  BY <1>2, <1>5 DEF Wait, Ready
<1>6. CASE Poll  BY <1>2, <1>3, <1>4, <1>6 DEF Poll, AfterPoll, Ready
<1>7. QED BY <1>5, <1>6

\* the frames of the first two kinds of ring
LEMMA FrameStreams ==
    ASSUME StreamInv, Frame
    PROVE  Streams
<1>1. /\ TypeOK /\ h \in HandleStates /\ kern \in KernelStates /\ Place /\ call \in CallStates
      /\ hd.mode \in Rings /\ hd.mode # "mapped" /\ last.id \in Nat /\ kern.ring \in Ring
      /\ kern.pos \in Slots /\ h.offset \in Slots /\ h.current \in Nat
      /\ UNCHANGED hd /\ h.buffer = <<>> /\ call.at # "event" /\ Phase
  BY RingReads
<1>2. call.at = "frame" /\ hd.mode # "v3"  BY <1>1 DEF Frame, Phase
<1>3. h.current = 0  BY <1>1, <1>2 DEF Place
<1>4. ASSUME NEW n \in Int, NEW g \in Nat, Return(n, g) PROVE call'.at # "batch"
  BY <1>1, <1>4, ReturnPlace
<1>5. ASSUME NEW n \in Int, Return(n, 0), UNCHANGED <<h, kern, last>> PROVE Streams
  <2>1. call'.at # "batch"  BY <1>4, <1>5, 0 \in Nat
  <2>2. QED BY <1>1, <1>5, <2>1, QuietRead
<1> DEFINE r == kern.ring
           o == h.offset
           p == r[o].pkts[1]
           n == IF Shown(p) THEN 1 ELSE 0
           y == IF Shown(p) THEN Counted(h) ELSE h
<1>6. ASSUME r[o].user, last'.id = p.id, kern' = GivenBack(kern),
             h' = Released(y) \/ h' = Reset(Released(y)), call'.at # "batch"
      PROVE  Streams
  <2>1. /\ y \in HandleStates /\ y.offset = o /\ y.buffer = <<>> /\ y.recv = h.recv /\ y.drop = h.drop
        /\ (y.packets_read = h.packets_read \/ y.packets_read = h.packets_read + 1)
    <3>1. CASE Shown(p)
      <4>1. y = Counted(h)  BY <3>1
      <4>2. QED BY <1>1, <4>1, CountedType, AlikeFacts DEF Alike
    <3>2. CASE ~Shown(p)
      <4>1. y = h  BY <3>2
      <4>2. QED BY <1>1, <4>1
    <3>3. QED BY <3>1, <3>2
  <2> HIDE DEF y
  <2>2. Released(y) \in HandleStates  BY <2>1, ReleasedType
  <2>3. /\ h'.offset = (o + 1) % Frames /\ h'.current = 0 /\ h'.buffer = <<>>
        /\ h'.recv = h.recv /\ h'.drop = h.drop
        /\ (h'.packets_read = h.packets_read \/ h'.packets_read = h.packets_read + 1)
    <3>1. CASE h' = Released(y)  BY <2>1, <3>1, ReleasedFacts
    <3>2. CASE h' = Reset(Released(y))
      <4> DEFINE x == Released(y)
      <4>1. /\ x.offset = (o + 1) % Frames /\ x.current = 0 /\ x.buffer = <<>>
            /\ x.recv = h.recv /\ x.drop = h.drop /\ x.packets_read = y.packets_read
        BY <2>1, ReleasedFacts
      <4>2. x \in HandleStates /\ h' = Reset(x)  BY <2>2, <3>2
      <4> HIDE DEF x
      <4>3. QED BY <2>1, <4>1, <4>2, ReleasedFacts
    <3>3. QED BY <1>6, <3>1, <3>2
  <2>4. /\ Freed(r, kern'.ring, o) /\ kern'.pos = kern.pos /\ kern'.inflight = kern.inflight
        /\ kern'.next = kern.next /\ kern'.packets = kern.packets /\ kern'.drops = kern.drops
    BY <1>1, <1>6, GivenBackFacts
  <2>5. Change >= -1  BY <1>1, <2>3, <2>4, ChangeFacts
  <2>6. Place'  BY <1>1, <1>2, <1>6, <2>3 DEF Place
  <2> DEFINE e == p.id
             t == (o + 1) % Frames
             a == kern'.ring
             w == kern.pos
             g == hd.mode
             l == last.id
  <2>7. \A m \in Nat : InRing(g, r, w, o, 0, l, m) =>
           /\ e \in Nat /\ InRing(g, a, w, t, 0, e, m)
           /\ e \in RingIds(r, o, 0) /\ l < e
           /\ RingIds(a, t, 0) = {f \in RingIds(r, o, 0) : e < f}
           /\ \A f \in RingIds(r, o, 0) : f = e \/ e < f
    <3>1. g # "v3" /\ r \in Ring /\ w \in Slots /\ o \in Slots /\ l \in Nat /\ r[o].user /\ Freed(r, a, o)
      BY <1>1, <1>2, <1>6, <2>4
    <3> HIDE DEF a, w, g, l, r, o
    <3>2. QED BY <3>1, FrameShown
  <2>8. \E m \in Nat : InRing(g, r, w, o, 0, l, m)  BY <1>1, <1>3, StreamFacts DEF Ordered
  <2>9. last'.id \in Nat /\ last'.id = e  BY <1>6, <2>7, <2>8
  <2>10. \A m \in Nat : InRing(hd.mode, kern.ring, kern.pos, h.offset, h.current, last.id, m) =>
             /\ InRing(hd.mode, kern'.ring, kern'.pos, h'.offset, h'.current, last'.id, m)
             /\ Advance(RingIds(kern.ring, h.offset, h.current), last.id,
                        RingIds(kern'.ring, h'.offset, h'.current), last'.id, Change)
    <3>1. ASSUME NEW m \in Nat, InRing(g, r, w, o, 0, l, m)
          PROVE  InRing(g, a, w, t, 0, e, m) /\ Advance(RingIds(r, o, 0), l, RingIds(a, t, 0), e, Change)
      <4> HIDE DEF e, t, a, w, g, l, r, o
      <4>1. QED BY <2>5, <2>7, <3>1, ShowAdvance
    <3>2. QED BY <1>3, <2>3, <2>4, <2>9, <3>1
  <2>11. QED BY <1>1, <2>4, <2>6, <2>9, <2>10, RingStep
<1>7. \/ (Return(call.pkts, 0) \/ Return(-1, 0)) /\ UNCHANGED <<h, kern, last>>
      \/ /\ r[o].user /\ last' = Looked(p, Shown(p)) /\ kern' = GivenBack(kern)
         /\ \/ Return(-2, n) /\ h' = Reset(Released(y))
            \/ call' = [call EXCEPT !.pkts = @ + n, !.given = @ + n] /\ h' = Released(y)
  BY DEF Frame, UserFrame
<1>8. CASE (Return(call.pkts, 0) \/ Return(-1, 0)) /\ UNCHANGED <<h, kern, last>>
  <2>1. call.pkts \in Int /\ -1 \in Int  BY <1>1 DEF CallStates
  <2>2. QED BY <1>5, <1>8, <2>1
<1>9. CASE /\ r[o].user /\ last' = Looked(p, Shown(p)) /\ kern' = GivenBack(kern)
           /\ \/ Return(-2, n) /\ h' = Reset(Released(y))
              \/ call' = [call EXCEPT !.pkts = @ + n, !.given = @ + n] /\ h' = Released(y)
  <2>1. last'.id = p.id  BY <1>9 DEF Looked
  <2>2. n \in Nat /\ -2 \in Int  OBVIOUS
  <2> HIDE DEF n, y
  <2>3. CASE Return(-2, n)
    <3>1. call'.at # "batch"  BY <1>4, <2>2, <2>3
    <3>2. QED BY <1>6, <1>9, <2>1, <3>1
  <2>4. CASE call' = [call EXCEPT !.pkts = @ + n, !.given = @ + n]
    <3>1. call'.at = "frame"  BY <1>1, <1>2, <2>4 DEF CallStates
    <3>2. QED BY <1>6, <1>9, <2>1, <3>1
  <2>5. QED BY <1>9, <2>3, <2>4
<1>10. QED BY <1>7, <1>8, <1>9

\* a block is begun, or read no further
LEMMA BlockStreams ==
    ASSUME StreamInv, Block
    PROVE  Streams
<1>1. /\ TypeOK /\ h \in HandleStates /\ kern \in KernelStates /\ Place /\ call \in CallStates
      /\ hd.mode \in Rings /\ hd.mode # "mapped" /\ last.id \in Nat /\ kern.ring \in Ring
      /\ kern.pos \in Slots /\ h.offset \in Slots /\ h.current \in Nat /\ h.left \in Nat
      /\ UNCHANGED hd /\ h.buffer = <<>> /\ call.at # "event" /\ Phase
  BY RingReads
<1>2. call.at = "block" /\ hd.mode = "v3" /\ UNCHANGED <<kern, last>>  BY <1>1 DEF Block, Phase
<1>3. ASSUME UNCHANGED h, call'.at # "batch" PROVE Streams  BY <1>1, <1>2, <1>3, QuietRead
<1>4. CASE Return(call.pkts, 0) /\ UNCHANGED h
  <2>1. call.pkts \in Int /\ 0 \in Nat  BY <1>1 DEF CallStates
  <2>2. call'.at # "batch"  BY <1>1, <1>4, <2>1, ReturnPlace
  <2>3. QED BY <1>3, <1>4, <2>2
<1>5. CASE Ended /\ UNCHANGED h
  <2>1. CASE call' = [call EXCEPT !.at = IF h.current = 0 THEN "wait" ELSE "block"]
    <3>1. call'.at # "batch"  BY <1>1, <2>1 DEF CallStates
    <3>2. QED BY <1>3, <1>5, <3>1
  <2>2. QED BY <1>4, <1>5, <2>1 DEF Ended
<1> DEFINE r == kern.ring
           o == h.offset
           left == IF h.current = 0 THEN Len(r[o].pkts) ELSE h.left
           c == IF h.current = 0 THEN 1 ELSE h.current
<1>6. CASE /\ r[o].user /\ h' = [h EXCEPT !.current = IF @ = 0 THEN 1 ELSE @, !.left = left]
           /\ call'.at = "batch"
  <2>1. /\ h'.current = c /\ h'.left = left /\ h'.offset = o /\ h'.buffer = <<>>
        /\ h'.recv = h.recv /\ h'.drop = h.drop /\ h'.packets_read = h.packets_read
    BY <1>1, <1>6 DEF HandleStates
  <2>2. Len(r[o].pkts) \in Nat  BY <1>1, RingFacts
  <2>3. c # 0 /\ c + left = Len(r[o].pkts) + 1
    <3>1. CASE h.current = 0  BY <2>2, <3>1
    <3>2. CASE h.current # 0  BY <1>1, <3>2 DEF Place
    <3>3. QED BY <3>1, <3>2
  <2>4. \A s \in Slots : First(s, o, c) = First(s, o, h.current)  BY DEF First
  <2> HIDE DEF c, left
  <2>5. Place'  BY <1>1, <1>2, <1>6, <2>1, <2>3 DEF Place
  <2>6. Change >= 0  BY <1>1, <1>2, <2>1, ChangeFacts
  <2>7. /\ RingIds(r, o, c) = RingIds(r, o, h.current)
        /\ \A m : InRing("v3", r, kern.pos, o, h.current, last.id, m) => InRing("v3", r, kern.pos, o, c, last.id, m)
    BY <2>4 DEF RingIds, InRing
  <2>8. \A m \in Nat : InRing(hd.mode, kern.ring, kern.pos, h.offset, h.current, last.id, m) =>
             /\ InRing(hd.mode, kern'.ring, kern'.pos, h'.offset, h'.current, last'.id, m)
             /\ Advance(RingIds(kern.ring, h.offset, h.current), last.id,
                        RingIds(kern'.ring, h'.offset, h'.current), last'.id, Change)
    BY <1>2, <2>1, <2>6, <2>7 DEF Advance
  <2>9. QED BY <1>1, <1>2, <2>5, <2>8, RingStep
<1>7. \/ (Return(call.pkts, 0) \/ Ended) /\ UNCHANGED h
      \/ /\ r[o].user /\ h' = [h EXCEPT !.current = IF @ = 0 THEN 1 ELSE @, !.left = left]
         /\ call'.at = "batch"
  <2>1. \A x : [call EXCEPT !.at = "batch", !.todo = x].at = "batch"  BY <1>1 DEF CallStates
  <2>2. QED BY <2>1 DEF Block, UserFrame
<1>8. QED BY <1>4, <1>5, <1>6, <1>7

\* a packet of the batch is looked at
LEMMA BatchStreams ==
    ASSUME StreamInv, BlockPacket
    PROVE  Streams
<1>1. /\ TypeOK /\ h \in HandleStates /\ kern \in KernelStates /\ Place /\ call \in CallStates
      /\ hd.mode \in Rings /\ hd.mode # "mapped" /\ last.id \in Nat /\ kern.ring \in Ring
      /\ kern.pos \in Slots /\ h.offset \in Slots /\ h.current \in Nat /\ h.left \in Nat
      /\ UNCHANGED hd /\ h.buffer = <<>> /\ call.at # "event" /\ Phase
  BY RingReads
<1> DEFINE r == kern.ring
           o == h.offset
           x == h.current
           p == r[o].pkts[x]
           n == IF Shown(p) THEN 1 ELSE 0
           y == IF Shown(p) THEN Counted(h) ELSE h
<1>2. call.at = "batch" /\ hd.mode = "v3" /\ UNCHANGED kern /\ call.todo > 0 /\ call.todo <= h.left
  BY <1>1 DEF BlockPacket, Phase, TypeOK
<1>3. call.todo \in Nat /\ h.left > 0
  <2>1. call.todo \in Nat  BY <1>1 DEF CallStates
  <2>2. QED BY <1>1, <1>2, <2>1
<1>4. /\ x # 0 /\ r[o].user /\ x + h.left = Len(r[o].pkts) + 1 /\ Good(r)
  BY <1>1, <1>2 DEF Place
<1>5. Len(r[o].pkts) \in Nat /\ DOMAIN r[o].pkts = 1 .. Len(r[o].pkts)  BY <1>1, RingFacts
<1>6. x \in DOMAIN r[o].pkts
  <2>1. \A a, b, c \in Nat : a # 0 /\ b > 0 /\ a + b = c + 1 => a \in 1 .. c  OBVIOUS
  <2>2. x \in 1 .. Len(r[o].pkts)  BY <1>1, <1>3, <1>4, <1>5, <2>1
  <2>3. QED BY <1>5, <2>2
<1>7. ~p.bad  BY <1>1, <1>4, <1>6 DEF Good
<1>8. /\ last' = Looked(p, Shown(p))
      /\ call' = [call EXCEPT !.todo = @ - 1, !.pkts = @ + n, !.given = @ + n]
      /\ h' = [y EXCEPT !.current = @ + 1, !.left = @ - 1]
  BY <1>7 DEF BlockPacket
<1>9. last'.id = p.id  BY <1>8 DEF Looked
<1>10. /\ h'.offset = o /\ h'.current = x + 1 /\ h'.left = h.left - 1 /\ h'.buffer = <<>>
       /\ h'.recv = h.recv /\ h'.drop = h.drop
       /\ (h'.packets_read = h.packets_read \/ h'.packets_read = h.packets_read + 1)
  <2>1. /\ y \in HandleStates /\ Alike(y)
        /\ (y.packets_read = h.packets_read \/ y.packets_read = h.packets_read + 1)
    BY <1>1, CountedType, AlikeFacts
  <2> HIDE DEF y
  <2>2. /\ h'.offset = y.offset /\ h'.current = y.current + 1 /\ h'.left = y.left - 1 /\ h'.buffer = y.buffer
        /\ h'.recv = y.recv /\ h'.drop = y.drop /\ h'.packets_read = y.packets_read
    BY <1>8, <2>1 DEF HandleStates
  <2>3. QED BY <1>1, <2>1, <2>2 DEF Alike
<1>11. Change >= -1  BY <1>1, <1>2, <1>10, ChangeFacts
<1>12. Place'
  <2>1. \A a, b, c \in Int : a + b = c => (a + 1) + (b - 1) = c  OBVIOUS
  <2>2. h'.current + h'.left = Len(r[o].pkts) + 1
    <3>1. x \in Int /\ h.left \in Int /\ Len(r[o].pkts) + 1 \in Int  BY <1>1, <1>5
    <3>2. (x + 1) + (h.left - 1) = Len(r[o].pkts) + 1  BY <1>4, <2>1, <3>1
    <3>3. QED BY <1>10, <3>2
  <2>3. h'.current # 0  BY <1>1, <1>10
  <2>4. QED BY <1>1, <1>2, <1>4, <1>10, <2>2, <2>3 DEF Place
<1> DEFINE e == p.id
           w == kern.pos
           g == hd.mode
           l == last.id
<1>13. /\ e \in Nat
       /\ \A m \in Nat : InRing(g, r, w, o, x, l, m) =>
            /\ InRing(g, r, w, o, x + 1, e, m)
            /\ e \in RingIds(r, o, x) /\ l < e
            /\ RingIds(r, o, x + 1) = {f \in RingIds(r, o, x) : e < f}
            /\ \A f \in RingIds(r, o, x) : f = e \/ e < f
  <2>1. r \in Ring /\ w \in Slots /\ o \in Slots /\ x \in Nat /\ l \in Nat /\ x = First(o, o, x)
    BY <1>1, <1>4 DEF First
  <2> HIDE DEF w, g, l, r, o, x
  <2>2. QED BY <1>6, <2>1, RingLook
<1>14. ASSUME NEW m \in Nat, InRing(g, r, w, o, x, l, m)
       PROVE  InRing(g, r, w, o, x + 1, e, m) /\ Advance(RingIds(r, o, x), l, RingIds(r, o, x + 1), e, Change)
  <2> DEFINE z == x + 1
  <2>1. z = x + 1  OBVIOUS
  <2> HIDE DEF e, w, g, l, r, o, x, z
  <2>2. QED BY <1>11, <1>13, <1>14, <2>1, ShowAdvance
<1>15. \A m \in Nat : InRing(hd.mode, kern.ring, kern.pos, h.offset, h.current, last.id, m) =>
             /\ InRing(hd.mode, kern'.ring, kern'.pos, h'.offset, h'.current, last'.id, m)
             /\ Advance(RingIds(kern.ring, h.offset, h.current), last.id,
                        RingIds(kern'.ring, h'.offset, h'.current), last'.id, Change)
  BY <1>2, <1>9, <1>10, <1>14
<1>16. last'.id \in Nat  BY <1>9, <1>13
<1>17. QED BY <1>1, <1>2, <1>12, <1>15, <1>16, RingStep

\* the batch is done, and the block given back if it is at its end
LEMMA BatchDone ==
    ASSUME StreamInv, BlockDone
    PROVE  Streams
<1>1. /\ TypeOK /\ h \in HandleStates /\ kern \in KernelStates /\ Place /\ call \in CallStates
      /\ hd.mode \in Rings /\ hd.mode # "mapped" /\ last.id \in Nat /\ kern.ring \in Ring
      /\ kern.pos \in Slots /\ h.offset \in Slots /\ h.current \in Nat /\ h.left \in Nat
      /\ UNCHANGED hd /\ h.buffer = <<>> /\ call.at # "event" /\ Phase
  BY RingReads
<1>2. call.at = "batch" /\ hd.mode = "v3" /\ UNCHANGED last  BY <1>1 DEF BlockDone, Phase
<1>3. call'.at # "batch"
  <2>1. Return(-2, 0) \/ At("block")  BY DEF BlockDone
  <2>2. CASE Return(-2, 0)  BY <1>1, <2>2, ReturnPlace, -2 \in Int, 0 \in Nat
  <2>3. CASE At("block")  BY <1>1, <2>3 DEF At, CallStates
  <2>4. QED BY <2>1, <2>2, <2>3
<1>4. CASE h.left > 0
  <2>1. UNCHANGED kern /\ (h' = h \/ h' = Reset(h))  BY <1>1, <1>4 DEF BlockDone
  <2>2. QED BY <1>1, <1>2, <1>3, <2>1, QuietRead
<1>5. CASE ~(h.left > 0)
  <2> DEFINE r == kern.ring
             o == h.offset
             c == h.current
             t == (o + 1) % Frames
             a == kern'.ring
             w == kern.pos
             g == hd.mode
             l == last.id
  <2>1. kern' = GivenBack(kern) /\ (h' = Released(h) \/ h' = Reset(Released(h)))
    BY <1>1, <1>5 DEF BlockDone
  <2>2. /\ h'.offset = t /\ h'.current = 0 /\ h'.buffer = <<>>
        /\ h'.recv = h.recv /\ h'.drop = h.drop /\ h'.packets_read = h.packets_read
    <3> DEFINE x == Released(h)
    <3>1. /\ x.offset = (o + 1) % Frames /\ x.current = 0 /\ x.buffer = <<>>
          /\ x.recv = h.recv /\ x.drop = h.drop /\ x.packets_read = h.packets_read
      BY <1>1, ReleasedFacts
    <3>2. x \in HandleStates  BY <1>1, ReleasedType
    <3>3. h' = x \/ h' = Reset(x)  BY <2>1
    <3> HIDE DEF x
    <3>4. QED BY <3>1, <3>2, <3>3, ReleasedFacts
  <2>3. /\ Freed(r, a, o) /\ kern'.pos = w /\ kern'.inflight = kern.inflight
        /\ kern'.next = kern.next /\ kern'.packets = kern.packets /\ kern'.drops = kern.drops
    BY <1>1, <2>1, GivenBackFacts
  <2>4. Change >= 0  BY <1>1, <2>2, <2>3, ChangeFacts
  <2>5. c # 0 /\ r[o].user /\ c + h.left = Len(r[o].pkts) + 1 /\ Good(r)  BY <1>1, <1>2 DEF Place
  <2>6. ReadOut(r, o, c)
    <3>1. Len(r[o].pkts) \in Nat /\ \A i \in DOMAIN r[o].pkts : i \in Nat /\ i <= Len(r[o].pkts)
      BY <1>1, RingFacts
    <3>2. h.left = 0  BY <1>1, <1>5
    <3>3. c = Len(r[o].pkts) + 1  BY <1>1, <2>5, <3>1, <3>2
    <3>4. QED BY <3>1, <3>3 DEF ReadOut
  <2>7. \A m \in Nat : InRing(g, r, w, o, c, l, m) =>
          InRing(g, a, w, t, 0, l, m) /\ RingIds(a, t, 0) = RingIds(r, o, c) /\ Good(a)
    <3>1. r \in Ring /\ w \in Slots /\ o \in Slots /\ c \in Nat /\ l \in Nat  BY <1>1
    <3> HIDE DEF a, w, g, l, r, o, c
    <3>2. SUFFICES ASSUME NEW m \in Nat, InRing(g, r, w, o, c, l, m)
                   PROVE  InRing(g, a, w, t, 0, l, m) /\ RingIds(a, t, 0) = RingIds(r, o, c) /\ Good(a)
      OBVIOUS
    <3>3. c # 0 /\ r[o].user /\ ReadOut(r, o, c) /\ Freed(r, a, o) /\ Good(r)  BY <2>3, <2>5, <2>6
    <3>4. QED BY <3>1, <3>2, <3>3, BlockFreed
  <2>8. \E m \in Nat : InRing(g, r, w, o, c, l, m)  BY <1>1, StreamFacts DEF Ordered
  <2>9. Place'  BY <1>1, <1>2, <1>3, <2>2, <2>7, <2>8 DEF Place
  <2>10. \A m \in Nat : InRing(hd.mode, kern.ring, kern.pos, h.offset, h.current, last.id, m) =>
             /\ InRing(hd.mode, kern'.ring, kern'.pos, h'.offset, h'.current, last'.id, m)
             /\ Advance(RingIds(kern.ring, h.offset, h.current), last.id,
                        RingIds(kern'.ring, h'.offset, h'.current), last'.id, Change)
    BY <1>2, <2>2, <2>3, <2>4, <2>7 DEF Advance
  <2>11. QED BY <1>1, <1>2, <2>3, <2>9, <2>10, RingStep
<1>6. QED BY <1>4, <1>5

-----------------------------------------------------------------------------
(* Devices *)

LEMMA DeviceReads ==
    ASSUME StreamInv, call.at \in {"read", "event"}
    PROVE  /\ TypeOK /\ h \in HandleStates /\ kern \in KernelStates /\ Place /\ call \in CallStates
           /\ hd.mode \notin Rings /\ Change = 1 /\ last.id \in Nat /\ Phase /\ Device
           /\ kern.queue \in Seq(Packets) /\ h.buffer \in Seq(Packets)
           /\ hd.mode # "mapped" => Skip = 0 /\ (UNCHANGED hd => Skip' = 0)
<1>1. Device  BY StreamFacts DEF Phase
<1>2. hd.mode \notin Rings /\ Change = 1  BY <1>1 DEF Device, mmapped, Rings, Change
<1>3. hd.mode # "mapped" => Skip = 0 /\ (UNCHANGED hd => Skip' = 0)  BY DEF Skip
<1>4. QED BY <1>1, <1>2, <1>3, StreamFacts

\* an event or a datagram is read, or thrown away for a break
LEMMA ReadStreams ==
    ASSUME StreamInv, Read
    PROVE  Streams
<1>1. call.at = "read" /\ hd.mode # "mapped" /\ UNCHANGED <<hd, last>>  BY DEF Read
<1>2. /\ TypeOK /\ h \in HandleStates /\ kern \in KernelStates /\ Place /\ call \in CallStates
      /\ hd.mode \notin Rings /\ Change = 1 /\ last.id \in Nat
      /\ kern.queue \in Seq(Packets) /\ Skip = 0 /\ Skip' = 0
  BY <1>1, DeviceReads
<1>3. h.buffer = <<>>  BY <1>1, <1>2 DEF Place
<1>4. CASE UNCHANGED kern /\ Break
  <2>1. h' = Reset(h) /\ call'.at # "batch"  BY <1>2, <1>4, BreakType DEF Break
  <2>2. QED BY <1>1, <1>4, <2>1, QuietRead
<1>5. ASSUME NEW n \in Int, Return(n, 0), UNCHANGED <<h, kern>> PROVE Streams
  <2>1. call'.at # "batch"  BY <1>2, <1>5, ReturnPlace, 0 \in Nat
  <2>2. QED BY <1>1, <1>5, <2>1, QuietRead
<1>6. CASE At("read") /\ UNCHANGED <<h, kern>>
  <2>1. call'.at = "read"  BY <1>2, <1>6 DEF At, CallStates
  <2>2. QED BY <1>1, <1>6, <2>1, QuietRead
<1>7. ASSUME NEW n \in Datagrams, kern' = Left(n),
             IF h.break_loop THEN Return(-2, 0) /\ h' = Reset(Lost(h, {p.id : p \in Range(Taken(n))}))
             ELSE At("event") /\ h' = [h EXCEPT !.buffer = Taken(n)]
      PROVE  Streams
  <2> DEFINE q == kern.queue
             r == SubSeq(q, n + 1, Len(q))
             t == SubSeq(q, 1, n)
             l == last.id
  <2>1. n \in 1 .. Len(q)
    <3>1. Len(q) \in Nat  BY <1>2
    <3>2. QED BY <3>1 DEF Datagrams, Minimum
  <2>2. /\ q[n].id \in Nat
        /\ \A m \in Nat : InQueue(q, <<>>, 0, l, m) =>
             /\ InQueue(r, <<>>, 0, l, m) /\ InQueue(r, t, 0, l, m)
             /\ QueueIds(r, t, 0) = QueueIds(q, <<>>, 0)
             /\ q[n].id \in QueueIds(q, <<>>, 0) /\ l < q[n].id
             /\ QueueIds(r, <<>>, 0) = {f \in QueueIds(q, <<>>, 0) : q[n].id < f}
    <3>1. l \in Nat /\ q \in Seq(Packets)  BY <1>2
    <3> HIDE DEF q, l
    <3>2. /\ q[n].id \in Nat
          /\ \A m \in Nat : InQueue(q, <<>>, 0, l, m) =>
               /\ InQueue(r, <<>>, 0, l, m) /\ InQueue(r, t, 0, l, m) /\ InQueue(r, <<>>, 0, q[n].id, m)
               /\ QueueIds(r, t, 0) = QueueIds(q, <<>>, 0)
               /\ q[n].id \in QueueIds(q, <<>>, 0) /\ l < q[n].id
               /\ QueueIds(r, <<>>, 0) = {f \in QueueIds(q, <<>>, 0) : q[n].id < f}
               /\ n = 1 => \A f \in QueueIds(q, <<>>, 0) : f = q[n].id \/ q[n].id < f
      BY <2>1, <3>1, QueueTake
    <3> HIDE DEF r, t
    <3>3. QED BY <3>2
  <2>3. /\ kern'.queue = r /\ kern'.ring = kern.ring /\ kern'.inflight = kern.inflight /\ kern'.next = kern.next
    BY <1>2, <1>7 DEF Left, KernelStates
  <2>4. h'.current = h.current /\ h'.offset = h.offset /\ h'.left = h.left
    <3> DEFINE x == Lost(h, {p.id : p \in Range(Taken(n))})
    <3>1. x \in HandleStates /\ x.current = h.current /\ x.offset = h.offset /\ x.left = h.left
      <4>1. x \in HandleStates  BY <1>2, ReadLost
      <4>2. QED BY <1>2, <4>1 DEF Lost, HandleStates
    <3>2. h' = Reset(x) \/ h' = [h EXCEPT !.buffer = Taken(n)]  BY <1>7
    <3> HIDE DEF x
    <3>3. QED BY <1>2, <3>1, <3>2, ReleasedFacts DEF HandleStates
  <2>5. CASE h.break_loop
    <3>1. h'.buffer = <<>>
      <4> DEFINE x == Lost(h, {p.id : p \in Range(Taken(n))})
      <4>1. x \in HandleStates  BY <1>2, ReadLost
      <4>2. x.buffer = <<>>  BY <1>2 DEF Lost, HandleStates
      <4>3. h' = Reset(x)  BY <1>7, <2>5
      <4> HIDE DEF x
      <4>4. QED BY <4>1, <4>2, <4>3, ReleasedFacts
    <3>2. call'.at # "batch"  BY <1>2, <1>7, <2>5, ReturnPlace, -2 \in Int, 0 \in Nat
    <3>3. Place'  BY <1>1, <1>2, <2>3, <2>4, <3>1, <3>2 DEF Place
    <3>4. ASSUME NEW m \in Nat, InQueue(q, <<>>, 0, l, m)
          PROVE  InQueue(r, <<>>, 0, l, m) /\ Advance(QueueIds(q, <<>>, 0), l, QueueIds(r, <<>>, 0), l, 1)
      <4> DEFINE e == q[n].id
      <4>1. /\ InQueue(r, <<>>, 0, l, m) /\ e \in QueueIds(q, <<>>, 0)
            /\ QueueIds(r, <<>>, 0) = {f \in QueueIds(q, <<>>, 0) : e < f}
        BY <2>2, <3>4
      <4>2. 1 >= 0  OBVIOUS
      <4> HIDE DEF q, r, e
      <4>3. QED BY <4>1, <4>2, DiscardAdvance
    <3>5. \A m \in Nat : InQueue(kern.queue, h.buffer, Skip, last.id, m) =>
             /\ InQueue(kern'.queue, h'.buffer, Skip', last'.id, m)
             /\ Advance(QueueIds(kern.queue, h.buffer, Skip), last.id,
                        QueueIds(kern'.queue, h'.buffer, Skip'), last'.id, Change)
      BY <1>1, <1>2, <1>3, <2>3, <3>1, <3>4
    <3>6. QED BY <1>1, <1>2, <2>3, <3>3, <3>5, QueueStep
  <2>6. CASE ~h.break_loop
    <3>1. h' = [h EXCEPT !.buffer = Taken(n)] /\ At("event")  BY <1>7, <2>6
    <3>2. h'.buffer = t  BY <1>2, <3>1 DEF Taken, HandleStates
    <3>3. call'.at = "event"  BY <1>2, <3>1 DEF At, CallStates
    <3>4. Place'  BY <1>1, <1>2, <2>3, <2>4, <3>3 DEF Place
    <3>5. ASSUME NEW m \in Nat, InQueue(q, <<>>, 0, l, m)
          PROVE  InQueue(r, t, 0, l, m) /\ Advance(QueueIds(q, <<>>, 0), l, QueueIds(r, t, 0), l, 1)
      <4>1. InQueue(r, t, 0, l, m) /\ QueueIds(r, t, 0) = QueueIds(q, <<>>, 0)  BY <2>2, <3>5
      <4>2. 1 >= 0  OBVIOUS
      <4> HIDE DEF q, r, t
      <4>3. QED BY <4>1, <4>2 DEF Advance
    <3>6. \A m \in Nat : InQueue(kern.queue, h.buffer, Skip, last.id, m) =>
             /\ InQueue(kern'.queue, h'.buffer, Skip', last'.id, m)
             /\ Advance(QueueIds(kern.queue, h.buffer, Skip), last.id,
                        QueueIds(kern'.queue, h'.buffer, Skip'), last'.id, Change)
      BY <1>1, <1>2, <1>3, <2>3, <3>2, <3>5
    <3>7. QED BY <1>1, <1>2, <2>3, <3>4, <3>6, QueueStep
  <2>7. QED BY <2>5, <2>6
<1>8. -1 \in Int /\ 0 \in Int /\ (IF hd.mode \in {"text", "bin"} THEN 0 ELSE -1) \in Int  OBVIOUS
<1>9. \/ \E n \in Datagrams :
            /\ kern' = Left(n)
            /\ IF h.break_loop THEN Return(-2, 0) /\ h' = Reset(Lost(h, {p.id : p \in Range(Taken(n))}))
               ELSE At("event") /\ h' = [h EXCEPT !.buffer = Taken(n)]
      \/ UNCHANGED kern /\ Break
      \/ UNCHANGED kern /\ Return(IF hd.mode \in {"text", "bin"} THEN 0 ELSE -1, 0) /\ UNCHANGED h
      \/ UNCHANGED kern /\ Return(-1, 0) /\ UNCHANGED h
      \/ UNCHANGED kern /\ At("read") /\ UNCHANGED h
  BY DEF Read, AfterPoll
<1>10. QED BY <1>4, <1>5, <1>6, <1>7, <1>8, <1>9

\* an event is shown, or cannot be read; a message of a datagram is shown, or the rest is cut off
LEMMA EventStreams ==
    ASSUME StreamInv, usb_read_linux \/ usb_read_linux_bin \/ can_read_linux \/ Message \/ DatagramDone
    PROVE  Streams
<1>1. call.at = "event" /\ hd.mode # "mapped" /\ UNCHANGED hd
  BY DEF usb_read_linux, usb_read_linux_bin, can_read_linux, Message, DatagramDone, netfilter
<1>2. /\ TypeOK /\ h \in HandleStates /\ kern \in KernelStates /\ Place /\ call \in CallStates
      /\ hd.mode \notin Rings /\ Change = 1 /\ last.id \in Nat /\ Phase
      /\ kern.queue \in Seq(Packets) /\ h.buffer \in Seq(Packets) /\ Skip = 0 /\ Skip' = 0
  BY <1>1, DeviceReads
<1> DEFINE q == kern.queue
           b == h.buffer
           p == Head(b)
           l == last.id
<1>3. ASSUME b # <<>>, h'.current = h.current, h'.offset = h.offset, h'.left = h.left,
             kern'.queue = q, kern'.ring = kern.ring, kern'.inflight = kern.inflight,
             kern'.next = kern.next, call'.at # "batch",
             \/ last'.id = p.id /\ h'.buffer = Tail(b) /\ (h'.buffer # <<>> => call'.at = "event")
             \/ UNCHANGED last /\ h'.buffer = <<>>
      PROVE  Streams
  <2>1. /\ p.id \in Nat
        /\ \A m \in Nat : InQueue(q, b, 0, l, m) =>
                /\ InQueue(q, Tail(b), 0, p.id, m)
                /\ p.id \in QueueIds(q, b, 0) /\ l < p.id
                /\ QueueIds(q, Tail(b), 0) = {f \in QueueIds(q, b, 0) : p.id < f}
                /\ \A f \in QueueIds(q, b, 0) : f = p.id \/ p.id < f
                /\ InQueue(q, <<>>, 0, l, m)
                /\ b[Len(b)].id \in QueueIds(q, b, 0)
                /\ QueueIds(q, <<>>, 0) = {f \in QueueIds(q, b, 0) : b[Len(b)].id < f}
    <3>1. q \in Seq(Packets) /\ b \in Seq(Packets) /\ l \in Nat  BY <1>2
    <3> HIDE DEF q, b, l
    <3>2. QED BY <1>3, <3>1, BufferHead
  <2>2. Place'  BY <1>1, <1>2, <1>3 DEF Place
  <2>3. 1 >= -1 /\ 1 >= 0  OBVIOUS
  <2>4. CASE last'.id = p.id /\ h'.buffer = Tail(b)
    <3>1. ASSUME NEW m \in Nat, InQueue(q, b, 0, l, m)
          PROVE  InQueue(q, Tail(b), 0, p.id, m) /\ Advance(QueueIds(q, b, 0), l, QueueIds(q, Tail(b), 0), p.id, 1)
      <4> HIDE DEF q, b, l, p
      <4>1. QED BY <2>1, <2>3, <3>1, ShowAdvance
    <3>2. \A m \in Nat : InQueue(kern.queue, h.buffer, Skip, last.id, m) =>
             /\ InQueue(kern'.queue, h'.buffer, Skip', last'.id, m)
             /\ Advance(QueueIds(kern.queue, h.buffer, Skip), last.id,
                        QueueIds(kern'.queue, h'.buffer, Skip'), last'.id, Change)
      BY <1>2, <1>3, <2>4, <3>1
    <3>3. last'.id \in Nat  BY <2>1, <2>4
    <3>4. QED BY <1>1, <1>2, <1>3, <2>2, <3>2, <3>3, QueueStep
  <2>5. CASE UNCHANGED last /\ h'.buffer = <<>>
    <3>1. ASSUME NEW m \in Nat, InQueue(q, b, 0, l, m)
          PROVE  InQueue(q, <<>>, 0, l, m) /\ Advance(QueueIds(q, b, 0), l, QueueIds(q, <<>>, 0), l, 1)
      <4> DEFINE e == b[Len(b)].id
      <4>1. /\ InQueue(q, <<>>, 0, l, m) /\ e \in QueueIds(q, b, 0)
            /\ QueueIds(q, <<>>, 0) = {f \in QueueIds(q, b, 0) : e < f}
        BY <2>1, <3>1
      <4> HIDE DEF q, b, l, e
      <4>2. QED BY <2>3, <4>1, DiscardAdvance
    <3>2. \A m \in Nat : InQueue(kern.queue, h.buffer, Skip, last.id, m) =>
             /\ InQueue(kern'.queue, h'.buffer, Skip', last'.id, m)
             /\ Advance(QueueIds(kern.queue, h.buffer, Skip), last.id,
                        QueueIds(kern'.queue, h'.buffer, Skip'), last'.id, Change)
      BY <1>2, <1>3, <2>5, <3>1
    <3>3. QED BY <1>1, <1>2, <1>3, <2>2, <2>5, <3>2, QueueStep
  <2>6. QED BY <1>3, <2>4, <2>5
<1>4. ASSUME NEW n \in Int, NEW g \in Nat, Return(n, g) PROVE call'.at # "batch"
  BY <1>2, <1>4, ReturnPlace
<1>5. ASSUME ~netfilter PROVE b # <<>> /\ Tail(b) = <<>>
  <2>1. Len(b) = 1  BY <1>1, <1>2, <1>5 DEF Phase
  <2>2. b # <<>>  BY <2>1, EmptyFacts
  <2>3. Tail(b) \in Seq(Packets) /\ Len(Tail(b)) = 0  BY <1>2, <2>1, <2>2, HeadTailProperties
  <2>4. QED BY <2>2, <2>3, EmptySeq
<1>6. [h EXCEPT !.buffer = <<>>] \in HandleStates  BY <1>2, EmptyType DEF HandleStates
<1>7. ASSUME NEW x \in HandleStates
      PROVE  /\ Counted(x).current = x.current /\ Counted(x).offset = x.offset /\ Counted(x).left = x.left
             /\ Counted(x).buffer = x.buffer
  BY <1>7, CountedType
<1>8. CASE Handed /\ UNCHANGED kern /\ ~netfilter
  <2> DEFINE n == IF DeviceShows(p) THEN 1 ELSE 0
             x == [h EXCEPT !.buffer = <<>>]
  <2>1. last' = Looked(p, DeviceShows(p)) /\ Return(n, n) /\ (h' = Counted(x) \/ h' = x)
    BY <1>8 DEF Handed
  <2>2. n \in Int /\ n \in Nat  OBVIOUS
  <2>3. last'.id = p.id  BY <2>1 DEF Looked
  <2>4. x.current = h.current /\ x.offset = h.offset /\ x.left = h.left /\ x.buffer = <<>>
    BY <1>2 DEF HandleStates
  <2> HIDE DEF x, n
  <2>5. h'.current = h.current /\ h'.offset = h.offset /\ h'.left = h.left /\ h'.buffer = <<>>
    BY <1>6, <1>7, <2>1, <2>4 DEF x
  <2>6. call'.at # "batch"  BY <1>4, <2>1, <2>2
  <2>7. QED BY <1>3, <1>5, <1>8, <2>3, <2>5, <2>6
<1>9. CASE Unread /\ UNCHANGED kern /\ ~netfilter
  <2>1. last' = [Looked(p, FALSE) EXCEPT !.excused = TRUE] /\ Return(-1, 0) /\ h' = [h EXCEPT !.buffer = <<>>]
    BY <1>9 DEF Unread
  <2>2. last'.id = p.id  BY <2>1 DEF Looked
  <2>3. h'.current = h.current /\ h'.offset = h.offset /\ h'.left = h.left /\ h'.buffer = <<>>
    BY <1>2, <2>1 DEF HandleStates
  <2>4. call'.at # "batch"  BY <1>4, <2>1, -1 \in Int, 0 \in Nat
  <2>5. QED BY <1>3, <1>5, <1>9, <2>2, <2>3, <2>4
<1>10. CASE Message
  <2> DEFINE n == IF DeviceShows(p) THEN 1 ELSE 0
             x == [h EXCEPT !.buffer = Tail(@)]
             y == IF DeviceShows(p) THEN Counted(x) ELSE x
  <2>1. b # <<>>  BY <1>10 DEF Message
  <2>2. x \in HandleStates
    <3>1. Tail(b) \in Bounded  BY <1>2, <2>1, BoundedTail DEF HandleStates
    <3>2. QED BY <1>2, <3>1 DEF HandleStates
  <2>3. y \in HandleStates  BY <2>2, CountedType
  <2>4. x.current = h.current /\ x.offset = h.offset /\ x.left = h.left /\ x.buffer = Tail(b)
    BY <1>2 DEF HandleStates
  <2>5. y.current = h.current /\ y.offset = h.offset /\ y.left = h.left /\ y.buffer = Tail(b)
    <3>1. y = x \/ y = Counted(x)  OBVIOUS
    <3> HIDE DEF x, y
    <3>2. QED BY <1>7, <2>2, <2>4, <3>1
  <2> HIDE DEF y
  <2>6. \/ /\ h' = y /\ kern' = Verdict(kern, p)
           /\ last' = [Looked(p, DeviceShows(p)) EXCEPT !.excused = @ \/ p.bad]
           /\ call' = [call EXCEPT !.pkts = @ + n, !.given = @ + n]
        \/ /\ h' = [y EXCEPT !.lost = @ \cup {p.id}] /\ UNCHANGED kern
           /\ last' = [Looked(p, DeviceShows(p)) EXCEPT !.excused = @ \/ p.bad]
           /\ call' = [call EXCEPT !.pkts = @ + n, !.given = @ + n]
        \/ Return(-1, 0) /\ h' = Lost(h, {u.id : u \in Range(b)}) /\ UNCHANGED <<kern, last>>
    BY <1>10 DEF Message, y
  <2> HIDE DEF n
  <2>7. CASE /\ (h' = y /\ kern' = Verdict(kern, p)) \/ (h' = [y EXCEPT !.lost = @ \cup {p.id}] /\ UNCHANGED kern)
             /\ last' = [Looked(p, DeviceShows(p)) EXCEPT !.excused = @ \/ p.bad]
             /\ call' = [call EXCEPT !.pkts = @ + n, !.given = @ + n]
    <3>1. h'.current = h.current /\ h'.offset = h.offset /\ h'.left = h.left /\ h'.buffer = Tail(b)
      BY <2>3, <2>5, <2>7 DEF HandleStates
    <3>2. /\ kern'.queue = q /\ kern'.ring = kern.ring /\ kern'.inflight = kern.inflight
          /\ kern'.next = kern.next
      BY <1>2, <2>7 DEF Verdict, KernelStates
    <3>3. last'.id = p.id  BY <2>7 DEF Looked
    <3>4. call'.at = "event"  BY <1>1, <1>2, <2>7 DEF CallStates
    <3>5. QED BY <1>3, <2>1, <3>1, <3>2, <3>3, <3>4
  <2>8. CASE Return(-1, 0) /\ h' = Lost(h, {u.id : u \in Range(b)}) /\ UNCHANGED <<kern, last>>
    <3>1. h'.current = h.current /\ h'.offset = h.offset /\ h'.left = h.left /\ h'.buffer = <<>>
      BY <1>2, <2>8 DEF Lost, HandleStates
    <3>2. call'.at # "batch"  BY <1>4, <2>8, -1 \in Int, 0 \in Nat
    <3>3. QED BY <1>3, <2>1, <2>8, <3>1, <3>2
  <2>9. QED BY <2>6, <2>7, <2>8
<1>11. CASE DatagramDone
  <2>1. b = <<>> /\ Return(call.pkts, 0) /\ UNCHANGED <<h, kern, last>>  BY <1>11 DEF DatagramDone
  <2>2. call'.at # "batch"
    <3>1. call.pkts \in Int /\ 0 \in Nat  BY <1>2 DEF CallStates
    <3>2. QED BY <1>4, <2>1, <3>1
  <2>3. Alike(h')  BY <1>2, <2>1, AlikeFacts
  <2>4. QED BY <1>1, <2>1, <2>2, <2>3, QuietStep
<1>12. hd.mode \in {"text", "bin", "can"} => ~netfilter  BY DEF netfilter
<1>13. QED
  BY <1>8, <1>9, <1>10, <1>11, <1>12 DEF usb_read_linux, usb_read_linux_bin, can_read_linux

\* an empty queue is in order, whatever is skipped
LEMMA EmptyQueue ==
    ASSUME NEW n, NEW k, NEW l, NEW m
    PROVE  /\ InQueue(<<>>, <<>>, n, l, m) => InQueue(<<>>, <<>>, k, l, m)
           /\ QueueIds(<<>>, <<>>, n) = QueueIds(<<>>, <<>>, k)
BY EmptyFacts DEF InQueue, QueueIds

\* the ring of a USB monitor: events are fetched, and those fetched before are freed
LEMMA FetchStreams ==
    ASSUME StreamInv, Fetch \/ FetchDone
    PROVE  Streams
<1>1. call.at \in {"read", "event"} /\ hd.mode = "mapped" /\ UNCHANGED <<hd, last>>
  BY DEF Fetch, FetchDone
<1>2. /\ TypeOK /\ h \in HandleStates /\ kern \in KernelStates /\ Place /\ call \in CallStates
      /\ hd.mode \notin Rings /\ Change = 1 /\ last.id \in Nat /\ kern.queue \in Seq(Packets)
      /\ h.buffer = <<>> /\ Fetching /\ call.nflush \in Nat
  BY <1>1, DeviceReads, StreamFacts DEF Place
<1>3. call.todo = 0
  <2>1. CASE Fetch  BY <1>2, <2>1 DEF Fetch, Fetching
  <2>2. CASE FetchDone  BY <2>2 DEF FetchDone
  <2>3. QED BY <2>1, <2>2
<1>4. Skip = call.nflush  BY <1>1, <1>2, <1>3 DEF Skip
<1> DEFINE q == kern.queue
           n == call.nflush
           r == SubSeq(q, Minimum(n, Len(q)) + 1, Len(q))
           l == last.id
<1>5. /\ Flushed.queue = r /\ Flushed.ring = kern.ring /\ Flushed.inflight = kern.inflight
      /\ Flushed.next = kern.next
  BY <1>2 DEF Flushed, Left, KernelStates
<1>6. /\ QueueIds(r, <<>>, 0) = QueueIds(q, <<>>, n)
      /\ \A m \in Nat : InQueue(q, <<>>, n, l, m) => InQueue(r, <<>>, 0, l, m)
  <2>1. q \in Seq(Packets) /\ l \in Nat /\ n \in Nat  BY <1>2
  <2> HIDE DEF q, l, n
  <2>2. QED BY <2>1, QueueFlush
<1>7. ASSUME kern' = Flushed, h' = h \/ h' = Reset(h), call'.at # "batch", Fetching',
             call'.nflush \in Nat, call'.todo \in Nat,
             call'.nflush = call'.todo \/ Flushed.queue = <<>>
      PROVE  Streams
  <2>1. Alike(h')  BY <1>2, <1>7, AlikeFacts
  <2>2. h'.buffer = <<>> /\ h'.current = h.current /\ h'.offset = h.offset /\ h'.left = h.left
    BY <1>2, <2>1 DEF Alike
  <2>3. Place'  BY <1>1, <1>2, <1>5, <1>7, <2>2 DEF Place
  <2>4. /\ QueueIds(r, <<>>, Skip') = QueueIds(q, <<>>, n)
        /\ \A m \in Nat : InQueue(q, <<>>, n, l, m) => InQueue(r, <<>>, Skip', l, m)
    <3>1. CASE call'.nflush = call'.todo
      <4>1. Skip' = 0  BY <1>1, <1>7, <3>1 DEF Skip
      <4>2. QED BY <1>6, <4>1
    <3>2. CASE Flushed.queue = <<>>
      <4>1. r = <<>>  BY <1>5, <3>2
      <4> HIDE DEF r, q, n, l
      <4>2. QED BY <1>6, <4>1, EmptyQueue
    <3>3. QED BY <1>7, <3>1, <3>2
  <2>5. 1 >= 0  OBVIOUS
  <2>6. \A m \in Nat : InQueue(kern.queue, h.buffer, Skip, last.id, m) =>
             /\ InQueue(kern'.queue, h'.buffer, Skip', last'.id, m)
             /\ Advance(QueueIds(kern.queue, h.buffer, Skip), last.id,
                        QueueIds(kern'.queue, h'.buffer, Skip'), last'.id, Change)
    <3>1. ASSUME NEW m \in Nat, InQueue(q, <<>>, n, l, m)
          PROVE  InQueue(r, <<>>, Skip', l, m) /\ Advance(QueueIds(q, <<>>, n), l, QueueIds(r, <<>>, Skip'), l, 1)
      <4> HIDE DEF r, q, n, l
      <4>1. QED BY <2>4, <2>5, <3>1 DEF Advance
    <3>2. QED BY <1>1, <1>2, <1>4, <1>5, <1>7, <2>2, <3>1
  <2>7. QED BY <1>1, <1>2, <1>5, <1>7, <2>3, <2>6, QueueStep
<1>8. ASSUME NEW c \in Int, Return(c, 0)
      PROVE  /\ call'.at # "batch" /\ call'.nflush = 0 /\ call'.todo = 0
             /\ call'.nflush \in Nat /\ call'.todo \in Nat /\ Fetching'
  <2>1. call'.nflush = 0 /\ call'.todo = 0 /\ call'.at \notin {"batch", "event"}
    BY <1>2, <1>3, <1>8, ReturnPlace, 0 \in Nat
  <2>2. QED BY <2>1 DEF Fetching
<1>9. CASE Fetch
  <2>1. CASE Break
    <3>1. h' = Reset(h) /\ Return(-2, 0)  BY <2>1 DEF Break
    <3>2. QED BY <1>7, <1>8, <1>9, <3>1, -2 \in Int DEF Fetch
  <2>2. ASSUME NEW c \in Int, Return(c, 0), UNCHANGED h PROVE Streams
    BY <1>7, <1>8, <1>9, <2>2 DEF Fetch
  <2>3. CASE Flushed.queue = <<>> /\ At("read") /\ UNCHANGED h
    <3>1. call'.at = "read" /\ call'.todo = 0 /\ call'.nflush = n  BY <1>2, <1>3, <2>3 DEF At, CallStates
    <3>2. Fetching'  BY <3>1 DEF Fetching
    <3>3. call'.nflush \in Nat /\ call'.todo \in Nat  BY <1>2, <3>1
    <3>4. QED BY <1>7, <1>9, <2>3, <3>1, <3>2, <3>3 DEF Fetch
  <2> DEFINE k == Minimum(Limit, Len(Flushed.queue))
  <2>4. CASE call' = [call EXCEPT !.at = "event", !.nflush = k, !.todo = k] /\ UNCHANGED h
    <3>1. k \in Nat  BY <1>2, LimitType
    <3>2. k <= Len(Flushed.queue)
      <4>1. Len(Flushed.queue) \in Nat  BY <1>2, FlushedType DEF KernelStates, Bounded
      <4>2. Limit \in Int
        <5>1. call.max \in Int /\ call.pkts \in Nat  BY <1>2 DEF CallStates
        <5>2. QED BY <5>1, CaptureAssumption DEF Limit
      <4>3. QED BY <4>1, <4>2 DEF Minimum
    <3> HIDE DEF k
    <3>3. call'.at = "event" /\ call'.nflush = k /\ call'.todo = k  BY <1>2, <2>4 DEF CallStates
    <3>4. kern' = Flushed  BY <1>9 DEF Fetch
    <3>5. Fetching'  BY <3>1, <3>2, <3>3, <3>4 DEF Fetching
    <3>6. QED BY <1>7, <2>4, <3>1, <3>3, <3>4, <3>5
  <2>5. 0 \in Int /\ -1 \in Int  OBVIOUS
  <2>6. \/ Break
        \/ (Return(0, 0) \/ Return(-1, 0)) /\ UNCHANGED h
        \/ Flushed.queue = <<>> /\ At("read") /\ UNCHANGED h
        \/ call' = [call EXCEPT !.at = "event", !.nflush = k, !.todo = k] /\ UNCHANGED h
    BY <1>9 DEF Fetch, AfterPoll
  <2>7. QED BY <2>1, <2>2, <2>3, <2>4, <2>5, <2>6
<1>10. CASE FetchDone
  <2>1. UNCHANGED h /\ ((kern' = Flushed /\ Return(call.pkts, 0)) \/ (At("read") /\ UNCHANGED kern))
    BY <1>10 DEF FetchDone
  <2>2. CASE kern' = Flushed /\ Return(call.pkts, 0)
    <3>1. call.pkts \in Int  BY <1>2 DEF CallStates
    <3>2. QED BY <1>7, <1>8, <2>1, <2>2, <3>1
  <2>3. CASE At("read") /\ UNCHANGED kern
    <3>1. call'.at = "read" /\ call'.todo = 0 /\ call'.nflush = n  BY <1>2, <1>3, <2>3 DEF At, CallStates
    <3>2. Fetching'  BY <3>1 DEF Fetching
    <3>3. Skip' = Skip  BY <1>1, <1>3, <3>1 DEF Skip
    <3>4. Alike(h')  BY <1>2, <2>1, AlikeFacts
    <3>5. QED BY <1>1, <1>2, <2>1, <2>3, <3>1, <3>2, <3>3, <3>4, QuietStep
  <2>4. QED BY <2>1, <2>2, <2>3
<1>11. QED BY <1>9, <1>10

\* one of the events that were fetched is shown
LEMMA FetchedStreams ==
    ASSUME StreamInv, FetchedEvent
    PROVE  Streams
<1> DEFINE q == kern.queue
           n == call.nflush - call.todo
           p == q[n + 1]
           c == IF DeviceShows(p) THEN 1 ELSE 0
           l == last.id
<1>1. /\ call.at = "event" /\ hd.mode = "mapped" /\ call.todo > 0 /\ UNCHANGED <<hd, kern>>
      /\ last' = Looked(p, DeviceShows(p)) /\ (h' = h \/ h' = Counted(h))
      /\ call' = [call EXCEPT !.todo = @ - 1, !.pkts = @ + c, !.given = @ + c]
  BY DEF FetchedEvent
<1>2. /\ TypeOK /\ h \in HandleStates /\ kern \in KernelStates /\ Place /\ call \in CallStates
      /\ hd.mode \notin Rings /\ Change = 1 /\ last.id \in Nat /\ kern.queue \in Seq(Packets)
      /\ h.buffer = <<>> /\ Fetching /\ call.nflush \in Nat /\ call.todo \in Nat
  BY <1>1, DeviceReads, StreamFacts DEF Place
<1>3. last'.id = p.id  BY <1>1 DEF Looked
<1> HIDE DEF c
<1>4. call'.at = "event" /\ call'.todo = call.todo - 1 /\ call'.nflush = call.nflush
  BY <1>1, <1>2 DEF CallStates
<1>5. call.todo <= call.nflush /\ call.nflush <= Len(q) /\ Len(q) \in Nat  BY <1>1, <1>2 DEF Fetching
<1>6. n \in Nat /\ n < Len(q)  BY <1>1, <1>2, <1>5
<1>7. Skip = n  BY <1>1 DEF Skip
<1>8. Skip' = n + 1
  <2>1. Skip' = call.nflush - (call.todo - 1)  BY <1>1, <1>4 DEF Skip
  <2>2. QED BY <1>2, <2>1
<1>9. Fetching'
  <2>1. call.todo - 1 <= call.nflush  BY <1>2, <1>5
  <2>2. QED BY <1>1, <1>4, <1>5, <2>1 DEF Fetching
<1>10. Alike(h')  BY <1>1, <1>2, AlikeFacts
<1>11. h'.buffer = <<>> /\ h'.current = h.current /\ h'.offset = h.offset /\ h'.left = h.left
  BY <1>2, <1>10 DEF Alike
<1>12. Place'  BY <1>1, <1>2, <1>4, <1>9, <1>11 DEF Place
<1> HIDE DEF n
<1>13. /\ p.id \in Nat
       /\ \A m \in Nat : InQueue(q, <<>>, n, l, m) =>
            /\ InQueue(q, <<>>, n + 1, p.id, m)
            /\ p.id \in QueueIds(q, <<>>, n) /\ l < p.id
            /\ QueueIds(q, <<>>, n + 1) = {f \in QueueIds(q, <<>>, n) : p.id < f}
            /\ \A f \in QueueIds(q, <<>>, n) : f = p.id \/ p.id < f
  <2>1. q \in Seq(Packets) /\ l \in Nat  BY <1>2
  <2> HIDE DEF q, l
  <2>2. QED BY <1>6, <2>1, QueueNext
<1>14. ASSUME NEW m \in Nat, InQueue(q, <<>>, n, l, m)
       PROVE  InQueue(q, <<>>, n + 1, p.id, m) /\ Advance(QueueIds(q, <<>>, n), l, QueueIds(q, <<>>, n + 1), p.id, 1)
  <2> DEFINE z == n + 1
             e == p.id
  <2>1. /\ InQueue(q, <<>>, z, e, m) /\ e \in QueueIds(q, <<>>, n) /\ l < e
        /\ QueueIds(q, <<>>, z) = {f \in QueueIds(q, <<>>, n) : e < f}
        /\ \A f \in QueueIds(q, <<>>, n) : f = e \/ e < f
    BY <1>13, <1>14
  <2>2. 1 >= -1  OBVIOUS
  <2> HIDE DEF z, e, q, l
  <2>3. InQueue(q, <<>>, z, e, m) /\ Advance(QueueIds(q, <<>>, n), l, QueueIds(q, <<>>, z), e, 1)
    BY <2>1, <2>2, ShowAdvance
  <2>4. QED BY <2>3 DEF z, e
<1>15. \A m \in Nat : InQueue(kern.queue, h.buffer, Skip, last.id, m) =>
             /\ InQueue(kern'.queue, h'.buffer, Skip', last'.id, m)
             /\ Advance(QueueIds(kern.queue, h.buffer, Skip), last.id,
                        QueueIds(kern'.queue, h'.buffer, Skip'), last'.id, Change)
  BY <1>1, <1>2, <1>3, <1>7, <1>8, <1>11, <1>14
<1>16. last'.id \in Nat  BY <1>3, <1>13
<1>17. QED BY <1>1, <1>2, <1>12, <1>15, <1>16, QueueStep

-----------------------------------------------------------------------------
(* Calls, and the change of the filter *)

\* k is like kern as far as the packets are concerned
Untouched(k) ==
    /\ k.queue = kern.queue /\ k.ring = kern.ring /\ k.pos = kern.pos /\ k.inflight = kern.inflight
    /\ k.next = kern.next /\ k.packets = kern.packets /\ k.drops = kern.drops

\* a step between two read operations
LEMMA OutsideStep ==
    ASSUME StreamInv, UNCHANGED <<hd, last>>, call.at \in Sets \cup {"idle"}, Alike(h'),
           h'.packets_read = h.packets_read, Untouched(kern'), call'.at \notin {"batch", "event"},
           call'.nflush = call.nflush \/ call'.nflush = 0, call'.todo = call.todo \/ call'.todo = 0
    PROVE  Streams
<1>1. Place /\ Balance \in Int  BY StreamFacts
<1>2. call.at \notin {"read", "event", "batch"}  BY DEF Sets
<1>3. h.buffer = <<>> /\ (hd.mode = "mapped" => call.nflush = 0 /\ call.todo = 0)
  BY <1>1, <1>2 DEF Place, Fetching
<1>4. hd.mode = "mapped" => Skip = 0 /\ Skip' = 0 /\ call'.nflush = 0 /\ call'.todo = 0  BY <1>3 DEF Skip
<1>5. Balance' = Balance  BY DEF Balance, Alike, Untouched
<1>6. Balance' \in Int /\ Balance' >= Balance  BY <1>1, <1>5
<1>7. Flow  BY <1>4, <1>6, QuietFlow DEF Alike, Untouched
<1>8. Place'  BY <1>1, <1>3, <1>4 DEF Place, Fetching, Alike, Untouched
<1>9. QED BY <1>7, <1>8, FlowStreams

\* h' differs from h in what filters
Kept(x) == Alike(x) /\ x.packets_read = h.packets_read

LEMMA SetterStreams ==
    ASSUME StreamInv, Setter
    PROVE  Streams
<1>1. h \in HandleStates /\ kern \in KernelStates /\ call \in CallStates /\ Place /\ TypeOK  BY StreamFacts
<1>2. call.at \in Sets /\ UNCHANGED <<hd, last>>
  BY DEF Setter, Program, Install, Total, Drain, Attach, Userland, Walk, Sets
<1>3. Untouched(kern) /\ \A f : Untouched([kern EXCEPT !.filter = f])  BY <1>1 DEF Untouched, KernelStates
<1>4. /\ Kept(h)
      /\ \A v : /\ Kept([h EXCEPT !.fcode = v]) /\ Kept([h EXCEPT !.userland = v])
                /\ Kept([h EXCEPT !.stale = v]) /\ Kept([h EXCEPT !.bogus = v])
  BY <1>1 DEF Kept, Alike, HandleStates
<1>5. \A u, v, w, y :
        /\ Kept([h EXCEPT !.fcode = u, !.userland = v, !.stale = w])
        /\ Kept([h EXCEPT !.fcode = u, !.userland = v, !.stale = w, !.bogus = y])
        /\ Kept([h EXCEPT !.userland = u, !.countdown = v])
  BY <1>1 DEF Kept, Alike, HandleStates
<1>6. ASSUME Finish \/ (\E a \in Sets : At(a)) \/ call' = [call EXCEPT !.at = "drain", !.total = TRUE]
      PROVE  /\ call'.at \notin {"batch", "event"}
             /\ call'.nflush = call.nflush \/ call'.nflush = 0
             /\ call'.todo = call.todo \/ call'.todo = 0
  <2>1. CASE Finish  BY <2>1 DEF Finish, Idle
  <2>2. ASSUME NEW a \in Sets, At(a)
        PROVE  call'.at = a /\ call'.nflush = call.nflush /\ call'.todo = call.todo
    BY <1>1, <2>2 DEF At, CallStates
  <2>3. CASE call' = [call EXCEPT !.at = "drain", !.total = TRUE]
    BY <1>1, <2>3 DEF CallStates
  <2>4. \A a \in Sets : a \notin {"batch", "event"}  BY DEF Sets
  <2>5. QED BY <1>6, <2>1, <2>2, <2>3, <2>4
<1>7. ASSUME Kept(h'), Untouched(kern'),
             Finish \/ (\E a \in Sets : At(a)) \/ call' = [call EXCEPT !.at = "drain", !.total = TRUE]
      PROVE  Streams
  BY <1>2, <1>6, <1>7, OutsideStep DEF Kept
<1>8. CASE Program
  <2>1. Kept(h') /\ Untouched(kern') /\ Finish  BY <1>3, <1>4, <1>8 DEF Program
  <2>2. QED BY <1>7, <2>1
<1>9. CASE Install
  <2>1. Kept(h')
    <3>1. \/ h' = [h EXCEPT !.fcode = NoFilter]
          \/ h' = [h EXCEPT !.fcode = call.f, !.userland = TRUE, !.stale = h.countdown > 0]
          \/ h' = [h EXCEPT !.fcode = call.f, !.userland = TRUE, !.stale = FALSE, !.bogus = FALSE]
      BY <1>9, Zenon DEF Install
    <3>2. CASE h' = [h EXCEPT !.fcode = NoFilter]  BY <1>4, <3>2
    <3>3. CASE h' = [h EXCEPT !.fcode = call.f, !.userland = TRUE, !.stale = h.countdown > 0]
      BY <1>5, <3>3, Zenon
    <3>4. CASE h' = [h EXCEPT !.fcode = call.f, !.userland = TRUE, !.stale = FALSE, !.bogus = FALSE]
      BY <1>5, <3>4, Zenon
    <3>5. QED BY <3>1, <3>2, <3>3, <3>4
  <2>2. Untouched(kern') /\ (Finish \/ \E a \in Sets : At(a))  BY <1>3, <1>9 DEF Install, Sets
  <2>3. QED BY <1>7, <2>1, <2>2
<1>10. CASE Total
  <2>1. Kept(h') /\ Untouched(kern')  BY <1>3, <1>4, <1>10 DEF Total
  <2>2. (\E a \in Sets : At(a)) \/ call' = [call EXCEPT !.at = "drain", !.total = TRUE]
    BY <1>10 DEF Total, Sets
  <2>3. QED BY <1>7, <2>1, <2>2
<1>11. CASE Drain /\ ~(kern.queue # <<>> /\ kern' = [kern EXCEPT !.queue = Tail(@)] /\ UNCHANGED <<h, call>>)
  <2>1. Kept(h') /\ Untouched(kern')  BY <1>3, <1>4, <1>11 DEF Drain
  <2>2. Finish \/ \E a \in Sets : At(a)  BY <1>11 DEF Drain, Sets
  <2>3. QED BY <1>7, <2>1, <2>2
<1>12. CASE Attach
  <2>1. Kept(h') /\ Untouched(kern')  BY <1>3, <1>4, <1>12 DEF Attach
  <2>2. Finish \/ \E a \in Sets : At(a)  BY <1>12 DEF Attach, Sets
  <2>3. QED BY <1>7, <2>1, <2>2
<1>13. CASE Userland
  <2>1. Kept(h') /\ Untouched(kern') /\ Finish  BY <1>3, <1>4, <1>13 DEF Userland
  <2>2. QED BY <1>7, <2>1
<1>14. CASE Walk
  <2>1. Kept(h') /\ Untouched(kern') /\ Finish  BY <1>3, <1>5, <1>14 DEF Walk
  <2>2. QED BY <1>7, <2>1
\* the socket is drained of packets that the old filter let through; a ring has none there
<1>15. CASE kern.queue # <<>> /\ kern' = [kern EXCEPT !.queue = Tail(@)] /\ UNCHANGED <<h, call>>
  <2>1. /\ kern'.queue = Tail(kern.queue) /\ kern'.ring = kern.ring /\ kern'.inflight = kern.inflight
        /\ kern'.next = kern.next /\ kern'.packets = kern.packets /\ kern'.drops = kern.drops
        /\ kern'.pos = kern.pos
    BY <1>1, <1>15 DEF KernelStates
  <2>2. call.at \notin {"read", "event", "batch"}  BY <1>2 DEF Sets
  <2>3. h.buffer = <<>> /\ (hd.mode = "mapped" => call.nflush = 0 /\ call.todo = 0)
    BY <1>1, <2>2 DEF Place, Fetching
  <2>4. Skip = 0 /\ Skip' = 0  BY <1>2, <1>15, <2>3 DEF Skip
  <2>5. Place'  BY <1>1, <1>2, <1>15, <2>1, <2>2, <2>3 DEF Place, Fetching
  <2>6. Change >= 0  BY <1>2, <1>15, <2>1, ChangeFacts
  <2>7. CASE hd.mode \notin Rings
    <3> DEFINE q == kern.queue
    <3>1. /\ q[1].id \in Nat
          /\ \A m \in Nat : InQueue(q, <<>>, 0, last.id, m) =>
               /\ InQueue(Tail(q), <<>>, 0, last.id, m)
               /\ q[1].id \in QueueIds(q, <<>>, 0)
               /\ QueueIds(Tail(q), <<>>, 0) = {f \in QueueIds(q, <<>>, 0) : q[1].id < f}
      BY <1>15, StreamFacts, QueueTail
    <3> HIDE DEF q
    <3>2. \A m \in Nat : InQueue(q, <<>>, 0, last.id, m) =>
             /\ InQueue(kern'.queue, <<>>, 0, last.id, m)
             /\ Advance(QueueIds(q, <<>>, 0), last.id, QueueIds(kern'.queue, <<>>, 0), last.id, Change)
      <4>1. kern'.queue = Tail(q)  BY <2>1 DEF q
      <4>2. QED BY <2>6, <3>1, <4>1, DiscardAdvance
    <3>3. \A m \in Nat : InQueue(kern.queue, h.buffer, Skip, last.id, m) =>
             /\ InQueue(kern'.queue, h'.buffer, Skip', last'.id, m)
             /\ Advance(QueueIds(kern.queue, h.buffer, Skip), last.id,
                        QueueIds(kern'.queue, h'.buffer, Skip'), last'.id, Change)
      BY <1>2, <1>15, <2>3, <2>4, <3>2 DEF q
    <3>4. last'.id \in Nat  BY <1>2, StreamFacts
    <3>5. QED BY <1>2, <2>1, <2>5, <2>7, <3>3, <3>4, QueueStep
  <2>8. CASE hd.mode \in Rings
    <3>1. \A m \in Nat : InRing(hd.mode, kern.ring, kern.pos, h.offset, h.current, last.id, m) =>
             /\ InRing(hd.mode, kern'.ring, kern'.pos, h'.offset, h'.current, last'.id, m)
             /\ Advance(RingIds(kern.ring, h.offset, h.current), last.id,
                        RingIds(kern'.ring, h'.offset, h'.current), last'.id, Change)
      BY <1>2, <1>15, <2>1, <2>6 DEF Advance
    <3>2. last'.id \in Nat  BY <1>2, StreamFacts
    <3>3. QED BY <1>2, <2>1, <2>5, <2>8, <3>1, <3>2, RingStep
  <2>9. QED BY <2>7, <2>8
<1>16. QED BY <1>8, <1>9, <1>10, <1>11, <1>12, <1>13, <1>14, <1>15 DEF Setter

LEMMA CallsStreams ==
    ASSUME StreamInv, Calls \/ pcap_breakloop \/ UNCHANGED vars
    PROVE  Streams
<1>1. /\ h \in HandleStates /\ kern \in KernelStates /\ call \in CallStates /\ Place /\ TypeOK
      /\ Balance \in Int
  BY StreamFacts
<1>2. CASE pcap_breakloop \/ UNCHANGED vars
  <2>1. UNCHANGED <<hd, kern, last, call>>  BY <1>2 DEF pcap_breakloop, vars
  <2>2. Alike(h') /\ h'.packets_read = h.packets_read
    BY <1>1, <1>2 DEF pcap_breakloop, vars, Alike, HandleStates
  <2>3. hd.mode = "mapped" => Skip' = Skip /\ Fetching'  BY <1>1, <2>1 DEF Skip, Place, Fetching
  <2>4. QED BY <1>1, <2>1, <2>2, <2>3, QuietStep DEF Place
<1>3. CASE pcap_dispatch \/ pcap_next_ex \/ pcap_loop
  <2>1. UNCHANGED <<hd, h, kern, last>> /\ call.at = "idle"
    BY <1>3 DEF pcap_dispatch, pcap_next_ex, pcap_loop, Begin
  <2>2. \E o \in {"dispatch", "next", "loop"}, n \in Int :
          call' = Reading([Idle EXCEPT !.op = o, !.cnt = n], n)
    <3>1. Counts \subseteq Int /\ 1 \in Int  BY CaptureAssumption
    <3>2. CASE pcap_dispatch  BY <3>1, <3>2 DEF pcap_dispatch, Begin
    <3>3. CASE pcap_next_ex  BY <3>1, <3>3, Zenon DEF pcap_next_ex, Begin
    <3>4. CASE pcap_loop  BY <3>1, <3>4 DEF pcap_loop, Begin
    <3>5. QED BY <1>3, <3>2, <3>3, <3>4
  <2>3. PICK o \in {"dispatch", "next", "loop"}, n \in Int :
          call' = Reading([Idle EXCEPT !.op = o, !.cnt = n], n)
    BY <2>2
  <2> DEFINE d == [Idle EXCEPT !.op = o, !.cnt = n]
  <2>4. d \in CallStates  BY IdleType, Zenon DEF CallStates, Operations
  <2>5. d.todo = 0  BY DEF Idle
  <2>6. call' = Reading(d, n)  BY <2>3
  <2> HIDE DEF d
  <2>7. call'.at \in Starts  BY <1>1, <2>4, <2>6, ReadingType
  <2>8. call'.nflush = 0 /\ call'.todo = 0  BY <2>4, <2>5, <2>6 DEF Reading, CallStates
  <2>9. call'.at \notin {"batch", "event"}  BY <2>7 DEF Starts
  <2>10. Alike(h') /\ h'.packets_read = h.packets_read /\ Untouched(kern')
    BY <2>1 DEF Alike, Untouched
  <2>11. QED BY <2>1, <2>8, <2>9, <2>10, OutsideStep
<1>4. CASE pcap_setfilter
  <2>1. PICK f \in hd.filters, a \in {"program", "install"} :
          Begin([Idle EXCEPT !.op = "setfilter", !.at = a, !.f = f])
    BY <1>4 DEF pcap_setfilter
  <2>2. /\ UNCHANGED <<hd, h, kern, last>> /\ call.at = "idle" /\ call'.at = a
        /\ call'.nflush = 0 /\ call'.todo = 0
    BY <2>1 DEF Begin, Idle
  <2>3. Alike(h') /\ h'.packets_read = h.packets_read /\ Untouched(kern')
    BY <2>2 DEF Alike, Untouched
  <2>4. QED BY <2>2, <2>3, OutsideStep
<1>5. CASE pcap_setdirection \/ pcap_setnonblock
  <2>1. UNCHANGED <<hd, call, kern, last>> /\ call.at = "idle"
    BY <1>5 DEF pcap_setdirection, pcap_setnonblock, Do
  <2>2. Alike(h') /\ h'.packets_read = h.packets_read
    BY <1>1, <1>5 DEF pcap_setdirection, pcap_setnonblock, Do, Alike, HandleStates
  <2>3. Untouched(kern')  BY <2>1 DEF Untouched
  <2>4. QED BY <2>1, <2>2, <2>3, OutsideStep
<1>6. CASE pcap_stats \/ DeviceStats
  <2>1. UNCHANGED <<hd, call, last>> /\ call.at = "idle"
    BY <1>6 DEF pcap_stats, DeviceStats, Do
  <2>2. /\ kern'.queue = kern.queue /\ kern'.ring = kern.ring /\ kern'.pos = kern.pos
        /\ kern'.inflight = kern.inflight /\ kern'.next = kern.next
    BY <1>1, <1>6 DEF pcap_stats, DeviceStats, Do, KernelStates
  <2>3. /\ h'.offset = h.offset /\ h'.current = h.current /\ h'.buffer = h.buffer
        /\ h'.left = h.left /\ h'.packets_read = h.packets_read
    BY <1>1, <1>6 DEF pcap_stats, DeviceStats, Do, HandleStates
  <2>4. ~Device => Balance' = Balance
    <3>1. SUFFICES ASSUME ~Device PROVE Balance' = Balance  OBVIOUS
    <3>2. /\ h'.recv = h.recv + kern.packets /\ h'.drop = h.drop + kern.drops
          /\ kern'.packets = 0 /\ kern'.drops = 0
      BY <1>1, <1>6, <3>1 DEF pcap_stats, DeviceStats, Do, HandleStates, KernelStates
    <3>3. /\ h.recv \in Int /\ h.drop \in Int /\ h.packets_read \in Int
          /\ kern.packets \in Int /\ kern.drops \in Int
      BY StreamFacts
    <3>4. \A a, b, c, d, e \in Int : (a + b) + 0 - (c + d) - 0 - e = a + b - c - d - e  OBVIOUS
    <3>5. QED BY <2>3, <3>2, <3>3, <3>4 DEF Balance
  <2>5. Skip' = Skip  BY <2>1 DEF Skip
  <2>6. ~Device => Balance' \in Int /\ Balance' >= Balance  BY <1>1, <2>4
  <2>7. Flow  BY <2>1, <2>2, <2>3, <2>5, <2>6, QuietFlow
  <2>8. Place'  BY <1>1, <2>1, <2>2, <2>3 DEF Place, Fetching
  <2>9. QED BY <2>1, <2>7, <2>8, FlowStreams
<1>7. CASE pcap_inject  BY <1>7, KernelStreams
<1>8. QED BY <1>2, <1>3, <1>4, <1>5, <1>6, <1>7 DEF Calls

-----------------------------------------------------------------------------
(* Every step is one of the queue's *)

LEMMA InitStream == Init /\ OrderedHandle => StreamInv
<1> SUFFICES ASSUME Init, OrderedHandle PROVE StreamInv
  OBVIOUS
<1>1. StopInv  BY InitStop
<1>2. /\ h.buffer = <<>> /\ h.offset = 0 /\ h.current = 0 /\ call = Idle /\ last.id = 0
      /\ kern.queue = <<>> /\ kern.pos = 0 /\ kern.inflight = {} /\ kern.next = 1
      /\ kern.ring = [s \in Slots |-> [user |-> FALSE, pkts |-> <<>>]]
  BY DEF Init
<1>3. \A s \in Slots : kern.ring[s].user = FALSE /\ kern.ring[s].pkts = <<>>  BY <1>2
<1>4. DOMAIN <<>> = {}  OBVIOUS
<1>5. 0 \in Slots /\ \A s \in Slots : s \in Nat /\ Ahead(s, 0) = s  BY CaptureAssumption DEF Slots, Ahead
<1>6. InRing(hd.mode, kern.ring, 0, 0, 0, 0, 1)
  <2>1. \A s \in Slots : ~(Ahead(s, 0) < Ahead(0, 0))  BY <1>5
  <2>2. Rising(<<>>)  BY <1>4 DEF Rising
  <2>3. QED BY <1>3, <1>4, <1>5, <2>1, <2>2 DEF InRing
<1>7. InQueue(<<>>, <<>>, Skip, 0, 1)  BY <1>4 DEF InQueue, Rising
<1>8. Ordered(hd.mode, kern, h, Skip, last.id, kern.next)  BY <1>2, <1>6, <1>7 DEF Ordered
<1>9. OnTheWay  BY <1>2 DEF OnTheWay
<1>10. Good(kern.ring)  BY <1>3, <1>4 DEF Good
<1>11. Place  BY <1>2, <1>10 DEF Place, Fetching, Idle
<1>12. QED BY <1>1, <1>2, <1>8, <1>9, <1>11 DEF StreamInv

LEMMA StreamStep == StreamInv /\ [Next]_vars => StreamInv' /\ Streams /\ UNCHANGED hd
<1> SUFFICES ASSUME StreamInv, [Next]_vars PROVE StreamInv' /\ Streams /\ UNCHANGED hd
  OBVIOUS
<1>1. StopInv'  BY StopStep DEF StreamInv
<1>2. UNCHANGED hd
  BY DEF Next, vars, Reader, Setter, Kernel, Calls, Recv, Recvmsg, Wait, Poll, Frame, Block, BlockPacket,
         BlockDone, Read, usb_read_linux, usb_read_linux_bin, can_read_linux, Message, DatagramDone, Fetch,
         FetchedEvent, FetchDone, Program, Install, Total, Drain, Attach, Userland, Walk, Arrive, Store,
         RetireBlock, pcap_dispatch, pcap_next_ex, pcap_loop, pcap_setfilter, pcap_setdirection,
         pcap_setnonblock, pcap_stats, DeviceStats, pcap_inject, pcap_breakloop, Begin, Do
<1>3. ASSUME Reader PROVE Streams
  <2>1. CASE Recv \/ Recvmsg  BY <2>1, SocketStreams
  <2>2. CASE Wait \/ Poll  BY <2>2, WaitStreams
  <2>3. CASE Frame  BY <2>3, FrameStreams
  <2>4. CASE Block  BY <2>4, BlockStreams
  <2>5. CASE BlockPacket  BY <2>5, BatchStreams
  <2>6. CASE BlockDone  BY <2>6, BatchDone
  <2>7. CASE Read  BY <2>7, ReadStreams
  <2>8. CASE usb_read_linux \/ usb_read_linux_bin \/ can_read_linux \/ Message \/ DatagramDone
    BY <2>8, EventStreams
  <2>9. CASE Fetch \/ FetchDone  BY <2>9, FetchStreams
  <2>10. CASE FetchedEvent  BY <2>10, FetchedStreams
  <2>11. QED BY <1>3, <2>1, <2>2, <2>3, <2>4, <2>5, <2>6, <2>7, <2>8, <2>9, <2>10 DEF Reader
<1>4. Streams  BY <1>3, SetterStreams, KernelStreams, CallsStreams DEF Next
<1>5. StreamInv'  BY <1>1, <1>2, <1>4 DEF StreamInv, Streams, OrderedHandle
<1>6. QED BY <1>2, <1>4, <1>5

LEMMA StreamAlways == OrderedHandle /\ Spec => []StreamInv
<1>1. StreamInv /\ [Next]_vars => StreamInv'  BY StreamStep
<1>2. QED BY <1>1, InitStream, PTL DEF Spec

\* the packets of the invariant are those of the properties
Known == Pending = Ids(hd.mode, kern, h, Skip)

LEMMA PendingKnown == StreamInv => Known
<1> SUFFICES ASSUME StreamInv PROVE Known
  OBVIOUS
<1>1. /\ (mmapped <=> hd.mode \in Rings) /\ h.current \in Nat /\ Skip \in Int /\ kern.ring \in Ring
      /\ kern.queue \in Seq(Packets) /\ h.buffer \in Seq(Packets) /\ (hd.mode # "mapped" => Skip = 0)
      /\ Place /\ call.nflush \in Nat /\ call.todo \in Nat
  BY StreamFacts
<1>2. /\ Len(kern.queue) \in Nat /\ DOMAIN kern.queue = 1 .. Len(kern.queue)
      /\ \A i \in DOMAIN kern.queue : i \in Nat /\ 0 < i /\ kern.queue[i].id \in Nat
      /\ \A i \in DOMAIN h.buffer : h.buffer[i].id \in Nat
  BY <1>1, SeqFacts
<1>3. CASE hd.mode \in Rings
  <2> DEFINE r == kern.ring
             o == h.offset
             c == h.current
  <2>1. \A s \in Slots : /\ \A i \in DOMAIN r[s].pkts : i \in Nat /\ i >= 1 /\ r[s].pkts[i].id \in Nat
                         /\ Len(r[s].pkts) \in Nat /\ DOMAIN r[s].pkts = 1 .. Len(r[s].pkts)
    BY <1>1, RingFacts
  <2>2. \A s \in Slots : First(s, o, c) \in Nat /\ First(s, o, c) >= 1  BY <1>1 DEF First
  <2>3. \A s \in Slots : Waiting(s) = {r[s].pkts[i] : i \in First(s, o, c) .. Len(r[s].pkts)}
    BY DEF Waiting, First
  <2>4. Pending = {p.id : p \in UNION {Waiting(s) : s \in Slots}}
    <3> DEFINE a == UNION {Waiting(s) : s \in Slots}
               b == {kern.queue[i] : i \in call.nflush - call.todo + 1 .. Len(kern.queue)}
               d == Range(h.buffer) \cup Range(kern.queue)
               w == CASE mmapped -> a [] hd.mode = "mapped" -> b [] OTHER -> d
    <3>1. Pending = {p.id : p \in w}  BY DEF Pending
    <3>2. w = a
      <4> HIDE DEF a, b, d
      <4>1. hd.mode # "mapped"  BY <1>3 DEF Rings
      <4>2. QED BY <1>1, <1>3, <4>1
    <3>3. QED BY <3>1, <3>2, Zenon
  <2>5. Ids(hd.mode, kern, h, Skip) = RingIds(r, o, c)  BY <1>3 DEF Ids
  <2> HIDE DEF r, o, c
  <2>6. \A s \in Slots : \A i : i \in First(s, o, c) .. Len(r[s].pkts)
                                  <=> i \in DOMAIN r[s].pkts /\ i >= First(s, o, c)
    BY <2>1, <2>2
  <2>7. \A e : e \in Pending <=> \E s \in Slots : \E p \in Waiting(s) : e = p.id  BY <2>4
  <2>8. \A e : e \in RingIds(r, o, c) <=>
           \E s \in Slots : \E i \in DOMAIN r[s].pkts : i >= First(s, o, c) /\ e = r[s].pkts[i].id
    BY <2>1 DEF RingIds
  <2>9. \A e : e \in Pending <=> e \in RingIds(r, o, c)  BY <2>3, <2>6, <2>7, <2>8
  <2>10. QED BY <2>5, <2>9 DEF Known
<1>4. CASE hd.mode = "mapped"
  <2> DEFINE q == kern.queue
  <2>1. ~mmapped /\ hd.mode \notin Rings /\ Skip = call.nflush - call.todo /\ h.buffer = <<>>
    BY <1>1, <1>4 DEF Rings, Skip, Place
  <2>2. Pending = {p.id : p \in {q[i] : i \in Skip + 1 .. Len(q)}}  BY <1>4, <2>1 DEF Pending
  <2>3. Skip >= 0
    BY <1>1, <1>4, <2>1 DEF Place, Fetching
  <2>4. \A i : i \in Skip + 1 .. Len(q) <=> i \in DOMAIN q /\ Skip < i  BY <1>1, <1>2, <2>3
  <2>5. Ids(hd.mode, kern, h, Skip) = QueueIds(q, <<>>, Skip)  BY <2>1 DEF Ids
  <2>6. \A e : e \in QueueIds(q, <<>>, Skip) <=> \E i \in DOMAIN q : Skip < i /\ e = q[i].id
    BY <1>2, EmptyFacts DEF QueueIds
  <2> HIDE DEF q
  <2>7. \A e : e \in Pending <=> e \in QueueIds(q, <<>>, Skip)  BY <2>2, <2>4, <2>6
  <2>8. QED BY <2>5, <2>7 DEF Known
<1>5. CASE hd.mode \notin Rings /\ hd.mode # "mapped"
  <2> DEFINE q == kern.queue
             b == h.buffer
  <2>1. ~mmapped /\ Skip = 0  BY <1>1, <1>5
  <2>2. Pending = {p.id : p \in Range(b) \cup Range(q)}  BY <1>5, <2>1 DEF Pending
  <2>3. Ids(hd.mode, kern, h, Skip) = QueueIds(q, b, 0)  BY <1>5, <2>1 DEF Ids
  <2>4. \A e : e \in QueueIds(q, b, 0) <=>
          (\E i \in DOMAIN b : e = b[i].id) \/ \E i \in DOMAIN q : e = q[i].id
    BY <1>2 DEF QueueIds
  <2> HIDE DEF q, b
  <2>5. \A e : e \in Pending <=> (\E i \in DOMAIN b : e = b[i].id) \/ \E i \in DOMAIN q : e = q[i].id
    BY <2>2 DEF Range
  <2>6. QED BY <2>3, <2>4, <2>5 DEF Known
<1>6. QED BY <1>3, <1>4, <1>5

LEMMA InitKnown == Init /\ OrderedHandle => Pending = {} /\ last.id = 0
<1> SUFFICES ASSUME Init, OrderedHandle PROVE Pending = {} /\ last.id = 0
  OBVIOUS
<1>1. Known  BY InitStream, PendingKnown
<1>2. /\ h.buffer = <<>> /\ kern.queue = <<>> /\ last.id = 0
      /\ kern.ring = [s \in Slots |-> [user |-> FALSE, pkts |-> <<>>]]
  BY DEF Init
<1>3. \A s \in Slots : kern.ring[s].pkts = <<>>  BY <1>2
<1>4. RingIds(kern.ring, h.offset, h.current) = {} /\ QueueIds(<<>>, <<>>, Skip) = {}
  BY <1>3, EmptyFacts DEF RingIds, QueueIds
<1>5. Ids(hd.mode, kern, h, Skip) = {}  BY <1>2, <1>4 DEF Ids
<1>6. QED BY <1>1, <1>2, <1>5 DEF Known

\* a step of the handle is a step of the queue
LEMMA StreamNext ==
    StreamInv /\ Known /\ Known' /\ Streams /\ UNCHANGED hd => [S!Next]_<<Pending, last.id>>
<1> SUFFICES ASSUME StreamInv, Known, Known', Streams, UNCHANGED hd PROVE [S!Next]_<<Pending, last.id>>
  OBVIOUS
<1>1. Advance(Pending, last.id, Pending', last'.id, Change)  BY DEF Known, Streams
<1>2. last.id \in Nat /\ last'.id \in Nat  BY DEF StreamInv, Streams
<1>3. Pending \subseteq Nat  BY DEF Known, Ids, RingIds, QueueIds
<1> DEFINE p == Pending
           q == Pending'
           l == last.id
           m == last'.id
<1>4. CASE q = p /\ m = l  BY <1>4
<1>5. ASSUME NEW e \in 1 .. MaxPackets, l < e, \A f \in p : f < e, q = p \cup {e}, m = l
      PROVE  S!Next
  <2>1. \A f \in p : ~(e < f) /\ f # e  BY <1>3, <1>5
  <2>2. S!Enter  BY <1>5, <2>1 DEF S!Enter, S!After
  <2>3. QED BY <1>5, <2>2 DEF S!Next
<1>6. ASSUME NEW e \in p, q = {f \in p : e < f}, m = l PROVE S!Next
  <2>1. S!Discard  BY <1>6 DEF S!Discard, S!After
  <2>2. QED BY <1>6, <2>1 DEF S!Next
<1>7. ASSUME NEW e \in p, l < e, \A f \in p : f = e \/ e < f, q = {f \in p : e < f}, m = e PROVE S!Next
  <2>1. p = {e} \cup {f \in p : e < f}  BY <1>7
  <2>2. S!Show  BY <1>7, <2>1 DEF S!Show, S!After
  <2>3. m # l  BY <1>2, <1>7
  <2>4. QED BY <2>2, <2>3 DEF S!Next
<1> HIDE DEF p, q, l, m
<1>8. Advance(p, l, q, m, Change)  BY <1>1 DEF p, q, l, m
<1>9. (q = p /\ m = l) \/ S!Next  BY <1>5, <1>6, <1>7, <1>8 DEF Advance
<1>10. QED BY <1>9 DEF p, q, l, m

\* Whatever the ring, the traffic, the filters, the counts and the breaks: the buffers of a handle
\* are a queue from which no packet is shown twice, skipped or shown out of order
\* (pcap_read_linux_mmap_v1() to _v3(), pcap_read_packet(), the read operations of the devices).
THEOREM HandleIsAQueue == OrderedHandle /\ Spec => ImplementsStream
<1>1. Init /\ OrderedHandle => S!Init  BY InitKnown DEF S!Init
<1>2. StreamInv /\ [Next]_vars => Streams /\ UNCHANGED hd  BY StreamStep
<1>3. QED BY <1>1, <1>2, PendingKnown, StreamNext, StreamAlways, PTL DEF Spec, ImplementsStream, S!Spec

-----------------------------------------------------------------------------
(* The counters *)

\* the numbers of packets that are stored are finitely many
LEMMA PendingFinite == ASSUME StreamInv, Known PROVE IsFiniteSet(Pending) /\ Pending \subseteq Nat
<1>1. kern.next \in Nat /\ Ordered(hd.mode, kern, h, Skip, last.id, kern.next)
  BY StreamFacts DEF StreamInv
<1>2. \A e \in Pending : e \in Nat /\ e < kern.next
  BY <1>1 DEF Known, Ids, RingIds, QueueIds, Ordered, InRing, InQueue
<1>3. Pending \subseteq 0 .. kern.next  BY <1>1, <1>2
<1>4. IsFiniteSet(0 .. kern.next)  BY <1>1, FS_Interval
<1>5. QED BY <1>2, <1>3, <1>4, FS_Subset

\* the balance of the counters and the number of packets go together
LEMMA AdvanceCount ==
    ASSUME NEW p, IsFiniteSet(p), p \subseteq Nat, NEW l \in Nat, NEW q, NEW m, NEW d \in Int,
           Advance(p, l, q, m, d)
    PROVE  Cardinality(q) - Cardinality(p) <= d /\ Cardinality(p) \in Nat /\ Cardinality(q) \in Nat
<1>1. Cardinality(p) \in Nat  BY FS_CardinalityType
<1>2. CASE q = p /\ d >= 0  BY <1>1, <1>2
<1>3. ASSUME NEW e \in Nat, \A f \in p : f < e, q = p \cup {e}, d >= 1
      PROVE  Cardinality(q) - Cardinality(p) <= d /\ Cardinality(q) \in Nat
  <2>1. e \notin p  BY <1>3
  <2>2. Cardinality(q) = Cardinality(p) + 1  BY <1>3, <2>1, FS_AddElement
  <2>3. QED BY <1>1, <1>3, <2>2
<1>4. ASSUME NEW e \in p, q = {f \in p : e < f}, d >= 0
      PROVE  Cardinality(q) - Cardinality(p) <= d /\ Cardinality(q) \in Nat
  <2>1. q \subseteq p  BY <1>4
  <2>2. IsFiniteSet(q) /\ Cardinality(q) <= Cardinality(p)  BY <2>1, FS_Subset
  <2>3. Cardinality(q) \in Nat  BY <2>2, FS_CardinalityType
  <2>4. QED BY <1>1, <1>4, <2>2, <2>3
<1>5. ASSUME NEW e \in p, q = {f \in p : e < f}, d >= -1
      PROVE  Cardinality(q) - Cardinality(p) <= d /\ Cardinality(q) \in Nat
  <2>1. IsFiniteSet(p \ {e}) /\ Cardinality(p \ {e}) = Cardinality(p) - 1  BY FS_RemoveElement
  <2>2. q \subseteq p \ {e}  BY <1>5
  <2>3. IsFiniteSet(q) /\ Cardinality(q) <= Cardinality(p \ {e})  BY <2>1, <2>2, FS_Subset
  <2>4. Cardinality(q) \in Nat  BY <2>3, FS_CardinalityType
  <2>5. QED BY <1>1, <1>5, <2>1, <2>3, <2>4
<1>6. \A e \in 1 .. MaxPackets : e \in Nat  BY CaptureAssumption
<1>7. QED BY <1>1, <1>2, <1>3, <1>4, <1>5, <1>6 DEF Advance

LEMMA CountersStep ==
    StreamInv /\ StreamInv' /\ Known /\ Known' /\ Streams /\ UNCHANGED hd /\ CountersAccount => CountersAccount'
<1> SUFFICES ASSUME StreamInv, StreamInv', Known, Known', Streams, UNCHANGED hd, CountersAccount, ~Device
             PROVE  CountersAccount'
  BY DEF CountersAccount, Device, mmapped
<1>1. Balance \in Int /\ last.id \in Nat  BY StreamFacts
<1>2. /\ h'.recv \in Int /\ h'.drop \in Int /\ h'.packets_read \in Int
      /\ kern'.packets \in Int /\ kern'.drops \in Int
  <2>1. h' \in HandleStates /\ kern' \in KernelStates  BY DEF StreamInv, StopInv, TypeOK
  <2>2. QED BY <2>1 DEF HandleStates, KernelStates
<1>3. /\ h.recv \in Int /\ h.drop \in Int /\ h.packets_read \in Int
      /\ kern.packets \in Int /\ kern.drops \in Int
  BY StreamFacts
<1>4. Balance' \in Int
  <2>1. \A a, b, c, d, e \in Int : a + b - c - d - e \in Int  OBVIOUS
  <2>2. QED BY <1>2, <2>1 DEF Balance
<1>5. Change = Balance' - Balance  BY DEF Change
<1>6. Advance(Pending, last.id, Pending', last'.id, Change)  BY DEF Known, Streams
<1>7. IsFiniteSet(Pending) /\ Pending \subseteq Nat  BY PendingFinite
<1>8. /\ Cardinality(Pending') - Cardinality(Pending) <= Change
      /\ Cardinality(Pending) \in Nat /\ Cardinality(Pending') \in Nat
  <2>1. Change \in Int  BY <1>1, <1>4, <1>5
  <2>2. QED BY <1>1, <1>6, <1>7, <2>1, AdvanceCount
<1>9. \A a, b, c, d, e, n \in Int : a + b - c - d >= e + n <=> a + b - c - d - e >= n  OBVIOUS
<1>10. Balance >= Cardinality(Pending)
  <2>1. h.recv + kern.packets - h.drop - kern.drops >= h.packets_read + Cardinality(Pending)
    BY DEF CountersAccount
  <2>2. QED BY <1>3, <1>8, <1>9, <2>1 DEF Balance
<1>11. Balance' >= Cardinality(Pending')  BY <1>1, <1>4, <1>5, <1>8, <1>10
<1>12. h'.recv + kern'.packets - h'.drop - kern'.drops >= h'.packets_read + Cardinality(Pending')
  BY <1>2, <1>8, <1>9, <1>11 DEF Balance
<1>13. QED BY <1>12 DEF CountersAccount

LEMMA InitCounters == Init /\ OrderedHandle => CountersAccount
<1> SUFFICES ASSUME Init, OrderedHandle PROVE CountersAccount
  OBVIOUS
<1>1. Pending = {}  BY InitKnown
<1>2. Cardinality(Pending) = 0  BY <1>1, FS_EmptySet
<1>3. h.recv = 0 /\ h.drop = 0 /\ h.packets_read = 0 /\ kern.packets = 0 /\ kern.drops = 0  BY DEF Init
<1>4. QED BY <1>2, <1>3 DEF CountersAccount

\* However pcap_stats() interleaves with packets that arrive, are dropped, read or thrown away by a
\* break: its counters and the kernel's account for every packet that was shown or waits
\* (pcap_stats_linux(), pcap_read_packet(), pcap_read_linux_mmap_v1() to _v3()).
THEOREM CountersAreTrue == OrderedHandle /\ Spec => []CountersAccount
<1>1. StreamInv /\ [Next]_vars => Streams /\ UNCHANGED hd  BY StreamStep
<1>2. QED BY <1>1, PendingKnown, InitCounters, CountersStep, StreamAlways, PTL DEF Spec

-----------------------------------------------------------------------------
(* What is shown *)

\* What the theorem assumes of the handle: a device has no cooked header and no loopback; where
\* no frame is left over for a packet on its way there is none; a packet of a network interface
\* has its link-layer header and fits into the kernel's buffer; and a filter is not empty and was
\* compiled for the snapshot length of the handle, without the negative offsets of the kernel.
ServingHandle ==
    /\ Device => ~hd.cooked /\ ~hd.lo
    /\ hd.mode \in {"sock", "v3"} => CPUs[hd.mode] = 0
    /\ ~Device =>
         /\ vlan_offset <= Snapshot
         /\ \A t \in hd.traffic : ~Filler(t) /\ vlan_offset <= t.len /\ t.len <= MAXIMUM_SNAPLEN
         /\ \A f \in hd.filters : 0 < f.len /\ Snapshot <= f.ret /\ (hd.cooked => 0 <= f.k)

\* a filter cuts off nothing that the program could be given
Sound(p) ==
    /\ ~Filler(p) /\ vlan_offset <= p.len /\ p.snaplen <= p.len
    /\ p.snaplen = p.len \/ (mmapped /\ Snapshot <= p.snaplen)

Buffered(k) ==
    {p \in Packets : \/ p \in k.inflight
                     \/ \E i \in DOMAIN k.queue : p = k.queue[i]
                     \/ \E s \in Slots : \E i \in DOMAIN k.ring[s].pkts : p = k.ring[s].pkts[i]}

KernelFilters == {NoFilter, TotalFilter} \cup {fix_program(f) : f \in hd.filters}

Changing == {"total", "drain", "attach", "userland", "walk"}

\* where pcap_setfilter() is, and what the program and the kernel filter with meanwhile
SetState(c, k, x) ==
    /\ (c.op = "setfilter" <=> c.at \in Sets)
    /\ k.inflight # {} => c.at \notin Reads /\ hd.mode \notin {"sock", "v3"}
    /\ c.at \in Sets => c.f \in hd.filters /\ (c.at = "program" <=> Device)
    /\ c.at \in Changing => x.fcode = c.f /\ ~x.stale
    /\ c.at \in Changing \ {"walk"} => x.userland
    /\ c.at \in {"total", "drain", "attach"} => CanFix(c.f)
    /\ c.at = "walk" => mmapped /\ k.filter = fix_program(c.f)
    /\ hd.mode = "sock" /\ ~x.bogus /\ c.at \in {"drain", "attach"} => k.filter = TotalFilter
    /\ hd.mode = "sock" /\ ~x.bogus /\ c.at = "attach" => k.queue = <<>>

\* the packets in the queue passed the filter that the program no longer applies itself
QueueSieved(k, x) ==
    ~x.stale /\ ~x.bogus /\ ~x.userland /\ x.fcode # NoFilter =>
        /\ CanFix(x.fcode) /\ k.filter = fix_program(x.fcode)
        /\ \A i \in DOMAIN k.queue : Accepts(k.filter, k.queue[i], FALSE)

\* and so did those behind the frames that the countdown covers
RingSieved(k, x) ==
    ~x.stale /\ x.fcode # NoFilter =>
        \/ x.userland /\ x.countdown = 0
        \/ /\ k.filter = x.fcode /\ (x.userland <=> x.countdown > 0)
           /\ \A s \in Slots : x.countdown <= Ahead(s, x.offset) =>
                \A i \in DOMAIN k.ring[s].pkts : Accepts(x.fcode, k.ring[s].pkts[i], FALSE)
           /\ \A p \in k.inflight : Accepts(x.fcode, p, FALSE) \/ Ahead(k.pos, x.offset) < x.countdown

Sieved(c, k, x) ==
    /\ hd.mode = "sock" => QueueSieved(k, x)
    /\ mmapped /\ ~hd.cooked /\ c.at \notin Changing => RingSieved(k, x)

\* the call, the kernel and the handle together; netfilter groups take no direction
FilterState(c, k, x) ==
    /\ x.fcode \in hd.filters \cup {NoFilter} /\ k.filter \in KernelFilters
    /\ netfilter => x.direction = "INOUT"
    /\ ~Device => \A p \in Buffered(k) : Sound(p)
    /\ SetState(c, k, x) /\ Sieved(c, k, x)

FilterInv == ServingHandle /\ FilterState(call, kern, h) /\ ShownAsWanted


LEMMA FixSame ==
    ASSUME mmapped, ~hd.cooked, NEW f \in Filters
    PROVE  fix_program(f) = f
BY DEF fix_program, Filters

\* what the kernel lets through with the program that was made for it, the program accepts
LEMMA FixAccepts ==
    ASSUME TypeOK, ServingHandle, hd.mode = "sock", NEW f \in hd.filters, NEW p \in Packets, CanFix(f),
           Accepts(fix_program(f), p, FALSE)
    PROVE  Accepts(f, p, hd.cooked)
<1> DEFINE g == fix_program(f)
<1>1. /\ f \in Filters /\ g \in Filters /\ hd.cooked \in BOOLEAN /\ hd.snapshot \in Nat
  BY HandleType, FixType, HandleAssumption DEF TypeOK
<1>2. ~Device /\ ~mmapped  BY DEF Device, mmapped
<1>3. f.ret \in Nat /\ f.ret # 0 /\ f.k \in Int /\ f.v \in Int
  <2>1. vlan_offset \in Nat /\ vlan_offset # 0 /\ vlan_offset <= Snapshot /\ Snapshot <= f.ret
    BY <1>1, <1>2 DEF ServingHandle, vlan_offset
  <2>2. QED BY <1>1, <2>1 DEF Filters, Snapshot
<1>4. g.k = (IF hd.cooked THEN fix_offset(f.k) ELSE f.k) /\ g.v = f.v /\ g.len = f.len
      /\ g.ret = MAXIMUM_SNAPLEN
  BY <1>1, <1>2, <1>3 DEF fix_program, Filters
<1>5. f # NoFilter /\ f # TotalFilter  BY <1>3 DEF NoFilter, TotalFilter
<1>6. Field(p, FALSE, g.k) = f.v => Field(p, hd.cooked, f.k) = f.v
  <2>1. CASE ~hd.cooked
    <3>1. hd.cooked = FALSE  BY <1>1, <2>1
    <3>2. QED BY <1>4, <3>1
  <2>2. CASE hd.cooked
    <3>1. 0 <= f.k /\ f.k \notin 1 .. 13 \cup {15}  BY <1>2, <2>2 DEF ServingHandle, CanFix
    <3>2. f.k = 0 \/ f.k = 14 \/ f.k = 16 \/ f.k > 16  BY <1>3, <3>1
    <3>3. Field(p, FALSE, fix_offset(f.k)) = Field(p, TRUE, f.k)
      BY <1>3, <3>2 DEF Field, fix_offset, SLL_HDR_LEN, SKF_AD_PKTTYPE, SKF_AD_PROTOCOL, map_packet_type_to_sll_type
    <3>4. QED BY <1>4, <2>2, <3>3
  <2>3. QED BY <2>1, <2>2
<1>7. g = NoFilter \/ (g # TotalFilter /\ Field(p, FALSE, g.k) = g.v)  BY DEF Accepts
<1>8. CASE g = NoFilter
  <2>1. g.len = 0  BY <1>8 DEF NoFilter
  <2>2. 0 < f.len  BY <1>2 DEF ServingHandle
  <2>3. QED BY <1>1, <1>4, <2>1, <2>2
<1>9. QED BY <1>4, <1>5, <1>6, <1>7, <1>8 DEF Accepts


\* a packet is shown with its lengths
LEMMA SoundWhole ==
    ASSUME TypeOK, ServingHandle, NEW p \in Packets, ~Device => Sound(p)
    PROVE  Whole(p)
<1>1. /\ hd.mode \in Modes /\ hd.snapshot \in Nat /\ p.len \in Nat /\ p.snaplen \in Nat
      /\ p.vlan \in BOOLEAN
  BY HandleType DEF Packets
<1>2. Snapshot \in Nat  BY <1>1 DEF Snapshot
<1>3. CASE ~Device
  <2> DEFINE room == vlan_offset
             n == Tagged(Cooked(p.len), p, p.len)
  <2>1. /\ room \in Nat /\ room <= Snapshot /\ room <= p.len /\ p.snaplen <= p.len
        /\ p.snaplen = p.len \/ (mmapped /\ Snapshot <= p.snaplen)
    BY <1>3 DEF ServingHandle, Sound, vlan_offset
  <2>2. room <= p.snaplen /\ room <= Cooked(p.snaplen) /\ Cooked(p.len) \in Nat /\ Cooked(p.snaplen) \in Nat
    BY <1>1, <1>2, <2>1 DEF Cooked, SLL_HDR_LEN
  <2>3. \A m \in Nat : \A q \in Nat : room <= q =>
          Tagged(m, p, q) = IF p.vlan /\ hd.mode # "v1" THEN m + VLAN_TAG_LEN ELSE m
    BY <2>1 DEF Tagged
  <2>4. n = (IF p.vlan /\ hd.mode # "v1" THEN Cooked(p.len) + VLAN_TAG_LEN ELSE Cooked(p.len))
    BY <1>1, <2>1, <2>2, <2>3
  <2>5. PacketLen(p) = n
    <3>1. CASE mmapped  BY <1>1, <2>2, <2>3, <2>4, <3>1 DEF PacketLen
    <3>2. CASE ~mmapped
      <4>1. p.snaplen = p.len  BY <2>1, <3>2
      <4>2. QED BY <1>1, <2>2, <2>3, <2>4, <3>2, <4>1 DEF PacketLen
    <3>3. QED BY <3>1, <3>2
  <2>6. CapLen(p) = Minimum(Snapshot, n)
    <3>1. CASE mmapped
      <4> DEFINE c == Tagged(Cooked(p.snaplen), p, p.snaplen)
      <4>1. c = (IF p.vlan /\ hd.mode # "v1" THEN Cooked(p.snaplen) + VLAN_TAG_LEN ELSE Cooked(p.snaplen))
        BY <1>1, <2>2, <2>3
      <4>2. Minimum(Snapshot, c) = Minimum(Snapshot, n)
        <5>1. p.snaplen = p.len \/ (Snapshot <= p.snaplen /\ p.snaplen <= p.len)  BY <2>1
        <5>2. CASE p.snaplen = p.len  BY <5>2
        <5>3. CASE Snapshot <= p.snaplen /\ p.snaplen <= p.len
          <6>1. c \in Nat /\ n \in Nat /\ Snapshot <= c /\ Snapshot <= n
            BY <1>1, <1>2, <2>4, <4>1, <5>3 DEF Cooked, SLL_HDR_LEN, VLAN_TAG_LEN
          <6> HIDE DEF c, n
          <6>2. QED BY <1>2, <6>1 DEF Minimum
        <5>4. QED BY <5>1, <5>2, <5>3
      <4>3. QED BY <3>1, <4>2 DEF CapLen
    <3>2. CASE ~mmapped  BY <2>5, <3>2 DEF CapLen
    <3>3. QED BY <3>1, <3>2
  <2>7. hd.mode \notin {"text", "can"}  BY <1>3 DEF Device, mmapped
  <2>8. Whole(p) = (PacketLen(p) = n /\ CapLen(p) = Minimum(Snapshot, n))  BY <1>3, <2>7 DEF Whole
  <2>9. QED BY <2>5, <2>6, <2>8
<1>4. CASE Device
  <2>1. CASE hd.mode = "text"  BY <1>4, <2>1 DEF Whole, DeviceLen, DeviceCap, netfilter
  <2>2. CASE hd.mode = "can"  BY <1>4, <2>2 DEF Whole, DeviceLen, DeviceCap, netfilter
  <2>3. CASE hd.mode \notin {"text", "can"}
    <3>1. Whole(p) = (DeviceCap(p) <= DeviceLen(p))  BY <1>4, <2>3 DEF Whole
    <3>2. CASE hd.mode = "mapped"
      <4>1. DeviceLen(p) = p.len + 64 /\ DeviceCap(p) = Minimum(Snapshot - 48, p.len) + 64
        BY <3>2 DEF DeviceLen, DeviceCap, netfilter
      <4>2. Minimum(Snapshot - 48, p.len) \in Int /\ Minimum(Snapshot - 48, p.len) <= p.len
        BY <1>1, <1>2 DEF Minimum
      <4>3. \A a, b \in Int : a <= b => a + 64 <= b + 64  OBVIOUS
      <4>4. DeviceCap(p) <= DeviceLen(p)  BY <1>1, <4>1, <4>2, <4>3
      <4>5. QED BY <3>1, <4>4
    <3>3. CASE hd.mode # "mapped"
      <4>1. DeviceCap(p) = DeviceLen(p)  BY <2>3, <3>3 DEF DeviceCap
      <4>2. DeviceLen(p) \in Int  BY <1>1, <1>2, <3>3 DEF DeviceLen, Minimum
      <4>3. DeviceCap(p) <= DeviceLen(p)  BY <4>1, <4>2
      <4>4. QED BY <3>1, <4>3
    <3>4. QED BY <3>2, <3>3
  <2>4. QED BY <2>1, <2>2, <2>3
<1>5. QED BY <1>3, <1>4

\* Filters look at what no cut and no number changes.
LEMMA AcceptsSame ==
    ASSUME NEW p, NEW q, p.type = q.type, p.pay = q.pay
    PROVE  \A f : \A b \in BOOLEAN : Accepts(f, p, b) <=> Accepts(f, q, b)
<1>1. \A b \in BOOLEAN : \A k : Field(p, b, k) = Field(q, b, k)  BY DEF Field, map_packet_type_to_sll_type
<1>2. QED BY <1>1 DEF Accepts

\* a packet that arrives
LEMMA ArrivesSound ==
    ASSUME TypeOK, ServingHandle, NEW t \in hd.traffic, kern.filter \in KernelFilters, Passes(t),
           NEW p, p = Filtered(Numbered(t), kern.filter)
    PROVE  /\ p \in Packets
           /\ ~Device => Sound(p)
           /\ Accepts(kern.filter, p, FALSE)
<1> DEFINE f == kern.filter
           c == IF f = NoFilter THEN t.len ELSE Minimum(t.len, f.ret)
<1>1. t \in Packets /\ kern.filter \in Filters /\ kern.next \in Nat  BY HandleType DEF TypeOK, KernelStates
<1>2. p \in Packets  BY ReceivedType
<1>3. p.type = t.type /\ p.pay = t.pay /\ p.len = t.len /\ p.snaplen = c
  <2>1. /\ Numbered(t).type = t.type /\ Numbered(t).pay = t.pay /\ Numbered(t).len = t.len
        /\ Numbered(t) \in Packets
    BY <1>1, FilteredType DEF Numbered, Packets
  <2>2. QED BY <1>1, <2>1 DEF Filtered, Packets
<1>4. Accepts(kern.filter, Numbered(t), FALSE)  BY DEF Passes
<1>5. Numbered(t).type = t.type /\ Numbered(t).pay = t.pay  BY <1>1 DEF Numbered, Packets
<1>6. Accepts(kern.filter, p, FALSE)  BY <1>3, <1>4, <1>5, AcceptsSame
<1>7. ASSUME ~Device PROVE Sound(p)
  <2>1. ~Filler(t) /\ vlan_offset <= t.len /\ t.len <= MAXIMUM_SNAPLEN  BY <1>7 DEF ServingHandle
  <2>2. t.len \in Nat  BY <1>1 DEF Packets
  <2>3. c <= t.len /\ (c = t.len \/ (mmapped /\ Snapshot <= c))
    <3>1. CASE f = NoFilter  BY <2>2, <3>1
    <3>2. CASE f # NoFilter
      <4>1. f # TotalFilter  BY <1>4, <3>2 DEF Accepts
      <4>2. PICK g \in hd.filters : f = fix_program(g)  BY <3>2, <4>1 DEF KernelFilters
      <4>3. g \in Filters /\ Snapshot <= g.ret /\ vlan_offset <= Snapshot  BY <1>7, HandleType DEF ServingHandle
      <4>4. g.ret \in Nat /\ Snapshot \in Nat /\ vlan_offset \in Nat \ {0}
        BY <4>3, HandleType DEF Filters, Snapshot, vlan_offset
      <4>5. f.ret = IF mmapped \/ g.ret = 0 THEN g.ret ELSE MAXIMUM_SNAPLEN
        BY <4>2, <4>3 DEF fix_program, Filters
      <4>6. g.ret # 0  BY <4>3, <4>4
      <4>7. CASE mmapped
        <5>1. f.ret = g.ret  BY <4>5, <4>7
        <5>2. c = Minimum(t.len, g.ret)  BY <3>2, <5>1
        <5>3. QED BY <2>2, <4>3, <4>4, <4>7, <5>2 DEF Minimum
      <4>8. CASE ~mmapped
        <5>1. f.ret = MAXIMUM_SNAPLEN  BY <4>5, <4>6, <4>8
        <5>2. c = Minimum(t.len, MAXIMUM_SNAPLEN)  BY <3>2, <5>1
        <5>3. QED BY <2>1, <2>2, <5>2, CaptureAssumption DEF Minimum
      <4>9. QED BY <4>7, <4>8
    <3>3. QED BY <3>1, <3>2
  <2>4. ~Filler(p)  BY <1>3, <2>1 DEF Filler
  <2> HIDE DEF c
  <2>5. QED BY <1>3, <2>1, <2>3, <2>4 DEF Sound
<1>8. QED BY <1>2, <1>6, <1>7


-----------------------------------------------------------------------------

\* the kind of the handle stays
LEMMA FilterNext ==
    ASSUME UNCHANGED hd, ServingHandle, FilterState(call', kern', h'), ShownAsWanted'
    PROVE  FilterInv'
<1>1. mmapped' = mmapped /\ netfilter' = netfilter /\ Device' = Device /\ vlan_offset' = vlan_offset /\ Snapshot' = Snapshot
  BY DEF mmapped, netfilter, Device, vlan_offset, Snapshot
<1>2. ServingHandle'  BY <1>1 DEF ServingHandle
<1>3. \A p : Sound(p) => Sound(p)'  BY <1>1 DEF Sound
<1>4. \A f : fix_program(f)' = fix_program(f) /\ CanFix(f)' = CanFix(f)  BY <1>1 DEF fix_program, CanFix
<1>5. KernelFilters' = KernelFilters  BY <1>4 DEF KernelFilters
<1>6. SetState(call, kern, h)'  BY <1>1, <1>4 DEF FilterState, SetState
<1>7. QueueSieved(kern', h') => QueueSieved(kern, h)'  BY <1>4 DEF QueueSieved
<1>8. RingSieved(kern', h') => RingSieved(kern, h)'  BY DEF RingSieved
<1>9. Sieved(call, kern, h)'  BY <1>1, <1>7, <1>8 DEF FilterState, Sieved
<1>10. FilterState(call, kern, h)'  BY <1>1, <1>3, <1>5, <1>6, <1>9 DEF FilterState
<1>11. QED BY <1>2, <1>10 DEF FilterInv

\* a packet is looked at
LEMMA LookedRight ==
    ASSUME TypeOK, ServingHandle, UNCHANGED hd, NEW p \in Packets, ~Device => Sound(p), NEW g \in BOOLEAN,
           last'.whole = (g => Whole(p)), last'.given = g, last'.wanted = Wanted(p),
           last'.excused \/ (hd.cooked /\ mmapped) \/ (g <=> Wanted(p))
    PROVE  ShownAsWanted'
<1>1. Whole(p)  BY SoundWhole
<1>2. last'.whole  BY <1>1
<1>3. Wanted(p) \in BOOLEAN  BY DEF Wanted
<1>4. mmapped' = mmapped  BY DEF mmapped
<1>5. QED BY <1>2, <1>3, <1>4 DEF ShownAsWanted, ShownIffWanted, LengthsAreTrue

LEMMA QueueSeen ==
    ASSUME StreamInv, FilterInv, hd.mode = "sock", NEW i \in DOMAIN kern.queue, NEW p, p = kern.queue[i]
    PROVE  /\ p \in Packets /\ Sound(p)
           /\ h.bogus \/ h.stale \/ (linux_check_direction(p) /\ ~UserlandRejects(p) <=> Wanted(p))
<1>1. TypeOK /\ kern.queue \in Seq(Packets) /\ h \in HandleStates  BY StreamFacts
<1>2. p \in Packets  BY <1>1
<1>3. ~Device /\ ~mmapped /\ hd.cooked \in BOOLEAN  BY <1>1, HandleAssumption DEF Device, mmapped, TypeOK
<1>4. Sound(p)  BY <1>2, <1>3 DEF FilterInv, FilterState, Buffered
<1>5. ASSUME ~h.bogus, ~h.stale, ~h.userland, h.fcode # NoFilter PROVE Accepts(h.fcode, p, hd.cooked)
  <2>1. QueueSieved(kern, h) /\ h.fcode \in hd.filters  BY <1>5 DEF FilterInv, FilterState, Sieved
  <2>2. CanFix(h.fcode) /\ Accepts(fix_program(h.fcode), p, FALSE)  BY <1>5, <2>1 DEF QueueSieved
  <2>3. QED BY <1>1, <1>2, <2>1, <2>2, FixAccepts DEF FilterInv
<1>6. h.fcode = NoFilter => Accepts(h.fcode, p, hd.cooked)  BY DEF Accepts
<1>7. UserlandRejects(p) <=> h.userland /\ h.fcode # NoFilter /\ ~Accepts(h.fcode, p, hd.cooked)
  <2>1. (hd.cooked /\ ~mmapped) = hd.cooked  BY <1>3
  <2>2. QED BY <2>1 DEF UserlandRejects
<1>8. Wanted(p) <=> Accepts(h.fcode, p, hd.cooked) /\ linux_check_direction(p)
  BY <1>4 DEF Wanted, Sound
<1>9. QED BY <1>2, <1>4, <1>5, <1>6, <1>7, <1>8

LEMMA RingSeen ==
    ASSUME StreamInv, FilterInv, mmapped, call.at \in Reads, NEW i \in DOMAIN kern.ring[h.offset].pkts,
           NEW p, p = kern.ring[h.offset].pkts[i]
    PROVE  /\ p \in Packets /\ Sound(p)
           /\ h.bogus \/ h.stale \/ (hd.cooked /\ mmapped) \/ (Shown(p) <=> Wanted(p))
<1>1. TypeOK /\ kern.ring \in Ring /\ h \in HandleStates /\ h.offset \in Slots  BY StreamFacts
<1>2. p \in Packets  BY <1>1, RingFacts
<1>3. ~Device /\ hd.cooked \in BOOLEAN  BY <1>1, HandleAssumption DEF Device, TypeOK
<1>4. Sound(p)  BY <1>1, <1>2, <1>3 DEF FilterInv, FilterState, Buffered
<1>5. ASSUME ~h.stale, ~h.userland, h.fcode # NoFilter, ~hd.cooked PROVE Accepts(h.fcode, p, FALSE)
  <2>1. RingSieved(kern, h)  BY <1>5 DEF FilterInv, FilterState, Sieved, Reads, Changing
  <2>2. ~(h.countdown > 0) /\ h.countdown \in Nat  BY <1>1, <1>5, <2>1 DEF RingSieved, HandleStates
  <2>3. Ahead(h.offset, h.offset) = 0  BY <1>1, AheadFacts
  <2>4. h.countdown <= Ahead(h.offset, h.offset)  BY <2>2, <2>3
  <2>5. QED BY <1>1, <1>5, <2>1, <2>4 DEF RingSieved
<1>6. h.fcode = NoFilter => Accepts(h.fcode, p, FALSE)  BY DEF Accepts
<1>7. UserlandRejects(p) <=> h.userland /\ h.fcode # NoFilter /\ ~Accepts(h.fcode, p, FALSE)
  <2>1. (hd.cooked /\ ~mmapped) = FALSE  OBVIOUS
  <2>2. QED BY <2>1 DEF UserlandRejects
<1>8. ~hd.cooked => (Wanted(p) <=> Accepts(h.fcode, p, FALSE) /\ linux_check_direction(p))
  <2>1. ~hd.cooked => hd.cooked = FALSE  BY <1>3
  <2>2. QED BY <1>4, <2>1 DEF Wanted, Sound
<1>9. QED BY <1>2, <1>4, <1>5, <1>6, <1>7, <1>8 DEF Shown

LEMMA DeviceSeen ==
    ASSUME StreamInv, FilterInv, Device, NEW p
    PROVE  \/ h.bogus \/ h.stale \/ (hd.mode \in {"bin", "mapped", "can"} /\ h.direction # "INOUT")
           \/ netfilter /\ p.bad
           \/ DeviceShows(p) <=> Wanted(p)
<1>1. hd.mode \in Modes /\ ~mmapped /\ hd.mode # "sock" /\ ~hd.cooked /\ ~hd.lo /\ hd.cooked \in BOOLEAN
  BY StreamFacts, HandleAssumption DEF FilterInv, ServingHandle, Device, TypeOK
<1>2. hd.cooked = FALSE  BY <1>1
<1>3. h.direction = "INOUT" => linux_check_direction(p)  BY <1>1 DEF linux_check_direction
<1>4. netfilter => h.direction = "INOUT"  BY DEF FilterInv, FilterState
<1>5. hd.mode = "text" \/ hd.mode \in {"bin", "mapped", "can"} \/ netfilter
  BY <1>1 DEF Modes, mmapped, netfilter
<1>6. hd.mode = "text" => ~netfilter  BY DEF netfilter
<1>7. QED BY <1>2, <1>3, <1>4, <1>5, <1>6 DEF DeviceShows, Wanted

\* x filters as h does
SameFilter(x) ==
    /\ x.fcode = h.fcode /\ x.stale = h.stale /\ x.bogus = h.bogus /\ x.userland = h.userland
    /\ x.countdown = h.countdown /\ x.direction = h.direction

\* a step of a call that reads: packets are taken out of the buffers
LEMMA ReadKeeps ==
    ASSUME StreamInv, FilterInv, UNCHANGED hd, call.at \in Reads,
           call'.at \in Reads \cup {"idle"}, call'.op # "setfilter",
           kern'.filter = kern.filter, kern'.inflight = kern.inflight,
           ~Device => Buffered(kern') \subseteq Buffered(kern),
           h'.fcode = h.fcode, h'.stale = h.stale, h'.bogus = h.bogus, h'.direction = h.direction,
           hd.mode = "sock" =>
             /\ h'.userland = h.userland
             /\ \A i \in DOMAIN kern'.queue : \E j \in DOMAIN kern.queue : kern'.queue[i] = kern.queue[j],
           mmapped /\ RingSieved(kern, h) => RingSieved(kern', h'),
           ShownAsWanted'
    PROVE  FilterInv'
<1>1. call'.at \notin Sets /\ call'.at \notin Changing /\ call.at \notin Sets /\ call.at \notin Changing
  BY DEF Reads, Sets, Changing
<1>2. FilterState(call, kern, h) /\ ServingHandle  BY DEF FilterInv
<1>3. SetState(call, kern, h) /\ Sieved(call, kern, h)  BY <1>2 DEF FilterState
<1>4. kern.inflight = {}  BY <1>3 DEF SetState
<1>5. SetState(call', kern', h')  BY <1>1, <1>4 DEF SetState, Sets, Changing
<1>6. hd.mode = "sock" => QueueSieved(kern', h')
  <2>1. SUFFICES ASSUME hd.mode = "sock", QueueSieved(kern, h) PROVE QueueSieved(kern', h')
    BY <1>3 DEF Sieved
  <2>2. QED BY <2>1 DEF QueueSieved
<1>7. Sieved(call', kern', h')  BY <1>1, <1>3, <1>6 DEF Sieved
<1>8. FilterState(call', kern', h')  BY <1>2, <1>5, <1>7 DEF FilterState
<1>9. QED BY <1>2, <1>8, FilterNext

\* where a call that reads goes on
LEMMA ReturnReads ==
    ASSUME TypeOK, NEW n \in Int, NEW g \in Nat, Return(n, g), call.op # "setfilter"
    PROVE  call'.at \in Reads \cup {"idle"} /\ call'.op # "setfilter"
<1>1. call'.at \in Starts \cup {"idle"}  BY ReturnType
<1> DEFINE c == [call EXCEPT !.given = @ + g]
           ends == [Idle EXCEPT !.cnt = c.cnt, !.given = c.given]
           cnt == IF Unlimited(call.max) THEN call.max ELSE call.max - n
<1>2. call' = ends \/ call' = Reading(c, cnt)  BY DEF Return
<1>3. ends.op = "none"  BY DEF Idle
<1>4. Reading(c, cnt).op = call.op  BY DEF Reading, TypeOK, CallStates
<1>5. call'.op # "setfilter"
  <2> HIDE DEF ends, c, cnt
  <2>1. QED BY <1>2, <1>3, <1>4
<1>6. QED BY <1>1, <1>5 DEF Starts, Reads

\* every operation that reads has a call that reads before it and after it
LEMMA ReaderCalls ==
    ASSUME StreamInv, FilterInv, Reader
    PROVE  /\ call.at \in Reads /\ call.op # "setfilter"
           /\ call'.at \in Reads \cup {"idle"} /\ call'.op # "setfilter"
<1>1. TypeOK /\ call \in CallStates /\ h \in HandleStates /\ call.pkts \in Int
  BY StreamFacts DEF CallStates
<1>2. call.at \in Reads
  BY DEF Reader, Recv, Recvmsg, Wait, Poll, Frame, Block, BlockPacket, BlockDone, Read, usb_read_linux,
         usb_read_linux_bin, can_read_linux, Message, DatagramDone, Fetch, FetchedEvent, FetchDone, Reads
<1>3. call.op # "setfilter"
  <2>1. call.at \notin Sets  BY <1>2 DEF Reads, Sets
  <2>2. QED BY <2>1 DEF FilterInv, FilterState, SetState
<1> DEFINE Goes == call'.at \in Reads \cup {"idle"} /\ call'.op # "setfilter"
<1>4. ASSUME NEW n \in Int, NEW g \in Nat, Return(n, g) PROVE Goes  BY <1>1, <1>3, <1>4, ReturnReads
<1>5. ASSUME NEW a \in Reads, At(a) PROVE Goes  BY <1>1, <1>3, <1>5 DEF At, CallStates
<1>6. ASSUME Break PROVE Goes  BY <1>4, <1>6, -2 \in Int, 0 \in Nat DEF Break
<1>7. ASSUME NEW a \in Reads, AfterPoll(a) PROVE Goes  BY <1>5, <1>6, <1>7 DEF AfterPoll
<1>8. ASSUME call'.op = call.op, call'.at = call.at \/ call'.at \in Reads PROVE Goes  BY <1>2, <1>3, <1>8
<1>9. 0 \in Int /\ 1 \in Int /\ -1 \in Int /\ -2 \in Int /\ 0 \in Nat /\ 1 \in Nat  OBVIOUS
<1> SUFFICES Goes  BY <1>2, <1>3
<1> HIDE DEF Goes
<1>10. CASE Recv
  <2>1. Break \/ call' = [call EXCEPT !.at = "recvmsg"]  BY <1>10 DEF Recv
  <2>2. call' = [call EXCEPT !.at = "recvmsg"] => Goes  BY <1>1, <1>8 DEF CallStates, Reads
  <2>3. QED BY <1>6, <2>1, <2>2
<1>11. CASE Recvmsg
  <2> DEFINE shown == linux_check_direction(Head(kern.queue)) /\ ~UserlandRejects(Head(kern.queue))
  <2>1. \/ Return(IF shown THEN 1 ELSE 0, IF shown THEN 1 ELSE 0)
        \/ Return(-1, 0) \/ Return(0, 0) \/ call' = [call EXCEPT !.at = "recv"]
    BY <1>11 DEF Recvmsg
  <2>2. call' = [call EXCEPT !.at = "recv"] => Goes  BY <1>1, <1>8 DEF CallStates, Reads
  <2> HIDE DEF shown
  <2>3. QED BY <1>4, <1>9, <2>1, <2>2
<1>12. CASE Wait \/ Poll
  <2>1. Ready \in Reads /\ "poll" \in Reads  BY DEF Ready, Reads
  <2>2. CASE Wait
    <3>1. At(Ready) \/ At("poll")  BY <2>2 DEF Wait
    <3>2. QED BY <1>5, <2>1, <3>1
  <2>3. CASE Poll
    <3>1. AfterPoll(Ready) \/ AfterPoll("poll") \/ At(Ready) \/ Return(-1, 0)  BY <2>3 DEF Poll
    <3>2. QED BY <1>4, <1>5, <1>7, <1>9, <2>1, <3>1
  <2>4. QED BY <1>12, <2>2, <2>3
<1>13. CASE Frame
  <2> DEFINE n == IF Shown(kern.ring[h.offset].pkts[1]) THEN 1 ELSE 0
  <2>1. \/ Return(call.pkts, 0) \/ Return(-1, 0) \/ Return(-2, n)
        \/ call' = [call EXCEPT !.pkts = @ + n, !.given = @ + n]
    BY <1>13 DEF Frame
  <2>2. n \in Nat  OBVIOUS
  <2> HIDE DEF n
  <2>3. call' = [call EXCEPT !.pkts = @ + n, !.given = @ + n] => Goes  BY <1>1, <1>8 DEF CallStates
  <2>4. QED BY <1>1, <1>4, <1>9, <2>1, <2>2, <2>3
<1>14. CASE Block
  <2> DEFINE w == IF h.current = 0 THEN "wait" ELSE "block"
             left == IF h.current = 0 THEN Len(kern.ring[h.offset].pkts) ELSE h.left
             todo == IF Unlimited(call.max) THEN left ELSE Minimum(left, call.max)
  <2>1. \/ Return(call.pkts, 0) \/ call' = [call EXCEPT !.at = w]
        \/ call' = [call EXCEPT !.at = "batch", !.todo = todo]
    BY <1>14 DEF Block, Ended
  <2>2. w \in Reads /\ "batch" \in Reads  BY DEF Reads
  <2> HIDE DEF w, todo
  <2>3. call' = [call EXCEPT !.at = w] => Goes  BY <1>1, <1>8, <2>2 DEF CallStates
  <2>4. call' = [call EXCEPT !.at = "batch", !.todo = todo] => Goes  BY <1>1, <1>8, <2>2 DEF CallStates
  <2>5. QED BY <1>1, <1>4, <1>9, <2>1, <2>3, <2>4
<1>15. CASE BlockPacket
  <2> DEFINE n == IF Shown(kern.ring[h.offset].pkts[h.current]) THEN 1 ELSE 0
  <2>1. Return(-1, 0) \/ call' = [call EXCEPT !.todo = @ - 1, !.pkts = @ + n, !.given = @ + n]
    BY <1>15 DEF BlockPacket
  <2> HIDE DEF n
  <2>2. call' = [call EXCEPT !.todo = @ - 1, !.pkts = @ + n, !.given = @ + n] => Goes
    BY <1>1, <1>8 DEF CallStates
  <2>3. QED BY <1>4, <1>9, <2>1, <2>2
<1>16. CASE BlockDone
  <2>1. Return(-2, 0) \/ At("block")  BY <1>16 DEF BlockDone
  <2>2. QED BY <1>4, <1>5, <1>9, <2>1 DEF Reads
<1>17. CASE Read
  <2>1. Return(-2, 0) \/ At("event") \/ Break \/ Return(0, 0) \/ Return(-1, 0) \/ AfterPoll("read")
    BY <1>17 DEF Read
  <2>2. "event" \in Reads /\ "read" \in Reads  BY DEF Reads
  <2>3. QED BY <1>4, <1>5, <1>6, <1>7, <1>9, <2>1, <2>2
<1>18. CASE usb_read_linux \/ usb_read_linux_bin \/ can_read_linux
  <2>1. Handed \/ Unread  BY <1>18 DEF usb_read_linux, usb_read_linux_bin, can_read_linux
  <2> DEFINE n == IF DeviceShows(Head(h.buffer)) THEN 1 ELSE 0
  <2>2. Return(n, n) \/ Return(-1, 0)  BY <2>1 DEF Handed, Unread
  <2>3. n \in Nat /\ n \in Int  OBVIOUS
  <2> HIDE DEF n
  <2>4. QED BY <1>4, <1>9, <2>2, <2>3
<1>19. CASE Message \/ DatagramDone
  <2> DEFINE n == IF DeviceShows(Head(h.buffer)) THEN 1 ELSE 0
  <2>1. Return(call.pkts, 0) \/ Return(-1, 0) \/ call' = [call EXCEPT !.pkts = @ + n, !.given = @ + n]
    BY <1>19 DEF Message, DatagramDone
  <2> HIDE DEF n
  <2>2. call' = [call EXCEPT !.pkts = @ + n, !.given = @ + n] => Goes  BY <1>1, <1>8 DEF CallStates
  <2>3. QED BY <1>1, <1>4, <1>9, <2>1, <2>2
<1>20. CASE Fetch
  <2> DEFINE n == Minimum(Limit, Len(Flushed.queue))
  <2>1. \/ Break \/ call' = [call EXCEPT !.at = "event", !.nflush = n, !.todo = n]
        \/ Return(0, 0) \/ Return(-1, 0) \/ AfterPoll("read")
    BY <1>20 DEF Fetch
  <2>2. "event" \in Reads /\ "read" \in Reads  BY DEF Reads
  <2> HIDE DEF n
  <2>3. call' = [call EXCEPT !.at = "event", !.nflush = n, !.todo = n] => Goes
    BY <1>1, <1>8, <2>2 DEF CallStates
  <2>4. QED BY <1>4, <1>6, <1>7, <1>9, <2>1, <2>2, <2>3
<1>21. CASE FetchedEvent
  <2> DEFINE n == IF DeviceShows(kern.queue[call.nflush - call.todo + 1]) THEN 1 ELSE 0
  <2>1. call' = [call EXCEPT !.todo = @ - 1, !.pkts = @ + n, !.given = @ + n]  BY <1>21 DEF FetchedEvent
  <2> HIDE DEF n
  <2>2. QED BY <1>1, <1>8, <2>1 DEF CallStates
<1>22. CASE FetchDone
  <2>1. Return(call.pkts, 0) \/ At("read")  BY <1>22 DEF FetchDone
  <2>2. QED BY <1>1, <1>4, <1>5, <1>9, <2>1 DEF Reads
<1>23. QED
  BY <1>10, <1>11, <1>12, <1>13, <1>14, <1>15, <1>16, <1>17, <1>18, <1>19, <1>20, <1>21, <1>22 DEF Reader

LEMMA FieldsKept ==
    ASSUME NEW x \in HandleStates
    PROVE  /\ \A y \in {Counted(x), Reset(x)} :
                /\ y.fcode = x.fcode /\ y.stale = x.stale /\ y.bogus = x.bogus /\ y.userland = x.userland
                /\ y.countdown = x.countdown /\ y.direction = x.direction /\ y.offset = x.offset
           /\ Released(x).fcode = x.fcode /\ Released(x).stale = x.stale /\ Released(x).bogus = x.bogus
           /\ Released(x).direction = x.direction /\ Released(x).offset = (x.offset + 1) % Frames
           /\ Released(x).countdown = (IF x.countdown > 0 THEN x.countdown - 1 ELSE 0)
           /\ Released(x).userland = (IF x.countdown = 1 THEN FALSE ELSE x.userland)
<1>1. /\ Counted(x).fcode = x.fcode /\ Counted(x).stale = x.stale /\ Counted(x).bogus = x.bogus
      /\ Counted(x).userland = x.userland /\ Counted(x).countdown = x.countdown
      /\ Counted(x).direction = x.direction /\ Counted(x).offset = x.offset
  BY DEF Counted, HandleStates
<1>2. /\ Reset(x).fcode = x.fcode /\ Reset(x).stale = x.stale /\ Reset(x).bogus = x.bogus
      /\ Reset(x).userland = x.userland /\ Reset(x).countdown = x.countdown
      /\ Reset(x).direction = x.direction /\ Reset(x).offset = x.offset
  BY DEF Reset, HandleStates
<1>3. /\ Released(x).fcode = x.fcode /\ Released(x).stale = x.stale /\ Released(x).bogus = x.bogus
      /\ Released(x).direction = x.direction /\ Released(x).offset = (x.offset + 1) % Frames
      /\ Released(x).countdown = (IF x.countdown > 0 THEN x.countdown - 1 ELSE 0)
      /\ Released(x).userland = (IF x.countdown = 1 THEN FALSE ELSE x.userland)
  BY DEF Released, HandleStates
<1>4. QED BY <1>1, <1>2, <1>3

\* a frame or block is given back: all others are one nearer
LEMMA ReleaseSieved ==
    ASSUME kern \in KernelStates, h \in HandleStates, kern.inflight = {}, RingSieved(kern, h),
           NEW k, Freed(kern.ring, k.ring, h.offset), k.filter = kern.filter, k.inflight = {},
           NEW y, y.offset = (h.offset + 1) % Frames, y.fcode = h.fcode, y.stale = h.stale,
           y.countdown = (IF h.countdown > 0 THEN h.countdown - 1 ELSE 0),
           y.userland = (IF h.countdown = 1 THEN FALSE ELSE h.userland)
    PROVE  RingSieved(k, y)
<1>1. h.countdown \in Nat /\ h.offset \in Slots /\ h.userland \in BOOLEAN  BY DEF HandleStates
<1> SUFFICES ASSUME ~h.stale, h.fcode # NoFilter, ~(y.userland /\ y.countdown = 0)
             PROVE  /\ k.filter = y.fcode /\ (y.userland <=> y.countdown > 0)
                    /\ \A s \in Slots : y.countdown <= Ahead(s, y.offset) =>
                         \A i \in DOMAIN k.ring[s].pkts : Accepts(y.fcode, k.ring[s].pkts[i], FALSE)
  BY DEF RingSieved
<1>2. ~(h.userland /\ h.countdown = 0)  BY <1>1
<1>3. /\ kern.filter = h.fcode /\ (h.userland <=> h.countdown > 0)
      /\ \A s \in Slots : h.countdown <= Ahead(s, h.offset) =>
           \A i \in DOMAIN kern.ring[s].pkts : Accepts(h.fcode, kern.ring[s].pkts[i], FALSE)
  BY <1>2 DEF RingSieved
<1>4. y.userland <=> y.countdown > 0  BY <1>1, <1>3
<1>5. ASSUME NEW s \in Slots, y.countdown <= Ahead(s, y.offset), NEW i \in DOMAIN k.ring[s].pkts
      PROVE  Accepts(y.fcode, k.ring[s].pkts[i], FALSE)
  <2>1. s # h.offset
    <3>1. s = h.offset => k.ring[s].pkts = <<>>  BY DEF Freed
    <3>2. QED BY <1>5, <3>1, EmptyFacts
  <2>2. k.ring[s] = kern.ring[s]  BY <2>1 DEF Freed
  <2>3. Ahead(s, y.offset) = Ahead(s, h.offset) - 1  BY <1>1, <2>1, AheadNext
  <2>4. Ahead(s, h.offset) \in Nat  BY <1>1, AheadFacts
  <2>5. h.countdown <= Ahead(s, h.offset)  BY <1>1, <1>5, <2>3, <2>4
  <2>6. QED BY <1>3, <1>5, <2>2, <2>5
<1>6. QED BY <1>3, <1>4, <1>5

\* a read operation that changes nothing of the filter and the ring
LEMMA ReadQuiet ==
    ASSUME StreamInv, FilterInv, Reader, UNCHANGED hd, kern' = kern \/ Device,
           kern'.filter = kern.filter, kern'.inflight = kern.inflight,
           SameFilter(h'), h'.offset = h.offset, ShownAsWanted'
    PROVE  FilterInv'
<1>1. ~(mmapped /\ Device) /\ ~(hd.mode = "sock" /\ Device)  BY DEF Device
<1>2. mmapped /\ RingSieved(kern, h) => RingSieved(kern', h')  BY <1>1 DEF RingSieved, SameFilter
<1>3. QED BY <1>1, <1>2, ReaderCalls, ReadKeeps DEF SameFilter

LEMMA SameShown ==
    ASSUME FilterInv, UNCHANGED <<hd, last>>
    PROVE  ShownAsWanted'
BY DEF FilterInv, ShownAsWanted, ShownIffWanted, LengthsAreTrue, mmapped

LEMMA SameFacts ==
    ASSUME h \in HandleStates
    PROVE  /\ SameFilter(h)
           /\ SameFilter(Counted(h)) /\ Counted(h).offset = h.offset
           /\ SameFilter(Reset(h)) /\ Reset(h).offset = h.offset
BY FieldsKept DEF SameFilter

LEMMA SocketFilters ==
    ASSUME StreamInv, FilterInv, Recv \/ Recvmsg
    PROVE  FilterInv'
<1>1. /\ TypeOK /\ h \in HandleStates /\ kern \in KernelStates /\ kern.queue \in Seq(Packets)
      /\ hd.mode = "sock" /\ UNCHANGED hd /\ Reader /\ ~Device /\ ~mmapped /\ ServingHandle
  <2>1. call.at \in {"recv", "recvmsg"} /\ UNCHANGED hd /\ Reader  BY DEF Recv, Recvmsg, Reader
  <2>2. hd.mode = "sock"  BY <2>1, StreamFacts DEF Phase
  <2>3. QED BY <2>1, <2>2, StreamFacts DEF Device, mmapped, FilterInv
<1>2. ASSUME UNCHANGED <<kern, last>>, h' = h \/ h' = Reset(h) PROVE FilterInv'
  <2>1. SameFilter(h') /\ h'.offset = h.offset  BY <1>1, <1>2, SameFacts
  <2>2. QED BY <1>1, <1>2, <2>1, SameShown, ReadQuiet
<1>3. CASE Recv
  <2>1. UNCHANGED <<kern, last>> /\ (h' = h \/ h' = Reset(h))  BY <1>3 DEF Recv, Break
  <2>2. QED BY <1>2, <2>1
<1>4. CASE Recvmsg
  <2> DEFINE q == kern.queue
             p == Head(q)
             shown == linux_check_direction(p) /\ ~UserlandRejects(p)
  <2>1. \/ /\ q # <<>> /\ kern' = [kern EXCEPT !.queue = Tail(@)] /\ last' = Looked(p, shown)
           /\ h' = IF shown THEN Counted(h) ELSE h
        \/ /\ q # <<>> /\ kern' = [kern EXCEPT !.queue = Tail(@)] /\ UNCHANGED h
           /\ last' = [Looked(p, FALSE) EXCEPT !.excused = TRUE]
        \/ UNCHANGED <<h, kern, last>>
    BY <1>4 DEF Recvmsg
  <2>2. ASSUME q # <<>>, kern' = [kern EXCEPT !.queue = Tail(@)], h' = h \/ h' = Counted(h),
               last' = Looked(p, shown) \/ last' = [Looked(p, FALSE) EXCEPT !.excused = TRUE]
        PROVE  FilterInv'
    <3>1. 1 \in DOMAIN q /\ p = q[1]  BY <1>1, <2>2
    <3>2. /\ p \in Packets /\ Sound(p)
          /\ h.bogus \/ h.stale \/ (shown <=> Wanted(p))
      BY <1>1, <3>1, QueueSeen
    <3>3. ShownAsWanted'
      <4>1. CASE last' = Looked(p, shown)
        <5>1. /\ last'.whole = (shown => Whole(p)) /\ last'.given = shown /\ last'.wanted = Wanted(p)
              /\ (h.bogus \/ h.stale => last'.excused) /\ shown \in BOOLEAN
          BY <4>1 DEF Looked
        <5> HIDE DEF shown
        <5>2. QED BY <1>1, <3>2, <5>1, LookedRight
      <4>2. CASE last' = [Looked(p, FALSE) EXCEPT !.excused = TRUE]
        <5>1. /\ last'.whole = (FALSE => Whole(p)) /\ last'.given = FALSE /\ last'.wanted = Wanted(p)
              /\ last'.excused
          BY <4>2 DEF Looked
        <5>2. QED BY <1>1, <3>2, <5>1, LookedRight
      <4>3. QED BY <2>2, <4>1, <4>2
    <3>4. /\ kern'.filter = kern.filter /\ kern'.inflight = kern.inflight /\ kern'.queue = Tail(q)
          /\ kern'.ring = kern.ring
      BY <1>1, <2>2 DEF KernelStates
    <3>5. \A i \in DOMAIN Tail(q) : i + 1 \in DOMAIN q /\ Tail(q)[i] = q[i + 1]
      BY <1>1, <2>2
    <3>6. Buffered(kern') \subseteq Buffered(kern)  BY <3>4, <3>5 DEF Buffered
    <3>7. SameFilter(h')  BY <1>1, <2>2, SameFacts
    <3>8. \A i \in DOMAIN kern'.queue : \E j \in DOMAIN kern.queue : kern'.queue[i] = kern.queue[j]
      BY <3>4, <3>5
    <3>9. QED BY <1>1, <3>3, <3>4, <3>6, <3>7, <3>8, ReaderCalls, ReadKeeps DEF SameFilter
  <2> HIDE DEF q, p, shown
  <2>3. QED BY <1>2, <2>1, <2>2
<1>5. QED BY <1>3, <1>4

LEMMA RingFilters ==
    ASSUME StreamInv, FilterInv, Wait \/ Poll \/ Frame \/ Block \/ BlockPacket \/ BlockDone
    PROVE  FilterInv'
<1>1. /\ TypeOK /\ h \in HandleStates /\ kern \in KernelStates /\ Place /\ call \in CallStates
      /\ hd.mode \in Rings /\ kern.ring \in Ring /\ kern.pos \in Slots /\ h.offset \in Slots
      /\ h.current \in Nat /\ h.left \in Nat /\ UNCHANGED hd /\ Phase
  BY RingReads
<1>2. /\ mmapped /\ ~Device /\ hd.mode # "sock" /\ ServingHandle /\ call.at \in Reads /\ Reader
      /\ kern.inflight = {}
  <2>1. mmapped /\ ~Device /\ hd.mode # "sock" /\ Reader  BY <1>1 DEF mmapped, Rings, Device, Reader
  <2>2. call.at \in Reads  BY <2>1, ReaderCalls
  <2>3. QED BY <2>1, <2>2 DEF FilterInv, FilterState, SetState
<1>3. ASSUME UNCHANGED kern, SameFilter(h'), h'.offset = h.offset, ShownAsWanted' PROVE FilterInv'
  BY <1>1, <1>2, <1>3, ReadQuiet
<1>4. ASSUME UNCHANGED <<kern, last>>, h' = h \/ h' = Reset(h) PROVE FilterInv'
  <2>1. SameFilter(h') /\ h'.offset = h.offset  BY <1>1, <1>4, SameFacts
  <2>2. QED BY <1>1, <1>3, <1>4, <2>1, SameShown
\* a packet of the reader's frame is looked at
<1>5. ASSUME NEW i \in DOMAIN kern.ring[h.offset].pkts, NEW p, p = kern.ring[h.offset].pkts[i],
             last' = Looked(p, Shown(p))
      PROVE  ShownAsWanted'
  <2> DEFINE g == Shown(p)
  <2>1. /\ p \in Packets /\ Sound(p)
        /\ h.bogus \/ h.stale \/ (hd.cooked /\ mmapped) \/ (g <=> Wanted(p))
    BY <1>2, <1>5, RingSeen
  <2>2. /\ last'.whole = (g => Whole(p)) /\ last'.given = g /\ last'.wanted = Wanted(p)
        /\ (h.bogus \/ h.stale => last'.excused) /\ g \in BOOLEAN
    BY <1>5 DEF Looked, Shown
  <2> HIDE DEF g
  <2>3. QED BY <1>1, <1>2, <2>1, <2>2, LookedRight
\* the frame or block is given back
<1>6. ASSUME kern' = GivenBack(kern), NEW x \in HandleStates, SameFilter(x), x.offset = h.offset,
             h' = Released(x) \/ h' = Reset(Released(x)), ShownAsWanted'
      PROVE  FilterInv'
  <2> DEFINE k == kern'
             y == h'
  <2>1. Freed(kern.ring, k.ring, h.offset) /\ k.inflight = {} /\ k.queue = kern.queue
    BY <1>1, <1>2, <1>6, GivenBackFacts
  <2>2. k.filter = kern.filter  BY <1>1, <1>6 DEF GivenBack, KernelStates
  <2>3. /\ y.offset = (h.offset + 1) % Frames /\ y.fcode = h.fcode /\ y.stale = h.stale
        /\ y.countdown = (IF h.countdown > 0 THEN h.countdown - 1 ELSE 0)
        /\ y.userland = (IF h.countdown = 1 THEN FALSE ELSE h.userland)
        /\ y.bogus = h.bogus /\ y.direction = h.direction
    <3> DEFINE z == Released(x)
    <3>1. z \in HandleStates  BY ReleasedType
    <3>2. /\ z.offset = (h.offset + 1) % Frames /\ z.fcode = h.fcode /\ z.stale = h.stale
          /\ z.countdown = (IF h.countdown > 0 THEN h.countdown - 1 ELSE 0)
          /\ z.userland = (IF h.countdown = 1 THEN FALSE ELSE h.userland)
          /\ z.bogus = h.bogus /\ z.direction = h.direction
      BY <1>6, FieldsKept DEF SameFilter
    <3>3. h' = z \/ h' = Reset(z)  BY <1>6
    <3> HIDE DEF z
    <3>4. LET e == Reset(z)
          IN  /\ e.fcode = z.fcode /\ e.stale = z.stale /\ e.bogus = z.bogus /\ e.userland = z.userland
              /\ e.countdown = z.countdown /\ e.direction = z.direction /\ e.offset = z.offset
      BY <3>1, FieldsKept
    <3>5. QED BY <3>2, <3>3, <3>4
  <2>4. Buffered(kern') \subseteq Buffered(kern)
    <3>1. \A s \in Slots : \A i \in DOMAIN k.ring[s].pkts : k.ring[s] = kern.ring[s]
      BY <2>1, EmptyFacts DEF Freed
    <3>2. QED BY <1>2, <2>1, <3>1 DEF Buffered
  <2>5. RingSieved(kern, h) => RingSieved(kern', h')
    <3> HIDE DEF k, y
    <3>1. RingSieved(kern, h) => RingSieved(k, y)  BY <1>1, <1>2, <2>1, <2>2, <2>3, ReleaseSieved
    <3>2. QED BY <3>1 DEF k, y
  <2>6. QED BY <1>1, <1>2, <1>6, <2>1, <2>2, <2>3, <2>4, <2>5, ReaderCalls, ReadKeeps
<1>7. CASE Wait \/ Poll
  <2>1. UNCHANGED <<kern, last>> /\ (h' = h \/ h' = Reset(h))
    BY <1>7 DEF Wait, Poll, AfterPoll, Break
  <2>2. QED BY <1>4, <2>1
<1>8. CASE Frame
  <2> DEFINE p == kern.ring[h.offset].pkts[1]
             x == IF Shown(p) THEN Counted(h) ELSE h
  <2>1. \/ UNCHANGED <<h, kern, last>>
        \/ /\ UserFrame /\ last' = Looked(p, Shown(p)) /\ kern' = GivenBack(kern)
           /\ h' = Released(x) \/ h' = Reset(Released(x))
    BY <1>8 DEF Frame
  <2>2. CASE /\ UserFrame /\ last' = Looked(p, Shown(p)) /\ kern' = GivenBack(kern)
             /\ h' = Released(x) \/ h' = Reset(Released(x))
    <3>1. x \in HandleStates /\ SameFilter(x) /\ x.offset = h.offset  BY <1>1, CountedType, SameFacts
    <3>2. 1 \in DOMAIN kern.ring[h.offset].pkts
      <4>1. hd.mode # "v3" /\ kern.ring[h.offset].user  BY <1>1, <1>8, <2>2 DEF Frame, Phase, UserFrame
      <4>2. PICK m \in Nat : InRing(hd.mode, kern.ring, kern.pos, h.offset, h.current, last.id, m)
        BY <1>1, StreamFacts DEF Ordered
      <4>3. Len(kern.ring[h.offset].pkts) = 1  BY <1>1, <4>1, <4>2 DEF InRing
      <4>4. QED BY <1>1, <4>3, RingFacts
    <3>3. ShownAsWanted'
      <4> HIDE DEF p
      <4>1. p = kern.ring[h.offset].pkts[1]  BY DEF p
      <4>2. QED BY <1>5, <2>2, <3>2, <4>1
    <3> HIDE DEF x, p
    <3>4. QED BY <1>6, <2>2, <3>1, <3>3
  <2>3. QED BY <1>4, <2>1, <2>2
<1>9. CASE Block
  <2> DEFINE left == IF h.current = 0 THEN Len(kern.ring[h.offset].pkts) ELSE h.left
  <2>1. /\ UNCHANGED <<kern, last>>
        /\ h' = h \/ h' = [h EXCEPT !.current = IF @ = 0 THEN 1 ELSE @, !.left = left]
    BY <1>9 DEF Block
  <2> HIDE DEF left
  <2>2. SameFilter(h') /\ h'.offset = h.offset  BY <1>1, <2>1 DEF SameFilter, HandleStates
  <2>3. QED BY <1>1, <1>3, <2>1, <2>2, SameShown
<1>10. CASE BlockPacket
  <2> DEFINE p == kern.ring[h.offset].pkts[h.current]
             y == IF Shown(p) THEN Counted(h) ELSE h
  <2>1. call.at = "batch" /\ hd.mode = "v3" /\ UNCHANGED kern /\ call.todo > 0 /\ call.todo <= h.left
    BY <1>1, <1>10 DEF BlockPacket, Phase, TypeOK
  <2>2. \/ h' = [h EXCEPT !.current = 0, !.since = 0] /\ UNCHANGED last
        \/ last' = Looked(p, Shown(p)) /\ h' = [y EXCEPT !.current = @ + 1, !.left = @ - 1]
    BY <1>10 DEF BlockPacket
  <2>3. CASE h' = [h EXCEPT !.current = 0, !.since = 0] /\ UNCHANGED last
    <3>1. SameFilter(h') /\ h'.offset = h.offset  BY <1>1, <2>3 DEF SameFilter, HandleStates
    <3>2. QED BY <1>1, <1>3, <2>1, <2>3, <3>1, SameShown
  <2>4. CASE last' = Looked(p, Shown(p)) /\ h' = [y EXCEPT !.current = @ + 1, !.left = @ - 1]
    <3>1. h.current \in DOMAIN kern.ring[h.offset].pkts
      <4> DEFINE n == Len(kern.ring[h.offset].pkts)
      <4>1. n \in Nat /\ DOMAIN kern.ring[h.offset].pkts = 1 .. n  BY <1>1, RingFacts
      <4>2. h.left > 0
        <5>1. call.todo \in Nat  BY <1>1 DEF CallStates
        <5>2. QED BY <1>1, <2>1, <5>1
      <4>3. h.current # 0 /\ h.current + h.left = n + 1  BY <1>1, <2>1 DEF Place
      <4>4. \A a, b, c \in Nat : a # 0 /\ b > 0 /\ a + b = c + 1 => a \in 1 .. c  OBVIOUS
      <4> HIDE DEF n
      <4>5. QED BY <1>1, <4>1, <4>2, <4>3, <4>4
    <3>2. ShownAsWanted'
      <4> HIDE DEF p
      <4>1. p = kern.ring[h.offset].pkts[h.current]  BY DEF p
      <4>2. QED BY <1>5, <2>4, <3>1, <4>1
    <3>3. y \in HandleStates /\ SameFilter(y) /\ y.offset = h.offset  BY <1>1, CountedType, SameFacts
    <3> HIDE DEF y, p
    <3>4. SameFilter(h') /\ h'.offset = h.offset  BY <2>4, <3>3 DEF SameFilter, HandleStates
    <3>5. QED BY <1>3, <2>1, <3>2, <3>4
  <2>5. QED BY <2>2, <2>3, <2>4
<1>11. CASE BlockDone
  <2>1. UNCHANGED last  BY <1>11 DEF BlockDone
  <2>2. \/ UNCHANGED kern /\ (h' = h \/ h' = Reset(h))
        \/ kern' = GivenBack(kern) /\ (h' = Released(h) \/ h' = Reset(Released(h)))
    BY <1>11 DEF BlockDone
  <2>3. SameFilter(h)  BY DEF SameFilter
  <2>4. QED BY <1>1, <1>4, <1>6, <2>1, <2>2, <2>3, SameShown
<1>12. QED BY <1>7, <1>8, <1>9, <1>10, <1>11

\* an event or message of a device is looked at, or cannot be read
LEMMA DeviceLooked ==
    ASSUME StreamInv, FilterInv, UNCHANGED hd, Device, NEW p \in Packets,
           \/ last' = Looked(p, DeviceShows(p)) /\ ~netfilter
           \/ last' = [Looked(p, DeviceShows(p)) EXCEPT !.excused = @ \/ p.bad]
           \/ last' = [Looked(p, FALSE) EXCEPT !.excused = TRUE]
    PROVE  ShownAsWanted'
<1>1. TypeOK /\ ServingHandle  BY StreamFacts DEF FilterInv
<1> DEFINE g == DeviceShows(p)
           e == h.bogus \/ h.stale \/ (hd.mode \in {"bin", "mapped", "can"} /\ h.direction # "INOUT")
<1>2. e \/ (netfilter /\ p.bad) \/ (g <=> Wanted(p))  BY DeviceSeen
<1>3. CASE last' = [Looked(p, FALSE) EXCEPT !.excused = TRUE]
  <2>1. /\ last'.whole = (FALSE => Whole(p)) /\ last'.given = FALSE /\ last'.wanted = Wanted(p)
        /\ last'.excused
    BY <1>3 DEF Looked
  <2>2. QED BY <1>1, <2>1, LookedRight
<1>4. CASE \/ last' = Looked(p, g) /\ ~netfilter
           \/ last' = [Looked(p, g) EXCEPT !.excused = @ \/ p.bad]
  <2>1. /\ last'.whole = (g => Whole(p)) /\ last'.given = g /\ last'.wanted = Wanted(p)
        /\ (e => last'.excused) /\ (netfilter /\ p.bad => last'.excused)
    <3> DEFINE l == Looked(p, g)
    <3>1. /\ l.whole = (g => Whole(p)) /\ l.given = g /\ l.wanted = Wanted(p) /\ l.excused = e
          /\ DOMAIN l = {"id", "wanted", "given", "excused", "whole"}
      BY DEF Looked
    <3>2. l = [l EXCEPT !.excused = e]  BY <3>1 DEF Looked
    <3> HIDE DEF l, e, g
    <3>3. CASE last' = l /\ ~netfilter  BY <3>1, <3>3
    <3>4. CASE last' = [l EXCEPT !.excused = @ \/ p.bad]
      <4>1. last'.whole = l.whole /\ last'.given = l.given /\ last'.wanted = l.wanted
        BY <3>1, <3>4
      <4>2. last'.excused = (l.excused \/ p.bad)  BY <3>1, <3>4
      <4>3. QED BY <3>1, <4>1, <4>2
    <3>5. QED BY <1>4, <3>3, <3>4 DEF l
  <2>2. g \in BOOLEAN  BY DEF DeviceShows
  <2> HIDE DEF g, e
  <2>3. QED BY <1>1, <1>2, <2>1, <2>2, LookedRight
<1>5. QED BY <1>3, <1>4

LEMMA DeviceFilters ==
    ASSUME StreamInv, FilterInv,
           \/ Read \/ usb_read_linux \/ usb_read_linux_bin \/ can_read_linux \/ Message \/ DatagramDone
           \/ Fetch \/ FetchedEvent \/ FetchDone
    PROVE  FilterInv'
<1>1. /\ TypeOK /\ h \in HandleStates /\ kern \in KernelStates /\ Place /\ call \in CallStates /\ Phase
      /\ Device /\ UNCHANGED hd /\ Reader /\ h.buffer \in Seq(Packets) /\ kern.queue \in Seq(Packets)
      /\ call.todo \in Nat /\ call.nflush \in Nat
  <2>1. call.at \in {"read", "event"} /\ UNCHANGED hd /\ Reader
    BY DEF Reader, Read, usb_read_linux, usb_read_linux_bin, can_read_linux, Message, DatagramDone, Fetch,
           FetchedEvent, FetchDone
  <2>2. Device  BY <2>1, StreamFacts DEF Phase
  <2>3. QED BY <2>1, <2>2, StreamFacts
\* what the handle and the kernel can become
<1> DEFINE Same(x) == SameFilter(x) /\ x.offset = h.offset
           Quiet == Same(h') /\ kern'.filter = kern.filter /\ kern'.inflight = kern.inflight
<1>2. /\ Same(h) /\ Same(Reset(h)) /\ Same(Counted(h))
  BY <1>1, SameFacts DEF SameFilter
<1>3. ASSUME NEW x \in HandleStates, Same(x)
      PROVE  /\ Same(Counted(x)) /\ Same(Reset(x)) /\ \A b : Same([x EXCEPT !.buffer = b])
             /\ \A b : Same([x EXCEPT !.lost = b])
             /\ \A b, l : Same([x EXCEPT !.buffer = b, !.lost = l])
  <2>1. Same(Counted(x)) /\ Same(Reset(x))  BY <1>3, FieldsKept DEF SameFilter
  <2>2. \A b : Same([x EXCEPT !.buffer = b])  BY <1>3 DEF SameFilter, HandleStates
  <2>3. \A b : Same([x EXCEPT !.lost = b])  BY <1>3 DEF SameFilter, HandleStates
  <2>4. \A b, l : Same([x EXCEPT !.buffer = b, !.lost = l])  BY <1>3 DEF SameFilter, HandleStates
  <2>5. QED BY <2>1, <2>2, <2>3, <2>4
<1>4. [h EXCEPT !.buffer = <<>>] \in HandleStates  BY <1>1, EmptyType DEF HandleStates
<1>5. ASSUME NEW ps \in SUBSET Nat
      PROVE  Lost(h, ps) \in HandleStates /\ Same(Lost(h, ps)) /\ Same(Reset(Lost(h, ps)))
  <2>1. Lost(h, ps) \in HandleStates  BY <1>1, LostType
  <2>2. Same(Lost(h, ps))  BY <1>1 DEF Lost, SameFilter, HandleStates
  <2> HIDE DEF Same
  <2>3. QED BY <1>3, <2>1, <2>2
<1>6. ASSUME NEW n PROVE Left(n).filter = kern.filter /\ Left(n).inflight = kern.inflight
  BY <1>1 DEF Left, KernelStates
<1>7. Flushed.filter = kern.filter /\ Flushed.inflight = kern.inflight  BY <1>6 DEF Flushed
<1>8. ASSUME Quiet, ShownAsWanted' PROVE FilterInv'  BY <1>1, <1>8, ReadQuiet
<1>9. ASSUME Quiet, UNCHANGED last PROVE FilterInv'  BY <1>1, <1>8, <1>9, SameShown
<1> HIDE DEF Same
<1>10. CASE Read
  <2>1. kern' = kern \/ \E n \in Datagrams : kern' = Left(n)  BY <1>10 DEF Read
  <2>2. kern'.filter = kern.filter /\ kern'.inflight = kern.inflight  BY <1>6, <2>1
  <2>3. Same(h')
    <3>1. \/ h' = h \/ h' = Reset(h)
          \/ \E n \in Datagrams : \/ h' = Reset(Lost(h, {p.id : p \in Range(Taken(n))}))
                                  \/ h' = [h EXCEPT !.buffer = Taken(n)]
      BY <1>10 DEF Read, Break, AfterPoll
    <3>2. CASE h' = h \/ h' = Reset(h)  BY <1>2, <3>2
    <3>3. ASSUME NEW n \in Datagrams, \/ h' = Reset(Lost(h, {p.id : p \in Range(Taken(n))}))
                                      \/ h' = [h EXCEPT !.buffer = Taken(n)]
          PROVE  Same(h')
      <4>1. {p.id : p \in Range(Taken(n))} \in SUBSET Nat  BY <1>1, ReadLost
      <4> DEFINE ps == {p.id : p \in Range(Taken(n))}
      <4>2. h' = Reset(Lost(h, ps)) \/ h' = [h EXCEPT !.buffer = Taken(n)]  BY <3>3
      <4> HIDE DEF ps
      <4>3. ps \in SUBSET Nat  BY <4>1 DEF ps
      <4>4. QED BY <1>1, <1>2, <1>3, <1>5, <4>2, <4>3
    <3>4. QED BY <3>1, <3>2, <3>3
  <2>4. UNCHANGED last  BY <1>10 DEF Read
  <2>5. QED BY <1>9, <2>2, <2>3, <2>4
<1>11. CASE usb_read_linux \/ usb_read_linux_bin \/ can_read_linux
  <2> DEFINE p == Head(h.buffer)
             x == [h EXCEPT !.buffer = <<>>]
  <2>1. call.at = "event" /\ hd.mode \in {"text", "bin", "can"} /\ (Handed \/ Unread) /\ UNCHANGED kern
    BY <1>11 DEF usb_read_linux, usb_read_linux_bin, can_read_linux
  <2>2. ~netfilter /\ Len(h.buffer) = 1  BY <1>1, <2>1 DEF netfilter, Phase
  <2>3. p \in Packets  BY <1>1, <2>2
  <2>4. /\ \/ last' = Looked(p, DeviceShows(p)) \/ last' = [Looked(p, FALSE) EXCEPT !.excused = TRUE]
        /\ h' = x \/ h' = Counted(x)
    BY <2>1 DEF Handed, Unread
  <2>5. Same(x) /\ x \in HandleStates  BY <1>1, <1>2, <1>3, <1>4
  <2> HIDE DEF p, x
  <2>6. ShownAsWanted'  BY <1>1, <2>2, <2>3, <2>4, DeviceLooked
  <2>7. Same(h')  BY <1>3, <2>4, <2>5
  <2>8. QED BY <1>8, <2>1, <2>6, <2>7
<1>12. CASE Message
  <2> DEFINE p == Head(h.buffer)
             x == [h EXCEPT !.buffer = Tail(@)]
             y == IF DeviceShows(p) THEN Counted(x) ELSE x
  <2>1. h.buffer # <<>> /\ p \in Packets /\ netfilter  BY <1>1, <1>12 DEF Message
  <2>2. \/ /\ h' = y \/ h' = [y EXCEPT !.lost = @ \cup {p.id}]
           /\ last' = [Looked(p, DeviceShows(p)) EXCEPT !.excused = @ \/ p.bad]
        \/ h' = Lost(h, {q.id : q \in Range(h.buffer)}) /\ UNCHANGED last
    BY <1>12 DEF Message
  <2>3. kern' = kern \/ kern' = Verdict(kern, p)  BY <1>12 DEF Message
  <2>4. kern'.filter = kern.filter /\ kern'.inflight = kern.inflight
    <3> HIDE DEF p
    <3>1. QED BY <1>1, <2>3 DEF Verdict, KernelStates
  <2>5. CASE h' = Lost(h, {q.id : q \in Range(h.buffer)}) /\ UNCHANGED last
    <3>1. {q.id : q \in Range(h.buffer)} \in SUBSET Nat
      <4>1. Range(h.buffer) \subseteq Packets  BY <1>1 DEF Range
      <4>2. QED BY <4>1 DEF Packets
    <3>2. Same(h')  BY <1>5, <2>5, <3>1
    <3>3. QED BY <1>9, <2>4, <2>5, <3>2
  <2>6. CASE /\ h' = y \/ h' = [y EXCEPT !.lost = @ \cup {p.id}]
             /\ last' = [Looked(p, DeviceShows(p)) EXCEPT !.excused = @ \/ p.bad]
    <3>1. x \in HandleStates
      <4>1. h.buffer \in Bounded  BY <1>1 DEF HandleStates
      <4>2. Tail(h.buffer) \in Bounded  BY <2>1, <4>1, BoundedTail
      <4>3. QED BY <1>1, <4>2 DEF HandleStates
    <3>2. Same(x)  BY <1>1, <1>2, <1>3
    <3> HIDE DEF x
    <3>3. Same(y) /\ y \in HandleStates  BY <1>3, <3>1, <3>2, CountedType
    <3>4. ShownAsWanted'
      <4> HIDE DEF p
      <4>1. QED BY <1>1, <2>1, <2>6, DeviceLooked
    <3> HIDE DEF y
    <3>5. Same(h')  BY <1>3, <2>6, <3>3
    <3>6. QED BY <1>8, <2>4, <3>4, <3>5
  <2>7. QED BY <2>2, <2>5, <2>6
<1>13. CASE DatagramDone
  <2>1. UNCHANGED <<h, kern, last>>  BY <1>13 DEF DatagramDone
  <2>2. QED BY <1>2, <1>9, <2>1
<1>14. CASE Fetch
  <2>1. kern' = Flushed /\ UNCHANGED last /\ (h' = h \/ h' = Reset(h))  BY <1>14 DEF Fetch, Break, AfterPoll
  <2>2. QED BY <1>2, <1>7, <1>9, <2>1
<1>15. CASE FetchedEvent
  <2> DEFINE n == call.nflush - call.todo + 1
             p == kern.queue[n]
  <2>1. /\ call.at = "event" /\ hd.mode = "mapped" /\ call.todo > 0 /\ UNCHANGED kern
        /\ last' = Looked(p, DeviceShows(p)) /\ (h' = h \/ h' = Counted(h))
    BY <1>15 DEF FetchedEvent
  <2>2. call.todo <= call.nflush /\ call.nflush <= Len(kern.queue)  BY <1>1, <2>1 DEF Place, Fetching
  <2>3. n \in DOMAIN kern.queue
    <3>1. Len(kern.queue) \in Nat /\ DOMAIN kern.queue = 1 .. Len(kern.queue)  BY <1>1
    <3>2. QED BY <1>1, <2>1, <2>2, <3>1
  <2>4. p \in Packets /\ ~netfilter  BY <1>1, <2>1, <2>3 DEF netfilter
  <2> HIDE DEF p
  <2>5. ShownAsWanted'  BY <1>1, <2>1, <2>4, DeviceLooked
  <2>6. QED BY <1>2, <1>8, <2>1, <2>5
<1>16. CASE FetchDone
  <2>1. (kern' = Flushed \/ kern' = kern) /\ UNCHANGED <<h, last>>  BY <1>16 DEF FetchDone
  <2>2. QED BY <1>2, <1>7, <1>9, <2>1
<1>17. QED BY <1>10, <1>11, <1>12, <1>13, <1>14, <1>15, <1>16

-----------------------------------------------------------------------------
(* The filter changes *)

\* a step of pcap_setfilter()
LEMMA SetKeeps ==
    ASSUME StreamInv, FilterInv, UNCHANGED <<hd, last>>, ~Device => Buffered(kern') \subseteq Buffered(kern),
           h'.direction = h.direction, h'.fcode \in hd.filters \cup {NoFilter}, kern'.filter \in KernelFilters,
           SetState(call', kern', h'), Sieved(call', kern', h')
    PROVE  FilterInv'
<1>1. FilterState(call, kern, h) /\ ServingHandle  BY DEF FilterInv
<1>2. FilterState(call', kern', h')  BY <1>1 DEF FilterState
<1>3. QED BY <1>1, <1>2, SameShown, FilterNext

\* the call ends
LEMMA SetEnds ==
    ASSUME StreamInv, FilterInv, call.at \in Sets, UNCHANGED <<hd, last>>, call' = Idle,
           kern'.inflight = kern.inflight, ~Device => Buffered(kern') \subseteq Buffered(kern),
           h'.direction = h.direction, h'.fcode \in hd.filters \cup {NoFilter}, kern'.filter \in KernelFilters,
           hd.mode = "sock" => QueueSieved(kern', h'),
           mmapped /\ ~hd.cooked => RingSieved(kern', h')
    PROVE  FilterInv'
<1>1. call'.op = "none" /\ call'.at = "idle"  BY DEF Idle
<1>2. SetState(call, kern, h)  BY DEF FilterInv, FilterState
<1>3. kern.inflight # {} => hd.mode \notin {"sock", "v3"}  BY <1>2 DEF SetState
<1>4. SetState(call', kern', h')  BY <1>1, <1>3 DEF SetState, Sets, Reads, Changing
<1>5. Sieved(call', kern', h')  BY DEF Sieved
<1>6. QED BY <1>4, <1>5, SetKeeps

\* the program filters everything, and no countdown of an older filter is left
LEMMA UserlandSieved ==
    ASSUME NEW k, NEW x, x.fcode = NoFilter \/ (x.userland /\ (~x.stale => x.countdown = 0))
    PROVE  QueueSieved(k, x) /\ RingSieved(k, x)
BY DEF QueueSieved, RingSieved

\* how many frames the walk counts: the reader's ones, the kernel's own, and one more
LEMMA WalkCovers ==
    ASSUME StreamInv, mmapped, NEW n, n = Frames - (IF FreeBehind = 0 THEN 0 ELSE FreeBehind - 1)
    PROVE  /\ n \in Nat /\ n > 0 /\ Ahead(kern.pos, h.offset) < n
           /\ \A s \in Slots : n <= Ahead(s, h.offset) => kern.ring[s].pkts = <<>>
<1> DEFINE r == kern.ring
           o == h.offset
           w == kern.pos
           a == Ahead(w, o)
           at(i) == (o - 1 - i + 2 * Frames) % Frames
           free(i) == ~r[at(i)].user
           D == {i \in 1 .. Frames : \A j \in 1 .. i : free(j)}
<1>1. /\ hd.mode \in Rings /\ r \in Ring /\ w \in Slots /\ o \in Slots /\ Frames \in Nat /\ Frames > 0
      /\ a \in 0 .. Frames - 1 /\ \A s \in Slots : Ahead(s, o) \in 0 .. Frames - 1
  <2>1. hd.mode \in Rings /\ r \in Ring /\ w \in Slots /\ o \in Slots  BY StreamFacts
  <2> HIDE DEF r, w, o
  <2>2. \A s \in Slots : Ahead(s, o) \in 0 .. Frames - 1  BY <2>1, AheadFacts
  <2>3. QED BY <2>1, <2>2, CaptureAssumption
<1>2. PICK m \in Nat : InRing(hd.mode, r, w, o, h.current, last.id, m)
  BY <1>1, StreamFacts DEF Ordered
<1>3. /\ \A s \in Slots : r[s].user <=> r[w].user \/ Ahead(s, o) < a
      /\ r[w].user => w = o
      /\ \A s \in Slots : ~r[s].user /\ s # w => r[s].pkts = <<>>
  BY <1>2 DEF InRing
<1>4. FreeBehind = Cardinality(D)  BY DEF FreeBehind
\* the frame that is looked at i-th
<1>5. \A i \in 1 .. Frames : /\ at(i) \in Slots
                             /\ Ahead(at(i), o) = IF i = Frames THEN Frames - 1 ELSE Frames - 1 - i
  <2> SUFFICES ASSUME NEW i \in 1 .. Frames
               PROVE  /\ at(i) \in Slots
                      /\ Ahead(at(i), o) = IF i = Frames THEN Frames - 1 ELSE Frames - 1 - i
    OBVIOUS
  <2> DEFINE e == o - 1 - i + 2 * Frames
  <2>1. o \in Nat /\ o < Frames /\ i \in Nat /\ e \in Int  BY <1>1 DEF Slots
  <2>2. at(i) = IF o - 1 - i >= 0 THEN o - 1 - i
                ELSE IF o - 1 - i + Frames >= 0 THEN o - 1 - i + Frames ELSE o - 1 - i + 2 * Frames
    <3>1. \A b \in 0 .. Frames - 1 : /\ b % Frames = b /\ (b + Frames) % Frames = b
                                     /\ (b + 2 * Frames) % Frames = b
      BY <1>1
    <3>2. CASE o - 1 - i >= 0
      <4>1. o - 1 - i \in 0 .. Frames - 1  BY <1>1, <2>1, <3>2
      <4>2. QED BY <3>1, <3>2, <4>1
    <3>3. CASE ~(o - 1 - i >= 0) /\ o - 1 - i + Frames >= 0
      <4>1. o - 1 - i + Frames \in 0 .. Frames - 1 /\ e = (o - 1 - i + Frames) + Frames  BY <1>1, <2>1, <3>3
      <4>2. QED BY <3>1, <3>3, <4>1
    <3>4. CASE ~(o - 1 - i + Frames >= 0)
      <4>1. e \in 0 .. Frames - 1  BY <1>1, <2>1, <3>4
      <4>2. QED BY <1>1, <2>1, <3>1, <3>4, <4>1
    <3>5. QED BY <3>2, <3>3, <3>4
  <2> DEFINE b == at(i)
  <2>3. b = IF o - 1 - i >= 0 THEN o - 1 - i
            ELSE IF o - 1 - i + Frames >= 0 THEN o - 1 - i + Frames ELSE o - 1 - i + 2 * Frames
    BY <2>2
  <2> HIDE DEF b
  <2>4. /\ b \in Slots /\ Ahead(b, o) = IF i = Frames THEN Frames - 1 ELSE Frames - 1 - i
    BY <1>1, <2>1, <2>3 DEF Slots, Ahead
  <2>5. QED BY <2>4 DEF b
<1> HIDE DEF at
<1>6. ASSUME NEW d \in 0 .. Frames, D = 1 .. d PROVE FreeBehind = d
  <2>1. d \in Int /\ 1 \in Int /\ 0 <= d  BY <1>1
  <2>2. Cardinality(1 .. d) = IF 1 > d THEN 0 ELSE d - 1 + 1  BY <2>1, FS_Interval
  <2>3. Cardinality(1 .. d) = d  BY <2>1, <2>2
  <2>4. Cardinality(D) = d  BY <1>6, <2>3
  <2> HIDE DEF D
  <2>5. QED BY <1>4, <2>4
<1> HIDE DEF r, o, w, a
<1>7. CASE r[w].user
  <2>1. \A s \in Slots : r[s].user  BY <1>3, <1>7
  <2>2. ~free(1)  BY <1>1, <1>5, <2>1
  <2>3. D = 1 .. 0
    <3>1. \A i \in D : i \in Nat /\ i >= 1 /\ free(1)  BY <1>1
    <3>2. D = {}  BY <2>2, <3>1
    <3>3. QED BY <3>2
  <2>4. FreeBehind = 0  BY <1>1, <1>6, <2>3
  <2>5. n = Frames  BY <1>1, <2>4
  <2>6. QED BY <1>1, <2>5 DEF r, o, w, a
<1>8. CASE ~r[w].user /\ a = 0
  <2>1. \A s \in Slots : ~r[s].user  BY <1>1, <1>3, <1>8
  <2>2. \A i \in 1 .. Frames : free(i)  BY <1>5, <2>1
  <2>3. D = 1 .. Frames  BY <1>1, <2>2
  <2>4. FreeBehind = Frames  BY <1>1, <1>6, <2>3
  <2>5. n = 1  BY <1>1, <2>4
  <2>6. \A s \in Slots : 1 <= Ahead(s, o) => r[s].pkts = <<>>  BY <1>1, <1>3, <1>8, <2>1 DEF a
  <2>7. QED BY <1>8, <2>5, <2>6 DEF r, o, w, a
<1>9. CASE ~r[w].user /\ a # 0
  <2> DEFINE d == Frames - 1 - a
  <2>1. a \in Nat /\ a >= 1 /\ a <= Frames - 1 /\ d \in 0 .. Frames  BY <1>1, <1>9
  <2>2. ASSUME NEW i \in 1 .. Frames, i <= d PROVE free(i)
    <3>1. i # Frames /\ ~(Frames - 1 - i < a)  BY <1>1, <2>1, <2>2
    <3>2. at(i) \in Slots /\ ~(Ahead(at(i), o) < a)  BY <1>5, <3>1
    <3>3. QED BY <1>3, <1>9, <3>2
  <2>3. ~free(d + 1)
    <3>1. d + 1 \in 1 .. Frames /\ d + 1 # Frames /\ Frames - 1 - (d + 1) = a - 1  BY <1>1, <2>1
    <3>2. Ahead(at(d + 1), o) = a - 1 /\ at(d + 1) \in Slots  BY <1>5, <3>1
    <3>3. Ahead(at(d + 1), o) < a  BY <2>1, <3>2
    <3>4. QED BY <1>3, <3>2, <3>3
  <2>4. D = 1 .. d
    <3>1. ASSUME NEW i \in D PROVE i \in 1 .. d
      <4>1. i \in Nat /\ 1 <= i /\ \A j \in 1 .. i : free(j)  BY <1>1, <3>1
      <4>2. ~(d + 1 \in 1 .. i)  BY <2>3, <4>1
      <4>3. QED BY <2>1, <4>1, <4>2
    <3>2. ASSUME NEW i \in 1 .. d PROVE i \in D
      <4>1. i \in 1 .. Frames /\ \A j \in 1 .. i : j \in 1 .. Frames /\ j <= d  BY <1>1, <2>1
      <4>2. QED BY <2>2, <4>1
    <3>3. QED BY <3>1, <3>2
  <2>5. FreeBehind = d  BY <1>6, <2>1, <2>4
  <2> HIDE DEF D
  <2>6. n = IF d = 0 THEN Frames ELSE a + 2  BY <1>1, <2>1, <2>5
  <2>7. n \in Nat /\ n > 0 /\ a < n  BY <1>1, <2>1, <2>6
  <2>8. ASSUME NEW s \in Slots, n <= Ahead(s, o) PROVE r[s].pkts = <<>>
    <3>1. Ahead(s, o) \in 0 .. Frames - 1  BY <1>1
    <3>2. ~(Ahead(s, o) < a) /\ Ahead(s, o) # a  BY <1>1, <2>1, <2>7, <2>8, <3>1
    <3>3. s # w /\ ~r[s].user  BY <1>3, <1>9, <3>2 DEF a
    <3>4. QED BY <1>3, <3>3
  <2>9. QED BY <2>7, <2>8 DEF r, o, w, a
<1>10. QED BY <1>7, <1>8, <1>9

LEMMA BufferedSame ==
    ASSUME NEW k, NEW y, y.queue = k.queue, y.ring = k.ring, y.inflight = k.inflight
    PROVE  Buffered(y) = Buffered(k)
BY DEF Buffered

LEMMA SetterFilters ==
    ASSUME StreamInv, FilterInv, Setter
    PROVE  FilterInv'
<1>1. h \in HandleStates /\ kern \in KernelStates /\ call \in CallStates /\ TypeOK /\ h.countdown \in Nat
  BY StreamFacts DEF HandleStates
<1>2. call.at \in Sets /\ UNCHANGED <<hd, last>>
  BY DEF Setter, Program, Install, Total, Drain, Attach, Userland, Walk, Sets
<1>3. FilterState(call, kern, h) /\ SetState(call, kern, h) /\ Sieved(call, kern, h) /\ ServingHandle
  BY DEF FilterInv, FilterState
<1>4. /\ call.op = "setfilter" /\ call.f \in hd.filters /\ call.f \in Filters
      /\ (call.at = "program" <=> Device) /\ h.fcode \in hd.filters \cup {NoFilter}
      /\ kern.filter \in KernelFilters
      /\ (kern.inflight # {} => hd.mode \notin {"sock", "v3"})
  BY <1>1, <1>2, <1>3, HandleType DEF SetState, FilterState
<1>5. h.countdown > 0 \/ h.countdown = 0  BY <1>1
<1>6. NoFilter \in KernelFilters /\ TotalFilter \in KernelFilters /\ fix_program(call.f) \in KernelFilters
  BY <1>4 DEF KernelFilters
<1>7. ~Device => hd.mode = "sock" \/ mmapped  BY DEF Device
<1>8. ~(mmapped /\ Device) /\ ~(hd.mode = "sock" /\ Device) /\ ~(mmapped /\ hd.mode = "sock")
  BY DEF Device, mmapped
\* the packets stay where they are
<1> DEFINE Quiet(k) == k.queue = kern.queue /\ k.ring = kern.ring /\ k.inflight = kern.inflight /\ k.pos = kern.pos
<1>9. Quiet(kern) /\ \A f : Quiet([kern EXCEPT !.filter = f]) /\ [kern EXCEPT !.filter = f].filter = f
  BY <1>1 DEF KernelStates
<1>10. ASSUME NEW k, Quiet(k) PROVE Buffered(k) = Buffered(kern)  BY <1>10, BufferedSame
<1>11. ASSUME NEW a, At(a) PROVE /\ call'.at = a /\ call'.op = call.op /\ call'.f = call.f
                                 /\ call'.total = call.total
  BY <1>1, <1>11 DEF At, CallStates
\* the call goes on at another place
<1>12. ASSUME call'.op = call.op, call'.f = call.f, call'.at \in Changing, Quiet(kern'), ~Device,
              kern'.filter \in KernelFilters, h'.direction = h.direction, h'.fcode = call.f, ~h'.stale,
              call'.at # "walk" => h'.userland,
              call'.at \in {"total", "drain", "attach"} => CanFix(call.f),
              call'.at = "walk" => mmapped /\ kern'.filter = fix_program(call.f),
              hd.mode = "sock" /\ ~h'.bogus /\ call'.at \in {"drain", "attach"} => kern'.filter = TotalFilter,
              hd.mode = "sock" /\ ~h'.bogus /\ call'.at = "attach" => kern.queue = <<>>
       PROVE  FilterInv'
  <2>1. SetState(call', kern', h')
    <3>1. call'.at \in Sets /\ call'.at # "program" /\ call'.at \notin Reads
      BY <1>12 DEF Changing, Sets, Reads
    <3>2. QED BY <1>4, <1>12, <3>1 DEF SetState
  <2>2. Sieved(call', kern', h')
    <3>1. hd.mode = "sock" => QueueSieved(kern', h')  BY <1>8, <1>12 DEF QueueSieved
    <3>2. QED BY <1>12, <3>1 DEF Sieved
  <2>3. Buffered(kern') = Buffered(kern)  BY <1>10, <1>12
  <2>4. QED BY <1>2, <1>4, <1>12, <2>1, <2>2, <2>3, SetKeeps
\* the call ends, and the program filters
<1>13. ASSUME call' = Idle, Quiet(kern'), kern'.filter \in KernelFilters, h'.direction = h.direction,
              h'.fcode \in hd.filters \cup {NoFilter},
              \/ Device \/ h'.fcode = NoFilter
              \/ h'.userland /\ (h'.stale \/ h'.countdown = 0)
       PROVE  FilterInv'
  <2>1. ~Device => QueueSieved(kern', h') /\ RingSieved(kern', h')
    <3>1. ~Device => h'.fcode = NoFilter \/ (h'.userland /\ (~h'.stale => h'.countdown = 0))  BY <1>13
    <3>2. QED BY <3>1, UserlandSieved
  <2>2. Buffered(kern') = Buffered(kern) /\ kern'.inflight = kern.inflight  BY <1>10, <1>13
  <2>3. QED BY <1>2, <1>8, <1>13, <2>1, <2>2, SetEnds
<1>14. CASE Program
  <2>1. /\ call.at = "program" /\ call' = Idle /\ UNCHANGED kern
        /\ \/ h' = [h EXCEPT !.stale = TRUE] \/ h' = [h EXCEPT !.fcode = call.f]
           \/ h' = [h EXCEPT !.fcode = NoFilter]
    BY <1>14 DEF Program, Finish
  <2>2. h'.direction = h.direction /\ h'.fcode \in hd.filters \cup {NoFilter}
    BY <1>1, <1>4, <2>1 DEF HandleStates
  <2>3. QED BY <1>4, <1>9, <1>13, <2>1, <2>2
<1>15. CASE Install
  <2>1. call.at = "install" /\ UNCHANGED kern /\ ~Device  BY <1>4, <1>15 DEF Install
  <2>2. \/ call' = Idle /\ h' = [h EXCEPT !.fcode = NoFilter]
        \/ /\ call' = Idle
           /\ h' = [h EXCEPT !.fcode = call.f, !.userland = TRUE, !.stale = h.countdown > 0]
        \/ /\ h' = [h EXCEPT !.fcode = call.f, !.userland = TRUE, !.stale = FALSE, !.bogus = FALSE]
           /\ At(IF call.f.len > USHRT_MAX \/ ~CanFix(call.f) THEN "userland" ELSE "total")
    BY <1>15 DEF Install, Finish
  <2>3. CASE call' = Idle /\ h' = [h EXCEPT !.fcode = NoFilter]
    <3>1. h'.direction = h.direction /\ h'.fcode = NoFilter  BY <1>1, <2>3 DEF HandleStates
    <3>2. QED BY <1>4, <1>9, <1>13, <2>1, <2>3, <3>1
  <2>4. CASE /\ call' = Idle
             /\ h' = [h EXCEPT !.fcode = call.f, !.userland = TRUE, !.stale = h.countdown > 0]
    <3>1. /\ h'.direction = h.direction /\ h'.fcode = call.f /\ h'.userland /\ h'.countdown = h.countdown
          /\ h'.stale = (h.countdown > 0)
      BY <1>1, <2>4 DEF HandleStates
    <3>3. h'.stale \/ h'.countdown = 0  BY <1>5, <3>1
    <3>4. QED BY <1>4, <1>9, <1>13, <2>1, <2>4, <3>1, <3>3
  <2>5. CASE /\ h' = [h EXCEPT !.fcode = call.f, !.userland = TRUE, !.stale = FALSE, !.bogus = FALSE]
             /\ At(IF call.f.len > USHRT_MAX \/ ~CanFix(call.f) THEN "userland" ELSE "total")
    <3>1. /\ h'.direction = h.direction /\ h'.fcode = call.f /\ h'.userland /\ ~h'.stale
      BY <1>1, <2>5 DEF HandleStates
    <3>2. /\ call'.op = call.op /\ call'.f = call.f
          /\ call'.at = "userland" \/ (call'.at = "total" /\ CanFix(call.f))
      BY <1>11, <2>5
    <3>3. QED BY <1>4, <1>9, <1>12, <2>1, <3>1, <3>2 DEF Changing
  <2>6. QED BY <2>2, <2>3, <2>4, <2>5
\* what pcap_setfilter() has behind it after install_bpf_program()
<1>16. call.at \in Changing => ~Device /\ h.fcode = call.f /\ ~h.stale /\ (call.at # "walk" => h.userland)
  BY <1>3, <1>4 DEF SetState, Changing
<1>17. call.at \in {"total", "drain", "attach"} => CanFix(call.f)  BY <1>3 DEF SetState
<1>18. CASE Total
  <2>1. call.at = "total"  BY <1>18 DEF Total
  <2>2. ~Device /\ h.fcode = call.f /\ ~h.stale /\ h.userland /\ CanFix(call.f)
    BY <1>16, <1>17, <2>1 DEF Changing
  <2>3. \/ /\ kern' = [kern EXCEPT !.filter = TotalFilter] /\ UNCHANGED h
           /\ call' = [call EXCEPT !.at = "drain", !.total = TRUE]
        \/ UNCHANGED kern /\ At("attach") /\ h' = [h EXCEPT !.bogus = ~mmapped]
    BY <1>18 DEF Total
  <2>4. CASE /\ kern' = [kern EXCEPT !.filter = TotalFilter] /\ UNCHANGED h
             /\ call' = [call EXCEPT !.at = "drain", !.total = TRUE]
    <3>1. call'.op = call.op /\ call'.f = call.f /\ call'.at = "drain"  BY <1>1, <2>4 DEF CallStates
    <3>2. QED BY <1>6, <1>9, <1>12, <2>2, <2>4, <3>1 DEF Changing
  <2>5. CASE UNCHANGED kern /\ At("attach") /\ h' = [h EXCEPT !.bogus = ~mmapped]
    <3>1. call'.op = call.op /\ call'.f = call.f /\ call'.at = "attach"  BY <1>11, <2>5
    <3>2. /\ h'.fcode = h.fcode /\ h'.stale = h.stale /\ h'.userland = h.userland
          /\ h'.direction = h.direction /\ (hd.mode = "sock" => h'.bogus)
      BY <1>1, <1>8, <2>5 DEF HandleStates
    <3>3. QED BY <1>4, <1>9, <1>12, <2>2, <2>5, <3>1, <3>2 DEF Changing
  <2>6. QED BY <2>3, <2>4, <2>5
<1>19. CASE Drain
  <2>1. call.at = "drain"  BY <1>19 DEF Drain
  <2>2. ~Device /\ h.fcode = call.f /\ ~h.stale /\ h.userland /\ CanFix(call.f)
    BY <1>16, <1>17, <2>1 DEF Changing
  <2>3. hd.mode = "sock" /\ ~h.bogus => kern.filter = TotalFilter  BY <1>3, <2>1 DEF SetState
  <2>4. \/ kern.queue # <<>> /\ kern' = [kern EXCEPT !.queue = Tail(@)] /\ UNCHANGED <<h, call>>
        \/ kern.queue = <<>> /\ At("attach") /\ UNCHANGED <<h, kern>>
        \/ At("attach") /\ UNCHANGED kern /\ h' = [h EXCEPT !.bogus = ~mmapped]
        \/ kern' = [kern EXCEPT !.filter = NoFilter] /\ call' = Idle /\ h' = [h EXCEPT !.stale = h.countdown > 0]
    BY <1>19 DEF Drain, Finish
  <2>5. CASE kern.queue # <<>> /\ kern' = [kern EXCEPT !.queue = Tail(@)] /\ UNCHANGED <<h, call>>
    <3> DEFINE q == kern.queue
    <3>1. /\ kern'.filter = kern.filter /\ kern'.inflight = kern.inflight /\ kern'.queue = Tail(q)
          /\ kern'.ring = kern.ring
      BY <1>1, <2>5 DEF KernelStates
    <3>2. \A i \in DOMAIN Tail(q) : i + 1 \in DOMAIN q /\ Tail(q)[i] = q[i + 1]
      <4>1. q \in Seq(Packets) /\ q # <<>>  BY <2>5, StreamFacts
      <4> HIDE DEF q
      <4>2. QED BY <4>1
    <3>3. Buffered(kern') \subseteq Buffered(kern)  BY <3>1, <3>2 DEF Buffered
    <3>4. SetState(call', kern', h')
      <4>1. SetState(call, kern', h)  BY <1>3, <2>1, <3>1 DEF SetState
      <4>2. QED BY <2>5, <4>1
    <3>5. Sieved(call', kern', h')
      <4>1. QueueSieved(kern', h)  BY <2>2 DEF QueueSieved
      <4>2. QED BY <2>1, <2>5, <4>1 DEF Sieved, Changing
    <3>6. QED BY <1>2, <1>4, <2>5, <3>1, <3>3, <3>4, <3>5, SetKeeps
  <2>6. CASE kern.queue = <<>> /\ At("attach") /\ UNCHANGED <<h, kern>>
    <3>1. call'.op = call.op /\ call'.f = call.f /\ call'.at = "attach"  BY <1>11, <2>6
    <3>2. QED BY <1>4, <1>9, <1>12, <2>2, <2>3, <2>6, <3>1 DEF Changing
  <2>7. CASE At("attach") /\ UNCHANGED kern /\ h' = [h EXCEPT !.bogus = ~mmapped]
    <3>1. call'.op = call.op /\ call'.f = call.f /\ call'.at = "attach"  BY <1>11, <2>7
    <3>2. /\ h'.fcode = h.fcode /\ h'.stale = h.stale /\ h'.userland = h.userland
          /\ h'.direction = h.direction /\ (hd.mode = "sock" => h'.bogus)
      BY <1>1, <1>8, <2>7 DEF HandleStates
    <3>3. QED BY <1>4, <1>9, <1>12, <2>2, <2>7, <3>1, <3>2 DEF Changing
  <2>8. CASE kern' = [kern EXCEPT !.filter = NoFilter] /\ call' = Idle /\ h' = [h EXCEPT !.stale = h.countdown > 0]
    <3>1. /\ h'.fcode = h.fcode /\ h'.userland = h.userland /\ h'.direction = h.direction
          /\ h'.countdown = h.countdown /\ h'.stale = (h.countdown > 0)
      BY <1>1, <2>8 DEF HandleStates
    <3>2. h'.stale \/ h'.countdown = 0  BY <1>5, <3>1
    <3>3. Quiet(kern') /\ kern'.filter = NoFilter  BY <1>9, <2>8
    <3>4. QED BY <1>4, <1>6, <1>13, <2>2, <2>8, <3>1, <3>2, <3>3
  <2>9. QED BY <2>4, <2>5, <2>6, <2>7, <2>8
<1>20. CASE Attach
  <2>1. call.at = "attach"  BY <1>20 DEF Attach
  <2>2. ~Device /\ h.fcode = call.f /\ ~h.stale /\ h.userland /\ CanFix(call.f)
    BY <1>16, <1>17, <2>1 DEF Changing
  <2>3. hd.mode = "sock" /\ ~h.bogus => kern.queue = <<>>  BY <1>3, <2>1 DEF SetState
  <2>4. \/ /\ kern' = [kern EXCEPT !.filter = fix_program(call.f)] /\ h' = [h EXCEPT !.userland = FALSE]
           /\ IF mmapped THEN At("walk") ELSE call' = Idle
        \/ /\ kern' = [kern EXCEPT !.filter = NoFilter] \/ kern' = kern
           /\ At("userland") /\ UNCHANGED h
    BY <1>20 DEF Attach, Finish
  <2>5. CASE /\ kern' = [kern EXCEPT !.filter = fix_program(call.f)] /\ h' = [h EXCEPT !.userland = FALSE]
             /\ IF mmapped THEN At("walk") ELSE call' = Idle
    <3>1. /\ h'.fcode = h.fcode /\ h'.userland = FALSE /\ h'.direction = h.direction
          /\ h'.countdown = h.countdown /\ h'.stale = h.stale /\ h'.bogus = h.bogus
      BY <1>1, <2>5 DEF HandleStates
    <3>2. Quiet(kern') /\ kern'.filter = fix_program(call.f)  BY <1>9, <2>5
    <3>3. CASE mmapped
      <4>1. call'.op = call.op /\ call'.f = call.f /\ call'.at = "walk"  BY <1>11, <2>5, <3>3
      <4>2. QED BY <1>6, <1>8, <1>12, <2>2, <3>1, <3>2, <3>3, <4>1 DEF Changing
    <3>4. CASE ~mmapped
      <4>1. call' = Idle /\ hd.mode = "sock"  BY <1>7, <2>2, <2>5, <3>4
      <4>2. QueueSieved(kern', h')
        <5>1. ~h.bogus => kern'.queue = <<>>  BY <2>3, <3>2, <4>1
        <5>2. QED BY <2>2, <3>1, <3>2, <5>1, EmptyFacts DEF QueueSieved
      <4>3. Buffered(kern') = Buffered(kern) /\ kern'.inflight = kern.inflight  BY <1>10, <3>2
      <4>4. QED BY <1>2, <1>4, <1>6, <2>2, <3>1, <3>2, <3>4, <4>1, <4>2, <4>3, SetEnds
    <3>5. QED BY <3>3, <3>4
  <2>6. CASE /\ kern' = [kern EXCEPT !.filter = NoFilter] \/ kern' = kern
             /\ At("userland") /\ UNCHANGED h
    <3>1. call'.op = call.op /\ call'.f = call.f /\ call'.at = "userland"  BY <1>11, <2>6
    <3>2. Quiet(kern') /\ kern'.filter \in KernelFilters  BY <1>4, <1>6, <1>9, <2>6
    <3>3. QED BY <1>12, <2>2, <2>6, <3>1, <3>2 DEF Changing
  <2>7. QED BY <2>4, <2>5, <2>6
<1>21. CASE Userland
  <2>1. /\ call.at = "userland" /\ kern' = [kern EXCEPT !.filter = NoFilter] /\ call' = Idle
        /\ h' = [h EXCEPT !.stale = h.countdown > 0]
    BY <1>21 DEF Userland, Finish
  <2>2. h.fcode = call.f /\ h.userland  BY <1>16, <2>1 DEF Changing
  <2>3. /\ h'.fcode = h.fcode /\ h'.userland = h.userland /\ h'.direction = h.direction
        /\ h'.countdown = h.countdown /\ h'.stale = (h.countdown > 0)
    BY <1>1, <2>1 DEF HandleStates
  <2>4. h'.stale \/ h'.countdown = 0  BY <1>5, <2>3
  <2>5. Quiet(kern') /\ kern'.filter = NoFilter  BY <1>9, <2>1
  <2>6. QED BY <1>4, <1>6, <1>13, <2>1, <2>2, <2>3, <2>4, <2>5
<1>22. CASE Walk
  <2> DEFINE n == Frames - (IF FreeBehind = 0 THEN 0 ELSE FreeBehind - 1)
  <2>1. /\ call.at = "walk" /\ UNCHANGED kern /\ call' = Idle
        /\ h' = [h EXCEPT !.userland = TRUE, !.countdown = n]
    BY <1>22 DEF Walk, Finish
  <2>2. mmapped /\ kern.filter = fix_program(call.f) /\ h.fcode = call.f
    BY <1>3, <2>1 DEF SetState, Changing
  <2>3. /\ n \in Nat /\ n > 0 /\ Ahead(kern.pos, h.offset) < n
        /\ \A s \in Slots : n <= Ahead(s, h.offset) => kern.ring[s].pkts = <<>>
    BY <2>2, WalkCovers
  <2> HIDE DEF n
  <2>4. /\ h'.fcode = h.fcode /\ h'.userland = TRUE /\ h'.direction = h.direction
        /\ h'.countdown = n /\ h'.offset = h.offset
    BY <1>1, <2>1 DEF HandleStates
  <2>5. ~hd.cooked => RingSieved(kern', h')
    <3>1. SUFFICES ASSUME ~hd.cooked PROVE RingSieved(kern, h')
      BY <2>1
    <3>2. kern.filter = h'.fcode  BY <1>4, <2>2, <2>4, <3>1, FixSame
    <3>3. \A s \in Slots : h'.countdown <= Ahead(s, h'.offset) =>
                \A i \in DOMAIN kern.ring[s].pkts : Accepts(h'.fcode, kern.ring[s].pkts[i], FALSE)
      BY <2>3, <2>4, EmptyFacts
    <3>4. Ahead(kern.pos, h'.offset) < h'.countdown  BY <2>3, <2>4
    <3>5. h'.userland <=> h'.countdown > 0  BY <2>3, <2>4
    <3>6. QED BY <3>2, <3>3, <3>4, <3>5 DEF RingSieved
  <2>6. kern'.filter = kern.filter /\ kern'.inflight = kern.inflight /\ Buffered(kern') = Buffered(kern)  BY <2>1
  <2>7. QED BY <1>2, <1>4, <1>8, <2>1, <2>2, <2>4, <2>5, <2>6, SetEnds
<1>23. QED BY <1>14, <1>15, <1>18, <1>19, <1>20, <1>21, <1>22 DEF Setter

-----------------------------------------------------------------------------
(* Packets arrive *)

\* the packet that is stored is the only one that is new
LEMMA StoredSlots ==
    ASSUME NEW k \in KernelStates, NEW p \in Packets, NEW y, y = Stored(k, p), hd.mode \in Modes
    PROVE  /\ y.filter = k.filter /\ y.inflight = k.inflight
           /\ \A i \in DOMAIN y.queue : y.queue[i] = p \/ (i \in DOMAIN k.queue /\ y.queue[i] = k.queue[i])
           /\ \A s \in Slots : \A i \in DOMAIN y.ring[s].pkts :
                \/ i \in DOMAIN k.ring[s].pkts /\ y.ring[s].pkts[i] = k.ring[s].pkts[i]
                \/ y.ring[s].pkts[i] = p /\ (hd.mode # "v3" => s = k.pos)
<1> DEFINE w == k.pos
           t == (w + 1) % Frames
           full == Len(k.ring[w].pkts) = BlockCap
           c == [k EXCEPT !.packets = @ + 1]
           r == k.ring
<1>1. /\ w \in Slots /\ t \in Slots /\ k.queue \in Seq(Packets) /\ r \in Ring
      /\ \A s \in Slots : r[s].pkts \in Seq(Packets)
  BY NextSlot DEF KernelStates, Ring, Bounded
<1>2. c.ring = r /\ c.queue = k.queue /\ c.pos = w /\ c.inflight = k.inflight /\ c.filter = k.filter /\ c \in KernelStates
  BY DEF KernelStates
<1>3. \A q \in Seq(Packets) : \A i \in DOMAIN Append(q, p) :
         Append(q, p)[i] = p \/ (i \in DOMAIN q /\ Append(q, p)[i] = q[i])
  OBVIOUS
<1>4. \A i \in DOMAIN <<p>> : <<p>>[i] = p  OBVIOUS
<1>5. ASSUME y.filter = k.filter, y.inflight = k.inflight, y.queue = k.queue,
             \A s \in Slots : \/ y.ring[s].pkts = r[s].pkts
                              \/ y.ring[s].pkts = <<p>> /\ (hd.mode # "v3" => s = w)
                              \/ y.ring[s].pkts = Append(r[s].pkts, p) /\ hd.mode = "v3"
      PROVE  /\ y.filter = k.filter /\ y.inflight = k.inflight
             /\ \A i \in DOMAIN y.queue : y.queue[i] = p \/ (i \in DOMAIN k.queue /\ y.queue[i] = k.queue[i])
             /\ \A s \in Slots : \A i \in DOMAIN y.ring[s].pkts :
                  \/ i \in DOMAIN k.ring[s].pkts /\ y.ring[s].pkts[i] = k.ring[s].pkts[i]
                  \/ y.ring[s].pkts[i] = p /\ (hd.mode # "v3" => s = k.pos)
  <2>1. ASSUME NEW s \in Slots, NEW i \in DOMAIN y.ring[s].pkts
        PROVE  \/ i \in DOMAIN k.ring[s].pkts /\ y.ring[s].pkts[i] = k.ring[s].pkts[i]
               \/ y.ring[s].pkts[i] = p /\ (hd.mode # "v3" => s = k.pos)
    <3>1. CASE y.ring[s].pkts = r[s].pkts  BY <2>1, <3>1
    <3>2. CASE y.ring[s].pkts = <<p>> /\ (hd.mode # "v3" => s = w)  BY <1>4, <2>1, <3>2
    <3>3. CASE y.ring[s].pkts = Append(r[s].pkts, p) /\ hd.mode = "v3"  BY <1>1, <1>3, <2>1, <3>3
    <3>4. QED BY <1>5, <3>1, <3>2, <3>3
  <2>2. QED BY <1>5, <2>1
<1> HIDE DEF w, t, c, r
<1>6. CASE ~mmapped /\ Len(k.queue) < BlockCap
  <2>1. y = [c EXCEPT !.queue = Append(@, p), !.held = IF hd.mode = "nfqueue" THEN @ \cup {p.id} ELSE @]
    BY <1>6 DEF Stored, mmapped, c
  <2>2. y.queue = Append(k.queue, p) /\ y.inflight = k.inflight /\ y.filter = k.filter /\ y.ring = r
    BY <1>2, <2>1 DEF KernelStates
  <2>3. QED BY <1>1, <1>3, <2>2 DEF r
<1>7. CASE IF mmapped THEN r[w].user ELSE ~(Len(k.queue) < BlockCap)
  <2>1. y = Dropped(k)  BY <1>7 DEF Stored, mmapped, w, r
  <2>2. y.queue = k.queue /\ y.inflight = k.inflight /\ y.filter = k.filter /\ y.ring = r
    BY <2>1 DEF Dropped, KernelStates, r
  <2>3. QED BY <1>5, <2>2
<1>8. CASE mmapped /\ hd.mode # "v3" /\ ~r[w].user
  <2>1. y = [c EXCEPT !.ring[w] = [user |-> TRUE, pkts |-> <<p>>], !.pos = t]
    BY <1>8 DEF Stored, mmapped, c, w, t, r
  <2>2. /\ y.queue = k.queue /\ y.inflight = k.inflight /\ y.filter = k.filter
        /\ y.ring = [r EXCEPT ![w] = [user |-> TRUE, pkts |-> <<p>>]]
    BY <1>2, <2>1 DEF KernelStates
  <2>3. \A s \in Slots : y.ring[s].pkts = r[s].pkts \/ (y.ring[s].pkts = <<p>> /\ s = w)
    BY <1>1, <2>2 DEF Ring
  <2>4. QED BY <1>5, <2>2, <2>3
<1>9. CASE hd.mode = "v3" /\ ~r[w].user /\ ~full
  <2>1. y = [c EXCEPT !.ring[w].pkts = Append(@, p)]  BY <1>9 DEF Stored, mmapped, c, w, r
  <2>2. /\ y.queue = k.queue /\ y.inflight = k.inflight /\ y.filter = k.filter
        /\ y.ring = [r EXCEPT ![w].pkts = Append(@, p)]
    BY <1>2, <2>1 DEF KernelStates
  <2>3. \A s \in Slots : y.ring[s].pkts = r[s].pkts \/ y.ring[s].pkts = Append(r[s].pkts, p)
    BY <1>1, <2>2 DEF Ring
  <2>4. QED BY <1>5, <1>9, <2>2, <2>3
<1>10. CASE hd.mode = "v3" /\ ~r[w].user /\ full
  <2> DEFINE closed == [c EXCEPT !.ring[w].user = TRUE, !.pos = t]
             b == [r EXCEPT ![w].user = TRUE]
  <2>1. /\ closed.ring = b /\ closed.queue = k.queue /\ closed.inflight = k.inflight
        /\ closed.filter = k.filter /\ DOMAIN closed = DOMAIN k
    BY <1>2 DEF KernelStates
  <2>2. b \in Ring /\ \A s \in Slots : b[s].pkts = r[s].pkts  BY <1>1 DEF Ring
  <2> HIDE DEF b
  <2>3. CASE ~r[t].user /\ w # t
    <3>1. y = [closed EXCEPT !.ring[t].pkts = <<p>>]  BY <1>10, <2>3 DEF Stored, mmapped, c, w, t, r
    <3> HIDE DEF closed
    <3>2. /\ y.queue = k.queue /\ y.inflight = k.inflight /\ y.filter = k.filter
          /\ y.ring = [b EXCEPT ![t].pkts = <<p>>]
      BY <2>1, <3>1 DEF KernelStates
    <3>3. \A s \in Slots : y.ring[s].pkts = r[s].pkts \/ y.ring[s].pkts = <<p>>
      BY <1>1, <2>2, <3>2 DEF Ring
    <3>4. QED BY <1>5, <1>10, <3>2, <3>3
  <2>4. CASE ~(~r[t].user /\ w # t)
    <3>1. y = [closed EXCEPT !.drops = @ + 1]  BY <1>10, <2>4 DEF Stored, mmapped, c, w, t, r
    <3> HIDE DEF closed
    <3>2. y.queue = k.queue /\ y.inflight = k.inflight /\ y.filter = k.filter /\ y.ring = b
      BY <2>1, <3>1 DEF KernelStates
    <3>3. QED BY <1>5, <2>2, <3>2
  <2>5. QED BY <2>3, <2>4
<1>11. QED BY <1>6, <1>7, <1>8, <1>9, <1>10 DEF mmapped

\* a step that leaves the filter of the program and the packets alone
LEMMA OutsideFilters ==
    ASSUME StreamInv, FilterInv, UNCHANGED <<hd, last>>,
           kern'.filter = kern.filter, kern'.queue = kern.queue, kern'.inflight = kern.inflight,
           \A s \in Slots : kern'.ring[s].pkts = kern.ring[s].pkts,
           kern'.pos = kern.pos \/ kern.inflight = {},
           h'.fcode = h.fcode, h'.stale = h.stale, h'.bogus = h.bogus, h'.userland = h.userland,
           h'.countdown = h.countdown, h'.offset = h.offset, netfilter => h'.direction = h.direction,
           SetState(call', kern', h'), call'.at \notin Changing => call.at \notin Changing
    PROVE  FilterInv'
<1>1. FilterState(call, kern, h) /\ ServingHandle /\ Sieved(call, kern, h)  BY DEF FilterInv, FilterState
<1>2. Buffered(kern') = Buffered(kern)  BY DEF Buffered
<1>3. QueueSieved(kern, h) => QueueSieved(kern', h')  BY DEF QueueSieved
<1>4. RingSieved(kern, h) => RingSieved(kern', h')  BY DEF RingSieved
<1>5. Sieved(call', kern', h')  BY <1>1, <1>3, <1>4 DEF Sieved
<1>6. FilterState(call', kern', h')  BY <1>1, <1>2, <1>5 DEF FilterState
<1>7. QED BY <1>1, <1>6, SameShown, FilterNext

\* the same while the call stays where it is
LEMMA OutsideCalls ==
    ASSUME StreamInv, FilterInv, UNCHANGED <<hd, last, call>>,
           kern'.filter = kern.filter, kern'.queue = kern.queue, kern'.inflight = kern.inflight,
           \A s \in Slots : kern'.ring[s].pkts = kern.ring[s].pkts,
           kern'.pos = kern.pos \/ kern.inflight = {},
           h'.fcode = h.fcode, h'.stale = h.stale, h'.bogus = h.bogus, h'.userland = h.userland,
           h'.countdown = h.countdown, h'.offset = h.offset, netfilter => h'.direction = h.direction
    PROVE  FilterInv'
<1>1. SetState(call, kern, h)  BY DEF FilterInv, FilterState
<1>2. SetState(call, kern', h')  BY <1>1 DEF SetState
<1>3. SetState(call', kern', h')  BY <1>2
<1>4. QED BY <1>3, OutsideFilters

\* a packet that the kernel's filter accepts now, or accepted when it was on its way, is stored
LEMMA StoreFilters ==
    ASSUME StreamInv, FilterInv, UNCHANGED <<hd, h, call, last>>,
           NEW k \in KernelStates, k.filter = kern.filter, k.queue = kern.queue, k.ring = kern.ring,
           k.pos = kern.pos, k.inflight = {}, NEW p \in Packets, kern' = Stored(k, p), ~Device => Sound(p),
           Accepts(kern.filter, p, FALSE) \/ (p \in kern.inflight /\ hd.mode \notin {"sock", "v3"})
    PROVE  FilterInv'
<1>1. FilterState(call, kern, h) /\ ServingHandle /\ SetState(call, kern, h) /\ Sieved(call, kern, h)
  BY DEF FilterInv, FilterState
<1>2. /\ hd.mode \in Modes /\ h.countdown \in Nat /\ h.offset \in Slots /\ kern.pos \in Slots
      /\ Ahead(kern.pos, h.offset) \in Nat
  <2>1. hd.mode \in Modes /\ h.countdown \in Nat /\ h.offset \in Slots /\ kern.pos \in Slots
    BY StreamFacts DEF HandleStates
  <2>2. QED BY <2>1, AheadFacts
<1>3. /\ kern'.filter = kern.filter /\ kern'.inflight = {}
      /\ \A i \in DOMAIN kern'.queue :
           kern'.queue[i] = p \/ (i \in DOMAIN kern.queue /\ kern'.queue[i] = kern.queue[i])
      /\ \A s \in Slots : \A i \in DOMAIN kern'.ring[s].pkts :
           \/ i \in DOMAIN kern.ring[s].pkts /\ kern'.ring[s].pkts[i] = kern.ring[s].pkts[i]
           \/ kern'.ring[s].pkts[i] = p /\ (hd.mode # "v3" => s = kern.pos)
  BY <1>2, StoredSlots
<1>4. Buffered(kern') \subseteq Buffered(kern) \cup {p}  BY <1>3 DEF Buffered
<1>5. SetState(call', kern', h')
  <2>1. ~(hd.mode = "sock" /\ ~h.bogus /\ call.at = "attach")
    <3>1. SUFFICES ASSUME hd.mode = "sock", kern.filter = TotalFilter PROVE FALSE  BY <1>1 DEF SetState
    <3>2. Accepts(TotalFilter, p, FALSE)  BY <3>1
    <3>3. TotalFilter # NoFilter  BY DEF TotalFilter, NoFilter
    <3>4. QED BY <3>2, <3>3 DEF Accepts
  <2>2. SetState(call, kern', h)  BY <1>1, <1>3, <2>1 DEF SetState
  <2>3. QED BY <2>2
<1>6. hd.mode = "sock" => QueueSieved(kern', h)
  <2>1. SUFFICES ASSUME hd.mode = "sock" PROVE QueueSieved(kern', h)  OBVIOUS
  <2>2. QueueSieved(kern, h) /\ Accepts(kern.filter, p, FALSE)  BY <1>1, <2>1 DEF Sieved
  <2>3. QED BY <1>3, <2>2 DEF QueueSieved
<1>7. ASSUME mmapped, RingSieved(kern, h) PROVE RingSieved(kern', h)
  <2>1. SUFFICES ASSUME ~h.stale, h.fcode # NoFilter, ~(h.userland /\ h.countdown = 0)
                 PROVE  /\ kern'.filter = h.fcode /\ (h.userland <=> h.countdown > 0)
                        /\ \A s \in Slots : h.countdown <= Ahead(s, h.offset) =>
                             \A i \in DOMAIN kern'.ring[s].pkts : Accepts(h.fcode, kern'.ring[s].pkts[i], FALSE)
    BY <1>3 DEF RingSieved
  <2>2. /\ kern.filter = h.fcode /\ (h.userland <=> h.countdown > 0)
        /\ \A s \in Slots : h.countdown <= Ahead(s, h.offset) =>
             \A i \in DOMAIN kern.ring[s].pkts : Accepts(h.fcode, kern.ring[s].pkts[i], FALSE)
        /\ \A q \in kern.inflight : Accepts(h.fcode, q, FALSE) \/ Ahead(kern.pos, h.offset) < h.countdown
    BY <1>7, <2>1 DEF RingSieved
  <2>3. ~(h.countdown <= Ahead(kern.pos, h.offset)) \/ ~(Ahead(kern.pos, h.offset) < h.countdown)  BY <1>2
  <2>4. ASSUME NEW s \in Slots, h.countdown <= Ahead(s, h.offset), NEW i \in DOMAIN kern'.ring[s].pkts
        PROVE  Accepts(h.fcode, kern'.ring[s].pkts[i], FALSE)
    <3>1. CASE i \in DOMAIN kern.ring[s].pkts /\ kern'.ring[s].pkts[i] = kern.ring[s].pkts[i]
      BY <2>2, <2>4, <3>1
    <3>2. CASE kern'.ring[s].pkts[i] = p /\ (hd.mode # "v3" => s = kern.pos)
      <4>1. Accepts(kern.filter, p, FALSE) \/ (p \in kern.inflight /\ hd.mode # "v3")  OBVIOUS
      <4>2. CASE Accepts(kern.filter, p, FALSE)  BY <2>2, <3>2, <4>2
      <4>3. CASE p \in kern.inflight /\ hd.mode # "v3"
        <5>1. s = kern.pos  BY <3>2, <4>3
        <5>2. h.countdown <= Ahead(kern.pos, h.offset)  BY <2>4, <5>1
        <5>3. Accepts(h.fcode, p, FALSE)  BY <2>2, <2>3, <4>3, <5>2
        <5>4. QED BY <3>2, <5>3
      <4>4. QED BY <4>1, <4>2, <4>3
    <3>3. QED BY <1>3, <2>4, <3>1, <3>2
  <2>5. QED BY <1>3, <2>2, <2>4
<1>8. Sieved(call', kern', h')  BY <1>1, <1>6, <1>7 DEF Sieved
<1>9. FilterState(call', kern', h')  BY <1>1, <1>3, <1>4, <1>5, <1>8 DEF FilterState
<1>10. QED BY <1>1, <1>9, SameShown, FilterNext

\* a packet goes through the kernel without a stop
LEMMA ReceivedFilters ==
    ASSUME StreamInv, FilterInv, UNCHANGED <<hd, h, call, last>>, NEW t \in hd.traffic, kern.inflight = {},
           kern' = Received(t)
    PROVE  FilterInv'
<1>1. TypeOK /\ kern \in KernelStates  BY StreamFacts
<1>2. /\ Arrived \in KernelStates /\ Arrived.filter = kern.filter /\ Arrived.queue = kern.queue
      /\ Arrived.ring = kern.ring /\ Arrived.pos = kern.pos /\ Arrived.inflight = {}
  BY <1>1, ReceivedType DEF Arrived, KernelStates
<1>3. CASE Passes(t)
  <2> DEFINE p == Filtered(Numbered(t), kern.filter)
  <2>1. p \in Packets /\ (~Device => Sound(p)) /\ Accepts(kern.filter, p, FALSE)
    BY <1>1, <1>3, ArrivesSound DEF FilterInv, FilterState
  <2>2. kern' = Stored(Arrived, p)  BY <1>3 DEF Received
  <2> HIDE DEF p
  <2>3. QED BY <1>2, <2>1, <2>2, StoreFilters
<1>4. CASE ~Passes(t)
  <2>1. kern' = Arrived  BY <1>4 DEF Received
  <2>2. QED BY <1>2, <2>1, OutsideCalls
<1>5. QED BY <1>3, <1>4

LEMMA KernelFiltered ==
    ASSUME StreamInv, FilterInv, Kernel \/ pcap_inject
    PROVE  FilterInv'
<1>1. /\ TypeOK /\ kern \in KernelStates /\ hd.mode \in Modes /\ UNCHANGED <<hd, h, call, last>>
      /\ kern.ring \in Ring /\ kern.pos \in Slots
  BY StreamFacts DEF Kernel, Arrive, Store, RetireBlock, pcap_inject, Do
<1>2. FilterState(call, kern, h) /\ ServingHandle /\ SetState(call, kern, h) /\ Sieved(call, kern, h)
  BY DEF FilterInv, FilterState
<1>3. kern.inflight # {} => hd.mode \notin {"sock", "v3"}  BY <1>2 DEF SetState
<1>4. CASE pcap_inject
  <2>1. PICK t \in hd.traffic : kern.inflight = {} /\ kern' = Received(t)  BY <1>4 DEF pcap_inject, Do
  <2>2. QED BY <1>1, <2>1, ReceivedFilters
<1>5. CASE Arrive
  <2>1. PICK t \in hd.traffic :
          \/ kern.inflight = {} /\ kern' = Received(t)
          \/ /\ Passes(t) /\ Cardinality(kern.inflight) < CPUs[hd.mode] /\ call.op = "setfilter"
             /\ kern' = [Arrived EXCEPT !.inflight = @ \cup {Filtered(Numbered(t), kern.filter)}]
    BY <1>5 DEF Arrive
  <2>2. CASE kern.inflight = {} /\ kern' = Received(t)  BY <1>1, <2>2, ReceivedFilters
  <2>3. CASE /\ Passes(t) /\ Cardinality(kern.inflight) < CPUs[hd.mode] /\ call.op = "setfilter"
             /\ kern' = [Arrived EXCEPT !.inflight = @ \cup {Filtered(Numbered(t), kern.filter)}]
    <3> DEFINE p == Filtered(Numbered(t), kern.filter)
    <3>1. p \in Packets /\ (~Device => Sound(p)) /\ Accepts(kern.filter, p, FALSE)
      BY <1>1, <1>2, <2>3, ArrivesSound DEF FilterState
    <3> HIDE DEF p
    <3>2. /\ kern'.filter = kern.filter /\ kern'.queue = kern.queue /\ kern'.ring = kern.ring
          /\ kern'.pos = kern.pos /\ kern'.inflight = kern.inflight \cup {p}
      BY <1>1, <2>3 DEF Arrived, KernelStates, p
    <3>3. hd.mode \notin {"sock", "v3"}
      <4>1. SUFFICES ASSUME hd.mode \in {"sock", "v3"} PROVE FALSE  OBVIOUS
      <4>2. kern.inflight = {} /\ CPUs[hd.mode] = 0  BY <1>2, <1>3, <4>1 DEF ServingHandle
      <4>3. Cardinality({}) = 0  BY FS_EmptySet
      <4>4. QED BY <2>3, <4>2, <4>3
    <3>4. Buffered(kern') \subseteq Buffered(kern) \cup {p}  BY <3>2 DEF Buffered
    <3>5. SetState(call, kern', h)
      <4>1. call.at \in Sets  BY <1>2, <2>3 DEF SetState
      <4>2. call.at \notin Reads  BY <4>1 DEF Sets, Reads
      <4>3. QED BY <1>2, <3>2, <3>3, <4>2 DEF SetState
    <3>6. RingSieved(kern, h) => RingSieved(kern', h)  BY <3>1, <3>2 DEF RingSieved
    <3>7. Sieved(call, kern', h)  BY <1>2, <3>3, <3>6 DEF Sieved
    <3>8. FilterState(call, kern', h)  BY <1>2, <3>1, <3>2, <3>4, <3>5, <3>7 DEF FilterState
    <3>9. FilterState(call', kern', h')  BY <1>1, <3>8
    <3>10. QED BY <1>1, <1>2, <3>9, SameShown, FilterNext
  <2>4. QED BY <2>1, <2>2, <2>3
<1>6. CASE Store
  <2>1. PICK p \in kern.inflight : kern' = Stored([kern EXCEPT !.inflight = @ \ {p}], p)  BY <1>6 DEF Store
  <2> DEFINE k == [kern EXCEPT !.inflight = @ \ {p}]
  <2>2. /\ k \in KernelStates /\ k.filter = kern.filter /\ k.queue = kern.queue /\ k.ring = kern.ring
        /\ k.pos = kern.pos /\ k.inflight = {}
    <3>1. kern.inflight \ {p} = {}  BY DEF StreamInv, OnTheWay
    <3>2. QED BY <1>1, <3>1 DEF KernelStates
  <2>3. kern' = Stored(k, p)  BY <2>1
  <2> HIDE DEF k
  <2>4. p \in Packets  BY <1>1 DEF KernelStates
  <2>5. ~Device => Sound(p)  BY <1>2, <2>4 DEF FilterState, Buffered
  <2>6. QED BY <1>1, <1>3, <2>2, <2>3, <2>4, <2>5, StoreFilters
<1>7. CASE RetireBlock
  <2>1. hd.mode = "v3" /\ kern' = [kern EXCEPT !.ring[kern.pos].user = TRUE, !.pos = (@ + 1) % Frames]
    BY <1>7 DEF RetireBlock
  <2>2. /\ kern'.filter = kern.filter /\ kern'.queue = kern.queue /\ kern'.inflight = kern.inflight
        /\ kern'.ring = [kern.ring EXCEPT ![kern.pos].user = TRUE]
    BY <1>1, <2>1 DEF KernelStates
  <2>3. \A s \in Slots : kern'.ring[s].pkts = kern.ring[s].pkts  BY <1>1, <2>2 DEF Ring
  <2>4. kern.inflight = {}  BY <1>3, <2>1
  <2>5. QED BY <1>1, <2>2, <2>3, <2>4, OutsideCalls
<1>8. QED BY <1>4, <1>5, <1>6, <1>7 DEF Kernel

-----------------------------------------------------------------------------
(* The program is shown what it asked for *)

LEMMA CallsFilter ==
    ASSUME StreamInv, FilterInv, Calls \/ pcap_breakloop \/ UNCHANGED vars
    PROVE  FilterInv'
<1>1. h \in HandleStates /\ kern \in KernelStates /\ call \in CallStates /\ TypeOK  BY StreamFacts
<1>2. FilterState(call, kern, h) /\ ServingHandle /\ SetState(call, kern, h)
  BY DEF FilterInv, FilterState
<1>3. CASE pcap_breakloop \/ UNCHANGED vars
  <2>1. UNCHANGED <<hd, kern, last, call>>  BY <1>3 DEF pcap_breakloop, vars
  <2>2. /\ h'.fcode = h.fcode /\ h'.stale = h.stale /\ h'.bogus = h.bogus /\ h'.userland = h.userland
        /\ h'.countdown = h.countdown /\ h'.offset = h.offset /\ h'.direction = h.direction
    BY <1>1, <1>3 DEF pcap_breakloop, vars, HandleStates
  <2>3. QED BY <2>1, <2>2, OutsideCalls
<1>4. CASE pcap_dispatch \/ pcap_next_ex \/ pcap_loop
  <2>1. UNCHANGED <<hd, h, kern, last>> /\ call.at = "idle" /\ kern.inflight = {}
    BY <1>4 DEF pcap_dispatch, pcap_next_ex, pcap_loop, Begin
  <2>2. \E o \in {"dispatch", "next", "loop"}, n \in Int :
          call' = Reading([Idle EXCEPT !.op = o, !.cnt = n], n)
    <3>1. Counts \subseteq Int /\ 1 \in Int  BY CaptureAssumption
    <3>2. CASE pcap_dispatch  BY <3>1, <3>2 DEF pcap_dispatch, Begin
    <3>3. CASE pcap_next_ex  BY <3>1, <3>3, Zenon DEF pcap_next_ex, Begin
    <3>4. CASE pcap_loop  BY <3>1, <3>4 DEF pcap_loop, Begin
    <3>5. QED BY <1>4, <3>2, <3>3, <3>4
  <2>3. PICK o \in {"dispatch", "next", "loop"}, n \in Int :
          call' = Reading([Idle EXCEPT !.op = o, !.cnt = n], n)
    BY <2>2
  <2> DEFINE d == [Idle EXCEPT !.op = o, !.cnt = n]
  <2>4. d \in CallStates  BY IdleType, Zenon DEF CallStates, Operations
  <2>5. d.op = o  BY DEF Idle
  <2>6. call' = Reading(d, n)  BY <2>3
  <2> HIDE DEF d
  <2>7. call'.at \in Starts  BY <1>1, <2>4, <2>6, ReadingType
  <2>8. call'.op # "setfilter"
    <3>1. call'.op = d.op  BY <2>4, <2>6 DEF Reading, CallStates
    <3>2. QED BY <2>5, <3>1
  <2>9. call'.at \notin Sets /\ call'.at \notin Changing  BY <2>7 DEF Starts, Sets, Changing
  <2>10. SetState(call', kern, h)  BY <2>1, <2>8, <2>9 DEF SetState, Sets, Changing
  <2>11. SetState(call', kern', h')  BY <2>1, <2>10
  <2>12. call.at \notin Changing  BY <2>1 DEF Changing
  <2>13. QED BY <2>1, <2>11, <2>12, OutsideFilters
<1>5. CASE pcap_setfilter
  <2>1. PICK f \in hd.filters :
          Begin([Idle EXCEPT !.op = "setfilter", !.at = IF Device THEN "program" ELSE "install", !.f = f])
    BY <1>5 DEF pcap_setfilter
  <2>2. /\ UNCHANGED <<hd, h, kern, last>> /\ call.at = "idle" /\ kern.inflight = {}
        /\ call'.at = (IF Device THEN "program" ELSE "install") /\ call'.op = "setfilter" /\ call'.f = f
    BY <2>1 DEF Begin, Idle
  <2>3. call'.at \in Sets /\ call'.at \notin Changing /\ call.at \notin Changing /\ (call'.at = "program" <=> Device)
    BY <2>2 DEF Sets, Changing
  <2>4. SetState(call', kern, h)  BY <2>2, <2>3 DEF SetState, Sets, Changing
  <2>5. SetState(call', kern', h')  BY <2>2, <2>4
  <2>6. QED BY <2>2, <2>3, <2>5, OutsideFilters
<1>6. CASE pcap_setdirection \/ pcap_setnonblock
  <2>1. UNCHANGED <<hd, call, kern, last>>
    BY <1>6 DEF pcap_setdirection, pcap_setnonblock, Do
  <2>2. /\ h'.fcode = h.fcode /\ h'.stale = h.stale /\ h'.bogus = h.bogus /\ h'.userland = h.userland
        /\ h'.countdown = h.countdown /\ h'.offset = h.offset /\ (netfilter => h'.direction = h.direction)
    <3>1. CASE pcap_setdirection
      <4>1. PICK d : ~netfilter /\ h' = [h EXCEPT !.direction = d]  BY <3>1 DEF pcap_setdirection, Do
      <4>2. QED BY <1>1, <4>1 DEF HandleStates
    <3>2. CASE pcap_setnonblock
      <4>1. PICK b, e : h' = [h EXCEPT !.nonblock = b, !.timeout = e]  BY <3>2 DEF pcap_setnonblock, Do
      <4>2. QED BY <1>1, <4>1 DEF HandleStates
    <3>3. QED BY <1>6, <3>1, <3>2
  <2>3. QED BY <2>1, <2>2, OutsideCalls
<1>7. CASE pcap_stats \/ DeviceStats
  <2>1. UNCHANGED <<hd, call, last>>
    BY <1>7 DEF pcap_stats, DeviceStats, Do
  <2>2. /\ kern'.queue = kern.queue /\ kern'.ring = kern.ring /\ kern'.pos = kern.pos
        /\ kern'.inflight = kern.inflight /\ kern'.filter = kern.filter
    BY <1>1, <1>7 DEF pcap_stats, DeviceStats, Do, KernelStates
  <2>3. /\ h'.fcode = h.fcode /\ h'.stale = h.stale /\ h'.bogus = h.bogus /\ h'.userland = h.userland
        /\ h'.countdown = h.countdown /\ h'.offset = h.offset /\ h'.direction = h.direction
    BY <1>1, <1>7 DEF pcap_stats, DeviceStats, Do, HandleStates
  <2>4. QED BY <2>1, <2>2, <2>3, OutsideCalls
<1>8. CASE pcap_inject  BY <1>8, KernelFiltered
<1>9. QED BY <1>3, <1>4, <1>5, <1>6, <1>7, <1>8 DEF Calls

LEMMA InitFilters == Init /\ OrderedHandle /\ ServingHandle => FilterInv
<1> SUFFICES ASSUME Init, OrderedHandle, ServingHandle PROVE FilterInv
  OBVIOUS
<1>1. /\ h.fcode = NoFilter /\ h.direction = "INOUT" /\ ~h.stale /\ call = Idle
      /\ kern.filter = NoFilter /\ kern.queue = <<>> /\ kern.inflight = {}
      /\ kern.ring = [s \in Slots |-> [user |-> FALSE, pkts |-> <<>>]]
      /\ last = [id |-> 0, wanted |-> TRUE, given |-> TRUE, whole |-> TRUE, excused |-> FALSE]
  BY DEF Init
<1>2. call.at = "idle" /\ call.op = "none"  BY <1>1 DEF Idle
<1>3. \A s \in Slots : kern.ring[s].pkts = <<>>  BY <1>1
<1>4. Buffered(kern) = {}  BY <1>1, <1>3, EmptyFacts DEF Buffered
<1>5. SetState(call, kern, h)  BY <1>1, <1>2 DEF SetState, Sets, Reads, Changing
<1>6. Sieved(call, kern, h)  BY <1>1, UserlandSieved DEF Sieved
<1>7. FilterState(call, kern, h)  BY <1>1, <1>4, <1>5, <1>6 DEF FilterState, KernelFilters
<1>8. ShownAsWanted  BY <1>1 DEF ShownAsWanted, ShownIffWanted, LengthsAreTrue
<1>9. QED BY <1>7, <1>8 DEF FilterInv

LEMMA FilterStep == StreamInv /\ FilterInv /\ [Next]_vars => FilterInv'
<1> SUFFICES ASSUME StreamInv, FilterInv, [Next]_vars PROVE FilterInv'
  OBVIOUS
<1>1. CASE Reader
  <2>1. CASE Recv \/ Recvmsg  BY <2>1, SocketFilters
  <2>2. CASE Wait \/ Poll \/ Frame \/ Block \/ BlockPacket \/ BlockDone  BY <2>2, RingFilters
  <2>3. CASE Read \/ usb_read_linux \/ usb_read_linux_bin \/ can_read_linux \/ Message \/ DatagramDone
             \/ Fetch \/ FetchedEvent \/ FetchDone
    BY <2>3, DeviceFilters
  <2>4. QED BY <1>1, <2>1, <2>2, <2>3 DEF Reader
<1>2. QED BY <1>1, SetterFilters, KernelFiltered, CallsFilter DEF Next

\* Whichever filters are installed one after the other, however far the reader is behind when the
\* kernel's filter changes, and whatever fails on the way: the program is shown the packets that the
\* filter and the direction in force accept, no others, and with their true lengths
\* (set_kernel_filter(), pcap_setfilter_linux_mmap(), fix_program(), pcap_handle_packet_mmap(),
\* pcap_read_packet(), the read operations of the devices).
THEOREM ShownIsWanted == OrderedHandle /\ ServingHandle /\ Spec => []ShownAsWanted
<1>1. FilterInv => ShownAsWanted  BY DEF FilterInv
<1>2. QED BY <1>1, InitFilters, FilterStep, StreamAlways, PTL DEF Spec

=============================================================================
