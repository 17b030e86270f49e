---------------------------- MODULE PacketProofs ----------------------------
(***************************************************************************)
(* Theorems about Packet: for every payload, header length and base, all   *)
(* lengths of a packet that is sent agree and every field holds a word;    *)
(* with bytes of two bits or more (B >= 4) the receiver's sum over the     *)
(* packet is a multiple of the largest word, whatever the addresses and    *)
(* the payload are.                                                        *)
(*                                                                         *)
(* The argument for the checksum: a sum folded at any point keeps its      *)
(* remainder by W16 - 1; a word read in the other byte order is B times    *)
(* the word, by the same remainder; so the gateway's sum over the segment  *)
(* with an empty field is, up to B, the receiver's, and the complement     *)
(* written into the field makes up for it.  FoldLeft and the fold of       *)
(* Carried are recursive functions: they are shown to exist (Recursion)    *)
(* and followed step by step (UpTo, the least counterexample of a set of   *)
(* numbers).                                                               *)
(***************************************************************************)
EXTENDS Packet, SequenceTheorems, WellFoundedInduction, TLAPS

LEMMA ConcatLen ==
  ASSUME NEW S, NEW u \in Seq(S), NEW v \in Seq(S)
  PROVE  u \o v \in Seq(S) /\ Len(u \o v) = Len(u) + Len(v)
BY ConcatProperties

LEMMA ConcatFive ==
  ASSUME NEW T, NEW w \in Seq(T), NEW x \in Seq(T), NEW y \in Seq(T),
         NEW z \in Seq(T), NEW e \in Seq(T),
         Len(w) = 2, Len(x) = 2, Len(y) = 2, Len(z) = 2
  PROVE  Len(w \o x \o y \o z \o e) = 8 + Len(e)
<1>. DEFINE wx == w \o x  wxy == wx \o y  wxyz == wxy \o z
<1>1. wx \in Seq(T) /\ Len(wx) = Len(w) + Len(x)
  BY ConcatLen, Zenon
<1>2. wxy \in Seq(T) /\ Len(wxy) = Len(wx) + Len(y)
  BY <1>1, ConcatLen, Zenon
<1>3. wxyz \in Seq(T) /\ Len(wxyz) = Len(wxy) + Len(z)
  BY <1>2, ConcatLen, Zenon
<1>4. Len(wxyz \o e) = Len(wxyz) + Len(e)
  BY <1>3, ConcatLen, Zenon
<1>. HIDE DEF wx, wxy, wxyz
<1>5. Len(wxyz) = 8
  BY <1>1, <1>2, <1>3
<1>6. Len(wxyz \o e) = 8 + Len(e)
  BY <1>4, <1>5
<1>. QED BY <1>6, Zenon DEF wx, wxy, wxyz

(* A segment is its four words and its data, whatever the words are.       *)
LEMMA SegmentLen ==
  ASSUME NEW s, s.data \in Seq(Byte)
  PROVE  /\ Len(SegmentBytes(s)) = SegmentHead + Len(s.data)
         /\ Len(s.data) \in Nat
<1>. DEFINE a == Bytes(s.sport)  b == Bytes(s.dport)
            c == Bytes(s.mid)    d == Bytes(s.check)  data == s.data
            U == Byte \cup {a[1], a[2], b[1], b[2], c[1], c[2], d[1], d[2]}
<1>1. a \in Seq(U) /\ b \in Seq(U) /\ c \in Seq(U) /\ d \in Seq(U)
  BY DEF Bytes
<1>2. Len(a) = 2 /\ Len(b) = 2 /\ Len(c) = 2 /\ Len(d) = 2
  BY DEF Bytes
<1>3. data \in Seq(U) /\ Len(data) \in Nat
  OBVIOUS
<1>4. SegmentBytes(s) = a \o b \o c \o d \o data
  BY Zenon DEF SegmentBytes
<1>. HIDE DEF U, a, b, c, d, data
<1>5. Len(a \o b \o c \o d \o data) = 8 + Len(data)
  BY <1>1, <1>2, <1>3, ConcatFive
<1>6. Len(SegmentBytes(s)) = 8 + Len(data)
  BY <1>4, <1>5, Zenon
<1>. QED BY <1>3, <1>6 DEF SegmentHead, data

(* Lengths below 64K are not cut by a 16-bit field.                        *)
Fits(d) == d \in Seq(Byte) /\ V4Head + SegmentHead + Len(d) < W16

LEMMA LenKept ==
  ASSUME NEW d, Fits(d)
  PROVE  /\ (SegmentHead + Len(d)) % W16 = SegmentHead + Len(d)
         /\ SegmentHead + Len(d) \in Nat
<1>1. Len(d) \in Nat
  BY DEF Fits
<1>2. W16 \in Nat
  BY BaseAssumption DEF W16
<1>3. SegmentHead + Len(d) < W16 /\ SegmentHead + Len(d) \in Nat
  <2>1. V4Head \in Nat
    BY BaseAssumption
  <2>. HIDE DEF W16
  <2>. QED BY <1>1, <1>2, <2>1 DEF Fits, SegmentHead
<1>4. \A n, m \in Nat : n < m => n % m = n
  OBVIOUS
<1>. QED BY <1>2, <1>3, <1>4
-----------------------------------------------------------------------------
(* The inductive invariant: the three lengths of the object follow the     *)
(* data in the buffer, and the header, once written, tells them.           *)
Headed == {"finish", "send", "sent"}

Shape ==
  /\ DOMAIN seg = {"sport", "dport", "mid", "check", "data"}
  /\ seg = [x \in DOMAIN seg |-> seg[x]]
  /\ Fits(seg.data)

PktInv ==
  /\ ibuf \in Arrivals /\ bind \in Bindings
  /\ Shape
  /\ ibuf.proto = UDP => seg.mid = SegmentHead + Len(seg.data)
  /\ pc # "unpack" => /\ transport_len = SegmentHead + Len(seg.data)
                      /\ obuf_len = HeadLen(GetIPVersion) + transport_len
  /\ pc \in Headed => /\ head \in [v : {GetIPVersion}, len : {transport_len}, proto : {ibuf.proto},
                                   src : {head.src}, dst : {head.dst}]
  /\ LengthsAgree

LEMMA ArrivalFacts ==
  ASSUME NEW a \in Arrivals
  PROVE  /\ a.seg \in Segment /\ Fits(a.seg.data) /\ a.v \in {4, 6}
         /\ a.proto = UDP => a.seg.mid = SegmentHead + Len(a.seg.data)
<1>1. a.seg \in Segment
  BY TrafficAssumption
<1>2. a.seg.data \in Seq(Byte)
  BY <1>1 DEF Segment
<1>. QED BY <1>1, <1>2, TrafficAssumption DEF Fits

LEMMA HeadLenNat == \A v : HeadLen(v) \in Nat
BY BaseAssumption DEF HeadLen

LEMMA PktInitInv == PktInit => PktInv
<1>. SUFFICES ASSUME PktInit PROVE PktInv
  OBVIOUS
<1>. USE DEF PktInit
<1>1. ibuf.seg \in Segment /\ Fits(ibuf.seg.data)
  BY ArrivalFacts
<1>2. Shape
  BY <1>1 DEF Shape, Segment
<1>3. ibuf.proto = UDP => seg.mid = SegmentHead + Len(seg.data)
  BY ArrivalFacts
<1>. QED BY <1>2, <1>3 DEF PktInv, Headed, LengthsAgree

(* A step that changes only what no length depends on.                     *)
LEMMA OtherFields ==
  ASSUME Shape, NEW f \in {"sport", "dport", "mid", "check"}, NEW x,
         seg' = [seg EXCEPT ![f] = x]
  PROVE  /\ Shape' /\ seg'.data = seg.data
         /\ f # "mid" => seg'.mid = seg.mid
BY DEF Shape

LEMMA PktNextInv == PktInv /\ [PktNext]_pktVars => PktInv'
<1>. SUFFICES ASSUME PktInv, [PktNext]_pktVars PROVE PktInv'
  OBVIOUS
<1>. USE DEF PktInv, GetIPVersion, Headed
<1>1. CASE Unpack
  <2>1. seg' = ibuf.seg /\ ibuf' = ibuf /\ bind' = bind /\ pc' = "doApp"
    BY <1>1 DEF Unpack
  <2>2. Shape'
    BY <2>1, ArrivalFacts DEF Shape, Segment
  <2>3. ibuf'.proto = UDP => seg'.mid = SegmentHead + Len(seg'.data)
    BY <2>1, ArrivalFacts
  <2>4. Len(SegmentBytes(ibuf.seg)) = SegmentHead + Len(ibuf.seg.data)
    BY SegmentLen, ArrivalFacts DEF Fits
  <2>5. SegmentHead + Len(ibuf.seg.data) \in Nat
    BY LenKept, ArrivalFacts
  <2>6. /\ obuf_len' = SegmentHead + Len(ibuf.seg.data) + HeadLen(GetIPVersion)
        /\ transport_len' = obuf_len' - HeadLen(GetIPVersion)
    BY <1>1, <2>4 DEF Unpack
  <2>7. /\ transport_len' = SegmentHead + Len(ibuf.seg.data)
        /\ obuf_len' = HeadLen(GetIPVersion) + transport_len'
    BY <2>5, <2>6, HeadLenNat
  <2>. QED BY <2>1, <2>2, <2>3, <2>7 DEF LengthsAgree
<1>2. CASE ShiftNumbers
  <2>1. /\ ibuf' = ibuf /\ bind' = bind /\ pc' = "modify" /\ pc = "doApp"
        /\ obuf_len' = obuf_len /\ transport_len' = transport_len
    BY <1>2 DEF ShiftNumbers
  <2>2. Shape' /\ seg'.data = seg.data /\ (ibuf.proto = UDP => seg' = seg)
    <3>1. CASE ibuf.proto = TCP
      <4>1. PICK n : seg' = [seg EXCEPT !["mid"] = n]
        BY <1>2, <3>1 DEF ShiftNumbers
      <4>. QED BY <3>1, <4>1, OtherFields, BaseAssumption
    <3>2. CASE ibuf.proto # TCP
      BY <1>2, <3>2 DEF ShiftNumbers, Shape
    <3>. QED BY <3>1, <3>2
  <2>. QED BY <2>1, <2>2 DEF LengthsAgree
<1>3. CASE Modify
  <2>1. PICK d \in Payloads :
          SetTransportLen([seg EXCEPT !.data = d], SegmentHead + Len(d))
    BY <1>3 DEF Modify
  <2>2. /\ ibuf' = ibuf /\ bind' = bind /\ pc' = "doPorts"
    BY <1>3 DEF Modify
  <2>3. Fits(d)
    BY TrafficAssumption DEF Fits
  <2>4. /\ transport_len' = SegmentHead + Len(d)
        /\ obuf_len' = HeadLen(GetIPVersion) + transport_len'
    BY <2>1 DEF SetTransportLen
  <2>5. Shape' /\ seg'.data = d
    <3>. DEFINE s == [seg EXCEPT !.data = d]
    <3>1. /\ DOMAIN s = {"sport", "dport", "mid", "check", "data"}
          /\ s = [x \in DOMAIN s |-> s[x]] /\ s.data = d
      BY DEF Shape
    <3>2. seg' = s \/ seg' = [s EXCEPT !.mid = (SegmentHead + Len(d)) % W16]
      BY <2>1 DEF SetTransportLen
    <3>. HIDE DEF s
    <3>. QED BY <2>3, <3>1, <3>2 DEF Shape
  <2>6. ibuf.proto = UDP => seg'.mid = SegmentHead + Len(d)
    <3>1. ibuf.proto = UDP => seg'.mid = (SegmentHead + Len(d)) % W16
      BY <2>1 DEF SetTransportLen, Shape
    <3>. QED BY <2>3, <3>1, LenKept
  <2>. QED BY <2>2, <2>4, <2>5, <2>6 DEF LengthsAgree
<1>4. CASE LeaveAsIs
  BY <1>4 DEF LeaveAsIs, LengthsAgree, Shape
<1>5. CASE DoPorts
  <2>1. /\ ibuf' = ibuf /\ bind' = bind /\ pc' = "doIP" /\ pc = "doPorts"
        /\ obuf_len' = obuf_len /\ transport_len' = transport_len
    BY <1>5 DEF DoPorts
  <2>2. Shape' /\ seg'.data = seg.data /\ seg'.mid = seg.mid
    <3>1. \/ seg' = [seg EXCEPT !["sport"] = bind.port4]
          \/ seg' = [seg EXCEPT !["dport"] = bind.port6]
      BY <1>5 DEF DoPorts
    <3>. QED BY <3>1, OtherFields
  <2>. QED BY <2>1, <2>2 DEF LengthsAgree
<1>6. CASE DoIP
  <2>1. /\ ibuf' = ibuf /\ bind' = bind /\ pc' = "finish" /\ pc = "doIP"
        /\ obuf_len' = obuf_len /\ transport_len' = transport_len /\ seg' = seg
    BY <1>6 DEF DoIP
  <2>2. transport_len % W16 = transport_len
    BY <2>1, LenKept DEF Shape
  <2>3. PICK src, dst : head' = MakePkt(GetIPVersion, transport_len, src, dst)
    BY <1>6, ArrivalFacts DEF DoIP
  <2>4. head' \in [v : {GetIPVersion}, len : {transport_len}, proto : {ibuf.proto},
                   src : {head'.src}, dst : {head'.dst}]
    BY <2>2, <2>3 DEF MakePkt
  <2>. QED BY <2>1, <2>4 DEF LengthsAgree, Shape
<1>7. CASE Finish
  <2>1. /\ ibuf' = ibuf /\ bind' = bind /\ pc' = "send" /\ pc = "finish"
        /\ obuf_len' = obuf_len /\ transport_len' = transport_len /\ head' = head
    BY <1>7 DEF Finish
  <2>2. Shape' /\ seg'.data = seg.data /\ seg'.mid = seg.mid
    <3>1. PICK c : seg' = [[seg EXCEPT !["check"] = 0] EXCEPT !["check"] = c]
      BY <1>7 DEF Finish, UpdateChecksum
    <3>2. seg' = [seg EXCEPT !["check"] = c]
      BY <3>1 DEF Shape
    <3>. QED BY <3>2, OtherFields
  <2>. QED BY <2>1, <2>2 DEF LengthsAgree
<1>8. CASE Send
  <2>. DEFINE h == head
              cut == obuf_len - HeadLen(h.v) - SegmentHead
              s == [seg EXCEPT !.data = SubSeq(@, 1, cut)]
              n == SegmentHead + Len(seg.data)
  <2>1. /\ ibuf' = ibuf /\ bind' = bind /\ pc' = "sent" /\ pc = "send" /\ seg' = seg
        /\ obuf_len' = obuf_len /\ transport_len' = transport_len /\ head' = head
    BY <1>8 DEF Send
  <2>2. wire' = [head |-> Kernel(h, obuf_len), bytes |-> obuf_len, seg |-> s]
    BY <1>8 DEF Send
  <2>3. h.v = GetIPVersion /\ h.len = transport_len
    BY <2>1
  <2>4. seg.data \in Seq(Byte) /\ n \in Nat
    BY LenKept DEF Shape, Fits
  <2>5. obuf_len = HeadLen(h.v) + n /\ transport_len = n
    BY <2>1, <2>3
  <2>6. cut = Len(seg.data)
    BY <2>4, <2>5, HeadLenNat DEF SegmentHead
  <2>7. s.data = seg.data /\ s.mid = seg.mid
    <3>1. SubSeq(seg.data, 1, cut) = seg.data
      BY <2>4, <2>6, SubSeqFull
    <3>. QED BY <3>1 DEF Shape
  <2>8. Len(SegmentBytes(s)) = n
    BY <2>4, <2>7, SegmentLen
  <2>9. /\ Kernel(h, obuf_len).v = h.v
        /\ SeenLen(Kernel(h, obuf_len)) = n
    <3>1. CASE h.v = 4
      <4>1. Kernel(h, obuf_len).v = 4 /\ Kernel(h, obuf_len).len = obuf_len
        BY <2>1, <3>1 DEF Kernel
      <4>2. obuf_len = V4Head + n /\ V4Head \in Nat
        BY <2>5, <3>1, BaseAssumption DEF HeadLen
      <4>3. \A x, y \in Nat : (x + y) - x = y
        OBVIOUS
      <4>. QED BY <2>4, <3>1, <4>1, <4>2, <4>3 DEF SeenLen
    <3>2. CASE h.v # 4
      BY <2>3, <2>5, <3>2 DEF Kernel, SeenLen
    <3>. QED BY <3>1, <3>2
  <2>10. LengthsAgree'
    <3>1. wire'.bytes = obuf_len /\ wire'.seg = s /\ wire'.head = Kernel(h, obuf_len)
      BY <2>2
    <3>2. ibuf.proto = UDP => s.mid = n
      BY <2>7
    <3>. HIDE DEF s, n, h
    <3>. QED BY <2>1, <2>5, <2>8, <2>9, <3>1, <3>2 DEF LengthsAgree
  <2>. QED BY <2>1, <2>10 DEF Shape
<1>9. CASE UNCHANGED pktVars
  BY <1>9 DEF pktVars, LengthsAgree, Shape
<1>. QED BY <1>1, <1>2, <1>3, <1>4, <1>5, <1>6, <1>7, <1>8, <1>9 DEF PktNext
-----------------------------------------------------------------------------
(* Every length that tells where a packet ends agrees with what the socket *)
(* was given, in both directions and whatever doApp made of the payload    *)
(* (packet.cc:93-127, nat.cc:20, 37).                                      *)
THEOREM LengthsAlwaysAgree == PktSpec => []LengthsAgree
<1>1. PktInit => PktInv
  BY PktInitInv
<1>2. PktInv /\ [PktNext]_pktVars => PktInv'
  BY PktNextInv
<1>3. PktInv => LengthsAgree
  BY DEF PktInv
<1>. QED BY <1>1, <1>2, <1>3, PTL DEF PktSpec
-----------------------------------------------------------------------------
(* Division.                                                               *)
LEMMA DivMod ==
  ASSUME NEW a \in Nat, NEW b \in Nat \ {0}
  PROVE  a % b \in Nat /\ a % b < b /\ a \div b \in Nat /\ a = b * (a \div b) + (a % b)
OBVIOUS

LEMMA Divided ==
  ASSUME NEW b \in Nat \ {0}, NEW q \in Nat, NEW r \in Nat, r < b
  PROVE  (b * q + r) \div b = q /\ (b * q + r) % b = r
OBVIOUS

LEMMA Below ==
  ASSUME NEW b \in Nat \ {0}, NEW x \in Nat, x < b PROVE x % b = x /\ x \div b = 0
OBVIOUS

(* A number below a product has a quotient below the factor.               *)
LEMMA QuotientBelow ==
  ASSUME NEW a \in Nat, NEW b \in Nat \ {0}, NEW c \in Nat, a < b * c
  PROVE  a \div b < c
<1>. DEFINE q == a \div b
<1>1. q \in Nat /\ b * q <= a
  <2>1. q \in Nat /\ a % b \in Nat /\ a = b * q + (a % b) /\ b * q \in Nat
    BY DivMod
  <2>. QED BY <2>1
<1>. HIDE DEF q
<1>2. SUFFICES ASSUME c <= q PROVE FALSE
  BY <1>1 DEF q
<1>3. b * c <= b * q /\ b * c \in Nat /\ b * q \in Nat
  BY <1>1, <1>2
<1>. QED BY <1>1, <1>3
-----------------------------------------------------------------------------
(* Equal up to multiples of the largest word.                              *)
M == W16 - 1
Cong(x, y) == x \in Int /\ y \in Int /\ \E k \in Int : x = y + k * M

LEMMA WordFacts ==
  /\ W16 \in Nat /\ W16 = B * B /\ W16 >= 4 /\ B \in Nat /\ B >= 2 /\ B < W16
  /\ M \in Nat /\ M >= 3 /\ W16 = M + 1 /\ B * B = M + 1
  /\ W32 \in Nat /\ W32 = W16 * W16 /\ W32 >= 4 * W16
<1>1. B \in Nat /\ B >= 2
  BY BaseAssumption
<1>2. B * B \in Nat /\ B * B >= 2 * B /\ 2 * B >= 4 /\ B * B >= 4 /\ B * B > B
  BY <1>1
<1>3. W16 \in Nat /\ W16 = B * B /\ W16 >= 4 /\ B < W16
  BY <1>1, <1>2 DEF W16
<1>. HIDE DEF W16
<1>4. W32 = W16 * W16 
  BY DEF W32
<1>5. W16 * W16 \in Nat /\ W16 * W16 >= 4 * W16
  BY <1>3
<1>6. M \in Nat /\ M >= 3 /\ W16 = M + 1
  BY <1>3 DEF M
<1>. QED BY <1>1, <1>3, <1>4, <1>5, <1>6

LEMMA CongRefl == ASSUME NEW x \in Int PROVE Cong(x, x)
<1>1. x = x + 0 * M
  BY WordFacts
<1>. QED BY <1>1 DEF Cong

LEMMA CongSym == ASSUME NEW x, NEW y, Cong(x, y) PROVE Cong(y, x)
<1>1. x \in Int /\ y \in Int
  BY DEF Cong
<1>2. PICK k \in Int : x = y + k * M
  BY DEF Cong
<1>3. y = x + (-k) * M
  BY <1>1, <1>2, WordFacts
<1>4. -k \in Int
  BY <1>2
<1>. QED BY <1>1, <1>3, <1>4 DEF Cong

LEMMA CongTrans == ASSUME NEW x, NEW y, NEW z, Cong(x, y), Cong(y, z) PROVE Cong(x, z)
<1>1. x \in Int /\ y \in Int /\ z \in Int
  BY DEF Cong
<1>2. PICK k \in Int : x = y + k * M
  BY DEF Cong
<1>3. PICK j \in Int : y = z + j * M
  BY DEF Cong
<1>4. x = z + (k + j) * M
  BY <1>1, <1>2, <1>3, WordFacts
<1>5. k + j \in Int
  BY <1>2, <1>3
<1>. QED BY <1>1, <1>4, <1>5 DEF Cong

LEMMA CongAdd == ASSUME NEW x, NEW y, NEW z, NEW u, Cong(x, y), Cong(z, u) PROVE Cong(x + z, y + u)
<1>1. x \in Int /\ y \in Int /\ z \in Int /\ u \in Int
  BY DEF Cong
<1>2. PICK k \in Int : x = y + k * M
  BY DEF Cong
<1>3. PICK j \in Int : z = u + j * M
  BY DEF Cong
<1>4. x + z = (y + u) + (k + j) * M
  BY <1>1, <1>2, <1>3, WordFacts
<1>5. k + j \in Int /\ x + z \in Int /\ y + u \in Int
  BY <1>1, <1>2, <1>3
<1>. QED BY <1>4, <1>5 DEF Cong

LEMMA CongMul == ASSUME NEW x, NEW y, NEW c \in Int, Cong(x, y) PROVE Cong(c * x, c * y)
<1>1. x \in Int /\ y \in Int
  BY DEF Cong
<1>2. PICK k \in Int : x = y + k * M
  BY DEF Cong
<1>3. c * x = c * y + (c * k) * M
  BY <1>1, <1>2, WordFacts
<1>4. c * k \in Int /\ c * x \in Int /\ c * y \in Int
  BY <1>1, <1>2
<1>. QED BY <1>3, <1>4 DEF Cong

LEMMA CongZero == ASSUME NEW x \in Nat, Cong(x, 0) PROVE x % M = 0
<1>1. PICK k \in Int : x = 0 + k * M
  BY DEF Cong
<1>2. k \in Nat
  <2>1. SUFFICES ASSUME k < 0 PROVE FALSE
    BY <1>1
  <2>2. k * M < 0
    BY <1>1, <2>1, WordFacts
  <2>. QED BY <1>1, <2>2, WordFacts
<1>3. x = M * k + 0
  BY <1>1, WordFacts
<1>4. (M * k + 0) % M = 0
  <2>1. M \in Nat \ {0} /\ 0 \in Nat /\ 0 < M
    BY WordFacts
  <2>. QED BY <1>2, <2>1, Divided
<1>. QED BY <1>3, <1>4
-----------------------------------------------------------------------------
(* Words and the folding of sums.                                          *)
LEMMA WordParts ==
  ASSUME NEW w \in Word
  PROVE  /\ w \div B \in Byte /\ w % B \in Byte
         /\ w = B * (w \div B) + (w % B)
<1>1. w \in Nat /\ w < W16 /\ B \in Nat \ {0} /\ B \in Nat
  BY WordFacts DEF Word
<1>2. w < B * B
  BY <1>1, WordFacts
<1>3. w % B \in Nat /\ w % B < B /\ w \div B \in Nat /\ w = B * (w \div B) + (w % B)
  BY <1>1, DivMod
<1>4. w \div B < B
  BY <1>1, <1>2, QuotientBelow
<1>. QED BY <1>1, <1>3, <1>4 DEF Byte

LEMMA WordOf ==
  ASSUME NEW q \in Byte, NEW r \in Byte
  PROVE  /\ B * q + r \in Word /\ (B * q + r) \div B = q /\ (B * q + r) % B = r
<1>1. q \in Nat /\ r \in Nat /\ B \in Nat \ {0} /\ r < B /\ q <= B - 1 /\ r <= B - 1
  BY WordFacts DEF Byte
<1>2. B * q <= B * (B - 1) /\ B * q \in Nat /\ B * (B - 1) = B * B - B
  BY <1>1
<1>3. B * q + r \in Nat /\ B * q + r <= W16 - 1
  BY <1>1, <1>2, WordFacts
<1>. QED BY <1>1, <1>3, Divided, WordFacts DEF Word

LEMMA SwapFacts ==
  ASSUME NEW w \in Word
  PROVE  Swap(w) \in Word /\ Cong(Swap(w), B * w) /\ Swap(Swap(w)) = w
<1>. DEFINE q == w \div B  r == w % B
<1>1. q \in Byte /\ r \in Byte /\ w = B * q + r
  BY WordParts
<1>2. Swap(w) = r * B + q
  BY DEF Swap
<1>. HIDE DEF q, r
<1>3. q \in Nat /\ r \in Nat /\ B \in Nat
  BY <1>1, WordFacts DEF Byte
<1>4. Swap(w) = B * r + q
  BY <1>2, <1>3
<1>5. Swap(w) \in Word /\ Swap(w) \div B = r /\ Swap(w) % B = q
  BY <1>1, <1>4, WordOf
<1>6. Swap(Swap(w)) = q * B + r
  BY <1>5 DEF Swap
<1>7. B * w = (B * B) * q + B * r
  BY <1>1, <1>3
<1>8. B * w = (M + 1) * q + B * r
  BY <1>7, WordFacts
<1>9. B * w = Swap(w) + q * M
  BY <1>3, <1>4, <1>8, WordFacts
<1>10. Cong(B * w, Swap(w))
  <2>1. B * w \in Int /\ Swap(w) \in Int /\ q \in Int
    BY <1>3, <1>5, WordFacts DEF Word
  <2>. QED BY <1>9, <2>1 DEF Cong
<1>. QED BY <1>1, <1>3, <1>5, <1>6, <1>10, CongSym

LEMMA CarryFacts ==
  ASSUME NEW s \in Nat, s < W32
  PROVE  /\ Carry(s) \in Nat /\ Carry(s) <= 2 * W16 - 2 /\ Cong(Carry(s), s)
         /\ s < W16 => Carry(s) = s
         /\ s <= 2 * W16 - 2 => Carry(s) < W16
<1>. DEFINE q == s \div W16  r == s % W16
<1>1. q \in Nat /\ r \in Nat /\ r < W16 /\ s = W16 * q + r /\ q < W16
  <2>1. W16 \in Nat \ {0} /\ s < W16 * W16 /\ W16 \in Nat
    BY WordFacts
  <2>. HIDE DEF q, r
  <2>2. q \in Nat /\ r \in Nat /\ r < W16 /\ s = W16 * q + r
    BY <2>1, DivMod DEF q, r
  <2>3. q < W16
    BY <2>1, QuotientBelow DEF q
  <2>. QED BY <2>2, <2>3
<1>2. Carry(s) = r + q
  BY DEF Carry
<1>. HIDE DEF q, r
<1>3. Carry(s) \in Nat /\ Carry(s) <= 2 * W16 - 2
  BY <1>1, <1>2, WordFacts
<1>4. s = (M + 1) * q + r
  BY <1>1, WordFacts
<1>5. s = Carry(s) + q * M
  <2>1. q \in Nat /\ r \in Nat /\ M \in Nat
    BY <1>1, WordFacts
  <2>. HIDE DEF M
  <2>2. (M + 1) * q + r = (r + q) + q * M
    BY ONLY <2>1
  <2>. QED BY <1>2, <1>4, <2>2
<1>6. Cong(Carry(s), s)
  <2>1. Cong(s, Carry(s))
    BY <1>1, <1>3, <1>5 DEF Cong
  <2>. QED BY <2>1, CongSym
<1>7. s < W16 => q = 0
  <2>1. SUFFICES ASSUME q >= 1, s < W16 PROVE FALSE
    BY <1>1
  <2>2. W16 * q >= W16 /\ W16 * q \in Nat
    BY <1>1, <2>1, WordFacts
  <2>. QED BY <1>1, <2>1, <2>2, WordFacts
<1>8. s < W16 => Carry(s) = s
  BY <1>1, <1>2, <1>7, WordFacts
<1>9. ASSUME s <= 2 * W16 - 2 PROVE Carry(s) < W16
  <2>1. q < 2
    <3>1. SUFFICES ASSUME q >= 2 PROVE FALSE
      BY <1>1
    <3>2. W16 * q >= W16 * 2 /\ W16 * q \in Nat
      BY <1>1, <3>1, WordFacts
    <3>. QED BY <1>1, <1>9, <3>2, WordFacts
  <2>2. q = 0 \/ q = 1
    BY <1>1, <2>1
  <2>3. CASE q = 0
    BY <1>1, <1>2, <2>3
  <2>4. CASE q = 1
    <3>1. s = W16 + r
      BY <1>1, <2>4, WordFacts
    <3>. QED BY <1>1, <1>2, <1>9, <2>4, <3>1, WordFacts
  <2>. QED BY <2>2, <2>3, <2>4
<1>. QED BY <1>3, <1>6, <1>8, <1>9

(* Folding twice is enough, and no fold loses more than multiples.         *)
LEMMA CarriedFacts ==
  ASSUME NEW s \in Nat, s < W32
  PROVE  Carried(s) \in Word /\ Cong(Carried(s), s)
<1>. DEFINE P(f) == f = [x \in 0 .. W32 - 1 |-> IF x < W16 THEN x ELSE f[Carry(x)]]
            once(x) == IF x < W16 THEN x ELSE Carry(x)
            g == [x \in 0 .. W32 - 1 |-> once(once(x))]
            after == CHOOSE f : P(f)
<1>1. Carried(s) = after[s]
  BY DEF Carried
<1>2. ASSUME NEW x \in 0 .. W32 - 1
      PROVE  /\ x \in Nat /\ x < W32 /\ Carry(x) \in 0 .. W32 - 1
             /\ Carry(x) <= 2 * W16 - 2 /\ Carry(Carry(x)) < W16
             /\ Carry(Carry(x)) \in 0 .. W32 - 1
  <2>1. x \in Nat /\ x < W32
    BY WordFacts
  <2>2. Carry(x) \in Nat /\ Carry(x) <= 2 * W16 - 2
    BY <2>1, CarryFacts
  <2>3. Carry(x) < W32
    BY <2>2, WordFacts
  <2>4. Carry(Carry(x)) \in Nat /\ Carry(Carry(x)) < W16
    BY <2>2, <2>3, CarryFacts
  <2>. QED BY <2>1, <2>2, <2>3, <2>4, WordFacts
<1>3. P(g)
  <2>1. ASSUME NEW x \in 0 .. W32 - 1
        PROVE  g[x] = IF x < W16 THEN x ELSE g[Carry(x)]
    <3>1. Carry(x) \in 0 .. W32 - 1 /\ Carry(Carry(x)) < W16 /\ x \in Nat
      BY <1>2
    <3>2. CASE x < W16
      BY <3>2
    <3>3. CASE ~(x < W16)
      <4>1. g[x] = once(Carry(x)) /\ g[Carry(x)] = once(once(Carry(x)))
        BY <3>1, <3>3
      <4>2. once(once(Carry(x))) = once(Carry(x))
        BY <3>1
      <4>. QED BY <3>3, <4>1, <4>2
    <3>. QED BY <3>2, <3>3
  <2>. QED BY <2>1
<1>4. P(after)
  <2>. HIDE DEF P
  <2>. QED BY <1>3
<1>5. \A x \in 0 .. W32 - 1 : after[x] = IF x < W16 THEN x ELSE after[Carry(x)]
  <2>. HIDE DEF after
  <2>. QED BY <1>4
<1>. HIDE DEF after, P
<1>6. s \in 0 .. W32 - 1
  BY WordFacts
<1>7. CASE s < W16
  <2>1. after[s] = s
    BY <1>5, <1>6, <1>7
  <2>. QED BY <1>1, <1>7, <2>1, CongRefl, WordFacts DEF Word
<1>8. CASE ~(s < W16) /\ Carry(s) < W16
  <2>1. after[s] = Carry(s) /\ Carry(s) \in Nat
    BY <1>2, <1>5, <1>6, <1>8
  <2>. QED BY <1>1, <1>8, <2>1, CarryFacts, WordFacts DEF Word
<1>9. CASE ~(s < W16) /\ ~(Carry(s) < W16)
  <2>1. after[s] = Carry(Carry(s)) /\ Carry(Carry(s)) \in Nat /\ Carry(Carry(s)) < W16
    BY <1>2, <1>5, <1>6, <1>9
  <2>2. Cong(Carry(Carry(s)), Carry(s)) /\ Cong(Carry(s), s)
    <3>1. Carry(s) \in Nat /\ Carry(s) < W32
      BY <1>2, <1>6
    <3>. QED BY <3>1, CarryFacts
  <2>. QED BY <1>1, <2>1, <2>2, CongTrans, WordFacts DEF Word
<1>. QED BY <1>7, <1>8, <1>9
-----------------------------------------------------------------------------
(* Induction over the numbers up to n.                                     *)
LEMMA UpTo ==
  ASSUME NEW n \in Nat, NEW S, 0 \in S, \A k \in 0 .. n - 1 : k \in S => k + 1 \in S
  PROVE  \A k \in 0 .. n : k \in S
<1>. DEFINE T == {k \in 0 .. n : k \notin S}
            R == {ss \in Nat \X Nat : ss[1] < ss[2]}
<1>. SUFFICES ASSUME T # {} PROVE FALSE
  OBVIOUS
<1>1. IsWellFoundedOn(R, Nat)
  BY NatLessThanWellFounded DEF OpToRel
<1>2. PICK x \in T : \A y \in T : <<y, x>> \notin R
  <2>1. T \subseteq Nat
    OBVIOUS
  <2>. HIDE DEF R, T
  <2>. QED BY <1>1, <2>1, WFMin
<1>3. x \in 0 .. n /\ x # 0
  OBVIOUS
<1>4. x - 1 \in Nat /\ x - 1 \in 0 .. n - 1 /\ x - 1 < x
  BY <1>3
<1>5. <<x - 1, x>> \in R
  BY <1>3, <1>4
<1>6. x - 1 \in S
  BY <1>2, <1>4, <1>5
<1>. QED BY <1>3, <1>4, <1>6

(* A function defined from its value one below exists.                     *)
Recurs(f, n, c, F) == f[0] = c /\ \A i \in 1 .. n : f[i] = F[i][f[i - 1]]

LEMMA Recursion ==
  ASSUME NEW n \in Nat, NEW S, NEW c \in S, NEW F \in [1 .. n -> [S -> S]]
  PROVE  \E f \in [0 .. n -> S] : Recurs(f, n, c, F)
<1>. DEFINE T == {k \in 0 .. n : \E f \in [0 .. k -> S] : Recurs(f, k, c, F)}
<1>1. 0 \in T
  <2>. DEFINE f == [i \in 0 .. 0 |-> c]
  <2>1. f \in [0 .. 0 -> S] /\ Recurs(f, 0, c, F)
    BY DEF Recurs
  <2>2. 0 \in 0 .. n
    OBVIOUS
  <2>. HIDE DEF f
  <2>. QED BY <2>1, <2>2
<1>2. ASSUME NEW k \in 0 .. n - 1, k \in T
      PROVE  k + 1 \in T
  <2>1. PICK f \in [0 .. k -> S] : Recurs(f, k, c, F)
    BY <1>2
  <2>. DEFINE g == [i \in 0 .. k + 1 |-> IF i = k + 1 THEN F[k + 1][f[k]] ELSE f[i]]
  <2>2. F[k + 1][f[k]] \in S
    <3>1. f[k] \in S /\ k + 1 \in 1 .. n
      OBVIOUS
    <3>2. F[k + 1] \in [S -> S]
      BY <3>1
    <3>. QED BY <3>1, <3>2
  <2>3. g \in [0 .. k + 1 -> S]
    <3>1. ASSUME NEW i \in 0 .. k + 1 PROVE g[i] \in S
      <4>1. i # k + 1 => i \in 0 .. k
        OBVIOUS
      <4>. QED BY <2>2, <4>1
    <3>. QED BY <3>1
  <2>4. Recurs(g, k + 1, c, F)
    <3>1. g[0] = c
      BY <2>1 DEF Recurs
    <3>2. ASSUME NEW i \in 1 .. k + 1 PROVE g[i] = F[i][g[i - 1]]
      <4>1. i - 1 \in 0 .. k /\ g[i - 1] = f[i - 1]
        OBVIOUS
      <4>2. CASE i = k + 1
        BY <4>1, <4>2
      <4>3. CASE i \in 1 .. k
        <5>1. g[i] = f[i] /\ f[i] = F[i][f[i - 1]]
          BY <2>1, <4>3 DEF Recurs
        <5>. QED BY <4>1, <5>1
      <4>. QED BY <4>2, <4>3
    <3>. HIDE DEF g
    <3>. QED BY <3>1, <3>2 DEF Recurs
  <2>5. k + 1 \in 0 .. n
    OBVIOUS
  <2>. HIDE DEF g
  <2>. QED BY <2>3, <2>4, <2>5
<1>3. \A k \in 0 .. n - 1 : k \in T => k + 1 \in T
  BY <1>2
<1>4. n \in T
  <2>. HIDE DEF T
  <2>1. \A k \in 0 .. n : k \in T
    BY <1>1, <1>3, UpTo
  <2>. QED BY <2>1
<1>. QED BY <1>4

-----------------------------------------------------------------------------
LEMMA RecursSame ==
  ASSUME NEW n \in Nat, NEW k \in 0 .. n, NEW c, NEW f, NEW g, NEW F, NEW G,
         Recurs(f, n, c, F), Recurs(g, n, c, G), \A i \in 1 .. k : F[i] = G[i]
  PROVE  f[k] = g[k]
<1>. DEFINE S == {i \in 0 .. k : f[i] = g[i]}
<1>1. 0 \in S
  BY DEF Recurs
<1>2. \A i \in 0 .. k - 1 : i \in S => i + 1 \in S
  <2>1. SUFFICES ASSUME NEW i \in 0 .. k - 1, f[i] = g[i]
                 PROVE  i + 1 \in 0 .. k /\ f[i + 1] = g[i + 1]
    OBVIOUS
  <2>. DEFINE j == i + 1
  <2>2. j \in 1 .. n /\ j \in 1 .. k /\ j - 1 = i /\ j \in 0 .. k
    OBVIOUS
  <2>. HIDE DEF j
  <2>3. f[j] = g[j]
    BY <2>1, <2>2 DEF Recurs
  <2>. QED BY <2>2, <2>3 DEF j
<1>3. \A i \in 0 .. k : i \in S
  <2>1. k \in Nat
    OBVIOUS
  <2>. HIDE DEF S
  <2>. QED BY <1>1, <1>2, <2>1, UpTo
<1>. QED BY <1>3

Stays(f, k, n, F) == \A i \in k + 1 .. n : F[i][f[i - 1]] = f[i - 1]

LEMMA RecursStay ==
  ASSUME NEW n \in Nat, NEW k \in 0 .. n, NEW c, NEW f, NEW F, Recurs(f, n, c, F),
         Stays(f, k, n, F)
  PROVE  f[n] = f[k]
<1>. DEFINE m == n - k  S == {i \in 0 .. m : f[k + i] = f[k]}
<1>0. m \in Nat
  OBVIOUS
<1>1. 0 \in S
  OBVIOUS
<1>2. \A i \in 0 .. m - 1 : i \in S => i + 1 \in S
  <2>1. SUFFICES ASSUME NEW i \in 0 .. m - 1, f[k + i] = f[k]
                 PROVE  i + 1 \in 0 .. m /\ f[k + (i + 1)] = f[k]
    OBVIOUS
  <2>. DEFINE j == k + (i + 1)
  <2>2. j \in 1 .. n /\ j \in k + 1 .. n /\ j - 1 = k + i
    OBVIOUS
  <2>. HIDE DEF j
  <2>3. f[j] = f[k]
    BY <2>1, <2>2 DEF Recurs, Stays
  <2>. QED BY <2>2, <2>3 DEF j
<1>3. \A i \in 0 .. m : i \in S
  <2>. HIDE DEF S, m
  <2>. QED BY <1>0, <1>1, <1>2, UpTo
<1>4. k + m = n /\ m \in 0 .. m
  OBVIOUS
<1>5. f[k + m] = f[k]
  BY <1>3, <1>4
<1>. QED BY <1>4, <1>5

(* A set of indices has a largest one.                                     *)
LEMMA MaxFacts ==
  ASSUME NEW n \in Nat, NEW S \in SUBSET (1 .. n), S # {}
  PROVE  Max(S) \in S /\ \A y \in S : Max(S) >= y
<1>. DEFINE K == {k \in 0 .. n : \A T \in SUBSET (1 .. k) : T # {} => \E x \in T : \A y \in T : x >= y}
<1>1. 0 \in K
  <2>1. 1 .. 0 = {} /\ 0 \in 0 .. n
    OBVIOUS
  <2>. QED BY <2>1
<1>2. \A k \in 0 .. n - 1 : k \in K => k + 1 \in K
  <2>1. SUFFICES ASSUME NEW k \in 0 .. n - 1, k \in K,
                        NEW T \in SUBSET (1 .. k + 1), T # {}
                 PROVE  \E x \in T : \A y \in T : x >= y
    OBVIOUS
  <2>2. CASE k + 1 \in T
    BY <2>2
  <2>3. CASE k + 1 \notin T
    <3>1. T \in SUBSET (1 .. k)
      BY <2>3
    <3>. QED BY <2>1, <3>1
  <2>. QED BY <2>2, <2>3
<1>3. \A k \in 0 .. n : k \in K
  <2>. HIDE DEF K
  <2>. QED BY <1>1, <1>2, UpTo
<1>4. n \in K
  <2>1. n \in 0 .. n
    OBVIOUS
  <2>. HIDE DEF K
  <2>. QED BY <1>3, <2>1
<1>5. \E x \in S : \A y \in S : x >= y
  BY <1>4
<1>. QED BY <1>5 DEF Max

LEMMA MaxUpTo ==
  ASSUME NEW k \in Nat \ {0}
  PROVE  Max(1 .. k) = k /\ (1 .. k) \ {k} = 1 .. k - 1 /\ 1 .. k # {}
<1>1. Max(1 .. k) \in 1 .. k /\ \A y \in 1 .. k : Max(1 .. k) >= y
  <2>1. k \in Nat /\ 1 .. k \in SUBSET (1 .. k) /\ 1 .. k # {}
    OBVIOUS
  <2>. QED BY <2>1, MaxFacts
<1>2. k \in 1 .. k
  OBVIOUS
<1>3. Max(1 .. k) >= k
  BY <1>1, <1>2
<1>4. Max(1 .. k) <= k /\ Max(1 .. k) \in Nat
  BY <1>1
<1>. QED BY <1>3, <1>4

(* What the steps whose numbers are in S make of c, one after the other.   *)
Some(F, T, S) == [i \in DOMAIN F |-> IF i \in S THEN F[i] ELSE [s \in T |-> s]]
Folded(F, T, n, c, S) ==
  CHOOSE x : \E f \in [0 .. n -> T] : Recurs(f, n, c, Some(F, T, S)) /\ x = f[n]

FoldedBy(f, F, T, n, c, S) ==
  f \in [0 .. n -> T] /\ Recurs(f, n, c, Some(F, T, S)) /\ Folded(F, T, n, c, S) = f[n]

LEMMA FoldedIs ==
  ASSUME NEW n \in Nat, NEW T, NEW c \in T, NEW F \in [1 .. n -> [T -> T]], NEW S
  PROVE  \E f : FoldedBy(f, F, T, n, c, S)
<1>. DEFINE G == Some(F, T, S)
            P(x) == \E f \in [0 .. n -> T] : Recurs(f, n, c, G) /\ x = f[n]
<1>1. G \in [1 .. n -> [T -> T]]
  BY DEF Some
<1>2. PICK f \in [0 .. n -> T] : Recurs(f, n, c, G)
  <2>. HIDE DEF G
  <2>. QED BY <1>1, Recursion
<1>3. P(f[n])
  BY <1>2
<1>4. P(CHOOSE x : P(x))
  <2>. HIDE DEF P
  <2>. QED BY <1>3
<1>. QED BY <1>4 DEF Folded, FoldedBy

LEMMA FoldedNone ==
  ASSUME NEW n \in Nat, NEW T, NEW c \in T, NEW F \in [1 .. n -> [T -> T]]
  PROVE  Folded(F, T, n, c, {}) = c
<1>. DEFINE G == Some(F, T, {})
<1>1. PICK f : FoldedBy(f, F, T, n, c, {})
  BY FoldedIs
<1>2. f \in [0 .. n -> T] /\ Recurs(f, n, c, G) /\ Folded(F, T, n, c, {}) = f[n]
  BY <1>1 DEF FoldedBy
<1>2a. Stays(f, 0, n, G)
  BY <1>2 DEF Some, Stays
<1>3. 0 \in 0 .. n
  OBVIOUS
<1>. HIDE DEF G
<1>4. f[n] = f[0]
  BY <1>2, <1>2a, <1>3, RecursStay
<1>. QED BY <1>2, <1>4 DEF Recurs

LEMMA FoldedMax ==
  ASSUME NEW n \in Nat, NEW T, NEW c \in T, NEW F \in [1 .. n -> [T -> T]],
         NEW S \in SUBSET (1 .. n), NEW x \in S, \A y \in S : x >= y
  PROVE  /\ Folded(F, T, n, c, S) = F[x][Folded(F, T, n, c, S \ {x})]
         /\ Folded(F, T, n, c, S \ {x}) \in T
<1>. DEFINE G == Some(F, T, S)  H == Some(F, T, S \ {x})
<1>0. PICK f, h : FoldedBy(f, F, T, n, c, S) /\ FoldedBy(h, F, T, n, c, S \ {x})
  <2>1. \A R : \E f : FoldedBy(f, F, T, n, c, R)
    BY FoldedIs
  <2>. QED BY <2>1
<1>1. f \in [0 .. n -> T] /\ Recurs(f, n, c, G) /\ Folded(F, T, n, c, S) = f[n]
  BY <1>0 DEF FoldedBy
<1>2. h \in [0 .. n -> T] /\ Recurs(h, n, c, H) /\ Folded(F, T, n, c, S \ {x}) = h[n]
  BY <1>0 DEF FoldedBy
<1>3. x \in 1 .. n /\ x - 1 \in 0 .. n /\ x \in 0 .. n /\ (x - 1) + 1 = x
  OBVIOUS
<1>4. \A i \in 1 .. n : G[i] = (IF i \in S THEN F[i] ELSE [s \in T |-> s])
  BY DEF Some
<1>5. \A i \in 1 .. n : H[i] = (IF i \in S /\ i # x THEN F[i] ELSE [s \in T |-> s])
  BY DEF Some
<1>. HIDE DEF G, H
<1>6. f[x - 1] = h[x - 1]
  <2>1. ASSUME NEW i \in 1 .. x - 1 PROVE G[i] = H[i]
    <3>1. i \in 1 .. n /\ i # x
      BY <1>3
    <3>. QED BY <1>4, <1>5, <3>1
  <2>. QED BY <1>1, <1>2, <1>3, <2>1, RecursSame
<1>7. f[n] = f[x]
  <2>1. ASSUME NEW i \in x + 1 .. n PROVE G[i][f[i - 1]] = f[i - 1]
    <3>1. i \in 1 .. n /\ i - 1 \in 0 .. n /\ i \notin S
      BY <1>3
    <3>2. G[i] = [s \in T |-> s] /\ f[i - 1] \in T
      BY <1>1, <1>4, <3>1
    <3>. QED BY <3>2
  <2>2. Stays(f, x, n, G)
    BY <2>1 DEF Stays
  <2>. QED BY <1>1, <1>3, <2>2, RecursStay
<1>8. h[n] = h[x - 1]
  <2>. DEFINE k == x - 1
  <2>1. ASSUME NEW i \in k + 1 .. n PROVE H[i][h[i - 1]] = h[i - 1]
    <3>1. i \in 1 .. n /\ i - 1 \in 0 .. n /\ ~(i \in S /\ i # x)
      BY <1>3
    <3>2. H[i] = [s \in T |-> s] /\ h[i - 1] \in T
      BY <1>2, <1>5, <3>1
    <3>. QED BY <3>2
  <2>2. k \in 0 .. n
    BY <1>3
  <2>. HIDE DEF k
  <2>3. Stays(h, k, n, H)
    BY <2>1 DEF Stays
  <2>4. h[n] = h[k]
    BY <1>2, <2>2, <2>3, RecursStay
  <2>. QED BY <2>4 DEF k
<1>9. f[x] = F[x][f[x - 1]]
  BY <1>1, <1>3, <1>4 DEF Recurs
<1>10. h[n] \in T
  <2>1. n \in 0 .. n
    OBVIOUS
  <2>. QED BY <1>2, <2>1
<1>. QED BY <1>1, <1>2, <1>6, <1>7, <1>8, <1>9, <1>10
-----------------------------------------------------------------------------
(* The sums stay in 32 bits.                                               *)
LEMMA PlusIn ==
  ASSUME NEW s \in 0 .. W32 - 1, NEW w \in Nat
  PROVE  Plus(s, w) \in 0 .. W32 - 1 /\ PlusFold(s, w) \in 0 .. W32 - 1
<1>1. s + w \in Nat /\ W32 \in Nat \ {0}
  BY WordFacts
<1>2. Plus(s, w) \in Nat /\ Plus(s, w) < W32
  <2>. DEFINE x == s + w
  <2>1. x \in Nat
    BY <1>1
  <2>. HIDE DEF x
  <2>2. x % W32 \in Nat /\ x % W32 < W32
    BY <1>1, <2>1, DivMod
  <2>. QED BY <2>2 DEF Plus, x
<1>3. Carry(Plus(s, w)) \in Nat /\ Carry(Plus(s, w)) < W32
  <2>1. Carry(Plus(s, w)) \in Nat /\ Carry(Plus(s, w)) <= 2 * W16 - 2
    BY <1>2, CarryFacts
  <2>. QED BY <2>1, WordFacts
<1>. QED BY <1>1, <1>2, <1>3 DEF PlusFold

(* The loop over the segment.                                              *)
LEMMA BodySum ==
  ASSUME NEW ws \in Seq(Nat)
  PROVE  \E f \in [0 .. Len(ws) -> (0 .. W32 - 1)] :
           /\ f[0] = 0 /\ \A i \in 1 .. Len(ws) : f[i] = PlusFold(f[i - 1], ws[i])
           /\ FoldLeft(PlusFold, 0, ws) = f[Len(ws)]
<1>. DEFINE n == Len(ws)  T == (0 .. W32 - 1)
            F == [i \in 1 .. n |-> [s \in T |-> PlusFold(s, ws[i])]]
            top(S) == Max(S)
            P(f) == f = [S \in SUBSET (DOMAIN ws) |->
                           IF S = {} THEN 0 ELSE PlusFold(f[S \ {top(S)}], ws[top(S)])]
            g == [S \in SUBSET (1 .. n) |-> Folded(F, T, n, 0, S)]
            iter == CHOOSE f : P(f)
<1>1. n \in Nat /\ DOMAIN ws = 1 .. n /\ 0 \in T
  BY WordFacts
<1>2. F \in [1 .. n -> [T -> T]] /\ \A i \in 1 .. n, s \in T : F[i][s] = PlusFold(s, ws[i])
  <2>1. ASSUME NEW i \in 1 .. n, NEW s \in T PROVE PlusFold(s, ws[i]) \in T
    <3>1. ws[i] \in Nat
      OBVIOUS
    <3>. QED BY <3>1, PlusIn
  <2>. QED BY <2>1
<1>3. FoldLeft(PlusFold, 0, ws) = iter[1 .. n]
  BY <1>1 DEF FoldLeft, MapThenFoldSet
<1>4. P(g)
  <2>1. ASSUME NEW S \in SUBSET (1 .. n)
        PROVE  g[S] = IF S = {} THEN 0 ELSE PlusFold(g[S \ {top(S)}], ws[top(S)])
    <3>1. CASE S = {}
      <4>. HIDE DEF F, T, n
      <4>1. Folded(F, T, n, 0, {}) = 0
        BY <1>1, <1>2, FoldedNone
      <4>. QED BY <3>1, <4>1
    <3>2. CASE S # {}
      <4>1. top(S) \in S /\ \A y \in S : top(S) >= y
        BY <1>1, <3>2, MaxFacts
      <4>2. S \ {top(S)} \in SUBSET (1 .. n) /\ top(S) \in 1 .. n
        BY <4>1
      <4>. HIDE DEF F, T, n, top
      <4>3. /\ Folded(F, T, n, 0, S) = F[top(S)][Folded(F, T, n, 0, S \ {top(S)})]
            /\ Folded(F, T, n, 0, S \ {top(S)}) \in T
        BY <1>1, <1>2, <4>1, FoldedMax
      <4>4. Folded(F, T, n, 0, S) = PlusFold(Folded(F, T, n, 0, S \ {top(S)}), ws[top(S)])
        BY <1>2, <4>2, <4>3
      <4>5. /\ g[S] = Folded(F, T, n, 0, S)
            /\ g[S \ {top(S)}] = Folded(F, T, n, 0, S \ {top(S)})
        BY <4>2
      <4>. HIDE DEF g
      <4>. QED BY <3>2, <4>4, <4>5
    <3>. QED BY <3>1, <3>2
  <2>. HIDE DEF F, T, top
  <2>. QED BY <1>1, <2>1
<1>5. P(iter)
  <2>. HIDE DEF P
  <2>. QED BY <1>4
<1>6. \A S \in SUBSET (1 .. n) :
        iter[S] = IF S = {} THEN 0 ELSE PlusFold(iter[S \ {top(S)}], ws[top(S)])
  <2>. HIDE DEF iter, top, n
  <2>. QED BY <1>1, <1>5
<1>7. PICK f \in [0 .. n -> T] : Recurs(f, n, 0, F)
  <2>. HIDE DEF F, T, n
  <2>. QED BY <1>1, <1>2, Recursion
<1>. DEFINE K == {k \in 0 .. n : iter[1 .. k] = f[k]}
<1>. HIDE DEF iter, P, g, n, F, T
<1>8. 0 \in K
  <2>1. 1 .. 0 = {} /\ 0 \in 0 .. n /\ f[0] = 0 /\ {} \in SUBSET (1 .. n)
    BY <1>1, <1>7 DEF Recurs
  <2>2. iter[{}] = 0
    BY <1>6, <2>1
  <2>. QED BY <2>1, <2>2
<1>9. \A i \in 1 .. n : f[i] = PlusFold(f[i - 1], ws[i])
  <2>1. ASSUME NEW i \in 1 .. n PROVE f[i] = PlusFold(f[i - 1], ws[i])
    <3>1. i - 1 \in 0 .. n /\ f[i] = F[i][f[i - 1]]
      BY <1>1, <1>7 DEF Recurs
    <3>. QED BY <1>2, <3>1
  <2>. QED BY <2>1
<1>10. \A k \in 0 .. n - 1 : k \in K => k + 1 \in K
  <2>1. SUFFICES ASSUME NEW k \in 0 .. n - 1, iter[1 .. k] = f[k]
                 PROVE  k + 1 \in 0 .. n /\ iter[1 .. k + 1] = f[k + 1]
    OBVIOUS
  <2>. DEFINE j == k + 1
  <2>2. j \in Nat \ {0} /\ j \in 1 .. n /\ j \in 0 .. n /\ j - 1 = k /\ 1 .. j \in SUBSET (1 .. n)
    BY <1>1
  <2>. HIDE DEF j
  <2>3. top(1 .. j) = j /\ (1 .. j) \ {j} = 1 .. k /\ 1 .. j # {}
    BY <2>2, MaxUpTo
  <2>. HIDE DEF top
  <2>4. iter[1 .. j] = PlusFold(iter[1 .. k], ws[j])
    BY <1>6, <2>2, <2>3
  <2>5. iter[1 .. j] = f[j]
    BY <1>9, <2>1, <2>2, <2>4
  <2>. QED BY <2>2, <2>5 DEF j
<1>11. \A k \in 0 .. n : k \in K
  <2>. HIDE DEF K
  <2>. QED BY <1>1, <1>8, <1>10, UpTo
<1>12. iter[1 .. n] = f[n]
  BY <1>1, <1>11
<1>. QED BY <1>3, <1>7, <1>9, <1>12 DEF Recurs, n, T

(* The loop over the addresses.                                            *)
LEMMA PseudoSum ==
  ASSUME NEW c \in 0 .. W32 - 1, NEW ws \in Seq(Word)
  PROVE  \E f \in [0 .. Len(ws) -> (0 .. W32 - 1)] :
           /\ f[0] = c /\ \A i \in 1 .. Len(ws) : f[i] = Plus(f[i - 1], Swap(ws[i]))
           /\ FoldLeft(LAMBDA s, w : Plus(s, Swap(w)), c, ws) = f[Len(ws)]
<1>. DEFINE n == Len(ws)  T == (0 .. W32 - 1)
            F == [i \in 1 .. n |-> [s \in T |-> Plus(s, Swap(ws[i]))]]
            top(S) == Max(S)
            P(f) == f = [S \in SUBSET (DOMAIN ws) |->
                           IF S = {} THEN c ELSE Plus(f[S \ {top(S)}], Swap(ws[top(S)]))]
            g == [S \in SUBSET (1 .. n) |-> Folded(F, T, n, c, S)]
            iter == CHOOSE f : P(f)
<1>1. n \in Nat /\ DOMAIN ws = 1 .. n /\ c \in T
  BY WordFacts
<1>2. F \in [1 .. n -> [T -> T]] /\ \A i \in 1 .. n, s \in T : F[i][s] = Plus(s, Swap(ws[i]))
  <2>1. ASSUME NEW i \in 1 .. n, NEW s \in T PROVE Plus(s, Swap(ws[i])) \in T
    <3>1. ws[i] \in Word
      OBVIOUS
    <3>2. Swap(ws[i]) \in Nat
      BY <3>1, SwapFacts DEF Word
    <3>. QED BY <3>2, PlusIn
  <2>. QED BY <2>1
<1>3. FoldLeft(LAMBDA s, w : Plus(s, Swap(w)), c, ws) = iter[1 .. n]
  BY <1>1 DEF FoldLeft, MapThenFoldSet
<1>4. P(g)
  <2>1. ASSUME NEW S \in SUBSET (1 .. n)
        PROVE  g[S] = IF S = {} THEN c ELSE Plus(g[S \ {top(S)}], Swap(ws[top(S)]))
    <3>1. CASE S = {}
      <4>. HIDE DEF F, T, n
      <4>1. Folded(F, T, n, c, {}) = c
        BY <1>1, <1>2, FoldedNone
      <4>. QED BY <3>1, <4>1
    <3>2. CASE S # {}
      <4>1. top(S) \in S /\ \A y \in S : top(S) >= y
        BY <1>1, <3>2, MaxFacts
      <4>2. S \ {top(S)} \in SUBSET (1 .. n) /\ top(S) \in 1 .. n
        BY <4>1
      <4>. HIDE DEF F, T, n, top
      <4>3. /\ Folded(F, T, n, c, S) = F[top(S)][Folded(F, T, n, c, S \ {top(S)})]
            /\ Folded(F, T, n, c, S \ {top(S)}) \in T
        BY <1>1, <1>2, <4>1, FoldedMax
      <4>4. Folded(F, T, n, c, S) = Plus(Folded(F, T, n, c, S \ {top(S)}), Swap(ws[top(S)]))
        BY <1>2, <4>2, <4>3
      <4>5. /\ g[S] = Folded(F, T, n, c, S)
            /\ g[S \ {top(S)}] = Folded(F, T, n, c, S \ {top(S)})
        BY <4>2
      <4>. HIDE DEF g
      <4>. QED BY <3>2, <4>4, <4>5
    <3>. QED BY <3>1, <3>2
  <2>. HIDE DEF F, T, top
  <2>. QED BY <1>1, <2>1
<1>5. P(iter)
  <2>. HIDE DEF P
  <2>. QED BY <1>4
<1>6. \A S \in SUBSET (1 .. n) :
        iter[S] = IF S = {} THEN c ELSE Plus(iter[S \ {top(S)}], Swap(ws[top(S)]))
  <2>. HIDE DEF iter, top, n
  <2>. QED BY <1>1, <1>5
<1>7. PICK f \in [0 .. n -> T] : Recurs(f, n, c, F)
  <2>. HIDE DEF F, T, n
  <2>. QED BY <1>1, <1>2, Recursion
<1>. DEFINE K == {k \in 0 .. n : iter[1 .. k] = f[k]}
<1>. HIDE DEF iter, P, g, n, F, T
<1>8. 0 \in K
  <2>1. 1 .. 0 = {} /\ 0 \in 0 .. n /\ f[0] = c /\ {} \in SUBSET (1 .. n)
    BY <1>1, <1>7 DEF Recurs
  <2>2. iter[{}] = c
    BY <1>6, <2>1
  <2>. QED BY <2>1, <2>2
<1>9. \A i \in 1 .. n : f[i] = Plus(f[i - 1], Swap(ws[i]))
  <2>1. ASSUME NEW i \in 1 .. n PROVE f[i] = Plus(f[i - 1], Swap(ws[i]))
    <3>1. i - 1 \in 0 .. n /\ f[i] = F[i][f[i - 1]]
      BY <1>1, <1>7 DEF Recurs
    <3>. QED BY <1>2, <3>1
  <2>. QED BY <2>1
<1>10. \A k \in 0 .. n - 1 : k \in K => k + 1 \in K
  <2>1. SUFFICES ASSUME NEW k \in 0 .. n - 1, iter[1 .. k] = f[k]
                 PROVE  k + 1 \in 0 .. n /\ iter[1 .. k + 1] = f[k + 1]
    OBVIOUS
  <2>. DEFINE j == k + 1
  <2>2. j \in Nat \ {0} /\ j \in 1 .. n /\ j \in 0 .. n /\ j - 1 = k /\ 1 .. j \in SUBSET (1 .. n)
    BY <1>1
  <2>. HIDE DEF j
  <2>3. top(1 .. j) = j /\ (1 .. j) \ {j} = 1 .. k /\ 1 .. j # {}
    BY <2>2, MaxUpTo
  <2>. HIDE DEF top
  <2>4. iter[1 .. j] = Plus(iter[1 .. k], Swap(ws[j]))
    BY <1>6, <2>2, <2>3
  <2>5. iter[1 .. j] = f[j]
    BY <1>9, <2>1, <2>2, <2>4
  <2>. QED BY <2>2, <2>5 DEF j
<1>11. \A k \in 0 .. n : k \in K
  <2>. HIDE DEF K
  <2>. QED BY <1>1, <1>8, <1>10, UpTo
<1>12. iter[1 .. n] = f[n]
  BY <1>1, <1>11
<1>. QED BY <1>3, <1>7, <1>9, <1>12 DEF Recurs, n, T

(* The receiver's sum.                                                     *)
LEMMA NetSum ==
  ASSUME NEW c \in Nat, NEW ws \in Seq(Nat)
  PROVE  \E f \in [0 .. Len(ws) -> Nat] :
           /\ f[0] = c /\ \A i \in 1 .. Len(ws) : f[i] = (f[i - 1] + ws[i])
           /\ FoldLeft(+, c, ws) = f[Len(ws)]
<1>. DEFINE n == Len(ws)  T == Nat
            F == [i \in 1 .. n |-> [s \in T |-> (s + ws[i])]]
            top(S) == Max(S)
            P(f) == f = [S \in SUBSET (DOMAIN ws) |->
                           IF S = {} THEN c ELSE (f[S \ {top(S)}] + ws[top(S)])]
            g == [S \in SUBSET (1 .. n) |-> Folded(F, T, n, c, S)]
            iter == CHOOSE f : P(f)
<1>1. n \in Nat /\ DOMAIN ws = 1 .. n /\ c \in T
  BY WordFacts
<1>2. F \in [1 .. n -> [T -> T]] /\ \A i \in 1 .. n, s \in T : F[i][s] = (s + ws[i])
  <2>1. ASSUME NEW i \in 1 .. n, NEW s \in T PROVE (s + ws[i]) \in T
    OBVIOUS
  <2>. QED BY <2>1
<1>3. FoldLeft(+, c, ws) = iter[1 .. n]
  BY <1>1 DEF FoldLeft, MapThenFoldSet
<1>4. P(g)
  <2>1. ASSUME NEW S \in SUBSET (1 .. n)
        PROVE  g[S] = IF S = {} THEN c ELSE (g[S \ {top(S)}] + ws[top(S)])
    <3>1. CASE S = {}
      <4>. HIDE DEF F, T, n
      <4>1. Folded(F, T, n, c, {}) = c
        BY <1>1, <1>2, FoldedNone
      <4>. QED BY <3>1, <4>1
    <3>2. CASE S # {}
      <4>1. top(S) \in S /\ \A y \in S : top(S) >= y
        BY <1>1, <3>2, MaxFacts
      <4>2. S \ {top(S)} \in SUBSET (1 .. n) /\ top(S) \in 1 .. n
        BY <4>1
      <4>. HIDE DEF F, T, n, top
      <4>3. /\ Folded(F, T, n, c, S) = F[top(S)][Folded(F, T, n, c, S \ {top(S)})]
            /\ Folded(F, T, n, c, S \ {top(S)}) \in T
        BY <1>1, <1>2, <4>1, FoldedMax
      <4>4. Folded(F, T, n, c, S) = (Folded(F, T, n, c, S \ {top(S)}) + ws[top(S)])
        BY <1>2, <4>2, <4>3
      <4>5. /\ g[S] = Folded(F, T, n, c, S)
            /\ g[S \ {top(S)}] = Folded(F, T, n, c, S \ {top(S)})
        BY <4>2
      <4>. HIDE DEF g
      <4>. QED BY <3>2, <4>4, <4>5
    <3>. QED BY <3>1, <3>2
  <2>. HIDE DEF F, T, top
  <2>. QED BY <1>1, <2>1
<1>5. P(iter)
  <2>. HIDE DEF P
  <2>. QED BY <1>4
<1>6. \A S \in SUBSET (1 .. n) :
        iter[S] = IF S = {} THEN c ELSE (iter[S \ {top(S)}] + ws[top(S)])
  <2>. HIDE DEF iter, top, n
  <2>. QED BY <1>1, <1>5
<1>7. PICK f \in [0 .. n -> T] : Recurs(f, n, c, F)
  <2>. HIDE DEF F, T, n
  <2>. QED BY <1>1, <1>2, Recursion
<1>. DEFINE K == {k \in 0 .. n : iter[1 .. k] = f[k]}
<1>. HIDE DEF iter, P, g, n, F, T
<1>8. 0 \in K
  <2>1. 1 .. 0 = {} /\ 0 \in 0 .. n /\ f[0] = c /\ {} \in SUBSET (1 .. n)
    BY <1>1, <1>7 DEF Recurs
  <2>2. iter[{}] = c
    BY <1>6, <2>1
  <2>. QED BY <2>1, <2>2
<1>9. \A i \in 1 .. n : f[i] = (f[i - 1] + ws[i])
  <2>1. ASSUME NEW i \in 1 .. n PROVE f[i] = (f[i - 1] + ws[i])
    <3>1. i - 1 \in 0 .. n /\ f[i] = F[i][f[i - 1]]
      BY <1>1, <1>7 DEF Recurs
    <3>. QED BY <1>2, <3>1
  <2>. QED BY <2>1
<1>10. \A k \in 0 .. n - 1 : k \in K => k + 1 \in K
  <2>1. SUFFICES ASSUME NEW k \in 0 .. n - 1, iter[1 .. k] = f[k]
                 PROVE  k + 1 \in 0 .. n /\ iter[1 .. k + 1] = f[k + 1]
    OBVIOUS
  <2>. DEFINE j == k + 1
  <2>2. j \in Nat \ {0} /\ j \in 1 .. n /\ j \in 0 .. n /\ j - 1 = k /\ 1 .. j \in SUBSET (1 .. n)
    BY <1>1
  <2>. HIDE DEF j
  <2>3. top(1 .. j) = j /\ (1 .. j) \ {j} = 1 .. k /\ 1 .. j # {}
    BY <2>2, MaxUpTo
  <2>. HIDE DEF top
  <2>4. iter[1 .. j] = (iter[1 .. k] + ws[j])
    BY <1>6, <2>2, <2>3
  <2>5. iter[1 .. j] = f[j]
    BY <1>9, <2>1, <2>2, <2>4
  <2>. QED BY <2>2, <2>5 DEF j
<1>11. \A k \in 0 .. n : k \in K
  <2>. HIDE DEF K
  <2>. QED BY <1>1, <1>8, <1>10, UpTo
<1>12. iter[1 .. n] = f[n]
  BY <1>1, <1>11
<1>. QED BY <1>3, <1>7, <1>9, <1>12 DEF Recurs, n, T
-----------------------------------------------------------------------------
(* The checksum in steps.                                                  *)
Body(bs)         == FoldLeft(PlusFold, 0, HostWords(bs))
Padded(bs)       == IF Len(bs) % 2 = 1 THEN Plus(Body(bs), bs[Len(bs)]) ELSE Body(bs)
Pseudo(bs, a)    == FoldLeft(LAMBDA s, w : Plus(s, Swap(w)), Padded(bs), a)
Whole(bs, a, p)  == Plus(Plus(Pseudo(bs, a), Swap(p)), Swap(Len(bs) % W16))
Total(bs, a, p)  == FoldLeft(+, p + Len(bs), NetWords(bs) \o a)

LEMMA ChecksumIs ==
  ASSUME NEW bs, NEW src, NEW dst, NEW p
  PROVE  TcpChecksum(bs, src, dst, p) = M - Carried(Whole(bs, src \o dst, p))
BY DEF TcpChecksum, Whole, Pseudo, Padded, Body, M

LEMMA HostWordsFacts ==
  ASSUME NEW bs \in Seq(Byte)
  PROVE  /\ HostWords(bs) \in Seq(Word) /\ HostWords(bs) \in Seq(Nat)
         /\ Len(HostWords(bs)) = Len(bs) \div 2
         /\ \A i \in 1 .. Len(bs) \div 2 :
              /\ 2 * i - 1 \in DOMAIN bs /\ 2 * i \in DOMAIN bs
              /\ bs[2 * i - 1] \in Byte /\ bs[2 * i] \in Byte
              /\ HostWords(bs)[i] = B * bs[2 * i] + bs[2 * i - 1]
              /\ HostWords(bs)[i] \in Word
<1>. DEFINE k == Len(bs) \div 2
<1>1. k \in Nat /\ Len(bs) \in Nat /\ 2 * k <= Len(bs)
  OBVIOUS
<1>2. ASSUME NEW i \in 1 .. k
      PROVE  /\ 2 * i - 1 \in DOMAIN bs /\ 2 * i \in DOMAIN bs
             /\ bs[2 * i - 1] \in Byte /\ bs[2 * i] \in Byte
             /\ bs[2 * i - 1] + B * bs[2 * i] = B * bs[2 * i] + bs[2 * i - 1]
             /\ B * bs[2 * i] + bs[2 * i - 1] \in Word
  <2>1. 2 * i - 1 \in 1 .. Len(bs) /\ 2 * i \in 1 .. Len(bs)
    BY <1>1
  <2>2. bs[2 * i - 1] \in Byte /\ bs[2 * i] \in Byte
    BY <2>1
  <2>. DEFINE x == bs[2 * i - 1]  y == bs[2 * i]
  <2>3. x \in Byte /\ y \in Byte
    BY <2>2
  <2>. HIDE DEF x, y
  <2>4. x \in Nat /\ y \in Nat /\ B \in Nat
    BY <2>3, WordFacts DEF Byte
  <2>5. x + B * y = B * y + x
    BY <2>4
  <2>6. B * y + x \in Word
    BY <2>3, WordOf
  <2>. QED BY <2>1, <2>3, <2>5, <2>6 DEF x, y
<1>3. \A i \in 1 .. k : HostWords(bs)[i] = B * bs[2 * i] + bs[2 * i - 1]
  BY <1>2 DEF HostWords
<1>4. HostWords(bs) \in [1 .. k -> Word]
  BY <1>2, <1>3 DEF HostWords
<1>5. HostWords(bs) \in Seq(Word) /\ Len(HostWords(bs)) = k
  BY <1>1, <1>4
<1>6. HostWords(bs) \in Seq(Nat)
  <2>1. Word \subseteq Nat
    BY WordFacts DEF Word
  <2>2. HostWords(bs) \in [1 .. k -> Nat]
    BY <1>4, <2>1
  <2>. QED BY <1>1, <2>2
<1>. QED BY <1>2, <1>3, <1>4, <1>5, <1>6

(* Every sum has 32 bits, and the checksum is a word.                      *)
LEMMA SumsIn ==
  ASSUME NEW bs \in Seq(Byte), NEW a \in Seq(Word), NEW p \in Word
  PROVE  /\ Body(bs) \in 0 .. W32 - 1 /\ Padded(bs) \in 0 .. W32 - 1
         /\ Pseudo(bs, a) \in 0 .. W32 - 1 /\ Whole(bs, a, p) \in 0 .. W32 - 1
<1>1. Body(bs) \in 0 .. W32 - 1
  <2>1. HostWords(bs) \in Seq(Nat)
    BY HostWordsFacts
  <2>2. PICK f \in [0 .. Len(HostWords(bs)) -> 0 .. W32 - 1] :
          FoldLeft(PlusFold, 0, HostWords(bs)) = f[Len(HostWords(bs))]
    BY <2>1, BodySum
  <2>3. Len(HostWords(bs)) \in 0 .. Len(HostWords(bs))
    BY <2>1
  <2>. QED BY <2>2, <2>3 DEF Body
<1>2. Padded(bs) \in 0 .. W32 - 1
  <2>1. Len(bs) % 2 = 1 => bs[Len(bs)] \in Nat
    <3>1. Len(bs) % 2 = 1 => Len(bs) \in DOMAIN bs
      OBVIOUS
    <3>2. Len(bs) % 2 = 1 => bs[Len(bs)] \in Byte
      BY <3>1
    <3>. QED BY <3>2, WordFacts DEF Byte
  <2>. QED BY <1>1, <2>1, PlusIn DEF Padded
<1>3. Pseudo(bs, a) \in 0 .. W32 - 1
  <2>1. PICK f \in [0 .. Len(a) -> 0 .. W32 - 1] :
          FoldLeft(LAMBDA s, w : Plus(s, Swap(w)), Padded(bs), a) = f[Len(a)]
    BY <1>2, PseudoSum
  <2>2. Len(a) \in 0 .. Len(a)
    OBVIOUS
  <2>. QED BY <2>1, <2>2 DEF Pseudo
<1>4. Whole(bs, a, p) \in 0 .. W32 - 1
  <2>1. Len(bs) % W16 \in Word
    <3>1. Len(bs) \in Nat /\ W16 \in Nat \ {0}
      BY WordFacts
    <3>2. Len(bs) % W16 \in Nat /\ Len(bs) % W16 < W16
      BY <3>1, DivMod
    <3>. QED BY <3>1, <3>2 DEF Word
  <2>2. Swap(p) \in Nat /\ Swap(Len(bs) % W16) \in Nat
    BY <2>1, SwapFacts DEF Word
  <2>3. Plus(Pseudo(bs, a), Swap(p)) \in 0 .. W32 - 1
    BY <1>3, <2>2, PlusIn
  <2>. QED BY <2>2, <2>3, PlusIn DEF Whole
<1>. QED BY <1>1, <1>2, <1>3, <1>4

LEMMA ChecksumWord ==
  ASSUME NEW bs \in Seq(Byte), NEW src \in Seq(Word), NEW dst \in Seq(Word), NEW p \in Word
  PROVE  TcpChecksum(bs, src, dst, p) \in Word
<1>. DEFINE t == Whole(bs, src \o dst, p)
<1>1. src \o dst \in Seq(Word)
  OBVIOUS
<1>2. t \in Nat /\ t < W32
  <2>1. t \in 0 .. W32 - 1
    BY <1>1, SumsIn
  <2>. HIDE DEF t
  <2>. QED BY <2>1, WordFacts
<1>. HIDE DEF t
<1>3. Carried(t) \in Word
  BY <1>2, CarriedFacts
<1>4. M - Carried(t) \in Word
  BY <1>3, WordFacts DEF Word
<1>. QED BY <1>4, ChecksumIs DEF t
-----------------------------------------------------------------------------
(* With bytes of two bits or more no addition overflows: the loop keeps    *)
(* the sum below its highest bit, and few words are added after it.        *)
Half == W32 \div 2

LEMMA HalfFacts ==
  ASSUME B >= 4
  PROVE  /\ Half \in Nat /\ Half >= 8 * W16 /\ W32 >= Half + 8 * W16 /\ W16 >= 16
         /\ \A x \in Nat : x >= W32 \div 2 <=> x >= Half
<1>1. B * B >= 4 * B /\ 4 * B >= 16
  BY WordFacts
<1>2. W16 \in Nat /\ W16 >= 16
  BY <1>1, WordFacts
<1>. HIDE DEF W16
<1>3. W16 * W16 >= 16 * W16
  BY <1>2
<1>4. W32 \in Nat /\ W32 >= 16 * W16
  BY <1>3, WordFacts
<1>. HIDE DEF W32
<1>. QED BY <1>2, <1>4 DEF Half

LEMMA Room ==
  ASSUME B >= 4
  PROVE  /\ W16 \in Nat /\ W32 \in Nat /\ Half \in Nat /\ W16 >= 16 /\ B \in Nat /\ B < W16
         /\ Half >= 8 * W16 /\ W32 >= Half + 8 * W16
BY HalfFacts, WordFacts

LEMMA PlusExact ==
  ASSUME NEW s \in Nat, NEW w \in Nat, s + w < W32
  PROVE  Plus(s, w) = s + w
<1>. DEFINE x == s + w
<1>1. x \in Nat /\ x < W32 /\ W32 \in Nat \ {0}
  BY WordFacts
<1>. HIDE DEF x
<1>2. x % W32 = x
  BY <1>1, Below
<1>. QED BY <1>2 DEF x, Plus

LEMMA FoldLow ==
  ASSUME B >= 4, NEW s \in Nat, s < Half, NEW w \in Word
  PROVE  /\ PlusFold(s, w) \in Nat /\ PlusFold(s, w) < Half
         /\ Cong(PlusFold(s, w), s + w)
<1>1. w \in Nat /\ w < W16
  BY WordFacts DEF Word
<1>2. s + w \in Nat /\ s + w < W32
  BY <1>1, HalfFacts, WordFacts
<1>3. Plus(s, w) = s + w
  BY <1>1, <1>2, PlusExact
<1>4. CASE s + w >= Half
  <2>1. PlusFold(s, w) = Carry(s + w)
    BY <1>3, <1>4, <1>2, HalfFacts DEF PlusFold
  <2>2. /\ Carry(s + w) \in Nat /\ Carry(s + w) <= 2 * W16 - 2
        /\ Cong(Carry(s + w), s + w)
    BY <1>2, CarryFacts
  <2>. QED BY <2>1, <2>2, HalfFacts, WordFacts
<1>5. CASE ~(s + w >= Half)
  <2>1. PlusFold(s, w) = s + w
    BY <1>3, <1>5, <1>2, HalfFacts DEF PlusFold
  <2>. QED BY <2>1, <1>2, <1>5, CongRefl, HalfFacts
<1>. QED BY <1>4, <1>5

(* A word more on both sides.                                              *)
LEMMA Follow ==
  ASSUME NEW c \in Int, NEW f \in Int, NEW w \in Int, NEW g, NEW u, NEW e,
         Cong(g, c + B * f), Cong(u, B * w), Cong(e, f + w)
  PROVE  Cong(g + u, c + B * e)
<1>1. Cong(g + u, (c + B * f) + B * w)
  BY CongAdd
<1>2. B \in Int /\ e \in Int
  BY WordFacts DEF Cong
<1>3. (c + B * f) + B * w = c + B * (f + w)
  BY <1>2
<1>4. Cong(B * (f + w), B * e)
  <2>1. Cong(f + w, e)
    BY CongSym
  <2>. QED BY <1>2, <2>1, CongMul
<1>5. Cong(c + B * (f + w), c + B * e)
  BY <1>4, CongRefl, CongAdd
<1>. QED BY <1>1, <1>3, <1>5, CongTrans

LEMMA SwapBack == ASSUME NEW w \in Word PROVE Cong(w, B * Swap(w))
<1>1. Swap(w) \in Word /\ Swap(Swap(w)) = w
  BY SwapFacts
<1>. QED BY <1>1, SwapFacts

LEMMA NetWordsFacts ==
  ASSUME NEW bs \in Seq(Byte)
  PROVE  /\ NetWords(bs) \in Seq(Word) /\ Len(NetWords(bs)) = (Len(bs) + 1) \div 2
         /\ \A i \in 1 .. Len(bs) \div 2 :
              i \in 1 .. (Len(bs) + 1) \div 2 /\ NetWords(bs)[i] = Swap(HostWords(bs)[i])
         /\ Len(bs) % 2 = 1 =>
              /\ (Len(bs) + 1) \div 2 = Len(bs) \div 2 + 1 /\ bs[Len(bs)] \in Byte
              /\ NetWords(bs)[Len(bs) \div 2 + 1] = B * bs[Len(bs)]
         /\ Len(bs) % 2 # 1 => (Len(bs) + 1) \div 2 = Len(bs) \div 2
<1>. DEFINE n == Len(bs)  m == (n + 1) \div 2
            At(i) == IF i \in DOMAIN bs THEN bs[i] ELSE 0
<1>1. n \in Nat /\ m \in Nat /\ DOMAIN bs = 1 .. n
  OBVIOUS
<1>2. \A i : At(i) \in Byte
  <2>1. 0 \in Byte
    BY WordFacts DEF Byte
  <2>. QED BY <2>1
<1>3. NetWords(bs) = [i \in 1 .. m |-> B * At(2 * i - 1) + At(2 * i)]
  BY DEF NetWords
<1>4. \A i \in 1 .. m : B * At(2 * i - 1) + At(2 * i) \in Word
  <2>. HIDE DEF At
  <2>. QED BY <1>2, WordOf
<1>5. NetWords(bs) \in [1 .. m -> Word]
  <2>. HIDE DEF At
  <2>. QED BY <1>3, <1>4
<1>6. NetWords(bs) \in Seq(Word) /\ Len(NetWords(bs)) = m
  BY <1>1, <1>5
<1>7. ASSUME NEW i \in 1 .. n \div 2
      PROVE  i \in 1 .. m /\ NetWords(bs)[i] = Swap(HostWords(bs)[i])
  <2>. DEFINE x == bs[2 * i - 1]  y == bs[2 * i]
  <2>1. /\ 2 * i - 1 \in DOMAIN bs /\ 2 * i \in DOMAIN bs /\ x \in Byte /\ y \in Byte
        /\ HostWords(bs)[i] = B * y + x
    BY HostWordsFacts
  <2>2. i \in 1 .. m
    BY <1>1
  <2>3. NetWords(bs)[i] = B * x + y
    BY <1>3, <2>1, <2>2
  <2>. HIDE DEF x, y
  <2>4. (B * y + x) \div B = y /\ (B * y + x) % B = x
    BY <2>1, WordOf
  <2>5. Swap(B * y + x) = x * B + y
    BY <2>4 DEF Swap
  <2>6. x * B = B * x
    BY <2>1, WordFacts DEF Byte
  <2>. QED BY <2>1, <2>2, <2>3, <2>5, <2>6
<1>8. ASSUME n % 2 = 1
      PROVE  /\ m = n \div 2 + 1 /\ bs[n] \in Byte
             /\ NetWords(bs)[n \div 2 + 1] = B * bs[n]
  <2>1. m = n \div 2 + 1 /\ m \in 1 .. m /\ n \in 1 .. n /\ 2 * m - 1 = n /\ 2 * m \notin 1 .. n
    BY <1>1, <1>8
  <2>2. bs[n] \in Byte
    BY <2>1
  <2>3. NetWords(bs)[m] = B * bs[n] + 0
    BY <1>1, <1>3, <2>1
  <2>4. B * bs[n] + 0 = B * bs[n]
    BY <2>2, WordFacts DEF Byte
  <2>. QED BY <2>1, <2>2, <2>3, <2>4
<1>9. n % 2 # 1 => m = n \div 2
  BY <1>1
<1>. QED BY <1>6, <1>7, <1>8, <1>9

(* The sums of the gateway and the receiver over the same words, and then  *)
(* over an odd last byte and the addresses.                                *)
LEMMA BodyResidue ==
  ASSUME B >= 4, NEW bs \in Seq(Byte), NEW c \in Nat, NEW g, g[0] = c,
         \A i \in 1 .. Len(bs) \div 2 : g[i] = g[i - 1] + NetWords(bs)[i]
  PROVE  /\ Body(bs) \in Nat /\ Body(bs) < Half
         /\ Cong(g[Len(bs) \div 2], c + B * Body(bs))
<1>. DEFINE k == Len(bs) \div 2  hw == HostWords(bs)  nw == NetWords(bs)
<1>1. PICK f \in [0 .. k -> 0 .. W32 - 1] :
        /\ f[0] = 0 /\ \A i \in 1 .. k : f[i] = PlusFold(f[i - 1], hw[i])
        /\ Body(bs) = f[k]
  <2>1. hw \in Seq(Nat) /\ Len(hw) = k
    BY HostWordsFacts
  <2>2. \E f \in [0 .. Len(hw) -> 0 .. W32 - 1] :
           /\ f[0] = 0 /\ \A i \in 1 .. Len(hw) : f[i] = PlusFold(f[i - 1], hw[i])
           /\ FoldLeft(PlusFold, 0, hw) = f[Len(hw)]
    <3>. HIDE DEF hw, k
    <3>. QED BY <2>1, BodySum
  <2>3. Body(bs) = FoldLeft(PlusFold, 0, hw)
    BY DEF Body
  <2>. HIDE DEF hw, k
  <2>. QED BY <2>1, <2>2, <2>3
<1>2. k \in Nat
  OBVIOUS
<1>3. \A i \in 1 .. k : hw[i] \in Word /\ nw[i] = Swap(hw[i])
  BY HostWordsFacts, NetWordsFacts
<1>4. \A i \in 1 .. k : g[i] = g[i - 1] + nw[i]
  OBVIOUS
<1>. HIDE DEF k, hw, nw
<1>. DEFINE S == {i \in 0 .. k : f[i] \in Nat /\ f[i] < Half /\ Cong(g[i], c + B * f[i])}
<1>5. 0 \in S
  <2>1. c + B * 0 = c /\ 0 < Half /\ 0 \in 0 .. k
    BY <1>2, HalfFacts, WordFacts
  <2>. QED BY <1>1, <2>1, CongRefl
<1>6. \A i \in 0 .. k - 1 : i \in S => i + 1 \in S
  <2>1. SUFFICES ASSUME NEW i \in 0 .. k - 1, f[i] \in Nat, f[i] < Half,
                        Cong(g[i], c + B * f[i])
                 PROVE  /\ i + 1 \in 0 .. k /\ f[i + 1] \in Nat /\ f[i + 1] < Half
                        /\ Cong(g[i + 1], c + B * f[i + 1])
    OBVIOUS
  <2>. DEFINE j == i + 1
  <2>2. j \in 1 .. k /\ j - 1 = i /\ j \in 0 .. k
    BY <1>2
  <2>. HIDE DEF j
  <2>3. hw[j] \in Word /\ nw[j] = Swap(hw[j]) /\ g[j] = g[i] + nw[j] /\ f[j] = PlusFold(f[i], hw[j])
    BY <1>1, <1>3, <1>4, <2>2
  <2>4. f[j] \in Nat /\ f[j] < Half /\ Cong(f[j], f[i] + hw[j])
    BY <2>1, <2>3, FoldLow
  <2>5. Cong(nw[j], B * hw[j])
    BY <2>3, SwapFacts
  <2>6. Cong(g[j], c + B * f[j])
    <3>1. hw[j] \in Int /\ f[i] \in Int /\ c \in Int
      BY <2>1, <2>3, WordFacts DEF Word
    <3>2. Cong(g[i] + nw[j], c + B * f[j])
      BY <2>1, <2>4, <2>5, <3>1, Follow
    <3>. QED BY <2>3, <3>2
  <2>. QED BY <2>2, <2>4, <2>6 DEF j
<1>7. \A i \in 0 .. k : i \in S
  <2>. HIDE DEF S
  <2>. QED BY <1>2, <1>5, <1>6, UpTo
<1>8. k \in S
  <2>1. k \in 0 .. k
    BY <1>2
  <2>. HIDE DEF S
  <2>. QED BY <1>7, <2>1
<1>. QED BY <1>1, <1>8 DEF k

LEMMA PadResidue ==
  ASSUME B >= 4, NEW bs \in Seq(Byte), NEW c \in Nat, NEW g, g[0] = c,
         \A i \in 1 .. (Len(bs) + 1) \div 2 : g[i] = g[i - 1] + NetWords(bs)[i]
  PROVE  /\ Padded(bs) \in Nat /\ Padded(bs) < Half + W16
         /\ Cong(g[(Len(bs) + 1) \div 2], c + B * Padded(bs))
<1>. DEFINE n == Len(bs)  k == n \div 2  m == (n + 1) \div 2  nw == NetWords(bs)
<1>1. Body(bs) \in Nat /\ Body(bs) < Half /\ Cong(g[k], c + B * Body(bs))
  <2>1. \A i \in 1 .. k : g[i] = g[i - 1] + nw[i]
    <3>1. \A i \in 1 .. k : i \in 1 .. m
      BY NetWordsFacts
    <3>. QED BY <3>1
  <2>. QED BY <2>1, BodyResidue
<1>2. CASE n % 2 # 1
  <2>1. Padded(bs) = Body(bs) /\ m = k
    BY <1>2, NetWordsFacts DEF Padded
  <2>. HIDE DEF n, k, m
  <2>. QED BY <1>1, <2>1, Room DEF n, k, m
<1>3. CASE n % 2 = 1
  <2>. DEFINE x == bs[n]
  <2>1. m = k + 1 /\ x \in Byte /\ nw[m] = B * x /\ m \in 1 .. m /\ m - 1 = k
    BY <1>3, NetWordsFacts
  <2>2. g[m] = g[k] + nw[m]
    BY <2>1
  <2>3. Padded(bs) = Plus(Body(bs), x)
    BY <1>3 DEF Padded
  <2>. HIDE DEF n, k, m, x, nw
  <2>4. x \in Nat /\ x < W16
    BY <2>1, Room DEF Byte
  <2>5. Plus(Body(bs), x) = Body(bs) + x
    <3>1. Body(bs) + x < W32
      BY <1>1, <2>4, Room
    <3>. QED BY <1>1, <2>4, <3>1, PlusExact
  <2>6. Padded(bs) \in Nat /\ Padded(bs) < Half + W16
    BY <1>1, <2>3, <2>4, <2>5, Room
  <2>7. Cong(B * x, B * x) /\ Cong(Padded(bs), Body(bs) + x)
    BY <1>1, <2>3, <2>4, <2>5, CongRefl, WordFacts
  <2>8. Cong(g[k] + B * x, c + B * Padded(bs))
    BY <1>1, <2>4, <2>7, Follow
  <2>. QED BY <2>1, <2>2, <2>6, <2>8 DEF n, k, m
<1>. QED BY <1>2, <1>3

LEMMA FewWords ==
  ASSUME B >= 4, NEW p \in Nat, p < Half + W16, NEW x \in Nat, NEW d \in Nat, x <= p + d
  PROVE  /\ d <= 4 * W16 => x < Half + 5 * W16
         /\ d <= 3 * W16 => \A w \in Nat : w < W16 => x + w < W32 /\ x + w <= p + (d + W16)
BY Room

Adds(g, m, a) == \A j \in 1 .. Len(a) : g[m + j] = g[m + (j - 1)] + a[j]

LEMMA PseudoResidue ==
  ASSUME B >= 4, NEW bs \in Seq(Byte), NEW c \in Nat, NEW a \in Seq(Word), Len(a) <= 4,
         Padded(bs) \in Nat, Padded(bs) < Half + W16,
         NEW g, NEW m \in Nat, Cong(g[m], c + B * Padded(bs)), Adds(g, m, a)
  PROVE  /\ Pseudo(bs, a) \in Nat /\ Pseudo(bs, a) < Half + 5 * W16
         /\ Cong(g[m + Len(a)], c + B * Pseudo(bs, a))
<1>. DEFINE n == Len(a)  p == Padded(bs)
<1>1. PICK h \in [0 .. n -> 0 .. W32 - 1] :
        /\ h[0] = p /\ \A j \in 1 .. n : h[j] = Plus(h[j - 1], Swap(a[j]))
        /\ Pseudo(bs, a) = h[n]
  <2>1. p \in 0 .. W32 - 1
    BY Room
  <2>2. \E f \in [0 .. n -> 0 .. W32 - 1] :
          /\ f[0] = p /\ \A j \in 1 .. n : f[j] = Plus(f[j - 1], Swap(a[j]))
          /\ FoldLeft(LAMBDA s, w : Plus(s, Swap(w)), p, a) = f[n]
    <3>. HIDE DEF p
    <3>. QED BY <2>1, PseudoSum
  <2>3. Pseudo(bs, a) = FoldLeft(LAMBDA s, w : Plus(s, Swap(w)), p, a)
    BY DEF Pseudo
  <2>. HIDE DEF n, p
  <2>. QED BY <2>2, <2>3
<1>2. n \in Nat /\ p \in Nat /\ p < Half + W16 /\ Cong(g[m], c + B * p) /\ n <= 4
  OBVIOUS
<1>3. \A j \in 1 .. n : a[j] \in Word /\ g[m + j] = g[m + (j - 1)] + a[j]
  BY DEF Adds
<1>. HIDE DEF n, p
<1>. DEFINE S == {j \in 0 .. n : /\ h[j] \in Nat /\ h[j] <= p + j * W16
                                 /\ Cong(g[m + j], c + B * h[j])}
<1>4. 0 \in S
  <2>1. m + 0 = m /\ 0 \in 0 .. n /\ p <= p + 0 * W16
    BY <1>2, WordFacts
  <2>. QED BY <1>1, <1>2, <2>1
<1>5. \A j \in 0 .. n - 1 : j \in S => j + 1 \in S
  <2>1. SUFFICES ASSUME NEW i \in 0 .. n - 1, h[i] \in Nat, h[i] <= p + i * W16,
                        Cong(g[m + i], c + B * h[i])
                 PROVE  /\ i + 1 \in 0 .. n /\ h[i + 1] \in Nat /\ h[i + 1] <= p + (i + 1) * W16
                        /\ Cong(g[m + (i + 1)], c + B * h[i + 1])
    OBVIOUS
  <2>. DEFINE j == i + 1
  <2>2. j \in 1 .. n /\ j - 1 = i /\ j \in 0 .. n /\ i \in Nat /\ i <= 3
    BY <1>2
  <2>3. j * W16 = i * W16 + W16 /\ i * W16 <= 3 * W16 /\ i * W16 \in Nat
    BY <2>2, WordFacts
  <2>. HIDE DEF j
  <2>. DEFINE w == Swap(a[j])
  <2>4. a[j] \in Word /\ g[m + j] = g[m + i] + a[j] /\ h[j] = Plus(h[i], w)
    BY <1>1, <1>3, <2>2
  <2>5. w \in Nat /\ w < W16 /\ Cong(a[j], B * w)
    <3>1. w \in Word /\ Cong(a[j], B * w)
      BY <2>4, SwapFacts, SwapBack
    <3>. HIDE DEF w
    <3>. QED BY <3>1, Room DEF Word
  <2>. HIDE DEF w
  <2>6. h[j] = h[i] + w /\ h[j] \in Nat /\ h[j] <= p + j * W16
    <3>. DEFINE iw == i * W16  jw == j * W16
    <3>1. /\ h[i] \in Nat /\ h[i] <= p + iw /\ jw = iw + W16 /\ iw <= 3 * W16 /\ iw \in Nat
          /\ p \in Nat /\ p < Half + W16 /\ w \in Nat /\ w < W16
      BY <1>2, <2>1, <2>3, <2>5
    <3>. HIDE DEF iw, jw
    <3>2. h[i] + w < W32 /\ h[i] + w <= p + (iw + W16)
      BY <3>1, FewWords
    <3>3. Plus(h[i], w) = h[i] + w
      BY <2>1, <2>5, <3>2, PlusExact
    <3>4. h[i] + w <= p + jw
      BY <3>1, <3>2
    <3>. QED BY <2>1, <2>4, <2>5, <3>3, <3>4 DEF jw
  <2>7. Cong(g[m + j], c + B * h[j])
    <3>1. Cong(h[j], h[i] + w) /\ w \in Int /\ h[i] \in Int /\ c \in Int
      BY <2>1, <2>5, <2>6, CongRefl
    <3>2. Cong(g[m + i] + a[j], c + B * h[j])
      BY <2>1, <2>5, <3>1, Follow
    <3>. QED BY <2>4, <3>2
  <2>. QED BY <2>2, <2>6, <2>7 DEF j
<1>6. \A j \in 0 .. n : j \in S
  <2>. HIDE DEF S
  <2>. QED BY <1>2, <1>4, <1>5, UpTo
<1>7. n \in S
  <2>1. n \in 0 .. n
    BY <1>2
  <2>. HIDE DEF S
  <2>. QED BY <1>6, <2>1
<1>8. n * W16 <= 4 * W16 /\ n * W16 \in Nat
  BY <1>2, WordFacts
<1>9. h[n] < Half + 5 * W16
  <2>. DEFINE nw == n * W16
  <2>1. /\ h[n] \in Nat /\ h[n] <= p + nw /\ nw <= 4 * W16 /\ nw \in Nat
        /\ p \in Nat /\ p < Half + W16
    BY <1>2, <1>7, <1>8
  <2>. HIDE DEF nw
  <2>. QED BY <2>1, FewWords
<1>. QED BY <1>1, <1>7, <1>9 DEF n

LEMMA WordsNat == ASSUME NEW us \in Seq(Word) PROVE us \in Seq(Nat)
<1>1. Len(us) \in Nat /\ us \in [1 .. Len(us) -> Word]
  OBVIOUS
<1>2. Word \subseteq Nat
  BY WordFacts DEF Word
<1>3. us \in [1 .. Len(us) -> Nat]
  BY <1>1, <1>2
<1>. QED BY <1>1, <1>3

LEMMA LastWords ==
  ASSUME B >= 4, NEW x \in Nat, x < Half + 5 * W16,
         NEW y \in Nat, y < W16, NEW z \in Nat, z < W16
  PROVE  x + y < W32 /\ x + y + z < W32
BY Room

LEMMA Distribute ==
  ASSUME NEW b \in Int, NEW x \in Int, NEW y \in Int, NEW z \in Int
  PROVE  (b * y + b * z) + b * x = b * (x + y + z)
OBVIOUS

(* The receiver's sum is that of the gateway in the other byte order.      *)
LEMMA Residue ==
  ASSUME B >= 4, NEW bs \in Seq(Byte), Len(bs) < W16,
         NEW a \in Seq(Word), Len(a) <= 4, NEW p \in Word
  PROVE  Cong(Total(bs, a, p), B * Whole(bs, a, p)) /\ Total(bs, a, p) \in Nat
<1>. DEFINE n == Len(bs)  c == p + n  nw == NetWords(bs)  us == nw \o a
            m == (n + 1) \div 2  ps == Pseudo(bs, a)
<1>1. n \in Nat /\ n \in Word /\ p \in Nat /\ c \in Nat /\ m \in Nat /\ Len(a) \in Nat
  BY Room DEF Word
<1>2. nw \in Seq(Word) /\ Len(nw) = m
  BY NetWordsFacts
<1>3. /\ us \in Seq(Word) /\ Len(us) = m + Len(a)
      /\ \A i \in 1 .. m : us[i] = nw[i]
      /\ \A j \in 1 .. Len(a) : us[m + j] = a[j]
  <2>. HIDE DEF nw, m
  <2>. QED BY <1>1, <1>2, ConcatProperties
<1>. HIDE DEF us
<1>4. us \in Seq(Nat)
  BY <1>3, WordsNat
<1>5. PICK g \in [0 .. Len(us) -> Nat] :
        /\ g[0] = c /\ \A i \in 1 .. Len(us) : g[i] = g[i - 1] + us[i]
        /\ Total(bs, a, p) = g[Len(us)]
  <2>1. \E g \in [0 .. Len(us) -> Nat] :
          /\ g[0] = c /\ \A i \in 1 .. Len(us) : g[i] = (g[i - 1] + us[i])
          /\ FoldLeft(+, c, us) = g[Len(us)]
    <3>. HIDE DEF c
    <3>. QED BY <1>1, <1>4, NetSum
  <2>2. Total(bs, a, p) = FoldLeft(+, c, us)
    BY DEF Total, us
  <2>. HIDE DEF c
  <2>. QED BY <2>1, <2>2
<1>. HIDE DEF c, nw, ps
<1>6. Padded(bs) \in Nat /\ Padded(bs) < Half + W16 /\ Cong(g[m], c + B * Padded(bs))
  <2>1. ASSUME NEW i \in 1 .. m PROVE g[i] = g[i - 1] + NetWords(bs)[i]
    <3>1. i \in 1 .. Len(us) /\ us[i] = nw[i]
      BY <1>1, <1>3
    <3>. QED BY <1>5, <3>1 DEF nw
  <2>. QED BY <1>1, <1>5, <2>1, PadResidue
<1>7. ps \in Nat /\ ps < Half + 5 * W16 /\ Cong(g[m + Len(a)], c + B * ps)
  <2>1. ASSUME NEW j \in 1 .. Len(a) PROVE g[m + j] = g[m + (j - 1)] + a[j]
    <3>1. m + j \in 1 .. Len(us) /\ (m + j) - 1 = m + (j - 1) /\ us[m + j] = a[j]
      BY <1>1, <1>3
    <3>. QED BY <1>5, <3>1
  <2>. HIDE DEF m
  <2>2. Adds(g, m, a) /\ m \in Nat
    BY <1>1, <2>1 DEF Adds
  <2>. QED BY <1>1, <1>6, <2>2, PseudoResidue, SMTT(20) DEF ps
<1>. DEFINE sp == Swap(p)  sn == Swap(n)
<1>8. /\ sp \in Nat /\ sp < W16 /\ Cong(p, B * sp)
      /\ sn \in Nat /\ sn < W16 /\ Cong(n, B * sn)
  <2>1. sp \in Word /\ sn \in Word /\ Cong(p, B * sp) /\ Cong(n, B * sn)
    BY <1>1, SwapFacts, SwapBack
  <2>. HIDE DEF sp, sn, n
  <2>. QED BY <2>1, Room DEF Word
<1>9. Whole(bs, a, p) = Plus(Plus(ps, sp), sn)
  <2>1. n % W16 = n
    <3>1. W16 \in Nat \ {0}
      BY Room
    <3>. QED BY <1>1, <3>1, Below
  <2>. QED BY <2>1 DEF Whole, ps
<1>. HIDE DEF sp, sn, n, m
<1>10. Whole(bs, a, p) = ps + sp + sn
  <2>1. ps + sp < W32 /\ ps + sp + sn < W32
    BY <1>7, <1>8, LastWords
  <2>2. Plus(ps, sp) = ps + sp
    BY <1>7, <1>8, <2>1, PlusExact
  <2>3. ps + sp \in Nat
    BY <1>7, <1>8
  <2>4. Plus(ps + sp, sn) = ps + sp + sn
    BY <1>8, <2>1, <2>3, PlusExact
  <2>. QED BY <1>9, <2>2, <2>4
<1>11. Cong(c + B * ps, B * (ps + sp + sn))
  <2>1. Cong(p + n, B * sp + B * sn)
    BY <1>8, CongAdd
  <2>2. Cong(B * ps, B * ps)
    BY <1>7, CongRefl, Room
  <2>3. Cong((p + n) + B * ps, (B * sp + B * sn) + B * ps)
    BY <2>1, <2>2, CongAdd
  <2>4. (B * sp + B * sn) + B * ps = B * (ps + sp + sn)
    <3>1. B \in Int /\ ps \in Int /\ sp \in Int /\ sn \in Int
      BY <1>7, <1>8, Room
    <3>. QED BY <3>1, Distribute
  <2>. QED BY <2>3, <2>4 DEF c, n
<1>12. Len(us) \in 0 .. Len(us) /\ Total(bs, a, p) \in Nat
  <2>1. Len(us) \in 0 .. Len(us)
    BY <1>3
  <2>. QED BY <1>5, <2>1
<1>. QED BY <1>3, <1>5, <1>7, <1>10, <1>11, <1>12, CongTrans
-----------------------------------------------------------------------------
(* The checksum among the bytes of a segment.                              *)
Joins(r, u, v) ==
  /\ Len(r) = Len(u) + Len(v)
  /\ \A i \in 1 .. Len(u) : r[i] = u[i]
  /\ \A i \in 1 .. Len(v) : r[Len(u) + i] = v[i]

LEMMA ConcatJoins ==
  ASSUME NEW T, NEW u \in Seq(T), NEW v \in Seq(T)
  PROVE  u \o v \in Seq(T) /\ Joins(u \o v, u, v)
BY ConcatProperties DEF Joins

Laid(r, x, d, data) ==
  /\ Len(r) = 8 + Len(data) /\ r[7] = d[1] /\ r[8] = d[2]
  /\ \A i \in 1 .. 6 : r[i] = x[i]
  /\ \A i \in 1 .. Len(data) : r[8 + i] = data[i]

LEMMA TwoBytes ==
  ASSUME NEW T, NEW x \in Seq(T), Len(x) = 6, NEW d \in Seq(T), Len(d) = 2,
         NEW data \in Seq(T), NEW r, r = x \o d \o data
  PROVE  r \in Seq(T) /\ Laid(r, x, d, data)
<1>. DEFINE z == x \o d
<1>1. z \in Seq(T) /\ Joins(z, x, d)
  BY ConcatJoins
<1>. HIDE DEF z
<1>2. z \o data \in Seq(T) /\ Joins(z \o data, z, data)
  BY <1>1, ConcatJoins
<1>3. r \in Seq(T) /\ Joins(r, z, data)
  BY <1>2 DEF z
<1>4. /\ Len(z) = 8 /\ \A i \in 1 .. 6 : z[i] = x[i]
      /\ \A i \in 1 .. 2 : z[6 + i] = d[i]
  BY <1>1 DEF Joins
<1>5. /\ Len(r) = 8 + Len(data) /\ \A i \in 1 .. 8 : r[i] = z[i]
      /\ \A i \in 1 .. Len(data) : r[8 + i] = data[i]
  BY <1>3, <1>4 DEF Joins
<1>6. r[7] = z[6 + 1] /\ r[8] = z[6 + 2]
  BY <1>5
<1>7. r[7] = d[1] /\ r[8] = d[2]
  <2>1. z[6 + 1] = d[1] /\ z[6 + 2] = d[2]
    BY <1>4
  <2>. QED BY <1>6, <2>1
<1>8. \A i \in 1 .. 6 : r[i] = x[i]
  <2>1. \A i \in 1 .. 6 : i \in 1 .. 8
    OBVIOUS
  <2>. QED BY <1>4, <1>5, <2>1
<1>. QED BY <1>3, <1>5, <1>7, <1>8 DEF Laid

(* A word larger by e makes the sum larger by e.                           *)
LEMMA SumDiffers ==
  ASSUME NEW c \in Nat, NEW us \in Seq(Nat), NEW vs \in Seq(Nat), Len(us) = Len(vs),
         NEW q \in 1 .. Len(us), NEW e \in Nat, us[q] = vs[q] + e,
         \A i \in 1 .. Len(us) : i # q => us[i] = vs[i]
  PROVE  FoldLeft(+, c, us) = FoldLeft(+, c, vs) + e
<1>. DEFINE n == Len(us)
<1>1. PICK f \in [0 .. n -> Nat] :
        /\ f[0] = c /\ \A i \in 1 .. n : f[i] = (f[i - 1] + us[i])
        /\ FoldLeft(+, c, us) = f[n]
  BY NetSum
<1>2. PICK g \in [0 .. n -> Nat] :
        /\ g[0] = c /\ \A i \in 1 .. n : g[i] = (g[i - 1] + vs[i])
        /\ FoldLeft(+, c, vs) = g[n]
  <2>1. \E g \in [0 .. Len(vs) -> Nat] :
          /\ g[0] = c /\ \A i \in 1 .. Len(vs) : g[i] = (g[i - 1] + vs[i])
          /\ FoldLeft(+, c, vs) = g[Len(vs)]
    BY NetSum
  <2>. QED BY <2>1
<1>3. n \in Nat /\ q \in 1 .. n /\ \A i \in 1 .. n : us[i] \in Nat /\ vs[i] \in Nat
  <2>1. \A i \in 1 .. Len(us) : us[i] \in Nat
    OBVIOUS
  <2>2. \A i \in 1 .. Len(vs) : vs[i] \in Nat
    OBVIOUS
  <2>. QED BY <2>1, <2>2
<1>. HIDE DEF n
<1>. DEFINE S == {i \in 0 .. n : f[i] = IF i < q THEN g[i] ELSE g[i] + e}
<1>4. 0 \in S
  <2>1. f[0] = c /\ g[0] = c
    BY <1>1, <1>2
  <2>2. 0 < q /\ 0 \in 0 .. n
    BY <1>3
  <2>. QED BY <2>1, <2>2
<1>5. \A k \in 0 .. n - 1 : k \in S => k + 1 \in S
  <2>1. SUFFICES ASSUME NEW k \in 0 .. n - 1, f[k] = IF k < q THEN g[k] ELSE g[k] + e
                 PROVE  k + 1 \in 0 .. n /\ f[k + 1] = IF k + 1 < q THEN g[k + 1] ELSE g[k + 1] + e
    OBVIOUS
  <2>. DEFINE j == k + 1
  <2>2. j \in 1 .. n /\ j \in 0 .. n /\ j - 1 = k /\ k \in 0 .. n
    BY <1>3
  <2>3. j \in Nat /\ q \in Nat /\ j = k + 1 /\ k \in Nat
    BY <1>3 DEF n
  <2>. HIDE DEF j
  <2>4. /\ f[j] = f[k] + us[j] /\ g[j] = g[k] + vs[j] /\ f[k] \in Nat /\ g[k] \in Nat
        /\ us[j] \in Nat /\ vs[j] \in Nat
    BY <1>1, <1>2, <1>3, <2>2
  <2>5. us[j] = IF j = q THEN vs[j] + e ELSE vs[j]
    BY <2>2 DEF n
  <2>6. f[j] = IF j < q THEN g[j] ELSE g[j] + e
    <3>1. CASE j < q
      <4>1. f[k] = g[k] /\ us[j] = vs[j]
        BY <2>1, <2>3, <2>5, <3>1
      <4>. QED BY <2>4, <3>1, <4>1
    <3>2. CASE j = q
      <4>1. f[k] = g[k] /\ us[j] = vs[j] + e /\ ~(j < q)
        BY <2>1, <2>3, <2>5, <3>2
      <4>. QED BY <2>4, <4>1
    <3>3. CASE j > q
      <4>1. f[k] = g[k] + e /\ us[j] = vs[j] /\ ~(j < q)
        BY <2>1, <2>3, <2>5, <3>3
      <4>. QED BY <2>4, <4>1
    <3>. QED BY <2>3, <3>1, <3>2, <3>3
  <2>. QED BY <2>2, <2>6 DEF j
<1>6. \A k \in 0 .. n : k \in S
  <2>. HIDE DEF S
  <2>. QED BY <1>3, <1>4, <1>5, UpTo
<1>7. n \in 0 .. n /\ ~(n < q)
  BY <1>3 DEF n
<1>. QED BY <1>1, <1>2, <1>6, <1>7

(* Byte strings that differ in the two bytes of the fourth word.           *)
Alike(bs, bz) ==
  /\ Len(bs) = Len(bz) /\ Len(bs) >= 8
  /\ \A i \in 1 .. Len(bs) : i # 7 /\ i # 8 => bs[i] = bz[i]

LEMMA FourthWord ==
  ASSUME NEW bs \in Seq(Byte), NEW bz \in Seq(Byte), Alike(bs, bz)
  PROVE  /\ 4 \in 1 .. (Len(bs) + 1) \div 2
         /\ NetWords(bs)[4] = B * bs[7] + bs[8] /\ NetWords(bz)[4] = B * bz[7] + bz[8]
         /\ \A i \in 1 .. (Len(bs) + 1) \div 2 : i # 4 => NetWords(bs)[i] = NetWords(bz)[i]
<1>. DEFINE n == Len(bs)  m == (n + 1) \div 2
            At(b, i) == IF i \in DOMAIN b THEN b[i] ELSE 0
<1>1. /\ n \in Nat /\ n >= 8 /\ m \in Nat /\ Len(bz) = n /\ DOMAIN bs = 1 .. n /\ DOMAIN bz = 1 .. n
      /\ \A i \in 1 .. n : i # 7 /\ i # 8 => bs[i] = bz[i]
  BY DEF Alike
<1>2. m >= 4
  BY <1>1
<1>3. NetWords(bs) = [i \in 1 .. m |-> B * At(bs, 2 * i - 1) + At(bs, 2 * i)]
  BY DEF NetWords
<1>4. NetWords(bz) = [i \in 1 .. m |-> B * At(bz, 2 * i - 1) + At(bz, 2 * i)]
  BY <1>1 DEF NetWords
<1>5. \A i : i # 7 /\ i # 8 => At(bs, i) = At(bz, i)
  BY <1>1
<1>6. At(bs, 7) = bs[7] /\ At(bs, 8) = bs[8] /\ At(bz, 7) = bz[7] /\ At(bz, 8) = bz[8]
  BY <1>1
<1>7. 4 \in 1 .. m /\ 2 * 4 - 1 = 7 /\ 2 * 4 = 8
  BY <1>1, <1>2
<1>. HIDE DEF At
<1>8. \A i \in 1 .. m : i # 4 => 2 * i - 1 # 7 /\ 2 * i - 1 # 8 /\ 2 * i # 7 /\ 2 * i # 8
  BY <1>1
<1>. HIDE DEF m, n
<1>9. /\ NetWords(bs)[4] = B * At(bs, 7) + At(bs, 8)
      /\ NetWords(bz)[4] = B * At(bz, 7) + At(bz, 8)
  BY <1>3, <1>4, <1>7
<1>10. ASSUME NEW i \in 1 .. m, i # 4 PROVE NetWords(bs)[i] = NetWords(bz)[i]
  BY <1>3, <1>4, <1>5, <1>8, <1>10
<1>. QED BY <1>6, <1>7, <1>9, <1>10 DEF m, n

LEMMA BytesIn == ASSUME NEW w \in Word PROVE Bytes(w) \in Seq(Byte) /\ Len(Bytes(w)) = 2
BY WordParts DEF Bytes

LEMMA SegmentParts ==
  ASSUME NEW s \in Segment
  PROVE  /\ SegmentBytes(s) \in Seq(Byte) /\ Len(SegmentBytes(s)) = 8 + Len(s.data)
         /\ SegmentBytes(s)[7] = s.check \div B /\ SegmentBytes(s)[8] = s.check % B
         /\ \A i \in 1 .. 6 :
              SegmentBytes(s)[i] = (Bytes(s.sport) \o Bytes(s.dport) \o Bytes(s.mid))[i]
         /\ \A i \in 1 .. Len(s.data) : SegmentBytes(s)[8 + i] = s.data[i]
<1>1. s.sport \in Word /\ s.dport \in Word /\ s.mid \in Word /\ s.check \in Word /\ s.data \in Seq(Byte)
  BY DEF Segment
<1>. DEFINE a == Bytes(s.sport)  b == Bytes(s.dport)  c == Bytes(s.mid)  d == Bytes(s.check)
            ab == a \o b  x == ab \o c
<1>2. /\ a \in Seq(Byte) /\ b \in Seq(Byte) /\ c \in Seq(Byte) /\ d \in Seq(Byte)
      /\ Len(a) = 2 /\ Len(b) = 2 /\ Len(c) = 2 /\ Len(d) = 2
  BY <1>1, BytesIn
<1>3. d[1] = s.check \div B /\ d[2] = s.check % B
  BY DEF Bytes
<1>4. SegmentBytes(s) = x \o d \o s.data
  BY DEF SegmentBytes
<1>. HIDE DEF a, b, c, d
<1>5. ab \in Seq(Byte) /\ Len(ab) = 4
  <2>1. ab \in Seq(Byte) /\ Len(ab) = Len(a) + Len(b)
    BY <1>2, ConcatLen, Zenon
  <2>. QED BY <1>2, <2>1
<1>. HIDE DEF ab
<1>6. x \in Seq(Byte) /\ Len(x) = 6
  <2>1. x \in Seq(Byte) /\ Len(x) = Len(ab) + Len(c)
    BY <1>2, <1>5, ConcatLen, Zenon
  <2>. QED BY <1>2, <1>5, <2>1
<1>7. \A i \in 1 .. 6 : x[i] = (Bytes(s.sport) \o Bytes(s.dport) \o Bytes(s.mid))[i]
  BY DEF x, ab, a, b, c
<1>. HIDE DEF x
<1>. DEFINE r == SegmentBytes(s)  data == s.data
<1>8. r = x \o d \o data /\ data \in Seq(Byte)
  BY <1>1, <1>4
<1>. HIDE DEF r, data
<1>9. /\ r \in Seq(Byte) /\ Len(r) = 8 + Len(data) /\ r[7] = d[1] /\ r[8] = d[2]
      /\ \A i \in 1 .. 6 : r[i] = x[i]
      /\ \A i \in 1 .. Len(data) : r[8 + i] = data[i]
  <2>1. d \in Seq(Byte) /\ Len(d) = 2
    BY <1>2
  <2>2. r \in Seq(Byte) /\ Laid(r, x, d, data)
    BY <1>6, <1>8, <2>1, TwoBytes, Zenon
  <2>. QED BY <2>2 DEF Laid
<1>. QED BY <1>3, <1>7, <1>9 DEF r, data

Blank(s) == [s EXCEPT !.check = 0]

(* The checksum field counts as what it holds.                             *)
LEMMA CheckField ==
  ASSUME NEW s \in Segment, NEW a \in Seq(Word), NEW p \in Word
  PROVE  /\ Blank(s) \in Segment /\ SegmentBytes(Blank(s)) \in Seq(Byte)
         /\ Len(SegmentBytes(Blank(s))) = Len(SegmentBytes(s))
         /\ Total(SegmentBytes(s), a, p) = Total(SegmentBytes(Blank(s)), a, p) + s.check
<1>. DEFINE z == Blank(s)  bs == SegmentBytes(s)  bz == SegmentBytes(z)
            data == s.data  x == Bytes(s.sport) \o Bytes(s.dport) \o Bytes(s.mid)
<1>1. /\ z \in Segment /\ z.check = 0 /\ z.data = data
      /\ z.sport = s.sport /\ z.dport = s.dport /\ z.mid = s.mid
  <2>1. 0 \in Word
    BY WordFacts DEF Word
  <2>. QED BY <2>1 DEF Blank, Segment
<1>. HIDE DEF z
<1>2. s.check \in Word /\ s.check \in Nat /\ data \in Seq(Byte) /\ Len(data) \in Nat
  BY WordFacts DEF Segment, Word
<1>3. /\ bs \in Seq(Byte) /\ Len(bs) = 8 + Len(data)
      /\ bs[7] = s.check \div B /\ bs[8] = s.check % B
      /\ \A i \in 1 .. 6 : bs[i] = x[i]
      /\ \A i \in 1 .. Len(data) : bs[8 + i] = data[i]
  BY SegmentParts
<1>4. /\ bz \in Seq(Byte) /\ Len(bz) = 8 + Len(data)
      /\ bz[7] = 0 \div B /\ bz[8] = 0 % B
      /\ \A i \in 1 .. 6 : bz[i] = x[i]
      /\ \A i \in 1 .. Len(data) : bz[8 + i] = data[i]
  <2>1. /\ bz \in Seq(Byte) /\ Len(bz) = 8 + Len(z.data)
        /\ bz[7] = z.check \div B /\ bz[8] = z.check % B
        /\ \A i \in 1 .. 6 : bz[i] = (Bytes(z.sport) \o Bytes(z.dport) \o Bytes(z.mid))[i]
        /\ \A i \in 1 .. Len(z.data) : bz[8 + i] = z.data[i]
    BY <1>1, SegmentParts
  <2>. QED BY <1>1, <2>1
<1>. HIDE DEF bs, bz, x, data
<1>5. Alike(bs, bz)
  <2>1. ASSUME NEW i \in 1 .. 8 + Len(data), i # 7, i # 8 PROVE bs[i] = bz[i]
    <3>1. CASE i \in 1 .. 6
      BY <1>3, <1>4, <3>1
    <3>2. CASE i > 8
      <4>. DEFINE j == i - 8
      <4>1. j \in 1 .. Len(data) /\ 8 + j = i
        BY <1>2, <3>2
      <4>. HIDE DEF j
      <4>2. bs[8 + j] = data[j] /\ bz[8 + j] = data[j]
        BY <1>3, <1>4, <4>1
      <4>. QED BY <4>1, <4>2
    <3>. QED BY <1>2, <2>1, <3>1, <3>2
  <2>2. 8 + Len(data) >= 8
    BY <1>2
  <2>. QED BY <1>3, <1>4, <2>1, <2>2 DEF Alike
<1>. DEFINE us == NetWords(bs)  vs == NetWords(bz)  m == (Len(bs) + 1) \div 2  e == s.check
<1>6. /\ us \in Seq(Word) /\ vs \in Seq(Word) /\ Len(us) = m /\ Len(vs) = m /\ m \in Nat
  BY <1>3, <1>4, NetWordsFacts
<1>7. /\ 4 \in 1 .. m /\ us[4] = B * bs[7] + bs[8] /\ vs[4] = B * bz[7] + bz[8]
      /\ \A i \in 1 .. m : i # 4 => us[i] = vs[i]
  BY <1>3, <1>4, <1>5, FourthWord
<1>8. us[4] = e
  BY <1>2, <1>3, <1>7, WordParts
<1>9. vs[4] = 0
  <2>1. 0 \div B = 0 /\ 0 % B = 0
    <3>1. B \in Nat \ {0} /\ 0 \in Nat /\ 0 < B
      BY WordFacts
    <3>. QED BY <3>1, Below
  <2>. QED BY <1>4, <1>7, <2>1, WordFacts
<1>. HIDE DEF us, vs, m, e
<1>. DEFINE ua == us \o a  va == vs \o a
<1>10. /\ ua \in Seq(Word) /\ va \in Seq(Word)
       /\ Len(ua) = m + Len(a) /\ Len(va) = m + Len(a)
       /\ \A i \in 1 .. m : ua[i] = us[i] /\ va[i] = vs[i]
       /\ \A i \in 1 .. Len(a) : ua[m + i] = a[i] /\ va[m + i] = a[i]
  <2>. HIDE DEF us, vs, m
  <2>1. /\ ua \in Seq(Word) /\ Joins(ua, us, a)
    BY <1>6, ConcatJoins, Zenon
  <2>2. /\ va \in Seq(Word) /\ Joins(va, vs, a)
    BY <1>6, ConcatJoins, Zenon
  <2>. HIDE DEF ua, va
  <2>. QED BY <1>6, <2>1, <2>2 DEF Joins
<1>11. 4 \in 1 .. Len(ua) /\ ua[4] = va[4] + e
  BY <1>2, <1>6, <1>7, <1>8, <1>9, <1>10 DEF e
<1>12. ASSUME NEW i \in 1 .. Len(ua), i # 4 PROVE ua[i] = va[i]
  <2>1. CASE i \in 1 .. m
    BY <1>7, <1>10, <1>12, <2>1
  <2>2. CASE i > m
    <3>. DEFINE j == i - m
    <3>1. j \in 1 .. Len(a) /\ m + j = i
      BY <1>6, <1>10, <2>2
    <3>. HIDE DEF j, ua, va
    <3>2. ua[m + j] = a[j] /\ va[m + j] = a[j]
      BY <1>10, <3>1
    <3>. QED BY <3>1, <3>2
  <2>. QED BY <1>6, <1>10, <2>1, <2>2
<1>. HIDE DEF ua, va
<1>13. ua \in Seq(Nat) /\ va \in Seq(Nat) /\ Len(ua) = Len(va) /\ e \in Nat
  BY <1>2, <1>10, WordsNat DEF e
<1>14. p + Len(bs) \in Nat
  BY <1>3, WordFacts DEF Word
<1>15. FoldLeft(+, p + Len(bs), ua) = FoldLeft(+, p + Len(bs), va) + e
  <2>. DEFINE c == p + Len(bs)
  <2>1. c \in Nat
    BY <1>14
  <2>. HIDE DEF c
  <2>2. FoldLeft(+, c, ua) = FoldLeft(+, c, va) + e
    BY <1>11, <1>12, <1>13, <2>1, SumDiffers
  <2>. QED BY <2>2 DEF c
<1>16. Len(bs) = Len(bz)
  BY <1>3, <1>4
<1>17. Total(bs, a, p) = FoldLeft(+, p + Len(bs), ua) /\ Total(bz, a, p) = FoldLeft(+, p + Len(bs), va)
  BY <1>16 DEF Total, ua, va, us, vs
<1>18. Total(bs, a, p) = Total(bz, a, p) + e
  BY <1>15, <1>17, Zenon
<1>. QED BY <1>1, <1>4, <1>16, <1>18 DEF z, bs, bz, e
-----------------------------------------------------------------------------
(* With the complement of the other words' sum in the checksum field, all  *)
(* words together are a multiple of the largest word.                      *)
LEMMA FieldVerifies ==
  ASSUME B >= 4, NEW s \in Segment, NEW a \in Seq(Word), Len(a) <= 4, NEW p \in Word,
         Len(SegmentBytes(s)) < W16,
         s.check = Swap(M - Carried(Whole(SegmentBytes(Blank(s)), a, p)))
  PROVE  Total(SegmentBytes(s), a, p) % M = 0
<1>. DEFINE bs == SegmentBytes(s)  bz == SegmentBytes(Blank(s))
            t == Whole(bz, a, p)  k == Carried(t)  e == s.check
<1>1. /\ bz \in Seq(Byte) /\ Len(bz) < W16
      /\ Total(bs, a, p) = Total(bz, a, p) + e
  BY CheckField
<1>2. t \in Nat /\ t < W32
  <2>1. t \in 0 .. W32 - 1
    BY <1>1, SumsIn
  <2>. HIDE DEF t
  <2>. QED BY <2>1, WordFacts
<1>3. Cong(Total(bz, a, p), B * t) /\ Total(bz, a, p) \in Nat
  <2>. HIDE DEF bz
  <2>. QED BY <1>1, Residue DEF t
<1>4. e = Swap(M - k)
  OBVIOUS
<1>. HIDE DEF bs, bz, t, e
<1>5. k \in Word /\ Cong(k, t)
  BY <1>2, CarriedFacts
<1>. HIDE DEF k
<1>6. k \in Int /\ t \in Int /\ B \in Int /\ M \in Int /\ M - k \in Word
  BY <1>2, <1>5, WordFacts DEF Word
<1>7. Cong(e, B * (M - k)) /\ e \in Nat
  <2>1. Swap(M - k) \in Word /\ Cong(Swap(M - k), B * (M - k))
    BY <1>6, SwapFacts
  <2>. QED BY <1>4, <2>1, WordFacts DEF Word
<1>8. Cong(B * t, B * k)
  BY <1>5, <1>6, CongMul, CongSym
<1>9. Cong(Total(bz, a, p), B * k)
  BY <1>3, <1>8, CongTrans
<1>10. Cong(Total(bz, a, p) + e, B * k + B * (M - k))
  BY <1>7, <1>9, CongAdd
<1>11. B * k + B * (M - k) = 0 + B * M /\ B * k + B * (M - k) \in Int
  BY <1>6
<1>12. Cong(B * k + B * (M - k), 0)
  BY <1>6, <1>11 DEF Cong
<1>13. Cong(Total(bz, a, p) + e, 0) /\ Total(bz, a, p) + e \in Nat
  BY <1>3, <1>7, <1>10, <1>12, CongTrans
<1>14. (Total(bz, a, p) + e) % M = 0
  BY <1>13, CongZero
<1>. QED BY <1>1, <1>14 DEF bs

LEMMA Reassociate ==
  ASSUME NEW S, NEW u \in Seq(S), NEW v \in Seq(S), NEW w \in Seq(S), NEW x, x = v \o w
  PROVE  u \o v \o w = u \o x
<1>1. (u \o v) \o w = u \o (v \o w)
  BY ConcatAssociative
<1>. QED BY <1>1, Zenon

(* What the gateway puts in the field, and what the receiver makes of it.  *)
LEMMA ReceiverAgrees ==
  ASSUME B >= 4, NEW s \in Segment, Fits(s.data), NEW h,
         h.src \in Seq(Word), h.dst \in Seq(Word), Len(h.src) <= 2, Len(h.dst) <= 2,
         h.proto \in Word, SeenLen(h) = Len(SegmentBytes(s)),
         s.check = Swap(TcpChecksum(SegmentBytes(Blank(s)), h.src, h.dst, h.proto))
  PROVE  Verifies(h, s)
<1>. DEFINE bs == SegmentBytes(s)  src == h.src  dst == h.dst  a == src \o dst  p == h.proto
            nw == NetWords(bs)
<1>1. bs \in Seq(Byte) /\ Len(bs) < W16
  <2>1. bs \in Seq(Byte) /\ Len(bs) = 8 + Len(s.data)
    BY SegmentParts
  <2>2. s.data \in Seq(Byte) /\ V4Head + 8 + Len(s.data) < W16
    BY DEF Fits, SegmentHead
  <2>3. W16 \in Nat /\ V4Head \in Nat
    BY WordFacts, BaseAssumption
  <2>4. Len(s.data) \in Nat
    BY <2>2
  <2>5. \A v, l, w \in Nat : v + 8 + l < w => 8 + l < w
    OBVIOUS
  <2>. HIDE DEF bs
  <2>6. 8 + Len(s.data) < W16
    BY <2>2, <2>3, <2>4, <2>5
  <2>. QED BY <2>1, <2>6
<1>2. src \in Seq(Word) /\ dst \in Seq(Word) /\ Len(src) <= 2 /\ Len(dst) <= 2 /\ p \in Word
  OBVIOUS
<1>3. s.check = Swap(M - Carried(Whole(SegmentBytes(Blank(s)), a, p)))
  BY ChecksumIs
<1>4. Verifies(h, s) <=> FoldLeft(+, p + Len(bs), nw \o src \o dst) % (W16 - 1) = 0
  BY DEF Verifies
<1>5. nw \in Seq(Word)
  BY <1>1, NetWordsFacts
<1>. HIDE DEF nw, bs, src, dst, p
<1>6. nw \o src \o dst = nw \o a
  <2>1. a = src \o dst
    OBVIOUS
  <2>. HIDE DEF a
  <2>2. src \in Seq(Word) /\ dst \in Seq(Word)
    BY <1>2
  <2>. QED BY <1>5, <2>1, <2>2, Reassociate, SMTT(20)
<1>7. a \in Seq(Word) /\ Len(a) <= 4
  BY <1>2, ConcatProperties
<1>. HIDE DEF a
<1>8. Total(bs, a, p) % M = 0
  BY <1>1, <1>2, <1>3, <1>7, FieldVerifies DEF bs
<1>9. Total(bs, a, p) = FoldLeft(+, p + Len(bs), nw \o a)
  BY DEF Total, nw
<1>. QED BY <1>4, <1>6, <1>8, <1>9, Zenon DEF M
-----------------------------------------------------------------------------
(* The inductive invariant of values: words in every field, and between    *)
(* finish and send the field holds the checksum of the segment.            *)
Filled(s) == s.check = Swap(TcpChecksum(SegmentBytes(Blank(s)), head.src, head.dst, ibuf.proto))

Address(x) == x \in Seq(Word) /\ Len(x) <= 2

ValueInv ==
  /\ PktInv
  /\ pc \in {"unpack", "doApp", "modify", "doPorts", "doIP", "finish", "send", "sent"}
  /\ obuf_len \in Nat /\ transport_len \in Nat
  /\ seg \in Segment
  /\ pc \in Headed => Address(head.src) /\ Address(head.dst)
  /\ pc = "send" => Filled(seg)
  /\ B >= 4 => ReceiverVerifies

LEMMA ArrivalWords ==
  ASSUME NEW a \in Arrivals, NEW b \in Bindings
  PROVE  /\ a.proto \in Word /\ a.proto \in {TCP, UDP}
         /\ b.port4 \in Word /\ b.port6 \in Word /\ Prefix \in Word
         /\ Address(b.ip4) /\ Address(b.ip6)
         /\ a.v = 6 => Address(<<a.dst[2]>>)
         /\ a.v = 4 => Address(<<Prefix, a.src[1]>>)
<1>1. \A x \in Byte : x \in Word
  <2>1. B \in Nat /\ W16 \in Nat /\ B < W16
    BY WordFacts
  <2>. QED BY <2>1 DEF Byte, Word
<1>2. a.proto \in {TCP, UDP} /\ a.proto \in Word /\ Prefix \in Word
  BY <1>1, BaseAssumption, TrafficAssumption
<1>3. /\ b.port4 \in Word /\ b.port6 \in Word
      /\ b.ip4 \in [1 .. 1 -> Word] /\ b.ip6 \in [1 .. 2 -> Word]
  BY TrafficAssumption
<1>4. /\ a.v = 6 => a.dst \in [1 .. 2 -> Word]
      /\ a.v = 4 => a.src \in [1 .. 1 -> Word]
  BY TrafficAssumption
<1>5. \A n \in {1, 2} : \A x \in [1 .. n -> Word] : x \in Seq(Word) /\ Len(x) = n
  OBVIOUS
<1>6. Address(b.ip4) /\ Address(b.ip6)
  <2>1. b.ip4 \in Seq(Word) /\ Len(b.ip4) = 1
    BY <1>3, <1>5
  <2>2. b.ip6 \in Seq(Word) /\ Len(b.ip6) = 2
    BY <1>3, <1>5
  <2>. QED BY <2>1, <2>2 DEF Address
<1>7. a.v = 6 => Address(<<a.dst[2]>>)
  <2>1. a.v = 6 => a.dst[2] \in Word
    BY <1>4
  <2>. QED BY <2>1 DEF Address
<1>8. a.v = 4 => Address(<<Prefix, a.src[1]>>)
  <2>1. a.v = 4 => a.src[1] \in Word
    BY <1>4
  <2>. QED BY <1>2, <2>1 DEF Address
<1>. QED BY <1>2, <1>3, <1>6, <1>7, <1>8

LEMMA ValuesInit == PktInit => ValueInv
<1>. SUFFICES ASSUME PktInit PROVE ValueInv
  OBVIOUS
<1>1. PktInv
  BY PktInitInv
<1>2. seg \in Segment /\ pc = "unpack" /\ obuf_len = 0 /\ transport_len = 0
  BY ArrivalFacts DEF PktInit
<1>. QED BY <1>1, <1>2 DEF ValueInv, Headed, ReceiverVerifies

LEMMA WithField ==
  ASSUME NEW s \in Segment
  PROVE  /\ \A w \in Word : /\ [s EXCEPT !.sport = w] \in Segment
                            /\ [s EXCEPT !.dport = w] \in Segment
                            /\ [s EXCEPT !.mid = w] \in Segment
                            /\ [s EXCEPT !.check = w] \in Segment
         /\ \A d \in Seq(Byte) : [s EXCEPT !.data = d] \in Segment
BY DEF Segment

LEMMA LenWord == \A n \in Nat : n % W16 \in Word
<1>1. W16 \in Nat \ {0} /\ W16 \in Nat
  BY WordFacts
<1>2. \A n \in Nat : n % W16 \in Nat /\ n % W16 < W16
  BY <1>1, DivMod
<1>. QED BY <1>1, <1>2 DEF Word

(* What finish does: the segment ends where the buffer does, and only the  *)
(* field changes.                                                          *)
LEMMA FinishFills ==
  ASSUME ValueInv, Finish
  PROVE  seg' \in Segment /\ Filled(seg)'
<1>. DEFINE zero == Blank(seg)  bz == SegmentBytes(zero)
            c == Swap(TcpChecksum(bz, head.src, head.dst, ibuf.proto))
<1>1. /\ pc = "finish" /\ ibuf' = ibuf /\ head' = head
      /\ seg' = [zero EXCEPT !.check =
                   Swap(TcpChecksum(SubSeq(bz, 1, transport_len), head.src, head.dst, ibuf.proto))]
  BY DEF Finish, UpdateChecksum, Blank
<1>2. seg \in Segment /\ transport_len = SegmentHead + Len(seg.data)
  BY <1>1 DEF ValueInv, PktInv
<1>3. head.src \in Seq(Word) /\ head.dst \in Seq(Word) /\ ibuf.proto \in Word
  BY <1>1, ArrivalWords DEF ValueInv, PktInv, Headed, Address
<1>4. zero \in Segment /\ zero.data = seg.data
  <2>1. 0 \in Word
    BY WordFacts DEF Word
  <2>. QED BY <1>2, <2>1 DEF Segment, Blank
<1>. HIDE DEF zero
<1>5. bz \in Seq(Byte) /\ Len(bz) = transport_len
  BY <1>2, <1>4, SegmentParts DEF SegmentHead
<1>. HIDE DEF bz
<1>6. SubSeq(bz, 1, transport_len) = bz
  BY <1>5, SubSeqFull
<1>7. c \in Word
  BY <1>3, <1>5, ChecksumWord, SwapFacts
<1>8. seg' = [zero EXCEPT !.check = c]
  BY <1>1, <1>6
<1>. HIDE DEF c
<1>9. seg' \in Segment
  BY <1>4, <1>7, <1>8, WithField
<1>10. [[seg EXCEPT !.check = 0] EXCEPT !.check = c].check = c
  BY <1>2 DEF Segment
<1>11. seg'.check = c /\ Blank(seg') = zero
  BY <1>2, <1>8 DEF Segment, Blank, zero
<1>12. Filled(seg)' <=>
         seg'.check = Swap(TcpChecksum(SegmentBytes(Blank(seg')), head'.src, head'.dst, ibuf'.proto))
  BY DEF Filled, Blank
<1>. QED BY <1>1, <1>9, <1>11, <1>12 DEF c, bz

(* What send gives to the receiver.                                        *)
LEMMA SendVerifies ==
  ASSUME B >= 4, ValueInv, PktInv', Send
  PROVE  ReceiverVerifies'
<1>. DEFINE h == Kernel(head, obuf_len)
            cut == obuf_len - HeadLen(head.v) - SegmentHead
<1>1. /\ pc = "send" /\ pc' = "sent" /\ ibuf' = ibuf
      /\ wire' = [head |-> h, bytes |-> obuf_len,
                  seg |-> [seg EXCEPT !.data = SubSeq(@, 1, cut)]]
  BY DEF Send
<1>2. /\ seg \in Segment /\ Fits(seg.data) /\ Filled(seg)
      /\ transport_len = SegmentHead + Len(seg.data)
      /\ obuf_len = HeadLen(GetIPVersion) + transport_len
      /\ head \in [v : {GetIPVersion}, len : {transport_len}, proto : {ibuf.proto},
                   src : {head.src}, dst : {head.dst}]
      /\ Address(head.src) /\ Address(head.dst) /\ ibuf \in Arrivals /\ bind \in Bindings
  BY <1>1 DEF ValueInv, PktInv, Shape, Headed
<1>3. ibuf.proto \in Word
  BY <1>2, ArrivalWords
<1>4. cut = Len(seg.data)
  <2>1. head.v = GetIPVersion /\ Len(seg.data) \in Nat /\ HeadLen(GetIPVersion) \in Nat
    BY <1>2, HeadLenNat DEF Fits
  <2>. QED BY <1>2, <2>1 DEF SegmentHead
<1>5. [seg EXCEPT !.data = SubSeq(@, 1, cut)] = seg
  <2>1. SubSeq(seg.data, 1, cut) = seg.data
    BY <1>2, <1>4, SubSeqFull DEF Fits
  <2>2. [seg EXCEPT !.data = seg.data] = seg
    BY <1>2 DEF Segment
  <2>. QED BY <2>1, <2>2
<1>6. h.src = head.src /\ h.dst = head.dst /\ h.proto = ibuf.proto
  BY <1>2 DEF Kernel
<1>. HIDE DEF h
<1>7. wire'.head = h /\ wire'.seg = seg
  BY <1>1, <1>5
<1>8. SeenLen(h) = Len(SegmentBytes(seg))
  <2>1. LengthsAgree'
    BY DEF PktInv
  <2>2. SeenLen(wire'.head) = Len(SegmentBytes(wire'.seg))
    BY <1>1, <2>1 DEF LengthsAgree
  <2>. QED BY <1>7, <2>2
<1>9. seg.check = Swap(TcpChecksum(SegmentBytes(Blank(seg)), h.src, h.dst, h.proto))
  BY <1>2, <1>6 DEF Filled
<1>10. Verifies(h, seg)
  BY <1>2, <1>3, <1>6, <1>8, <1>9, ReceiverAgrees DEF Address
<1>11. ReceiverVerifies' <=> (pc' = "sent" => Verifies(wire'.head, wire'.seg))
  BY DEF ReceiverVerifies
<1>. QED BY <1>7, <1>10, <1>11

LEMMA LengthsNat ==
  ASSUME PktInv', pc' # "unpack"
  PROVE  obuf_len' \in Nat /\ transport_len' \in Nat
<1>1. /\ transport_len' = SegmentHead + Len(seg'.data)
      /\ obuf_len' = HeadLen(GetIPVersion') + transport_len'
      /\ seg'.data \in Seq(Byte)
  BY DEF PktInv, Shape, Fits
<1>2. Len(seg'.data) \in Nat /\ HeadLen(GetIPVersion') \in Nat
  BY <1>1, HeadLenNat
<1>. QED BY <1>1, <1>2 DEF SegmentHead

(* A step before the header is written: only the segment matters.          *)
LEMMA EarlyStep ==
  ASSUME PktInv', seg' \in Segment, pc' \in {"doApp", "modify", "doPorts", "doIP"}
  PROVE  ValueInv'
BY LengthsNat DEF ValueInv, Headed, ReceiverVerifies

LEMMA ValuesNext == ValueInv /\ [PktNext]_pktVars => ValueInv'
<1>. SUFFICES ASSUME ValueInv, [PktNext]_pktVars PROVE ValueInv'
  OBVIOUS
<1>1. PktInv /\ PktInv'
  BY PktNextInv DEF ValueInv
<1>2. ibuf \in Arrivals /\ bind \in Bindings /\ seg \in Segment
  BY <1>1 DEF PktInv, ValueInv
<1>3. CASE Unpack
  <2>1. seg' = ibuf.seg /\ pc' = "doApp"
    BY <1>3 DEF Unpack
  <2>. QED BY <1>1, <1>2, <2>1, ArrivalFacts, EarlyStep
<1>4. CASE ShiftNumbers
  <2>1. pc' = "modify"
    BY <1>4 DEF ShiftNumbers
  <2>2. seg' \in Segment
    <3>1. CASE ibuf.proto = TCP
      <4>1. PICK n \in Numbers : seg' = [seg EXCEPT !.mid = n]
        BY <1>4, <3>1 DEF ShiftNumbers
      <4>2. n \in Word
        BY TrafficAssumption
      <4>. QED BY <1>2, <4>1, <4>2, WithField
    <3>2. CASE ibuf.proto # TCP
      BY <1>2, <1>4, <3>2 DEF ShiftNumbers
    <3>. QED BY <3>1, <3>2
  <2>. QED BY <1>1, <2>1, <2>2, EarlyStep
<1>5. CASE Modify
  <2>1. PICK d \in Payloads :
          SetTransportLen([seg EXCEPT !.data = d], SegmentHead + Len(d))
    BY <1>5 DEF Modify
  <2>. DEFINE s == [seg EXCEPT !.data = d]  n == SegmentHead + Len(d)
  <2>2. d \in Seq(Byte)
    BY TrafficAssumption
  <2>3. n \in Nat
    <3>1. Len(d) \in Nat
      BY <2>2
    <3>. QED BY <3>1 DEF SegmentHead
  <2>4. s \in Segment
    BY <1>2, <2>2, WithField
  <2>5. seg' = s \/ seg' = [s EXCEPT !.mid = n % W16]
    BY <2>1 DEF SetTransportLen
  <2>. HIDE DEF s, n
  <2>6. seg' \in Segment
    BY <2>3, <2>4, <2>5, WithField, LenWord
  <2>7. pc' = "doPorts"
    BY <1>5 DEF Modify
  <2>. QED BY <1>1, <2>6, <2>7, EarlyStep
<1>6. CASE LeaveAsIs
  <2>1. pc' = "doPorts" /\ seg' = seg
    BY <1>6 DEF LeaveAsIs
  <2>. QED BY <1>1, <1>2, <2>1, EarlyStep
<1>7. CASE DoPorts
  <2>1. pc' = "doIP" /\ \/ seg' = [seg EXCEPT !.sport = bind.port4]
                        \/ seg' = [seg EXCEPT !.dport = bind.port6]
    BY <1>7 DEF DoPorts
  <2>2. seg' \in Segment
    BY <1>2, <2>1, WithField, ArrivalWords
  <2>. QED BY <1>1, <2>1, <2>2, EarlyStep
<1>8. CASE DoIP
  <2>1. /\ pc' = "finish" /\ seg' = seg
        /\ head' = IF GetIPVersion = 4
                   THEN MakePkt(4, transport_len, bind.ip4, <<ibuf.dst[2]>>)
                   ELSE MakePkt(6, transport_len, <<Prefix, ibuf.src[1]>>, bind.ip6)
    BY <1>8 DEF DoIP
  <2>2. ibuf.v \in {4, 6}
    BY <1>2, ArrivalFacts
  <2>3. Address(head'.src) /\ Address(head'.dst)
    <3>1. CASE ibuf.v = 4
      <4>1. head' = MakePkt(6, transport_len, <<Prefix, ibuf.src[1]>>, bind.ip6)
        BY <2>1, <3>1 DEF GetIPVersion
      <4>2. head'.src = <<Prefix, ibuf.src[1]>> /\ head'.dst = bind.ip6
        BY <4>1 DEF MakePkt
      <4>. QED BY <1>2, <3>1, <4>2, ArrivalWords
    <3>2. CASE ibuf.v = 6
      <4>1. head' = MakePkt(4, transport_len, bind.ip4, <<ibuf.dst[2]>>)
        BY <2>1, <3>2 DEF GetIPVersion
      <4>2. head'.src = bind.ip4 /\ head'.dst = <<ibuf.dst[2]>>
        BY <4>1 DEF MakePkt
      <4>. QED BY <1>2, <3>2, <4>2, ArrivalWords
    <3>. QED BY <2>2, <3>1, <3>2
  <2>4. obuf_len' \in Nat /\ transport_len' \in Nat
    BY <1>1, <2>1, LengthsNat
  <2>. QED BY <1>1, <1>2, <2>1, <2>3, <2>4 DEF ValueInv, ReceiverVerifies
<1>9. CASE Finish
  <2>1. pc = "finish" /\ pc' = "send" /\ head' = head
    BY <1>9 DEF Finish
  <2>2. seg' \in Segment /\ Filled(seg)'
    BY <1>9, FinishFills
  <2>3. obuf_len' \in Nat /\ transport_len' \in Nat
    BY <1>1, <2>1, LengthsNat
  <2>. QED BY <1>1, <2>1, <2>2, <2>3 DEF ValueInv, Headed, ReceiverVerifies
<1>10. CASE Send
  <2>1. pc = "send" /\ pc' = "sent" /\ head' = head /\ seg' = seg
    BY <1>10 DEF Send
  <2>2. B >= 4 => ReceiverVerifies'
    BY <1>1, <1>10, SendVerifies
  <2>3. obuf_len' \in Nat /\ transport_len' \in Nat
    BY <1>1, <2>1, LengthsNat
  <2>. QED BY <1>1, <1>2, <2>1, <2>2, <2>3 DEF ValueInv, Headed
<1>11. CASE UNCHANGED pktVars
  <2>1. Filled(seg)' <=> Filled(seg)
    BY <1>11 DEF pktVars, Filled, Blank
  <2>2. ReceiverVerifies' <=> ReceiverVerifies
    BY <1>11 DEF pktVars, ReceiverVerifies
  <2>. QED BY <1>1, <1>11, <2>1, <2>2 DEF pktVars, ValueInv
<1>. QED BY <1>3, <1>4, <1>5, <1>6, <1>7, <1>8, <1>9, <1>10, <1>11 DEF PktNext
-----------------------------------------------------------------------------
(* Whatever doApp and the bindings put into a packet, every field of the   *)
(* buffer holds a word, the payload bytes, and no length is negative       *)
(* (packet.cc:56-141, nat.cc:20-72).                                       *)
THEOREM PacketTypes == PktSpec => []PktTypeOK
<1>1. PktInit => ValueInv
  BY ValuesInit
<1>2. ValueInv /\ [PktNext]_pktVars => ValueInv'
  BY ValuesNext
<1>3. ValueInv => PktTypeOK
  BY DEF ValueInv, PktInv, PktTypeOK
<1>. QED BY <1>1, <1>2, <1>3, PTL DEF PktSpec

(* The checksum that finish writes is right for every receiver, for every  *)
(* payload, odd or even, every address and either protocol, although the   *)
(* code adds host words in 32 bits and folds only when the highest bit is  *)
(* set (packet.cc:9-43, 129-141).  B is 256 in the code; from 4 on, half   *)
(* of the sum's range has room for all words that are added after the      *)
(* loop, where nothing folds (Room).                                       *)
THEOREM ChecksumVerifies ==
  ASSUME B >= 4 PROVE PktSpec => []ReceiverVerifies
<1>1. PktInit => ValueInv
  BY ValuesInit
<1>2. ValueInv /\ [PktNext]_pktVars => ValueInv'
  BY ValuesNext
<1>3. ValueInv => ReceiverVerifies
  BY DEF ValueInv
<1>. QED BY <1>1, <1>2, <1>3, PTL DEF PktSpec
=============================================================================
