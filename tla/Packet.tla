------------------------------- MODULE Packet -------------------------------
(***************************************************************************)
(* One packet on its way through a worker, class Packet (packet.cc) with   *)
(* the header code of NAT (nat.cc) and the raw sockets (socket.cc): the    *)
(* arriving bytes are unpacked behind a header of the other IP version,    *)
(* doApp may change numbers and payload, ports and IP header are written,  *)
(* the checksum is computed, and the kernel sends what the socket gets.    *)
(*                                                                         *)
(* A byte is a number below B and a word of a header is a number below     *)
(* B * B, in network order; the host is little-endian.  A segment has four *)
(* words before its data: the ports, one word for all that TCP and UDP     *)
(* have between ports and checksum (the length, for UDP), the checksum.    *)
(* An IPv4 address is one word and an IPv6 address two: prefix, last word. *)
(***************************************************************************)
EXTENDS Integers, Sequences, SequencesExt

CONSTANTS
  B,          \* 256
  V4Head,     \* 20: bytes of an IPv4 header
  V6Head,     \* 40: bytes of an IPv6 header
  TCP, UDP,   \* protocol numbers
  Prefix,     \* word: the configured IPv6Prefix
  Arrivals,   \* packets for the gateway: [v, proto, src, dst, seg]
  Bindings,   \* what begin may find: [ip4, port4, ip6, port6]
  Numbers,    \* words that doApp's shifting of TCP numbers may leave
  Payloads    \* byte strings that modify may put in a payload's place

W16 == B * B
W32 == W16 * W16
Byte == 0 .. B - 1
Word == 0 .. W16 - 1
Segment == [sport : Word, dport : Word, mid : Word, check : Word, data : Seq(Byte)]
SegmentHead == 8

ASSUME BaseAssumption ==
  /\ B \in Nat \ {0, 1} /\ V4Head \in Nat /\ V6Head \in Nat
  /\ TCP \in Byte /\ UDP \in Byte /\ TCP # UDP /\ Prefix \in Word

(* IPv4 headers have no options, IPv6 headers no extensions, and no packet *)
(* comes near 64K (main reads into 4096 bytes).                            *)
ASSUME TrafficAssumption ==
  /\ \A a \in Arrivals :
       /\ a.v \in {4, 6} /\ a.proto \in {TCP, UDP} /\ a.seg \in Segment
       /\ a.proto = UDP => a.seg.mid = SegmentHead + Len(a.seg.data)
       /\ a.v = 4 => a.src \in [1 .. 1 -> Word] /\ a.dst \in [1 .. 1 -> Word]
       /\ a.v = 6 => a.src \in [1 .. 2 -> Word] /\ a.dst \in [1 .. 2 -> Word]
  /\ \A b \in Bindings : /\ b.ip4 \in [1 .. 1 -> Word] /\ b.port4 \in Word
                         /\ b.ip6 \in [1 .. 2 -> Word] /\ b.port6 \in Word
  /\ Numbers \subseteq Word /\ Payloads \subseteq Seq(Byte)
  /\ \A d \in Payloads \cup {a.seg.data : a \in Arrivals} :
       V4Head + SegmentHead + Len(d) < W16

VARIABLES
  pc,             \* the function NAT::translate calls next
  ibuf,           \* the packet that arrived
  bind,           \* the flow begin found: ip4p_, ip6p_
  head,           \* the IP header in obuf_
  seg,            \* the segment in obuf_
  obuf_len,       \* obuf_len_
  transport_len,  \* transport_len_
  wire            \* what the kernel sent
pktVars == <<pc, ibuf, bind, head, seg, obuf_len, transport_len, wire>>
-----------------------------------------------------------------------------
(* Bytes and words.                                                        *)

Swap(w)  == (w % B) * B + w \div B
Bytes(w) == <<w \div B, w % B>>
SegmentBytes(s) ==
  Bytes(s.sport) \o Bytes(s.dport) \o Bytes(s.mid) \o Bytes(s.check) \o s.data

(* The 16-bit words of a byte string as the host loads them.               *)
HostWords(bs) == [i \in 1 .. Len(bs) \div 2 |-> bs[2 * i - 1] + B * bs[2 * i]]

(* Additions to the 32-bit sum; the loop over the segment folds the sum    *)
(* when its highest bit is set.                                            *)
Plus(sum, w) == (sum + w) % W32
Carry(sum)   == (sum % W16) + sum \div W16
PlusFold(sum, w) ==
  IF Plus(sum, w) >= W32 \div 2 THEN Carry(Plus(sum, w)) ELSE Plus(sum, w)

Carried(sum) ==
  LET after[s \in 0 .. W32 - 1] == IF s < W16 THEN s ELSE after[Carry(s)]
  IN  after[sum]

(* Faulty variant, for a mutant only: an odd last byte is left out.        *)
TcpChecksumUnpadded(bs, saddr, daddr, protocol) ==
  LET body   == FoldLeft(PlusFold, 0, HostWords(bs))
      pseudo == FoldLeft(LAMBDA s, w : Plus(s, Swap(w)), body, saddr \o daddr)
  IN  W16 - 1 - Carried(Plus(Plus(pseudo, Swap(protocol)), Swap(Len(bs) % W16)))

(* tcp_checksum; the result is a word of the host.                         *)
TcpChecksum(bs, saddr, daddr, protocol) ==
  LET body   == FoldLeft(PlusFold, 0, HostWords(bs))
      padded == IF Len(bs) % 2 = 1 THEN Plus(body, bs[Len(bs)]) ELSE body
      pseudo == FoldLeft(LAMBDA s, w : Plus(s, Swap(w)), padded, saddr \o daddr)
  IN  W16 - 1 - Carried(Plus(Plus(pseudo, Swap(protocol)), Swap(Len(bs) % W16)))
-----------------------------------------------------------------------------
(* Packet.                                                                 *)

HeadLen(v)    == IF v = 6 THEN V6Head ELSE V4Head
GetIPVersion  == IF ibuf.v = 4 THEN 6 ELSE 4

(* Faulty variant, for a mutant only: the arriving header's length is      *)
(* taken off the new packet's.                                             *)
UnpackOldHead ==
  /\ pc = "unpack"
  /\ seg' = ibuf.seg
  /\ obuf_len' = Len(SegmentBytes(ibuf.seg)) + HeadLen(GetIPVersion)
  /\ transport_len' = obuf_len' - HeadLen(ibuf.v)
  /\ pc' = "doApp"
  /\ UNCHANGED <<ibuf, bind, head, wire>>

(* unpack and handleTransportLayer.  The header in obuf_ is not yet        *)
(* written.                                                                *)
Unpack ==
  /\ pc = "unpack"
  /\ seg' = ibuf.seg
  /\ obuf_len' = Len(SegmentBytes(ibuf.seg)) + HeadLen(GetIPVersion)
  /\ transport_len' = obuf_len' - HeadLen(GetIPVersion)
  /\ pc' = "doApp"
  /\ UNCHANGED <<ibuf, bind, head, wire>>

(* Faulty variant, for a mutant only: the datagram's own length stays.     *)
SetTransportLenUdpless(s, len) ==
  /\ transport_len' = len
  /\ obuf_len' = HeadLen(GetIPVersion) + len
  /\ seg' = s

(* setTransportLen, after s was put into the buffer.                       *)
SetTransportLen(s, len) ==
  /\ transport_len' = len
  /\ obuf_len' = HeadLen(GetIPVersion) + len
  /\ seg' = IF ibuf.proto = UDP THEN [s EXCEPT !.mid = len % W16] ELSE s

(* updateChecksum.  The IPv4 header's own checksum is computed too, over   *)
(* the whole datagram, and replaced by the kernel's.                       *)
UpdateChecksum ==
  LET zero == [seg EXCEPT !.check = 0]
      sent == SubSeq(SegmentBytes(zero), 1, transport_len)
  IN  seg' = [zero EXCEPT !.check =
                Swap(TcpChecksum(sent, head.src, head.dst, ibuf.proto))]
-----------------------------------------------------------------------------
(* NAT.                                                                    *)

(* doApp shifts the numbers of a TCP packet first.                         *)
ShiftNumbers ==
  /\ pc = "doApp" /\ pc' = "modify"
  /\ IF ibuf.proto = TCP THEN \E n \in Numbers : seg' = [seg EXCEPT !.mid = n]
     ELSE seg' = seg
  /\ UNCHANGED <<ibuf, bind, head, obuf_len, transport_len, wire>>

(* What Flow::modify does to the packet: another payload and its length.   *)
Modify ==
  /\ pc = "modify" /\ pc' = "doPorts"
  /\ seg.data # <<>>
  /\ \E d \in Payloads :
       SetTransportLen([seg EXCEPT !.data = d], SegmentHead + Len(d))
  /\ UNCHANGED <<ibuf, bind, head, wire>>

(* doApp finds no operation, or is not called.                             *)
LeaveAsIs ==
  /\ pc \in {"doApp", "modify"} /\ pc' = "doPorts"
  /\ UNCHANGED <<ibuf, bind, head, seg, obuf_len, transport_len, wire>>

(* doSPort and doDPort.                                                    *)
DoPorts ==
  /\ pc = "doPorts" /\ pc' = "doIP"
  /\ seg' = IF GetIPVersion = 4 THEN [seg EXCEPT !.sport = bind.port4]
            ELSE [seg EXCEPT !.dport = bind.port6]
  /\ UNCHANGED <<ibuf, bind, head, obuf_len, transport_len, wire>>

(* make_ip4pkt and make_ip6pkt.  The length written is that of the         *)
(* segment in both; IPv4 would count its header as well.                   *)
MakePkt(v, payload_len, src, dst) ==
  [v |-> v, len |-> payload_len % W16, proto |-> ibuf.proto, src |-> src, dst |-> dst]

DoIP ==
  /\ pc = "doIP" /\ pc' = "finish"
  /\ head' = IF GetIPVersion = 4
             THEN MakePkt(4, transport_len, bind.ip4, <<ibuf.dst[2]>>)
             ELSE MakePkt(6, transport_len, <<Prefix, ibuf.src[1]>>, bind.ip6)
  /\ UNCHANGED <<ibuf, bind, seg, obuf_len, transport_len, wire>>

Finish ==
  /\ pc = "finish" /\ pc' = "send"
  /\ UpdateChecksum
  /\ UNCHANGED <<ibuf, bind, head, obuf_len, transport_len, wire>>

(* A raw socket takes obuf_len_ bytes from obuf_.  For IPv4 the kernel     *)
(* fills in the total length; an IPv6 header goes out as it is.            *)
Kernel(h, len) == IF h.v = 4 THEN [h EXCEPT !.len = len] ELSE h

Send ==
  /\ pc = "send" /\ pc' = "sent"
  /\ wire' = [head |-> Kernel(head, obuf_len), bytes |-> obuf_len,
              seg |-> [seg EXCEPT !.data =
                        SubSeq(@, 1, obuf_len - HeadLen(head.v) - SegmentHead)]]
  /\ UNCHANGED <<ibuf, bind, head, seg, obuf_len, transport_len>>

NoHead == [v |-> 0]

PktInit ==
  /\ pc = "unpack" /\ ibuf \in Arrivals /\ bind \in Bindings
  /\ head = NoHead /\ seg = ibuf.seg /\ wire = <<>>
  /\ obuf_len = 0 /\ transport_len = 0

PktNext ==
  Unpack \/ ShiftNumbers \/ Modify \/ LeaveAsIs \/ DoPorts \/ DoIP \/ Finish \/ Send

PktSpec == PktInit /\ [][PktNext]_pktVars
-----------------------------------------------------------------------------
(* What a receiver makes of a packet: the length its IP header tells, and  *)
(* the sum of RFC 1071 in network order, which must be a multiple of the   *)
(* largest word.                                                           *)
SeenLen(h) == IF h.v = 4 THEN h.len - V4Head ELSE h.len

NetWords(bs) ==
  LET At(i) == IF i \in DOMAIN bs THEN bs[i] ELSE 0
  IN  [i \in 1 .. (Len(bs) + 1) \div 2 |-> B * At(2 * i - 1) + At(2 * i)]

Verifies(h, s) ==
  LET sum == FoldLeft(+, h.proto + SeenLen(h),
                      NetWords(SegmentBytes(s)) \o h.src \o h.dst)
  IN  sum % (W16 - 1) = 0

PktTypeOK ==
  /\ pc \in {"unpack", "doApp", "modify", "doPorts", "doIP", "finish", "send", "sent"}
  /\ ibuf \in Arrivals /\ bind \in Bindings
  /\ seg \in Segment
  /\ obuf_len \in Nat /\ transport_len \in Nat
  /\ pc # "unpack" => obuf_len = HeadLen(GetIPVersion) + transport_len

(* The receiver of any packet, in either direction and of odd or even      *)
(* length, finds the checksum right, although the code adds little-endian  *)
(* words in 32 bits and folds late (packet.cc:9-43, 129-141).  A checksum  *)
(* of 0 is right as well, but in UDP it means that there is none.          *)
ReceiverVerifies == pc = "sent" => Verifies(wire.head, wire.seg)

(* Every length that tells where a packet ends agrees with what was sent,  *)
(* whether or not doApp changed the payload (packet.cc:93-100, 120-127,    *)
(* nat.cc:20, 37): the bytes given to the socket, the length in the IP     *)
(* header, and UDP's own.                                                  *)
LengthsAgree ==
  pc = "sent" =>
    LET n == Len(SegmentBytes(wire.seg)) IN
    /\ wire.bytes = HeadLen(wire.head.v) + n
    /\ SeenLen(wire.head) = n
    /\ ibuf.proto = UDP => wire.seg.mid = n
=============================================================================
