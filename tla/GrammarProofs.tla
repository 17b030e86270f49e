---------------------------- MODULE GrammarProofs ----------------------------
(***************************************************************************)
(* The operations of a message never overlap, for all lengths of addresses *)
(* and ports, all messages and all mapped addresses, if an address of a c= *)
(* line is used by one m= line at most; then also the Content-Length of a  *)
(* SIP message grows with its body; and of a page, of any tags and any     *)
(* length, the addresses in links are changed and no others.               *)
(*                                                                         *)
(* parser.cc adds up the operations that count in their order, the         *)
(* property those in the body in any order: lemmas from UpTo to            *)
(* TotalDeltaIs show the two sums equal, by the least counterexample.      *)
(***************************************************************************)
EXTENDS Grammar, FiniteSetTheorems, WellFoundedInduction, TLAPS

TokenType == [pos : Nat, pos_end : Nat, num : Nat]
OpType ==
  [start_pos : Nat, end_pos : Nat, size : Nat, cnt : BOOLEAN, num : Int]

(* A token that has been read and that no operation touches.               *)
Free(t, s, len) ==
  /\ t \in TokenType /\ t.pos < t.pos_end /\ t.pos_end <= len
  /\ \A i \in DOMAIN s : Apart(t.pos, t.pos_end, s[i].start_pos, s[i].end_pos)

TokensApart(t, u) ==
  \/ t = NoToken
  \/ u = NoToken
  \/ Apart(t.pos, t.pos_end, u.pos, u.pos_end)

(* Operations s on the first len bytes, with two tokens kept for later.    *)
Good(s, len, clen, addr) ==
  /\ s \in Seq(OpType) /\ len \in Nat /\ Fits(s, len)
  /\ clen = NoToken \/ Free(clen, s, len)
  /\ addr = NoToken \/ Free(addr, s, len)
  /\ TokensApart(clen, addr)

(* The address of the last c= line while no m= line has used it.           *)
Address == IF media = 0 THEN c_ip_ ELSE NoToken

GrInv ==
  /\ OpsFit
  /\ stage # "done" => /\ media \in Nat
                       /\ Good(ops, end, content_len_, Address)
-----------------------------------------------------------------------------
LEMMA OpsTyped ==
  ASSUME NEW u \in Seq(OpType), NEW j \in DOMAIN u
  PROVE  u[j].start_pos \in Nat /\ u[j].end_pos \in Nat /\ u[j].size \in Nat
<1>1. u[j] \in OpType
  OBVIOUS
<1>. QED BY <1>1 DEF OpType

(* More bytes are read.                                                    *)
LEMMA ReadMore ==
  ASSUME NEW s, NEW n, NEW cl, NEW ad, Good(s, n, cl, ad), NEW m \in Nat, n <= m
  PROVE  Good(s, m, cl, ad)
<1>1. s \in Seq(OpType) /\ n \in Nat /\ Fits(s, n)
  BY DEF Good
<1>2. ASSUME NEW i \in DOMAIN s
      PROVE  s[i].end_pos <= m
  <2>1. s[i].end_pos \in Nat
    BY <1>1, OpsTyped
  <2>. QED BY <1>1, <2>1 DEF Fits
<1>3. Fits(s, m)
  BY <1>1, <1>2 DEF Fits
<1>4. ASSUME NEW t, Free(t, s, n)
      PROVE  Free(t, s, m)
  BY <1>1, <1>4 DEF Free, TokenType
<1>. QED BY <1>1, <1>3, <1>4 DEF Good

(* An operation that touches no other.                                     *)
LEMMA AddFits ==
  ASSUME NEW s \in Seq(OpType), NEW n \in Nat, Fits(s, n),
         NEW o, o.start_pos \in Nat, o.end_pos \in Nat, o.start_pos < o.end_pos,
         NEW m \in Nat, n <= m, o.end_pos <= m, o.size > 0,
         \A k \in DOMAIN s : Apart(o.start_pos, o.end_pos, s[k].start_pos, s[k].end_pos)
  PROVE  Fits(Append(s, o), m)
<1>. DEFINE r == Append(s, o)
<1>1. /\ Len(s) \in Nat /\ Len(r) = Len(s) + 1
      /\ DOMAIN r = 1 .. Len(r) /\ DOMAIN s = 1 .. Len(s)
      /\ \A k \in DOMAIN s : r[k] = s[k] /\ s[k] \in OpType
      /\ r[Len(r)] = o
  OBVIOUS
<1>. HIDE DEF r
<1>2. \A k \in DOMAIN r : k \in DOMAIN s \/ k = Len(r)
  BY <1>1
<1>3. ASSUME NEW i \in DOMAIN r
      PROVE  r[i].start_pos < r[i].end_pos /\ r[i].end_pos <= m /\ r[i].size > 0
  <2>1. CASE i \in DOMAIN s
    <3>1. s[i].end_pos \in Nat /\ s[i].end_pos <= n
      BY <2>1, OpsTyped DEF Fits
    <3>2. s[i].start_pos < s[i].end_pos /\ s[i].size > 0 /\ r[i] = s[i]
      BY <2>1, <1>1 DEF Fits
    <3>. QED BY <3>1, <3>2
  <2>2. CASE i = Len(r)
    BY <2>2, <1>1
  <2>. QED BY <2>1, <2>2, <1>2
<1>4. ASSUME NEW i \in DOMAIN r, NEW j \in DOMAIN r, i # j
      PROVE  Apart(r[i].start_pos, r[i].end_pos, r[j].start_pos, r[j].end_pos)
  <2>1. CASE i \in DOMAIN s /\ j \in DOMAIN s
    BY <2>1, <1>1, <1>4 DEF Fits
  <2>2. CASE i = Len(r) /\ j \in DOMAIN s
    BY <2>2, <1>1
  <2>3. CASE i \in DOMAIN s /\ j = Len(r)
    <3>1. Apart(o.start_pos, o.end_pos, s[i].start_pos, s[i].end_pos)
      BY <2>3
    <3>. QED BY <3>1, <2>3, <1>1 DEF Apart
  <2>. QED BY <2>1, <2>2, <2>3, <1>2, <1>4
<1>. QED BY <1>3, <1>4 DEF Fits, r

(* A token it does not touch stays free.                                   *)
LEMMA StaysFree ==
  ASSUME NEW s \in Seq(OpType), NEW n \in Nat, NEW m \in Nat, n <= m,
         NEW t, Free(t, s, n), NEW o \in OpType,
         Apart(t.pos, t.pos_end, o.start_pos, o.end_pos)
  PROVE  Free(t, Append(s, o), m)
<1>. DEFINE r == Append(s, o)
<1>1. \A k \in DOMAIN r : (k \in DOMAIN s /\ r[k] = s[k]) \/ r[k] = o
  OBVIOUS
<1>. HIDE DEF r
<1>2. \A k \in DOMAIN r : Apart(t.pos, t.pos_end, r[k].start_pos, r[k].end_pos)
  BY <1>1 DEF Free
<1>3. t \in TokenType /\ t.pos < t.pos_end /\ t.pos_end <= m
  BY DEF Free, TokenType
<1>. QED BY <1>2, <1>3 DEF Free, r

LEMMA OperationType ==
  ASSUME NEW t \in TokenType, NEW sz \in Nat, NEW c \in BOOLEAN
  PROVE  /\ Operation(t, sz, c) \in OpType
         /\ Operation(t, sz, c).start_pos = t.pos
         /\ Operation(t, sz, c).end_pos = t.pos_end
         /\ Operation(t, sz, c).size = sz
BY DEF Operation, OpType, TokenType

(* An operation on a token just read.                                      *)
LEMMA AddNew ==
  ASSUME NEW s, NEW n, NEW cl, NEW ad, Good(s, n, cl, ad),
         NEW t \in TokenType, n <= t.pos, t.pos < t.pos_end,
         NEW sz \in Nat \ {0}, NEW c \in BOOLEAN
  PROVE  Good(Append(s, Operation(t, sz, c)), t.pos_end, cl, ad)
<1>. DEFINE o == Operation(t, sz, c)
<1>1. o \in OpType /\ o.start_pos = t.pos /\ o.end_pos = t.pos_end /\ o.size = sz
  BY OperationType
<1>2. /\ s \in Seq(OpType) /\ n \in Nat /\ Fits(s, n) /\ t.pos_end \in Nat
      /\ t.pos \in Nat /\ n <= t.pos_end
  BY DEF Good, TokenType
<1>. HIDE DEF o
<1>3. \A k \in DOMAIN s : Apart(o.start_pos, o.end_pos, s[k].start_pos, s[k].end_pos)
  <2>1. ASSUME NEW k \in DOMAIN s
        PROVE  s[k].end_pos <= o.start_pos
    <3>1. s[k].end_pos \in Nat /\ s[k].end_pos <= n
      BY <1>2, OpsTyped DEF Fits
    <3>. QED BY <3>1, <1>1, <1>2
  <2>. QED BY <2>1 DEF Apart
<1>4. Append(s, o) \in Seq(OpType) /\ Fits(Append(s, o), t.pos_end)
  <2>1. o.start_pos < o.end_pos /\ o.end_pos <= t.pos_end /\ o.size > 0
    BY <1>1, <1>2
  <2>2. o.start_pos \in Nat /\ o.end_pos \in Nat
    BY <1>1, <1>2
  <2>3. Fits(Append(s, o), t.pos_end)
    BY <1>2, <1>3, <2>1, <2>2, AddFits
  <2>. QED BY <2>3, <1>1, <1>2
<1>5. ASSUME NEW u, Free(u, s, n)
      PROVE  Free(u, Append(s, o), t.pos_end)
  <2>1. Apart(u.pos, u.pos_end, o.start_pos, o.end_pos)
    BY <1>1, <1>2, <1>5 DEF Free, Apart, TokenType
  <2>. QED BY <1>1, <1>2, <1>5, <2>1, StaysFree
<1>. QED BY <1>2, <1>4, <1>5 DEF Good, o

(* An operation on the address that was kept.                              *)
LEMMA AddKept ==
  ASSUME NEW s, NEW n, NEW cl, NEW ad, Good(s, n, cl, ad), ad # NoToken,
         NEW sz \in Nat \ {0}, NEW c \in BOOLEAN
  PROVE  Good(Append(s, Operation(ad, sz, c)), n, cl, NoToken)
<1>. DEFINE o == Operation(ad, sz, c)
<1>1. /\ s \in Seq(OpType) /\ n \in Nat /\ Fits(s, n) /\ Free(ad, s, n)
      /\ ad \in TokenType /\ n <= n
  BY DEF Good, Free
<1>2. o \in OpType /\ o.start_pos = ad.pos /\ o.end_pos = ad.pos_end /\ o.size = sz
  BY <1>1, OperationType
<1>. HIDE DEF o
<1>3. /\ \A k \in DOMAIN s : Apart(o.start_pos, o.end_pos, s[k].start_pos, s[k].end_pos)
      /\ o.start_pos < o.end_pos /\ o.end_pos <= n /\ o.size > 0
  BY <1>1, <1>2 DEF Free
<1>4. Append(s, o) \in Seq(OpType) /\ Fits(Append(s, o), n)
  <2>1. o.start_pos \in Nat /\ o.end_pos \in Nat
    BY <1>2 DEF OpType
  <2>2. Fits(Append(s, o), n)
    BY <1>1, <1>3, <2>1, AddFits
  <2>. QED BY <2>2, <1>1, <1>2
<1>5. cl = NoToken \/ Free(cl, Append(s, o), n)
  <2>1. CASE cl # NoToken
    <3>1. Free(cl, s, n) /\ Apart(cl.pos, cl.pos_end, o.start_pos, o.end_pos)
      BY <2>1, <1>2 DEF Good, TokensApart
    <3>. QED BY <3>1, <1>1, <1>2, StaysFree
  <2>. QED BY <2>1
<1>. QED BY <1>1, <1>4, <1>5 DEF Good, TokensApart, o

(* A token just read is kept for later.                                    *)
LEMMA KeepToken ==
  ASSUME NEW s, NEW n, NEW cl, NEW ad, Good(s, n, cl, ad),
         NEW t \in TokenType, n <= t.pos, t.pos < t.pos_end
  PROVE  Good(s, t.pos_end, t, ad) /\ Good(s, t.pos_end, cl, t)
<1>1. t.pos_end \in Nat /\ n \in Nat /\ n <= t.pos_end
  BY DEF TokenType, Good
<1>2. Good(s, t.pos_end, cl, ad)
  BY <1>1, ReadMore
<1>3. Free(t, s, t.pos_end)
  <2>1. ASSUME NEW k \in DOMAIN s
        PROVE  s[k].end_pos <= t.pos
    <3>1. s[k].end_pos \in Nat /\ s[k].end_pos <= n
      BY OpsTyped DEF Good, Fits
    <3>. QED BY <3>1, <1>1 DEF TokenType
  <2>2. t.pos_end <= t.pos_end
    BY <1>1
  <2>. QED BY <2>1, <2>2 DEF Free, Apart
<1>4. TokensApart(t, ad) /\ TokensApart(cl, t)
  BY DEF Good, Free, TokensApart, Apart, TokenType
<1>. QED BY <1>2, <1>3, <1>4 DEF Good
-----------------------------------------------------------------------------
(* What a step has to leave behind.                                        *)
LEMMA Step ==
  ASSUME Good(ops', end', content_len_', Address'), media' \in Nat
  PROVE  GrInv'
BY DEF GrInv, OpsFit, Good

(* A line without operations.                                              *)
LEMMA PlainLine ==
  ASSUME GrInv, stage # "done", NEW t \in TokenType, t.pos_end >= end, Read(t),
         UNCHANGED <<ops, content_len_, c_ip_, media>>
  PROVE  GrInv'
<1>1. Good(ops, end, content_len_, Address) /\ media \in Nat /\ end \in Nat
  BY DEF GrInv, Good
<1>2. end' \in Nat /\ end <= end'
  BY <1>1 DEF Read, TokenType
<1>3. Good(ops, end', content_len_, Address)
  BY <1>1, <1>2, ReadMore
<1>4. Address' = Address
  BY DEF Address
<1>. QED BY <1>1, <1>3, <1>4, Step

LEMMA GrInitInv == GrInit => GrInv
<1>1. <<>> \in Seq(OpType) /\ DOMAIN <<>> = {}
  OBVIOUS
<1>. QED BY <1>1 DEF GrInit, GrInv, OpsFit, Good, Fits, TokensApart, Address

(* Lines of one or two tokens.                                             *)
LEMMA PlainTokens ==
  ASSUME GrInv, stage # "done",
         UNCHANGED <<ops, content_len_, c_ip_, media>>,
         Read(First(1)) \/ Read(First(4)) \/ Read(First(6)) \/ Read(After(First(1), 1))
  PROVE  GrInv'
<1>1. end \in Nat
  BY DEF GrInv, Good
<1>2. ASSUME NEW n \in {1, 4, 6}
      PROVE  First(n) \in TokenType /\ First(n).pos_end >= end
  BY <1>1, <1>2 DEF First, Token, TokenType
<1>3. After(First(1), 1) \in TokenType /\ After(First(1), 1).pos_end >= end
  BY <1>1 DEF First, After, Token, TokenType
<1>. QED BY <1>2, <1>3, PlainLine
-----------------------------------------------------------------------------
LEMMA EprtInv == GrInv /\ Eprt => GrInv'
<1>. SUFFICES ASSUME GrInv, Eprt PROVE GrInv'
  OBVIOUS
<1>. USE GrammarAssumption
<1>1. PICK a \in Ip6Sizes, p \in PortSizes :
        LET family == After(First(4), 1)
            ip     == After(family, a)
            port   == After(ip, p)
        IN  /\ AddOperations(<<Operation(family, 1, FALSE),
                               Operation(ip, Ip4Size, FALSE),
                               Operation(port, Port4Size, FALSE)>>)
            /\ Read(port)
  BY DEF Eprt
<1>. DEFINE cmd == First(4)  family == After(cmd, 1)  ip == After(family, a)
            port == After(ip, p)
            o1 == Operation(family, 1, FALSE)
            o2 == Operation(ip, Ip4Size, FALSE)
            o3 == Operation(port, Port4Size, FALSE)
<1>2. /\ Good(ops, end, content_len_, Address) /\ media \in Nat /\ end \in Nat
      /\ ops \in Seq(OpType)
  BY DEF GrInv, Good, Eprt
<1>3. /\ cmd \in TokenType /\ family \in TokenType /\ ip \in TokenType /\ port \in TokenType
      /\ end <= family.pos /\ family.pos < family.pos_end
      /\ family.pos_end <= ip.pos /\ ip.pos < ip.pos_end
      /\ ip.pos_end <= port.pos /\ port.pos < port.pos_end /\ port.pos_end \in Nat
  BY <1>2 DEF First, After, Token, TokenType
<1>4. /\ ops' = ops \o <<o1, o2, o3>> /\ end' = port.pos_end + 1
      /\ UNCHANGED <<content_len_, c_ip_, media>>
  BY <1>1 DEF Eprt, AddOperations, Read, sipVars
<1>5. o1 \in OpType /\ o2 \in OpType /\ o3 \in OpType
  BY <1>3, OperationType
<1>. HIDE DEF family, ip, port, o1, o2, o3
<1>6. ops' = Append(Append(Append(ops, o1), o2), o3)
  BY <1>2, <1>4, <1>5
<1>7. Good(Append(ops, o1), family.pos_end, content_len_, Address)
  <2>1. 1 \in Nat \ {0} /\ FALSE \in BOOLEAN
    OBVIOUS
  <2>. QED BY <2>1, <1>2, <1>3, AddNew DEF o1
<1>8. Good(Append(Append(ops, o1), o2), ip.pos_end, content_len_, Address)
  BY <1>7, <1>3, AddNew DEF o2
<1>9. Good(ops', port.pos_end, content_len_, Address)
  BY <1>8, <1>3, <1>6, AddNew DEF o3
<1>10. end' \in Nat /\ port.pos_end <= end'
  BY <1>3, <1>4
<1>11. Good(ops', end', content_len_, Address)
  BY <1>9, <1>10, ReadMore
<1>12. Address' = Address
  BY <1>4 DEF Address
<1>. QED BY <1>2, <1>4, <1>11, <1>12, Step

LEMMA ContentLengthInv == GrInv /\ ContentLength => GrInv'
<1>. SUFFICES ASSUME GrInv, ContentLength PROVE GrInv'
  OBVIOUS
<1>1. PICK n \in Lengths :
        /\ content_len_' = [After(First(14), Digits(n)) EXCEPT !.num = n]
        /\ Read(After(First(14), Digits(n)))
  BY DEF ContentLength
<1>. DEFINE t == After(First(14), Digits(n))
<1>2. /\ Good(ops, end, content_len_, Address) /\ media \in Nat /\ end \in Nat
      /\ n \in Nat
  BY GrammarAssumption DEF GrInv, Good, ContentLength
<1>3. Digits(n) \in Nat \ {0}
  BY DEF Digits
<1>4. /\ t \in TokenType /\ end <= t.pos /\ t.pos < t.pos_end /\ t.pos_end \in Nat
  BY <1>2, <1>3 DEF First, After, Token, TokenType
<1>. DEFINE c == content_len_'
<1>5. c = [t EXCEPT !.num = n] /\ end' = t.pos_end + 1
  BY <1>1 DEF Read
<1>. HIDE DEF t, c
<1>6. c \in TokenType /\ c.pos = t.pos /\ c.pos_end = t.pos_end
  BY <1>2, <1>4, <1>5 DEF TokenType
<1>7. Good(ops, c.pos_end, c, Address)
  BY <1>2, <1>4, <1>6, KeepToken
<1>8. Good(ops, end', c, Address)
  BY <1>4, <1>5, <1>6, <1>7, ReadMore
<1>9. Address' = Address /\ ops' = ops /\ media' = media
  BY DEF Address, ContentLength
<1>. QED BY <1>2, <1>8, <1>9, Step DEF c

LEMMA EndpointHeaderInv == GrInv /\ EndpointHeader => GrInv'
<1>. SUFFICES ASSUME GrInv, EndpointHeader PROVE GrInv'
  OBVIOUS
<1>. USE GrammarAssumption
<1>1. PICK a \in Ip6Sizes, p \in PortSizes :
        LET ip   == After(First(3), a)
            port == After(ip, p)
        IN  /\ AddOperations(<<Operation(ip, Ip4Size, FALSE),
                               Operation(port, Port4Size, FALSE)>>)
            /\ Read(port)
  BY DEF EndpointHeader
<1>. DEFINE name == First(3)  ip == After(name, a)  port == After(ip, p)
            o1 == Operation(ip, Ip4Size, FALSE)
            o2 == Operation(port, Port4Size, FALSE)
<1>2. /\ Good(ops, end, content_len_, Address) /\ media \in Nat /\ end \in Nat
      /\ ops \in Seq(OpType)
  BY DEF GrInv, Good, EndpointHeader
<1>3. /\ name \in TokenType /\ ip \in TokenType /\ port \in TokenType
      /\ end <= ip.pos /\ ip.pos < ip.pos_end
      /\ ip.pos_end <= port.pos /\ port.pos < port.pos_end /\ port.pos_end \in Nat
  BY <1>2 DEF First, After, Token, TokenType
<1>4. /\ ops' = ops \o <<o1, o2>> /\ end' = port.pos_end + 1
      /\ UNCHANGED <<content_len_, c_ip_, media>>
  BY <1>1 DEF EndpointHeader, AddOperations, Read, sipVars
<1>5. o1 \in OpType /\ o2 \in OpType
  BY <1>3, OperationType
<1>. HIDE DEF ip, port, o1, o2
<1>6. ops' = Append(Append(ops, o1), o2)
  BY <1>2, <1>4, <1>5
<1>7. Good(Append(ops, o1), ip.pos_end, content_len_, Address)
  BY <1>2, <1>3, AddNew DEF o1
<1>8. Good(ops', port.pos_end, content_len_, Address)
  BY <1>7, <1>3, <1>6, AddNew DEF o2
<1>9. end' \in Nat /\ port.pos_end <= end'
  BY <1>3, <1>4
<1>10. Good(ops', end', content_len_, Address)
  BY <1>8, <1>9, ReadMore
<1>11. Address' = Address
  BY <1>4 DEF Address
<1>. QED BY <1>2, <1>4, <1>10, <1>11, Step

LEMMA SdpCInv == GrInv /\ SdpC => GrInv'
<1>. SUFFICES ASSUME GrInv, SdpC PROVE GrInv'
  OBVIOUS
<1>. USE GrammarAssumption
<1>1. PICK a \in Ip6Sizes :
        LET family == After(After(First(1), 2), 3)
            ip     == After(family, a)
        IN  /\ c_ip_' = ip
            /\ AddOperations(<<Operation(family, 3, TRUE)>>)
            /\ Read(ip)
  BY DEF SdpC
<1>. DEFINE char == First(1)  net == After(char, 2)  family == After(net, 3)
            ip == After(family, a)  o1 == Operation(family, 3, TRUE)
<1>2. /\ Good(ops, end, content_len_, Address) /\ end \in Nat /\ ops \in Seq(OpType)
  BY DEF GrInv, Good, SdpC
<1>3. /\ char \in TokenType /\ net \in TokenType /\ family \in TokenType /\ ip \in TokenType
      /\ end <= family.pos /\ family.pos < family.pos_end
      /\ family.pos_end <= ip.pos /\ ip.pos < ip.pos_end /\ ip.pos_end \in Nat
  BY <1>2 DEF First, After, Token, TokenType
<1>4. /\ ops' = ops \o <<o1>> /\ end' = ip.pos_end + 1 /\ c_ip_' = ip
      /\ media' = 0 /\ content_len_' = content_len_
  BY <1>1 DEF SdpC, AddOperations, Read
<1>5. o1 \in OpType
  BY <1>3, OperationType
<1>. HIDE DEF family, ip, o1
<1>6. ops' = Append(ops, o1)
  BY <1>2, <1>4, <1>5
<1>7. Good(ops', family.pos_end, content_len_, Address)
  <2>1. 3 \in Nat \ {0} /\ TRUE \in BOOLEAN
    OBVIOUS
  <2>. QED BY <2>1, <1>2, <1>3, <1>6, AddNew DEF o1
<1>8. Good(ops', ip.pos_end, content_len_, ip)
  BY <1>3, <1>7, KeepToken
<1>9. end' \in Nat /\ ip.pos_end <= end'
  BY <1>3, <1>4
<1>10. Good(ops', end', content_len_, ip)
  BY <1>8, <1>9, ReadMore
<1>11. Address' = ip /\ media' \in Nat
  BY <1>4 DEF Address
<1>. QED BY <1>4, <1>10, <1>11, Step

LEMMA SdpMInv == MaxMedia <= 1 /\ GrInv /\ SdpM => GrInv'
<1>. SUFFICES ASSUME MaxMedia <= 1, GrInv, SdpM PROVE GrInv'
  OBVIOUS
<1>. USE GrammarAssumption
<1>1. PICK p \in PortSizes :
        LET port == After(After(First(1), 5), p) IN
        /\ AddOperations(IF c_ip_ = NoToken THEN <<>>
                         ELSE <<Operation(c_ip_, Ip4Size, TRUE),
                                Operation(port, Port4Size, TRUE)>>)
        /\ Read(port)
  BY DEF SdpM
<1>. DEFINE char == First(1)  word == After(char, 5)  port == After(word, p)
            o1 == Operation(c_ip_, Ip4Size, TRUE)
            o2 == Operation(port, Port4Size, TRUE)
<1>2. /\ Good(ops, end, content_len_, Address) /\ end \in Nat /\ ops \in Seq(OpType)
      /\ media \in Nat
  BY DEF GrInv, Good, SdpM
<1>3. media = 0 /\ media' = 1 /\ Address = c_ip_ /\ Address' = NoToken
  BY <1>2 DEF SdpM, Address
<1>4. /\ char \in TokenType /\ word \in TokenType /\ port \in TokenType
      /\ end <= port.pos /\ port.pos < port.pos_end /\ port.pos_end \in Nat
      /\ end <= port.pos_end
  BY <1>2 DEF First, After, Token, TokenType
<1>5. /\ ops' = ops \o (IF c_ip_ = NoToken THEN <<>> ELSE <<o1, o2>>)
      /\ end' = port.pos_end + 1 /\ content_len_' = content_len_
  BY <1>1 DEF SdpM, AddOperations, Read
<1>6. end' \in Nat /\ port.pos_end <= end' /\ end <= end'
  BY <1>2, <1>4, <1>5
<1>7. Good(ops', end', content_len_, NoToken)
  <2>1. CASE c_ip_ = NoToken
    <3>1. ops' = ops
      BY <2>1, <1>2, <1>5
    <3>2. Good(ops, end', content_len_, c_ip_)
      BY <1>2, <1>3, <1>6, ReadMore
    <3>. QED BY <2>1, <3>1, <3>2
  <2>2. CASE c_ip_ # NoToken
    <3>1. TRUE \in BOOLEAN /\ c_ip_ \in TokenType
      BY <2>2, <1>2, <1>3 DEF Good, Free
    <3>2. o1 \in OpType /\ o2 \in OpType
      BY <3>1, <1>4, OperationType
    <3>3. Good(Append(ops, o1), end, content_len_, NoToken)
      BY <2>2, <3>1, <1>2, <1>3, AddKept
    <3>4. Good(Append(Append(ops, o1), o2), port.pos_end, content_len_, NoToken)
      BY <3>1, <3>3, <1>4, AddNew
    <3>. HIDE DEF o1, o2
    <3>5. ops' = Append(Append(ops, o1), o2)
      BY <2>2, <3>2, <1>2, <1>5
    <3>. QED BY <3>4, <3>5, <1>6, ReadMore
  <2>. QED BY <2>1, <2>2
<1>8. 1 \in Nat
  OBVIOUS
<1>. QED BY <1>3, <1>5, <1>7, <1>8, Step

LEMMA SipMessageInv == GrInv /\ SipMessage => GrInv'
<1>. SUFFICES ASSUME GrInv, SipMessage PROVE GrInv'
  OBVIOUS
<1>1. /\ ops \in Seq(OpType) /\ Fits(ops, end) /\ end \in Nat /\ end <= end
      /\ content_len_ = NoToken \/ Free(content_len_, ops, end)
      /\ stage' = "done" /\ end' = end
  BY DEF GrInv, Good, SipMessage
<1>. DEFINE n == content_len_.num + TotalDelta
            o == [Operation(content_len_, Digits(n), FALSE) EXCEPT !.num = n]
<1>2. ops' = ops \o (IF content_len_ = NoToken THEN <<>> ELSE <<o>>)
  BY DEF SipMessage, AddOperations
<1>3. Fits(ops', end)
  <2>1. CASE content_len_ = NoToken
    <3>1. ops' = ops
      BY <2>1, <1>1, <1>2
    <3>. QED BY <3>1, <1>1
  <2>2. CASE content_len_ # NoToken
    <3>1. /\ content_len_ \in TokenType /\ content_len_.pos < content_len_.pos_end
          /\ content_len_.pos_end <= end
          /\ \A k \in DOMAIN ops : Apart(content_len_.pos, content_len_.pos_end,
                                          ops[k].start_pos, ops[k].end_pos)
      BY <2>2, <1>1 DEF Free
    <3>2. Digits(n) > 0
      BY DEF Digits
    <3>3. /\ o.start_pos = content_len_.pos /\ o.end_pos = content_len_.pos_end
          /\ o.size = Digits(n)
      BY DEF Operation
    <3>4. content_len_.pos \in Nat /\ content_len_.pos_end \in Nat
      BY <3>1 DEF TokenType
    <3>. HIDE DEF o
    <3>5. /\ o.start_pos \in Nat /\ o.end_pos \in Nat /\ o.start_pos < o.end_pos
          /\ o.end_pos <= end /\ o.size > 0
          /\ \A k \in DOMAIN ops : Apart(o.start_pos, o.end_pos,
                                          ops[k].start_pos, ops[k].end_pos)
      BY <3>1, <3>2, <3>3, <3>4
    <3>6. Fits(Append(ops, o), end)
      BY <1>1, <3>5, AddFits
    <3>7. ops' = Append(ops, o)
      BY <2>2, <1>1, <1>2
    <3>. QED BY <3>6, <3>7
  <2>. QED BY <2>1, <2>2
<1>. QED BY <1>1, <1>3 DEF GrInv, OpsFit

LEMMA StartTagInv == GrInv /\ StartTag => GrInv'
<1>. SUFFICES ASSUME GrInv, StartTag PROVE GrInv'
  OBVIOUS
<1>. USE GrammarAssumption
<1>1. /\ stage # "done" /\ stage' = stage /\ UNCHANGED <<content_len_, c_ip_, media>>
      /\ Good(ops, end, content_len_, Address) /\ end \in Nat /\ ops \in Seq(OpType)
      /\ media \in Nat /\ Address' = Address
  BY DEF GrInv, Good, StartTag, sipVars, Address
<1>2. CASE Read(First(1)) /\ ops' = ops
  BY <1>1, <1>2, PlainTokens
<1>3. ASSUME NEW a \in Ip6Sizes, Read(After(First(1), a)),
             AddOperations(IF curTag' = "a" THEN <<Operation(After(First(1), a), a, FALSE)>>
                           ELSE <<>>)
      PROVE  GrInv'
  <2>. DEFINE t == After(First(1), a)  o == Operation(t, a, FALSE)
  <2>1. /\ t \in TokenType /\ end <= t.pos /\ t.pos < t.pos_end /\ t.pos_end \in Nat
        /\ end <= t.pos_end
    BY <1>1 DEF First, After, Token, TokenType
  <2>2. end' = t.pos_end + 1 /\ ops' = ops \o (IF curTag' = "a" THEN <<o>> ELSE <<>>)
    BY <1>3 DEF Read, AddOperations
  <2>. HIDE DEF t
  <2>3. end' \in Nat /\ end <= end' /\ t.pos_end <= end'
    BY <1>1, <2>1, <2>2
  <2>4. CASE curTag' # "a"
    <3>1. ops' = ops
      BY <2>2, <2>4, <1>1
    <3>. QED BY <3>1, <1>1, <2>3, ReadMore, Step
  <2>5. CASE curTag' = "a"
    <3>1. o \in OpType /\ FALSE \in BOOLEAN
      BY <2>1, OperationType
    <3>2. Good(Append(ops, o), t.pos_end, content_len_, Address)
      BY <3>1, <1>1, <2>1, AddNew
    <3>. HIDE DEF o
    <3>3. ops' = Append(ops, o)
      BY <3>1, <2>2, <2>5, <1>1
    <3>4. Good(ops', end', content_len_, Address)
      BY <3>2, <3>3, <2>3, ReadMore
    <3>. QED BY <3>4, <1>1, Step
  <2>. QED BY <2>4, <2>5
<1>. QED BY <1>2, <1>3 DEF StartTag
-----------------------------------------------------------------------------
LEMMA GrNextInv == MaxMedia <= 1 /\ GrInv /\ [GrNext]_grVars => GrInv'
<1>. SUFFICES ASSUME MaxMedia <= 1, GrInv, [GrNext]_grVars PROVE GrInv'
  OBVIOUS
<1>1. ASSUME FtpOther \/ RequestLine \/ OtherHeader \/ EmptyLine \/ SdpOther
             \/ SdpError \/ HttpHeaders \/ CloseTag
      PROVE  GrInv'
  <2>1. stage # "done" /\ UNCHANGED <<ops, content_len_, c_ip_, media>>
    BY <1>1 DEF FtpOther, RequestLine, OtherHeader, EmptyLine, SdpOther, SdpError,
                HttpHeaders, CloseTag, sipVars
  <2>2. Read(First(1)) \/ Read(First(4)) \/ Read(First(6)) \/ Read(After(First(1), 1))
    BY <1>1 DEF FtpOther, RequestLine, OtherHeader, EmptyLine, SdpOther, SdpError,
                HttpHeaders, CloseTag
  <2>. QED BY <2>1, <2>2, PlainTokens
<1>2. CASE SipFails
  <2>1. stage # "done" /\ UNCHANGED <<ops, end, content_len_, c_ip_, media>>
    BY <1>2 DEF SipFails, sipVars
  <2>2. Good(ops', end', content_len_', Address') /\ media' \in Nat
    BY <2>1 DEF GrInv, Address
  <2>. QED BY <2>2, Step
<1>3. CASE UNCHANGED grVars
  BY <1>3 DEF grVars, sipVars, GrInv, OpsFit, Address
<1>. QED BY <1>1, <1>2, <1>3, EprtInv, ContentLengthInv, EndpointHeaderInv, SdpCInv,
            SdpMInv, SipMessageInv, StartTagInv DEF GrNext

(***************************************************************************)
(* The operations of a message lie in it and do not overlap, whatever the  *)
(* lengths of its addresses and ports and of the mapped ones, with one m=  *)
(* line to a c= line (sip/grammar:58-66, parser.cc:39-61).                 *)
(***************************************************************************)
THEOREM OpsAlwaysFit == ASSUME MaxMedia <= 1 PROVE GrSpec => []OpsFit
<1>1. GrInv /\ [GrNext]_grVars => GrInv'
  BY GrNextInv
<1>2. GrInv => OpsFit
  BY DEF GrInv
<1>. QED BY GrInitInv, <1>1, <1>2, PTL DEF GrSpec
-----------------------------------------------------------------------------
(* In a page where what ends was begun, ignore and curTag tell the script  *)
(* or text area we are in.                                                 *)
PageInv ==
  kind = "http" =>
    /\ stage \in {"start", "tags"}
    /\ \E S : ops \in Seq(S)
    /\ stage = "start" => raw = NoTag
    /\ ~odd => /\ ToSet(ops) = links
               /\ raw # NoTag => raw \in Raw /\ curTag = raw
               /\ stage = "tags" => ignore = IF raw = NoTag THEN 0 ELSE 1

(* No raw tag is a link or none.                                           *)
LEMMA TagsDiffer == NoTag \notin Raw /\ "a" \notin Raw /\ "a" # NoTag
BY DEF NoTag, Raw

(* One operation more.                                                     *)
LEMMA ToSetAppend ==
  ASSUME NEW S, NEW s \in Seq(S), NEW o
  PROVE  /\ \E T : s \o <<o>> \in Seq(T)
         /\ ToSet(s \o <<o>>) = ToSet(s) \cup {o}
         /\ s \o <<>> = s
<1>. DEFINE T == S \cup {o}
<1>1. s \in Seq(T) /\ o \in T
  OBVIOUS
<1>. HIDE DEF T
<1>2. s \o <<o>> \in Seq(T) /\ s \o <<>> = s
  BY <1>1
<1>3. /\ DOMAIN (s \o <<o>>) = 1 .. Len(s) + 1 /\ DOMAIN s = 1 .. Len(s) /\ Len(s) \in Nat
      /\ \A i \in 1 .. Len(s) : (s \o <<o>>)[i] = s[i]
      /\ (s \o <<o>>)[Len(s) + 1] = o
  BY <1>1
<1>4. ToSet(s \o <<o>>) = ToSet(s) \cup {o}
  <2>1. PICK r : r = s \o <<o>>
    OBVIOUS
  <2>2. /\ DOMAIN r = DOMAIN s \cup {Len(s) + 1} /\ r[Len(s) + 1] = o
        /\ \A i \in DOMAIN s : r[i] = s[i]
    BY <1>3, <2>1
  <2>3. {r[i] : i \in DOMAIN r} = {s[i] : i \in DOMAIN s} \cup {o}
    BY <2>2
  <2>. QED BY <2>1, <2>3 DEF ToSet
<1>. QED BY <1>2, <1>4

(* A page begins outside any script and text area.                         *)
LEMMA PageInit == GrInit => PageInv
<1>. SUFFICES ASSUME GrInit PROVE PageInv
  OBVIOUS
<1>1. <<>> \in Seq({}) /\ ToSet(<<>>) = {}
  BY DEF ToSet
<1>. QED BY <1>1 DEF GrInit, PageInv

(* A tag that begins is taken for the current one unless it is in a script *)
(* or text area; so an address counts exactly when it is a link's.         *)
LEMMA StartTagPage == PageInv /\ StartTag => PageInv'
<1>. SUFFICES ASSUME PageInv, StartTag PROVE PageInv'
  OBVIOUS
<1>1. kind = "http" /\ kind' = kind /\ stage = "tags" /\ stage' = stage /\ odd' = odd
  BY DEF StartTag, Read
<1>2. PICK S : ops \in Seq(S)
  BY <1>1 DEF PageInv
<1>3. PICK tag \in Tags :
        /\ BeginTag(tag)
        /\ raw' = IF raw = NoTag /\ tag \in Raw THEN tag ELSE raw
        /\ \/ UNCHANGED <<ops, links>>
           \/ \E a \in Ip6Sizes :
                LET op == Operation(After(First(1), a), a, FALSE)
                IN  /\ AddOperations(IF curTag' = "a" THEN <<op>> ELSE <<>>)
                    /\ links' = IF raw = NoTag /\ tag = "a" THEN links \cup {op}
                                ELSE links
  BY DEF StartTag
<1>4. \E T : ops' \in Seq(T)
  <2>1. ASSUME NEW a \in Ip6Sizes, NEW op,
               AddOperations(IF curTag' = "a" THEN <<op>> ELSE <<>>)
        PROVE  \E T : ops' \in Seq(T)
    <3>1. ops' = ops \o <<op>> \/ ops' = ops \o <<>>
      BY <2>1 DEF AddOperations
    <3>2. \E T : ops \o <<op>> \in Seq(T)
      BY <1>2, ToSetAppend
    <3>3. ops \o <<>> = ops
      BY <1>2
    <3>. QED BY <1>2, <3>1, <3>2, <3>3
  <2>2. CASE UNCHANGED ops
    BY <1>2, <2>2
  <2>. QED BY <1>3, <2>1, <2>2
<1>5. ASSUME ~odd
      PROVE  /\ raw' # NoTag => raw' \in Raw /\ curTag' = raw'
             /\ ignore' = IF raw' = NoTag THEN 0 ELSE 1
             /\ (curTag' = "a") <=> (raw = NoTag /\ tag = "a")
  <2>1. /\ raw # NoTag => raw \in Raw /\ curTag = raw
        /\ ignore = IF raw = NoTag THEN 0 ELSE 1
    BY <1>1, <1>5 DEF PageInv
  <2>2. CASE raw = NoTag
    <3>1. /\ curTag' = tag /\ ignore' = IF tag \in Raw THEN 1 ELSE 0
          /\ raw' = IF tag \in Raw THEN tag ELSE NoTag
      BY <1>3, <2>1, <2>2 DEF BeginTag
    <3>. QED BY <2>2, <3>1, TagsDiffer
  <2>3. CASE raw # NoTag
    <3>1. curTag' = curTag /\ ignore' = ignore /\ raw' = raw
      BY <1>3, <2>1, <2>3 DEF BeginTag
    <3>. QED BY <2>1, <2>3, <3>1, TagsDiffer
  <2>. QED BY <2>2, <2>3
<1>6. ASSUME ~odd PROVE ToSet(ops') = links'
  <2>1. ToSet(ops) = links
    BY <1>1, <1>6 DEF PageInv
  <2>2. CASE UNCHANGED <<ops, links>>
    BY <2>1, <2>2
  <2>3. ASSUME NEW a \in Ip6Sizes, NEW op, op = Operation(After(First(1), a), a, FALSE),
               AddOperations(IF curTag' = "a" THEN <<op>> ELSE <<>>),
               links' = IF raw = NoTag /\ tag = "a" THEN links \cup {op} ELSE links
        PROVE  ToSet(ops') = links'
    <3>1. CASE curTag' = "a"
      <4>1. ops' = ops \o <<op>> /\ links' = links \cup {op}
        BY <1>5, <1>6, <2>3, <3>1 DEF AddOperations
      <4>. QED BY <1>2, <2>1, <4>1, ToSetAppend
    <3>2. CASE curTag' # "a"
      <4>1. ops' = ops /\ links' = links
        BY <1>2, <1>5, <1>6, <2>3, <3>2, ToSetAppend DEF AddOperations
      <4>. QED BY <2>1, <4>1
    <3>. QED BY <3>1, <3>2
  <2>. QED BY <1>3, <2>2, <2>3
<1>. QED BY <1>1, <1>4, <1>5, <1>6 DEF PageInv

(* What ends was begun, and ignore goes back to 0 with it.                 *)
LEMMA CloseTagPage == PageInv /\ CloseTag => PageInv'
<1>. SUFFICES ASSUME PageInv, CloseTag PROVE PageInv'
  OBVIOUS
<1>1. /\ kind = "http" /\ kind' = kind /\ stage = "tags" /\ stage' = stage
      /\ ops' = ops /\ links' = links
  BY DEF CloseTag, Read
<1>2. PICK tag \in Tags :
        /\ EndTag(tag)
        /\ raw' = IF tag = raw THEN NoTag ELSE raw
        /\ odd' = (odd \/ (tag \in Raw /\ tag # raw))
  BY DEF CloseTag
<1>3. ASSUME ~odd'
      PROVE  /\ ~odd
             /\ raw' # NoTag => raw' \in Raw /\ curTag' = raw'
             /\ ignore' = IF raw' = NoTag THEN 0 ELSE 1
  <2>1. ~odd /\ (tag \in Raw => tag = raw)
    BY <1>2, <1>3
  <2>2. /\ raw # NoTag => raw \in Raw /\ curTag = raw
        /\ ignore = IF raw = NoTag THEN 0 ELSE 1
    BY <1>1, <2>1 DEF PageInv
  <2>3. /\ ignore' = (IF tag \in Raw THEN ignore - 1 ELSE ignore) /\ curTag' = curTag
        /\ raw' = IF tag = raw THEN NoTag ELSE raw
    BY <1>2 DEF EndTag
  <2>4. CASE raw = NoTag
    <3>1. tag \notin Raw /\ raw' = NoTag /\ ignore' = 0
      BY <2>1, <2>2, <2>3, <2>4, TagsDiffer
    <3>. QED BY <2>1, <3>1
  <2>5. CASE raw # NoTag /\ tag = raw
    <3>1. raw' = NoTag /\ ignore' = 0
      BY <2>2, <2>3, <2>5
    <3>. QED BY <2>1, <3>1
  <2>6. CASE raw # NoTag /\ tag # raw
    <3>1. raw' = raw /\ ignore' = 1 /\ curTag' = raw /\ raw \in Raw
      BY <2>1, <2>2, <2>3, <2>6
    <3>. QED BY <2>1, <2>6, <3>1
  <2>. QED BY <2>4, <2>5, <2>6
<1>. QED BY <1>1, <1>3 DEF PageInv

(* No other step is about tags.                                            *)
LEMMA PageNext == PageInv /\ [GrNext]_grVars => PageInv'
<1>. SUFFICES ASSUME PageInv, [GrNext]_grVars PROVE PageInv'
  OBVIOUS
<1>1. ASSUME FtpOther \/ Eprt \/ RequestLine \/ OtherHeader \/ ContentLength
             \/ EndpointHeader \/ EmptyLine \/ SdpOther \/ SdpError \/ SdpC \/ SdpM
             \/ SipMessage \/ SipFails
      PROVE  kind # "http" /\ kind' = kind
  BY <1>1 DEF FtpOther, Eprt, RequestLine, OtherHeader, ContentLength, EndpointHeader,
       EmptyLine, SdpOther, SdpError, SdpC, SdpM, SipMessage, SipFails, Read
<1>2. CASE HttpHeaders
  BY <1>2 DEF HttpHeaders, PageInv, Read, Raw, NoTag
<1>3. CASE UNCHANGED grVars
  BY <1>3 DEF grVars, htmlVars, PageInv
<1>. QED BY <1>1, <1>2, <1>3, StartTagPage, CloseTagPage DEF GrNext, PageInv

(* Of any page, exactly the addresses in links are changed, as long as no  *)
(* script or text area is ended that was not begun, whatever ignore holds  *)
(* before the first message and however many tags there are                *)
(* (HTTPParser.h:59-87).                                                   *)
THEOREM OnlyLinksChanged == GrSpec => []LinksFound
<1>1. PageInv => LinksFound
  BY DEF PageInv, LinksFound
<1>. QED BY PageInit, PageNext, <1>1, PTL DEF GrSpec
-----------------------------------------------------------------------------
(* Induction over the numbers up to n.                                     *)
LEMMA UpTo ==
  ASSUME NEW n \in Nat, NEW S, 0 \in S, \A k \in 0 .. n - 1 : k \in S => k + 1 \in S
  PROVE  \A k \in 0 .. n : k \in S
<1>. DEFINE T == {k \in 0 .. n : k \notin S}
            R == {ss \in Nat \X Nat : ss[1] < ss[2]}
<1>. SUFFICES ASSUME T # {} PROVE FALSE
  OBVIOUS
<1>1. IsWellFoundedOn(R, Nat)
  BY NatLessThanWellFounded DEF OpToRel
<1>2. PICK x \in T : \A y \in T : <<y, x>> \notin R
  <2>1. T \subseteq Nat
    OBVIOUS
  <2>. HIDE DEF R, T
  <2>. QED BY <1>1, <2>1, WFMin
<1>3. x \in 0 .. n /\ x # 0
  OBVIOUS
<1>4. x - 1 \in Nat /\ x - 1 \in 0 .. n - 1 /\ x - 1 < x
  BY <1>3
<1>5. <<x - 1, x>> \in R
  BY <1>3, <1>4
<1>6. x - 1 \in S
  BY <1>2, <1>4, <1>5
<1>. QED BY <1>3, <1>4, <1>6

(* A function defined from its value one below exists.                     *)
Recurs(f, n, c, F) == f[0] = c /\ \A i \in 1 .. n : f[i] = F[i][f[i - 1]]

LEMMA Recursion ==
  ASSUME NEW n \in Nat, NEW S, NEW c \in S, NEW F \in [1 .. n -> [S -> S]]
  PROVE  \E f \in [0 .. n -> S] : Recurs(f, n, c, F)
<1>. DEFINE T == {k \in 0 .. n : \E f \in [0 .. k -> S] : Recurs(f, k, c, F)}
<1>1. 0 \in T
  <2>. DEFINE f == [i \in 0 .. 0 |-> c]
  <2>1. f \in [0 .. 0 -> S] /\ Recurs(f, 0, c, F)
    BY DEF Recurs
  <2>2. 0 \in 0 .. n
    OBVIOUS
  <2>. HIDE DEF f
  <2>. QED BY <2>1, <2>2
<1>2. ASSUME NEW k \in 0 .. n - 1, k \in T
      PROVE  k + 1 \in T
  <2>1. PICK f \in [0 .. k -> S] : Recurs(f, k, c, F)
    BY <1>2
  <2>. DEFINE g == [i \in 0 .. k + 1 |-> IF i = k + 1 THEN F[k + 1][f[k]] ELSE f[i]]
  <2>2. F[k + 1][f[k]] \in S
    <3>1. f[k] \in S /\ k + 1 \in 1 .. n
      OBVIOUS
    <3>2. F[k + 1] \in [S -> S]
      BY <3>1
    <3>. QED BY <3>1, <3>2
  <2>3. g \in [0 .. k + 1 -> S]
    <3>1. ASSUME NEW i \in 0 .. k + 1 PROVE g[i] \in S
      <4>1. i # k + 1 => i \in 0 .. k
        OBVIOUS
      <4>. QED BY <2>2, <4>1
    <3>. QED BY <3>1
  <2>4. Recurs(g, k + 1, c, F)
    <3>1. g[0] = c
      BY <2>1 DEF Recurs
    <3>2. ASSUME NEW i \in 1 .. k + 1 PROVE g[i] = F[i][g[i - 1]]
      <4>1. i - 1 \in 0 .. k /\ g[i - 1] = f[i - 1]
        OBVIOUS
      <4>2. CASE i = k + 1
        BY <4>1, <4>2
      <4>3. CASE i \in 1 .. k
        <5>1. g[i] = f[i] /\ f[i] = F[i][f[i - 1]]
          BY <2>1, <4>3 DEF Recurs
        <5>. QED BY <4>1, <5>1
      <4>. QED BY <4>2, <4>3
    <3>. HIDE DEF g
    <3>. QED BY <3>1, <3>2 DEF Recurs
  <2>5. k + 1 \in 0 .. n
    OBVIOUS
  <2>. HIDE DEF g
  <2>. QED BY <2>3, <2>4, <2>5
<1>3. \A k \in 0 .. n - 1 : k \in T => k + 1 \in T
  BY <1>2
<1>4. n \in T
  <2>. HIDE DEF T
  <2>1. \A k \in 0 .. n : k \in T
    BY <1>1, <1>3, UpTo
  <2>. QED BY <2>1
<1>. QED BY <1>4
-----------------------------------------------------------------------------
(* f[i] is the sum of the first i weights.                                 *)
Sums(f, n, w) ==
  f[0] = 0 /\ (\A i \in 1 .. n : f[i] = f[i - 1] + w[i]) /\ \A i \in 0 .. n : f[i] \in Int

(* A function that adds up weights is their sum.                           *)
LEMMA SumsInt ==
  ASSUME NEW n \in Nat, NEW w \in [1 .. n -> Int], NEW f, f[0] = 0,
         \A i \in 1 .. n : f[i] = f[i - 1] + w[i]
  PROVE  Sums(f, n, w)
<1>. DEFINE S == {i \in 0 .. n : f[i] \in Int}
<1>1. 0 \in S
  OBVIOUS
<1>2. \A i \in 0 .. n - 1 : i \in S => i + 1 \in S
  <2>1. SUFFICES ASSUME NEW i \in 0 .. n - 1, f[i] \in Int
                 PROVE  i + 1 \in 0 .. n /\ f[i + 1] \in Int
    OBVIOUS
  <2>2. i + 1 \in 1 .. n /\ (i + 1) - 1 = i
    OBVIOUS
  <2>3. f[i + 1] = f[i] + w[i + 1] /\ w[i + 1] \in Int
    BY <2>2
  <2>. QED BY <2>1, <2>2, <2>3
<1>3. \A i \in 0 .. n : i \in S
  <2>. HIDE DEF S
  <2>. QED BY <1>1, <1>2, UpTo
<1>. QED BY <1>3 DEF Sums

(* There is a sum of any weights.                                          *)
LEMMA SumExists ==
  ASSUME NEW n \in Nat, NEW w \in [1 .. n -> Int]
  PROVE  \E f : Sums(f, n, w)
<1>. DEFINE F == [i \in 1 .. n |-> [s \in Int |-> s + w[i]]]
<1>1. PICK f \in [0 .. n -> Int] : Recurs(f, n, 0, F)
  <2>1. F \in [1 .. n -> [Int -> Int]] /\ 0 \in Int
    OBVIOUS
  <2>. HIDE DEF F
  <2>. QED BY <2>1, Recursion
<1>2. f[0] = 0
  BY <1>1 DEF Recurs
<1>3. ASSUME NEW i \in 1 .. n PROVE f[i] = f[i - 1] + w[i]
  <2>1. i - 1 \in 0 .. n /\ f[i - 1] \in Int
    OBVIOUS
  <2>. QED BY <1>1, <2>1 DEF Recurs
<1>. QED BY <1>2, <1>3, SumsInt

(* How far one sum is ahead of another: e[i] after i weights.              *)
Ahead(f, n, g, e) == f[n] = g[n] + e[n]
Drift(e, n, w, v) ==
  e[0] = 0 /\ \A i \in 1 .. n : w[i] + e[i - 1] = v[i] + e[i]

(* Sums differ by as much as their weights have done so far.               *)
LEMMA SumsDiffer ==
  ASSUME NEW n \in Nat, NEW w, w \in [1 .. n -> Int], NEW v, v \in [1 .. n -> Int],
         NEW f, Sums(f, n, w), NEW g, Sums(g, n, v),
         NEW e, e \in [0 .. n -> Int], Drift(e, n, w, v)
  PROVE  Ahead(f, n, g, e)
<1>. DEFINE S == {i \in 0 .. n : f[i] = g[i] + e[i]}
<1>1. 0 \in S
  BY DEF Sums, Drift
<1>2. \A i \in 0 .. n - 1 : i \in S => i + 1 \in S
  <2>1. SUFFICES ASSUME NEW i \in 0 .. n - 1, f[i] = g[i] + e[i]
                 PROVE  i + 1 \in 0 .. n /\ f[i + 1] = g[i + 1] + e[i + 1]
    OBVIOUS
  <2>. DEFINE j == i + 1
  <2>2. j \in 1 .. n /\ j \in 0 .. n /\ j - 1 = i /\ i \in 0 .. n
    OBVIOUS
  <2>. HIDE DEF j
  <2>3. /\ f[j] = f[i] + w[j] /\ g[j] = g[i] + v[j] /\ w[j] + e[i] = v[j] + e[j]
        /\ f[i] \in Int /\ g[i] \in Int /\ f[j] \in Int /\ g[j] \in Int
        /\ w[j] \in Int /\ v[j] \in Int /\ e[i] \in Int /\ e[j] \in Int
    BY <2>2 DEF Sums, Drift
  <2>4. f[j] = g[j] + e[j]
    <3>. DEFINE a == f[i]  b == g[i]  c == e[i]  x == w[j]  y == v[j]  z == e[j]
    <3>1. /\ a \in Int /\ b \in Int /\ c \in Int /\ x \in Int /\ y \in Int /\ z \in Int
          /\ a = b + c /\ x + c = y + z
      BY <2>1, <2>3
    <3>. HIDE DEF a, b, c, x, y, z
    <3>2. a + x = b + y + z
      BY <3>1
    <3>3. f[j] = a + x /\ g[j] + e[j] = b + y + z
      BY <2>3 DEF a, b, c, x, y, z
    <3>. QED BY <3>2, <3>3
  <2>. QED BY <2>2, <2>4 DEF j
<1>3. \A i \in 0 .. n : i \in S
  <2>. HIDE DEF S
  <2>. QED BY <1>1, <1>2, UpTo
<1>. QED BY <1>3 DEF Ahead

(* There is only one.                                                      *)
LEMMA SameSums ==
  ASSUME NEW n \in Nat, NEW w \in [1 .. n -> Int], NEW f, NEW g, Sums(f, n, w), Sums(g, n, w)
  PROVE  f[n] = g[n]
<1>. DEFINE e == [i \in 0 .. n |-> 0]
<1>1. e \in [0 .. n -> Int] /\ e[0] = 0 /\ e[n] = 0
  OBVIOUS
<1>2. ASSUME NEW i \in 1 .. n PROVE w[i] + e[i - 1] = w[i] + e[i]
  <2>1. i - 1 \in 0 .. n /\ i \in 0 .. n
    OBVIOUS
  <2>. QED BY <2>1
<1>3. Drift(e, n, w, w)
  BY <1>1, <1>2 DEF Drift
<1>. HIDE DEF e
<1>4. Ahead(f, n, g, e)
  BY <1>1, <1>3, SumsDiffer
<1>5. g[n] \in Int
  BY DEF Sums
<1>. QED BY <1>1, <1>4, <1>5 DEF Ahead

(* One weight more.                                                        *)
Besides(j, n, w, v) == v[j] = 0 /\ \A i \in 1 .. n : i # j => w[i] = v[i]
MoreBy(f, n, g, d) == f[n] = g[n] + d

LEMMA OneMore ==
  ASSUME NEW n \in Nat, NEW w, w \in [1 .. n -> Int], NEW v, v \in [1 .. n -> Int],
         NEW f, Sums(f, n, w), NEW g, Sums(g, n, v),
         NEW j \in 1 .. n, Besides(j, n, w, v)
  PROVE  MoreBy(f, n, g, w[j])
<1>0. v[j] = 0 /\ \A i \in 1 .. n : i # j => w[i] = v[i]
  BY DEF Besides
<1>. DEFINE e == [i \in 0 .. n |-> IF i < j THEN 0 ELSE w[j]]
<1>1. e \in [0 .. n -> Int] /\ e[0] = 0 /\ e[n] = w[j]
  OBVIOUS
<1>2. ASSUME NEW i \in 1 .. n PROVE w[i] + e[i - 1] = v[i] + e[i]
  <2>1. i - 1 \in 0 .. n /\ i \in 0 .. n /\ w[i] \in Int /\ v[i] \in Int /\ w[j] \in Int
    OBVIOUS
  <2>2. e[i - 1] = (IF i - 1 < j THEN 0 ELSE w[j]) /\ e[i] = (IF i < j THEN 0 ELSE w[j])
    BY <2>1
  <2>3. CASE i = j
    <3>1. e[i - 1] = 0 /\ e[i] = w[j] /\ v[i] = 0 /\ w[i] = w[j]
      BY <1>0, <2>1, <2>2, <2>3
    <3>. QED BY <2>1, <3>1
  <2>4. CASE i # j
    <3>1. e[i - 1] = e[i] /\ w[i] = v[i] /\ e[i] \in Int
      BY <1>0, <2>1, <2>2, <2>4
    <3>. QED BY <2>1, <3>1
  <2>. QED BY <2>3, <2>4
<1>3. Drift(e, n, w, v)
  BY <1>1, <1>2 DEF Drift
<1>. HIDE DEF e
<1>4. Ahead(f, n, g, e)
  <2>1. e \in [0 .. n -> Int] /\ Drift(e, n, w, v)
    BY <1>1, <1>3
  <2>2. Sums(f, n, w) /\ Sums(g, n, v)
    OBVIOUS
  <2>. QED BY <2>1, <2>2, SumsDiffer
<1>. QED BY <1>1, <1>4 DEF Ahead, MoreBy
-----------------------------------------------------------------------------
(* The growth of the operations of a message that are in a set.            *)
Weights(s, t) == [i \in 1 .. Len(s) |-> IF s[i] \in t THEN Delta(s[i]) ELSE 0]
Total(s, t)   == CHOOSE x : \E f : Sums(f, Len(s), Weights(s, t)) /\ x = f[Len(s)]
Growth(t)     == FoldSet(LAMBDA op, sum : sum + Delta(op), 0, t)
Distinct(s)   == \A i, j \in DOMAIN s : i # j => s[i] # s[j]

(* What an operation adds is a number, and so is each weight.              *)
LEMMA DeltaInt == \A op \in OpType : Delta(op) \in Int
BY DEF Delta, OpType

LEMMA WeightsInt ==
  ASSUME NEW s \in Seq(OpType), NEW t
  PROVE  Len(s) \in Nat /\ Weights(s, t) \in [1 .. Len(s) -> Int]
<1>1. Len(s) \in Nat /\ \A i \in 1 .. Len(s) : s[i] \in OpType
  OBVIOUS
<1>2. \A i \in 1 .. Len(s) : Delta(s[i]) \in Int
  BY <1>1, DeltaInt
<1>. QED BY <1>1, <1>2 DEF Weights

(* The total is what any way of adding up one by one gives.                *)
LEMMA TotalIs ==
  ASSUME NEW s \in Seq(OpType), NEW t
  PROVE  /\ Total(s, t) \in Int
         /\ \A f : Sums(f, Len(s), Weights(s, t)) => Total(s, t) = f[Len(s)]
<1>. DEFINE n == Len(s)  w == Weights(s, t)
            P(x) == \E f : Sums(f, n, w) /\ x = f[n]
<1>1. n \in Nat /\ w \in [1 .. n -> Int]
  BY WeightsInt
<1>. HIDE DEF n, w
<1>2. PICK f : Sums(f, n, w)
  BY <1>1, SumExists
<1>3. P(f[n])
  BY <1>2
<1>4. P(CHOOSE x : P(x))
  <2>. HIDE DEF P
  <2>. QED BY <1>3
<1>5. PICK g : Sums(g, n, w) /\ Total(s, t) = g[n]
  BY <1>4 DEF Total, n, w
<1>6. g[n] \in Int
  BY <1>1, <1>5 DEF Sums
<1>7. ASSUME NEW h, Sums(h, n, w) PROVE Total(s, t) = h[n]
  <2>1. g[n] = h[n]
    BY <1>1, <1>5, <1>7, SameSums
  <2>. QED BY <1>5, <2>1
<1>. QED BY <1>5, <1>6, <1>7 DEF n, w

(* Of no operation it is 0, of one more it is that much more.              *)
LEMMA TotalNone == ASSUME NEW s \in Seq(OpType) PROVE Total(s, {}) = 0
<1>. DEFINE n == Len(s)  w == Weights(s, {})  f == [i \in 0 .. n |-> 0]
<1>1. n \in Nat /\ w \in [1 .. n -> Int]
  BY WeightsInt
<1>2. \A i \in 1 .. n : w[i] = 0
  BY DEF Weights
<1>. HIDE DEF n, w
<1>3. ASSUME NEW i \in 1 .. n PROVE f[i] = f[i - 1] + w[i]
  <2>1. i \in 0 .. n /\ i - 1 \in 0 .. n
    BY <1>1
  <2>. QED BY <1>2, <2>1
<1>4. f[0] = 0 /\ f[n] = 0
  BY <1>1
<1>. HIDE DEF f
<1>5. Sums(f, n, w)
  BY <1>1, <1>3, <1>4, SumsInt
<1>. QED BY <1>4, <1>5, TotalIs DEF n, w

LEMMA TotalMore ==
  ASSUME NEW s \in Seq(OpType), Distinct(s), NEW t, NEW x \in t, x \in ToSet(s)
  PROVE  Total(s, t) = Total(s, t \ {x}) + Delta(x)
<1>. DEFINE n == Len(s)  w == Weights(s, t)  v == Weights(s, t \ {x})
<1>1. n \in Nat /\ w \in [1 .. n -> Int] /\ v \in [1 .. n -> Int]
  BY WeightsInt
<1>2. PICK j \in 1 .. n : s[j] = x
  BY DEF ToSet
<1>3. \A i \in 1 .. n : i # j => s[i] # x
  BY <1>2 DEF Distinct
<1>4. v[j] = 0 /\ w[j] = Delta(x) /\ \A i \in 1 .. n : i # j => w[i] = v[i]
  BY <1>2, <1>3 DEF Weights
<1>. HIDE DEF n, w, v
<1>5. PICK f : Sums(f, n, w)
  BY <1>1, SumExists
<1>6. PICK g : Sums(g, n, v)
  BY <1>1, SumExists
<1>7. f[n] = g[n] + w[j]
  <2>1. Besides(j, n, w, v)
    BY <1>4 DEF Besides
  <2>2. MoreBy(f, n, g, w[j])
    BY <2>1, <1>1, <1>5, <1>6, OneMore
  <2>. QED BY <2>2 DEF MoreBy
<1>8. Total(s, t) = f[n] /\ Total(s, t \ {x}) = g[n]
  BY <1>5, <1>6, TotalIs DEF n, w, v
<1>. QED BY <1>4, <1>7, <1>8

(* Adding up a set of operations, in any order, gives its total.           *)
LEMMA GrowthIsTotal ==
  ASSUME NEW s \in Seq(OpType), Distinct(s), NEW S \in SUBSET ToSet(s)
  PROVE  Growth(S) = Total(s, S)
<1>. DEFINE any(u) == CHOOSE x \in u : TRUE
            P(f) == f = [u \in SUBSET S |->
                           IF u = {} THEN 0 ELSE f[u \ {any(u)}] + Delta(any(u))]
            g == [u \in SUBSET S |-> Total(s, u)]
            iter == CHOOSE f : P(f)
<1>1. Growth(S) = iter[S]
  BY DEF Growth, FoldSet, MapThenFoldSet
<1>2. ASSUME NEW u \in SUBSET S, u # {}
      PROVE  any(u) \in u /\ any(u) \in ToSet(s) /\ u \ {any(u)} \in SUBSET S
  BY <1>2
<1>3. P(g)
  <2>1. ASSUME NEW u \in SUBSET S
        PROVE  g[u] = IF u = {} THEN 0 ELSE g[u \ {any(u)}] + Delta(any(u))
    <3>1. CASE u = {}
      BY <3>1, TotalNone
    <3>2. CASE u # {}
      <4>1. any(u) \in u /\ any(u) \in ToSet(s) /\ u \ {any(u)} \in SUBSET S
        BY <1>2, <3>2
      <4>2. g[u] = Total(s, u) /\ g[u \ {any(u)}] = Total(s, u \ {any(u)})
        BY <4>1
      <4>. HIDE DEF g, any
      <4>3. Total(s, u) = Total(s, u \ {any(u)}) + Delta(any(u))
        BY <4>1, TotalMore
      <4>. QED BY <3>2, <4>2, <4>3
    <3>. QED BY <3>1, <3>2
  <2>2. g = [u \in SUBSET S |-> g[u]]
    OBVIOUS
  <2>. HIDE DEF g, any
  <2>. QED BY <2>1, <2>2
<1>4. P(iter)
  <2>. HIDE DEF P
  <2>. QED BY <1>3
<1>5. IsFiniteSet(S)
  <2>1. Len(s) \in Nat /\ DOMAIN s = 1 .. Len(s)
    OBVIOUS
  <2>2. IsFiniteSet(1 .. Len(s))
    BY <2>1, FS_Interval
  <2>3. s \in Surjection(1 .. Len(s), ToSet(s))
    <3>1. s = [i \in 1 .. Len(s) |-> s[i]]
      BY <2>1
    <3>2. \A i \in 1 .. Len(s) : s[i] \in ToSet(s)
      BY <2>1 DEF ToSet
    <3>3. s \in [1 .. Len(s) -> ToSet(s)]
      BY <3>1, <3>2
    <3>4. \A x \in ToSet(s) : \E i \in 1 .. Len(s) : s[i] = x
      BY <2>1 DEF ToSet
    <3>. QED BY <3>3, <3>4 DEF Surjection
  <2>4. IsFiniteSet(ToSet(s))
    BY <2>2, <2>3, FS_Surjection
  <2>. QED BY <2>4, FS_Subset
<1>. DEFINE n == Cardinality(S)
            K == {k \in 0 .. n : \A u \in SUBSET S : Cardinality(u) = k => iter[u] = Total(s, u)}
<1>6. n \in Nat
  BY <1>5, FS_CardinalityType
<1>7. \A u \in SUBSET S : IsFiniteSet(u)
  BY <1>5, FS_Subset
<1>8. \A u \in SUBSET S : iter[u] = IF u = {} THEN 0 ELSE iter[u \ {any(u)}] + Delta(any(u))
  <2>. HIDE DEF iter, any
  <2>. QED BY <1>4
<1>. HIDE DEF iter, any, n, P
<1>9. 0 \in K
  <2>1. ASSUME NEW u \in SUBSET S, Cardinality(u) = 0 PROVE iter[u] = Total(s, u)
    <3>1. u = {}
      BY <1>7, <2>1, FS_EmptySet
    <3>. QED BY <1>8, <3>1, TotalNone
  <2>. QED BY <1>6, <2>1
<1>10. \A k \in 0 .. n - 1 : k \in K => k + 1 \in K
  <2>1. SUFFICES ASSUME NEW k \in 0 .. n - 1, k \in K PROVE k + 1 \in K
    OBVIOUS
  <2>2. ASSUME NEW u \in SUBSET S, Cardinality(u) = k + 1 PROVE iter[u] = Total(s, u)
    <3>1. u # {}
      <4>1. Cardinality({}) = 0 /\ k + 1 # 0
        BY FS_EmptySet
      <4>. QED BY <2>2, <4>1
    <3>2. any(u) \in u /\ any(u) \in ToSet(s) /\ u \ {any(u)} \in SUBSET S
      BY <1>2, <3>1
    <3>3. Cardinality(u \ {any(u)}) = k
      <4>1. Cardinality(u \ {any(u)}) = Cardinality(u) - 1
        BY <1>7, <3>2, FS_RemoveElement
      <4>. QED BY <2>2, <4>1
    <3>4. iter[u \ {any(u)}] = Total(s, u \ {any(u)})
      BY <2>1, <3>2, <3>3
    <3>5. Total(s, u) = Total(s, u \ {any(u)}) + Delta(any(u))
      BY <3>2, TotalMore
    <3>6. iter[u] = iter[u \ {any(u)}] + Delta(any(u))
      BY <1>8, <3>1
    <3>. QED BY <3>4, <3>5, <3>6
  <2>3. k + 1 \in 0 .. n
    BY <1>6
  <2>. QED BY <2>2, <2>3
<1>11. \A k \in 0 .. n : k \in K
  <2>. HIDE DEF K
  <2>. QED BY <1>6, <1>9, <1>10, UpTo
<1>12. n \in K
  BY <1>6, <1>11
<1>. QED BY <1>1, <1>12 DEF n

(* What parser.cc adds up operation by operation.                          *)
LEMMA TotalDeltaIs ==
  ASSUME ops \in Seq(OpType)
  PROVE  TotalDelta = Total(ops, {op \in ToSet(ops) : op.cnt})
<1>. DEFINE n == Len(ops)  t == {op \in ToSet(ops) : op.cnt}  w == Weights(ops, t)
            P(f) == f = [i \in 0 .. n |->
                           IF i = 0 THEN 0
                           ELSE f[i - 1] + IF ops[i].cnt THEN Delta(ops[i]) ELSE 0]
            sum == CHOOSE f : P(f)
<1>1. n \in Nat /\ w \in [1 .. n -> Int]
  BY WeightsInt
<1>2. \A i \in 1 .. n : w[i] = IF ops[i].cnt THEN Delta(ops[i]) ELSE 0
  BY DEF Weights, ToSet
<1>3. TotalDelta = sum[n]
  BY DEF TotalDelta
<1>. HIDE DEF n, t, w
<1>4. PICK f \in [0 .. n -> Int] : Sums(f, n, w)
  <2>1. PICK h : Sums(h, n, w)
    BY <1>1, SumExists
  <2>. DEFINE f == [i \in 0 .. n |-> h[i]]
  <2>2. f \in [0 .. n -> Int]
    BY <2>1 DEF Sums
  <2>3. Sums(f, n, w)
    <3>1. \A i \in 0 .. n : f[i] = h[i]
      OBVIOUS
    <3>2. 0 \in 0 .. n /\ \A i \in 1 .. n : i \in 0 .. n /\ i - 1 \in 0 .. n
      BY <1>1
    <3>. HIDE DEF f
    <3>. QED BY <2>1, <3>1, <3>2 DEF Sums
  <2>. QED BY <2>2, <2>3
<1>5. P(f)
  <2>1. ASSUME NEW i \in 0 .. n
        PROVE  f[i] = IF i = 0 THEN 0 ELSE f[i - 1] + IF ops[i].cnt THEN Delta(ops[i]) ELSE 0
    <3>1. i # 0 => i \in 1 .. n
      BY <1>1
    <3>. QED BY <1>2, <1>4, <3>1 DEF Sums
  <2>. QED BY <2>1
<1>6. P(sum)
  <2>. HIDE DEF P
  <2>. QED BY <1>5
<1>. HIDE DEF sum
<1>7. sum[0] = 0 /\ \A i \in 1 .. n : sum[i] = sum[i - 1] + w[i]
  <2>1. sum[0] = 0
    BY <1>1, <1>6
  <2>2. ASSUME NEW i \in 1 .. n PROVE sum[i] = sum[i - 1] + w[i]
    <3>1. i \in 0 .. n /\ i # 0
      BY <1>1
    <3>2. sum[i] = sum[i - 1] + IF ops[i].cnt THEN Delta(ops[i]) ELSE 0
      BY <1>6, <3>1
    <3>. QED BY <1>2, <3>2
  <2>. QED BY <2>1, <2>2
<1>8. Sums(sum, n, w)
  BY <1>1, <1>7, SumsInt
<1>. QED BY <1>3, <1>8, TotalIs DEF n, t, w
-----------------------------------------------------------------------------
(* Before the body no operation counts; in it, those in the body do.       *)
Marked(s, at) == \A i \in DOMAIN s : s[i].cnt <=> s[i].start_pos >= at
Unmarked(s)   == \A i \in DOMAIN s : ~s[i].cnt

BodyInv ==
  /\ kind = "sip" /\ stage \in {"start", "header", "headers"} =>
       c_ip_ = NoToken /\ Unmarked(ops)
  /\ kind = "sip" /\ stage \in {"body", "sdp"} =>
       /\ bodyAt \in Nat /\ bodyAt <= end
       /\ content_len_ = NoToken \/ content_len_.pos < bodyAt
       /\ c_ip_ = NoToken \/ (c_ip_ \in TokenType /\ c_ip_.pos >= bodyAt)
       /\ Marked(ops, bodyAt)
  /\ ContentLengthRight

(* An operation is added that counts as it should.                         *)
LEMMA MarkedMore ==
  ASSUME NEW s \in Seq(OpType), NEW o \in OpType
  PROVE  /\ Unmarked(s) /\ ~o.cnt => Unmarked(Append(s, o))
         /\ \A at \in Nat : Marked(s, at) /\ (o.cnt <=> o.start_pos >= at) =>
              Marked(Append(s, o), at)
<1>. DEFINE r == Append(s, o)
<1>1. \A i \in DOMAIN r : (i \in DOMAIN s /\ r[i] = s[i]) \/ r[i] = o
  OBVIOUS
<1>. HIDE DEF r
<1>2. Unmarked(s) /\ ~o.cnt => Unmarked(r)
  BY <1>1 DEF Unmarked
<1>3. ASSUME NEW at \in Nat, Marked(s, at), o.cnt <=> o.start_pos >= at
      PROVE  Marked(r, at)
  BY <1>1, <1>3 DEF Marked
<1>. QED BY <1>2, <1>3 DEF r

(* What a token's operation takes over.                                    *)
LEMMA OperationCounts ==
  ASSUME NEW t \in TokenType, NEW sz \in Nat, NEW c \in BOOLEAN
  PROVE  Operation(t, sz, c) \in OpType /\ Operation(t, sz, c).cnt = c
         /\ Operation(t, sz, c).start_pos = t.pos
BY DEF Operation, OpType, TokenType

(* Nothing is read yet.                                                    *)
LEMMA BodyInit == GrInit => BodyInv
<1>1. DOMAIN <<>> = {}
  OBVIOUS
<1>. QED BY <1>1 DEF GrInit, BodyInv, Unmarked, ContentLengthRight

(* The header ends: what has been read of the message is not its body.     *)
LEMMA EmptyLineBody == GrInv /\ BodyInv /\ EmptyLine => BodyInv'
<1>. SUFFICES ASSUME GrInv, BodyInv, EmptyLine PROVE BodyInv'
  OBVIOUS
<1>1. /\ kind = "sip" /\ kind' = kind /\ stage \in {"header", "headers"} /\ stage' = "body"
      /\ end' = First(1).pos_end + 1 /\ bodyAt' = end'
      /\ UNCHANGED <<ops, content_len_, c_ip_>>
  BY DEF EmptyLine, Read
<1>2. Good(ops, end, content_len_, Address)
  BY <1>1 DEF GrInv
<1>3. ops \in Seq(OpType) /\ end \in Nat /\ Fits(ops, end)
  BY <1>2 DEF Good
<1>4. end' = end + 3
  BY <1>1, <1>3 DEF First, Token
<1>5. c_ip_ = NoToken /\ Unmarked(ops)
  BY <1>1 DEF BodyInv
<1>6. content_len_ = NoToken \/ content_len_.pos < end'
  <2>1. CASE Free(content_len_, ops, end)
    <3>1. /\ content_len_.pos \in Nat /\ content_len_.pos_end \in Nat
          /\ content_len_.pos < content_len_.pos_end /\ content_len_.pos_end <= end
      BY <2>1 DEF Free, TokenType
    <3>. QED BY <1>3, <1>4, <3>1
  <2>. QED BY <1>2, <2>1 DEF Good
<1>7. ASSUME NEW i \in DOMAIN ops PROVE ops[i].start_pos < end' /\ ~ops[i].cnt
  <2>1. ops[i].start_pos \in Nat /\ ops[i].end_pos \in Nat
    BY <1>3, OpsTyped
  <2>2. ops[i].start_pos < ops[i].end_pos /\ ops[i].end_pos <= end
    BY <1>3 DEF Fits
  <2>. QED BY <2>1, <2>2, <1>3, <1>4, <1>5 DEF Unmarked
<1>8. Marked(ops, end')
  <2>1. ASSUME NEW i \in DOMAIN ops PROVE ~(ops[i].start_pos >= end')
    BY <1>3, <1>4, <1>7, OpsTyped
  <2>. QED BY <2>1, <1>7 DEF Marked
<1>9. end' \in Nat /\ end' <= end'
  BY <1>3, <1>4
<1>10. /\ bodyAt' \in Nat /\ bodyAt' <= end' /\ Marked(ops', bodyAt') /\ c_ip_' = NoToken
       /\ content_len_' = NoToken \/ content_len_'.pos < bodyAt'
  BY <1>1, <1>5, <1>6, <1>8, <1>9
<1>11. stage' # "done" /\ stage' \notin {"start", "header", "headers"}
  BY <1>1
<1>. QED BY <1>10, <1>11 DEF BodyInv, ContentLengthRight

(* Operations of the header do not count.                                  *)
LEMMA EndpointHeaderBody == GrInv /\ BodyInv /\ EndpointHeader => BodyInv'
<1>. SUFFICES ASSUME GrInv, BodyInv, EndpointHeader PROVE BodyInv'
  OBVIOUS
<1>. USE GrammarAssumption
<1>1. /\ kind = "sip" /\ stage \in {"header", "headers"} /\ stage' = "headers"
      /\ c_ip_' = c_ip_
  BY DEF EndpointHeader, sipVars
<1>2. PICK a \in Ip6Sizes, p \in PortSizes :
        AddOperations(<<Operation(After(First(3), a), Ip4Size, FALSE),
                        Operation(After(After(First(3), a), p), Port4Size, FALSE)>>)
  BY DEF EndpointHeader
<1>. DEFINE ip == After(First(3), a)  port == After(ip, p)
            o1 == Operation(ip, Ip4Size, FALSE)
            o2 == Operation(port, Port4Size, FALSE)
<1>3. end \in Nat /\ ops \in Seq(OpType)
  BY <1>1 DEF GrInv, Good
<1>4. ip \in TokenType /\ port \in TokenType
  BY <1>3 DEF First, After, Token, TokenType
<1>5. o1 \in OpType /\ o2 \in OpType /\ ~o1.cnt /\ ~o2.cnt
  BY <1>4, OperationCounts
<1>6. ops' = ops \o <<o1, o2>>
  BY <1>2 DEF AddOperations
<1>. HIDE DEF o1, o2
<1>7. ops' = Append(Append(ops, o1), o2) /\ Append(ops, o1) \in Seq(OpType)
  BY <1>3, <1>5, <1>6
<1>8. c_ip_ = NoToken /\ Unmarked(ops)
  BY <1>1 DEF BodyInv
<1>9. Unmarked(Append(ops, o1))
  BY <1>3, <1>5, <1>8, MarkedMore
<1>10. Unmarked(ops')
  BY <1>5, <1>7, <1>9, MarkedMore
<1>. QED BY <1>1, <1>8, <1>10 DEF BodyInv, ContentLengthRight

(* Operations of the body do.                                              *)
LEMMA SdpCBody == GrInv /\ BodyInv /\ SdpC => BodyInv'
<1>. SUFFICES ASSUME GrInv, BodyInv, SdpC PROVE BodyInv'
  OBVIOUS
<1>. USE GrammarAssumption
<1>1. /\ kind = "sip" /\ stage \in {"body", "sdp"} /\ stage' = "sdp"
      /\ UNCHANGED <<content_len_, bodyAt>>
  BY DEF SdpC
<1>2. PICK a \in Ip6Sizes :
        LET family == After(After(First(1), 2), 3)
            ip     == After(family, a)
        IN  /\ c_ip_' = ip
            /\ AddOperations(<<Operation(family, 3, TRUE)>>)
            /\ Read(ip)
  BY DEF SdpC
<1>. DEFINE family == After(After(First(1), 2), 3)  ip == After(family, a)
            o1 == Operation(family, 3, TRUE)
<1>3. end \in Nat /\ ops \in Seq(OpType)
  BY <1>1 DEF GrInv, Good
<1>4. /\ family \in TokenType /\ ip \in TokenType /\ end <= family.pos /\ end <= ip.pos
      /\ end <= ip.pos_end /\ ip.pos \in Nat /\ family.pos \in Nat /\ ip.pos_end \in Nat
  BY <1>3 DEF First, After, Token, TokenType
<1>5. /\ ops' = ops \o <<o1>> /\ end' = ip.pos_end + 1 /\ c_ip_' = ip
  BY <1>2 DEF AddOperations, Read
<1>6. o1 \in OpType /\ o1.cnt /\ o1.start_pos = family.pos
  BY <1>4, OperationCounts
<1>. HIDE DEF family, ip, o1
<1>7. ops' = Append(ops, o1)
  BY <1>3, <1>5, <1>6
<1>8. /\ bodyAt \in Nat /\ bodyAt <= end /\ Marked(ops, bodyAt)
      /\ content_len_ = NoToken \/ content_len_.pos < bodyAt
  BY <1>1 DEF BodyInv
<1>9. Marked(ops', bodyAt)
  <2>1. o1.start_pos >= bodyAt
    BY <1>3, <1>4, <1>6, <1>8
  <2>. QED BY <2>1, <1>3, <1>6, <1>7, <1>8, MarkedMore
<1>10. bodyAt <= end' /\ ip.pos >= bodyAt
  BY <1>3, <1>4, <1>5, <1>8
<1>. QED BY <1>1, <1>4, <1>5, <1>8, <1>9, <1>10 DEF BodyInv, ContentLengthRight

LEMMA SdpMBody == GrInv /\ BodyInv /\ SdpM => BodyInv'
<1>. SUFFICES ASSUME GrInv, BodyInv, SdpM PROVE BodyInv'
  OBVIOUS
<1>. USE GrammarAssumption
<1>1. /\ kind = "sip" /\ stage \in {"body", "sdp"} /\ stage' = "sdp"
      /\ UNCHANGED <<content_len_, bodyAt, c_ip_>>
  BY DEF SdpM
<1>2. PICK p \in PortSizes :
        LET port == After(After(First(1), 5), p) IN
        /\ AddOperations(IF c_ip_ = NoToken THEN <<>>
                         ELSE <<Operation(c_ip_, Ip4Size, TRUE),
                                Operation(port, Port4Size, TRUE)>>)
        /\ Read(port)
  BY DEF SdpM
<1>. DEFINE port == After(After(First(1), 5), p)
            o1 == Operation(c_ip_, Ip4Size, TRUE)
            o2 == Operation(port, Port4Size, TRUE)
<1>3. end \in Nat /\ ops \in Seq(OpType)
  BY <1>1 DEF GrInv, Good
<1>4. /\ port \in TokenType /\ end <= port.pos /\ end <= port.pos_end
      /\ port.pos \in Nat /\ port.pos_end \in Nat
  BY <1>3 DEF First, After, Token, TokenType
<1>5. /\ ops' = ops \o (IF c_ip_ = NoToken THEN <<>> ELSE <<o1, o2>>)
      /\ end' = port.pos_end + 1
  BY <1>2 DEF AddOperations, Read
<1>. HIDE DEF port, o1, o2
<1>6. /\ bodyAt \in Nat /\ bodyAt <= end /\ Marked(ops, bodyAt)
      /\ content_len_ = NoToken \/ content_len_.pos < bodyAt
      /\ c_ip_ = NoToken \/ (c_ip_ \in TokenType /\ c_ip_.pos >= bodyAt)
  BY <1>1 DEF BodyInv
<1>7. bodyAt <= end'
  BY <1>3, <1>4, <1>5, <1>6
<1>8. Marked(ops', bodyAt)
  <2>1. CASE c_ip_ = NoToken
    <3>1. ops' = ops
      BY <2>1, <1>3, <1>5
    <3>. QED BY <3>1, <1>6
  <2>2. CASE c_ip_ # NoToken
    <3>1. /\ o1 \in OpType /\ o2 \in OpType /\ o1.cnt /\ o2.cnt
          /\ o1.start_pos = c_ip_.pos /\ o2.start_pos = port.pos
      BY <2>2, <1>4, <1>6, OperationCounts DEF o1, o2
    <3>2. o1.start_pos >= bodyAt /\ o2.start_pos >= bodyAt
      BY <2>2, <3>1, <1>3, <1>4, <1>6
    <3>3. ops' = Append(Append(ops, o1), o2) /\ Append(ops, o1) \in Seq(OpType)
      BY <2>2, <3>1, <1>3, <1>5
    <3>4. Marked(Append(ops, o1), bodyAt)
      BY <3>1, <3>2, <1>3, <1>6, MarkedMore
    <3>. QED BY <3>1, <3>2, <3>3, <3>4, <1>6, MarkedMore
  <2>. QED BY <2>1, <2>2
<1>. QED BY <1>1, <1>6, <1>7, <1>8 DEF BodyInv, ContentLengthRight

(* Operations that touch no common byte differ.                            *)
LEMMA FitDistinct ==
  ASSUME NEW s \in Seq(OpType), NEW len, Fits(s, len)
  PROVE  Distinct(s)
<1>1. SUFFICES ASSUME NEW i \in DOMAIN s, NEW j \in DOMAIN s, i # j, s[i] = s[j]
               PROVE  FALSE
  BY DEF Distinct
<1>2. s[i].start_pos \in Nat /\ s[i].end_pos \in Nat /\ s[i].start_pos < s[i].end_pos
  BY OpsTyped DEF Fits
<1>3. Apart(s[i].start_pos, s[i].end_pos, s[i].start_pos, s[i].end_pos)
  BY <1>1 DEF Fits
<1>. QED BY <1>2, <1>3 DEF Apart

(* The Content-Length lies before the body, and with it what replaces it.  *)
LEMMA SipMessageBody == GrInv /\ BodyInv /\ SipMessage => BodyInv'
<1>. SUFFICES ASSUME GrInv, BodyInv, SipMessage PROVE BodyInv'
  OBVIOUS
<1>1. /\ kind = "sip" /\ kind' = kind /\ stage = "sdp" /\ stage' = "done"
      /\ UNCHANGED <<content_len_, bodyAt>>
  BY DEF SipMessage, sipVars
<1>2. ops \in Seq(OpType) /\ Fits(ops, end)
  BY <1>1 DEF GrInv, Good
<1>3. SUFFICES ASSUME content_len_ # NoToken
               PROVE  Last(ops').num = content_len_.num + BodyGrowth'
  BY <1>1 DEF BodyInv, ContentLengthRight
<1>. DEFINE n == content_len_.num + TotalDelta
            o == [Operation(content_len_, Digits(n), FALSE) EXCEPT !.num = n]
<1>4. ops' = ops \o <<o>>
  BY <1>3 DEF SipMessage, AddOperations
<1>5. o.num = n /\ o.start_pos = content_len_.pos
  BY DEF Operation
<1>6. /\ content_len_.pos < bodyAt /\ bodyAt \in Nat /\ Marked(ops, bodyAt)
      /\ content_len_ \in TokenType
  BY <1>1, <1>3 DEF BodyInv, GrInv, Good, Free
<1>7. ~(content_len_.pos >= bodyAt)
  BY <1>6 DEF TokenType
<1>. HIDE DEF o
<1>8. Last(ops') = o /\ ToSet(ops') = ToSet(ops) \cup {o}
  <2>1. ToSet(ops \o <<o>>) = ToSet(ops) \cup {o}
    BY <1>2, ToSetAppend
  <2>2. Len(ops \o <<o>>) = Len(ops) + 1 /\ (ops \o <<o>>)[Len(ops) + 1] = o
    BY <1>2
  <2>. QED BY <1>4, <2>1, <2>2 DEF Last
<1>9. InBody' = InBody
  BY <1>1, <1>5, <1>7, <1>8 DEF InBody
<1>10. InBody = {op \in ToSet(ops) : op.cnt}
  BY <1>6 DEF InBody, Marked, ToSet
<1>11. BodyGrowth' = Growth(InBody)
  <2>1. BodyGrowth' = Growth(InBody)'
    BY DEF BodyGrowth, Growth
  <2>2. Growth(InBody)' = Growth(InBody)
    BY <1>9
  <2>. QED BY <2>1, <2>2
<1>12. Growth(InBody) = Total(ops, InBody)
  <2>1. InBody \in SUBSET ToSet(ops) /\ Distinct(ops)
    BY <1>2, FitDistinct DEF InBody
  <2>. QED BY <1>2, <2>1, GrowthIsTotal
<1>13. TotalDelta = Total(ops, InBody)
  BY <1>2, <1>10, TotalDeltaIs
<1>. QED BY <1>5, <1>8, <1>11, <1>12, <1>13

(* Any other line adds no operation and leaves the tokens where they are,  *)
(* a Content-Length is a header's.                                         *)
LEMMA BodyNext == GrInv /\ BodyInv /\ [GrNext]_grVars => BodyInv'
<1>. SUFFICES ASSUME GrInv, BodyInv, [GrNext]_grVars PROVE BodyInv'
  OBVIOUS
<1>1. ASSUME RequestLine \/ OtherHeader \/ ContentLength
      PROVE  BodyInv'
  <2>1. /\ kind = "sip" /\ stage \in {"start", "header", "headers"}
        /\ stage' \in {"header", "headers"} /\ UNCHANGED <<ops, c_ip_>>
    BY <1>1 DEF RequestLine, OtherHeader, ContentLength, sipVars
  <2>. QED BY <2>1 DEF BodyInv, ContentLengthRight
<1>2. ASSUME SdpOther \/ SdpError
      PROVE  BodyInv'
  <2>1. /\ kind = "sip" /\ kind' = kind /\ stage \in {"body", "sdp"} /\ stage' \in {"body", "sdp"}
        /\ UNCHANGED <<ops, c_ip_, content_len_, bodyAt>>
        /\ end' = After(First(1), 1).pos_end + 1
    BY <1>2 DEF SdpOther, SdpError, sipVars, Read
  <2>2. end \in Nat
    BY <2>1 DEF GrInv, Good
  <2>3. end <= end' /\ end' \in Nat
    BY <2>1, <2>2 DEF After, First, Token
  <2>4. bodyAt \in Nat /\ bodyAt <= end'
    BY <2>1, <2>2, <2>3 DEF BodyInv
  <2>. QED BY <2>1, <2>4 DEF BodyInv, ContentLengthRight
<1>3. ASSUME FtpOther \/ Eprt \/ HttpHeaders \/ StartTag \/ CloseTag
      PROVE  kind # "sip" /\ kind' = kind
  BY <1>3 DEF FtpOther, Eprt, HttpHeaders, StartTag, CloseTag, Read
<1>4. CASE SipFails
  BY <1>4 DEF SipFails, BodyInv, ContentLengthRight
<1>5. CASE UNCHANGED grVars
  <2>1. UNCHANGED <<kind, stage, ops, end, content_len_, c_ip_, bodyAt>>
    BY <1>5 DEF grVars, sipVars
  <2>2. InBody' = InBody
    BY <2>1 DEF InBody
  <2>3. BodyGrowth' = BodyGrowth
    <3>1. BodyGrowth' = Growth(InBody)' /\ BodyGrowth = Growth(InBody)
      BY DEF BodyGrowth, Growth
    <3>2. Growth(InBody)' = Growth(InBody)
      BY <2>2
    <3>. QED BY <3>1, <3>2
  <2>. QED BY <2>1, <2>3 DEF BodyInv, ContentLengthRight
<1>. QED BY <1>1, <1>2, <1>3, <1>4, <1>5, EmptyLineBody, EndpointHeaderBody, SdpCBody,
            SdpMBody, SipMessageBody DEF GrNext, BodyInv, ContentLengthRight

(* The Content-Length of a SIP message changes by what its body grows, for *)
(* any number of lines and any sizes, with one m= line to a c= line: an    *)
(* operation counts exactly when it is in the body (sip/grammar:11-16,     *)
(* parser.cc:63-69).                                                       *)
THEOREM ContentLengthGrowsWithBody ==
  ASSUME MaxMedia <= 1 PROVE GrSpec => []ContentLengthRight
<1>1. GrInit => GrInv /\ BodyInv
  BY GrInitInv, BodyInit
<1>2. GrInv /\ BodyInv /\ [GrNext]_grVars => (GrInv /\ BodyInv)'
  BY GrNextInv, BodyNext
<1>3. BodyInv => ContentLengthRight
  BY DEF BodyInv
<1>. QED BY <1>1, <1>2, <1>3, PTL DEF GrSpec
=============================================================================
