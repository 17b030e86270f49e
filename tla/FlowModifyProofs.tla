-------------------------- MODULE FlowModifyProofs --------------------------
(***************************************************************************)
(* Theorems about FlowModify: for every set of payloads, the shifted       *)
(* sequence numbers make one stream and acknowledgements stay behind.      *)
(* The second half is about what the copying loop of Flow::modify writes:  *)
(* with the operations in any order the sort may leave, the loop computes  *)
(* the payload that Splice defines.  Recursive functions are reached by    *)
(* induction on their argument (UpTo), which a least counterexample gives. *)
(***************************************************************************)
EXTENDS FlowModify, SequenceTheorems, WellFoundedInduction, TLAPS

IsSeq(s) == \E S : s \in Seq(S)

(* A sequence with one more element.                                       *)
LEMMA AppendFacts ==
  ASSUME NEW s, IsSeq(s), NEW e
  PROVE  /\ IsSeq(Append(s, e))
         /\ Len(s) \in Nat /\ DOMAIN s = 1 .. Len(s)
         /\ DOMAIN Append(s, e) = 1 .. Len(s) + 1
         /\ \A i \in 1 .. Len(s) : Append(s, e)[i] = s[i]
         /\ Append(s, e)[Len(s) + 1] = e
<1>1. PICK S : s \in Seq(S)
  BY DEF IsSeq
<1>2. s \in Seq(S \cup {e})
  BY <1>1
<1>. QED BY <1>2 DEF IsSeq

(* The loop writes as many bytes as the payload is to have.                *)
LEMMA ModifiedLen ==
  ASSUME NEW src, NEW ops, NEW at, NEW len \in Nat
  PROVE  LET d == Modified(src, ops, at, len).d
         IN  IsSeq(d) /\ Len(d) = len
<1>. DEFINE loop == Loop(src, ops, at, len)
            d == [k \in 1 .. len |-> loop[k].byte]
            S == {loop[k].byte : k \in 1 .. len}
<1>1. Modified(src, ops, at, len).d = d
  BY DEF Modified
<1>. HIDE DEF loop
<1>2. d \in Seq(S)
  <2>1. d \in [1 .. len -> S]
    OBVIOUS
  <2>. QED BY <2>1
<1>3. Len(d) = len
  BY <1>2
<1>. QED BY <1>1, <1>2, <1>3 DEF IsSeq

LEMMA CutLen ==
  ASSUME NEW d, IsSeq(d), NEW n \in Nat, n <= Len(d)
  PROVE  Len(SubSeq(d, 1, n)) = n
<1>1. PICK S : d \in Seq(S)
  BY DEF IsSeq
<1>. QED BY <1>1
-----------------------------------------------------------------------------
(* What one packet adds: its numbers follow from the offset, and the       *)
(* offset follows from what it has grown.                                  *)
Numbers(e, in, p) ==
  /\ e.in = in /\ e.payload = p
  /\ e.seq = ShiftSeq(in)
  /\ Len(e.data) \in Nat
  /\ offset_c2s' = offset_c2s + (Len(e.data) - p.len)
  /\ p.ops = <<>> => Len(e.data) = p.len

LEMMA ArriveNumbers ==
  ASSUME NEW in, NEW p \in Payloads, offset_c2s \in Int, Arrive(in, p)
  PROVE  \E e : out' = Append(out, e) /\ Numbers(e, in, p)
<1>. p.len \in Nat
  BY PayloadAssumption
<1>1. CASE Pass(in, p)
  <2>1. Len(Source(in, p)) = p.len
    <3>1. Source(in, p) \in Seq({in + k : k \in 1 .. p.len})
      BY DEF Source
    <3>. QED BY <3>1 DEF Source
  <2>. DEFINE e == [in |-> in, payload |-> p, at |-> 0, seq |-> ShiftSeq(in),
                    data |-> Source(in, p), cut |-> <<>>]
  <2>2. out' = Append(out, e) /\ offset_c2s' = offset_c2s
    BY <1>1 DEF Pass, Sent
  <2>3. Numbers(e, in, p)
    BY <2>1, <2>2 DEF Numbers
  <2>. QED BY <2>2, <2>3
<1>2. CASE Modify(in, p)
  <2>. DEFINE src == Source(in, p)
              at == GetPktOffset(ShiftSeq(in))
  <2>1. PICK ops \in SortOps(p.ops) :
          LET m == Modified(src, ops, at, NewLen(p.len, ops))
              n == Kept(src, m.d)
          IN  /\ out' = Sent(in, p, at, SubSeq(m.d, 1, n),
                             SubSeq(m.d, n + 1, Len(m.d)))
              /\ offset_c2s' = offset_c2s + Growth(src, m.d)
    BY <1>2 DEF Modify
  <2>. DEFINE d == Modified(src, ops, at, NewLen(p.len, ops)).d
  <2>2. Len(src) = p.len
    <3>1. src \in Seq({in + k : k \in 1 .. p.len})
      BY DEF Source
    <3>. QED BY <3>1 DEF Source
  <2>3. IsSeq(d) /\ Len(d) \in Nat
    <3>1. NewLen(p.len, ops) \in Nat
      BY PayloadAssumption
    <3>. HIDE DEF src, at
    <3>. QED BY <3>1, ModifiedLen
  <2>. HIDE DEF src, at, d
  <2>4. Kept(src, d) \in Nat /\ Kept(src, d) <= Len(d)
    BY <2>2, <2>3, FlowAssumption DEF Kept
  <2>5. Len(SubSeq(d, 1, Kept(src, d))) = Kept(src, d)
    BY <2>3, <2>4, CutLen
  <2>6. p.ops # <<>>
    BY <1>2 DEF Modify
  <2>. QED
    BY <2>1, <2>2, <2>4, <2>5, <2>6 DEF Sent, Numbers, Growth, d
<1>. QED BY <1>1, <1>2 DEF Arrive
-----------------------------------------------------------------------------
(* The packets the client has made, and the numbers of those that came.    *)
OutOK ==
  /\ offset_c2s \in Int /\ IsSeq(out)
  /\ segs \in Seq([in : Nat, payload : Payloads])
  /\ \A i \in DOMAIN out :
       /\ out[i].in \in Nat /\ out[i].payload \in Payloads
       /\ out[i].seq \in Int /\ Len(out[i].data) \in Nat

(* A packet stands where the offset of today would put it, at its end as   *)
(* long as none after it was modified, at its start if it was not modified *)
(* either.                                                                 *)
UnmodifiedFrom(i) == \A k \in DOMAIN out : k >= i => out[k].payload.ops = <<>>

Steady ==
  TCP => \A i \in DOMAIN out :
           /\ UnmodifiedFrom(i + 1) => End(out[i]) = InEnd(out[i]) + offset_c2s
           /\ UnmodifiedFrom(i) => out[i].seq = out[i].in + offset_c2s

(* An offset that only grows is at least what it was for any packet.       *)
OffsetCovers ==
  TCP /\ NoneShrinks =>
    \A i \in DOMAIN out : End(out[i]) <= InEnd(out[i]) + offset_c2s

FMInv == OutOK /\ Steady /\ StreamGapless /\ OffsetCovers

(* The ends of a packet as it came in and as it left are integers.         *)
LEMMA EndsAreInts ==
  ASSUME FMInv
  PROVE  \A i \in DOMAIN out : InEnd(out[i]) \in Int /\ End(out[i]) \in Int
<1>. SUFFICES ASSUME NEW i \in DOMAIN out
              PROVE  InEnd(out[i]) \in Int /\ End(out[i]) \in Int
  OBVIOUS
<1>1. /\ out[i].in \in Nat /\ out[i].payload \in Payloads
      /\ out[i].seq \in Int /\ Len(out[i].data) \in Nat
  BY DEF FMInv, OutOK
<1>2. out[i].payload.len \in Nat
  BY <1>1, PayloadAssumption
<1>3. InEnd(out[i]) \in Int
  BY <1>1, <1>2 DEF InEnd
<1>4. End(out[i]) \in Int
  BY <1>1 DEF End
<1>. QED BY <1>3, <1>4

LEMMA FMInvInit == FMInit => FMInv
<1>. SUFFICES ASSUME FMInit PROVE FMInv
  OBVIOUS
<1>1. out = <<>> /\ DOMAIN out = {} /\ IsSeq(out)
  <2>1. <<>> \in Seq({})
    OBVIOUS
  <2>. QED BY <2>1 DEF FMInit, IsSeq
<1>2. segs \in Seq([in : Nat, payload : Payloads]) /\ offset_c2s \in Int
  BY DEF FMInit
<1>. QED BY <1>1, <1>2 DEF FMInv, OutOK, Steady, StreamGapless, OffsetCovers

(* A packet the client makes starts at a number.                           *)
LEMMA ProduceTyped ==
  ASSUME segs \in Seq([in : Nat, payload : Payloads]), Produce
  PROVE  segs' \in Seq([in : Nat, payload : Payloads])
<1>. DEFINE S == [in : Nat, payload : Payloads]
<1>1. NextIn \in Nat
  <2>1. CASE segs = <<>>
    BY <2>1 DEF NextIn
  <2>2. CASE segs # <<>>
    <3>1. segs[Len(segs)] \in S
      <4>. HIDE DEF S
      <4>1. segs \in Seq(S) /\ Len(segs) \in Nat /\ Len(segs) # 0
        BY <2>2, EmptySeq, LenProperties DEF S
      <4>. QED BY <4>1, ElementOfSeq
    <3>2. /\ segs[Len(segs)].in \in Nat
          /\ segs[Len(segs)].payload.len \in Nat
      BY <3>1, PayloadAssumption
    <3>. QED BY <2>2, <3>2 DEF NextIn
  <2>. QED BY <2>1, <2>2
<1>2. PICK p \in Payloads : segs' = Append(segs, [in |-> NextIn, payload |-> p])
  BY DEF Produce
<1>3. [in |-> NextIn, payload |-> p] \in S
  BY <1>1
<1>. HIDE DEF S
<1>4. segs' \in Seq(S)
  BY <1>2, <1>3, AppendProperties DEF S
<1>. QED BY <1>4 DEF S

(* Which packet comes, and what it leaves alone.                           *)
LEMMA DeliverFacts ==
  ASSUME OutOK, NEW k \in DOMAIN segs, Deliver(k)
  PROVE  \E in \in Nat, p \in Payloads :
           Arrive(in, p) /\ segs' = segs /\ ack' = ack
<1>1. segs[k] \in [in : Nat, payload : Payloads]
  BY LenProperties, ElementOfSeq DEF OutOK
<1>. QED BY <1>1 DEF Deliver

(* One more packet, the first of its kind or sent again.                   *)
LEMMA OutGrows ==
  ASSUME FMInv, NEW in \in Nat, NEW p \in Payloads, Arrive(in, p), segs' = segs
  PROVE  LET m == Len(out) + 1 IN
         /\ m \in Nat /\ DOMAIN out = 1 .. Len(out) /\ DOMAIN out' = 1 .. m
         /\ \A i \in 1 .. Len(out) : out'[i] = out[i]
         /\ Numbers(out'[m], in, p)
         /\ OutOK'
<1>. DEFINE m == Len(out) + 1
<1>1. PICK e : out' = Append(out, e) /\ Numbers(e, in, p)
  BY ArriveNumbers DEF FMInv, OutOK
<1>2. /\ Len(out) \in Nat /\ DOMAIN out = 1 .. Len(out)
      /\ DOMAIN out' = 1 .. m /\ IsSeq(out')
      /\ \A i \in 1 .. Len(out) : out'[i] = out[i]
      /\ out'[m] = e
  BY <1>1, AppendFacts DEF FMInv, OutOK
<1>3. p.len \in Nat
  BY PayloadAssumption
<1>4. OutOK'
  <2>1. IsSeq(out') /\ segs' \in Seq([in : Nat, payload : Payloads])
    BY <1>2 DEF FMInv, OutOK
  <2>2. offset_c2s' \in Int
    BY <1>1, <1>3 DEF Numbers, FMInv, OutOK
  <2>3. ASSUME NEW i \in DOMAIN out'
        PROVE  /\ out'[i].in \in Nat /\ out'[i].payload \in Payloads
               /\ out'[i].seq \in Int /\ Len(out'[i].data) \in Nat
    <3>1. CASE i \in 1 .. Len(out)
      BY <1>2, <3>1 DEF FMInv, OutOK
    <3>2. CASE i = m
      BY <1>1, <1>2, <1>3, <3>2 DEF Numbers, ShiftSeq, FMInv, OutOK
    <3>. QED BY <1>2, <2>3, <3>1, <3>2
  <2>. QED BY <2>1, <2>2, <2>3 DEF OutOK
<1>. QED BY <1>1, <1>2, <1>4

(* What holds of all packets held of those before the last.                *)
LEMMA Before ==
  ASSUME FMInv, NEW m \in Nat, m = Len(out) + 1,
         DOMAIN out = 1 .. Len(out), DOMAIN out' = 1 .. m,
         \A i \in 1 .. Len(out) : out'[i] = out[i]
  PROVE  /\ NoneShrinks' => NoneShrinks
         /\ \A i \in 1 .. m : UnmodifiedFrom(i)' =>
              UnmodifiedFrom(i) /\ out'[m].payload.ops = <<>>
         /\ \A i, j \in 1 .. Len(out) :
              Meddling(i, j)' = {} => Meddling(i, j) = {}
         /\ \A i \in 1 .. Len(out) :
              End(out'[i]) = End(out[i]) /\ InEnd(out'[i]) = InEnd(out[i])
<1>1. /\ Len(out) \in Nat /\ 1 .. Len(out) \subseteq 1 .. m /\ m \in 1 .. m
      /\ \A i \in 1 .. Len(out) : i \in DOMAIN out' /\ out'[i] = out[i]
  BY AppendFacts DEF FMInv, OutOK
<1>2. NoneShrinks' => NoneShrinks
  BY <1>1 DEF NoneShrinks
<1>3. ASSUME NEW i \in 1 .. m, UnmodifiedFrom(i)'
      PROVE  UnmodifiedFrom(i) /\ out'[m].payload.ops = <<>>
  <2>1. \A k \in 1 .. m : k >= i => out'[k].payload.ops = <<>>
    BY <1>3 DEF UnmodifiedFrom
  <2>2. m >= i
    OBVIOUS
  <2>. QED BY <1>1, <2>1, <2>2 DEF UnmodifiedFrom
<1>4. ASSUME NEW i \in 1 .. Len(out), NEW j \in 1 .. Len(out), Meddling(i, j)' = {}
      PROVE  Meddling(i, j) = {}
  BY <1>1, <1>4 DEF Meddling
<1>5. \A i \in 1 .. Len(out) :
        End(out'[i]) = End(out[i]) /\ InEnd(out'[i]) = InEnd(out[i])
  BY <1>1 DEF End, InEnd
<1>. QED BY <1>2, <1>3, <1>4, <1>5

(* Between the last packet and one before it, whichever is first in the    *)
(* stream, nothing was modified.                                           *)
LEMMA MeddlingLast ==
  ASSUME NEW m \in Nat, DOMAIN out' = 1 .. m, NEW i \in 1 .. m - 1
  PROVE  /\ Meddling(i, m)' = {} =>
              \A k \in i + 1 .. m - 1 : out'[k].payload.ops = <<>>
         /\ Meddling(m, i)' = {} =>
              \A k \in i .. m : out'[k].payload.ops = <<>>
<1>1. ASSUME Meddling(i, m)' = {}, NEW k \in i + 1 .. m - 1
      PROVE  out'[k].payload.ops = <<>>
  BY <1>1 DEF Meddling
<1>2. ASSUME Meddling(m, i)' = {}, NEW k \in i .. m
      PROVE  out'[k].payload.ops = <<>>
  BY <1>2 DEF Meddling
<1>. QED BY <1>1, <1>2
-----------------------------------------------------------------------------
(* Whatever packet comes, it starts where the offset puts it and ends      *)
(* where the offset of the next will start.                                *)
LEMMA DeliverStep ==
  ASSUME FMInv, NEW k \in DOMAIN segs, Deliver(k)
  PROVE  FMInv'
<1>. DEFINE m == Len(out) + 1
<1>1. PICK in \in Nat, p \in Payloads :
        Arrive(in, p) /\ segs' = segs /\ ack' = ack
  BY DeliverFacts DEF FMInv
<1>2. p.len \in Nat /\ p.len > 0 /\ offset_c2s \in Int
  BY PayloadAssumption DEF FMInv, OutOK
<1>3. /\ m \in Nat /\ DOMAIN out = 1 .. Len(out) /\ DOMAIN out' = 1 .. m
      /\ \A i \in 1 .. Len(out) : out'[i] = out[i]
      /\ Numbers(out'[m], in, p)
      /\ OutOK'
  BY <1>1, OutGrows
<1>4. /\ NoneShrinks' => NoneShrinks
      /\ \A i \in 1 .. m : UnmodifiedFrom(i)' =>
           UnmodifiedFrom(i) /\ out'[m].payload.ops = <<>>
      /\ \A i, j \in 1 .. Len(out) : Meddling(i, j)' = {} => Meddling(i, j) = {}
      /\ \A i \in 1 .. Len(out) :
           End(out'[i]) = End(out[i]) /\ InEnd(out'[i]) = InEnd(out[i])
  BY <1>3, Before
<1>5. \A i \in 1 .. Len(out) :
        InEnd(out[i]) \in Int /\ End(out[i]) \in Int /\ out[i].in \in Int
  <2>1. \A i \in DOMAIN out : out[i].in \in Int
    BY DEF FMInv, OutOK
  <2>. QED BY <1>3, <2>1, EndsAreInts
<1>6. /\ out'[m].in = in /\ out'[m].payload = p
      /\ InEnd(out'[m]) = in + p.len
      /\ TCP => /\ out'[m].seq = in + offset_c2s
                /\ End(out'[m]) = InEnd(out'[m]) + offset_c2s'
      /\ offset_c2s' \in Int /\ InEnd(out'[m]) \in Int
      /\ p.ops = <<>> => offset_c2s' = offset_c2s
      /\ offset_c2s' = offset_c2s + (Len(out'[m].data) - p.len)
      /\ Len(out'[m].data) \in Nat
  <2>. DEFINE n == Len(out'[m].data)
  <2>1. /\ out'[m].in = in /\ out'[m].payload = p
        /\ TCP => out'[m].seq = in + offset_c2s
        /\ n \in Nat /\ offset_c2s' = offset_c2s + (n - p.len)
        /\ p.ops = <<>> => n = p.len
    BY <1>3 DEF Numbers, ShiftSeq
  <2>2. InEnd(out'[m]) = in + p.len
    BY <2>1 DEF InEnd
  <2>3. TCP => End(out'[m]) = (in + offset_c2s) + n
    BY <2>1 DEF End
  <2>. HIDE DEF m, n
  <2>4. (in + offset_c2s) + n = (in + p.len) + (offset_c2s + (n - p.len))
    BY <1>2, <2>1
  <2>. QED BY <1>2, <2>1, <2>2, <2>3, <2>4 DEF n
<1>7. \A i \in DOMAIN out' : i \in 1 .. Len(out) \/ i = m
  BY <1>3
<1>8. Len(out) = m - 1 /\ Len(out) \in Nat
  BY AppendFacts DEF FMInv, OutOK
<1>. HIDE DEF m
<1>9. Steady'
  <2>1. SUFFICES ASSUME TCP, NEW i \in DOMAIN out'
                 PROVE  /\ UnmodifiedFrom(i + 1)' =>
                             End(out'[i]) = InEnd(out'[i]) + offset_c2s'
                        /\ UnmodifiedFrom(i)' => out'[i].seq = out'[i].in + offset_c2s'
    BY DEF Steady, UnmodifiedFrom
  <2>2. CASE i \in 1 .. Len(out)
    <3>1. i \in DOMAIN out /\ i \in 1 .. m /\ i + 1 \in 1 .. m
      BY <1>3, <1>8, <2>2
    <3>2. UnmodifiedFrom(i + 1) => End(out[i]) = InEnd(out[i]) + offset_c2s
      BY <2>1, <3>1 DEF FMInv, Steady
    <3>3. UnmodifiedFrom(i) => out[i].seq = out[i].in + offset_c2s
      BY <2>1, <3>1 DEF FMInv, Steady
    <3>4. ASSUME UnmodifiedFrom(i + 1)'
          PROVE  End(out'[i]) = InEnd(out'[i]) + offset_c2s'
      <4>1. UnmodifiedFrom(i + 1) /\ out'[m].payload.ops = <<>>
        BY <1>4, <3>1, <3>4
      <4>. QED BY <1>4, <1>6, <2>2, <3>2, <4>1
    <3>5. ASSUME UnmodifiedFrom(i)'
          PROVE  out'[i].seq = out'[i].in + offset_c2s'
      <4>1. UnmodifiedFrom(i) /\ out'[m].payload.ops = <<>>
        BY <1>4, <3>1, <3>5
      <4>. QED BY <1>3, <1>6, <2>2, <3>3, <4>1
    <3>. QED BY <3>4, <3>5
  <2>3. CASE i = m
    <3>1. m \in 1 .. m
      BY <1>3, <1>8
    <3>2. UnmodifiedFrom(i)' => p.ops = <<>>
      BY <1>4, <1>6, <2>3, <3>1
    <3>. QED BY <1>6, <2>1, <2>3, <3>2
  <2>. QED BY <1>7, <2>2, <2>3
<1>10. StreamGapless'
  <2>1. SUFFICES ASSUME TCP, NEW i \in DOMAIN out', NEW j \in DOMAIN out',
                        out'[j].in = InEnd(out'[i]), Meddling(i, j)' = {}
                 PROVE  out'[j].seq = End(out'[i])
    BY DEF StreamGapless, Meddling
  <2>2. CASE i \in 1 .. Len(out) /\ j \in 1 .. Len(out)
    BY <1>3, <1>4, <2>1, <2>2 DEF FMInv, StreamGapless
  <2>3. CASE i \in 1 .. Len(out) /\ j = m
    <3>1. \A x \in i + 1 .. m - 1 : out'[x].payload.ops = <<>>
      BY <1>3, <1>8, <2>1, <2>3, MeddlingLast
    <3>2. UnmodifiedFrom(i + 1)
      BY <1>3, <1>8, <2>3, <3>1 DEF UnmodifiedFrom
    <3>3. End(out[i]) = InEnd(out[i]) + offset_c2s
      BY <1>3, <2>1, <2>3, <3>2 DEF FMInv, Steady
    <3>. QED BY <1>4, <1>6, <2>1, <2>3, <3>3
  <2>4. CASE i = m /\ j \in 1 .. Len(out)
    <3>1. \A x \in j .. m : out'[x].payload.ops = <<>>
      BY <1>3, <1>8, <2>1, <2>4, MeddlingLast
    <3>2. UnmodifiedFrom(j)
      BY <1>3, <1>8, <2>4, <3>1 DEF UnmodifiedFrom
    <3>3. out[j].seq = out[j].in + offset_c2s
      BY <1>3, <2>1, <2>4, <3>2 DEF FMInv, Steady
    <3>4. p.ops = <<>>
      <4>1. m \in j .. m
        BY <1>3, <1>8, <2>4
      <4>2. out'[m].payload = p
        BY <1>6
      <4>. QED BY <3>1, <4>1, <4>2
    <3>. QED BY <1>3, <1>6, <2>1, <2>4, <3>3, <3>4
  <2>5. CASE i = m /\ j = m
    BY <1>1, <1>2, <1>6, <2>1, <2>5
  <2>. QED BY <1>7, <2>2, <2>3, <2>4, <2>5
<1>11. OffsetCovers'
  <2>1. SUFFICES ASSUME TCP, NoneShrinks', NEW i \in DOMAIN out'
                 PROVE  End(out'[i]) <= InEnd(out'[i]) + offset_c2s'
    BY DEF OffsetCovers
  <2>2. offset_c2s' >= offset_c2s
    <3>1. m \in DOMAIN out'
      BY <1>3, <1>8
    <3>2. Len(out'[m].data) >= p.len
      BY <1>6, <2>1, <3>1 DEF NoneShrinks
    <3>. QED BY <1>2, <1>6, <3>2
  <2>3. CASE i \in 1 .. Len(out)
    <3>1. End(out[i]) <= InEnd(out[i]) + offset_c2s
      BY <1>3, <1>4, <2>1, <2>3 DEF FMInv, OffsetCovers
    <3>2. End(out'[i]) = End(out[i]) /\ InEnd(out'[i]) = InEnd(out[i])
      BY <1>4, <2>3
    <3>3. InEnd(out[i]) \in Int /\ End(out[i]) \in Int
      BY <1>5, <2>3
    <3>. QED BY <1>2, <1>6, <2>2, <3>1, <3>2, <3>3
  <2>4. CASE i = m
    BY <1>6, <2>1, <2>4
  <2>. QED BY <1>7, <2>3, <2>4
<1>. QED BY <1>3, <1>9, <1>10, <1>11 DEF FMInv
-----------------------------------------------------------------------------
LEMMA FMInvNext == FMInv /\ [FMNext]_fmVars => FMInv'
<1>. SUFFICES ASSUME FMInv, [FMNext]_fmVars PROVE FMInv'
  OBVIOUS
<1>1. CASE Produce
  <2>1. segs' \in Seq([in : Nat, payload : Payloads])
    BY <1>1, ProduceTyped DEF FMInv, OutOK
  <2>. QED BY <1>1, <2>1
         DEF Produce, FMInv, OutOK, Steady, UnmodifiedFrom, StreamGapless, Meddling,
             OffsetCovers, NoneShrinks
<1>2. CASE \E i \in DOMAIN segs : Deliver(i)
  BY <1>2, DeliverStep
<1>3. CASE (\E i \in DOMAIN out : Acknowledge(i)) \/ UNCHANGED fmVars
  <2>1. UNCHANGED <<offset_c2s, segs, out>>
    BY <1>3 DEF Acknowledge, fmVars
  <2>. QED BY <2>1 DEF FMInv, OutOK, Steady, UnmodifiedFrom, StreamGapless, Meddling,
                       OffsetCovers, NoneShrinks
<1>. QED BY <1>1, <1>2, <1>3 DEF FMNext

LEMMA FMInvAlways == FMSpec => []FMInv
BY FMInvInit, FMInvNext, PTL DEF FMSpec

(* For all payloads and operations, and whatever is lost, late or sent     *)
(* again: two packets that follow each other in the client's stream follow *)
(* each other for the server, unless something was modified between them   *)
(* or they came in the wrong order and one was modified (nat.cc:247,       *)
(* flow.cc:203).                                                           *)
THEOREM OneStream == FMSpec => []StreamGapless
<1>1. FMInv => StreamGapless
  BY DEF FMInv
<1>. QED BY <1>1, FMInvAlways, PTL

(* What is acknowledged is translated with an offset that covers all that  *)
(* passed.                                                                 *)
LEMMA AcknowledgeStep ==
  ASSUME FMInv, NEW k \in DOMAIN out, Acknowledge(k), NoneShrinks,
         NEW i \in DOMAIN out, InEnd(out[i]) <= ack'.cli
  PROVE  End(out[i]) <= ack'.srv
<1>1. TCP /\ ack'.srv = End(out[k]) /\ ack'.cli = End(out[k]) - offset_c2s
  BY DEF Acknowledge, ShiftAck
<1>2. /\ End(out[i]) \in Int /\ InEnd(out[i]) \in Int /\ End(out[k]) \in Int
      /\ offset_c2s \in Int
  BY EndsAreInts DEF FMInv, OutOK
<1>3. End(out[i]) <= InEnd(out[i]) + offset_c2s
  BY <1>1 DEF FMInv, OffsetCovers
<1>. QED BY <1>1, <1>2, <1>3

(* For all payloads that do not shrink: no acknowledgement runs ahead of a *)
(* packet that passed, packets that came late, again or counted twice      *)
(* included (nat.cc:250).                                                  *)
THEOREM AcksStayBehind == FMSpec => AckNeverAhead
<1>. DEFINE A == TCP /\ NoneShrinks /\ ack' # ack =>
                   \A i \in DOMAIN out :
                     InEnd(out[i]) <= ack'.cli => End(out[i]) <= ack'.srv
<1>1. FMInv /\ [FMNext]_fmVars => [A]_fmVars
  <2>. SUFFICES ASSUME FMInv, FMNext, NoneShrinks, ack' # ack,
                       NEW i \in DOMAIN out, InEnd(out[i]) <= ack'.cli
                PROVE  End(out[i]) <= ack'.srv
    OBVIOUS
  <2>1. PICK k \in DOMAIN out : Acknowledge(k)
    BY DEF FMNext, Produce, Deliver
  <2>. QED BY <2>1, AcknowledgeStep
<1>. QED BY <1>1, FMInvAlways, PTL DEF FMSpec, AckNeverAhead
-----------------------------------------------------------------------------
(* Induction, and functions defined by recursion.                          *)

(* Induction over the numbers up to n.                                     *)
LEMMA UpTo ==
  ASSUME NEW n \in Nat, NEW S, 0 \in S, \A k \in 0 .. n - 1 : k \in S => k + 1 \in S
  PROVE  \A k \in 0 .. n : k \in S
<1>. DEFINE T == {k \in 0 .. n : k \notin S}
            R == {ss \in Nat \X Nat : ss[1] < ss[2]}
<1>. SUFFICES ASSUME T # {} PROVE FALSE
  OBVIOUS
<1>1. IsWellFoundedOn(R, Nat)
  BY NatLessThanWellFounded DEF OpToRel
<1>2. PICK x \in T : \A y \in T : <<y, x>> \notin R
  <2>1. T \subseteq Nat
    OBVIOUS
  <2>. HIDE DEF R, T
  <2>. QED BY <1>1, <2>1, WFMin
<1>3. x \in 0 .. n /\ x # 0
  OBVIOUS
<1>4. x - 1 \in Nat /\ x - 1 \in 0 .. n - 1 /\ x - 1 < x
  BY <1>3
<1>5. <<x - 1, x>> \in R
  BY <1>3, <1>4
<1>6. x - 1 \in S
  BY <1>2, <1>4, <1>5
<1>. QED BY <1>3, <1>4, <1>6

(* The same from another number on.                                        *)
LEMMA Between ==
  ASSUME NEW lo \in Nat, NEW hi \in Nat, lo <= hi, NEW S, lo \in S,
         \A k \in lo .. hi - 1 : k \in S => k + 1 \in S
  PROVE  \A k \in lo .. hi : k \in S
<1>. DEFINE n == hi - lo
            T == {i \in 0 .. n : lo + i \in S}
<1>1. n \in Nat /\ 0 \in T
  OBVIOUS
<1>2. \A i \in 0 .. n - 1 : i \in T => i + 1 \in T
  <2>1. SUFFICES ASSUME NEW i \in 0 .. n - 1, lo + i \in S
                 PROVE  i + 1 \in 0 .. n /\ lo + (i + 1) \in S
    OBVIOUS
  <2>2. lo + i \in lo .. hi - 1 /\ (lo + i) + 1 = lo + (i + 1)
    OBVIOUS
  <2>. QED BY <2>1, <2>2
<1>3. \A i \in 0 .. n : i \in T
  <2>. HIDE DEF T, n
  <2>. QED BY <1>1, <1>2, UpTo
<1>. SUFFICES ASSUME NEW k \in lo .. hi PROVE k \in S
  OBVIOUS
<1>4. k - lo \in 0 .. n /\ lo + (k - lo) = k
  OBVIOUS
<1>. QED BY <1>3, <1>4

(* A function defined from its value one below exists.                     *)
Recurs(f, n, c, F) == f[0] = c /\ \A i \in 1 .. n : f[i] = F[i][f[i - 1]]

LEMMA Recursion ==
  ASSUME NEW n \in Nat, NEW S, NEW c \in S, NEW F \in [1 .. n -> [S -> S]]
  PROVE  \E f \in [0 .. n -> S] : Recurs(f, n, c, F)
<1>. DEFINE T == {k \in 0 .. n : \E f \in [0 .. k -> S] : Recurs(f, k, c, F)}
<1>1. 0 \in T
  <2>. DEFINE f == [i \in 0 .. 0 |-> c]
  <2>1. f \in [0 .. 0 -> S] /\ Recurs(f, 0, c, F)
    BY DEF Recurs
  <2>2. 0 \in 0 .. n
    OBVIOUS
  <2>. HIDE DEF f
  <2>. QED BY <2>1, <2>2
<1>2. ASSUME NEW k \in 0 .. n - 1, k \in T
      PROVE  k + 1 \in T
  <2>1. PICK f \in [0 .. k -> S] : Recurs(f, k, c, F)
    BY <1>2
  <2>. DEFINE g == [i \in 0 .. k + 1 |-> IF i = k + 1 THEN F[k + 1][f[k]] ELSE f[i]]
  <2>2. F[k + 1][f[k]] \in S
    <3>1. f[k] \in S /\ k + 1 \in 1 .. n
      OBVIOUS
    <3>2. F[k + 1] \in [S -> S]
      BY <3>1
    <3>. QED BY <3>1, <3>2
  <2>3. g \in [0 .. k + 1 -> S]
    <3>1. ASSUME NEW i \in 0 .. k + 1 PROVE g[i] \in S
      <4>1. i # k + 1 => i \in 0 .. k
        OBVIOUS
      <4>. QED BY <2>2, <4>1
    <3>. QED BY <3>1
  <2>4. Recurs(g, k + 1, c, F)
    <3>1. g[0] = c
      BY <2>1 DEF Recurs
    <3>2. ASSUME NEW i \in 1 .. k + 1 PROVE g[i] = F[i][g[i - 1]]
      <4>1. i - 1 \in 0 .. k /\ g[i - 1] = f[i - 1]
        OBVIOUS
      <4>2. CASE i = k + 1
        BY <4>1, <4>2
      <4>3. CASE i \in 1 .. k
        <5>1. g[i] = f[i] /\ f[i] = F[i][f[i - 1]]
          BY <2>1, <4>3 DEF Recurs
        <5>. QED BY <4>1, <5>1
      <4>. QED BY <4>2, <4>3
    <3>. HIDE DEF g
    <3>. QED BY <3>1, <3>2 DEF Recurs
  <2>5. k + 1 \in 0 .. n
    OBVIOUS
  <2>. HIDE DEF g
  <2>. QED BY <2>3, <2>4, <2>5
<1>3. \A k \in 0 .. n - 1 : k \in T => k + 1 \in T
  BY <1>2
<1>4. n \in T
  <2>. HIDE DEF T
  <2>1. \A k \in 0 .. n : k \in T
    BY <1>1, <1>3, UpTo
  <2>. QED BY <2>1
<1>. QED BY <1>4

-----------------------------------------------------------------------------
(* The copying loop.                                                       *)
OpSet == [start_pos : Nat, end_pos : Nat, newdata : Seq(Int)]

LoopVars(ops) ==
  [byte : Int, ps : Int, cnt : 1 .. Len(ops) + 1, inside : BOOLEAN, past : BOOLEAN]

LoopStates(ops) ==
  {s \in LoopVars(ops) :
     s.inside => s.cnt <= Len(ops) /\ s.ps \in 0 .. Len(ops[s.cnt].newdata) - 1}

(* An iteration of it.                                                     *)
Iteration(s, src, ops, at) == CopyByte(EnterOp(s, ops, at), src, ops, at)

(* What an operation is made of.                                           *)
LEMMA OpFacts ==
  ASSUME NEW ops \in Seq(OpSet), NEW c \in 1 .. Len(ops)
  PROVE  /\ ops[c].start_pos \in Nat /\ ops[c].end_pos \in Nat
         /\ ops[c].newdata \in Seq(Int) /\ Len(ops[c].newdata) \in Nat
         /\ ops[c].newdata # <<>> => Len(ops[c].newdata) > 0
         /\ \A k \in 1 .. Len(ops[c].newdata) : ops[c].newdata[k] \in Int
<1>1. ops[c] \in OpSet
  OBVIOUS
<1>2. ops[c].start_pos \in Nat /\ ops[c].end_pos \in Nat /\ ops[c].newdata \in Seq(Int)
  BY <1>1 DEF OpSet
<1>. QED BY <1>2

(* The end of an operation.                                                *)
LEMMA SkipFacts ==
  ASSUME NEW ops \in Seq(OpSet), NEW at \in Int, NEW s \in LoopVars(ops),
         s.cnt \in 1 .. Len(ops)
  PROVE  LET t == Skip(s, ops, at) IN
         /\ t \in LoopVars(ops) /\ t.byte = s.byte /\ t.inside = FALSE
         /\ t.ps = ops[s.cnt].end_pos - at /\ t.cnt = s.cnt + 1
<1>. DEFINE t == Skip(s, ops, at)
            p == ops[s.cnt].end_pos - at
            c == s.cnt + 1
<1>1. p \in Int /\ c \in 1 .. Len(ops) + 1
  <2>1. Len(ops) \in Nat
    OBVIOUS
  <2>. QED BY <2>1, OpFacts
<1>2. t = [s EXCEPT !.inside = FALSE, !.ps = p, !.cnt = c]
  BY DEF Skip
<1>. SUFFICES /\ t \in LoopVars(ops) /\ t.byte = s.byte /\ t.inside = FALSE
              /\ t.ps = p /\ t.cnt = c
  OBVIOUS
<1>. HIDE DEF t, p, c
<1>. QED BY <1>1, <1>2 DEF LoopVars

(* The first part of an iteration: an operation is passed over, begun or   *)
(* not found.                                                              *)
LEMMA EnterFacts ==
  ASSUME NEW ops \in Seq(OpSet), NEW at \in Int, NEW s \in LoopStates(ops)
  PROVE  LET t == EnterOp(s, ops, at) IN
         /\ t \in LoopStates(ops)
         /\ Found(s, ops, at) =>
              /\ s.cnt \in 1 .. Len(ops) /\ s.ps = ops[s.cnt].start_pos - at
              /\ ~s.inside
              /\ ops[s.cnt].newdata = <<>> =>
                   t.cnt = s.cnt + 1 /\ t.ps = ops[s.cnt].end_pos - at /\ ~t.inside
              /\ ops[s.cnt].newdata # <<>> =>
                   t.cnt = s.cnt /\ t.ps = 0 /\ t.inside
         /\ ~Found(s, ops, at) => t.cnt = s.cnt /\ t.ps = s.ps /\ t.inside = s.inside
<1>. DEFINE t == EnterOp(s, ops, at)
<1>1. /\ Len(ops) \in Nat /\ s \in LoopVars(ops) /\ s.cnt \in 1 .. Len(ops) + 1
      /\ s.inside => s.cnt <= Len(ops) /\ s.ps \in 0 .. Len(ops[s.cnt].newdata) - 1
  BY DEF LoopStates, LoopVars
<1>2. CASE Found(s, ops, at)
  <2>1. /\ s.cnt \in 1 .. Len(ops) /\ ~s.inside
        /\ s.ps = ops[s.cnt].start_pos - at
    BY <1>1, <1>2 DEF Found
  <2>2. CASE ops[s.cnt].newdata = <<>>
    <3>1. t = Skip(s, ops, at)
      BY <1>2, <2>2 DEF EnterOp
    <3>2. /\ t \in LoopVars(ops) /\ t.inside = FALSE /\ t.cnt = s.cnt + 1
          /\ t.ps = ops[s.cnt].end_pos - at
      <4>1. /\ Skip(s, ops, at) \in LoopVars(ops) /\ Skip(s, ops, at).inside = FALSE
            /\ Skip(s, ops, at).cnt = s.cnt + 1
            /\ Skip(s, ops, at).ps = ops[s.cnt].end_pos - at
        BY <1>1, <2>1, SkipFacts
      <4>. QED BY <3>1, <4>1
    <3>. HIDE DEF t
    <3>3. t \in LoopStates(ops)
      BY <3>2 DEF LoopStates
    <3>. QED BY <1>2, <2>1, <2>2, <3>2, <3>3 DEF t
  <2>3. CASE ops[s.cnt].newdata # <<>>
    <3>1. t = [s EXCEPT !.inside = TRUE, !.ps = 0]
      BY <1>2, <2>3 DEF EnterOp
    <3>2. Len(ops[s.cnt].newdata) \in Nat /\ Len(ops[s.cnt].newdata) > 0
      BY <2>1, <2>3, OpFacts
    <3>3. t \in LoopVars(ops) /\ t.inside = TRUE /\ t.cnt = s.cnt /\ t.ps = 0
      <4>. DEFINE p == 0
      <4>1. s \in LoopVars(ops) /\ p \in Int /\ t = [s EXCEPT !.inside = TRUE, !.ps = p]
        BY <1>1, <3>1
      <4>. SUFFICES t \in LoopVars(ops) /\ t.inside = TRUE /\ t.cnt = s.cnt /\ t.ps = p
        OBVIOUS
      <4>. HIDE DEF t, p
      <4>. QED BY <4>1 DEF LoopVars
    <3>. HIDE DEF t
    <3>4. t \in LoopStates(ops)
      BY <2>1, <3>2, <3>3 DEF LoopStates
    <3>. QED BY <1>2, <2>1, <2>3, <3>3, <3>4 DEF t
  <2>. QED BY <2>2, <2>3
<1>3. CASE ~Found(s, ops, at)
  <2>1. t = [s EXCEPT !.past = @ \/ PastOps(s, ops)]
    BY <1>3 DEF EnterOp
  <2>2. (s.past \/ PastOps(s, ops)) \in BOOLEAN
    OBVIOUS
  <2>3. t \in LoopVars(ops) /\ t.ps = s.ps /\ t.cnt = s.cnt /\ t.inside = s.inside
    <3>. DEFINE q == s.past \/ PastOps(s, ops)
    <3>1. t = [s EXCEPT !.past = q] /\ q \in BOOLEAN
      BY <2>1, <2>2
    <3>. HIDE DEF t, q
    <3>. QED BY <1>1, <3>1 DEF LoopVars
  <2>. HIDE DEF t
  <2>4. t \in LoopStates(ops)
    BY <1>1, <2>3 DEF LoopStates
  <2>. QED BY <1>3, <2>3, <2>4 DEF t
<1>. QED BY <1>2, <1>3

(* The second part: a byte of the new data, perhaps the last, or one of    *)
(* the packet.                                                             *)
LEMMA CopyFacts ==
  ASSUME NEW src \in Seq(Int), NEW ops \in Seq(OpSet), NEW at \in Int,
         NEW s \in LoopStates(ops)
  PROVE  LET t   == CopyByte(s, src, ops, at)
             new == ops[s.cnt].newdata
         IN
         /\ t \in LoopStates(ops)
         /\ s.inside => /\ s.cnt \in 1 .. Len(ops) /\ s.ps + 1 \in 1 .. Len(new)
                        /\ t.byte = new[s.ps + 1]
                        /\ s.ps + 1 = Len(new) =>
                             /\ t.cnt = s.cnt + 1 /\ t.ps = ops[s.cnt].end_pos - at
                             /\ ~t.inside
                        /\ s.ps + 1 # Len(new) =>
                             t.cnt = s.cnt /\ t.ps = s.ps + 1 /\ t.inside
         /\ ~s.inside => /\ t.byte = Byte(src, s.ps) /\ t.cnt = s.cnt
                         /\ t.ps = s.ps + 1 /\ ~t.inside
<1>. DEFINE t == CopyByte(s, src, ops, at)
            new == ops[s.cnt].newdata
<1>1. /\ Len(ops) \in Nat /\ s \in LoopVars(ops) /\ s.cnt \in 1 .. Len(ops) + 1
      /\ s.ps \in Int
      /\ s.inside => s.cnt <= Len(ops) /\ s.ps \in 0 .. Len(ops[s.cnt].newdata) - 1
  BY DEF LoopStates, LoopVars
<1>2. CASE s.inside
  <2>. DEFINE u == [s EXCEPT !.byte = new[s.ps + 1], !.ps = @ + 1]
  <2>1. s.cnt \in 1 .. Len(ops)
    BY <1>1, <1>2
  <2>2. Len(new) \in Nat
    BY <2>1, OpFacts
  <2>3. s.ps + 1 \in 1 .. Len(new)
    BY <1>1, <1>2, <2>2
  <2>4. new[s.ps + 1] \in Int
    BY <2>1, <2>3, OpFacts
  <2>5. /\ u \in LoopVars(ops) /\ u.cnt = s.cnt /\ u.ps = s.ps + 1
        /\ u.byte = new[s.ps + 1] /\ u.inside = s.inside
    <3>. DEFINE p == s.ps + 1
                b == new[s.ps + 1]
    <3>1. p \in Int /\ b \in Int
      BY <1>1, <2>4
    <3>2. u = [s EXCEPT !.byte = b, !.ps = p]
      OBVIOUS
    <3>. SUFFICES /\ u \in LoopVars(ops) /\ u.cnt = s.cnt /\ u.ps = p
                  /\ u.byte = b /\ u.inside = s.inside
      OBVIOUS
    <3>. HIDE DEF u, p, b
    <3>. QED BY <1>1, <3>1, <3>2 DEF LoopVars
  <2>6. t = IF u.ps = Len(new) THEN Skip(u, ops, at) ELSE u
    BY <1>2 DEF CopyByte
  <2>. HIDE DEF u, t
  <2>7. CASE s.ps + 1 = Len(new)
    <3>1. /\ t \in LoopVars(ops) /\ t.byte = u.byte /\ t.inside = FALSE
          /\ t.ps = ops[s.cnt].end_pos - at /\ t.cnt = s.cnt + 1
      <4>1. /\ Skip(u, ops, at) \in LoopVars(ops) /\ Skip(u, ops, at).inside = FALSE
            /\ Skip(u, ops, at).byte = u.byte /\ Skip(u, ops, at).cnt = u.cnt + 1
            /\ Skip(u, ops, at).ps = ops[u.cnt].end_pos - at
        <5>1. u.cnt \in 1 .. Len(ops)
          BY <2>1, <2>5
        <5>. QED BY <2>5, <5>1, SkipFacts
      <4>. QED BY <2>5, <2>6, <2>7, <4>1
    <3>2. t \in LoopStates(ops)
      BY <3>1 DEF LoopStates
    <3>. QED BY <1>2, <2>1, <2>3, <2>5, <2>7, <3>1, <3>2 DEF t
  <2>8. CASE s.ps + 1 # Len(new)
    <3>1. t = u
      BY <2>5, <2>6, <2>8
    <3>2. t \in LoopStates(ops)
      <4>1. s.ps + 1 \in 0 .. Len(new) - 1
        BY <2>2, <2>3, <2>8
      <4>. QED BY <1>1, <1>2, <2>5, <3>1, <4>1 DEF LoopStates
    <3>. QED BY <1>2, <2>1, <2>3, <2>5, <2>8, <3>1, <3>2 DEF t
  <2>. QED BY <2>7, <2>8
<1>3. CASE ~s.inside
  <2>. DEFINE p == s.ps + 1
              b == Byte(src, s.ps)
  <2>1. t = [s EXCEPT !.byte = b, !.ps = p]
    BY <1>3 DEF CopyByte
  <2>2. b \in Int /\ p \in Int
    BY <1>1 DEF Byte, Junk
  <2>3. /\ t \in LoopVars(ops) /\ t.byte = Byte(src, s.ps) /\ t.ps = s.ps + 1
        /\ t.cnt = s.cnt /\ t.inside = s.inside
    <3>. SUFFICES /\ t \in LoopVars(ops) /\ t.byte = b /\ t.ps = p
                  /\ t.cnt = s.cnt /\ t.inside = s.inside
      OBVIOUS
    <3>. HIDE DEF t, b, p
    <3>. QED BY <1>1, <2>1, <2>2 DEF LoopVars
  <2>. HIDE DEF t
  <2>4. t \in LoopStates(ops)
    BY <1>3, <2>3 DEF LoopStates
  <2>. QED BY <1>3, <2>3, <2>4 DEF t
<1>. QED BY <1>2, <1>3

(* An iteration keeps the loop's variables within their bounds.            *)
LEMMA IterationOK ==
  ASSUME NEW src \in Seq(Int), NEW ops \in Seq(OpSet), NEW at \in Int,
         NEW s \in LoopStates(ops)
  PROVE  Iteration(s, src, ops, at) \in LoopStates(ops)
<1>1. EnterOp(s, ops, at) \in LoopStates(ops)
  BY EnterFacts
<1>. QED BY <1>1, CopyFacts DEF Iteration

(* The loop's variables after each of its iterations.                      *)
LEMMA LoopFacts ==
  ASSUME NEW src \in Seq(Int), NEW ops \in Seq(OpSet), NEW at \in Int, NEW len \in Nat
  PROVE  LET loop == Loop(src, ops, at, len) IN
         /\ loop[0] = LoopStart
         /\ \A n \in 1 .. len : loop[n] = Iteration(loop[n - 1], src, ops, at)
         /\ \A n \in 0 .. len : loop[n] \in LoopStates(ops)
<1>. DEFINE S == LoopStates(ops)
            F == [i \in 1 .. len |-> [s \in S |-> Iteration(s, src, ops, at)]]
            P(f) == f = [n \in 0 .. len |->
                           IF n = 0 THEN LoopStart
                           ELSE CopyByte(EnterOp(f[n - 1], ops, at), src, ops, at)]
            loop == CHOOSE f : P(f)
<1>0. LoopStart \in S
  BY DEF LoopStart, LoopStates, LoopVars, Junk
<1>1. PICK f \in [0 .. len -> S] : Recurs(f, len, LoopStart, F)
  <2>1. F \in [1 .. len -> [S -> S]]
    <3>. HIDE DEF S
    <3>1. \A s \in S : Iteration(s, src, ops, at) \in S
      BY IterationOK DEF S
    <3>. QED BY <3>1
  <2>. HIDE DEF F, S
  <2>. QED BY <1>0, <2>1, Recursion
<1>. HIDE DEF S
<1>2. P(f)
  <2>1. ASSUME NEW i \in 0 .. len
        PROVE  f[i] = IF i = 0 THEN LoopStart ELSE Iteration(f[i - 1], src, ops, at)
    <3>1. i # 0 => i \in 1 .. len /\ f[i - 1] \in S
      OBVIOUS
    <3>. QED BY <1>1, <3>1 DEF Recurs
  <2>. QED BY <2>1 DEF Iteration
<1>3. P(loop)
  <2>. HIDE DEF P
  <2>. QED BY <1>2
<1>4. Loop(src, ops, at, len) = loop
  BY DEF Loop
<1>. HIDE DEF loop
<1>5. /\ loop[0] = LoopStart
      /\ \A n \in 1 .. len : loop[n] = Iteration(loop[n - 1], src, ops, at)
  BY <1>3 DEF Iteration
<1>6. \A n \in 0 .. len : loop[n] \in S
  <2>. DEFINE T == {n \in 0 .. len : loop[n] \in S}
  <2>1. 0 \in T
    BY <1>0, <1>5
  <2>2. \A n \in 0 .. len - 1 : n \in T => n + 1 \in T
    <3>1. SUFFICES ASSUME NEW n \in 0 .. len - 1, loop[n] \in S
                   PROVE  n + 1 \in 0 .. len /\ loop[n + 1] \in S
      OBVIOUS
    <3>2. loop[n + 1] = Iteration(loop[n], src, ops, at)
      BY <1>5
    <3>. QED BY <3>1, <3>2, IterationOK DEF S
  <2>. HIDE DEF T
  <2>3. \A n \in 0 .. len : n \in T
    BY <2>1, <2>2, UpTo
  <2>. QED BY <2>3 DEF T
<1>. QED BY <1>4, <1>5, <1>6 DEF S

-----------------------------------------------------------------------------
(* Operations in order, none within another.                               *)
Sorted(ops, len) ==
  /\ \A c \in 1 .. Len(ops) :
       ops[c].start_pos < ops[c].end_pos /\ ops[c].end_pos <= len
  /\ \A b, c \in 1 .. Len(ops) : b < c => ops[b].end_pos <= ops[c].start_pos

(* Written after u: the sequence new, or the byte b.                       *)
Then(u, new) == u \o new
ThenByte(u, b) == Append(u, b)

(* U[k]: what becomes of the first k bytes of src.                         *)
IsSplice(U, src, ops) ==
  /\ U[0] = <<>>
  /\ \A k \in 0 .. Len(src) : U[k] \in Seq(Int)
  /\ \A k \in 0 .. Len(src) - 1 :
       /\ \A c \in 1 .. Len(ops) :
            /\ ops[c].start_pos = k => U[k + 1] = Then(U[k], ops[c].newdata)
            /\ ops[c].start_pos < k /\ k < ops[c].end_pos => U[k + 1] = U[k]
       /\ (\A c \in 1 .. Len(ops) : k < ops[c].start_pos \/ ops[c].end_pos <= k)
            => U[k + 1] = ThenByte(U[k], src[k + 1])

Splicing(U, src, ops) ==
  src \in Seq(Int) /\ ops \in Seq(OpSet) /\ Sorted(ops, Len(src)) /\ IsSplice(U, src, ops)

(* What becomes of byte k + 1.                                             *)
LEMMA SpliceAt ==
  ASSUME NEW U, NEW src, NEW ops, Splicing(U, src, ops), NEW k \in 0 .. Len(src) - 1
  PROVE  /\ \A c \in 1 .. Len(ops) :
              /\ ops[c].start_pos = k => U[k + 1] = Then(U[k], ops[c].newdata)
              /\ ops[c].start_pos < k /\ k < ops[c].end_pos => U[k + 1] = U[k]
         /\ (\A c \in 1 .. Len(ops) : k < ops[c].start_pos \/ ops[c].end_pos <= k)
              => U[k + 1] = ThenByte(U[k], src[k + 1])
BY DEF Splicing, IsSplice

(* Over an operation, its new data.                                        *)
LEMMA OverOp ==
  ASSUME NEW U, NEW src, NEW ops, Splicing(U, src, ops), NEW c \in 1 .. Len(ops)
  PROVE  U[ops[c].end_pos] = Then(U[ops[c].start_pos], ops[c].newdata)
<1>. DEFINE lo == ops[c].start_pos
            hi == ops[c].end_pos
            new == ops[c].newdata
            S == {k \in Nat : U[k] = Then(U[lo], new)}
<1>1. /\ lo \in Nat /\ hi \in Nat /\ lo < hi /\ hi <= Len(src) /\ Len(src) \in Nat
  BY OpFacts DEF Splicing, Sorted
<1>2. lo + 1 \in S
  <2>1. lo \in 0 .. Len(src) - 1
    BY <1>1
  <2>2. U[lo + 1] = Then(U[lo], new)
    BY <1>1, <2>1, SpliceAt
  <2>. QED BY <1>1, <2>2
<1>3. \A k \in lo + 1 .. hi - 1 : k \in S => k + 1 \in S
  <2>1. SUFFICES ASSUME NEW k \in lo + 1 .. hi - 1, k \in S PROVE k + 1 \in S
    OBVIOUS
  <2>2. k \in 0 .. Len(src) - 1 /\ lo < k /\ k < hi
    BY <1>1
  <2>3. ops[c].start_pos < k /\ k < ops[c].end_pos => U[k + 1] = U[k]
    BY <2>2 DEF Splicing, IsSplice
  <2>4. U[k + 1] = U[k]
    BY <2>2, <2>3
  <2>. QED BY <1>1, <2>1, <2>2, <2>4
<1>4. lo + 1 \in Nat /\ lo + 1 <= hi /\ hi \in lo + 1 .. hi
  BY <1>1
<1>5. hi \in S
  <2>. DEFINE l == lo + 1
  <2>. HIDE DEF S, hi, l
  <2>. QED BY <1>1, <1>2, <1>3, <1>4, Between DEF l
<1>. QED BY <1>5

(* Between operations, as many bytes as there are.                         *)
LEMMA OverBytes ==
  ASSUME NEW U, NEW src, NEW ops, Splicing(U, src, ops),
         NEW lo \in Nat, NEW hi \in Nat, lo <= hi, hi <= Len(src),
         \A c \in 1 .. Len(ops) : ops[c].end_pos <= lo \/ hi <= ops[c].start_pos
  PROVE  Len(U[hi]) = Len(U[lo]) + (hi - lo)
<1>. DEFINE S == {k \in Nat : Len(U[k]) = Len(U[lo]) + (k - lo)}
<1>1. Len(src) \in Nat
  BY DEF Splicing
<1>2. \A k \in 0 .. Len(src) : U[k] \in Seq(Int) /\ Len(U[k]) \in Nat
  BY DEF Splicing, IsSplice
<1>3. lo \in S
  BY <1>1, <1>2
<1>4. \A k \in lo .. hi - 1 : k \in S => k + 1 \in S
  <2>1. SUFFICES ASSUME NEW k \in lo .. hi - 1, k \in S PROVE k + 1 \in S
    OBVIOUS
  <2>2. k \in 0 .. Len(src) - 1 /\ k \in 0 .. Len(src)
    BY <1>1
  <2>3. \A c \in 1 .. Len(ops) : k < ops[c].start_pos \/ ops[c].end_pos <= k
    <3>1. \A c \in 1 .. Len(ops) : ops[c].start_pos \in Nat /\ ops[c].end_pos \in Nat
      BY OpFacts DEF Splicing
    <3>. QED BY <3>1
  <2>4. U[k + 1] = ThenByte(U[k], src[k + 1])
    BY <1>1, <2>2, <2>3, SpliceAt
  <2>5. Len(U[k + 1]) = Len(U[k]) + 1
    BY <1>2, <2>2, <2>4 DEF ThenByte
  <2>6. Len(U[k]) \in Nat /\ Len(U[lo]) \in Nat /\ k \in Nat /\ k + 1 \in Nat
    BY <1>1, <1>2, <2>2
  <2>7. Len(U[k]) = Len(U[lo]) + (k - lo)
    BY <2>1
  <2>8. Len(U[k + 1]) = Len(U[lo]) + ((k + 1) - lo)
    <3>. DEFINE a == Len(U[k + 1])
                b == Len(U[k])
                c == Len(U[lo])
    <3>1. a = b + 1 /\ b = c + (k - lo) /\ b \in Nat /\ c \in Nat /\ k \in Nat
      BY <2>5, <2>6, <2>7
    <3>. SUFFICES a = c + ((k + 1) - lo)
      OBVIOUS
    <3>. HIDE DEF a, b, c
    <3>. QED BY <3>1
  <2>. QED BY <2>6, <2>8
<1>5. hi \in S
  <2>1. hi \in lo .. hi
    OBVIOUS
  <2>. HIDE DEF S
  <2>. QED BY <1>3, <1>4, <2>1, Between
<1>. QED BY <1>5

(* What is written only grows, and stays as it is when it does not.        *)
LEMMA SpliceGrows ==
  ASSUME NEW U, NEW src, NEW ops, Splicing(U, src, ops),
         NEW lo \in Nat, NEW hi \in Nat, lo <= hi, hi <= Len(src)
  PROVE  /\ Len(U[lo]) \in Nat /\ Len(U[hi]) \in Nat /\ Len(U[lo]) <= Len(U[hi])
         /\ Len(U[lo]) = Len(U[hi]) => U[lo] = U[hi]
<1>. DEFINE Keeps(k) == /\ Len(U[lo]) <= Len(U[k])
                        /\ Len(U[lo]) = Len(U[k]) => U[lo] = U[k]
            S == {k \in Nat : Keeps(k)}
<1>1. Len(src) \in Nat
  BY DEF Splicing
<1>2. \A k \in 0 .. Len(src) : U[k] \in Seq(Int) /\ Len(U[k]) \in Nat
  BY DEF Splicing, IsSplice
<1>3. lo \in S
  BY <1>1, <1>2
<1>4. \A k \in lo .. hi - 1 : k \in S => k + 1 \in S
  <2>1. SUFFICES ASSUME NEW k \in lo .. hi - 1, Keeps(k) PROVE Keeps(k + 1)
    OBVIOUS
  <2>2. /\ k \in 0 .. Len(src) - 1 /\ k \in 0 .. Len(src) /\ k + 1 \in 0 .. Len(src)
        /\ lo \in 0 .. Len(src)
    BY <1>1
  <2>3. /\ Len(U[k + 1]) \in Nat /\ Len(U[k]) \in Nat /\ Len(U[lo]) \in Nat
        /\ U[k] \in Seq(Int)
    BY <1>2, <2>2
  <2>4. CASE \A c \in 1 .. Len(ops) : k < ops[c].start_pos \/ ops[c].end_pos <= k
    <3>1. U[k + 1] = ThenByte(U[k], src[k + 1])
      BY <2>2, <2>4, <1>1, SpliceAt
    <3>2. Len(U[k + 1]) = Len(U[k]) + 1
      BY <2>3, <3>1 DEF ThenByte
    <3>. QED BY <2>1, <2>3, <3>2
  <2>5. ASSUME NEW c \in 1 .. Len(ops), ~(k < ops[c].start_pos \/ ops[c].end_pos <= k)
        PROVE  Keeps(k + 1)
    <3>1. ops[c].start_pos \in Nat /\ ops[c].end_pos \in Nat /\ ops[c].newdata \in Seq(Int)
      BY OpFacts DEF Splicing
    <3>2. CASE ops[c].start_pos = k
      <4>1. U[k + 1] = Then(U[k], ops[c].newdata)
        BY <2>2, <3>2, <1>1, SpliceAt
      <4>2. Len(U[k + 1]) = Len(U[k]) + Len(ops[c].newdata) /\ Len(ops[c].newdata) \in Nat
        BY <2>3, <3>1, <4>1 DEF Then
      <4>3. CASE Len(ops[c].newdata) = 0
        <5>1. ops[c].newdata = <<>>
          BY <3>1, <4>3
        <5>2. U[k + 1] = U[k]
          BY <2>3, <4>1, <5>1 DEF Then
        <5>. QED BY <2>1, <5>2
      <4>4. CASE Len(ops[c].newdata) > 0
        <5>1. Len(U[lo]) <= Len(U[k])
          BY <2>1
        <5>2. Len(U[lo]) < Len(U[k + 1])
          <6>. DEFINE a == Len(U[k + 1])
                      b == Len(U[k])
                      l == Len(U[lo])
                      n == Len(ops[c].newdata)
          <6>1. a = b + n /\ a \in Nat /\ b \in Nat /\ l \in Nat /\ n \in Nat /\ n > 0 /\ l <= b
            BY <2>3, <4>2, <4>4, <5>1
          <6>. SUFFICES l < a
            OBVIOUS
          <6>. HIDE DEF a, b, l, n
          <6>. QED BY <6>1
        <5>. QED BY <2>3, <5>2
      <4>5. Len(ops[c].newdata) = 0 \/ Len(ops[c].newdata) > 0
        BY <4>2
      <4>. QED BY <4>3, <4>4, <4>5
    <3>3. CASE ops[c].start_pos # k
      <4>1. ops[c].start_pos < k /\ k < ops[c].end_pos
        BY <2>2, <2>5, <3>1, <3>3
      <4>2. U[k + 1] = U[k]
        BY <2>2, <4>1, <1>1, SpliceAt
      <4>. QED BY <2>1, <4>2
    <3>. QED BY <3>2, <3>3
  <2>. QED BY <2>4, <2>5
<1>5. hi \in S
  <2>1. hi \in lo .. hi
    OBVIOUS
  <2>. HIDE DEF S
  <2>. QED BY <1>3, <1>4, <2>1, Between
<1>. QED BY <1>1, <1>2, <1>5

(* How the length after the first operations is computed.                  *)
Lengths(after, len, ops) ==
  /\ after[0] = len
  /\ \A i \in 1 .. Len(ops) : after[i] = after[i - 1] + Delta(ops[i])
  /\ \A i \in 0 .. Len(ops) : after[i] \in Int

(* It has a value, computed one operation after the other.                 *)
LEMMA NewLenFacts ==
  ASSUME NEW ops \in Seq(OpSet), NEW len \in Nat
  PROVE  \E after : Lengths(after, len, ops) /\ NewLen(len, ops) = after[Len(ops)]
<1>. DEFINE n == Len(ops)
            F == [i \in 1 .. n |-> [s \in Int |-> s + Delta(ops[i])]]
            P(f) == f = [i \in 0 .. n |-> IF i = 0 THEN len ELSE f[i - 1] + Delta(ops[i])]
            after == CHOOSE f : P(f)
<1>1. n \in Nat /\ len \in Int
  OBVIOUS
<1>2. \A i \in 1 .. n : Delta(ops[i]) \in Int
  BY OpFacts DEF Delta
<1>3. PICK f \in [0 .. n -> Int] : Recurs(f, n, len, F)
  <2>1. F \in [1 .. n -> [Int -> Int]]
    BY <1>2
  <2>. HIDE DEF F, n
  <2>. QED BY <1>1, <2>1, Recursion
<1>4. P(f)
  <2>1. ASSUME NEW i \in 0 .. n
        PROVE  f[i] = IF i = 0 THEN len ELSE f[i - 1] + Delta(ops[i])
    <3>1. i # 0 => i \in 1 .. n /\ f[i - 1] \in Int
      OBVIOUS
    <3>. QED BY <1>3, <3>1 DEF Recurs
  <2>. QED BY <2>1
<1>5. P(after)
  <2>. HIDE DEF P
  <2>. QED BY <1>4
<1>6. NewLen(len, ops) = after[n]
  BY DEF NewLen
<1>. HIDE DEF after
<1>7. after[0] = len /\ \A i \in 1 .. n : after[i] = after[i - 1] + Delta(ops[i])
  BY <1>1, <1>5
<1>8. \A i \in 0 .. n : after[i] \in Int
  <2>. DEFINE S == {i \in 0 .. n : after[i] \in Int}
  <2>1. 0 \in S
    BY <1>1, <1>7
  <2>2. \A i \in 0 .. n - 1 : i \in S => i + 1 \in S
    <3>1. SUFFICES ASSUME NEW i \in 0 .. n - 1, after[i] \in Int
                   PROVE  i + 1 \in 0 .. n /\ after[i + 1] \in Int
      OBVIOUS
    <3>2. i + 1 \in 1 .. n /\ after[i + 1] = after[i] + Delta(ops[i + 1])
      BY <1>1, <1>7
    <3>. QED BY <1>2, <3>1, <3>2
  <2>. HIDE DEF S, n
  <2>3. \A i \in 0 .. n : i \in S
    BY <1>1, <2>1, <2>2, UpTo
  <2>. QED BY <2>3 DEF S
<1>. QED BY <1>6, <1>7, <1>8 DEF Lengths

(* The length computed before the loop is that of the spliced payload.     *)
LEMMA NewLenIsSplice ==
  ASSUME NEW U, NEW src, NEW ops, Splicing(U, src, ops)
  PROVE  NewLen(Len(src), ops) = Len(U[Len(src)])
<1>. DEFINE n == Len(ops)
            len == Len(src)
            E(j) == IF j = 0 THEN 0 ELSE ops[j].end_pos
            B(j) == IF j = n THEN len ELSE ops[j + 1].start_pos
<1>1. len \in Nat /\ n \in Nat /\ ops \in Seq(OpSet)
  BY DEF Splicing
<1>2. PICK after : Lengths(after, len, ops) /\ NewLen(len, ops) = after[n]
  BY <1>1, NewLenFacts
<1>3. \A c \in 1 .. n : /\ ops[c].start_pos \in Nat /\ ops[c].end_pos \in Nat
                        /\ ops[c].newdata \in Seq(Int) /\ Len(ops[c].newdata) \in Nat
                        /\ ops[c].start_pos < ops[c].end_pos /\ ops[c].end_pos <= len
  BY <1>1, OpFacts DEF Splicing, Sorted
<1>4. \A b, c \in 1 .. n : b < c => ops[b].end_pos <= ops[c].start_pos
  BY DEF Splicing, Sorted
<1>5. \A k \in 0 .. len : U[k] \in Seq(Int) /\ Len(U[k]) \in Nat
  BY DEF Splicing, IsSplice
<1>6. \A i \in 0 .. n : after[i] \in Int
  BY <1>2 DEF Lengths
<1>7. ASSUME NEW j \in 0 .. n, Len(U[E(j)]) = E(j) + (after[j] - len)
      PROVE  E(j) \in Nat /\ B(j) \in Nat /\ E(j) <= B(j) /\ B(j) <= len
             /\ Len(U[B(j)]) = B(j) + (after[j] - len)
  <2>1. E(j) \in Nat /\ B(j) \in Nat /\ E(j) <= B(j) /\ B(j) <= len
    <3>1. j # 0 => j \in 1 .. n
      OBVIOUS
    <3>2. j # n => j + 1 \in 1 .. n
      BY <1>1
    <3>. QED BY <1>1, <1>3, <1>4, <3>1, <3>2
  <2>2. \A c \in 1 .. n : ops[c].end_pos <= E(j) \/ B(j) <= ops[c].start_pos
    <3>1. SUFFICES ASSUME NEW c \in 1 .. n
                   PROVE  ops[c].end_pos <= E(j) \/ B(j) <= ops[c].start_pos
      OBVIOUS
    <3>2. CASE c <= j
      <4>1. j \in 1 .. n /\ (c < j \/ c = j)
        BY <1>1, <3>2
      <4>. QED BY <1>3, <1>4, <4>1
    <3>3. CASE j < c
      <4>1. j + 1 \in 1 .. n /\ j # n /\ (j + 1 < c \/ j + 1 = c)
        BY <1>1, <3>3
      <4>. QED BY <1>3, <1>4, <4>1
    <3>. QED BY <3>2, <3>3
  <2>. DEFINE lo == E(j)
              hi == B(j)
  <2>. HIDE DEF E, B
  <2>3. Len(U[hi]) = Len(U[lo]) + (hi - lo)
    <3>. HIDE DEF lo, hi
    <3>1. /\ lo \in Nat /\ hi \in Nat /\ lo <= hi /\ hi <= Len(src)
          /\ \A c \in 1 .. Len(ops) : ops[c].end_pos <= lo \/ hi <= ops[c].start_pos
      BY <2>1, <2>2 DEF lo, hi
    <3>. QED BY <3>1, OverBytes
  <2>4. Len(U[hi]) = hi + (after[j] - len)
    <3>. DEFINE a == Len(U[hi])
                b == Len(U[lo])
                d == after[j]
    <3>1. a = b + (hi - lo) /\ b = lo + (d - len) /\ d \in Int /\ lo \in Nat /\ hi \in Nat /\ len \in Nat
      BY <1>1, <1>6, <1>7, <2>1, <2>3
    <3>. SUFFICES a = hi + (d - len)
      OBVIOUS
    <3>. HIDE DEF a, b, d, lo, hi, len
    <3>. QED BY <3>1
  <2>. QED BY <2>1, <2>4
<1>. DEFINE S == {j \in 0 .. n : Len(U[E(j)]) = E(j) + (after[j] - len)}
<1>8. 0 \in S
  <2>1. U[0] = <<>> /\ Len(U[0]) = 0 /\ after[0] = len
    BY <1>2 DEF Splicing, IsSplice, Lengths
  <2>2. E(0) = 0
    OBVIOUS
  <2>3. Len(U[E(0)]) = E(0) + (after[0] - len)
    BY <1>1, <2>1, <2>2
  <2>. HIDE DEF E
  <2>. QED BY <1>1, <2>3
<1>9. \A j \in 0 .. n - 1 : j \in S => j + 1 \in S
  <2>1. SUFFICES ASSUME NEW j \in 0 .. n - 1, Len(U[E(j)]) = E(j) + (after[j] - len)
                 PROVE  j + 1 \in 0 .. n /\ Len(U[E(j + 1)]) = E(j + 1) + (after[j + 1] - len)
    OBVIOUS
  <2>2. j \in 0 .. n /\ j + 1 \in 1 .. n /\ j # n /\ j + 1 # 0 /\ j + 1 \in 0 .. n
    BY <1>1
  <2>. DEFINE c == j + 1
              s == ops[c].start_pos
              e == ops[c].end_pos
              new == ops[c].newdata
  <2>3. Len(U[s]) = s + (after[j] - len)
    BY <1>7, <2>1, <2>2
  <2>4. U[e] = Then(U[s], new)
    <3>. HIDE DEF c
    <3>1. c \in 1 .. Len(ops)
      BY <2>2 DEF c
    <3>. QED BY <3>1, OverOp
  <2>5. Len(U[e]) = Len(U[s]) + Len(new)
    <3>1. s \in 0 .. len
      BY <1>1, <1>3, <2>2
    <3>2. U[s] \in Seq(Int) /\ new \in Seq(Int)
      BY <1>3, <1>5, <2>2, <3>1
    <3>. HIDE DEF s, e, new
    <3>. QED BY <2>4, <3>2 DEF Then
  <2>6. after[c] = after[j] + (Len(new) - (e - s))
    <3>1. after[c] = after[c - 1] + Delta(ops[c]) /\ c - 1 = j
      BY <1>2, <2>2 DEF Lengths
    <3>. QED BY <3>1 DEF Delta
  <2>7. Len(U[e]) = e + (after[c] - len)
    <3>. DEFINE a == Len(U[e])
                b == Len(U[s])
                l == Len(new)
                x == after[j]
                y == after[c]
    <3>1. /\ a = b + l /\ b = s + (x - len) /\ y = x + (l - (e - s))
          /\ s \in Nat /\ e \in Nat /\ l \in Nat /\ x \in Int /\ len \in Nat
      BY <1>1, <1>3, <1>6, <2>2, <2>3, <2>5, <2>6
    <3>. SUFFICES a = e + (y - len)
      OBVIOUS
    <3>. HIDE DEF a, b, l, x, y, s, e, len
    <3>. QED BY <3>1
  <2>8. E(j + 1) = e
    BY <2>2
  <2>. QED BY <2>2, <2>7, <2>8
<1>10. n \in S
  <2>1. n \in 0 .. n
    BY <1>1
  <2>. HIDE DEF S, n
  <2>2. \A j \in 0 .. n : j \in S
    BY <1>1, <1>8, <1>9, UpTo
  <2>. QED BY <2>1, <2>2
<1>11. Len(U[len]) = len + (after[n] - len)
  <2>1. n \in 0 .. n /\ B(n) = len
    BY <1>1
  <2>2. Len(U[E(n)]) = E(n) + (after[n] - len)
    BY <1>10
  <2>3. Len(U[B(n)]) = B(n) + (after[n] - len)
    <3>. HIDE DEF B, E
    <3>. QED BY <1>7, <2>1, <2>2
  <2>. QED BY <2>1, <2>3
<1>. QED
  <2>1. after[n] \in Int
    BY <1>1, <1>6
  <2>. QED BY <1>1, <1>2, <1>11, <2>1

(* The operations before c have ended at k, the others are yet to begin.   *)
Ahead(ops, c, k) ==
  \A b \in 1 .. Len(ops) :
    (b < c => ops[b].end_pos <= k) /\ (c <= b => k <= ops[b].start_pos)

Uncovered(ops, k) ==
  \A b \in 1 .. Len(ops) : k < ops[b].start_pos \/ ops[b].end_pos <= k

(* The loop's variables s when d has been written: d is what becomes of    *)
(* the bytes before s.ps, or of those before an operation and a part of    *)
(* its new data.                                                           *)
Copying(s, d, U, src, ops) ==
  s.ps \in 0 .. Len(src) /\ Ahead(ops, s.cnt, s.ps) /\ d = U[s.ps]

Writing(s, d, U, ops) ==
  d = Then(U[ops[s.cnt].start_pos], SubSeq(ops[s.cnt].newdata, 1, s.ps))

Held(s, d, U, src, ops) ==
  /\ s \in LoopStates(ops)
  /\ s.inside => Writing(s, d, U, ops)
  /\ ~s.inside => Copying(s, d, U, src, ops)

(* The same before a byte is written: one of new data, or one that stays.  *)
Ready(s, d, U, src, ops) ==
  /\ Held(s, d, U, src, ops)
  /\ ~s.inside => s.ps \in 0 .. Len(src) - 1 /\ Uncovered(ops, s.ps)

(* Outside all operations, the byte itself.                                *)
LEMMA SpliceByte ==
  ASSUME NEW U, NEW src, NEW ops, Splicing(U, src, ops), NEW k \in 0 .. Len(src) - 1,
         Uncovered(ops, k)
  PROVE  U[k + 1] = ThenByte(U[k], src[k + 1])
<1>1. (\A c \in 1 .. Len(ops) : k < ops[c].start_pos \/ ops[c].end_pos <= k)
        => U[k + 1] = ThenByte(U[k], src[k + 1])
  BY DEF Splicing, IsSplice
<1>2. \A c \in 1 .. Len(ops) : k < ops[c].start_pos \/ ops[c].end_pos <= k
  BY DEF Uncovered
<1>. QED BY <1>1, <1>2

(* Where an operation ends, the next is ahead.                             *)
LEMMA AheadEnd ==
  ASSUME NEW ops \in Seq(OpSet), NEW len, Sorted(ops, len), NEW c \in 1 .. Len(ops)
  PROVE  Ahead(ops, c + 1, ops[c].end_pos)
<1>. SUFFICES ASSUME NEW b \in 1 .. Len(ops)
              PROVE  /\ b < c + 1 => ops[b].end_pos <= ops[c].end_pos
                     /\ c + 1 <= b => ops[c].end_pos <= ops[b].start_pos
  BY DEF Ahead
<1>1. /\ ops[b].start_pos \in Nat /\ ops[b].end_pos \in Nat
      /\ ops[c].start_pos \in Nat /\ ops[c].end_pos \in Nat
  BY OpFacts
<1>2. ops[c].start_pos < ops[c].end_pos
  BY DEF Sorted
<1>3. b < c => ops[b].end_pos <= ops[c].start_pos
  BY DEF Sorted
<1>4. c < b => ops[c].end_pos <= ops[b].start_pos
  BY DEF Sorted
<1>5. b \in Nat /\ c \in Nat
  OBVIOUS
<1>. QED BY <1>1, <1>2, <1>3, <1>4, <1>5

(* A byte remains to be written as long as d is not all there is.          *)
LEMMA MoreBytes ==
  ASSUME NEW U, NEW src, NEW ops, Splicing(U, src, ops), NEW k \in 0 .. Len(src),
         Len(U[k]) < Len(U[Len(src)])
  PROVE  k \in 0 .. Len(src) - 1
<1>1. Len(src) \in Nat
  BY DEF Splicing
<1>2. Len(U[k]) \in Nat
  BY DEF Splicing, IsSplice
<1>3. k # Len(src)
  BY <1>2
<1>. QED BY <1>1, <1>3

(* Looking for an operation, at a byte that stays or that one begins at.   *)
LEMMA EnterStep ==
  ASSUME NEW U, NEW src, NEW ops, Splicing(U, src, ops), RemovalsApart(ops),
         NEW s, NEW d, Held(s, d, U, src, ops), Len(d) < Len(U[Len(src)])
  PROVE  Ready(EnterOp(s, ops, 0), d, U, src, ops)
<1>. DEFINE t == EnterOp(s, ops, 0)
            c == s.cnt
<1>1. /\ ops \in Seq(OpSet) /\ Len(ops) \in Nat /\ Sorted(ops, Len(src)) /\ Len(src) \in Nat
      /\ DOMAIN ops = 1 .. Len(ops)
  BY DEF Splicing
<1>2. s \in LoopStates(ops) /\ s.cnt \in 1 .. Len(ops) + 1
  BY DEF Held, LoopStates, LoopVars
<1>3. /\ t \in LoopStates(ops)
      /\ Found(s, ops, 0) =>
           /\ c \in 1 .. Len(ops) /\ s.ps = ops[c].start_pos - 0
           /\ ~s.inside
           /\ ops[c].newdata = <<>> =>
                t.cnt = c + 1 /\ t.ps = ops[c].end_pos - 0 /\ ~t.inside
           /\ ops[c].newdata # <<>> => t.cnt = c /\ t.ps = 0 /\ t.inside
      /\ ~Found(s, ops, 0) => t.cnt = c /\ t.ps = s.ps /\ t.inside = s.inside
  <2>1. 0 \in Int
    OBVIOUS
  <2>. QED BY <1>1, <1>2, <2>1, EnterFacts
<1>. HIDE DEF t
<1>4. \A b \in 1 .. Len(ops) : /\ ops[b].start_pos \in Nat /\ ops[b].end_pos \in Nat
                               /\ ops[b].newdata \in Seq(Int)
  BY <1>1, OpFacts
<1>5. \A b \in 1 .. Len(ops) : /\ ops[b].start_pos < ops[b].end_pos /\ ops[b].end_pos <= Len(src)
                               /\ ops[b].start_pos \in 0 .. Len(src)
                               /\ ops[b].end_pos \in 0 .. Len(src)
  <2>1. SUFFICES ASSUME NEW b \in 1 .. Len(ops)
                 PROVE  /\ ops[b].start_pos < ops[b].end_pos /\ ops[b].end_pos <= Len(src)
                        /\ ops[b].start_pos \in 0 .. Len(src)
                        /\ ops[b].end_pos \in 0 .. Len(src)
    OBVIOUS
  <2>2. ops[b].start_pos < ops[b].end_pos /\ ops[b].end_pos <= Len(src)
    BY <1>1 DEF Sorted
  <2>. QED BY <1>1, <1>4, <2>2
<1>6. CASE Found(s, ops, 0)
  <2>1. /\ c \in 1 .. Len(ops) /\ s.ps = ops[c].start_pos /\ ~s.inside
        /\ d = U[ops[c].start_pos]
    BY <1>3, <1>4, <1>6 DEF Held, Copying
  <2>2. CASE ops[c].newdata = <<>>
    <3>1. t.cnt = c + 1 /\ t.ps = ops[c].end_pos /\ ~t.inside
      BY <1>3, <1>4, <1>6, <2>1, <2>2
    <3>2. Ahead(ops, c + 1, ops[c].end_pos)
      BY <1>1, <2>1, AheadEnd
    <3>3. U[ops[c].end_pos] = d
      <4>1. U[ops[c].end_pos] = Then(U[ops[c].start_pos], ops[c].newdata)
        BY <2>1, OverOp
      <4>2. U[ops[c].start_pos] \in Seq(Int)
        <5>1. ops[c].start_pos \in 0 .. Len(src)
          BY <1>1, <1>4, <1>5, <2>1
        <5>. QED BY <5>1 DEF Splicing, IsSplice
      <4>. QED BY <2>1, <2>2, <4>1, <4>2 DEF Then
    <3>4. ops[c].end_pos \in 0 .. Len(src)
      BY <1>1, <1>4, <1>5, <2>1
    <3>5. ops[c].end_pos \in 0 .. Len(src) - 1
      <4>. DEFINE e == ops[c].end_pos
      <4>. HIDE DEF e
      <4>1. e \in 0 .. Len(src) /\ Len(U[e]) < Len(U[Len(src)])
        BY <3>3, <3>4 DEF e
      <4>2. e \in 0 .. Len(src) - 1
        BY <4>1, MoreBytes
      <4>. QED BY <4>2 DEF e
    <3>6. Uncovered(ops, ops[c].end_pos)
      <4>. SUFFICES ASSUME NEW b \in 1 .. Len(ops)
                    PROVE  \/ ops[c].end_pos < ops[b].start_pos
                           \/ ops[b].end_pos <= ops[c].end_pos
        BY DEF Uncovered
      <4>1. ops[b].start_pos # ops[c].end_pos
        BY <1>1, <2>1, <2>2 DEF RemovalsApart
      <4>2. b < c + 1 \/ c + 1 <= b
        BY <2>1
      <4>. QED BY <1>4, <2>1, <3>2, <4>1, <4>2 DEF Ahead
    <3>7. /\ t.ps \in 0 .. Len(src) - 1 /\ Uncovered(ops, t.ps)
          /\ Ahead(ops, t.cnt, t.ps) /\ d = U[t.ps] /\ t.ps \in 0 .. Len(src)
      BY <3>1, <3>2, <3>3, <3>4, <3>5, <3>6
    <3>8. Copying(t, d, U, src, ops)
      BY <3>7 DEF Copying
    <3>9. Held(t, d, U, src, ops)
      BY <1>3, <3>1, <3>8 DEF Held
    <3>. QED BY <3>1, <3>7, <3>9 DEF Ready, t
  <2>3. CASE ops[c].newdata # <<>>
    <3>1. t.cnt = c /\ t.ps = 0 /\ t.inside
      BY <1>3, <1>6, <2>3
    <3>2. d = Then(U[ops[c].start_pos], SubSeq(ops[c].newdata, 1, 0))
      <4>1. U[ops[c].start_pos] \in Seq(Int)
        <5>1. ops[c].start_pos \in 0 .. Len(src)
          BY <1>1, <1>4, <1>5, <2>1
        <5>. QED BY <5>1 DEF Splicing, IsSplice
      <4>2. SubSeq(ops[c].newdata, 1, 0) = <<>>
        BY <1>4, <2>1
      <4>. QED BY <2>1, <4>1, <4>2 DEF Then
    <3>3. Writing(t, d, U, ops)
      BY <3>1, <3>2 DEF Writing
    <3>4. Held(t, d, U, src, ops)
      BY <1>3, <3>1, <3>3 DEF Held
    <3>. QED BY <3>1, <3>4 DEF Ready, t
  <2>. QED BY <2>2, <2>3
<1>7. CASE ~Found(s, ops, 0)
  <2>1. t.cnt = c /\ t.ps = s.ps /\ t.inside = s.inside
    BY <1>3, <1>7
  <2>2. Held(t, d, U, src, ops)
    BY <1>3, <2>1 DEF Held, Copying, Writing
  <2>3. CASE ~s.inside
    <3>1. s.ps \in 0 .. Len(src) /\ Ahead(ops, c, s.ps) /\ d = U[s.ps]
      BY <2>3 DEF Held, Copying
    <3>2. s.ps \in 0 .. Len(src) - 1
      BY <3>1, MoreBytes
    <3>3. Uncovered(ops, s.ps)
      <4>. SUFFICES ASSUME NEW b \in 1 .. Len(ops)
                    PROVE  s.ps < ops[b].start_pos \/ ops[b].end_pos <= s.ps
        BY DEF Uncovered
      <4>1. b < c \/ c = b \/ c < b
        BY <1>2
      <4>2. CASE b < c
        BY <3>1, <4>2 DEF Ahead
      <4>3. CASE c = b
        <5>1. s.ps # ops[c].start_pos - 0
          BY <1>2, <1>7, <2>3, <4>3 DEF Found
        <5>. QED BY <1>2, <1>4, <3>1, <4>3, <5>1 DEF Ahead
      <4>4. CASE c < b
        <5>1. c \in 1 .. Len(ops)
          BY <1>1, <1>2, <4>4
        <5>2. ops[c].end_pos <= ops[b].start_pos
          BY <1>1, <4>4, <5>1 DEF Sorted
        <5>3. s.ps <= ops[c].start_pos
          BY <1>2, <3>1, <5>1 DEF Ahead
        <5>. QED BY <1>4, <1>5, <3>1, <5>1, <5>2, <5>3
      <4>. QED BY <4>1, <4>2, <4>3, <4>4
    <3>. QED BY <2>1, <2>2, <3>2, <3>3 DEF Ready, t
  <2>4. CASE s.inside
    BY <2>1, <2>2, <2>4 DEF Ready, t
  <2>. QED BY <2>3, <2>4
<1>. QED BY <1>6, <1>7 DEF t

(* Writing a byte.                                                         *)
LEMMA CopyStep ==
  ASSUME NEW U, NEW src, NEW ops, Splicing(U, src, ops),
         NEW s, NEW d, Ready(s, d, U, src, ops)
  PROVE  LET t == CopyByte(s, src, ops, 0)
         IN  Held(t, ThenByte(d, t.byte), U, src, ops)
<1>. DEFINE t == CopyByte(s, src, ops, 0)
            c == s.cnt
            new == ops[c].newdata
<1>1. /\ src \in Seq(Int) /\ ops \in Seq(OpSet) /\ Len(ops) \in Nat
      /\ Sorted(ops, Len(src)) /\ Len(src) \in Nat /\ DOMAIN src = 1 .. Len(src)
  BY DEF Splicing
<1>2. s \in LoopStates(ops) /\ Held(s, d, U, src, ops)
  BY DEF Ready, Held
<1>3. /\ t \in LoopStates(ops)
      /\ s.inside => /\ c \in 1 .. Len(ops) /\ s.ps + 1 \in 1 .. Len(new)
                     /\ t.byte = new[s.ps + 1]
                     /\ s.ps + 1 = Len(new) =>
                          t.cnt = c + 1 /\ t.ps = ops[c].end_pos - 0 /\ ~t.inside
                     /\ s.ps + 1 # Len(new) =>
                          t.cnt = c /\ t.ps = s.ps + 1 /\ t.inside
      /\ ~s.inside => /\ t.byte = Byte(src, s.ps) /\ t.cnt = c
                      /\ t.ps = s.ps + 1 /\ ~t.inside
  <2>1. 0 \in Int
    OBVIOUS
  <2>. QED BY <1>1, <1>2, <2>1, CopyFacts
<1>. HIDE DEF t
<1>4. \A b \in 1 .. Len(ops) : /\ ops[b].start_pos \in Nat /\ ops[b].end_pos \in Nat
                               /\ ops[b].newdata \in Seq(Int)
  BY <1>1, OpFacts
<1>5. \A b \in 1 .. Len(ops) : /\ ops[b].start_pos < ops[b].end_pos /\ ops[b].end_pos <= Len(src)
                               /\ ops[b].start_pos \in 0 .. Len(src)
                               /\ ops[b].end_pos \in 0 .. Len(src)
  <2>1. SUFFICES ASSUME NEW b \in 1 .. Len(ops)
                 PROVE  /\ ops[b].start_pos < ops[b].end_pos /\ ops[b].end_pos <= Len(src)
                        /\ ops[b].start_pos \in 0 .. Len(src)
                        /\ ops[b].end_pos \in 0 .. Len(src)
    OBVIOUS
  <2>2. ops[b].start_pos < ops[b].end_pos /\ ops[b].end_pos <= Len(src)
    BY <1>1 DEF Sorted
  <2>. QED BY <1>1, <1>4, <2>2
<1>6. CASE s.inside
  <2>1. c \in 1 .. Len(ops) /\ s.ps + 1 \in 1 .. Len(new) /\ t.byte = new[s.ps + 1]
    BY <1>3, <1>6
  <2>2. d = Then(U[ops[c].start_pos], SubSeq(new, 1, s.ps))
    BY <1>2, <1>6 DEF Held, Writing
  <2>3. U[ops[c].start_pos] \in Seq(Int) /\ new \in Seq(Int)
    <3>1. ops[c].start_pos \in 0 .. Len(src)
      BY <1>1, <1>4, <1>5, <2>1
    <3>. QED BY <1>4, <2>1, <3>1 DEF Splicing, IsSplice
  <2>4. ThenByte(d, t.byte) = Then(U[ops[c].start_pos], SubSeq(new, 1, s.ps + 1))
    <3>. DEFINE u == U[ops[c].start_pos]
                n == s.ps + 1
    <3>1. u \in Seq(Int) /\ new \in Seq(Int) /\ n \in 1 .. Len(new) /\ s.ps = n - 1
      <4>1. s.ps \in Int
        BY <1>2 DEF LoopStates, LoopVars
      <4>. QED BY <2>1, <2>3, <4>1
    <3>. SUFFICES Append(u \o SubSeq(new, 1, n - 1), new[n]) = u \o SubSeq(new, 1, n)
      BY <2>1, <2>2, <3>1 DEF Then, ThenByte
    <3>. HIDE DEF u, new, n
    <3>2. Append(SubSeq(new, 1, n - 1), new[n]) = SubSeq(new, 1, n)
      BY <3>1
    <3>3. SubSeq(new, 1, n - 1) \in Seq(Int) /\ new[n] \in Int
      BY <3>1
    <3>4. Append(u \o SubSeq(new, 1, n - 1), new[n]) = u \o Append(SubSeq(new, 1, n - 1), new[n])
      <4>. DEFINE w == SubSeq(new, 1, n - 1)
                  x == new[n]
      <4>1. w \in Seq(Int) /\ x \in Int /\ u \in Seq(Int)
        BY <3>1, <3>3
      <4>. HIDE DEF w, x
      <4>. DEFINE y == <<x>>
      <4>2. y \in Seq(Int) /\ u \o w \in Seq(Int)
        BY <4>1
      <4>3. Append(u \o w, x) = (u \o w) \o y
        BY <4>1, <4>2, AppendIsConcat
      <4>4. Append(w, x) = w \o y
        BY <4>1, AppendIsConcat
      <4>. HIDE DEF y
      <4>5. (u \o w) \o y = u \o (w \o y)
        BY <4>1, <4>2, ConcatAssociative
      <4>. QED BY <4>3, <4>4, <4>5 DEF w, x
    <3>. QED BY <3>2, <3>4
  <2>5. CASE s.ps + 1 = Len(new)
    <3>1. t.cnt = c + 1 /\ t.ps = ops[c].end_pos /\ ~t.inside
      BY <1>3, <1>4, <1>6, <2>1, <2>5
    <3>2. Ahead(ops, c + 1, ops[c].end_pos)
      BY <1>1, <2>1, AheadEnd
    <3>3. SubSeq(new, 1, s.ps + 1) = new
      BY <2>3, <2>5
    <3>4. U[ops[c].end_pos] = ThenByte(d, t.byte)
      <4>1. U[ops[c].end_pos] = Then(U[ops[c].start_pos], new)
        BY <2>1, OverOp
      <4>. QED BY <2>4, <3>3, <4>1
    <3>5. ops[c].end_pos \in 0 .. Len(src)
      BY <1>1, <1>4, <1>5, <2>1
    <3>6. Copying(t, ThenByte(d, t.byte), U, src, ops)
      <4>1. /\ t.ps \in 0 .. Len(src) /\ Ahead(ops, t.cnt, t.ps)
            /\ ThenByte(d, t.byte) = U[t.ps]
        BY <3>1, <3>2, <3>4, <3>5
      <4>. QED BY <4>1 DEF Copying
    <3>. QED BY <1>3, <3>1, <3>6 DEF Held, t
  <2>6. CASE s.ps + 1 # Len(new)
    <3>1. t.cnt = c /\ t.ps = s.ps + 1 /\ t.inside
      BY <1>3, <1>6, <2>6
    <3>2. Writing(t, ThenByte(d, t.byte), U, ops)
      BY <2>4, <3>1 DEF Writing
    <3>. QED BY <1>3, <3>1, <3>2 DEF Held, t
  <2>. QED BY <2>5, <2>6
<1>7. CASE ~s.inside
  <2>1. /\ s.ps \in 0 .. Len(src) - 1 /\ Uncovered(ops, s.ps) /\ Ahead(ops, c, s.ps)
        /\ d = U[s.ps]
    BY <1>7 DEF Ready, Held, Copying
  <2>2. t.byte = src[s.ps + 1] /\ t.cnt = c /\ t.ps = s.ps + 1 /\ ~t.inside
    BY <1>1, <1>3, <1>7, <2>1 DEF Byte
  <2>3. U[s.ps + 1] = ThenByte(d, t.byte)
    <3>. DEFINE k == s.ps
    <3>. HIDE DEF k
    <3>1. k \in 0 .. Len(src) - 1 /\ Uncovered(ops, k)
      BY <2>1 DEF k
    <3>2. U[k + 1] = ThenByte(U[k], src[k + 1])
      BY <3>1, SpliceByte
    <3>. QED BY <2>1, <2>2, <3>2 DEF k
  <2>4. s.ps + 1 \in 0 .. Len(src)
    BY <1>1, <2>1
  <2>5. Ahead(ops, c, s.ps + 1)
    <3>. SUFFICES ASSUME NEW b \in 1 .. Len(ops)
                  PROVE  /\ b < c => ops[b].end_pos <= s.ps + 1
                         /\ c <= b => s.ps + 1 <= ops[b].start_pos
      BY DEF Ahead
    <3>1. b < c => ops[b].end_pos <= s.ps
      BY <2>1 DEF Ahead
    <3>2. c <= b => s.ps <= ops[b].start_pos
      BY <2>1 DEF Ahead
    <3>3. s.ps < ops[b].start_pos \/ ops[b].end_pos <= s.ps
      BY <2>1 DEF Uncovered
    <3>. QED BY <1>4, <1>5, <2>1, <3>1, <3>2, <3>3
  <2>6. Copying(t, ThenByte(d, t.byte), U, src, ops)
    BY <2>2, <2>3, <2>4, <2>5 DEF Copying
  <2>. QED BY <1>3, <2>2, <2>6 DEF Held, t
<1>. QED BY <1>6, <1>7 DEF t

(* What the loop has written after n iterations.                           *)
Bytes(loop, n) == [k \in 1 .. n |-> loop[k].byte]

(* The loop writes what the operations ask for, and no more.               *)
LEMMA LoopSplices ==
  ASSUME NEW U, NEW src, NEW ops, Splicing(U, src, ops), RemovalsApart(ops),
         NEW len \in Nat, len = Len(U[Len(src)])
  PROVE  Modified(src, ops, 0, len).d = U[Len(src)]
<1>. DEFINE loop == Loop(src, ops, 0, len)
            H(n) == Held(loop[n], Bytes(loop, n), U, src, ops)
            S == {n \in 0 .. len : H(n)}
<1>1. /\ src \in Seq(Int) /\ ops \in Seq(OpSet) /\ Len(ops) \in Nat /\ 0 \in Int
      /\ Sorted(ops, Len(src)) /\ Len(src) \in Nat
  BY DEF Splicing
<1>2. /\ loop[0] = LoopStart
      /\ \A n \in 1 .. len : loop[n] = Iteration(loop[n - 1], src, ops, 0)
      /\ \A n \in 0 .. len : loop[n] \in LoopStates(ops)
  BY <1>1, LoopFacts
<1>3. Modified(src, ops, 0, len).d = Bytes(loop, len)
  BY DEF Modified, Bytes
<1>. HIDE DEF loop
<1>4. \A n \in 0 .. len : Bytes(loop, n) \in Seq(Int) /\ Len(Bytes(loop, n)) = n
  <2>. SUFFICES ASSUME NEW n \in 0 .. len
                PROVE  Bytes(loop, n) \in Seq(Int) /\ Len(Bytes(loop, n)) = n
    OBVIOUS
  <2>1. \A k \in 1 .. n : loop[k].byte \in Int
    <3>1. \A k \in 1 .. n : loop[k] \in LoopStates(ops)
      BY <1>2
    <3>. QED BY <3>1 DEF LoopStates, LoopVars
  <2>2. Bytes(loop, n) \in [1 .. n -> Int]
    BY <2>1 DEF Bytes
  <2>. QED BY <2>2
<1>5. H(0)
  <2>1. loop[0].ps = 0 /\ loop[0].cnt = 1 /\ ~loop[0].inside
    BY <1>2 DEF LoopStart
  <2>2. Bytes(loop, 0) = <<>> /\ U[0] = <<>>
    BY <1>4 DEF Splicing, IsSplice
  <2>3. Ahead(ops, 1, 0)
    <3>1. \A b \in 1 .. Len(ops) : ops[b].start_pos \in Nat
      BY <1>1, OpFacts
    <3>. QED BY <1>1, <3>1 DEF Ahead
  <2>4. Copying(loop[0], Bytes(loop, 0), U, src, ops)
    BY <1>1, <2>1, <2>2, <2>3 DEF Copying
  <2>5. loop[0] \in LoopStates(ops)
    BY <1>2
  <2>. QED BY <2>1, <2>4, <2>5 DEF Held
<1>6. ASSUME NEW n \in 0 .. len - 1, H(n)
      PROVE  H(n + 1)
  <2>. DEFINE s == loop[n]
              d == Bytes(loop, n)
              t == loop[n + 1]
  <2>1. Len(d) < Len(U[Len(src)]) /\ Len(d) = n /\ d \in Seq(Int)
    BY <1>4
  <2>2. t = Iteration(s, src, ops, 0)
    <3>1. n + 1 \in 1 .. len /\ (n + 1) - 1 = n
      OBVIOUS
    <3>. QED BY <1>2, <3>1
  <2>3. Ready(EnterOp(s, ops, 0), d, U, src, ops)
    BY <1>6, <2>1, EnterStep
  <2>4. Held(t, ThenByte(d, t.byte), U, src, ops)
    BY <2>2, <2>3, CopyStep DEF Iteration
  <2>5. ThenByte(d, t.byte) = Bytes(loop, n + 1)
    <3>1. t.byte \in Int
      <4>1. t \in LoopStates(ops)
        BY <1>2
      <4>. QED BY <4>1 DEF LoopStates, LoopVars
    <3>2. Bytes(loop, n + 1) \in Seq(Int) /\ Len(Bytes(loop, n + 1)) = n + 1
      BY <1>4
    <3>3. \A i \in 1 .. n + 1 : Bytes(loop, n + 1)[i] = ThenByte(d, t.byte)[i]
      <4>. SUFFICES ASSUME NEW i \in 1 .. n + 1
                    PROVE  Bytes(loop, n + 1)[i] = ThenByte(d, t.byte)[i]
        OBVIOUS
      <4>1. Bytes(loop, n + 1)[i] = loop[i].byte
        BY DEF Bytes
      <4>2. CASE i \in 1 .. n
        <5>1. d[i] = loop[i].byte
          BY <4>2 DEF Bytes
        <5>2. ThenByte(d, t.byte)[i] = d[i]
          <6>. HIDE DEF d, t
          <6>. QED BY <2>1, <3>1, <4>2 DEF ThenByte
        <5>. QED BY <4>1, <5>1, <5>2
      <4>3. CASE i = n + 1
        <5>1. ThenByte(d, t.byte)[n + 1] = t.byte
          <6>. HIDE DEF d, t
          <6>. QED BY <2>1, <3>1 DEF ThenByte
        <5>. QED BY <4>1, <4>3, <5>1
      <4>. QED BY <4>2, <4>3
    <3>4. ThenByte(d, t.byte) \in Seq(Int) /\ Len(ThenByte(d, t.byte)) = n + 1
      <4>. HIDE DEF d, t
      <4>. QED BY <2>1, <3>1 DEF ThenByte
    <3>. DEFINE a == Bytes(loop, n + 1)
                b == ThenByte(d, t.byte)
    <3>. HIDE DEF a, b
    <3>5. /\ a \in Seq(Int) /\ b \in Seq(Int) /\ Len(a) = Len(b)
          /\ \A i \in 1 .. Len(a) : a[i] = b[i]
      BY <3>2, <3>3, <3>4 DEF a, b
    <3>6. a = b
      BY <3>5, SeqEqual
    <3>. QED BY <3>6 DEF a, b
  <2>. QED BY <2>4, <2>5
<1>7. H(len)
  <2>1. 0 \in S /\ len \in 0 .. len
    BY <1>5
  <2>2. \A n \in 0 .. len - 1 : n \in S => n + 1 \in S
    <3>1. SUFFICES ASSUME NEW n \in 0 .. len - 1, H(n)
                   PROVE  n + 1 \in 0 .. len /\ H(n + 1)
      OBVIOUS
    <3>2. H(n + 1)
      BY <1>6, <3>1
    <3>. QED BY <3>2
  <2>. HIDE DEF S
  <2>3. \A n \in 0 .. len : n \in S
    BY <2>1, <2>2, UpTo
  <2>. QED BY <2>1, <2>3 DEF S
<1>. DEFINE s == loop[len]
            d == Bytes(loop, len)
            c == s.cnt
<1>8. Held(s, d, U, src, ops) /\ d \in Seq(Int) /\ Len(d) = len
  BY <1>4, <1>7
<1>. HIDE DEF s, d, c, H, S
<1>9. CASE ~s.inside
  <2>1. s.ps \in 0 .. Len(src) /\ d = U[s.ps]
    BY <1>8, <1>9 DEF Held, Copying
  <2>2. s.ps \in Nat /\ Len(src) \in Nat /\ s.ps <= Len(src) /\ Len(src) <= Len(src)
    BY <1>1, <2>1
  <2>. DEFINE k == s.ps
              l == Len(src)
  <2>3. U[k] = U[l]
    <3>. HIDE DEF k, l
    <3>1. k \in Nat /\ l \in Nat /\ k <= l /\ l <= Len(src) /\ Len(U[k]) = Len(U[l])
      BY <1>8, <2>1, <2>2 DEF k, l
    <3>. QED BY <3>1, SpliceGrows
  <2>. QED BY <1>3, <2>1, <2>3 DEF d
<1>10. CASE s.inside
  <2>. DEFINE new == ops[c].newdata
              lo == ops[c].start_pos
              hi == ops[c].end_pos
  <2>1. c \in 1 .. Len(ops) /\ s.ps \in 0 .. Len(new) - 1
    BY <1>1, <1>8, <1>10 DEF Held, LoopStates, LoopVars, c
  <2>2. d = Then(U[lo], SubSeq(new, 1, s.ps))
    BY <1>8, <1>10 DEF Held, Writing, c
  <2>3. U[hi] = Then(U[lo], new)
    BY <2>1, OverOp
  <2>4. lo \in Nat /\ hi \in Nat /\ lo < hi /\ hi <= Len(src) /\ new \in Seq(Int)
    BY <1>1, <2>1, OpFacts DEF Sorted
  <2>. HIDE DEF new, lo, hi
  <2>5. U[lo] \in Seq(Int)
    <3>1. lo \in 0 .. Len(src)
      BY <1>1, <2>4
    <3>. QED BY <3>1 DEF Splicing, IsSplice
  <2>6. Len(d) = Len(U[lo]) + s.ps
    <3>1. SubSeq(new, 1, s.ps) \in Seq(Int) /\ Len(SubSeq(new, 1, s.ps)) = s.ps
      BY <2>1, <2>4
    <3>. QED BY <2>2, <2>5, <3>1 DEF Then
  <2>7. Len(U[hi]) = Len(U[lo]) + Len(new)
    BY <2>3, <2>4, <2>5 DEF Then
  <2>8. Len(d) < Len(U[hi])
    BY <2>1, <2>4, <2>5, <2>6, <2>7
  <2>9. Len(U[hi]) \in Nat /\ Len(U[hi]) <= Len(U[Len(src)])
    <3>. DEFINE l == Len(src)
    <3>1. hi \in Nat /\ l \in Nat /\ hi <= l /\ l <= Len(src)
      BY <1>1, <2>4
    <3>. HIDE DEF l
    <3>2. Len(U[hi]) \in Nat /\ Len(U[hi]) <= Len(U[l])
      BY <3>1, SpliceGrows
    <3>. QED BY <3>2 DEF l
  <2>. QED BY <1>8, <2>8, <2>9
<1>. QED BY <1>9, <1>10

(* Any order of a list of operations without overlap that std::sort may    *)
(* leave is theirs in the packet.                                          *)
LEMMA SortFacts ==
  ASSUME NEW q \in Seq(OpSet), NEW len \in Nat, NEW ops \in SortOps(q),
         \A i \in DOMAIN q : q[i].start_pos < q[i].end_pos /\ q[i].end_pos <= len
  PROVE  /\ ops \in Seq(OpSet) /\ Len(ops) = Len(q) /\ Range(ops) = Range(q)
         /\ Disjoint(q) => Sorted(ops, len)
         /\ RemovalsApart(q) => RemovalsApart(ops)
<1>. DEFINE n == Len(q)
<1>1. n \in Nat /\ DOMAIN q = 1 .. n
  OBVIOUS
<1>2. PICK p \in Bijection(DOMAIN q, DOMAIN q) :
        /\ \A i, j \in DOMAIN q : i < j => q[p[i]].start_pos <= q[p[j]].start_pos
        /\ ops = [i \in DOMAIN q |-> q[p[i]]]
  BY DEF SortOps
<1>3. /\ \A i \in 1 .. n : p[i] \in 1 .. n
      /\ \A i, j \in 1 .. n : p[i] = p[j] => i = j
      /\ \A j \in 1 .. n : \E i \in 1 .. n : p[i] = j
  BY <1>1, <1>2 DEF Bijection, Injection, Surjection, IsInjective
<1>4. DOMAIN ops = 1 .. n /\ \A i \in 1 .. n : ops[i] = q[p[i]] /\ ops[i] \in OpSet
  BY <1>1, <1>2, <1>3
<1>5. ops \in Seq(OpSet) /\ Len(ops) = n
  <2>1. ops \in [1 .. n -> OpSet]
    BY <1>1, <1>2, <1>4
  <2>. QED BY <1>1, <2>1
<1>6. Range(ops) = Range(q)
  <2>1. Range(ops) = {ops[i] : i \in 1 .. n} /\ Range(q) = {q[i] : i \in 1 .. n}
    BY <1>1, <1>4 DEF Range
  <2>2. ASSUME NEW i \in 1 .. n PROVE ops[i] \in {q[j] : j \in 1 .. n}
    BY <1>3, <1>4
  <2>3. ASSUME NEW j \in 1 .. n PROVE q[j] \in {ops[i] : i \in 1 .. n}
    <3>1. PICK i \in 1 .. n : p[i] = j
      BY <1>3
    <3>2. q[j] = ops[i]
      BY <1>4, <3>1
    <3>. QED BY <3>2
  <2>. QED BY <2>1, <2>2, <2>3
<1>7. \A i \in 1 .. n : q[i].start_pos \in Nat /\ q[i].end_pos \in Nat
  BY OpFacts
<1>8. ASSUME Disjoint(q) PROVE Sorted(ops, len)
  <2>1. ASSUME NEW c \in 1 .. n
        PROVE  ops[c].start_pos < ops[c].end_pos /\ ops[c].end_pos <= len
    BY <1>1, <1>3, <1>4, <2>1
  <2>2. ASSUME NEW b \in 1 .. n, NEW c \in 1 .. n, b < c
        PROVE  ops[b].end_pos <= ops[c].start_pos
    <3>. DEFINE i == p[b]
                j == p[c]
    <3>1. i \in 1 .. n /\ j \in 1 .. n /\ i # j /\ ops[b] = q[i] /\ ops[c] = q[j]
      BY <1>1, <1>3, <1>4, <2>2
    <3>2. q[i].start_pos <= q[j].start_pos
      BY <1>1, <1>2, <2>2
    <3>. HIDE DEF i, j
    <3>3. q[i].end_pos <= q[j].start_pos \/ q[j].end_pos <= q[i].start_pos
      BY <1>1, <1>8, <3>1 DEF Disjoint
    <3>4. q[j].start_pos < q[j].end_pos
      BY <1>1, <3>1
    <3>5. ~(q[j].end_pos <= q[i].start_pos)
      BY <1>7, <3>1, <3>2, <3>4
    <3>. QED BY <3>1, <3>3, <3>5
  <2>. QED BY <1>5, <2>1, <2>2 DEF Sorted
<1>9. ASSUME RemovalsApart(q) PROVE RemovalsApart(ops)
  <2>. SUFFICES ASSUME NEW b \in 1 .. n, NEW c \in 1 .. n, ops[b].newdata = <<>>
                PROVE  ops[c].start_pos # ops[b].end_pos
    BY <1>4 DEF RemovalsApart
  <2>1. p[b] \in DOMAIN q /\ p[c] \in DOMAIN q /\ ops[b] = q[p[b]] /\ ops[c] = q[p[c]]
    BY <1>1, <1>3, <1>4
  <2>. QED BY <1>9, <2>1 DEF RemovalsApart
<1>. QED BY <1>5, <1>6, <1>8, <1>9

(* What the operations ask for, from left to right.                        *)
LEMMA SpliceFacts ==
  ASSUME NEW src \in Seq(Int), NEW q, NEW ops \in Seq(OpSet),
         Range(ops) = Range(q), Sorted(ops, Len(src))
  PROVE  \E U : Splicing(U, src, ops) /\ Splice(src, q) = U[Len(src)]
<1>. DEFINE n == Len(src)
            At(k) == IF Covering(q, k) = {} THEN <<src[k + 1]>>
                     ELSE LET o == CHOOSE o \in Covering(q, k) : TRUE
                          IN  IF o.start_pos = k THEN o.newdata ELSE <<>>
            F == [i \in 1 .. n |-> [s \in Seq(Int) |-> s \o At(i - 1)]]
            P(f) == f = [i \in 0 .. n |-> IF i = 0 THEN <<>> ELSE f[i - 1] \o At(i - 1)]
            U == CHOOSE f : P(f)
<1>1. n \in Nat /\ DOMAIN ops = 1 .. Len(ops) /\ Len(ops) \in Nat /\ <<>> \in Seq(Int)
  OBVIOUS
<1>2. \A k \in Int : Covering(q, k) = {o \in {ops[b] : b \in 1 .. Len(ops)} :
                                           o.start_pos <= k /\ k < o.end_pos}
  BY <1>1 DEF Covering, Range
<1>3. \A b \in 1 .. Len(ops) : /\ ops[b].start_pos \in Nat /\ ops[b].end_pos \in Nat
                               /\ ops[b].newdata \in Seq(Int)
                               /\ ops[b].start_pos < ops[b].end_pos
  BY OpFacts DEF Sorted
<1>4. ASSUME NEW k \in 0 .. n - 1
      PROVE  /\ At(k) \in Seq(Int)
             /\ Covering(q, k) = {} => At(k) = <<src[k + 1]>>
             /\ \A b \in 1 .. Len(ops) : ops[b].start_pos <= k /\ k < ops[b].end_pos =>
                  /\ Covering(q, k) # {}
                  /\ At(k) = IF ops[b].start_pos = k THEN ops[b].newdata ELSE <<>>
  <2>1. CASE Covering(q, k) = {}
    <3>1. At(k) = <<src[k + 1]>>
      BY <2>1
    <3>2. src[k + 1] \in Int
      BY <1>1
    <3>3. \A b \in 1 .. Len(ops) : ~(ops[b].start_pos <= k /\ k < ops[b].end_pos)
      BY <1>2, <2>1
    <3>. HIDE DEF At
    <3>. QED BY <2>1, <3>1, <3>2, <3>3
  <2>2. CASE Covering(q, k) # {}
    <3>. DEFINE o == CHOOSE o \in Covering(q, k) : TRUE
    <3>1. o \in Covering(q, k)
      BY <2>2
    <3>2. At(k) = IF o.start_pos = k THEN o.newdata ELSE <<>>
      BY <2>2
    <3>. HIDE DEF o, At
    <3>3. PICK c \in 1 .. Len(ops) : o = ops[c] /\ ops[c].start_pos <= k /\ k < ops[c].end_pos
      BY <1>2, <3>1
    <3>4. \A b \in 1 .. Len(ops) : ops[b].start_pos <= k /\ k < ops[b].end_pos => b = c
      <4>. SUFFICES ASSUME NEW b \in 1 .. Len(ops), ops[b].start_pos <= k, k < ops[b].end_pos,
                           b # c
                    PROVE  FALSE
        OBVIOUS
      <4>1. b < c => ops[b].end_pos <= ops[c].start_pos
        BY DEF Sorted
      <4>2. c < b => ops[c].end_pos <= ops[b].start_pos
        BY DEF Sorted
      <4>3. b < c \/ c < b
        OBVIOUS
      <4>4. /\ ops[b].start_pos \in Nat /\ ops[b].end_pos \in Nat
            /\ ops[c].start_pos \in Nat /\ ops[c].end_pos \in Nat
        BY <1>3
      <4>5. CASE b < c
        <5>1. ops[b].end_pos <= ops[c].start_pos /\ ops[c].start_pos <= k /\ k < ops[b].end_pos
          BY <3>3, <4>1, <4>5
        <5>2. k \in Int
          OBVIOUS
        <5>. QED BY <4>4, <5>1, <5>2
      <4>6. CASE c < b
        <5>1. ops[c].end_pos <= ops[b].start_pos /\ ops[b].start_pos <= k /\ k < ops[c].end_pos
          BY <3>3, <4>2, <4>6
        <5>2. k \in Int
          OBVIOUS
        <5>. QED BY <4>4, <5>1, <5>2
      <4>. QED BY <4>3, <4>5, <4>6
    <3>5. At(k) \in Seq(Int)
      BY <1>1, <1>3, <3>2, <3>3
    <3>. QED BY <2>2, <3>2, <3>3, <3>4, <3>5
  <2>. QED BY <2>1, <2>2
<1>5. Splice(src, q) = U[n]
  BY DEF Splice
<1>6. PICK f \in [0 .. n -> Seq(Int)] : Recurs(f, n, <<>>, F)
  <2>1. F \in [1 .. n -> [Seq(Int) -> Seq(Int)]]
    <3>. SUFFICES ASSUME NEW i \in 1 .. n, NEW s \in Seq(Int)
                  PROVE  s \o At(i - 1) \in Seq(Int)
      OBVIOUS
    <3>. HIDE DEF At
    <3>1. At(i - 1) \in Seq(Int)
      <4>1. i - 1 \in 0 .. n - 1
        OBVIOUS
      <4>. QED BY <1>4, <4>1
    <3>. QED BY <3>1
  <2>. HIDE DEF F, n
  <2>. QED BY <1>1, <2>1, Recursion
<1>. HIDE DEF At
<1>7. P(f)
  <2>1. ASSUME NEW i \in 0 .. n
        PROVE  f[i] = IF i = 0 THEN <<>> ELSE f[i - 1] \o At(i - 1)
    <3>1. i # 0 => i \in 1 .. n /\ f[i - 1] \in Seq(Int)
      OBVIOUS
    <3>. QED BY <1>6, <3>1 DEF Recurs
  <2>. QED BY <2>1
<1>8. P(U)
  <2>. HIDE DEF P
  <2>. QED BY <1>7
<1>. HIDE DEF U
<1>9. U[0] = <<>> /\ \A k \in 0 .. n - 1 : U[k + 1] = Then(U[k], At(k))
  <2>1. U[0] = <<>>
    BY <1>1, <1>8
  <2>2. ASSUME NEW k \in 0 .. n - 1 PROVE U[k + 1] = Then(U[k], At(k))
    <3>1. k + 1 \in 0 .. n /\ k + 1 # 0 /\ (k + 1) - 1 = k
      BY <1>1
    <3>. QED BY <1>8, <3>1 DEF Then
  <2>. QED BY <2>1, <2>2
<1>. HIDE DEF U, P
<1>10. \A k \in 0 .. n : U[k] \in Seq(Int)
  <2>. DEFINE S == {k \in 0 .. n : U[k] \in Seq(Int)}
  <2>1. 0 \in S
    <3>1. U[0] = <<>>
      BY <1>9
    <3>2. U[0] \in Seq(Int)
      BY <3>1
    <3>. QED BY <1>1, <3>2
  <2>2. \A k \in 0 .. n - 1 : k \in S => k + 1 \in S
    <3>1. SUFFICES ASSUME NEW k \in 0 .. n - 1, U[k] \in Seq(Int)
                   PROVE  k + 1 \in 0 .. n /\ U[k + 1] \in Seq(Int)
      OBVIOUS
    <3>2. U[k + 1] = Then(U[k], At(k)) /\ At(k) \in Seq(Int)
      BY <1>4, <1>9
    <3>. QED BY <1>1, <3>1, <3>2 DEF Then
  <2>. HIDE DEF S, n
  <2>3. \A k \in 0 .. n : k \in S
    BY <1>1, <2>1, <2>2, UpTo
  <2>. QED BY <2>3 DEF S
<1>11. IsSplice(U, src, ops)
  <2>1. ASSUME NEW k \in 0 .. n - 1, NEW c \in 1 .. Len(ops), ops[c].start_pos = k
        PROVE  U[k + 1] = Then(U[k], ops[c].newdata)
    <3>1. ops[c].start_pos <= k /\ k < ops[c].end_pos
      BY <1>3, <2>1
    <3>2. At(k) = ops[c].newdata
      BY <1>4, <2>1, <3>1
    <3>. QED BY <1>9, <3>2
  <2>2. ASSUME NEW k \in 0 .. n - 1, NEW c \in 1 .. Len(ops),
               ops[c].start_pos < k /\ k < ops[c].end_pos
        PROVE  U[k + 1] = U[k]
    <3>1. ops[c].start_pos <= k /\ k < ops[c].end_pos /\ ops[c].start_pos # k
      BY <1>3, <2>2
    <3>2. At(k) = <<>>
      BY <1>4, <3>1
    <3>3. U[k] \in Seq(Int) /\ U[k + 1] = Then(U[k], At(k))
      <4>. HIDE DEF n
      <4>1. k \in 0 .. n
        BY <1>1
      <4>. QED BY <1>9, <1>10, <4>1
    <3>. QED BY <3>2, <3>3 DEF Then
  <2>3. ASSUME NEW k \in 0 .. n - 1,
               \A c \in 1 .. Len(ops) : k < ops[c].start_pos \/ ops[c].end_pos <= k
        PROVE  U[k + 1] = ThenByte(U[k], src[k + 1])
    <3>1. Covering(q, k) = {}
      <4>1. ASSUME NEW c \in 1 .. Len(ops)
            PROVE  ~(ops[c].start_pos <= k /\ k < ops[c].end_pos)
        <5>1. ops[c].start_pos \in Nat /\ ops[c].end_pos \in Nat
          BY <1>3
        <5>2. k < ops[c].start_pos \/ ops[c].end_pos <= k
          BY <2>3
        <5>. QED BY <5>1, <5>2
      <4>2. k \in Int
        OBVIOUS
      <4>3. Covering(q, k) = {o \in {ops[b] : b \in 1 .. Len(ops)} :
                                o.start_pos <= k /\ k < o.end_pos}
        BY <1>2, <4>2
      <4>. QED BY <4>1, <4>3
    <3>2. At(k) = <<src[k + 1]>> /\ src[k + 1] \in Int
      <4>1. At(k) = <<src[k + 1]>>
        BY <1>4, <3>1
      <4>2. k + 1 \in 1 .. Len(src)
        BY <1>1
      <4>. QED BY <4>1, <4>2
    <3>3. U[k] \in Seq(Int) /\ U[k + 1] = Then(U[k], At(k))
      <4>. HIDE DEF n
      <4>1. k \in 0 .. n
        BY <1>1
      <4>. QED BY <1>9, <1>10, <4>1
    <3>4. U[k] \o <<src[k + 1]>> = Append(U[k], src[k + 1])
      <4>. DEFINE u == U[k]
                  x == src[k + 1]
      <4>1. u \in Seq(Int) /\ x \in Int
        BY <3>2, <3>3
      <4>. HIDE DEF u, x
      <4>2. u \o <<x>> = Append(u, x)
        BY <4>1
      <4>. QED BY <4>2 DEF u, x
    <3>. QED BY <3>2, <3>3, <3>4 DEF Then, ThenByte
  <2>4. \A k \in 0 .. n - 1, c \in 1 .. Len(ops) :
          /\ ops[c].start_pos = k => U[k + 1] = Then(U[k], ops[c].newdata)
          /\ ops[c].start_pos < k /\ k < ops[c].end_pos => U[k + 1] = U[k]
    BY <2>1, <2>2
  <2>5. \A k \in 0 .. n - 1 :
          (\A c \in 1 .. Len(ops) : k < ops[c].start_pos \/ ops[c].end_pos <= k)
            => U[k + 1] = ThenByte(U[k], src[k + 1])
    BY <2>3
  <2>. HIDE DEF P
  <2>. QED BY <1>9, <1>10, <2>4, <2>5 DEF IsSplice
<1>12. Splicing(U, src, ops)
  BY <1>11 DEF Splicing
<1>. QED BY <1>5, <1>12
-----------------------------------------------------------------------------
(* What is in a packet that leaves.                                        *)
EntryOK(e) ==
  /\ e.data \in Seq(Int) /\ e.cut \in Seq(Int)
  /\ e.at = 0 /\ Disjoint(e.payload.ops) /\ RemovalsApart(e.payload.ops)
       => e.data \o e.cut = Splice(Source(e.in, e.payload), e.payload.ops)

(* What comes in is bytes, and operations lie within it.                   *)
LEMMA SourceFacts ==
  ASSUME NEW in \in Int, NEW p \in Payloads
  PROVE  /\ Source(in, p) \in Seq(Int) /\ Len(Source(in, p)) = p.len /\ p.len \in Nat
         /\ p.ops \in Seq(OpSet) /\ DOMAIN p.ops = 1 .. Len(p.ops)
         /\ \A i \in DOMAIN p.ops :
              p.ops[i].start_pos < p.ops[i].end_pos /\ p.ops[i].end_pos <= p.len
<1>1. /\ p.len \in Nat /\ p.ops \in Seq(OpSet)
      /\ \A i \in DOMAIN p.ops :
           p.ops[i].start_pos < p.ops[i].end_pos /\ p.ops[i].end_pos <= p.len
  BY PayloadAssumption DEF OpSet
<1>2. Source(in, p) \in [1 .. p.len -> Int]
  BY <1>1 DEF Source
<1>3. Source(in, p) \in Seq(Int) /\ Len(Source(in, p)) = p.len
  BY <1>1, <1>2
<1>. QED BY <1>1, <1>3

(* A packet without operations is spliced by leaving it alone.             *)
LEMMA NothingToSplice ==
  ASSUME NEW src \in Seq(Int)
  PROVE  Splice(src, <<>>) = src
<1>. DEFINE S == {k \in 0 .. Len(src) : TRUE}
<1>1. <<>> \in Seq(OpSet) /\ Len(<<>>) = 0 /\ Len(src) \in Nat
  OBVIOUS
<1>2. Sorted(<<>>, Len(src))
  BY DEF Sorted
<1>3. PICK U : Splicing(U, src, <<>>) /\ Splice(src, <<>>) = U[Len(src)]
  BY <1>1, <1>2, SpliceFacts
<1>. DEFINE T == {k \in 0 .. Len(src) : U[k] = SubSeq(src, 1, k)}
<1>4. 0 \in T
  <2>1. U[0] = <<>> /\ SubSeq(src, 1, 0) = <<>>
    BY <1>3 DEF Splicing, IsSplice
  <2>2. U[0] = SubSeq(src, 1, 0)
    BY <2>1
  <2>. QED BY <1>1, <2>2
<1>5. \A k \in 0 .. Len(src) - 1 : k \in T => k + 1 \in T
  <2>. SUFFICES ASSUME NEW k \in 0 .. Len(src) - 1, U[k] = SubSeq(src, 1, k)
                PROVE  k + 1 \in 0 .. Len(src) /\ U[k + 1] = SubSeq(src, 1, k + 1)
    OBVIOUS
  <2>1. U[k + 1] = ThenByte(U[k], src[k + 1])
    <3>1. \A c \in 1 .. Len(<<>>) : k < <<>>[c].start_pos \/ <<>>[c].end_pos <= k
      OBVIOUS
    <3>. DEFINE none == <<>>
    <3>2. /\ \A c \in 1 .. Len(none) : k < none[c].start_pos \/ none[c].end_pos <= k
          /\ Splicing(U, src, none)
      BY <1>3, <3>1
    <3>. HIDE DEF none
    <3>3. Uncovered(none, k)
      BY <3>2 DEF Uncovered
    <3>4. U[k + 1] = ThenByte(U[k], src[k + 1])
      BY <3>2, <3>3, SpliceByte
    <3>. QED BY <3>4
  <2>2. Append(SubSeq(src, 1, k), src[k + 1]) = SubSeq(src, 1, k + 1)
    BY <1>1
  <2>. QED BY <1>1, <2>1, <2>2 DEF ThenByte
<1>6. U[Len(src)] = SubSeq(src, 1, Len(src))
  <2>. DEFINE n == Len(src)
  <2>1. n \in Nat /\ n \in 0 .. n /\ \A k \in 0 .. n - 1 : k \in T => k + 1 \in T
    BY <1>1, <1>5
  <2>2. n \in T
    <3>. HIDE DEF T, n
    <3>. QED BY <1>4, <2>1, UpTo
  <2>. QED BY <2>2
<1>. QED BY <1>1, <1>3, <1>6

(* Operations applied in any order the sort may leave.                     *)
LEMMA ModifySplices ==
  ASSUME NEW in \in Int, NEW p \in Payloads, NEW ops \in SortOps(p.ops),
         Disjoint(p.ops), RemovalsApart(p.ops)
  PROVE  LET src == Source(in, p)
         IN  Modified(src, ops, 0, NewLen(p.len, ops)).d = Splice(src, p.ops)
<1>. DEFINE src == Source(in, p)
            q == p.ops
            len == Len(src)
<1>1. /\ src \in Seq(Int) /\ len = p.len /\ len \in Nat /\ q \in Seq(OpSet)
      /\ \A i \in DOMAIN q : q[i].start_pos < q[i].end_pos /\ q[i].end_pos <= len
  BY SourceFacts
<1>. HIDE DEF src
<1>2. /\ ops \in Seq(OpSet) /\ Range(ops) = Range(q) /\ Sorted(ops, len)
      /\ RemovalsApart(ops)
  <2>. HIDE DEF q, len
  <2>1. ops \in SortOps(q) /\ Disjoint(q) /\ RemovalsApart(q)
    BY DEF q
  <2>. QED BY <1>1, <2>1, SortFacts
<1>3. PICK U : Splicing(U, src, ops) /\ Splice(src, q) = U[len]
  <2>. HIDE DEF q
  <2>. QED BY <1>1, <1>2, SpliceFacts
<1>4. NewLen(len, ops) = Len(U[len])
  BY <1>3, NewLenIsSplice
<1>5. U[len] \in Seq(Int) /\ Len(U[len]) \in Nat
  <2>1. len \in 0 .. len
    BY <1>1
  <2>. QED BY <1>3, <2>1 DEF Splicing, IsSplice
<1>6. Modified(src, ops, 0, NewLen(len, ops)).d = U[len]
  BY <1>2, <1>3, <1>4, <1>5, LoopSplices
<1>. QED BY <1>1, <1>3, <1>6 DEF src

(* What the loop writes is bytes.                                          *)
LEMMA ModifiedBytes ==
  ASSUME NEW src \in Seq(Int), NEW ops \in Seq(OpSet), NEW at \in Int, NEW len \in Nat
  PROVE  /\ Modified(src, ops, at, len).d \in Seq(Int)
         /\ Len(Modified(src, ops, at, len).d) = len
<1>. DEFINE loop == Loop(src, ops, at, len)
            d == [k \in 1 .. len |-> loop[k].byte]
<1>1. \A n \in 0 .. len : loop[n] \in LoopStates(ops)
  BY LoopFacts
<1>2. Modified(src, ops, at, len).d = d
  BY DEF Modified
<1>. HIDE DEF loop
<1>3. \A n \in 1 .. len : loop[n].byte \in Int
  BY <1>1 DEF LoopStates, LoopVars
<1>4. d \in [1 .. len -> Int]
  BY <1>3
<1>. HIDE DEF d
<1>. QED BY <1>2, <1>4

(* Whatever is kept, data and trail together are what was written.         *)
LEMMA CutFacts ==
  ASSUME NEW d \in Seq(Int), NEW n \in Nat, n <= Len(d)
  PROVE  /\ SubSeq(d, 1, n) \in Seq(Int) /\ SubSeq(d, n + 1, Len(d)) \in Seq(Int)
         /\ SubSeq(d, 1, n) \o SubSeq(d, n + 1, Len(d)) = d
<1>. DEFINE a == SubSeq(d, 1, n)
            b == SubSeq(d, n + 1, Len(d))
<1>1. a \in Seq(Int) /\ b \in Seq(Int)
  OBVIOUS
<1>2. Len(a) = n /\ Len(b) = Len(d) - n
  OBVIOUS
<1>3. /\ \A i \in 1 .. n : a[i] = d[i]
      /\ \A i \in 1 .. Len(d) - n : b[i] = d[n + i]
  OBVIOUS
<1>4. Len(d) \in Nat
  OBVIOUS
<1>5. a \o b = d
  <2>. DEFINE l == Len(d)
              c == a \o b
  <2>. HIDE DEF a, b, l
  <2>1. /\ c \in Seq(Int) /\ Len(c) = Len(a) + Len(b)
        /\ \A i \in 1 .. Len(a) + Len(b) :
             c[i] = IF i <= Len(a) THEN a[i] ELSE b[i - Len(a)]
    BY <1>1, ConcatProperties
  <2>. HIDE DEF c
  <2>2. Len(c) = l /\ l \in Nat /\ Len(a) = n /\ Len(b) = l - n
    BY <1>2, <1>4, <2>1 DEF l
  <2>3. \A i \in 1 .. l : c[i] = d[i]
    <3>. SUFFICES ASSUME NEW i \in 1 .. l PROVE c[i] = d[i]
      OBVIOUS
    <3>1. c[i] = IF i <= n THEN a[i] ELSE b[i - n]
      BY <2>1, <2>2
    <3>2. CASE i <= n
      <4>1. i \in 1 .. n
        BY <3>2
      <4>. QED BY <1>3, <3>1, <3>2, <4>1
    <3>3. CASE n < i
      <4>1. i - n \in 1 .. l - n /\ n + (i - n) = i /\ ~(i <= n)
        BY <2>2, <3>3
      <4>. QED BY <1>3, <3>1, <4>1 DEF l
    <3>. QED BY <3>2, <3>3
  <2>4. c = d
    <3>1. /\ c \in Seq(Int) /\ d \in Seq(Int) /\ Len(c) = Len(d)
          /\ \A i \in 1 .. Len(c) : c[i] = d[i]
      BY <2>1, <2>2, <2>3 DEF l
    <3>. HIDE DEF a, b, c
    <3>2. DOMAIN c = 1 .. Len(c) /\ DOMAIN d = 1 .. Len(c)
      BY <3>1
    <3>. QED BY <3>1, <3>2
  <2>. QED BY <2>4 DEF c
<1>. QED BY <1>1, <1>5

(* What one packet adds: its bytes.                                        *)
LEMMA ArriveEntry ==
  ASSUME NEW in \in Int, NEW p \in Payloads, offset_c2s \in Int, init_seq \in Int,
         Arrive(in, p)
  PROVE  \E e : out' = Append(out, e) /\ EntryOK(e) /\ e.payload = p
<1>. DEFINE src == Source(in, p)
            at == GetPktOffset(ShiftSeq(in))
<1>1. /\ src \in Seq(Int) /\ Len(src) = p.len /\ p.len \in Nat /\ p.ops \in Seq(OpSet)
      /\ \A i \in DOMAIN p.ops :
           p.ops[i].start_pos < p.ops[i].end_pos /\ p.ops[i].end_pos <= p.len
  BY SourceFacts
<1>2. at \in Int
  BY DEF GetPktOffset, ShiftSeq
<1>3. CASE Pass(in, p)
  <2>. DEFINE e == [in |-> in, payload |-> p, at |-> 0, seq |-> ShiftSeq(in),
                    data |-> src, cut |-> <<>>]
  <2>1. out' = Append(out, e) /\ p.ops = <<>>
    BY <1>3 DEF Pass, Sent
  <2>2. src \o <<>> = Splice(src, p.ops)
    <3>. HIDE DEF src
    <3>. QED BY <1>1, <2>1, NothingToSplice
  <2>. HIDE DEF src
  <2>3. EntryOK(e)
    BY <1>1, <2>2 DEF EntryOK, src
  <2>. QED BY <2>1, <2>3
<1>4. CASE Modify(in, p)
  <2>1. PICK ops \in SortOps(p.ops) :
          LET m == Modified(src, ops, at, NewLen(p.len, ops))
              n == Kept(src, m.d)
          IN  out' = Sent(in, p, at, SubSeq(m.d, 1, n), SubSeq(m.d, n + 1, Len(m.d)))
    BY <1>4 DEF Modify
  <2>. DEFINE d == Modified(src, ops, at, NewLen(p.len, ops)).d
              n == Kept(src, d)
              e == [in |-> in, payload |-> p, at |-> at, seq |-> ShiftSeq(in),
                    data |-> SubSeq(d, 1, n), cut |-> SubSeq(d, n + 1, Len(d))]
  <2>2. out' = Append(out, e)
    BY <2>1 DEF Sent
  <2>3. ops \in Seq(OpSet) /\ NewLen(p.len, ops) \in Nat
    BY <1>1, SortFacts, PayloadAssumption
  <2>4. at = 0 /\ Disjoint(p.ops) /\ RemovalsApart(p.ops) => d = Splice(src, p.ops)
    BY ModifySplices
  <2>. HIDE DEF src, at
  <2>5. d \in Seq(Int) /\ Len(d) \in Nat
    BY <1>1, <1>2, <2>3, ModifiedBytes
  <2>. HIDE DEF d
  <2>6. n \in Nat /\ n <= Len(d)
    BY <1>1, <2>5, FlowAssumption DEF Kept
  <2>. HIDE DEF n
  <2>7. /\ SubSeq(d, 1, n) \in Seq(Int) /\ SubSeq(d, n + 1, Len(d)) \in Seq(Int)
        /\ SubSeq(d, 1, n) \o SubSeq(d, n + 1, Len(d)) = d
    BY <2>5, <2>6, CutFacts
  <2>8. EntryOK(e)
    BY <2>4, <2>7 DEF EntryOK, src
  <2>. QED BY <2>2, <2>8
<1>. QED BY <1>3, <1>4 DEF Arrive
-----------------------------------------------------------------------------
(* What every packet holds, and what init_seq says about them.             *)
EntriesOK ==
  /\ FMTypeOK
  /\ TCP /\ init_seq = NoSeq => offset_c2s = 0
  /\ \A i \in DOMAIN out : EntryOK(out[i])

LEMMA EntriesInit == FMInit => EntriesOK
<1>. SUFFICES ASSUME FMInit PROVE EntriesOK
  OBVIOUS
<1>1. out = <<>> /\ DOMAIN out = {}
  BY DEF FMInit
<1>. QED BY <1>1 DEF FMInit, EntriesOK, FMTypeOK, NoSeq

LEMMA EntriesArrive ==
  ASSUME FMInv, EntriesOK, NEW in \in Nat, NEW p \in Payloads, Arrive(in, p),
         segs' = segs, ack' = ack
  PROVE  EntriesOK'
<1>. DEFINE m == Len(out) + 1
<1>1. /\ init_seq \in Nat \cup {NoSeq} /\ init_seq \in Int /\ offset_c2s \in Int
      /\ IsSeq(out) /\ in \in Int
  BY DEF EntriesOK, FMTypeOK, NoSeq, FMInv, OutOK
<1>2. PICK e : out' = Append(out, e) /\ EntryOK(e) /\ e.payload = p
  BY <1>1, ArriveEntry
<1>3. /\ Len(out) \in Nat /\ DOMAIN out = 1 .. Len(out) /\ DOMAIN out' = 1 .. m
      /\ \A i \in 1 .. Len(out) : out'[i] = out[i]
      /\ out'[m] = e
  BY <1>1, <1>2, AppendFacts
<1>4. m \in DOMAIN out' /\ \A i \in DOMAIN out' : i \in 1 .. Len(out) \/ i = m
  BY <1>3
<1>. HIDE DEF m
<1>5. \A i \in DOMAIN out' : EntryOK(out'[i]) /\ out'[i].payload \in Payloads
  BY <1>2, <1>3, <1>4 DEF EntriesOK, FMTypeOK
<1>6. (\E i \in DOMAIN out' : out'[i].payload.ops # <<>>)
        <=> p.ops # <<>> \/ \E i \in DOMAIN out : out[i].payload.ops # <<>>
  <2>1. \A i \in DOMAIN out : i \in DOMAIN out' /\ out'[i] = out[i]
    BY <1>3, <1>4 DEF m
  <2>. QED BY <1>2, <1>3, <1>4, <2>1
<1>7. init_seq # NoSeq <=> TCP /\ \E i \in DOMAIN out : out[i].payload.ops # <<>>
  BY DEF EntriesOK, FMTypeOK
<1>8. offset_c2s' \in Int
  <2>1. PICK x : Numbers(x, in, p)
    BY <1>1, ArriveNumbers
  <2>2. p.len \in Nat
    BY PayloadAssumption
  <2>. QED BY <1>1, <2>1, <2>2 DEF Numbers
<1>9. CASE Pass(in, p)
  <2>1. p.ops = <<>> /\ init_seq' = init_seq /\ offset_c2s' = offset_c2s
    BY <1>9 DEF Pass
  <2>2. init_seq' # NoSeq <=> TCP /\ \E i \in DOMAIN out' : out'[i].payload.ops # <<>>
    BY <1>6, <1>7, <2>1
  <2>3. FMTypeOK'
    <3>1. /\ ack'.srv \in Nat /\ ack'.cli \in Int
          /\ segs' \in Seq([in : Nat, payload : Payloads])
      BY DEF EntriesOK, FMTypeOK
    <3>. QED BY <1>1, <1>5, <1>8, <2>1, <2>2, <3>1 DEF FMTypeOK, EntryOK
  <2>. QED BY <1>5, <2>1, <2>3 DEF EntriesOK
<1>10. CASE Modify(in, p)
  <2>1. p.ops # <<>> /\ init_seq' = InitSeq(ShiftSeq(in))
    BY <1>10 DEF Modify
  <2>2. /\ TCP => init_seq' \in Nat
        /\ ~TCP => init_seq' = init_seq
    BY <1>1, <2>1 DEF InitSeq, ShiftSeq, EntriesOK, NoSeq
  <2>3. init_seq' # NoSeq <=> TCP /\ \E i \in DOMAIN out' : out'[i].payload.ops # <<>>
    BY <1>6, <1>7, <2>1, <2>2 DEF NoSeq
  <2>4. FMTypeOK'
    <3>1. /\ ack'.srv \in Nat /\ ack'.cli \in Int
          /\ segs' \in Seq([in : Nat, payload : Payloads])
      BY DEF EntriesOK, FMTypeOK
    <3>2. init_seq' \in Nat \cup {NoSeq}
      BY <1>1, <2>2, FlowAssumption
    <3>. QED BY <1>5, <1>8, <2>3, <3>1, <3>2 DEF FMTypeOK, EntryOK
  <2>5. ~(TCP /\ init_seq' = NoSeq)
    BY <2>2 DEF NoSeq
  <2>. QED BY <1>5, <2>4, <2>5 DEF EntriesOK
<1>. QED BY <1>9, <1>10 DEF Arrive

LEMMA EntriesNext == FMInv /\ EntriesOK /\ [FMNext]_fmVars => EntriesOK'
<1>. SUFFICES ASSUME FMInv, EntriesOK, [FMNext]_fmVars PROVE EntriesOK'
  OBVIOUS
<1>1. CASE Produce
  <2>1. segs' \in Seq([in : Nat, payload : Payloads])
    BY <1>1, ProduceTyped DEF FMInv, OutOK
  <2>. QED BY <1>1, <2>1 DEF Produce, EntriesOK, FMTypeOK, EntryOK
<1>2. ASSUME NEW i \in DOMAIN segs, Deliver(i) PROVE EntriesOK'
  <2>1. PICK in \in Nat, p \in Payloads :
          Arrive(in, p) /\ segs' = segs /\ ack' = ack
    BY <1>2, DeliverFacts DEF FMInv
  <2>. QED BY <2>1, EntriesArrive
<1>3. ASSUME NEW i \in DOMAIN out, Acknowledge(i) PROVE EntriesOK'
  <2>1. /\ End(out[i]) >= 0
        /\ ack' = [srv |-> End(out[i]), cli |-> End(out[i]) - offset_c2s]
        /\ UNCHANGED <<init_seq, offset_c2s, segs, out>>
    BY <1>3 DEF Acknowledge, ShiftAck
  <2>2. End(out[i]) \in Int /\ offset_c2s \in Int
    BY EndsAreInts DEF FMInv, OutOK
  <2>3. ack'.srv \in Nat /\ ack'.cli \in Int
    BY <2>1, <2>2
  <2>. QED BY <2>1, <2>3 DEF EntriesOK, FMTypeOK, EntryOK
<1>4. CASE UNCHANGED fmVars
  BY <1>4 DEF fmVars, EntriesOK, FMTypeOK, EntryOK
<1>. QED BY <1>1, <1>2, <1>3, <1>4 DEF FMNext

LEMMA EntriesAlways == FMSpec => []EntriesOK
<1>1. FMInit => FMInv /\ EntriesOK
  BY FMInvInit, EntriesInit
<1>2. (FMInv /\ EntriesOK) /\ [FMNext]_fmVars => (FMInv /\ EntriesOK)'
  BY FMInvNext, EntriesNext
<1>. QED BY <1>1, <1>2, PTL DEF FMSpec

(* For all payloads: init_seq is set exactly when a packet of TCP was      *)
(* modified, and what leaves consists of bytes (flow.cc:85-87).            *)
THEOREM FlowTypes == FMSpec => []FMTypeOK
<1>1. EntriesOK => FMTypeOK
  BY DEF EntriesOK
<1>. QED BY <1>1, EntriesAlways, PTL

(* For all payloads and operations that do not overlap, in any order they  *)
(* were found: a packet whose offset is 0 leaves with each range replaced  *)
(* and nothing else changed, by a loop that writes one byte at a time      *)
(* (flow.cc:96-161).                                                       *)
THEOREM RangesReplaced == FMSpec => []SplicedExactly
<1>1. EntriesOK => SplicedExactly
  BY DEF EntriesOK, EntryOK, SplicedExactly, Replaced
<1>. QED BY <1>1, EntriesAlways, PTL
=============================================================================
