----------------------------- MODULE FlowModify -----------------------------
(***************************************************************************)
(* The payload side of NAT::doApp for one flow, client to server (nat.cc,  *)
(* flow.cc): sequence and acknowledgement numbers are shifted by the       *)
(* flow's offset, the operations of a stateless parser are applied by      *)
(* Flow::modify, and the offset grows by what the packet has grown.  One   *)
(* worker handles the packets of a flow one after the other, so each       *)
(* packet is one step.                                                     *)
(*                                                                         *)
(* Bytes are integers: what the client sends is numbered from 1 on, the    *)
(* bytes of a replacement are negative and Junk is whatever memory held.   *)
(* A sequence number is the number of bytes before it.                     *)
(***************************************************************************)
EXTENDS Integers, Sequences, FiniteSets, Functions

CONSTANTS
  TCP,         \* TRUE for a flow of TCP, FALSE for one of UDP
  MSS,         \* 1400: the length beyond which a payload must not grow
  Payloads,    \* what a packet may hold: [len, ops]
  MaxPkts      \* bound: packets the client makes, packets that arrive

ASSUME FlowAssumption ==
  /\ TCP \in BOOLEAN /\ MSS \in Nat /\ MaxPkts \in Nat

Junk == 0
NoSeq == -1

VARIABLES
  init_seq,    \* Flow::init_seq[SERVER], NoSeq until init_seq_set
  offset_c2s,  \* Flow::offset_c2s
  segs,        \* the client's packets, [in, payload], in order
  out,         \* packets sent to the server, in order
  ack,         \* the last acknowledgement: the server's number, the client's
  wild         \* an element beyond the end of ops was taken for one
fmVars == <<init_seq, offset_c2s, segs, out, ack, wild>>
-----------------------------------------------------------------------------
(* Flow::modify.                                                           *)

(* Variant for the model's validation: the sort forgotten.                *)
Unsorted(ops) == {ops}

(* All results of std::sort, which need not be stable.                     *)
SortOps(ops) ==
  {[i \in DOMAIN ops |-> ops[p[i]]] :
     p \in {q \in Bijection(DOMAIN ops, DOMAIN ops) :
              \A i, j \in DOMAIN ops :
                i < j => ops[q[i]].start_pos <= ops[q[j]].start_pos}}

Byte(src, pos) == IF pos + 1 \in DOMAIN src THEN src[pos + 1] ELSE Junk

Delta(op) == Len(op.newdata) - (op.end_pos - op.start_pos)

(* The length a payload of len bytes has after all operations.             *)
NewLen(len, ops) ==
  LET after[i \in 0 .. Len(ops)] ==
        IF i = 0 THEN len ELSE after[i - 1] + Delta(ops[i])
  IN  after[Len(ops)]

(* The variables of the loop with d[pd], the byte last written.            *)
LoopStart ==
  [byte |-> Junk, ps |-> 0, cnt |-> 1, inside |-> FALSE, past |-> FALSE]

PastOps(s, ops) == ~s.inside /\ s.cnt > Len(ops)

Found(s, ops, at) ==
  ~s.inside /\ s.cnt <= Len(ops) /\ s.ps = ops[s.cnt].start_pos - at

(* Variant: the replaced bytes stay.                                       *)
SkipNothing(s, ops, at) ==
  [s EXCEPT !.inside = FALSE, !.ps = ops[s.cnt].start_pos - at, !.cnt = @ + 1]

(* The next operation, from the end of this one's range.                   *)
Skip(s, ops, at) ==
  [s EXCEPT !.inside = FALSE, !.ps = ops[s.cnt].end_pos - at, !.cnt = @ + 1]

(* The first part of an iteration: an operation begins here.               *)
EnterOp(s, ops, at) ==
  IF Found(s, ops, at)
  THEN IF ops[s.cnt].newdata = <<>> THEN Skip(s, ops, at)
       ELSE [s EXCEPT !.inside = TRUE, !.ps = 0]
  ELSE [s EXCEPT !.past = @ \/ PastOps(s, ops)]

(* The second part: a byte is written.                                     *)
CopyByte(s, src, ops, at) ==
  IF s.inside
  THEN LET new == ops[s.cnt].newdata
           t   == [s EXCEPT !.byte = new[s.ps + 1], !.ps = @ + 1]
       IN  IF t.ps = Len(new) THEN Skip(t, ops, at) ELSE t
  ELSE [s EXCEPT !.byte = Byte(src, s.ps), !.ps = @ + 1]

(* The loop's variables after each iteration.                              *)
Loop(src, ops, at, len) ==
  LET loop[n \in 0 .. len] ==
        IF n = 0 THEN LoopStart
        ELSE CopyByte(EnterOp(loop[n - 1], ops, at), src, ops, at)
  IN  loop

(* What the loop has written, and whether it looked beyond ops.            *)
Modified(src, ops, at, len) ==
  LET loop == Loop(src, ops, at, len)
  IN  [d |-> [k \in 1 .. len |-> loop[k].byte], past |-> loop[len].past]

(* The first packet to be modified counts as offset 0.                     *)
GetPktOffset(seq) == IF ~TCP \/ init_seq = NoSeq THEN 0 ELSE seq - init_seq

(* Variant: each packet is the first.                                      *)
InitSeqForgotten(seq) == NoSeq

InitSeq(seq) == IF TCP /\ init_seq = NoSeq THEN seq ELSE init_seq

(* A payload that outgrew the segment keeps its old length; the rest goes  *)
(* to trail, which is never sent when sm.extra is NONE.                    *)
Kept(src, d) ==
  IF TCP /\ Len(d) > Len(src) /\ Len(src) > MSS THEN Len(src) ELSE Len(d)

(* Variant: what went to trail counts as sent.                             *)
GrowthAll(src, d) == Len(d) - Len(src)

(* What modify returns.                                                    *)
Growth(src, d) == Kept(src, d) - Len(src)
-----------------------------------------------------------------------------
(* Operations lie within their packet, are in the order found, and leave a *)
(* packet of some length.                                                  *)
ASSUME PayloadAssumption ==
  \A p \in Payloads :
    /\ p.len \in Nat \ {0}
    /\ p.ops \in Seq([start_pos : Nat, end_pos : Nat, newdata : Seq(Int)])
    /\ \A i \in DOMAIN p.ops :
         p.ops[i].start_pos < p.ops[i].end_pos /\ p.ops[i].end_pos <= p.len
    /\ \A ops \in SortOps(p.ops) : NewLen(p.len, ops) \in Nat
-----------------------------------------------------------------------------
(* NAT::doApp.                                                             *)

Source(in, p) == [k \in 1 .. p.len |-> in + k]

(* The sequence number as the server sees it.                              *)
ShiftSeq(seq) == IF TCP THEN seq + offset_c2s ELSE seq

(* Variant: acknowledgements pass as they are.                             *)
AckUnshifted(a) == a

(* The acknowledgement number as the client sees it.                       *)
ShiftAck(a) == a - offset_c2s

Sent(in, p, at, data, cut) ==
  Append(out, [in |-> in, payload |-> p, at |-> at, seq |-> ShiftSeq(in),
               data |-> data, cut |-> cut])

(* No operations: only the numbers change.                                 *)
Pass(in, p) ==
  /\ p.ops = <<>>
  /\ out' = Sent(in, p, 0, Source(in, p), <<>>)
  /\ UNCHANGED <<init_seq, offset_c2s, wild>>

(* Flow::modify and addOffset.  When the loop reads ops beyond its end,    *)
(* what it finds there may look like an operation; nothing is claimed of   *)
(* what happens then.                                                      *)
Modify(in, p) ==
  /\ p.ops # <<>>
  /\ \E ops \in SortOps(p.ops) :
       LET src == Source(in, p)
           at  == GetPktOffset(ShiftSeq(in))
           m   == Modified(src, ops, at, NewLen(p.len, ops))
           n   == Kept(src, m.d)
       IN  /\ init_seq' = InitSeq(ShiftSeq(in))
           /\ out' = Sent(in, p, at, SubSeq(m.d, 1, n),
                          SubSeq(m.d, n + 1, Len(m.d)))
           /\ offset_c2s' = offset_c2s + Growth(src, m.d)
           /\ wild' \in {FALSE, m.past}

Arrive(in, p) == Pass(in, p) \/ Modify(in, p)

(* The client makes a packet of what follows the last one.                 *)
NextIn == IF segs = <<>> THEN 0
          ELSE segs[Len(segs)].in + segs[Len(segs)].payload.len

Produce ==
  /\ Len(segs) < MaxPkts
  /\ \E p \in Payloads : segs' = Append(segs, [in |-> NextIn, payload |-> p])
  /\ UNCHANGED <<init_seq, offset_c2s, out, ack, wild>>

(* The network before the gateway: any packet the client has made comes,   *)
(* before or after others, again when it was sent again, or never.         *)
Deliver(i) ==
  /\ Len(out) < MaxPkts
  /\ Arrive(segs[i].in, segs[i].payload)
  /\ UNCHANGED <<segs, ack>>

(* Where a packet ends, for the server and for the client.                 *)
End(e)   == e.seq + Len(e.data)
InEnd(e) == e.in + e.payload.len

(* The server acknowledges any packet before which it misses nothing.      *)
Acknowledge(i) ==
  LET a == End(out[i]) IN
  /\ TCP /\ a >= 0
  /\ \A b \in 0 .. a - 1 :
       \E j \in DOMAIN out : out[j].seq <= b /\ b < End(out[j])
  /\ ack' = [srv |-> a, cli |-> ShiftAck(a)]
  /\ UNCHANGED <<init_seq, offset_c2s, segs, out, wild>>

FMInit ==
  /\ init_seq = NoSeq /\ offset_c2s = 0
  /\ segs = <<>> /\ out = <<>>
  /\ ack = [srv |-> 0, cli |-> 0]
  /\ wild = FALSE

FMNext ==
  /\ ~wild
  /\ \/ Produce
     \/ \E i \in DOMAIN segs : Deliver(i)
     \/ \E i \in DOMAIN out : Acknowledge(i)

FMSpec == FMInit /\ [][FMNext]_fmVars
-----------------------------------------------------------------------------
(* What the operations ask for, byte by byte: where a range begins, its    *)
(* replacement; inside a range, nothing; elsewhere the byte itself.        *)
Covering(ops, k) ==
  {o \in Range(ops) : o.start_pos <= k /\ k < o.end_pos}

Splice(src, ops) ==
  LET At(k) ==
        IF Covering(ops, k) = {} THEN <<src[k + 1]>>
        ELSE LET o == CHOOSE o \in Covering(ops, k) : TRUE
             IN  IF o.start_pos = k THEN o.newdata ELSE <<>>
      upTo[n \in 0 .. Len(src)] ==
        IF n = 0 THEN <<>> ELSE upTo[n - 1] \o At(n - 1)
  IN  upTo[Len(src)]

Replaced(i) ==
  out[i].data \o out[i].cut =
    Splice(Source(out[i].in, out[i].payload), out[i].payload.ops)

Disjoint(ops) ==
  \A i, j \in DOMAIN ops :
    i # j => \/ ops[i].end_pos <= ops[j].start_pos
             \/ ops[j].end_pos <= ops[i].start_pos

(* No operation begins where one that only removes has ended.              *)
RemovalsApart(ops) ==
  \A i, j \in DOMAIN ops :
    ops[i].newdata = <<>> => ops[j].start_pos # ops[i].end_pos

(* The modified packets that moved two packets away from each other: those *)
(* that came between them and, when j came before i, the two themselves.   *)
Meddling(i, j) ==
  {k \in DOMAIN out : /\ out[k].payload.ops # <<>>
                      /\ k \in (i + 1 .. j - 1) \cup (j .. i)}

NoneShrinks == \A i \in DOMAIN out : Len(out[i].data) >= out[i].payload.len
-----------------------------------------------------------------------------
(* Types; init_seq is set exactly when a packet of TCP was modified        *)
(* (flow.cc:85-87).                                                        *)
FMTypeOK ==
  /\ init_seq \in Nat \cup {NoSeq} /\ offset_c2s \in Int
  /\ segs \in Seq([in : Nat, payload : Payloads])
  /\ \A i \in DOMAIN out :
       /\ out[i].payload \in Payloads
       /\ out[i].data \in Seq(Int) /\ out[i].cut \in Seq(Int)
  /\ ack.srv \in Nat /\ ack.cli \in Int
  /\ init_seq # NoSeq <=>
       TCP /\ \E i \in DOMAIN out : out[i].payload.ops # <<>>

(* Whatever the order in which a parser found its operations, a packet     *)
(* whose offset is 0 leaves with each range replaced and nothing else      *)
(* changed, the part in trail included (flow.cc:96-161), as long as the    *)
(* loop took no element beyond ops for an operation.  After a removal the  *)
(* loop copies a byte without looking for the next operation               *)
(* (flow.cc:144-158), hence RemovalsApart.                                 *)
SplicedExactly ==
  ~wild => \A i \in DOMAIN out :
             /\ out[i].at = 0
             /\ Disjoint(out[i].payload.ops) /\ RemovalsApart(out[i].payload.ops)
             => Replaced(i)

(* The server sees one stream: each packet starts where the one before it  *)
(* in the stream ends, however packets grow, shrink or are cut             *)
(* (nat.cc:247, flow.cc:60-66, 190-203), and whichever of them are lost,   *)
(* late or sent again, unless a packet was modified at the wrong time: one *)
(* that came between the two, or one of the two when they came in the      *)
(* wrong order.                                                            *)
StreamGapless ==
  TCP => \A i, j \in DOMAIN out :
           out[j].in = InEnd(out[i]) /\ Meddling(i, j) = {} =>
             out[j].seq = End(out[i])

(* When the client is told that a packet arrived, the server has           *)
(* acknowledged all that became of each copy that passed (nat.cc:250), as  *)
(* long as no packet shrinks: a later offset is used for an earlier        *)
(* acknowledgement.  A packet none of whose copies passed may be           *)
(* acknowledged in place of one that was resent after a growth.            *)
AckNeverAhead ==
  [][TCP /\ NoneShrinks /\ ack' # ack =>
       \A i \in DOMAIN out :
         InEnd(out[i]) <= ack'.cli => End(out[i]) <= ack'.srv]_fmVars

(* Every packet leaves with each range replaced by its new data            *)
(* (parser.h:22).                                                          *)
ReplacesData == ~wild => \A i \in DOMAIN out : Replaced(i)
=============================================================================
