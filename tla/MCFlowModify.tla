---------------------------- MODULE MCFlowModify ----------------------------
(***************************************************************************)
(* Small instances of FlowModify for TLC; MSS = 3.                         *)
(***************************************************************************)
EXTENDS FlowModify

Op(start, end, new) == [start_pos |-> start, end_pos |-> end, newdata |-> new]
Payload(len, ops)   == [len |-> len, ops |-> ops]

(* Commands of a connection: one without an address, one whose address     *)
(* family keeps its size and whose address grows, one whose address        *)
(* shrinks, a long one that grows beyond the segment.                      *)
Commands ==
  {Payload(2, <<>>),
   Payload(3, <<Op(0, 1, <<-1>>), Op(1, 2, <<-2, -3>>)>>),
   Payload(3, <<Op(0, 2, <<-4>>)>>),
   Payload(4, <<Op(1, 3, <<-5, -6, -7>>)>>)}

(* Every message of four bytes with up to three operations on different    *)
(* parts of it, in every order, each replacing by none, one or two bytes.  *)
Ranges == {r \in (0 .. 3) \X (1 .. 4) : r[1] < r[2]}
New(i, n) == [k \in 1 .. n |-> -(2 * i + k)]
RangesOf(m) ==
  {rs \in [1 .. m -> Ranges] :
     \A i, j \in 1 .. m : i # j => rs[i][2] <= rs[j][1] \/ rs[j][2] <= rs[i][1]}
OpsOf(m) ==
  {[i \in 1 .. m |-> Op(rs[i][1], rs[i][2], New(i, ns[i]))] :
     rs \in RangesOf(m), ns \in [1 .. m -> 0 .. 2]}
Messages == {Payload(4, ops) : ops \in UNION {OpsOf(m) : m \in 0 .. 3}}
=============================================================================
