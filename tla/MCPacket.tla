------------------------------ MODULE MCPacket ------------------------------
(***************************************************************************)
(* A small instance of Packet for TLC: bytes are numbers below 4, so words *)
(* go to 15 and the sum has room for 255.                                  *)
(***************************************************************************)
EXTENDS Packet

(* Data of all lengths that fit: all strings of up to three of the bytes   *)
(* 0, 1 and 3, and the largest ones.                                       *)
Strings(n) == [1 .. n -> {0, 1, 3}]
AllMax(n)  == [i \in 1 .. n |-> B - 1]
MCData == UNION {Strings(n) : n \in 0 .. 3} \cup {AllMax(4), AllMax(5)}

Seg(proto, sport, dport, data) ==
  [sport |-> sport, dport |-> dport, check |-> 5, data |-> data,
   mid |-> IF proto = UDP THEN SegmentHead + Len(data) ELSE 15]

MCArrivals ==
  {[v |-> 6, proto |-> p, src |-> <<1, s>>, dst |-> <<Prefix, 15>>,
    seg |-> Seg(p, 6, q, d)] : p \in {TCP, UDP}, s \in {2}, q \in {9, 15}, d \in MCData}
  \cup
  {[v |-> 4, proto |-> p, src |-> <<15>>, dst |-> <<13>>,
    seg |-> Seg(p, q, 11, d)] : p \in {TCP, UDP}, q \in {9, 15}, d \in MCData}

MCBindings == {[ip4 |-> <<13>>, port4 |-> q, ip6 |-> <<1, 2>>, port6 |-> 6] :
                 q \in {11, 15}}

MCNumbers  == {0, 6}
MCPayloads == {<<>>, <<2>>, <<0, 3>>, <<3, 3, 1, 2, 3>>}
=============================================================================
