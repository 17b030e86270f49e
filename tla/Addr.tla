-------------------------------- MODULE Addr --------------------------------
(***************************************************************************)
(* The addresses of the gateway and the orders std::map sorts its keys by  *)
(* (ip.cc, ip.h).                                                          *)
(*                                                                         *)
(* An IPv6 address is a record: its upper 96 bits (three 32-bit words the  *)
(* code always treats together) are the number net, its last word is low.  *)
(* An IPv4 address is its 32-bit number.  An endpoint (IP6Port, IP4Port)   *)
(* is an address and a port.  A key of the 6-to-4 table is a client        *)
(* endpoint with a server address.                                         *)
(***************************************************************************)
EXTENDS Integers

IPv6Addr == [net : Nat, low : Nat]
IP6Port  == [ip : IPv6Addr, port : Nat]
IP4Port  == [ip : Nat, port : Nat]

Key64 == [cli : IP6Port, srv : IPv6Addr]
Key46 == [ip4p : IP4Port, srv : Nat]

(***************************************************************************)
(* operator!= and operator< of IPv6Addr.  The code compares the words of   *)
(* the left operand with themselves; the right operand is never read.      *)
(***************************************************************************)
IPv6Differs(a, b) == a.net # a.net \/ a.low # a.low

IPv6Less(a, b) ==
  IF a.net # a.net THEN a.net < a.net ELSE a.low < a.low

(* Faulty variant, for a mutant only: the port is left out.                *)
IP6PortLessByAddr(p, r) == IPv6Less(p.ip, r.ip)

(* operator< of IP6Port.                                                   *)
IP6PortLess(p, r) ==
  IF IPv6Differs(p.ip, r.ip) THEN IPv6Less(p.ip, r.ip) ELSE p.port < r.port

(* operator< of IP4Port.                                                   *)
IP4PortLess(p, r) ==
  IF p.ip # r.ip THEN p.ip < r.ip ELSE p.port < r.port

(***************************************************************************)
(* std::pair compares its first members, then its second ones; std::map    *)
(* takes two keys for the same when neither is less than the other.        *)
(***************************************************************************)
Key64Less(k, l) ==
  \/ IP6PortLess(k.cli, l.cli)
  \/ ~IP6PortLess(l.cli, k.cli) /\ IPv6Less(k.srv, l.srv)

Key46Less(k, l) ==
  \/ IP4PortLess(k.ip4p, l.ip4p)
  \/ ~IP4PortLess(l.ip4p, k.ip4p) /\ k.srv < l.srv

Key64Same(k, l) == ~Key64Less(k, l) /\ ~Key64Less(l, k)
Key46Same(k, l) == ~Key46Less(k, l) /\ ~Key46Less(l, k)
=============================================================================
