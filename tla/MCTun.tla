-------------------------------- MODULE MCTun --------------------------------
(***************************************************************************)
(* Small instances of Tun for TLC: T = 2 workers, QMAX = 1.                *)
(***************************************************************************)
EXTENDS Tun

MCPrefix   == 64
MCPoolAddr == 9

Cli(n, p) == [ip |-> [net |-> 1, low |-> n], port |-> p]
Srv(n)    == [net |-> MCPrefix, low |-> n]
Packet(c, s, dport, l4) ==
  [src6 |-> c, dst6 |-> s, dport |-> dport, l4 |-> l4]
Stray(ip, port, l4) ==
  [src4 |-> [ip |-> 1, port |-> 2], dst4 |-> [ip |-> ip, port |-> port],
   l4 |-> l4]

KeysOf(clients) ==
  {k \in {[cli |-> c.src6, srv |-> c.dst6] : c \in clients} :
     k.srv.net = MCPrefix}

(* Everything that may come: two hosts on one source port, one port with   *)
(* two servers and two server ports, a second source port for which the    *)
(* pool of one has nothing left, an address outside the prefix and a       *)
(* packet without ports; from the other side, guesses at a pool port and   *)
(* packets for an address that is not the gateway's.                       *)
AnyClients ==
  {Packet(Cli(1, 1), Srv(1), 1, "tcp"), Packet(Cli(1, 1), Srv(1), 2, "udp"),
   Packet(Cli(2, 1), Srv(2), 1, "tcp"), Packet(Cli(1, 2), Srv(1), 1, "tcp"),
   Packet(Cli(1, 1), [net |-> 65, low |-> 1], 1, "tcp"),
   Packet(Cli(1, 1), Srv(1), 1, "other")}

AnyStrays ==
  {Stray(MCPoolAddr, 1, "udp"), Stray(5, 1, "tcp"), Stray(6, 1, "other")}

AnyKeys  == KeysOf(AnyClients)
AnyDest4 == {MCPoolAddr, 5, 6}

(* Three connections, no client port twice; servers only answer.           *)
ProperClients ==
  {Packet(Cli(1, 1), Srv(1), 1, "tcp"), Packet(Cli(1, 2), Srv(2), 1, "udp"),
   Packet(Cli(2, 3), Srv(1), 2, "tcp")}

ProperStrays == {}
ProperKeys   == KeysOf(ProperClients)
ProperDest4  == {MCPoolAddr}

(* Instances without strays are those FlowAffinity is claimed for.         *)
ASSUME ProperAssumption == Strays = {} => ProperTraffic
=============================================================================
