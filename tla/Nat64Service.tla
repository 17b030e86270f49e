---------------------------- MODULE Nat64Service ----------------------------
(***************************************************************************)
(* What the translator promises its users, without threads, queues or      *)
(* tables: a client's connection gets one pool port for ever, no port      *)
(* serves two connections, every packet that leaves is the translation of  *)
(* one that came in, and the packets of a connection leave in the order    *)
(* they came.  Packets may be dropped, and the service may stop.           *)
(*                                                                         *)
(* Module Tun implements it when no two connections share a client port    *)
(* (property ServiceImplemented).                                          *)
(***************************************************************************)
EXTENDS Addr

CONSTANTS
  Prefix,     (* upper 96 bits of the servers' IPv6 addresses            *)
  PortSet     (* the endpoints the pool owns                             *)

VARIABLES
  bind,       (* Key64 |-> pool endpoint, for the keys that have one     *)
  inbox,      (* packets accepted and not yet answered for               *)
  sent        (* packets that left                                       *)

serviceVars == <<bind, inbox, sent>>

KeyOf(p) == [cli |-> p.src6, srv |-> p.dst6]

(* The connection and direction of a packet.                               *)
Conn(p) == IF p.v = 6 THEN <<6, p.src6, p.dst6, p.dport>>
                      ELSE <<4, p.src4, p.dst4>>

(* The translations of a client's packet and of a server's.                *)
ToServer(p) ==
  [id |-> p.id, v |-> 4, l4 |-> p.l4,
   src4 |-> bind[KeyOf(p)],
   dst4 |-> [ip |-> p.dst6.low, port |-> p.dport]]

ToClient(p, k) ==
  [id |-> p.id, v |-> 6, l4 |-> p.l4,
   dst6 |-> k.cli,
   src6 |-> [ip |-> [net |-> Prefix, low |-> p.src4.ip], port |-> p.src4.port]]

(* No older packet of the connection is still waiting.                     *)
Oldest(p) == \A r \in inbox : Conn(r) = Conn(p) => p.id <= r.id

-----------------------------------------------------------------------------
Init ==
  /\ bind = [k \in {} |-> 0]
  /\ inbox = {}
  /\ sent = {}

Accept ==
  /\ \E p \in inbox' : inbox' = inbox \cup {p}
  /\ UNCHANGED <<bind, sent>>

Bind ==
  \E p \in inbox, e \in PortSet :
    /\ p.v = 6 /\ KeyOf(p) \notin DOMAIN bind
    /\ \A k \in DOMAIN bind : bind[k] # e
    /\ bind' = [k \in DOMAIN bind \cup {KeyOf(p)} |->
                  IF k = KeyOf(p) THEN e ELSE bind[k]]
    /\ UNCHANGED <<inbox, sent>>

Forward ==
  \E p \in inbox :
    /\ p.v = 6 /\ KeyOf(p) \in DOMAIN bind /\ Oldest(p)
    /\ sent' = sent \cup {ToServer(p)}
    /\ inbox' = inbox \ {p}
    /\ UNCHANGED bind

Answer ==
  \E p \in inbox, k \in DOMAIN bind :
    /\ p.v = 4 /\ bind[k] = p.dst4 /\ k.srv.low = p.src4.ip /\ Oldest(p)
    /\ sent' = sent \cup {ToClient(p, k)}
    /\ inbox' = inbox \ {p}
    /\ UNCHANGED bind

Discard ==
  \E p \in inbox :
    /\ inbox' = inbox \ {p}
    /\ UNCHANGED <<bind, sent>>

Next == Accept \/ Bind \/ Forward \/ Answer \/ Discard

Spec == Init /\ [][Next]_serviceVars
=============================================================================
