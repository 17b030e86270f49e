------------------------------- MODULE MCDoApp -------------------------------
(***************************************************************************)
(* A small instance of DoApp for TLC: two workers, one with a connection   *)
(* of FTP, one with a flow of SIP to another server.                       *)
(***************************************************************************)
EXTENDS DoApp

MCPrefix   == 64
MCPoolAddr == 9

Cli(p) == [ip |-> [net |-> 1, low |-> 1], port |-> p]
Srv(n) == [net |-> MCPrefix, low |-> n]

(* Endpoints 1 and 2 of connections, 4 and 5 announced ones.               *)
MCKeys == [cli : {Cli(p) : p \in {1, 2, 4, 5}}, srv : {Srv(1), Srv(2)}]

Conn(p, s, transport, w) ==
  [key |-> [cli |-> Cli(p), srv |-> Srv(s)], transport |-> transport, worker |-> w]
MCConns == {Conn(1, 1, "tcp", 0), Conn(2, 2, "udp", 1)}

MCProtocols ==
  <<[name |-> "ftp",  transport |-> "tcp", c2s |-> "stateless", s2c |-> "none"],
    [name |-> "http", transport |-> "tcp", c2s |-> "none", s2c |-> "stateless"],
    [name |-> "sip",  transport |-> "udp", c2s |-> "stateless", s2c |-> "none"]>>

Content(proto, eps, plain, hello) ==
  [proto |-> proto, eps |-> eps, plain |-> plain, hello |-> hello]

(* EPRT, USER and another command; a page with an address; SIP with the    *)
(* client's own endpoint and one for its media.                            *)
MCContents ==
  {Content("ftp", <<Cli(4)>>, FALSE, {}),
   Content("ftp", <<>>, FALSE, {"ftp"}),
   Content("ftp", <<>>, FALSE, {}),
   Content("http", <<>>, TRUE, {}),
   Content("sip", <<Cli(2), Cli(5)>>, TRUE, {})}

(* The instance is one of those the properties are claimed for.            *)
ASSUME PortsAssumption == WorkersApart /\ DataPortsApart /\ PairsApart
=============================================================================
