--------------------------- MODULE MCStateManager ---------------------------
(***************************************************************************)
(* Small instances of StateManager for TLC: two hosts, client ports 1..3,  *)
(* two servers and a pool of two ports, so that ports run out, clients     *)
(* share source ports and one client port talks to two servers.            *)
(***************************************************************************)
EXTENDS StateManager

MCPrefix   == 64
MCPoolAddr == 9

Host(n)   == [net |-> 1, low |-> n]
Cli(n, p) == [ip |-> Host(n), port |-> p]
Srv(n)    == [net |-> MCPrefix, low |-> n]

(* Every client endpoint with every server.                                *)
MCKeys == [cli : {Cli(n, p) : n \in 1 .. 2, p \in 1 .. 3},
           srv : {Srv(s) : s \in 1 .. 2}]

(* The pool address and one the gateway does not own.                      *)
MCDest4 == {MCPoolAddr, 5}
=============================================================================
