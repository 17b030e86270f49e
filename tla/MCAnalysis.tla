----------------------------- MODULE MCAnalysis -----------------------------
(***************************************************************************)
(* A small instance of Analysis for TLC.                                   *)
(***************************************************************************)
EXTENDS Analysis

At(ip, port) == [ip |-> ip, port |-> port]
Frame(s, d, l4, lit) ==
  [src |-> s, dst |-> d, l4 |-> l4, ipv4 |-> TRUE, literal |-> lit]
NotIPv4 ==
  [src |-> At(0, 0), dst |-> At(0, 0), l4 |-> "other", ipv4 |-> FALSE,
   literal |-> FALSE]

(* Both directions of a web connection, with and without a literal; a      *)
(* second client of that server; web servers' two ports facing each        *)
(* other; FTP; SIP with a packet of TCP on the same ports; no ports.       *)
MCFrames ==
  {Frame(At(1, 9), At(2, 80), "tcp", FALSE),
   Frame(At(2, 80), At(1, 9), "tcp", TRUE),
   Frame(At(3, 9), At(2, 80), "tcp", FALSE),
   Frame(At(1, 8080), At(2, 80), "tcp", FALSE),
   Frame(At(1, 7), At(2, 21), "tcp", TRUE),
   Frame(At(2, 5060), At(1, 5060), "udp", FALSE),
   Frame(At(1, 6), At(2, 5060), "udp", FALSE),
   Frame(At(1, 6), At(2, 5060), "tcp", FALSE),
   Frame(At(1, 9), At(2, 80), "other", FALSE),
   NotIPv4}
=============================================================================
