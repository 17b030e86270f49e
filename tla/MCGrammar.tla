------------------------------ MODULE MCGrammar ------------------------------
(***************************************************************************)
(* A small instance of Grammar for TLC: addresses shorter and longer than  *)
(* what replaces them, a Content-Length that gains or loses a digit.       *)
(***************************************************************************)
EXTENDS Grammar

MCIp6Sizes  == {3, 9}
MCPortSizes == {1, 2}
MCLengths   == {12, 98}
MCTags      == {"a", "p", "script", "textarea"}
=============================================================================
