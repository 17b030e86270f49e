----------------------- MODULE MCStatefulCommunicator -----------------------
(***************************************************************************)
(* Instances of StatefulCommunicator for TLC.                              *)
(***************************************************************************)
EXTENDS StatefulCommunicator

(* The end may lie within the first content, at its end or in a later one. *)
AnySizes == {1, 2}
AnyEnds  == {1, 2, 3}
=============================================================================
