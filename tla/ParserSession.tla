---------------------------- MODULE ParserSession ----------------------------
(***************************************************************************)
(* What the NAT expects of a stateful parser: an ordinary call.  Each      *)
(* packet's content is given to the open session, or to a new one when     *)
(* there is none; a session sees its contents in order, each once; the     *)
(* call returns the operations found, and may end the session.             *)
(***************************************************************************)
EXTENDS Naturals, Sequences

CONSTANTS
  Contents,   (* the contents of packets                                 *)
  Ops         (* the operations a parser may find                        *)

VARIABLES
  seen,       (* per session, the contents it was given                  *)
  over,       (* has the last session ended?                             *)
  found,      (* operations the sessions found so far                    *)
  returned    (* operations the calls have returned so far               *)

sessionVars == <<seen, over, found, returned>>

Init ==
  /\ seen = <<>> /\ over = TRUE
  /\ found = <<>> /\ returned = <<>>

(* The last session, or a new one, is given content c.                     *)
Given(c) ==
  IF over THEN Append(seen, <<c>>)
  ELSE [seen EXCEPT ![Len(seen)] = Append(@, c)]

Process ==
  \E c \in Contents :
    /\ seen' = Given(c)
    /\ over' \in BOOLEAN
    /\ returned' = found
    /\ UNCHANGED found

(* An operation is found while a content is processed; the call that       *)
(* processes it returns it.                                                *)
Find ==
  /\ \E o \in Ops : found' = Append(found, o)
  /\ UNCHANGED <<seen, over, returned>>

Next == Process \/ Find

Spec == Init /\ [][Next]_sessionVars
=============================================================================
