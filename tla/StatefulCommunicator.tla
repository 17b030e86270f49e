------------------------ MODULE StatefulCommunicator ------------------------
(***************************************************************************)
(* A stateful parser runs in a thread of its own (the child) and is fed by *)
(* the thread that handles the packets of its flow and direction (the      *)
(* father) through class StatefulCommunicator: the content in the shared   *)
(* member data_, the turns as commands in two pipes (communicator.cc).     *)
(* When a parser ends, the next packet makes a new one and deletes the old *)
(* (Flow::getParser, flow.cc:22-50).                                       *)
(*                                                                         *)
(* comm[g] is the g-th parser of the flow and direction with its           *)
(* communicator and child.  A parser is handled by one father only; that   *)
(* is what FlowAffinity of module Tun establishes.                         *)
(***************************************************************************)
EXTENDS Integers, Sequences

CONSTANTS
  Sizes,         (* sizes a packet's content may have                    *)
  EndPositions,  (* positions a parser may pass to setLengthEnd          *)
  MaxPkts,       (* bound of the model on the packets of the flow        *)
  MaxOps         (* bound of the model on the operations found           *)

ASSUME SizesAssumption == Sizes \subseteq Nat \ {0}
ASSUME PositionsAssumption == EndPositions \subseteq Nat
ASSUME BoundsAssumption == MaxPkts \in Nat /\ MaxOps \in Nat

VARIABLES
  comm,       (* the parsers made so far                                 *)
  fa,         (* the father: [pc, ans], ans what addData() returned      *)
  npkt,       (* packets so far; packet n has content n                  *)
  size,       (* size[n]: length of content n                            *)
  found,      (* operations added by the children so far                 *)
  returned,   (* operations process() returned so far                    *)
  wild        (* a child used its deleted communicator                   *)

commVars == <<comm, fa, npkt, size, found, returned, wild>>

ADDDATA == "ADDDATA"
MOREDATA == "MOREDATA"
QUIT == "QUIT"

(* Faulty variant, for a mutant only: total_len is not initialised.        *)
NewCommNoTotal ==
  [data |-> 0, running |-> FALSE, total |-> -7, endPos |-> -1,
   ops |-> <<>>, end |-> FALSE, deleted |-> FALSE,
   fdData |-> <<>>, fdAns |-> <<>>, ansOpen |-> TRUE,
   pc |-> "none", stream |-> <<>>]

(* Constructors of Parser and StatefulCommunicator; pc and stream are the  *)
(* child's, stream the contents its scanner has been given.                *)
NewComm ==
  [data |-> 0, running |-> FALSE, total |-> 0, endPos |-> -1,
   ops |-> <<>>, end |-> FALSE, deleted |-> FALSE,
   fdData |-> <<>>, fdAns |-> <<>>, ansOpen |-> TRUE,
   pc |-> "none", stream |-> <<>>]

(* The parser in use.                                                      *)
cur == Len(comm)

FaAt(pc) == ~wild /\ fa.pc = pc
-----------------------------------------------------------------------------
(***************************************************************************)
(* The father.  A packet with content: Flow::getParser makes a parser if   *)
(* there is none or it has ended, deleting the old one; process() calls    *)
(* addData(), which stores the content and starts the child if need be.    *)
(***************************************************************************)
GetParser ==
  /\ FaAt("idle") /\ npkt < MaxPkts
  /\ \E n \in Sizes : size' = Append(size, n)
  /\ npkt' = npkt + 1
  /\ comm' = IF cur = 0 THEN <<NewComm>>
             ELSE IF comm[cur].end
             THEN Append([comm EXCEPT ![cur].deleted = TRUE], NewComm)
             ELSE comm
  /\ fa' = [fa EXCEPT !.pc = "store"]
  /\ UNCHANGED <<found, returned, wild>>

(* data_ = data; init() creates the thread and awaits its first command.   *)
Store ==
  /\ FaAt("store")
  /\ comm' = [comm EXCEPT ![cur].data = npkt,
                          ![cur].running = TRUE,
                          ![cur].pc = IF comm[cur].running THEN @ ELSE "ask"]
  /\ fa' = [fa EXCEPT !.pc = IF comm[cur].running THEN "give" ELSE "init"]
  /\ UNCHANGED <<npkt, size, found, returned, wild>>

(* init(): whatever is read, also nothing at the end of the pipe, is taken *)
(* for the child's request.                                                *)
AwaitInit ==
  /\ FaAt("init")
  /\ comm[cur].fdAns # <<>> \/ ~comm[cur].ansOpen
  /\ comm' = [comm EXCEPT ![cur].fdAns = IF @ = <<>> THEN @ ELSE Tail(@)]
  /\ fa' = [fa EXCEPT !.pc = "give"]
  /\ UNCHANGED <<npkt, size, found, returned, wild>>

Give ==
  /\ FaAt("give")
  /\ comm' = [comm EXCEPT ![cur].fdData = Append(@, ADDDATA)]
  /\ fa' = [fa EXCEPT !.pc = "await"]
  /\ UNCHANGED <<npkt, size, found, returned, wild>>

(* Faulty variants, for the mutants only: the answer is not awaited; every *)
(* answer ends the parser.                                                 *)
AwaitNothing ==
  /\ FaAt("await")
  /\ fa' = [fa EXCEPT !.pc = "collect", !.ans = 0]
  /\ UNCHANGED <<comm, npkt, size, found, returned, wild>>

AwaitAlwaysEnds ==
  /\ FaAt("await") /\ comm[cur].fdAns # <<>>
  /\ comm' = [comm EXCEPT ![cur].fdAns = Tail(@)]
  /\ fa' = [fa EXCEPT !.pc = "collect", !.ans = -1]
  /\ UNCHANGED <<npkt, size, found, returned, wild>>

(* addData() returns -1 at the end of the pipe or on QUIT, else 0.         *)
Await ==
  LET c == comm[cur].fdAns IN
  /\ FaAt("await")
  /\ \/ /\ c # <<>>
        /\ comm' = [comm EXCEPT ![cur].fdAns = Tail(@)]
        /\ fa' = [fa EXCEPT !.pc = "collect",
                            !.ans = IF Head(c) = QUIT THEN -1 ELSE 0]
     \/ /\ c = <<>> /\ ~comm[cur].ansOpen
        /\ fa' = [fa EXCEPT !.pc = "collect", !.ans = -1]
        /\ UNCHANGED comm
  /\ UNCHANGED <<npkt, size, found, returned, wild>>

(* Faulty variant, for a mutant only: ops.clear() is missing.              *)
CollectKeepOps ==
  /\ FaAt("collect")
  /\ returned' = returned \o comm[cur].ops
  /\ comm' = [comm EXCEPT ![cur].end = @ \/ fa.ans < 0]
  /\ fa' = [fa EXCEPT !.pc = "idle"]
  /\ UNCHANGED <<npkt, size, found, wild>>

(* The rest of process(): end on -1; hand out and clear the operations.    *)
Collect ==
  /\ FaAt("collect")
  /\ returned' = returned \o comm[cur].ops
  /\ comm' = [comm EXCEPT ![cur].end = @ \/ fa.ans < 0, ![cur].ops = <<>>]
  /\ fa' = [fa EXCEPT !.pc = "idle"]
  /\ UNCHANGED <<npkt, size, found, wild>>

Father == Store \/ AwaitInit \/ Give \/ Await \/ Collect
-----------------------------------------------------------------------------
(***************************************************************************)
(* The child of parser g.                                                  *)
(***************************************************************************)
ChildAt(g, pc) == ~wild /\ comm[g].pc = pc

ByChild(g) == UNCHANGED <<fa, npkt, size, returned>>

(* A child of a deleted parser works on freed memory: all may still be in  *)
(* place (ok), or anything may happen, and the model ends there.           *)
OnObject(g, ok) ==
  \/ ok /\ UNCHANGED wild
  \/ comm[g].deleted /\ wild' = TRUE /\ UNCHANGED comm

(* Faulty variant, for a mutant only: MOREDATA is not sent.                *)
AskSilently(g) ==
  /\ ChildAt(g, "ask")
  /\ OnObject(g, comm' = [comm EXCEPT ![g].pc = "wait"])
  /\ ByChild(g) /\ UNCHANGED found

(* getIStream(), first part: stop if the end of the message has been seen  *)
(* to be in what was read, else ask for more.                              *)
Ask(g) ==
  LET over == comm[g].endPos > 0 /\ comm[g].endPos <= comm[g].total IN
  /\ ChildAt(g, "ask")
  /\ OnObject(g,
       comm' = [comm EXCEPT
         ![g].fdAns = Append(@, IF over THEN QUIT ELSE MOREDATA),
         ![g].pc = IF over THEN "quit" ELSE "wait"])
  /\ ByChild(g) /\ UNCHANGED found

(* getIStream(), second part: on ADDDATA the scanner gets a stream over    *)
(* data_.  Nobody sends QUIT in this direction.                            *)
Load(g) ==
  /\ ChildAt(g, "wait") /\ comm[g].fdData # <<>>
  /\ OnObject(g,
       comm' = [comm EXCEPT
         ![g].fdData = Tail(@),
         ![g].total = @ + size[comm[g].data],
         ![g].stream = Append(@, comm[g].data),
         ![g].pc = "parse"])
  /\ ByChild(g) /\ UNCHANGED found

(* The grammar's actions while it reads the stream.                        *)
AddOperation(g) ==
  /\ ChildAt(g, "parse") /\ Len(found) < MaxOps
  /\ OnObject(g, comm' = [comm EXCEPT ![g].ops = Append(@, Len(found) + 1)])
  /\ found' = Append(found, Len(found) + 1)
  /\ ByChild(g)

SetLengthEnd(g) ==
  /\ ChildAt(g, "parse") /\ comm[g].endPos < 0
  /\ \E e \in EndPositions :
       OnObject(g, comm' = [comm EXCEPT ![g].endPos = e])
  /\ ByChild(g) /\ UNCHANGED found

(* The stream is used up: the scanner wants another.  Or the parser is     *)
(* done, by success or syntax error.                                       *)
EndOfStream(g) ==
  /\ ChildAt(g, "parse")
  /\ OnObject(g, comm' = [comm EXCEPT ![g].pc = "ask"])
  /\ ByChild(g) /\ UNCHANGED found

EndOfParse(g) ==
  /\ ChildAt(g, "parse")
  /\ OnObject(g, comm' = [comm EXCEPT ![g].pc = "quit"])
  /\ ByChild(g) /\ UNCHANGED found

(* run(), after Parser::run has returned or thrown: QUIT (a second one if  *)
(* getIStream sent the first), close, and the thread is gone.              *)
Quit(g) ==
  /\ ChildAt(g, "quit")
  /\ OnObject(g, comm' = [comm EXCEPT ![g].fdAns = Append(@, QUIT),
                                      ![g].pc = "close"])
  /\ ByChild(g) /\ UNCHANGED found

Close(g) ==
  /\ ChildAt(g, "close")
  /\ OnObject(g, comm' = [comm EXCEPT ![g].ansOpen = FALSE,
                                      ![g].pc = "gone"])
  /\ ByChild(g) /\ UNCHANGED found

Child(g) ==
  \/ Ask(g) \/ Load(g) \/ AddOperation(g) \/ SetLengthEnd(g)
  \/ EndOfStream(g) \/ EndOfParse(g) \/ Quit(g) \/ Close(g)
-----------------------------------------------------------------------------
CommInit ==
  /\ comm = <<>>
  /\ fa = [pc |-> "idle", ans |-> 0]
  /\ npkt = 0 /\ size = <<>>
  /\ found = <<>> /\ returned = <<>>
  /\ wild = FALSE

CommNext ==
  \/ GetParser \/ Father
  \/ \E g \in DOMAIN comm : Child(g)

CommSpec == CommInit /\ [][CommNext]_commVars

(* The threads run, and the grammar's actions on one content are finitely  *)
(* many (MaxOps stands for that).  Nothing makes packets arrive.           *)
CommFairSpec ==
  /\ CommSpec
  /\ WF_commVars(Father)
  /\ \A g \in 1 .. MaxPkts : WF_commVars(g \in DOMAIN comm /\ Child(g))
-----------------------------------------------------------------------------
CommType ==
  [data : 0 .. npkt, running : BOOLEAN, total : Nat, endPos : Nat \cup {-1},
   ops : Seq(Nat), end : BOOLEAN, deleted : BOOLEAN,
   fdData : Seq({ADDDATA}), fdAns : Seq({MOREDATA, QUIT}), ansOpen : BOOLEAN,
   pc : {"none", "ask", "wait", "parse", "quit", "close", "gone"},
   stream : Seq(1 .. npkt)]

(* The type invariant of the protocol.                                     *)
CommTypeOK ==
  /\ comm \in Seq(CommType) /\ cur <= npkt
  /\ fa \in [pc : {"idle", "store", "init", "give", "await", "collect"},
             ans : {-1, 0}]
  /\ fa.pc # "idle" => cur > 0
  /\ npkt \in 0 .. MaxPkts /\ Len(size) = npkt
  /\ found \in Seq(Nat) /\ returned \in Seq(Nat) /\ wild \in BOOLEAN

(***************************************************************************)
(* data_ and ops have no lock: the pipes alone keep the two threads apart. *)
(* While the father is outside addData or touches one of the two, no child *)
(* is about to touch either (communicator.cc:40-96, parser.cc:30-37).      *)
(***************************************************************************)
UsesShared(g) ==
  comm[g].pc = "parse" \/ (comm[g].pc = "wait" /\ comm[g].fdData # <<>>)

HandOff ==
  fa.pc \in {"idle", "store", "collect"} =>
    \A g \in DOMAIN comm : ~UsesShared(g)

(***************************************************************************)
(* What is left of the child of a deleted parser: at most its last QUIT    *)
(* and its close.  It never again reads data_ or adds an operation         *)
(* (flow.cc:29-32, parser.cc:9-11, communicator.cc:117-126).               *)
(***************************************************************************)
DeletedOnlyQuits ==
  \A g \in DOMAIN comm :
    comm[g].deleted => comm[g].pc \in {"quit", "close", "gone"}

(***************************************************************************)
(* process() always returns: father and child never wait for one another   *)
(* (communicator.cc:49-64, 84-95, 103-114), unless a child ran on freed    *)
(* memory.                                                                 *)
(***************************************************************************)
ProcessReturns == (fa.pc # "idle") ~> (fa.pc = "idle" \/ wild)

(***************************************************************************)
(* Two threads, two pipes and a shared string amount to a call: the parser *)
(* sees each content once and in order, and each call returns exactly the  *)
(* operations found in it (communicator.cc:40-133, parser.cc:30-37).       *)
(***************************************************************************)
Acknowledged(g) ==
  LET s == comm[g].stream IN
  IF fa.pc # "idle" /\ s # <<>> /\ s[Len(s)] = npkt
  THEN [i \in 1 .. Len(s) - 1 |-> s[i]] ELSE s

Unused == cur > 0 /\ fa.pc # "idle" /\ Acknowledged(cur) = <<>>

Session == INSTANCE ParserSession WITH
  Contents <- 1 .. MaxPkts,
  Ops      <- 1 .. MaxOps,
  seen     <- [g \in 1 .. (IF Unused THEN cur - 1 ELSE cur) |->
                 Acknowledged(g)],
  over     <- IF cur = 0 \/ Unused THEN TRUE ELSE comm[cur].end,
  found    <- found,
  returned <- returned

SessionImplemented == Session!Spec
=============================================================================
