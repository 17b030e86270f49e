-------------------------- MODULE CommunicatorProofs --------------------------
(***************************************************************************)
(* Theorems about StatefulCommunicator for any number of packets, all      *)
(* sizes and all end positions: father and child keep off each other's     *)
(* data, a deleted parser's child is past its work, and the pair           *)
(* implements ParserSession.                                               *)
(*                                                                         *)
(* The inductive invariant CommInv is the table of the handshake: what the *)
(* child and the two pipes can look like at each point of the father, and  *)
(* which contents the child has been given by then.                        *)
(***************************************************************************)
EXTENDS StatefulCommunicator, SequenceTheorems, TLAPS

(* The stream ends with the packet in hand.                                *)
Given(s) == s # <<>> /\ s[Len(s)] = npkt

(* A child that is past its grammar.                                       *)
Ended(c) == c.pc \in {"quit", "close", "gone"}

(* A child that waits for the father, with both pipes empty.               *)
Waits(c) ==
  /\ c.running /\ ~c.end
  /\ c.pc = "wait" /\ c.fdData = <<>> /\ c.fdAns = <<>>

(* A parser without a thread yet.                                          *)
Fresh(c) ==
  /\ ~c.running /\ ~c.end /\ c.endPos = -1
  /\ c.pc = "none" /\ c.fdData = <<>> /\ c.fdAns = <<>>

(* The thread has been made; its first request is under way.               *)
Starts(c) ==
  /\ c.running /\ ~c.end /\ c.endPos = -1 /\ c.fdData = <<>>
  /\ \/ c.pc = "ask" /\ c.fdAns = <<>>
     \/ c.pc = "wait" /\ c.fdAns = <<MOREDATA>>

(* The father awaits the answer to a content.                              *)
Works(c) ==
  /\ c.running /\ ~c.end
  /\ \/ c.pc = "wait" /\ c.fdData = <<ADDDATA>> /\ c.fdAns = <<>>
     \/ /\ c.fdData = <<>>
        /\ \/ c.pc \in {"parse", "ask"} /\ c.fdAns = <<>>
           \/ c.pc = "wait" /\ c.fdAns = <<MOREDATA>>
           \/ Ended(c) /\ c.fdAns \in Seq({QUIT}) /\ (c.fdAns = <<>> => c.pc = "quit")

(* The child and the pipes of the parser in use.                           *)
Turn(c) ==
  \/ fa.pc = "idle"    /\ IF c.end THEN Ended(c) ELSE Waits(c)
  \/ fa.pc = "store"   /\ (Fresh(c) \/ Waits(c))
  \/ fa.pc = "init"    /\ Starts(c)
  \/ fa.pc = "give"    /\ Waits(c)
  \/ fa.pc = "await"   /\ Works(c)
  \/ fa.pc = "collect" /\ ~c.end /\ IF fa.ans = 0 THEN Waits(c) ELSE Ended(c)

(* The contents it has been given, and the operations not yet returned.    *)
Contents(c) ==
  /\ fa.pc = "idle" => c.stream # <<>> /\ c.ops = <<>>
  /\ fa.pc \in {"init", "give", "await"} => c.data = npkt
  /\ fa.pc # "idle" =>
       (Given(c.stream) <=> (fa.pc = "collect" \/ (fa.pc = "await" /\ c.fdData = <<>>)))

Closed(c) == c.pc = "gone" <=> ~c.ansOpen

Left(c) ==
  /\ c.deleted /\ Ended(c)
  /\ fa.pc # "idle" => ~Given(c.stream)

CommInv ==
  /\ CommTypeOK /\ size \in Seq(Sizes)
  /\ \A g \in DOMAIN comm : Closed(comm[g])
  /\ \A g \in DOMAIN comm : g # cur => Left(comm[g])
  /\ cur > 0 => ~comm[cur].deleted /\ Turn(comm[cur]) /\ Contents(comm[cur])
  /\ IF cur = 0 THEN found = returned ELSE found = returned \o comm[cur].ops
-----------------------------------------------------------------------------
LEMMA CommInitInv == CommInit => CommInv
<1>. SUFFICES ASSUME CommInit PROVE CommInv
  OBVIOUS
<1>1. Len(comm) = 0 /\ DOMAIN comm = {} /\ cur = 0
  BY DEF CommInit, cur
<1>2. comm \in Seq(CommType) /\ found \in Seq(Nat) /\ returned \in Seq(Nat)
      /\ size \in Seq(Sizes) /\ Len(size) = 0
  BY DEF CommInit
<1>3. fa \in [pc : {"idle", "store", "init", "give", "await", "collect"},
             ans : {-1, 0}] /\ fa.pc = "idle"
  BY DEF CommInit
<1>4. npkt \in 0 .. MaxPkts /\ npkt = 0
  BY BoundsAssumption DEF CommInit
<1>5. wild \in BOOLEAN
  BY Zenon DEF CommInit
<1>6. CommTypeOK
  BY <1>1, <1>2, <1>3, <1>4, <1>5 DEF CommTypeOK
<1>. QED BY <1>1, <1>2, <1>6 DEF CommInit, CommInv

(* One parser changes.                                                     *)
LEMMA OneChanges ==
  ASSUME NEW S, NEW s \in Seq(S), NEW g \in DOMAIN s, NEW r \in S
  PROVE  LET t == [s EXCEPT ![g] = r]
         IN  /\ t \in Seq(S) /\ Len(t) = Len(s) /\ DOMAIN t = DOMAIN s
             /\ t[g] = r /\ \A x \in DOMAIN s : x # g => t[x] = s[x]
OBVIOUS

LEMMA Parsers ==
  ASSUME CommInv, NEW g \in DOMAIN comm
  PROVE  /\ comm \in Seq(CommType) /\ comm[g] \in CommType /\ Closed(comm[g])
         /\ cur \in Nat /\ cur > 0 /\ cur \in DOMAIN comm /\ npkt \in Nat
         /\ g # cur => Left(comm[g])
BY DEF CommInv, CommTypeOK, cur

(* A step that makes no parser and gives no content.                       *)
Kept ==
  /\ npkt' = npkt /\ cur' = cur
  /\ \A g \in DOMAIN comm :
       comm'[g].stream = comm[g].stream /\ comm'[g].end = comm[g].end

(* A step that changes no parser but the one in use.                       *)
Others ==
  /\ npkt' = npkt /\ cur' = cur
  /\ \A g \in DOMAIN comm : g # cur => comm'[g] = comm[g]

(* What a step leaves behind that changes the parser in use: r is what     *)
(* becomes of it.                                                          *)
LEMMA CurStep ==
  ASSUME CommInv, cur > 0, NEW r \in CommType, comm' = [comm EXCEPT ![cur] = r],
         UNCHANGED <<npkt, size, wild>>,
         fa' \in [pc : {"idle", "store", "init", "give", "await", "collect"},
                  ans : {-1, 0}],
         fa.pc = "idle" => fa'.pc = "idle",
         found' \in Seq(Nat), returned' \in Seq(Nat), found' = returned' \o r.ops,
         Closed(r), ~r.deleted, Turn(r)', Contents(r)'
  PROVE  /\ CommInv' /\ Others /\ comm'[cur] = r
         /\ r.stream = comm[cur].stream /\ r.end = comm[cur].end => Kept
<1>1. /\ comm \in Seq(CommType) /\ cur \in DOMAIN comm /\ CommType' = CommType
      /\ cur \in Nat
  <2>1. comm \in Seq(CommType)
    BY DEF CommInv, CommTypeOK
  <2>2. cur \in DOMAIN comm /\ cur \in Nat
    BY <2>1 DEF cur
  <2>. QED BY <2>1, <2>2 DEF CommType
<1>2. /\ comm' \in Seq(CommType)' /\ Len(comm') = Len(comm) /\ DOMAIN comm' = DOMAIN comm
      /\ comm'[cur] = r /\ \A x \in DOMAIN comm : x # cur => comm'[x] = comm[x]
  BY <1>1, OneChanges
<1>3. cur' = cur
  BY <1>2 DEF cur
<1>4. CommTypeOK'
  BY <1>2, <1>3 DEF CommInv, CommTypeOK
<1>5. \A g \in DOMAIN comm' : Closed(comm'[g])
  BY <1>2 DEF CommInv, Closed
<1>6. ASSUME NEW g \in DOMAIN comm', g # cur
      PROVE  Left(comm[g])' 
  BY <1>2, <1>6 DEF CommInv, Left, Given, Ended
<1>7. Turn(comm[cur])' /\ Contents(comm[cur])'
  BY <1>2, <1>3 DEF Turn, Contents, Given, Ended, Waits, Fresh, Starts, Works
<1>8. CommInv'
  BY <1>2, <1>3, <1>4, <1>5, <1>6, <1>7 DEF CommInv, Closed
<1>9. Others
  BY <1>2, <1>3 DEF Others
<1>10. r.stream = comm[cur].stream /\ r.end = comm[cur].end => Kept
  BY <1>2, <1>3 DEF Kept
<1>. QED BY <1>2, <1>8, <1>9, <1>10

(* And one that changes a parser no longer in use.                         *)
LEMMA LeftStep ==
  ASSUME CommInv, NEW g \in DOMAIN comm, g # cur,
         NEW r \in CommType, comm' = [comm EXCEPT ![g] = r],
         UNCHANGED <<npkt, size, fa, found, returned, wild>>,
         Closed(r), r.deleted, Ended(r), r.stream = comm[g].stream,
         r.end = comm[g].end
  PROVE  CommInv' /\ Kept
<1>1. /\ comm \in Seq(CommType) /\ cur \in DOMAIN comm /\ CommType' = CommType
      /\ cur \in Nat /\ cur > 0
  BY Parsers DEF CommType
<1>2. /\ comm' \in Seq(CommType)' /\ Len(comm') = Len(comm) /\ DOMAIN comm' = DOMAIN comm
      /\ comm'[g] = r /\ \A x \in DOMAIN comm : x # g => comm'[x] = comm[x]
  BY <1>1, OneChanges
<1>3. cur' = cur /\ comm'[cur] = comm[cur]
  BY <1>1, <1>2 DEF cur
<1>4. CommTypeOK'
  BY <1>2, <1>3 DEF CommInv, CommTypeOK
<1>5. \A x \in DOMAIN comm' : Closed(comm'[x])
  BY <1>2 DEF CommInv, Closed
<1>6. ASSUME NEW x \in DOMAIN comm', x # cur
      PROVE  Left(comm[x])' 
  BY <1>2, <1>6 DEF CommInv, Left, Given, Ended
<1>7. ~comm[cur].deleted' /\ Turn(comm[cur])' /\ Contents(comm[cur])'
  BY <1>1, <1>3 DEF CommInv, Turn, Contents, Given, Ended, Waits, Fresh, Starts, Works
<1>8. CommInv'
  BY <1>1, <1>2, <1>3, <1>4, <1>5, <1>6, <1>7 DEF CommInv, Closed
<1>9. Kept
  BY <1>2, <1>3 DEF Kept
<1>. QED BY <1>8, <1>9
-----------------------------------------------------------------------------
(***************************************************************************)
(* The father.                                                             *)
(***************************************************************************)
Pcs == {"none", "ask", "wait", "parse", "quit", "close", "gone"}

FaType ==
  [pc : {"idle", "store", "init", "give", "await", "collect"}, ans : {-1, 0}]

(* What the invariant says of the parser in use.                           *)
Used(c) ==
  /\ c = comm[cur] /\ Closed(c) /\ ~c.deleted /\ Turn(c) /\ Contents(c)
  /\ cur > 0 /\ cur \in DOMAIN comm /\ comm \in Seq(CommType) /\ c.pc \in Pcs
  /\ npkt \in Nat /\ npkt \in 0 .. npkt /\ cur <= npkt /\ cur \in Nat
  /\ size \in Seq(Sizes) /\ Len(size) = npkt
  /\ fa \in FaType
  /\ found = returned \o c.ops /\ found \in Seq(Nat) /\ returned \in Seq(Nat)

LEMMA InUse ==
  ASSUME CommInv, fa.pc # "idle" \/ cur > 0
  PROVE  \E c \in CommType : Used(c)
<1>1. comm \in Seq(CommType) /\ cur > 0 /\ npkt \in Nat
  BY DEF CommInv, CommTypeOK
<1>2. cur \in DOMAIN comm /\ cur \in Nat
  BY <1>1 DEF cur
<1>3. comm[cur] \in CommType
  BY <1>1, <1>2
<1>4. comm[cur].pc \in Pcs
  BY <1>3 DEF CommType, Pcs
<1>. QED BY <1>1, <1>2, <1>3, <1>4 DEF CommInv, CommTypeOK, Used, FaType

LEMMA Updates ==
  ASSUME NEW c \in CommType, NEW p \in Pcs, NEW d \in 0 .. npkt
  PROVE  /\ [c EXCEPT !.data = d, !.running = TRUE, !.pc = p] \in CommType
         /\ [c EXCEPT !.fdData = Append(@, ADDDATA)] \in CommType
         /\ [c EXCEPT !.pc = p] \in CommType
         /\ [c EXCEPT !.ansOpen = FALSE, !.pc = "gone"] \in CommType
         /\ \A e \in BOOLEAN : [c EXCEPT !.end = e, !.ops = <<>>] \in CommType
         /\ \A e \in Nat : [c EXCEPT !.endPos = e] \in CommType
<1>1. [c EXCEPT !.data = d, !.running = TRUE, !.pc = p] \in CommType
  BY DEF CommType, Pcs
<1>2. [c EXCEPT !.fdData = Append(@, ADDDATA)] \in CommType
  <2>1. PICK s : s = Append(c.fdData, ADDDATA)
    OBVIOUS
  <2>2. s \in Seq({ADDDATA})
    BY <2>1 DEF CommType
  <2>. QED BY <2>1, <2>2 DEF CommType
<1>3. [c EXCEPT !.pc = p] \in CommType
  BY DEF CommType, Pcs
<1>4. [c EXCEPT !.ansOpen = FALSE, !.pc = "gone"] \in CommType
  BY DEF CommType
<1>5. ASSUME NEW e \in BOOLEAN PROVE [c EXCEPT !.end = e, !.ops = <<>>] \in CommType
  <2>1. \A s \in Seq(Nat) : [c EXCEPT !.end = e, !.ops = s] \in CommType
    BY <1>5 DEF CommType
  <2>2. <<>> \in Seq(Nat)
    OBVIOUS
  <2>. QED BY <2>1, <2>2
<1>6. ASSUME NEW e \in Nat PROVE [c EXCEPT !.endPos = e] \in CommType
  BY <1>6 DEF CommType
<1>. QED BY <1>1, <1>2, <1>3, <1>4, <1>5, <1>6

LEMMA Answers ==
  ASSUME NEW c \in CommType, NEW s \in Seq({MOREDATA, QUIT}), NEW p \in Pcs,
         NEW n \in Nat
  PROVE  /\ [c EXCEPT !.fdAns = s] \in CommType
         /\ [c EXCEPT !.fdAns = s, !.pc = p] \in CommType
         /\ [c EXCEPT !.ops = Append(@, n)] \in CommType
<1>1. [c EXCEPT !.fdAns = s] \in CommType
  BY DEF CommType
<1>2. [c EXCEPT !.fdAns = s, !.pc = p] \in CommType
  BY DEF CommType, Pcs
<1>3. [c EXCEPT !.ops = Append(@, n)] \in CommType
  <2>1. PICK q : q = Append(c.ops, n)
    OBVIOUS
  <2>2. q \in Seq(Nat)
    BY <2>1 DEF CommType
  <2>. QED BY <2>1, <2>2 DEF CommType
<1>. QED BY <1>1, <1>2, <1>3

LEMMA StoreInv == CommInv /\ Store => CommInv' /\ Kept
<1>. SUFFICES ASSUME CommInv, Store PROVE CommInv' /\ Kept
  OBVIOUS
<1>1. fa.pc = "store"
  BY DEF Store, FaAt
<1>2. PICK c \in CommType : Used(c)
  BY <1>1, InUse
<1>3. PICK p : p = IF c.running THEN c.pc ELSE "ask"
  OBVIOUS
<1>4. p \in Pcs
  BY <1>2, <1>3 DEF Used, Pcs
<1>5. PICK r : r = [c EXCEPT !.data = npkt, !.running = TRUE, !.pc = p]
  OBVIOUS
<1>6. r \in CommType
  BY <1>2, <1>4, <1>5, Updates DEF Used
<1>7. /\ r.data = npkt /\ r.running /\ r.pc = p
      /\ r.end = c.end /\ r.deleted = c.deleted /\ r.stream = c.stream
      /\ r.fdData = c.fdData /\ r.fdAns = c.fdAns /\ r.ansOpen = c.ansOpen
      /\ r.endPos = c.endPos /\ r.ops = c.ops
  BY <1>5 DEF CommType
<1>8. comm' = [comm EXCEPT ![cur] = r]
  BY <1>2, <1>3, <1>5 DEF Store, Used
<1>9. fa'.pc = (IF c.running THEN "give" ELSE "init") /\ fa' \in FaType
  BY <1>2 DEF Store, FaType, Used
<1>10. Turn(r)'
  BY <1>1, <1>2, <1>3, <1>7, <1>9 DEF Used, Turn, Fresh, Waits, Starts
<1>11. Contents(r)'
  BY <1>1, <1>2, <1>7, <1>9 DEF Used, Contents, Given, Store
<1>12. Closed(r) /\ ~r.deleted
  BY <1>1, <1>2, <1>3, <1>7 DEF Used, Closed, Turn, Fresh, Waits
<1>. QED
  BY <1>1, <1>2, <1>6, <1>7, <1>8, <1>9, <1>10, <1>11, <1>12, CurStep
  DEF Store, Used, FaType

(* Await and AwaitInit read the answers.                                   *)
LEMMA Read ==
  ASSUME NEW c \in CommType
  PROVE  c.fdAns # <<>> =>
           /\ Tail(c.fdAns) \in Seq({MOREDATA, QUIT})
           /\ Head(c.fdAns) \in {MOREDATA, QUIT}
BY DEF CommType

LEMMA AwaitInitInv == CommInv /\ AwaitInit => CommInv' /\ Kept
<1>. SUFFICES ASSUME CommInv, AwaitInit PROVE CommInv' /\ Kept
  OBVIOUS
<1>1. fa.pc = "init"
  BY DEF AwaitInit, FaAt
<1>2. PICK c \in CommType : Used(c)
  BY <1>1, InUse
<1>3. c.fdAns = <<MOREDATA>> /\ c.pc = "wait" /\ Tail(c.fdAns) = <<>>
  <2>1. Starts(c) /\ c.ansOpen
    BY <1>1, <1>2 DEF Used, Turn, Starts, Closed, CommType
  <2>2. c.fdAns = <<MOREDATA>> /\ c.pc = "wait"
    BY <1>2, <2>1 DEF AwaitInit, Used, Starts
  <2>. QED BY <2>2
<1>4. PICK r : r = [c EXCEPT !.fdAns = <<>>]
  OBVIOUS
<1>5. r \in CommType
  <2>1. <<>> \in Seq({MOREDATA, QUIT})
    OBVIOUS
  <2>. QED BY <1>2, <1>4, <2>1, Answers DEF Used
<1>6. /\ r.data = c.data /\ r.running = c.running /\ r.endPos = c.endPos
      /\ r.ops = c.ops /\ r.end = c.end /\ r.deleted = c.deleted
      /\ r.fdData = c.fdData /\ r.ansOpen = c.ansOpen /\ r.pc = c.pc
      /\ r.stream = c.stream /\ r.fdAns = <<>>
  BY <1>4 DEF CommType
<1>7. comm' = [comm EXCEPT ![cur] = r]
  BY <1>2, <1>3, <1>4 DEF AwaitInit, Used
<1>8. fa'.pc = "give" /\ fa' \in FaType
  BY <1>2 DEF AwaitInit, FaType, Used
<1>9. Turn(r)'
  BY <1>1, <1>2, <1>3, <1>6, <1>8 DEF Used, Turn, Starts, Waits
<1>10. Contents(r)'
  BY <1>1, <1>2, <1>6, <1>8 DEF Used, Contents, Given, AwaitInit
<1>11. Closed(r) /\ ~r.deleted
  BY <1>2, <1>6 DEF Used, Closed
<1>. QED
  BY <1>1, <1>2, <1>5, <1>6, <1>7, <1>8, <1>9, <1>10, <1>11, CurStep
  DEF AwaitInit, Used, FaType

LEMMA GiveInv == CommInv /\ Give => CommInv' /\ Kept
<1>. SUFFICES ASSUME CommInv, Give PROVE CommInv' /\ Kept
  OBVIOUS
<1>1. fa.pc = "give"
  BY DEF Give, FaAt
<1>2. PICK c \in CommType : Used(c)
  BY <1>1, InUse
<1>3. Waits(c)
  BY <1>1, <1>2 DEF Used, Turn
<1>4. PICK r : r = [c EXCEPT !.fdData = Append(@, ADDDATA)]
  OBVIOUS
<1>5. r \in CommType
  BY <1>2, <1>4, Updates DEF Used
<1>6. /\ r.data = c.data /\ r.running = c.running /\ r.endPos = c.endPos
      /\ r.ops = c.ops /\ r.end = c.end /\ r.deleted = c.deleted
      /\ r.fdAns = c.fdAns /\ r.ansOpen = c.ansOpen /\ r.pc = c.pc
      /\ r.stream = c.stream /\ r.fdData = <<ADDDATA>>
  <2>1. Append(c.fdData, ADDDATA) = <<ADDDATA>>
    BY <1>3 DEF Waits
  <2>2. PICK s : s = Append(c.fdData, ADDDATA)
    OBVIOUS
  <2>3. r = [c EXCEPT !.fdData = s]
    BY <1>4, <2>2
  <2>. QED BY <2>1, <2>2, <2>3 DEF CommType
<1>7. comm' = [comm EXCEPT ![cur] = r]
  BY <1>2, <1>4 DEF Give, Used
<1>8. fa'.pc = "await" /\ fa' \in FaType
  BY <1>2 DEF Give, FaType, Used
<1>9. Turn(r)'
  BY <1>3, <1>6, <1>8 DEF Turn, Works, Waits
<1>10. Contents(r)'
  BY <1>1, <1>2, <1>6, <1>8 DEF Used, Contents, Given, Give
<1>11. Closed(r) /\ ~r.deleted
  BY <1>2, <1>6 DEF Used, Closed
<1>. QED
  BY <1>1, <1>2, <1>5, <1>6, <1>7, <1>8, <1>9, <1>10, <1>11, CurStep
  DEF Give, Used, FaType

LEMMA AwaitInv == CommInv /\ Await => CommInv' /\ Kept
<1>. SUFFICES ASSUME CommInv, Await PROVE CommInv' /\ Kept
  OBVIOUS
<1>1. fa.pc = "await"
  BY DEF Await, FaAt
<1>2. PICK c \in CommType : Used(c)
  BY <1>1, InUse
<1>3. Works(c) /\ (Given(c.stream) <=> c.fdData = <<>>) /\ c.data = npkt
  BY <1>1, <1>2 DEF Used, Turn, Contents
<1>4. fa' \in FaType /\ fa'.pc = "collect"
  BY <1>2 DEF Await, FaType, Used
<1>5. CASE c.fdAns # <<>>
  <2>1. PICK s : s = Tail(c.fdAns)
    OBVIOUS
  <2>2. PICK r : r = [c EXCEPT !.fdAns = s]
    OBVIOUS
  <2>3. s \in Seq({MOREDATA, QUIT})
    BY <1>5, <2>1, Read
  <2>4. r \in CommType
    BY <1>2, <2>2, <2>3, Answers DEF Used
  <2>5. /\ r.data = c.data /\ r.running = c.running /\ r.endPos = c.endPos
        /\ r.ops = c.ops /\ r.end = c.end /\ r.deleted = c.deleted
        /\ r.fdData = c.fdData /\ r.ansOpen = c.ansOpen /\ r.pc = c.pc
        /\ r.stream = c.stream /\ r.fdAns = s
    BY <2>2 DEF CommType
  <2>6. comm' = [comm EXCEPT ![cur] = r]
    BY <1>2, <1>5, <2>1, <2>2 DEF Await, Used
  <2>7. fa'.ans = IF Head(c.fdAns) = QUIT THEN -1 ELSE 0
    BY <1>2, <1>5 DEF Await, Used, FaType
  <2>8. ASSUME c.pc = "wait" PROVE Turn(r)'
    <3>1. c.fdAns = <<MOREDATA>> /\ c.fdData = <<>>
      BY <1>3, <1>5, <2>8 DEF Works, Ended
    <3>2. s = <<>> /\ Head(c.fdAns) # QUIT
      BY <2>1, <3>1 DEF MOREDATA, QUIT
    <3>3. Waits(r)
      BY <1>3, <2>5, <2>8, <3>1, <3>2 DEF Waits, Works
    <3>. QED BY <1>3, <1>4, <2>5, <2>7, <3>2, <3>3 DEF Turn, Waits
  <2>9. ASSUME c.pc # "wait" PROVE Turn(r)'
    <3>1. Ended(c) /\ c.fdAns \in Seq({QUIT})
      BY <1>3, <1>5, <2>9 DEF Works
    <3>2. Head(c.fdAns) = QUIT
      BY <1>5, <3>1
    <3>. QED BY <1>3, <1>4, <2>5, <2>7, <3>1, <3>2 DEF Turn, Works, Ended
  <2>10. Turn(r)'
    BY <2>8, <2>9
  <2>11. c.fdData = <<>>
    BY <1>3, <1>5 DEF Works
  <2>12. Contents(r)'
    BY <1>3, <1>4, <2>5, <2>11 DEF Contents, Given, Await
  <2>13. Closed(r) /\ ~r.deleted
    BY <1>2, <2>5 DEF Used, Closed
  <2>. QED
    BY <1>1, <1>2, <1>4, <2>4, <2>5, <2>6, <2>10, <2>12, <2>13, CurStep
    DEF Await, Used, FaType
<1>6. CASE c.fdAns = <<>>
  <2>1. comm' = comm /\ fa'.ans = -1 /\ ~c.ansOpen
    BY <1>2, <1>6 DEF Await, Used, FaType
  <2>2. comm' = [comm EXCEPT ![cur] = c]
    BY <1>2, <2>1 DEF Used
  <2>3. c.pc = "gone"
    BY <1>2, <2>1 DEF Used, Closed
  <2>4. Turn(c)' /\ c.fdData = <<>>
    BY <1>3, <1>4, <2>1, <2>3 DEF Turn, Ended, Works
  <2>5. Contents(c)'
    BY <1>3, <1>4, <2>4 DEF Contents, Given, Await
  <2>. QED
    BY <1>1, <1>2, <1>4, <2>2, <2>4, <2>5, CurStep DEF Await, Used, FaType
<1>. QED BY <1>5, <1>6

LEMMA CollectInv ==
  ASSUME CommInv, Collect
  PROVE  /\ CommInv' /\ Others /\ comm'[cur].stream = comm[cur].stream
         /\ comm'[cur].end \in BOOLEAN /\ returned' = found /\ found' = found
         /\ ~comm[cur].end /\ Given(comm[cur].stream) /\ cur \in DOMAIN comm
<1>1. fa.pc = "collect"
  BY DEF Collect, FaAt
<1>2. PICK c \in CommType : Used(c)
  BY <1>1, InUse
<1>3. /\ ~c.end /\ Given(c.stream)
      /\ IF fa.ans = 0 THEN Waits(c) ELSE Ended(c)
  BY <1>1, <1>2 DEF Used, Turn, Contents
<1>4. PICK e \in BOOLEAN : e = (c.end \/ fa.ans < 0)
  BY <1>2 DEF CommType
<1>5. PICK r : r = [c EXCEPT !.end = e, !.ops = <<>>]
  OBVIOUS
<1>6. r \in CommType
  BY <1>2, <1>4, <1>5, Updates DEF Used
<1>7. /\ r.data = c.data /\ r.running = c.running /\ r.endPos = c.endPos
      /\ r.deleted = c.deleted /\ r.fdData = c.fdData /\ r.fdAns = c.fdAns
      /\ r.ansOpen = c.ansOpen /\ r.pc = c.pc /\ r.stream = c.stream
      /\ r.end = e /\ r.ops = <<>>
  BY <1>5 DEF CommType
<1>8. comm' = [comm EXCEPT ![cur] = r]
  BY <1>2, <1>4, <1>5 DEF Collect, Used
<1>9. fa'.pc = "idle" /\ fa' \in FaType /\ fa.ans \in {-1, 0}
  BY <1>2 DEF Collect, FaType, Used
<1>10. Turn(r)'
  <2>1. CASE fa.ans = 0
    <3>. ~(fa.ans < 0)
      BY <2>1
    <3>1. ~e
      BY Zenon, <1>3, <1>4
    <3>2. Waits(r)
      BY <1>3, <1>7, <2>1, <3>1 DEF Waits
    <3>. QED BY <1>7, <1>9, <3>1, <3>2 DEF Turn
  <2>2. CASE fa.ans = -1
    <3>. fa.ans < 0
      BY <2>2
    <3>1. e
      BY Zenon, <1>4
    <3>2. Ended(r)
      BY <1>3, <1>7, <2>2, <3>1 DEF Ended
    <3>. QED BY <1>7, <1>9, <3>1, <3>2 DEF Turn
  <2>. QED BY <1>9, <2>1, <2>2
<1>11. Contents(r)'
  BY <1>3, <1>7, <1>9 DEF Contents, Given
<1>12. Closed(r) /\ ~r.deleted
  BY <1>2, <1>7 DEF Used, Closed
<1>13. returned' = found /\ found' = found /\ found' = returned' \o r.ops
  BY <1>2, <1>7 DEF Collect, Used
<1>14. CommInv' /\ Others /\ comm'[cur] = r
  BY <1>1, <1>2, <1>6, <1>7, <1>8, <1>9, <1>10, <1>11, <1>12, <1>13, CurStep
  DEF Collect, Used, FaType
<1>15. c = comm[cur] /\ cur \in DOMAIN comm
  BY <1>2 DEF Used
<1>. QED BY <1>3, <1>4, <1>7, <1>13, <1>14, <1>15
(* A packet more: no parser has been given it, and a new one is as the     *)
(* constructors leave it.                                                  *)
Older(c) == c.stream # <<>> => c.stream[Len(c.stream)] # npkt + 1

LEMMA OnePacketMore ==
  ASSUME npkt \in Nat, npkt' = npkt + 1, NEW c \in CommType
  PROVE  c \in CommType' /\ Older(c)
<1>1. /\ 0 .. npkt \subseteq 0 .. (npkt + 1)
      /\ 1 .. npkt \subseteq 1 .. (npkt + 1)
  OBVIOUS
<1>2. c.stream \in Seq(1 .. npkt) /\ c.stream \in Seq(1 .. (npkt + 1))
  <2>1. c.stream \in Seq(1 .. npkt)
    BY DEF CommType
  <2>. QED BY <1>1, <2>1
<1>3. c \in CommType'
  BY <1>1, <1>2 DEF CommType
<1>4. Older(c)
  <2>1. c.stream # <<>> => c.stream[Len(c.stream)] \in 1 .. npkt
    BY <1>2
  <2>. QED BY <2>1 DEF Older
<1>. QED BY <1>3, <1>4

LEMMA NewParser ==
  ASSUME npkt \in Nat, npkt' = npkt + 1
  PROVE  /\ NewComm \in CommType' /\ Closed(NewComm) /\ Fresh(NewComm)
         /\ ~NewComm.deleted /\ Older(NewComm) /\ NewComm.ops = <<>>
<1>1. \A T : <<>> \in Seq(T)
  OBVIOUS
<1>2. <<>> \in Seq(Nat) /\ <<>> \in Seq({ADDDATA}) /\ <<>> \in Seq({MOREDATA, QUIT})
      /\ <<>> \in Seq(1 .. (npkt + 1)) /\ 0 \in 0 .. (npkt + 1)
  BY <1>1
<1>3. NewComm \in CommType'
  BY <1>2 DEF NewComm, CommType
<1>. QED BY <1>3 DEF NewComm, Closed, Fresh, Older

(* What GetParser leaves behind, whichever parser it returns.              *)
LEMMA GotParser ==
  ASSUME CommInv, GetParser,
         NEW t, t \in Seq(CommType'), comm' = t, Len(t) > 0, Len(t) <= npkt',
         \A x \in DOMAIN t : Closed(t[x]) /\ Older(t[x]),
         \A x \in DOMAIN t : x # Len(t) => t[x].deleted /\ Ended(t[x]),
         ~t[Len(t)].deleted, Fresh(t[Len(t)]) \/ Waits(t[Len(t)]),
         t[Len(t)].ops = <<>>, found = returned
  PROVE  CommInv'
<1>1. fa \in FaType /\ fa'.pc = "store" /\ fa' \in FaType
  BY DEF CommInv, CommTypeOK, FaType, GetParser
<1>2. cur' = Len(t) /\ cur' > 0
  BY DEF cur
<1>3. CommTypeOK'
  <2>1. /\ npkt \in 0 .. MaxPkts /\ npkt < MaxPkts /\ npkt' = npkt + 1
        /\ size \in Seq(Sizes) /\ Len(size) = npkt
    BY DEF CommInv, CommTypeOK, GetParser
  <2>2. npkt' \in 0 .. MaxPkts
    BY <2>1, BoundsAssumption
  <2>3. Len(size') = npkt'
    BY <2>1 DEF GetParser
  <2>4. UNCHANGED <<found, returned, wild>> /\ found \in Seq(Nat)
        /\ returned \in Seq(Nat) /\ wild \in BOOLEAN
    BY DEF GetParser, CommInv, CommTypeOK
  <2>. QED BY <1>1, <1>2, <2>2, <2>3, <2>4 DEF CommTypeOK, FaType
<1>4. size' \in Seq(Sizes)
  BY DEF CommInv, GetParser
<1>5. Turn(comm[cur])'
  BY <1>1, <1>2 DEF Turn
<1>6. \A x \in DOMAIN t : ~Given(t[x].stream)'
  BY DEF Given, Older, GetParser
<1>7. ASSUME NEW x \in DOMAIN comm', x # cur' PROVE Left(comm[x])'
  BY <1>1, <1>2, <1>6, <1>7 DEF Left, Given
<1>8. found' = returned' \o comm'[cur'].ops
  <2>1. found' = found /\ returned' = returned /\ returned \in Seq(Nat)
    BY DEF CommInv, CommTypeOK, GetParser
  <2>. QED BY <1>2, <2>1
<1>9. \A x \in DOMAIN comm' : Closed(comm'[x])
  OBVIOUS
<1>10. ~comm'[cur'].deleted
  BY <1>2
<1>11. Contents(comm[cur])'
  BY <1>1, <1>2, <1>6 DEF Contents, Given
<1>. QED BY <1>2, <1>3, <1>4, <1>5, <1>7, <1>8, <1>9, <1>10, <1>11 DEF CommInv, Closed

LEMMA GetParserInv == CommInv /\ GetParser => CommInv'
<1>. SUFFICES ASSUME CommInv, GetParser PROVE CommInv'
  OBVIOUS
<1>1. fa.pc = "idle" /\ npkt \in Nat /\ npkt' = npkt + 1
  BY DEF GetParser, FaAt, CommInv, CommTypeOK
<1>2. comm \in Seq(CommType) /\ cur <= npkt /\ cur \in Nat
      /\ (\A x \in DOMAIN comm : comm[x] \in CommType)
  BY DEF CommInv, CommTypeOK, cur
<1>3. ASSUME NEW x \in DOMAIN comm
      PROVE  /\ comm[x] \in CommType' /\ Closed(comm[x]) /\ Older(comm[x])
             /\ x # cur => Left(comm[x])
  <2>1. comm[x] \in CommType /\ Closed(comm[x]) /\ (x # cur => Left(comm[x]))
    BY <1>2 DEF CommInv
  <2>. QED BY <1>1, <2>1, OnePacketMore
<1>4. CASE cur = 0
  <2>1. comm' = <<NewComm>>
    BY <1>4 DEF GetParser
  <2>2. found = returned
    BY <1>4 DEF CommInv
  <2>3. PICK t : t = <<NewComm>>
    OBVIOUS
  <2>4. t \in Seq(CommType') /\ Len(t) = 1 /\ DOMAIN t = {1} /\ t[1] = NewComm
    BY <1>1, <2>3, NewParser
  <2>5. \A x \in DOMAIN t : x = 1 /\ t[x] = NewComm
    BY <2>4
  <2>6. Len(t) <= npkt' /\ Len(t) > 0
    BY <1>1, <2>4
  <2>. QED BY <1>1, <2>1, <2>2, <2>3, <2>4, <2>5, <2>6, NewParser, GotParser
<1>5. CASE cur > 0
  <2>1. PICK c \in CommType : Used(c)
    BY <1>5, InUse
  <2>2. c.ops = <<>> /\ IF c.end THEN Ended(c) ELSE Waits(c)
    BY <1>1, <2>1 DEF Used, Turn, Contents
  <2>3. found = returned
    BY <2>1, <2>2 DEF Used
  <2>4. CASE c.end
    <3>1. PICK r : r = [c EXCEPT !.deleted = TRUE]
      OBVIOUS
    <3>2. r \in CommType /\ r.deleted /\ r.pc = c.pc /\ r.stream = c.stream
          /\ r.ansOpen = c.ansOpen
      BY <3>1 DEF CommType
    <3>3. r \in CommType' /\ Older(r) /\ Closed(r) /\ Ended(r)
      BY <1>1, <2>1, <2>2, <2>4, <3>2, OnePacketMore DEF Used, Closed, Ended
    <3>4. PICK s : s = [comm EXCEPT ![cur] = r]
      OBVIOUS
    <3>5. PICK t : t = Append(s, NewComm)
      OBVIOUS
    <3>6. comm' = t
      BY <1>5, <2>1, <2>4, <3>1, <3>4, <3>5 DEF GetParser, Used
    <3>7. comm \in Seq(CommType') /\ cur \in DOMAIN comm
      BY <1>2, <1>3, <2>1 DEF Used
    <3>8. /\ s \in Seq(CommType') /\ Len(s) = cur /\ DOMAIN s = DOMAIN comm
          /\ s[cur] = r /\ \A x \in DOMAIN comm : x # cur => s[x] = comm[x]
      BY <3>3, <3>4, <3>7, OneChanges DEF cur
    <3>9. NewComm \in CommType'
      BY <1>1, NewParser
    <3>10. /\ t \in Seq(CommType') /\ Len(t) = cur + 1 /\ t[cur + 1] = NewComm
           /\ \A x \in DOMAIN t : x # cur + 1 => x \in DOMAIN s /\ t[x] = s[x]
      BY <3>5, <3>8, <3>9
    <3>11. ASSUME NEW x \in DOMAIN t, x # cur + 1
           PROVE  Closed(t[x]) /\ Older(t[x]) /\ t[x].deleted /\ Ended(t[x])
      <4>1. x \in DOMAIN comm /\ t[x] = s[x]
        BY <3>8, <3>10, <3>11
      <4>2. CASE x = cur
        BY <3>2, <3>3, <3>8, <4>1, <4>2
      <4>3. CASE x # cur
        <5>1. t[x] = comm[x]
          BY <3>8, <4>1, <4>3
        <5>. QED BY <1>3, <4>1, <4>3, <5>1 DEF Left
      <4>. QED BY <4>2, <4>3
    <3>12. Len(t) <= npkt' /\ Len(t) > 0
      BY <1>1, <1>2, <3>10
    <3>. QED
      BY <1>1, <2>3, <3>6, <3>10, <3>11, <3>12, NewParser, GotParser
  <2>5. CASE ~c.end
    <3>1. comm' = comm
      BY <1>5, <2>1, <2>5 DEF GetParser, Used
    <3>2. comm \in Seq(CommType') /\ Len(comm) = cur /\ comm[cur] = c
      BY <1>2, <1>3, <2>1 DEF Used, cur
    <3>3. cur <= npkt'
      BY <1>1, <1>2
    <3>4. \A x \in DOMAIN comm : x # cur => comm[x].deleted /\ Ended(comm[x])
      BY DEF CommInv, Left
    <3>5. ~c.deleted /\ Waits(c)
      BY <2>1, <2>2, <2>5 DEF Used
    <3>. QED BY <1>3, <1>5, <2>2, <2>3, <3>1, <3>2, <3>3, <3>4, <3>5, GotParser
  <2>. QED BY <2>4, <2>5
<1>. QED BY <1>2, <1>4, <1>5
-----------------------------------------------------------------------------
(***************************************************************************)
(* The children.  That of a deleted parser quits, closes or runs on freed  *)
(* memory; every other step is one of the parser in use.                   *)
(***************************************************************************)
LEMMA WildInv ==
  ASSUME CommInv, UNCHANGED <<comm, fa, npkt, size, found, returned>>,
         wild' \in BOOLEAN
  PROVE  CommInv' /\ Kept
<1>1. cur' = cur /\ CommType' = CommType
  BY DEF cur, CommType
<1>2. CommTypeOK'
  BY <1>1 DEF CommInv, CommTypeOK
<1>3. \A g \in DOMAIN comm : Left(comm[g])' <=> Left(comm[g])
  BY DEF Left, Given
<1>4. (Turn(comm[cur])' <=> Turn(comm[cur])) /\ (Contents(comm[cur])' <=> Contents(comm[cur]))
  BY <1>1 DEF Turn, Contents, Given
<1>5. UNCHANGED <<comm, size, found, returned>>
  OBVIOUS
<1>6. CommInv'
  BY <1>1, <1>2, <1>3, <1>4, <1>5 DEF CommInv
<1>. QED BY <1>1, <1>6 DEF Kept

LEMMA InUseOrLeft ==
  ASSUME CommInv, NEW g \in DOMAIN comm
  PROVE  \/ g = cur /\ \E c \in CommType : Used(c)
         \/ g # cur /\ Left(comm[g]) /\ comm[g] \in CommType
BY Parsers, InUse

(* A child that has not ended is that of the parser in use.                *)
LEMMA Parsing ==
  ASSUME CommInv, NEW g \in DOMAIN comm, comm[g].pc \in {"ask", "wait", "parse"}
  PROVE  g = cur /\ \E c \in CommType : Used(c)
BY InUseOrLeft DEF Left, Ended

LEMMA AskInv ==
  ASSUME CommInv, NEW g \in DOMAIN comm, Ask(g) PROVE CommInv' /\ Kept
<1>1. comm[g].pc = "ask"
  BY DEF Ask, ChildAt
<1>2. PICK c \in CommType : Used(c)
  BY <1>1, Parsing
<1>3. g = cur /\ c = comm[g] /\ c.pc = "ask" /\ ~comm[g].deleted
  BY <1>1, <1>2, Parsing DEF Used
<1>4. /\ c.fdAns = <<>> /\ c.fdData = <<>> /\ c.running /\ ~c.end
      /\ (fa.pc = "init" /\ c.endPos = -1) \/ fa.pc = "await"
  BY <1>2, <1>3 DEF Used, Turn, Waits, Fresh, Starts, Works, Ended
<1>. DEFINE over == c.endPos > 0 /\ c.endPos <= c.total
<1>5. PICK a : a = IF over THEN QUIT ELSE MOREDATA
  OBVIOUS
<1>6. PICK p : p = IF over THEN "quit" ELSE "wait"
  OBVIOUS
<1>7. PICK s : s = <<a>>
  OBVIOUS
<1>8. s \in Seq({MOREDATA, QUIT}) /\ p \in Pcs /\ s = Append(c.fdAns, a)
  <2>1. a \in {MOREDATA, QUIT}
    BY <1>5
  <2>. QED BY <1>4, <1>6, <1>7, <2>1 DEF Pcs
<1>9. PICK r : r = [c EXCEPT !.fdAns = s, !.pc = p]
  OBVIOUS
<1>10. r \in CommType
  BY <1>2, <1>8, <1>9, Answers DEF Used
<1>11. /\ r.data = c.data /\ r.running = c.running /\ r.endPos = c.endPos
       /\ r.ops = c.ops /\ r.end = c.end /\ r.deleted = c.deleted
       /\ r.fdData = c.fdData /\ r.ansOpen = c.ansOpen /\ r.stream = c.stream /\ r.fdAns = s /\ r.pc = p
  BY <1>9 DEF CommType
<1>12. comm' = [comm EXCEPT ![cur] = r]
  <2>1. comm' = [comm EXCEPT ![cur].fdAns = Append(@, a), ![cur].pc = p]
    BY <1>3, <1>5, <1>6 DEF Ask, OnObject
  <2>. QED BY <1>2, <1>8, <1>9, <2>1 DEF Used
<1>13. fa' = fa /\ (fa.pc = "init" => ~over)
  BY <1>4 DEF Ask, ByChild
<1>14. Turn(r)'
  <2>1. CASE over
    <3>1. r.fdAns = <<QUIT>> /\ r.pc = "quit" /\ fa'.pc = "await"
      BY <1>4, <1>5, <1>6, <1>7, <1>11, <1>13, <2>1
    <3>2. r.fdAns \in Seq({QUIT})
      BY <3>1
    <3>. QED BY <1>4, <1>11, <3>1, <3>2 DEF Turn, Works, Ended
  <2>2. CASE ~over
    <3>1. r.fdAns = <<MOREDATA>> /\ r.pc = "wait"
      BY <1>5, <1>6, <1>7, <1>11, <2>2
    <3>. QED BY <1>4, <1>11, <1>13, <3>1 DEF Turn, Starts, Works
  <2>. QED BY <2>1, <2>2
<1>15. Contents(r)'
  BY <1>2, <1>3, <1>11, <1>13 DEF Used, Contents, Given, Ask, ByChild
<1>16. Closed(r) /\ ~r.deleted
  BY <1>2, <1>3, <1>6, <1>11 DEF Used, Closed
<1>. QED
  BY <1>2, <1>3, <1>10, <1>11, <1>12, <1>13, <1>14, <1>15, <1>16, CurStep
  DEF Ask, OnObject, ByChild, Used, FaType

LEMMA EndOfStreamInv ==
  ASSUME CommInv, NEW g \in DOMAIN comm, EndOfStream(g) PROVE CommInv' /\ Kept
<1>1. comm[g].pc = "parse"
  BY DEF EndOfStream, ChildAt
<1>2. PICK c \in CommType : Used(c)
  BY <1>1, Parsing
<1>3. g = cur /\ c = comm[g] /\ c.pc = "parse" /\ ~comm[g].deleted
  BY <1>1, <1>2, Parsing DEF Used
<1>4. fa.pc = "await" /\ c.fdAns = <<>> /\ c.fdData = <<>> /\ Works(c)
  BY <1>2, <1>3 DEF Used, Turn, Waits, Fresh, Starts, Works, Ended
<1>5. PICK r : r = [c EXCEPT !.pc = "ask"]
  OBVIOUS
<1>6. r \in CommType
  BY <1>2, <1>5, Updates DEF Used, Pcs
<1>7. /\ r.data = c.data /\ r.running = c.running /\ r.endPos = c.endPos
      /\ r.ops = c.ops /\ r.end = c.end /\ r.deleted = c.deleted
      /\ r.fdData = c.fdData /\ r.fdAns = c.fdAns /\ r.ansOpen = c.ansOpen
      /\ r.stream = c.stream /\ r.pc = "ask"
  BY <1>5 DEF CommType
<1>8. comm' = [comm EXCEPT ![cur] = r]
  BY <1>2, <1>3, <1>5 DEF EndOfStream, OnObject, Used
<1>9. fa' = fa
  BY DEF EndOfStream, ByChild
<1>10. Turn(r)'
  BY <1>4, <1>7, <1>9 DEF Turn, Works, Ended
<1>11. Contents(r)'
  BY <1>2, <1>3, <1>7, <1>9 DEF Used, Contents, Given, EndOfStream, ByChild
<1>12. Closed(r) /\ ~r.deleted
  BY <1>2, <1>3, <1>7 DEF Used, Closed
<1>. QED
  BY <1>2, <1>3, <1>6, <1>7, <1>8, <1>9, <1>10, <1>11, <1>12, CurStep
  DEF EndOfStream, OnObject, ByChild, Used, FaType

LEMMA EndOfParseInv ==
  ASSUME CommInv, NEW g \in DOMAIN comm, EndOfParse(g) PROVE CommInv' /\ Kept
<1>1. comm[g].pc = "parse"
  BY DEF EndOfParse, ChildAt
<1>2. PICK c \in CommType : Used(c)
  BY <1>1, Parsing
<1>3. g = cur /\ c = comm[g] /\ c.pc = "parse" /\ ~comm[g].deleted
  BY <1>1, <1>2, Parsing DEF Used
<1>4. fa.pc = "await" /\ c.fdAns = <<>> /\ c.fdData = <<>> /\ Works(c)
  BY <1>2, <1>3 DEF Used, Turn, Waits, Fresh, Starts, Works, Ended
<1>5. PICK r : r = [c EXCEPT !.pc = "quit"]
  OBVIOUS
<1>6. r \in CommType
  BY <1>2, <1>5, Updates DEF Used, Pcs
<1>7. /\ r.data = c.data /\ r.running = c.running /\ r.endPos = c.endPos
      /\ r.ops = c.ops /\ r.end = c.end /\ r.deleted = c.deleted
      /\ r.fdData = c.fdData /\ r.fdAns = c.fdAns /\ r.ansOpen = c.ansOpen
      /\ r.stream = c.stream /\ r.pc = "quit"
  BY <1>5 DEF CommType
<1>8. comm' = [comm EXCEPT ![cur] = r]
  BY <1>2, <1>3, <1>5 DEF EndOfParse, OnObject, Used
<1>9. fa' = fa
  BY DEF EndOfParse, ByChild
<1>10. Turn(r)'
  BY <1>4, <1>7, <1>9 DEF Turn, Works, Ended
<1>11. Contents(r)'
  BY <1>2, <1>3, <1>7, <1>9 DEF Used, Contents, Given, EndOfParse, ByChild
<1>12. Closed(r) /\ ~r.deleted
  BY <1>2, <1>3, <1>7 DEF Used, Closed
<1>. QED
  BY <1>2, <1>3, <1>6, <1>7, <1>8, <1>9, <1>10, <1>11, <1>12, CurStep
  DEF EndOfParse, OnObject, ByChild, Used, FaType

LEMMA Loaded ==
  ASSUME NEW c \in CommType, NEW s \in Seq({ADDDATA}), NEW t \in Nat,
         NEW q \in Seq(1 .. npkt)
  PROVE  [c EXCEPT !.fdData = s, !.total = t, !.stream = q, !.pc = "parse"] \in CommType
BY DEF CommType

LEMMA LoadInv ==
  ASSUME CommInv, NEW g \in DOMAIN comm, Load(g)
  PROVE  /\ CommInv' /\ Others /\ comm'[cur].end = comm[cur].end
         /\ comm'[cur].stream = Append(comm[cur].stream, npkt)
         /\ g = cur /\ cur \in DOMAIN comm /\ fa.pc = "await" /\ ~Given(comm[cur].stream)
<1>1. comm[g].pc = "wait"
  BY DEF Load, ChildAt
<1>2. PICK c \in CommType : Used(c)
  BY <1>1, Parsing
<1>3. g = cur /\ c = comm[g] /\ c.pc = "wait" /\ ~comm[g].deleted
  BY <1>1, <1>2, Parsing DEF Used
<1>4. fa.pc = "await" /\ c.fdAns = <<>> /\ c.fdData = <<ADDDATA>> /\ c.running /\ ~c.end
  BY <1>2, <1>3 DEF Load, Used, Turn, Waits, Fresh, Starts, Works, Ended
<1>5. /\ c.data = npkt /\ npkt \in 1 .. npkt
      /\ c.total \in Nat /\ c.stream \in Seq(1 .. npkt)
  BY <1>2, <1>4 DEF Used, Contents, CommType
<1>6. size[c.data] \in Nat
  <2>1. npkt \in DOMAIN size /\ size \in Seq(Sizes)
    BY <1>2, <1>5 DEF Used
  <2>2. size[npkt] \in Sizes
    BY <2>1
  <2>. QED BY <1>5, <2>2, SizesAssumption
<1>7. PICK n \in Nat : n = c.total + size[c.data]
  BY <1>5, <1>6
<1>8. PICK q \in Seq(1 .. npkt) : q = Append(c.stream, c.data)
  <2>1. Append(c.stream, c.data) \in Seq(1 .. npkt)
    <3>1. c.data \in 1 .. npkt
      BY <1>5
    <3>. QED BY <1>5, <3>1
  <2>. QED BY <2>1
<1>9. Given(q) /\ q # <<>>
  BY <1>5, <1>8 DEF Given
<1>10. PICK s \in Seq({ADDDATA}) : s = Tail(c.fdData) /\ s = <<>>
  <2>1. Tail(c.fdData) = <<>> /\ <<>> \in Seq({ADDDATA})
    BY <1>4
  <2>. QED BY <2>1
<1>11. PICK r : r = [c EXCEPT !.fdData = s, !.total = n, !.stream = q, !.pc = "parse"]
  OBVIOUS
<1>12. r \in CommType
  BY <1>11, Loaded
<1>13. /\ r.data = c.data /\ r.running = c.running /\ r.endPos = c.endPos
       /\ r.ops = c.ops /\ r.end = c.end /\ r.deleted = c.deleted
       /\ r.fdAns = c.fdAns /\ r.ansOpen = c.ansOpen
       /\ r.fdData = <<>> /\ r.pc = "parse" /\ r.stream = q
  BY <1>10, <1>11 DEF CommType
<1>14. comm' = [comm EXCEPT ![cur] = r]
  <2>1. comm' = [comm EXCEPT ![cur].fdData = s, ![cur].total = n,
                             ![cur].stream = q, ![cur].pc = "parse"]
    <3>1. comm' = [comm EXCEPT ![cur].fdData = Tail(@),
                     ![cur].total = @ + size[comm[cur].data],
                     ![cur].stream = Append(@, comm[cur].data), ![cur].pc = "parse"]
      BY <1>3 DEF Load, OnObject
    <3>. QED BY <1>2, <1>3, <1>7, <1>8, <1>10, <3>1 DEF Used
  <2>. QED BY <1>2, <1>11, <2>1 DEF Used
<1>15. fa' = fa
  BY DEF Load, ByChild
<1>16. Turn(r)'
  BY <1>4, <1>13, <1>15 DEF Turn, Works
<1>17. Contents(r)'
  BY <1>4, <1>5, <1>9, <1>13, <1>15 DEF Contents, Given, Load, ByChild
<1>18. Closed(r) /\ ~r.deleted
  BY <1>2, <1>3, <1>13 DEF Used, Closed
<1>19. UNCHANGED <<npkt, size, found, returned, wild>>
  BY <1>3 DEF Load, OnObject, ByChild
<1>20. CommInv' /\ Others /\ comm'[cur] = r
  BY <1>2, <1>12, <1>13, <1>14, <1>15, <1>16, <1>17, <1>18, <1>19, CurStep
  DEF Used, FaType
<1>21. ~Given(c.stream)
  BY <1>2, <1>4 DEF Used, Contents
<1>22. c = comm[cur] /\ cur \in DOMAIN comm
  BY <1>2 DEF Used
<1>23. r.stream = Append(c.stream, npkt) /\ r.end = c.end
  BY <1>5, <1>8, <1>13
<1>. QED BY <1>3, <1>4, <1>20, <1>21, <1>22, <1>23

LEMMA AppendConcat ==
  ASSUME NEW S, NEW a \in Seq(S), NEW b \in Seq(S), NEW x \in S
  PROVE  Append(a \o b, x) = a \o Append(b, x) /\ Append(a \o b, x) \in Seq(S)
OBVIOUS

LEMMA AddOperationInv ==
  ASSUME CommInv, NEW g \in DOMAIN comm, AddOperation(g) PROVE CommInv' /\ Kept
<1>1. comm[g].pc = "parse"
  BY DEF AddOperation, ChildAt
<1>2. PICK c \in CommType : Used(c)
  BY <1>1, Parsing
<1>3. g = cur /\ c = comm[g] /\ c.pc = "parse" /\ ~comm[g].deleted
  BY <1>1, <1>2, Parsing DEF Used
<1>4. fa.pc = "await" /\ c.fdAns = <<>> /\ c.fdData = <<>> /\ Works(c)
  BY <1>2, <1>3 DEF Used, Turn, Waits, Fresh, Starts, Works, Ended
<1>5. PICK n \in Nat : n = Len(found) + 1
  BY <1>2 DEF Used
<1>6. PICK r : r = [c EXCEPT !.ops = Append(@, n)]
  OBVIOUS
<1>7. r \in CommType
  <2>1. <<>> \in Seq({MOREDATA, QUIT})
    OBVIOUS
  <2>. QED BY <1>2, <1>6, <2>1, Answers DEF Used
<1>8. /\ r.data = c.data /\ r.running = c.running /\ r.endPos = c.endPos
      /\ r.end = c.end /\ r.deleted = c.deleted /\ r.fdData = c.fdData
      /\ r.fdAns = c.fdAns /\ r.ansOpen = c.ansOpen /\ r.pc = c.pc
      /\ r.stream = c.stream
      /\ r.ops = Append(c.ops, n)
  <2>1. PICK o : o = Append(c.ops, n)
    OBVIOUS
  <2>. QED BY <1>6, <2>1 DEF CommType
<1>9. comm' = [comm EXCEPT ![cur] = r]
  BY <1>2, <1>3, <1>5, <1>6 DEF AddOperation, OnObject, Used
<1>10. fa' = fa
  BY DEF AddOperation, ByChild
<1>11. Turn(r)'
  BY <1>3, <1>4, <1>8, <1>10 DEF Turn, Works
<1>12. Contents(r)'
  BY <1>2, <1>4, <1>8, <1>10 DEF Used, Contents, Given, AddOperation, ByChild
<1>13. Closed(r) /\ ~r.deleted
  BY <1>2, <1>8 DEF Used, Closed
<1>14. found' = returned' \o r.ops /\ found' \in Seq(Nat)
  <2>1. c.ops \in Seq(Nat) /\ returned \in Seq(Nat) /\ found = returned \o c.ops
    BY <1>2 DEF CommType, Used
  <2>2. found' = Append(found, n) /\ returned' = returned
    BY <1>5 DEF AddOperation, ByChild
  <2>3. /\ Append(returned \o c.ops, n) = returned \o Append(c.ops, n)
        /\ Append(returned \o c.ops, n) \in Seq(Nat)
    <3>. DEFINE o == c.ops
    <3>1. o \in Seq(Nat)
      BY <2>1
    <3>. HIDE DEF o
    <3>2. /\ Append(returned \o o, n) = returned \o Append(o, n)
          /\ Append(returned \o o, n) \in Seq(Nat)
      BY <2>1, <3>1, AppendConcat
    <3>. QED BY <3>2 DEF o
  <2>. QED BY <1>8, <2>1, <2>2, <2>3
<1>. QED
  BY <1>2, <1>3, <1>7, <1>8, <1>9, <1>10, <1>11, <1>12, <1>13, <1>14, CurStep
  DEF AddOperation, OnObject, ByChild, Used, FaType

LEMMA SetLengthEndInv ==
  ASSUME CommInv, NEW g \in DOMAIN comm, SetLengthEnd(g) PROVE CommInv' /\ Kept
<1>1. comm[g].pc = "parse"
  BY DEF SetLengthEnd, ChildAt
<1>2. PICK c \in CommType : Used(c)
  BY <1>1, Parsing
<1>3. g = cur /\ c = comm[g] /\ c.pc = "parse" /\ ~comm[g].deleted
  BY <1>1, <1>2, Parsing DEF Used
<1>4. fa.pc = "await" /\ c.fdAns = <<>> /\ c.fdData = <<>> /\ Works(c)
  BY <1>2, <1>3 DEF Used, Turn, Waits, Fresh, Starts, Works, Ended
<1>5. PICK e \in EndPositions :
        comm' = [comm EXCEPT ![g].endPos = e] /\ UNCHANGED wild
  BY <1>3 DEF SetLengthEnd, OnObject
<1>6. PICK r : r = [c EXCEPT !.endPos = e]
  OBVIOUS
<1>7. r \in CommType
  BY <1>2, <1>6, PositionsAssumption, Updates DEF Used
<1>8. /\ r.data = c.data /\ r.running = c.running /\ r.ops = c.ops
      /\ r.end = c.end /\ r.deleted = c.deleted /\ r.fdData = c.fdData
      /\ r.fdAns = c.fdAns /\ r.ansOpen = c.ansOpen /\ r.pc = c.pc
      /\ r.stream = c.stream
  BY <1>6 DEF CommType
<1>9. comm' = [comm EXCEPT ![cur] = r]
  BY <1>2, <1>3, <1>5, <1>6 DEF Used
<1>10. fa' = fa
  BY DEF SetLengthEnd, ByChild
<1>11. Turn(r)'
  BY <1>3, <1>4, <1>8, <1>10 DEF Turn, Works
<1>12. Contents(r)'
  BY <1>2, <1>4, <1>8, <1>10 DEF Used, Contents, Given, SetLengthEnd, ByChild
<1>13. Closed(r) /\ ~r.deleted
  BY <1>2, <1>8 DEF Used, Closed
<1>14. UNCHANGED <<npkt, size, found, returned, wild>>
  BY <1>5 DEF SetLengthEnd, ByChild
<1>15. c = comm[cur] /\ cur > 0 /\ fa \in FaType /\ found = returned \o c.ops
       /\ found \in Seq(Nat) /\ returned \in Seq(Nat)
  BY <1>2 DEF Used
<1>. QED
  BY <1>7, <1>8, <1>9, <1>10, <1>11, <1>12, <1>13, <1>14, <1>15, CurStep DEF FaType

LEMMA QuitInv ==
  ASSUME CommInv, NEW g \in DOMAIN comm, Quit(g) PROVE CommInv' /\ Kept
<1>1. comm[g].pc = "quit"
  BY DEF Quit, ChildAt
<1>2. PICK c \in CommType : c = comm[g] /\ Closed(c) /\ comm \in Seq(CommType)
  BY Parsers
<1>3. PICK s \in Seq({MOREDATA, QUIT}) : s = Append(c.fdAns, QUIT)
  <2>1. c.fdAns \in Seq({MOREDATA, QUIT}) /\ QUIT \in {MOREDATA, QUIT}
    BY <1>2 DEF CommType
  <2>2. Append(c.fdAns, QUIT) \in Seq({MOREDATA, QUIT})
    BY <2>1
  <2>. QED BY <2>2
<1>4. PICK r : r = [c EXCEPT !.fdAns = s, !.pc = "close"]
  OBVIOUS
<1>5. r \in CommType
  BY <1>3, <1>4, Answers DEF Pcs
<1>6. /\ r.data = c.data /\ r.running = c.running /\ r.endPos = c.endPos
      /\ r.ops = c.ops /\ r.end = c.end /\ r.deleted = c.deleted
      /\ r.fdData = c.fdData /\ r.ansOpen = c.ansOpen /\ r.stream = c.stream
      /\ r.fdAns = s /\ r.pc = "close"
  BY <1>4 DEF CommType
<1>7. \/ comm' = [comm EXCEPT ![g] = r] /\ UNCHANGED wild
      \/ g # cur /\ comm' = comm /\ wild' \in BOOLEAN
  <2>1. ~comm[g].deleted \/ g # cur
    BY InUseOrLeft DEF Used
  <2>. QED BY <1>2, <1>3, <1>4, <2>1 DEF Quit, OnObject
<1>8. UNCHANGED <<fa, npkt, size, found, returned>>
  BY DEF Quit, ByChild
<1>9. CASE comm' = comm /\ wild' \in BOOLEAN
  BY <1>8, <1>9, WildInv
<1>10. CASE comm' = [comm EXCEPT ![g] = r] /\ UNCHANGED wild /\ g # cur
  <2>1. Left(comm[g])
    BY <1>10, InUseOrLeft
  <2>2. Closed(r) /\ Ended(r) /\ r.deleted /\ r.stream = comm[g].stream
        /\ r.end = comm[g].end
    BY <1>1, <1>2, <1>6, <2>1 DEF Closed, Ended, Left
  <2>. QED BY <1>5, <1>8, <1>10, <2>2, LeftStep
<1>11. CASE comm' = [comm EXCEPT ![g] = r] /\ UNCHANGED wild /\ g = cur
  <2>1. Used(c)
    BY <1>2, <1>11, InUseOrLeft DEF Used
  <2>2. /\ c.pc = "quit" /\ Ended(r)
        /\ \/ fa.pc \in {"idle", "collect"}
           \/ fa.pc = "await" /\ c.running /\ ~c.end /\ c.fdData = <<>> /\ c.fdAns \in Seq({QUIT})
    BY <1>1, <1>2, <1>6, <2>1 DEF Used, Turn, Fresh, Waits, Starts, Works, Ended
  <2>3. Turn(r)'
    <3>1. CASE fa.pc = "idle"
      BY <1>6, <1>8, <2>1, <2>2, <3>1 DEF Used, Turn, Ended, Waits
    <3>2. CASE fa.pc = "collect"
      BY <1>6, <1>8, <2>1, <2>2, <3>2 DEF Used, Turn, Ended, Waits
    <3>3. CASE fa.pc = "await"
      <4>1. r.fdAns \in Seq({QUIT}) /\ r.fdAns # <<>>
        <5>1. c.fdAns \in Seq({QUIT}) /\ QUIT \in {QUIT}
          BY <2>2, <3>3
        <5>2. Append(c.fdAns, QUIT) \in Seq({QUIT}) /\ Append(c.fdAns, QUIT) # <<>>
          BY <5>1
        <5>. QED BY <1>3, <1>6, <5>2
      <4>2. Works(r)
        BY <1>6, <2>2, <3>3, <4>1 DEF Works, Ended
      <4>. QED BY <1>8, <3>3, <4>2 DEF Turn
    <3>. QED BY <2>2, <3>1, <3>2, <3>3
  <2>4. Contents(r)'
    BY <1>6, <1>8, <2>1 DEF Used, Contents, Given
  <2>5. Closed(r) /\ ~r.deleted
    BY <1>2, <1>6, <2>1, <2>2 DEF Used, Closed
  <2>. QED
    BY <1>5, <1>6, <1>8, <1>11, <2>1, <2>3, <2>4, <2>5, CurStep DEF Used, FaType
<1>. QED BY <1>7, <1>9, <1>10, <1>11

LEMMA CloseInv ==
  ASSUME CommInv, NEW g \in DOMAIN comm, Close(g) PROVE CommInv' /\ Kept
<1>1. comm[g].pc = "close"
  BY DEF Close, ChildAt
<1>2. PICK c \in CommType : c = comm[g] /\ Closed(c) /\ comm \in Seq(CommType)
  BY Parsers
<1>4. PICK r : r = [c EXCEPT !.ansOpen = FALSE, !.pc = "gone"]
  OBVIOUS
<1>5. r \in CommType
  BY <1>4 DEF CommType
<1>6. /\ r.data = c.data /\ r.running = c.running /\ r.endPos = c.endPos
      /\ r.ops = c.ops /\ r.end = c.end /\ r.deleted = c.deleted
      /\ r.fdData = c.fdData /\ r.fdAns = c.fdAns /\ r.stream = c.stream
      /\ ~r.ansOpen /\ r.pc = "gone"
  BY <1>4 DEF CommType
<1>7. \/ comm' = [comm EXCEPT ![g] = r] /\ UNCHANGED wild
      \/ g # cur /\ comm' = comm /\ wild' \in BOOLEAN
  <2>1. ~comm[g].deleted \/ g # cur
    BY InUseOrLeft DEF Used
  <2>. QED BY <1>2, <1>4, <2>1 DEF Close, OnObject
<1>8. UNCHANGED <<fa, npkt, size, found, returned>>
  BY DEF Close, ByChild
<1>9. CASE comm' = comm /\ wild' \in BOOLEAN
  BY <1>8, <1>9, WildInv
<1>10. CASE comm' = [comm EXCEPT ![g] = r] /\ UNCHANGED wild /\ g # cur
  <2>1. Left(comm[g])
    BY <1>10, InUseOrLeft
  <2>2. Closed(r) /\ Ended(r) /\ r.deleted /\ r.stream = comm[g].stream
        /\ r.end = comm[g].end
    BY <1>1, <1>2, <1>6, <2>1 DEF Closed, Ended, Left
  <2>. QED BY <1>5, <1>8, <1>10, <2>2, LeftStep
<1>11. CASE comm' = [comm EXCEPT ![g] = r] /\ UNCHANGED wild /\ g = cur
  <2>1. Used(c)
    BY <1>2, <1>11, InUseOrLeft DEF Used
  <2>2. /\ c.pc = "close" /\ Ended(r)
        /\ \/ fa.pc \in {"idle", "collect"}
           \/ fa.pc = "await" /\ c.running /\ ~c.end /\ c.fdData = <<>> /\ c.fdAns \in Seq({QUIT})
    BY <1>1, <1>2, <1>6, <2>1 DEF Used, Turn, Fresh, Waits, Starts, Works, Ended
  <2>3. Turn(r)'
    <3>1. CASE fa.pc = "idle"
      BY <1>6, <1>8, <2>1, <2>2, <3>1 DEF Used, Turn, Ended, Waits
    <3>2. CASE fa.pc = "collect"
      BY <1>6, <1>8, <2>1, <2>2, <3>2 DEF Used, Turn, Ended, Waits
    <3>3. CASE fa.pc = "await"
      <4>1. r.fdAns \in Seq({QUIT}) /\ r.fdAns # <<>>
        BY <1>6, <2>1, <2>2, <3>3 DEF Used, Turn, Works, Ended
      <4>2. Works(r)
        BY <1>6, <2>2, <3>3, <4>1 DEF Works, Ended
      <4>. QED BY <1>8, <3>3, <4>2 DEF Turn
    <3>. QED BY <2>2, <3>1, <3>2, <3>3
  <2>4. Contents(r)'
    BY <1>6, <1>8, <2>1 DEF Used, Contents, Given
  <2>5. Closed(r) /\ ~r.deleted
    BY <1>2, <1>6, <2>1, <2>2 DEF Used, Closed
  <2>. QED
    BY <1>5, <1>6, <1>8, <1>11, <2>1, <2>3, <2>4, <2>5, CurStep DEF Used, FaType
<1>. QED BY <1>7, <1>9, <1>10, <1>11
-----------------------------------------------------------------------------
LEMMA CommNextInv == CommInv /\ [CommNext]_commVars => CommInv'
<1>. SUFFICES ASSUME CommInv, [CommNext]_commVars PROVE CommInv'
  OBVIOUS
<1>1. CASE GetParser
  BY <1>1, GetParserInv
<1>2. CASE Father
  BY <1>2, StoreInv, AwaitInitInv, GiveInv, AwaitInv, CollectInv DEF Father
<1>3. ASSUME NEW g \in DOMAIN comm, Child(g) PROVE CommInv'
  BY <1>3, AskInv, LoadInv, AddOperationInv, SetLengthEndInv, EndOfStreamInv,
     EndOfParseInv, QuitInv, CloseInv DEF Child
<1>4. CASE UNCHANGED commVars
  <2>1. UNCHANGED <<comm, fa, npkt, size, found, returned>> /\ wild' \in BOOLEAN
    BY <1>4, Zenon DEF commVars, CommInv, CommTypeOK
  <2>. QED BY <2>1, WildInv
<1>. QED BY <1>1, <1>2, <1>3, <1>4 DEF CommNext

LEMMA CommInvAlways == CommSpec => []CommInv
BY CommInitInv, CommNextInv, PTL DEF CommSpec

(***************************************************************************)
(* The state of the protocol stays within its types: an answer is only     *)
(* ever QUIT or MOREDATA, a content one of a packet that has arrived, and  *)
(* there is a parser for every content given out (communicator.cc:40-133). *)
(***************************************************************************)
THEOREM CommTypes == CommSpec => []CommTypeOK
BY CommInvAlways, PTL DEF CommInv

(***************************************************************************)
(* Without a lock on data_ and ops, no child is about to touch them while  *)
(* the father is outside addData or has come back from it: the pipes keep  *)
(* the two threads apart (communicator.cc:40-96, parser.cc:30-37).         *)
(***************************************************************************)
THEOREM HandOffHolds == CommSpec => []HandOff
<1>1. CommInv => HandOff
  <2>. SUFFICES ASSUME CommInv, fa.pc \in {"idle", "store", "collect"},
                       NEW g \in DOMAIN comm
                PROVE  ~UsesShared(g)
    BY DEF HandOff
  <2>1. CASE g = cur /\ \E c \in CommType : Used(c)
    BY <2>1 DEF Used, Turn, Waits, Ended, Fresh, UsesShared
  <2>2. CASE Left(comm[g])
    BY <2>2 DEF Left, Ended, UsesShared
  <2>. QED BY <2>1, <2>2, InUseOrLeft
<1>. QED BY <1>1, CommInvAlways, PTL

(***************************************************************************)
(* The child of a deleted parser is past its grammar: it never again reads *)
(* data_ or adds an operation (flow.cc:29-32, communicator.cc:117-126).    *)
(***************************************************************************)
THEOREM DeletedOnlyQuitsHolds == CommSpec => []DeletedOnlyQuits
<1>1. CommInv => DeletedOnlyQuits
  BY InUseOrLeft DEF DeletedOnlyQuits, Left, Ended, Used
<1>. QED BY <1>1, CommInvAlways, PTL
-----------------------------------------------------------------------------
(***************************************************************************)
(* Father, child and pipes amount to a call.  The state of ParserSession   *)
(* that the refinement mapping reads off:                                  *)
(***************************************************************************)
Seen == [g \in 1 .. (IF Unused THEN cur - 1 ELSE cur) |-> Acknowledged(g)]

Over == IF cur = 0 \/ Unused THEN TRUE ELSE comm[cur].end

LEMMA Streams ==
  ASSUME CommInv
  PROVE  /\ DOMAIN comm = 1 .. cur /\ cur \in Nat /\ npkt \in Nat
         /\ \A g \in 1 .. cur :
              comm[g].stream \in Seq(1 .. npkt) /\ comm[g].end \in BOOLEAN
         /\ \A g \in 1 .. cur : g # cur => Acknowledged(g) = comm[g].stream
<1>1. comm \in Seq(CommType) /\ npkt \in Nat
  BY DEF CommInv, CommTypeOK
<1>2. DOMAIN comm = 1 .. cur /\ cur \in Nat
  BY <1>1 DEF cur
<1>3. ASSUME NEW g \in 1 .. cur
      PROVE  comm[g].stream \in Seq(1 .. npkt) /\ comm[g].end \in BOOLEAN
  <2>1. comm[g] \in CommType
    BY <1>1, <1>2
  <2>. QED BY <2>1 DEF CommType
<1>4. ASSUME NEW g \in 1 .. cur, g # cur
      PROVE  Acknowledged(g) = comm[g].stream
  <2>1. Left(comm[g])
    BY <1>2, <1>4 DEF CommInv
  <2>. QED BY <2>1 DEF Left, Given, Acknowledged
<1>. QED BY <1>1, <1>2, <1>3, <1>4

(* A step inside addData() that gives the scanner nothing is not seen.     *)
LEMMA KeptSeen ==
  ASSUME CommInv, Kept, fa'.pc = "idle" <=> fa.pc = "idle"
  PROVE  Seen' = Seen /\ Over' = Over
<1>1. cur' = cur /\ npkt' = npkt /\ cur \in Nat /\ DOMAIN comm = 1 .. cur
  BY Streams DEF Kept
<1>2. ASSUME NEW g \in 1 .. cur
      PROVE  Acknowledged(g)' = Acknowledged(g) /\ comm'[g].end = comm[g].end
  BY <1>1, <1>2 DEF Kept, Acknowledged
<1>3. cur > 0 => cur \in 1 .. cur
  BY <1>1
<1>4. Unused' <=> Unused
  BY <1>1, <1>2, <1>3 DEF Unused
<1>5. Seen' = Seen
  <2>. DEFINE n == IF Unused THEN cur - 1 ELSE cur
  <2>1. n' = n /\ \A g \in 1 .. n : g \in 1 .. cur
    BY <1>1, <1>4
  <2>. HIDE DEF n
  <2>2. [g \in 1 .. n' |-> Acknowledged(g)'] = [g \in 1 .. n |-> Acknowledged(g)]
    BY <1>2, <2>1
  <2>. QED BY <2>2 DEF Seen, n
<1>6. Over' = Over
  <2>1. CASE cur = 0 \/ Unused
    BY <1>1, <1>4, <2>1 DEF Over
  <2>2. CASE cur # 0 /\ ~Unused
    <3>1. comm'[cur'].end = comm[cur].end
      BY <1>1, <1>2, <1>3, <2>2
    <3>. QED BY <1>1, <1>4, <2>2, <3>1 DEF Over
  <2>. QED BY <2>1, <2>2
<1>. QED BY <1>5, <1>6

(* A parser is made for a packet, and nobody has seen anything yet.        *)
LEMMA GetParserSeen ==
  ASSUME CommInv, GetParser
  PROVE  Seen' = Seen /\ Over' = Over
<1>1. fa.pc = "idle" /\ fa'.pc = "store" /\ npkt' = npkt + 1
  BY DEF GetParser, FaAt, CommInv, CommTypeOK
<1>2. DOMAIN comm = 1 .. cur /\ cur \in Nat /\ npkt \in Nat /\ comm \in Seq(CommType)
  BY Streams DEF CommInv, CommTypeOK
<1>3. ASSUME NEW g \in 1 .. cur
      PROVE  Acknowledged(g) = comm[g].stream /\ Older(comm[g])
  <2>1. comm[g] \in CommType
    BY <1>2
  <2>2. Older(comm[g])
    BY <1>1, <1>2, <2>1, OnePacketMore
  <2>. QED BY <1>1, <2>2 DEF Acknowledged
<1>4. ~Unused
  BY <1>1 DEF Unused
<1>5. Seen = [g \in 1 .. cur |-> comm[g].stream]
  BY <1>3, <1>4 DEF Seen
<1>6. CASE cur = 0 \/ comm[cur].end
  <2>1. /\ cur' = cur + 1 /\ comm'[cur + 1] = NewComm
        /\ \A g \in 1 .. cur : comm'[g].stream = comm[g].stream
    <3>1. CASE cur = 0
      BY <1>2, <3>1 DEF GetParser, cur
    <3>2. CASE cur > 0
      <4>1. cur \in DOMAIN comm /\ comm[cur].end
        BY <1>2, <1>6, <3>2
      <4>2. PICK c \in CommType : c = comm[cur]
        BY <1>2, <4>1
      <4>3. PICK r : r = [c EXCEPT !.deleted = TRUE]
        OBVIOUS
      <4>4. r \in CommType /\ r.stream = c.stream
        BY <4>3 DEF CommType
      <4>5. PICK s : s = [comm EXCEPT ![cur] = r]
        OBVIOUS
      <4>6. comm' = Append(s, NewComm)
        BY <3>2, <4>1, <4>2, <4>3, <4>5 DEF GetParser
      <4>7. /\ s \in Seq(CommType) /\ Len(s) = cur /\ s[cur] = r
            /\ \A g \in DOMAIN comm : g # cur => s[g] = comm[g]
        BY <1>2, <4>1, <4>4, <4>5, OneChanges DEF cur
      <4>8. /\ Len(comm') = cur + 1 /\ comm'[cur + 1] = NewComm
            /\ \A g \in 1 .. cur : comm'[g] = s[g]
        BY <1>2, <4>6, <4>7
      <4>9. \A g \in 1 .. cur : s[g].stream = comm[g].stream
        BY <1>2, <4>2, <4>4, <4>7
      <4>. QED BY <4>8, <4>9 DEF cur
    <3>. QED BY <1>2, <3>1, <3>2
  <2>2. Acknowledged(cur)' = <<>>
    <3>1. comm'[cur'].stream = <<>>
      BY <2>1 DEF NewComm
    <3>. QED BY <3>1 DEF Acknowledged
  <2>3. Unused'
    BY <1>1, <1>2, <2>1, <2>2 DEF Unused
  <2>4. ASSUME NEW g \in 1 .. cur PROVE Acknowledged(g)' = comm[g].stream
    BY <1>1, <1>3, <2>1 DEF Acknowledged, Older
  <2>5. Seen' = [g \in 1 .. cur |-> comm[g].stream]
    BY <1>2, <2>1, <2>3, <2>4 DEF Seen
  <2>. QED BY <1>4, <1>5, <1>6, <2>3, <2>5 DEF Over
<1>7. CASE cur > 0 /\ ~comm[cur].end
  <2>1. comm' = comm /\ cur' = cur
    BY <1>7 DEF GetParser, cur
  <2>2. ASSUME NEW g \in 1 .. cur PROVE Acknowledged(g)' = comm[g].stream
    BY <1>1, <1>3, <2>1 DEF Acknowledged, Older
  <2>3. comm[cur].stream # <<>>
    <3>1. PICK c \in CommType : Used(c)
      BY <1>7, InUse
    <3>. QED BY <1>1, <3>1 DEF Used, Contents
  <2>4. ~Unused'
    <3>1. cur \in 1 .. cur
      BY <1>2, <1>7
    <3>2. Older(comm[cur]) /\ comm'[cur'].stream = comm[cur].stream
      BY <1>3, <2>1, <3>1
    <3>3. Acknowledged(cur)' = comm[cur].stream
      BY <1>1, <2>1, <3>2 DEF Acknowledged, Older
    <3>. QED BY <2>3, <3>3 DEF Unused
  <2>5. Seen' = [g \in 1 .. cur |-> comm[g].stream]
    BY <1>2, <2>1, <2>2, <2>4 DEF Seen
  <2>. QED BY <1>4, <1>5, <1>7, <2>1, <2>4, <2>5 DEF Over
<1>. QED BY <1>2, <1>6, <1>7

LEMMA FrontOf ==
  ASSUME NEW S, NEW s \in Seq(S), s # <<>>
  PROVE  LET f == [i \in 1 .. Len(s) - 1 |-> s[i]]
         IN  f \in Seq(S) /\ s = Append(f, s[Len(s)])
<1>. DEFINE f == [i \in 1 .. Len(s) - 1 |-> s[i]]
<1>1. Len(s) - 1 \in Nat /\ Len(s) \in Nat /\ Len(s) > 0
  OBVIOUS
<1>2. f \in Seq(S) /\ Len(f) = Len(s) - 1
  BY <1>1
<1>3. /\ Append(f, s[Len(s)]) \in Seq(S) /\ Len(Append(f, s[Len(s)])) = Len(s)
      /\ \A i \in 1 .. Len(s) : Append(f, s[Len(s)])[i] = s[i]
  <2>1. \A i \in 1 .. Len(f) : f[i] = s[i]
    BY <1>2
  <2>2. s[Len(s)] \in S
    BY <1>1
  <2>. HIDE DEF f
  <2>3. /\ Append(f, s[Len(s)]) \in Seq(S)
        /\ Len(Append(f, s[Len(s)])) = Len(f) + 1
        /\ \A i \in 1 .. Len(f) : Append(f, s[Len(s)])[i] = f[i]
        /\ Append(f, s[Len(s)])[Len(f) + 1] = s[Len(s)]
    BY <1>2, <2>2
  <2>4. ASSUME NEW i \in 1 .. Len(s) PROVE i \in 1 .. Len(f) \/ i = Len(f) + 1
    BY <1>1, <1>2
  <2>. QED BY <1>1, <1>2, <2>1, <2>3, <2>4
<1>4. Append(f, s[Len(s)]) = s
  BY <1>3, SeqEqual
<1>. QED BY <1>2, <1>4

LEMMA FrontOfAppend ==
  ASSUME NEW S, NEW s \in Seq(S), NEW x \in S
  PROVE  LET t == Append(s, x)
         IN  t # <<>> /\ t[Len(t)] = x /\ [i \in 1 .. Len(t) - 1 |-> t[i]] = s
OBVIOUS

(* A content that the scanner got counts once the father has it back.      *)
LEMMA LoadSeen ==
  ASSUME CommInv, NEW g \in DOMAIN comm, Load(g)
  PROVE  Seen' = Seen /\ Over' = Over
<1>1. /\ Others /\ comm'[cur].end = comm[cur].end
      /\ comm'[cur].stream = Append(comm[cur].stream, npkt)
      /\ cur \in DOMAIN comm /\ fa.pc = "await" /\ ~Given(comm[cur].stream)
      /\ fa' = fa
  BY LoadInv DEF Load, ByChild
<1>2. /\ cur' = cur /\ npkt' = npkt /\ cur \in Nat /\ npkt \in Nat
      /\ DOMAIN comm = 1 .. cur /\ cur > 0 /\ cur \in 1 .. cur
      /\ comm[cur].stream \in Seq(1 .. npkt)
  BY <1>1, Streams DEF Others
<1>3. npkt \in 1 .. npkt
  BY <1>2 DEF CommInv, CommTypeOK
<1>4. PICK s \in Seq(1 .. npkt) : s = comm[cur].stream
  BY <1>2
<1>5. Acknowledged(cur) = s
  BY <1>1, <1>4 DEF Acknowledged, Given
<1>6. Acknowledged(cur)' = s
  <2>1. PICK t : t = Append(s, npkt)
    OBVIOUS
  <2>2. t # <<>> /\ t[Len(t)] = npkt /\ [i \in 1 .. Len(t) - 1 |-> t[i]] = s
    BY <1>3, <2>1, FrontOfAppend
  <2>3. comm'[cur'].stream = t /\ npkt' = npkt /\ fa'.pc # "idle"
    BY <1>1, <1>2, <1>4, <2>1
  <2>. QED BY <2>2, <2>3 DEF Acknowledged
<1>7. ASSUME NEW x \in 1 .. cur PROVE Acknowledged(x)' = Acknowledged(x)
  <2>1. CASE x = cur
    BY <1>2, <1>5, <1>6, <2>1
  <2>2. CASE x # cur
    BY <1>1, <1>2, <2>2 DEF Others, Acknowledged
  <2>. QED BY <2>1, <2>2
<1>8. Unused' <=> Unused
  BY <1>1, <1>2, <1>5, <1>6 DEF Unused
<1>9. Seen' = Seen
  <2>. DEFINE n == IF Unused THEN cur - 1 ELSE cur
  <2>1. n' = n /\ \A x \in 1 .. n : x \in 1 .. cur
    BY <1>2, <1>8
  <2>. HIDE DEF n
  <2>2. [x \in 1 .. n' |-> Acknowledged(x)'] = [x \in 1 .. n |-> Acknowledged(x)]
    BY <1>7, <2>1
  <2>. QED BY <2>2 DEF Seen, n
<1>10. Over' = Over
  <2>1. CASE Unused
    BY <1>8, <2>1 DEF Over
  <2>2. CASE ~Unused
    BY <1>1, <1>2, <1>8, <2>2 DEF Over
  <2>. QED BY <2>1, <2>2
<1>. QED BY <1>9, <1>10

(* The call returns: the session, a new one if there was none, has seen    *)
(* the content.                                                            *)
LEMMA CollectSeen ==
  ASSUME CommInv, Collect
  PROVE  /\ Over' \in BOOLEAN /\ npkt \in 1 .. MaxPkts
         /\ Seen' = IF Over THEN Append(Seen, <<npkt>>)
                    ELSE [Seen EXCEPT ![Len(Seen)] = Append(@, npkt)]
         /\ returned' = found /\ found' = found
<1>1. /\ Others /\ comm'[cur].stream = comm[cur].stream /\ comm'[cur].end \in BOOLEAN
      /\ returned' = found /\ found' = found
      /\ ~comm[cur].end /\ Given(comm[cur].stream) /\ cur \in DOMAIN comm
      /\ fa.pc = "collect" /\ fa'.pc = "idle"
  BY CollectInv DEF Collect, FaAt, CommInv, CommTypeOK
<1>2. /\ cur' = cur /\ npkt' = npkt /\ cur \in Nat /\ npkt \in Nat
      /\ DOMAIN comm = 1 .. cur /\ cur > 0 /\ cur \in 1 .. cur
      /\ comm[cur].stream \in Seq(1 .. npkt)
  BY <1>1, Streams DEF Others
<1>3. npkt \in 1 .. MaxPkts
  BY <1>2, BoundsAssumption DEF CommInv, CommTypeOK
<1>4. PICK s \in Seq(1 .. npkt) : s = comm[cur].stream
  BY <1>2
<1>5. s # <<>> /\ s[Len(s)] = npkt
  BY <1>1, <1>4 DEF Given
<1>6. PICK f : f = [i \in 1 .. Len(s) - 1 |-> s[i]]
  OBVIOUS
<1>7. f \in Seq(1 .. npkt) /\ s = Append(f, npkt)
  BY <1>5, <1>6, FrontOf
<1>8. Acknowledged(cur) = f
  BY <1>1, <1>4, <1>5, <1>6 DEF Acknowledged
<1>9. Unused <=> f = <<>>
  BY <1>1, <1>2, <1>8 DEF Unused
<1>10. ~Unused'
  BY <1>1 DEF Unused
<1>11. ASSUME NEW x \in 1 .. cur
       PROVE  /\ Acknowledged(x)' = comm[x].stream
              /\ x # cur => Acknowledged(x) = comm[x].stream
  <2>1. comm'[x].stream = comm[x].stream
    BY <1>1, <1>2 DEF Others
  <2>. QED BY <1>1, <2>1, Streams DEF Acknowledged
<1>12. Seen' = [x \in 1 .. cur |-> comm[x].stream]
  BY <1>2, <1>10, <1>11 DEF Seen
<1>13. Over' \in BOOLEAN
  BY <1>1, <1>2, <1>10 DEF Over
<1>14. CASE Unused
  <2>1. Seen = [x \in 1 .. cur - 1 |-> comm[x].stream]
    BY <1>2, <1>11, <1>14 DEF Seen
  <2>2. comm[cur].stream = <<npkt>>
    BY <1>4, <1>7, <1>9, <1>14
  <2>3. Append(Seen, <<npkt>>) = [x \in 1 .. cur |-> comm[x].stream]
    BY <1>2, <2>1, <2>2
  <2>. QED BY <1>1, <1>3, <1>12, <1>13, <1>14, <2>3 DEF Over
<1>15. CASE ~Unused
  <2>1. Seen = [x \in 1 .. cur |-> Acknowledged(x)] /\ ~Over
    BY <1>1, <1>2, <1>15 DEF Seen, Over
  <2>2. Len(Seen) = cur
    BY <1>2, <2>1
  <2>3. [Seen EXCEPT ![cur] = Append(@, npkt)] = [x \in 1 .. cur |-> comm[x].stream]
    BY <1>2, <1>4, <1>7, <1>8, <1>11, <2>1
  <2>. QED BY <1>1, <1>3, <1>12, <1>13, <2>1, <2>2, <2>3
<1>. QED BY <1>14, <1>15

LEMMA ChildSeen ==
  ASSUME CommInv, NEW g \in DOMAIN comm, Child(g)
  PROVE  /\ Seen' = Seen /\ Over' = Over /\ returned' = returned
         /\ \/ found' = found
            \/ \E o \in 1 .. MaxOps : found' = Append(found, o)
<1>1. fa' = fa /\ returned' = returned
  BY DEF Child, Ask, Load, AddOperation, SetLengthEnd, EndOfStream, EndOfParse,
         Quit, Close, ByChild
<1>2. CASE Load(g)
  BY <1>1, <1>2, LoadSeen DEF Load
<1>3. CASE AddOperation(g)
  <2>1. Kept
    BY <1>3, AddOperationInv
  <2>2. Len(found) + 1 \in 1 .. MaxOps
    <3>1. Len(found) \in Nat /\ Len(found) < MaxOps
      BY <1>3 DEF AddOperation, CommInv, CommTypeOK
    <3>. QED BY <3>1, BoundsAssumption
  <2>3. found' = Append(found, Len(found) + 1)
    BY <1>3 DEF AddOperation
  <2>. QED BY <1>1, <2>1, <2>2, <2>3, KeptSeen
<1>4. CASE Ask(g) \/ SetLengthEnd(g) \/ EndOfStream(g) \/ EndOfParse(g) \/ Quit(g) \/ Close(g)
  <2>1. Kept
    BY <1>4, AskInv, SetLengthEndInv, EndOfStreamInv, EndOfParseInv, QuitInv, CloseInv
  <2>2. found' = found
    BY <1>4 DEF Ask, SetLengthEnd, EndOfStream, EndOfParse, Quit, Close
  <2>. QED BY <1>1, <2>1, <2>2, KeptSeen
<1>. QED BY <1>2, <1>3, <1>4 DEF Child

LEMMA SessionStep ==
  ASSUME CommInv, [CommNext]_commVars
  PROVE  Session!Next \/ UNCHANGED Session!sessionVars
<1>1. CASE GetParser
  <2>1. Seen' = Seen /\ Over' = Over /\ found' = found /\ returned' = returned
    BY <1>1, GetParserSeen DEF GetParser
  <2>. QED BY <2>1 DEF Session!sessionVars, Seen, Over
<1>2. CASE Store \/ AwaitInit \/ Give \/ Await
  <2>1. Kept
    BY <1>2, StoreInv, AwaitInitInv, GiveInv, AwaitInv
  <2>2. found' = found /\ returned' = returned
    BY <1>2 DEF Store, AwaitInit, Give, Await
  <2>3. fa.pc # "idle" /\ fa'.pc # "idle"
    BY <1>2 DEF Store, AwaitInit, Give, Await, FaAt, CommInv, CommTypeOK
  <2>4. Seen' = Seen /\ Over' = Over
    BY <2>1, <2>3, KeptSeen
  <2>. QED BY <2>2, <2>4 DEF Session!sessionVars, Seen, Over
<1>3. CASE Collect
  <2>1. /\ Over' \in BOOLEAN /\ npkt \in 1 .. MaxPkts
        /\ Seen' = IF Over THEN Append(Seen, <<npkt>>)
                   ELSE [Seen EXCEPT ![Len(Seen)] = Append(@, npkt)]
        /\ returned' = found /\ found' = found
    BY <1>3, CollectSeen
  <2>2. Session!Process
    BY <2>1 DEF Session!Process, Session!Given, Seen, Over
  <2>. QED BY <2>2 DEF Session!Next
<1>4. ASSUME NEW g \in DOMAIN comm, Child(g)
      PROVE  Session!Next \/ UNCHANGED Session!sessionVars
  <2>1. /\ Seen' = Seen /\ Over' = Over /\ returned' = returned
        /\ \/ found' = found
           \/ \E o \in 1 .. MaxOps : found' = Append(found, o)
    BY <1>4, ChildSeen
  <2>2. CASE found' = found
    BY <2>1, <2>2 DEF Session!sessionVars, Seen, Over
  <2>3. CASE \E o \in 1 .. MaxOps : found' = Append(found, o)
    BY <2>1, <2>3 DEF Session!Next, Session!Find, Seen, Over
  <2>. QED BY <2>1, <2>2, <2>3
<1>5. CASE UNCHANGED commVars
  <2>1. UNCHANGED <<comm, fa, npkt, size, found, returned>> /\ wild' \in BOOLEAN
    BY <1>5, Zenon DEF commVars, CommInv, CommTypeOK
  <2>2. Kept
    BY <2>1, WildInv
  <2>3. Seen' = Seen /\ Over' = Over
    BY <2>1, <2>2, KeptSeen
  <2>. QED BY <2>1, <2>3 DEF Session!sessionVars, Seen, Over
<1>. QED BY <1>1, <1>2, <1>3, <1>4, <1>5 DEF CommNext, Father

(***************************************************************************)
(* Two threads, two pipes and a shared string implement an ordinary call:  *)
(* a parser sees each content once and in order, the first content after   *)
(* the end of one parser goes to a new one, and process() returns exactly  *)
(* the operations found in the content it was given (communicator.cc:      *)
(* 40-133, parser.cc:30-37, flow.cc:22-50).                                *)
(***************************************************************************)
THEOREM CommImplementsSession == CommSpec => SessionImplemented
<1>1. CommInit => Session!Init
  <2>. SUFFICES ASSUME CommInit PROVE Session!Init
    OBVIOUS
  <2>1. cur = 0 /\ fa.pc = "idle" /\ found = <<>> /\ returned = <<>>
    BY DEF CommInit, cur
  <2>2. Seen = <<>>
    BY <2>1 DEF Seen, Unused
  <2>3. Over
    BY <2>1 DEF Over
  <2>. QED BY <2>1, <2>2, <2>3 DEF Session!Init, Seen, Over
<1>2. CommInv /\ [CommNext]_commVars => [Session!Next]_(Session!sessionVars)
  BY SessionStep
<1>. QED
  BY <1>1, <1>2, CommInvAlways, PTL DEF CommSpec, SessionImplemented, Session!Spec
=============================================================================
