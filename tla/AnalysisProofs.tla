-------------------------- MODULE AnalysisProofs ---------------------------
(***************************************************************************)
(* Proofs about Analysis, for any frames, any Limit and any number of      *)
(* frames and files.                                                       *)
(*                                                                         *)
(* Connected ties the three things analysis mode keeps of a connection: a  *)
(* connection seen in any file has one key in map44_, whose two ends are   *)
(* the connection's, and every key has a flow of its own, at the key's     *)
(* first end.  Counted ties the two counts of flows to the connections of  *)
(* the file, MarksTell what a flow is marked to the frames seen of its     *)
(* connection, and MarksCounted the other counters to the marks.           *)
(***************************************************************************)
EXTENDS Analysis, SequenceTheorems, FiniteSetTheorems, TLAPS

-----------------------------------------------------------------------------
(* The counters of a file.                                                 *)
Counters == [cnt : Nat, total : Nat, http : Nat, ftp : Nat, sip : Nat, literal : Nat]

(* The service a frame tells, and what it makes of a flow marked a.        *)
Tells(p, l4, port) == p.l4 = l4 /\ OnPort(p, port)

Kind(p, a) ==
  IF a > 1 THEN a
  ELSE IF Tells(p, "udp", 5060) THEN 4
  ELSE IF Tells(p, "tcp", 21) THEN 3
  ELSE IF Tells(p, "tcp", 80) \/ Tells(p, "tcp", 8080) THEN 2
  ELSE 1

One(b) == IF b THEN 1 ELSE 0

(* A frame's passage through the counters, told at once.                   *)
LEMMA CountFacts ==
  ASSUME NEW p \in Frames, NEW a \in {0, 1, 2, 3, 4, 100}, NEW c \in Counters,
         NEW ac, ac = CountLiteral(p, Classify(p, CountNew(a, c)))
  PROVE  /\ ac[1] = IF Kind(p, a) \in {2, 100} /\ p.literal THEN 100 ELSE Kind(p, a)
         /\ ac[2] \in Counters /\ ac[2].cnt = c.cnt
         /\ ac[2].total = c.total + One(a = 0)
         /\ ac[2].http = c.http + One(a <= 1 /\ Tells(p, "tcp", 80))
                                + One(a <= 1 /\ Tells(p, "tcp", 8080))
         /\ ac[2].ftp = c.ftp + One(a <= 1 /\ Tells(p, "tcp", 21))
         /\ ac[2].sip = c.sip + One(a <= 1 /\ Tells(p, "udp", 5060))
         /\ ac[2].literal = c.literal + One(Kind(p, a) = 2 /\ p.literal)
<1>. DEFINE a1 == IF a = 0 THEN 1 ELSE a
            c1 == IF a = 0 THEN [c EXCEPT !.total = @ + 1] ELSE c
<1>1. CountNew(a, c) = <<a1, c1>>
  BY DEF CountNew
<1>2. /\ c1 \in Counters /\ c1.cnt = c.cnt /\ c1.total = c.total + One(a = 0)
      /\ c1.http = c.http /\ c1.ftp = c.ftp /\ c1.sip = c.sip /\ c1.literal = c.literal
  BY DEF Counters, One
<1>. DEFINE t(port) == Tells(p, "tcp", port)
            c2 == IF t(80) THEN [c1 EXCEPT !.http = @ + 1] ELSE c1
            c3 == IF t(8080) THEN [c2 EXCEPT !.http = @ + 1] ELSE c2
            c4 == IF t(21) THEN [c3 EXCEPT !.ftp = @ + 1] ELSE c3
            c5 == IF Tells(p, "udp", 5060) THEN [c4 EXCEPT !.sip = @ + 1] ELSE c4
            k  == Kind(p, a)
<1>3. ASSUME a <= 1
      PROVE  Classify(p, <<a1, c1>>) = <<k, c5>>
  <2>1. HTTP(p, 80, <<a1, c1>>) = <<IF t(80) THEN 2 ELSE a1, c2>>
    BY DEF HTTP, Tells
  <2>2. HTTP(p, 8080, <<IF t(80) THEN 2 ELSE a1, c2>>)
          = <<IF t(8080) \/ t(80) THEN 2 ELSE a1, c3>>
    <3>. HIDE DEF c2, a1
    <3>. QED BY DEF HTTP, Tells
  <2>3. FTP(p, <<IF t(8080) \/ t(80) THEN 2 ELSE a1, c3>>)
          = <<IF t(21) THEN 3 ELSE IF t(8080) \/ t(80) THEN 2 ELSE a1, c4>>
    <3>. HIDE DEF c3, a1
    <3>. QED BY DEF FTP, Tells
  <2>4. a1 = 1
    BY <1>3
  <2>5. SIP(p, <<IF t(21) THEN 3 ELSE IF t(8080) \/ t(80) THEN 2 ELSE a1, c4>>)
          = <<k, c5>>
    <3>. HIDE DEF c4, c1
    <3>. QED BY <1>3, <2>4 DEF SIP, Tells, Kind
  <2>6. <<a1, c1>>[1] <= 1
    BY <2>4
  <2>. HIDE DEF a1, c1, c2, c3, c4, c5, k, t
  <2>. QED BY <2>1, <2>2, <2>3, <2>5, <2>6 DEF Classify
<1>4. ASSUME ~(a <= 1)
      PROVE  Classify(p, <<a1, c1>>) = <<k, c1>>
  BY <1>4 DEF Classify, Kind
<1>. DEFINE c6 == IF a <= 1 THEN c5 ELSE c1
<1>5. Classify(p, <<a1, c1>>) = <<k, c6>>
  BY <1>3, <1>4
<1>6. /\ c6 \in Counters /\ c6.cnt = c1.cnt /\ c6.total = c1.total
      /\ c6.http = c1.http + One(a <= 1 /\ t(80)) + One(a <= 1 /\ t(8080))
      /\ c6.ftp = c1.ftp + One(a <= 1 /\ t(21))
      /\ c6.sip = c1.sip + One(a <= 1 /\ Tells(p, "udp", 5060))
      /\ c6.literal = c1.literal
  <2>. HIDE DEF c1
  <2>1. /\ c2 \in Counters /\ c2.cnt = c1.cnt /\ c2.total = c1.total
        /\ c2.http = c1.http + One(t(80)) /\ c2.ftp = c1.ftp /\ c2.sip = c1.sip
        /\ c2.literal = c1.literal
    BY <1>2 DEF Counters, One
  <2>2. /\ c3 \in Counters /\ c3.cnt = c2.cnt /\ c3.total = c2.total
        /\ c3.http = c2.http + One(t(8080)) /\ c3.ftp = c2.ftp /\ c3.sip = c2.sip
        /\ c3.literal = c2.literal
    <3>. HIDE DEF c2
    <3>1. c2 \in Counters
      BY <2>1
    <3>. QED BY <3>1 DEF Counters, One
  <2>3. /\ c4 \in Counters /\ c4.cnt = c3.cnt /\ c4.total = c3.total
        /\ c4.http = c3.http /\ c4.ftp = c3.ftp + One(t(21)) /\ c4.sip = c3.sip
        /\ c4.literal = c3.literal
    <3>. HIDE DEF c2, c3
    <3>1. c3 \in Counters
      BY <2>2
    <3>. QED BY <3>1 DEF Counters, One
  <2>4. /\ c5 \in Counters /\ c5.cnt = c4.cnt /\ c5.total = c4.total
        /\ c5.http = c4.http /\ c5.ftp = c4.ftp
        /\ c5.sip = c4.sip + One(Tells(p, "udp", 5060)) /\ c5.literal = c4.literal
    <3>. HIDE DEF c2, c3, c4
    <3>1. c4 \in Counters
      BY <2>3
    <3>. QED BY <3>1 DEF Counters, One
  <2>5. /\ c5.cnt = c1.cnt /\ c5.total = c1.total /\ c5.literal = c1.literal
        /\ c5.http = c1.http + One(t(80)) + One(t(8080))
        /\ c5.ftp = c1.ftp + One(t(21))
        /\ c5.sip = c1.sip + One(Tells(p, "udp", 5060))
    <3>. HIDE DEF c2, c3, c4, c5, t
    <3>. QED BY <2>1, <2>2, <2>3, <2>4
  <2>. HIDE DEF c5
  <2>. QED BY <1>2, <2>4, <2>5 DEF One, Counters
<1>. HIDE DEF a1, c1, c6, k
<1>7. ac = IF k \in {2, 100} /\ p.literal
           THEN <<100, IF k = 2 THEN [c6 EXCEPT !.literal = @ + 1] ELSE c6>>
           ELSE <<k, c6>>
  BY <1>1, <1>5 DEF CountLiteral
<1>8. /\ ac[1] = IF k \in {2, 100} /\ p.literal THEN 100 ELSE k
      /\ ac[2] = IF k = 2 /\ p.literal THEN [c6 EXCEPT !.literal = @ + 1] ELSE c6
  BY <1>7
<1>9. /\ ac[2] \in Counters /\ ac[2].cnt = c6.cnt /\ ac[2].total = c6.total
      /\ ac[2].http = c6.http /\ ac[2].ftp = c6.ftp /\ ac[2].sip = c6.sip
      /\ ac[2].literal = c6.literal + One(k = 2 /\ p.literal)
  BY <1>6, <1>8 DEF Counters, One
<1>. QED BY <1>2, <1>6, <1>8, <1>9 DEF k, Counters

-----------------------------------------------------------------------------
(* The two ends of a key.                                                  *)
Ends(k) == {k[1], k[2]}

(* The flow of a frame.                                                    *)
FlowOf(p) == Find44(<<p.dst, p.src>>)

AnFlow == [ip4p : IP4Port, analyze : {1, 2, 3, 4, 100}]

CountersOK ==
  /\ n \in Counters /\ n.cnt <= MaxCnt
  /\ n.total <= n.cnt /\ n.http <= 2 * n.cnt /\ n.ftp <= n.cnt
  /\ n.sip <= n.cnt /\ n.literal <= n.cnt

AnTypes ==
  /\ DOMAIN map44 \subseteq Key44 /\ map44 \in [DOMAIN map44 -> DOMAIN flows]
  /\ flows \in Seq(AnFlow)
  /\ CountersOK
  /\ flow_cnt \in Nat /\ file \in 1 .. MaxFiles /\ reading \in BOOLEAN
  /\ seen \in [1 .. MaxFiles -> SUBSET Frames]

(* Every connection seen has one key, and every key a flow of its own.     *)
Connected ==
  /\ \A x \in DOMAIN map44 : /\ flows[map44[x]].ip4p = x[1]
                             /\ x[2].port = 80 => x[1].port = 80
  /\ \A x, y \in DOMAIN map44 : Ends(x) = Ends(y) => x = y
  /\ \A x, y \in DOMAIN map44 : map44[x] = map44[y] => x = y
  /\ Conns(AllSeen) = {Ends(x) : x \in DOMAIN map44}
  /\ IsFiniteSet(Conns(AllSeen)) /\ Len(flows) = Cardinality(Conns(AllSeen))

(* map44_ tells all keys apart.                                            *)
LEMMA Key44SameIsEqual ==
  ASSUME NEW k \in Key44, NEW l \in Key44
  PROVE  Key44Same(k, l) <=> k = l
<1>1. /\ k[1].ip \in Nat /\ k[1].port \in Nat /\ k[2].ip \in Nat /\ k[2].port \in Nat
      /\ l[1].ip \in Nat /\ l[1].port \in Nat /\ l[2].ip \in Nat /\ l[2].port \in Nat
  BY DEF Key44, IP4Port
<1>2. k = l <=> /\ k[1].ip = l[1].ip /\ k[1].port = l[1].port
                /\ k[2].ip = l[2].ip /\ k[2].port = l[2].port
  <2>1. k = <<k[1], k[2]>> /\ l = <<l[1], l[2]>>
    BY DEF Key44
  <2>2. /\ k[1] = l[1] <=> (k[1].ip = l[1].ip /\ k[1].port = l[1].port)
        /\ k[2] = l[2] <=> (k[2].ip = l[2].ip /\ k[2].port = l[2].port)
    BY DEF Key44, IP4Port
  <2>. QED BY <2>1, <2>2
<1>. QED BY <1>1, <1>2 DEF Key44Same, Key44Less, IP4PortLess

(* A look-up finds the key with the same two ends, in whichever order.     *)
LEMMA FindByEnds ==
  ASSUME DOMAIN map44 \subseteq Key44,
         \A x, y \in DOMAIN map44 : Ends(x) = Ends(y) => x = y,
         NEW k \in Key44
  PROVE  /\ (\A x \in DOMAIN map44 : Ends(x) # Ends(k)) => Find44(k) = NoFlow
         /\ \A x \in DOMAIN map44 : Ends(x) = Ends(k) => Find44(k) = map44[x]
<1>1. Swap(k) \in Key44 /\ Ends(Swap(k)) = Ends(k)
  BY DEF Key44, Swap, Ends
<1>2. /\ Entries(k) = {x \in DOMAIN map44 : x = k}
      /\ Entries(Swap(k)) = {x \in DOMAIN map44 : x = Swap(k)}
  BY <1>1, Key44SameIsEqual DEF Entries
<1>3. ASSUME NEW x \in DOMAIN map44, Ends(x) = Ends(k)
      PROVE  x = k \/ x = Swap(k)
  <2>1. x = <<x[1], x[2]>> /\ k = <<k[1], k[2]>>
    BY DEF Key44
  <2>2. (x[1] = k[1] /\ x[2] = k[2]) \/ (x[1] = k[2] /\ x[2] = k[1])
    BY <1>3 DEF Ends
  <2>. QED BY <2>1, <2>2 DEF Swap
<1>4. ASSUME \A x \in DOMAIN map44 : Ends(x) # Ends(k) PROVE Find44(k) = NoFlow
  BY <1>1, <1>2, <1>4 DEF Find44
<1>5. ASSUME NEW x \in DOMAIN map44, Ends(x) = Ends(k) PROVE Find44(k) = map44[x]
  <2>1. CASE x = k
    <3>1. Entries(k) = {x}
      BY <1>2, <2>1
    <3>. QED BY <3>1 DEF Find44
  <2>2. CASE x # k
    <3>1. x = Swap(k)
      BY <1>3, <1>5, <2>2
    <3>2. Entries(Swap(k)) = {x} /\ Entries(k) = {}
      <4>1. k \notin DOMAIN map44
        BY <1>5, <2>2
      <4>. QED BY <1>2, <3>1, <4>1
    <3>. QED BY <3>2 DEF Find44
  <2>. QED BY <2>1, <2>2
<1>. QED BY <1>4, <1>5

(* Frames have keys, and the ends of a frame's key are its connection.     *)
LEMMA FrameKey ==
  ASSUME NEW p \in Frames, NEW k, k = <<p.dst, p.src>>
  PROVE  /\ k \in Key44 /\ Ends(k) = Conn(p)
         /\ ServerFirst(k) \in Key44 /\ Ends(ServerFirst(k)) = Conn(p)
         /\ ServerFirst(k)[2].port = 80 => ServerFirst(k)[1].port = 80
<1>1. k \in Key44 /\ Ends(k) = Conn(p)
  BY AnalysisAssumption DEF Key44, Ends, Conn
<1>2. Swap(k) \in Key44 /\ Ends(Swap(k)) = Conn(p)
  BY <1>1 DEF Key44, Swap, Ends
<1>. QED BY <1>1, <1>2 DEF ServerFirst, Swap

(* Which flow a frame finds.                                               *)
LEMMA FoundFlow ==
  ASSUME AnTypes, Connected, NEW p \in Frames
  PROVE  /\ Conn(p) \notin Conns(AllSeen) => FlowOf(p) = NoFlow
         /\ \A x \in DOMAIN map44 : Ends(x) = Conn(p) => FlowOf(p) = map44[x]
         /\ Conn(p) \in Conns(AllSeen) => FlowOf(p) \in DOMAIN flows /\ FlowOf(p) # NoFlow
<1>. PICK k : k = <<p.dst, p.src>>
  OBVIOUS
<1>1. k \in Key44 /\ Ends(k) = Conn(p)
  BY FrameKey
<1>2. /\ (\A x \in DOMAIN map44 : Ends(x) # Conn(p)) => FlowOf(p) = NoFlow
      /\ \A x \in DOMAIN map44 : Ends(x) = Conn(p) => FlowOf(p) = map44[x]
  <2>1. DOMAIN map44 \subseteq Key44 /\ \A x, y \in DOMAIN map44 : Ends(x) = Ends(y) => x = y
    BY DEF AnTypes, Connected
  <2>2. FlowOf(p) = Find44(k)
    BY DEF FlowOf
  <2>3. /\ (\A x \in DOMAIN map44 : Ends(x) # Ends(k)) => Find44(k) = NoFlow
        /\ \A x \in DOMAIN map44 : Ends(x) = Ends(k) => Find44(k) = map44[x]
    BY <1>1, <2>1, FindByEnds
  <2>. QED BY <1>1, <2>2, <2>3
<1>3. \A x \in DOMAIN map44 : map44[x] \in DOMAIN flows /\ map44[x] # NoFlow
  BY LenProperties DEF AnTypes, NoFlow
<1>4. Conns(AllSeen) = {Ends(x) : x \in DOMAIN map44}
  BY DEF Connected
<1>. QED BY <1>2, <1>3, <1>4

(* What is seen after a frame of a file.                                   *)
LEMMA SeenGrows ==
  ASSUME AnTypes, NEW p \in Frames, seen' = [seen EXCEPT ![file] = @ \cup {p}]
  PROVE  /\ seen'[file] = seen[file] \cup {p}
         /\ \A i \in 1 .. MaxFiles : i # file => seen'[i] = seen[i]
         /\ AllSeen' = AllSeen \cup {p}
         /\ Conns(AllSeen)' = Conns(AllSeen) \cup {Conn(p)}
         /\ Conns(AllSeen') = Conns(AllSeen) \cup {Conn(p)}
<1>1. /\ seen'[file] = seen[file] \cup {p} /\ file \in 1 .. MaxFiles
      /\ \A i \in 1 .. MaxFiles : i # file => seen'[i] = seen[i]
  BY DEF AnTypes
<1>2. AllSeen' = AllSeen \cup {p}
  <2>1. AllSeen' = UNION {seen'[i] : i \in 1 .. MaxFiles}
    BY DEF AllSeen
  <2>2. ASSUME NEW x \in AllSeen' PROVE x \in AllSeen \cup {p}
    BY <1>1, <2>1, <2>2 DEF AllSeen
  <2>3. ASSUME NEW x \in AllSeen \cup {p} PROVE x \in AllSeen'
    BY <1>1, <2>1, <2>3 DEF AllSeen
  <2>. QED BY <2>2, <2>3
<1>3. Conns(AllSeen') = Conns(AllSeen) \cup {Conn(p)}
  BY <1>2 DEF Conns
<1>4. Conns(AllSeen)' = Conns(AllSeen')
  BY DEF Conns, Conn
<1>. QED BY <1>1, <1>2, <1>3, <1>4

-----------------------------------------------------------------------------
(* What a frame's passage leaves: the flow's mark and the counters.        *)
Passed(p, a) == CountLiteral(p, Classify(p, CountNew(a, [n EXCEPT !.cnt = @ + 1])))

(* The flows with one marked, and a flow and the table for a new key.      *)
Marked(f, v) == [flows EXCEPT ![f].analyze = v]
NewFlow(k, v) == [ip4p |-> k[1], analyze |-> v]
WithKey(k) == [x \in DOMAIN map44 \cup {k} |-> IF x = k THEN Len(flows) + 1 ELSE map44[x]]

(* A frame of a connection that has a flow.                                *)
LEMMA KnownConnection ==
  ASSUME AnTypes, Connected, NEW p \in Frames, Analyse(p),
         Conn(p) \in Conns(AllSeen), NEW f, f = FlowOf(p)
  PROVE  /\ f \in DOMAIN flows /\ map44' = map44 /\ flow_cnt' = flow_cnt
         /\ flows' = Marked(f, Passed(p, flows[f].analyze)[1])
         /\ n' = Passed(p, flows[f].analyze)[2]
<1>. PICK k : k = <<p.dst, p.src>>
  OBVIOUS
<1>1. f \in DOMAIN flows /\ f # NoFlow /\ f = Find44(k)
  BY FoundFlow DEF FlowOf
<1>2. DoMapping44(k) = [m |-> map44, fs |-> flows, f |-> f]
  BY <1>1 DEF DoMapping44
<1>3. /\ DoMapping44(k).m = map44 /\ DoMapping44(k).fs = flows /\ DoMapping44(k).f = f
  BY <1>2
<1>4. /\ map44' = map44
      /\ flows' = [flows EXCEPT ![f].analyze = Passed(p, flows[f].analyze)[1]]
      /\ flow_cnt' = flow_cnt + (Len(flows) - Len(flows))
      /\ n' = Passed(p, flows[f].analyze)[2]
  BY <1>3 DEF Analyse, Passed
<1>5. Len(flows) \in Nat /\ flow_cnt \in Nat
  BY LenProperties DEF AnTypes
<1>. QED BY <1>1, <1>4, <1>5 DEF Marked

(* Writing the element just appended is appending what is written.         *)
LEMMA AppendThenSet ==
  ASSUME NEW S, NEW s \in Seq(S), NEW u, NEW v
  PROVE  [Append(s, u) EXCEPT ![Len(s) + 1] = v] = Append(s, v)
<1>. DEFINE T == S \cup {u, v}
            t == [Append(s, u) EXCEPT ![Len(s) + 1] = v]
<1>1. s \in Seq(T) /\ u \in T /\ v \in T /\ Len(s) \in Nat
  BY LenProperties
<1>. HIDE DEF T
<1>2. /\ Append(s, u) \in Seq(T) /\ Append(s, v) \in Seq(T)
      /\ Len(Append(s, u)) = Len(s) + 1 /\ Len(Append(s, v)) = Len(s) + 1
      /\ \A i \in 1 .. Len(s) : Append(s, u)[i] = s[i] /\ Append(s, v)[i] = s[i]
      /\ Append(s, v)[Len(s) + 1] = v
  BY <1>1, AppendProperties
<1>3. /\ t \in Seq(T) /\ Len(t) = Len(s) + 1
      /\ \A i \in 1 .. Len(t) : t[i] = IF i = Len(s) + 1 THEN v ELSE Append(s, u)[i]
  <2>1. PICK w : w = Append(s, u)
    OBVIOUS
  <2>2. w \in Seq(T) /\ Len(s) + 1 \in 1 .. Len(w) /\ Len(w) = Len(s) + 1
    BY <1>1, <1>2, <2>1
  <2>3. /\ [w EXCEPT ![Len(s) + 1] = v] \in Seq(T)
        /\ Len([w EXCEPT ![Len(s) + 1] = v]) = Len(w)
        /\ \A i \in 1 .. Len(w) : [w EXCEPT ![Len(s) + 1] = v][i]
                                    = IF i = Len(s) + 1 THEN v ELSE w[i]
    BY <1>1, <2>2, ExceptSeq
  <2>. QED BY <2>1, <2>2, <2>3
<1>. HIDE DEF t
<1>4. \A i \in 1 .. Len(t) : t[i] = Append(s, v)[i]
  BY <1>1, <1>2, <1>3
<1>5. t = Append(s, v)
  BY <1>2, <1>3, <1>4, SeqEqual
<1>. QED BY <1>5 DEF t

(* A frame of a connection that has none.                                  *)
LEMMA NewConnection ==
  ASSUME AnTypes, Connected, NEW p \in Frames, Analyse(p),
         Conn(p) \notin Conns(AllSeen), NEW k, k = ServerFirst(<<p.dst, p.src>>)
  PROVE  /\ map44' = WithKey(k) /\ flow_cnt' = flow_cnt + 1
         /\ flows' = Append(flows, NewFlow(k, Passed(p, 0)[1]))
         /\ n' = Passed(p, 0)[2]
<1>. PICK k0 : k0 = <<p.dst, p.src>>
  OBVIOUS
<1>. PICK f : f = Len(flows) + 1
  OBVIOUS
<1>. DEFINE m1 == [x \in DOMAIN map44 \cup {k} |-> IF x = k THEN f ELSE map44[x]]
            new == [ip4p |-> k[1], analyze |-> 0]
            fs1 == Append(flows, new)
<1>1. Find44(k0) = NoFlow
  BY FoundFlow DEF FlowOf
<1>2. DoMapping44(k0) = [m |-> m1, fs |-> fs1, f |-> f]
  BY <1>1 DEF DoMapping44
<1>3. DoMapping44(k0).m = m1 /\ DoMapping44(k0).fs = fs1 /\ DoMapping44(k0).f = f
  <2>. HIDE DEF m1, fs1
  <2>. QED BY <1>2
<1>4. /\ map44' = m1 /\ flow_cnt' = flow_cnt + (Len(fs1) - Len(flows))
      /\ flows' = [fs1 EXCEPT ![f].analyze = Passed(p, fs1[f].analyze)[1]]
      /\ n' = Passed(p, fs1[f].analyze)[2]
  <2>. HIDE DEF fs1, m1
  <2>. QED BY <1>3 DEF Analyse, Passed
<1>5. Len(flows) \in Nat /\ flow_cnt \in Nat /\ flows \in Seq(AnFlow)
  BY LenProperties DEF AnTypes
<1>6. /\ fs1[f] = new /\ Len(fs1) = f /\ DOMAIN fs1 = 1 .. f
      /\ \A i \in 1 .. Len(flows) : fs1[i] = flows[i]
  BY <1>5
<1>. DEFINE out == Passed(p, 0)[1]
<1>7. /\ flows' = [fs1 EXCEPT ![f] = [ip4p |-> k[1], analyze |-> out]]
      /\ n' = Passed(p, 0)[2]
  <2>1. new.analyze = 0 /\ \A v : [new EXCEPT !.analyze = v] = [ip4p |-> k[1], analyze |-> v]
    OBVIOUS
  <2>. HIDE DEF fs1, new, out
  <2>2. fs1[f].analyze = 0
    BY <1>6, <2>1
  <2>3. flows' = [fs1 EXCEPT ![f] = [fs1[f] EXCEPT !.analyze = out]]
    BY <1>4, <2>2 DEF out
  <2>. QED BY <1>4, <1>6, <2>1, <2>2, <2>3
<1>8. flows' = Append(flows, [ip4p |-> k[1], analyze |-> out])
  <2>1. PICK v : v = [ip4p |-> k[1], analyze |-> out]
    OBVIOUS
  <2>2. [Append(flows, new) EXCEPT ![Len(flows) + 1] = v] = Append(flows, v)
    BY <1>5, AppendThenSet
  <2>. HIDE DEF out, new
  <2>. QED BY <1>7, <2>1, <2>2
<1>9. m1 = WithKey(k)
  BY DEF WithKey
<1>. HIDE DEF fs1, m1
<1>. QED BY <1>4, <1>5, <1>6, <1>7, <1>8, <1>9 DEF NewFlow

(* The counters after a frame.                                             *)
LEMMA PassedFacts ==
  ASSUME n \in Counters, NEW p \in Frames, NEW a \in {0, 1, 2, 3, 4, 100},
         NEW ac, ac = Passed(p, a)
  PROVE  /\ ac[1] \in {1, 2, 3, 4, 100}
         /\ ac[1] = IF Kind(p, a) \in {2, 100} /\ p.literal THEN 100 ELSE Kind(p, a)
         /\ ac[2] \in Counters /\ ac[2].cnt = n.cnt + 1
         /\ ac[2].total = n.total + One(a = 0)
         /\ ac[2].http = n.http + One(a <= 1 /\ Tells(p, "tcp", 80))
                                + One(a <= 1 /\ Tells(p, "tcp", 8080))
         /\ ac[2].ftp = n.ftp + One(a <= 1 /\ Tells(p, "tcp", 21))
         /\ ac[2].sip = n.sip + One(a <= 1 /\ Tells(p, "udp", 5060))
         /\ ac[2].literal = n.literal + One(Kind(p, a) = 2 /\ p.literal)
<1>0. PICK c : c = [n EXCEPT !.cnt = @ + 1]
  OBVIOUS
<1>1. /\ c \in Counters /\ c.cnt = n.cnt + 1 /\ c.total = n.total /\ c.http = n.http
      /\ c.ftp = n.ftp /\ c.sip = n.sip /\ c.literal = n.literal
  BY <1>0 DEF Counters
<1>2. ac = CountLiteral(p, Classify(p, CountNew(a, c)))
  BY <1>0 DEF Passed
<1>3. Kind(p, a) \in {1, 2, 3, 4, 100}
  BY DEF Kind
<1>4. /\ ac[1] = IF Kind(p, a) \in {2, 100} /\ p.literal THEN 100 ELSE Kind(p, a)
      /\ ac[2] \in Counters /\ ac[2].cnt = c.cnt
      /\ ac[2].total = c.total + One(a = 0)
      /\ ac[2].http = c.http + One(a <= 1 /\ Tells(p, "tcp", 80))
                             + One(a <= 1 /\ Tells(p, "tcp", 8080))
      /\ ac[2].ftp = c.ftp + One(a <= 1 /\ Tells(p, "tcp", 21))
      /\ ac[2].sip = c.sip + One(a <= 1 /\ Tells(p, "udp", 5060))
      /\ ac[2].literal = c.literal + One(Kind(p, a) = 2 /\ p.literal)
  BY <1>1, <1>2, CountFacts
<1>. QED BY <1>1, <1>3, <1>4

-----------------------------------------------------------------------------
(* The flows after a frame of a known connection.                          *)
LEMMA MarkedFlows ==
  ASSUME AnTypes, NEW f \in DOMAIN flows, NEW v \in {1, 2, 3, 4, 100}, NEW fs,
         fs = Marked(f, v)
  PROVE  /\ fs \in Seq(AnFlow) /\ Len(fs) = Len(flows)
         /\ fs[f].analyze = v /\ fs[f].ip4p = flows[f].ip4p
         /\ \A g \in DOMAIN flows : g # f => fs[g] = flows[g]
<1>1. flows \in Seq(AnFlow) /\ DOMAIN flows = 1 .. Len(flows) /\ Len(flows) \in Nat
  BY LenProperties DEF AnTypes
<1>2. flows[f] \in AnFlow
  BY <1>1, ElementOfSeq
<1>3. PICK r : r = [flows[f] EXCEPT !.analyze = v]
  OBVIOUS
<1>4. r \in AnFlow /\ r.analyze = v /\ r.ip4p = flows[f].ip4p
  BY <1>2, <1>3 DEF AnFlow
<1>5. fs = [flows EXCEPT ![f] = r]
  BY <1>3 DEF Marked
<1>6. fs \in Seq(AnFlow) /\ Len(fs) = Len(flows)
  BY <1>1, <1>4, <1>5, ExceptSeq
<1>7. fs[f] = r /\ \A g \in DOMAIN flows : g # f => fs[g] = flows[g]
  BY <1>1, <1>5
<1>. QED BY <1>3, <1>4, <1>6, <1>7

(* A mark a flow may have.                                                 *)
LEMMA FlowMark ==
  ASSUME AnTypes, NEW f \in DOMAIN flows
  PROVE  flows[f].analyze \in {1, 2, 3, 4, 100} /\ flows[f].ip4p \in IP4Port
<1>1. flows[f] \in AnFlow
  BY ElementOfSeq, LenProperties DEF AnTypes
<1>. QED BY <1>1 DEF AnFlow

(* One more frame is counted, and is counted at most once, or twice for the *)
(* web.                                                                    *)
LEMMA CountersStep ==
  ASSUME AnTypes, n.cnt < MaxCnt, NEW p \in Frames, NEW a \in {0, 1, 2, 3, 4, 100},
         n' = Passed(p, a)[2]
  PROVE  CountersOK'
<1>1. n \in Counters /\ MaxCnt \in Nat
  BY AnalysisAssumption DEF AnTypes, CountersOK
<1>2. /\ n' \in Counters /\ n'.cnt = n.cnt + 1
      /\ n'.total <= n.total + 1 /\ n'.http <= n.http + 2 /\ n'.ftp <= n.ftp + 1
      /\ n'.sip <= n.sip + 1 /\ n'.literal <= n.literal + 1
  <2>1. /\ n.total \in Nat /\ n.http \in Nat /\ n.ftp \in Nat /\ n.sip \in Nat
        /\ n.literal \in Nat
    BY <1>1 DEF Counters
  <2>. PICK ac : ac = Passed(p, a)
    OBVIOUS
  <2>2. /\ ac[2] \in Counters /\ ac[2].cnt = n.cnt + 1
        /\ ac[2].total = n.total + One(a = 0)
        /\ ac[2].http = n.http + One(a <= 1 /\ Tells(p, "tcp", 80))
                               + One(a <= 1 /\ Tells(p, "tcp", 8080))
        /\ ac[2].ftp = n.ftp + One(a <= 1 /\ Tells(p, "tcp", 21))
        /\ ac[2].sip = n.sip + One(a <= 1 /\ Tells(p, "udp", 5060))
        /\ ac[2].literal = n.literal + One(Kind(p, a) = 2 /\ p.literal)
    BY <1>1, PassedFacts
  <2>. QED BY <2>1, <2>2 DEF One
<1>3. /\ n.cnt \in Nat /\ n.total \in Nat /\ n.http \in Nat /\ n.ftp \in Nat
      /\ n.sip \in Nat /\ n.literal \in Nat
      /\ n'.cnt \in Nat /\ n'.total \in Nat /\ n'.http \in Nat /\ n'.ftp \in Nat
      /\ n'.sip \in Nat /\ n'.literal \in Nat
  BY <1>1, <1>2 DEF Counters
<1>4. /\ n.total <= n.cnt /\ n.http <= 2 * n.cnt /\ n.ftp <= n.cnt
      /\ n.sip <= n.cnt /\ n.literal <= n.cnt
  BY DEF AnTypes, CountersOK
<1>5. /\ n'.cnt <= MaxCnt /\ n'.total <= n'.cnt /\ n'.http <= 2 * n'.cnt
      /\ n'.ftp <= n'.cnt /\ n'.sip <= n'.cnt /\ n'.literal <= n'.cnt
  BY <1>1, <1>2, <1>3, <1>4
<1>. QED BY <1>2, <1>5 DEF CountersOK, Counters

(* A frame of a known connection.                                          *)
LEMMA KnownStep ==
  ASSUME AnTypes, Connected, n.cnt < MaxCnt, reading' \in BOOLEAN,
         NEW p \in Frames, Analyse(p), Conn(p) \in Conns(AllSeen)
  PROVE  AnTypes' /\ Connected'
<1>. PICK f : f = FlowOf(p)
  OBVIOUS
<1>. PICK a : a = flows[f].analyze
  OBVIOUS
<1>. PICK v : v = Passed(p, a)[1]
  OBVIOUS
<1>1. /\ f \in DOMAIN flows /\ map44' = map44 /\ flow_cnt' = flow_cnt
      /\ flows' = Marked(f, v) /\ n' = Passed(p, a)[2]
  BY KnownConnection
<1>2. a \in {1, 2, 3, 4, 100}
  BY <1>1, FlowMark
<1>3. v \in {1, 2, 3, 4, 100}
  BY <1>2, PassedFacts DEF AnTypes, CountersOK
<1>4. /\ flows' \in Seq(AnFlow) /\ Len(flows') = Len(flows)
      /\ flows'[f].ip4p = flows[f].ip4p
      /\ \A g \in DOMAIN flows : g # f => flows'[g] = flows[g]
  BY <1>1, <1>3, MarkedFlows
<1>5. DOMAIN flows' = DOMAIN flows
  BY <1>4, LenProperties DEF AnTypes
<1>6. seen' = [seen EXCEPT ![file] = @ \cup {p}] /\ file' = file
  BY DEF Analyse
<1>7. AnTypes'
  <2>1. CountersOK'
    BY <1>1, <1>2, CountersStep
  <2>. QED BY <1>1, <1>4, <1>5, <1>6, <2>1 DEF AnTypes
<1>8. Connected'
  <2>1. Conns(AllSeen)' = Conns(AllSeen)
    <3>1. Conns(AllSeen)' = Conns(AllSeen) \cup {Conn(p)}
      BY <1>6, SeenGrows
    <3>. QED BY <3>1
  <2>2. \A x \in DOMAIN map44 : flows'[map44[x]].ip4p = flows[map44[x]].ip4p
    BY <1>4 DEF AnTypes
  <2>3. Len(flows)' = Len(flows)
    BY <1>4
  <2>4. /\ \A x \in DOMAIN map44' : /\ flows'[map44'[x]].ip4p = x[1]
                                    /\ x[2].port = 80 => x[1].port = 80
        /\ \A x, y \in DOMAIN map44' : Ends(x) = Ends(y) => x = y
        /\ \A x, y \in DOMAIN map44' : map44'[x] = map44'[y] => x = y
    BY <1>1, <2>2 DEF Connected
  <2>5. {Ends(x) : x \in DOMAIN map44'} = {Ends(x) : x \in DOMAIN map44}
    BY <1>1
  <2>. QED BY <2>1, <2>3, <2>4, <2>5 DEF Connected, Ends
<1>. QED BY <1>7, <1>8

(* A frame of a new connection.                                            *)
LEMMA NewStep ==
  ASSUME AnTypes, Connected, n.cnt < MaxCnt, reading' \in BOOLEAN,
         NEW p \in Frames, Analyse(p), Conn(p) \notin Conns(AllSeen)
  PROVE  AnTypes' /\ Connected'
<1>. PICK k : k = ServerFirst(<<p.dst, p.src>>)
  OBVIOUS
<1>. PICK v : v = Passed(p, 0)[1]
  OBVIOUS
<1>. PICK r : r = NewFlow(k, v)
  OBVIOUS
<1>1. /\ map44' = WithKey(k) /\ flow_cnt' = flow_cnt + 1
      /\ flows' = Append(flows, r) /\ n' = Passed(p, 0)[2]
  BY NewConnection
<1>2. v \in {1, 2, 3, 4, 100}
  BY PassedFacts DEF AnTypes, CountersOK
<1>3. k \in Key44 /\ Ends(k) = Conn(p) /\ (k[2].port = 80 => k[1].port = 80)
  BY FrameKey
<1>4. r \in AnFlow /\ r.ip4p = k[1]
  BY <1>2, <1>3 DEF NewFlow, AnFlow, Key44
<1>5. /\ flows \in Seq(AnFlow) /\ Len(flows) \in Nat /\ DOMAIN flows = 1 .. Len(flows)
      /\ flows' \in Seq(AnFlow) /\ Len(flows') = Len(flows) + 1
      /\ DOMAIN flows' = 1 .. Len(flows) + 1
      /\ flows'[Len(flows) + 1] = r /\ \A g \in 1 .. Len(flows) : flows'[g] = flows[g]
  <2>1. /\ flows \in Seq(AnFlow) /\ Len(flows) \in Nat /\ DOMAIN flows = 1 .. Len(flows)
    BY LenProperties DEF AnTypes
  <2>. QED BY <1>1, <1>4, <2>1, AppendProperties, LenProperties
<1>6. seen' = [seen EXCEPT ![file] = @ \cup {p}] /\ file' = file
  BY DEF Analyse
<1>7. /\ DOMAIN map44' = DOMAIN map44 \cup {k} /\ map44'[k] = Len(flows) + 1
      /\ k \notin DOMAIN map44
      /\ \A x \in DOMAIN map44 : map44'[x] = map44[x] /\ map44[x] \in 1 .. Len(flows)
  <2>1. k \notin DOMAIN map44
    BY <1>3 DEF Connected
  <2>. QED BY <1>1, <1>5, <2>1 DEF WithKey, AnTypes
<1>8. AnTypes'
  <2>1. CountersOK'
    BY <1>1, CountersStep
  <2>2. map44' \in [DOMAIN map44' -> DOMAIN flows']
    <3>1. \A x \in DOMAIN map44' : map44'[x] \in DOMAIN flows'
      BY <1>5, <1>7
    <3>2. map44' = [x \in DOMAIN map44' |-> map44'[x]]
      BY <1>1 DEF WithKey
    <3>. QED BY <3>1, <3>2
  <2>3. DOMAIN map44' \subseteq Key44
    BY <1>3, <1>7 DEF AnTypes
  <2>4. /\ flow_cnt' \in Nat /\ file' \in 1 .. MaxFiles
        /\ seen' \in [1 .. MaxFiles -> SUBSET Frames]
    BY <1>1, <1>6 DEF AnTypes
  <2>. QED BY <1>5, <2>1, <2>2, <2>3, <2>4 DEF AnTypes
<1>9. Connected'
  <2>1. Conns(AllSeen)' = Conns(AllSeen) \cup {Conn(p)}
    BY <1>6, SeenGrows
  <2>2. \A x \in DOMAIN map44' : /\ flows'[map44'[x]].ip4p = x[1]
                                 /\ x[2].port = 80 => x[1].port = 80
    <3>1. \A x \in DOMAIN map44 : /\ flows[map44[x]].ip4p = x[1]
                                  /\ x[2].port = 80 => x[1].port = 80
      BY DEF Connected
    <3>2. \A x \in DOMAIN map44 : flows'[map44'[x]] = flows[map44[x]]
      BY <1>5, <1>7
    <3>3. flows'[map44'[k]] = r
      BY <1>5, <1>7
    <3>. TAKE x \in DOMAIN map44'
    <3>4. CASE x = k
      BY <1>3, <1>4, <3>3, <3>4
    <3>5. CASE x # k
      <4>1. x \in DOMAIN map44
        BY <1>7, <3>5
      <4>2. flows'[map44'[x]] = flows[map44[x]] /\ flows[map44[x]].ip4p = x[1]
        BY <3>1, <3>2, <4>1
      <4>3. x[2].port = 80 => x[1].port = 80
        BY <3>1, <4>1
      <4>. QED BY <4>2, <4>3
    <3>. QED BY <3>4, <3>5
  <2>3. \A x, y \in DOMAIN map44' : Ends(x) = Ends(y) => x = y
    <3>1. \A x, y \in DOMAIN map44 : Ends(x) = Ends(y) => x = y
      BY DEF Connected
    <3>2. \A x \in DOMAIN map44 : Ends(x) # Ends(k)
      BY <1>3 DEF Connected
    <3>. QED BY <1>7, <3>1, <3>2
  <2>4. \A x, y \in DOMAIN map44' : map44'[x] = map44'[y] => x = y
    <3>1. \A x, y \in DOMAIN map44 : map44[x] = map44[y] => x = y
      BY DEF Connected
    <3>2. \A x \in DOMAIN map44 : map44'[x] # map44'[k]
      BY <1>5, <1>7
    <3>. QED BY <1>7, <3>1, <3>2
  <2>5. {Ends(x) : x \in DOMAIN map44'} = {Ends(x) : x \in DOMAIN map44} \cup {Ends(k)}
    BY <1>7
  <2>6. /\ IsFiniteSet(Conns(AllSeen) \cup {Conn(p)})
        /\ Cardinality(Conns(AllSeen) \cup {Conn(p)}) = Len(flows) + 1
    <3>1. IsFiniteSet(Conns(AllSeen)) /\ Cardinality(Conns(AllSeen)) = Len(flows)
      BY DEF Connected
    <3>. QED BY <3>1, FS_AddElement
  <2>7. Conns(AllSeen)' = {Ends(x) : x \in DOMAIN map44'}
    BY <1>3, <2>1, <2>5 DEF Connected
  <2>8. IsFiniteSet(Conns(AllSeen)') /\ Len(flows') = Cardinality(Conns(AllSeen)')
    BY <1>5, <2>1, <2>6
  <2>. QED BY <2>2, <2>3, <2>4, <2>7, <2>8 DEF Connected, Ends
<1>. QED BY <1>8, <1>9

-----------------------------------------------------------------------------
(* Nothing is seen yet of the files to come; what one file has made of     *)
(* flows is counted.                                                       *)
Unread == \A i \in 1 .. MaxFiles : i > file => seen[i] = {}

Counted ==
  /\ n.total = flow_cnt
  /\ IsFiniteSet(Conns(seen[file]))
  /\ FreshFile => flow_cnt = Cardinality(Conns(seen[file]))

FlowInv == AnTypes /\ Connected /\ Unread /\ Counted

(* All of this holds before the first frame.                               *)
LEMMA FlowInit == AnInit => FlowInv
<1>. SUFFICES ASSUME AnInit PROVE FlowInv
  OBVIOUS
<1>1. /\ map44 = <<>> /\ flows = <<>> /\ flow_cnt = 0 /\ n = Zero /\ reading = TRUE
      /\ file = 1 /\ seen = [i \in 1 .. MaxFiles |-> {}]
  BY DEF AnInit
<1>2. AnTypes
  <2>1. /\ n \in Counters /\ n.cnt = 0 /\ n.total = 0 /\ n.http = 0 /\ n.ftp = 0
        /\ n.sip = 0 /\ n.literal = 0
    BY <1>1 DEF Zero, Counters
  <2>2. CountersOK
    BY <2>1, AnalysisAssumption DEF CountersOK
  <2>3. DOMAIN map44 = {} /\ map44 \in [DOMAIN map44 -> DOMAIN flows]
    BY <1>1
  <2>4. file \in 1 .. MaxFiles /\ seen \in [1 .. MaxFiles -> SUBSET Frames]
    BY <1>1, AnalysisAssumption
  <2>. QED BY <1>1, <2>2, <2>3, <2>4 DEF AnTypes
<1>3. /\ AllSeen = {} /\ Conns(AllSeen) = {} /\ Conns(seen[file]) = {}
      /\ DOMAIN map44 = {} /\ file \in 1 .. MaxFiles
  <2>1. AllSeen = {}
    BY <1>1 DEF AllSeen
  <2>2. seen[file] = {} /\ file \in 1 .. MaxFiles
    BY <1>1, AnalysisAssumption
  <2>. QED BY <1>1, <2>1, <2>2 DEF Conns
<1>4. Connected
  BY <1>1, <1>3, FS_EmptySet DEF Connected
<1>5. Unread
  BY <1>1 DEF Unread
<1>6. Counted
  BY <1>1, <1>3, FS_EmptySet DEF Counted, Zero
<1>. QED BY <1>2, <1>4, <1>5, <1>6 DEF FlowInv

(* A frame without a flow leaves the flows alone, and is counted.          *)
LEMMA IgnoreStep ==
  ASSUME FlowInv, n.cnt < MaxCnt, reading' \in BOOLEAN, NEW p \in Frames, Ignore(p)
  PROVE  /\ FlowInv' /\ n'.http = n.http /\ n'.ftp = n.ftp
         /\ n'.sip = n.sip /\ n'.literal = n.literal
<1>1. /\ map44' = map44 /\ flows' = flows /\ flow_cnt' = flow_cnt /\ file' = file
      /\ seen' = seen /\ n' = [n EXCEPT !.cnt = @ + 1]
  BY DEF Ignore
<1>2. n \in Counters /\ MaxCnt \in Nat /\ n.cnt \in Nat /\ n.cnt < MaxCnt
  BY AnalysisAssumption DEF FlowInv, AnTypes, CountersOK, Counters
<1>3. /\ n' \in Counters /\ n'.cnt = n.cnt + 1 /\ n'.total = n.total /\ n'.http = n.http
      /\ n'.ftp = n.ftp /\ n'.sip = n.sip /\ n'.literal = n.literal
  BY <1>1, <1>2 DEF Counters
<1>4. CountersOK'
  <2>1. /\ n.total <= n.cnt /\ n.http <= 2 * n.cnt /\ n.ftp <= n.cnt
        /\ n.sip <= n.cnt /\ n.literal <= n.cnt
    BY DEF FlowInv, AnTypes, CountersOK
  <2>2. /\ n.total \in Nat /\ n.http \in Nat /\ n.ftp \in Nat /\ n.sip \in Nat
        /\ n.literal \in Nat
    BY <1>2 DEF Counters
  <2>. QED BY <1>2, <1>3, <2>1, <2>2 DEF CountersOK
<1>5. AnTypes'
  BY <1>1, <1>4 DEF FlowInv, AnTypes
<1>6. Connected'
  <2>1. Conns(AllSeen)' = Conns(AllSeen)
    BY <1>1 DEF AllSeen, Conns, Conn
  <2>. QED BY <1>1, <2>1 DEF FlowInv, Connected, Ends
<1>7. Unread' /\ Counted'
  BY <1>1, <1>3 DEF FlowInv, Unread, Counted, FreshFile, Conns, Conn
<1>. QED BY <1>3, <1>5, <1>6, <1>7 DEF FlowInv

(* The next file starts with nothing counted.                              *)
LEMMA NextFileStep ==
  ASSUME FlowInv, NextFile
  PROVE  FlowInv' /\ n' = Zero /\ seen'[file'] = {} /\ Conns(seen'[file']) = {}
<1>1. /\ map44' = map44 /\ flows' = flows /\ flow_cnt' = 0 /\ file' = file + 1
      /\ seen' = seen /\ n' = Zero /\ reading' = TRUE /\ file < MaxFiles
  BY DEF NextFile, InitFlowCnt
<1>2. file \in 1 .. MaxFiles /\ MaxFiles \in Nat /\ file' \in 1 .. MaxFiles
  BY <1>1, AnalysisAssumption DEF FlowInv, AnTypes
<1>3. AnTypes'
  <2>1. /\ n' \in Counters /\ n'.cnt = 0 /\ n'.total = 0 /\ n'.http = 0 /\ n'.ftp = 0
        /\ n'.sip = 0 /\ n'.literal = 0
    BY <1>1 DEF Zero, Counters
  <2>2. CountersOK'
    BY <2>1, AnalysisAssumption DEF CountersOK
  <2>. QED BY <1>1, <1>2, <2>2 DEF FlowInv, AnTypes
<1>4. Connected'
  <2>1. Conns(AllSeen)' = Conns(AllSeen)
    BY <1>1 DEF AllSeen, Conns, Conn
  <2>. QED BY <1>1, <2>1 DEF FlowInv, Connected, Ends
<1>5. seen'[file'] = {}
  BY <1>1, <1>2 DEF FlowInv, Unread
<1>6. Unread'
  BY <1>1, <1>2 DEF FlowInv, Unread
<1>7. Conns(seen'[file']) = {} /\ Conns(seen[file])' = {}
  BY <1>5 DEF Conns
<1>8. Counted'
  BY <1>1, <1>7, FS_EmptySet DEF Counted, Zero
<1>. QED BY <1>1, <1>3, <1>4, <1>5, <1>6, <1>7, <1>8 DEF FlowInv

(* If no connection of this file was in an earlier one, its known          *)
(* connections are those seen in this file.                                *)
LEMMA FreshKnown ==
  ASSUME AnTypes, Unread, NEW p \in Frames, Analyse(p), FreshFile'
  PROVE  FreshFile /\ (Conn(p) \in Conns(AllSeen) <=> Conn(p) \in Conns(seen[file]))
<1>1. /\ seen'[file] = seen[file] \cup {p} /\ file' = file
      /\ \A i \in 1 .. MaxFiles : i # file => seen'[i] = seen[i]
  BY SeenGrows DEF Analyse
<1>2. file \in 1 .. MaxFiles /\ MaxFiles \in Nat
  BY AnalysisAssumption DEF AnTypes
<1>3. Conns(seen'[file]) = Conns(seen[file]) \cup {Conn(p)}
  BY <1>1 DEF Conns
<1>4. \A i \in 1 .. file - 1 : Conns(seen[i]) \cap Conns(seen'[file]) = {}
  <2>1. \A i \in 1 .. file - 1 : Conns(seen'[i]) \cap Conns(seen'[file]) = {}
    BY <1>1 DEF FreshFile, Conns, Conn
  <2>2. \A i \in 1 .. file - 1 : seen'[i] = seen[i]
    BY <1>1, <1>2
  <2>. QED BY <2>1, <2>2
<1>5. FreshFile
  BY <1>3, <1>4 DEF FreshFile
<1>6. ASSUME Conn(p) \in Conns(AllSeen) PROVE Conn(p) \in Conns(seen[file])
  <2>1. PICK q \in AllSeen : Conn(q) = Conn(p)
    BY <1>6 DEF Conns
  <2>2. PICK i \in 1 .. MaxFiles : q \in seen[i]
    BY <2>1 DEF AllSeen
  <2>3. Conn(p) \in Conns(seen[i])
    BY <2>1, <2>2 DEF Conns
  <2>4. i \notin 1 .. file - 1
    BY <1>3, <1>4, <2>3
  <2>5. ~(i > file)
    BY <2>2 DEF Unread
  <2>6. i = file
    BY <1>2, <2>4, <2>5
  <2>. QED BY <2>3, <2>6
<1>7. ASSUME Conn(p) \in Conns(seen[file]) PROVE Conn(p) \in Conns(AllSeen)
  BY <1>2, <1>7 DEF Conns, AllSeen
<1>. QED BY <1>5, <1>6, <1>7

(* A frame with a flow keeps the counts of flows.                          *)
LEMMA AnalyseStep ==
  ASSUME FlowInv, n.cnt < MaxCnt, reading' \in BOOLEAN, NEW p \in Frames, Analyse(p)
  PROVE  FlowInv'
<1>1. /\ seen'[file] = seen[file] \cup {p} /\ file' = file
      /\ \A i \in 1 .. MaxFiles : i # file => seen'[i] = seen[i]
  BY SeenGrows DEF Analyse, FlowInv
<1>2. Conns(seen[file])' = Conns(seen[file]) \cup {Conn(p)}
  BY <1>1 DEF Conns, Conn
<1>3. Unread'
  <2>1. file \in 1 .. MaxFiles
    BY DEF FlowInv, AnTypes
  <2>. QED BY <1>1, <2>1 DEF FlowInv, Unread
<1>4. n \in Counters /\ n.total = flow_cnt /\ flow_cnt \in Nat
  BY DEF FlowInv, AnTypes, CountersOK, Counted
<1>5. AnTypes' /\ Connected'
  BY KnownStep, NewStep DEF FlowInv
<1>6. IsFiniteSet(Conns(seen[file])')
  BY <1>2, FS_AddElement DEF FlowInv, Counted
<1>7. CASE Conn(p) \in Conns(AllSeen)
  <2>. PICK f : f = FlowOf(p)
    OBVIOUS
  <2>. PICK a : a = flows[f].analyze
    OBVIOUS
  <2>1. f \in DOMAIN flows /\ flow_cnt' = flow_cnt /\ n' = Passed(p, a)[2]
    BY <1>7, KnownConnection DEF FlowInv
  <2>2. a \in {1, 2, 3, 4, 100}
    BY <2>1, FlowMark DEF FlowInv
  <2>3. n'.total = n.total
    <3>1. n'.total = n.total + One(a = 0)
      BY <1>4, <2>1, <2>2, PassedFacts
    <3>. QED BY <1>4, <2>2, <3>1 DEF One
  <2>4. ASSUME FreshFile' PROVE flow_cnt' = Cardinality(Conns(seen[file])')
    <3>1. FreshFile /\ Conn(p) \in Conns(seen[file])
      BY <1>7, <2>4, FreshKnown DEF FlowInv
    <3>2. Conns(seen[file])' = Conns(seen[file])
      BY <1>2, <3>1
    <3>. QED BY <2>1, <3>1, <3>2 DEF FlowInv, Counted
  <2>5. Counted'
    BY <1>4, <1>6, <2>1, <2>3, <2>4 DEF Counted
  <2>. QED BY <1>3, <1>5, <2>5 DEF FlowInv
<1>8. CASE Conn(p) \notin Conns(AllSeen)
  <2>1. flow_cnt' = flow_cnt + 1 /\ n' = Passed(p, 0)[2]
    BY <1>8, NewConnection DEF FlowInv
  <2>2. n'.total = n.total + 1
    <3>1. n'.total = n.total + One(0 = 0)
      BY <1>4, <2>1, PassedFacts
    <3>. QED BY <1>4, <3>1 DEF One
  <2>3. ASSUME FreshFile' PROVE flow_cnt' = Cardinality(Conns(seen[file])')
    <3>1. FreshFile /\ Conn(p) \notin Conns(seen[file])
      BY <1>8, <2>3, FreshKnown DEF FlowInv
    <3>2. IsFiniteSet(Conns(seen[file])) /\ flow_cnt = Cardinality(Conns(seen[file]))
      BY <3>1 DEF FlowInv, Counted
    <3>3. Cardinality(Conns(seen[file]) \cup {Conn(p)}) = flow_cnt + 1
      BY <3>1, <3>2, FS_AddElement
    <3>. QED BY <1>2, <2>1, <3>3
  <2>4. Counted'
    BY <1>4, <1>6, <2>1, <2>2, <2>3 DEF Counted
  <2>. QED BY <1>3, <1>5, <2>4 DEF FlowInv
<1>. QED BY <1>7, <1>8

(* Every step keeps it: a frame without a flow, one of a known connection, *)
(* one of a new connection, and the next file.                             *)
LEMMA FlowStep == FlowInv /\ [AnNext]_anVars => FlowInv'
<1>. SUFFICES ASSUME FlowInv, [AnNext]_anVars PROVE FlowInv'
  OBVIOUS
<1>1. ASSUME NEW p \in Frames, n.cnt < MaxCnt, Ignore(p) \/ Analyse(p),
             reading' = ~(p.ipv4 /\ n'.cnt > Limit)
      PROVE  FlowInv'
  <2>1. reading' \in BOOLEAN
    BY <1>1
  <2>. QED BY <1>1, <2>1, IgnoreStep, AnalyseStep
<1>2. CASE NextFile
  BY <1>2, NextFileStep
<1>3. CASE UNCHANGED anVars
  <2>1. /\ map44' = map44 /\ flows' = flows /\ flow_cnt' = flow_cnt /\ file' = file
        /\ seen' = seen /\ n' = n /\ reading' = reading
    BY <1>3 DEF anVars
  <2>2. AnTypes'
    BY <2>1 DEF FlowInv, AnTypes, CountersOK
  <2>3. Connected'
    <3>1. Conns(AllSeen)' = Conns(AllSeen)
      BY <2>1 DEF AllSeen, Conns, Conn
    <3>. QED BY <2>1, <3>1 DEF FlowInv, Connected, Ends
  <2>4. Unread' /\ Counted'
    BY <2>1 DEF FlowInv, Unread, Counted, FreshFile, Conns, Conn
  <2>. QED BY <2>2, <2>3, <2>4 DEF FlowInv
<1>. QED BY <1>1, <1>2, <1>3 DEF AnNext, ReadFrame

(* What is known of the flows and of the two counts of them holds always:  *)
(* doMapping44 makes a key and a flow of its own for every connection not  *)
(* yet seen (state.cc:123-146), and analyze counts it (main.cc:198-203).   *)
THEOREM FlowsInductive == AnSpec => []FlowInv
BY FlowInit, FlowStep, PTL DEF AnSpec

-----------------------------------------------------------------------------
(* The invariant says the types and ranges.                                *)
LEMMA FlowInvTypes == FlowInv => AnTypeOK
<1>. SUFFICES ASSUME FlowInv PROVE AnTypeOK
  OBVIOUS
<1>1. AnTypes
  BY DEF FlowInv
<1>2. /\ DOMAIN map44 \subseteq Key44 /\ \A x \in DOMAIN map44 : map44[x] \in DOMAIN flows
      /\ flow_cnt \in Nat /\ file \in 1 .. MaxFiles /\ reading \in BOOLEAN
      /\ \A i \in 1 .. MaxFiles : seen[i] \subseteq Frames
  BY <1>1 DEF AnTypes
<1>3. \A f \in DOMAIN flows :
        flows[f].ip4p \in IP4Port /\ flows[f].analyze \in {1, 2, 3, 4, 100}
  BY <1>1, FlowMark
<1>4. n.cnt \in 0 .. MaxCnt /\ n.http \in 0 .. 2 * n.cnt
  BY <1>1, AnalysisAssumption DEF AnTypes, CountersOK, Counters
<1>5. \A c \in DOMAIN Zero \ {"http"} : n[c] \in 0 .. n.cnt
  <2>1. DOMAIN Zero = {"cnt", "total", "http", "ftp", "sip", "literal"}
    BY DEF Zero
  <2>2. /\ n.cnt \in 0 .. n.cnt /\ n.total \in 0 .. n.cnt /\ n.ftp \in 0 .. n.cnt
        /\ n.sip \in 0 .. n.cnt /\ n.literal \in 0 .. n.cnt
    BY <1>1, AnalysisAssumption DEF AnTypes, CountersOK, Counters
  <2>. QED BY <2>1, <2>2
<1>. QED BY <1>2, <1>3, <1>4, <1>5 DEF AnTypeOK

(* The invariant says that a connection has one flow: its frames find the  *)
(* key with their two ends, which keeps the web server's end first.        *)
LEMMA FlowInvConnections == FlowInv => FlowPerConnection
<1>. SUFFICES ASSUME FlowInv PROVE FlowPerConnection
  OBVIOUS
<1>0. AnTypes /\ Connected
  BY DEF FlowInv
<1>1. ASSUME NEW p \in AllSeen
      PROVE  /\ p \in Frames
             /\ \E x \in DOMAIN map44 : Ends(x) = Conn(p) /\ FlowOf(p) = map44[x]
  <2>1. p \in Frames
    BY <1>0 DEF AnTypes, AllSeen
  <2>2. Conn(p) \in Conns(AllSeen)
    BY DEF Conns
  <2>3. PICK x \in DOMAIN map44 : Ends(x) = Conn(p)
    BY <1>0, <2>2 DEF Connected
  <2>4. FlowOf(p) = map44[x]
    BY <1>0, <2>1, <2>3, FoundFlow
  <2>. QED BY <2>1, <2>3, <2>4
<1>2. ASSUME NEW p \in AllSeen, NEW q \in AllSeen
      PROVE  /\ FlowOf(p) # NoFlow
             /\ FlowOf(p) = FlowOf(q) <=> Conn(p) = Conn(q)
             /\ flows[FlowOf(p)].ip4p \in Conn(p)
             /\ OnPort(p, 80) => flows[FlowOf(p)].ip4p.port = 80
  <2>1. PICK x \in DOMAIN map44 : Ends(x) = Conn(p) /\ FlowOf(p) = map44[x]
    BY <1>1
  <2>2. PICK y \in DOMAIN map44 : Ends(y) = Conn(q) /\ FlowOf(q) = map44[y]
    BY <1>1
  <2>3. FlowOf(p) # NoFlow
    BY <1>0, <2>1, LenProperties DEF AnTypes, NoFlow
  <2>4. FlowOf(p) = FlowOf(q) <=> Conn(p) = Conn(q)
    BY <1>0, <2>1, <2>2 DEF Connected
  <2>5. flows[map44[x]].ip4p = x[1] /\ (x[2].port = 80 => x[1].port = 80)
    BY <1>0 DEF Connected
  <2>6. flows[FlowOf(p)].ip4p \in Conn(p)
    BY <2>1, <2>5 DEF Ends
  <2>7. OnPort(p, 80) => x[1].port = 80 \/ x[2].port = 80
    BY <2>1 DEF OnPort, Conn, Ends
  <2>. QED BY <2>1, <2>3, <2>4, <2>5, <2>6, <2>7
<1>3. Len(flows) = Cardinality(Conns(AllSeen))
  BY <1>0 DEF Connected
<1>. QED BY <1>2, <1>3 DEF FlowPerConnection, FlowOf

(* Types and ranges of analysis mode: no counter exceeds the frames read,  *)
(* but http, which a frame between ports 80 and 8080 counts in twice       *)
(* (main.cc:204-226).                                                      *)
THEOREM AnalysisTypes == AnSpec => []AnTypeOK
BY FlowsInductive, FlowInvTypes, PTL

(* However the frames of any number of files come, both directions of a    *)
(* connection lead to one flow and to none of another connection, and the  *)
(* flow is kept by the web server's end (state.cc:123-146).                *)
THEOREM FlowPerConnectionHolds == AnSpec => []FlowPerConnection
BY FlowsInductive, FlowInvConnections, PTL

(* The two counts of flows printed at the end agree (main.cc:247, 250), and *)
(* are the connections of the file if none was in an earlier one, sm.init  *)
(* having reset one of them.                                               *)
THEOREM FlowsCountedHolds == AnSpec => []FlowsCounted
<1>1. FlowInv => FlowsCounted
  BY DEF FlowInv, Counted, FlowsCounted
<1>. QED BY <1>1, FlowsInductive, PTL

-----------------------------------------------------------------------------
(* The mark of a connection's flow.                                        *)
Mark(c) == flows[map44[CHOOSE x \in DOMAIN map44 : Ends(x) = c]].analyze

Seen     == Conns(seen[file])
Ftp      == WithService("tcp", {21})
Sip      == WithService("udp", {5060})
Literals == Conns({p \in seen[file] : p.l4 = "tcp" /\ p.literal})
Lit      == {c \in Seen : Mark(c) = 100}

(* A mark tells the service of its connection, and the counters count the  *)
(* marks.                                                                  *)
MarksTell ==
  \A c \in Seen : /\ Mark(c) \in {2, 100} <=> c \in Web
                  /\ Mark(c) = 3 <=> c \in Ftp
                  /\ Mark(c) = 4 <=> c \in Sip
                  /\ c \in Web /\ c \in Literals => Mark(c) = 100

MarksCounted ==
  /\ n.http = Cardinality(Web) /\ n.ftp = Cardinality(Ftp)
  /\ n.sip = Cardinality(Sip) /\ n.literal = Cardinality(Lit)

ServiceInv ==
  FlowInv /\ (FreshFile /\ OneService => MarksTell /\ MarksCounted)

(* A finite set of at most one member.                                     *)
LEMMA AtMostOne ==
  ASSUME NEW S, IsFiniteSet(S), Cardinality(S) <= 1, NEW x \in S, NEW y \in S
  PROVE  x = y
<1>. SUFFICES ASSUME x # y PROVE FALSE
  OBVIOUS
<1>1. IsFiniteSet({x}) /\ Cardinality({x}) = 1
  BY FS_Singleton
<1>2. Cardinality({x} \cup {y}) = 2
  BY <1>1, FS_AddElement
<1>3. {x} \cup {y} \subseteq S
  OBVIOUS
<1>4. Cardinality({x} \cup {y}) <= Cardinality(S)
  BY <1>3, FS_Subset
<1>5. Cardinality(S) \in Nat
  BY FS_CardinalityType
<1>. QED BY <1>2, <1>4, <1>5

(* A connection's frames have the same ports.                              *)
LEMMA SamePorts ==
  ASSUME NEW p, NEW q, Conn(p) = Conn(q), NEW port
  PROVE  OnPort(p, port) <=> OnPort(q, port)
<1>1. /\ OnPort(p, port) <=> \E e \in Conn(p) : e.port = port
      /\ OnPort(q, port) <=> \E e \in Conn(q) : e.port = port
  BY DEF OnPort, Conn
<1>. QED BY <1>1

(* Two values have at most one member of P between them.                   *)
LEMMA OneOfTwo ==
  ASSUME NEW u, NEW v, NEW P, Cardinality({u, v} \cap P) <= 1,
         NEW s \in {u, v} \cap P, NEW t \in {u, v} \cap P
  PROVE  s = t
<1>1. IsFiniteSet({u})
  BY FS_Singleton
<1>2. IsFiniteSet({u} \cup {v})
  BY <1>1, FS_AddElement
<1>3. {u, v} \cap P \subseteq {u} \cup {v}
  OBVIOUS
<1>4. IsFiniteSet({u, v} \cap P)
  BY <1>2, <1>3, FS_Subset
<1>. QED BY <1>4, AtMostOne

(* A frame with at most one of its ports in P is on at most one of them.   *)
LEMMA OnePort ==
  ASSUME NEW P, NEW p, Cardinality({p.src.port, p.dst.port} \cap P) <= 1,
         NEW s \in P, NEW t \in P, OnPort(p, s), OnPort(p, t)
  PROVE  s = t
<1>1. /\ s \in {p.src.port, p.dst.port} \cap P
      /\ t \in {p.src.port, p.dst.port} \cap P
  BY DEF OnPort
<1>. QED BY <1>1, OneOfTwo

(* With one service to a connection its frames tell one service.           *)
OneTold(p) ==
  Cardinality({p.src.port, p.dst.port} \cap {80, 8080, 21, 5060}) <= 1

LEMMA OneServiceOnly ==
  ASSUME NEW p, OneTold(p)
  PROVE  /\ OnPort(p, 80) => ~OnPort(p, 8080) /\ ~OnPort(p, 21) /\ ~OnPort(p, 5060)
         /\ OnPort(p, 8080) => ~OnPort(p, 21) /\ ~OnPort(p, 5060)
         /\ OnPort(p, 21) => ~OnPort(p, 5060)
<1>. DEFINE P == {80, 8080, 21, 5060}
<1>2. Cardinality({p.src.port, p.dst.port} \cap P) <= 1
  BY SMT DEF OneTold
<1>3. 80 \in P /\ 8080 \in P /\ 21 \in P /\ 5060 \in P
  BY SMT
<1>. HIDE DEF P
<1>4. \A s, t \in P : OnPort(p, s) /\ OnPort(p, t) => s = t
  BY <1>2, OnePort
<1>. QED BY <1>3, <1>4, SMT

(* What a mark is after a frame.                                           *)
LEMMA MarkStep ==
  ASSUME FlowInv, NEW p \in Frames, Analyse(p),
         NEW a, a = IF Conn(p) \in Conns(AllSeen) THEN Mark(Conn(p)) ELSE 0
  PROVE  /\ a \in {0, 1, 2, 3, 4, 100} /\ (a = 0 <=> Conn(p) \notin Conns(AllSeen))
         /\ n' = Passed(p, a)[2]
         /\ Mark(Conn(p))' = Passed(p, a)[1]
         /\ \A c \in Conns(AllSeen) : c # Conn(p) => Mark(c)' = Mark(c)
<1>0. AnTypes /\ Connected /\ n \in Counters
  BY DEF FlowInv, AnTypes, CountersOK
<1>1. /\ Conns(AllSeen) = {Ends(x) : x \in DOMAIN map44}
      /\ \A x, y \in DOMAIN map44 : Ends(x) = Ends(y) => x = y
      /\ \A x, y \in DOMAIN map44 : map44[x] = map44[y] => x = y
      /\ \A x \in DOMAIN map44 : map44[x] \in DOMAIN flows
  BY <1>0 DEF Connected, AnTypes
<1>2. \A x \in DOMAIN map44 : Mark(Ends(x)) = flows[map44[x]].analyze
  <2>. TAKE x \in DOMAIN map44
  <2>1. (CHOOSE y \in DOMAIN map44 : Ends(y) = Ends(x)) = x
    BY <1>1
  <2>. QED BY <2>1 DEF Mark
<1>3. CASE Conn(p) \in Conns(AllSeen)
  <2>1. PICK x \in DOMAIN map44 : Ends(x) = Conn(p)
    BY <1>1, <1>3
  <2>. PICK f : f = FlowOf(p)
    OBVIOUS
  <2>2. f = map44[x] /\ f \in DOMAIN flows
    BY <1>0, <1>1, <2>1, FoundFlow
  <2>3. a = flows[f].analyze
    BY <1>2, <1>3, <2>1, <2>2
  <2>4. a \in {1, 2, 3, 4, 100}
    BY <1>0, <2>2, <2>3, FlowMark
  <2>5. map44' = map44 /\ flows' = Marked(f, Passed(p, a)[1]) /\ n' = Passed(p, a)[2]
    BY <1>0, <1>3, <2>3, KnownConnection
  <2>6. Passed(p, a)[1] \in {1, 2, 3, 4, 100}
    BY <1>0, <2>4, PassedFacts
  <2>7. /\ flows'[f].analyze = Passed(p, a)[1]
        /\ \A g \in DOMAIN flows : g # f => flows'[g] = flows[g]
    BY <1>0, <2>2, <2>5, <2>6, MarkedFlows
  <2>8. \A y \in DOMAIN map44 : Mark(Ends(y))' = flows'[map44[y]].analyze
    <3>. TAKE y \in DOMAIN map44
    <3>1. (CHOOSE z \in DOMAIN map44 : Ends(z) = Ends(y)) = y
      BY <1>1
    <3>. QED BY <2>5, <3>1 DEF Mark, Ends
  <2>9. Mark(Conn(p))' = Passed(p, a)[1]
    <3>1. Mark(Ends(x))' = flows'[map44[x]].analyze
      BY <2>8
    <3>. QED BY <2>1, <2>2, <2>7, <3>1 DEF Mark
  <2>10. ASSUME NEW c \in Conns(AllSeen), c # Conn(p) PROVE Mark(c)' = Mark(c)
    <3>1. PICK y \in DOMAIN map44 : Ends(y) = c
      BY <1>1
    <3>2. map44[y] # f /\ map44[y] \in DOMAIN flows
      BY <1>1, <2>1, <2>2, <2>10, <3>1
    <3>3. flows'[map44[y]] = flows[map44[y]]
      BY <2>7, <3>2
    <3>4. Mark(Ends(y))' = flows'[map44[y]].analyze /\ Mark(Ends(y)) = flows[map44[y]].analyze
      BY <1>2, <2>8
    <3>. QED BY <3>1, <3>3, <3>4 DEF Mark
  <2>. QED BY <1>3, <2>4, <2>5, <2>9, <2>10
<1>4. CASE Conn(p) \notin Conns(AllSeen)
  <2>. PICK k : k = ServerFirst(<<p.dst, p.src>>)
    OBVIOUS
  <2>. PICK r : r = NewFlow(k, Passed(p, 0)[1])
    OBVIOUS
  <2>1. a = 0
    BY <1>4
  <2>2. /\ map44' = WithKey(k) /\ flows' = Append(flows, r) /\ n' = Passed(p, 0)[2]
    BY <1>0, <1>4, NewConnection
  <2>3. k \in Key44 /\ Ends(k) = Conn(p)
    BY FrameKey
  <2>4. Passed(p, 0)[1] \in {1, 2, 3, 4, 100}
    BY <1>0, PassedFacts
  <2>5. r \in AnFlow /\ r.analyze = Passed(p, 0)[1]
    BY <2>3, <2>4 DEF NewFlow, AnFlow, Key44
  <2>6. /\ flows'[Len(flows) + 1] = r /\ DOMAIN flows = 1 .. Len(flows) /\ Len(flows) \in Nat
        /\ \A g \in DOMAIN flows : flows'[g] = flows[g]
    <3>1. flows \in Seq(AnFlow)
      BY <1>0 DEF AnTypes
    <3>. QED BY <2>2, <2>5, <3>1, AppendProperties, LenProperties
  <2>7. k \notin DOMAIN map44 /\ \A x \in DOMAIN map44 : Ends(x) # Ends(k)
    BY <1>1, <1>4, <2>3
  <2>8. /\ DOMAIN map44' = DOMAIN map44 \cup {k} /\ map44'[k] = Len(flows) + 1
        /\ \A x \in DOMAIN map44 : map44'[x] = map44[x]
    BY <2>2, <2>7 DEF WithKey
  <2>9. \A y \in DOMAIN map44' : Mark(Ends(y))' = flows'[map44'[y]].analyze
    <3>. TAKE y \in DOMAIN map44'
    <3>1. (CHOOSE z \in DOMAIN map44' : Ends(z) = Ends(y)) = y
      BY <1>1, <2>7, <2>8
    <3>. QED BY <3>1 DEF Mark, Ends
  <2>10. Mark(Conn(p))' = Passed(p, 0)[1]
    <3>1. Mark(Ends(k))' = flows'[map44'[k]].analyze
      BY <2>8, <2>9
    <3>. QED BY <2>3, <2>5, <2>6, <2>8, <3>1 DEF Mark
  <2>11. ASSUME NEW c \in Conns(AllSeen) PROVE Mark(c)' = Mark(c)
    <3>1. PICK y \in DOMAIN map44 : Ends(y) = c
      BY <1>1
    <3>2. flows'[map44'[y]] = flows[map44[y]]
      BY <1>1, <2>6, <2>8
    <3>3. Mark(Ends(y))' = flows'[map44'[y]].analyze /\ Mark(Ends(y)) = flows[map44[y]].analyze
      BY <1>2, <2>8, <2>9
    <3>. QED BY <3>1, <3>2, <3>3 DEF Mark
  <2>. QED BY <1>4, <2>1, <2>2, <2>10, <2>11
<1>. QED BY <1>3, <1>4

-----------------------------------------------------------------------------
(* What a frame tells.                                                     *)
TellsWeb(p) == Tells(p, "tcp", 80) \/ Tells(p, "tcp", 8080)
TellsFtp(p) == Tells(p, "tcp", 21)
TellsSip(p) == Tells(p, "udp", 5060)

WebPort(p) == OnPort(p, 80) \/ OnPort(p, 8080)
FtpPort(p) == OnPort(p, 21)
SipPort(p) == OnPort(p, 5060)

(* What a frame tells, by its transport and its ports.                     *)
LEMMA TellsPorts ==
  ASSUME NEW p
  PROVE  /\ TellsWeb(p) <=> p.l4 = "tcp" /\ WebPort(p)
         /\ TellsFtp(p) <=> p.l4 = "tcp" /\ FtpPort(p)
         /\ TellsSip(p) <=> p.l4 = "udp" /\ SipPort(p)
BY SMT DEF TellsWeb, TellsFtp, TellsSip, WebPort, FtpPort, SipPort, Tells

(* Frames of one connection are on the same services' ports.               *)
LEMMA PortsOfConn ==
  ASSUME NEW p, NEW q, Conn(p) = Conn(q)
  PROVE  /\ WebPort(p) <=> WebPort(q)
         /\ FtpPort(p) <=> FtpPort(q)
         /\ SipPort(p) <=> SipPort(q)
BY SamePorts, SMT DEF WebPort, FtpPort, SipPort

(* A frame that tells one service only tells it once.                      *)
LEMMA OnePortOnly ==
  ASSUME NEW p, OneTold(p)
  PROVE  /\ ~(WebPort(p) /\ FtpPort(p)) /\ ~(WebPort(p) /\ SipPort(p))
         /\ ~(FtpPort(p) /\ SipPort(p))
         /\ ~(Tells(p, "tcp", 80) /\ Tells(p, "tcp", 8080))
BY OneServiceOnly, SMT DEF WebPort, FtpPort, SipPort, Tells

(* A set of two that meets P.                                              *)
LEMMA OneIn == ASSUME NEW u, NEW v, NEW P PROVE {u, v} \cap P # {} <=> u \in P \/ v \in P
OBVIOUS

(* The connections with a service, by their frames.                        *)
WebOf(S) == {Conn(q) : q \in {r \in S : TellsWeb(r)}}
FtpOf(S) == {Conn(q) : q \in {r \in S : TellsFtp(r)}}
SipOf(S) == {Conn(q) : q \in {r \in S : TellsSip(r)}}
LitOf(S) == {Conn(q) : q \in {r \in S : r.l4 = "tcp" /\ r.literal}}

(* The sets the property counts are those.                                 *)
LEMMA ServiceSets ==
  /\ Web = WebOf(seen[file]) /\ Ftp = FtpOf(seen[file]) /\ Sip = SipOf(seen[file])
  /\ Literals = LitOf(seen[file])
  /\ Web' = WebOf(seen'[file']) /\ Ftp' = FtpOf(seen'[file']) /\ Sip' = SipOf(seen'[file'])
  /\ Literals' = LitOf(seen'[file'])
<1>1. \A r : TellsWeb(r) <=> r.l4 = "tcp" /\ {r.src.port, r.dst.port} \cap {80, 8080} # {}
  <2>. TAKE r
  <2>. DEFINE P == {80, 8080}
  <2>1. TellsWeb(r) <=> r.l4 = "tcp" /\ (r.src.port \in P \/ r.dst.port \in P)
    BY SMT DEF TellsWeb, Tells, OnPort
  <2>. HIDE DEF P
  <2>2. {r.src.port, r.dst.port} \cap P # {} <=> r.src.port \in P \/ r.dst.port \in P
    BY OneIn
  <2>3. TellsWeb(r) <=> r.l4 = "tcp" /\ {r.src.port, r.dst.port} \cap P # {}
    BY <2>1, <2>2
  <2>. QED BY <2>3 DEF P
<1>2. \A r : TellsFtp(r) <=> r.l4 = "tcp" /\ {r.src.port, r.dst.port} \cap {21} # {}
  <2>. TAKE r
  <2>. DEFINE P == {21}
  <2>1. TellsFtp(r) <=> r.l4 = "tcp" /\ (r.src.port \in P \/ r.dst.port \in P)
    BY SMT DEF TellsFtp, Tells, OnPort
  <2>. HIDE DEF P
  <2>2. {r.src.port, r.dst.port} \cap P # {} <=> r.src.port \in P \/ r.dst.port \in P
    BY OneIn
  <2>3. TellsFtp(r) <=> r.l4 = "tcp" /\ {r.src.port, r.dst.port} \cap P # {}
    BY <2>1, <2>2
  <2>. QED BY <2>3 DEF P
<1>3. \A r : TellsSip(r) <=> r.l4 = "udp" /\ {r.src.port, r.dst.port} \cap {5060} # {}
  <2>. TAKE r
  <2>. DEFINE P == {5060}
  <2>1. TellsSip(r) <=> r.l4 = "udp" /\ (r.src.port \in P \/ r.dst.port \in P)
    BY SMT DEF TellsSip, Tells, OnPort
  <2>. HIDE DEF P
  <2>2. {r.src.port, r.dst.port} \cap P # {} <=> r.src.port \in P \/ r.dst.port \in P
    BY OneIn
  <2>3. TellsSip(r) <=> r.l4 = "udp" /\ {r.src.port, r.dst.port} \cap P # {}
    BY <2>1, <2>2
  <2>. QED BY <2>3 DEF P
<1>4. ASSUME NEW S
      PROVE  /\ Conns({q \in S : /\ q.l4 = "tcp"
                               /\ {q.src.port, q.dst.port} \cap {80, 8080} # {}}) = WebOf(S)
             /\ Conns({q \in S : /\ q.l4 = "tcp"
                               /\ {q.src.port, q.dst.port} \cap {21} # {}}) = FtpOf(S)
             /\ Conns({q \in S : /\ q.l4 = "udp"
                               /\ {q.src.port, q.dst.port} \cap {5060} # {}}) = SipOf(S)
             /\ Conns({q \in S : q.l4 = "tcp" /\ q.literal}) = LitOf(S)
  <2>1. Conns({q \in S : /\ q.l4 = "tcp"
                         /\ {q.src.port, q.dst.port} \cap {80, 8080} # {}}) = WebOf(S)
    BY <1>1, SMT DEF Conns, WebOf
  <2>2. Conns({q \in S : /\ q.l4 = "tcp"
                         /\ {q.src.port, q.dst.port} \cap {21} # {}}) = FtpOf(S)
    BY <1>2, SMT DEF Conns, FtpOf
  <2>3. Conns({q \in S : /\ q.l4 = "udp"
                         /\ {q.src.port, q.dst.port} \cap {5060} # {}}) = SipOf(S)
    BY <1>3, SMT DEF Conns, SipOf
  <2>4. Conns({q \in S : q.l4 = "tcp" /\ q.literal}) = LitOf(S)
    BY DEF Conns, LitOf
  <2>. QED BY <2>1, <2>2, <2>3, <2>4
<1>5. /\ Web = WebOf(seen[file]) /\ Ftp = FtpOf(seen[file]) /\ Sip = SipOf(seen[file])
      /\ Literals = LitOf(seen[file])
  BY <1>4, SMT DEF Web, Ftp, Sip, Literals, WithService
<1>6. /\ Web' = WebOf(seen'[file']) /\ Ftp' = FtpOf(seen'[file'])
      /\ Sip' = SipOf(seen'[file']) /\ Literals' = LitOf(seen'[file'])
  <2>1. PICK S : S = seen'[file']
    OBVIOUS
  <2>. DEFINE w(l4, ports) ==
                Conns({q \in S : q.l4 = l4 /\ {q.src.port, q.dst.port} \cap ports # {}})
  <2>2. /\ Web' = w("tcp", {80, 8080}) /\ Ftp' = w("tcp", {21}) /\ Sip' = w("udp", {5060})
        /\ Literals' = Conns({q \in S : q.l4 = "tcp" /\ q.literal})
    BY <2>1, SMT DEF Web, Ftp, Sip, Literals, WithService, Conns, Conn
  <2>3. /\ w("tcp", {80, 8080}) = WebOf(S) /\ w("tcp", {21}) = FtpOf(S)
        /\ w("udp", {5060}) = SipOf(S)
        /\ Conns({q \in S : q.l4 = "tcp" /\ q.literal}) = LitOf(S)
    BY <1>4, SMT
  <2>. QED BY <2>1, <2>2, <2>3
<1>. QED BY <1>5, <1>6

(* The connections with a service after one more frame.                    *)
LEMMA SetsGrow ==
  ASSUME NEW S, NEW p
  PROVE  /\ WebOf(S \cup {p}) = IF TellsWeb(p) THEN WebOf(S) \cup {Conn(p)} ELSE WebOf(S)
         /\ FtpOf(S \cup {p}) = IF TellsFtp(p) THEN FtpOf(S) \cup {Conn(p)} ELSE FtpOf(S)
         /\ SipOf(S \cup {p}) = IF TellsSip(p) THEN SipOf(S) \cup {Conn(p)} ELSE SipOf(S)
         /\ LitOf(S \cup {p}) = IF p.l4 = "tcp" /\ p.literal THEN LitOf(S) \cup {Conn(p)}
                                ELSE LitOf(S)
<1>1. WebOf(S \cup {p}) = IF TellsWeb(p) THEN WebOf(S) \cup {Conn(p)} ELSE WebOf(S)
  BY DEF WebOf
<1>2. FtpOf(S \cup {p}) = IF TellsFtp(p) THEN FtpOf(S) \cup {Conn(p)} ELSE FtpOf(S)
  BY DEF FtpOf
<1>3. SipOf(S \cup {p}) = IF TellsSip(p) THEN SipOf(S) \cup {Conn(p)} ELSE SipOf(S)
  BY DEF SipOf
<1>4. LitOf(S \cup {p}) = IF p.l4 = "tcp" /\ p.literal THEN LitOf(S) \cup {Conn(p)}
                         ELSE LitOf(S)
  BY DEF LitOf
<1>. QED BY <1>1, <1>2, <1>3, <1>4

(* A service's connections are seen, and have its port.                    *)
LEMMA OfPorts ==
  ASSUME NEW S, NEW p
  PROVE  /\ WebOf(S) \subseteq Conns(S) /\ FtpOf(S) \subseteq Conns(S)
         /\ SipOf(S) \subseteq Conns(S)
         /\ Conn(p) \in WebOf(S) => WebPort(p)
         /\ Conn(p) \in FtpOf(S) => FtpPort(p)
         /\ Conn(p) \in SipOf(S) => SipPort(p)
         /\ Conn(p) \in LitOf(S) /\ WebPort(p) => Conn(p) \in WebOf(S)
<1>1. WebOf(S) \subseteq Conns(S) /\ FtpOf(S) \subseteq Conns(S) /\ SipOf(S) \subseteq Conns(S)
  BY DEF WebOf, FtpOf, SipOf, Conns
<1>2. ASSUME Conn(p) \in WebOf(S) PROVE WebPort(p)
  BY <1>2, TellsPorts, PortsOfConn DEF WebOf
<1>3. ASSUME Conn(p) \in FtpOf(S) PROVE FtpPort(p)
  BY <1>3, TellsPorts, PortsOfConn DEF FtpOf
<1>4. ASSUME Conn(p) \in SipOf(S) PROVE SipPort(p)
  BY <1>4, TellsPorts, PortsOfConn DEF SipOf
<1>5. ASSUME Conn(p) \in LitOf(S), WebPort(p) PROVE Conn(p) \in WebOf(S)
  <2>1. PICK q \in S : q.l4 = "tcp" /\ Conn(q) = Conn(p)
    BY <1>5 DEF LitOf
  <2>2. TellsWeb(q)
    BY <1>5, <2>1, TellsPorts, PortsOfConn
  <2>. QED BY <2>1, <2>2 DEF WebOf
<1>. QED BY <1>1, <1>2, <1>3, <1>4, <1>5

(* What a frame's passage leaves, by what the frame tells.                 *)
LEMMA TellsFacts ==
  ASSUME n \in Counters, NEW p \in Frames, NEW a \in {0, 1, 2, 3, 4, 100},
         ~(Tells(p, "tcp", 80) /\ Tells(p, "tcp", 8080)),
         ~(TellsWeb(p) /\ TellsFtp(p)), ~(TellsWeb(p) /\ TellsSip(p)),
         ~(TellsFtp(p) /\ TellsSip(p)),
         NEW ac, ac = Passed(p, a)
  PROVE  /\ ac[1] \in {2, 100} <=> a \in {2, 100} \/ (a <= 1 /\ TellsWeb(p))
         /\ ac[1] = 3 <=> a = 3 \/ (a <= 1 /\ TellsFtp(p))
         /\ ac[1] = 4 <=> a = 4 \/ (a <= 1 /\ TellsSip(p))
         /\ ac[1] = 100 <=> a = 100 \/ ((a = 2 \/ (a <= 1 /\ TellsWeb(p))) /\ p.literal)
         /\ ac[2].http = n.http + One(a <= 1 /\ TellsWeb(p))
         /\ ac[2].ftp = n.ftp + One(a <= 1 /\ TellsFtp(p))
         /\ ac[2].sip = n.sip + One(a <= 1 /\ TellsSip(p))
         /\ ac[2].literal = n.literal + One(a # 100 /\ ac[1] = 100)
<1>1. /\ ac[1] = IF Kind(p, a) \in {2, 100} /\ p.literal THEN 100 ELSE Kind(p, a)
      /\ ac[2].http = n.http + One(a <= 1 /\ Tells(p, "tcp", 80))
                             + One(a <= 1 /\ Tells(p, "tcp", 8080))
      /\ ac[2].ftp = n.ftp + One(a <= 1 /\ Tells(p, "tcp", 21))
      /\ ac[2].sip = n.sip + One(a <= 1 /\ Tells(p, "udp", 5060))
      /\ ac[2].literal = n.literal + One(Kind(p, a) = 2 /\ p.literal)
  BY PassedFacts, SMT
<1>2. p.literal \in BOOLEAN
  BY AnalysisAssumption, SMT
<1>3. Kind(p, a) = IF a > 1 THEN a ELSE IF TellsSip(p) THEN 4 ELSE IF TellsFtp(p) THEN 3
                   ELSE IF TellsWeb(p) THEN 2 ELSE 1
  BY SMT DEF Kind, TellsWeb, TellsFtp, TellsSip
<1>4. One(a <= 1 /\ Tells(p, "tcp", 80)) + One(a <= 1 /\ Tells(p, "tcp", 8080))
        = One(a <= 1 /\ TellsWeb(p))
  BY SMT DEF One, TellsWeb
<1>5. /\ ac[2].http = n.http + One(a <= 1 /\ TellsWeb(p))
      /\ ac[2].ftp = n.ftp + One(a <= 1 /\ TellsFtp(p))
      /\ ac[2].sip = n.sip + One(a <= 1 /\ TellsSip(p))
  <2>1. n.http \in Nat /\ One(a <= 1 /\ Tells(p, "tcp", 80)) \in Nat
        /\ One(a <= 1 /\ Tells(p, "tcp", 8080)) \in Nat
    BY SMT DEF Counters, One
  <2>2. ac[2].http = n.http + One(a <= 1 /\ TellsWeb(p))
    BY <1>1, <1>4, <2>1, SMT
  <2>. QED BY <1>1, <2>2 DEF TellsFtp, TellsSip
<1>6. /\ ac[1] \in {2, 100} <=> a \in {2, 100} \/ (a <= 1 /\ TellsWeb(p))
      /\ ac[1] = 3 <=> a = 3 \/ (a <= 1 /\ TellsFtp(p))
      /\ ac[1] = 4 <=> a = 4 \/ (a <= 1 /\ TellsSip(p))
      /\ ac[1] = 100 <=> a = 100 \/ ((a = 2 \/ (a <= 1 /\ TellsWeb(p))) /\ p.literal)
      /\ (Kind(p, a) = 2 /\ p.literal) <=> (a # 100 /\ ac[1] = 100)
  <2>1. PICK k : k = Kind(p, a)
    OBVIOUS
  <2>2. ac[1] = IF k \in {2, 100} /\ p.literal THEN 100 ELSE k
    BY <1>1, <2>1, SMT
  <2>3. k = IF a > 1 THEN a ELSE IF TellsSip(p) THEN 4 ELSE IF TellsFtp(p) THEN 3
            ELSE IF TellsWeb(p) THEN 2 ELSE 1
    BY <1>3, <2>1, SMT
  <2>4. /\ k \in {2, 100} <=> a \in {2, 100} \/ (a <= 1 /\ TellsWeb(p))
        /\ k = 3 <=> a = 3 \/ (a <= 1 /\ TellsFtp(p))
        /\ k = 4 <=> a = 4 \/ (a <= 1 /\ TellsSip(p))
        /\ k = 100 <=> a = 100
        /\ k = 2 <=> a = 2 \/ (a <= 1 /\ TellsWeb(p))
    BY <2>3, SMT
  <2>5. ASSUME p.literal PROVE ac[1] = IF k \in {2, 100} THEN 100 ELSE k
    BY <2>2, <2>5, SMT
  <2>6. ASSUME ~p.literal PROVE ac[1] = k
    BY <2>2, <2>6, SMT
  <2>7. CASE p.literal
    BY <2>1, <2>4, <2>5, <2>7, SMT
  <2>8. CASE ~p.literal
    BY <2>1, <2>4, <2>6, <2>8, SMT
  <2>. QED BY <2>7, <2>8
<1>7. ac[2].literal = n.literal + One(a # 100 /\ ac[1] = 100)
  BY <1>1, <1>6, SMT DEF One
<1>. QED BY <1>5, <1>6, <1>7

-----------------------------------------------------------------------------
(* One connection more counts one more, unless it was counted.             *)
LEMMA CountGrows ==
  ASSUME NEW S, IsFiniteSet(S), NEW T, NEW c, NEW j \in Nat, j = Cardinality(S)
  PROVE  /\ T = S \cup {c} /\ c \notin S => Cardinality(T) = j + 1
         /\ T = S \cup {c} /\ c \in S => Cardinality(T) = j
         /\ T = S => Cardinality(T) = j
BY FS_AddElement

(* A frame with a flow keeps the marks and the counts of services: the first *)
(* frame of a connection that tells a service marks its flow and counts it, *)
(* and no later frame of it tells another.                    *)
LEMMA ServiceStep ==
  ASSUME ServiceInv, NEW p \in Frames, Analyse(p), FreshFile', OneService'
  PROVE  MarksTell' /\ MarksCounted'
<1>0. FlowInv /\ AnTypes /\ Connected /\ Unread /\ n \in Counters
  BY DEF ServiceInv, FlowInv, AnTypes, CountersOK
<1>. PICK c0 : c0 = Conn(p)
  OBVIOUS
<1>. PICK S : S = seen[file]
  OBVIOUS
<1>. PICK a : a = IF Conn(p) \in Conns(AllSeen) THEN Mark(Conn(p)) ELSE 0
  OBVIOUS
<1>. PICK ac : ac = Passed(p, a)
  OBVIOUS
<1>1. /\ FreshFile /\ (c0 \in Conns(AllSeen) <=> c0 \in Seen)
  BY <1>0, FreshKnown DEF Seen
<1>2. /\ seen' = [seen EXCEPT ![file] = @ \cup {p}] /\ file' = file
      /\ seen'[file'] = S \cup {p} /\ AllSeen' = AllSeen \cup {p}
  <2>1. seen' = [seen EXCEPT ![file] = @ \cup {p}] /\ file' = file
    BY DEF Analyse
  <2>. QED BY <1>0, <2>1, SeenGrows
<1>3. OneTold(p) /\ OneService
  <2>1. \A q \in AllSeen \cup {p} : OneTold(q)
    BY <1>2, SMT DEF OneService, OneTold
  <2>. QED BY <2>1, SMT DEF OneService, OneTold
<1>4. MarksTell /\ MarksCounted
  BY <1>1, <1>3 DEF ServiceInv
<1>5. /\ a \in {0, 1, 2, 3, 4, 100} /\ (a = 0 <=> c0 \notin Seen)
      /\ n' = ac[2] /\ Mark(c0)' = ac[1]
      /\ \A c \in Seen : c # c0 => Mark(c)' = Mark(c)
  <2>1. Seen \subseteq Conns(AllSeen)
    BY <1>0 DEF Seen, Conns, AllSeen, AnTypes
  <2>2. /\ a \in {0, 1, 2, 3, 4, 100} /\ (a = 0 <=> Conn(p) \notin Conns(AllSeen))
        /\ n' = Passed(p, a)[2] /\ Mark(Conn(p))' = Passed(p, a)[1]
        /\ \A c \in Conns(AllSeen) : c # Conn(p) => Mark(c)' = Mark(c)
    BY <1>0, MarkStep
  <2>3. Mark(c0)' = Mark(Conn(p))'
    BY DEF Mark, Conn
  <2>. QED BY <1>1, <2>1, <2>2, <2>3
<1>6. /\ ~(WebPort(p) /\ FtpPort(p)) /\ ~(WebPort(p) /\ SipPort(p))
      /\ ~(FtpPort(p) /\ SipPort(p)) /\ ~(Tells(p, "tcp", 80) /\ Tells(p, "tcp", 8080))
      /\ (TellsWeb(p) => WebPort(p)) /\ (TellsFtp(p) => FtpPort(p))
      /\ (TellsSip(p) => SipPort(p))
  BY <1>3, OnePortOnly, TellsPorts
<1>7. /\ ac[1] \in {2, 100} <=> a \in {2, 100} \/ (a <= 1 /\ TellsWeb(p))
      /\ ac[1] = 3 <=> a = 3 \/ (a <= 1 /\ TellsFtp(p))
      /\ ac[1] = 4 <=> a = 4 \/ (a <= 1 /\ TellsSip(p))
      /\ ac[1] = 100 <=> a = 100 \/ ((a = 2 \/ (a <= 1 /\ TellsWeb(p))) /\ p.literal)
      /\ ac[2].http = n.http + One(a <= 1 /\ TellsWeb(p))
      /\ ac[2].ftp = n.ftp + One(a <= 1 /\ TellsFtp(p))
      /\ ac[2].sip = n.sip + One(a <= 1 /\ TellsSip(p))
      /\ ac[2].literal = n.literal + One(a # 100 /\ ac[1] = 100)
  BY <1>0, <1>5, <1>6, TellsFacts
<1>8. /\ Web = WebOf(S) /\ Ftp = FtpOf(S) /\ Sip = SipOf(S) /\ Literals = LitOf(S)
      /\ Seen = Conns(S)
  BY ServiceSets DEF Seen
<1>9. /\ Web' = IF TellsWeb(p) THEN WebOf(S) \cup {c0} ELSE WebOf(S)
      /\ Ftp' = IF TellsFtp(p) THEN FtpOf(S) \cup {c0} ELSE FtpOf(S)
      /\ Sip' = IF TellsSip(p) THEN SipOf(S) \cup {c0} ELSE SipOf(S)
      /\ Literals' = IF p.l4 = "tcp" /\ p.literal THEN LitOf(S) \cup {c0} ELSE LitOf(S)
      /\ Seen' = Conns(S) \cup {c0}
  <2>1. /\ Web' = WebOf(S \cup {p}) /\ Ftp' = FtpOf(S \cup {p})
        /\ Sip' = SipOf(S \cup {p}) /\ Literals' = LitOf(S \cup {p})
    BY <1>2, ServiceSets
  <2>2. Seen' = Conns(S) \cup {c0}
    BY <1>2 DEF Seen, Conns, Conn
  <2>. QED BY <2>1, <2>2, SetsGrow
<1>10. /\ a \in {2, 100} <=> c0 \in WebOf(S)
       /\ a = 3 <=> c0 \in FtpOf(S)
       /\ a = 4 <=> c0 \in SipOf(S)
       /\ c0 \in WebOf(S) /\ c0 \in LitOf(S) => a = 100
  <2>1. CASE c0 \in Seen
    <3>1. a = Mark(c0)
      BY <1>1, <2>1
    <3>. QED BY <1>4, <1>8, <2>1, <3>1 DEF MarksTell
  <2>2. CASE c0 \notin Seen
    <3>1. a = 0 /\ c0 \notin WebOf(S) /\ c0 \notin FtpOf(S) /\ c0 \notin SipOf(S)
      BY <1>5, <1>8, <2>2, OfPorts
    <3>. QED BY <3>1
  <2>. QED BY <2>1, <2>2
<1>11. /\ c0 \in WebOf(S) => WebPort(p)
       /\ c0 \in FtpOf(S) => FtpPort(p)
       /\ c0 \in SipOf(S) => SipPort(p)
       /\ c0 \in LitOf(S) /\ WebPort(p) => c0 \in WebOf(S)
  BY OfPorts
<1>12. a > 1 <=> a \in {2, 100} \/ a = 3 \/ a = 4
  BY <1>5
<1>13. MarksTell'
  <2>1. /\ Mark(c0)' \in {2, 100} <=> c0 \in Web'
        /\ Mark(c0)' = 3 <=> c0 \in Ftp'
        /\ Mark(c0)' = 4 <=> c0 \in Sip'
    BY <1>5, <1>6, <1>7, <1>9, <1>10, <1>11, <1>12
  <2>2. c0 \in Web' /\ c0 \in Literals' => Mark(c0)' = 100
    BY <1>5, <1>6, <1>7, <1>9, <1>10, <1>11, <1>12
  <2>3. ASSUME NEW c \in Seen', c # c0
        PROVE  /\ Mark(c)' \in {2, 100} <=> c \in Web'
               /\ Mark(c)' = 3 <=> c \in Ftp'
               /\ Mark(c)' = 4 <=> c \in Sip'
               /\ c \in Web' /\ c \in Literals' => Mark(c)' = 100
    <3>1. c \in Seen /\ Mark(c)' = Mark(c)
      BY <1>5, <1>8, <1>9, <2>3
    <3>2. /\ Mark(c) \in {2, 100} <=> c \in WebOf(S)
          /\ Mark(c) = 3 <=> c \in FtpOf(S)
          /\ Mark(c) = 4 <=> c \in SipOf(S)
          /\ c \in WebOf(S) /\ c \in LitOf(S) => Mark(c) = 100
      BY <1>4, <1>8, <3>1 DEF MarksTell
    <3>3. /\ c \in Web' <=> c \in WebOf(S)
          /\ c \in Ftp' <=> c \in FtpOf(S)
          /\ c \in Sip' <=> c \in SipOf(S)
          /\ c \in Literals' <=> c \in LitOf(S)
      BY <1>9, <2>3
    <3>. QED BY <3>1, <3>2, <3>3
  <2>4. \A c \in Seen' : /\ Mark(c)' \in {2, 100} <=> c \in Web'
                         /\ Mark(c)' = 3 <=> c \in Ftp'
                         /\ Mark(c)' = 4 <=> c \in Sip'
                         /\ c \in Web' /\ c \in Literals' => Mark(c)' = 100
    BY <2>1, <2>2, <2>3
  <2>. QED BY <2>4 DEF MarksTell
<1>14. MarksCounted'
  <2>1. IsFiniteSet(Seen)
    BY <1>0 DEF FlowInv, Counted, Seen
  <2>2. /\ IsFiniteSet(WebOf(S)) /\ IsFiniteSet(FtpOf(S)) /\ IsFiniteSet(SipOf(S))
        /\ IsFiniteSet(Lit)
    <3>1. Lit \subseteq Seen /\ WebOf(S) \subseteq Seen /\ FtpOf(S) \subseteq Seen
          /\ SipOf(S) \subseteq Seen
      BY <1>8, OfPorts DEF Lit
    <3>. QED BY <2>1, <3>1, FS_Subset
  <2>3. /\ n.http = Cardinality(WebOf(S)) /\ n.ftp = Cardinality(FtpOf(S))
        /\ n.sip = Cardinality(SipOf(S)) /\ n.literal = Cardinality(Lit)
        /\ n.http \in Nat /\ n.ftp \in Nat /\ n.sip \in Nat /\ n.literal \in Nat
    BY <1>0, <1>4, <1>8 DEF MarksCounted, Counters
  <2>4. n'.http = Cardinality(Web')
    <3>1. CASE a <= 1 /\ TellsWeb(p)
      <4>1. n'.http = n.http + 1 /\ c0 \notin WebOf(S) /\ Web' = WebOf(S) \cup {c0}
        BY <1>5, <1>7, <1>9, <1>10, <3>1 DEF One
      <4>. QED BY <2>2, <2>3, <4>1, CountGrows
    <3>2. CASE ~(a <= 1 /\ TellsWeb(p))
      <4>1. n'.http = n.http
        BY <1>5, <1>7, <2>3, <3>2 DEF One
      <4>2. Web' = WebOf(S)
        BY <1>5, <1>6, <1>9, <1>10, <1>11, <1>12, <3>2
      <4>. QED BY <2>3, <4>1, <4>2
    <3>. QED BY <3>1, <3>2
  <2>5. n'.ftp = Cardinality(Ftp')
    <3>1. CASE a <= 1 /\ TellsFtp(p)
      <4>1. n'.ftp = n.ftp + 1 /\ c0 \notin FtpOf(S) /\ Ftp' = FtpOf(S) \cup {c0}
        BY <1>5, <1>7, <1>9, <1>10, <3>1 DEF One
      <4>. QED BY <2>2, <2>3, <4>1, CountGrows
    <3>2. CASE ~(a <= 1 /\ TellsFtp(p))
      <4>1. n'.ftp = n.ftp
        BY <1>5, <1>7, <2>3, <3>2 DEF One
      <4>2. Ftp' = FtpOf(S)
        BY <1>5, <1>6, <1>9, <1>10, <1>11, <1>12, <3>2
      <4>. QED BY <2>3, <4>1, <4>2
    <3>. QED BY <3>1, <3>2
  <2>6. n'.sip = Cardinality(Sip')
    <3>1. CASE a <= 1 /\ TellsSip(p)
      <4>1. n'.sip = n.sip + 1 /\ c0 \notin SipOf(S) /\ Sip' = SipOf(S) \cup {c0}
        BY <1>5, <1>7, <1>9, <1>10, <3>1 DEF One
      <4>. QED BY <2>2, <2>3, <4>1, CountGrows
    <3>2. CASE ~(a <= 1 /\ TellsSip(p))
      <4>1. n'.sip = n.sip
        BY <1>5, <1>7, <2>3, <3>2 DEF One
      <4>2. Sip' = SipOf(S)
        BY <1>5, <1>6, <1>9, <1>10, <1>11, <1>12, <3>2
      <4>. QED BY <2>3, <4>1, <4>2
    <3>. QED BY <3>1, <3>2
  <2>7. n'.literal = Cardinality(Lit')
    <3>1. Lit' = {c \in Conns(S) \cup {c0} : Mark(c)' = 100}
      BY <1>9 DEF Lit
    <3>2. c0 \in Lit <=> a = 100
      BY <1>1, <1>5 DEF Lit
    <3>3. \A c \in Seen : c # c0 => (c \in Lit' <=> c \in Lit)
      BY <1>5, <1>8, <3>1 DEF Lit
    <3>4. c0 \in Lit' <=> ac[1] = 100
      BY <1>5, <3>1
    <3>5. Lit \subseteq Seen /\ Lit' \subseteq Seen \cup {c0}
      BY <1>8, <3>1 DEF Lit
    <3>6. CASE a # 100 /\ ac[1] = 100
      <4>1. n'.literal = n.literal + 1
        BY <1>5, <1>7, <3>6 DEF One
      <4>2. c0 \notin Lit /\ Lit' = Lit \cup {c0}
        BY <3>2, <3>3, <3>4, <3>5, <3>6
      <4>. QED BY <2>2, <2>3, <4>1, <4>2, CountGrows
    <3>7. CASE ~(a # 100 /\ ac[1] = 100)
      <4>1. n'.literal = n.literal
        BY <1>5, <1>7, <2>3, <3>7 DEF One
      <4>2. c0 \in Lit <=> c0 \in Lit'
        BY <1>7, <3>2, <3>4, <3>7
      <4>3. Lit' = Lit
        BY <3>3, <3>5, <4>2
      <4>. QED BY <2>3, <4>1, <4>3
    <3>. QED BY <3>6, <3>7
  <2>. QED BY <2>4, <2>5, <2>6, <2>7 DEF MarksCounted
<1>. QED BY <1>13, <1>14

-----------------------------------------------------------------------------
(* Nothing seen, nothing counted.                                          *)
LEMMA NothingSeen ==
  ASSUME seen[file] = {}, n = Zero
  PROVE  MarksTell /\ MarksCounted
<1>1. Seen = {} /\ Web = {} /\ Ftp = {} /\ Sip = {} /\ Lit = {}
  <2>1. Seen = {}
    BY DEF Seen, Conns
  <2>2. Web = {} /\ Ftp = {} /\ Sip = {}
    BY ServiceSets, SMT DEF WebOf, FtpOf, SipOf
  <2>. QED BY <2>1, <2>2 DEF Lit
<1>2. n.http = 0 /\ n.ftp = 0 /\ n.sip = 0 /\ n.literal = 0
  BY DEF Zero
<1>. QED BY <1>1, <1>2, FS_EmptySet DEF MarksTell, MarksCounted

(* Before the first frame nothing is counted.                              *)
LEMMA ServiceInit == AnInit => ServiceInv
<1>. SUFFICES ASSUME AnInit PROVE ServiceInv
  OBVIOUS
<1>1. FlowInv
  BY FlowInit
<1>2. seen[file] = {} /\ n = Zero
  BY AnalysisAssumption DEF AnInit
<1>. QED BY <1>1, <1>2, NothingSeen DEF ServiceInv

(* Steps that see nothing.                                                 *)
LEMMA MarksKept ==
  ASSUME ServiceInv, map44' = map44, flows' = flows, file' = file, seen' = seen,
         n'.http = n.http, n'.ftp = n.ftp, n'.sip = n.sip, n'.literal = n.literal,
         FreshFile', OneService'
  PROVE  MarksTell' /\ MarksCounted'
<1>1. FreshFile /\ OneService
  <2>1. FreshFile
    BY DEF FreshFile, Conns, Conn
  <2>2. AllSeen' = AllSeen
    BY DEF AllSeen
  <2>. QED BY <2>1, <2>2, SMT DEF OneService
<1>2. MarksTell /\ MarksCounted
  BY <1>1 DEF ServiceInv
<1>3. /\ Web' = Web /\ Ftp' = Ftp /\ Sip' = Sip /\ Literals' = Literals
      /\ Seen' = Seen
  BY ServiceSets DEF Seen, Conns, Conn
<1>4. \A c : Mark(c)' = Mark(c)
  BY DEF Mark, Ends
<1>5. Lit' = Lit
  BY <1>3, <1>4 DEF Lit
<1>6. MarksTell'
  BY <1>2, <1>3, <1>4 DEF MarksTell
<1>7. MarksCounted'
  BY <1>2, <1>3, <1>5 DEF MarksCounted
<1>. QED BY <1>6, <1>7

(* Every step keeps the marks and the counts of services.                  *)
LEMMA ServiceNext == ServiceInv /\ [AnNext]_anVars => ServiceInv'
<1>. SUFFICES ASSUME ServiceInv, [AnNext]_anVars PROVE ServiceInv'
  OBVIOUS
<1>1. FlowInv /\ FlowInv'
  BY FlowStep DEF ServiceInv
<1>. SUFFICES ASSUME FreshFile', OneService' PROVE MarksTell' /\ MarksCounted'
  BY <1>1 DEF ServiceInv
<1>2. ASSUME NEW p \in Frames, n.cnt < MaxCnt, Ignore(p),
             reading' = ~(p.ipv4 /\ n'.cnt > Limit)
      PROVE  MarksTell' /\ MarksCounted'
  <2>1. /\ map44' = map44 /\ flows' = flows /\ file' = file /\ seen' = seen
    BY <1>2 DEF Ignore
  <2>2. reading' \in BOOLEAN
    BY <1>2
  <2>3. /\ n'.http = n.http /\ n'.ftp = n.ftp /\ n'.sip = n.sip /\ n'.literal = n.literal
    BY <1>1, <1>2, <2>2, IgnoreStep
  <2>. QED BY <2>1, <2>3, MarksKept
<1>3. ASSUME NEW p \in Frames, Analyse(p)
      PROVE  MarksTell' /\ MarksCounted'
  BY <1>3, ServiceStep
<1>4. CASE NextFile
  <2>1. n' = Zero /\ seen'[file'] = {}
    BY <1>1, <1>4, NextFileStep
  <2>2. Seen' = {} /\ Web' = {} /\ Ftp' = {} /\ Sip' = {} /\ Lit' = {}
    <3>1. Seen' = {}
      BY <2>1 DEF Seen, Conns
    <3>2. Web' = {} /\ Ftp' = {} /\ Sip' = {}
      BY <2>1, ServiceSets, SMT DEF WebOf, FtpOf, SipOf
    <3>. QED BY <3>1, <3>2 DEF Lit
  <2>3. n'.http = 0 /\ n'.ftp = 0 /\ n'.sip = 0 /\ n'.literal = 0
    BY <2>1 DEF Zero
  <2>. QED BY <2>2, <2>3, FS_EmptySet DEF MarksTell, MarksCounted
<1>5. CASE UNCHANGED anVars
  <2>1. /\ map44' = map44 /\ flows' = flows /\ file' = file /\ seen' = seen /\ n' = n
    BY <1>5 DEF anVars
  <2>. QED BY <2>1, MarksKept
<1>. QED BY <1>2, <1>3, <1>4, <1>5 DEF AnNext, ReadFrame

(* The invariant says what the counters count.                             *)
LEMMA ServiceInvCounts == ServiceInv => ServicesCounted
<1>. SUFFICES ASSUME ServiceInv, FreshFile, OneService
     PROVE  /\ n.http = Cardinality(Web)
            /\ n.ftp = Cardinality(Ftp)
            /\ n.sip = Cardinality(Sip)
            /\ Cardinality(Web \cap Literals) <= n.literal
            /\ n.literal <= n.http
  BY DEF ServicesCounted, Ftp, Sip, Literals
<1>1. MarksTell /\ MarksCounted /\ IsFiniteSet(Seen)
  BY DEF ServiceInv, FlowInv, Counted, Seen
<1>2. Web \subseteq Seen
  <2>1. Web = WebOf(seen[file]) /\ Seen = Conns(seen[file])
    BY ServiceSets DEF Seen
  <2>2. WebOf(seen[file]) \subseteq Conns(seen[file])
    BY OfPorts
  <2>. QED BY <2>1, <2>2
<1>3. Lit \subseteq Web /\ Web \cap Literals \subseteq Lit
  BY <1>1, <1>2 DEF Lit, MarksTell
<1>4. IsFiniteSet(Web)
  BY <1>1, <1>2, FS_Subset
<1>5. IsFiniteSet(Lit) /\ Cardinality(Lit) <= Cardinality(Web)
  BY <1>3, <1>4, FS_Subset
<1>6. Cardinality(Web \cap Literals) <= Cardinality(Lit)
  BY <1>3, <1>5, FS_Subset
<1>. QED BY <1>1, <1>5, <1>6 DEF MarksCounted

(* A connection counts once, for the service its ports tell, whichever     *)
(* packet came first and whatever packets share its ports; it counts for a *)
(* literal at most once, and the ones with a literal seen over TCP all do  *)
(* (main.cc:199-236).                                                      *)
THEOREM ServicesCountedHolds == AnSpec => []ServicesCounted
BY ServiceInit, ServiceNext, ServiceInvCounts, PTL DEF AnSpec
=============================================================================
