------------------------------ MODULE Analysis ------------------------------
(***************************************************************************)
(* Analysis mode: main.cc's analyze reads capture files one after the      *)
(* other and classifies the connections it sees; the flows are those of    *)
(* StateManager::doMapping44.  sm.init, called for each file, resets       *)
(* flow_cnt_ and nothing else of what is used here.                        *)
(*                                                                         *)
(* A frame is a record: ipv4 tells whether the frame is analysed, l4 is    *)
(* its transport, and literal whether parse finds an address written out   *)
(* in a URL of its payload.                                                *)
(***************************************************************************)
EXTENDS Addr, Sequences, FiniteSets

CONSTANTS
  Frames,     \* what a capture may hold
  Limit,      \* 2200000: no file is read further
  MaxCnt,     \* bound: frames of a file
  MaxFiles    \* bound: files

ASSUME AnalysisAssumption ==
  /\ Limit \in Nat /\ MaxCnt \in Nat /\ MaxFiles \in Nat \ {0}
  /\ \A p \in Frames :
       /\ p.src \in IP4Port /\ p.dst \in IP4Port
       /\ p.ipv4 \in BOOLEAN /\ p.literal \in BOOLEAN

Key44 == IP4Port \X IP4Port
NoFlow == 0

VARIABLES
  map44,     \* map44_: a key leads to an index of flows
  flows,     \* the Flow objects made, [ip4p, analyze]
  flow_cnt,  \* flow_cnt_
  n,         \* analyze's counters [cnt, total, http, ftp, sip, literal]
  reading,   \* the loop over the file's frames goes on
  file,      \* the number of the file
  seen       \* history: the analysed frames of each file
anVars == <<map44, flows, flow_cnt, n, reading, file, seen>>

Zero == [cnt |-> 0, total |-> 0, http |-> 0, ftp |-> 0, sip |-> 0,
         literal |-> 0]
-----------------------------------------------------------------------------
(* StateManager::doMapping44: the flow of a connection in either           *)
(* direction; ip4Port1 is the destination.                                 *)

Swap(k) == <<k[2], k[1]>>

(* std::pair and std::map; by IP4PortLess, equivalent keys are equal.       *)
Key44Less(k, l) ==
  \/ IP4PortLess(k[1], l[1])
  \/ ~IP4PortLess(l[1], k[1]) /\ IP4PortLess(k[2], l[2])
Key44Same(k, l) == ~Key44Less(k, l) /\ ~Key44Less(l, k)

Entries(k) == {x \in DOMAIN map44 : Key44Same(x, k)}

(* Variant: the reverse direction is not looked up.                        *)
Find44OneWay(k) ==
  IF Entries(k) # {} THEN map44[CHOOSE x \in Entries(k) : TRUE] ELSE NoFlow

Find44(k) ==
  IF Entries(k) # {} THEN map44[CHOOSE x \in Entries(k) : TRUE]
  ELSE IF Entries(Swap(k)) # {}
  THEN map44[CHOOSE x \in Entries(Swap(k)) : TRUE]
  ELSE NoFlow

(* A web server's port tells the server.                                   *)
ServerFirst(k) ==
  IF k[2].port = 80 /\ k[1].port # 80 THEN Swap(k) ELSE k

(* The tables after doMapping44.                                           *)
DoMapping44(k) ==
  IF Find44(k) # NoFlow THEN [m |-> map44, fs |-> flows, f |-> Find44(k)]
  ELSE LET f  == Len(flows) + 1
           k1 == ServerFirst(k)
       IN  [m  |-> [x \in DOMAIN map44 \cup {k1} |->
                      IF x = k1 THEN f ELSE map44[x]],
            fs |-> Append(flows, [ip4p |-> k1[1], analyze |-> 0]),
            f  |-> f]
-----------------------------------------------------------------------------
(* One frame's passage through analyze.  A pair <<a, c>> is the flow's      *)
(* analyze field with the counters.                                        *)

OnPort(p, port) == p.src.port = port \/ p.dst.port = port

(* Variant: a new flow is counted and not marked.                          *)
CountUnmarked(a, c) ==
  IF a = 0 THEN <<0, [c EXCEPT !.total = @ + 1]>> ELSE <<a, c>>

CountNew(a, c) ==
  IF a = 0 THEN <<1, [c EXCEPT !.total = @ + 1]>> ELSE <<a, c>>

HTTP(p, port, ac) ==
  IF p.l4 = "tcp" /\ OnPort(p, port)
  THEN <<2, [ac[2] EXCEPT !.http = @ + 1]>> ELSE ac

FTP(p, ac) ==
  IF p.l4 = "tcp" /\ OnPort(p, 21)
  THEN <<3, [ac[2] EXCEPT !.ftp = @ + 1]>> ELSE ac

SIP(p, ac) ==
  IF p.l4 = "udp" /\ OnPort(p, 5060)
  THEN <<4, [ac[2] EXCEPT !.sip = @ + 1]>> ELSE ac

(* Variant: a connection already classified is classified again.           *)
ClassifyAlways(p, ac) == SIP(p, FTP(p, HTTP(p, 8080, HTTP(p, 80, ac))))

(* The tests follow one another: more than one may apply.                  *)
Classify(p, ac) ==
  IF ac[1] <= 1 THEN SIP(p, FTP(p, HTTP(p, 8080, HTTP(p, 80, ac)))) ELSE ac

CountLiteral(p, ac) ==
  IF ac[1] \in {2, 100} /\ p.literal
  THEN <<100, IF ac[1] = 2 THEN [ac[2] EXCEPT !.literal = @ + 1] ELSE ac[2]>>
  ELSE ac

Analysed(p) == p.ipv4 /\ p.l4 \in {"tcp", "udp"}

(* A frame without a flow is only counted.                                 *)
Ignore(p) ==
  /\ ~Analysed(p)
  /\ n' = [n EXCEPT !.cnt = @ + 1]
  /\ UNCHANGED <<map44, flows, flow_cnt, file, seen>>

Analyse(p) ==
  /\ Analysed(p)
  /\ LET d  == DoMapping44(<<p.dst, p.src>>)
         c  == [n EXCEPT !.cnt = @ + 1]
         ac == CountLiteral(p, Classify(p, CountNew(d.fs[d.f].analyze, c)))
     IN  /\ map44' = d.m
         /\ flows' = [d.fs EXCEPT ![d.f].analyze = ac[1]]
         /\ flow_cnt' = flow_cnt + (Len(d.fs) - Len(flows))
         /\ n' = ac[2]
  /\ seen' = [seen EXCEPT ![file] = @ \cup {p}]
  /\ UNCHANGED file

(* Only an IPv4 packet reaches the test for Limit.                         *)
ReadFrame ==
  /\ reading /\ n.cnt < MaxCnt
  /\ \E p \in Frames :
       /\ Ignore(p) \/ Analyse(p)
       /\ reading' = ~(p.ipv4 /\ n'.cnt > Limit)

(* What sm.init resets, and the variant in which it resets nothing.        *)
InitKeepsCount == flow_cnt' = flow_cnt
InitFlowCnt == flow_cnt' = 0

(* The file ends, or its rest cannot be read; there is another.            *)
NextFile ==
  /\ file < MaxFiles
  /\ file' = file + 1
  /\ InitFlowCnt
  /\ n' = Zero /\ reading' = TRUE
  /\ UNCHANGED <<map44, flows, seen>>

AnInit ==
  /\ map44 = <<>> /\ flows = <<>> /\ flow_cnt = 0
  /\ n = Zero /\ reading = TRUE /\ file = 1
  /\ seen = [i \in 1 .. MaxFiles |-> {}]

AnNext == ReadFrame \/ NextFile

AnSpec == AnInit /\ [][AnNext]_anVars
-----------------------------------------------------------------------------
(* A connection is a set of endpoints.                                     *)
Conn(p)  == {p.src, p.dst}
Conns(S) == {Conn(p) : p \in S}
AllSeen  == UNION {seen[i] : i \in 1 .. MaxFiles}

(* No connection of this file was in an earlier one.                       *)
FreshFile ==
  \A i \in 1 .. file - 1 : Conns(seen[i]) \cap Conns(seen[file]) = {}

(* No connection is between two different ports that tell a service.       *)
OneService ==
  \A p \in AllSeen :
    Cardinality({p.src.port, p.dst.port} \cap {80, 8080, 21, 5060}) <= 1

(* The connections of this file with a packet that tells the service.      *)
WithService(l4, ports) ==
  Conns({p \in seen[file] : p.l4 = l4 /\ {p.src.port, p.dst.port} \cap ports # {}})
Web == WithService("tcp", {80, 8080})
-----------------------------------------------------------------------------
(* Types and ranges.  A frame from port 80 to 8080, or back, counts twice  *)
(* for the web.                                                            *)
AnTypeOK ==
  /\ DOMAIN map44 \subseteq Key44
  /\ \A x \in DOMAIN map44 : map44[x] \in DOMAIN flows
  /\ \A f \in DOMAIN flows :
       flows[f].ip4p \in IP4Port /\ flows[f].analyze \in {1, 2, 3, 4, 100}
  /\ n.cnt \in 0 .. MaxCnt /\ n.http \in 0 .. 2 * n.cnt
  /\ \A c \in DOMAIN Zero \ {"http"} : n[c] \in 0 .. n.cnt
  /\ flow_cnt \in Nat /\ file \in 1 .. MaxFiles /\ reading \in BOOLEAN
  /\ \A i \in 1 .. MaxFiles : seen[i] \subseteq Frames

(* Both directions of a connection, over all files, lead to one flow and   *)
(* to none of another connection; the flow is kept by the web server's     *)
(* end, whichever end is seen first (state.cc:123-146).                    *)
FlowPerConnection ==
  /\ Len(flows) = Cardinality(Conns(AllSeen))
  /\ \A p, q \in AllSeen :
       LET f == Find44(<<p.dst, p.src>>)
       IN  /\ f # NoFlow
           /\ f = Find44(<<q.dst, q.src>>) <=> Conn(p) = Conn(q)
           /\ flows[f].ip4p \in Conn(p)
           /\ OnPort(p, 80) => flows[f].ip4p.port = 80

(* The two counts of flows printed at the end agree (main.cc:247, 250),    *)
(* and are the number of connections if none was in an earlier file.       *)
FlowsCounted ==
  /\ n.total = flow_cnt
  /\ FreshFile => flow_cnt = Cardinality(Conns(seen[file]))

(* A connection counts once, for the service its ports tell, whichever     *)
(* packet came first and whatever packets share its ports; a connection    *)
(* counts for a literal at most once (main.cc:199-236).                    *)
ServicesCounted ==
  FreshFile /\ OneService =>
    /\ n.http = Cardinality(Web)
    /\ n.ftp = Cardinality(WithService("tcp", {21}))
    /\ n.sip = Cardinality(WithService("udp", {5060}))
    /\ Cardinality(Web \cap Conns({p \in seen[file] : p.l4 = "tcp" /\ p.literal}))
         <= n.literal
    /\ n.literal <= n.http
=============================================================================
