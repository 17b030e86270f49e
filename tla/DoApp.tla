-------------------------------- MODULE DoApp --------------------------------
(***************************************************************************)
(* NAT::doApp (nat.cc) on several workers, with the choice of the parser   *)
(* (flow.cc) and what the FTP and SIP grammars do with the shared tables:  *)
(* they map the endpoints a client announces, for the server in            *)
(* ip6srv_cur_, and write the mapped ones into the packet.                 *)
(*                                                                         *)
(* StateManager::doMapping(ip6Port) hands ip6srv_cur_ on by reference.     *)
(* smutex does not cover the stores to it, so that each of the four times  *)
(* doMapping reads it is a step of its own; no other call that takes       *)
(* smutex runs meanwhile.  A connection belongs to one worker (as Tun      *)
(* shows) and its packets come one after the other.                        *)
(***************************************************************************)
EXTENDS StateManager, FiniteSets, SequencesExt

CONSTANTS
  Protocols,  (* sm.protocols, a std::map by name, in its order:         *)
              (* [name, transport, c2s, s2c]                             *)
  Conns,      (* connections: [key, transport, worker]                   *)
  Contents,   (* payloads: [proto, eps, plain, hello], see Accepts       *)
  MaxPkts     (* bound: packets of a run                                 *)

ASSUME AppAssumption ==
  /\ \A c \in Conns : c.key \in Keys /\ c.worker \in Tids
  /\ \A i, j \in DOMAIN Protocols : Protocols[i].name = Protocols[j].name => i = j
  /\ Protocols \in Seq(Range(Protocols)) /\ MaxPkts \in Nat

(* Endpoints are announced by clients only, none of the grammars for the   *)
(* other direction maps one; announced ones may be mapped.                 *)
ASSUME ContentsAssumption ==
  \A p \in Contents :
    /\ p.eps \in Seq(IP6Port) /\ p.plain \in BOOLEAN
    /\ \A i \in DOMAIN p.eps, c \in Conns : [cli |-> p.eps[i], srv |-> c.key.srv] \in Keys
    /\ \A q \in Range(Protocols) :
         q.s2c = "stateless" /\ q.name = p.proto => p.eps = <<>>

SERVER == "server"
CLIENT == "client"

(* What a worker's fields hold before they are set.                        *)
NoIPv6    == [net |-> 0, low |-> 0]
NoKey     == [cli |-> [ip |-> NoIPv6, port |-> 0], srv |-> NoIPv6]
NoIP4Port == [ip |-> 0, port |-> 0]
NoConn    == [key |-> NoKey, transport |-> "", worker |-> NoTid]
NoContent == [proto |-> "", eps |-> <<>>, plain |-> FALSE, hello |-> {}]

VARIABLES
  ignored,   (* flows with ignore_                                       *)
  protocol,  (* flow |-> name, for the flows whose protocol is known     *)
  wk,        (* the workers                                              *)
  holder,    (* who is inside doMapping with smutex held, or NoTid       *)
  npkt,      (* packets so far                                           *)
  written,   (* history: [key, ep, flow] of the addresses written that   *)
             (* were mapped for the packet's own server                  *)
  torn,      (* history: flows made while another worker had overwritten *)
             (* ip6srv_cur_                                              *)
  crashed    (* a null FlowPtr was followed                              *)
appVars == <<smVars, ignored, protocol, wk, holder, npkt, written, torn, crashed>>

(* A worker: where it is, its packet (where it goes, connection, content)  *)
(* and flow; whether the protocol is known, the protocol it looks at,      *)
(* those that only looked right; the endpoints still to map, those mapped  *)
(* as [ep, flow, own], the flow mapped last, whether there are operations; *)
(* the locals of doMapping; own (history): ip6srv_cur_ is still what this  *)
(* worker stored.                                                          *)
Idle ==
  [pc |-> "idle", dest |-> SERVER, conn |-> NoConn, content |-> NoContent,
   flow |-> NoFlow, known |-> FALSE, it |-> 1, guess |-> {},
   todo |-> <<>>, mapped |-> {}, last |-> NoFlow, ops |-> FALSE,
   key |-> NoKey, ip4p |-> NoIP4Port, srv4 |-> 0, own |-> FALSE]

Quiet == UNCHANGED <<ignored, protocol, holder, npkt, written, torn, crashed>>
Free  == holder = NoTid

Src(w)    == wk[w].conn.key
Key46C(c) == [ip4p |-> flow[GetMapping64(c.key)].ip4p, srv |-> ServerAddr4(c.key.srv)]
-----------------------------------------------------------------------------
(* NAT::begin; a packet from a server without a mapping is dropped.        *)

(* A packet of a connection, from the client or, once there is a mapping,  *)
(* from the server.                                                        *)
Take(w) ==
  /\ wk[w].pc = "idle" /\ npkt < MaxPkts
  /\ \E c \in Conns, d \in {SERVER, CLIENT}, p \in Contents :
       /\ c.worker = w
       /\ d = CLIENT => Has64(c.key)
       /\ wk' = [wk EXCEPT ![w].pc = "begin", ![w].dest = d, ![w].conn = c,
                           ![w].content = p]
  /\ npkt' = npkt + 1
  /\ UNCHANGED <<smVars, ignored, protocol, holder, written, torn, crashed>>

Begin(w) ==
  /\ wk[w].pc = "begin" /\ Free
  /\ \/ /\ wk[w].dest = SERVER
        /\ DoMapping(Src(w))
        /\ LET f == MappingResult(Src(w)) IN
             /\ crashed' = (f = NoFlow)
             /\ wk' = [wk EXCEPT ![w].pc = "claim", ![w].flow = f]
     \/ /\ wk[w].dest = CLIENT
        /\ LET f == GetMapping46(Key46C(wk[w].conn)) IN
             wk' = [wk EXCEPT ![w] = IF f = NoFlow THEN Idle
                                     ELSE [@ EXCEPT !.pc = "app", !.flow = f]]
        /\ UNCHANGED <<smVars, crashed>>
  /\ UNCHANGED <<ignored, protocol, holder, npkt, written, torn>>

Claim(w) ==
  /\ wk[w].pc = "claim"
  /\ IF flow[wk[w].flow].tid = NoTid THEN SetTid(wk[w].flow, w) ELSE UNCHANGED smVars
  /\ wk' = [wk EXCEPT ![w].pc = "cur"]
  /\ Quiet

(* Faulty variant, for a mutant only: the first server stays current.      *)
SetCurOnce(w) ==
  /\ wk[w].pc = "cur"
  /\ SetCurIPv6SrvAddr(IF ip6srvCur.net # Prefix THEN Src(w).srv ELSE ip6srvCur)
  /\ wk' = [wk EXCEPT ![w].pc = "app", ![w].own = TRUE]
  /\ Quiet

SetCur(w) ==
  /\ wk[w].pc = "cur"
  /\ SetCurIPv6SrvAddr(Src(w).srv)
  /\ wk' = [v \in Tids |->
              IF v = w THEN [wk[w] EXCEPT !.pc = "app", !.own = TRUE]
              ELSE [wk[v] EXCEPT !.own = @ /\ Src(v).srv = Src(w).srv]]
  /\ Quiet
-----------------------------------------------------------------------------
(* NAT::doApp up to the parsers.                                           *)

(* Faulty variant, for a mutant only: a known protocol is forgotten.       *)
KnownNever(f) == FALSE

Known(f) == f \in DOMAIN protocol

Position(name) == CHOOSE i \in DOMAIN Protocols : Protocols[i].name = name

(* A known protocol is the only one looked at.                             *)
App(w) ==
  LET f == wk[w].flow IN
  /\ wk[w].pc = "app" /\ Free
  /\ \/ /\ f \in ignored
        /\ wk' = [wk EXCEPT ![w].pc = "done"]
     \/ /\ f \notin ignored
        /\ wk' = [wk EXCEPT ![w].pc = "try", ![w].known = Known(f),
                            ![w].it = IF Known(f) THEN Position(protocol[f]) ELSE 1]
  /\ UNCHANGED smVars /\ Quiet

(* The protocol looked at, and the next one.                               *)
Proto(w)  == Protocols[wk[w].it]
NextIt(w) == IF wk[w].known THEN Len(Protocols) + 1 ELSE wk[w].it + 1

(* Flow::getParser; stateful parsers are the subject of another module.    *)
ParserType(w) == IF wk[w].dest = SERVER THEN Proto(w).c2s ELSE Proto(w).s2c

(* A protocol of the packet's transport is tried.  A content is of at most *)
(* one protocol, whose grammar finds endpoints in it, or something to      *)
(* replace that needs no mapping (plain), or that it looks right (hello).  *)
Accepts(w) ==
  /\ wk[w].known \/ Proto(w).transport = wk[w].conn.transport
  /\ ParserType(w) = "stateless" /\ wk[w].content.proto = Proto(w).name

(* The loop over the protocols; a parser without endpoints to map ends at  *)
(* once.                                                                   *)
TryParser(w) ==
  /\ wk[w].pc = "try" /\ wk[w].it <= Len(Protocols)
  /\ \/ /\ Accepts(w)
        /\ wk' = [wk EXCEPT ![w].pc = "parse", ![w].todo = wk[w].content.eps,
                            ![w].ops = wk[w].content.plain]
     \/ /\ ~Accepts(w)
        /\ wk' = [wk EXCEPT ![w].it = NextIt(w)]
  /\ UNCHANGED smVars /\ Quiet
-----------------------------------------------------------------------------
(* sm.doMapping(IP6Port), as the grammars call it.                         *)

Mapping(w, f) == [ep |-> Head(wk[w].todo), flow |-> f, own |-> wk[w].own]

(* The call returns flow f.                                                *)
Mapped(w, f) ==
  wk' = [wk EXCEPT ![w].pc = "write", ![w].last = f,
                   ![w].mapped = @ \cup {Mapping(w, f)}]

(* The key is built.                                                       *)
ReadKey(w) ==
  LET k == [cli |-> Head(wk[w].todo), srv |-> ip6srvCur] IN
  /\ wk[w].pc = "parse" /\ wk[w].todo # <<>> /\ Free
  /\ \/ /\ Has64(k)
        /\ Mapped(w, At64(k))
        /\ UNCHANGED <<smVars, holder, crashed>>
     \/ /\ ~Has64(k) /\ pool = <<>>
        /\ crashed' = TRUE
        /\ UNCHANGED <<smVars, wk, holder>>
     \/ /\ ~Has64(k) /\ pool # <<>>
        /\ pool' = Tail(pool) /\ holder' = w
        /\ wk' = [wk EXCEPT ![w].pc = "read4", ![w].key = k, ![w].ip4p = Head(pool)]
        /\ UNCHANGED <<mapPool, map64, map46, flow, ip6srvCur, crashed>>
  /\ UNCHANGED <<ignored, protocol, npkt, written, torn>>

(* The arguments of Flow's constructor: first getServerAddr(ip6srv).       *)
ReadSrv4(w) ==
  /\ wk[w].pc = "read4"
  /\ wk' = [wk EXCEPT ![w].pc = "read6", ![w].srv4 = ServerAddr4(ip6srvCur)]
  /\ UNCHANGED smVars /\ Quiet

(* Then the constructor copies ip6srv.                                     *)
ReadSrv6(w) ==
  LET c == wk[w] IN
  /\ c.pc = "read6"
  /\ flow' = Append(flow, [NewFlow([cli |-> c.key.cli, srv |-> ip6srvCur], c.ip4p)
                             EXCEPT !.ip4srv = c.srv4])
  /\ wk' = [wk EXCEPT ![w].pc = "read46"]
  /\ UNCHANGED <<pool, mapPool, map64, map46, ip6srvCur>> /\ Quiet

NewKey46(w) == [ip4p |-> wk[w].ip4p, srv |-> ServerAddr4(ip6srvCur)]

(* Faulty variant, for a mutant only: the second table is not filled.      *)
FillTablesOneWay(w) ==
  LET f == Len(flow) IN
  /\ wk[w].pc = "read46"
  /\ map64' = Assign(map64, wk[w].key, f)
  /\ holder' = NoTid
  /\ torn' = IF wk[w].own THEN torn ELSE torn \cup {f}
  /\ Mapped(w, f)
  /\ UNCHANGED <<pool, mapPool, map46, flow, ip6srvCur, ignored, protocol,
                 npkt, written, crashed>>

(* Faulty variant, for the mutants only: smutex is not given back.         *)
FillTablesLocked(w) ==
  LET f == Len(flow) IN
  /\ wk[w].pc = "read46"
  /\ map64' = Assign(map64, wk[w].key, f)
  /\ map46' = Assign(map46, NewKey46(w), f)
  /\ torn' = IF wk[w].own THEN torn ELSE torn \cup {f}
  /\ Mapped(w, f)
  /\ UNCHANGED <<pool, mapPool, flow, ip6srvCur, holder, ignored, protocol,
                 npkt, written, crashed>>

(* newkey is built and both tables are filled.                             *)
FillTables(w) ==
  LET f == Len(flow) IN
  /\ wk[w].pc = "read46"
  /\ map64' = Assign(map64, wk[w].key, f)
  /\ map46' = Assign(map46, NewKey46(w), f)
  /\ holder' = NoTid
  /\ torn' = IF wk[w].own THEN torn ELSE torn \cup {f}
  /\ Mapped(w, f)
  /\ UNCHANGED <<pool, mapPool, flow, ip6srvCur, ignored, protocol, npkt,
                 written, crashed>>

(* addOperation with the mapped address and port, and the parser goes on.  *)
Written(w) ==
  wk' = [wk EXCEPT ![w].pc = "parse", ![w].todo = Tail(@), ![w].ops = TRUE]

(* Faulty variant, for a mutant only: the packet's flow is to be ignored.  *)
WriteIgnoreOwn(w) ==
  /\ wk[w].pc = "write" /\ Written(w)
  /\ ignored' = IF Proto(w).name = "ftp" THEN ignored \cup {wk[w].flow} ELSE ignored
  /\ UNCHANGED <<smVars, protocol, holder, npkt, written, torn, crashed>>

(* A flow mapped for FTP carries data and is not parsed itself.            *)
Write(w) ==
  /\ wk[w].pc = "write" /\ Written(w)
  /\ ignored' = IF Proto(w).name = "ftp" THEN ignored \cup {wk[w].last} ELSE ignored
  /\ UNCHANGED <<smVars, protocol, holder, npkt, written, torn, crashed>>
-----------------------------------------------------------------------------
(* NAT::doApp after a parser.                                              *)

(* setProtocol.                                                            *)
SetProtocol(f, name) == protocol' = Assign(protocol, f, name)

(* The parser's result: operations decide the protocol; without them the   *)
(* next one is tried.                                                      *)
ParserDone(w) ==
  LET p == Proto(w).name IN
  /\ wk[w].pc = "parse" /\ wk[w].todo = <<>>
  /\ \/ /\ wk[w].ops
        /\ SetProtocol(wk[w].flow, p)
        /\ wk' = [wk EXCEPT ![w].pc = "done"]
     \/ /\ ~wk[w].ops
        /\ wk' = [wk EXCEPT ![w].pc = "try", ![w].it = NextIt(w),
                            ![w].guess = @ \cup (wk[w].content.hello \cap {p})]
        /\ UNCHANGED protocol
  /\ UNCHANGED <<smVars, ignored, holder, npkt, written, torn, crashed>>

(* No parser found an operation.                                           *)
Guess(w) ==
  LET g == wk[w].guess IN
  /\ wk[w].pc = "try" /\ wk[w].it > Len(Protocols)
  /\ IF ~wk[w].known /\ Cardinality(g) = 1
     THEN \E name \in g : SetProtocol(wk[w].flow, name)
     ELSE UNCHANGED protocol
  /\ wk' = [wk EXCEPT ![w].pc = "done"]
  /\ UNCHANGED <<smVars, ignored, holder, npkt, written, torn, crashed>>

(* Flow::modify writes the operations into the packet, which is sent.      *)
Done(w) ==
  /\ wk[w].pc = "done"
  /\ written' = written \cup
       {[key |-> Src(w), ep |-> m.ep, flow |-> m.flow] :
          m \in {x \in wk[w].mapped : x.own}}
  /\ wk' = [wk EXCEPT ![w] = Idle]
  /\ UNCHANGED <<smVars, ignored, protocol, holder, npkt, torn, crashed>>
-----------------------------------------------------------------------------
Steps(w) ==
  /\ ~crashed
  /\ \/ Begin(w) \/ Claim(w) \/ SetCur(w) \/ App(w) \/ TryParser(w)
     \/ ReadKey(w) \/ ReadSrv4(w) \/ ReadSrv6(w) \/ FillTables(w) \/ Write(w)
     \/ ParserDone(w) \/ Guess(w) \/ Done(w)

AppInit ==
  /\ SMInit
  /\ ignored = {} /\ protocol = [f \in {} |-> ""]
  /\ wk = [w \in Tids |-> Idle] /\ holder = NoTid
  /\ npkt = 0 /\ written = {} /\ torn = {} /\ crashed = FALSE

AppNext == \E w \in Tids : (~crashed /\ Take(w)) \/ Steps(w)

(* Workers are threads; packets need not come.                             *)
AppSpec == AppInit /\ [][AppNext]_appVars /\ \A w \in Tids : WF_appVars(Steps(w))
-----------------------------------------------------------------------------
(* Types; smutex is held exactly by the worker in the middle of a mapping. *)
AppTypeOK ==
  /\ SMTypeOK
  /\ ignored \subseteq DOMAIN flow /\ torn \subseteq DOMAIN flow
  /\ DOMAIN protocol \subseteq DOMAIN flow
  /\ \A f \in DOMAIN protocol : \E i \in DOMAIN Protocols : protocol[f] = Protocols[i].name
  /\ \A w \in Tids : wk[w].pc \in {"read4", "read6", "read46"} <=> holder = w
  /\ npkt \in 0 .. MaxPkts

(* map64_ tells keys apart by the client's port alone (Key64Same).  What   *)
(* follows holds where it is enough:                                       *)
(* connections with one port have one worker, as packets of one flow do;   *)
WorkersApart ==
  \A c, d \in Conns : c.key.cli.port = d.key.cli.port => c.worker = d.worker

(* no port is announced for data that is a connection's own;               *)
DataPortsApart ==
  \A c \in Conns, p \in Contents :
    p.proto = "ftp" => \A i \in DOMAIN p.eps : p.eps[i].port # c.key.cli.port

(* no two pairs share a port, and no connections of both transports do:    *)
(* a connection's own, and those it announces to its server.               *)
Announces(c, p) ==
  \E q \in Range(Protocols) :
    q.name = p.proto /\ q.c2s = "stateless" /\ q.transport = c.transport

Pairs(c) ==
  {c.key} \cup {[cli |-> e, srv |-> c.key.srv] :
                   e \in UNION {Range(p.eps) : p \in {x \in Contents : Announces(c, x)}}}

PairsApart ==
  \A c, d \in Conns :
    /\ \A k \in Pairs(c), l \in Pairs(d) : k.cli.port = l.cli.port => k = l
    /\ c.key = d.key => c.transport = d.transport

(***************************************************************************)
(* An address a parser wrote leads back: when the server the packet goes   *)
(* to sends to it, the gateway finds the endpoint the client announced     *)
(* (ftp/grammar:26-31, sip/grammar:30-64, state.h:32) - unless, while it   *)
(* was mapped, another worker's packet for another server had put its own  *)
(* address in ip6srv_cur_.  Claimed under PairsApart.                      *)
(***************************************************************************)
AnnouncedReachable ==
  \A a \in written :
    a.flow \in torn \/
    LET f == GetMapping46([ip4p |-> flow[a.flow].ip4p, srv |-> ServerAddr4(a.key.srv)])
    IN  f # NoFlow /\ flow[f].ip6p = a.ep

(***************************************************************************)
(* However its reads of ip6srv_cur_ are torn, a mapping under way does not *)
(* harm the others: every other flow is found from both sides, and no port *)
(* is lost or in two hands (state.cc:74-91).                               *)
(***************************************************************************)
OthersUnharmed ==
  holder = NoTid =>
    /\ PoolConserved
    /\ \A f \in DOMAIN flow \ torn :
         /\ GetMapping64(Key64Of(flow[f])) = f
         /\ GetMapping46(Key46Of(flow[f])) = f

(***************************************************************************)
(* A connection that carries commands is never taken for one that carries  *)
(* data: its packets keep being parsed (ftp/grammar:31, nat.cc:254).       *)
(* Claimed under DataPortsApart.                                           *)
(***************************************************************************)
CommandsParsed == \A c \in Conns : Has64(c.key) => GetMapping64(c.key) \notin ignored

(***************************************************************************)
(* A connection's protocol, once known, stays: no later payload, of either *)
(* direction, makes it another one's (nat.cc:277-319).  Claimed under      *)
(* WorkersApart.                                                           *)
(***************************************************************************)
KeepsProtocol == \A f \in DOMAIN protocol : f \in DOMAIN protocol' /\ protocol'[f] = protocol[f]
ProtocolStable == [][KeepsProtocol]_appVars

(***************************************************************************)
(* No worker is stuck, neither on smutex nor in the loops of doApp: each   *)
(* packet is finished unless the process dies, and it dies only for want   *)
(* of a port (state.cc:74-91, nat.cc:284-309).                             *)
(***************************************************************************)
PacketsFinish ==
  \A w \in Tids : wk[w].pc # "idle" ~> wk[w].pc = "idle" \/ (crashed /\ pool = <<>>)
=============================================================================
