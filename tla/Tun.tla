--------------------------------- MODULE Tun ---------------------------------
(***************************************************************************)
(* The gateway at work: the main thread reads the tunnel and hands each    *)
(* packet to one of T workers through a queue (tun.h); a worker translates *)
(* the packet and sends it (class NAT, nat.cc), using the tables all       *)
(* threads share (StateManager).                                           *)
(*                                                                         *)
(* A packet from a client is [v |-> 6, src6, dst6, dport]: client          *)
(* endpoint, server address, server port.  One from a server is            *)
(* [v |-> 4, src4, dst4], two endpoints.  l4 is the transport, id the      *)
(* order of arrival.                                                       *)
(***************************************************************************)
EXTENDS StateManager, FiniteSets

CONSTANTS
  QMAX,       (* QMAX of tun.h                                           *)
  Clients,    (* [src6, dst6, dport, l4]: what clients send              *)
  Strays,     (* [src4, dst4, l4]: unrequested IPv4 packets              *)
  MaxPkts     (* bound of the model on the packets that arrive           *)

Proto == {"tcp", "udp", "other"}

ASSUME QueueAssumption == QMAX \in Nat /\ MaxPkts \in Nat

ASSUME TrafficAssumption ==
  /\ Clients \subseteq
       [src6 : IP6Port, dst6 : IPv6Addr, dport : Nat, l4 : Proto]
  /\ Strays \subseteq [src4 : IP4Port, dst4 : IP4Port, l4 : Proto]
  /\ \A c \in Clients :
       c.dst6.net = Prefix => [cli |-> c.src6, srv |-> c.dst6] \in Keys
  /\ PoolAddr \in Dest4
  /\ \A s \in Strays : s.dst4.ip \in Dest4

VARIABLES
  main,       (* main thread: [pc, pkt, flow, tid]                       *)
  q,          (* q[t]: the queue of worker t                             *)
  wk,         (* wk[t]: worker t, [pc, pkt, flow]                        *)
  nrecv,      (* packets read from the tunnel so far                     *)
  sent,       (* packets given to the raw sockets                        *)
  dropped,    (* ids of the packets translate() gave up                  *)
  stamped,    (* the places in Stamping whose labels the timing maps     *)
              (* mptime_ and time hold                                   *)
  spoilt,     (* a raced insertion has damaged the timing maps           *)
  crashed     (* the process has died                                    *)

timers == <<stamped, spoilt>>
tunVars == <<main, q, wk, nrecv, sent, dropped, timers, crashed>>
vars == <<smVars, tunVars>>

NoPkt == [id |-> 0]
MainIdle == [pc |-> "read", pkt |-> NoPkt, flow |-> NoFlow, tid |-> NoTid]
WorkerIdle == [pc |-> "idle", pkt |-> NoPkt, flow |-> NoFlow]

-----------------------------------------------------------------------------
(* Keys of a packet, as getFlow and begin build them.                      *)
Key64Pkt(p) == [cli |-> p.src6, srv |-> p.dst6]
Key46Pkt(p) == [ip4p |-> p.dst4, srv |-> p.src4.ip]

HasTransport(p) == p.l4 \in {"tcp", "udp"}

(* Packet::getFlow.                                                        *)
GetFlow(p) ==
  IF ~HasTransport(p) THEN NoFlow
  ELSE IF p.v = 6 THEN GetMapping64(Key64Pkt(p))
  ELSE GetMapping46(Key46Pkt(p))

(* port_t of the packet; never assigned when there is no TCP or UDP header, *)
(* so that any residue modulo T may come out.                              *)
PortT(p) == IF p.v = 6 THEN p.src6.port + p.dport
                       ELSE p.src4.port + p.dst4.port

HashTids(p) == IF HasTransport(p) THEN {PortT(p) % T} ELSE Tids

-----------------------------------------------------------------------------
(***************************************************************************)
(* The tunnel.  Clients send what they like; servers answer what reached   *)
(* them; strays come unasked.                                              *)
(***************************************************************************)
ClientPacket(c) ==
  [id |-> nrecv + 1, v |-> 6, l4 |-> c.l4,
   src6 |-> c.src6, dst6 |-> c.dst6, dport |-> c.dport]

ServerPacket(s) ==
  [id |-> nrecv + 1, v |-> 4, l4 |-> s.l4, src4 |-> s.src4, dst4 |-> s.dst4]

Replies ==
  {[src4 |-> s.dst4, dst4 |-> s.src4, l4 |-> s.l4] :
     s \in {x \in sent : x.v = 4}}

Arrivals == {ClientPacket(c) : c \in Clients} \cup
            {ServerPacket(s) : s \in Replies \cup Strays}

(* The main loop reads a packet; tun_handle unpacks it and looks its flow  *)
(* up, under smutex.                                                       *)
Receive ==
  /\ ~crashed /\ main.pc = "read" /\ nrecv < MaxPkts
  /\ \E p \in Arrivals :
       main' = [main EXCEPT !.pc = "pick", !.pkt = p, !.flow = GetFlow(p)]
  /\ nrecv' = nrecv + 1
  /\ UNCHANGED <<smVars, q, wk, sent, dropped, timers, crashed>>

(* Faulty variants, for the mutants only: the flow's worker is ignored;    *)
(* the workers take turns.                                                 *)
PickTidsByPorts(p, f) == HashTids(p)
PickTidsInTurn(p, f)  == {p.id % T}

(* The queue: the flow's worker if it has one (read without a lock), else  *)
(* the ports decide.                                                       *)
PickTids(p, f) ==
  IF f # NoFlow /\ flow[f].tid >= 0 THEN {flow[f].tid} ELSE HashTids(p)

Pick ==
  /\ ~crashed /\ main.pc = "pick"
  /\ \E t \in PickTids(main.pkt, main.flow) :
       main' = [main EXCEPT !.pc = "push", !.tid = t]
  /\ UNCHANGED <<smVars, q, wk, nrecv, sent, dropped, timers, crashed>>

(* Faulty variant, for a mutant only: no wait.                             *)
PushAtOnce ==
  /\ ~crashed /\ main.pc = "push"
  /\ q' = [q EXCEPT ![main.tid] = Append(@, main.pkt)]
  /\ main' = MainIdle
  /\ UNCHANGED <<smVars, wk, nrecv, sent, dropped, timers, crashed>>

(* Waits while size() > QMAX, then pushes.  The size is read without the   *)
(* lock, perhaps while a pop is under way; but only this thread pushes and *)
(* that pop ends before the push can begin, so the push finds room, as it  *)
(* does when the size is read at once.                                     *)
Push ==
  /\ ~crashed /\ main.pc = "push"
  /\ ~(Len(q[main.tid]) > QMAX)
  /\ q' = [q EXCEPT ![main.tid] = Append(@, main.pkt)]
  /\ main' = MainIdle
  /\ UNCHANGED <<smVars, wk, nrecv, sent, dropped, timers, crashed>>

-----------------------------------------------------------------------------
(***************************************************************************)
(* A worker.  Goto, Drop and Die are the ways a step of it ends.           *)
(***************************************************************************)
Goto(w, pc, f) ==
  /\ wk' = [wk EXCEPT ![w].pc = pc, ![w].flow = f]
  /\ UNCHANGED <<dropped, crashed>>

Drop(w) ==
  /\ wk' = [wk EXCEPT ![w] = WorkerIdle]
  /\ dropped' = dropped \cup {wk[w].pkt.id}
  /\ UNCHANGED crashed

Die == crashed' = TRUE /\ UNCHANGED <<wk, dropped>>

At(w, pc) == ~crashed /\ wk[w].pc = pc

(* Faulty variants, for the mutants only: front() without pop(); a last    *)
(* packet is left in the queue.                                            *)
PopFrontOnly(w) ==
  /\ At(w, "idle") /\ q[w] # <<>>
  /\ wk' = [wk EXCEPT ![w].pc = "range", ![w].pkt = Head(q[w])]
  /\ UNCHANGED <<smVars, main, q, nrecv, sent, dropped, timers, crashed>>

PopButLast(w) ==
  /\ At(w, "idle") /\ Len(q[w]) > 1
  /\ wk' = [wk EXCEPT ![w].pc = "range", ![w].pkt = Head(q[w])]
  /\ q' = [q EXCEPT ![w] = Tail(@)]
  /\ UNCHANGED <<smVars, main, nrecv, sent, dropped, timers, crashed>>

(* thread_t takes the front of its queue, under the queue's mutex.         *)
Pop(w) ==
  /\ At(w, "idle") /\ q[w] # <<>>
  /\ wk' = [wk EXCEPT ![w].pc = "range", ![w].pkt = Head(q[w])]
  /\ q' = [q EXCEPT ![w] = Tail(@)]
  /\ UNCHANGED <<smVars, main, nrecv, sent, dropped, timers, crashed>>

(***************************************************************************)
(* count1 and count2 keep times by label in two maps without a lock, at    *)
(* the start of translate and from the end of begin to the end of it (pc   *)
(* "range" and "send").  A label the maps do not hold is inserted.  Two    *)
(* workers about to use the maps, one of them to insert, may do so at      *)
(* once and damage them; damaged maps may bring down whoever uses them,    *)
(* then or later.  What the maps say of the time is left out.              *)
(***************************************************************************)
Stamping == {"range", "send"}

Adds(w) == wk[w].pc \notin stamped
Clashes(w) ==
  \E x \in Tids \ {w} : wk[x].pc \in Stamping /\ (Adds(w) \/ Adds(x))

Stamp(w) ==
  /\ stamped' = stamped \cup {wk[w].pc}
  /\ spoilt' \in {spoilt, spoilt \/ Clashes(w)}

(* translate: a client's packet must be for an address under the prefix    *)
(* and have a transport header.                                            *)
Filter6(w) ==
  LET p == wk[w].pkt IN
  /\ At(w, "range") /\ p.v = 6
  /\ Stamp(w)
  /\ \/ AddrInRange6(p.dst6) /\ HasTransport(p) /\ Goto(w, "map", NoFlow)
     \/ ~(AddrInRange6(p.dst6) /\ HasTransport(p)) /\ Drop(w)
     \/ spoilt' /\ Die
  /\ UNCHANGED <<smVars, main, q, nrecv, sent>>

(***************************************************************************)
(* translate: a server's packet must be for the pool address.  The look-up *)
(* map_pool_[ip] has no lock and inserts an address it does not hold; two  *)
(* workers in it, one of them inserting, race.  A look-up that raced (pc   *)
(* "torn") may find the address, miss it or bring the process down.        *)
(***************************************************************************)
Inserts(w) == wk[w].pkt.dst4.ip \notin DOMAIN mapPool
InMapPool(w) == wk[w].pc \in {"inmap", "torn"}
Racing(w) ==
  {x \in Tids \ {w} : InMapPool(x) /\ (Inserts(w) \/ Inserts(x))}

EnterMapPool(w) ==
  /\ wk' = [x \in Tids |->
              IF x \in Racing(w) \/ (x = w /\ Racing(w) # {})
              THEN [wk[x] EXCEPT !.pc = "torn"]
              ELSE IF x = w THEN [wk[x] EXCEPT !.pc = "inmap"] ELSE wk[x]]
  /\ UNCHANGED <<dropped, crashed>>

Enter4(w) ==
  /\ At(w, "range") /\ wk[w].pkt.v = 4
  /\ Stamp(w)
  /\ EnterMapPool(w) \/ (spoilt' /\ Die)
  /\ UNCHANGED <<smVars, main, q, nrecv, sent>>

(* Faulty variant, for a mutant only: the look-up enters TRUE.             *)
Filter4Owns(w) ==
  LET p == wk[w].pkt IN
  /\ ~crashed /\ InMapPool(w)
  /\ mapPool' = Assign(mapPool, p.dst4.ip, TRUE)
  /\ \/ HasTransport(p) /\ Goto(w, "get", NoFlow)
     \/ ~HasTransport(p) /\ Drop(w)
  /\ UNCHANGED <<pool, map64, map46, flow, ip6srvCur, main, q, nrecv, sent, timers>>

Filter4(w) ==
  LET p == wk[w].pkt IN
  /\ ~crashed /\ InMapPool(w)
  /\ IsAddrInRange4(p.dst4.ip)
  /\ \/ AddrInRange4(p.dst4.ip) /\ HasTransport(p) /\ Goto(w, "get", NoFlow)
     \/ ~(AddrInRange4(p.dst4.ip) /\ HasTransport(p)) /\ Drop(w)
     \/ wk[w].pc = "torn" /\ (Drop(w) \/ Die)
  /\ UNCHANGED <<main, q, nrecv, sent, timers>>

-----------------------------------------------------------------------------
(* Faulty variant, for a mutant only: the null result goes unnoticed.      *)
Map6Unchecked(w) ==
  LET k == Key64Pkt(wk[w].pkt) IN
  /\ At(w, "map")
  /\ DoMapping(k)
  /\ Goto(w, "tid", MappingResult(k))
  /\ UNCHANGED <<main, q, nrecv, sent, timers>>

(***************************************************************************)
(* NAT::begin for a client's packet: doMapping, whose null result it       *)
(* dereferences; then the worker claims the flow unless somebody has, in   *)
(* two steps with no lock.                                                 *)
(***************************************************************************)
Map6(w) ==
  LET k == Key64Pkt(wk[w].pkt) IN
  /\ At(w, "map")
  /\ DoMapping(k)
  /\ \/ MappingResult(k) # NoFlow /\ Goto(w, "tid", MappingResult(k))
     \/ MappingResult(k) = NoFlow /\ Die
  /\ UNCHANGED <<main, q, nrecv, sent, timers>>

ReadTid(w) ==
  /\ At(w, "tid")
  /\ \/ flow[wk[w].flow].tid < 0 /\ Goto(w, "claim", wk[w].flow)
     \/ flow[wk[w].flow].tid >= 0 /\ Goto(w, "send", wk[w].flow)
  /\ UNCHANGED <<smVars, main, q, nrecv, sent, timers>>

Claim(w) ==
  /\ At(w, "claim")
  /\ SetTid(wk[w].flow, w)
  /\ Goto(w, "send", wk[w].flow)
  /\ UNCHANGED <<main, q, nrecv, sent, timers>>

(* Faulty variant, for a mutant only: if (!f) return 1 is missing.         *)
Begin4Unchecked(w) ==
  LET f == GetMapping46(Key46Pkt(wk[w].pkt)) IN
  /\ At(w, "get")
  /\ \/ f # NoFlow /\ Goto(w, "send", f)
     \/ f = NoFlow /\ Die
  /\ UNCHANGED <<smVars, main, q, nrecv, sent, timers>>

(* NAT::begin for a server's packet.                                       *)
Begin4(w) ==
  LET f == GetMapping46(Key46Pkt(wk[w].pkt)) IN
  /\ At(w, "get")
  /\ \/ f # NoFlow /\ Goto(w, "send", f)
     \/ f = NoFlow /\ Drop(w)
  /\ UNCHANGED <<smVars, main, q, nrecv, sent, timers>>

-----------------------------------------------------------------------------
(* Faulty variant, for a mutant only: doDPort is forgotten.                *)
TranslatedKeepDPort(p, f) ==
  IF p.v = 6
  THEN [id |-> p.id, v |-> 4, l4 |-> p.l4,
        src4 |-> flow[f].ip4p,
        dst4 |-> [ip |-> ServerAddr4(p.dst6), port |-> p.dport]]
  ELSE [id |-> p.id, v |-> 6, l4 |-> p.l4,
        dst6 |-> [ip |-> flow[f].ip6p.ip, port |-> p.dst4.port],
        src6 |-> [ip |-> ServerAddr6(p.src4.ip), port |-> p.src4.port]]

(***************************************************************************)
(* doSPort, doDPort and doIP rewrite the headers from the flow begin       *)
(* found; the raw socket takes the packet or refuses it (the code logs and *)
(* goes on).  The store to ip6srv_cur_ ends begin.  The timing maps are    *)
(* used before and after the packet is sent.                               *)
(***************************************************************************)
Translated(p, f) ==
  IF p.v = 6
  THEN [id |-> p.id, v |-> 4, l4 |-> p.l4,
        src4 |-> flow[f].ip4p,
        dst4 |-> [ip |-> ServerAddr4(p.dst6), port |-> p.dport]]
  ELSE [id |-> p.id, v |-> 6, l4 |-> p.l4,
        dst6 |-> flow[f].ip6p,
        src6 |-> [ip |-> ServerAddr6(p.src4.ip), port |-> p.src4.port]]

Send(w) ==
  LET p == wk[w].pkt IN
  /\ At(w, "send")
  /\ Stamp(w)
  /\ \/ p.v = 6 /\ SetCurIPv6SrvAddr(p.dst6)
     \/ p.v = 4 /\ UNCHANGED smVars
  /\ \/ /\ sent' = sent \cup {Translated(p, wk[w].flow)}
        /\ wk' = [wk EXCEPT ![w] = WorkerIdle]
        /\ crashed' \in {FALSE, spoilt'}
        /\ UNCHANGED dropped
     \/ (Drop(w) \/ (spoilt' /\ Die)) /\ UNCHANGED sent
  /\ UNCHANGED <<main, q, nrecv>>

Worker(w) ==
  \/ Pop(w) \/ Filter6(w) \/ Enter4(w) \/ Filter4(w)
  \/ Map6(w) \/ ReadTid(w) \/ Claim(w) \/ Begin4(w) \/ Send(w)

-----------------------------------------------------------------------------
TunInit ==
  /\ SMInit
  /\ main = MainIdle
  /\ q = [t \in Tids |-> <<>>]
  /\ wk = [t \in Tids |-> WorkerIdle]
  /\ nrecv = 0
  /\ sent = {}
  /\ dropped = {}
  /\ stamped = {} /\ spoilt = FALSE
  /\ crashed = FALSE

TunNext ==
  \/ Receive \/ Pick \/ Push
  \/ \E w \in Tids : Worker(w)

TunSpec == TunInit /\ [][TunNext]_vars

(***************************************************************************)
(* The threads poll: each runs again and again, whatever the others do.    *)
(* Nothing makes packets arrive.                                           *)
(***************************************************************************)
Fairness ==
  /\ WF_vars(Pick \/ Push)
  /\ \A w \in Tids : WF_vars(Worker(w))

TunFairSpec == TunSpec /\ Fairness

-----------------------------------------------------------------------------
InQueue(t) == {q[t][i] : i \in DOMAIN q[t]}
InHand(t)  == IF wk[t].pkt = NoPkt THEN {} ELSE {wk[t].pkt}
AtWorker(t) == InQueue(t) \cup InHand(t)
AtMain == IF main.pkt = NoPkt THEN {} ELSE {main.pkt}
InFlight == AtMain \cup UNION {AtWorker(t) : t \in Tids}

(* The type invariant of the threads' state.                               *)
TunTypeOK ==
  /\ main.pc \in {"read", "pick", "push"}
  /\ main.flow \in {NoFlow} \cup DOMAIN flow
  /\ main.tid \in Tids \cup {NoTid} /\ (main.pc = "push" => main.tid \in Tids)
  /\ \A t \in Tids :
       /\ wk[t].pc \in {"idle", "range", "inmap", "torn", "map", "get",
                        "tid", "claim", "send"}
       /\ wk[t].flow \in {NoFlow} \cup DOMAIN flow
       /\ wk[t].pc \in {"tid", "claim", "send"} => wk[t].flow # NoFlow
       /\ \A p \in AtWorker(t) : p.id \in 1 .. nrecv
  /\ nrecv \in 0 .. MaxPkts /\ crashed \in BOOLEAN
  /\ stamped \subseteq Stamping /\ spoilt \in BOOLEAN

(***************************************************************************)
(* What the code bounds a queue by: the wait of tun_handle ends with QMAX  *)
(* packets in the queue, and the push follows (tun.h:115-121): one packet  *)
(* more than the comment at tun.h:19 says.                                 *)
(***************************************************************************)
QueueBound == \A t \in Tids : Len(q[t]) <= QMAX + 1

(***************************************************************************)
(* The hand-over between threads neither loses nor doubles a packet: each  *)
(* packet read is with the main thread, at one place of one worker, sent   *)
(* or given up (tun.h:33-52, 96-123; nat.cc:72-155).                       *)
(***************************************************************************)
Places(i) ==
  {<<"main">> : p \in {r \in AtMain : r.id = i}} \cup
  {<<"sent", s>> : s \in {r \in sent : r.id = i}} \cup
  {<<"dropped">> : j \in {d \in dropped : d = i}} \cup
  UNION {{<<"hand", t>> : p \in {r \in InHand(t) : r.id = i}} \cup
         {<<"queue", t, n>> : n \in {m \in DOMAIN q[t] : q[t][m].id = i}} :
           t \in Tids}

Conserved == \A i \in 1 .. nrecv : Cardinality(Places(i)) = 1

(***************************************************************************)
(* The process dies in three ways only: a client's packet found the pool   *)
(* empty (nat.cc:161-162 uses the null result of doMapping); a packet for  *)
(* an address that is not the pool's came in and raced another one in      *)
(* map_pool_ (state.cc:175-178); or the timing maps are damaged            *)
(* (state.h:68-79, nat.cc:74-75, 94-112, 145-150).  The maps are damaged   *)
(* only while two workers translate and the first labels are not all in:   *)
(* once a packet has gone all the way, they stay as good as they are.      *)
(***************************************************************************)
ForeignSeen ==
  \/ DOMAIN mapPool # {PoolAddr}
  \/ \E w \in Tids : InMapPool(w) /\ wk[w].pkt.dst4.ip # PoolAddr

TwoStamping ==
  \E w, x \in Tids : w # x /\ {wk[w].pc, wk[x].pc} \subseteq Stamping

CrashCauses ==
  [][/\ crashed' # crashed => pool = <<>> \/ ForeignSeen \/ spoilt'
     /\ spoilt' # spoilt => TwoStamping /\ stamped # Stamping]_vars

(***************************************************************************)
(* What reaches a client comes from the server its flow was opened to:     *)
(* the reply is rewritten from a flow found several unlocked steps after   *)
(* the dispatch (nat.cc:169-173, 190-213).                                 *)
(***************************************************************************)
SentByBinding ==
  \A s \in sent : s.v = 6 =>
    \E f \in DOMAIN flow : /\ s.dst6 = flow[f].ip6p
                           /\ s.src6.ip = flow[f].ip6srv

-----------------------------------------------------------------------------
(***************************************************************************)
(* The traffic the following is claimed for: each connection has a client  *)
(* port of its own, and servers only answer.                               *)
(***************************************************************************)
ProperTraffic ==
  /\ \A c, d \in Clients : c.src6.port = d.src6.port => c = d
  /\ Strays = {}

(***************************************************************************)
(* In such traffic the workers do not step on each other: all packets of a *)
(* claimed flow are with the worker that claimed it, so that begin's       *)
(* unlocked test and store of f->tid meet no other thread                  *)
(* (tun.h:107-112, nat.cc:162-165).                                        *)
(***************************************************************************)
FlowAffinity ==
  \A t \in Tids : \A p \in AtWorker(t) :
    LET f == GetFlow(p) IN
    f # NoFlow /\ flow[f].tid # NoTid => flow[f].tid = t

(* The connection and direction a packet belongs to.                       *)
Conn(p) == IF p.v = 6 THEN <<6, p.src6, p.dst6, p.dport>>
                      ELSE <<4, p.src4, p.dst4>>

(***************************************************************************)
(* Packets of a connection leave in the order they came, although T        *)
(* workers send (tun.h:107-122): TCP behind the gateway sees no reordering *)
(* the network did not make.                                               *)
(***************************************************************************)
InOrder ==
  [][\A p \in InFlight : (\E s \in sent' \ sent : s.id = p.id) =>
       \A r \in InFlight : Conn(r) = Conn(p) => p.id <= r.id]_vars

(***************************************************************************)
(* Every packet that came is sent or given up, unless the process dies:    *)
(* the wait of tun_handle for a full queue ends, and no worker is stuck    *)
(* (tun.h:33-52, 115-118).                                                 *)
(***************************************************************************)
Handled(i) == i \in dropped \/ \E s \in sent : s.id = i

EveryPacketHandled ==
  \A i \in 1 .. MaxPkts : (nrecv >= i) ~> (Handled(i) \/ crashed)

(***************************************************************************)
(* The threads together still behave as the shared state does on its own:  *)
(* each of their steps is one operation of StateManager or none.           *)
(***************************************************************************)
StateManagerImplemented == SMSpec

(***************************************************************************)
(* And to its users the gateway is the service of Nat64Service.            *)
(***************************************************************************)
Service == INSTANCE Nat64Service WITH
  PortSet <- {[ip |-> PoolAddr, port |-> n] : n \in MinPort .. MaxPort},
  bind    <- [k \in DOMAIN map64 |-> flow[map64[k]].ip4p],
  inbox   <- InFlight,
  sent    <- sent

ServiceImplemented == Service!Spec
=============================================================================
