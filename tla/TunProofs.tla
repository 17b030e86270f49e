------------------------------ MODULE TunProofs ------------------------------
(***************************************************************************)
(* Theorems about Tun for every number of workers, pool, queue limit and   *)
(* traffic: the threads implement StateManager, the queues stay within     *)
(* their bound, no packet is lost or doubled, clients hear only the server *)
(* of their flow and the process dies for the three known causes only.  In *)
(* proper traffic, a flow stays with one worker, a connection keeps its    *)
(* order, and the gateway implements Nat64Service.                         *)
(*                                                                         *)
(* The inductive invariant TunInv adds to SMInv what each packet is, what  *)
(* a worker knows of the packet and flow in its hands, and where a torn    *)
(* look-up came from.  OnceInv and HomeInv, further down, say where        *)
(* packets are and where they belong.                                      *)
(***************************************************************************)
EXTENDS Tun, StateManagerProofs, FiniteSetTheorems

(* Packets that have arrived.                                              *)
Pkt6 ==
  {p \in [id : Nat, v : {6}, l4 : Proto,
          src6 : IP6Port, dst6 : IPv6Addr, dport : Nat] :
     p.dst6.net = Prefix => Key64Pkt(p) \in Keys}

Pkt4 ==
  {p \in [id : Nat, v : {4}, l4 : Proto, src4 : IP4Port, dst4 : IP4Port] :
     p.dst4.ip \in Dest4}

Arrived == {p \in Pkt6 \cup Pkt4 : p.id \in 1 .. nrecv}

(* What the main thread holds.                                             *)
MainOK ==
  /\ main \in [pc : {"read", "pick", "push"}, pkt : Arrived \cup {NoPkt},
               flow : {NoFlow} \cup DOMAIN flow, tid : Tids \cup {NoTid}]
  /\ main.pc # "read" => main.pkt \in Arrived
  /\ main.pc = "push" => main.tid \in Tids

QueuesOK == q \in [Tids -> Seq(Arrived)] /\ QueueBound

(* What a worker knows of its packet and flow at each point.               *)
WorkerOK(r) ==
  /\ r \in [pc : {"idle", "range", "inmap", "torn", "map", "get",
                  "tid", "claim", "send"},
            pkt : Arrived \cup {NoPkt}, flow : {NoFlow} \cup DOMAIN flow]
  /\ r.pc # "idle" => r.pkt \in Arrived
  /\ r.pc \in {"inmap", "torn", "get"} => r.pkt.v = 4
  /\ r.pc \in {"map", "tid", "claim"} => r.pkt.v = 6
  /\ r.pc \in {"map", "tid", "claim", "send"} /\ r.pkt.v = 6 =>
       r.pkt.dst6.net = Prefix
  /\ r.pc \in {"tid", "claim", "send"} => r.flow # NoFlow
  /\ r.pc = "send" /\ r.pkt.v = 4 => flow[r.flow].ip4srv = r.pkt.src4.ip

WorkersOK ==
  /\ wk = [w \in Tids |-> wk[w]]
  /\ \A w \in Tids : WorkerOK(wk[w])

(* What has left: from the pool to servers, from a flow's server to its    *)
(* client.                                                                 *)
ToServers ==
  {s \in [id : Nat, v : {4}, l4 : Proto, src4 : IP4Port, dst4 : IP4Port] :
     s.src4.ip = PoolAddr}
ToClients == [id : Nat, v : {6}, l4 : Proto, src6 : IP6Port, dst6 : IP6Port]

SentOK == sent \subseteq ToServers \cup ToClients /\ SentByBinding

(* A server's two addresses are one address.                               *)
ServersOK ==
  \A f \in DOMAIN flow : flow[f].ip6srv = ServerAddr6(flow[f].ip4srv)

(* A torn look-up raced an address that is not the pool's.                 *)
TornOK ==
  /\ PoolAddr \in DOMAIN mapPool
  /\ (\E w \in Tids : wk[w].pc = "torn") => ForeignSeen

TunInv ==
  /\ SMInv /\ ServersOK
  /\ nrecv \in 0 .. MaxPkts /\ crashed \in BOOLEAN
  /\ MainOK /\ QueuesOK /\ WorkersOK /\ SentOK
  /\ TornOK /\ stamped \subseteq Stamping /\ spoilt \in BOOLEAN
-----------------------------------------------------------------------------
LEMMA TunInvInit == TunInit => TunInv
<1>. SUFFICES ASSUME TunInit PROVE TunInv
  OBVIOUS
<1>1. SMInv
  BY InvInit DEF TunInit
<1>2. ServersOK
  BY DEF TunInit, SMInit, ServersOK
<1>3. /\ nrecv \in 0 .. MaxPkts
      /\ crashed \in BOOLEAN
  <2>1. nrecv \in 0 .. MaxPkts
    BY QueueAssumption, SMT DEF TunInit
  <2>2. crashed \in BOOLEAN
    BY Zenon DEF TunInit
  <2>. QED BY <2>1, <2>2
<1>4. MainOK
  BY DEF TunInit, MainOK, MainIdle
<1>5. QueuesOK
  <2>1. \A t \in Tids : q[t] = <<>> /\ Len(q[t]) = 0
    BY EmptySeq DEF TunInit
  <2>2. q \in [Tids -> Seq(Arrived)]
    BY EmptySeq DEF TunInit
  <2>. QED BY <2>1, <2>2, QueueAssumption DEF QueuesOK, QueueBound
<1>6. WorkersOK
  BY DEF TunInit, WorkersOK, WorkerOK, WorkerIdle
<1>7. SentOK
  BY DEF TunInit, SentOK, SentByBinding
<1>8. TornOK /\ stamped \subseteq Stamping
  BY DEF TunInit, SMInit, TornOK, WorkerIdle
<1>9. spoilt \in BOOLEAN
  BY Zenon DEF TunInit
<1>. QED BY <1>1, <1>2, <1>3, <1>4, <1>5, <1>6, <1>7, <1>8, <1>9 DEF TunInv

(* A look-up answers with a flow or with none.                             *)
LEMMA LookupTypes ==
  ASSUME SMTypeOK
  PROVE  /\ \A k : GetMapping64(k) \in {NoFlow} \cup DOMAIN flow
         /\ \A k : GetMapping46(k) \in {NoFlow} \cup DOMAIN flow
<1>1. \A k : Has64(k) => At64(k) \in DOMAIN flow
  BY DEF SMTypeOK, Has64, At64
<1>2. \A k \in DOMAIN map46 : map46[k] \in DOMAIN flow
  BY DEF SMTypeOK
<1>. QED BY <1>1, <1>2 DEF GetMapping64, GetMapping46

(* Flows are only ever added, and keep their bindings.                     *)
FlowsGrow ==
  \A f \in DOMAIN flow : f \in DOMAIN flow' /\ Binding(flow'[f]) = Binding(flow[f])

LEMMA FlowsGrowStep == SMInv /\ [SMNext]_smVars => FlowsGrow
<1>. SUFFICES ASSUME SMInv, [SMNext]_smVars PROVE FlowsGrow
  OBVIOUS
<1>1. CASE SMNext
  <2>1. KeepsBindings \/ UNCHANGED smVars
    BY <1>1, StepKeepsBindings
  <2>. QED BY <2>1 DEF KeepsBindings, FlowsGrow, smVars
<1>2. CASE UNCHANGED smVars
  BY <1>2 DEF FlowsGrow, smVars
<1>. QED BY <1>1, <1>2

(* Every binding joins a server's IPv6 address with its IPv4 address.      *)
LEMMA ServersStep == SMInv /\ ServersOK /\ [SMNext]_smVars => ServersOK'
<1>. SUFFICES ASSUME SMInv, ServersOK, [SMNext]_smVars PROVE ServersOK'
  OBVIOUS
<1>1. \A f \in DOMAIN flow :
        f \in DOMAIN flow' => flow'[f].ip6srv = ServerAddr6(flow'[f].ip4srv)
  BY FlowsGrowStep DEF FlowsGrow, Binding, ServersOK, ServerAddr6
<1>2. CASE DOMAIN flow' = DOMAIN flow
  BY <1>1, <1>2 DEF ServersOK, ServerAddr6
<1>3. ASSUME NEW k \in Keys, ~Has64(k), pool # <<>>, CreateMapping(k)
      PROVE  ServersOK'
  <2>. DEFINE n == Len(flow) + 1
  <2>1. /\ n \in Nat \ {0} /\ DOMAIN flow = 1 .. n - 1 /\ DOMAIN flow' = 1 .. n
        /\ flow'[n] = NewFlow(k, Head(pool))
    BY <1>3, CreateMappingFacts
  <2>2. k.srv = [net |-> Prefix, low |-> k.srv.low]
    BY KeysAssumption DEF Key64, IPv6Addr
  <2>3. flow'[n].ip6srv = ServerAddr6(flow'[n].ip4srv)
    BY <2>1, <2>2 DEF NewFlow, ServerAddr4, ServerAddr6
  <2>4. \A f \in DOMAIN flow' : f = n \/ f \in DOMAIN flow
    BY <2>1
  <2>. QED BY <1>1, <2>3, <2>4 DEF ServersOK, ServerAddr6
<1>4. ASSUME NEW f \in DOMAIN flow, NEW w \in Tids, SetTid(f, w)
      PROVE  DOMAIN flow' = DOMAIN flow
  BY <1>4 DEF SetTid
<1>. QED
  BY <1>2, <1>3, <1>4
     DEF SMNext, DoMapping, IsAddrInRange4, SetCurIPv6SrvAddr, smVars

(* What a worker knows outlives the steps of the others.                   *)
LEMMA WorkerOKStable ==
  ASSUME FlowsGrow, nrecv \in Nat, nrecv' \in Nat, nrecv <= nrecv',
         NEW r, WorkerOK(r)
  PROVE  WorkerOK(r)'
<1>1. Arrived \subseteq Arrived'
  BY DEF Arrived
<1>2. DOMAIN flow \subseteq DOMAIN flow'
  BY DEF FlowsGrow
<1>3. \A f \in DOMAIN flow : flow'[f].ip4srv = flow[f].ip4srv
  BY DEF FlowsGrow, Binding
<1>. QED BY <1>1, <1>2, <1>3 DEF WorkerOK

LEMMA MainOKStable ==
  ASSUME MainOK, FlowsGrow, nrecv' = nrecv, main' = main
  PROVE  MainOK'
<1>1. Arrived' = Arrived
  BY DEF Arrived
<1>2. DOMAIN flow \subseteq DOMAIN flow'
  BY DEF FlowsGrow
<1>. QED BY <1>1, <1>2 DEF MainOK

(* The packets that left stay justified while flows keep their bindings.   *)
LEMMA SentOKStable ==
  ASSUME SentOK, FlowsGrow, sent' = sent
  PROVE  SentOK'
<1>1. \A f \in DOMAIN flow :
        /\ f \in DOMAIN flow'
        /\ flow'[f].ip6p = flow[f].ip6p /\ flow'[f].ip6srv = flow[f].ip6srv
  BY DEF FlowsGrow, Binding
<1>2. SentByBinding'
  BY <1>1 DEF SentOK, SentByBinding
<1>. QED BY <1>2 DEF SentOK
-----------------------------------------------------------------------------
(* What holds of a packet in a worker's hands.                             *)
LEMMA PacketFacts ==
  ASSUME WorkersOK, NEW w \in Tids, wk[w].pc # "idle"
  PROVE  /\ wk[w].pkt \in Arrived
         /\ wk[w].pkt.v = 4 => wk[w].pkt \in Pkt4
         /\ wk[w].pkt.v # 4 => wk[w].pkt \in Pkt6 /\ wk[w].pkt.v = 6
<1>1. WorkerOK(wk[w])
  BY DEF WorkersOK
<1>2. wk[w].pkt \in Arrived
  BY <1>1 DEF WorkerOK
<1>. QED BY <1>2 DEF Arrived, Pkt4, Pkt6

(* The key of a packet under the prefix is one that may be mapped.         *)
LEMMA KeyFacts ==
  ASSUME WorkersOK, NEW w \in Tids, wk[w].pc \in {"map", "send"}, wk[w].pkt.v = 6
  PROVE  /\ Key64Pkt(wk[w].pkt) \in Keys
         /\ Key64Pkt(wk[w].pkt).srv = wk[w].pkt.dst6
<1>1. WorkerOK(wk[w])
  BY DEF WorkersOK
<1>2. wk[w].pkt \in Pkt6 /\ wk[w].pkt.dst6.net = Prefix
  BY <1>1, PacketFacts DEF WorkerOK
<1>. QED BY <1>2 DEF Pkt6, Key64Pkt

(* Each step of the threads is one operation of the shared state, called   *)
(* with arguments that state allows, or none.                              *)
LEMMA StepRefines == TunInv /\ [TunNext]_vars => [SMNext]_smVars
<1>. SUFFICES ASSUME TunInv, [TunNext]_vars PROVE [SMNext]_smVars
  OBVIOUS
<1>. USE DEF TunInv
<1>1. CASE Receive \/ Pick \/ Push
  BY <1>1 DEF Receive, Pick, Push
<1>2. ASSUME NEW w \in Tids, Worker(w) PROVE [SMNext]_smVars
  <2>1. CASE Pop(w) \/ Filter6(w) \/ Enter4(w) \/ ReadTid(w) \/ Begin4(w)
    BY <2>1 DEF Pop, Filter6, Enter4, ReadTid, Begin4
  <2>2. CASE Filter4(w)
    <3>1. wk[w].pc \in {"inmap", "torn"} /\ IsAddrInRange4(wk[w].pkt.dst4.ip)
      BY <2>2 DEF Filter4, InMapPool
    <3>2. wk[w].pkt \in Pkt4
      BY <3>1, PacketFacts DEF WorkersOK, WorkerOK
    <3>3. wk[w].pkt.dst4.ip \in Dest4
      BY <3>2 DEF Pkt4
    <3>. QED BY <3>1, <3>3 DEF SMNext
  <2>3. CASE Map6(w)
    <3>1. wk[w].pc = "map" /\ DoMapping(Key64Pkt(wk[w].pkt))
      BY <2>3 DEF Map6, At
    <3>2. wk[w].pkt.v = 6
      BY <3>1 DEF WorkersOK, WorkerOK
    <3>3. Key64Pkt(wk[w].pkt) \in Keys
      BY <3>1, <3>2, KeyFacts
    <3>. QED BY <3>1, <3>3 DEF SMNext
  <2>4. CASE Claim(w)
    <3>1. wk[w].pc = "claim" /\ SetTid(wk[w].flow, w)
      BY <2>4 DEF Claim, At
    <3>2. wk[w].flow \in DOMAIN flow
      BY <3>1 DEF WorkersOK, WorkerOK
    <3>. QED BY <3>1, <3>2 DEF SMNext
  <2>5. CASE Send(w)
    <3>1. wk[w].pc = "send"
      BY <2>5 DEF Send, At
    <3>2. CASE wk[w].pkt.v = 6 /\ SetCurIPv6SrvAddr(wk[w].pkt.dst6)
      BY <3>1, <3>2, KeyFacts DEF SMNext
    <3>3. CASE UNCHANGED smVars
      BY <3>3
    <3>. QED BY <2>5, <3>2, <3>3 DEF Send
  <2>. QED BY <1>2, <2>1, <2>2, <2>3, <2>4, <2>5 DEF Worker
<1>3. CASE UNCHANGED vars
  BY <1>3 DEF vars
<1>. QED BY <1>1, <1>2, <1>3 DEF TunNext
-----------------------------------------------------------------------------
(* How the workers' part of the invariant survives a step.                 *)
LEMMA WorkersKept ==
  ASSUME WorkersOK, FlowsGrow, wk' = wk,
         nrecv \in Nat, nrecv' \in Nat, nrecv <= nrecv'
  PROVE  WorkersOK'
<1>1. \A w \in Tids : WorkerOK(wk[w])'
  BY WorkerOKStable DEF WorkersOK
<1>. QED BY <1>1 DEF WorkersOK

LEMMA WorkerChanged ==
  ASSUME WorkersOK, FlowsGrow, nrecv \in Nat, nrecv' = nrecv,
         NEW w \in Tids, NEW r, WorkerOK(r)',
         wk' = [wk EXCEPT ![w] = r]
  PROVE  WorkersOK'
<1>1. wk' = [x \in Tids |-> IF x = w THEN r ELSE wk[x]]
  BY DEF WorkersOK
<1>2. ASSUME NEW x \in Tids PROVE WorkerOK(wk[x])'
  <2>1. CASE x = w
    <3>1. wk'[x] = r
      BY <1>1, <2>1
    <3>. QED BY <3>1 DEF WorkerOK
  <2>2. CASE x # w
    <3>1. wk'[x] = wk[x] /\ WorkerOK(wk[x])
      BY <1>1, <2>2 DEF WorkersOK
    <3>. QED BY <3>1, WorkerOKStable
  <2>. QED BY <2>1, <2>2
<1>. QED BY <1>1, <1>2 DEF WorkersOK

(* The ways a step of a worker ends.                                       *)
LEMMA GotoOK ==
  ASSUME WorkersOK, FlowsGrow, nrecv \in Nat, nrecv' = nrecv,
         NEW w \in Tids, NEW pc, NEW f, Goto(w, pc, f),
         NEW r, r = [pc |-> pc, pkt |-> wk[w].pkt, flow |-> f], WorkerOK(r)'
  PROVE  WorkersOK'
<1>1. wk[w] = [pc |-> wk[w].pc, pkt |-> wk[w].pkt, flow |-> wk[w].flow]
  BY DEF WorkersOK, WorkerOK
<1>2. /\ DOMAIN wk = Tids /\ DOMAIN wk' = Tids
      /\ wk'[w] = [[wk[w] EXCEPT !.pc = pc] EXCEPT !.flow = f]
      /\ \A x \in Tids : x # w => wk'[x] = wk[x]
      /\ wk' = [x \in DOMAIN wk' |-> wk'[x]]
  BY DEF Goto, WorkersOK
<1>3. wk'[w] = r
  BY <1>1, <1>2
<1>4. wk' = [wk EXCEPT ![w] = r]
  BY <1>2, <1>3
<1>. QED BY <1>4, WorkerChanged

LEMMA IdleOK ==
  ASSUME WorkersOK, FlowsGrow, nrecv \in Nat, nrecv' = nrecv,
         NEW w \in Tids, wk' = [wk EXCEPT ![w] = WorkerIdle]
  PROVE  WorkersOK'
<1>1. WorkerOK(WorkerIdle)'
  BY DEF WorkerOK, WorkerIdle
<1>. QED BY <1>1, WorkerChanged

LEMMA DropOK ==
  ASSUME WorkersOK, FlowsGrow, nrecv \in Nat, nrecv' = nrecv,
         NEW w \in Tids, Drop(w) \/ Die
  PROVE  WorkersOK'
<1>1. CASE Drop(w)
  BY <1>1, IdleOK DEF Drop
<1>2. CASE Die
  BY <1>2, WorkersKept DEF Die
<1>. QED BY <1>1, <1>2

LEMMA PopWorkers ==
  ASSUME TunInv, FlowsGrow, NEW w \in Tids, Pop(w)
  PROVE  WorkersOK'
<1>. PICK r : r = [pc |-> "range", pkt |-> Head(q[w]), flow |-> wk[w].flow]
  OBVIOUS
<1>1. /\ nrecv \in Nat /\ nrecv' = nrecv /\ WorkersOK
      /\ q[w] \in Seq(Arrived) /\ q[w] # <<>>
  BY DEF TunInv, QueuesOK, Pop
<1>2. Head(q[w]) \in Arrived /\ Arrived' = Arrived
  BY <1>1, HeadTailProperties DEF Arrived
<1>3. wk[w].flow \in {NoFlow} \cup DOMAIN flow'
  BY <1>1 DEF WorkersOK, WorkerOK, FlowsGrow
<1>4. WorkerOK(r)'
  BY <1>2, <1>3 DEF WorkerOK
<1>5. /\ wk[w] = [pc |-> wk[w].pc, pkt |-> wk[w].pkt, flow |-> wk[w].flow]
      /\ DOMAIN wk = Tids
  BY <1>1 DEF WorkersOK, WorkerOK
<1>6. /\ DOMAIN wk' = Tids
      /\ wk'[w] = [[wk[w] EXCEPT !.pc = "range"] EXCEPT !.pkt = Head(q[w])]
      /\ \A x \in Tids : x # w => wk'[x] = wk[x]
      /\ wk' = [x \in DOMAIN wk' |-> wk'[x]]
  BY <1>5 DEF Pop
<1>7. wk' = [wk EXCEPT ![w] = r]
  BY <1>5, <1>6
<1>. QED BY <1>1, <1>4, <1>7, WorkerChanged

LEMMA EnterWorkers ==
  ASSUME TunInv, FlowsGrow, NEW w \in Tids, Enter4(w)
  PROVE  WorkersOK'
<1>0. CASE Die
  BY <1>0, WorkersKept DEF TunInv, Enter4, Die
<1>1. /\ nrecv \in Nat /\ nrecv' = nrecv /\ WorkersOK
      /\ wk[w].pc = "range" /\ wk[w].pkt.v = 4
  BY DEF TunInv, Enter4, At
<1>2. \A x \in Racing(w) : x \in Tids /\ wk[x].pc \in {"inmap", "torn"}
  BY DEF Racing, InMapPool
<1>3. ASSUME NEW x \in Tids, EnterMapPool(w) PROVE WorkerOK(wk[x])'
  <2>1. WorkerOK(wk[x])
    BY <1>1 DEF WorkersOK
  <2>2. CASE wk'[x] = wk[x]
    BY <1>1, <2>1, <2>2, WorkerOKStable
  <2>3. CASE \E c \in {"inmap", "torn"} : wk'[x] = [wk[x] EXCEPT !.pc = c]
    <3>1. wk[x].pc # "idle" /\ wk[x].pkt.v = 4
      <4>1. x = w \/ x \in Racing(w) \/ wk'[x] = wk[x]
        BY <1>3 DEF EnterMapPool
      <4>. QED BY <1>1, <1>2, <2>1, <2>3, <4>1 DEF WorkerOK
    <3>2. Arrived' = Arrived /\ DOMAIN flow \subseteq DOMAIN flow'
      BY <1>1 DEF Arrived, FlowsGrow
    <3>. QED BY <2>1, <2>3, <3>1, <3>2 DEF WorkerOK
  <2>4. wk'[x] = wk[x] \/ \E c \in {"inmap", "torn"} : wk'[x] = [wk[x] EXCEPT !.pc = c]
    BY <1>3 DEF EnterMapPool
  <2>. QED BY <2>2, <2>3, <2>4
<1>4. ASSUME EnterMapPool(w) PROVE wk' = [x \in Tids |-> wk'[x]]
  BY <1>4 DEF EnterMapPool
<1>5. EnterMapPool(w) => WorkersOK'
  BY <1>3, <1>4 DEF WorkersOK
<1>. QED BY <1>0, <1>5 DEF Enter4

(* The checks of translate.                                                *)
LEMMA FilterWorkers ==
  ASSUME TunInv, FlowsGrow, NEW w \in Tids, Filter6(w) \/ Filter4(w)
  PROVE  WorkersOK'
<1>1. nrecv \in Nat /\ nrecv' = nrecv /\ WorkersOK /\ WorkerOK(wk[w])
  BY DEF TunInv, WorkersOK, Filter6, Filter4
<1>2. Arrived' = Arrived
  BY <1>1 DEF Arrived
<1>3. CASE Drop(w) \/ Die
  BY <1>1, <1>3, DropOK
<1>4. CASE Filter6(w) /\ Goto(w, "map", NoFlow)
  <2>. PICK r : r = [pc |-> "map", pkt |-> wk[w].pkt, flow |-> NoFlow]
    OBVIOUS
  <2>1. /\ wk[w].pkt \in Arrived /\ wk[w].pkt.v = 6
        /\ wk[w].pkt.dst6.net = Prefix \/ Drop(w) \/ Die
    BY <1>1, <1>4 DEF Filter6, At, WorkerOK, AddrInRange6
  <2>2. CASE wk[w].pkt.dst6.net = Prefix
    <3>1. WorkerOK(r)'
      BY <1>2, <2>1, <2>2 DEF WorkerOK
    <3>. QED BY <1>1, <1>4, <3>1, GotoOK
  <2>. QED BY <1>3, <2>1, <2>2
<1>5. CASE Filter4(w) /\ Goto(w, "get", NoFlow)
  <2>. PICK r : r = [pc |-> "get", pkt |-> wk[w].pkt, flow |-> NoFlow]
    OBVIOUS
  <2>1. wk[w].pkt \in Arrived /\ wk[w].pkt.v = 4
    BY <1>1, <1>5 DEF Filter4, InMapPool, WorkerOK
  <2>2. WorkerOK(r)'
    BY <1>2, <2>1 DEF WorkerOK
  <2>. QED BY <1>1, <1>5, <2>2, GotoOK
<1>. QED BY <1>3, <1>4, <1>5 DEF Filter6, Filter4

(* The flow doMapping returns exists once it has returned.                 *)
LEMMA MappingResultIsFlow ==
  ASSUME SMInv, NEW k \in Keys, DoMapping(k), MappingResult(k) # NoFlow
  PROVE  MappingResult(k) \in DOMAIN flow'
<1>1. CASE Has64(k)
  <2>1. At64(k) \in DOMAIN flow
    BY <1>1 DEF SMInv, SMTypeOK, Has64, At64
  <2>2. flow' = flow
    BY <1>1 DEF DoMapping
  <2>. QED BY <1>1, <2>1, <2>2 DEF MappingResult
<1>2. CASE ~Has64(k)
  <2>1. pool # <<>> /\ CreateMapping(k) /\ MappingResult(k) = Len(flow) + 1
    BY <1>2 DEF MappingResult, DoMapping
  <2>. DEFINE n == Len(flow) + 1
  <2>2. n \in Nat \ {0} /\ DOMAIN flow' = 1 .. n
    BY <1>2, <2>1, CreateMappingFacts
  <2>. QED BY <2>1, <2>2
<1>. QED BY <1>1, <1>2

(* begin, for packets of clients.                                          *)
LEMMA Begin6Workers ==
  ASSUME TunInv, FlowsGrow, NEW w \in Tids, Map6(w) \/ ReadTid(w) \/ Claim(w)
  PROVE  WorkersOK'
<1>1. /\ nrecv \in Nat /\ nrecv' = nrecv /\ WorkersOK /\ WorkerOK(wk[w]) /\ SMInv
      /\ wk[w].pc \in {"map", "tid", "claim"}
  BY DEF TunInv, WorkersOK, Map6, ReadTid, Claim, At
<1>2. /\ Arrived' = Arrived /\ wk[w].pkt \in Arrived
      /\ wk[w].pkt.v = 6 /\ wk[w].pkt.dst6.net = Prefix
  BY <1>1 DEF Arrived, WorkerOK
<1>3. ASSUME NEW pc \in {"tid", "claim", "send"}, NEW f \in DOMAIN flow',
             f # NoFlow, Goto(w, pc, f)
      PROVE  WorkersOK'
  <2>. PICK r : r = [pc |-> pc, pkt |-> wk[w].pkt, flow |-> f]
    OBVIOUS
  <2>1. WorkerOK(r)'
    BY <1>2, <1>3 DEF WorkerOK
  <2>. QED BY <1>1, <1>3, <2>1, GotoOK
<1>4. CASE Map6(w)
  <2>. DEFINE k == Key64Pkt(wk[w].pkt)
  <2>1. wk[w].pc = "map" /\ DoMapping(k) /\ k \in Keys
    BY <1>2, <1>4, <1>1, KeyFacts DEF Map6, At
  <2>2. CASE MappingResult(k) # NoFlow /\ Goto(w, "tid", MappingResult(k))
    <3>1. MappingResult(k) \in DOMAIN flow'
      BY <1>1, <2>1, <2>2, MappingResultIsFlow
    <3>. QED BY <1>3, <2>2, <3>1
  <2>3. CASE Die
    BY <1>1, <2>3, DropOK
  <2>. QED BY <1>4, <2>2, <2>3 DEF Map6
<1>5. CASE ReadTid(w) \/ Claim(w)
  <2>1. /\ wk[w].flow \in DOMAIN flow /\ wk[w].flow # NoFlow
        /\ wk[w].flow \in DOMAIN flow'
    BY <1>1, <1>5 DEF ReadTid, Claim, At, WorkerOK, FlowsGrow
  <2>2. Goto(w, "claim", wk[w].flow) \/ Goto(w, "send", wk[w].flow)
    BY <1>5 DEF ReadTid, Claim
  <2>. QED BY <1>3, <2>1, <2>2
<1>. QED BY <1>4, <1>5

(* begin, for packets of servers: the flow found is open to that server.   *)
LEMMA Begin4Workers ==
  ASSUME TunInv, FlowsGrow, NEW w \in Tids, Begin4(w)
  PROVE  WorkersOK'
<1>. DEFINE f == GetMapping46(Key46Pkt(wk[w].pkt))
<1>1. /\ nrecv \in Nat /\ nrecv' = nrecv /\ WorkersOK /\ WorkerOK(wk[w]) /\ SMInv
      /\ wk[w].pc = "get" /\ flow' = flow
  BY DEF TunInv, WorkersOK, Begin4, At, smVars
<1>2. Arrived' = Arrived /\ wk[w].pkt \in Arrived /\ wk[w].pkt.v = 4
  BY <1>1 DEF Arrived, WorkerOK
<1>3. CASE f # NoFlow /\ Goto(w, "send", f)
  <2>1. Key46Pkt(wk[w].pkt) \in DOMAIN map46 /\ f = map46[Key46Pkt(wk[w].pkt)]
    BY <1>3 DEF GetMapping46
  <2>2. f \in DOMAIN flow /\ Key46Of(flow[f]) = Key46Pkt(wk[w].pkt)
    BY <1>1, <2>1 DEF SMInv, SMTypeOK, Map46Inverse
  <2>3. flow[f].ip4srv = wk[w].pkt.src4.ip
    BY <2>2 DEF Key46Of, Key46Pkt
  <2>. PICK r : r = [pc |-> "send", pkt |-> wk[w].pkt, flow |-> f]
    OBVIOUS
  <2>4. WorkerOK(r)'
    BY <1>1, <1>2, <1>3, <2>2, <2>3 DEF WorkerOK
  <2>. QED BY <1>1, <1>3, <2>4, GotoOK
<1>4. CASE Drop(w)
  BY <1>1, <1>4, DropOK
<1>. QED BY <1>3, <1>4 DEF Begin4

LEMMA WorkersStep ==
  ASSUME TunInv, FlowsGrow, TunNext
  PROVE  WorkersOK'
<1>1. WorkersOK /\ nrecv \in Nat
  BY DEF TunInv
<1>2. CASE Receive
  BY <1>1, <1>2, WorkersKept DEF Receive
<1>3. CASE Pick \/ Push
  <2>1. wk' = wk /\ nrecv' = nrecv
    BY <1>3 DEF Pick, Push
  <2>. QED BY <1>1, <2>1, WorkersKept
<1>4. ASSUME NEW w \in Tids, Send(w) PROVE WorkersOK'
  <2>1. nrecv' = nrecv
    BY <1>4 DEF Send
  <2>2. wk' = [wk EXCEPT ![w] = WorkerIdle] \/ Die
    BY <1>4 DEF Send, Drop
  <2>. QED BY <1>1, <2>1, <2>2, IdleOK, DropOK
<1>5. ASSUME NEW w \in Tids, Worker(w) PROVE WorkersOK'
  <2>1. CASE Pop(w) \/ Enter4(w)
    BY <2>1, PopWorkers, EnterWorkers
  <2>2. CASE Filter6(w) \/ Filter4(w)
    BY <2>2, FilterWorkers
  <2>3. CASE Map6(w) \/ ReadTid(w) \/ Claim(w)
    BY <2>3, Begin6Workers
  <2>4. CASE Begin4(w)
    BY <2>4, Begin4Workers
  <2>. QED BY <1>4, <1>5, <2>1, <2>2, <2>3, <2>4 DEF Worker
<1>. QED BY <1>2, <1>3, <1>5 DEF TunNext
-----------------------------------------------------------------------------
(* What arrives is a packet of a client or a server.                       *)
LEMMA ArrivalsTyped ==
  ASSUME SentOK, nrecv \in Nat, NEW p \in Arrivals
  PROVE  p \in Pkt6 \cup Pkt4 /\ p.id = nrecv + 1
<1>1. CASE \E c \in Clients : p = ClientPacket(c)
  <2>1. PICK c \in Clients : p = ClientPacket(c)
    BY <1>1
  <2>2. /\ c \in [src6 : IP6Port, dst6 : IPv6Addr, dport : Nat, l4 : Proto]
        /\ c.dst6.net = Prefix => [cli |-> c.src6, srv |-> c.dst6] \in Keys
    BY TrafficAssumption
  <2>. QED BY <2>1, <2>2 DEF ClientPacket, Pkt6, Key64Pkt
<1>2. CASE \E s \in Replies \cup Strays : p = ServerPacket(s)
  <2>1. PICK s \in Replies \cup Strays : p = ServerPacket(s)
    BY <1>2
  <2>2. CASE s \in Strays
    <3>1. s \in [src4 : IP4Port, dst4 : IP4Port, l4 : Proto] /\ s.dst4.ip \in Dest4
      BY <2>2, TrafficAssumption
    <3>. QED BY <2>1, <3>1 DEF ServerPacket, Pkt4
  <2>3. CASE s \in Replies
    <3>1. PICK x \in sent :
            x.v = 4 /\ s = [src4 |-> x.dst4, dst4 |-> x.src4, l4 |-> x.l4]
      BY <2>3 DEF Replies
    <3>2. x \in ToServers
      BY <3>1 DEF SentOK, ToClients
    <3>3. /\ s \in [src4 : IP4Port, dst4 : IP4Port, l4 : Proto]
          /\ s.dst4.ip \in Dest4
      BY <3>1, <3>2, TrafficAssumption DEF ToServers
    <3>. QED BY <2>1, <3>3 DEF ServerPacket, Pkt4
  <2>. QED BY <2>1, <2>2, <2>3
<1>. QED BY <1>1, <1>2 DEF Arrivals

(* The main thread's packet, flow and choice of a queue.                   *)
LEMMA PickTidsTyped ==
  ASSUME SMTypeOK, MainOK, main.pc = "pick"
  PROVE  PickTids(main.pkt, main.flow) \subseteq Tids
<1>1. /\ main.pkt \in Arrived /\ main.flow \in {NoFlow} \cup DOMAIN flow
  BY DEF MainOK
<1>2. HashTids(main.pkt) \subseteq Tids
  <2>1. PortT(main.pkt) \in Nat
    <3>1. CASE main.pkt \in Pkt6
      BY <3>1 DEF PortT, Pkt6, IP6Port
    <3>2. CASE main.pkt \in Pkt4
      BY <3>2 DEF PortT, Pkt4, IP4Port
    <3>. QED BY <1>1, <3>1, <3>2 DEF Arrived
  <2>2. PortT(main.pkt) % T \in Tids
    BY <2>1, ThreadsAssumption DEF Tids
  <2>. QED BY <2>2 DEF HashTids
<1>3. ASSUME main.flow \in DOMAIN flow, flow[main.flow].tid >= 0
      PROVE  flow[main.flow].tid \in Tids
  <2>1. flow[main.flow] \in FlowType
    BY <1>3, LenProperties, ElementOfSeq DEF SMTypeOK
  <2>. QED BY <1>3, <2>1 DEF FlowType, NoTid
<1>. QED BY <1>1, <1>2, <1>3 DEF PickTids

LEMMA MainStep ==
  ASSUME TunInv, SMInv', FlowsGrow, TunNext
  PROVE  MainOK'
<1>1. MainOK /\ SMTypeOK /\ SentOK /\ nrecv \in Nat
  BY DEF TunInv, SMInv
<1>2. CASE Receive
  <2>1. PICK p \in Arrivals :
          main' = [main EXCEPT !.pc = "pick", !.pkt = p, !.flow = GetFlow(p)]
    BY <1>2 DEF Receive
  <2>2. /\ nrecv' = nrecv + 1 /\ flow' = flow
    BY <1>2 DEF Receive, smVars
  <2>3. p \in Arrived'
    BY <1>1, <2>2, ArrivalsTyped DEF Arrived
  <2>4. GetFlow(p) \in {NoFlow} \cup DOMAIN flow
    BY <1>1, LookupTypes DEF GetFlow
  <2>5. main.tid \in Tids \cup {NoTid}
    BY <1>1 DEF MainOK
  <2>6. main' = [pc |-> "pick", pkt |-> p, flow |-> GetFlow(p), tid |-> main.tid]
    BY <1>1, <2>1 DEF MainOK
  <2>. HIDE DEF GetFlow
  <2>. QED BY <2>2, <2>3, <2>4, <2>5, <2>6 DEF MainOK
<1>3. CASE Pick
  <2>1. main.pc = "pick" /\ flow' = flow /\ nrecv' = nrecv
    BY <1>3 DEF Pick, smVars
  <2>2. PICK t \in Tids : main' = [main EXCEPT !.pc = "push", !.tid = t]
    BY <1>1, <1>3, <2>1, PickTidsTyped DEF Pick
  <2>3. Arrived' = Arrived
    BY <2>1 DEF Arrived
  <2>4. main' = [pc |-> "push", pkt |-> main.pkt, flow |-> main.flow, tid |-> t]
    BY <1>1, <2>2 DEF MainOK
  <2>. QED BY <1>1, <2>1, <2>3, <2>4 DEF MainOK
<1>4. CASE Push
  BY <1>4 DEF Push, MainOK, MainIdle
<1>5. ASSUME NEW w \in Tids, Worker(w) PROVE MainOK'
  <2>1. main' = main /\ nrecv' = nrecv
    BY <1>5 DEF Worker, Pop, Filter6, Enter4, Filter4, Map6, ReadTid, Claim,
                Begin4, Send
  <2>. QED BY <1>1, <2>1, MainOKStable
<1>. QED BY <1>2, <1>3, <1>4, <1>5 DEF TunNext

(* The queues: only the main thread appends, after its wait.               *)
LEMMA QueuesStep ==
  ASSUME TunInv, TunNext
  PROVE  QueuesOK'
<1>1. QueuesOK /\ MainOK /\ nrecv \in Nat
  BY DEF TunInv
<1>2. ASSUME NEW t \in Tids
      PROVE  q[t] \in Seq(Arrived) /\ Len(q[t]) \in Nat /\ Len(q[t]) <= QMAX + 1
  BY <1>1, LenProperties DEF QueuesOK, QueueBound
<1>3. ASSUME Arrived \subseteq Arrived', q' = q
      PROVE  QueuesOK'
  <2>1. \A t \in Tids : q'[t] \in Seq(Arrived')
    BY <1>2, <1>3, SeqMonotonic
  <2>. QED BY <1>1, <1>3, <2>1 DEF QueuesOK, QueueBound
<1>4. CASE Receive
  BY <1>1, <1>3, <1>4 DEF Receive, Arrived
<1>5. CASE Push
  <2>. DEFINE t == main.tid
  <2>1. t \in Tids /\ main.pkt \in Arrived /\ Arrived' = Arrived
    BY <1>1, <1>5 DEF Push, MainOK, Arrived
  <2>2. ~(Len(q[t]) > QMAX) /\ q' = [q EXCEPT ![t] = Append(@, main.pkt)]
    BY <1>5 DEF Push
  <2>3. /\ Append(q[t], main.pkt) \in Seq(Arrived)
        /\ Len(Append(q[t], main.pkt)) = Len(q[t]) + 1
    BY <1>2, <2>1
  <2>4. Len(q[t]) + 1 <= QMAX + 1
    BY <1>2, <2>1, <2>2, QueueAssumption
  <2>. HIDE DEF t
  <2>. QED BY <1>1, <1>2, <2>1, <2>2, <2>3, <2>4 DEF QueuesOK, QueueBound
<1>6. ASSUME NEW w \in Tids, Pop(w) PROVE QueuesOK'
  <2>1. /\ q[w] # <<>> /\ q' = [q EXCEPT ![w] = Tail(@)] /\ Arrived' = Arrived
    BY <1>6 DEF Pop, Arrived
  <2>2. Tail(q[w]) \in Seq(Arrived) /\ Len(Tail(q[w])) = Len(q[w]) - 1
    BY <1>2, <2>1, HeadTailProperties
  <2>3. Len(q[w]) - 1 <= QMAX + 1
    BY <1>2, QueueAssumption
  <2>. QED BY <1>1, <1>2, <2>1, <2>2, <2>3 DEF QueuesOK, QueueBound
<1>7. ASSUME NEW w \in Tids, Worker(w), ~Pop(w) PROVE QueuesOK'
  <2>1. q' = q /\ nrecv' = nrecv
    BY <1>7 DEF Worker, Filter6, Enter4, Filter4, Map6, ReadTid, Claim,
                Begin4, Send
  <2>. QED BY <1>3, <2>1 DEF Arrived
<1>8. CASE Pick
  BY <1>3, <1>8 DEF Pick, Arrived
<1>. QED BY <1>4, <1>5, <1>6, <1>7, <1>8 DEF TunNext
-----------------------------------------------------------------------------
(* What Send gives to the socket: from the pool to a server, or from the   *)
(* flow's server to its client.                                            *)
LEMMA TranslatedTyped ==
  ASSUME TunInv, NEW w \in Tids, wk[w].pc = "send"
  PROVE  LET s == Translated(wk[w].pkt, wk[w].flow)
             f == wk[w].flow
         IN  /\ f \in DOMAIN flow
             /\ wk[w].pkt.v = 6 => s \in ToServers
             /\ wk[w].pkt.v # 6 => /\ s \in ToClients
                                   /\ s.dst6 = flow[f].ip6p
                                   /\ s.src6.ip = flow[f].ip6srv
<1>. DEFINE p == wk[w].pkt
            f == wk[w].flow
            s == Translated(p, f)
<1>1. /\ WorkerOK(wk[w]) /\ SMTypeOK /\ PoolIsRest /\ ServersOK
  BY DEF TunInv, WorkersOK, SMInv
<1>2. f \in DOMAIN flow
  BY <1>1 DEF WorkerOK
<1>3. flow[f] \in FlowType /\ flow[f].ip4p.ip = PoolAddr
  <2>1. flow[f] \in FlowType
    BY <1>1, <1>2, LenProperties, ElementOfSeq DEF SMTypeOK
  <2>2. flow[f].ip4p = [ip |-> PoolAddr, port |-> MinPort + f - 1]
    BY <1>1, <1>2 DEF PoolIsRest
  <2>. QED BY <2>1, <2>2
<1>4. p \in Pkt6 \/ p \in Pkt4
  BY <1>1 DEF WorkerOK, Arrived
<1>5. ASSUME p.v = 6 PROVE s \in ToServers
  <2>1. p \in Pkt6
    BY <1>4, <1>5 DEF Pkt4
  <2>2. s = [id |-> p.id, v |-> 4, l4 |-> p.l4, src4 |-> flow[f].ip4p,
             dst4 |-> [ip |-> p.dst6.low, port |-> p.dport]]
    BY <1>5 DEF Translated, ServerAddr4
  <2>3. /\ p.id \in Nat /\ p.l4 \in Proto /\ flow[f].ip4p \in IP4Port
        /\ [ip |-> p.dst6.low, port |-> p.dport] \in IP4Port
    BY <2>1, <1>3 DEF Pkt6, IPv6Addr, IP4Port, FlowType
  <2>. HIDE DEF s, p, f
  <2>. QED BY <1>3, <2>2, <2>3 DEF ToServers
<1>6. ASSUME p.v # 6
      PROVE  s \in ToClients /\ s.dst6 = flow[f].ip6p /\ s.src6.ip = flow[f].ip6srv
  <2>1. p \in Pkt4 /\ p.v = 4
    BY <1>4, <1>6 DEF Pkt6, Pkt4
  <2>2. s = [id |-> p.id, v |-> 6, l4 |-> p.l4, dst6 |-> flow[f].ip6p,
             src6 |-> [ip |-> ServerAddr6(p.src4.ip), port |-> p.src4.port]]
    BY <1>6 DEF Translated
  <2>3. /\ p.id \in Nat /\ p.l4 \in Proto /\ flow[f].ip6p \in IP6Port
        /\ p.src4.ip \in Nat /\ p.src4.port \in Nat
    BY <2>1, <1>3 DEF Pkt4, IP4Port, FlowType
  <2>4. [ip |-> ServerAddr6(p.src4.ip), port |-> p.src4.port] \in IP6Port
    BY <2>3, PoolAssumption DEF ServerAddr6, IP6Port, IPv6Addr
  <2>5. flow[f].ip4srv = p.src4.ip
    BY <1>1, <2>1 DEF WorkerOK
  <2>6. flow[f].ip6srv = ServerAddr6(p.src4.ip)
    BY <1>1, <1>2, <2>5 DEF ServersOK
  <2>. HIDE DEF s, p, f
  <2>. QED BY <2>2, <2>3, <2>4, <2>6 DEF ToClients
<1>. QED BY <1>2, <1>5, <1>6

LEMMA SentStep ==
  ASSUME TunInv, FlowsGrow, TunNext
  PROVE  SentOK'
<1>1. SentOK
  BY DEF TunInv
<1>2. CASE sent' = sent
  BY <1>1, <1>2, SentOKStable
<1>3. ASSUME NEW w \in Tids, wk[w].pc = "send", flow' = flow,
             sent' = sent \cup {Translated(wk[w].pkt, wk[w].flow)}
      PROVE  SentOK'
  <2>. DEFINE s == Translated(wk[w].pkt, wk[w].flow)
              f == wk[w].flow
  <2>1. /\ f \in DOMAIN flow
        /\ \/ s \in ToServers
           \/ /\ s \in ToClients
              /\ s.dst6 = flow[f].ip6p
              /\ s.src6.ip = flow[f].ip6srv
    BY <1>3, TranslatedTyped
  <2>2. ToServers' = ToServers /\ ToClients' = ToClients
    BY DEF ToServers, ToClients
  <2>3. sent' \subseteq ToServers \cup ToClients
    BY <1>1, <1>3, <2>1 DEF SentOK
  <2>4. s.v = 6 => s.dst6 = flow[f].ip6p /\ s.src6.ip = flow[f].ip6srv
    BY <2>1 DEF ToServers
  <2>5. SentByBinding'
    <3>. HIDE DEF s, f
    <3>1. sent' = sent \cup {s}
      BY <1>3 DEF s, f
    <3>. QED BY <1>1, <1>3, <2>1, <2>4, <3>1 DEF SentOK, SentByBinding
  <2>. QED BY <2>3, <2>5 DEF SentOK
<1>4. CASE Receive \/ Pick \/ Push
  BY <1>2, <1>4 DEF Receive, Pick, Push
<1>5. ASSUME NEW w \in Tids, Worker(w), ~Send(w) PROVE SentOK'
  BY <1>2, <1>5 DEF Worker, Pop, Filter6, Enter4, Filter4, Map6, ReadTid, Claim,
                    Begin4
<1>6. ASSUME NEW w \in Tids, Send(w) PROVE SentOK'
  <2>1. wk[w].pc = "send" /\ flow' = flow
    BY <1>6 DEF Send, At, SetCurIPv6SrvAddr, smVars
  <2>. QED BY <1>2, <1>3, <1>6, <2>1 DEF Send
<1>. QED BY <1>4, <1>5, <1>6 DEF TunNext
-----------------------------------------------------------------------------
(* A foreign address, once seen, is seen for ever: the worker that looks   *)
(* it up enters it into map_pool_.                                         *)
LEMMA ForeignStays ==
  ASSUME TunInv, TunNext, ForeignSeen
  PROVE  ForeignSeen'
<1>1. PoolAddr \in DOMAIN mapPool /\ WorkersOK
  BY DEF TunInv, TornOK
<1>2. CASE \E w \in Tids : Filter4(w)
  <2>1. PICK w \in Tids : Filter4(w)
    BY <1>2
  <2>2. DOMAIN mapPool' = DOMAIN mapPool \cup {wk[w].pkt.dst4.ip}
    BY <2>1 DEF Filter4, IsAddrInRange4, TouchMapPool
  <2>3. CASE DOMAIN mapPool # {PoolAddr}
    BY <1>1, <2>2, <2>3 DEF ForeignSeen
  <2>4. ASSUME NEW x \in Tids, InMapPool(x), wk[x].pkt.dst4.ip # PoolAddr
        PROVE  ForeignSeen'
    <3>1. CASE x = w
      BY <1>1, <2>2, <2>4, <3>1 DEF ForeignSeen
    <3>2. CASE x # w
      <4>1. wk'[x] = wk[x]
        BY <1>1, <2>1, <3>2 DEF WorkersOK, Filter4, Goto, Drop, Die
      <4>. QED BY <2>4, <4>1 DEF ForeignSeen, InMapPool
    <3>. QED BY <3>1, <3>2
  <2>. QED BY <2>3, <2>4 DEF ForeignSeen
<1>3. CASE mapPool' = mapPool
  <2>1. CASE DOMAIN mapPool # {PoolAddr}
    BY <1>3, <2>1 DEF ForeignSeen
  <2>2. ASSUME NEW x \in Tids, InMapPool(x), wk[x].pkt.dst4.ip # PoolAddr,
               ~ \E w \in Tids : Filter4(w)
        PROVE  ForeignSeen'
    <3>1. InMapPool(x)' /\ wk'[x].pkt = wk[x].pkt
      <4>1. CASE Receive \/ Pick \/ Push
        BY <2>2, <4>1 DEF Receive, Pick, Push, InMapPool
      <4>2. ASSUME NEW w \in Tids, Enter4(w)
            PROVE  InMapPool(x)' /\ wk'[x].pkt = wk[x].pkt
        <5>1. wk'[x] = wk[x] \/ \E c \in {"torn", "inmap"} : wk'[x] = [wk[x] EXCEPT !.pc = c]
          BY <4>2 DEF Enter4, EnterMapPool, Die
        <5>2. wk[x] = [pc |-> wk[x].pc, pkt |-> wk[x].pkt, flow |-> wk[x].flow]
          BY <1>1 DEF WorkersOK, WorkerOK
        <5>. QED BY <2>2, <5>1, <5>2 DEF InMapPool
      <4>3. ASSUME NEW w \in Tids, Worker(w), ~Enter4(w)
            PROVE  InMapPool(x)' /\ wk'[x].pkt = wk[x].pkt
        <5>1. x # w
          BY <2>2, <4>3 DEF Worker, InMapPool, Pop, Filter6, Map6, ReadTid,
                            Claim, Begin4, Send, At
        <5>2. wk'[x] = wk[x]
          BY <1>1, <2>2, <4>3, <5>1
             DEF WorkersOK, Worker, Pop, Filter6, Map6, ReadTid, Claim, Begin4,
                 Send, Goto, Drop, Die
        <5>. QED BY <2>2, <5>2 DEF InMapPool
      <4>. QED BY <4>1, <4>2, <4>3 DEF TunNext
    <3>. QED BY <2>2, <3>1 DEF ForeignSeen
  <2>. QED BY <1>2, <2>1, <2>2 DEF ForeignSeen
<1>4. mapPool' = mapPool \/ \E w \in Tids : Filter4(w)
  BY DEF TunNext, Receive, Pick, Push, Worker, Pop, Filter6, Enter4, Map6,
         ReadTid, Claim, Begin4, Send, smVars, DoMapping, SetTid,
         SetCurIPv6SrvAddr
<1>. QED BY <1>2, <1>3, <1>4

LEMMA TornStep ==
  ASSUME TunInv, TunNext
  PROVE  TornOK'
<1>1. TornOK /\ WorkersOK
  BY DEF TunInv
<1>2. PoolAddr \in DOMAIN mapPool'
  <2>1. CASE \E w \in Tids : Filter4(w)
    BY <1>1, <2>1 DEF TornOK, Filter4, IsAddrInRange4, TouchMapPool
  <2>2. CASE mapPool' = mapPool
    BY <1>1, <2>2 DEF TornOK
  <2>3. mapPool' = mapPool \/ \E w \in Tids : Filter4(w)
    BY DEF TunNext, Receive, Pick, Push, Worker, Pop, Filter6, Enter4, Map6,
           ReadTid, Claim, Begin4, Send, smVars, DoMapping, SetTid,
           SetCurIPv6SrvAddr
  <2>. QED BY <2>1, <2>2, <2>3
<1>3. CASE \E w \in Tids : wk[w].pc = "torn"
  BY <1>1, <1>2, <1>3, ForeignStays DEF TornOK
<1>4. ASSUME NEW w \in Tids, Enter4(w), \A x \in Tids : wk[x].pc # "torn",
             \E x \in Tids : wk'[x].pc = "torn"
      PROVE  ForeignSeen'
  <2>0. EnterMapPool(w)
    BY <1>4 DEF Enter4, Die
  <2>1. PICK x : x \in Racing(w)
    <3>1. CASE Racing(w) = {}
      BY <1>4, <2>0, <3>1 DEF EnterMapPool
    <3>. QED BY <3>1
  <2>2. PICK y \in {w, x} : wk[y].pkt.dst4.ip \notin DOMAIN mapPool
    BY <2>1 DEF Racing, Inserts
  <2>3. y \in Tids /\ wk'[y] = [wk[y] EXCEPT !.pc = "torn"]
    BY <1>4, <2>0, <2>1, <2>2 DEF EnterMapPool, Racing
  <2>4. wk[y] = [pc |-> wk[y].pc, pkt |-> wk[y].pkt, flow |-> wk[y].flow]
    BY <1>1, <2>3 DEF WorkersOK, WorkerOK
  <2>5. wk'[y].pc = "torn" /\ wk'[y].pkt.dst4.ip # PoolAddr
    BY <1>1, <2>2, <2>3, <2>4 DEF TornOK
  <2>. QED BY <2>3, <2>5 DEF ForeignSeen, InMapPool
<1>5. ASSUME \A w \in Tids : ~Enter4(w), \A x \in Tids : wk[x].pc # "torn",
             NEW x \in Tids
      PROVE  wk'[x].pc # "torn"
  <2>1. CASE Receive \/ Pick \/ Push
    BY <1>5, <2>1 DEF Receive, Pick, Push
  <2>2. ASSUME NEW w \in Tids, Worker(w) PROVE wk'[x].pc # "torn"
    <3>1. CASE x # w
      <4>1. wk'[x] = wk[x]
        BY <1>1, <1>5, <2>2, <3>1
           DEF WorkersOK, Worker, Pop, Filter6, Filter4, Map6, ReadTid, Claim,
               Begin4, Send, Goto, Drop, Die
      <4>. QED BY <1>5, <4>1
    <3>2. CASE x = w
      <4>1. /\ wk[w] = [pc |-> wk[w].pc, pkt |-> wk[w].pkt, flow |-> wk[w].flow]
            /\ DOMAIN wk = Tids
        BY <1>1 DEF WorkersOK, WorkerOK
      <4>2. \/ Pop(w) \/ Drop(w) \/ Die
            \/ \E pc \in {"map", "get", "tid", "claim", "send"} : \E f : Goto(w, pc, f)
            \/ wk' = [wk EXCEPT ![w] = WorkerIdle]
        BY <1>5, <2>2 DEF Worker, Filter6, Filter4, Map6, ReadTid, Claim,
                          Begin4, Send
      <4>. QED BY <1>5, <3>2, <4>1, <4>2 DEF Pop, Drop, Die, Goto, WorkerIdle
    <3>. QED BY <3>1, <3>2
  <2>. QED BY <2>1, <2>2 DEF TunNext
<1>. QED BY <1>2, <1>3, <1>4, <1>5 DEF TornOK

(* The timing maps: a label, once in them, stays, and only an insertion    *)
(* next to another worker can damage them.                                 *)
LEMMA StampStep ==
  ASSUME TunInv, TunNext
  PROVE  /\ stamped \subseteq stamped' /\ stamped' \subseteq Stamping
         /\ spoilt' \in BOOLEAN
         /\ spoilt' # spoilt => TwoStamping /\ stamped # Stamping
<1>0. stamped \subseteq Stamping /\ spoilt \in BOOLEAN
  BY Zenon DEF TunInv
<1>1. ASSUME NEW w \in Tids, wk[w].pc \in Stamping, Stamp(w)
      PROVE  /\ stamped \subseteq stamped' /\ stamped' \subseteq Stamping
             /\ spoilt' \in BOOLEAN
             /\ spoilt' # spoilt => TwoStamping /\ stamped # Stamping
  <2>1. stamped' = stamped \cup {wk[w].pc}
    BY <1>1 DEF Stamp
  <2>2. spoilt' \in BOOLEAN
    BY <1>0, <1>1, Zenon DEF Stamp
  <2>3. ASSUME spoilt' # spoilt PROVE Clashes(w)
    BY <1>0, <1>1, <2>3, Zenon DEF Stamp
  <2>4. ASSUME Clashes(w) PROVE TwoStamping /\ stamped # Stamping
    BY <1>1, <2>4 DEF Clashes, Adds, TwoStamping
  <2>. QED BY <1>0, <1>1, <2>1, <2>2, <2>3, <2>4
<1>2. CASE UNCHANGED timers
  BY <1>0, <1>2 DEF timers
<1>3. UNCHANGED timers \/ \E w \in Tids : wk[w].pc \in Stamping /\ Stamp(w)
  BY DEF TunNext, Receive, Pick, Push, Worker, Pop, Filter6, Enter4, Filter4,
         Map6, ReadTid, Claim, Begin4, Send, At, Stamping
<1>. QED BY <1>1, <1>2, <1>3

(* The only steps that can end the process, each with its cause.           *)
LEMMA CrashStep ==
  ASSUME TunInv, TunNext, crashed' # crashed
  PROVE  pool = <<>> \/ ForeignSeen \/ spoilt'
<1>1. TornOK /\ SMInv
  BY DEF TunInv
<1>2. ASSUME NEW w \in Tids, Filter4(w) PROVE ForeignSeen
  <2>1. wk[w].pc = "torn"
    BY <1>2 DEF Filter4, Goto, Drop
  <2>. QED BY <1>1, <2>1 DEF TornOK
<1>3. ASSUME NEW w \in Tids, Map6(w) PROVE pool = <<>>
  <2>. DEFINE k == Key64Pkt(wk[w].pkt)
  <2>1. MappingResult(k) = NoFlow
    BY <1>3 DEF Map6, Goto
  <2>2. Len(flow) + 1 # 0
    BY <1>1, LenProperties DEF SMInv, SMTypeOK
  <2>3. Has64(k) => At64(k) # 0
    BY <1>1, LenProperties DEF SMInv, SMTypeOK, Has64, At64
  <2>. QED BY <2>1, <2>2, <2>3 DEF MappingResult, NoFlow
<1>4. ASSUME NEW w \in Tids, Filter6(w) \/ Enter4(w) \/ Send(w) PROVE spoilt'
  <2>1. ~crashed
    BY <1>4 DEF Filter6, Enter4, Send, At
  <2>2. spoilt' \/ crashed' = crashed \/ crashed' \in {FALSE, spoilt'}
    BY <1>4, Zenon DEF Filter6, Enter4, Send, Goto, Drop, EnterMapPool
  <2>3. spoilt' \in BOOLEAN /\ crashed \in BOOLEAN
    BY StampStep, Zenon DEF TunInv
  <2>. QED BY <2>1, <2>2, <2>3, Zenon
<1>5. \E w \in Tids : \/ Filter4(w) \/ Map6(w)
                      \/ Filter6(w) \/ Enter4(w) \/ Send(w)
  BY DEF TunNext, Receive, Pick, Push, Worker, Pop, ReadTid, Claim, Begin4,
         Goto, Drop
<1>. QED BY <1>2, <1>3, <1>4, <1>5
-----------------------------------------------------------------------------
LEMMA TunInvNext == TunInv /\ [TunNext]_vars => TunInv'
<1>. SUFFICES ASSUME TunInv, [TunNext]_vars PROVE TunInv'
  OBVIOUS
<1>1. CASE TunNext
  <2>1. [SMNext]_smVars
    BY <1>1, StepRefines
  <2>2. SMInv' /\ FlowsGrow /\ ServersOK'
    BY <2>1, InvNext, FlowsGrowStep, ServersStep DEF TunInv
  <2>3. MainOK' /\ QueuesOK' /\ WorkersOK' /\ SentOK'
    BY <1>1, <2>2, MainStep, QueuesStep, WorkersStep, SentStep
  <2>4. TornOK' /\ stamped' \subseteq Stamping /\ spoilt' \in BOOLEAN
    BY <1>1, TornStep, StampStep
  <2>5. nrecv' \in 0 .. MaxPkts
    <3>1. nrecv' = nrecv \/ (nrecv' = nrecv + 1 /\ nrecv < MaxPkts)
      BY <1>1 DEF TunNext, Receive, Pick, Push, Worker, Pop, Filter6, Enter4,
                  Filter4, Map6, ReadTid, Claim, Begin4, Send
    <3>. QED BY <3>1, QueueAssumption DEF TunInv
  <2>6. crashed' \in BOOLEAN
    <3>1. crashed \in BOOLEAN /\ spoilt' \in BOOLEAN
      BY <1>1, StampStep, Zenon DEF TunInv
    <3>2. crashed' = crashed \/ crashed' = TRUE \/ crashed' \in {FALSE, spoilt'}
      BY <1>1, Zenon DEF TunNext, Receive, Pick, Push, Worker, Pop, Filter6,
                         Enter4, EnterMapPool, Filter4, Map6, ReadTid, Claim,
                         Begin4, Send, Goto, Drop, Die
    <3>. QED BY <3>1, <3>2, Zenon
  <2>. QED BY <2>2, <2>3, <2>4, <2>5, <2>6 DEF TunInv
<1>2. CASE UNCHANGED vars
  BY <1>2
     DEF vars, smVars, tunVars, TunInv, SMInv, SMTypeOK, Map64Inverse, Map46Inverse,
         OnePerClientPort, PoolIsRest, ServersOK, MainOK, QueuesOK, QueueBound,
         Arrived, WorkersOK, WorkerOK, SentOK, SentByBinding, TornOK,
         ForeignSeen, InMapPool, timers
<1>. QED BY <1>1, <1>2

LEMMA TunInvAlways == TunSpec => []TunInv
<1>. QED BY TunInvInit, TunInvNext, PTL DEF TunSpec

(* The threads' state keeps its types; in particular a worker that uses a  *)
(* flow has one, and a packet is pushed to a queue that exists             *)
(* (tun.h:33-52, 96-123; nat.cc:72-175).                                   *)
THEOREM TunTypeCorrect == TunSpec => []TunTypeOK
<1>1. ASSUME TunInv PROVE TunTypeOK
  <2>1. /\ main.pc \in {"read", "pick", "push"}
        /\ main.flow \in {NoFlow} \cup DOMAIN flow
        /\ main.tid \in Tids \cup {NoTid} /\ (main.pc = "push" => main.tid \in Tids)
    BY <1>1 DEF TunInv, MainOK
  <2>2. /\ nrecv \in 0 .. MaxPkts /\ crashed \in BOOLEAN
        /\ stamped \subseteq Stamping /\ spoilt \in BOOLEAN
    BY <1>1, Zenon DEF TunInv
  <2>3. ASSUME NEW t \in Tids
        PROVE  /\ wk[t].pc \in {"idle", "range", "inmap", "torn", "map", "get",
                                "tid", "claim", "send"}
               /\ wk[t].flow \in {NoFlow} \cup DOMAIN flow
               /\ wk[t].pc \in {"tid", "claim", "send"} => wk[t].flow # NoFlow
               /\ \A p \in AtWorker(t) : p.id \in 1 .. nrecv
    <3>1. WorkerOK(wk[t])
      BY <1>1 DEF TunInv, WorkersOK
    <3>2. \A p \in InQueue(t) : p \in Arrived
      <4>1. q[t] \in Seq(Arrived)
        BY <1>1 DEF TunInv, QueuesOK
      <4>. QED BY <4>1, LenProperties, ElementOfSeq DEF InQueue
    <3>3. \A p \in InHand(t) : p \in Arrived
      BY <3>1 DEF InHand, WorkerOK
    <3>. QED BY <3>1, <3>2, <3>3 DEF WorkerOK, AtWorker, Arrived
  <2>. QED BY <2>1, <2>2, <2>3 DEF TunTypeOK
<1>. QED BY <1>1, TunInvAlways, PTL

(* No queue ever holds more than QMAX + 1 packets, however many workers    *)
(* there are and however slow (tun.h:115-121).                             *)
THEOREM QueuesBounded == TunSpec => []QueueBound
<1>1. TunInv => QueueBound
  BY DEF TunInv, QueuesOK
<1>. QED BY <1>1, TunInvAlways, PTL

(* A client hears only the server its flow was opened to, for any traffic  *)
(* and any interleaving of the workers (nat.cc:169-173, 190-213).          *)
THEOREM SentByBindings == TunSpec => []SentByBinding
<1>1. TunInv => SentByBinding
  BY DEF TunInv, SentOK
<1>. QED BY <1>1, TunInvAlways, PTL

(* The process dies of an empty pool, of an address that is not the        *)
(* gateway's or of damaged timing maps, and of nothing else; and the       *)
(* timing maps are damaged only by two workers at once, before every label *)
(* is in (nat.cc:161-162, state.cc:175-178, state.h:68-79).                *)
THEOREM OnlyThreeCrashCauses == TunSpec => CrashCauses
<1>. DEFINE A == /\ crashed' # crashed => pool = <<>> \/ ForeignSeen \/ spoilt'
                 /\ spoilt' # spoilt => TwoStamping /\ stamped # Stamping
<1>1. TunInv /\ [TunNext]_vars => [A]_vars
  BY CrashStep, StampStep
<1>. QED BY <1>1, TunInvAlways, PTL DEF TunSpec, CrashCauses

(* The detailed system implements the abstract one: whatever the threads   *)
(* do, the shared state changes by whole operations of StateManager called *)
(* with legal arguments (state.cc:72-121, nat.cc:157-175).                 *)
THEOREM ThreadsImplementStateManager == TunSpec => StateManagerImplemented
<1>1. TunInit => SMInit
  BY DEF TunInit
<1>. QED
  BY <1>1, StepRefines, TunInvAlways, PTL
     DEF TunSpec, SMSpec, StateManagerImplemented

(* Hence what is proved of the shared state alone holds of the gateway: no *)
(* interleaving of workers moves a binding (state.cc:72-121, nat.cc:163).  *)
THEOREM GatewayKeepsBindings == TunSpec => BindingStable /\ []TablesAgree /\ []PoolConserved
<1>. QED
  BY ThreadsImplementStateManager, BindingsNeverMove, TablesAlwaysAgree,
     PoolAlwaysConserved, PTL DEF StateManagerImplemented
-----------------------------------------------------------------------------
(***************************************************************************)
(* Who holds a packet.  OnceInv: the packets of a worker stand in the      *)
(* order they came, the main thread has the newest, and a packet is in one *)
(* place only.                                                             *)
(***************************************************************************)
(* The main thread and idle workers: who has a packet, and the newest.     *)
HandsOK ==
  /\ main.pc = "read" => main.pkt = NoPkt
  /\ main.pc # "read" => main.pkt.id = nrecv
  /\ \A t \in Tids : wk[t].pc = "idle" => wk[t].pkt = NoPkt

(* A worker gets its packets in the order they came.                       *)
LinesOK ==
  \A t \in Tids :
    /\ \A m, n \in DOMAIN q[t] : m < n => q[t][m].id < q[t][n].id
    /\ \A n \in DOMAIN q[t] : wk[t].pc # "idle" => wk[t].pkt.id < q[t][n].id
    /\ \A p \in AtWorker(t) : main.pc # "read" => p.id < nrecv

(* A packet is nowhere else than where it is.                              *)
Gone(i) == i \in dropped \/ \E s \in sent : s.id = i

Apart ==
  /\ \A t, u \in Tids : \A p \in AtWorker(t), r \in AtWorker(u) :
       p.id = r.id => t = u
  /\ \A p \in InFlight : ~Gone(p.id)
  /\ \A r, s \in sent : r.id = s.id => r = s
  /\ \A s \in sent : s.id \in 1 .. nrecv /\ s.id \notin dropped
  /\ dropped \subseteq 1 .. nrecv
  /\ \A i \in 1 .. nrecv : Gone(i) \/ \E p \in InFlight : p.id = i

OnceInv == HandsOK /\ LinesOK /\ Apart

(* The ways packets move.                                                  *)
Arrives(p) ==
  /\ main.pc = "read" /\ main'.pc # "read" /\ main'.pkt = p
  /\ p.id = nrecv + 1 /\ nrecv' = nrecv + 1
  /\ \A t \in Tids : AtWorker(t)' = AtWorker(t)
  /\ sent' = sent /\ dropped' = dropped

Queued(t) ==
  /\ main.pc # "read" /\ main'.pc = "read" /\ nrecv' = nrecv
  /\ AtWorker(t)' = AtWorker(t) \cup {main.pkt}
  /\ \A u \in Tids : u # t => AtWorker(u)' = AtWorker(u)
  /\ sent' = sent /\ dropped' = dropped

Stays ==
  /\ main'.pkt = main.pkt /\ (main'.pc = "read" <=> main.pc = "read") /\ nrecv' = nrecv
  /\ \A t \in Tids : AtWorker(t)' = AtWorker(t)
  /\ sent' = sent /\ dropped' = dropped

Leaves(w) ==
  /\ main' = main /\ nrecv' = nrecv /\ wk[w].pc # "idle"
  /\ AtWorker(w)' = AtWorker(w) \ {wk[w].pkt}
  /\ \A u \in Tids : u # w => AtWorker(u)' = AtWorker(u)
  /\ \/ sent' = sent /\ dropped' = dropped \cup {wk[w].pkt.id}
     \/ dropped' = dropped /\ \E s : s.id = wk[w].pkt.id /\ sent' = sent \cup {s}

Moves ==
  \/ \E p \in Arrivals : Arrives(p)
  \/ \E t \in Tids : Queued(t)
  \/ Stays
  \/ \E w \in Tids : Leaves(w)

(* Who has which packet.                                                   *)
LEMMA Held ==
  ASSUME TunInv, HandsOK
  PROVE  /\ AtMain = IF main.pc = "read" THEN {} ELSE {main.pkt}
         /\ \A t \in Tids : /\ InHand(t) = IF wk[t].pc = "idle" THEN {} ELSE {wk[t].pkt}
                            /\ AtWorker(t) \subseteq Arrived
         /\ nrecv \in Nat /\ AtMain \subseteq Arrived
<1>1. \A p \in Arrived : p # NoPkt
  BY DEF Arrived, NoPkt
<1>2. main.pc # "read" => main.pkt \in Arrived
  BY DEF TunInv, MainOK
<1>3. ASSUME NEW t \in Tids
      PROVE  /\ InHand(t) = IF wk[t].pc = "idle" THEN {} ELSE {wk[t].pkt}
             /\ AtWorker(t) \subseteq Arrived
  <2>1. wk[t].pc # "idle" => wk[t].pkt \in Arrived
    BY DEF TunInv, WorkersOK, WorkerOK
  <2>2. InHand(t) = IF wk[t].pc = "idle" THEN {} ELSE {wk[t].pkt}
    BY <1>1, <2>1 DEF HandsOK, InHand
  <2>3. q[t] \in Seq(Arrived)
    BY DEF TunInv, QueuesOK
  <2>4. InQueue(t) \subseteq Arrived
    BY <2>3, LenProperties, ElementOfSeq DEF InQueue
  <2>. QED BY <2>1, <2>2, <2>4 DEF AtWorker
<1>4. AtMain = IF main.pc = "read" THEN {} ELSE {main.pkt}
  BY <1>1, <1>2 DEF HandsOK, AtMain
<1>. QED BY <1>2, <1>3, <1>4 DEF TunInv

(* A step of a worker within the work on a packet.                         *)
Busy ==
  /\ q' = q /\ main' = main /\ nrecv' = nrecv /\ sent' = sent /\ dropped' = dropped
  /\ \A t \in Tids : /\ wk'[t].pkt = wk[t].pkt
                     /\ wk'[t].pc = "idle" <=> wk[t].pc = "idle"

LEMMA GotoBusy ==
  ASSUME TunInv, NEW w \in Tids, wk[w].pc # "idle", NEW pc, pc # "idle", NEW f,
         Goto(w, pc, f)
  PROVE  \A t \in Tids : /\ wk'[t].pkt = wk[t].pkt
                         /\ wk'[t].pc = "idle" <=> wk[t].pc = "idle"
<1>1. /\ wk[w] = [pc |-> wk[w].pc, pkt |-> wk[w].pkt, flow |-> wk[w].flow]
      /\ DOMAIN wk = Tids
  BY DEF TunInv, WorkersOK, WorkerOK
<1>. QED BY <1>1 DEF Goto

(* What a worker's step does with packets.                                 *)
LEMMA WorkerMoves ==
  ASSUME TunInv, NEW w \in Tids, Worker(w)
  PROVE  \/ Pop(w)
         \/ Busy
         \/ /\ q' = q /\ main' = main /\ nrecv' = nrecv /\ wk[w].pc # "idle"
            /\ wk' = [wk EXCEPT ![w] = WorkerIdle]
            /\ \/ sent' = sent /\ dropped' = dropped \cup {wk[w].pkt.id}
               \/ /\ dropped' = dropped /\ wk[w].pc = "send"
                  /\ sent' = sent \cup {Translated(wk[w].pkt, wk[w].flow)}
<1>1. CASE Pop(w)
  BY <1>1
<1>2. CASE Enter4(w) /\ EnterMapPool(w)
  <2>1. DOMAIN wk = Tids /\ \A t \in Tids :
          wk[t] = [pc |-> wk[t].pc, pkt |-> wk[t].pkt, flow |-> wk[t].flow]
    BY DEF TunInv, WorkersOK, WorkerOK
  <2>2. \A t \in Tids : t = w \/ t \in Racing(w) => wk[t].pc # "idle"
    BY <1>2 DEF Enter4, At, Racing, InMapPool
  <2>3. \A t \in Tids : \/ wk'[t] = wk[t]
                        \/ /\ t = w \/ t \in Racing(w)
                           /\ wk'[t] = [wk[t] EXCEPT !.pc = "torn"]
                              \/ wk'[t] = [wk[t] EXCEPT !.pc = "inmap"]
    BY <1>2 DEF EnterMapPool
  <2>. QED BY <1>2, <2>1, <2>2, <2>3 DEF Enter4, EnterMapPool, Busy
<1>3. ASSUME wk[w].pc # "idle", q' = q, main' = main, nrecv' = nrecv, sent' = sent,
             \/ \E pc \in {"map", "get", "tid", "claim", "send"} : \E f : Goto(w, pc, f)
             \/ Die
      PROVE  Busy
  <2>1. CASE Die
    BY <1>3, <2>1 DEF Die, Busy
  <2>2. ASSUME NEW pc \in {"map", "get", "tid", "claim", "send"}, NEW f, Goto(w, pc, f)
        PROVE  Busy
    <3>1. dropped' = dropped
      BY <2>2 DEF Goto
    <3>. QED BY <1>3, <2>2, <3>1, GotoBusy DEF Busy
  <2>. QED BY <1>3, <2>1, <2>2
<1>4. CASE Filter6(w)
  BY <1>3, <1>4 DEF Filter6, At, Drop
<1>10. CASE Enter4(w) /\ Die
  BY <1>3, <1>10 DEF Enter4, At
<1>5. CASE Filter4(w)
  BY <1>3, <1>5 DEF Filter4, InMapPool, Drop
<1>6. CASE Map6(w)
  BY <1>3, <1>6 DEF Map6, At
<1>7. CASE ReadTid(w) \/ Claim(w)
  BY <1>3, <1>7 DEF ReadTid, Claim, At
<1>8. CASE Begin4(w)
  BY <1>3, <1>8 DEF Begin4, At, Drop
<1>9. CASE Send(w)
  <2>1. CASE Die /\ sent' = sent
    BY <1>3, <1>9, <2>1 DEF Send, At
  <2>. QED BY <1>9, <2>1 DEF Send, At, Drop
<1>. QED BY <1>1, <1>2, <1>4, <1>5, <1>6, <1>7, <1>8, <1>9, <1>10 DEF Worker, Enter4

LEMMA BusyStays ==
  ASSUME TunInv, Busy
  PROVE  Stays
<1>1. \A t \in Tids : InHand(t)' = InHand(t) /\ InQueue(t)' = InQueue(t)
  BY DEF Busy, InHand, InQueue
<1>. QED BY <1>1 DEF Busy, Stays, AtWorker

LEMMA PopStays ==
  ASSUME TunInv, HandsOK, NEW w \in Tids, Pop(w)
  PROVE  Stays /\ \A t \in Tids : t # w => wk'[t] = wk[t] /\ q'[t] = q[t]
<1>. DEFINE s == q[w]
<1>1. /\ s \in Seq(Arrived) /\ s # <<>> /\ DOMAIN q = Tids /\ DOMAIN wk = Tids
      /\ wk[w] = [pc |-> wk[w].pc, pkt |-> wk[w].pkt, flow |-> wk[w].flow]
      /\ wk[w].pc = "idle"
  BY DEF TunInv, QueuesOK, WorkersOK, WorkerOK, Pop, At
<1>2. /\ q'[w] = Tail(s) /\ wk'[w].pkt = Head(s) /\ wk'[w].pc = "range"
      /\ \A t \in Tids : t # w => wk'[t] = wk[t] /\ q'[t] = q[t]
      /\ main' = main /\ nrecv' = nrecv /\ sent' = sent /\ dropped' = dropped
  BY <1>1 DEF Pop
<1>3. \A t \in Tids : t # w => AtWorker(t)' = AtWorker(t)
  BY <1>2 DEF AtWorker, InHand, InQueue
<1>4. {s[i] : i \in DOMAIN s} = {Head(s)} \cup {Tail(s)[i] : i \in DOMAIN Tail(s)}
  <2>1. /\ Head(s) = s[1] /\ DOMAIN s = 1 .. Len(s) /\ DOMAIN Tail(s) = 1 .. Len(s) - 1
        /\ Len(s) \in Nat /\ Len(s) > 0
        /\ \A i \in 1 .. Len(s) - 1 : Tail(s)[i] = s[i + 1]
    <3>. HIDE DEF s
    <3>. QED BY <1>1, EmptySeq, HeadTailProperties, LenProperties
  <2>2. \A i \in 1 .. Len(s) :
          i = 1 \/ (i - 1 \in 1 .. Len(s) - 1 /\ s[i] = Tail(s)[i - 1])
    <3>. HIDE DEF s
    <3>. QED BY <2>1
  <2>. PICK r : r = Tail(s)
    OBVIOUS
  <2>3. \A x \in {s[i] : i \in DOMAIN s} : x = Head(s) \/ x \in {r[i] : i \in DOMAIN r}
    <3>. HIDE DEF s
    <3>1. ASSUME NEW i \in DOMAIN s PROVE s[i] = s[1] \/ \E j \in DOMAIN r : s[i] = r[j]
      BY <2>1, <2>2
    <3>. QED BY <2>1, <3>1
  <2>4. \A x \in {r[i] : i \in DOMAIN r} : x \in {s[i] : i \in DOMAIN s}
    <3>. HIDE DEF s
    <3>1. \A i \in DOMAIN r : i + 1 \in DOMAIN s /\ r[i] = s[i + 1]
      BY <2>1
    <3>. QED BY <3>1
  <2>5. Head(s) \in {s[i] : i \in DOMAIN s}
    <3>. HIDE DEF s
    <3>. QED BY <2>1
  <2>. HIDE DEF s
  <2>. QED BY <2>3, <2>4, <2>5
<1>5. /\ InQueue(w) = {s[i] : i \in DOMAIN s}
      /\ InQueue(w)' = {Tail(s)[i] : i \in DOMAIN Tail(s)}
  BY <1>2 DEF InQueue
<1>6. Head(s) \in Arrived /\ NoPkt \notin Arrived
  <2>1. NoPkt \notin Arrived
    BY DEF Arrived, NoPkt
  <2>. QED BY <1>1, <2>1, HeadTailProperties
<1>7. InHand(w) = {} /\ InHand(w)' = {Head(s)}
  BY <1>1, <1>2, <1>6 DEF InHand, HandsOK
<1>8. AtWorker(w)' = AtWorker(w)
  BY <1>4, <1>5, <1>7 DEF AtWorker
<1>. QED BY <1>2, <1>3, <1>8 DEF Stays

LEMMA PushQueues ==
  ASSUME TunInv, HandsOK, Push, NEW t, t = main.tid
  PROVE  Queued(t) /\ t \in Tids
<1>1. /\ t \in Tids /\ main.pc = "push" /\ main' = MainIdle /\ main.pkt \in Arrived
      /\ q' = [q EXCEPT ![t] = Append(@, main.pkt)] /\ q \in [Tids -> Seq(Arrived)]
      /\ nrecv' = nrecv /\ sent' = sent /\ dropped' = dropped /\ wk' = wk
  BY DEF TunInv, QueuesOK, MainOK, Push
<1>2. \A u \in Tids : u # t => AtWorker(u)' = AtWorker(u)
  BY <1>1 DEF AtWorker, InHand, InQueue
<1>3. InQueue(t)' = InQueue(t) \cup {main.pkt}
  <2>. DEFINE s == q[t]
  <2>. PICK a : a = Append(s, main.pkt)
    OBVIOUS
  <2>1. s \in Seq(Arrived) /\ q'[t] = a
    BY <1>1
  <2>2. /\ DOMAIN s = 1 .. Len(s) /\ DOMAIN a = 1 .. Len(s) + 1 /\ Len(s) \in Nat
        /\ a[Len(s) + 1] = main.pkt
        /\ \A i \in 1 .. Len(s) : a[i] = s[i]
    <3>. HIDE DEF s
    <3>. QED BY <1>1, <2>1, AppendProperties, LenProperties
  <2>3. {a[i] : i \in DOMAIN a} = {s[i] : i \in DOMAIN s} \cup {main.pkt}
    <3>. HIDE DEF s
    <3>. QED BY <2>2
  <2>4. InQueue(t) = {s[i] : i \in DOMAIN s} /\ InQueue(t)' = {a[i] : i \in DOMAIN a}
    BY <2>1 DEF InQueue
  <2>. QED BY <2>3, <2>4
<1>4. InHand(t)' = InHand(t)
  BY <1>1 DEF InHand
<1>. QED BY <1>1, <1>2, <1>3, <1>4 DEF AtWorker, Queued, MainIdle

(* A worker that has done with its packet.                                 *)
LEMMA IdleLeaves ==
  ASSUME TunInv, OnceInv, NEW w \in Tids, wk[w].pc # "idle",
         q' = q, main' = main, nrecv' = nrecv, wk' = [wk EXCEPT ![w] = WorkerIdle],
         \/ sent' = sent /\ dropped' = dropped \cup {wk[w].pkt.id}
         \/ /\ dropped' = dropped
            /\ sent' = sent \cup {Translated(wk[w].pkt, wk[w].flow)}
  PROVE  Leaves(w)
<1>1. /\ DOMAIN wk = Tids /\ wk'[w].pkt = NoPkt
      /\ \A u \in Tids : u # w => wk'[u] = wk[u]
  BY DEF TunInv, WorkersOK, WorkerIdle
<1>2. \A u \in Tids : InQueue(u)' = InQueue(u)
  BY DEF InQueue
<1>3. \A u \in Tids : u # w => AtWorker(u)' = AtWorker(u)
  BY <1>1, <1>2 DEF AtWorker, InHand
<1>4. InHand(w)' = {} /\ InHand(w) = {wk[w].pkt}
  BY <1>1, Held DEF InHand, OnceInv
<1>5. wk[w].pkt \notin InQueue(w)
  <2>1. q[w] \in Seq(Arrived) /\ wk[w].pkt \in Arrived
    BY DEF TunInv, QueuesOK, WorkersOK, WorkerOK
  <2>2. \A n \in DOMAIN q[w] : wk[w].pkt.id < q[w][n].id
    BY DEF OnceInv, LinesOK
  <2>3. \A n \in DOMAIN q[w] : wk[w].pkt # q[w][n]
    BY <2>1, <2>2 DEF Arrived
  <2>. QED BY <2>3 DEF InQueue
<1>6. AtWorker(w)' = AtWorker(w) \ {wk[w].pkt}
  BY <1>2, <1>4, <1>5 DEF AtWorker
<1>7. Translated(wk[w].pkt, wk[w].flow).id = wk[w].pkt.id
  BY DEF Translated
<1>. QED BY <1>3, <1>6, <1>7 DEF Leaves

LEMMA StepMoves == TunInv /\ OnceInv /\ TunNext => Moves
<1>. SUFFICES ASSUME TunInv, OnceInv, TunNext PROVE Moves
  OBVIOUS
<1>. USE DEF OnceInv
<1>0. main = [pc |-> main.pc, pkt |-> main.pkt, flow |-> main.flow, tid |-> main.tid]
  BY DEF TunInv, MainOK
<1>1. CASE Receive
  <2>1. PICK p \in Arrivals :
          main' = [main EXCEPT !.pc = "pick", !.pkt = p, !.flow = GetFlow(p)]
    BY <1>1 DEF Receive
  <2>2. p.id = nrecv + 1
    BY <2>1, ArrivalsTyped DEF TunInv
  <2>3. main'.pc = "pick" /\ main'.pkt = p
    <3>. HIDE DEF GetFlow
    <3>. QED BY <1>0, <2>1
  <2>4. \A t \in Tids : AtWorker(t)' = AtWorker(t)
    BY <1>1 DEF Receive, AtWorker, InHand, InQueue
  <2>5. Arrives(p)
    BY <1>1, <2>2, <2>3, <2>4 DEF Receive, Arrives
  <2>. QED BY <2>5 DEF Moves
<1>2. CASE Pick
  <2>1. main'.pc = "push" /\ main'.pkt = main.pkt
    BY <1>0, <1>2 DEF Pick
  <2>2. \A t \in Tids : AtWorker(t)' = AtWorker(t)
    BY <1>2 DEF Pick, AtWorker, InHand, InQueue
  <2>. QED BY <1>2, <2>1, <2>2 DEF Pick, Stays, Moves
<1>3. CASE Push
  <2>. PICK t : t = main.tid
    OBVIOUS
  <2>. QED BY <1>3, PushQueues DEF Moves
<1>4. ASSUME NEW w \in Tids, Worker(w) PROVE Moves
  <2>1. CASE Pop(w)
    BY <2>1, PopStays DEF Moves
  <2>2. CASE Busy
    BY <2>2, BusyStays DEF Moves
  <2>3. ASSUME q' = q, main' = main, nrecv' = nrecv, wk[w].pc # "idle",
               wk' = [wk EXCEPT ![w] = WorkerIdle],
               \/ sent' = sent /\ dropped' = dropped \cup {wk[w].pkt.id}
               \/ /\ dropped' = dropped
                  /\ sent' = sent \cup {Translated(wk[w].pkt, wk[w].flow)}
        PROVE  Leaves(w)
    BY <2>3, IdleLeaves
  <2>. QED BY <1>4, <2>1, <2>2, <2>3, WorkerMoves DEF Moves
<1>. QED BY <1>1, <1>2, <1>3, <1>4 DEF TunNext

LEMMA HandsStep ==
  ASSUME TunInv, OnceInv, TunNext
  PROVE  HandsOK'
<1>. USE DEF OnceInv
<1>1. CASE Receive \/ Pick \/ Push
  <2>1. wk' = wk
    BY <1>1 DEF Receive, Pick, Push
  <2>2. /\ main'.pc = "read" => main'.pkt = NoPkt
        /\ main'.pc # "read" => main'.pkt.id = nrecv'
    <3>0. main = [pc |-> main.pc, pkt |-> main.pkt, flow |-> main.flow, tid |-> main.tid]
      BY DEF TunInv, MainOK
    <3>1. CASE Receive
      <4>1. PICK p \in Arrivals :
              main' = [main EXCEPT !.pc = "pick", !.pkt = p, !.flow = GetFlow(p)]
        BY <3>1 DEF Receive
      <4>2. p.id = nrecv + 1
        BY <4>1, ArrivalsTyped DEF TunInv
      <4>3. main'.pc = "pick" /\ main'.pkt = p
        <5>. HIDE DEF GetFlow
        <5>. QED BY <3>0, <4>1
      <4>. QED BY <3>1, <4>2, <4>3 DEF Receive
    <3>2. CASE Pick
      BY <3>0, <3>2 DEF Pick, HandsOK
    <3>3. CASE Push
      BY <3>3 DEF Push, MainIdle
    <3>. QED BY <1>1, <3>1, <3>2, <3>3
  <2>. QED BY <2>1, <2>2 DEF HandsOK
<1>2. ASSUME NEW w \in Tids, Worker(w) PROVE HandsOK'
  <2>1. main' = main /\ nrecv' = nrecv
    BY <1>2 DEF Worker, Pop, Filter6, Enter4, Filter4, Map6, ReadTid, Claim,
                Begin4, Send
  <2>2. CASE Pop(w)
    <3>1. /\ DOMAIN wk = Tids
          /\ wk[w] = [pc |-> wk[w].pc, pkt |-> wk[w].pkt, flow |-> wk[w].flow]
      BY DEF TunInv, WorkersOK, WorkerOK
    <3>2. wk'[w].pc = "range"
      BY <2>2, <3>1 DEF Pop
    <3>. QED BY <2>1, <2>2, <3>2, PopStays DEF HandsOK
  <2>3. CASE Busy
    BY <2>1, <2>3 DEF Busy, HandsOK
  <2>4. CASE wk' = [wk EXCEPT ![w] = WorkerIdle]
    <3>1. \A u \in Tids : wk'[u] = IF u = w THEN WorkerIdle ELSE wk[u]
      BY <2>4 DEF TunInv, WorkersOK
    <3>. QED BY <2>1, <3>1 DEF HandsOK, WorkerIdle
  <2>. QED BY <1>2, <2>2, <2>3, <2>4, WorkerMoves
<1>. QED BY <1>1, <1>2 DEF TunNext

LEMMA LinesStep ==
  ASSUME TunInv, OnceInv, TunNext
  PROVE  LinesOK'
<1>. USE DEF OnceInv
<1>. SUFFICES ASSUME NEW t \in Tids
              PROVE  /\ \A m, n \in DOMAIN q'[t] : m < n => q'[t][m].id < q'[t][n].id
                     /\ \A n \in DOMAIN q'[t] :
                          wk'[t].pc # "idle" => wk'[t].pkt.id < q'[t][n].id
                     /\ \A p \in AtWorker(t)' : main'.pc # "read" => p.id < nrecv'
  BY DEF LinesOK
<1>1. /\ \A m, n \in DOMAIN q[t] : m < n => q[t][m].id < q[t][n].id
      /\ \A n \in DOMAIN q[t] : wk[t].pc # "idle" => wk[t].pkt.id < q[t][n].id
      /\ \A p \in AtWorker(t) : main.pc # "read" => p.id < nrecv
  BY DEF LinesOK
<1>2. /\ \A p \in AtWorker(t) : p.id \in 1 .. nrecv
      /\ nrecv \in Nat /\ q[t] \in Seq(Arrived) /\ DOMAIN q = Tids
  BY Held DEF Arrived, TunInv, QueuesOK
<1>3. \A p \in AtWorker(t)' : main'.pc # "read" => p.id < nrecv'
  <2>1. ASSUME NEW p \in Arrivals, Arrives(p)
        PROVE  \A r \in AtWorker(t)' : main'.pc # "read" => r.id < nrecv'
    BY <1>2, <2>1 DEF Arrives
  <2>2. ASSUME NEW u \in Tids, Queued(u)
        PROVE  \A r \in AtWorker(t)' : main'.pc # "read" => r.id < nrecv'
    BY <2>2 DEF Queued
  <2>3. CASE Stays
    BY <1>1, <2>3 DEF Stays
  <2>4. ASSUME NEW w \in Tids, Leaves(w)
        PROVE  \A r \in AtWorker(t)' : main'.pc # "read" => r.id < nrecv'
    BY <1>1, <2>4 DEF Leaves
  <2>. QED BY <2>1, <2>2, <2>3, <2>4, StepMoves DEF Moves
<1>4. CASE Receive \/ Pick
  <2>1. q' = q /\ wk' = wk
    BY <1>4 DEF Receive, Pick
  <2>. QED BY <1>1, <1>3, <2>1
<1>5. CASE Push
  <2>1. /\ wk' = wk /\ main.pc # "read" /\ main.pkt.id = nrecv
        /\ main.tid # t => q'[t] = q[t]
        /\ main.tid = t => q'[t] = Append(q[t], main.pkt)
    BY <1>2, <1>5 DEF Push, HandsOK
  <2>2. CASE main.tid # t
    BY <1>1, <1>3, <2>1, <2>2
  <2>3. CASE main.tid = t
    <3>. DEFINE s == q[t]
    <3>1. /\ \A n \in DOMAIN s : s[n] \in AtWorker(t)
          /\ wk[t].pc # "idle" => wk[t].pkt \in AtWorker(t)
      BY Held DEF AtWorker, InQueue
    <3>2. /\ \A n \in DOMAIN s : s[n].id < nrecv /\ s[n].id \in 1 .. nrecv
          /\ wk[t].pc # "idle" => wk[t].pkt.id < nrecv /\ wk[t].pkt.id \in 1 .. nrecv
      BY <1>1, <1>2, <2>1, <3>1
    <3>. PICK a : a = q'[t]
      OBVIOUS
    <3>3. /\ DOMAIN s = 1 .. Len(s) /\ DOMAIN a = 1 .. Len(s) + 1 /\ Len(s) \in Nat
          /\ a[Len(s) + 1] = main.pkt
          /\ \A i \in 1 .. Len(s) : a[i] = s[i]
      <4>1. s \in Seq(Arrived) /\ main.pkt \in Arrived /\ a = Append(s, main.pkt)
        BY <1>2, <2>1, <2>3 DEF TunInv, MainOK
      <4>. HIDE DEF s
      <4>. QED BY <4>1, AppendProperties, LenProperties
    <3>4. ASSUME NEW m \in DOMAIN a, NEW n \in DOMAIN a, m < n
          PROVE  a[m].id < a[n].id
      <4>1. m \in 1 .. Len(s) /\ (n \in 1 .. Len(s) \/ n = Len(s) + 1)
        <5>. HIDE DEF s
        <5>. QED BY <3>3, <3>4
      <4>2. s[m].id < nrecv
        BY <3>2, <3>3, <4>1
      <4>3. CASE n \in 1 .. Len(s)
        BY <1>1, <3>3, <3>4, <4>1, <4>3
      <4>4. CASE n = Len(s) + 1
        <5>. HIDE DEF s
        <5>. QED BY <2>1, <3>3, <4>1, <4>2, <4>4
      <4>. QED BY <4>1, <4>3, <4>4
    <3>5. ASSUME NEW n \in DOMAIN a, wk[t].pc # "idle"
          PROVE  wk[t].pkt.id < a[n].id
      <4>1. n \in 1 .. Len(s) \/ n = Len(s) + 1
        <5>. HIDE DEF s
        <5>. QED BY <3>3, <3>5
      <4>2. CASE n \in 1 .. Len(s)
        BY <1>1, <3>3, <3>5, <4>2
      <4>3. CASE n = Len(s) + 1
        <5>. HIDE DEF s
        <5>. QED BY <2>1, <3>2, <3>3, <3>5, <4>3
      <4>. QED BY <4>1, <4>2, <4>3
    <3>. QED BY <1>3, <2>1, <3>4, <3>5
  <2>. QED BY <2>2, <2>3
<1>6. ASSUME NEW w \in Tids, Worker(w)
      PROVE  /\ \A m, n \in DOMAIN q'[t] : m < n => q'[t][m].id < q'[t][n].id
             /\ \A n \in DOMAIN q'[t] :
                  wk'[t].pc # "idle" => wk'[t].pkt.id < q'[t][n].id
  <2>1. CASE Pop(w)
    <3>1. CASE w # t
      BY <1>1, <2>1, <3>1, PopStays
    <3>2. CASE w = t
      <4>. DEFINE s == q[t]
      <4>1. /\ s # <<>> /\ q'[t] = Tail(s) /\ wk'[t].pkt = Head(s)
        <5>1. /\ DOMAIN wk = Tids
              /\ wk[w] = [pc |-> wk[w].pc, pkt |-> wk[w].pkt, flow |-> wk[w].flow]
          BY DEF TunInv, WorkersOK, WorkerOK
        <5>. QED BY <1>2, <2>1, <3>2, <5>1 DEF Pop
      <4>. PICK r : r = q'[t]
        OBVIOUS
      <4>2. /\ DOMAIN s = 1 .. Len(s) /\ Len(s) \in Nat /\ Len(s) > 0
            /\ DOMAIN r = 1 .. Len(s) - 1 /\ Head(s) = s[1]
            /\ \A i \in 1 .. Len(s) - 1 : r[i] = s[i + 1]
        <5>. HIDE DEF s
        <5>. QED BY <1>2, <4>1, EmptySeq, HeadTailProperties, LenProperties DEF s
      <4>3. \A m \in DOMAIN r : m \in Nat /\ m + 1 \in DOMAIN s /\ 1 \in DOMAIN s
                                 /\ 1 < m + 1 /\ r[m] = s[m + 1]
        <5>. HIDE DEF s
        <5>. QED BY <4>2
      <4>4. \A m, n \in DOMAIN r : m < n => m + 1 < n + 1
        <5>. HIDE DEF s
        <5>. QED BY <4>3
      <4>5. \A m, n \in DOMAIN s : m < n => s[m].id < s[n].id
        BY <1>1
      <4>. HIDE DEF s
      <4>. QED BY <4>1, <4>2, <4>3, <4>4, <4>5
    <3>. QED BY <3>1, <3>2
  <2>2. CASE Busy
    BY <1>1, <2>2 DEF Busy
  <2>3. CASE q' = q /\ wk' = [wk EXCEPT ![w] = WorkerIdle]
    <3>1. wk'[t] = IF t = w THEN WorkerIdle ELSE wk[t]
      BY <2>3 DEF TunInv, WorkersOK
    <3>. QED BY <1>1, <2>3, <3>1 DEF WorkerIdle
  <2>. QED BY <1>6, <2>1, <2>2, <2>3, WorkerMoves
<1>. QED BY <1>3, <1>4, <1>5, <1>6 DEF TunNext

(* Who has a packet while it moves.                                        *)
LEMMA InFlightMoves ==
  ASSUME TunInv, HandsOK, HandsOK', TunInv'
  PROVE  /\ \A p : Arrives(p) => InFlight' = InFlight \cup {p}
         /\ \A t \in Tids : Queued(t) => InFlight' = InFlight
         /\ Stays => InFlight' = InFlight
<1>1. /\ AtMain = IF main.pc = "read" THEN {} ELSE {main.pkt}
      /\ AtMain' = IF main'.pc = "read" THEN {} ELSE {main'.pkt}
  BY Held DEF HandsOK, AtMain, TunInv, MainOK, Arrived, NoPkt
<1>2. /\ InFlight = AtMain \cup UNION {AtWorker(t) : t \in Tids}
      /\ InFlight' = AtMain' \cup UNION {AtWorker(t)' : t \in Tids}
  BY DEF InFlight
<1>3. ASSUME NEW p, Arrives(p) PROVE InFlight' = InFlight \cup {p}
  <2>1. UNION {AtWorker(t)' : t \in Tids} = UNION {AtWorker(t) : t \in Tids}
    BY <1>3 DEF Arrives
  <2>. QED BY <1>1, <1>2, <1>3, <2>1 DEF Arrives
<1>4. ASSUME NEW t \in Tids, Queued(t) PROVE InFlight' = InFlight
  <2>1. \A u \in Tids : AtWorker(u)' = IF u = t THEN AtWorker(t) \cup {main.pkt}
                                             ELSE AtWorker(u)
    BY <1>4 DEF Queued
  <2>. QED BY <1>1, <1>2, <1>4, <2>1 DEF Queued
<1>5. ASSUME Stays PROVE InFlight' = InFlight
  <2>1. UNION {AtWorker(t)' : t \in Tids} = UNION {AtWorker(t) : t \in Tids}
    BY <1>5 DEF Stays
  <2>. QED BY <1>1, <1>2, <1>5, <2>1 DEF Stays
<1>. QED BY <1>3, <1>4, <1>5

(* No two packets under way have one number.                               *)
LEMMA OneIdEach ==
  ASSUME TunInv, OnceInv
  PROVE  /\ \A p, r \in InFlight : p.id = r.id => p = r
         /\ \A p \in InFlight : p.id \in 1 .. nrecv
         /\ \A t \in Tids : \A p \in AtWorker(t) : p \notin AtMain
<1>1. ASSUME NEW t \in Tids, NEW p \in AtWorker(t), NEW r \in AtWorker(t), p.id = r.id
      PROVE  p = r
  <2>1. /\ q[t] \in Seq(Arrived) /\ \A x \in Arrived : x.id \in Nat
        /\ wk[t].pc # "idle" => wk[t].pkt \in Arrived
    BY DEF TunInv, QueuesOK, Arrived, WorkersOK, WorkerOK
  <2>2. \A n \in DOMAIN q[t] : q[t][n].id \in Nat /\ n \in Nat
    BY <2>1, LenProperties, ElementOfSeq
  <2>3. \A m, n \in DOMAIN q[t] : q[t][m].id = q[t][n].id => m = n
    BY <2>2 DEF OnceInv, LinesOK
  <2>4. \A n \in DOMAIN q[t] : wk[t].pc # "idle" => wk[t].pkt.id # q[t][n].id
    BY <2>1, <2>2 DEF OnceInv, LinesOK
  <2>. QED BY <1>1, <2>3, <2>4, Held DEF OnceInv, AtWorker, InQueue
<1>2. ASSUME NEW t \in Tids, NEW p \in AtWorker(t), NEW r \in AtMain
      PROVE  p.id # r.id
  <2>1. main.pc # "read" /\ r.id = nrecv
    BY Held DEF OnceInv, HandsOK
  <2>2. p.id < nrecv /\ p.id \in Nat /\ nrecv \in Nat
    BY <2>1, Held DEF OnceInv, LinesOK, Arrived
  <2>. QED BY <2>1, <2>2
<1>3. ASSUME NEW p \in InFlight, NEW r \in InFlight, p.id = r.id PROVE p = r
  <2>1. CASE p \in AtMain /\ r \in AtMain
    BY <2>1, Held DEF OnceInv
  <2>2. CASE ~(p \in AtMain) /\ ~(r \in AtMain)
    <3>1. PICK t \in Tids : p \in AtWorker(t)
      BY <2>2 DEF InFlight
    <3>2. PICK u \in Tids : r \in AtWorker(u)
      BY <2>2 DEF InFlight
    <3>3. t = u
      BY <1>3, <3>1, <3>2 DEF OnceInv, Apart
    <3>. QED BY <1>1, <1>3, <3>1, <3>2, <3>3
  <2>. QED BY <1>2, <1>3, <2>1, <2>2 DEF InFlight
<1>4. ASSUME NEW p \in InFlight PROVE p.id \in 1 .. nrecv
  BY Held DEF OnceInv, InFlight, Arrived
<1>. QED BY <1>2, <1>3, <1>4

LEMMA LeavingInFlight ==
  ASSUME TunInv, OnceInv, NEW w \in Tids, Leaves(w), NEW p, p = wk[w].pkt
  PROVE  InFlight' = InFlight \ {p} /\ p \in InFlight /\ p \in Arrived
<1>1. p \in AtWorker(w) /\ p \in InFlight /\ p \in Arrived
  BY Held DEF OnceInv, Leaves, AtWorker, InFlight
<1>2. AtMain' = AtMain /\ p \notin AtMain
  BY <1>1, OneIdEach DEF Leaves, AtMain
<1>3. \A u \in Tids : AtWorker(u)' = AtWorker(u) \ {p}
  <2>1. \A u \in Tids : u # w => p \notin AtWorker(u)
    BY <1>1 DEF OnceInv, Apart
  <2>. QED BY <2>1 DEF Leaves
<1>4. /\ InFlight = AtMain \cup UNION {AtWorker(t) : t \in Tids}
      /\ InFlight' = AtMain' \cup UNION {AtWorker(t)' : t \in Tids}
  BY DEF InFlight
<1>. QED BY <1>1, <1>2, <1>3, <1>4

LEMMA ApartStep ==
  ASSUME TunInv, OnceInv, HandsOK', TunInv', TunNext
  PROVE  Apart'
<1>. USE DEF OnceInv
<1>0. Apart /\ nrecv \in Nat /\ \A p \in InFlight : p.id \in 1 .. nrecv
  BY OneIdEach DEF TunInv
<1>1. ASSUME NEW p \in Arrivals, Arrives(p) PROVE Apart'
  <2>1. InFlight' = InFlight \cup {p}
    BY <1>1, InFlightMoves
  <2>2. ~Gone(p.id) /\ p.id \in 1 .. nrecv'
    BY <1>0, <1>1 DEF Apart, Gone, Arrives
  <2>3. \A i : Gone(i)' <=> Gone(i)
    BY <1>1 DEF Gone, Arrives
  <2>4. \A i \in 1 .. nrecv' : i \in 1 .. nrecv \/ i = p.id
    BY <1>0, <1>1 DEF Arrives
  <2>5. 1 .. nrecv \subseteq 1 .. nrecv'
    BY <1>0, <1>1 DEF Arrives
  <2>. QED BY <1>0, <1>1, <2>1, <2>2, <2>3, <2>4, <2>5 DEF Apart, Arrives
<1>2. ASSUME NEW t \in Tids, Queued(t) PROVE Apart'
  <2>1. InFlight' = InFlight
    BY <1>2, InFlightMoves
  <2>2. \A i : Gone(i)' <=> Gone(i)
    BY <1>2 DEF Gone, Queued
  <2>3. \A u \in Tids : \A p \in AtWorker(u) : p.id # main.pkt.id
    BY <1>0, <1>2 DEF LinesOK, HandsOK, Queued, InFlight
  <2>. QED BY <1>0, <1>2, <2>1, <2>2, <2>3 DEF Apart, Queued
<1>3. CASE Stays
  <2>1. InFlight' = InFlight
    BY <1>3, InFlightMoves
  <2>2. \A i : Gone(i)' <=> Gone(i)
    BY <1>3 DEF Gone, Stays
  <2>. QED BY <1>0, <1>3, <2>1, <2>2 DEF Apart, Stays
<1>4. ASSUME NEW w \in Tids, Leaves(w) PROVE Apart'
  <2>. PICK p : p = wk[w].pkt
    OBVIOUS
  <2>1. InFlight' = InFlight \ {p} /\ p \in InFlight
    BY <1>4, LeavingInFlight
  <2>2. \A i : Gone(i)' <=> (Gone(i) \/ i = p.id)
    BY <1>4 DEF Gone, Leaves
  <2>3. \A r \in InFlight' : r.id # p.id
    BY <2>1, OneIdEach
  <2>4. ~Gone(p.id) /\ p.id \in 1 .. nrecv
    BY <1>0, <2>1 DEF Apart
  <2>5. /\ \A r, s \in sent' : r.id = s.id => r = s
        /\ \A s \in sent' : s.id \in 1 .. nrecv /\ s.id \notin dropped'
        /\ dropped' \subseteq 1 .. nrecv
    BY <1>0, <1>4, <2>4 DEF Apart, Leaves, Gone
  <2>6. \A u \in Tids : AtWorker(u)' \subseteq AtWorker(u)
    BY <1>4 DEF Leaves
  <2>7. \A r \in InFlight' : ~Gone(r.id)'
    BY <1>0, <2>1, <2>2, <2>3 DEF Apart
  <2>8. \A i \in 1 .. nrecv : Gone(i)' \/ \E r \in InFlight' : r.id = i
    BY <1>0, <2>1, <2>2 DEF Apart
  <2>9. nrecv' = nrecv
    BY <1>4 DEF Leaves
  <2>. QED BY <1>0, <2>5, <2>6, <2>7, <2>8, <2>9 DEF Apart
<1>. QED BY <1>1, <1>2, <1>3, <1>4, StepMoves DEF Moves

LEMMA OnceInit == TunInit => OnceInv
<1>. SUFFICES ASSUME TunInit PROVE OnceInv
  OBVIOUS
<1>1. /\ main.pc = "read" /\ main.pkt = NoPkt /\ nrecv = 0 /\ sent = {} /\ dropped = {}
      /\ \A t \in Tids : wk[t].pc = "idle" /\ wk[t].pkt = NoPkt /\ DOMAIN q[t] = {}
  BY DEF TunInit, MainIdle, WorkerIdle
<1>2. InFlight = {} /\ \A t \in Tids : AtWorker(t) = {}
  BY <1>1 DEF InFlight, AtMain, AtWorker, InHand, InQueue
<1>. QED BY <1>1, <1>2 DEF OnceInv, HandsOK, LinesOK, Apart

LEMMA OnceNext == TunInv /\ TunInv' /\ OnceInv /\ [TunNext]_vars => OnceInv'
<1>. SUFFICES ASSUME TunInv, TunInv', OnceInv, [TunNext]_vars PROVE OnceInv'
  OBVIOUS
<1>1. CASE TunNext
  BY <1>1, HandsStep, LinesStep, ApartStep DEF OnceInv
<1>2. CASE UNCHANGED vars
  BY <1>2 DEF vars, tunVars, OnceInv, HandsOK, LinesOK, Apart, AtWorker, InHand,
              InQueue, InFlight, AtMain, Gone
<1>. QED BY <1>1, <1>2

LEMMA OnceAlways == TunSpec => []OnceInv
<1>. QED BY OnceInit, OnceNext, TunInvAlways, PTL DEF TunSpec

LEMMA InPlaces ==
  ASSUME NEW i, NEW x
  PROVE  x \in Places(i) <=>
           \/ x = <<"main">> /\ \E p \in AtMain : p.id = i
           \/ \E t \in Tids : x = <<"hand", t>> /\ \E p \in InHand(t) : p.id = i
           \/ \E t \in Tids : \E n \in DOMAIN q[t] :
                x = <<"queue", t, n>> /\ q[t][n].id = i
           \/ \E s \in sent : x = <<"sent", s>> /\ s.id = i
           \/ x = <<"dropped">> /\ i \in dropped
<1>. DEFINE A == {<<"main">> : p \in {r \in AtMain : r.id = i}}
            B(t) == {<<"hand", t>> : p \in {r \in InHand(t) : r.id = i}}
            C(t) == {<<"queue", t, n>> : n \in {m \in DOMAIN q[t] : q[t][m].id = i}}
            D == {<<"sent", s>> : s \in {r \in sent : r.id = i}}
            E == {<<"dropped">> : j \in {d \in dropped : d = i}}
<1>1. x \in A <=> x = <<"main">> /\ \E p \in AtMain : p.id = i
  OBVIOUS
<1>2. \A t \in Tids : x \in B(t) <=> x = <<"hand", t>> /\ \E p \in InHand(t) : p.id = i
  OBVIOUS
<1>3. \A t \in Tids :
        x \in C(t) <=> \E n \in DOMAIN q[t] : x = <<"queue", t, n>> /\ q[t][n].id = i
  OBVIOUS
<1>4. x \in D <=> \E s \in sent : x = <<"sent", s>> /\ s.id = i
  OBVIOUS
<1>5. x \in E <=> x = <<"dropped">> /\ i \in dropped
  OBVIOUS
<1>. DEFINE U == UNION {B(t) \cup C(t) : t \in Tids}
<1>6. Places(i) = A \cup D \cup E \cup U
  BY DEF Places
<1>. HIDE DEF A, B, C, D, E
<1>7. x \in U <=> \E t \in Tids : x \in B(t) \cup C(t)
  OBVIOUS
<1>. HIDE DEF U
<1>8. x \in Places(i) <=>
        x \in A \/ (\E t \in Tids : x \in B(t) \/ x \in C(t)) \/ x \in D \/ x \in E
  BY <1>6, <1>7
<1>. QED BY <1>1, <1>2, <1>3, <1>4, <1>5, <1>8

(* The hand-over between threads neither loses nor doubles a packet, for   *)
(* any number of workers (tun.h:33-52, 96-123; nat.cc:72-155).             *)
THEOREM PacketsConserved == TunSpec => []Conserved
<1>1. ASSUME TunInv, OnceInv, NEW i \in 1 .. nrecv PROVE Cardinality(Places(i)) = 1
  <2>0. /\ Apart /\ HandsOK
        /\ \A t \in Tids : \A m, n \in DOMAIN q[t] : q[t][m].id = q[t][n].id => m = n
        /\ \A t \in Tids : \A n \in DOMAIN q[t] : \A r \in InHand(t) : r.id # q[t][n].id
    <3>1. ASSUME NEW t \in Tids
          PROVE  /\ \A n \in DOMAIN q[t] : q[t][n].id \in Nat /\ n \in Nat
                 /\ \A r \in InHand(t) : r.id \in Nat
      <4>1. q[t] \in Seq(Arrived) /\ \A x \in Arrived : x.id \in Nat
        BY <1>1 DEF TunInv, QueuesOK, Arrived
      <4>2. \A r \in InHand(t) : r \in Arrived
        BY <1>1, Held DEF OnceInv, AtWorker
      <4>. QED BY <4>1, <4>2, LenProperties, ElementOfSeq
    <3>. QED BY <1>1, <3>1, Held DEF OnceInv, LinesOK
  <2>1. CASE i \in dropped
    <3>1. Places(i) = {<<"dropped">>}
      <4>1. /\ \A p \in AtMain : p.id # i
            /\ \A t \in Tids : /\ \A p \in InHand(t) : p.id # i
                               /\ \A n \in DOMAIN q[t] : q[t][n].id # i
            /\ \A s \in sent : s.id # i
        BY <2>0, <2>1 DEF Apart, Gone, InFlight, AtWorker, InQueue
      <4>. QED BY <2>1, <4>1, InPlaces
    <3>. QED BY <3>1, FS_Singleton
  <2>2. ASSUME NEW s \in sent, s.id = i PROVE Cardinality(Places(i)) = 1
    <3>1. Places(i) = {<<"sent", s>>}
      <4>1. /\ \A p \in AtMain : p.id # i
            /\ \A t \in Tids : /\ \A p \in InHand(t) : p.id # i
                               /\ \A n \in DOMAIN q[t] : q[t][n].id # i
            /\ i \notin dropped /\ {r \in sent : r.id = i} = {s}
        BY <2>0, <2>2 DEF Apart, Gone, InFlight, AtWorker, InQueue
      <4>. QED BY <2>2, <4>1, InPlaces
    <3>. QED BY <3>1, FS_Singleton
  <2>3. ASSUME ~Gone(i), NEW p \in AtMain, p.id = i PROVE Cardinality(Places(i)) = 1
    <3>1. Places(i) = {<<"main">>}
      <4>1. /\ \A r \in AtMain : r = p
            /\ \A t \in Tids : /\ \A r \in InHand(t) : r.id # i
                               /\ \A n \in DOMAIN q[t] : q[t][n].id # i
            /\ i \notin dropped /\ \A s \in sent : s.id # i
        <5>1. \A t \in Tids : \A r \in AtWorker(t) : r.id # i
          BY <1>1, <2>3, OneIdEach DEF InFlight
        <5>. QED BY <1>1, <2>3, <5>1, Held DEF OnceInv, Gone, AtWorker, InQueue
      <4>. QED BY <2>3, <4>1, InPlaces
    <3>. QED BY <3>1, FS_Singleton
  <2>4. ASSUME ~Gone(i), NEW t \in Tids, NEW p \in InHand(t), p.id = i
        PROVE  Cardinality(Places(i)) = 1
    <3>1. Places(i) = {<<"hand", t>>}
      <4>1. /\ \A r \in AtMain : r.id # i
            /\ \A u \in Tids : u # t => /\ \A r \in InHand(u) : r.id # i
                                        /\ \A n \in DOMAIN q[u] : q[u][n].id # i
            /\ \A n \in DOMAIN q[t] : q[t][n].id # i
            /\ i \notin dropped /\ \A s \in sent : s.id # i
        <5>1. p \in AtWorker(t)
          BY DEF AtWorker
        <5>2. \A u \in Tids : \A r \in AtWorker(u) : r.id = i => u = t
          BY <2>0, <2>4, <5>1 DEF Apart
        <5>3. \A r \in AtMain : r.id # i
          BY <1>1, <2>4, <5>1, OneIdEach DEF InFlight
        <5>. QED BY <2>0, <2>4, <5>2, <5>3 DEF Gone, AtWorker, InQueue
      <4>. QED BY <2>4, <4>1, InPlaces
    <3>. QED BY <3>1, FS_Singleton
  <2>5. ASSUME ~Gone(i), NEW t \in Tids, NEW k \in DOMAIN q[t], q[t][k].id = i
        PROVE  Cardinality(Places(i)) = 1
    <3>1. Places(i) = {<<"queue", t, k>>}
      <4>1. /\ \A r \in AtMain : r.id # i
            /\ \A u \in Tids : u # t => /\ \A r \in InHand(u) : r.id # i
                                        /\ \A n \in DOMAIN q[u] : q[u][n].id # i
            /\ \A r \in InHand(t) : r.id # i
            /\ {n \in DOMAIN q[t] : q[t][n].id = i} = {k}
            /\ i \notin dropped /\ \A s \in sent : s.id # i
        <5>1. q[t][k] \in AtWorker(t)
          BY DEF AtWorker, InQueue
        <5>2. \A u \in Tids : \A r \in AtWorker(u) : r.id = i => u = t
          BY <2>0, <2>5, <5>1 DEF Apart
        <5>3. \A r \in AtMain : r.id # i
          BY <1>1, <2>5, <5>1, OneIdEach DEF InFlight
        <5>. QED BY <2>0, <2>5, <5>2, <5>3 DEF Gone, AtWorker, InQueue
      <4>. QED BY <2>5, <4>1, InPlaces
    <3>. QED BY <3>1, FS_Singleton
  <2>. QED BY <2>0, <2>1, <2>2, <2>3, <2>4, <2>5
          DEF Apart, Gone, InFlight, AtWorker, InQueue
<1>2. TunInv /\ OnceInv => Conserved
  BY <1>1 DEF Conserved
<1>. QED BY <1>2, TunInvAlways, OnceAlways, PTL
-----------------------------------------------------------------------------
(***************************************************************************)
(* Where packets belong in proper traffic.  HomeInv: a flow is opened by   *)
(* one client connection and claimed by the worker its ports choose, its   *)
(* home; all its packets, those of its server too, go there.               *)
(***************************************************************************)
(* The worker the ports of a connection choose, of a client's packets.     *)
Home(c) == (c.src6.port + c.dport) % T

ClientKey(c) == [cli |-> c.src6, srv |-> c.dst6]

FromClient(p) ==
  \E c \in Clients : /\ p.src6 = c.src6 /\ p.dst6 = c.dst6
                     /\ p.dport = c.dport /\ p.l4 = c.l4

(* Server packet p is for flow f.                                          *)
Answers(p, f) ==
  f \in DOMAIN flow /\ p.dst4 = flow[f].ip4p /\ p.src4.ip = flow[f].ip4srv

(* Each flow was opened by a client and is claimed by its home worker.     *)
FlowsAtHome ==
  \A f \in DOMAIN flow : \E c \in Clients :
    Key64Of(flow[f]) = ClientKey(c) /\ flow[f].tid \in {NoTid, Home(c)}

(* Where a packet comes from, and the worker t it belongs to.              *)
Sourced(p) ==
  /\ p.v = 6 => FromClient(p)
  /\ p.v = 4 => /\ HasTransport(p)
                /\ \E f \in DOMAIN flow : Answers(p, f) /\ flow[f].tid # NoTid

AtHome(p, t) ==
  HasTransport(p) =>
    /\ p.v = 6 => t = PortT(p) % T
    /\ p.v = 4 => \E f \in DOMAIN flow : Answers(p, f) /\ flow[f].tid = t

MainKnows ==
  /\ main.pc # "read" => Sourced(main.pkt)
  /\ main.pc = "pick" /\ main.flow # NoFlow /\ main.pkt.v = 6 =>
       Key64Of(flow[main.flow]) = Key64Pkt(main.pkt)
  /\ main.pc = "pick" /\ main.pkt.v = 4 =>
       Answers(main.pkt, main.flow) /\ flow[main.flow].tid # NoTid
  /\ main.pc = "push" => AtHome(main.pkt, main.tid)

(* What a worker knows of its flow.                                        *)
Knows(r) ==
  /\ r.pc \in {"map", "get", "tid", "claim", "send"} => HasTransport(r.pkt)
  /\ r.pc \in {"tid", "claim", "send"} /\ r.pkt.v = 6 =>
       Key64Of(flow[r.flow]) = Key64Pkt(r.pkt)
  /\ r.pc = "send" /\ r.pkt.v = 6 => flow[r.flow].tid # NoTid
  /\ r.pc = "send" /\ r.pkt.v = 4 => Answers(r.pkt, r.flow)

SentFromFlows ==
  \A s \in sent : s.v = 4 =>
    /\ HasTransport(s)
    /\ \E f \in DOMAIN flow : /\ s.src4 = flow[f].ip4p
                              /\ s.dst4.ip = flow[f].ip4srv
                              /\ flow[f].tid # NoTid

HomeInv ==
  /\ FlowsAtHome /\ MainKnows /\ SentFromFlows
  /\ \A w \in Tids : /\ Knows(wk[w])
                     /\ \A p \in AtWorker(w) : Sourced(p) /\ AtHome(p, w)

LEMMA HomeInit == TunInit => HomeInv
<1>. SUFFICES ASSUME TunInit PROVE HomeInv
  OBVIOUS
<1>1. /\ main.pc = "read" /\ sent = {} /\ DOMAIN flow = {}
      /\ \A t \in Tids : wk[t].pc = "idle" /\ wk[t].pkt = NoPkt /\ DOMAIN q[t] = {}
  BY DEF TunInit, SMInit, MainIdle, WorkerIdle
<1>2. \A t \in Tids : AtWorker(t) = {}
  BY <1>1 DEF AtWorker, InHand, InQueue
<1>. QED BY <1>1, <1>2 DEF HomeInv, FlowsAtHome, MainKnows, Knows, SentFromFlows

(* A client's packet finds the flow of its connection or none.             *)
LEMMA LookupOwn ==
  ASSUME TunInv, FlowsAtHome, ProperTraffic, NEW p, FromClient(p), Key64Pkt(p) \in Key64,
         Has64(Key64Pkt(p))
  PROVE  /\ At64(Key64Pkt(p)) \in DOMAIN flow
         /\ Key64Of(flow[At64(Key64Pkt(p))]) = Key64Pkt(p)
<1>. DEFINE k == Key64Pkt(p)
            x == CHOOSE y \in DOMAIN map64 : Key64Same(y, k)
<1>1. x \in DOMAIN map64 /\ Key64Same(x, k) /\ At64(k) = map64[x]
  BY DEF Has64, At64
<1>2. SMInv /\ x \in Key64
  BY <1>1, KeysAssumption DEF TunInv, SMInv, SMTypeOK
<1>3. map64[x] \in DOMAIN flow /\ Key64Of(flow[map64[x]]) = x
  BY <1>1, <1>2 DEF SMInv, SMTypeOK, Map64Inverse
<1>4. x.cli.port = k.cli.port
  <2>. HIDE DEF x, k
  <2>. QED BY <1>1, <1>2, Key64SameIsPort DEF k
<1>5. PICK c \in Clients : p.src6 = c.src6 /\ p.dst6 = c.dst6
  BY DEF FromClient
<1>6. PICK d \in Clients : x = ClientKey(d)
  BY <1>3 DEF FlowsAtHome
<1>7. c.src6.port = d.src6.port
  <2>. HIDE DEF x
  <2>. QED BY <1>4, <1>5, <1>6 DEF Key64Pkt, ClientKey
<1>8. c = d
  BY <1>7 DEF ProperTraffic
<1>9. x = k
  <2>. HIDE DEF x
  <2>. QED BY <1>5, <1>6, <1>8 DEF Key64Pkt, ClientKey
<1>. QED BY <1>1, <1>3, <1>9

(* A server's packet finds the flow it answers.                            *)
LEMMA LookupAnswered ==
  ASSUME TunInv, NEW p, NEW f \in DOMAIN flow, Answers(p, f)
  PROVE  /\ GetMapping46(Key46Pkt(p)) = f
         /\ \A g \in DOMAIN flow : Answers(p, g) => g = f
<1>1. SMInv
  BY DEF TunInv
<1>2. Key46Pkt(p) = Key46Of(flow[f])
  BY DEF Answers, Key46Pkt, Key46Of
<1>3. /\ Key46Of(flow[f]) \in DOMAIN map46 /\ map46[Key46Of(flow[f])] = f
  BY <1>1 DEF SMInv, Map46Inverse
<1>4. f # NoFlow
  BY <1>1, LenProperties DEF SMInv, SMTypeOK, NoFlow
<1>5. ASSUME NEW g \in DOMAIN flow, Answers(p, g) PROVE g = f
  <2>1. /\ Key46Of(flow[g]) \in DOMAIN map46 /\ map46[Key46Of(flow[g])] = g
    BY <1>1 DEF SMInv, Map46Inverse
  <2>2. Key46Of(flow[g]) = Key46Pkt(p)
    BY <1>5 DEF Answers, Key46Pkt, Key46Of
  <2>. QED BY <1>2, <1>3, <2>1, <2>2
<1>. QED BY <1>2, <1>3, <1>5 DEF GetMapping46

(* Conversely, what getMapping finds for a server's packet answers it.     *)
LEMMA FoundAnswers ==
  ASSUME TunInv, NEW p, GetMapping46(Key46Pkt(p)) # NoFlow
  PROVE  Answers(p, GetMapping46(Key46Pkt(p)))
<1>. DEFINE f == GetMapping46(Key46Pkt(p))
<1>1. SMInv
  BY DEF TunInv
<1>2. Key46Pkt(p) \in DOMAIN map46 /\ f = map46[Key46Pkt(p)]
  BY DEF GetMapping46
<1>3. f \in DOMAIN flow /\ Key46Of(flow[f]) = Key46Pkt(p)
  BY <1>1, <1>2 DEF SMInv, SMTypeOK, Map46Inverse
<1>. HIDE DEF f
<1>. QED BY <1>3 DEF Answers, Key46Pkt, Key46Of, f

LEMMA GetFlowFinds ==
  ASSUME TunInv, FlowsAtHome, ProperTraffic, NEW p \in Arrived, Sourced(p),
         GetFlow(p) # NoFlow
  PROVE  /\ HasTransport(p) /\ GetFlow(p) \in DOMAIN flow
         /\ p.v = 6 => Key64Of(flow[GetFlow(p)]) = Key64Pkt(p)
         /\ p.v = 4 => Answers(p, GetFlow(p))
<1>1. HasTransport(p)
  BY DEF GetFlow
<1>2. GetFlow(p) \in DOMAIN flow
  BY LookupTypes DEF GetFlow, TunInv, SMInv
<1>3. ASSUME p.v = 6 PROVE Key64Of(flow[GetFlow(p)]) = Key64Pkt(p)
  <2>1. Key64Pkt(p) \in Key64 /\ FromClient(p)
    <3>1. p \in Pkt6
      BY <1>3 DEF Arrived, Pkt4
    <3>2. p.src6 \in IP6Port /\ p.dst6 \in IPv6Addr
      BY <3>1 DEF Pkt6
    <3>. QED BY <1>3, <3>2 DEF Sourced, Key64Pkt, Key64
  <2>2. GetFlow(p) = GetMapping64(Key64Pkt(p))
    BY <1>1, <1>3 DEF GetFlow
  <2>3. Has64(Key64Pkt(p)) /\ GetFlow(p) = At64(Key64Pkt(p))
    BY <2>2 DEF GetMapping64
  <2>. QED BY <2>1, <2>3, LookupOwn
<1>4. ASSUME p.v = 4 PROVE Answers(p, GetFlow(p))
  <2>1. GetFlow(p) = GetMapping46(Key46Pkt(p))
    BY <1>1, <1>4 DEF GetFlow
  <2>. QED BY <2>1, FoundAnswers
<1>. QED BY <1>1, <1>2, <1>3, <1>4

(* A client's packet leads to one home worker, that of the flow with its   *)
(* key.                                                                    *)
LEMMA HomeOfPacket ==
  ASSUME TunInv, FlowsAtHome, ProperTraffic, NEW p, p.v = 6, FromClient(p),
         NEW f \in DOMAIN flow, Key64Of(flow[f]) = Key64Pkt(p)
  PROVE  flow[f].tid \in {NoTid, PortT(p) % T}
<1>1. PICK c \in Clients : p.src6 = c.src6 /\ p.dst6 = c.dst6 /\ p.dport = c.dport
  BY DEF FromClient
<1>2. PICK d \in Clients :
        Key64Of(flow[f]) = ClientKey(d) /\ flow[f].tid \in {NoTid, Home(d)}
  BY DEF FlowsAtHome
<1>3. d.src6 = c.src6
  BY <1>1, <1>2 DEF ClientKey, Key64Pkt
<1>4. c = d
  BY <1>3 DEF ProperTraffic
<1>. QED BY <1>1, <1>2, <1>4 DEF Home, PortT

(* Claimed flows stay claimed by the same worker.                          *)
TidsStay ==
  \A f \in DOMAIN flow :
    /\ f \in DOMAIN flow' /\ Binding(flow'[f]) = Binding(flow[f])
    /\ flow[f].tid # NoTid => flow'[f].tid = flow[f].tid

(* What a step does with flows.                                            *)
LEMMA FlowsStep ==
  ASSUME TunInv, HomeInv, ProperTraffic, FlowsGrow, TunNext
  PROVE  FlowsAtHome' /\ TidsStay
<1>0. FlowsAtHome /\ SMInv /\ WorkersOK
  BY DEF HomeInv, TunInv
<1>1. CASE flow' = flow
  BY <1>0, <1>1 DEF FlowsAtHome, TidsStay
<1>2. ASSUME NEW w \in Tids, Map6(w), flow' # flow
      PROVE  FlowsAtHome' /\ TidsStay
  <2>. DEFINE k == Key64Pkt(wk[w].pkt)
              n == Len(flow) + 1
  <2>1. wk[w].pc = "map" /\ wk[w].pkt.v = 6 /\ k \in Keys
    BY <1>0, <1>2, KeyFacts DEF Map6, At, WorkersOK, WorkerOK
  <2>2. ~Has64(k) /\ pool # <<>> /\ CreateMapping(k)
    BY <1>2 DEF Map6, DoMapping
  <2>3. /\ DOMAIN flow = 1 .. n - 1 /\ DOMAIN flow' = 1 .. n /\ n \in Nat \ {0}
        /\ \A f \in DOMAIN flow : flow'[f] = flow[f]
        /\ flow'[n] = NewFlow(k, Head(pool))
    BY <1>0, <2>1, <2>2, CreateMappingFacts
  <2>4. wk[w].pkt \in AtWorker(w)
    <3>1. wk[w].pkt \in Arrived
      BY <2>1, PacketFacts DEF TunInv
    <3>2. wk[w].pkt # NoPkt
      BY <3>1 DEF Arrived, NoPkt
    <3>. QED BY <3>2 DEF AtWorker, InHand
  <2>5. PICK c \in Clients : wk[w].pkt.src6 = c.src6 /\ wk[w].pkt.dst6 = c.dst6
    BY <2>1, <2>4 DEF HomeInv, Sourced, FromClient
  <2>6. Key64Of(flow'[n]) = ClientKey(c) /\ flow'[n].tid = NoTid
    BY <2>3, <2>5 DEF NewFlow, Key64Of, Key64Pkt, ClientKey
  <2>7. TidsStay
    BY <2>3 DEF TidsStay
  <2>8. \A f \in DOMAIN flow' : f = n \/ (f \in DOMAIN flow /\ flow'[f] = flow[f])
    <3>. HIDE DEF k
    <3>. QED BY <2>3
  <2>. HIDE DEF n
  <2>. QED BY <1>0, <2>6, <2>7, <2>8 DEF FlowsAtHome
<1>3. ASSUME NEW w \in Tids, Claim(w) PROVE FlowsAtHome' /\ TidsStay
  <2>. PICK f : f = wk[w].flow
    OBVIOUS
  <2>. PICK p : p = wk[w].pkt
    OBVIOUS
  <2>1. /\ wk[w].pc = "claim" /\ f \in DOMAIN flow /\ p.v = 6 /\ p \in Arrived
        /\ flow' = [flow EXCEPT ![f].tid = w]
    BY <1>0, <1>3 DEF Claim, At, WorkersOK, WorkerOK, SetTid
  <2>2. p \in AtWorker(w) /\ Key64Of(flow[f]) = Key64Pkt(p) /\ HasTransport(p)
    <3>1. p # NoPkt
      BY <2>1 DEF Arrived, NoPkt
    <3>. QED BY <2>1, <3>1 DEF HomeInv, Knows, AtWorker, InHand
  <2>3. FromClient(p) /\ w = PortT(p) % T
    BY <2>1, <2>2 DEF HomeInv, Sourced, AtHome
  <2>4. flow[f].tid \in {NoTid, w}
    BY <1>0, <2>1, <2>2, <2>3, HomeOfPacket
  <2>5. flow[f] \in FlowType
    BY <1>0, <2>1, LenProperties, ElementOfSeq DEF SMInv, SMTypeOK
  <2>6. /\ DOMAIN flow' = DOMAIN flow
        /\ flow'[f].tid = w /\ Binding(flow'[f]) = Binding(flow[f])
        /\ Key64Of(flow'[f]) = Key64Of(flow[f])
        /\ \A g \in DOMAIN flow : g # f => flow'[g] = flow[g]
    BY <2>1, <2>5 DEF FlowType, Binding, Key64Of
  <2>7. TidsStay
    BY <2>4, <2>6 DEF TidsStay
  <2>8. PICK c \in Clients : p.src6 = c.src6 /\ p.dst6 = c.dst6 /\ p.dport = c.dport
    BY <2>3 DEF FromClient
  <2>9. Key64Of(flow'[f]) = ClientKey(c) /\ w = Home(c)
    BY <2>1, <2>2, <2>3, <2>6, <2>8 DEF Key64Pkt, ClientKey, Home, PortT
  <2>10. FlowsAtHome'
    BY <1>0, <2>1, <2>6, <2>9 DEF FlowsAtHome
  <2>. QED BY <2>7, <2>10
<1>4. flow' = flow \/ \E w \in Tids : Map6(w) \/ Claim(w)
  BY DEF TunNext, Receive, Pick, Push, Worker, Pop, Filter6, Enter4, Filter4,
         ReadTid, Begin4, Send, smVars, IsAddrInRange4, SetCurIPv6SrvAddr
<1>. QED BY <1>1, <1>2, <1>3, <1>4

(* What is known of packets and flows outlives a step.                     *)
LEMMA KnownStays ==
  ASSUME TidsStay
  PROVE  /\ \A p, f : Answers(p, f) => Answers(p, f)'
         /\ \A p : Sourced(p) => Sourced(p)'
         /\ \A p, t : AtHome(p, t) /\ t \in Tids => AtHome(p, t)'
<1>1. \A f \in DOMAIN flow :
        /\ f \in DOMAIN flow' /\ flow'[f].ip4p = flow[f].ip4p
        /\ flow'[f].ip4srv = flow[f].ip4srv
        /\ flow[f].tid # NoTid => flow'[f].tid = flow[f].tid
  BY DEF TidsStay, Binding
<1>2. \A p, f : Answers(p, f) => Answers(p, f)'
  BY <1>1 DEF Answers
<1>3. \A p : Sourced(p) => Sourced(p)'
  BY <1>1, <1>2 DEF Sourced, FromClient
<1>4. ASSUME NEW p, NEW t \in Tids, AtHome(p, t) PROVE AtHome(p, t)'
  <2>1. t # NoTid
    BY DEF Tids, NoTid
  <2>. QED BY <1>1, <1>2, <1>4, <2>1 DEF AtHome
<1>. QED BY <1>2, <1>3, <1>4

(* Packets reach a worker through the main thread only.                    *)
LEMMA AtWorkerFromMain ==
  ASSUME TunInv, OnceInv, TunNext, NEW w \in Tids, NEW p \in AtWorker(w)'
  PROVE  p \in AtWorker(w) \/ (main.pc = "push" /\ p = main.pkt /\ w = main.tid)
<1>0. main = [pc |-> main.pc, pkt |-> main.pkt, flow |-> main.flow, tid |-> main.tid]
  BY DEF TunInv, MainOK
<1>1. CASE Receive
  <2>1. main.pc = "read"
    BY <1>1 DEF Receive
  <2>. QED BY <2>1, StepMoves DEF Moves, Arrives, Queued, Stays, Leaves
<1>2. CASE Pick
  <2>1. main'.pc = "push" /\ main.pc = "pick"
    BY <1>0, <1>2 DEF Pick
  <2>. QED BY <2>1, StepMoves DEF Moves, Arrives, Queued, Stays, Leaves
<1>3. CASE Push
  <2>. PICK t : t = main.tid
    OBVIOUS
  <2>1. Queued(t) /\ main.pc = "push"
    BY <1>3, PushQueues DEF OnceInv, Push
  <2>. QED BY <2>1 DEF Queued
<1>4. ASSUME NEW x \in Tids, Worker(x) PROVE p \in AtWorker(w)
  <2>1. main' = main
    BY <1>4 DEF Worker, Pop, Filter6, Enter4, Filter4, Map6, ReadTid, Claim, Begin4, Send
  <2>. QED BY <2>1, StepMoves DEF Moves, Arrives, Queued, Stays, Leaves
<1>. QED BY <1>1, <1>2, <1>3, <1>4 DEF TunNext

LEMMA PacketsAtHome ==
  ASSUME TunInv, OnceInv, HomeInv, TidsStay, TunNext, NEW w \in Tids
  PROVE  \A p \in AtWorker(w)' : Sourced(p)' /\ AtHome(p, w)'
<1>1. ASSUME NEW p \in AtWorker(w)' PROVE Sourced(p) /\ AtHome(p, w)
  <2>1. CASE p \in AtWorker(w)
    BY <2>1 DEF HomeInv
  <2>2. CASE main.pc = "push" /\ p = main.pkt /\ w = main.tid
    BY <2>2 DEF HomeInv, MainKnows
  <2>. QED BY <2>1, <2>2, AtWorkerFromMain
<1>. QED BY <1>1, KnownStays

(* The main thread finds the flow a packet belongs to and its worker.      *)
LEMMA MainKnowsStep ==
  ASSUME TunInv, HomeInv, ProperTraffic, TidsStay, TunNext
  PROVE  MainKnows'
<1>0. main = [pc |-> main.pc, pkt |-> main.pkt, flow |-> main.flow, tid |-> main.tid]
  BY DEF TunInv, MainOK
<1>1. CASE Receive
  <2>1. PICK p \in Arrivals :
          main' = [main EXCEPT !.pc = "pick", !.pkt = p, !.flow = GetFlow(p)]
    BY <1>1 DEF Receive
  <2>2. flow' = flow
    BY <1>1 DEF Receive, smVars
  <2>. PICK f : f = GetFlow(p)
    OBVIOUS
  <2>3. main'.pc = "pick" /\ main'.pkt = p /\ main'.flow = f
    <3>. HIDE DEF GetFlow
    <3>. QED BY <1>0, <2>1
  <2>4. /\ Sourced(p)
        /\ p.v = 4 => \E g \in DOMAIN flow : Answers(p, g) /\ flow[g].tid # NoTid
    <3>1. CASE \E c \in Clients : p = ClientPacket(c)
      BY <3>1 DEF ClientPacket, Sourced, FromClient
    <3>2. ASSUME NEW s \in Replies, p = ServerPacket(s)
          PROVE  p.v = 4 /\ HasTransport(p)
                 /\ \E g \in DOMAIN flow : Answers(p, g) /\ flow[g].tid # NoTid
      <4>1. PICK x \in sent :
              x.v = 4 /\ s = [src4 |-> x.dst4, dst4 |-> x.src4, l4 |-> x.l4]
        BY <3>2 DEF Replies
      <4>2. PICK g \in DOMAIN flow : /\ x.src4 = flow[g].ip4p
                                     /\ x.dst4.ip = flow[g].ip4srv
                                     /\ flow[g].tid # NoTid
        BY <4>1 DEF HomeInv, SentFromFlows
      <4>3. HasTransport(x)
        BY <4>1 DEF HomeInv, SentFromFlows
      <4>4. p.v = 4 /\ p.l4 = x.l4 /\ p.src4 = x.dst4 /\ p.dst4 = x.src4
        BY <3>2, <4>1 DEF ServerPacket
      <4>. QED BY <4>2, <4>3, <4>4 DEF Answers, HasTransport
    <3>. QED BY <3>1, <3>2, <2>1 DEF Arrivals, ProperTraffic, Sourced
  <2>5. p \in Pkt6 \cup Pkt4
    BY <2>1, ArrivalsTyped DEF TunInv
  <2>6. ASSUME p.v = 6, f # NoFlow PROVE Key64Of(flow[f]) = Key64Pkt(p)
    <3>1. p \in Pkt6 /\ HasTransport(p) /\ f = GetMapping64(Key64Pkt(p))
      BY <2>5, <2>6 DEF Pkt4, GetFlow
    <3>2. Key64Pkt(p) \in Key64
      BY <3>1 DEF Pkt6, Key64Pkt, Key64
    <3>3. Has64(Key64Pkt(p)) /\ f = At64(Key64Pkt(p))
      BY <2>6, <3>1 DEF GetMapping64
    <3>. QED BY <2>4, <2>6, <3>2, <3>3, LookupOwn DEF HomeInv, Sourced
  <2>7. ASSUME p.v = 4 PROVE Answers(p, f) /\ flow[f].tid # NoTid
    <3>1. PICK g \in DOMAIN flow : Answers(p, g) /\ flow[g].tid # NoTid
      BY <2>4, <2>7
    <3>2. f = GetMapping46(Key46Pkt(p))
      BY <2>4, <2>7 DEF GetFlow, Sourced
    <3>. QED BY <3>1, <3>2, LookupAnswered
  <2>. QED BY <2>2, <2>3, <2>4, <2>6, <2>7, KnownStays DEF MainKnows, Answers
<1>2. CASE Pick
  <2>1. PICK t \in PickTids(main.pkt, main.flow) :
          main' = [main EXCEPT !.pc = "push", !.tid = t]
    BY <1>2 DEF Pick
  <2>2. main.pc = "pick" /\ main'.pc = "push" /\ main'.pkt = main.pkt /\ main'.tid = t
    <3>. HIDE DEF PickTids
    <3>. QED BY <1>0, <1>2, <2>1 DEF Pick
  <2>. PICK p : p = main.pkt
    OBVIOUS
  <2>. PICK f : f = main.flow
    OBVIOUS
  <2>3. Sourced(p) /\ f \in {NoFlow} \cup DOMAIN flow /\ flow \in Seq(FlowType)
    BY <2>2 DEF HomeInv, MainKnows, TunInv, MainOK, SMInv, SMTypeOK
  <2>4. \A g \in DOMAIN flow : flow[g].tid \in Tids \cup {NoTid} /\ g # NoFlow
    <3>1. \A g \in DOMAIN flow : flow[g] \in FlowType /\ g \in 1 .. Len(flow)
      BY <2>3, LenProperties, ElementOfSeq
    <3>. QED BY <3>1 DEF FlowType, NoFlow
  <2>5. /\ f # NoFlow /\ flow[f].tid # NoTid => t = flow[f].tid
        /\ ~(f # NoFlow /\ flow[f].tid # NoTid) /\ HasTransport(p) => t = PortT(p) % T
    BY <2>1, <2>3, <2>4 DEF PickTids, HashTids, NoTid, Tids
  <2>6. AtHome(p, t)
    <3>1. ASSUME HasTransport(p), p.v = 6 PROVE t = PortT(p) % T
      <4>1. CASE f # NoFlow /\ flow[f].tid # NoTid
        <5>1. Key64Of(flow[f]) = Key64Pkt(p) /\ f \in DOMAIN flow
          BY <2>2, <2>3, <3>1, <4>1 DEF HomeInv, MainKnows
        <5>. QED BY <2>3, <2>5, <3>1, <4>1, <5>1, HomeOfPacket DEF HomeInv, Sourced
      <4>. QED BY <2>5, <3>1, <4>1
    <3>2. ASSUME p.v = 4 PROVE \E g \in DOMAIN flow : Answers(p, g) /\ flow[g].tid = t
      <4>1. Answers(p, f) /\ flow[f].tid # NoTid /\ f \in DOMAIN flow
        BY <2>2, <3>2 DEF HomeInv, MainKnows, Answers
      <4>. QED BY <2>4, <2>5, <4>1
    <3>. QED BY <3>1, <3>2 DEF AtHome
  <2>7. t \in Tids
    BY <2>1, <2>2, PickTidsTyped DEF TunInv, SMInv
  <2>. QED BY <2>2, <2>3, <2>6, <2>7, KnownStays DEF MainKnows
<1>3. CASE Push
  BY <1>3 DEF Push, MainKnows, MainIdle
<1>4. ASSUME NEW w \in Tids, Worker(w) PROVE MainKnows'
  <2>1. main' = main
    BY <1>4 DEF Worker, Pop, Filter6, Enter4, Filter4, Map6, ReadTid, Claim, Begin4, Send
  <2>2. main.flow # NoFlow => main.flow \in DOMAIN flow
    BY DEF TunInv, MainOK
  <2>3. \A f \in DOMAIN flow : /\ Key64Of(flow'[f]) = Key64Of(flow[f])
                               /\ flow[f].tid # NoTid => flow'[f].tid # NoTid
    BY DEF TidsStay, Binding, Key64Of
  <2>4. main.pc = "push" => main.tid \in Tids
    BY DEF TunInv, MainOK
  <2>. PICK p : p = main.pkt
    OBVIOUS
  <2>. PICK f : f = main.flow
    OBVIOUS
  <2>. PICK t : t = main.tid
    OBVIOUS
  <2>5. /\ main.pc # "read" => Sourced(p)'
        /\ main.pc = "pick" /\ p.v = 4 => Answers(p, f)'
        /\ main.pc = "push" => AtHome(p, t)'
    BY <2>4, KnownStays DEF HomeInv, MainKnows
  <2>6. /\ main.pc = "pick" /\ f # NoFlow /\ p.v = 6 => Key64Of(flow'[f]) = Key64Pkt(p)
        /\ main.pc = "pick" /\ p.v = 4 => flow'[f].tid # NoTid
    BY <2>2, <2>3 DEF HomeInv, MainKnows, Answers
  <2>. QED BY <2>1, <2>5, <2>6 DEF MainKnows
<1>. QED BY <1>1, <1>2, <1>3, <1>4 DEF TunNext

(* Knowledge of a flow outlives a step.                                    *)
LEMMA KnowsStays ==
  ASSUME TidsStay, NEW r, Knows(r), WorkerOK(r)
  PROVE  Knows(r)'
<1>1. r.pc \in {"tid", "claim", "send"} => r.flow \in DOMAIN flow
  BY DEF WorkerOK
<1>2. \A f \in DOMAIN flow : /\ Key64Of(flow'[f]) = Key64Of(flow[f])
                             /\ flow[f].tid # NoTid => flow'[f].tid # NoTid
  BY DEF TidsStay, Binding, Key64Of
<1>. QED BY <1>1, <1>2, KnownStays DEF Knows

(* The step of a worker with packet p that ends at pc with flow f.         *)
LEMMA GotoKnows ==
  ASSUME TunInv, NEW w \in Tids, NEW pc, NEW f, Goto(w, pc, f),
         NEW p, p = wk[w].pkt
  PROVE  /\ wk'[w] = [pc |-> pc, pkt |-> p, flow |-> f]
         /\ \A x \in Tids : x # w => wk'[x] = wk[x]
<1>1. wk[w] = [pc |-> wk[w].pc, pkt |-> p, flow |-> wk[w].flow] /\ DOMAIN wk = Tids
  BY DEF TunInv, WorkersOK, WorkerOK
<1>. QED BY <1>1 DEF Goto

LEMMA WorkersKnow ==
  ASSUME TunInv, HomeInv, ProperTraffic, TidsStay, TunNext
  PROVE  \A x \in Tids : Knows(wk[x])'
<1>0. /\ WorkersOK /\ \A x \in Tids : WorkerOK(wk[x]) /\ Knows(wk[x])
  BY DEF HomeInv, TunInv, WorkersOK
<1>1. ASSUME NEW x \in Tids, wk'[x] = wk[x] PROVE Knows(wk[x])'
  <2>. PICK r : r = wk[x]
    OBVIOUS
  <2>1. Knows(r)'
    BY <1>0, KnowsStays
  <2>. QED BY <1>1, <2>1 DEF Knows
<1>2. ASSUME NEW x \in Tids, wk'[x].pc \in {"idle", "range", "inmap", "torn"}
      PROVE  Knows(wk[x])'
  BY <1>2 DEF Knows
<1>3. CASE Receive \/ Pick \/ Push
  BY <1>1, <1>3 DEF Receive, Pick, Push
<1>4. ASSUME NEW w \in Tids, Worker(w) PROVE \A x \in Tids : Knows(wk[x])'
  <2>. PICK p : p = wk[w].pkt
    OBVIOUS
  <2>1. ASSUME NEW pc, NEW f, Goto(w, pc, f), HasTransport(p),
               pc \in {"tid", "claim", "send"} /\ p.v = 6 => Key64Of(flow'[f]) = Key64Pkt(p),
               pc = "send" /\ p.v = 6 => flow'[f].tid # NoTid,
               pc = "send" /\ p.v = 4 => Answers(p, f)'
        PROVE  \A x \in Tids : Knows(wk[x])'
    <3>1. /\ wk'[w] = [pc |-> pc, pkt |-> p, flow |-> f]
          /\ \A x \in Tids : x # w => wk'[x] = wk[x]
      BY <2>1, GotoKnows
    <3>2. Knows(wk[w])'
      BY <2>1, <3>1 DEF Knows
    <3>. QED BY <1>1, <3>1, <3>2
  <2>2. CASE wk' = [wk EXCEPT ![w] = WorkerIdle]
    <3>1. \A x \in Tids : wk'[x] = IF x = w THEN WorkerIdle ELSE wk[x]
      BY <1>0, <2>2 DEF WorkersOK
    <3>. QED BY <1>1, <1>2, <3>1 DEF WorkerIdle
  <2>3. CASE Die
    BY <1>1, <2>3 DEF Die
  <2>4. wk[w].pc \in {"map", "tid", "claim"} => p.v = 6 /\ wk[w].pkt \in Arrived
    BY <1>0 DEF WorkerOK
  <2>5. CASE Pop(w)
    <3>1. DOMAIN wk = Tids /\ wk[w] = [pc |-> wk[w].pc, pkt |-> p, flow |-> wk[w].flow]
      BY <1>0 DEF WorkersOK, WorkerOK
    <3>2. wk'[w].pc = "range" /\ \A x \in Tids : x # w => wk'[x] = wk[x]
      BY <2>5, <3>1 DEF Pop
    <3>. QED BY <1>1, <1>2, <3>2
  <2>6. CASE Filter6(w)
    BY <2>1, <2>2, <2>3, <2>6 DEF Filter6, Drop
  <2>7. CASE Enter4(w)
    <3>1. ASSUME NEW x \in Tids
          PROVE  wk'[x] = wk[x] \/ wk'[x].pc \in {"inmap", "torn"}
      <4>1. wk[x] = [pc |-> wk[x].pc, pkt |-> wk[x].pkt, flow |-> wk[x].flow]
        BY <1>0 DEF WorkerOK
      <4>2. \/ wk'[x] = wk[x]
            \/ wk'[x] = [wk[x] EXCEPT !.pc = "torn"]
            \/ wk'[x] = [wk[x] EXCEPT !.pc = "inmap"]
        BY <2>7 DEF Enter4, EnterMapPool, Die
      <4>. QED BY <4>1, <4>2
    <3>. QED BY <1>1, <1>2, <3>1
  <2>8. CASE Filter4(w)
    BY <2>1, <2>2, <2>3, <2>8 DEF Filter4, Drop
  <2>9. CASE Map6(w)
    <3>. DEFINE k == Key64Pkt(p)
                f == MappingResult(k)
    <3>1. wk[w].pc = "map" /\ DoMapping(k) /\ p.v = 6 /\ k \in Keys /\ HasTransport(p)
      BY <1>0, <2>4, <2>9, KeyFacts DEF Map6, At, Knows
    <3>2. FromClient(p)
      <4>1. p \in AtWorker(w)
        BY <2>4, <3>1 DEF Arrived, NoPkt, AtWorker, InHand
      <4>. QED BY <3>1, <4>1 DEF HomeInv, Sourced
    <3>3. ASSUME f # NoFlow PROVE Key64Of(flow'[f]) = k
      <4>1. CASE Has64(k)
        <5>1. f = At64(k) /\ flow' = flow
          BY <3>1, <4>1 DEF MappingResult, DoMapping
        <5>2. k \in Key64
          BY <3>1, KeysAssumption
        <5>. QED BY <3>2, <4>1, <5>1, <5>2, LookupOwn DEF HomeInv
      <4>2. CASE ~Has64(k)
        <5>1. pool # <<>> /\ CreateMapping(k) /\ f = Len(flow) + 1
          BY <3>1, <3>3, <4>2 DEF MappingResult, DoMapping
        <5>2. flow'[Len(flow) + 1] = NewFlow(k, Head(pool))
          BY <3>1, <4>2, <5>1, CreateMappingFacts DEF TunInv
        <5>. QED BY <3>1, <5>1, <5>2 DEF NewFlow, Key64Of, Key64Pkt
      <4>. QED BY <4>1, <4>2
    <3>4. (f # NoFlow /\ Goto(w, "tid", f)) \/ Die
      BY <2>9 DEF Map6
    <3>. HIDE DEF f, k
    <3>. QED BY <2>1, <2>3, <3>1, <3>3, <3>4 DEF k
  <2>10. CASE ReadTid(w) \/ Claim(w)
    <3>. PICK f : f = wk[w].flow
      OBVIOUS
    <3>1. /\ wk[w].pc \in {"tid", "claim"} /\ p.v = 6 /\ f \in DOMAIN flow
          /\ Key64Of(flow[f]) = Key64Pkt(p) /\ HasTransport(p)
      BY <1>0, <2>4, <2>10 DEF ReadTid, Claim, At, Knows, WorkerOK
    <3>2. Key64Of(flow'[f]) = Key64Pkt(p)
      BY <3>1 DEF TidsStay, Binding, Key64Of
    <3>3. Goto(w, "claim", f) \/ (Goto(w, "send", f) /\ flow'[f].tid # NoTid)
      <4>1. CASE ReadTid(w)
        BY <4>1 DEF ReadTid, smVars, NoTid
      <4>2. CASE Claim(w)
        <5>1. flow[f] \in FlowType
          BY <3>1, LenProperties, ElementOfSeq DEF TunInv, SMInv, SMTypeOK
        <5>2. flow'[f].tid = w
          BY <3>1, <4>2, <5>1 DEF Claim, SetTid, FlowType
        <5>. QED BY <4>2, <5>2 DEF Claim, Tids, NoTid
      <4>. QED BY <2>10, <4>1, <4>2
    <3>. QED BY <2>1, <3>1, <3>2, <3>3
  <2>11. CASE Begin4(w)
    <3>. PICK f : f = GetMapping46(Key46Pkt(p))
      OBVIOUS
    <3>1. wk[w].pc = "get" /\ p.v = 4 /\ HasTransport(p)
      BY <1>0, <2>11 DEF Begin4, At, Knows, WorkerOK
    <3>2. f # NoFlow => Answers(p, f)'
      BY FoundAnswers, KnownStays
    <3>. QED BY <2>1, <2>2, <2>11, <3>1, <3>2 DEF Begin4, Drop
  <2>12. CASE Send(w)
    BY <2>2, <2>3, <2>12 DEF Send, Drop
  <2>. QED BY <1>4, <2>5, <2>6, <2>7, <2>8, <2>9, <2>10, <2>11, <2>12 DEF Worker
<1>. QED BY <1>3, <1>4 DEF TunNext

LEMMA SentFromFlowsStep ==
  ASSUME TunInv, HomeInv, TidsStay, TunNext
  PROVE  SentFromFlows'
<1>1. \A f \in DOMAIN flow :
        /\ f \in DOMAIN flow' /\ flow'[f].ip4p = flow[f].ip4p
        /\ flow'[f].ip4srv = flow[f].ip4srv
        /\ flow[f].tid # NoTid => flow'[f].tid # NoTid
  BY DEF TidsStay, Binding
<1>2. CASE sent' = sent
  BY <1>1, <1>2 DEF HomeInv, SentFromFlows
<1>3. CASE Receive \/ Pick \/ Push
  BY <1>2, <1>3 DEF Receive, Pick, Push
<1>4. ASSUME NEW w \in Tids, Worker(w) PROVE SentFromFlows'
  <2>1. ASSUME wk[w].pc = "send",
               sent' = sent \cup {Translated(wk[w].pkt, wk[w].flow)}
        PROVE  SentFromFlows'
    <3>. PICK p : p = wk[w].pkt
      OBVIOUS
    <3>. PICK f : f = wk[w].flow
      OBVIOUS
    <3>. PICK s : s = Translated(p, f)
      OBVIOUS
    <3>1. /\ f \in DOMAIN flow /\ HasTransport(p)
          /\ p.v = 6 => Key64Of(flow[f]) = Key64Pkt(p) /\ flow[f].tid # NoTid
      BY <2>1 DEF HomeInv, Knows, TunInv, WorkersOK, WorkerOK
    <3>2. ASSUME s.v = 4
          PROVE  HasTransport(s) /\ s.src4 = flow[f].ip4p /\ s.dst4.ip = flow[f].ip4srv
                 /\ flow[f].tid # NoTid
      <4>1. p.v = 6
        BY <3>2 DEF Translated
      <4>2. /\ s.l4 = p.l4 /\ s.src4 = flow[f].ip4p /\ s.dst4.ip = p.dst6.low
        BY <4>1 DEF Translated, ServerAddr4
      <4>3. p.dst6 = flow[f].ip6srv
        BY <3>1, <4>1 DEF Key64Of, Key64Pkt
      <4>4. flow[f].ip6srv.low = flow[f].ip4srv
        <5>1. flow[f].ip6srv = ServerAddr6(flow[f].ip4srv)
          BY <3>1 DEF TunInv, ServersOK
        <5>. QED BY <5>1 DEF ServerAddr6
      <4>. QED BY <3>1, <4>1, <4>2, <4>3, <4>4 DEF HasTransport
    <3>. QED BY <1>1, <2>1, <3>1, <3>2 DEF HomeInv, SentFromFlows
  <2>2. sent' = sent \/ (wk[w].pc = "send"
                          /\ sent' = sent \cup {Translated(wk[w].pkt, wk[w].flow)})
    BY <1>4, WorkerMoves DEF Pop, Busy
  <2>. QED BY <1>2, <2>1, <2>2
<1>. QED BY <1>3, <1>4 DEF TunNext

LEMMA HomeNext ==
  ASSUME ProperTraffic
  PROVE  TunInv /\ OnceInv /\ HomeInv /\ [TunNext]_vars => HomeInv'
<1>. SUFFICES ASSUME TunInv, OnceInv, HomeInv, [TunNext]_vars PROVE HomeInv'
  OBVIOUS
<1>1. CASE TunNext
  <2>1. FlowsGrow
    BY <1>1, StepRefines, FlowsGrowStep DEF TunInv
  <2>2. FlowsAtHome' /\ TidsStay
    BY <1>1, <2>1, FlowsStep
  <2>. QED BY <1>1, <2>2, MainKnowsStep, SentFromFlowsStep, WorkersKnow, PacketsAtHome
              DEF HomeInv
<1>2. CASE UNCHANGED vars
  BY <1>2 DEF vars, smVars, tunVars, HomeInv, FlowsAtHome, MainKnows, SentFromFlows,
              Knows, AtWorker, InHand, InQueue, Sourced, AtHome, Answers
<1>. QED BY <1>1, <1>2

LEMMA HomeAlways ==
  ASSUME ProperTraffic PROVE TunSpec => []HomeInv
<1>. QED BY HomeInit, HomeNext, TunInvAlways, OnceAlways, PTL DEF TunSpec

(* In proper traffic, with any number of workers, all packets of a claimed *)
(* flow are with the worker that claimed it (tun.h:107-112,                *)
(* nat.cc:162-165).                                                        *)
THEOREM FlowsKeepTheirWorker ==
  ASSUME ProperTraffic PROVE TunSpec => []FlowAffinity
<1>1. ASSUME TunInv, OnceInv, HomeInv, NEW t \in Tids, NEW p \in AtWorker(t),
             GetFlow(p) # NoFlow, flow[GetFlow(p)].tid # NoTid
      PROVE  flow[GetFlow(p)].tid = t
  <2>. PICK f : f = GetFlow(p)
    OBVIOUS
  <2>1. p \in Arrived /\ Sourced(p) /\ AtHome(p, t)
    BY <1>1, Held DEF OnceInv, HomeInv
  <2>2. /\ HasTransport(p) /\ f \in DOMAIN flow
        /\ p.v = 6 => Key64Of(flow[f]) = Key64Pkt(p)
        /\ p.v = 4 => Answers(p, f)
    BY <1>1, <2>1, GetFlowFinds DEF HomeInv
  <2>3. p.v = 6 \/ p.v = 4
    BY <2>1 DEF Arrived, Pkt6, Pkt4
  <2>4. CASE p.v = 6
    BY <1>1, <2>1, <2>2, <2>4, HomeOfPacket DEF HomeInv, Sourced, AtHome
  <2>5. CASE p.v = 4
    <3>1. PICK g \in DOMAIN flow : Answers(p, g) /\ flow[g].tid = t
      BY <2>1, <2>2, <2>5 DEF AtHome
    <3>2. g = f
      BY <1>1, <2>2, <2>5, <3>1, LookupAnswered
    <3>. QED BY <3>1, <3>2
  <2>. QED BY <2>3, <2>4, <2>5
<1>2. TunInv /\ OnceInv /\ HomeInv => FlowAffinity
  BY <1>1 DEF FlowAffinity
<1>. QED BY <1>2, TunInvAlways, OnceAlways, HomeAlways, PTL
-----------------------------------------------------------------------------
(* What a worker is about to send is the oldest packet of its connection   *)
(* under way: a younger one is with the main thread or behind it in the    *)
(* queue of the same worker.                                               *)
LEMMA SendingOldest ==
  ASSUME TunInv, OnceInv, HomeInv, ProperTraffic,
         NEW w \in Tids, wk[w].pc = "send", NEW p, p = wk[w].pkt,
         NEW r \in InFlight, Conn(r) = Conn(p)
  PROVE  p.id <= r.id
<1>1. /\ p \in AtWorker(w) /\ p \in Arrived /\ HasTransport(p)
      /\ InHand(w) = {p} /\ p.id \in 1 .. nrecv /\ nrecv \in Nat
  BY Held DEF OnceInv, HomeInv, Knows, AtWorker, Arrived
<1>2. CASE r \in AtMain
  <2>1. r.id = nrecv
    BY <1>2, Held DEF OnceInv, HandsOK
  <2>. QED BY <1>1, <2>1
<1>3. ASSUME NEW u \in Tids, r \in AtWorker(u) PROVE p.id <= r.id
  <2>1. r \in Arrived /\ Sourced(p) /\ Sourced(r) /\ AtHome(p, w) /\ AtHome(r, u)
    BY <1>1, <1>3, Held DEF OnceInv, HomeInv
  <2>2. p.v \in {4, 6} /\ r.v \in {4, 6}
    BY <1>1, <2>1 DEF Arrived, Pkt6, Pkt4
  <2>3. /\ Conn(r)[1] = (IF r.v = 6 THEN 6 ELSE 4)
        /\ Conn(p)[1] = (IF p.v = 6 THEN 6 ELSE 4)
    BY DEF Conn
  <2>4. r.v = p.v
    BY <2>2, <2>3
  <2>5. u = w
    <3>1. CASE p.v = 6
      <4>1. r.src6 = p.src6 /\ r.dst6 = p.dst6 /\ r.dport = p.dport
        BY <2>4, <3>1 DEF Conn
      <4>2. PICK c \in Clients : p.src6 = c.src6 /\ p.l4 = c.l4
        BY <2>1, <3>1 DEF Sourced, FromClient
      <4>3. PICK d \in Clients : r.src6 = d.src6 /\ r.l4 = d.l4
        BY <2>1, <2>4, <3>1 DEF Sourced, FromClient
      <4>4. c = d
        BY <4>1, <4>2, <4>3 DEF ProperTraffic
      <4>5. HasTransport(r)
        BY <1>1, <4>2, <4>3, <4>4 DEF HasTransport
      <4>. QED BY <1>1, <2>1, <2>4, <3>1, <4>1, <4>5 DEF AtHome, PortT
    <3>2. CASE p.v = 4
      <4>1. r.src4 = p.src4 /\ r.dst4 = p.dst4 /\ HasTransport(r)
        BY <2>1, <2>4, <3>2 DEF Conn, Sourced
      <4>2. PICK f \in DOMAIN flow : Answers(p, f) /\ flow[f].tid = w
        BY <1>1, <2>1, <3>2 DEF AtHome
      <4>3. PICK g \in DOMAIN flow : Answers(r, g) /\ flow[g].tid = u
        BY <2>1, <2>4, <3>2, <4>1 DEF AtHome
      <4>4. Answers(p, g)
        BY <4>1, <4>3 DEF Answers
      <4>5. g = f
        BY <4>2, <4>4, LookupAnswered
      <4>. QED BY <4>2, <4>3, <4>5
    <3>. QED BY <2>2, <3>1, <3>2
  <2>6. CASE r \in InHand(w)
    BY <1>1, <2>6
  <2>7. ASSUME NEW n \in DOMAIN q[w], r = q[w][n] PROVE p.id <= r.id
    <3>1. p.id < r.id
      BY <2>7 DEF OnceInv, LinesOK
    <3>2. p.id \in Nat /\ r.id \in Nat
      BY <1>1, <2>1 DEF Arrived
    <3>. QED BY <3>1, <3>2
  <2>. QED BY <1>1, <1>3, <2>5, <2>6, <2>7 DEF AtWorker, InQueue
<1>. QED BY <1>2, <1>3 DEF InFlight

(* What leaves for the raw sockets leaves the hands of a worker.           *)
LEMMA SentFromHand ==
  ASSUME TunInv, OnceInv, TunNext, sent' # sent
  PROVE  \E w \in Tids :
           /\ wk[w].pc = "send" /\ Leaves(w)
           /\ sent' = sent \cup {Translated(wk[w].pkt, wk[w].flow)}
<1>1. PICK w \in Tids : Worker(w)
  BY DEF TunNext, Receive, Pick, Push
<1>2. ~Pop(w) /\ ~Busy
  BY DEF Pop, Busy
<1>. QED BY <1>1, <1>2, WorkerMoves, IdleLeaves

(* Packets of a connection leave in the order they came, however many      *)
(* workers send (tun.h:107-122).                                           *)
THEOREM ConnectionsKeepOrder ==
  ASSUME ProperTraffic PROVE TunSpec => InOrder
<1>. DEFINE A == \A p \in InFlight : (\E s \in sent' \ sent : s.id = p.id) =>
                   \A r \in InFlight : Conn(r) = Conn(p) => p.id <= r.id
<1>1. ASSUME TunInv, OnceInv, HomeInv, TunNext,
             NEW p \in InFlight, NEW s \in sent' \ sent, s.id = p.id,
             NEW r \in InFlight, Conn(r) = Conn(p)
      PROVE  p.id <= r.id
  <2>1. PICK w \in Tids :
          /\ wk[w].pc = "send" /\ Leaves(w)
          /\ sent' = sent \cup {Translated(wk[w].pkt, wk[w].flow)}
    BY <1>1, SentFromHand
  <2>2. s.id = wk[w].pkt.id
    BY <2>1 DEF Translated
  <2>3. p = wk[w].pkt
    BY <1>1, <2>1, <2>2, OneIdEach, LeavingInFlight
  <2>. QED BY <1>1, <2>1, <2>3, SendingOldest
<1>2. TunInv /\ OnceInv /\ HomeInv /\ [TunNext]_vars => [A]_vars
  BY <1>1
<1>. QED BY <1>2, TunInvAlways, OnceAlways, HomeAlways, PTL DEF TunSpec, InOrder
-----------------------------------------------------------------------------
(* The ports the gateway has given to the clients' connections, as its     *)
(* users see them.                                                         *)
Bound == [k \in DOMAIN map64 |-> flow[map64[k]].ip4p]

LEMMA BoundStays ==
  ASSUME TunInv, FlowsGrow, map64' = map64
  PROVE  Bound' = Bound
<1>1. \A k \in DOMAIN map64 : map64[k] \in DOMAIN flow
  BY DEF TunInv, SMInv, SMTypeOK
<1>2. \A f \in DOMAIN flow : flow'[f].ip4p = flow[f].ip4p
  BY DEF FlowsGrow, Binding
<1>. QED BY <1>1, <1>2 DEF Bound

(* A new binding takes a port nobody has.                                  *)
LEMMA BoundGrows ==
  ASSUME TunInv, NEW k \in Keys, ~Has64(k), pool # <<>>, CreateMapping(k),
         NEW e, e = Head(pool)
  PROVE  /\ k \notin DOMAIN Bound
         /\ e \in {[ip |-> PoolAddr, port |-> n] : n \in MinPort .. MaxPort}
         /\ \A x \in DOMAIN Bound : Bound[x] # e
         /\ DOMAIN Bound' = DOMAIN Bound \cup {k}
         /\ \A x \in DOMAIN Bound' : Bound'[x] = IF x = k THEN e ELSE Bound[x]
<1>1. SMInv
  BY DEF TunInv
<1>. DEFINE n == Len(flow) + 1
<1>2. /\ DOMAIN flow = 1 .. n - 1 /\ DOMAIN flow' = 1 .. n /\ n \in Nat \ {0}
      /\ \A f \in DOMAIN flow : flow'[f] = flow[f]
      /\ flow'[n] = NewFlow(k, e) /\ k \notin DOMAIN map64
      /\ e = [ip |-> PoolAddr, port |-> MinPort + Len(flow)]
      /\ DOMAIN map64' = DOMAIN map64 \cup {k} /\ map64'[k] = n
      /\ \A x \in DOMAIN map64 : map64'[x] = map64[x]
  BY <1>1, CreateMappingFacts
<1>3. /\ \A x \in DOMAIN map64 : map64[x] \in DOMAIN flow
      /\ \A f \in DOMAIN flow :
           flow[f].ip4p = [ip |-> PoolAddr, port |-> MinPort + f - 1]
      /\ Len(flow) + Len(pool) = MaxPort - MinPort + 1
      /\ Len(flow) \in Nat /\ Len(pool) \in Nat \ {0}
  <2>1. Len(pool) \in Nat \ {0} /\ Len(flow) \in Nat
    BY <1>1, LenProperties, EmptySeq DEF SMInv, SMTypeOK
  <2>. QED BY <1>1, <2>1 DEF SMInv, SMTypeOK, PoolIsRest
<1>4. MinPort + Len(flow) \in MinPort .. MaxPort
  BY <1>3, PoolAssumption
<1>5. ASSUME NEW x \in DOMAIN map64 PROVE Bound[x] # e
  <2>1. PICK f \in DOMAIN flow : f = map64[x]
    BY <1>3
  <2>2. Bound[x] = [ip |-> PoolAddr, port |-> MinPort + f - 1]
    BY <1>3, <2>1 DEF Bound
  <2>3. f \in 1 .. Len(flow)
    BY <1>2, <1>3
  <2>4. MinPort + f - 1 # MinPort + Len(flow)
    BY <1>3, <2>3, PoolAssumption
  <2>5. Bound[x].port = MinPort + f - 1 /\ e.port = MinPort + Len(flow)
    BY <1>2, <2>2
  <2>. QED BY <2>4, <2>5
<1>6. ASSUME NEW x \in DOMAIN map64'
      PROVE  Bound'[x] = IF x = k THEN e ELSE Bound[x]
  <2>1. flow'[n].ip4p = e
    BY <1>2 DEF NewFlow
  <2>2. Bound'[x] = flow'[map64'[x]].ip4p
    BY DEF Bound
  <2>3. CASE x = k
    BY <1>2, <2>1, <2>2, <2>3
  <2>4. CASE x # k
    BY <1>2, <1>3, <2>2, <2>4 DEF Bound
  <2>. QED BY <2>3, <2>4
<1>7. DOMAIN Bound = DOMAIN map64 /\ DOMAIN Bound' = DOMAIN map64'
  BY DEF Bound
<1>. QED BY <1>2, <1>4, <1>5, <1>6, <1>7

(* Only doMapping changes map64_, and it moves no packet.                  *)
LEMMA MapSteps ==
  ASSUME TunInv, OnceInv, TunNext, map64' # map64
  PROVE  \E w \in Tids : LET k == Key64Pkt(wk[w].pkt) IN
           /\ wk[w].pc = "map" /\ Stays
           /\ ~Has64(k) /\ pool # <<>> /\ CreateMapping(k)
<1>1. PICK w \in Tids : Map6(w)
  BY DEF TunNext, Receive, Pick, Push, Worker, Pop, Filter6, Enter4, Filter4, ReadTid,
         Claim, Begin4, Send, smVars, IsAddrInRange4, SetTid, SetCurIPv6SrvAddr
<1>. DEFINE k == Key64Pkt(wk[w].pkt)
<1>2. wk[w].pc = "map" /\ DoMapping(k)
  BY <1>1 DEF Map6, At
<1>3. ~Has64(k) /\ pool # <<>> /\ CreateMapping(k)
  BY <1>2 DEF DoMapping
<1>4. Busy
  <2>1. (\E f : Goto(w, "tid", f)) \/ Die
    BY <1>1 DEF Map6
  <2>2. q' = q /\ main' = main /\ nrecv' = nrecv /\ sent' = sent
    BY <1>1 DEF Map6
  <2>3. CASE Die
    BY <2>2, <2>3 DEF Die, Busy
  <2>4. ASSUME NEW f, Goto(w, "tid", f) PROVE Busy
    <3>1. dropped' = dropped
      BY <2>4 DEF Goto
    <3>. QED BY <1>2, <2>2, <2>4, <3>1, GotoBusy DEF Busy
  <2>. QED BY <2>1, <2>3, <2>4
<1>. QED BY <1>2, <1>3, <1>4, BusyStays

(* A packet on its way to a server, or to a client, as the service sees    *)
(* it.                                                                     *)
LEMMA SendsToServer ==
  ASSUME TunInv, OnceInv, HomeInv, NEW w \in Tids, wk[w].pc = "send",
         NEW p, p = wk[w].pkt, p.v = 6
  PROVE  /\ Key64Pkt(p) \in DOMAIN Bound
         /\ Translated(p, wk[w].flow) =
              [id |-> p.id, v |-> 4, l4 |-> p.l4, src4 |-> Bound[Key64Pkt(p)],
               dst4 |-> [ip |-> p.dst6.low, port |-> p.dport]]
<1>. PICK f : f = wk[w].flow
  OBVIOUS
<1>1. f \in DOMAIN flow /\ Key64Of(flow[f]) = Key64Pkt(p)
  BY DEF HomeInv, Knows, TunInv, WorkersOK, WorkerOK
<1>2. Key64Of(flow[f]) \in DOMAIN map64 /\ map64[Key64Of(flow[f])] = f
  BY <1>1 DEF TunInv, SMInv, Map64Inverse
<1>. QED BY <1>1, <1>2 DEF Bound, Translated, ServerAddr4

LEMMA SendsToClient ==
  ASSUME TunInv, OnceInv, HomeInv, NEW w \in Tids, wk[w].pc = "send",
         NEW p, p = wk[w].pkt, p.v = 4
  PROVE  \E k \in DOMAIN Bound :
           /\ Bound[k] = p.dst4 /\ k.srv.low = p.src4.ip
           /\ Translated(p, wk[w].flow) =
                [id |-> p.id, v |-> 6, l4 |-> p.l4, dst6 |-> k.cli,
                 src6 |-> [ip |-> [net |-> Prefix, low |-> p.src4.ip],
                           port |-> p.src4.port]]
<1>. PICK f : f = wk[w].flow
  OBVIOUS
<1>1. Answers(p, f)
  BY DEF HomeInv, Knows
<1>. PICK k : k = Key64Of(flow[f])
  OBVIOUS
<1>2. k \in DOMAIN map64 /\ map64[k] = f
  BY <1>1 DEF TunInv, SMInv, Map64Inverse, Answers
<1>3. flow[f].ip6srv = ServerAddr6(flow[f].ip4srv)
  BY <1>1 DEF TunInv, ServersOK, Answers
<1>4. k.srv.low = p.src4.ip
  <2>1. k.srv = ServerAddr6(flow[f].ip4srv)
    BY <1>3 DEF Key64Of
  <2>. QED BY <1>1, <2>1 DEF ServerAddr6, Answers
<1>5. k \in DOMAIN Bound /\ Bound[k] = p.dst4 /\ k.cli = flow[f].ip6p
  BY <1>1, <1>2 DEF Bound, Answers, Key64Of
<1>6. Translated(p, f) =
        [id |-> p.id, v |-> 6, l4 |-> p.l4, dst6 |-> k.cli,
         src6 |-> [ip |-> [net |-> Prefix, low |-> p.src4.ip], port |-> p.src4.port]]
  BY <1>5 DEF Translated, ServerAddr6
<1>. QED BY <1>4, <1>5, <1>6

(* Each step of the threads is one of the service's or none.               *)
LEMMA ServiceStep ==
  ASSUME TunInv, TunInv', OnceInv, OnceInv', HomeInv, ProperTraffic, TunNext
  PROVE  Service!Next \/ UNCHANGED Service!serviceVars
<1>0. FlowsGrow /\ HandsOK /\ HandsOK'
  BY StepRefines, FlowsGrowStep DEF OnceInv, TunInv
<1>1. ASSUME map64' # map64 PROVE Service!Next
  <2>1. PICK w \in Tids : LET k == Key64Pkt(wk[w].pkt) IN
          /\ wk[w].pc = "map" /\ Stays
          /\ ~Has64(k) /\ pool # <<>> /\ CreateMapping(k)
    BY <1>1, MapSteps
  <2>. PICK p : p = wk[w].pkt
    OBVIOUS
  <2>2. p.v = 6 /\ Key64Pkt(p) \in Keys
    BY <2>1, KeyFacts DEF TunInv, WorkersOK, WorkerOK
  <2>3. p \in InFlight
    BY <2>1, Held DEF OnceInv, AtWorker, InFlight
  <2>4. InFlight' = InFlight /\ sent' = sent
    BY <1>0, <2>1, InFlightMoves DEF Stays
  <2>. PICK e : e = Head(pool)
    OBVIOUS
  <2>. PICK k : k = Key64Pkt(p)
    OBVIOUS
  <2>5. k \in Keys /\ ~Has64(k) /\ pool # <<>> /\ CreateMapping(k)
    BY <2>1, <2>2
  <2>6. /\ k \notin DOMAIN Bound
        /\ e \in {[ip |-> PoolAddr, port |-> n] : n \in MinPort .. MaxPort}
        /\ \A x \in DOMAIN Bound : Bound[x] # e
        /\ DOMAIN Bound' = DOMAIN Bound \cup {k}
        /\ \A x \in DOMAIN Bound' : Bound'[x] = IF x = k THEN e ELSE Bound[x]
    BY <2>5, BoundGrows
  <2>7. Service!Bind
    <3>1. Service!KeyOf(p) = k
      BY DEF Service!KeyOf, Key64Pkt
    <3>2. /\ Service!KeyOf(p) \notin DOMAIN Bound
          /\ DOMAIN Bound' = DOMAIN Bound \cup {Service!KeyOf(p)}
          /\ \A x \in DOMAIN Bound' :
               Bound'[x] = IF x = Service!KeyOf(p) THEN e ELSE Bound[x]
      BY <2>6, <3>1
    <3>3. Bound' = [x \in DOMAIN Bound' |-> Bound'[x]]
      BY DEF Bound
    <3>4. Bound' = [x \in DOMAIN Bound \cup {Service!KeyOf(p)} |->
                     IF x = Service!KeyOf(p) THEN e ELSE Bound[x]]
      BY <3>2, <3>3
    <3>5. UNCHANGED <<InFlight, sent>>
      BY <2>4
    <3>6. /\ p.v = 6 /\ Service!KeyOf(p) \notin DOMAIN Bound
          /\ \A x \in DOMAIN Bound : Bound[x] # e
          /\ Bound' = [x \in DOMAIN Bound \cup {Service!KeyOf(p)} |->
                         IF x = Service!KeyOf(p) THEN e ELSE Bound[x]]
          /\ UNCHANGED <<InFlight, sent>>
      BY <2>2, <2>6, <3>2, <3>4, <3>5
    <3>7. e \in {[ip |-> PoolAddr, port |-> n] : n \in MinPort .. MaxPort}
      BY <2>6
    <3>. HIDE <2>1
    <3>. QED BY <2>3, <3>6, <3>7, ZenonT(60) DEF Service!Bind, Bound
  <2>. QED BY <2>7 DEF Service!Next
<1>2. ASSUME map64' = map64 PROVE Service!Next \/ UNCHANGED Service!serviceVars
  <2>1. Bound' = Bound
    BY <1>0, <1>2, BoundStays
  <2>2. ASSUME NEW p \in Arrivals, Arrives(p) PROVE Service!Next
    <3>1. InFlight' = InFlight \cup {p} /\ sent' = sent
      BY <1>0, <2>2, InFlightMoves DEF Arrives
    <3>2. Service!Accept
      BY <2>1, <3>1 DEF Service!Accept, Bound
    <3>. QED BY <3>2 DEF Service!Next
  <2>3. CASE Stays \/ \E t \in Tids : Queued(t)
    <3>1. InFlight' = InFlight /\ sent' = sent
      BY <1>0, <2>3, InFlightMoves DEF Stays, Queued
    <3>. QED BY <2>1, <3>1 DEF Service!serviceVars, Bound
  <2>4. ASSUME NEW w \in Tids, Leaves(w), sent' = sent PROVE Service!Next
    <3>. PICK p : p = wk[w].pkt
      OBVIOUS
    <3>1. InFlight' = InFlight \ {p} /\ p \in InFlight
      BY <2>4, LeavingInFlight
    <3>2. Service!Discard
      BY <2>1, <2>4, <3>1 DEF Service!Discard, Bound
    <3>. QED BY <3>2 DEF Service!Next
  <2>5. ASSUME sent' # sent PROVE Service!Next
    <3>1. PICK w \in Tids :
            /\ wk[w].pc = "send" /\ Leaves(w)
            /\ sent' = sent \cup {Translated(wk[w].pkt, wk[w].flow)}
      BY <2>5, SentFromHand
    <3>. PICK p : p = wk[w].pkt
      OBVIOUS
    <3>2. InFlight' = InFlight \ {p} /\ p \in InFlight /\ p.v \in {4, 6}
      BY <3>1, LeavingInFlight DEF Arrived, Pkt4, Pkt6
    <3>3. Service!Oldest(p)
      BY <3>1, SendingOldest DEF Service!Oldest, Service!Conn, Conn
    <3>4. CASE p.v = 6
      <4>1. Service!Forward
        BY <2>1, <3>1, <3>2, <3>3, <3>4, SendsToServer
           DEF Service!Forward, Service!ToServer, Service!KeyOf, Bound, Key64Pkt
      <4>. QED BY <4>1 DEF Service!Next
    <3>5. CASE p.v = 4
      <4>1. PICK k \in DOMAIN Bound :
              /\ Bound[k] = p.dst4 /\ k.srv.low = p.src4.ip
              /\ Translated(p, wk[w].flow) =
                   [id |-> p.id, v |-> 6, l4 |-> p.l4, dst6 |-> k.cli,
                    src6 |-> [ip |-> [net |-> Prefix, low |-> p.src4.ip],
                              port |-> p.src4.port]]
        BY <3>1, <3>5, SendsToClient
      <4>2. Service!Answer
        BY <2>1, <3>1, <3>2, <3>3, <3>5, <4>1
           DEF Service!Answer, Service!ToClient, Bound
      <4>. QED BY <4>2 DEF Service!Next
    <3>. QED BY <3>2, <3>4, <3>5
  <2>. QED BY <2>2, <2>3, <2>4, <2>5, StepMoves DEF Moves
<1>. QED BY <1>1, <1>2

(* To its users the gateway is the service of Nat64Service: every          *)
(* connection gets a pool port of its own for ever, and what leaves is     *)
(* translated by it, in order (tun.h:96-123, nat.cc:72-213,                *)
(* state.cc:72-121).                                                       *)
THEOREM TunImplementsService ==
  ASSUME ProperTraffic PROVE TunSpec => ServiceImplemented
<1>1. TunInit => Service!Init
  <2>. SUFFICES ASSUME TunInit PROVE Service!Init
    OBVIOUS
  <2>1. InFlight = {}
    BY DEF TunInit, InFlight, AtMain, AtWorker, InHand, InQueue, MainIdle, WorkerIdle
  <2>2. sent = {} /\ DOMAIN map64 = {}
    BY DEF TunInit, SMInit
  <2>3. [k \in DOMAIN map64 |-> flow[map64[k]].ip4p] = [k \in {} |-> 0]
    BY <2>2
  <2>. QED BY <2>1, <2>2, <2>3 DEF Service!Init
<1>2. TunInv /\ TunInv' /\ OnceInv /\ OnceInv' /\ HomeInv /\ [TunNext]_vars
        => [Service!Next]_(Service!serviceVars)
  <2>. SUFFICES ASSUME TunInv, TunInv', OnceInv, OnceInv', HomeInv, [TunNext]_vars
                PROVE  Service!Next \/ UNCHANGED Service!serviceVars
    OBVIOUS
  <2>1. CASE UNCHANGED vars
    BY <2>1 DEF vars, smVars, tunVars, Service!serviceVars, InFlight, AtMain, AtWorker,
                InHand, InQueue
  <2>. QED BY <2>1, ServiceStep
<1>. QED BY <1>1, <1>2, TunInvAlways, OnceAlways, HomeAlways, PTL
        DEF TunSpec, ServiceImplemented, Service!Spec
=============================================================================
