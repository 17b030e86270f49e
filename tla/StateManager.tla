---------------------------- MODULE StateManager ----------------------------
(***************************************************************************)
(* The shared state of the translator, class StateManager (state.cc): the  *)
(* pool of IPv4 ports, the two tables that map a client's flow to its port *)
(* and back, and the Flow objects themselves.                              *)
(*                                                                         *)
(* The object has no thread of its own.  Its operations are the actions    *)
(* below, each one atomic because the code holds smutex throughout (or     *)
(* because it is a single store); module Tun composes them with the        *)
(* threads that call them.                                                 *)
(***************************************************************************)
EXTENDS Addr, Sequences

CONSTANTS
  Prefix,     (* upper 96 bits of the configured IPv6Prefix              *)
  PoolAddr,   (* the configured IPv4Pool address                         *)
  MinPort,    (* MIN_PORT                                                *)
  MaxPort,    (* MAX_PORT                                                *)
  Keys,       (* the (client endpoint, server) pairs that may be mapped  *)
  Dest4,      (* IPv4 destinations that arrive on the tunnel             *)
  T           (* number of worker threads                                *)

ASSUME PoolAssumption ==
  /\ Prefix \in Nat /\ PoolAddr \in Nat
  /\ MinPort \in Nat \ {0} /\ MaxPort \in Nat /\ MinPort <= MaxPort

(* Only packets for an address under the prefix reach the tables.          *)
ASSUME KeysAssumption ==
  /\ Keys \subseteq {k \in Key64 : k.srv.net = Prefix}
  /\ Dest4 \subseteq Nat

ASSUME ThreadsAssumption == T \in Nat \ {0}

VARIABLES
  pool,       (* pool_: ports not handed out, in queue order             *)
  mapPool,    (* map_pool_: IPv4 address |-> is it a pool address        *)
  map64,      (* map64_: Key64 |-> flow                                  *)
  map46,      (* map46_: Key46 |-> flow                                  *)
  flow,       (* the heap of Flow objects, in order of creation          *)
  ip6srvCur   (* ip6srv_cur_                                             *)

smVars == <<pool, mapPool, map64, map46, flow, ip6srvCur>>

Tids == 0 .. T - 1
NoTid == -1

(* The FlowPtr that points to nothing; other flows are indices of flow.    *)
NoFlow == 0

-----------------------------------------------------------------------------
(***************************************************************************)
(* Addresses under the prefix: a server's IPv4 address sits in the last    *)
(* word of its IPv6 address.                                               *)
(***************************************************************************)
ServerAddr6(ip) == [net |-> Prefix, low |-> ip]
ServerAddr4(ip) == ip.low

AddrInRange6(ip) == ip.net = Prefix

(* map_pool_[ip] of the code inserts FALSE for an address it does not hold. *)
AddrInRange4(ip) == ip \in DOMAIN mapPool /\ mapPool[ip]
TouchMapPool(ip) ==
  mapPool' = [a \in DOMAIN mapPool \cup {ip} |->
                IF a \in DOMAIN mapPool THEN mapPool[a] ELSE FALSE]

-----------------------------------------------------------------------------
(***************************************************************************)
(* Lookups.  std::map finds the entry whose key is equivalent to the one   *)
(* asked for.  Equivalent keys of map46 are equal (Key46SameIsEqual in     *)
(* StateManagerProofs), so map46 is an ordinary function.                  *)
(***************************************************************************)
Has64(k) == \E x \in DOMAIN map64 : Key64Same(x, k)
At64(k)  == map64[CHOOSE x \in DOMAIN map64 : Key64Same(x, k)]

(* Faulty variant, for a mutant only: any server may use the port.         *)
GetMapping46AnyServer(k) ==
  IF \E x \in DOMAIN map46 : x.ip4p = k.ip4p
  THEN map46[CHOOSE x \in DOMAIN map46 : x.ip4p = k.ip4p] ELSE NoFlow

GetMapping64(k) == IF Has64(k) THEN At64(k) ELSE NoFlow
GetMapping46(k) == IF k \in DOMAIN map46 THEN map46[k] ELSE NoFlow

(* The map m with m[k] = v assigned.                                       *)
Assign(m, k, v) == [x \in DOMAIN m \cup {k} |-> IF x = k THEN v ELSE m[x]]

(* Faulty variant, for a mutant only: the constructor forgets tid(-1).      *)
NewFlowNoTid(k, p) ==
  [ip6p   |-> k.cli, ip4p   |-> p,
   ip6srv |-> k.srv, ip4srv |-> ServerAddr4(k.srv), tid |-> T]

(* The constructor Flow(ip6p, ip4p, ip6srv, ip4srv).                       *)
NewFlow(k, p) ==
  [ip6p   |-> k.cli,
   ip4p   |-> p,
   ip6srv |-> k.srv,
   ip4srv |-> ServerAddr4(k.srv),
   tid    |-> NoTid]

(* What doMapping(k) returns in the current state.                         *)
MappingResult(k) ==
  IF Has64(k) THEN At64(k)
  ELSE IF pool # <<>> THEN Len(flow) + 1 ELSE NoFlow

(* Faulty variants, for the mutants only: pool_.pop() forgotten; the        *)
(* second table not filled.                                                 *)
CreateMappingNoPop(k) ==
  LET p == Head(pool)
      f == Len(flow) + 1
  IN  /\ pool'  = pool
      /\ flow'  = Append(flow, NewFlow(k, p))
      /\ map64' = Assign(map64, k, f)
      /\ map46' = Assign(map46, [ip4p |-> p, srv |-> ServerAddr4(k.srv)], f)

CreateMappingOneWay(k) ==
  LET p == Head(pool)
      f == Len(flow) + 1
  IN  /\ pool'  = Tail(pool)
      /\ flow'  = Append(flow, NewFlow(k, p))
      /\ map64' = Assign(map64, k, f)
      /\ map46' = map46

CreateMapping(k) ==
  LET p == Head(pool)
      f == Len(flow) + 1
  IN  /\ pool'  = Tail(pool)
      /\ flow'  = Append(flow, NewFlow(k, p))
      /\ map64' = Assign(map64, k, f)
      /\ map46' = Assign(map46, [ip4p |-> p, srv |-> ServerAddr4(k.srv)], f)

(* Faulty variant, for a mutant only: the lookup before the creation is    *)
(* forgotten.                                                              *)
DoMappingAnew(k) ==
  /\ pool # <<>>
  /\ CreateMapping(k)
  /\ UNCHANGED <<mapPool, ip6srvCur>>

DoMapping(k) ==
  /\ \/ /\ ~Has64(k) /\ pool # <<>>
        /\ CreateMapping(k)
     \/ /\ Has64(k) \/ pool = <<>>
        /\ UNCHANGED <<pool, map64, map46, flow>>
  /\ UNCHANGED <<mapPool, ip6srvCur>>

-----------------------------------------------------------------------------
(* isAddrInRange(IPv4Addr), called by a worker without a lock.             *)
IsAddrInRange4(ip) ==
  /\ TouchMapPool(ip)
  /\ UNCHANGED <<pool, map64, map46, flow, ip6srvCur>>

(* The store f->tid = tid of NAT::begin, also without a lock.              *)
SetTid(f, w) ==
  /\ flow' = [flow EXCEPT ![f].tid = w]
  /\ UNCHANGED <<pool, mapPool, map64, map46, ip6srvCur>>

(* setCurIPv6SrvAddr.                                                      *)
SetCurIPv6SrvAddr(ip) ==
  /\ ip6srvCur' = ip
  /\ UNCHANGED <<pool, mapPool, map64, map46, flow>>

-----------------------------------------------------------------------------
(* StateManager::init and addIPv4Pool; ip6srv_cur_ starts as "::".          *)
PortPool == [i \in 1 .. MaxPort - MinPort + 1 |->
               [ip |-> PoolAddr, port |-> MinPort + i - 1]]

SMInit ==
  /\ pool = PortPool
  /\ mapPool = [a \in {PoolAddr} |-> TRUE]
  /\ map64 = [k \in {} |-> NoFlow]
  /\ map46 = [k \in {} |-> NoFlow]
  /\ flow = <<>>
  /\ ip6srvCur = [net |-> 0, low |-> 0]

SMNext ==
  \/ \E k \in Keys : DoMapping(k)
  \/ \E ip \in Dest4 : IsAddrInRange4(ip)
  \/ \E f \in DOMAIN flow, w \in Tids : SetTid(f, w)
  \/ \E k \in Keys : SetCurIPv6SrvAddr(k.srv)

SMSpec == SMInit /\ [][SMNext]_smVars

-----------------------------------------------------------------------------
FlowType == [ip6p : IP6Port, ip4p : IP4Port, ip6srv : IPv6Addr,
             ip4srv : Nat, tid : Tids \cup {NoTid}]

(* The type invariant of the shared state.                                 *)
SMTypeOK ==
  /\ pool \in Seq(IP4Port)
  /\ DOMAIN mapPool \subseteq Nat /\ mapPool \in [DOMAIN mapPool -> BOOLEAN]
  /\ DOMAIN map64 \subseteq Keys
  /\ map64 \in [DOMAIN map64 -> DOMAIN flow]
  /\ DOMAIN map46 \subseteq Key46
  /\ map46 \in [DOMAIN map46 -> DOMAIN flow]
  /\ flow \in Seq(FlowType)
  /\ ip6srvCur \in IPv6Addr

(***************************************************************************)
(* doMapping fills two tables and creates one object: every flow is found  *)
(* from its client side by exactly its own key, and from its server side   *)
(* by exactly its own port and server, so a reply translated with map46    *)
(* reaches the flow its request created with map64 (state.cc:72-121).      *)
(***************************************************************************)
Key64Of(r) == [cli |-> r.ip6p, srv |-> r.ip6srv]
Key46Of(r) == [ip4p |-> r.ip4p, srv |-> r.ip4srv]

TablesAgree ==
  /\ DOMAIN map64 = {Key64Of(flow[f]) : f \in DOMAIN flow}
  /\ DOMAIN map46 = {Key46Of(flow[f]) : f \in DOMAIN flow}
  /\ \A f \in DOMAIN flow : /\ GetMapping64(Key64Of(flow[f])) = f
                            /\ GetMapping46(Key46Of(flow[f])) = f

(***************************************************************************)
(* A port is never in two hands: every port of the range is in the pool    *)
(* once or belongs to exactly one flow, never both and never lost, however *)
(* doMapping calls interleave (state.cc:64-93).                            *)
(***************************************************************************)
PortHolders(port) ==
  {<<"pool", i>> : i \in {j \in DOMAIN pool : pool[j].port = port}} \cup
  {<<"flow", f>> : f \in {g \in DOMAIN flow : flow[g].ip4p.port = port}}

PoolConserved ==
  \A port \in MinPort .. MaxPort : \E h \in PortHolders(port) :
     PortHolders(port) = {h}

(***************************************************************************)
(* A binding is for ever: no operation moves a flow to another client,     *)
(* server or port, forgets a table entry or redirects it to another flow.  *)
(***************************************************************************)
Binding(f) == <<f.ip6p, f.ip4p, f.ip6srv, f.ip4srv>>

KeepsBindings ==
  /\ \A f \in DOMAIN flow : /\ f \in DOMAIN flow'
                             /\ Binding(flow'[f]) = Binding(flow[f])
  /\ \A k \in DOMAIN map64 : k \in DOMAIN map64' /\ map64'[k] = map64[k]
  /\ \A k \in DOMAIN map46 : k \in DOMAIN map46' /\ map46'[k] = map46[k]

BindingStable == [][KeepsBindings]_smVars

(***************************************************************************)
(* What the declaration of map64_ promises (state.h:88: its key is the     *)
(* pair of the client's IP6Port and the server's IPv6Addr): a lookup only  *)
(* ever answers with the flow of that client and that server.              *)
(***************************************************************************)
KeyedByClientAndServer ==
  \A k \in Keys : Has64(k) => Key64Of(flow[At64(k)]) = k

(* No two pairs in use share a client port.                                *)
ClientPortsUnique ==
  \A k, l \in Keys : k.cli.port = l.cli.port => k = l
=============================================================================
