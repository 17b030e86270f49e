------------------------- MODULE StateManagerProofs -------------------------
(***************************************************************************)
(* Proofs about the shared state, for every pool, prefix and traffic.      *)
(***************************************************************************)
EXTENDS StateManager, SequenceTheorems, TLAPS

(***************************************************************************)
(* The inductive invariant.  The tables hold exactly the flows, each under *)
(* its own keys; no two entries of map64_ share a client port, because the *)
(* table cannot tell them apart; and the pool is what is left of the range *)
(* after the flows took its first ports.                                   *)
(***************************************************************************)
Map64Inverse ==
  /\ \A f \in DOMAIN flow :
       Key64Of(flow[f]) \in DOMAIN map64 /\ map64[Key64Of(flow[f])] = f
  /\ \A k \in DOMAIN map64 : Key64Of(flow[map64[k]]) = k

Map46Inverse ==
  /\ \A f \in DOMAIN flow :
       Key46Of(flow[f]) \in DOMAIN map46 /\ map46[Key46Of(flow[f])] = f
  /\ \A k \in DOMAIN map46 : Key46Of(flow[map46[k]]) = k

OnePerClientPort ==
  \A k, l \in DOMAIN map64 : k.cli.port = l.cli.port => k = l

PoolIsRest ==
  /\ Len(flow) + Len(pool) = MaxPort - MinPort + 1
  /\ \A i \in DOMAIN pool :
       pool[i] = [ip |-> PoolAddr, port |-> MinPort + Len(flow) + i - 1]
  /\ \A f \in DOMAIN flow :
       flow[f].ip4p = [ip |-> PoolAddr, port |-> MinPort + f - 1]

SMInv == /\ SMTypeOK
         /\ Map64Inverse /\ Map46Inverse /\ OnePerClientPort
         /\ PoolIsRest
-----------------------------------------------------------------------------
(* map64_ takes two keys for the same exactly when their client ports are  *)
(* equal: ip.cc:77-94 never finds two IPv6 addresses different.            *)
LEMMA Key64SameIsPort ==
  ASSUME NEW k \in Key64, NEW l \in Key64
  PROVE  Key64Same(k, l) <=> k.cli.port = l.cli.port
<1>1. /\ k.cli.port \in Nat /\ l.cli.port \in Nat
      /\ k.srv.low \in Nat /\ l.srv.low \in Nat
      /\ k.cli.ip.low \in Nat /\ l.cli.ip.low \in Nat
  BY DEF Key64, IP6Port, IPv6Addr
<1>2. /\ IP6PortLess(k.cli, l.cli) <=> k.cli.port < l.cli.port
      /\ IP6PortLess(l.cli, k.cli) <=> l.cli.port < k.cli.port
  BY DEF IP6PortLess, IPv6Differs
<1>3. ~IPv6Less(k.srv, l.srv) /\ ~IPv6Less(l.srv, k.srv)
  BY <1>1 DEF IPv6Less
<1>. QED BY <1>1, <1>2, <1>3 DEF Key64Same, Key64Less

(* map46_ tells all keys apart, so it may be modelled as a function.       *)
LEMMA Key46SameIsEqual ==
  ASSUME NEW k \in Key46, NEW l \in Key46
  PROVE  Key46Same(k, l) <=> k = l
<1>1. /\ k.srv \in Nat /\ l.srv \in Nat
      /\ k.ip4p.ip \in Nat /\ l.ip4p.ip \in Nat
      /\ k.ip4p.port \in Nat /\ l.ip4p.port \in Nat
  BY DEF Key46, IP4Port
<1>2. k = l <=> /\ k.ip4p.ip = l.ip4p.ip /\ k.ip4p.port = l.ip4p.port
                /\ k.srv = l.srv
  BY DEF Key46, IP4Port
<1>. QED BY <1>1, <1>2 DEF Key46Same, Key46Less, IP4PortLess

(* A look-up asks for a key with the same client port.                     *)
LEMMA Has64IsPort ==
  ASSUME SMTypeOK, NEW k \in Keys
  PROVE  Has64(k) <=> \E x \in DOMAIN map64 : x.cli.port = k.cli.port
<1>1. k \in Key64 /\ DOMAIN map64 \subseteq Key64
  BY KeysAssumption DEF SMTypeOK
<1>. QED BY <1>1, Key64SameIsPort DEF Has64

(* What a look-up finds is an entry of the table with that port.           *)
LEMMA At64IsEntry ==
  ASSUME SMTypeOK, NEW k \in Keys, Has64(k)
  PROVE  \E x \in DOMAIN map64 : x.cli.port = k.cli.port /\ At64(k) = map64[x]
<1>. DEFINE x == CHOOSE y \in DOMAIN map64 : Key64Same(y, k)
<1>1. k \in Key64 /\ DOMAIN map64 \subseteq Key64
  BY KeysAssumption DEF SMTypeOK
<1>2. x \in DOMAIN map64 /\ Key64Same(x, k)
  BY DEF Has64
<1>3. x.cli.port = k.cli.port
  BY <1>1, <1>2, Key64SameIsPort
<1>. QED BY <1>2, <1>3 DEF At64
-----------------------------------------------------------------------------
(* The initial state satisfies the invariant.                              *)
LEMMA InvInit == SMInit => SMInv
<1>. SUFFICES ASSUME SMInit PROVE SMInv
  OBVIOUS
<1>1. MaxPort - MinPort + 1 \in Nat
  BY PoolAssumption
<1>2. /\ pool \in [1 .. MaxPort - MinPort + 1 -> IP4Port]
      /\ pool \in Seq(IP4Port) /\ Len(pool) = MaxPort - MinPort + 1
  BY <1>1, PoolAssumption DEF SMInit, PortPool, IP4Port
<1>3. flow = <<>> /\ DOMAIN flow = {} /\ Len(flow) = 0
  BY DEF SMInit
<1>4. DOMAIN map64 = {} /\ DOMAIN map46 = {}
  BY DEF SMInit
<1>5. SMTypeOK
  <2>1. DOMAIN mapPool = {PoolAddr} /\ mapPool \in [DOMAIN mapPool -> BOOLEAN]
    BY DEF SMInit
  <2>2. /\ map64 \in [DOMAIN map64 -> DOMAIN flow]
        /\ map46 \in [DOMAIN map46 -> DOMAIN flow]
    BY DEF SMInit
  <2>3. flow \in Seq(FlowType)
    BY <1>3
  <2>4. ip6srvCur \in IPv6Addr
    BY DEF SMInit, IPv6Addr
  <2>. QED BY <1>2, <1>4, <2>1, <2>2, <2>3, <2>4, PoolAssumption DEF SMTypeOK
<1>6. Map64Inverse /\ Map46Inverse /\ OnePerClientPort
  BY <1>3, <1>4 DEF Map64Inverse, Map46Inverse, OnePerClientPort
<1>7. PoolIsRest
  BY <1>1, <1>2, <1>3, PoolAssumption DEF PoolIsRest, SMInit, PortPool
<1>. QED BY <1>5, <1>6, <1>7 DEF SMInv

(* A new flow takes the first port of the pool, which no flow holds, and   *)
(* is entered in both tables under keys they do not hold (state.cc:80-87). *)
LEMMA CreateMappingFacts ==
  ASSUME SMInv, NEW k \in Keys, ~Has64(k), pool # <<>>, CreateMapping(k)
  PROVE  LET p  == Head(pool)
             n  == Len(flow) + 1
             kk == [ip4p |-> p, srv |-> ServerAddr4(k.srv)]
         IN  /\ n \in Nat \ {0}
             /\ DOMAIN flow = 1 .. n - 1 /\ DOMAIN flow' = 1 .. n
             /\ flow' \in Seq(FlowType) /\ Len(flow') = n
             /\ \A f \in DOMAIN flow : flow'[f] = flow[f]
             /\ flow'[n] = NewFlow(k, p)
             /\ p = [ip |-> PoolAddr, port |-> MinPort + Len(flow)]
             /\ pool' \in Seq(IP4Port) /\ Len(pool') = Len(pool) - 1
             /\ \A i \in 1 .. Len(pool') : pool'[i] = pool[i + 1]
             /\ kk \in Key46 /\ k \in Key64
             /\ k \notin DOMAIN map64 /\ kk \notin DOMAIN map46
             /\ DOMAIN map64' = DOMAIN map64 \cup {k}
             /\ DOMAIN map46' = DOMAIN map46 \cup {kk}
             /\ \A x \in DOMAIN map64 : map64'[x] = map64[x]
             /\ \A x \in DOMAIN map46 : map46'[x] = map46[x]
             /\ map64'[k] = n /\ map46'[kk] = n
             /\ map64' \in [DOMAIN map64' -> DOMAIN flow']
             /\ map46' \in [DOMAIN map46' -> DOMAIN flow']
<1>. DEFINE p  == Head(pool)
            n  == Len(flow) + 1
            kk == [ip4p |-> p, srv |-> ServerAddr4(k.srv)]
<1>1. /\ flow \in Seq(FlowType) /\ Len(flow) \in Nat
      /\ DOMAIN flow = 1 .. Len(flow)
      /\ pool \in Seq(IP4Port) /\ Len(pool) \in Nat /\ DOMAIN pool = 1 .. Len(pool)
  BY LenProperties DEF SMInv, SMTypeOK
<1>2. /\ p \in IP4Port /\ pool' \in Seq(IP4Port) /\ Len(pool') = Len(pool) - 1
      /\ \A i \in 1 .. Len(pool') : pool'[i] = pool[i + 1]
  BY <1>1, HeadTailProperties DEF CreateMapping
<1>3. p = pool[1] /\ 1 \in DOMAIN pool
  BY <1>1
<1>4. p = [ip |-> PoolAddr, port |-> MinPort + Len(flow)]
  BY <1>1, <1>3, PoolAssumption DEF SMInv, PoolIsRest
<1>5. k \in Key64 /\ k.cli \in IP6Port /\ k.srv \in IPv6Addr /\ k.srv.low \in Nat
  BY KeysAssumption DEF Key64, IPv6Addr
<1>6. kk \in Key46
  BY <1>2, <1>5 DEF Key46, ServerAddr4
<1>7. NewFlow(k, p) \in FlowType
  BY <1>2, <1>5 DEF NewFlow, FlowType, ServerAddr4
<1>8. /\ flow' \in Seq(FlowType) /\ Len(flow') = n
      /\ DOMAIN flow' = 1 .. n
      /\ \A f \in 1 .. Len(flow) : flow'[f] = flow[f]
      /\ flow'[n] = NewFlow(k, p)
  BY <1>1, <1>7 DEF CreateMapping
<1>9. k \notin DOMAIN map64
  BY Has64IsPort DEF SMInv
<1>10. kk \notin DOMAIN map46
  <2>1. SUFFICES ASSUME kk \in DOMAIN map46 PROVE FALSE
    OBVIOUS
  <2>. DEFINE g == map46[kk]
  <2>2. g \in DOMAIN flow /\ Key46Of(flow[g]) = kk
    BY <2>1 DEF SMInv, SMTypeOK, Map46Inverse
  <2>3. flow[g].ip4p = p
    BY <2>2 DEF Key46Of
  <2>4. flow[g].ip4p = [ip |-> PoolAddr, port |-> MinPort + g - 1]
    BY <2>2 DEF SMInv, PoolIsRest
  <2>5. MinPort + g - 1 = MinPort + Len(flow)
    <3>. HIDE DEF g, p
    <3>. QED BY <1>4, <2>3, <2>4
  <2>. QED BY <1>1, <2>2, <2>5, PoolAssumption
<1>11. /\ DOMAIN map64' = DOMAIN map64 \cup {k}
       /\ \A x \in DOMAIN map64 : map64'[x] = map64[x]
       /\ map64'[k] = n
  BY <1>9 DEF CreateMapping, Assign
<1>12. /\ DOMAIN map46' = DOMAIN map46 \cup {kk}
       /\ \A x \in DOMAIN map46 : map46'[x] = map46[x]
       /\ map46'[kk] = n
  BY <1>10 DEF CreateMapping, Assign
<1>13. /\ map64' \in [DOMAIN map64' -> DOMAIN flow']
       /\ map46' \in [DOMAIN map46' -> DOMAIN flow']
  <2>1. DOMAIN flow \subseteq DOMAIN flow' /\ n \in DOMAIN flow'
    BY <1>1, <1>8
  <2>2. /\ \A x \in DOMAIN map64 : map64[x] \in DOMAIN flow
        /\ \A x \in DOMAIN map46 : map46[x] \in DOMAIN flow
    BY DEF SMInv, SMTypeOK
  <2>3. /\ map64' = [x \in DOMAIN map64' |-> map64'[x]]
        /\ map46' = [x \in DOMAIN map46' |-> map46'[x]]
    BY DEF CreateMapping, Assign
  <2>. QED BY <1>11, <1>12, <2>1, <2>2, <2>3
<1>. QED BY <1>1, <1>2, <1>4, <1>5, <1>6, <1>8, <1>9, <1>10, <1>11, <1>12, <1>13
-----------------------------------------------------------------------------
LEMMA MappingTypeOK ==
  ASSUME SMInv, NEW k \in Keys, DoMapping(k)
  PROVE  SMTypeOK'
<1>1. CASE ~Has64(k) /\ pool # <<>> /\ CreateMapping(k)
  <2>. DEFINE kk == [ip4p |-> Head(pool), srv |-> ServerAddr4(k.srv)]
  <2>1. /\ DOMAIN map64' = DOMAIN map64 \cup {k}
        /\ DOMAIN map46' = DOMAIN map46 \cup {kk} /\ kk \in Key46
        /\ map64' \in [DOMAIN map64' -> DOMAIN flow']
        /\ map46' \in [DOMAIN map46' -> DOMAIN flow']
        /\ flow' \in Seq(FlowType) /\ pool' \in Seq(IP4Port)
    BY <1>1, CreateMappingFacts
  <2>2. mapPool' = mapPool /\ ip6srvCur' = ip6srvCur
    BY DEF DoMapping
  <2>. HIDE DEF kk
  <2>. QED BY <2>1, <2>2 DEF SMInv, SMTypeOK
<1>2. CASE UNCHANGED <<pool, map64, map46, flow>>
  BY <1>2 DEF SMInv, SMTypeOK, DoMapping
<1>. QED BY <1>1, <1>2 DEF DoMapping

LEMMA MappingInverse64 ==
  ASSUME SMInv, NEW k \in Keys, ~Has64(k), pool # <<>>, CreateMapping(k)
  PROVE  Map64Inverse' /\ OnePerClientPort'
<1>. DEFINE p == Head(pool)
            n == Len(flow) + 1
<1>1. /\ n \in Nat \ {0} /\ DOMAIN flow = 1 .. n - 1 /\ DOMAIN flow' = 1 .. n
      /\ \A f \in DOMAIN flow : flow'[f] = flow[f]
      /\ flow'[n] = NewFlow(k, p)
      /\ k \in Key64 /\ k \notin DOMAIN map64
      /\ DOMAIN map64' = DOMAIN map64 \cup {k}
      /\ \A x \in DOMAIN map64 : map64'[x] = map64[x]
      /\ map64'[k] = n
  BY CreateMappingFacts
<1>2. \A f \in DOMAIN flow : Key64Of(flow'[f]) = Key64Of(flow[f])
  BY <1>1
<1>3. Key64Of(flow'[n]) = k
  BY <1>1 DEF Key64Of, NewFlow, Key64
<1>. HIDE DEF n, p
<1>4. Map64Inverse'
  <2>1. ASSUME NEW f \in DOMAIN flow'
        PROVE  Key64Of(flow'[f]) \in DOMAIN map64' /\ map64'[Key64Of(flow'[f])] = f
    <3>1. CASE f \in DOMAIN flow
      BY <1>1, <1>2, <3>1 DEF SMInv, Map64Inverse
    <3>2. CASE f = n
      BY <1>1, <1>3, <3>2
    <3>. QED BY <1>1, <3>1, <3>2
  <2>2. ASSUME NEW x \in DOMAIN map64'
        PROVE  Key64Of(flow'[map64'[x]]) = x
    <3>1. CASE x \in DOMAIN map64
      <4>1. map64[x] \in DOMAIN flow /\ Key64Of(flow[map64[x]]) = x
        BY <3>1 DEF SMInv, SMTypeOK, Map64Inverse
      <4>2. Key64Of(flow'[map64[x]]) = x
        BY <1>2, <4>1
      <4>3. map64'[x] = map64[x]
        BY <1>1, <3>1
      <4>. QED BY <1>1, <4>1, <4>2, <4>3
    <3>2. CASE x = k
      BY <1>1, <1>3, <3>2
    <3>. QED BY <1>1, <3>1, <3>2
  <2>. QED BY <2>1, <2>2 DEF Map64Inverse
<1>5. OnePerClientPort'
  <2>1. \A x \in DOMAIN map64 : x.cli.port # k.cli.port
    BY Has64IsPort DEF SMInv
  <2>. QED BY <1>1, <2>1 DEF SMInv, OnePerClientPort
<1>. QED BY <1>4, <1>5

LEMMA MappingInverse46 ==
  ASSUME SMInv, NEW k \in Keys, ~Has64(k), pool # <<>>, CreateMapping(k)
  PROVE  Map46Inverse'
<1>. DEFINE p  == Head(pool)
            n  == Len(flow) + 1
            kk == [ip4p |-> p, srv |-> ServerAddr4(k.srv)]
<1>1. /\ n \in Nat \ {0} /\ DOMAIN flow = 1 .. n - 1 /\ DOMAIN flow' = 1 .. n
      /\ \A f \in DOMAIN flow : flow'[f] = flow[f]
      /\ flow'[n] = NewFlow(k, p)
      /\ kk \notin DOMAIN map46
      /\ DOMAIN map46' = DOMAIN map46 \cup {kk}
      /\ \A x \in DOMAIN map46 : map46'[x] = map46[x]
      /\ map46'[kk] = n
  BY CreateMappingFacts
<1>2. Key46Of(flow'[n]) = kk
  BY <1>1 DEF Key46Of, NewFlow
<1>. HIDE DEF n, p, kk
<1>3. ASSUME NEW f \in DOMAIN flow'
      PROVE  Key46Of(flow'[f]) \in DOMAIN map46' /\ map46'[Key46Of(flow'[f])] = f
  <2>1. CASE f \in DOMAIN flow
    BY <1>1, <2>1 DEF SMInv, Map46Inverse
  <2>2. CASE f = n
    BY <1>1, <1>2, <2>2
  <2>. QED BY <1>1, <2>1, <2>2
<1>4. ASSUME NEW x \in DOMAIN map46'
      PROVE  Key46Of(flow'[map46'[x]]) = x
  <2>1. CASE x \in DOMAIN map46
    <3>1. map46[x] \in DOMAIN flow /\ Key46Of(flow[map46[x]]) = x
      BY <2>1 DEF SMInv, SMTypeOK, Map46Inverse
    <3>2. map46'[x] = map46[x]
      BY <1>1, <2>1
    <3>. QED BY <1>1, <3>1, <3>2
  <2>2. CASE x = kk
    BY <1>1, <1>2, <2>2
  <2>. QED BY <1>1, <2>1, <2>2
<1>. QED BY <1>3, <1>4 DEF Map46Inverse

LEMMA MappingPoolIsRest ==
  ASSUME SMInv, NEW k \in Keys, ~Has64(k), pool # <<>>, CreateMapping(k)
  PROVE  PoolIsRest'
<1>. DEFINE p == Head(pool)
            n == Len(flow) + 1
<1>1. /\ n \in Nat \ {0} /\ DOMAIN flow = 1 .. n - 1 /\ DOMAIN flow' = 1 .. n
      /\ Len(flow') = n
      /\ \A f \in DOMAIN flow : flow'[f] = flow[f]
      /\ flow'[n] = NewFlow(k, p)
      /\ p = [ip |-> PoolAddr, port |-> MinPort + Len(flow)]
      /\ pool' \in Seq(IP4Port) /\ Len(pool') = Len(pool) - 1
      /\ \A i \in 1 .. Len(pool') : pool'[i] = pool[i + 1]
  BY CreateMappingFacts
<1>2. Len(pool) \in Nat /\ DOMAIN pool = 1 .. Len(pool) /\ DOMAIN pool' = 1 .. Len(pool')
      /\ Len(flow) \in Nat /\ n = Len(flow) + 1
  BY <1>1, LenProperties DEF SMInv, SMTypeOK
<1>3. flow'[n].ip4p = p
  BY <1>1 DEF NewFlow
<1>. HIDE DEF n, p
<1>4. Len(flow') + Len(pool') = MaxPort - MinPort + 1
  <2>1. Len(flow) + Len(pool) = MaxPort - MinPort + 1
    BY DEF SMInv, PoolIsRest
  <2>2. Len(flow') = Len(flow) + 1 /\ Len(pool') = Len(pool) - 1
    BY <1>1, <1>2
  <2>3. Len(flow) \in Int /\ Len(pool) \in Int
    BY <1>2
  <2>. QED BY <2>1, <2>2, <2>3
<1>5. ASSUME NEW i \in DOMAIN pool'
      PROVE  pool'[i] = [ip |-> PoolAddr, port |-> MinPort + Len(flow') + i - 1]
  <2>1. i \in Nat /\ i + 1 \in DOMAIN pool /\ pool'[i] = pool[i + 1]
    BY <1>1, <1>2
  <2>2. pool[i + 1] = [ip |-> PoolAddr, port |-> MinPort + Len(flow) + (i + 1) - 1]
    BY <2>1 DEF SMInv, PoolIsRest
  <2>3. MinPort + Len(flow) + (i + 1) - 1 = MinPort + Len(flow') + i - 1
    <3>1. Len(flow') = Len(flow) + 1 /\ Len(flow) \in Int /\ i \in Int
      BY <1>1, <1>2, <2>1
    <3>. QED BY <3>1, PoolAssumption
  <2>. QED BY <2>1, <2>2, <2>3
<1>6. ASSUME NEW f \in DOMAIN flow'
      PROVE  flow'[f].ip4p = [ip |-> PoolAddr, port |-> MinPort + f - 1]
  <2>1. CASE f \in DOMAIN flow
    BY <1>1, <2>1 DEF SMInv, PoolIsRest
  <2>2. CASE f = n
    <3>1. MinPort + Len(flow) = MinPort + f - 1
      BY <1>2, <2>2, PoolAssumption
    <3>. QED BY <1>1, <1>3, <2>2, <3>1
  <2>. QED BY <1>1, <2>1, <2>2
<1>. QED BY <1>4, <1>5, <1>6 DEF PoolIsRest

(* The store to tid touches neither keys nor ports.                        *)
LEMMA SetTidInv ==
  ASSUME SMInv, NEW f \in DOMAIN flow, NEW w \in Tids, SetTid(f, w)
  PROVE  SMInv'
<1>. DEFINE r == [flow[f] EXCEPT !.tid = w]
<1>1. flow \in Seq(FlowType) /\ DOMAIN flow = 1 .. Len(flow)
  BY LenProperties DEF SMInv, SMTypeOK
<1>2. flow[f] \in FlowType
  BY <1>1, ElementOfSeq
<1>3. r \in FlowType /\ flow' = [flow EXCEPT ![f] = r]
  BY <1>2 DEF FlowType, SetTid
<1>4. flow' \in Seq(FlowType) /\ Len(flow') = Len(flow) /\ DOMAIN flow' = DOMAIN flow
  BY <1>1, <1>3, ExceptSeq
<1>5. ASSUME NEW g \in DOMAIN flow
      PROVE  /\ flow'[g].ip6p = flow[g].ip6p /\ flow'[g].ip4p = flow[g].ip4p
             /\ flow'[g].ip6srv = flow[g].ip6srv /\ flow'[g].ip4srv = flow[g].ip4srv
  BY <1>2 DEF SetTid, FlowType
<1>6. UNCHANGED <<pool, mapPool, map64, map46, ip6srvCur>>
  BY DEF SetTid
<1>7. SMTypeOK'
  BY <1>4, <1>6 DEF SMInv, SMTypeOK
<1>8. \A g \in DOMAIN flow : /\ Key64Of(flow'[g]) = Key64Of(flow[g])
                            /\ Key46Of(flow'[g]) = Key46Of(flow[g])
  BY <1>5 DEF Key64Of, Key46Of
<1>9. /\ \A x \in DOMAIN map64 : map64[x] \in DOMAIN flow
      /\ \A x \in DOMAIN map46 : map46[x] \in DOMAIN flow
  BY DEF SMInv, SMTypeOK
<1>10. Map64Inverse' /\ OnePerClientPort'
  BY <1>4, <1>6, <1>8, <1>9 DEF SMInv, Map64Inverse, OnePerClientPort
<1>11. Map46Inverse'
  BY <1>4, <1>6, <1>8, <1>9 DEF SMInv, Map46Inverse
<1>12. PoolIsRest'
  BY <1>4, <1>5, <1>6 DEF SMInv, PoolIsRest
<1>. QED BY <1>7, <1>10, <1>11, <1>12 DEF SMInv

(* A step that leaves the tables alone keeps the invariant.                *)
LEMMA SameTables ==
  ASSUME SMInv, ip6srvCur' \in IPv6Addr,
         UNCHANGED <<pool, mapPool, map64, map46, flow>>
  PROVE  SMInv'
<1>1. SMTypeOK'
  BY DEF SMInv, SMTypeOK
<1>2. Map64Inverse' /\ Map46Inverse' /\ OnePerClientPort'
  <2>1. map64' = map64 /\ map46' = map46 /\ flow' = flow
    OBVIOUS
  <2>. QED BY <2>1 DEF SMInv, Map64Inverse, Map46Inverse, OnePerClientPort
<1>3. PoolIsRest'
  BY DEF SMInv, PoolIsRest
<1>. QED BY <1>1, <1>2, <1>3 DEF SMInv

(* Every step of the shared state keeps the invariant.                     *)
LEMMA InvNext == SMInv /\ [SMNext]_smVars => SMInv'
<1>. SUFFICES ASSUME SMInv, [SMNext]_smVars PROVE SMInv'
  OBVIOUS
<1>1. ASSUME NEW k \in Keys, DoMapping(k) PROVE SMInv'
  <2>1. SMTypeOK'
    BY <1>1, MappingTypeOK
  <2>2. CASE ~Has64(k) /\ pool # <<>> /\ CreateMapping(k)
    BY <2>1, <2>2, MappingInverse64, MappingInverse46, MappingPoolIsRest
       DEF SMInv
  <2>3. CASE UNCHANGED <<pool, map64, map46, flow>>
    BY <2>1, <2>3 DEF SMInv, Map64Inverse, Map46Inverse, OnePerClientPort,
                      PoolIsRest
  <2>. QED BY <1>1, <2>2, <2>3 DEF DoMapping
<1>2. ASSUME NEW ip \in Dest4, IsAddrInRange4(ip) PROVE SMInv'
  <2>1. UNCHANGED <<pool, map64, map46, flow, ip6srvCur>>
    BY <1>2 DEF IsAddrInRange4
  <2>2. /\ DOMAIN mapPool' \subseteq Nat
        /\ mapPool' \in [DOMAIN mapPool' -> BOOLEAN]
    BY <1>2, KeysAssumption DEF IsAddrInRange4, TouchMapPool, SMInv, SMTypeOK
  <2>3. SMTypeOK'
    BY <2>1, <2>2 DEF SMInv, SMTypeOK
  <2>. QED BY <2>1, <2>3 DEF SMInv, Map64Inverse, Map46Inverse,
                             OnePerClientPort, PoolIsRest
<1>3. ASSUME NEW f \in DOMAIN flow, NEW w \in Tids, SetTid(f, w) PROVE SMInv'
  BY <1>3, SetTidInv
<1>4. ASSUME NEW k \in Keys, SetCurIPv6SrvAddr(k.srv) PROVE SMInv'
  <2>1. k.srv \in IPv6Addr
    BY KeysAssumption DEF Key64
  <2>2. /\ ip6srvCur' = k.srv
        /\ UNCHANGED <<pool, mapPool, map64, map46, flow>>
    BY <1>4 DEF SetCurIPv6SrvAddr
  <2>. QED BY <2>1, <2>2, SameTables
<1>5. CASE UNCHANGED smVars
  <2>1. UNCHANGED <<pool, mapPool, map64, map46, flow, ip6srvCur>>
    BY <1>5 DEF smVars
  <2>2. ip6srvCur' \in IPv6Addr
    BY <2>1 DEF SMInv, SMTypeOK
  <2>. QED BY <2>1, <2>2, SameTables
<1>. QED BY <1>1, <1>2, <1>3, <1>4, <1>5 DEF SMNext
-----------------------------------------------------------------------------
LEMMA InvAlways == SMSpec => []SMInv
<1>. QED BY InvInit, InvNext, PTL DEF SMSpec

(* The state of class StateManager keeps its types (state.h:86-93).        *)
THEOREM TypeCorrect == SMSpec => []SMTypeOK
<1>1. SMInv => SMTypeOK
  BY DEF SMInv
<1>. QED BY <1>1, InvAlways, PTL

LEMMA InvImpliesTablesAgree == SMInv => TablesAgree
<1>. SUFFICES ASSUME SMInv PROVE TablesAgree
  OBVIOUS
<1>1. DOMAIN map64 = {Key64Of(flow[f]) : f \in DOMAIN flow}
  <2>1. /\ map64 \in [DOMAIN map64 -> DOMAIN flow]
        /\ Map64Inverse
    BY DEF SMInv, SMTypeOK
  <2>2. ASSUME NEW x \in DOMAIN map64
        PROVE  x \in {Key64Of(flow[f]) : f \in DOMAIN flow}
    BY <2>1 DEF Map64Inverse
  <2>3. ASSUME NEW f \in DOMAIN flow PROVE Key64Of(flow[f]) \in DOMAIN map64
    BY <2>1 DEF Map64Inverse
  <2>. QED BY <2>2, <2>3
<1>2. DOMAIN map46 = {Key46Of(flow[f]) : f \in DOMAIN flow}
  <2>1. /\ map46 \in [DOMAIN map46 -> DOMAIN flow]
        /\ Map46Inverse
    BY DEF SMInv, SMTypeOK
  <2>2. ASSUME NEW x \in DOMAIN map46
        PROVE  x \in {Key46Of(flow[f]) : f \in DOMAIN flow}
    BY <2>1 DEF Map46Inverse
  <2>3. ASSUME NEW f \in DOMAIN flow PROVE Key46Of(flow[f]) \in DOMAIN map46
    BY <2>1 DEF Map46Inverse
  <2>. QED BY <2>2, <2>3
<1>3. ASSUME NEW f \in DOMAIN flow
      PROVE  GetMapping64(Key64Of(flow[f])) = f
  <2>. DEFINE k == Key64Of(flow[f])
  <2>1. k \in DOMAIN map64 /\ map64[k] = f /\ k \in Keys
    BY DEF SMInv, SMTypeOK, Map64Inverse
  <2>. HIDE DEF k
  <2>2. Has64(k)
    BY <2>1, Has64IsPort DEF SMInv
  <2>3. PICK x \in DOMAIN map64 : x.cli.port = k.cli.port /\ At64(k) = map64[x]
    BY <2>1, <2>2, At64IsEntry DEF SMInv
  <2>4. x = k
    BY <2>1, <2>3 DEF SMInv, OnePerClientPort
  <2>5. GetMapping64(k) = f
    BY <2>1, <2>2, <2>3, <2>4 DEF GetMapping64
  <2>. QED BY <2>5 DEF k
<1>4. ASSUME NEW f \in DOMAIN flow
      PROVE  GetMapping46(Key46Of(flow[f])) = f
  BY DEF SMInv, Map46Inverse, GetMapping46
<1>. QED BY <1>1, <1>2, <1>3, <1>4 DEF TablesAgree

(* For every pool, prefix and traffic, both tables lead to each flow, and  *)
(* to it alone, whatever the order of doMapping calls (state.cc:72-121).   *)
THEOREM TablesAlwaysAgree == SMSpec => []TablesAgree
<1>. QED BY InvAlways, InvImpliesTablesAgree, PTL

LEMMA RestIsConserved ==
  ASSUME SMTypeOK, PoolIsRest
  PROVE  PoolConserved
<1>. SUFFICES ASSUME NEW port \in MinPort .. MaxPort
              PROVE  \E h \in PortHolders(port) : PortHolders(port) = {h}
  BY DEF PoolConserved
<1>. DEFINE n == port - MinPort + 1
            L == Len(flow)
<1>1. /\ L \in Nat /\ DOMAIN flow = 1 .. L
      /\ Len(pool) \in Nat /\ DOMAIN pool = 1 .. Len(pool)
      /\ L + Len(pool) = MaxPort - MinPort + 1
  BY LenProperties DEF SMTypeOK, PoolIsRest
<1>2. ASSUME NEW f \in DOMAIN flow
      PROVE  flow[f].ip4p.port = MinPort + f - 1
  <2>1. flow[f].ip4p = [ip |-> PoolAddr, port |-> MinPort + f - 1]
    BY DEF PoolIsRest
  <2>. QED BY <2>1
<1>3. \A i \in DOMAIN pool : pool[i].port = MinPort + L + i - 1
  BY DEF PoolIsRest
<1>. HIDE DEF L
<1>4. CASE n <= L
  <2>1. {f \in DOMAIN flow : flow[f].ip4p.port = port} = {n}
    BY <1>1, <1>2, <1>4, PoolAssumption
  <2>2. {i \in DOMAIN pool : pool[i].port = port} = {}
    BY <1>1, <1>3, <1>4, PoolAssumption
  <2>3. PortHolders(port) = {<<"flow", n>>}
    BY <2>1, <2>2 DEF PortHolders
  <2>. QED BY <2>3
<1>5. CASE n > L
  <2>1. {f \in DOMAIN flow : flow[f].ip4p.port = port} = {}
    BY <1>1, <1>2, <1>5, PoolAssumption
  <2>2. {i \in DOMAIN pool : pool[i].port = port} = {n - L}
    BY <1>1, <1>3, <1>5, PoolAssumption
  <2>3. PortHolders(port) = {<<"pool", n - L>>}
    BY <2>1, <2>2 DEF PortHolders
  <2>. QED BY <2>3
<1>. QED BY <1>1, <1>4, <1>5, PoolAssumption

LEMMA InvImpliesPoolConserved == SMInv => PoolConserved
<1>. QED BY RestIsConserved DEF SMInv

(* Every port of the range is in the pool or with one flow, never both and *)
(* never lost (state.cc:64-93).                                            *)
THEOREM PoolAlwaysConserved == SMSpec => []PoolConserved
<1>. QED BY InvAlways, InvImpliesPoolConserved, PTL
-----------------------------------------------------------------------------
LEMMA MappingKeepsBindings ==
  ASSUME SMInv, NEW k \in Keys, ~Has64(k), pool # <<>>, CreateMapping(k)
  PROVE  KeepsBindings
<1>. DEFINE n  == Len(flow) + 1
            kk == [ip4p |-> Head(pool), srv |-> ServerAddr4(k.srv)]
<1>1. /\ n \in Nat \ {0} /\ DOMAIN flow = 1 .. n - 1 /\ DOMAIN flow' = 1 .. n
      /\ \A f \in DOMAIN flow : flow'[f] = flow[f]
      /\ DOMAIN map64' = DOMAIN map64 \cup {k}
      /\ DOMAIN map46' = DOMAIN map46 \cup {kk}
      /\ \A x \in DOMAIN map64 : map64'[x] = map64[x]
      /\ \A x \in DOMAIN map46 : map46'[x] = map46[x]
  BY CreateMappingFacts
<1>. HIDE DEF n, kk
<1>2. DOMAIN flow \subseteq DOMAIN flow'
  BY <1>1
<1>. QED BY <1>1, <1>2 DEF KeepsBindings

LEMMA StepKeepsBindings ==
  SMInv /\ [SMNext]_smVars => [KeepsBindings]_smVars
<1>. SUFFICES ASSUME SMInv, SMNext PROVE KeepsBindings
  OBVIOUS
<1>1. UNCHANGED <<map64, map46, flow>> => KeepsBindings
  BY DEF KeepsBindings
<1>2. ASSUME NEW k \in Keys, DoMapping(k) PROVE KeepsBindings
  <2>1. CASE ~Has64(k) /\ pool # <<>> /\ CreateMapping(k)
    BY <2>1, MappingKeepsBindings
  <2>2. CASE UNCHANGED <<pool, map64, map46, flow>>
    BY <1>1, <2>2
  <2>. QED BY <1>2, <2>1, <2>2 DEF DoMapping
<1>3. ASSUME NEW ip \in Dest4, IsAddrInRange4(ip) PROVE KeepsBindings
  BY <1>1, <1>3 DEF IsAddrInRange4
<1>4. ASSUME NEW f \in DOMAIN flow, NEW w \in Tids, SetTid(f, w) PROVE KeepsBindings
  <2>1. flow \in Seq(FlowType) /\ DOMAIN flow = 1 .. Len(flow)
    BY LenProperties DEF SMInv, SMTypeOK
  <2>2. flow[f] \in FlowType
    BY <2>1, ElementOfSeq
  <2>3. \A g \in DOMAIN flow : g \in DOMAIN flow' /\ Binding(flow'[g]) = Binding(flow[g])
    BY <1>4, <2>2 DEF SetTid, Binding, FlowType
  <2>4. UNCHANGED <<map64, map46>>
    BY <1>4 DEF SetTid
  <2>. QED BY <2>3, <2>4 DEF KeepsBindings
<1>5. ASSUME NEW k \in Keys, SetCurIPv6SrvAddr(k.srv) PROVE KeepsBindings
  BY <1>1, <1>5 DEF SetCurIPv6SrvAddr
<1>. QED BY <1>2, <1>3, <1>4, <1>5 DEF SMNext

(* No operation ever moves a flow to another client, server or port, or    *)
(* changes or forgets a table entry (state.cc:72-121, nat.cc:163).         *)
THEOREM BindingsNeverMove == SMSpec => BindingStable
<1>. QED BY InvAlways, StepKeepsBindings, PTL DEF SMSpec, BindingStable
-----------------------------------------------------------------------------
LEMMA InvImpliesKeyed ==
  ASSUME SMInv, ClientPortsUnique
  PROVE  KeyedByClientAndServer
<1>. SUFFICES ASSUME NEW k \in Keys, Has64(k)
              PROVE  Key64Of(flow[At64(k)]) = k
  BY DEF KeyedByClientAndServer
<1>1. PICK x \in DOMAIN map64 : x.cli.port = k.cli.port /\ At64(k) = map64[x]
  BY At64IsEntry DEF SMInv
<1>2. x \in Keys
  BY DEF SMInv, SMTypeOK
<1>3. x = k
  BY <1>1, <1>2 DEF ClientPortsUnique
<1>. QED BY <1>1, <1>3 DEF SMInv, Map64Inverse

(* The condition under which map64_ does what its declaration says         *)
(* (state.h:88): as long as no two pairs in use share a client port, a     *)
(* look-up answers only with the flow of that client and that server.      *)
THEOREM KeyedUnderUniquePorts ==
  ASSUME ClientPortsUnique
  PROVE  SMSpec => []KeyedByClientAndServer
<1>1. SMInv => KeyedByClientAndServer
  BY InvImpliesKeyed
<1>. QED BY <1>1, InvAlways, PTL
=============================================================================
