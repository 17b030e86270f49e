----------------------------- MODULE DoAppProofs -----------------------------
(***************************************************************************)
(* Theorems about DoApp, for any number of workers, connections, protocols *)
(* and contents.                                                           *)
(*                                                                         *)
(* A mapping under way is spread over four steps, so the invariant of      *)
(* StateManagerProofs does not hold as it stands.  AppBase is what is left *)
(* of it while a worker is in the middle of doMapping, with what that      *)
(* worker has read so far.                                                 *)
(*                                                                         *)
(* AppMore is what the workers may rely on between their steps: the flow   *)
(* of a packet stays its connection's, what is known of its protocol stays *)
(* so, and what was mapped leads where the client announced.  Each part is *)
(* for the connections and contents it holds for, WorkersApart and         *)
(* PairsApart of DoApp.                                                    *)
(***************************************************************************)
EXTENDS DoApp, StateManagerProofs

Pcs == {"idle", "begin", "claim", "cur", "app", "try", "parse",
        "read4", "read6", "read46", "write", "done"}

(* Before setCurIPv6SrvAddr; inside doMapping; under a parser.             *)
Early   == {"idle", "begin", "claim", "cur"}
Reading == {"read4", "read6", "read46"}
Parsing == Reading \cup {"parse", "write"}

Names   == {Protocols[i].name : i \in DOMAIN Protocols}
Servers == {c.key.srv : c \in Conns}
Listed(p) == {p.eps[i] : i \in DOMAIN p.eps}

WkType ==
  [pc : Pcs, dest : {SERVER, CLIENT}, conn : Conns \cup {NoConn},
   content : Contents \cup {NoContent}, flow : Nat, known : BOOLEAN,
   it : Nat \ {0}, guess : SUBSET Names, todo : Seq(IP6Port),
   mapped : SUBSET [ep : IP6Port, flow : Nat, own : BOOLEAN], last : Nat,
   ops : BOOLEAN, key : Key64, ip4p : IP4Port, srv4 : Nat, own : BOOLEAN]

(* Worker w, c its record.                                                 *)
WorkerInv(w, c) ==
  /\ c.pc # "idle" => c.conn \in Conns /\ c.conn.worker = w /\ c.content \in Contents
  /\ c.pc \in Early => ~c.own /\ c.mapped = {} /\ c.guess = {}
  /\ c.pc \in {"claim", "cur"} => c.dest = SERVER
  /\ c.pc = "claim" => crashed \/ c.flow \in DOMAIN flow
  /\ c.own => ip6srvCur = c.conn.key.srv
  /\ c.dest = SERVER /\ c.pc \notin Early => ip6srvCur \in Servers
  /\ c.pc \in Parsing =>
       /\ \A i \in DOMAIN c.todo : c.todo[i] \in Listed(c.content)
       /\ c.todo # <<>> => c.dest = SERVER
       /\ c.it <= Len(Protocols)
  /\ c.pc \in Reading \cup {"write"} => c.todo # <<>>

(* The worker inside doMapping: what it has read.                          *)
HolderInv(c) ==
  /\ c.key \in Keys /\ ~Has64(c.key) /\ c.key.cli = Head(c.todo)
  /\ c.own => c.key.srv = c.conn.key.srv
  /\ c.pc \in {"read4", "read6"} =>
       c.ip4p = [ip |-> PoolAddr, port |-> MinPort + Len(flow)]
  /\ c.pc = "read6" /\ c.own => c.srv4 = c.conn.key.srv.low
  /\ c.pc = "read46" =>
       /\ Len(flow) > 0
       /\ flow[Len(flow)].ip6p = c.key.cli /\ flow[Len(flow)].ip4p = c.ip4p
       /\ c.own => /\ flow[Len(flow)].ip6srv = c.conn.key.srv
                   /\ flow[Len(flow)].ip4srv = c.conn.key.srv.low

(* The flows 1 .. n are in the tables, each under its own keys if it is    *)
(* not torn.                                                               *)
TablesOn(n) ==
  /\ torn \subseteq 1 .. n
  /\ \A f \in 1 .. n : f \notin torn =>
       /\ Key64Of(flow[f]) \in DOMAIN map64 /\ map64[Key64Of(flow[f])] = f
       /\ Key46Of(flow[f]) \in DOMAIN map46 /\ map46[Key46Of(flow[f])] = f
       /\ flow[f].ip4srv = flow[f].ip6srv.low
  /\ \A k \in DOMAIN map64 :
       map64[k] \in 1 .. n /\ (map64[k] \notin torn => Key64Of(flow[map64[k]]) = k)
  /\ \A k \in DOMAIN map46 :
       map46[k] \in 1 .. n /\ flow[map46[k]].ip4p = k.ip4p

(* The ports, h of them in the hands of a worker.                          *)
PortsWith(h) ==
  /\ Len(flow) + Len(pool) + h = MaxPort - MinPort + 1
  /\ \A i \in DOMAIN pool :
       pool[i] = [ip |-> PoolAddr, port |-> MaxPort - Len(pool) + i]
  /\ \A f \in DOMAIN flow :
       flow[f].ip4p = [ip |-> PoolAddr, port |-> MinPort + f - 1]

HolderAt(pcs) == holder # NoTid /\ wk[holder].pc \in pcs

Locked == \A w \in Tids : wk[w].pc \in Reading <=> holder = w

Tables ==
  /\ SMTypeOK /\ OnePerClientPort
  /\ PortsWith(IF HolderAt({"read4", "read6"}) THEN 1 ELSE 0)
  /\ TablesOn(IF HolderAt({"read46"}) THEN Len(flow) - 1 ELSE Len(flow))

Workers ==
  /\ wk \in [Tids -> WkType] /\ Locked /\ holder \in Tids \cup {NoTid}
  /\ holder # NoTid => HolderInv(wk[holder])
  /\ \A w \in Tids : WorkerInv(w, wk[w])
  /\ \A f \in DOMAIN protocol : protocol[f] \in Names

AppBase == Tables /\ Workers
-----------------------------------------------------------------------------
LEMMA IdleTyped == Idle \in WkType
<1>1. <<>> \in Seq(IP6Port)
  OBVIOUS
<1>2. NoKey \in Key64 /\ NoIP4Port \in IP4Port
  BY DEF NoKey, NoIP4Port, NoIPv6, Key64, IP6Port, IPv6Addr, IP4Port
<1>3. 1 \in Nat \ {0} /\ 0 \in Nat /\ NoFlow \in Nat
  BY DEF NoFlow
<1>. QED BY <1>1, <1>2, <1>3 DEF Idle, WkType, Pcs

LEMMA AppInitBase == AppInit => AppBase
<1>. SUFFICES ASSUME AppInit PROVE AppBase
  OBVIOUS
<1>1. SMInv /\ SMInit /\ flow = <<>> /\ torn = {} /\ Len(flow) = 0
  BY InvInit DEF AppInit, SMInit
<1>2. holder = NoTid /\ ~HolderAt({"read4", "read6"}) /\ ~HolderAt({"read46"})
  BY DEF AppInit, HolderAt
<1>3. TablesOn(0)
  BY <1>1 DEF TablesOn, SMInit
<1>4. PortsWith(0)
  <2>1. Len(pool) = MaxPort - MinPort + 1
    BY <1>1, PoolAssumption DEF SMInv, PoolIsRest, SMTypeOK
  <2>2. \A i \in DOMAIN pool : pool[i] = [ip |-> PoolAddr, port |-> MaxPort - Len(pool) + i]
    BY <1>1, <2>1, PoolAssumption DEF SMInit, PortPool
  <2>. QED BY <1>1, <2>1, <2>2, PoolAssumption DEF PortsWith
<1>5. Idle \in WkType
  BY IdleTyped
<1>6. wk \in [Tids -> WkType] /\ \A w \in Tids : wk[w] = Idle
  BY <1>5 DEF AppInit
<1>7. Locked
  BY <1>2, <1>6 DEF Locked, Idle, Reading, Tids, NoTid
<1>8. \A w \in Tids : WorkerInv(w, Idle)
  BY DEF WorkerInv, Idle, Early, Reading, Parsing
<1>9. \A f \in DOMAIN protocol : protocol[f] \in Names
  BY DEF AppInit
<1>. QED BY <1>1, <1>2, <1>3, <1>4, <1>6, <1>7, <1>8, <1>9 DEF AppBase, Tables, Workers, SMInv
-----------------------------------------------------------------------------
(* What the tables say does not depend on the workers, but for the one     *)
(* inside doMapping.                                                       *)
LEMMA SameTablesHold ==
  ASSUME Tables, UNCHANGED <<smVars, torn>>,
         HolderAt({"read4", "read6"})' <=> HolderAt({"read4", "read6"}),
         HolderAt({"read46"})' <=> HolderAt({"read46"})
  PROVE  Tables'
<1>1. UNCHANGED <<pool, mapPool, map64, map46, flow, ip6srvCur, torn>>
  BY DEF smVars
<1>2. SMTypeOK' /\ OnePerClientPort'
  BY <1>1 DEF Tables, SMTypeOK, OnePerClientPort
<1>3. /\ \A h : PortsWith(h) => PortsWith(h)'
      /\ \A n : TablesOn(n) => TablesOn(n)'
  BY <1>1 DEF PortsWith, TablesOn
<1>4. CASE HolderAt({"read4", "read6"})
  <2>1. PortsWith(1) /\ HolderAt({"read4", "read6"})'
    BY <1>4 DEF Tables
  <2>2. ~HolderAt({"read46"})
    BY <1>4 DEF HolderAt
  <2>3. TablesOn(Len(flow)) /\ ~HolderAt({"read46"})'
    BY <2>2 DEF Tables
  <2>. QED BY <1>1, <1>2, <1>3, <2>1, <2>3 DEF Tables
<1>5. CASE HolderAt({"read46"})
  <2>1. TablesOn(Len(flow) - 1) /\ HolderAt({"read46"})'
    BY <1>5 DEF Tables
  <2>2. ~HolderAt({"read4", "read6"})
    BY <1>5 DEF HolderAt
  <2>3. PortsWith(0) /\ ~HolderAt({"read4", "read6"})'
    BY <2>2 DEF Tables
  <2>. QED BY <1>1, <1>2, <1>3, <2>1, <2>3 DEF Tables
<1>6. CASE ~HolderAt({"read46"}) /\ ~HolderAt({"read4", "read6"})
  BY <1>1, <1>2, <1>3, <1>6 DEF Tables
<1>. QED BY <1>4, <1>5, <1>6

(* A step of worker w outside doMapping.                                   *)
LEMMA LocalBase ==
  ASSUME AppBase, NEW w \in Tids, NEW r \in WkType,
         wk' = [wk EXCEPT ![w] = r],
         wk[w].pc \notin Reading, r.pc \notin Reading, WorkerInv(w, r),
         UNCHANGED <<smVars, holder, torn>>, crashed => crashed',
         \A f \in DOMAIN protocol' : protocol'[f] \in Names
  PROVE  AppBase'
<1>1. /\ wk \in [Tids -> WkType] /\ wk'[w] = r
      /\ \A v \in Tids : v # w => wk'[v] = wk[v]
      /\ wk' \in [Tids -> WkType]
      /\ UNCHANGED <<pool, mapPool, map64, map46, flow, ip6srvCur, holder>>
  BY DEF AppBase, Workers, smVars
<1>2. holder \in Tids \cup {NoTid} /\ holder # w
  BY DEF AppBase, Workers, Locked
<1>3. holder # NoTid => wk'[holder] = wk[holder]
  BY <1>1, <1>2
<1>4. /\ HolderAt({"read4", "read6"})' <=> HolderAt({"read4", "read6"})
      /\ HolderAt({"read46"})' <=> HolderAt({"read46"})
  BY <1>1, <1>3 DEF HolderAt
<1>5. Tables'
  BY <1>4, SameTablesHold DEF AppBase
<1>6. Locked'
  BY <1>1, <1>2 DEF AppBase, Workers, Locked
<1>7. holder' # NoTid => HolderInv(wk[holder])'
  <2>1. \A c : HolderInv(c) => HolderInv(c)'
    BY <1>1 DEF HolderInv, Has64
  <2>2. ASSUME holder' # NoTid PROVE HolderInv(wk[holder])'
    <3>1. holder # NoTid /\ HolderInv(wk[holder])
      BY <1>1, <2>2 DEF AppBase, Workers
    <3>2. PICK c : c = wk[holder]
      OBVIOUS
    <3>3. HolderInv(c)' /\ wk'[holder'] = c
      BY <1>1, <1>3, <2>1, <3>1, <3>2
    <3>. QED BY <3>3
  <2>. QED BY <2>2
<1>8. ASSUME NEW v \in Tids PROVE WorkerInv(v, wk[v])'
  <2>1. \A c : WorkerInv(v, c) => WorkerInv(v, c)'
    BY <1>1 DEF WorkerInv
  <2>2. WorkerInv(v, wk'[v])
    BY <1>1 DEF AppBase, Workers
  <2>3. PICK c : c = wk'[v]
    OBVIOUS
  <2>4. WorkerInv(v, c)'
    BY <2>1, <2>2, <2>3
  <2>. QED BY <2>3, <2>4
<1>9. \A f \in DOMAIN protocol' : protocol'[f] \in Names
  OBVIOUS
<1>. QED BY <1>1, <1>2, <1>5, <1>6, <1>7, <1>8, <1>9 DEF AppBase, Workers
-----------------------------------------------------------------------------
LEMMA TakeBase ==
  ASSUME AppBase, NEW w \in Tids, ~crashed, Take(w) PROVE AppBase'
<1>1. PICK c \in Conns, d \in {SERVER, CLIENT}, p \in Contents :
        /\ c.worker = w
        /\ wk' = [wk EXCEPT ![w].pc = "begin", ![w].dest = d, ![w].conn = c,
                            ![w].content = p]
  BY DEF Take
<1>. DEFINE r == [wk[w] EXCEPT !.pc = "begin", !.dest = d, !.conn = c, !.content = p]
<1>2. wk \in [Tids -> WkType] /\ wk[w] \in WkType /\ wk[w].pc = "idle"
      /\ WorkerInv(w, wk[w])
  BY DEF AppBase, Workers, Take
<1>3. r \in WkType
  BY <1>2 DEF WkType, Pcs
<1>4. /\ r.pc = "begin" /\ r.conn = c /\ r.content = p
      /\ r.own = wk[w].own /\ r.mapped = wk[w].mapped /\ r.guess = wk[w].guess
  BY <1>2 DEF WkType
<1>5. ~wk[w].own /\ wk[w].mapped = {} /\ wk[w].guess = {}
  BY <1>2 DEF WorkerInv, Early
<1>6. WorkerInv(w, r)
  <2>. HIDE DEF r
  <2>. QED BY <1>1, <1>4, <1>5 DEF WorkerInv, Early, Reading, Parsing
<1>7. wk' = [wk EXCEPT ![w] = r]
  BY <1>1, <1>2
<1>8. UNCHANGED <<smVars, holder, torn, crashed, protocol>>
  BY DEF Take
<1>9. \A f \in DOMAIN protocol' : protocol'[f] \in Names
  BY <1>8 DEF AppBase, Workers
<1>10. wk[w].pc \notin Reading /\ r.pc \notin Reading
  BY <1>2, <1>4 DEF Reading
<1>. HIDE DEF r
<1>. QED BY <1>3, <1>6, <1>7, <1>8, <1>9, <1>10, LocalBase

(* What a look-up returns is a flow, or none.                              *)
LEMMA Mapping46Nat ==
  ASSUME SMTypeOK, NEW k PROVE GetMapping46(k) \in Nat
<1>1. flow \in Seq(FlowType) /\ DOMAIN flow = 1 .. Len(flow) /\ Len(flow) \in Nat
  BY LenProperties DEF SMTypeOK
<1>. QED BY <1>1 DEF SMTypeOK, GetMapping46, NoFlow

LEMMA BeginClientBase ==
  ASSUME AppBase, NEW w \in Tids, wk[w].pc = "begin", wk[w].dest = CLIENT,
         NEW f, f = GetMapping46(Key46C(wk[w].conn)),
         wk' = [wk EXCEPT ![w] = IF f = NoFlow THEN Idle
                                 ELSE [wk[w] EXCEPT !.pc = "app", !.flow = f]],
         UNCHANGED <<smVars, holder, torn, crashed, protocol>>
  PROVE  AppBase'
<1>1. f \in Nat
  BY Mapping46Nat DEF AppBase, Tables
<1>2. wk \in [Tids -> WkType] /\ wk[w] \in WkType /\ WorkerInv(w, wk[w])
  BY DEF AppBase, Workers
<1>3. \A g \in DOMAIN protocol' : protocol'[g] \in Names
  BY DEF AppBase, Workers
<1>4. wk[w].pc \notin Reading
  BY DEF Reading
<1>5. CASE f = NoFlow
  <2>1. wk' = [wk EXCEPT ![w] = Idle] /\ Idle.pc \notin Reading
    BY <1>5 DEF Idle, Reading
  <2>2. WorkerInv(w, Idle)
    BY DEF WorkerInv, Idle, Early, Reading, Parsing
  <2>. QED BY <1>3, <1>4, <2>1, <2>2, IdleTyped, LocalBase
<1>6. CASE f # NoFlow
  <2>r. PICK r : r = [wk[w] EXCEPT !.pc = "app", !.flow = f]
    OBVIOUS
  <2>1. r \in WkType
    <3>1. PICK c \in WkType : c = wk[w]
      BY <1>2
    <3>2. r = [c EXCEPT !.pc = "app", !.flow = f]
      BY <2>r, <3>1
    <3>. QED BY <1>1, <3>2, ZenonT(60) DEF WkType, Pcs
  <2>2. /\ r.pc = "app" /\ r.conn = wk[w].conn /\ r.content = wk[w].content
        /\ r.own = wk[w].own /\ r.dest = CLIENT
    BY <1>2, <2>r DEF WkType
  <2>3. wk[w].pc \in Early /\ "app" \notin Early \cup Parsing /\ SERVER # CLIENT
    BY DEF Early, Parsing, Reading, SERVER, CLIENT
  <2>4. r.conn \in Conns /\ r.conn.worker = w /\ r.content \in Contents /\ ~r.own
    BY <1>2, <2>2, <2>3 DEF WorkerInv
  <2>5. WorkerInv(w, r)
    BY <2>2, <2>3, <2>4 DEF WorkerInv, Early, Reading, Parsing
  <2>6. wk' = [wk EXCEPT ![w] = r] /\ r.pc \notin Reading
    BY <1>6, <2>r, <2>2 DEF Reading
  <2>. QED BY <1>3, <1>4, <2>1, <2>5, <2>6, LocalBase
<1>. QED BY <1>5, <1>6

LEMMA AppStepBase ==
  ASSUME AppBase, NEW w \in Tids, App(w) PROVE AppBase'
<1>1. wk \in [Tids -> WkType] /\ wk[w] \in WkType /\ WorkerInv(w, wk[w])
      /\ wk[w].pc = "app"
  BY DEF AppBase, Workers, App
<1>2. UNCHANGED <<smVars, holder, torn, crashed, protocol>>
  BY DEF App, Quiet
<1>3. \A g \in DOMAIN protocol' : protocol'[g] \in Names
  BY <1>2 DEF AppBase, Workers
<1>4. ASSUME NEW r \in WkType, wk' = [wk EXCEPT ![w] = r], r.pc \in {"done", "try"},
             r.conn = wk[w].conn, r.content = wk[w].content,
             r.own = wk[w].own, r.dest = wk[w].dest
      PROVE  AppBase'
  <2>1. WorkerInv(w, r)
    BY <1>1, <1>4 DEF WorkerInv, Early, Reading, Parsing
  <2>2. wk[w].pc \notin Reading /\ r.pc \notin Reading
    BY <1>1, <1>4 DEF Reading
  <2>. QED BY <1>2, <1>3, <1>4, <2>1, <2>2, LocalBase
<1>5. CASE wk' = [wk EXCEPT ![w].pc = "done"]
  <2>. DEFINE r == [wk[w] EXCEPT !.pc = "done"]
  <2>1. r \in WkType
    BY <1>1 DEF WkType, Pcs
  <2>2. /\ r.pc = "done" /\ r.conn = wk[w].conn /\ r.content = wk[w].content
        /\ r.own = wk[w].own /\ r.dest = wk[w].dest
    BY <1>1 DEF WkType
  <2>3. wk' = [wk EXCEPT ![w] = r]
    BY <1>1, <1>5
  <2>. HIDE DEF r
  <2>. QED BY <1>4, <2>1, <2>2, <2>3
<1>6. CASE /\ wk[w].flow \notin ignored
           /\ wk' = [wk EXCEPT ![w].pc = "try", ![w].known = Known(wk[w].flow),
                       ![w].it = IF Known(wk[w].flow)
                                 THEN Position(protocol[wk[w].flow]) ELSE 1]
  <2>0. Known(wk[w].flow) \in BOOLEAN
    BY DEF Known
  <2>1. PICK kn \in BOOLEAN : kn = Known(wk[w].flow)
    BY <2>0
  <2>2. PICK i : i = IF kn THEN Position(protocol[wk[w].flow]) ELSE 1
    OBVIOUS
  <2>3. i \in Nat \ {0}
    <3>1. CASE kn
      <4>1. protocol[wk[w].flow] \in Names
        BY <2>1, <3>1 DEF AppBase, Workers, Known
      <4>2. Position(protocol[wk[w].flow]) \in DOMAIN Protocols
        BY <4>1 DEF Position, Names
      <4>3. DOMAIN Protocols = 1 .. Len(Protocols)
        BY LenProperties, AppAssumption
      <4>. QED BY <2>2, <3>1, <4>2, <4>3
    <3>2. CASE ~kn
      BY <2>2, <3>2
    <3>. QED BY <3>1, <3>2
  <2>. DEFINE r == [wk[w] EXCEPT !.pc = "try", !.known = kn, !.it = i]
  <2>4. r \in WkType
    BY <1>1, <2>3 DEF WkType, Pcs
  <2>5. /\ r.pc = "try" /\ r.conn = wk[w].conn /\ r.content = wk[w].content
        /\ r.own = wk[w].own /\ r.dest = wk[w].dest
    BY <1>1 DEF WkType
  <2>6. wk' = [wk EXCEPT ![w] = r]
    BY <1>1, <1>6, <2>1, <2>2
  <2>. HIDE DEF r
  <2>. QED BY <1>4, <2>4, <2>5, <2>6
<1>. QED BY <1>5, <1>6 DEF App

(* A step of worker w from one place of doApp to another; what is still to *)
(* map was announced by the client.                                        *)
LEMMA InsideBase ==
  ASSUME AppBase, NEW w \in Tids, NEW r \in WkType,
         wk' = [wk EXCEPT ![w] = r],
         wk[w].pc \notin Early \cup Reading, r.pc \notin Early \cup Reading,
         r.conn = wk[w].conn, r.content = wk[w].content,
         r.own = wk[w].own, r.dest = wk[w].dest,
         r.pc \in {"parse", "write"} =>
           (\A i \in DOMAIN r.todo : r.todo[i] \in Listed(r.content)),
         r.pc \in {"parse", "write"} /\ r.todo # <<>> => r.dest = SERVER,
         r.pc \in {"parse", "write"} => r.it <= Len(Protocols),
         r.pc = "write" => r.todo # <<>>,
         UNCHANGED <<smVars, holder, torn>>, crashed => crashed',
         \A f \in DOMAIN protocol' : protocol'[f] \in Names
  PROVE  AppBase'
<1>1. WorkerInv(w, wk[w]) /\ wk[w].pc # "idle"
  BY DEF AppBase, Workers, Early
<1>2. WorkerInv(w, r)
  BY <1>1 DEF WorkerInv, Early, Reading, Parsing
<1>. QED BY <1>2, LocalBase

(* Each worker looks at a protocol of the list.                            *)
LEMMA ProtoListed ==
  ASSUME NEW w \in Tids, wk[w] \in WkType, wk[w].it <= Len(Protocols)
  PROVE  Proto(w) \in Range(Protocols) /\ Proto(w).name \in Names
<1>1. wk[w].it \in DOMAIN Protocols
  <2>1. Protocols \in Seq(Range(Protocols)) /\ wk[w].it \in Nat \ {0}
    BY AppAssumption DEF WkType
  <2>2. DOMAIN Protocols = 1 .. Len(Protocols) /\ Len(Protocols) \in Nat
    BY <2>1, LenProperties
  <2>. QED BY <2>1, <2>2
<1>. QED BY <1>1 DEF Proto, Names, Range

LEMMA NextItNat ==
  ASSUME NEW w \in Tids, wk[w] \in WkType
  PROVE  NextIt(w) \in Nat \ {0}
<1>1. Len(Protocols) \in Nat
  BY AppAssumption, LenProperties
<1>. QED BY <1>1 DEF NextIt, WkType

LEMMA TryParserBase ==
  ASSUME AppBase, NEW w \in Tids, TryParser(w) PROVE AppBase'
<1>1. wk \in [Tids -> WkType] /\ wk[w] \in WkType /\ WorkerInv(w, wk[w])
      /\ wk[w].pc = "try" /\ wk[w].it <= Len(Protocols)
  BY DEF AppBase, Workers, TryParser
<1>2. UNCHANGED <<smVars, holder, torn, crashed, protocol>>
  BY DEF TryParser, Quiet
<1>3. \A g \in DOMAIN protocol' : protocol'[g] \in Names
  BY <1>2 DEF AppBase, Workers
<1>4. "try" \notin Early \cup Reading /\ "parse" \notin Early \cup Reading
  BY DEF Early, Reading
<1>5. wk[w].content \in Contents /\ wk[w].conn \in Conns
  BY <1>1 DEF WorkerInv
<1>6. CASE /\ Accepts(w)
           /\ wk' = [wk EXCEPT ![w].pc = "parse", ![w].todo = wk[w].content.eps,
                               ![w].ops = wk[w].content.plain]
  <2>1. PICK t, o : t = wk[w].content.eps /\ o = wk[w].content.plain
    OBVIOUS
  <2>2. t \in Seq(IP6Port) /\ o \in BOOLEAN
    BY <1>5, <2>1, ContentsAssumption
  <2>. DEFINE r == [wk[w] EXCEPT !.pc = "parse", !.todo = t, !.ops = o]
  <2>3. r \in WkType
    BY <1>1, <2>2 DEF WkType, Pcs
  <2>4. /\ r.pc = "parse" /\ r.conn = wk[w].conn /\ r.content = wk[w].content
        /\ r.own = wk[w].own /\ r.dest = wk[w].dest /\ r.todo = t
        /\ r.it = wk[w].it
    BY <1>1 DEF WkType
  <2>5. wk' = [wk EXCEPT ![w] = r]
    BY <1>1, <1>6, <2>1
  <2>. HIDE DEF r
  <2>6. \A i \in DOMAIN r.todo : r.todo[i] \in Listed(r.content)
    BY <2>1, <2>4 DEF Listed
  <2>7. ASSUME r.todo # <<>> PROVE r.dest = SERVER
    <3>1. Proto(w) \in Range(Protocols)
      BY <1>1, ProtoListed
    <3>2. wk[w].dest # SERVER => t = <<>>
      BY <1>5, <1>6, <2>1, <3>1, ContentsAssumption DEF Accepts, ParserType
    <3>. QED BY <2>4, <2>7, <3>2
  <2>. QED BY <1>1, <1>2, <1>3, <1>4, <2>3, <2>4, <2>5, <2>6, <2>7, InsideBase
<1>7. CASE wk' = [wk EXCEPT ![w].it = NextIt(w)]
  <2>1. PICK n \in Nat \ {0} : n = NextIt(w)
    BY <1>1, NextItNat
  <2>. DEFINE r == [wk[w] EXCEPT !.it = n]
  <2>2. r \in WkType
    BY <1>1 DEF WkType
  <2>3. /\ r.pc = "try" /\ r.conn = wk[w].conn /\ r.content = wk[w].content
        /\ r.own = wk[w].own /\ r.dest = wk[w].dest
    BY <1>1 DEF WkType
  <2>4. wk' = [wk EXCEPT ![w] = r]
    BY <1>1, <1>7, <2>1
  <2>. HIDE DEF r
  <2>. QED BY <1>1, <1>2, <1>3, <1>4, <2>2, <2>3, <2>4, InsideBase
<1>. QED BY <1>6, <1>7 DEF TryParser

LEMMA ParserDoneBase ==
  ASSUME AppBase, NEW w \in Tids, ParserDone(w)
  PROVE  AppBase'
<1>1. wk \in [Tids -> WkType] /\ wk[w] \in WkType /\ wk[w].pc = "parse"
      /\ wk[w].it <= Len(Protocols)
  BY DEF AppBase, Workers, ParserDone, WorkerInv, Parsing
<1>2. UNCHANGED <<smVars, holder, torn, crashed>>
  BY DEF ParserDone
<1>3. "parse" \notin Early \cup Reading /\ "done" \notin Early \cup Reading
      /\ "try" \notin Early \cup Reading
  BY DEF Early, Reading
<1>4. Proto(w).name \in Names
  BY <1>1, ProtoListed
<1>5. CASE SetProtocol(wk[w].flow, Proto(w).name) /\ wk' = [wk EXCEPT ![w].pc = "done"]
  <2>1. \A g \in DOMAIN protocol' : protocol'[g] \in Names
    BY <1>4, <1>5 DEF SetProtocol, Assign, AppBase, Workers
  <2>. DEFINE r == [wk[w] EXCEPT !.pc = "done"]
  <2>2. r \in WkType
    BY <1>1 DEF WkType, Pcs
  <2>3. /\ r.pc = "done" /\ r.conn = wk[w].conn /\ r.content = wk[w].content
        /\ r.own = wk[w].own /\ r.dest = wk[w].dest
    BY <1>1 DEF WkType
  <2>4. wk' = [wk EXCEPT ![w] = r]
    BY <1>1, <1>5
  <2>. HIDE DEF r
  <2>. QED BY <1>1, <1>2, <1>3, <2>1, <2>2, <2>3, <2>4, InsideBase
<1>6. CASE /\ wk' = [wk EXCEPT ![w].pc = "try", ![w].it = NextIt(w),
                       ![w].guess = @ \cup (wk[w].content.hello \cap {Proto(w).name})]
           /\ UNCHANGED protocol
  <2>1. PICK n \in Nat \ {0} : n = NextIt(w)
    BY <1>1, NextItNat
  <2>2. PICK x : x = wk[w].content.hello \cap {Proto(w).name}
    OBVIOUS
  <2>3. x \subseteq Names
    BY <1>4, <2>2
  <2>. DEFINE r == [wk[w] EXCEPT !.pc = "try", !.it = n, !.guess = @ \cup x]
  <2>4. r \in WkType
    <3>1. wk[w].guess \cup x \subseteq Names
      BY <1>1, <2>3 DEF WkType
    <3>. QED BY <1>1, <3>1 DEF WkType, Pcs
  <2>5. /\ r.pc = "try" /\ r.conn = wk[w].conn /\ r.content = wk[w].content
        /\ r.own = wk[w].own /\ r.dest = wk[w].dest
    BY <1>1 DEF WkType
  <2>6. wk' = [wk EXCEPT ![w] = r]
    BY <1>1, <1>6, <2>1, <2>2
  <2>7. \A g \in DOMAIN protocol' : protocol'[g] \in Names
    BY <1>6 DEF AppBase, Workers
  <2>. HIDE DEF r
  <2>. QED BY <1>1, <1>2, <1>3, <2>4, <2>5, <2>6, <2>7, InsideBase
<1>. QED BY <1>5, <1>6 DEF ParserDone

LEMMA GuessBase ==
  ASSUME AppBase, NEW w \in Tids, Guess(w) PROVE AppBase'
<1>1. wk \in [Tids -> WkType] /\ wk[w] \in WkType /\ wk[w].pc = "try"
      /\ wk' = [wk EXCEPT ![w].pc = "done"]
  BY DEF AppBase, Workers, Guess
<1>2. UNCHANGED <<smVars, holder, torn, crashed>>
  BY DEF Guess
<1>3. "done" \notin Early \cup Reading /\ "try" \notin Early \cup Reading
  BY DEF Early, Reading
<1>4. \A g \in DOMAIN protocol' : protocol'[g] \in Names
  <2>1. CASE UNCHANGED protocol
    BY <2>1 DEF AppBase, Workers
  <2>2. ASSUME NEW name \in wk[w].guess, SetProtocol(wk[w].flow, name)
        PROVE  \A g \in DOMAIN protocol' : protocol'[g] \in Names
    <3>1. name \in Names
      BY <1>1 DEF WkType
    <3>. QED BY <2>2, <3>1 DEF SetProtocol, Assign, AppBase, Workers
  <2>. QED BY <2>1, <2>2 DEF Guess
<1>. DEFINE r == [wk[w] EXCEPT !.pc = "done"]
<1>5. r \in WkType
  BY <1>1 DEF WkType, Pcs
<1>6. /\ r.pc = "done" /\ r.conn = wk[w].conn /\ r.content = wk[w].content
      /\ r.own = wk[w].own /\ r.dest = wk[w].dest
  BY <1>1 DEF WkType
<1>7. wk' = [wk EXCEPT ![w] = r]
  BY <1>1
<1>. HIDE DEF r
<1>8. wk[w].pc \notin Early \cup Reading /\ r.pc \notin Early \cup Reading
      /\ r.pc # "parse" /\ r.pc # "write" /\ (crashed => crashed')
  BY <1>1, <1>2, <1>3, <1>6
<1>9. UNCHANGED <<smVars, holder, torn>>
  BY <1>2
<1>. QED BY <1>4, <1>5, <1>6, <1>7, <1>8, <1>9, InsideBase

LEMMA DoneBase ==
  ASSUME AppBase, NEW w \in Tids, Done(w) PROVE AppBase'
<1>1. wk[w].pc \notin Reading /\ Idle.pc \notin Reading
  BY DEF Done, Reading, Idle
<1>2. WorkerInv(w, Idle)
  BY DEF WorkerInv, Idle, Early, Reading, Parsing
<1>3. UNCHANGED <<smVars, holder, torn, crashed, protocol>>
      /\ wk' = [wk EXCEPT ![w] = Idle]
  BY DEF Done
<1>4. \A g \in DOMAIN protocol' : protocol'[g] \in Names
  BY <1>3 DEF AppBase, Workers
<1>. QED BY <1>1, <1>2, <1>3, <1>4, IdleTyped, LocalBase

LEMMA WriteBase ==
  ASSUME AppBase, NEW w \in Tids, Write(w) PROVE AppBase'
<1>1. wk \in [Tids -> WkType] /\ wk[w] \in WkType /\ wk[w].pc = "write"
      /\ WorkerInv(w, wk[w])
  BY DEF AppBase, Workers, Write
<1>2. UNCHANGED <<smVars, holder, torn, crashed, protocol>>
  BY DEF Write
<1>3. "parse" \notin Early \cup Reading /\ "write" \notin Early \cup Reading
  BY DEF Early, Reading
<1>4. \A g \in DOMAIN protocol' : protocol'[g] \in Names
  BY <1>2 DEF AppBase, Workers
<1>5. PICK t : t = Tail(wk[w].todo)
  OBVIOUS
<1>6. /\ wk[w].todo \in Seq(IP6Port) /\ wk[w].todo # <<>>
      /\ \A i \in DOMAIN wk[w].todo : wk[w].todo[i] \in Listed(wk[w].content)
      /\ wk[w].dest = SERVER /\ wk[w].it <= Len(Protocols)
  BY <1>1 DEF WorkerInv, WkType, Parsing, Reading
<1>7. t \in Seq(IP6Port) /\ \A i \in DOMAIN t : t[i] \in Listed(wk[w].content)
  <2>1. t \in Seq(IP6Port) /\ Len(t) = Len(wk[w].todo) - 1
        /\ \A i \in 1 .. Len(t) : t[i] = wk[w].todo[i + 1]
    BY <1>5, <1>6, HeadTailProperties
  <2>2. DOMAIN t = 1 .. Len(t) /\ DOMAIN wk[w].todo = 1 .. Len(wk[w].todo)
        /\ Len(wk[w].todo) \in Nat
    BY <1>6, <2>1, LenProperties
  <2>3. \A i \in DOMAIN t : i + 1 \in DOMAIN wk[w].todo
    BY <2>1, <2>2
  <2>. QED BY <1>6, <2>1, <2>2, <2>3
<1>. DEFINE r == [wk[w] EXCEPT !.pc = "parse", !.todo = t, !.ops = TRUE]
<1>8. r \in WkType
  BY <1>1, <1>7 DEF WkType, Pcs
<1>9. /\ r.pc = "parse" /\ r.conn = wk[w].conn /\ r.content = wk[w].content
      /\ r.own = wk[w].own /\ r.dest = wk[w].dest /\ r.todo = t
      /\ r.it = wk[w].it
  BY <1>1 DEF WkType
<1>10. wk' = [wk EXCEPT ![w] = r]
  BY <1>1, <1>5 DEF Write, Written
<1>. HIDE DEF r
<1>. QED BY <1>1, <1>2, <1>3, <1>4, <1>6, <1>7, <1>8, <1>9, <1>10, InsideBase
-----------------------------------------------------------------------------
(* What a parser has to map is a pair that may be mapped: the endpoint was *)
(* announced by the client, and the address belongs to some connection.    *)
LEMMA KeyRead ==
  ASSUME AppBase, NEW w \in Tids, wk[w].pc = "parse", wk[w].todo # <<>>
  PROVE  /\ [cli |-> Head(wk[w].todo), srv |-> ip6srvCur] \in Keys
         /\ Head(wk[w].todo) \in Listed(wk[w].content)
<1>1. wk[w] \in WkType /\ WorkerInv(w, wk[w])
  BY DEF AppBase, Workers
<1>2. /\ wk[w].todo \in Seq(IP6Port) /\ wk[w].dest = SERVER
      /\ \A i \in DOMAIN wk[w].todo : wk[w].todo[i] \in Listed(wk[w].content)
      /\ wk[w].content \in Contents
  BY <1>1 DEF WkType, WorkerInv, Parsing
<1>3. ip6srvCur \in Servers
  BY <1>1, <1>2 DEF WorkerInv, Early
<1>4. Head(wk[w].todo) \in Listed(wk[w].content)
  <2>1. 1 \in DOMAIN wk[w].todo /\ Head(wk[w].todo) = wk[w].todo[1]
    BY <1>2, LenProperties
  <2>. QED BY <1>2, <2>1
<1>. QED BY <1>2, <1>3, <1>4, ContentsAssumption DEF Listed, Servers

LEMMA ReadKeyHitBase ==
  ASSUME AppBase, NEW w \in Tids, wk[w].pc = "parse", wk[w].todo # <<>>,
         NEW f \in Nat, Mapped(w, f),
         UNCHANGED <<smVars, holder, torn, crashed, protocol>>
  PROVE  AppBase'
<1>1. wk \in [Tids -> WkType] /\ wk[w] \in WkType /\ WorkerInv(w, wk[w])
  BY DEF AppBase, Workers
<1>2. "parse" \notin Early \cup Reading /\ "write" \notin Early \cup Reading
  BY DEF Early, Reading
<1>3. \A g \in DOMAIN protocol' : protocol'[g] \in Names
  BY DEF AppBase, Workers
<1>4. PICK m : m = Mapping(w, f)
  OBVIOUS
<1>5. m \in [ep : IP6Port, flow : Nat, own : BOOLEAN]
  <2>1. Head(wk[w].todo) \in IP6Port
    BY <1>1, HeadTailProperties DEF WkType
  <2>. QED BY <1>1, <1>4, <2>1 DEF Mapping, WkType
<1>. DEFINE r == [wk[w] EXCEPT !.pc = "write", !.last = f, !.mapped = @ \cup {m}]
<1>6. r \in WkType
  <2>1. wk[w].mapped \cup {m} \subseteq [ep : IP6Port, flow : Nat, own : BOOLEAN]
    BY <1>1, <1>5 DEF WkType
  <2>. QED BY <1>1, <2>1 DEF WkType, Pcs
<1>7. /\ r.pc = "write" /\ r.conn = wk[w].conn /\ r.content = wk[w].content
      /\ r.own = wk[w].own /\ r.dest = wk[w].dest /\ r.todo = wk[w].todo
      /\ r.it = wk[w].it
  BY <1>1 DEF WkType
<1>8. wk' = [wk EXCEPT ![w] = r]
  BY <1>1, <1>4 DEF Mapped
<1>9. /\ \A i \in DOMAIN wk[w].todo : wk[w].todo[i] \in Listed(wk[w].content)
      /\ wk[w].dest = SERVER /\ wk[w].it <= Len(Protocols)
  BY <1>1 DEF WorkerInv, Parsing
<1>. HIDE DEF r
<1>. QED BY <1>1, <1>2, <1>3, <1>6, <1>7, <1>8, <1>9, InsideBase

(* The process ends: nothing changes but crashed.                          *)
LEMMA CrashBase ==
  ASSUME AppBase, NEW w \in Tids, crashed' = TRUE,
         UNCHANGED <<smVars, holder, torn, wk, protocol>>
  PROVE  AppBase'
<1>1. UNCHANGED <<pool, mapPool, map64, map46, flow, ip6srvCur>>
  BY DEF smVars
<1>2. /\ HolderAt({"read4", "read6"})' <=> HolderAt({"read4", "read6"})
      /\ HolderAt({"read46"})' <=> HolderAt({"read46"})
  BY DEF HolderAt
<1>3. Tables'
  BY <1>2, SameTablesHold DEF AppBase
<1>4. Locked' /\ wk' \in [Tids -> WkType] /\ holder' \in Tids \cup {NoTid}
      /\ \A f \in DOMAIN protocol' : protocol'[f] \in Names
  BY DEF AppBase, Workers, Locked
<1>5. holder' # NoTid => HolderInv(wk[holder])'
  BY <1>1 DEF AppBase, Workers, HolderInv, Has64
<1>6. \A v \in Tids : WorkerInv(v, wk[v])'
  BY <1>1 DEF AppBase, Workers, WorkerInv
<1>. QED BY <1>3, <1>4, <1>5, <1>6 DEF AppBase, Workers
-----------------------------------------------------------------------------
(* Flow n + 1 is entered under k and kk, its own keys unless it is torn.   *)
Entered(n, k, kk) ==
  /\ flow' \in Seq(FlowType) /\ Len(flow') = n + 1
  /\ \A f \in 1 .. n : flow'[f] = flow[f] /\ flow'[f].ip4p # kk.ip4p
  /\ map64' = Assign(map64, k, n + 1) /\ map46' = Assign(map46, kk, n + 1)
  /\ torn \subseteq torn' /\ torn' \subseteq torn \cup {n + 1}
  /\ flow'[n + 1].ip4p = kk.ip4p
  /\ n + 1 \notin torn' => /\ Key64Of(flow'[n + 1]) = k
                           /\ Key46Of(flow'[n + 1]) = kk
                           /\ flow'[n + 1].ip4srv = flow'[n + 1].ip6srv.low
  /\ UNCHANGED mapPool /\ pool' \in Seq(IP4Port) /\ ip6srvCur' \in IPv6Addr

LEMMA Enter ==
  ASSUME SMTypeOK, OnePerClientPort, NEW n \in Nat, TablesOn(n),
         NEW k \in Keys, ~Has64(k), NEW kk \in Key46, Entered(n, k, kk)
  PROVE  SMTypeOK' /\ OnePerClientPort' /\ TablesOn(n + 1)'
<1>0. /\ flow' \in Seq(FlowType) /\ Len(flow') = n + 1
      /\ \A f \in 1 .. n : flow'[f] = flow[f] /\ flow'[f].ip4p # kk.ip4p
      /\ map64' = Assign(map64, k, n + 1) /\ map46' = Assign(map46, kk, n + 1)
      /\ torn \subseteq torn' /\ torn' \subseteq torn \cup {n + 1}
      /\ flow'[n + 1].ip4p = kk.ip4p
      /\ n + 1 \notin torn' => /\ Key64Of(flow'[n + 1]) = k
                               /\ Key46Of(flow'[n + 1]) = kk
                               /\ flow'[n + 1].ip4srv = flow'[n + 1].ip6srv.low
      /\ UNCHANGED mapPool /\ pool' \in Seq(IP4Port) /\ ip6srvCur' \in IPv6Addr
  BY DEF Entered
<1>1. /\ torn \subseteq 1 .. n
      /\ \A f \in 1 .. n : f \notin torn =>
           /\ Key64Of(flow[f]) \in DOMAIN map64 /\ map64[Key64Of(flow[f])] = f
           /\ Key46Of(flow[f]) \in DOMAIN map46 /\ map46[Key46Of(flow[f])] = f
           /\ flow[f].ip4srv = flow[f].ip6srv.low
      /\ \A x \in DOMAIN map64 :
           map64[x] \in 1 .. n /\ (map64[x] \notin torn => Key64Of(flow[map64[x]]) = x)
      /\ \A x \in DOMAIN map46 :
           map46[x] \in 1 .. n /\ flow[map46[x]].ip4p = x.ip4p
  BY DEF TablesOn
<1>2. PICK N : N = n + 1
  OBVIOUS
<1>3. N \in Nat \ {0} /\ 1 .. N = 1 .. n \cup {N} /\ N \notin 1 .. n
      /\ DOMAIN flow' = 1 .. N
  BY <1>0, <1>2, LenProperties
<1>4. k \notin DOMAIN map64 /\ \A x \in DOMAIN map64 : x.cli.port # k.cli.port
  BY Has64IsPort
<1>5. /\ DOMAIN map64' = DOMAIN map64 \cup {k} /\ map64'[k] = N
      /\ \A x \in DOMAIN map64 : map64'[x] = map64[x]
  BY <1>0, <1>2, <1>4 DEF Assign
<1>6. kk \notin DOMAIN map46
  BY <1>0, <1>1
<1>7. /\ DOMAIN map46' = DOMAIN map46 \cup {kk} /\ map46'[kk] = N
      /\ \A x \in DOMAIN map46 : map46'[x] = map46[x]
  BY <1>0, <1>2, <1>6 DEF Assign
<1>8. OnePerClientPort'
  BY <1>0, <1>4, <1>5 DEF OnePerClientPort
<1>9. SMTypeOK'
  <2>1. DOMAIN map64' \subseteq Keys /\ DOMAIN map46' \subseteq Key46
    BY <1>0, <1>5, <1>7 DEF SMTypeOK
  <2>2. /\ \A x \in DOMAIN map64' : map64'[x] \in DOMAIN flow'
        /\ \A x \in DOMAIN map46' : map46'[x] \in DOMAIN flow'
    BY <1>0, <1>1, <1>3, <1>5, <1>7
  <2>3. /\ map64' = [x \in DOMAIN map64' |-> map64'[x]]
        /\ map46' = [x \in DOMAIN map46' |-> map46'[x]]
    BY <1>0 DEF Assign
  <2>4. map64' \in [DOMAIN map64' -> DOMAIN flow'] /\ map46' \in [DOMAIN map46' -> DOMAIN flow']
    BY <1>0, <2>2, <2>3
  <2>. QED BY <1>0, <2>1, <2>4 DEF SMTypeOK
<1>10. TablesOn(n + 1)'
  <2>1. torn' \subseteq 1 .. N
    BY <1>0, <1>1, <1>2, <1>3
  <2>2. ASSUME NEW f \in 1 .. N, f \notin torn'
        PROVE  /\ Key64Of(flow'[f]) \in DOMAIN map64' /\ map64'[Key64Of(flow'[f])] = f
               /\ Key46Of(flow'[f]) \in DOMAIN map46' /\ map46'[Key46Of(flow'[f])] = f
               /\ flow'[f].ip4srv = flow'[f].ip6srv.low
    <3>1. CASE f \in 1 .. n
      <4>1. f \notin torn /\ flow'[f] = flow[f]
        BY <1>0, <2>2, <3>1
      <4>. QED BY <1>0, <1>1, <1>5, <1>7, <3>1, <4>1
    <3>2. CASE f = N
      BY <1>0, <1>2, <1>5, <1>7, <2>2, <3>2
    <3>. QED BY <1>0, <1>3, <3>1, <3>2
  <2>3. ASSUME NEW x \in DOMAIN map64'
        PROVE  map64'[x] \in 1 .. N
               /\ (map64'[x] \notin torn' => Key64Of(flow'[map64'[x]]) = x)
    <3>1. CASE x \in DOMAIN map64
      <4>1. map64'[x] = map64[x] /\ map64[x] \in 1 .. n /\ flow'[map64[x]] = flow[map64[x]]
        BY <1>0, <1>1, <1>5, <3>1
      <4>. QED BY <1>0, <1>1, <1>3, <3>1, <4>1
    <3>2. CASE x = k
      BY <1>0, <1>2, <1>3, <1>5, <3>2
    <3>. QED BY <1>0, <1>5, <3>1, <3>2
  <2>4. ASSUME NEW x \in DOMAIN map46'
        PROVE  map46'[x] \in 1 .. N /\ flow'[map46'[x]].ip4p = x.ip4p
    <3>1. CASE x \in DOMAIN map46
      <4>1. map46'[x] = map46[x] /\ map46[x] \in 1 .. n /\ flow'[map46[x]] = flow[map46[x]]
        BY <1>0, <1>1, <1>7, <3>1
      <4>. QED BY <1>0, <1>1, <1>3, <3>1, <4>1
    <3>2. CASE x = kk
      BY <1>0, <1>2, <1>3, <1>7, <3>2
    <3>. QED BY <1>0, <1>7, <3>1, <3>2
  <2>5. TablesOn(N)'
    BY <1>0, <2>1, <2>2, <2>3, <2>4 DEF TablesOn
  <2>. QED BY <1>0, <1>2, <2>5
<1>. QED BY <1>0, <1>8, <1>9, <1>10

(* The port that is popped is the one after the last flow's.               *)
LEMMA PoolPopped ==
  ASSUME SMTypeOK, PortsWith(0), pool # <<>>
  PROVE  /\ Head(pool) \in IP4Port
         /\ Head(pool) = [ip |-> PoolAddr, port |-> MinPort + Len(flow)]
         /\ Tail(pool) \in Seq(IP4Port) /\ Len(Tail(pool)) = Len(pool) - 1
         /\ \A i \in DOMAIN Tail(pool) :
              Tail(pool)[i] = [ip |-> PoolAddr, port |-> MaxPort - Len(Tail(pool)) + i]
<1>1. /\ pool \in Seq(IP4Port) /\ DOMAIN pool = 1 .. Len(pool) /\ Len(pool) \in Nat \ {0}
      /\ Len(flow) \in Nat /\ Len(flow) + Len(pool) = MaxPort - MinPort + 1
  BY LenProperties DEF SMTypeOK, PortsWith
<1>2. 1 \in DOMAIN pool /\ Head(pool) = pool[1]
  BY <1>1
<1>3. pool[1] = [ip |-> PoolAddr, port |-> MaxPort - Len(pool) + 1]
  BY <1>2 DEF PortsWith
<1>4. MaxPort - Len(pool) + 1 = MinPort + Len(flow)
  BY <1>1, PoolAssumption
<1>5. PICK t : t = Tail(pool)
  OBVIOUS
<1>6. t \in Seq(IP4Port) /\ Len(t) = Len(pool) - 1
      /\ \A i \in 1 .. Len(t) : t[i] = pool[i + 1]
  BY <1>1, <1>5, HeadTailProperties
<1>7. DOMAIN t = 1 .. Len(t)
  BY <1>6, LenProperties
<1>8. ASSUME NEW i \in DOMAIN t
      PROVE  t[i] = [ip |-> PoolAddr, port |-> MaxPort - Len(t) + i]
  <2>1. i + 1 \in DOMAIN pool /\ t[i] = pool[i + 1]
    BY <1>1, <1>6, <1>7
  <2>2. MaxPort - Len(pool) + (i + 1) = MaxPort - Len(t) + i
    BY <1>1, <1>6, <1>7, PoolAssumption
  <2>. QED BY <2>1, <2>2 DEF PortsWith
<1>. QED BY <1>1, <1>2, <1>3, <1>4, <1>5, <1>6, <1>8

(* A worker other than w keeps its invariant when flows are added.         *)
LEMMA OthersHold ==
  ASSUME Workers, NEW w \in Tids, NEW r \in WkType,
         wk' = [wk EXCEPT ![w] = r], DOMAIN flow \subseteq DOMAIN flow',
         ip6srvCur' = ip6srvCur, crashed => crashed', WorkerInv(w, r)',
         UNCHANGED protocol
  PROVE  /\ wk' \in [Tids -> WkType] /\ wk'[w] = r
         /\ \A v \in Tids : v # w => wk'[v] = wk[v]
         /\ \A v \in Tids : WorkerInv(v, wk[v])'
         /\ \A f \in DOMAIN protocol' : protocol'[f] \in Names
<1>1. /\ wk' \in [Tids -> WkType] /\ wk'[w] = r
      /\ \A v \in Tids : v # w => wk'[v] = wk[v]
      /\ \A f \in DOMAIN protocol' : protocol'[f] \in Names
  BY DEF Workers
<1>2. ASSUME NEW v \in Tids PROVE WorkerInv(v, wk[v])'
  <2>1. CASE v = w
    BY <1>1, <2>1
  <2>2. CASE v # w
    <3>1. \A c : WorkerInv(v, c) => WorkerInv(v, c)'
      BY DEF WorkerInv
    <3>2. PICK c : c = wk[v]
      OBVIOUS
    <3>3. WorkerInv(v, c)' /\ wk'[v] = c
      BY <1>1, <2>2, <3>1, <3>2 DEF Workers
    <3>. QED BY <3>3
  <2>. QED BY <2>1, <2>2
<1>. QED BY <1>1, <1>2
-----------------------------------------------------------------------------
LEMMA BeginCreates ==
  ASSUME AppBase, NEW w \in Tids, Free, NEW k \in Keys, ~Has64(k), pool # <<>>,
         CreateMapping(k), UNCHANGED <<mapPool, ip6srvCur, holder, torn>>,
         wk'[w].pc = "claim"
  PROVE  Tables'
<1>1. holder = NoTid /\ ~HolderAt({"read4", "read6"}) /\ ~HolderAt({"read46"})
      /\ ~HolderAt({"read4", "read6"})' /\ ~HolderAt({"read46"})'
  BY DEF Free, HolderAt
<1>2. SMTypeOK /\ OnePerClientPort /\ PortsWith(0) /\ TablesOn(Len(flow))
  BY <1>1 DEF AppBase, Tables
<1>3. PICK p : p = Head(pool)
  OBVIOUS
<1>4. PICK n : n = Len(flow)
  OBVIOUS
<1>5. /\ p \in IP4Port /\ p = [ip |-> PoolAddr, port |-> MinPort + n]
      /\ pool' \in Seq(IP4Port) /\ Len(pool') = Len(pool) - 1
      /\ \A i \in DOMAIN pool' :
           pool'[i] = [ip |-> PoolAddr, port |-> MaxPort - Len(pool') + i]
  BY <1>2, <1>3, <1>4, PoolPopped DEF CreateMapping
<1>6. n \in Nat /\ flow \in Seq(FlowType) /\ DOMAIN flow = 1 .. n /\ Len(pool) \in Nat
      /\ n + Len(pool) = MaxPort - MinPort + 1
  BY <1>2, <1>4, LenProperties DEF SMTypeOK, PortsWith
<1>7. k \in Key64 /\ k.cli \in IP6Port /\ k.srv \in IPv6Addr /\ k.srv.low \in Nat
  BY KeysAssumption DEF Key64, IPv6Addr
<1>8. PICK kk : kk = [ip4p |-> p, srv |-> ServerAddr4(k.srv)]
  OBVIOUS
<1>9. kk \in Key46 /\ kk.ip4p = p /\ kk.srv = k.srv.low
  BY <1>5, <1>7, <1>8 DEF Key46, ServerAddr4
<1>10. NewFlow(k, p) \in FlowType
  BY <1>5, <1>7 DEF NewFlow, FlowType, ServerAddr4
<1>11. /\ flow' \in Seq(FlowType) /\ Len(flow') = n + 1
       /\ DOMAIN flow' = 1 .. n + 1
       /\ \A f \in 1 .. n : flow'[f] = flow[f]
       /\ flow'[n + 1] = NewFlow(k, p)
  BY <1>3, <1>4, <1>6, <1>10 DEF CreateMapping
<1>12. \A f \in 1 .. n : flow'[f].ip4p = [ip |-> PoolAddr, port |-> MinPort + f - 1]
  BY <1>2, <1>6, <1>11 DEF PortsWith
<1>13. \A f \in 1 .. n : flow'[f].ip4p # p
  <2>1. \A f \in 1 .. n : MinPort + f - 1 # MinPort + n
    BY <1>6, PoolAssumption
  <2>2. p.port = MinPort + n
    BY <1>5
  <2>3. ASSUME NEW f \in 1 .. n PROVE flow'[f].ip4p.port = MinPort + f - 1
    <3>1. flow'[f].ip4p = [ip |-> PoolAddr, port |-> MinPort + f - 1]
      BY <1>12
    <3>. QED BY <3>1
  <2>4. ASSUME NEW f \in 1 .. n, flow'[f].ip4p = p PROVE FALSE
    BY <2>1, <2>2, <2>3, <2>4
  <2>. QED BY <2>4
<1>14. /\ Key64Of(flow'[n + 1]) = k /\ Key46Of(flow'[n + 1]) = kk
       /\ flow'[n + 1].ip4srv = flow'[n + 1].ip6srv.low /\ flow'[n + 1].ip4p = p
  BY <1>7, <1>8, <1>11 DEF NewFlow, Key64Of, Key46Of, ServerAddr4, Key64
<1>15. /\ map64' = Assign(map64, k, n + 1) /\ map46' = Assign(map46, kk, n + 1)
  BY <1>3, <1>4, <1>8 DEF CreateMapping
<1>16. SMTypeOK' /\ OnePerClientPort' /\ TablesOn(n + 1)'
  <2>1. ip6srvCur' \in IPv6Addr /\ mapPool' = mapPool
    BY <1>2 DEF SMTypeOK
  <2>2. torn \subseteq torn' /\ torn' \subseteq torn \cup {n + 1}
    OBVIOUS
  <2>3. TablesOn(n)
    BY <1>2, <1>4
  <2>4. Entered(n, k, kk)
    BY <1>5, <1>9, <1>11, <1>13, <1>14, <1>15, <2>1, <2>2 DEF Entered
  <2>5. SMTypeOK /\ OnePerClientPort /\ n \in Nat /\ kk \in Key46
    BY <1>2, <1>6, <1>9
  <2>. QED BY <2>3, <2>4, <2>5, Enter
<1>17. PortsWith(0)'
  <2>1. Len(flow') + Len(pool') + 0 = MaxPort - MinPort + 1
    <3>1. Len(flow') = n + 1 /\ Len(pool') = Len(pool) - 1
      BY <1>5, <1>11
    <3>2. n \in Nat /\ Len(pool) \in Nat /\ n + Len(pool) = MaxPort - MinPort + 1
      BY <1>6
    <3>. QED BY <3>1, <3>2
  <2>2. ASSUME NEW f \in DOMAIN flow'
        PROVE  flow'[f].ip4p = [ip |-> PoolAddr, port |-> MinPort + f - 1]
    <3>1. CASE f \in 1 .. n
      BY <1>12, <3>1
    <3>2. CASE f = n + 1
      <4>1. MinPort + n = MinPort + f - 1
        BY <1>6, <3>2, PoolAssumption
      <4>. QED BY <1>5, <1>14, <3>2, <4>1
    <3>. QED BY <1>6, <1>11, <3>1, <3>2
  <2>. QED BY <1>5, <2>1, <2>2 DEF PortsWith
<1>18. Len(flow') = n + 1
  BY <1>11
<1>19. TablesOn(Len(flow))'
  BY <1>16, <1>18
<1>. QED BY <1>1, <1>16, <1>17, <1>19 DEF Tables

(* What doMapping returns: an old flow, the new one, or none.              *)
LEMMA ResultTyped ==
  ASSUME SMTypeOK, NEW k \in Keys, DoMapping(k)
  PROVE  /\ MappingResult(k) \in Nat
         /\ MappingResult(k) # NoFlow => MappingResult(k) \in DOMAIN flow'
         /\ DOMAIN flow \subseteq DOMAIN flow'
<1>1. flow \in Seq(FlowType) /\ DOMAIN flow = 1 .. Len(flow) /\ Len(flow) \in Nat
  BY LenProperties DEF SMTypeOK
<1>2. DOMAIN flow \subseteq DOMAIN flow'
  <2>1. CASE CreateMapping(k)
    <3>1. DOMAIN flow' = 1 .. Len(flow) + 1
      BY <1>1, <2>1 DEF CreateMapping
    <3>. QED BY <1>1, <3>1
  <2>2. CASE UNCHANGED flow
    BY <2>2
  <2>. QED BY <2>1, <2>2 DEF DoMapping
<1>3. CASE Has64(k)
  <2>1. At64(k) \in DOMAIN flow
    <3>1. PICK x \in DOMAIN map64 : At64(k) = map64[x]
      BY <1>3, At64IsEntry
    <3>. QED BY <3>1 DEF SMTypeOK
  <2>. QED BY <1>1, <1>2, <1>3, <2>1 DEF MappingResult
<1>4. CASE ~Has64(k) /\ pool # <<>>
  <2>1. DOMAIN flow' = 1 .. Len(flow) + 1
    BY <1>1, <1>4 DEF DoMapping, CreateMapping
  <2>. QED BY <1>1, <1>2, <1>4, <2>1 DEF MappingResult
<1>5. CASE ~Has64(k) /\ pool = <<>>
  BY <1>2, <1>5 DEF MappingResult, NoFlow
<1>. QED BY <1>3, <1>4, <1>5

LEMMA BeginServerBase ==
  ASSUME AppBase, NEW w \in Tids, Free, wk[w].pc = "begin", wk[w].dest = SERVER,
         NEW f, f = MappingResult(Src(w)), DoMapping(Src(w)), crashed' = (f = NoFlow),
         ~crashed, wk' = [wk EXCEPT ![w].pc = "claim", ![w].flow = f],
         UNCHANGED <<protocol, holder, torn>>
  PROVE  AppBase'
<1>1. /\ wk \in [Tids -> WkType] /\ wk[w] \in WkType /\ WorkerInv(w, wk[w])
      /\ Workers /\ Tables
  BY DEF AppBase, Workers
<1>2. wk[w].conn \in Conns /\ Src(w) \in Keys /\ wk[w].conn.worker = w
      /\ wk[w].content \in Contents /\ ~wk[w].own /\ wk[w].mapped = {} /\ wk[w].guess = {}
  BY <1>1, AppAssumption DEF WorkerInv, Early, Src
<1>3. /\ f \in Nat /\ DOMAIN flow \subseteq DOMAIN flow'
      /\ f # NoFlow => f \in DOMAIN flow'
  BY <1>1, <1>2, ResultTyped DEF Tables
<1>r. PICK r : r = [wk[w] EXCEPT !.pc = "claim", !.flow = f]
  OBVIOUS
<1>4. r \in WkType
  <2>1. PICK c \in WkType : c = wk[w]
    BY <1>1
  <2>2. r = [c EXCEPT !.pc = "claim", !.flow = f]
    BY <1>r, <2>1
  <2>. QED BY <1>3, <2>2, ZenonT(60) DEF WkType, Pcs
<1>5. /\ r.pc = "claim" /\ r.conn = wk[w].conn /\ r.content = wk[w].content
      /\ r.own = wk[w].own /\ r.dest = SERVER /\ r.flow = f
      /\ r.mapped = wk[w].mapped /\ r.guess = wk[w].guess
  BY <1>1, <1>r DEF WkType
<1>6. wk' = [wk EXCEPT ![w] = r]
  BY <1>1, <1>r
<1>c. (crashed => crashed') /\ (f = NoFlow => crashed')
  OBVIOUS
<1>7. WorkerInv(w, r)'
  BY <1>c, <1>2, <1>3, <1>5 DEF WorkerInv, Early, Reading, Parsing
<1>8. ip6srvCur' = ip6srvCur /\ mapPool' = mapPool
  BY DEF DoMapping
<1>9. /\ wk' \in [Tids -> WkType] /\ wk'[w] = r
      /\ \A v \in Tids : v # w => wk'[v] = wk[v]
      /\ \A v \in Tids : WorkerInv(v, wk[v])'
      /\ \A g \in DOMAIN protocol' : protocol'[g] \in Names
  BY <1>c, <1>1, <1>3, <1>4, <1>6, <1>7, <1>8, OthersHold
<1>10. Locked' /\ holder' = NoTid
  BY <1>5, <1>9 DEF Locked, AppBase, Workers, Reading, Free
<1>11. Tables'
  <2>1. CASE ~Has64(Src(w)) /\ pool # <<>> /\ CreateMapping(Src(w))
    BY <1>2, <1>5, <1>8, <1>9, <2>1, BeginCreates
  <2>2. CASE UNCHANGED <<pool, map64, map46, flow>>
    <3>1. UNCHANGED <<smVars, torn>>
      BY <1>8, <2>2 DEF smVars
    <3>2. \A S : HolderAt(S)' <=> HolderAt(S)
      BY <1>10 DEF HolderAt, Free
    <3>. QED BY <1>1, <3>1, <3>2, SameTablesHold
  <2>. QED BY <2>1, <2>2 DEF DoMapping
<1>. QED BY <1>9, <1>10, <1>11 DEF AppBase, Workers

(* The store of tid changes neither keys nor ports.                        *)
LEMMA SetTidFacts ==
  ASSUME SMTypeOK, NEW f \in DOMAIN flow, NEW w \in Tids, SetTid(f, w)
  PROVE  /\ flow' \in Seq(FlowType) /\ Len(flow') = Len(flow)
         /\ DOMAIN flow' = DOMAIN flow /\ DOMAIN flow = 1 .. Len(flow)
         /\ \A g \in DOMAIN flow :
              /\ flow'[g].ip6p = flow[g].ip6p /\ flow'[g].ip4p = flow[g].ip4p
              /\ flow'[g].ip6srv = flow[g].ip6srv /\ flow'[g].ip4srv = flow[g].ip4srv
<1>1. flow \in Seq(FlowType) /\ DOMAIN flow = 1 .. Len(flow)
  BY LenProperties DEF SMTypeOK
<1>2. flow[f] \in FlowType
  BY <1>1, ElementOfSeq
<1>3. PICK r : r = [flow[f] EXCEPT !.tid = w]
  OBVIOUS
<1>4. r \in FlowType /\ flow' = [flow EXCEPT ![f] = r]
  BY <1>2, <1>3 DEF FlowType, SetTid
<1>5. flow' \in Seq(FlowType) /\ Len(flow') = Len(flow) /\ DOMAIN flow' = DOMAIN flow
  BY <1>1, <1>4, ExceptSeq
<1>6. ASSUME NEW g \in DOMAIN flow
      PROVE  /\ flow'[g].ip6p = flow[g].ip6p /\ flow'[g].ip4p = flow[g].ip4p
             /\ flow'[g].ip6srv = flow[g].ip6srv /\ flow'[g].ip4srv = flow[g].ip4srv
  BY <1>2 DEF SetTid, FlowType
<1>. QED BY <1>1, <1>5, <1>6

LEMMA SetTidTables ==
  ASSUME Tables, NEW f \in DOMAIN flow, NEW w \in Tids, SetTid(f, w),
         UNCHANGED <<holder, torn>>,
         HolderAt({"read4", "read6"})' <=> HolderAt({"read4", "read6"}),
         HolderAt({"read46"})' <=> HolderAt({"read46"})
  PROVE  Tables'
<1>1. /\ flow' \in Seq(FlowType) /\ Len(flow') = Len(flow)
      /\ DOMAIN flow' = DOMAIN flow /\ DOMAIN flow = 1 .. Len(flow)
      /\ \A g \in DOMAIN flow :
           /\ flow'[g].ip6p = flow[g].ip6p /\ flow'[g].ip4p = flow[g].ip4p
           /\ flow'[g].ip6srv = flow[g].ip6srv /\ flow'[g].ip4srv = flow[g].ip4srv
  BY SetTidFacts DEF Tables
<1>2. UNCHANGED <<pool, mapPool, map64, map46, ip6srvCur, torn>>
  BY DEF SetTid
<1>3. SMTypeOK' /\ OnePerClientPort'
  BY <1>1, <1>2 DEF Tables, SMTypeOK, OnePerClientPort
<1>4. \A h : PortsWith(h) => PortsWith(h)'
  BY <1>1, <1>2 DEF PortsWith
<1>5. ASSUME NEW n, 1 .. n \subseteq DOMAIN flow, TablesOn(n) PROVE TablesOn(n)'
  <2>1. \A g \in 1 .. n : /\ Key64Of(flow'[g]) = Key64Of(flow[g])
                          /\ Key46Of(flow'[g]) = Key46Of(flow[g])
                          /\ flow'[g].ip4p = flow[g].ip4p
                          /\ flow'[g].ip4srv = flow[g].ip4srv
                          /\ flow'[g].ip6srv = flow[g].ip6srv
    BY <1>1, <1>5 DEF Key64Of, Key46Of
  <2>. QED BY <1>2, <1>5, <2>1 DEF TablesOn
<1>6. Len(flow) \in Nat
  BY LenProperties DEF Tables, SMTypeOK
<1>7. 1 .. Len(flow) \subseteq DOMAIN flow /\ 1 .. (Len(flow) - 1) \subseteq DOMAIN flow
  BY <1>1, <1>6
<1>8. CASE HolderAt({"read46"})
  <2>1. TablesOn(Len(flow) - 1) /\ HolderAt({"read46"})'
    BY <1>8 DEF Tables
  <2>2. PICK n : n = Len(flow) - 1
    OBVIOUS
  <2>3. TablesOn(n)' /\ n = Len(flow') - 1
    BY <1>1, <1>5, <1>7, <2>1, <2>2
  <2>4. ~HolderAt({"read4", "read6"})
    BY <1>8 DEF HolderAt
  <2>5. PortsWith(0) /\ ~HolderAt({"read4", "read6"})'
    BY <2>4 DEF Tables
  <2>. QED BY <1>3, <1>4, <2>1, <2>3, <2>5 DEF Tables
<1>9. CASE ~HolderAt({"read46"})
  <2>1. TablesOn(Len(flow)) /\ ~HolderAt({"read46"})'
    BY <1>9 DEF Tables
  <2>2. PICK n : n = Len(flow)
    OBVIOUS
  <2>3. TablesOn(n)' /\ n = Len(flow')
    BY <1>1, <1>5, <1>7, <2>1, <2>2
  <2>4. PICK h : h = IF HolderAt({"read4", "read6"}) THEN 1 ELSE 0
    OBVIOUS
  <2>5. PortsWith(h)'
    BY <1>4, <2>4 DEF Tables
  <2>6. h = IF HolderAt({"read4", "read6"})' THEN 1 ELSE 0
    BY <2>4
  <2>. QED BY <1>3, <2>1, <2>3, <2>5, <2>6 DEF Tables
<1>. QED BY <1>8, <1>9

LEMMA ClaimBase ==
  ASSUME AppBase, NEW w \in Tids, Claim(w), ~crashed PROVE AppBase'
<1>1. /\ wk \in [Tids -> WkType] /\ wk[w] \in WkType /\ WorkerInv(w, wk[w])
      /\ Workers /\ Tables /\ wk[w].pc = "claim"
  BY DEF AppBase, Workers, Claim
<1>2. wk[w].conn \in Conns /\ wk[w].conn.worker = w /\ wk[w].content \in Contents
      /\ ~wk[w].own /\ wk[w].mapped = {} /\ wk[w].guess = {} /\ wk[w].flow \in DOMAIN flow
      /\ wk[w].dest = SERVER
  BY <1>1 DEF WorkerInv, Early
<1>r. PICK r : r = [wk[w] EXCEPT !.pc = "cur"]
  OBVIOUS
<1>3. r \in WkType
  BY <1>1, <1>r DEF WkType, Pcs
<1>4. /\ r.pc = "cur" /\ r.conn = wk[w].conn /\ r.content = wk[w].content
      /\ r.own = wk[w].own /\ r.dest = SERVER
      /\ r.mapped = wk[w].mapped /\ r.guess = wk[w].guess
  BY <1>1, <1>2, <1>r DEF WkType
<1>5. wk' = [wk EXCEPT ![w] = r] /\ UNCHANGED <<holder, torn, crashed, protocol>>
  BY <1>1, <1>r DEF Claim, Quiet
<1>6. CASE UNCHANGED smVars
  <2>1. WorkerInv(w, r)
    BY <1>2, <1>4 DEF WorkerInv, Early, Reading, Parsing
  <2>2. wk[w].pc \notin Reading /\ r.pc \notin Reading
    BY <1>1, <1>4 DEF Reading
  <2>3. \A g \in DOMAIN protocol' : protocol'[g] \in Names
    BY <1>5 DEF AppBase, Workers
  <2>. QED BY <1>3, <1>5, <1>6, <2>1, <2>2, <2>3, LocalBase
<1>7. CASE SetTid(wk[w].flow, w)
  <2>f. PICK f \in DOMAIN flow : f = wk[w].flow
    BY <1>2
  <2>1. /\ Len(flow') = Len(flow)
        /\ DOMAIN flow' = DOMAIN flow /\ DOMAIN flow = 1 .. Len(flow)
        /\ \A g \in DOMAIN flow :
             /\ flow'[g].ip6p = flow[g].ip6p /\ flow'[g].ip4p = flow[g].ip4p
             /\ flow'[g].ip6srv = flow[g].ip6srv /\ flow'[g].ip4srv = flow[g].ip4srv
    BY <1>1, <1>7, <2>f, SetTidFacts DEF Tables
  <2>2. UNCHANGED <<pool, mapPool, map64, map46, ip6srvCur>>
    BY <1>7 DEF SetTid
  <2>3. WorkerInv(w, r)'
    BY <1>2, <1>4 DEF WorkerInv, Early, Reading, Parsing
  <2>4. /\ wk' \in [Tids -> WkType] /\ wk'[w] = r
        /\ \A v \in Tids : v # w => wk'[v] = wk[v]
        /\ \A v \in Tids : WorkerInv(v, wk[v])'
        /\ \A g \in DOMAIN protocol' : protocol'[g] \in Names
    BY <1>1, <1>3, <1>5, <2>1, <2>2, <2>3, OthersHold
  <2>5. holder \in Tids \cup {NoTid} /\ holder # w
    BY <1>1 DEF Workers, Locked, Reading
  <2>6. Locked' /\ holder' = holder
    BY <1>1, <1>4, <1>5, <2>4, <2>5 DEF Locked, Workers, Reading
  <2>7. holder # NoTid => wk'[holder] = wk[holder]
    BY <2>4, <2>5
  <2>8. \A S : HolderAt(S)' <=> HolderAt(S)
    BY <2>6, <2>7 DEF HolderAt
  <2>9. Tables'
    BY <1>1, <1>5, <1>7, <2>f, <2>8, SetTidTables
  <2>10. holder' # NoTid => HolderInv(wk[holder])'
    <3>1. ASSUME holder # NoTid PROVE HolderInv(wk[holder])'
      <4>1. PICK c : c = wk[holder]
        OBVIOUS
      <4>2. HolderInv(c) /\ wk'[holder'] = c
        BY <1>1, <2>6, <2>7, <3>1, <4>1 DEF Workers
      <4>3. Len(flow) > 0 => Len(flow) \in DOMAIN flow
        BY <1>1, <2>1, LenProperties DEF Tables, SMTypeOK
      <4>4. HolderInv(c)'
        BY <2>1, <2>2, <4>2, <4>3 DEF HolderInv, Has64
      <4>. QED BY <4>2, <4>4
    <3>. QED BY <2>6, <3>1
  <2>. QED BY <2>4, <2>5, <2>6, <2>9, <2>10 DEF AppBase, Workers
<1>. QED BY <1>6, <1>7 DEF Claim

(* Another worker's address is stored: what w read before is not its own   *)
(* any more, unless it is the same address.                                *)
LEMMA SetCurBase ==
  ASSUME AppBase, NEW w \in Tids, SetCur(w) PROVE AppBase'
<1>1. /\ wk \in [Tids -> WkType] /\ \A v \in Tids : wk[v] \in WkType
      /\ Workers /\ Tables /\ wk[w].pc = "cur"
  BY DEF AppBase, Workers, SetCur
<1>2. WorkerInv(w, wk[w]) /\ wk[w].conn \in Conns /\ wk[w].conn.worker = w
      /\ wk[w].content \in Contents /\ wk[w].dest = SERVER
  BY <1>1 DEF WorkerInv, Early, Workers
<1>3. /\ UNCHANGED <<pool, mapPool, map64, map46, flow, holder, torn, crashed, protocol>>
      /\ ip6srvCur' = wk[w].conn.key.srv
  BY DEF SetCur, SetCurIPv6SrvAddr, Quiet, Src
<1>4. ip6srvCur' \in Servers /\ ip6srvCur' \in IPv6Addr
  <2>1. wk[w].conn.key \in Key64
    BY <1>2, AppAssumption, KeysAssumption
  <2>. QED BY <1>2, <1>3, <2>1 DEF Servers, Key64
<1>5. ASSUME NEW v \in Tids
      PROVE  /\ wk'[v] \in WkType
             /\ v # w => wk'[v].pc = wk[v].pc
             /\ wk'[w].pc = "app"
             /\ v # w /\ wk'[v].own => wk[v].own /\ ip6srvCur' = wk[v].conn.key.srv
             /\ \A c : c = wk[v] => 
                  /\ wk'[v].dest = c.dest /\ wk'[v].conn = c.conn
                  /\ wk'[v].content = c.content /\ wk'[v].flow = c.flow
                  /\ wk'[v].mapped = c.mapped /\ wk'[v].guess = c.guess /\ wk'[v].todo = c.todo
                  /\ wk'[v].it = c.it /\ wk'[v].key = c.key
                  /\ wk'[v].ip4p = c.ip4p /\ wk'[v].srv4 = c.srv4
  <2>c. PICK c \in WkType : c = wk[v]
    BY <1>1
  <2>d. PICK d : d = wk'[v]
    OBVIOUS
  <2>0. wk'[w].pc = "app"
    <3>1. wk'[w] = [wk[w] EXCEPT !.pc = "app", !.own = TRUE]
      BY DEF SetCur
    <3>. QED BY <1>1, <3>1 DEF WkType
  <2>1. CASE v = w
    <3>1. d = [c EXCEPT !.pc = "app", !.own = TRUE]
      BY <2>1, <2>c, <2>d DEF SetCur
    <3>2. /\ d \in WkType
          /\ d.dest = c.dest /\ d.conn = c.conn
          /\ d.content = c.content /\ d.flow = c.flow
          /\ d.mapped = c.mapped /\ d.guess = c.guess /\ d.todo = c.todo
          /\ d.it = c.it /\ d.key = c.key /\ d.ip4p = c.ip4p /\ d.srv4 = c.srv4
      BY <3>1 DEF WkType, Pcs
    <3>. QED BY <2>0, <2>1, <2>c, <2>d, <3>2
  <2>2. CASE v # w
    <3>0. PICK o \in BOOLEAN : o = (wk[v].own /\ Src(v).srv = Src(w).srv)
      OBVIOUS
    <3>p. PICK p \in Pcs : p = c.pc
      BY DEF WkType
    <3>2. /\ d \in WkType /\ d.pc = p /\ d.own = o
          /\ d.dest = c.dest /\ d.conn = c.conn
          /\ d.content = c.content /\ d.flow = c.flow
          /\ d.mapped = c.mapped /\ d.guess = c.guess /\ d.todo = c.todo
          /\ d.it = c.it /\ d.key = c.key /\ d.ip4p = c.ip4p /\ d.srv4 = c.srv4
      <4>1. d = [c EXCEPT !.own = o]
        BY <2>2, <2>c, <2>d, <3>0 DEF SetCur
      <4>. QED BY <3>p, <4>1 DEF WkType
    <3>3. o => wk[v].own /\ ip6srvCur' = wk[v].conn.key.srv
      BY <1>3, <3>0 DEF Src
    <3>. QED BY <2>0, <2>2, <2>c, <2>d, <3>p, <3>2, <3>3
  <2>. QED BY <2>1, <2>2
<1>6. wk' \in [Tids -> WkType]
  <2>1. wk' = [v \in Tids |-> wk'[v]]
    BY DEF SetCur
  <2>. QED BY <1>5, <2>1
<1>7. holder \in Tids \cup {NoTid} /\ holder # w /\ holder' = holder
  BY <1>1, <1>3 DEF Workers, Locked, Reading
<1>8. Locked'
  BY <1>1, <1>5, <1>7 DEF Locked, Workers, Reading
<1>9. \A S : HolderAt(S)' <=> HolderAt(S)
  BY <1>5, <1>7 DEF HolderAt
<1>10. Tables'
  <2>1. SMTypeOK' /\ OnePerClientPort'
    BY <1>1, <1>3, <1>4 DEF Tables, SMTypeOK, OnePerClientPort
  <2>2. /\ \A h : PortsWith(h) => PortsWith(h)'
        /\ \A n : TablesOn(n) => TablesOn(n)'
    BY <1>3 DEF PortsWith, TablesOn
  <2>3. PICK h, n : /\ h = IF HolderAt({"read4", "read6"}) THEN 1 ELSE 0
                    /\ n = IF HolderAt({"read46"}) THEN Len(flow) - 1 ELSE Len(flow)
    OBVIOUS
  <2>4. PortsWith(h)' /\ TablesOn(n)'
    BY <1>1, <2>2, <2>3 DEF Tables
  <2>5. /\ h = IF HolderAt({"read4", "read6"})' THEN 1 ELSE 0
        /\ n = IF HolderAt({"read46"})' THEN Len(flow') - 1 ELSE Len(flow')
    BY <1>3, <1>9, <2>3
  <2>. QED BY <2>1, <2>4, <2>5 DEF Tables
<1>11. ASSUME holder' # NoTid PROVE HolderInv(wk[holder])'
  <2>1. PICK c : c = wk[holder]
    OBVIOUS
  <2>2. holder \in Tids /\ HolderInv(c)
    BY <1>1, <1>7, <1>11, <2>1 DEF Workers
  <2>3. PICK d : d = wk'[holder]
    OBVIOUS
  <2>4. /\ d.pc = c.pc /\ (d.own => c.own) /\ d.conn = c.conn /\ d.todo = c.todo
        /\ d.key = c.key /\ d.ip4p = c.ip4p /\ d.srv4 = c.srv4
    BY <1>5, <1>7, <2>1, <2>2, <2>3
  <2>5. HolderInv(d)
    BY <2>2, <2>4 DEF HolderInv
  <2>6. HolderInv(d)'
    BY <1>3, <2>5 DEF HolderInv, Has64
  <2>. QED BY <1>7, <2>3, <2>6
<1>12. ASSUME NEW v \in Tids PROVE WorkerInv(v, wk[v])'
  <2>1. PICK c, d : c = wk[v] /\ d = wk'[v]
    OBVIOUS
  <2>2. /\ d.dest = c.dest /\ d.conn = c.conn /\ d.content = c.content
        /\ d.flow = c.flow /\ d.mapped = c.mapped /\ d.guess = c.guess /\ d.todo = c.todo /\ d.it = c.it
    BY <1>5, <2>1
  <2>3. WorkerInv(v, c)
    BY <1>1, <2>1 DEF Workers
  <2>4. CASE v = w
    <3>1. d.pc = "app"
      BY <1>5, <2>1, <2>4
    <3>2. WorkerInv(v, d)'
      BY <1>2, <1>3, <1>4, <2>1, <2>2, <2>4, <3>1
         DEF WorkerInv, Early, Reading, Parsing
    <3>. QED BY <2>1, <3>2
  <2>5. CASE v # w
    <3>1. d.pc = c.pc /\ (d.own => c.own /\ ip6srvCur' = d.conn.key.srv)
      BY <1>5, <2>1, <2>2, <2>5
    <3>2. WorkerInv(v, d)'
      BY <1>3, <1>4, <2>2, <2>3, <3>1 DEF WorkerInv
    <3>. QED BY <2>1, <3>2
  <2>. QED BY <2>4, <2>5
<1>13. \A f \in DOMAIN protocol' : protocol'[f] \in Names
  BY <1>1, <1>3 DEF Workers
<1>. QED BY <1>6, <1>7, <1>8, <1>10, <1>11, <1>12, <1>13 DEF AppBase, Workers
-----------------------------------------------------------------------------
LEMMA ReadKeyCreates ==
  ASSUME AppBase, NEW w \in Tids, Free, wk[w].pc = "parse", wk[w].todo # <<>>,
         NEW k, k = [cli |-> Head(wk[w].todo), srv |-> ip6srvCur],
         ~Has64(k), pool # <<>>, pool' = Tail(pool), holder' = w,
         wk' = [wk EXCEPT ![w].pc = "read4", ![w].key = k, ![w].ip4p = Head(pool)],
         UNCHANGED <<mapPool, map64, map46, flow, ip6srvCur, crashed, torn, protocol>>
  PROVE  AppBase'
<1>1. /\ wk \in [Tids -> WkType] /\ wk[w] \in WkType /\ WorkerInv(w, wk[w])
      /\ Workers /\ Tables
  BY DEF AppBase, Workers
<1>2. k \in Keys /\ k \in Key64
  BY KeyRead, KeysAssumption
<1>3. holder = NoTid /\ ~HolderAt({"read4", "read6"}) /\ ~HolderAt({"read46"})
  BY DEF Free, HolderAt
<1>4. SMTypeOK /\ OnePerClientPort /\ PortsWith(0) /\ TablesOn(Len(flow))
  BY <1>1, <1>3 DEF Tables
<1>5. PICK p : p = Head(pool)
  OBVIOUS
<1>6. /\ p \in IP4Port /\ p = [ip |-> PoolAddr, port |-> MinPort + Len(flow)]
      /\ pool' \in Seq(IP4Port) /\ Len(pool') = Len(pool) - 1
      /\ \A i \in DOMAIN pool' :
           pool'[i] = [ip |-> PoolAddr, port |-> MaxPort - Len(pool') + i]
  BY <1>4, <1>5, PoolPopped
<1>r. PICK r : r = [wk[w] EXCEPT !.pc = "read4", !.key = k, !.ip4p = p]
  OBVIOUS
<1>7. r \in WkType
  BY <1>1, <1>2, <1>6, <1>r DEF WkType, Pcs
<1>8. /\ r.pc = "read4" /\ r.conn = wk[w].conn /\ r.content = wk[w].content
      /\ r.own = wk[w].own /\ r.dest = wk[w].dest /\ r.todo = wk[w].todo
      /\ r.it = wk[w].it /\ r.key = k /\ r.ip4p = p
  BY <1>1, <1>r DEF WkType
<1>9. wk' = [wk EXCEPT ![w] = r]
  BY <1>1, <1>5, <1>r
<1>10. WorkerInv(w, r)'
  BY <1>1, <1>8 DEF WorkerInv, Early, Reading, Parsing
<1>11. /\ wk' \in [Tids -> WkType] /\ wk'[w] = r
       /\ \A v \in Tids : v # w => wk'[v] = wk[v]
       /\ \A v \in Tids : WorkerInv(v, wk[v])'
       /\ \A f \in DOMAIN protocol' : protocol'[f] \in Names
  BY <1>1, <1>7, <1>9, <1>10, OthersHold
<1>12. w # NoTid /\ NoTid \notin Tids
  BY DEF Tids, NoTid
<1>13. Locked'
  BY <1>1, <1>3, <1>8, <1>11, <1>12 DEF Locked, Workers, Reading
<1>14. HolderAt({"read4", "read6"})' /\ ~HolderAt({"read46"})'
  BY <1>8, <1>11, <1>12 DEF HolderAt
<1>15. PortsWith(1)'
  <2>1. Len(flow') + Len(pool') + 1 = MaxPort - MinPort + 1
    <3>1. Len(flow) + Len(pool) + 0 = MaxPort - MinPort + 1 /\ Len(flow) \in Nat
          /\ Len(pool) \in Nat
      BY <1>4, LenProperties DEF PortsWith, SMTypeOK
    <3>. QED BY <1>6, <3>1
  <2>. QED BY <1>4, <1>6, <2>1 DEF PortsWith
<1>16. TablesOn(Len(flow))'
  BY <1>4 DEF TablesOn
<1>17. SMTypeOK' /\ OnePerClientPort'
  BY <1>4, <1>6 DEF SMTypeOK, OnePerClientPort
<1>18. Tables'
  BY <1>14, <1>15, <1>16, <1>17 DEF Tables
<1>19. HolderInv(r)'
  <2>1. ~Has64(k)'
    BY DEF Has64
  <2>2. k.cli = Head(r.todo) /\ (r.own => k.srv = r.conn.key.srv)
    BY <1>1, <1>8 DEF WorkerInv
  <2>3. p = [ip |-> PoolAddr, port |-> MinPort + Len(flow')]
    BY <1>6
  <2>. QED BY <1>2, <1>8, <2>1, <2>2, <2>3 DEF HolderInv
<1>. QED BY <1>11, <1>12, <1>13, <1>18, <1>19 DEF AppBase, Workers

LEMMA ReadSrv4Base ==
  ASSUME AppBase, NEW w \in Tids, ReadSrv4(w) PROVE AppBase'
<1>1. /\ wk \in [Tids -> WkType] /\ wk[w] \in WkType /\ WorkerInv(w, wk[w])
      /\ Workers /\ Tables /\ wk[w].pc = "read4" /\ ip6srvCur \in IPv6Addr
  BY DEF AppBase, Workers, ReadSrv4, Tables, SMTypeOK
<1>2. w # NoTid /\ holder = w /\ HolderInv(wk[w])
  BY <1>1 DEF Tids, NoTid, Workers, Locked, Reading
<1>3. PICK s : s = ServerAddr4(ip6srvCur)
  OBVIOUS
<1>4. s \in Nat /\ s = ip6srvCur.low
  BY <1>1, <1>3 DEF ServerAddr4, IPv6Addr
<1>r. PICK r : r = [wk[w] EXCEPT !.pc = "read6", !.srv4 = s]
  OBVIOUS
<1>5. r \in WkType
  BY <1>1, <1>4, <1>r DEF WkType, Pcs
<1>6. /\ r.pc = "read6" /\ r.conn = wk[w].conn /\ r.content = wk[w].content
      /\ r.own = wk[w].own /\ r.dest = wk[w].dest /\ r.todo = wk[w].todo
      /\ r.it = wk[w].it /\ r.key = wk[w].key /\ r.ip4p = wk[w].ip4p /\ r.srv4 = s
  BY <1>1, <1>r DEF WkType
<1>7. wk' = [wk EXCEPT ![w] = r]
      /\ UNCHANGED <<smVars, pool, mapPool, map64, map46, flow, ip6srvCur, holder,
                     torn, crashed, protocol>>
  BY <1>1, <1>3, <1>r DEF ReadSrv4, Quiet, smVars
<1>8. WorkerInv(w, r)'
  BY <1>1, <1>6, <1>7 DEF WorkerInv, Early, Reading, Parsing
<1>9. /\ wk' \in [Tids -> WkType] /\ wk'[w] = r
      /\ \A v \in Tids : v # w => wk'[v] = wk[v]
      /\ \A v \in Tids : WorkerInv(v, wk[v])'
      /\ \A f \in DOMAIN protocol' : protocol'[f] \in Names
  BY <1>1, <1>5, <1>7, <1>8, OthersHold
<1>10. Locked'
  BY <1>1, <1>2, <1>6, <1>7, <1>9 DEF Locked, Workers, Reading
<1>11. /\ HolderAt({"read4", "read6"})' <=> HolderAt({"read4", "read6"})
       /\ HolderAt({"read46"})' <=> HolderAt({"read46"})
  BY <1>1, <1>2, <1>6, <1>7, <1>9 DEF HolderAt
<1>12. Tables'
  BY <1>1, <1>7, <1>11, SameTablesHold
<1>13. HolderInv(r)'
  <2>1. HolderInv(r)
    BY <1>1, <1>2, <1>4, <1>6 DEF HolderInv, WorkerInv
  <2>. QED BY <1>7, <2>1 DEF HolderInv, Has64
<1>. QED BY <1>2, <1>7, <1>9, <1>10, <1>12, <1>13 DEF AppBase, Workers

LEMMA ReadSrv6Base ==
  ASSUME AppBase, NEW w \in Tids, ReadSrv6(w) PROVE AppBase'
<1>1. /\ wk \in [Tids -> WkType] /\ wk[w] \in WkType /\ WorkerInv(w, wk[w])
      /\ Workers /\ Tables /\ wk[w].pc = "read6" /\ ip6srvCur \in IPv6Addr
  BY DEF AppBase, Workers, ReadSrv6, Tables, SMTypeOK
<1>2. w # NoTid /\ holder = w /\ HolderInv(wk[w])
  BY <1>1 DEF Tids, NoTid, Workers, Locked, Reading
<1>3. HolderAt({"read4", "read6"}) /\ ~HolderAt({"read46"})
  BY <1>1, <1>2 DEF HolderAt
<1>4. SMTypeOK /\ OnePerClientPort /\ PortsWith(1) /\ TablesOn(Len(flow))
  BY <1>1, <1>3 DEF Tables
<1>5. PICK n : n = Len(flow)
  OBVIOUS
<1>6. n \in Nat /\ flow \in Seq(FlowType) /\ DOMAIN flow = 1 .. n
  BY <1>4, <1>5, LenProperties DEF SMTypeOK
<1>7. PICK c : c = wk[w]
  OBVIOUS
<1>8. /\ c \in WkType /\ c.ip4p \in IP4Port /\ c.srv4 \in Nat /\ c.key.cli \in IP6Port
      /\ c.key \in Keys
  <2>1. c \in WkType /\ c.key \in Keys
    BY <1>1, <1>2, <1>7 DEF HolderInv
  <2>2. c.key \in Key64
    BY <2>1, KeysAssumption
  <2>. QED BY <2>1, <2>2 DEF WkType, Key64
<1>9. PICK g : g = [NewFlow([cli |-> c.key.cli, srv |-> ip6srvCur], c.ip4p)
                      EXCEPT !.ip4srv = c.srv4]
  OBVIOUS
<1>10. /\ g \in FlowType
       /\ g.ip6p = c.key.cli /\ g.ip4p = c.ip4p /\ g.ip6srv = ip6srvCur /\ g.ip4srv = c.srv4
  BY <1>1, <1>8, <1>9 DEF NewFlow, FlowType, ServerAddr4, IPv6Addr
<1>11. /\ flow' = Append(flow, g)
       /\ UNCHANGED <<pool, mapPool, map64, map46, ip6srvCur, holder, torn, crashed, protocol>>
  BY <1>7, <1>9 DEF ReadSrv6, Quiet
<1>12. /\ flow' \in Seq(FlowType) /\ Len(flow') = n + 1 /\ DOMAIN flow' = 1 .. n + 1
       /\ \A f \in 1 .. n : flow'[f] = flow[f]
       /\ flow'[n + 1] = g
  BY <1>5, <1>6, <1>10, <1>11
<1>r. PICK r : r = [c EXCEPT !.pc = "read46"]
  OBVIOUS
<1>13. r \in WkType
  BY <1>8, <1>r DEF WkType, Pcs
<1>14. /\ r.pc = "read46" /\ r.conn = c.conn /\ r.content = c.content
       /\ r.own = c.own /\ r.dest = c.dest /\ r.todo = c.todo
       /\ r.it = c.it /\ r.key = c.key /\ r.ip4p = c.ip4p
  BY <1>8, <1>r DEF WkType
<1>15. wk' = [wk EXCEPT ![w] = r]
  BY <1>1, <1>7, <1>r DEF ReadSrv6
<1>16. DOMAIN flow \subseteq DOMAIN flow'
  BY <1>6, <1>12
<1>17. WorkerInv(w, r)'
  BY <1>1, <1>7, <1>11, <1>14 DEF WorkerInv, Early, Reading, Parsing
<1>18. /\ wk' \in [Tids -> WkType] /\ wk'[w] = r
       /\ \A v \in Tids : v # w => wk'[v] = wk[v]
       /\ \A v \in Tids : WorkerInv(v, wk[v])'
       /\ \A f \in DOMAIN protocol' : protocol'[f] \in Names
  BY <1>1, <1>11, <1>13, <1>15, <1>16, <1>17, OthersHold
<1>19. Locked'
  BY <1>1, <1>2, <1>11, <1>14, <1>18 DEF Locked, Workers, Reading
<1>20. ~HolderAt({"read4", "read6"})' /\ HolderAt({"read46"})'
  BY <1>2, <1>11, <1>14, <1>18 DEF HolderAt
<1>21. /\ \A f \in 1 .. n : flow[f].ip4p = [ip |-> PoolAddr, port |-> MinPort + f - 1]
       /\ c.ip4p = [ip |-> PoolAddr, port |-> MinPort + n]
  BY <1>1, <1>2, <1>4, <1>5, <1>6, <1>7 DEF PortsWith, HolderInv
<1>22. PortsWith(0)'
  <2>1. Len(flow') + Len(pool') + 0 = MaxPort - MinPort + 1
    <3>1. n + Len(pool) + 1 = MaxPort - MinPort + 1 /\ Len(pool) \in Nat
      BY <1>4, <1>5, LenProperties DEF PortsWith, SMTypeOK
    <3>. QED BY <1>6, <1>11, <1>12, <3>1
  <2>2. ASSUME NEW f \in DOMAIN flow'
        PROVE  flow'[f].ip4p = [ip |-> PoolAddr, port |-> MinPort + f - 1]
    <3>1. CASE f \in 1 .. n
      BY <1>12, <1>21, <3>1
    <3>2. CASE f = n + 1
      <4>1. MinPort + n = MinPort + f - 1
        BY <1>6, <3>2, PoolAssumption
      <4>. QED BY <1>10, <1>12, <1>21, <3>2, <4>1
    <3>. QED BY <1>6, <1>12, <3>1, <3>2
  <2>. QED BY <1>4, <1>11, <2>1, <2>2 DEF PortsWith
<1>23. TablesOn(n)'
  <2>1. TablesOn(n)
    BY <1>4, <1>5
  <2>. QED BY <1>11, <1>12, <2>1 DEF TablesOn
<1>24. n = Len(flow') - 1
  BY <1>6, <1>12
<1>25. SMTypeOK' /\ OnePerClientPort'
  <2>1. /\ map64 \in [DOMAIN map64 -> DOMAIN flow'] /\ map46 \in [DOMAIN map46 -> DOMAIN flow']
    BY <1>4, <1>16 DEF SMTypeOK
  <2>. QED BY <1>4, <1>11, <1>12, <2>1 DEF SMTypeOK, OnePerClientPort
<1>26. Tables'
  BY <1>20, <1>22, <1>23, <1>24, <1>25 DEF Tables
<1>27. HolderInv(r)'
  <2>1. HolderInv(c) /\ WorkerInv(w, c) /\ c.pc = "read6"
    BY <1>1, <1>2, <1>7
  <2>2. ~Has64(c.key)'
    BY <1>11, <2>1 DEF HolderInv, Has64
  <2>3. /\ Len(flow') > 0 /\ flow'[Len(flow')] = g
    BY <1>6, <1>12
  <2>4. c.own => ip6srvCur = c.conn.key.srv /\ c.srv4 = c.conn.key.srv.low
                 /\ c.key.srv = c.conn.key.srv
    BY <2>1 DEF HolderInv, WorkerInv
  <2>. QED BY <1>8, <1>10, <1>14, <2>1, <2>2, <2>3, <2>4 DEF HolderInv
<1>. QED BY <1>2, <1>11, <1>18, <1>19, <1>26, <1>27 DEF AppBase, Workers

LEMMA FillTablesBase ==
  ASSUME AppBase, NEW w \in Tids, FillTables(w) PROVE AppBase'
<1>1. /\ wk \in [Tids -> WkType] /\ wk[w] \in WkType /\ WorkerInv(w, wk[w])
      /\ Workers /\ Tables /\ wk[w].pc = "read46" /\ ip6srvCur \in IPv6Addr
  BY DEF AppBase, Workers, FillTables, Tables, SMTypeOK
<1>2. w # NoTid /\ holder = w /\ HolderInv(wk[w])
  BY <1>1 DEF Tids, NoTid, Workers, Locked, Reading
<1>3. ~HolderAt({"read4", "read6"}) /\ HolderAt({"read46"})
  BY <1>1, <1>2 DEF HolderAt
<1>4. SMTypeOK /\ OnePerClientPort /\ PortsWith(0) /\ TablesOn(Len(flow) - 1)
  BY <1>1, <1>3 DEF Tables
<1>7. PICK c : c = wk[w]
  OBVIOUS
<1>8. /\ c \in WkType /\ c.ip4p \in IP4Port /\ c.key \in Keys /\ ~Has64(c.key)
      /\ Len(flow) > 0 /\ flow[Len(flow)].ip6p = c.key.cli
      /\ flow[Len(flow)].ip4p = c.ip4p
      /\ c.own => /\ flow[Len(flow)].ip6srv = c.conn.key.srv
                  /\ flow[Len(flow)].ip4srv = c.conn.key.srv.low
                  /\ c.key.srv = c.conn.key.srv /\ ip6srvCur = c.conn.key.srv
  BY <1>1, <1>2, <1>7 DEF WkType, HolderInv, WorkerInv
<1>5. PICK n : n = Len(flow) - 1
  OBVIOUS
<1>6. n \in Nat /\ Len(flow) = n + 1 /\ flow \in Seq(FlowType) /\ DOMAIN flow = 1 .. n + 1
  <2>1. flow \in Seq(FlowType) /\ Len(flow) \in Nat /\ DOMAIN flow = 1 .. Len(flow)
    BY <1>4, LenProperties DEF SMTypeOK
  <2>. QED BY <1>5, <1>8, <2>1
<1>9. PICK kk : kk = NewKey46(w)
  OBVIOUS
<1>10. kk \in Key46 /\ kk.ip4p = c.ip4p /\ kk.srv = ip6srvCur.low
  BY <1>1, <1>7, <1>8, <1>9 DEF NewKey46, Key46, ServerAddr4, IPv6Addr
<1>11. /\ map64' = Assign(map64, c.key, n + 1) /\ map46' = Assign(map46, kk, n + 1)
       /\ holder' = NoTid /\ Mapped(w, n + 1)
       /\ torn' = IF c.own THEN torn ELSE torn \cup {n + 1}
       /\ UNCHANGED <<pool, mapPool, flow, ip6srvCur, protocol, crashed>>
  BY <1>6, <1>7, <1>9 DEF FillTables
<1>12. torn \subseteq torn' /\ torn' \subseteq torn \cup {n + 1}
  BY <1>11
<1>13. \A f \in 1 .. n : flow'[f].ip4p # kk.ip4p
  <2>1. ASSUME NEW f \in 1 .. n, flow[f].ip4p = flow[n + 1].ip4p PROVE FALSE
    <3>1. f \in DOMAIN flow /\ n + 1 \in DOMAIN flow
      BY <1>6
    <3>2. /\ flow[f].ip4p = [ip |-> PoolAddr, port |-> MinPort + f - 1]
          /\ flow[n + 1].ip4p = [ip |-> PoolAddr, port |-> MinPort + (n + 1) - 1]
      BY <1>4, <3>1 DEF PortsWith
    <3>3. PICK p : p = flow[n + 1].ip4p
      OBVIOUS
    <3>4. p.port = MinPort + f - 1
      <4>1. p = [ip |-> PoolAddr, port |-> MinPort + f - 1]
        BY <2>1, <3>2, <3>3
      <4>. QED BY <4>1
    <3>5. p.port = MinPort + (n + 1) - 1
      BY <3>2, <3>3
    <3>. QED BY <1>6, <3>4, <3>5, PoolAssumption
  <2>. QED BY <1>6, <1>8, <1>10, <1>11, <2>1
<1>14. n + 1 \notin torn' => /\ Key64Of(flow'[n + 1]) = c.key
                             /\ Key46Of(flow'[n + 1]) = kk
                             /\ flow'[n + 1].ip4srv = flow'[n + 1].ip6srv.low
  <2>1. ASSUME n + 1 \notin torn' PROVE c.own
    BY <1>11, <2>1
  <2>2. c.key = [cli |-> c.key.cli, srv |-> c.key.srv]
    BY <1>8, KeysAssumption DEF Key64
  <2>3. kk = [ip4p |-> c.ip4p, srv |-> ip6srvCur.low]
    BY <1>7, <1>9 DEF NewKey46, ServerAddr4
  <2>. QED BY <1>6, <1>8, <1>11, <2>1, <2>2, <2>3 DEF Key64Of, Key46Of
<1>15. SMTypeOK' /\ OnePerClientPort' /\ TablesOn(n + 1)'
  <2>1. /\ pool' \in Seq(IP4Port) /\ ip6srvCur' \in IPv6Addr /\ flow' \in Seq(FlowType)
        /\ Len(flow') = n + 1 /\ mapPool' = mapPool /\ TablesOn(n)
        /\ \A f \in 1 .. n : flow'[f] = flow[f]
    BY <1>4, <1>5, <1>6, <1>11 DEF SMTypeOK
  <2>2. flow'[n + 1].ip4p = kk.ip4p
    BY <1>6, <1>8, <1>10, <1>11
  <2>3. Entered(n, c.key, kk)
    BY <1>11, <1>12, <1>13, <1>14, <2>1, <2>2 DEF Entered
  <2>. QED BY <1>4, <1>6, <1>8, <1>10, <2>1, <2>3, Enter
<1>16. PortsWith(0)'
  BY <1>4, <1>11 DEF PortsWith
<1>17. PICK m : m = Mapping(w, n + 1)
  OBVIOUS
<1>18. m \in [ep : IP6Port, flow : Nat, own : BOOLEAN]
  <2>1. c.todo \in Seq(IP6Port) /\ c.todo # <<>> /\ c.own \in BOOLEAN
    BY <1>1, <1>7 DEF WkType, WorkerInv, Reading
  <2>2. Head(c.todo) \in IP6Port
    BY <2>1, HeadTailProperties
  <2>. QED BY <1>6, <1>7, <1>17, <2>1, <2>2 DEF Mapping
<1>r. PICK r : r = [c EXCEPT !.pc = "write", !.last = n + 1, !.mapped = @ \cup {m}]
  OBVIOUS
<1>19. r \in WkType
  <2>1. c.mapped \cup {m} \subseteq [ep : IP6Port, flow : Nat, own : BOOLEAN]
    BY <1>8, <1>18 DEF WkType
  <2>2. n + 1 \in Nat
    BY <1>6
  <2>. QED BY <1>8, <1>r, <2>1, <2>2 DEF WkType, Pcs
<1>20. /\ r.pc = "write" /\ r.conn = c.conn /\ r.content = c.content
       /\ r.own = c.own /\ r.dest = c.dest /\ r.todo = c.todo /\ r.it = c.it
  BY <1>8, <1>r DEF WkType
<1>21. wk' = [wk EXCEPT ![w] = r]
  BY <1>1, <1>7, <1>11, <1>17, <1>r DEF Mapped
<1>22. WorkerInv(w, r)'
  BY <1>1, <1>7, <1>11, <1>20 DEF WorkerInv, Early, Reading, Parsing
<1>23. /\ wk' \in [Tids -> WkType] /\ wk'[w] = r
       /\ \A v \in Tids : v # w => wk'[v] = wk[v]
       /\ \A v \in Tids : WorkerInv(v, wk[v])'
       /\ \A f \in DOMAIN protocol' : protocol'[f] \in Names
  BY <1>1, <1>11, <1>19, <1>21, <1>22, OthersHold
<1>24. NoTid \notin Tids
  BY DEF Tids, NoTid
<1>25. Locked'
  BY <1>1, <1>2, <1>11, <1>20, <1>23, <1>24 DEF Locked, Workers, Reading
<1>26. ~HolderAt({"read4", "read6"})' /\ ~HolderAt({"read46"})'
  BY <1>11 DEF HolderAt
<1>27. Len(flow') = n + 1
  BY <1>6, <1>11
<1>28. TablesOn(Len(flow))'
  BY <1>15, <1>27
<1>29. Tables'
  BY <1>15, <1>16, <1>26, <1>28 DEF Tables
<1>. QED BY <1>11, <1>23, <1>25, <1>29 DEF AppBase, Workers
-----------------------------------------------------------------------------
LEMMA ReadKeyBase ==
  ASSUME AppBase, NEW w \in Tids, ReadKey(w) PROVE AppBase'
<1>1. PICK k : k = [cli |-> Head(wk[w].todo), srv |-> ip6srvCur]
  OBVIOUS
<1>2. /\ wk[w].pc = "parse" /\ wk[w].todo # <<>> /\ Free
      /\ UNCHANGED <<torn, protocol>>
      /\ \/ /\ Has64(k) /\ Mapped(w, At64(k))
            /\ UNCHANGED <<smVars, holder, crashed>>
         \/ /\ crashed' = TRUE
            /\ UNCHANGED <<smVars, wk, holder>>
         \/ /\ ~Has64(k) /\ pool # <<>> /\ pool' = Tail(pool) /\ holder' = w
            /\ wk' = [wk EXCEPT ![w].pc = "read4", ![w].key = k, ![w].ip4p = Head(pool)]
            /\ UNCHANGED <<mapPool, map64, map46, flow, ip6srvCur, crashed>>
  BY <1>1 DEF ReadKey
<1>3. CASE Has64(k) /\ Mapped(w, At64(k)) /\ UNCHANGED <<smVars, holder, crashed>>
  <2>1. k \in Keys
    BY <1>1, <1>2, KeyRead
  <2>2. SMTypeOK
    BY DEF AppBase, Tables
  <2>3. At64(k) \in Nat
    <3>1. PICK x \in DOMAIN map64 : At64(k) = map64[x]
      BY <1>3, <2>1, <2>2, At64IsEntry
    <3>2. map64[x] \in DOMAIN flow /\ DOMAIN flow = 1 .. Len(flow)
      BY <2>2, LenProperties DEF SMTypeOK
    <3>. QED BY <3>1, <3>2
  <2>4. PICK f \in Nat : f = At64(k)
    BY <2>3
  <2>5. Mapped(w, f)
    BY <1>3, <2>4
  <2>. QED BY <1>2, <1>3, <2>5, ReadKeyHitBase
<1>4. CASE crashed' = TRUE /\ UNCHANGED <<smVars, wk, holder>>
  BY <1>2, <1>4, CrashBase
<1>5. CASE /\ ~Has64(k) /\ pool # <<>> /\ pool' = Tail(pool) /\ holder' = w
           /\ wk' = [wk EXCEPT ![w].pc = "read4", ![w].key = k, ![w].ip4p = Head(pool)]
           /\ UNCHANGED <<mapPool, map64, map46, flow, ip6srvCur, crashed>>
  BY <1>1, <1>2, <1>5, ReadKeyCreates
<1>. QED BY <1>2, <1>3, <1>4, <1>5

LEMMA BeginBase ==
  ASSUME AppBase, NEW w \in Tids, Begin(w), ~crashed PROVE AppBase'
<1>1. Free /\ wk[w].pc = "begin" /\ UNCHANGED <<protocol, holder, torn>>
  BY DEF Begin
<1>2. CASE wk[w].dest = SERVER
  <2>1. PICK f : f = MappingResult(Src(w))
    OBVIOUS
  <2>2. SERVER # CLIENT
    BY DEF SERVER, CLIENT
  <2>3. /\ DoMapping(Src(w)) /\ crashed' = (f = NoFlow)
        /\ wk' = [wk EXCEPT ![w].pc = "claim", ![w].flow = f]
    BY <1>2, <2>1, <2>2 DEF Begin
  <2>. QED BY <1>1, <1>2, <2>1, <2>3, BeginServerBase
<1>3. CASE wk[w].dest = CLIENT
  <2>1. SERVER # CLIENT
    BY DEF SERVER, CLIENT
  <2>2. PICK f : f = GetMapping46(Key46C(wk[w].conn))
    OBVIOUS
  <2>3. /\ wk' = [wk EXCEPT ![w] = IF f = NoFlow THEN Idle
                                    ELSE [wk[w] EXCEPT !.pc = "app", !.flow = f]]
        /\ UNCHANGED <<smVars, crashed>>
    BY <1>3, <2>1, <2>2 DEF Begin
  <2>. QED BY <1>1, <1>3, <2>2, <2>3, BeginClientBase
<1>. QED BY <1>2, <1>3 DEF Begin

LEMMA AppNextBase == AppBase /\ [AppNext]_appVars => AppBase'
<1>. SUFFICES ASSUME AppBase, [AppNext]_appVars PROVE AppBase'
  OBVIOUS
<1>1. CASE UNCHANGED appVars
  <2>1. UNCHANGED <<smVars, holder, torn, wk, protocol, crashed>>
        /\ UNCHANGED <<pool, mapPool, map64, map46, flow, ip6srvCur>>
    BY <1>1 DEF appVars, smVars
  <2>2. \A S : HolderAt(S)' <=> HolderAt(S)
    BY <2>1 DEF HolderAt
  <2>3. Tables'
    BY <2>1, <2>2, SameTablesHold DEF AppBase
  <2>4. Workers'
    BY <2>1 DEF AppBase, Workers, Locked, HolderInv, WorkerInv, Has64
  <2>. QED BY <2>3, <2>4 DEF AppBase
<1>2. ASSUME NEW w \in Tids, ~crashed, Take(w) PROVE AppBase'
  BY <1>2, TakeBase
<1>3. ASSUME NEW w \in Tids, Steps(w) PROVE AppBase'
  <2>1. ~crashed
    BY <1>3 DEF Steps
  <2>2. CASE Begin(w)
    BY <2>1, <2>2, BeginBase
  <2>3. CASE Claim(w)
    BY <2>1, <2>3, ClaimBase
  <2>4. CASE SetCur(w)
    BY <2>4, SetCurBase
  <2>5. CASE App(w)
    BY <2>5, AppStepBase
  <2>6. CASE TryParser(w)
    BY <2>6, TryParserBase
  <2>7. CASE ReadKey(w)
    BY <2>7, ReadKeyBase
  <2>8. CASE ReadSrv4(w)
    BY <2>8, ReadSrv4Base
  <2>9. CASE ReadSrv6(w)
    BY <2>9, ReadSrv6Base
  <2>10. CASE FillTables(w)
    BY <2>10, FillTablesBase
  <2>11. CASE Write(w)
    BY <2>11, WriteBase
  <2>12. CASE ParserDone(w)
    BY <2>12, ParserDoneBase
  <2>13. CASE Guess(w)
    BY <2>13, GuessBase
  <2>14. CASE Done(w)
    BY <2>14, DoneBase
  <2>. QED BY <1>3, <2>2, <2>3, <2>4, <2>5, <2>6, <2>7, <2>8, <2>9, <2>10, <2>11,
              <2>12, <2>13, <2>14 DEF Steps
<1>. QED BY <1>1, <1>2, <1>3 DEF AppNext

LEMMA BaseAlways == AppSpec => []AppBase
<1>. QED BY AppInitBase, AppNextBase, PTL DEF AppSpec
-----------------------------------------------------------------------------
(* While nobody is inside doMapping, the pool and the flows are as in the  *)
(* sequential case, and each flow that is not torn is found.               *)
LEMMA BaseUnharmed == AppBase => OthersUnharmed
<1>. SUFFICES ASSUME AppBase, holder = NoTid
              PROVE  /\ PoolConserved
                     /\ \A f \in DOMAIN flow \ torn :
                          /\ GetMapping64(Key64Of(flow[f])) = f
                          /\ GetMapping46(Key46Of(flow[f])) = f
  BY DEF OthersUnharmed
<1>1. ~HolderAt({"read4", "read6"}) /\ ~HolderAt({"read46"})
  BY DEF HolderAt
<1>2. SMTypeOK /\ OnePerClientPort /\ PortsWith(0) /\ TablesOn(Len(flow))
  BY <1>1 DEF AppBase, Tables
<1>3. DOMAIN flow = 1 .. Len(flow) /\ Len(flow) \in Nat /\ Len(pool) \in Nat
      /\ DOMAIN pool = 1 .. Len(pool)
  BY <1>2, LenProperties DEF SMTypeOK
<1>4. PoolIsRest
  <2>1. Len(flow) + Len(pool) = MaxPort - MinPort + 1
    BY <1>2, <1>3 DEF PortsWith
  <2>2. ASSUME NEW i \in DOMAIN pool
        PROVE  pool[i] = [ip |-> PoolAddr, port |-> MinPort + Len(flow) + i - 1]
    <3>1. MaxPort - Len(pool) + i = MinPort + Len(flow) + i - 1
      BY <1>3, <2>1, PoolAssumption
    <3>. QED BY <1>2, <3>1 DEF PortsWith
  <2>. QED BY <1>2, <2>1, <2>2 DEF PortsWith, PoolIsRest
<1>5. PoolConserved
  BY <1>2, <1>4, RestIsConserved
<1>6. ASSUME NEW f \in DOMAIN flow, f \notin torn
      PROVE  /\ GetMapping64(Key64Of(flow[f])) = f
             /\ GetMapping46(Key46Of(flow[f])) = f
  <2>1. PICK k : k = Key64Of(flow[f])
    OBVIOUS
  <2>2. /\ k \in DOMAIN map64 /\ map64[k] = f
        /\ Key46Of(flow[f]) \in DOMAIN map46 /\ map46[Key46Of(flow[f])] = f
    BY <1>2, <1>3, <1>6, <2>1 DEF TablesOn
  <2>3. k \in Keys
    BY <1>2, <2>2 DEF SMTypeOK
  <2>4. Has64(k)
    BY <1>2, <2>2, <2>3, Has64IsPort
  <2>5. PICK x \in DOMAIN map64 : x.cli.port = k.cli.port /\ At64(k) = map64[x]
    BY <1>2, <2>3, <2>4, At64IsEntry
  <2>6. x = k
    BY <1>2, <2>2, <2>5 DEF OnePerClientPort
  <2>7. GetMapping64(k) = f
    BY <2>2, <2>4, <2>5, <2>6 DEF GetMapping64
  <2>. QED BY <2>1, <2>2, <2>7 DEF GetMapping46
<1>. QED BY <1>5, <1>6

(* For any number of workers and of connections: however the reads of      *)
(* ip6srv_cur_ in one mapping are torn by stores of other workers, no port *)
(* is lost or in two hands, and every flow that was not torn is found from *)
(* both sides (state.cc:72-91, state.h:32-39).                             *)
THEOREM OthersAlwaysUnharmed == AppSpec => []OthersUnharmed
<1>. QED BY BaseAlways, BaseUnharmed, PTL
-----------------------------------------------------------------------------
(* What the tables say of ports and pairs; once true, it stays.            *)
Found(p, f) == \E x \in DOMAIN map64 : x.cli.port = p /\ map64[x] = f
Seen(p)     == \E x \in DOMAIN map64 : x.cli.port = p

Leads(f, e, s) ==
  f \in torn \/ (/\ [cli |-> e, srv |-> s] \in DOMAIN map64
                 /\ map64[[cli |-> e, srv |-> s]] = f)

OfTransport(name, t) == \E q \in Range(Protocols) : q.name = name /\ q.transport = t

(* Flow f carries the data of an announced port.                           *)
ForData(f) ==
  \E p \in Contents : p.proto = "ftp" /\ \E i \in DOMAIN p.eps : Found(p.eps[i].port, f)

(* The flow of worker c's packet is its connection's, the flow it mapped   *)
(* last the announced port's; its parser is the content's.                 *)
Placed(c) ==
  /\ c.pc = "begin" /\ c.dest = CLIENT => Seen(c.conn.key.cli.port)
  /\ c.pc \notin {"idle", "begin"} => crashed \/ Found(c.conn.key.cli.port, c.flow)
  /\ c.pc = "write" => Found(Head(c.todo).port, c.last)
  /\ c.pc \in Parsing =>
       /\ Protocols[c.it].name = c.content.proto
       /\ c.todo # <<>> => Protocols[c.it].c2s = "stateless"

(* What it knows of its flow's protocol is still so.                       *)
Settled(c) ==
  c.pc \in {"try"} \cup Parsing =>
    /\ c.known <=> c.flow \in DOMAIN protocol
    /\ c.known /\ c.it <= Len(Protocols) => Protocols[c.it].name = protocol[c.flow]

(* It keeps to the protocols of its connection's transport, and what it    *)
(* mapped leads to the endpoints that were announced.                      *)
Paired(c) ==
  /\ \A n \in c.guess : OfTransport(n, c.conn.transport)
  /\ c.pc = "try" /\ c.known /\ c.it <= Len(Protocols) =>
       Protocols[c.it].transport = c.conn.transport
  /\ c.pc \in Parsing => Protocols[c.it].transport = c.conn.transport
  /\ \A m \in c.mapped : m.own => Leads(m.flow, m.ep, c.conn.key.srv)

(* Each flow has one entry; flows are ignored, or have a protocol, for     *)
(* what was announced for them or sent in them.                            *)
Files ==
  /\ \A x, y \in DOMAIN map64 : map64[x] = map64[y] => x = y
  /\ \A f \in ignored : ForData(f)
  /\ \A f \in DOMAIN protocol : \E x \in DOMAIN map64 : map64[x] = f
  /\ npkt \in 0 .. MaxPkts

(* What holds of the tables if no two pairs share a port.                  *)
PairTables ==
  /\ \A x \in DOMAIN map64 : map64[x] \notin torn => \E c \in Conns : x \in Pairs(c)
  /\ \A c \in Conns, f \in DOMAIN protocol :
       Found(c.key.cli.port, f) => OfTransport(protocol[f], c.transport)
  /\ \A a \in written : Leads(a.flow, a.ep, a.key.srv)

AppMore ==
  /\ Files /\ \A w \in Tids : Placed(wk[w])
  /\ WorkersApart => \A w \in Tids : Settled(wk[w])
  /\ PairsApart => PairTables /\ \A w \in Tids : Paired(wk[w])
-----------------------------------------------------------------------------
LEMMA AppInitMore == AppInit => AppMore
<1>. SUFFICES ASSUME AppInit PROVE AppMore
  OBVIOUS
<1>1. /\ DOMAIN map64 = {} /\ ignored = {} /\ DOMAIN protocol = {} /\ written = {}
      /\ npkt = 0 /\ \A w \in Tids : wk[w] = Idle
  BY DEF AppInit, SMInit
<1>2. Placed(Idle) /\ Settled(Idle) /\ Paired(Idle)
  BY DEF Placed, Settled, Paired, Idle, Parsing, Reading
<1>3. Files
  BY <1>1, AppAssumption DEF Files
<1>4. PairTables
  BY <1>1 DEF PairTables
<1>. QED BY <1>1, <1>2, <1>3, <1>4 DEF AppMore

(* Entries and torn flows are added, none goes.                            *)
Grows ==
  /\ \A x \in DOMAIN map64 : x \in DOMAIN map64' /\ map64'[x] = map64[x]
  /\ torn \subseteq torn'

(* All but what is read of ip6srv_cur_ is the same.                        *)
Same(d, c) ==
  /\ d.pc = c.pc /\ d.dest = c.dest /\ d.conn = c.conn /\ d.content = c.content
  /\ d.flow = c.flow /\ d.known = c.known /\ d.it = c.it /\ d.guess = c.guess
  /\ d.todo = c.todo /\ d.mapped = c.mapped /\ d.last = c.last

LEMMA GrowsKeeps ==
  ASSUME Grows
  PROVE  /\ \A p, f : Found(p, f) => Found(p, f)'
         /\ \A p : Seen(p) => Seen(p)'
         /\ \A f, e, s : Leads(f, e, s) => Leads(f, e, s)'
         /\ \A f : ForData(f) => ForData(f)'
<1>1. \A p, f : Found(p, f) => Found(p, f)'
  BY DEF Grows, Found
<1>2. \A p : Seen(p) => Seen(p)'
  BY DEF Grows, Seen
<1>3. \A f, e, s : Leads(f, e, s) => Leads(f, e, s)'
  BY DEF Grows, Leads
<1>4. ASSUME NEW f, ForData(f) PROVE ForData(f)'
  <2>1. PICK p \in Contents : p.proto = "ftp" /\ \E i \in DOMAIN p.eps : Found(p.eps[i].port, f)
    BY <1>4 DEF ForData
  <2>2. PICK i \in DOMAIN p.eps : Found(p.eps[i].port, f)
    BY <2>1
  <2>3. Found(p.eps[i].port, f)'
    BY <1>1, <2>2
  <2>. QED BY <2>1, <2>3 DEF ForData
<1>. QED BY <1>1, <1>2, <1>3, <1>4

(* What a worker does not lose by the steps of the others.                 *)
LEMMA GrowsPlaced ==
  ASSUME Grows, ~crashed, NEW c, NEW d, Same(d, c)
  PROVE  /\ Placed(c) => Placed(d)'
         /\ Paired(c) => Paired(d)'
<1>1. /\ \A p, f : Found(p, f) => Found(p, f)'
      /\ \A p : Seen(p) => Seen(p)'
      /\ \A f, e, s : Leads(f, e, s) => Leads(f, e, s)'
  BY GrowsKeeps
<1>2. /\ d.pc = c.pc /\ d.dest = c.dest /\ d.conn = c.conn /\ d.content = c.content
      /\ d.flow = c.flow /\ d.known = c.known /\ d.it = c.it /\ d.guess = c.guess
      /\ d.todo = c.todo /\ d.mapped = c.mapped /\ d.last = c.last
  BY DEF Same
<1>3. ASSUME Placed(c) PROVE Placed(d)'
  <2>1. /\ c.pc = "begin" /\ c.dest = CLIENT => Seen(c.conn.key.cli.port)'
        /\ c.pc \notin {"idle", "begin"} => Found(c.conn.key.cli.port, c.flow)'
        /\ c.pc = "write" => Found(Head(c.todo).port, c.last)'
        /\ c.pc \in Parsing =>
             /\ Protocols[c.it].name = c.content.proto
             /\ c.todo # <<>> => Protocols[c.it].c2s = "stateless"
    BY <1>1, <1>3 DEF Placed
  <2>. QED BY <1>2, <2>1 DEF Placed
<1>4. ASSUME Paired(c) PROVE Paired(d)'
  <2>1. /\ \A n \in c.guess : OfTransport(n, c.conn.transport)
        /\ c.pc = "try" /\ c.known /\ c.it <= Len(Protocols) =>
             Protocols[c.it].transport = c.conn.transport
        /\ c.pc \in Parsing => Protocols[c.it].transport = c.conn.transport
        /\ \A m \in c.mapped : m.own => Leads(m.flow, m.ep, c.conn.key.srv)'
    BY <1>1, <1>4 DEF Paired
  <2>. QED BY <1>2, <2>1 DEF Paired
<1>. QED BY <1>3, <1>4

(* Each worker in doApp has a flow of its own, if connections that share a *)
(* port share their worker.                                                *)
LEMMA FlowsApart ==
  ASSUME AppBase, AppMore, WorkersApart, ~crashed, NEW v \in Tids, NEW w \in Tids,
         v # w, wk[v].pc \notin {"idle", "begin"}, wk[w].pc \notin {"idle", "begin"}
  PROVE  wk[v].flow # wk[w].flow
<1>1. /\ wk[v].conn \in Conns /\ wk[v].conn.worker = v
      /\ wk[w].conn \in Conns /\ wk[w].conn.worker = w
  BY DEF AppBase, Workers, WorkerInv
<1>2. PICK c, d : c = wk[v] /\ d = wk[w]
  OBVIOUS
<1>3. Placed(c) /\ Placed(d)
  BY <1>2 DEF AppMore
<1>4. Found(c.conn.key.cli.port, c.flow) /\ Found(d.conn.key.cli.port, d.flow)
  BY <1>2, <1>3 DEF Placed
<1>5. ASSUME c.flow = d.flow PROVE FALSE
  <2>1. PICK x \in DOMAIN map64 : x.cli.port = c.conn.key.cli.port /\ map64[x] = c.flow
    BY <1>4 DEF Found
  <2>2. PICK y \in DOMAIN map64 : y.cli.port = d.conn.key.cli.port /\ map64[y] = d.flow
    BY <1>4 DEF Found
  <2>3. x = y
    BY <1>5, <2>1, <2>2 DEF AppMore, Files
  <2>. QED BY <1>1, <1>2, <2>1, <2>2, <2>3 DEF WorkersApart
<1>. QED BY <1>2, <1>5

(* Worker w makes a step, its record becomes r.                            *)
OwnStep(w, r) ==
  /\ wk'[w] = r
  /\ \A v \in Tids : v # w => Same(wk'[v], wk[v])
  /\ \/ UNCHANGED protocol
     \/ /\ wk[w].pc \in {"try"} \cup Parsing
        /\ \E name : SetProtocol(wk[w].flow, name)

LEMMA StepMore ==
  ASSUME AppBase, AppMore, NEW w \in Tids, NEW r, ~crashed,
         Grows, OwnStep(w, r),
         Files', PairsApart => PairTables',
         Placed(r)', WorkersApart => Settled(r)', PairsApart => Paired(r)'
  PROVE  AppMore'
<1>1. ASSUME NEW v \in Tids PROVE Placed(wk[v])'
  <2>1. PICK c, d : c = wk[v] /\ d = wk'[v]
    OBVIOUS
  <2>2. CASE v = w
    BY <2>1, <2>2 DEF OwnStep
  <2>3. CASE v # w
    <3>1. Same(d, c) /\ Placed(c)
      BY <2>1, <2>3 DEF OwnStep, AppMore
    <3>2. Placed(d)'
      BY <3>1, GrowsPlaced
    <3>. QED BY <2>1, <3>2
  <2>. QED BY <2>2, <2>3
<1>2. ASSUME PairsApart, NEW v \in Tids PROVE Paired(wk[v])'
  <2>1. PICK c, d : c = wk[v] /\ d = wk'[v]
    OBVIOUS
  <2>2. CASE v = w
    BY <1>2, <2>1, <2>2 DEF OwnStep
  <2>3. CASE v # w
    <3>1. Same(d, c) /\ Paired(c)
      BY <1>2, <2>1, <2>3 DEF OwnStep, AppMore
    <3>2. Paired(d)'
      BY <3>1, GrowsPlaced
    <3>. QED BY <2>1, <3>2
  <2>. QED BY <2>2, <2>3
<1>3. ASSUME WorkersApart, NEW v \in Tids PROVE Settled(wk[v])'
  <2>1. PICK c, d : c = wk[v] /\ d = wk'[v]
    OBVIOUS
  <2>2. CASE v = w
    BY <1>3, <2>1, <2>2 DEF OwnStep
  <2>3. CASE v # w
    <3>1. Same(d, c) /\ Settled(c)
      BY <1>3, <2>1, <2>3 DEF OwnStep, AppMore
    <3>2. ASSUME c.pc \in {"try"} \cup Parsing
          PROVE  /\ c.flow \in DOMAIN protocol' <=> c.flow \in DOMAIN protocol
                 /\ c.flow \in DOMAIN protocol => protocol'[c.flow] = protocol[c.flow]
      <4>1. CASE UNCHANGED protocol
        BY <4>1
      <4>2. ASSUME wk[w].pc \in {"try"} \cup Parsing, NEW name, SetProtocol(wk[w].flow, name)
            PROVE  /\ c.flow \in DOMAIN protocol' <=> c.flow \in DOMAIN protocol
                   /\ c.flow \in DOMAIN protocol => protocol'[c.flow] = protocol[c.flow]
        <5>1. "idle" \notin {"try"} \cup Parsing /\ "begin" \notin {"try"} \cup Parsing
          BY DEF Parsing, Reading
        <5>2. c.flow # wk[w].flow
          BY <1>3, <2>1, <2>3, <3>2, <4>2, <5>1, FlowsApart
        <5>. QED BY <4>2, <5>2 DEF SetProtocol, Assign
      <4>. QED BY <4>1, <4>2 DEF OwnStep
    <3>3. Settled(d)'
      BY <3>1, <3>2 DEF Settled, Same
    <3>. QED BY <2>1, <3>3
  <2>. QED BY <2>2, <2>3
<1>. QED BY <1>1, <1>2, <1>3 DEF AppMore

(* The same when neither tables nor protocols change.                      *)
LEMMA LocalMore ==
  ASSUME AppBase, AppMore, NEW w \in Tids, NEW r, ~crashed,
         wk' = [wk EXCEPT ![w] = r],
         UNCHANGED <<map64, torn, ignored, protocol, written, crashed>>,
         npkt' \in 0 .. MaxPkts,
         Placed(r), WorkersApart => Settled(r), PairsApart => Paired(r)
  PROVE  AppMore'
<1>1. Grows
  BY DEF Grows
<1>2. OwnStep(w, r)
  <2>1. wk \in [Tids -> WkType]
    BY DEF AppBase, Workers
  <2>. QED BY <2>1 DEF OwnStep, Same
<1>3. Files'
  BY DEF AppMore, Files, ForData, Found
<1>4. PairsApart => PairTables'
  BY DEF AppMore, PairTables, Found, Leads
<1>5. Placed(r)' /\ (WorkersApart => Settled(r)') /\ (PairsApart => Paired(r)')
  BY DEF Placed, Settled, Paired, Found, Seen, Leads
<1>. QED BY <1>1, <1>2, <1>3, <1>4, <1>5, StepMore
-----------------------------------------------------------------------------
LEMMA TakeMore ==
  ASSUME AppBase, AppMore, NEW w \in Tids, ~crashed, Take(w) PROVE AppMore'
<1>1. PICK c \in Conns, d \in {SERVER, CLIENT}, p \in Contents :
        /\ c.worker = w
        /\ d = CLIENT => Has64(c.key)
        /\ wk' = [wk EXCEPT ![w].pc = "begin", ![w].dest = d, ![w].conn = c,
                            ![w].content = p]
  BY DEF Take
<1>2. wk \in [Tids -> WkType] /\ wk[w] \in WkType /\ wk[w].pc = "idle"
      /\ WorkerInv(w, wk[w]) /\ SMTypeOK
  BY DEF AppBase, Workers, Tables, Take
<1>r. PICK r : r = [wk[w] EXCEPT !.pc = "begin", !.dest = d, !.conn = c, !.content = p]
  OBVIOUS
<1>3. /\ r.pc = "begin" /\ r.conn = c /\ r.dest = d
      /\ r.mapped = wk[w].mapped /\ r.guess = wk[w].guess
  BY <1>2, <1>r DEF WkType
<1>4. wk[w].mapped = {} /\ wk[w].guess = {}
  BY <1>2 DEF WorkerInv, Early
<1>5. d = CLIENT => Seen(c.key.cli.port)
  BY <1>1, <1>2, AppAssumption, Has64IsPort DEF Seen
<1>6. Placed(r) /\ Settled(r) /\ Paired(r)
  BY <1>3, <1>4, <1>5 DEF Placed, Settled, Paired, Parsing, Reading
<1>7. npkt' \in 0 .. MaxPkts
  BY AppAssumption DEF Take, AppMore, Files
<1>8. wk' = [wk EXCEPT ![w] = r]
  BY <1>1, <1>2, <1>r
<1>9. UNCHANGED <<map64, torn, ignored, protocol, written, crashed>>
  BY DEF Take, smVars
<1>. QED BY <1>6, <1>7, <1>8, <1>9, LocalMore

(* The flow of a reply is the one the request's port led to.               *)
LEMMA ReplyFound ==
  ASSUME AppBase, Free, NEW c \in Conns, Seen(c.key.cli.port),
         NEW f, f = GetMapping46(Key46C(c)), f # NoFlow
  PROVE  Found(c.key.cli.port, f)
<1>1. SMTypeOK /\ PortsWith(0) /\ TablesOn(Len(flow)) /\ c.key \in Keys
  BY AppAssumption DEF Free, HolderAt, AppBase, Tables
<1>2. DOMAIN flow = 1 .. Len(flow) /\ Len(flow) \in Nat
  BY <1>1, LenProperties DEF SMTypeOK
<1>3. Has64(c.key)
  BY <1>1, Has64IsPort DEF Seen
<1>4. PICK x \in DOMAIN map64 : x.cli.port = c.key.cli.port /\ At64(c.key) = map64[x]
  BY <1>1, <1>3, At64IsEntry
<1>5. PICK g : g = map64[x]
  OBVIOUS
<1>6. g \in DOMAIN flow /\ Key46C(c).ip4p = flow[g].ip4p
  BY <1>1, <1>2, <1>3, <1>4, <1>5 DEF TablesOn, Key46C, GetMapping64
<1>7. PICK k : k = Key46C(c)
  OBVIOUS
<1>8. k \in DOMAIN map46 /\ f = map46[k]
  BY <1>7 DEF GetMapping46
<1>9. f \in DOMAIN flow /\ flow[f].ip4p = flow[g].ip4p
  BY <1>1, <1>2, <1>6, <1>7, <1>8 DEF TablesOn
<1>10. /\ flow[f].ip4p = [ip |-> PoolAddr, port |-> MinPort + f - 1]
       /\ flow[g].ip4p = [ip |-> PoolAddr, port |-> MinPort + g - 1]
  BY <1>1, <1>6, <1>9 DEF PortsWith
<1>11. MinPort + f - 1 = MinPort + g - 1
  <2>1. PICK p : p = flow[f].ip4p
    OBVIOUS
  <2>2. p.port = MinPort + f - 1
    <3>1. p = [ip |-> PoolAddr, port |-> MinPort + f - 1]
      BY <1>10, <2>1
    <3>. QED BY <3>1
  <2>3. p.port = MinPort + g - 1
    <3>1. p = [ip |-> PoolAddr, port |-> MinPort + g - 1]
      BY <1>9, <1>10, <2>1
    <3>. QED BY <3>1
  <2>. QED BY <2>2, <2>3
<1>12. f = g
  BY <1>2, <1>6, <1>9, <1>11, PoolAssumption
<1>. QED BY <1>4, <1>5, <1>12 DEF Found

LEMMA BeginClientMore ==
  ASSUME AppBase, AppMore, NEW w \in Tids, ~crashed, Free,
         wk[w].pc = "begin", wk[w].dest = CLIENT,
         NEW f, f = GetMapping46(Key46C(wk[w].conn)),
         wk' = [wk EXCEPT ![w] = IF f = NoFlow THEN Idle
                                 ELSE [wk[w] EXCEPT !.pc = "app", !.flow = f]],
         UNCHANGED <<smVars, torn, ignored, protocol, written, crashed, npkt>>
  PROVE  AppMore'
<1>1. wk \in [Tids -> WkType] /\ wk[w] \in WkType /\ WorkerInv(w, wk[w])
      /\ Placed(wk[w]) /\ npkt \in 0 .. MaxPkts
  BY DEF AppBase, Workers, AppMore, Files
<1>2. UNCHANGED <<map64, torn, ignored, protocol, written, crashed>> /\ npkt' \in 0 .. MaxPkts
  BY <1>1 DEF smVars
<1>3. CASE f = NoFlow
  <2>1. wk' = [wk EXCEPT ![w] = Idle]
    BY <1>3
  <2>2. Placed(Idle) /\ Settled(Idle) /\ Paired(Idle)
    BY DEF Placed, Settled, Paired, Idle, Parsing, Reading
  <2>. QED BY <1>2, <2>1, <2>2, LocalMore
<1>4. CASE f # NoFlow
  <2>r. PICK r : r = [wk[w] EXCEPT !.pc = "app", !.flow = f]
    OBVIOUS
  <2>1. /\ r.pc = "app" /\ r.conn = wk[w].conn /\ r.flow = f
        /\ r.mapped = wk[w].mapped /\ r.guess = wk[w].guess
    BY <1>1, <2>r DEF WkType
  <2>2. wk[w].conn \in Conns /\ wk[w].mapped = {} /\ wk[w].guess = {}
    BY <1>1 DEF WorkerInv, Early
  <2>3. Seen(wk[w].conn.key.cli.port)
    BY <1>1 DEF Placed
  <2>4. Found(r.conn.key.cli.port, r.flow)
    BY <1>4, <2>1, <2>2, <2>3, ReplyFound
  <2>5. Placed(r) /\ Settled(r) /\ Paired(r)
    BY <2>1, <2>2, <2>4 DEF Placed, Settled, Paired, Parsing, Reading
  <2>6. wk' = [wk EXCEPT ![w] = r]
    BY <1>4, <2>r
  <2>. QED BY <1>2, <2>5, <2>6, LocalMore
<1>. QED BY <1>3, <1>4

(* A step before doApp that keeps the worker's flow.                       *)
LEMMA EarlyMore ==
  ASSUME AppBase, AppMore, NEW w \in Tids, ~crashed, NEW r, OwnStep(w, r),
         wk[w].pc \in {"claim", "cur"}, r.pc \in {"cur", "app"},
         r.conn = wk[w].conn, r.flow = wk[w].flow,
         r.mapped = wk[w].mapped, r.guess = wk[w].guess,
         UNCHANGED <<map64, torn, ignored, protocol, written, crashed, npkt>>
  PROVE  AppMore'
<1>1. WorkerInv(w, wk[w]) /\ Placed(wk[w])
  BY DEF AppBase, Workers, AppMore
<1>2. wk[w].mapped = {} /\ wk[w].guess = {} /\ Found(r.conn.key.cli.port, r.flow)
  BY <1>1 DEF WorkerInv, Early, Placed
<1>3. Found(r.conn.key.cli.port, r.flow)'
  BY <1>2 DEF Found
<1>4. Placed(r)' /\ Settled(r)' /\ Paired(r)'
  BY <1>2, <1>3 DEF Placed, Settled, Paired, Parsing, Reading
<1>5. Files' /\ (PairsApart => PairTables') /\ Grows
  BY DEF AppMore, Files, ForData, PairTables, Found, Leads, Grows
<1>. QED BY <1>4, <1>5, StepMore

LEMMA ClaimMore ==
  ASSUME AppBase, AppMore, NEW w \in Tids, ~crashed, Claim(w) PROVE AppMore'
<1>1. wk \in [Tids -> WkType] /\ wk[w] \in WkType /\ wk[w].pc = "claim"
  BY DEF AppBase, Workers, Claim
<1>r. PICK r : r = [wk[w] EXCEPT !.pc = "cur"]
  OBVIOUS
<1>2. /\ r.pc = "cur" /\ r.conn = wk[w].conn /\ r.flow = wk[w].flow
      /\ r.mapped = wk[w].mapped /\ r.guess = wk[w].guess
  BY <1>1, <1>r DEF WkType
<1>3. wk' = [wk EXCEPT ![w] = r]
      /\ UNCHANGED <<map64, torn, ignored, protocol, written, crashed, npkt>>
  BY <1>r DEF Claim, Quiet, SetTid, smVars
<1>4. OwnStep(w, r)
  BY <1>1, <1>3 DEF OwnStep, Same
<1>. QED BY <1>1, <1>2, <1>3, <1>4, EarlyMore

LEMMA SetCurMore ==
  ASSUME AppBase, AppMore, NEW w \in Tids, ~crashed, SetCur(w) PROVE AppMore'
<1>1. \A v \in Tids : wk[v] \in WkType
  BY DEF AppBase, Workers
<1>2. PICK r : r = wk'[w]
  OBVIOUS
<1>3. r = [wk[w] EXCEPT !.pc = "app", !.own = TRUE] /\ wk[w].pc = "cur"
  BY <1>2 DEF SetCur
<1>4. /\ r.pc = "app" /\ r.conn = wk[w].conn /\ r.flow = wk[w].flow
      /\ r.mapped = wk[w].mapped /\ r.guess = wk[w].guess
  BY <1>1, <1>3 DEF WkType
<1>5. ASSUME NEW v \in Tids, v # w PROVE Same(wk'[v], wk[v])
  <2>1. PICK c, d : c = wk[v] /\ d = wk'[v] /\ c \in WkType
    BY <1>1
  <2>2. PICK o : o = (wk[v].own /\ Src(v).srv = Src(w).srv)
    OBVIOUS
  <2>3. d = [c EXCEPT !.own = o]
    BY <1>5, <2>1, <2>2 DEF SetCur
  <2>4. Same(d, c)
    BY <2>3 DEF Same, WkType
  <2>. QED BY <2>1, <2>4
<1>6. UNCHANGED <<map64, torn, ignored, protocol, written, crashed, npkt>>
  BY DEF SetCur, SetCurIPv6SrvAddr, Quiet
<1>7. OwnStep(w, r)
  BY <1>2, <1>5, <1>6 DEF OwnStep
<1>. QED BY <1>3, <1>4, <1>6, <1>7, EarlyMore
-----------------------------------------------------------------------------
(* Flow n + 1 gets an entry, the first for it and for its port.            *)
LEMMA NewEntry ==
  ASSUME AppMore, SMTypeOK, NEW n \in Nat, TablesOn(n), NEW k \in Keys, ~Has64(k),
         map64' = Assign(map64, k, n + 1), torn \subseteq torn',
         UNCHANGED <<ignored, protocol, written, npkt>>
  PROVE  /\ Grows /\ Found(k.cli.port, n + 1)' /\ Files'
         /\ k \in DOMAIN map64' /\ map64'[k] = n + 1
         /\ PairsApart /\ (n + 1 \notin torn' => \E c \in Conns : k \in Pairs(c))
              => PairTables'
<1>1. \A x \in DOMAIN map64 : map64[x] \in 1 .. n
  BY DEF TablesOn
<1>2. k \notin DOMAIN map64
  BY Has64IsPort
<1>3. PICK N : N = n + 1
  OBVIOUS
<1>4. N \notin 1 .. n
  BY <1>3
<1>5. /\ DOMAIN map64' = DOMAIN map64 \cup {k} /\ map64'[k] = N
      /\ \A x \in DOMAIN map64 : map64'[x] = map64[x]
  BY <1>2, <1>3 DEF Assign
<1>6. Grows
  BY <1>5 DEF Grows
<1>7. Found(k.cli.port, N)'
  BY <1>5 DEF Found
<1>8. Files'
  <2>1. \A x, y \in DOMAIN map64' : map64'[x] = map64'[y] => x = y
    BY <1>1, <1>4, <1>5 DEF AppMore, Files
  <2>2. \A f \in ignored' : ForData(f)'
    BY <1>6, GrowsKeeps DEF AppMore, Files
  <2>3. \A f \in DOMAIN protocol' : \E x \in DOMAIN map64' : map64'[x] = f
    BY <1>5 DEF AppMore, Files
  <2>. QED BY <2>1, <2>2, <2>3 DEF AppMore, Files
<1>9. ASSUME PairsApart, N \notin torn' => \E c \in Conns : k \in Pairs(c)
      PROVE  PairTables'
  <2>1. \A x \in DOMAIN map64' : map64'[x] \notin torn' => \E c \in Conns : x \in Pairs(c)
    BY <1>5, <1>9 DEF AppMore, PairTables
  <2>2. ASSUME NEW c \in Conns, NEW f \in DOMAIN protocol', Found(c.key.cli.port, f)'
        PROVE  OfTransport(protocol'[f], c.transport)
    <3>1. PICK x \in DOMAIN map64' : x.cli.port = c.key.cli.port /\ map64'[x] = f
      BY <2>2 DEF Found
    <3>2. f \in 1 .. n
      BY <1>1 DEF AppMore, Files
    <3>3. x \in DOMAIN map64 /\ map64[x] = f
      BY <1>4, <1>5, <3>1, <3>2
    <3>4. Found(c.key.cli.port, f)
      BY <3>1, <3>3 DEF Found
    <3>. QED BY <1>9, <3>4 DEF AppMore, PairTables
  <2>3. \A a \in written' : Leads(a.flow, a.ep, a.key.srv)'
    BY <1>6, <1>9, GrowsKeeps DEF AppMore, PairTables
  <2>. QED BY <2>1, <2>2, <2>3 DEF PairTables
<1>. QED BY <1>3, <1>5, <1>6, <1>7, <1>8, <1>9

LEMMA BeginServerMore ==
  ASSUME AppBase, AppMore, NEW w \in Tids, ~crashed, Free,
         wk[w].pc = "begin", wk[w].dest = SERVER,
         NEW f, f = MappingResult(Src(w)), DoMapping(Src(w)), crashed' = (f = NoFlow),
         wk' = [wk EXCEPT ![w].pc = "claim", ![w].flow = f],
         UNCHANGED <<torn, ignored, protocol, written, npkt>>
  PROVE  AppMore'
<1>1. wk \in [Tids -> WkType] /\ wk[w] \in WkType /\ WorkerInv(w, wk[w])
  BY DEF AppBase, Workers
<1>2. SMTypeOK /\ TablesOn(Len(flow)) /\ Len(flow) \in Nat
  BY LenProperties DEF Free, HolderAt, AppBase, Tables, SMTypeOK
<1>k. PICK k : k = Src(w)
  OBVIOUS
<1>3. /\ wk[w].conn \in Conns /\ k = wk[w].conn.key /\ k \in Keys
      /\ wk[w].mapped = {} /\ wk[w].guess = {}
  BY <1>1, <1>k, AppAssumption DEF WorkerInv, Early, Src
<1>r. PICK r : r = [wk[w] EXCEPT !.pc = "claim", !.flow = f]
  OBVIOUS
<1>4. /\ r.pc = "claim" /\ r.conn = wk[w].conn /\ r.flow = f
      /\ r.mapped = wk[w].mapped /\ r.guess = wk[w].guess
  BY <1>1, <1>r DEF WkType
<1>5. OwnStep(w, r)
  BY <1>1, <1>r DEF OwnStep, Same
<1>6. ASSUME f = NoFlow \/ Found(k.cli.port, f)'
      PROVE  Placed(r)' /\ Settled(r)' /\ Paired(r)'
  BY <1>3, <1>4, <1>6 DEF Placed, Settled, Paired, Parsing, Reading
<1>7. CASE ~Has64(k) /\ pool # <<>> /\ CreateMapping(k)
  <2>n. PICK n \in Nat : n = Len(flow)
    BY <1>2
  <2>1. map64' = Assign(map64, k, n + 1) /\ f = n + 1 /\ TablesOn(n)
    BY <1>2, <1>7, <1>k, <2>n DEF CreateMapping, MappingResult
  <2>2. /\ Grows /\ Found(k.cli.port, n + 1)' /\ Files'
        /\ PairsApart /\ (n + 1 \notin torn' => \E c \in Conns : k \in Pairs(c))
             => PairTables'
    BY <1>2, <1>3, <1>7, <2>1, NewEntry
  <2>3. k \in Pairs(wk[w].conn)
    BY <1>3 DEF Pairs
  <2>4. PairsApart => PairTables'
    BY <1>3, <2>2, <2>3
  <2>5. Found(k.cli.port, f)'
    BY <2>1, <2>2
  <2>. QED BY <1>5, <1>6, <2>2, <2>4, <2>5, StepMore
<1>8. CASE (Has64(k) \/ pool = <<>>) /\ UNCHANGED map64
  <2>1. Files' /\ (PairsApart => PairTables') /\ Grows
    BY <1>8 DEF AppMore, Files, ForData, PairTables, Found, Leads, Grows
  <2>2. f = NoFlow \/ Found(k.cli.port, f)
    <3>1. CASE Has64(k)
      BY <1>2, <1>3, <1>k, <3>1, At64IsEntry DEF Found, MappingResult
    <3>2. CASE ~Has64(k)
      BY <1>8, <1>k, <3>2 DEF MappingResult
    <3>. QED BY <3>1, <3>2
  <2>3. f = NoFlow \/ Found(k.cli.port, f)'
    BY <1>8, <2>2 DEF Found
  <2>. QED BY <1>5, <1>6, <2>1, <2>3, StepMore
<1>. QED BY <1>7, <1>8, <1>k DEF DoMapping

LEMMA BeginMore ==
  ASSUME AppBase, AppMore, NEW w \in Tids, Begin(w), ~crashed PROVE AppMore'
<1>1. Free /\ wk[w].pc = "begin" /\ SERVER # CLIENT
      /\ UNCHANGED <<ignored, protocol, holder, npkt, written, torn>>
  BY DEF Begin, SERVER, CLIENT
<1>2. CASE wk[w].dest = SERVER
  <2>1. PICK f : f = MappingResult(Src(w))
    OBVIOUS
  <2>2. /\ DoMapping(Src(w)) /\ crashed' = (f = NoFlow)
        /\ wk' = [wk EXCEPT ![w].pc = "claim", ![w].flow = f]
    BY <1>1, <1>2, <2>1 DEF Begin
  <2>. QED BY <1>1, <1>2, <2>1, <2>2, BeginServerMore
<1>3. CASE wk[w].dest = CLIENT
  <2>1. PICK f : f = GetMapping46(Key46C(wk[w].conn))
    OBVIOUS
  <2>2. /\ wk' = [wk EXCEPT ![w] = IF f = NoFlow THEN Idle
                                    ELSE [wk[w] EXCEPT !.pc = "app", !.flow = f]]
        /\ UNCHANGED <<smVars, crashed>>
    BY <1>1, <1>3, <2>1 DEF Begin
  <2>. QED BY <1>1, <1>3, <2>1, <2>2, BeginClientMore
<1>. QED BY <1>2, <1>3 DEF Begin
-----------------------------------------------------------------------------
(* From one place of doApp to another, with the tables as they were.       *)
LEMMA InsideMore ==
  ASSUME AppBase, AppMore, NEW w \in Tids, ~crashed, NEW r,
         wk' = [wk EXCEPT ![w] = r],
         wk[w].pc \notin {"idle", "begin"}, r.pc \notin {"idle", "begin"},
         r.conn = wk[w].conn, r.flow = wk[w].flow,
         UNCHANGED <<map64, torn, ignored, protocol, written, crashed, npkt>>,
         r.pc = "write" => Found(Head(r.todo).port, r.last),
         r.pc \in Parsing =>
           /\ Protocols[r.it].name = r.content.proto
           /\ r.todo # <<>> => Protocols[r.it].c2s = "stateless",
         WorkersApart => Settled(r),
         PairsApart =>
           /\ \A n \in r.guess : n \in wk[w].guess \/ OfTransport(n, r.conn.transport)
           /\ \A m \in r.mapped :
                m \in wk[w].mapped \/ (m.own => Leads(m.flow, m.ep, r.conn.key.srv))
           /\ r.pc = "try" /\ r.known /\ r.it <= Len(Protocols) =>
                Protocols[r.it].transport = r.conn.transport
           /\ r.pc \in Parsing => Protocols[r.it].transport = r.conn.transport
  PROVE  AppMore'
<1>1. Placed(wk[w]) /\ (PairsApart => Paired(wk[w])) /\ npkt \in 0 .. MaxPkts
  BY DEF AppMore, Files
<1>2. Placed(r)
  BY <1>1 DEF Placed
<1>3. PairsApart => Paired(r)
  BY <1>1 DEF Paired
<1>. QED BY <1>1, <1>2, <1>3, LocalMore

LEMMA PositionIs ==
  ASSUME NEW n \in Names
  PROVE  /\ Position(n) \in DOMAIN Protocols /\ Protocols[Position(n)].name = n
         /\ \A q \in Range(Protocols) : q.name = n => q = Protocols[Position(n)]
<1>1. Position(n) \in DOMAIN Protocols /\ Protocols[Position(n)].name = n
  BY DEF Position, Names
<1>2. ASSUME NEW q \in Range(Protocols), q.name = n PROVE q = Protocols[Position(n)]
  <2>1. PICK j \in DOMAIN Protocols : q = Protocols[j]
    BY DEF Range
  <2>2. j = Position(n)
    BY <1>1, <1>2, <2>1, AppAssumption
  <2>. QED BY <2>1, <2>2
<1>. QED BY <1>1, <1>2

LEMMA AppStepMore ==
  ASSUME AppBase, AppMore, NEW w \in Tids, ~crashed, App(w) PROVE AppMore'
<1>1. wk \in [Tids -> WkType] /\ wk[w] \in WkType /\ wk[w].pc = "app"
      /\ WorkerInv(w, wk[w]) /\ Placed(wk[w])
  BY DEF AppBase, Workers, App, AppMore
<1>2. UNCHANGED <<map64, torn, ignored, protocol, written, crashed, npkt>>
  BY DEF App, Quiet, smVars
<1>3. CASE wk' = [wk EXCEPT ![w].pc = "done"]
  <2>r. PICK r : r = [wk[w] EXCEPT !.pc = "done"]
    OBVIOUS
  <2>1. /\ r.pc = "done" /\ r.conn = wk[w].conn /\ r.flow = wk[w].flow
        /\ r.mapped = wk[w].mapped /\ r.guess = wk[w].guess
    BY <1>1, <2>r DEF WkType
  <2>2. wk' = [wk EXCEPT ![w] = r] /\ Settled(r) /\ r.pc \notin Parsing
    BY <1>3, <2>r, <2>1 DEF Settled, Parsing, Reading
  <2>. QED BY <1>1, <1>2, <2>1, <2>2, InsideMore
<1>4. CASE wk' = [wk EXCEPT ![w].pc = "try", ![w].known = Known(wk[w].flow),
                            ![w].it = IF Known(wk[w].flow)
                                      THEN Position(protocol[wk[w].flow]) ELSE 1]
  <2>0. (wk[w].flow \in DOMAIN protocol) \in BOOLEAN
    OBVIOUS
  <2>1. PICK kn \in BOOLEAN : kn = (wk[w].flow \in DOMAIN protocol)
    BY <2>0
  <2>2. PICK i : i = IF kn THEN Position(protocol[wk[w].flow]) ELSE 1
    OBVIOUS
  <2>r. PICK r : r = [wk[w] EXCEPT !.pc = "try", !.known = kn, !.it = i]
    OBVIOUS
  <2>3. /\ r.pc = "try" /\ r.conn = wk[w].conn /\ r.flow = wk[w].flow
        /\ r.mapped = wk[w].mapped /\ r.guess = wk[w].guess
        /\ r.known = kn /\ r.it = i
    BY <1>1, <2>r DEF WkType
  <2>4. wk' = [wk EXCEPT ![w] = r]
    BY <1>4, <2>1, <2>2, <2>r DEF Known
  <2>5. ASSUME kn
        PROVE  /\ Protocols[i].name = protocol[wk[w].flow]
               /\ PairsApart => Protocols[i].transport = wk[w].conn.transport
    <3>1. wk[w].flow \in DOMAIN protocol /\ protocol[wk[w].flow] \in Names
      BY <2>1, <2>5 DEF AppBase, Workers
    <3>2. Protocols[i].name = protocol[wk[w].flow]
      BY <2>2, <2>5, <3>1, PositionIs
    <3>3. ASSUME PairsApart PROVE Protocols[i].transport = wk[w].conn.transport
      <4>1. wk[w].conn \in Conns /\ Found(wk[w].conn.key.cli.port, wk[w].flow)
        BY <1>1 DEF WorkerInv, Placed
      <4>2. OfTransport(protocol[wk[w].flow], wk[w].conn.transport)
        BY <3>1, <3>3, <4>1 DEF AppMore, PairTables
      <4>. QED BY <2>2, <2>5, <3>1, <4>2, PositionIs DEF OfTransport
    <3>. QED BY <3>2, <3>3
  <2>6. Settled(r)
    BY <2>1, <2>3, <2>5 DEF Settled
  <2>7. r.pc \notin Parsing
    BY <2>3 DEF Parsing, Reading
  <2>. QED BY <1>1, <1>2, <2>3, <2>4, <2>5, <2>6, <2>7, InsideMore
<1>. QED BY <1>3, <1>4 DEF App

LEMMA TryParserMore ==
  ASSUME AppBase, AppMore, NEW w \in Tids, ~crashed, TryParser(w) PROVE AppMore'
<1>1. wk \in [Tids -> WkType] /\ wk[w] \in WkType /\ wk[w].pc = "try"
      /\ WorkerInv(w, wk[w]) /\ wk[w].it <= Len(Protocols)
      /\ (WorkersApart => Settled(wk[w])) /\ (PairsApart => Paired(wk[w]))
  BY DEF AppBase, Workers, TryParser, AppMore
<1>2. UNCHANGED <<map64, torn, ignored, protocol, written, crashed, npkt>>
  BY DEF TryParser, Quiet, smVars
<1>3. CASE /\ Accepts(w)
           /\ wk' = [wk EXCEPT ![w].pc = "parse", ![w].todo = wk[w].content.eps,
                               ![w].ops = wk[w].content.plain]
  <2>1. PICK t, o : t = wk[w].content.eps /\ o = wk[w].content.plain
    OBVIOUS
  <2>r. PICK r : r = [wk[w] EXCEPT !.pc = "parse", !.todo = t, !.ops = o]
    OBVIOUS
  <2>2. /\ r.pc = "parse" /\ r.conn = wk[w].conn /\ r.flow = wk[w].flow
        /\ r.mapped = wk[w].mapped /\ r.guess = wk[w].guess
        /\ r.known = wk[w].known /\ r.it = wk[w].it /\ r.todo = t
        /\ r.content = wk[w].content
    BY <1>1, <2>r DEF WkType
  <2>3. wk' = [wk EXCEPT ![w] = r]
    BY <1>3, <2>1, <2>r
  <2>4. Protocols[r.it].name = r.content.proto
    BY <1>3, <2>2 DEF Accepts, Proto
  <2>5. ASSUME t # <<>> PROVE Protocols[r.it].c2s = "stateless"
    <3>1. Proto(w) \in Range(Protocols) /\ wk[w].content \in Contents
      BY <1>1, ProtoListed DEF WorkerInv
    <3>2. wk[w].dest = SERVER
      BY <1>3, <2>1, <2>5, <3>1, ContentsAssumption DEF Accepts, ParserType
    <3>. QED BY <1>3, <2>2, <3>2 DEF Accepts, ParserType, Proto
  <2>6. PairsApart => Protocols[r.it].transport = r.conn.transport
    BY <1>1, <1>3, <2>2 DEF Accepts, Proto, Paired
  <2>7. WorkersApart => Settled(r)
    BY <1>1, <2>2 DEF Settled
  <2>. QED BY <1>1, <1>2, <2>2, <2>3, <2>4, <2>5, <2>6, <2>7, InsideMore
<1>4. CASE wk' = [wk EXCEPT ![w].it = NextIt(w)]
  <2>1. PICK n : n = NextIt(w)
    OBVIOUS
  <2>r. PICK r : r = [wk[w] EXCEPT !.it = n]
    OBVIOUS
  <2>2. /\ r.pc = "try" /\ r.conn = wk[w].conn /\ r.flow = wk[w].flow
        /\ r.mapped = wk[w].mapped /\ r.guess = wk[w].guess
        /\ r.known = wk[w].known /\ r.it = n
    BY <1>1, <2>r DEF WkType
  <2>3. wk' = [wk EXCEPT ![w] = r]
    BY <1>4, <2>1, <2>r
  <2>4. r.known => ~(r.it <= Len(Protocols))
    <3>1. Len(Protocols) \in Nat
      BY AppAssumption, LenProperties
    <3>. QED BY <2>1, <2>2, <3>1 DEF NextIt
  <2>5. WorkersApart => Settled(r)
    BY <1>1, <2>2, <2>4 DEF Settled
  <2>6. r.pc \notin Parsing
    BY <2>2 DEF Parsing, Reading
  <2>. QED BY <1>1, <1>2, <2>2, <2>3, <2>4, <2>5, <2>6, InsideMore
<1>. QED BY <1>3, <1>4 DEF TryParser
-----------------------------------------------------------------------------
(* What a client announces to its server is a pair of its connection.      *)
LEMMA AnnouncedPair ==
  ASSUME AppBase, AppMore, PairsApart, NEW w \in Tids,
         wk[w].pc \in Parsing, wk[w].todo # <<>>
  PROVE  [cli |-> Head(wk[w].todo), srv |-> wk[w].conn.key.srv] \in Pairs(wk[w].conn)
<1>1. PICK c : c = wk[w]
  OBVIOUS
<1>2. c \in WkType /\ WorkerInv(w, c) /\ Placed(c) /\ Paired(c)
  BY <1>1 DEF AppBase, Workers, AppMore
<1>3. /\ c.content \in Contents /\ c.todo \in Seq(IP6Port) /\ c.it <= Len(Protocols)
      /\ \A i \in DOMAIN c.todo : c.todo[i] \in Listed(c.content)
  BY <1>1, <1>2 DEF WorkerInv, WkType, Parsing, Reading
<1>4. Protocols[c.it] \in Range(Protocols)
  BY <1>1, <1>2, <1>3, ProtoListed DEF Proto
<1>5. Announces(c.conn, c.content)
  BY <1>1, <1>2, <1>4 DEF Announces, Placed, Paired
<1>6. Head(c.todo) \in Range(c.content.eps)
  <2>1. 1 \in DOMAIN c.todo /\ Head(c.todo) = c.todo[1]
    BY <1>1, <1>3, LenProperties
  <2>. QED BY <1>3, <2>1 DEF Listed, Range
<1>. QED BY <1>1, <1>3, <1>5, <1>6 DEF Pairs

LEMMA ReadKeyHitMore ==
  ASSUME AppBase, AppMore, NEW w \in Tids, ~crashed, wk[w].pc = "parse",
         wk[w].todo # <<>>, NEW k, k = [cli |-> Head(wk[w].todo), srv |-> ip6srvCur],
         Has64(k), NEW f, f = At64(k), Mapped(w, f),
         UNCHANGED <<smVars, torn, ignored, protocol, written, crashed, npkt>>
  PROVE  AppMore'
<1>1. wk \in [Tids -> WkType] /\ wk[w] \in WkType
      /\ WorkerInv(w, wk[w]) /\ Placed(wk[w]) /\ SMTypeOK
      /\ (WorkersApart => Settled(wk[w])) /\ (PairsApart => Paired(wk[w]))
  BY DEF AppBase, Workers, AppMore, Tables
<1>2. UNCHANGED <<map64, torn, ignored, protocol, written, crashed, npkt>>
  BY DEF smVars
<1>3. k \in Keys
  BY KeyRead
<1>4. PICK x \in DOMAIN map64 : x.cli.port = k.cli.port /\ f = map64[x]
  BY <1>1, <1>3, At64IsEntry
<1>5. PICK m : m = [ep |-> Head(wk[w].todo), flow |-> f, own |-> wk[w].own]
  OBVIOUS
<1>r. PICK r : r = [wk[w] EXCEPT !.pc = "write", !.last = f, !.mapped = @ \cup {m}]
  OBVIOUS
<1>6. /\ r.pc = "write" /\ r.conn = wk[w].conn /\ r.flow = wk[w].flow
      /\ r.mapped = wk[w].mapped \cup {m} /\ r.guess = wk[w].guess
      /\ r.known = wk[w].known /\ r.it = wk[w].it /\ r.todo = wk[w].todo
      /\ r.content = wk[w].content /\ r.last = f
  BY <1>1, <1>r DEF WkType
<1>7. wk' = [wk EXCEPT ![w] = r]
  BY <1>1, <1>5, <1>r DEF Mapped, Mapping
<1>8. "parse" \in Parsing /\ "write" \in Parsing
  BY DEF Parsing
<1>9. Found(Head(r.todo).port, r.last)
  BY <1>4, <1>6 DEF Found
<1>10. WorkersApart => Settled(r)
  BY <1>1, <1>6, <1>8 DEF Settled
<1>11. /\ Protocols[r.it].name = r.content.proto
       /\ r.todo # <<>> => Protocols[r.it].c2s = "stateless"
       /\ PairsApart => Protocols[r.it].transport = r.conn.transport
  BY <1>1, <1>6, <1>8 DEF Placed, Paired
<1>12. ASSUME PairsApart, m.own PROVE Leads(m.flow, m.ep, r.conn.key.srv)
  <2>1. ip6srvCur = wk[w].conn.key.srv /\ wk[w].conn \in Conns
    BY <1>1, <1>5, <1>12 DEF WorkerInv
  <2>2. k \in Pairs(wk[w].conn)
    BY <1>8, <1>12, <2>1, AnnouncedPair
  <2>3. ASSUME f \notin torn PROVE x = k
    <3>1. PICK c \in Conns : x \in Pairs(c)
      BY <1>4, <1>12, <2>3 DEF AppMore, PairTables
    <3>. QED BY <1>4, <1>12, <2>1, <2>2, <3>1 DEF PairsApart
  <2>. QED BY <1>4, <1>5, <1>6, <2>1, <2>3 DEF Leads
<1>. QED BY <1>1, <1>2, <1>6, <1>7, <1>8, <1>9, <1>10, <1>11, <1>12, InsideMore

(* A step on the way through doMapping: none of the tables is changed.     *)
LEMMA ReadingMore ==
  ASSUME AppBase, AppMore, NEW w \in Tids, ~crashed, NEW r,
         wk' = [wk EXCEPT ![w] = r],
         wk[w].pc \in Parsing, r.pc \in Reading,
         r.conn = wk[w].conn, r.flow = wk[w].flow, r.content = wk[w].content,
         r.known = wk[w].known, r.it = wk[w].it, r.todo = wk[w].todo,
         r.guess = wk[w].guess, r.mapped = wk[w].mapped,
         UNCHANGED <<map64, torn, ignored, protocol, written, crashed, npkt>>
  PROVE  AppMore'
<1>1. /\ Placed(wk[w]) /\ (WorkersApart => Settled(wk[w]))
      /\ (PairsApart => Paired(wk[w]))
  BY DEF AppMore
<1>2. r.pc \in Parsing /\ r.pc # "write" /\ r.pc # "try"
      /\ r.pc \notin {"idle", "begin"} /\ wk[w].pc \notin {"idle", "begin"}
  BY DEF Parsing, Reading
<1>3. /\ Protocols[r.it].name = r.content.proto
      /\ r.todo # <<>> => Protocols[r.it].c2s = "stateless"
      /\ PairsApart => Protocols[r.it].transport = r.conn.transport
  BY <1>1 DEF Placed, Paired
<1>4. WorkersApart => Settled(r)
  BY <1>1 DEF Settled
<1>. QED BY <1>2, <1>3, <1>4, InsideMore

LEMMA CrashMore ==
  ASSUME AppMore, crashed' = TRUE,
         UNCHANGED <<wk, map64, torn, ignored, protocol, written, npkt>>
  PROVE  AppMore'
<1>1. Files' /\ (PairsApart => PairTables')
  BY DEF AppMore, Files, ForData, PairTables, Found, Leads
<1>2. ASSUME NEW w \in Tids
      PROVE  /\ Placed(wk[w])' /\ (WorkersApart => Settled(wk[w])')
             /\ (PairsApart => Paired(wk[w])')
  BY DEF AppMore, Placed, Settled, Paired, Found, Seen, Leads
<1>. QED BY <1>1, <1>2 DEF AppMore

LEMMA ReadKeyMore ==
  ASSUME AppBase, AppMore, NEW w \in Tids, ~crashed, ReadKey(w) PROVE AppMore'
<1>1. PICK k : k = [cli |-> Head(wk[w].todo), srv |-> ip6srvCur]
  OBVIOUS
<1>2. /\ wk[w].pc = "parse" /\ wk[w].todo # <<>> /\ Free
      /\ UNCHANGED <<torn, ignored, protocol, written, npkt>>
      /\ \/ /\ Has64(k) /\ Mapped(w, At64(k))
            /\ UNCHANGED <<smVars, holder, crashed>>
         \/ /\ crashed' = TRUE
            /\ UNCHANGED <<smVars, wk, holder>>
         \/ /\ wk' = [wk EXCEPT ![w].pc = "read4", ![w].key = k, ![w].ip4p = Head(pool)]
            /\ UNCHANGED <<mapPool, map64, map46, flow, ip6srvCur, crashed>>
  BY <1>1 DEF ReadKey
<1>3. CASE Has64(k) /\ Mapped(w, At64(k)) /\ UNCHANGED <<smVars, holder, crashed>>
  <2>1. PICK f : f = At64(k)
    OBVIOUS
  <2>2. Mapped(w, f)
    BY <1>3, <2>1
  <2>. QED BY <1>1, <1>2, <1>3, <2>1, <2>2, ReadKeyHitMore
<1>4. CASE crashed' = TRUE /\ UNCHANGED <<smVars, wk, holder>>
  BY <1>2, <1>4, CrashMore DEF smVars
<1>5. CASE /\ wk' = [wk EXCEPT ![w].pc = "read4", ![w].key = k, ![w].ip4p = Head(pool)]
           /\ UNCHANGED <<mapPool, map64, map46, flow, ip6srvCur, crashed>>
  <2>1. PICK p : p = Head(pool)
    OBVIOUS
  <2>r. PICK r : r = [wk[w] EXCEPT !.pc = "read4", !.key = k, !.ip4p = p]
    OBVIOUS
  <2>2. wk \in [Tids -> WkType] /\ wk[w] \in WkType
    BY DEF AppBase, Workers
  <2>3. /\ r.pc = "read4" /\ r.conn = wk[w].conn /\ r.flow = wk[w].flow
        /\ r.content = wk[w].content /\ r.known = wk[w].known /\ r.it = wk[w].it
        /\ r.todo = wk[w].todo /\ r.guess = wk[w].guess /\ r.mapped = wk[w].mapped
    BY <2>2, <2>r DEF WkType
  <2>4. wk' = [wk EXCEPT ![w] = r]
    BY <1>5, <2>1, <2>2, <2>r
  <2>5. wk[w].pc \in Parsing /\ r.pc \in Reading
    BY <1>2, <2>3 DEF Parsing, Reading
  <2>. QED BY <1>2, <1>5, <2>3, <2>4, <2>5, ReadingMore
<1>. QED BY <1>2, <1>3, <1>4, <1>5

LEMMA ReadSrvMore ==
  ASSUME AppBase, AppMore, NEW w \in Tids, ~crashed, ReadSrv4(w) \/ ReadSrv6(w)
  PROVE  AppMore'
<1>1. wk \in [Tids -> WkType] /\ wk[w] \in WkType
  BY DEF AppBase, Workers
<1>2. CASE ReadSrv4(w)
  <2>1. PICK s : s = ServerAddr4(ip6srvCur)
    OBVIOUS
  <2>r. PICK r : r = [wk[w] EXCEPT !.pc = "read6", !.srv4 = s]
    OBVIOUS
  <2>2. /\ r.pc = "read6" /\ r.conn = wk[w].conn /\ r.flow = wk[w].flow
        /\ r.content = wk[w].content /\ r.known = wk[w].known /\ r.it = wk[w].it
        /\ r.todo = wk[w].todo /\ r.guess = wk[w].guess /\ r.mapped = wk[w].mapped
    BY <1>1, <2>r DEF WkType
  <2>3. wk' = [wk EXCEPT ![w] = r] /\ wk[w].pc \in Parsing /\ r.pc \in Reading
    BY <1>1, <1>2, <2>1, <2>2, <2>r DEF ReadSrv4, Parsing, Reading
  <2>4. UNCHANGED <<map64, torn, ignored, protocol, written, crashed, npkt>>
    BY <1>2 DEF ReadSrv4, Quiet, smVars
  <2>. QED BY <2>2, <2>3, <2>4, ReadingMore
<1>3. CASE ReadSrv6(w)
  <2>r. PICK r : r = [wk[w] EXCEPT !.pc = "read46"]
    OBVIOUS
  <2>2. /\ r.pc = "read46" /\ r.conn = wk[w].conn /\ r.flow = wk[w].flow
        /\ r.content = wk[w].content /\ r.known = wk[w].known /\ r.it = wk[w].it
        /\ r.todo = wk[w].todo /\ r.guess = wk[w].guess /\ r.mapped = wk[w].mapped
    BY <1>1, <2>r DEF WkType
  <2>3. wk' = [wk EXCEPT ![w] = r] /\ wk[w].pc \in Parsing /\ r.pc \in Reading
    BY <1>1, <1>3, <2>2, <2>r DEF ReadSrv6, Parsing, Reading
  <2>4. UNCHANGED <<map64, torn, ignored, protocol, written, crashed, npkt>>
    BY <1>3 DEF ReadSrv6, Quiet
  <2>. QED BY <2>2, <2>3, <2>4, ReadingMore
<1>. QED BY <1>2, <1>3
-----------------------------------------------------------------------------
LEMMA FillTablesMore ==
  ASSUME AppBase, AppMore, NEW w \in Tids, ~crashed, FillTables(w) PROVE AppMore'
<1>1. /\ wk \in [Tids -> WkType] /\ wk[w] \in WkType /\ WorkerInv(w, wk[w])
      /\ Placed(wk[w]) /\ (WorkersApart => Settled(wk[w])) /\ (PairsApart => Paired(wk[w]))
      /\ Workers /\ Tables /\ wk[w].pc = "read46"
  BY DEF AppBase, Workers, FillTables, AppMore
<1>2. w # NoTid /\ holder = w /\ HolderInv(wk[w])
  BY <1>1 DEF Tids, NoTid, Workers, Locked, Reading
<1>3. SMTypeOK /\ TablesOn(Len(flow) - 1)
  BY <1>1, <1>2 DEF HolderAt, Tables
<1>4. PICK c : c = wk[w]
  OBVIOUS
<1>5. /\ c.key \in Keys /\ ~Has64(c.key) /\ c.key.cli = Head(c.todo) /\ Len(flow) > 0
      /\ c.own => c.key.srv = c.conn.key.srv
  BY <1>1, <1>2, <1>4 DEF HolderInv
<1>6. PICK n \in Nat : n + 1 = Len(flow) /\ TablesOn(n)
  <2>1. Len(flow) \in Nat
    BY <1>3, LenProperties DEF SMTypeOK
  <2>2. Len(flow) - 1 \in Nat /\ (Len(flow) - 1) + 1 = Len(flow)
    BY <1>5, <2>1
  <2>. QED BY <1>3, <2>2
<1>7. /\ map64' = Assign(map64, c.key, n + 1) /\ Mapped(w, n + 1)
      /\ torn' = IF c.own THEN torn ELSE torn \cup {n + 1}
      /\ UNCHANGED <<ignored, protocol, written, crashed, npkt>>
  BY <1>4, <1>6 DEF FillTables
<1>8. torn \subseteq torn' /\ (n + 1 \notin torn' => c.own)
  BY <1>7
<1>9. c.key = [cli |-> Head(c.todo), srv |-> c.key.srv]
  BY <1>5, KeysAssumption DEF Key64
<1>10. c.todo # <<>> /\ c.pc \in Parsing /\ "write" \in Parsing
  BY <1>1, <1>4 DEF WorkerInv, Reading, Parsing
<1>11. /\ Grows /\ Found(c.key.cli.port, n + 1)' /\ Files'
       /\ c.key \in DOMAIN map64' /\ map64'[c.key] = n + 1
       /\ PairsApart /\ (n + 1 \notin torn' => \E d \in Conns : c.key \in Pairs(d))
            => PairTables'
  BY <1>3, <1>5, <1>6, <1>7, <1>8, NewEntry
<1>12. PairsApart => PairTables'
  <2>1. ASSUME PairsApart, n + 1 \notin torn' PROVE c.key \in Pairs(c.conn)
    BY <1>4, <1>5, <1>8, <1>9, <1>10, <2>1, AnnouncedPair
  <2>2. c.conn \in Conns
    BY <1>1, <1>4 DEF WorkerInv
  <2>. QED BY <1>11, <2>1, <2>2
<1>13. PICK m : m = [ep |-> Head(c.todo), flow |-> n + 1, own |-> c.own]
  OBVIOUS
<1>r. PICK r : r = [c EXCEPT !.pc = "write", !.last = n + 1, !.mapped = @ \cup {m}]
  OBVIOUS
<1>14. /\ r.pc = "write" /\ r.conn = c.conn /\ r.flow = c.flow
       /\ r.mapped = c.mapped \cup {m} /\ r.guess = c.guess
       /\ r.known = c.known /\ r.it = c.it /\ r.todo = c.todo
       /\ r.content = c.content /\ r.last = n + 1
  BY <1>1, <1>4, <1>r DEF WkType
<1>15. wk' = [wk EXCEPT ![w] = r]
  BY <1>1, <1>4, <1>7, <1>13, <1>r DEF Mapped, Mapping
<1>16. OwnStep(w, r)
  BY <1>1, <1>7, <1>15 DEF OwnStep, Same
<1>17. Placed(r)'
  <2>1. Found(c.conn.key.cli.port, c.flow)'
    BY <1>1, <1>4, <1>11, GrowsKeeps DEF Placed
  <2>2. Found(Head(r.todo).port, r.last)'
    BY <1>5, <1>11, <1>14
  <2>3. /\ Protocols[r.it].name = r.content.proto
        /\ r.todo # <<>> => Protocols[r.it].c2s = "stateless"
    BY <1>1, <1>4, <1>10, <1>14 DEF Placed
  <2>. QED BY <1>14, <2>1, <2>2, <2>3 DEF Placed
<1>18. WorkersApart => Settled(r)'
  BY <1>1, <1>4, <1>7, <1>10, <1>14 DEF Settled
<1>19. ASSUME PairsApart PROVE Paired(r)'
  <2>1. \A x \in c.mapped : x.own => Leads(x.flow, x.ep, c.conn.key.srv)'
    BY <1>1, <1>4, <1>11, <1>19, GrowsKeeps DEF Paired
  <2>2. m.own => Leads(m.flow, m.ep, c.conn.key.srv)'
    BY <1>5, <1>9, <1>11, <1>13 DEF Leads
  <2>3. /\ \A x \in c.guess : OfTransport(x, c.conn.transport)
        /\ Protocols[c.it].transport = c.conn.transport
    BY <1>1, <1>4, <1>10, <1>19 DEF Paired
  <2>. QED BY <1>14, <2>1, <2>2, <2>3 DEF Paired
<1>. QED BY <1>11, <1>12, <1>16, <1>17, <1>18, <1>19, StepMore

LEMMA WriteMore ==
  ASSUME AppBase, AppMore, NEW w \in Tids, ~crashed, Write(w) PROVE AppMore'
<1>1. PICK c : c = wk[w]
  OBVIOUS
<1>2. /\ wk \in [Tids -> WkType] /\ c \in WkType /\ WorkerInv(w, c) /\ c.pc = "write"
      /\ Placed(c) /\ (WorkersApart => Settled(c)) /\ (PairsApart => Paired(c))
  BY <1>1 DEF AppBase, Workers, Write, AppMore
<1>3. /\ UNCHANGED <<map64, protocol, npkt, written, torn, crashed>>
      /\ ignored' = IF Proto(w).name = "ftp" THEN ignored \cup {c.last} ELSE ignored
  BY <1>1 DEF Write, smVars
<1>4. PICK t : t = Tail(c.todo)
  OBVIOUS
<1>r. PICK r : r = [c EXCEPT !.pc = "parse", !.todo = t, !.ops = TRUE]
  OBVIOUS
<1>5. /\ r.pc = "parse" /\ r.conn = c.conn /\ r.flow = c.flow
      /\ r.mapped = c.mapped /\ r.guess = c.guess
      /\ r.known = c.known /\ r.it = c.it /\ r.content = c.content
  BY <1>2, <1>r DEF WkType
<1>6. wk' = [wk EXCEPT ![w] = r]
  BY <1>1, <1>2, <1>4, <1>r DEF Write, Written
<1>7. OwnStep(w, r) /\ Grows
  BY <1>2, <1>3, <1>6 DEF OwnStep, Same, Grows
<1>8. c.pc \in Parsing /\ "parse" \in Parsing /\ c.todo # <<>> /\ c.todo \in Seq(IP6Port)
      /\ (\A i \in DOMAIN c.todo : c.todo[i] \in Listed(c.content))
      /\ c.content \in Contents
  BY <1>2 DEF Parsing, WorkerInv, WkType
<1>9. Files'
  <2>1. ASSUME Proto(w).name = "ftp" PROVE ForData(c.last)
    <3>1. Found(Head(c.todo).port, c.last) /\ c.content.proto = "ftp"
      BY <1>1, <1>2, <1>8, <2>1 DEF Placed, Proto
    <3>2. Head(c.todo) \in Listed(c.content)
      <4>1. 1 \in DOMAIN c.todo /\ Head(c.todo) = c.todo[1]
        BY <1>8, LenProperties
      <4>. QED BY <1>8, <4>1
    <3>3. PICK i \in DOMAIN c.content.eps : Head(c.todo) = c.content.eps[i]
      BY <3>2 DEF Listed
    <3>. QED BY <1>8, <3>1, <3>3 DEF ForData
  <2>2. \A f \in ignored' : ForData(f)
    BY <1>3, <2>1 DEF AppMore, Files
  <2>3. \A f \in ignored' : ForData(f)'
    BY <1>3, <2>2 DEF ForData, Found
  <2>. QED BY <1>3, <2>3 DEF AppMore, Files
<1>10. PairsApart => PairTables'
  BY <1>3 DEF AppMore, PairTables, Found, Leads
<1>11. Placed(r)'
  <2>1. Found(r.conn.key.cli.port, r.flow)'
    BY <1>2, <1>3, <1>5 DEF Placed, Found
  <2>. QED BY <1>2, <1>5, <1>8, <2>1 DEF Placed
<1>12. WorkersApart => Settled(r)'
  BY <1>2, <1>3, <1>5, <1>8 DEF Settled
<1>13. PairsApart => Paired(r)'
  BY <1>2, <1>3, <1>5, <1>8 DEF Paired, Leads
<1>. QED BY <1>7, <1>9, <1>10, <1>11, <1>12, <1>13, StepMore
-----------------------------------------------------------------------------
(* A packet decides its flow's protocol, one of its transport's.           *)
LEMMA SetProtocolMore ==
  ASSUME AppBase, AppMore, NEW w \in Tids, ~crashed,
         wk[w].pc \in {"try"} \cup Parsing, wk' = [wk EXCEPT ![w].pc = "done"],
         NEW name, SetProtocol(wk[w].flow, name),
         PairsApart => OfTransport(name, wk[w].conn.transport),
         UNCHANGED <<map64, torn, ignored, written, crashed, npkt>>
  PROVE  AppMore'
<1>1. PICK c : c = wk[w]
  OBVIOUS
<1>2. /\ wk \in [Tids -> WkType] /\ c \in WkType /\ WorkerInv(w, c)
      /\ Placed(c) /\ (PairsApart => Paired(c))
      /\ c.pc \notin {"idle", "begin"}
  BY <1>1 DEF AppBase, Workers, AppMore, Parsing, Reading
<1>r. PICK r : r = [c EXCEPT !.pc = "done"]
  OBVIOUS
<1>3. /\ r.pc = "done" /\ r.conn = c.conn /\ r.flow = c.flow
      /\ r.mapped = c.mapped /\ r.guess = c.guess
  BY <1>2, <1>r DEF WkType
<1>4. wk' = [wk EXCEPT ![w] = r]
  BY <1>1, <1>2, <1>r
<1>5. OwnStep(w, r) /\ Grows
  BY <1>2, <1>4 DEF OwnStep, Same, Grows
<1>6. c.conn \in Conns
  BY <1>2 DEF WorkerInv
<1>7. PICK x \in DOMAIN map64 : x.cli.port = c.conn.key.cli.port /\ map64[x] = c.flow
  BY <1>2 DEF Placed, Found
<1>8. /\ DOMAIN protocol' = DOMAIN protocol \cup {c.flow} /\ protocol'[c.flow] = name
      /\ \A f \in DOMAIN protocol : f # c.flow => protocol'[f] = protocol[f]
  BY <1>1 DEF SetProtocol, Assign
<1>9. Files'
  <2>1. \A f \in DOMAIN protocol' : \E y \in DOMAIN map64 : map64[y] = f
    BY <1>7, <1>8 DEF AppMore, Files
  <2>. QED BY <2>1 DEF AppMore, Files, ForData, Found
<1>10. ASSUME PairsApart PROVE PairTables'
  <2>1. ASSUME NEW d \in Conns, NEW f \in DOMAIN protocol', Found(d.key.cli.port, f)
        PROVE  OfTransport(protocol'[f], d.transport)
    <3>1. CASE f = c.flow
      <4>1. PICK y \in DOMAIN map64 : y.cli.port = d.key.cli.port /\ map64[y] = f
        BY <2>1 DEF Found
      <4>2. x = y
        BY <1>7, <3>1, <4>1 DEF AppMore, Files
      <4>3. d.key \in Pairs(d) /\ c.conn.key \in Pairs(c.conn)
        BY DEF Pairs
      <4>4. d.transport = c.conn.transport
        BY <1>6, <1>7, <1>10, <4>1, <4>2, <4>3 DEF PairsApart
      <4>. QED BY <1>1, <1>8, <1>10, <3>1, <4>4
    <3>2. CASE f # c.flow
      BY <1>8, <1>10, <2>1, <3>2 DEF AppMore, PairTables
    <3>. QED BY <3>1, <3>2
  <2>2. \A d \in Conns, f \in DOMAIN protocol' :
          Found(d.key.cli.port, f)' => OfTransport(protocol'[f], d.transport)
    BY <2>1 DEF Found
  <2>. QED BY <1>10, <2>2 DEF AppMore, PairTables, Leads
<1>11. Placed(r)' /\ Settled(r)'
  <2>1. Found(r.conn.key.cli.port, r.flow)'
    BY <1>2, <1>3 DEF Placed, Found
  <2>. QED BY <1>3, <2>1 DEF Placed, Settled, Parsing, Reading
<1>12. PairsApart => Paired(r)'
  BY <1>2, <1>3 DEF Paired, Leads, Parsing, Reading
<1>. QED BY <1>5, <1>9, <1>10, <1>11, <1>12, StepMore

LEMMA ParserDoneMore ==
  ASSUME AppBase, AppMore, NEW w \in Tids, ~crashed, ParserDone(w) PROVE AppMore'
<1>1. PICK c : c = wk[w]
  OBVIOUS
<1>2. /\ wk \in [Tids -> WkType] /\ c \in WkType /\ c.pc = "parse" /\ c.pc \in Parsing
      /\ WorkerInv(w, c) /\ (WorkersApart => Settled(c)) /\ (PairsApart => Paired(c))
  BY <1>1 DEF AppBase, Workers, ParserDone, AppMore, Parsing
<1>3. UNCHANGED <<map64, torn, ignored, written, crashed, npkt>>
  BY DEF ParserDone, smVars
<1>4. PICK p : p = Proto(w).name
  OBVIOUS
<1>5. PairsApart => OfTransport(p, c.conn.transport)
  <2>1. Proto(w) \in Range(Protocols)
    BY <1>1, <1>2, ProtoListed DEF WorkerInv
  <2>. QED BY <1>1, <1>2, <1>4, <2>1 DEF OfTransport, Proto, Paired
<1>6. CASE SetProtocol(wk[w].flow, Proto(w).name) /\ wk' = [wk EXCEPT ![w].pc = "done"]
  BY <1>1, <1>2, <1>3, <1>4, <1>5, <1>6, SetProtocolMore
<1>7. CASE /\ wk' = [wk EXCEPT ![w].pc = "try", ![w].it = NextIt(w),
                       ![w].guess = @ \cup (wk[w].content.hello \cap {Proto(w).name})]
           /\ UNCHANGED protocol
  <2>1. PICK n, h : n = NextIt(w) /\ h = wk[w].content.hello \cap {p}
    OBVIOUS
  <2>r. PICK r : r = [c EXCEPT !.pc = "try", !.it = n, !.guess = @ \cup h]
    OBVIOUS
  <2>2. /\ r.pc = "try" /\ r.conn = c.conn /\ r.flow = c.flow
        /\ r.mapped = c.mapped /\ r.guess = c.guess \cup h
        /\ r.known = c.known /\ r.it = n
    BY <1>2, <2>r DEF WkType
  <2>3. wk' = [wk EXCEPT ![w] = r]
    BY <1>1, <1>2, <1>4, <1>7, <2>1, <2>r
  <2>4. r.known => ~(r.it <= Len(Protocols))
    <3>1. Len(Protocols) \in Nat
      BY AppAssumption, LenProperties
    <3>. QED BY <1>1, <2>1, <2>2, <3>1 DEF NextIt
  <2>5. WorkersApart => Settled(r)
    BY <1>2, <2>2, <2>4 DEF Settled
  <2>6. PairsApart => \A x \in r.guess : x \in wk[w].guess \/ OfTransport(x, r.conn.transport)
    BY <1>1, <1>5, <2>1, <2>2
  <2>7. r.pc \notin Parsing
    BY <2>2 DEF Parsing, Reading
  <2>. QED BY <1>1, <1>2, <1>3, <1>7, <2>2, <2>3, <2>4, <2>5, <2>6, <2>7, InsideMore
<1>. QED BY <1>6, <1>7 DEF ParserDone

LEMMA GuessMore ==
  ASSUME AppBase, AppMore, NEW w \in Tids, ~crashed, Guess(w) PROVE AppMore'
<1>1. PICK c : c = wk[w]
  OBVIOUS
<1>2. /\ wk \in [Tids -> WkType] /\ c \in WkType /\ c.pc = "try"
      /\ (PairsApart => Paired(c)) /\ wk' = [wk EXCEPT ![w].pc = "done"]
  BY <1>1 DEF AppBase, Workers, Guess, AppMore
<1>3. UNCHANGED <<map64, torn, ignored, written, crashed, npkt>>
  BY DEF Guess, smVars
<1>4. ASSUME NEW name \in c.guess, SetProtocol(wk[w].flow, name) PROVE AppMore'
  <2>1. PairsApart => OfTransport(name, wk[w].conn.transport)
    BY <1>1, <1>2, <1>4 DEF Paired
  <2>. QED BY <1>1, <1>2, <1>3, <1>4, <2>1, SetProtocolMore
<1>5. CASE UNCHANGED protocol
  <2>r. PICK r : r = [c EXCEPT !.pc = "done"]
    OBVIOUS
  <2>1. /\ r.pc = "done" /\ r.conn = c.conn /\ r.flow = c.flow
        /\ r.mapped = c.mapped /\ r.guess = c.guess
    BY <1>2, <2>r DEF WkType
  <2>2. wk' = [wk EXCEPT ![w] = r] /\ r.pc \notin Parsing /\ Settled(r)
    BY <1>1, <1>2, <2>r, <2>1 DEF Settled, Parsing, Reading
  <2>. QED BY <1>1, <1>2, <1>3, <1>5, <2>1, <2>2, InsideMore
<1>. QED BY <1>1, <1>4, <1>5 DEF Guess

LEMMA DoneMore ==
  ASSUME AppBase, AppMore, NEW w \in Tids, ~crashed, Done(w) PROVE AppMore'
<1>1. PICK c : c = wk[w]
  OBVIOUS
<1>2. /\ wk \in [Tids -> WkType] /\ (PairsApart => Paired(c))
      /\ wk' = [wk EXCEPT ![w] = Idle]
      /\ UNCHANGED <<map64, torn, ignored, protocol, crashed, npkt>>
      /\ written' = written \cup
           {[key |-> c.conn.key, ep |-> m.ep, flow |-> m.flow] :
              m \in {x \in c.mapped : x.own}}
  BY <1>1 DEF AppBase, Workers, AppMore, Done, smVars, Src
<1>3. OwnStep(w, Idle) /\ Grows
  BY <1>2 DEF OwnStep, Same, Grows
<1>4. Placed(Idle)' /\ Settled(Idle)' /\ Paired(Idle)'
  BY DEF Placed, Settled, Paired, Idle, Parsing, Reading
<1>5. Files'
  BY <1>2 DEF AppMore, Files, ForData, Found
<1>6. ASSUME PairsApart PROVE PairTables'
  <2>1. \A a \in written' : Leads(a.flow, a.ep, a.key.srv)
    BY <1>2, <1>6 DEF AppMore, PairTables, Paired
  <2>. QED BY <1>2, <1>6, <2>1 DEF AppMore, PairTables, Found, Leads
<1>. QED BY <1>3, <1>4, <1>5, <1>6, StepMore
-----------------------------------------------------------------------------
LEMMA AppNextMore ==
  ASSUME AppBase, AppMore, [AppNext]_appVars PROVE AppMore'
<1>1. CASE UNCHANGED appVars
  <2>1. UNCHANGED <<map64, torn, ignored, protocol, written, crashed, npkt, wk>>
    BY <1>1 DEF appVars, smVars
  <2>2. Files' /\ (PairsApart => PairTables')
    BY <2>1 DEF AppMore, Files, ForData, PairTables, Found, Leads
  <2>3. ASSUME NEW w \in Tids
        PROVE  /\ Placed(wk[w])' /\ (WorkersApart => Settled(wk[w])')
               /\ (PairsApart => Paired(wk[w])')
    BY <2>1 DEF AppMore, Placed, Settled, Paired, Found, Seen, Leads
  <2>. QED BY <2>2, <2>3 DEF AppMore
<1>2. ASSUME NEW w \in Tids, ~crashed, Take(w) PROVE AppMore'
  BY <1>2, TakeMore
<1>3. ASSUME NEW w \in Tids, Steps(w) PROVE AppMore'
  <2>1. ~crashed
    BY <1>3 DEF Steps
  <2>2. CASE Begin(w)
    BY <2>1, <2>2, BeginMore
  <2>3. CASE Claim(w)
    BY <2>1, <2>3, ClaimMore
  <2>4. CASE SetCur(w)
    BY <2>1, <2>4, SetCurMore
  <2>5. CASE App(w)
    BY <2>1, <2>5, AppStepMore
  <2>6. CASE TryParser(w)
    BY <2>1, <2>6, TryParserMore
  <2>7. CASE ReadKey(w)
    BY <2>1, <2>7, ReadKeyMore
  <2>8. CASE ReadSrv4(w) \/ ReadSrv6(w)
    BY <2>1, <2>8, ReadSrvMore
  <2>9. CASE FillTables(w)
    BY <2>1, <2>9, FillTablesMore
  <2>10. CASE Write(w)
    BY <2>1, <2>10, WriteMore
  <2>11. CASE ParserDone(w)
    BY <2>1, <2>11, ParserDoneMore
  <2>12. CASE Guess(w)
    BY <2>1, <2>12, GuessMore
  <2>13. CASE Done(w)
    BY <2>1, <2>13, DoneMore
  <2>. QED BY <1>3, <2>2, <2>3, <2>4, <2>5, <2>6, <2>7, <2>8, <2>9, <2>10, <2>11,
              <2>12, <2>13 DEF Steps
<1>. QED BY <1>1, <1>2, <1>3 DEF AppNext

LEMMA MoreAlways == AppSpec => [](AppBase /\ AppMore)
<1>1. AppBase /\ AppMore /\ [AppNext]_appVars => (AppBase /\ AppMore)'
  BY AppNextBase, AppNextMore
<1>. QED BY <1>1, AppInitBase, AppInitMore, PTL DEF AppSpec
-----------------------------------------------------------------------------
LEMMA MoreTyped == AppBase /\ AppMore => AppTypeOK
<1>. SUFFICES ASSUME AppBase, AppMore PROVE AppTypeOK
  OBVIOUS
<1>1. SMTypeOK
  BY DEF AppBase, Tables
<1>2. DOMAIN flow = 1 .. Len(flow) /\ Len(flow) \in Nat
  BY <1>1, LenProperties DEF SMTypeOK
<1>3. torn \subseteq DOMAIN flow
  <2>1. CASE HolderAt({"read46"})
    <3>1. torn \subseteq 1 .. (Len(flow) - 1)
      BY <2>1 DEF AppBase, Tables, TablesOn
    <3>. QED BY <1>2, <3>1
  <2>2. CASE ~HolderAt({"read46"})
    BY <1>2, <2>2 DEF AppBase, Tables, TablesOn
  <2>. QED BY <2>1, <2>2
<1>4. \A x \in DOMAIN map64 : map64[x] \in DOMAIN flow
  BY <1>1 DEF SMTypeOK
<1>5. ignored \subseteq DOMAIN flow /\ DOMAIN protocol \subseteq DOMAIN flow
  BY <1>4 DEF AppMore, Files, ForData, Found
<1>6. \A f \in DOMAIN protocol : \E i \in DOMAIN Protocols : protocol[f] = Protocols[i].name
  BY DEF AppBase, Workers, Names
<1>7. \A w \in Tids : wk[w].pc \in {"read4", "read6", "read46"} <=> holder = w
  BY DEF AppBase, Workers, Locked, Reading
<1>8. npkt \in 0 .. MaxPkts
  BY DEF AppMore, Files
<1>. QED BY <1>1, <1>3, <1>5, <1>6, <1>7, <1>8 DEF AppTypeOK

LEMMA MoreParsed == AppBase /\ AppMore /\ DataPortsApart => CommandsParsed
<1>. SUFFICES ASSUME AppBase, AppMore, DataPortsApart, NEW c \in Conns,
                     Has64(c.key), GetMapping64(c.key) \in ignored
              PROVE  FALSE
  BY DEF CommandsParsed
<1>1. SMTypeOK /\ c.key \in Keys
  BY AppAssumption DEF AppBase, Tables
<1>2. PICK x \in DOMAIN map64 : x.cli.port = c.key.cli.port /\ At64(c.key) = map64[x]
  BY <1>1, At64IsEntry
<1>3. ForData(map64[x])
  BY <1>2 DEF GetMapping64, AppMore, Files
<1>4. PICK p \in Contents :
        p.proto = "ftp" /\ \E i \in DOMAIN p.eps : Found(p.eps[i].port, map64[x])
  BY <1>3 DEF ForData
<1>5. PICK i \in DOMAIN p.eps : Found(p.eps[i].port, map64[x])
  BY <1>4
<1>6. PICK y \in DOMAIN map64 : y.cli.port = p.eps[i].port /\ map64[y] = map64[x]
  BY <1>5 DEF Found
<1>7. x = y
  BY <1>6 DEF AppMore, Files
<1>. QED BY <1>2, <1>4, <1>6, <1>7 DEF DataPortsApart

(* A mapping that is not torn is found from the server's side as well.     *)
LEMMA LeadsBack ==
  ASSUME AppBase, NEW f, NEW e, NEW s, Leads(f, e, s), f \notin torn
  PROVE  LET g == GetMapping46([ip4p |-> flow[f].ip4p, srv |-> ServerAddr4(s)])
         IN  g # NoFlow /\ flow[g].ip6p = e
<1>1. PICK n : TablesOn(n) /\ n \in Nat
  <2>1. Len(flow) \in Nat
    BY LenProperties DEF AppBase, Tables, SMTypeOK
  <2>2. CASE HolderAt({"read46"})
    <3>1. TablesOn(Len(flow) - 1) /\ holder \in Tids
      BY <2>2 DEF AppBase, Tables, HolderAt, Workers
    <3>2. HolderInv(wk[holder]) /\ wk[holder].pc = "read46"
      BY <2>2 DEF HolderAt, AppBase, Workers
    <3>3. Len(flow) > 0
      BY <3>2 DEF HolderInv
    <3>4. Len(flow) - 1 \in Nat
      BY <2>1, <3>3
    <3>. QED BY <3>1, <3>4
  <2>3. CASE ~HolderAt({"read46"})
    BY <2>1, <2>3 DEF AppBase, Tables
  <2>. QED BY <2>2, <2>3
<1>2. PICK k : k = [cli |-> e, srv |-> s]
  OBVIOUS
<1>3. k \in DOMAIN map64 /\ map64[k] = f
  BY <1>2 DEF Leads
<1>4. f \in 1 .. n /\ Key64Of(flow[f]) = k
  BY <1>1, <1>3 DEF TablesOn
<1>5. flow[f].ip6p = e /\ flow[f].ip6srv = s
  <2>1. k.cli = e /\ k.srv = s
    BY <1>2
  <2>2. Key64Of(flow[f]).cli = flow[f].ip6p /\ Key64Of(flow[f]).srv = flow[f].ip6srv
    BY DEF Key64Of
  <2>. QED BY <1>4, <2>1, <2>2
<1>6. /\ Key46Of(flow[f]) \in DOMAIN map46 /\ map46[Key46Of(flow[f])] = f
      /\ flow[f].ip4srv = s.low
  BY <1>1, <1>4, <1>5 DEF TablesOn
<1>7. Key46Of(flow[f]) = [ip4p |-> flow[f].ip4p, srv |-> ServerAddr4(s)]
  BY <1>6 DEF Key46Of, ServerAddr4
<1>8. f # NoFlow
  BY <1>1, <1>4 DEF NoFlow
<1>. QED BY <1>5, <1>6, <1>7, <1>8 DEF GetMapping46

LEMMA MoreReachable == AppBase /\ AppMore /\ PairsApart => AnnouncedReachable
<1>. SUFFICES ASSUME AppBase, AppMore, PairsApart, NEW a \in written, a.flow \notin torn
              PROVE  LET f == GetMapping46([ip4p |-> flow[a.flow].ip4p,
                                            srv |-> ServerAddr4(a.key.srv)])
                     IN  f # NoFlow /\ flow[f].ip6p = a.ep
  BY DEF AnnouncedReachable
<1>1. Leads(a.flow, a.ep, a.key.srv)
  BY DEF AppMore, PairTables
<1>. QED BY <1>1, LeadsBack

LEMMA MoreStable ==
  ASSUME AppBase, AppMore, WorkersApart, [AppNext]_appVars PROVE [KeepsProtocol]_appVars
<1>1. UNCHANGED protocol => KeepsProtocol
  BY DEF KeepsProtocol
<1>2. ASSUME NEW w \in Tids, NEW name, SetProtocol(wk[w].flow, name),
             wk[w].flow \in DOMAIN protocol => name = protocol[wk[w].flow]
      PROVE  KeepsProtocol
  BY <1>2 DEF SetProtocol, Assign, KeepsProtocol
<1>3. ASSUME NEW w \in Tids, Steps(w) PROVE KeepsProtocol
  <2>1. wk[w] \in WkType /\ WorkerInv(w, wk[w]) /\ Settled(wk[w])
    BY DEF AppBase, Workers, AppMore
  <2>2. CASE ParserDone(w)
    <3>1. CASE SetProtocol(wk[w].flow, Proto(w).name)
      <4>1. wk[w].pc \in Parsing /\ wk[w].it <= Len(Protocols)
        BY <2>1, <2>2 DEF ParserDone, Parsing, WorkerInv
      <4>2. wk[w].flow \in DOMAIN protocol => Proto(w).name = protocol[wk[w].flow]
        BY <2>1, <4>1 DEF Settled, Proto
      <4>3. PICK name : name = Proto(w).name
        OBVIOUS
      <4>. QED BY <1>2, <3>1, <4>2, <4>3
    <3>. QED BY <1>1, <2>2, <3>1 DEF ParserDone
  <2>3. CASE Guess(w)
    <3>1. ASSUME ~wk[w].known, NEW name, SetProtocol(wk[w].flow, name) PROVE KeepsProtocol
      <4>1. wk[w].flow \notin DOMAIN protocol
        BY <2>1, <2>3, <3>1 DEF Settled, Guess
      <4>. QED BY <1>2, <3>1, <4>1
    <3>. QED BY <1>1, <2>3, <3>1 DEF Guess
  <2>4. CASE ~ParserDone(w) /\ ~Guess(w)
    <3>1. UNCHANGED protocol
      BY <1>3, <2>4 DEF Steps, Begin, Claim, SetCur, App, TryParser, ReadKey, ReadSrv4,
                        ReadSrv6, FillTables, Write, Done, Quiet
    <3>. QED BY <1>1, <3>1
  <2>. QED BY <2>2, <2>3, <2>4
<1>4. ASSUME NEW w \in Tids, Take(w) PROVE KeepsProtocol
  BY <1>1, <1>4 DEF Take
<1>. QED BY <1>3, <1>4 DEF AppNext

(* For any number of workers and connections: types, and smutex is held    *)
(* exactly by the worker in the middle of a mapping (state.cc:72-93,       *)
(* nat.cc:219-340).                                                        *)
THEOREM AppTypes == AppSpec => []AppTypeOK
<1>. QED BY MoreAlways, MoreTyped, PTL

(* If no port is announced for data that is a connection's own, no flow of *)
(* a connection is ever ignored (ftp/grammar:31, nat.cc:254).              *)
THEOREM CommandsAlwaysParsed ==
  ASSUME DataPortsApart PROVE AppSpec => []CommandsParsed
<1>1. AppBase /\ AppMore => CommandsParsed
  BY MoreParsed
<1>. QED BY <1>1, MoreAlways, PTL

(* If connections that share a port share their worker, a protocol that is *)
(* known stays (nat.cc:277-319).                                           *)
THEOREM ProtocolsStay ==
  ASSUME WorkersApart PROVE AppSpec => ProtocolStable
<1>1. AppBase /\ AppMore /\ [AppNext]_appVars => [KeepsProtocol]_appVars
  BY MoreStable
<1>. QED BY <1>1, MoreAlways, PTL DEF AppSpec, ProtocolStable

(* If no two pairs in use share a port, an address a parser wrote for the  *)
(* server the packet goes to leads back to the endpoint the client         *)
(* announced, unless its mapping was torn by another worker's store to     *)
(* ip6srv_cur_ (ftp/grammar:26-31, sip/grammar:30-64, state.h:32).         *)
THEOREM AnnouncedAlwaysReachable ==
  ASSUME PairsApart PROVE AppSpec => []AnnouncedReachable
<1>1. AppBase /\ AppMore => AnnouncedReachable
  BY MoreReachable
<1>. QED BY <1>1, MoreAlways, PTL
=============================================================================
