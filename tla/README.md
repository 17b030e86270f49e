# A TLA+ development of the NAT64 gateway

The program is a stateful NAT64 translator with an application-level gateway:
IPv6 clients reach IPv4 servers through it. Packets come in on a tun device,
worker threads translate their headers and send them on raw sockets, and
parsers may rewrite payloads that carry addresses. This directory holds TLA+
modules that model the program from its source, TLC configurations that check
them on small instances, and TLAPS proofs.

## 1. Inventory

| Component | Source | State | Operations | Interacts with |
|---|---|---|---|---|
| Addresses and key orders | `ip.cc`, `ip.h` | none | `operator<`, `operator!=` of addresses and endpoints | the `std::map` tables of StateManager are sorted by them |
| StateManager | `state.cc`, `state.h` | port pool, `map64_`, `map46_`, `map44_`, `map_pool_`, `ip6srv_cur_`, configuration | `doMapping`, `getMapping` (2), `doMapping44`, `isAddrInRange` (2), `setCurIPv6SrvAddr`, `init` | called by the main thread, all workers and parsers; `smutex` covers the mapping operations only |
| Tunnel dispatcher and workers | `tun.h` | `T` queues with a mutex each | `tun_handle` (main thread), `thread_t` (workers) | looks flows up, hands packets to `NAT::translate` |
| NAT translation | `nat.cc`, `nat.h` | per worker: `ip4p_`, `ip6p_` of the packet in hand | `translate`, `begin`, `doSPort`, `doDPort`, `doIP`, `finish`; `doApp`, `doExtraTCP` (the call of `doApp` is commented out) | StateManager, Flow, sockets |
| Packet | `packet.cc`, `packet.h` | buffers and header pointers | `unpack`, `getFlow`, `setTransportLen`, `updateChecksum` | StateManager |
| Raw sockets | `socket.cc`, `socket.h` | descriptor | `send` | the network |
| Flow | `flow.cc`, `flow.h` | binding, owner `tid`, sequence offsets, parsers, protocol | `getParser`, `getPktOffset`, `addOffset`, `modify`, `shift`, `count` | parsers, packets |
| Communicator | `communicator.cc`, `communicator.h` | `data_`, two pipes, `running_`, `total_len` | `addData`, `getIStream`, `init`, `run` | the packet thread and one thread per stateful parser |
| Parser and registry | `parser.cc`, `parser.h` | operations found, `end`, `endPos`, `mp_` | `process`, `addOperation`, `setLengthEnd`, `totalDelta` | Communicator, Flow |
| HTTP, FTP, SIP parsers | `http/`, `ftp/`, `sip/` | grammar state | the grammars' actions | Parser, StateManager |
| Main program, analysis mode | `main.cc` | counters | `main`, `analyze`, `parse` | all |
| Netfilter queue front end | `nfqueue.cc` | external queue | `cb` | `NAT::translate`; not reachable in this build (`sm.tun = true`) |

Behaviours that are hard to test, and what has to hold:

* **Sharing.** All threads share the tables; `smutex` makes the mapping
  operations atomic, but `map_pool_`, `Flow::tid`, `ip6srv_cur_` and the
  timing maps have no lock. The tables must agree with each other and with the
  pool, and bindings must never move.
* **Ordering.** One main thread dispatches to `T` workers that send
  independently. Packets of a connection must stay in order, which rests on
  the choice of the queue being constant for a connection.
* **Limits.** The pool is never refilled; queues are bounded by a wait outside
  the lock.
* **Threads that wait for one another.** A stateful parser runs in a thread of
  its own and takes turns with the packet thread through two pipes. The turns
  must exclude each other, end, and survive the replacement of the parser.
* **Failure.** Sends fail, pipes may not open, parsers end anywhere in a
  packet, a message is understood in part.
* **Numbers.** A packet's length is kept in five places and its checksum is
  made over words of the host's order; operations are positions in a text that
  other operations change.

The list in `PROJECT.json` under `hazards` names each at its line, with the
properties that watch it.

## 2. Modules

| Module | Models | Kind |
|---|---|---|
| `Addr` | address types and the comparison operators as written | pure operators |
| `StateManager` | the shared state; one action per operation | state machine |
| `Tun` | main thread, queues, workers, NAT, on top of `StateManager` | state machine |
| `Nat64Service` | what the gateway promises its users | abstract specification |
| `StatefulCommunicator` | packet thread and parser threads | state machine |
| `ParserSession` | what a stateful parser promises: an ordinary call | abstract specification |
| `FlowModify` | sequence offsets and payload changes of one flow | state machine |
| `Analysis` | analysis mode over several captures, with `doMapping44` | state machine |
| `Packet` | a packet's bytes from device to socket: headers, lengths, checksum | state machine |
| `DoApp` | workers that choose parsers and map announced endpoints, on top of `StateManager` | state machine |
| `Grammar` | the operations the FTP, SIP and HTTP grammars find in a message | state machine |
| `MC...` | constants for TLC, one module for each state machine | instances |
| `StateManagerProofs` | theorems about `StateManager` | proofs |
| `TunProofs` | theorems about `Tun`, with the refinements of `StateManager` and `Nat64Service` | proofs |
| `FlowModifyProofs` | theorems about `FlowModify` | proofs |
| `PacketProofs` | theorems about `Packet` | proofs |
| `GrammarProofs` | theorems about `Grammar` | proofs |
| `CommunicatorProofs` | theorems about `StatefulCommunicator`, with the refinement of `ParserSession` | proofs |
| `DoAppProofs` | theorems about `DoApp` | proofs |
| `AnalysisProofs` | theorems about `Analysis` | proofs |

`Grammar` says what operations a message gives, `DoApp` for whom its endpoints
are mapped, `FlowModify` how the operations change the packet and the numbers of
its flow, `Packet` what that does to lengths and checksum, and `Tun` moves the
packets through the threads. `DoApp` and `Tun` extend `StateManager`; the others
meet in what they assume: `OpsFit` of `Grammar` is `PayloadAssumption` of
`FlowModify` with the ranges disjoint as `SplicedExactly` wants them, and that the
packets of a flow come one by one is `FlowAffinity` of `Tun`.

### Addr, StateManager

`pool`, `mapPool`, `map64`, `map46`, `ip6srvCur` are the members of the class
with those names; `flow` is the heap of `Flow` objects in order of creation and
a `FlowPtr` is an index of it (0 for the null pointer). `DoMapping`,
`GetMapping64`, `GetMapping46`, `IsAddrInRange4`, `SetTid` and
`SetCurIPv6SrvAddr` are the operations. Each mapping operation is one step
because it holds `smutex` from beginning to end.

An address is abstracted to what the code tells apart: the upper 96 bits of an
IPv6 address are one number, the last word another. The comparison operators
of `ip.cc` are translated as they stand, and they compare an IPv6 address with
itself. Two keys of `map64_` are therefore equivalent for `std::map` exactly
when their client *ports* are equal (proved: `Key64SameIsPort`). All look-ups of
the model go through this equivalence.

### Tun

`Receive`, `Pick` and `Push` are `tun_handle`; between them a worker may run,
so the flow looked up in `Receive` may be claimed before `Pick` reads its
`tid`. `Pop` is the loop of `thread_t`; `Filter6`, `Enter4`, `Filter4` are the
checks of `translate`; `Map6`, `ReadTid`, `Claim` and `Begin4` are `begin`;
`Send` rewrites the headers and gives the packet to the socket, which may
refuse it. Every early return is a `Drop`. A packet without TCP or UDP header is
sent to any queue, because `port_t` is uninitialised.

Three things may end the process: the null flow in `Map6`; a look-up in
`map_pool_` that raced an insertion in `Filter4` (`Enter4` finds out who is in the
map together; a raced look-up may also just miss the address); and the timing
maps. `count1` and `count2` index `mptime_` and `time` by labels from every worker,
without a lock, at the start of `translate` and from the end of `begin` to the end
of `translate` (`Stamping`: the positions `"range"` and `"send"`). The first use of a
label inserts it; `stamped` holds the positions whose labels are in. Two workers
at these positions, one of them to insert, may damage the maps (`Stamp`, `spoilt`),
and damaged maps may end the process there or in any later use of them, before or
after a packet is sent, or do no harm. A worker that loops for ever in a damaged
map counts as the end of the process. What is stored for a label that is there is
a number nobody acts on, and left out.

Clients send any packet of a set, servers answer only what was sent to them,
and strays come unasked. What is claimed of connections (`FlowAffinity`, `InOrder`,
`ServiceImplemented`) is claimed of `ProperTraffic`: a client port is used by one
connection, and nobody but servers answers. That is not timidity: `map64_` takes
two clients on one port for one (finding `tables_shared_port`), and a stray that
guesses a flow's port and server before the flow is claimed may go to another
worker. `ProperAssumption` of
`MCTun` makes TLC confirm that the traffic of run `gateway_proper` is such. The
first byte test of `tun_handle` (0x60) takes an
IPv6 packet with a traffic class for IPv4; such a packet behaves as a stray.

### StatefulCommunicator

`comm[g]` is the g-th parser a flow direction had: the members of
`StatefulCommunicator` and `Parser` with the pipes' contents and the child's
position. `GetParser`, `Store`, `AwaitInit`, `Give`, `Await`, `Collect` are the
father (`Flow::getParser`, `addData`, `init`, `process`), `Ask`, `Load` (the two
halves of `getIStream`), `AddOperation`, `SetLengthEnd`, `EndOfStream`,
`EndOfParse` (the grammar at work), `Quit`, `Close` (`run`) the child. Parsing is
nondeterministic: a parser may find operations, learn where its message ends,
want more or end. The shipped HTTP grammar never reaches its call of
`setLengthEnd` (it sets `len` to 0); the model covers parsers that do call it.
A child that runs after its parser was deleted either finds the memory as it
was or sets `wild`, after which nothing is claimed.

### FlowModify

The part of `NAT::doApp` that touches numbers and payload, in the direction
from client to server, with `Flow::modify`, `getPktOffset` and `addOffset`. A
packet is one step (`Pass` without operations, `Modify` with them) because a flow
belongs to one worker. The client makes its packets one after the other
(`Produce`, `segs`); the network before the gateway delivers any of them at any
time, so that a packet may be lost, overtaken or come again, whether or not it
came before (`Deliver`). The server acknowledges what it has without a gap. What a packet holds is a
record of its length and the operations a stateless parser (FTP, SIP) finds in
it; `TCP` is a constant, so one instance is a connection and another a flow of
datagrams. `doApp` is complete in the source, but `translate` does not call it
in this version (`nat.cc:97`); the module says what it does when called.

Bytes are integers: client bytes count from 1, new bytes are negative and `Junk`
is what memory held. The copying loop is translated statement by statement:
`EnterOp`, `CopyByte` and `Skip` are its branches and `Loop` its iterations, with
`ps` in its two uses. `std::sort` is not stable, so `SortOps` is the set of all
its results. After the last operation the loop still compares with
`ops[cnt].start_pos`, one element beyond the vector: `Modified` marks that it
looked there, `Modify` lets what it found be taken for an operation (`wild`) or
not, and nothing is claimed once `wild` holds. An operation with no new bytes is a
removal: the branch moves the source on and the same iteration copies a byte
(`EnterOp` followed by `CopyByte`), without a look at the next operation. The
grammars add no removals; the loop is modelled for them too.

`sm.extra` is `NONE` in every configuration `main` builds, so that what is cut
off at `MSS` goes to `trail` and stays there; `shift` and `doExtraTCP` are not
modelled. The part of `modify` about `maxPos` changes nothing for a stateless
parser: `maxPos` keeps its -1 and `getContentLengthExceed` returns its argument.
Sequence numbers are unbounded integers: the code only adds and subtracts
them, which is the same modulo 2^32 for differences within a window.

### Analysis

`ReadFrame` is an iteration of `analyze`'s loop: `Ignore` for frames without a
flow, `Analyse` for the others, with `DoMapping44` and the chain of tests that
classifies the flow. `NextFile` is the loop of `main` over its arguments:
`sm.init` clears `flow_cnt_` and `analyze` starts with new counters, but
`map44_` and the flows' `analyze` fields stay. The search for an address in a
URL (`parse`) is an input of the model (`literal`). `seen` is a history
variable that the properties use.

### Packet

One packet: `Unpack` (with the transport classes and `setTransportLen`),
`ShiftNumbers`, `Modify` and `LeaveAsIs` (`doApp`), `DoPorts`, `MakePkt` and `DoIP`,
`Finish` (`updateChecksum`), `Send`. A byte is a digit to the base `B`, so that a
word is two digits and the sum of few words overflows; the words are read in the
host's order, as the code does on its machines, and the receiver verifies in the
network's. The late fold of `tcp_checksum` is in the model, though sums of legal
length never need it twice. The kernel fills the total length and checksum of an
IPv4 header it is given (external), so what `make_ip4pkt` and `ip_checksum` put
there is not looked at. Headers have neither options nor extensions (the TODOs at
`packet.cc:79` and 86). The checksum is made anew from the bytes that arrived:
damage before the gateway is hidden from the receiver, and the model's packets
arrive undamaged. A UDP checksum of 0 is stored as it comes out.

### DoApp

Workers take packets of their own connections (`Tun` shows that a connection has
one worker). `Begin`, `Claim` and `SetCur` are `begin`; `App`, `TryParser`,
`ParserDone`, `Guess` and `Done` are `doApp`, with the protocols of the
configuration as a constant. The FTP and SIP grammars map the endpoints a
message announces with the one-argument `doMapping`, which passes the global
`ip6srv_cur_` by reference; another worker's `SetCur` takes no lock, so `ReadKey`,
`ReadSrv4`, `ReadSrv6` and `FillTables` read it one after the other while `smutex`
(`holder`) keeps out everything else. A mapping during which the server was
overwritten is `torn`; its flow may be in the tables under keys that lead nowhere
or to another server. That this does happen is why `AnnouncedReachable` excepts
it. A content is of one protocol, or of none (`ContentsAssumption`); what of it
the grammars find is `Grammar`'s subject. A server's packet without a mapping is
dropped in `Begin`, as in `NAT::begin`. Three hypotheses name what the rest of
the program or the traffic provides: `WorkersApart` (packets that meet in a flow
go to one worker: `FlowAffinity` of `Tun`), `DataPortsApart` (no FTP data
connection is announced at the port of a connection of commands) and `PairsApart`
(no two pairs of client endpoint and server, connections or announcements, share
a client port). `map64_` is keyed by client ports only: where the last two fail, a
flow of one use is met by another. `MCDoApp` states all three of its instance
(`PortsAssumption`). `doApp` is not called in this version, see `FlowModify`.

### Grammar

`ops`, `content_len_`, `c_ip_`, `curTag` and `ignore` are members of the parsers. An
action is a rule of a grammar with its semantic action, for a line or tag with
tokens of any of the given lengths. Rules that have no effect on operations are
one action (`OtherHeader`, `SdpOther`, the status line and headers of HTTP).
`header: error` is SIP's only error rule: in a header it takes the place of the
line, in the body the parser falls back to the headers and takes the end of the
line for the empty line, so that a body must go on after it (`SdpError`); if the
message ends there, the operations found are used without a new Content-Length
(`SipFails`). `len` of the HTTP grammar is never set, so `emptyline` adds nothing
and `setLengthEnd` is not reached. Tag names are matched as they are written;
the model's are in lower case.

## 3. Runs

| Run | Question |
|---|---|
| `tables` | Do pool, tables and flows stay consistent when clients share ports and ports run out? Yes. |
| `tables_shared_port` | Does a look-up answer with the flow of the client who asks? No: finding 1. |
| `gateway` | Any traffic through all threads: is each packet in one place and in the end sent or given up, are queues bounded, does the process die only for the three known causes, do clients hear only their flow's server, does the whole implement `StateManager`? Yes. |
| `gateway_proper` | With client ports used once and servers that only answer: do look-ups give the flow asked for, does each flow stay with one worker, do connections stay in order, is the gateway the service of `Nat64Service`? Yes. |
| `communicator` | Do father and child keep off each other's data, is a deleted parser's child past its work, does the pair implement `ParserSession`, does `process()` always return? Yes. |
| `splice` | Does the copying loop deliver the plain replacement? Yes, for disjoint operations of a packet at offset 0. |
| `offsets` | Do the shifted numbers make one stream, and do acknowledgements stay behind? Yes, under the conditions each property states. |
| `second_command` | Are the operations of every packet of a connection applied? No: finding 2. |
| `analysis` | Is a connection one flow, counted once, for the service its ports tell? Yes, under the conditions each property states. |
| `segment` | Does the receiver verify the checksum of whatever is sent, and do all lengths agree? Yes. |
| `application` | Do announced addresses lead back to the client, does a torn mapping harm another, do connections keep their protocol and stay parsed, is every packet finished? Yes, a torn mapping's own address excepted. |
| `messages` | Are operations disjoint, does Content-Length follow the body, are exactly the links changed? Yes, under the conditions each property states. |

Bounds. `tables`: 12 keys (two hosts, three client ports, two servers), two pool
ports, two threads: sharing of ports in all ways, and exhaustion, happen.
`gateway`: `T = 2`, `QMAX = 1`, three packets, a pool of one port: a queue fills
up to its real bound, two workers hold packets of one flow, a second client port
finds the pool empty, two look-ups race in `map_pool_`, two workers insert labels
at once and a later packet meets the damaged maps. `gateway_proper`: four
packets on three connections, so that two requests are answered, answers pass
later requests and the queues fill. `communicator`: three packets of size 1 or
2, two operations, end positions 1 to 3: a session of three packets and three
sessions of one packet, ends before, at and after packet boundaries. `splice`:
every message of four bytes with up to three operations on different parts of
it, in every order, each replacing by none, one or two bytes: adjacent
operations, at both ends, growing, shrinking, removing and of equal size all
happen. `offsets`: four packets made and four arrivals, in any order, some missing
or repeated, with `MSS = 3`: growth within and beyond the segment, shrinking, a
modified packet that comes after its successor. `analysis`: ten kinds of frames, two
files of up to four, a limit of two (the frame that exceeds it is still
counted). `segment`: payloads of odd and even length up to the greatest, to the
base 4: all strings of up to three of the bytes 0, 1 and 3, and the largest ones
of length four and five. `application`: three packets of two workers with
different servers and a pool of three ports: both orders of every store and read
of `ip6srv_cur_`, a torn mapping that is written and one that is met again, a
guessed protocol that another grammar then could claim, and the death for want
of a port all happen. `messages`: seven lines or tags, addresses shorter and
longer than what replaces them, a Content-Length that gains or loses a digit.
Packets (`MaxPkts`), lines (`MaxLines`), `m=` lines (`MaxMedia`), operations
(`MaxOps`), frames (`MaxCnt`) and files (`MaxFiles`) are the only bounded
counters; all appear in guards. `CHECK_DEADLOCK FALSE` is set where a behaviour
ends because no more packets come or the process has died.

Fairness. `tun_handle` and `thread_t` are loops that poll (`usleep(1)`), each in
a thread of its own; hence weak fairness of `Pick \/ Push` and of each worker.
Packets need not arrive. Father and children are threads as well; that a parser
finishes one content is the finiteness of the content, which the bound on
operations stands for. In `application` each worker's steps are weakly fair;
nobody can hold `smutex` from them for ever, as `PacketsFinish` itself shows. `smutex` and the queue mutexes are held only within
single steps.

### Findings

1. `ip.cc:77-94`: `operator<` and `operator!=` of `IPv6Addr` read only their left
   operand, so `map64_`, declared with the pair of client endpoint and server
   as key (`state.h:88`), distinguishes client ports only. Two clients with one
   source port share a flow, and the answers go to the first.
2. `flow.cc:144`, `flow.cc:85`: an operation is to "replace data[start_pos,end_pos)
   with new data" (`parser.h:22`). `modify` subtracts the packet's offset in the
   connection from positions that a stateless parser counts from the packet's
   start; the two agree only for the first modified packet.

Seen while modelling and stated as the conditions of properties: the loop reads
one element past `ops` (`SplicedExactly`); it misses an operation that begins
where a removal ends, because it copies a byte before it compares again
(`flow.cc:144-158`; `RemovalsApart` in `SplicedExactly`, no grammar removes); a
modified packet that is sent again adds its growth to the offset again, and one
that comes after its successor, like any packet that comes late or again after
others were modified, gets the offset of the moment, so that neighbours overlap
or leave a gap (`StreamGapless`);
after a packet has shrunk, an acknowledgement of earlier bytes is translated to
too high a number, and after a packet grew twice, one that was lost before the
gateway may be acknowledged to the client (`AckNeverAhead`); a connection between
two service ports counts for both, and one known from an earlier file is not
counted (`ServicesCounted`); a child thread still runs when its parser counts as
ended (`DeletedOnlyQuits` says how far it can be; the comment at
`communicator.cc:59` calls it quit); a queue holds `QMAX + 1` packets
(`QueueBound`; the comment at `tun.h:19` calls `QMAX` the maximum); an endpoint
may be mapped for the server of another worker's packet (`AnnouncedReachable`);
of two `m=` lines after one `c=` line each replaces the address, so that it
counts twice in Content-Length (`OpsFit`) and `modify` applies no operation
after the first of the two (`flow.cc:144`); a page that ends a script it did not
begin is not looked at any further (`LinksFound`).

## 4. Proofs

`StateManagerProofs` proves for every pool, prefix, set of keys and number of
threads, from the assumptions named in `StateManager` (the pool has a port; the
keys that are mapped are under the prefix, which `translate` checks):

* `TypeCorrect`, `TablesAlwaysAgree`, `PoolAlwaysConserved`: invariants of run
  `tables`;
* `BindingsNeverMove`: the action property of run `tables`;
* `KeyedUnderUniquePorts`: an invariant of `gateway_proper`, from
  `ClientPortsUnique`.

The inductive invariant `SMInv` adds to the types: each table is the inverse of
the flows' keys (so they agree), no two entries of `map64` share a client port
(needed because a look-up chooses any entry with the port asked for), and the
pool is exactly the range minus as many first ports as there are flows. The
last part makes the port of a new flow fresh, and with it the key of `map46`
new. `CreateMappingFacts` is the step; the other operations leave tables and
pool alone.

`TunProofs` proves for every number of workers, queue limit and traffic, from
`QueueAssumption` and `TrafficAssumption` of `Tun` and the assumptions of
`StateManager`:

* `TunTypeCorrect`, `QueuesBounded`, `PacketsConserved`, `SentByBindings`: the
  invariants of run `gateway`;
* `OnlyThreeCrashCauses`: its action property `CrashCauses`;
* `ThreadsImplementStateManager`: every step of main thread and workers is a step
  of `StateManager` or leaves the shared state alone;
* `GatewayKeepsBindings`: by that refinement the theorems about `StateManager`
  hold of the whole gateway;
* under `ProperTraffic`, the properties of run `gateway_proper`:
  `FlowsKeepTheirWorker` (`FlowAffinity`), `ConnectionsKeepOrder` (`InOrder`) and
  `TunImplementsService`, the refinement of `Nat64Service`.

Its inductive invariant `TunInv` is `SMInv` together with: every packet in a queue
or in a worker's hands is one that can have arrived; what a worker knows at each
position of its code (`WorkersOK`: an IPv6 destination was found to be under the
prefix, a flow in hand exists, and an answer about to be sent comes from its
flow's server); a flow's two server addresses are one address (`ServersOK`, which
turns that knowledge into `SentByBinding`); and a look-up torn by an insertion
raced an address outside the pool (`TornOK`: such an address stays seen because
the look-up itself inserts it, and the pool's own address is there from the
start, so that pool addresses alone cannot end the process). `CrashStep` goes
through the actions for `CrashCauses`: what can end the process does so for one
of the three causes, and the timing maps are damaged only in `Stamp`, by two
workers and while a label is missing (`StampStep`). Flows
are only ever added (`FlowsGrow`), which makes a worker's knowledge stable under
the steps of the others; `WorkersStep` has one lemma per worker action.

Two more invariants stand on it. `OnceInv` says where packets are: only a thread at
work holds one, the main thread's is the newest, a worker's packets (hand, then
queue) have increasing ids, two workers have none in common, and a packet under way
is neither sent nor given up. `StepMoves` reduces all actions to four moves of
packets (one arrives, is queued, stays, leaves), and each move keeps `OnceInv`;
`PacketsConserved` counts the places it leaves for an id. `HomeInv` says where packets
belong in proper traffic: a flow was opened by one client connection and is
claimed, if at all, by the worker that connection's ports choose (`FlowsAtHome`);
each client packet is with that worker; and a server's packet, which exists only
because the flow was claimed before anything was sent (`SentFromFlows`), is with the
claimer. With shared client ports `FlowsAtHome` fails at once: two connections, two
homes, one flow. `SendingOldest` combines the two (an older packet of the connection
would be in front of the sender's in the same queue), and gives order and the guards
of `Forward` and `Answer`. The refinement takes the range of `map64_` for `bind` and
the packets under way for `inbox`: an arrival is `Accept`, a new mapping `Bind` (its
port is fresh by `PoolIsRest`), a leaving packet `Forward`, `Answer` or `Discard`,
and everything else no step.

`FlowModifyProofs` proves for every set of payloads, `MSS` and number of packets,
from `FlowAssumption` and `PayloadAssumption` (operations lie within their packet
and leave it a length):

* `OneStream`: `StreamGapless` of run `offsets`;
* `AcksStayBehind`: `AckNeverAhead` of run `offsets`;
* `RangesReplaced`: `SplicedExactly` of run `splice`, for messages of any length and
  any number of operations;
* `FlowTypes`: `FMTypeOK`.

The inductive invariant `FMInv` adds to `StreamGapless`: the numbers' types
(`OutOK`); that a packet still ends where the present offset puts its end as long
as none after it was modified, and starts where the offset puts its start if it
was not modified either (`Steady`: the packet that comes next is placed by the
present offset, so that it meets a neighbour that came before it, on either
side); and that the offset, while no packet shrinks, is at least what it was for
any packet sent so far (`OffsetCovers`: an acknowledgement is translated with the
present offset). `OneStream` needs no order of arrival: `MeddlingLast` says what the
absence of a modification means for the newest packet and one before it. A step
is reduced to what it does to the numbers (`Numbers`, `ArriveNumbers`), for which
only the length of the loop's result is needed.

What the loop writes is the subject of `RangesReplaced`. Loop and reference are
recursive functions over the sorted operations and the bytes written; a recursive
function is a `CHOOSE`, so that one shows first that there is such a function
(`Recursion`) and then argues about it by the least counterexample in a set of
numbers (`UpTo`, from `WFMin` of the library). With that, an invariant of the
iterations can be stated like one of a state machine: how many operations are
done, where the source stands, and that what is written is the beginning of the
replacement. The same two lemmas serve the folds of `Grammar` and `Packet` (each
proof module has its own copy).

`PacketProofs` proves for every payload, base and header length, from
`BaseAssumption` and `TrafficAssumption`:

* `LengthsAlwaysAgree`: `LengthsAgree` of run `segment`. Its invariant follows the
  length through the places that hold it, from `unpack` to the socket.
* `PacketTypes`: `PktTypeOK`.
* `ChecksumVerifies`: `ReceiverVerifies`, if `B >= 4` (it is 256 in the code). The
  hypothesis is what makes the 32-bit sum safe: the loop keeps it in the lower half
  of its range, and the upper half has room for the few words added afterwards,
  where nothing folds (`Room`, `FewWords`).

The argument for the checksum counts modulo `W16 - 1` (`Cong`). A fold changes
nothing there (`CarryFacts`), and neither do the folds that end in a word
(`CarriedFacts`); a word in the other byte order is `B` times the word (`SwapFacts`).
Hence the receiver's sum of any bytes is `B` times the gateway's (`Residue`: loop,
odd byte, addresses, protocol and length, one lemma each), and a checksum field
counts as what it holds (`CheckField`). The complement the gateway puts there makes
the receiver's sum a multiple (`FieldVerifies`). `ValueInv` carries this through the
steps: between `finish` and the socket the field is the checksum of the rest
(`Filled`), and what the kernel adds is not summed.

`GrammarProofs` proves for all lengths of addresses and ports, given and mapped, and
messages of any length:

* `OpsAlwaysFit`: `OpsFit` of run `messages`, if a `c=` line has one `m=` line at most
  (`MaxMedia <= 1`). Operations on tokens just read are
  beyond all others; the two that come late, on the address of a `c=` line and on
  Content-Length, need the invariant `GrInv`: a token kept for later has been read,
  no operation touches it, and the two kept tokens are apart (`Good`). An address
  that an `m=` line has used is no longer kept (`Address`), which is where the
  hypothesis is needed.
* `ContentLengthGrowsWithBody`: `ContentLengthRight` of the same run, under the same
  hypothesis. `BodyInv` says of each operation on which side of the empty line it
  is: none before it counts (`Unmarked`), and after it an operation counts exactly
  if its place is in the body (`Marked`). `totalDelta` adds in the order of finding
  and the reference over a set; both are shown to be one sum (`TotalDeltaIs`,
  `GrowthIsTotal`).
* `OnlyLinksChanged`: `LinksFound` of run `messages`, without hypothesis. `PageInv`
  adds that, until what was not begun is ended, `ignore` counts the script and
  text area we are in and `curTag` is one of them there: `beginTag` then sees no
  tag inside them, and sees every tag outside.

`CommunicatorProofs` proves for any number of packets, all sizes, ends and counts
of operations:

* `CommTypes`, `HandOffHolds`, `DeletedOnlyQuitsHolds`: the invariants of run
  `communicator`;
* `CommImplementsSession`: the refinement of `ParserSession`.

The inductive invariant `CommInv` is the table of the handshake: for each point of
the father, where the child of the parser in use can be and what each pipe holds
(`Turn`), which contents it has been given and whether operations are left from
before (`Contents`); and that every earlier parser's child has left its grammar
for good (`Left`). At most one side is ever between its pipe calls, so each
property is a look at the table. For the refinement, the father's receiving an
answer is the step of the service: `Collect` maps to the abstract return, a
parser that nothing was given to yet is none (`Unused`), all else stutters.

`DoAppProofs` proves for any number of workers, connections, messages and
protocols, from `AppAssumption` and `ContentsAssumption`:

* `OthersAlwaysUnharmed`, `AppTypes`: `OthersUnharmed` and `AppTypeOK` of run
  `application`, without hypothesis;
* `CommandsAlwaysParsed`: `CommandsParsed`, under `DataPortsApart`;
* `ProtocolsStay`: `ProtocolStable`, under `WorkersApart`;
* `AnnouncedAlwaysReachable`: `AnnouncedReachable`, under `PairsApart`.

Two invariants. `AppBase` is about the tables while a mapping is under way: every
port is in the pool, with a flow, or in the hands of the worker that holds
`smutex` (`PortsWith`), and the tables are inverse to the flows' keys for the flows
that are not torn; what `holder` has read so far is as its position says
(`HolderInv`). `AppMore` is what workers rely on between steps, conjunct by conjunct
under the hypothesis it needs: which flow a worker has in hand (`Placed`), that a
protocol once known is what the worker knows (`Settled`), and that a pair's key
leads to the flow made for it (`PairTables`, `Paired`, with `Found` for a look-up by
port). `RestIsConserved` of `StateManagerProofs` is used for the pool.

`AnalysisProofs` proves for any frames, any number of them and of files, and any
limit, from `AnalysisAssumption`:

* `FlowPerConnectionHolds`, `FlowsCountedHolds`, `ServicesCountedHolds` and
  `AnalysisTypes`: the invariants of run `analysis`. The conditions of the
  properties (`FreshFile`, `OneService`) are conditions on what was read, not
  hypotheses of the theorems.

`FlowInv` ties the three things kept of a connection: one that was seen in any
file has one key in `map44_`, between its two ends, with a flow of its own
(`Connected`), so that `doMapping44` finds it from either direction and makes
nothing new; and both counts of flows grow with the new ones (`Counted`).
`ServiceInv` adds the flow's `analyze` field, which is all the program remembers
of its frames: it tells the services these told (`MarksTell`), and each counter is
the number of flows with the marks it stands for (`MarksCounted`). `TellsFacts`
replaces the chain of tests in `analyze` by its result. The proof found a bound
that the runs' frames could not: a frame from port 80 to 8080 counts twice for
http (`main.cc:204-226`), so that `http` may exceed the number of flows, and of
frames.

Only model-checked: liveness (`EveryPacketHandled`, `ProcessReturns`,
`PacketsFinish`), which is outside the prover's reach. Every safety invariant, action
property and refinement of the passing runs is stated by a theorem. The two runs
that end in a violation show their findings by TLC's counterexamples.

## 5. Not modelled, and why

* `shift` and `doExtraTCP`: need a value of `sm.extra` that `main` never sets.
* Offsets in the direction to the client (the HTTP parser's): the code is the
  same with the other index. A stateful HTTP parser counts positions from its
  first packet, not from each packet; `FlowModify` has stateless parsers only.
* The registry `mp_`, which all parser threads and workers use without a lock,
  and the descriptors that ended parsers leave open: any outcome is possible
  there, so that nothing could be claimed; listed as hazards.
* `count` and `save`: they only record. Of `count1` and `count2` the times are left
  out; that their maps are inserted into without a lock is in `Tun`, and left out
  of `DoApp`, whose own two labels (`nat.cc:282-330`) would add to it.
* `nfqueue`: not reachable in this build; a wrapper of an external library.
* Generated scanners and parsers (`flexc++`, `bisonc++`), reading of the
  configuration, string conversions, scripts, test drivers.

## 6. Plan

Done in this order: `Addr`, `StateManager`, its proofs, `Tun` with
`Nat64Service`, `StatefulCommunicator` with `ParserSession`, `TunProofs`,
`FlowModify`, `Analysis`, `FlowModifyProofs`, `Packet` with its proof, `DoApp`,
`Grammar` with its proofs, `CommunicatorProofs`, `DoAppProofs`, `AnalysisProofs`. To
do, most important first:

1. `FlowModify` for the stateful HTTP parser: positions in the stream, a parser
   that is replaced in mid-stream, `init_seq` fixed by the first modified packet.
2. The descriptors of several flows' communicators.
