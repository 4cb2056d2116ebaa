------------------------------ MODULE MCServices ------------------------------
(***************************************************************************)
(* What a server admits and a Session carries, side by side: the           *)
(* admission of connections, the datagrams and the flows of the native UDP *)
(* path, the pool of Streams with the product services, UDP over TCP, and  *)
(* the pages of a Stream that is read while its data comes.                *)
(* They share no state, so one run checks the six side by side: "part"     *)
(* says which of them a behaviour is of, and the others keep their initial *)
(* states.                                                                 *)
(***************************************************************************)
EXTENDS Integers, FiniteSets

CONSTANTS
  Sessions, Apps, UdpFlowsMax, UdpMaxFlows, MaxPeers, MaxSockets, UdpMaxDatagrams,
  Requests, PoolSize, MaxUOTFlows, MaxStreams, MaxFailures,
  Addresses, UotFlowsMax, QueuePackets, QueueBytes, Costs, UotMaxFlows, MaxPackets,
  Paths, Window, PathLimit, MaxFragments, AssemblyLimit, MaxDatagrams, MaxProbes,
  Conns, Sources, SessionIds, GlobalLimit, SourceLimit, SourceMax, Burst, Rate, Old, MaxSessions,
  MaxTicks,
  Handlers, Frames, Total, PageSize, MaxPages, ReadSizes

(* A bucket that has been idle for so long that it may be forgotten is     *)
(* full (a minute of handshakeRate is more than handshakeBurst).           *)
ASSUME AdmissionAssumption ==
  /\ IsFiniteSet(Conns) /\ IsFiniteSet(Sources) /\ IsFiniteSet(SessionIds)
  /\ {GlobalLimit, SourceLimit, SourceMax, MaxSessions, Burst, Rate, Old, MaxTicks} \subseteq Nat
  /\ Burst <= Rate * (Old + 1)

ASSUME FlowsAssumption == {UdpFlowsMax, UdpMaxFlows, MaxPeers, MaxSockets, UdpMaxDatagrams} \subseteq Nat

ASSUME DatagramsAssumption ==
  Window \in Nat \ {0} /\ {MaxFragments, AssemblyLimit, MaxDatagrams} \subseteq Nat

ASSUME PoolAssumption == {PoolSize, MaxUOTFlows, MaxStreams, MaxFailures} \subseteq Nat

ASSUME UotAssumption == Costs \subseteq Nat /\ {QueueBytes, UotMaxFlows} \subseteq Nat

(* The DATA of a Stream is cut into frames that do not overlap.            *)
ASSUME ReceiveAssumption ==
  /\ {Total, MaxPages} \subseteq Nat /\ ReadSizes \subseteq Nat
  /\ Frames \subseteq SUBSET (0..(Total - 1))
  /\ \A f, g \in Frames : f # g => f \cap g = {}

VARIABLES
  part,
  client, flows, nextFlow, up, down, budget, live, stopped, peers, entries, flowCount, sockets,
  reader, made, late, answered,
  pool, opening, openers, opened, open, age, ended, call, asked, answer, handler, uotActive, next,
  failures,
  uotFlows, flow, queue, writing, queuedBytes, uotStopped, packets,
  sent, replay, completed, assemblies, held, pending, outstanding, seen, nextID, sizes, handled,
  again, delivered, confirmed, probes,
  conn, sources, registry, sessions, closing, doomed, ticks, accepted,
  flight, recvHandler, present, pages, allocated, buffered, rxHigh, rxContiguous, rxRead, rxFIN,
  rxStopped, closed, over, appReader, wake, told

udpVars == <<client, flows, nextFlow, up, down, budget, live, stopped, peers, entries, flowCount,
             sockets, reader, made, late, answered>>
serviceVars == <<pool, opening, openers, opened, open, age, ended, call, asked, answer, handler,
                 uotActive, next, failures>>
uotVars == <<uotFlows, flow, queue, writing, queuedBytes, uotStopped, packets>>
datagramVars == <<sent, replay, completed, assemblies, held, pending, outstanding, seen, nextID,
                  sizes, handled, again, delivered, confirmed, probes>>
admissionVars == <<conn, sources, registry, sessions, closing, doomed, ticks, accepted>>
receiveVars == <<flight, recvHandler, present, pages, allocated, buffered, rxHigh, rxContiguous,
                 rxRead, rxFIN, rxStopped, closed, over, appReader, wake, told>>
vars == <<part, udpVars, serviceVars, uotVars, datagramVars, admissionVars, receiveVars>>

Udp == INSTANCE UdpFlows WITH
  FlowsMax <- UdpFlowsMax, MaxFlows <- UdpMaxFlows, MaxDatagrams <- UdpMaxDatagrams
Product == INSTANCE ProductServices
Uot == INSTANCE UotClient WITH
  FlowsMax <- UotFlowsMax, MaxFlows <- UotMaxFlows, flows <- uotFlows, stopped <- uotStopped
Packets == INSTANCE Datagrams
Server == INSTANCE Admission WITH live <- sessions
Receive == INSTANCE ReceivePath WITH
  handler <- recvHandler, stopped <- rxStopped, reader <- appReader

Init ==
  /\ part \in {"udp", "product", "uot", "packets", "server", "receive"}
  /\ Udp!Init /\ Product!Init /\ Uot!Init /\ Packets!Init /\ Server!Init
  /\ Receive!Init

OfUdp ==
  part = "udp" /\ UNCHANGED <<part, serviceVars, uotVars, datagramVars, admissionVars, receiveVars>>
OfProduct ==
  part = "product" /\ UNCHANGED <<part, udpVars, uotVars, datagramVars, admissionVars, receiveVars>>
OfUot ==
  part = "uot" /\ UNCHANGED <<part, udpVars, serviceVars, datagramVars, admissionVars, receiveVars>>
OfPackets ==
  part = "packets" /\ UNCHANGED <<part, udpVars, serviceVars, uotVars, admissionVars, receiveVars>>
OfServer ==
  part = "server" /\ UNCHANGED <<part, udpVars, serviceVars, uotVars, datagramVars, receiveVars>>
OfReceive ==
  part = "receive" /\ UNCHANGED <<part, udpVars, serviceVars, uotVars, datagramVars, admissionVars>>

Next ==
  \/ OfUdp /\ Udp!Next
  \/ OfProduct /\ Product!Next
  \/ OfUot /\ Uot!Next
  \/ OfPackets /\ Packets!Next
  \/ OfServer /\ Server!Next
  \/ OfReceive /\ Receive!Next

(* The fairness of each module, in the behaviours of its part.             *)
Fairness ==
  \/ part = "udp" /\ Udp!Fairness
  \/ part = "product" /\ Product!Fairness
  \/ part = "uot" /\ Uot!Fairness
  \/ part \in {"packets", "server", "receive"}

Spec == Init /\ [][Next]_vars /\ Fairness

-----------------------------------------------------------------------------

(* UdpFlows: the count of flows is the number of flows there are, every    *)
(* open socket is one that expire and stop will find, a Session that lives *)
(* keeps its peer, and a reply goes to the application that asked.         *)
FlowsAgree ==
  Udp!TypeOK /\ Udp!CountAgrees /\ Udp!NoStray /\ Udp!PeerOnce /\ Udp!RepliesReturn

(* ProductServices: there are never more spare Streams than the pool is    *)
(* for, a Stream is used once and never forgotten open, and the UoT slots  *)
(* taken are those of running handlers; and a request gets the service it  *)
(* asked for, whichever Stream it was given.                               *)
PoolAgrees ==
  /\ Product!TypeOK /\ Product!PoolBounded /\ Product!OneOwner
  /\ Product!SlotsAgree /\ Product!ServedAsAsked

(* UotClient: the queued bytes are those in queues and in writes, and an   *)
(* address has one flow, which has a reader of its queue.  ReceivePath:    *)
(* what is offered to the reader of a Stream is there when it is copied    *)
(* and when it is consumed, the pages and counts agree with the bytes that *)
(* are there, and no reader sleeps over what it waits for.                 *)
QueuesAgree ==
  /\ Uot!TypeOK /\ Uot!BytesAgree /\ Uot!OneFlow
  /\ Receive!TypeOK /\ Receive!NothingMissing /\ Receive!PagesAgree
  /\ Receive!OffersAreThere /\ Receive!NoReaderForgotten

(* Datagrams: a packet is handled once and a datagram delivered once, a    *)
(* receipt is of a datagram that was delivered, a path is charged for what *)
(* is outstanding on it, and the bytes held are those of the incomplete    *)
(* datagrams.                                                              *)
DatagramsAgree ==
  /\ Packets!TypeOK /\ Packets!HandledOnce /\ Packets!ReceiptsTrue
  /\ Packets!ChargesAgree /\ Packets!AssemblyAgrees

(* Admission: the slots taken are those of the handshakes under way, a     *)
(* source is admitted no faster than its bucket allows, an identity has    *)
(* one Session within their limit, and Close leaves nothing of the server. *)
AdmissionAgrees ==
  /\ Server!TypeOK /\ Server!SlotsAgree /\ Server!RateHolds
  /\ Server!OneSession /\ Server!CloseIsComplete

(* What is over ends: the goroutines of a Session that is done (UdpFlows)  *)
(* and a flow that is cancelled (UotClient); and what was reserved for the *)
(* pool comes back, so that it fills up again (ProductServices).           *)
ComesBack ==
  /\ part = "udp" => Udp!Drains
  /\ part = "product" => Product!PoolFills
  /\ part = "uot" => Uot!FlowsEnd
=============================================================================
