----------------------------- MODULE UotClient -----------------------------
(***************************************************************************)
(* UDP over TCP at the client (uot.go): one goroutine reads the local      *)
(* socket and queues each datagram with the flow of its address; a flow    *)
(* opens a product Stream, writes its queue to it, and a second goroutine  *)
(* reads the replies; the monitor cancels idle flows.  At the other end of *)
(* a Stream stands serveUOTBackend.                                        *)
(***************************************************************************)
EXTENDS Integers, Sequences, FiniteSets

CONSTANTS
  Addresses,
  FlowsMax,      \* udpFlowsMax
  QueuePackets,  \* uotQueuePackets, of a flow
  QueueBytes,    \* uotQueueBytes, of all flows
  Costs,         \* lengths of datagrams with their framing
  MaxFlows,      \* bound: flows made
  MaxPackets     \* bound: datagrams read

VARIABLES
  flows,        \* per address, its flow, or 0
  flow,         \* flows made: where its two goroutines stand
  queue,        \* per flow, the costs of the datagrams in its channel
  writing,      \* per flow, the cost of the datagram being written, or 0
  queuedBytes,
  stopped,
  packets

uotVars == <<flows, flow, queue, writing, queuedBytes, stopped, packets>>

Made == DOMAIN flow
Flows == 1..MaxFlows
Idle == [address |-> "none", cancelled |-> FALSE, at |-> "none", reading |-> FALSE, stream |-> "none"]
Size == Cardinality({a \in Addresses : flows[a] # 0})

Init ==
  /\ flows = [a \in Addresses |-> 0] /\ flow = <<>>
  /\ queue = [f \in Flows |-> <<>>] /\ writing = [f \in Flows |-> 0]
  /\ queuedBytes = 0 /\ stopped = FALSE /\ packets = 0

-----------------------------------------------------------------------------
(* enqueue, under UOTClient.mu.                                            *)

(* Mutant: the limit is tested before the framing is added.                *)
FitsLoose(cost) == queuedBytes < QueueBytes
Fits(cost) == cost <= QueueBytes - queuedBytes

Queues(f, cost) ==
  /\ queue' = [queue EXCEPT ![f] = Append(@, cost)]
  /\ queuedBytes' = queuedBytes + cost

(* A datagram without room, or for a flow that is ending, is dropped.      *)
Enqueue(a, cost) ==
  LET f == flows[a]
  IN /\ ~stopped /\ packets < MaxPackets /\ packets' = packets + 1
     /\ Fits(cost)
     /\ IF f = 0
        THEN /\ Size < FlowsMax /\ Len(flow) < MaxFlows
             /\ flows' = [flows EXCEPT ![a] = Len(flow) + 1]
             /\ flow' = Append(flow, [Idle EXCEPT !.address = a, !.at = "opening"])
             /\ Queues(Len(flow) + 1, cost)
        ELSE /\ ~flow[f].cancelled /\ Len(queue[f]) < QueuePackets
             /\ Queues(f, cost) /\ UNCHANGED <<flows, flow>>
     /\ UNCHANGED <<writing, stopped>>

-----------------------------------------------------------------------------
(* runFlow.                                                                *)

(* openProductService, which may fail, and fails when cancelled.           *)
Opened(f) ==
  /\ flow[f].at = "opening"
  /\ \/ /\ ~flow[f].cancelled
        /\ flow' = [flow EXCEPT ![f].at = "ready", ![f].reading = TRUE, ![f].stream = "open"]
     \/ flow' = [flow EXCEPT ![f].at = "leaving", ![f].cancelled = TRUE]
  /\ UNCHANGED <<flows, queue, writing, queuedBytes, stopped, packets>>

(* The select takes either branch when both are ready.                     *)
Next1(f) ==
  /\ flow[f].at = "ready" /\ queue[f] # <<>>
  /\ writing' = [writing EXCEPT ![f] = Head(queue[f])] /\ queue' = [queue EXCEPT ![f] = Tail(@)]
  /\ flow' = [flow EXCEPT ![f].at = "writing"]
  /\ UNCHANGED <<flows, queuedBytes, stopped, packets>>

(* Mutant: only what was sent is taken off the account.                    *)
SettledIfSent(f, sent) == IF sent THEN queuedBytes - writing[f] ELSE queuedBytes
Settled(f, sent) == queuedBytes - writing[f]

Written(f) ==
  /\ flow[f].at = "writing"
  /\ \E sent \in BOOLEAN :
       /\ sent => flow[f].stream = "open"
       /\ queuedBytes' = Settled(f, sent)
       /\ flow' = [flow EXCEPT ![f].at = IF sent THEN "ready" ELSE "leaving", ![f].cancelled = @ \/ ~sent]
  /\ writing' = [writing EXCEPT ![f] = 0]
  /\ UNCHANGED <<flows, queue, stopped, packets>>

(* flow.cancel closes the Stream by context.AfterFunc.                     *)
Cancelled(f) ==
  /\ flow[f].at = "ready" /\ flow[f].cancelled
  /\ flow' = [flow EXCEPT ![f].at = "leaving"]
  /\ UNCHANGED <<flows, queue, writing, queuedBytes, stopped, packets>>

AfterCancel(f) ==
  /\ flow[f].cancelled /\ flow[f].stream = "open"
  /\ flow' = [flow EXCEPT ![f].stream = "closed"]
  /\ UNCHANGED <<flows, queue, writing, queuedBytes, stopped, packets>>

(* Mutant: the end of the replies is kept to itself.                       *)
ReaderEndsQuietly(f) ==
  /\ flow[f].reading /\ flow[f].stream = "closed"
  /\ flow' = [flow EXCEPT ![f].reading = FALSE]
  /\ UNCHANGED <<flows, queue, writing, queuedBytes, stopped, packets>>

(* The goroutine that reads the replies; its end cancels the flow.         *)
ReaderEnds(f) ==
  /\ flow[f].reading /\ flow[f].stream = "closed"
  /\ flow' = [flow EXCEPT ![f].reading = FALSE, ![f].cancelled = TRUE]
  /\ UNCHANGED <<flows, queue, writing, queuedBytes, stopped, packets>>

(* The bytes of a queue: those of each datagram, by its place.             *)
Bytes(q) == UNION {{i} \X (1..q[i]) : i \in DOMAIN q}

(* The deferred end: the flow leaves the table and its queue is emptied.   *)
Leave(f) ==
  /\ flow[f].at = "leaving" /\ ~flow[f].reading
  /\ flow' = [flow EXCEPT ![f].at = "ended", ![f].cancelled = TRUE]
  /\ flows' = [flows EXCEPT ![flow[f].address] = 0]
  /\ queue' = [queue EXCEPT ![f] = <<>>]
  /\ queuedBytes' = queuedBytes - Cardinality(Bytes(queue[f]))
  /\ UNCHANGED <<writing, stopped, packets>>

-----------------------------------------------------------------------------
(* serveUOTBackend, the network, the monitor and stop.                     *)

(* The Stream is closed from the other end: idle, an error, the Session.   *)
StreamCloses(f) ==
  /\ flow[f].stream = "open" /\ flow' = [flow EXCEPT ![f].stream = "closed"]
  /\ UNCHANGED <<flows, queue, writing, queuedBytes, stopped, packets>>

(* Mutant: the idle flow leaves the table at once, like a native one.      *)
ExpiresNow(a) ==
  /\ flow' = [flow EXCEPT ![flows[a]].cancelled = TRUE] /\ flows' = [flows EXCEPT ![a] = 0]
Expires(a) ==
  /\ flow' = [flow EXCEPT ![flows[a]].cancelled = TRUE] /\ UNCHANGED flows

Expire(a) ==
  /\ flows[a] # 0 /\ ~flow[flows[a]].cancelled /\ Expires(a)
  /\ UNCHANGED <<queue, writing, queuedBytes, stopped, packets>>

(* The contexts of the flows are children of the client's.                 *)
Stop ==
  /\ ~stopped /\ stopped' = TRUE
  /\ flow' = [f \in Made |-> [flow[f] EXCEPT !.cancelled = TRUE]]
  /\ UNCHANGED <<flows, queue, writing, queuedBytes, packets>>

FlowStep(f) == Opened(f) \/ Next1(f) \/ Written(f) \/ Cancelled(f) \/ Leave(f)
ReaderStep(f) == AfterCancel(f) \/ ReaderEnds(f)

Next ==
  \/ \E a \in Addresses : (\E cost \in Costs : Enqueue(a, cost)) \/ Expire(a)
  \/ \E f \in Made : FlowStep(f) \/ ReaderStep(f) \/ StreamCloses(f)
  \/ Stop

Fairness ==
  \A f \in Flows : /\ WF_uotVars(f \in Made /\ FlowStep(f))
                   /\ WF_uotVars(f \in Made /\ ReaderStep(f))

UotSpec == Init /\ [][Next]_uotVars /\ Fairness

-----------------------------------------------------------------------------

TypeOK ==
  /\ flows \in [Addresses -> 0..MaxFlows]
  /\ \A f \in Made : flow[f].at \in {"opening", "ready", "writing", "leaving", "ended"}
  /\ queue \in [Flows -> Seq(Costs)] /\ writing \in [Flows -> Costs \cup {0}]

(* What is being written comes before what is queued.                      *)
Held(f) == Bytes(queue[f]) \cup ({0} \X (1..writing[f]))

(* The bytes that count against the limit are those in queues and in a     *)
(* write, through every way a flow can end, and the limit holds.           *)
BytesAgree ==
  queuedBytes = Cardinality(UNION {{f} \X Held(f) : f \in Flows}) /\ queuedBytes <= QueueBytes

(* A flow stays in the table until both its goroutines are through, so an  *)
(* address never has two Streams, and nothing is queued where nobody reads.*)
OneFlow ==
  /\ \A f \in Made : flow[f].at # "ended" => flows[flow[f].address] = f
  /\ \A f \in Flows : queue[f] # <<>> => f \in Made /\ flow[f].at # "ended"

(* A flow that is cancelled, or whose Stream is closed, ends, and Close,   *)
(* which waits for all of them, returns.                                   *)
FlowsEnd ==
  \A f \in Flows :
    (IF f \in Made THEN flow[f].cancelled \/ flow[f].stream = "closed" ELSE FALSE)
      ~> (IF f \in Made THEN flow[f].at = "ended" /\ ~flow[f].reading ELSE FALSE)
=============================================================================
