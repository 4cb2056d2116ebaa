---------------------------- MODULE Transmission ----------------------------
(***************************************************************************)
(* One direction of the Session-wide reliable Transmission layer of MPX/4  *)
(* (macos/engine/multipath/session.go, controlplane.go): the endpoint that *)
(* allocates Transmission IDs (the sender: pending, ready, settled) and    *)
(* the endpoint that handles them (the receiver: fingerprints, processed,  *)
(* confirmation replay), joined by Carriers that fail and come back.  The  *)
(* other direction is an independent copy of the same state.               *)
(*                                                                         *)
(* A Transmission is identified by its ID; KindOf says which frame it is:  *)
(*   "OPEN"  STREAM_OPEN, confirmed later, when the backend accepts;       *)
(*   "DATA"  STREAM_DATA, handled in two critical sections of Session.mu;  *)
(*   "CTRL"  FIN, RESET_STREAM, STOP_SENDING, STREAM_CONSUMED, handled and *)
(*           confirmed in one critical section.                            *)
(*                                                                         *)
(* Every Carrier has three lanes: flight (attempts), retires (the          *)
(* TRANSMISSION_RETIRE controls) and acks (confirmations).  A lane is the  *)
(* Go control or data channel followed by the TCP connection: each is      *)
(* FIFO, and the two forward lanes interleave as writeCarrier may          *)
(* alternate them.  A lane is read only while its reader holds the Carrier *)
(* active; what it still holds when the connection is gone is lost.        *)
(***************************************************************************)
EXTENDS Integers, Sequences, FiniteSets

CONSTANTS
  Carriers,        \* Carrier IDs of the Session
  NoCarrier,       \* outbound.path == nil, and the nil carrier of controlLocked
  NoTx,            \* a carrier reader that is between frames
  MaxTx,           \* bound: Transmission IDs that may be allocated
  KindOf,          \* the frame kind of each Transmission ID
  Expirable,       \* Transmissions that may stay unconfirmed for 30 seconds
  MaxDataPending,  \* DATA the pending table admits (flowcontrol.go)
  MaxCtlPending,   \* other kinds the pending table admits (flowcontrol.go)
  CarrierQueue,    \* capacity of a Carrier's sendTask queue
  ControlQueue,    \* capacity of a Carrier's control lane
  MaxFailures,     \* bound: connections that break
  MaxAttempts      \* bound: generations an RTO may race an answer under way

Ids == 1..MaxTx
Kinds == {"OPEN", "DATA", "CTRL"}

ASSUME TxAssumption ==
  /\ MaxTx \in Nat
  /\ NoCarrier \notin Carriers
  /\ NoTx \notin Ids
  /\ KindOf \in [Ids -> Kinds]
  /\ Expirable \subseteq Ids

VARIABLES
  nextPacket,      \* the last allocated Transmission ID
  pending,         \* IDs in Session.pending
  path,            \* outbound.path
  gen,             \* outbound.generation
  sent,            \* ~outbound.sentAt.IsZero()
  ready,           \* IDs linked in a ready ring or in controlReady
  queue,           \* per Carrier, the sendTasks its writer has not taken
  settled,         \* IDs settled above the contiguous watermark
  settledThrough,  \* the contiguous settled watermark
  lastRetire,      \* lastRetireAdvertised
  up,              \* the sender holds the Carrier active
  peerUp,          \* the receiver holds the Carrier active
  flight,          \* per Carrier, attempts on their way
  retires,         \* per Carrier, RETIRE watermarks on their way
  acks,            \* per Carrier, confirmations on their way
  fingerprint,     \* IDs in peerTransmissionFingerprint
  replay,          \* IDs in confirmationReplay
  processed,       \* IDs in peerProcessed
  processedThrough,\* peerProcessedThrough
  peerRetired,     \* peerRetiredThrough
  reading,         \* per Carrier, the DATA its reader is publishing
  orphans,         \* DATA that readers of dead Carriers are publishing
  seen,            \* OPENs whose Stream the receiver has created
  opening,         \* OPENs whose backend has not answered
  failed,          \* one endpoint raised a Transmission ID failure
  failures         \* connections broken so far

senderVars  == <<nextPacket, pending, path, gen, sent, ready, queue,
                 settled, settledThrough, lastRetire>>
handledVars == <<fingerprint, replay, processed, processedThrough, peerRetired>>
readerVars  == <<reading, orphans, seen, opening>>
recvVars    == <<handledVars, readerVars>>
netVars     == <<up, peerUp, flight, retires, acks, failures>>
vars        == <<senderVars, recvVars, netVars, failed>>

-----------------------------------------------------------------------------
SettledIds == (1..settledThrough) \cup settled
AppliedIds == (1..processedThrough) \cup processed
Active == {c \in Carriers : up[c]}
OfKind(K) == {id \in pending : KindOf[id] \in K}

(* Mutant of EndsRun: the highest ID instead of the end of the run.        *)
EndsAtHighest(w, S, n) == n >= w /\ n \in S \cup {w} /\ \A k \in S : k <= n

(* The end of the contiguous run of S that starts at w: the loop of        *)
(* markSettledLocked and markPeerProcessedLocked.                          *)
EndsRun(w, S, n) == n >= w /\ (\A k \in (w + 1)..n : k \in S) /\ n + 1 \notin S

Init ==
  /\ nextPacket = 0 /\ pending = {} /\ ready = {}
  /\ path = [id \in Ids |-> NoCarrier]
  /\ gen = [id \in Ids |-> 0]
  /\ sent = [id \in Ids |-> FALSE]
  /\ queue = [c \in Carriers |-> {}]
  /\ settled = {} /\ settledThrough = 0 /\ lastRetire = 0
  /\ up = [c \in Carriers |-> FALSE]
  /\ peerUp = [c \in Carriers |-> FALSE]
  /\ flight = [c \in Carriers |-> <<>>]
  /\ retires = [c \in Carriers |-> <<>>]
  /\ acks = [c \in Carriers |-> <<>>]
  /\ fingerprint = {} /\ replay = {} /\ processed = {}
  /\ processedThrough = 0 /\ peerRetired = 0
  /\ reading = [c \in Carriers |-> NoTx]
  /\ orphans = {} /\ seen = {} /\ opening = {}
  /\ failed = FALSE /\ failures = 0

-----------------------------------------------------------------------------
(* The sender.                                                             *)

(* openWithAdmission and Write wait for an active Carrier; termination     *)
(* controls are queued at any time.  queueLocked refuses past its limits.  *)
Allocate ==
  LET id == nextPacket + 1 IN
  /\ id \in Ids
  /\ KindOf[id] # "CTRL" => Active # {}
  /\ IF KindOf[id] = "DATA" THEN Cardinality(OfKind({"DATA"})) < MaxDataPending
     ELSE Cardinality(OfKind({"OPEN", "CTRL"})) < MaxCtlPending
  /\ nextPacket' = id
  /\ pending' = pending \cup {id}
  /\ ready' = ready \cup {id}
  /\ UNCHANGED <<path, gen, sent, queue, settled, settledThrough, lastRetire,
                 recvVars, netVars, failed>>

(* dispatchLocked, dispatchControlsLocked: bind a ready Transmission to a  *)
(* Carrier.  The bump of the generation makes every older task stale.      *)
Dispatch(id, c) ==
  /\ id \in ready /\ up[c] /\ Cardinality(queue[c]) < CarrierQueue
  /\ ready' = ready \ {id}
  /\ path' = [path EXCEPT ![id] = c]
  /\ gen' = [gen EXCEPT ![id] = @ + 1]
  /\ sent' = [sent EXCEPT ![id] = FALSE]
  /\ queue' = [queue EXCEPT ![c] = @ \cup {[id |-> id, gen |-> gen'[id]]}]
  /\ UNCHANGED <<nextPacket, pending, settled, settledThrough, lastRetire,
                 recvVars, netVars, failed>>

Current(c, t) == t.id \in pending /\ path[t.id] = c /\ gen[t.id] = t.gen

(* writeCarrier takes a task and writes it unless it went stale meanwhile. *)
WriteTask(c, t) ==
  /\ up[c] /\ t \in queue[c]
  /\ queue' = [queue EXCEPT ![c] = @ \ {t}]
  /\ sent' = IF Current(c, t) THEN [sent EXCEPT ![t.id] = TRUE] ELSE sent
  /\ flight' = IF Current(c, t) /\ peerUp[c]
               THEN [flight EXCEPT ![c] = Append(@, t.id)] ELSE flight
  /\ UNCHANGED <<nextPacket, pending, path, gen, ready, settled, settledThrough,
                 lastRetire, recvVars, up, peerUp, retires, acks, failures, failed>>

(* An answer to id may still arrive, or one may still be dropped.  It is   *)
(* not code: it bounds the retransmissions of the model to MaxAttempts,    *)
(* except those without which the Transmission would be lost.              *)
UnderWay(id) ==
  \/ \E c \in Carriers : \E i \in DOMAIN flight[c] : flight[c][i] = id
  \/ \E c \in Carriers : up[c] /\ acks[c] # <<>>
  \/ \E c \in Carriers : reading[c] = id \/ (path[id] = c /\ ~peerUp[c])
  \/ id \in orphans \cup opening

(* sweepLocked: the retransmission timer of a written attempt fires.       *)
Retransmit(id) ==
  /\ id \in pending /\ path[id] # NoCarrier /\ sent[id]
  /\ gen[id] < MaxAttempts \/ ~UnderWay(id)
  /\ path' = [path EXCEPT ![id] = NoCarrier]
  /\ gen' = [gen EXCEPT ![id] = @ + 1]
  /\ sent' = [sent EXCEPT ![id] = FALSE]
  /\ ready' = ready \cup {id}
  /\ UNCHANGED <<nextPacket, pending, queue, settled, settledThrough, lastRetire,
                 recvVars, netVars, failed>>

(* Mutant of Expire: any pending Transmission may be removed.              *)
ExpireAny(id) ==
  /\ id \in pending
  /\ pending' = pending \ {id}
  /\ ready' = ready \ {id}
  /\ gen' = [gen EXCEPT ![id] = @ + 1]
  /\ UNCHANGED <<nextPacket, path, sent, queue, settled, settledThrough,
                 lastRetire, recvVars, netVars, failed>>

(* sweepLocked: 30 seconds after its creation a Transmission whose Stream  *)
(* is no longer in Session.streams is removed, unsettled.                  *)
Expire(id) ==
  /\ id \in pending \cap Expirable
  /\ pending' = pending \ {id}
  /\ ready' = ready \ {id}
  /\ gen' = [gen EXCEPT ![id] = @ + 1]
  /\ UNCHANGED <<nextPacket, path, sent, queue, settled, settledThrough,
                 lastRetire, recvVars, netVars, failed>>

(* advertiseTransmissionRetireLocked over the watermark and the Carriers   *)
(* the calling step leaves: controlLocked picks any Carrier with room.     *)
AdvertiseRetire(through, last, alive, reached, lanes) ==
  LET room == {c \in alive : Len(lanes[c]) < ControlQueue} IN
  IF through > last /\ room # {}
  THEN /\ lastRetire' = through
       /\ \E c \in room :
            retires' = IF reached[c] THEN [lanes EXCEPT ![c] = Append(@, through)]
                       ELSE lanes
  ELSE retires' = lanes /\ lastRetire' = last

(* ackLocked, and the matching OPEN_REJECT case of handleFrame.            *)
Settle(c) ==
  LET id == Head(acks[c]) IN
  /\ up[c] /\ acks[c] # <<>>
  /\ acks' = [acks EXCEPT ![c] = Tail(@)]
  /\ id \in pending
  /\ pending' = pending \ {id}
  /\ ready' = ready \ {id}
  /\ gen' = [gen EXCEPT ![id] = @ + 1]
  /\ \E n \in settledThrough..MaxTx :
       /\ EndsRun(settledThrough, settled \cup {id}, n)
       /\ settledThrough' = n
       /\ settled' = (settled \cup {id}) \ (settledThrough + 1)..n
       /\ AdvertiseRetire(n, lastRetire, Active, peerUp, retires)
  /\ UNCHANGED <<nextPacket, path, sent, queue, recvVars, up, peerUp, flight,
                 failures, failed>>

(* A confirmation without pending state is a duplicate of a settled one;   *)
(* any other is a Transmission ID failure, which closes the Session.       *)
AckUnmatched(c) ==
  LET id == Head(acks[c]) IN
  /\ up[c] /\ acks[c] # <<>> /\ id \notin pending
  /\ acks' = [acks EXCEPT ![c] = Tail(@)]
  /\ failed' = (id \notin SettledIds)
  /\ UNCHANGED <<senderVars, recvVars, up, peerUp, flight, retires, failures>>

-----------------------------------------------------------------------------
(* The receiver.                                                           *)

(* controlLocked for a confirmation: it keeps its Carrier while that is    *)
(* usable, else takes any other with room, else it is dropped.             *)
Routes(c) ==
  LET room == {d \in Carriers : peerUp[d] /\ Len(acks[d]) < ControlQueue} IN
  IF c \in room THEN {c} ELSE room

SendConfirmation(c, id) ==
  \/ \E d \in Routes(c) :
       acks' = IF up[d] THEN [acks EXCEPT ![d] = Append(@, id)] ELSE acks
  \/ Routes(c) = {} /\ acks' = acks

(* Mutant of Confirm: what was retired is remembered again.                *)
ConfirmRetired(c, id) ==
  /\ replay' = replay \cup {id}
  /\ SendConfirmation(c, id)

Confirm(c, id) ==
  /\ replay' = IF id > peerRetired THEN replay \cup {id} ELSE replay
  /\ SendConfirmation(c, id)

(* Mutants of MarkProcessed: the run is not followed to its end; what was  *)
(* retired is marked again.                                                *)
MarkNext(id) ==
  IF id <= peerRetired THEN UNCHANGED <<processed, processedThrough>>
  ELSE /\ processed' = processed \cup {id}
       /\ processedThrough' = IF id = processedThrough + 1 THEN id ELSE processedThrough

MarkRetired(id) ==
  /\ processed' = processed \cup {id}
  /\ \E n \in processedThrough..MaxTx :
       /\ EndsRun(processedThrough, processed \cup {id}, n)
       /\ processedThrough' = n

(* markPeerProcessedLocked.                                                *)
MarkProcessed(id) ==
  IF id <= peerRetired THEN UNCHANGED <<processed, processedThrough>>
  ELSE /\ processed' = processed \cup {id}
       /\ \E n \in processedThrough..MaxTx :
            /\ EndsRun(processedThrough, processed \cup {id}, n)
            /\ processedThrough' = n

(* readCarrier hands the next attempt on c to peerAttemptLocked.           *)
Arrives(c, id) ==
  /\ peerUp[c] /\ reading[c] = NoTx /\ flight[c] # <<>>
  /\ id = Head(flight[c])
  /\ flight' = [flight EXCEPT ![c] = Tail(@)]

(* Mutant of Remembered: the retirement watermark is not looked at.        *)
NotReplayed(id) == id \notin replay

Remembered(id) == id > peerRetired /\ id \notin replay

(* Below the retirement watermark an attempt is ignored; above it one that *)
(* was confirmed is confirmed again; neither reaches its handler.          *)
RecvDuplicate(c) ==
  \E id \in Ids :
    /\ Arrives(c, id)
    /\ ~Remembered(id)
    /\ IF id <= peerRetired THEN UNCHANGED <<replay, acks>> ELSE Confirm(c, id)
    /\ UNCHANGED <<senderVars, fingerprint, processed, processedThrough,
                   peerRetired, readerVars, up, peerUp, retires, failures, failed>>

(* handleDataFrame up to its first release of Session.mu.                  *)
RecvData(c) ==
  \E id \in Ids :
    /\ Arrives(c, id)
    /\ KindOf[id] = "DATA" /\ Remembered(id)
    /\ fingerprint' = fingerprint \cup {id}
    /\ reading' = [reading EXCEPT ![c] = id]
    /\ UNCHANGED <<senderVars, replay, processed, processedThrough, peerRetired,
                   orphans, seen, opening, up, peerUp, retires, acks, failures, failed>>

(* The last critical section of handleDataFrame: confirm and mark, or, if  *)
(* the receive pages ran out, reset the Stream and mark without confirming *)
(* (the closing Stream confirms the next attempt).                         *)
Publish(c, id) ==
  /\ MarkProcessed(id)
  /\ \/ Confirm(c, id)
     \/ id \notin AppliedIds /\ UNCHANGED <<replay, acks>>
  /\ UNCHANGED <<senderVars, fingerprint, peerRetired, seen, opening, up, peerUp,
                 flight, retires, failures, failed>>

PublishData(c) ==
  /\ reading[c] # NoTx
  /\ Publish(c, reading[c])
  /\ reading' = [reading EXCEPT ![c] = NoTx]
  /\ UNCHANGED orphans

PublishOrphan(id) ==
  /\ id \in orphans
  /\ Publish(NoCarrier, id)
  /\ orphans' = orphans \ {id}
  /\ UNCHANGED reading

(* The FIN, RESET_STREAM, STOP_SENDING and STREAM_CONSUMED handlers, and   *)
(* DATA that arrives when its Stream is gone.                              *)
RecvControl(c) ==
  \E id \in Ids :
    /\ Arrives(c, id)
    /\ KindOf[id] # "OPEN" /\ Remembered(id)
    /\ fingerprint' = fingerprint \cup {id}
    /\ Confirm(c, id)
    /\ MarkProcessed(id)
    /\ UNCHANGED <<senderVars, peerRetired, readerVars, up, peerUp, retires,
                   failures, failed>>

(* handleOpenLocked: a new OPEN starts a backend, or is rejected at the    *)
(* Stream limit; a repeated one waits for the backend, or is answered.     *)
RecvOpen(c) ==
  \E id \in Ids :
    /\ Arrives(c, id)
    /\ KindOf[id] = "OPEN" /\ Remembered(id)
    /\ fingerprint' = fingerprint \cup {id}
    /\ MarkProcessed(id)
    /\ \/ /\ id \notin seen
          /\ seen' = seen \cup {id} /\ opening' = opening \cup {id}
          /\ UNCHANGED <<replay, acks>>
       \/ id \in opening /\ UNCHANGED <<seen, opening, replay, acks>>
       \/ id \notin opening /\ Confirm(c, id) /\ UNCHANGED <<seen, opening>>
    /\ UNCHANGED <<senderVars, peerRetired, reading, orphans, up, peerUp, retires,
                   failures, failed>>

(* accept: the backend is connected, OPEN_OK leaves on any Carrier.  A     *)
(* backend that fails resets the Stream; OPEN_REJECT answers the next OPEN.*)
BackendAnswers(id) ==
  /\ id \in opening
  /\ opening' = opening \ {id}
  /\ Confirm(NoCarrier, id) \/ UNCHANGED <<replay, acks>>
  /\ UNCHANGED <<senderVars, fingerprint, processed, processedThrough, peerRetired,
                 reading, orphans, seen, up, peerUp, flight, retires, failures, failed>>

(* handleTransmissionRetireLocked.                                         *)
RecvRetire(c) ==
  LET offset == Head(retires[c]) IN
  /\ peerUp[c] /\ reading[c] = NoTx /\ retires[c] # <<>>
  /\ retires' = [retires EXCEPT ![c] = Tail(@)]
  /\ IF offset > processedThrough
     THEN failed' = TRUE /\ UNCHANGED handledVars
     ELSE IF offset <= peerRetired THEN UNCHANGED <<failed, handledVars>>
     ELSE /\ peerRetired' = offset
          /\ processed' = processed \ 1..offset
          /\ replay' = replay \ (fingerprint \cap 1..offset)
          /\ fingerprint' = fingerprint \ 1..offset
          /\ UNCHANGED <<processedThrough, failed>>
  /\ UNCHANGED <<senderVars, readerVars, up, peerUp, flight, acks, failures>>

-----------------------------------------------------------------------------
(* Carriers.                                                               *)

(* Mutant of Reinject: only what was written is made ready again.          *)
ReinjectWritten(c) ==
  LET lost == {id \in pending : path[id] = c} IN
  /\ path' = [id \in Ids |-> IF id \in lost THEN NoCarrier ELSE path[id]]
  /\ gen' = [id \in Ids |-> IF id \in lost THEN gen[id] + 1 ELSE gen[id]]
  /\ sent' = [id \in Ids |-> sent[id] /\ id \notin lost]
  /\ ready' = ready \cup {id \in lost : sent[id]}
  /\ queue' = [queue EXCEPT ![c] = {}]

(* detachLocked at the sender: every Transmission bound to c is reinjected,*)
(* and losing the last Carrier forgets what was advertised.                *)
Reinject(c) ==
  LET lost == {id \in pending : path[id] = c} IN
  /\ path' = [id \in Ids |-> IF id \in lost THEN NoCarrier ELSE path[id]]
  /\ gen' = [id \in Ids |-> IF id \in lost THEN gen[id] + 1 ELSE gen[id]]
  /\ sent' = [id \in Ids |-> sent[id] /\ id \notin lost]
  /\ ready' = ready \cup lost
  /\ queue' = [queue EXCEPT ![c] = {}]

(* Mutant of RetireMemory: what was advertised is never forgotten.         *)
KeepsRetireMemory(c) == lastRetire

RetireMemory(c) == IF Active \subseteq {c} THEN 0 ELSE lastRetire

Breaks(other) ==
  \/ other /\ failures < MaxFailures /\ failures' = failures + 1
  \/ ~other /\ UNCHANGED failures

(* The sender loses c: an I/O error, or the end of what the peer closed.   *)
SenderDetach(c) ==
  /\ up[c]
  /\ Breaks(peerUp[c])
  /\ up' = [up EXCEPT ![c] = FALSE]
  /\ Reinject(c)
  /\ lastRetire' = RetireMemory(c)
  /\ acks' = [acks EXCEPT ![c] = <<>>]
  /\ UNCHANGED <<nextPacket, pending, settled, settledThrough, recvVars, peerUp,
                 flight, retires, failed>>

(* Mutant of Orphan: a reader between frames leaves an orphan too.         *)
OrphanAlways(c) ==
  /\ orphans' = orphans \cup {reading[c]}
  /\ reading' = [reading EXCEPT ![c] = NoTx]

(* A reader that holds DATA when its Carrier dies publishes it all the     *)
(* same, and confirms on another Carrier.                                  *)
Orphan(c) ==
  /\ orphans' = IF reading[c] = NoTx THEN orphans ELSE orphans \cup {reading[c]}
  /\ reading' = [reading EXCEPT ![c] = NoTx]

(* The receiver loses c: what it has not read is lost, what it wrote may   *)
(* still be read by the sender.                                            *)
ReceiverDetach(c) ==
  /\ peerUp[c]
  /\ Breaks(up[c])
  /\ peerUp' = [peerUp EXCEPT ![c] = FALSE]
  /\ flight' = [flight EXCEPT ![c] = <<>>]
  /\ retires' = [retires EXCEPT ![c] = <<>>]
  /\ Orphan(c)
  /\ UNCHANGED <<senderVars, handledVars, seen, opening, up, acks, failed>>

(* addCarrier at both ends, for a Carrier its dialer has lost.  The other  *)
(* end may still hold the old incarnation: the new one supersedes it.      *)
Attach(c) ==
  /\ ~(up[c] /\ peerUp[c])
  /\ up' = [up EXCEPT ![c] = TRUE]
  /\ peerUp' = [peerUp EXCEPT ![c] = TRUE]
  /\ IF up[c] THEN Reinject(c) ELSE UNCHANGED <<path, gen, sent, ready, queue>>
  /\ flight' = [flight EXCEPT ![c] = <<>>]
  /\ acks' = [acks EXCEPT ![c] = <<>>]
  /\ AdvertiseRetire(settledThrough, IF up[c] THEN RetireMemory(c) ELSE lastRetire,
                     Active \cup {c}, peerUp', [retires EXCEPT ![c] = <<>>])
  /\ Orphan(c)
  /\ UNCHANGED <<nextPacket, pending, settled, settledThrough, handledVars, seen,
                 opening, failures, failed>>

-----------------------------------------------------------------------------
SenderStep ==
  \/ Allocate
  \/ \E id \in Ids : Retransmit(id) \/ Expire(id)
  \/ \E id \in Ids, c \in Carriers : Dispatch(id, c)
  \/ \E c \in Carriers : \E t \in queue[c] : WriteTask(c, t)
  \/ \E c \in Carriers : Settle(c) \/ AckUnmatched(c)

ReceiverStep ==
  \/ \E c \in Carriers : \/ RecvDuplicate(c) \/ RecvData(c) \/ RecvControl(c)
                         \/ RecvOpen(c) \/ PublishData(c) \/ RecvRetire(c)
  \/ \E id \in Ids : PublishOrphan(id) \/ BackendAnswers(id)

CarrierStep ==
  \E c \in Carriers : SenderDetach(c) \/ ReceiverDetach(c) \/ Attach(c)

Next == ~failed /\ (SenderStep \/ ReceiverStep \/ CarrierStep)

Spec == Init /\ [][Next]_vars

(* What the goroutines of a Session do sooner or later: the dispatcher, the*)
(* retransmission sweep (every 50 ms), the Carrier writers and readers, the*)
(* DATA publication and the backend (dialled with a timeout) always finish *)
(* a step they can take; each end notices that the other closed (the reader*)
(* gets EOF or its 10 s deadline); maintainCarrier dials until it succeeds.*)
Fairness ==
  /\ WF_vars(Allocate)
  /\ \A id \in Ids :
       /\ WF_vars(~failed /\ \E c \in Carriers : Dispatch(id, c))
       /\ WF_vars(~failed /\ Retransmit(id))
       /\ WF_vars(~failed /\ PublishOrphan(id))
       /\ WF_vars(~failed /\ BackendAnswers(id))
       /\ WF_vars(~failed /\ \E c \in Carriers : \E t \in queue[c] : t.id = id /\ WriteTask(c, t))
  /\ \A c \in Carriers :
       /\ WF_vars(~failed /\ (Settle(c) \/ AckUnmatched(c)))
       /\ WF_vars(~failed /\ (RecvDuplicate(c) \/ RecvData(c) \/ RecvControl(c) \/ RecvOpen(c)))
       /\ WF_vars(~failed /\ RecvRetire(c))
       /\ WF_vars(~failed /\ PublishData(c))
       /\ WF_vars(~failed /\ ~peerUp[c] /\ SenderDetach(c))
       /\ WF_vars(~failed /\ ~up[c] /\ ReceiverDetach(c))
       /\ WF_vars(~failed /\ Attach(c))

FairSpec == Spec /\ Fairness

-----------------------------------------------------------------------------
Tasks == [id : Ids, gen : Nat]

SenderTypeOK ==
  /\ nextPacket \in 0..MaxTx
  /\ pending \in SUBSET Ids /\ ready \in SUBSET Ids
  /\ path \in [Ids -> Carriers \cup {NoCarrier}]
  /\ gen \in [Ids -> Nat] /\ sent \in [Ids -> BOOLEAN]
  /\ queue \in [Carriers -> SUBSET Tasks]
  /\ settled \in SUBSET Ids /\ settledThrough \in 0..MaxTx /\ lastRetire \in 0..MaxTx

ReceiverTypeOK ==
  /\ fingerprint \in SUBSET Ids /\ replay \in SUBSET Ids
  /\ processed \in SUBSET Ids /\ processedThrough \in 0..MaxTx
  /\ peerRetired \in 0..MaxTx
  /\ reading \in [Carriers -> Ids \cup {NoTx}]
  /\ orphans \in SUBSET Ids /\ seen \in SUBSET Ids /\ opening \in SUBSET Ids

NetTypeOK ==
  /\ up \in [Carriers -> BOOLEAN] /\ peerUp \in [Carriers -> BOOLEAN]
  /\ flight \in [Carriers -> Seq(Ids)] /\ acks \in [Carriers -> Seq(Ids)]
  /\ retires \in [Carriers -> Seq(Ids)]
  /\ failed \in BOOLEAN /\ failures \in Nat

(* Every variable has its type.                                            *)
TypeOK == SenderTypeOK /\ ReceiverTypeOK /\ NetTypeOK

(* Two endpoints that run this code never raise a Transmission ID failure  *)
(* (ackLocked, handleTransmissionRetireLocked), which would close the      *)
(* whole Session, whatever is retransmitted, replayed, reordered or lost.  *)
NoSessionFailure == ~failed

(* The watermarks of the two endpoints keep their order: the receiver has  *)
(* forgotten no more than the sender settled contiguously, nothing on the  *)
(* way would make it, and it has processed at least that prefix.           *)
RetireChain ==
  /\ peerRetired <= settledThrough /\ settledThrough <= processedThrough
  /\ lastRetire <= settledThrough
  /\ \A c \in Carriers : \A i \in DOMAIN retires[c] : retires[c][i] <= settledThrough

(* An allocated Transmission stays in the pending table until it settles,  *)
(* also after its Stream was cancelled or reset (resetSendLocked).         *)
AllocatedStaysOutstanding == 1..nextPacket \subseteq pending \cup SettledIds

(* A pending Transmission is never stranded: it waits for the dispatcher,  *)
(* or is bound to an active Carrier by a task the writer will honour, or   *)
(* was written there and has a running retransmission timer.               *)
NeverStranded ==
  \A id \in pending :
    IF path[id] = NoCarrier THEN id \in ready
    ELSE /\ id \notin ready /\ up[path[id]]
         /\ sent[id] \/ [id |-> id, gen |-> gen[id]] \in queue[path[id]]

(* The receiver's replay memory covers no more than what the peer has not  *)
(* retired: a publication or an accept that ends after the RETIRE does not *)
(* resurrect an entry that nothing would ever remove.                      *)
ReceiverMemoryBounded ==
  /\ replay \subseteq fingerprint
  /\ (fingerprint \cup processed) \cap 1..peerRetired = {}

(* Once the sender has settled a Transmission, no attempt of it that is    *)
(* still on a Carrier reaches its handler again: the receiver remembers it *)
(* until the RETIRE, and the watermark covers it from then on.             *)
SettledNeverHandledAgain ==
  [][\A id \in SettledIds :
       /\ \A c \in Carriers : reading'[c] = id => reading[c] = id
       /\ id \in opening' => id \in opening
       /\ id \in fingerprint' => id \in fingerprint]_vars

(* The layer implements its contract.                                      *)
Contract == INSTANCE ReliableTransfer WITH
  allocated <- nextPacket, applied <- AppliedIds, settled <- SettledIds,
  forgotten <- peerRetired

KeepsContract == Contract!Spec

(* Every allocated Transmission is settled, across Carrier failures, lost  *)
(* confirmations, exhausted pages and failed backends.                     *)
EverySettles == \A id \in Ids : nextPacket >= id ~> id \in SettledIds

(* After every Carrier was lost, the receiver learns the watermark again   *)
(* (recovery-progress.json, "retire-refresh-after-recovery").              *)
RetireRefreshed ==
  \A n \in 1..MaxTx :
    (settledThrough >= n /\ Active = {}) ~> (peerRetired >= n)

(* It does if no further Carrier fails after that: what was advertised and *)
(* lost with a Carrier is not taken for advertised when all are lost.      *)
RetireRelearned ==
  \A n \in 1..MaxTx :
    (settledThrough >= n /\ Active = {} /\ failures = MaxFailures) ~> (peerRetired >= n)

-----------------------------------------------------------------------------
(* The inductive invariant behind the theorems of TransmissionProofs.      *)
Allocated == 1..nextPacket
Confirmed == replay \cup 1..peerRetired   \* never handled again by the receiver

(* Nothing is on its way, or known, of an ID that was not allocated.       *)
AllocInv ==
  /\ ready \subseteq pending /\ pending \subseteq Allocated
  /\ flight \in [Carriers -> Seq(Allocated)]
  /\ fingerprint \subseteq Allocated /\ AppliedIds \subseteq Allocated
  /\ opening \subseteq Allocated /\ orphans \subseteq Allocated
  /\ reading \in [Carriers -> Allocated \cup {NoTx}]

(* What the receiver remembers, and what it is working on, is either above *)
(* the retirement watermark and fingerprinted, or below it for good.       *)
ReceiverInv ==
  /\ peerRetired <= processedThrough /\ processedThrough + 1 \notin processed
  /\ replay \subseteq AppliedIds /\ opening \subseteq AppliedIds
  /\ opening \cup orphans \subseteq fingerprint \cup 1..peerRetired
  /\ \A c \in Carriers : reading[c] \in fingerprint \cup (1..peerRetired) \cup {NoTx}
  /\ ReceiverMemoryBounded

(* Whatever the sender has settled, or will settle from the confirmations  *)
(* under way, the receiver will not handle again; whatever the receiver    *)
(* retires, or will retire, the sender has settled.                        *)
SettleInv ==
  /\ acks \in [Carriers -> Seq(Confirmed)]
  /\ SettledIds \subseteq Confirmed /\ pending \cap SettledIds = {}
  /\ retires \in [Carriers -> Seq(1..settledThrough)]
  /\ peerRetired <= settledThrough /\ lastRetire <= settledThrough

IInv == TypeOK /\ AllocInv /\ ReceiverInv /\ SettleInv

(* NeverStranded, with the unallocated IDs bound to no Carrier.            *)
BindingInv ==
  /\ NeverStranded
  /\ \A id \in Ids : id > nextPacket => path[id] = NoCarrier
=============================================================================
