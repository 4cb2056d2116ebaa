------------------------- MODULE TransmissionProofs -------------------------
(***************************************************************************)
(* Theorems about Transmission, for any Carriers, bounds and kinds.        *)
(***************************************************************************)
EXTENDS Transmission, TLAPS

-----------------------------------------------------------------------------
(* Lanes: appending to one and taking its head keep the type of all.       *)

LEMMA AppendType ==
  ASSUME NEW S, NEW f \in [Carriers -> Seq(S)], NEW d \in Carriers, NEW e \in S
  PROVE  [f EXCEPT ![d] = Append(@, e)] \in [Carriers -> Seq(S)]
OBVIOUS

LEMMA TailType ==
  ASSUME NEW S, NEW f \in [Carriers -> Seq(S)], NEW d \in Carriers, f[d] # <<>>
  PROVE  /\ [f EXCEPT ![d] = Tail(@)] \in [Carriers -> Seq(S)]
         /\ Head(f[d]) \in S
OBVIOUS

LEMMA EmptyType ==
  ASSUME NEW S, NEW f \in [Carriers -> Seq(S)], NEW d \in Carriers
  PROVE  [f EXCEPT ![d] = <<>>] \in [Carriers -> Seq(S)]
OBVIOUS

LEMMA ElementType ==
  ASSUME NEW S, NEW s \in Seq(S), NEW i \in DOMAIN s
  PROVE  s[i] \in S
<1>1. s \in [1..Len(s) -> S] /\ DOMAIN s = 1..Len(s)
  OBVIOUS
<1>. QED BY <1>1

LEMMA WatermarkType == 0 \in 0..MaxTx /\ Ids \subseteq 0..MaxTx
BY TxAssumption DEF Ids

-----------------------------------------------------------------------------
(* The parts actions share.                                                *)

LEMMA MarkType ==
  ASSUME ReceiverTypeOK, NEW id \in Ids, MarkProcessed(id)
  PROVE  processed' \in SUBSET Ids /\ processedThrough' \in 0..MaxTx
<1>1. processed' \in SUBSET Ids
  BY DEF MarkProcessed, ReceiverTypeOK
<1>2. processedThrough' \in 0..MaxTx
  BY TxAssumption DEF MarkProcessed, ReceiverTypeOK
<1>. QED BY <1>1, <1>2

LEMMA ConfirmType ==
  ASSUME acks \in [Carriers -> Seq(Ids)], replay \in SUBSET Ids,
         NEW c, NEW id \in Ids, Confirm(c, id)
  PROVE  replay' \in SUBSET Ids /\ acks' \in [Carriers -> Seq(Ids)]
<1>1. replay' \in SUBSET Ids
  BY DEF Confirm
<1>2. ASSUME NEW d \in Routes(c),
             acks' = IF up[d] THEN [acks EXCEPT ![d] = Append(@, id)] ELSE acks
      PROVE  acks' \in [Carriers -> Seq(Ids)]
  <2>1. d \in Carriers
    BY DEF Routes
  <2>. QED BY <1>2, <2>1, AppendType
<1>3. acks' \in [Carriers -> Seq(Ids)]
  BY <1>2 DEF Confirm, SendConfirmation
<1>. QED BY <1>1, <1>3

LEMMA AdvertiseType ==
  ASSUME NEW through \in 0..MaxTx, NEW last \in 0..MaxTx,
         NEW alive \in SUBSET Carriers, NEW reached, NEW lanes \in [Carriers -> Seq(Ids)],
         AdvertiseRetire(through, last, alive, reached, lanes)
  PROVE  lastRetire' \in 0..MaxTx /\ retires' \in [Carriers -> Seq(Ids)]
<1>1. lastRetire' \in {through, last}
  BY DEF AdvertiseRetire
<1>2. CASE retires' = lanes
  BY <1>1, <1>2
<1>3. ASSUME through > last, NEW c \in Carriers,
             retires' = IF reached[c] THEN [lanes EXCEPT ![c] = Append(@, through)] ELSE lanes
      PROVE  retires' \in [Carriers -> Seq(Ids)]
  <2>1. through \in Ids
    BY <1>3, TxAssumption DEF Ids
  <2>. QED BY <1>3, <2>1, AppendType
<1>. QED BY <1>1, <1>2, <1>3 DEF AdvertiseRetire

LEMMA ReinjectType ==
  ASSUME SenderTypeOK, NEW c \in Carriers, Reinject(c)
  PROVE  /\ path' \in [Ids -> Carriers \cup {NoCarrier}]
         /\ gen' \in [Ids -> Nat] /\ sent' \in [Ids -> BOOLEAN]
         /\ ready' \in SUBSET Ids /\ queue' \in [Carriers -> SUBSET Tasks]
<1>1. path' \in [Ids -> Carriers \cup {NoCarrier}]
  BY DEF Reinject, SenderTypeOK
<1>2. gen' \in [Ids -> Nat]
  BY DEF Reinject, SenderTypeOK
<1>3. sent' \in [Ids -> BOOLEAN]
  BY DEF Reinject, SenderTypeOK
<1>4. ready' \in SUBSET Ids
  BY DEF Reinject, SenderTypeOK
<1>5. queue' \in [Carriers -> SUBSET Tasks]
  BY DEF Reinject, SenderTypeOK
<1>. QED BY <1>1, <1>2, <1>3, <1>4, <1>5

LEMMA OrphanType ==
  ASSUME ReceiverTypeOK, NEW c \in Carriers, Orphan(c)
  PROVE  orphans' \in SUBSET Ids /\ reading' \in [Carriers -> Ids \cup {NoTx}]
BY DEF Orphan, ReceiverTypeOK

-----------------------------------------------------------------------------
LEMMA SenderStutters == SenderTypeOK /\ UNCHANGED senderVars => SenderTypeOK'
BY DEF senderVars, SenderTypeOK

LEMMA ReceiverStutters == ReceiverTypeOK /\ UNCHANGED recvVars => ReceiverTypeOK'
BY DEF recvVars, handledVars, readerVars, ReceiverTypeOK

LEMMA NetStutters == NetTypeOK /\ UNCHANGED <<netVars, failed>> => NetTypeOK'
BY DEF netVars, NetTypeOK

LEMMA TypeInit == Init => TypeOK
<1> SUFFICES ASSUME Init PROVE TypeOK
  OBVIOUS
<1>1. SenderTypeOK
  BY WatermarkType DEF Init, SenderTypeOK
<1>2. ReceiverTypeOK
  BY WatermarkType DEF Init, ReceiverTypeOK
<1>3. NetTypeOK
  <2>1. up \in [Carriers -> BOOLEAN] /\ peerUp \in [Carriers -> BOOLEAN]
    BY DEF Init
  <2>2. /\ flight \in [Carriers -> Seq(Ids)] /\ acks \in [Carriers -> Seq(Ids)]
        /\ retires \in [Carriers -> Seq(Ids)]
    BY DEF Init
  <2>. QED BY <2>1, <2>2 DEF Init, NetTypeOK
<1>. QED BY <1>1, <1>2, <1>3 DEF TypeOK

LEMMA SenderTypeStep ==
  ASSUME TypeOK, Next PROVE SenderTypeOK'
<1> USE DEF TypeOK
<1>1. CASE Allocate
  BY <1>1, WatermarkType DEF SenderTypeOK, Allocate
<1>2. ASSUME NEW id \in Ids, Retransmit(id) PROVE SenderTypeOK'
  BY <1>2 DEF SenderTypeOK, Retransmit
<1>3. ASSUME NEW id \in Ids, Expire(id) PROVE SenderTypeOK'
  BY <1>3 DEF SenderTypeOK, Expire
<1>4. ASSUME NEW id \in Ids, NEW c \in Carriers, Dispatch(id, c) PROVE SenderTypeOK'
  <2>1. gen' \in [Ids -> Nat]
    BY <1>4 DEF SenderTypeOK, Dispatch
  <2>2. [id |-> id, gen |-> gen'[id]] \in Tasks
    BY <2>1 DEF Tasks
  <2>3. queue' \in [Carriers -> SUBSET Tasks]
    BY <1>4, <2>2 DEF SenderTypeOK, Dispatch
  <2>. QED BY <1>4, <2>1, <2>3 DEF SenderTypeOK, Dispatch
<1>5. ASSUME NEW c \in Carriers, NEW t \in queue[c], WriteTask(c, t) PROVE SenderTypeOK'
  <2>1. t \in Tasks
    BY DEF SenderTypeOK
  <2>2. sent' \in [Ids -> BOOLEAN]
    BY <1>5, <2>1 DEF SenderTypeOK, WriteTask, Tasks
  <2>. QED BY <1>5, <2>2 DEF SenderTypeOK, WriteTask
<1>6. ASSUME NEW c \in Carriers, Settle(c) PROVE SenderTypeOK'
  <2> DEFINE id == Head(acks[c])
  <2>1. id \in Ids
    BY <1>6, TailType DEF NetTypeOK, Settle
  <2>2. PICK n \in settledThrough..MaxTx :
          /\ settledThrough' = n
          /\ settled' = (settled \cup {id}) \ (settledThrough + 1)..n
          /\ AdvertiseRetire(n, lastRetire, Active, peerUp, retires)
    BY <1>6 DEF Settle
  <2>3. n \in 0..MaxTx
    BY TxAssumption DEF SenderTypeOK
  <2>4. lastRetire' \in 0..MaxTx
    <3>1. Active \in SUBSET Carriers
      BY DEF Active
    <3>2. lastRetire \in 0..MaxTx /\ retires \in [Carriers -> Seq(Ids)]
      BY DEF SenderTypeOK, NetTypeOK
    <3>. QED BY <2>2, <2>3, <3>1, <3>2, AdvertiseType
  <2>5. settled' \in SUBSET Ids
    BY <2>1, <2>2 DEF SenderTypeOK
  <2>6. gen' \in [Ids -> Nat]
    BY <1>6, <2>1 DEF SenderTypeOK, Settle
  <2>. QED BY <1>6, <2>2, <2>3, <2>4, <2>5, <2>6 DEF SenderTypeOK, Settle
<1>7. ASSUME NEW c \in Carriers, SenderDetach(c) PROVE SenderTypeOK'
  BY <1>7, ReinjectType, WatermarkType DEF SenderTypeOK, SenderDetach, RetireMemory
<1>8. ASSUME NEW c \in Carriers, Attach(c) PROVE SenderTypeOK'
  <2>1. /\ path' \in [Ids -> Carriers \cup {NoCarrier}]
        /\ gen' \in [Ids -> Nat] /\ sent' \in [Ids -> BOOLEAN]
        /\ ready' \in SUBSET Ids /\ queue' \in [Carriers -> SUBSET Tasks]
    BY <1>8, ReinjectType DEF SenderTypeOK, Attach
  <2>2. lastRetire' \in 0..MaxTx
    <3> DEFINE last == IF up[c] THEN RetireMemory(c) ELSE lastRetire
               lanes == [retires EXCEPT ![c] = <<>>]
    <3>1. settledThrough \in 0..MaxTx /\ last \in 0..MaxTx
      BY WatermarkType DEF RetireMemory, SenderTypeOK
    <3>2. lanes \in [Carriers -> Seq(Ids)]
      BY EmptyType DEF NetTypeOK
    <3>3. Active \cup {c} \in SUBSET Carriers
      BY DEF Active
    <3>4. AdvertiseRetire(settledThrough, last, Active \cup {c}, peerUp', lanes)
      BY <1>8 DEF Attach
    <3>. HIDE DEF last, lanes
    <3>. QED BY <3>1, <3>2, <3>3, <3>4, AdvertiseType
  <2>. QED BY <1>8, <2>1, <2>2 DEF SenderTypeOK, Attach
<1>9. ASSUME UNCHANGED senderVars PROVE SenderTypeOK'
  BY <1>9, SenderStutters
<1>. QED
  BY <1>1, <1>2, <1>3, <1>4, <1>5, <1>6, <1>7, <1>8, <1>9
  DEF Next, SenderStep, ReceiverStep, CarrierStep, AckUnmatched, RecvDuplicate, RecvData,
      RecvControl, RecvOpen, PublishData, PublishOrphan, Publish, RecvRetire,
      BackendAnswers, ReceiverDetach

LEMMA ReceiverTypeStep ==
  ASSUME TypeOK, Next PROVE ReceiverTypeOK'
<1> USE DEF TypeOK
<1>0. ASSUME NEW c \in Carriers, NEW id \in Ids, Arrives(c, id), Confirm(c, id)
      PROVE  replay' \in SUBSET Ids
  BY <1>0, ConfirmType DEF ReceiverTypeOK, NetTypeOK
<1>1. ASSUME NEW c \in Carriers, RecvDuplicate(c) PROVE ReceiverTypeOK'
  BY <1>1, <1>0 DEF ReceiverTypeOK, RecvDuplicate, readerVars
<1>2. ASSUME NEW c \in Carriers, RecvData(c) PROVE ReceiverTypeOK'
  BY <1>2 DEF ReceiverTypeOK, RecvData
<1>3. ASSUME NEW c \in Carriers, RecvControl(c) PROVE ReceiverTypeOK'
  <2>1. PICK id \in Ids : /\ Arrives(c, id) /\ Confirm(c, id) /\ MarkProcessed(id)
                          /\ fingerprint' = fingerprint \cup {id}
                          /\ UNCHANGED <<peerRetired, readerVars>>
    BY <1>3 DEF RecvControl
  <2>2. replay' \in SUBSET Ids /\ processed' \in SUBSET Ids /\ processedThrough' \in 0..MaxTx
    BY <2>1, <1>0, MarkType
  <2>. QED BY <2>1, <2>2 DEF ReceiverTypeOK, readerVars
<1>4. ASSUME NEW c \in Carriers, RecvOpen(c) PROVE ReceiverTypeOK'
  <2>1. PICK id \in Ids :
          /\ Arrives(c, id) /\ MarkProcessed(id)
          /\ fingerprint' = fingerprint \cup {id}
          /\ \/ seen' = seen \cup {id} /\ opening' = opening \cup {id} /\ UNCHANGED replay
             \/ UNCHANGED <<seen, opening, replay>>
             \/ Confirm(c, id) /\ UNCHANGED <<seen, opening>>
          /\ UNCHANGED <<peerRetired, reading, orphans>>
    BY <1>4 DEF RecvOpen
  <2>2. processed' \in SUBSET Ids /\ processedThrough' \in 0..MaxTx
    BY <2>1, MarkType
  <2>3. replay' \in SUBSET Ids /\ seen' \in SUBSET Ids /\ opening' \in SUBSET Ids
    BY <2>1, <1>0 DEF ReceiverTypeOK
  <2>. QED BY <2>1, <2>2, <2>3 DEF ReceiverTypeOK
<1>5. ASSUME NEW c, NEW id \in Ids, Publish(c, id)
      PROVE  /\ replay' \in SUBSET Ids /\ processed' \in SUBSET Ids
             /\ processedThrough' \in 0..MaxTx
             /\ UNCHANGED <<fingerprint, peerRetired, seen, opening>>
  <2>1. replay' \in SUBSET Ids
    BY <1>5, ConfirmType DEF ReceiverTypeOK, NetTypeOK, Publish
  <2>. QED BY <1>5, <2>1, MarkType DEF Publish
<1>6. ASSUME NEW c \in Carriers, PublishData(c) PROVE ReceiverTypeOK'
  <2>1. reading[c] \in Ids
    BY <1>6 DEF ReceiverTypeOK, PublishData
  <2>. QED BY <1>6, <2>1, <1>5 DEF ReceiverTypeOK, PublishData
<1>7. ASSUME NEW id \in Ids, PublishOrphan(id) PROVE ReceiverTypeOK'
  BY <1>7, <1>5 DEF ReceiverTypeOK, PublishOrphan
<1>8. ASSUME NEW c \in Carriers, RecvRetire(c) PROVE ReceiverTypeOK'
  <2>1. Head(retires[c]) \in Ids
    BY <1>8, TailType DEF NetTypeOK, RecvRetire
  <2>. QED BY <1>8, <2>1, WatermarkType DEF ReceiverTypeOK, RecvRetire, handledVars, readerVars
<1>9. ASSUME NEW id \in Ids, BackendAnswers(id) PROVE ReceiverTypeOK'
  <2>1. replay' \in SUBSET Ids
    BY <1>9, ConfirmType DEF ReceiverTypeOK, NetTypeOK, BackendAnswers
  <2>. QED BY <1>9, <2>1 DEF ReceiverTypeOK, BackendAnswers
<1>10. ASSUME NEW c \in Carriers, ReceiverDetach(c) \/ Attach(c) PROVE ReceiverTypeOK'
  BY <1>10, OrphanType DEF ReceiverTypeOK, ReceiverDetach, Attach, handledVars
<1>11. ASSUME UNCHANGED recvVars PROVE ReceiverTypeOK'
  BY <1>11, ReceiverStutters
<1>. QED
  BY <1>1, <1>2, <1>3, <1>4, <1>6, <1>7, <1>8, <1>9, <1>10, <1>11
  DEF Next, SenderStep, ReceiverStep, CarrierStep, Allocate, Retransmit, Expire, Dispatch,
      WriteTask, Settle, AckUnmatched, SenderDetach

LEMMA NetTypeStep ==
  ASSUME TypeOK, Next PROVE NetTypeOK'
<1> USE DEF TypeOK
<1>0. ASSUME NEW c, NEW id \in Ids, Confirm(c, id) PROVE acks' \in [Carriers -> Seq(Ids)]
  BY <1>0, ConfirmType DEF ReceiverTypeOK, NetTypeOK
<1>1. ASSUME NEW c \in Carriers, NEW id \in Ids, Arrives(c, id)
      PROVE  flight' \in [Carriers -> Seq(Ids)]
  BY <1>1, TailType DEF NetTypeOK, Arrives
<1>2. ASSUME NEW c \in Carriers, NEW t \in queue[c], WriteTask(c, t) PROVE NetTypeOK'
  <2>1. t.id \in Ids
    BY DEF SenderTypeOK, Tasks
  <2>2. flight' \in [Carriers -> Seq(Ids)]
    BY <1>2, <2>1, AppendType DEF NetTypeOK, WriteTask
  <2>. QED BY <1>2, <2>2 DEF NetTypeOK, WriteTask
<1>3. ASSUME NEW c \in Carriers, Settle(c) PROVE NetTypeOK'
  <2>1. acks' \in [Carriers -> Seq(Ids)]
    BY <1>3, TailType DEF NetTypeOK, Settle
  <2>2. PICK n \in settledThrough..MaxTx :
          AdvertiseRetire(n, lastRetire, Active, peerUp, retires)
    BY <1>3 DEF Settle
  <2>3. /\ n \in 0..MaxTx /\ lastRetire \in 0..MaxTx
        /\ Active \in SUBSET Carriers /\ retires \in [Carriers -> Seq(Ids)]
    BY TxAssumption DEF SenderTypeOK, NetTypeOK, Active
  <2>4. retires' \in [Carriers -> Seq(Ids)]
    BY <2>2, <2>3, AdvertiseType
  <2>. QED BY <1>3, <2>1, <2>4 DEF NetTypeOK, Settle
<1>4. ASSUME NEW c \in Carriers, AckUnmatched(c) PROVE NetTypeOK'
  BY <1>4, TailType DEF NetTypeOK, AckUnmatched
<1>5. ASSUME NEW c \in Carriers, RecvDuplicate(c) PROVE NetTypeOK'
  BY <1>5, <1>0, <1>1 DEF NetTypeOK, RecvDuplicate
<1>6. ASSUME NEW c \in Carriers, RecvData(c) PROVE NetTypeOK'
  BY <1>6, <1>1 DEF NetTypeOK, RecvData
<1>7. ASSUME NEW c \in Carriers, RecvControl(c) PROVE NetTypeOK'
  BY <1>7, <1>0, <1>1 DEF NetTypeOK, RecvControl
<1>8. ASSUME NEW c \in Carriers, RecvOpen(c) PROVE NetTypeOK'
  BY <1>8, <1>0, <1>1 DEF NetTypeOK, RecvOpen
<1>9. ASSUME NEW c \in Carriers, PublishData(c) PROVE NetTypeOK'
  BY <1>9, <1>0 DEF NetTypeOK, PublishData, Publish, ReceiverTypeOK
<1>10. ASSUME NEW id \in Ids, PublishOrphan(id) PROVE NetTypeOK'
  BY <1>10, <1>0 DEF NetTypeOK, PublishOrphan, Publish
<1>11. ASSUME NEW c \in Carriers, RecvRetire(c) PROVE NetTypeOK'
  BY <1>11, TailType DEF NetTypeOK, RecvRetire
<1>12. ASSUME NEW id \in Ids, BackendAnswers(id) PROVE NetTypeOK'
  BY <1>12, <1>0 DEF NetTypeOK, BackendAnswers
<1>13. ASSUME NEW c \in Carriers, SenderDetach(c) PROVE NetTypeOK'
  BY <1>13, EmptyType DEF NetTypeOK, SenderDetach, Breaks
<1>14. ASSUME NEW c \in Carriers, ReceiverDetach(c) PROVE NetTypeOK'
  <2>1. /\ flight' \in [Carriers -> Seq(Ids)] /\ retires' \in [Carriers -> Seq(Ids)]
    BY <1>14, EmptyType DEF NetTypeOK, ReceiverDetach
  <2>. QED BY <1>14, <2>1 DEF NetTypeOK, ReceiverDetach, Breaks
<1>15. ASSUME NEW c \in Carriers, Attach(c) PROVE NetTypeOK'
  <2> DEFINE last == IF up[c] THEN RetireMemory(c) ELSE lastRetire
             lanes == [retires EXCEPT ![c] = <<>>]
  <2>1. settledThrough \in 0..MaxTx /\ last \in 0..MaxTx
    BY WatermarkType DEF RetireMemory, SenderTypeOK
  <2>2. lanes \in [Carriers -> Seq(Ids)] /\ Active \cup {c} \in SUBSET Carriers
    BY EmptyType DEF NetTypeOK, Active
  <2>3. AdvertiseRetire(settledThrough, last, Active \cup {c}, peerUp', lanes)
    BY <1>15 DEF Attach
  <2>4. retires' \in [Carriers -> Seq(Ids)]
    <3>. HIDE DEF last, lanes
    <3>. QED BY <2>1, <2>2, <2>3, AdvertiseType
  <2>5. flight' \in [Carriers -> Seq(Ids)] /\ acks' \in [Carriers -> Seq(Ids)]
    BY <1>15, EmptyType DEF NetTypeOK, Attach
  <2>6. up' \in [Carriers -> BOOLEAN] /\ peerUp' \in [Carriers -> BOOLEAN]
    BY <1>15 DEF NetTypeOK, Attach
  <2>. QED BY <1>15, <2>4, <2>5, <2>6 DEF NetTypeOK, Attach
<1>16. ASSUME UNCHANGED <<netVars, failed>> PROVE NetTypeOK'
  BY <1>16, NetStutters
<1>. QED
  BY <1>2, <1>3, <1>4, <1>5, <1>6, <1>7, <1>8, <1>9, <1>10, <1>11, <1>12, <1>13, <1>14,
     <1>15, <1>16
  DEF Next, SenderStep, ReceiverStep, CarrierStep, Allocate, Retransmit, Expire, Dispatch

LEMMA TypeStep == TypeOK /\ [Next]_vars => TypeOK'
<1> SUFFICES ASSUME TypeOK, [Next]_vars PROVE TypeOK'
  OBVIOUS
<1>1. CASE Next
  BY <1>1, SenderTypeStep, ReceiverTypeStep, NetTypeStep DEF TypeOK
<1>2. CASE UNCHANGED vars
  BY <1>2, SenderStutters, ReceiverStutters, NetStutters DEF TypeOK, vars
<1>. QED BY <1>1, <1>2

(* Every variable has its type in every reachable state.                   *)
THEOREM TypeCorrect == Spec => []TypeOK
BY TypeInit, TypeStep, PTL DEF Spec

-----------------------------------------------------------------------------
(* Watermarks: the run of markSettledLocked and markPeerProcessedLocked    *)
(* adds exactly the new ID, and ends where the next one is missing.        *)

LEMMA SettleGrows ==
  ASSUME SenderTypeOK, NEW id \in Ids, NEW n \in settledThrough..MaxTx,
         EndsRun(settledThrough, settled \cup {id}, n),
         settledThrough' = n, settled' = (settled \cup {id}) \ (settledThrough + 1)..n
  PROVE  SettledIds' = SettledIds \cup {id} /\ settledThrough <= settledThrough'
<1>1. settledThrough \in Nat /\ n \in Nat /\ id \in Nat /\ id >= 1 /\ settledThrough <= n
  BY TxAssumption DEF SenderTypeOK, Ids
<1>2. \A k \in (settledThrough + 1)..n : k \in settled \cup {id}
  BY DEF EndsRun
<1>3. 1..n = (1..settledThrough) \cup (settledThrough + 1)..n
  BY <1>1
<1>. QED BY <1>1, <1>2, <1>3 DEF SettledIds

LEMMA MarkGrows ==
  ASSUME ReceiverTypeOK, ReceiverInv, NEW id \in Ids, MarkProcessed(id)
  PROVE  /\ AppliedIds' = AppliedIds \cup {id}
         /\ processedThrough <= processedThrough'
         /\ processedThrough' + 1 \notin processed'
         /\ processed' \subseteq processed \cup {id}
         /\ id <= peerRetired => processed' = processed
<1>1. /\ processedThrough \in Nat /\ peerRetired \in Nat /\ id \in Nat /\ id >= 1
      /\ peerRetired <= processedThrough
  BY TxAssumption DEF ReceiverTypeOK, ReceiverInv, Ids
<1>2. CASE id <= peerRetired
  <2>1. UNCHANGED <<processed, processedThrough>>
    BY <1>2 DEF MarkProcessed
  <2>2. id \in 1..processedThrough
    BY <1>1, <1>2
  <2>. QED BY <2>1, <2>2, <1>1 DEF AppliedIds, ReceiverInv
<1>3. CASE ~(id <= peerRetired)
  <2>1. PICK n \in processedThrough..MaxTx :
          /\ EndsRun(processedThrough, processed \cup {id}, n)
          /\ processedThrough' = n /\ processed' = processed \cup {id}
    BY <1>3 DEF MarkProcessed
  <2>2. n \in Nat /\ processedThrough <= n
    BY <1>1
  <2>3. 1..n = (1..processedThrough) \cup (processedThrough + 1)..n
    BY <1>1, <2>2
  <2>4. (processedThrough + 1)..n \subseteq processed \cup {id} /\ n + 1 \notin processed \cup {id}
    BY <2>1 DEF EndsRun
  <2>. QED BY <2>1, <2>2, <2>3, <2>4, <1>3 DEF AppliedIds
<1>. QED BY <1>2, <1>3

LEMMA SeqGrows ==
  ASSUME NEW S, NEW T, S \subseteq T, NEW f \in [Carriers -> Seq(S)]
  PROVE  f \in [Carriers -> Seq(T)]
<1>1. \A c \in Carriers : f[c] \in Seq(T)
  OBVIOUS
<1>. QED BY <1>1

(* The settled prefix was processed: what the sender settled the receiver  *)
(* has applied, and its contiguous mark ends at the first gap.             *)
LEMMA SettledWithinProcessed == IInv => settledThrough <= processedThrough
<1> SUFFICES ASSUME IInv, processedThrough < settledThrough PROVE FALSE
  BY DEF IInv, TypeOK, SenderTypeOK, ReceiverTypeOK
<1>1. processedThrough \in Nat /\ settledThrough \in Nat /\ peerRetired \in Nat
  BY TxAssumption DEF IInv, TypeOK, SenderTypeOK, ReceiverTypeOK
<1>2. processedThrough + 1 \in SettledIds
  BY <1>1 DEF SettledIds
<1>3. processedThrough + 1 \in Confirmed
  BY <1>2 DEF IInv, SettleInv
<1>4. processedThrough + 1 \in AppliedIds
  BY <1>1, <1>3 DEF IInv, ReceiverInv, Confirmed, AppliedIds
<1>5. processedThrough + 1 \in processed
  BY <1>1, <1>4 DEF AppliedIds
<1>. QED BY <1>5 DEF IInv, ReceiverInv

-----------------------------------------------------------------------------
LEMMA InvInit == Init => AllocInv /\ ReceiverInv /\ SettleInv
<1> SUFFICES ASSUME Init PROVE AllocInv /\ ReceiverInv /\ SettleInv
  OBVIOUS
<1> USE DEF Init
<1>1. /\ flight \in [Carriers -> Seq(Allocated)] /\ acks \in [Carriers -> Seq(Confirmed)]
      /\ retires \in [Carriers -> Seq(1..settledThrough)]
  OBVIOUS
<1>2. SettledIds = {} /\ AppliedIds = {} /\ 1..peerRetired = {}
  BY DEF SettledIds, AppliedIds
<1>3. AllocInv
  BY <1>1, <1>2 DEF AllocInv
<1>4. ReceiverInv
  BY <1>2 DEF ReceiverInv, ReceiverMemoryBounded
<1>5. SettleInv
  BY <1>1, <1>2 DEF SettleInv
<1>. QED BY <1>3, <1>4, <1>5

(* One step keeps AllocInv.                                                *)
LEMMA AllocStep ==
  ASSUME IInv, [Next]_vars PROVE AllocInv'
<1> USE DEF IInv, TypeOK
<1>1. CASE Allocate
  <2>1. Allocated \subseteq Allocated' /\ nextPacket + 1 \in Allocated'
    BY <1>1 DEF Allocate, Allocated, SenderTypeOK
  <2>2. flight' \in [Carriers -> Seq(Allocated')]
    BY <1>1, <2>1, SeqGrows DEF AllocInv, Allocate, netVars
  <2>3. UNCHANGED <<fingerprint, AppliedIds, opening, orphans, reading>>
    BY <1>1 DEF Allocate, recvVars, handledVars, readerVars, AppliedIds
  <2>4. reading' \in [Carriers -> Allocated' \cup {NoTx}]
    BY <2>1, <2>3 DEF AllocInv
  <2>. QED BY <1>1, <2>1, <2>2, <2>3, <2>4 DEF AllocInv, Allocate
<1>2. ASSUME NEW c \in Carriers, NEW id \in Ids, Arrives(c, id), UNCHANGED nextPacket
      PROVE  id \in Allocated /\ flight' \in [Carriers -> Seq(Allocated')]
  BY <1>2, TailType DEF AllocInv, Arrives, Allocated
<1>3. ASSUME NEW id \in Allocated, MarkProcessed(id), UNCHANGED nextPacket
      PROVE  AppliedIds' \subseteq Allocated'
  <2>1. id \in Ids
    BY TxAssumption DEF Allocated, Ids, SenderTypeOK
  <2>. QED BY <1>3, <2>1, MarkGrows DEF AllocInv, Allocated
<1>4. ASSUME NEW id \in Ids, Retransmit(id) \/ Expire(id) PROVE AllocInv'
  BY <1>4 DEF AllocInv, Retransmit, Expire, recvVars, handledVars, readerVars, netVars,
             AppliedIds, Allocated
<1>5. ASSUME NEW id \in Ids, NEW c \in Carriers, Dispatch(id, c) PROVE AllocInv'
  BY <1>5 DEF AllocInv, Dispatch, recvVars, handledVars, readerVars, netVars, AppliedIds, Allocated
<1>6. ASSUME NEW c \in Carriers, NEW t \in queue[c], WriteTask(c, t) PROVE AllocInv'
  <2>1. flight' \in [Carriers -> Seq(Allocated)]
    <3>1. CASE Current(c, t)
      <4>1. t.id \in Allocated
        BY <3>1 DEF AllocInv, Current
      <4>. QED BY <1>6, <4>1, AppendType DEF AllocInv, WriteTask
    <3>2. CASE ~Current(c, t)
      BY <1>6, <3>2 DEF AllocInv, WriteTask
    <3>. QED BY <3>1, <3>2
  <2>. QED BY <1>6, <2>1 DEF AllocInv, WriteTask, recvVars, handledVars, readerVars, AppliedIds, Allocated
<1>7. ASSUME NEW c \in Carriers, Settle(c) \/ AckUnmatched(c) PROVE AllocInv'
  BY <1>7 DEF AllocInv, Settle, AckUnmatched, senderVars, recvVars, handledVars, readerVars,
             AppliedIds, Allocated
<1>8. ASSUME NEW c \in Carriers, RecvDuplicate(c) PROVE AllocInv'
  BY <1>8, <1>2 DEF AllocInv, RecvDuplicate, senderVars, readerVars, AppliedIds, Allocated
<1>9. ASSUME NEW c \in Carriers, RecvData(c) PROVE AllocInv'
  <2>1. PICK id \in Ids : /\ Arrives(c, id) /\ fingerprint' = fingerprint \cup {id}
                          /\ reading' = [reading EXCEPT ![c] = id]
                          /\ UNCHANGED <<senderVars, processed, processedThrough, orphans, opening>>
    BY <1>9 DEF RecvData
  <2>2. id \in Allocated /\ flight' \in [Carriers -> Seq(Allocated')]
    BY <2>1, <1>2 DEF senderVars
  <2>. QED BY <2>1, <2>2 DEF AllocInv, senderVars, AppliedIds, Allocated
<1>10. ASSUME NEW c \in Carriers, RecvControl(c) PROVE AllocInv'
  <2>1. PICK id \in Ids : /\ Arrives(c, id) /\ MarkProcessed(id)
                          /\ fingerprint' = fingerprint \cup {id}
                          /\ UNCHANGED <<senderVars, readerVars>>
    BY <1>10 DEF RecvControl
  <2>2. id \in Allocated /\ flight' \in [Carriers -> Seq(Allocated')] /\ AppliedIds' \subseteq Allocated'
    BY <2>1, <1>2, <1>3 DEF senderVars
  <2>. QED BY <2>1, <2>2 DEF AllocInv, senderVars, readerVars, Allocated
<1>11. ASSUME NEW c \in Carriers, RecvOpen(c) PROVE AllocInv'
  <2>1. PICK id \in Ids : /\ Arrives(c, id) /\ MarkProcessed(id)
                          /\ fingerprint' = fingerprint \cup {id}
                          /\ opening' \subseteq opening \cup {id}
                          /\ UNCHANGED <<senderVars, reading, orphans>>
    BY <1>11 DEF RecvOpen
  <2>2. id \in Allocated /\ flight' \in [Carriers -> Seq(Allocated')] /\ AppliedIds' \subseteq Allocated'
    BY <2>1, <1>2, <1>3 DEF senderVars
  <2>. QED BY <2>1, <2>2 DEF AllocInv, senderVars, Allocated
<1>12. ASSUME NEW c \in Carriers, PublishData(c) PROVE AllocInv'
  <2>1. reading[c] \in Allocated /\ MarkProcessed(reading[c]) /\ UNCHANGED nextPacket
    BY <1>12 DEF AllocInv, PublishData, Publish, senderVars
  <2>2. AppliedIds' \subseteq Allocated'
    BY <2>1, <1>3
  <2>. QED BY <1>12, <2>2 DEF AllocInv, PublishData, Publish, senderVars, Allocated
<1>13. ASSUME NEW id \in Ids, PublishOrphan(id) PROVE AllocInv'
  <2>1. id \in Allocated /\ MarkProcessed(id) /\ UNCHANGED nextPacket
    BY <1>13 DEF AllocInv, PublishOrphan, Publish, senderVars
  <2>2. AppliedIds' \subseteq Allocated'
    BY <2>1, <1>3
  <2>. QED BY <1>13, <2>2 DEF AllocInv, PublishOrphan, Publish, senderVars, Allocated
<1>14. ASSUME NEW c \in Carriers, RecvRetire(c) PROVE AllocInv'
  BY <1>14 DEF AllocInv, RecvRetire, senderVars, handledVars, readerVars, AppliedIds, Allocated
<1>15. ASSUME NEW id \in Ids, BackendAnswers(id) PROVE AllocInv'
  BY <1>15 DEF AllocInv, BackendAnswers, senderVars, AppliedIds, Allocated
<1>16. ASSUME NEW c \in Carriers, SenderDetach(c) PROVE AllocInv'
  BY <1>16 DEF AllocInv, SenderDetach, Reinject, recvVars, handledVars, readerVars, AppliedIds, Allocated
<1>17. ASSUME NEW c \in Carriers, ReceiverDetach(c) PROVE AllocInv'
  <2>1. flight' \in [Carriers -> Seq(Allocated)]
    BY <1>17, EmptyType DEF AllocInv, ReceiverDetach
  <2>. QED BY <1>17, <2>1 DEF AllocInv, ReceiverDetach, Orphan, senderVars, handledVars, AppliedIds, Allocated
<1>18. ASSUME NEW c \in Carriers, Attach(c) PROVE AllocInv'
  <2>1. flight' \in [Carriers -> Seq(Allocated)]
    BY <1>18, EmptyType DEF AllocInv, Attach
  <2>2. ready' \subseteq pending'
    BY <1>18 DEF AllocInv, Attach, Reinject
  <2>. QED BY <1>18, <2>1, <2>2 DEF AllocInv, Attach, Orphan, handledVars, AppliedIds, Allocated
<1>19. CASE UNCHANGED vars
  BY <1>19 DEF AllocInv, vars, senderVars, recvVars, handledVars, readerVars, netVars, AppliedIds, Allocated
<1>. QED
  BY <1>1, <1>4, <1>5, <1>6, <1>7, <1>8, <1>9, <1>10, <1>11, <1>12, <1>13, <1>14, <1>15,
     <1>16, <1>17, <1>18, <1>19 DEF Next, SenderStep, ReceiverStep, CarrierStep

-----------------------------------------------------------------------------
(* The receiver.                                                           *)

LEMMA ReceiverInvStutters ==
  ReceiverInv /\ UNCHANGED <<handledVars, readerVars>> => ReceiverInv'
BY DEF ReceiverInv, ReceiverMemoryBounded, handledVars, readerVars, AppliedIds

(* Remembering id and marking it processed, with what a confirmation adds. *)
LEMMA HandledKeeps ==
  ASSUME IInv, NEW id \in Ids, MarkProcessed(id), peerRetired' = peerRetired,
         fingerprint' \in {fingerprint, fingerprint \cup {id}},
         id \in fingerprint' \cup 1..peerRetired,
         id <= peerRetired => fingerprint' = fingerprint,
         replay' = replay \/ (id > peerRetired /\ replay' = replay \cup {id})
  PROVE  /\ peerRetired' <= processedThrough' /\ processedThrough' + 1 \notin processed'
         /\ replay' \subseteq AppliedIds' /\ ReceiverMemoryBounded'
         /\ AppliedIds' = AppliedIds \cup {id}
<1> USE DEF IInv, TypeOK
<1>1. /\ processedThrough \in Nat /\ peerRetired \in Nat /\ id \in Nat /\ id >= 1
      /\ processedThrough' \in Int /\ peerRetired <= processedThrough
  BY TxAssumption DEF ReceiverTypeOK, ReceiverInv, Ids, MarkProcessed
<1>2. /\ AppliedIds' = AppliedIds \cup {id} /\ processedThrough <= processedThrough'
      /\ processedThrough' + 1 \notin processed' /\ processed' \subseteq processed \cup {id}
      /\ id <= peerRetired => processed' = processed
  BY MarkGrows
<1>3. peerRetired' <= processedThrough'
  BY <1>1, <1>2
<1>4. replay' \subseteq AppliedIds'
  BY <1>2 DEF ReceiverInv
<1>5. replay' \subseteq fingerprint'
  <2>1. replay \subseteq fingerprint'
    BY DEF ReceiverInv, ReceiverMemoryBounded
  <2>2. id > peerRetired => id \in fingerprint'
    BY <1>1
  <2>. QED BY <2>1, <2>2
<1>6. (fingerprint' \cup processed') \cap 1..peerRetired' = {}
  BY <1>1, <1>2 DEF ReceiverInv, ReceiverMemoryBounded
<1>. QED BY <1>2, <1>3, <1>4, <1>5, <1>6 DEF ReceiverMemoryBounded

(* One step of the receiver keeps ReceiverInv.                             *)
LEMMA ReceiverInvStep ==
  ASSUME IInv, ReceiverStep PROVE ReceiverInv'
<1> USE DEF IInv, TypeOK
<1>0. peerRetired \in Nat /\ processedThrough \in Nat
  BY TxAssumption DEF ReceiverTypeOK
<1>1. ASSUME NEW c \in Carriers, RecvDuplicate(c) PROVE ReceiverInv'
  <2>1. PICK id \in Ids :
          /\ ~Remembered(id)
          /\ IF id <= peerRetired THEN UNCHANGED replay ELSE Confirm(c, id)
          /\ UNCHANGED <<fingerprint, processed, processedThrough, peerRetired, readerVars>>
    BY <1>1 DEF RecvDuplicate
  <2>2. replay' = replay
    BY <2>1, <1>0 DEF Remembered, Confirm, Ids
  <2>. QED BY <2>1, <2>2, ReceiverInvStutters DEF handledVars
<1>2. ASSUME NEW c \in Carriers, RecvData(c) PROVE ReceiverInv'
  <2>1. PICK id \in Ids :
          /\ Remembered(id)
          /\ fingerprint' = fingerprint \cup {id} /\ reading' = [reading EXCEPT ![c] = id]
          /\ UNCHANGED <<replay, processed, processedThrough, peerRetired, orphans, opening>>
    BY <1>2 DEF RecvData
  <2>2. id \notin 1..peerRetired
    BY <2>1, <1>0 DEF Remembered, Ids
  <2>3. ReceiverMemoryBounded'
    BY <2>1, <2>2 DEF ReceiverInv, ReceiverMemoryBounded
  <2>4. \A d \in Carriers : reading'[d] \in fingerprint' \cup (1..peerRetired') \cup {NoTx}
    BY <2>1 DEF ReceiverInv, ReceiverTypeOK
  <2>. QED BY <2>1, <2>3, <2>4 DEF ReceiverInv, AppliedIds
<1>3. ASSUME NEW c \in Carriers, RecvControl(c) PROVE ReceiverInv'
  <2>1. PICK id \in Ids :
          /\ Remembered(id) /\ MarkProcessed(id) /\ Confirm(c, id)
          /\ fingerprint' = fingerprint \cup {id} /\ UNCHANGED <<peerRetired, readerVars>>
    BY <1>3 DEF RecvControl
  <2>2. id > peerRetired /\ replay' = replay \cup {id}
    BY <2>1 DEF Remembered, Confirm
  <2>3. /\ peerRetired' <= processedThrough' /\ processedThrough' + 1 \notin processed'
        /\ replay' \subseteq AppliedIds' /\ ReceiverMemoryBounded'
        /\ AppliedIds' = AppliedIds \cup {id}
    BY <2>1, <2>2, <1>0, HandledKeeps DEF Ids
  <2>. QED BY <2>1, <2>3 DEF ReceiverInv, readerVars
<1>4. ASSUME NEW c \in Carriers, RecvOpen(c) PROVE ReceiverInv'
  <2>1. PICK id \in Ids :
          /\ Remembered(id) /\ MarkProcessed(id)
          /\ fingerprint' = fingerprint \cup {id}
          /\ UNCHANGED <<peerRetired, reading, orphans>>
          /\ \/ opening' = opening \cup {id} /\ replay' = replay
             \/ opening' = opening /\ (replay' = replay \/ Confirm(c, id))
    BY <1>4 DEF RecvOpen
  <2>2. id > peerRetired /\ (replay' = replay \/ replay' = replay \cup {id})
    BY <2>1 DEF Remembered, Confirm
  <2>3. /\ peerRetired' <= processedThrough' /\ processedThrough' + 1 \notin processed'
        /\ replay' \subseteq AppliedIds' /\ ReceiverMemoryBounded'
        /\ AppliedIds' = AppliedIds \cup {id}
    BY <2>1, <2>2, <1>0, HandledKeeps DEF Ids
  <2>4. opening' \subseteq opening \cup {id} /\ id \in fingerprint'
    BY <2>1
  <2>. QED BY <2>1, <2>3, <2>4 DEF ReceiverInv
<1>5. ASSUME NEW c \in Carriers \cup {NoCarrier}, NEW id \in Ids,
             id \in fingerprint \cup 1..peerRetired, Publish(c, id)
      PROVE  /\ peerRetired' <= processedThrough' /\ processedThrough' + 1 \notin processed'
             /\ replay' \subseteq AppliedIds' /\ ReceiverMemoryBounded'
             /\ AppliedIds' = AppliedIds \cup {id}
             /\ fingerprint' = fingerprint /\ peerRetired' = peerRetired /\ opening' = opening
  <2>1. /\ MarkProcessed(id) /\ UNCHANGED <<fingerprint, peerRetired, opening>>
        /\ replay' = replay \/ Confirm(c, id)
    BY <1>5 DEF Publish
  <2>2. replay' = replay \/ (id > peerRetired /\ replay' = replay \cup {id})
    BY <2>1 DEF Confirm
  <2>. QED BY <1>5, <2>1, <2>2, HandledKeeps
<1>6. ASSUME NEW c \in Carriers, PublishData(c) PROVE ReceiverInv'
  <2>1. reading[c] \in Ids /\ reading[c] \in fingerprint \cup 1..peerRetired
    BY <1>6 DEF PublishData, ReceiverTypeOK, ReceiverInv
  <2>2. /\ Publish(c, reading[c]) /\ reading' = [reading EXCEPT ![c] = NoTx]
        /\ orphans' = orphans
    BY <1>6 DEF PublishData
  <2>3. \A d \in Carriers : reading'[d] \in {reading[d], NoTx}
    BY <2>2 DEF ReceiverTypeOK
  <2>. QED BY <2>1, <2>2, <2>3, <1>5 DEF ReceiverInv
<1>7. ASSUME NEW id \in Ids, PublishOrphan(id) PROVE ReceiverInv'
  <2>1. id \in fingerprint \cup 1..peerRetired /\ Publish(NoCarrier, id)
    BY <1>7 DEF PublishOrphan, ReceiverInv
  <2>2. orphans' \subseteq orphans /\ reading' = reading
    BY <1>7 DEF PublishOrphan
  <2>. QED BY <2>1, <2>2, <1>5 DEF ReceiverInv
<1>8. ASSUME NEW id \in Ids, BackendAnswers(id) PROVE ReceiverInv'
  <2>1. /\ id \in opening /\ opening' = opening \ {id}
        /\ UNCHANGED <<fingerprint, processed, processedThrough, peerRetired, reading, orphans>>
        /\ replay' = replay \/ Confirm(NoCarrier, id)
    BY <1>8 DEF BackendAnswers
  <2>2. replay' = replay \/ (id > peerRetired /\ replay' = replay \cup {id})
    BY <2>1 DEF Confirm
  <2>3. id \in AppliedIds /\ id \in fingerprint \cup 1..peerRetired
    BY <2>1 DEF ReceiverInv
  <2>4. replay' \subseteq AppliedIds /\ replay' \subseteq fingerprint
    BY <2>2, <2>3, <1>0 DEF ReceiverInv, ReceiverMemoryBounded
  <2>. QED BY <2>1, <2>4 DEF ReceiverInv, ReceiverMemoryBounded, AppliedIds
<1>9. ASSUME NEW c \in Carriers, RecvRetire(c) PROVE ReceiverInv'
  <2> DEFINE offset == Head(retires[c])
  <2>1. CASE UNCHANGED <<handledVars>>
    BY <1>9, <2>1, ReceiverInvStutters DEF RecvRetire
  <2>2. CASE ~UNCHANGED handledVars
    <3>1. /\ ~(offset > processedThrough) /\ ~(offset <= peerRetired)
          /\ peerRetired' = offset /\ processed' = processed \ 1..offset
          /\ replay' = replay \ (fingerprint \cap 1..offset)
          /\ fingerprint' = fingerprint \ 1..offset
          /\ UNCHANGED <<processedThrough, readerVars>>
      BY <1>9, <2>2 DEF RecvRetire
    <3>2. offset \in Nat
      BY <1>9, TxAssumption DEF RecvRetire, NetTypeOK, Ids
    <3>3. 1..peerRetired \subseteq 1..offset /\ 1..offset \subseteq 1..processedThrough
      BY <1>0, <3>1, <3>2
    <3>4. replay' = replay \ 1..offset
      BY <3>1 DEF ReceiverInv, ReceiverMemoryBounded
    <3>5. ReceiverMemoryBounded'
      BY <3>1, <3>4 DEF ReceiverInv, ReceiverMemoryBounded
    <3>6. AppliedIds' = AppliedIds
      BY <3>1, <3>3 DEF AppliedIds
    <3>7. peerRetired' <= processedThrough' /\ processedThrough' + 1 \notin processed'
      BY <1>0, <3>1, <3>2 DEF ReceiverInv
    <3>8. replay' \subseteq AppliedIds' /\ opening' \subseteq AppliedIds'
      BY <3>1, <3>4, <3>6 DEF ReceiverInv, readerVars
    <3>9. fingerprint \cup 1..peerRetired \subseteq fingerprint' \cup 1..peerRetired'
      BY <3>1, <3>3
    <3>10. opening' \cup orphans' \subseteq fingerprint' \cup 1..peerRetired'
      BY <3>1, <3>9 DEF ReceiverInv, readerVars
    <3>11. \A d \in Carriers : reading'[d] \in fingerprint' \cup (1..peerRetired') \cup {NoTx}
      BY <3>1, <3>9 DEF ReceiverInv, readerVars
    <3>. QED BY <3>5, <3>7, <3>8, <3>10, <3>11 DEF ReceiverInv
  <2>. QED BY <2>1, <2>2
<1>. QED BY <1>1, <1>2, <1>3, <1>4, <1>6, <1>7, <1>8, <1>9 DEF ReceiverStep

(* So does any other step.                                                 *)
LEMMA ReceiverInvKept ==
  ASSUME IInv, [Next]_vars PROVE ReceiverInv'
<1> USE DEF IInv, TypeOK
<1>1. ASSUME NEW c \in Carriers, Orphan(c), UNCHANGED <<handledVars, opening>>
      PROVE  ReceiverInv'
  <2>1. /\ orphans' \subseteq orphans \cup ({reading[c]} \ {NoTx})
        /\ reading' = [reading EXCEPT ![c] = NoTx]
    BY <1>1 DEF Orphan
  <2>2. \A d \in Carriers : reading'[d] \in {reading[d], NoTx}
    BY <2>1 DEF ReceiverTypeOK
  <2>. QED BY <1>1, <2>1, <2>2 DEF ReceiverInv, ReceiverMemoryBounded, handledVars, AppliedIds
<1>2. CASE SenderStep
  BY <1>2, ReceiverInvStutters
  DEF SenderStep, Allocate, Retransmit, Expire, Dispatch, WriteTask, Settle, AckUnmatched, recvVars
<1>3. CASE CarrierStep
  BY <1>3, <1>1, ReceiverInvStutters
  DEF CarrierStep, SenderDetach, ReceiverDetach, Attach, recvVars
<1>4. CASE UNCHANGED vars
  BY <1>4, ReceiverInvStutters DEF vars, recvVars
<1>. QED BY <1>2, <1>3, <1>4, ReceiverInvStep DEF Next


-----------------------------------------------------------------------------
(* The two endpoints together.                                             *)

(* Queueing a confirmation keeps the confirmation lanes.                   *)
LEMMA ConfirmLanes ==
  ASSUME NEW S, acks \in [Carriers -> Seq(S)], NEW c, NEW id \in S, SendConfirmation(c, id)
  PROVE  acks' \in [Carriers -> Seq(S)]
<1>1. ASSUME NEW d \in Routes(c),
             acks' = IF up[d] THEN [acks EXCEPT ![d] = Append(@, id)] ELSE acks
      PROVE  acks' \in [Carriers -> Seq(S)]
  <2>1. d \in Carriers
    BY DEF Routes
  <2>. QED BY <1>1, <2>1, AppendType
<1>. QED BY <1>1 DEF SendConfirmation

(* A watermark is advertised no higher than it is.                         *)
LEMMA AdvertiseLanes ==
  ASSUME NEW through \in Nat, NEW last \in Nat, last <= through,
         NEW alive \in SUBSET Carriers, NEW reached, NEW lanes \in [Carriers -> Seq(1..through)],
         AdvertiseRetire(through, last, alive, reached, lanes)
  PROVE  lastRetire' <= through /\ retires' \in [Carriers -> Seq(1..through)]
<1>1. lastRetire' \in {through, last}
  BY DEF AdvertiseRetire
<1>2. CASE retires' = lanes
  BY <1>1, <1>2
<1>3. ASSUME through > last, NEW c \in Carriers,
             retires' = IF reached[c] THEN [lanes EXCEPT ![c] = Append(@, through)] ELSE lanes
      PROVE  retires' \in [Carriers -> Seq(1..through)]
  <2>1. through \in 1..through
    BY <1>3
  <2>. QED BY <1>3, <2>1, AppendType
<1>. QED BY <1>1, <1>2, <1>3, SMTT(30) DEF AdvertiseRetire

(* A step that leaves the sender alone keeps SettleInv if the receiver only*)
(* confirms more, and what it retires the sender has settled.              *)
LEMMA SettleKeeps ==
  ASSUME IInv, UNCHANGED <<pending, settled, settledThrough, lastRetire>>,
         Confirmed \subseteq Confirmed', peerRetired' <= settledThrough,
         acks' \in [Carriers -> Seq(Confirmed')],
         retires' \in [Carriers -> Seq(1..settledThrough)]
  PROVE  SettleInv'
BY DEF IInv, SettleInv, SettledIds

(* The same for a step of the receiver that confirms at most id.           *)
LEMMA ReceiverConfirms ==
  ASSUME IInv, UNCHANGED <<pending, settled, settledThrough, lastRetire, peerRetired, retires>>,
         NEW c, NEW id \in Ids, Confirm(c, id) \/ UNCHANGED <<replay, acks>>
  PROVE  SettleInv'
<1> USE DEF IInv, TypeOK
<1>1. acks \in [Carriers -> Seq(Confirmed)]
  BY DEF SettleInv
<1>2. Confirmed \subseteq Confirmed'
  BY DEF Confirmed, Confirm
<1>3. acks \in [Carriers -> Seq(Confirmed')]
  BY <1>1, <1>2, SeqGrows
<1>4. CASE Confirm(c, id)
  <2>1. peerRetired \in Nat /\ id \in Nat /\ id >= 1
    BY TxAssumption DEF ReceiverTypeOK, Ids
  <2>2. id \in Confirmed'
    BY <1>4, <2>1 DEF Confirmed, Confirm
  <2>3. acks' \in [Carriers -> Seq(Confirmed')]
    BY <1>3, <1>4, <2>2, ConfirmLanes DEF Confirm
  <2>. QED BY <1>2, <2>3, SettleKeeps DEF SettleInv
<1>5. CASE UNCHANGED <<replay, acks>>
  BY <1>2, <1>3, <1>5, SettleKeeps DEF SettleInv
<1>. QED BY <1>4, <1>5

(* What the receiver will not handle again was allocated.                  *)
LEMMA ConfirmedAllocated == IInv => Confirmed \subseteq AppliedIds /\ AppliedIds \subseteq Allocated
<1> SUFFICES ASSUME IInv PROVE Confirmed \subseteq AppliedIds /\ AppliedIds \subseteq Allocated
  OBVIOUS
<1>1. peerRetired \in Nat /\ processedThrough \in Nat /\ peerRetired <= processedThrough
  BY TxAssumption DEF IInv, TypeOK, ReceiverTypeOK, ReceiverInv
<1>2. 1..peerRetired \subseteq 1..processedThrough
  BY <1>1
<1>. QED BY <1>2 DEF IInv, ReceiverInv, AllocInv, Confirmed, AppliedIds

(* One step of the receiver keeps SettleInv.                               *)
LEMMA SettleInvReceiver ==
  ASSUME IInv, ReceiverStep PROVE SettleInv'
<1> USE DEF IInv, TypeOK
<1>1. ASSUME NEW c \in Carriers, RecvDuplicate(c) PROVE SettleInv'
  <2>1. PICK id \in Ids :
          /\ Confirm(c, id) \/ UNCHANGED <<replay, acks>>
          /\ UNCHANGED <<senderVars, peerRetired, retires>>
    BY <1>1 DEF RecvDuplicate
  <2>. QED BY <2>1, ReceiverConfirms DEF senderVars
<1>2. ASSUME NEW c \in Carriers, RecvData(c) PROVE SettleInv'
  BY <1>2 DEF SettleInv, RecvData, senderVars, SettledIds, Confirmed
<1>3. ASSUME NEW c \in Carriers, RecvControl(c) PROVE SettleInv'
  <2>1. PICK id \in Ids : Confirm(c, id) /\ UNCHANGED <<senderVars, peerRetired, retires>>
    BY <1>3 DEF RecvControl
  <2>. QED BY <2>1, ReceiverConfirms DEF senderVars
<1>4. ASSUME NEW c \in Carriers, RecvOpen(c) PROVE SettleInv'
  <2>1. PICK id \in Ids :
          /\ Confirm(c, id) \/ UNCHANGED <<replay, acks>>
          /\ UNCHANGED <<senderVars, peerRetired, retires>>
    BY <1>4 DEF RecvOpen
  <2>. QED BY <2>1, ReceiverConfirms DEF senderVars
<1>5. ASSUME NEW c, NEW id \in Ids, Publish(c, id) PROVE SettleInv'
  <2>1. /\ Confirm(c, id) \/ UNCHANGED <<replay, acks>>
        /\ UNCHANGED <<senderVars, peerRetired, retires>>
    BY <1>5 DEF Publish
  <2>. QED BY <2>1, ReceiverConfirms DEF senderVars
<1>6. ASSUME NEW c \in Carriers, PublishData(c) PROVE SettleInv'
  BY <1>5, <1>6 DEF PublishData, ReceiverTypeOK
<1>7. ASSUME NEW id \in Ids, PublishOrphan(id) PROVE SettleInv'
  BY <1>5, <1>7 DEF PublishOrphan
<1>8. ASSUME NEW id \in Ids, BackendAnswers(id) PROVE SettleInv'
  <2>1. /\ Confirm(NoCarrier, id) \/ UNCHANGED <<replay, acks>>
        /\ UNCHANGED <<senderVars, peerRetired, retires>>
    BY <1>8 DEF BackendAnswers
  <2>. QED BY <2>1, ReceiverConfirms DEF senderVars
<1>9. ASSUME NEW c \in Carriers, RecvRetire(c) PROVE SettleInv'
  <2> DEFINE offset == Head(retires[c])
  <2>1. /\ retires' \in [Carriers -> Seq(1..settledThrough)] /\ offset \in 1..settledThrough
        /\ UNCHANGED <<pending, settled, settledThrough, lastRetire, acks>>
    BY <1>9, TailType DEF RecvRetire, SettleInv, senderVars
  <2>2. CASE UNCHANGED handledVars
    BY <2>1, <2>2 DEF SettleInv, SettledIds, Confirmed, handledVars
  <2>3. CASE ~UNCHANGED handledVars
    <3>1. /\ ~(offset <= peerRetired) /\ peerRetired' = offset
          /\ replay' = replay \ (fingerprint \cap 1..offset)
      BY <1>9, <2>3 DEF RecvRetire
    <3>2. peerRetired \in Nat /\ settledThrough \in Nat
      BY TxAssumption DEF ReceiverTypeOK, SenderTypeOK
    <3>3. 1..peerRetired \subseteq 1..offset
      BY <2>1, <3>1, <3>2
    <3>4. Confirmed \subseteq Confirmed'
      BY <3>1, <3>3 DEF Confirmed
    <3>5. acks' \in [Carriers -> Seq(Confirmed')]
      BY <2>1, <3>4, SeqGrows DEF SettleInv
    <3>6. peerRetired' <= settledThrough
      BY <2>1, <3>1, <3>2
    <3>. QED BY <2>1, <3>4, <3>5, <3>6, SettleKeeps
  <2>. QED BY <2>2, <2>3
<1>. QED BY <1>1, <1>2, <1>3, <1>4, <1>6, <1>7, <1>8, <1>9 DEF ReceiverStep

(* So does any other step.                                                 *)
LEMMA SettleInvKept ==
  ASSUME IInv, [Next]_vars PROVE SettleInv'
<1> USE DEF IInv, TypeOK
<1>1. CASE Allocate
  <2>1. nextPacket + 1 \notin SettledIds
    BY ConfirmedAllocated, TxAssumption DEF SettleInv, SenderTypeOK, Allocated
  <2>2. /\ pending' = pending \cup {nextPacket + 1}
        /\ UNCHANGED <<settled, settledThrough, lastRetire, replay, peerRetired, acks, retires>>
    BY <1>1 DEF Allocate, recvVars, handledVars, netVars
  <2>. QED BY <2>1, <2>2 DEF SettleInv, SettledIds, Confirmed
<1>2. ASSUME pending' \subseteq pending,
             UNCHANGED <<settled, settledThrough, lastRetire, replay, peerRetired, acks, retires>>
      PROVE  SettleInv'
  BY <1>2 DEF SettleInv, SettledIds, Confirmed
<1>3. ASSUME NEW id \in Ids, Retransmit(id) \/ Expire(id) PROVE SettleInv'
  BY <1>2, <1>3 DEF Retransmit, Expire, recvVars, handledVars, netVars
<1>4. ASSUME NEW id \in Ids, NEW c \in Carriers, Dispatch(id, c) PROVE SettleInv'
  BY <1>2, <1>4 DEF Dispatch, recvVars, handledVars, netVars
<1>5. ASSUME NEW c \in Carriers, NEW t \in queue[c], WriteTask(c, t) PROVE SettleInv'
  BY <1>2, <1>5 DEF WriteTask, recvVars, handledVars
<1>6. ASSUME NEW c \in Carriers, Settle(c) PROVE SettleInv'
  <2> DEFINE id == Head(acks[c])
  <2>1. /\ acks' \in [Carriers -> Seq(Confirmed)] /\ id \in Confirmed
        /\ pending' = pending \ {id} /\ Confirmed' = Confirmed /\ peerRetired' = peerRetired
    BY <1>6, TailType DEF Settle, SettleInv, recvVars, handledVars, Confirmed
  <2>2. PICK n \in settledThrough..MaxTx :
          /\ EndsRun(settledThrough, settled \cup {id}, n)
          /\ settledThrough' = n
          /\ settled' = (settled \cup {id}) \ (settledThrough + 1)..n
          /\ AdvertiseRetire(n, lastRetire, Active, peerUp, retires)
    BY <1>6 DEF Settle
  <2>3. id \in Ids
    BY <1>6, TailType DEF Settle, NetTypeOK
  <2>4. SettledIds' = SettledIds \cup {id} /\ settledThrough <= settledThrough'
    <3>. HIDE DEF id
    <3>. QED BY <2>2, <2>3, SettleGrows
  <2>5. settledThrough \in Nat /\ n \in Nat /\ lastRetire \in Nat /\ peerRetired \in Nat
    BY <2>2, TxAssumption DEF SenderTypeOK, ReceiverTypeOK
  <2>6. lastRetire <= n /\ peerRetired' <= n
    BY <2>1, <2>2, <2>5 DEF SettleInv
  <2>7. retires \in [Carriers -> Seq(1..n)]
    <3>1. 1..settledThrough \subseteq 1..n
      BY <2>2, <2>5
    <3>. QED BY <3>1, SeqGrows DEF SettleInv
  <2>8. lastRetire' <= n /\ retires' \in [Carriers -> Seq(1..n)]
    <3>1. Active \in SUBSET Carriers
      BY DEF Active
    <3>. QED BY <2>2, <2>5, <2>6, <2>7, <3>1, AdvertiseLanes
  <2>9. SettledIds' \subseteq Confirmed' /\ pending' \cap SettledIds' = {}
    BY <2>1, <2>4 DEF SettleInv
  <2>. QED BY <2>1, <2>2, <2>6, <2>8, <2>9 DEF SettleInv
<1>7. ASSUME NEW c \in Carriers, AckUnmatched(c) PROVE SettleInv'
  BY <1>7, TailType
  DEF AckUnmatched, SettleInv, senderVars, recvVars, handledVars, SettledIds, Confirmed
<1>8. ASSUME NEW c \in Carriers, SenderDetach(c) PROVE SettleInv'
  <2>1. lastRetire' \in {0, lastRetire} /\ peerRetired' = peerRetired /\ Confirmed' = Confirmed
    BY <1>8 DEF SenderDetach, RetireMemory, recvVars, handledVars, Confirmed
  <2>2. lastRetire' <= settledThrough
    BY <2>1, TxAssumption DEF SettleInv, SenderTypeOK
  <2>3. acks' \in [Carriers -> Seq(Confirmed')]
    BY <1>8, <2>1, EmptyType DEF SenderDetach, SettleInv
  <2>. QED BY <1>8, <2>1, <2>2, <2>3 DEF SenderDetach, SettleInv, SettledIds
<1>9. ASSUME NEW c \in Carriers, ReceiverDetach(c) PROVE SettleInv'
  <2>1. retires' \in [Carriers -> Seq(1..settledThrough)]
    BY <1>9, EmptyType DEF ReceiverDetach, SettleInv
  <2>. QED BY <1>9, <2>1
    DEF ReceiverDetach, SettleInv, senderVars, handledVars, SettledIds, Confirmed
<1>10. ASSUME NEW c \in Carriers, Attach(c) PROVE SettleInv'
  <2> DEFINE last == IF up[c] THEN RetireMemory(c) ELSE lastRetire
             lanes == [retires EXCEPT ![c] = <<>>]
  <2>1. /\ settledThrough \in Nat /\ last \in Nat /\ last <= settledThrough
    BY TxAssumption DEF SettleInv, SenderTypeOK, RetireMemory
  <2>2. lanes \in [Carriers -> Seq(1..settledThrough)] /\ Active \cup {c} \in SUBSET Carriers
    BY EmptyType DEF SettleInv, Active
  <2>3. AdvertiseRetire(settledThrough, last, Active \cup {c}, peerUp', lanes)
    BY <1>10 DEF Attach
  <2>4. lastRetire' <= settledThrough /\ retires' \in [Carriers -> Seq(1..settledThrough)]
    <3>. HIDE DEF last, lanes
    <3>. QED BY <2>1, <2>2, <2>3, AdvertiseLanes
  <2>5. /\ UNCHANGED <<pending, settled, settledThrough, handledVars>>
        /\ acks' = [acks EXCEPT ![c] = <<>>]
    BY <1>10 DEF Attach
  <2>6. acks' \in [Carriers -> Seq(Confirmed)]
    BY <2>5, EmptyType DEF SettleInv
  <2>. QED BY <2>4, <2>5, <2>6 DEF SettleInv, SettledIds, Confirmed, handledVars
<1>11. CASE UNCHANGED vars
  BY <1>2, <1>11 DEF vars, senderVars, recvVars, handledVars, netVars
<1>. QED
  BY <1>1, <1>3, <1>4, <1>5, <1>6, <1>7, <1>8, <1>9, <1>10, <1>11, SettleInvReceiver
  DEF Next, SenderStep, CarrierStep

(* The inductive invariant holds in every reachable state.                 *)
THEOREM Inductive == Spec => []IInv
<1>1. Init => IInv
  BY TypeInit, InvInit DEF IInv
<1>2. IInv /\ [Next]_vars => IInv'
  BY TypeStep, AllocStep, ReceiverInvKept, SettleInvKept DEF IInv
<1>. QED BY <1>1, <1>2, PTL DEF Spec

-----------------------------------------------------------------------------
(* What follows for the two endpoints.                                     *)

(* The receiver forgets no more than the sender settled contiguously, and  *)
(* no RETIRE under way is beyond what the receiver has processed: the      *)
(* "beyond processed Transmission ID" failure of                           *)
(* handleTransmissionRetireLocked cannot be raised by a correct peer.      *)
THEOREM RetireOrdered == Spec => []RetireChain
<1>1. IInv => RetireChain
  <2> SUFFICES ASSUME IInv PROVE RetireChain
    OBVIOUS
  <2>1. ASSUME NEW c \in Carriers, NEW i \in DOMAIN retires[c]
        PROVE  retires[c][i] \in 1..settledThrough
    <3>1. retires[c] \in Seq(1..settledThrough)
      BY DEF IInv, SettleInv
    <3>. QED BY <3>1, ElementType
  <2>2. settledThrough \in Nat
    BY TxAssumption DEF IInv, TypeOK, SenderTypeOK
  <2>. QED BY <2>1, <2>2, SettledWithinProcessed DEF IInv, SettleInv, RetireChain
<1>. QED BY <1>1, Inductive, PTL

(* The replay memory of the receiver never covers an ID it was told to     *)
(* retire, whatever publication or accept ends after the RETIRE.           *)
THEOREM MemoryBounded == Spec => []ReceiverMemoryBounded
<1>1. IInv => ReceiverMemoryBounded
  BY DEF IInv, ReceiverInv
<1>. QED BY <1>1, Inductive, PTL

(* One step brings no settled Transmission back to its handler.            *)
LEMMA SettledFrozen ==
  ASSUME IInv, [Next]_vars, NEW id \in SettledIds
  PROVE  /\ \A c \in Carriers : reading'[c] = id => reading[c] = id
         /\ id \in opening' => id \in opening
         /\ id \in fingerprint' => id \in fingerprint
<1> USE DEF IInv, TypeOK
<1> DEFINE Frozen == /\ \A c \in Carriers : reading'[c] = id => reading[c] = id
                     /\ id \in opening' => id \in opening
                     /\ id \in fingerprint' => id \in fingerprint
<1>1. id \in Ids /\ ~Remembered(id)
  BY TxAssumption DEF SettleInv, Confirmed, Remembered, SettledIds, SenderTypeOK, ReceiverTypeOK, Ids
<1>2. NoTx # id
  BY <1>1, TxAssumption
<1>3. ASSUME UNCHANGED readerVars, fingerprint' \subseteq fingerprint PROVE Frozen
  BY <1>3 DEF readerVars
<1>4. ASSUME NEW c \in Carriers, reading' = [reading EXCEPT ![c] = NoTx],
             opening' = opening, fingerprint' = fingerprint
      PROVE  Frozen
  BY <1>2, <1>4 DEF ReceiverTypeOK
<1>5. CASE SenderStep
  BY <1>3, <1>5 DEF SenderStep, Allocate, Retransmit, Expire, Dispatch, WriteTask, Settle,
                    AckUnmatched, recvVars, handledVars
<1>6. ASSUME NEW c \in Carriers, RecvDuplicate(c) \/ RecvRetire(c) PROVE Frozen
  BY <1>3, <1>6 DEF RecvDuplicate, RecvRetire, handledVars
<1>7. ASSUME NEW c \in Carriers, RecvData(c) PROVE Frozen
  <2>1. PICK new \in Ids : /\ Remembered(new) /\ fingerprint' = fingerprint \cup {new}
                           /\ reading' = [reading EXCEPT ![c] = new] /\ opening' = opening
    BY <1>7 DEF RecvData
  <2>2. new # id
    BY <1>1, <2>1
  <2>. QED BY <2>1, <2>2 DEF ReceiverTypeOK
<1>8. ASSUME NEW c \in Carriers, RecvControl(c) PROVE Frozen
  <2>1. PICK new \in Ids : /\ Remembered(new) /\ fingerprint' = fingerprint \cup {new}
                           /\ UNCHANGED readerVars
    BY <1>8 DEF RecvControl
  <2>. QED BY <1>1, <2>1 DEF readerVars
<1>9. ASSUME NEW c \in Carriers, RecvOpen(c) PROVE Frozen
  <2>1. PICK new \in Ids : /\ Remembered(new) /\ fingerprint' = fingerprint \cup {new}
                           /\ opening' \subseteq opening \cup {new} /\ reading' = reading
    BY <1>9 DEF RecvOpen
  <2>. QED BY <1>1, <2>1
<1>10. ASSUME NEW c \in Carriers, PublishData(c) PROVE Frozen
  BY <1>4, <1>10 DEF PublishData, Publish
<1>11. ASSUME NEW old \in Ids, PublishOrphan(old) \/ BackendAnswers(old) PROVE Frozen
  BY <1>11 DEF PublishOrphan, Publish, BackendAnswers
<1>12. ASSUME NEW c \in Carriers, SenderDetach(c) PROVE Frozen
  BY <1>3, <1>12 DEF SenderDetach, recvVars, handledVars
<1>13. ASSUME NEW c \in Carriers, ReceiverDetach(c) \/ Attach(c) PROVE Frozen
  BY <1>4, <1>13 DEF ReceiverDetach, Attach, Orphan, handledVars
<1>14. CASE UNCHANGED vars
  BY <1>3, <1>14 DEF vars, recvVars, handledVars
<1>. QED
  BY <1>5, <1>6, <1>7, <1>8, <1>9, <1>10, <1>11, <1>12, <1>13, <1>14
  DEF Next, ReceiverStep, CarrierStep

(* A settled Transmission is not handled again by any attempt still on its *)
(* way: peerAttemptLocked keeps it out, before and after the RETIRE.       *)
THEOREM SettledStaysHandled == Spec => SettledNeverHandledAgain
<1>1. IInv /\ [Next]_vars =>
        [\A id \in SettledIds :
           /\ \A c \in Carriers : reading'[c] = id => reading[c] = id
           /\ id \in opening' => id \in opening
           /\ id \in fingerprint' => id \in fingerprint]_vars
  BY SettledFrozen
<1>. QED BY <1>1, Inductive, PTL DEF Spec, SettledNeverHandledAgain

-----------------------------------------------------------------------------
(* The contract.                                                           *)

LEMMA ContractInit == Init => Contract!Init
BY DEF Init, Contract!Init, AppliedIds, SettledIds

(* Marking an allocated Transmission processed applies it, once.           *)
LEMMA MarkApplies ==
  ASSUME IInv, NEW id \in Allocated, MarkProcessed(id),
         UNCHANGED <<nextPacket, settled, settledThrough, peerRetired>>
  PROVE  [Contract!Next]_(Contract!vars)
<1>1. id \in Ids
  BY TxAssumption DEF IInv, TypeOK, SenderTypeOK, Allocated, Ids
<1>2. AppliedIds' = AppliedIds \cup {id} /\ SettledIds' = SettledIds
  BY <1>1, MarkGrows DEF IInv, TypeOK, SettledIds
<1>3. CASE id \in AppliedIds
  BY <1>2, <1>3 DEF Contract!vars
<1>4. CASE id \notin AppliedIds
  <2>1. Contract!Apply(id)
    BY <1>2, <1>4 DEF Contract!Apply
  <2>. QED BY <2>1 DEF Contract!Next, Allocated
<1>. QED BY <1>3, <1>4

(* Every step of the layer is a step of its contract, or none.             *)
LEMMA ContractStep ==
  ASSUME IInv, [Next]_vars PROVE [Contract!Next]_(Contract!vars)
<1> USE DEF IInv, TypeOK
<1>0. ASSUME UNCHANGED <<nextPacket, settled, settledThrough, processed, processedThrough, peerRetired>>
      PROVE  [Contract!Next]_(Contract!vars)
  BY <1>0 DEF Contract!vars, AppliedIds, SettledIds
<1>1. CASE Allocate
  <2>1. nextPacket' = nextPacket + 1 /\ nextPacket < MaxTx
    BY <1>1, TxAssumption DEF Allocate, SenderTypeOK, Ids
  <2>2. UNCHANGED <<AppliedIds, SettledIds, peerRetired>>
    BY <1>1 DEF Allocate, recvVars, handledVars, AppliedIds, SettledIds
  <2>. QED BY <2>1, <2>2 DEF Contract!Next, Contract!Allocate
<1>2. ASSUME NEW id \in Ids, Retransmit(id) \/ Expire(id) PROVE [Contract!Next]_(Contract!vars)
  BY <1>0, <1>2 DEF Retransmit, Expire, recvVars, handledVars
<1>3. ASSUME NEW id \in Ids, NEW c \in Carriers, Dispatch(id, c) PROVE [Contract!Next]_(Contract!vars)
  BY <1>0, <1>3 DEF Dispatch, recvVars, handledVars
<1>4. ASSUME NEW c \in Carriers, NEW t \in queue[c], WriteTask(c, t) PROVE [Contract!Next]_(Contract!vars)
  BY <1>0, <1>4 DEF WriteTask, recvVars, handledVars
<1>5. ASSUME NEW c \in Carriers, Settle(c) PROVE [Contract!Next]_(Contract!vars)
  <2> DEFINE id == Head(acks[c])
  <2>1. /\ id \in Confirmed /\ id \in Ids
        /\ id \in pending /\ UNCHANGED <<nextPacket, AppliedIds, peerRetired>>
    BY <1>5, TailType DEF Settle, SettleInv, NetTypeOK, recvVars, handledVars, AppliedIds
  <2>2. PICK n \in settledThrough..MaxTx :
          /\ EndsRun(settledThrough, settled \cup {id}, n)
          /\ settledThrough' = n
          /\ settled' = (settled \cup {id}) \ (settledThrough + 1)..n
    BY <1>5 DEF Settle
  <2>. HIDE DEF id
  <2>3. SettledIds' = SettledIds \cup {id}
    BY <2>1, <2>2, SettleGrows
  <2>4. id \in AppliedIds \ SettledIds /\ id \in 1..nextPacket
    BY <2>1, ConfirmedAllocated DEF SettleInv, AllocInv, Allocated
  <2>5. Contract!Settle(id)
    BY <2>1, <2>3, <2>4 DEF Contract!Settle
  <2>. QED BY <2>4, <2>5 DEF Contract!Next
<1>6. ASSUME NEW c \in Carriers, AckUnmatched(c) PROVE [Contract!Next]_(Contract!vars)
  BY <1>0, <1>6 DEF AckUnmatched, senderVars, recvVars, handledVars
<1>7. ASSUME NEW c \in Carriers, RecvDuplicate(c) \/ RecvData(c) PROVE [Contract!Next]_(Contract!vars)
  BY <1>0, <1>7 DEF RecvDuplicate, RecvData, senderVars
<1>8. ASSUME NEW c \in Carriers, RecvControl(c) \/ RecvOpen(c) PROVE [Contract!Next]_(Contract!vars)
  <2>1. PICK id \in Ids : Arrives(c, id) /\ MarkProcessed(id) /\ UNCHANGED <<senderVars, peerRetired>>
    BY <1>8 DEF RecvControl, RecvOpen
  <2>2. id \in Allocated
    BY <2>1, TailType DEF Arrives, AllocInv
  <2>. QED BY <2>1, <2>2, MarkApplies DEF senderVars
<1>9. ASSUME NEW c, NEW id \in Allocated, Publish(c, id) PROVE [Contract!Next]_(Contract!vars)
  BY <1>9, MarkApplies DEF Publish, senderVars
<1>10. ASSUME NEW c \in Carriers, PublishData(c) PROVE [Contract!Next]_(Contract!vars)
  BY <1>9, <1>10 DEF PublishData, AllocInv
<1>11. ASSUME NEW id \in Ids, PublishOrphan(id) PROVE [Contract!Next]_(Contract!vars)
  BY <1>9, <1>11 DEF PublishOrphan, AllocInv
<1>12. ASSUME NEW id \in Ids, BackendAnswers(id) PROVE [Contract!Next]_(Contract!vars)
  BY <1>0, <1>12 DEF BackendAnswers, senderVars
<1>13. ASSUME NEW c \in Carriers, RecvRetire(c) PROVE [Contract!Next]_(Contract!vars)
  <2> DEFINE offset == Head(retires[c])
  <2>1. CASE UNCHANGED handledVars
    BY <1>0, <1>13, <2>1 DEF RecvRetire, senderVars, handledVars
  <2>2. CASE ~UNCHANGED handledVars
    <3>1. /\ ~(offset > processedThrough) /\ ~(offset <= peerRetired)
          /\ peerRetired' = offset /\ processed' = processed \ 1..offset
          /\ UNCHANGED <<processedThrough, senderVars>>
      BY <1>13, <2>2 DEF RecvRetire
    <3>2. offset \in 1..settledThrough
      BY <1>13, TailType DEF RecvRetire, SettleInv
    <3>3. /\ settledThrough \in Nat /\ processedThrough \in Nat /\ peerRetired \in Nat
          /\ settledThrough <= processedThrough
      BY TxAssumption, SettledWithinProcessed DEF SenderTypeOK, ReceiverTypeOK
    <3>. HIDE DEF offset
    <3>4. 1..offset \subseteq SettledIds /\ 1..offset \subseteq 1..processedThrough
      BY <3>2, <3>3 DEF SettledIds
    <3>5. AppliedIds' = AppliedIds /\ SettledIds' = SettledIds
      BY <3>1, <3>4 DEF AppliedIds, SettledIds, senderVars
    <3>6. Contract!Forget(offset)
      BY <3>1, <3>2, <3>3, <3>4, <3>5 DEF Contract!Forget, senderVars
    <3>7. offset \in 1..nextPacket
      BY <3>2, <3>3, <3>4, ConfirmedAllocated DEF SettleInv, Allocated
    <3>. QED BY <3>6, <3>7 DEF Contract!Next
  <2>. QED BY <2>1, <2>2
<1>14. ASSUME NEW c \in Carriers, SenderDetach(c) \/ ReceiverDetach(c) \/ Attach(c)
       PROVE  [Contract!Next]_(Contract!vars)
  BY <1>0, <1>14 DEF SenderDetach, ReceiverDetach, Attach, senderVars, recvVars, handledVars
<1>15. CASE UNCHANGED vars
  BY <1>0, <1>15 DEF vars, senderVars, recvVars, handledVars
<1>. QED
  BY <1>1, <1>2, <1>3, <1>4, <1>5, <1>6, <1>7, <1>8, <1>10, <1>11, <1>12, <1>13, <1>14, <1>15
  DEF Next, SenderStep, ReceiverStep, CarrierStep

(* The two endpoints implement the contract of ReliableTransfer: a settled *)
(* Transmission took effect at the receiver, and the receiver forgets only *)
(* a prefix that the sender has settled.                                   *)
THEOREM Implements == Spec => KeepsContract
<1>. QED BY ContractInit, ContractStep, Inductive, PTL DEF Spec, KeepsContract, Contract!Spec

-----------------------------------------------------------------------------
(* Where no Transmission expires.                                          *)

LEMMA OutstandingStep ==
  ASSUME Expirable = {}, IInv, AllocatedStaysOutstanding, [Next]_vars
  PROVE  AllocatedStaysOutstanding'
<1> USE DEF IInv, TypeOK
<1>1. CASE Allocate
  <2>1. 1..nextPacket' \subseteq (1..nextPacket) \cup {nextPacket + 1}
    BY <1>1 DEF Allocate, SenderTypeOK
  <2>2. pending' = pending \cup {nextPacket + 1} /\ SettledIds' = SettledIds
    BY <1>1 DEF Allocate, SettledIds
  <2>. QED BY <2>1, <2>2 DEF AllocatedStaysOutstanding
<1>2. ASSUME UNCHANGED <<nextPacket, pending, settled, settledThrough>>
      PROVE  AllocatedStaysOutstanding'
  BY <1>2 DEF AllocatedStaysOutstanding, SettledIds
<1>3. ASSUME NEW c \in Carriers, Settle(c) PROVE AllocatedStaysOutstanding'
  <2> DEFINE id == Head(acks[c])
  <2>1. id \in Ids /\ pending' = pending \ {id} /\ nextPacket' = nextPacket
    BY <1>3, TailType DEF Settle, NetTypeOK
  <2>2. PICK n \in settledThrough..MaxTx :
          /\ EndsRun(settledThrough, settled \cup {id}, n)
          /\ settledThrough' = n
          /\ settled' = (settled \cup {id}) \ (settledThrough + 1)..n
    BY <1>3 DEF Settle
  <2>. HIDE DEF id
  <2>3. SettledIds' = SettledIds \cup {id}
    BY <2>1, <2>2, SettleGrows
  <2>. QED BY <2>1, <2>3 DEF AllocatedStaysOutstanding
<1>4. ASSUME NEW id \in Ids PROVE ~Expire(id)
  BY DEF Expire
<1>5. CASE SenderStep
  BY <1>1, <1>2, <1>3, <1>4, <1>5 DEF SenderStep, Retransmit, Dispatch, WriteTask, AckUnmatched, senderVars
<1>6. CASE ReceiverStep
  BY <1>2, <1>6 DEF ReceiverStep, RecvDuplicate, RecvData, RecvControl, RecvOpen, PublishData,
                    PublishOrphan, Publish, RecvRetire, BackendAnswers, senderVars
<1>7. CASE CarrierStep
  BY <1>2, <1>7 DEF CarrierStep, SenderDetach, ReceiverDetach, Attach, senderVars
<1>8. CASE UNCHANGED vars
  BY <1>2, <1>8 DEF vars, senderVars
<1>. QED BY <1>5, <1>6, <1>7, <1>8 DEF Next

LEMMA FailureStep ==
  ASSUME IInv, AllocatedStaysOutstanding, NoSessionFailure, [Next]_vars
  PROVE  NoSessionFailure'
<1> USE DEF IInv, TypeOK, NoSessionFailure
<1>1. ASSUME NEW c \in Carriers, AckUnmatched(c) PROVE ~failed'
  <2>1. Head(acks[c]) \in Confirmed /\ Head(acks[c]) \notin pending
    BY <1>1, TailType DEF AckUnmatched, SettleInv
  <2>2. Head(acks[c]) \in SettledIds
    BY <2>1, ConfirmedAllocated DEF AllocatedStaysOutstanding, Allocated
  <2>. QED BY <1>1, <2>2 DEF AckUnmatched
<1>2. ASSUME NEW c \in Carriers, RecvRetire(c) PROVE ~failed'
  <2>1. Head(retires[c]) \in 1..settledThrough
    BY <1>2, TailType DEF RecvRetire, SettleInv
  <2>2. ~(Head(retires[c]) > processedThrough)
    BY <2>1, TxAssumption, SettledWithinProcessed DEF SenderTypeOK, ReceiverTypeOK
  <2>. QED BY <1>2, <2>2 DEF RecvRetire
<1>3. CASE SenderStep
  BY <1>1, <1>3 DEF SenderStep, Allocate, Retransmit, Expire, Dispatch, WriteTask, Settle
<1>4. CASE ReceiverStep
  BY <1>2, <1>4 DEF ReceiverStep, RecvDuplicate, RecvData, RecvControl, RecvOpen, PublishData,
                    PublishOrphan, Publish, BackendAnswers
<1>5. CASE CarrierStep
  BY <1>5 DEF CarrierStep, SenderDetach, ReceiverDetach, Attach
<1>6. CASE UNCHANGED vars
  BY <1>6 DEF vars
<1>. QED BY <1>3, <1>4, <1>5, <1>6 DEF Next

LEMMA OutstandingInit == Init => AllocatedStaysOutstanding /\ NoSessionFailure
BY DEF Init, AllocatedStaysOutstanding, NoSessionFailure

LEMMA StaysOutstanding ==
  ASSUME Expirable = {} PROVE Spec => []AllocatedStaysOutstanding
<1>1. IInv /\ AllocatedStaysOutstanding /\ [Next]_vars => AllocatedStaysOutstanding'
  BY OutstandingStep
<1>. QED BY <1>1, OutstandingInit, Inductive, PTL DEF Spec

(* Unless sweepLocked drops a Transmission after 30 seconds, no            *)
(* confirmation and no RETIRE is ever taken for a protocol error: neither  *)
(* endpoint closes the Session on a correct peer.                          *)
THEOREM NeverFails ==
  ASSUME Expirable = {} PROVE Spec => []NoSessionFailure
<1>1. IInv /\ AllocatedStaysOutstanding /\ NoSessionFailure /\ [Next]_vars => NoSessionFailure'
  BY FailureStep
<1>. QED BY <1>1, OutstandingInit, StaysOutstanding, Inductive, PTL DEF Spec

-----------------------------------------------------------------------------
(* The sender alone: what a pending Transmission waits for.                *)

(* What NeverStranded asks of one Transmission.                            *)
Served(id) ==
  IF path[id] = NoCarrier THEN id \in ready
  ELSE /\ id \notin ready /\ up[path[id]]
       /\ sent[id] \/ [id |-> id, gen |-> gen[id]] \in queue[path[id]]

(* Whoever loses c keeps serving what was bound to it.                     *)
LEMMA ReinjectServes ==
  ASSUME IInv, BindingInv, NEW c \in Carriers, Reinject(c), up[c],
         pending' = pending, nextPacket' = nextPacket,
         \A d \in Carriers \ {c} : up'[d] = up[d]
  PROVE  BindingInv'
<1> USE DEF IInv, TypeOK
<1> DEFINE lost == {id \in pending : path[id] = c}
<1>1. c # NoCarrier
  BY TxAssumption
<1>2. ASSUME NEW id \in pending PROVE Served(id)'
  <2>1. id \in Ids /\ Served(id)
    BY <1>2 DEF SenderTypeOK, BindingInv, NeverStranded, Served
  <2>2. CASE path[id] = c
    BY <2>1, <2>2 DEF Served, Reinject
  <2>3. CASE path[id] # c
    <3>1. id \notin lost /\ path'[id] = path[id] /\ gen'[id] = gen[id] /\ sent'[id] = sent[id]
      BY <2>1, <2>3 DEF Reinject, SenderTypeOK
    <3>2. id \in ready' <=> id \in ready
      BY <3>1 DEF Reinject
    <3>3. path[id] # NoCarrier => path[id] \in Carriers \ {c} /\ queue'[path[id]] = queue[path[id]]
      BY <2>1, <2>3 DEF Reinject, SenderTypeOK
    <3>. QED BY <2>1, <3>1, <3>2, <3>3 DEF Served
  <2>. QED BY <2>2, <2>3
<1>3. ASSUME NEW id \in Ids, id > nextPacket PROVE path'[id] = NoCarrier
  BY <1>3 DEF BindingInv, Reinject
<1>. QED BY <1>2, <1>3 DEF BindingInv, NeverStranded, Served

LEMMA BindingStep ==
  ASSUME IInv, BindingInv, [Next]_vars PROVE BindingInv'
<1> USE DEF IInv, TypeOK
<1>0. /\ \A id \in pending : id \in Ids /\ id \in Allocated /\ Served(id)
      /\ \A id \in Ids : id > nextPacket => path[id] = NoCarrier
      /\ ready \subseteq pending /\ nextPacket \in Nat
  BY TxAssumption DEF SenderTypeOK, AllocInv, BindingInv, NeverStranded, Served
<1>1. ASSUME UNCHANGED <<senderVars, up>> PROVE BindingInv'
  BY <1>1 DEF BindingInv, NeverStranded, senderVars
<1>2. CASE Allocate
  <2>1. /\ nextPacket' = nextPacket + 1 /\ nextPacket + 1 \in Ids
        /\ pending' = pending \cup {nextPacket + 1} /\ ready' = ready \cup {nextPacket + 1}
        /\ UNCHANGED <<path, gen, sent, queue, up>>
    BY <1>2 DEF Allocate, netVars
  <2>2. path[nextPacket + 1] = NoCarrier /\ nextPacket + 1 \notin pending
    BY <1>0, <2>1 DEF Allocated
  <2>3. \A id \in pending' : Served(id)'
    BY <1>0, <2>1, <2>2 DEF Served
  <2>4. \A id \in Ids : id > nextPacket' => path'[id] = NoCarrier
    BY <1>0, <2>1 DEF Ids
  <2>. QED BY <2>3, <2>4 DEF BindingInv, NeverStranded, Served
<1>3. ASSUME NEW id \in Ids, NEW c \in Carriers, Dispatch(id, c) PROVE BindingInv'
  <2>1. /\ id \in ready /\ up[c] /\ UNCHANGED <<pending, nextPacket, up>>
        /\ ready' = ready \ {id} /\ path' = [path EXCEPT ![id] = c]
        /\ gen' = [gen EXCEPT ![id] = @ + 1] /\ sent' = [sent EXCEPT ![id] = FALSE]
        /\ queue' = [queue EXCEPT ![c] = @ \cup {[id |-> id, gen |-> gen'[id]]}]
    BY <1>3 DEF Dispatch, netVars
  <2>2. c # NoCarrier
    BY TxAssumption
  <2>3. Served(id)'
    BY <2>1, <2>2 DEF Served, SenderTypeOK
  <2>4. ASSUME NEW other \in pending, other # id PROVE Served(other)'
    <3>1. Served(other) /\ other \in Ids
      BY <1>0, <2>4
    <3>2. path'[other] = path[other] /\ gen'[other] = gen[other] /\ sent'[other] = sent[other]
      BY <2>1, <2>4, <3>1 DEF SenderTypeOK
    <3>3. \A d \in Carriers : queue[d] \subseteq queue'[d]
      BY <2>1 DEF SenderTypeOK
    <3>. QED BY <2>1, <2>4, <3>1, <3>2, <3>3 DEF Served, SenderTypeOK
  <2>5. id \in Allocated
    BY <1>0, <2>1
  <2>6. \A other \in Ids : other > nextPacket' => path'[other] = NoCarrier
    BY <1>0, <2>1, <2>5 DEF Allocated, SenderTypeOK
  <2>. QED BY <2>1, <2>3, <2>4, <2>6 DEF BindingInv, NeverStranded, Served
<1>4. ASSUME NEW c \in Carriers, NEW t \in queue[c], WriteTask(c, t) PROVE BindingInv'
  <2>1. /\ queue' = [queue EXCEPT ![c] = @ \ {t}]
        /\ sent' = IF Current(c, t) THEN [sent EXCEPT ![t.id] = TRUE] ELSE sent
        /\ UNCHANGED <<pending, nextPacket, path, gen, ready, up>>
    BY <1>4 DEF WriteTask
  <2>2. ASSUME NEW id \in pending PROVE Served(id)'
    <3>1. Served(id) /\ id \in Ids
      BY <1>0, <2>2
    <3>2. sent[id] => sent'[id]
      BY <2>1, <3>1 DEF SenderTypeOK
    <3>3. CASE path[id] = c /\ t = [id |-> id, gen |-> gen[id]]
      <4>1. Current(c, t) /\ t.id = id
        BY <2>2, <3>3 DEF Current
      <4>. QED BY <2>1, <3>1, <4>1 DEF Served, SenderTypeOK
    <3>4. CASE ~(path[id] = c /\ t = [id |-> id, gen |-> gen[id]])
      BY <2>1, <3>1, <3>2, <3>4 DEF Served, SenderTypeOK
    <3>. QED BY <3>3, <3>4
  <2>. QED BY <1>0, <2>1, <2>2 DEF BindingInv, NeverStranded, Served
<1>5. ASSUME NEW id \in Ids, Retransmit(id) PROVE BindingInv'
  <2>1. /\ id \in pending /\ UNCHANGED <<pending, nextPacket, queue, up>>
        /\ path' = [path EXCEPT ![id] = NoCarrier] /\ gen' = [gen EXCEPT ![id] = @ + 1]
        /\ sent' = [sent EXCEPT ![id] = FALSE] /\ ready' = ready \cup {id}
    BY <1>5 DEF Retransmit, netVars
  <2>2. Served(id)'
    BY <2>1 DEF Served, SenderTypeOK
  <2>3. \A other \in pending \ {id} : Served(other)'
    BY <1>0, <2>1 DEF Served, SenderTypeOK
  <2>4. \A other \in Ids : other > nextPacket' => path'[other] = NoCarrier
    BY <1>0, <2>1 DEF SenderTypeOK
  <2>. QED BY <2>1, <2>2, <2>3, <2>4 DEF BindingInv, NeverStranded, Served
<1>6. ASSUME NEW id, pending' = pending \ {id}, ready' = ready \ {id},
             gen' = [gen EXCEPT ![id] = @ + 1],
             UNCHANGED <<nextPacket, path, sent, queue, up>>
      PROVE  BindingInv'
  <2>1. \A other \in pending' : Served(other)'
    BY <1>0, <1>6 DEF Served, SenderTypeOK
  <2>. QED BY <1>0, <1>6, <2>1 DEF BindingInv, NeverStranded, Served
<1>7. ASSUME NEW id \in Ids, Expire(id) PROVE BindingInv'
  BY <1>6, <1>7 DEF Expire, netVars
<1>8. ASSUME NEW c \in Carriers, Settle(c) PROVE BindingInv'
  <2> DEFINE id == Head(acks[c])
  <2>1. /\ pending' = pending \ {id} /\ ready' = ready \ {id} /\ gen' = [gen EXCEPT ![id] = @ + 1]
        /\ UNCHANGED <<nextPacket, path, sent, queue, up>>
    BY <1>8 DEF Settle
  <2>. HIDE DEF id
  <2>. QED BY <1>6, <2>1
<1>9. ASSUME NEW c \in Carriers, AckUnmatched(c) PROVE BindingInv'
  BY <1>1, <1>9 DEF AckUnmatched
<1>10. CASE ReceiverStep
  BY <1>1, <1>10 DEF ReceiverStep, RecvDuplicate, RecvData, RecvControl, RecvOpen, PublishData,
                     PublishOrphan, Publish, RecvRetire, BackendAnswers
<1>11. ASSUME NEW c \in Carriers, SenderDetach(c) PROVE BindingInv'
  <2>1. /\ up[c] /\ Reinject(c) /\ pending' = pending /\ nextPacket' = nextPacket
        /\ \A d \in Carriers \ {c} : up'[d] = up[d]
    BY <1>11 DEF SenderDetach, NetTypeOK
  <2>. QED BY <2>1, ReinjectServes
<1>12. ASSUME NEW c \in Carriers, ReceiverDetach(c) PROVE BindingInv'
  BY <1>1, <1>12 DEF ReceiverDetach
<1>13. ASSUME NEW c \in Carriers, Attach(c) PROVE BindingInv'
  <2>1. /\ pending' = pending /\ nextPacket' = nextPacket
        /\ \A d \in Carriers \ {c} : up'[d] = up[d]
        /\ \A d \in Carriers : up[d] => up'[d]
    BY <1>13 DEF Attach, NetTypeOK
  <2>2. CASE up[c]
    BY <1>13, <2>1, <2>2, ReinjectServes DEF Attach
  <2>3. CASE ~up[c]
    <3>1. UNCHANGED <<path, gen, sent, ready, queue>>
      BY <1>13, <2>3 DEF Attach
    <3>2. \A id \in pending' : Served(id)'
      BY <1>0, <2>1, <3>1 DEF Served, SenderTypeOK
    <3>. QED BY <1>0, <2>1, <3>1, <3>2 DEF BindingInv, NeverStranded, Served
  <2>. QED BY <2>2, <2>3
<1>14. CASE UNCHANGED vars
  BY <1>1, <1>14 DEF vars, netVars
<1>. QED
  BY <1>2, <1>3, <1>4, <1>5, <1>7, <1>8, <1>9, <1>10, <1>11, <1>12, <1>13, <1>14
  DEF Next, SenderStep, CarrierStep

(* THE BINDING: a pending Transmission waits in its ready ring, in a queue *)
(* whose task is current, or for the timer of what was written, and one    *)
(* that is not allocated yet is bound to no Carrier.                       *)
THEOREM BindingKept == Spec => []BindingInv
<1>1. Init => BindingInv
  BY DEF Init, BindingInv, NeverStranded
<1>2. IInv /\ BindingInv /\ [Next]_vars => BindingInv'
  BY BindingStep
<1>. QED BY <1>1, <1>2, Inductive, PTL DEF Spec

(* No interleaving of dispatcher, writer, timer, confirmation and Carrier  *)
(* loss leaves a pending Transmission that nothing will send again.        *)
THEOREM NothingStranded == Spec => []NeverStranded
<1>1. BindingInv => NeverStranded
  BY DEF BindingInv
<1>. QED BY <1>1, BindingKept, PTL
=============================================================================
