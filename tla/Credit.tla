------------------------------- MODULE Credit -------------------------------
(***************************************************************************)
(* Flow control of one direction of a Session (shared_credit.go,           *)
(* flowcontrol.go, stream.go, termination.go): the Streams of one sender,  *)
(* the windows of each Stream and of the Session, and what FIN,            *)
(* RESET_STREAM and STOP_SENDING do to them.                               *)
(*                                                                         *)
(* DATA, FIN, RESET_STREAM and STOP_SENDING are Transmissions: each is     *)
(* handled once, in any order.  A window is not: every one that was sent   *)
(* may arrive, late, again or never.  A Session that refuses a frame of    *)
(* its peer is closed; an action here is enabled when the frame passes the *)
(* checks, and NeverRefused says that every frame on its way would pass.   *)
(***************************************************************************)
EXTENDS Integers, FiniteSets

CONSTANTS
  Streams,
  SessionCredit,    \* SessionCreditLimit
  Targets,          \* what sessionRefillTargetLocked may return
  StreamCredit,     \* MaxStreamWindow
  Bootstrap,        \* OpenBootstrapWindow
  MaxPayload,
  MaxBytes,         \* bound: bytes an application writes on a Stream
  Endings           \* per Stream, what the applications may do: subset of {"fin", "reset", "stop", "close"}

ASSUME CreditAssumption ==
  /\ SessionCredit \in Nat \ {0} /\ StreamCredit \in Nat \ {0} /\ MaxPayload \in Nat \ {0}
  /\ Bootstrap \in 1..StreamCredit
  /\ Targets \subseteq 0..SessionCredit
  /\ MaxBytes \in Nat
  /\ IsFiniteSet(Streams)
  /\ Endings \in [Streams -> SUBSET {"fin", "reset", "stop", "close"}]

NotFinal == -1

VARIABLES
  txNext,          \* per Stream, bytes committed by the sender
  peerConsumed,    \* per Stream, bytes whose credit the sender has released
  creditConsumed,  \* peerCreditConsumed, the offset of the newest window
  peerLimit,       \* per Stream, the limit of the newest window
  ending,          \* per Stream, "no", "fin" (writeFIN) or "reset" (sendReset)
  tx,              \* Session: [committed, used, peerConsumed, peerLimit]
  rxHigh, rxRead,  \* per Stream, bytes the receiver committed and consumed
  arrived,         \* per Stream, the bytes in pages
  rxLimit,         \* per Stream, the limit granted
  rxFIN,           \* per Stream, the final size or NotFinal
  stopped, closed, \* per Stream, receiveStopped and closed at the receiver
  rx,              \* Session: [committed, consumed, limit]
  data,            \* STREAM_DATA not handled yet
  ends,            \* STREAM_FIN and RESET_STREAM not handled yet
  stops,           \* STOP_SENDING not handled yet
  windows,         \* STREAM_WINDOW sent so far
  sessionWindows,  \* SESSION_WINDOW sent so far
  finals           \* STREAM_CONSUMED and confirmations of RESET_STREAM sent so far

sendVars == <<txNext, peerConsumed, creditConsumed, peerLimit, ending, tx>>
recvVars == <<rxHigh, rxRead, arrived, rxLimit, rxFIN, stopped, closed, rx>>
netVars == <<data, ends, stops, windows, sessionWindows, finals>>
vars == <<sendVars, recvVars, netVars>>

Largest(a, b) == IF a >= b THEN a ELSE b
Least(a, b) == IF a <= b THEN a ELSE b

Init ==
  /\ txNext = [s \in Streams |-> 0] /\ peerConsumed = txNext /\ creditConsumed = txNext
  /\ peerLimit = txNext /\ rxHigh = txNext /\ rxRead = txNext /\ rxLimit = txNext
  /\ ending = [s \in Streams |-> "no"]
  /\ tx = [committed |-> 0, used |-> 0, peerConsumed |-> 0, peerLimit |-> 0]
  /\ arrived = [s \in Streams |-> {}]
  /\ rxFIN = [s \in Streams |-> NotFinal]
  /\ stopped = [s \in Streams |-> FALSE] /\ closed = stopped
  /\ rx = [committed |-> 0, consumed |-> 0, limit |-> SessionCredit]
  /\ data = {} /\ ends = {} /\ stops = {}
  /\ windows = {} /\ sessionWindows = {} /\ finals = {}

-----------------------------------------------------------------------------
(* The sender.                                                             *)

(* Mutant: only the window of the Stream limits a writer.                  *)
AllowanceOfStream(s) == Least(MaxPayload, peerLimit[s] - txNext[s])

(* writeAllowanceLocked, as far as credit goes.                            *)
Allowance(s) ==
  Least(MaxPayload, Least(peerLimit[s] - txNext[s], tx.peerLimit - tx.committed))

(* Write and commitSendCreditLocked.                                       *)
Write(s, n) ==
  /\ ending[s] = "no"
  /\ n <= Allowance(s) /\ txNext[s] + n <= MaxBytes
  /\ txNext' = [txNext EXCEPT ![s] = @ + n]
  /\ tx' = [tx EXCEPT !.committed = @ + n, !.used = @ + n]
  /\ data' = data \cup {[stream |-> s, from |-> txNext[s], to |-> txNext[s] + n]}
  /\ UNCHANGED <<peerConsumed, creditConsumed, peerLimit, ending, recvVars,
                 ends, stops, windows, sessionWindows, finals>>

(* CloseWrite.                                                             *)
CloseWrite(s) ==
  /\ "fin" \in Endings[s] /\ ending[s] = "no"
  /\ ending' = [ending EXCEPT ![s] = "fin"]
  /\ ends' = ends \cup {[stream |-> s, size |-> txNext[s], reset |-> FALSE]}
  /\ UNCHANGED <<txNext, peerConsumed, creditConsumed, peerLimit, tx, recvVars,
                 data, stops, windows, sessionWindows, finals>>

(* resetSendLocked, once.                                                  *)
Resets(s) ==
  IF ending[s] = "reset" THEN UNCHANGED <<ending, ends>>
  ELSE /\ ending' = [ending EXCEPT ![s] = "reset"]
       /\ ends' = ends \cup {[stream |-> s, size |-> txNext[s], reset |-> TRUE]}

Reset(s) ==
  /\ "reset" \in Endings[s] /\ ending[s] # "reset"
  /\ Resets(s)
  /\ UNCHANGED <<txNext, peerConsumed, creditConsumed, peerLimit, tx, recvVars,
                 data, stops, windows, sessionWindows, finals>>

(* handleStopReceivingLocked.                                              *)
RecvStop(s) ==
  /\ s \in stops /\ stops' = stops \ {s}
  /\ Resets(s)
  /\ UNCHANGED <<txNext, peerConsumed, creditConsumed, peerLimit, tx, recvVars,
                 data, windows, sessionWindows, finals>>

(* releaseSendCreditLocked.                                                *)
Releasable(s, offset) ==
  /\ offset <= txNext[s]
  /\ offset - peerConsumed[s] <= tx.used

(* Mutant: every report is charged in full.                                *)
ReleaseAll(s, offset) ==
  /\ peerConsumed' = [peerConsumed EXCEPT ![s] = Largest(@, offset)]
  /\ tx' = [tx EXCEPT !.used = @ - offset]

Release(s, offset) ==
  LET n == Largest(0, offset - peerConsumed[s]) IN
  /\ peerConsumed' = [peerConsumed EXCEPT ![s] = @ + n]
  /\ tx' = [tx EXCEPT !.used = @ - n]

(* Mutant: a window counts only when it raises the limit.                  *)
NewerLimit(w) == w.consumed >= creditConsumed[w.stream] /\ w.limit > peerLimit[w.stream]

(* receiveCreditLocked.                                                    *)
Newer(w) == w.consumed >= creditConsumed[w.stream] /\ w.limit >= peerLimit[w.stream]
Stale(w) == w.consumed <= creditConsumed[w.stream] /\ w.limit <= peerLimit[w.stream]

WindowPasses(w) ==
  /\ w.limit >= w.consumed /\ w.limit - w.consumed <= StreamCredit
  /\ w.consumed <= txNext[w.stream]
  /\ \/ Newer(w) /\ Releasable(w.stream, w.consumed)
     \/ Stale(w)

RecvWindow(w) ==
  /\ w \in windows /\ WindowPasses(w) /\ Newer(w)
  /\ Release(w.stream, w.consumed)
  /\ creditConsumed' = [creditConsumed EXCEPT ![w.stream] = w.consumed]
  /\ peerLimit' = [peerLimit EXCEPT ![w.stream] = w.limit]
  /\ UNCHANGED <<txNext, ending, recvVars, netVars>>

(* receiveSessionCreditLocked.                                             *)
SessionNewer(w) == w.consumed >= tx.peerConsumed /\ w.limit >= tx.peerLimit
SessionStale(w) == w.consumed <= tx.peerConsumed /\ w.limit <= tx.peerLimit

SessionWindowPasses(w) ==
  /\ w.limit >= w.consumed /\ w.limit - w.consumed <= SessionCredit
  /\ w.consumed <= tx.committed
  /\ SessionNewer(w) \/ SessionStale(w)

RecvSessionWindow(w) ==
  /\ w \in sessionWindows /\ SessionWindowPasses(w) /\ SessionNewer(w)
  /\ tx' = [tx EXCEPT !.peerConsumed = w.consumed, !.peerLimit = w.limit]
  /\ UNCHANGED <<txNext, peerConsumed, creditConsumed, peerLimit, ending, recvVars, netVars>>

(* handleFinalConsumedLocked, and ackLocked for a RESET_STREAM.            *)
FinalPasses(f) ==
  /\ IF f.reset THEN ending[f.stream] = "reset" ELSE ending[f.stream] # "no"
  /\ f.size = txNext[f.stream]
  /\ Releasable(f.stream, f.size)

RecvFinal(f) ==
  /\ f \in finals /\ FinalPasses(f)
  /\ Release(f.stream, f.size)
  /\ UNCHANGED <<txNext, creditConsumed, peerLimit, ending, recvVars, netVars>>

-----------------------------------------------------------------------------
(* The receiver.                                                           *)

(* Mutant: the pair is sent only when the limit changes.                   *)
AdvertiseChanged(committed, consumed) ==
  \E target \in Targets :
    LET limit == Largest(rx.limit, consumed + target) IN
    /\ rx' = [committed |-> committed, consumed |-> consumed, limit |-> limit]
    /\ sessionWindows' = IF limit = rx.limit THEN sessionWindows
                         ELSE sessionWindows \cup {[consumed |-> consumed, limit |-> limit]}

(* Mutant: the limit is counted from the committed bytes.                  *)
AdvertiseAhead(committed, consumed) ==
  \E target \in Targets :
    LET limit == Largest(rx.limit, committed + target) IN
    /\ rx' = [committed |-> committed, consumed |-> consumed, limit |-> limit]
    /\ sessionWindows' = sessionWindows \cup {[consumed |-> consumed, limit |-> limit]}

(* advertiseSessionCreditLocked: a changed limit is sent; otherwise the    *)
(* pair is sent when time or bytes have passed.                            *)
AdvertiseSession(committed, consumed) ==
  \E target \in Targets :
    LET limit == Largest(rx.limit, consumed + target) IN
    /\ rx' = [committed |-> committed, consumed |-> consumed, limit |-> limit]
    /\ \/ sessionWindows' = sessionWindows \cup {[consumed |-> consumed, limit |-> limit]}
       \/ limit = rx.limit /\ UNCHANGED sessionWindows

(* The window of a Stream as it is sent: of advertiseConsumedLocked.       *)
WindowOf(s, read, limit) == [stream |-> s, consumed |-> read, limit |-> limit]

(* Mutant: a smaller grant takes back a larger one.                        *)
GrantedNow(s, read, size) == read + Least(size, StreamCredit)

(* Mutant: the limit is counted from the highest byte.                     *)
GrantedAhead(s, read, size) == Largest(rxLimit[s], rxHigh[s] + Least(size, StreamCredit))

(* grantCreditLocked.                                                      *)
Granted(s, read, size) == Largest(rxLimit[s], read + Least(size, StreamCredit))

(* receiveCommitLocked.                                                    *)
Committable(s, end) ==
  /\ end <= rxLimit[s]
  /\ end > rxHigh[s] => /\ end - rxHigh[s] <= rx.limit - rx.committed
                        /\ rx.committed - rx.consumed + end - rxHigh[s] <= SessionCredit

(* The accounts after the commitment up to high and the consumption up to  *)
(* read: of receiveCommitLocked, and of releaseReadCreditLocked with the   *)
(* Session window it may send.                                             *)
Account(s, high, read) ==
  LET committed == rx.committed + high - rxHigh[s] IN
  /\ rxHigh' = [rxHigh EXCEPT ![s] = high]
  /\ rxRead' = [rxRead EXCEPT ![s] = read]
  /\ IF read = rxRead[s]
     THEN rx' = [rx EXCEPT !.committed = committed] /\ UNCHANGED sessionWindows
     ELSE AdvertiseSession(committed, rx.consumed + read - rxRead[s])

(* Mutant: discarded bytes are not counted as consumed.                    *)
DiscardQuietly(s, high) ==
  /\ rxHigh' = [rxHigh EXCEPT ![s] = high]
  /\ rxRead' = [rxRead EXCEPT ![s] = high]
  /\ rx' = [rx EXCEPT !.committed = @ + high - rxHigh[s]]
  /\ arrived' = [arrived EXCEPT ![s] = {}]
  /\ windows' = windows \cup {WindowOf(s, high, rxLimit[s])}
  /\ UNCHANGED sessionWindows

(* discardReceiveLocked, after a commitment up to high.                    *)
Discard(s, high) ==
  /\ Account(s, high, high)
  /\ arrived' = [arrived EXCEPT ![s] = {}]
  /\ windows' = windows \cup {WindowOf(s, high, rxLimit[s])}

(* A DATA passes the checks of handleDataFrame, whatever came before it.   *)
DataPasses(d) ==
  closed[d.stream] \/ d.to <= rxRead[d.stream] \/
    /\ rxFIN[d.stream] # NotFinal => d.to <= rxFIN[d.stream]
    /\ Committable(d.stream, d.to)

(* DATA of a closed Stream, or of bytes that are consumed.                 *)
IgnoreData(d) ==
  /\ d \in data /\ data' = data \ {d}
  /\ closed[d.stream] \/ d.to <= rxRead[d.stream]
  /\ UNCHANGED <<sendVars, recvVars, ends, stops, windows, sessionWindows, finals>>

(* prepareReceiveLocked, the copy and finishReceiveWorkLocked.             *)
RecvData(d) ==
  LET s == d.stream
      high == Largest(rxHigh[s], d.to) IN
  /\ d \in data /\ data' = data \ {d}
  /\ ~closed[s] /\ d.to > rxRead[s] /\ DataPasses(d)
  /\ IF stopped[s]
     THEN Discard(s, high)
     ELSE /\ Account(s, high, rxRead[s])
          /\ arrived' = [arrived EXCEPT ![s] = @ \cup (Largest(d.from, rxRead[s])..(d.to - 1))]
          /\ UNCHANGED windows
  /\ UNCHANGED <<sendVars, rxLimit, rxFIN, stopped, closed, ends, stops, finals>>

(* ensureFinalConsumedLocked.                                              *)
FinalOf(s, read) ==
  IF ~stopped[s] /\ rxFIN[s] # NotFinal /\ read = rxFIN[s]
  THEN {[stream |-> s, size |-> rxFIN[s], reset |-> FALSE]} ELSE {}

(* readRaw of n bytes, with releaseReadCreditLocked, STREAM_CONSUMED and   *)
(* consumeCreditLocked; the sweep sends a window that is not sent here.    *)
Read(s, n) ==
  LET read == rxRead[s] + n IN
  /\ ~closed[s] /\ ~stopped[s]
  /\ n \in 1..MaxPayload
  /\ rxRead[s]..(read - 1) \subseteq arrived[s]
  /\ Account(s, rxHigh[s], read)
  /\ arrived' = [arrived EXCEPT ![s] = @ \ (rxRead[s]..(read - 1))]
  /\ finals' = finals \cup FinalOf(s, read)
  /\ \/ /\ rxLimit' = [rxLimit EXCEPT ![s] = Granted(s, read, StreamCredit)]
        /\ windows' = windows \cup {WindowOf(s, read, rxLimit'[s])}
     \/ /\ rxLimit[s] - read > StreamCredit \div 2
        /\ UNCHANGED <<rxLimit, windows>>
  /\ UNCHANGED <<sendVars, rxFIN, stopped, closed, data, ends, stops>>

(* advertiseCreditLocked of an open Stream: its acceptance, and the sweep; *)
(* advertiseConsumedLocked of a Stream that is stopped or closed.          *)
Advertise(s) ==
  /\ rxLimit' = [rxLimit EXCEPT ![s] =
       IF closed[s] \/ stopped[s] THEN @ ELSE Granted(s, rxRead[s], StreamCredit)]
  /\ windows' = windows \cup {WindowOf(s, rxRead[s], rxLimit'[s])}
  /\ UNCHANGED <<sendVars, rxHigh, rxRead, arrived, rxFIN, stopped, closed, rx,
                 data, ends, stops, sessionWindows, finals>>

(* The window that writeCarrier puts after an OPEN.                        *)
OpenWindow(s) ==
  /\ ~closed[s]
  /\ rxLimit' = [rxLimit EXCEPT ![s] = Granted(s, rxRead[s], Bootstrap)]
  /\ windows' = windows \cup {WindowOf(s, rxRead[s], rxLimit'[s])}
  /\ UNCHANGED <<sendVars, rxHigh, rxRead, arrived, rxFIN, stopped, closed, rx,
                 data, ends, stops, sessionWindows, finals>>

(* The window of the sweep, of a Carrier that is added, of a CREDIT_PROBE. *)
SweepSession ==
  /\ AdvertiseSession(rx.committed, rx.consumed)
  /\ UNCHANGED <<sendVars, rxHigh, rxRead, arrived, rxLimit, rxFIN, stopped, closed,
                 data, ends, stops, windows, finals>>

(* stopReceiveLocked, of CloseRead: STOP_SENDING unless the sender has     *)
(* ended.                                                                  *)
Stops(s) == IF rxFIN[s] = NotFinal /\ ~stopped[s] THEN stops \cup {s} ELSE stops

StopRead(s) ==
  /\ "stop" \in Endings[s] /\ ~closed[s] /\ ~stopped[s]
  /\ stopped' = [stopped EXCEPT ![s] = TRUE]
  /\ stops' = Stops(s)
  /\ Discard(s, rxHigh[s])
  /\ UNCHANGED <<sendVars, rxLimit, rxFIN, closed, data, ends, finals>>

(* Close: resetLocked, or gracefully when everything has been read.        *)
Close(s, graceful) ==
  /\ "close" \in Endings[s] /\ ~closed[s]
  /\ graceful => ~stopped[s] /\ rxRead[s] = rxFIN[s]
  /\ closed' = [closed EXCEPT ![s] = TRUE]
  /\ stopped' = [stopped EXCEPT ![s] = ~graceful]
  /\ stops' = Stops(s)
  /\ Discard(s, rxHigh[s])
  /\ UNCHANGED <<sendVars, rxLimit, rxFIN, data, ends, finals>>

(* A DATA for which there is no page: resetLocked after the commitment.    *)
RecvDataNoPage(d) ==
  LET s == d.stream IN
  /\ "close" \in Endings[s]
  /\ d \in data /\ data' = data \ {d}
  /\ ~closed[s] /\ ~stopped[s] /\ d.to > rxRead[s] /\ DataPasses(d)
  /\ closed' = [closed EXCEPT ![s] = TRUE]
  /\ stopped' = [stopped EXCEPT ![s] = TRUE]
  /\ stops' = Stops(s)
  /\ Discard(s, Largest(rxHigh[s], d.to))
  /\ UNCHANGED <<sendVars, rxLimit, rxFIN, ends, finals>>

(* handleFinalLocked and handleResetStreamLocked.                          *)
EndPasses(e) ==
  LET s == e.stream IN
  /\ e.size >= rxHigh[s] /\ e.size >= rxRead[s] /\ e.size <= rxLimit[s]
  /\ rxFIN[s] # NotFinal => e.size = rxFIN[s]
  /\ Committable(s, e.size)

RecvFIN(e) ==
  LET s == e.stream IN
  /\ e \in ends /\ ends' = ends \ {e}
  /\ ~e.reset /\ EndPasses(e)
  /\ rxFIN' = [rxFIN EXCEPT ![s] = e.size]
  /\ IF stopped[s] \/ closed[s]
     THEN Discard(s, e.size) /\ UNCHANGED finals
     ELSE /\ Account(s, e.size, rxRead[s])
          /\ UNCHANGED arrived
          /\ IF rxRead[s] = e.size
             THEN /\ windows' = windows \cup {WindowOf(s, e.size, rxLimit[s])}
                  /\ finals' = finals \cup {[stream |-> s, size |-> e.size, reset |-> FALSE]}
             ELSE UNCHANGED <<windows, finals>>
  /\ UNCHANGED <<sendVars, rxLimit, stopped, closed, data, stops>>

RecvReset(e) ==
  LET s == e.stream IN
  /\ e \in ends /\ ends' = ends \ {e}
  /\ e.reset /\ EndPasses(e)
  /\ rxFIN' = [rxFIN EXCEPT ![s] = e.size]
  /\ stopped' = [stopped EXCEPT ![s] = TRUE]
  /\ Discard(s, e.size)
  /\ finals' = finals \cup {[stream |-> s, size |-> e.size, reset |-> TRUE]}
  /\ UNCHANGED <<sendVars, rxLimit, closed, data, stops>>

-----------------------------------------------------------------------------
SenderStep ==
  \/ \E s \in Streams : \/ \E n \in 1..MaxPayload : Write(s, n)
                        \/ CloseWrite(s) \/ Reset(s) \/ RecvStop(s)
  \/ \E w \in windows : RecvWindow(w)
  \/ \E w \in sessionWindows : RecvSessionWindow(w)
  \/ \E f \in finals : RecvFinal(f)

ReceiverStep ==
  \/ \E d \in data : IgnoreData(d) \/ RecvData(d) \/ RecvDataNoPage(d)
  \/ \E e \in ends : RecvFIN(e) \/ RecvReset(e)
  \/ \E s \in Streams : \/ \E n \in 1..MaxPayload : Read(s, n)
                        \/ Advertise(s) \/ OpenWindow(s)
                        \/ StopRead(s) \/ Close(s, FALSE) \/ Close(s, TRUE)
  \/ SweepSession

Next == SenderStep \/ ReceiverStep

Spec == Init /\ [][Next]_vars

(* The sender writes and the reader reads; Transmissions are handled; the  *)
(* sweep sends the windows again and again, so the newest of each arrives; *)
(* the memory pressure ends, since the pages are freed when they are read. *)
Newest(s) == WindowOf(s, rxRead[s], rxLimit[s])
NewestSession == [consumed |-> rx.consumed, limit |-> rx.limit]
Refill == SweepSession /\ rx'.limit = Largest(rx.limit, rx.consumed + SessionCredit)

Fairness ==
  /\ \A s \in Streams :
       /\ WF_vars(\E n \in 1..MaxPayload : Write(s, n))
       /\ WF_vars(\E n \in 1..MaxPayload : Read(s, n))
       /\ WF_vars(\E d \in data : d.stream = s /\ (RecvData(d) \/ IgnoreData(d)))
       /\ WF_vars(\E e \in ends : e.stream = s /\ (RecvFIN(e) \/ RecvReset(e)))
       /\ WF_vars(\E f \in finals : f.stream = s /\ RecvFinal(f))
       /\ WF_vars(RecvStop(s))
       /\ WF_vars(Advertise(s)) /\ WF_vars(RecvWindow(Newest(s)))
  /\ WF_vars(Refill) /\ WF_vars(RecvSessionWindow(NewestSession))

FairSpec == Spec /\ Fairness

-----------------------------------------------------------------------------
(* Every variable has its type.                                            *)
TypeOK ==
  /\ txNext \in [Streams -> Nat] /\ peerConsumed \in [Streams -> Nat]
  /\ creditConsumed \in [Streams -> Nat] /\ peerLimit \in [Streams -> Nat]
  /\ ending \in [Streams -> {"no", "fin", "reset"}]
  /\ tx \in [committed : Nat, used : Nat, peerConsumed : Nat, peerLimit : Nat]
  /\ rxHigh \in [Streams -> Nat] /\ rxRead \in [Streams -> Nat]
  /\ rxLimit \in [Streams -> Nat] /\ rxFIN \in [Streams -> Nat \cup {NotFinal}]
  /\ arrived \in [Streams -> SUBSET Nat]
  /\ stopped \in [Streams -> BOOLEAN] /\ closed \in [Streams -> BOOLEAN]
  /\ rx \in [committed : Nat, consumed : Nat, limit : Nat]
  /\ data \subseteq [stream : Streams, from : Nat, to : Nat]
  /\ ends \subseteq [stream : Streams, size : Nat, reset : BOOLEAN]
  /\ stops \subseteq Streams
  /\ windows \subseteq [stream : Streams, consumed : Nat, limit : Nat]
  /\ sessionWindows \subseteq [consumed : Nat, limit : Nat]
  /\ finals \subseteq [stream : Streams, size : Nat, reset : BOOLEAN]

(* No frame on its way would be refused by its receiver, in whatever order *)
(* the frames arrive: a correct peer never makes a Session fail.           *)
NeverRefused ==
  /\ \A d \in data : DataPasses(d)
  /\ \A e \in ends : EndPasses(e)
  /\ \A w \in windows : WindowPasses(w)
  /\ \A w \in sessionWindows : SessionWindowPasses(w)
  /\ \A f \in finals : FinalPasses(f)

(* The bytes of all Streams below the offsets of a function.               *)
BytesBelow(offset) == {b \in Streams \X (0..(MaxBytes - 1)) : b[2] < offset[b[1]]}

(* The Session accounts are the sums over the Streams, although each is    *)
(* kept by increments at different places.                                 *)
LedgersAgree ==
  /\ tx.committed = Cardinality(BytesBelow(txNext))
  /\ tx.used = tx.committed - Cardinality(BytesBelow(peerConsumed))
  /\ rx.committed = Cardinality(BytesBelow(rxHigh))
  /\ rx.consumed = Cardinality(BytesBelow(rxRead))

(* The offsets of a Stream at both ends: what is released has been         *)
(* consumed, what is consumed committed, what is committed granted, and    *)
(* what is granted not consumed is at most the window.                     *)
StreamInOrder(s) ==
  /\ peerConsumed[s] <= rxRead[s] /\ creditConsumed[s] <= rxRead[s]
  /\ rxRead[s] <= rxHigh[s] /\ rxHigh[s] <= txNext[s] /\ txNext[s] <= MaxBytes
  /\ txNext[s] <= peerLimit[s] /\ peerLimit[s] <= rxLimit[s]
  /\ rxLimit[s] <= rxRead[s] + StreamCredit
  /\ arrived[s] \subseteq 0..(rxHigh[s] - 1)
  /\ rxFIN[s] # NotFinal => rxFIN[s] = txNext[s] /\ ending[s] # "no"

(* The same of the Session; committed <= committed is in the ledgers.      *)
SessionInOrder ==
  /\ tx.peerConsumed <= rx.consumed
  /\ tx.committed <= tx.peerLimit /\ tx.peerLimit <= rx.limit
  /\ rx.limit <= rx.consumed + SessionCredit

(* DATA, the ends of Streams and the reports of them say what the sender   *)
(* has committed to.                                                       *)
FramesInOrder ==
  /\ \A d \in data : d.to <= txNext[d.stream]
  /\ \A e \in ends \cup finals :
       /\ e.size = txNext[e.stream] /\ ending[e.stream] # "no"
       /\ e.reset => ending[e.stream] = "reset"
  /\ \A f \in finals : f.size = rxRead[f.stream]

(* The windows ever sent form a chain, up to the newest, and what the      *)
(* sender has taken over has its place in it.                              *)
Comparable(w, v) ==
  \/ w.consumed <= v.consumed /\ w.limit <= v.limit
  \/ v.consumed <= w.consumed /\ v.limit <= w.limit
WindowsInOrder ==
  /\ \A w \in windows :
       /\ w.consumed <= rxRead[w.stream] /\ w.limit <= rxLimit[w.stream]
       /\ w.consumed <= w.limit /\ w.limit <= w.consumed + StreamCredit
       /\ Newer(w) \/ Stale(w)
       /\ \A v \in windows : v.stream = w.stream => Comparable(w, v)
SessionWindowsInOrder ==
  /\ \A w \in sessionWindows :
       /\ w.consumed <= rx.consumed /\ w.limit <= rx.limit
       /\ w.consumed <= w.limit /\ w.limit <= w.consumed + SessionCredit
       /\ SessionNewer(w) \/ SessionStale(w)
       /\ \A v \in sessionWindows : Comparable(w, v)

(* The accounts of both ends agree: every one is of its type, those of the *)
(* Session are the sums of those of the Streams, what one end has granted, *)
(* sent or reported bounds what the other believes, and the frames on      *)
(* their way lie in between.  This is the inductive invariant of Credit.   *)
AccountsAgree ==
  /\ TypeOK /\ LedgersAgree /\ SessionInOrder
  /\ \A s \in Streams : StreamInOrder(s)
  /\ FramesInOrder /\ WindowsInOrder /\ SessionWindowsInOrder

(* The windows of the Session and of every Stream keep the contract.       *)
SessionWindowKept == INSTANCE Window WITH
  Size <- SessionCredit, First <- SessionCredit,
  committed <- tx.committed, consumed <- rx.consumed, limit <- rx.limit
StreamWindowKept(s) == INSTANCE Window WITH
  Size <- StreamCredit, First <- 0,
  committed <- txNext[s], consumed <- rxRead[s], limit <- rxLimit[s]

SessionWindows == SessionWindowKept!Spec
StreamWindows ==
  /\ \A s \in Streams : StreamWindowKept(s)!Init
  /\ [][\A s \in Streams : [StreamWindowKept(s)!Next]_(StreamWindowKept(s)!vars)]_vars

(* No writer starves: what an application writes is committed, whatever    *)
(* windows are lost, as long as the readers read.                          *)
WritersProceed == \A s \in Streams : <>(txNext[s] = MaxBytes \/ ending[s] # "no")

(* The credit of every consumed byte comes back to the sender, also of     *)
(* bytes that were discarded.                                              *)
CreditReturns ==
  \A s \in Streams, n \in 1..MaxBytes : (rxRead[s] >= n) ~> (peerConsumed[s] >= n)
=============================================================================
