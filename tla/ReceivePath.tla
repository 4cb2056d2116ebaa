----------------------------- MODULE ReceivePath -----------------------------
(***************************************************************************)
(* The bytes of one Stream between the readers of the Carriers and the     *)
(* application (stream.go, receivepage.go, handleDataFrame).  They are     *)
(* stored in pages and copied out of them without Session.mu: a handler of *)
(* DATA prepares under Session.mu, stores under rxMu alone and publishes   *)
(* under both, and readRaw chooses, copies and consumes in the same way,   *)
(* while FIN, RESET_STREAM, CloseRead, Close and the end of the Session    *)
(* come in between.  Credit has the windows, Transmission the claim.       *)
(***************************************************************************)
EXTENDS Integers, FiniteSets

CONSTANTS
  Handlers,   \* goroutines that read a Carrier
  Frames,     \* the DATA of the Stream: disjoint ranges of bytes
  Total,      \* the final size
  PageSize,   \* MaxPayload
  MaxPages,   \* pages the Session has left: MaxBuffered / receivePageCost
  ReadSizes   \* lengths of the application's buffers

VARIABLES
  flight,        \* DATA no handler has taken
  handler,       \* where each handler of DATA stands
  present,       \* the bytes marked present in pages
  pages,         \* the pages there are
  allocated,     \* receiveAllocated, in pages
  buffered,      \* Stream.buffered and Session.bufferedBytes
  rxHigh, rxContiguous, rxRead, rxFIN,
  stopped,       \* receiveStopped
  closed,        \* Stream.closed
  over,          \* Session.closed
  reader,        \* where Read stands
  wake,          \* readWake holds a token
  told           \* "changed" was closed since the reader took it

pageVars == <<present, pages, allocated, buffered>>
offsetVars == <<rxHigh, rxContiguous, rxRead, rxFIN>>
readVars == <<reader, wake, told>>
endVars == <<stopped, closed, over>>
receiveVars == <<flight, handler, pageVars, offsetVars, endVars, readVars>>

NotFinal == -1
Bytes(from, to) == from..(to - 1)
PagesOf(S) == {b \div PageSize : b \in S}
None == [at |-> "none", data |-> {}, added |-> 0]
Reading == [at |-> "read", from |-> 0, n |-> 0]

Init ==
  /\ flight = Frames /\ handler = [h \in Handlers |-> None]
  /\ present = {} /\ pages = {} /\ allocated = 0 /\ buffered = 0
  /\ rxHigh = 0 /\ rxContiguous = 0 /\ rxRead = 0 /\ rxFIN = NotFinal
  /\ stopped = FALSE /\ closed = FALSE /\ over = FALSE
  /\ reader = Reading /\ wake = FALSE /\ told = FALSE

At(h) == handler[h].at
(* rxOpMu, from prepare to publish; rxMu, while bytes are being moved.     *)
OpFree == \A h \in Handlers : At(h) \notin {"storing", "stored"}
PagesFree == reader.at # "copying" /\ \A h \in Handlers : At(h) # "storing"

TypeOK ==
  /\ flight \subseteq Frames
  /\ \A h \in Handlers : At(h) \in {"none", "claimed", "storing", "stored"}
  /\ present \subseteq Bytes(0, Total) /\ pages \subseteq PagesOf(Bytes(0, Total))
  /\ allocated \in 0..MaxPages /\ buffered \in 0..Total
  /\ {rxHigh, rxContiguous, rxRead} \subseteq 0..Total /\ rxFIN \in {NotFinal, Total}
  /\ {stopped, closed, over} \subseteq BOOLEAN /\ wake \in BOOLEAN /\ told \in BOOLEAN
  /\ reader.at \in {"read", "copying", "copied", "asleep", "eof", "error", "violation"}

-----------------------------------------------------------------------------
(* DATA.                                                                   *)

Claim(h, f) ==
  /\ ~over /\ At(h) = "none" /\ f \in flight
  /\ flight' = flight \ {f}
  /\ handler' = [handler EXCEPT ![h] = [at |-> "claimed", data |-> f, added |-> 0]]
  /\ UNCHANGED <<pageVars, offsetVars, endVars, readVars>>

Highest(S, a) == CHOOSE b \in {c + 1 : c \in S} \cup {a} : b >= a /\ \A c \in S : b > c

(* wakeLocked: "changed" is closed.                                        *)
(* Mutant: what ends a Stream does not wake its reader.                    *)
WakesNobody == UNCHANGED told
WakesAll == told' = TRUE

(* releaseReceiveLocked.                                                   *)
Released == present' = {} /\ pages' = {} /\ allocated' = allocated - Cardinality(pages) /\ buffered' = 0
(* discardReceiveLocked, when high bytes have been committed.              *)
Discard(high) ==
  /\ PagesFree /\ Released
  /\ rxRead' = high /\ rxContiguous' = high

(* prepareReceiveLocked.                                                   *)
Kept(f) == {b \in f : b >= rxRead}
Missing(f) == PagesOf(Kept(f)) \ pages
Done(h) == handler' = [handler EXCEPT ![h] = None]

Ignore(h) ==
  /\ (closed \/ Kept(handler[h].data) = {})
  /\ Done(h) /\ wake' = (wake \/ ~closed)
  /\ UNCHANGED <<pageVars, offsetVars, endVars, told>>
Drop(h) ==
  /\ ~closed /\ Kept(handler[h].data) # {} /\ stopped
  /\ rxHigh' = Highest(handler[h].data, rxHigh) /\ Discard(rxHigh')
  /\ Done(h) /\ wake' = TRUE
  /\ UNCHANGED <<rxFIN, endVars, told>>
Reserve(h) ==
  LET f == handler[h].data IN
  /\ ~closed /\ Kept(f) # {} /\ ~stopped /\ PagesFree
  /\ Cardinality(Missing(f)) <= MaxPages - allocated
  /\ rxHigh' = Highest(f, rxHigh)
  /\ pages' = pages \cup Missing(f) /\ allocated' = allocated + Cardinality(Missing(f))
  /\ handler' = [handler EXCEPT ![h].at = "storing", ![h].data = Kept(f)]
  /\ UNCHANGED <<present, buffered, rxContiguous, rxRead, rxFIN, endVars, wake, told>>
(* No page is left: the Stream is reset.                                   *)
Refuse(h) ==
  LET f == handler[h].data IN
  /\ ~closed /\ Kept(f) # {} /\ ~stopped
  /\ Cardinality(Missing(f)) > MaxPages - allocated
  /\ rxHigh' = Highest(f, rxHigh) /\ Discard(rxHigh')
  /\ closed' = TRUE /\ stopped' = TRUE /\ WakesAll
  /\ Done(h) /\ UNCHANGED <<rxFIN, over, wake>>

Prepare(h) ==
  /\ At(h) = "claimed" /\ OpFree
  /\ (Ignore(h) \/ Drop(h) \/ Reserve(h) \/ Refuse(h))
  /\ UNCHANGED <<flight, reader>>

(* storeReceiveWorkLocked; rxMu is released.                               *)
Store(h) ==
  LET data == handler[h].data IN
  /\ At(h) = "storing"
  /\ handler' = [handler EXCEPT ![h].at = "stored", ![h].added = Cardinality(data \ present)]
  /\ present' = present \cup data
  /\ UNCHANGED <<flight, pages, allocated, buffered, offsetVars, endVars, readVars>>

(* finishReceiveWorkLocked, unless the pages are gone.                     *)
Contiguous(a) == CHOOSE b \in a..rxHigh : Bytes(a, b) \subseteq present /\ (b = rxHigh \/ b \notin present)
(* Mutant: what was stored is counted whatever happened meanwhile.         *)
PublishesAlways == TRUE
Publishes == ~closed /\ ~stopped

Publish(h) ==
  /\ At(h) = "stored" /\ PagesFree
  /\ IF Publishes
     THEN buffered' = buffered + handler[h].added /\ rxContiguous' = Contiguous(rxContiguous)
     ELSE UNCHANGED <<buffered, rxContiguous>>
  /\ Done(h) /\ wake' = (wake \/ ~over)
  /\ UNCHANGED <<flight, present, pages, allocated, rxHigh, rxRead, rxFIN, endVars, reader,
                 told>>

-----------------------------------------------------------------------------
(* readRaw.                                                                *)

Available == rxContiguous - rxRead
Least(a, b) == IF a < b THEN a ELSE b
Sleeps == reader' = [Reading EXCEPT !.at = "asleep"] /\ wake' = FALSE /\ told' = FALSE

Read ==
  /\ reader.at = "read"
  /\ \/ /\ (closed \/ stopped)
        /\ reader' = [Reading EXCEPT !.at = "error"] /\ UNCHANGED <<wake, told>>
     \/ /\ ~closed /\ ~stopped /\ Available > 0 /\ PagesFree
        /\ \E size \in ReadSizes :
             reader' = [at |-> "copying", from |-> rxRead, n |-> Least(size, Available)]
        /\ UNCHANGED <<wake, told>>
     \/ /\ ~closed /\ ~stopped /\ Available = 0 /\ rxFIN # NotFinal /\ rxRead = rxFIN
        /\ reader' = [Reading EXCEPT !.at = "eof"] /\ UNCHANGED <<wake, told>>
     \/ /\ ~closed /\ ~stopped /\ Available = 0 /\ (rxFIN = NotFinal \/ rxRead # rxFIN)
        /\ Sleeps
  /\ UNCHANGED <<flight, handler, pageVars, offsetVars, endVars>>

Wake ==
  /\ reader.at = "asleep" /\ (wake \/ told)
  /\ reader' = Reading /\ wake' = FALSE /\ told' = FALSE
  /\ UNCHANGED <<flight, handler, pageVars, offsetVars, endVars>>

Chosen == Bytes(reader.from, reader.from + reader.n)

(* copyReceivePagesLocked, without Session.mu.                             *)
Copy ==
  /\ reader.at = "copying"
  /\ reader' = [reader EXCEPT !.at = IF Chosen \subseteq present THEN "copied" ELSE "violation"]
  /\ UNCHANGED <<flight, handler, pageVars, offsetVars, endVars, wake, told>>

(* Mutant: a page is given back when its bytes have been read, although    *)
(* others of it may have come.                                             *)
EmptiedByRead == {p \in pages : p \in PagesOf(Chosen)}
Emptied == {p \in PagesOf(Chosen) : p \notin PagesOf(present \ Chosen)}

(* consumeReceivePagesLocked, if what was copied is still the next to read.*)
(* Mutant: a Stream that was stopped during the copy is not noticed.       *)
StillNextUnstopped == ~closed
StillNext == ~closed /\ ~stopped /\ rxRead = reader.from
Consume ==
  /\ reader.at = "copied"
  /\ \/ ~StillNext /\ reader' = [Reading EXCEPT !.at = "error"] /\ UNCHANGED <<pageVars, rxRead>>
     \/ /\ StillNext /\ PagesFree /\ ~(Chosen \subseteq present)
        /\ reader' = [Reading EXCEPT !.at = "violation"] /\ UNCHANGED <<pageVars, rxRead>>
     \/ /\ StillNext /\ PagesFree /\ Chosen \subseteq present
        /\ present' = present \ Chosen
        /\ pages' = pages \ Emptied /\ allocated' = allocated - Cardinality(Emptied)
        /\ buffered' = buffered - reader.n /\ rxRead' = rxRead + reader.n
        /\ reader' = Reading
  /\ UNCHANGED <<flight, handler, rxHigh, rxContiguous, rxFIN, endVars, wake, told>>

-----------------------------------------------------------------------------
(* What may come in between.                                               *)

(* handleFinalLocked, the first time.                                      *)
RecvFIN ==
  /\ ~over /\ rxFIN = NotFinal
  /\ rxFIN' = Total /\ rxHigh' = Total
  /\ IF stopped \/ closed THEN Discard(Total) ELSE UNCHANGED <<pageVars, rxContiguous, rxRead>>
  /\ WakesAll /\ UNCHANGED <<flight, handler, endVars, reader, wake>>

(* handleResetStreamLocked, when it changes anything.                      *)
RecvReset ==
  /\ ~over /\ ~(stopped /\ rxFIN = Total)
  /\ rxFIN' = Total /\ rxHigh' = Total
  /\ stopped' = TRUE /\ Discard(Total)
  /\ WakesAll /\ UNCHANGED <<flight, handler, closed, over, reader, wake>>

CloseRead ==
  /\ ~closed /\ ~stopped
  /\ stopped' = TRUE /\ Discard(rxHigh)
  /\ WakesAll /\ UNCHANGED <<flight, handler, rxHigh, rxFIN, closed, over, reader, wake>>

(* Close: of a Stream that is over in both directions (the other is not    *)
(* modelled), or a reset.                                                  *)
Close ==
  /\ ~closed /\ closed' = TRUE
  /\ \/ /\ rxRead = rxFIN /\ PagesFree /\ Released
        /\ UNCHANGED <<stopped, rxContiguous, rxRead>>
     \/ stopped' = TRUE /\ Discard(rxHigh)
  /\ WakesAll /\ UNCHANGED <<flight, handler, rxHigh, rxFIN, over, reader, wake>>

(* Session.stop: the pages are released, the offsets are left.             *)
SessionStops ==
  /\ ~over /\ over' = TRUE /\ closed' = TRUE
  /\ PagesFree /\ Released
  /\ WakesAll /\ UNCHANGED <<flight, handler, offsetVars, stopped, reader, wake>>

Next ==
  \/ \E h \in Handlers : \/ \E f \in flight : Claim(h, f)
                         \/ Prepare(h) \/ Store(h) \/ Publish(h)
  \/ Read \/ Wake \/ Copy \/ Consume
  \/ RecvFIN \/ RecvReset \/ CloseRead \/ Close \/ SessionStops

Spec == Init /\ [][Next]_receiveVars

-----------------------------------------------------------------------------

(* Neither a copy nor its consumption ever finds a byte missing that was   *)
(* published: a read would fail with a violation of the protocol.          *)
NothingMissing == reader.at # "violation"

(* What has been stored and not yet published.                             *)
Unpublished(h) == IF At(h) = "stored" /\ Publishes THEN handler[h].added ELSE 0

(* The pages there are, are those that hold a byte or are being written,   *)
(* and every count agrees with them, at every point of the three.          *)
PagesAgree ==
  /\ allocated = Cardinality(pages)
  /\ pages = PagesOf(present) \cup UNION {PagesOf(handler[h].data) : h \in {g \in Handlers : At(g) = "storing"}}
  /\ \A h \in Handlers : At(h) = "stored" => buffered + Unpublished(h) = Cardinality(present)
  /\ OpFree => buffered = Cardinality(present)

(* What is offered to the application is there, in order and complete,     *)
(* and nothing else was given up.                                          *)
OffersAreThere ==
  /\ rxRead <= rxContiguous /\ rxContiguous <= rxHigh
  /\ ~closed /\ ~stopped => /\ Bytes(rxRead, rxContiguous) \subseteq present
                            /\ \A b \in present : b >= rxRead

(* A reader that sleeps untold has nothing to read and nothing to learn.   *)
NoReaderForgotten ==
  reader.at = "asleep" /\ ~wake /\ ~told =>
    Available = 0 /\ ~closed /\ ~stopped /\ rxRead # rxFIN
=============================================================================
