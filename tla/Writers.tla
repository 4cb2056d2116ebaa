------------------------------- MODULE Writers -------------------------------
(***************************************************************************)
(* Application writers of one Session that wait for room (Stream.Write,    *)
(* session.go, queue_admission.go).  A Write that cannot go on sleeps on a *)
(* channel of one slot and says for what: credit of the Session, room in   *)
(* the queue of unscheduled DATA, or room in the table of pending DATA.    *)
(* Whoever frees some of it signals as many of these writers as a frame    *)
(* each would use, in the order of the line; only a Carrier that comes or  *)
(* goes wakes everyone.  Sizes are in units of a smallest frame.  A window *)
(* of a Stream wakes its own writer only (Credit).                         *)
(***************************************************************************)
EXTENDS Integers, Sequences, FiniteSets

CONSTANTS
  Writers,
  Bulk,           \* those beyond the bootstrap window (StreamWindow)
  SessionCredit,  \* credit the peer keeps granting
  QueueLimit, QueueReserve,  \* queueAdmissionLimit, and the reserve for new Streams
  PendingLimit,   \* MaxDataPending, which is more than MaxStreams
  PerPermit,      \* frames of the smallest size in one of MaxPayload
  WakeBatch,      \* queueAdmissionWakeBatch
  DispatchBatch,  \* dataDispatchBatch
  Quantum,        \* writeLockQuantumFrames
  Lengths,        \* frames of a Write
  MaxWrites, MaxLosses  \* bounds: Writes begun, Carriers lost

VARIABLES
  writer,    \* where a Write stands, and what it has been told
  line,      \* Session.writerReady
  ready,     \* frames not yet assigned to a Carrier (readyDataBytes)
  again,     \* those of them that a lost Carrier had been given, the first in the queue
  assigned,  \* frames assigned and not yet confirmed
  owed,      \* credit committed and not yet granted again
  path,      \* whether a Carrier is active
  writes, losses,
  forfeited  \* history: a deadline expired in the hands of a permit

tableVars == <<ready, again, assigned, owed>>
writerVars == <<writer, line, tableVars, path, writes, losses, forfeited>>

Idle == [at |-> "out", left |-> 0, reason |-> "none", token |-> FALSE, told |-> FALSE,
         owes |-> {}]
Least(S) == CHOOSE a \in S : \A b \in S : a <= b
Inside == {w \in Writers : writer[w].at # "out"}
Waiting(w) == writer[w].at \in {"asleep", "woken", "late"} /\ writer[w].reason # "path"

TypeOK ==
  /\ writer \in [Writers -> [at : {"out", "yielded", "asleep", "woken", "late"}, left : Nat,
                             reason : {"none", "path", "session", "queue", "pending"},
                             token : BOOLEAN, told : BOOLEAN,
                             owes : SUBSET {"session", "queue", "pending"}]]
  /\ line \in Seq(Writers) /\ ready \in Nat /\ again \in 0..ready /\ assigned \in Nat /\ owed \in Nat
  /\ path \in BOOLEAN /\ forfeited \in BOOLEAN

Init ==
  /\ writer = [w \in Writers |-> Idle] /\ line = <<>>
  /\ ready = 0 /\ again = 0 /\ assigned = 0 /\ owed = 0 /\ path = TRUE
  /\ writes = 0 /\ losses = 0 /\ forfeited = FALSE

-----------------------------------------------------------------------------
(* Signals.                                                                *)

Permits(n) == (n + PerPermit - 1) \div PerPermit
Place(w) == CHOOSE i \in 1..Len(line) : line[i] = w

(* The first n in line of S whose slot is free.                            *)
First(n, S) == {w \in S : ~writer[w].token
                          /\ Cardinality({v \in S : ~writer[v].token /\ Place(v) <= Place(w)}) <= n}

WaitingFor(reason) == {w \in Writers : Waiting(w) /\ writer[w].reason = reason}
Signalled(S) ==
  [w \in Writers |-> IF w \in S
                     THEN [writer[w] EXCEPT !.token = TRUE, !.owes = @ \cup {writer[w].reason}]
                     ELSE writer[w]]
Broadcast ==
  [w \in Writers |-> IF writer[w].at = "asleep" THEN [writer[w] EXCEPT !.told = TRUE]
                     ELSE writer[w]]

(* Mutant: a writer that leaves keeps its permit for the pending table.    *)
KeepsPermit(w) == {}
PassedOn(w) == First(1, WaitingFor("pending") \ {w})

-----------------------------------------------------------------------------
(* Stream.Write: the loop runs under Session.mu until the Write ends, has  *)
(* nothing to go on with, or has committed a quantum of frames.            *)

Ceiling(w) == IF w \in Bulk THEN QueueLimit - QueueReserve ELSE QueueLimit + QueueReserve
Reserved(w) == IF w \in Bulk THEN Cardinality(Inside \ (Bulk \cup {w})) ELSE 0
RoomFor(w) ==
  [session |-> SessionCredit - owed,
   queue |-> Ceiling(w) - ready,
   pending |-> PendingLimit - Reserved(w) - ready - assigned]
Allowed(w) ==
  LET n == Least({RoomFor(w)[r] : r \in DOMAIN RoomFor(w)}) IN IF n > 0 THEN n ELSE 0

(* The first reason that stops w after n more frames.                      *)
Stopped(w, n) ==
  IF ~path THEN "path"
  ELSE IF RoomFor(w).session <= n THEN "session"
  ELSE IF RoomFor(w).queue <= n THEN "queue"
  ELSE "pending"

Out(w) == [Signalled(PassedOn(w)) EXCEPT ![w] = Idle]
Asleep(left, reason, owes) ==
  [Idle EXCEPT !.at = "asleep", !.left = left, !.reason = reason, !.owes = owes]
Yielded(left) == [Idle EXCEPT !.at = "yielded", !.left = left]
Without(w) ==
  IF w \in Inside
  THEN [i \in 1..(Len(line) - 1) |-> line[IF i < Place(w) THEN i ELSE i + 1]]
  ELSE line

(* w goes on with left frames to write.                                    *)
Run(w, left) ==
  LET n == IF path THEN Least({left, Allowed(w), Quantum}) ELSE 0
      owes == IF n > 0 THEN {} ELSE writer[w].owes
  IN
  /\ ready' = ready + n /\ owed' = owed + n
  /\ \/ n = left /\ writer' = Out(w) /\ line' = Without(w)
     \/ /\ n < left
        /\ writer' = [writer EXCEPT
             ![w] = IF n = Quantum THEN Yielded(left - n)
                    ELSE Asleep(left - n, Stopped(w, n), owes)]
        /\ line' = IF n > 0 \/ w \notin Inside THEN Append(Without(w), w) ELSE line
  /\ UNCHANGED <<again, assigned, path, losses>>

Write(w) ==
  /\ writer[w].at = "out" /\ writes < MaxWrites
  /\ writes' = writes + 1 /\ forfeited' = forfeited
  /\ \E n \in Lengths : Run(w, n)

Wake(w) ==
  /\ writer[w].at = "asleep"
  /\ \/ /\ writer[w].told
        /\ writer' = [writer EXCEPT ![w].at = "woken", ![w].told = FALSE]
     \/ /\ writer[w].token
        /\ writer' = [writer EXCEPT ![w].at = "woken", ![w].told = FALSE, ![w].token = FALSE]
  /\ UNCHANGED <<line, tableVars, path, writes, losses, forfeited>>

Resume(w) ==
  /\ writer[w].at \in {"yielded", "woken"}
  /\ Run(w, writer[w].left)
  /\ UNCHANGED <<writes, forfeited>>

(* The timer of a writer fires before it is signalled, or instead.         *)
Timeout(w) ==
  /\ writer[w].at = "asleep"
  /\ writer' = [writer EXCEPT ![w].at = "late", ![w].told = FALSE]
  /\ UNCHANGED <<line, tableVars, path, writes, losses, forfeited>>

(* The deadline has passed: Write returns what it has written so far.      *)
Leave(w) ==
  /\ writer' = Out(w) /\ line' = Without(w)
  /\ forfeited' = (forfeited \/ writer[w].owes \cap {"session", "queue"} # {})
  /\ UNCHANGED <<tableVars, path, writes, losses>>
Late(w) == writer[w].at = "late" /\ Leave(w)
Expire(w) == writer[w].at \in {"yielded", "woken"} /\ Leave(w)

-----------------------------------------------------------------------------
(* What frees room, and the Carriers.                                      *)

(* signalQueueAdmissionLocked: n frames left the queue, and left remain.   *)
Admitted(n, left) ==
  First(Least({WakeBatch, Permits(n)}), {w \in WaitingFor("queue") : Ceiling(w) > left})

(* dispatchLocked: unscheduled frames go to Carriers.                      *)
Dispatch ==
  /\ path /\ \E n \in 1..Least({ready, DispatchBatch}) :
       /\ ready' = ready - n /\ assigned' = assigned + n
       /\ again' = IF again > n THEN again - n ELSE 0
       /\ writer' = Signalled(Admitted(n, ready - n))
  /\ UNCHANGED <<line, owed, path, writes, losses, forfeited>>

(* removePendingLocked: a frame is confirmed, on its Carrier or after it.  *)
Confirm ==
  /\ path
  /\ \/ /\ assigned > 0 /\ assigned' = assigned - 1
        /\ writer' = Signalled(First(1, WaitingFor("pending")))
        /\ UNCHANGED <<ready, again>>
     \/ /\ again > 0 /\ again' = again - 1 /\ ready' = ready - 1
        /\ writer' = Signalled(Admitted(1, ready - 1) \cup First(1, WaitingFor("pending")))
        /\ UNCHANGED assigned
  /\ UNCHANGED <<line, owed, path, writes, losses, forfeited>>

(* receiveSessionCreditLocked: the peer has consumed what was delivered.   *)
Grant ==
  /\ path /\ \E n \in 1..(owed - ready + again) :
       /\ owed' = owed - n
       /\ writer' = Signalled(First(Permits(n), WaitingFor("session")))
  /\ UNCHANGED <<line, ready, again, assigned, path, writes, losses, forfeited>>

(* detachLocked: what was assigned to the Carrier is unscheduled again.    *)
Lose ==
  /\ path /\ losses < MaxLosses
  /\ path' = FALSE /\ losses' = losses + 1
  /\ ready' = ready + assigned /\ again' = again + assigned /\ assigned' = 0
  /\ writer' = Broadcast
  /\ UNCHANGED <<line, owed, writes, forfeited>>

(* attach: a Carrier is active again.                                      *)
Attach ==
  /\ ~path /\ path' = TRUE
  /\ writer' = Broadcast
  /\ UNCHANGED <<line, tableVars, writes, losses, forfeited>>

Next ==
  \/ \E w \in Writers : Write(w) \/ Wake(w) \/ Resume(w) \/ Timeout(w) \/ Late(w) \/ Expire(w)
  \/ Dispatch \/ Confirm \/ Grant \/ Lose \/ Attach

(* Woken writers run, Carriers send and are confirmed, and the peer reads. *)
Fairness ==
  /\ \A w \in Writers : WF_writerVars(Wake(w) \/ Resume(w) \/ Late(w))
  /\ WF_writerVars(Dispatch) /\ WF_writerVars(Confirm)
  /\ WF_writerVars(Grant) /\ WF_writerVars(Attach)

Spec == Init /\ [][Next]_writerVars /\ Fairness

-----------------------------------------------------------------------------

(* Who is in a Write is in line exactly once, and what the Writes commit   *)
(* stays within the credit of the peer and the table of pending DATA,      *)
(* however many of them are woken for the same room.                       *)
LimitsHold ==
  /\ Len(line) = Cardinality(Inside) /\ {line[i] : i \in 1..Len(line)} = Inside
  /\ owed <= SessionCredit /\ ready + assigned <= PendingLimit

(* Every Write ends, unless a deadline expired in the hands of a writer    *)
(* that had been given credit or room in the queue: the others are not     *)
(* told of that one.  The permits that are given must reach a writer that  *)
(* can use them, or come again with what that writer sends.                *)
WritersFed ==
  \A w \in Writers : writer[w].at # "out" ~> (writer[w].at = "out" \/ forfeited)
=============================================================================
