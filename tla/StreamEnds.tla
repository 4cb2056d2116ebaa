------------------------------ MODULE StreamEnds ------------------------------
(***************************************************************************)
(* The life of one Stream identity at both ends of a Session               *)
(* (termination.go, admission_credit.go, stream.go): OPEN and its answer,  *)
(* the three ways to end it - FIN, RESET_STREAM, STOP_SENDING - which      *)
(* cross each other and DATA in any order, STREAM_CONSUMED, the retirement *)
(* of each end and the eviction of the record it leaves.                   *)
(*                                                                         *)
(* A direction carries one DATA frame of one byte (Credit has the          *)
(* windows).  A Transmission is handled once and its confirmation settles  *)
(* it (Transmission); STREAM_WINDOW and CREDIT_PROBE may be lost.          *)
(***************************************************************************)
EXTENDS Integers, FiniteSets

CONSTANTS
  Writers, \* bound: the ends whose applications write the byte
  Evicts   \* the record of a retired Stream may be evicted (maxTerminalStreams)

VARIABLES
  st,       \* per end, the Stream or the record it left
  tx,       \* Transmissions not settled: [from, kind, offset, at]
  windows,  \* the ends that were sent a STREAM_WINDOW for the byte
  backend   \* the backend of the server has not answered

endVars == <<st, tx, windows, backend>>

Ends == {"client", "server"}
Other(e) == IF e = "client" THEN "server" ELSE "client"
NotFinal == -1

Unborn == [life |-> "none", open |-> FALSE,
           next |-> 0, known |-> 0, fin |-> FALSE, finACK |-> FALSE,
           reset |-> FALSE, resetACK |-> FALSE,
           got |-> 0, high |-> 0, read |-> 0, size |-> NotFinal,
           stopped |-> FALSE, stopQueued |-> FALSE, finalQueued |-> FALSE]

Init ==
  /\ st = [e \in Ends |-> Unborn]
  /\ tx = {} /\ windows = {} /\ backend = FALSE

Here(e) == st[e].life \in {"open", "closing"}
Largest(a, b) == IF a >= b THEN a ELSE b

-----------------------------------------------------------------------------
(* The steps of one Stream as functions of its record.                     *)

(* discardReceiveLocked.                                                   *)
Discard(r) == [r EXCEPT !.read = r.high]
(* ensureTerminationControlsLocked for STOP, ensureFinalConsumedLocked.    *)
Controls(r) ==
  [r EXCEPT !.stopQueued = @ \/ (r.stopped /\ r.size = NotFinal),
            !.finalQueued = @ \/ (~r.stopped /\ r.size # NotFinal /\ r.read = r.size)]
ResetSend(r) == [r EXCEPT !.reset = TRUE]
StopReceive(r) == Controls(Discard([r EXCEPT !.stopped = TRUE]))

(* resetLocked: a full abort is two directional operations.                *)
Reset(r) == StopReceive(ResetSend([r EXCEPT !.life = "closing"]))
(* Mutant: what the peer may have sent is not cut off.                     *)
RejectedOpen(r) ==
  [r EXCEPT !.life = "closing", !.reset = TRUE, !.resetACK = TRUE, !.stopped = TRUE]

(* An OPEN that was rejected has committed nothing in either direction.    *)
Rejected(r) ==
  [r EXCEPT !.life = "closing", !.size = 0, !.reset = TRUE, !.resetACK = TRUE, !.stopped = TRUE]

Graceful(e) ==
  LET r == st[e]
  IN /\ r.fin /\ r.finACK /\ r.size # NotFinal /\ r.read = r.size
     /\ \A t \in tx : ~(t.from = e /\ t.kind = "data")

(* Every end of a direction has a final size both sides have accounted     *)
(* for, and nothing of the Stream is unsettled.                            *)
Retires(r, mine) ==
  /\ r.life = "closing" /\ mine = {}
  /\ r.size # NotFinal /\ r.read = r.size /\ r.known = r.next
  /\ r.stopped \/ r.finalQueued
  /\ IF r.reset THEN r.resetACK ELSE r.fin /\ r.finACK

-----------------------------------------------------------------------------
(* What a step of an end sends: a Transmission for each flag it raised.    *)

Sent(e, kind, offset) == [from |-> e, kind |-> kind, offset |-> offset, at |-> "flying"]
Queued(e, old, new) ==
  (IF new.next > old.next THEN {Sent(e, "data", new.next)} ELSE {})
  \cup (IF new.fin /\ ~old.fin THEN {Sent(e, "fin", new.next)} ELSE {})
  \cup (IF new.reset /\ ~old.reset /\ ~new.resetACK THEN {Sent(e, "reset", new.next)} ELSE {})
  \cup (IF new.stopQueued /\ ~old.stopQueued THEN {Sent(e, "stop", 0)} ELSE {})
  \cup (IF new.finalQueued /\ ~old.finalQueued THEN {Sent(e, "consumed", new.size)} ELSE {})

(* The Stream of e becomes r and the unsettled Transmissions rest; it      *)
(* retires when it can, advertises what it consumed.                       *)
Becomes(e, r, rest) ==
  LET all == rest \cup Queued(e, st[e], r)
      mine == {t \in all : t.from = e}
      done == Retires(r, mine)
  IN /\ st' = [st EXCEPT ![e] = IF done THEN [r EXCEPT !.life = "retired"] ELSE r]
     /\ tx' = all
     /\ windows' = IF r.read > st[e].read THEN windows \cup {Other(e)} ELSE windows

-----------------------------------------------------------------------------
(* The applications.                                                       *)

(* openWithAdmission.                                                      *)
Open ==
  /\ st["client"].life = "none"
  /\ Becomes("client", [st["client"] EXCEPT !.life = "open"], tx \cup {Sent("client", "open", 0)})
  /\ UNCHANGED backend

(* accept, or a backend that fails.                                        *)
Accept ==
  /\ backend /\ backend' = FALSE
  /\ \/ st["server"].life = "open" /\ Becomes("server", [st["server"] EXCEPT !.open = TRUE], tx)
     \/ st["server"].life = "open" /\ Becomes("server", Reset(st["server"]), tx)
     \/ st["server"].life # "open" /\ UNCHANGED <<st, tx, windows>>

(* Mutant: the FIN does not end the direction.                             *)
CanSendAfterFin(r) == r.life = "open" /\ r.open /\ ~r.reset
CanSend(r) == r.life = "open" /\ r.open /\ ~r.fin /\ ~r.reset

Write(e) ==
  /\ e \in Writers /\ CanSend(st[e]) /\ st[e].next = 0
  /\ Becomes(e, [st[e] EXCEPT !.next = 1], tx)
  /\ UNCHANGED backend

CloseWrite(e) ==
  /\ CanSend(st[e])
  /\ Becomes(e, [st[e] EXCEPT !.fin = TRUE], tx)
  /\ UNCHANGED backend

Read(e) ==
  /\ st[e].life = "open" /\ ~st[e].stopped /\ st[e].got > st[e].read
  /\ Becomes(e, Controls([st[e] EXCEPT !.read = st[e].got]), tx)
  /\ UNCHANGED backend

CloseRead(e) ==
  /\ st[e].life = "open" /\ st[e].open /\ ~st[e].stopped
  /\ Becomes(e, StopReceive(st[e]), tx)
  /\ UNCHANGED backend

(* Close, or the context of the Open that waits for its answer.            *)
Close(e) ==
  /\ st[e].life = "open" /\ (st[e].open \/ e = "client")
  /\ Becomes(e, IF Graceful(e) THEN Controls([st[e] EXCEPT !.life = "closing"])
                ELSE Reset(st[e]), tx)
  /\ UNCHANGED backend

-----------------------------------------------------------------------------
(* Frames.  Confirmed(t): the frame is confirmed and not handled again.    *)

Confirmed(t) == (tx \ {t}) \cup {[t EXCEPT !.at = "confirmed"]}
Answered(t, answer) == (tx \ {t}) \cup {[t EXCEPT !.at = answer]}

Known(e) == st[e].life # "none"

(* handleOpenLocked.  An OPEN whose Stream has no answer yet is sent again *)
(* and an evicted identity is not answered at all.                         *)
HandleOpen(t) ==
  /\ t.kind = "open"
  /\ LET r == st["server"]
     IN \/ /\ r.life = "none"
           /\ Becomes("server", [r EXCEPT !.life = "open"], tx) /\ backend' = TRUE
        \/ /\ r.life = "none"
           /\ tx' = Answered(t, "rejected") /\ UNCHANGED <<st, windows, backend>>
        \/ /\ r.life \in {"open", "closing", "retired"} /\ r.open
           /\ tx' = Answered(t, "confirmed") /\ UNCHANGED <<st, windows, backend>>
        \/ /\ r.life \in {"closing", "retired"} /\ ~r.open
           /\ tx' = Answered(t, "rejected") /\ UNCHANGED <<st, windows, backend>>

(* Mutant: what arrived is not charged.                                    *)
CommitUncharged(r, offset) == r
(* receiveCommitLocked.                                                    *)
Commit(r, offset) == [r EXCEPT !.high = Largest(@, offset)]

(* handleDataFrame: a closed Stream only confirms.                         *)
HandleData(e, t) ==
  /\ t.kind = "data"
  /\ LET r == st[e]
     IN Becomes(e, IF r.life # "open" \/ t.offset <= r.read THEN r
                   ELSE IF r.stopped THEN Discard(Commit(r, t.offset))
                   ELSE [Commit(r, t.offset) EXCEPT !.got = t.offset], Confirmed(t))
  /\ UNCHANGED backend

(* handleFinalLocked.                                                      *)
HandleFin(e, t) ==
  /\ t.kind = "fin"
  /\ LET r == Commit([st[e] EXCEPT !.size = t.offset], t.offset)
     IN Becomes(e, IF ~Here(e) THEN st[e]
                   ELSE IF r.stopped \/ r.life = "closing" THEN Discard(r)
                   ELSE Controls(r), Confirmed(t))
  /\ UNCHANGED backend

(* Mutant: the reset leaves no record behind.                              *)
HandleResetForgets(e, t) ==
  /\ t.kind = "reset"
  /\ LET r == Discard(Commit([st[e] EXCEPT !.size = t.offset, !.stopped = TRUE], t.offset))
     IN IF st[e].life = "none"
        THEN tx' = Confirmed(t) /\ UNCHANGED <<st, windows>>
        ELSE Becomes(e, IF ~Here(e) THEN st[e]
                        ELSE IF ~r.open /\ r.life = "open" THEN Reset(r) ELSE r, Confirmed(t))
  /\ UNCHANGED backend

(* handleResetStreamLocked.  At a server that has not seen the OPEN it     *)
(* leaves a record, so that the OPEN is refused when it comes.             *)
HandleReset(e, t) ==
  /\ t.kind = "reset"
  /\ LET r == Discard(Commit([st[e] EXCEPT !.size = t.offset, !.stopped = TRUE], t.offset))
     IN IF st[e].life = "none"
        THEN Becomes(e, [Rejected(st[e]) EXCEPT !.life = "retired"],
                     Confirmed(t) \cup {Sent(e, "reset", 0)})
        ELSE Becomes(e, IF ~Here(e) THEN st[e]
                        ELSE IF ~r.open /\ r.life = "open" THEN Reset(r) ELSE r, Confirmed(t))
  /\ UNCHANGED backend

(* handleStopReceivingLocked: answered by a RESET_STREAM, by a retired     *)
(* Stream too, and by a server that has not seen the OPEN.                 *)
HandleStop(e, t) ==
  /\ t.kind = "stop"
  /\ LET pending == \E u \in tx : u.from = e /\ u.kind = "reset"
     IN IF st[e].life = "retired" /\ ~pending
        THEN tx' = Confirmed(t) \cup {Sent(e, "reset", st[e].next)} /\ UNCHANGED <<st, windows>>
        ELSE Becomes(e, IF st[e].life = "none" THEN Reset(st[e])
                        ELSE IF Here(e) THEN ResetSend(st[e]) ELSE st[e], Confirmed(t))
  /\ UNCHANGED backend

(* handleFinalConsumedLocked.                                              *)
HandleConsumed(e, t) ==
  /\ t.kind = "consumed"
  /\ Becomes(e, IF Here(e) THEN [st[e] EXCEPT !.known = Largest(@, t.offset)] ELSE st[e], Confirmed(t))
  /\ UNCHANGED backend

(* What the peer refuses ends the whole Session.                           *)
Passes(t) ==
  LET r == st[Other(t.from)]
      fits == t.offset >= r.high /\ t.offset >= r.read /\ (r.size # NotFinal => t.offset = r.size)
  IN /\ t.kind \in {"data", "fin"} => r.life # "none"
     /\ t.kind = "data" /\ Here(Other(t.from)) =>
          /\ r.size # NotFinal => t.offset <= r.size
          /\ Other(t.from) = "server" /\ r.life = "open" => r.open
     /\ t.kind = "data" /\ r.life = "retired" => t.offset <= r.size
     /\ t.kind \in {"fin", "reset"} /\ Here(Other(t.from)) => fits
     /\ t.kind \in {"fin", "reset"} /\ r.life = "retired" => t.offset = r.size
     /\ t.kind = "reset" /\ r.life = "none" => Other(t.from) = "server" /\ t.offset = 0
     /\ t.kind = "consumed" /\ Here(Other(t.from)) => (r.fin \/ r.reset) /\ t.offset = r.next
     /\ t.kind = "consumed" /\ r.life = "retired" => t.offset = r.next

Handle(t) ==
  LET e == Other(t.from)
  IN /\ t.at = "flying" /\ Passes(t)
     /\ \/ HandleOpen(t) \/ HandleData(e, t) \/ HandleFin(e, t)
        \/ HandleReset(e, t) \/ HandleStop(e, t) \/ HandleConsumed(e, t)

(* ackLocked, and OPEN_REJECT in handleFrame.                              *)
Settle(t) ==
  /\ t.at # "flying"
  /\ LET r == st[t.from]
     IN Becomes(t.from,
          IF ~Here(t.from) THEN r
          ELSE IF t.at = "rejected" THEN (IF r.life = "open" /\ ~r.open THEN Rejected(r) ELSE r)
          ELSE CASE t.kind = "open" -> [r EXCEPT !.open = @ \/ r.life = "open"]
                 [] t.kind = "fin" -> [r EXCEPT !.finACK = TRUE]
                 [] t.kind = "reset" -> [r EXCEPT !.resetACK = TRUE, !.known = r.next]
                 [] OTHER -> r,
          tx \ {t})
  /\ UNCHANGED backend

(* receiveCreditLocked and tryRetireStreamLocked.                          *)
Learns(e, consumed) ==
  LET r == [st[e] EXCEPT !.known = Largest(@, consumed)]
      mine == {t \in tx : t.from = e}
  IN st' = [st EXCEPT ![e] = IF Retires(r, mine) THEN [r EXCEPT !.life = "retired"] ELSE r]

RecvWindow(e) ==
  /\ e \in windows /\ Here(e) /\ Learns(e, 1)
  /\ UNCHANGED <<tx, windows, backend>>

(* sweepClosingLocked, every second: the window is sent again and the peer *)
(* is asked for its own (handleCreditProbeLocked), which it knows until    *)
(* its record is evicted.                                                  *)
Sweep(e) ==
  /\ Here(e) /\ {st[e].life, st[Other(e)].life} \cap {"closing"} # {}
  /\ Here(Other(e)) \/ st[Other(e)].life = "retired"
  /\ Learns(e, st[Other(e)].read)
  /\ UNCHANGED <<tx, windows, backend>>

(* rememberTerminalLocked of 8192 later Streams.                           *)
Evict(e) ==
  /\ Evicts /\ st[e].life = "retired"
  /\ st' = [st EXCEPT ![e].life = "forgotten"]
  /\ UNCHANGED <<tx, windows, backend>>

-----------------------------------------------------------------------------

Next ==
  \/ Open \/ Accept
  \/ \E e \in Ends : \/ Write(e) \/ CloseWrite(e) \/ Read(e) \/ CloseRead(e) \/ Close(e)
                     \/ RecvWindow(e) \/ Sweep(e) \/ Evict(e)
  \/ \E t \in tx : Handle(t) \/ Settle(t)

Transmissions == [from : Ends, kind : {"open", "data", "fin", "reset", "stop", "consumed"},
                  offset : 0..1, at : {"flying", "confirmed", "rejected"}]

(* Transmissions are delivered and confirmed, a sweep that is repeated     *)
(* gets through, and both applications close; a window may be lost.        *)
Fairness ==
  /\ WF_endVars(\E t \in tx : Handle(t) \/ Settle(t))
  /\ \A e \in Ends : WF_endVars(Sweep(e)) /\ WF_endVars(Close(e))
  /\ WF_endVars(Accept)

EndSpec == Init /\ [][Next]_endVars /\ Fairness

-----------------------------------------------------------------------------

TypeOK ==
  /\ tx \subseteq Transmissions
  /\ windows \subseteq Ends
  /\ \A e \in Ends :
       /\ st[e].life \in {"none", "open", "closing", "retired", "forgotten"}
       /\ st[e].read <= st[e].high /\ st[e].known <= st[e].next

(* However DATA, FIN, RESET_STREAM, STOP_SENDING and STREAM_CONSUMED of    *)
(* both ends cross, no frame contradicts what its receiver knows of the    *)
(* Stream, open or retired: a correct peer is never disconnected.          *)
NeverRefused == \A t \in tx : t.at = "flying" => Passes(t)

(* A Stream that both applications have closed is retired at both ends,    *)
(* though windows may be lost, as long as no record is evicted too early.  *)
BothRetire ==
  (\A e \in Ends : st[e].life = "closing") ~>
    \/ \A e \in Ends : st[e].life = "retired"
    \/ \E e \in Ends : st[e].life = "forgotten"

(* An identity is used once: what was closed at an end does not come back, *)
(* and what is retired there leaves both final sizes agreed with the peer. *)
SizesAgree ==
  \A e \in Ends : st[e].life \in {"retired", "forgotten"} =>
    LET peer == st[Other(e)]
    IN /\ peer.life # "none" => st[e].size = peer.next
       /\ peer.size # NotFinal => peer.size = st[e].next
(* The records are of their types, and the final sizes agree.              *)
EndsAgree == TypeOK /\ SizesAgree
=============================================================================
