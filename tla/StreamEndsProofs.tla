--------------------------- MODULE StreamEndsProofs ---------------------------
(***************************************************************************)
(* Proofs about StreamEnds: its records and final sizes agree, and no      *)
(* frame is refused.                                                       *)
(***************************************************************************)
EXTENDS StreamEnds, TLAPS

Lives == {"none", "open", "closing", "retired", "forgotten"}
Records ==
  [life : Lives, open : BOOLEAN,
   next : 0..1, known : 0..1, fin : BOOLEAN, finACK : BOOLEAN,
   reset : BOOLEAN, resetACK : BOOLEAN,
   got : 0..1, high : 0..1, read : 0..1, size : -1..1,
   stopped : BOOLEAN, stopQueued : BOOLEAN, finalQueued : BOOLEAN]

(* What one end keeps.  Before it is opened it has sent nothing; a Stream  *)
(* that is closed has ended its own direction, and one that is retired     *)
(* knows the final size of the other.                                      *)
EndKept(r) ==
  /\ r \in Records
  /\ r.got <= r.high /\ r.read <= r.high /\ r.known <= r.next
  /\ r.life = "none" => r = Unborn
  /\ ~r.open => r.next = 0 /\ ~r.fin
  /\ r.life \in {"closing", "retired", "forgotten"} => r.fin \/ r.reset
  /\ r.life \in {"retired", "forgotten"} => r.size # NotFinal
  /\ r.finalQueued => r.size # NotFinal

(* What the end r knows of the direction of the end s.                     *)
Ended(s) == s.fin \/ s.reset \/ s.life = "none"
Heard(s, r) ==
  /\ r.high <= s.next
  /\ r.size # NotFinal => r.size = s.next /\ Ended(s)

(* What a Transmission says is still true of the end s that sent it.       *)
Truthful(t, s) ==
  /\ s.life # "none"
  /\ t.kind = "open" => t.from = "client"
  /\ t.at = "rejected" => t.kind = "open"
  /\ t.kind = "data" => t.offset = 1 /\ s.next = 1
  /\ t.kind = "fin" => t.offset = s.next /\ s.fin
  /\ t.kind = "reset" => t.offset = s.next /\ (s.fin \/ s.reset)
  /\ t.kind = "consumed" => t.offset = s.size /\ s.size # NotFinal

(* There is one OPEN, and what became of it the server agrees with.        *)
Opening(c, s, sent) ==
  /\ c.life = "none" => s.life = "none"
  /\ c.open => s.open
  /\ \A t, u \in sent : t.kind = "open" /\ u.kind = "open" => t = u
  /\ \A t \in sent : t.kind = "open" /\ t.at = "confirmed" => s.open
  /\ \A t \in sent : t.at = "rejected" => ~s.open /\ s.life # "open"
  /\ s.life = "none" /\ c.size # NotFinal =>
       \A t \in sent : ~(t.kind = "open" /\ t.at = "flying")

EndsKept ==
  /\ st \in [Ends -> Records]
  /\ \A e \in Ends : EndKept(st[e])
  /\ \A e \in Ends : Heard(st[e], st[Other(e)])
  /\ tx \subseteq Transmissions /\ \A t \in tx : Truthful(t, st[t.from])
  /\ windows \subseteq Ends /\ \A e \in windows : st[e].next = 1
EndsInv == EndsKept /\ Opening(st["client"], st["server"], tx)

-----------------------------------------------------------------------------
(* The fields of a record.                                                 *)

RangesOf(r) ==
  /\ r.next \in 0..1 /\ r.known \in 0..1 /\ r.got \in 0..1 /\ r.high \in 0..1 /\ r.read \in 0..1
  /\ r.size \in -1..1 /\ r.life \in Lives

LEMMA RecordRanges == \A r \in Records : RangesOf(r)
BY DEF Records, RangesOf

(* What a step may do to the record p of an end.                           *)
Grows(p, r) ==
  /\ p.open => r.open
  /\ p.life # "none" => r.life # "none"
  /\ p.next <= r.next /\ (p.fin \/ p.reset => r.next = p.next)
  /\ (p.fin => r.fin) /\ (p.reset => r.reset)
  /\ p.size # NotFinal => r.size = p.size

Follows(p, s, r) == EndKept(r) /\ Grows(p, r) /\ Heard(s, r)

-----------------------------------------------------------------------------
(* The steps of a record, one by one.                                      *)

(* The application reads no more.                                          *)
Stops(r) == [r EXCEPT !.stopped = TRUE]

LEMMA StopsFollows ==
  ASSUME NEW p \in Records, NEW s \in Records, NEW r \in Records, Follows(p, s, r),
         r.life # "none"
  PROVE  /\ Stops(r) \in Records /\ Follows(p, s, Stops(r))
         /\ Stops(r).life = r.life /\ Stops(r).open = r.open
         /\ Stops(r).size = r.size
<1>1. Stops(r) \in Records
  BY DEF Stops, Records, Lives
<1>2. /\ Stops(r).life = r.life /\ Stops(r).open = r.open /\ Stops(r).next = r.next
      /\ Stops(r).known = r.known /\ Stops(r).fin = r.fin /\ Stops(r).reset = r.reset
      /\ Stops(r).got = r.got /\ Stops(r).high = r.high /\ Stops(r).read = r.read
      /\ Stops(r).size = r.size /\ Stops(r).finalQueued = r.finalQueued
  BY DEF Stops, Records, Lives
<1>3. RangesOf(p) /\ RangesOf(s) /\ RangesOf(r)
  BY RecordRanges
<1>. QED BY <1>1, <1>2, <1>3 DEF Follows, EndKept, Grows, Heard, Ended, RangesOf, Largest, NotFinal

(* What arrived is thrown away.                                            *)
LEMMA DiscardFollows ==
  ASSUME NEW p \in Records, NEW s \in Records, NEW r \in Records, Follows(p, s, r),
         r.life # "none"
  PROVE  /\ Discard(r) \in Records /\ Follows(p, s, Discard(r))
         /\ Discard(r).life = r.life /\ Discard(r).open = r.open
         /\ Discard(r).size = r.size
<1>1. Discard(r) \in Records
  BY DEF Discard, Records, Lives
<1>2. /\ Discard(r).life = r.life /\ Discard(r).open = r.open /\ Discard(r).next = r.next
      /\ Discard(r).known = r.known /\ Discard(r).fin = r.fin /\ Discard(r).reset = r.reset
      /\ Discard(r).got = r.got /\ Discard(r).high = r.high /\ Discard(r).read = r.high
      /\ Discard(r).size = r.size /\ Discard(r).finalQueued = r.finalQueued
  BY DEF Discard, Records, Lives
<1>3. RangesOf(p) /\ RangesOf(s) /\ RangesOf(r)
  BY RecordRanges
<1>. QED BY <1>1, <1>2, <1>3 DEF Follows, EndKept, Grows, Heard, Ended, RangesOf, Largest, NotFinal

(* The sending direction is reset.                                         *)
LEMMA ResetSendFollows ==
  ASSUME NEW p \in Records, NEW s \in Records, NEW r \in Records, Follows(p, s, r),
         r.life # "none"
  PROVE  /\ ResetSend(r) \in Records /\ Follows(p, s, ResetSend(r))
         /\ ResetSend(r).life = r.life /\ ResetSend(r).open = r.open
         /\ ResetSend(r).size = r.size
<1>1. ResetSend(r) \in Records
  BY DEF ResetSend, Records, Lives
<1>2. /\ ResetSend(r).life = r.life /\ ResetSend(r).open = r.open /\ ResetSend(r).next = r.next
      /\ ResetSend(r).known = r.known /\ ResetSend(r).fin = r.fin /\ ResetSend(r).reset = TRUE
      /\ ResetSend(r).got = r.got /\ ResetSend(r).high = r.high /\ ResetSend(r).read = r.read
      /\ ResetSend(r).size = r.size /\ ResetSend(r).finalQueued = r.finalQueued
  BY DEF ResetSend, Records, Lives
<1>3. RangesOf(p) /\ RangesOf(s) /\ RangesOf(r)
  BY RecordRanges
<1>. QED BY <1>1, <1>2, <1>3 DEF Follows, EndKept, Grows, Heard, Ended, RangesOf, Largest, NotFinal

(* The Stream is closed and its sending direction reset.                   *)
Aborts(r) == [r EXCEPT !.life = "closing", !.reset = TRUE]

LEMMA AbortsFollows ==
  ASSUME NEW p \in Records, NEW s \in Records, NEW r \in Records, Follows(p, s, r)
  PROVE  /\ Aborts(r) \in Records /\ Follows(p, s, Aborts(r))
         /\ Aborts(r).life = "closing" /\ Aborts(r).open = r.open
         /\ Aborts(r).size = r.size
<1>1. Aborts(r) \in Records
  BY DEF Aborts, Records, Lives
<1>2. /\ Aborts(r).life = "closing" /\ Aborts(r).open = r.open /\ Aborts(r).next = r.next
      /\ Aborts(r).known = r.known /\ Aborts(r).fin = r.fin /\ Aborts(r).reset = TRUE
      /\ Aborts(r).got = r.got /\ Aborts(r).high = r.high /\ Aborts(r).read = r.read
      /\ Aborts(r).size = r.size /\ Aborts(r).finalQueued = r.finalQueued
  BY DEF Aborts, Records, Lives
<1>3. RangesOf(p) /\ RangesOf(s) /\ RangesOf(r)
  BY RecordRanges
<1>. QED BY <1>1, <1>2, <1>3 DEF Follows, EndKept, Grows, Heard, Ended, RangesOf, Largest, NotFinal

(* What arrived is charged.                                                *)
LEMMA CommitFollows ==
  ASSUME NEW p \in Records, NEW s \in Records, NEW r \in Records, NEW o, Follows(p, s, r),
         r.life # "none", o \in 0..1, o <= s.next
  PROVE  /\ Commit(r, o) \in Records /\ Follows(p, s, Commit(r, o))
         /\ Commit(r, o).life = r.life /\ Commit(r, o).open = r.open
         /\ Commit(r, o).size = r.size
<1>0. Largest(r.high, o) \in 0..1
  <2>1. r.high \in 0..1
    BY RecordRanges DEF RangesOf
  <2>. QED BY <2>1 DEF Largest
<1>1. Commit(r, o) \in Records
  BY <1>0 DEF Commit, Records, Lives
<1>2. /\ Commit(r, o).life = r.life /\ Commit(r, o).open = r.open /\ Commit(r, o).next = r.next
      /\ Commit(r, o).known = r.known /\ Commit(r, o).fin = r.fin /\ Commit(r, o).reset = r.reset
      /\ Commit(r, o).got = r.got /\ Commit(r, o).high = Largest(r.high, o) /\ Commit(r, o).read = r.read
      /\ Commit(r, o).size = r.size /\ Commit(r, o).finalQueued = r.finalQueued
  BY DEF Commit, Records, Lives
<1>3. RangesOf(p) /\ RangesOf(s) /\ RangesOf(r)
  BY RecordRanges
<1>. QED BY <1>1, <1>2, <1>3 DEF Follows, EndKept, Grows, Heard, Ended, RangesOf, Largest, NotFinal

(* A RESET_STREAM ends the direction.                                      *)
CutOff(r, o) == [r EXCEPT !.size = o, !.stopped = TRUE]

LEMMA CutOffFollows ==
  ASSUME NEW p \in Records, NEW s \in Records, NEW r \in Records, NEW o, Follows(p, s, r),
         r.life # "none", o \in 0..1, o = s.next, Ended(s)
  PROVE  /\ CutOff(r, o) \in Records /\ Follows(p, s, CutOff(r, o))
         /\ CutOff(r, o).life = r.life /\ CutOff(r, o).open = r.open
         /\ CutOff(r, o).size = o
<1>0. o \in -1..1
  OBVIOUS
<1>1. CutOff(r, o) \in Records
  BY <1>0 DEF CutOff, Records, Lives
<1>2. /\ CutOff(r, o).life = r.life /\ CutOff(r, o).open = r.open /\ CutOff(r, o).next = r.next
      /\ CutOff(r, o).known = r.known /\ CutOff(r, o).fin = r.fin /\ CutOff(r, o).reset = r.reset
      /\ CutOff(r, o).got = r.got /\ CutOff(r, o).high = r.high /\ CutOff(r, o).read = r.read
      /\ CutOff(r, o).size = o /\ CutOff(r, o).finalQueued = r.finalQueued
  BY DEF CutOff, Records, Lives
<1>3. RangesOf(p) /\ RangesOf(s) /\ RangesOf(r)
  BY RecordRanges
<1>. QED BY <1>1, <1>2, <1>3 DEF Follows, EndKept, Grows, Heard, Ended, RangesOf, Largest, NotFinal

(* The final size is learnt.                                               *)
Finishes(r, o) == [r EXCEPT !.size = o]

LEMMA FinishesFollows ==
  ASSUME NEW p \in Records, NEW s \in Records, NEW r \in Records, NEW o, Follows(p, s, r),
         r.life # "none", o \in 0..1, o = s.next, Ended(s)
  PROVE  /\ Finishes(r, o) \in Records /\ Follows(p, s, Finishes(r, o))
         /\ Finishes(r, o).life = r.life /\ Finishes(r, o).open = r.open
         /\ Finishes(r, o).size = o
<1>0. o \in -1..1
  OBVIOUS
<1>1. Finishes(r, o) \in Records
  BY <1>0 DEF Finishes, Records, Lives
<1>2. /\ Finishes(r, o).life = r.life /\ Finishes(r, o).open = r.open /\ Finishes(r, o).next = r.next
      /\ Finishes(r, o).known = r.known /\ Finishes(r, o).fin = r.fin /\ Finishes(r, o).reset = r.reset
      /\ Finishes(r, o).got = r.got /\ Finishes(r, o).high = r.high /\ Finishes(r, o).read = r.read
      /\ Finishes(r, o).size = o /\ Finishes(r, o).finalQueued = r.finalQueued
  BY DEF Finishes, Records, Lives
<1>3. RangesOf(p) /\ RangesOf(s) /\ RangesOf(r)
  BY RecordRanges
<1>. QED BY <1>1, <1>2, <1>3 DEF Follows, EndKept, Grows, Heard, Ended, RangesOf, Largest, NotFinal

(* A byte arrives.                                                         *)
Gets(r, o) == [r EXCEPT !.got = o]

LEMMA GetsFollows ==
  ASSUME NEW p \in Records, NEW s \in Records, NEW r \in Records, NEW o, Follows(p, s, r),
         r.life # "none", o \in 0..1, o <= r.high
  PROVE  /\ Gets(r, o) \in Records /\ Follows(p, s, Gets(r, o))
         /\ Gets(r, o).life = r.life /\ Gets(r, o).open = r.open
         /\ Gets(r, o).size = r.size
<1>1. Gets(r, o) \in Records
  BY DEF Gets, Records, Lives
<1>2. /\ Gets(r, o).life = r.life /\ Gets(r, o).open = r.open /\ Gets(r, o).next = r.next
      /\ Gets(r, o).known = r.known /\ Gets(r, o).fin = r.fin /\ Gets(r, o).reset = r.reset
      /\ Gets(r, o).got = o /\ Gets(r, o).high = r.high /\ Gets(r, o).read = r.read
      /\ Gets(r, o).size = r.size /\ Gets(r, o).finalQueued = r.finalQueued
  BY DEF Gets, Records, Lives
<1>3. RangesOf(p) /\ RangesOf(s) /\ RangesOf(r)
  BY RecordRanges
<1>. QED BY <1>1, <1>2, <1>3 DEF Follows, EndKept, Grows, Heard, Ended, RangesOf, Largest, NotFinal

(* A byte is written.                                                      *)
Writes(r) == [r EXCEPT !.next = 1]

LEMMA WritesFollows ==
  ASSUME NEW p \in Records, NEW s \in Records, NEW r \in Records, Follows(p, s, r),
         r.life # "none", ~r.fin, ~r.reset, r.open, ~p.fin, ~p.reset
  PROVE  /\ Writes(r) \in Records /\ Follows(p, s, Writes(r))
         /\ Writes(r).life = r.life /\ Writes(r).open = r.open
         /\ Writes(r).size = r.size
<1>1. Writes(r) \in Records
  BY DEF Writes, Records, Lives
<1>2. /\ Writes(r).life = r.life /\ Writes(r).open = r.open /\ Writes(r).next = 1
      /\ Writes(r).known = r.known /\ Writes(r).fin = r.fin /\ Writes(r).reset = r.reset
      /\ Writes(r).got = r.got /\ Writes(r).high = r.high /\ Writes(r).read = r.read
      /\ Writes(r).size = r.size /\ Writes(r).finalQueued = r.finalQueued
  BY DEF Writes, Records, Lives
<1>3. RangesOf(p) /\ RangesOf(s) /\ RangesOf(r)
  BY RecordRanges
<1>. QED BY <1>1, <1>2, <1>3 DEF Follows, EndKept, Grows, Heard, Ended, RangesOf, Largest, NotFinal

(* The sending direction ends.                                             *)
Shuts(r) == [r EXCEPT !.fin = TRUE]

LEMMA ShutsFollows ==
  ASSUME NEW p \in Records, NEW s \in Records, NEW r \in Records, Follows(p, s, r),
         r.life # "none", r.open
  PROVE  /\ Shuts(r) \in Records /\ Follows(p, s, Shuts(r))
         /\ Shuts(r).life = r.life /\ Shuts(r).open = r.open
         /\ Shuts(r).size = r.size
<1>1. Shuts(r) \in Records
  BY DEF Shuts, Records, Lives
<1>2. /\ Shuts(r).life = r.life /\ Shuts(r).open = r.open /\ Shuts(r).next = r.next
      /\ Shuts(r).known = r.known /\ Shuts(r).fin = TRUE /\ Shuts(r).reset = r.reset
      /\ Shuts(r).got = r.got /\ Shuts(r).high = r.high /\ Shuts(r).read = r.read
      /\ Shuts(r).size = r.size /\ Shuts(r).finalQueued = r.finalQueued
  BY DEF Shuts, Records, Lives
<1>3. RangesOf(p) /\ RangesOf(s) /\ RangesOf(r)
  BY RecordRanges
<1>. QED BY <1>1, <1>2, <1>3 DEF Follows, EndKept, Grows, Heard, Ended, RangesOf, Largest, NotFinal

(* The application reads.                                                  *)
Reads(r) == [r EXCEPT !.read = r.got]

LEMMA ReadsFollows ==
  ASSUME NEW p \in Records, NEW s \in Records, NEW r \in Records, Follows(p, s, r),
         r.life # "none"
  PROVE  /\ Reads(r) \in Records /\ Follows(p, s, Reads(r))
         /\ Reads(r).life = r.life /\ Reads(r).open = r.open
         /\ Reads(r).size = r.size
<1>1. Reads(r) \in Records
  BY DEF Reads, Records, Lives
<1>2. /\ Reads(r).life = r.life /\ Reads(r).open = r.open /\ Reads(r).next = r.next
      /\ Reads(r).known = r.known /\ Reads(r).fin = r.fin /\ Reads(r).reset = r.reset
      /\ Reads(r).got = r.got /\ Reads(r).high = r.high /\ Reads(r).read = r.got
      /\ Reads(r).size = r.size /\ Reads(r).finalQueued = r.finalQueued
  BY DEF Reads, Records, Lives
<1>3. RangesOf(p) /\ RangesOf(s) /\ RangesOf(r)
  BY RecordRanges
<1>. QED BY <1>1, <1>2, <1>3 DEF Follows, EndKept, Grows, Heard, Ended, RangesOf, Largest, NotFinal

(* The peer has consumed.                                                  *)
Accounts(r, o) == [r EXCEPT !.known = Largest(@, o)]

LEMMA AccountsFollows ==
  ASSUME NEW p \in Records, NEW s \in Records, NEW r \in Records, NEW o, Follows(p, s, r),
         r.life # "none", o \in 0..1, o <= r.next
  PROVE  /\ Accounts(r, o) \in Records /\ Follows(p, s, Accounts(r, o))
         /\ Accounts(r, o).life = r.life /\ Accounts(r, o).open = r.open
         /\ Accounts(r, o).size = r.size
<1>0. Largest(r.known, o) \in 0..1
  <2>1. r.known \in 0..1
    BY RecordRanges DEF RangesOf
  <2>. QED BY <2>1 DEF Largest
<1>1. Accounts(r, o) \in Records
  BY <1>0 DEF Accounts, Records, Lives
<1>2. /\ Accounts(r, o).life = r.life /\ Accounts(r, o).open = r.open /\ Accounts(r, o).next = r.next
      /\ Accounts(r, o).known = Largest(r.known, o) /\ Accounts(r, o).fin = r.fin /\ Accounts(r, o).reset = r.reset
      /\ Accounts(r, o).got = r.got /\ Accounts(r, o).high = r.high /\ Accounts(r, o).read = r.read
      /\ Accounts(r, o).size = r.size /\ Accounts(r, o).finalQueued = r.finalQueued
  BY DEF Accounts, Records, Lives
<1>3. RangesOf(p) /\ RangesOf(s) /\ RangesOf(r)
  BY RecordRanges
<1>. QED BY <1>1, <1>2, <1>3 DEF Follows, EndKept, Grows, Heard, Ended, RangesOf, Largest, NotFinal

(* The Stream is closed.                                                   *)
Closes(r) == [r EXCEPT !.life = "closing"]

LEMMA ClosesFollows ==
  ASSUME NEW p \in Records, NEW s \in Records, NEW r \in Records, Follows(p, s, r),
         r.life # "none", r.fin \/ r.reset
  PROVE  /\ Closes(r) \in Records /\ Follows(p, s, Closes(r))
         /\ Closes(r).life = "closing" /\ Closes(r).open = r.open
         /\ Closes(r).size = r.size
<1>1. Closes(r) \in Records
  BY DEF Closes, Records, Lives
<1>2. /\ Closes(r).life = "closing" /\ Closes(r).open = r.open /\ Closes(r).next = r.next
      /\ Closes(r).known = r.known /\ Closes(r).fin = r.fin /\ Closes(r).reset = r.reset
      /\ Closes(r).got = r.got /\ Closes(r).high = r.high /\ Closes(r).read = r.read
      /\ Closes(r).size = r.size /\ Closes(r).finalQueued = r.finalQueued
  BY DEF Closes, Records, Lives
<1>3. RangesOf(p) /\ RangesOf(s) /\ RangesOf(r)
  BY RecordRanges
<1>. QED BY <1>1, <1>2, <1>3 DEF Follows, EndKept, Grows, Heard, Ended, RangesOf, Largest, NotFinal

(* An OPEN was rejected.                                                   *)
LEMMA RejectedFollows ==
  ASSUME NEW p \in Records, NEW s \in Records, NEW r \in Records, Follows(p, s, r),
         s.next = 0, Ended(s)
  PROVE  /\ Rejected(r) \in Records /\ Follows(p, s, Rejected(r))
         /\ Rejected(r).life = "closing" /\ Rejected(r).open = r.open
         /\ Rejected(r).size = 0
<1>0. 0 \in -1..1 /\ "closing" \in Lives
  BY DEF Lives
<1>1. Rejected(r) \in Records
  BY <1>0 DEF Rejected, Records
<1>2. /\ Rejected(r).life = "closing" /\ Rejected(r).open = r.open /\ Rejected(r).next = r.next
      /\ Rejected(r).known = r.known /\ Rejected(r).fin = r.fin /\ Rejected(r).reset = TRUE
      /\ Rejected(r).got = r.got /\ Rejected(r).high = r.high /\ Rejected(r).read = r.read
      /\ Rejected(r).size = 0 /\ Rejected(r).finalQueued = r.finalQueued
  BY DEF Rejected, Records, Lives
<1>3. RangesOf(p) /\ RangesOf(s) /\ RangesOf(r)
  BY RecordRanges
<1>. QED BY <1>1, <1>2, <1>3 DEF Follows, EndKept, Grows, Heard, Ended, RangesOf, Largest, NotFinal

(* The Stream is retired.                                                  *)
Retired(r) == [r EXCEPT !.life = "retired"]

LEMMA RetiredFollows ==
  ASSUME NEW p \in Records, NEW s \in Records, NEW r \in Records, Follows(p, s, r),
         r.life # "none", r.fin \/ r.reset, r.size # NotFinal
  PROVE  /\ Retired(r) \in Records /\ Follows(p, s, Retired(r))
         /\ Retired(r).life = "retired" /\ Retired(r).open = r.open
         /\ Retired(r).size = r.size
<1>1. Retired(r) \in Records
  BY DEF Retired, Records, Lives
<1>2. /\ Retired(r).life = "retired" /\ Retired(r).open = r.open /\ Retired(r).next = r.next
      /\ Retired(r).known = r.known /\ Retired(r).fin = r.fin /\ Retired(r).reset = r.reset
      /\ Retired(r).got = r.got /\ Retired(r).high = r.high /\ Retired(r).read = r.read
      /\ Retired(r).size = r.size /\ Retired(r).finalQueued = r.finalQueued
  BY DEF Retired, Records, Lives
<1>3. RangesOf(p) /\ RangesOf(s) /\ RangesOf(r)
  BY RecordRanges
<1>. QED BY <1>1, <1>2, <1>3 DEF Follows, EndKept, Grows, Heard, Ended, RangesOf, Largest, NotFinal

(* The OPEN is answered.                                                   *)
Opens(r, o) == [r EXCEPT !.open = o]

LEMMA OpensFollows ==
  ASSUME NEW p \in Records, NEW s \in Records, NEW r \in Records, NEW o, Follows(p, s, r),
         r.life # "none", o \in BOOLEAN, r.open => o
  PROVE  /\ Opens(r, o) \in Records /\ Follows(p, s, Opens(r, o))
         /\ Opens(r, o).life = r.life /\ Opens(r, o).open = o
         /\ Opens(r, o).size = r.size
<1>1. Opens(r, o) \in Records
  BY DEF Opens, Records, Lives
<1>2. /\ Opens(r, o).life = r.life /\ Opens(r, o).open = o /\ Opens(r, o).next = r.next
      /\ Opens(r, o).known = r.known /\ Opens(r, o).fin = r.fin /\ Opens(r, o).reset = r.reset
      /\ Opens(r, o).got = r.got /\ Opens(r, o).high = r.high /\ Opens(r, o).read = r.read
      /\ Opens(r, o).size = r.size /\ Opens(r, o).finalQueued = r.finalQueued
  BY DEF Opens, Records, Lives
<1>3. RangesOf(p) /\ RangesOf(s) /\ RangesOf(r)
  BY RecordRanges
<1>. QED BY <1>1, <1>2, <1>3 DEF Follows, EndKept, Grows, Heard, Ended, RangesOf, Largest, NotFinal

(* The Stream is opened.                                                   *)
Born(r) == [r EXCEPT !.life = "open"]

LEMMA BornFollows ==
  ASSUME NEW p \in Records, NEW s \in Records, NEW r \in Records, Follows(p, s, r)
  PROVE  /\ Born(r) \in Records /\ Follows(p, s, Born(r))
         /\ Born(r).life = "open" /\ Born(r).open = r.open
         /\ Born(r).size = r.size
<1>1. Born(r) \in Records
  BY DEF Born, Records, Lives
<1>2. /\ Born(r).life = "open" /\ Born(r).open = r.open /\ Born(r).next = r.next
      /\ Born(r).known = r.known /\ Born(r).fin = r.fin /\ Born(r).reset = r.reset
      /\ Born(r).got = r.got /\ Born(r).high = r.high /\ Born(r).read = r.read
      /\ Born(r).size = r.size /\ Born(r).finalQueued = r.finalQueued
  BY DEF Born, Records, Lives
<1>3. RangesOf(p) /\ RangesOf(s) /\ RangesOf(r)
  BY RecordRanges
<1>. QED BY <1>1, <1>2, <1>3 DEF Follows, EndKept, Grows, Heard, Ended, RangesOf, Largest, NotFinal

(* The record is evicted.                                                  *)
Forgets(r) == [r EXCEPT !.life = "forgotten"]

LEMMA ForgetsFollows ==
  ASSUME NEW p \in Records, NEW s \in Records, NEW r \in Records, Follows(p, s, r),
         r.life # "none", r.life = "retired"
  PROVE  /\ Forgets(r) \in Records /\ Follows(p, s, Forgets(r))
         /\ Forgets(r).life = "forgotten" /\ Forgets(r).open = r.open
         /\ Forgets(r).size = r.size
<1>1. Forgets(r) \in Records
  BY DEF Forgets, Records, Lives
<1>2. /\ Forgets(r).life = "forgotten" /\ Forgets(r).open = r.open /\ Forgets(r).next = r.next
      /\ Forgets(r).known = r.known /\ Forgets(r).fin = r.fin /\ Forgets(r).reset = r.reset
      /\ Forgets(r).got = r.got /\ Forgets(r).high = r.high /\ Forgets(r).read = r.read
      /\ Forgets(r).size = r.size /\ Forgets(r).finalQueued = r.finalQueued
  BY DEF Forgets, Records, Lives
<1>3. RangesOf(p) /\ RangesOf(s) /\ RangesOf(r)
  BY RecordRanges
<1>. QED BY <1>1, <1>2, <1>3 DEF Follows, EndKept, Grows, Heard, Ended, RangesOf, Largest, NotFinal

(* The FIN is confirmed.                                                   *)
FinSettled(r) == [r EXCEPT !.finACK = TRUE]

LEMMA FinSettledFollows ==
  ASSUME NEW p \in Records, NEW s \in Records, NEW r \in Records, Follows(p, s, r),
         r.life # "none"
  PROVE  /\ FinSettled(r) \in Records /\ Follows(p, s, FinSettled(r))
         /\ FinSettled(r).life = r.life /\ FinSettled(r).open = r.open
         /\ FinSettled(r).size = r.size
<1>1. FinSettled(r) \in Records
  BY DEF FinSettled, Records, Lives
<1>2. /\ FinSettled(r).life = r.life /\ FinSettled(r).open = r.open /\ FinSettled(r).next = r.next
      /\ FinSettled(r).known = r.known /\ FinSettled(r).fin = r.fin /\ FinSettled(r).reset = r.reset
      /\ FinSettled(r).got = r.got /\ FinSettled(r).high = r.high /\ FinSettled(r).read = r.read
      /\ FinSettled(r).size = r.size /\ FinSettled(r).finalQueued = r.finalQueued
  BY DEF FinSettled, Records, Lives
<1>3. RangesOf(p) /\ RangesOf(s) /\ RangesOf(r)
  BY RecordRanges
<1>. QED BY <1>1, <1>2, <1>3 DEF Follows, EndKept, Grows, Heard, Ended, RangesOf, Largest, NotFinal

(* The RESET_STREAM is confirmed.                                          *)
ResetSettled(r) == [r EXCEPT !.resetACK = TRUE, !.known = r.next]

LEMMA ResetSettledFollows ==
  ASSUME NEW p \in Records, NEW s \in Records, NEW r \in Records, Follows(p, s, r),
         r.life # "none"
  PROVE  /\ ResetSettled(r) \in Records /\ Follows(p, s, ResetSettled(r))
         /\ ResetSettled(r).life = r.life /\ ResetSettled(r).open = r.open
         /\ ResetSettled(r).size = r.size
<1>1. ResetSettled(r) \in Records
  BY DEF ResetSettled, Records, Lives
<1>2. /\ ResetSettled(r).life = r.life /\ ResetSettled(r).open = r.open /\ ResetSettled(r).next = r.next
      /\ ResetSettled(r).known = r.next /\ ResetSettled(r).fin = r.fin /\ ResetSettled(r).reset = r.reset
      /\ ResetSettled(r).got = r.got /\ ResetSettled(r).high = r.high /\ ResetSettled(r).read = r.read
      /\ ResetSettled(r).size = r.size /\ ResetSettled(r).finalQueued = r.finalQueued
  BY DEF ResetSettled, Records, Lives
<1>3. RangesOf(p) /\ RangesOf(s) /\ RangesOf(r)
  BY RecordRanges
<1>. QED BY <1>1, <1>2, <1>3 DEF Follows, EndKept, Grows, Heard, Ended, RangesOf, Largest, NotFinal

(* The controls that a termination asks for.                               *)
LEMMA ControlsFollow ==
  ASSUME NEW p \in Records, NEW s \in Records, NEW r \in Records, Follows(p, s, r),
         r.life # "none"
  PROVE  /\ Controls(r) \in Records /\ Follows(p, s, Controls(r))
         /\ Controls(r).life = r.life /\ Controls(r).open = r.open
         /\ Controls(r).size = r.size
<1>1. PICK a \in BOOLEAN, b \in BOOLEAN :
        /\ a = (r.stopQueued \/ (r.stopped /\ r.size = NotFinal))
        /\ b = (r.finalQueued \/ (~r.stopped /\ r.size # NotFinal /\ r.read = r.size))
  OBVIOUS
<1> DEFINE q == [r EXCEPT !.stopQueued = a, !.finalQueued = b]
<1>2. Controls(r) = q
  BY <1>1, Zenon DEF Controls
<1>3. q \in Records
  BY DEF Records
<1>4. /\ q.life = r.life /\ q.open = r.open /\ q.next = r.next /\ q.known = r.known
      /\ q.fin = r.fin /\ q.reset = r.reset /\ q.got = r.got /\ q.high = r.high
      /\ q.read = r.read /\ q.size = r.size /\ q.finalQueued = b
  BY DEF Records
<1>5. b => r.size # NotFinal
  BY <1>1 DEF Follows, EndKept
<1> HIDE DEF q
<1>6. Follows(p, s, q)
  BY <1>3, <1>4, <1>5 DEF Follows, EndKept, Grows, Heard, Ended
<1>. QED BY <1>2, <1>3, <1>4, <1>6

LEMMA StopReceiveFollows ==
  ASSUME NEW p \in Records, NEW s \in Records, NEW r \in Records, Follows(p, s, r),
         r.life # "none"
  PROVE  /\ StopReceive(r) \in Records /\ Follows(p, s, StopReceive(r))
         /\ StopReceive(r).life = r.life /\ StopReceive(r).open = r.open
         /\ StopReceive(r).size = r.size
<1>1. PICK a \in Records : /\ a = Stops(r) /\ Follows(p, s, a) /\ a.life = r.life /\ a.open = r.open
                           /\ a.size = r.size
  BY StopsFollows
<1>2. PICK b \in Records : /\ b = Discard(a) /\ Follows(p, s, b) /\ b.life = r.life
                           /\ b.open = r.open /\ b.size = r.size
  BY <1>1, DiscardFollows
<1>3. StopReceive(r) = Controls(b)
  BY <1>1, <1>2 DEF StopReceive, Stops
<1>. QED BY <1>2, <1>3, ControlsFollow

LEMMA ResetFollows ==
  ASSUME NEW p \in Records, NEW s \in Records, NEW r \in Records, Follows(p, s, r)
  PROVE  /\ Reset(r) \in Records /\ Follows(p, s, Reset(r))
         /\ Reset(r).life = "closing" /\ Reset(r).open = r.open
         /\ Reset(r).size = r.size
<1>1. PICK a \in Records : /\ a = Aborts(r) /\ Follows(p, s, a) /\ a.life = "closing"
                           /\ a.open = r.open /\ a.size = r.size
  BY AbortsFollows
<1>2. Aborts(r) = ResetSend([r EXCEPT !.life = "closing"])
  BY DEF Aborts, ResetSend, Records
<1>3. Reset(r) = StopReceive(a)
  BY <1>1, <1>2 DEF Reset
<1>. QED BY <1>1, <1>3, StopReceiveFollows

-----------------------------------------------------------------------------
(* A step of an end.                                                       *)

LEMMA Others ==
  /\ Other("client") = "server" /\ Other("server") = "client"
  /\ \A e \in Ends : Other(e) \in Ends /\ Other(e) # e /\ Other(Other(e)) = e
BY DEF Other, Ends

LEMMA StandsStill ==
  ASSUME NEW p \in Records, NEW s \in Records, EndKept(p), Heard(s, p)
  PROVE  Follows(p, s, p)
BY RecordRanges DEF Follows, Grows, RangesOf

(* What was heard of an end stays true of it.                              *)
LEMMA StaysHeard ==
  ASSUME NEW p \in Records, NEW r \in Records, NEW o \in Records, Grows(p, r), Heard(p, o),
         p.life # "none"
  PROVE  Heard(r, o)
BY RecordRanges DEF Grows, Heard, RangesOf, Ended

LEMMA StaysTruthful ==
  ASSUME NEW p \in Records, NEW r \in Records, Grows(p, r), NEW t \in Transmissions, Truthful(t, p)
  PROVE  Truthful(t, r)
<1>1. RangesOf(p) /\ RangesOf(r)
  BY RecordRanges
<1>. QED BY <1>1 DEF Grows, Truthful, RangesOf

(* What an end sends is true of it.                                        *)
LEMMA QueuedTruthful ==
  ASSUME EndsKept, NEW e \in Ends, NEW r \in Records, EndKept(r), r.life # "none",
         NEW t \in Queued(e, st[e], r)
  PROVE  t \in Transmissions /\ t.from = e /\ t.kind # "open" /\ t.at = "flying" /\ Truthful(t, r)
<1>1. RangesOf(r) /\ st[e] \in Records /\ RangesOf(st[e])
  BY RecordRanges DEF EndsKept
<1>2. PICK k \in {"data", "fin", "reset", "stop", "consumed"}, o \in 0..1 : t = Sent(e, k, o)
  BY <1>1 DEF Queued, EndKept, RangesOf, NotFinal
<1>3. /\ k = "data" => o = r.next /\ r.next > st[e].next
      /\ k = "fin" => o = r.next /\ r.fin
      /\ k = "reset" => o = r.next /\ r.reset
      /\ k = "consumed" => o = r.size /\ r.finalQueued
  BY <1>2 DEF Queued, Sent
<1>4. t \in Transmissions /\ t.from = e /\ t.kind = k /\ t.offset = o /\ t.at = "flying"
  BY <1>2 DEF Sent, Transmissions
<1>. QED BY <1>1, <1>3, <1>4 DEF Truthful, EndKept, RangesOf

(* A step that takes an end from st[e] to r keeps all but what was agreed  *)
(* on the OPEN.                                                            *)
Tells(e, r, t) == Truthful(t, IF t.from = e THEN r ELSE st[t.from])

LEMMA Steps ==
  ASSUME EndsKept, NEW e \in Ends, NEW r \in Records, Follows(st[e], st[Other(e)], r),
         Heard(r, st[Other(e)]), NEW rest \in SUBSET Transmissions,
         \A t \in rest : Tells(e, r, t), Becomes(e, r, rest)
  PROVE  /\ EndsKept'
         /\ st'[Other(e)] = st[Other(e)]
         /\ st'[e].life = r.life \/ (r.life = "closing" /\ st'[e].life = "retired")
         /\ st'[e].open = r.open /\ st'[e].size = r.size
         /\ rest \subseteq tx'
         /\ \A t \in tx' : t \in rest \/ (t.kind # "open" /\ t.at = "flying")
<1>1. PICK n \in Records :
        /\ st' = [st EXCEPT ![e] = n] /\ Follows(st[e], st[Other(e)], n)
        /\ n.open = r.open /\ n.size = r.size /\ Grows(r, n) /\ Heard(n, st[Other(e)])
        /\ n.life = r.life \/ (r.life = "closing" /\ n.life = "retired")
        /\ r.life = "none" => n.life = "none"
  <2>1. st[e] \in Records /\ st[Other(e)] \in Records
    BY Others DEF EndsKept
  <2>2. \/ st' = [st EXCEPT ![e] = r]
        \/ /\ st' = [st EXCEPT ![e] = [r EXCEPT !.life = "retired"]]
           /\ r.life = "closing" /\ r.size # NotFinal
    BY DEF Becomes, Retires
  <2>3. EndKept(r) /\ Heard(st[Other(e)], r)
    BY DEF Follows
  <2>4. Follows(r, st[Other(e)], r)
    BY <2>1, <2>3, StandsStill
  <2>5. CASE st' = [st EXCEPT ![e] = r]
    BY <2>4, <2>5 DEF Follows
  <2>6. CASE st' = [st EXCEPT ![e] = [r EXCEPT !.life = "retired"]] /\ r.life = "closing"
             /\ r.size # NotFinal
    <3>1. r.fin \/ r.reset
      BY <2>3, <2>6 DEF EndKept
    <3>2. Follows(st[e], st[Other(e)], Retired(r)) /\ Retired(r) \in Records
      BY <2>1, <2>6, <3>1, RetiredFollows
    <3>3. /\ Follows(r, st[Other(e)], Retired(r)) /\ Retired(r).life = "retired"
          /\ Retired(r).open = r.open /\ Retired(r).size = r.size
      BY <2>1, <2>4, <2>6, <3>1, RetiredFollows
    <3>4. Heard(Retired(r), st[Other(e)])
      BY <2>1, <2>6, <3>2, <3>3, StaysHeard DEF Follows
    <3>5. st' = [st EXCEPT ![e] = Retired(r)]
      BY <2>6 DEF Retired
    <3>. QED BY <2>6, <3>2, <3>3, <3>4, <3>5 DEF Follows
  <2>. QED BY <2>2, <2>5, <2>6
<1>2. /\ st[e] \in Records /\ st[Other(e)] \in Records /\ Other(e) \in Ends /\ Other(e) # e
      /\ st'[e] = n /\ st'[Other(e)] = st[Other(e)] /\ st' \in [Ends -> Records]
      /\ \A d \in Ends : d = e \/ d = Other(e)
  BY <1>1, Others DEF EndsKept, Ends
<1>3. \A d \in Ends : EndKept(st'[d])
  BY <1>1, <1>2 DEF EndsKept, Follows
<1>4. \A d \in Ends : Heard(st'[d], st'[Other(d)])
  BY <1>1, <1>2, Others DEF Follows
<1>5. ASSUME NEW t \in Queued(e, st[e], r)
      PROVE  t \in Transmissions /\ t.kind # "open" /\ t.at = "flying" /\ Truthful(t, st'[t.from])
  <2>1. EndKept(r) /\ Grows(st[e], r) /\ EndKept(st[e])
    BY DEF Follows, EndsKept
  <2>2. r.life # "none"
    <3>1. SUFFICES ASSUME r.life = "none" PROVE FALSE
      OBVIOUS
    <3>2. r = Unborn /\ st[e] = Unborn
      BY <2>1, <3>1 DEF Grows, EndKept
    <3>3. Queued(e, Unborn, Unborn) = {}
      BY DEF Queued, Unborn
    <3>. QED BY <3>2, <3>3
  <2>3. t \in Transmissions /\ t.from = e /\ t.kind # "open" /\ t.at = "flying" /\ Truthful(t, r)
    BY <2>1, <2>2, QueuedTruthful
  <2>4. Truthful(t, n)
    BY <1>1, <2>3, StaysTruthful
  <2>. QED BY <1>2, <2>3, <2>4
<1>6. ASSUME NEW t \in rest PROVE t \in Transmissions /\ Truthful(t, st'[t.from])
  <2>1. t \in Transmissions /\ t.from \in Ends
    BY DEF Transmissions
  <2>2. CASE t.from = e
    BY <1>1, <1>2, <2>1, <2>2, StaysTruthful DEF Tells
  <2>3. CASE t.from # e
    BY <1>2, <2>1, <2>3 DEF Tells
  <2>. QED BY <2>2, <2>3
<1>7. tx' = rest \cup Queued(e, st[e], r)
  BY DEF Becomes
<1>8. windows' \subseteq Ends /\ \A d \in windows' : st'[d].next = 1
  <2>1. \A d \in windows : d \in Ends /\ st[d].next = 1
    BY DEF EndsKept
  <2>2. RangesOf(n) /\ RangesOf(r) /\ RangesOf(st[e]) /\ RangesOf(st[Other(e)])
    BY <1>2, RecordRanges
  <2>3. \A d \in windows : st'[d].next = 1
    BY <1>1, <1>2, <2>1, <2>2 DEF Follows, Grows, RangesOf
  <2>4. r.read > st[e].read => st'[Other(e)].next = 1
    BY <1>2, <2>2 DEF Follows, EndKept, Heard, RangesOf
  <2>. QED BY <1>2, <2>1, <2>3, <2>4 DEF Becomes
<1>9. EndsKept'
  BY <1>2, <1>3, <1>4, <1>5, <1>6, <1>7, <1>8 DEF EndsKept
<1>. QED BY <1>1, <1>2, <1>5, <1>7, <1>9

(* A step of an end that exists, which learns nothing new of the OPEN.     *)
LEMMA Moves ==
  ASSUME EndsInv, NEW e \in Ends, NEW r \in Records, Follows(st[e], st[Other(e)], r),
         NEW rest \in SUBSET Transmissions, \A t \in rest : Tells(e, r, t), Becomes(e, r, rest),
         st[e].life # "none", r.life = "open" => st[e].life = "open",
         r.open => st[e].open \/ (IF e = "server" THEN st[e].life = "open" ELSE st["server"].open),
         \/ r.size = NotFinal \/ st[e].size # NotFinal
         \/ e = "server" \/ st["server"].life # "none"
         \/ \A t \in rest : t.kind # "open",
         \A t \in rest : t.kind = "open" => t \in tx
  PROVE  EndsInv'
<1>1. /\ st[e] \in Records /\ st[Other(e)] \in Records /\ EndsKept
      /\ Grows(st[e], r) /\ Heard(st[e], st[Other(e)])
  BY Others DEF EndsInv, EndsKept, Follows
<1>2. Heard(r, st[Other(e)])
  BY <1>1, StaysHeard
<1>3. /\ EndsKept'
      /\ st'[Other(e)] = st[Other(e)]
      /\ st'[e].life = r.life \/ (r.life = "closing" /\ st'[e].life = "retired")
      /\ st'[e].open = r.open /\ st'[e].size = r.size
      /\ \A t \in tx' : t \in rest \/ (t.kind # "open" /\ t.at = "flying")
  BY <1>1, <1>2, Steps
<1>4. r.life # "none" /\ st'[e].life # "none" /\ (st'[e].life = "open" => r.life = "open")
      /\ (st[e].open => r.open)
  BY <1>1, <1>3 DEF Grows
<1>5. \A t \in tx' : t.at = "rejected" => t.kind = "open"
  BY <1>3 DEF EndsKept, Truthful
<1>6. \A t \in tx' : t.kind = "open" => t \in tx /\ t \in rest
  BY <1>3
<1>7. CASE e = "client"
  <2>1. st'["server"] = st["server"]
    BY <1>3, <1>7, Others
  <2>. QED BY <1>3, <1>4, <1>5, <1>6, <1>7, <2>1 DEF EndsInv, Opening
<1>8. CASE e = "server"
  <2>1. st'["client"] = st["client"]
    BY <1>3, <1>8, Others
  <2>2. st["client"].life # "none"
    BY <1>8 DEF EndsInv, Opening
  <2>. QED BY <1>3, <1>4, <1>5, <1>6, <1>8, <2>1, <2>2 DEF EndsInv, Opening
<1>. QED BY <1>7, <1>8 DEF Ends

(* A step of an application.                                               *)
LEMMA Acts ==
  ASSUME EndsInv, NEW e \in Ends, NEW r \in Records, Follows(st[e], st[Other(e)], r),
         Becomes(e, r, tx), st[e].life # "none", r.life = "open" => st[e].life = "open",
         r.open => st[e].open \/ (e = "server" /\ st[e].life = "open"), r.size = st[e].size
  PROVE  EndsInv'
<1>1. tx \in SUBSET Transmissions /\ st[e] \in Records /\ Grows(st[e], r)
  BY DEF EndsInv, EndsKept, Follows
<1>2. \A t \in tx : Tells(e, r, t)
  BY <1>1, StaysTruthful DEF EndsInv, EndsKept, Tells
<1>. QED BY <1>1, <1>2, Moves

(* An end as it is when a step begins.                                     *)
LEMMA Begins ==
  ASSUME EndsInv, NEW e \in Ends
  PROVE  /\ st[e] \in Records /\ st[Other(e)] \in Records /\ EndKept(st[e])
         /\ Follows(st[e], st[Other(e)], st[e])
         /\ st[e].open => st[e].life # "none"
<1>1. /\ st[e] \in Records /\ st[Other(e)] \in Records /\ EndKept(st[e])
      /\ Heard(st[Other(e)], st[e])
  BY Others DEF EndsInv, EndsKept
<1>2. st[e].open => st[e].life # "none"
  BY <1>1 DEF EndKept, Unborn
<1>. QED BY <1>1, <1>2, StandsStill

LEMMA Applications ==
  ASSUME EndsInv, NEW e \in Ends,
         \/ Write(e) \/ CloseWrite(e) \/ Read(e) \/ CloseRead(e) \/ Close(e)
  PROVE  EndsInv'
<1>0. /\ st[e] \in Records /\ st[Other(e)] \in Records /\ EndKept(st[e])
      /\ Follows(st[e], st[Other(e)], st[e]) /\ st[e].life = "open"
  BY Begins DEF Write, CloseWrite, Read, CloseRead, Close, CanSend
<1>1. CASE Write(e)
  <2>1. Becomes(e, Writes(st[e]), tx) /\ st[e].open /\ ~st[e].fin /\ ~st[e].reset
    BY <1>1 DEF Write, CanSend, Writes
  <2>2. /\ Writes(st[e]) \in Records /\ Follows(st[e], st[Other(e)], Writes(st[e]))
        /\ Writes(st[e]).life = st[e].life /\ Writes(st[e]).open = st[e].open
        /\ Writes(st[e]).size = st[e].size
    BY <1>0, <2>1, WritesFollows
  <2>. QED BY <1>0, <2>1, <2>2, Acts
<1>2. CASE CloseWrite(e)
  <2>1. Becomes(e, Shuts(st[e]), tx) /\ st[e].open
    BY <1>2 DEF CloseWrite, CanSend, Shuts
  <2>2. /\ Shuts(st[e]) \in Records /\ Follows(st[e], st[Other(e)], Shuts(st[e]))
        /\ Shuts(st[e]).life = st[e].life /\ Shuts(st[e]).open = st[e].open
        /\ Shuts(st[e]).size = st[e].size
    BY <1>0, <2>1, ShutsFollows
  <2>. QED BY <1>0, <2>1, <2>2, Acts
<1>3. CASE Read(e)
  <2>1. PICK q \in Records :
          /\ q = Reads(st[e]) /\ Follows(st[e], st[Other(e)], q) /\ q.life = st[e].life
          /\ q.open = st[e].open /\ q.size = st[e].size
    BY <1>0, ReadsFollows
  <2>2. Becomes(e, Controls(q), tx)
    BY <1>3, <2>1 DEF Read, Reads
  <2>3. /\ Controls(q) \in Records /\ Follows(st[e], st[Other(e)], Controls(q))
        /\ Controls(q).life = q.life /\ Controls(q).open = q.open /\ Controls(q).size = q.size
    BY <1>0, <2>1, ControlsFollow
  <2>. QED BY <1>0, <2>1, <2>2, <2>3, Acts
<1>4. CASE CloseRead(e)
  <2>1. Becomes(e, StopReceive(st[e]), tx)
    BY <1>4 DEF CloseRead
  <2>2. /\ StopReceive(st[e]) \in Records /\ Follows(st[e], st[Other(e)], StopReceive(st[e]))
        /\ StopReceive(st[e]).life = st[e].life /\ StopReceive(st[e]).open = st[e].open
        /\ StopReceive(st[e]).size = st[e].size
    BY <1>0, StopReceiveFollows
  <2>. QED BY <1>0, <2>1, <2>2, Acts
<1>5. CASE Close(e) /\ Graceful(e)
  <2>1. st[e].fin
    BY <1>5 DEF Graceful
  <2>2. PICK q \in Records :
          /\ q = Closes(st[e]) /\ Follows(st[e], st[Other(e)], q) /\ q.life = "closing"
          /\ q.open = st[e].open /\ q.size = st[e].size
    BY <1>0, <2>1, ClosesFollows
  <2>3. Becomes(e, Controls(q), tx)
    BY <1>5, <2>2 DEF Close, Closes
  <2>4. /\ Controls(q) \in Records /\ Follows(st[e], st[Other(e)], Controls(q))
        /\ Controls(q).life = q.life /\ Controls(q).open = q.open /\ Controls(q).size = q.size
    BY <1>0, <2>2, ControlsFollow
  <2>. QED BY <1>0, <2>2, <2>3, <2>4, Acts
<1>6. CASE Close(e) /\ ~Graceful(e)
  <2>1. Becomes(e, Reset(st[e]), tx)
    BY <1>6 DEF Close
  <2>2. /\ Reset(st[e]) \in Records /\ Follows(st[e], st[Other(e)], Reset(st[e]))
        /\ Reset(st[e]).life = "closing" /\ Reset(st[e]).open = st[e].open
        /\ Reset(st[e]).size = st[e].size
    BY <1>0, ResetFollows
  <2>. QED BY <1>0, <2>1, <2>2, Acts
<1>. QED BY <1>1, <1>2, <1>3, <1>4, <1>5, <1>6

LEMMA Accepts == ASSUME EndsInv, Accept PROVE EndsInv'
<1>0. "server" \in Ends
  BY DEF Ends
<1>1. CASE st["server"].life = "open" /\ Becomes("server", [st["server"] EXCEPT !.open = TRUE], tx)
  <2>1. PICK b \in BOOLEAN : b = TRUE
    OBVIOUS
  <2>2. Becomes("server", Opens(st["server"], b), tx)
    BY <1>1, <2>1 DEF Opens
  <2>3. /\ st["server"] \in Records /\ st[Other("server")] \in Records
        /\ Follows(st["server"], st[Other("server")], st["server"])
    BY <1>0, Begins
  <2>4. st["server"].open => b
    BY <2>1
  <2>5. /\ Opens(st["server"], b) \in Records
        /\ Follows(st["server"], st[Other("server")], Opens(st["server"], b))
        /\ Opens(st["server"], b).life = st["server"].life
        /\ Opens(st["server"], b).size = st["server"].size
    BY <1>1, <2>3, <2>4, OpensFollows
  <2>. QED BY <1>0, <1>1, <2>2, <2>3, <2>5, Acts
<1>2. CASE st["server"].life = "open" /\ Becomes("server", Reset(st["server"]), tx)
  <2>1. /\ st["server"] \in Records /\ st[Other("server")] \in Records
        /\ Follows(st["server"], st[Other("server")], st["server"])
    BY <1>0, Begins
  <2>2. /\ Reset(st["server"]) \in Records
        /\ Follows(st["server"], st[Other("server")], Reset(st["server"]))
        /\ Reset(st["server"]).life = "closing" /\ Reset(st["server"]).open = st["server"].open
        /\ Reset(st["server"]).size = st["server"].size
    BY <2>1, ResetFollows
  <2>. QED BY <1>0, <1>2, <2>1, <2>2, Acts
<1>3. CASE UNCHANGED <<st, tx, windows>>
  BY <1>3 DEF EndsInv, EndsKept
<1>. QED BY <1>1, <1>2, <1>3 DEF Accept

-----------------------------------------------------------------------------
(* What is learnt without a Transmission.                                  *)

(* A step that sends nothing and reads nothing.                            *)
LEMMA Quiet ==
  ASSUME NEW p \in Records, NEW r \in Records, NEW e \in Ends, r.next = p.next, r.fin = p.fin,
         r.reset = p.reset, r.stopQueued = p.stopQueued, r.finalQueued = p.finalQueued
  PROVE  Queued(e, p, r) = {}
<1>1. ~(r.next > p.next)
  BY RecordRanges DEF RangesOf
<1>. QED BY <1>1 DEF Queued

LEMMA Learnt ==
  ASSUME EndsInv, NEW e \in Ends, NEW o \in 0..1, o <= st[e].next, Here(e), Learns(e, o),
         UNCHANGED <<tx, windows>>
  PROVE  EndsInv'
<1>0. /\ st[e] \in Records /\ st[Other(e)] \in Records
      /\ Follows(st[e], st[Other(e)], st[e]) /\ st[e].life # "none"
  BY Begins DEF Here
<1>1. PICK r \in Records :
        /\ r = Accounts(st[e], o) /\ Follows(st[e], st[Other(e)], r) /\ r.life = st[e].life
        /\ r.open = st[e].open /\ r.size = st[e].size
  BY <1>0, AccountsFollows
<1>2. /\ r.next = st[e].next /\ r.fin = st[e].fin /\ r.reset = st[e].reset /\ r.read = st[e].read
      /\ r.stopQueued = st[e].stopQueued /\ r.finalQueued = st[e].finalQueued
  BY <1>0, <1>1 DEF Accounts, Records
<1>3. Queued(e, st[e], r) = {}
  BY <1>0, <1>2, Quiet
<1>4. ~(r.read > st[e].read)
  BY <1>0, <1>2, RecordRanges DEF RangesOf
<1>5. st' = [st EXCEPT ![e] = IF Retires(r, {t \in tx : t.from = e})
                              THEN [r EXCEPT !.life = "retired"] ELSE r]
  BY <1>1 DEF Learns, Accounts
<1>6. Becomes(e, r, tx)
  BY <1>3, <1>4, <1>5 DEF Becomes
<1>. QED BY <1>0, <1>1, <1>6, Acts

LEMMA WindowReceived ==
  ASSUME EndsInv, NEW e \in Ends, RecvWindow(e) PROVE EndsInv'
<1>1. st[e].next = 1
  BY DEF RecvWindow, EndsInv, EndsKept
<1>. QED BY <1>1, Learnt DEF RecvWindow

LEMMA Swept ==
  ASSUME EndsInv, NEW e \in Ends, Sweep(e) PROVE EndsInv'
<1>1. /\ st[e] \in Records /\ st[Other(e)] \in Records /\ Other(e) \in Ends
      /\ EndKept(st[Other(e)]) /\ Heard(st[e], st[Other(e)])
  BY Others DEF EndsInv, EndsKept
<1>2. st[Other(e)].read \in 0..1 /\ st[Other(e)].read <= st[e].next
  BY <1>1, RecordRanges DEF RangesOf, EndKept, Heard
<1>. QED BY <1>2, Learnt DEF Sweep

LEMMA Evicted ==
  ASSUME EndsInv, NEW e \in Ends, Evict(e) PROVE EndsInv'
<1>0. /\ st[e] \in Records /\ st[Other(e)] \in Records
      /\ Follows(st[e], st[Other(e)], st[e]) /\ st[e].life = "retired"
  BY Begins DEF Evict
<1>1. PICK r \in Records :
        /\ r = Forgets(st[e]) /\ Follows(st[e], st[Other(e)], r) /\ r.life = "forgotten"
        /\ r.open = st[e].open /\ r.size = st[e].size
  BY <1>0, ForgetsFollows
<1>2. /\ r.next = st[e].next /\ r.fin = st[e].fin /\ r.reset = st[e].reset /\ r.read = st[e].read
      /\ r.stopQueued = st[e].stopQueued /\ r.finalQueued = st[e].finalQueued
  BY <1>0, <1>1 DEF Forgets, Records
<1>3. Queued(e, st[e], r) = {}
  BY <1>0, <1>2, Quiet
<1>4. ~(r.read > st[e].read)
  BY <1>0, <1>2, RecordRanges DEF RangesOf
<1>5. st' = [st EXCEPT ![e] = r] /\ UNCHANGED <<tx, windows>>
  BY <1>1 DEF Evict, Forgets
<1>6. Becomes(e, r, tx)
  BY <1>1, <1>3, <1>4, <1>5 DEF Becomes, Retires
<1>. QED BY <1>0, <1>1, <1>6, Acts

-----------------------------------------------------------------------------
(* The OPEN.                                                               *)

LEMMA Opened == ASSUME EndsInv, Open PROVE EndsInv'
<1>0. /\ "client" \in Ends /\ "server" \in Ends /\ Other("client") = "server"
      /\ st["client"] \in Records /\ st["server"] \in Records
      /\ Follows(st["client"], st["server"], st["client"])
  BY Others, Begins DEF Ends
<1>1. /\ st["client"].life = "none" /\ st["server"] = Unborn /\ st["client"] = Unborn
  BY <1>0 DEF Open, EndsInv, EndsKept, Opening, EndKept
<1>2. PICK r \in Records :
        /\ r = Born(st["client"]) /\ Follows(st["client"], st["server"], r) /\ r.life = "open"
        /\ r.open = FALSE /\ r.size = NotFinal
  BY <1>0, <1>1, BornFollows DEF Unborn
<1>3. PICK rest : rest = tx \cup {Sent("client", "open", 0)}
  OBVIOUS
<1>4. Becomes("client", r, rest)
  BY <1>2, <1>3 DEF Open, Born
<1>5. Heard(r, st["server"])
  BY <1>1, <1>2, RecordRanges DEF Heard, Unborn, RangesOf
<1>6. /\ Sent("client", "open", 0) \in Transmissions /\ Tells("client", r, Sent("client", "open", 0))
      /\ Sent("client", "open", 0).kind = "open" /\ Sent("client", "open", 0).at = "flying"
  BY <1>0, <1>2 DEF Sent, Transmissions, Tells, Truthful
<1>7. \A t \in tx : t \in Transmissions /\ t.kind # "open" /\ Tells("client", r, t)
  <2>1. TAKE t \in tx
  <2>2. t \in Transmissions /\ t.from \in Ends /\ Truthful(t, st[t.from])
    BY DEF EndsInv, EndsKept, Transmissions
  <2>3. t.from # "client"
    BY <1>1, <2>2 DEF Truthful
  <2>. QED BY <2>2, <2>3 DEF Tells, Truthful
<1>8. rest \in SUBSET Transmissions /\ \A t \in rest : Tells("client", r, t)
  BY <1>3, <1>6, <1>7
<1>9. /\ EndsKept' /\ st'["server"] = st["server"] /\ st'["client"].life = "open"
      /\ st'["client"].open = FALSE /\ st'["client"].size = NotFinal
      /\ \A t \in tx' : t \in rest \/ (t.kind # "open" /\ t.at = "flying")
  BY <1>0, <1>2, <1>4, <1>5, <1>8, Steps DEF EndsInv
<1>10. \A t \in tx' : t.kind = "open" => t = Sent("client", "open", 0)
  BY <1>3, <1>7, <1>9
<1>11. \A t \in tx' : t.at = "rejected" => t.kind = "open"
  BY <1>9 DEF EndsKept, Truthful
<1>. QED BY <1>6, <1>9, <1>10, <1>11 DEF EndsInv, Opening

(* An end answers a Transmission: the answer is as true as what it is to.  *)
LEMMA Answers ==
  ASSUME EndsInv, NEW t \in tx, NEW x \in {"confirmed", "rejected"},
         x = "rejected" => t.kind = "open"
  PROVE  /\ [t EXCEPT !.at = x] \in Transmissions
         /\ [t EXCEPT !.at = x].from = t.from /\ [t EXCEPT !.at = x].kind = t.kind
         /\ [t EXCEPT !.at = x].offset = t.offset /\ [t EXCEPT !.at = x].at = x
         /\ \A s : Truthful(t, s) => Truthful([t EXCEPT !.at = x], s)
<1>1. t \in Transmissions
  BY DEF EndsInv, EndsKept
<1>2. /\ [t EXCEPT !.at = x] \in Transmissions
      /\ [t EXCEPT !.at = x].from = t.from /\ [t EXCEPT !.at = x].kind = t.kind
      /\ [t EXCEPT !.at = x].offset = t.offset /\ [t EXCEPT !.at = x].at = x
  BY <1>1 DEF Transmissions
<1>. QED BY <1>2 DEF Truthful

(* The answer to the OPEN, when it agrees with the server.                 *)
LEMMA OpenAnswered ==
  ASSUME EndsInv, NEW t \in tx, t.kind = "open", NEW x \in {"confirmed", "rejected"},
         tx' = Answered(t, x), UNCHANGED <<st, windows>>,
         x = "confirmed" => st["server"].open,
         x = "rejected" => ~st["server"].open /\ st["server"].life # "open"
  PROVE  EndsInv'
<1>1. PICK u \in Transmissions :
        /\ u = [t EXCEPT !.at = x] /\ u.from = t.from /\ u.kind = "open" /\ u.at = x
        /\ \A s : Truthful(t, s) => Truthful(u, s)
  <2>1. /\ [t EXCEPT !.at = x] \in Transmissions
        /\ [t EXCEPT !.at = x].from = t.from /\ [t EXCEPT !.at = x].kind = t.kind
        /\ [t EXCEPT !.at = x].at = x
        /\ \A s : Truthful(t, s) => Truthful([t EXCEPT !.at = x], s)
    BY Answers
  <2>. QED BY <2>1
<1>2. tx' = (tx \ {t}) \cup {u}
  BY <1>1 DEF Answered
<1>3. EndsKept'
  BY <1>1, <1>2 DEF EndsInv, EndsKept
<1>4. \A v \in tx' : v.kind = "open" => v = u
  BY <1>2 DEF EndsInv, Opening
<1>5. \A v \in tx' : v.at = "rejected" => v.kind = "open"
  BY <1>3 DEF EndsKept, Truthful
<1>. QED BY <1>1, <1>3, <1>4, <1>5 DEF EndsInv, Opening

LEMMA OpenHandled ==
  ASSUME EndsInv, NEW t \in tx, t.at = "flying", HandleOpen(t) PROVE EndsInv'
<1>0. /\ "client" \in Ends /\ "server" \in Ends /\ Other("server") = "client"
      /\ st["client"] \in Records /\ st["server"] \in Records /\ EndKept(st["server"])
      /\ Follows(st["server"], st["client"], st["server"]) /\ t.kind = "open"
      /\ st["server"].open => st["server"].life # "none"
  BY Others, Begins DEF Ends, HandleOpen
<1>1. CASE st["server"].life = "none"
           /\ Becomes("server", [st["server"] EXCEPT !.life = "open"], tx)
  <2>1. st["server"] = Unborn /\ st["client"].size = NotFinal
    BY <1>0, <1>1 DEF EndKept, EndsInv, Opening
  <2>2. PICK r \in Records :
          /\ r = Born(st["server"]) /\ Follows(st["server"], st["client"], r) /\ r.life = "open"
          /\ r.open = FALSE /\ r.size = NotFinal
    BY <1>0, <2>1, BornFollows DEF Unborn
  <2>3. Becomes("server", r, tx)
    BY <1>1, <2>2 DEF Born
  <2>4. /\ RangesOf(r) /\ RangesOf(st["client"]) /\ RangesOf(st["server"])
        /\ Heard(st["server"], st["client"])
    BY <1>0, <2>2, Others, RecordRanges DEF EndsInv, EndsKept
  <2>5. Heard(r, st["client"])
    BY <2>1, <2>2, <2>4 DEF Heard, Follows, Grows, RangesOf
  <2>6. tx \in SUBSET Transmissions /\ \A u \in tx : Tells("server", r, u)
    BY <1>0, <2>2, StaysTruthful DEF EndsInv, EndsKept, Tells, Follows
  <2>7. /\ EndsKept' /\ st'["client"] = st["client"] /\ st'["server"].life = "open"
        /\ st'["server"].open = FALSE
        /\ \A u \in tx' : u \in tx \/ (u.kind # "open" /\ u.at = "flying")
    BY <1>0, <2>2, <2>3, <2>5, <2>6, Steps DEF EndsInv
  <2>8. st["client"].life # "none" /\ ~st["client"].open
    BY <1>0, <2>1 DEF EndsInv, EndsKept, Opening, Truthful, Unborn
  <2>9. \A u \in tx' : u.kind = "open" => u = t
    BY <1>0, <2>7 DEF EndsInv, Opening
  <2>10. \A u \in tx' : u.at = "rejected" => u.kind = "open"
    BY <2>7 DEF EndsKept, Truthful
  <2>. QED BY <2>7, <2>8, <2>9, <2>10 DEF EndsInv, Opening
<1>2. CASE st["server"].life = "none" /\ tx' = Answered(t, "rejected")
           /\ UNCHANGED <<st, windows, backend>>
  BY <1>0, <1>2, OpenAnswered
<1>3. CASE st["server"].open /\ tx' = Answered(t, "confirmed")
           /\ UNCHANGED <<st, windows, backend>>
  BY <1>0, <1>3, OpenAnswered
<1>4. CASE st["server"].life \in {"closing", "retired"} /\ ~st["server"].open
           /\ tx' = Answered(t, "rejected") /\ UNCHANGED <<st, windows, backend>>
  BY <1>0, <1>4, OpenAnswered
<1>. QED BY <1>1, <1>2, <1>3, <1>4 DEF HandleOpen

-----------------------------------------------------------------------------
(* The other frames.                                                       *)

(* The two ends of a Transmission.                                         *)
LEMMA Arrives ==
  ASSUME EndsInv, NEW t \in tx, t.kind # "open"
  PROVE  /\ t \in Transmissions /\ t.from \in Ends /\ Other(t.from) \in Ends
         /\ Other(Other(t.from)) = t.from
         /\ st[t.from] \in Records /\ st[Other(t.from)] \in Records
         /\ Truthful(t, st[t.from]) /\ EndKept(st[Other(t.from)])
         /\ Follows(st[Other(t.from)], st[t.from], st[Other(t.from)])
         /\ Heard(st[Other(t.from)], st[t.from])
         /\ (t.from = "server" => st["server"].life # "none" /\ st["client"].life # "none")
         /\ (t.from = "client" => st["client"].life # "none")
         /\ t.offset \in 0..1
<1>1. t \in Transmissions /\ t.from \in Ends /\ Truthful(t, st[t.from]) /\ t.offset \in 0..1
  BY DEF EndsInv, EndsKept, Transmissions
<1>2. Other(t.from) \in Ends /\ Other(Other(t.from)) = t.from
  BY <1>1, Others
<1>3. Heard(st[Other(t.from)], st[t.from])
  BY <1>2 DEF EndsInv, EndsKept
<1>4. t.from = "server" => st["server"].life # "none" /\ st["client"].life # "none"
  BY <1>1 DEF EndsInv, Opening, Truthful
<1>. QED BY <1>1, <1>2, <1>3, <1>4, Begins DEF Truthful

LEMMA Confirms ==
  ASSUME EndsInv, NEW t \in tx, t.kind # "open", NEW e, NEW r \in Records,
         e = Other(t.from), Grows(st[e], r)
  PROVE  /\ Confirmed(t) \in SUBSET Transmissions
         /\ \A u \in Confirmed(t) : Tells(e, r, u) /\ (u.kind = "open" => u \in tx)
<1>0. e \in Ends /\ e # t.from /\ st[e] \in Records
  BY Arrives, Others
<1>1. \A u \in tx : u \in Transmissions /\ Truthful(u, st[u.from])
  BY DEF EndsInv, EndsKept
<1>2. PICK c \in Transmissions :
        /\ c = [t EXCEPT !.at = "confirmed"] /\ c.from = t.from /\ c.kind = t.kind
        /\ Truthful(c, st[c.from])
  <2>1. PICK x \in {"confirmed", "rejected"} : x = "confirmed"
    OBVIOUS
  <2>2. x = "rejected" => t.kind = "open"
    BY <2>1
  <2>3. /\ [t EXCEPT !.at = x] \in Transmissions
        /\ [t EXCEPT !.at = x].from = t.from /\ [t EXCEPT !.at = x].kind = t.kind
        /\ \A s : Truthful(t, s) => Truthful([t EXCEPT !.at = x], s)
    BY <2>2, Answers
  <2>. QED BY <1>1, <2>1, <2>3
<1>3. Confirmed(t) = (tx \ {t}) \cup {c}
  BY <1>2 DEF Confirmed
<1>4. \A u \in tx : Tells(e, r, u)
  BY <1>0, <1>1, StaysTruthful DEF Tells
<1>5. Tells(e, r, c)
  BY <1>0, <1>2 DEF Tells
<1>. QED BY <1>1, <1>2, <1>3, <1>4, <1>5

(* A frame is handled by an end that exists.                               *)
LEMMA Handled ==
  ASSUME EndsInv, NEW t \in tx, t.kind # "open", NEW r \in Records,
         Follows(st[Other(t.from)], st[t.from], r), Becomes(Other(t.from), r, Confirmed(t)),
         st[Other(t.from)].life # "none", r.life = "open" => st[Other(t.from)].life = "open",
         r.open = st[Other(t.from)].open
  PROVE  EndsInv'
<1>1. PICK e \in Ends : e = Other(t.from)
  BY Arrives
<1>2. /\ Confirmed(t) \in SUBSET Transmissions
      /\ \A u \in Confirmed(t) : Tells(e, r, u) /\ (u.kind = "open" => u \in tx)
  BY <1>1, Confirms DEF Follows
<1>3. Other(e) = t.from /\ (e = "server" \/ st["server"].life # "none")
  BY <1>1, Arrives DEF Ends, Other
<1>4. PICK rest \in SUBSET Transmissions : rest = Confirmed(t)
  BY <1>2
<1>. QED BY <1>1, <1>2, <1>3, <1>4, Moves

(* It is ignored by an end that does not.                                  *)
LEMMA Ignored ==
  ASSUME EndsInv, NEW t \in tx, t.kind # "open",
         Becomes(Other(t.from), st[Other(t.from)], Confirmed(t))
  PROVE  EndsInv'
<1>1. /\ st[Other(t.from)] \in Records
      /\ Follows(st[Other(t.from)], st[t.from], st[Other(t.from)])
      /\ Heard(st[Other(t.from)], st[t.from])
  BY Arrives
<1>2. CASE st[Other(t.from)].life # "none"
  BY <1>1, <1>2, Handled
<1>3. CASE st[Other(t.from)].life = "none"
  <2>1. PICK e \in Ends : e = Other(t.from) /\ Other(e) = t.from
    BY Arrives
  <2>2. PICK rest \in SUBSET Transmissions :
          /\ rest = Confirmed(t)
          /\ \A u \in rest : Tells(e, st[e], u) /\ (u.kind = "open" => u \in tx)
    BY <1>1, <2>1, Confirms DEF Follows
  <2>3. /\ EndsKept' /\ st'[Other(e)] = st[Other(e)] /\ st'[e].life = "none"
        /\ st'[e].open = st[e].open /\ st'[e].size = st[e].size
        /\ \A u \in tx' : u \in rest \/ (u.kind # "open" /\ u.at = "flying")
    BY <1>1, <1>3, <2>1, <2>2, Steps DEF EndsInv
  <2>4. e = "server"
    BY <1>3, <2>1, Arrives DEF Ends, Other
  <2>5. st'["client"] = st["client"]
    BY <2>3, <2>4, Others
  <2>6. \A u \in tx' : u.at = "rejected" => u.kind = "open"
    BY <2>3 DEF EndsKept, Truthful
  <2>7. \A u \in tx' : u.kind = "open" => u \in tx
    BY <2>2, <2>3
  <2>. QED BY <1>3, <2>1, <2>3, <2>4, <2>5, <2>6, <2>7 DEF EndsInv, Opening
<1>. QED BY <1>2, <1>3

LEMMA DataHandled ==
  ASSUME EndsInv, NEW t \in tx, Passes(t), HandleData(Other(t.from), t) PROVE EndsInv'
<1> DEFINE p == st[Other(t.from)]
           s == st[t.from]
           o == t.offset
<1>0. /\ t.kind = "data" /\ p \in Records /\ s \in Records /\ Follows(p, s, p)
      /\ p.life # "none" /\ o \in 0..1 /\ o <= s.next
  <2>1. t.kind = "data"
    BY DEF HandleData
  <2>2. p.life # "none"
    BY <2>1 DEF Passes
  <2>3. o = 1 /\ s.next = 1
    BY <2>1, Arrives DEF Truthful
  <2>. QED BY <2>1, <2>2, <2>3, Arrives
<1>1. PICK c \in Records :
        /\ c = Commit(p, o) /\ Follows(p, s, c) /\ c.life = p.life /\ c.open = p.open
  BY <1>0, CommitFollows
<1>2. o <= c.high
  <2>1. c.high = Largest(p.high, o) /\ p.high \in 0..1
    BY <1>0, <1>1, RecordRanges DEF Commit, Records, RangesOf
  <2>. QED BY <1>0, <2>1 DEF Largest
<1>3. /\ Discard(c) \in Records /\ Follows(p, s, Discard(c)) /\ Discard(c).life = p.life
      /\ Discard(c).open = p.open
  BY <1>0, <1>1, DiscardFollows
<1>4. /\ Gets(c, o) \in Records /\ Follows(p, s, Gets(c, o)) /\ Gets(c, o).life = p.life
      /\ Gets(c, o).open = p.open
  BY <1>0, <1>1, <1>2, GetsFollows
<1>5. \/ Becomes(Other(t.from), p, Confirmed(t)) \/ Becomes(Other(t.from), Discard(c), Confirmed(t))
      \/ Becomes(Other(t.from), Gets(c, o), Confirmed(t))
  BY <1>1 DEF HandleData, Gets
<1>. QED BY <1>0, <1>3, <1>4, <1>5, Handled

LEMMA FinHandled ==
  ASSUME EndsInv, NEW t \in tx, HandleFin(Other(t.from), t) PROVE EndsInv'
<1> DEFINE p == st[Other(t.from)]
           s == st[t.from]
           o == t.offset
<1>0. /\ t.kind = "fin" /\ p \in Records /\ s \in Records /\ Follows(p, s, p)
      /\ o \in 0..1 /\ o = s.next /\ o <= s.next /\ Ended(s)
  <2>1. t.kind = "fin"
    BY DEF HandleFin
  <2>2. o = s.next /\ s.fin /\ o \in 0..1
    BY <2>1, Arrives DEF Truthful
  <2>3. o <= s.next
    BY <2>2
  <2>. QED BY <2>1, <2>2, <2>3, Arrives DEF Ended
<1>1. CASE ~Here(Other(t.from))
  BY <1>0, <1>1, Ignored DEF HandleFin
<1>2. CASE Here(Other(t.from))
  <2>1. p.life # "none"
    BY <1>2 DEF Here
  <2>2. PICK q \in Records :
          /\ q = Finishes(p, o) /\ Follows(p, s, q) /\ q.life = p.life /\ q.open = p.open
    BY <1>0, <2>1, FinishesFollows
  <2>3. PICK c \in Records :
          /\ c = Commit(q, o) /\ Follows(p, s, c) /\ c.life = p.life /\ c.open = p.open
    BY <1>0, <2>1, <2>2, CommitFollows
  <2>4. /\ Discard(c) \in Records /\ Follows(p, s, Discard(c)) /\ Discard(c).life = p.life
        /\ Discard(c).open = p.open
    BY <1>0, <2>1, <2>3, DiscardFollows
  <2>5. /\ Controls(c) \in Records /\ Follows(p, s, Controls(c)) /\ Controls(c).life = p.life
        /\ Controls(c).open = p.open
    BY <1>0, <2>1, <2>3, ControlsFollow
  <2>6. c = Commit([p EXCEPT !.size = o], o)
    BY <2>2, <2>3 DEF Finishes
  <2>7. \/ Becomes(Other(t.from), Discard(c), Confirmed(t))
        \/ Becomes(Other(t.from), Controls(c), Confirmed(t))
    BY <1>2, <2>6 DEF HandleFin
  <2>. QED BY <1>0, <2>1, <2>4, <2>5, <2>7, Handled
<1>. QED BY <1>1, <1>2

LEMMA ConsumedHandled ==
  ASSUME EndsInv, NEW t \in tx, HandleConsumed(Other(t.from), t) PROVE EndsInv'
<1> DEFINE p == st[Other(t.from)]
           s == st[t.from]
           o == t.offset
<1>0. /\ t.kind = "consumed" /\ p \in Records /\ s \in Records /\ Follows(p, s, p)
      /\ o \in 0..1 /\ o <= p.next
  <2>1. t.kind = "consumed"
    BY DEF HandleConsumed
  <2>2. o = s.size /\ s.size # NotFinal /\ Heard(p, s) /\ o \in 0..1
    BY <2>1, Arrives DEF Truthful
  <2>3. o <= p.next
    BY <2>2 DEF Heard
  <2>. QED BY <2>1, <2>2, <2>3, Arrives
<1>1. CASE ~Here(Other(t.from))
  BY <1>0, <1>1, Ignored DEF HandleConsumed
<1>2. CASE Here(Other(t.from))
  <2>1. p.life # "none"
    BY <1>2 DEF Here
  <2>2. /\ Accounts(p, o) \in Records /\ Follows(p, s, Accounts(p, o))
        /\ Accounts(p, o).life = p.life /\ Accounts(p, o).open = p.open
    BY <1>0, <2>1, AccountsFollows
  <2>3. Becomes(Other(t.from), Accounts(p, o), Confirmed(t))
    BY <1>2 DEF HandleConsumed, Accounts
  <2>. QED BY <1>0, <2>1, <2>2, <2>3, Handled
<1>. QED BY <1>1, <1>2

LEMMA ResetSent ==
  ASSUME NEW e \in Ends, NEW o \in 0..1
  PROVE  /\ Sent(e, "reset", o) \in Transmissions
         /\ Sent(e, "reset", o).from = e /\ Sent(e, "reset", o).kind = "reset"
         /\ Sent(e, "reset", o).offset = o /\ Sent(e, "reset", o).at = "flying"
BY DEF Sent, Transmissions

(* What ends both directions of a Stream that the server has not seen      *)
(* leaves a record that the client can go by.                              *)
LEMMA Wakes ==
  ASSUME EndsInv, st["server"].life = "none", st["client"].life # "none", NEW r \in Records,
         Follows(st["server"], st["client"], r), r.life \in {"closing", "retired"}, ~r.open,
         NEW rest \in SUBSET Transmissions, \A u \in rest : Tells("server", r, u),
         \A u \in rest : u.kind = "open" => u \in tx, Becomes("server", r, rest)
  PROVE  EndsInv'
<1>0. /\ "client" \in Ends /\ "server" \in Ends /\ Other("server") = "client"
      /\ st["client"] \in Records /\ st["server"] \in Records
      /\ Heard(st["server"], st["client"]) /\ EndKept(st["server"])
  BY Others DEF Ends, EndsInv, EndsKept
<1>1. st["server"] = Unborn
  BY <1>0 DEF EndKept
<1>2. EndKept(r) /\ r.next = 0 /\ Ended(r)
  BY DEF Follows, EndKept, Ended
<1>3. Heard(r, st["client"])
  BY <1>0, <1>1, <1>2 DEF Heard, Unborn
<1>4. /\ EndsKept' /\ st'["client"] = st["client"]
      /\ st'["server"].life \in {"closing", "retired"} /\ ~st'["server"].open
      /\ \A u \in tx' : u \in rest \/ (u.kind # "open" /\ u.at = "flying")
  BY <1>0, <1>3, Steps DEF EndsInv
<1>5. \A u \in tx' : u.at = "rejected" => u.kind = "open"
  BY <1>4 DEF EndsKept, Truthful
<1>6. \A u \in tx' : u.kind = "open" => u \in tx
  BY <1>4
<1>7. ~st["client"].open /\ ~st["server"].open
  BY <1>1 DEF EndsInv, Opening, Unborn
<1>. QED BY <1>4, <1>5, <1>6, <1>7 DEF EndsInv, Opening

LEMMA ResetHandled ==
  ASSUME EndsInv, NEW t \in tx, Passes(t), HandleReset(Other(t.from), t) PROVE EndsInv'
<1> DEFINE p == st[Other(t.from)]
           s == st[t.from]
           o == t.offset
<1>0. /\ t.kind = "reset" /\ p \in Records /\ s \in Records /\ Follows(p, s, p)
      /\ o \in 0..1 /\ o = s.next /\ o <= s.next /\ Ended(s)
  <2>1. t.kind = "reset"
    BY DEF HandleReset
  <2>2. o = s.next /\ (s.fin \/ s.reset) /\ o \in 0..1
    BY <2>1, Arrives DEF Truthful
  <2>3. o <= s.next
    BY <2>2
  <2>. QED BY <2>1, <2>2, <2>3, Arrives DEF Ended
<1>1. CASE p.life = "none"
  <2>1. /\ Other(t.from) = "server" /\ t.from = "client" /\ o = 0
        /\ st["client"].life # "none"
    <3>1. Other(t.from) = "server" /\ o = 0
      BY <1>0, <1>1 DEF Passes
    <3>2. t.from = "client"
      BY <1>0, <3>1, Arrives DEF Other, Ends
    <3>. QED BY <1>0, <3>1, <3>2, Arrives
  <2>2. st["server"] = Unborn
    BY <1>0, <1>1, <2>1 DEF Follows, EndKept
  <2>3. PICK a \in Records :
          /\ a = Rejected(p) /\ Follows(p, s, a) /\ a.life = "closing" /\ a.open = p.open
          /\ a.size = 0
    BY <1>0, <2>1, RejectedFollows
  <2>4. a.life # "none" /\ a.size # NotFinal /\ (a.fin \/ a.reset)
    BY <2>3 DEF Follows, EndKept, NotFinal
  <2>5. PICK r \in Records :
          /\ r = Retired(a) /\ Follows(p, s, r) /\ r.life = "retired" /\ r.open = p.open
    BY <1>0, <2>3, <2>4, RetiredFollows
  <2>6. ~r.open /\ r.next = 0 /\ (r.fin \/ r.reset)
    BY <2>1, <2>2, <2>5 DEF Follows, EndKept, Unborn
  <2>7. PICK u \in Transmissions :
          /\ u = Sent("server", "reset", 0) /\ u.from = "server" /\ u.kind = "reset"
          /\ u.at = "flying" /\ u.offset = 0
    <3>1. "server" \in Ends /\ 0 \in 0..1
      BY DEF Ends
    <3>. QED BY <3>1, ResetSent
  <2>8. PICK rest : rest = Confirmed(t) \cup {u}
    OBVIOUS
  <2>9. Becomes("server", r, rest)
    BY <1>0, <1>1, <2>1, <2>3, <2>5, <2>7, <2>8 DEF HandleReset, Retired
  <2>10. Tells("server", r, u) /\ u.kind # "open"
    BY <2>5, <2>6, <2>7 DEF Tells, Truthful
  <2>11. /\ Confirmed(t) \in SUBSET Transmissions
         /\ \A v \in Confirmed(t) : Tells("server", r, v) /\ (v.kind = "open" => v \in tx)
    BY <1>0, <2>1, <2>5, Confirms DEF Follows
  <2>12. /\ rest \in SUBSET Transmissions /\ \A v \in rest : Tells("server", r, v)
         /\ \A v \in rest : v.kind = "open" => v \in tx
    BY <2>8, <2>10, <2>11
  <2>. QED BY <1>1, <2>1, <2>5, <2>6, <2>9, <2>12, Wakes
<1>2. CASE p.life # "none" /\ ~Here(Other(t.from))
  BY <1>0, <1>2, Ignored DEF HandleReset
<1>3. CASE Here(Other(t.from))
  <2>1. p.life # "none"
    BY <1>3 DEF Here
  <2>2. PICK q \in Records :
          /\ q = CutOff(p, o) /\ Follows(p, s, q) /\ q.life = p.life /\ q.open = p.open
    BY <1>0, <2>1, CutOffFollows
  <2>3. PICK c \in Records :
          /\ c = Commit(q, o) /\ Follows(p, s, c) /\ c.life = p.life /\ c.open = p.open
    BY <1>0, <2>1, <2>2, CommitFollows
  <2>4. PICK d \in Records :
          /\ d = Discard(c) /\ Follows(p, s, d) /\ d.life = p.life /\ d.open = p.open
    BY <1>0, <2>1, <2>3, DiscardFollows
  <2>5. /\ Reset(d) \in Records /\ Follows(p, s, Reset(d)) /\ Reset(d).life = "closing"
        /\ Reset(d).open = p.open
    BY <1>0, <2>4, ResetFollows
  <2>6. d = Discard(Commit([p EXCEPT !.size = o, !.stopped = TRUE], o))
    BY <2>2, <2>3, <2>4 DEF CutOff
  <2>7. \/ Becomes(Other(t.from), d, Confirmed(t))
        \/ Becomes(Other(t.from), Reset(d), Confirmed(t))
    BY <1>3, <2>1, <2>6 DEF HandleReset
  <2>. QED BY <1>0, <2>1, <2>4, <2>5, <2>7, Handled
<1>. QED BY <1>1, <1>2, <1>3

LEMMA StopHandled ==
  ASSUME EndsInv, NEW t \in tx, HandleStop(Other(t.from), t) PROVE EndsInv'
<1> DEFINE p == st[Other(t.from)]
           s == st[t.from]
<1>0. /\ t.kind = "stop" /\ p \in Records /\ s \in Records /\ Follows(p, s, p) /\ EndKept(p)
  <2>1. t.kind = "stop"
    BY DEF HandleStop
  <2>. QED BY <2>1, Arrives
<1>1. CASE /\ p.life = "retired" /\ UNCHANGED <<st, windows>>
           /\ tx' = Confirmed(t) \cup {Sent(Other(t.from), "reset", p.next)}
  <2>1. PICK e \in Ends : e = Other(t.from)
    BY <1>0, Arrives
  <2>2. (p.fin \/ p.reset) /\ p.next \in 0..1
    BY <1>0, <1>1, RecordRanges DEF EndKept, RangesOf
  <2>3. PICK u \in Transmissions :
          /\ u = Sent(e, "reset", p.next) /\ u.kind = "reset" /\ u.at = "flying" /\ u.from = e
          /\ u.offset = p.next
    BY <2>2, ResetSent
  <2>4. Truthful(u, st[u.from])
    BY <1>1, <2>1, <2>2, <2>3 DEF Truthful
  <2>5. Grows(p, p)
    BY <1>0 DEF Follows
  <2>6. /\ Confirmed(t) \in SUBSET Transmissions
        /\ \A v \in Confirmed(t) : Tells(e, p, v) /\ (v.kind = "open" => v \in tx)
    BY <1>0, <2>1, <2>5, Confirms
  <2>7. \A v \in Confirmed(t) : Truthful(v, st[v.from])
    BY <2>1, <2>6 DEF Tells
  <2>8. EndsKept'
    BY <1>1, <2>1, <2>3, <2>4, <2>6, <2>7 DEF EndsInv, EndsKept
  <2>9. \A v \in tx' : v.kind = "open" => v \in tx
    BY <1>1, <2>1, <2>3, <2>6
  <2>10. \A v \in tx' : v.at = "rejected" => v.kind = "open"
    BY <2>8 DEF EndsKept, Truthful
  <2>. QED BY <1>1, <2>8, <2>9, <2>10 DEF EndsInv, Opening
<1>2. CASE p.life = "none" /\ Becomes(Other(t.from), Reset(p), Confirmed(t))
  <2>1. Other(t.from) = "server" /\ t.from = "client" /\ st["client"].life # "none"
    BY <1>0, <1>2, Arrives DEF Ends, Other
  <2>2. PICK r \in Records :
          /\ r = Reset(p) /\ Follows(p, s, r) /\ r.life = "closing" /\ r.open = p.open
    BY <1>0, ResetFollows
  <2>3. ~r.open
    BY <1>0, <1>2, <2>2 DEF EndKept, Unborn
  <2>4. PICK rest \in SUBSET Transmissions :
          /\ rest = Confirmed(t)
          /\ \A v \in rest : Tells("server", r, v) /\ (v.kind = "open" => v \in tx)
    BY <1>0, <2>1, <2>2, Confirms DEF Follows
  <2>. QED BY <1>2, <2>1, <2>2, <2>3, <2>4, Wakes
<1>3. CASE Here(Other(t.from)) /\ Becomes(Other(t.from), ResetSend(p), Confirmed(t))
  <2>1. p.life # "none"
    BY <1>3 DEF Here
  <2>2. /\ ResetSend(p) \in Records /\ Follows(p, s, ResetSend(p))
        /\ ResetSend(p).life = p.life /\ ResetSend(p).open = p.open
    BY <1>0, <2>1, ResetSendFollows
  <2>. QED BY <1>0, <1>3, <2>1, <2>2, Handled
<1>4. CASE Becomes(Other(t.from), p, Confirmed(t))
  BY <1>0, <1>4, Ignored
<1>. QED BY <1>1, <1>2, <1>3, <1>4 DEF HandleStop

-----------------------------------------------------------------------------
(* Confirmations.                                                          *)

LEMMA Settled ==
  ASSUME EndsInv, NEW t \in tx, Settle(t) PROVE EndsInv'
<1> DEFINE e == t.from
           p == st[e]
           s == st[Other(e)]
<1>0. /\ e \in Ends /\ p \in Records /\ s \in Records /\ Follows(p, s, p) /\ p.life # "none"
      /\ t.kind = "open" => e = "client"
  <2>1. t \in Transmissions /\ Truthful(t, p)
    BY DEF EndsInv, EndsKept
  <2>2. e \in Ends
    BY <2>1 DEF Transmissions
  <2>. QED BY <2>1, <2>2, Begins DEF Truthful
<1>1. PICK rest \in SUBSET Transmissions : rest = tx \ {t} /\ rest \subseteq tx
  BY DEF EndsInv, EndsKept
<1>2. ASSUME NEW r \in Records, Grows(p, r) PROVE \A u \in rest : Tells(e, r, u)
  BY <1>0, <1>1, <1>2, StaysTruthful DEF EndsInv, EndsKept, Tells
<1>3. ASSUME NEW r \in Records, Follows(p, s, r), Becomes(e, r, rest),
             r.life = p.life, r.open => p.open \/ (e = "client" /\ st["server"].open),
             r.size = p.size
      PROVE  EndsInv'
  <2>1. \A u \in rest : Tells(e, r, u)
    BY <1>2, <1>3 DEF Follows
  <2>2. PICK d \in Ends : d = e
    BY <1>0
  <2>. QED BY <1>0, <1>1, <1>3, <2>1, <2>2, Moves
<1>4. CASE Becomes(e, p, rest)
  BY <1>0, <1>3, <1>4
<1>5. CASE /\ t.at = "rejected" /\ p.life = "open" /\ ~p.open
           /\ Becomes(e, Rejected(p), rest)
  <2>1. t.kind = "open" /\ e = "client"
    BY <1>0, <1>5 DEF EndsInv, EndsKept, Truthful
  <2>2. Other(e) = "server" /\ ~s.open /\ s.life # "open" /\ EndKept(s) /\ s.life \in Lives
    BY <1>0, <1>5, <2>1, Others, RecordRanges DEF EndsInv, EndsKept, Opening, RangesOf
  <2>3. s.next = 0 /\ Ended(s)
    BY <2>2 DEF EndKept, Ended, Lives
  <2>4. PICK r \in Records :
          /\ r = Rejected(p) /\ Follows(p, s, r) /\ r.life = "closing" /\ r.open = p.open
    BY <1>0, <2>3, RejectedFollows
  <2>5. \A u \in rest : Tells(e, r, u)
    BY <1>2, <2>4 DEF Follows
  <2>6. \A u \in rest : u.kind # "open"
    BY <1>1, <2>1 DEF EndsInv, Opening
  <2>7. PICK d \in Ends : d = e
    BY <1>0
  <2>. QED BY <1>0, <1>1, <1>5, <2>4, <2>5, <2>6, <2>7, Moves
<1>6. CASE /\ t.kind = "open" /\ t.at = "confirmed"
           /\ Becomes(e, [p EXCEPT !.open = @ \/ p.life = "open"], rest)
  <2>1. st["server"].open /\ e = "client"
    BY <1>0, <1>6 DEF EndsInv, Opening
  <2>2. PICK o \in BOOLEAN : o = (p.open \/ p.life = "open")
    OBVIOUS
  <2>3. p.open => o
    BY <2>2
  <2>4. /\ Opens(p, o) \in Records /\ Follows(p, s, Opens(p, o)) /\ Opens(p, o).life = p.life
        /\ Opens(p, o).size = p.size
    BY <1>0, <2>3, OpensFollows
  <2>5. Becomes(e, Opens(p, o), rest)
    BY <1>6, <2>2, Zenon DEF Opens
  <2>. QED BY <1>3, <2>1, <2>4, <2>5
<1>7. CASE Becomes(e, [p EXCEPT !.finACK = TRUE], rest)
  <2>1. /\ FinSettled(p) \in Records /\ Follows(p, s, FinSettled(p)) /\ FinSettled(p).life = p.life
        /\ FinSettled(p).open = p.open /\ FinSettled(p).size = p.size
    BY <1>0, FinSettledFollows
  <2>2. Becomes(e, FinSettled(p), rest)
    BY <1>7 DEF FinSettled
  <2>. QED BY <1>3, <2>1, <2>2
<1>8. CASE Becomes(e, [p EXCEPT !.resetACK = TRUE, !.known = p.next], rest)
  <2>1. /\ ResetSettled(p) \in Records /\ Follows(p, s, ResetSettled(p))
        /\ ResetSettled(p).life = p.life /\ ResetSettled(p).open = p.open
        /\ ResetSettled(p).size = p.size
    BY <1>0, ResetSettledFollows
  <2>2. Becomes(e, ResetSettled(p), rest)
    BY <1>8 DEF ResetSettled
  <2>. QED BY <1>3, <2>1, <2>2
<1>9. t.at \in {"confirmed", "rejected"}
  BY DEF Settle, EndsInv, EndsKept, Transmissions
<1>. QED BY <1>1, <1>4, <1>5, <1>6, <1>7, <1>8, <1>9 DEF Settle

-----------------------------------------------------------------------------
(* The invariant.                                                          *)

LEMMA EndsBegin == Init => EndsInv
<1> SUFFICES ASSUME Init PROVE EndsInv
  OBVIOUS
<1>1. Unborn \in Records
  BY DEF Unborn, Records, Lives, NotFinal
<1>2. /\ Unborn.life = "none" /\ Unborn.open = FALSE /\ Unborn.next = 0 /\ Unborn.known = 0
      /\ Unborn.fin = FALSE /\ Unborn.got = 0 /\ Unborn.high = 0 /\ Unborn.read = 0
      /\ Unborn.size = NotFinal /\ Unborn.finalQueued = FALSE
  BY DEF Unborn
<1>3. EndKept(Unborn) /\ Heard(Unborn, Unborn)
  BY <1>1, <1>2 DEF EndKept, Heard
<1>4. st = [e \in Ends |-> Unborn] /\ tx = {} /\ windows = {}
  BY DEF Init
<1>5. EndsKept
  BY <1>1, <1>3, <1>4, Others DEF EndsKept
<1>6. Opening(st["client"], st["server"], tx)
  BY <1>2, <1>4 DEF Opening, Ends
<1>. QED BY <1>5, <1>6 DEF EndsInv

LEMMA EndsStep == EndsInv /\ [Next]_endVars => EndsInv'
<1> SUFFICES ASSUME EndsInv, [Next]_endVars PROVE EndsInv'
  OBVIOUS
<1>1. CASE Open
  BY <1>1, Opened
<1>2. CASE Accept
  BY <1>2, Accepts
<1>3. ASSUME NEW e \in Ends,
             \/ Write(e) \/ CloseWrite(e) \/ Read(e) \/ CloseRead(e) \/ Close(e)
             \/ RecvWindow(e) \/ Sweep(e) \/ Evict(e)
      PROVE  EndsInv'
  BY <1>3, Applications, WindowReceived, Swept, Evicted
<1>4. ASSUME NEW t \in tx, Handle(t) PROVE EndsInv'
  BY <1>4, OpenHandled, DataHandled, FinHandled, ResetHandled, StopHandled, ConsumedHandled
     DEF Handle
<1>5. ASSUME NEW t \in tx, Settle(t) PROVE EndsInv'
  BY <1>5, Settled
<1>6. CASE UNCHANGED endVars
  BY <1>6 DEF EndsInv, EndsKept, endVars
<1>. QED BY <1>1, <1>2, <1>3, <1>4, <1>5, <1>6 DEF Next

(* Every frame that the invariant speaks of passes.                        *)
LEMMA EndsPass == EndsInv => NeverRefused
<1> SUFFICES ASSUME EndsInv, NEW t \in tx PROVE Passes(t)
  BY DEF NeverRefused
<1> DEFINE r == st[Other(t.from)]
           s == st[t.from]
<1>1. CASE t.kind = "open"
  BY <1>1 DEF Passes
<1>2. CASE t.kind # "open"
  <2>1. /\ r \in Records /\ s \in Records /\ Truthful(t, s) /\ EndKept(r) /\ EndKept(s)
        /\ Heard(s, r) /\ Heard(r, s) /\ t.from \in Ends /\ Other(t.from) \in Ends
        /\ RangesOf(r) /\ RangesOf(s) /\ t.offset \in 0..1
    BY <1>2, Arrives, Begins, RecordRanges DEF Follows
  <2>2. \/ t.from = "client" /\ Other(t.from) = "server"
        \/ t.from = "server" /\ Other(t.from) = "client"
    BY <2>1 DEF Ends, Other
  <2>3. s.open => r.life # "none" /\ (Other(t.from) = "server" => r.open)
    <3>1. r.open => r.life # "none"
      BY <2>1 DEF EndKept, Unborn
    <3>2. s.life # "none"
      BY <2>1 DEF Truthful
    <3>. QED BY <2>2, <3>1, <3>2 DEF EndsInv, Opening
  <2>4. r.life = "none" => t.kind # "data" /\ t.kind # "fin"
    BY <2>1, <2>3 DEF Truthful, EndKept, RangesOf
  <2>5. r.life = "none" /\ t.kind = "reset" => Other(t.from) = "server" /\ t.offset = 0
    BY <2>1, <2>2, <2>3 DEF Truthful, EndKept, EndsInv, Opening
  <2>6. t.kind = "data" => (r.size # NotFinal => t.offset <= r.size)
    BY <2>1 DEF Truthful, Heard, RangesOf
  <2>7. t.kind = "data" => s.open
    BY <2>1 DEF Truthful, EndKept
  <2>8. t.kind \in {"fin", "reset"} =>
          /\ t.offset >= r.high /\ t.offset >= r.read /\ (r.size # NotFinal => t.offset = r.size)
    BY <2>1 DEF Truthful, Heard, EndKept, RangesOf
  <2>9. t.kind = "consumed" => t.offset = r.next /\ (Here(Other(t.from)) => r.fin \/ r.reset)
    BY <2>1 DEF Truthful, Heard, Ended, Here
  <2>10. r.life = "retired" => r.size # NotFinal
    BY <2>1 DEF EndKept
  <2>. QED BY <2>3, <2>4, <2>5, <2>6, <2>7, <2>8, <2>9, <2>10 DEF Passes
<1>. QED BY <1>1, <1>2

LEMMA EndsAreAgreed == EndsInv => EndsAgree
<1> SUFFICES ASSUME EndsInv PROVE EndsAgree
  OBVIOUS
<1>1. TypeOK
  BY DEF EndsInv, EndsKept, EndKept, TypeOK, Records, Lives
<1>2. SizesAgree
  BY Others DEF EndsInv, EndsKept, EndKept, Heard, SizesAgree
<1>. QED BY <1>1, <1>2 DEF EndsAgree

(* However the frames of both ends of a Stream cross, none of them         *)
(* contradicts what its receiver knows (termination.go,                    *)
(* handleFrame): a correct peer is not disconnected.                       *)
THEOREM FramesAreAccepted == EndSpec => []NeverRefused
<1>1. EndSpec => []EndsInv
  BY EndsBegin, EndsStep, PTL DEF EndSpec
<1>. QED BY <1>1, EndsPass, PTL

(* The records are of their types, nothing is read that did not arrive,    *)
(* and what is retired leaves both final sizes agreed with the peer.       *)
THEOREM FinalSizesAgree == EndSpec => []EndsAgree
<1>1. EndSpec => []EndsInv
  BY EndsBegin, EndsStep, PTL DEF EndSpec
<1>. QED BY <1>1, EndsAreAgreed, PTL
=============================================================================
