------------------------------ MODULE Admission ------------------------------
(***************************************************************************)
(* Who may shake hands with the Landing, and which Sessions it keeps       *)
(* (admission.go, Serve, attach and Close of tcp.go): a bucket of tokens   *)
(* and a count of running handshakes per source, a table of sources and a  *)
(* registry of Sessions with limits, and handshakes that run side by side  *)
(* between the two times they look at the registry.  What a handshake does *)
(* to its Session is Carriers.                                             *)
(***************************************************************************)
EXTENDS Integers, FiniteSets

CONSTANTS
  Conns, Sources, SessionIds,
  GlobalLimit, SourceLimit,  \* handshakeGlobalLimit, handshakeSourceLimit
  SourceMax,                 \* handshakeSourceMax
  Burst, Rate,               \* handshakeBurst, handshakeRate per tick
  Old,                       \* ticks after which an idle source is forgotten
  MaxSessions,
  MaxTicks                   \* bound: time

VARIABLES
  conn,       \* connections: where attach stands, and what it asks for
  sources,    \* Server.sources: active, tokens and ticks since "updated"; or none
  registry,   \* Server.sessions: the connection that created the Session, or none
  live,       \* Sessions (named by that connection) that are not done
  closing,    \* Close: running, cancelled, waiting or returned
  doomed,     \* Sessions Close has found and not yet closed
  ticks,
  accepted    \* history: handshakes admitted, per source

sourceVars == <<sources, accepted, ticks>>
sessionVars == <<registry, live, closing, doomed>>
admissionVars == <<conn, sourceVars, sessionVars>>

NoSource == [active |-> 0, tokens |-> -1, since |-> 0]
Fresh == [active |-> 0, tokens |-> Burst, since |-> 0]
None == {}
Stranger == [at |-> "new", source |-> None, op |-> "none", id |-> None]
Least(a, b) == IF a < b THEN a ELSE b
Handshakes == {c \in Conns : conn[c].at \notin {"new", "over"}}
Known == {s \in Sources : sources[s] # NoSource}
Registered == {i \in SessionIds : registry[i] # None}
Live(i) == registry[i] \cap live # {}

Init ==
  /\ conn = [c \in Conns |-> Stranger]
  /\ sources = [s \in Sources |-> NoSource] /\ accepted = [s \in Sources |-> 0] /\ ticks = 0
  /\ registry = [i \in SessionIds |-> None] /\ live = {} /\ closing = "running" /\ doomed = {}

-----------------------------------------------------------------------------
(* Serve and admitLocked.                                                  *)

(* Mutant: a full table forgets whoever is idle.                           *)
ForgottenEarly(b) == b.active = 0
Forgotten(b) == b.active = 0 /\ b.since > Old

Pruned ==
  IF Cardinality(Known) < SourceMax THEN sources
  ELSE [s \in Sources |-> IF Forgotten(sources[s]) THEN NoSource ELSE sources[s]]

Refilled(b) == [b EXCEPT !.tokens = Least(Burst, @ + b.since * Rate), !.since = 0]

(* What admitLocked finds for a source: the table, its bucket, no room.    *)
Table(s) == IF sources[s] = NoSource THEN Pruned ELSE sources
Offer(s) == Refilled(IF Table(s)[s] = NoSource THEN Fresh ELSE Table(s)[s])
Full(s) ==
  Table(s)[s] = NoSource /\ Cardinality({x \in Sources : Table(s)[x] # NoSource}) >= SourceMax

Rejected(c) == conn' = [conn EXCEPT ![c].at = "over"] /\ UNCHANGED accepted
Admitted(c, s) ==
  /\ conn' = [conn EXCEPT ![c] = [Stranger EXCEPT !.at = "reading", !.source = s]]
  /\ accepted' = [accepted EXCEPT ![s] = @ + 1]

(* A connection that is not admitted is closed; its bucket is updated.     *)
Accept(c, s) ==
  LET b == Offer(s)
  IN /\ conn[c].at = "new" /\ closing = "running"
     /\ IF Cardinality(Handshakes) >= GlobalLimit THEN Rejected(c) /\ UNCHANGED sources
        ELSE IF Full(s) THEN Rejected(c) /\ sources' = Table(s)
        ELSE IF b.active >= SourceLimit \/ b.tokens < 1
        THEN Rejected(c) /\ sources' = [Table(s) EXCEPT ![s] = b]
        ELSE /\ Admitted(c, s)
             /\ sources' = [Table(s) EXCEPT ![s] = [b EXCEPT !.tokens = @ - 1, !.active = @ + 1]]
     /\ UNCHANGED <<ticks, sessionVars>>

(* Time passes; a bucket need not know how long after Old.                 *)
Tick ==
  /\ ticks < MaxTicks /\ ticks' = ticks + 1
  /\ sources' = [s \in Sources |-> IF s \in Known THEN [sources[s] EXCEPT !.since = Least(Old + 1, @ + 1)]
                                   ELSE NoSource]
  /\ UNCHANGED <<conn, accepted, sessionVars>>

-----------------------------------------------------------------------------
(* attach.                                                                 *)

(* The Sessions that are done leave the registry here.                     *)
Swept == [i \in SessionIds |-> registry[i] \cap live]
Size(reg) == Cardinality({i \in SessionIds : reg[i] # None})

(* The first look, before the peer is authenticated: it only refuses.      *)
Look(c, op, i) ==
  /\ conn[c].at = "reading" /\ registry' = Swept
  /\ LET welcome == /\ closing = "running"
                    /\ op = "create" => Swept[i] = None /\ Size(Swept) < MaxSessions
                    /\ op = "join" => Swept[i] # None
     IN conn' = [conn EXCEPT ![c] = IF welcome THEN [@ EXCEPT !.at = "finishing", !.op = op, !.id = i]
                                    ELSE [@ EXCEPT !.at = "leaving"]]
  /\ UNCHANGED <<sourceVars, live, closing, doomed>>

(* The peer is silent, wrong, or closed by Close.                          *)
HandshakeFails(c) ==
  /\ conn[c].at \in {"reading", "finishing"} /\ conn' = [conn EXCEPT ![c].at = "leaving"]
  /\ UNCHANGED <<sourceVars, sessionVars>>

(* Mutant: the second look trusts the first.                               *)
RoomTrusted(i) == TRUE
Room(i) == registry[i] = None /\ Size(registry) < MaxSessions /\ closing = "running"

(* The second look, when the peer is authenticated.                        *)
Register(c) ==
  LET i == conn[c].id
  IN /\ conn[c].at = "finishing" /\ conn' = [conn EXCEPT ![c].at = "leaving"]
     /\ IF conn[c].op = "create" /\ Room(i)
        THEN registry' = [registry EXCEPT ![i] = {c}] /\ live' = live \cup {c}
        ELSE UNCHANGED <<registry, live>>
     /\ UNCHANGED <<sourceVars, closing, doomed>>

(* Mutant: the bucket is not told.                                         *)
ReleasedNot(s) == sources
Released(s) ==
  [sources EXCEPT ![s] = [active |-> @.active - 1, tokens |-> @.tokens, since |-> 0]]

(* releaseAdmissionLocked, as attach returns.                              *)
Release(c) ==
  /\ conn[c].at = "leaving" /\ conn' = [conn EXCEPT ![c].at = "over"]
  /\ sources' = IF conn[c].source \in Known THEN Released(conn[c].source) ELSE sources
  /\ UNCHANGED <<accepted, ticks, sessionVars>>

-----------------------------------------------------------------------------
(* Sessions end by themselves, and with the server.                        *)

SessionDone(c) ==
  /\ c \in live /\ live' = live \ {c}
  /\ UNCHANGED <<conn, sourceVars, registry, closing, doomed>>

(* Close: cancel, then the lock, under which it takes the Sessions down.   *)
Cancel ==
  /\ closing = "running" /\ closing' = "cancelled"
  /\ UNCHANGED <<conn, sourceVars, registry, live, doomed>>

Snapshot ==
  /\ closing = "cancelled" /\ closing' = "waiting"
  /\ doomed' = UNION {registry[i] : i \in SessionIds}
  /\ UNCHANGED <<conn, sourceVars, registry, live>>

CloseSession(c) ==
  /\ c \in doomed /\ doomed' = doomed \ {c} /\ live' = live \ {c}
  /\ UNCHANGED <<conn, sourceVars, registry, closing>>

Return ==
  /\ closing = "waiting" /\ doomed = {} /\ Handshakes = {} /\ closing' = "returned"
  /\ UNCHANGED <<conn, sourceVars, registry, live, doomed>>

Next ==
  \/ \E c \in Conns :
       \/ \E s \in Sources : Accept(c, s)
       \/ \E op \in {"create", "join"}, i \in SessionIds : Look(c, op, i)
       \/ HandshakeFails(c) \/ Register(c) \/ Release(c)
       \/ SessionDone(c) \/ CloseSession(c)
  \/ Tick \/ Cancel \/ Snapshot \/ Return

AdmissionSpec == Init /\ [][Next]_admissionVars

-----------------------------------------------------------------------------

TypeOK ==
  /\ \A c \in Conns : conn[c].at \in {"new", "reading", "finishing", "leaving", "over"}
  /\ \A s \in Known : sources[s].tokens \in 0..Burst /\ sources[s].since \in 0..(Old + 1)
  /\ live \subseteq Conns /\ doomed \subseteq Conns
  /\ closing \in {"running", "cancelled", "waiting", "returned"}

(* The running handshakes of a source are counted in its bucket, which the *)
(* full table never forgets, and their limits hold.                        *)
SlotsAgree ==
  /\ \A s \in Sources : Cardinality({c \in Handshakes : conn[c].source = s}) =
                        (IF s \in Known THEN sources[s].active ELSE 0)
  /\ Cardinality(Handshakes) <= GlobalLimit /\ Cardinality(Known) <= SourceMax
  /\ \A s \in Known : sources[s].active <= SourceLimit

(* No source is admitted more often than its burst and its rate allow, not *)
(* even by being forgotten and beginning with a full bucket.               *)
RateHolds == \A s \in Sources : accepted[s] <= Burst + Rate * ticks

(* Handshakes that run side by side never make two Sessions of one         *)
(* identity, nor more Sessions than the server may have.                   *)
OneSession ==
  /\ live \subseteq UNION {registry[i] : i \in SessionIds}
  /\ Cardinality(live) <= MaxSessions

(* When Close returns, no Session and no handshake is left.                *)
CloseIsComplete == closing = "returned" => live = {} /\ Handshakes = {}
=============================================================================
