--------------------------- MODULE ServicesProofs ----------------------------
(***************************************************************************)
(* Theorems about what a server admits and a Session carries, for any      *)
(* number of connections, sources, Streams, flows and requests.  A step    *)
(* of one part leaves the variables of the others alone, so an invariant   *)
(* of a part is one of the whole.                                          *)
(***************************************************************************)
EXTENDS MCServices, Sequences, FiniteSetTheorems, WellFoundedInduction,
        TLAPS

-----------------------------------------------------------------------------
(* The modules of the parts count as this one does.                        *)

LEMMA SameCardinality ==
  \A S : /\ Server!Cardinality(S) = Cardinality(S)
         /\ Udp!Cardinality(S) = Cardinality(S)
         /\ Product!Cardinality(S) = Cardinality(S)
         /\ Packets!Cardinality(S) = Cardinality(S)
         /\ Uot!Cardinality(S) = Cardinality(S)
         /\ Receive!Cardinality(S) = Cardinality(S)
BY DEF Cardinality, Server!Cardinality, Udp!Cardinality, Product!Cardinality, Packets!Cardinality,
       Uot!Cardinality, Receive!Cardinality

-----------------------------------------------------------------------------
(* Admission: the handshakes under way and the buckets of their sources.   *)

Places == {"new", "reading", "finishing", "leaving", "over"}
NoName == {}
Bucket == [active : Int, tokens : Int, since : Int]
ConnType ==
  [at : Places, source : Sources \cup {NoName}, op : {"none", "create", "join"},
   id : SessionIds \cup {NoName}]

ConnTypes ==
  /\ conn \in [Conns -> ConnType]
  /\ \A c \in Server!Handshakes : conn[c].source \in Sources
  /\ \A c \in Conns : conn[c].at = "finishing" => conn[c].id \in SessionIds

SourceTypes ==
  /\ sources \in [Sources -> Bucket]
  /\ \A s \in Server!Known :
       sources[s].active \in Nat /\ sources[s].tokens \in 0..Burst /\ sources[s].since \in 0..(Old + 1)
  /\ accepted \in [Sources -> Nat] /\ ticks \in Nat

RegistryTypes ==
  /\ registry \in [SessionIds -> SUBSET Conns]
  /\ sessions \subseteq Conns /\ doomed \subseteq Conns
  /\ closing \in {"running", "cancelled", "waiting", "returned"}

AdmissionTypes == ConnTypes /\ SourceTypes /\ RegistryTypes

(* The handshakes of a source, and the slots its bucket knows of.          *)
Under(s) == {c \in Server!Handshakes : conn[c].source = s}
Active(table, s) == IF table[s] = Server!NoSource THEN 0 ELSE table[s].active

SlotsKept ==
  /\ \A s \in Sources : Cardinality(Under(s)) = Active(sources, s)
  /\ Cardinality(Server!Handshakes) <= GlobalLimit
  /\ Cardinality(Server!Known) <= SourceMax
  /\ \A s \in Server!Known : sources[s].active <= SourceLimit

(* What a source was admitted and what its bucket still holds, or will     *)
(* hold when it is refilled, is within its burst and its rate; a source    *)
(* that was forgotten has used up none of the burst it begins with.        *)
RateKept ==
  \A s \in Sources :
    IF s \in Server!Known
    THEN accepted[s] + sources[s].tokens + Rate * sources[s].since <= Burst + Rate * ticks
    ELSE accepted[s] <= Rate * ticks

RegistryKept ==
  /\ \A i \in SessionIds : registry[i] = {} \/ \E c \in Conns : registry[i] = {c}
  /\ sessions \subseteq UNION {registry[i] : i \in SessionIds}
  /\ Cardinality(Server!Registered) <= MaxSessions

CloseKept ==
  /\ closing \in {"waiting", "returned"} => sessions \subseteq doomed
  /\ closing = "returned" => doomed = {} /\ Server!Handshakes = {}

AdmissionInv == AdmissionTypes /\ SlotsKept /\ RateKept /\ RegistryKept /\ CloseKept

-----------------------------------------------------------------------------

LEMMA AdmissionConstants ==
  /\ GlobalLimit \in Nat /\ SourceLimit \in Nat /\ SourceMax \in Nat /\ MaxSessions \in Nat
  /\ Burst \in Nat /\ Rate \in Nat /\ Old \in Nat /\ MaxTicks \in Nat
  /\ IsFiniteSet(Conns) /\ IsFiniteSet(Sources) /\ IsFiniteSet(SessionIds)
  /\ Burst <= Rate * (Old + 1)
BY AdmissionAssumption

(* The sets that are counted are finite.                                   *)
LEMMA AdmissionFinite ==
  /\ \A S \in SUBSET Conns : IsFiniteSet(S) /\ Cardinality(S) \in Nat
  /\ \A S \in SUBSET Sources : IsFiniteSet(S) /\ Cardinality(S) \in Nat
  /\ \A S \in SUBSET SessionIds : IsFiniteSet(S) /\ Cardinality(S) \in Nat
BY AdmissionConstants, FS_Subset, FS_CardinalityType

LEMMA AdmissionInit == Server!Init => AdmissionInv
<1> SUFFICES ASSUME Server!Init PROVE AdmissionInv
  OBVIOUS
<1> USE AdmissionConstants DEF Server!Init
<1>1. conn \in [Conns -> ConnType]
  BY DEF Server!Stranger, Server!None, ConnType, Places, NoName
<1>2. Server!Handshakes = {} /\ Server!Known = {} /\ Server!Registered = {}
  BY DEF Server!Handshakes, Server!Known, Server!Registered, Server!Stranger, Server!None
<1>3. sources \in [Sources -> Bucket]
  BY DEF Server!NoSource, Bucket
<1>4. AdmissionTypes
  <2>1. \A c \in Conns : conn[c].at # "finishing"
    BY DEF Server!Stranger
  <2>2. registry \in [SessionIds -> SUBSET Conns]
    BY DEF Server!None
  <2>. QED BY <1>1, <1>2, <1>3, <2>1, <2>2 DEF AdmissionTypes, ConnTypes, SourceTypes, RegistryTypes
<1>5. \A s \in Sources : Under(s) = {}
  BY <1>2 DEF Under
<1>6. SlotsKept
  <2>1. Cardinality({}) = 0
    BY FS_EmptySet
  <2>2. \A s \in Sources : Cardinality(Under(s)) = 0 /\ Active(sources, s) = 0
    BY <1>5, <2>1 DEF Active
  <2>. QED BY <1>2, <2>1, <2>2 DEF SlotsKept
<1>7. RateKept
  BY <1>2 DEF RateKept
<1>8. RegistryKept
  BY <1>2, FS_EmptySet DEF RegistryKept, Server!None
<1>9. CloseKept
  BY DEF CloseKept
<1>. QED BY <1>4, <1>6, <1>7, <1>8, <1>9 DEF AdmissionInv

-----------------------------------------------------------------------------
(* What a step does to the handshakes: one stays under way, ends or begins,*)
(* and the others are as they were.                                        *)

LEMMA HandshakeStays ==
  ASSUME AdmissionTypes, NEW c \in Conns, NEW k \in ConnType,
         conn' = [conn EXCEPT ![c] = k],
         (conn[c].at \in {"new", "over"}) <=> (k.at \in {"new", "over"}),
         c \in Server!Handshakes => k.source = conn[c].source
  PROVE  /\ Server!Handshakes' = Server!Handshakes
         /\ \A s \in Sources : Under(s)' = Under(s)
<1>1. conn \in [Conns -> ConnType] /\ conn'[c] = k /\ \A d \in Conns : d # c => conn'[d] = conn[d]
  BY DEF AdmissionTypes, ConnTypes
<1>2. Server!Handshakes' = Server!Handshakes
  BY <1>1 DEF Server!Handshakes
<1>. QED BY <1>1, <1>2 DEF Under, Server!Handshakes

LEMMA HandshakeEnds ==
  ASSUME AdmissionTypes, NEW c \in Server!Handshakes, NEW k \in ConnType,
         conn' = [conn EXCEPT ![c] = k], k.at = "over"
  PROVE  /\ Server!Handshakes' = Server!Handshakes \ {c}
         /\ \A s \in Sources :
              Under(s)' = IF s = conn[c].source THEN Under(s) \ {c} ELSE Under(s)
<1>1. c \in Conns /\ conn \in [Conns -> ConnType] /\ conn'[c] = k
      /\ \A d \in Conns : d # c => conn'[d] = conn[d]
  BY DEF AdmissionTypes, ConnTypes, Server!Handshakes
<1>2. Server!Handshakes' = Server!Handshakes \ {c}
  BY <1>1 DEF Server!Handshakes
<1>. QED BY <1>1, <1>2 DEF Under, Server!Handshakes

LEMMA HandshakeBegins ==
  ASSUME AdmissionTypes, NEW c \in Conns, NEW k \in ConnType,
         conn' = [conn EXCEPT ![c] = k], conn[c].at = "new", k.at = "reading"
  PROVE  /\ Server!Handshakes' = Server!Handshakes \cup {c} /\ c \notin Server!Handshakes
         /\ Under(k.source)' = Under(k.source) \cup {c} /\ c \notin Under(k.source)
         /\ \A s \in Sources : s # k.source => Under(s)' = Under(s)
<1>1. conn \in [Conns -> ConnType] /\ conn'[c] = k /\ \A d \in Conns : d # c => conn'[d] = conn[d]
  BY DEF AdmissionTypes, ConnTypes
<1>2. Server!Handshakes' = Server!Handshakes \cup {c} /\ c \notin Server!Handshakes
  BY <1>1 DEF Server!Handshakes
<1>. QED BY <1>1, <1>2 DEF Under, Server!Handshakes

LEMMA UnderSets ==
  /\ Server!Handshakes \in SUBSET Conns /\ Server!Known \in SUBSET Sources
  /\ Server!Registered \in SUBSET SessionIds
  /\ \A s : Under(s) \in SUBSET Conns
BY DEF Server!Handshakes, Server!Known, Server!Registered, Under

-----------------------------------------------------------------------------
(* What a step does to the table of sources.                               *)

(* A bucket is right: its numbers are in range, and it owes its source no  *)
(* more than the rate allows.                                              *)
BucketRight(b, used, time) ==
  IF b # Server!NoSource
  THEN /\ b.active \in Nat /\ b.active <= SourceLimit
       /\ b.tokens \in 0..Burst /\ b.since \in 0..(Old + 1)
       /\ used + b.tokens + Rate * b.since <= Burst + Rate * time
  ELSE used <= Rate * time

Filled(table) == {s \in Sources : table[s] # Server!NoSource}

TableRight(table) ==
  /\ table \in [Sources -> Bucket]
  /\ Cardinality(Filled(table)) <= SourceMax
  /\ \A s \in Sources : BucketRight(table[s], accepted[s], ticks)
  /\ \A s \in Sources : Active(table, s) = Active(sources, s)

LEMMA SourcesRight ==
  ASSUME AdmissionInv
  PROVE  TableRight(sources)
BY AdmissionConstants
   DEF AdmissionInv, AdmissionTypes, SourceTypes, SlotsKept, RateKept, TableRight, BucketRight, Filled, Server!Known

(* Forgetting a source that has been idle for so long takes nothing from   *)
(* the limit of its rate.                                                  *)
LEMMA ForgottenRight ==
  ASSUME NEW b \in Bucket, NEW used \in Nat, NEW time \in Nat,
         b # Server!NoSource, BucketRight(b, used, time), Server!Forgotten(b)
  PROVE  b.active = 0 /\ BucketRight(Server!NoSource, used, time)
<1>1. b.active = 0 /\ b.since = Old + 1 /\ b.tokens \in Nat
      /\ used + b.tokens + Rate * b.since <= Burst + Rate * time
  <2>1. b.active = 0 /\ b.since > Old /\ b.since \in 0..(Old + 1) /\ b.tokens \in 0..Burst
        /\ used + b.tokens + Rate * b.since <= Burst + Rate * time
    BY Zenon DEF BucketRight, Server!Forgotten
  <2>2. Burst \in Nat /\ Old \in Nat
    BY AdmissionConstants
  <2>3. b.since = Old + 1 /\ b.tokens \in Nat
    BY <2>1, <2>2
  <2>. QED BY <2>1, <2>3
<1>2. Burst <= Rate * (Old + 1) /\ Rate \in Nat /\ Burst \in Nat /\ Old \in Nat
  BY AdmissionConstants
<1> DEFINE full == Rate * (Old + 1)
           now == Rate * time
<1>3. full \in Nat /\ now \in Nat /\ Burst <= full /\ used + b.tokens + full <= Burst + now
  BY <1>1, <1>2
<1> HIDE DEF full, now
<1>4. used <= now
  BY <1>1, <1>2, <1>3
<1>. QED BY <1>1, <1>4 DEF now, BucketRight

LEMMA PrunedRight ==
  ASSUME AdmissionInv
  PROVE  TableRight(Server!Pruned)
<1>0. TableRight(sources) /\ AdmissionTypes
  BY SourcesRight DEF AdmissionInv
<1>1. CASE Server!Pruned = sources
  BY <1>0, <1>1
<1>2. CASE Server!Pruned # sources
  <2> DEFINE p == [s \in Sources |-> IF Server!Forgotten(sources[s]) THEN Server!NoSource ELSE sources[s]]
  <2>1. Server!Pruned = p
    BY <1>2, SameCardinality DEF Server!Pruned
  <2>2. Server!NoSource \in Bucket
    BY DEF Server!NoSource, Bucket
  <2>3. p \in [Sources -> Bucket]
    BY <1>0, <2>2 DEF TableRight
  <2>4. Filled(p) \in SUBSET Filled(sources) /\ Filled(sources) \in SUBSET Sources
    BY DEF Filled
  <2>5. Cardinality(Filled(p)) <= SourceMax
    <3>1. IsFiniteSet(Filled(sources)) /\ Cardinality(Filled(sources)) \in Nat
      BY <2>4, AdmissionFinite
    <3>2. Cardinality(Filled(p)) <= Cardinality(Filled(sources))
      BY <3>1, <2>4, FS_Subset
    <3>3. Filled(p) \in SUBSET Sources
      BY <2>4
    <3>4. Cardinality(Filled(p)) \in Nat
      BY <3>3, AdmissionFinite
    <3>. QED BY <3>1, <3>2, <3>4, <1>0, AdmissionConstants DEF TableRight
  <2>6. ASSUME NEW s \in Sources
        PROVE  BucketRight(p[s], accepted[s], ticks) /\ Active(p, s) = Active(sources, s)
    <3>1. sources[s] \in Bucket /\ accepted[s] \in Nat /\ ticks \in Nat
          /\ BucketRight(sources[s], accepted[s], ticks)
      BY <1>0 DEF TableRight, AdmissionTypes, SourceTypes
    <3>2. CASE Server!Forgotten(sources[s]) /\ sources[s] # Server!NoSource
      <4>1. p[s] = Server!NoSource
        BY <3>2
      <4> HIDE DEF p
      <4>2. sources[s].active = 0 /\ BucketRight(Server!NoSource, accepted[s], ticks)
        BY <3>1, <3>2, ForgottenRight
      <4>. QED BY <4>1, <4>2, <3>2 DEF Active
    <3>3. CASE ~(Server!Forgotten(sources[s]) /\ sources[s] # Server!NoSource)
      <4>1. p[s] = sources[s]
        BY <3>3
      <4> HIDE DEF p
      <4>. QED BY <4>1, <3>1 DEF Active
    <3>. QED BY <3>2, <3>3
  <2> HIDE DEF p
  <2>. QED BY <2>1, <2>3, <2>5, <2>6 DEF TableRight
<1>. QED BY <1>1, <1>2

(* A bucket that is refilled, or begins full, is right.                    *)
LEMMA RefilledRight ==
  ASSUME AdmissionTypes, NEW table, TableRight(table), NEW s \in Sources,
         NEW b, b = Server!Refilled(IF table[s] = Server!NoSource THEN Server!Fresh ELSE table[s])
  PROVE  /\ b \in Bucket /\ b # Server!NoSource
         /\ b.active = Active(table, s) /\ b.active \in Nat
         /\ b.active <= SourceLimit
         /\ b.tokens \in 0..Burst /\ b.since = 0
         /\ accepted[s] + b.tokens <= Burst + Rate * ticks
<1>0. /\ accepted[s] \in Nat /\ ticks \in Nat /\ Rate \in Nat /\ Burst \in Nat /\ Old \in Nat
      /\ SourceLimit \in Nat /\ Rate * ticks \in Nat /\ table[s] \in Bucket
      /\ BucketRight(table[s], accepted[s], ticks)
  BY AdmissionConstants DEF TableRight, AdmissionTypes, SourceTypes
<1>1. CASE table[s] = Server!NoSource
  <2>1. b = [active |-> 0, tokens |-> Server!Least(Burst, Burst + 0 * Rate), since |-> 0]
    BY <1>1 DEF Server!Refilled, Server!Fresh
  <2>2. b = [active |-> 0, tokens |-> Burst, since |-> 0]
    BY <1>0, <2>1 DEF Server!Least
  <2>3. accepted[s] <= Rate * ticks
    BY <1>0, <1>1 DEF BucketRight
  <2>4. b.active = 0 /\ b.tokens = Burst /\ b.since = 0 /\ b \in Bucket /\ Burst # -1
    BY <1>0, <2>2 DEF Bucket
  <2>5. b # Server!NoSource
    BY <2>4 DEF Server!NoSource
  <2>. QED BY <1>0, <1>1, <2>3, <2>4, <2>5 DEF Active
<1>2. CASE table[s] # Server!NoSource
  <2> DEFINE a == table[s].active
             t == table[s].tokens
             n == table[s].since
             u == Server!Least(Burst, t + n * Rate)
  <2>1. /\ a \in Nat /\ a <= SourceLimit /\ t \in 0..Burst /\ n \in 0..(Old + 1)
        /\ accepted[s] + t + Rate * n <= Burst + Rate * ticks
    BY <1>0, <1>2 DEF BucketRight
  <2>2. b = [active |-> a, tokens |-> u, since |-> 0]
    BY <1>0, <1>2 DEF Server!Refilled, Bucket
  <2>3. n * Rate = Rate * n /\ Rate * n \in Nat
    BY <1>0, <2>1
  <2>4. u \in 0..Burst /\ u <= t + Rate * n
    <3> DEFINE m == Rate * n
    <3>1. m \in Nat /\ u = Server!Least(Burst, t + m)
      BY <2>3
    <3> HIDE DEF m, u
    <3>2. u \in 0..Burst /\ u <= t + m
      BY <3>1, <2>1, <1>0 DEF Server!Least
    <3>. QED BY <3>2 DEF m
  <2>5. accepted[s] + u <= Burst + Rate * ticks
    <3> DEFINE m == Rate * n
               now == Rate * ticks
    <3>1. m \in Nat /\ now \in Nat /\ accepted[s] + t + m <= Burst + now /\ u <= t + m
      BY <1>0, <2>1, <2>3, <2>4
    <3> HIDE DEF m, now, u
    <3>2. accepted[s] + u <= Burst + now
      BY <3>1, <2>1, <2>4, <1>0
    <3>. QED BY <3>2 DEF now
  <2> HIDE DEF a, t, n, u
  <2>6. b.active = a /\ b.tokens = u /\ b.since = 0 /\ b \in Bucket /\ u # -1
    BY <1>0, <2>1, <2>2, <2>4 DEF Bucket
  <2>7. b # Server!NoSource
    BY <2>6 DEF Server!NoSource
  <2>8. a = Active(table, s)
    BY <1>2 DEF Active, a
  <2>. QED BY <2>1, <2>4, <2>5, <2>6, <2>7, <2>8
<1>. QED BY <1>1, <1>2

(* What the table of the next state must be for the limits to hold in it.  *)
LEMMA TableInstalled ==
  ASSUME sources' \in [Sources -> Bucket], accepted' \in [Sources -> Nat], ticks' \in Nat,
         \A s \in Sources : BucketRight(sources'[s], accepted'[s], ticks'),
         Cardinality(Filled(sources')) <= SourceMax,
         \A s \in Sources : Cardinality(Under(s)') = Active(sources', s),
         Cardinality(Server!Handshakes') <= GlobalLimit
  PROVE  SourceTypes' /\ SlotsKept' /\ RateKept'
<1>1. Server!Known' = Filled(sources')
  BY DEF Server!Known, Filled
<1>2. \A s \in Server!Known' : s \in Sources /\ sources'[s] # Server!NoSource
  BY DEF Server!Known
<1>3. SourceTypes'
  BY <1>2 DEF SourceTypes, BucketRight
<1>4. SlotsKept'
  BY <1>1, <1>2 DEF SlotsKept, BucketRight
<1>5. RateKept'
  BY DEF RateKept, BucketRight, Server!Known
<1>. QED BY <1>3, <1>4, <1>5

(* The table stays, or is another one that is right, while no handshake    *)
(* begins or ends.                                                         *)
LEMMA TableReplaced ==
  ASSUME AdmissionInv, NEW table, TableRight(table), sources' = table,
         UNCHANGED <<accepted, ticks>>,
         Server!Handshakes' = Server!Handshakes, \A s \in Sources : Under(s)' = Under(s)
  PROVE  SourceTypes' /\ SlotsKept' /\ RateKept'
<1>1. /\ sources' \in [Sources -> Bucket] /\ accepted' \in [Sources -> Nat] /\ ticks' \in Nat
      /\ \A s \in Sources : BucketRight(sources'[s], accepted'[s], ticks')
      /\ Cardinality(Filled(sources')) <= SourceMax
  BY DEF TableRight, AdmissionInv, AdmissionTypes, SourceTypes
<1>2. \A s \in Sources : Cardinality(Under(s)') = Active(sources', s)
  BY DEF TableRight, AdmissionInv, SlotsKept
<1>3. Cardinality(Server!Handshakes') <= GlobalLimit
  BY DEF AdmissionInv, SlotsKept
<1>. QED BY <1>1, <1>2, <1>3, TableInstalled

LEMMA SourcesIdle ==
  ASSUME AdmissionInv, UNCHANGED <<sources, accepted, ticks>>,
         Server!Handshakes' = Server!Handshakes, \A s \in Sources : Under(s)' = Under(s)
  PROVE  SourceTypes' /\ SlotsKept' /\ RateKept'
BY SourcesRight, TableReplaced

LEMMA RegistryIdle ==
  ASSUME AdmissionInv, UNCHANGED <<registry, doomed, closing>>, sessions' \subseteq sessions
  PROVE  RegistryTypes' /\ RegistryKept'
<1>1. RegistryTypes'
  BY DEF AdmissionInv, AdmissionTypes, RegistryTypes
<1>2. RegistryKept'
  BY DEF AdmissionInv, RegistryKept, Server!Registered
<1>. QED BY <1>1, <1>2

-----------------------------------------------------------------------------
(* Accept.                                                                 *)

(* A right bucket is put in its place in a right table that has room.      *)
LEMMA TableFilled ==
  ASSUME AdmissionTypes, NEW table, TableRight(table), NEW s \in Sources,
         ~(table[s] = Server!NoSource /\ Cardinality(Filled(table)) >= SourceMax),
         NEW b \in Bucket, b # Server!NoSource
  PROVE  LET t == [table EXCEPT ![s] = b]
         IN  /\ t \in [Sources -> Bucket] /\ t[s] = b
             /\ \A x \in Sources : x # s => t[x] = table[x]
             /\ Cardinality(Filled(t)) <= SourceMax
<1> DEFINE t == [table EXCEPT ![s] = b]
<1>1. t \in [Sources -> Bucket] /\ t[s] = b /\ \A x \in Sources : x # s => t[x] = table[x]
  BY DEF TableRight
<1> HIDE DEF t
<1>2. Filled(table) \in SUBSET Sources
  BY DEF Filled
<1>3. IsFiniteSet(Filled(table)) /\ Cardinality(Filled(table)) \in Nat
  BY <1>2, AdmissionFinite
<1>4. Filled(t) = Filled(table) \cup {s}
  BY <1>1 DEF Filled
<1>5. Cardinality(Filled(table) \cup {s})
        = IF s \in Filled(table) THEN Cardinality(Filled(table)) ELSE Cardinality(Filled(table)) + 1
  BY <1>3, FS_AddElement
<1>6. CASE s \in Filled(table)
  BY <1>1, <1>4, <1>5, <1>6 DEF TableRight, t
<1>7. CASE s \notin Filled(table)
  <2>1. table[s] = Server!NoSource
    BY <1>7 DEF Filled
  <2>2. ~(Cardinality(Filled(table)) >= SourceMax) /\ SourceMax \in Nat
    BY <2>1, AdmissionConstants
  <2>3. Cardinality(Filled(t)) <= SourceMax
    BY <1>3, <1>4, <1>5, <1>7, <2>2
  <2>. QED BY <1>1, <2>3 DEF t
<1>. QED BY <1>6, <1>7

(* A bucket that was filled just now.                                      *)
LEMMA FilledNow ==
  ASSUME NEW b, NEW used \in Nat, NEW time \in Nat, b # Server!NoSource,
         b.active \in Nat, b.active <= SourceLimit, b.tokens \in 0..Burst, b.since = 0,
         used + b.tokens <= Burst + Rate * time
  PROVE  BucketRight(b, used, time)
<1>1. 0 \in 0..(Old + 1) /\ Rate * 0 = 0 /\ b.tokens \in Nat
  BY AdmissionConstants
<1>2. Rate * b.since = 0 /\ b.since \in 0..(Old + 1)
  BY <1>1
<1>3. used + b.tokens + Rate * b.since <= Burst + Rate * time
  <2> DEFINE now == Rate * time
             lag == Rate * b.since
  <2>1. lag = 0 /\ used + b.tokens <= Burst + now
    BY <1>2
  <2> HIDE DEF now, lag
  <2>2. used + b.tokens + lag <= Burst + now
    BY <1>1, <2>1
  <2>. QED BY <2>2 DEF now, lag
<1>. QED BY <1>2, <1>3, Zenon DEF BucketRight

LEMMA SlotTaken ==
  ASSUME NEW b \in Bucket, NEW r, r = [b EXCEPT !.tokens = @ - 1, !.active = @ + 1]
  PROVE  r \in Bucket /\ r.tokens = b.tokens - 1 /\ r.active = b.active + 1 /\ r.since = b.since
<1> DEFINE left == b.tokens - 1
           now == b.active + 1
<1>1. r = [b EXCEPT !.tokens = left, !.active = now]
  OBVIOUS
<1>2. left \in Int /\ now \in Int
  BY DEF Bucket
<1> HIDE DEF left, now
<1>3. r \in Bucket /\ r.tokens = left /\ r.active = now /\ r.since = b.since
  BY <1>1, <1>2 DEF Bucket
<1>. QED BY <1>3 DEF left, now

LEMMA AcceptKeeps ==
  ASSUME AdmissionInv, NEW s \in Sources, NEW c \in Conns, Server!Accept(c, s)
  PROVE  ConnTypes' /\ SourceTypes' /\ SlotsKept' /\ RateKept' /\ CloseKept'
<1> DEFINE table == Server!Table(s)
           b == Server!Offer(s)
           out == [conn[c] EXCEPT !.at = "over"]
           in == [Server!Stranger EXCEPT !.at = "reading", !.source = s]
<1>0. /\ AdmissionTypes /\ ConnTypes /\ SourceTypes /\ SlotsKept
      /\ accepted \in [Sources -> Nat] /\ ticks \in Nat /\ conn \in [Conns -> ConnType]
      /\ conn[c].at = "new" /\ closing = "running" /\ closing' = closing /\ ticks' = ticks
  BY DEF AdmissionInv, AdmissionTypes, ConnTypes, SourceTypes, Server!Accept, Server!sessionVars
<1>1. TableRight(table)
  BY SourcesRight, PrunedRight DEF Server!Table
<1>2. /\ b \in Bucket /\ b # Server!NoSource /\ b.active = Active(table, s) /\ b.active \in Nat
      /\ b.active <= SourceLimit /\ b.tokens \in 0..Burst /\ b.since = 0
      /\ accepted[s] + b.tokens <= Burst + Rate * ticks
  <2>1. b = Server!Refilled(IF table[s] = Server!NoSource THEN Server!Fresh ELSE table[s])
    BY DEF Server!Offer
  <2> HIDE DEF b, table
  <2>. QED BY <1>0, <1>1, <2>1, RefilledRight
<1>3. CloseKept'
  BY <1>0 DEF CloseKept
<1>4. out \in ConnType /\ out.at = "over" /\ conn[c].at = "new"
  BY <1>0 DEF ConnType, Places
<1>5. in \in ConnType /\ in.at = "reading" /\ in.source = s
  BY DEF ConnType, Places, Server!Stranger, Server!None, NoName
<1>6. ASSUME Server!Rejected(c)
      PROVE  /\ ConnTypes' /\ UNCHANGED accepted
             /\ Server!Handshakes' = Server!Handshakes /\ \A x \in Sources : Under(x)' = Under(x)
  <2>1. conn' = [conn EXCEPT ![c] = out] /\ UNCHANGED accepted /\ c \notin Server!Handshakes
    BY <1>0, <1>6 DEF Server!Rejected, Server!Handshakes
  <2>2. Server!Handshakes' = Server!Handshakes /\ \A x \in Sources : Under(x)' = Under(x)
    <3> HIDE DEF out
    <3>. QED BY <1>0, <1>4, <2>1, HandshakeStays
  <2>3. ConnTypes'
    <3>1. conn'[c] = out /\ \A d \in Conns : d # c => conn'[d] = conn[d]
      BY <1>0, <2>1
    <3>2. conn' \in [Conns -> ConnType]
      BY <1>0, <1>4, <2>1
    <3>. QED BY <1>0, <1>4, <2>1, <2>2, <3>1, <3>2 DEF ConnTypes
  <2>. QED BY <2>1, <2>2, <2>3
<1>7. CASE Cardinality(Server!Handshakes) >= GlobalLimit
  <2>1. Server!Rejected(c) /\ UNCHANGED sources
    BY <1>7, SameCardinality DEF Server!Accept
  <2>. QED BY <1>0, <1>3, <1>6, <2>1, SourcesIdle
<1>8. CASE ~(Cardinality(Server!Handshakes) >= GlobalLimit) /\ Server!Full(s)
  <2>1. Server!Rejected(c) /\ sources' = table
    BY <1>8, SameCardinality DEF Server!Accept
  <2> HIDE DEF table
  <2>. QED BY <1>0, <1>1, <1>3, <1>6, <2>1, TableReplaced
<1>9. ASSUME ~Server!Full(s), NEW r \in Bucket, r # Server!NoSource
      PROVE  LET t == [table EXCEPT ![s] = r]
             IN  /\ t \in [Sources -> Bucket] /\ t[s] = r
                 /\ \A x \in Sources : x # s => t[x] = table[x]
                 /\ Cardinality(Filled(t)) <= SourceMax
  <2>1. ~(table[s] = Server!NoSource /\ Cardinality(Filled(table)) >= SourceMax)
    BY <1>9, SameCardinality DEF Server!Full, Filled
  <2> HIDE DEF table
  <2>. QED BY <1>0, <1>1, <1>9, <2>1, TableFilled
<1>10. CASE /\ ~(Cardinality(Server!Handshakes) >= GlobalLimit) /\ ~Server!Full(s)
            /\ b.active >= SourceLimit \/ b.tokens < 1
  <2> DEFINE t == [table EXCEPT ![s] = b]
  <2>1. Server!Rejected(c) /\ sources' = t
    BY <1>10, SameCardinality DEF Server!Accept
  <2>2. /\ t \in [Sources -> Bucket] /\ t[s] = b
        /\ \A x \in Sources : x # s => t[x] = table[x]
        /\ Cardinality(Filled(t)) <= SourceMax
    BY <1>2, <1>9, <1>10
  <2> HIDE DEF t, table, b
  <2>3. BucketRight(b, accepted[s], ticks)
    BY <1>0, <1>2, FilledNow
  <2>4. \A x \in Sources : BucketRight(t[x], accepted[x], ticks)
    BY <1>1, <2>2, <2>3 DEF TableRight
  <2>5. \A x \in Sources : Active(t, x) = Active(table, x)
    BY <1>2, <2>2 DEF Active
  <2>6. TableRight(t)
    BY <1>1, <2>2, <2>4, <2>5 DEF TableRight
  <2>. QED BY <1>0, <1>3, <1>6, <2>1, <2>6, TableReplaced
<1>11. CASE /\ ~(Cardinality(Server!Handshakes) >= GlobalLimit) /\ ~Server!Full(s)
            /\ ~(b.active >= SourceLimit \/ b.tokens < 1)
  <2> DEFINE r == [b EXCEPT !.tokens = @ - 1, !.active = @ + 1]
             t == [table EXCEPT ![s] = r]
  <2>1. Server!Admitted(c, s) /\ sources' = t
    BY <1>11, SameCardinality DEF Server!Accept
  <2>2. /\ b.active < SourceLimit /\ b.tokens >= 1 /\ SourceLimit \in Nat /\ Burst \in Nat
    BY <1>2, <1>11, AdmissionConstants
  <2>3. /\ r \in Bucket /\ r.tokens = b.tokens - 1 /\ r.active = b.active + 1 /\ r.since = b.since
    <3>1. r = [b EXCEPT !.tokens = @ - 1, !.active = @ + 1]
      OBVIOUS
    <3> HIDE DEF b, r
    <3>. QED BY <1>2, <3>1, SlotTaken
  <2>4. r # Server!NoSource
    <3> HIDE DEF b, r
    <3>. QED BY <1>2, <2>2, <2>3 DEF Server!NoSource
  <2>5. /\ t \in [Sources -> Bucket] /\ t[s] = r
        /\ \A x \in Sources : x # s => t[x] = table[x]
        /\ Cardinality(Filled(t)) <= SourceMax
    BY <1>9, <1>11, <2>3, <2>4
  <2>6. accepted' = [accepted EXCEPT ![s] = accepted[s] + 1] /\ conn' = [conn EXCEPT ![c] = in]
    BY <2>1 DEF Server!Admitted
  <2> HIDE DEF t, table, b, r, in
  <2>7. /\ accepted' \in [Sources -> Nat] /\ accepted'[s] = accepted[s] + 1
        /\ \A x \in Sources : x # s => accepted'[x] = accepted[x]
    BY <1>0, <2>6
  <2>8. BucketRight(r, accepted'[s], ticks')
    <3>1. r.active \in Nat /\ r.active <= SourceLimit /\ r.tokens \in 0..Burst /\ r.since = 0
          /\ accepted'[s] \in Nat
      BY <1>0, <1>2, <2>2, <2>3, <2>7, AdmissionConstants
    <3>2. accepted'[s] + r.tokens <= Burst + Rate * ticks
      <4> DEFINE now == Rate * ticks
      <4>1. now \in Nat /\ accepted[s] \in Nat /\ accepted[s] + b.tokens <= Burst + now
        BY <1>0, <1>2, AdmissionConstants
      <4> HIDE DEF now
      <4>2. accepted[s] + 1 + (b.tokens - 1) <= Burst + now
        BY <4>1, <1>2, <2>2
      <4>. QED BY <4>2, <2>3, <2>7 DEF now
    <3>. QED BY <1>0, <2>4, <3>1, <3>2, FilledNow
  <2>9. \A x \in Sources : BucketRight(sources'[x], accepted'[x], ticks')
    BY <1>0, <1>1, <2>1, <2>5, <2>7, <2>8 DEF TableRight
  <2>10. /\ Server!Handshakes' = Server!Handshakes \cup {c} /\ c \notin Server!Handshakes
         /\ Under(s)' = Under(s) \cup {c} /\ c \notin Under(s)
         /\ \A x \in Sources : x # s => Under(x)' = Under(x)
    BY <1>0, <1>5, <2>6, HandshakeBegins
  <2>11. /\ Cardinality(Server!Handshakes') = Cardinality(Server!Handshakes) + 1
         /\ Cardinality(Under(s)') = Cardinality(Under(s)) + 1
         /\ Cardinality(Server!Handshakes) \in Nat
    BY <2>10, UnderSets, AdmissionFinite, FS_AddElement
  <2>12. Cardinality(Server!Handshakes') <= GlobalLimit
    BY <1>11, <2>11, AdmissionConstants
  <2>13. \A x \in Sources : Cardinality(Under(x)') = Active(sources', x)
    <3>1. Active(sources', s) = Active(sources, s) + 1
      BY <1>1, <1>2, <2>1, <2>3, <2>4, <2>5 DEF Active, TableRight
    <3>2. \A x \in Sources : x # s => Active(sources', x) = Active(sources, x)
      BY <1>1, <2>1, <2>5 DEF Active, TableRight
    <3>. QED BY <1>0, <2>10, <2>11, <3>1, <3>2 DEF SlotsKept
  <2>14. SourceTypes' /\ SlotsKept' /\ RateKept'
    BY <1>0, <2>1, <2>5, <2>7, <2>9, <2>12, <2>13, TableInstalled
  <2>15. ConnTypes'
    <3>1. conn'[c] = in /\ \A d \in Conns : d # c => conn'[d] = conn[d]
      BY <1>0, <2>6
    <3>2. conn' \in [Conns -> ConnType]
      BY <1>0, <1>5, <2>6
    <3>. QED BY <1>0, <1>5, <2>10, <3>1, <3>2, UnderSets DEF ConnTypes
  <2>. QED BY <1>3, <2>14, <2>15
<1>. QED BY <1>7, <1>8, <1>10, <1>11

-----------------------------------------------------------------------------
(* The steps of a handshake that was admitted.                             *)

(* A handshake that goes on keeps its slot.                                *)
LEMMA GoesOn ==
  ASSUME AdmissionInv, NEW c \in Conns, NEW k \in ConnType,
         conn[c].at \in {"reading", "finishing"}, k.at \in {"reading", "finishing", "leaving"},
         k.source = conn[c].source, k.at = "finishing" => k.id \in SessionIds,
         conn' = [conn EXCEPT ![c] = k], UNCHANGED <<sources, accepted, ticks>>
  PROVE  /\ ConnTypes' /\ SourceTypes' /\ SlotsKept' /\ RateKept'
         /\ Server!Handshakes' = Server!Handshakes /\ c \in Server!Handshakes
<1>1. AdmissionTypes /\ ConnTypes /\ conn \in [Conns -> ConnType]
  BY DEF AdmissionInv, AdmissionTypes, ConnTypes
<1>2. c \in Server!Handshakes
  BY DEF Server!Handshakes
<1>3. Server!Handshakes' = Server!Handshakes /\ \A x \in Sources : Under(x)' = Under(x)
  BY <1>1, HandshakeStays
<1>4. SourceTypes' /\ SlotsKept' /\ RateKept'
  BY <1>3, SourcesIdle
<1>5. conn'[c] = k /\ (\A d \in Conns : d # c => conn'[d] = conn[d]) /\ conn' \in [Conns -> ConnType]
  BY <1>1
<1>6. ConnTypes'
  BY <1>1, <1>2, <1>3, <1>5, UnderSets DEF ConnTypes
<1>. QED BY <1>2, <1>3, <1>4, <1>6

LEMMA LookKeeps ==
  ASSUME AdmissionInv, NEW c \in Conns, NEW op \in {"create", "join"}, NEW i \in SessionIds,
         Server!Look(c, op, i)
  PROVE  AdmissionInv'
<1>0. /\ conn \in [Conns -> ConnType] /\ registry \in [SessionIds -> SUBSET Conns]
      /\ conn[c].at = "reading" /\ registry' = Server!Swept
      /\ UNCHANGED <<sources, accepted, ticks, sessions, closing, doomed>>
  BY DEF AdmissionInv, AdmissionTypes, ConnTypes, RegistryTypes, Server!Look, Server!sourceVars
<1> DEFINE in == [conn[c] EXCEPT !.at = "finishing", !.op = op, !.id = i]
           out == [conn[c] EXCEPT !.at = "leaving"]
<1>1. \/ conn' = [conn EXCEPT ![c] = in]
      \/ conn' = [conn EXCEPT ![c] = out]
  BY DEF Server!Look
<1>2. in \in ConnType /\ in.at = "finishing" /\ in.source = conn[c].source /\ in.id \in SessionIds
  BY <1>0 DEF ConnType, Places
<1>3. out \in ConnType /\ out.at = "leaving" /\ out.source = conn[c].source
  BY <1>0 DEF ConnType, Places
<1> HIDE DEF in, out
<1>4. /\ ConnTypes' /\ SourceTypes' /\ SlotsKept' /\ RateKept'
      /\ Server!Handshakes' = Server!Handshakes /\ c \in Server!Handshakes
  <2>1. CASE conn' = [conn EXCEPT ![c] = in]
    BY <1>0, <1>2, <2>1, GoesOn
  <2>2. CASE conn' = [conn EXCEPT ![c] = out]
    BY <1>0, <1>3, <2>2, GoesOn
  <2>. QED BY <1>1, <2>1, <2>2
<1>5. \A j \in SessionIds : registry'[j] = registry[j] \cap sessions
  BY <1>0 DEF Server!Swept
<1>6. RegistryTypes'
  BY <1>0, <1>5 DEF AdmissionInv, AdmissionTypes, RegistryTypes, Server!Swept
<1>7. RegistryKept'
  <2>1. \A j \in SessionIds : registry'[j] = {} \/ \E d \in Conns : registry'[j] = {d}
    BY <1>5 DEF AdmissionInv, RegistryKept
  <2>2. sessions' \subseteq UNION {registry'[j] : j \in SessionIds}
    BY <1>0, <1>5 DEF AdmissionInv, RegistryKept
  <2>3. Server!Registered' \in SUBSET Server!Registered
    BY <1>5 DEF Server!Registered, Server!None
  <2>4. Cardinality(Server!Registered') <= Cardinality(Server!Registered)
        /\ Cardinality(Server!Registered') \in Nat /\ Cardinality(Server!Registered) \in Nat
    BY <2>3, UnderSets, AdmissionFinite, FS_Subset
  <2>5. Cardinality(Server!Registered') <= MaxSessions
    BY <2>4, AdmissionConstants DEF AdmissionInv, RegistryKept
  <2>. QED BY <2>1, <2>2, <2>5 DEF RegistryKept
<1>8. CloseKept'
  BY <1>0, <1>4 DEF AdmissionInv, CloseKept
<1>. QED BY <1>4, <1>6, <1>7, <1>8 DEF AdmissionInv, AdmissionTypes

LEMMA HandshakeFailsKeeps ==
  ASSUME AdmissionInv, NEW c \in Conns, Server!HandshakeFails(c)
  PROVE  AdmissionInv'
<1> DEFINE out == [conn[c] EXCEPT !.at = "leaving"]
<1>0. /\ conn \in [Conns -> ConnType] /\ conn[c].at \in {"reading", "finishing"}
      /\ conn' = [conn EXCEPT ![c] = out]
      /\ UNCHANGED <<sources, accepted, ticks, registry, sessions, closing, doomed>>
  BY DEF AdmissionInv, AdmissionTypes, ConnTypes, Server!HandshakeFails, Server!sourceVars,
         Server!sessionVars
<1>1. out \in ConnType /\ out.at = "leaving" /\ out.source = conn[c].source
  BY <1>0 DEF ConnType, Places
<1> HIDE DEF out
<1>2. ConnTypes' /\ SourceTypes' /\ SlotsKept' /\ RateKept' /\ Server!Handshakes' = Server!Handshakes
  BY <1>0, <1>1, GoesOn
<1>3. RegistryTypes' /\ RegistryKept'
  BY <1>0, RegistryIdle
<1>4. CloseKept'
  BY <1>0, <1>2 DEF AdmissionInv, CloseKept
<1>. QED BY <1>2, <1>3, <1>4 DEF AdmissionInv, AdmissionTypes

LEMMA RegisterKeeps ==
  ASSUME AdmissionInv, NEW c \in Conns, Server!Register(c)
  PROVE  AdmissionInv'
<1> DEFINE out == [conn[c] EXCEPT !.at = "leaving"]
           i == conn[c].id
<1>0. /\ conn \in [Conns -> ConnType] /\ conn[c].at = "finishing" /\ i \in SessionIds
      /\ registry \in [SessionIds -> SUBSET Conns] /\ sessions \subseteq Conns
      /\ conn' = [conn EXCEPT ![c] = out]
      /\ UNCHANGED <<sources, accepted, ticks, closing, doomed>>
  BY DEF AdmissionInv, AdmissionTypes, ConnTypes, RegistryTypes, Server!Register, Server!sourceVars
<1>1. out \in ConnType /\ out.at = "leaving" /\ out.source = conn[c].source
  BY <1>0 DEF ConnType, Places
<1>2. \/ UNCHANGED <<registry, sessions>>
      \/ /\ Server!Room(i) /\ sessions' = sessions \cup {c}
         /\ registry' = [registry EXCEPT ![i] = {c}]
  BY DEF Server!Register
<1> HIDE DEF out, i
<1>3. ConnTypes' /\ SourceTypes' /\ SlotsKept' /\ RateKept' /\ Server!Handshakes' = Server!Handshakes
      /\ c \in Server!Handshakes
  BY <1>0, <1>1, GoesOn
<1>4. CASE UNCHANGED <<registry, sessions>>
  <2>1. RegistryTypes' /\ RegistryKept'
    BY <1>0, <1>4, RegistryIdle
  <2>2. CloseKept'
    BY <1>0, <1>3, <1>4 DEF AdmissionInv, CloseKept
  <2>. QED BY <1>3, <2>1, <2>2 DEF AdmissionInv, AdmissionTypes
<1>5. CASE /\ Server!Room(i) /\ sessions' = sessions \cup {c}
           /\ registry' = [registry EXCEPT ![i] = {c}]
  <2>1. /\ registry[i] = {} /\ Cardinality(Server!Registered) < MaxSessions /\ closing = "running"
    <3>1. registry[i] = {} /\ closing = "running" /\ Server!Size(registry) < MaxSessions
      BY <1>5 DEF Server!Room, Server!None
    <3>2. Server!Size(registry) = Cardinality(Server!Registered)
      BY SameCardinality DEF Server!Size, Server!Registered
    <3>. QED BY <3>1, <3>2
  <2>2. /\ registry' \in [SessionIds -> SUBSET Conns] /\ registry'[i] = {c}
        /\ \A j \in SessionIds : j # i => registry'[j] = registry[j]
    BY <1>0, <1>5
  <2>3. RegistryTypes'
    BY <1>0, <1>5, <2>2 DEF AdmissionInv, AdmissionTypes, RegistryTypes
  <2>4. \A j \in SessionIds : registry'[j] = {} \/ \E d \in Conns : registry'[j] = {d}
    BY <2>2 DEF AdmissionInv, RegistryKept
  <2>5. sessions' \subseteq UNION {registry'[j] : j \in SessionIds}
    <3> SUFFICES ASSUME NEW d \in sessions' PROVE \E j \in SessionIds : d \in registry'[j]
      OBVIOUS
    <3>1. CASE d = c
      BY <1>0, <2>2, <3>1
    <3>2. CASE d # c
      <4>1. PICK j \in SessionIds : d \in registry[j]
        BY <1>5, <3>2 DEF AdmissionInv, RegistryKept
      <4>. QED BY <2>1, <2>2, <4>1
    <3>. QED BY <3>1, <3>2
  <2>6. Server!Registered' = Server!Registered \cup {i}
    BY <1>0, <2>2 DEF Server!Registered, Server!None
  <2>7. Cardinality(Server!Registered') <= MaxSessions
    <3>1. IsFiniteSet(Server!Registered) /\ Cardinality(Server!Registered) \in Nat
      BY UnderSets, AdmissionFinite
    <3>2. Cardinality(Server!Registered \cup {i}) <= Cardinality(Server!Registered) + 1
          /\ Cardinality(Server!Registered \cup {i}) \in Nat
      BY <3>1, FS_AddElement
    <3>. QED BY <2>1, <2>6, <3>1, <3>2, AdmissionConstants
  <2>8. RegistryKept'
    BY <2>4, <2>5, <2>7 DEF RegistryKept
  <2>9. CloseKept'
    BY <1>0, <2>1 DEF CloseKept
  <2>. QED BY <1>3, <2>3, <2>8, <2>9 DEF AdmissionInv, AdmissionTypes
<1>. QED BY <1>2, <1>4, <1>5

(* A handshake that ends gives its slot back.                              *)
LEMMA ReleaseKeeps ==
  ASSUME AdmissionInv, NEW c \in Conns, Server!Release(c)
  PROVE  AdmissionInv'
<1> DEFINE out == [conn[c] EXCEPT !.at = "over"]
<1>a. /\ AdmissionTypes /\ ConnTypes /\ SourceTypes /\ SlotsKept /\ TableRight(sources)
      /\ conn \in [Conns -> ConnType] /\ conn[c].at = "leaving" /\ c \in Server!Handshakes
      /\ conn' = [conn EXCEPT ![c] = out]
      /\ UNCHANGED <<accepted, ticks, registry, sessions, closing, doomed>>
  BY SourcesRight
     DEF AdmissionInv, AdmissionTypes, ConnTypes, Server!Release, Server!sessionVars, Server!Handshakes
<1>b. PICK s \in Sources : s = conn[c].source
  BY <1>a DEF ConnTypes
<1> DEFINE b == [active |-> sources[s].active - 1, tokens |-> sources[s].tokens, since |-> 0]
<1>0. /\ SourceTypes /\ SlotsKept /\ TableRight(sources) /\ c \in Server!Handshakes
      /\ conn \in [Conns -> ConnType] /\ conn[c].at = "leaving"
      /\ conn' = [conn EXCEPT ![c] = out]
      /\ sources' = (IF s \in Server!Known THEN Server!Released(s) ELSE sources)
      /\ UNCHANGED <<accepted, ticks, registry, sessions, closing, doomed>>
  BY <1>a, <1>b DEF Server!Release
<1>1. out \in ConnType /\ out.at = "over"
  BY <1>0 DEF ConnType, Places
<1>2. s \in Sources /\ sources[s] \in Bucket
  BY <1>0 DEF SourceTypes
<1> HIDE DEF out
<1>3. /\ Server!Handshakes' = Server!Handshakes \ {c}
      /\ \A x \in Sources : Under(x)' = IF x = s THEN Under(x) \ {c} ELSE Under(x)
  BY <1>0, <1>1, <1>b, <1>a, HandshakeEnds
<1> HIDE DEF b
<1>4. c \in Under(s) /\ IsFiniteSet(Under(s)) /\ Cardinality(Under(s)) \in Nat
      /\ IsFiniteSet(Server!Handshakes) /\ Cardinality(Server!Handshakes) \in Nat
  BY <1>0, <1>b, UnderSets, AdmissionFinite DEF Under
<1>5. /\ Cardinality(Under(s)') = Cardinality(Under(s)) - 1
      /\ Cardinality(Server!Handshakes') = Cardinality(Server!Handshakes) - 1
  <2>1. Under(s)' = Under(s) \ {c}
    BY <1>3
  <2>2. Cardinality(Under(s) \ {c}) = Cardinality(Under(s)) - 1
    BY <1>4, FS_RemoveElement, Zenon
  <2>3. Cardinality(Server!Handshakes \ {c}) = Cardinality(Server!Handshakes) - 1
    BY <1>0, <1>4, FS_RemoveElement, Zenon
  <2>. QED BY <1>3, <2>1, <2>2, <2>3
<1>6. Cardinality(Server!Handshakes') <= GlobalLimit
  BY <1>0, <1>4, <1>5, AdmissionConstants DEF SlotsKept
<1>7. Active(sources, s) = Cardinality(Under(s)) /\ Cardinality(Under(s)) >= 1
  <2>1. Cardinality(Under(s)') \in Nat
    <3>1. Under(s)' \in SUBSET Conns
      BY <1>2, <1>3, UnderSets
    <3>. QED BY <3>1, AdmissionFinite
  <2>. QED BY <1>0, <1>2, <1>4, <1>5, <2>1 DEF SlotsKept
<1>8. sources[s] # Server!NoSource /\ sources[s].active = Cardinality(Under(s))
  BY <1>7 DEF Active
<1>9. sources' = [sources EXCEPT ![s] = b]
  BY <1>0, <1>2, <1>8 DEF b, Server!Known, Server!Released
<1>10. /\ b \in Bucket /\ b.active = sources[s].active - 1 /\ b.since = 0
       /\ b.tokens = sources[s].tokens
  BY <1>2 DEF b, Bucket
<1>11. BucketRight(sources[s], accepted[s], ticks) /\ accepted[s] \in Nat /\ ticks \in Nat
  BY <1>0, <1>2 DEF TableRight, SourceTypes
<1>12. /\ sources[s].active \in Nat /\ sources[s].active <= SourceLimit
       /\ sources[s].tokens \in 0..Burst /\ sources[s].since \in 0..(Old + 1)
       /\ accepted[s] + sources[s].tokens + Rate * sources[s].since <= Burst + Rate * ticks
  BY <1>8, <1>11, Zenon DEF BucketRight
<1>13. b.active \in Nat /\ b.active <= SourceLimit /\ b.tokens \in 0..Burst
  BY <1>4, <1>7, <1>8, <1>10, <1>12, AdmissionConstants
<1>14. accepted[s] + b.tokens <= Burst + Rate * ticks
  <2> DEFINE lag == Rate * sources[s].since
             now == Rate * ticks
  <2>1. lag \in Nat /\ now \in Nat /\ accepted[s] + sources[s].tokens + lag <= Burst + now
        /\ sources[s].tokens \in Nat /\ Burst \in Nat
    BY <1>11, <1>12, AdmissionConstants
  <2> HIDE DEF lag, now
  <2>2. accepted[s] + b.tokens <= Burst + now
    BY <1>10, <1>11, <2>1
  <2>. QED BY <2>2 DEF now
<1>15. b # Server!NoSource
  BY <1>10, <1>13, AdmissionConstants DEF Server!NoSource
<1>16. BucketRight(b, accepted[s], ticks)
  BY <1>10, <1>11, <1>13, <1>14, <1>15, FilledNow
<1>17. /\ sources' \in [Sources -> Bucket] /\ sources'[s] = b
       /\ \A x \in Sources : x # s => sources'[x] = sources[x]
  BY <1>0, <1>2, <1>9, <1>10 DEF SourceTypes
<1>18. \A x \in Sources : BucketRight(sources'[x], accepted'[x], ticks')
  BY <1>0, <1>16, <1>17 DEF TableRight
<1>19. Filled(sources') = Filled(sources)
  BY <1>8, <1>15, <1>17 DEF Filled
<1>20. \A x \in Sources : Cardinality(Under(x)') = Active(sources', x)
  <2>1. Active(sources', s) = Cardinality(Under(s)')
    BY <1>5, <1>8, <1>10, <1>15, <1>17 DEF Active
  <2>2. \A x \in Sources : x # s => Active(sources', x) = Active(sources, x)
    BY <1>17 DEF Active
  <2>. QED BY <1>0, <1>3, <2>1, <2>2 DEF SlotsKept
<1>21. SourceTypes' /\ SlotsKept' /\ RateKept'
  BY <1>0, <1>6, <1>17, <1>18, <1>19, <1>20, TableInstalled DEF TableRight, SourceTypes
<1>22. ConnTypes'
  <2>1. conn'[c] = out /\ (\A d \in Conns : d # c => conn'[d] = conn[d]) /\ conn' \in [Conns -> ConnType]
    BY <1>0, <1>1
  <2>2. \A d \in Server!Handshakes' : d \in Server!Handshakes /\ d # c /\ d \in Conns
    BY <1>3, UnderSets
  <2>3. \A d \in Server!Handshakes' : conn'[d].source \in Sources
    BY <1>a, <2>1, <2>2 DEF ConnTypes
  <2>4. \A d \in Conns : conn'[d].at = "finishing" => conn'[d].id \in SessionIds
    BY <1>1, <1>a, <2>1 DEF ConnTypes
  <2>. QED BY <2>1, <2>3, <2>4 DEF ConnTypes
<1>23. RegistryTypes' /\ RegistryKept'
  BY <1>0, RegistryIdle
<1>24. CloseKept'
  BY <1>0, <1>3 DEF AdmissionInv, CloseKept
<1>. QED BY <1>21, <1>22, <1>23, <1>24 DEF AdmissionInv, AdmissionTypes

-----------------------------------------------------------------------------
(* Time.                                                                   *)

(* A tick later a bucket may be owed what came in the tick, and no more.   *)
LEMMA OlderRight ==
  ASSUME NEW b \in Bucket, NEW used \in Nat, NEW time \in Nat, b # Server!NoSource,
         BucketRight(b, used, time),
         NEW r, r = [b EXCEPT !.since = Server!Least(Old + 1, @ + 1)]
  PROVE  r \in Bucket /\ r # Server!NoSource /\ r.active = b.active /\ BucketRight(r, used, time + 1)
<1> DEFINE n == b.since
           m == Server!Least(Old + 1, n + 1)
<1>0. Rate \in Nat /\ Old \in Nat /\ Burst \in Nat /\ SourceLimit \in Nat
  BY AdmissionConstants
<1>1. /\ b.active \in Nat /\ b.active <= SourceLimit /\ b.tokens \in 0..Burst /\ n \in 0..(Old + 1)
      /\ used + b.tokens + Rate * n <= Burst + Rate * time
  BY Zenon DEF BucketRight
<1>2. m \in 0..(Old + 1) /\ m <= n + 1
  BY <1>0, <1>1 DEF Server!Least
<1>3. r = [b EXCEPT !.since = m]
  OBVIOUS
<1> HIDE DEF m, n
<1>4. r \in Bucket /\ r.since = m /\ r.active = b.active /\ r.tokens = b.tokens
  BY <1>2, <1>3 DEF Bucket
<1>5. r # Server!NoSource
  BY <1>1, <1>4 DEF Server!NoSource
<1>6. m = 0 \/ m \in 1..(n + 1)
  BY <1>1, <1>2
<1>7. Rate * m <= Rate * n + Rate
  <2>1. PICK k \in Nat : n + 1 = m + k
    <3>1. n + 1 - m \in Nat /\ n + 1 = m + (n + 1 - m)
      BY <1>0, <1>1, <1>2
    <3>. QED BY <3>1
  <2>2. Rate * (n + 1) = Rate * m + Rate * k
    BY <1>0, <1>2, <2>1
  <2>3. Rate * (n + 1) = Rate * n + Rate
    BY <1>0, <1>1
  <2>4. Rate * k \in Nat /\ Rate * m \in Nat /\ Rate * n \in Nat
    BY <1>0, <1>1, <1>2
  <2>. QED BY <1>0, <2>2, <2>3, <2>4
<1>8. used + b.tokens + Rate * m <= Burst + Rate * (time + 1)
  <2> DEFINE x == Rate * m
             y == Rate * n
             z == Rate * time
  <2>1. x \in Nat /\ y \in Nat /\ z \in Nat /\ x <= y + Rate /\ used + b.tokens + y <= Burst + z
        /\ Rate * (time + 1) = z + Rate /\ b.tokens \in Nat
    BY <1>0, <1>1, <1>2, <1>7
  <2> HIDE DEF x, y, z
  <2>2. used + b.tokens + x <= Burst + (z + Rate)
    BY <1>0, <2>1
  <2>3. Rate * (time + 1) = z + Rate
    BY <2>1
  <2>. QED BY <2>2, <2>3 DEF x
<1>9. r.active \in Nat /\ r.active <= SourceLimit /\ r.tokens \in 0..Burst /\ r.since \in 0..(Old + 1)
  BY <1>1, <1>2, <1>4
<1>10. used + r.tokens + Rate * r.since <= Burst + Rate * (time + 1)
  BY <1>4, <1>8
<1>11. BucketRight(r, used, time + 1)
  BY <1>5, <1>9, <1>10, Zenon DEF BucketRight
<1>. QED BY <1>4, <1>5, <1>11

LEMMA TickKeeps ==
  ASSUME AdmissionInv, Server!Tick
  PROVE  AdmissionInv'
<1>0. /\ AdmissionTypes /\ ConnTypes /\ SourceTypes /\ SlotsKept /\ TableRight(sources)
      /\ accepted \in [Sources -> Nat] /\ ticks \in Nat /\ ticks' = ticks + 1
      /\ UNCHANGED <<conn, accepted, registry, sessions, closing, doomed>>
  BY SourcesRight DEF AdmissionInv, AdmissionTypes, SourceTypes, Server!Tick, Server!sessionVars
<1>1. sources' = [s \in Sources |-> IF s \in Server!Known
                                    THEN [sources[s] EXCEPT !.since = Server!Least(Old + 1, @ + 1)]
                                    ELSE Server!NoSource]
  BY DEF Server!Tick
<1>2. Server!Handshakes' = Server!Handshakes /\ \A s \in Sources : Under(s)' = Under(s)
  BY <1>0 DEF Server!Handshakes, Under
<1>3. ASSUME NEW s \in Sources
      PROVE  /\ sources'[s] \in Bucket /\ BucketRight(sources'[s], accepted'[s], ticks')
             /\ Active(sources', s) = Active(sources, s)
             /\ sources'[s] = Server!NoSource <=> sources[s] = Server!NoSource
  <2>0. sources[s] \in Bucket /\ accepted[s] \in Nat /\ BucketRight(sources[s], accepted[s], ticks)
    BY <1>0 DEF TableRight
  <2>1. CASE sources[s] = Server!NoSource
    <3>1. sources'[s] = Server!NoSource
      BY <1>1, <2>1 DEF Server!Known
    <3>2. accepted[s] <= Rate * ticks
      BY <2>0, <2>1 DEF BucketRight
    <3>3. Rate * ticks <= Rate * (ticks + 1)
      BY <1>0, AdmissionConstants
    <3>4. Rate * ticks \in Nat /\ Rate * (ticks + 1) \in Nat
      BY <1>0, AdmissionConstants
    <3>5. accepted'[s] <= Rate * ticks'
      BY <1>0, <2>0, <3>2, <3>3, <3>4
    <3>. QED BY <2>0, <2>1, <3>1, <3>5 DEF BucketRight, Active
  <2>2. CASE sources[s] # Server!NoSource
    <3>1. sources'[s] = [sources[s] EXCEPT !.since = Server!Least(Old + 1, @ + 1)]
      BY <1>1, <2>2 DEF Server!Known
    <3>2. /\ sources'[s] \in Bucket /\ sources'[s] # Server!NoSource
          /\ sources'[s].active = sources[s].active
          /\ BucketRight(sources'[s], accepted[s], ticks + 1)
      BY <1>0, <2>0, <2>2, <3>1, OlderRight
    <3>. QED BY <1>0, <2>2, <3>2 DEF Active
  <2>. QED BY <2>1, <2>2
<1>4. sources' \in [Sources -> Bucket]
  <2>1. sources' = [s \in Sources |-> sources'[s]]
    BY <1>1
  <2>. QED BY <1>3, <2>1
<1>5. Filled(sources') = Filled(sources)
  BY <1>3 DEF Filled
<1>6. Cardinality(Filled(sources')) <= SourceMax
  BY <1>0, <1>5 DEF TableRight
<1>7. \A s \in Sources : Cardinality(Under(s)') = Active(sources', s)
  BY <1>0, <1>2, <1>3 DEF SlotsKept
<1>8. Cardinality(Server!Handshakes') <= GlobalLimit
  BY <1>0, <1>2 DEF SlotsKept
<1>9. SourceTypes' /\ SlotsKept' /\ RateKept'
  <2>1. accepted' \in [Sources -> Nat] /\ ticks' \in Nat
    BY <1>0
  <2>. QED BY <1>3, <1>4, <1>6, <1>7, <1>8, <2>1, TableInstalled
<1>10. ConnTypes'
  BY <1>0, <1>2, UnderSets DEF ConnTypes
<1>11. RegistryTypes' /\ RegistryKept'
  BY <1>0, RegistryIdle
<1>12. CloseKept'
  BY <1>0, <1>2 DEF AdmissionInv, CloseKept
<1>. QED BY <1>9, <1>10, <1>11, <1>12 DEF AdmissionInv, AdmissionTypes

-----------------------------------------------------------------------------
(* The ends of Sessions and of the server.                                 *)

(* A step that leaves connections and sources alone.                       *)
LEMMA OnlySessions ==
  ASSUME AdmissionInv, UNCHANGED <<conn, sources, accepted, ticks>>
  PROVE  /\ ConnTypes' /\ SourceTypes' /\ SlotsKept' /\ RateKept'
         /\ Server!Handshakes' = Server!Handshakes
<1>1. Server!Handshakes' = Server!Handshakes /\ \A s \in Sources : Under(s)' = Under(s)
  BY DEF Server!Handshakes, Under
<1>2. ConnTypes'
  BY <1>1, UnderSets DEF AdmissionInv, AdmissionTypes, ConnTypes
<1>. QED BY <1>1, <1>2, SourcesIdle

LEMMA EndsKeep ==
  ASSUME AdmissionInv,
         \/ \E c \in Conns : Server!SessionDone(c) \/ Server!CloseSession(c)
         \/ Server!Cancel \/ Server!Snapshot \/ Server!Return
  PROVE  AdmissionInv'
<1>0. UNCHANGED <<conn, sources, accepted, ticks, registry>>
  BY DEF Server!SessionDone, Server!CloseSession, Server!Cancel, Server!Snapshot, Server!Return,
         Server!sourceVars
<1>1. ConnTypes' /\ SourceTypes' /\ SlotsKept' /\ RateKept' /\ Server!Handshakes' = Server!Handshakes
  BY <1>0, OnlySessions
<1>2. sessions' \subseteq sessions
  BY DEF Server!SessionDone, Server!CloseSession, Server!Cancel, Server!Snapshot, Server!Return
<1>3. RegistryKept'
  BY <1>0, <1>2 DEF AdmissionInv, RegistryKept, Server!Registered
<1>4. /\ registry \in [SessionIds -> SUBSET Conns] /\ doomed \subseteq Conns /\ sessions \subseteq Conns
      /\ sessions \subseteq UNION {registry[i] : i \in SessionIds}
      /\ CloseKept
  BY DEF AdmissionInv, AdmissionTypes, RegistryTypes, RegistryKept
<1>5. doomed' \subseteq Conns
  <2>1. UNION {registry[i] : i \in SessionIds} \subseteq Conns
    BY <1>4
  <2>. QED BY <1>4, <2>1 DEF Server!SessionDone, Server!CloseSession, Server!Cancel, Server!Snapshot,
       Server!Return
<1>6. closing' \in {"running", "cancelled", "waiting", "returned"}
  BY DEF AdmissionInv, AdmissionTypes, RegistryTypes, Server!SessionDone, Server!CloseSession,
         Server!Cancel, Server!Snapshot, Server!Return
<1>7. RegistryTypes'
  BY <1>0, <1>2, <1>4, <1>5, <1>6 DEF RegistryTypes
<1>8. CloseKept'
  <2>1. ASSUME NEW c \in Conns, Server!SessionDone(c) PROVE CloseKept'
    BY <1>1, <1>4, <2>1 DEF CloseKept, Server!SessionDone
  <2>2. ASSUME NEW c \in Conns, Server!CloseSession(c) PROVE CloseKept'
    BY <1>1, <1>4, <2>2 DEF CloseKept, Server!CloseSession
  <2>3. CASE Server!Cancel
    BY <1>1, <1>4, <2>3 DEF CloseKept, Server!Cancel
  <2>4. CASE Server!Snapshot
    BY <1>1, <1>4, <2>4 DEF CloseKept, Server!Snapshot
  <2>5. CASE Server!Return
    BY <1>1, <1>4, <2>5 DEF CloseKept, Server!Return
  <2>. QED BY <2>1, <2>2, <2>3, <2>4, <2>5
<1>. QED BY <1>1, <1>3, <1>7, <1>8 DEF AdmissionInv, AdmissionTypes

-----------------------------------------------------------------------------

LEMMA AdmissionStep ==
  AdmissionInv /\ [Next]_vars => AdmissionInv'
<1> SUFFICES ASSUME AdmissionInv, [Next]_vars PROVE AdmissionInv'
  OBVIOUS
<1>1. CASE Server!Next
  <2>1. ASSUME NEW c \in Conns, NEW s \in Sources, Server!Accept(c, s) PROVE AdmissionInv'
    <3>1. UNCHANGED <<registry, sessions, closing, doomed>>
      BY <2>1 DEF Server!Accept, Server!sessionVars
    <3>2. RegistryTypes' /\ RegistryKept'
      BY <3>1, RegistryIdle
    <3>. QED BY <2>1, <3>2, AcceptKeeps DEF AdmissionInv, AdmissionTypes
  <2>. QED BY <1>1, <2>1, LookKeeps, HandshakeFailsKeeps, RegisterKeeps, ReleaseKeeps, TickKeeps, EndsKeep
       DEF Server!Next
<1>2. CASE UNCHANGED admissionVars
  <2>1. UNCHANGED <<conn, sources, accepted, ticks, registry, sessions, closing, doomed>>
    BY <1>2 DEF admissionVars
  <2>2. /\ ConnTypes' /\ SourceTypes' /\ SlotsKept' /\ RateKept'
        /\ Server!Handshakes' = Server!Handshakes
    BY <2>1, OnlySessions
  <2>3. RegistryTypes' /\ RegistryKept'
    BY <2>1, RegistryIdle
  <2>4. CloseKept'
    BY <2>1, <2>2 DEF AdmissionInv, CloseKept
  <2>. QED BY <2>2, <2>3, <2>4 DEF AdmissionInv, AdmissionTypes
<1>3. Server!Next \/ UNCHANGED admissionVars
  BY DEF Next, vars, OfUdp, OfProduct, OfUot, OfPackets, OfServer, OfReceive
<1>. QED BY <1>1, <1>2, <1>3

(* There are no more Sessions than entries of the registry.                *)
LEMMA SessionsBounded ==
  ASSUME AdmissionInv
  PROVE  Cardinality(sessions) <= MaxSessions
<1> DEFINE place == [c \in sessions |-> CHOOSE i \in SessionIds : c \in registry[i]]
<1>1. ASSUME NEW c \in sessions
      PROVE  place[c] \in Server!Registered /\ registry[place[c]] = {c}
  <2>1. \E i \in SessionIds : c \in registry[i]
    BY DEF AdmissionInv, RegistryKept
  <2>2. place[c] \in SessionIds /\ c \in registry[place[c]]
    BY <2>1
  <2> HIDE DEF place
  <2>. QED BY <2>2 DEF AdmissionInv, RegistryKept, Server!Registered, Server!None
<1>2. place \in Injection(sessions, Server!Registered)
  <2>1. place \in [sessions -> Server!Registered]
    BY <1>1
  <2>2. ASSUME NEW c \in sessions, NEW d \in sessions, place[c] = place[d] PROVE c = d
    BY <1>1, <2>2
  <2>. QED BY <2>1, <2>2 DEF Injection, IsInjective
<1>3. IsFiniteSet(Server!Registered) /\ Cardinality(Server!Registered) \in Nat
      /\ Cardinality(Server!Registered) <= MaxSessions
  BY UnderSets, AdmissionFinite DEF AdmissionInv, RegistryKept
<1>4. IsFiniteSet(sessions) /\ Cardinality(sessions) <= Cardinality(Server!Registered)
  BY <1>2, <1>3, FS_Injection
<1>5. Cardinality(sessions) \in Nat
  BY <1>4, FS_CardinalityType
<1>. QED BY <1>3, <1>4, <1>5, AdmissionConstants

(* Whatever handshakes run side by side, however sources come, are         *)
(* forgotten and come back, and whenever the server is closed: the slots   *)
(* taken are those of the handshakes under way, no source is admitted more *)
(* often than its bucket allows, an identity has one Session and all of    *)
(* them are within their limit, and Close leaves nothing (admitLocked,     *)
(* attach, Close).                                                         *)
THEOREM AdmissionKept == Spec => []AdmissionAgrees
<1>1. Init => AdmissionInv
  BY AdmissionInit DEF Init
<1>2. AdmissionInv => AdmissionAgrees
  <2> SUFFICES ASSUME AdmissionInv PROVE AdmissionAgrees
    OBVIOUS
  <2>1. Server!TypeOK
    BY DEF AdmissionInv, AdmissionTypes, ConnTypes, SourceTypes, RegistryTypes, ConnType, Places,
           Server!TypeOK
  <2>2. Server!SlotsAgree
    BY SameCardinality DEF AdmissionInv, SlotsKept, Server!SlotsAgree, Under, Active, Server!Known
  <2>3. Server!RateHolds
    <3> SUFFICES ASSUME NEW s \in Sources PROVE accepted[s] <= Burst + Rate * ticks
      BY DEF Server!RateHolds
    <3> DEFINE now == Rate * ticks
               lag == Rate * sources[s].since
    <3>1. accepted[s] \in Nat /\ now \in Nat /\ Burst \in Nat
      BY AdmissionConstants DEF AdmissionInv, AdmissionTypes, SourceTypes
    <3>2. CASE s \in Server!Known
      <4>1. sources[s].tokens \in 0..Burst /\ sources[s].since \in 0..(Old + 1)
            /\ accepted[s] + sources[s].tokens + lag <= Burst + now
        BY <3>2, Zenon DEF AdmissionInv, AdmissionTypes, SourceTypes, RateKept
      <4>2. lag \in Nat /\ sources[s].tokens \in Nat
        BY <4>1, AdmissionConstants
      <4> HIDE DEF now, lag
      <4>3. accepted[s] <= Burst + now
        BY <3>1, <4>1, <4>2
      <4>. QED BY <4>3 DEF now
    <3>3. CASE s \notin Server!Known
      <4>1. accepted[s] <= now
        BY <3>3, Zenon DEF AdmissionInv, RateKept
      <4> HIDE DEF now
      <4>2. accepted[s] <= Burst + now
        BY <3>1, <4>1
      <4>. QED BY <4>2 DEF now
    <3>. QED BY <3>2, <3>3
  <2>4. Server!OneSession
    BY SameCardinality, SessionsBounded DEF AdmissionInv, RegistryKept, Server!OneSession
  <2>5. Server!CloseIsComplete
    BY DEF AdmissionInv, CloseKept, Server!CloseIsComplete
  <2>. QED BY <2>1, <2>2, <2>3, <2>4, <2>5 DEF AdmissionAgrees
<1>. QED BY <1>1, <1>2, AdmissionStep, PTL DEF Spec

-----------------------------------------------------------------------------
(* UDP over TCP: the flows of the addresses and the bytes they hold.       *)

UotFlow ==
  [address : Addresses, cancelled : BOOLEAN, at : {"opening", "ready", "writing", "leaving", "ended"},
   reading : BOOLEAN, stream : {"none", "open", "closed"}]

UotTypes ==
  /\ uotFlows \in [Addresses -> 0..UotMaxFlows]
  /\ flow \in Seq(UotFlow) /\ Len(flow) <= UotMaxFlows
  /\ queue \in [Uot!Flows -> Seq(Costs)] /\ writing \in [Uot!Flows -> Costs \cup {0}]
  /\ queuedBytes \in Nat

(* The table has the flows that have not ended, and each in one place; a   *)
(* flow that is made later has nothing queued.                             *)
TableKept ==
  /\ \A a \in Addresses : uotFlows[a] # 0 =>
       /\ uotFlows[a] \in Uot!Made /\ flow[uotFlows[a]].address = a
       /\ flow[uotFlows[a]].at # "ended"
  /\ \A f \in Uot!Made : flow[f].at # "ended" => uotFlows[flow[f].address] = f
  /\ \A f \in Uot!Flows : queue[f] # <<>> => f \in Uot!Made /\ flow[f].at # "ended"
  /\ \A f \in Uot!Flows : writing[f] # 0 => f \in Uot!Made /\ flow[f].at = "writing"

Queued == UNION {{f} \X Uot!Held(f) : f \in Uot!Flows}
BytesKept ==
  /\ \A f \in Uot!Flows : IsFiniteSet(Uot!Held(f))
  /\ IsFiniteSet(Queued) /\ queuedBytes = Cardinality(Queued) /\ queuedBytes <= QueueBytes

UotInv == UotTypes /\ TableKept /\ BytesKept

-----------------------------------------------------------------------------
(* What is counted by rows: a row is as long as its set, and one row that  *)
(* changes changes the sum by as much.                                     *)

LEMMA RowOf ==
  ASSUME NEW d, NEW P, IsFiniteSet(P)
  PROVE  IsFiniteSet({d} \X P) /\ Cardinality({d} \X P) = Cardinality(P)
<1>1. IsFiniteSet({d}) /\ Cardinality({d}) = 1
  BY FS_Singleton
<1>2. IsFiniteSet({d} \X P) /\ Cardinality({d} \X P) = Cardinality({d}) * Cardinality(P)
  BY <1>1, FS_Product
<1>3. Cardinality(P) \in Nat
  BY FS_CardinalityType
<1>. QED BY <1>1, <1>2, <1>3

Rows(D, H) == UNION {{g} \X H[g] : g \in D}

LEMMA RowChanges ==
  ASSUME NEW D, NEW H, NEW K, NEW d \in D, \A g \in D : g # d => H[g] = K[g],
         IsFiniteSet(H[d]), IsFiniteSet(K[d]),
         NEW S, S = Rows(D, H), NEW T, T = Rows(D, K),
         IsFiniteSet(S)
  PROVE  /\ IsFiniteSet(T)
         /\ Cardinality(T) = Cardinality(S) - Cardinality(H[d]) + Cardinality(K[d])
         /\ Cardinality(H[d]) <= Cardinality(S)
<1> DEFINE P == {d} \X H[d]
           Q == {d} \X K[d]
<1>a. S = UNION {{g} \X H[g] : g \in D} /\ T = UNION {{g} \X K[g] : g \in D}
  BY DEF Rows
<1>1. P \subseteq S
  BY <1>a
<1>2. T = (S \ P) \cup Q /\ (S \ P) \cap Q = {}
  <2>1. ASSUME NEW x PROVE x \in S <=> \E g \in D : x \in {g} \X H[g]
    BY <1>a
  <2>2. ASSUME NEW x PROVE x \in T <=> \E g \in D : x \in {g} \X K[g]
    BY <1>a
  <2>3. \A g \in D : g # d => (({g} \X H[g]) \cap P = {} /\ ({g} \X H[g]) = ({g} \X K[g]) /\ ({g} \X K[g]) \cap Q = {})
    OBVIOUS
  <2>4. \A x : x \in T <=> (x \in S /\ x \notin P) \/ x \in Q
    <3> SUFFICES ASSUME NEW x PROVE x \in T <=> (x \in S /\ x \notin P) \/ x \in Q
      OBVIOUS
    <3>. QED BY <2>1, <2>2, <2>3
  <2>5. \A x : ~(x \in S /\ x \notin P /\ x \in Q)
    <3> SUFFICES ASSUME NEW x, x \in S, x \notin P, x \in Q PROVE FALSE
      OBVIOUS
    <3>1. PICK g \in D : x \in {g} \X H[g]
      BY <2>1
    <3>2. g # d
      BY <3>1
    <3>. QED BY <3>1, <3>2, <2>3
  <2> HIDE DEF P, Q
  <2>. QED BY <2>4, <2>5
<1>3. IsFiniteSet(P) /\ Cardinality(P) = Cardinality(H[d]) /\ IsFiniteSet(Q) /\ Cardinality(Q) = Cardinality(K[d])
  BY RowOf
<1> SUFFICES /\ IsFiniteSet(T) /\ Cardinality(T) = Cardinality(S) - Cardinality(P) + Cardinality(Q)
             /\ Cardinality(P) <= Cardinality(S)
  BY <1>3
<1>4. IsFiniteSet(S)
  OBVIOUS
<1> HIDE DEF P, Q
<1>5. IsFiniteSet(S \ P) /\ Cardinality(S \ P) = Cardinality(S) - Cardinality(S \cap P) /\ S \cap P = P
  BY <1>1, <1>4, FS_Difference
<1>6. Cardinality(P) \in Nat /\ Cardinality(Q) \in Nat /\ Cardinality(S) \in Nat /\ Cardinality(S \ P) \in Nat
  BY <1>3, <1>4, <1>5, FS_CardinalityType
<1>7. Cardinality(P) <= Cardinality(S)
  BY <1>1, <1>4, FS_Subset
<1>8. IsFiniteSet((S \ P) \cup Q)
      /\ Cardinality((S \ P) \cup Q) = Cardinality(S \ P) + Cardinality(Q) - Cardinality((S \ P) \cap Q)
  BY <1>3, <1>5, FS_Union
<1>11. IsFiniteSet(T) /\ Cardinality(T) = Cardinality(S \ P) + Cardinality(Q) - Cardinality((S \ P) \cap Q)
  BY <1>2, <1>8, Zenon
<1>9. Cardinality((S \ P) \cap Q) = 0
  BY <1>2, FS_EmptySet
<1>10. Cardinality(S \ P) = Cardinality(S) - Cardinality(P)
  BY <1>5
<1>. QED BY <1>6, <1>7, <1>9, <1>10, <1>11

LEMMA ColumnOf ==
  ASSUME NEW d, NEW n \in Nat
  PROVE  IsFiniteSet({d} \X (1..n)) /\ Cardinality({d} \X (1..n)) = n
<1>1. IsFiniteSet(1..n) /\ Cardinality(1..n) = n
  BY FS_Interval
<1>. QED BY <1>1, RowOf

-----------------------------------------------------------------------------
(* The bytes of a queue.                                                   *)

LEMMA UotConstants ==
  /\ Costs \subseteq Nat /\ QueueBytes \in Nat /\ UotMaxFlows \in Nat
  /\ Uot!Flows = 1..UotMaxFlows
  /\ \A S : Uot!Cardinality(S) = Cardinality(S)
BY UotAssumption DEF Uot!Flows, Cardinality, Uot!Cardinality

LEMMA BytesOf ==
  ASSUME NEW q \in Seq(Costs), NEW x
  PROVE  x \in Uot!Bytes(q) <=> \E i \in 1..Len(q) : \E u \in 1..q[i] : x = <<i, u>>
<1>1. DOMAIN q = 1..Len(q)
  OBVIOUS
<1>2. x \in Uot!Bytes(q) <=> \E i \in 1..Len(q) : x \in {i} \X (1..q[i])
  BY <1>1 DEF Uot!Bytes
<1>. QED BY <1>2

LEMMA BytesAppended ==
  ASSUME NEW q \in Seq(Costs), NEW c \in Costs
  PROVE  /\ Uot!Bytes(Append(q, c)) = Uot!Bytes(q) \cup ({Len(q) + 1} \X (1..c))
         /\ Uot!Bytes(q) \cap ({Len(q) + 1} \X (1..c)) = {}
<1>0. Append(q, c) \in Seq(Costs)
  OBVIOUS
<1>1. PICK r \in Seq(Costs) : r = Append(q, c)
  BY <1>0, Zenon
<1>2. /\ Len(r) = Len(q) + 1 /\ r[Len(q) + 1] = c /\ Len(q) \in Nat
      /\ \A i \in 1..Len(q) : r[i] = q[i]
  BY <1>1
<1>3. \A x : x \in Uot!Bytes(r) <=> (x \in Uot!Bytes(q) \/ x \in {Len(q) + 1} \X (1..c))
  <2> SUFFICES ASSUME NEW x PROVE x \in Uot!Bytes(r) <=> (x \in Uot!Bytes(q) \/ x \in {Len(q) + 1} \X (1..c))
    OBVIOUS
  <2>1. x \in Uot!Bytes(r) <=> \E i \in 1..(Len(q) + 1) : \E u \in 1..r[i] : x = <<i, u>>
    BY <1>2, BytesOf
  <2>2. x \in Uot!Bytes(q) <=> \E i \in 1..Len(q) : \E u \in 1..r[i] : x = <<i, u>>
    BY <1>2, BytesOf
  <2>3. x \in {Len(q) + 1} \X (1..c) <=> \E u \in 1..r[Len(q) + 1] : x = <<Len(q) + 1, u>>
    BY <1>2
  <2>4. \A i : i \in 1..(Len(q) + 1) <=> (i \in 1..Len(q) \/ i = Len(q) + 1)
    BY <1>2
  <2>. QED BY <2>1, <2>2, <2>3, <2>4, Zenon
<1>4. \A x : ~(x \in Uot!Bytes(q) /\ x \in {Len(q) + 1} \X (1..c))
  <2> SUFFICES ASSUME NEW x, x \in Uot!Bytes(q), x \in {Len(q) + 1} \X (1..c) PROVE FALSE
    OBVIOUS
  <2>1. PICK i \in 1..Len(q) : \E u \in 1..q[i] : x = <<i, u>>
    BY BytesOf
  <2>a. PICK u \in 1..q[i] : x = <<i, u>>
    BY <2>1
  <2>. QED BY <2>a, <1>2
<1>. QED BY <1>1, <1>3, <1>4

(* No byte of a queue is where the bytes of a write are.                   *)
LEMMA BytesApart ==
  ASSUME NEW q \in Seq(Costs), NEW n
  PROVE  Uot!Bytes(q) \cap ({0} \X (1..n)) = {}
<1> SUFFICES ASSUME NEW x \in Uot!Bytes(q), x \in {0} \X (1..n) PROVE FALSE
  OBVIOUS
<1>1. PICK i \in 1..Len(q) : \E u \in 1..q[i] : x = <<i, u>>
  BY BytesOf
<1>a. PICK u \in 1..q[i] : x = <<i, u>>
  BY <1>1
<1>. QED BY <1>a

LEMMA BytesEmpty == Uot!Bytes(<<>>) = {} /\ {0} \X (1..0) = {}
<1>1. DOMAIN <<>> = {}
  OBVIOUS
<1>2. Uot!Bytes(<<>>) = {}
  BY <1>1 DEF Uot!Bytes
<1>. QED BY <1>2

(* Taking the first datagram to be written moves every byte one place.     *)
LEMMA BytesShifted ==
  ASSUME NEW q \in Seq(Costs), q # <<>>, IsFiniteSet(Uot!Bytes(q))
  PROVE  /\ IsFiniteSet(Uot!Bytes(Tail(q)) \cup ({0} \X (1..Head(q))))
         /\ Cardinality(Uot!Bytes(Tail(q)) \cup ({0} \X (1..Head(q)))) = Cardinality(Uot!Bytes(q))
<1>0. Tail(q) \in Seq(Costs)
  OBVIOUS
<1>1. PICK r \in Seq(Costs) : r = Tail(q)
  BY <1>0, Zenon
<1>2. /\ Len(q) \in Nat /\ Len(q) > 0 /\ Len(r) = Len(q) - 1 /\ Head(q) = q[1]
      /\ \A i \in 1..Len(r) : r[i] = q[i + 1]
  BY <1>1
<1> DEFINE S == Uot!Bytes(q)
           T == Uot!Bytes(r) \cup ({0} \X (1..q[1]))
           shift == [x \in S |-> <<x[1] - 1, x[2]>>]
<1>3. ASSUME NEW x PROVE x \in T <=> \E i \in 0..(Len(q) - 1) : \E u \in 1..q[i + 1] : x = <<i, u>>
  <2>1. x \in Uot!Bytes(r) <=> \E i \in 1..(Len(q) - 1) : \E u \in 1..q[i + 1] : x = <<i, u>>
    BY <1>2, BytesOf
  <2>2. x \in {0} \X (1..q[1]) <=> \E u \in 1..q[0 + 1] : x = <<0, u>>
    OBVIOUS
  <2>3. \A i : i \in 0..(Len(q) - 1) <=> (i \in 1..(Len(q) - 1) \/ i = 0)
    BY <1>2
  <2>. QED BY <2>1, <2>2, <2>3, Zenon
<1>4. ASSUME NEW x PROVE x \in S <=> \E i \in 1..Len(q) : \E u \in 1..q[i] : x = <<i, u>>
  BY BytesOf
<1> HIDE DEF S, T
<1>5. \A x \in S : shift[x] \in T
  <2> SUFFICES ASSUME NEW x \in S PROVE shift[x] \in T
    OBVIOUS
  <2>1. PICK i \in 1..Len(q) : \E u \in 1..q[i] : x = <<i, u>>
    BY <1>4
  <2>a. PICK u \in 1..q[i] : x = <<i, u>>
    BY <2>1
  <2>2. shift[x] = <<i - 1, u>>
    BY <2>a
  <2>3. i - 1 \in 0..(Len(q) - 1) /\ (i - 1) + 1 = i
    BY <1>2
  <2>. QED BY <2>2, <2>3, <1>3
<1>6. \A x, y \in S : shift[x] = shift[y] => x = y
  <2> SUFFICES ASSUME NEW x \in S, NEW y \in S, shift[x] = shift[y] PROVE x = y
    OBVIOUS
  <2>1. PICK i \in 1..Len(q) : \E u \in 1..q[i] : x = <<i, u>>
    BY <1>4
  <2>a. PICK u \in 1..q[i] : x = <<i, u>>
    BY <2>1
  <2>2. PICK j \in 1..Len(q) : \E v \in 1..q[j] : y = <<j, v>>
    BY <1>4
  <2>b. PICK v \in 1..q[j] : y = <<j, v>>
    BY <2>2
  <2>3. shift[x] = <<i - 1, u>> /\ shift[y] = <<j - 1, v>>
    BY <2>a, <2>b
  <2>4. i - 1 = j - 1 /\ u = v
    BY <2>3
  <2>. QED BY <2>a, <2>b, <2>4
<1>7. \A y \in T : \E x \in S : shift[x] = y
  <2> SUFFICES ASSUME NEW y \in T PROVE \E x \in S : shift[x] = y
    OBVIOUS
  <2>1. PICK i \in 0..(Len(q) - 1) : \E u \in 1..q[i + 1] : y = <<i, u>>
    BY <1>3
  <2>a. PICK u \in 1..q[i + 1] : y = <<i, u>>
    BY <2>1
  <2>2. i + 1 \in 1..Len(q) /\ (i + 1) - 1 = i
    BY <1>2
  <2>3. <<i + 1, u>> \in S
    BY <2>2, <1>4
  <2>4. shift[<<i + 1, u>>] = y
    BY <2>a, <2>2, <2>3
  <2>. QED BY <2>3, <2>4
<1>8. shift \in [S -> T]
  BY <1>5
<1>9. shift \in Bijection(S, T)
  BY <1>6, <1>7, <1>8 DEF Bijection, Injection, Surjection, IsInjective
<1>10. ExistsBijection(S, T)
  BY <1>9 DEF ExistsBijection
<1>11. IsFiniteSet(T) /\ Cardinality(T) = Cardinality(S)
  <2>1. IsFiniteSet(S)
    BY DEF S
  <2>. QED BY <1>10, <2>1, FS_Bijection
<1>. QED BY <1>1, <1>2, <1>11 DEF S, T

-----------------------------------------------------------------------------
(* What is known of the flows, and a step of one of them.                  *)

LEMMA UotKnown ==
  ASSUME UotTypes
  PROVE  /\ Len(flow) \in Nat /\ Uot!Made = 1..Len(flow) /\ Uot!Made \subseteq Uot!Flows
         /\ \A f \in Uot!Made : flow[f] \in UotFlow /\ flow[f].address \in Addresses
         /\ \A f \in Uot!Flows : queue[f] \in Seq(Costs) /\ writing[f] \in Nat
         /\ \A a \in Addresses : uotFlows[a] \in Nat
         /\ 0 \notin Uot!Made
<1>1. flow \in Seq(UotFlow) /\ Len(flow) <= UotMaxFlows
  BY DEF UotTypes
<1>2. Len(flow) \in Nat /\ Uot!Made = 1..Len(flow)
  BY <1>1 DEF Uot!Made
<1>3. \A f \in Uot!Made : flow[f] \in UotFlow
  BY <1>1, <1>2
<1>4. \A f \in Uot!Made : flow[f].address \in Addresses
  BY <1>3 DEF UotFlow
<1>5. Uot!Made \subseteq Uot!Flows
  BY <1>1, <1>2, UotConstants
<1>6. \A f \in Uot!Flows : queue[f] \in Seq(Costs) /\ writing[f] \in Nat
  <2>1. Costs \cup {0} \subseteq Nat
    BY UotConstants
  <2>2. queue \in [Uot!Flows -> Seq(Costs)] /\ writing \in [Uot!Flows -> Costs \cup {0}]
    BY DEF UotTypes
  <2>. QED BY <2>1, <2>2
<1>7. \A a \in Addresses : uotFlows[a] \in Nat
  BY UotConstants DEF UotTypes
<1>. QED BY <1>2, <1>3, <1>4, <1>5, <1>6, <1>7

LEMMA FlowChanges ==
  ASSUME UotTypes, NEW f \in Uot!Made, NEW r \in UotFlow, flow' = [flow EXCEPT ![f] = r]
  PROVE  /\ flow' \in Seq(UotFlow) /\ Len(flow') = Len(flow) /\ Uot!Made' = Uot!Made
         /\ flow'[f] = r /\ \A g \in Uot!Made : g # f => flow'[g] = flow[g]
<1>1. flow \in Seq(UotFlow) /\ DOMAIN flow = 1..Len(flow) /\ f \in 1..Len(flow) /\ Len(flow) \in Nat
  BY UotKnown DEF UotTypes, Uot!Made
<1>2. flow' \in [1..Len(flow) -> UotFlow] /\ DOMAIN flow' = DOMAIN flow
  BY <1>1
<1>3. flow' \in Seq(UotFlow) /\ Len(flow') = Len(flow)
  BY <1>1, <1>2
<1>4. Uot!Made' = Uot!Made
  BY <1>2 DEF Uot!Made
<1>5. flow'[f] = r /\ \A g \in 1..Len(flow) : g # f => flow'[g] = flow[g]
  BY <1>1
<1>. QED BY <1>1, <1>3, <1>4, <1>5 DEF Uot!Made

(* The bytes when one flow's change.                                       *)
LEMMA BytesChange ==
  ASSUME UotTypes, BytesKept, NEW f \in Uot!Flows,
         \A g \in Uot!Flows : g # f => queue'[g] = queue[g] /\ writing'[g] = writing[g],
         IsFiniteSet(Uot!Held(f)'),
         queuedBytes' = queuedBytes - Cardinality(Uot!Held(f)) + Cardinality(Uot!Held(f)'),
         queuedBytes' <= QueueBytes
  PROVE  BytesKept' /\ queuedBytes' \in Nat
<1>1. PICK H : H = [g \in Uot!Flows |-> Uot!Held(g)]
  OBVIOUS
<1>2. PICK K : K = [g \in Uot!Flows |-> Uot!Held(g)']
  OBVIOUS
<1>3. \A g \in Uot!Flows : H[g] = Uot!Held(g) /\ K[g] = Uot!Held(g)'
  BY <1>1, <1>2
<1>4. \A g \in Uot!Flows : g # f => Uot!Held(g)' = Uot!Held(g)
  BY DEF Uot!Held
<1>5. \A g \in Uot!Flows : g # f => H[g] = K[g]
  BY <1>3, <1>4
<1>6. Queued = Rows(Uot!Flows, H)
  BY <1>3 DEF Queued, Rows
<1>7. Queued' = Rows(Uot!Flows, K)
  BY <1>3 DEF Queued, Rows, Uot!Flows
<1>8. IsFiniteSet(H[f]) /\ IsFiniteSet(K[f]) /\ IsFiniteSet(Queued)
  BY <1>3 DEF BytesKept
<1>9. /\ IsFiniteSet(Queued')
      /\ Cardinality(Queued') = Cardinality(Queued) - Cardinality(H[f]) + Cardinality(K[f])
  BY <1>5, <1>6, <1>7, <1>8, RowChanges
<1>10. queuedBytes' = Cardinality(Queued')
  BY <1>3, <1>9 DEF BytesKept
<1>11. \A g \in Uot!Flows : IsFiniteSet(Uot!Held(g)')
  BY <1>4 DEF BytesKept
<1>12. queuedBytes' \in Nat
  BY <1>9, <1>10, FS_CardinalityType
<1>. QED BY <1>9, <1>10, <1>11, <1>12 DEF BytesKept, Uot!Flows

(* A step of a flow that stays in the table.                               *)
LEMMA FlowStays ==
  ASSUME UotInv, NEW f \in Uot!Made, NEW r \in UotFlow, flow' = [flow EXCEPT ![f] = r],
         r.address = flow[f].address, (r.at = "ended") <=> (flow[f].at = "ended"),
         uotFlows' = uotFlows,
         queue' \in [Uot!Flows -> Seq(Costs)], writing' \in [Uot!Flows -> Costs \cup {0}],
         \A g \in Uot!Flows : g # f => queue'[g] = queue[g] /\ writing'[g] = writing[g],
         queue'[f] # <<>> => r.at # "ended", writing'[f] # 0 => r.at = "writing",
         BytesKept', queuedBytes' \in Nat
  PROVE  UotInv'
<1>1. UotTypes /\ TableKept
  BY DEF UotInv
<1>2. /\ flow' \in Seq(UotFlow) /\ Len(flow') = Len(flow) /\ Uot!Made' = Uot!Made
      /\ flow'[f] = r /\ \A g \in Uot!Made : g # f => flow'[g] = flow[g]
  BY <1>1, FlowChanges
<1>3. UotTypes'
  BY <1>1, <1>2 DEF UotTypes, Uot!Flows
<1>4. \A g \in Uot!Made : flow'[g].address = flow[g].address /\ ((flow'[g].at = "ended") <=> (flow[g].at = "ended"))
  BY <1>2
<1>6. \A g \in Uot!Flows : writing'[g] # 0 => g \in Uot!Made /\ flow'[g].at = "writing"
  <2> SUFFICES ASSUME NEW g \in Uot!Flows, writing'[g] # 0 PROVE g \in Uot!Made /\ flow'[g].at = "writing"
    OBVIOUS
  <2>1. CASE g = f
    BY <2>1, <1>2
  <2>2. CASE g # f
    BY <2>2, <1>1, <1>2 DEF TableKept
  <2>. QED BY <2>1, <2>2
<1>7. \A a \in Addresses : uotFlows[a] # 0 =>
        uotFlows[a] \in Uot!Made /\ flow'[uotFlows[a]].address = a /\ flow'[uotFlows[a]].at # "ended"
  BY <1>1, <1>4 DEF TableKept
<1>8. \A g \in Uot!Made : flow'[g].at # "ended" => uotFlows[flow'[g].address] = g
  BY <1>1, <1>4 DEF TableKept
<1>9. \A g \in Uot!Flows : queue'[g] # <<>> => g \in Uot!Made /\ flow'[g].at # "ended"
  <2> SUFFICES ASSUME NEW g \in Uot!Flows, queue'[g] # <<>> PROVE g \in Uot!Made /\ flow'[g].at # "ended"
    OBVIOUS
  <2>1. CASE g = f
    BY <2>1, <1>2
  <2>2. CASE g # f
    BY <2>2, <1>1, <1>2 DEF TableKept
  <2>. QED BY <2>1, <2>2
<1>10. TableKept'
  BY <1>2, <1>6, <1>7, <1>8, <1>9 DEF TableKept, Uot!Flows
<1>. QED BY <1>3, <1>10 DEF UotInv

(* Only where the two goroutines of a flow stand changes.                  *)
LEMMA OnlyFlow ==
  ASSUME UotInv, NEW f \in Uot!Made, NEW r \in UotFlow, flow' = [flow EXCEPT ![f] = r],
         r.address = flow[f].address, (r.at = "ended") <=> (flow[f].at = "ended"),
         flow[f].at = "writing" => r.at = "writing",
         UNCHANGED <<uotFlows, queue, writing, queuedBytes>>
  PROVE  UotInv'
<1>1. UotTypes /\ TableKept /\ BytesKept
  BY DEF UotInv
<1>2. f \in Uot!Flows
  BY <1>1, UotKnown
<1>3. (writing[f] # 0 => r.at = "writing") /\ (queue[f] # <<>> => r.at # "ended")
  BY <1>1, <1>2 DEF TableKept
<1>4. \A g : Uot!Held(g)' = Uot!Held(g)
  BY DEF Uot!Held
<1>5. Queued' = Queued
  BY <1>4 DEF Queued, Uot!Flows
<1>6. BytesKept'
  BY <1>1, <1>4, <1>5 DEF BytesKept, Uot!Flows
<1>7. queue' \in [Uot!Flows -> Seq(Costs)] /\ writing' \in [Uot!Flows -> Costs \cup {0}] /\ queuedBytes' \in Nat
  BY <1>1 DEF UotTypes
<1>. QED BY <1>3, <1>6, <1>7, FlowStays

-----------------------------------------------------------------------------
(* The steps that move no bytes.                                           *)

LEMMA OpenedUot ==
  ASSUME UotInv, NEW f \in Uot!Made, Uot!Opened(f)
  PROVE  UotInv'
<1>1. flow[f] \in UotFlow /\ flow[f].at = "opening" /\ UNCHANGED <<uotFlows, queue, writing, queuedBytes>>
  BY UotKnown DEF UotInv, Uot!Opened
<1>2. PICK r : /\ r \in {[flow[f] EXCEPT !.at = "ready", !.reading = TRUE, !.stream = "open"],
                         [flow[f] EXCEPT !.at = "leaving", !.cancelled = TRUE]}
               /\ flow' = [flow EXCEPT ![f] = r]
  BY DEF Uot!Opened
<1>3. r \in UotFlow /\ r.address = flow[f].address /\ r.at \in {"ready", "leaving"}
  BY <1>1, <1>2 DEF UotFlow
<1>. QED BY <1>1, <1>2, <1>3, OnlyFlow

LEMMA CancelledUot ==
  ASSUME UotInv, NEW f \in Uot!Made, Uot!Cancelled(f)
  PROVE  UotInv'
<1>1. flow[f] \in UotFlow /\ flow[f].at = "ready" /\ UNCHANGED <<uotFlows, queue, writing, queuedBytes>>
  BY UotKnown DEF UotInv, Uot!Cancelled
<1>2. PICK r : r = [flow[f] EXCEPT !.at = "leaving"] /\ flow' = [flow EXCEPT ![f] = r]
  BY DEF Uot!Cancelled
<1>3. r \in UotFlow /\ r.address = flow[f].address /\ r.at = "leaving"
  BY <1>1, <1>2 DEF UotFlow
<1>. QED BY <1>1, <1>2, <1>3, OnlyFlow

(* The Stream is closed, from here or from there, or its reader ends.      *)
LEMMA OfTheStream ==
  ASSUME UotInv, NEW f \in Uot!Made, Uot!ReaderStep(f) \/ Uot!StreamCloses(f)
  PROVE  UotInv'
<1>1. flow[f] \in UotFlow /\ UNCHANGED <<uotFlows, queue, writing, queuedBytes>>
  BY UotKnown DEF UotInv, Uot!ReaderStep, Uot!AfterCancel, Uot!ReaderEnds, Uot!StreamCloses
<1>2. PICK r : /\ r \in {[flow[f] EXCEPT !.stream = "closed"],
                         [flow[f] EXCEPT !.reading = FALSE, !.cancelled = TRUE]}
               /\ flow' = [flow EXCEPT ![f] = r]
  BY DEF Uot!ReaderStep, Uot!AfterCancel, Uot!ReaderEnds, Uot!StreamCloses
<1>3. r \in UotFlow /\ r.address = flow[f].address /\ r.at = flow[f].at
  BY <1>1, <1>2 DEF UotFlow
<1>. QED BY <1>1, <1>2, <1>3, OnlyFlow

LEMMA ExpireUot ==
  ASSUME UotInv, NEW a \in Addresses, Uot!Expire(a)
  PROVE  UotInv'
<1>1. uotFlows[a] # 0 /\ UNCHANGED <<uotFlows, queue, writing, queuedBytes>>
  BY DEF Uot!Expire, Uot!Expires
<1>2. PICK f \in Uot!Made : f = uotFlows[a]
  BY <1>1 DEF UotInv, TableKept
<1>3. flow[f] \in UotFlow
  BY UotKnown DEF UotInv
<1>4. PICK r : r = [flow[f] EXCEPT !.cancelled = TRUE] /\ flow' = [flow EXCEPT ![f] = r]
  BY <1>2 DEF Uot!Expire, Uot!Expires
<1>5. r \in UotFlow /\ r.address = flow[f].address /\ r.at = flow[f].at
  BY <1>3, <1>4 DEF UotFlow
<1>. QED BY <1>1, <1>4, <1>5, OnlyFlow

LEMMA StopUot ==
  ASSUME UotInv, Uot!Stop
  PROVE  UotInv'
<1>1. UotTypes /\ TableKept /\ BytesKept
  BY DEF UotInv
<1>2. /\ flow' = [f \in Uot!Made |-> [flow[f] EXCEPT !.cancelled = TRUE]]
      /\ UNCHANGED <<uotFlows, queue, writing, queuedBytes>>
  BY DEF Uot!Stop
<1>3. Uot!Made = 1..Len(flow) /\ Len(flow) \in Nat /\ \A f \in Uot!Made : flow[f] \in UotFlow
  BY <1>1, UotKnown
<1>4. \A f \in Uot!Made : /\ flow'[f] \in UotFlow /\ flow'[f].address = flow[f].address
                          /\ flow'[f].at = flow[f].at
  <2> TAKE f \in Uot!Made
  <2>1. flow'[f] = [flow[f] EXCEPT !.cancelled = TRUE]
    BY <1>2
  <2>2. flow[f] \in UotFlow
    BY <1>3
  <2>. QED BY <2>1, <2>2 DEF UotFlow
<1>5. flow' \in [1..Len(flow) -> UotFlow] /\ DOMAIN flow' = Uot!Made
  BY <1>2, <1>3, <1>4
<1>6. flow' \in Seq(UotFlow) /\ Len(flow') = Len(flow)
  BY <1>3, <1>5
<1>7. Uot!Made' = Uot!Made
  BY <1>5 DEF Uot!Made
<1>8. UotTypes'
  <2>1. UNCHANGED <<uotFlows, queue, writing, queuedBytes>>
    BY <1>2
  <2>2. Len(flow') <= UotMaxFlows
    BY <1>1, <1>6 DEF UotTypes
  <2>3. /\ uotFlows' \in [Addresses -> 0..UotMaxFlows] /\ queue' \in [Uot!Flows -> Seq(Costs)]
        /\ writing' \in [Uot!Flows -> Costs \cup {0}] /\ queuedBytes' \in Nat
    BY <1>1, <2>1, Zenon DEF UotTypes
  <2>. QED BY <1>6, <2>2, <2>3, Zenon DEF UotTypes, Uot!Flows
<1>9. TableKept'
  <2>1. UNCHANGED <<uotFlows, queue, writing>>
    BY <1>2
  <2>2. \A a \in Addresses : uotFlows'[a] # 0 =>
          /\ uotFlows'[a] \in Uot!Made' /\ flow'[uotFlows'[a]].address = a
          /\ flow'[uotFlows'[a]].at # "ended"
    BY <1>1, <1>4, <1>7, <2>1 DEF TableKept
  <2>3. \A f \in Uot!Made' : flow'[f].at # "ended" => uotFlows'[flow'[f].address] = f
    BY <1>1, <1>4, <1>7, <2>1 DEF TableKept
  <2>4. /\ \A f \in Uot!Flows : queue'[f] # <<>> => f \in Uot!Made' /\ flow'[f].at # "ended"
        /\ \A f \in Uot!Flows : writing'[f] # 0 => f \in Uot!Made' /\ flow'[f].at = "writing"
    BY <1>1, <1>4, <1>7, <2>1 DEF TableKept
  <2>. QED BY <2>2, <2>3, <2>4 DEF TableKept, Uot!Flows
<1>10. \A g : Uot!Held(g)' = Uot!Held(g)
  BY <1>2 DEF Uot!Held
<1>11. Queued' = Queued
  BY <1>10 DEF Queued, Uot!Flows
<1>12. BytesKept'
  BY <1>1, <1>2, <1>10, <1>11 DEF BytesKept, Uot!Flows
<1>. QED BY <1>8, <1>9, <1>12 DEF UotInv

-----------------------------------------------------------------------------
(* The steps that move bytes.                                              *)

LEMMA HeldApart ==
  ASSUME UotTypes, BytesKept, NEW f \in Uot!Flows
  PROVE  /\ IsFiniteSet(Uot!Bytes(queue[f]))
         /\ Cardinality(Uot!Held(f)) = Cardinality(Uot!Bytes(queue[f])) + writing[f]
         /\ writing[f] \in Nat /\ Cardinality(Uot!Bytes(queue[f])) \in Nat
         /\ writing[f] = 0 => Uot!Held(f) = Uot!Bytes(queue[f])
<1>1. queue[f] \in Seq(Costs) /\ writing[f] \in Nat
  BY UotKnown
<1>2. PICK B : B = Uot!Bytes(queue[f])
  OBVIOUS
<1>3. PICK W : W = {0} \X (1..writing[f])
  OBVIOUS
<1>4. Uot!Held(f) = B \cup W
  BY <1>2, <1>3 DEF Uot!Held
<1>5. B \cap W = {}
  BY <1>1, <1>2, <1>3, BytesApart
<1>6. IsFiniteSet(W) /\ Cardinality(W) = writing[f]
  BY <1>1, <1>3, ColumnOf
<1>7. IsFiniteSet(B \cup W)
  BY <1>4 DEF BytesKept
<1>8. IsFiniteSet(B)
  BY <1>7, FS_Subset
<1>9. Cardinality(B \cup W) = Cardinality(B) + Cardinality(W) - Cardinality(B \cap W)
  BY <1>6, <1>8, FS_Union
<1>10. Cardinality(B \cap W) = 0 /\ Cardinality(B) \in Nat
  BY <1>5, <1>8, FS_EmptySet, FS_CardinalityType
<1>11. Cardinality(Uot!Held(f)) = Cardinality(B) + writing[f]
  BY <1>1, <1>4, <1>6, <1>9, <1>10
<1>12. writing[f] = 0 => W = {}
  BY <1>3
<1>13. writing[f] = 0 => Uot!Held(f) = B
  BY <1>4, <1>12
<1>. QED BY <1>1, <1>2, <1>8, <1>10, <1>11, <1>13

(* The bytes of a datagram that is queued.                                 *)
LEMMA QueuesKeeps ==
  ASSUME UotTypes, BytesKept, NEW f \in Uot!Flows, NEW c \in Costs,
         Uot!Fits(c), Uot!Queues(f, c), UNCHANGED writing
  PROVE  /\ BytesKept' /\ queuedBytes' \in Nat
         /\ queue' \in [Uot!Flows -> Seq(Costs)]
         /\ \A g \in Uot!Flows : g # f => queue'[g] = queue[g] /\ writing'[g] = writing[g]
<1>1. /\ queue[f] \in Seq(Costs) /\ c \in Nat /\ queuedBytes \in Nat /\ QueueBytes \in Nat
      /\ queue \in [Uot!Flows -> Seq(Costs)] /\ writing[f] \in Nat
  BY UotKnown, UotConstants DEF UotTypes
<1>2. /\ queue' = [queue EXCEPT ![f] = Append(queue[f], c)]
      /\ queuedBytes' = queuedBytes + c /\ queuedBytes' <= QueueBytes
  BY <1>1 DEF Uot!Queues, Uot!Fits
<1>3. Append(queue[f], c) \in Seq(Costs)
  BY <1>1
<1>4. /\ queue' \in [Uot!Flows -> Seq(Costs)] /\ queue'[f] = Append(queue[f], c)
      /\ \A g \in Uot!Flows : g # f => queue'[g] = queue[g] /\ writing'[g] = writing[g]
  BY <1>1, <1>2, <1>3
<1>5. PICK R : R = {Len(queue[f]) + 1} \X (1..c)
  OBVIOUS
<1>6. /\ Uot!Bytes(queue'[f]) = Uot!Bytes(queue[f]) \cup R
      /\ Uot!Bytes(queue[f]) \cap R = {}
  BY <1>1, <1>4, <1>5, BytesAppended
<1>7. R \cap ({0} \X (1..writing[f])) = {}
  <2>1. Len(queue[f]) + 1 # 0
    BY <1>1
  <2>. QED BY <1>5, <2>1
<1>8. Uot!Held(f)' = Uot!Held(f) \cup R /\ Uot!Held(f) \cap R = {}
  BY <1>6, <1>7 DEF Uot!Held
<1>9. IsFiniteSet(R) /\ Cardinality(R) = c /\ IsFiniteSet(Uot!Held(f))
  BY <1>1, <1>5, ColumnOf DEF BytesKept
<1>10. PICK H : H = Uot!Held(f)
  OBVIOUS
<1>11. /\ IsFiniteSet(H \cup R) /\ Cardinality(H \cup R) = Cardinality(H) + Cardinality(R) - Cardinality(H \cap R)
       /\ Cardinality(H) \in Nat
  BY <1>9, <1>10, FS_Union, FS_CardinalityType
<1>12. Cardinality(H \cap R) = 0
  BY <1>8, <1>10, FS_EmptySet
<1>13. IsFiniteSet(Uot!Held(f)') /\ Cardinality(Uot!Held(f)') = Cardinality(Uot!Held(f)) + c
  BY <1>1, <1>8, <1>9, <1>10, <1>11, <1>12
<1>14. queuedBytes' = queuedBytes - Cardinality(Uot!Held(f)) + Cardinality(Uot!Held(f)')
  BY <1>1, <1>2, <1>10, <1>11, <1>13
<1>. QED BY <1>2, <1>4, <1>13, <1>14, BytesChange

(* A datagram for a flow there is.                                         *)
LEMMA EnqueueOld ==
  ASSUME UotInv, NEW a \in Addresses, NEW c \in Costs, Uot!Enqueue(a, c), uotFlows[a] # 0
  PROVE  UotInv'
<1>1. UotTypes /\ TableKept /\ BytesKept
  BY DEF UotInv
<1>2. PICK f \in Uot!Made : f = uotFlows[a] /\ flow[f].at # "ended"
  BY <1>1 DEF TableKept
<1>3. /\ Uot!Fits(c) /\ Uot!Queues(f, c) /\ UNCHANGED <<uotFlows, flow, writing>>
  BY <1>2 DEF Uot!Enqueue
<1>4. f \in Uot!Flows /\ flow[f] \in UotFlow /\ flow \in Seq(UotFlow) /\ f \in 1..Len(flow)
  BY <1>1, <1>2, UotKnown DEF UotTypes
<1>5. /\ BytesKept' /\ queuedBytes' \in Nat /\ queue' \in [Uot!Flows -> Seq(Costs)]
      /\ \A g \in Uot!Flows : g # f => queue'[g] = queue[g] /\ writing'[g] = writing[g]
  BY <1>1, <1>3, <1>4, QueuesKeeps
<1>6. PICK r \in UotFlow : r = flow[f] /\ flow' = [flow EXCEPT ![f] = r]
  <2>1. flow' = [flow EXCEPT ![f] = flow[f]]
    BY <1>3, <1>4
  <2>. QED BY <1>4, <2>1
<1>7. writing' \in [Uot!Flows -> Costs \cup {0}] /\ (writing'[f] # 0 => r.at = "writing")
  BY <1>1, <1>3, <1>4, <1>6 DEF UotTypes, TableKept
<1>8. uotFlows' = uotFlows /\ r.at # "ended"
  BY <1>2, <1>3, <1>6
<1>. QED BY <1>2, <1>5, <1>6, <1>7, <1>8, FlowStays

(* A datagram for a new flow, of an address that had none.                 *)
LEMMA EnqueueNew ==
  ASSUME UotInv, NEW a \in Addresses, NEW c \in Costs, Uot!Enqueue(a, c), uotFlows[a] = 0
  PROVE  UotInv'
<1>1. UotTypes /\ TableKept /\ BytesKept
  BY DEF UotInv
<1>2. /\ Uot!Made = 1..Len(flow) /\ Len(flow) \in Nat /\ 0 \notin Uot!Made
      /\ \A f \in Uot!Made : flow[f] \in UotFlow
  BY <1>1, UotKnown
<1>3. PICK n \in Nat : n = Len(flow) + 1
  BY <1>2
<1>4. PICK r : r = [Uot!Idle EXCEPT !.address = a, !.at = "opening"]
  OBVIOUS
<1>5. /\ Len(flow) < UotMaxFlows /\ uotFlows' = [uotFlows EXCEPT ![a] = n]
      /\ flow' = Append(flow, r) /\ Uot!Fits(c) /\ Uot!Queues(n, c) /\ UNCHANGED writing
  BY <1>3, <1>4 DEF Uot!Enqueue
<1>6. n \in Uot!Flows /\ n \notin Uot!Made /\ n \in 0..UotMaxFlows /\ n # 0
  BY <1>2, <1>3, <1>5, UotConstants
<1>7. r \in UotFlow /\ r.address = a /\ r.at = "opening"
  BY <1>4 DEF Uot!Idle, UotFlow
<1>8. /\ flow' \in Seq(UotFlow) /\ Len(flow') = n /\ Uot!Made' = Uot!Made \cup {n}
      /\ flow'[n] = r /\ \A f \in Uot!Made : flow'[f] = flow[f]
  <2>1. flow \in Seq(UotFlow)
    BY <1>1 DEF UotTypes
  <2>2. flow' \in Seq(UotFlow) /\ Len(flow') = n /\ DOMAIN flow' = 1..n
    BY <1>3, <1>5, <1>7, <2>1
  <2>3. flow'[n] = r /\ \A f \in 1..Len(flow) : flow'[f] = flow[f]
    BY <1>3, <1>5, <1>7, <2>1
  <2>4. 1..n = 1..Len(flow) \cup {n}
    BY <1>2, <1>3
  <2>. QED BY <1>2, <2>2, <2>3, <2>4 DEF Uot!Made
<1>9. /\ BytesKept' /\ queuedBytes' \in Nat /\ queue' \in [Uot!Flows -> Seq(Costs)]
      /\ \A g \in Uot!Flows : g # n => queue'[g] = queue[g] /\ writing'[g] = writing[g]
  BY <1>1, <1>5, <1>6, QueuesKeeps
<1>10. /\ uotFlows' \in [Addresses -> 0..UotMaxFlows] /\ uotFlows'[a] = n
       /\ \A b \in Addresses : b # a => uotFlows'[b] = uotFlows[b]
  BY <1>1, <1>5, <1>6 DEF UotTypes
<1>11. UotTypes'
  <2>1. n <= UotMaxFlows
    BY <1>6, UotConstants
  <2>. QED BY <1>1, <1>5, <1>8, <1>9, <1>10, <2>1 DEF UotTypes, Uot!Flows
<1>12. \A b \in Addresses : uotFlows'[b] # 0 =>
         /\ uotFlows'[b] \in Uot!Made' /\ flow'[uotFlows'[b]].address = b /\ flow'[uotFlows'[b]].at # "ended"
  <2> SUFFICES ASSUME NEW b \in Addresses, uotFlows'[b] # 0
               PROVE  /\ uotFlows'[b] \in Uot!Made' /\ flow'[uotFlows'[b]].address = b
                      /\ flow'[uotFlows'[b]].at # "ended"
    OBVIOUS
  <2>1. CASE b = a
    BY <2>1, <1>7, <1>8, <1>10
  <2>2. CASE b # a
    BY <2>2, <1>1, <1>8, <1>10 DEF TableKept
  <2>. QED BY <2>1, <2>2
<1>13. \A f \in Uot!Made' : flow'[f].at # "ended" => uotFlows'[flow'[f].address] = f
  <2> SUFFICES ASSUME NEW f \in Uot!Made', flow'[f].at # "ended" PROVE uotFlows'[flow'[f].address] = f
    OBVIOUS
  <2>1. CASE f = n
    BY <2>1, <1>7, <1>8, <1>10
  <2>2. CASE f # n
    <3>1. f \in Uot!Made /\ flow'[f] = flow[f] /\ flow[f].address \in Addresses
      BY <2>2, <1>1, <1>8, UotKnown
    <3>2. uotFlows[flow[f].address] = f /\ f # 0
      BY <3>1, <1>1, <1>2 DEF TableKept
    <3>3. flow[f].address # a
      BY <3>2
    <3>. QED BY <3>1, <3>2, <3>3, <1>10
  <2>. QED BY <2>1, <2>2
<1>14. \A g \in Uot!Flows : queue'[g] # <<>> => g \in Uot!Made' /\ flow'[g].at # "ended"
  BY <1>1, <1>7, <1>8, <1>9 DEF TableKept
<1>15. \A g \in Uot!Flows : writing'[g] # 0 => g \in Uot!Made' /\ flow'[g].at = "writing"
  BY <1>1, <1>5, <1>8 DEF TableKept
<1>16. TableKept'
  BY <1>12, <1>13, <1>14, <1>15 DEF TableKept, Uot!Flows
<1>. QED BY <1>9, <1>11, <1>16 DEF UotInv

(* The first datagram of the queue is taken to be written.                 *)
LEMMA Next1Uot ==
  ASSUME UotInv, NEW f \in Uot!Made, Uot!Next1(f)
  PROVE  UotInv'
<1>1. UotTypes /\ TableKept /\ BytesKept
  BY DEF UotInv
<1>2. /\ flow[f].at = "ready" /\ queue[f] # <<>> /\ UNCHANGED <<uotFlows, queuedBytes>>
      /\ writing' = [writing EXCEPT ![f] = Head(queue[f])]
      /\ queue' = [queue EXCEPT ![f] = Tail(queue[f])]
  BY DEF Uot!Next1
<1>3. /\ f \in Uot!Flows /\ flow[f] \in UotFlow /\ queue[f] \in Seq(Costs) /\ queuedBytes \in Nat
      /\ queue \in [Uot!Flows -> Seq(Costs)] /\ writing \in [Uot!Flows -> Costs \cup {0}]
  BY <1>1, UotKnown DEF UotTypes
<1>4. Head(queue[f]) \in Costs /\ Tail(queue[f]) \in Seq(Costs)
  BY <1>2, <1>3
<1>5. /\ writing' \in [Uot!Flows -> Costs \cup {0}] /\ queue' \in [Uot!Flows -> Seq(Costs)]
      /\ writing'[f] = Head(queue[f]) /\ queue'[f] = Tail(queue[f])
      /\ \A g \in Uot!Flows : g # f => queue'[g] = queue[g] /\ writing'[g] = writing[g]
  BY <1>2, <1>3, <1>4
<1>6. writing[f] = 0
  BY <1>1, <1>2, <1>3 DEF TableKept
<1>7. Uot!Held(f) = Uot!Bytes(queue[f]) /\ IsFiniteSet(Uot!Bytes(queue[f]))
  BY <1>1, <1>3, <1>6, HeldApart
<1>8. Uot!Held(f)' = Uot!Bytes(Tail(queue[f])) \cup ({0} \X (1..Head(queue[f])))
  BY <1>5 DEF Uot!Held
<1>9. IsFiniteSet(Uot!Held(f)') /\ Cardinality(Uot!Held(f)') = Cardinality(Uot!Held(f))
  BY <1>2, <1>3, <1>7, <1>8, BytesShifted
<1>10. Cardinality(Uot!Held(f)) \in Nat /\ queuedBytes' = queuedBytes /\ queuedBytes <= QueueBytes
  BY <1>1, <1>2, <1>3, FS_CardinalityType DEF BytesKept
<1>11. queuedBytes' = queuedBytes - Cardinality(Uot!Held(f)) + Cardinality(Uot!Held(f)')
  BY <1>3, <1>9, <1>10
<1>12. BytesKept' /\ queuedBytes' \in Nat
  BY <1>1, <1>3, <1>5, <1>9, <1>10, <1>11, BytesChange
<1>13. PICK r : r = [flow[f] EXCEPT !.at = "writing"] /\ flow' = [flow EXCEPT ![f] = r]
  BY DEF Uot!Next1
<1>14. r \in UotFlow /\ r.address = flow[f].address /\ r.at = "writing"
  BY <1>3, <1>13 DEF UotFlow
<1>. QED BY <1>2, <1>5, <1>12, <1>13, <1>14, FlowStays

(* The write is over, whether it was sent or not.                          *)
LEMMA WrittenUot ==
  ASSUME UotInv, NEW f \in Uot!Made, Uot!Written(f)
  PROVE  UotInv'
<1>1. UotTypes /\ TableKept /\ BytesKept
  BY DEF UotInv
<1>2. /\ flow[f].at = "writing" /\ UNCHANGED <<uotFlows, queue>>
      /\ writing' = [writing EXCEPT ![f] = 0] /\ queuedBytes' = queuedBytes - writing[f]
  BY DEF Uot!Written, Uot!Settled
<1>3. /\ f \in Uot!Flows /\ flow[f] \in UotFlow /\ queuedBytes \in Nat
      /\ queue \in [Uot!Flows -> Seq(Costs)] /\ writing \in [Uot!Flows -> Costs \cup {0}]
  BY <1>1, UotKnown DEF UotTypes
<1>4. /\ writing' \in [Uot!Flows -> Costs \cup {0}] /\ queue' \in [Uot!Flows -> Seq(Costs)]
      /\ writing'[f] = 0 /\ queue'[f] = queue[f]
      /\ \A g \in Uot!Flows : g # f => queue'[g] = queue[g] /\ writing'[g] = writing[g]
  BY <1>2, <1>3
<1>5. /\ IsFiniteSet(Uot!Bytes(queue[f]))
      /\ Cardinality(Uot!Held(f)) = Cardinality(Uot!Bytes(queue[f])) + writing[f]
      /\ writing[f] \in Nat /\ Cardinality(Uot!Bytes(queue[f])) \in Nat
  BY <1>1, <1>3, HeldApart
<1>6. Uot!Held(f)' = Uot!Bytes(queue[f])
  <2>1. {0} \X (1..writing'[f]) = {}
    BY <1>4, BytesEmpty
  <2>. QED BY <1>4, <2>1 DEF Uot!Held
<1>7. queuedBytes' = queuedBytes - Cardinality(Uot!Held(f)) + Cardinality(Uot!Held(f)')
  BY <1>2, <1>3, <1>5, <1>6
<1>8. queuedBytes' <= QueueBytes
  BY <1>1, <1>2, <1>3, <1>5, UotConstants DEF BytesKept
<1>9. BytesKept' /\ queuedBytes' \in Nat
  BY <1>1, <1>3, <1>4, <1>5, <1>6, <1>7, <1>8, BytesChange
<1>10. PICK ok \in BOOLEAN :
          flow' = [flow EXCEPT ![f].at = IF ok THEN "ready" ELSE "leaving",
                               ![f].cancelled = flow[f].cancelled \/ ~ok]
  BY DEF Uot!Written
<1>11. PICK r : r = [flow[f] EXCEPT !.at = IF ok THEN "ready" ELSE "leaving",
                                    !.cancelled = flow[f].cancelled \/ ~ok]
  OBVIOUS
<1>12. flow' = [flow EXCEPT ![f] = r]
  BY <1>10, <1>11
<1>13. r \in UotFlow /\ r.address = flow[f].address /\ r.at \in {"ready", "leaving"}
  BY <1>3, <1>11 DEF UotFlow
<1>. QED BY <1>2, <1>4, <1>9, <1>12, <1>13, FlowStays

(* The end of a flow: its queue is emptied, and its address is free.       *)
LEMMA LeaveUot ==
  ASSUME UotInv, NEW f \in Uot!Made, Uot!Leave(f)
  PROVE  UotInv'
<1>1. UotTypes /\ TableKept /\ BytesKept
  BY DEF UotInv
<1>2. PICK a : a = flow[f].address
  OBVIOUS
<1>3. /\ flow[f].at = "leaving" /\ UNCHANGED writing
      /\ uotFlows' = [uotFlows EXCEPT ![a] = 0] /\ queue' = [queue EXCEPT ![f] = <<>>]
      /\ queuedBytes' = queuedBytes - Cardinality(Uot!Bytes(queue[f]))
  BY <1>2, UotConstants DEF Uot!Leave
<1>4. /\ f \in Uot!Flows /\ flow[f] \in UotFlow /\ queuedBytes \in Nat /\ a \in Addresses
      /\ queue \in [Uot!Flows -> Seq(Costs)] /\ writing \in [Uot!Flows -> Costs \cup {0}]
      /\ uotFlows \in [Addresses -> 0..UotMaxFlows]
  BY <1>1, <1>2, UotKnown DEF UotTypes
<1>5. writing[f] = 0 /\ uotFlows[a] = f
  BY <1>1, <1>2, <1>3, <1>4 DEF TableKept
<1>6. /\ queue' \in [Uot!Flows -> Seq(Costs)] /\ queue'[f] = <<>> /\ writing' = writing
      /\ \A g \in Uot!Flows : g # f => queue'[g] = queue[g] /\ writing'[g] = writing[g]
  BY <1>3, <1>4
<1>7. /\ Cardinality(Uot!Bytes(queue[f])) \in Nat
      /\ Uot!Held(f) = Uot!Bytes(queue[f])
  BY <1>1, <1>4, <1>5, HeldApart
<1>8. Uot!Held(f)' = {}
  <2>1. {0} \X (1..writing'[f]) = {}
    BY <1>5, <1>6, BytesEmpty
  <2>. QED BY <1>6, <2>1, BytesEmpty DEF Uot!Held
<1>9. IsFiniteSet(Uot!Held(f)') /\ Cardinality(Uot!Held(f)') = 0
  BY <1>8, FS_EmptySet
<1>10. queuedBytes' = queuedBytes - Cardinality(Uot!Held(f)) + Cardinality(Uot!Held(f)')
  BY <1>3, <1>4, <1>7, <1>9
<1>11. queuedBytes' <= QueueBytes
  BY <1>1, <1>3, <1>4, <1>7, UotConstants DEF BytesKept
<1>12. BytesKept' /\ queuedBytes' \in Nat
  BY <1>1, <1>4, <1>6, <1>9, <1>10, <1>11, BytesChange
<1>13. PICK r : r = [flow[f] EXCEPT !.at = "ended", !.cancelled = TRUE] /\ flow' = [flow EXCEPT ![f] = r]
  BY DEF Uot!Leave
<1>14. r \in UotFlow /\ r.address = a /\ r.at = "ended"
  BY <1>2, <1>4, <1>13 DEF UotFlow
<1>15. /\ flow' \in Seq(UotFlow) /\ Len(flow') = Len(flow) /\ Uot!Made' = Uot!Made
       /\ flow'[f] = r /\ \A g \in Uot!Made : g # f => flow'[g] = flow[g]
  BY <1>1, <1>13, <1>14, FlowChanges
<1>16. /\ uotFlows' \in [Addresses -> 0..UotMaxFlows] /\ uotFlows'[a] = 0
       /\ \A b \in Addresses : b # a => uotFlows'[b] = uotFlows[b]
  BY <1>3, <1>4, UotConstants
<1>17. UotTypes'
  BY <1>1, <1>4, <1>6, <1>12, <1>15, <1>16 DEF UotTypes, Uot!Flows
<1>18. ASSUME NEW b \in Addresses, uotFlows'[b] # 0
       PROVE  /\ uotFlows'[b] \in Uot!Made' /\ flow'[uotFlows'[b]].address = b
              /\ flow'[uotFlows'[b]].at # "ended"
  <2>1. b # a /\ uotFlows'[b] = uotFlows[b]
    BY <1>16, <1>18
  <2>2. uotFlows[b] \in Uot!Made /\ flow[uotFlows[b]].address = b /\ flow[uotFlows[b]].at # "ended"
    BY <1>1, <1>18, <2>1 DEF TableKept
  <2>3. uotFlows[b] # f
    BY <1>2, <2>1, <2>2
  <2>. QED BY <1>15, <2>1, <2>2, <2>3
<1>19. ASSUME NEW g \in Uot!Made', flow'[g].at # "ended"
       PROVE  uotFlows'[flow'[g].address] = g
  <2>1. g # f /\ g \in Uot!Made /\ flow'[g] = flow[g]
    BY <1>14, <1>15, <1>19
  <2>2. uotFlows[flow[g].address] = g /\ flow[g].address \in Addresses
    BY <1>1, <1>19, <2>1, UotKnown DEF TableKept
  <2>3. flow[g].address # a
    BY <1>5, <2>1, <2>2
  <2>. QED BY <1>16, <2>1, <2>2, <2>3
<1>20. ASSUME NEW g \in Uot!Flows, queue'[g] # <<>>
       PROVE  g \in Uot!Made' /\ flow'[g].at # "ended"
  <2>1. g # f /\ queue'[g] = queue[g]
    BY <1>6, <1>20
  <2>. QED BY <1>1, <1>15, <1>20, <2>1 DEF TableKept
<1>21. ASSUME NEW g \in Uot!Flows, writing'[g] # 0
       PROVE  g \in Uot!Made' /\ flow'[g].at = "writing"
  <2>1. g # f
    BY <1>5, <1>6, <1>21
  <2>. QED BY <1>1, <1>6, <1>15, <1>21, <2>1 DEF TableKept
<1>22. TableKept'
  BY <1>18, <1>19, <1>20, <1>21 DEF TableKept, Uot!Flows
<1>. QED BY <1>12, <1>17, <1>22 DEF UotInv

-----------------------------------------------------------------------------

LEMMA UotInit == Uot!Init => UotInv
<1> SUFFICES ASSUME Uot!Init PROVE UotInv
  OBVIOUS
<1>1. /\ uotFlows = [a \in Addresses |-> 0] /\ flow = <<>> /\ queue = [f \in Uot!Flows |-> <<>>]
      /\ writing = [f \in Uot!Flows |-> 0] /\ queuedBytes = 0
  BY DEF Uot!Init
<1>2. Uot!Made = {} /\ flow \in Seq(UotFlow) /\ Len(flow) = 0
  BY <1>1 DEF Uot!Made
<1>3. UotTypes
  <2>1. queue \in [Uot!Flows -> Seq(Costs)] /\ writing \in [Uot!Flows -> Costs \cup {0}]
    BY <1>1
  <2>2. uotFlows \in [Addresses -> 0..UotMaxFlows]
    BY <1>1, UotConstants
  <2>. QED BY <1>1, <1>2, <2>1, <2>2, UotConstants DEF UotTypes
<1>4. TableKept
  BY <1>1, <1>2 DEF TableKept
<1>5. \A f \in Uot!Flows : Uot!Held(f) = {}
  BY <1>1, BytesEmpty DEF Uot!Held
<1>6. Queued = {}
  BY <1>5 DEF Queued
<1>8. IsFiniteSet({}) /\ Cardinality({}) = 0
  BY FS_EmptySet
<1>9. 0 <= QueueBytes
  BY UotConstants
<1>7. BytesKept
  BY <1>1, <1>5, <1>6, <1>8, <1>9 DEF BytesKept
<1>. QED BY <1>3, <1>4, <1>7 DEF UotInv

LEMMA UotStep == UotInv /\ [Next]_vars => UotInv'
<1> SUFFICES ASSUME UotInv, [Next]_vars PROVE UotInv'
  OBVIOUS
<1>1. CASE Uot!Next
  <2>1. CASE \E a \in Addresses : (\E c \in Costs : Uot!Enqueue(a, c)) \/ Uot!Expire(a)
    BY <2>1, EnqueueOld, EnqueueNew, ExpireUot
  <2>2. CASE \E f \in Uot!Made : Uot!FlowStep(f) \/ Uot!ReaderStep(f) \/ Uot!StreamCloses(f)
    BY <2>2, OpenedUot, Next1Uot, WrittenUot, CancelledUot, LeaveUot, OfTheStream DEF Uot!FlowStep
  <2>. QED BY <1>1, <2>1, <2>2, StopUot DEF Uot!Next
<1>2. CASE UNCHANGED uotVars
  <2>1. UNCHANGED <<uotFlows, flow, queue, writing, queuedBytes>>
    BY <1>2 DEF uotVars
  <2>2. UotTypes'
    BY <2>1 DEF UotInv, UotTypes, Uot!Flows
  <2>3. TableKept'
    BY <2>1 DEF UotInv, TableKept, Uot!Flows, Uot!Made
  <2>4. \A f : Uot!Held(f)' = Uot!Held(f)
    BY <2>1 DEF Uot!Held
  <2>5. Queued' = Queued
    BY <2>4 DEF Queued, Uot!Flows
  <2>6. BytesKept'
    BY <2>1, <2>4, <2>5 DEF UotInv, BytesKept, Uot!Flows
  <2>. QED BY <2>2, <2>3, <2>6 DEF UotInv
<1>3. Uot!Next \/ UNCHANGED uotVars
  BY DEF Next, vars, OfUdp, OfProduct, OfUot, OfPackets, OfServer, OfReceive
<1>. QED BY <1>1, <1>2, <1>3

LEMMA UotAgrees == UotInv => Uot!TypeOK /\ Uot!BytesAgree /\ Uot!OneFlow
<1> SUFFICES ASSUME UotInv PROVE Uot!TypeOK /\ Uot!BytesAgree /\ Uot!OneFlow
  OBVIOUS
<1>1. \A f \in Uot!Made : flow[f].at \in {"opening", "ready", "writing", "leaving", "ended"}
  <2>1. \A f \in Uot!Made : flow[f] \in UotFlow
    BY UotKnown DEF UotInv
  <2>. QED BY <2>1 DEF UotFlow
<1>2. Uot!TypeOK
  BY <1>1 DEF UotInv, UotTypes, Uot!TypeOK
<1>3. Uot!BytesAgree
  BY UotConstants DEF UotInv, BytesKept, Queued, Uot!BytesAgree
<1>4. Uot!OneFlow
  BY DEF UotInv, TableKept, Uot!OneFlow
<1>. QED BY <1>2, <1>3, <1>4

-----------------------------------------------------------------------------
(* The receive path: what is in flight, with a handler of DATA, in a page, *)
(* and offered to the reader.                                              *)

Handler == [at : {"none", "claimed", "storing", "stored"}, data : SUBSET Receive!Bytes(0, Total), added : Nat]
AppReader ==
  [at : {"read", "copying", "copied", "asleep", "eof", "error", "violation"}, from : Nat, n : Nat]

ReceiveTypes ==
  /\ flight \subseteq Frames /\ recvHandler \in [Handlers -> Handler]
  /\ present \subseteq Receive!Bytes(0, Total) /\ pages \subseteq Receive!PagesOf(Receive!Bytes(0, Total))
  /\ allocated \in 0..MaxPages /\ buffered \in Nat
  /\ rxHigh \in 0..Total /\ rxContiguous \in 0..Total /\ rxRead \in 0..Total
  /\ rxFIN \in {Receive!NotFinal, Total}
  /\ rxStopped \in BOOLEAN /\ closed \in BOOLEAN /\ over \in BOOLEAN
  /\ wake \in BOOLEAN /\ told \in BOOLEAN /\ appReader \in AppReader

Data(h) == recvHandler[h].data
Storing == {h \in Handlers : Receive!At(h) = "storing"}
Stored == {h \in Handlers : Receive!At(h) = "stored"}

(* What has not come is apart from what has, and a byte is with one        *)
(* handler; one handler at a time is between prepare and publish.          *)
DataApart ==
  /\ \A f \in flight : f \cap present = {} /\ \A h \in Handlers : f \cap Data(h) = {}
  /\ \A h, g \in Handlers : h # g => Data(h) \cap Data(g) = {}
  /\ \A h \in Handlers : Receive!At(h) \in {"claimed", "storing"} => Data(h) \cap present = {}
  /\ \A h, g \in Storing \cup Stored : h = g

(* The handler that stores has the pages for itself, so nothing can end    *)
(* the Stream meanwhile; what it stores begins where the reader cannot yet *)
(* see.                                                                    *)
StoreKept ==
  /\ Storing # {} => Receive!Publishes /\ appReader.at # "copying"
  /\ Receive!Publishes =>
       /\ \A h \in Storing \cup Stored : \A b \in Data(h) : b >= rxContiguous
       /\ \A h \in Stored : Data(h) \subseteq present /\ recvHandler[h].added = Cardinality(Data(h))

PagesKept ==
  /\ pages = Receive!PagesOf(present) \cup UNION {Receive!PagesOf(Data(h)) : h \in Storing}
  /\ allocated = Cardinality(pages)
  /\ \A h \in Stored : buffered + Receive!Unpublished(h) = Cardinality(present)
  /\ Stored = {} => buffered = Cardinality(present)

(* The offsets, and what there is of a Stream that is over.                *)
OffsetsKept ==
  /\ rxRead <= rxContiguous /\ rxContiguous <= rxHigh
  /\ Receive!Publishes => /\ Receive!Bytes(rxRead, rxContiguous) \subseteq present
                          /\ \A b \in present : b >= rxRead
  /\ ~Receive!Publishes => present = {} /\ pages = {} /\ buffered = 0
  /\ over => closed

ReaderKept ==
  /\ appReader.at # "violation"
  /\ appReader.at = "copying" => Receive!Publishes
  /\ appReader.at \in {"copying", "copied"} /\ Receive!Publishes =>
       appReader.from = rxRead /\ rxRead + appReader.n <= rxContiguous
  /\ Receive!NoReaderForgotten

ReceiveInv == ReceiveTypes /\ DataApart /\ StoreKept /\ PagesKept /\ OffsetsKept /\ ReaderKept

-----------------------------------------------------------------------------
(* What the choices of the receive path choose.                            *)

LEMMA LeastOf ==
  ASSUME NEW T \in SUBSET Nat, T # {}
  PROVE  \E m \in T : \A k \in T : m <= k
<1>1. PICK R : R = OpToRel(<, Nat)
  OBVIOUS
<1>2. IsWellFoundedOn(R, Nat)
  BY <1>1, NatLessThanWellFounded
<1>3. \A x, y \in Nat : <<y, x>> \in R <=> y < x
  BY <1>1 DEF OpToRel
<1>4. PICK m \in T : \A k \in T : ~ (<<k, m>> \in R)
  BY <1>2, WFMin
<1>5. m \in Nat /\ \A k \in T : k \in Nat
  OBVIOUS
<1>6. \A k \in T : ~ (k < m)
  BY <1>3, <1>4, <1>5
<1>7. \A k \in T : m <= k
  BY <1>5, <1>6
<1>. QED BY <1>7

LEMMA ReceiveConstants ==
  /\ Total \in Nat /\ MaxPages \in Nat /\ ReadSizes \subseteq Nat /\ Receive!NotFinal = -1
  /\ \A f \in Frames : f \subseteq Receive!Bytes(0, Total)
  /\ \A f, g \in Frames : f # g => f \cap g = {}
  /\ \A a, b \in Int : \A x : x \in Receive!Bytes(a, b) <=> x \in Int /\ a <= x /\ x < b
  /\ \A S : Receive!Cardinality(S) = Cardinality(S)
<1>1. /\ Total \in Nat /\ MaxPages \in Nat /\ ReadSizes \subseteq Nat
      /\ \A f \in Frames : f \subseteq 0..(Total - 1)
      /\ \A f, g \in Frames : f # g => f \cap g = {}
  BY ReceiveAssumption
<1>2. \A f \in Frames : f \subseteq Receive!Bytes(0, Total)
  BY <1>1 DEF Receive!Bytes
<1>3. \A a, b \in Int : \A x : x \in Receive!Bytes(a, b) <=> x \in Int /\ a <= x /\ x < b
  BY DEF Receive!Bytes
<1>4. \A S : Receive!Cardinality(S) = Cardinality(S)
  BY DEF Cardinality, Receive!Cardinality
<1>. QED BY <1>1, <1>2, <1>3, <1>4 DEF Receive!NotFinal

(* The bytes of a Stream, and those of a part of it, are finitely many.    *)
LEMMA BytesFinite ==
  ASSUME NEW S \in SUBSET Receive!Bytes(0, Total)
  PROVE  IsFiniteSet(S) /\ Cardinality(S) \in Nat /\ Cardinality(S) <= Total
<1>1. IsFiniteSet(0..(Total - 1)) /\ Cardinality(0..(Total - 1)) = Total
  BY ReceiveConstants, FS_Interval
<1>2. PICK B : B = Receive!Bytes(0, Total)
  OBVIOUS
<1>3. IsFiniteSet(B) /\ Cardinality(B) = Total
  BY <1>1, <1>2 DEF Receive!Bytes
<1>4. IsFiniteSet(S) /\ Cardinality(S) <= Cardinality(B)
  BY <1>2, <1>3, FS_Subset
<1>. QED BY <1>3, <1>4, FS_CardinalityType

(* As many bytes as a reader chose.                                        *)
LEMMA BytesCounted ==
  ASSUME NEW a \in Nat, NEW n \in Nat
  PROVE  IsFiniteSet(Receive!Bytes(a, a + n)) /\ Cardinality(Receive!Bytes(a, a + n)) = n
<1>1. PICK b \in Int : b = a + n - 1
  OBVIOUS
<1>2. Receive!Bytes(a, a + n) = a..b
  BY <1>1 DEF Receive!Bytes
<1>3. IsFiniteSet(a..b) /\ Cardinality(a..b) = (IF a > b THEN 0 ELSE b - a + 1)
  BY FS_Interval
<1>. QED BY <1>1, <1>2, <1>3

LEMMA HighestIs ==
  ASSUME NEW S \in SUBSET Receive!Bytes(0, Total), NEW a \in 0..Total
  PROVE  Receive!Highest(S, a) \in 0..Total /\ Receive!Highest(S, a) >= a
<1> DEFINE T == {b \in 0..Total : b >= a /\ \A c \in S : b > c}
           Fits(b) == b >= a /\ \A c \in S : b > c
           Choices == {c + 1 : c \in S} \cup {a}
<1>1. Total \in Nat /\ \A c \in S : c \in 0..(Total - 1)
  BY ReceiveConstants
<1>2. Total \in T
  BY <1>1
<1>3. PICK m \in T : \A k \in T : m <= k
  <2>1. T \in SUBSET Nat /\ T # {}
    BY <1>1, <1>2
  <2> HIDE DEF T
  <2>. QED BY <2>1, LeastOf
<1>4. m \in Nat /\ m >= a /\ m <= Total /\ \A c \in S : m > c
  BY <1>1
<1>5. m \in Choices
  <2>1. CASE m = a
    BY <2>1
  <2>2. CASE m # a
    <3>1. m - 1 \in 0..Total /\ m - 1 >= a /\ m - 1 \notin T
      BY <2>2, <1>1, <1>3, <1>4
    <3>2. PICK c \in S : ~(m - 1 > c)
      BY <3>1
    <3>3. m = c + 1
      BY <3>2, <1>1, <1>4
    <3>. QED BY <3>3
  <2>. QED BY <2>1, <2>2
<1>6. \E b \in Choices : Fits(b)
  BY <1>4, <1>5
<1>7. Receive!Highest(S, a) = CHOOSE b \in Choices : Fits(b)
  BY DEF Receive!Highest
<1>8. PICK h : h = Receive!Highest(S, a)
  OBVIOUS
<1>9. h \in Choices /\ Fits(h)
  <2> HIDE DEF Choices, Fits
  <2>. QED BY <1>6, <1>7, <1>8
<1>10. h \in 0..Total
  BY <1>1, <1>9
<1>. QED BY <1>8, <1>9, <1>10

LEMMA ContiguousIs ==
  ASSUME ReceiveTypes, rxContiguous <= rxHigh
  PROVE  /\ Receive!Contiguous(rxContiguous) \in rxContiguous..rxHigh
         /\ Receive!Bytes(rxContiguous, Receive!Contiguous(rxContiguous)) \subseteq present
<1> DEFINE a == rxContiguous
           T == {b \in a..rxHigh : b = rxHigh \/ b \notin present}
           Ends(b) == Receive!Bytes(a, b) \subseteq present /\ (b = rxHigh \/ b \notin present)
<1>1. a \in Nat /\ rxHigh \in Nat /\ a <= rxHigh
  BY ReceiveConstants DEF ReceiveTypes
<1>2. PICK m \in T : \A k \in T : m <= k
  <2>1. T \in SUBSET Nat /\ T # {}
    BY <1>1
  <2> HIDE DEF T
  <2>. QED BY <2>1, LeastOf
<1>3. m \in a..rxHigh /\ m \in Nat
  BY <1>1
<1>4. Receive!Bytes(a, m) \subseteq present
  <2> SUFFICES ASSUME NEW x \in Receive!Bytes(a, m), x \notin present PROVE FALSE
    OBVIOUS
  <2>1. x \in Int /\ a <= x /\ x < m
    BY <1>1, <1>3, ReceiveConstants
  <2>2. x \in T
    BY <1>1, <1>3, <2>1
  <2>. QED BY <1>2, <1>3, <2>1, <2>2
<1>5. Ends(m)
  BY <1>2, <1>4
<1>6. \E b \in a..rxHigh : Ends(b)
  BY <1>3, <1>5
<1>7. Receive!Contiguous(a) = CHOOSE b \in a..rxHigh : Ends(b)
  BY DEF Receive!Contiguous
<1>8. Receive!Contiguous(a) \in a..rxHigh /\ Ends(Receive!Contiguous(a))
  <2>1. PICK c : c = Receive!Contiguous(a)
    OBVIOUS
  <2>2. PICK R : R = a..rxHigh
    OBVIOUS
  <2>3. c \in R /\ Ends(c)
    <3> HIDE DEF a, Ends
    <3>. QED BY <1>6, <1>7, <2>1, <2>2
  <2>. QED BY <2>1, <2>2, <2>3
<1>. QED BY <1>8

-----------------------------------------------------------------------------
(* The pages of bytes.                                                     *)

LEMMA PagesUnion ==
  /\ Receive!PagesOf({}) = {}
  /\ \A S, T : Receive!PagesOf(S \cup T) = Receive!PagesOf(S) \cup Receive!PagesOf(T)
  /\ \A S, T : S \subseteq T => Receive!PagesOf(S) \subseteq Receive!PagesOf(T)
BY DEF Receive!PagesOf

LEMMA PagesFinite ==
  ASSUME NEW S \in SUBSET Receive!PagesOf(Receive!Bytes(0, Total))
  PROVE  IsFiniteSet(S) /\ Cardinality(S) \in Nat
<1>1. PICK B : B = Receive!Bytes(0, Total)
  OBVIOUS
<1>2. IsFiniteSet(B)
  BY <1>1, BytesFinite
<1>3. PICK p : p = [b \in B |-> b \div PageSize]
  OBVIOUS
<1>4. PICK P : P = {p[b] : b \in B}
  OBVIOUS
<1>5. Receive!PagesOf(B) = P
  BY <1>3, <1>4 DEF Receive!PagesOf
<1>6. p \in Surjection(B, P)
  BY <1>3, <1>4 DEF Surjection
<1>7. IsFiniteSet(P)
  BY <1>2, <1>6, FS_Surjection
<1>8. IsFiniteSet(S)
  BY <1>1, <1>5, <1>7, FS_Subset
<1>. QED BY <1>8, FS_CardinalityType

-----------------------------------------------------------------------------
(* Steps of the reader alone.                                              *)

LEMMA HandlersKnown ==
  ASSUME ReceiveTypes, NEW h \in Handlers
  PROVE  /\ recvHandler[h] \in Handler /\ Data(h) \in SUBSET Receive!Bytes(0, Total)
         /\ Data(h) \in SUBSET Nat /\ Receive!At(h) \in {"none", "claimed", "storing", "stored"}
         /\ Receive!At(h) = recvHandler[h].at
<1>1. recvHandler[h] \in Handler
  BY DEF ReceiveTypes
<1>2. Data(h) \in SUBSET Receive!Bytes(0, Total) /\ recvHandler[h].at \in {"none", "claimed", "storing", "stored"}
  BY <1>1 DEF Handler, Data
<1>3. Receive!Bytes(0, Total) \subseteq Nat
  BY ReceiveConstants
<1>. QED BY <1>1, <1>2, <1>3 DEF Receive!At

LEMMA ReaderAlone ==
  ASSUME ReceiveInv,
         UNCHANGED <<flight, recvHandler, present, pages, allocated, buffered, rxHigh, rxContiguous, rxRead,
                     rxFIN, rxStopped, closed, over>>,
         appReader' \in AppReader, wake' \in BOOLEAN, told' \in BOOLEAN, ReaderKept',
         appReader'.at = "copying" => Storing = {}
  PROVE  ReceiveInv'
<1>1. ReceiveTypes'
  BY DEF ReceiveInv, ReceiveTypes
<1>2. /\ Storing' = Storing /\ Stored' = Stored /\ Receive!Publishes' = Receive!Publishes
      /\ \A h : Data(h)' = Data(h) /\ Receive!At(h)' = Receive!At(h) /\ Receive!Unpublished(h)' = Receive!Unpublished(h)
  BY DEF Storing, Stored, Data, Receive!At, Receive!Publishes, Receive!Unpublished
<1>3. DataApart'
  BY <1>2 DEF ReceiveInv, DataApart
<1>4. StoreKept'
  BY <1>2 DEF ReceiveInv, StoreKept
<1>5. PagesKept'
  <2>1. pages' = Receive!PagesOf(present') \cup UNION {Receive!PagesOf(Data(h)') : h \in Storing'}
    BY <1>2 DEF ReceiveInv, PagesKept
  <2>2. \A h \in Stored' : buffered' + Receive!Unpublished(h)' = Cardinality(present')
    BY <1>2 DEF ReceiveInv, PagesKept
  <2>3. allocated' = Cardinality(pages') /\ (Stored' = {} => buffered' = Cardinality(present'))
    BY <1>2 DEF ReceiveInv, PagesKept
  <2>. QED BY <2>1, <2>2, <2>3 DEF PagesKept
<1>6. OffsetsKept'
  BY <1>2 DEF ReceiveInv, OffsetsKept
<1>. QED BY <1>1, <1>3, <1>4, <1>5, <1>6 DEF ReceiveInv

LEMMA StoringIs ==
  /\ Receive!PagesFree => Storing = {} /\ appReader.at # "copying"
  /\ Receive!OpFree => Storing = {} /\ Stored = {}
BY DEF Receive!PagesFree, Receive!OpFree, Storing, Stored

LEMMA AvailableIs ==
  ASSUME ReceiveTypes, OffsetsKept
  PROVE  /\ Receive!Available \in Nat /\ Receive!Available = rxContiguous - rxRead
         /\ rxRead \in Nat /\ rxContiguous \in Nat /\ rxHigh \in Nat /\ rxRead <= rxContiguous
BY ReceiveConstants DEF ReceiveTypes, OffsetsKept, Receive!Available

LEMMA ReadKeeps == ReceiveInv /\ Receive!Read => ReceiveInv'
<1> SUFFICES ASSUME ReceiveInv, Receive!Read PROVE ReceiveInv'
  OBVIOUS
<1>1. UNCHANGED <<flight, recvHandler, present, pages, allocated, buffered, rxHigh, rxContiguous, rxRead,
                  rxFIN, rxStopped, closed, over>>
  BY DEF Receive!Read, Receive!pageVars, Receive!offsetVars, Receive!endVars
<1>2. /\ Receive!Available \in Nat /\ Receive!Available = rxContiguous - rxRead
      /\ rxRead \in Nat /\ rxContiguous \in Nat /\ wake \in BOOLEAN /\ told \in BOOLEAN
  BY AvailableIs DEF ReceiveInv, ReceiveTypes
<1>3. Receive!Publishes' = Receive!Publishes /\ Receive!Available' = Receive!Available
  BY <1>1 DEF Receive!Publishes, Receive!Available
<1>4. CASE \E at \in {"error", "eof"} : appReader' = [Receive!Reading EXCEPT !.at = at] /\ UNCHANGED <<wake, told>>
  <2>1. appReader' \in AppReader /\ appReader'.at \in {"error", "eof"}
    BY <1>4 DEF AppReader, Receive!Reading
  <2>2. ReaderKept'
    BY <2>1 DEF ReaderKept, Receive!NoReaderForgotten
  <2>. QED BY <1>1, <1>2, <1>4, <2>1, <2>2, ReaderAlone
<1>5. CASE /\ Receive!Publishes /\ Receive!PagesFree /\ UNCHANGED <<wake, told>>
           /\ \E size \in ReadSizes :
                appReader' = [at |-> "copying", from |-> rxRead, n |-> Receive!Least(size, Receive!Available)]
  <2>1. PICK size \in ReadSizes :
          appReader' = [at |-> "copying", from |-> rxRead, n |-> Receive!Least(size, Receive!Available)]
    BY <1>5
  <2>2. PICK n \in Nat : n = Receive!Least(size, Receive!Available) /\ n <= Receive!Available
    BY <1>2, ReceiveConstants DEF Receive!Least
  <2>3. appReader' \in AppReader /\ appReader'.at = "copying" /\ appReader'.from = rxRead /\ appReader'.n = n
    BY <1>2, <2>1, <2>2 DEF AppReader
  <2>4. rxRead + n <= rxContiguous
    BY <1>2, <2>2
  <2>5. ReaderKept'
    BY <1>1, <1>3, <1>5, <2>3, <2>4 DEF ReaderKept, Receive!NoReaderForgotten
  <2>. QED BY <1>1, <1>2, <1>5, <2>3, <2>5, StoringIs, ReaderAlone
<1>6. CASE /\ ~closed /\ ~rxStopped /\ Receive!Available = 0 /\ (rxFIN = Receive!NotFinal \/ rxRead # rxFIN)
           /\ Receive!Sleeps
  <2>1. appReader' \in AppReader /\ appReader'.at = "asleep" /\ wake' = FALSE /\ told' = FALSE
    BY <1>6 DEF AppReader, Receive!Reading, Receive!Sleeps
  <2>2. rxRead # rxFIN
    BY <1>2, <1>6, ReceiveConstants
  <2>3. ReaderKept'
    BY <1>1, <1>3, <1>6, <2>1, <2>2 DEF ReaderKept, Receive!NoReaderForgotten
  <2>. QED BY <1>1, <2>1, <2>3, ReaderAlone
<1>. QED BY <1>4, <1>5, <1>6 DEF Receive!Read, Receive!Publishes

LEMMA WakeKeeps == ReceiveInv /\ Receive!Wake => ReceiveInv'
<1> SUFFICES ASSUME ReceiveInv, Receive!Wake PROVE ReceiveInv'
  OBVIOUS
<1>1. /\ UNCHANGED <<flight, recvHandler, present, pages, allocated, buffered, rxHigh, rxContiguous, rxRead,
                     rxFIN, rxStopped, closed, over>>
      /\ appReader' = Receive!Reading /\ wake' = FALSE /\ told' = FALSE
  BY DEF Receive!Wake, Receive!pageVars, Receive!offsetVars, Receive!endVars
<1>2. appReader' \in AppReader /\ appReader'.at = "read"
  BY <1>1 DEF AppReader, Receive!Reading
<1>3. ReaderKept'
  BY <1>2 DEF ReaderKept, Receive!NoReaderForgotten
<1>. QED BY <1>1, <1>2, <1>3, ReaderAlone

(* What the reader chose is there.                                         *)
LEMMA ChosenIs ==
  ASSUME ReceiveInv, appReader.at \in {"copying", "copied"}, Receive!Publishes
  PROVE  /\ appReader.from = rxRead /\ appReader.n \in Nat /\ rxRead + appReader.n <= rxContiguous
         /\ Receive!Chosen = Receive!Bytes(rxRead, rxRead + appReader.n)
         /\ Receive!Chosen \subseteq Receive!Bytes(rxRead, rxContiguous) /\ Receive!Chosen \subseteq present
<1>1. appReader.from = rxRead /\ rxRead + appReader.n <= rxContiguous
  BY DEF ReceiveInv, ReaderKept
<1>2. appReader.n \in Nat
  BY DEF ReceiveInv, ReceiveTypes, AppReader
<1>3. Receive!Chosen = Receive!Bytes(rxRead, rxRead + appReader.n)
  BY <1>1 DEF Receive!Chosen
<1>4. Receive!Bytes(rxRead, rxContiguous) \subseteq present
  BY DEF ReceiveInv, OffsetsKept
<1>5. rxRead \in Int /\ rxContiguous \in Int
  BY AvailableIs DEF ReceiveInv
<1>6. PICK m \in Int : m = rxRead + appReader.n
  BY <1>2, <1>5
<1>7. Receive!Bytes(rxRead, m) \subseteq Receive!Bytes(rxRead, rxContiguous)
  BY <1>1, <1>5, <1>6, ReceiveConstants
<1>. QED BY <1>1, <1>2, <1>3, <1>4, <1>6, <1>7

LEMMA CopyKeeps == ReceiveInv /\ Receive!Copy => ReceiveInv'
<1> SUFFICES ASSUME ReceiveInv, Receive!Copy PROVE ReceiveInv'
  OBVIOUS
<1>1. /\ UNCHANGED <<flight, recvHandler, present, pages, allocated, buffered, rxHigh, rxContiguous, rxRead,
                     rxFIN, rxStopped, closed, over, wake, told>>
      /\ appReader.at = "copying"
  BY DEF Receive!Copy, Receive!pageVars, Receive!offsetVars, Receive!endVars
<1>2. Receive!Publishes
  BY <1>1 DEF ReceiveInv, ReaderKept
<1>3. Receive!Chosen \subseteq present
  BY <1>1, <1>2, ChosenIs
<1>4. appReader' = [appReader EXCEPT !.at = "copied"] /\ appReader \in AppReader
  BY <1>3 DEF Receive!Copy, ReceiveInv, ReceiveTypes
<1>5. appReader' \in AppReader /\ appReader'.at = "copied" /\ appReader'.from = appReader.from /\ appReader'.n = appReader.n
  BY <1>4 DEF AppReader
<1>6. appReader.from = rxRead /\ rxRead + appReader.n <= rxContiguous
  BY <1>1, <1>2, ChosenIs
<1>7. ReaderKept'
  BY <1>1, <1>5, <1>6 DEF ReaderKept, Receive!NoReaderForgotten
<1>8. wake \in BOOLEAN /\ told \in BOOLEAN
  BY DEF ReceiveInv, ReceiveTypes
<1>. QED BY <1>1, <1>5, <1>7, <1>8, ReaderAlone

-----------------------------------------------------------------------------
(* What ends a Stream gives back every page.                               *)

LEMMA EndKeeps ==
  ASSUME ReceiveInv, Receive!PagesFree, Receive!Released, ~Receive!Publishes',
         UNCHANGED <<flight, appReader>>, DOMAIN recvHandler' = Handlers,
         \A h \in Handlers : recvHandler'[h] = recvHandler[h] \/ recvHandler'[h] = Receive!None,
         recvHandler' \in [Handlers -> Handler],
         rxRead' \in 0..Total, rxContiguous' \in 0..Total, rxHigh' \in 0..Total,
         rxRead' <= rxContiguous', rxContiguous' <= rxHigh', rxFIN' \in {Receive!NotFinal, Total},
         closed' \in BOOLEAN, rxStopped' \in BOOLEAN, over' \in BOOLEAN, over' => closed',
         wake' \in BOOLEAN, told' \in BOOLEAN, wake' \/ told'
  PROVE  ReceiveInv'
<1>1. /\ present' = {} /\ pages' = {} /\ buffered' = 0
      /\ allocated' = allocated - Cardinality(pages)
  BY ReceiveConstants DEF Receive!Released
<1>2. allocated' = 0
  BY <1>1, ReceiveConstants DEF ReceiveInv, PagesKept, ReceiveTypes
<1>3. IsFiniteSet({}) /\ Cardinality({}) = 0
  BY FS_EmptySet
<1>4. ReceiveTypes'
  <2>1. flight' \subseteq Frames /\ appReader' \in AppReader /\ allocated' \in 0..MaxPages /\ buffered' \in Nat
    BY <1>1, <1>2, ReceiveConstants DEF ReceiveInv, ReceiveTypes
  <2>. QED BY <1>1, <2>1 DEF ReceiveTypes
<1>5. \A h \in Handlers : Data(h)' = Data(h) \/ Data(h)' = {}
  BY DEF Data, Receive!None
<1>6. \A h \in Handlers : Receive!At(h)' = Receive!At(h) \/ Receive!At(h)' = "none"
  BY DEF Receive!At, Receive!None
<1>7. Storing' = {} /\ Stored' \subseteq Stored
  BY <1>6, StoringIs DEF Storing, Stored
<1>8. DataApart'
  BY <1>1, <1>5, <1>7 DEF ReceiveInv, DataApart
<1>9. StoreKept'
  BY <1>7 DEF StoreKept
<1>10. \A h \in Stored' : Receive!Unpublished(h)' = 0
  BY DEF Receive!Unpublished
<1>11. PagesKept'
  <2>1. pages' = Receive!PagesOf(present') \cup UNION {Receive!PagesOf(Data(h)') : h \in Storing'}
    <3>1. UNION {Receive!PagesOf(Data(h)') : h \in Storing'} = {}
      BY <1>7
    <3>2. Receive!PagesOf(present') = {}
      BY <1>1, PagesUnion
    <3>. QED BY <1>1, <3>1, <3>2
  <2>2. \A h \in Stored' : buffered' + Receive!Unpublished(h)' = Cardinality(present')
    BY <1>1, <1>3, <1>10
  <2>3. allocated' = Cardinality(pages') /\ buffered' = Cardinality(present')
    BY <1>1, <1>2, <1>3
  <2>. QED BY <2>1, <2>2, <2>3 DEF PagesKept
<1>12. OffsetsKept'
  BY <1>1 DEF OffsetsKept
<1>13. ReaderKept'
  BY StoringIs DEF ReceiveInv, ReaderKept, Receive!NoReaderForgotten
<1>. QED BY <1>4, <1>8, <1>9, <1>11, <1>12, <1>13 DEF ReceiveInv

(* Discarding up to an offset that is not behind.                          *)
LEMMA DiscardKeeps ==
  ASSUME ReceiveInv, NEW high \in 0..Total, Receive!Discard(high), rxHigh' = high, ~Receive!Publishes',
         UNCHANGED <<flight, appReader>>, DOMAIN recvHandler' = Handlers,
         \A h \in Handlers : recvHandler'[h] = recvHandler[h] \/ recvHandler'[h] = Receive!None,
         recvHandler' \in [Handlers -> Handler], rxFIN' \in {Receive!NotFinal, Total},
         closed' \in BOOLEAN, rxStopped' \in BOOLEAN, over' \in BOOLEAN, over' => closed',
         wake' \in BOOLEAN, told' \in BOOLEAN, wake' \/ told'
  PROVE  ReceiveInv'
<1>1. /\ Receive!PagesFree /\ Receive!Released /\ rxRead' = high /\ rxContiguous' = high
  BY DEF Receive!Discard
<1>2. high <= high
  BY ReceiveConstants
<1>. QED BY <1>1, <1>2, EndKeeps

LEMMA EndTypes ==
  ASSUME ReceiveInv
  PROVE  /\ DOMAIN recvHandler = Handlers /\ recvHandler \in [Handlers -> Handler]
         /\ rxFIN \in {Receive!NotFinal, Total} /\ rxHigh \in 0..Total /\ rxContiguous \in 0..Total /\ rxRead \in 0..Total
         /\ closed \in BOOLEAN /\ rxStopped \in BOOLEAN /\ over \in BOOLEAN /\ (over => closed)
         /\ wake \in BOOLEAN /\ told \in BOOLEAN /\ Total \in 0..Total /\ Total \in Nat
<1>1. /\ recvHandler \in [Handlers -> Handler] /\ (over => closed)
      /\ rxFIN \in {Receive!NotFinal, Total} /\ rxHigh \in 0..Total /\ rxContiguous \in 0..Total /\ rxRead \in 0..Total
      /\ closed \in BOOLEAN /\ rxStopped \in BOOLEAN /\ over \in BOOLEAN /\ wake \in BOOLEAN /\ told \in BOOLEAN
  BY DEF ReceiveInv, ReceiveTypes, OffsetsKept
<1>2. Total \in 0..Total /\ Total \in Nat
  BY ReceiveConstants
<1>. QED BY <1>1, <1>2

LEMMA RecvResetKeeps == ReceiveInv /\ Receive!RecvReset => ReceiveInv'
<1> SUFFICES ASSUME ReceiveInv, Receive!RecvReset PROVE ReceiveInv'
  OBVIOUS
<1>1. /\ rxFIN' = Total /\ rxHigh' = Total /\ rxStopped' = TRUE /\ Receive!Discard(Total) /\ told' = TRUE
      /\ UNCHANGED <<flight, recvHandler, closed, over, appReader, wake>>
  BY DEF Receive!RecvReset, Receive!WakesAll
<1>2. ~Receive!Publishes'
  BY <1>1 DEF Receive!Publishes
<1>. QED BY <1>1, <1>2, EndTypes, DiscardKeeps

LEMMA CloseReadKeeps == ReceiveInv /\ Receive!CloseRead => ReceiveInv'
<1> SUFFICES ASSUME ReceiveInv, Receive!CloseRead PROVE ReceiveInv'
  OBVIOUS
<1>1. /\ rxStopped' = TRUE /\ Receive!Discard(rxHigh) /\ told' = TRUE
      /\ UNCHANGED <<flight, recvHandler, rxHigh, rxFIN, closed, over, appReader, wake>>
  BY DEF Receive!CloseRead, Receive!WakesAll
<1>2. ~Receive!Publishes'
  BY <1>1 DEF Receive!Publishes
<1>. QED BY <1>1, <1>2, EndTypes, DiscardKeeps

LEMMA CloseKeeps == ReceiveInv /\ Receive!Close => ReceiveInv'
<1> SUFFICES ASSUME ReceiveInv, Receive!Close PROVE ReceiveInv'
  OBVIOUS
<1>1. /\ closed' = TRUE /\ told' = TRUE /\ UNCHANGED <<flight, recvHandler, rxHigh, rxFIN, over, appReader, wake>>
  BY DEF Receive!Close, Receive!WakesAll
<1>2. ~Receive!Publishes'
  BY <1>1 DEF Receive!Publishes
<1>3. CASE Receive!PagesFree /\ Receive!Released /\ UNCHANGED <<rxStopped, rxContiguous, rxRead>>
  <2>1. rxRead' <= rxContiguous' /\ rxContiguous' <= rxHigh'
    BY <1>1, <1>3 DEF ReceiveInv, OffsetsKept
  <2>. QED BY <1>1, <1>2, <1>3, <2>1, EndTypes, EndKeeps
<1>4. CASE rxStopped' = TRUE /\ Receive!Discard(rxHigh)
  BY <1>1, <1>2, <1>4, EndTypes, DiscardKeeps
<1>. QED BY <1>3, <1>4 DEF Receive!Close

LEMMA SessionStopsKeeps == ReceiveInv /\ Receive!SessionStops => ReceiveInv'
<1> SUFFICES ASSUME ReceiveInv, Receive!SessionStops PROVE ReceiveInv'
  OBVIOUS
<1>1. /\ over' = TRUE /\ closed' = TRUE /\ Receive!PagesFree /\ Receive!Released /\ told' = TRUE
      /\ UNCHANGED <<flight, recvHandler, rxHigh, rxContiguous, rxRead, rxFIN, rxStopped, appReader, wake>>
  BY DEF Receive!SessionStops, Receive!WakesAll, Receive!offsetVars
<1>2. ~Receive!Publishes'
  BY <1>1 DEF Receive!Publishes
<1>3. rxRead' <= rxContiguous' /\ rxContiguous' <= rxHigh'
  BY <1>1 DEF ReceiveInv, OffsetsKept
<1>. QED BY <1>1, <1>2, <1>3, EndTypes, EndKeeps

-----------------------------------------------------------------------------
(* Steps of the handlers of DATA.                                          *)

LEMMA HandlerChanges ==
  ASSUME ReceiveTypes, NEW h \in Handlers, NEW r \in Handler, recvHandler' = [recvHandler EXCEPT ![h] = r]
  PROVE  /\ recvHandler' \in [Handlers -> Handler] /\ recvHandler'[h] = r /\ Data(h)' = r.data /\ Receive!At(h)' = r.at
         /\ \A g \in Handlers : g # h =>
              recvHandler'[g] = recvHandler[g] /\ Data(g)' = Data(g) /\ Receive!At(g)' = Receive!At(g)
         /\ \A g \in Handlers : g # h => (g \in Storing' <=> g \in Storing) /\ (g \in Stored' <=> g \in Stored)
         /\ h \in Storing' <=> r.at = "storing"
         /\ h \in Stored' <=> r.at = "stored"
<1>1. recvHandler \in [Handlers -> Handler]
  BY DEF ReceiveTypes
<1>2. /\ recvHandler' \in [Handlers -> Handler] /\ recvHandler'[h] = r
      /\ \A g \in Handlers : g # h => recvHandler'[g] = recvHandler[g]
  BY <1>1
<1>3. /\ Data(h)' = r.data /\ Receive!At(h)' = r.at
      /\ \A g \in Handlers : g # h => Data(g)' = Data(g) /\ Receive!At(g)' = Receive!At(g)
  BY <1>2 DEF Data, Receive!At
<1>4. /\ \A g \in Handlers : g \in Storing' <=> Receive!At(g)' = "storing"
      /\ \A g \in Handlers : g \in Stored' <=> Receive!At(g)' = "stored"
      /\ \A g \in Handlers : g \in Storing <=> Receive!At(g) = "storing"
      /\ \A g \in Handlers : g \in Stored <=> Receive!At(g) = "stored"
  BY DEF Storing, Stored
<1>. QED BY <1>2, <1>3, <1>4

LEMMA NobodyForgotten ==
  ASSUME Receive!NoReaderForgotten, appReader' = appReader, wake => wake', told => told',
         appReader.at = "asleep" /\ ~wake /\ ~told /\ ~wake' /\ ~told' =>
           Receive!Available' = Receive!Available /\ UNCHANGED <<closed, rxStopped, rxRead, rxFIN>>
  PROVE  Receive!NoReaderForgotten'
BY DEF Receive!NoReaderForgotten

(* A frame that nobody stores yet changes hands.                           *)
LEMMA HandlerAlone ==
  ASSUME ReceiveInv, NEW h \in Handlers, NEW r \in Handler, recvHandler' = [recvHandler EXCEPT ![h] = r],
         Receive!At(h) \in {"none", "claimed"}, r.at \in {"none", "claimed"}, flight' \subseteq Frames, DataApart',
         UNCHANGED <<present, pages, allocated, buffered, rxHigh, rxContiguous, rxRead,
                     rxFIN, rxStopped, closed, over, appReader, told>>,
         wake' \in BOOLEAN, wake => wake'
  PROVE  ReceiveInv'
<1>1. ReceiveTypes /\ StoreKept /\ PagesKept /\ OffsetsKept /\ ReaderKept
  BY DEF ReceiveInv
<1>2. /\ recvHandler' \in [Handlers -> Handler]
      /\ \A g \in Handlers : g # h =>
           recvHandler'[g] = recvHandler[g] /\ Data(g)' = Data(g) /\ Receive!At(g)' = Receive!At(g)
      /\ \A g \in Handlers : g # h => (g \in Storing' <=> g \in Storing) /\ (g \in Stored' <=> g \in Stored)
      /\ h \notin Storing' /\ h \notin Stored'
  BY <1>1, HandlerChanges
<1>3. h \notin Storing /\ h \notin Stored /\ Storing \subseteq Handlers /\ Stored \subseteq Handlers
      /\ Storing' \subseteq Handlers /\ Stored' \subseteq Handlers
  BY DEF Storing, Stored
<1>4. Storing' = Storing /\ Stored' = Stored
  BY <1>2, <1>3
<1>5. \A g \in Storing \cup Stored : recvHandler'[g] = recvHandler[g] /\ Data(g)' = Data(g)
                                     /\ Receive!At(g)' = Receive!At(g)
  BY <1>2, <1>3
<1>6. Receive!Publishes' = Receive!Publishes
  BY DEF Receive!Publishes
<1>7. ReceiveTypes'
  BY <1>1, <1>2 DEF ReceiveTypes
<1>8. StoreKept'
  BY <1>1, <1>4, <1>5, <1>6 DEF StoreKept
<1>9. PagesKept'
  <2>1. \A g \in Stored : Receive!Unpublished(g)' = Receive!Unpublished(g)
    BY <1>5, <1>6 DEF Receive!Unpublished
  <2>2. UNION {Receive!PagesOf(Data(g)') : g \in Storing'} = UNION {Receive!PagesOf(Data(g)) : g \in Storing}
    BY <1>4, <1>5
  <2>3. pages' = Receive!PagesOf(present') \cup UNION {Receive!PagesOf(Data(g)') : g \in Storing'}
    BY <1>1, <2>2 DEF PagesKept
  <2>4. /\ allocated' = Cardinality(pages') /\ (Stored' = {} => buffered' = Cardinality(present'))
        /\ \A g \in Stored' : buffered' + Receive!Unpublished(g)' = Cardinality(present')
    BY <1>1, <1>4, <2>1 DEF PagesKept
  <2>. QED BY <2>3, <2>4 DEF PagesKept
<1>10. OffsetsKept'
  BY <1>1, <1>6 DEF OffsetsKept
<1>11. ReaderKept'
  <2>1. Receive!NoReaderForgotten'
    BY <1>1, NobodyForgotten DEF ReaderKept, Receive!Available
  <2>. QED BY <1>1, <1>6, <2>1 DEF ReaderKept
<1>. QED BY <1>7, <1>8, <1>9, <1>10, <1>11 DEF ReceiveInv

LEMMA ClaimKeeps ==
  ASSUME ReceiveInv, NEW h \in Handlers, NEW f \in flight, Receive!Claim(h, f)
  PROVE  ReceiveInv'
<1>1. PICK r : r = [at |-> "claimed", data |-> f, added |-> 0]
  OBVIOUS
<1>2. /\ flight' = flight \ {f} /\ recvHandler' = [recvHandler EXCEPT ![h] = r] /\ Receive!At(h) = "none"
      /\ UNCHANGED <<present, pages, allocated, buffered, rxHigh, rxContiguous, rxRead,
                     rxFIN, rxStopped, closed, over, appReader, wake, told>>
  BY <1>1 DEF Receive!Claim, Receive!pageVars, Receive!offsetVars, Receive!endVars, Receive!readVars
<1>3. flight \subseteq Frames /\ f \in Frames /\ f \subseteq Receive!Bytes(0, Total)
  BY ReceiveConstants DEF ReceiveInv, ReceiveTypes
<1>4. r \in Handler /\ r.at = "claimed" /\ r.data = f
  BY <1>1, <1>3 DEF Handler
<1>5. /\ Data(h)' = f /\ Receive!At(h)' = "claimed"
      /\ \A g \in Handlers : g # h => Data(g)' = Data(g) /\ Receive!At(g)' = Receive!At(g)
      /\ \A g \in Handlers : g # h => (g \in Storing' <=> g \in Storing) /\ (g \in Stored' <=> g \in Stored)
      /\ h \notin Storing' /\ h \notin Stored'
  BY <1>2, <1>4, HandlerChanges DEF ReceiveInv
<1>6. DataApart'
  <2>1. \A d \in flight' : d \cap present' = {} /\ \A g \in Handlers : d \cap Data(g)' = {}
    <3>1. \A d \in flight' : d \in flight /\ d \in Frames /\ d # f /\ d \cap f = {}
      BY <1>2, <1>3, ReceiveConstants
    <3>. QED BY <1>2, <1>5, <3>1 DEF ReceiveInv, DataApart
  <2>2. \A g \in Handlers : g # h => f \cap Data(g) = {}
    BY DEF ReceiveInv, DataApart
  <2>3. \A g, k \in Handlers : g # k => Data(g)' \cap Data(k)' = {}
    BY <1>5, <2>2 DEF ReceiveInv, DataApart
  <2>4. \A g \in Handlers : Receive!At(g)' \in {"claimed", "storing"} => Data(g)' \cap present' = {}
    BY <1>2, <1>5 DEF ReceiveInv, DataApart
  <2>5. \A g, k \in Storing' \cup Stored' : g = k
    <3>1. Storing' \cup Stored' \subseteq Storing \cup Stored
      BY <1>5 DEF Storing, Stored
    <3>. QED BY <3>1 DEF ReceiveInv, DataApart
  <2>. QED BY <2>1, <2>3, <2>4, <2>5 DEF DataApart
<1>7. wake' \in BOOLEAN
  BY <1>2, EndTypes
<1>. QED BY <1>2, <1>3, <1>4, <1>6, <1>7, HandlerAlone

(* A handler that is done with its frame.                                  *)
LEMMA DoneIs ==
  ASSUME ReceiveInv, NEW h \in Handlers, Receive!Done(h)
  PROVE  /\ recvHandler' = [recvHandler EXCEPT ![h] = Receive!None] /\ Receive!None \in Handler
         /\ Receive!None.at = "none" /\ Receive!None.data = {}
         /\ recvHandler' \in [Handlers -> Handler] /\ DOMAIN recvHandler' = Handlers
         /\ \A g \in Handlers : recvHandler'[g] = recvHandler[g] \/ recvHandler'[g] = Receive!None
<1>1. recvHandler' = [recvHandler EXCEPT ![h] = Receive!None]
  BY DEF Receive!Done
<1>2. Receive!None \in Handler /\ Receive!None.at = "none" /\ Receive!None.data = {}
  BY DEF Receive!None, Handler
<1>3. recvHandler \in [Handlers -> Handler]
  BY DEF ReceiveInv, ReceiveTypes
<1>. QED BY <1>1, <1>2, <1>3

LEMMA IgnoreKeeps ==
  ASSUME ReceiveInv, NEW h \in Handlers, Receive!At(h) = "claimed", Receive!Ignore(h), UNCHANGED <<flight, appReader>>
  PROVE  ReceiveInv'
<1>1. /\ Receive!Done(h) /\ wake' = (wake \/ ~closed)
      /\ UNCHANGED <<present, pages, allocated, buffered, rxHigh, rxContiguous, rxRead,
                     rxFIN, rxStopped, closed, over, told>>
  BY DEF Receive!Ignore, Receive!pageVars, Receive!offsetVars, Receive!endVars
<1>2. /\ recvHandler' = [recvHandler EXCEPT ![h] = Receive!None] /\ Receive!None \in Handler
      /\ Receive!None.at = "none" /\ Receive!None.data = {}
  BY <1>1, DoneIs
<1>3. /\ Data(h)' = {} /\ Receive!At(h)' = "none"
      /\ \A g \in Handlers : g # h => Data(g)' = Data(g) /\ Receive!At(g)' = Receive!At(g)
      /\ \A g \in Handlers : g # h => (g \in Storing' <=> g \in Storing) /\ (g \in Stored' <=> g \in Stored)
      /\ h \notin Storing' /\ h \notin Stored'
  BY <1>2, HandlerChanges DEF ReceiveInv
<1>4. Storing' \cup Stored' \subseteq Storing \cup Stored
  BY <1>3 DEF Storing, Stored
<1>5. DataApart'
  BY <1>1, <1>3, <1>4 DEF ReceiveInv, DataApart
<1>6. wake' \in BOOLEAN /\ (wake => wake') /\ flight' \subseteq Frames
  BY <1>1, EndTypes DEF ReceiveInv, ReceiveTypes
<1>. QED BY <1>1, <1>2, <1>5, <1>6, HandlerAlone

LEMMA DropKeeps ==
  ASSUME ReceiveInv, NEW h \in Handlers, Receive!At(h) = "claimed", Receive!Drop(h), UNCHANGED <<flight, appReader>>
  PROVE  ReceiveInv'
<1>1. /\ rxStopped /\ Receive!Discard(rxHigh') /\ Receive!Done(h) /\ wake' = TRUE
      /\ rxHigh' = Receive!Highest(Data(h), rxHigh)
      /\ UNCHANGED <<rxFIN, rxStopped, closed, over, told>>
  BY DEF Receive!Drop, Receive!endVars, Data
<1>2. ~Receive!Publishes'
  BY <1>1 DEF Receive!Publishes
<1>3. PICK high \in 0..Total : high = rxHigh'
  <2>1. Data(h) \in SUBSET Receive!Bytes(0, Total) /\ rxHigh \in 0..Total
    BY HandlersKnown, EndTypes DEF ReceiveInv
  <2>. QED BY <1>1, <2>1, HighestIs
<1>4. Receive!Discard(high) /\ rxHigh' = high
  BY <1>1, <1>3 DEF Receive!Discard
<1>. QED BY <1>1, <1>2, <1>4, DoneIs, EndTypes, DiscardKeeps

LEMMA RefuseKeeps ==
  ASSUME ReceiveInv, NEW h \in Handlers, Receive!At(h) = "claimed", Receive!Refuse(h), UNCHANGED <<flight, appReader>>
  PROVE  ReceiveInv'
<1>1. /\ closed' = TRUE /\ rxStopped' = TRUE /\ Receive!Discard(rxHigh') /\ Receive!Done(h) /\ told' = TRUE
      /\ rxHigh' = Receive!Highest(Data(h), rxHigh)
      /\ UNCHANGED <<rxFIN, over, wake>>
  BY DEF Receive!Refuse, Receive!WakesAll, Data
<1>2. ~Receive!Publishes'
  BY <1>1 DEF Receive!Publishes
<1>3. PICK high \in 0..Total : high = rxHigh'
  <2>1. Data(h) \in SUBSET Receive!Bytes(0, Total) /\ rxHigh \in 0..Total
    BY HandlersKnown, EndTypes DEF ReceiveInv
  <2>. QED BY <1>1, <2>1, HighestIs
<1>4. Receive!Discard(high) /\ rxHigh' = high
  BY <1>1, <1>3 DEF Receive!Discard
<1>. QED BY <1>1, <1>2, <1>4, DoneIs, EndTypes, DiscardKeeps

(* The pages for a frame are reserved, and rxMu is kept.                   *)
LEMMA ReserveKeeps ==
  ASSUME ReceiveInv, NEW h \in Handlers, Receive!At(h) = "claimed", Receive!OpFree, Receive!Reserve(h),
         UNCHANGED <<flight, appReader>>
  PROVE  ReceiveInv'
<1>1. ReceiveTypes /\ DataApart /\ StoreKept /\ PagesKept /\ OffsetsKept /\ ReaderKept
  BY DEF ReceiveInv
<1>2. PICK kept : kept = Receive!Kept(Data(h))
  OBVIOUS
<1>3. PICK missing : missing = Receive!PagesOf(kept) \ pages
  OBVIOUS
<1>4. PICK r : r = [recvHandler[h] EXCEPT !.at = "storing", !.data = kept]
  OBVIOUS
<1>5. /\ Receive!Publishes /\ Receive!PagesFree /\ rxHigh' = Receive!Highest(Data(h), rxHigh)
      /\ Cardinality(missing) <= MaxPages - allocated
      /\ pages' = pages \cup missing /\ allocated' = allocated + Cardinality(missing)
      /\ UNCHANGED <<present, buffered, rxContiguous, rxRead, rxFIN, rxStopped, closed, over, wake, told>>
  BY <1>2, <1>3, ReceiveConstants
     DEF Receive!Reserve, Receive!endVars, Data, Receive!Missing, Receive!Publishes
<1>6. recvHandler' = [recvHandler EXCEPT ![h] = r]
  <2>1. recvHandler' = [recvHandler EXCEPT ![h].at = "storing", ![h].data = kept]
    BY <1>2 DEF Receive!Reserve, Data
  <2>2. recvHandler \in [Handlers -> Handler]
    BY <1>1 DEF ReceiveTypes
  <2>. QED BY <1>4, <2>1, <2>2
<1>7. /\ Data(h) \in SUBSET Receive!Bytes(0, Total) /\ recvHandler[h] \in Handler
      /\ Data(h) \cap present = {}
  BY <1>1, HandlersKnown DEF DataApart
<1>8. kept \subseteq Data(h) /\ \A b \in kept : b >= rxRead
  BY <1>2 DEF Receive!Kept
<1>9. r \in Handler /\ r.at = "storing" /\ r.data = kept
  BY <1>4, <1>7, <1>8 DEF Handler
<1>10. /\ recvHandler' \in [Handlers -> Handler] /\ Data(h)' = kept /\ Receive!At(h)' = "storing"
       /\ \A g \in Handlers : g # h => Data(g)' = Data(g) /\ Receive!At(g)' = Receive!At(g)
       /\ \A g \in Handlers : g # h => (g \in Storing' <=> g \in Storing) /\ (g \in Stored' <=> g \in Stored)
       /\ h \in Storing' /\ h \notin Stored'
  BY <1>1, <1>6, <1>9, HandlerChanges
<1>11. Storing = {} /\ Stored = {} /\ Storing' = {h} /\ Stored' = {} /\ appReader.at # "copying"
  <2>1. Storing = {} /\ Stored = {} /\ appReader.at # "copying"
    BY <1>5, StoringIs
  <2>2. Storing' \subseteq Handlers /\ Stored' \subseteq Handlers
    BY DEF Storing, Stored
  <2>. QED BY <1>10, <2>1, <2>2
<1>12. rxHigh' \in 0..Total /\ rxHigh' >= rxHigh
  BY <1>1, <1>5, <1>7, HighestIs DEF ReceiveTypes
<1>13. /\ missing \cap pages = {} /\ missing \subseteq Receive!PagesOf(Receive!Bytes(0, Total))
       /\ pages \subseteq Receive!PagesOf(Receive!Bytes(0, Total))
  BY <1>1, <1>3, <1>7, <1>8, PagesUnion DEF ReceiveTypes
<1>14. /\ IsFiniteSet(missing) /\ Cardinality(missing) \in Nat /\ IsFiniteSet(pages) /\ Cardinality(pages) \in Nat
  BY <1>13, PagesFinite
<1>15. allocated' = Cardinality(pages')
  <2>1. Cardinality(pages \cup missing) = Cardinality(pages) + Cardinality(missing) - Cardinality(pages \cap missing)
    BY <1>14, FS_Union
  <2>2. Cardinality(pages \cap missing) = 0
    BY <1>13, FS_EmptySet
  <2>. QED BY <1>1, <1>5, <1>14, <2>1, <2>2 DEF PagesKept
<1>16. ReceiveTypes'
  <2>1. allocated' \in 0..MaxPages
    BY <1>1, <1>5, <1>14, ReceiveConstants DEF ReceiveTypes
  <2>2. pages' \subseteq Receive!PagesOf(Receive!Bytes(0, Total))
    BY <1>5, <1>13
  <2>. QED BY <1>1, <1>5, <1>10, <1>12, <2>1, <2>2 DEF ReceiveTypes
<1>17. DataApart'
  BY <1>1, <1>5, <1>7, <1>8, <1>10, <1>11 DEF DataApart
<1>18. \A b \in kept : b >= rxContiguous
  <2> SUFFICES ASSUME NEW b \in kept, ~(b >= rxContiguous) PROVE FALSE
    OBVIOUS
  <2>1. b \in Int /\ rxRead \in Int /\ rxContiguous \in Int
    BY <1>1, <1>7, <1>8, ReceiveConstants, AvailableIs
  <2>2. b \in Receive!Bytes(rxRead, rxContiguous)
    BY <1>8, <2>1, ReceiveConstants
  <2>3. b \in present
    BY <1>1, <1>5, <2>2 DEF OffsetsKept
  <2>. QED BY <1>7, <1>8, <2>3
<1>19. Receive!Publishes' = Receive!Publishes
  BY <1>5 DEF Receive!Publishes
<1>20. StoreKept'
  BY <1>5, <1>10, <1>11, <1>18, <1>19 DEF StoreKept
<1>21. PagesKept'
  <2>1. pages = Receive!PagesOf(present)
    BY <1>1, <1>11 DEF PagesKept
  <2>2. UNION {Receive!PagesOf(Data(g)') : g \in Storing'} = Receive!PagesOf(kept)
    BY <1>10, <1>11
  <2>3. pages' = Receive!PagesOf(present') \cup UNION {Receive!PagesOf(Data(g)') : g \in Storing'}
    BY <1>3, <1>5, <2>1, <2>2
  <2>4. buffered' = Cardinality(present')
    BY <1>1, <1>5, <1>11 DEF PagesKept
  <2>. QED BY <1>11, <1>15, <2>3, <2>4 DEF PagesKept
<1>22. OffsetsKept'
  <2>1. rxContiguous' <= rxHigh'
    BY <1>1, <1>5, <1>12, ReceiveConstants DEF OffsetsKept, ReceiveTypes
  <2>. QED BY <1>1, <1>5, <1>19, <2>1 DEF OffsetsKept
<1>23. ReaderKept'
  <2>1. Receive!NoReaderForgotten'
    BY <1>1, <1>5, NobodyForgotten DEF ReaderKept, Receive!Available
  <2>. QED BY <1>1, <1>5, <1>19, <2>1 DEF ReaderKept
<1>. QED BY <1>16, <1>17, <1>20, <1>21, <1>22, <1>23 DEF ReceiveInv

-----------------------------------------------------------------------------
(* The bytes are stored, and then counted.                                 *)

LEMMA StoreKeeps ==
  ASSUME ReceiveInv, NEW h \in Handlers, Receive!Store(h)
  PROVE  ReceiveInv'
<1>1. ReceiveTypes /\ DataApart /\ StoreKept /\ PagesKept /\ OffsetsKept /\ ReaderKept
  BY DEF ReceiveInv
<1>2. PICK data : data = Data(h)
  OBVIOUS
<1>3. PICK r : r = [recvHandler[h] EXCEPT !.at = "stored", !.added = Cardinality(data \ present)]
  OBVIOUS
<1>4. /\ Receive!At(h) = "storing" /\ present' = present \cup data
      /\ UNCHANGED <<flight, pages, allocated, buffered, rxHigh, rxContiguous, rxRead, rxFIN, rxStopped, closed,
                     over, appReader, wake, told>>
  BY <1>2 DEF Receive!Store, Receive!offsetVars, Receive!endVars, Receive!readVars, Data
<1>5. recvHandler' = [recvHandler EXCEPT ![h] = r]
  <2>1. recvHandler' = [recvHandler EXCEPT ![h].at = "stored", ![h].added = Cardinality(data \ present)]
    BY <1>2, ReceiveConstants DEF Receive!Store, Data
  <2>2. recvHandler \in [Handlers -> Handler]
    BY <1>1 DEF ReceiveTypes
  <2>. QED BY <1>3, <2>1, <2>2
<1>6. /\ data \in SUBSET Receive!Bytes(0, Total) /\ recvHandler[h] \in Handler /\ data \cap present = {}
  BY <1>1, <1>2, <1>4, HandlersKnown DEF DataApart
<1>7. /\ IsFiniteSet(data) /\ Cardinality(data) \in Nat /\ data \ present = data
      /\ IsFiniteSet(present) /\ Cardinality(present) \in Nat
  <2>1. data \ present = data
    BY <1>6
  <2>2. present \in SUBSET Receive!Bytes(0, Total)
    BY <1>1 DEF ReceiveTypes
  <2>. QED BY <1>6, <2>1, <2>2, BytesFinite
<1>8. r \in Handler /\ r.at = "stored" /\ r.data = data /\ r.added = Cardinality(data)
  <2>1. recvHandler[h].data = data
    BY <1>2 DEF Data
  <2>. QED BY <1>3, <1>6, <1>7, <2>1 DEF Handler
<1>9. /\ recvHandler' \in [Handlers -> Handler] /\ recvHandler'[h] = r /\ Data(h)' = data /\ Receive!At(h)' = "stored"
      /\ \A g \in Handlers : g # h => Data(g)' = Data(g) /\ Receive!At(g)' = Receive!At(g)
      /\ \A g \in Handlers : g # h => (g \in Storing' <=> g \in Storing) /\ (g \in Stored' <=> g \in Stored)
      /\ h \notin Storing' /\ h \in Stored'
  BY <1>1, <1>5, <1>8, HandlerChanges
<1>10. Storing = {h} /\ Stored = {} /\ Storing' = {} /\ Stored' = {h}
  <2>1. /\ h \in Storing /\ h \notin Stored /\ \A g \in Storing \cup Stored : g = h
        /\ Storing \subseteq Handlers /\ Stored \subseteq Handlers
        /\ Storing' \subseteq Handlers /\ Stored' \subseteq Handlers
    BY <1>1, <1>4 DEF Storing, Stored, DataApart
  <2>. QED BY <1>9, <2>1
<1>11. Receive!Publishes /\ Receive!Publishes' = Receive!Publishes
  BY <1>1, <1>4, <1>10 DEF StoreKept, Receive!Publishes
<1>12. present' \subseteq Receive!Bytes(0, Total)
  BY <1>1, <1>4, <1>6 DEF ReceiveTypes
<1>13. ReceiveTypes'
  BY <1>1, <1>4, <1>9, <1>12 DEF ReceiveTypes
<1>14. DataApart'
  <2>1. \A f \in flight' : f \cap present' = {} /\ \A g \in Handlers : f \cap Data(g)' = {}
    BY <1>1, <1>2, <1>4, <1>9 DEF DataApart
  <2>2. \A g, k \in Handlers : g # k => Data(g)' \cap Data(k)' = {}
    BY <1>1, <1>2, <1>9 DEF DataApart
  <2>3. \A g \in Handlers : Receive!At(g)' \in {"claimed", "storing"} => Data(g)' \cap present' = {}
    <3> SUFFICES ASSUME NEW g \in Handlers, Receive!At(g)' \in {"claimed", "storing"}
                 PROVE  Data(g)' \cap present' = {}
      OBVIOUS
    <3>1. g # h /\ Data(g)' = Data(g) /\ Receive!At(g) \in {"claimed", "storing"}
      BY <1>9
    <3>2. Data(g) \cap present = {} /\ Data(g) \cap data = {}
      BY <1>1, <1>2, <3>1 DEF DataApart
    <3>. QED BY <1>4, <3>1, <3>2
  <2>4. \A g, k \in Storing' \cup Stored' : g = k
    BY <1>10
  <2>. QED BY <2>1, <2>2, <2>3, <2>4 DEF DataApart
<1>15. \A b \in data : b >= rxContiguous
  BY <1>1, <1>2, <1>10, <1>11 DEF StoreKept
<1>16. StoreKept'
  BY <1>4, <1>8, <1>9, <1>10, <1>11, <1>15 DEF StoreKept
<1>17. PagesKept'
  <2>1. pages = Receive!PagesOf(present) \cup Receive!PagesOf(data)
    BY <1>1, <1>2, <1>10 DEF PagesKept
  <2>2. pages' = Receive!PagesOf(present') \cup UNION {Receive!PagesOf(Data(g)') : g \in Storing'}
    BY <1>4, <1>10, <2>1, PagesUnion
  <2>3. Cardinality(present') = Cardinality(present) + Cardinality(data)
    <3>1. Cardinality(present \cup data) = Cardinality(present) + Cardinality(data) - Cardinality(present \cap data)
      BY <1>7, FS_Union
    <3>2. Cardinality(present \cap data) = 0
      BY <1>6, FS_EmptySet
    <3>. QED BY <1>4, <1>7, <3>1, <3>2
  <2>4. Receive!Unpublished(h)' = Cardinality(data)
    BY <1>8, <1>9, <1>11 DEF Receive!Unpublished
  <2>5. buffered' + Receive!Unpublished(h)' = Cardinality(present')
    BY <1>1, <1>4, <1>10, <2>3, <2>4 DEF PagesKept
  <2>6. allocated' = Cardinality(pages')
    BY <1>1, <1>4 DEF PagesKept
  <2>. QED BY <1>10, <2>2, <2>5, <2>6 DEF PagesKept
<1>18. OffsetsKept'
  <2>1. \A b \in data : b >= rxRead
    <3> SUFFICES ASSUME NEW b \in data PROVE b >= rxRead
      OBVIOUS
    <3>1. b \in Int /\ rxRead \in Int /\ rxContiguous \in Int
      BY <1>1, <1>6, ReceiveConstants, AvailableIs
    <3>. QED BY <1>1, <1>15, <3>1 DEF OffsetsKept
  <2>. QED BY <1>1, <1>4, <1>11, <2>1 DEF OffsetsKept
<1>19. ReaderKept'
  <2>1. Receive!NoReaderForgotten'
    BY <1>1, <1>4, NobodyForgotten DEF ReaderKept, Receive!Available
  <2>. QED BY <1>1, <1>4, <1>11, <2>1 DEF ReaderKept
<1>. QED BY <1>13, <1>14, <1>16, <1>17, <1>18, <1>19 DEF ReceiveInv

LEMMA PublishKeeps ==
  ASSUME ReceiveInv, NEW h \in Handlers, Receive!Publish(h)
  PROVE  ReceiveInv'
<1>1. ReceiveTypes /\ DataApart /\ StoreKept /\ PagesKept /\ OffsetsKept /\ ReaderKept
  BY DEF ReceiveInv
<1>2. /\ Receive!At(h) = "stored" /\ Receive!PagesFree /\ Receive!Done(h) /\ wake' = (wake \/ ~over)
      /\ IF Receive!Publishes
         THEN /\ buffered' = buffered + recvHandler[h].added
              /\ rxContiguous' = Receive!Contiguous(rxContiguous)
         ELSE UNCHANGED <<buffered, rxContiguous>>
      /\ UNCHANGED <<flight, present, pages, allocated, rxHigh, rxRead, rxFIN, rxStopped, closed, over, appReader, told>>
  BY DEF Receive!Publish, Receive!endVars
<1>3. /\ recvHandler' = [recvHandler EXCEPT ![h] = Receive!None] /\ Receive!None \in Handler
      /\ Receive!None.at = "none" /\ Receive!None.data = {}
  BY <1>2, DoneIs
<1>4. /\ recvHandler' \in [Handlers -> Handler] /\ Data(h)' = {} /\ Receive!At(h)' = "none"
      /\ \A g \in Handlers : g # h => Data(g)' = Data(g) /\ Receive!At(g)' = Receive!At(g)
      /\ \A g \in Handlers : g # h => (g \in Storing' <=> g \in Storing) /\ (g \in Stored' <=> g \in Stored)
      /\ h \notin Storing' /\ h \notin Stored'
  BY <1>1, <1>3, HandlerChanges
<1>5. Storing = {} /\ Stored = {h} /\ Storing' = {} /\ Stored' = {} /\ appReader.at # "copying"
  <2>1. /\ h \in Stored /\ \A g \in Storing \cup Stored : g = h
        /\ Storing \subseteq Handlers /\ Stored \subseteq Handlers
        /\ Storing' \subseteq Handlers /\ Stored' \subseteq Handlers
    BY <1>1, <1>2 DEF Storing, Stored, DataApart
  <2>2. Storing = {} /\ appReader.at # "copying"
    BY <1>2, StoringIs
  <2>. QED BY <1>4, <2>1, <2>2
<1>6. Receive!Publishes' = Receive!Publishes
  BY <1>2 DEF Receive!Publishes
<1>7. wake' \in BOOLEAN /\ (wake => wake')
  BY <1>2, EndTypes
<1>8. DataApart'
  BY <1>1, <1>2, <1>4, <1>5 DEF DataApart
<1>9. StoreKept'
  BY <1>5 DEF StoreKept
<1>10. pages' = Receive!PagesOf(present') \cup UNION {Receive!PagesOf(Data(g)') : g \in Storing'}
  <2>1. UNION {Receive!PagesOf(Data(g)') : g \in Storing'} = {} /\ UNION {Receive!PagesOf(Data(g)) : g \in Storing} = {}
    BY <1>5
  <2>. QED BY <1>1, <1>2, <2>1 DEF PagesKept
<1>11. allocated' = Cardinality(pages') /\ buffered + Receive!Unpublished(h) = Cardinality(present)
  BY <1>1, <1>2, <1>5 DEF PagesKept
<1>12. buffered \in Nat /\ rxContiguous \in Nat /\ rxHigh \in Nat /\ rxRead \in Nat /\ rxContiguous <= rxHigh
       /\ rxRead <= rxContiguous
  BY <1>1, AvailableIs DEF ReceiveTypes, OffsetsKept
<1>13. CASE Receive!Publishes
  <2>1. buffered' = buffered + recvHandler[h].added /\ rxContiguous' = Receive!Contiguous(rxContiguous)
    BY <1>2, <1>13
  <2>2. PICK c : c = rxContiguous'
    OBVIOUS
  <2>3. c \in rxContiguous..rxHigh /\ Receive!Bytes(rxContiguous, c) \subseteq present
    BY <1>1, <1>12, <2>1, <2>2, ContiguousIs
  <2>4. c \in Nat /\ rxContiguous <= c /\ c <= rxHigh /\ rxRead <= c
    BY <1>12, <2>3
  <2>5. Receive!Unpublished(h) = recvHandler[h].added
    BY <1>2, <1>13 DEF Receive!Unpublished
  <2>6. buffered' = Cardinality(present')
    BY <1>2, <1>11, <2>1, <2>5
  <2>7. buffered' \in Nat
    <3>1. present \in SUBSET Receive!Bytes(0, Total)
      BY <1>1 DEF ReceiveTypes
    <3>. QED BY <1>2, <2>6, <3>1, BytesFinite
  <2>8. c \in 0..Total
    BY <1>1, <2>4, ReceiveConstants DEF ReceiveTypes
  <2>9. ReceiveTypes'
    BY <1>1, <1>2, <1>4, <1>7, <2>2, <2>7, <2>8 DEF ReceiveTypes
  <2>10. PagesKept'
    BY <1>5, <1>10, <1>11, <2>6 DEF PagesKept
  <2>11. Receive!Bytes(rxRead, c) \subseteq present
    <3> SUFFICES ASSUME NEW b \in Receive!Bytes(rxRead, c) PROVE b \in present
      OBVIOUS
    <3>1. b \in Int /\ rxRead <= b /\ b < c
      BY <1>12, <2>4, ReceiveConstants
    <3>2. b \in Receive!Bytes(rxRead, rxContiguous) \/ b \in Receive!Bytes(rxContiguous, c)
      BY <1>12, <2>4, <3>1, ReceiveConstants
    <3>. QED BY <1>1, <1>13, <2>3, <3>2 DEF OffsetsKept
  <2>12. OffsetsKept'
    BY <1>1, <1>2, <1>6, <1>13, <2>2, <2>4, <2>11 DEF OffsetsKept
  <2>13. wake'
    BY <1>1, <1>2, <1>13 DEF OffsetsKept, Receive!Publishes
  <2>14. appReader.at = "copied" => appReader.from = rxRead /\ rxRead + appReader.n <= c
    <3>1. appReader.n \in Nat
      BY <1>1 DEF ReceiveTypes, AppReader
    <3>2. appReader.at = "copied" => appReader.from = rxRead /\ rxRead + appReader.n <= rxContiguous
      BY <1>1, <1>13 DEF ReaderKept
    <3>. QED BY <1>12, <2>4, <3>1, <3>2
  <2>15. ReaderKept'
    BY <1>1, <1>2, <1>5, <1>6, <1>13, <2>2, <2>13, <2>14 DEF ReaderKept, Receive!NoReaderForgotten
  <2>. QED BY <1>8, <1>9, <2>9, <2>10, <2>12, <2>15 DEF ReceiveInv
<1>14. CASE ~Receive!Publishes
  <2>1. UNCHANGED <<buffered, rxContiguous>>
    BY <1>2, <1>14
  <2>2. ReceiveTypes'
    BY <1>1, <1>2, <1>4, <1>7, <2>1 DEF ReceiveTypes
  <2>3. Receive!Unpublished(h) = 0
    BY <1>14 DEF Receive!Unpublished
  <2>4. buffered' = Cardinality(present')
    BY <1>2, <1>11, <1>12, <2>1, <2>3
  <2>5. PagesKept'
    BY <1>5, <1>10, <1>11, <2>4 DEF PagesKept
  <2>6. OffsetsKept'
    BY <1>1, <1>2, <1>6, <2>1 DEF OffsetsKept
  <2>7. Receive!NoReaderForgotten'
    BY <1>1, <1>2, <1>7, <2>1, NobodyForgotten DEF ReaderKept, Receive!Available
  <2>8. ReaderKept'
    BY <1>1, <1>2, <1>6, <2>1, <2>7 DEF ReaderKept
  <2>. QED BY <1>8, <1>9, <2>2, <2>5, <2>6, <2>8 DEF ReceiveInv
<1>. QED BY <1>13, <1>14

-----------------------------------------------------------------------------
(* What was copied is consumed, with the pages it empties.                 *)

LEMMA ConsumeKeeps == ReceiveInv /\ Receive!Consume => ReceiveInv'
<1> SUFFICES ASSUME ReceiveInv, Receive!Consume PROVE ReceiveInv'
  OBVIOUS
<1>1. ReceiveTypes /\ DataApart /\ StoreKept /\ PagesKept /\ OffsetsKept /\ ReaderKept
  BY DEF ReceiveInv
<1>2. /\ appReader.at = "copied"
      /\ UNCHANGED <<flight, recvHandler, rxHigh, rxContiguous, rxFIN, rxStopped, closed, over, wake, told>>
  BY DEF Receive!Consume, Receive!endVars
<1>3. wake \in BOOLEAN /\ told \in BOOLEAN
  BY EndTypes
<1>4. CASE ~Receive!StillNext
  <2>1. appReader' = [Receive!Reading EXCEPT !.at = "error"] /\ UNCHANGED <<present, pages, allocated, buffered, rxRead>>
    BY <1>4 DEF Receive!Consume, Receive!pageVars
  <2>2. appReader' \in AppReader /\ appReader'.at = "error"
    BY <2>1 DEF AppReader, Receive!Reading
  <2>3. ReaderKept'
    BY <2>2 DEF ReaderKept, Receive!NoReaderForgotten
  <2>. QED BY <1>2, <1>3, <2>1, <2>2, <2>3, ReaderAlone
<1>5. CASE Receive!StillNext
  <2>1. Receive!Publishes
    BY <1>5 DEF Receive!StillNext, Receive!Publishes
  <2>2. PICK n \in Nat : n = appReader.n
    BY <1>1 DEF ReceiveTypes, AppReader
  <2>3. PICK C : C = Receive!Chosen
    OBVIOUS
  <2>4. /\ C = Receive!Bytes(rxRead, rxRead + n) /\ rxRead + n <= rxContiguous
        /\ C \subseteq Receive!Bytes(rxRead, rxContiguous) /\ C \subseteq present
    BY <1>2, <2>1, <2>2, <2>3, ChosenIs
  <2>5. PICK E : E = Receive!PagesOf(C) \ Receive!PagesOf(present \ C)
    OBVIOUS
  <2>6. E = Receive!Emptied
    BY <2>3, <2>5 DEF Receive!Emptied
  <2>7. /\ Receive!PagesFree /\ present' = present \ C
        /\ pages' = pages \ E /\ allocated' = allocated - Cardinality(E)
        /\ buffered' = buffered - n /\ rxRead' = rxRead + n /\ appReader' = Receive!Reading
    BY <1>5, <2>2, <2>3, <2>4, <2>6, ReceiveConstants DEF Receive!Consume
  <2>8. /\ rxRead \in Nat /\ rxContiguous \in Nat /\ rxHigh \in Nat /\ buffered \in Nat
        /\ present \in SUBSET Receive!Bytes(0, Total) /\ pages \in SUBSET Receive!PagesOf(Receive!Bytes(0, Total))
    BY <1>1, AvailableIs DEF ReceiveTypes
  <2>9. Storing = {} /\ Storing' = {} /\ Stored' = Stored /\ Receive!Publishes' = Receive!Publishes
        /\ \A h : Data(h)' = Data(h) /\ Receive!At(h)' = Receive!At(h)
                  /\ Receive!Unpublished(h)' = Receive!Unpublished(h)
    BY <1>2, <2>7, StoringIs DEF Storing, Stored, Data, Receive!At, Receive!Publishes, Receive!Unpublished
  <2>10. /\ IsFiniteSet(present) /\ IsFiniteSet(C) /\ Cardinality(C) = n /\ Cardinality(present) \in Nat
    BY <2>4, <2>8, BytesFinite, BytesCounted
  <2>11. IsFiniteSet(present \ C) /\ Cardinality(present \ C) = Cardinality(present) - n
    <3>1. IsFiniteSet(present \ C) /\ Cardinality(present \ C) = Cardinality(present) - Cardinality(present \cap C)
      BY <2>10, FS_Difference
    <3>2. present \cap C = C
      BY <2>4
    <3>. QED BY <2>10, <3>1, <3>2
  <2>12. \A h \in Stored : Data(h) \subseteq present \ C
    <3> SUFFICES ASSUME NEW h \in Stored, NEW b \in Data(h) PROVE b \in present \ C
      OBVIOUS
    <3>1. b \in present /\ b >= rxContiguous
      BY <1>1, <2>1 DEF StoreKept
    <3>2. b \notin Receive!Bytes(rxRead, rxContiguous)
      BY <2>8, <3>1, ReceiveConstants
    <3>. QED BY <2>4, <3>1, <3>2
  <2>13. buffered' \in Nat
    <3>1. CASE Stored = {}
      <4>1. Cardinality(present \ C) \in Nat /\ buffered = Cardinality(present)
        BY <1>1, <2>11, <3>1, FS_CardinalityType DEF PagesKept
      <4>. QED BY <2>7, <2>10, <2>11, <4>1
    <3>2. CASE Stored # {}
      <4>1. PICK h \in Stored : TRUE
        BY <3>2
      <4>2. h \in Handlers /\ Receive!Unpublished(h) = Cardinality(Data(h))
        BY <1>1, <2>1 DEF Stored, StoreKept, Receive!Unpublished
      <4>3. PICK D : D = Data(h)
        OBVIOUS
      <4>4. IsFiniteSet(D) /\ Cardinality(D) \in Nat /\ Cardinality(D) <= Cardinality(present \ C)
        BY <2>11, <2>12, <4>3, FS_Subset, FS_CardinalityType
      <4>5. buffered + Cardinality(D) = Cardinality(present)
        BY <1>1, <4>2, <4>3 DEF PagesKept
      <4>6. Cardinality(present \ C) \in Nat
        BY <2>11, FS_CardinalityType
      <4>. QED BY <2>7, <2>8, <2>10, <2>11, <4>4, <4>5, <4>6
    <3>. QED BY <3>1, <3>2
  <2>14. pages = Receive!PagesOf(present) /\ E \subseteq pages /\ pages' = Receive!PagesOf(present \ C)
    <3>1. UNION {Receive!PagesOf(Data(h)) : h \in Storing} = {}
      BY <2>9
    <3>2. pages = Receive!PagesOf(present)
      BY <1>1, <3>1 DEF PagesKept
    <3>3. present = (present \ C) \cup C
      BY <2>4
    <3>4. PICK A : A = Receive!PagesOf(present \ C)
      OBVIOUS
    <3>5. PICK B : B = Receive!PagesOf(C)
      OBVIOUS
    <3>6. Receive!PagesOf(present) = A \cup B
      BY <3>3, <3>4, <3>5, PagesUnion
    <3>. QED BY <2>5, <2>7, <3>2, <3>4, <3>5, <3>6
  <2>15. allocated' = Cardinality(pages') /\ allocated' \in Nat
    <3>1. IsFiniteSet(pages) /\ Cardinality(pages) \in Nat
      BY <2>8, PagesFinite
    <3>2. IsFiniteSet(pages \ E) /\ Cardinality(pages \ E) = Cardinality(pages) - Cardinality(pages \cap E)
      BY <3>1, FS_Difference
    <3>3. pages \cap E = E
      BY <2>14
    <3>4. allocated = Cardinality(pages)
      BY <1>1 DEF PagesKept
    <3>5. allocated' = Cardinality(pages')
      BY <2>7, <3>2, <3>3, <3>4
    <3>. QED BY <2>7, <3>2, <3>5, FS_CardinalityType
  <2>16. ReceiveTypes'
    <3>1. rxRead' \in 0..Total
      BY <1>1, <2>4, <2>7, <2>8, ReceiveConstants DEF ReceiveTypes
    <3>2. allocated' \in 0..MaxPages
      <4>1. IsFiniteSet(E) /\ Cardinality(E) \in Nat
        <5>1. IsFiniteSet(pages)
          BY <2>8, PagesFinite
        <5>. QED BY <2>14, <5>1, FS_Subset, FS_CardinalityType
      <4>. QED BY <1>1, <2>7, <2>15, <4>1, ReceiveConstants DEF ReceiveTypes
    <3>3. appReader' \in AppReader
      BY <2>7 DEF AppReader, Receive!Reading
    <3>4. present' \subseteq Receive!Bytes(0, Total) /\ pages' \subseteq Receive!PagesOf(Receive!Bytes(0, Total))
      BY <2>7, <2>8
    <3>. QED BY <1>1, <1>2, <2>13, <3>1, <3>2, <3>3, <3>4 DEF ReceiveTypes
  <2>17. DataApart'
    BY <1>1, <1>2, <2>7, <2>9 DEF DataApart
  <2>18. StoreKept'
    <3>1. \A h \in Stored' : Data(h)' \subseteq present' /\ recvHandler'[h].added = Cardinality(Data(h)')
      BY <1>1, <1>2, <2>1, <2>7, <2>9, <2>12 DEF StoreKept
    <3>2. \A h \in Storing' \cup Stored' : \A b \in Data(h)' : b >= rxContiguous'
      BY <1>1, <1>2, <2>1, <2>9 DEF StoreKept
    <3>. QED BY <2>9, <3>1, <3>2 DEF StoreKept
  <2>19. PagesKept'
    <3>1. UNION {Receive!PagesOf(Data(h)') : h \in Storing'} = {}
      BY <2>9
    <3>2. pages' = Receive!PagesOf(present') \cup UNION {Receive!PagesOf(Data(h)') : h \in Storing'}
      BY <2>7, <2>14, <3>1
    <3>3. \A h \in Stored : Receive!Unpublished(h) \in Nat
      <4> SUFFICES ASSUME NEW h \in Stored PROVE Receive!Unpublished(h) \in Nat
        OBVIOUS
      <4>1. h \in Handlers
        BY DEF Stored
      <4>2. recvHandler[h] \in Handler
        BY <1>1, <4>1 DEF ReceiveTypes
      <4>3. recvHandler[h].added \in Nat
        BY <4>2 DEF Handler
      <4>. QED BY <4>3 DEF Receive!Unpublished
    <3>4. \A h \in Stored' : buffered' + Receive!Unpublished(h)' = Cardinality(present')
      <4> SUFFICES ASSUME NEW h \in Stored PROVE buffered' + Receive!Unpublished(h) = Cardinality(present')
        BY <2>9
      <4>1. buffered + Receive!Unpublished(h) = Cardinality(present) /\ Receive!Unpublished(h) \in Nat
        BY <1>1, <3>3 DEF PagesKept
      <4>. QED BY <2>7, <2>8, <2>10, <2>11, <4>1
    <3>5. Stored' = {} => buffered' = Cardinality(present')
      BY <1>1, <2>7, <2>9, <2>11 DEF PagesKept
    <3>. QED BY <2>15, <3>2, <3>4, <3>5 DEF PagesKept
  <2>20. OffsetsKept'
    <3>1. PICK m \in Nat : m = rxRead + n /\ m = rxRead'
      BY <2>7, <2>8
    <3>2. m <= rxContiguous /\ rxRead <= m
      BY <2>4, <2>8, <3>1
    <3>3. Receive!Bytes(m, rxContiguous) \subseteq present \ C
      <4> SUFFICES ASSUME NEW b \in Receive!Bytes(m, rxContiguous) PROVE b \in present /\ b \notin C
        OBVIOUS
      <4>1. b \in Int /\ m <= b /\ b < rxContiguous
        BY <2>8, ReceiveConstants
      <4>2. b \in Receive!Bytes(rxRead, rxContiguous)
        BY <2>8, <3>2, <4>1, ReceiveConstants
      <4>3. b \notin Receive!Bytes(rxRead, m)
        BY <2>8, <4>1, ReceiveConstants
      <4>. QED BY <1>1, <2>1, <2>4, <3>1, <4>2, <4>3 DEF OffsetsKept
    <3>4. \A b \in present \ C : b >= m
      <4> SUFFICES ASSUME NEW b \in present, b \notin C PROVE b >= m
        OBVIOUS
      <4>1. b \in Int /\ b >= rxRead
        BY <1>1, <2>1, <2>8, ReceiveConstants DEF OffsetsKept
      <4>2. ~(b < m)
        BY <2>4, <2>8, <3>1, <4>1, ReceiveConstants
      <4>. QED BY <4>1, <4>2
    <3>. QED BY <1>1, <1>2, <2>1, <2>7, <2>9, <3>1, <3>2, <3>3, <3>4 DEF OffsetsKept
  <2>21. ReaderKept'
    <3>1. appReader'.at = "read"
      BY <2>7 DEF Receive!Reading
    <3>. QED BY <3>1 DEF ReaderKept, Receive!NoReaderForgotten
  <2>. QED BY <2>16, <2>17, <2>18, <2>19, <2>20, <2>21 DEF ReceiveInv
<1>. QED BY <1>4, <1>5

LEMMA RecvFINKeeps == ReceiveInv /\ Receive!RecvFIN => ReceiveInv'
<1> SUFFICES ASSUME ReceiveInv, Receive!RecvFIN PROVE ReceiveInv'
  OBVIOUS
<1>1. /\ rxFIN' = Total /\ rxHigh' = Total /\ told' = TRUE
      /\ UNCHANGED <<flight, recvHandler, rxStopped, closed, over, appReader, wake>>
  BY DEF Receive!RecvFIN, Receive!WakesAll, Receive!endVars
<1>2. Receive!Publishes' = Receive!Publishes
  BY <1>1 DEF Receive!Publishes
<1>3. CASE rxStopped \/ closed
  <2>1. Receive!Discard(Total)
    BY <1>3 DEF Receive!RecvFIN
  <2>2. ~Receive!Publishes'
    BY <1>1, <1>3 DEF Receive!Publishes
  <2>. QED BY <1>1, <2>1, <2>2, EndTypes, DiscardKeeps
<1>4. CASE ~(rxStopped \/ closed)
  <2>1. UNCHANGED <<present, pages, allocated, buffered, rxContiguous, rxRead>>
    BY <1>4 DEF Receive!RecvFIN, Receive!pageVars
  <2>2. ReceiveTypes /\ DataApart /\ StoreKept /\ PagesKept /\ OffsetsKept /\ ReaderKept
    BY DEF ReceiveInv
  <2>3. ReceiveTypes'
    BY <1>1, <2>1, <2>2, EndTypes DEF ReceiveTypes
  <2>4. /\ Storing' = Storing /\ Stored' = Stored
        /\ \A h : Data(h)' = Data(h) /\ Receive!At(h)' = Receive!At(h)
                  /\ Receive!Unpublished(h)' = Receive!Unpublished(h)
    BY <1>1, <1>2 DEF Storing, Stored, Data, Receive!At, Receive!Unpublished
  <2>5. DataApart'
    BY <1>1, <2>1, <2>2, <2>4 DEF DataApart
  <2>6. StoreKept'
    BY <1>1, <1>2, <2>1, <2>2, <2>4 DEF StoreKept
  <2>7. PagesKept'
    <3>1. pages' = Receive!PagesOf(present') \cup UNION {Receive!PagesOf(Data(h)') : h \in Storing'}
      BY <2>1, <2>2, <2>4 DEF PagesKept
    <3>2. /\ allocated' = Cardinality(pages') /\ (Stored' = {} => buffered' = Cardinality(present'))
          /\ \A h \in Stored' : buffered' + Receive!Unpublished(h)' = Cardinality(present')
      BY <2>1, <2>2, <2>4 DEF PagesKept
    <3>. QED BY <3>1, <3>2 DEF PagesKept
  <2>8. rxContiguous' <= rxHigh'
    BY <1>1, <2>1, <2>2, ReceiveConstants DEF ReceiveTypes
  <2>9. OffsetsKept'
    BY <1>1, <1>2, <2>1, <2>2, <2>8 DEF OffsetsKept
  <2>10. ReaderKept'
    BY <1>1, <1>2, <2>1, <2>2 DEF ReaderKept, Receive!NoReaderForgotten
  <2>. QED BY <2>3, <2>5, <2>6, <2>7, <2>9, <2>10 DEF ReceiveInv
<1>. QED BY <1>3, <1>4

-----------------------------------------------------------------------------

LEMMA ReceiveInit == Receive!Init => ReceiveInv
<1> SUFFICES ASSUME Receive!Init PROVE ReceiveInv
  OBVIOUS
<1>1. /\ flight = Frames /\ recvHandler = [h \in Handlers |-> Receive!None]
      /\ present = {} /\ pages = {} /\ allocated = 0 /\ buffered = 0
      /\ rxHigh = 0 /\ rxContiguous = 0 /\ rxRead = 0 /\ rxFIN = Receive!NotFinal
      /\ rxStopped = FALSE /\ closed = FALSE /\ over = FALSE
      /\ appReader = Receive!Reading /\ wake = FALSE /\ told = FALSE
  BY DEF Receive!Init
<1>2. Receive!None \in Handler /\ Receive!None.at = "none" /\ Receive!None.data = {}
  BY DEF Receive!None, Handler
<1>3. appReader \in AppReader /\ appReader.at = "read"
  BY <1>1 DEF Receive!Reading, AppReader
<1>4. ReceiveTypes
  <2>1. recvHandler \in [Handlers -> Handler]
    BY <1>1, <1>2
  <2>2. 0 \in 0..Total /\ 0 \in 0..MaxPages
    BY ReceiveConstants
  <2>. QED BY <1>1, <1>3, <2>1, <2>2 DEF ReceiveTypes
<1>5. \A h \in Handlers : Data(h) = {} /\ Receive!At(h) = "none"
  BY <1>1, <1>2 DEF Data, Receive!At
<1>6. Storing = {} /\ Stored = {}
  BY <1>5 DEF Storing, Stored
<1>7. DataApart
  BY <1>1, <1>5, <1>6 DEF DataApart
<1>8. StoreKept
  BY <1>6 DEF StoreKept
<1>9. PagesKept
  <2>1. UNION {Receive!PagesOf(Data(h)) : h \in Storing} = {}
    BY <1>6
  <2>2. Receive!PagesOf(present) = {} /\ Cardinality({}) = 0
    BY <1>1, PagesUnion, FS_EmptySet
  <2>3. pages = Receive!PagesOf(present) \cup UNION {Receive!PagesOf(Data(h)) : h \in Storing}
    BY <1>1, <2>1, <2>2
  <2>. QED BY <1>1, <1>6, <2>2, <2>3 DEF PagesKept
<1>10. OffsetsKept
  <2>1. Receive!Bytes(0, 0) = {}
    BY ReceiveConstants
  <2>. QED BY <1>1, <2>1 DEF OffsetsKept
<1>11. ReaderKept
  BY <1>3 DEF ReaderKept, Receive!NoReaderForgotten
<1>. QED BY <1>4, <1>7, <1>8, <1>9, <1>10, <1>11 DEF ReceiveInv

LEMMA ReceiveStep == ReceiveInv /\ [Next]_vars => ReceiveInv'
<1> SUFFICES ASSUME ReceiveInv, [Next]_vars PROVE ReceiveInv'
  OBVIOUS
<1>1. CASE Receive!Next
  <2>1. CASE \E h \in Handlers : \E f \in flight : Receive!Claim(h, f)
    BY <2>1, ClaimKeeps
  <2>2. CASE \E h \in Handlers : Receive!Prepare(h)
    BY <2>2, IgnoreKeeps, DropKeeps, RefuseKeeps, ReserveKeeps DEF Receive!Prepare
  <2>3. CASE \E h \in Handlers : Receive!Store(h) \/ Receive!Publish(h)
    BY <2>3, StoreKeeps, PublishKeeps
  <2>4. CASE Receive!Read \/ Receive!Wake \/ Receive!Copy \/ Receive!Consume
    BY <2>4, ReadKeeps, WakeKeeps, CopyKeeps, ConsumeKeeps
  <2>5. CASE Receive!RecvFIN \/ Receive!RecvReset \/ Receive!CloseRead \/ Receive!Close \/ Receive!SessionStops
    BY <2>5, RecvFINKeeps, RecvResetKeeps, CloseReadKeeps, CloseKeeps, SessionStopsKeeps
  <2>. QED BY <1>1, <2>1, <2>2, <2>3, <2>4, <2>5 DEF Receive!Next
<1>2. CASE UNCHANGED receiveVars
  <2>1. /\ UNCHANGED <<flight, recvHandler, present, pages, allocated, buffered, rxHigh, rxContiguous, rxRead,
                       rxFIN, rxStopped, closed, over>>
        /\ UNCHANGED <<appReader, wake, told>>
    BY <1>2 DEF receiveVars
  <2>2. appReader' \in AppReader /\ wake' \in BOOLEAN /\ told' \in BOOLEAN
    BY <2>1 DEF ReceiveInv, ReceiveTypes
  <2>3. ReaderKept'
    BY <2>1 DEF ReceiveInv, ReaderKept, Receive!NoReaderForgotten, Receive!Publishes, Receive!Available
  <2>4. appReader'.at = "copying" => Storing = {}
    BY <2>1 DEF ReceiveInv, StoreKept
  <2>. QED BY <2>1, <2>2, <2>3, <2>4, ReaderAlone
<1>3. Receive!Next \/ UNCHANGED receiveVars
  BY DEF Next, vars, OfUdp, OfProduct, OfUot, OfPackets, OfServer, OfReceive
<1>. QED BY <1>1, <1>2, <1>3

LEMMA ReceiveAgrees ==
  ReceiveInv => /\ Receive!TypeOK /\ Receive!NothingMissing /\ Receive!PagesAgree
                /\ Receive!OffersAreThere /\ Receive!NoReaderForgotten
<1> SUFFICES ASSUME ReceiveInv
             PROVE  /\ Receive!TypeOK /\ Receive!NothingMissing /\ Receive!PagesAgree
                    /\ Receive!OffersAreThere /\ Receive!NoReaderForgotten
  OBVIOUS
<1>1. ReceiveTypes /\ PagesKept /\ OffsetsKept /\ ReaderKept /\ StoreKept
  BY DEF ReceiveInv
<1>2. \A h \in Handlers : Receive!Unpublished(h) \in Nat
  <2>1. \A h \in Handlers : recvHandler[h] \in Handler
    BY <1>1 DEF ReceiveTypes
  <2>2. \A h \in Handlers : recvHandler[h].added \in Nat
    BY <2>1 DEF Handler
  <2>. QED BY <2>2 DEF Receive!Unpublished
<1>3. buffered \in 0..Total
  <2>1. present \in SUBSET Receive!Bytes(0, Total) /\ buffered \in Nat
    BY <1>1 DEF ReceiveTypes
  <2>2. Cardinality(present) \in Nat /\ Cardinality(present) <= Total
    BY <2>1, BytesFinite
  <2>3. buffered <= Cardinality(present)
    <3>1. CASE Stored = {}
      BY <1>1, <2>1, <3>1 DEF PagesKept
    <3>2. CASE Stored # {}
      <4>1. PICK h \in Stored : TRUE
        BY <3>2
      <4>2. buffered + Receive!Unpublished(h) = Cardinality(present) /\ Receive!Unpublished(h) \in Nat
        BY <1>1, <1>2 DEF PagesKept, Stored
      <4>. QED BY <2>1, <4>2
    <3>. QED BY <3>1, <3>2
  <2>. QED BY <2>1, <2>2, <2>3, ReceiveConstants
<1>4. Receive!TypeOK
  <2>1. \A h \in Handlers : Receive!At(h) \in {"none", "claimed", "storing", "stored"}
    BY <1>1, HandlersKnown
  <2>2. appReader.at \in {"read", "copying", "copied", "asleep", "eof", "error", "violation"}
    BY <1>1 DEF ReceiveTypes, AppReader
  <2>. QED BY <1>1, <1>3, <2>1, <2>2 DEF ReceiveTypes, Receive!TypeOK
<1>5. Receive!PagesAgree
  <2>1. pages = Receive!PagesOf(present)
          \cup UNION {Receive!PagesOf(recvHandler[h].data) : h \in {g \in Handlers : Receive!At(g) = "storing"}}
    BY <1>1 DEF PagesKept, Data, Storing
  <2>2. /\ allocated = Cardinality(pages)
        /\ \A h \in Handlers : Receive!At(h) = "stored" => buffered + Receive!Unpublished(h) = Cardinality(present)
        /\ (Receive!OpFree => buffered = Cardinality(present))
    BY <1>1, StoringIs DEF PagesKept, Stored
  <2>. QED BY <2>1, <2>2, ReceiveConstants DEF Receive!PagesAgree
<1>6. Receive!OffersAreThere
  BY <1>1 DEF OffsetsKept, Receive!OffersAreThere, Receive!Publishes
<1>7. Receive!NothingMissing /\ Receive!NoReaderForgotten
  BY <1>1 DEF ReaderKept, Receive!NothingMissing
<1>. QED BY <1>4, <1>5, <1>6, <1>7

-----------------------------------------------------------------------------
(* The queued bytes of the UoT client are those in the queues of its flows *)
(* and in their writes, and an address has one flow whose queue is read;   *)
(* what is offered to the reader of a Stream is there when it copies it,   *)
(* its pages are exactly those of what was stored and not read, nothing    *)
(* is missing from what was offered, and a reader that sleeps is not       *)
(* forgotten.                                                              *)
THEOREM QueuesKept == Spec => []QueuesAgree
<1>1. Init => UotInv /\ ReceiveInv
  BY UotInit, ReceiveInit DEF Init
<1>2. UotInv /\ [Next]_vars => UotInv'
  BY UotStep
<1>3. ReceiveInv /\ [Next]_vars => ReceiveInv'
  BY ReceiveStep
<1>4. UotInv /\ ReceiveInv => QueuesAgree
  BY UotAgrees, ReceiveAgrees DEF QueuesAgree
<1>. QED BY <1>1, <1>2, <1>3, <1>4, PTL DEF Spec

-----------------------------------------------------------------------------
(* The pool of Streams, and the requests and handlers that have them.      *)

Holding == {"has", "asked", "served"}
Call ==
  [at : {"idle", "failed", "capable", "done"}] \cup [at : {"looking", "opening"}, kind : Product!Kinds]
    \cup [at : Holding, kind : Product!Kinds, stream : Product!Streams]

ProductTypes ==
  /\ pool \in Seq(Product!Streams) /\ opening \in Nat /\ openers \in Nat
  /\ opened \subseteq Product!Streams /\ open \subseteq Product!Streams
  /\ age \in [Product!Streams -> 0..2] /\ next \in 0..MaxStreams
  /\ call \in [Requests -> Call]
  /\ asked \in [Product!Streams -> Product!Kinds \cup {"none"}]
  /\ answer \in [Product!Streams -> {"none", "ok", "full", "unsupported", "noBackend"}]
  /\ handler \in [Product!Streams ->
       {"none", "waiting", "dialTCP", "dialUOT", "TCP", "UOT", "leaveUOT", "finishing", "gone"}]
  /\ uotActive \in Nat

(* Every place that is reserved is that of a goroutine on its way.         *)
PoolCounted ==
  /\ IsFiniteSet(opened) /\ opening = openers + Cardinality(opened)
  /\ Len(pool) + opening <= PoolSize

Held(s) == \E r \in Requests : call[r].at \in Holding /\ call[r].stream = s
Pooled(s) == s \in Product!Elements(pool)

(* A Stream is in one place, and one that is open is in some place.        *)
PlacesKept ==
  /\ \A i, j \in DOMAIN pool : pool[i] = pool[j] => i = j
  /\ \A s \in opened : ~Pooled(s) /\ ~Held(s)
  /\ \A s \in Product!Streams : ~(Pooled(s) /\ Held(s))
  /\ \A r, q \in Requests :
       call[r].at \in Holding /\ call[q].at \in Holding /\ call[r].stream = call[q].stream => r = q
  /\ \A s \in open : Pooled(s) \/ Held(s) \/ s \in opened

(* A Stream that is not opened yet is nowhere.                             *)
FreshKept ==
  \A s \in Product!Streams : s > next =>
    ~Pooled(s) /\ ~Held(s) /\ s \notin opened /\ s \notin open /\ handler[s] = "none"

TakesSlot == {s \in Product!Streams : handler[s] \in {"dialUOT", "UOT", "leaveUOT"}}
SlotsHeld ==
  IsFiniteSet(TakesSlot) /\ uotActive = Cardinality(TakesSlot) /\ uotActive <= MaxUOTFlows

(* What is asked on a Stream is asked by the one who holds it, and the     *)
(* handler stands where what was asked took it.                            *)
AskedKept ==
  /\ \A s \in Product!Streams : s \in opened \/ Pooled(s) \/ s > next => asked[s] = "none"
  /\ \A r \in Requests :
       /\ call[r].at = "has" => asked[call[r].stream] = "none"
       /\ call[r].at \in {"asked", "served"} => asked[call[r].stream] = call[r].kind
       /\ call[r].at = "served" => answer[call[r].stream] = "ok" /\ call[r].kind # "probe"
HandlersKept ==
  \A s \in Product!Streams :
    /\ handler[s] \in {"none", "waiting", "dialTCP", "dialUOT"} => answer[s] = "none"
    /\ handler[s] \in {"dialTCP", "TCP"} => asked[s] = "tcp"
    /\ handler[s] \in {"dialUOT", "UOT", "leaveUOT"} => asked[s] = "uot"
    /\ handler[s] = "leaveUOT" => answer[s] # "ok"
    /\ handler[s] = "finishing" => asked[s] # "none" /\ (answer[s] = "ok" => asked[s] = "probe")
    /\ handler[s] = "gone" => (answer[s] # "none" => asked[s] # "none")

ProductInv == 
  ProductTypes /\ PoolCounted /\ PlacesKept /\ FreshKept /\ SlotsHeld /\ AskedKept /\ HandlersKept

-----------------------------------------------------------------------------

LEMMA PoolConstants ==
  /\ PoolSize \in Nat /\ MaxUOTFlows \in Nat /\ MaxStreams \in Nat
  /\ Product!Streams = 1..MaxStreams /\ IsFiniteSet(Product!Streams)
  /\ \A S : Product!Cardinality(S) = Cardinality(S)
<1>1. PoolSize \in Nat /\ MaxUOTFlows \in Nat /\ MaxStreams \in Nat
  BY PoolAssumption
<1>2. IsFiniteSet(1..MaxStreams)
  BY <1>1, FS_Interval
<1>3. \A S : Product!Cardinality(S) = Cardinality(S)
  BY DEF Cardinality, Product!Cardinality
<1>. QED BY <1>1, <1>2, <1>3 DEF Product!Streams

(* Among some places, each has a rank, and each rank up to their number is *)
(* that of one place.                                                      *)
Rank(P, i) == Cardinality({j \in P : j <= i})

LEMMA Ranks ==
  ASSUME NEW n \in Nat, NEW P \in SUBSET (1..n)
  PROVE  /\ IsFiniteSet(P) /\ Cardinality(P) \in Nat /\ Cardinality(P) <= n
         /\ \A i \in P : Rank(P, i) \in 1..Cardinality(P)
         /\ \A k \in 1..Cardinality(P) : \E i \in P : Rank(P, i) = k
         /\ \A i, j \in P : Rank(P, i) = Rank(P, j) => i = j
<1>1. IsFiniteSet(1..n) /\ Cardinality(1..n) = n
  BY FS_Interval
<1>2. IsFiniteSet(P) /\ Cardinality(P) <= n
  BY <1>1, FS_Subset
<1>3. Cardinality(P) \in Nat
  BY <1>2, FS_CardinalityType
<1> DEFINE Upto(i) == {j \in P : j <= i}
<1>4. \A i \in P : IsFiniteSet(Upto(i)) /\ Cardinality(Upto(i)) \in Nat /\ Cardinality(Upto(i)) <= Cardinality(P)
  <2> TAKE i \in P
  <2>1. Upto(i) \in SUBSET P
    OBVIOUS
  <2>2. IsFiniteSet(Upto(i)) /\ Cardinality(Upto(i)) <= Cardinality(P)
    BY <1>2, <2>1, FS_Subset
  <2>. QED BY <2>2, FS_CardinalityType
<1>5. \A i \in P : Cardinality(Upto(i)) \in 1..Cardinality(P)
  <2> TAKE i \in P
  <2>1. i \in Upto(i)
    OBVIOUS
  <2>2. Cardinality(Upto(i)) # 0
    BY <1>4, <2>1, FS_EmptySet
  <2>. QED BY <1>3, <1>4, <2>2
<1>6. \A i, j \in P : i < j => Cardinality(Upto(i)) < Cardinality(Upto(j))
  <2> TAKE i, j \in P
  <2> HAVE i < j
  <2>1. Upto(i) \in SUBSET Upto(j)
    <3>1. \A m \in P : m \in Int
      OBVIOUS
    <3>2. \A m \in P : m <= i => m <= j
      BY <3>1
    <3>. QED BY <3>2
  <2>2. j \in Upto(j) /\ j \notin Upto(i)
    OBVIOUS
  <2>3. Upto(i) # Upto(j)
    BY <2>2
  <2>4. Cardinality(Upto(i)) <= Cardinality(Upto(j)) /\ Cardinality(Upto(i)) # Cardinality(Upto(j))
    <3> HIDE DEF Upto
    <3>. QED BY <1>4, <2>1, <2>3, FS_Subset
  <2>5. Cardinality(Upto(i)) \in Nat /\ Cardinality(Upto(j)) \in Nat
    BY <1>4
  <2>. QED BY <2>4, <2>5
<1> DEFINE f == [i \in P |-> Cardinality(Upto(i))]
<1> HIDE DEF Upto
<1>7. f \in [P -> 1..Cardinality(P)]
  BY <1>5
<1>8. \A i, j \in P : f[i] = f[j] => i = j
  <2> TAKE i, j \in P
  <2> HAVE f[i] = f[j]
  <2>1. ~(i < j) /\ ~(j < i)
    BY <1>4, <1>6
  <2>2. i \in Nat /\ j \in Nat
    OBVIOUS
  <2>. QED BY <2>1, <2>2
<1> HIDE DEF f
<1>9. f \in Injection(P, 1..Cardinality(P))
  BY <1>7, <1>8 DEF Injection, IsInjective
<1>10. IsFiniteSet(1..Cardinality(P)) /\ Cardinality(1..Cardinality(P)) = Cardinality(P)
  BY <1>3, FS_Interval
<1>11. f \in Surjection(P, 1..Cardinality(P))
  BY <1>9, <1>10, FS_Injection
<1>12. \A k \in 1..Cardinality(P) : \E i \in P : f[i] = k
  BY <1>11 DEF Surjection
<1>13. \A i \in P : f[i] = Rank(P, i)
  BY DEF f, Upto, Rank
<1>. QED BY <1>2, <1>3, <1>5, <1>7, <1>8, <1>12, <1>13

(* What is kept of a sequence is at as many places as are kept, each of    *)
(* them once.                                                              *)
LEMMA KeepingKept ==
  ASSUME NEW S, NEW s \in Seq(S), NEW P \in SUBSET DOMAIN s
  PROVE  /\ Cardinality(P) \in Nat /\ Cardinality(P) <= Len(s)
         /\ Product!Keeping(s, P) \in Seq(S) /\ Len(Product!Keeping(s, P)) = Cardinality(P)
         /\ DOMAIN Product!Keeping(s, P) = 1..Cardinality(P)
         /\ \E place \in [1..Cardinality(P) -> P] :
              /\ \A k \in 1..Cardinality(P) : Product!Keeping(s, P)[k] = s[place[k]]
              /\ \A i \in P : \E k \in 1..Cardinality(P) : place[k] = i
              /\ \A k, l \in 1..Cardinality(P) : place[k] = place[l] => k = l
<1>1. Len(s) \in Nat /\ P \in SUBSET (1..Len(s))
  OBVIOUS
<1>2. /\ IsFiniteSet(P) /\ Cardinality(P) \in Nat /\ Cardinality(P) <= Len(s)
      /\ \A i \in P : Rank(P, i) \in 1..Cardinality(P)
      /\ \A k \in 1..Cardinality(P) : \E i \in P : Rank(P, i) = k
      /\ \A i, j \in P : Rank(P, i) = Rank(P, j) => i = j
  BY <1>1, Ranks, Zenon
<1> DEFINE R(i) == Product!Cardinality({j \in P : j <= i})
           place == [k \in 1..Cardinality(P) |-> CHOOSE i \in P : R(i) = k]
<1>3. \A i : R(i) = Rank(P, i)
  BY PoolConstants DEF Rank
<1>4. Product!Keeping(s, P) = [k \in 1..Cardinality(P) |-> s[CHOOSE i \in P : R(i) = k]]
  <2>1. Product!Cardinality(P) = Cardinality(P)
    BY PoolConstants
  <2>. QED BY <2>1, Zenon DEF Product!Keeping
<1> HIDE DEF R
<1>5. \A k \in 1..Cardinality(P) : (CHOOSE i \in P : R(i) = k) \in P /\ R(CHOOSE i \in P : R(i) = k) = k
  <2> TAKE k \in 1..Cardinality(P)
  <2>1. \E i \in P : R(i) = k
    BY <1>2, <1>3, Zenon
  <2>. QED BY <2>1, Zenon
<1>6. place \in [1..Cardinality(P) -> P] /\ \A k \in 1..Cardinality(P) : R(place[k]) = k
  BY <1>5, Zenon
<1>7. Product!Keeping(s, P) = [k \in 1..Cardinality(P) |-> s[place[k]]]
  BY <1>4, Zenon
<1> HIDE DEF place
<1>8. \A k, l \in 1..Cardinality(P) : place[k] = place[l] => k = l
  BY <1>6, Zenon
<1>9. \A i \in P : \E k \in 1..Cardinality(P) : place[k] = i
  <2> TAKE i \in P
  <2>1. Rank(P, i) \in 1..Cardinality(P)
    BY <1>2, Zenon
  <2>2. place[Rank(P, i)] \in P /\ Rank(P, place[Rank(P, i)]) = Rank(P, i)
    BY <2>1, <1>3, <1>6
  <2>. QED BY <2>1, <2>2, <1>2
<1>10. Product!Keeping(s, P) \in Seq(S) /\ Len(Product!Keeping(s, P)) = Cardinality(P)
       /\ DOMAIN Product!Keeping(s, P) = 1..Cardinality(P)
       /\ \A k \in 1..Cardinality(P) : Product!Keeping(s, P)[k] = s[place[k]]
  <2>1. \A k \in 1..Cardinality(P) : s[place[k]] \in S
    BY <1>1, <1>6
  <2>. QED BY <1>2, <1>7, <2>1
<1>. QED BY <1>2, <1>6, <1>8, <1>9, <1>10, Zenon

-----------------------------------------------------------------------------

LEMMA CallFields ==
  /\ \A c \in Call :
       /\ c.at \in {"idle", "failed", "capable", "done", "looking", "opening"} \cup Holding
       /\ c.at \in {"looking", "opening"} => c.kind \in Product!Kinds
       /\ c.at \in Holding => c.kind \in Product!Kinds /\ c.stream \in Product!Streams
  /\ \A at \in {"idle", "failed", "capable", "done"} : [at |-> at] \in Call
  /\ \A at \in {"looking", "opening"}, k \in Product!Kinds : [at |-> at, kind |-> k] \in Call
  /\ \A at \in Holding, k \in Product!Kinds, s \in Product!Streams :
       [at |-> at, kind |-> k, stream |-> s] \in Call
<1> DEFINE A == [at : {"idle", "failed", "capable", "done"}]
           B == [at : {"looking", "opening"}, kind : Product!Kinds]
           C == [at : Holding, kind : Product!Kinds, stream : Product!Streams]
<1>1. \A c \in A : c.at \in {"idle", "failed", "capable", "done"}
  OBVIOUS
<1>2. \A c \in B : c.at \in {"looking", "opening"} /\ c.kind \in Product!Kinds
  OBVIOUS
<1>3. \A c \in C : c.at \in Holding /\ c.kind \in Product!Kinds /\ c.stream \in Product!Streams
  OBVIOUS
<1>4. \A at \in {"idle", "failed", "capable", "done"} : [at |-> at] \in A
  OBVIOUS
<1>5. \A at \in {"looking", "opening"}, k \in Product!Kinds : [at |-> at, kind |-> k] \in B
  OBVIOUS
<1>6. \A at \in Holding, k \in Product!Kinds, s \in Product!Streams : [at |-> at, kind |-> k, stream |-> s] \in C
  OBVIOUS
<1>7. Call = (A \cup B) \cup C
  BY DEF Call
<1> HIDE DEF A, B, C
<1>8. \A c \in Call : c \in A \/ c \in B \/ c \in C
  BY <1>7
<1>. QED BY <1>1, <1>2, <1>3, <1>4, <1>5, <1>6, <1>7, <1>8 DEF Holding

LEMMA CallNow ==
  ASSUME ProductInv, NEW r \in Requests
  PROVE  /\ call[r].at \in {"idle", "failed", "capable", "done", "looking", "opening"} \cup Holding
         /\ call[r].at \in {"looking", "opening"} => call[r].kind \in Product!Kinds
         /\ call[r].at \in Holding => call[r].kind \in Product!Kinds /\ call[r].stream \in Product!Streams
<1>1. call[r] \in Call
  BY DEF ProductInv, ProductTypes
<1>. QED BY <1>1, CallFields

LEMMA CallNext ==
  ASSUME ProductInv, NEW r \in Requests, NEW c \in Call, Product!Becomes(r, c)
  PROVE  /\ call' \in [Requests -> Call] /\ call'[r] = c
         /\ \A q \in Requests : q # r => call'[q] = call[q]
BY DEF ProductInv, ProductTypes, Product!Becomes

(* What a step leaves alone.                                               *)

LEMMA PlacesFewer ==
  ASSUME ProductInv, open' \subseteq open, UNCHANGED <<pool, opened, call>>
  PROVE  PlacesKept'
BY DEF ProductInv, PlacesKept, Held, Pooled, Product!Elements

LEMMA FreshSame ==
  ASSUME ProductInv, open' \subseteq open, UNCHANGED <<pool, opened, call, next, handler>>
  PROVE  FreshKept'
BY DEF ProductInv, FreshKept, Held, Pooled, Product!Elements

LEMMA SlotsSame ==
  ASSUME ProductInv, UNCHANGED <<handler, uotActive>>
  PROVE  SlotsHeld'
<1>1. TakesSlot' = TakesSlot
  BY DEF TakesSlot
<1>. QED BY <1>1 DEF ProductInv, SlotsHeld

LEMMA AskedSame ==
  ASSUME ProductInv, UNCHANGED <<asked, answer, call, opened, pool, next>>
  PROVE  AskedKept'
BY DEF ProductInv, AskedKept, Pooled, Product!Elements

LEMMA HandlersSame ==
  ASSUME ProductInv, UNCHANGED <<handler, answer, asked>>
  PROVE  HandlersKept'
BY DEF ProductInv, HandlersKept

LEMMA CountedSame ==
  ASSUME ProductInv, UNCHANGED <<opened, opening, openers, pool>>
  PROVE  PoolCounted'
BY DEF ProductInv, PoolCounted

LEMMA Counted ==
  ASSUME ProductInv
  PROVE  /\ Cardinality(opened) \in Nat /\ IsFiniteSet(opened) /\ opening = openers + Cardinality(opened)
         /\ opening \in Nat /\ openers \in Nat
         /\ \A s \in opened : opening > 0
<1>1. IsFiniteSet(opened) /\ opening = openers + Cardinality(opened) /\ opening \in Nat /\ openers \in Nat
  BY DEF ProductInv, PoolCounted, ProductTypes
<1>2. Cardinality(opened) \in Nat
  BY <1>1, FS_CardinalityType
<1>3. \A s \in opened : Cardinality(opened) # 0
  BY <1>1, FS_EmptySet
<1>4. opened # {} => opening > 0
  BY <1>1, <1>2, <1>3
<1>. QED BY <1>1, <1>2, <1>4

-----------------------------------------------------------------------------
(* The Session and the pool.                                               *)

LEMMA SessionEndsKeeps ==
  ASSUME ProductInv, Product!SessionEnds
  PROVE  ProductInv'
<1>1. /\ open' = {}
      /\ UNCHANGED <<pool, opening, openers, opened, age, answer, handler, uotActive, call, asked, next>>
  BY DEF Product!SessionEnds, Product!poolVars, Product!serverVars
<1>2. ProductTypes'
  BY <1>1 DEF ProductInv, ProductTypes
<1>. QED BY <1>1, <1>2, PlacesFewer, FreshSame, SlotsSame, AskedSame, HandlersSame, CountedSame DEF ProductInv

LEMMA ServerClosesKeeps ==
  ASSUME ProductInv, NEW s \in Product!Streams, Product!ServerCloses(s)
  PROVE  ProductInv'
<1>1. /\ open' \subseteq open
      /\ UNCHANGED <<pool, opening, openers, opened, age, answer, handler, uotActive, call, asked, next>>
  BY DEF Product!ServerCloses, Product!poolVars, Product!serverVars
<1>2. ProductTypes'
  BY <1>1 DEF ProductInv, ProductTypes
<1>. QED BY <1>1, <1>2, PlacesFewer, FreshSame, SlotsSame, AskedSame, HandlersSame, CountedSame DEF ProductInv

LEMMA AgesKeeps ==
  ASSUME ProductInv, NEW s \in Product!Streams, Product!Ages(s)
  PROVE  ProductInv'
<1>1. /\ \E a \in {1, 2} : age' = [age EXCEPT ![s] = a]
      /\ UNCHANGED <<pool, opening, openers, opened, open, answer, handler, uotActive, call, asked, next>>
  BY DEF Product!Ages, Product!serverVars
<1>2. age' \in [Product!Streams -> 0..2]
  BY <1>1 DEF ProductInv, ProductTypes
<1>3. ProductTypes'
  BY <1>1, <1>2 DEF ProductInv, ProductTypes
<1>. QED BY <1>1, <1>3, PlacesFewer, FreshSame, SlotsSame, AskedSame, HandlersSame, CountedSame DEF ProductInv

LEMMA PoolFailsKeeps ==
  ASSUME ProductInv, Product!PoolFails
  PROVE  ProductInv'
<1>1. /\ openers > 0 /\ openers' = openers - 1 /\ opening' = Product!GivenUp
      /\ UNCHANGED <<pool, opened, age, open, answer, handler, uotActive, call, asked, next>>
  BY DEF Product!PoolFails, Product!serverVars
<1>2. opening > 0
  BY <1>1, Counted
<1>3. openers' \in Nat /\ opening' \in Nat /\ opening' = opening - 1
  BY <1>1, <1>2, Counted DEF Product!GivenUp
<1>4. ProductTypes'
  BY <1>1, <1>3 DEF ProductInv, ProductTypes
<1>5. PoolCounted'
  <2>1. Len(pool) \in Nat /\ Len(pool) + opening <= PoolSize /\ PoolSize \in Nat
    BY PoolConstants DEF ProductInv, ProductTypes, PoolCounted
  <2>2. Len(pool') + opening' <= PoolSize
    BY <1>1, <1>3, <2>1, Counted
  <2>3. opening' = openers' + Cardinality(opened') /\ IsFiniteSet(opened')
    BY <1>1, <1>3, Counted
  <2>. QED BY <2>2, <2>3 DEF PoolCounted
<1>. QED BY <1>1, <1>4, <1>5, PlacesFewer, FreshSame, SlotsSame, AskedSame, HandlersSame DEF ProductInv

(* A Stream that is not opened yet.                                        *)
LEMMA Fresh ==
  ASSUME ProductInv, NEW s \in Product!Streams, s > next
  PROVE  /\ ~Pooled(s) /\ ~Held(s) /\ s \notin opened /\ s \notin open
         /\ handler[s] = "none" /\ asked[s] = "none" /\ answer[s] = "none"
BY DEF ProductInv, FreshKept, AskedKept, HandlersKept

LEMMA OpensKeeps ==
  ASSUME ProductInv, Product!Opens
  PROVE  /\ next' \in Product!Streams /\ next' > next /\ next' \in 0..MaxStreams
         /\ open' = open \cup {next'} /\ open' \subseteq Product!Streams
         /\ handler' = [handler EXCEPT ![next'] = "waiting"]
         /\ \A s \in Product!Streams : handler'[s] = IF s = next' THEN "waiting" ELSE handler[s]
         /\ handler' \in [Product!Streams ->
              {"none", "waiting", "dialTCP", "dialUOT", "TCP", "UOT", "leaveUOT", "finishing", "gone"}]
<1>1. /\ next < MaxStreams /\ next' = next + 1 /\ open' = open \cup {next'}
      /\ handler' = [handler EXCEPT ![next'] = "waiting"]
  BY DEF Product!Opens
<1>2. next \in 0..MaxStreams /\ open \subseteq Product!Streams
      /\ handler \in [Product!Streams ->
              {"none", "waiting", "dialTCP", "dialUOT", "TCP", "UOT", "leaveUOT", "finishing", "gone"}]
  BY DEF ProductInv, ProductTypes
<1>3. next' \in Product!Streams /\ next' > next /\ next' \in 0..MaxStreams
  BY <1>1, <1>2, PoolConstants
<1>. QED BY <1>1, <1>2, <1>3

(* What an Open changes of the handlers, whoever has the Stream.           *)
LEMMA OpensHandlers ==
  ASSUME ProductInv, Product!Opens, UNCHANGED <<answer, asked, uotActive>>
  PROVE  SlotsHeld' /\ HandlersKept'
<1>1. /\ next' \in Product!Streams /\ next' > next
      /\ \A s \in Product!Streams : handler'[s] = IF s = next' THEN "waiting" ELSE handler[s]
  BY OpensKeeps
<1>2. handler[next'] = "none" /\ asked[next'] = "none" /\ answer[next'] = "none"
  BY <1>1, Fresh
<1>3. TakesSlot' = TakesSlot
  BY <1>1, <1>2 DEF TakesSlot
<1>4. SlotsHeld'
  BY <1>3 DEF ProductInv, SlotsHeld
<1>5. HandlersKept'
  BY <1>1, <1>2 DEF ProductInv, HandlersKept
<1>. QED BY <1>4, <1>5

-----------------------------------------------------------------------------

LEMMA PoolOpensKeeps ==
  ASSUME ProductInv, Product!PoolOpens
  PROVE  ProductInv'
<1> DEFINE s == next'
<1>1. /\ Product!Opens /\ openers > 0 /\ openers' = openers - 1 /\ opened' = opened \cup {s}
      /\ UNCHANGED <<pool, opening, age, answer, uotActive, call, asked>>
  BY DEF Product!PoolOpens
<1>2. /\ s \in Product!Streams /\ s > next /\ s \in 0..MaxStreams
      /\ open' = open \cup {s} /\ open' \subseteq Product!Streams
      /\ \A z \in Product!Streams : handler'[z] = IF z = s THEN "waiting" ELSE handler[z]
      /\ handler' \in [Product!Streams ->
           {"none", "waiting", "dialTCP", "dialUOT", "TCP", "UOT", "leaveUOT", "finishing", "gone"}]
  BY <1>1, OpensKeeps
<1>3. ~Pooled(s) /\ ~Held(s) /\ s \notin opened /\ asked[s] = "none"
  BY <1>2, Fresh
<1>4. openers' \in Nat /\ opened' \subseteq Product!Streams
  BY <1>1, <1>2, Counted DEF ProductInv, ProductTypes
<1>5. ProductTypes'
  BY <1>1, <1>2, <1>4 DEF ProductInv, ProductTypes
<1>6. PoolCounted'
  <2>1. IsFiniteSet(opened') /\ Cardinality(opened') = Cardinality(opened) + 1
    BY <1>1, <1>3, Counted, FS_AddElement
  <2>2. opening' = openers' + Cardinality(opened')
    BY <1>1, <2>1, Counted
  <2>. QED BY <1>1, <2>1, <2>2 DEF ProductInv, PoolCounted
<1>7. \A z \in Product!Streams : Pooled(z)' = Pooled(z) /\ Held(z)' = Held(z)
  BY <1>1 DEF Pooled, Held, Product!Elements
<1>8. PlacesKept'
  <2>1. /\ \A i, j \in DOMAIN pool' : pool'[i] = pool'[j] => i = j
        /\ \A r, q \in Requests :
             call'[r].at \in Holding /\ call'[q].at \in Holding /\ call'[r].stream = call'[q].stream => r = q
    BY <1>1 DEF ProductInv, PlacesKept
  <2>2. \A z \in opened' : ~Pooled(z)' /\ ~Held(z)'
    BY <1>1, <1>3, <1>4, <1>7 DEF ProductInv, PlacesKept
  <2>3. \A z \in Product!Streams : ~(Pooled(z)' /\ Held(z)')
    BY <1>7 DEF ProductInv, PlacesKept
  <2>4. \A z \in open' : Pooled(z)' \/ Held(z)' \/ z \in opened'
    BY <1>1, <1>2, <1>7 DEF ProductInv, PlacesKept
  <2>. QED BY <2>1, <2>2, <2>3, <2>4 DEF PlacesKept
<1>9. next \in Nat /\ \A z \in Product!Streams : z > s => z > next /\ z # s
  BY <1>2, PoolConstants DEF ProductInv, ProductTypes
<1>10. FreshKept'
  <2> SUFFICES ASSUME NEW z \in Product!Streams, z > s
               PROVE  ~Pooled(z)' /\ ~Held(z)' /\ z \notin opened' /\ z \notin open' /\ handler'[z] = "none"
    BY DEF FreshKept
  <2>. QED BY <1>1, <1>2, <1>7, <1>9, Fresh
<1>11. AskedKept'
  <2>1. \A z \in Product!Streams : z \in opened' \/ Pooled(z)' \/ z > s => asked'[z] = "none"
    BY <1>1, <1>3, <1>7, <1>9 DEF ProductInv, AskedKept
  <2>. QED BY <1>1, <2>1 DEF ProductInv, AskedKept
<1>12. SlotsHeld' /\ HandlersKept'
  BY <1>1, OpensHandlers
<1>. QED BY <1>5, <1>6, <1>8, <1>10, <1>11, <1>12 DEF ProductInv

(* A request that has no Stream any more, which is closed if it had one.   *)
LEMMA Released ==
  ASSUME ProductInv, NEW r \in Requests, NEW c \in Call, Product!Becomes(r, c), c.at \notin Holding,
         open' \subseteq open, call[r].at \in Holding => call[r].stream \notin open',
         UNCHANGED <<pool, opening, openers, opened, age, answer, handler, uotActive, asked, next>>
  PROVE  ProductInv'
<1>1. call' \in [Requests -> Call] /\ call'[r] = c /\ \A q \in Requests : q # r => call'[q] = call[q]
  BY CallNext
<1>2. ProductTypes'
  BY <1>1 DEF ProductInv, ProductTypes
<1>3. \A z \in Product!Streams : Pooled(z)' = Pooled(z)
  BY DEF Pooled, Product!Elements
<1>4. \A z \in Product!Streams : Held(z)' => Held(z)
  BY <1>1 DEF Held
<1>5. \A z \in open' : Held(z) => Held(z)'
  BY <1>1 DEF Held
<1>6. PlacesKept'
  <2>1. \A p, q \in Requests :
          call'[p].at \in Holding /\ call'[q].at \in Holding /\ call'[p].stream = call'[q].stream => p = q
    BY <1>1 DEF ProductInv, PlacesKept
  <2>2. \A z \in opened' : ~Pooled(z)' /\ ~Held(z)'
    BY <1>3, <1>4 DEF ProductInv, ProductTypes, PlacesKept
  <2>3. \A z \in open' : Pooled(z)' \/ Held(z)' \/ z \in opened'
    BY <1>3, <1>5 DEF ProductInv, ProductTypes, PlacesKept
  <2>. QED BY <1>3, <1>4, <2>1, <2>2, <2>3 DEF ProductInv, PlacesKept
<1>7. FreshKept'
  BY <1>3, <1>4 DEF ProductInv, FreshKept
<1>8. AskedKept'
  <2>1. \A q \in Requests :
          /\ call'[q].at = "has" => asked'[call'[q].stream] = "none"
          /\ call'[q].at \in {"asked", "served"} => asked'[call'[q].stream] = call'[q].kind
          /\ call'[q].at = "served" => answer'[call'[q].stream] = "ok" /\ call'[q].kind # "probe"
    BY <1>1 DEF ProductInv, AskedKept, Holding
  <2>. QED BY <1>3, <2>1 DEF ProductInv, AskedKept
<1>. QED BY <1>2, <1>6, <1>7, <1>8, SlotsSame, HandlersSame, CountedSame DEF ProductInv

(* A request that keeps its Stream.                                        *)
LEMMA Goes ==
  ASSUME ProductInv, NEW r \in Requests, NEW c \in Call, Product!Becomes(r, c),
         call[r].at \in Holding, c.at \in Holding, c.stream = call[r].stream,
         UNCHANGED <<pool, opening, openers, opened, open, age, answer, handler, uotActive, next>>
  PROVE  /\ call' \in [Requests -> Call] /\ call'[r] = c
         /\ \A q \in Requests : q # r => call'[q] = call[q]
         /\ PoolCounted' /\ PlacesKept' /\ FreshKept' /\ SlotsHeld'
         /\ \A z \in Product!Streams : Pooled(z)' = Pooled(z)
<1>1. call' \in [Requests -> Call] /\ call'[r] = c /\ \A q \in Requests : q # r => call'[q] = call[q]
  BY CallNext
<1>2. \A z \in Product!Streams : Pooled(z)' = Pooled(z)
  BY DEF Pooled, Product!Elements
<1>3. \A z \in Product!Streams : Held(z)' = Held(z)
  BY <1>1 DEF Held
<1>4. PlacesKept'
  <2>1. \A q \in Requests :
          /\ call'[q].at \in Holding => call[q].at \in Holding /\ call'[q].stream = call[q].stream
    BY <1>1
  <2>2. \A p, q \in Requests :
          call'[p].at \in Holding /\ call'[q].at \in Holding /\ call'[p].stream = call'[q].stream => p = q
    BY <2>1 DEF ProductInv, PlacesKept
  <2>. QED BY <1>2, <1>3, <2>2 DEF ProductInv, ProductTypes, PlacesKept
<1>5. FreshKept'
  BY <1>2, <1>3 DEF ProductInv, FreshKept
<1>. QED BY <1>1, <1>2, <1>4, <1>5, SlotsSame, CountedSame

LEMMA OpensOwnKeeps ==
  ASSUME ProductInv, NEW r \in Requests, Product!OpensOwn(r)
  PROVE  ProductInv'
<1>1. /\ call[r].at = "opening" /\ call[r].kind \in Product!Kinds
      /\ UNCHANGED <<pool, opening, openers, opened, age, answer, uotActive, asked>>
  BY CallNow DEF Product!OpensOwn, Product!poolVars
<1>2. CASE Product!Opens /\ Product!Becomes(r, [at |-> "has", kind |-> call[r].kind, stream |-> next'])
  <2> PICK s \in Product!Streams : s = next'
    BY <1>2, OpensKeeps
  <2>1. /\ s \in Product!Streams /\ s > next /\ s \in 0..MaxStreams
        /\ open' = open \cup {s} /\ open' \subseteq Product!Streams
        /\ \A z \in Product!Streams : handler'[z] = IF z = s THEN "waiting" ELSE handler[z]
        /\ handler' \in [Product!Streams ->
             {"none", "waiting", "dialTCP", "dialUOT", "TCP", "UOT", "leaveUOT", "finishing", "gone"}]
    BY <1>2, OpensKeeps
  <2> DEFINE c == [at |-> "has", kind |-> call[r].kind, stream |-> s]
  <2>2. c \in Call /\ c.at = "has" /\ c.stream = s
    BY <1>1, <2>1, CallFields DEF Holding
  <2>3. call' \in [Requests -> Call] /\ call'[r] = c /\ \A q \in Requests : q # r => call'[q] = call[q]
    BY <1>2, <2>2, CallNext
  <2> HIDE DEF c
  <2>4. ~Pooled(s) /\ ~Held(s) /\ s \notin opened /\ asked[s] = "none"
    BY <2>1, Fresh
  <2>5. ProductTypes'
    BY <1>1, <2>1, <2>3 DEF ProductInv, ProductTypes
  <2>6. \A z \in Product!Streams : Pooled(z)' = Pooled(z)
    BY <1>1 DEF Pooled, Product!Elements
  <2>7. \A z \in Product!Streams : Held(z)' => Held(z) \/ z = s
    BY <2>2, <2>3 DEF Held
  <2>8. \A z \in Product!Streams : Held(z) => Held(z)'
    BY <1>1, <2>3 DEF Held, Holding
  <2>9. Held(s)'
    BY <2>2, <2>3 DEF Held, Holding
  <2>10. PlacesKept'
    <3>1. \A i, j \in DOMAIN pool' : pool'[i] = pool'[j] => i = j
      BY <1>1 DEF ProductInv, PlacesKept
    <3>2. \A p, q \in Requests :
            call'[p].at \in Holding /\ call'[q].at \in Holding /\ call'[p].stream = call'[q].stream => p = q
      BY <2>2, <2>3, <2>4 DEF ProductInv, PlacesKept, Held
    <3>3. \A z \in opened' : ~Pooled(z)' /\ ~Held(z)'
      BY <1>1, <2>4, <2>6, <2>7 DEF ProductInv, ProductTypes, PlacesKept
    <3>4. \A z \in Product!Streams : ~(Pooled(z)' /\ Held(z)')
      BY <2>4, <2>6, <2>7 DEF ProductInv, PlacesKept
    <3>5. \A z \in open' : Pooled(z)' \/ Held(z)' \/ z \in opened'
      BY <1>1, <2>1, <2>6, <2>8, <2>9 DEF ProductInv, PlacesKept
    <3>. QED BY <3>1, <3>2, <3>3, <3>4, <3>5 DEF PlacesKept
  <2>11. next \in Nat /\ \A z \in Product!Streams : z > s => z > next /\ z # s
    BY <2>1, PoolConstants DEF ProductInv, ProductTypes
  <2>12. FreshKept'
    <3> SUFFICES ASSUME NEW z \in Product!Streams, z > s
                 PROVE  ~Pooled(z)' /\ ~Held(z)' /\ z \notin opened' /\ z \notin open' /\ handler'[z] = "none"
      BY DEF FreshKept
    <3>. QED BY <1>1, <2>1, <2>6, <2>7, <2>11, Fresh
  <2>13. AskedKept'
    <3>1. \A z \in Product!Streams : z \in opened' \/ Pooled(z)' \/ z > s => asked'[z] = "none"
      BY <1>1, <2>6, <2>11 DEF ProductInv, AskedKept
    <3>2. \A q \in Requests :
            /\ call'[q].at = "has" => asked'[call'[q].stream] = "none"
            /\ call'[q].at \in {"asked", "served"} => asked'[call'[q].stream] = call'[q].kind
            /\ call'[q].at = "served" => answer'[call'[q].stream] = "ok" /\ call'[q].kind # "probe"
      BY <1>1, <2>2, <2>3, <2>4 DEF ProductInv, AskedKept
    <3>. QED BY <3>1, <3>2 DEF AskedKept
  <2>14. SlotsHeld' /\ HandlersKept'
    BY <1>1, <1>2, OpensHandlers
  <2>. QED BY <1>1, <2>5, <2>10, <2>12, <2>13, <2>14, CountedSame DEF ProductInv
<1>3. CASE Product!Becomes(r, [at |-> "failed"]) /\ UNCHANGED <<open, handler, next>>
  <2>1. [at |-> "failed"] \in Call
    BY CallFields
  <2> DEFINE c == [at |-> "failed"]
  <2>2. c \in Call /\ c.at \notin Holding /\ Product!Becomes(r, c)
    BY <1>3, <2>1 DEF Holding
  <2>3. call[r].at \notin Holding
    BY <1>1 DEF Holding
  <2> HIDE DEF c
  <2>. QED BY <1>1, <1>3, <2>2, <2>3, Released
<1>. QED BY <1>2, <1>3 DEF Product!OpensOwn

LEMMA FinishKeeps ==
  ASSUME ProductInv, NEW r \in Requests, Product!Finish(r)
  PROVE  ProductInv'
<1>1. /\ open' = open \ {call[r].stream} /\ Product!Becomes(r, [at |-> "done"])
      /\ UNCHANGED <<pool, opening, openers, opened, age, answer, handler, uotActive, asked, next>>
  BY DEF Product!Finish, Product!poolVars, Product!serverVars
<1>2. [at |-> "done"] \in Call
  BY CallFields
<1>3. [at |-> "done"].at \notin Holding
  BY DEF Holding
<1>. QED BY <1>1, <1>2, <1>3, Released

LEMMA AskKeeps ==
  ASSUME ProductInv, NEW r \in Requests, Product!Ask(r)
  PROVE  ProductInv'
<1> PICK s \in Product!Streams : s = call[r].stream
  BY CallNow DEF Product!Ask, Holding
<1>1. /\ call[r].at = "has" /\ call[r].kind \in Product!Kinds /\ call[r] \in Call
      /\ UNCHANGED <<pool, opening, openers, opened, age, answer, handler, uotActive, open, next>>
  BY CallNow DEF Product!Ask, Product!poolVars, Product!serverVars, Holding, ProductInv, ProductTypes
<1>2. CASE s \in open
  <2> DEFINE c == [call[r] EXCEPT !.at = "asked"]
  <2>1. asked' = [asked EXCEPT ![s] = call[r].kind] /\ Product!Becomes(r, c)
    BY <1>2 DEF Product!Ask
  <2>2. c \in Call /\ c.at = "asked" /\ c.stream = s /\ c.kind = call[r].kind
    <3>1. call[r] \in [at : Holding, kind : Product!Kinds, stream : Product!Streams]
      BY <1>1 DEF Call, Holding
    <3>2. c \in [at : Holding, kind : Product!Kinds, stream : Product!Streams]
          /\ c.at = "asked" /\ c.stream = s /\ c.kind = call[r].kind
      BY <3>1 DEF Holding
    <3>. QED BY <3>2 DEF Call
  <2> HIDE DEF c
  <2>3. /\ call' \in [Requests -> Call] /\ call'[r] = c
        /\ \A q \in Requests : q # r => call'[q] = call[q]
        /\ PoolCounted' /\ PlacesKept' /\ FreshKept' /\ SlotsHeld'
        /\ \A z \in Product!Streams : Pooled(z)' = Pooled(z)
    BY <1>1, <2>1, <2>2, Goes DEF Holding
  <2>4. asked[s] = "none" /\ Held(s)
    BY <1>1 DEF ProductInv, AskedKept, Held, Holding
  <2>5. /\ asked' \in [Product!Streams -> Product!Kinds \cup {"none"}] /\ asked'[s] = call[r].kind
        /\ \A z \in Product!Streams : z # s => asked'[z] = asked[z]
    BY <1>1, <2>1 DEF ProductInv, ProductTypes
  <2>6. ProductTypes'
    BY <1>1, <2>3, <2>5 DEF ProductInv, ProductTypes
  <2>7. AskedKept'
    <3>1. s \notin opened /\ ~Pooled(s) /\ ~(s > next)
      BY <2>4 DEF ProductInv, PlacesKept, FreshKept
    <3>2. \A z \in Product!Streams : z \in opened' \/ Pooled(z)' \/ z > next' => asked'[z] = "none"
      BY <1>1, <2>3, <2>5, <3>1 DEF ProductInv, AskedKept
    <3>3. \A q \in Requests : q # r /\ call[q].at \in Holding => call[q].stream # s
      BY <1>1 DEF ProductInv, PlacesKept, Holding
    <3>4. \A q \in Requests : call[q].at \in Holding => call[q].stream \in Product!Streams
      BY CallNow
    <3>5. \A q \in Requests :
            /\ call'[q].at = "has" => asked'[call'[q].stream] = "none"
            /\ call'[q].at \in {"asked", "served"} => asked'[call'[q].stream] = call'[q].kind
            /\ call'[q].at = "served" => answer'[call'[q].stream] = "ok" /\ call'[q].kind # "probe"
      <4> TAKE q \in Requests
      <4>1. CASE q = r
        BY <4>1, <2>2, <2>3, <2>5
      <4>2. CASE q # r
        BY <4>2, <1>1, <2>3, <2>5, <3>3, <3>4 DEF ProductInv, AskedKept, Holding
      <4>. QED BY <4>1, <4>2
    <3>. QED BY <3>2, <3>5 DEF AskedKept
  <2>8. HandlersKept'
    <3> SUFFICES ASSUME NEW z \in Product!Streams
                 PROVE
                   /\ handler'[z] \in {"none", "waiting", "dialTCP", "dialUOT"} => answer'[z] = "none"
                   /\ handler'[z] \in {"dialTCP", "TCP"} => asked'[z] = "tcp"
                   /\ handler'[z] \in {"dialUOT", "UOT", "leaveUOT"} => asked'[z] = "uot"
                   /\ handler'[z] = "leaveUOT" => answer'[z] # "ok"
                   /\ handler'[z] = "finishing" => asked'[z] # "none" /\ (answer'[z] = "ok" => asked'[z] = "probe")
                   /\ handler'[z] = "gone" => (answer'[z] # "none" => asked'[z] # "none")
      BY DEF HandlersKept
    <3>1. handler[z] \in {"none", "waiting", "dialTCP", "dialUOT", "TCP", "UOT", "leaveUOT", "finishing", "gone"}
      BY DEF ProductInv, ProductTypes
    <3>. QED BY <1>1, <2>4, <2>5, <3>1 DEF ProductInv, HandlersKept
  <2>. QED BY <2>3, <2>6, <2>7, <2>8 DEF ProductInv
<1>3. CASE s \notin open
  <2>1. Product!Becomes(r, [at |-> "failed"]) /\ UNCHANGED asked
    BY <1>3 DEF Product!Ask
  <2>2. [at |-> "failed"] \in Call
    BY CallFields
  <2>3. [at |-> "failed"].at \notin Holding
    BY DEF Holding
  <2>. QED BY <1>1, <1>3, <2>1, <2>2, <2>3, Released
<1>. QED BY <1>2, <1>3

LEMMA ReadReplyKeeps ==
  ASSUME ProductInv, NEW r \in Requests, Product!ReadReply(r)
  PROVE  ProductInv'
<1> PICK s \in Product!Streams : s = call[r].stream
  BY CallNow DEF Product!ReadReply, Holding
<1>1. /\ call[r].at = "asked" /\ call[r].kind \in Product!Kinds /\ call[r] \in Call
      /\ UNCHANGED <<pool, opening, openers, opened, age, answer, handler, uotActive, asked, next>>
  BY CallNow DEF Product!ReadReply, Product!poolVars, Product!serverVars, Holding, ProductInv, ProductTypes
<1>2. CASE s \in open /\ answer[s] = "ok" /\ call[r].kind # "probe"
  <2> DEFINE c == [call[r] EXCEPT !.at = "served"]
  <2>1. open' = open /\ Product!Becomes(r, c)
    BY <1>2 DEF Product!ReadReply, Product!Accepts
  <2>2. c \in Call /\ c.at = "served" /\ c.stream = s /\ c.kind = call[r].kind
    <3>1. call[r] \in [at : Holding, kind : Product!Kinds, stream : Product!Streams]
      BY <1>1 DEF Call, Holding
    <3>2. c \in [at : Holding, kind : Product!Kinds, stream : Product!Streams]
          /\ c.at = "served" /\ c.stream = s /\ c.kind = call[r].kind
      BY <3>1 DEF Holding
    <3>. QED BY <3>2 DEF Call
  <2> HIDE DEF c
  <2>3. /\ call' \in [Requests -> Call] /\ call'[r] = c
        /\ \A q \in Requests : q # r => call'[q] = call[q]
        /\ PoolCounted' /\ PlacesKept' /\ FreshKept' /\ SlotsHeld'
        /\ \A z \in Product!Streams : Pooled(z)' = Pooled(z)
    BY <1>1, <2>1, <2>2, Goes DEF Holding
  <2>4. ProductTypes'
    BY <1>1, <2>1, <2>3 DEF ProductInv, ProductTypes
  <2>5. AskedKept'
    <3>1. \A z \in Product!Streams : z \in opened' \/ Pooled(z)' \/ z > next' => asked'[z] = "none"
      BY <1>1, <2>3 DEF ProductInv, AskedKept
    <3>2. asked[s] = call[r].kind
      BY <1>1 DEF ProductInv, AskedKept
    <3>3. \A q \in Requests :
            /\ call'[q].at = "has" => asked'[call'[q].stream] = "none"
            /\ call'[q].at \in {"asked", "served"} => asked'[call'[q].stream] = call'[q].kind
            /\ call'[q].at = "served" => answer'[call'[q].stream] = "ok" /\ call'[q].kind # "probe"
      BY <1>1, <1>2, <2>2, <2>3, <3>2 DEF ProductInv, AskedKept
    <3>. QED BY <3>1, <3>3 DEF AskedKept
  <2>. QED BY <1>1, <2>3, <2>4, <2>5, HandlersSame DEF ProductInv
<1>3. CASE ~(s \in open /\ answer[s] = "ok" /\ call[r].kind # "probe")
  <2>1. /\ \E at \in {"capable", "failed"} : Product!Becomes(r, [at |-> at])
        /\ open' = open \ {s} \/ (s \notin open /\ open' = open)
    BY <1>3 DEF Product!ReadReply, Product!Accepts
  <2> PICK at \in {"capable", "failed"} : Product!Becomes(r, [at |-> at])
    BY <2>1
  <2>2. [at |-> at] \in Call
    BY CallFields
  <2>3. [at |-> at].at \notin Holding
    BY DEF Holding
  <2>4. open' \subseteq open /\ s \notin open'
    BY <2>1
  <2>. QED BY <1>1, <2>2, <2>3, <2>4, Released
<1>. QED BY <1>2, <1>3

-----------------------------------------------------------------------------
(* The handlers.                                                           *)

(* A handler goes from one place to another.                               *)
LEMMA HandlerMoves ==
  ASSUME ProductInv, NEW s \in Product!Streams, handler[s] # "none",
         NEW h \in {"dialTCP", "dialUOT", "TCP", "UOT", "leaveUOT", "finishing", "gone"}, NEW a,
         a \in {"none", "ok", "full", "unsupported", "noBackend"},
         Product!Handles(s, h), answer' = [answer EXCEPT ![s] = a], a = answer[s] \/ answer[s] = "none",
         uotActive' \in Nat,
         h \in {"dialTCP", "dialUOT"} => a = "none",
         h \in {"dialTCP", "TCP"} => asked[s] = "tcp",
         h \in {"dialUOT", "UOT", "leaveUOT"} => asked[s] = "uot",
         h = "leaveUOT" => a # "ok",
         h = "finishing" => asked[s] # "none" /\ (a = "ok" => asked[s] = "probe"),
         h = "gone" => (a # "none" => asked[s] # "none"),
         UNCHANGED <<pool, opening, openers, opened, age, open, call, asked, next>>
  PROVE  /\ ProductTypes' /\ PoolCounted' /\ PlacesKept' /\ FreshKept' /\ AskedKept' /\ HandlersKept'
         /\ \A z \in Product!Streams : handler'[z] = IF z = s THEN h ELSE handler[z]
<1>1. /\ handler' \in [Product!Streams ->
           {"none", "waiting", "dialTCP", "dialUOT", "TCP", "UOT", "leaveUOT", "finishing", "gone"}]
      /\ \A z \in Product!Streams : handler'[z] = IF z = s THEN h ELSE handler[z]
  BY DEF ProductInv, ProductTypes, Product!Handles
<1>2. /\ answer' \in [Product!Streams -> {"none", "ok", "full", "unsupported", "noBackend"}]
      /\ \A z \in Product!Streams : answer'[z] = IF z = s THEN a ELSE answer[z]
  BY DEF ProductInv, ProductTypes
<1>3. ProductTypes'
  BY <1>1, <1>2 DEF ProductInv, ProductTypes
<1>4. FreshKept'
  <2>1. \A z \in Product!Streams : Pooled(z)' = Pooled(z) /\ Held(z)' = Held(z)
    BY DEF Pooled, Held, Product!Elements
  <2>. QED BY <1>1, <2>1 DEF ProductInv, FreshKept
<1>5. AskedKept'
  <2>1. \A z \in Product!Streams : Pooled(z)' = Pooled(z)
    BY DEF Pooled, Product!Elements
  <2>2. \A q \in Requests : call[q].at \in Holding => call[q].stream \in Product!Streams
    BY CallNow
  <2>3. \A z \in Product!Streams : answer[z] = "ok" => answer'[z] = "ok"
    BY <1>2
  <2>. QED BY <2>1, <2>2, <2>3 DEF ProductInv, AskedKept, Holding
<1>6. HandlersKept'
  <2> SUFFICES ASSUME NEW z \in Product!Streams
               PROVE
                 /\ handler'[z] \in {"none", "waiting", "dialTCP", "dialUOT"} => answer'[z] = "none"
                 /\ handler'[z] \in {"dialTCP", "TCP"} => asked'[z] = "tcp"
                 /\ handler'[z] \in {"dialUOT", "UOT", "leaveUOT"} => asked'[z] = "uot"
                 /\ handler'[z] = "leaveUOT" => answer'[z] # "ok"
                 /\ handler'[z] = "finishing" => asked'[z] # "none" /\ (answer'[z] = "ok" => asked'[z] = "probe")
                 /\ handler'[z] = "gone" => (answer'[z] # "none" => asked'[z] # "none")
    BY DEF HandlersKept
  <2>1. CASE z = s
    BY <1>1, <1>2, <2>1
  <2>2. CASE z # s
    BY <1>1, <1>2, <2>2 DEF ProductInv, HandlersKept
  <2>. QED BY <2>1, <2>2
<1>. QED BY <1>1, <1>3, <1>4, <1>5, <1>6, PlacesFewer, CountedSame

LEMMA Slots ==
  ASSUME ProductInv
  PROVE  /\ IsFiniteSet(TakesSlot) /\ Cardinality(TakesSlot) \in Nat
         /\ uotActive = Cardinality(TakesSlot) /\ uotActive <= MaxUOTFlows
         /\ \A s \in TakesSlot : uotActive > 0
<1>1. IsFiniteSet(TakesSlot) /\ uotActive = Cardinality(TakesSlot) /\ uotActive <= MaxUOTFlows
  BY DEF ProductInv, SlotsHeld
<1>2. Cardinality(TakesSlot) \in Nat
  BY <1>1, FS_CardinalityType
<1>3. \A s \in TakesSlot : Cardinality(TakesSlot) # 0
  BY <1>1, FS_EmptySet
<1>. QED BY <1>1, <1>2, <1>3

LEMMA SlotsStay ==
  ASSUME ProductInv, NEW s \in Product!Streams, NEW h,
         \A z \in Product!Streams : handler'[z] = IF z = s THEN h ELSE handler[z],
         handler[s] \in {"dialUOT", "UOT", "leaveUOT"} <=> h \in {"dialUOT", "UOT", "leaveUOT"},
         uotActive' = uotActive
  PROVE  SlotsHeld'
<1>1. TakesSlot' = TakesSlot
  BY DEF TakesSlot
<1>. QED BY <1>1 DEF ProductInv, SlotsHeld

LEMMA SelectKeeps ==
  ASSUME ProductInv, NEW s \in Product!Streams, Product!Select(s)
  PROVE  ProductInv'
<1>1. /\ handler[s] = "waiting" /\ answer[s] = "none"
      /\ UNCHANGED <<pool, opening, openers, opened, age, open, call, asked, next>>
  BY DEF Product!Select, Product!poolVars, ProductInv, HandlersKept
<1>2. answer \in [Product!Streams -> {"none", "ok", "full", "unsupported", "noBackend"}] /\ uotActive \in Nat
  BY DEF ProductInv, ProductTypes
<1>3. answer = [answer EXCEPT ![s] = "none"]
  BY <1>1, <1>2
<1>4. CASE asked[s] = "tcp" /\ Product!Handles(s, "dialTCP") /\ UNCHANGED <<answer, uotActive>>
  <2>1. /\ ProductTypes' /\ PoolCounted' /\ PlacesKept' /\ FreshKept' /\ AskedKept' /\ HandlersKept'
        /\ \A z \in Product!Streams : handler'[z] = IF z = s THEN "dialTCP" ELSE handler[z]
    BY <1>1, <1>2, <1>3, <1>4, HandlerMoves
  <2>2. SlotsHeld'
    BY <1>1, <1>4, <2>1, SlotsStay
  <2>. QED BY <2>1, <2>2 DEF ProductInv
<1>5. ASSUME NEW a \in {"ok", "unsupported", "full"}, asked[s] = "probe" \/ (asked[s] = "uot" /\ a = "full"),
             Product!Handles(s, "finishing"), Product!Replies(s, a), uotActive' = uotActive
      PROVE  ProductInv'
  <2>1. /\ ProductTypes' /\ PoolCounted' /\ PlacesKept' /\ FreshKept' /\ AskedKept' /\ HandlersKept'
        /\ \A z \in Product!Streams : handler'[z] = IF z = s THEN "finishing" ELSE handler[z]
    BY <1>1, <1>2, <1>5, HandlerMoves DEF Product!Replies
  <2>2. SlotsHeld'
    BY <1>1, <1>5, <2>1, SlotsStay
  <2>. QED BY <2>1, <2>2 DEF ProductInv
<1>6. CASE /\ asked[s] = "uot" /\ uotActive < MaxUOTFlows /\ Product!Handles(s, "dialUOT")
           /\ uotActive' = uotActive + 1 /\ UNCHANGED answer
  <2>1. uotActive' \in Nat
    BY <1>2, <1>6
  <2>2. /\ ProductTypes' /\ PoolCounted' /\ PlacesKept' /\ FreshKept' /\ AskedKept' /\ HandlersKept'
        /\ \A z \in Product!Streams : handler'[z] = IF z = s THEN "dialUOT" ELSE handler[z]
    BY <1>1, <1>2, <1>3, <1>6, <2>1, HandlerMoves
  <2>3. s \notin TakesSlot /\ TakesSlot' = TakesSlot \cup {s}
    BY <1>1, <2>2 DEF TakesSlot
  <2>4. IsFiniteSet(TakesSlot') /\ Cardinality(TakesSlot') = Cardinality(TakesSlot) + 1
    BY <2>3, Slots, FS_AddElement
  <2>5. uotActive' = Cardinality(TakesSlot') /\ uotActive' <= MaxUOTFlows
    BY <1>2, <1>6, <2>4, Slots, PoolConstants
  <2>6. SlotsHeld'
    BY <2>4, <2>5 DEF SlotsHeld
  <2>. QED BY <2>2, <2>6 DEF ProductInv
<1>7. CASE asked[s] = "none" /\ Product!Handles(s, "gone") /\ UNCHANGED <<answer, uotActive>>
  <2>1. /\ ProductTypes' /\ PoolCounted' /\ PlacesKept' /\ FreshKept' /\ AskedKept' /\ HandlersKept'
        /\ \A z \in Product!Streams : handler'[z] = IF z = s THEN "gone" ELSE handler[z]
    BY <1>1, <1>2, <1>3, <1>7, HandlerMoves
  <2>2. SlotsHeld'
    BY <1>1, <1>7, <2>1, SlotsStay
  <2>. QED BY <2>1, <2>2 DEF ProductInv
<1>8. \/ asked[s] = "tcp" /\ Product!Handles(s, "dialTCP") /\ UNCHANGED <<answer, uotActive>>
      \/ /\ asked[s] = "probe" /\ Product!Handles(s, "finishing") /\ uotActive' = uotActive
         /\ \E a \in {"ok", "unsupported"} : Product!Replies(s, a)
      \/ /\ asked[s] = "uot" /\ Product!Handles(s, "finishing") /\ Product!Replies(s, "full")
         /\ uotActive' = uotActive
      \/ /\ asked[s] = "uot" /\ ~(uotActive >= MaxUOTFlows) /\ Product!Handles(s, "dialUOT")
         /\ uotActive' = uotActive + 1 /\ UNCHANGED answer
      \/ asked[s] = "none" /\ Product!Handles(s, "gone") /\ UNCHANGED <<answer, uotActive>>
  BY Zenon DEF Product!Select
<1>9. ~(uotActive >= MaxUOTFlows) => uotActive < MaxUOTFlows
  BY <1>2, PoolConstants
<1>. QED BY <1>4, <1>5, <1>6, <1>7, <1>8, <1>9

LEMMA DialKeeps ==
  ASSUME ProductInv, NEW s \in Product!Streams, Product!Dial(s)
  PROVE  ProductInv'
<1>1. /\ handler[s] \in {"dialTCP", "dialUOT"} /\ answer[s] = "none"
      /\ asked[s] = IF handler[s] = "dialUOT" THEN "uot" ELSE "tcp"
      /\ UNCHANGED <<pool, opening, openers, opened, age, open, call, asked, next, uotActive>>
      /\ uotActive \in Nat
  BY DEF Product!Dial, Product!poolVars, ProductInv, HandlersKept, ProductTypes
<1>2. CASE handler[s] = "dialUOT" /\ Product!Handles(s, "UOT") /\ Product!Replies(s, "ok")
  <2>1. /\ ProductTypes' /\ PoolCounted' /\ PlacesKept' /\ FreshKept' /\ AskedKept' /\ HandlersKept'
        /\ \A z \in Product!Streams : handler'[z] = IF z = s THEN "UOT" ELSE handler[z]
    BY <1>1, <1>2, HandlerMoves DEF Product!Replies
  <2>2. SlotsHeld'
    BY <1>1, <1>2, <2>1, SlotsStay
  <2>. QED BY <2>1, <2>2 DEF ProductInv
<1>3. CASE handler[s] = "dialTCP" /\ Product!Handles(s, "TCP") /\ Product!Replies(s, "ok")
  <2>1. /\ ProductTypes' /\ PoolCounted' /\ PlacesKept' /\ FreshKept' /\ AskedKept' /\ HandlersKept'
        /\ \A z \in Product!Streams : handler'[z] = IF z = s THEN "TCP" ELSE handler[z]
    BY <1>1, <1>3, HandlerMoves DEF Product!Replies
  <2>2. SlotsHeld'
    BY <1>1, <1>3, <2>1, SlotsStay
  <2>. QED BY <2>1, <2>2 DEF ProductInv
<1>4. CASE handler[s] = "dialUOT" /\ Product!Handles(s, "leaveUOT") /\ Product!Replies(s, "noBackend")
  <2>1. /\ ProductTypes' /\ PoolCounted' /\ PlacesKept' /\ FreshKept' /\ AskedKept' /\ HandlersKept'
        /\ \A z \in Product!Streams : handler'[z] = IF z = s THEN "leaveUOT" ELSE handler[z]
    BY <1>1, <1>4, HandlerMoves DEF Product!Replies
  <2>2. SlotsHeld'
    BY <1>1, <1>4, <2>1, SlotsStay
  <2>. QED BY <2>1, <2>2 DEF ProductInv
<1>5. CASE handler[s] = "dialTCP" /\ Product!Handles(s, "finishing") /\ Product!Replies(s, "noBackend")
  <2>1. /\ ProductTypes' /\ PoolCounted' /\ PlacesKept' /\ FreshKept' /\ AskedKept' /\ HandlersKept'
        /\ \A z \in Product!Streams : handler'[z] = IF z = s THEN "finishing" ELSE handler[z]
    BY <1>1, <1>5, HandlerMoves DEF Product!Replies
  <2>2. SlotsHeld'
    BY <1>1, <1>5, <2>1, SlotsStay
  <2>. QED BY <2>1, <2>2 DEF ProductInv
<1>6. \/ handler[s] = "dialUOT" /\ Product!Handles(s, "UOT") /\ Product!Replies(s, "ok")
      \/ handler[s] = "dialTCP" /\ Product!Handles(s, "TCP") /\ Product!Replies(s, "ok")
      \/ handler[s] = "dialUOT" /\ Product!Handles(s, "leaveUOT") /\ Product!Replies(s, "noBackend")
      \/ handler[s] = "dialTCP" /\ Product!Handles(s, "finishing") /\ Product!Replies(s, "noBackend")
  BY <1>1 DEF Product!Dial
<1>. QED BY <1>2, <1>3, <1>4, <1>5, <1>6

LEMMA HandlerEndsKeeps ==
  ASSUME ProductInv, NEW s \in Product!Streams, Product!HandlerEnds(s)
  PROVE  ProductInv'
<1>1. /\ handler[s] \in {"TCP", "UOT", "leaveUOT", "finishing"} /\ asked[s] # "none"
      /\ Product!Handles(s, "gone")
      /\ uotActive' = (IF handler[s] \in {"UOT", "leaveUOT"} THEN uotActive - 1 ELSE uotActive)
      /\ UNCHANGED <<pool, opening, openers, opened, age, open, call, asked, next, answer>>
  BY DEF Product!HandlerEnds, Product!Slots, Product!poolVars, ProductInv, HandlersKept
<1>2. /\ answer \in [Product!Streams -> {"none", "ok", "full", "unsupported", "noBackend"}] /\ uotActive \in Nat
  BY DEF ProductInv, ProductTypes
<1>3. answer = [answer EXCEPT ![s] = answer[s]]
      /\ answer[s] \in {"none", "ok", "full", "unsupported", "noBackend"}
  BY <1>2
<1>4. s \in TakesSlot <=> handler[s] \in {"UOT", "leaveUOT"}
  BY <1>1 DEF TakesSlot
<1>5. uotActive' \in Nat
  BY <1>1, <1>2, <1>4, Slots
<1>6. /\ ProductTypes' /\ PoolCounted' /\ PlacesKept' /\ FreshKept' /\ AskedKept' /\ HandlersKept'
      /\ \A z \in Product!Streams : handler'[z] = IF z = s THEN "gone" ELSE handler[z]
  BY <1>1, <1>2, <1>3, <1>5, HandlerMoves
<1>7. SlotsHeld'
  <2>1. TakesSlot' = TakesSlot \ {s}
    BY <1>6 DEF TakesSlot
  <2>2. IsFiniteSet(TakesSlot')
        /\ Cardinality(TakesSlot') = IF s \in TakesSlot THEN Cardinality(TakesSlot) - 1 ELSE Cardinality(TakesSlot)
    BY <2>1, Slots, FS_RemoveElement
  <2>3. uotActive' = Cardinality(TakesSlot') /\ uotActive' <= MaxUOTFlows
    BY <1>1, <1>2, <1>4, <2>2, Slots, PoolConstants
  <2>. QED BY <2>2, <2>3 DEF SlotsHeld
<1>. QED BY <1>6, <1>7 DEF ProductInv

-----------------------------------------------------------------------------
(* What goes in and out of the pool.                                       *)

LEMMA PoolKeepsKeeps ==
  ASSUME ProductInv, NEW s \in Product!Streams, Product!PoolKeeps(s)
  PROVE  ProductInv'
<1>1. /\ s \in opened /\ opened' = opened \ {s} /\ opening' = IF opening > 0 THEN opening - 1 ELSE 0
      /\ UNCHANGED <<openers, age, answer, handler, uotActive, call, asked, next>>
  BY DEF Product!PoolKeeps, Product!serverVars
<1>2. opening > 0 /\ opening \in Nat
  BY <1>1, Counted
<1>3. opening' = opening - 1 /\ opening' \in Nat
  BY <1>1, <1>2
<1>4. /\ IsFiniteSet(opened') /\ opening' = openers' + Cardinality(opened')
  <2>1. IsFiniteSet(opened') /\ Cardinality(opened') = Cardinality(opened) - 1
    BY <1>1, Counted, FS_RemoveElement
  <2>. QED BY <1>1, <1>3, <2>1, Counted
<1>5. ~Pooled(s) /\ ~Held(s) /\ ~(s > next)
  BY <1>1 DEF ProductInv, PlacesKept, FreshKept
<1>6. /\ pool \in Seq(Product!Streams) /\ Len(pool) \in Nat /\ Len(pool) + opening <= PoolSize
      /\ DOMAIN pool = 1..Len(pool)
  BY DEF ProductInv, ProductTypes, PoolCounted
<1>7. \A z \in Product!Streams : Held(z)' = Held(z)
  BY <1>1 DEF Held
<1>8. CASE pool' = Append(pool, s) /\ open' = open
  <2>1. /\ pool' \in Seq(Product!Streams) /\ Len(pool') = Len(pool) + 1 /\ DOMAIN pool' = 1..(Len(pool) + 1)
        /\ \A i \in 1..Len(pool) : pool'[i] = pool[i]
        /\ pool'[Len(pool) + 1] = s
    BY <1>6, <1>8
  <2>2. PoolCounted'
    <3>1. Len(pool') + opening' <= PoolSize
      BY <1>2, <1>3, <1>6, <2>1, PoolConstants
    <3>. QED BY <1>4, <3>1 DEF PoolCounted
  <2>3. \A z \in Product!Streams : Pooled(z)' <=> Pooled(z) \/ z = s
    BY <1>6, <2>1 DEF Pooled, Product!Elements
  <2>4. \A i, j \in DOMAIN pool' : pool'[i] = pool'[j] => i = j
    <3>1. \A i \in 1..Len(pool) : pool[i] # s
      BY <1>5, <1>6 DEF Pooled, Product!Elements
    <3>2. \A i \in DOMAIN pool' : i \in 1..Len(pool) \/ i = Len(pool) + 1
      BY <1>6, <2>1
    <3>3. \A i, j \in 1..Len(pool) : pool[i] = pool[j] => i = j
      BY <1>6 DEF ProductInv, PlacesKept
    <3>. QED BY <2>1, <3>1, <3>2, <3>3
  <2>5. PlacesKept'
    <3>1. \A z \in opened' : ~Pooled(z)' /\ ~Held(z)'
      BY <1>1, <1>7, <2>3 DEF ProductInv, ProductTypes, PlacesKept
    <3>2. \A z \in Product!Streams : ~(Pooled(z)' /\ Held(z)')
      BY <1>5, <1>7, <2>3 DEF ProductInv, PlacesKept
    <3>3. \A z \in open' : Pooled(z)' \/ Held(z)' \/ z \in opened'
      BY <1>1, <1>7, <1>8, <2>3 DEF ProductInv, ProductTypes, PlacesKept
    <3>. QED BY <1>1, <2>4, <3>1, <3>2, <3>3 DEF ProductInv, PlacesKept
  <2>6. FreshKept'
    BY <1>1, <1>5, <1>7, <1>8, <2>3 DEF ProductInv, FreshKept
  <2>7. AskedKept'
    <3>1. \A z \in Product!Streams : z \in opened' \/ Pooled(z)' \/ z > next' => asked'[z] = "none"
      BY <1>1, <2>3 DEF ProductInv, AskedKept
    <3>. QED BY <1>1, <3>1 DEF ProductInv, AskedKept
  <2>8. ProductTypes'
    BY <1>1, <1>3, <1>8, <2>1 DEF ProductInv, ProductTypes
  <2>. QED BY <1>1, <2>2, <2>5, <2>6, <2>7, <2>8, SlotsSame, HandlersSame DEF ProductInv
<1>9. CASE pool' = pool /\ open' = open \ {s}
  <2>1. PoolCounted'
    <3>1. Len(pool') + opening' <= PoolSize
      BY <1>2, <1>3, <1>6, <1>9, PoolConstants
    <3>. QED BY <1>4, <3>1 DEF PoolCounted
  <2>2. \A z \in Product!Streams : Pooled(z)' = Pooled(z)
    BY <1>9 DEF Pooled, Product!Elements
  <2>3. PlacesKept'
    <3>1. \A z \in opened' : ~Pooled(z)' /\ ~Held(z)'
      BY <1>1, <1>7, <2>2 DEF ProductInv, ProductTypes, PlacesKept
    <3>2. \A z \in Product!Streams : ~(Pooled(z)' /\ Held(z)')
      BY <1>7, <2>2 DEF ProductInv, PlacesKept
    <3>3. \A z \in open' : Pooled(z)' \/ Held(z)' \/ z \in opened'
      BY <1>1, <1>7, <1>9, <2>2 DEF ProductInv, ProductTypes, PlacesKept
    <3>. QED BY <1>1, <1>9, <3>1, <3>2, <3>3 DEF ProductInv, PlacesKept
  <2>4. FreshKept'
    BY <1>1, <1>7, <1>9, <2>2 DEF ProductInv, FreshKept
  <2>5. AskedKept'
    <3>1. \A z \in Product!Streams : z \in opened' \/ Pooled(z)' \/ z > next' => asked'[z] = "none"
      BY <1>1, <2>2 DEF ProductInv, AskedKept
    <3>. QED BY <1>1, <3>1 DEF ProductInv, AskedKept
  <2>6. ProductTypes'
    BY <1>1, <1>3, <1>9 DEF ProductInv, ProductTypes
  <2>. QED BY <1>1, <2>1, <2>3, <2>4, <2>5, <2>6, SlotsSame, HandlersSame DEF ProductInv
<1>10. (pool' = Append(pool, s) /\ open' = open) \/ (pool' = pool /\ open' = open \ {s})
  BY Zenon DEF Product!PoolKeeps
<1>. QED BY <1>8, <1>9, <1>10

LEMMA PoolKeeping ==
  ASSUME NEW P \in SUBSET DOMAIN pool, pool \in Seq(Product!Streams)
  PROVE  /\ Cardinality(P) \in Nat /\ Cardinality(P) <= Len(pool)
         /\ Product!Keeping(pool, P) \in Seq(Product!Streams)
         /\ Len(Product!Keeping(pool, P)) = Cardinality(P)
         /\ DOMAIN Product!Keeping(pool, P) = 1..Cardinality(P)
         /\ \E place \in [1..Cardinality(P) -> P] :
              /\ \A n \in 1..Cardinality(P) : Product!Keeping(pool, P)[n] = pool[place[n]]
              /\ \A i \in P : \E n \in 1..Cardinality(P) : place[n] = i
              /\ \A n, m \in 1..Cardinality(P) : place[n] = place[m] => n = m
BY KeepingKept

LEMMA PoolThinned ==
  ASSUME ProductInv, NEW P \in SUBSET DOMAIN pool, pool' = Product!Keeping(pool, P)
  PROVE  /\ pool' \in Seq(Product!Streams) /\ Len(pool') \in Nat /\ Len(pool') <= Len(pool)
         /\ \A i, j \in DOMAIN pool' : pool'[i] = pool'[j] => i = j
         /\ \A z \in Product!Streams : Pooled(z)' => Pooled(z)
<1> DEFINE n == Cardinality(P)
<1>1. pool \in Seq(Product!Streams) /\ \A i, j \in DOMAIN pool : pool[i] = pool[j] => i = j
  BY DEF ProductInv, ProductTypes, PlacesKept
<1>2. /\ n \in Nat /\ n <= Len(pool) /\ pool' \in Seq(Product!Streams) /\ Len(pool') = n
      /\ DOMAIN pool' = 1..n
  BY <1>1, PoolKeeping
<1>3. PICK place \in [1..n -> P] :
        /\ \A i \in 1..n : Product!Keeping(pool, P)[i] = pool[place[i]]
        /\ \A i, j \in 1..n : place[i] = place[j] => i = j
  <2>1. \E place \in [1..n -> P] :
          /\ \A i \in 1..n : Product!Keeping(pool, P)[i] = pool[place[i]]
          /\ \A i \in P : \E k \in 1..n : place[k] = i
          /\ \A i, j \in 1..n : place[i] = place[j] => i = j
    BY <1>1, PoolKeeping
  <2>. QED BY <2>1, Zenon
<1> HIDE DEF n
<1>4. \A i \in 1..n : place[i] \in DOMAIN pool /\ pool'[i] = pool[place[i]]
  BY <1>3
<1>5. \A i, j \in DOMAIN pool' : pool'[i] = pool'[j] => i = j
  BY <1>1, <1>2, <1>3, <1>4
<1>6. \A z \in Product!Streams : Pooled(z)' => Pooled(z)
  BY <1>2, <1>4 DEF Pooled, Product!Elements
<1>. QED BY <1>2, <1>5, <1>6

(* The stale Streams leave the pool, and are closed.                       *)
LEMMA RefillKeeps ==
  ASSUME ProductInv, Product!Refill
  PROVE  ProductInv'
<1>1. /\ pool' = Product!Spare(pool)
      /\ opening' = opening + Product!Missing /\ openers' = openers + Product!Missing
      /\ open' = open \ (Product!Elements(pool) \ Product!Elements(Product!Spare(pool)))
      /\ UNCHANGED <<opened, age, answer, handler, uotActive, call, asked, next>>
  BY DEF Product!Refill, Product!serverVars
<1>2. /\ pool \in Seq(Product!Streams) /\ Len(pool) \in Nat /\ Len(pool) + opening <= PoolSize
      /\ DOMAIN pool = 1..Len(pool)
  BY DEF ProductInv, ProductTypes, PoolCounted
<1> DEFINE P == {i \in DOMAIN pool : pool[i] \in open /\ age[pool[i]] = 0}
<1>3. P \in SUBSET DOMAIN pool /\ pool' = Product!Keeping(pool, P)
  BY <1>1 DEF Product!Spare
<1> HIDE DEF P
<1>4. /\ pool' \in Seq(Product!Streams) /\ Len(pool') \in Nat /\ Len(pool') <= Len(pool)
      /\ \A i, j \in DOMAIN pool' : pool'[i] = pool'[j] => i = j
      /\ \A z \in Product!Streams : Pooled(z)' => Pooled(z)
  BY <1>3, PoolThinned, Zenon
<1> PICK k \in Nat : k = Len(pool') /\ k <= Len(pool)
  BY <1>4
<1>5. \A z \in Product!Elements(pool) \ Product!Elements(Product!Spare(pool)) : ~Pooled(z)'
  BY <1>1 DEF Pooled
<1>6. \A z \in open' : Pooled(z) => Pooled(z)'
  BY <1>1 DEF Pooled
<1>7. \A z \in Product!Streams : Held(z)' = Held(z)
  BY <1>1 DEF Held
<1>8. open' \subseteq open
  BY <1>1
<1>9. /\ Product!Missing \in Nat
       /\ k + opening + Product!Missing <= PoolSize
  <2>1. opening \in Nat /\ k + opening <= PoolSize /\ PoolSize \in Nat /\ k \in Nat
    BY <1>2, Counted, PoolConstants
  <2> PICK m : m = PoolSize - k - opening
    OBVIOUS
  <2>2. Product!Missing = IF m > 0 THEN m ELSE 0
    BY <1>1 DEF Product!Missing
  <2>3. m \in Int
    BY <2>1
  <2>4. CASE m > 0
    BY <2>1, <2>2, <2>3, <2>4
  <2>5. CASE ~(m > 0)
    BY <2>1, <2>2, <2>3, <2>5
  <2>. QED BY <2>4, <2>5
<1>10. opening' \in Nat /\ openers' \in Nat /\ opening' = openers' + Cardinality(opened') /\ k + opening' <= PoolSize
  <2> PICK m \in Nat : m = Product!Missing
    BY <1>9
  <2>1. opening' = opening + m /\ openers' = openers + m /\ opened' = opened /\ k + opening + m <= PoolSize
    BY <1>1, <1>9
  <2>2. k + (opening + m) <= PoolSize
    BY <2>1, Counted, PoolConstants
  <2>3. Cardinality(opened') = Cardinality(opened)
    BY <2>1
  <2> PICK c \in Nat : c = Cardinality(opened)
    BY Counted
  <2> PICK a \in Nat : a = openers
    BY Counted
  <2> PICK b \in Nat : b = opening
    BY Counted
  <2>4. b = a + c /\ opening' = b + m /\ openers' = a + m
    BY <2>1, Counted
  <2>5. opening' \in Nat /\ openers' \in Nat /\ opening' = openers' + c
    BY <2>4
  <2>. QED BY <2>1, <2>2, <2>3, <2>5
<1>11. ProductTypes'
  BY <1>1, <1>4, <1>8, <1>10 DEF ProductInv, ProductTypes
<1>12. PoolCounted'
  BY <1>1, <1>10, Counted DEF PoolCounted
<1>13. PlacesKept'
  <2>1. \A z \in opened' : ~Pooled(z)' /\ ~Held(z)'
    BY <1>1, <1>4, <1>7 DEF ProductInv, ProductTypes, PlacesKept
  <2>2. \A z \in Product!Streams : ~(Pooled(z)' /\ Held(z)')
    BY <1>4, <1>7 DEF ProductInv, PlacesKept
  <2>3. \A z \in open' : Pooled(z)' \/ Held(z)' \/ z \in opened'
    BY <1>1, <1>6, <1>7, <1>8 DEF ProductInv, ProductTypes, PlacesKept
  <2>. QED BY <1>1, <1>4, <2>1, <2>2, <2>3 DEF ProductInv, PlacesKept
<1>14. FreshKept'
  BY <1>1, <1>4, <1>7, <1>8 DEF ProductInv, FreshKept
<1>15. AskedKept'
  <2>1. \A z \in Product!Streams : z \in opened' \/ Pooled(z)' \/ z > next' => asked'[z] = "none"
    BY <1>1, <1>4 DEF ProductInv, AskedKept
  <2>. QED BY <1>1, <2>1 DEF ProductInv, AskedKept
<1>. QED BY <1>1, <1>11, <1>12, <1>13, <1>14, <1>15, SlotsSame, HandlersSame DEF ProductInv

(* The first Stream of the pool leaves it.                                 *)
LEMMA HeadLeaves ==
  ASSUME ProductInv, pool # <<>>, pool' = Tail(pool)
  PROVE  /\ Head(pool) \in Product!Streams /\ Pooled(Head(pool))
         /\ pool' \in Seq(Product!Streams) /\ Len(pool') \in Nat /\ Len(pool') < Len(pool)
         /\ \A i, j \in DOMAIN pool' : pool'[i] = pool'[j] => i = j
         /\ \A z \in Product!Streams : Pooled(z)' <=> Pooled(z) /\ z # Head(pool)
<1>1. pool \in Seq(Product!Streams) /\ \A i, j \in DOMAIN pool : pool[i] = pool[j] => i = j
  BY DEF ProductInv, ProductTypes, PlacesKept
<1>2. /\ Len(pool) \in Nat /\ Len(pool) > 0 /\ DOMAIN pool = 1..Len(pool)
      /\ Head(pool) = pool[1] /\ 1 \in DOMAIN pool
  BY <1>1
<1>3. /\ pool' \in Seq(Product!Streams) /\ Len(pool') = Len(pool) - 1 /\ DOMAIN pool' = 1..(Len(pool) - 1)
      /\ \A i \in 1..(Len(pool) - 1) : pool'[i] = pool[i + 1]
  BY <1>1, <1>2
<1>4. Head(pool) \in Product!Streams /\ Pooled(Head(pool))
  BY <1>1, <1>2 DEF Pooled, Product!Elements
<1>5. \A i \in DOMAIN pool' : i + 1 \in DOMAIN pool /\ i + 1 # 1 /\ pool'[i] = pool[i + 1] /\ i \in Nat
  BY <1>2, <1>3
<1>6. \A i, j \in DOMAIN pool' : pool'[i] = pool'[j] => i = j
  <2> TAKE i, j \in DOMAIN pool'
  <2> HAVE pool'[i] = pool'[j]
  <2>1. i + 1 = j + 1
    BY <1>1, <1>5
  <2>. QED BY <1>5, <2>1
<1>7. \A z \in Product!Streams : Pooled(z)' => Pooled(z) /\ z # Head(pool)
  <2> SUFFICES ASSUME NEW i \in DOMAIN pool' PROVE pool'[i] # Head(pool) /\ \E j \in DOMAIN pool : pool'[i] = pool[j]
    BY DEF Pooled, Product!Elements
  <2>. QED BY <1>1, <1>2, <1>5
<1>8. \A z \in Product!Streams : Pooled(z) /\ z # Head(pool) => Pooled(z)'
  <2> SUFFICES ASSUME NEW j \in DOMAIN pool, pool[j] # Head(pool) PROVE \E i \in DOMAIN pool' : pool'[i] = pool[j]
    BY DEF Pooled, Product!Elements
  <2>1. j \in 1..Len(pool) /\ j # 1
    BY <1>2
  <2>2. j - 1 \in 1..(Len(pool) - 1) /\ (j - 1) + 1 = j
    BY <1>2, <2>1
  <2>. QED BY <1>3, <2>2
<1>. QED BY <1>2, <1>3, <1>4, <1>6, <1>7, <1>8

LEMMA TakeKeeps ==
  ASSUME ProductInv, NEW r \in Requests, NEW kind \in Product!Kinds, Product!Take(r, kind)
  PROVE  ProductInv'
<1>1. /\ call[r].at \in {"idle", "looking"}
      /\ UNCHANGED <<opening, openers, opened, age, answer, handler, uotActive, asked, next>>
  BY DEF Product!Take, Product!serverVars
<1>2. call[r].at \notin Holding
  BY <1>1 DEF Holding
<1>3. CASE pool = <<>>
  <2> DEFINE c == [at |-> "opening", kind |-> kind]
  <2>1. Product!Becomes(r, c) /\ pool' = pool /\ open' = open
    BY <1>3 DEF Product!Take
  <2>2. c \in Call /\ c.at \notin Holding
    BY CallFields DEF Holding
  <2> HIDE DEF c
  <2>. QED BY <1>1, <1>2, <2>1, <2>2, Released
<1>4. CASE pool # <<>>
  <2>1. pool' = Tail(pool)
    BY <1>4 DEF Product!Take, Product!Left
  <2> PICK s \in Product!Streams : s = Head(pool)
    BY <1>4, <2>1, HeadLeaves
  <2>2. /\ Pooled(s) /\ pool' \in Seq(Product!Streams) /\ Len(pool') \in Nat /\ Len(pool') < Len(pool)
        /\ \A i, j \in DOMAIN pool' : pool'[i] = pool'[j] => i = j
        /\ \A z \in Product!Streams : Pooled(z)' <=> Pooled(z) /\ z # s
    BY <1>4, <2>1, HeadLeaves
  <2>3. PoolCounted'
    <3>1. Len(pool) \in Nat /\ Len(pool) + opening <= PoolSize
      BY DEF ProductInv, ProductTypes, PoolCounted
    <3>2. Len(pool') + opening' <= PoolSize
      BY <1>1, <2>2, <3>1, Counted, PoolConstants
    <3>. QED BY <1>1, <3>2, Counted DEF PoolCounted
  <2>4. SlotsHeld' /\ HandlersKept'
    BY <1>1, SlotsSame, HandlersSame
  <2>5. ~Held(s) /\ s \notin opened /\ ~(s > next) /\ asked[s] = "none"
    BY <2>2 DEF ProductInv, PlacesKept, FreshKept, AskedKept
  <2>6. \A z \in Product!Streams : z \in opened' \/ Pooled(z)' \/ z > next' => asked'[z] = "none"
    BY <1>1, <2>2 DEF ProductInv, AskedKept
  <2>7. CASE Product!Becomes(r, [at |-> "has", kind |-> kind, stream |-> s]) /\ open' = open
    <3> DEFINE c == [at |-> "has", kind |-> kind, stream |-> s]
    <3>1. c \in Call /\ c.at = "has" /\ c.stream = s
      BY CallFields DEF Holding
    <3>2. call' \in [Requests -> Call] /\ call'[r] = c /\ \A q \in Requests : q # r => call'[q] = call[q]
      BY <2>7, <3>1, CallNext
    <3> HIDE DEF c
    <3>3. \A z \in Product!Streams : Held(z)' <=> Held(z) \/ z = s
      <4>1. \A z \in Product!Streams : Held(z)' => Held(z) \/ z = s
        BY <3>1, <3>2 DEF Held
      <4>2. \A z \in Product!Streams : Held(z) => Held(z)'
        BY <1>2, <3>2 DEF Held
      <4>3. Held(s)'
        BY <3>1, <3>2 DEF Held, Holding
      <4>. QED BY <4>1, <4>2, <4>3
    <3>4. ProductTypes'
      BY <1>1, <2>2, <2>7, <3>2 DEF ProductInv, ProductTypes
    <3>5. PlacesKept'
      <4>1. \A p, q \in Requests :
              call'[p].at \in Holding /\ call'[q].at \in Holding /\ call'[p].stream = call'[q].stream => p = q
        BY <2>5, <3>1, <3>2 DEF ProductInv, PlacesKept, Held
      <4>2. \A z \in opened' : ~Pooled(z)' /\ ~Held(z)'
        BY <1>1, <2>2, <2>5, <3>3 DEF ProductInv, ProductTypes, PlacesKept
      <4>3. \A z \in Product!Streams : ~(Pooled(z)' /\ Held(z)')
        BY <2>2, <3>3 DEF ProductInv, PlacesKept
      <4>4. \A z \in open' : Pooled(z)' \/ Held(z)' \/ z \in opened'
        BY <1>1, <2>2, <2>7, <3>3 DEF ProductInv, ProductTypes, PlacesKept
      <4>. QED BY <2>2, <4>1, <4>2, <4>3, <4>4 DEF PlacesKept
    <3>6. FreshKept'
      BY <1>1, <2>2, <2>5, <2>7, <3>3 DEF ProductInv, FreshKept
    <3>7. AskedKept'
      <4>1. \A q \in Requests :
              /\ call'[q].at = "has" => asked'[call'[q].stream] = "none"
              /\ call'[q].at \in {"asked", "served"} => asked'[call'[q].stream] = call'[q].kind
              /\ call'[q].at = "served" => answer'[call'[q].stream] = "ok" /\ call'[q].kind # "probe"
        BY <1>1, <2>5, <3>1, <3>2 DEF ProductInv, AskedKept
      <4>. QED BY <2>6, <4>1 DEF AskedKept
    <3>. QED BY <2>3, <2>4, <3>4, <3>5, <3>6, <3>7 DEF ProductInv
  <2>8. CASE Product!Becomes(r, [at |-> "looking", kind |-> kind]) /\ open' = open \ {s}
    <3> DEFINE c == [at |-> "looking", kind |-> kind]
    <3>1. c \in Call /\ c.at = "looking" /\ c.at \notin Holding
      BY CallFields DEF Holding
    <3>2. call' \in [Requests -> Call] /\ call'[r] = c /\ \A q \in Requests : q # r => call'[q] = call[q]
      BY <2>8, <3>1, CallNext
    <3> HIDE DEF c
    <3>3. \A z \in Product!Streams : Held(z)' = Held(z)
      BY <1>2, <3>1, <3>2 DEF Held
    <3>4. ProductTypes'
      BY <1>1, <2>2, <2>8, <3>2 DEF ProductInv, ProductTypes
    <3>5. PlacesKept'
      <4>1. \A p, q \in Requests :
              call'[p].at \in Holding /\ call'[q].at \in Holding /\ call'[p].stream = call'[q].stream => p = q
        BY <3>1, <3>2 DEF ProductInv, PlacesKept
      <4>2. \A z \in opened' : ~Pooled(z)' /\ ~Held(z)'
        BY <1>1, <2>2, <3>3 DEF ProductInv, ProductTypes, PlacesKept
      <4>3. \A z \in Product!Streams : ~(Pooled(z)' /\ Held(z)')
        BY <2>2, <3>3 DEF ProductInv, PlacesKept
      <4>4. \A z \in open' : Pooled(z)' \/ Held(z)' \/ z \in opened'
        BY <1>1, <2>2, <2>8, <3>3 DEF ProductInv, ProductTypes, PlacesKept
      <4>. QED BY <2>2, <4>1, <4>2, <4>3, <4>4 DEF PlacesKept
    <3>6. FreshKept'
      BY <1>1, <2>2, <2>8, <3>3 DEF ProductInv, FreshKept
    <3>7. AskedKept'
      <4>1. \A q \in Requests :
              /\ call'[q].at = "has" => asked'[call'[q].stream] = "none"
              /\ call'[q].at \in {"asked", "served"} => asked'[call'[q].stream] = call'[q].kind
              /\ call'[q].at = "served" => answer'[call'[q].stream] = "ok" /\ call'[q].kind # "probe"
        BY <1>1, <3>1, <3>2 DEF ProductInv, AskedKept
      <4>. QED BY <2>6, <4>1 DEF AskedKept
    <3>. QED BY <2>3, <2>4, <3>4, <3>5, <3>6, <3>7 DEF ProductInv
  <2>9. \/ Product!Becomes(r, [at |-> "has", kind |-> kind, stream |-> s]) /\ open' = open
        \/ Product!Becomes(r, [at |-> "looking", kind |-> kind]) /\ open' = open \ {s}
    BY <1>4, Zenon DEF Product!Take
  <2>. QED BY <2>7, <2>8, <2>9
<1>. QED BY <1>3, <1>4

-----------------------------------------------------------------------------

LEMMA ProductInit == Product!Init => ProductInv
<1> SUFFICES ASSUME Product!Init PROVE ProductInv
  OBVIOUS
<1>1. /\ pool = <<>> /\ opening = 0 /\ openers = 0 /\ opened = {} /\ open = {} /\ next = 0 /\ uotActive = 0
      /\ age = [s \in Product!Streams |-> 0]
      /\ call = [r \in Requests |-> [at |-> "idle"]]
      /\ asked = [s \in Product!Streams |-> "none"] /\ answer = [s \in Product!Streams |-> "none"]
      /\ handler = [s \in Product!Streams |-> "none"]
  BY DEF Product!Init, Product!Idle
<1>2. \A r \in Requests : call[r] \in Call /\ call[r].at = "idle"
  BY <1>1, CallFields
<1>3. /\ \A s \in Product!Streams : ~Held(s)
      /\ \A r \in Requests : call[r].at \notin Holding
  BY <1>2 DEF Held, Holding
<1>4. \A s \in Product!Streams : ~Pooled(s)
  BY <1>1 DEF Pooled, Product!Elements
<1>5. ProductTypes
  BY <1>1, <1>2, PoolConstants DEF ProductTypes
<1>6. PoolCounted
  <2>1. IsFiniteSet(opened) /\ Cardinality(opened) = 0
    BY <1>1, FS_EmptySet
  <2>2. Len(pool) = 0
    BY <1>1
  <2>. QED BY <1>1, <2>1, <2>2, PoolConstants DEF PoolCounted
<1>7. PlacesKept
  BY <1>1, <1>3, <1>4 DEF PlacesKept
<1>8. FreshKept
  BY <1>1, <1>3, <1>4 DEF FreshKept
<1>9. SlotsHeld
  <2>1. TakesSlot = {}
    BY <1>1 DEF TakesSlot
  <2>. QED BY <1>1, <2>1, FS_EmptySet, PoolConstants DEF SlotsHeld
<1>10. AskedKept
  BY <1>1, <1>2 DEF AskedKept
<1>11. HandlersKept
  BY <1>1 DEF HandlersKept
<1>. QED BY <1>5, <1>6, <1>7, <1>8, <1>9, <1>10, <1>11 DEF ProductInv

LEMMA ProductStep == ProductInv /\ [Next]_vars => ProductInv'
<1> SUFFICES ASSUME ProductInv, [Next]_vars PROVE ProductInv'
  OBVIOUS
<1>1. CASE Product!Next
  <2>1. CASE \E s \in Product!Streams :
               \/ Product!PoolKeeps(s) \/ Product!Ages(s) \/ Product!Select(s) \/ Product!Dial(s)
               \/ Product!HandlerEnds(s) \/ Product!ServerCloses(s)
    BY <2>1, PoolKeepsKeeps, AgesKeeps, SelectKeeps, DialKeeps, HandlerEndsKeeps, ServerClosesKeeps
  <2>2. CASE \E r \in Requests :
               \/ \E kind \in Product!Kinds : Product!Take(r, kind)
               \/ Product!OpensOwn(r) \/ Product!Ask(r) \/ Product!ReadReply(r) \/ Product!Finish(r)
    BY <2>2, TakeKeeps, OpensOwnKeeps, AskKeeps, ReadReplyKeeps, FinishKeeps
  <2>3. CASE Product!SessionEnds \/ Product!Refill \/ Product!PoolOpens \/ Product!PoolFails
    BY <2>3, SessionEndsKeeps, RefillKeeps, PoolOpensKeeps, PoolFailsKeeps
  <2>. QED BY <1>1, <2>1, <2>2, <2>3 DEF Product!Next
<1>2. CASE UNCHANGED serviceVars
  <2>1. UNCHANGED <<pool, opening, openers, opened, open, age, call, asked, answer, handler, uotActive, next>>
    BY <1>2 DEF serviceVars
  <2>2. ProductTypes'
    BY <2>1 DEF ProductInv, ProductTypes
  <2>. QED BY <2>1, <2>2, PlacesFewer, FreshSame, SlotsSame, AskedSame, HandlersSame, CountedSame DEF ProductInv
<1>3. Product!Next \/ UNCHANGED serviceVars
  BY DEF Next, vars, OfUdp, OfProduct, OfUot, OfPackets, OfServer, OfReceive
<1>. QED BY <1>1, <1>2, <1>3

(* The places of a Stream are counted one by one.                          *)
LEMMA OnePlace ==
  ASSUME ProductInv, NEW s \in Product!Streams
  PROVE  Product!Places(s) <= 1 /\ (s \in open => Product!Places(s) = 1)
<1> DEFINE owners == Product!Owners(s)
           places == {i \in DOMAIN pool : pool[i] = s}
           p == Cardinality(owners)
           q == Cardinality(places)
           o == IF s \in opened THEN 1 ELSE 0
<1>1. p = IF Held(s) THEN 1 ELSE 0
  <2>1. CASE Held(s)
    <3> PICK r \in Requests : call[r].at \in Holding /\ call[r].stream = s
      BY <2>1 DEF Held
    <3>1. owners = {r}
      BY DEF ProductInv, PlacesKept, Product!Owners, Holding
    <3>. QED BY <2>1, <3>1, FS_Singleton
  <2>2. CASE ~Held(s)
    <3>1. owners = {}
      BY <2>2 DEF Held, Product!Owners, Holding
    <3>. QED BY <2>2, <3>1, FS_EmptySet
  <2>. QED BY <2>1, <2>2
<1>2. q = IF Pooled(s) THEN 1 ELSE 0
  <2>1. CASE Pooled(s)
    <3> PICK i \in DOMAIN pool : pool[i] = s
      BY <2>1 DEF Pooled, Product!Elements
    <3>1. places = {i}
      BY DEF ProductInv, PlacesKept
    <3>. QED BY <2>1, <3>1, FS_Singleton
  <2>2. CASE ~Pooled(s)
    <3>1. places = {}
      BY <2>2 DEF Pooled, Product!Elements
    <3>. QED BY <2>2, <3>1, FS_EmptySet
  <2>. QED BY <2>1, <2>2
<1>3. Product!Places(s) = p + q + o
  BY PoolConstants DEF Product!Places
<1> HIDE DEF p, q
<1>4. ~(Held(s) /\ Pooled(s)) /\ (s \in opened => ~Held(s) /\ ~Pooled(s))
  BY DEF ProductInv, PlacesKept
<1>5. s \in open => Held(s) \/ Pooled(s) \/ s \in opened
  BY DEF ProductInv, PlacesKept
<1>. QED BY <1>1, <1>2, <1>3, <1>4, <1>5

(* The pool and the Streams being opened for it never exceed its size;     *)
(* every open Stream is in one place, with the pool, its opener or one     *)
(* request; the UoT slots taken are those of the handlers that hold one,   *)
(* and a request is served what it asked for.                              *)
THEOREM PoolKept == Spec => []PoolAgrees
<1>1. Init => ProductInv
  BY ProductInit DEF Init
<1>2. ProductInv => PoolAgrees
  <2> SUFFICES ASSUME ProductInv PROVE PoolAgrees
    OBVIOUS
  <2>1. /\ Len(pool) \in Nat /\ opening \in Nat /\ Len(pool) + opening <= PoolSize
        /\ uotActive \in Nat /\ uotActive <= MaxUOTFlows
    BY DEF ProductInv, ProductTypes, PoolCounted, SlotsHeld
  <2>2. Product!PoolBounded
    BY <2>1 DEF Product!PoolBounded
  <2>3. opening \in 0..PoolSize /\ uotActive \in 0..MaxUOTFlows
    BY <2>1, PoolConstants
  <2>4. Product!TypeOK
    BY <2>3 DEF ProductInv, ProductTypes, Product!TypeOK
  <2>5. Product!OneOwner
    BY OnePlace DEF Product!OneOwner
  <2>6. Product!SlotsAgree
    BY PoolConstants DEF ProductInv, SlotsHeld, TakesSlot, Product!SlotsAgree
  <2>7. Product!ServedAsAsked
    <3> SUFFICES ASSUME NEW r \in Requests, call[r].at = "served"
                 PROVE  handler[call[r].stream] \in
                          (IF call[r].kind = "tcp" THEN {"TCP", "gone"} ELSE {"UOT", "gone"})
      BY DEF Product!ServedAsAsked
    <3> PICK s \in Product!Streams : s = call[r].stream
      BY CallNow DEF Holding
    <3>1. /\ answer[s] = "ok" /\ asked[s] = call[r].kind /\ call[r].kind \in {"tcp", "uot"}
      BY CallNow DEF ProductInv, AskedKept, Holding, Product!Kinds
    <3>2. handler[s] \in {"none", "waiting", "dialTCP", "dialUOT", "TCP", "UOT", "leaveUOT", "finishing", "gone"}
      BY DEF ProductInv, ProductTypes
    <3>. QED BY <3>1, <3>2 DEF ProductInv, HandlersKept
  <2>. QED BY <2>2, <2>4, <2>5, <2>6, <2>7 DEF PoolAgrees
<1>. QED BY <1>1, <1>2, ProductStep, PTL DEF Spec
=============================================================================
