---------------------------- MODULE WritersProofs ----------------------------
(***************************************************************************)
(* Theorems about the writers that wait for room, beside the credit they   *)
(* wait for, for any number of writers and any limits.                     *)
(***************************************************************************)
EXTENDS MCWriters, CreditProofs, SequenceTheorems

Places == {"out", "yielded", "asleep", "woken", "late"}
Reasons == {"none", "path", "session", "queue", "pending"}
Waits == [at : Places, left : Nat, reason : Reasons, token : BOOLEAN, told : BOOLEAN,
          owes : SUBSET {"session", "queue", "pending"}]

WaitTypes ==
  /\ writer \in [Waiters -> Waits]
  /\ ready \in Nat /\ again \in 0..ready /\ assigned \in Nat /\ owed \in Nat
  /\ path \in BOOLEAN /\ forfeited \in BOOLEAN

(* The line holds who is in a Write, each of them once.                    *)
InLine(c, S) ==
  /\ c \in Seq(Waiters)
  /\ \A i, j \in 1..Len(c) : c[i] = c[j] => i = j
  /\ {c[i] : i \in 1..Len(c)} = S
LineRight == InLine(line, Wait!Inside)

RoomKept == owed <= WaitCredit /\ ready + assigned <= PendingLimit

WaitInv == WaitTypes /\ LineRight /\ RoomKept

-----------------------------------------------------------------------------
(* Signals move nobody in or out.                                          *)

LEMMA WriterConstants ==
  /\ IsFiniteSet(Waiters) /\ WaitCredit \in Nat /\ QueueLimit \in Nat /\ QueueReserve \in Nat
  /\ PendingLimit \in Nat /\ DispatchBatch \in Nat /\ Quantum \in Nat /\ Lengths \subseteq Nat
BY WritersAssumption

LEMMA SignalKeeps ==
  ASSUME writer \in [Waiters -> Waits], NEW S,
         \A w \in S : w \in Waiters /\ writer[w].reason \in {"session", "queue", "pending"}
  PROVE  /\ Wait!Signalled(S) \in [Waiters -> Waits]
         /\ \A w \in Waiters : Wait!Signalled(S)[w].at = writer[w].at
<1>1. ASSUME NEW w \in S
      PROVE  /\ [writer[w] EXCEPT !.token = TRUE, !.owes = @ \cup {writer[w].reason}] \in Waits
             /\ [writer[w] EXCEPT !.token = TRUE, !.owes = @ \cup {writer[w].reason}].at = writer[w].at
  <2>1. writer[w] \in Waits /\ writer[w].reason \in {"session", "queue", "pending"}
    BY <1>1
  <2>. QED BY <2>1 DEF Waits
<1>. QED BY <1>1 DEF Wait!Signalled

LEMMA WaitingWaits ==
  ASSUME writer \in [Waiters -> Waits], NEW reason \in {"session", "queue", "pending"}, NEW n
  PROVE  \A w \in Wait!First(n, Wait!WaitingFor(reason)) :
           w \in Waiters /\ writer[w].reason \in {"session", "queue", "pending"}
BY DEF Wait!First, Wait!WaitingFor

LEMMA BroadcastKeeps ==
  ASSUME writer \in [Waiters -> Waits]
  PROVE  /\ Wait!Broadcast \in [Waiters -> Waits]
         /\ \A w \in Waiters : Wait!Broadcast[w].at = writer[w].at
<1>1. ASSUME NEW w \in Waiters
      PROVE  /\ [writer[w] EXCEPT !.told = TRUE] \in Waits
             /\ [writer[w] EXCEPT !.told = TRUE].at = writer[w].at
  BY DEF Waits
<1>. QED BY <1>1 DEF Wait!Broadcast

(* Whose place does not change is in line as before.                       *)
LEMMA LineStays ==
  ASSUME LineRight, line' = line, \A w \in Waiters : writer'[w].at = writer[w].at
  PROVE  LineRight'
<1>1. Wait!Inside' = Wait!Inside
  BY DEF Wait!Inside
<1>. QED BY <1>1, Zenon DEF LineRight, InLine

-----------------------------------------------------------------------------
(* The line.                                                               *)

(* Who leaves is taken out of the line, the others keep their order.       *)
LEMMA LineLoses ==
  ASSUME LineRight, NEW w \in Wait!Inside, NEW c, c = Wait!Without(w)
  PROVE  InLine(c, Wait!Inside \ {w})
<1>1. PICK p \in 1..Len(line) : line[p] = w
  BY DEF LineRight, InLine
<1>2. Wait!Place(w) \in 1..Len(line) /\ line[Wait!Place(w)] = w
  BY <1>1 DEF Wait!Place
<1>3. Wait!Place(w) = p
  BY <1>1, <1>2 DEF LineRight, InLine
<1>4. c = [i \in 1..(Len(line) - 1) |-> line[IF i < p THEN i ELSE i + 1]]
  BY <1>3 DEF Wait!Without
<1>5. Len(line) \in Nat /\ line \in [1..Len(line) -> Waiters]
  BY DEF LineRight, InLine
<1>6. c \in [1..(Len(line) - 1) -> Waiters]
  BY <1>1, <1>4, <1>5
<1>7. c \in Seq(Waiters) /\ Len(c) = Len(line) - 1
  <2>1. Len(line) - 1 \in Nat
    BY <1>1, <1>5
  <2>. QED BY <1>6, <2>1
<1>8. \A i, j \in 1..Len(c) : c[i] = c[j] => i = j
  <2> SUFFICES ASSUME NEW i \in 1..Len(c), NEW j \in 1..Len(c), c[i] = c[j] PROVE i = j
    OBVIOUS
  <2>1. (IF i < p THEN i ELSE i + 1) \in 1..Len(line) /\ (IF j < p THEN j ELSE j + 1) \in 1..Len(line)
    BY <1>1, <1>5, <1>7
  <2>2. (IF i < p THEN i ELSE i + 1) = (IF j < p THEN j ELSE j + 1)
    BY <1>4, <1>7, <2>1 DEF LineRight, InLine
  <2>. QED BY <1>1, <1>5, <1>7, <2>2
<1>9. {c[i] : i \in 1..Len(c)} = Wait!Inside \ {w}
  <2>1. ASSUME NEW i \in 1..Len(c) PROVE c[i] \in Wait!Inside \ {w}
    <3>1. (IF i < p THEN i ELSE i + 1) \in 1..Len(line) /\ (IF i < p THEN i ELSE i + 1) # p
      BY <1>1, <1>5, <1>7
    <3>2. c[i] = line[IF i < p THEN i ELSE i + 1]
      BY <1>4, <1>7
    <3>. QED BY <1>1, <3>1, <3>2 DEF LineRight, InLine
  <2>2. ASSUME NEW v \in Wait!Inside, v # w PROVE \E i \in 1..Len(c) : c[i] = v
    <3>1. PICK k \in 1..Len(line) : line[k] = v
      BY DEF LineRight, InLine
    <3>2. k # p
      BY <1>1, <2>2, <3>1
    <3>3. CASE k < p
      <4>1. k \in 1..Len(c) /\ c[k] = v
        BY <1>1, <1>4, <1>5, <1>7, <3>1, <3>3
      <4>. QED BY <4>1
    <3>4. CASE k > p
      <4>1. (k - 1) \in 1..Len(c) /\ c[k - 1] = v
        BY <1>1, <1>4, <1>5, <1>7, <3>1, <3>4
      <4>. QED BY <4>1
    <3>. QED BY <1>1, <1>5, <3>2, <3>3, <3>4
  <2>. QED BY <2>1, <2>2
<1>. QED BY <1>7, <1>8, <1>9, Zenon DEF InLine

(* Who comes, or has had a turn, is the last in line.                      *)
LEMMA LineGains ==
  ASSUME LineRight, NEW w \in Waiters, NEW c, c = Append(Wait!Without(w), w)
  PROVE  InLine(c, Wait!Inside \cup {w})
<1> DEFINE d == Wait!Without(w)
<1>1. InLine(d, Wait!Inside \ {w})
  <2>1. CASE w \in Wait!Inside
    BY <2>1, LineLoses
  <2>2. CASE w \notin Wait!Inside
    <3>1. d = line
      BY <2>2 DEF Wait!Without
    <3>2. Wait!Inside \ {w} = Wait!Inside
      BY <2>2
    <3> HIDE DEF d
    <3>. QED BY <3>1, <3>2, Zenon DEF LineRight, InLine
  <2>. QED BY <2>1, <2>2
<1>2. c = Append(d, w)
  OBVIOUS
<1> HIDE DEF d
<1>. USE <1>1 DEF InLine
<1>3. /\ c \in Seq(Waiters) /\ Len(c) = Len(d) + 1 /\ Len(d) \in Nat /\ c[Len(d) + 1] = w
      /\ \A i \in 1..Len(d) : c[i] = d[i]
  BY <1>1, <1>2, AppendProperties
<1>4. \A i \in 1..Len(d) : d[i] # w
  BY <1>1
<1>5. \A i, j \in 1..Len(c) : c[i] = c[j] => i = j
  <2> SUFFICES ASSUME NEW i \in 1..Len(c), NEW j \in 1..Len(c), c[i] = c[j] PROVE i = j
    OBVIOUS
  <2>. QED BY <1>1, <1>3, <1>4
<1>6. {c[i] : i \in 1..Len(c)} = {d[i] : i \in 1..Len(d)} \cup {w}
  <2>1. ASSUME NEW i \in 1..Len(c) PROVE c[i] \in {d[k] : k \in 1..Len(d)} \cup {w}
    BY <1>3
  <2>2. ASSUME NEW i \in 1..Len(d) PROVE d[i] \in {c[k] : k \in 1..Len(c)}
    BY <1>3
  <2>3. w \in {c[k] : k \in 1..Len(c)}
    BY <1>3
  <2>. QED BY <2>1, <2>2, <2>3
<1>. QED BY <1>1, <1>3, <1>5, <1>6
-----------------------------------------------------------------------------
(* The steps of a Write.                                                   *)

LEMMA LeastOfTwo ==
  ASSUME NEW a \in Int, NEW b \in Int
  PROVE  Wait!Least({a, b}) \in {a, b} /\ Wait!Least({a, b}) <= a /\ Wait!Least({a, b}) <= b
<1>1. \E m \in {a, b} : \A x \in {a, b} : m <= x
  <2>1. CASE a <= b
    BY <2>1
  <2>2. CASE b <= a
    BY <2>2
  <2>. QED BY <2>1, <2>2
<1>2. /\ Wait!Least({a, b}) \in {a, b}
      /\ \A x \in {a, b} : Wait!Least({a, b}) <= x
  BY <1>1 DEF Wait!Least
<1>. QED BY <1>2

LEMMA LeastOfThree ==
  ASSUME NEW a \in Int, NEW b \in Int, NEW c \in Int
  PROVE  /\ Wait!Least({a, b, c}) \in {a, b, c}
         /\ Wait!Least({a, b, c}) <= a /\ Wait!Least({a, b, c}) <= b /\ Wait!Least({a, b, c}) <= c
<1>1. \E m \in {a, b, c} : \A x \in {a, b, c} : m <= x
  <2>1. CASE a <= b /\ a <= c
    BY <2>1
  <2>2. CASE b <= a /\ b <= c
    BY <2>2
  <2>3. CASE c <= a /\ c <= b
    BY <2>3
  <2>. QED BY <2>1, <2>2, <2>3
<1>2. /\ Wait!Least({a, b, c}) \in {a, b, c}
      /\ \A x \in {a, b, c} : Wait!Least({a, b, c}) <= x
  BY <1>1 DEF Wait!Least
<1>. QED BY <1>2

(* What a Write may commit fits in the credit and in the table.            *)
LEMMA AllowedFits ==
  ASSUME WaitTypes, RoomKept, NEW w \in Waiters
  PROVE  /\ Wait!Allowed(w) \in Nat
         /\ owed + Wait!Allowed(w) <= WaitCredit
         /\ ready + assigned + Wait!Allowed(w) <= PendingLimit
<1> DEFINE a == WaitCredit - owed
           b == Wait!Ceiling(w) - ready
           c == PendingLimit - Wait!Reserved(w) - ready - assigned
           n == Wait!Least({Wait!RoomFor(w)[r] : r \in DOMAIN Wait!RoomFor(w)})
<1>1. ready \in Nat /\ assigned \in Nat /\ owed \in Nat /\ owed <= WaitCredit
      /\ ready + assigned <= PendingLimit
  BY DEF WaitTypes, RoomKept
<1>2. Wait!Reserved(w) \in Nat
  <2>1. IsFiniteSet(Wait!Inside \ (Bulk \cup {w}))
    BY WriterConstants, FS_Subset DEF Wait!Inside
  <2>2. Cardinality(Wait!Inside \ (Bulk \cup {w})) \in Nat
    BY <2>1, FS_CardinalityType
  <2>3. Wait!Cardinality(Wait!Inside \ (Bulk \cup {w})) = Cardinality(Wait!Inside \ (Bulk \cup {w}))
    BY DEF Cardinality, Wait!Cardinality
  <2>. QED BY <2>2, <2>3 DEF Wait!Reserved
<1>3. a \in Int /\ b \in Int /\ c \in Int /\ a <= WaitCredit - owed
      /\ c <= PendingLimit - ready - assigned
  BY <1>1, <1>2, WriterConstants DEF Wait!Ceiling
<1>4. {Wait!RoomFor(w)[r] : r \in DOMAIN Wait!RoomFor(w)} = {a, b, c}
  BY DEF Wait!RoomFor
<1>5. Wait!Allowed(w) = IF n > 0 THEN n ELSE 0
  BY Zenon DEF Wait!Allowed
<1> HIDE DEF a, b, c
<1>6. n = Wait!Least({a, b, c})
  BY <1>4
<1> HIDE DEF n
<1>7. n \in Int /\ n <= a /\ n <= c
  BY <1>3, <1>6, LeastOfThree
<1>. QED BY <1>1, <1>3, <1>5, <1>7, WriterConstants

(* Who leaves hands on what was meant for it and is in line no more.       *)
LEMMA OutKeeps ==
  ASSUME WaitTypes, LineRight, NEW w \in Waiters,
         writer' = Wait!Out(w), line' = Wait!Without(w)
  PROVE  writer' \in [Waiters -> Waits] /\ LineRight'
<1> DEFINE told == Wait!Signalled(Wait!PassedOn(w))
<1>1. writer \in [Waiters -> Waits] /\ writer' = [told EXCEPT ![w] = Wait!Idle]
  BY Zenon DEF WaitTypes, Wait!Out
<1>2. told \in [Waiters -> Waits] /\ \A v \in Waiters : told[v].at = writer[v].at
  <2>1. \A v \in Wait!PassedOn(w) : v \in Waiters /\ writer[v].reason \in {"session", "queue", "pending"}
    BY DEF Wait!PassedOn, Wait!First, Wait!WaitingFor
  <2>. QED BY <1>1, <2>1, SignalKeeps
<1> HIDE DEF told
<1>3. Wait!Idle \in Waits /\ Wait!Idle.at = "out"
  BY DEF Wait!Idle, Waits, Places, Reasons
<1>4. Wait!Inside' = Wait!Inside \ {w}
  BY <1>1, <1>2, <1>3 DEF Wait!Inside
<1>5. LineRight'
  <2>1. CASE w \in Wait!Inside
    <3>1. InLine(line', Wait!Inside \ {w})
      BY <2>1, LineLoses
    <3>. QED BY <1>4, <3>1, Zenon DEF LineRight, InLine
  <2>2. CASE w \notin Wait!Inside
    <3>1. line' = line /\ Wait!Inside' = Wait!Inside
      BY <1>4, <2>2 DEF Wait!Without
    <3>. QED BY <3>1, Zenon DEF LineRight, InLine
  <2>. QED BY <2>1, <2>2
<1>. QED BY <1>1, <1>2, <1>3, <1>5

LEMMA RunKeeps ==
  ASSUME WaitInv, NEW w \in Waiters, NEW left \in Nat, Wait!Run(w, left), forfeited' = forfeited
  PROVE  WaitInv'
<1> DEFINE n == IF path THEN Wait!Least({left, Wait!Allowed(w), Quantum}) ELSE 0
           owes == IF n > 0 THEN {} ELSE writer[w].owes
           b == IF n = Quantum THEN Wait!Yielded(left - n)
                ELSE Wait!Asleep(left - n, Wait!Stopped(w, n), owes)
<1>0. WaitTypes /\ LineRight /\ RoomKept
  BY DEF WaitInv
<1>1. /\ ready \in Nat /\ again \in 0..ready /\ assigned \in Nat /\ owed \in Nat
      /\ path \in BOOLEAN /\ forfeited \in BOOLEAN /\ writer \in [Waiters -> Waits]
  BY <1>0, Zenon DEF WaitTypes
<1>2. n \in Nat /\ n <= left /\ n <= Wait!Allowed(w)
  <2>1. Wait!Allowed(w) \in Nat
    BY <1>0, AllowedFits
  <2>2. CASE path
    <3> DEFINE m == Wait!Least({left, Wait!Allowed(w), Quantum})
    <3>1. m \in {left, Wait!Allowed(w), Quantum} /\ m <= left /\ m <= Wait!Allowed(w)
      <4>1. left \in Int /\ Wait!Allowed(w) \in Int /\ Quantum \in Int
        BY <2>1, WriterConstants
      <4>. QED BY <4>1, LeastOfThree, Zenon
    <3>2. n = m
      BY <2>2
    <3> HIDE DEF m, n
    <3>. QED BY <2>1, <3>1, <3>2, WriterConstants
  <2>3. CASE ~path
    BY <2>1, <2>3
  <2>. QED BY <1>1, <2>2, <2>3
<1>3. /\ ready' = ready + n /\ owed' = owed + n /\ UNCHANGED <<again, assigned, path>>
      /\ \/ writer' = Wait!Out(w) /\ line' = Wait!Without(w)
         \/ /\ n < left
            /\ writer' = [writer EXCEPT ![w] = b]
            /\ line' = IF n > 0 \/ w \notin Wait!Inside THEN Append(Wait!Without(w), w) ELSE line
  BY Zenon DEF Wait!Run
<1>4. ready' \in Nat /\ again' \in 0..ready' /\ assigned' \in Nat /\ owed' \in Nat
      /\ owed' <= WaitCredit /\ ready' + assigned' <= PendingLimit
  <2>1. /\ Wait!Allowed(w) \in Nat /\ owed + Wait!Allowed(w) <= WaitCredit
        /\ ready + assigned + Wait!Allowed(w) <= PendingLimit
    BY <1>0, AllowedFits
  <2> HIDE DEF n
  <2>. QED BY <1>1, <1>2, <1>3, <2>1, WriterConstants
<1>5. path' \in BOOLEAN /\ forfeited' \in BOOLEAN
  BY <1>1, <1>3, Zenon
<1>6. writer' \in [Waiters -> Waits] /\ LineRight'
  <2>1. CASE writer' = Wait!Out(w) /\ line' = Wait!Without(w)
    BY <1>0, <2>1, OutKeeps
  <2>2. CASE /\ n < left
             /\ writer' = [writer EXCEPT ![w] = b]
             /\ line' = IF n > 0 \/ w \notin Wait!Inside THEN Append(Wait!Without(w), w) ELSE line
    <3>1. b \in Waits /\ b.at # "out"
      <4>1. left - n \in Nat /\ owes \in SUBSET {"session", "queue", "pending"}
        BY <1>1, <1>2, <2>2 DEF Waits
      <4>2. Wait!Yielded(left - n) \in Waits /\ Wait!Yielded(left - n).at = "yielded"
        <5> HIDE DEF n
        <5>. QED BY <4>1 DEF Wait!Yielded, Wait!Idle, Waits, Places, Reasons
      <4>3. Wait!Stopped(w, n) \in Reasons
        BY DEF Wait!Stopped, Reasons
      <4>4. ASSUME NEW x \in Nat, NEW y \in Reasons, NEW z \in SUBSET {"session", "queue", "pending"}
            PROVE  Wait!Asleep(x, y, z) \in Waits /\ Wait!Asleep(x, y, z).at = "asleep"
        BY DEF Wait!Asleep, Wait!Idle, Waits, Places, Reasons
      <4>5. /\ Wait!Asleep(left - n, Wait!Stopped(w, n), owes) \in Waits
            /\ Wait!Asleep(left - n, Wait!Stopped(w, n), owes).at = "asleep"
        <5> HIDE DEF n, owes
        <5>. QED BY <4>1, <4>3, <4>4
      <4> HIDE DEF n, owes
      <4>. QED BY <4>2, <4>5
    <3> HIDE DEF b, n
    <3>2. Wait!Inside' = Wait!Inside \cup {w}
      BY <1>1, <2>2, <3>1 DEF Wait!Inside
    <3>3. LineRight'
      <4>1. CASE n > 0 \/ w \notin Wait!Inside
        <5>1. line' = Append(Wait!Without(w), w)
          BY <2>2, <4>1, Zenon
        <5>2. InLine(line', Wait!Inside \cup {w})
          BY <1>0, <5>1, LineGains, Zenon
        <5>. QED BY <3>2, <5>2, Zenon DEF LineRight, InLine
      <4>2. CASE ~(n > 0 \/ w \notin Wait!Inside)
        <5>1. line' = line /\ Wait!Inside' = Wait!Inside
          BY <2>2, <3>2, <4>2
        <5>. QED BY <1>0, <5>1, Zenon DEF LineRight, InLine
      <4>. QED BY <4>1, <4>2
    <3>. QED BY <1>1, <2>2, <3>1, <3>3
  <2>. QED BY <1>3, <2>1, <2>2
<1>. QED BY <1>4, <1>5, <1>6, Zenon DEF WaitInv, WaitTypes, RoomKept
-----------------------------------------------------------------------------
(* The steps.                                                              *)

(* Signals and broadcasts do not disturb the line.                         *)
LEMMA SignalStays ==
  ASSUME WaitTypes, LineRight, NEW S,
         \A w \in S : w \in Waiters /\ writer[w].reason \in {"session", "queue", "pending"},
         writer' = Wait!Signalled(S), line' = line
  PROVE  writer' \in [Waiters -> Waits] /\ LineRight'
<1>1. writer' \in [Waiters -> Waits] /\ \A w \in Waiters : writer'[w].at = writer[w].at
  BY SignalKeeps DEF WaitTypes
<1>. QED BY <1>1, LineStays

LEMMA BroadcastStays ==
  ASSUME WaitTypes, LineRight, writer' = Wait!Broadcast, line' = line
  PROVE  writer' \in [Waiters -> Waits] /\ LineRight'
<1>1. writer' \in [Waiters -> Waits] /\ \A w \in Waiters : writer'[w].at = writer[w].at
  BY BroadcastKeeps DEF WaitTypes
<1>. QED BY <1>1, LineStays

(* A writer that wakes, or whose timer fires, is still in its Write.       *)
LEMMA WakesKeep ==
  ASSUME WaitInv, NEW w \in Waiters, Wait!Wake(w) \/ Wait!Timeout(w)
  PROVE  WaitInv'
<1>1. PICK b \in Waits : writer' = [writer EXCEPT ![w] = b] /\ b.at # "out"
  <2>1. writer[w] \in Waits
    BY DEF WaitInv, WaitTypes
  <2>2. ASSUME NEW r \in Waits
        PROVE  /\ [[r EXCEPT !.at = "woken"] EXCEPT !.told = FALSE] \in Waits
               /\ [[[r EXCEPT !.at = "woken"] EXCEPT !.told = FALSE] EXCEPT !.token = FALSE] \in Waits
               /\ [[r EXCEPT !.at = "late"] EXCEPT !.told = FALSE] \in Waits
               /\ [[r EXCEPT !.at = "woken"] EXCEPT !.told = FALSE].at = "woken"
               /\ [[[r EXCEPT !.at = "woken"] EXCEPT !.told = FALSE] EXCEPT !.token = FALSE].at = "woken"
               /\ [[r EXCEPT !.at = "late"] EXCEPT !.told = FALSE].at = "late"
    BY DEF Waits, Places
  <2>3. writer \in [Waiters -> Waits]
    BY DEF WaitInv, WaitTypes
  <2>4. \/ writer' = [writer EXCEPT ![w] = [[writer[w] EXCEPT !.at = "woken"] EXCEPT !.told = FALSE]]
        \/ writer' = [writer EXCEPT ![w] = [[[writer[w] EXCEPT !.at = "woken"] EXCEPT !.told = FALSE]
                                            EXCEPT !.token = FALSE]]
        \/ writer' = [writer EXCEPT ![w] = [[writer[w] EXCEPT !.at = "late"] EXCEPT !.told = FALSE]]
    BY <2>3 DEF Wait!Wake, Wait!Timeout
  <2>. QED BY <2>1, <2>2, <2>4
<1>2. /\ writer[w].at = "asleep" /\ writer \in [Waiters -> Waits]
      /\ UNCHANGED <<line, ready, again, assigned, owed, path, forfeited>>
  BY DEF Wait!Wake, Wait!Timeout, Wait!tableVars, WaitInv, WaitTypes
<1>3. Wait!Inside' = Wait!Inside
  BY <1>1, <1>2 DEF Wait!Inside
<1>4. writer' \in [Waiters -> Waits]
  BY <1>1, <1>2
<1>5. LineRight'
  BY <1>2, <1>3, Zenon DEF LineRight, InLine, WaitInv
<1>. QED BY <1>2, <1>4, <1>5, ZenonT(60) DEF WaitInv, WaitTypes, RoomKept

LEMMA LeaveKeeps ==
  ASSUME WaitInv, NEW w \in Waiters, Wait!Leave(w)
  PROVE  WaitInv'
<1>1. writer' \in [Waiters -> Waits] /\ LineRight'
  BY OutKeeps, Zenon DEF Wait!Leave, WaitInv
<1>2. UNCHANGED <<ready, again, assigned, owed, path>>
  BY DEF Wait!Leave, Wait!tableVars
<1>3. forfeited' \in BOOLEAN
  BY Zenon DEF Wait!Leave
<1>. QED BY <1>1, <1>2, <1>3, Zenon DEF WaitInv, WaitTypes, RoomKept

(* What frees room.                                                        *)
LEMMA RoomComesKeeps ==
  ASSUME WaitInv, Wait!Dispatch \/ Wait!Confirm \/ Wait!Grant
  PROVE  WaitInv'
<1>0. /\ WaitTypes /\ LineRight /\ RoomKept
      /\ UNCHANGED <<line, path, forfeited>>
  BY DEF WaitInv, Wait!Dispatch, Wait!Confirm, Wait!Grant
<1>1. /\ ready \in Nat /\ again \in 0..ready /\ assigned \in Nat /\ owed \in Nat
      /\ owed <= WaitCredit /\ ready + assigned <= PendingLimit
  BY <1>0, Zenon DEF WaitTypes, RoomKept
<1>2. path' \in BOOLEAN /\ forfeited' \in BOOLEAN
  BY <1>0, Zenon DEF WaitTypes
<1>3. ASSUME NEW n, NEW left
      PROVE  /\ \A w \in Wait!Admitted(n, left) :
                  w \in Waiters /\ writer[w].reason \in {"session", "queue", "pending"}
             /\ \A w \in Wait!First(n, Wait!WaitingFor("pending")) :
                  w \in Waiters /\ writer[w].reason \in {"session", "queue", "pending"}
             /\ \A w \in Wait!First(n, Wait!WaitingFor("session")) :
                  w \in Waiters /\ writer[w].reason \in {"session", "queue", "pending"}
  BY DEF Wait!Admitted, Wait!First, Wait!WaitingFor
<1>4. CASE Wait!Dispatch
  <2>1. PICK n \in 1..Wait!Least({ready, DispatchBatch}) :
          /\ ready' = ready - n /\ assigned' = assigned + n
          /\ again' = IF again > n THEN again - n ELSE 0
          /\ writer' = Wait!Signalled(Wait!Admitted(n, ready - n))
    BY <1>4 DEF Wait!Dispatch
  <2>2. owed' = owed
    BY <1>4 DEF Wait!Dispatch
  <2>3. Wait!Least({ready, DispatchBatch}) \in {ready, DispatchBatch} /\ Wait!Least({ready, DispatchBatch}) <= ready
    <3>1. ready \in Int /\ DispatchBatch \in Int
      BY <1>1, WriterConstants
    <3>. QED BY <3>1, LeastOfTwo, Zenon
  <2>4. n \in Nat /\ n <= ready
    BY <1>1, <2>3, WriterConstants
  <2>5. /\ ready' \in Nat /\ again' \in 0..ready' /\ assigned' \in Nat /\ owed' \in Nat
        /\ owed' <= WaitCredit /\ ready' + assigned' <= PendingLimit
    BY <1>1, <2>1, <2>2, <2>4
  <2>6. writer' \in [Waiters -> Waits] /\ LineRight'
    BY <1>0, <1>3, <2>1, SignalStays
  <2>. QED BY <1>2, <2>5, <2>6, Zenon DEF WaitInv, WaitTypes, RoomKept
<1>5. CASE Wait!Confirm
  <2>1. /\ ready' \in Nat /\ again' \in 0..ready' /\ assigned' \in Nat /\ owed' \in Nat
        /\ owed' <= WaitCredit /\ ready' + assigned' <= PendingLimit
    BY <1>1, <1>5, WriterConstants DEF Wait!Confirm
  <2>2. PICK S : /\ writer' = Wait!Signalled(S)
                 /\ \A w \in S : w \in Waiters /\ writer[w].reason \in {"session", "queue", "pending"}
    <3>1. CASE writer' = Wait!Signalled(Wait!First(1, Wait!WaitingFor("pending")))
      BY <1>3, <3>1
    <3>2. CASE writer' = Wait!Signalled(Wait!Admitted(1, ready - 1) \cup Wait!First(1, Wait!WaitingFor("pending")))
      BY <1>3, <3>2
    <3>. QED BY <1>5, <3>1, <3>2 DEF Wait!Confirm
  <2>3. writer' \in [Waiters -> Waits] /\ LineRight'
    BY <1>0, <2>2, SignalStays
  <2>. QED BY <1>2, <2>1, <2>3, Zenon DEF WaitInv, WaitTypes, RoomKept
<1>6. CASE Wait!Grant
  <2>1. PICK n \in 1..(owed - ready + again) :
          /\ owed' = owed - n
          /\ writer' = Wait!Signalled(Wait!First(Wait!Permits(n), Wait!WaitingFor("session")))
    BY <1>6 DEF Wait!Grant
  <2>2. UNCHANGED <<ready, again, assigned>>
    BY <1>6 DEF Wait!Grant
  <2>3. /\ ready' \in Nat /\ again' \in 0..ready' /\ assigned' \in Nat /\ owed' \in Nat
        /\ owed' <= WaitCredit /\ ready' + assigned' <= PendingLimit
    BY <1>1, <2>1, <2>2, WriterConstants
  <2>4. writer' \in [Waiters -> Waits] /\ LineRight'
    BY <1>0, <1>3, <2>1, SignalStays
  <2>. QED BY <1>2, <2>3, <2>4, Zenon DEF WaitInv, WaitTypes, RoomKept
<1>. QED BY <1>4, <1>5, <1>6

LEMMA CarriersKeep ==
  ASSUME WaitInv, Wait!Lose \/ Wait!Attach
  PROVE  WaitInv'
<1>0. /\ WaitTypes /\ LineRight /\ RoomKept
      /\ writer' = Wait!Broadcast /\ path' \in BOOLEAN
      /\ UNCHANGED <<line, owed, forfeited>>
  BY DEF WaitInv, Wait!Lose, Wait!Attach, Wait!tableVars
<1>1. writer' \in [Waiters -> Waits] /\ LineRight'
  BY <1>0, BroadcastStays
<1>2. /\ ready \in Nat /\ again \in 0..ready /\ assigned \in Nat /\ owed \in Nat
      /\ owed <= WaitCredit /\ ready + assigned <= PendingLimit
  BY <1>0, Zenon DEF WaitTypes, RoomKept
<1>3. /\ ready' \in Nat /\ again' \in 0..ready' /\ assigned' \in Nat
      /\ ready' + assigned' <= PendingLimit
  BY <1>2, WriterConstants DEF Wait!Lose, Wait!Attach, Wait!tableVars
<1>4. forfeited' \in BOOLEAN /\ owed' \in Nat /\ owed' <= WaitCredit
  BY <1>0, <1>2 DEF WaitTypes
<1>. QED BY <1>0, <1>1, <1>3, <1>4, Zenon DEF WaitInv, WaitTypes, RoomKept

LEMMA WaitStarts == Wait!Init => WaitInv
<1> SUFFICES ASSUME Wait!Init PROVE WaitInv
  OBVIOUS
<1>1. Wait!Idle \in Waits /\ Wait!Idle.at = "out"
  BY DEF Wait!Idle, Waits, Places, Reasons
<1>2. WaitTypes /\ RoomKept
  <2>1. path \in BOOLEAN /\ forfeited \in BOOLEAN
    BY Zenon DEF Wait!Init
  <2>2. /\ writer \in [Waiters -> Waits] /\ ready \in Nat /\ again \in 0..ready
        /\ assigned \in Nat /\ owed \in Nat /\ owed <= WaitCredit /\ ready + assigned <= PendingLimit
    BY <1>1, WriterConstants DEF Wait!Init
  <2>. QED BY <2>1, <2>2, Zenon DEF WaitTypes, RoomKept
<1>3. Wait!Inside = {} /\ line = <<>>
  BY <1>1 DEF Wait!Init, Wait!Inside
<1>4. LineRight
  BY <1>3 DEF LineRight, InLine
<1>. QED BY <1>2, <1>4 DEF WaitInv

LEMMA WaitStep == WaitInv /\ [Wait!Next]_writerVars => WaitInv'
<1> SUFFICES ASSUME WaitInv, [Wait!Next]_writerVars PROVE WaitInv'
  OBVIOUS
<1>1. ASSUME NEW w \in Waiters, Wait!Write(w) PROVE WaitInv'
  BY <1>1, RunKeeps, WriterConstants DEF Wait!Write
<1>2. ASSUME NEW w \in Waiters, Wait!Resume(w) PROVE WaitInv'
  <2>1. writer[w].left \in Nat
    BY <1>2 DEF WaitInv, WaitTypes, Waits
  <2>. QED BY <1>2, <2>1, RunKeeps DEF Wait!Resume
<1>3. ASSUME NEW w \in Waiters, Wait!Wake(w) \/ Wait!Timeout(w) PROVE WaitInv'
  BY <1>3, WakesKeep
<1>4. ASSUME NEW w \in Waiters, Wait!Late(w) \/ Wait!Expire(w) PROVE WaitInv'
  BY <1>4, LeaveKeeps DEF Wait!Late, Wait!Expire
<1>5. CASE Wait!Dispatch \/ Wait!Confirm \/ Wait!Grant
  BY <1>5, RoomComesKeeps
<1>6. CASE Wait!Lose \/ Wait!Attach
  BY <1>6, CarriersKeep
<1>7. CASE UNCHANGED writerVars
  <2>1. UNCHANGED <<writer, line, ready, again, assigned, owed, path, forfeited>>
    BY <1>7 DEF writerVars
  <2>2. Wait!Inside' = Wait!Inside
    BY <2>1 DEF Wait!Inside
  <2>. QED BY <2>1, <2>2, Zenon DEF WaitInv, WaitTypes, LineRight, InLine, RoomKept
<1>. QED BY <1>1, <1>2, <1>3, <1>4, <1>5, <1>6, <1>7 DEF Wait!Next

(* The line holds as many as there are in a Write.                         *)
LEMMA LineCounts == LineRight => Len(line) = Wait!Cardinality(Wait!Inside)
<1> SUFFICES ASSUME LineRight PROVE Len(line) = Wait!Cardinality(Wait!Inside)
  OBVIOUS
<1>1. Len(line) \in Nat /\ line \in [1..Len(line) -> Waiters]
  BY DEF LineRight, InLine
<1>2. IsFiniteSet(1..Len(line)) /\ Cardinality(1..Len(line)) = Len(line)
  BY <1>1, FS_Interval
<1>3. line \in Bijection(1..Len(line), Wait!Inside)
  <2>1. line \in [1..Len(line) -> Wait!Inside]
    BY <1>1 DEF LineRight, InLine
  <2>2. IsInjective(line)
    BY <1>1 DEF IsInjective, LineRight, InLine
  <2>3. \A w \in Wait!Inside : \E i \in 1..Len(line) : line[i] = w
    BY DEF LineRight, InLine
  <2>4. line \in Injection(1..Len(line), Wait!Inside)
    BY <2>1, <2>2 DEF Injection
  <2>5. line \in Surjection(1..Len(line), Wait!Inside)
    BY <2>1, <2>3 DEF Surjection
  <2>. QED BY <2>4, <2>5 DEF Bijection
<1>4. ExistsBijection(1..Len(line), Wait!Inside)
  BY <1>3 DEF ExistsBijection
<1>5. Cardinality(Wait!Inside) = Len(line)
  BY <1>2, <1>4, FS_Bijection
<1>6. Wait!Cardinality(Wait!Inside) = Cardinality(Wait!Inside)
  BY DEF Cardinality, Wait!Cardinality
<1>. QED BY <1>5, <1>6

LEMMA WaitInvImplies == WaitInv => Wait!TypeOK /\ Wait!LimitsHold
<1> SUFFICES ASSUME WaitInv PROVE Wait!TypeOK /\ Wait!LimitsHold
  OBVIOUS
<1>1. Wait!TypeOK
  BY Zenon DEF WaitInv, WaitTypes, LineRight, InLine, Waits, Places, Reasons, Wait!TypeOK
<1>2. Wait!LimitsHold
  <2>1. Len(line) = Wait!Cardinality(Wait!Inside)
    BY LineCounts, Zenon DEF WaitInv
  <2>. QED BY <2>1, Zenon DEF WaitInv, LineRight, InLine, RoomKept, Wait!LimitsHold
<1>. QED BY <1>1, <1>2

-----------------------------------------------------------------------------
(* The two parts side by side.                                             *)

(* THE LIMITS: whatever is late, lost or reordered no frame of a Stream is *)
(* refused, and what the Writes commit stays within the credit they wait   *)
(* for and the table of pending DATA, whoever is woken for the same room;  *)
(* a writer is in line once while its Write goes on.                       *)
THEOREM LimitsKept == BothSpec => []LimitsRespected
<1>1. BothInit => AccountsAgree /\ WaitInv
  BY AccountsInit, WaitStarts DEF BothInit
<1>2. AccountsAgree /\ WaitInv /\ [BothNext]_<<part, vars, writerVars>> => AccountsAgree' /\ WaitInv'
  <2> SUFFICES ASSUME AccountsAgree, WaitInv, [BothNext]_<<part, vars, writerVars>>
               PROVE  AccountsAgree' /\ WaitInv'
    OBVIOUS
  <2>1. [Next]_vars /\ [Wait!Next]_writerVars
    <3>1. CASE part = "credit" /\ UNCHANGED <<part, writerVars>> /\ Next
      BY <3>1
    <3>2. CASE part = "writers" /\ UNCHANGED <<part, vars>> /\ Wait!Next
      BY <3>2
    <3>3. CASE UNCHANGED <<part, vars, writerVars>>
      BY <3>3
    <3>. QED BY <3>1, <3>2, <3>3 DEF BothNext
  <2>. QED BY <2>1, AccountsStep, WaitStep
<1>3. AccountsAgree /\ WaitInv => LimitsRespected
  BY NothingToRefuse, WaitInvImplies DEF LimitsRespected
<1>. QED BY <1>1, <1>2, <1>3, PTL DEF BothSpec
=============================================================================
