---------------------------- MODULE CreditProofs ----------------------------
(***************************************************************************)
(* Theorems about Credit, for any number of Streams and any sizes of the   *)
(* windows.                                                                *)
(***************************************************************************)
EXTENDS Credit, FiniteSetTheorems, TLAPS

-----------------------------------------------------------------------------
(* The bytes below the offsets of the Streams.                             *)

(* Offsets that stay within the bound.                                     *)
Offsets == [Streams -> 0..MaxBytes]

LEMMA BytesFinite ==
  ASSUME NEW f \in Offsets
  PROVE  IsFiniteSet(BytesBelow(f)) /\ Cardinality(BytesBelow(f)) \in Nat
<1>1. IsFiniteSet(0..(MaxBytes - 1))
  BY FS_Interval, CreditAssumption
<1>2. IsFiniteSet(Streams \X (0..(MaxBytes - 1)))
  BY <1>1, FS_Product, CreditAssumption
<1>3. BytesBelow(f) \in SUBSET (Streams \X (0..(MaxBytes - 1)))
  BY DEF BytesBelow
<1>. QED BY <1>2, <1>3, FS_Subset, FS_CardinalityType

LEMMA ColumnSize ==
  ASSUME NEW s, NEW a \in Nat, NEW b \in Nat, a <= b
  PROVE  /\ IsFiniteSet({s} \X (a..(b - 1)))
         /\ Cardinality({s} \X (a..(b - 1))) = b - a
<1>1. IsFiniteSet({s}) /\ Cardinality({s}) = 1
  BY FS_Singleton
<1>2. a \in Int /\ b - 1 \in Int
  OBVIOUS
<1>3. IsFiniteSet(a..(b - 1)) /\ Cardinality(a..(b - 1)) = b - a
  <2>1. /\ IsFiniteSet(a..(b - 1))
        /\ Cardinality(a..(b - 1)) = IF a > b - 1 THEN 0 ELSE (b - 1) - a + 1
    BY <1>2, FS_Interval, Zenon
  <2>. QED BY <2>1
<1> DEFINE column == a..(b - 1)
<1>4. /\ IsFiniteSet({s} \X column)
      /\ Cardinality({s} \X column) = Cardinality({s}) * Cardinality(column)
  <2> HIDE DEF column
  <2>. QED BY <1>1, <1>3, FS_Product DEF column
<1>5. Cardinality({s}) * Cardinality(column) = b - a
  BY <1>1, <1>3
<1>. QED BY <1>4, <1>5

(* Raising the offset of one Stream adds as many bytes.                    *)
LEMMA BytesAdded ==
  ASSUME NEW f \in Offsets, NEW s \in Streams, NEW b \in 0..MaxBytes, f[s] <= b
  PROVE  /\ [f EXCEPT ![s] = b] \in Offsets
         /\ Cardinality(BytesBelow([f EXCEPT ![s] = b])) = Cardinality(BytesBelow(f)) + b - f[s]
<1> DEFINE g == [f EXCEPT ![s] = b]
           new == {s} \X (f[s]..(b - 1))
<1>0. f[s] \in 0..MaxBytes /\ MaxBytes \in Nat /\ g \in Offsets
  BY CreditAssumption DEF Offsets
<1>1. BytesBelow(g) = BytesBelow(f) \cup new
  <2>1. ASSUME NEW x \in Streams \X (0..(MaxBytes - 1)), x[2] < g[x[1]]
        PROVE  x[2] < f[x[1]] \/ x \in new
    <3>1. PICK t \in Streams, i \in 0..(MaxBytes - 1) : x = <<t, i>>
      OBVIOUS
    <3>2. CASE t = s
      BY <1>0, <2>1, <3>1, <3>2 DEF Offsets
    <3>3. CASE t # s
      BY <1>0, <2>1, <3>1, <3>3 DEF Offsets
    <3>. QED BY <3>2, <3>3
  <2>2. ASSUME NEW x \in Streams \X (0..(MaxBytes - 1)), x[2] < f[x[1]]
        PROVE  x[2] < g[x[1]]
    <3>1. PICK t \in Streams, i \in 0..(MaxBytes - 1) : x = <<t, i>>
      OBVIOUS
    <3>. QED BY <1>0, <2>2, <3>1 DEF Offsets
  <2>3. ASSUME NEW x \in new
        PROVE  x \in Streams \X (0..(MaxBytes - 1)) /\ x[2] < g[x[1]]
    <3>1. PICK i \in f[s]..(b - 1) : x = <<s, i>>
      OBVIOUS
    <3>. QED BY <1>0, <3>1 DEF Offsets
  <2> HIDE DEF g, new
  <2>. QED BY <2>1, <2>2, <2>3 DEF BytesBelow
<1>2. BytesBelow(f) \cap new = {}
  <2> SUFFICES ASSUME NEW x \in BytesBelow(f), x \in new PROVE FALSE
    OBVIOUS
  <2>1. PICK i \in f[s]..(b - 1) : x = <<s, i>>
    OBVIOUS
  <2>. QED BY <1>0, <2>1 DEF BytesBelow
<1>3. IsFiniteSet(new) /\ Cardinality(new) = b - f[s]
  <2>1. f[s] \in Nat /\ b \in Nat
    BY <1>0
  <2>. QED BY <2>1, ColumnSize
<1>4. Cardinality(BytesBelow(g)) = Cardinality(BytesBelow(f)) + Cardinality(new) - Cardinality({})
  <2> HIDE DEF g, new
  <2>. QED BY <1>1, <1>2, <1>3, BytesFinite, FS_Union
<1>5. Cardinality({}) = 0
  BY FS_EmptySet
<1>. QED BY <1>0, <1>3, <1>4, <1>5, BytesFinite

(* Offsets that are nowhere larger have no more bytes below them, even     *)
(* with what is missing of one Stream.                                     *)
LEMMA BytesMonotone ==
  ASSUME NEW f \in Offsets, NEW g \in Offsets, \A t \in Streams : f[t] <= g[t]
  PROVE  Cardinality(BytesBelow(f)) <= Cardinality(BytesBelow(g))
<1>1. BytesBelow(f) \in SUBSET BytesBelow(g)
  <2>1. ASSUME NEW x \in Streams \X (0..(MaxBytes - 1)), x[2] < f[x[1]]
        PROVE  x[2] < g[x[1]]
    <3>1. PICK t \in Streams, i \in 0..(MaxBytes - 1) : x = <<t, i>>
      OBVIOUS
    <3>2. f[t] \in 0..MaxBytes /\ g[t] \in 0..MaxBytes /\ f[t] <= g[t] /\ i \in Int
      BY DEF Offsets
    <3>. QED BY <2>1, <3>1, <3>2
  <2>. QED BY <2>1 DEF BytesBelow
<1>. QED BY <1>1, BytesFinite, FS_Subset

LEMMA BytesBounded ==
  ASSUME NEW f \in Offsets, NEW g \in Offsets, \A t \in Streams : f[t] <= g[t],
         NEW s \in Streams
  PROVE  Cardinality(BytesBelow(f)) + g[s] - f[s] <= Cardinality(BytesBelow(g))
<1> DEFINE h == [f EXCEPT ![s] = g[s]]
<1>0. f[s] \in 0..MaxBytes /\ g[s] \in 0..MaxBytes /\ MaxBytes \in Nat /\ h \in Offsets
  BY CreditAssumption DEF Offsets
<1>1. Cardinality(BytesBelow(h)) = Cardinality(BytesBelow(f)) + g[s] - f[s]
  BY <1>0, BytesAdded
<1>2. \A t \in Streams : h[t] <= g[t]
  BY <1>0 DEF Offsets
<1> HIDE DEF h
<1>4. Cardinality(BytesBelow(h)) <= Cardinality(BytesBelow(g))
  BY <1>0, <1>2, BytesMonotone
<1>. QED BY <1>1, <1>4

(* No offset, no bytes.                                                    *)
LEMMA NoBytes ==
  /\ [t \in Streams |-> 0] \in Offsets
  /\ Cardinality(BytesBelow([t \in Streams |-> 0])) = 0
<1>1. [t \in Streams |-> 0] \in Offsets
  BY CreditAssumption DEF Offsets
<1>2. BytesBelow([t \in Streams |-> 0]) = {}
  <2> SUFFICES ASSUME NEW x \in BytesBelow([t \in Streams |-> 0]) PROVE FALSE
    OBVIOUS
  <2>1. PICK t \in Streams, i \in 0..(MaxBytes - 1) : x = <<t, i>>
    BY DEF BytesBelow
  <2>. QED BY <2>1 DEF BytesBelow
<1>. QED BY <1>1, <1>2, FS_EmptySet

-----------------------------------------------------------------------------
(* The initial state.                                                      *)

LEMMA AccountsInit == Init => AccountsAgree
<1> SUFFICES ASSUME Init PROVE AccountsAgree
  OBVIOUS
<1> USE CreditAssumption
<1>1. TypeOK
  BY DEF Init, TypeOK, NotFinal
<1>2. LedgersAgree
  BY NoBytes DEF Init, LedgersAgree
<1>3. SessionInOrder
  BY DEF Init, SessionInOrder
<1>4. \A s \in Streams : StreamInOrder(s)
  BY DEF Init, StreamInOrder
<1>5. FramesInOrder /\ WindowsInOrder /\ SessionWindowsInOrder
  BY DEF Init, FramesInOrder, WindowsInOrder, SessionWindowsInOrder
<1>. QED BY <1>1, <1>2, <1>3, <1>4, <1>5 DEF AccountsAgree

-----------------------------------------------------------------------------
(* What follows from the invariant in every state.                         *)

LEMMA OffsetTypes ==
  ASSUME AccountsAgree
  PROVE  /\ txNext \in Offsets /\ peerConsumed \in Offsets
         /\ rxHigh \in Offsets /\ rxRead \in Offsets
         /\ \A t \in Streams : /\ peerConsumed[t] <= rxRead[t] /\ rxRead[t] <= rxHigh[t]
                               /\ rxHigh[t] <= txNext[t]
<1>1. MaxBytes \in Nat
  BY CreditAssumption
<1>2. \A t \in Streams : /\ txNext[t] \in Nat /\ peerConsumed[t] \in Nat
                         /\ rxHigh[t] \in Nat /\ rxRead[t] \in Nat
                         /\ peerConsumed[t] <= rxRead[t] /\ rxRead[t] <= rxHigh[t]
                         /\ rxHigh[t] <= txNext[t] /\ txNext[t] <= MaxBytes
  BY DEF AccountsAgree, TypeOK, StreamInOrder
<1>3. \A t \in Streams : /\ txNext[t] \in 0..MaxBytes /\ peerConsumed[t] \in 0..MaxBytes
                         /\ rxHigh[t] \in 0..MaxBytes /\ rxRead[t] \in 0..MaxBytes
  BY <1>1, <1>2
<1>. QED BY <1>2, <1>3 DEF AccountsAgree, TypeOK, Offsets

(* The accounts of the Session are in the order of those of the Streams,   *)
(* and what a Stream has under way is part of what the Session has.        *)
LEMMA SessionChain ==
  ASSUME AccountsAgree
  PROVE  /\ rx.consumed <= rx.committed /\ rx.committed <= tx.committed
         /\ \A s \in Streams : /\ rx.committed + txNext[s] - rxHigh[s] <= tx.committed
                               /\ txNext[s] - peerConsumed[s] <= tx.used
<1>1. LedgersAgree
  BY DEF AccountsAgree
<1>2. /\ tx.committed \in Nat /\ tx.used \in Nat /\ rx.committed \in Nat /\ rx.consumed \in Nat
      /\ Cardinality(BytesBelow(peerConsumed)) \in Nat
  BY OffsetTypes, BytesFinite DEF AccountsAgree, TypeOK
<1>3. rx.consumed <= rx.committed
  BY <1>1, OffsetTypes, BytesMonotone DEF LedgersAgree
<1>4. rx.committed <= tx.committed
  BY <1>1, OffsetTypes, BytesMonotone DEF LedgersAgree
<1>5. ASSUME NEW s \in Streams
      PROVE  rx.committed + txNext[s] - rxHigh[s] <= tx.committed
  BY <1>1, OffsetTypes, BytesBounded DEF LedgersAgree
<1>6. ASSUME NEW s \in Streams
      PROVE  txNext[s] - peerConsumed[s] <= tx.used
  <2>1. \A t \in Streams : peerConsumed[t] <= txNext[t]
    BY OffsetTypes DEF AccountsAgree, TypeOK
  <2>2. Cardinality(BytesBelow(peerConsumed)) + txNext[s] - peerConsumed[s]
          <= Cardinality(BytesBelow(txNext))
    BY <2>1, OffsetTypes, BytesBounded
  <2>3. txNext[s] \in Nat /\ peerConsumed[s] \in Nat
    BY DEF AccountsAgree, TypeOK
  <2>. QED BY <1>1, <1>2, <2>2, <2>3 DEF LedgersAgree
<1>. QED BY <1>3, <1>4, <1>5, <1>6

(* The bytes of a Stream that a frame may still ask for fit into both      *)
(* windows.                                                                *)
LEMMA RoomForAll ==
  ASSUME AccountsAgree, NEW s \in Streams, NEW end \in Nat, end <= txNext[s]
  PROVE  Committable(s, end)
<1>1. /\ txNext[s] \in Nat /\ rxHigh[s] \in Nat /\ rxLimit[s] \in Nat /\ peerLimit[s] \in Nat
      /\ tx.committed \in Nat /\ tx.peerLimit \in Nat
      /\ rx.committed \in Nat /\ rx.consumed \in Nat /\ rx.limit \in Nat
  BY DEF AccountsAgree, TypeOK
<1>2. end <= rxLimit[s]
  BY <1>1 DEF AccountsAgree, StreamInOrder
<1>3. rx.committed + txNext[s] - rxHigh[s] <= tx.committed
  BY SessionChain
<1>4. /\ tx.committed <= tx.peerLimit /\ tx.peerLimit <= rx.limit
      /\ rx.limit <= rx.consumed + SessionCredit
  BY DEF AccountsAgree, SessionInOrder
<1>5. SessionCredit \in Nat
  BY CreditAssumption
<1>. QED BY <1>1, <1>2, <1>3, <1>4, <1>5 DEF Committable

(* THE REFUSALS: in a state of the invariant no frame is refused.          *)
LEMMA NothingToRefuse == AccountsAgree => NeverRefused
<1> SUFFICES ASSUME AccountsAgree PROVE NeverRefused
  OBVIOUS
<1>1. ASSUME NEW d \in data PROVE DataPasses(d)
  <2>1. d.stream \in Streams /\ d.to \in Nat /\ d.to <= txNext[d.stream]
    BY DEF AccountsAgree, TypeOK, FramesInOrder
  <2>2. rxFIN[d.stream] # NotFinal => d.to <= rxFIN[d.stream]
    BY <2>1 DEF AccountsAgree, StreamInOrder
  <2>. QED BY <2>1, <2>2, RoomForAll DEF DataPasses
<1>2. ASSUME NEW e \in ends PROVE EndPasses(e)
  <2>1. e.stream \in Streams /\ e.size \in Nat /\ e.size = txNext[e.stream]
    BY DEF AccountsAgree, TypeOK, FramesInOrder
  <2>2. Committable(e.stream, e.size)
    BY <2>1, RoomForAll
  <2>3. e.size >= rxHigh[e.stream] /\ e.size >= rxRead[e.stream] /\ e.size <= rxLimit[e.stream]
    BY <2>1 DEF AccountsAgree, TypeOK, StreamInOrder
  <2>4. rxFIN[e.stream] # NotFinal => e.size = rxFIN[e.stream]
    BY <2>1 DEF AccountsAgree, StreamInOrder
  <2>. QED BY <2>2, <2>3, <2>4 DEF EndPasses
<1>3. ASSUME NEW s \in Streams, NEW offset \in Nat, offset <= rxRead[s]
      PROVE  offset <= txNext[s] /\ Releasable(s, offset)
  <2>1. /\ rxRead[s] \in Nat /\ rxHigh[s] \in Nat /\ txNext[s] \in Nat /\ peerConsumed[s] \in Nat
        /\ tx.used \in Nat
    BY DEF AccountsAgree, TypeOK
  <2>2. rxRead[s] <= rxHigh[s] /\ rxHigh[s] <= txNext[s]
    BY DEF AccountsAgree, StreamInOrder
  <2>3. txNext[s] - peerConsumed[s] <= tx.used
    BY SessionChain
  <2>. QED BY <1>3, <2>1, <2>2, <2>3 DEF Releasable
<1>4. ASSUME NEW w \in windows PROVE WindowPasses(w)
  <2>1. w.stream \in Streams /\ w.consumed \in Nat /\ w.limit \in Nat /\ StreamCredit \in Nat
    BY CreditAssumption DEF AccountsAgree, TypeOK
  <2>2. /\ w.consumed <= rxRead[w.stream]
        /\ w.consumed <= w.limit /\ w.limit <= w.consumed + StreamCredit
        /\ Newer(w) \/ Stale(w)
    BY DEF AccountsAgree, WindowsInOrder
  <2>3. w.consumed <= txNext[w.stream] /\ Releasable(w.stream, w.consumed)
    BY <1>3, <2>1, <2>2
  <2>. QED BY <2>1, <2>2, <2>3 DEF WindowPasses
<1>5. ASSUME NEW w \in sessionWindows PROVE SessionWindowPasses(w)
  <2>1. w.consumed \in Nat /\ w.limit \in Nat /\ SessionCredit \in Nat
    BY CreditAssumption DEF AccountsAgree, TypeOK
  <2>2. /\ w.consumed <= rx.consumed
        /\ w.consumed <= w.limit /\ w.limit <= w.consumed + SessionCredit
        /\ SessionNewer(w) \/ SessionStale(w)
    BY DEF AccountsAgree, SessionWindowsInOrder
  <2>3. rx.consumed \in Nat /\ rx.committed \in Nat /\ tx.committed \in Nat
    BY DEF AccountsAgree, TypeOK
  <2>. QED BY <2>1, <2>2, <2>3, SessionChain DEF SessionWindowPasses
<1>6. ASSUME NEW f \in finals PROVE FinalPasses(f)
  <2>1. /\ f.stream \in Streams /\ f.size \in Nat
        /\ f.size = txNext[f.stream] /\ f.size = rxRead[f.stream]
        /\ ending[f.stream] # "no" /\ (f.reset => ending[f.stream] = "reset")
    BY DEF AccountsAgree, TypeOK, FramesInOrder
  <2>. QED BY <1>3, <2>1 DEF FinalPasses
<1>. QED BY <1>1, <1>2, <1>4, <1>5, <1>6 DEF NeverRefused

-----------------------------------------------------------------------------
(* What a step of the receiver may do: commit bytes of one Stream up to    *)
(* high and consume them up to read, and grant and report accordingly.     *)

Grows(old, new, bound) == new = old \/ (new > old /\ new <= bound)

SessionMoves(committed, consumed) ==
  /\ \E l \in Nat :
       rx' = [committed |-> rx.committed + committed, consumed |-> rx.consumed + consumed,
              limit |-> l]
  /\ Grows(rx.limit, rx'.limit, rx.consumed + consumed + SessionCredit)
  /\ sessionWindows' \subseteq
       sessionWindows \cup {[consumed |-> rx'.consumed, limit |-> rx'.limit]}

Report(s, reset) == [stream |-> s, size |-> txNext[s], reset |-> reset]
Reports(s, read) ==
  IF read # txNext[s] \/ ending[s] = "no" THEN {}
  ELSE IF ending[s] = "reset" THEN {Report(s, FALSE), Report(s, TRUE)}
  ELSE {Report(s, FALSE)}

ReceiverMoves(s, high, read) ==
  /\ rxHigh[s] <= high /\ high <= txNext[s] /\ rxRead[s] <= read /\ read <= high
  /\ rxHigh' = [rxHigh EXCEPT ![s] = high] /\ rxRead' = [rxRead EXCEPT ![s] = read]
  /\ SessionMoves(high - rxHigh[s], read - rxRead[s])
  /\ \E l \in Nat : rxLimit' = [rxLimit EXCEPT ![s] = l]
  /\ Grows(rxLimit[s], rxLimit'[s], read + StreamCredit)
  /\ \E a \in SUBSET (0..(high - 1)) : arrived' = [arrived EXCEPT ![s] = a]
  /\ windows' \subseteq windows \cup {WindowOf(s, read, rxLimit'[s])}
  /\ finals' \subseteq finals \cup Reports(s, read)
  /\ rxFIN' = rxFIN \/ (rxFIN' = [rxFIN EXCEPT ![s] = txNext[s]] /\ ending[s] # "no")
  /\ stopped' \in [Streams -> BOOLEAN] /\ closed' \in [Streams -> BOOLEAN]
  /\ data' \subseteq data /\ ends' \subseteq ends /\ stops' \subseteq stops \cup {s}
  /\ UNCHANGED sendVars

LEMMA AdvertiseMoves ==
  ASSUME TypeOK, SessionInOrder, NEW committed \in Nat, NEW consumed \in Nat,
         AdvertiseSession(rx.committed + committed, rx.consumed + consumed)
  PROVE  SessionMoves(committed, consumed)
<1>1. PICK target \in Targets :
        LET limit == Largest(rx.limit, rx.consumed + consumed + target) IN
        /\ rx' = [committed |-> rx.committed + committed, consumed |-> rx.consumed + consumed,
                  limit |-> limit]
        /\ \/ sessionWindows' = sessionWindows \cup
                                  {[consumed |-> rx.consumed + consumed, limit |-> limit]}
           \/ limit = rx.limit /\ UNCHANGED sessionWindows
  BY DEF AdvertiseSession
<1> DEFINE limit == Largest(rx.limit, rx.consumed + consumed + target)
<1>2. target \in Nat /\ target <= SessionCredit /\ SessionCredit \in Nat
  BY CreditAssumption
<1>3. rx.limit \in Nat /\ rx.consumed \in Nat /\ rx.committed \in Nat
  BY DEF TypeOK
<1>4. limit \in Nat /\ Grows(rx.limit, limit, rx.consumed + consumed + SessionCredit)
  BY <1>2, <1>3 DEF Largest, Grows
<1>5. /\ rx' = [committed |-> rx.committed + committed, consumed |-> rx.consumed + consumed,
                limit |-> limit]
      /\ sessionWindows' \subseteq
           sessionWindows \cup {[consumed |-> rx'.consumed, limit |-> rx'.limit]}
  BY <1>1
<1> HIDE DEF limit
<1>. QED BY <1>4, <1>5 DEF SessionMoves

LEMMA AccountMoves ==
  ASSUME TypeOK, SessionInOrder, NEW s \in Streams, NEW high \in Nat, NEW read \in Nat,
         rxHigh[s] <= high, rxRead[s] <= read,
         Account(s, high, read)
  PROVE  /\ rxHigh' = [rxHigh EXCEPT ![s] = high] /\ rxRead' = [rxRead EXCEPT ![s] = read]
         /\ SessionMoves(high - rxHigh[s], read - rxRead[s])
<1>1. /\ rxHigh[s] \in Nat /\ rxRead[s] \in Nat
      /\ rx \in [committed : Nat, consumed : Nat, limit : Nat]
  BY DEF TypeOK
<1>2. high - rxHigh[s] \in Nat /\ read - rxRead[s] \in Nat
  BY <1>1
<1>3. rxHigh' = [rxHigh EXCEPT ![s] = high] /\ rxRead' = [rxRead EXCEPT ![s] = read]
  BY DEF Account
<1>4. ASSUME read = rxRead[s] PROVE SessionMoves(high - rxHigh[s], read - rxRead[s])
  <2>1. /\ rx' = [rx EXCEPT !.committed = rx.committed + high - rxHigh[s]]
        /\ UNCHANGED sessionWindows
    BY <1>4 DEF Account
  <2>2. rx' = [committed |-> rx.committed + (high - rxHigh[s]),
               consumed |-> rx.consumed + (read - rxRead[s]), limit |-> rx.limit]
    BY <1>1, <1>4, <2>1
  <2>. QED BY <1>1, <2>1, <2>2 DEF SessionMoves, Grows
<1>5. ASSUME read # rxRead[s] PROVE SessionMoves(high - rxHigh[s], read - rxRead[s])
  <2>1. AdvertiseSession(rx.committed + high - rxHigh[s], rx.consumed + read - rxRead[s])
    BY <1>5 DEF Account
  <2>2. /\ rx.committed + high - rxHigh[s] = rx.committed + (high - rxHigh[s])
        /\ rx.consumed + read - rxRead[s] = rx.consumed + (read - rxRead[s])
    BY <1>1
  <2>3. AdvertiseSession(rx.committed + (high - rxHigh[s]), rx.consumed + (read - rxRead[s]))
    BY <2>1, <2>2
  <2>. QED BY <1>2, <2>3, AdvertiseMoves
<1>. QED BY <1>3, <1>4, <1>5

(* What discarding does, for the steps that discard.                       *)
LEMMA DiscardMoves ==
  ASSUME TypeOK, SessionInOrder, NEW s \in Streams, StreamInOrder(s), NEW high \in Nat,
         rxHigh[s] <= high,
         Discard(s, high)
  PROVE  /\ rxHigh' = [rxHigh EXCEPT ![s] = high] /\ rxRead' = [rxRead EXCEPT ![s] = high]
         /\ SessionMoves(high - rxHigh[s], high - rxRead[s])
         /\ arrived' = [arrived EXCEPT ![s] = {}]
         /\ windows' = windows \cup {WindowOf(s, high, rxLimit[s])}
<1>1. rxRead[s] <= high
  BY DEF TypeOK, StreamInOrder
<1>. QED BY <1>1, AccountMoves DEF Discard

(* A state of the invariant, at one Stream.                                *)
LEMMA StreamTypes ==
  ASSUME AccountsAgree, NEW s \in Streams
  PROVE  /\ TypeOK /\ SessionInOrder /\ StreamInOrder(s)
         /\ txNext[s] \in Nat /\ rxHigh[s] \in Nat /\ rxRead[s] \in Nat /\ rxLimit[s] \in Nat
         /\ rxRead[s] <= rxHigh[s] /\ rxHigh[s] <= txNext[s]
         /\ arrived[s] \subseteq 0..(rxHigh[s] - 1)
         /\ StreamCredit \in Nat /\ Bootstrap \in Nat /\ Bootstrap <= StreamCredit
BY CreditAssumption DEF AccountsAgree, TypeOK, StreamInOrder

LEMMA SameLimit ==
  ASSUME AccountsAgree, NEW s \in Streams, NEW read \in Nat, UNCHANGED rxLimit
  PROVE  /\ \E l \in Nat : rxLimit' = [rxLimit EXCEPT ![s] = l]
         /\ Grows(rxLimit[s], rxLimit'[s], read + StreamCredit)
<1>1. rxLimit[s] \in Nat /\ rxLimit \in [Streams -> Nat]
  BY DEF AccountsAgree, TypeOK
<1>2. rxLimit' = [rxLimit EXCEPT ![s] = rxLimit[s]]
  BY <1>1
<1>. QED BY <1>1, <1>2 DEF Grows

LEMMA GrantedLimit ==
  ASSUME AccountsAgree, NEW s \in Streams, NEW read \in Nat, NEW size \in Nat,
         rxLimit' = [rxLimit EXCEPT ![s] = Granted(s, read, size)]
  PROVE  /\ \E l \in Nat : rxLimit' = [rxLimit EXCEPT ![s] = l]
         /\ Grows(rxLimit[s], rxLimit'[s], read + StreamCredit)
<1>1. rxLimit[s] \in Nat /\ rxLimit \in [Streams -> Nat] /\ StreamCredit \in Nat
  BY StreamTypes DEF AccountsAgree, TypeOK
<1>2. /\ Granted(s, read, size) \in Nat
      /\ Grows(rxLimit[s], Granted(s, read, size), read + StreamCredit)
  BY <1>1 DEF Granted, Largest, Least, Grows
<1>3. rxLimit'[s] = Granted(s, read, size)
  BY <1>1
<1>. QED BY <1>2, <1>3

(* What the proofs below need of every step but the accounts.              *)
OtherMoves(s, read) ==
  /\ finals' \subseteq finals \cup Reports(s, read)
  /\ rxFIN' = rxFIN \/ (rxFIN' = [rxFIN EXCEPT ![s] = txNext[s]] /\ ending[s] # "no")
  /\ stopped' \in [Streams -> BOOLEAN] /\ closed' \in [Streams -> BOOLEAN]
  /\ data' \subseteq data /\ ends' \subseteq ends /\ stops' \subseteq stops \cup {s}
  /\ UNCHANGED sendVars

LEMMA AccountingStep ==
  ASSUME AccountsAgree, NEW s \in Streams, NEW high \in Nat, NEW read \in Nat,
         rxHigh[s] <= high, high <= txNext[s], rxRead[s] <= read, read <= high,
         Account(s, high, read),
         \E l \in Nat : rxLimit' = [rxLimit EXCEPT ![s] = l],
         Grows(rxLimit[s], rxLimit'[s], read + StreamCredit),
         \E a \in SUBSET (0..(high - 1)) : arrived' = [arrived EXCEPT ![s] = a],
         windows' \subseteq windows \cup {WindowOf(s, read, rxLimit'[s])},
         OtherMoves(s, read)
  PROVE  ReceiverMoves(s, high, read)
<1>1. /\ rxHigh' = [rxHigh EXCEPT ![s] = high] /\ rxRead' = [rxRead EXCEPT ![s] = read]
      /\ SessionMoves(high - rxHigh[s], read - rxRead[s])
  BY AccountMoves DEF AccountsAgree
<1>. QED BY <1>1 DEF ReceiverMoves, OtherMoves

LEMMA DiscardingStep ==
  ASSUME AccountsAgree, NEW s \in Streams, NEW high \in Nat,
         rxHigh[s] <= high, high <= txNext[s],
         Discard(s, high), UNCHANGED rxLimit,
         OtherMoves(s, high)
  PROVE  ReceiverMoves(s, high, high)
<1>1. /\ Account(s, high, high)
      /\ arrived' = [arrived EXCEPT ![s] = {}]
      /\ windows' = windows \cup {WindowOf(s, high, rxLimit[s])}
  BY DEF Discard
<1>2. rxRead[s] <= high /\ high <= high
  BY StreamTypes
<1>3. \E a \in SUBSET (0..(high - 1)) : arrived' = [arrived EXCEPT ![s] = a]
  BY <1>1
<1>4. windows' \subseteq windows \cup {WindowOf(s, high, rxLimit'[s])}
  BY <1>1
<1>. QED BY <1>1, <1>2, <1>3, <1>4, SameLimit, AccountingStep

-----------------------------------------------------------------------------
(* Every action of the receiver but IgnoreData and SweepSession is such a  *)
(* step.                                                                   *)

LEMMA RecvDataMoves ==
  ASSUME AccountsAgree, NEW d \in data, RecvData(d)
  PROVE  \E high, read \in Nat : ReceiverMoves(d.stream, high, read)
<1> DEFINE s == d.stream
           high == Largest(rxHigh[s], d.to)
<1>1. s \in Streams /\ d.to \in Nat /\ d.from \in Nat /\ d.to <= txNext[s]
  BY DEF AccountsAgree, TypeOK, FramesInOrder
<1>2. /\ high \in Nat /\ rxHigh[s] <= high /\ high <= txNext[s] /\ rxRead[s] <= high
      /\ d.to <= high
  BY <1>1, StreamTypes DEF Largest
<1>3. data' \subseteq data /\ UNCHANGED <<sendVars, rxLimit, rxFIN, stopped, closed, ends,
                                          stops, finals>>
  BY DEF RecvData
<1>4. \A read \in Nat : OtherMoves(s, read)
  BY <1>3 DEF OtherMoves, AccountsAgree, TypeOK
<1>5. CASE stopped[s]
  <2>1. Discard(s, high)
    BY <1>5 DEF RecvData
  <2> HIDE DEF high
  <2>2. ReceiverMoves(s, high, high)
    BY <1>1, <1>2, <1>3, <1>4, <2>1, DiscardingStep
  <2>. QED BY <1>2, <2>2
<1>6. CASE ~stopped[s]
  <2>1. /\ Account(s, high, rxRead[s]) /\ UNCHANGED windows
        /\ arrived' = [arrived EXCEPT ![s] = @ \cup (Largest(d.from, rxRead[s])..(d.to - 1))]
    BY <1>6 DEF RecvData
  <2>2. /\ rxRead[s] \in Nat /\ rxHigh[s] \in Nat /\ rxRead[s] <= rxRead[s]
        /\ arrived[s] \subseteq 0..(rxHigh[s] - 1)
    BY <1>1, StreamTypes
  <2>3. arrived[s] \cup (Largest(d.from, rxRead[s])..(d.to - 1)) \in SUBSET (0..(high - 1))
    BY <1>1, <1>2, <2>2 DEF Largest
  <2> HIDE DEF high
  <2>4. \E a \in SUBSET (0..(high - 1)) : arrived' = [arrived EXCEPT ![s] = a]
    BY <2>1, <2>3
  <2>5. windows' \subseteq windows \cup {WindowOf(s, rxRead[s], rxLimit'[s])}
    BY <2>1
  <2>6. ReceiverMoves(s, high, rxRead[s])
    BY <1>1, <1>2, <1>3, <1>4, <2>1, <2>2, <2>4, <2>5, SameLimit, AccountingStep
  <2>. QED BY <1>2, <2>2, <2>6
<1>. QED BY <1>5, <1>6

LEMMA RecvDataNoPageMoves ==
  ASSUME AccountsAgree, NEW d \in data, RecvDataNoPage(d)
  PROVE  \E high, read \in Nat : ReceiverMoves(d.stream, high, read)
<1> DEFINE s == d.stream
           high == Largest(rxHigh[s], d.to)
<1>1. s \in Streams /\ d.to \in Nat /\ d.to <= txNext[s]
  BY DEF AccountsAgree, TypeOK, FramesInOrder
<1>2. high \in Nat /\ rxHigh[s] <= high /\ high <= txNext[s]
  BY <1>1, StreamTypes DEF Largest
<1>3. /\ Discard(s, high) /\ data' \subseteq data /\ stops' \subseteq stops \cup {s}
      /\ UNCHANGED <<sendVars, rxLimit, rxFIN, ends, finals>>
  BY DEF RecvDataNoPage, Stops
<1>4. stopped' \in [Streams -> BOOLEAN] /\ closed' \in [Streams -> BOOLEAN]
  BY DEF RecvDataNoPage, AccountsAgree, TypeOK
<1> HIDE DEF high
<1>5. OtherMoves(s, high)
  BY <1>3, <1>4 DEF OtherMoves
<1>6. ReceiverMoves(s, high, high)
  BY <1>1, <1>2, <1>3, <1>5, DiscardingStep
<1>. QED BY <1>2, <1>6

LEMMA ReadMoves ==
  ASSUME AccountsAgree, NEW s \in Streams, NEW n \in 1..MaxPayload, Read(s, n)
  PROVE  \E high, read \in Nat : ReceiverMoves(s, high, read)
<1> DEFINE read == rxRead[s] + n
<1>1. /\ rxRead[s] \in Nat /\ rxHigh[s] \in Nat /\ txNext[s] \in Nat /\ rxLimit[s] \in Nat
      /\ rxHigh[s] <= txNext[s] /\ arrived[s] \subseteq 0..(rxHigh[s] - 1)
      /\ StreamCredit \in Nat
  BY StreamTypes
<1>2. n \in Nat /\ n > 0
  BY CreditAssumption
<1>3. read - 1 \in rxRead[s]..(read - 1)
  BY <1>1, <1>2
<1>4. read - 1 \in 0..(rxHigh[s] - 1)
  BY <1>1, <1>3 DEF Read
<1>5. /\ read \in Nat /\ rxRead[s] <= read /\ read <= rxHigh[s] /\ rxHigh[s] <= rxHigh[s]
  BY <1>1, <1>2, <1>4
<1>6. /\ Account(s, rxHigh[s], read)
      /\ arrived' = [arrived EXCEPT ![s] = @ \ (rxRead[s]..(read - 1))]
      /\ finals' = finals \cup FinalOf(s, read)
      /\ \/ /\ rxLimit' = [rxLimit EXCEPT ![s] = Granted(s, read, StreamCredit)]
            /\ windows' = windows \cup {WindowOf(s, read, rxLimit'[s])}
         \/ UNCHANGED <<rxLimit, windows>>
      /\ UNCHANGED <<sendVars, rxFIN, stopped, closed, data, ends, stops>>
  BY DEF Read
<1> HIDE DEF read
<1>7. FinalOf(s, read) \subseteq Reports(s, read)
  BY <1>5, StreamTypes DEF FinalOf, Reports, Report, StreamInOrder
<1>8. OtherMoves(s, read)
  BY <1>6, <1>7 DEF OtherMoves, AccountsAgree, TypeOK
<1>9. /\ \E l \in Nat : rxLimit' = [rxLimit EXCEPT ![s] = l]
      /\ Grows(rxLimit[s], rxLimit'[s], read + StreamCredit)
  BY <1>1, <1>5, <1>6, GrantedLimit, SameLimit
<1>10. windows' \subseteq windows \cup {WindowOf(s, read, rxLimit'[s])}
  BY <1>6
<1>11. \E a \in SUBSET (0..(rxHigh[s] - 1)) : arrived' = [arrived EXCEPT ![s] = a]
  <2>1. arrived[s] \ (rxRead[s]..(read - 1)) \in SUBSET (0..(rxHigh[s] - 1))
    BY <1>1
  <2>. QED BY <1>6, <2>1
<1>12. ReceiverMoves(s, rxHigh[s], read)
  BY <1>1, <1>5, <1>6, <1>8, <1>9, <1>10, <1>11, AccountingStep
<1>. QED BY <1>1, <1>5, <1>12

(* A step that grants and reports at the offset that is consumed: the two  *)
(* windows of an open Stream, and of one that is closed.                   *)
LEMMA GrantingStep ==
  ASSUME AccountsAgree, NEW s \in Streams,
         \E l \in Nat : rxLimit' = [rxLimit EXCEPT ![s] = l],
         Grows(rxLimit[s], rxLimit'[s], rxRead[s] + StreamCredit),
         windows' = windows \cup {WindowOf(s, rxRead[s], rxLimit'[s])},
         UNCHANGED <<sendVars, rxHigh, rxRead, arrived, rxFIN, stopped, closed, rx,
                     data, ends, stops, sessionWindows, finals>>
  PROVE  ReceiverMoves(s, rxHigh[s], rxRead[s])
<1>1. /\ rxRead[s] \in Nat /\ rxHigh[s] \in Nat /\ txNext[s] \in Nat
      /\ rxHigh[s] <= txNext[s] /\ rxRead[s] <= rxHigh[s]
      /\ arrived[s] \in SUBSET (0..(rxHigh[s] - 1))
      /\ rx \in [committed : Nat, consumed : Nat, limit : Nat]
      /\ rxHigh \in [Streams -> Nat] /\ rxRead \in [Streams -> Nat]
      /\ arrived \in [Streams -> SUBSET Nat]
  BY StreamTypes DEF AccountsAgree, TypeOK
<1>2. Account(s, rxHigh[s], rxRead[s])
  BY <1>1 DEF Account
<1>3. arrived' = [arrived EXCEPT ![s] = arrived[s]]
  BY <1>1
<1>4. OtherMoves(s, rxRead[s])
  BY DEF OtherMoves, AccountsAgree, TypeOK
<1>5. rxHigh[s] <= rxHigh[s] /\ rxRead[s] <= rxRead[s]
  BY <1>1
<1>6. windows' \subseteq windows \cup {WindowOf(s, rxRead[s], rxLimit'[s])}
  OBVIOUS
<1>7. \E a \in SUBSET (0..(rxHigh[s] - 1)) : arrived' = [arrived EXCEPT ![s] = a]
  BY <1>1, <1>3
<1>. QED BY <1>1, <1>2, <1>4, <1>5, <1>6, <1>7, AccountingStep

LEMMA AdvertiseStep ==
  ASSUME AccountsAgree, NEW s \in Streams, Advertise(s) \/ OpenWindow(s)
  PROVE  \E high, read \in Nat : ReceiverMoves(s, high, read)
<1>1. /\ rxRead[s] \in Nat /\ rxHigh[s] \in Nat /\ rxLimit \in [Streams -> Nat]
      /\ StreamCredit \in Nat /\ Bootstrap \in Nat
  BY StreamTypes DEF AccountsAgree, TypeOK
<1>2. /\ windows' = windows \cup {WindowOf(s, rxRead[s], rxLimit'[s])}
      /\ UNCHANGED <<sendVars, rxHigh, rxRead, arrived, rxFIN, stopped, closed, rx,
                     data, ends, stops, sessionWindows, finals>>
  BY DEF Advertise, OpenWindow
<1>3. \/ UNCHANGED rxLimit
      \/ \E size \in Nat : rxLimit' = [rxLimit EXCEPT ![s] = Granted(s, rxRead[s], size)]
  BY <1>1 DEF Advertise, OpenWindow
<1>4. /\ \E l \in Nat : rxLimit' = [rxLimit EXCEPT ![s] = l]
      /\ Grows(rxLimit[s], rxLimit'[s], rxRead[s] + StreamCredit)
  BY <1>1, <1>3, GrantedLimit, SameLimit
<1>5. ReceiverMoves(s, rxHigh[s], rxRead[s])
  BY <1>2, <1>4, GrantingStep
<1>. QED BY <1>1, <1>5

LEMMA EndReadingMoves ==
  ASSUME AccountsAgree, NEW s \in Streams,
         StopRead(s) \/ Close(s, FALSE) \/ Close(s, TRUE)
  PROVE  \E high, read \in Nat : ReceiverMoves(s, high, read)
<1>1. rxHigh[s] \in Nat /\ txNext[s] \in Nat /\ rxHigh[s] <= txNext[s] /\ rxHigh[s] <= rxHigh[s]
  BY StreamTypes
<1>2. /\ Discard(s, rxHigh[s]) /\ stops' \subseteq stops \cup {s}
      /\ UNCHANGED <<sendVars, rxLimit, rxFIN, data, ends, finals>>
  BY DEF StopRead, Close, Stops
<1>3. stopped' \in [Streams -> BOOLEAN] /\ closed' \in [Streams -> BOOLEAN]
  BY DEF StopRead, Close, AccountsAgree, TypeOK
<1>4. OtherMoves(s, rxHigh[s])
  BY <1>2, <1>3 DEF OtherMoves
<1>5. ReceiverMoves(s, rxHigh[s], rxHigh[s])
  BY <1>1, <1>2, <1>4, DiscardingStep
<1>. QED BY <1>1, <1>5

(* What is known of the end of a Stream that has not been handled yet.     *)
LEMMA EndTypes ==
  ASSUME AccountsAgree, NEW e \in ends
  PROVE  /\ e.stream \in Streams /\ e.size \in Nat /\ e.reset \in BOOLEAN
         /\ e.size = txNext[e.stream] /\ ending[e.stream] # "no"
         /\ e.reset => ending[e.stream] = "reset"
BY DEF AccountsAgree, TypeOK, FramesInOrder

LEMMA RecvFINMoves ==
  ASSUME AccountsAgree, NEW e \in ends, RecvFIN(e)
  PROVE  \E high, read \in Nat : ReceiverMoves(e.stream, high, read)
<1> DEFINE s == e.stream
<1>1. /\ s \in Streams /\ e.size \in Nat /\ e.size = txNext[s] /\ ending[s] # "no"
      /\ rxHigh[s] \in Nat /\ rxHigh[s] <= e.size /\ e.size <= txNext[s]
      /\ rxRead[s] \in Nat /\ rxRead[s] <= rxHigh[s] /\ rxRead[s] <= e.size
      /\ rxRead[s] <= rxRead[s]
      /\ arrived[s] \in SUBSET (0..(rxHigh[s] - 1))
      /\ arrived \in [Streams -> SUBSET Nat]
  BY EndTypes, StreamTypes DEF AccountsAgree, TypeOK
<1>2. /\ ends' \subseteq ends /\ rxFIN' = [rxFIN EXCEPT ![s] = txNext[s]]
      /\ UNCHANGED <<sendVars, rxLimit, stopped, closed, data, stops>>
  BY <1>1 DEF RecvFIN
<1>3. stopped' \in [Streams -> BOOLEAN] /\ closed' \in [Streams -> BOOLEAN]
  BY <1>2 DEF AccountsAgree, TypeOK
<1>4. CASE stopped[s] \/ closed[s]
  <2>1. Discard(s, e.size) /\ UNCHANGED finals
    BY <1>4 DEF RecvFIN
  <2>2. OtherMoves(s, e.size)
    BY <1>1, <1>2, <1>3, <2>1 DEF OtherMoves
  <2>3. ReceiverMoves(s, e.size, e.size)
    BY <1>1, <1>2, <2>1, <2>2, DiscardingStep
  <2>. QED BY <1>1, <2>3
<1>5. CASE ~(stopped[s] \/ closed[s])
  <2>1. /\ Account(s, e.size, rxRead[s]) /\ UNCHANGED arrived
        /\ IF rxRead[s] = e.size
           THEN /\ windows' = windows \cup {WindowOf(s, e.size, rxLimit[s])}
                /\ finals' = finals \cup {[stream |-> s, size |-> e.size, reset |-> FALSE]}
           ELSE UNCHANGED <<windows, finals>>
    BY <1>5 DEF RecvFIN
  <2>2. windows' \subseteq windows \cup {WindowOf(s, rxRead[s], rxLimit'[s])}
    BY <1>2, <2>1
  <2>3. finals' \subseteq finals \cup Reports(s, rxRead[s])
    BY <1>1, <2>1 DEF Reports, Report
  <2>4. OtherMoves(s, rxRead[s])
    BY <1>1, <1>2, <1>3, <2>3 DEF OtherMoves
  <2>5. \E a \in SUBSET (0..(e.size - 1)) : arrived' = [arrived EXCEPT ![s] = a]
    <3>1. arrived[s] \in SUBSET (0..(e.size - 1))
      BY <1>1
    <3>2. arrived' = [arrived EXCEPT ![s] = arrived[s]]
      BY <1>1, <2>1
    <3>. QED BY <3>1, <3>2
  <2>6. ReceiverMoves(s, e.size, rxRead[s])
    BY <1>1, <1>2, <2>1, <2>2, <2>4, <2>5, SameLimit, AccountingStep
  <2>. QED BY <1>1, <2>6
<1>. QED BY <1>4, <1>5

LEMMA RecvResetMoves ==
  ASSUME AccountsAgree, NEW e \in ends, RecvReset(e)
  PROVE  \E high, read \in Nat : ReceiverMoves(e.stream, high, read)
<1> DEFINE s == e.stream
<1>1. /\ s \in Streams /\ e.size \in Nat /\ e.size = txNext[s] /\ ending[s] = "reset"
      /\ rxHigh[s] \in Nat /\ rxHigh[s] <= e.size /\ e.size <= txNext[s]
  BY EndTypes, StreamTypes DEF RecvReset
<1>2. /\ Discard(s, e.size)
      /\ ends' \subseteq ends /\ rxFIN' = [rxFIN EXCEPT ![s] = txNext[s]]
      /\ finals' = finals \cup {[stream |-> s, size |-> e.size, reset |-> TRUE]}
      /\ UNCHANGED <<sendVars, rxLimit, closed, data, stops>>
  BY <1>1 DEF RecvReset
<1>3. stopped' \in [Streams -> BOOLEAN] /\ closed' \in [Streams -> BOOLEAN]
  BY DEF RecvReset, AccountsAgree, TypeOK
<1>4. finals' \subseteq finals \cup Reports(s, e.size)
  BY <1>1, <1>2 DEF Reports, Report
<1>5. OtherMoves(s, e.size)
  BY <1>1, <1>2, <1>3, <1>4 DEF OtherMoves
<1>6. ReceiverMoves(s, e.size, e.size)
  BY <1>1, <1>2, <1>5, DiscardingStep
<1>. QED BY <1>1, <1>6

-----------------------------------------------------------------------------
(* Such a step keeps the invariant.                                        *)

LEMMA SessionKept ==
  ASSUME AccountsAgree, NEW c \in Nat, NEW n \in Nat, SessionMoves(c, n),
         rx.consumed + n <= tx.committed, UNCHANGED tx
  PROVE  /\ rx' \in [committed : Nat, consumed : Nat, limit : Nat]
         /\ rx'.committed = rx.committed + c /\ rx'.consumed = rx.consumed + n
         /\ sessionWindows' \subseteq [consumed : Nat, limit : Nat]
         /\ SessionInOrder' /\ SessionWindowsInOrder'
<1>1. /\ rx.committed \in Nat /\ rx.consumed \in Nat /\ rx.limit \in Nat
      /\ tx.committed \in Nat /\ tx.peerConsumed \in Nat /\ tx.peerLimit \in Nat
      /\ SessionCredit \in Nat
      /\ sessionWindows \subseteq [consumed : Nat, limit : Nat]
  BY CreditAssumption DEF AccountsAgree, TypeOK
<1>2. PICK l \in Nat : rx' = [committed |-> rx.committed + c, consumed |-> rx.consumed + n,
                              limit |-> l]
  BY DEF SessionMoves
<1>3. /\ rx'.committed = rx.committed + c /\ rx'.consumed = rx.consumed + n /\ rx'.limit = l
      /\ rx' \in [committed : Nat, consumed : Nat, limit : Nat]
  BY <1>1, <1>2
<1>4. rx.limit <= l /\ (l = rx.limit \/ l <= rx.consumed + n + SessionCredit)
  BY <1>1, <1>3 DEF SessionMoves, Grows
<1>5. /\ tx.peerConsumed <= rx.consumed
      /\ tx.committed <= tx.peerLimit /\ tx.peerLimit <= rx.limit
      /\ rx.limit <= rx.consumed + SessionCredit
  BY DEF AccountsAgree, SessionInOrder
<1>6. SessionInOrder'
  BY <1>1, <1>3, <1>4, <1>5 DEF SessionInOrder
<1> DEFINE new == [consumed |-> rx.consumed + n, limit |-> l]
<1>7. sessionWindows' \subseteq sessionWindows \cup {new}
  BY <1>3 DEF SessionMoves
<1>8. new \in [consumed : Nat, limit : Nat]
  BY <1>1
<1>9. new.consumed = rx.consumed + n /\ new.limit = l
  OBVIOUS
<1> HIDE DEF new
<1>10. sessionWindows' \subseteq [consumed : Nat, limit : Nat]
  BY <1>1, <1>7, <1>8
<1>11. \A w \in sessionWindows :
         /\ w.consumed \in Nat /\ w.limit \in Nat
         /\ w.consumed <= rx.consumed /\ w.limit <= rx.limit
         /\ w.consumed <= w.limit /\ w.limit <= w.consumed + SessionCredit
         /\ SessionNewer(w) \/ SessionStale(w)
         /\ \A v \in sessionWindows : Comparable(w, v)
  BY <1>1 DEF AccountsAgree, SessionWindowsInOrder
<1>12. /\ new.consumed <= new.limit /\ new.limit <= new.consumed + SessionCredit
       /\ SessionNewer(new)
  BY <1>1, <1>4, <1>5, <1>9 DEF SessionNewer
<1>13. \A w \in sessionWindows : Comparable(w, new) /\ Comparable(new, w)
  BY <1>1, <1>4, <1>9, <1>11 DEF Comparable
<1>14. Comparable(new, new)
  BY <1>1, <1>9 DEF Comparable
<1>15. ASSUME NEW w \in sessionWindows'
       PROVE  /\ w.consumed <= rx'.consumed /\ w.limit <= rx'.limit
              /\ w.consumed <= w.limit /\ w.limit <= w.consumed + SessionCredit
              /\ SessionNewer(w) \/ SessionStale(w)
              /\ \A v \in sessionWindows' : Comparable(w, v)
  <2>1. CASE w \in sessionWindows
    <3>1. w.consumed <= rx'.consumed /\ w.limit <= rx'.limit
      BY <1>1, <1>3, <1>4, <1>11, <2>1
    <3>2. \A v \in sessionWindows' : Comparable(w, v)
      BY <1>7, <1>11, <1>13, <2>1
    <3>. QED BY <1>11, <2>1, <3>1, <3>2
  <2>2. CASE w = new
    <3>1. w.consumed <= rx'.consumed /\ w.limit <= rx'.limit
      BY <1>1, <1>3, <1>9, <2>2
    <3>2. \A v \in sessionWindows' : Comparable(w, v)
      BY <1>7, <1>13, <1>14, <2>2
    <3>. QED BY <1>12, <2>2, <3>1, <3>2
  <2>. QED BY <1>7, <2>1, <2>2
<1>16. SessionWindowsInOrder'
  BY <1>15 DEF SessionWindowsInOrder, SessionNewer, SessionStale, Comparable
<1>. QED BY <1>3, <1>6, <1>10, <1>16

LEMMA WindowsKept ==
  ASSUME AccountsAgree, NEW s \in Streams, NEW high \in Nat, NEW read \in Nat,
         ReceiverMoves(s, high, read)
  PROVE  /\ windows' \subseteq [stream : Streams, consumed : Nat, limit : Nat]
         /\ WindowsInOrder'
<1>1. /\ rxRead[s] \in Nat /\ rxHigh[s] \in Nat /\ rxLimit[s] \in Nat /\ txNext[s] \in Nat
      /\ creditConsumed[s] \in Nat /\ peerLimit[s] \in Nat /\ StreamCredit \in Nat
      /\ rxRead \in [Streams -> Nat] /\ rxLimit \in [Streams -> Nat]
      /\ creditConsumed \in [Streams -> Nat] /\ peerLimit \in [Streams -> Nat]
      /\ windows \subseteq [stream : Streams, consumed : Nat, limit : Nat]
  BY CreditAssumption DEF AccountsAgree, TypeOK
<1>2. /\ creditConsumed[s] <= rxRead[s] /\ txNext[s] <= peerLimit[s] /\ peerLimit[s] <= rxLimit[s]
      /\ rxLimit[s] <= rxRead[s] + StreamCredit
  BY DEF AccountsAgree, StreamInOrder
<1>3. /\ rxRead[s] <= read /\ read <= high /\ high <= txNext[s]
      /\ rxRead' = [rxRead EXCEPT ![s] = read]
      /\ Grows(rxLimit[s], rxLimit'[s], read + StreamCredit)
      /\ windows' \subseteq windows \cup {WindowOf(s, read, rxLimit'[s])}
      /\ UNCHANGED sendVars
  BY DEF ReceiverMoves
<1>4. PICK l \in Nat : rxLimit' = [rxLimit EXCEPT ![s] = l]
  BY DEF ReceiverMoves
<1>5. rxLimit'[s] = l /\ rxRead'[s] = read
  BY <1>1, <1>3, <1>4
<1>6. rxLimit[s] <= l /\ l <= read + StreamCredit /\ read <= l
  BY <1>1, <1>2, <1>3, <1>5 DEF Grows
<1> DEFINE new == WindowOf(s, read, l)
<1>7. windows' \subseteq windows \cup {new}
  BY <1>3, <1>5
<1>8. /\ new \in [stream : Streams, consumed : Nat, limit : Nat]
      /\ new.stream = s /\ new.consumed = read /\ new.limit = l
  BY DEF WindowOf
<1> HIDE DEF new
<1>9. windows' \subseteq [stream : Streams, consumed : Nat, limit : Nat]
  BY <1>1, <1>7, <1>8
<1>10. \A w \in windows :
         /\ w.stream \in Streams /\ w.consumed \in Nat /\ w.limit \in Nat
         /\ w.consumed <= rxRead[w.stream] /\ w.limit <= rxLimit[w.stream]
         /\ w.consumed <= w.limit /\ w.limit <= w.consumed + StreamCredit
         /\ Newer(w) \/ Stale(w)
         /\ \A v \in windows : v.stream = w.stream => Comparable(w, v)
  BY <1>1 DEF AccountsAgree, WindowsInOrder
<1>11. /\ new.consumed <= new.limit /\ new.limit <= new.consumed + StreamCredit
       /\ Newer(new)
  BY <1>1, <1>2, <1>3, <1>6, <1>8 DEF Newer
<1>12. \A w \in windows : w.stream = s => Comparable(w, new) /\ Comparable(new, w)
  BY <1>1, <1>3, <1>6, <1>8, <1>10 DEF Comparable
<1>13. Comparable(new, new)
  BY <1>8 DEF Comparable
<1>14. ASSUME NEW t \in Streams PROVE rxRead[t] <= rxRead'[t] /\ rxLimit[t] <= rxLimit'[t]
  BY <1>1, <1>3, <1>4, <1>6
<1>15. \A t \in Streams : /\ rxRead[t] \in Nat /\ rxRead'[t] \in Nat
                          /\ rxLimit[t] \in Nat /\ rxLimit'[t] \in Nat
  BY <1>1, <1>3, <1>4
<1>16. ASSUME NEW w \in windows'
       PROVE  /\ w.consumed <= rxRead'[w.stream] /\ w.limit <= rxLimit'[w.stream]
              /\ w.consumed <= w.limit /\ w.limit <= w.consumed + StreamCredit
              /\ Newer(w) \/ Stale(w)
              /\ \A v \in windows' : v.stream = w.stream => Comparable(w, v)
  <2>1. CASE w \in windows
    <3>1. w.consumed <= rxRead'[w.stream] /\ w.limit <= rxLimit'[w.stream]
      BY <1>10, <1>14, <1>15, <2>1
    <3>2. \A v \in windows' : v.stream = w.stream => Comparable(w, v)
      BY <1>7, <1>8, <1>10, <1>12, <2>1
    <3>. QED BY <1>10, <2>1, <3>1, <3>2
  <2>2. CASE w = new
    <3>1. w.consumed <= rxRead'[w.stream] /\ w.limit <= rxLimit'[w.stream]
      BY <1>5, <1>8, <2>2
    <3>2. \A v \in windows' : v.stream = w.stream => Comparable(w, v)
      BY <1>7, <1>8, <1>12, <1>13, <2>2
    <3>. QED BY <1>11, <2>2, <3>1, <3>2
  <2>. QED BY <1>7, <2>1, <2>2
<1>17. UNCHANGED <<creditConsumed, peerLimit>>
  BY <1>3 DEF sendVars
<1>18. WindowsInOrder'
  BY <1>16, <1>17 DEF WindowsInOrder, Newer, Stale, Comparable
<1>. QED BY <1>9, <1>18

LEMMA ReceiverKeeps ==
  ASSUME AccountsAgree, NEW s \in Streams, NEW high \in Nat, NEW read \in Nat,
         ReceiverMoves(s, high, read)
  PROVE  AccountsAgree'
<1>1. /\ rxHigh[s] <= high /\ high <= txNext[s] /\ rxRead[s] <= read /\ read <= high
      /\ rxHigh' = [rxHigh EXCEPT ![s] = high] /\ rxRead' = [rxRead EXCEPT ![s] = read]
      /\ SessionMoves(high - rxHigh[s], read - rxRead[s])
      /\ data' \subseteq data /\ ends' \subseteq ends /\ stops' \subseteq stops \cup {s}
      /\ finals' \subseteq finals \cup Reports(s, read)
      /\ stopped' \in [Streams -> BOOLEAN] /\ closed' \in [Streams -> BOOLEAN]
      /\ UNCHANGED <<txNext, peerConsumed, creditConsumed, peerLimit, ending, tx>>
  BY DEF ReceiverMoves, sendVars
<1>2. PICK l \in Nat : rxLimit' = [rxLimit EXCEPT ![s] = l]
  BY DEF ReceiverMoves
<1>3. PICK a \in SUBSET (0..(high - 1)) : arrived' = [arrived EXCEPT ![s] = a]
  BY DEF ReceiverMoves
<1>4. rxFIN' = rxFIN \/ (rxFIN' = [rxFIN EXCEPT ![s] = txNext[s]] /\ ending[s] # "no")
  BY DEF ReceiverMoves
<1>5. TypeOK /\ LedgersAgree /\ FramesInOrder /\ \A t \in Streams : StreamInOrder(t)
  BY DEF AccountsAgree
<1>6. /\ txNext[s] \in Nat /\ rxHigh[s] \in Nat /\ rxRead[s] \in Nat /\ rxLimit[s] \in Nat
      /\ peerConsumed[s] \in Nat /\ creditConsumed[s] \in Nat /\ peerLimit[s] \in Nat
      /\ StreamCredit \in Nat /\ MaxBytes \in Nat
      /\ rxHigh \in [Streams -> Nat] /\ rxRead \in [Streams -> Nat]
      /\ rxLimit \in [Streams -> Nat] /\ arrived \in [Streams -> SUBSET Nat]
      /\ txNext \in [Streams -> Nat] /\ ending \in [Streams -> {"no", "fin", "reset"}]
      /\ rxFIN \in [Streams -> Nat \cup {NotFinal}]
      /\ rx.committed \in Nat /\ rx.consumed \in Nat /\ tx.committed \in Nat
  BY <1>5, CreditAssumption DEF TypeOK
<1>7. rxHigh \in Offsets /\ rxRead \in Offsets /\ txNext \in Offsets /\ peerConsumed \in Offsets
  BY OffsetTypes
<1>8. high \in 0..MaxBytes /\ read \in 0..MaxBytes
  BY <1>1, <1>5, <1>6 DEF StreamInOrder
<1>9. /\ rxHigh' \in Offsets /\ rxRead' \in Offsets
      /\ Cardinality(BytesBelow(rxHigh')) = rx.committed + (high - rxHigh[s])
      /\ Cardinality(BytesBelow(rxRead')) = rx.consumed + (read - rxRead[s])
  <2>1. /\ [rxHigh EXCEPT ![s] = high] \in Offsets
        /\ Cardinality(BytesBelow([rxHigh EXCEPT ![s] = high]))
             = Cardinality(BytesBelow(rxHigh)) + high - rxHigh[s]
    BY <1>1, <1>7, <1>8, BytesAdded
  <2>2. /\ [rxRead EXCEPT ![s] = read] \in Offsets
        /\ Cardinality(BytesBelow([rxRead EXCEPT ![s] = read]))
             = Cardinality(BytesBelow(rxRead)) + read - rxRead[s]
    BY <1>1, <1>7, <1>8, BytesAdded
  <2>3. /\ Cardinality(BytesBelow(rxHigh')) = rx.committed + high - rxHigh[s]
        /\ Cardinality(BytesBelow(rxRead')) = rx.consumed + read - rxRead[s]
    BY <1>1, <1>5, <2>1, <2>2 DEF LedgersAgree
  <2>. QED BY <1>1, <1>6, <2>1, <2>2, <2>3
<1>10. \A t \in Streams : rxRead'[t] <= txNext[t]
  <2> TAKE t \in Streams
  <2>1. rxRead[t] <= rxHigh[t] /\ rxHigh[t] <= txNext[t]
    BY OffsetTypes
  <2>2. rxRead[t] \in Nat /\ rxHigh[t] \in Nat /\ txNext[t] \in Nat
    BY <1>6
  <2>. QED BY <1>1, <1>6, <2>1, <2>2
<1>11. rx.consumed + (read - rxRead[s]) <= tx.committed
  <2>1. Cardinality(BytesBelow(rxRead')) <= Cardinality(BytesBelow(txNext))
    BY <1>7, <1>9, <1>10, BytesMonotone
  <2>. QED BY <1>5, <1>9, <2>1 DEF LedgersAgree
<1>12. high - rxHigh[s] \in Nat /\ read - rxRead[s] \in Nat
  BY <1>1, <1>6
<1>13. /\ rx' \in [committed : Nat, consumed : Nat, limit : Nat]
       /\ rx'.committed = rx.committed + (high - rxHigh[s])
       /\ rx'.consumed = rx.consumed + (read - rxRead[s])
       /\ sessionWindows' \subseteq [consumed : Nat, limit : Nat]
       /\ SessionInOrder' /\ SessionWindowsInOrder'
  BY <1>1, <1>11, <1>12, SessionKept
<1>14. windows' \subseteq [stream : Streams, consumed : Nat, limit : Nat] /\ WindowsInOrder'
  BY WindowsKept
<1>15. Reports(s, read) \subseteq [stream : Streams, size : Nat, reset : BOOLEAN]
  <2>1. \A reset \in BOOLEAN : Report(s, reset) \in [stream : Streams, size : Nat, reset : BOOLEAN]
    BY <1>6 DEF Report
  <2>. QED BY <2>1 DEF Reports
<1>16. rxFIN' \in [Streams -> Nat \cup {NotFinal}]
  BY <1>4, <1>6
<1>17. TypeOK'
  <2>1. /\ rxHigh' \in [Streams -> Nat] /\ rxRead' \in [Streams -> Nat]
        /\ rxLimit' \in [Streams -> Nat] /\ arrived' \in [Streams -> SUBSET Nat]
    <3>1. a \in SUBSET Nat
      OBVIOUS
    <3>. QED BY <1>1, <1>2, <1>3, <1>6, <3>1
  <2>2. /\ data' \subseteq [stream : Streams, from : Nat, to : Nat]
        /\ ends' \subseteq [stream : Streams, size : Nat, reset : BOOLEAN]
        /\ stops' \subseteq Streams
        /\ finals' \subseteq [stream : Streams, size : Nat, reset : BOOLEAN]
    BY <1>1, <1>5, <1>15 DEF TypeOK
  <2>3. /\ txNext' \in [Streams -> Nat] /\ peerConsumed' \in [Streams -> Nat]
        /\ creditConsumed' \in [Streams -> Nat] /\ peerLimit' \in [Streams -> Nat]
        /\ ending' \in [Streams -> {"no", "fin", "reset"}]
        /\ tx' \in [committed : Nat, used : Nat, peerConsumed : Nat, peerLimit : Nat]
    BY <1>1, <1>5 DEF TypeOK
  <2>. QED BY <1>1, <1>13, <1>14, <1>16, <2>1, <2>2, <2>3 DEF TypeOK
<1>18. LedgersAgree'
  <2>1. /\ tx'.committed = Cardinality(BytesBelow(txNext'))
        /\ tx'.used = tx'.committed - Cardinality(BytesBelow(peerConsumed'))
    BY <1>1, <1>5 DEF LedgersAgree
  <2>. QED BY <1>9, <1>13, <2>1 DEF LedgersAgree, BytesBelow
<1>19. ASSUME NEW t \in Streams PROVE StreamInOrder(t)'
  <2>1. CASE t # s
    <3>1. /\ rxHigh'[t] = rxHigh[t] /\ rxRead'[t] = rxRead[t] /\ rxLimit'[t] = rxLimit[t]
          /\ arrived'[t] = arrived[t] /\ rxFIN'[t] = rxFIN[t]
      BY <1>1, <1>2, <1>3, <1>4, <1>6, <2>1
    <3>. QED BY <1>1, <1>5, <3>1 DEF StreamInOrder
  <2>2. CASE t = s
    <3>1. rxHigh'[s] = high /\ rxRead'[s] = read /\ rxLimit'[s] = l /\ arrived'[s] = a
      BY <1>1, <1>2, <1>3, <1>6
    <3>2. /\ peerConsumed[s] <= rxRead[s] /\ creditConsumed[s] <= rxRead[s]
          /\ txNext[s] <= MaxBytes /\ txNext[s] <= peerLimit[s] /\ peerLimit[s] <= rxLimit[s]
          /\ rxLimit[s] <= rxRead[s] + StreamCredit
          /\ rxFIN[s] # NotFinal => rxFIN[s] = txNext[s] /\ ending[s] # "no"
      BY <1>5 DEF StreamInOrder
    <3>3. rxLimit[s] <= l /\ l <= read + StreamCredit
      BY <1>1, <1>6, <3>1, <3>2 DEF ReceiverMoves, Grows
    <3>4. rxFIN'[s] # NotFinal => rxFIN'[s] = txNext[s] /\ ending[s] # "no"
      BY <1>4, <1>6, <3>2
    <3>5. /\ peerConsumed[s] <= read /\ creditConsumed[s] <= read /\ peerLimit[s] <= l
      BY <1>1, <1>6, <3>2, <3>3
    <3>. QED BY <1>1, <2>2, <3>1, <3>2, <3>3, <3>4, <3>5 DEF StreamInOrder
  <2>. QED BY <2>1, <2>2
<1>20. FramesInOrder'
  <2>1. \A f \in Reports(s, read) :
          /\ f.stream = s /\ f.size = txNext[s] /\ ending[s] # "no" /\ f.size = read
          /\ f.reset => ending[s] = "reset"
    BY DEF Reports, Report
  <2>2. ASSUME NEW d \in data' PROVE d.to <= txNext'[d.stream]
    BY <1>1, <1>5 DEF FramesInOrder
  <2>3. ASSUME NEW e \in ends' \cup finals'
        PROVE  /\ e.size = txNext'[e.stream] /\ ending'[e.stream] # "no"
               /\ e.reset => ending'[e.stream] = "reset"
    BY <1>1, <1>5, <2>1 DEF FramesInOrder
  <2>4. ASSUME NEW f \in finals' PROVE f.size = rxRead'[f.stream]
    <3>1. CASE f \in finals
      <4>1. f.stream \in Streams /\ f.size = rxRead[f.stream] /\ f.size = txNext[f.stream]
        BY <1>5, <3>1 DEF FramesInOrder, TypeOK
      <4>2. rxRead'[f.stream] = IF f.stream = s THEN read ELSE rxRead[f.stream]
        BY <1>1, <1>6, <4>1
      <4>3. ASSUME f.stream = s PROVE f.size = read
        <5>1. f.size = rxRead[s] /\ f.size = txNext[s]
          BY <4>1, <4>3
        <5>. QED BY <1>1, <1>6, <5>1
      <4>. QED BY <4>1, <4>2, <4>3
    <3>2. CASE f \in Reports(s, read)
      BY <1>1, <1>6, <2>1, <3>2
    <3>. QED BY <1>1, <3>1, <3>2
  <2>. QED BY <2>2, <2>3, <2>4 DEF FramesInOrder
<1>. QED BY <1>13, <1>14, <1>17, <1>18, <1>19, <1>20 DEF AccountsAgree

(* Duplicates, and DATA of a Stream that is closed.                        *)
LEMMA IgnoreKeeps ==
  ASSUME AccountsAgree, NEW d \in data, IgnoreData(d)
  PROVE  AccountsAgree'
<1>1. /\ data' \subseteq data
      /\ UNCHANGED <<txNext, peerConsumed, creditConsumed, peerLimit, ending, tx,
                     rxHigh, rxRead, arrived, rxLimit, rxFIN, stopped, closed, rx,
                     ends, stops, windows, sessionWindows, finals>>
  BY DEF IgnoreData, sendVars, recvVars
<1>2. TypeOK'
  BY <1>1 DEF AccountsAgree, TypeOK
<1>3. LedgersAgree' /\ SessionInOrder' /\ \A s \in Streams : StreamInOrder(s)'
  BY <1>1 DEF AccountsAgree, LedgersAgree, BytesBelow, SessionInOrder, StreamInOrder
<1>4. FramesInOrder'
  BY <1>1 DEF AccountsAgree, FramesInOrder
<1>5. WindowsInOrder' /\ SessionWindowsInOrder'
  BY <1>1 DEF AccountsAgree, WindowsInOrder, Newer, Stale,
              SessionWindowsInOrder, SessionNewer, SessionStale
<1>. QED BY <1>2, <1>3, <1>4, <1>5 DEF AccountsAgree

LEMMA SweepKeeps ==
  ASSUME AccountsAgree, SweepSession
  PROVE  AccountsAgree'
<1>1. /\ rx.committed \in Nat /\ rx.consumed \in Nat /\ tx.committed \in Nat
  BY DEF AccountsAgree, TypeOK
<1>2. /\ UNCHANGED <<txNext, peerConsumed, creditConsumed, peerLimit, ending, tx,
                     rxHigh, rxRead, arrived, rxLimit, rxFIN, stopped, closed,
                     data, ends, stops, windows, finals>>
      /\ AdvertiseSession(rx.committed + 0, rx.consumed + 0)
  BY <1>1 DEF SweepSession, sendVars
<1>3. SessionMoves(0, 0)
  BY <1>2, AdvertiseMoves DEF AccountsAgree
<1>4. rx.consumed + 0 <= tx.committed
  BY <1>1, SessionChain
<1>5. /\ rx' \in [committed : Nat, consumed : Nat, limit : Nat]
      /\ rx'.committed = rx.committed + 0 /\ rx'.consumed = rx.consumed + 0
      /\ sessionWindows' \subseteq [consumed : Nat, limit : Nat]
      /\ SessionInOrder' /\ SessionWindowsInOrder'
  BY <1>2, <1>3, <1>4, SessionKept
<1>6. TypeOK'
  BY <1>2, <1>5 DEF AccountsAgree, TypeOK
<1>7. LedgersAgree'
  BY <1>1, <1>2, <1>5 DEF AccountsAgree, LedgersAgree, BytesBelow
<1>8. \A s \in Streams : StreamInOrder(s)'
  BY <1>2 DEF AccountsAgree, StreamInOrder
<1>9. FramesInOrder' /\ WindowsInOrder'
  BY <1>2 DEF AccountsAgree, FramesInOrder, WindowsInOrder, Newer, Stale
<1>. QED BY <1>5, <1>6, <1>7, <1>8, <1>9 DEF AccountsAgree

LEMMA ReceiverStepKeeps ==
  ASSUME AccountsAgree, ReceiverStep
  PROVE  AccountsAgree'
<1>1. ASSUME NEW d \in data, IgnoreData(d) \/ RecvData(d) \/ RecvDataNoPage(d)
      PROVE  AccountsAgree'
  <2>1. d.stream \in Streams
    BY DEF AccountsAgree, TypeOK
  <2>. QED BY <1>1, <2>1, IgnoreKeeps, RecvDataMoves, RecvDataNoPageMoves, ReceiverKeeps
<1>2. ASSUME NEW e \in ends, RecvFIN(e) \/ RecvReset(e)
      PROVE  AccountsAgree'
  <2>1. e.stream \in Streams
    BY DEF AccountsAgree, TypeOK
  <2>. QED BY <1>2, <2>1, RecvFINMoves, RecvResetMoves, ReceiverKeeps
<1>3. ASSUME NEW s \in Streams, NEW n \in 1..MaxPayload, Read(s, n)
      PROVE  AccountsAgree'
  BY <1>3, ReadMoves, ReceiverKeeps
<1>4. ASSUME NEW s \in Streams,
             Advertise(s) \/ OpenWindow(s) \/ StopRead(s) \/ Close(s, FALSE) \/ Close(s, TRUE)
      PROVE  AccountsAgree'
  BY <1>4, AdvertiseStep, EndReadingMoves, ReceiverKeeps
<1>. QED BY <1>1, <1>2, <1>3, <1>4, SweepKeeps DEF ReceiverStep

-----------------------------------------------------------------------------
(* The sender.                                                             *)

LEMMA WriteKeeps ==
  ASSUME AccountsAgree, NEW s \in Streams, NEW n \in 1..MaxPayload, Write(s, n)
  PROVE  AccountsAgree'
<1>1. n \in Nat /\ MaxPayload \in Nat /\ MaxBytes \in Nat
  BY CreditAssumption
<1>2. /\ txNext \in [Streams -> Nat] /\ peerLimit \in [Streams -> Nat]
      /\ txNext[s] \in Nat /\ peerLimit[s] \in Nat /\ rxHigh[s] \in Nat
      /\ tx \in [committed : Nat, used : Nat, peerConsumed : Nat, peerLimit : Nat]
      /\ tx.committed \in Nat /\ tx.used \in Nat /\ tx.peerLimit \in Nat
      /\ rx.committed \in Nat
  BY DEF AccountsAgree, TypeOK
<1>3. /\ ending[s] = "no" /\ n <= Allowance(s) /\ txNext[s] + n <= MaxBytes
      /\ txNext' = [txNext EXCEPT ![s] = txNext[s] + n]
      /\ tx' = [tx EXCEPT !.committed = tx.committed + n, !.used = tx.used + n]
      /\ data' = data \cup {[stream |-> s, from |-> txNext[s], to |-> txNext[s] + n]}
      /\ UNCHANGED <<peerConsumed, creditConsumed, peerLimit, ending, rxHigh, rxRead, arrived,
                     rxLimit, rxFIN, stopped, closed, rx, ends, stops, windows,
                     sessionWindows, finals>>
  BY DEF Write, recvVars
<1>4. txNext[s] + n <= peerLimit[s] /\ tx.committed + n <= tx.peerLimit
  BY <1>1, <1>2, <1>3 DEF Allowance, Least
<1>5. /\ tx'.committed = tx.committed + n /\ tx'.used = tx.used + n
      /\ tx'.peerConsumed = tx.peerConsumed /\ tx'.peerLimit = tx.peerLimit
      /\ tx' \in [committed : Nat, used : Nat, peerConsumed : Nat, peerLimit : Nat]
  <2>1. tx.committed + n \in Nat /\ tx.used + n \in Nat
    BY <1>1, <1>2
  <2> DEFINE committed == tx.committed + n
             used == tx.used + n
  <2>2. tx' = [tx EXCEPT !.committed = committed, !.used = used]
    BY <1>3
  <2> HIDE DEF committed, used
  <2>3. /\ tx'.committed = committed /\ tx'.used = used
        /\ tx'.peerConsumed = tx.peerConsumed /\ tx'.peerLimit = tx.peerLimit
    BY <1>2, <2>2
  <2>4. tx' \in [committed : Nat, used : Nat, peerConsumed : Nat, peerLimit : Nat]
    BY <1>2, <2>1, <2>2 DEF committed, used
  <2>. QED BY <2>3, <2>4 DEF committed, used
<1>6. \A t \in Streams : txNext'[t] = IF t = s THEN txNext[s] + n ELSE txNext[t]
  BY <1>2, <1>3
<1>7. TypeOK'
  <2>1. txNext' \in [Streams -> Nat]
    BY <1>1, <1>2, <1>3
  <2>2. data' \subseteq [stream : Streams, from : Nat, to : Nat]
    BY <1>1, <1>2, <1>3 DEF AccountsAgree, TypeOK
  <2>. QED BY <1>3, <1>5, <2>1, <2>2 DEF AccountsAgree, TypeOK
<1>8. LedgersAgree'
  <2>1. txNext \in Offsets /\ txNext[s] + n \in 0..MaxBytes /\ txNext[s] <= txNext[s] + n
    BY <1>1, <1>2, <1>3, OffsetTypes
  <2>2. Cardinality(BytesBelow(txNext')) = Cardinality(BytesBelow(txNext)) + (txNext[s] + n) - txNext[s]
    BY <1>3, <2>1, BytesAdded
  <2>3. Cardinality(BytesBelow(txNext)) = tx.committed
    BY DEF AccountsAgree, LedgersAgree
  <2>4. Cardinality(BytesBelow(peerConsumed)) \in Nat
    BY OffsetTypes, BytesFinite
  <2>5. tx'.committed = Cardinality(BytesBelow(txNext'))
    BY <1>1, <1>2, <1>5, <2>2, <2>3
  <2>6. tx'.used = tx'.committed - Cardinality(BytesBelow(peerConsumed))
    BY <1>1, <1>2, <1>5, <2>4 DEF AccountsAgree, LedgersAgree
  <2>. QED BY <1>3, <2>5, <2>6 DEF AccountsAgree, LedgersAgree, BytesBelow
<1>9. SessionInOrder'
  BY <1>1, <1>2, <1>3, <1>4, <1>5 DEF AccountsAgree, SessionInOrder
<1>10. ASSUME NEW t \in Streams PROVE StreamInOrder(t)'
  <2>1. StreamInOrder(t)
    BY DEF AccountsAgree
  <2>2. CASE t = s
    <3>1. rxFIN[s] = NotFinal
      BY <1>3, <2>1, <2>2 DEF StreamInOrder
    <3>2. txNext'[s] = txNext[s] + n /\ rxHigh[s] <= txNext[s] + n
      BY <1>1, <1>2, <1>6, <2>1, <2>2 DEF StreamInOrder
    <3>. QED BY <1>3, <1>4, <2>1, <2>2, <3>1, <3>2 DEF StreamInOrder
  <2>3. CASE t # s
    BY <1>3, <1>6, <2>1, <2>3 DEF StreamInOrder
  <2>. QED BY <2>2, <2>3
<1>11. FramesInOrder'
  <2>1. FramesInOrder /\ TypeOK
    BY DEF AccountsAgree
  <2>2. ASSUME NEW d \in data' PROVE d.to <= txNext'[d.stream]
    <3>1. CASE d \in data
      <4>1. d.stream \in Streams /\ d.to \in Nat /\ d.to <= txNext[d.stream]
        BY <2>1, <3>1 DEF TypeOK, FramesInOrder
      <4>. QED BY <1>1, <1>2, <1>6, <4>1
    <3>2. CASE d = [stream |-> s, from |-> txNext[s], to |-> txNext[s] + n]
      <4>1. d.stream = s /\ d.to = txNext[s] + n
        BY <3>2
      <4>. QED BY <1>1, <1>2, <1>6, <4>1
    <3>. QED BY <1>3, <3>1, <3>2
  <2>3. ASSUME NEW e \in ends \cup finals PROVE txNext'[e.stream] = txNext[e.stream]
    BY <1>3, <1>6, <2>1 DEF TypeOK, FramesInOrder
  <2>. QED BY <1>3, <2>1, <2>2, <2>3 DEF FramesInOrder
<1>12. WindowsInOrder' /\ SessionWindowsInOrder'
  BY <1>3, <1>5 DEF AccountsAgree, WindowsInOrder, Newer, Stale,
                    SessionWindowsInOrder, SessionNewer, SessionStale
<1>. QED BY <1>7, <1>8, <1>9, <1>10, <1>11, <1>12 DEF AccountsAgree

(* The end of a Stream is announced: neither account changes.              *)
LEMMA EndingKeeps ==
  ASSUME AccountsAgree, NEW s \in Streams, NEW kind \in {"fin", "reset"},
         kind = "fin" => ending[s] = "no",
         ending' = [ending EXCEPT ![s] = kind],
         ends' = ends \cup {[stream |-> s, size |-> txNext[s], reset |-> kind = "reset"]},
         stops' \subseteq stops,
         UNCHANGED <<txNext, peerConsumed, creditConsumed, peerLimit, tx, recvVars,
                     data, windows, sessionWindows, finals>>
  PROVE  AccountsAgree'
<1>1. UNCHANGED <<txNext, peerConsumed, creditConsumed, peerLimit, tx, rxHigh, rxRead, arrived,
                  rxLimit, rxFIN, stopped, closed, rx, data, windows, sessionWindows, finals>>
  BY DEF recvVars
<1>2. /\ ending \in [Streams -> {"no", "fin", "reset"}] /\ txNext[s] \in Nat
      /\ TypeOK /\ FramesInOrder
  BY DEF AccountsAgree, TypeOK
<1>3. \A t \in Streams : ending'[t] = IF t = s THEN kind ELSE ending[t]
  BY <1>2
<1>4. kind # "no" /\ (ending[s] = "reset" => kind = "reset")
  OBVIOUS
<1> DEFINE end == [stream |-> s, size |-> txNext[s], reset |-> kind = "reset"]
<1>5. /\ end \in [stream : Streams, size : Nat, reset : BOOLEAN]
      /\ end.stream = s /\ end.size = txNext[s] /\ (end.reset => kind = "reset")
  BY <1>2
<1> HIDE DEF end
<1>6. TypeOK'
  <2>1. ending' \in [Streams -> {"no", "fin", "reset"}]
    BY <1>2
  <2>2. /\ ends' \subseteq [stream : Streams, size : Nat, reset : BOOLEAN]
        /\ stops' \subseteq Streams
    BY <1>2, <1>5 DEF TypeOK, end
  <2>. QED BY <1>1, <1>2, <2>1, <2>2 DEF TypeOK
<1>7. LedgersAgree' /\ SessionInOrder' /\ WindowsInOrder' /\ SessionWindowsInOrder'
  BY <1>1 DEF AccountsAgree, LedgersAgree, BytesBelow, SessionInOrder, WindowsInOrder, Newer,
              Stale, SessionWindowsInOrder, SessionNewer, SessionStale
<1>8. ASSUME NEW t \in Streams PROVE StreamInOrder(t)'
  <2>1. StreamInOrder(t)
    BY DEF AccountsAgree
  <2>2. ending[t] # "no" => ending'[t] # "no"
    BY <1>3, <1>4
  <2>. QED BY <1>1, <2>1, <2>2 DEF StreamInOrder
<1>9. FramesInOrder'
  <2>1. ASSUME NEW e \in ends' \cup finals
        PROVE  /\ e.size = txNext[e.stream] /\ ending'[e.stream] # "no"
               /\ e.reset => ending'[e.stream] = "reset"
    <3>1. CASE e \in ends \cup finals
      <4>1. /\ e.stream \in Streams /\ e.size = txNext[e.stream] /\ ending[e.stream] # "no"
            /\ e.reset => ending[e.stream] = "reset"
        BY <1>2, <3>1 DEF TypeOK, FramesInOrder
      <4>. QED BY <1>3, <1>4, <4>1
    <3>2. CASE e = end
      BY <1>3, <1>4, <1>5, <3>2
    <3>. QED BY <3>1, <3>2 DEF end
  <2>. QED BY <1>1, <1>2, <2>1 DEF FramesInOrder
<1>. QED BY <1>6, <1>7, <1>8, <1>9 DEF AccountsAgree

(* resetSendLocked, by the application or for a STOP_SENDING.              *)
LEMMA ResetsKeeps ==
  ASSUME AccountsAgree, NEW s \in Streams, Resets(s), stops' \subseteq stops,
         UNCHANGED <<txNext, peerConsumed, creditConsumed, peerLimit, tx, recvVars,
                     data, windows, sessionWindows, finals>>
  PROVE  AccountsAgree'
<1>1. CASE ending[s] = "reset"
  <2>1. UNCHANGED <<txNext, peerConsumed, creditConsumed, peerLimit, ending, tx, rxHigh, rxRead,
                    arrived, rxLimit, rxFIN, stopped, closed, rx, data, ends, windows,
                    sessionWindows, finals>>
    BY <1>1 DEF Resets, recvVars
  <2>2. TypeOK'
    BY <2>1 DEF AccountsAgree, TypeOK
  <2>3. /\ LedgersAgree' /\ SessionInOrder' /\ FramesInOrder'
        /\ WindowsInOrder' /\ SessionWindowsInOrder' /\ \A t \in Streams : StreamInOrder(t)'
    BY <2>1 DEF AccountsAgree, LedgersAgree, BytesBelow, SessionInOrder, FramesInOrder,
                WindowsInOrder, Newer, Stale, SessionWindowsInOrder, SessionNewer, SessionStale,
                StreamInOrder
  <2>. QED BY <2>2, <2>3 DEF AccountsAgree
<1>2. CASE ending[s] # "reset"
  <2>1. /\ ending' = [ending EXCEPT ![s] = "reset"]
        /\ ends' = ends \cup {[stream |-> s, size |-> txNext[s], reset |-> TRUE]}
    BY <1>2 DEF Resets
  <2>2. ends' = ends \cup {[stream |-> s, size |-> txNext[s], reset |-> "reset" = "reset"]}
    BY <2>1
  <2>. QED BY <2>1, <2>2, EndingKeeps
<1>. QED BY <1>1, <1>2

LEMMA EndActionsKeep ==
  ASSUME AccountsAgree, NEW s \in Streams, CloseWrite(s) \/ Reset(s) \/ RecvStop(s)
  PROVE  AccountsAgree'
<1>1. CASE CloseWrite(s)
  <2>1. /\ ending[s] = "no" /\ ending' = [ending EXCEPT ![s] = "fin"]
        /\ ends' = ends \cup {[stream |-> s, size |-> txNext[s], reset |-> FALSE]}
        /\ UNCHANGED <<txNext, peerConsumed, creditConsumed, peerLimit, tx, recvVars,
                       data, stops, windows, sessionWindows, finals>>
    BY <1>1 DEF CloseWrite
  <2>2. ends' = ends \cup {[stream |-> s, size |-> txNext[s], reset |-> "fin" = "reset"]}
    BY <2>1
  <2>. QED BY <2>1, <2>2, EndingKeeps
<1>2. CASE Reset(s)
  BY <1>2, ResetsKeeps DEF Reset
<1>3. CASE RecvStop(s)
  BY <1>3, ResetsKeeps DEF RecvStop
<1>. QED BY <1>1, <1>2, <1>3

(* A release of credit up to what has been read keeps the ledger, and      *)
(* never takes more than is used.                                          *)
LEMMA ReleaseMoves ==
  ASSUME AccountsAgree, NEW s \in Streams, NEW offset \in Nat, offset <= rxRead[s],
         Release(s, offset), UNCHANGED txNext
  PROVE  /\ peerConsumed' \in [Streams -> Nat]
         /\ \A t \in Streams : peerConsumed'[t] <= rxRead[t]
         /\ tx' \in [committed : Nat, used : Nat, peerConsumed : Nat, peerLimit : Nat]
         /\ tx'.committed = tx.committed /\ tx'.peerConsumed = tx.peerConsumed
         /\ tx'.peerLimit = tx.peerLimit
         /\ tx'.used = tx'.committed - Cardinality(BytesBelow(peerConsumed'))
<1> DEFINE n == Largest(0, offset - peerConsumed[s])
<1>1. /\ peerConsumed[s] \in Nat /\ rxRead[s] \in Nat /\ peerConsumed \in [Streams -> Nat]
      /\ tx \in [committed : Nat, used : Nat, peerConsumed : Nat, peerLimit : Nat]
      /\ tx.committed \in Nat /\ tx.used \in Nat /\ MaxBytes \in Nat
      /\ peerConsumed[s] <= rxRead[s]
  BY CreditAssumption DEF AccountsAgree, TypeOK, StreamInOrder
<1>2. n \in Nat /\ peerConsumed[s] + n \in Nat /\ peerConsumed[s] + n <= rxRead[s]
  BY <1>1 DEF Largest
<1>3. peerConsumed' = [peerConsumed EXCEPT ![s] = @ + n] /\ tx' = [tx EXCEPT !.used = @ - n]
  BY DEF Release
<1> HIDE DEF n
<1> DEFINE to == peerConsumed[s] + n
<1>4. peerConsumed' = [peerConsumed EXCEPT ![s] = to]
  BY <1>1, <1>3
<1>5. to \in 0..MaxBytes /\ peerConsumed[s] <= to
  <2>1. rxRead[s] <= MaxBytes
    BY <1>1, OffsetTypes DEF Offsets
  <2>. QED BY <1>1, <1>2, <2>1
<1>6. to - peerConsumed[s] = n
  BY <1>1, <1>2
<1> HIDE DEF to
<1>7. /\ peerConsumed' \in Offsets
      /\ Cardinality(BytesBelow(peerConsumed')) = Cardinality(BytesBelow(peerConsumed)) + to - peerConsumed[s]
  BY <1>4, <1>5, OffsetTypes, BytesAdded
<1>8. \A t \in Streams : peerConsumed'[t] <= rxRead[t]
  BY <1>1, <1>2, <1>4, OffsetTypes DEF to
<1>9. \A t \in Streams : peerConsumed'[t] <= txNext[t]
  <2> TAKE t \in Streams
  <2>1. rxRead[t] <= rxHigh[t] /\ rxHigh[t] <= txNext[t] /\ peerConsumed'[t] <= rxRead[t]
    BY <1>8, OffsetTypes
  <2>2. rxRead[t] \in Nat /\ rxHigh[t] \in Nat /\ txNext[t] \in Nat /\ peerConsumed'[t] \in Nat
    BY <1>7 DEF AccountsAgree, TypeOK, Offsets
  <2>. QED BY <2>1, <2>2
<1>10. Cardinality(BytesBelow(peerConsumed')) <= tx.committed
  BY <1>7, <1>9, OffsetTypes, BytesMonotone DEF AccountsAgree, LedgersAgree
<1>11. /\ Cardinality(BytesBelow(peerConsumed)) \in Nat
       /\ Cardinality(BytesBelow(peerConsumed')) \in Nat
       /\ tx.used = tx.committed - Cardinality(BytesBelow(peerConsumed))
  BY <1>7, OffsetTypes, BytesFinite DEF AccountsAgree, LedgersAgree
<1>12. tx.used - n = tx.committed - Cardinality(BytesBelow(peerConsumed')) /\ tx.used - n \in Nat
  BY <1>1, <1>2, <1>5, <1>6, <1>7, <1>10, <1>11
<1>13. /\ tx'.committed = tx.committed /\ tx'.peerConsumed = tx.peerConsumed
       /\ tx'.peerLimit = tx.peerLimit /\ tx'.used = tx.used - n
       /\ tx' \in [committed : Nat, used : Nat, peerConsumed : Nat, peerLimit : Nat]
  <2> DEFINE used == tx.used - n
  <2>1. tx' = [tx EXCEPT !.used = used] /\ used \in Nat
    BY <1>1, <1>3, <1>12
  <2> HIDE DEF used
  <2>2. /\ tx'.committed = tx.committed /\ tx'.peerConsumed = tx.peerConsumed
        /\ tx'.peerLimit = tx.peerLimit /\ tx'.used = used
    BY <1>1, <2>1
  <2>3. tx' \in [committed : Nat, used : Nat, peerConsumed : Nat, peerLimit : Nat]
    BY <1>1, <2>1
  <2>. QED BY <2>2, <2>3 DEF used
<1>14. peerConsumed' \in [Streams -> Nat]
  BY <1>1, <1>2, <1>4 DEF to
<1>. QED BY <1>8, <1>12, <1>13, <1>14

LEMMA RecvFinalKeeps ==
  ASSUME AccountsAgree, NEW f \in finals, RecvFinal(f)
  PROVE  AccountsAgree'
<1>1. /\ Release(f.stream, f.size)
      /\ UNCHANGED <<txNext, creditConsumed, peerLimit, ending, rxHigh, rxRead, arrived, rxLimit,
                     rxFIN, stopped, closed, rx, data, ends, stops, windows, sessionWindows,
                     finals>>
  BY DEF RecvFinal, recvVars, netVars
<1>2. /\ f.stream \in Streams /\ f.size \in Nat /\ f.size = rxRead[f.stream]
      /\ rxRead[f.stream] \in Nat
  BY DEF AccountsAgree, TypeOK, FramesInOrder
<1>3. f.size <= rxRead[f.stream]
  BY <1>2
<1>4. /\ peerConsumed' \in [Streams -> Nat]
      /\ \A t \in Streams : peerConsumed'[t] <= rxRead[t]
      /\ tx' \in [committed : Nat, used : Nat, peerConsumed : Nat, peerLimit : Nat]
      /\ tx'.committed = tx.committed /\ tx'.peerConsumed = tx.peerConsumed
      /\ tx'.peerLimit = tx.peerLimit
      /\ tx'.used = tx'.committed - Cardinality(BytesBelow(peerConsumed'))
  BY <1>1, <1>2, <1>3, ReleaseMoves
<1>5. TypeOK'
  BY <1>1, <1>4 DEF AccountsAgree, TypeOK
<1>6. LedgersAgree' /\ SessionInOrder'
  BY <1>1, <1>4 DEF AccountsAgree, LedgersAgree, BytesBelow, SessionInOrder
<1>7. \A t \in Streams : StreamInOrder(t)'
  BY <1>1, <1>4 DEF AccountsAgree, StreamInOrder
<1>8. FramesInOrder' /\ WindowsInOrder' /\ SessionWindowsInOrder'
  BY <1>1, <1>4 DEF AccountsAgree, FramesInOrder, WindowsInOrder, Newer, Stale,
                    SessionWindowsInOrder, SessionNewer, SessionStale
<1>. QED BY <1>5, <1>6, <1>7, <1>8 DEF AccountsAgree

LEMMA RecvWindowKeeps ==
  ASSUME AccountsAgree, NEW w \in windows, RecvWindow(w)
  PROVE  AccountsAgree'
<1> DEFINE s == w.stream
<1>1. /\ Release(s, w.consumed) /\ Newer(w)
      /\ creditConsumed' = [creditConsumed EXCEPT ![s] = w.consumed]
      /\ peerLimit' = [peerLimit EXCEPT ![s] = w.limit]
      /\ UNCHANGED <<txNext, ending, rxHigh, rxRead, arrived, rxLimit,
                     rxFIN, stopped, closed, rx, data, ends, stops, windows, sessionWindows,
                     finals>>
  BY DEF RecvWindow, recvVars, netVars
<1>2. /\ windows \subseteq [stream : Streams, consumed : Nat, limit : Nat]
      /\ creditConsumed \in [Streams -> Nat] /\ peerLimit \in [Streams -> Nat]
      /\ txNext \in [Streams -> Nat]
  BY DEF AccountsAgree, TypeOK
<1>3. /\ s \in Streams /\ w.consumed \in Nat /\ w.limit \in Nat
      /\ w.consumed <= rxRead[s] /\ w.limit <= rxLimit[s]
      /\ \A v \in windows : v.stream = s => Comparable(w, v)
  BY <1>2 DEF AccountsAgree, WindowsInOrder
<1>4. /\ peerConsumed' \in [Streams -> Nat]
      /\ \A t \in Streams : peerConsumed'[t] <= rxRead[t]
      /\ tx' \in [committed : Nat, used : Nat, peerConsumed : Nat, peerLimit : Nat]
      /\ tx'.committed = tx.committed /\ tx'.peerConsumed = tx.peerConsumed
      /\ tx'.peerLimit = tx.peerLimit
      /\ tx'.used = tx'.committed - Cardinality(BytesBelow(peerConsumed'))
  BY <1>1, <1>3, ReleaseMoves
<1>5. /\ creditConsumed' \in [Streams -> Nat] /\ peerLimit' \in [Streams -> Nat]
      /\ \A t \in Streams :
           /\ creditConsumed'[t] = IF t = s THEN w.consumed ELSE creditConsumed[t]
           /\ peerLimit'[t] = IF t = s THEN w.limit ELSE peerLimit[t]
  BY <1>1, <1>2, <1>3
<1>6. TypeOK'
  BY <1>1, <1>4, <1>5 DEF AccountsAgree, TypeOK
<1>7. LedgersAgree' /\ SessionInOrder'
  BY <1>1, <1>4 DEF AccountsAgree, LedgersAgree, BytesBelow, SessionInOrder
<1>8. ASSUME NEW t \in Streams PROVE StreamInOrder(t)'
  <2>1. StreamInOrder(t) /\ txNext[t] \in Nat /\ peerLimit[t] \in Nat
    BY <1>2 DEF AccountsAgree
  <2>2. txNext[t] <= peerLimit'[t]
    <3>1. CASE t = s
      BY <1>1, <1>3, <1>5, <2>1, <3>1 DEF Newer, StreamInOrder
    <3>2. CASE t # s
      BY <1>5, <2>1, <3>2 DEF StreamInOrder
    <3>. QED BY <3>1, <3>2
  <2>3. creditConsumed'[t] <= rxRead[t] /\ peerLimit'[t] <= rxLimit[t]
    BY <1>3, <1>5, <2>1 DEF StreamInOrder
  <2>. QED BY <1>1, <1>4, <2>1, <2>2, <2>3 DEF StreamInOrder
<1>9. FramesInOrder' /\ SessionWindowsInOrder'
  BY <1>1, <1>4 DEF AccountsAgree, FramesInOrder, SessionWindowsInOrder, SessionNewer,
                    SessionStale
<1>10. WindowsInOrder'
  <2>1. ASSUME NEW v \in windows PROVE Newer(v)' \/ Stale(v)'
    <3>1. v.stream \in Streams /\ v.consumed \in Nat /\ v.limit \in Nat /\ (Newer(v) \/ Stale(v))
      BY <1>2 DEF AccountsAgree, WindowsInOrder
    <3>2. CASE v.stream = s
      <4>1. Comparable(w, v)
        BY <1>3, <3>2
      <4>2. creditConsumed'[v.stream] = w.consumed /\ peerLimit'[v.stream] = w.limit
        BY <1>3, <1>5, <3>2
      <4>. QED BY <1>3, <3>1, <4>1, <4>2 DEF Comparable, Newer, Stale
    <3>3. CASE v.stream # s
      BY <1>5, <3>1, <3>3 DEF Newer, Stale
    <3>. QED BY <3>2, <3>3
  <2>. QED BY <1>1, <2>1 DEF AccountsAgree, WindowsInOrder
<1>. QED BY <1>6, <1>7, <1>8, <1>9, <1>10 DEF AccountsAgree

LEMMA RecvSessionWindowKeeps ==
  ASSUME AccountsAgree, NEW w \in sessionWindows, RecvSessionWindow(w)
  PROVE  AccountsAgree'
<1>1. /\ tx' = [tx EXCEPT !.peerConsumed = w.consumed, !.peerLimit = w.limit]
      /\ SessionNewer(w)
      /\ UNCHANGED <<txNext, peerConsumed, creditConsumed, peerLimit, ending, rxHigh, rxRead,
                     arrived, rxLimit, rxFIN, stopped, closed, rx, data, ends, stops, windows,
                     sessionWindows, finals>>
  BY DEF RecvSessionWindow, recvVars, netVars
<1>2. /\ sessionWindows \subseteq [consumed : Nat, limit : Nat]
      /\ tx \in [committed : Nat, used : Nat, peerConsumed : Nat, peerLimit : Nat]
  BY DEF AccountsAgree, TypeOK
<1>3. /\ w.consumed \in Nat /\ w.limit \in Nat
      /\ w.consumed <= rx.consumed /\ w.limit <= rx.limit
      /\ \A v \in sessionWindows : Comparable(w, v)
  BY <1>2 DEF AccountsAgree, SessionWindowsInOrder
<1>4. /\ tx'.committed = tx.committed /\ tx'.used = tx.used
      /\ tx'.peerConsumed = w.consumed /\ tx'.peerLimit = w.limit
      /\ tx' \in [committed : Nat, used : Nat, peerConsumed : Nat, peerLimit : Nat]
  <2>1. /\ tx'.committed = tx.committed /\ tx'.used = tx.used
        /\ tx'.peerConsumed = w.consumed /\ tx'.peerLimit = w.limit
    BY <1>1, <1>2
  <2>2. tx' \in [committed : Nat, used : Nat, peerConsumed : Nat, peerLimit : Nat]
    BY <1>1, <1>2, <1>3
  <2>. QED BY <2>1, <2>2
<1>5. TypeOK'
  BY <1>1, <1>4 DEF AccountsAgree, TypeOK
<1>6. LedgersAgree'
  BY <1>1, <1>4 DEF AccountsAgree, LedgersAgree, BytesBelow
<1>7. SessionInOrder'
  <2>1. tx.committed \in Nat /\ tx.peerLimit \in Nat /\ tx.committed <= tx.peerLimit
    BY <1>2 DEF AccountsAgree, SessionInOrder
  <2>2. tx.committed <= w.limit
    BY <1>1, <1>3, <2>1 DEF SessionNewer
  <2>. QED BY <1>1, <1>3, <1>4, <2>2 DEF AccountsAgree, SessionInOrder
<1>8. \A s \in Streams : StreamInOrder(s)'
  BY <1>1 DEF AccountsAgree, StreamInOrder
<1>9. FramesInOrder' /\ WindowsInOrder'
  BY <1>1 DEF AccountsAgree, FramesInOrder, WindowsInOrder, Newer, Stale
<1>10. SessionWindowsInOrder'
  <2>1. ASSUME NEW v \in sessionWindows PROVE SessionNewer(v)' \/ SessionStale(v)'
    <3>1. v.consumed \in Nat /\ v.limit \in Nat /\ Comparable(w, v)
      BY <1>2, <1>3
    <3>. QED BY <1>3, <1>4, <3>1 DEF Comparable, SessionNewer, SessionStale
  <2>. QED BY <1>1, <2>1 DEF AccountsAgree, SessionWindowsInOrder
<1>. QED BY <1>5, <1>6, <1>7, <1>8, <1>9, <1>10 DEF AccountsAgree

-----------------------------------------------------------------------------
LEMMA AccountsStep == AccountsAgree /\ [Next]_vars => AccountsAgree'
<1> SUFFICES ASSUME AccountsAgree, [Next]_vars PROVE AccountsAgree'
  OBVIOUS
<1>1. CASE SenderStep
  BY <1>1, WriteKeeps, EndActionsKeep, RecvWindowKeeps, RecvSessionWindowKeeps, RecvFinalKeeps
  DEF SenderStep
<1>2. CASE ReceiverStep
  BY <1>2, ReceiverStepKeeps
<1>3. CASE UNCHANGED vars
  <2>1. UNCHANGED <<txNext, peerConsumed, creditConsumed, peerLimit, ending, tx, rxHigh, rxRead,
                    arrived, rxLimit, rxFIN, stopped, closed, rx, data, ends, stops, windows,
                    sessionWindows, finals>>
    BY <1>3 DEF vars, sendVars, recvVars, netVars
  <2>2. TypeOK'
    BY <2>1 DEF AccountsAgree, TypeOK
  <2>3. /\ LedgersAgree' /\ SessionInOrder' /\ FramesInOrder'
        /\ WindowsInOrder' /\ SessionWindowsInOrder' /\ \A t \in Streams : StreamInOrder(t)'
    BY <2>1 DEF AccountsAgree, LedgersAgree, BytesBelow, SessionInOrder, FramesInOrder,
                WindowsInOrder, Newer, Stale, SessionWindowsInOrder, SessionNewer, SessionStale,
                StreamInOrder
  <2>. QED BY <2>2, <2>3 DEF AccountsAgree
<1>. QED BY <1>1, <1>2, <1>3 DEF Next

(* THE ACCOUNTS: the two ends agree on every offset, the Session's         *)
(* accounts are the sums of those of the Streams, and what is on its way   *)
(* lies between what its two ends believe, whatever is late or lost.       *)
THEOREM AccountsAlwaysAgree == Spec => []AccountsAgree
<1>1. Init => AccountsAgree
  BY AccountsInit
<1>2. AccountsAgree /\ [Next]_vars => AccountsAgree'
  BY AccountsStep
<1>. QED BY <1>1, <1>2, PTL DEF Spec

(* THE REFUSALS: no frame of a correct peer is ever refused by the checks  *)
(* of the credit, so none makes a Session fail.                            *)
THEOREM NothingIsRefused == Spec => []NeverRefused
BY AccountsAlwaysAgree, NothingToRefuse, PTL

-----------------------------------------------------------------------------
(* The windows keep the contract.                                          *)

(* What a step does to the offsets that are granted and reported: one      *)
(* Stream writes within both limits, or the receiver moves, or neither.    *)
Quiet ==
  UNCHANGED <<txNext, tx.committed, rxRead, rxLimit, rx.consumed, rx.limit>>

LEMMA SenderCommits ==
  ASSUME AccountsAgree, SenderStep
  PROVE  \/ \E s \in Streams, n \in 1..MaxPayload : Write(s, n)
         \/ Quiet
<1>0. tx \in [committed : Nat, used : Nat, peerConsumed : Nat, peerLimit : Nat]
  BY DEF AccountsAgree, TypeOK
<1>1. ASSUME NEW s \in Streams, CloseWrite(s) \/ Reset(s) \/ RecvStop(s) PROVE Quiet
  BY <1>1 DEF CloseWrite, Reset, RecvStop, recvVars, Quiet
<1>2. ASSUME NEW w \in windows, RecvWindow(w) PROVE Quiet
  <2>1. w.consumed \in Nat /\ w.stream \in Streams /\ w.consumed <= rxRead[w.stream]
    BY DEF AccountsAgree, TypeOK, WindowsInOrder
  <2>2. Release(w.stream, w.consumed) /\ UNCHANGED <<txNext, rxRead, rxLimit, rx>>
    BY <1>2 DEF RecvWindow, recvVars
  <2>. QED BY <2>1, <2>2, ReleaseMoves DEF Quiet
<1>3. ASSUME NEW w \in sessionWindows, RecvSessionWindow(w) PROVE Quiet
  <2>1. /\ tx' = [tx EXCEPT !.peerConsumed = w.consumed, !.peerLimit = w.limit]
        /\ UNCHANGED <<txNext, rxRead, rxLimit, rx>>
    BY <1>3 DEF RecvSessionWindow, recvVars
  <2>2. tx'.committed = tx.committed
    BY <1>0, <2>1
  <2>. QED BY <2>1, <2>2 DEF Quiet
<1>4. ASSUME NEW f \in finals, RecvFinal(f) PROVE Quiet
  <2>1. /\ f.size \in Nat /\ f.stream \in Streams /\ f.size <= rxRead[f.stream]
    BY DEF AccountsAgree, TypeOK, FramesInOrder
  <2>2. Release(f.stream, f.size) /\ UNCHANGED <<txNext, rxRead, rxLimit, rx>>
    BY <1>4 DEF RecvFinal, recvVars
  <2>. QED BY <2>1, <2>2, ReleaseMoves DEF Quiet
<1>. QED BY <1>1, <1>2, <1>3, <1>4 DEF SenderStep

LEMMA ReceiverReturns ==
  ASSUME AccountsAgree, ReceiverStep
  PROVE  \/ \E s \in Streams, high, read \in Nat : ReceiverMoves(s, high, read)
         \/ SessionMoves(0, 0) /\ UNCHANGED <<txNext, tx, rxRead, rxLimit>>
         \/ Quiet
<1>1. ASSUME NEW d \in data, IgnoreData(d) \/ RecvData(d) \/ RecvDataNoPage(d)
      PROVE  \/ \E s \in Streams, high, read \in Nat : ReceiverMoves(s, high, read)
             \/ Quiet
  <2>1. d.stream \in Streams
    BY DEF AccountsAgree, TypeOK
  <2>2. IgnoreData(d) => Quiet
    BY DEF IgnoreData, sendVars, recvVars, Quiet
  <2>. QED BY <1>1, <2>1, <2>2, RecvDataMoves, RecvDataNoPageMoves
<1>2. ASSUME NEW e \in ends, RecvFIN(e) \/ RecvReset(e)
      PROVE  \E s \in Streams, high, read \in Nat : ReceiverMoves(s, high, read)
  <2>1. e.stream \in Streams
    BY DEF AccountsAgree, TypeOK
  <2>. QED BY <1>2, <2>1, RecvFINMoves, RecvResetMoves
<1>3. ASSUME NEW s \in Streams, NEW n \in 1..MaxPayload, Read(s, n)
      PROVE  \E high, read \in Nat : ReceiverMoves(s, high, read)
  BY <1>3, ReadMoves
<1>4. ASSUME NEW s \in Streams,
             Advertise(s) \/ OpenWindow(s) \/ StopRead(s) \/ Close(s, FALSE) \/ Close(s, TRUE)
      PROVE  \E high, read \in Nat : ReceiverMoves(s, high, read)
  BY <1>4, AdvertiseStep, EndReadingMoves
<1>5. ASSUME SweepSession
      PROVE  SessionMoves(0, 0) /\ UNCHANGED <<txNext, tx, rxRead, rxLimit>>
  <2>1. /\ rx.committed + 0 = rx.committed /\ rx.consumed + 0 = rx.consumed
    BY DEF AccountsAgree, TypeOK
  <2>2. AdvertiseSession(rx.committed + 0, rx.consumed + 0)
    BY <1>5, <2>1 DEF SweepSession
  <2>. QED BY <1>5, <2>2, AdvertiseMoves DEF SweepSession, sendVars, AccountsAgree
<1>. QED BY <1>1, <1>2, <1>3, <1>4, <1>5 DEF ReceiverStep

LEMMA ConsumedIsCommitted == AccountsAgree => rx.consumed <= tx.committed
BY SessionChain DEF AccountsAgree, TypeOK

LEMMA WriteCommits ==
  ASSUME AccountsAgree, NEW s \in Streams, NEW n \in 1..MaxPayload, Write(s, n)
  PROVE  /\ txNext' = [txNext EXCEPT ![s] = txNext[s] + n] /\ txNext[s] + n <= rxLimit[s]
         /\ tx'.committed = tx.committed + n /\ tx.committed + n <= rx.limit
         /\ n \in Nat /\ n > 0
         /\ UNCHANGED <<rxRead, rxLimit, rx>>
<1>1. /\ txNext[s] \in Nat /\ peerLimit[s] \in Nat /\ rxLimit[s] \in Nat
      /\ tx.committed \in Nat /\ tx.peerLimit \in Nat /\ rx.limit \in Nat
      /\ MaxPayload \in Nat /\ n \in Nat /\ n > 0
      /\ tx \in [committed : Nat, used : Nat, peerConsumed : Nat, peerLimit : Nat]
  BY CreditAssumption DEF AccountsAgree, TypeOK
<1>2. peerLimit[s] <= rxLimit[s] /\ tx.peerLimit <= rx.limit
  BY DEF AccountsAgree, StreamInOrder, SessionInOrder
<1>3. n <= Allowance(s)
  BY DEF Write
<1>4. txNext[s] + n <= peerLimit[s] /\ tx.committed + n <= tx.peerLimit
  BY <1>1, <1>3 DEF Allowance, Least
<1>5. tx'.committed = tx.committed + n
  <2> DEFINE committed == tx.committed + n
             used == tx.used + n
  <2>1. tx' = [tx EXCEPT !.committed = committed, !.used = used]
    BY DEF Write
  <2> HIDE DEF committed, used
  <2>2. tx'.committed = committed
    BY <1>1, <2>1
  <2>. QED BY <2>2 DEF committed
<1>6. /\ txNext' = [txNext EXCEPT ![s] = txNext[s] + n]
      /\ UNCHANGED <<rxRead, rxLimit, rx>>
  BY DEF Write, recvVars
<1>. QED BY <1>1, <1>2, <1>4, <1>5, <1>6

(* Every step is one of four.                                              *)
LEMMA StepKinds ==
  ASSUME AccountsAgree, [Next]_vars
  PROVE  \/ \E s \in Streams, n \in 1..MaxPayload : Write(s, n)
         \/ \E s \in Streams, high, read \in Nat : ReceiverMoves(s, high, read)
         \/ SessionMoves(0, 0) /\ UNCHANGED <<txNext, tx, rxRead, rxLimit>>
         \/ Quiet
<1>1. UNCHANGED vars => Quiet
  BY DEF vars, sendVars, recvVars, Quiet
<1>. QED BY <1>1, SenderCommits, ReceiverReturns DEF Next

LEMMA SessionWindowStep ==
  AccountsAgree /\ AccountsAgree' /\ [Next]_vars
    => [SessionWindowKept!Next]_(SessionWindowKept!vars)
<1> SUFFICES ASSUME AccountsAgree, AccountsAgree', [Next]_vars
             PROVE  [SessionWindowKept!Next]_(SessionWindowKept!vars)
  OBVIOUS
<1> USE DEF SessionWindowKept!Next, SessionWindowKept!vars, SessionWindowKept!Commit,
            SessionWindowKept!Return
<1>1. /\ tx.committed \in Nat /\ rx.consumed \in Nat /\ rx.limit \in Nat
      /\ tx'.committed \in Nat /\ rx'.consumed \in Nat /\ rx'.limit \in Nat
      /\ SessionCredit \in Nat
  BY CreditAssumption DEF AccountsAgree, TypeOK
<1>2. (rx.consumed <= tx.committed)'
  BY ConsumedIsCommitted, PTL
<1>3. CASE Quiet
  BY <1>3 DEF Quiet
<1>4. ASSUME NEW s \in Streams, NEW n \in 1..MaxPayload, Write(s, n)
      PROVE  SessionWindowKept!Commit
  BY <1>1, <1>4, WriteCommits
<1>5. ASSUME NEW c \in Nat, NEW n \in Nat, SessionMoves(c, n), UNCHANGED tx
      PROVE  SessionWindowKept!Return
  <2>1. rx'.consumed = rx.consumed + n
    BY <1>5 DEF SessionMoves
  <2>2. rx'.limit = rx.limit \/ (rx'.limit > rx.limit /\ rx'.limit <= rx'.consumed + SessionCredit)
    BY <1>5, <2>1 DEF SessionMoves, Grows
  <2>. QED BY <1>1, <1>2, <1>5, <2>1, <2>2
<1>6. ASSUME NEW s \in Streams, NEW high \in Nat, NEW read \in Nat, ReceiverMoves(s, high, read)
      PROVE  SessionWindowKept!Return
  <2>1. high - rxHigh[s] \in Nat /\ read - rxRead[s] \in Nat
    BY <1>6 DEF ReceiverMoves, AccountsAgree, TypeOK
  <2>2. SessionMoves(high - rxHigh[s], read - rxRead[s]) /\ UNCHANGED tx
    BY <1>6 DEF ReceiverMoves, sendVars
  <2>. QED BY <1>5, <2>1, <2>2
<1>. QED BY <1>3, <1>4, <1>5, <1>6, StepKinds

LEMMA StreamWindowStep ==
  AccountsAgree /\ [Next]_vars
    => \A s \in Streams : [StreamWindowKept(s)!Next]_(StreamWindowKept(s)!vars)
<1> SUFFICES ASSUME AccountsAgree, [Next]_vars, NEW s \in Streams
             PROVE  [StreamWindowKept(s)!Next]_(StreamWindowKept(s)!vars)
  OBVIOUS
<1> USE DEF StreamWindowKept!Next, StreamWindowKept!vars, StreamWindowKept!Commit,
            StreamWindowKept!Return
<1>1. /\ txNext \in [Streams -> Nat] /\ rxRead \in [Streams -> Nat]
      /\ rxLimit \in [Streams -> Nat] /\ StreamCredit \in Nat
      /\ txNext[s] \in Nat /\ rxRead[s] \in Nat /\ rxLimit[s] \in Nat
  BY CreditAssumption DEF AccountsAgree, TypeOK
<1>2. CASE Quiet \/ UNCHANGED <<txNext, rxRead, rxLimit>>
  BY <1>2 DEF Quiet
<1>3. ASSUME NEW t \in Streams, NEW n \in 1..MaxPayload, Write(t, n)
      PROVE  [StreamWindowKept(s)!Next]_(StreamWindowKept(s)!vars)
  BY <1>1, <1>3, WriteCommits
<1>4. ASSUME NEW t \in Streams, NEW high \in Nat, NEW read \in Nat, ReceiverMoves(t, high, read)
      PROVE  [StreamWindowKept(s)!Next]_(StreamWindowKept(s)!vars)
  <2>1. /\ rxRead' = [rxRead EXCEPT ![t] = read] /\ UNCHANGED txNext
        /\ rxRead[t] <= read /\ read <= high /\ high <= txNext[t]
        /\ Grows(rxLimit[t], rxLimit'[t], read + StreamCredit)
    BY <1>4 DEF ReceiverMoves, sendVars
  <2>2. PICK l \in Nat : rxLimit' = [rxLimit EXCEPT ![t] = l]
    BY <1>4 DEF ReceiverMoves
  <2>3. CASE t # s
    BY <1>1, <2>1, <2>2, <2>3
  <2>4. CASE t = s
    <3>1. rxRead'[s] = read /\ rxLimit'[s] = l /\ txNext'[s] = txNext[s]
      BY <1>1, <2>1, <2>2, <2>4
    <3>2. rxLimit[s] <= l /\ (l = rxLimit[s] \/ l <= read + StreamCredit)
      BY <1>1, <2>1, <2>4, <3>1 DEF Grows
    <3>3. StreamWindowKept(s)!Return
      BY <1>1, <2>1, <2>4, <3>1, <3>2
    <3>. QED BY <3>3
  <2>. QED BY <2>3, <2>4
<1>. QED BY <1>2, <1>3, <1>4, StepKinds

(* THE CONTRACT: the offsets of the Session are a window of Window: a byte *)
(* is committed only below a limit the receiver has granted, only          *)
(* committed bytes are consumed, and room is never owed for more than the  *)
(* size.                                                                   *)
THEOREM SessionWindowContract == Spec => SessionWindows
<1>1. Init => SessionWindowKept!Init
  BY DEF Init, SessionWindowKept!Init
<1>. QED BY <1>1, SessionWindowStep, AccountsAlwaysAgree, PTL
         DEF Spec, SessionWindows, SessionWindowKept!Spec

(* THE CONTRACT: so are the offsets of every Stream.                       *)
THEOREM StreamWindowContract == Spec => StreamWindows
<1>1. Init => \A s \in Streams : StreamWindowKept(s)!Init
  BY DEF Init, StreamWindowKept!Init
<1>. QED BY <1>1, StreamWindowStep, AccountsAlwaysAgree, PTL DEF Spec, StreamWindows
=============================================================================
