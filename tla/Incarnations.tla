---------------------------- MODULE Incarnations ----------------------------
(***************************************************************************)
(* What one endpoint of a Session promises about the incarnations of its   *)
(* Carriers: the first one accepted of an ID has generation 0, each later  *)
(* one a higher generation than all before it, and only the highest one is *)
(* ever live.  Only a new Session begins a new history.                    *)
(***************************************************************************)
EXTENDS Integers

CONSTANTS
  Carriers,
  Generations,   \* a set of naturals
  NoGeneration   \* no incarnation

VARIABLES
  highest,       \* per Carrier, the highest accepted generation, if any
  live           \* per Carrier, the generation of its live incarnation, if any

Nothing == [c \in Carriers |-> NoGeneration]

Init == highest = Nothing /\ live = Nothing

Accept(c, g) ==
  /\ IF highest[c] = NoGeneration THEN g = 0 ELSE g > highest[c]
  /\ highest' = [highest EXCEPT ![c] = g]
  /\ live' = [live EXCEPT ![c] = g]

Lose(C) ==
  /\ live' = [c \in Carriers |-> IF c \in C THEN NoGeneration ELSE live[c]]
  /\ UNCHANGED highest

Renew ==
  /\ live = Nothing /\ live' = Nothing
  /\ highest' = Nothing

Next ==
  \/ \E c \in Carriers, g \in Generations : Accept(c, g)
  \/ \E C \in SUBSET Carriers : Lose(C)
  \/ Renew

Spec == Init /\ [][Next]_<<highest, live>>
=============================================================================
