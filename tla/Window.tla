------------------------------- MODULE Window -------------------------------
(***************************************************************************)
(* What a credit window promises, of a Stream or of a Session: a byte is   *)
(* committed only below a limit the receiver has granted, only committed   *)
(* bytes are consumed, and the receiver never owes room for more than Size *)
(* bytes that are not consumed.                                            *)
(***************************************************************************)
EXTENDS Integers

CONSTANTS
  Size,    \* the most bytes that may be unconsumed
  First    \* the limit at the start

VARIABLES committed, consumed, limit

vars == <<committed, consumed, limit>>

Init == committed = 0 /\ consumed = 0 /\ limit = First

Commit ==
  /\ committed' \in Int /\ committed' > committed /\ committed' <= limit
  /\ UNCHANGED <<consumed, limit>>

(* Consumed bytes may be granted again in the same step.                   *)
Return ==
  /\ consumed' \in Int /\ consumed' >= consumed /\ consumed' <= committed
  /\ limit' \in Int /\ limit' >= limit /\ (limit' = limit \/ limit' <= consumed' + Size)
  /\ UNCHANGED committed

Next == Commit \/ Return

Spec == Init /\ [][Next]_vars
=============================================================================
