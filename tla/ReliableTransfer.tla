-------------------------- MODULE ReliableTransfer --------------------------
(***************************************************************************)
(* What the Transmission layer promises, whatever Carriers do: IDs are     *)
(* allocated in order; an ID may take effect at the receiver once it is    *)
(* allocated, and keeps that effect; the sender settles an ID only after   *)
(* it took effect; and the receiver may forget an ID only after it and     *)
(* every earlier one are settled, so nothing forgotten can be asked again. *)
(***************************************************************************)
EXTENDS Integers

CONSTANT MaxTx     \* bound: IDs that may be allocated

VARIABLES
  allocated,  \* the last allocated ID
  applied,    \* IDs that took effect at the receiver
  settled,    \* IDs the sender no longer needs to recover
  forgotten   \* the receiver keeps nothing of the IDs up to this one

vars == <<allocated, applied, settled, forgotten>>

Init == allocated = 0 /\ applied = {} /\ settled = {} /\ forgotten = 0

Allocate ==
  /\ allocated < MaxTx
  /\ allocated' = allocated + 1
  /\ UNCHANGED <<applied, settled, forgotten>>

Apply(id) ==
  /\ id \notin applied
  /\ applied' = applied \cup {id}
  /\ UNCHANGED <<allocated, settled, forgotten>>

Settle(id) ==
  /\ id \in applied \ settled
  /\ settled' = settled \cup {id}
  /\ UNCHANGED <<allocated, applied, forgotten>>

Forget(n) ==
  /\ n > forgotten /\ 1..n \subseteq settled
  /\ forgotten' = n
  /\ UNCHANGED <<allocated, applied, settled>>

Next == \/ Allocate
        \/ \E id \in 1..allocated : Apply(id) \/ Settle(id) \/ Forget(id)

Spec == Init /\ [][Next]_vars
=============================================================================
