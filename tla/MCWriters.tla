------------------------------ MODULE MCWriters ------------------------------
(***************************************************************************)
(* The credit of two Streams (Credit) and the writers that wait for it     *)
(* (Writers), on small instances: CreditTwo.cfg gives the constants their  *)
(* values.  They share no state: "part" says which of them a behaviour is  *)
(* of, and the other keeps its initial state.                              *)
(***************************************************************************)
EXTENDS MCCredit

CONSTANTS
  w1, w2,
  Waiters, WaitCredit,
  Bulk, QueueLimit, QueueReserve, PendingLimit, PerPermit, WakeBatch, DispatchBatch, Quantum,
  Lengths, MaxWrites, MaxLosses

VARIABLES
  part,
  writer, line, ready, again, assigned, owed, path, writes, losses, forfeited

writerVars == <<writer, line, ready, again, assigned, owed, path, writes, losses, forfeited>>

Wait == INSTANCE Writers WITH Writers <- Waiters, SessionCredit <- WaitCredit

(* A frame, a permit, a batch and a quantum are something.                 *)
ASSUME WritersAssumption ==
  /\ IsFiniteSet(Waiters) /\ Bulk \subseteq Waiters
  /\ {WaitCredit, QueueLimit, QueueReserve, PendingLimit, MaxWrites, MaxLosses} \subseteq Nat
  /\ {PerPermit, WakeBatch, DispatchBatch, Quantum} \subseteq Nat \ {0}
  /\ Lengths \subseteq Nat \ {0}

BothInit == part \in {"credit", "writers"} /\ Init /\ Wait!Init

BothNext ==
  \/ part = "credit" /\ UNCHANGED <<part, writerVars>> /\ Next
  \/ part = "writers" /\ UNCHANGED <<part, vars>> /\ Wait!Next

(* The fairness of each module, in the behaviours of its part.             *)
BothFair ==
  \/ part = "credit" /\ Fairness
  \/ part = "writers" /\ Wait!Fairness

BothSpec == BothInit /\ [][BothNext]_<<part, vars, writerVars>> /\ BothFair

-----------------------------------------------------------------------------

(* Credit: a receiver never refuses what its peer sends.  Writers: what    *)
(* the Writes commit stays within the credit and the table they wait for,  *)
(* however many are woken, and a writer is in line once.                   *)
LimitsRespected == NeverRefused /\ Wait!TypeOK /\ Wait!LimitsHold

(* Credit: what an application writes is committed, whatever windows are   *)
(* lost, as long as the readers read.                                      *)
CreditSuffices == part = "credit" => WritersProceed

(* Writers: a Write that waits for credit, for room in the queue or for    *)
(* room in the table ends, unless a deadline expired in the hands of a     *)
(* writer that had been signalled for credit or for the queue.             *)
WritersFed == part = "writers" => Wait!WritersFed
=============================================================================
