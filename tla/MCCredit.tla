------------------------------ MODULE MCCredit ------------------------------
(* Credit on small instances.                                              *)
EXTENDS Credit, TLC

CONSTANTS s1, s2

(* What the applications may do to the Streams besides writing and reading.*)
AllEndAnyWay == [s \in Streams |-> {"fin", "reset", "stop", "close"}]
OneReset == s1 :> {"reset"} @@ s2 :> {}
=============================================================================
