---------------------------- MODULE MCCarriers ----------------------------
(* Carriers on a small instance.                                           *)
EXTENDS Carriers

CONSTANTS k1, k2
=============================================================================
