------------------------------- MODULE MCProbe -------------------------------
(***************************************************************************)
(* Instances of Probe for TLC: two nodes whose capabilities overlap, each  *)
(* with a bit that the other lacks.                                        *)
(***************************************************************************)
EXTENDS Probe, TLC

CONSTANTS a, b

MCNode == {a, b}
MCCapability == (a :> {1, 2}) @@ (b :> {2, 3})
=============================================================================
