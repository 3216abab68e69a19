------------------------------ MODULE MCStream ------------------------------
(***************************************************************************)
(* Instances of Stream for TLC: the real preheader, with payloads that are *)
(* one byte shorter than it, the shortest that PayloadAssumption allows.   *)
(***************************************************************************)
EXTENDS Stream

MCHeader == <<255, 0, 28, 29, 30, 31, 32, 255>>
MCByte == {0, 28, 29, 30, 31, 32, 255}

\* Payloads that continue the closing 0xFF as a preheader, up to its last byte and
\* with it.
MCFrames == {MCHeader \o p : p \in {<<0, 28, 29, 30, 31, 32, 0>>, <<0, 28, 29, 30, 31, 32, 255>>}}
MCSize == 15
=============================================================================
