-------------------------------- MODULE MCGls --------------------------------
(***************************************************************************)
(* Instances of the glucose service for TLC.                               *)
(***************************************************************************)
EXTENDS Gls

(* Two times of measurement, and a context with one of them.               *)
MixedSamples == {[time |-> 0, ctxt |-> TRUE], [time |-> 1, ctxt |-> FALSE]}
=============================================================================
