------------------------------- MODULE MCPrivacy -------------------------------
(***************************************************************************)
(* The privacy manager on small instances.  The addresses are model        *)
(* values, interchangeable wherever no liveness property is checked.       *)
(***************************************************************************)
EXTENDS Privacy, TLC

Addresses == Permutations(Devices)
=============================================================================
