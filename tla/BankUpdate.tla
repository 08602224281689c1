----------------------------- MODULE BankUpdate -----------------------------
(***************************************************************************)
(* What a device with two firmware banks promises of an update: it runs    *)
(* its old firmware until every image of one package is staged in the      *)
(* other bank, and changes over in one step, whatever is rewritten, lost   *)
(* or cut off before.                                                      *)
(***************************************************************************)
CONSTANTS
  Images,    \* the images of the bank
  Ota,       \* the one whose header the boot loader looks at
  Packages   \* the sets of images that are updated together, Ota among them

VARIABLES
  staged,    \* the images complete in the bank and marked ready
  runs       \* the firmware a restart would run: "old" or "new"

Init == staged = {} /\ runs = "old"

(* Images are rewritten, and no longer staged; the running firmware stays. *)
Rewrite == runs = "old" /\ staged' \in SUBSET staged /\ UNCHANGED runs

(* Images are staged, but not the one that decides.                        *)
Stage ==
  /\ runs = "old"
  /\ staged' \in SUBSET (Images \ {Ota}) /\ staged \subseteq staged'
  /\ UNCHANGED runs

ChangeOver ==
  /\ runs = "old" /\ runs' = "new"
  /\ staged' \in SUBSET Images /\ staged \subseteq staged'
  /\ \E P \in Packages : P \subseteq staged'

Next == Rewrite \/ Stage \/ ChangeOver

Spec == Init /\ [][Next]_<<staged, runs>>
=============================================================================
