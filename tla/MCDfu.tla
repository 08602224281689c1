-------------------------------- MODULE MCDfu --------------------------------
(***************************************************************************)
(* Instances of DfuSystem for TLC.  The images are model values; a layout  *)
(* is given by functions of them.                                          *)
(***************************************************************************)
EXTENDS DfuSystem

CONSTANTS App, Data   \* the model values of an application image and of the user data

(* Two banks: each image has its own place, aligned to a sector of 4.      *)
BankLength == [i \in Images |-> IF i = Ota THEN 3 ELSE 7]
BankBases  == [i \in Images |-> IF i = Ota THEN 0 ELSE 4]
BankSizes  == [i \in Images |-> IF i = Ota THEN 4 ELSE 8]

OnePackage == {<<App, Ota>>}
TwoPackages == {<<App, Ota>>, <<Ota>>}

(* One temp bank: the images follow one another from its start; the user   *)
(* data has a place of its own after it.                                   *)
TempLength == [i \in Images |-> IF i = App THEN 3 ELSE 2]
TempBases  == [i \in Images |-> IF i \in UserImages THEN 12 ELSE 0]
TempSizes  == [i \in Images |-> IF i \in UserImages THEN 4 ELSE 12]

TempPackage == {<<App, Ota>>}
UserPackage == {<<Data, App, Ota>>}
=============================================================================
