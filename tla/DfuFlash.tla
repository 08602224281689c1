------------------------------ MODULE DfuFlash ------------------------------
(***************************************************************************)
(* The flash access layer of the firmware update: src/platform/dfu_flash.c *)
(* over a NOR flash.                                                       *)
(*                                                                         *)
(* The flash is an array of cells, the unit of one data packet of the DFU  *)
(* client.  A flash value f is a record                                    *)
(*    cells : what each cell holds                                         *)
(*    ready : the cells holding an image header whose not_ready bit is 0   *)
(*    bp    : the block protection level of the chip                       *)
(*    saved : g_flash_old_bp_lv, the level the last unlock found           *)
(* A C function that changes the flash is an operator that returns the set *)
(* of its outcomes, records [fl |-> the new flash value, ok |-> success];  *)
(* `mayFail' lets the chip fail the erase or the program.                  *)
(***************************************************************************)
EXTENDS Integers, Sequences, FiniteSets

CONSTANTS
  Images,       \* the image ids a package may hold: T_IMG_ID from OTA to IMAGE_MAX and the user data
  UserImages,   \* IMAGE_USER_DATA and IMAGE_USER_DATA2, updated in place
  Ota,          \* T_IMG_ID OTA: the header image of a bank, the least image id
  Length,       \* Length[i]: cells of the file of image i, header included
  FlashSize,    \* cells of the flash
  SectorSize,   \* cells of an erase sector: FLASH_NOR_SECTOR_SIZE
  BankBase,     \* BankBase[i]: dfu_get_temp_ota_bank_addr_by_img_id(i)
  BankSize,     \* BankSize[i]: dfu_get_temp_ota_bank_size_by_img_id(i)
  BankSwitch,   \* is_ota_support_bank_switch()
  Blank,        \* an erased cell
  Junk,         \* a cell whose content is garbage
  OldFw,        \* a cell of the firmware the bank held before
  Noise         \* the tag of a cell damaged before it reached the flash

Addr == 0 .. FlashSize - 1

(* Cell k of the file of image i; <<Noise, k>> is that cell damaged. *)
Payload == (Images \cup {Noise}) \X Nat
Content == Payload \cup {Blank, Junk, OldFw}

BpLevel == {"locked", "unlocked"}
Flash == [cells : [Addr -> Content], ready : SUBSET Addr,
          bp : BpLevel, saved : BpLevel \cup {"none"}]

ASSUME TagsAssumption ==
  /\ Noise \notin Images
  /\ Blank \notin Payload /\ Junk \notin Payload /\ OldFw \notin Payload
  /\ Blank # Junk /\ Blank # OldFw /\ Junk # OldFw

ASSUME LayoutAssumption ==
  /\ FlashSize \in Nat /\ SectorSize \in Nat \ {0}
  /\ BankSwitch \in BOOLEAN
  /\ UserImages \subseteq Images /\ Ota \in Images \ UserImages
  /\ Length \in [Images -> Nat \ {0}]
  /\ BankBase \in [Images -> Nat]
  /\ BankSize \in [Images -> Nat]
  /\ \A i \in Images : /\ BankBase[i] \in Addr /\ BankBase[i] % SectorSize = 0
                       /\ BankBase[i] + BankSize[i] <= FlashSize

-----------------------------------------------------------------------------
(* Block protection.                                                       *)

unlock_flash_bp_all(f) == [f EXCEPT !.saved = f.bp, !.bp = "unlocked"]

lock_flash_bp(f) == IF f.saved = "none" THEN f ELSE [f EXCEPT !.bp = f.saved]

-----------------------------------------------------------------------------
(* The chip: erase, program and read back.                                 *)

SectorFirst(a) == a - (a % SectorSize)
Sector(a) == SectorFirst(a) .. SectorFirst(a) + SectorSize - 1

Overwritten(f, a, c) ==
  [f EXCEPT !.cells = [b \in Addr |-> IF b \in Sector(a) THEN c ELSE f.cells[b]],
            !.ready = f.ready \ Sector(a)]

(* An erase that fails leaves its sector as it was, or half erased. *)
flash_erase_sector(f, a, mayFail) ==
  {[fl |-> Overwritten(f, a, Blank), ok |-> TRUE]}
    \cup (IF mayFail THEN {[fl |-> f, ok |-> FALSE],
                           [fl |-> Overwritten(f, a, Junk), ok |-> FALSE]}
                     ELSE {})

(* Programming clears bits only: a cell that is neither blank nor already  *)
(* equal to the data ends up holding garbage.                              *)
Programmed(f, a, d) ==
  [f EXCEPT !.cells =
     [b \in Addr |->
        IF b \in a .. a + Len(d) - 1
          THEN IF f.cells[b] \in {Blank, d[b - a + 1]} THEN d[b - a + 1] ELSE Junk
          ELSE f.cells[b]]]

(* The read back of dfu_write: a header still marked ready does not match  *)
(* the buffer, whose not_ready bit dfu_update has set.                     *)
ReadsBack(f, a, d) ==
  \A b \in a .. a + Len(d) - 1 : f.cells[b] = d[b - a + 1] /\ b \notin f.ready

(* A chunk that fails to program or to verify ends the write: the cells    *)
(* before it are programmed, its own hold garbage.                         *)
dfu_write(f, a, d, mayFail) ==
  {[fl |-> Programmed(f, a, d), ok |-> ReadsBack(Programmed(f, a, d), a, d)]}
    \cup (IF mayFail
            THEN {[fl |-> [Programmed(f, a, SubSeq(d, 1, j))
                             EXCEPT !.cells[a + j] = Junk], ok |-> FALSE]
                    : j \in 0 .. Len(d) - 1}
            ELSE {})

-----------------------------------------------------------------------------
(* dfu_update and its error path.                                          *)

(* check_dfu_update_image_length: its possible results.  At the front of   *)
(* a bank the length is read from the header in the buffer; a cell that is *)
(* no header there announces any length.                                   *)
check_dfu_update_image_length(img, offset, d) ==
  IF offset + Len(d) > BankSize[img] THEN {FALSE}
  ELSE IF offset # 0 THEN {TRUE}
  ELSE IF d[1] \in Images \X {0} THEN {Length[d[1][1]] <= BankSize[img]}
  ELSE BOOLEAN

(* Mutant: the sector the write starts in is erased, not the one it enters. *)
SectorToEraseBehind(start, n) ==
  IF start % SectorSize = 0 \/ start \div SectorSize # (start + n) \div SectorSize
    THEN {start} ELSE {}

(* The sector dfu_update erases before it programs: the one the write      *)
(* starts, or else the one it crosses into.                                *)
SectorToErase(start, n) ==
  IF start % SectorSize = 0 THEN {start}
  ELSE IF /\ start \div SectorSize # (start + n) \div SectorSize
          /\ (start + n) % SectorSize # 0
         THEN {start + n}
         ELSE {}

(* Every path but the one of a failed erase ends in lock_flash_bp.         *)
dfu_update(f, img, offset, total_offset, d, mayFail) ==
  LET start  == BankBase[img] + offset + total_offset
      open   == unlock_flash_bp_all(f)
      erased == IF SectorToErase(start, Len(d)) = {}
                  THEN {[fl |-> open, ok |-> TRUE]}
                  ELSE UNION {flash_erase_sector(open, a, mayFail)
                                : a \in SectorToErase(start, Len(d))}
      checks == check_dfu_update_image_length(img, offset + total_offset, d)
  IN {[fl |-> f, ok |-> FALSE] : c \in checks \ {TRUE}}
       \cup IF TRUE \notin checks THEN {}
            ELSE {e \in erased : ~e.ok}
                   \cup {[fl |-> lock_flash_bp(w.fl), ok |-> w.ok]
                           : w \in UNION {dfu_write(e.fl, start, d, mayFail)
                                            : e \in {x \in erased : x.ok}}}

dfu_flash_check_blank(f, img, offset) ==
  \A a \in Addr \cap (BankBase[img] + offset .. BankBase[img] + offset + SectorSize - 1) :
    f.cells[a] = Blank

(* Up to three erases, each checked blank.  The address is that of the     *)
(* bank plus `offset': the place of the image inside the bank is not added.*)
dfu_flash_erase_sector_with_retry(f, img, offset, mayFail) ==
  {[fl |-> lock_flash_bp(e.fl), ok |-> dfu_flash_check_blank(e.fl, img, offset)]
     : e \in flash_erase_sector(unlock_flash_bp_all(f), BankBase[img] + offset, mayFail)}

-----------------------------------------------------------------------------
(* Integrity check and activation.                                         *)

HoldsFile(f, a, i) ==
  \A k \in 0 .. Length[i] - 1 : a + k \in Addr /\ f.cells[a + k] = <<i, k>>

HoldsOldFw(f, a) ==
  \E i \in Images : /\ a = BankBase[i]
                    /\ \A k \in 0 .. BankSize[i] - 1 : f.cells[a + k] = OldFw
(* Mutant: only the header is looked at.                                   *)
dfu_check_sha256_header(f, a) == \E i \in Images : f.cells[a] = <<i, 0>>

(* dfu_check_sha256: the hash covers the image whose header is at a,       *)
(* whatever the image is.                                                  *)
dfu_check_sha256(f, a) == HoldsOldFw(f, a) \/ \E i \in Images : HoldsFile(f, a, i)

dfu_check_checksum(f, img, offset) ==
  dfu_check_sha256(f, BankBase[img] + (IF BankSwitch THEN 0 ELSE offset))

(* dfu_set_image_ready for each header of a set: rewrite it with           *)
(* not_ready = 0.  An erased header reads as ones, and is no longer blank. *)
dfu_set_images_ready(f, headers) ==
  IF headers = {} THEN f
  ELSE lock_flash_bp([unlock_flash_bp_all(f) EXCEPT
         !.ready = f.ready \cup headers,
         !.cells = [a \in Addr |-> IF a \in headers /\ f.cells[a] = Blank
                                     THEN Junk ELSE f.cells[a]]])
=============================================================================
