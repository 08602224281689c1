----------------------------- MODULE DfuService -----------------------------
(***************************************************************************)
(* The DFU GATT service: src/ble/profile/server/dfu_service.c.             *)
(*                                                                         *)
(* The handlers of the data characteristic and of the control point run to *)
(* completion in the upper stack task.  The integrity check runs in the    *)
(* application's task, which takes messages from a FIFO (ioQueue); it      *)
(* reads the flash for seconds while the upper stack runs on, so it is two *)
(* actions.                                                                *)
(*                                                                         *)
(* Each handler is an operator with the fields of its request as           *)
(* parameters that says how the service's own state changes; DfuApp adds   *)
(* what the application does in its callbacks.  `link' is the BLE          *)
(* connection: a notification sent without one is dropped.                 *)
(***************************************************************************)
EXTENDS DfuFlash

CONSTANTS
  BufSize,     \* DFU_TEMP_BUFFER_SIZE in cells
  StreamSize,  \* max_buffer_size without buffer check: BufSize less a part packet
  MaxTemp,     \* the entries of temp_image_info
  NoImage      \* the image id of zeroed memory

VARIABLES
  image_id,             \* g_dfu_para.ctrl_header.image_id
  image_total_length,   \* g_dfu_para.image_total_length
  cur_offset,           \* g_dfu_para.cur_offset
  tmp_buf,              \* ota_temp_buffer_head; g_ota_tmp_buf_used_size is its length
  dfu_resend_offset,
  buffer_check_en,
  is_ota_procedure,
  temp_image_num,
  temp_image_info,
  valid_bitmap,         \* the images whose bit is set
  checking,             \* the arguments of the check in progress, if any
  flash,
  notif,                \* notifications under way to the client
  link                  \* the BLE connection: "up" or "down"

headVars == <<image_id, image_total_length>>
xferVars == <<cur_offset, tmp_buf, dfu_resend_offset>>
modeVars == <<buffer_check_en, is_ota_procedure>>
tempVars == <<temp_image_num, temp_image_info>>
checkVars == <<valid_bitmap, checking>>
serviceVars == <<headVars, xferVars, modeVars, tempVars, checkVars>>

ASSUME BufferAssumption ==
  /\ BufSize \in Nat \ {0} /\ BufSize <= SectorSize
  /\ StreamSize \in 1 .. BufSize
  /\ MaxTemp \in Nat \ {0}
  /\ NoImage \notin Images

Notification ==
  [op : {"TARGET_INFO", "BUFFER_CHECK_EN", "START", "BUFFER_CRC", "VALID_FW", "CONN_PARA"},
   status : {"SUCCESS", "INVALID_PARAMETER", "LENGTH_ERROR", "CRC_ERROR", "PROG_ERROR",
             "ERASE_ERROR", "FAIL_OPERATION"},
   offset : Nat]

NoInfo == [id |-> NoImage, size |-> 0, offset |-> 0]
TempInfo == [id : Images \cup {NoImage}, size : Nat, offset : Nat]

used == Len(tmp_buf)

(* server_send_data *)
Notify(op, status, offset) ==
  notif' = IF link = "up"
             THEN Append(notif, [op |-> op, status |-> status, offset |-> offset])
             ELSE notif

(* The place of the current image in the temp bank: the entry that         *)
(* temp_image_num selects, whatever the current image is.                  *)
CurrentImageOffset == temp_image_info[temp_image_num].offset

ServiceInit ==
  /\ image_id = NoImage /\ image_total_length = 0
  /\ cur_offset = 0 /\ tmp_buf = << >> /\ dfu_resend_offset = 0
  /\ buffer_check_en = FALSE /\ is_ota_procedure = FALSE
  /\ temp_image_num = 0 /\ temp_image_info = [n \in 0 .. MaxTemp |-> NoInfo]
  /\ valid_bitmap = {} /\ checking = {}

(* A restart zeroes the RAM.                                               *)
ServiceReset ==
  /\ image_id' = NoImage /\ image_total_length' = 0
  /\ cur_offset' = 0 /\ tmp_buf' = << >> /\ dfu_resend_offset' = 0
  /\ buffer_check_en' = FALSE /\ is_ota_procedure' = FALSE
  /\ temp_image_num' = 0 /\ temp_image_info' = [n \in 0 .. MaxTemp |-> NoInfo]
  /\ valid_bitmap' = {} /\ checking' = {}

-----------------------------------------------------------------------------
(* Control point: dfu_service_handle_control_point_req.                    *)

ReportTargetInfo(img) ==
  /\ image_id' = img
  /\ cur_offset' = 0
  /\ Notify("TARGET_INFO", "SUCCESS", 0)
  /\ UNCHANGED <<image_total_length, tmp_buf, dfu_resend_offset, modeVars, tempVars,
                 checkVars, flash>>

BufferCheckEn ==
  /\ buffer_check_en' = TRUE
  /\ Notify("BUFFER_CHECK_EN", "SUCCESS", 0)
  /\ UNCHANGED <<headVars, xferVars, is_ota_procedure, tempVars, checkVars, flash>>
(* Mutant: the size of the image before is not added.                      *)
RecordTempImageOver(img) ==
  temp_image_info' =
    IF img \in UserImages \/ BankSwitch THEN temp_image_info
    ELSE [temp_image_info EXCEPT ![temp_image_num] =
            [id |-> img, size |-> Length[img], offset |-> 0]]

(* START_DFU: the header of the request replaces the one of g_dfu_para     *)
(* before its fields are checked.                                          *)
RecordTempImage(img) ==
  temp_image_info' =
    IF img \in UserImages \/ BankSwitch THEN temp_image_info
    ELSE [temp_image_info EXCEPT ![temp_image_num] =
            [id |-> img, size |-> Length[img],
             offset |-> IF temp_image_num = 0 THEN 0
                        ELSE temp_image_info[temp_image_num - 1].offset
                               + temp_image_info[temp_image_num - 1].size]]

StartDfu(img, icTypeOk) ==
  /\ image_id' = img
  /\ image_total_length' = Length[img]
  /\ IF icTypeOk
       THEN /\ is_ota_procedure' = TRUE
            /\ RecordTempImage(img)
            /\ Notify("START", "SUCCESS", 0)
       ELSE /\ Notify("START", "INVALID_PARAMETER", 0)
            /\ UNCHANGED <<is_ota_procedure, temp_image_info>>
  /\ UNCHANGED <<xferVars, buffer_check_en, temp_image_num, checkVars, flash>>
(* Mutant: the resend point is not moved back.                             *)
ReceiveFwImageInfoNoReset(img, offset) ==
  /\ image_id' = img
  /\ cur_offset' = offset
  /\ IF offset = 0 THEN tmp_buf' = << >> ELSE UNCHANGED tmp_buf
  /\ UNCHANGED <<image_total_length, dfu_resend_offset, modeVars, tempVars, checkVars, flash,
                 notif>>

(* RECEIVE_FW_IMAGE_INFO: the offset is the client's; only offset 0 also   *)
(* empties the buffer and moves the resend point.                          *)
ReceiveFwImageInfo(img, offset) ==
  /\ image_id' = img
  /\ cur_offset' = offset
  /\ IF offset = 0 THEN tmp_buf' = << >> /\ dfu_resend_offset' = 0
                   ELSE UNCHANGED <<tmp_buf, dfu_resend_offset>>
  /\ UNCHANGED <<image_total_length, modeVars, tempVars, checkVars, flash, notif>>

(* VALID_FW only names the image: the check is the application's to start. *)
ValidFw(img) ==
  /\ image_id' = img
  /\ UNCHANGED <<image_total_length, xferVars, modeVars, tempVars, checkVars, flash, notif>>

(* ACTIVE_IMAGE_RESET, dfu_service_handle_active_image: with bank switch   *)
(* the images of the bitmap, without it those of the temp bank; then the   *)
(* user data of the bitmap.  With bank switch OTA is the last of its bank. *)
BankHeader(i) == BankBase[i]
TempHeader(n) == BankBase[temp_image_info[n].id] + temp_image_info[n].offset
TempEntries == {n \in 0 .. MaxTemp : n < temp_image_num}

BankHeaders == IF BankSwitch THEN {BankHeader(i) : i \in valid_bitmap \ UserImages}
                             ELSE {TempHeader(n) : n \in TempEntries}
UserHeaders == {BankHeader(i) : i \in valid_bitmap \cap UserImages}
ReadyHeaders == BankHeaders \cup UserHeaders
(* Mutant: OTA is the first of its bank.                                   *)
ReadyPrefixesOtaFirst ==
  {H \in SUBSET ReadyHeaders : H # {} => BankHeader(Ota) \in H}

(* The headers an interrupted activation may have reached.                 *)
ReadyPrefixes ==
  {H \in SUBSET ReadyHeaders :
     /\ H \cap UserHeaders # {} => BankHeaders \subseteq H
     /\ IF BankSwitch THEN BankHeader(Ota) \in H => BankHeaders \subseteq H
        ELSE \A n \in TempEntries : TempHeader(n) \in H =>
               \A m \in 0 .. n : TempHeader(m) \in H}

ActiveImageReset ==
  LET f == dfu_set_images_ready(flash, ReadyHeaders)
  IN /\ flash' = IF BankSwitch THEN f ELSE unlock_flash_bp_all(f)
     /\ UNCHANGED <<serviceVars, notif>>

(* SYSTEM_RESET: a header of the current image that is not marked          *)
(* not_ready goes, if the chip is not protected; the restart follows.      *)
SystemReset ==
  /\ flash' = IF /\ image_id \in Images \ UserImages
                 /\ BankBase[image_id] \in flash.ready /\ flash.bp = "unlocked"
                THEN Overwritten(flash, BankBase[image_id], Blank) ELSE flash
  /\ UNCHANGED <<serviceVars, notif>>

-----------------------------------------------------------------------------
(* REPORT_BUFFER_CRC: dfu_buffer_check_process.                            *)

(* Unsigned distance: an offset behind the resend point counts as far      *)
(* beyond it.                                                              *)
BeyondResend(offset, n) ==
  offset < dfu_resend_offset \/ offset - dfu_resend_offset >= n

FlushBuffer(status) ==
  /\ tmp_buf' = << >>
  /\ Notify("BUFFER_CRC", status, cur_offset)
  /\ UNCHANGED <<cur_offset, dfu_resend_offset, flash>>

BufferWritten(fl) ==
  /\ flash' = fl
  /\ cur_offset' = cur_offset + used
  /\ dfu_resend_offset' = IF BeyondResend(cur_offset + used, SectorSize)
                            THEN dfu_resend_offset + SectorSize ELSE dfu_resend_offset
  /\ tmp_buf' = << >>
  /\ Notify("BUFFER_CRC", "SUCCESS", cur_offset + used)

(* The erases after a failed write: the sector at the resend point, and    *)
(* the next one if the write was beyond it.                                *)
EraseBack(fl, mayFail) ==
  LET first == dfu_flash_erase_sector_with_retry(fl, image_id, dfu_resend_offset, mayFail)
  IN IF BeyondResend(cur_offset, SectorSize + 1)
       THEN {e \in first : ~e.ok} \cup
              UNION {dfu_flash_erase_sector_with_retry(e.fl, image_id,
                        dfu_resend_offset + SectorSize, mayFail) : e \in {x \in first : x.ok}}
       ELSE first
(* Mutants: the answer carries the offset before the rollback; the offset  *)
(* is rolled back a sector too far; it is not rolled back.                 *)
BufferRolledBackOldAnswer(fl, erased) ==
  /\ flash' = fl
  /\ cur_offset' = dfu_resend_offset
  /\ tmp_buf' = << >>
  /\ Notify("BUFFER_CRC", IF erased THEN "PROG_ERROR" ELSE "ERASE_ERROR", cur_offset)
  /\ UNCHANGED dfu_resend_offset

BufferRolledBackTooFar(fl, erased) ==
  /\ flash' = fl
  /\ cur_offset' = dfu_resend_offset - SectorSize
  /\ tmp_buf' = << >>
  /\ Notify("BUFFER_CRC", IF erased THEN "PROG_ERROR" ELSE "ERASE_ERROR", dfu_resend_offset)
  /\ UNCHANGED dfu_resend_offset

BufferNotRolledBack(fl, erased) ==
  /\ flash' = fl
  /\ tmp_buf' = << >>
  /\ Notify("BUFFER_CRC", IF erased THEN "PROG_ERROR" ELSE "ERASE_ERROR", cur_offset)
  /\ UNCHANGED <<cur_offset, dfu_resend_offset>>

BufferRolledBack(fl, erased) ==
  /\ flash' = fl
  /\ cur_offset' = dfu_resend_offset
  /\ tmp_buf' = << >>
  /\ Notify("BUFFER_CRC", IF erased THEN "PROG_ERROR" ELSE "ERASE_ERROR", dfu_resend_offset)
  /\ UNCHANGED dfu_resend_offset

BufferCheckProcess(size, crcOk, mayFail) ==
  /\ IF size > BufSize THEN FlushBuffer("INVALID_PARAMETER")
     ELSE IF used # size /\ cur_offset + used # image_total_length
       THEN FlushBuffer("LENGTH_ERROR")
     ELSE IF ~crcOk THEN FlushBuffer("CRC_ERROR")
     ELSE \E u \in dfu_update(flash, image_id, cur_offset, CurrentImageOffset, tmp_buf, mayFail) :
            IF u.ok THEN BufferWritten(u.fl)
            ELSE \E e \in EraseBack(u.fl, mayFail) : BufferRolledBack(e.fl, e.ok)
  /\ UNCHANGED <<headVars, modeVars, tempVars, checkVars>>

-----------------------------------------------------------------------------
(* Data packets: dfu_service_handle_packet_req.  Each way of handling one  *)
(* says with `reboot' whether it ends in dfu_fw_reboot(false).             *)

PacketIgnored(reboot) == ~is_ota_procedure /\ ~reboot /\ UNCHANGED <<xferVars, flash>>

PacketBuffered(cell, reboot) ==
  /\ is_ota_procedure /\ buffer_check_en
  /\ reboot = (used + 1 > BufSize)
  /\ tmp_buf' = IF reboot THEN tmp_buf ELSE Append(tmp_buf, cell)
  /\ UNCHANGED <<cur_offset, dfu_resend_offset, flash>>

(* Without buffer check the packet that fills the buffer, or the last one  *)
(* of the image, is written at once, and an error restarts the device.     *)
StreamWritten(data, reboot, mayFail) ==
  \E u \in dfu_update(flash, image_id, cur_offset, CurrentImageOffset, data, mayFail) :
    /\ flash' = u.fl
    /\ reboot = ~u.ok
    /\ cur_offset' = IF u.ok THEN cur_offset + Len(data) ELSE cur_offset
    /\ tmp_buf' = IF u.ok THEN << >> ELSE data

PacketStreamed(cell, reboot, mayFail) ==
  /\ is_ota_procedure /\ ~buffer_check_en
  /\ LET data == Append(tmp_buf, cell) IN
     IF Len(data) > StreamSize \/ cur_offset + Len(data) > image_total_length
       THEN reboot /\ UNCHANGED <<cur_offset, tmp_buf, flash>>
     ELSE IF Len(data) = StreamSize \/ cur_offset + Len(data) = image_total_length
       THEN StreamWritten(data, reboot, mayFail)
     ELSE ~reboot /\ tmp_buf' = data /\ UNCHANGED <<cur_offset, flash>>
  /\ UNCHANGED dfu_resend_offset

PacketReq(cell, reboot, mayFail) ==
  /\ \/ PacketIgnored(reboot)
     \/ PacketBuffered(cell, reboot)
     \/ PacketStreamed(cell, reboot, mayFail)
  /\ UNCHANGED <<headVars, modeVars, tempVars, checkVars, notif>>

-----------------------------------------------------------------------------
(* dfu_service_handle_valid_fw, in the application's task.                 *)

BeginValidFw ==
  /\ checking' = {IF BankSwitch \/ image_id \in UserImages
                    THEN [img |-> image_id, off |-> 0]
                    ELSE [img |-> temp_image_info[temp_image_num].id,
                          off |-> CurrentImageOffset]}
  /\ UNCHANGED <<headVars, xferVars, modeVars, tempVars, valid_bitmap, flash, notif>>
(* Mutant: a failed check is not answered.                                 *)
EndValidFwSilent ==
  \E c \in checking :
    LET pass == c.img \in Images /\ dfu_check_checksum(flash, c.img, c.off)
    IN /\ checking' = {}
       /\ valid_bitmap' = IF pass THEN valid_bitmap \cup {c.img} ELSE valid_bitmap
       /\ IF pass THEN Notify("VALID_FW", "SUCCESS", 0) ELSE UNCHANGED notif
       /\ UNCHANGED <<headVars, xferVars, modeVars, tempVars, flash>>

(* An image id without a bank fails; the image id is read again to decide  *)
(* whether an entry of the temp bank is complete.                          *)
EndValidFw ==
  \E c \in checking :
    LET pass == c.img \in Images /\ dfu_check_checksum(flash, c.img, c.off)
    IN /\ checking' = {}
       /\ valid_bitmap' = IF pass THEN valid_bitmap \cup {c.img} ELSE valid_bitmap
       /\ temp_image_num' = IF pass /\ ~BankSwitch /\ image_id \notin UserImages
                              THEN temp_image_num + 1 ELSE temp_image_num
       /\ Notify("VALID_FW", IF pass THEN "SUCCESS" ELSE "CRC_ERROR", 0)
       /\ UNCHANGED <<headVars, xferVars, modeVars, temp_image_info, flash>>
=============================================================================
