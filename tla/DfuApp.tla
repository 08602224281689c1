------------------------------- MODULE DfuApp -------------------------------
(***************************************************************************)
(* The application around the DFU service: src/dfu/dfu_application.c and   *)
(* dfu_main.c for the OTA mode of the boot flow (NormalOta), and           *)
(* src/app/silent_ota/silent_ota_application.c, which is the same without  *)
(* timers and without a restart on link loss.                              *)
(*                                                                         *)
(* Two tasks run here.  The upper stack task runs the write callbacks of   *)
(* the service.  The application's task takes GAP events and the VALID_FW  *)
(* message from ioQueue in order.  The link, the advertiser and the        *)
(* connection parameter procedure belong to the BLE stack, which is not    *)
(* under src/ and is modelled from how this code uses it.                  *)
(***************************************************************************)
EXTENDS DfuService

CONSTANTS
  NormalOta,      \* the OTA mode of dfu_main, with its timers
  LinkLossReset,  \* OTP->ota_link_loss_reset
  IoQueueFills    \* a post may find dfu_io_queue_handle full

VARIABLES
  ioQueue,                \* dfu_io_queue_handle
  advertising,            \* the advertiser runs
  active_reset_pending,   \* rtk_dfu_active_reset_pending
  active_reset_mode,      \* rtk_active_reset_mode: restart into the OTA mode
  active_header,          \* the running bank still has its OTA header
  conn_para_update_in_progress,
  paramUpdate,            \* a connection parameter update is under way in the stack
  timers,                 \* the timers: stopped, running, or due
  reset                   \* the restart requested, or "none"

appVars == <<ioQueue, advertising, active_reset_pending, active_reset_mode,
             active_header, conn_para_update_in_progress, paramUpdate, timers, reset>>
stackVars == <<link, advertising, paramUpdate>>
pendVars == <<active_reset_pending, active_reset_mode, active_header>>

ASSUME AppAssumption ==
  NormalOta \in BOOLEAN /\ LinkLossReset \in BOOLEAN /\ IoQueueFills \in BOOLEAN

deviceVars == <<serviceVars, flash, notif, link, appVars>>

(* The messages of the io queue that change the state of the device.  The  *)
(* stack posts others: advertising and connecting states, the MTU, pending *)
(* parameter updates, authentication and bonding.  Their handlers log or   *)
(* confirm only, so they are left out, save that they take places of the   *)
(* queue: a post of the application may find it full (IoQueueFills).       *)
AppMessage == {"STACK_READY", "CONNECTED", "DISCONNECTED", "VALID_FW",
               "PARAM_SUCCESS", "PARAM_FAIL"}
Timer == {"TOTAL", "WAIT4_CONN", "IMAGE_TRANSFER"}
TimerState == {"stopped", "running", "due"}
Reset == {"none", "DFU_FAIL_RESET", "DFU_ACTIVE_RESET", "OTA_MODE"}

Post(msg) == ioQueue' = Append(ioQueue, msg)

(* dfu_fw_reboot and dfu_switch_to_ota_mode do not return.                 *)
dfu_fw_reboot(is_active_fw) ==
  reset' = IF is_active_fw THEN "DFU_ACTIVE_RESET" ELSE "DFU_FAIL_RESET"

Running == reset = "none"

(* dfu_init opens the flash for the whole OTA mode; dfu_timer_init.        *)
BootFlash(f) == LET g == [f EXCEPT !.bp = "locked", !.saved = "none"]
                IN IF NormalOta THEN unlock_flash_bp_all(g) ELSE g
BootTimers ==
  [t \in Timer |-> IF NormalOta /\ t # "IMAGE_TRANSFER" THEN "running" ELSE "stopped"]

BlankFlash == [cells |-> [a \in Addr |-> Blank], ready |-> {},
               bp |-> "locked", saved |-> "none"]
OldFlash == [cells |-> [a \in Addr |-> OldFw], ready |-> {BankBase[i] : i \in Images},
             bp |-> "locked", saved |-> "none"]

DeviceInit ==
  /\ ServiceInit
  /\ flash \in {BootFlash(BlankFlash), BootFlash(OldFlash)}
  /\ notif = << >> /\ link = "down"
  /\ ioQueue = <<"STACK_READY">> /\ advertising = FALSE
  /\ active_reset_pending = FALSE /\ active_reset_mode = FALSE /\ active_header = TRUE
  /\ conn_para_update_in_progress = FALSE /\ paramUpdate = FALSE
  /\ timers = BootTimers /\ reset = "none"

(* The boot loader takes the new firmware when a header it looks at there  *)
(* is marked ready, or the running bank gave its OTA header up.            *)
NewHeaders == IF BankSwitch THEN {Ota} ELSE Images \ UserImages
NewFirmware(f) == \E i \in NewHeaders, a \in f.ready : f.cells[a] = <<i, 0>>

(* A restart, `f' being what the flash kept: into the new firmware, where  *)
(* this model ends, or into the old one.                                   *)
RestartNew(f) ==
  /\ flash' = f /\ reset' = "DFU_ACTIVE_RESET"
  /\ UNCHANGED <<serviceVars, link, notif, ioQueue, stackVars, pendVars,
                 conn_para_update_in_progress, timers>>

RestartOld(f) ==
  /\ ServiceReset
  /\ flash' = BootFlash(f)
  /\ notif' = << >> /\ link' = "down"
  /\ ioQueue' = <<"STACK_READY">> /\ advertising' = FALSE
  /\ active_reset_pending' = FALSE /\ active_reset_mode' = FALSE
  /\ UNCHANGED active_header
  /\ conn_para_update_in_progress' = FALSE /\ paramUpdate' = FALSE
  /\ timers' = BootTimers /\ reset' = "none"

DeviceRestart(f) == IF NewFirmware(f) \/ ~active_header THEN RestartNew(f) ELSE RestartOld(f)

-----------------------------------------------------------------------------
(* Upper stack task: a write of the client, dfu_attr_write_cb with the     *)
(* application's callbacks dfu_profile_callback.                           *)

WriteReportTargetInfo(img) ==
  Running /\ link = "up" /\ ReportTargetInfo(img) /\ UNCHANGED <<link, appVars>>

WriteBufferCheckEn ==
  Running /\ link = "up" /\ BufferCheckEn /\ UNCHANGED <<link, appVars>>

(* DFU_WRITE_START restarts two timers for an image that fits its bank:    *)
(* each begins a new period, also one that was about to expire.            *)
StartRestartsTimers(img, icTypeOk) ==
  NormalOta /\ icTypeOk /\ img \notin UserImages /\ Length[img] < BankSize[img]

WriteStartDfu(img, icTypeOk) ==
  /\ Running /\ link = "up" /\ StartDfu(img, icTypeOk)
  /\ timers' = IF StartRestartsTimers(img, icTypeOk)
                 THEN [timers EXCEPT !["TOTAL"] = "running", !["IMAGE_TRANSFER"] = "running"]
                 ELSE timers
  /\ UNCHANGED <<stackVars, ioQueue, pendVars, conn_para_update_in_progress, reset>>

WriteReceiveFwImageInfo(img, offset) ==
  Running /\ link = "up" /\ ReceiveFwImageInfo(img, offset) /\ UNCHANGED <<link, appVars>>

(* app_send_msg_to_dfutask: a message that finds the queue full is only    *)
(* logged.                                                                 *)
WriteValidFw(img) ==
  /\ Running /\ link = "up" /\ ValidFw(img)
  /\ Post("VALID_FW") \/ (IoQueueFills /\ UNCHANGED ioQueue)
  /\ UNCHANGED <<stackVars, pendVars, conn_para_update_in_progress, timers, reset>>

WriteReportBufferCrc(size, crcOk, mayFail) ==
  /\ Running /\ link = "up" /\ BufferCheckProcess(size, crcOk, mayFail)
  /\ UNCHANGED <<link, appVars>>

WritePacket(cell, mayFail) ==
  \E reboot \in BOOLEAN :
    /\ Running /\ link = "up" /\ PacketReq(cell, reboot, mayFail)
    /\ IF reboot THEN dfu_fw_reboot(FALSE) ELSE UNCHANGED reset
    /\ UNCHANGED <<stackVars, ioQueue, pendVars, conn_para_update_in_progress, timers>>

(* The request may carry the mode to restart into (optional byte).  With   *)
(* bank switch the running bank gives up its OTA header, so that the boot  *)
(* loader takes the other bank (ENABLE_AUTO_BANK_SWITCH).                  *)
WriteActiveImageReset(modes) ==
  /\ Running /\ link = "up" /\ ActiveImageReset
  /\ active_reset_mode' \in modes \cup {active_reset_mode}
  /\ link' = "closing"
  /\ active_reset_pending' = TRUE
  /\ active_header' = (active_header /\ ~BankSwitch)
  /\ UNCHANGED <<ioQueue, advertising, conn_para_update_in_progress, paramUpdate,
                 timers, reset>>

WriteSystemReset ==
  /\ Running /\ link = "up" /\ SystemReset
  /\ dfu_fw_reboot(FALSE)
  /\ UNCHANGED <<stackVars, ioQueue, pendVars, conn_para_update_in_progress, timers>>

(* CONN_PARA_TO_UPDATE_REQ: `accepted' is the answer of le_update_conn_param. *)
WriteConnParaUpdateReq(accepted) ==
  /\ Running /\ link = "up"
  /\ IF conn_para_update_in_progress \/ ~accepted
       THEN /\ Notify("CONN_PARA", "FAIL_OPERATION", 0)
            /\ UNCHANGED <<conn_para_update_in_progress, paramUpdate>>
       ELSE /\ conn_para_update_in_progress' = TRUE /\ paramUpdate' = TRUE
            /\ UNCHANGED notif
  /\ UNCHANGED <<serviceVars, flash, link, ioQueue, advertising, pendVars, timers, reset>>

-----------------------------------------------------------------------------
(* Application task: dfu_handle_io_msg.                                    *)
(* Mutant: the task takes messages while its check runs.                   *)
TakeAnyTime(msg) ==
  /\ Running
  /\ ioQueue # << >> /\ Head(ioQueue) = msg
  /\ ioQueue' = Tail(ioQueue)

Take(msg) ==
  /\ Running /\ checking = {}
  /\ ioQueue # << >> /\ Head(ioQueue) = msg
  /\ ioQueue' = Tail(ioQueue)

HandleStackReady ==
  /\ Take("STACK_READY")
  /\ advertising' = TRUE
  /\ UNCHANGED <<serviceVars, flash, notif, link, pendVars, conn_para_update_in_progress,
                 paramUpdate, timers, reset>>
(* Mutants: a procedure of the last connection stays in progress; all the  *)
(* timers stop.                                                            *)
HandleConnectedKeepsParam ==
  /\ Take("CONNECTED")
  /\ timers' = [timers EXCEPT !["WAIT4_CONN"] = "stopped"]
  /\ UNCHANGED <<serviceVars, flash, notif, stackVars, pendVars, conn_para_update_in_progress,
                 reset>>

HandleConnectedStopsAll ==
  /\ Take("CONNECTED")
  /\ conn_para_update_in_progress' = FALSE
  /\ timers' = [t \in Timer |-> "stopped"]
  /\ UNCHANGED <<serviceVars, flash, notif, stackVars, pendVars, reset>>

HandleConnected ==
  /\ Take("CONNECTED")
  /\ conn_para_update_in_progress' = FALSE
  /\ timers' = [timers EXCEPT !["WAIT4_CONN"] = "stopped"]
  /\ UNCHANGED <<serviceVars, flash, notif, stackVars, pendVars, reset>>
(* Mutant: the device advertises again whatever is pending.                *)
HandleDisconnectedAdvertises ==
  /\ Take("DISCONNECTED")
  /\ advertising' = TRUE
  /\ UNCHANGED <<serviceVars, flash, notif, link, pendVars, conn_para_update_in_progress,
                 paramUpdate, timers, reset>>

(* A pending activation restarts the device, into the new firmware or the  *)
(* OTA mode; otherwise the device restarts or advertises again.            *)
HandleDisconnected ==
  /\ Take("DISCONNECTED")
  /\ IF active_reset_pending
       THEN /\ active_reset_pending' = FALSE
            /\ IF active_reset_mode
                 THEN active_reset_mode' = FALSE /\ reset' = "OTA_MODE"
                 ELSE dfu_fw_reboot(TRUE) /\ UNCHANGED active_reset_mode
            /\ UNCHANGED <<advertising, active_header>>
       ELSE /\ IF LinkLossReset THEN dfu_fw_reboot(FALSE) /\ UNCHANGED advertising
                                ELSE advertising' = TRUE /\ UNCHANGED reset
            /\ UNCHANGED pendVars
  /\ UNCHANGED <<serviceVars, flash, notif, link, conn_para_update_in_progress,
                 paramUpdate, timers>>

(* dfu_notify_conn_para_update_req *)
HandleParamUpdate(status) ==
  /\ Take(IF status = "SUCCESS" THEN "PARAM_SUCCESS" ELSE "PARAM_FAIL")
  /\ conn_para_update_in_progress' = FALSE
  /\ IF conn_para_update_in_progress THEN Notify("CONN_PARA", status, 0) ELSE UNCHANGED notif
  /\ UNCHANGED <<serviceVars, flash, stackVars, pendVars, timers, reset>>

HandleValidFw ==
  /\ Take("VALID_FW")
  /\ BeginValidFw
  /\ UNCHANGED <<stackVars, pendVars, conn_para_update_in_progress, timers, reset>>

CompleteValidFw == Running /\ EndValidFw /\ UNCHANGED <<link, appVars>>

(* The period of a timer is over.  Until the handler runs, the timer may   *)
(* still be restarted.                                                     *)
PeriodEnds(t) ==
  /\ Running /\ timers[t] = "running"
  /\ timers' = [timers EXCEPT ![t] = "due"]
  /\ UNCHANGED <<serviceVars, flash, notif, stackVars, ioQueue, pendVars,
                 conn_para_update_in_progress, reset>>

(* dfu_monitor_timeout_handler *)
TimerExpires(t) ==
  /\ Running /\ timers[t] = "due"
  /\ timers' = [timers EXCEPT ![t] = "stopped"]
  /\ dfu_fw_reboot(FALSE)
  /\ UNCHANGED <<serviceVars, flash, notif, stackVars, ioQueue, pendVars,
                 conn_para_update_in_progress>>

-----------------------------------------------------------------------------
(* The BLE stack (external).                                               *)

LinkUp ==
  /\ Running /\ advertising /\ link = "down"
  /\ link' = "up" /\ advertising' = FALSE
  /\ Post("CONNECTED")
  /\ UNCHANGED <<serviceVars, flash, notif, pendVars, conn_para_update_in_progress,
                 paramUpdate, timers, reset>>

LinkDown ==
  /\ Running /\ link # "down"
  /\ link' = "down" /\ notif' = << >> /\ paramUpdate' = FALSE
  /\ Post("DISCONNECTED")
  /\ UNCHANGED <<serviceVars, flash, advertising, pendVars, conn_para_update_in_progress,
                 timers, reset>>

ParamUpdated ==
  /\ Running /\ paramUpdate
  /\ paramUpdate' = FALSE
  /\ \E msg \in {"PARAM_SUCCESS", "PARAM_FAIL"} : Post(msg)
  /\ UNCHANGED <<serviceVars, flash, notif, link, advertising, pendVars,
                 conn_para_update_in_progress, timers, reset>>

AppTask ==
  \/ HandleStackReady \/ HandleConnected \/ HandleDisconnected
  \/ HandleParamUpdate("SUCCESS") \/ HandleParamUpdate("FAIL_OPERATION")
  \/ HandleValidFw \/ CompleteValidFw
=============================================================================
