------------------------------ MODULE DfuSystem ------------------------------
(***************************************************************************)
(* The device of DfuApp with the update client that drives it: the whole   *)
(* path of a firmware package, with lost and damaged packets, failing      *)
(* flash, lost links, resets and power loss.                               *)
(*                                                                         *)
(* The client is a phone application outside the repository.  It follows   *)
(* the request order the opcodes are made for: it waits for the            *)
(* notification of a request that has one, it resumes a transfer at the    *)
(* offset the device reports, it activates only when every image of its    *)
(* package was validated, and it sends SYSTEM_RESET when it gives up.      *)
(***************************************************************************)
EXTENDS DfuApp

CONSTANTS
  Plans,          \* the packages: sequences of images
  ClientModes,    \* the ways it may send: {"check"}, {"stream"} or both
  ChunkSize,      \* the cells it sends before it asks for a buffer check
  StartsAgain,    \* whether it may start an image again before it sends the first packet
  ResetModes,     \* the values of the optional byte of ACTIVE_IMAGE_RESET
  MaxSessions,    \* bound: connections the client makes
  MaxDamage,      \* bound: packets lost or damaged
  MaxFlashFaults, \* bound: requests during which the flash may fail
  MaxPowerLosses, \* bound: power losses
  MaxParamReqs    \* bound: connection parameter requests

ASSUME ClientAssumption ==
  /\ \A p \in Plans : p \in Seq(Images) /\ p # << >>
  /\ ClientModes \subseteq {"check", "stream"}
  /\ ChunkSize \in 1 .. BufSize
  /\ StartsAgain \in BOOLEAN /\ ResetModes \subseteq BOOLEAN
  /\ MaxSessions \in Nat /\ MaxDamage \in Nat /\ MaxFlashFaults \in Nat
  /\ MaxPowerLosses \in Nat /\ MaxParamReqs \in Nat

VARIABLES
  cst,        \* what the client does next
  wait,       \* the notification it waits for, or "none"
  plan,       \* the images still to send
  sendMode,   \* "check" or "stream"
  coff,       \* the offset the device acknowledged
  chunk,      \* the cells sent since
  sessions, damage, faults, powerLosses, paramReqs   \* the bounded counters

clientVars == <<cst, wait, plan, sendMode, coff, chunk>>
counterVars == <<sessions, damage, faults, powerLosses, paramReqs>>
vars == <<deviceVars, clientVars, counterVars>>

ClientState == {"off", "hello", "pick", "start", "info", "send", "valid", "abort", "end"}
Awaited == {"none", "BUFFER_CHECK_EN", "TARGET_INFO", "START", "BUFFER_CRC", "VALID_FW"}

img == Head(plan)
AllSent == coff + chunk = Length[img]
ChunkFull == sendMode = "check" /\ (chunk = ChunkSize \/ AllSent)

(* What the buffer holds when every packet arrived whole.                  *)
SentChunk == [j \in 1 .. chunk |-> <<img, coff + j - 1>>]

Init ==
  /\ DeviceInit
  /\ cst = "off" /\ wait = "none" /\ plan = << >> /\ sendMode = "check"
  /\ coff = 0 /\ chunk = 0
  /\ sessions = 0 /\ damage = 0 /\ faults = 0 /\ powerLosses = 0 /\ paramReqs = 0

Ready(state) == cst = state /\ wait = "none"

Connect ==
  /\ cst = "off" /\ sessions < MaxSessions
  /\ LinkUp
  /\ cst' = "hello" /\ plan' \in Plans /\ sendMode' \in ClientModes
  /\ coff' = 0 /\ chunk' = 0
  /\ sessions' = sessions + 1
  /\ UNCHANGED <<wait, damage, faults, powerLosses, paramReqs>>

SendHello ==
  /\ Ready("hello")
  /\ \/ /\ sendMode = "check" /\ WriteBufferCheckEn /\ wait' = "BUFFER_CHECK_EN"
        /\ UNCHANGED cst
     \/ /\ sendMode = "stream" /\ cst' = "pick"
        /\ UNCHANGED <<deviceVars, wait>>
  /\ UNCHANGED <<plan, sendMode, coff, chunk, counterVars>>

SendTargetInfo ==
  /\ Ready("pick")
  /\ WriteReportTargetInfo(img)
  /\ wait' = "TARGET_INFO"
  /\ UNCHANGED <<cst, plan, sendMode, coff, chunk, counterVars>>

(* A package made for another chip is refused.  The array temp_image_info  *)
(* ends at MaxTemp: the client stops there.  A client may start an image   *)
(* over and over.                                                          *)
SendStart ==
  /\ Ready("start") \/ (StartsAgain /\ Ready("info"))
  /\ temp_image_num < MaxTemp
  /\ \E icTypeOk \in BOOLEAN : WriteStartDfu(img, icTypeOk)
  /\ cst' = "start" /\ wait' = "START"
  /\ UNCHANGED <<plan, sendMode, coff, chunk, counterVars>>

SendImageInfo ==
  /\ Ready("info")
  /\ WriteReceiveFwImageInfo(img, coff)
  /\ cst' = "send"
  /\ UNCHANGED <<wait, plan, sendMode, coff, chunk, counterVars>>

MayFail == faults < MaxFlashFaults

(* The flash fault counter moves when the flash could not do what was      *)
(* asked of it.                                                            *)
CountFault(mayFail) ==
  faults' = IF mayFail THEN faults + 1 ELSE faults

(* A data packet: it arrives, or arrives damaged, or is lost.              *)
SendPacket ==
  /\ Ready("send") /\ ~AllSent /\ ~ChunkFull
  /\ chunk' = chunk + 1
  /\ \/ \E mayFail \in {FALSE, MayFail} :
          WritePacket(<<img, coff + chunk>>, mayFail) /\ CountFault(mayFail)
        /\ UNCHANGED damage
     \/ /\ damage < MaxDamage /\ damage' = damage + 1
        /\ WritePacket(<<Noise, coff + chunk>>, FALSE)
        /\ UNCHANGED faults
     \/ /\ damage < MaxDamage /\ damage' = damage + 1
        /\ UNCHANGED <<deviceVars, faults>>
  /\ UNCHANGED <<cst, wait, plan, sendMode, coff, sessions, powerLosses, paramReqs>>

(* The check value of the chunk is a 16-bit exclusive or: it accepts what  *)
(* was sent, and may accept a damaged chunk.                               *)
SendBufferCrc ==
  /\ Ready("send") /\ chunk > 0 /\ ChunkFull
  /\ \E crcOk \in BOOLEAN, mayFail \in {FALSE, MayFail} :
       /\ tmp_buf = SentChunk => crcOk
       /\ WriteReportBufferCrc(chunk, crcOk, mayFail)
       /\ CountFault(mayFail)
  /\ wait' = "BUFFER_CRC"
  /\ UNCHANGED <<cst, plan, sendMode, coff, chunk, sessions, damage, powerLosses, paramReqs>>

SendValidFw ==
  /\ Ready("send") /\ AllSent /\ (sendMode = "check" => chunk = 0)
  /\ WriteValidFw(img)
  /\ wait' = "VALID_FW"
  /\ UNCHANGED <<cst, plan, sendMode, coff, chunk, counterVars>>

SendActiveImageReset ==
  /\ Ready("valid") /\ plan = << >>
  /\ WriteActiveImageReset(ResetModes)
  /\ cst' = "end"
  /\ UNCHANGED <<wait, plan, sendMode, coff, chunk, counterVars>>

SendSystemReset ==
  /\ Ready("abort")
  /\ WriteSystemReset
  /\ cst' = "end"
  /\ UNCHANGED <<wait, plan, sendMode, coff, chunk, counterVars>>

SendConnParaUpdateReq ==
  /\ cst \notin {"off", "end"} /\ paramReqs < MaxParamReqs
  /\ \E accepted \in BOOLEAN : WriteConnParaUpdateReq(accepted)
  /\ paramReqs' = paramReqs + 1
  /\ UNCHANGED <<clientVars, sessions, damage, faults, powerLosses>>

(* What the client does with the answer it waits for; others it ignores.   *)
Answered(msg) ==
  /\ wait' = "none"
  /\ chunk' = 0
  /\ \/ msg.op = "BUFFER_CHECK_EN" /\ cst' = "pick" /\ UNCHANGED <<plan, coff>>
     \/ msg.op = "TARGET_INFO" /\ cst' = "start" /\ coff' = msg.offset /\ UNCHANGED plan
     \/ /\ msg.op = "START" /\ UNCHANGED <<plan, coff>>
        /\ cst' = IF msg.status = "SUCCESS" THEN "info" ELSE "abort"
     \/ /\ msg.op = "BUFFER_CRC" /\ UNCHANGED plan
        /\ coff' = msg.offset
        /\ cst' \in IF msg.status = "SUCCESS" THEN {"send"} ELSE {"send", "abort"}
     \/ /\ msg.op = "VALID_FW" /\ UNCHANGED coff
        /\ IF msg.status = "SUCCESS"
             THEN plan' = Tail(plan) /\ cst' = IF Tail(plan) = << >> THEN "valid" ELSE "pick"
             ELSE cst' = "abort" /\ UNCHANGED plan

ReceiveNotification ==
  /\ Running /\ notif # << >> /\ link = "up"
  /\ notif' = Tail(notif)
  /\ IF Head(notif).op = wait
       THEN Answered(Head(notif)) ELSE UNCHANGED <<cst, wait, plan, coff, chunk>>
  /\ UNCHANGED <<serviceVars, flash, link, appVars, sendMode, counterVars>>

(* The link is lost, or closes as the device asked.                        *)
ClientGone ==
  /\ cst' = "off" /\ wait' = "none" /\ plan' = << >> /\ coff' = 0 /\ chunk' = 0
  /\ UNCHANGED sendMode

LoseLink == LinkDown /\ ClientGone /\ UNCHANGED counterVars

RestartAfterReset ==
  /\ reset = "DFU_FAIL_RESET"
  /\ DeviceRestart(flash) /\ ClientGone /\ UNCHANGED counterVars

(* What a write to the flash under way may leave when the supply fails.    *)
WriteUnderWay ==
  LET data == IF buffer_check_en THEN tmp_buf
              ELSE Append(tmp_buf, <<image_id, cur_offset + used>>)
  IN IF /\ Ready("send") /\ is_ota_procedure /\ data # << >>
        /\ IF buffer_check_en THEN ChunkFull ELSE ~AllSent
       THEN {u.fl : u \in dfu_update(flash, image_id, cur_offset, CurrentImageOffset, data, TRUE)}
       ELSE {}

ActivationUnderWay ==
  IF cst = "valid" /\ plan = << >>
    THEN {dfu_set_images_ready(flash, H) : H \in ReadyPrefixes} ELSE {}

PowerLoss ==
  /\ Running /\ powerLosses < MaxPowerLosses
  /\ \E f \in {flash} \cup WriteUnderWay \cup ActivationUnderWay : DeviceRestart(f)
  /\ ClientGone
  /\ powerLosses' = powerLosses + 1
  /\ UNCHANGED <<sessions, damage, faults, paramReqs>>

ClientStep ==
  \/ SendHello \/ SendTargetInfo \/ SendStart \/ SendImageInfo \/ SendPacket
  \/ SendBufferCrc \/ SendValidFw \/ SendActiveImageReset \/ SendSystemReset
  \/ ReceiveNotification

DeviceTask == AppTask /\ UNCHANGED <<clientVars, counterVars>>
PeriodOver(t) == PeriodEnds(t) /\ UNCHANGED <<clientVars, counterVars>>
Timeout == \E t \in Timer : TimerExpires(t) /\ UNCHANGED <<clientVars, counterVars>>
TimerStep == Timeout \/ \E t \in Timer : PeriodOver(t)
ParamProcedure == ParamUpdated /\ UNCHANGED <<clientVars, counterVars>>

Next ==
  \/ Connect \/ ClientStep \/ SendConnParaUpdateReq \/ LoseLink
  \/ DeviceTask \/ TimerStep \/ ParamProcedure
  \/ RestartAfterReset \/ PowerLoss

Spec == Init /\ [][Next]_vars

(* The tasks of the device run whenever they have work, a link the device  *)
(* asked to close closes, a restart completes, and the client goes on      *)
(* while it is connected.  The period of a running timer ends, and then    *)
(* its handler runs, unless the timer is restarted first: of a timer that  *)
(* is restarted again and again neither says that it ever expires.         *)
Fairness ==
  /\ WF_vars(DeviceTask) /\ WF_vars(ClientStep)
  /\ WF_vars(LoseLink /\ link = "closing")
  /\ WF_vars(RestartAfterReset)
  /\ \A t \in Timer : WF_vars(PeriodOver(t))
  /\ WF_vars(Timeout)

FairSpec == Spec /\ Fairness

-----------------------------------------------------------------------------
(* Properties.                                                             *)

(* Every variable holds a value of its kind; the receive buffer never      *)
(* holds more than DFU_TEMP_BUFFER_SIZE.                                   *)
DeviceTypeOK ==
  /\ image_id \in Images \cup {NoImage} /\ image_total_length \in Nat
  /\ cur_offset \in Nat /\ dfu_resend_offset \in Nat
  /\ tmp_buf \in Seq(Payload) /\ used <= BufSize
  /\ buffer_check_en \in BOOLEAN /\ is_ota_procedure \in BOOLEAN
  /\ temp_image_num \in 0 .. MaxTemp
  /\ temp_image_info \in [0 .. MaxTemp -> TempInfo]
  /\ valid_bitmap \subseteq Images
  /\ checking \subseteq [img : Images \cup {NoImage}, off : Nat]
  /\ flash \in Flash
  /\ notif \in Seq(Notification)
  /\ link \in {"down", "up", "closing"}
AppTypeOK ==
  /\ ioQueue \in Seq(AppMessage)
  /\ advertising \in BOOLEAN /\ active_reset_pending \in BOOLEAN
  /\ active_reset_mode \in BOOLEAN /\ active_header \in BOOLEAN
  /\ conn_para_update_in_progress \in BOOLEAN /\ paramUpdate \in BOOLEAN
  /\ timers \in [Timer -> TimerState] /\ reset \in Reset
ClientTypeOK ==
  /\ cst \in ClientState /\ wait \in Awaited /\ plan \in Seq(Images)
  /\ sendMode \in {"check", "stream"} /\ coff \in Nat /\ chunk \in Nat
  /\ sessions \in 0 .. MaxSessions /\ damage \in 0 .. MaxDamage
  /\ faults \in 0 .. MaxFlashFaults /\ powerLosses \in 0 .. MaxPowerLosses
  /\ paramReqs \in 0 .. MaxParamReqs
TypeOK == DeviceTypeOK /\ AppTypeOK /\ ClientTypeOK

(* The resend point of a transfer with buffer check is the start of the    *)
(* sector the next cell goes to, so that an erase there after a failed     *)
(* write (dfu_buffer_check_process) takes nothing acknowledged before it.  *)
ResendWindow ==
  cst = "send" /\ sendMode = "check" =>
    /\ dfu_resend_offset % SectorSize = 0
    /\ dfu_resend_offset <= cur_offset /\ cur_offset < dfu_resend_offset + SectorSize

(* Client and device agree on where a transfer with buffer check stands,   *)
(* whatever was lost, damaged or rolled back, when no answer is under way. *)
OffsetsAgree ==
  cst = "send" /\ wait = "none" /\ sendMode = "check" /\ Running => coff = cur_offset

(* Every cell below the device's offset is in the flash at its place: a    *)
(* write that fails, a rollback, or the erase of the next sector never     *)
(* reach back.  A damaged cell may pass the 16-bit check, never move.  A   *)
(* client without buffer check relies on all of its packets arriving.      *)
WriteBase == BankBase[image_id] + CurrentImageOffset
Transferring ==
  cst = "send" /\ wait # "VALID_FW" /\ (sendMode = "stream" => damage = 0)
PrefixIntact ==
  Transferring => \A k \in 0 .. cur_offset - 1 :
    flash.cells[WriteBase + k] \in {<<image_id, k>>, <<Noise, k>>}

(* A header of a received image that the boot loader accepts (not_ready    *)
(* cleared by dfu_set_image_ready) belongs to a complete, sound image.     *)
ReadyImagesComplete ==
  \A a \in flash.ready, i \in Images : flash.cells[a] = <<i, 0>> => HoldsFile(flash, a, i)

(* Every image the temp bank counts as validated (temp_image_num) is still *)
(* there: what comes after it neither erases nor overwrites it.            *)
TempBankKept ==
  \A n \in TempEntries : HoldsFile(flash, TempHeader(n), temp_image_info[n].id)

(* The seconds-long check of VALID_FW, which runs beside the upper stack   *)
(* task, sees one image: the flash, the current image and the temp entries *)
(* it reads again at its end (dfu_service_handle_valid_fw) stand still.    *)
CheckUndisturbed ==
  [][checking # {} /\ checking' = checking
       => UNCHANGED <<flash, image_id, temp_image_info, temp_image_num>>]_vars

(* Why: messages and answers are in order.  LinkOrder: advertising starts  *)
(* only behind a finished check and a handled DISCONNECTED; CheckOrder:    *)
(* there is one check at most, and while the link is up the client that    *)
(* asked for it waits for its answer.                                      *)
Queued(msgs) == \E n \in 1 .. Len(ioQueue) : ioQueue[n] \in msgs
Notified(op) == \E n \in 1 .. Len(notif) : notif[n].op = op
CheckPending == checking # {} \/ Queued({"VALID_FW"})

LinkOrder ==
  /\ advertising => link = "down" /\ ~CheckPending /\ ~Queued({"DISCONNECTED", "STACK_READY"})
  /\ link # "down" => ~Queued({"DISCONNECTED", "STACK_READY"})
  /\ \A n, k \in 1 .. Len(ioQueue) :
       n < k /\ ioQueue[n] \in {"DISCONNECTED", "STACK_READY"}
         => ioQueue[k] \notin {"VALID_FW", "DISCONNECTED", "STACK_READY"}

CheckOrder ==
  /\ checking # {} => ~Queued({"VALID_FW"})
  /\ \A n, k \in 1 .. Len(ioQueue) :
       ioQueue[n] = "VALID_FW" /\ ioQueue[k] = "VALID_FW" => n = k
  /\ CheckPending /\ link # "down" /\ Running
       => link = "up" /\ cst = "send" /\ wait = "VALID_FW"
  /\ Notified("VALID_FW") /\ Running => wait = "VALID_FW" /\ ~CheckPending
  /\ \A n, k \in 1 .. Len(notif) :
       notif[n].op = "VALID_FW" /\ notif[k].op = "VALID_FW" => n = k

(* The two-bank update implements BankUpdate: whatever fails, the device   *)
(* runs the old firmware until a whole package is staged.                  *)
Staged == {i \in Images \ UserImages :
             BankBase[i] \in flash.ready /\ HoldsFile(flash, BankBase[i], i)}
Bank == INSTANCE BankUpdate WITH
  Images <- Images \ UserImages,
  Packages <- {{p[n] : n \in 1 .. Len(p)} \ UserImages : p \in Plans},
  staged <- Staged,
  runs <- IF NewFirmware(flash) \/ ~active_header THEN "new" ELSE "old"

ImplementsBankUpdate == Bank!Spec

(* Outside the OTA mode no handler leaves the block protection off.        *)
FlashProtected == Running /\ ~NormalOta /\ BankSwitch => flash.bp = "locked"

(* A procedure in progress is not in progress for ever: an event that ends *)
(* it is under way, or the next requests would all be refused.             *)
ParamUpdateEnds ==
  conn_para_update_in_progress /\ link = "up" /\ Running =>
    \/ paramUpdate
    \/ \E n \in 1 .. Len(ioQueue) : ioQueue[n] \in {"PARAM_SUCCESS", "PARAM_FAIL", "CONNECTED"}

(* Every session comes to an end: activated, given up or cut off; no       *)
(* request is left without its answer, and retries do not go on for ever.  *)
SessionEnds == cst = "hello" ~> cst \in {"end", "off"}

(* An accepted activation always ends in the new firmware or the OTA mode, *)
(* whatever happens to the link before the activation is carried out.      *)
ActivationRestarts == active_reset_pending ~> reset \in {"DFU_ACTIVE_RESET", "OTA_MODE"}

(* The OTA mode is left again and again, also when VALID_FW was dropped    *)
(* and the client waits for ever, when the link is lost or an image of     *)
(* user data, which restarts no timer, is started over and over.  Only a   *)
(* client that starts an image of a bank over and over can prevent it:     *)
(* each START puts the total timer back.                                   *)
StartsBankImage == SendStart /\ img \notin UserImages
LeavesOtaMode == []<>(reset # "none") \/ []<><<StartsBankImage>>_vars
=============================================================================
