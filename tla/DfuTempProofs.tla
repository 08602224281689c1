--------------------------- MODULE DfuTempProofs ---------------------------
(***************************************************************************)
(* The update without bank switch: the images of a package follow one      *)
(* another in one temp bank, and what comes after a validated image leaves *)
(* it whole (DfuSystem, for every layout and every package that fits).     *)
(***************************************************************************)
EXTENDS DfuReadyProofs

-----------------------------------------------------------------------------
(* The layout: one temp bank for the images that are not user data, the    *)
(* bank of each user image apart from every other.                         *)

TempImages == Images \ UserImages
TempBase == BankBase[Ota]
TempSize == BankSize[Ota]

OneBank ==
  /\ ~BankSwitch /\ ImagesFit
  /\ \A i \in TempImages : BankBase[i] = TempBase /\ BankSize[i] = TempSize
  /\ \A u \in UserImages, i \in Images : u # i => Apart(i, u)

(* A package fits: its images, laid out one after another from `start',    *)
(* end inside the temp bank.  `ends' is where each of them ends.           *)
Needs(i) == IF i \in UserImages THEN 0 ELSE Length[i]
Fits(q, start) ==
  \E ends \in [0 .. Len(q) -> 0 .. TempSize] :
    ends[0] = start /\ \A n \in 1 .. Len(q) : ends[n] = ends[n - 1] + Needs(q[n])
PackagesFit == \A p \in Plans : Fits(p, 0)

(* The flash does what it is asked when the client has its buffers         *)
(* checked, and no packet is lost when it does not.                        *)
WritesSound ==
  /\ "check" \in ClientModes => MaxFlashFaults = 0
  /\ "stream" \in ClientModes => MaxDamage = 0

-----------------------------------------------------------------------------
(* The invariant.  First the table of the temp bank: where the next image  *)
(* goes, and that the entry of the current image says so while it is sent. *)

TempEnd ==
  IF temp_image_num = 0 THEN 0
  ELSE temp_image_info[temp_image_num - 1].offset + temp_image_info[temp_image_num - 1].size
EntryOf(i) == [id |-> i, size |-> Length[i], offset |-> TempEnd]

Listed ==
  \A n \in TempEntries :
    /\ temp_image_info[n].id \in TempImages
    /\ temp_image_info[n].size = Length[temp_image_info[n].id]
    /\ temp_image_info[n].offset + temp_image_info[n].size <= TempEnd
Beyond == \A n \in 0 .. MaxTemp : n > temp_image_num => temp_image_info[n] = NoInfo

Booting == advertising \/ Queued({"STACK_READY"})
FreshTable ==
  Booting => temp_image_num = 0 /\ \A n \in 0 .. MaxTemp : temp_image_info[n] = NoInfo

(* START is answered once, to the client that waits for the answer.        *)
StartOrder ==
  /\ \A n \in 1 .. Len(notif) : notif[n].op = "START" /\ Running => wait = "START"
  /\ \A n, k \in 1 .. Len(notif) : notif[n].op = "START" /\ notif[k].op = "START" => n = k
Asked ==
  /\ wait = "BUFFER_CHECK_EN" => cst = "hello"
  /\ wait = "TARGET_INFO" => cst = "pick"

Opening == cst \in {"hello", "pick"} \/ (cst = "start" /\ wait # "START")
Transfers == cst = "send" /\ wait # "VALID_FW"
PlacedImage ==
  /\ image_id \in Images
  /\ temp_image_info[temp_image_num] = IF image_id \in UserImages THEN NoInfo
                                                                ELSE EntryOf(image_id)
Opened == Opening => temp_image_info[temp_image_num] = NoInfo
Placed == cst = "info" \/ Transfers \/ CheckPending => PlacedImage
Named == cst = "info" \/ wait = "START" => image_id = img
Started ==
  \A n \in 1 .. Len(notif) :
    notif[n].op = "START" /\ notif[n].status = "SUCCESS" => PlacedImage

(* There is room for what the client still sends: the image it is at and   *)
(* those after it, or only those once the image is accepted.               *)
Accepted ==
  \E n \in 1 .. Len(notif) : notif[n].op = "VALID_FW" /\ notif[n].status = "SUCCESS"
Sending ==
  cst \in {"hello", "pick", "start", "info"} \/ Transfers \/ (CheckPending /\ link # "down")
Roomy ==
  /\ Sending => Fits(plan, TempEnd)
  /\ Accepted => temp_image_info[temp_image_num] = NoInfo /\ Fits(Tail(plan), TempEnd)

TableInv ==
  /\ Listed /\ Beyond /\ FreshTable /\ StartOrder /\ Asked
  /\ Running => Opened /\ Placed /\ Named /\ Started /\ Roomy

-----------------------------------------------------------------------------
(* Then the flash.  The entries hold their files; the image under check is *)
(* complete; what follows the last cell written is blank up to the end of  *)
(* its sector, so that the next write there succeeds.                      *)

Held == \A n \in TempEntries :
  HoldsFile(flash, TempBase + temp_image_info[n].offset, temp_image_info[n].id)
Sent ==
  Running /\ CheckPending =>
    Prefix(flash, WriteBase, image_id, cur_offset) /\ cur_offset = Length[image_id]

BlankFrom(f, a) ==
  a % SectorSize # 0 =>
    \A b \in Addr \cap Sector(a) : a <= b => f.cells[b] = Blank /\ b \notin f.ready
Written == IF cst = "send" /\ image_id \in TempImages /\ ~Accepted THEN cur_offset ELSE 0
BlankTail ==
  sendMode = "check" /\ Running /\ (Sending \/ Accepted)
    => BlankFrom(flash, TempBase + TempEnd + Written)

(* The header of the temp bank is not marked ready once an image is there. *)
BaseOpen ==
  Running /\ cst \notin {"off", "end"} =>
    (temp_image_num > 0 \/ (CheckPending /\ image_id \in TempImages) => TempBase \notin flash.ready)

(* The mode of a session, and the buffer of one without buffer check.      *)
Mode == cst # "off" => sendMode \in ClientModes
Plain ==
  /\ Booting => ~buffer_check_en
  /\ Running /\ cst # "off" /\ sendMode = "stream" => ~buffer_check_en
Procedure ==
  Running =>
    /\ cst \in {"info", "send"} => is_ota_procedure
    /\ \A n \in 1 .. Len(notif) :
         notif[n].op = "START" /\ notif[n].status = "SUCCESS" => is_ota_procedure
StreamFlushed ==
  Running /\ Ready("send") /\ sendMode = "stream" => used = 0 \/ cur_offset + used < Length[img]

StoreInv ==
  /\ WriteOpen /\ BufferOfImage /\ BootFresh
  /\ Held /\ Sent /\ BlankTail /\ BaseOpen /\ Mode /\ Plain /\ Procedure /\ StreamFlushed

-----------------------------------------------------------------------------
(* Room in the temp bank.                                                  *)

LEMMA OtaTyped ==
  /\ Ota \in Images /\ Ota \in TempImages
  /\ TempBase \in Nat /\ TempBase \in Addr /\ TempSize \in Nat
  /\ TempBase + TempSize <= FlashSize /\ TempBase % SectorSize = 0
<1>1. Ota \in Images /\ Ota \in TempImages BY LayoutAssumption DEF TempImages
<1> QED BY <1>1, BankTyped, BankAligned DEF TempBase, TempSize

LEMMA NeedsTyped ==
  ASSUME NEW i \in Images
  PROVE  Needs(i) \in Nat
BY BankTyped DEF Needs

LEMMA FitsTail ==
  ASSUME NEW q \in Seq(Images), q # << >>, NEW start, Fits(q, start)
  PROVE  /\ start \in Nat /\ start + Needs(Head(q)) <= TempSize
         /\ Fits(Tail(q), start + Needs(Head(q)))
<1> DEFINE n == Len(q)
<1>1. n \in Nat \ {0} /\ Head(q) = q[1] /\ Head(q) \in Images BY DEF n
<1>2. /\ Len(Tail(q)) = n - 1
      /\ \A k \in 1 .. n - 1 : Tail(q)[k] = q[k + 1]
  BY <1>1
<1>3. PICK ends \in [0 .. n -> 0 .. TempSize] :
        ends[0] = start /\ \A k \in 1 .. n : ends[k] = ends[k - 1] + Needs(q[k])
  BY DEF Fits
<1> HIDE DEF n
<1>4. 0 \in 0 .. n /\ 1 \in 1 .. n /\ 1 \in 0 .. n BY <1>1
<1>5. start \in Nat /\ ends[1] \in 0 .. TempSize /\ ends[1] = start + Needs(Head(q))
  <2>1. 1 - 1 = 0 OBVIOUS
  <2> QED BY <1>1, <1>3, <1>4, <2>1, OtaTyped
<1> DEFINE rest == [k \in 0 .. n - 1 |-> ends[k + 1]]
<1>6. \A k \in 0 .. n - 1 : k + 1 \in 0 .. n BY <1>1
<1>7. rest \in [0 .. n - 1 -> 0 .. TempSize] BY <1>3, <1>6
<1>8. rest[0] = start + Needs(Head(q))
  <2>1. 0 \in 0 .. n - 1 /\ 0 + 1 = 1 BY <1>1
  <2> QED BY <1>5, <2>1
<1>9. ASSUME NEW k \in 1 .. n - 1 PROVE rest[k] = rest[k - 1] + Needs(Tail(q)[k])
  <2>1. k \in 0 .. n - 1 /\ k - 1 \in 0 .. n - 1 /\ k + 1 \in 1 .. n /\ (k - 1) + 1 = k
        /\ (k + 1) - 1 = k
    BY <1>1
  <2>2. rest[k] = ends[k + 1] /\ rest[k - 1] = ends[k] BY <2>1
  <2>3. ends[k + 1] = ends[k] + Needs(q[k + 1]) BY <1>3, <2>1
  <2> QED BY <1>2, <2>2, <2>3
<1>10. Fits(Tail(q), start + Needs(Head(q)))
  BY <1>2, <1>7, <1>8, <1>9 DEF Fits
<1> QED BY <1>1, <1>5, <1>10, OtaTyped, NeedsTyped

(* The place of an entry in the flash.                                     *)
LEMMA TempPlace ==
  ASSUME OneBank, NEW i \in TempImages
  PROVE  i \in Images /\ i \notin UserImages /\ BankBase[i] = TempBase /\ BankSize[i] = TempSize
         /\ Needs(i) = Length[i]
BY DEF OneBank, TempImages, Needs

-----------------------------------------------------------------------------
(* What the steps leave alone.                                             *)

LEMMA BootPost ==
  ASSUME OrderInv, NEW m \in AppMessage \ {"STACK_READY"}, Post(m), Queued({"STACK_READY"})'
  PROVE  Queued({"STACK_READY"})
<1>1. /\ Len(ioQueue) \in Nat /\ Len(ioQueue') = Len(ioQueue) + 1
      /\ \A n \in 1 .. Len(ioQueue) : ioQueue'[n] = ioQueue[n]
      /\ ioQueue'[Len(ioQueue) + 1] = m
  BY QueueAppend DEF OrderInv
<1> QED BY <1>1 DEF Queued

LEMMA BootTake ==
  ASSUME OrderInv, NEW m, Take(m)
  PROVE  /\ Queued({"STACK_READY"})' => Queued({"STACK_READY"})
         /\ m = "STACK_READY" => Queued({"STACK_READY"})
<1>1. /\ Len(ioQueue) \in Nat /\ Len(ioQueue) > 0 /\ ioQueue[1] = m
      /\ Len(ioQueue') = Len(ioQueue) - 1
      /\ \A n \in 1 .. Len(ioQueue) - 1 : ioQueue'[n] = ioQueue[n + 1]
  BY Taken
<1>2. \A n \in 1 .. Len(ioQueue') : n + 1 \in 1 .. Len(ioQueue) /\ ioQueue'[n] = ioQueue[n + 1]
  BY <1>1
<1> QED BY <1>1, <1>2 DEF Queued

(* Before the device advertises nothing of a session exists; nothing but a *)
(* restart brings it back there.                                           *)
LEMMA BootingStill ==
  ASSUME LinkLossReset, TypeInv, BootFresh, [Next]_vars, Booting'
  PROVE  \/ /\ Booting /\ UNCHANGED <<tempVars, buffer_check_en>>
            /\ Running' => Running /\ flash' = flash
         \/ ServiceReset /\ \E f \in Flash : flash' = BootFlash(f) /\ ~NewFirmware(f)
<1> USE DEF serviceVars, tempVars, modeVars, appVars, stackVars
<1> DEFINE Still == /\ Booting /\ UNCHANGED <<tempVars, buffer_check_en>>
                    /\ Running' => Running /\ flash' = flash
           Fresh == ServiceReset /\ \E f \in Flash : flash' = BootFlash(f) /\ ~NewFirmware(f)
<1>1. OrderInv /\ LinkOrder BY DEF TypeInv, OrderInv
<1>2. Booting => link = "down" BY <1>1 DEF LinkOrder, Booting, Queued
<1>3. ASSUME link = "up", UNCHANGED <<ioQueue, advertising>> PROVE FALSE
  BY <1>2, <1>3 DEF Booting, Queued
<1>4. ASSUME UNCHANGED <<ioQueue, advertising, tempVars, buffer_check_en>>,
             Running' => Running /\ flash' = flash
      PROVE  Still
  BY <1>4 DEF Booting, Queued
<1>5. ASSUME NEW m \in AppMessage \ {"STACK_READY"}, Post(m), advertising' => advertising,
             UNCHANGED <<flash, tempVars, buffer_check_en>>, Running
      PROVE  Still
  BY <1>1, <1>5, BootPost DEF Booting
<1>6. ASSUME NEW m, Take(m), advertising' => advertising \/ m = "STACK_READY",
             UNCHANGED <<flash, tempVars, buffer_check_en>>
      PROVE  Still
  BY <1>1, <1>6, BootTake DEF Booting, Take
<1>7. CASE Connect BY <1>5, <1>7 DEF Connect, LinkUp, AppMessage
<1>8. CASE SendHello
  BY <1>3, <1>4, <1>8 DEF SendHello, WriteBufferCheckEn, deviceVars, Running
<1>9. CASE SendTargetInfo BY <1>3, <1>9 DEF SendTargetInfo, WriteReportTargetInfo
<1>10. CASE SendStart BY <1>3, <1>10 DEF SendStart, WriteStartDfu
<1>11. CASE SendImageInfo BY <1>3, <1>11 DEF SendImageInfo, WriteReceiveFwImageInfo
<1>12. CASE SendValidFw
  BY <1>4, <1>5, <1>12 DEF SendValidFw, WriteValidFw, ValidFw, AppMessage, stackVars
<1>13. CASE SendPacket
  <2>1. \/ UNCHANGED deviceVars
        \/ link = "up" /\ UNCHANGED <<ioQueue, advertising>>
    BY <1>13 DEF SendPacket, WritePacket
  <2> QED BY <1>3, <1>4, <2>1 DEF deviceVars, Running
<1>14. CASE SendBufferCrc BY <1>3, <1>14 DEF SendBufferCrc, WriteReportBufferCrc
<1>15. CASE SendActiveImageReset \/ SendSystemReset
  <2>1. link = "up" /\ UNCHANGED <<ioQueue, advertising>>
    BY <1>15 DEF SendActiveImageReset, WriteActiveImageReset, SendSystemReset, WriteSystemReset
  <2> QED BY <1>3, <2>1
<1>16. CASE ReceiveNotification BY <1>3, <1>16 DEF ReceiveNotification
<1>17. CASE SendConnParaUpdateReq
  BY <1>3, <1>17 DEF SendConnParaUpdateReq, WriteConnParaUpdateReq
<1>18. CASE LoseLink BY <1>5, <1>18 DEF LoseLink, LinkDown, AppMessage
<1>19. ASSUME NEW f \in Flash, DeviceRestart(f) PROVE Still \/ Fresh
  <2>1. CASE RestartNew(f) BY <1>4, <2>1 DEF RestartNew, Running
  <2>2. CASE RestartOld(f) /\ ~NewFirmware(f) BY <2>2 DEF RestartOld
  <2> QED BY <1>19, <2>1, <2>2 DEF DeviceRestart
<1>20. CASE DeviceTask
  <2>1. CASE CompleteValidFw
    <3>1. checking # {} /\ UNCHANGED <<ioQueue, advertising>>
      BY <2>1 DEF CompleteValidFw, EndValidFw
    <3>2. ~advertising BY <1>1, <3>1 DEF LinkOrder, CheckPending
    <3>3. ~Queued({"STACK_READY"}) BY <3>1 DEF BootFresh, Queued
    <3> QED BY <3>1, <3>2, <3>3 DEF Booting, Queued
  <2>2. CASE HandleValidFw BY <1>6, <2>2 DEF HandleValidFw, BeginValidFw
  <2>3. CASE HandleDisconnected
    <3>1. Take("DISCONNECTED") /\ UNCHANGED <<advertising, flash, tempVars, buffer_check_en>>
      <4>1. LinkLossReset = TRUE BY AppAssumption
      <4> QED BY <2>3, <4>1, AppAssumption DEF HandleDisconnected
    <3> QED BY <1>6, <3>1
  <2> QED BY <1>6, <1>20, <2>1, <2>2, <2>3 DEF DeviceTask, AppTask, HandleStackReady,
          HandleConnected, HandleParamUpdate
<1>21. CASE TimerStep BY <1>4, <1>21, TimerMoves
<1>22. CASE ParamProcedure
  BY <1>5, <1>22 DEF ParamProcedure, ParamUpdated, AppMessage
<1>23. CASE UNCHANGED vars BY <1>4, <1>23 DEF vars, deviceVars, Running
<1>24. CASE RestartAfterReset \/ PowerLoss
  <2>1. \E f \in Flash : DeviceRestart(f)
    BY <1>24, UnderWayTyped DEF RestartAfterReset, PowerLoss
  <2> QED BY <1>19, <2>1
<1> QED BY <1>7, <1>8, <1>9, <1>10, <1>11, <1>12, <1>13, <1>14, <1>15, <1>16, <1>17, <1>18,
           <1>20, <1>21, <1>22, <1>23, <1>24 DEF Next, ClientStep

(* An answer that is neither that of START nor that of VALID_FW.           *)
QuietAnswer ==
  notif' = notif \/ \E r : r.op \notin {"START", "VALID_FW"} /\ notif' = Append(notif, r)

LEMMA QuietNotify ==
  ASSUME NEW op, NEW status, NEW offset, op \notin {"START", "VALID_FW"},
         Notify(op, status, offset)
  PROVE  QuietAnswer
<1>1. [op |-> op, status |-> status, offset |-> offset].op = op OBVIOUS
<1> QED BY <1>1 DEF Notify, QuietAnswer

LEMMA QuietOlder ==
  ASSUME QuietAnswer, \E R : notif \in Seq(R)
  PROVE  \A n \in 1 .. Len(notif') : notif'[n].op \in {"START", "VALID_FW"} =>
           n \in 1 .. Len(notif) /\ notif'[n] = notif[n]
<1>1. CASE notif' = notif BY <1>1
<1>2. ASSUME NEW r, r.op \notin {"START", "VALID_FW"}, notif' = Append(notif, r)
      PROVE  \A n \in 1 .. Len(notif') : notif'[n].op \in {"START", "VALID_FW"} =>
               n \in 1 .. Len(notif) /\ notif'[n] = notif[n]
  <2>1. /\ Len(notif) \in Nat /\ Len(notif') = Len(notif) + 1 /\ notif'[Len(notif) + 1] = r
        /\ \A n \in 1 .. Len(notif) : notif'[n] = notif[n]
    BY <1>2, NotifAppend
  <2> QED BY <1>2, <2>1
<1> QED BY <1>1, <1>2 DEF QuietAnswer

(* The steps of the device's tasks and timers, save the end of a check.    *)
Task ==
  (DeviceTask /\ ~CompleteValidFw) \/ TimerStep \/ ParamProcedure \/ SendConnParaUpdateReq
    \/ UNCHANGED vars
LEMMA TaskQuiet ==
  ASSUME TypeInv, Task
  PROVE  /\ UNCHANGED <<flash, image_id, cur_offset, tmp_buf, modeVars, tempVars, clientVars, link>>
         /\ QuietAnswer /\ (Running' => Running) /\ (CheckPending' => CheckPending)
<1> USE DEF serviceVars, headVars, xferVars, stackVars
<1>1. OrderInv BY DEF TypeInv
<1>2. CASE DeviceTask /\ ~CompleteValidFw
  <2>1. UNCHANGED <<flash, image_id, cur_offset, tmp_buf, modeVars, tempVars, clientVars, link>>
        /\ Running
    BY <1>2 DEF DeviceTask, AppTask, HandleStackReady, HandleConnected, HandleDisconnected,
         HandleParamUpdate, HandleValidFw, BeginValidFw, Take
  <2>2. QuietAnswer
    BY <1>2, QuietNotify
       DEF DeviceTask, AppTask, HandleStackReady, HandleConnected, HandleDisconnected,
         HandleParamUpdate, HandleValidFw, BeginValidFw, QuietAnswer
  <2>3. CheckPending' => CheckPending
    <3>1. CASE HandleValidFw
      <4>1. Take("VALID_FW") BY <3>1 DEF HandleValidFw
      <4>2. 1 \in 1 .. Len(ioQueue) /\ ioQueue[1] = "VALID_FW" BY <1>1, <4>1, Taken
      <4> QED BY <4>2 DEF CheckPending, Queued
    <3>2. CASE ~HandleValidFw
      <4>1. checking' = checking /\ \E m : Take(m)
        BY <1>2, <3>2 DEF DeviceTask, AppTask, HandleStackReady, HandleConnected,
             HandleDisconnected, HandleParamUpdate, checkVars
      <4> QED BY <1>1, <4>1, NoNewCheck
    <3> QED BY <3>1, <3>2
  <2> QED BY <2>1, <2>2, <2>3
<1>3. CASE TimerStep \/ UNCHANGED vars
  <2>1. UNCHANGED <<flash, image_id, cur_offset, tmp_buf, modeVars, tempVars, clientVars, link,
                    notif, ioQueue, checking>>
    BY <1>3, TimerMoves DEF vars, deviceVars, checkVars, appVars
  <2>2. Running' => Running
    BY <1>3, TimerMoves DEF vars, deviceVars, appVars, Running
  <2> QED BY <1>1, <2>1, <2>2, NoNewCheck DEF QuietAnswer
<1>4. CASE ParamProcedure
  <2>1. UNCHANGED <<flash, image_id, cur_offset, tmp_buf, modeVars, tempVars, clientVars, link,
                    notif, checking>>
        /\ Running /\ \E m \in {"PARAM_SUCCESS", "PARAM_FAIL"} : Post(m)
    BY <1>4 DEF ParamProcedure, ParamUpdated, checkVars
  <2>2. \E m \in AppMessage \ {"VALID_FW"} : Post(m) BY <2>1 DEF AppMessage
  <2> QED BY <1>1, <2>1, <2>2, NoNewCheck DEF QuietAnswer
<1>5. CASE SendConnParaUpdateReq
  <2>1. UNCHANGED <<flash, image_id, cur_offset, tmp_buf, modeVars, tempVars, clientVars, link,
                    ioQueue, checking>> /\ Running
    BY <1>5 DEF SendConnParaUpdateReq, WriteConnParaUpdateReq, checkVars
  <2>2. QuietAnswer
    BY <1>5, QuietNotify DEF SendConnParaUpdateReq, WriteConnParaUpdateReq, QuietAnswer
  <2> QED BY <1>1, <2>1, <2>2, NoNewCheck
<1> QED BY <1>2, <1>3, <1>4, <1>5 DEF Task

(* A client that does not wait for VALID_FW has no check under way.        *)
LEMMA NoCheck ==
  ASSUME TypeInv, Running, cst # "off", wait # "VALID_FW"
  PROVE  ~CheckPending /\ ~Notified("VALID_FW") /\ ~Accepted
<1>1. CheckOrder /\ ClientOff BY DEF TypeInv, OrderInv
<1> QED BY <1>1 DEF CheckOrder, ClientOff, Notified, Accepted

(* The client's requests, save START.                                      *)
Request ==
  \/ SendHello \/ SendTargetInfo \/ SendImageInfo \/ SendPacket \/ SendBufferCrc \/ SendValidFw
  \/ SendActiveImageReset \/ SendSystemReset
LEMMA RequestQuiet ==
  ASSUME Request
  PROVE  /\ wait = "none" /\ wait' # "START" /\ cst # "off" /\ cst' # "off"
         /\ UNCHANGED <<tempVars, plan, sendMode>>
         /\ QuietAnswer /\ (Running' => Running)
<1> USE DEF serviceVars, tempVars, Ready
<1>1. CASE SendHello
  <2>1. /\ wait = "none" /\ wait' # "START" /\ cst = "hello" /\ cst' # "off"
        /\ UNCHANGED <<plan, sendMode>>
    BY <1>1 DEF SendHello
  <2>2. CASE UNCHANGED deviceVars
    BY <2>1, <2>2 DEF deviceVars, appVars, Running, QuietAnswer
  <2>3. CASE WriteBufferCheckEn
    BY <2>1, <2>3, QuietNotify DEF WriteBufferCheckEn, BufferCheckEn
  <2> QED BY <1>1, <2>2, <2>3 DEF SendHello
<1>2. CASE SendTargetInfo
  BY <1>2, QuietNotify DEF SendTargetInfo, WriteReportTargetInfo, ReportTargetInfo
<1>3. CASE SendImageInfo
  BY <1>3 DEF SendImageInfo, WriteReceiveFwImageInfo, ReceiveFwImageInfo, QuietAnswer
<1>4. CASE SendPacket
  <2>1. /\ wait = "none" /\ wait' # "START" /\ cst = "send" /\ cst' # "off"
        /\ UNCHANGED <<plan, sendMode>>
    BY <1>4 DEF SendPacket
  <2>2. CASE UNCHANGED deviceVars
    BY <2>1, <2>2 DEF deviceVars, appVars, Running, QuietAnswer
  <2>3. ASSUME NEW cell, NEW mayFail, WritePacket(cell, mayFail)
        PROVE  Running /\ UNCHANGED <<tempVars, notif>>
    BY <2>3 DEF WritePacket, PacketReq
  <2> QED BY <1>4, <2>1, <2>2, <2>3 DEF SendPacket, QuietAnswer
<1>5. CASE SendBufferCrc
  <2>1. PICK crcOk, mayFail : WriteReportBufferCrc(chunk, crcOk, mayFail)
    BY <1>5 DEF SendBufferCrc
  <2>2. Running /\ link = "up" /\ BufferCheckProcess(chunk, crcOk, mayFail)
    BY <2>1 DEF WriteReportBufferCrc
  <2>3. UNCHANGED tempVars /\ \E r : r.op = "BUFFER_CRC" /\ notif' = Append(notif, r)
    BY <2>2, BufferCheckEnds
  <2>4. QuietAnswer BY <2>3 DEF QuietAnswer
  <2> QED BY <1>5, <2>2, <2>3, <2>4 DEF SendBufferCrc
<1>6. CASE SendValidFw
  BY <1>6 DEF SendValidFw, WriteValidFw, ValidFw, QuietAnswer
<1>7. CASE SendActiveImageReset
  BY <1>7 DEF SendActiveImageReset, WriteActiveImageReset, ActiveImageReset, QuietAnswer
<1>8. CASE SendSystemReset
  BY <1>8 DEF SendSystemReset, WriteSystemReset, SystemReset, QuietAnswer
<1> QED BY <1>1, <1>2, <1>3, <1>4, <1>5, <1>6, <1>7, <1>8 DEF Request

LEMMA StartOrderFrame ==
  ASSUME StartOrder, \E R : notif \in Seq(R), Running' => Running,
         wait' = wait \/ wait # "START",
         notif' = notif \/ \E r : r.op # "START" /\ notif' = Append(notif, r)
  PROVE  StartOrder'
<1>1. CASE notif' = notif BY <1>1 DEF StartOrder
<1>2. ASSUME NEW r, r.op # "START", notif' = Append(notif, r) PROVE StartOrder'
  <2>1. /\ Len(notif) \in Nat /\ Len(notif') = Len(notif) + 1 /\ notif'[Len(notif) + 1] = r
        /\ \A n \in 1 .. Len(notif) : notif'[n] = notif[n]
    BY <1>2, NotifAppend
  <2>2. \A n \in 1 .. Len(notif') :
          notif'[n].op = "START" => n \in 1 .. Len(notif) /\ notif[n].op = "START"
    BY <1>2, <2>1
  <2> QED BY <2>2 DEF StartOrder
<1> QED BY <1>1, <1>2

(* An answer under way is the answer of its request.                       *)
LEMMA StartOrderStep ==
  ASSUME TypeInv, StartOrder, [Next]_vars
  PROVE  StartOrder'
<1>1. \E R : notif \in Seq(R) BY DEF TypeInv, OrderInv, Queues
<1>2. ASSUME notif' = << >> PROVE StartOrder' BY <1>2 DEF StartOrder
<1>3. CASE Connect BY <1>1, <1>3, StartOrderFrame DEF Connect, LinkUp
<1>4. CASE Request
  <2>1. wait # "START" /\ QuietAnswer /\ (Running' => Running) BY <1>4, RequestQuiet
  <2>2. notif' = notif \/ \E r : r.op # "START" /\ notif' = Append(notif, r)
    BY <2>1 DEF QuietAnswer
  <2> QED BY <1>1, <2>1, <2>2, StartOrderFrame
<1>5. CASE SendStart
  <2>1. Running /\ wait = "none" /\ wait' = "START" /\ link = "up"
    BY <1>5 DEF SendStart, Ready, WriteStartDfu
  <2>2. PICK r : r.op = "START" /\ notif' = Append(notif, r)
    <3>1. PICK status : Notify("START", status, 0)
      BY <1>5 DEF SendStart, WriteStartDfu, StartDfu
    <3> QED BY <2>1, <3>1 DEF Notify
  <2>3. /\ Len(notif) \in Nat /\ Len(notif') = Len(notif) + 1
        /\ \A n \in 1 .. Len(notif) : notif'[n] = notif[n]
    BY <1>1, <2>2, NotifAppend
  <2>4. \A n \in 1 .. Len(notif) : notif[n].op # "START" BY <2>1 DEF StartOrder
  <2>5. \A n \in 1 .. Len(notif') : notif'[n].op = "START" => n = Len(notif) + 1
    BY <2>3, <2>4
  <2> QED BY <2>1, <2>5 DEF StartOrder
<1>6. CASE ReceiveNotification
  <2>1. /\ Running /\ notif # << >> /\ notif' = Tail(notif) /\ UNCHANGED reset
        /\ wait' = wait \/ (Head(notif).op = wait /\ wait' = "none")
    BY <1>6 DEF ReceiveNotification, Answered, appVars
  <2>2. /\ Len(notif) \in Nat /\ Len(notif) > 0 /\ Head(notif) = notif[1]
        /\ Len(notif') = Len(notif) - 1
        /\ \A n \in 1 .. Len(notif) - 1 : notif'[n] = notif[n + 1]
    BY <1>1, <2>1, QueueTail
  <2>3. \A n \in 1 .. Len(notif') : n + 1 \in 1 .. Len(notif) /\ notif'[n] = notif[n + 1]
    BY <2>2
  <2>4. 1 \in 1 .. Len(notif) BY <2>2
  <2>5. ASSUME NEW n \in 1 .. Len(notif'), notif'[n].op = "START" PROVE wait' = "START"
    <3>1. wait = "START" BY <2>1, <2>3, <2>5 DEF StartOrder
    <3>2. n + 1 # 1 BY <2>2, <2>5
    <3>3. notif[1].op # "START" BY <2>3, <2>4, <2>5, <3>2 DEF StartOrder
    <3> QED BY <2>1, <2>2, <3>1, <3>3
  <2>6. ASSUME NEW n \in 1 .. Len(notif'), NEW k \in 1 .. Len(notif'),
               notif'[n].op = "START", notif'[k].op = "START"
        PROVE  n = k
    <3>1. n + 1 = k + 1 BY <2>3, <2>6 DEF StartOrder
    <3> QED BY <2>2, <2>6, <3>1
  <2> QED BY <2>5, <2>6 DEF StartOrder
<1>7. CASE LoseLink BY <1>2, <1>7 DEF LoseLink, LinkDown
<1>8. ASSUME NEW f, DeviceRestart(f) PROVE StartOrder'
  <2>1. CASE RestartOld(f) BY <1>2, <2>1 DEF RestartOld
  <2>2. CASE RestartNew(f)
    <3>1. notif' = notif /\ ~Running' BY <2>2 DEF RestartNew, Running
    <3> QED BY <3>1 DEF StartOrder
  <2> QED BY <1>8, <2>1, <2>2 DEF DeviceRestart
<1>9. CASE DeviceTask /\ CompleteValidFw
  <2>1. Running /\ UNCHANGED <<wait, reset>> BY <1>9 DEF DeviceTask, CompleteValidFw, clientVars, appVars
  <2>2. notif' = notif \/ \E r : r.op # "START" /\ notif' = Append(notif, r)
    BY <1>9 DEF CompleteValidFw, EndValidFw, Notify
  <2> QED BY <1>1, <2>1, <2>2, StartOrderFrame DEF Running
<1>10. CASE Task
  <2>1. UNCHANGED wait /\ QuietAnswer /\ (Running' => Running) BY <1>10, TaskQuiet DEF clientVars
  <2> QED BY <1>1, <2>1, StartOrderFrame DEF QuietAnswer
<1> QED BY <1>3, <1>4, <1>5, <1>6, <1>7, <1>8, <1>9, <1>10
        DEF Next, ClientStep, RestartAfterReset, PowerLoss, Request, Task

LEMMA AskedStep ==
  ASSUME TypeInv, Asked, [Next]_vars
  PROVE  Asked'
<1> USE DEF Asked, Ready
<1>1. CASE Connect
  <2>1. wait = "none" /\ wait' = wait BY <1>1 DEF Connect, TypeInv, PlanInv
  <2> QED BY <2>1
<1>2. CASE Request
  <2>1. wait = "none" /\ wait' # "START" BY <1>2, RequestQuiet
  <2>2. CASE SendHello BY <2>1, <2>2 DEF SendHello
  <2>3. CASE SendTargetInfo BY <2>3 DEF SendTargetInfo
  <2>4. CASE SendBufferCrc BY <2>4 DEF SendBufferCrc
  <2>5. CASE SendValidFw BY <2>5 DEF SendValidFw
  <2>6. CASE SendImageInfo \/ SendPacket \/ SendActiveImageReset \/ SendSystemReset
    BY <2>1, <2>6 DEF SendImageInfo, SendPacket, SendActiveImageReset, SendSystemReset
  <2> QED BY <1>2, <2>2, <2>3, <2>4, <2>5, <2>6 DEF Request
<1>3. CASE SendStart BY <1>3 DEF SendStart
<1>4. CASE ReceiveNotification BY <1>4 DEF ReceiveNotification, Answered
<1>5. CASE LoseLink \/ RestartAfterReset \/ PowerLoss
  BY <1>5 DEF LoseLink, RestartAfterReset, PowerLoss, ClientGone
<1>6. CASE DeviceTask /\ CompleteValidFw BY <1>6 DEF DeviceTask, clientVars
<1>7. CASE Task BY <1>7, TaskQuiet DEF clientVars
<1> QED BY <1>1, <1>2, <1>3, <1>4, <1>5, <1>6, <1>7 DEF Next, ClientStep, Request, Task

LEMMA FreshTableStep ==
  ASSUME LinkLossReset, TypeInv, BootFresh, FreshTable, [Next]_vars
  PROVE  FreshTable'
<1> SUFFICES ASSUME Booting'
             PROVE  temp_image_num' = 0 /\ \A n \in 0 .. MaxTemp : temp_image_info'[n] = NoInfo
  BY DEF FreshTable
<1>1. CASE Booting /\ UNCHANGED tempVars BY <1>1 DEF FreshTable, tempVars
<1>2. CASE ServiceReset BY <1>2 DEF ServiceReset
<1> QED BY <1>1, <1>2, BootingStill

-----------------------------------------------------------------------------
(* The table, step by step.                                                *)

OrderKept == FreshTable' /\ StartOrder' /\ Asked'

LEMMA TableStopped ==
  ASSUME TableInv, OrderKept, UNCHANGED tempVars, ~Running'
  PROVE  TableInv'
BY DEF TableInv, OrderKept, Listed, Beyond, TempEntries, TempEnd, tempVars

(* A step that adds no answer of START or VALID_FW and sends nothing new.  *)
LEMMA TableFrame ==
  ASSUME TableInv, OrderKept, UNCHANGED tempVars, Running' => Running,
         \A n \in 1 .. Len(notif') : notif'[n].op \in {"START", "VALID_FW"} =>
           \E m \in 1 .. Len(notif) : notif[m] = notif'[n],
         Opening' => Opening,
         cst' = "info" \/ Transfers' \/ CheckPending' =>
           (cst = "info" \/ Transfers \/ CheckPending) /\ image_id' = image_id,
         cst' = "info" \/ wait' = "START" =>
           (cst = "info" \/ wait = "START") /\ UNCHANGED <<image_id, plan>>,
         Notified("START")' => image_id' = image_id,
         Sending' => Sending /\ plan' = plan,
         Accepted' => plan' = plan
  PROVE  TableInv'
<1>1. CASE ~Running' BY <1>1, TableStopped
<1>2. CASE Running'
  <2>1. Running /\ Opened /\ Placed /\ Named /\ Started /\ Roomy BY <1>2 DEF TableInv
  <2>2. UNCHANGED <<temp_image_num, temp_image_info>> BY DEF tempVars
  <2>3. TempEnd' = TempEnd BY <2>2 DEF TempEnd
  <2>4. image_id' = image_id => PlacedImage' = PlacedImage BY <2>2, <2>3 DEF PlacedImage, EntryOf
  <2>5. Listed' /\ Beyond' BY <2>2, <2>3 DEF TableInv, Listed, Beyond, TempEntries
  <2>6. Opened' BY <2>1, <2>2 DEF Opened
  <2>7. Placed' BY <2>1, <2>4 DEF Placed
  <2>8. Named' BY <2>1 DEF Named, img
  <2>9. Started'
    <3> SUFFICES ASSUME NEW n \in 1 .. Len(notif'), notif'[n].op = "START",
                        notif'[n].status = "SUCCESS"
                 PROVE  PlacedImage'
      BY DEF Started
    <3>1. image_id' = image_id BY DEF Notified
    <3>2. PlacedImage BY <2>1 DEF Started
    <3> QED BY <2>4, <3>1, <3>2
  <2>10. Accepted' => Accepted BY DEF Accepted
  <2>11. Roomy' BY <2>1, <2>2, <2>3, <2>10 DEF Roomy
  <2> QED BY <2>5, <2>6, <2>7, <2>8, <2>9, <2>11 DEF TableInv, OrderKept
<1> QED BY <1>1, <1>2

(* An answer taken from the front.                                         *)
LEMMA Received ==
  ASSUME TypeInv, ReceiveNotification
  PROVE  /\ \A n \in 1 .. Len(notif') : n + 1 \in 1 .. Len(notif) /\ notif'[n] = notif[n + 1]
         /\ 1 \in 1 .. Len(notif) /\ Head(notif) = notif[1]
         /\ Running /\ Running' /\ link = "up"
         /\ UNCHANGED <<tempVars, flash, image_id, cur_offset, tmp_buf, modeVars, sendMode, link>>
         /\ CheckPending' = CheckPending
<1>1. \E R : notif \in Seq(R) BY DEF TypeInv, OrderInv, Queues
<1>2. /\ Running /\ notif # << >> /\ notif' = Tail(notif) /\ link = "up"
      /\ UNCHANGED <<tempVars, flash, image_id, cur_offset, tmp_buf, modeVars, sendMode, link,
                     reset, checking, ioQueue>>
  BY DEF ReceiveNotification, serviceVars, headVars, xferVars, checkVars, appVars
<1>3. /\ Len(notif) \in Nat /\ Len(notif) > 0 /\ Head(notif) = notif[1]
      /\ Len(notif') = Len(notif) - 1
      /\ \A n \in 1 .. Len(notif) - 1 : notif'[n] = notif[n + 1]
  BY <1>1, <1>2, QueueTail
<1>4. \A n \in 1 .. Len(notif') : n + 1 \in 1 .. Len(notif) /\ notif'[n] = notif[n + 1]
  BY <1>3
<1>5. 1 \in 1 .. Len(notif) BY <1>3
<1>6. CheckPending' = CheckPending BY <1>2 DEF CheckPending, Queued
<1> QED BY <1>2, <1>3, <1>4, <1>5, <1>6 DEF Running

LEMMA StartDefinite ==
  ASSUME NEW n \in 1 .. Len(notif), NEW op, notif[n].op = op
  PROVE  Notified(op)
BY DEF Notified

LEMMA AnswerKeepsTable ==
  ASSUME TypeInv, WindowInv, TableInv, OrderKept, ReceiveNotification
  PROVE  TableInv'
<1> DEFINE m == Head(notif)
<1>1. /\ \A n \in 1 .. Len(notif') : n + 1 \in 1 .. Len(notif) /\ notif'[n] = notif[n + 1]
      /\ 1 \in 1 .. Len(notif) /\ m = notif[1]
      /\ Running /\ Running' /\ link = "up"
      /\ UNCHANGED <<tempVars, image_id, link>> /\ CheckPending' = CheckPending
  BY Received
<1>2. /\ CheckOrder /\ StartOrder /\ StartsAtZero /\ PlanInv /\ Asked
      /\ Opened /\ Placed /\ Named /\ Started /\ Roomy
  BY <1>1 DEF TypeInv, OrderInv, WindowInv, TableInv
<1>3. IF m.op = wait THEN Answered(m) ELSE UNCHANGED <<cst, wait, plan, coff, chunk>>
  BY DEF ReceiveNotification
<1>4. \A n \in 1 .. Len(notif') : \E k \in 1 .. Len(notif) : notif[k] = notif'[n]
  BY <1>1
<1> HIDE DEF m
<1>5. ASSUME Opening' => Opening, cst' = "info" => cst = "info", Transfers' => Transfers,
             wait' = "START" => wait = "START", Sending' => Sending, plan' = plan
      PROVE  TableInv'
  <2>1. cst' = "info" \/ Transfers' \/ CheckPending' =>
          (cst = "info" \/ Transfers \/ CheckPending) /\ image_id' = image_id
    BY <1>1, <1>5
  <2> QED BY <1>1, <1>4, <1>5, <2>1, TableFrame
<1>6. CASE m.op # wait
  <2>1. UNCHANGED <<cst, wait, plan>> BY <1>3, <1>6
  <2>2. Opening' = Opening /\ Transfers' = Transfers /\ Sending' = Sending
    BY <1>1, <2>1 DEF Opening, Transfers, Sending
  <2> QED BY <1>5, <2>1, <2>2
<1>7. CASE m.op = wait /\ m.op = "BUFFER_CHECK_EN"
  <2>1. cst = "hello" /\ cst' = "pick" /\ wait' = "none" /\ plan' = plan
    BY <1>2, <1>3, <1>7 DEF Answered, Asked
  <2> QED BY <1>1, <1>5, <2>1 DEF Opening, Transfers, Sending
<1>8. CASE m.op = wait /\ m.op = "TARGET_INFO"
  <2>1. cst = "pick" /\ cst' = "start" /\ wait' = "none" /\ plan' = plan
    BY <1>2, <1>3, <1>8 DEF Answered, Asked
  <2> QED BY <1>1, <1>5, <2>1 DEF Opening, Transfers, Sending
<1>9. CASE m.op = wait /\ m.op = "BUFFER_CRC"
  <2>1. cst = "send" /\ cst' \in {"send", "abort"} /\ wait' = "none" /\ plan' = plan
        /\ wait = "BUFFER_CRC"
    BY <1>2, <1>3, <1>9 DEF Answered, PlanInv
  <2> QED BY <1>1, <1>5, <2>1 DEF Opening, Transfers, Sending
<1>10. CASE m.op = wait /\ m.op = "START"
  <2>1. cst = "start" /\ wait = "START" /\ wait' = "none" /\ plan' = plan
        /\ cst' = IF m.status = "SUCCESS" THEN "info" ELSE "abort"
    BY <1>2, <1>3, <1>10 DEF Answered, StartsAtZero
  <2>2. ~CheckPending BY <1>1, <1>2, <2>1 DEF CheckOrder
  <2>3. CASE m.status # "SUCCESS"
    BY <1>1, <1>5, <2>1, <2>2, <2>3 DEF Opening, Transfers, Sending
  <2>4. CASE m.status = "SUCCESS"
    <3>1. PlacedImage /\ image_id = img /\ Fits(plan, TempEnd)
      BY <1>1, <1>2, <1>10, <2>1, <2>4 DEF Started, Named, Roomy, Sending
    <3>2. UNCHANGED <<temp_image_num, temp_image_info>> BY <1>1 DEF tempVars
    <3>3. TempEnd' = TempEnd BY <3>2 DEF TempEnd
    <3>4. PlacedImage' BY <1>1, <3>1, <3>2, <3>3 DEF PlacedImage, EntryOf
    <3>5. Listed' /\ Beyond' BY <3>2, <3>3 DEF TableInv, Listed, Beyond, TempEntries
    <3>6. cst' = "info" BY <2>1, <2>4
    <3>7. Opened' /\ Placed' /\ Started' BY <2>1, <3>4, <3>6 DEF Opened, Opening, Placed, Started
    <3>8. Named' BY <1>1, <2>1, <3>1 DEF Named, img
    <3>9. ~Notified("VALID_FW") BY <1>1, <1>2, <2>1 DEF CheckOrder
    <3>10. ~Accepted' BY <1>4, <3>9 DEF Accepted, Notified
    <3>11. Roomy' BY <2>1, <3>1, <3>3, <3>10 DEF Roomy
    <3> QED BY <3>5, <3>7, <3>8, <3>11 DEF TableInv, OrderKept
  <2> QED BY <2>3, <2>4
<1>11. CASE m.op = wait /\ m.op = "VALID_FW"
  <2>1. cst = "send" /\ wait = "VALID_FW" /\ wait' = "none"
        /\ IF m.status = "SUCCESS"
             THEN plan' = Tail(plan) /\ cst' = IF Tail(plan) = << >> THEN "valid" ELSE "pick"
             ELSE cst' = "abort" /\ UNCHANGED plan
    BY <1>2, <1>3, <1>11 DEF Answered, PlanInv
  <2>2. Notified("VALID_FW") BY <1>1, <1>11, StartDefinite
  <2>3. ~CheckPending BY <1>1, <1>2, <2>2 DEF CheckOrder
  <2>4. CASE m.status # "SUCCESS"
    BY <1>1, <1>5, <2>1, <2>3, <2>4 DEF Opening, Transfers, Sending
  <2>5. CASE m.status = "SUCCESS"
    <3>1. Accepted BY <1>1, <1>11, <2>5 DEF Accepted
    <3>2. temp_image_info[temp_image_num] = NoInfo /\ Fits(Tail(plan), TempEnd)
      BY <1>2, <3>1 DEF Roomy
    <3>3. UNCHANGED <<temp_image_num, temp_image_info>> BY <1>1 DEF tempVars
    <3>4. TempEnd' = TempEnd BY <3>3 DEF TempEnd
    <3>5. Listed' /\ Beyond' BY <3>3, <3>4 DEF TableInv, Listed, Beyond, TempEntries
    <3>6. plan' = Tail(plan) /\ cst' \in {"valid", "pick"} BY <2>1, <2>5
    <3>7. Opened' /\ Placed' /\ Named'
      BY <1>1, <2>1, <2>3, <3>2, <3>3, <3>6 DEF Opened, Placed, Transfers, Named
    <3>8. \A n \in 1 .. Len(notif) : notif[n].op # "START" BY <1>1, <1>2, <2>1 DEF StartOrder
    <3>9. Started' BY <1>1, <3>8 DEF Started
    <3>10. ~Accepted'
      <4> SUFFICES ASSUME NEW n \in 1 .. Len(notif'), notif'[n].op = "VALID_FW" PROVE FALSE
        BY DEF Accepted
      <4>1. n + 1 = 1 BY <1>1, <1>2, <1>11 DEF CheckOrder
      <4> QED BY <4>1
    <3>11. Roomy' BY <3>2, <3>4, <3>6, <3>10 DEF Roomy
    <3> QED BY <3>5, <3>7, <3>9, <3>11 DEF TableInv, OrderKept
  <2> QED BY <2>4, <2>5
<1> QED BY <1>3, <1>6, <1>7, <1>8, <1>9, <1>10, <1>11 DEF Answered

LEMMA ConnectKeepsTable ==
  ASSUME PackagesFit, TypeInv, TableInv, OrderKept, Connect
  PROVE  TableInv'
<1>1. /\ Running /\ Running' /\ advertising /\ cst = "off" /\ cst' = "hello" /\ wait' = wait
      /\ plan' \in Plans /\ Post("CONNECTED") /\ link' = "up"
      /\ UNCHANGED <<tempVars, notif, image_id, checking>>
  BY DEF Connect, LinkUp, serviceVars, headVars, checkVars, Running
<1>2. wait = "none" /\ OrderInv /\ LinkOrder /\ CheckOrder
  BY <1>1 DEF TypeInv, PlanInv, OrderInv
<1>3. ~CheckPending'
  <2>1. ~CheckPending BY <1>1, <1>2 DEF LinkOrder
  <2>2. "CONNECTED" \in AppMessage \ {"VALID_FW"} BY DEF AppMessage
  <2> QED BY <1>1, <1>2, <2>1, <2>2, NoNewCheck
<1>4. /\ temp_image_num' = 0 /\ temp_image_num = 0
      /\ \A n \in 0 .. MaxTemp : temp_image_info'[n] = NoInfo
  BY <1>1 DEF TableInv, FreshTable, Booting, tempVars
<1>5. 0 \in 0 .. MaxTemp BY BufferAssumption
<1>6. TempEnd' = 0 BY <1>4 DEF TempEnd
<1>7. \A n \in 1 .. Len(notif') : notif'[n].op \notin {"START", "VALID_FW"}
  BY <1>1, <1>2 DEF TableInv, StartOrder, CheckOrder, Notified
<1>8. Listed' BY <1>4 DEF Listed, TempEntries
<1>9. Beyond' /\ Opened' BY <1>4, <1>5 DEF Beyond, Opened
<1>10. Placed' /\ Named' BY <1>1, <1>2, <1>3 DEF Placed, Named, Transfers
<1>11. Started' /\ Roomy' BY <1>1, <1>6, <1>7 DEF Started, Roomy, Accepted, PackagesFit
<1> QED BY <1>8, <1>9, <1>10, <1>11 DEF TableInv, OrderKept

(* START places the image behind those the table lists.                    *)
LEMMA StartKeepsTable ==
  ASSUME ~BankSwitch, TypeInv, TableInv, OrderKept, SendStart
  PROVE  TableInv'
<1>1. PICK icTypeOk \in BOOLEAN : WriteStartDfu(img, icTypeOk) BY DEF SendStart
<1>2. /\ Running /\ Running' /\ link = "up" /\ cst \in {"start", "info"} /\ cst' = "start"
      /\ wait = "none" /\ wait' = "START" /\ plan' = plan /\ image_id' = img
      /\ UNCHANGED <<temp_image_num, ioQueue, checking>>
  BY <1>1 DEF SendStart, Ready, WriteStartDfu, StartDfu, checkVars, Running
<1>3. /\ ~CheckPending /\ ~Accepted /\ CheckPending' = CheckPending /\ OrderInv
      /\ \A n \in 1 .. Len(notif) : notif[n].op \notin {"START", "VALID_FW"}
  <2>1. ~CheckPending /\ ~Accepted /\ ~Notified("VALID_FW") BY <1>2, NoCheck
  <2> QED BY <1>2, <2>1 DEF CheckPending, Queued, TypeInv, Notified, TableInv, StartOrder
<1>4. /\ Roomy /\ Sending
      /\ temp_image_info[temp_image_num] \in {NoInfo, EntryOf(img)}
      /\ img \in UserImages => temp_image_info[temp_image_num] = NoInfo
  <2>1. CASE cst = "start" BY <1>2, <2>1 DEF TableInv, Opened, Opening, Sending
  <2>2. CASE cst = "info"
    BY <1>2, <2>2 DEF TableInv, Placed, Named, PlacedImage, Sending
  <2> QED BY <1>2, <2>1, <2>2
<1>5. img \in Images /\ temp_image_num \in 0 .. MaxTemp
      /\ temp_image_info \in [0 .. MaxTemp -> TempInfo]
  BY <1>2, PlanHead DEF TypeInv, TypeOK, DeviceTypeOK
<1>6. /\ \A n \in 0 .. MaxTemp : n # temp_image_num => temp_image_info'[n] = temp_image_info[n]
      /\ temp_image_info' = temp_image_info \/ (icTypeOk /\ img \notin UserImages)
      /\ icTypeOk => temp_image_info'[temp_image_num] =
                       IF img \in UserImages THEN NoInfo ELSE EntryOf(img)
  <2>1. IF icTypeOk THEN RecordTempImage(img) ELSE UNCHANGED temp_image_info
    BY <1>1 DEF WriteStartDfu, StartDfu
  <2>3. CASE ~icTypeOk \/ img \in UserImages BY <1>4, <2>1, <2>3 DEF RecordTempImage
  <2>4. CASE icTypeOk /\ img \notin UserImages
    BY <1>5, <2>1, <2>4 DEF RecordTempImage, EntryOf, TempEnd
  <2> QED BY <2>3, <2>4
<1>7. TempEnd' = TempEnd
  <2>1. temp_image_num # 0 =>
          temp_image_num - 1 \in 0 .. MaxTemp /\ temp_image_num - 1 # temp_image_num
    BY <1>5, BufferAssumption
  <2> QED BY <1>2, <1>6, <2>1 DEF TempEnd
<1>8. Listed'
  <2>1. TempEntries' = TempEntries /\ \A n \in TempEntries : temp_image_info'[n] = temp_image_info[n]
    BY <1>2, <1>5, <1>6, BufferAssumption DEF TempEntries
  <2> QED BY <1>7, <2>1 DEF TableInv, Listed
<1>9. Beyond'
  <2>1. \A n \in 0 .. MaxTemp : n > temp_image_num => n # temp_image_num
    BY <1>5, BufferAssumption
  <2> QED BY <1>2, <1>6, <2>1 DEF TableInv, Beyond
<1>10. Opened' /\ Placed' /\ Named'
  BY <1>2, <1>3 DEF Opened, Opening, Placed, Transfers, Named, img
<1>11. PICK r : /\ r.op = "START" /\ notif' = Append(notif, r)
                /\ r.status = "SUCCESS" => icTypeOk
  <2>1. Notify("START", IF icTypeOk THEN "SUCCESS" ELSE "INVALID_PARAMETER", 0)
    BY <1>1 DEF WriteStartDfu, StartDfu
  <2> QED BY <1>2, <2>1 DEF Notify
<1>12. \A n \in 1 .. Len(notif') :
         \/ notif'[n] = r
         \/ notif'[n].op \notin {"START", "VALID_FW"}
  <2>1. \E R : notif \in Seq(R) BY <1>3 DEF OrderInv, Queues
  <2>2. /\ Len(notif) \in Nat /\ Len(notif') = Len(notif) + 1 /\ notif'[Len(notif) + 1] = r
        /\ \A n \in 1 .. Len(notif) : notif'[n] = notif[n]
    BY <1>11, <2>1, NotifAppend
  <2>3. \A n \in 1 .. Len(notif') : n \in 1 .. Len(notif) \/ n = Len(notif) + 1 BY <2>2
  <2> QED BY <1>3, <2>2, <2>3
<1>13. Started'
  <2>1. icTypeOk => PlacedImage' BY <1>2, <1>5, <1>6, <1>7 DEF PlacedImage, EntryOf
  <2> QED BY <1>11, <1>12, <2>1 DEF Started
<1>14. Roomy'
  <2>1. ~Accepted' BY <1>11, <1>12 DEF Accepted
  <2> QED BY <1>2, <1>4, <1>7, <2>1 DEF Roomy
<1> QED BY <1>8, <1>9, <1>10, <1>13, <1>14 DEF TableInv, OrderKept

LEMMA RequestKeepsTable ==
  ASSUME TypeInv, TransferInv, TableInv, OrderKept, Request
  PROVE  TableInv'
<1>1. /\ wait = "none" /\ wait' # "START" /\ cst # "off" /\ cst' # "off"
      /\ UNCHANGED <<tempVars, plan, sendMode>> /\ QuietAnswer /\ (Running' => Running)
  BY RequestQuiet
<1>2. CASE ~Running' BY <1>1, <1>2, TableStopped
<1>3. CASE Running'
  <2>1. Running /\ ~CheckPending /\ ~Accepted /\ ~Notified("VALID_FW") BY <1>1, <1>3, NoCheck
  <2>2. \A n \in 1 .. Len(notif) : notif[n].op # "START"
    BY <1>1, <2>1 DEF TableInv, StartOrder
  <2>3. \A n \in 1 .. Len(notif') : notif'[n].op \notin {"START", "VALID_FW"}
    <3>1. \E R : notif \in Seq(R) BY DEF TypeInv, OrderInv, Queues
    <3> QED BY <1>1, <2>1, <2>2, <3>1, QuietOlder DEF Notified
  <2>4. ~Accepted' /\ ~Notified("START")' BY <2>3 DEF Accepted, Notified
  <2>5. ASSUME Opening' => Opening, cst' = "info" => cst = "info", Transfers' => Transfers,
               Transfers' => image_id' = image_id, cst' # "info", CheckPending' = CheckPending
        PROVE  TableInv'
    <3>1. Sending' => Sending BY <1>1, <2>1, <2>5 DEF Sending, Opening, Transfers
    <3> QED BY <1>1, <2>1, <2>3, <2>4, <2>5, <3>1, TableFrame
  <2>6. ASSUME UNCHANGED <<ioQueue, checking>> PROVE CheckPending' = CheckPending
    BY <2>6 DEF CheckPending, Queued
  <2> USE DEF Ready, serviceVars, headVars, checkVars, appVars
  <2>7. CASE SendHello \/ SendTargetInfo
    <3>1. cst \in {"hello", "pick"} /\ cst' \in {"hello", "pick"} /\ UNCHANGED <<ioQueue, checking>>
      BY <2>7 DEF SendHello, WriteBufferCheckEn, BufferCheckEn, SendTargetInfo,
                  WriteReportTargetInfo, ReportTargetInfo, deviceVars
    <3> QED BY <2>5, <2>6, <3>1 DEF Opening, Transfers
  <2>8. CASE SendImageInfo
    <3>1. cst = "info" /\ cst' = "send" /\ image_id' = img /\ UNCHANGED <<ioQueue, checking>>
      BY <2>8 DEF SendImageInfo, WriteReceiveFwImageInfo, ReceiveFwImageInfo
    <3>2. image_id' = image_id BY <2>1, <3>1 DEF TableInv, Named
    <3>3. ~Opening' /\ (Sending' => Sending) BY <2>1, <2>6, <3>1 DEF Opening, Sending
    <3> QED BY <1>1, <2>1, <2>3, <2>4, <2>6, <3>1, <3>2, <3>3, TableFrame
  <2>9. CASE SendPacket \/ SendBufferCrc
    <3>1. cst = "send" /\ cst' = "send" /\ image_id' = image_id BY <2>9, WriteFrame
    <3>2. UNCHANGED <<ioQueue, checking>>
      BY <2>9 DEF SendPacket, WritePacket, PacketReq, deviceVars, SendBufferCrc,
                  WriteReportBufferCrc, BufferCheckProcess
    <3> QED BY <1>1, <2>5, <2>6, <3>1, <3>2 DEF Opening, Transfers
  <2>10. CASE SendValidFw
    <3>1. cst = "send" /\ cst' = "send" /\ wait' = "VALID_FW" /\ image_id' = img
      BY <2>10 DEF SendValidFw, WriteValidFw, ValidFw
    <3>2. image_id' = image_id BY <3>1 DEF TransferInv, SameImage
    <3>3. Transfers /\ Sending /\ ~Opening' /\ ~Transfers'
      BY <1>1, <3>1 DEF Opening, Transfers, Sending
    <3> QED BY <1>1, <2>1, <2>3, <2>4, <3>1, <3>2, <3>3, TableFrame
  <2>11. CASE SendActiveImageReset \/ SendSystemReset
    <3>1. cst' = "end" /\ UNCHANGED <<ioQueue, checking>>
      BY <2>11 DEF SendActiveImageReset, WriteActiveImageReset, ActiveImageReset,
                   SendSystemReset, WriteSystemReset, SystemReset
    <3> QED BY <2>5, <2>6, <3>1 DEF Opening, Transfers
  <2> QED BY <2>7, <2>8, <2>9, <2>10, <2>11 DEF Request
<1> QED BY <1>2, <1>3

(* What the end of a check finds and does.                                 *)
LEMMA CheckEnds ==
  ASSUME ~BankSwitch, TypeInv, TableInv, CompleteValidFw
  PROVE  /\ Running /\ Running' /\ CheckPending /\ ~CheckPending' /\ PlacedImage
         /\ UNCHANGED <<temp_image_info, image_id, flash, cur_offset, tmp_buf, modeVars, link,
                        advertising, ioQueue>>
         /\ \E pass \in BOOLEAN :
              /\ temp_image_num' = IF pass /\ image_id \notin UserImages THEN temp_image_num + 1
                                                                     ELSE temp_image_num
              /\ Notify("VALID_FW", IF pass THEN "SUCCESS" ELSE "CRC_ERROR", 0)
              /\ pass /\ image_id \notin UserImages
                   => dfu_check_sha256(flash, BankBase[image_id] + TempEnd)
<1>1. PICK c \in checking :
        LET pass == c.img \in Images /\ dfu_check_checksum(flash, c.img, c.off)
        IN /\ checking' = {}
           /\ temp_image_num' = IF pass /\ ~BankSwitch /\ image_id \notin UserImages
                                  THEN temp_image_num + 1 ELSE temp_image_num
           /\ Notify("VALID_FW", IF pass THEN "SUCCESS" ELSE "CRC_ERROR", 0)
           /\ UNCHANGED <<headVars, xferVars, modeVars, temp_image_info, flash>>
  BY DEF CompleteValidFw, EndValidFw
<1>2. Running /\ UNCHANGED <<link, appVars>> BY DEF CompleteValidFw
<1>3. CheckPending /\ CheckOrder BY <1>1 DEF CheckPending, TypeInv, OrderInv
<1>4. PlacedImage BY <1>2, <1>3 DEF TableInv, Placed
<1>5. ~CheckPending' /\ Running'
  BY <1>1, <1>2, <1>3 DEF CheckOrder, CheckPending, Queued, appVars, Running
<1>6. ASSUME image_id \notin UserImages
      PROVE  c.img = image_id /\ c.off = TempEnd
  <2>1. c = [img |-> temp_image_info[temp_image_num].id, off |-> CurrentImageOffset]
    BY <1>1, <1>6 DEF TypeInv, CheckInv
  <2>2. temp_image_info[temp_image_num] = EntryOf(image_id) BY <1>4, <1>6 DEF PlacedImage
  <2> QED BY <2>1, <2>2 DEF CurrentImageOffset, EntryOf
<1> DEFINE pass == c.img \in Images /\ dfu_check_checksum(flash, c.img, c.off)
<1>7. pass /\ image_id \notin UserImages => dfu_check_sha256(flash, BankBase[image_id] + TempEnd)
  BY <1>6 DEF dfu_check_checksum
<1>8. pass \in BOOLEAN OBVIOUS
<1>9. UNCHANGED <<temp_image_info, image_id, flash, cur_offset, tmp_buf, modeVars, link,
                  advertising, ioQueue>>
  BY <1>1, <1>2 DEF headVars, xferVars, appVars
<1>10. /\ temp_image_num' = IF pass /\ image_id \notin UserImages THEN temp_image_num + 1
                                                                  ELSE temp_image_num
       /\ Notify("VALID_FW", IF pass THEN "SUCCESS" ELSE "CRC_ERROR", 0)
  BY <1>1
<1> HIDE DEF pass
<1> QED BY <1>2, <1>3, <1>4, <1>5, <1>7, <1>8, <1>9, <1>10

(* The entry that is counted is that of the image sent.                    *)
LEMMA CheckKeepsTable ==
  ASSUME ~BankSwitch, TypeInv, TypeInv', TransferInv, TableInv, OrderKept, CompleteValidFw,
         UNCHANGED clientVars
  PROVE  TableInv'
<1>1. /\ Running /\ Running' /\ CheckPending /\ ~CheckPending' /\ PlacedImage
      /\ UNCHANGED <<temp_image_info, image_id, link, ioQueue>>
  BY CheckEnds
<1>2. PICK pass \in BOOLEAN :
        /\ temp_image_num' = IF pass /\ image_id \notin UserImages THEN temp_image_num + 1
                                                                   ELSE temp_image_num
        /\ Notify("VALID_FW", IF pass THEN "SUCCESS" ELSE "CRC_ERROR", 0)
  BY CheckEnds
<1>3. /\ CheckOrder /\ ClientOff /\ PlanInv /\ OrderInv
      /\ Beyond /\ Listed /\ StartOrder /\ Opened /\ Roomy
  BY <1>1 DEF TypeInv, OrderInv, TableInv
<1>4. /\ temp_image_num \in 0 .. MaxTemp /\ temp_image_num' \in 0 .. MaxTemp /\ MaxTemp \in Nat
      /\ temp_image_info \in [0 .. MaxTemp -> TempInfo]
  BY BufferAssumption DEF TypeInv, TypeOK, DeviceTypeOK
<1>5. UNCHANGED <<cst, wait, plan>> BY DEF clientVars
<1>6. /\ (cst = "send" /\ wait = "VALID_FW" /\ link = "up") \/ (cst = "off" /\ link = "down")
      /\ wait \in {"none", "VALID_FW"}
  BY <1>1, <1>3 DEF CheckOrder, ClientOff, PlanInv
<1>7. \A n \in 1 .. Len(notif) : notif[n].op \notin {"START", "VALID_FW"}
  BY <1>1, <1>3, <1>6 DEF CheckOrder, StartOrder, Notified
<1>8. \A n \in 1 .. Len(notif') :
        /\ notif'[n].op # "START"
        /\ notif'[n].op = "VALID_FW" /\ notif'[n].status = "SUCCESS" => pass /\ link = "up"
  <2>1. CASE link # "up" BY <1>2, <1>7, <2>1 DEF Notify
  <2>2. CASE link = "up"
    <3> DEFINE r == [op |-> "VALID_FW", status |-> IF pass THEN "SUCCESS" ELSE "CRC_ERROR",
                     offset |-> 0]
    <3>1. notif' = Append(notif, r) BY <1>2, <2>2 DEF Notify
    <3>2. r.op = "VALID_FW" /\ (r.status = "SUCCESS" => pass) OBVIOUS
    <3> HIDE DEF r
    <3>3. \E R : notif \in Seq(R) BY <1>3 DEF OrderInv, Queues
    <3>4. /\ Len(notif) \in Nat /\ Len(notif') = Len(notif) + 1 /\ notif'[Len(notif) + 1] = r
          /\ \A n \in 1 .. Len(notif) : notif'[n] = notif[n]
      BY <3>1, <3>3, NotifAppend
    <3>5. \A n \in 1 .. Len(notif') : n \in 1 .. Len(notif) \/ n = Len(notif) + 1 BY <3>4
    <3> QED BY <1>7, <2>2, <3>2, <3>4, <3>5
  <2> QED BY <2>1, <2>2
<1>9. Opened' /\ Placed' /\ Named' /\ Started' /\ ~Sending'
  BY <1>1, <1>5, <1>6, <1>8 DEF Opened, Opening, Placed, Named, Started, Sending, Transfers
<1>10. ASSUME Accepted'
       PROVE  /\ pass /\ link = "up" /\ cst = "send" /\ image_id = img
              /\ Needs(image_id) \in Nat /\ TempEnd + Needs(image_id) <= TempSize
              /\ Fits(Tail(plan), TempEnd + Needs(image_id)) /\ TempEnd \in Nat
  <2>1. pass /\ link = "up" BY <1>8, <1>10 DEF Accepted
  <2>2. cst = "send" BY <1>6, <2>1
  <2>3. image_id = img BY <2>2 DEF TransferInv, SameImage
  <2>4. plan \in Seq(Images) /\ plan # << >> /\ img \in Images
    BY <1>3, <2>2, PlanHead DEF TypeInv, TypeOK, ClientTypeOK, PlanInv
  <2>5. Fits(plan, TempEnd) BY <1>1, <1>3, <2>1 DEF Roomy, Sending
  <2> QED BY <2>1, <2>2, <2>3, <2>4, <2>5, FitsTail, NeedsTyped DEF img
<1>11. CASE ~(pass /\ image_id \notin UserImages)
  <2>1. temp_image_num' = temp_image_num BY <1>2, <1>11
  <2>2. TempEnd' = TempEnd BY <1>1, <2>1 DEF TempEnd
  <2>3. Listed' /\ Beyond' BY <1>1, <1>3, <2>1, <2>2 DEF Listed, Beyond, TempEntries
  <2>4. ASSUME Accepted'
        PROVE  temp_image_info[temp_image_num] = NoInfo /\ Fits(Tail(plan), TempEnd)
    <3>1. image_id \in UserImages BY <1>10, <1>11, <2>4
    <3>2. temp_image_info[temp_image_num] = NoInfo BY <1>1, <3>1 DEF PlacedImage
    <3>3. Needs(image_id) = 0 BY <3>1 DEF Needs
    <3>4. TempEnd + 0 = TempEnd BY <1>10, <2>4
    <3> QED BY <1>10, <2>4, <3>2, <3>3, <3>4
  <2>5. Roomy' BY <1>1, <1>5, <1>9, <2>1, <2>2, <2>4 DEF Roomy
  <2> QED BY <1>9, <2>3, <2>5 DEF TableInv, OrderKept
<1>12. CASE pass /\ image_id \notin UserImages
  <2>1. temp_image_num' = temp_image_num + 1 BY <1>2, <1>12
  <2>2. image_id \in TempImages /\ temp_image_info[temp_image_num] = EntryOf(image_id)
    BY <1>1, <1>12 DEF PlacedImage, TempImages
  <2>3. /\ Length[image_id] \in Nat /\ Needs(image_id) = Length[image_id]
    BY <1>12, <2>2, BankTyped DEF TempImages, Needs
  <2>4. /\ (temp_image_num + 1) - 1 = temp_image_num /\ temp_image_num + 1 # 0
        /\ temp_image_num + 1 \in 0 .. MaxTemp
        /\ \A n \in 0 .. MaxTemp : n > temp_image_num + 1 => n > temp_image_num
        /\ \A n \in 0 .. MaxTemp : n < temp_image_num + 1 => n = temp_image_num \/ n < temp_image_num
    BY <1>4, <2>1
  <2>5. TempEnd' = TempEnd + Length[image_id]
    BY <1>1, <2>1, <2>2, <2>4 DEF TempEnd, EntryOf
  <2>6. TempEnd \in Nat
    <3>1. CASE temp_image_num = 0 BY <3>1 DEF TempEnd
    <3>2. CASE temp_image_num # 0
      <4>1. temp_image_num - 1 \in 0 .. MaxTemp BY <1>4, <3>2
      <4>2. temp_image_info[temp_image_num - 1] \in TempInfo BY <1>4, <4>1
      <4> QED BY <3>2, <4>2 DEF TempEnd, TempInfo
    <3> QED BY <3>1, <3>2
  <2>7. Beyond' BY <1>1, <1>3, <2>1, <2>4 DEF Beyond
  <2>8. Listed'
    <3> SUFFICES ASSUME NEW n \in 0 .. MaxTemp, n < temp_image_num + 1
                 PROVE  /\ temp_image_info[n].id \in TempImages
                        /\ temp_image_info[n].size = Length[temp_image_info[n].id]
                        /\ temp_image_info[n].offset + temp_image_info[n].size
                             <= TempEnd + Length[image_id]
      BY <1>1, <2>1, <2>5 DEF Listed, TempEntries
    <3>1. CASE n = temp_image_num BY <2>2, <2>3, <2>6, <3>1 DEF EntryOf
    <3>2. CASE n < temp_image_num
      <4>1. /\ temp_image_info[n].id \in TempImages
            /\ temp_image_info[n].size = Length[temp_image_info[n].id]
            /\ temp_image_info[n].offset + temp_image_info[n].size <= TempEnd
        BY <1>3, <3>2 DEF Listed, TempEntries
      <4>2. temp_image_info[n].offset \in Nat /\ temp_image_info[n].size \in Nat
        BY <1>4 DEF TempInfo
      <4> HIDE DEF TempEnd
      <4> QED BY <2>3, <2>6, <4>1, <4>2
    <3> QED BY <2>4, <3>1, <3>2
  <2>9. temp_image_info'[temp_image_num'] = NoInfo
    <3>1. temp_image_num + 1 > temp_image_num BY <1>4
    <3> QED BY <1>1, <1>3, <2>1, <2>4, <3>1 DEF Beyond
  <2>10. Roomy' BY <1>5, <1>9, <1>10, <2>3, <2>5, <2>9 DEF Roomy
  <2> QED BY <1>9, <2>7, <2>8, <2>10 DEF TableInv, OrderKept
<1> QED BY <1>11, <1>12

LEMMA TaskKeepsTable ==
  ASSUME TypeInv, TableInv, OrderKept, Task
  PROVE  TableInv'
<1>1. /\ UNCHANGED <<image_id, tempVars, cst, wait, plan, link>>
      /\ QuietAnswer /\ (Running' => Running) /\ (CheckPending' => CheckPending)
  BY TaskQuiet DEF clientVars
<1>2. \E R : notif \in Seq(R) BY DEF TypeInv, OrderInv, Queues
<1>3. \A n \in 1 .. Len(notif') : notif'[n].op \in {"START", "VALID_FW"} =>
        n \in 1 .. Len(notif) /\ notif'[n] = notif[n]
  BY <1>1, <1>2, QuietOlder
<1>4. Opening' = Opening /\ Transfers' = Transfers /\ (Sending' => Sending)
  BY <1>1 DEF Opening, Transfers, Sending
<1> QED BY <1>1, <1>3, <1>4, TableFrame

LEMMA LossKeepsTable ==
  ASSUME TypeInv, TableInv, OrderKept, LoseLink \/ RestartAfterReset \/ PowerLoss
  PROVE  TableInv'
<1>1. CASE LoseLink
  <2>1. /\ UNCHANGED <<image_id, tempVars, checking, reset>> /\ Post("DISCONNECTED")
        /\ cst' = "off" /\ wait' = "none" /\ notif' = << >> /\ link' = "down" /\ Running'
    BY <1>1 DEF LoseLink, LinkDown, ClientGone, serviceVars, headVars, checkVars, Running
  <2>2. "DISCONNECTED" \in AppMessage \ {"VALID_FW"} BY DEF AppMessage
  <2>3. CheckPending' => CheckPending BY <2>1, <2>2, NoNewCheck DEF TypeInv
  <2>4. ~Opening' /\ ~Transfers' /\ ~Sending' BY <2>1 DEF Opening, Transfers, Sending
  <2>5. 1 .. Len(notif') = {} BY <2>1
  <2>6. ~Accepted' /\ ~Notified("START")' BY <2>5 DEF Accepted, Notified
  <2> QED BY <2>1, <2>3, <2>4, <2>5, <2>6, TableFrame DEF Running
<1>2. ASSUME NEW f, DeviceRestart(f), ClientGone PROVE TableInv'
  <2>1. CASE RestartNew(f)
    <3>1. UNCHANGED tempVars /\ ~Running' BY <2>1 DEF RestartNew, serviceVars, Running
    <3> QED BY <3>1, TableStopped
  <2>2. CASE RestartOld(f)
    <3>1. /\ temp_image_num' = 0 /\ temp_image_info' = [n \in 0 .. MaxTemp |-> NoInfo]
          /\ checking' = {} /\ ioQueue' = <<"STACK_READY">> /\ notif' = << >>
          /\ cst' = "off" /\ wait' = "none"
      BY <1>2, <2>2 DEF RestartOld, ServiceReset, ClientGone
    <3>2. 1 .. Len(notif') = {} BY <3>1
    <3>3. ~CheckPending' BY <3>1 DEF CheckPending, Queued
    <3>4. Listed' /\ Beyond' BY <3>1 DEF Listed, Beyond, TempEntries
    <3>5. Opened' /\ Placed' /\ Named' /\ Started' /\ Roomy'
      BY <3>1, <3>2, <3>3
         DEF Opened, Opening, Placed, Transfers, Named, Started, Roomy, Sending, Accepted
    <3> QED BY <3>4, <3>5 DEF TableInv, OrderKept
  <2> QED BY <1>2, <2>1, <2>2 DEF DeviceRestart
<1> QED BY <1>1, <1>2 DEF RestartAfterReset, PowerLoss

LEMMA TableNext ==
  ASSUME ~BankSwitch, PackagesFit, LinkLossReset,
         TypeInv, WindowInv, TransferInv, BootFresh, TableInv, [Next]_vars
  PROVE  TableInv'
<1>1. OrderKept BY StartOrderStep, AskedStep, FreshTableStep DEF OrderKept, TableInv
<1>2. CASE Connect BY <1>1, <1>2, ConnectKeepsTable
<1>3. CASE Request BY <1>1, <1>3, RequestKeepsTable
<1>4. CASE SendStart BY <1>1, <1>4, StartKeepsTable
<1>5. CASE ReceiveNotification BY <1>1, <1>5, AnswerKeepsTable
<1>6. CASE LoseLink \/ RestartAfterReset \/ PowerLoss BY <1>1, <1>6, LossKeepsTable
<1>7. CASE DeviceTask /\ CompleteValidFw
  <2>1. TypeInv' BY TypeNext
  <2> QED BY <1>1, <1>7, <2>1, CheckKeepsTable DEF DeviceTask
<1>8. CASE Task BY <1>1, <1>8, TaskKeepsTable
<1> QED BY <1>2, <1>3, <1>4, <1>5, <1>6, <1>7, <1>8 DEF Next, ClientStep, Request, Task

LEMMA TableInit == Init => TableInv
<1> SUFFICES ASSUME Init PROVE TableInv OBVIOUS
<1>1. /\ temp_image_num = 0 /\ temp_image_info = [n \in 0 .. MaxTemp |-> NoInfo]
      /\ checking = {} /\ ioQueue = <<"STACK_READY">> /\ notif = << >>
      /\ cst = "off" /\ wait = "none"
  BY DEF Init, DeviceInit, ServiceInit
<1>2. 1 .. Len(notif) = {} BY <1>1
<1>3. ~CheckPending BY <1>1 DEF CheckPending, Queued
<1>4. Listed /\ Beyond /\ FreshTable /\ StartOrder /\ Asked
  BY <1>1, <1>2 DEF Listed, Beyond, TempEntries, FreshTable, StartOrder, Asked
<1>5. Opened /\ Placed /\ Named /\ Started /\ Roomy
  BY <1>1, <1>2, <1>3
     DEF Opened, Opening, Placed, Transfers, Named, Started, Roomy, Sending, Accepted
<1> QED BY <1>4, <1>5 DEF TableInv

-----------------------------------------------------------------------------
(* Sectors: what a write of at most a sector can touch lies in the sector  *)
(* it starts in or in the next one.                                        *)

LEMMA SectorStart ==
  ASSUME NEW a \in Nat
  PROVE  /\ a \div SectorSize \in Nat /\ SectorSize * (a \div SectorSize) \in Nat
         /\ SectorFirst(a) = SectorSize * (a \div SectorSize)
         /\ SectorFirst(a) <= a /\ a < SectorFirst(a) + SectorSize
         /\ a % SectorSize = 0 <=> a = SectorFirst(a)
<1>1. /\ a % SectorSize \in 0 .. SectorSize - 1 /\ a \div SectorSize \in Nat
      /\ a = SectorSize * (a \div SectorSize) + (a % SectorSize)
  BY Remainder
<1>2. SectorSize * (a \div SectorSize) \in Nat BY <1>1, LayoutAssumption
<1>3. ASSUME NEW m \in Nat, NEW r \in 0 .. SectorSize - 1, a = m + r
      PROVE  a - r = m /\ m <= a /\ a < m + SectorSize /\ (r = 0 <=> a = m)
  BY <1>3, LayoutAssumption
<1> QED BY <1>1, <1>2, <1>3 DEF SectorFirst

LEMMA SameSector ==
  ASSUME NEW a \in Nat, NEW b \in Nat, a \div SectorSize = b \div SectorSize
  PROVE  b \in Sector(a) /\ Sector(b) = Sector(a)
<1>1. SectorFirst(a) = SectorFirst(b) BY SectorStart
<1>2. SectorFirst(b) <= b /\ b < SectorFirst(b) + SectorSize /\ SectorFirst(b) \in Nat
  BY SectorStart
<1>3. ASSUME NEW s \in Nat, s <= b, b < s + SectorSize
      PROVE  b \in s .. s + SectorSize - 1
  BY <1>3, LayoutAssumption
<1> QED BY <1>1, <1>2, <1>3 DEF Sector

LEMMA LaterSector ==
  ASSUME NEW a \in Nat, NEW b \in Nat, a <= b
  PROVE  a \div SectorSize <= b \div SectorSize
<1> SUFFICES ASSUME b \div SectorSize < a \div SectorSize PROVE FALSE BY SectorStart
<1>1. SectorSize * (b \div SectorSize) + SectorSize <= SectorSize * (a \div SectorSize)
  BY SectorStart, SectorGap
<1>2. /\ SectorFirst(a) \in Nat /\ SectorFirst(b) \in Nat
      /\ SectorFirst(a) <= a /\ b < SectorFirst(b) + SectorSize
  BY SectorStart
<1>3. SectorFirst(b) + SectorSize <= SectorFirst(a) BY <1>1, SectorStart
<1> QED BY <1>2, <1>3, LayoutAssumption

LEMMA Reach ==
  ASSUME NEW a \in Nat, NEW n \in Nat, n <= SectorSize, NEW b \in Nat, a <= b,
         b < a + n \/ ((a + n) % SectorSize # 0 /\ b \in Sector(a + n))
  PROVE  \/ b \in Sector(a)
         \/ /\ a % SectorSize # 0 /\ (a + n) % SectorSize # 0 /\ b \in Sector(a + n)
            /\ a \div SectorSize # (a + n) \div SectorSize
<1> DEFINE c == a + n
           q == a \div SectorSize
           qb == b \div SectorSize
           qc == c \div SectorSize
<1>1. c \in Nat /\ a <= c OBVIOUS
<1>2. q \in Nat /\ qb \in Nat /\ qc \in Nat BY <1>1, SectorStart
<1>3. /\ SectorFirst(a) = SectorSize * q /\ SectorFirst(b) = SectorSize * qb
      /\ SectorFirst(c) = SectorSize * qc
      /\ SectorFirst(a) \in Nat /\ SectorFirst(b) \in Nat /\ SectorFirst(c) \in Nat
      /\ SectorFirst(a) <= a /\ a < SectorFirst(a) + SectorSize
      /\ SectorFirst(b) <= b /\ b < SectorFirst(b) + SectorSize
      /\ SectorFirst(c) <= c /\ c < SectorFirst(c) + SectorSize
  BY <1>1, SectorStart
<1>4. q <= qb /\ q <= qc BY <1>1, LaterSector
<1>5. (a % SectorSize = 0 <=> a = SectorFirst(a)) /\ (c % SectorSize = 0 <=> c = SectorFirst(c))
  BY <1>1, SectorStart
<1>6. SectorSize \in Nat /\ SectorSize > 0 BY LayoutAssumption
<1>7. c <= a + SectorSize BY <1>6
<1>8. CASE qb = q BY <1>8, SameSector
<1>9. ASSUME q # qc, c % SectorSize # 0
      PROVE  a % SectorSize # 0
  <2>1. q < qc BY <1>2, <1>4, <1>9
  <2>2. SectorSize * q + SectorSize <= SectorSize * qc BY <1>2, <2>1, SectorGap
  <2>3. SectorFirst(a) + SectorSize <= SectorFirst(c) BY <1>3, <2>2
  <2> HIDE DEF c, q, qb, qc
  <2>4. c # SectorFirst(c) BY <1>5, <1>9
  <2>5. a # SectorFirst(a) BY <1>1, <1>3, <1>6, <1>7, <2>3, <2>4
  <2> QED BY <1>5, <2>5
<1>10. CASE c % SectorSize # 0 /\ b \in Sector(c)
  <2>1. CASE q = qc BY <1>1, <1>10, <2>1, SameSector
  <2>2. CASE q # qc BY <1>9, <1>10, <2>2
  <2> QED BY <2>1, <2>2
<1>11. CASE b < c /\ qb # q
  <2>1. qb <= qc BY <1>1, <1>11, LaterSector
  <2>2. q < qb /\ q < qc BY <1>2, <1>4, <1>11, <2>1
  <2>3. qc <= q + 1
    <3> SUFFICES ASSUME q + 1 < qc PROVE FALSE BY <1>2
    <3>1. SectorSize * (q + 1) + SectorSize <= SectorSize * qc BY <1>2, SectorGap
    <3>2. SectorSize * q + SectorSize <= SectorSize * (q + 1) BY <1>2, SectorGap
    <3> DEFINE m == SectorSize * (q + 1)
    <3>3. m \in Nat BY <1>2, <1>6
    <3>4. m + SectorSize <= SectorFirst(c) /\ SectorFirst(a) + SectorSize <= m
      BY <1>3, <3>1, <3>2
    <3> HIDE DEF m, c
    <3> QED BY <1>1, <1>3, <1>6, <1>7, <3>3, <3>4
  <2>4. qb = qc BY <1>2, <2>1, <2>2, <2>3
  <2>5. b \in Sector(c) BY <1>1, <2>4, SameSector
  <2>6. SectorFirst(b) = SectorFirst(c) BY <1>3, <2>4
  <2> HIDE DEF c
  <2>7. c # SectorFirst(c) BY <1>1, <1>3, <1>11, <2>6
  <2>8. c % SectorSize # 0 BY <1>5, <2>7
  <2>9. q # qc BY <1>2, <2>2
  <2>10. a % SectorSize # 0 BY <1>9, <2>8, <2>9
  <2> QED BY <2>5, <2>8, <2>9, <2>10 DEF c
<1> QED BY <1>8, <1>10, <1>11

(* What dfu_update erases before it programs n cells at a.                 *)
Cleared(a, n) == UNION {Sector(x) : x \in SectorToErase(a, n)}

LEMMA BlankAhead ==
  ASSUME NEW f, NEW a \in Nat, NEW n \in Nat, n <= SectorSize, BlankFrom(f, a),
         NEW b \in Addr, a <= b, b < a + n \/ ((a + n) % SectorSize # 0 /\ b \in Sector(a + n))
  PROVE  b \in Cleared(a, n) \/ (f.cells[b] = Blank /\ b \notin f.ready)
<1>1. b \in Nat BY DEF Addr
<1>2. \/ b \in Sector(a)
      \/ /\ a % SectorSize # 0 /\ (a + n) % SectorSize # 0 /\ b \in Sector(a + n)
         /\ a \div SectorSize # (a + n) \div SectorSize
  BY <1>1, Reach
<1>3. CASE b \in Sector(a) /\ a % SectorSize = 0
  <2>1. SectorToErase(a, n) = {a} BY <1>3 DEF SectorToErase
  <2> QED BY <1>3, <2>1 DEF Cleared
<1>4. CASE b \in Sector(a) /\ a % SectorSize # 0 BY <1>4 DEF BlankFrom
<1>5. CASE /\ a % SectorSize # 0 /\ (a + n) % SectorSize # 0 /\ b \in Sector(a + n)
           /\ a \div SectorSize # (a + n) \div SectorSize
  <2>1. SectorToErase(a, n) = {a + n} BY <1>5 DEF SectorToErase
  <2> QED BY <1>5, <2>1 DEF Cleared
<1> QED BY <1>2, <1>3, <1>4, <1>5

(* The flash g that dfu_update programs: f, but for the sector it erased.  *)
Erased(f, g, a, n) ==
  /\ g \in Flash /\ g.ready = f.ready \ Cleared(a, n)
  /\ \A b \in Addr : g.cells[b] = IF b \in Cleared(a, n) THEN Blank ELSE f.cells[b]

(* The outcome u of an update of f that got to program the data.           *)
Writes(u, f, start, d) ==
  \E g : /\ Erased(f, g, start, Len(d))
         /\ u.fl.cells = Programmed(g, start, d).cells /\ u.fl.ready = g.ready
         /\ u.ok <=> ReadsBack(Programmed(g, start, d), start, d)

LEMMA UpdateOutcome ==
  ASSUME NEW f \in Flash, NEW i \in Images, NEW offset \in Nat, NEW total \in Nat,
         NEW d \in Seq(Payload), NEW mayFail,
         NEW u \in dfu_update(f, i, offset, total, d, mayFail),
         u.ok \/ (mayFail = FALSE
                    /\ check_dfu_update_image_length(i, offset + total, d) = {TRUE}),
         NEW start, start = BankBase[i] + offset + total
  PROVE  Writes(u, f, start, d)
<1> DEFINE open == unlock_flash_bp_all(f)
           erased == IF SectorToErase(start, Len(d)) = {}
                       THEN {[fl |-> open, ok |-> TRUE]}
                       ELSE UNION {flash_erase_sector(open, a, mayFail)
                                     : a \in SectorToErase(start, Len(d))}
           checks == check_dfu_update_image_length(i, offset + total, d)
<1>1. open \in Flash /\ open.cells = f.cells /\ open.ready = f.ready BY BpTyped, BpCells
<1>2. start \in Int BY LayoutAssumption
<1>3. ASSUME NEW e \in erased, e.ok
      PROVE  Erased(f, e.fl, start, Len(d))
  <2>1. CASE SectorToErase(start, Len(d)) = {} /\ e = [fl |-> open, ok |-> TRUE]
    <3>1. Cleared(start, Len(d)) = {} BY <2>1 DEF Cleared
    <3> QED BY <1>1, <2>1, <3>1 DEF Erased
  <2>2. ASSUME NEW a \in SectorToErase(start, Len(d)), e \in flash_erase_sector(open, a, mayFail)
        PROVE  Erased(f, e.fl, start, Len(d))
    <3> HIDE DEF open
    <3>1. e.fl \in Flash BY <1>1, <2>2, EraseTyped DEF Outcome
    <3>2. e.fl = Overwritten(open, a, Blank) BY <1>3, <2>2 DEF flash_erase_sector
    <3>3. SectorToErase(start, Len(d)) = {a} BY <2>2 DEF SectorToErase
    <3>4. Cleared(start, Len(d)) = Sector(a) BY <3>3 DEF Cleared
    <3>5. /\ e.fl.ready = open.ready \ Sector(a)
          /\ \A b \in Addr : e.fl.cells[b] = IF b \in Sector(a) THEN Blank ELSE open.cells[b]
      BY <1>1, <3>2 DEF Overwritten, Flash
    <3> QED BY <1>1, <3>1, <3>4, <3>5 DEF Erased
  <2> QED BY <1>3, <2>1, <2>2
<1>4. \/ \E c \in checks \ {TRUE} : u = [fl |-> f, ok |-> FALSE]
      \/ u \in erased /\ ~u.ok
      \/ \E e \in erased : e.ok /\ \E w \in dfu_write(e.fl, start, d, mayFail) :
           u = [fl |-> lock_flash_bp(w.fl), ok |-> w.ok]
  BY DEF dfu_update
<1>5. ASSUME mayFail = FALSE, NEW e \in erased PROVE e.ok
  <2>1. CASE e = [fl |-> open, ok |-> TRUE] BY <2>1
  <2>2. ASSUME NEW a, e \in flash_erase_sector(open, a, mayFail) PROVE e.ok
    BY <1>5, <2>2 DEF flash_erase_sector
  <2> QED BY <1>5, <2>1, <2>2
<1>6. u.ok \/ (mayFail = FALSE /\ checks = {TRUE}) OBVIOUS
<1> HIDE DEF erased, open, checks
<1>7. PICK e \in erased : e.ok /\ \E w \in dfu_write(e.fl, start, d, mayFail) :
        /\ u = [fl |-> lock_flash_bp(w.fl), ok |-> w.ok]
        /\ w.ok \/ mayFail = FALSE
  <2>1. CASE \E c \in checks \ {TRUE} : u = [fl |-> f, ok |-> FALSE]
    <3>1. ~u.ok BY <2>1
    <3>2. checks # {TRUE} BY <2>1
    <3> QED BY <1>6, <3>1, <3>2
  <2>2. CASE u \in erased /\ ~u.ok BY <1>5, <1>6, <2>2
  <2>3. ASSUME NEW e \in erased, e.ok, NEW w \in dfu_write(e.fl, start, d, mayFail),
               u = [fl |-> lock_flash_bp(w.fl), ok |-> w.ok]
        PROVE  w.ok \/ mayFail = FALSE
    <3>1. u.ok = w.ok BY <2>3
    <3> QED BY <1>6, <3>1
  <2> QED BY <1>4, <2>1, <2>2, <2>3
<1>8. PICK w \in dfu_write(e.fl, start, d, mayFail) :
        /\ u = [fl |-> lock_flash_bp(w.fl), ok |-> w.ok]
        /\ w.ok \/ mayFail = FALSE
  BY <1>7
<1>9. Erased(f, e.fl, start, Len(d)) BY <1>3, <1>7
<1>10. w = [fl |-> Programmed(e.fl, start, d),
            ok |-> ReadsBack(Programmed(e.fl, start, d), start, d)]
  <2>1. \/ w = [fl |-> Programmed(e.fl, start, d),
                ok |-> ReadsBack(Programmed(e.fl, start, d), start, d)]
        \/ mayFail /\ w.ok = FALSE
    BY <1>8 DEF dfu_write
  <2> QED BY <1>8, <2>1
<1>11. Programmed(e.fl, start, d) \in Flash BY <1>2, <1>9, ProgramTyped DEF Erased
<1>12. /\ u.fl.cells = Programmed(e.fl, start, d).cells
       /\ u.fl.ready = Programmed(e.fl, start, d).ready
       /\ u.ok <=> ReadsBack(Programmed(e.fl, start, d), start, d)
  BY <1>8, <1>10, <1>11, BpCells
<1>13. Programmed(e.fl, start, d).ready = e.fl.ready BY <1>9 DEF Erased, Programmed, Flash
<1> QED BY <1>9, <1>12, <1>13 DEF Writes

(* Behind a write that succeeded the rest of the sector is blank, when it  *)
(* was so behind the write before.                                         *)
LEMMA UpdateBlank ==
  ASSUME NEW f \in Flash, NEW i \in Images, NEW offset \in Nat, NEW total \in Nat,
         NEW d \in Seq(Payload), Len(d) <= SectorSize, NEW mayFail,
         NEW u \in dfu_update(f, i, offset, total, d, mayFail), u.ok,
         NEW start, start = BankBase[i] + offset + total, BlankFrom(f, start)
  PROVE  BlankFrom(u.fl, start + Len(d))
<1>1. PICK g : /\ Erased(f, g, start, Len(d))
               /\ u.fl.cells = Programmed(g, start, d).cells /\ u.fl.ready = g.ready
               /\ u.ok <=> ReadsBack(Programmed(g, start, d), start, d)
  <2>1. Writes(u, f, start, d) BY UpdateOutcome
  <2> QED BY <2>1 DEF Writes
<1>2. start \in Nat /\ Len(d) \in Nat /\ start + Len(d) \in Nat
  <2>1. BankBase[i] \in Nat BY BankTyped
  <2>2. BankBase[i] + offset + total \in Nat BY <2>1
  <2> QED BY <2>2
<1>3. ASSUME NEW b \in Addr \cap Sector(start + Len(d)), start + Len(d) <= b,
             (start + Len(d)) % SectorSize # 0
      PROVE  u.fl.cells[b] = Blank /\ b \notin u.fl.ready
  <2>1. b \in Nat /\ start <= b BY <1>2, <1>3 DEF Addr
  <2>2. b \in Cleared(start, Len(d)) \/ (f.cells[b] = Blank /\ b \notin f.ready)
    BY <1>2, <1>3, <2>1, BlankAhead
  <2>3. g.cells[b] = Blank /\ b \notin g.ready BY <1>1, <1>3, <2>2 DEF Erased
  <2>4. b \notin start .. start + Len(d) - 1 BY <1>2, <1>3, <2>1
  <2>5. Programmed(g, start, d).cells[b] = g.cells[b] BY <1>1, <1>3, <2>4 DEF Programmed, Erased, Flash
  <2> QED BY <1>1, <2>3, <2>5
<1> QED BY <1>3 DEF BlankFrom

(* On a flash that works a write succeeds that stays in its bank and finds *)
(* the rest of its sector blank.                                           *)
LEMMA UpdateSucceeds ==
  ASSUME NEW f \in Flash, NEW i \in Images, NEW offset \in Nat, NEW total \in Nat,
         NEW d \in Seq(Payload), Len(d) <= SectorSize,
         NEW u \in dfu_update(f, i, offset, total, d, FALSE),
         offset + total > 0, offset + total + Len(d) <= BankSize[i],
         NEW start, start = BankBase[i] + offset + total, BlankFrom(f, start)
  PROVE  u.ok
<1>1. BankBase[i] \in Nat /\ BankSize[i] \in Nat /\ BankBase[i] + BankSize[i] <= FlashSize
      /\ FlashSize \in Nat
  BY BankTyped, LayoutAssumption
<1>2. Len(d) \in Nat OBVIOUS
<1>3. check_dfu_update_image_length(i, offset + total, d) = {TRUE}
  <2>1. ASSUME NEW p \in Nat, NEW n \in Nat, NEW size \in Nat, p > 0, p + n <= size
        PROVE  ~(p + n > size) /\ p # 0
    BY <2>1
  <2>2. ~(offset + total + Len(d) > BankSize[i]) /\ offset + total # 0 BY <1>1, <1>2, <2>1
  <2> QED BY <2>2 DEF check_dfu_update_image_length
<1>4. PICK g : /\ Erased(f, g, start, Len(d))
               /\ u.fl.cells = Programmed(g, start, d).cells /\ u.fl.ready = g.ready
               /\ u.ok <=> ReadsBack(Programmed(g, start, d), start, d)
  <2>1. Writes(u, f, start, d) BY <1>3, UpdateOutcome
  <2> QED BY <2>1 DEF Writes
<1>5. start \in Nat /\ start + Len(d) <= FlashSize
  <2>1. ASSUME NEW base \in Nat, NEW n \in Nat, NEW size \in Nat, NEW all \in Nat,
               base + size <= all, offset + total + n <= size
        PROVE  base + offset + total \in Nat /\ base + offset + total + n <= all
    BY <2>1
  <2> QED BY <1>1, <1>2, <2>1
<1>6. ASSUME NEW b \in start .. start + Len(d) - 1
      PROVE  b \in Addr /\ b - start + 1 \in 1 .. Len(d) /\ start <= b /\ b < start + Len(d)
  <2>1. ASSUME NEW a \in Nat, NEW n \in Nat, a + n <= FlashSize, NEW x \in a .. a + n - 1
        PROVE  x \in Addr /\ x - a + 1 \in 1 .. n /\ a <= x /\ x < a + n
    BY <1>1, <2>1 DEF Addr
  <2> QED BY <1>2, <1>5, <2>1
<1>7. ASSUME NEW b \in start .. start + Len(d) - 1
      PROVE  Programmed(g, start, d).cells[b] = d[b - start + 1] /\ b \notin g.ready
  <2>1. b \in Cleared(start, Len(d)) \/ (f.cells[b] = Blank /\ b \notin f.ready)
    BY <1>2, <1>5, <1>6, BlankAhead
  <2>2. g.cells[b] = Blank /\ b \notin g.ready BY <1>4, <1>6, <2>1 DEF Erased
  <2> QED BY <1>4, <1>6, <2>2 DEF Programmed, Erased, Flash
<1>8. Programmed(g, start, d).ready = g.ready BY <1>4 DEF Erased, Programmed, Flash
<1> QED BY <1>4, <1>7, <1>8 DEF ReadsBack

-----------------------------------------------------------------------------
(* The steps, seen from the flash: which of them a check or an accepted    *)
(* image outlives.                                                         *)

LEMMA RequestKinds ==
  ASSUME TypeInv, Request \/ SendStart, Running'
  PROVE  /\ Running /\ ~CheckPending /\ ~Accepted /\ ~Accepted'
         /\ wait = "none" /\ cst # "off" /\ cst' # "off" /\ UNCHANGED <<plan, sendMode>>
         /\ CheckPending' => SendValidFw
<1> USE DEF Ready, serviceVars, headVars, checkVars, appVars
<1>1. /\ wait = "none" /\ cst # "off" /\ cst' # "off" /\ UNCHANGED <<plan, sendMode>>
      /\ Running' => Running
  <2>1. CASE Request BY <2>1, RequestQuiet
  <2>2. CASE SendStart BY <2>2 DEF SendStart, WriteStartDfu
  <2> QED BY <2>1, <2>2
<1>2. Running /\ ~CheckPending /\ ~Accepted /\ ~Notified("VALID_FW") BY <1>1, NoCheck
<1>3. AnswersOther
  <2>1. CASE Request BY <2>1, RequestQuiet DEF QuietAnswer, AnswersOther
  <2>2. CASE SendStart BY <2>2, StartFrame DEF SendStart, WriteStartDfu
  <2> QED BY <2>1, <2>2
<1>4. ~Accepted'
  <2>1. CASE notif' = notif BY <1>2, <2>1 DEF Accepted
  <2>2. ASSUME NEW r, r.op # "VALID_FW", notif' = Append(notif, r) PROVE ~Accepted'
    <3>1. \E R : notif \in Seq(R) BY DEF TypeInv, OrderInv, Queues
    <3>2. /\ Len(notif) \in Nat /\ Len(notif') = Len(notif) + 1 /\ notif'[Len(notif) + 1] = r
          /\ \A n \in 1 .. Len(notif) : notif'[n] = notif[n]
      BY <2>2, <3>1, NotifAppend
    <3>3. \A n \in 1 .. Len(notif') : n \in 1 .. Len(notif) \/ n = Len(notif) + 1 BY <3>2
    <3> QED BY <1>2, <2>2, <3>2, <3>3 DEF Accepted
  <2> QED BY <1>3, <2>1, <2>2 DEF AnswersOther
<1>5. ASSUME ~SendValidFw PROVE UNCHANGED <<ioQueue, checking>>
  <2>1. CASE SendHello \/ SendTargetInfo \/ SendImageInfo
    BY <2>1 DEF SendHello, WriteBufferCheckEn, BufferCheckEn, SendTargetInfo,
                WriteReportTargetInfo, ReportTargetInfo, deviceVars, SendImageInfo,
                WriteReceiveFwImageInfo, ReceiveFwImageInfo
  <2>2. CASE SendPacket \/ SendBufferCrc
    BY <2>2 DEF SendPacket, WritePacket, PacketReq, deviceVars, SendBufferCrc,
                WriteReportBufferCrc, BufferCheckProcess
  <2>3. CASE SendActiveImageReset \/ SendSystemReset
    BY <2>3 DEF SendActiveImageReset, WriteActiveImageReset, ActiveImageReset,
                SendSystemReset, WriteSystemReset, SystemReset
  <2>4. CASE SendStart BY <2>4 DEF SendStart, WriteStartDfu, StartDfu
  <2> QED BY <1>5, <2>1, <2>2, <2>3, <2>4 DEF Request
<1>6. CheckPending' => SendValidFw BY <1>2, <1>5 DEF CheckPending, Queued
<1> QED BY <1>1, <1>2, <1>4, <1>6

LEMMA AnswerKinds ==
  ASSUME TypeInv, WindowInv, TransferInv, TableInv, ReceiveNotification
  PROVE  \/ UNCHANGED <<cst, wait, plan>> /\ Accepted' = Accepted
         \/ /\ ~CheckPending /\ ~Accepted /\ ~Accepted'
            /\ wait # "VALID_FW" /\ wait' = "none" /\ plan' = plan
            /\ \/ /\ cst \in {"hello", "pick", "start"}
                  /\ cst' \in {"pick", "start", "info", "abort"}
                  /\ cst' = "info" => \E n \in 1 .. Len(notif) :
                       notif[n].op = "START" /\ notif[n].status = "SUCCESS"
               \/ cst = "send" /\ sendMode = "check" /\ cst' \in {"send", "abort"}
         \/ /\ ~CheckPending /\ ~Accepted' /\ cst = "send" /\ wait = "VALID_FW" /\ wait' = "none"
            /\ (Accepted /\ cst' \in {"valid", "pick"}) \/ cst' = "abort"
<1> DEFINE m == Head(notif)
<1>1. /\ \A n \in 1 .. Len(notif') : n + 1 \in 1 .. Len(notif) /\ notif'[n] = notif[n + 1]
      /\ 1 \in 1 .. Len(notif) /\ m = notif[1] /\ Running /\ link = "up"
  BY Received
<1>2. /\ CheckOrder /\ StartsAtZero /\ PlanInv /\ Asked /\ ClientOff
  BY <1>1 DEF TypeInv, OrderInv, WindowInv, TableInv
<1>3. IF m.op = wait THEN Answered(m) ELSE UNCHANGED <<cst, wait, plan, coff, chunk>>
  BY DEF ReceiveNotification
<1>4. m.op # "none"
  <2>1. Head(notif).op # "none" BY AnswerTaken DEF WindowInv
  <2> QED BY <2>1
<1>5. \A n \in 2 .. Len(notif) : n - 1 \in 1 .. Len(notif') /\ notif'[n - 1] = notif[n]
  <2>1. (\E R : notif \in Seq(R)) /\ notif # << >> /\ notif' = Tail(notif)
    BY DEF ReceiveNotification, TypeInv, OrderInv, Queues
  <2>2. /\ Len(notif) \in Nat /\ Len(notif') = Len(notif) - 1
        /\ \A n \in 1 .. Len(notif) - 1 : notif'[n] = notif[n + 1]
    BY <2>1, QueueTail
  <2>3. ASSUME NEW n \in 2 .. Len(notif)
        PROVE  n - 1 \in 1 .. Len(notif) - 1 /\ (n - 1) + 1 = n
    BY <2>2, <2>3
  <2> QED BY <2>2, <2>3
<1> HIDE DEF m
<1>6. CASE m.op # wait
  <2>1. UNCHANGED <<cst, wait, plan>> BY <1>3, <1>6
  <2>2. m.op # "VALID_FW"
    <3>1. m.op = "VALID_FW" => Notified("VALID_FW") BY <1>1, StartDefinite
    <3> QED BY <1>1, <1>2, <1>6, <3>1 DEF CheckOrder
  <2>3. Accepted' => Accepted BY <1>1 DEF Accepted
  <2>4. Accepted => Accepted'
    <3> SUFFICES ASSUME NEW n \in 1 .. Len(notif), notif[n].op = "VALID_FW",
                        notif[n].status = "SUCCESS"
                 PROVE  Accepted'
      BY DEF Accepted
    <3>1. n # 1 BY <1>1, <2>2
    <3>2. n \in 2 .. Len(notif) BY <3>1
    <3> QED BY <1>5, <3>2 DEF Accepted
  <2>5. Accepted' = Accepted BY <2>3, <2>4 DEF Accepted
  <2> QED BY <2>1, <2>5
<1>7. CASE m.op = wait /\ wait # "VALID_FW"
  <2>1. cst # "off" BY <1>1, <1>2, <1>4, <1>7 DEF PlanInv
  <2>2. ~CheckPending /\ ~Accepted /\ ~Notified("VALID_FW") BY <1>1, <1>7, <2>1, NoCheck
  <2>3. ~Accepted' BY <1>1, <2>2 DEF Accepted
  <2>4. Answered(m) BY <1>3, <1>7
  <2>5. CASE m.op = "BUFFER_CHECK_EN"
    BY <1>2, <1>7, <2>2, <2>3, <2>4, <2>5 DEF Answered, Asked
  <2>6. CASE m.op = "TARGET_INFO"
    BY <1>2, <1>7, <2>2, <2>3, <2>4, <2>6 DEF Answered, Asked
  <2>7. CASE m.op = "START"
    <3>1. cst = "start" /\ wait' = "none" /\ plan' = plan
          /\ cst' = IF m.status = "SUCCESS" THEN "info" ELSE "abort"
      BY <1>2, <1>7, <2>4, <2>7 DEF Answered, StartsAtZero
    <3>2. m.status = "SUCCESS" => \E n \in 1 .. Len(notif) :
            notif[n].op = "START" /\ notif[n].status = "SUCCESS"
      BY <1>1, <2>7
    <3> QED BY <1>7, <2>2, <2>3, <3>1, <3>2
  <2>8. CASE m.op = "BUFFER_CRC"
    BY <1>2, <1>7, <2>2, <2>3, <2>4, <2>8 DEF Answered, PlanInv, TransferInv, StreamSound
  <2> QED BY <1>7, <2>4, <2>5, <2>6, <2>7, <2>8 DEF Answered
<1>8. CASE m.op = wait /\ wait = "VALID_FW"
  <2>1. cst = "send" BY <1>2, <1>8 DEF PlanInv
  <2>2. Notified("VALID_FW") BY <1>1, <1>8, StartDefinite
  <2>3. ~CheckPending BY <1>1, <1>2, <2>2 DEF CheckOrder
  <2>4. ~Accepted'
    <3> SUFFICES ASSUME NEW n \in 1 .. Len(notif'), notif'[n].op = "VALID_FW" PROVE FALSE
      BY DEF Accepted
    <3>1. n + 1 = 1 BY <1>1, <1>2, <1>8 DEF CheckOrder
    <3> QED BY <3>1
  <2>5. wait' = "none" /\ IF m.status = "SUCCESS" THEN cst' \in {"valid", "pick"}
                                                  ELSE cst' = "abort"
    BY <1>3, <1>8 DEF Answered
  <2>6. m.status = "SUCCESS" => Accepted BY <1>1, <1>8 DEF Accepted
  <2> QED BY <1>8, <2>1, <2>3, <2>4, <2>5, <2>6
<1> QED BY <1>6, <1>7, <1>8

LEMMA TaskAccepts ==
  ASSUME TypeInv, Task
  PROVE  Accepted' = Accepted
<1>1. QuietAnswer /\ \E R : notif \in Seq(R) BY TaskQuiet DEF TypeInv, OrderInv, Queues
<1>2. Accepted' => Accepted
  <2>1. \A n \in 1 .. Len(notif') : notif'[n].op = "VALID_FW" =>
          n \in 1 .. Len(notif) /\ notif'[n] = notif[n]
    BY <1>1, QuietOlder
  <2> QED BY <2>1 DEF Accepted
<1>3. Accepted => Accepted'
  <2>1. CASE notif' = notif BY <2>1 DEF Accepted
  <2>2. ASSUME NEW r, notif' = Append(notif, r) PROVE Accepted => Accepted'
    <3>1. /\ Len(notif) \in Nat /\ Len(notif') = Len(notif) + 1
          /\ \A n \in 1 .. Len(notif) : notif'[n] = notif[n]
      BY <1>1, <2>2, NotifAppend
    <3>2. \A n \in 1 .. Len(notif) : n \in 1 .. Len(notif') BY <3>1
    <3> QED BY <3>1, <3>2 DEF Accepted
  <2> QED BY <1>1, <2>1, <2>2 DEF QuietAnswer
<1> QED BY <1>2, <1>3 DEF Accepted

LEMMA CheckKinds ==
  ASSUME ~BankSwitch, TypeInv, TableInv, CompleteValidFw
  PROVE  /\ (cst = "send" /\ wait = "VALID_FW" /\ link = "up") \/ (cst = "off" /\ link = "down")
         /\ ~Accepted
<1>1. Running /\ CheckPending BY CheckEnds
<1>2. CheckOrder /\ ClientOff BY DEF TypeInv, OrderInv
<1> QED BY <1>1, <1>2 DEF CheckOrder, ClientOff, Accepted, Notified

LEMMA LossKinds ==
  ASSUME TypeInv, LoseLink \/ RestartAfterReset \/ PowerLoss
  PROVE  /\ cst' = "off" /\ wait' = "none"
         /\ \/ /\ Running /\ ~Accepted' /\ link' = "down" /\ (CheckPending' => CheckPending)
               /\ UNCHANGED <<flash, image_id, cur_offset, tempVars, modeVars>>
            \/ UNCHANGED tempVars /\ ~Running'
            \/ /\ ~Accepted' /\ ~CheckPending' /\ temp_image_num' = 0
               /\ \A n \in 0 .. MaxTemp : temp_image_info'[n] = NoInfo
<1>1. CASE LoseLink
  <2>1. /\ UNCHANGED <<flash, image_id, cur_offset, tempVars, modeVars, checking, reset>>
        /\ Post("DISCONNECTED") /\ Running
        /\ cst' = "off" /\ wait' = "none" /\ notif' = << >> /\ link' = "down"
    BY <1>1 DEF LoseLink, LinkDown, ClientGone, serviceVars, headVars, xferVars, checkVars
  <2>2. "DISCONNECTED" \in AppMessage \ {"VALID_FW"} BY DEF AppMessage
  <2>3. CheckPending' => CheckPending BY <2>1, <2>2, NoNewCheck DEF TypeInv
  <2>4. 1 .. Len(notif') = {} BY <2>1
  <2>5. ~Accepted' BY <2>4 DEF Accepted
  <2> QED BY <2>1, <2>3, <2>5
<1>2. ASSUME NEW f, DeviceRestart(f), ClientGone
      PROVE  /\ cst' = "off" /\ wait' = "none"
             /\ \/ UNCHANGED tempVars /\ ~Running'
                \/ /\ ~Accepted' /\ ~CheckPending' /\ temp_image_num' = 0
                   /\ \A n \in 0 .. MaxTemp : temp_image_info'[n] = NoInfo
  <2>1. cst' = "off" /\ wait' = "none" BY <1>2 DEF ClientGone
  <2>2. CASE RestartNew(f) BY <2>1, <2>2 DEF RestartNew, serviceVars, Running
  <2>3. CASE RestartOld(f)
    <3>1. /\ temp_image_num' = 0 /\ temp_image_info' = [n \in 0 .. MaxTemp |-> NoInfo]
          /\ checking' = {} /\ ioQueue' = <<"STACK_READY">> /\ notif' = << >>
      BY <2>3 DEF RestartOld, ServiceReset
    <3>2. 1 .. Len(notif') = {} BY <3>1
    <3>3. ~CheckPending' /\ ~Accepted' BY <3>1, <3>2 DEF CheckPending, Queued, Accepted
    <3> QED BY <2>1, <3>1, <3>3
  <2> QED BY <1>2, <2>2, <2>3 DEF DeviceRestart
<1> QED BY <1>1, <1>2 DEF RestartAfterReset, PowerLoss

-----------------------------------------------------------------------------
(* How a client sends, and what it has sent when it asks for the check.    *)

LEMMA ModeNext ==
  ASSUME TypeInv, WindowInv, TransferInv, TableInv, Mode, [Next]_vars
  PROVE  Mode'
<1>1. CASE Connect BY <1>1 DEF Connect, Mode
<1>2. CASE Request BY <1>2, RequestQuiet DEF Mode
<1>3. CASE SendStart BY <1>3 DEF SendStart, Ready, Mode
<1>4. CASE ReceiveNotification
  <2>1. sendMode' = sendMode BY <1>4, Received
  <2>2. cst' # "off" => cst # "off" BY <1>4, AnswerKinds
  <2> QED BY <2>1, <2>2 DEF Mode
<1>5. CASE LoseLink \/ RestartAfterReset \/ PowerLoss BY <1>5, LossKinds DEF Mode
<1>6. CASE DeviceTask /\ CompleteValidFw BY <1>6 DEF DeviceTask, clientVars, Mode
<1>7. CASE Task BY <1>7, TaskQuiet DEF clientVars, Mode
<1> QED BY <1>1, <1>2, <1>3, <1>4, <1>5, <1>6, <1>7 DEF Next, ClientStep, Request, Task

LEMMA PlainNext ==
  ASSUME ~BankSwitch, LinkLossReset, TypeInv, WindowInv, TransferInv, TableInv, BootFresh,
         Plain, [Next]_vars
  PROVE  Plain'
<1> DEFINE Streams == Running /\ cst # "off" /\ sendMode = "stream" => ~buffer_check_en
<1> USE DEF serviceVars, modeVars
<1>1. Booting' => ~buffer_check_en'
  <2> SUFFICES ASSUME Booting' PROVE ~buffer_check_en' OBVIOUS
  <2>1. CASE Booting /\ UNCHANGED <<tempVars, buffer_check_en>> BY <2>1 DEF Plain
  <2>2. CASE ServiceReset BY <2>2 DEF ServiceReset
  <2> QED BY <2>1, <2>2, BootingStill
<1>2. CASE Connect
  <2>1. Booting /\ UNCHANGED buffer_check_en BY <1>2 DEF Connect, LinkUp, Booting
  <2> QED BY <1>1, <2>1 DEF Plain
<1>3. CASE Request \/ SendStart
  <2> SUFFICES ASSUME Running', sendMode' = "stream" PROVE ~buffer_check_en' BY <1>1 DEF Plain
  <2>1. Running /\ cst # "off" /\ sendMode = "stream" BY <1>3, RequestKinds
  <2>2. ~buffer_check_en BY <2>1 DEF Plain
  <2>3. UNCHANGED buffer_check_en
    <3>1. CASE SendHello BY <2>1, <3>1 DEF SendHello, deviceVars
    <3>2. CASE SendTargetInfo \/ SendImageInfo \/ SendValidFw
      BY <3>2 DEF SendTargetInfo, WriteReportTargetInfo, ReportTargetInfo, SendImageInfo,
                  WriteReceiveFwImageInfo, ReceiveFwImageInfo, SendValidFw, WriteValidFw, ValidFw
    <3>3. CASE SendPacket \/ SendBufferCrc
      BY <3>3 DEF SendPacket, WritePacket, PacketReq, deviceVars, SendBufferCrc,
                  WriteReportBufferCrc, BufferCheckProcess
    <3>4. CASE SendActiveImageReset \/ SendSystemReset
      BY <3>4 DEF SendActiveImageReset, WriteActiveImageReset, ActiveImageReset,
                  SendSystemReset, WriteSystemReset, SystemReset
    <3>5. CASE SendStart BY <3>5 DEF SendStart, WriteStartDfu, StartDfu
    <3> QED BY <1>3, <3>1, <3>2, <3>3, <3>4, <3>5 DEF Request
  <2> QED BY <2>2, <2>3
<1>4. ASSUME UNCHANGED <<buffer_check_en, sendMode>>, Running' => Running, cst' # "off" => cst # "off"
      PROVE  Plain'
  BY <1>1, <1>4 DEF Plain
<1>5. CASE ReceiveNotification
  <2>1. UNCHANGED <<buffer_check_en, sendMode>> /\ Running BY <1>5, Received
  <2>2. cst' # "off" => cst # "off" BY <1>5, AnswerKinds
  <2> QED BY <1>4, <2>1, <2>2
<1>6. CASE LoseLink \/ RestartAfterReset \/ PowerLoss BY <1>1, <1>6, LossKinds DEF Plain
<1>7. CASE DeviceTask /\ CompleteValidFw
  BY <1>4, <1>7, CheckEnds DEF DeviceTask, clientVars
<1>8. CASE Task BY <1>4, <1>8, TaskQuiet DEF clientVars
<1> QED BY <1>2, <1>3, <1>5, <1>6, <1>7, <1>8 DEF Next, ClientStep, Request, Task

LEMMA ProcedureNext ==
  ASSUME ~BankSwitch, TypeInv, WindowInv, TransferInv, TableInv, Procedure, [Next]_vars
  PROVE  Procedure'
<1> DEFINE Started1(n) == notif[n].op = "START" /\ notif[n].status = "SUCCESS"
<1> USE DEF serviceVars, modeVars
<1>1. \E R : notif \in Seq(R) BY DEF TypeInv, OrderInv, Queues
<1>2. ASSUME UNCHANGED is_ota_procedure, Running' => Running,
             cst' \in {"info", "send"} =>
               cst \in {"info", "send"} \/ \E n \in 1 .. Len(notif) : Started1(n),
             \A n \in 1 .. Len(notif') : Started1(n)' =>
               \E k \in 1 .. Len(notif) : Started1(k)
      PROVE  Procedure'
  <2> HIDE DEF Started1
  <2>1. Running => /\ cst \in {"info", "send"} => is_ota_procedure
                   /\ \A n \in 1 .. Len(notif) : Started1(n) => is_ota_procedure
    BY DEF Procedure, Started1
  <2>2. Running' => /\ cst' \in {"info", "send"} => is_ota_procedure'
                    /\ \A n \in 1 .. Len(notif') : Started1(n)' => is_ota_procedure'
    BY <1>2, <2>1
  <2> QED BY <2>2 DEF Procedure, Started1
<1>3. ASSUME QuietAnswer PROVE \A n \in 1 .. Len(notif') : Started1(n)' =>
                                 \E k \in 1 .. Len(notif) : Started1(k)
  <2>1. \A n \in 1 .. Len(notif') : notif'[n].op \in {"START", "VALID_FW"} =>
          n \in 1 .. Len(notif) /\ notif'[n] = notif[n]
    BY <1>1, <1>3, QuietOlder
  <2> QED BY <2>1
<1>4. CASE Connect
  <2>1. UNCHANGED <<is_ota_procedure, notif, reset>> /\ cst' = "hello"
    BY <1>4 DEF Connect, LinkUp
  <2> QED BY <1>2, <2>1 DEF Running
<1>5. CASE Request
  <2>1. QuietAnswer /\ (Running' => Running) BY <1>5, RequestQuiet
  <2>2. UNCHANGED is_ota_procedure /\ (cst' \in {"info", "send"} => cst \in {"info", "send"})
    <3> USE DEF Ready
    <3>1. CASE SendHello BY <3>1 DEF SendHello, WriteBufferCheckEn, BufferCheckEn, deviceVars
    <3>2. CASE SendTargetInfo \/ SendImageInfo \/ SendValidFw
      BY <3>2 DEF SendTargetInfo, WriteReportTargetInfo, ReportTargetInfo, SendImageInfo,
                  WriteReceiveFwImageInfo, ReceiveFwImageInfo, SendValidFw, WriteValidFw, ValidFw
    <3>3. CASE SendPacket \/ SendBufferCrc
      BY <3>3 DEF SendPacket, WritePacket, PacketReq, deviceVars, SendBufferCrc,
                  WriteReportBufferCrc, BufferCheckProcess
    <3>4. CASE SendActiveImageReset \/ SendSystemReset
      BY <3>4 DEF SendActiveImageReset, WriteActiveImageReset, ActiveImageReset,
                  SendSystemReset, WriteSystemReset, SystemReset
    <3> QED BY <1>5, <3>1, <3>2, <3>3, <3>4 DEF Request
  <2> QED BY <1>2, <1>3, <2>1, <2>2
<1>6. CASE SendStart
  <2>1. PICK icTypeOk \in BOOLEAN : WriteStartDfu(img, icTypeOk) BY <1>6 DEF SendStart
  <2>2. Running /\ link = "up" /\ cst' = "start" /\ cst \in {"start", "info"}
    BY <1>6, <2>1 DEF SendStart, Ready, WriteStartDfu
  <2>3. CASE icTypeOk
    <3>1. is_ota_procedure' = TRUE BY <2>1, <2>3 DEF WriteStartDfu, StartDfu
    <3> QED BY <3>1 DEF Procedure
  <2>4. CASE ~icTypeOk
    <3>1. UNCHANGED is_ota_procedure BY <2>1, <2>4 DEF WriteStartDfu, StartDfu
    <3>2. PICK r : r.status # "SUCCESS" /\ notif' = Append(notif, r)
      <4>1. Notify("START", "INVALID_PARAMETER", 0) BY <2>1, <2>4 DEF WriteStartDfu, StartDfu
      <4> QED BY <2>2, <4>1 DEF Notify
    <3>3. /\ Len(notif) \in Nat /\ Len(notif') = Len(notif) + 1 /\ notif'[Len(notif) + 1] = r
          /\ \A n \in 1 .. Len(notif) : notif'[n] = notif[n]
      BY <1>1, <3>2, NotifAppend
    <3>4. \A n \in 1 .. Len(notif') : n \in 1 .. Len(notif) \/ n = Len(notif) + 1 BY <3>3
    <3> QED BY <1>2, <2>2, <3>1, <3>2, <3>3, <3>4
  <2> QED BY <2>3, <2>4
<1>7. CASE ReceiveNotification
  <2>1. /\ UNCHANGED is_ota_procedure /\ Running
        /\ \A n \in 1 .. Len(notif') : n + 1 \in 1 .. Len(notif) /\ notif'[n] = notif[n + 1]
    BY <1>7, Received
  <2>2. cst' \in {"info", "send"} =>
          cst \in {"info", "send"} \/ \E n \in 1 .. Len(notif) : Started1(n)
    BY <1>7, AnswerKinds
  <2>3. \A n \in 1 .. Len(notif') : Started1(n)' => \E k \in 1 .. Len(notif) : Started1(k)
    BY <2>1
  <2> QED BY <1>2, <2>1, <2>2, <2>3
<1>8. CASE LoseLink
  <2>1. cst' = "off" /\ notif' = << >> BY <1>8 DEF LoseLink, LinkDown, ClientGone
  <2>2. 1 .. Len(notif') = {} BY <2>1
  <2> QED BY <2>1, <2>2 DEF Procedure
<1>9. ASSUME NEW f, DeviceRestart(f), ClientGone PROVE Procedure'
  <2>1. cst' = "off" /\ (~Running' \/ notif' = << >>)
    BY <1>9 DEF DeviceRestart, RestartNew, RestartOld, ClientGone, Running
  <2>2. Running' => 1 .. Len(notif') = {} BY <2>1
  <2> QED BY <2>1, <2>2 DEF Procedure
<1>10. CASE DeviceTask /\ CompleteValidFw
  <2>1. UNCHANGED <<is_ota_procedure, cst>> /\ Running
    BY <1>10, CheckEnds DEF DeviceTask, clientVars
  <2>2. \E status : Notify("VALID_FW", status, 0) BY <1>10, CheckEnds
  <2>3. notif' = notif \/ \E r : r.op = "VALID_FW" /\ notif' = Append(notif, r)
    BY <2>2 DEF Notify
  <2>4. ASSUME NEW r, r.op = "VALID_FW", notif' = Append(notif, r),
               NEW n \in 1 .. Len(notif'), Started1(n)'
        PROVE  \E k \in 1 .. Len(notif) : Started1(k)
    <3>1. /\ Len(notif) \in Nat /\ Len(notif') = Len(notif) + 1 /\ notif'[Len(notif) + 1] = r
          /\ \A k \in 1 .. Len(notif) : notif'[k] = notif[k]
      BY <1>1, <2>4, NotifAppend
    <3>2. n \in 1 .. Len(notif) \/ n = Len(notif) + 1 BY <3>1
    <3> QED BY <2>4, <3>1, <3>2
  <2>5. \A n \in 1 .. Len(notif') : Started1(n)' => \E k \in 1 .. Len(notif) : Started1(k)
    BY <2>3, <2>4
  <2> QED BY <1>2, <2>1, <2>5
<1>11. CASE Task
  <2>1. UNCHANGED <<is_ota_procedure, cst>> /\ QuietAnswer /\ (Running' => Running)
    BY <1>11, TaskQuiet DEF clientVars
  <2> QED BY <1>2, <1>3, <2>1
<1> QED BY <1>4, <1>5, <1>6, <1>7, <1>8, <1>9, <1>10, <1>11
        DEF Next, ClientStep, Request, Task, RestartAfterReset, PowerLoss

(* Without buffer check nothing is left in the buffer after the last cell. *)
LEMMA StreamFlushedNext ==
  ASSUME ~BankSwitch, TypeInv, WindowInv, TransferInv, TableInv, Plain, Procedure,
         StreamFlushed, [Next]_vars
  PROVE  StreamFlushed'
<1>1. ASSUME UNCHANGED <<cur_offset, tmp_buf, cst, wait, plan, sendMode>>, Running' => Running
      PROVE  StreamFlushed'
  <2>1. (img' = img) /\ used' = used /\ (Ready("send")' <=> Ready("send"))
    BY <1>1 DEF img, used, Ready
  <2> QED BY <1>1, <2>1 DEF StreamFlushed
<1>2. ASSUME cst' # "send" \/ wait' # "none" \/ sendMode' # "stream" PROVE StreamFlushed'
  BY <1>2 DEF StreamFlushed, Ready
<1>3. CASE Connect BY <1>2, <1>3 DEF Connect
<1>4. CASE SendImageInfo
  <2>1. coff = 0 BY <1>4 DEF SendImageInfo, Ready, WindowInv, StartsAtZero
  <2>2. tmp_buf' = << >>
    BY <1>4, <2>1 DEF SendImageInfo, WriteReceiveFwImageInfo, ReceiveFwImageInfo
  <2> QED BY <2>2 DEF StreamFlushed, used
<1>5. CASE SendPacket
  <2> SUFFICES ASSUME Running', sendMode = "stream" PROVE StreamFlushed'
    BY <1>5, WriteFrame DEF StreamFlushed
  <2>1. /\ UNCHANGED <<plan, cst, sendMode, wait>> /\ Running /\ cst = "send"
        /\ image_total_length = Length[img]
    BY <1>5, WriteFrame DEF SendPacket, TransferInv, SameImage
  <2>2. ~buffer_check_en /\ is_ota_procedure BY <2>1 DEF Plain, Procedure
  <2>3. CASE UNCHANGED deviceVars
    BY <1>1, <2>1, <2>3 DEF deviceVars, serviceVars, xferVars
  <2>4. ASSUME NEW cell \in {<<img, coff + chunk>>, <<Noise, coff + chunk>>}, NEW mayFail,
               PacketReq(cell, FALSE, mayFail)
        PROVE  StreamFlushed'
    <3>1. PacketStreamed(cell, FALSE, mayFail)
      BY <2>2, <2>4 DEF PacketReq, PacketIgnored, PacketBuffered
    <3>2. \/ tmp_buf' = << >>
          \/ /\ ~(cur_offset + Len(Append(tmp_buf, cell)) > image_total_length)
             /\ cur_offset + Len(Append(tmp_buf, cell)) # image_total_length
             /\ tmp_buf' = Append(tmp_buf, cell) /\ cur_offset' = cur_offset
      BY <3>1 DEF PacketStreamed, StreamWritten
    <3>3. CASE tmp_buf' = << >> BY <3>3 DEF StreamFlushed, used
    <3>4. CASE tmp_buf' # << >>
      <4>1. used' = Len(Append(tmp_buf, cell)) /\ cur_offset' = cur_offset
        BY <3>2, <3>4 DEF used
      <4>2. /\ ~(cur_offset' + used' > Length[img]) /\ cur_offset' + used' # Length[img]
            /\ img' = img
        BY <2>1, <3>2, <3>4, <4>1 DEF img
      <4>3. cur_offset' \in Nat /\ used' \in Nat /\ Length[img] \in Nat
        <5>1. TypeOK /\ tmp_buf \in Seq(Payload) /\ cell \in Payload
          <6>1. TypeOK /\ img \in Images /\ coff + chunk \in Nat
            BY <2>1, PlanHead DEF TypeInv, OrderInv, TypeOK, ClientTypeOK
          <6> QED BY <2>4, <6>1 DEF TypeOK, DeviceTypeOK, Payload
        <5>2. Append(tmp_buf, cell) \in Seq(Payload) BY <5>1
        <5>3. img \in Images BY <2>1, PlanHead DEF TypeInv, TypeOK, OrderInv
        <5> QED BY <4>1, <5>1, <5>2, <5>3, LayoutAssumption DEF TypeOK, DeviceTypeOK
      <4>4. cur_offset' + used' < Length[img'] BY <4>2, <4>3
      <4> QED BY <4>4 DEF StreamFlushed
    <3> QED BY <3>3, <3>4
  <2>5. \E cell \in {<<img, coff + chunk>>, <<Noise, coff + chunk>>} : \E mayFail :
          UNCHANGED deviceVars \/ PacketReq(cell, FALSE, mayFail)
    BY <1>5, PacketCell
  <2> QED BY <2>3, <2>4, <2>5
<1>6. CASE \/ SendHello \/ SendTargetInfo \/ SendStart \/ SendBufferCrc \/ SendValidFw
           \/ SendActiveImageReset \/ SendSystemReset
  BY <1>2, <1>6 DEF SendHello, SendTargetInfo, SendStart, SendBufferCrc, SendValidFw,
                    SendActiveImageReset, SendSystemReset, Ready
<1>7. CASE ReceiveNotification
  <2>1. UNCHANGED <<cur_offset, tmp_buf, sendMode>> /\ Running BY <1>7, Received
  <2>2. \/ UNCHANGED <<cst, wait, plan>>
        \/ cst' # "send" \/ sendMode' # "stream"
    BY <1>7, <2>1, AnswerKinds
  <2> QED BY <1>1, <1>2, <2>1, <2>2
<1>8. CASE LoseLink \/ RestartAfterReset \/ PowerLoss BY <1>2, <1>8, LossKinds
<1>9. CASE DeviceTask /\ CompleteValidFw BY <1>1, <1>9, CheckEnds DEF DeviceTask, clientVars
<1>10. CASE Task BY <1>1, <1>10, TaskQuiet DEF clientVars
<1> QED BY <1>3, <1>4, <1>5, <1>6, <1>7, <1>8, <1>9, <1>10 DEF Next, ClientStep, Task

(* When the client asks for the check, the whole image is in the flash at  *)
(* the place the service wrote it to.                                      *)
LEMMA AllArrived ==
  ASSUME WritesSound, TypeInv, WindowInv, TransferInv, Mode, Procedure, StreamFlushed,
         SendValidFw, Running
  PROVE  /\ image_id = img /\ img \in Images /\ cur_offset = Length[image_id]
         /\ Prefix(flash, WriteBase, image_id, cur_offset)
<1>1. /\ cst = "send" /\ wait = "none" /\ coff + chunk = Length[img]
      /\ sendMode = "check" => chunk = 0
  BY DEF SendValidFw, Ready, AllSent
<1>2. image_id = img /\ img \in Images
  BY <1>1, PlanHead DEF TransferInv, SameImage, TypeInv, TypeOK, OrderInv
<1>3. TypeOK /\ sendMode \in {"check", "stream"} /\ sendMode \in ClientModes
  BY <1>1 DEF TypeInv, TypeOK, ClientTypeOK, Mode
<1>4. CASE sendMode = "check"
  <2>1. coff = cur_offset /\ chunk = 0 BY <1>1, <1>4 DEF WindowInv, OffsetsAgree
  <2>2. cur_offset \in Nat BY <1>3 DEF TypeOK, DeviceTypeOK
  <2>3. cur_offset = Length[img] BY <1>1, <2>1, <2>2
  <2>4. Transferring BY <1>1, <1>4 DEF Transferring
  <2> QED BY <1>2, <2>3, <2>4 DEF TransferInv, PrefixInFlash
<1>5. CASE sendMode = "stream"
  <2>1. damage = 0
    <3>1. MaxDamage = 0 BY <1>3, <1>5 DEF WritesSound
    <3>2. damage \in 0 .. MaxDamage BY <1>3 DEF TypeOK, ClientTypeOK
    <3> QED BY <3>1, <3>2
  <2>2. is_ota_procedure BY <1>1 DEF Procedure
  <2>3. coff + chunk = cur_offset + used
    BY <1>1, <1>5, <2>1, <2>2 DEF TransferInv, StreamSound, Ready
  <2>4. used = 0 \/ cur_offset + used < Length[img] BY <1>1, <1>5 DEF StreamFlushed, Ready
  <2>5. cur_offset \in Nat BY <1>3 DEF TypeOK, DeviceTypeOK
  <2>6. Length[img] \in Nat BY <1>2, LayoutAssumption
  <2>7. cur_offset = Length[img] BY <1>1, <2>3, <2>4, <2>5, <2>6
  <2>8. Transferring BY <1>1, <2>1 DEF Transferring
  <2> QED BY <1>2, <2>7, <2>8 DEF TransferInv, PrefixInFlash
<1> QED BY <1>3, <1>4, <1>5

(* From the request to the end of its check the image stays where it is.   *)
LEMMA SentNext ==
  ASSUME ~BankSwitch, WritesSound, TypeInv, WindowInv, TransferInv, TableInv, Mode, Procedure,
         StreamFlushed, Sent, [Next]_vars
  PROVE  Sent'
<1>1. ASSUME UNCHANGED <<flash, image_id, cur_offset, tempVars>>, Running' => Running,
             CheckPending' => CheckPending
      PROVE  Sent'
  <2>1. WriteBase' = WriteBase BY <1>1 DEF WriteBase, CurrentImageOffset, tempVars
  <2> QED BY <1>1, <2>1 DEF Sent, Prefix
<1>2. CASE Connect
  <2>1. /\ UNCHANGED <<flash, image_id, cur_offset, tempVars, checking, reset>>
        /\ Post("CONNECTED") /\ "CONNECTED" \in AppMessage \ {"VALID_FW"}
    BY <1>2 DEF Connect, LinkUp, serviceVars, headVars, xferVars, checkVars, AppMessage
  <2>2. CheckPending' => CheckPending BY <2>1, NoNewCheck DEF TypeInv
  <2> QED BY <1>1, <2>1, <2>2 DEF Running
<1>3. CASE SendValidFw
  <2>1. /\ UNCHANGED <<flash, cur_offset, tempVars>> /\ Running /\ image_id' = img
    BY <1>3 DEF SendValidFw, WriteValidFw, ValidFw, xferVars
  <2>2. /\ image_id = img /\ cur_offset = Length[image_id]
        /\ Prefix(flash, WriteBase, image_id, cur_offset)
    BY <1>3, <2>1, AllArrived
  <2>3. WriteBase' = WriteBase
    BY <2>1, <2>2 DEF WriteBase, CurrentImageOffset, tempVars
  <2> QED BY <2>1, <2>2, <2>3 DEF Sent, Prefix
<1>4. CASE (Request \/ SendStart) /\ ~SendValidFw
  BY <1>4, RequestKinds DEF Sent
<1>5. CASE ReceiveNotification BY <1>1, <1>5, Received
<1>6. CASE LoseLink \/ RestartAfterReset \/ PowerLoss
  <2>1. CASE ~Running' BY <2>1 DEF Sent
  <2>2. CASE ~CheckPending' BY <2>2 DEF Sent
  <2>3. CASE Running' /\ CheckPending' BY <1>1, <1>6, <2>3, LossKinds
  <2> QED BY <2>1, <2>2, <2>3
<1>7. CASE DeviceTask /\ CompleteValidFw BY <1>7, CheckEnds DEF Sent
<1>8. CASE Task BY <1>1, <1>8, TaskQuiet
<1> QED BY <1>2, <1>3, <1>4, <1>5, <1>6, <1>7, <1>8 DEF Next, ClientStep, Request, Task

-----------------------------------------------------------------------------
(* The header of the temp bank is not marked ready while images follow it. *)

LEMMA WritesMove ==
  ASSUME OneBank, TypeInv, WindowInv, TransferInv, BufferOfImage, WriteOpen,
         SendPacket \/ SendBufferCrc
  PROVE  /\ Rewrites(flash, flash', image_id) /\ UNCHANGED <<image_id, tempVars, plan, sendMode>>
         /\ CurrentImageOffset + cur_offset' > 0 => BankBase[image_id] \notin flash'.ready
         /\ cst = "send" /\ wait = "none" /\ image_id = img /\ image_id \in Images
<1>1. UNCHANGED <<image_id, plan, sendMode>> /\ cst = "send" /\ wait = "none" BY WriteFrame
<1>2. UNCHANGED tempVars
  BY DEF SendPacket, WritePacket, PacketReq, deviceVars, serviceVars, SendBufferCrc,
         WriteReportBufferCrc, BufferCheckProcess
<1>3. image_id = img /\ image_id \in Images
  BY <1>1, PlanHead DEF TransferInv, SameImage, TypeInv, TypeOK, OrderInv
<1> QED BY <1>1, <1>2, <1>3, PacketMoves, BufferCrcMoves DEF OneBank

LEMMA BaseOpenNext ==
  ASSUME OneBank, WritesSound, TypeInv, WindowInv, TransferInv, TableInv, Mode, Procedure,
         StreamFlushed, BufferOfImage, WriteOpen, BaseOpen, [Next]_vars
  PROVE  BaseOpen'
<1> USE DEF tempVars
<1>1. ASSUME flash'.ready \subseteq flash.ready, Running' => Running,
             temp_image_num' = temp_image_num,
             cst' \notin {"off", "end"} => cst \notin {"off", "end"},
             Running' /\ CheckPending' => CheckPending /\ image_id' = image_id
      PROVE  BaseOpen'
  BY <1>1 DEF BaseOpen
<1>2. CASE Connect
  <2>1. /\ UNCHANGED <<temp_image_num, checking>> /\ advertising
        /\ Post("CONNECTED") /\ "CONNECTED" \in AppMessage \ {"VALID_FW"}
    BY <1>2 DEF Connect, LinkUp, serviceVars, checkVars, AppMessage
  <2>2. CheckPending' => CheckPending BY <2>1, NoNewCheck DEF TypeInv
  <2>3. ~CheckPending BY <2>1 DEF TypeInv, OrderInv, LinkOrder
  <2>4. temp_image_num = 0 BY <2>1 DEF TableInv, FreshTable, Booting
  <2> QED BY <2>1, <2>2, <2>3, <2>4 DEF BaseOpen
<1>3. CASE SendValidFw
  <2>1. /\ UNCHANGED <<flash, tempVars, cst, reset>> /\ Running /\ image_id' = img
        /\ cst = "send" /\ wait = "none"
    BY <1>3 DEF SendValidFw, WriteValidFw, ValidFw, Ready
  <2>2. CASE temp_image_num > 0
    BY <2>1, <2>2 DEF BaseOpen, Running
  <2>3. CASE ~(temp_image_num > 0) /\ image_id' \in TempImages
    <3>1. /\ image_id = img /\ img \in Images /\ cur_offset = Length[image_id]
      BY <1>3, <2>1, AllArrived
    <3>2. BankBase[image_id] = TempBase BY <2>1, <2>3, <3>1, TempPlace
    <3>3. CurrentImageOffset + cur_offset > 0
      <4>1. CurrentImageOffset \in Nat BY PlaceTyped DEF TypeInv, TypeOK
      <4>2. Length[image_id] \in Nat /\ Length[image_id] > 0 BY <3>1, BankTyped
      <4> QED BY <3>1, <4>1, <4>2
    <3>4. TempBase \notin flash.ready BY <2>1, <3>2, <3>3 DEF WriteOpen
    <3> QED BY <2>1, <3>4 DEF BaseOpen
  <2> QED BY <2>1, <2>2, <2>3 DEF BaseOpen
<1>4. CASE SendPacket \/ SendBufferCrc
  <2>1. temp_image_num' = temp_image_num /\ cst = "send" /\ flash'.ready \subseteq flash.ready
    BY <1>4, WritesMove DEF Rewrites, Within
  <2>2. Running' => Running /\ ~CheckPending'
    BY <1>4, RequestKinds DEF Request, SendValidFw, SendPacket, SendBufferCrc, AllSent
  <2> QED BY <1>1, <2>1, <2>2
<1>5. CASE SendHello \/ SendTargetInfo \/ SendStart \/ SendImageInfo
  <2>1. UNCHANGED <<flash, temp_image_num>> /\ cst \notin {"off", "end"}
    <3>1. UNCHANGED flash /\ cst \notin {"off", "end"} BY <1>5, RequestFrame
    <3>2. CASE SendHello BY <3>1, <3>2 DEF SendHello, WriteBufferCheckEn, BufferCheckEn, deviceVars, serviceVars
    <3>3. CASE SendTargetInfo \/ SendImageInfo
      BY <3>1, <3>3 DEF SendTargetInfo, WriteReportTargetInfo, ReportTargetInfo,
                        SendImageInfo, WriteReceiveFwImageInfo, ReceiveFwImageInfo
    <3>4. CASE SendStart BY <3>1, <3>4 DEF SendStart, WriteStartDfu, StartDfu
    <3> QED BY <1>5, <3>2, <3>3, <3>4
  <2>2. ~SendValidFw
    BY <1>5 DEF SendHello, SendTargetInfo, SendStart, SendImageInfo, SendValidFw, Ready
  <2>3. Running' => Running /\ ~CheckPending'
    BY <1>5, <2>2, RequestKinds DEF Request
  <2> QED BY <1>1, <2>1, <2>3
<1>6. CASE SendActiveImageReset \/ SendSystemReset
  BY <1>6 DEF SendActiveImageReset, SendSystemReset, BaseOpen
<1>7. CASE ReceiveNotification
  <2>1. UNCHANGED <<flash, temp_image_num, image_id>> /\ Running /\ CheckPending' = CheckPending
    BY <1>7, Received
  <2>2. cst' \notin {"off", "end"} => cst \notin {"off", "end"} BY <1>7, AnswerKinds
  <2> QED BY <1>1, <2>1, <2>2
<1>8. CASE LoseLink \/ RestartAfterReset \/ PowerLoss BY <1>8, LossKinds DEF BaseOpen
<1>9. CASE DeviceTask /\ CompleteValidFw
  <2>1. /\ UNCHANGED <<flash, cst>> /\ Running /\ CheckPending /\ ~CheckPending' /\ image_id \in Images
        /\ temp_image_num' = temp_image_num
             \/ (image_id \notin UserImages /\ temp_image_num' = temp_image_num + 1)
    BY <1>9, CheckEnds DEF DeviceTask, clientVars, OneBank, PlacedImage
  <2> QED BY <2>1 DEF BaseOpen, TempImages
<1>10. CASE Task
  <2>1. /\ UNCHANGED <<flash, image_id, temp_image_num, cst>>
        /\ (Running' => Running) /\ (CheckPending' => CheckPending)
    BY <1>10, TaskQuiet DEF clientVars
  <2> QED BY <1>1, <2>1
<1> QED BY <1>2, <1>3, <1>4, <1>5, <1>6, <1>7, <1>8, <1>9, <1>10 DEF Next, ClientStep, Task

LEMMA WriteOpenNext ==
  ASSUME OneBank, TypeInv, WindowInv, TransferInv, TableInv, BufferOfImage, BaseOpen, WriteOpen,
         [Next]_vars
  PROVE  WriteOpen'
<1>1. ASSUME UNCHANGED <<flash, image_id, cur_offset, tempVars>>,
             cst' = "send" /\ wait' # "VALID_FW" => cst = "send" /\ wait # "VALID_FW"
      PROVE  WriteOpen'
  <2>1. CurrentImageOffset' = CurrentImageOffset BY <1>1 DEF CurrentImageOffset, tempVars
  <2> QED BY <1>1, <2>1 DEF WriteOpen
<1>2. ASSUME cst' # "send" \/ wait' = "VALID_FW" PROVE WriteOpen' BY <1>2 DEF WriteOpen
<1>3. CASE Connect \/ SendValidFw BY <1>2, <1>3 DEF Connect, SendValidFw
<1>4. CASE SendHello \/ SendTargetInfo \/ SendStart \/ SendActiveImageReset \/ SendSystemReset
  BY <1>2, <1>4 DEF SendHello, SendTargetInfo, SendStart, SendActiveImageReset, SendSystemReset,
                    Ready
<1>5. CASE SendImageInfo
  <2>1. /\ cst = "info" /\ Running /\ image_id' = img /\ cur_offset' = coff
        /\ UNCHANGED <<flash, tempVars>>
    BY <1>5 DEF SendImageInfo, Ready, WriteReceiveFwImageInfo, ReceiveFwImageInfo
  <2>2. cur_offset' = 0 BY <2>1 DEF WindowInv, StartsAtZero
  <2>3. PlacedImage /\ image_id = img BY <2>1 DEF TableInv, Placed, Named
  <2>4. CurrentImageOffset' = CurrentImageOffset /\ CurrentImageOffset \in Nat
    <3>1. CurrentImageOffset \in Nat BY PlaceTyped DEF TypeInv, TypeOK
    <3> QED BY <2>1, <3>1 DEF CurrentImageOffset, tempVars
  <2>5. CASE image_id \in UserImages
    <3>1. CurrentImageOffset = 0 BY <2>3, <2>5 DEF PlacedImage, CurrentImageOffset, NoInfo
    <3> QED BY <2>2, <2>4, <3>1 DEF WriteOpen
  <2>6. CASE temp_image_num = 0 /\ image_id \notin UserImages
    <3>1. CurrentImageOffset = 0
      BY <2>3, <2>6 DEF PlacedImage, CurrentImageOffset, EntryOf, TempEnd
    <3> QED BY <2>2, <2>4, <3>1 DEF WriteOpen
  <2>7. CASE temp_image_num # 0 /\ image_id \notin UserImages
    <3>1. temp_image_num > 0
      <4>1. temp_image_num \in Nat BY BufferAssumption DEF TypeInv, TypeOK, DeviceTypeOK
      <4> QED BY <2>7, <4>1
    <3>2. TempBase \notin flash.ready BY <2>1, <3>1 DEF BaseOpen
    <3>3. BankBase[image_id] = TempBase
      BY <2>3, <2>7, TempPlace DEF PlacedImage, TempImages
    <3> QED BY <2>1, <2>3, <3>2, <3>3 DEF WriteOpen
  <2> QED BY <2>5, <2>6, <2>7
<1>6. CASE SendPacket \/ SendBufferCrc
  <2>1. /\ UNCHANGED <<image_id, tempVars>>
        /\ CurrentImageOffset + cur_offset' > 0 => BankBase[image_id] \notin flash'.ready
    BY <1>6, WritesMove
  <2>2. CurrentImageOffset' = CurrentImageOffset BY <2>1 DEF CurrentImageOffset, tempVars
  <2> QED BY <2>1, <2>2 DEF WriteOpen
<1>7. CASE ReceiveNotification
  <2>1. UNCHANGED <<flash, image_id, cur_offset, tempVars>> BY <1>7, Received
  <2>2. cst' = "send" /\ wait' # "VALID_FW" => cst = "send" /\ wait # "VALID_FW"
    BY <1>7, AnswerKinds
  <2> QED BY <1>1, <2>1, <2>2
<1>8. CASE LoseLink \/ RestartAfterReset \/ PowerLoss BY <1>2, <1>8, LossKinds
<1>9. CASE DeviceTask /\ CompleteValidFw
  <2>1. UNCHANGED <<cst, wait>> BY <1>9 DEF DeviceTask, clientVars
  <2>2. cst # "send" \/ wait = "VALID_FW" BY <1>9, CheckKinds DEF OneBank
  <2> QED BY <1>2, <2>1, <2>2
<1>10. CASE Task BY <1>1, <1>10, TaskQuiet DEF clientVars
<1> QED BY <1>3, <1>4, <1>5, <1>6, <1>7, <1>8, <1>9, <1>10 DEF Next, ClientStep, Task

-----------------------------------------------------------------------------
(* The banks of the user data lie apart from the temp bank.                *)

LEMMA UserLeaves ==
  ASSUME OneBank, NEW u \in UserImages, NEW f, NEW g, Within(f, g, u),
         NEW b \in Addr, TempBase <= b, SectorFirst(b) < TempBase + TempSize
  PROVE  g.cells[b] = f.cells[b] /\ (b \in g.ready => b \in f.ready)
<1>1. u \in Images /\ Ota \in Images /\ u # Ota BY OtaTyped, LayoutAssumption DEF TempImages
<1>2. /\ BankBase[u] \in Nat /\ BankSize[u] \in Nat /\ BankBase[u] % SectorSize = 0
      /\ TempBase \in Nat /\ TempSize \in Nat /\ TempBase % SectorSize = 0
      /\ b \in Nat /\ SectorFirst(b) \in Int
  BY <1>1, BankTyped, BankAligned, OtaTyped, FirstTyped, LayoutAssumption DEF Addr
<1>3. TempBase + TempSize <= BankBase[u] \/ BankBase[u] + BankSize[u] <= TempBase
  BY <1>1 DEF OneBank, Apart, TempBase, TempSize
<1>4. TempBase <= SectorFirst(b) BY <1>2, FirstAbove
<1>5. BankBase[u] <= b => BankBase[u] <= SectorFirst(b) BY <1>2, FirstAbove
<1>6. ~(BankBase[u] <= b /\ SectorFirst(b) < BankBase[u] + BankSize[u])
  <2> HIDE DEF TempBase, TempSize
  <2> QED BY <1>2, <1>3, <1>4, <1>5
<1>7. b \notin Region(u) BY <1>6 DEF Region
<1> QED BY <1>7 DEF Within

LEMMA TempEndTyped ==
  ASSUME TypeInv
  PROVE  TempEnd \in Nat
<1>1. temp_image_num \in Nat /\ DeviceTypeOK
  BY BufferAssumption DEF TypeInv, TypeOK, DeviceTypeOK
<1>2. CASE temp_image_num = 0 BY <1>2 DEF TempEnd
<1>3. CASE temp_image_num # 0
  <2>1. temp_image_num - 1 \in 0 .. MaxTemp
    BY <1>1, <1>3, BufferAssumption DEF DeviceTypeOK
  <2>2. temp_image_info[temp_image_num - 1] \in TempInfo BY <1>1, <2>1 DEF DeviceTypeOK
  <2> QED BY <1>3, <2>2 DEF TempEnd, TempInfo
<1> QED BY <1>2, <1>3

(* An image of the temp bank that is being sent has its place behind the   *)
(* others, and fits there.                                                 *)
LEMMA TempTransfer ==
  ASSUME OneBank, TypeInv, TransferInv, TableInv, Running, Transfers
  PROVE  /\ image_id = img /\ image_id \in Images /\ TempEnd \in Nat /\ TempEnd <= TempSize
         /\ image_id \in UserImages => CurrentImageOffset = 0
         /\ image_id \in TempImages =>
              /\ BankBase[image_id] = TempBase /\ BankSize[image_id] = TempSize
              /\ CurrentImageOffset = TempEnd /\ TempEnd + Length[image_id] <= TempSize
<1>1. image_id = img /\ image_id \in Images /\ plan \in Seq(Images) /\ plan # << >>
  BY PlanHead DEF Transfers, TransferInv, SameImage, TypeInv, TypeOK, OrderInv, ClientTypeOK,
                  PlanInv
<1>2. PlacedImage /\ Fits(plan, TempEnd) BY DEF TableInv, Placed, Roomy, Sending
<1>3. TempEnd + Needs(image_id) <= TempSize /\ TempEnd \in Nat /\ Needs(image_id) \in Nat
  <2>1. TempEnd + Needs(Head(plan)) <= TempSize /\ TempEnd \in Nat BY <1>1, <1>2, FitsTail
  <2> QED BY <1>1, <2>1, NeedsTyped DEF img
<1>4. TempEnd <= TempSize
  <2>1. TempSize \in Nat BY OtaTyped
  <2> HIDE DEF TempSize
  <2> QED BY <1>3, <2>1
<1>5. image_id \in UserImages => CurrentImageOffset = 0
  BY <1>2 DEF PlacedImage, CurrentImageOffset, NoInfo
<1>6. ASSUME image_id \in TempImages
      PROVE  /\ BankBase[image_id] = TempBase /\ BankSize[image_id] = TempSize
             /\ CurrentImageOffset = TempEnd /\ TempEnd + Length[image_id] <= TempSize
  <2>1. /\ image_id \notin UserImages /\ BankBase[image_id] = TempBase
        /\ BankSize[image_id] = TempSize /\ Needs(image_id) = Length[image_id]
    BY <1>6, TempPlace
  <2>2. CurrentImageOffset = TempEnd BY <1>2, <2>1 DEF PlacedImage, CurrentImageOffset, EntryOf
  <2> QED BY <1>3, <2>1, <2>2
<1> QED BY <1>1, <1>3, <1>4, <1>5, <1>6

(* Behind the images of the temp bank the flash is erased as far as the    *)
(* next write goes: with a flash that works, that write succeeds, and the  *)
(* erases that follow a failed one are not needed.                         *)
LEMMA FlashWorks ==
  ASSUME OneBank, WritesSound, TypeInv, WindowInv, TransferInv, TableInv, Mode, BlankTail,
         SendBufferCrc
  PROVE  CurrentImageOffset = 0 \/ FlashWrites
<1> SUFFICES ASSUME CurrentImageOffset # 0, used = chunk, NEW mayFail \in {FALSE, MayFail},
                    NEW u \in dfu_update(flash, image_id, cur_offset, CurrentImageOffset,
                                         tmp_buf, mayFail)
             PROVE  u.ok
  BY DEF FlashWrites
<1>1. /\ cst = "send" /\ wait = "none" /\ sendMode = "check" /\ Running
  BY DEF SendBufferCrc, Ready, ChunkFull, WriteReportBufferCrc
<1>2. Transfers /\ Sending /\ ~Accepted
  <2>1. ~Accepted BY <1>1, NoCheck
  <2> QED BY <1>1, <2>1 DEF Transfers, Sending
<1>3. image_id \in TempImages BY <1>1, <1>2, TempTransfer DEF TempImages
<1>4. /\ image_id = img /\ image_id \in Images /\ TempEnd \in Nat
      /\ BankBase[image_id] = TempBase /\ BankSize[image_id] = TempSize
      /\ CurrentImageOffset = TempEnd /\ TempEnd + Length[image_id] <= TempSize
  BY <1>1, <1>2, <1>3, TempTransfer
<1>5. /\ flash \in Flash /\ cur_offset \in Nat /\ tmp_buf \in Seq(Payload)
      /\ used \in Nat /\ used <= BufSize
  BY DEF TypeInv, TypeOK, DeviceTypeOK, used
<1>6. mayFail = FALSE
  <2>1. MaxFlashFaults = 0 BY <1>1 DEF Mode, WritesSound
  <2>2. faults \in 0 .. MaxFlashFaults BY DEF TypeInv, TypeOK, ClientTypeOK
  <2>3. ~(faults < MaxFlashFaults) BY <2>1, <2>2
  <2>4. (faults < MaxFlashFaults) = FALSE BY <2>3
  <2>5. MayFail = FALSE BY <2>4 DEF MayFail
  <2> QED BY <2>5
<1>7. cur_offset + used <= Length[image_id]
  <2>1. coff = cur_offset BY <1>1 DEF WindowInv, OffsetsAgree
  <2>2. coff + chunk <= Length[img] BY <1>1 DEF TransferInv, BufferSound
  <2> QED BY <1>4, <2>1, <2>2
<1>8. BlankFrom(flash, TempBase + TempEnd + cur_offset)
  BY <1>1, <1>2, <1>3 DEF BlankTail, Written
<1>9. /\ cur_offset + CurrentImageOffset > 0
      /\ cur_offset + CurrentImageOffset + used <= BankSize[image_id]
      /\ BankBase[image_id] + cur_offset + CurrentImageOffset = TempBase + TempEnd + cur_offset
  <2>1. TempSize \in Nat /\ TempBase \in Nat /\ Length[image_id] \in Nat
    BY <1>4, OtaTyped, BankTyped
  <2> HIDE DEF TempSize, TempBase, TempEnd, used
  <2> QED BY <1>4, <1>5, <1>7, <2>1
<1>10. used <= SectorSize
  BY <1>5, BufferAssumption, LayoutAssumption
<1>11. u \in dfu_update(flash, image_id, cur_offset, CurrentImageOffset, tmp_buf, FALSE)
  BY <1>6
<1>12. CurrentImageOffset \in Nat BY <1>4
<1>13. /\ cur_offset + CurrentImageOffset + Len(tmp_buf) <= BankSize[image_id]
       /\ Len(tmp_buf) <= SectorSize
  BY <1>9, <1>10 DEF used
<1> QED BY <1>4, <1>5, <1>8, <1>9, <1>11, <1>12, <1>13, UpdateSucceeds

(* What is written behind the images of the temp bank leaves them there.   *)
LEMMA HeldFrame ==
  ASSUME TypeInv, Listed, Held, UNCHANGED tempVars,
         \A b \in Addr : TempBase <= b /\ b < TempBase + TempEnd =>
           flash'.cells[b] = flash.cells[b] \/ flash.cells[b] = Blank
  PROVE  Held'
<1>1. TempEntries' = TempEntries /\ temp_image_info' = temp_image_info
  BY DEF TempEntries, tempVars
<1> SUFFICES ASSUME NEW n \in TempEntries,
                    NEW k \in 0 .. Length[temp_image_info[n].id] - 1
             PROVE  /\ TempBase + temp_image_info[n].offset + k \in Addr
                    /\ flash'.cells[TempBase + temp_image_info[n].offset + k]
                         = <<temp_image_info[n].id, k>>
  BY <1>1 DEF Held, HoldsFile
<1> DEFINE i == temp_image_info[n].id
           o == temp_image_info[n].offset
           b == TempBase + o + k
<1>2. /\ i \in TempImages /\ temp_image_info[n].size = Length[i]
      /\ o + temp_image_info[n].size <= TempEnd
  BY DEF Listed
<1>3. HoldsFile(flash, TempBase + o, i) BY DEF Held
<1>4. b \in Addr /\ flash.cells[b] = <<i, k>> BY <1>3 DEF HoldsFile
<1>5. i \in Images /\ Length[i] \in Nat /\ k \in Nat
  <2>1. i \in Images BY <1>2 DEF TempImages
  <2> QED BY <2>1, BankTyped
<1>6. o \in Nat
  <2>1. temp_image_info[n] \in TempInfo
    BY DEF TempEntries, TypeInv, TypeOK, DeviceTypeOK
  <2> QED BY <2>1 DEF TempInfo
<1>7. TempBase <= b /\ b < TempBase + TempEnd
  <2>1. TempBase \in Nat /\ TempEnd \in Nat BY OtaTyped, TempEndTyped
  <2>2. o + Length[i] <= TempEnd /\ k < Length[i] BY <1>2, <1>5
  <2> HIDE DEF TempBase, TempEnd, i, o
  <2> QED BY <1>5, <1>6, <2>1, <2>2
<1>8. flash.cells[b] # Blank
  <2>1. <<i, k>> \in Payload BY <1>5 DEF Payload
  <2> QED BY <1>4, <2>1, TagsAssumption
<1>9. flash'.cells[b] = flash.cells[b] BY <1>4, <1>7, <1>8
<1> QED BY <1>4, <1>9

(* The flash value g has what the images of the temp bank occupy now.      *)
Spares(g) ==
  \A b \in Addr : TempBase <= b /\ b < TempBase + TempEnd =>
    g.cells[b] = flash.cells[b] \/ flash.cells[b] = Blank

LEMMA UpdateSpares ==
  ASSUME OneBank, TypeInv, TransferInv, TableInv, Running, Transfers, image_id \in TempImages,
         NEW d \in Seq(Payload), NEW mayFail,
         NEW u \in dfu_update(flash, image_id, cur_offset, CurrentImageOffset, d, mayFail)
  PROVE  Spares(u.fl)
<1>1. /\ image_id \in Images /\ TempEnd \in Nat /\ BankBase[image_id] = TempBase
      /\ CurrentImageOffset = TempEnd
  BY TempTransfer
<1>2. flash \in Flash /\ cur_offset \in Nat BY DEF TypeInv, TypeOK, DeviceTypeOK
<1>3. \A b \in Addr : b < TempBase + cur_offset + TempEnd => u.fl.cells[b] = flash.cells[b]
  <2>1. u \in dfu_update(flash, image_id, cur_offset, TempEnd, d, mayFail) BY <1>1
  <2>2. TempBase + cur_offset + TempEnd = BankBase[image_id] + cur_offset + TempEnd BY <1>1
  <2> QED BY <1>1, <1>2, <2>1, <2>2, UpdateBelow
<1>4. \A b \in Addr : b < TempBase + TempEnd => b < TempBase + cur_offset + TempEnd
  <2>1. TempBase \in Nat /\ \A b \in Addr : b \in Nat BY OtaTyped, LayoutAssumption DEF Addr
  <2> HIDE DEF TempBase, TempEnd
  <2> QED BY <1>1, <1>2, <2>1
<1> QED BY <1>3, <1>4 DEF Spares

LEMMA UserSpares ==
  ASSUME OneBank, TypeInv, TempEnd <= TempSize, NEW u \in UserImages, NEW g, Within(flash, g, u)
  PROVE  Spares(g)
<1> SUFFICES ASSUME NEW b \in Addr, TempBase <= b, b < TempBase + TempEnd
             PROVE  g.cells[b] = flash.cells[b]
  BY DEF Spares
<1>1. b \in Nat /\ TempBase \in Nat /\ TempSize \in Nat /\ TempEnd \in Nat
  BY OtaTyped, TempEndTyped, LayoutAssumption DEF Addr
<1>2. SectorFirst(b) <= b /\ SectorFirst(b) \in Int BY <1>1, SectorStart, FirstTyped
<1>3. SectorFirst(b) < TempBase + TempSize
  <2> HIDE DEF TempBase, TempEnd, TempSize
  <2> QED BY <1>1, <1>2
<1> QED BY <1>3, UserLeaves

(* An empty temp bank, and what is written or marked without an erase.     *)
LEMMA SparesSame ==
  ASSUME NEW g, g.cells = flash.cells
  PROVE  Spares(g)
BY DEF Spares

LEMMA SparesNothing ==
  ASSUME TempEnd = 0, NEW g
  PROVE  Spares(g)
<1>1. \A b \in Addr : ~(TempBase <= b /\ b < TempBase + 0)
  <2>1. TempBase \in Nat /\ \A b \in Addr : b \in Nat BY OtaTyped, LayoutAssumption DEF Addr
  <2> HIDE DEF TempBase
  <2> QED BY <2>1
<1> QED BY <1>1 DEF Spares

LEMMA WritesSpare ==
  ASSUME OneBank, WritesSound, TypeInv, WindowInv, TransferInv, TableInv, Mode, BlankTail,
         BufferOfImage, WriteOpen, SendPacket \/ SendBufferCrc
  PROVE  Spares(flash')
<1>1. /\ cst = "send" /\ wait = "none" /\ image_id \in Images
      /\ Rewrites(flash, flash', image_id)
  BY WritesMove
<1>2. CASE SendPacket /\ UNCHANGED deviceVars
  BY <1>2, SparesSame DEF deviceVars
<1>3. CASE Running /\ image_id \in UserImages
  <2>1. TempEnd <= TempSize BY <1>1, <1>3, TempTransfer DEF Transfers
  <2> QED BY <1>1, <1>3, <2>1, UserSpares DEF Rewrites
<1>4. CASE SendPacket /\ Running /\ image_id \in TempImages
  <2>1. PICK cell \in {<<img, coff + chunk>>, <<Noise, coff + chunk>>} : \E reboot, mayFail :
          UNCHANGED deviceVars \/ PacketReq(cell, reboot, mayFail)
    BY <1>4, PacketCell
  <2>2. PICK reboot, mayFail : UNCHANGED deviceVars \/ PacketReq(cell, reboot, mayFail) BY <2>1
  <2>3. Append(tmp_buf, cell) \in Seq(Payload)
    <3>1. cell \in Payload /\ tmp_buf \in Seq(Payload)
      BY <1>4, PacketData DEF TypeInv, TypeOK, DeviceTypeOK
    <3> QED BY <3>1
  <2>4. \/ flash' = flash
        \/ \E u \in dfu_update(flash, image_id, cur_offset, CurrentImageOffset,
                               Append(tmp_buf, cell), mayFail) : flash' = u.fl
    BY <2>2 DEF PacketReq, PacketIgnored, PacketBuffered, PacketStreamed, StreamWritten,
                deviceVars
  <2> QED BY <1>1, <1>4, <2>3, <2>4, SparesSame, UpdateSpares DEF Transfers
<1>5. CASE SendBufferCrc /\ image_id \in TempImages
  <2>1. Running /\ link = "up" /\ sendMode = "check"
    BY <1>5 DEF SendBufferCrc, WriteReportBufferCrc, ChunkFull
  <2>2. PICK mayFail \in {FALSE, MayFail} : Checked(chunk, mayFail)
    BY <1>5, <2>1, BufferCheckEnds DEF SendBufferCrc, WriteReportBufferCrc
  <2>3. tmp_buf \in Seq(Payload) BY DEF TypeInv, TypeOK, DeviceTypeOK
  <2>4. CASE UNCHANGED flash BY <2>4, SparesSame
  <2>5. ASSUME NEW u \in dfu_update(flash, image_id, cur_offset, CurrentImageOffset, tmp_buf,
                                    mayFail),
               used = chunk \/ cur_offset + used = image_total_length,
               (u.ok /\ BufferWritten(u.fl)) \/ ~u.ok
        PROVE  Spares(flash')
    <3>1. CASE u.ok /\ BufferWritten(u.fl)
      BY <1>1, <1>5, <2>1, <2>3, <3>1, UpdateSpares DEF BufferWritten, Transfers
    <3>2. CASE ~u.ok
      <4>1. used = chunk
        <5>1. /\ coff = cur_offset /\ used <= chunk /\ coff + chunk <= Length[img]
              /\ image_total_length = Length[img]
          BY <1>1, <2>1 DEF WindowInv, OffsetsAgree, TransferInv, BufferSound, SameImage
        <5>2. used \in Nat /\ chunk \in Nat /\ cur_offset \in Nat
          BY DEF TypeInv, TypeOK, DeviceTypeOK, ClientTypeOK, used
        <5>3. Length[img] \in Nat BY <1>1, BankTyped DEF TransferInv, SameImage
        <5> HIDE DEF used
        <5> QED BY <2>5, <5>1, <5>2, <5>3
      <4>2. CurrentImageOffset = 0 BY <1>5, <3>2, <4>1, FlashWorks DEF FlashWrites
      <4>3. TempEnd = 0 BY <1>1, <1>5, <2>1, <4>2, TempTransfer DEF Transfers
      <4> QED BY <4>3, SparesNothing
    <3> QED BY <2>5, <3>1, <3>2
  <2> QED BY <2>2, <2>4, <2>5 DEF Checked
<1>6. Running \/ (SendPacket /\ UNCHANGED deviceVars)
  BY PacketCell DEF SendBufferCrc, WriteReportBufferCrc
<1> QED BY <1>1, <1>2, <1>3, <1>4, <1>5, <1>6 DEF TempImages

LEMMA UnderWaySpares ==
  ASSUME OneBank, TypeInv, TransferInv, TableInv, BufferOfImage, WriteOpen, Running,
         NEW f \in WriteUnderWay
  PROVE  Spares(f)
<1>1. cst = "send" /\ Rewrites(flash, f, image_id) BY UnderWayMoves
<1> DEFINE data == IF buffer_check_en THEN tmp_buf
                   ELSE Append(tmp_buf, <<image_id, cur_offset + used>>)
<1>2. wait = "none" /\ \E u \in dfu_update(flash, image_id, cur_offset, CurrentImageOffset,
                                           data, TRUE) : f = u.fl
  BY DEF WriteUnderWay, Ready
<1>3. Transfers BY <1>1, <1>2 DEF Transfers
<1>4. image_id \in Images /\ TempEnd <= TempSize BY <1>3, TempTransfer
<1>5. CASE image_id \in UserImages BY <1>1, <1>4, <1>5, UserSpares DEF Rewrites
<1>6. CASE image_id \in TempImages
  <2>1. data \in Seq(Payload)
    <3>1. tmp_buf \in Seq(Payload) /\ cur_offset + used \in Nat
      BY DEF TypeInv, TypeOK, DeviceTypeOK, used
    <3>2. <<image_id, cur_offset + used>> \in Payload BY <1>4, <3>1 DEF Payload
    <3> QED BY <3>1, <3>2
  <2> HIDE DEF data
  <2> QED BY <1>2, <1>3, <1>6, <2>1, UpdateSpares
<1> QED BY <1>4, <1>5, <1>6 DEF TempImages

LEMMA MarkedSpares ==
  ASSUME TypeInv, NEW H \in SUBSET ReadyHeaders, NEW g,
         g.cells = dfu_set_images_ready(flash, H).cells
  PROVE  Spares(g)
<1>1. flash \in Flash /\ H \in SUBSET Addr
  BY HeadersInFlash DEF TypeInv, TypeOK, DeviceTypeOK
<1>2. \A b \in Addr : g.cells[b] = flash.cells[b] \/ flash.cells[b] = Blank
  BY <1>1, MarkedCells
<1> QED BY <1>2 DEF Spares

LEMMA HeadHeld ==
  ASSUME NEW f, NEW a \in Nat, NEW i \in Images, HoldsFile(f, a, i)
  PROVE  f.cells[a] = <<i, 0>>
<1>1. 0 \in 0 .. Length[i] - 1 BY BankTyped
<1>2. a + 0 = a OBVIOUS
<1> QED BY <1>1, <1>2 DEF HoldsFile

(* A check that passes over an image that was sent whole found that image. *)
LEMMA SentHolds ==
  ASSUME OneBank, TypeInv, Sent, Running, CheckPending, image_id \in Images,
         NEW a \in Nat, a = WriteBase, dfu_check_sha256(flash, a)
  PROVE  HoldsFile(flash, a, image_id)
<1>1. flash.cells[a] \in Sound(image_id, 0)
  <2>1. Prefix(flash, a, image_id, Length[image_id]) BY DEF Sent
  <2>2. 0 \in 0 .. Length[image_id] - 1 BY BankTyped
  <2>3. a + 0 = a OBVIOUS
  <2> QED BY <2>1, <2>2, <2>3 DEF Prefix
<1>2. ~HoldsOldFw(flash, a)
  <2> SUFFICES ASSUME NEW i \in Images, a = BankBase[i],
                      \A k \in 0 .. BankSize[i] - 1 : flash.cells[a + k] = OldFw
               PROVE  FALSE
    BY DEF HoldsOldFw
  <2>1. 0 \in 0 .. BankSize[i] - 1
    <3>1. Length[i] <= BankSize[i] BY DEF OneBank, ImagesFit
    <3> QED BY <3>1, BankTyped
  <2>2. a + 0 = a OBVIOUS
  <2>3. flash.cells[a] = OldFw BY <2>1, <2>2
  <2>4. Sound(image_id, 0) \subseteq Payload BY DEF Sound, Payload
  <2> QED BY <1>1, <2>3, <2>4, TagsAssumption
<1>3. PICK i \in Images : HoldsFile(flash, a, i) BY <1>2 DEF dfu_check_sha256
<1>4. flash.cells[a] = <<i, 0>> BY <1>3, HeadHeld
<1>5. i = image_id BY <1>1, <1>4, TagsAssumption DEF Sound
<1> QED BY <1>3, <1>5

(* What the check accepts behind the temp bank's images is the image sent. *)
LEMMA CheckedHolds ==
  ASSUME OneBank, TypeInv, TableInv, Sent, Running, CheckPending, image_id \in TempImages,
         dfu_check_sha256(flash, BankBase[image_id] + TempEnd)
  PROVE  HoldsFile(flash, TempBase + TempEnd, image_id)
<1>1. image_id \in Images /\ image_id \notin UserImages /\ BankBase[image_id] = TempBase
  BY TempPlace
<1>2. CurrentImageOffset = TempEnd
  <2>1. PlacedImage BY DEF TableInv, Placed
  <2> QED BY <1>1, <2>1 DEF PlacedImage, CurrentImageOffset, EntryOf
<1>3. TempBase + TempEnd \in Nat BY OtaTyped, TempEndTyped
<1>4. TempBase + TempEnd = WriteBase BY <1>1, <1>2 DEF WriteBase
<1> QED BY <1>1, <1>3, <1>4, SentHolds

(* The images the temp bank counts stay where they are, whatever is        *)
(* written, marked or erased after them.                                   *)
LEMMA HeldNext ==
  ASSUME OneBank, WritesSound, TypeInv, WindowInv, TransferInv, TableInv, StoreInv, [Next]_vars
  PROVE  Held'
<1> USE DEF StoreInv
<1>1. Listed /\ Held BY DEF TableInv
<1>2. ASSUME UNCHANGED tempVars, Spares(flash') PROVE Held'
  BY <1>1, <1>2, HeldFrame DEF Spares
<1>3. ASSUME UNCHANGED tempVars, flash' = flash PROVE Held'
  BY <1>2, <1>3, SparesSame
<1>4. CASE Connect BY <1>3, <1>4 DEF Connect, LinkUp, serviceVars
<1>5. CASE SendHello \/ SendTargetInfo \/ SendImageInfo \/ SendValidFw
  BY <1>3, <1>5, RequestFrame, RequestQuiet DEF Request
<1>6. CASE SendStart
  <2>1. flash' = flash BY <1>6, RequestFrame
  <2>2. PICK icTypeOk \in BOOLEAN : WriteStartDfu(img, icTypeOk) BY <1>6 DEF SendStart
  <2>3. /\ temp_image_num' = temp_image_num
        /\ temp_image_info' = temp_image_info \/ RecordTempImage(img)
    BY <2>2 DEF WriteStartDfu, StartDfu
  <2>4. \A n \in TempEntries : n # temp_image_num /\ n \in 0 .. MaxTemp
    <3>1. \A n \in 0 .. MaxTemp : n < temp_image_num => n # temp_image_num
      BY BufferAssumption DEF TypeInv, TypeOK, DeviceTypeOK
    <3> QED BY <3>1 DEF TempEntries
  <2>5. \A n \in TempEntries : temp_image_info'[n] = temp_image_info[n]
    BY <2>3, <2>4 DEF RecordTempImage, TypeInv, TypeOK, DeviceTypeOK
  <2>6. TempEntries' = TempEntries BY <2>3 DEF TempEntries
  <2> QED BY <1>1, <2>1, <2>5, <2>6 DEF Held, HoldsFile
<1>7. CASE SendPacket \/ SendBufferCrc
  BY <1>2, <1>7, WritesSpare, WritesMove
<1>8. CASE SendActiveImageReset
  <2>1. flash'.cells = dfu_set_images_ready(flash, ReadyHeaders).cells
    <3> DEFINE f == dfu_set_images_ready(flash, ReadyHeaders)
    <3>1. f \in Flash
      BY HeadersInFlash, ReadyTyped DEF TypeInv, TypeOK, DeviceTypeOK
    <3>2. flash' = IF BankSwitch THEN f ELSE unlock_flash_bp_all(f)
      BY <1>8 DEF SendActiveImageReset, WriteActiveImageReset, ActiveImageReset
    <3> QED BY <3>1, <3>2, BpCells
  <2>2. UNCHANGED tempVars BY <1>8, RequestQuiet DEF Request
  <2> QED BY <1>2, <2>1, <2>2, MarkedSpares
<1>9. CASE SendSystemReset
  <2>1. UNCHANGED tempVars BY <1>9, RequestQuiet DEF Request
  <2>2. Running /\ cst = "abort" /\ SystemReset
    BY <1>9 DEF SendSystemReset, WriteSystemReset, Ready
  <2>3. CASE flash' = flash BY <1>3, <2>1, <2>3
  <2>4. CASE image_id \in Images \ UserImages /\ BankBase[image_id] \in flash.ready
    <3>1. TempBase \in flash.ready BY <2>4, TempPlace DEF TempImages
    <3>2. ~(temp_image_num > 0) BY <2>2, <3>1 DEF BaseOpen
    <3>3. temp_image_num = 0
      BY <3>2, BufferAssumption DEF TypeInv, TypeOK, DeviceTypeOK
    <3>4. TempEnd = 0 BY <3>3 DEF TempEnd
    <3> QED BY <1>2, <2>1, <3>4, SparesNothing
  <2> QED BY <2>2, <2>3, <2>4 DEF SystemReset
<1>10. CASE ReceiveNotification BY <1>3, <1>10, Received
<1>11. CASE LoseLink
  BY <1>3, <1>11 DEF LoseLink, LinkDown, serviceVars
<1>12. ASSUME NEW f \in Flash, DeviceRestart(f), Spares(f) PROVE Held'
  <2>1. CASE RestartNew(f) BY <1>2, <1>12, <2>1 DEF RestartNew, serviceVars
  <2>2. CASE RestartOld(f)
    <3>1. temp_image_num' = 0 BY <2>2 DEF RestartOld, ServiceReset
    <3>2. TempEntries' = {} BY <3>1, BufferAssumption DEF TempEntries
    <3> QED BY <3>2 DEF Held
  <2> QED BY <1>12, <2>1, <2>2 DEF DeviceRestart
<1>13. CASE RestartAfterReset
  BY <1>12, <1>13, SparesSame DEF RestartAfterReset, TypeInv, TypeOK, DeviceTypeOK
<1>14. CASE PowerLoss
  <2>1. PICK f \in {flash} \cup WriteUnderWay \cup ActivationUnderWay : DeviceRestart(f)
    BY <1>14 DEF PowerLoss
  <2>2. Running BY <1>14 DEF PowerLoss
  <2>3. f \in Flash BY UnderWayTyped
  <2>4. Spares(f)
    <3>1. CASE f = flash BY <3>1, SparesSame
    <3>2. CASE f \in WriteUnderWay BY <2>2, <3>2, UnderWaySpares
    <3>3. CASE f \in ActivationUnderWay
      <4>1. \E H \in ReadyPrefixes : f = dfu_set_images_ready(flash, H)
        BY <3>3 DEF ActivationUnderWay
      <4>2. ReadyPrefixes \subseteq SUBSET ReadyHeaders BY DEF ReadyPrefixes
      <4> QED BY <4>1, <4>2, MarkedSpares
    <3> QED BY <2>1, <3>1, <3>2, <3>3
  <2> QED BY <1>12, <2>1, <2>3, <2>4
<1>15. CASE DeviceTask /\ CompleteValidFw
  <2>1. /\ UNCHANGED <<temp_image_info, flash>> /\ Running /\ CheckPending /\ PlacedImage
        /\ \/ temp_image_num' = temp_image_num
           \/ /\ temp_image_num' = temp_image_num + 1 /\ image_id \notin UserImages
              /\ dfu_check_sha256(flash, BankBase[image_id] + TempEnd)
    BY <1>15, CheckEnds DEF OneBank
  <2>2. CASE temp_image_num' = temp_image_num BY <1>3, <2>1, <2>2 DEF tempVars
  <2>3. CASE /\ temp_image_num' = temp_image_num + 1 /\ image_id \notin UserImages
             /\ dfu_check_sha256(flash, BankBase[image_id] + TempEnd)
    <3>1. image_id \in TempImages BY <2>1, <2>3 DEF PlacedImage, TempImages
    <3>2. HoldsFile(flash, TempBase + TempEnd, image_id) BY <2>1, <2>3, <3>1, CheckedHolds
    <3>3. temp_image_info[temp_image_num] = EntryOf(image_id)
      BY <2>1, <2>3 DEF PlacedImage
    <3>4. ASSUME NEW n \in TempEntries' PROVE n \in TempEntries \/ n = temp_image_num
      <4>1. temp_image_num \in Nat /\ n \in 0 .. MaxTemp /\ n < temp_image_num + 1
        BY <2>3, BufferAssumption DEF TempEntries, TypeInv, TypeOK, DeviceTypeOK
      <4>2. n < temp_image_num \/ n = temp_image_num BY <4>1, BufferAssumption
      <4> QED BY <4>1, <4>2 DEF TempEntries
    <3>5. ASSUME NEW n \in TempEntries'
          PROVE  HoldsFile(flash, TempBase + temp_image_info[n].offset, temp_image_info[n].id)
      <4>1. CASE n \in TempEntries BY <1>1, <4>1 DEF Held
      <4>2. CASE n = temp_image_num BY <3>2, <3>3, <4>2 DEF EntryOf
      <4> QED BY <3>4, <4>1, <4>2
    <3> QED BY <2>1, <3>5 DEF Held, HoldsFile
  <2> QED BY <2>1, <2>2, <2>3
<1>16. CASE Task BY <1>3, <1>16, TaskQuiet
<1> QED BY <1>4, <1>5, <1>6, <1>7, <1>8, <1>9, <1>10, <1>11, <1>13, <1>14, <1>15, <1>16
        DEF Next, ClientStep, Task

-----------------------------------------------------------------------------
(* The flash behind the temp bank's images is erased to the end of the     *)
(* sector they end in, all through a transfer with buffer check.           *)

LEMMA BufferCrcBlank ==
  ASSUME OneBank, WritesSound, TypeInv, WindowInv, TransferInv, TableInv, Mode, BufferOfImage,
         WriteOpen, BlankTail, SendBufferCrc
  PROVE  BlankTail'
<1>1. /\ cst = "send" /\ wait = "none" /\ sendMode = "check" /\ Running /\ Running'
      /\ link = "up" /\ UNCHANGED <<cst, sendMode, image_id, tempVars>>
      /\ Rewrites(flash, flash', image_id)
  <2>1. /\ cst = "send" /\ wait = "none" /\ sendMode = "check" /\ Running /\ Running' /\ link = "up"
    BY DEF SendBufferCrc, Ready, ChunkFull, WriteReportBufferCrc, appVars, Running
  <2> QED BY <2>1, WritesMove, WriteFrame
<1>2. Transfers /\ Sending /\ ~Accepted /\ ~Accepted'
  BY <1>1, RequestKinds DEF Request, Transfers, Sending
<1>3. TempEnd' = TempEnd BY <1>1 DEF TempEnd, tempVars
<1>4. /\ TempEnd \in Nat /\ TempEnd <= TempSize /\ TempBase \in Nat /\ TempSize \in Nat
      /\ cur_offset \in Nat /\ tmp_buf \in Seq(Payload) /\ flash \in Flash
      /\ used \in Nat /\ used <= SectorSize /\ image_id \in Images
  <2>1. cur_offset \in Nat /\ tmp_buf \in Seq(Payload) /\ flash \in Flash /\ used <= BufSize
    BY DEF TypeInv, TypeOK, DeviceTypeOK
  <2>2. used \in Nat BY <2>1 DEF used
  <2>3. used <= SectorSize
    <3> HIDE DEF used
    <3> QED BY <2>1, <2>2, BufferAssumption, LayoutAssumption
  <2> QED BY <1>1, <1>2, <2>1, <2>2, <2>3, TempTransfer, OtaTyped
<1> SUFFICES BlankFrom(flash', TempBase + TempEnd + Written') BY <1>3 DEF BlankTail
<1>5. BlankFrom(flash, TempBase + TempEnd + Written) BY <1>1, <1>2 DEF BlankTail
<1>6. CASE image_id \in UserImages
  <2>1. Written = 0 /\ Written' = 0 BY <1>1, <1>6 DEF Written, TempImages
  <2> DEFINE a == TempBase + TempEnd + 0
  <2> SUFFICES ASSUME a % SectorSize # 0, NEW b \in Addr, b \in Sector(a), a <= b
               PROVE  flash'.cells[b] = Blank /\ b \notin flash'.ready
    BY <2>1 DEF BlankFrom
  <2>2. a \in Nat /\ b \in Nat /\ TempBase <= a /\ a <= TempBase + TempSize
    <3>1. b \in Nat BY LayoutAssumption DEF Addr
    <3> HIDE DEF TempBase, TempSize, TempEnd
    <3> QED BY <1>4, <3>1
  <2>3. SectorFirst(b) = SectorFirst(a) /\ SectorFirst(a) < a /\ SectorFirst(a) \in Int
    <3>1. SectorFirst(b) = SectorFirst(a) BY <2>2, SectorOf
    <3>2. SectorFirst(a) <= a /\ a # SectorFirst(a) /\ SectorFirst(a) \in Int
      BY <2>2, SectorStart, FirstTyped
    <3> HIDE DEF a
    <3> QED BY <2>2, <3>1, <3>2
  <2>4. TempBase <= b /\ SectorFirst(b) < TempBase + TempSize
    <3> HIDE DEF a, TempBase, TempSize
    <3> QED BY <1>4, <2>2, <2>3
  <2>5. flash'.cells[b] = flash.cells[b] /\ (b \in flash'.ready => b \in flash.ready)
    BY <1>1, <1>6, <2>4, UserLeaves DEF Rewrites
  <2>6. flash.cells[b] = Blank /\ b \notin flash.ready
    <3>1. BlankFrom(flash, a) BY <1>5, <2>1
    <3> QED BY <3>1 DEF BlankFrom
  <2> QED BY <2>5, <2>6
<1>7. CASE image_id \in TempImages
  <2>1. /\ BankBase[image_id] = TempBase /\ CurrentImageOffset = TempEnd
        /\ Written = cur_offset /\ Written' = cur_offset'
    BY <1>1, <1>2, <1>7, TempTransfer DEF Written
  <2>2. BankBase[image_id] + cur_offset + CurrentImageOffset = TempBase + TempEnd + cur_offset
    <3> HIDE DEF TempBase, TempEnd
    <3> QED BY <1>4, <2>1
  <2>3. PICK mayFail \in {FALSE, MayFail} : Checked(chunk, mayFail)
    BY <1>1, BufferCheckEnds DEF SendBufferCrc, WriteReportBufferCrc
  <2>4. CASE UNCHANGED <<cur_offset, flash>> BY <1>5, <2>1, <2>4
  <2>5. ASSUME NEW u \in dfu_update(flash, image_id, cur_offset, CurrentImageOffset, tmp_buf,
                                    mayFail),
               u.ok, BufferWritten(u.fl)
        PROVE  BlankFrom(flash', TempBase + TempEnd + cur_offset')
    <3>1. flash' = u.fl /\ cur_offset' = cur_offset + Len(tmp_buf)
      BY <2>5 DEF BufferWritten, used
    <3>2. BlankFrom(u.fl, (TempBase + TempEnd + cur_offset) + Len(tmp_buf))
      <4>1. CurrentImageOffset \in Nat /\ Len(tmp_buf) <= SectorSize BY <1>4, <2>1 DEF used
      <4> QED BY <1>4, <1>5, <2>1, <2>2, <2>5, <4>1, UpdateBlank
    <3>3. (TempBase + TempEnd + cur_offset) + Len(tmp_buf) = TempBase + TempEnd + cur_offset'
      <4>1. Len(tmp_buf) \in Nat BY <1>4
      <4> HIDE DEF TempBase, TempEnd
      <4> QED BY <1>4, <3>1, <4>1
    <3> QED BY <3>1, <3>2, <3>3
  <2>6. ASSUME NEW u \in dfu_update(flash, image_id, cur_offset, CurrentImageOffset, tmp_buf,
                                    mayFail),
               used = chunk \/ cur_offset + used = image_total_length,
               ~u.ok, cur_offset' = dfu_resend_offset
        PROVE  BlankFrom(flash', TempBase + TempEnd + cur_offset')
    <3>1. used = chunk
      <4>1. /\ coff = cur_offset /\ used <= chunk /\ coff + chunk <= Length[img]
            /\ image_total_length = Length[img]
        BY <1>1 DEF WindowInv, OffsetsAgree, TransferInv, BufferSound, SameImage
      <4>2. chunk \in Nat BY DEF TypeInv, TypeOK, ClientTypeOK
      <4>3. Length[img] \in Nat BY <1>1, <1>4, BankTyped DEF TransferInv, SameImage
      <4> HIDE DEF used
      <4> QED BY <1>4, <2>6, <4>1, <4>2, <4>3
    <3>2. CurrentImageOffset = 0 BY <2>6, <3>1, FlashWorks DEF FlashWrites
    <3>3. dfu_resend_offset \in Nat /\ dfu_resend_offset % SectorSize = 0
      BY <1>1 DEF WindowInv, ResendWindow, TypeInv, TypeOK, DeviceTypeOK
    <3>4. (TempBase + dfu_resend_offset) % SectorSize = 0
      BY <3>3, OtaTyped, AlignedSum
    <3>5. TempBase + TempEnd + cur_offset' = TempBase + dfu_resend_offset
      <4> HIDE DEF TempBase, TempEnd
      <4> QED BY <1>4, <2>1, <2>6, <3>2, <3>3
    <3> QED BY <3>4, <3>5 DEF BlankFrom
  <2> QED BY <2>1, <2>3, <2>4, <2>5, <2>6 DEF Checked
<1> QED BY <1>4, <1>6, <1>7 DEF TempImages

LEMMA BlankTailNext ==
  ASSUME OneBank, WritesSound, TypeInv, WindowInv, TransferInv, TableInv, StoreInv, [Next]_vars
  PROVE  BlankTail'
<1> USE DEF StoreInv
<1>1. ASSUME UNCHANGED <<flash, sendMode>>, Running' => Running,
             Running' /\ (Sending' \/ Accepted') =>
               (Sending \/ Accepted) /\ TempEnd' = TempEnd /\ Written' = Written
      PROVE  BlankTail'
  BY <1>1 DEF BlankTail
<1>2. ASSUME UNCHANGED tempVars PROVE TempEnd' = TempEnd BY <1>2 DEF TempEnd, tempVars
<1>3. CASE Connect
  <2>1. /\ UNCHANGED <<flash, tempVars>> /\ advertising /\ cst' = "hello"
    BY <1>3 DEF Connect, LinkUp, serviceVars
  <2>2. temp_image_num = 0 BY <2>1 DEF TableInv, FreshTable, Booting
  <2>3. TempEnd' = 0 /\ Written' = 0 BY <1>2, <2>1, <2>2 DEF TempEnd, Written
  <2>4. (TempBase + 0 + 0) % SectorSize = 0 BY OtaTyped
  <2> QED BY <2>3, <2>4 DEF BlankTail, BlankFrom
<1>4. CASE SendHello \/ SendTargetInfo \/ SendStart
  <2> SUFFICES ASSUME Running' PROVE BlankTail' BY DEF BlankTail
  <2>1. /\ flash' = flash /\ cst \in {"hello", "pick", "start", "info"} /\ cst' # "send"
    BY <1>4, RequestFrame DEF SendHello, SendTargetInfo, SendStart, Ready
  <2>2. Running /\ sendMode' = sendMode BY <1>4, RequestKinds DEF Request
  <2>3. Written = 0 /\ Written' = 0 BY <2>1 DEF Written
  <2>4. TempEnd' = TempEnd
    <3>1. CASE SendHello \/ SendTargetInfo BY <1>2, <3>1, RequestQuiet DEF Request
    <3>2. CASE SendStart
      <4>1. PICK icTypeOk \in BOOLEAN : WriteStartDfu(img, icTypeOk) BY <3>2 DEF SendStart
      <4>2. /\ temp_image_num' = temp_image_num
            /\ temp_image_info' = temp_image_info \/ RecordTempImage(img)
        BY <4>1 DEF WriteStartDfu, StartDfu
      <4>3. temp_image_num # 0 => temp_image_num - 1 \in 0 .. MaxTemp
                                  /\ temp_image_num - 1 # temp_image_num
        BY BufferAssumption DEF TypeInv, TypeOK, DeviceTypeOK
      <4> QED BY <4>2, <4>3 DEF RecordTempImage, TempEnd, TypeInv, TypeOK, DeviceTypeOK
    <3> QED BY <1>4, <3>1, <3>2
  <2> QED BY <1>1, <2>1, <2>2, <2>3, <2>4 DEF Sending
<1>5. CASE SendImageInfo
  <2>1. /\ cst = "info" /\ Running /\ UNCHANGED <<flash, sendMode>> /\ cur_offset' = coff
        /\ UNCHANGED tempVars
    BY <1>5 DEF SendImageInfo, Ready, WriteReceiveFwImageInfo, ReceiveFwImageInfo
  <2>2. cur_offset' = 0 BY <2>1 DEF WindowInv, StartsAtZero
  <2>3. Written = 0 /\ Written' = 0 BY <2>1, <2>2 DEF Written
  <2> QED BY <1>1, <1>2, <2>1, <2>3 DEF Sending
<1>6. CASE SendPacket
  <2> SUFFICES ASSUME Running', sendMode = "check" PROVE BlankTail'
    BY <1>6, WriteFrame DEF BlankTail
  <2>1. /\ UNCHANGED <<cst, sendMode, image_id, tempVars, cur_offset, flash>>
        /\ cst = "send" /\ wait = "none"
    BY <1>6, WritesMove, WriteFrame, CheckPacketKeepsPrefix
  <2>2. Running /\ ~Accepted /\ ~Accepted' BY <1>6, RequestKinds DEF Request
  <2>3. Written' = Written BY <2>1, <2>2 DEF Written
  <2> QED BY <1>1, <1>2, <2>1, <2>2, <2>3 DEF Sending, Transfers
<1>7. CASE SendBufferCrc BY <1>7, BufferCrcBlank
<1>8. CASE SendValidFw
  <2>1. /\ cst = "send" /\ wait = "none" /\ Running /\ Running' /\ image_id' = img
        /\ UNCHANGED <<flash, sendMode, cst, cur_offset, tempVars>>
    BY <1>8 DEF SendValidFw, Ready, WriteValidFw, ValidFw, xferVars, Running
  <2>2. image_id' = image_id BY <2>1 DEF TransferInv, SameImage
  <2>3. ~Accepted /\ ~Accepted' BY <1>8, <2>1, RequestKinds DEF Request
  <2>4. Written' = Written BY <2>1, <2>2, <2>3 DEF Written
  <2> QED BY <1>1, <1>2, <2>1, <2>4 DEF Sending, Transfers
<1>9. CASE SendActiveImageReset \/ SendSystemReset
  <2> SUFFICES ASSUME Running' PROVE BlankTail' BY DEF BlankTail
  <2>1. cst' = "end" /\ ~SendValidFw
    BY <1>9 DEF SendActiveImageReset, SendSystemReset, SendValidFw, Ready
  <2>2. ~Accepted' /\ ~CheckPending' BY <1>9, <2>1, RequestKinds DEF Request
  <2> QED BY <2>1, <2>2 DEF BlankTail, Sending, Transfers
<1>10. CASE ReceiveNotification
  <2>1. /\ UNCHANGED <<tempVars, flash, image_id, cur_offset, sendMode, link>> /\ Running
        /\ CheckPending' = CheckPending
    BY <1>10, Received
  <2>2. TempEnd' = TempEnd BY <1>2, <2>1
  <2>3. CASE UNCHANGED <<cst, wait, plan>> /\ Accepted' = Accepted
    <3>1. Written' = Written BY <2>1, <2>3 DEF Written
    <3>2. Sending' => Sending BY <2>1, <2>3 DEF Sending, Transfers
    <3> QED BY <1>1, <2>1, <2>2, <2>3, <3>1, <3>2
  <2>4. CASE /\ ~CheckPending /\ ~Accepted /\ ~Accepted' /\ cst' = "abort"
    BY <2>1, <2>4 DEF BlankTail, Sending, Transfers
  <2>5. CASE /\ ~Accepted /\ ~Accepted' /\ cst \in {"hello", "pick", "start"}
             /\ cst' \in {"pick", "start", "info"}
    <3>1. Written = 0 /\ Written' = 0 BY <2>5 DEF Written
    <3> QED BY <1>1, <2>1, <2>2, <2>5, <3>1 DEF Sending
  <2>6. CASE ~Accepted /\ ~Accepted' /\ wait # "VALID_FW" /\ cst = "send" /\ cst' = "send"
    <3>1. Written' = Written BY <2>1, <2>6 DEF Written
    <3> QED BY <1>1, <2>1, <2>2, <2>6, <3>1 DEF Sending, Transfers
  <2>7. CASE Accepted /\ ~Accepted' /\ cst' \in {"valid", "pick"}
    <3>1. Written = 0 /\ Written' = 0 BY <2>7 DEF Written
    <3> QED BY <1>1, <2>1, <2>2, <2>7, <3>1
  <2>8. CASE ~CheckPending /\ ~Accepted' /\ cst' = "abort"
    BY <2>1, <2>8 DEF BlankTail, Sending, Transfers
  <2> QED BY <1>10, <2>3, <2>4, <2>5, <2>6, <2>7, <2>8, AnswerKinds
<1>11. CASE LoseLink \/ RestartAfterReset \/ PowerLoss
  BY <1>11, LossKinds DEF BlankTail, Sending, Transfers
<1>12. CASE DeviceTask /\ CompleteValidFw
  <2>1. /\ UNCHANGED <<temp_image_info, image_id, flash, cur_offset, link, clientVars>>
        /\ Running /\ CheckPending /\ ~CheckPending' /\ PlacedImage
    BY <1>12, CheckEnds DEF OneBank, DeviceTask
  <2>2. PICK pass \in BOOLEAN :
          /\ temp_image_num' = IF pass /\ image_id \notin UserImages THEN temp_image_num + 1
                                                                 ELSE temp_image_num
          /\ Notify("VALID_FW", IF pass THEN "SUCCESS" ELSE "CRC_ERROR", 0)
    BY <1>12, CheckEnds DEF OneBank
  <2>3. /\ (cst = "send" /\ wait = "VALID_FW" /\ link = "up") \/ (cst = "off" /\ link = "down")
        /\ ~Accepted
    BY <1>12, CheckKinds DEF OneBank
  <2>4. ~Sending' BY <2>1, <2>3 DEF Sending, Transfers, clientVars
  <2>5. Accepted' => pass /\ link = "up"
    <3>1. CASE link # "up"
      <4>1. notif' = notif BY <2>2, <3>1 DEF Notify
      <4> QED BY <2>3, <4>1 DEF Accepted
    <3>2. CASE link = "up"
      <4> DEFINE r == [op |-> "VALID_FW", status |-> IF pass THEN "SUCCESS" ELSE "CRC_ERROR",
                       offset |-> 0]
      <4>1. notif' = Append(notif, r) BY <2>2, <3>2 DEF Notify
      <4>2. r.status = "SUCCESS" => pass OBVIOUS
      <4> HIDE DEF r
      <4>3. \E R : notif \in Seq(R) BY DEF TypeInv, OrderInv, Queues
      <4>4. /\ Len(notif) \in Nat /\ Len(notif') = Len(notif) + 1 /\ notif'[Len(notif) + 1] = r
            /\ \A n \in 1 .. Len(notif) : notif'[n] = notif[n]
        BY <4>1, <4>3, NotifAppend
      <4>5. \A n \in 1 .. Len(notif') : n \in 1 .. Len(notif) \/ n = Len(notif) + 1 BY <4>4
      <4> QED BY <2>3, <3>2, <4>2, <4>4, <4>5 DEF Accepted
    <3> QED BY <3>1, <3>2
  <2> SUFFICES ASSUME Accepted', sendMode' = "check", Running'
               PROVE  BlankFrom(flash', TempBase + TempEnd' + Written')
    BY <2>4 DEF BlankTail
  <2>6. pass /\ link = "up" /\ cst = "send" /\ sendMode = "check" BY <2>1, <2>3, <2>5 DEF clientVars
  <2>7. BlankFrom(flash, TempBase + TempEnd + Written)
    BY <2>1, <2>6 DEF BlankTail, Sending
  <2>8. Written' = 0 BY DEF Written
  <2>9. CASE image_id \in UserImages
    <3>1. Written = 0 /\ TempEnd' = TempEnd
      BY <2>1, <2>2, <2>9 DEF Written, TempImages, TempEnd
    <3> QED BY <2>1, <2>7, <2>8, <3>1
  <2>10. CASE image_id \notin UserImages
    <3>1. image_id \in TempImages /\ image_id \in Images BY <2>1, <2>10 DEF PlacedImage, TempImages
    <3>2. Written = Length[image_id] BY <2>1, <2>3, <2>6, <3>1 DEF Written, Sent
    <3>3. temp_image_num' = temp_image_num + 1 /\ temp_image_info'[temp_image_num] = EntryOf(image_id)
      BY <2>1, <2>2, <2>6, <2>10 DEF PlacedImage
    <3>4. temp_image_num \in Nat BY BufferAssumption DEF TypeInv, TypeOK, DeviceTypeOK
    <3>5. temp_image_num' # 0 /\ temp_image_num' - 1 = temp_image_num BY <3>3, <3>4
    <3>6. TempEnd' = TempEnd + Length[image_id] BY <3>3, <3>5 DEF TempEnd, EntryOf
    <3>7. TempEnd \in Nat /\ TempBase \in Nat /\ Length[image_id] \in Nat
      BY <3>1, TempEndTyped, OtaTyped, BankTyped
    <3>8. TempBase + TempEnd' + Written' = TempBase + TempEnd + Written
      <4> HIDE DEF TempBase
      <4> QED BY <2>8, <3>2, <3>6, <3>7
    <3> QED BY <2>1, <2>7, <3>8
  <2> QED BY <2>9, <2>10
<1>13. CASE Task
  <2>1. /\ UNCHANGED <<flash, image_id, cur_offset, tempVars, clientVars, link>>
        /\ (Running' => Running) /\ (CheckPending' => CheckPending) /\ Accepted' = Accepted
    BY <1>13, TaskQuiet, TaskAccepts
  <2>2. Written' = Written BY <2>1 DEF Written, clientVars
  <2>3. Sending' => Sending BY <2>1 DEF Sending, Transfers, clientVars
  <2> QED BY <1>1, <1>2, <2>1, <2>2, <2>3 DEF clientVars
<1> QED BY <1>3, <1>4, <1>5, <1>6, <1>7, <1>8, <1>9, <1>10, <1>11, <1>12, <1>13
        DEF Next, ClientStep, Task

-----------------------------------------------------------------------------
LEMMA StoreInit == Init => StoreInv
<1> SUFFICES ASSUME Init PROVE StoreInv OBVIOUS
<1>1. /\ temp_image_num = 0 /\ checking = {} /\ valid_bitmap = {}
      /\ ioQueue = <<"STACK_READY">> /\ notif = << >> /\ advertising = FALSE
      /\ buffer_check_en = FALSE /\ cst = "off"
  BY DEF Init, DeviceInit, ServiceInit
<1>2. 1 .. Len(notif) = {} /\ TempEntries = {}
  BY <1>1, BufferAssumption DEF TempEntries
<1>3. ~CheckPending BY <1>1 DEF CheckPending, Queued
<1>4. WriteOpen /\ BufferOfImage /\ Held /\ Sent /\ BaseOpen /\ Mode
  BY <1>1, <1>2, <1>3 DEF WriteOpen, BufferOfImage, Held, Sent, BaseOpen, Mode
<1>5. BlankTail BY <1>1, <1>2, <1>3 DEF BlankTail, Sending, Transfers, Accepted
<1>6. Plain /\ Procedure /\ StreamFlushed
  BY <1>1, <1>2 DEF Plain, Procedure, StreamFlushed, Ready
<1>7. BootFresh
  <2>1. \A n \in 1 .. Len(ioQueue) : n = 1 BY <1>1
  <2> QED BY <1>1, <2>1 DEF BootFresh
<1> QED BY <1>4, <1>5, <1>6, <1>7 DEF StoreInv

LEMMA StoreNext ==
  ASSUME OneBank, LinkLossReset, WritesSound, TypeInv, WindowInv, TransferInv, TableInv,
         StoreInv, [Next]_vars
  PROVE  StoreInv'
<1>1. /\ ~BankSwitch /\ WriteOpen /\ BufferOfImage /\ BootFresh /\ Sent /\ BaseOpen /\ Mode
      /\ Plain /\ Procedure /\ StreamFlushed
  BY DEF StoreInv, OneBank
<1>2. WriteOpen' BY <1>1, WriteOpenNext
<1>3. BufferOfImage' BY <1>1, BufferStep
<1>4. BootFresh' BY <1>1, FreshStep
<1>5. Held' BY HeldNext
<1>6. Sent' BY <1>1, SentNext
<1>7. BlankTail' BY BlankTailNext
<1>8. BaseOpen' BY <1>1, BaseOpenNext
<1>9. Mode' BY <1>1, ModeNext
<1>10. Plain' BY <1>1, PlainNext
<1>11. Procedure' BY <1>1, ProcedureNext
<1>12. StreamFlushed' BY <1>1, StreamFlushedNext
<1> QED BY <1>2, <1>3, <1>4, <1>5, <1>6, <1>7, <1>8, <1>9, <1>10, <1>11, <1>12 DEF StoreInv

TempInvariant == TypeInv /\ WindowInv /\ TransferInv /\ TableInv /\ StoreInv

LEMMA TempInvariantInit == Init => TempInvariant
BY TypeInit, WindowInit, TransferInit, TableInit, StoreInit DEF TempInvariant

LEMMA TempInvariantNext ==
  OneBank /\ PackagesFit /\ LinkLossReset /\ WritesSound /\ TempInvariant /\ [Next]_vars
    => TempInvariant'
<1> SUFFICES ASSUME OneBank, PackagesFit, LinkLossReset, WritesSound, TempInvariant, [Next]_vars
             PROVE  TempInvariant'
  OBVIOUS
<1>1. TypeInv /\ WindowInv /\ TransferInv /\ TableInv /\ StoreInv BY DEF TempInvariant
<1>2. BootFresh /\ Mode /\ BlankTail /\ ~BankSwitch BY <1>1 DEF StoreInv, OneBank
<1>3. RollbackInPlace BY <1>1, <1>2, FlashWorks DEF RollbackInPlace
<1>4. TypeInv' /\ WindowInv' BY <1>1, TypeNext, WindowNext
<1>5. TransferInv' BY <1>1, <1>3, TransferNext
<1>6. TableInv' BY <1>1, <1>2, TableNext
<1>7. StoreInv' BY <1>1, StoreNext
<1> QED BY <1>4, <1>5, <1>6, <1>7 DEF TempInvariant

(* With one bank every image the service counts as validated is still      *)
(* whole at its place in the temp bank: the images that follow it, the     *)
(* user data, a check that fails, a lost link, a power loss and the reset  *)
(* that gives a package up leave it alone.  It takes a package that fits   *)
(* the bank, a flash that works while a client has its buffers checked,    *)
(* and a device that restarts when it loses the link                       *)
(* (RecordTempImage, dfu_service_handle_valid_fw, dfu_update).             *)
THEOREM TempBankTheorem ==
  OneBank /\ PackagesFit /\ LinkLossReset /\ WritesSound => (Spec => []TempBankKept)
<1> SUFFICES ASSUME OneBank, PackagesFit, LinkLossReset, WritesSound
             PROVE  Spec => []TempBankKept
  OBVIOUS
<1>1. Init => TempInvariant BY TempInvariantInit
<1>2. TempInvariant /\ [Next]_vars => TempInvariant' BY TempInvariantNext
<1>3. TempInvariant => TempBankKept
  <2> SUFFICES ASSUME Listed, Held, NEW n \in TempEntries
               PROVE  HoldsFile(flash, TempHeader(n), temp_image_info[n].id)
    BY DEF TempInvariant, TableInv, StoreInv, TempBankKept
  <2>1. TempHeader(n) = TempBase + temp_image_info[n].offset
    BY TempPlace DEF Listed, TempHeader
  <2> QED BY <2>1 DEF Held
<1> QED BY <1>1, <1>2, <1>3, PTL DEF Spec

(* With one bank, too, every cell below the offset the device reports is   *)
(* at its place in the flash, behind the images sent before it: the write  *)
(* after which the service would erase at the wrong place does not fail    *)
(* while the flash works, since what follows the images of the bank is     *)
(* erased to the end of its sector.                                        *)
THEOREM TempPrefixTheorem ==
  OneBank /\ PackagesFit /\ LinkLossReset /\ WritesSound => (Spec => []PrefixIntact)
<1> SUFFICES ASSUME OneBank, PackagesFit, LinkLossReset, WritesSound
             PROVE  Spec => []PrefixIntact
  OBVIOUS
<1>1. Init => TempInvariant BY TempInvariantInit
<1>2. TempInvariant /\ [Next]_vars => TempInvariant' BY TempInvariantNext
<1>3. TempInvariant => PrefixIntact BY PrefixSeen DEF TempInvariant
<1> QED BY <1>1, <1>2, <1>3, PTL DEF Spec

-----------------------------------------------------------------------------
(* What is marked ready: what the device runs, and images of the temp      *)
(* bank from their activation on.                                          *)

(* A mark of the firmware that runs: over a user image, whole where its    *)
(* header says so, or at the start of a temp bank that heads no image.     *)
OldMark(f, a) ==
  \/ \E u \in UserImages :
       /\ a = BankBase[u]
       /\ \A i \in Images : f.cells[a] = <<i, 0>> => i = u /\ HoldsFile(f, a, u)
  \/ a = TempBase /\ \A i \in Images : f.cells[a] # <<i, 0>>
OldMarks(f) == \A a \in f.ready : OldMark(f, a)
SoundMarks(f) ==
  \A a \in f.ready : OldMark(f, a) \/ \E i \in TempImages : HoldsFile(f, a, i)

(* A device that starts or serves a client has no new firmware.            *)
NotActivated ==
  Running /\ (Booting \/ cst \notin {"off", "end"}) => OldMarks(flash)

(* A user image whose bit is set is whole, or will be sent and checked     *)
(* again before the client activates.                                      *)
UserKept ==
  cst \notin {"off", "end"} =>
    \A u \in valid_bitmap \cap UserImages :
      u \in PlanImages(plan) \/ HoldsFile(flash, BankBase[u], u)

UserHeld == img \in UserImages => HoldsFile(flash, BankBase[img], img)
UserAnswer == Running /\ Accepted => UserHeld

MarkInv ==
  SoundMarks(flash) /\ NotActivated /\ UserKept /\ UserAnswer /\ CheckOfImage

LEMMA SameMarks ==
  ASSUME NEW f, NEW g, g.cells = f.cells, g.ready = f.ready
  PROVE  /\ SoundMarks(f) => SoundMarks(g)
         /\ OldMarks(f) => OldMarks(g)
         /\ \A a, i : HoldsFile(f, a, i) => HoldsFile(g, a, i)
         /\ NewFirmware(g) => NewFirmware(f)
<1>1. \A a, i : HoldsFile(f, a, i) <=> HoldsFile(g, a, i) BY DEF HoldsFile
<1>2. \A a : OldMark(f, a) <=> OldMark(g, a) BY <1>1 DEF OldMark
<1> QED BY <1>1, <1>2 DEF SoundMarks, OldMarks, NewFirmware

(* The boot loader sees to it that no device runs on with new firmware.    *)
LEMMA NothingNew ==
  ASSUME ~BankSwitch, NEW f \in Flash, SoundMarks(f), ~NewFirmware(f)
  PROVE  OldMarks(f)
<1> SUFFICES ASSUME NEW a \in f.ready, NEW i \in TempImages, HoldsFile(f, a, i)
             PROVE  FALSE
  BY DEF SoundMarks, OldMarks
<1>1. a \in Nat BY DEF Flash, Addr
<1>2. f.cells[a] = <<i, 0>> BY <1>1, HeadHeld DEF TempImages
<1> QED BY <1>2 DEF NewFirmware, NewHeaders, TempImages

(* A user image and any other image lie apart.                             *)
LEMMA UserApart ==
  ASSUME OneBank, NEW i \in Images, NEW k \in Images, i # k,
         i \in UserImages \/ k \in UserImages, NEW f, NEW g, Within(f, g, k)
  PROVE  /\ g.cells[BankBase[i]] = f.cells[BankBase[i]]
         /\ HoldsFile(f, BankBase[i], i) => HoldsFile(g, BankBase[i], i)
<1>1. Apart(i, k) BY DEF OneBank, Apart
<1>2. Length[i] <= BankSize[i] BY DEF OneBank, ImagesFit
<1> QED BY <1>1, <1>2, ApartBank

(* A write to an image leaves the marks of the others, and its own only if *)
(* it wrote nothing.                                                       *)
LEMMA RewriteKeepsOld ==
  ASSUME OneBank, NEW f, NEW g, NEW k \in Images, Rewrites(f, g, k), OldMarks(f)
  PROVE  OldMarks(g)
<1> SUFFICES ASSUME NEW a \in g.ready PROVE OldMark(g, a) BY DEF OldMarks
<1>1. Within(f, g, k) /\ OldMark(f, a) BY DEF Rewrites, Within, OldMarks
<1>2. CASE a = BankBase[k]
  <2>1. g.cells = f.cells BY <1>2 DEF Rewrites
  <2> QED BY <1>1, <2>1 DEF OldMark, HoldsFile
<1>3. ASSUME a # BankBase[k], NEW u \in UserImages, a = BankBase[u],
             \A i \in Images : f.cells[a] = <<i, 0>> => i = u /\ HoldsFile(f, a, u)
      PROVE  OldMark(g, a)
  <2>1. u \in Images /\ u # k BY <1>3, LayoutAssumption
  <2>2. g.cells[a] = f.cells[a] /\ (HoldsFile(f, a, u) => HoldsFile(g, a, u))
    BY <1>1, <1>3, <2>1, UserApart
  <2> QED BY <1>3, <2>2 DEF OldMark
<1>4. CASE a # BankBase[k] /\ a = TempBase /\ \A i \in Images : f.cells[a] # <<i, 0>>
  <2>1. k \in UserImages /\ k # Ota BY <1>4, OtaTyped DEF OneBank, TempImages
  <2>2. g.cells[TempBase] = f.cells[TempBase]
    BY <1>1, <2>1, OtaTyped, UserApart DEF TempBase
  <2> QED BY <1>4, <2>2 DEF OldMark
<1> QED BY <1>1, <1>2, <1>3, <1>4 DEF OldMark

(* An activation marks images of the temp bank, which are whole, and user  *)
(* images that were checked; a header that reads as ones becomes none.     *)
LEMMA ActivationMarks ==
  ASSUME OneBank, TypeInv, Listed, Held, OldMarks(flash), UserKept, cst = "valid", plan = << >>,
         NEW H \in SUBSET ReadyHeaders, NEW g, g = dfu_set_images_ready(flash, H)
  PROVE  SoundMarks(g)
<1>1. flash \in Flash /\ H \in SUBSET Addr
  BY HeadersInFlash DEF TypeInv, TypeOK, DeviceTypeOK
<1>2. g.ready = flash.ready \cup H BY <1>1, MarkedCells
<1>3. \A a \in Addr : g.cells[a] = flash.cells[a] \/ (flash.cells[a] = Blank /\ g.cells[a] = Junk)
  BY <1>1, MarkedCells
<1>4. \A a \in Addr, i \in Images : g.cells[a] = <<i, 0>> => flash.cells[a] = <<i, 0>>
  BY <1>3, Tags
<1>5. ASSUME NEW a, NEW i \in Images, HoldsFile(flash, a, i) PROVE HoldsFile(g, a, i)
  <2> SUFFICES ASSUME NEW k \in 0 .. Length[i] - 1
               PROVE  a + k \in Addr /\ g.cells[a + k] = <<i, k>>
    BY DEF HoldsFile
  <2>1. a + k \in Addr /\ flash.cells[a + k] = <<i, k>> BY <1>5 DEF HoldsFile
  <2>2. k \in Nat BY BankTyped
  <2>3. <<i, k>> \in Payload BY <2>2 DEF Payload
  <2> QED BY <1>3, <2>1, <2>3, TagsAssumption
<1>6. UserImages \subseteq Images BY LayoutAssumption
<1>7. ASSUME NEW a \in Addr, OldMark(flash, a) PROVE OldMark(g, a)
  BY <1>4, <1>5, <1>6, <1>7 DEF OldMark
<1>8. ASSUME NEW n \in TempEntries
      PROVE  \E i \in TempImages : HoldsFile(g, TempHeader(n), i)
  <2>1. /\ temp_image_info[n].id \in TempImages
        /\ HoldsFile(flash, TempBase + temp_image_info[n].offset, temp_image_info[n].id)
    BY DEF Listed, Held
  <2>2. TempHeader(n) = TempBase + temp_image_info[n].offset BY <2>1, TempPlace DEF TempHeader
  <2> QED BY <1>5, <2>1, <2>2 DEF TempImages
<1>9. ASSUME NEW u \in valid_bitmap \cap UserImages PROVE OldMark(g, BankBase[u])
  <2>1. u \in Images /\ u \in UserImages /\ BankBase[u] \in Addr /\ BankBase[u] \in Nat
    BY <1>6, BankTyped
  <2>2. HoldsFile(flash, BankBase[u], u) BY NoImages DEF UserKept
  <2>3. flash.cells[BankBase[u]] = <<u, 0>> BY <2>1, <2>2, HeadHeld
  <2>4. \A i \in Images : g.cells[BankBase[u]] = <<i, 0>> => i = u BY <1>4, <2>1, <2>3
  <2>5. HoldsFile(g, BankBase[u], u) BY <1>5, <2>1, <2>2
  <2> QED BY <2>1, <2>4, <2>5 DEF OldMark
<1> SUFFICES ASSUME NEW a \in g.ready
             PROVE  OldMark(g, a) \/ \E i \in TempImages : HoldsFile(g, a, i)
  BY DEF SoundMarks
<1>10. CASE a \in flash.ready
  <2>1. a \in Addr BY <1>1, <1>10 DEF Flash
  <2> QED BY <1>7, <1>10, <2>1 DEF OldMarks
<1>11. CASE a \in H
  <2>1. a \in BankHeaders \/ a \in UserHeaders BY <1>11 DEF ReadyHeaders
  <2>2. CASE a \in BankHeaders
    <3>1. \E n \in TempEntries : a = TempHeader(n) BY <2>2 DEF BankHeaders, OneBank
    <3> QED BY <1>8, <3>1
  <2>3. CASE a \in UserHeaders BY <1>9, <2>3 DEF UserHeaders, BankHeader
  <2> QED BY <2>1, <2>2, <2>3
<1> QED BY <1>2, <1>10, <1>11

-----------------------------------------------------------------------------
(* The marks, step by step.                                                *)

(* A user image whose check passes is whole.                               *)
LEMMA UserPasses ==
  ASSUME OneBank, TypeInv, TransferInv, TableInv, Sent, CheckOfImage, CompleteValidFw,
         cst = "send", NEW c \in checking, c.img \in UserImages,
         dfu_check_checksum(flash, c.img, c.off)
  PROVE  /\ link = "up" /\ image_id = img
         /\ c.img = img /\ HoldsFile(flash, BankBase[img], img)
<1>1. Running /\ CheckPending /\ PlacedImage BY CheckEnds DEF OneBank
<1>2. link = "up" BY CheckKinds DEF OneBank
<1>3. image_id = img /\ image_id \in Images BY <1>1 DEF TransferInv, SameImage, PlacedImage
<1>4. image_id \in UserImages
  <2> SUFFICES ASSUME image_id \notin UserImages PROVE FALSE OBVIOUS
  <2>1. c.img = temp_image_info[temp_image_num].id BY DEF TypeInv, CheckInv, OneBank
  <2>2. temp_image_info[temp_image_num] = EntryOf(image_id) BY <1>1 DEF PlacedImage
  <2> QED BY <2>1, <2>2 DEF EntryOf
<1>5. c.img = image_id /\ c.off = 0 BY <1>1, <1>2, <1>4 DEF CheckOfImage
<1> DEFINE a == BankBase[image_id]
<1>6. a \in Nat BY <1>3, BankTyped
<1>7. CurrentImageOffset = 0 BY <1>1, <1>4 DEF PlacedImage, CurrentImageOffset, NoInfo
<1>8. a = WriteBase BY <1>6, <1>7 DEF WriteBase
<1>9. dfu_check_sha256(flash, a)
  <2>1. dfu_check_sha256(flash, a + 0) BY <1>5 DEF dfu_check_checksum, OneBank
  <2> QED BY <1>6, <2>1
<1>10. HoldsFile(flash, a, image_id) BY <1>1, <1>3, <1>6, <1>8, <1>9, SentHolds
<1> QED BY <1>2, <1>3, <1>5, <1>10

LEMMA UserAnswerNext ==
  ASSUME OneBank, TypeInv, TransferInv, TableInv, Sent, CheckOfImage, UserAnswer, [Next]_vars
  PROVE  UserAnswer'
<1> SUFFICES ASSUME Running', Accepted' PROVE UserHeld' BY DEF UserAnswer
<1>1. wait' = "VALID_FW" /\ cst' = "send"
  <2>1. TypeInv' BY TypeNext
  <2>2. Notified("VALID_FW")' BY DEF Accepted, Notified
  <2> QED BY <2>1, <2>2 DEF TypeInv, OrderInv, CheckOrder, PlanInv
<1>2. \E R : notif \in Seq(R) BY DEF TypeInv, OrderInv, Queues
<1>3. CASE SendValidFw
  <2>1. Running /\ wait = "none" /\ notif' = notif
    BY <1>3 DEF SendValidFw, Ready, WriteValidFw, ValidFw
  <2>2. Notified("VALID_FW") BY <2>1 DEF Accepted, Notified
  <2> QED BY <2>1, <2>2 DEF TypeInv, OrderInv, CheckOrder
<1>4. ASSUME UNCHANGED <<flash, plan>>, Running, Accepted PROVE UserHeld'
  BY <1>4 DEF UserAnswer, UserHeld, img
<1>5. CASE CompleteValidFw /\ cst = "send" /\ UNCHANGED <<flash, plan>>
  <2>1. PICK c \in checking :
          LET pass == c.img \in Images /\ dfu_check_checksum(flash, c.img, c.off)
          IN Notify("VALID_FW", IF pass THEN "SUCCESS" ELSE "CRC_ERROR", 0)
    BY <1>5 DEF CompleteValidFw, EndValidFw
  <2> DEFINE pass == c.img \in Images /\ dfu_check_checksum(flash, c.img, c.off)
             r == [op |-> "VALID_FW", status |-> IF pass THEN "SUCCESS" ELSE "CRC_ERROR",
                   offset |-> 0]
  <2>2. ~Accepted BY <1>5, CheckKinds DEF OneBank
  <2>3. notif' = notif \/ notif' = Append(notif, r) BY <2>1 DEF Notify
  <2>4. r.status = "SUCCESS" => pass OBVIOUS
  <2> HIDE DEF r
  <2>5. notif' = Append(notif, r) BY <2>2, <2>3 DEF Accepted
  <2>6. \A n \in 1 .. Len(notif') :
          (n \in 1 .. Len(notif) /\ notif'[n] = notif[n]) \/ notif'[n] = r
    BY <1>2, <2>5, NotifAppend
  <2>7. pass BY <2>2, <2>4, <2>6 DEF Accepted
  <2> SUFFICES ASSUME img \in UserImages PROVE HoldsFile(flash, BankBase[img], img)
    BY <1>5 DEF UserHeld, img
  <2>8. image_id = img BY <1>5 DEF TransferInv, SameImage
  <2>9. c.img = image_id
    <3>1. Running /\ link = "up" BY <1>5, CheckEnds, CheckKinds DEF OneBank
    <3> QED BY <2>8, <3>1 DEF CheckOfImage
  <2> QED BY <1>5, <2>7, <2>8, <2>9, UserPasses
<1>6. CASE AnswersOther
  <2> SUFFICES ASSUME ~Accepted PROVE FALSE BY <1>1, <1>3, <1>4, <1>5, AwaitingStep
  <2>1. PICK r : r.op # "VALID_FW" /\ notif' = Append(notif, r)
    BY <1>6 DEF AnswersOther, Accepted
  <2>2. \A n \in 1 .. Len(notif') :
          (n \in 1 .. Len(notif) /\ notif'[n] = notif[n]) \/ notif'[n] = r
    BY <1>2, <2>1, NotifAppend
  <2> QED BY <2>1, <2>2 DEF Accepted
<1>7. CASE notif # << >> /\ notif' = Tail(notif)
  <2>1. /\ Len(notif) \in Nat /\ Len(notif') = Len(notif) - 1
        /\ \A n \in 1 .. Len(notif) - 1 : notif'[n] = notif[n + 1]
    BY <1>2, <1>7, QueueTail
  <2>2. \A n \in 1 .. Len(notif') : n + 1 \in 1 .. Len(notif) /\ notif'[n] = notif[n + 1]
    BY <2>1
  <2>3. Accepted BY <2>2 DEF Accepted
  <2> QED BY <1>1, <1>3, <1>4, <1>5, <2>3, AwaitingStep
<1> QED BY <1>1, <1>3, <1>5, <1>6, <1>7, AwaitingStep

LEMMA UserKeptNext ==
  ASSUME OneBank, TypeInv, WindowInv, TransferInv, TableInv, StoreInv, CheckOfImage,
         UserKept, UserAnswer, [Next]_vars
  PROVE  UserKept'
<1> USE DEF StoreInv
<1> SUFFICES ASSUME cst' \notin {"off", "end"},
                    NEW u \in valid_bitmap', u \in UserImages
             PROVE  u \in PlanImages(plan') \/ HoldsFile(flash', BankBase[u], u)
  BY DEF UserKept
<1> DEFINE Goal == u \in PlanImages(plan') \/ HoldsFile(flash', BankBase[u], u)
<1>1. ASSUME cst \notin {"off", "end"}, UNCHANGED <<flash, plan>>, u \in valid_bitmap PROVE Goal
  BY <1>1 DEF UserKept
<1>2. CASE Connect
  <2>1. Booting /\ UNCHANGED valid_bitmap
    BY <1>2 DEF Connect, LinkUp, Booting, serviceVars, checkVars
  <2> QED BY <2>1 DEF BootFresh, Booting
<1>3. CASE SendHello \/ SendTargetInfo \/ SendStart \/ SendImageInfo \/ SendValidFw
  BY <1>1, <1>3, RequestFrame
<1>4. CASE SendPacket \/ SendBufferCrc
  <2>1. UNCHANGED <<plan, valid_bitmap>> /\ cst = "send" BY <1>4, WriteFrame
  <2>2. /\ image_id = img /\ image_id \in Images /\ Within(flash, flash', image_id)
    BY <1>4, WritesMove DEF Rewrites
  <2>3. img \in PlanImages(plan) BY <2>1, HeadNamed
  <2>4. CASE u = image_id BY <2>1, <2>2, <2>3, <2>4
  <2>5. CASE u # image_id
    <3>1. u \in Images BY LayoutAssumption
    <3>2. HoldsFile(flash, BankBase[u], u) => HoldsFile(flash', BankBase[u], u)
      BY <2>2, <2>5, <3>1, UserApart
    <3> QED BY <2>1, <3>2 DEF UserKept
  <2> QED BY <2>4, <2>5
<1>5. CASE SendActiveImageReset \/ SendSystemReset
  BY <1>5 DEF SendActiveImageReset, SendSystemReset
<1>6. CASE LoseLink \/ RestartAfterReset \/ PowerLoss
  BY <1>6 DEF LoseLink, RestartAfterReset, PowerLoss, ClientGone
<1>7. CASE DeviceTask /\ CompleteValidFw
  <2>1. UNCHANGED <<flash, plan, cst>>
    BY <1>7, CheckEndFrame DEF DeviceTask, clientVars
  <2>2. CASE u \in valid_bitmap BY <1>1, <2>1, <2>2
  <2>3. CASE u \notin valid_bitmap
    <3>1. PICK c \in checking :
            LET pass == c.img \in Images /\ dfu_check_checksum(flash, c.img, c.off)
            IN valid_bitmap' = IF pass THEN valid_bitmap \cup {c.img} ELSE valid_bitmap
      BY <1>7 DEF CompleteValidFw, EndValidFw
    <3>2. c.img = u /\ dfu_check_checksum(flash, c.img, c.off) BY <2>3, <3>1
    <3>3. cst = "send" BY <1>7, <2>1, CheckKinds DEF OneBank
    <3> QED BY <1>7, <2>1, <3>2, <3>3, UserPasses
  <2> QED BY <2>2, <2>3
<1>8. CASE Task
  <2>1. UNCHANGED <<flash, valid_bitmap, clientVars>> BY <1>8, TaskFrame DEF Task
  <2> QED BY <1>1, <2>1 DEF clientVars
<1>9. CASE ReceiveNotification
  <2>1. /\ UNCHANGED <<flash, valid_bitmap>> /\ Running
        /\ \/ UNCHANGED <<cst, plan>>
           \/ Head(notif).op = wait /\ Answered(Head(notif))
    BY <1>9 DEF ReceiveNotification, serviceVars, checkVars
  <2>2. CASE UNCHANGED <<cst, plan>> BY <1>1, <2>1, <2>2
  <2>3. CASE Head(notif).op = wait /\ Answered(Head(notif))
    <3>1. 1 \in 1 .. Len(notif) /\ Head(notif) = notif[1] BY <1>9, Received
    <3>2. Head(notif) \in Notification
      BY <1>9, AnswerTyped DEF ReceiveNotification, TypeInv, TypeOK
    <3>3. cst \in {"hello", "pick", "start", "send"}
      BY <2>3, <3>2 DEF Notification, TypeInv, PlanInv
    <3>4. CASE UNCHANGED plan BY <1>1, <2>1, <3>3, <3>4
    <3>5. CASE /\ Head(notif).op = "VALID_FW" /\ Head(notif).status = "SUCCESS"
               /\ plan' = Tail(plan)
      <4>1. UserHeld BY <2>1, <3>1, <3>5 DEF UserAnswer, Accepted
      <4>2. \A i \in PlanImages(plan) : i = img \/ i \in PlanImages(plan')
        BY <3>3, <3>5, HeadNamed
      <4>3. u \in PlanImages(plan) \/ HoldsFile(flash', BankBase[u], u)
        BY <2>1, <3>3 DEF UserKept
      <4> QED BY <2>1, <4>1, <4>2, <4>3 DEF UserHeld
    <3> QED BY <2>3, <3>4, <3>5 DEF Answered
  <2> QED BY <2>1, <2>2, <2>3
<1> QED BY <1>2, <1>3, <1>4, <1>5, <1>6, <1>7, <1>8, <1>9 DEF Next, ClientStep, Task

(* A write under way when the supply fails, or an activation.              *)
LEMMA UnderWayMarks ==
  ASSUME OneBank, TypeInv, TableInv, StoreInv, MarkInv, Running,
         NEW f \in {flash} \cup WriteUnderWay \cup ActivationUnderWay
  PROVE  SoundMarks(f)
<1> USE DEF StoreInv, MarkInv
<1>1. CASE f = flash BY <1>1
<1>2. CASE f \in WriteUnderWay
  <2>1. cst = "send" /\ Rewrites(flash, f, image_id) BY <1>2, UnderWayMoves
  <2>2. image_id \in Images BY <2>1 DEF TypeInv, ImageInv
  <2>3. OldMarks(flash) BY <2>1 DEF NotActivated
  <2>4. OldMarks(f) BY <2>1, <2>2, <2>3, RewriteKeepsOld
  <2> QED BY <2>4 DEF OldMarks, SoundMarks
<1>3. CASE f \in ActivationUnderWay
  <2>1. cst = "valid" /\ plan = << >> /\ \E H \in ReadyPrefixes : f = dfu_set_images_ready(flash, H)
    BY <1>3 DEF ActivationUnderWay
  <2>2. ReadyPrefixes \subseteq SUBSET ReadyHeaders BY DEF ReadyPrefixes
  <2>3. OldMarks(flash) /\ Listed /\ Held BY <2>1 DEF NotActivated, TableInv
  <2> QED BY <2>1, <2>2, <2>3, ActivationMarks
<1> QED BY <1>1, <1>2, <1>3

(* What is marked: a step writes while the client is served, activates at  *)
(* the end of it, or restarts the device.                                  *)
LEMMA MarksNext ==
  ASSUME OneBank, TypeInv, WindowInv, TransferInv, TableInv, StoreInv, MarkInv, [Next]_vars
  PROVE  /\ SoundMarks(flash')
         /\ cst' \notin {"off", "end"} /\ Running' => OldMarks(flash')
<1> USE DEF StoreInv, MarkInv
<1> DEFINE Goal == /\ SoundMarks(flash')
                   /\ cst' \notin {"off", "end"} /\ Running' => OldMarks(flash')
<1>1. ASSUME flash' = flash, Running' => Running, cst' \notin {"off", "end"} => cst \notin {"off", "end"}
      PROVE  Goal
  BY <1>1 DEF NotActivated
<1>2. ASSUME NEW k \in Images, Rewrites(flash, flash', k), Running, cst \notin {"off", "end"}
      PROVE  Goal
  <2>1. OldMarks(flash') BY <1>2, RewriteKeepsOld DEF NotActivated
  <2> QED BY <2>1 DEF OldMarks, SoundMarks
<1>3. CASE Connect
  <2>1. Running /\ Booting /\ flash' = flash BY <1>3 DEF Connect, LinkUp, Booting
  <2> QED BY <2>1 DEF NotActivated
<1>4. CASE SendHello \/ SendTargetInfo \/ SendStart \/ SendImageInfo \/ SendValidFw
  <2>1. flash' = flash /\ cst \notin {"off", "end"} BY <1>4, RequestFrame
  <2>2. Running' => Running BY <1>4, RequestKinds DEF Request
  <2> QED BY <1>1, <2>1, <2>2
<1>5. CASE SendPacket \/ SendBufferCrc
  <2>1. /\ Rewrites(flash, flash', image_id) /\ cst = "send" /\ image_id \in Images
    BY <1>5, WritesMove
  <2>2. CASE flash' = flash BY <1>1, <1>5, <2>1, <2>2, WriteFrame
  <2>3. CASE flash' # flash
    <3>1. Running
      BY <1>5, <2>3 DEF SendPacket, WritePacket, deviceVars, SendBufferCrc, WriteReportBufferCrc
    <3> QED BY <1>2, <2>1, <3>1
  <2> QED BY <2>2, <2>3
<1>6. CASE SendActiveImageReset
  <2>1. Running /\ cst = "valid" /\ plan = << >> /\ cst' = "end" /\ ActiveImageReset
    BY <1>6 DEF SendActiveImageReset, WriteActiveImageReset, Ready
  <2> DEFINE f == dfu_set_images_ready(flash, ReadyHeaders)
  <2>2. SoundMarks(f)
    <3>1. OldMarks(flash) /\ Listed /\ Held BY <2>1 DEF NotActivated, TableInv
    <3>2. ReadyHeaders \in SUBSET ReadyHeaders OBVIOUS
    <3> QED BY <2>1, <3>1, <3>2, ActivationMarks
  <2>3. f \in Flash BY HeadersInFlash, ReadyTyped DEF TypeInv, TypeOK, DeviceTypeOK
  <2> HIDE DEF f
  <2>4. flash' = IF BankSwitch THEN f ELSE unlock_flash_bp_all(f)
    BY <2>1 DEF ActiveImageReset, f
  <2>5. SoundMarks(flash') BY <2>2, <2>3, <2>4, BpCells, SameMarks
  <2> QED BY <2>1, <2>5
<1>7. CASE SendSystemReset
  <2>1. Running /\ cst = "abort" /\ cst' = "end"
    BY <1>7 DEF SendSystemReset, WriteSystemReset, Ready
  <2>2. flash' = flash \/ (image_id \in Images /\ Rewrites(flash, flash', image_id))
    BY <1>7, SystemResetMoves DEF OneBank
  <2> QED BY <1>1, <1>2, <2>1, <2>2
<1>8. CASE ReceiveNotification
  <2>1. flash' = flash /\ Running BY <1>8, Received
  <2>2. cst' \notin {"off", "end"} => cst \notin {"off", "end"} BY <1>8, AnswerKinds
  <2> QED BY <1>1, <2>1, <2>2
<1>9. CASE LoseLink
  <2>1. flash' = flash /\ cst' = "off" BY <1>9 DEF LoseLink, LinkDown, ClientGone
  <2> QED BY <2>1
<1>10. ASSUME NEW f \in Flash, DeviceRestart(f), SoundMarks(f) PROVE SoundMarks(flash')
  <2>1. flash' = f \/ flash' = BootFlash(f)
    BY <1>10 DEF DeviceRestart, RestartNew, RestartOld
  <2> QED BY <1>10, <2>1, BootCells, SameMarks
<1>11. CASE RestartAfterReset
  <2>1. flash \in Flash /\ DeviceRestart(flash) /\ cst' = "off"
    BY <1>11 DEF RestartAfterReset, ClientGone, TypeInv, TypeOK, DeviceTypeOK
  <2> QED BY <1>10, <2>1
<1>12. CASE PowerLoss
  <2>1. PICK f \in {flash} \cup WriteUnderWay \cup ActivationUnderWay : DeviceRestart(f)
    BY <1>12 DEF PowerLoss
  <2>2. f \in Flash BY UnderWayTyped
  <2>3. Running /\ cst' = "off" BY <1>12 DEF PowerLoss, ClientGone
  <2>4. SoundMarks(f) BY <2>3, UnderWayMarks
  <2> QED BY <1>10, <2>1, <2>2, <2>3, <2>4
<1>13. CASE DeviceTask /\ CompleteValidFw
  <2>1. flash' = flash /\ Running /\ cst' = cst
    BY <1>13, CheckEnds DEF OneBank, DeviceTask, clientVars
  <2> QED BY <1>1, <2>1
<1>14. CASE Task
  <2>1. flash' = flash /\ (Running' => Running) /\ cst' = cst
    BY <1>14, TaskQuiet DEF clientVars
  <2> QED BY <1>1, <2>1
<1> QED BY <1>3, <1>4, <1>5, <1>6, <1>7, <1>8, <1>9, <1>11, <1>12, <1>13, <1>14
        DEF Next, ClientStep, Task

LEMMA MarkNext ==
  ASSUME OneBank, LinkLossReset, TypeInv, WindowInv, TransferInv, TableInv, StoreInv, MarkInv,
         [Next]_vars
  PROVE  MarkInv'
<1>1. SoundMarks(flash') /\ (cst' \notin {"off", "end"} /\ Running' => OldMarks(flash'))
  BY MarksNext
<1>2. Running' /\ Booting' => OldMarks(flash')
  <2> SUFFICES ASSUME Running', Booting' PROVE OldMarks(flash') OBVIOUS
  <2>1. CASE Booting /\ (Running' => Running /\ flash' = flash)
    BY <2>1 DEF MarkInv, NotActivated
  <2>2. ASSUME NEW f \in Flash, flash' = BootFlash(f), ~NewFirmware(f) PROVE OldMarks(flash')
    <3>1. flash'.cells = f.cells /\ flash'.ready = f.ready BY <2>2, BootCells
    <3>2. SoundMarks(f) BY <1>1, <3>1, SameMarks
    <3>3. OldMarks(f) BY <2>2, <3>2, NothingNew DEF OneBank
    <3> QED BY <3>1, <3>3, SameMarks
  <2> QED BY <2>1, <2>2, BootingStill DEF StoreInv
<1>3. NotActivated' BY <1>1, <1>2 DEF NotActivated
<1>4. UserKept' BY UserKeptNext DEF MarkInv
<1>5. UserAnswer' BY UserAnswerNext DEF MarkInv, StoreInv
<1>6. CheckOfImage' BY CheckOfImageStep DEF MarkInv
<1> QED BY <1>1, <1>3, <1>4, <1>5, <1>6 DEF MarkInv

(* The firmware a device starts with is marked, and heads no file.         *)
LEMMA MarkInit == ASSUME Init, OneBank PROVE MarkInv
<1>1. /\ checking = {} /\ valid_bitmap = {} /\ notif = << >> /\ cst = "off"
  BY DEF Init, DeviceInit, ServiceInit
<1>2. PICK f \in {BlankFlash, OldFlash} : flash = BootFlash(f)
  BY DEF Init, DeviceInit
<1>3. BlankFlash \in Flash /\ OldFlash \in Flash
  BY LayoutAssumption DEF BlankFlash, OldFlash, Flash, Content, BpLevel
<1>4. OldMarks(f)
  <2>1. CASE f = BlankFlash BY <2>1 DEF BlankFlash, OldMarks
  <2>2. CASE f = OldFlash
    <3> SUFFICES ASSUME NEW i \in Images PROVE OldMark(f, BankBase[i])
      BY <2>2 DEF OldFlash, OldMarks
    <3>1. f.cells[BankBase[i]] = OldFw BY <2>2, BankTyped DEF OldFlash
    <3>2. \A j \in Images : f.cells[BankBase[i]] # <<j, 0>> BY <3>1, Tags
    <3>3. i \in UserImages \/ BankBase[i] = TempBase BY DEF OneBank, TempImages
    <3> QED BY <3>2, <3>3 DEF OldMark
  <2> QED BY <2>1, <2>2
<1>5. OldMarks(flash) BY <1>2, <1>3, <1>4, BootCells, SameMarks
<1>6. SoundMarks(flash) /\ NotActivated BY <1>5 DEF OldMarks, SoundMarks, NotActivated
<1>7. UserKept /\ UserAnswer /\ CheckOfImage
  BY <1>1 DEF UserKept, UserAnswer, CheckOfImage, Accepted
<1> QED BY <1>6, <1>7 DEF MarkInv

-----------------------------------------------------------------------------
(* Without a second bank, too, a received header that is marked ready      *)
(* heads a complete, sound image, through failed checks, lost links,       *)
(* restarts and power losses: the images of the temp bank are marked only  *)
(* by an activation, as temp_image_info lists them, whose restart leaves   *)
(* the old firmware, and a user image that is rewritten in place is sent   *)
(* and checked again before the client activates.  It takes a package that *)
(* fits the bank, a flash that works while a client has its buffers        *)
(* checked, and a device that restarts when it loses the link              *)
(* (dfu_service_handle_active_image, dfu_set_image_ready).                 *)
THEOREM TempReadyTheorem ==
  OneBank /\ PackagesFit /\ LinkLossReset /\ WritesSound => (Spec => []ReadyImagesComplete)
<1> SUFFICES ASSUME OneBank, PackagesFit, LinkLossReset, WritesSound
             PROVE  Spec => []ReadyImagesComplete
  OBVIOUS
<1>1. Init => TempInvariant /\ MarkInv BY TempInvariantInit, MarkInit
<1>2. TempInvariant /\ MarkInv /\ [Next]_vars => TempInvariant' /\ MarkInv'
  BY TempInvariantNext, MarkNext DEF TempInvariant
<1>3. TempInvariant /\ MarkInv => ReadyImagesComplete
  <2> SUFFICES ASSUME TypeInv, SoundMarks(flash), NEW a \in flash.ready, NEW i \in Images,
                      flash.cells[a] = <<i, 0>>
               PROVE  HoldsFile(flash, a, i)
    BY DEF TempInvariant, MarkInv, ReadyImagesComplete
  <2>1. a \in Nat BY LayoutAssumption DEF TypeInv, TypeOK, DeviceTypeOK, Flash, Addr
  <2>2. CASE OldMark(flash, a) BY <2>2 DEF OldMark
  <2>3. ASSUME NEW j \in TempImages, HoldsFile(flash, a, j) PROVE HoldsFile(flash, a, i)
    <3>1. j \in Images BY DEF TempImages
    <3>2. flash.cells[a] = <<j, 0>> BY <2>1, <2>3, <3>1, HeadHeld
    <3>3. j = i BY <3>2
    <3> QED BY <2>3, <3>3
  <2> QED BY <2>2, <2>3 DEF SoundMarks
<1> QED BY <1>1, <1>2, <1>3, PTL DEF Spec
=============================================================================
