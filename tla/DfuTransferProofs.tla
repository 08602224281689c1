-------------------------- MODULE DfuTransferProofs --------------------------
(***************************************************************************)
(* Proofs about a transfer.  First, the integrity check of VALID_FW is     *)
(* never disturbed and the queue never fills, from the order of the        *)
(* messages in the io queue and of the answers to the client.  Second,     *)
(* every variable keeps its type: the receive buffer never overflows,      *)
(* temp_image_info is never indexed past its end, and what an activation   *)
(* marks ready lies in the flash.  Third, client and device agree on where *)
(* a transfer stands, the resend point stays at the start of the sector    *)
(* under way, and with two banks everything below the offset of the device *)
(* is in the flash.                                                        *)
(***************************************************************************)
EXTENDS DfuSystem, TLAPS

-----------------------------------------------------------------------------
(* The order of messages and answers.                                      *)

(* What the order needs to know of the types: the queues are sequences.    *)
Queues ==
  /\ ioQueue \in Seq(AppMessage)
  /\ \E R : notif \in Seq(R)

OrderInv == Queues /\ LinkOrder /\ CheckOrder

(* A step that sends at most one answer, and not that of VALID_FW.         *)
AnswersOther ==
  notif' = notif \/ \E r : r.op # "VALID_FW" /\ notif' = Append(notif, r)

LEMMA NotifAppend ==
  ASSUME NEW s, NEW r, \E R : s \in Seq(R)
  PROVE  /\ \E R : Append(s, r) \in Seq(R)
         /\ Len(s) \in Nat
         /\ Len(Append(s, r)) = Len(s) + 1
         /\ \A n \in 1 .. Len(s) : Append(s, r)[n] = s[n]
         /\ Append(s, r)[Len(s) + 1] = r
<1>1. PICK R : s \in Seq(R) OBVIOUS
<1> DEFINE Q == R \cup {r}
<1>2. s \in Seq(Q) /\ r \in Q BY <1>1
<1>3. Append(s, r) \in Seq(Q) BY <1>2
<1> QED BY <1>2, <1>3

LEMMA QueueTail ==
  ASSUME NEW s, \E R : s \in Seq(R), s # << >>
  PROVE  /\ \E R : Tail(s) \in Seq(R)
         /\ Len(s) \in Nat /\ Len(s) > 0
         /\ Head(s) = s[1]
         /\ Len(Tail(s)) = Len(s) - 1
         /\ \A n \in 1 .. Len(s) - 1 : Tail(s)[n] = s[n + 1]
<1>1. PICK R : s \in Seq(R) OBVIOUS
<1> QED BY <1>1

(* An answer other than that of VALID_FW, or none, and whatever the client *)
(* waits for then: the order holds when no check was pending.              *)
LEMMA OtherStep ==
  ASSUME OrderInv,
         UNCHANGED <<ioQueue, checking>>, advertising' => advertising,
         link' = link \/ (link' # "down" /\ link # "down"),
         AnswersOther,
         ~CheckPending \/ ~Running' \/ UNCHANGED <<link, cst, wait>>,
         ~Notified("VALID_FW") \/ ~Running' \/ UNCHANGED wait,
         reset' = reset \/ reset' # "none"
  PROVE  OrderInv'
<1> USE DEF Queued, CheckPending, Notified, Running, AnswersOther
<1>1. Queues'
  <2>1. \E R : notif \in Seq(R) BY DEF OrderInv, Queues
  <2>2. ASSUME NEW r, notif' = Append(notif, r)
        PROVE  \E R : notif' \in Seq(R)
    BY <2>1, <2>2, NotifAppend
  <2>3. \E R : notif' \in Seq(R) BY <2>1, <2>2 DEF AnswersOther
  <2> QED BY <2>3 DEF OrderInv, Queues
<1>2. LinkOrder'
  BY DEF OrderInv, LinkOrder
<1>3. \A n \in 1 .. Len(notif') :
        notif'[n].op = "VALID_FW" => n \in 1 .. Len(notif) /\ notif[n].op = "VALID_FW"
  <2>1. ASSUME NEW r, r.op # "VALID_FW", notif' = Append(notif, r),
               NEW n \in 1 .. Len(notif'), notif'[n].op = "VALID_FW"
        PROVE  n \in 1 .. Len(notif) /\ notif[n].op = "VALID_FW"
    BY <2>1, NotifAppend DEF OrderInv, Queues
  <2> QED BY <2>1
<1>4. CheckOrder'
  BY <1>3 DEF OrderInv, CheckOrder
<1> QED BY <1>1, <1>2, <1>4 DEF OrderInv

(* The client's requests wait for no answer, so no check is pending.       *)
LEMMA RequestStep ==
  ASSUME OrderInv, Running, link = "up", wait = "none",
         UNCHANGED <<ioQueue, checking, advertising>>,
         link' \in {"up", "closing"}, AnswersOther,
         reset' = reset \/ reset' # "none"
  PROVE  OrderInv'
<1>1. ~CheckPending /\ ~Notified("VALID_FW") BY DEF OrderInv, CheckOrder
<1> QED BY <1>1, OtherStep

LEMMA NotifyOther ==
  ASSUME NEW op, NEW status, NEW offset, op # "VALID_FW", Notify(op, status, offset)
  PROVE  AnswersOther
<1> DEFINE r == [op |-> op, status |-> status, offset |-> offset]
<1>1. r.op # "VALID_FW" OBVIOUS
<1> QED BY <1>1 DEF Notify, AnswersOther

LEMMA BufferCheckFrame ==
  ASSUME NEW size, NEW crcOk, NEW mayFail, BufferCheckProcess(size, crcOk, mayFail)
  PROVE  checking' = checking /\ AnswersOther
<1>1. checking' = checking BY DEF BufferCheckProcess, checkVars
<1>2. ASSUME NEW status, FlushBuffer(status) PROVE AnswersOther
  BY <1>2, NotifyOther DEF FlushBuffer
<1>3. ASSUME NEW fl, BufferWritten(fl) PROVE AnswersOther
  BY <1>3, NotifyOther DEF BufferWritten
<1>4. ASSUME NEW fl, NEW erased, BufferRolledBack(fl, erased) PROVE AnswersOther
  BY <1>4, NotifyOther DEF BufferRolledBack
<1>5. AnswersOther BY <1>2, <1>3, <1>4, Zenon DEF BufferCheckProcess
<1> QED BY <1>1, <1>5

LEMMA StartFrame ==
  ASSUME NEW i, NEW icTypeOk, StartDfu(i, icTypeOk)
  PROVE  checking' = checking /\ AnswersOther
<1>1. checking' = checking BY DEF StartDfu, checkVars
<1>2. AnswersOther BY NotifyOther DEF StartDfu
<1> QED BY <1>1, <1>2

(* Everything the client does but VALID_FW and taking an answer.           *)
LEMMA RequestsKeepOrder ==
  ASSUME OrderInv,
         \/ SendHello \/ SendTargetInfo \/ SendStart \/ SendImageInfo \/ SendPacket
         \/ SendBufferCrc \/ SendActiveImageReset \/ SendSystemReset
  PROVE  OrderInv'
<1> USE DEF Ready
<1>1. CASE SendHello
  <2>1. CASE sendMode = "check" /\ WriteBufferCheckEn
    <3>1. AnswersOther BY <2>1, NotifyOther DEF WriteBufferCheckEn, BufferCheckEn
    <3> QED BY <1>1, <2>1, <3>1, RequestStep
        DEF SendHello, WriteBufferCheckEn, BufferCheckEn, checkVars, appVars
  <2>2. CASE UNCHANGED <<deviceVars, wait>> /\ cst = "hello"
    <3>1. ~CheckPending \/ link = "down" \/ ~Running BY <2>2 DEF OrderInv, CheckOrder
    <3>2. OrderInv /\ UNCHANGED <<ioQueue, checking, advertising, link, notif, reset, wait>>
      BY <2>2 DEF deviceVars, serviceVars, checkVars, appVars
    <3> QED BY <3>1, <3>2 DEF OrderInv, Queues, LinkOrder, CheckOrder, Queued, Notified, CheckPending, Running
  <2> QED BY <1>1, <2>1, <2>2 DEF SendHello
<1>2. CASE SendTargetInfo
  <2>1. AnswersOther BY <1>2, NotifyOther DEF SendTargetInfo, WriteReportTargetInfo, ReportTargetInfo
  <2> QED BY <1>2, <2>1, RequestStep
      DEF SendTargetInfo, WriteReportTargetInfo, ReportTargetInfo, checkVars, appVars
<1>3. CASE SendStart
  <2>1. PICK icTypeOk \in BOOLEAN : WriteStartDfu(img, icTypeOk) BY <1>3 DEF SendStart
  <2>2. checking' = checking /\ AnswersOther BY <2>1, StartFrame DEF WriteStartDfu
  <2> QED BY <1>3, <2>1, <2>2, RequestStep DEF SendStart, WriteStartDfu, stackVars
<1>4. CASE SendImageInfo
  BY <1>4, RequestStep
     DEF SendImageInfo, WriteReceiveFwImageInfo, ReceiveFwImageInfo, checkVars, appVars, AnswersOther
<1>5. CASE SendPacket
  <2>1. ASSUME NEW cell, NEW mayFail, WritePacket(cell, mayFail) PROVE OrderInv'
    BY <1>5, <2>1, RequestStep
       DEF SendPacket, WritePacket, PacketReq, checkVars, stackVars, AnswersOther, dfu_fw_reboot
  <2>2. CASE UNCHANGED deviceVars
    BY <1>5, <2>2, OtherStep DEF SendPacket, deviceVars, serviceVars, checkVars, appVars, AnswersOther
  <2> QED BY <1>5, <2>1, <2>2 DEF SendPacket
<1>6. CASE SendBufferCrc
  <2>1. PICK crcOk, mayFail : WriteReportBufferCrc(chunk, crcOk, mayFail) BY <1>6 DEF SendBufferCrc
  <2>2. checking' = checking /\ AnswersOther BY <2>1, BufferCheckFrame DEF WriteReportBufferCrc
  <2> QED BY <1>6, <2>1, <2>2, RequestStep DEF SendBufferCrc, WriteReportBufferCrc, appVars
<1>7. CASE SendActiveImageReset
  BY <1>7, RequestStep
     DEF SendActiveImageReset, WriteActiveImageReset, ActiveImageReset, serviceVars, checkVars, AnswersOther
<1>8. CASE SendSystemReset
  BY <1>8, RequestStep
     DEF SendSystemReset, WriteSystemReset, SystemReset, serviceVars, checkVars, stackVars, AnswersOther, dfu_fw_reboot
<1> QED BY <1>1, <1>2, <1>3, <1>4, <1>5, <1>6, <1>7, <1>8

(* A message joins the queue.                                              *)
LEMMA QueueAppend ==
  ASSUME Queues, NEW m \in AppMessage, Post(m)
  PROVE  /\ ioQueue' \in Seq(AppMessage) /\ Len(ioQueue) \in Nat
         /\ Len(ioQueue') = Len(ioQueue) + 1
         /\ \A n \in 1 .. Len(ioQueue) : ioQueue'[n] = ioQueue[n]
         /\ ioQueue'[Len(ioQueue) + 1] = m
<1>1. ioQueue \in Seq(AppMessage) BY DEF Queues
<1> QED BY <1>1 DEF Post

LEMMA ValidFwKeepsOrder ==
  ASSUME OrderInv, SendValidFw
  PROVE  OrderInv'
<1> USE DEF Queued, CheckPending, Notified, Running
<1>1. /\ Running /\ link = "up" /\ wait = "none" /\ cst = "send"
      /\ Post("VALID_FW") \/ UNCHANGED ioQueue
      /\ UNCHANGED <<link, checking, notif, advertising, reset, cst>> /\ wait' = "VALID_FW"
  BY DEF SendValidFw, WriteValidFw, ValidFw, Ready, checkVars, stackVars
<1>2. ~CheckPending /\ ~Notified("VALID_FW") BY <1>1 DEF OrderInv, CheckOrder
<1>3. "VALID_FW" \in AppMessage BY DEF AppMessage
<1>4. CASE Post("VALID_FW")
  <2>1. Queues' BY <1>1, <1>3, <1>4, QueueAppend DEF OrderInv, Queues
  <2>2. LinkOrder' BY <1>1, <1>2, <1>3, <1>4, QueueAppend DEF OrderInv, LinkOrder
  <2>3. CheckOrder' BY <1>1, <1>2, <1>3, <1>4, QueueAppend DEF OrderInv, CheckOrder
  <2> QED BY <2>1, <2>2, <2>3 DEF OrderInv
<1>5. CASE UNCHANGED ioQueue BY <1>1, <1>2, <1>5, OtherStep DEF AnswersOther
<1> QED BY <1>1, <1>4, <1>5

LEMMA NotificationKeepsOrder ==
  ASSUME OrderInv, ReceiveNotification
  PROVE  OrderInv'
<1> USE DEF Queued, CheckPending, Notified, Running
<1>1. /\ Running /\ notif # << >> /\ link = "up" /\ notif' = Tail(notif)
      /\ UNCHANGED <<ioQueue, checking, advertising, link, reset>>
  BY DEF ReceiveNotification, serviceVars, checkVars, appVars
<1>2. Queues'
  <2>1. \E R : notif \in Seq(R) BY DEF OrderInv, Queues
  <2>2. \E R : Tail(notif) \in Seq(R) BY <1>1, <2>1, QueueTail
  <2> QED BY <1>1, <2>2 DEF OrderInv, Queues
<1>3. LinkOrder' BY <1>1 DEF OrderInv, LinkOrder
<1>4. /\ Len(notif) \in Nat /\ Len(notif) > 0 /\ Head(notif) = notif[1]
      /\ Len(notif') = Len(notif) - 1
      /\ \A n \in 1 .. Len(notif) - 1 : notif'[n] = notif[n + 1]
  BY <1>1, QueueTail DEF OrderInv, Queues
<1>5. CASE notif[1].op = wait /\ wait = "VALID_FW"
  <2>1. ~CheckPending BY <1>1, <1>4, <1>5 DEF OrderInv, CheckOrder
  <2>2. ~Notified("VALID_FW")' BY <1>4, <1>5 DEF OrderInv, CheckOrder
  <2>3. CheckOrder' BY <1>1, <2>1, <2>2 DEF OrderInv, CheckOrder
  <2> QED BY <1>2, <1>3, <2>3 DEF OrderInv
<1>6. CASE notif[1].op = wait /\ wait # "VALID_FW"
  <2>1. ~CheckPending /\ ~Notified("VALID_FW") BY <1>1, <1>6 DEF OrderInv, CheckOrder
  <2>2. ~Notified("VALID_FW")' BY <1>4, <2>1
  <2>3. CheckOrder' BY <1>1, <2>1, <2>2 DEF OrderInv, CheckOrder
  <2> QED BY <1>2, <1>3, <2>3 DEF OrderInv
<1>7. CASE notif[1].op # wait
  <2>1. UNCHANGED <<cst, wait>> BY <1>4, <1>7 DEF ReceiveNotification
  <2>2. Notified("VALID_FW")' => Notified("VALID_FW") BY <1>4
  <2>3. CheckOrder' BY <1>1, <1>4, <2>1, <2>2 DEF OrderInv, CheckOrder
  <2> QED BY <1>2, <1>3, <2>3 DEF OrderInv
<1> QED BY <1>5, <1>6, <1>7

LEMMA ParamReqKeepsOrder ==
  ASSUME OrderInv, SendConnParaUpdateReq
  PROVE  OrderInv'
<1>1. AnswersOther
  BY NotifyOther DEF SendConnParaUpdateReq, WriteConnParaUpdateReq, AnswersOther
<1> QED BY <1>1, OtherStep
    DEF SendConnParaUpdateReq, WriteConnParaUpdateReq, serviceVars, checkVars, clientVars

(* The application's task.                                                 *)
LEMMA Taken ==
  ASSUME OrderInv, NEW m, Take(m)
  PROVE  /\ Running /\ checking = {} /\ ioQueue' \in Seq(AppMessage)
         /\ Len(ioQueue) \in Nat /\ Len(ioQueue) > 0 /\ ioQueue[1] = m
         /\ Len(ioQueue') = Len(ioQueue) - 1
         /\ \A n \in 1 .. Len(ioQueue) - 1 : ioQueue'[n] = ioQueue[n + 1]
<1>1. ioQueue \in Seq(AppMessage) BY DEF OrderInv, Queues
<1>2. /\ Running /\ checking = {} /\ ioQueue # << >> /\ Head(ioQueue) = m /\ ioQueue' = Tail(ioQueue)
  BY DEF Take
<1> QED BY <1>1, <1>2

(* A message that is not VALID_FW leaves the queue; only DISCONNECTED and  *)
(* STACK_READY may start the advertiser.                                   *)
LEMMA TakenKeepsOrder ==
  ASSUME OrderInv, NEW m, Take(m), m # "VALID_FW",
         UNCHANGED <<checking, link, cst, wait>>, AnswersOther,
         advertising' = advertising \/ m \in {"DISCONNECTED", "STACK_READY"},
         reset' = reset \/ reset' # "none"
  PROVE  OrderInv'
<1> USE DEF Queued, CheckPending, Notified, Running
<1>1. Queues'
  <2>1. \E R : notif \in Seq(R) BY DEF OrderInv, Queues
  <2>2. ASSUME NEW r, notif' = Append(notif, r) PROVE \E R : notif' \in Seq(R)
    BY <2>1, <2>2, NotifAppend
  <2>3. \E R : notif' \in Seq(R) BY <2>1, <2>2 DEF AnswersOther
  <2> QED BY <2>3, Taken DEF Queues
<1>2. LinkOrder'
  <2>1. \A n, k \in 1 .. Len(ioQueue') : n < k =>
          /\ n + 1 \in 1 .. Len(ioQueue) /\ k + 1 \in 1 .. Len(ioQueue) /\ n + 1 < k + 1
          /\ ioQueue'[n] = ioQueue[n + 1] /\ ioQueue'[k] = ioQueue[k + 1]
    BY Taken
  <2>2. \A n \in 1 .. Len(ioQueue') : n + 1 \in 1 .. Len(ioQueue) /\ ioQueue'[n] = ioQueue[n + 1]
    BY Taken
  <2>3. ASSUME m \in {"DISCONNECTED", "STACK_READY"}
        PROVE  /\ link = "down"
               /\ \A n \in 1 .. Len(ioQueue') :
                    ioQueue'[n] \notin {"VALID_FW", "DISCONNECTED", "STACK_READY"}
    <3>1. 1 \in 1 .. Len(ioQueue) /\ ioQueue[1] = m BY Taken
    <3>2. link = "down" BY <2>3, <3>1 DEF OrderInv, LinkOrder
    <3>3. ASSUME NEW n \in 1 .. Len(ioQueue')
          PROVE  ioQueue'[n] \notin {"VALID_FW", "DISCONNECTED", "STACK_READY"}
      <4>1. n + 1 \in 1 .. Len(ioQueue) /\ ioQueue'[n] = ioQueue[n + 1]
        BY <2>2
      <4>2. 1 < n + 1 OBVIOUS
      <4> QED BY <2>3, <3>1, <4>1, <4>2 DEF OrderInv, LinkOrder
    <3> QED BY <3>2, <3>3
  <2> DEFINE V == Queued({"VALID_FW"})
             D == Queued({"DISCONNECTED", "STACK_READY"})
  <2>4. (V' => V) /\ (D' => D) BY <2>2
  <2>5. checking = {} /\ checking' = {} BY Taken
  <2>6. m \in {"DISCONNECTED", "STACK_READY"} => link = "down" /\ ~V' /\ ~D' BY <2>3
  <2>8. /\ advertising => link = "down" /\ ~V /\ ~D
        /\ link # "down" => ~D
    BY DEF OrderInv, LinkOrder
  <2> HIDE DEF V, D
  <2>9. /\ advertising' => link' = "down" /\ ~V' /\ ~D'
        /\ link' # "down" => ~D'
    BY <2>4, <2>6, <2>8
  <2> USE DEF V, D
  <2>7. \A n, k \in 1 .. Len(ioQueue') :
         n < k /\ ioQueue'[n] \in {"DISCONNECTED", "STACK_READY"}
           => ioQueue'[k] \notin {"VALID_FW", "DISCONNECTED", "STACK_READY"}
    BY <2>1 DEF OrderInv, LinkOrder
  <2> QED BY <2>5, <2>7, <2>9 DEF LinkOrder
<1>3. \A n \in 1 .. Len(notif') :
        notif'[n].op = "VALID_FW" => n \in 1 .. Len(notif) /\ notif[n].op = "VALID_FW"
  <2>1. ASSUME NEW r, r.op # "VALID_FW", notif' = Append(notif, r),
               NEW n \in 1 .. Len(notif'), notif'[n].op = "VALID_FW"
        PROVE  n \in 1 .. Len(notif) /\ notif[n].op = "VALID_FW"
    BY <2>1, NotifAppend DEF OrderInv, Queues
  <2> QED BY <2>1 DEF AnswersOther
<1>4. \A n \in 1 .. Len(ioQueue') : n + 1 \in 1 .. Len(ioQueue) /\ ioQueue'[n] = ioQueue[n + 1]
  BY Taken
<1>5. Queued({"VALID_FW"})' => Queued({"VALID_FW"}) BY <1>4
<1>6. Running /\ checking = {} /\ checking' = {} BY Taken
<1>7. \A n, k \in 1 .. Len(ioQueue') :
        ioQueue'[n] = "VALID_FW" /\ ioQueue'[k] = "VALID_FW" => n = k
  <2>1. ASSUME NEW n \in 1 .. Len(ioQueue'), NEW k \in 1 .. Len(ioQueue'),
               ioQueue'[n] = "VALID_FW", ioQueue'[k] = "VALID_FW"
        PROVE  n = k
    <3>1. n + 1 = k + 1 BY <1>4, <2>1 DEF OrderInv, CheckOrder
    <3> QED BY <2>1, <3>1, Taken
  <2> QED BY <2>1
<1>8. CheckOrder' BY <1>3, <1>5, <1>6, <1>7 DEF OrderInv, CheckOrder
<1> QED BY <1>1, <1>2, <1>8 DEF OrderInv

LEMMA HandleValidFwKeepsOrder ==
  ASSUME OrderInv, HandleValidFw, UNCHANGED <<cst, wait>>
  PROVE  OrderInv'
<1> USE DEF Queued, CheckPending, Notified, Running
<1>1. Take("VALID_FW") BY DEF HandleValidFw
<1>2. checking' # {} /\ UNCHANGED <<link, advertising, notif, reset>>
  BY DEF HandleValidFw, BeginValidFw, stackVars
<1>3. \A n \in 1 .. Len(ioQueue') : n + 1 \in 1 .. Len(ioQueue) /\ ioQueue'[n] = ioQueue[n + 1]
  BY <1>1, Taken
<1>4. 1 \in 1 .. Len(ioQueue) /\ ioQueue[1] = "VALID_FW" /\ CheckPending
  BY <1>1, Taken
<1>5. ~Queued({"VALID_FW"})'
  <2>1. ASSUME NEW n \in 1 .. Len(ioQueue'), ioQueue'[n] = "VALID_FW" PROVE FALSE
    <3>1. n + 1 = 1 BY <1>3, <1>4, <2>1 DEF OrderInv, CheckOrder
    <3> QED BY <3>1
  <2> QED BY <2>1
<1>6. Queues' BY <1>1, <1>2, Taken DEF OrderInv, Queues
<1>7. ~advertising BY <1>4 DEF OrderInv, LinkOrder
<1>8. Queued({"DISCONNECTED", "STACK_READY"})' => Queued({"DISCONNECTED", "STACK_READY"})
  BY <1>3
<1>9. \A n, k \in 1 .. Len(ioQueue') :
       n < k /\ ioQueue'[n] \in {"DISCONNECTED", "STACK_READY"}
         => ioQueue'[k] \notin {"VALID_FW", "DISCONNECTED", "STACK_READY"}
  <2>1. ASSUME NEW n \in 1 .. Len(ioQueue'), NEW k \in 1 .. Len(ioQueue'), n < k
        PROVE  n + 1 < k + 1
    BY <2>1
  <2> QED BY <1>3, <2>1 DEF OrderInv, LinkOrder
<1>10. LinkOrder' BY <1>2, <1>7, <1>8, <1>9 DEF OrderInv, LinkOrder
<1>11. CheckOrder' BY <1>2, <1>4, <1>5 DEF OrderInv, CheckOrder
<1> QED BY <1>6, <1>10, <1>11 DEF OrderInv

(* The end of a check sends the one answer of VALID_FW.                    *)
LEMMA CompleteValidFwKeepsOrder ==
  ASSUME OrderInv, CompleteValidFw, UNCHANGED <<cst, wait>>
  PROVE  OrderInv'
<1> USE DEF Queued, CheckPending, Notified, Running
<1>1. /\ Running /\ checking # {} /\ checking' = {}
      /\ UNCHANGED <<ioQueue, link, advertising, reset>>
  BY DEF CompleteValidFw, EndValidFw, appVars
<1>2. \/ notif' = notif
      \/ link = "up" /\ \E r : r.op = "VALID_FW" /\ notif' = Append(notif, r)
  <2>1. ASSUME NEW status, Notify("VALID_FW", status, 0)
        PROVE  \/ notif' = notif
               \/ link = "up" /\ \E r : r.op = "VALID_FW" /\ notif' = Append(notif, r)
    <3> DEFINE r == [op |-> "VALID_FW", status |-> status, offset |-> 0]
    <3>1. r.op = "VALID_FW" OBVIOUS
    <3> QED BY <2>1, <3>1 DEF Notify
  <2> QED BY <2>1 DEF CompleteValidFw, EndValidFw
<1>3. CheckPending /\ ~Queued({"VALID_FW"}) /\ ~Notified("VALID_FW")
  BY <1>1 DEF OrderInv, CheckOrder
<1>4. CASE notif' = notif
  <2>1. LinkOrder' BY <1>1, <1>3 DEF OrderInv, LinkOrder
  <2>2. CheckOrder' BY <1>1, <1>3, <1>4 DEF OrderInv, CheckOrder
  <2> QED BY <1>1, <1>4, <2>1, <2>2 DEF OrderInv, Queues
<1>5. ASSUME NEW r, r.op = "VALID_FW", notif' = Append(notif, r), link = "up"
      PROVE  OrderInv'
  <2>1. /\ \E R : notif' \in Seq(R)
        /\ Len(notif) \in Nat /\ Len(notif') = Len(notif) + 1
        /\ \A n \in 1 .. Len(notif) : notif'[n] = notif[n]
    <3>1. \E R : notif \in Seq(R) BY DEF OrderInv, Queues
    <3>2. /\ \E R : Append(notif, r) \in Seq(R)
          /\ Len(notif) \in Nat /\ Len(Append(notif, r)) = Len(notif) + 1
          /\ \A n \in 1 .. Len(notif) : Append(notif, r)[n] = notif[n]
      BY <3>1, NotifAppend
    <3> QED BY <1>5, <3>2
  <2>2. \A n \in 1 .. Len(notif') : notif'[n].op = "VALID_FW" => n = Len(notif) + 1
    BY <1>3, <2>1
  <2>3. LinkOrder' BY <1>1, <1>3 DEF OrderInv, LinkOrder
  <2>4. wait = "VALID_FW" BY <1>1, <1>3, <1>5 DEF OrderInv, CheckOrder
  <2>5. CheckOrder' BY <1>1, <1>3, <2>2, <2>4 DEF OrderInv, CheckOrder
  <2> QED BY <1>1, <2>1, <2>3, <2>5 DEF OrderInv, Queues
<1> QED BY <1>2, <1>4, <1>5

LEMMA TaskKeepsOrder ==
  ASSUME OrderInv, DeviceTask
  PROVE  OrderInv'
<1> USE DEF serviceVars, checkVars, stackVars
<1>1. UNCHANGED <<cst, wait>> BY DEF DeviceTask, clientVars
<1>2. CASE HandleStackReady
  BY <1>1, <1>2, TakenKeepsOrder DEF HandleStackReady, AnswersOther
<1>3. CASE HandleConnected
  BY <1>1, <1>3, TakenKeepsOrder DEF HandleConnected, AnswersOther
<1>4. CASE HandleDisconnected
  BY <1>1, <1>4, TakenKeepsOrder DEF HandleDisconnected, dfu_fw_reboot, pendVars, AnswersOther
<1>5. ASSUME NEW status, HandleParamUpdate(status) PROVE OrderInv'
  <2>1. AnswersOther BY <1>5, NotifyOther DEF HandleParamUpdate, AnswersOther
  <2>2. PICK m : Take(m) /\ m # "VALID_FW" BY <1>5 DEF HandleParamUpdate
  <2> QED BY <1>1, <1>5, <2>1, <2>2, TakenKeepsOrder DEF HandleParamUpdate
<1>6. CASE HandleValidFw BY <1>1, <1>6, HandleValidFwKeepsOrder
<1>7. CASE CompleteValidFw BY <1>1, <1>7, CompleteValidFwKeepsOrder
<1> QED BY <1>2, <1>3, <1>4, <1>5, <1>6, <1>7 DEF DeviceTask, AppTask

(* The link: a device advertises only when no check is pending, and a link *)
(* that goes down leaves a check without a client to answer.               *)
LEMMA ConnectKeepsOrder ==
  ASSUME OrderInv, Connect
  PROVE  OrderInv'
<1> USE DEF Queued, CheckPending, Notified, Running
<1>1. /\ Running /\ advertising /\ link = "down" /\ link' = "up" /\ ~advertising'
      /\ Post("CONNECTED") /\ UNCHANGED <<checking, notif, reset, wait>>
  BY DEF Connect, LinkUp, serviceVars, checkVars
<1>2. ~CheckPending /\ ~Queued({"DISCONNECTED", "STACK_READY"})
  BY <1>1 DEF OrderInv, LinkOrder
<1>3. "CONNECTED" \in AppMessage BY DEF AppMessage
<1>4. Queues' BY <1>1, <1>3, QueueAppend DEF OrderInv, Queues
<1>5. \A n \in 1 .. Len(ioQueue') :
        ioQueue'[n] \notin {"VALID_FW", "DISCONNECTED", "STACK_READY"}
  BY <1>1, <1>2, <1>3, QueueAppend DEF OrderInv
<1>6. LinkOrder' BY <1>1, <1>5 DEF LinkOrder
<1>7. CheckOrder' BY <1>1, <1>2, <1>5 DEF OrderInv, CheckOrder
<1> QED BY <1>4, <1>6, <1>7 DEF OrderInv

LEMMA LoseLinkKeepsOrder ==
  ASSUME OrderInv, LoseLink
  PROVE  OrderInv'
<1> USE DEF Queued, CheckPending, Notified, Running
<1>1. /\ Running /\ link # "down" /\ link' = "down" /\ notif' = << >>
      /\ Post("DISCONNECTED") /\ UNCHANGED <<checking, advertising, reset>>
  BY DEF LoseLink, LinkDown, serviceVars, checkVars
<1>2. "DISCONNECTED" \in AppMessage BY DEF AppMessage
<1>3. /\ ioQueue' \in Seq(AppMessage) /\ Len(ioQueue) \in Nat
      /\ Len(ioQueue') = Len(ioQueue) + 1
      /\ \A n \in 1 .. Len(ioQueue) : ioQueue'[n] = ioQueue[n]
      /\ ioQueue'[Len(ioQueue) + 1] = "DISCONNECTED"
  BY <1>1, <1>2, QueueAppend DEF OrderInv
<1>4. Queues'
  <2>1. << >> \in Seq({}) OBVIOUS
  <2> QED BY <1>1, <1>3, <2>1 DEF Queues
<1>5. ~advertising BY <1>1 DEF OrderInv, LinkOrder
<1>6. \A n \in 1 .. Len(ioQueue) : ioQueue[n] \notin {"DISCONNECTED", "STACK_READY"}
  BY <1>1 DEF OrderInv, LinkOrder
<1>7. LinkOrder' BY <1>1, <1>3, <1>5, <1>6 DEF LinkOrder
<1>8. \A n \in 1 .. Len(ioQueue') :
        ioQueue'[n] = "VALID_FW" => n \in 1 .. Len(ioQueue) /\ ioQueue[n] = "VALID_FW"
  BY <1>3
<1>9. CheckOrder' BY <1>1, <1>8 DEF OrderInv, CheckOrder
<1> QED BY <1>4, <1>7, <1>9 DEF OrderInv

LEMMA ParamUpdateKeepsOrder ==
  ASSUME OrderInv, ParamProcedure
  PROVE  OrderInv'
<1> USE DEF Queued, CheckPending, Notified, Running
<1>1. PICK msg \in {"PARAM_SUCCESS", "PARAM_FAIL"} : Post(msg)
  BY DEF ParamProcedure, ParamUpdated
<1>2. UNCHANGED <<link, checking, notif, advertising, reset, cst, wait>>
  BY DEF ParamProcedure, ParamUpdated, serviceVars, checkVars, clientVars
<1>3. msg \in AppMessage BY DEF AppMessage
<1>4. /\ ioQueue' \in Seq(AppMessage) /\ Len(ioQueue) \in Nat
      /\ Len(ioQueue') = Len(ioQueue) + 1
      /\ \A n \in 1 .. Len(ioQueue) : ioQueue'[n] = ioQueue[n]
      /\ ioQueue'[Len(ioQueue) + 1] = msg
  BY <1>1, <1>3, QueueAppend DEF OrderInv
<1>5. \A n \in 1 .. Len(ioQueue') : \A m \in {"VALID_FW", "DISCONNECTED", "STACK_READY"} :
        ioQueue'[n] = m => n \in 1 .. Len(ioQueue) /\ ioQueue[n] = m
  BY <1>4
<1>6. Queues' BY <1>2, <1>4 DEF OrderInv, Queues
<1>7. LinkOrder' BY <1>2, <1>5 DEF OrderInv, LinkOrder
<1>8. CheckOrder' BY <1>2, <1>5 DEF OrderInv, CheckOrder
<1> QED BY <1>6, <1>7, <1>8 DEF OrderInv

(* A restart into the old firmware begins with nothing under way; into the *)
(* new one, this model stops.                                              *)
LEMMA FreshStart ==
  ASSUME ioQueue' = <<"STACK_READY">>, notif' = << >>, checking' = {},
         ~advertising', link' = "down"
  PROVE  OrderInv'
<1> USE DEF Queued, CheckPending, Notified, Running
<1>1. "STACK_READY" \in AppMessage BY DEF AppMessage
<1>2. << >> \in Seq({}) OBVIOUS
<1>3. Queues' BY <1>1, <1>2 DEF Queues
<1>4. LinkOrder' BY DEF LinkOrder
<1>5. CheckOrder' BY DEF CheckOrder
<1> QED BY <1>3, <1>4, <1>5 DEF OrderInv

LEMMA RestartKeepsOrder ==
  ASSUME OrderInv, NEW f, DeviceRestart(f), ClientGone
  PROVE  OrderInv'
<1>1. CASE RestartOld(f)
  <2>1. /\ ioQueue' = <<"STACK_READY">> /\ notif' = << >> /\ checking' = {}
        /\ ~advertising' /\ link' = "down"
    BY <1>1 DEF RestartOld, ServiceReset
  <2> QED BY <2>1, FreshStart
<1>2. CASE RestartNew(f)
  <2>1. /\ UNCHANGED <<ioQueue, notif, checking, advertising, link>>
        /\ reset' = "DFU_ACTIVE_RESET"
    BY <1>2 DEF RestartNew, serviceVars, checkVars, stackVars
  <2> QED BY <2>1, OtherStep DEF AnswersOther, Running
<1> QED BY <1>1, <1>2 DEF DeviceRestart

(* A timer stands still, or its handler restarts the device.               *)
LEMMA TimerMoves ==
  ASSUME TimerStep
  PROVE  /\ Running /\ (reset' = reset \/ reset' = "DFU_FAIL_RESET")
         /\ UNCHANGED <<serviceVars, flash, notif, stackVars, ioQueue, pendVars,
                        conn_para_update_in_progress, clientVars, counterVars>>
<1>1. ASSUME NEW t, TimerExpires(t), UNCHANGED <<clientVars, counterVars>>
      PROVE  /\ Running /\ reset' = "DFU_FAIL_RESET"
             /\ UNCHANGED <<serviceVars, flash, notif, stackVars, ioQueue, pendVars,
                            conn_para_update_in_progress, clientVars, counterVars>>
  BY <1>1 DEF TimerExpires, dfu_fw_reboot
<1>2. ASSUME NEW t, PeriodOver(t)
      PROVE  /\ Running /\ reset' = reset
             /\ UNCHANGED <<serviceVars, flash, notif, stackVars, ioQueue, pendVars,
                            conn_para_update_in_progress, clientVars, counterVars>>
  BY <1>2 DEF PeriodOver, PeriodEnds
<1> QED BY <1>1, <1>2 DEF TimerStep, Timeout

LEMMA TimerKeepsOrder ==
  ASSUME OrderInv, TimerStep
  PROVE  OrderInv'
<1>1. /\ reset' = reset \/ reset' # "none"
      /\ UNCHANGED <<ioQueue, checking, advertising, link, notif, cst, wait>>
  BY TimerMoves DEF serviceVars, checkVars, stackVars, clientVars
<1> QED BY <1>1, OtherStep DEF AnswersOther

LEMMA OrderInit == Init => OrderInv
<1> SUFFICES ASSUME Init PROVE OrderInv OBVIOUS
<1> USE DEF Queued, CheckPending, Notified, Running
<1>1. /\ ioQueue = <<"STACK_READY">> /\ notif = << >> /\ checking = {}
      /\ ~advertising /\ link = "down"
  BY DEF Init, DeviceInit, ServiceInit
<1>2. "STACK_READY" \in AppMessage BY DEF AppMessage
<1>3. << >> \in Seq({}) OBVIOUS
<1>4. Queues BY <1>1, <1>2, <1>3 DEF Queues
<1>5. LinkOrder BY <1>1 DEF LinkOrder
<1>6. CheckOrder BY <1>1 DEF CheckOrder
<1> QED BY <1>4, <1>5, <1>6 DEF OrderInv

LEMMA OrderNext == OrderInv /\ [Next]_vars => OrderInv'
<1> SUFFICES ASSUME OrderInv, [Next]_vars PROVE OrderInv' OBVIOUS
<1>1. CASE Connect BY <1>1, ConnectKeepsOrder
<1>2. CASE ClientStep
  BY <1>2, RequestsKeepOrder, ValidFwKeepsOrder, NotificationKeepsOrder DEF ClientStep
<1>3. CASE SendConnParaUpdateReq BY <1>3, ParamReqKeepsOrder
<1>4. CASE LoseLink BY <1>4, LoseLinkKeepsOrder
<1>5. CASE DeviceTask BY <1>5, TaskKeepsOrder
<1>6. CASE TimerStep BY <1>6, TimerKeepsOrder
<1>7. CASE ParamProcedure BY <1>7, ParamUpdateKeepsOrder
<1>8. CASE RestartAfterReset BY <1>8, RestartKeepsOrder DEF RestartAfterReset
<1>9. CASE PowerLoss BY <1>9, RestartKeepsOrder DEF PowerLoss
<1>10. CASE UNCHANGED vars
  BY <1>10, OtherStep
     DEF vars, deviceVars, serviceVars, checkVars, appVars, clientVars, AnswersOther
<1> QED BY <1>1, <1>2, <1>3, <1>4, <1>5, <1>6, <1>7, <1>8, <1>9, <1>10 DEF Next

(* Messages and answers stay in order in every behaviour of the system.    *)
THEOREM OrderTheorem == Spec => []OrderInv
<1>1. Init => OrderInv BY OrderInit
<1>2. OrderInv /\ [Next]_vars => OrderInv' BY OrderNext
<1> QED BY <1>1, <1>2, PTL DEF Spec

(* There is one check at most, and while the link is up the client that    *)
(* asked for it waits for its answer; advertising starts only behind a     *)
(* finished check and a handled DISCONNECTED.                              *)
THEOREM LinkAndCheckOrder == Spec => [](LinkOrder /\ CheckOrder)
<1>1. OrderInv => LinkOrder /\ CheckOrder BY DEF OrderInv
<1> QED BY <1>1, OrderTheorem, PTL

(* A client without a link has nothing to send.                            *)
ClientOff == link = "down" => cst = "off"

LEMMA ClientOffStep ==
  ASSUME ClientOff, [Next]_vars
  PROVE  ClientOff'
<1> USE DEF ClientOff
<1>1. CASE Connect BY <1>1 DEF Connect, LinkUp
<1>2. CASE ClientStep
  <2>1. CASE SendHello
    BY <2>1 DEF SendHello, Ready, WriteBufferCheckEn, deviceVars, appVars
  <2>2. CASE SendTargetInfo BY <2>2 DEF SendTargetInfo, WriteReportTargetInfo
  <2>3. CASE SendStart BY <2>3 DEF SendStart, WriteStartDfu, stackVars
  <2>4. CASE SendImageInfo BY <2>4 DEF SendImageInfo, WriteReceiveFwImageInfo
  <2>5. CASE SendPacket BY <2>5 DEF SendPacket, WritePacket, stackVars, deviceVars
  <2>6. CASE SendBufferCrc BY <2>6 DEF SendBufferCrc, WriteReportBufferCrc
  <2>7. CASE SendValidFw BY <2>7 DEF SendValidFw, WriteValidFw, stackVars
  <2>8. CASE SendActiveImageReset
    BY <2>8 DEF SendActiveImageReset, WriteActiveImageReset
  <2>9. CASE SendSystemReset BY <2>9 DEF SendSystemReset, WriteSystemReset, stackVars
  <2>10. CASE ReceiveNotification BY <2>10 DEF ReceiveNotification
  <2> QED BY <1>2, <2>1, <2>2, <2>3, <2>4, <2>5, <2>6, <2>7, <2>8, <2>9, <2>10
          DEF ClientStep
<1>3. CASE SendConnParaUpdateReq
  BY <1>3 DEF SendConnParaUpdateReq, WriteConnParaUpdateReq
<1>4. CASE LoseLink BY <1>4 DEF LoseLink, ClientGone
<1>5. CASE DeviceTask
  BY <1>5 DEF DeviceTask, AppTask, clientVars, HandleStackReady, HandleConnected,
      HandleDisconnected, HandleParamUpdate, HandleValidFw, CompleteValidFw, stackVars
<1>6. CASE TimerStep BY <1>6, TimerMoves DEF stackVars, clientVars
<1>7. CASE ParamProcedure BY <1>7 DEF ParamProcedure, ParamUpdated, clientVars
<1>8. CASE RestartAfterReset BY <1>8 DEF RestartAfterReset, ClientGone
<1>9. CASE PowerLoss BY <1>9 DEF PowerLoss, ClientGone
<1>10. CASE UNCHANGED vars BY <1>10 DEF vars, deviceVars, clientVars
<1> QED BY <1>1, <1>2, <1>3, <1>4, <1>5, <1>6, <1>7, <1>8, <1>9, <1>10 DEF Next

LEMMA ClientOffInvariant == Spec => []ClientOff
<1>1. Init => ClientOff BY DEF Init, ClientOff
<1>2. ClientOff /\ [Next]_vars => ClientOff' BY ClientOffStep
<1> QED BY <1>1, <1>2, PTL DEF Spec

(* What the check of VALID_FW reads, and what it reads again at its end.   *)
checkedVars == <<flash, image_id, temp_image_info, temp_image_num>>

(* A pending check leaves the client nothing to ask of the device.         *)
LEMMA NothingReady ==
  ASSUME OrderInv, ClientOff, Running, checking # {}
  PROVE  /\ wait # "none" \/ cst = "off"
         /\ cst \in {"send", "off"}
BY DEF OrderInv, CheckOrder, CheckPending, ClientOff

LEMMA CheckUndisturbedStep ==
  ASSUME OrderInv, ClientOff, [Next]_vars, checking # {}, checking' = checking
  PROVE  UNCHANGED checkedVars
<1> USE DEF checkedVars
<1>0. ASSUME Running PROVE (wait # "none" \/ cst = "off") /\ cst \in {"send", "off"}
  BY <1>0, NothingReady
<1>1. CASE Connect BY <1>1 DEF Connect, LinkUp, serviceVars, headVars, tempVars
<1>2. CASE ClientStep
  <2>1. ASSUME NEW s, Ready(s), s # "off", Running PROVE FALSE
    BY <1>0, <2>1 DEF Ready
  <2>2. CASE SendHello
    <3>1. CASE sendMode = "check" /\ WriteBufferCheckEn
      BY <2>1, <2>2, <3>1 DEF SendHello, WriteBufferCheckEn
    <3>2. CASE UNCHANGED deviceVars
      BY <3>2 DEF deviceVars, serviceVars, headVars, tempVars
    <3> QED BY <2>2, <3>1, <3>2 DEF SendHello
  <2>3. CASE SendTargetInfo BY <2>1, <2>3 DEF SendTargetInfo, WriteReportTargetInfo
  <2>4. CASE SendStart BY <2>1, <2>4 DEF SendStart, WriteStartDfu
  <2>5. CASE SendImageInfo BY <2>1, <2>5 DEF SendImageInfo, WriteReceiveFwImageInfo
  <2>6. CASE SendPacket
    <3>1. CASE UNCHANGED deviceVars
      BY <3>1 DEF deviceVars, serviceVars, headVars, tempVars
    <3>2. ASSUME NEW cell, NEW mayFail, WritePacket(cell, mayFail) PROVE FALSE
      BY <2>1, <2>6, <3>2 DEF SendPacket, WritePacket
    <3> QED BY <2>6, <3>1, <3>2 DEF SendPacket
  <2>7. CASE SendBufferCrc BY <2>1, <2>7 DEF SendBufferCrc, WriteReportBufferCrc
  <2>8. CASE SendValidFw BY <2>1, <2>8 DEF SendValidFw, WriteValidFw
  <2>9. CASE SendActiveImageReset
    BY <2>1, <2>9 DEF SendActiveImageReset, WriteActiveImageReset
  <2>10. CASE SendSystemReset BY <2>1, <2>10 DEF SendSystemReset, WriteSystemReset
  <2>11. CASE ReceiveNotification
    BY <2>11 DEF ReceiveNotification, serviceVars, headVars, tempVars
  <2> QED BY <1>2, <2>2, <2>3, <2>4, <2>5, <2>6, <2>7, <2>8, <2>9, <2>10, <2>11
          DEF ClientStep
<1>3. CASE SendConnParaUpdateReq
  BY <1>3 DEF SendConnParaUpdateReq, WriteConnParaUpdateReq, serviceVars, headVars, tempVars
<1>4. CASE LoseLink BY <1>4 DEF LoseLink, LinkDown, serviceVars, headVars, tempVars
<1>5. CASE DeviceTask
  <2>1. ASSUME NEW m, Take(m) PROVE FALSE BY <2>1 DEF Take
  <2>2. CASE CompleteValidFw BY <2>2 DEF CompleteValidFw, EndValidFw
  <2> QED BY <1>5, <2>1, <2>2 DEF DeviceTask, AppTask, HandleStackReady, HandleConnected,
          HandleDisconnected, HandleParamUpdate, HandleValidFw
<1>6. CASE TimerStep BY <1>6, TimerMoves DEF serviceVars, headVars, tempVars
<1>7. CASE ParamProcedure
  BY <1>7 DEF ParamProcedure, ParamUpdated, serviceVars, headVars, tempVars
<1>8. ASSUME NEW f, DeviceRestart(f), f = flash PROVE UNCHANGED checkedVars
  BY <1>8 DEF DeviceRestart, RestartOld, RestartNew, ServiceReset, serviceVars, headVars, tempVars
<1>9. CASE RestartAfterReset BY <1>8, <1>9 DEF RestartAfterReset
<1>10. CASE PowerLoss
  <2>1. Running BY <1>10 DEF PowerLoss
  <2>2. ~Ready("send") /\ cst # "valid" BY <1>0, <2>1 DEF Ready
  <2>3. WriteUnderWay = {} BY <2>2 DEF WriteUnderWay
  <2>4. ActivationUnderWay = {} BY <2>2 DEF ActivationUnderWay
  <2> QED BY <1>8, <1>10, <2>3, <2>4 DEF PowerLoss
<1>11. CASE UNCHANGED vars
  BY <1>11 DEF vars, deviceVars, serviceVars, headVars, tempVars
<1> QED BY <1>1, <1>2, <1>3, <1>4, <1>5, <1>6, <1>7, <1>9, <1>10, <1>11 DEF Next

(* The integrity check of VALID_FW, which reads the flash in one task      *)
(* while the other serves the client (dfu_service_handle_valid_fw), is     *)
(* never disturbed, whatever is lost, fails or restarts.                   *)
THEOREM CheckUndisturbedTheorem == Spec => CheckUndisturbed
<1>1. OrderInv /\ ClientOff /\ [Next]_vars
        => [checking # {} /\ checking' = checking
              => UNCHANGED <<flash, image_id, temp_image_info, temp_image_num>>]_vars
  BY CheckUndisturbedStep DEF checkedVars
<1> QED BY <1>1, OrderTheorem, ClientOffInvariant, PTL DEF Spec, CheckUndisturbed

-----------------------------------------------------------------------------
(* The events of a procedure.                                               *)

ParamEvents == {"PARAM_SUCCESS", "PARAM_FAIL"}
LastEvents == {"DISCONNECTED", "STACK_READY"}
OneParamEvent ==
  \A n, k \in 1 .. Len(ioQueue) :
    ioQueue[n] \in ParamEvents /\ ioQueue[k] \in ParamEvents => n = k

(* CONNECTED comes first, for the device advertises behind an empty queue; *)
(* nothing comes behind DISCONNECTED, for there is no link then.           *)
EventOrder ==
  /\ advertising => ioQueue = << >>
  /\ link = "down" => ~paramUpdate
  /\ \A n \in 1 .. Len(ioQueue) :
       /\ ioQueue[n] = "CONNECTED" => n = 1
       /\ ioQueue[n] \in LastEvents => n = Len(ioQueue)

(* A procedure that ends leaves one event.  CONNECTED, when it is taken,   *)
(* lets a second one begin before that event is taken; a third has to wait *)
(* for it.                                                                 *)
ParamOrder ==
  /\ Queued({"CONNECTED"}) => /\ OneParamEvent
                              /\ paramUpdate => conn_para_update_in_progress
                              /\ paramUpdate \/ ~conn_para_update_in_progress => ~Queued(ParamEvents)
  /\ \A n, k, j \in 1 .. Len(ioQueue) :
       n < k /\ k < j /\ ioQueue[n] \in ParamEvents /\ ioQueue[k] \in ParamEvents
         => ioQueue[j] \notin ParamEvents
  /\ paramUpdate \/ ~conn_para_update_in_progress => OneParamEvent
  /\ paramUpdate /\ ~conn_para_update_in_progress => ~Queued(ParamEvents)

EventInv == EventOrder /\ ParamOrder /\ ParamUpdateEnds

(* A step that leaves the queue and the procedure alone.                   *)
LEMMA EventFrame ==
  ASSUME EventInv, UNCHANGED <<ioQueue, conn_para_update_in_progress, paramUpdate>>,
         advertising' => advertising, link' = link \/ (link' = "closing" /\ link # "down"),
         Running' => Running
  PROVE  EventInv'
<1> USE DEF EventInv
<1>1. EventOrder' BY DEF EventOrder
<1>2. ParamOrder' BY DEF ParamOrder, OneParamEvent, Queued
<1>3. ParamUpdateEnds' BY DEF ParamUpdateEnds
<1> QED BY <1>1, <1>2, <1>3

LEMMA RequestsKeepEvents ==
  ASSUME EventInv,
         \/ SendHello \/ SendTargetInfo \/ SendStart \/ SendImageInfo \/ SendPacket
         \/ SendBufferCrc \/ SendActiveImageReset \/ SendSystemReset \/ ReceiveNotification
  PROVE  EventInv'
<1> SUFFICES /\ UNCHANGED <<ioQueue, conn_para_update_in_progress, paramUpdate, advertising>>
             /\ link' = link \/ (link' = "closing" /\ link # "down")
             /\ Running' => Running
  BY EventFrame
<1> USE DEF appVars, stackVars, pendVars, Running
<1>0. CASE UNCHANGED deviceVars BY <1>0 DEF deviceVars
<1>1. CASE SendHello BY <1>0, <1>1 DEF SendHello, WriteBufferCheckEn
<1>2. CASE SendTargetInfo BY <1>2 DEF SendTargetInfo, WriteReportTargetInfo
<1>3. CASE SendStart BY <1>3 DEF SendStart, WriteStartDfu
<1>4. CASE SendImageInfo BY <1>4 DEF SendImageInfo, WriteReceiveFwImageInfo
<1>5. CASE SendPacket BY <1>0, <1>5 DEF SendPacket, WritePacket
<1>6. CASE SendBufferCrc BY <1>6 DEF SendBufferCrc, WriteReportBufferCrc
<1>7. CASE SendActiveImageReset BY <1>7 DEF SendActiveImageReset, WriteActiveImageReset
<1>8. CASE SendSystemReset BY <1>8 DEF SendSystemReset, WriteSystemReset
<1>9. CASE ReceiveNotification BY <1>9 DEF ReceiveNotification
<1> QED BY <1>1, <1>2, <1>3, <1>4, <1>5, <1>6, <1>7, <1>8, <1>9

(* VALID_FW joins the queue while the link is up.                          *)
LEMMA ValidFwKeepsEvents ==
  ASSUME OrderInv, EventInv, SendValidFw
  PROVE  EventInv'
<1> USE DEF EventInv, ParamEvents, LastEvents
<1>1. /\ link = "up" /\ Running /\ (Post("VALID_FW") \/ UNCHANGED ioQueue)
      /\ UNCHANGED <<link, advertising, paramUpdate, conn_para_update_in_progress, reset>>
  BY DEF SendValidFw, WriteValidFw, stackVars
<1> SUFFICES ASSUME Post("VALID_FW") PROVE EventInv'
  BY <1>1, EventFrame
<1>2. "VALID_FW" \in AppMessage BY DEF AppMessage
<1>3. /\ Len(ioQueue) \in Nat /\ Len(ioQueue') = Len(ioQueue) + 1
      /\ \A n \in 1 .. Len(ioQueue) : ioQueue'[n] = ioQueue[n]
      /\ ioQueue'[Len(ioQueue) + 1] = "VALID_FW"
  BY <1>1, <1>2, QueueAppend DEF OrderInv
<1>4. ~advertising /\ ~Queued(LastEvents) BY <1>1 DEF OrderInv, LinkOrder
<1>5. \A n \in 1 .. Len(ioQueue') : \A m \in AppMessage \ {"VALID_FW"} :
        ioQueue'[n] = m => n \in 1 .. Len(ioQueue) /\ ioQueue[n] = m
  BY <1>3
<1>6. AppMessage \ {"VALID_FW"} = {"CONNECTED"} \cup ParamEvents \cup LastEvents
  BY DEF AppMessage
<1>7. EventOrder' BY <1>1, <1>4, <1>5, <1>6 DEF EventOrder, Queued
<1>8. (Queued({"CONNECTED"})' => Queued({"CONNECTED"})) /\ (Queued(ParamEvents)' => Queued(ParamEvents))
  BY <1>5, <1>6 DEF Queued
<1>9. OneParamEvent => OneParamEvent' BY <1>5, <1>6 DEF OneParamEvent
<1>10. ParamOrder' BY <1>1, <1>5, <1>6, <1>8, <1>9 DEF ParamOrder
<1>11. ParamUpdateEnds' BY <1>1, <1>3 DEF ParamUpdateEnds, Running
<1> QED BY <1>7, <1>10, <1>11

LEMMA ParamReqKeepsEvents ==
  ASSUME EventInv, SendConnParaUpdateReq
  PROVE  EventInv'
<1> USE DEF EventInv
<1>1. /\ UNCHANGED <<link, advertising, ioQueue, reset>> /\ link = "up"
      /\ \/ UNCHANGED <<conn_para_update_in_progress, paramUpdate>>
         \/ ~conn_para_update_in_progress /\ conn_para_update_in_progress' /\ paramUpdate'
  BY DEF SendConnParaUpdateReq, WriteConnParaUpdateReq
<1>2. EventOrder' BY <1>1 DEF EventOrder
<1>3. ParamOrder' BY <1>1 DEF ParamOrder, OneParamEvent, Queued
<1>4. ParamUpdateEnds' BY <1>1 DEF ParamUpdateEnds, Running
<1> QED BY <1>2, <1>3, <1>4

(* The event of a procedure joins the queue while there is a link.         *)
LEMMA ParamUpdateKeepsEvents ==
  ASSUME OrderInv, EventInv, ParamProcedure
  PROVE  EventInv'
<1> USE DEF EventInv, ParamEvents, LastEvents
<1>1. PICK msg \in ParamEvents : Post(msg)
  BY DEF ParamProcedure, ParamUpdated
<1>2. /\ paramUpdate /\ ~paramUpdate'
      /\ UNCHANGED <<link, advertising, conn_para_update_in_progress, reset>>
  BY DEF ParamProcedure, ParamUpdated
<1>3. msg \in AppMessage BY <1>1 DEF AppMessage
<1>4. /\ Len(ioQueue) \in Nat /\ Len(ioQueue') = Len(ioQueue) + 1
      /\ \A n \in 1 .. Len(ioQueue) : ioQueue'[n] = ioQueue[n]
      /\ ioQueue'[Len(ioQueue) + 1] = msg
  BY <1>1, <1>3, QueueAppend DEF OrderInv
<1>5. link # "down" /\ ~advertising /\ ~Queued(LastEvents)
  BY <1>2 DEF EventOrder, OrderInv, LinkOrder
<1>6. \A n \in 1 .. Len(ioQueue') : \A m \in {"CONNECTED"} \cup LastEvents :
        ioQueue'[n] = m => n \in 1 .. Len(ioQueue) /\ ioQueue[n] = m
  BY <1>1, <1>4
<1>7. EventOrder' BY <1>2, <1>5, <1>6 DEF EventOrder, Queued
<1>8. Queued({"CONNECTED"})' => Queued({"CONNECTED"}) BY <1>6 DEF Queued
<1>9. ~Queued(ParamEvents) => OneParamEvent'
  BY <1>4 DEF Queued, OneParamEvent
<1>10. OneParamEvent BY <1>2 DEF ParamOrder
<1>11. ASSUME NEW n \in 1 .. Len(ioQueue'), NEW k \in 1 .. Len(ioQueue'),
              NEW j \in 1 .. Len(ioQueue'), n < k, k < j,
              ioQueue'[n] \in ParamEvents, ioQueue'[k] \in ParamEvents
       PROVE  FALSE
  <2>1. n \in 1 .. Len(ioQueue) /\ k \in 1 .. Len(ioQueue) BY <1>4, <1>11
  <2> QED BY <1>4, <1>10, <1>11, <2>1 DEF OneParamEvent
<1>12. ParamOrder' BY <1>2, <1>8, <1>9, <1>11 DEF ParamOrder
<1>13. ParamUpdateEnds'
  <2>1. Len(ioQueue) + 1 \in 1 .. Len(ioQueue') BY <1>4
  <2> QED BY <1>1, <1>4, <2>1 DEF ParamUpdateEnds
<1> QED BY <1>7, <1>12, <1>13

(* The task takes the first message of the queue.                          *)
LEMMA TakenKeepsEvents ==
  ASSUME OrderInv, EventInv, NEW m, Take(m), UNCHANGED <<link, paramUpdate>>,
         advertising' = advertising \/ m \in LastEvents,
         IF m \in {"CONNECTED"} \cup ParamEvents THEN ~conn_para_update_in_progress'
                                        ELSE UNCHANGED conn_para_update_in_progress
  PROVE  EventInv'
<1> USE DEF EventInv, ParamEvents, LastEvents
<1>1. /\ Running /\ ioQueue \in Seq(AppMessage) /\ ioQueue' \in Seq(AppMessage)
      /\ Len(ioQueue) \in Nat /\ Len(ioQueue) > 0 /\ ioQueue[1] = m
      /\ Len(ioQueue') = Len(ioQueue) - 1
      /\ \A n \in 1 .. Len(ioQueue') : n + 1 \in 1 .. Len(ioQueue) /\ ioQueue'[n] = ioQueue[n + 1]
  BY Taken DEF OrderInv, Queues
<1>2. EventOrder'
  <2>1. m \in LastEvents => ioQueue' = << >> BY <1>1 DEF EventOrder
  <2>2. ~advertising BY <1>1 DEF EventOrder
  <2>3. ASSUME NEW n \in 1 .. Len(ioQueue')
        PROVE  ioQueue'[n] # "CONNECTED" /\ (ioQueue'[n] \in LastEvents => n = Len(ioQueue'))
    BY <1>1 DEF EventOrder
  <2> QED BY <2>1, <2>2, <2>3 DEF EventOrder
<1>3. ~Queued({"CONNECTED"})' BY <1>1 DEF EventOrder, Queued
<1>4. Queued(ParamEvents)' => Queued(ParamEvents) BY <1>1 DEF Queued
<1>5. OneParamEvent => OneParamEvent'
  <2>1. ASSUME OneParamEvent, NEW n \in 1 .. Len(ioQueue'), NEW k \in 1 .. Len(ioQueue'),
               ioQueue'[n] \in ParamEvents, ioQueue'[k] \in ParamEvents
        PROVE  n = k
    <3>1. n + 1 = k + 1 BY <1>1, <2>1 DEF OneParamEvent
    <3> QED BY <1>1, <2>1, <3>1
  <2> QED BY <2>1 DEF OneParamEvent
<1>6. \A n, k, j \in 1 .. Len(ioQueue') :
        n < k /\ k < j /\ ioQueue'[n] \in ParamEvents /\ ioQueue'[k] \in ParamEvents
          => ioQueue'[j] \notin ParamEvents
  <2>1. ASSUME NEW n \in 1 .. Len(ioQueue'), NEW k \in 1 .. Len(ioQueue'),
               NEW j \in 1 .. Len(ioQueue'), n < k, k < j,
               ioQueue'[n] \in ParamEvents, ioQueue'[k] \in ParamEvents
        PROVE  ioQueue'[j] \notin ParamEvents
    <3>1. n + 1 < k + 1 /\ k + 1 < j + 1 BY <1>1, <2>1
    <3> QED BY <1>1, <2>1, <3>1 DEF ParamOrder
  <2> QED BY <2>1
<1>7. CASE m = "CONNECTED"
  <2>1. Queued({"CONNECTED"}) BY <1>1, <1>7 DEF Queued
  <2>2. OneParamEvent' /\ (paramUpdate => ~Queued(ParamEvents)') BY <1>4, <1>5, <2>1 DEF ParamOrder
  <2>3. ParamOrder' BY <1>3, <1>6, <2>2 DEF ParamOrder
  <2> QED BY <1>2, <1>7, <2>3 DEF ParamUpdateEnds
<1>8. CASE m \in ParamEvents
  <2>1. OneParamEvent'
    <3>1. ASSUME NEW n \in 1 .. Len(ioQueue'), NEW k \in 1 .. Len(ioQueue'), n < k,
                 ioQueue'[n] \in ParamEvents, ioQueue'[k] \in ParamEvents
          PROVE  FALSE
      <4>1. 1 \in 1 .. Len(ioQueue) /\ 1 < n + 1 /\ n + 1 < k + 1 BY <1>1, <3>1
      <4> QED BY <1>1, <1>8, <3>1, <4>1 DEF ParamOrder
    <3> QED BY <1>1, <3>1 DEF OneParamEvent
  <2>2. paramUpdate => ~Queued(ParamEvents)'
    <3>1. ASSUME paramUpdate, NEW n \in 1 .. Len(ioQueue'), ioQueue'[n] \in ParamEvents
          PROVE  FALSE
      <4>1. OneParamEvent BY <3>1 DEF ParamOrder
      <4>2. 1 \in 1 .. Len(ioQueue) /\ 1 # n + 1 BY <1>1, <3>1
      <4> QED BY <1>1, <1>8, <3>1, <4>1, <4>2 DEF OneParamEvent
    <3> QED BY <3>1 DEF Queued
  <2>3. ParamOrder' BY <1>3, <1>6, <2>1, <2>2 DEF ParamOrder
  <2> QED BY <1>2, <1>8, <2>3 DEF ParamUpdateEnds
<1>9. CASE m \notin {"CONNECTED"} \cup ParamEvents
  <2>1. ParamOrder' BY <1>3, <1>4, <1>5, <1>6, <1>9 DEF ParamOrder
  <2>2. ParamUpdateEnds'
    <3>1. ASSUME NEW n \in 1 .. Len(ioQueue),
                 ioQueue[n] \in {"PARAM_SUCCESS", "PARAM_FAIL", "CONNECTED"}
          PROVE  \E k \in 1 .. Len(ioQueue') : ioQueue'[k] = ioQueue[n]
      <4>1. n # 1 BY <1>1, <1>9, <3>1
      <4>2. n - 1 \in 1 .. Len(ioQueue') /\ (n - 1) + 1 = n BY <1>1, <4>1
      <4>3. ioQueue'[n - 1] = ioQueue[n] BY <1>1, <4>2
      <4> QED BY <4>2, <4>3
    <3> QED BY <1>1, <1>9, <3>1 DEF ParamUpdateEnds
  <2> QED BY <1>2, <2>1, <2>2
<1> QED BY <1>7, <1>8, <1>9

LEMMA TaskKeepsEvents ==
  ASSUME OrderInv, EventInv, DeviceTask
  PROVE  EventInv'
<1> USE DEF stackVars, ParamEvents, LastEvents
<1>1. CASE HandleStackReady
  <2>1. /\ Take("STACK_READY") /\ "STACK_READY" \in LastEvents
        /\ "STACK_READY" \notin {"CONNECTED"} \cup ParamEvents
        /\ UNCHANGED <<link, paramUpdate, conn_para_update_in_progress>>
    BY <1>1 DEF HandleStackReady
  <2> QED BY <2>1, TakenKeepsEvents
<1>2. CASE HandleConnected BY <1>2, TakenKeepsEvents DEF HandleConnected
<1>3. CASE HandleDisconnected
  BY <1>3, TakenKeepsEvents DEF HandleDisconnected
<1>4. ASSUME NEW status, HandleParamUpdate(status) PROVE EventInv'
  <2>1. PICK m \in ParamEvents : Take(m) BY <1>4 DEF HandleParamUpdate
  <2> QED BY <1>4, <2>1, TakenKeepsEvents DEF HandleParamUpdate
<1>5. CASE HandleValidFw BY <1>5, TakenKeepsEvents DEF HandleValidFw
<1>6. CASE CompleteValidFw
  BY <1>6, EventFrame DEF CompleteValidFw, appVars, Running
<1> QED BY <1>1, <1>2, <1>3, <1>4, <1>5, <1>6 DEF DeviceTask, AppTask

(* The link comes up behind an empty queue, and takes its procedure with   *)
(* it when it goes down.                                                   *)
LEMMA LinkKeepsEvents ==
  ASSUME OrderInv, EventInv, Connect \/ LoseLink
  PROVE  EventInv'
<1> USE DEF EventInv, ParamEvents, LastEvents
<1>1. PICK m \in {"CONNECTED", "DISCONNECTED"} :
        /\ Post(m) /\ UNCHANGED conn_para_update_in_progress /\ ~advertising' /\ ~paramUpdate'
        /\ m = "CONNECTED" => advertising /\ link = "down" /\ link' = "up"
        /\ m = "DISCONNECTED" => link # "down" /\ link' = "down"
  BY DEF Connect, LinkUp, LoseLink, LinkDown, EventOrder, OrderInv, LinkOrder
<1>2. m \in AppMessage BY <1>1 DEF AppMessage
<1>3. /\ Len(ioQueue) \in Nat /\ Len(ioQueue') = Len(ioQueue) + 1
      /\ \A n \in 1 .. Len(ioQueue) : ioQueue'[n] = ioQueue[n]
      /\ ioQueue'[Len(ioQueue) + 1] = m
  BY <1>1, <1>2, QueueAppend DEF OrderInv
<1>4. CASE m = "CONNECTED"
  <2>1. Len(ioQueue) = 0 BY <1>1, <1>4 DEF EventOrder
  <2>2. Len(ioQueue') = 1 /\ ioQueue'[1] = "CONNECTED" BY <1>3, <1>4, <2>1
  <2>3. EventOrder' BY <1>1, <1>4, <2>2 DEF EventOrder
  <2>4. ParamOrder' BY <1>1, <2>2 DEF ParamOrder, OneParamEvent, Queued
  <2>5. ParamUpdateEnds' BY <2>2 DEF ParamUpdateEnds
  <2> QED BY <2>3, <2>4, <2>5
<1>5. CASE m = "DISCONNECTED"
  <2>1. ~Queued(LastEvents) BY <1>1, <1>5 DEF OrderInv, LinkOrder
  <2>2. \A n \in 1 .. Len(ioQueue') : \A e \in {"CONNECTED"} \cup ParamEvents :
          ioQueue'[n] = e => n \in 1 .. Len(ioQueue) /\ ioQueue[n] = e
    BY <1>3, <1>5
  <2>3. EventOrder' BY <1>1, <1>3, <2>1, <2>2 DEF EventOrder, Queued
  <2>4. /\ Queued({"CONNECTED"})' => Queued({"CONNECTED"})
        /\ Queued(ParamEvents)' => Queued(ParamEvents)
        /\ OneParamEvent => OneParamEvent'
    BY <2>2 DEF Queued, OneParamEvent
  <2>5. ParamOrder' BY <1>1, <2>2, <2>4 DEF ParamOrder
  <2>6. ParamUpdateEnds' BY <1>1, <1>5 DEF ParamUpdateEnds
  <2> QED BY <2>3, <2>5, <2>6
<1> QED BY <1>1, <1>4, <1>5

LEMMA EmptyStart ==
  ASSUME ioQueue = <<"STACK_READY">>, ~advertising, ~paramUpdate, ~conn_para_update_in_progress
  PROVE  EventInv
<1> USE DEF EventInv, ParamEvents, LastEvents
<1>1. Len(ioQueue) = 1 /\ ioQueue[1] = "STACK_READY" OBVIOUS
<1> QED BY <1>1 DEF EventOrder, ParamOrder, OneParamEvent, Queued, ParamUpdateEnds

LEMMA RestartKeepsEvents ==
  ASSUME EventInv, NEW f, DeviceRestart(f)
  PROVE  EventInv'
<1>1. CASE RestartOld(f)
  <2>1. /\ ioQueue' = <<"STACK_READY">> /\ ~advertising' /\ ~paramUpdate'
        /\ ~conn_para_update_in_progress'
    BY <1>1 DEF RestartOld
  <2>2. Len(ioQueue') = 1 /\ ioQueue'[1] = "STACK_READY" BY <2>1
  <2> QED BY <2>1, <2>2
      DEF EventInv, EventOrder, ParamOrder, OneParamEvent, Queued, ParamUpdateEnds, ParamEvents,
          LastEvents
<1>2. CASE RestartNew(f)
  BY <1>2, EventFrame DEF RestartNew, stackVars, Running
<1> QED BY <1>1, <1>2 DEF DeviceRestart

LEMMA EventNext == OrderInv /\ EventInv /\ [Next]_vars => EventInv'
<1> SUFFICES ASSUME OrderInv, EventInv, [Next]_vars PROVE EventInv' OBVIOUS
<1>1. CASE Connect \/ LoseLink BY <1>1, LinkKeepsEvents
<1>2. CASE ClientStep BY <1>2, RequestsKeepEvents, ValidFwKeepsEvents DEF ClientStep
<1>3. CASE SendConnParaUpdateReq BY <1>3, ParamReqKeepsEvents
<1>4. CASE DeviceTask BY <1>4, TaskKeepsEvents
<1>5. CASE TimerStep BY <1>5, TimerMoves, EventFrame DEF stackVars, Running
<1>6. CASE ParamProcedure BY <1>6, ParamUpdateKeepsEvents
<1>7. CASE RestartAfterReset \/ PowerLoss
  BY <1>7, RestartKeepsEvents DEF RestartAfterReset, PowerLoss
<1>8. CASE UNCHANGED vars BY <1>8, EventFrame DEF vars, deviceVars, appVars, Running
<1> QED BY <1>1, <1>2, <1>3, <1>4, <1>5, <1>6, <1>7, <1>8 DEF Next

LEMMA EventInvariant == Spec => [](OrderInv /\ EventInv)
<1>1. Init => OrderInv /\ EventInv
  BY OrderInit, EmptyStart DEF Init, DeviceInit
<1>2. OrderInv /\ EventInv /\ [Next]_vars => (OrderInv /\ EventInv)'
  BY OrderNext, EventNext
<1> QED BY <1>1, <1>2, PTL DEF Spec

(* A connection parameter procedure in progress is always one whose end is *)
(* under way (conn_para_update_in_progress of dfu_application.c): no       *)
(* request is refused for ever, however links and procedures follow one    *)
(* another.                                                                *)
THEOREM ParamUpdateEndsTheorem == Spec => []ParamUpdateEnds
<1>1. EventInv => ParamUpdateEnds BY DEF EventInv
<1> QED BY <1>1, EventInvariant, PTL

(* What a flash function returns.                                          *)
Outcome == [fl : Flash, ok : BOOLEAN]

-----------------------------------------------------------------------------
(* The flash functions lead from a flash to a flash.                       *)

LEMMA FlashRecord ==
  ASSUME NEW f \in Flash
  PROVE  /\ f.cells \in [Addr -> Content] /\ f.ready \subseteq Addr
         /\ f.bp \in BpLevel /\ f.saved \in BpLevel \cup {"none"}
BY DEF Flash

LEMMA CellsTyped ==
  ASSUME NEW f \in Flash, NEW cells \in [Addr -> Content], NEW ready \in SUBSET Addr
  PROVE  /\ [f EXCEPT !.cells = cells] \in Flash
         /\ [f EXCEPT !.cells = cells, !.ready = ready] \in Flash
BY DEF Flash

LEMMA BpTyped ==
  ASSUME NEW f \in Flash
  PROVE  unlock_flash_bp_all(f) \in Flash /\ lock_flash_bp(f) \in Flash
<1>1. unlock_flash_bp_all(f) \in Flash
  BY DEF unlock_flash_bp_all, Flash, BpLevel
<1>2. CASE f.saved = "none" BY <1>1, <1>2 DEF lock_flash_bp
<1>3. CASE f.saved # "none"
  BY <1>1, <1>3 DEF lock_flash_bp, Flash, BpLevel
<1> QED BY <1>2, <1>3

LEMMA EraseTyped ==
  ASSUME NEW f \in Flash, NEW a, NEW mayFail,
         NEW e \in flash_erase_sector(f, a, mayFail)
  PROVE  e \in Outcome
<1>1. ASSUME NEW c \in {Blank, Junk} PROVE Overwritten(f, a, c) \in Flash
  <2> DEFINE cells == [b \in Addr |-> IF b \in Sector(a) THEN c ELSE f.cells[b]]
  <2>1. cells \in [Addr -> Content]
    <3>1. c \in Content /\ \A b \in Addr : f.cells[b] \in Content
      BY FlashRecord DEF Content
    <3> QED BY <3>1
  <2>2. f.ready \ Sector(a) \in SUBSET Addr BY FlashRecord
  <2>3. [f EXCEPT !.cells = cells, !.ready = f.ready \ Sector(a)] \in Flash
    BY <2>1, <2>2, CellsTyped
  <2> QED BY <2>3 DEF Overwritten
<1>2. Overwritten(f, a, Blank) \in Flash /\ Overwritten(f, a, Junk) \in Flash BY <1>1
<1>3. \/ e = [fl |-> Overwritten(f, a, Blank), ok |-> TRUE]
      \/ e = [fl |-> f, ok |-> FALSE]
      \/ e = [fl |-> Overwritten(f, a, Junk), ok |-> FALSE]
  BY DEF flash_erase_sector
<1>4. ASSUME NEW g \in Flash, NEW ok \in BOOLEAN, e = [fl |-> g, ok |-> ok]
      PROVE  e \in Outcome
  BY <1>4 DEF Outcome
<1> QED BY <1>2, <1>3, <1>4

LEMMA ProgramTyped ==
  ASSUME NEW f \in Flash, NEW a \in Int, NEW d \in Seq(Payload)
  PROVE  Programmed(f, a, d) \in Flash
<1> DEFINE cells == [b \in Addr |->
        IF b \in a .. a + Len(d) - 1
          THEN IF f.cells[b] \in {Blank, d[b - a + 1]} THEN d[b - a + 1] ELSE Junk
          ELSE f.cells[b]]
<1>1. ASSUME NEW b \in Addr, b \in a .. a + Len(d) - 1 PROVE d[b - a + 1] \in Payload
  <2>1. b - a + 1 \in 1 .. Len(d) BY <1>1
  <2> QED BY <2>1
<1>2. cells \in [Addr -> Content] BY <1>1, FlashRecord DEF Content
<1>3. [f EXCEPT !.cells = cells] \in Flash BY <1>2, FlashRecord, CellsTyped
<1> QED BY <1>3 DEF Programmed

LEMMA WriteTyped ==
  ASSUME NEW f \in Flash, NEW a \in Int, NEW d \in Seq(Payload), NEW mayFail,
         NEW w \in dfu_write(f, a, d, mayFail)
  PROVE  w \in Outcome
<1>1. Programmed(f, a, d) \in Flash BY ProgramTyped
<1>2. ReadsBack(Programmed(f, a, d), a, d) \in BOOLEAN BY DEF ReadsBack
<1>3. ASSUME NEW j \in 0 .. Len(d) - 1
      PROVE  [Programmed(f, a, SubSeq(d, 1, j)) EXCEPT !.cells[a + j] = Junk] \in Flash
  <2>1. SubSeq(d, 1, j) \in Seq(Payload) BY <1>3
  <2> DEFINE g == Programmed(f, a, SubSeq(d, 1, j))
  <2>2. g \in Flash BY <2>1, ProgramTyped
  <2> HIDE DEF g
  <2>3. [g.cells EXCEPT ![a + j] = Junk] \in [Addr -> Content]
    BY <2>2, FlashRecord DEF Content
  <2>4. [g EXCEPT !.cells = [g.cells EXCEPT ![a + j] = Junk]] \in Flash
    BY <2>2, <2>3, FlashRecord, CellsTyped
  <2> USE DEF g
  <2> QED BY <2>4
<1>4. CASE w = [fl |-> Programmed(f, a, d), ok |-> ReadsBack(Programmed(f, a, d), a, d)]
  BY <1>1, <1>2, <1>4 DEF Outcome
<1>5. ASSUME NEW j \in 0 .. Len(d) - 1,
             w = [fl |-> [Programmed(f, a, SubSeq(d, 1, j)) EXCEPT !.cells[a + j] = Junk],
                  ok |-> FALSE]
      PROVE  w \in Outcome
  BY <1>3, <1>5 DEF Outcome
<1> QED BY <1>4, <1>5 DEF dfu_write

LEMMA UpdateTyped ==
  ASSUME NEW f \in Flash, NEW i \in Images, NEW offset \in Nat, NEW total \in Nat,
         NEW d \in Seq(Payload), NEW mayFail,
         NEW u \in dfu_update(f, i, offset, total, d, mayFail)
  PROVE  u \in Outcome
<1> DEFINE start == BankBase[i] + offset + total
           open == unlock_flash_bp_all(f)
           erased == IF SectorToErase(start, Len(d)) = {}
                       THEN {[fl |-> open, ok |-> TRUE]}
                       ELSE UNION {flash_erase_sector(open, a, mayFail)
                                     : a \in SectorToErase(start, Len(d))}
           checks == check_dfu_update_image_length(i, offset + total, d)
<1>1. start \in Int
  <2>1. BankBase[i] \in Nat BY LayoutAssumption
  <2> QED BY <2>1
<1>2. open \in Flash BY BpTyped
<1>3. ASSUME NEW e \in erased PROVE e \in Outcome
  <2>1. CASE e = [fl |-> open, ok |-> TRUE] BY <1>2, <2>1 DEF Outcome
  <2>2. ASSUME NEW a, e \in flash_erase_sector(open, a, mayFail) PROVE e \in Outcome
    BY <1>2, <2>2, EraseTyped
  <2> QED BY <1>3, <2>1, <2>2
<1>4. \/ u = [fl |-> f, ok |-> FALSE]
      \/ u \in erased
      \/ \E e \in erased : \E w \in dfu_write(e.fl, start, d, mayFail) :
           u = [fl |-> lock_flash_bp(w.fl), ok |-> w.ok]
  BY DEF dfu_update
<1>5. ASSUME NEW e \in erased, NEW w \in dfu_write(e.fl, start, d, mayFail)
      PROVE  [fl |-> lock_flash_bp(w.fl), ok |-> w.ok] \in Outcome
  <2>1. e.fl \in Flash BY <1>3 DEF Outcome
  <2>2. w \in Outcome BY <1>1, <2>1, WriteTyped
  <2>3. w.fl \in Flash /\ w.ok \in BOOLEAN BY <2>2 DEF Outcome
  <2> QED BY <2>3, BpTyped DEF Outcome
<1>6. [fl |-> f, ok |-> FALSE] \in Outcome BY DEF Outcome
<1> HIDE DEF erased, start
<1> QED BY <1>3, <1>4, <1>5, <1>6

LEMMA EraseRetryTyped ==
  ASSUME NEW f \in Flash, NEW i, NEW offset, NEW mayFail,
         NEW e \in dfu_flash_erase_sector_with_retry(f, i, offset, mayFail)
  PROVE  e \in Outcome
<1>1. PICK g \in flash_erase_sector(unlock_flash_bp_all(f), BankBase[i] + offset, mayFail) :
        e = [fl |-> lock_flash_bp(g.fl), ok |-> dfu_flash_check_blank(g.fl, i, offset)]
  BY DEF dfu_flash_erase_sector_with_retry
<1>2. unlock_flash_bp_all(f) \in Flash BY BpTyped
<1>3. g \in Outcome BY <1>2, EraseTyped
<1>4. g.fl \in Flash BY <1>3 DEF Outcome
<1>5. dfu_flash_check_blank(g.fl, i, offset) \in BOOLEAN BY DEF dfu_flash_check_blank
<1> QED BY <1>1, <1>4, <1>5, BpTyped DEF Outcome

LEMMA ReadyTyped ==
  ASSUME NEW f \in Flash, NEW headers \in SUBSET Addr
  PROVE  dfu_set_images_ready(f, headers) \in Flash
<1> DEFINE cells == [a \in Addr |-> IF a \in headers /\ f.cells[a] = Blank
                                      THEN Junk ELSE f.cells[a]]
           g == unlock_flash_bp_all(f)
<1>1. cells \in [Addr -> Content] BY FlashRecord DEF Content
<1>2. f.ready \cup headers \in SUBSET Addr BY FlashRecord
<1>3. g \in Flash BY BpTyped
<1> HIDE DEF cells, g
<1>4. [g EXCEPT !.cells = cells, !.ready = f.ready \cup headers] \in Flash
  BY <1>1, <1>2, <1>3, CellsTyped
<1>5. [g EXCEPT !.ready = f.ready \cup headers, !.cells = cells] \in Flash
  BY <1>1, <1>2, <1>3 DEF Flash
<1>6. lock_flash_bp([g EXCEPT !.ready = f.ready \cup headers, !.cells = cells]) \in Flash
  BY <1>5, BpTyped
<1> USE DEF cells, g
<1> QED BY <1>6 DEF dfu_set_images_ready

-----------------------------------------------------------------------------
(* What the types rest on.                                                 *)

(* The client has an image at hand while it sends, and waits only then.    *)
PlanInv ==
  /\ cst \in {"hello", "pick", "start", "info", "send"} => plan # << >>
  /\ wait # "none" => cst \in {"hello", "pick", "start", "send"}
  /\ wait \in {"BUFFER_CRC", "VALID_FW"} => cst = "send"

(* Data packets are written for an image that was named.                   *)
ImageInv == cst = "send" \/ is_ota_procedure => image_id \in Images

(* The validated entries of the temp bank lie in the flash.                *)
TempInv ==
  ~BankSwitch => \A n \in TempEntries :
    temp_image_info[n].id \in Images /\ TempHeader(n) \in Addr

(* There is an entry left for the image that is sent or checked.           *)
RoomNeeded ==
  \/ CheckPending \/ wait = "START" \/ cst = "info"
  \/ cst = "send" /\ wait # "VALID_FW"
RoomInv == RoomNeeded => temp_image_num < MaxTemp

(* The check reads the entry that its end will count.                      *)
CheckInv ==
  ~BankSwitch /\ image_id \notin UserImages =>
    \A c \in checking : c = [img |-> temp_image_info[temp_image_num].id,
                             off |-> CurrentImageOffset]

TypeInv ==
  TypeOK /\ OrderInv /\ ClientOff
    /\ PlanInv /\ ImageInv /\ TempInv /\ RoomInv /\ CheckInv

-----------------------------------------------------------------------------
(* The handlers of the service keep the types.                             *)

LEMMA NotifyTyped ==
  ASSUME notif \in Seq(Notification), NEW op, NEW status, NEW offset,
         [op |-> op, status |-> status, offset |-> offset] \in Notification,
         Notify(op, status, offset)
  PROVE  notif' \in Seq(Notification)
BY DEF Notify

LEMMA PlaceTyped ==
  ASSUME DeviceTypeOK
  PROVE  temp_image_info[temp_image_num] \in TempInfo /\ CurrentImageOffset \in Nat
<1>1. temp_image_info[temp_image_num] \in TempInfo BY DEF DeviceTypeOK
<1> QED BY <1>1 DEF CurrentImageOffset, TempInfo

(* The client's cells fit the receive buffer, or the device restarts.      *)
LEMMA PacketTyped ==
  ASSUME DeviceTypeOK, ImageInv, NEW cell \in Payload, NEW reboot \in BOOLEAN,
         NEW mayFail, PacketReq(cell, reboot, mayFail), link' = link
  PROVE  DeviceTypeOK'
<1> USE BufferAssumption DEF DeviceTypeOK
<1>1. UNCHANGED <<headVars, modeVars, tempVars, checkVars, notif>> BY DEF PacketReq
<1>2. SUFFICES /\ cur_offset' \in Nat /\ dfu_resend_offset' \in Nat
               /\ tmp_buf' \in Seq(Payload) /\ used' <= BufSize /\ flash' \in Flash
  BY <1>1 DEF headVars, modeVars, tempVars, checkVars
<1>3. CASE PacketIgnored(reboot) BY <1>3 DEF PacketIgnored, xferVars, used
<1>4. CASE PacketBuffered(cell, reboot)
  <2>1. /\ UNCHANGED <<cur_offset, dfu_resend_offset, flash>>
        /\ tmp_buf' = tmp_buf \/ (~(used + 1 > BufSize) /\ tmp_buf' = Append(tmp_buf, cell))
    BY <1>4 DEF PacketBuffered
  <2>2. Append(tmp_buf, cell) \in Seq(Payload) /\ Len(Append(tmp_buf, cell)) = used + 1
    BY DEF used
  <2>3. used \in Nat /\ BufSize \in Nat BY DEF used
  <2>4. CASE tmp_buf' = tmp_buf BY <2>1, <2>4 DEF used
  <2>5. CASE ~(used + 1 > BufSize) /\ tmp_buf' = Append(tmp_buf, cell)
    <3>1. used' = used + 1 BY <2>2, <2>5 DEF used
    <3> HIDE DEF used
    <3> QED BY <2>1, <2>2, <2>3, <2>5, <3>1
  <2> QED BY <2>1, <2>4, <2>5
<1>5. CASE PacketStreamed(cell, reboot, mayFail)
  <2> DEFINE data == Append(tmp_buf, cell)
  <2>1. data \in Seq(Payload) /\ Len(data) = used + 1 BY DEF used
  <2>2. image_id \in Images BY <1>5 DEF PacketStreamed, ImageInv
  <2>3. CurrentImageOffset \in Nat BY PlaceTyped
  <2>4. ASSUME NEW u \in dfu_update(flash, image_id, cur_offset, CurrentImageOffset, data, mayFail)
        PROVE  u.fl \in Flash
    <3>1. u \in Outcome BY <2>1, <2>2, <2>3, <2>4, UpdateTyped
    <3> QED BY <3>1 DEF Outcome
  <2>5. CASE StreamWritten(data, reboot, mayFail) /\ Len(data) <= BufSize
              /\ UNCHANGED dfu_resend_offset
    <3>1. PICK u \in dfu_update(flash, image_id, cur_offset, CurrentImageOffset, data, mayFail) :
            /\ flash' = u.fl
            /\ cur_offset' = IF u.ok THEN cur_offset + Len(data) ELSE cur_offset
            /\ tmp_buf' = IF u.ok THEN << >> ELSE data
      BY <2>5 DEF StreamWritten
    <3>2. flash' \in Flash BY <2>4, <3>1
    <3> HIDE DEF data
    <3>3. tmp_buf' \in Seq(Payload) /\ Len(tmp_buf') <= BufSize BY <2>1, <2>5, <3>1
    <3>4. cur_offset' \in Nat BY <2>1, <3>1
    <3> QED BY <2>5, <3>2, <3>3, <3>4 DEF used
  <2>6. CASE UNCHANGED <<xferVars, flash>> BY <2>6 DEF xferVars, used
  <2>7. CASE tmp_buf' = data /\ Len(data) <= BufSize
              /\ UNCHANGED <<cur_offset, flash, dfu_resend_offset>>
    BY <2>1, <2>7 DEF used
  <2>8. StreamSize \in Nat /\ StreamSize <= BufSize BY BufferAssumption
  <2> QED BY <1>5, <2>1, <2>5, <2>6, <2>7, <2>8 DEF PacketStreamed, xferVars
<1> QED BY <1>3, <1>4, <1>5 DEF PacketReq

LEMMA EraseBackTyped ==
  ASSUME NEW fl \in Flash, NEW mayFail, NEW e \in EraseBack(fl, mayFail)
  PROVE  e.fl \in Flash
<1> DEFINE first == dfu_flash_erase_sector_with_retry(fl, image_id, dfu_resend_offset, mayFail)
           Second(g) == dfu_flash_erase_sector_with_retry(g, image_id,
                        dfu_resend_offset + SectorSize, mayFail)
<1>1. e \in first \/ \E x \in first : e \in Second(x.fl)
  BY DEF EraseBack
<1>2. ASSUME NEW x \in first PROVE x.fl \in Flash
  <2>1. x \in Outcome BY EraseRetryTyped
  <2> QED BY <2>1 DEF Outcome
<1>3. ASSUME NEW x \in first, e \in Second(x.fl) PROVE e.fl \in Flash
  <2>1. e \in Outcome BY <1>2, <1>3, EraseRetryTyped
  <2> QED BY <2>1 DEF Outcome
<1> QED BY <1>1, <1>2, <1>3

LEMMA BufferCheckTyped ==
  ASSUME DeviceTypeOK, image_id \in Images, NEW size, NEW crcOk, NEW mayFail,
         BufferCheckProcess(size, crcOk, mayFail), link' = link
  PROVE  DeviceTypeOK'
<1> USE BufferAssumption DEF DeviceTypeOK
<1>1. UNCHANGED <<headVars, modeVars, tempVars, checkVars>> BY DEF BufferCheckProcess
<1>2. SUFFICES /\ cur_offset' \in Nat /\ dfu_resend_offset' \in Nat
               /\ tmp_buf' = << >> /\ flash' \in Flash /\ notif' \in Seq(Notification)
  BY <1>1 DEF headVars, modeVars, tempVars, checkVars, used
<1>3. ASSUME NEW status \in {"INVALID_PARAMETER", "LENGTH_ERROR", "CRC_ERROR"},
             FlushBuffer(status)
      PROVE  /\ cur_offset' \in Nat /\ dfu_resend_offset' \in Nat
             /\ tmp_buf' = << >> /\ flash' \in Flash /\ notif' \in Seq(Notification)
  <2>1. [op |-> "BUFFER_CRC", status |-> status, offset |-> cur_offset] \in Notification
    BY DEF Notification
  <2> QED BY <1>3, <2>1, NotifyTyped DEF FlushBuffer
<1>4. ASSUME NEW fl \in Flash, BufferWritten(fl)
      PROVE  /\ cur_offset' \in Nat /\ dfu_resend_offset' \in Nat
             /\ tmp_buf' = << >> /\ flash' \in Flash /\ notif' \in Seq(Notification)
  <2>1. cur_offset + used \in Nat BY DEF used
  <2>2. [op |-> "BUFFER_CRC", status |-> "SUCCESS", offset |-> cur_offset + used]
          \in Notification
    BY <2>1 DEF Notification
  <2>3. notif' \in Seq(Notification) BY <1>4, <2>2, NotifyTyped DEF BufferWritten
  <2>4. SectorSize \in Nat BY LayoutAssumption
  <2> QED BY <1>4, <2>1, <2>3, <2>4 DEF BufferWritten
<1>5. ASSUME NEW fl \in Flash, NEW ok, BufferRolledBack(fl, ok)
      PROVE  /\ cur_offset' \in Nat /\ dfu_resend_offset' \in Nat
             /\ tmp_buf' = << >> /\ flash' \in Flash /\ notif' \in Seq(Notification)
  <2>1. \A status \in {"PROG_ERROR", "ERASE_ERROR"} :
          [op |-> "BUFFER_CRC", status |-> status, offset |-> dfu_resend_offset] \in Notification
    BY DEF Notification
  <2>2. notif' \in Seq(Notification) BY <1>5, <2>1, NotifyTyped DEF BufferRolledBack
  <2> QED BY <1>5, <2>2 DEF BufferRolledBack
<1>6. ASSUME NEW u \in dfu_update(flash, image_id, cur_offset, CurrentImageOffset, tmp_buf, mayFail)
      PROVE  u.fl \in Flash
  <2>1. CurrentImageOffset \in Nat BY PlaceTyped
  <2>2. u \in Outcome BY <2>1, UpdateTyped
  <2> QED BY <2>2 DEF Outcome
<1>7. \/ \E status \in {"INVALID_PARAMETER", "LENGTH_ERROR", "CRC_ERROR"} : FlushBuffer(status)
      \/ \E u \in dfu_update(flash, image_id, cur_offset, CurrentImageOffset, tmp_buf, mayFail) :
           \/ BufferWritten(u.fl)
           \/ \E e \in EraseBack(u.fl, mayFail) : BufferRolledBack(e.fl, e.ok)
  BY DEF BufferCheckProcess
<1> QED BY <1>3, <1>4, <1>5, <1>6, <1>7, EraseBackTyped

-----------------------------------------------------------------------------
(* The client.                                                             *)

LEMMA AnswerTyped ==
  ASSUME DeviceTypeOK, notif # << >>
  PROVE  Head(notif) \in Notification /\ Head(notif).offset \in Nat
<1>1. Head(notif) \in Notification BY DEF DeviceTypeOK
<1> QED BY <1>1 DEF Notification

LEMMA PlanHead ==
  ASSUME ClientTypeOK, PlanInv, cst \in {"hello", "pick", "start", "info", "send"}
  PROVE  img \in Images /\ Length[img] \in Nat /\ Length[img] # 0 /\ Tail(plan) \in Seq(Images)
<1>1. plan \in Seq(Images) /\ plan # << >> BY DEF ClientTypeOK, PlanInv
<1>2. img \in Images BY <1>1 DEF img
<1> QED BY <1>1, <1>2, LayoutAssumption

LEMMA PlanStep ==
  ASSUME TypeInv, [Next]_vars
  PROVE  PlanInv'
<1> USE DEF TypeInv, PlanInv
<1>1. CASE Connect
  <2>1. plan' # << >> BY <1>1, ClientAssumption DEF Connect
  <2> QED BY <1>1, <2>1 DEF Connect
<1>2. CASE ClientStep
  <2> USE DEF Ready
  <2>1. CASE SendHello BY <2>1 DEF SendHello
  <2>2. CASE SendTargetInfo BY <2>2 DEF SendTargetInfo
  <2>3. CASE SendStart BY <2>3 DEF SendStart
  <2>4. CASE SendImageInfo BY <2>4 DEF SendImageInfo
  <2>5. CASE SendPacket BY <2>5 DEF SendPacket
  <2>6. CASE SendBufferCrc BY <2>6 DEF SendBufferCrc
  <2>7. CASE SendValidFw BY <2>7 DEF SendValidFw
  <2>8. CASE SendActiveImageReset BY <2>8 DEF SendActiveImageReset
  <2>9. CASE SendSystemReset BY <2>9 DEF SendSystemReset
  <2>10. CASE ReceiveNotification BY <2>10 DEF ReceiveNotification, Answered
  <2> QED BY <1>2, <2>1, <2>2, <2>3, <2>4, <2>5, <2>6, <2>7, <2>8, <2>9, <2>10 DEF ClientStep
<1>3. CASE UNCHANGED clientVars BY <1>3 DEF clientVars
<1>4. CASE ClientGone BY <1>4 DEF ClientGone
<1> QED BY <1>1, <1>2, <1>3, <1>4, TimerMoves DEF Next, SendConnParaUpdateReq, LoseLink, DeviceTask,
          ParamProcedure, RestartAfterReset, PowerLoss, vars

LEMMA FaultCounted ==
  ASSUME ClientTypeOK, NEW mayFail \in {FALSE, MayFail}, CountFault(mayFail)
  PROVE  faults' \in 0 .. MaxFlashFaults
<1>1. ClientTypeOK /\ MaxFlashFaults \in Nat BY ClientAssumption
<1>2. ASSUME CountFault(FALSE) PROVE faults' \in 0 .. MaxFlashFaults
  BY <1>1, <1>2 DEF CountFault, ClientTypeOK
<1>3. ASSUME CountFault(MayFail) PROVE faults' \in 0 .. MaxFlashFaults
  BY <1>1, <1>3 DEF CountFault, ClientTypeOK, MayFail
<1> QED BY <1>2, <1>3

LEMMA ClientTypeStep ==
  ASSUME TypeInv, [Next]_vars
  PROVE  ClientTypeOK'
<1> USE ClientAssumption DEF TypeInv, TypeOK, ClientTypeOK, ClientState, Awaited, counterVars
<1>1. CASE Connect
  <2>1. plan' \in Seq(Images) BY <1>1 DEF Connect
  <2> QED BY <1>1, <2>1 DEF Connect
<1>2. CASE ClientStep
  <2>1. CASE SendHello BY <2>1 DEF SendHello
  <2>2. CASE SendTargetInfo BY <2>2 DEF SendTargetInfo
  <2>3. CASE SendStart BY <2>3 DEF SendStart
  <2>4. CASE SendImageInfo BY <2>4 DEF SendImageInfo
  <2>5. CASE SendPacket
    <3>1. faults' = faults \/ \E mayFail \in {FALSE, MayFail} : CountFault(mayFail)
      BY <2>5 DEF SendPacket
    <3>2. faults' \in 0 .. MaxFlashFaults BY <3>1, FaultCounted
    <3>3. damage' = damage \/ (damage < MaxDamage /\ damage' = damage + 1)
      BY <2>5 DEF SendPacket
    <3>4. UNCHANGED <<cst, wait, plan, sendMode, coff, sessions, powerLosses, paramReqs>>
          /\ chunk' = chunk + 1
      BY <2>5 DEF SendPacket
    <3> QED BY <3>2, <3>3, <3>4
  <2>6. CASE SendBufferCrc
    <3>1. faults' \in 0 .. MaxFlashFaults BY <2>6, FaultCounted DEF SendBufferCrc
    <3> QED BY <2>6, <3>1 DEF SendBufferCrc
  <2>7. CASE SendValidFw BY <2>7 DEF SendValidFw
  <2>8. CASE SendActiveImageReset BY <2>8 DEF SendActiveImageReset
  <2>9. CASE SendSystemReset BY <2>9 DEF SendSystemReset
  <2>10. CASE ReceiveNotification
    <3>1. UNCHANGED <<sendMode, sessions, damage, faults, powerLosses, paramReqs>>
      BY <2>10 DEF ReceiveNotification
    <3>2. CASE Answered(Head(notif)) /\ Head(notif).op = wait
      <4>1. Head(notif).offset \in Nat BY <2>10, AnswerTyped DEF ReceiveNotification
      <4>2. wait # "none" => Tail(plan) \in Seq(Images) BY PlanHead DEF PlanInv
      <4>3. wait' = "none" /\ chunk' = 0 BY <3>2 DEF Answered
      <4>4. coff' \in Nat BY <3>2, <4>1 DEF Answered
      <4>5. Head(notif).op = "VALID_FW" => wait # "none" BY <3>2
      <4>6. plan' \in Seq(Images) BY <3>2, <4>2, <4>5 DEF Answered
      <4>7. cst' \in ClientState BY <3>2 DEF Answered
      <4> QED BY <3>1, <4>3, <4>4, <4>6, <4>7
    <3> QED BY <2>10, <3>1, <3>2 DEF ReceiveNotification
  <2> QED BY <1>2, <2>1, <2>2, <2>3, <2>4, <2>5, <2>6, <2>7, <2>8, <2>9, <2>10 DEF ClientStep
<1>3. CASE UNCHANGED <<clientVars, counterVars>> BY <1>3 DEF clientVars
<1>4. CASE SendConnParaUpdateReq BY <1>4 DEF SendConnParaUpdateReq, clientVars
<1>5. CASE ClientGone /\ UNCHANGED counterVars BY <1>5 DEF ClientGone
<1>6. CASE PowerLoss BY <1>6 DEF PowerLoss, ClientGone
<1> QED BY <1>1, <1>2, <1>3, <1>4, <1>5, <1>6, TimerMoves DEF Next, LoseLink, DeviceTask,
          ParamProcedure, RestartAfterReset, vars

-----------------------------------------------------------------------------
(* The application.                                                        *)

LEMMA AppTypeStep ==
  ASSUME TypeInv, [Next]_vars
  PROVE  AppTypeOK'
<1>1. AppTypeOK /\ OrderInv BY DEF TypeInv, TypeOK
<1>2. ioQueue' \in Seq(AppMessage) BY <1>1, OrderNext DEF OrderInv, Queues
<1> SUFFICES /\ advertising' \in BOOLEAN /\ active_reset_pending' \in BOOLEAN
             /\ active_reset_mode' \in BOOLEAN /\ active_header' \in BOOLEAN
             /\ conn_para_update_in_progress' \in BOOLEAN /\ paramUpdate' \in BOOLEAN
             /\ timers' \in [Timer -> TimerState] /\ reset' \in Reset
  BY <1>2 DEF AppTypeOK
<1> USE <1>1, ClientAssumption, LayoutAssumption, AppAssumption
        DEF AppTypeOK, stackVars, pendVars, appVars, deviceVars, TimerState, Reset, dfu_fw_reboot
<1>3. CASE Connect BY <1>3 DEF Connect, LinkUp
<1>4. CASE ClientStep
  <2>1. CASE SendHello BY <2>1 DEF SendHello, WriteBufferCheckEn
  <2>2. CASE SendTargetInfo BY <2>2 DEF SendTargetInfo, WriteReportTargetInfo
  <2>3. CASE SendStart BY <2>3 DEF SendStart, WriteStartDfu
  <2>4. CASE SendImageInfo BY <2>4 DEF SendImageInfo, WriteReceiveFwImageInfo
  <2>5. CASE SendPacket BY <2>5 DEF SendPacket, WritePacket
  <2>6. CASE SendBufferCrc BY <2>6 DEF SendBufferCrc, WriteReportBufferCrc
  <2>7. CASE SendValidFw BY <2>7 DEF SendValidFw, WriteValidFw
  <2>8. CASE SendActiveImageReset BY <2>8 DEF SendActiveImageReset, WriteActiveImageReset
  <2>9. CASE SendSystemReset BY <2>9 DEF SendSystemReset, WriteSystemReset
  <2>10. CASE ReceiveNotification BY <2>10 DEF ReceiveNotification
  <2> QED BY <1>4, <2>1, <2>2, <2>3, <2>4, <2>5, <2>6, <2>7, <2>8, <2>9, <2>10 DEF ClientStep
<1>5. CASE SendConnParaUpdateReq BY <1>5 DEF SendConnParaUpdateReq, WriteConnParaUpdateReq
<1>6. CASE LoseLink BY <1>6 DEF LoseLink, LinkDown
<1>7. CASE DeviceTask
  <2>1. CASE HandleStackReady BY <2>1 DEF HandleStackReady
  <2>2. CASE HandleConnected BY <2>2 DEF HandleConnected
  <2>3. CASE HandleDisconnected BY <2>3 DEF HandleDisconnected
  <2>4. ASSUME NEW status, HandleParamUpdate(status)
        PROVE  /\ UNCHANGED <<stackVars, pendVars, timers, reset>>
               /\ conn_para_update_in_progress' = FALSE
    BY <2>4 DEF HandleParamUpdate
  <2>5. CASE HandleValidFw BY <2>5 DEF HandleValidFw
  <2>6. CASE CompleteValidFw BY <2>6 DEF CompleteValidFw
  <2> QED BY <1>7, <2>1, <2>2, <2>3, <2>4, <2>5, <2>6 DEF DeviceTask, AppTask
<1>8. CASE TimerStep
  <2>1. timers' \in [Timer -> TimerState]
    BY <1>8 DEF TimerStep, Timeout, TimerExpires, PeriodOver, PeriodEnds
  <2> QED BY <1>8, <2>1, TimerMoves
<1>9. CASE ParamProcedure BY <1>9 DEF ParamProcedure, ParamUpdated
<1>10. ASSUME NEW f, DeviceRestart(f) PROVE AppTypeOK'
  <2>1. BootTimers \in [Timer -> TimerState] BY DEF BootTimers
  <2> QED BY <1>2, <1>10, <2>1 DEF DeviceRestart, RestartOld, RestartNew
<1>11. CASE UNCHANGED vars BY <1>11 DEF vars
<1> QED BY <1>3, <1>4, <1>5, <1>6, <1>7, <1>8, <1>9, <1>10, <1>11
        DEF Next, RestartAfterReset, PowerLoss

-----------------------------------------------------------------------------
(* The device.                                                             *)

(* What an activation marks ready lies in the flash.                       *)
LEMMA HeadersInFlash ==
  ASSUME DeviceTypeOK, TempInv
  PROVE  ReadyHeaders \in SUBSET Addr
<1>1. \A i \in valid_bitmap : BankHeader(i) \in Addr
  BY LayoutAssumption DEF DeviceTypeOK, BankHeader
<1>2. UserHeaders \subseteq Addr BY <1>1 DEF UserHeaders
<1>3. BankHeaders \subseteq Addr
  <2>1. CASE BankSwitch BY <1>1, <2>1 DEF BankHeaders
  <2>2. CASE ~BankSwitch BY <2>2 DEF BankHeaders, TempInv
  <2> QED BY <2>1, <2>2
<1> QED BY <1>2, <1>3 DEF ReadyHeaders

(* An image that passes the check lies in the flash.                       *)
LEMMA CheckedInFlash ==
  ASSUME NEW f, NEW i \in Images, NEW offset \in Nat, ~BankSwitch,
         dfu_check_checksum(f, i, offset)
  PROVE  BankBase[i] + offset \in Addr
<1> DEFINE a == BankBase[i] + offset
<1>1. HoldsOldFw(f, a) \/ \E j \in Images : HoldsFile(f, a, j)
  BY DEF dfu_check_checksum, dfu_check_sha256
<1>2. CASE HoldsOldFw(f, a) BY <1>2, LayoutAssumption DEF HoldsOldFw
<1>3. ASSUME NEW j \in Images, HoldsFile(f, a, j) PROVE a \in Addr
  <2>1. 0 \in 0 .. Length[j] - 1
    <3>1. Length[j] \in Nat \ {0} BY LayoutAssumption
    <3> QED BY <3>1
  <2>2. a + 0 \in Addr BY <1>3, <2>1 DEF HoldsFile
  <2>3. BankBase[i] \in Nat BY LayoutAssumption
  <2>4. a \in Nat BY <2>3
  <2> QED BY <2>2, <2>4
<1> QED BY <1>1, <1>2, <1>3

(* Steps that leave the service's state, or the temp bank's.               *)
LEMMA ServiceFrame ==
  ASSUME DeviceTypeOK, UNCHANGED <<serviceVars, flash>>,
         notif' \in Seq(Notification), link' \in {"down", "up", "closing"}
  PROVE  DeviceTypeOK'
BY DEF DeviceTypeOK, serviceVars, headVars, xferVars, modeVars, tempVars, checkVars, used

LEMMA TempFrame ==
  ASSUME TempInv, UNCHANGED tempVars
  PROVE  TempInv'
BY DEF TempInv, TempEntries, TempHeader, tempVars

LEMMA RestartTyped ==
  ASSUME DeviceTypeOK, ImageInv, TempInv, NEW f \in Flash, DeviceRestart(f), ClientGone
  PROVE  DeviceTypeOK' /\ ImageInv' /\ TempInv'
<1>1. CASE RestartOld(f)
  <2>1. flash' \in Flash
    <3> DEFINE g == [f EXCEPT !.bp = "locked", !.saved = "none"]
    <3>1. g \in Flash BY DEF Flash, BpLevel
    <3>2. flash' = unlock_flash_bp_all(g) \/ flash' = g
      BY <1>1 DEF RestartOld, BootFlash
    <3> QED BY <3>1, <3>2, BpTyped
  <2>2. [n \in 0 .. MaxTemp |-> NoInfo] \in [0 .. MaxTemp -> TempInfo]
    BY DEF NoInfo, TempInfo
  <2>3. DeviceTypeOK'
    <3>1. tmp_buf' = << >> /\ notif' = << >> /\ link' = "down"
      BY <1>1 DEF RestartOld, ServiceReset
    <3>2. tmp_buf' \in Seq(Payload) /\ used' <= BufSize /\ notif' \in Seq(Notification)
      BY <3>1, BufferAssumption DEF used
    <3>3. temp_image_info' \in [0 .. MaxTemp -> TempInfo]
      BY <1>1, <2>2 DEF RestartOld, ServiceReset
    <3>4. /\ image_id' = NoImage /\ image_total_length' = 0 /\ cur_offset' = 0
          /\ dfu_resend_offset' = 0 /\ buffer_check_en' = FALSE
          /\ is_ota_procedure' = FALSE /\ temp_image_num' = 0
          /\ valid_bitmap' = {} /\ checking' = {}
      BY <1>1 DEF RestartOld, ServiceReset
    <3>5. 0 \in 0 .. MaxTemp BY BufferAssumption
    <3> QED BY <2>1, <3>1, <3>2, <3>3, <3>4, <3>5 DEF DeviceTypeOK
  <2>4. ImageInv' BY <1>1 DEF RestartOld, ServiceReset, ImageInv, ClientGone
  <2>5. TempInv' BY <1>1 DEF RestartOld, ServiceReset, TempInv, TempEntries
  <2> QED BY <2>3, <2>4, <2>5
<1>2. CASE RestartNew(f)
  <2>1. DeviceTypeOK'
    BY <1>2 DEF RestartNew, DeviceTypeOK, serviceVars, headVars, xferVars, modeVars, tempVars,
       checkVars, used
  <2>2. ImageInv'
    BY <1>2 DEF RestartNew, ImageInv, ClientGone, serviceVars, headVars, modeVars
  <2>3. TempInv' BY <1>2, TempFrame DEF RestartNew, serviceVars
  <2> QED BY <2>1, <2>2, <2>3
<1> QED BY <1>1, <1>2 DEF DeviceRestart

(* What the power may leave of a write or of an activation.                *)
LEMMA UnderWayTyped ==
  ASSUME TypeInv, NEW f \in {flash} \cup WriteUnderWay \cup ActivationUnderWay
  PROVE  f \in Flash
<1> USE DEF TypeInv, TypeOK
<1>1. CASE f = flash BY <1>1 DEF DeviceTypeOK
<1>2. CASE f \in WriteUnderWay
  <2> DEFINE data == IF buffer_check_en THEN tmp_buf
                     ELSE Append(tmp_buf, <<image_id, cur_offset + used>>)
  <2>1. is_ota_procedure /\ \E u \in dfu_update(flash, image_id, cur_offset,
                                       CurrentImageOffset, data, TRUE) : f = u.fl
    BY <1>2 DEF WriteUnderWay
  <2>2. image_id \in Images BY <2>1 DEF ImageInv
  <2>3. tmp_buf \in Seq(Payload) /\ <<image_id, cur_offset + used>> \in Payload
    BY <2>2 DEF DeviceTypeOK, Payload, used
  <2>4. data \in Seq(Payload) BY <2>3
  <2>5. CurrentImageOffset \in Nat /\ cur_offset \in Nat /\ flash \in Flash
    BY PlaceTyped DEF DeviceTypeOK
  <2> HIDE DEF data
  <2>6. PICK u \in dfu_update(flash, image_id, cur_offset, CurrentImageOffset, data, TRUE) :
          f = u.fl
    BY <2>1
  <2>7. u \in Outcome BY <2>2, <2>4, <2>5, <2>6, UpdateTyped
  <2> QED BY <2>6, <2>7 DEF Outcome
<1>3. CASE f \in ActivationUnderWay
  <2>1. PICK H \in ReadyPrefixes : f = dfu_set_images_ready(flash, H)
    BY <1>3 DEF ActivationUnderWay
  <2>2. H \in SUBSET Addr BY <2>1, HeadersInFlash DEF ReadyPrefixes
  <2> QED BY <2>1, <2>2, ReadyTyped DEF DeviceTypeOK
<1> QED BY <1>1, <1>2, <1>3

DeviceInv == DeviceTypeOK /\ ImageInv /\ TempInv

(* A step that names an image and answers.                                 *)
LEMMA NamedImage ==
  ASSUME DeviceInv, image_id' \in Images, image_total_length' \in Nat,
         UNCHANGED <<xferVars, buffer_check_en, temp_image_num, checkVars, flash, link>>,
         is_ota_procedure' \in BOOLEAN,
         temp_image_info' \in [0 .. MaxTemp -> TempInfo],
         \A n \in TempEntries : temp_image_info'[n] = temp_image_info[n],
         notif' \in Seq(Notification)
  PROVE  DeviceInv'
<1>1. DeviceTypeOK' BY DEF DeviceInv, DeviceTypeOK, xferVars, checkVars, used
<1>2. ImageInv' BY DEF ImageInv
<1>3. TempInv' BY DEF DeviceInv, TempInv, TempEntries, TempHeader
<1> QED BY <1>1, <1>2, <1>3 DEF DeviceInv

LEMMA StartTyped ==
  ASSUME DeviceInv, NEW i \in Images, NEW icTypeOk \in BOOLEAN, StartDfu(i, icTypeOk),
         link' = link
  PROVE  DeviceInv'
<1>1. Length[i] \in Nat BY LayoutAssumption
<1>2. UNCHANGED <<xferVars, buffer_check_en, temp_image_num, checkVars, flash>>
      /\ image_id' = i /\ image_total_length' = Length[i]
  BY DEF StartDfu
<1>3. is_ota_procedure' \in BOOLEAN BY DEF StartDfu, DeviceInv, DeviceTypeOK
<1>4. notif' \in Seq(Notification)
  <2>1. \A status \in {"SUCCESS", "INVALID_PARAMETER"} :
          [op |-> "START", status |-> status, offset |-> 0] \in Notification
    BY DEF Notification
  <2> QED BY <2>1, NotifyTyped DEF StartDfu, DeviceInv, DeviceTypeOK
<1>5. /\ temp_image_info' \in [0 .. MaxTemp -> TempInfo]
      /\ \A n \in TempEntries : temp_image_info'[n] = temp_image_info[n]
  <2>1. temp_image_info \in [0 .. MaxTemp -> TempInfo] /\ temp_image_num \in 0 .. MaxTemp
        /\ MaxTemp \in Nat
    BY BufferAssumption DEF DeviceInv, DeviceTypeOK
  <2>2. CASE UNCHANGED temp_image_info BY <2>1, <2>2
  <2>3. CASE RecordTempImage(i) /\ ~UNCHANGED temp_image_info
    <3> DEFINE place == IF temp_image_num = 0 THEN 0
                        ELSE temp_image_info[temp_image_num - 1].offset
                               + temp_image_info[temp_image_num - 1].size
               entry == [id |-> i, size |-> Length[i], offset |-> place]
    <3>1. temp_image_info' = [temp_image_info EXCEPT ![temp_image_num] = entry]
      BY <2>3 DEF RecordTempImage
    <3>2. place \in Nat
      <4>1. ASSUME temp_image_num # 0
            PROVE  temp_image_info[temp_image_num - 1] \in TempInfo
        BY <2>1, <4>1
      <4>2. ASSUME temp_image_num # 0
            PROVE  /\ temp_image_info[temp_image_num - 1].offset \in Nat
                   /\ temp_image_info[temp_image_num - 1].size \in Nat
        BY <4>1, <4>2 DEF TempInfo
      <4> QED BY <4>2
    <3>3. entry \in TempInfo BY <1>1, <3>2 DEF TempInfo
    <3> HIDE DEF entry
    <3> QED BY <2>1, <3>1, <3>3 DEF TempEntries
  <2> QED BY <2>2, <2>3 DEF StartDfu
<1> QED BY <1>1, <1>2, <1>3, <1>4, <1>5, NamedImage

LEMMA DeviceClientStep ==
  ASSUME TypeInv, ClientStep
  PROVE  DeviceInv'
<1>0. DeviceTypeOK /\ ClientTypeOK /\ ImageInv /\ TempInv /\ PlanInv /\ DeviceInv
  BY DEF TypeInv, TypeOK, DeviceInv
<1>a. ASSUME DeviceTypeOK', UNCHANGED <<cst, is_ota_procedure, image_id, tempVars>>
      PROVE  DeviceInv'
  BY <1>0, <1>a, TempFrame DEF DeviceInv, ImageInv
<1>b. ASSUME UNCHANGED <<serviceVars, flash, link>>, notif' \in Seq(Notification),
             cst' = "send" => cst = "send"
      PROVE  DeviceInv'
  <2>1. DeviceTypeOK' BY <1>0, <1>b, ServiceFrame DEF DeviceTypeOK
  <2>2. ImageInv' BY <1>0, <1>b DEF ImageInv, serviceVars, headVars, modeVars
  <2>3. TempInv' BY <1>0, <1>b, TempFrame DEF serviceVars
  <2> QED BY <2>1, <2>2, <2>3 DEF DeviceInv
<1>c. notif \in Seq(Notification) /\ link \in {"down", "up", "closing"} /\ flash \in Flash
  BY <1>0 DEF DeviceTypeOK
<1>1. CASE SendHello
  <2>1. CASE WriteBufferCheckEn /\ UNCHANGED cst
    <3>1. [op |-> "BUFFER_CHECK_EN", status |-> "SUCCESS", offset |-> 0] \in Notification
      BY DEF Notification
    <3>2. notif' \in Seq(Notification)
      BY <1>c, <2>1, <3>1, NotifyTyped DEF WriteBufferCheckEn, BufferCheckEn
    <3>3. /\ UNCHANGED <<headVars, xferVars, is_ota_procedure, tempVars, checkVars, flash, link>>
          /\ buffer_check_en' = TRUE
      BY <2>1 DEF WriteBufferCheckEn, BufferCheckEn
    <3>4. DeviceTypeOK'
      BY <1>0, <3>2, <3>3 DEF DeviceTypeOK, headVars, xferVars, tempVars, checkVars, used
    <3> QED BY <1>a, <2>1, <3>3, <3>4 DEF headVars
  <2>2. CASE UNCHANGED deviceVars /\ cst' = "pick"
    BY <1>b, <1>c, <2>2 DEF deviceVars
  <2> QED BY <1>1, <2>1, <2>2 DEF SendHello
<1>2. CASE SendTargetInfo
  <2>1. img \in Images /\ WriteReportTargetInfo(img) /\ UNCHANGED cst
    BY <1>0, <1>2, PlanHead DEF SendTargetInfo, Ready
  <2>2. [op |-> "TARGET_INFO", status |-> "SUCCESS", offset |-> 0] \in Notification
    BY DEF Notification
  <2>3. notif' \in Seq(Notification)
    BY <1>c, <2>1, <2>2, NotifyTyped DEF WriteReportTargetInfo, ReportTargetInfo
  <2>4. /\ UNCHANGED <<image_total_length, tmp_buf, dfu_resend_offset, modeVars, tempVars,
                       checkVars, flash, link>>
        /\ image_id' = img /\ cur_offset' = 0
    BY <2>1 DEF WriteReportTargetInfo, ReportTargetInfo
  <2>5. DeviceTypeOK'
    BY <1>0, <2>1, <2>3, <2>4 DEF DeviceTypeOK, modeVars, tempVars, checkVars, used
  <2>6. TempInv' BY <1>0, <2>4, TempFrame
  <2> QED BY <2>1, <2>4, <2>5, <2>6 DEF DeviceInv, ImageInv
<1>3. CASE SendStart
  <2>1. PICK icTypeOk \in BOOLEAN : WriteStartDfu(img, icTypeOk) BY <1>3 DEF SendStart
  <2>2. img \in Images BY <1>0, <1>3, PlanHead DEF SendStart, Ready
  <2> QED BY <1>0, <2>1, <2>2, StartTyped DEF WriteStartDfu, stackVars
<1>4. CASE SendImageInfo
  <2>1. img \in Images /\ coff \in Nat
    BY <1>0, <1>4, PlanHead DEF SendImageInfo, Ready, ClientTypeOK
  <2>2. /\ image_id' = img /\ cur_offset' = coff
        /\ \/ tmp_buf' = << >> /\ dfu_resend_offset' = 0
           \/ UNCHANGED <<tmp_buf, dfu_resend_offset>>
        /\ UNCHANGED <<image_total_length, modeVars, tempVars, checkVars, flash, notif, link>>
    BY <1>4 DEF SendImageInfo, WriteReceiveFwImageInfo, ReceiveFwImageInfo
  <2>3. tmp_buf' \in Seq(Payload) /\ used' <= BufSize /\ dfu_resend_offset' \in Nat
    <3>1. tmp_buf \in Seq(Payload) /\ used <= BufSize /\ dfu_resend_offset \in Nat
      BY <1>0 DEF DeviceTypeOK
    <3>2. CASE tmp_buf' = << >> /\ dfu_resend_offset' = 0
      BY <3>2, BufferAssumption DEF used
    <3>3. CASE UNCHANGED <<tmp_buf, dfu_resend_offset>> BY <3>1, <3>3 DEF used
    <3> QED BY <2>2, <3>2, <3>3
  <2>4. DeviceTypeOK'
    BY <1>0, <2>1, <2>2, <2>3 DEF DeviceTypeOK, modeVars, tempVars, checkVars
  <2>5. TempInv' BY <1>0, <2>2, TempFrame
  <2> QED BY <2>1, <2>2, <2>4, <2>5 DEF DeviceInv, ImageInv
<1>5. CASE SendPacket
  <2>1. CASE UNCHANGED deviceVars
    BY <1>5, <1>b, <1>c, <2>1 DEF deviceVars, SendPacket
  <2>2. ASSUME NEW cell \in Payload, NEW mayFail, WritePacket(cell, mayFail) PROVE DeviceInv'
    <3>1. PICK reboot \in BOOLEAN : PacketReq(cell, reboot, mayFail)
      BY <2>2 DEF WritePacket
    <3>2. link' = link BY <2>2 DEF WritePacket, stackVars
    <3>3. DeviceTypeOK' BY <1>0, <3>1, <3>2, PacketTyped
    <3>4. UNCHANGED <<is_ota_procedure, image_id, tempVars>>
      BY <3>1 DEF PacketReq, headVars, modeVars
    <3> QED BY <1>5, <1>a, <3>3, <3>4 DEF SendPacket
  <2>3. <<img, coff + chunk>> \in Payload /\ <<Noise, coff + chunk>> \in Payload
    BY <1>0, <1>5, PlanHead DEF SendPacket, Ready, Payload, ClientTypeOK
  <2> QED BY <1>5, <2>1, <2>2, <2>3 DEF SendPacket
<1>6. CASE SendBufferCrc
  <2>1. PICK crcOk, mayFail : WriteReportBufferCrc(chunk, crcOk, mayFail)
    BY <1>6 DEF SendBufferCrc
  <2>2. image_id \in Images BY <1>0, <1>6 DEF SendBufferCrc, Ready, ImageInv
  <2>3. BufferCheckProcess(chunk, crcOk, mayFail) /\ link' = link
    BY <2>1 DEF WriteReportBufferCrc
  <2>4. DeviceTypeOK' BY <1>0, <2>2, <2>3, BufferCheckTyped
  <2>5. UNCHANGED <<is_ota_procedure, image_id, tempVars>>
    BY <2>3 DEF BufferCheckProcess, headVars, modeVars
  <2> QED BY <1>6, <1>a, <2>4, <2>5 DEF SendBufferCrc
<1>7. CASE SendValidFw
  <2>1. img \in Images BY <1>0, <1>7, PlanHead DEF SendValidFw, Ready
  <2>2. image_id' = img
        /\ UNCHANGED <<image_total_length, xferVars, modeVars, tempVars, checkVars, flash,
                       notif, link>>
    BY <1>7 DEF SendValidFw, WriteValidFw, ValidFw, stackVars
  <2> QED BY <1>0, <2>1, <2>2, NamedImage DEF DeviceTypeOK, modeVars, tempVars
<1>8. CASE SendActiveImageReset
  <2>1. UNCHANGED <<serviceVars, notif>> /\ link' = "closing" /\ cst' = "end"
        /\ \/ flash' = dfu_set_images_ready(flash, ReadyHeaders)
           \/ flash' = unlock_flash_bp_all(dfu_set_images_ready(flash, ReadyHeaders))
    BY <1>8 DEF SendActiveImageReset, WriteActiveImageReset, ActiveImageReset
  <2>2. flash' \in Flash BY <1>0, <1>c, <2>1, HeadersInFlash, ReadyTyped, BpTyped
  <2>3. DeviceTypeOK'
    BY <1>0, <2>1, <2>2
       DEF DeviceTypeOK, serviceVars, headVars, xferVars, modeVars, tempVars, checkVars, used
  <2>4. ImageInv' BY <1>0, <2>1 DEF ImageInv, serviceVars, headVars, modeVars
  <2>5. TempInv' BY <1>0, <2>1, TempFrame DEF serviceVars
  <2> QED BY <2>3, <2>4, <2>5 DEF DeviceInv
<1>9. CASE SendSystemReset
  <2>1. UNCHANGED <<serviceVars, notif, link>> /\ cst' = "end"
        /\ (flash' = flash \/ flash' = Overwritten(flash, BankBase[image_id], Blank))
    BY <1>9 DEF SendSystemReset, WriteSystemReset, SystemReset, stackVars
  <2>2. flash' \in Flash
    <3>1. [fl |-> Overwritten(flash, BankBase[image_id], Blank), ok |-> TRUE] \in Outcome
      <4>1. [fl |-> Overwritten(flash, BankBase[image_id], Blank), ok |-> TRUE]
              \in flash_erase_sector(flash, BankBase[image_id], FALSE)
        BY DEF flash_erase_sector
      <4> QED BY <1>c, <4>1, EraseTyped
    <3>2. Overwritten(flash, BankBase[image_id], Blank) \in Flash BY <3>1 DEF Outcome
    <3> QED BY <1>c, <2>1, <3>2
  <2>3. DeviceTypeOK'
    BY <1>0, <2>1, <2>2
       DEF DeviceTypeOK, serviceVars, headVars, xferVars, modeVars, tempVars, checkVars, used
  <2>4. ImageInv' BY <1>0, <2>1 DEF ImageInv, serviceVars, headVars, modeVars
  <2>5. TempInv' BY <1>0, <2>1, TempFrame DEF serviceVars
  <2> QED BY <2>3, <2>4, <2>5 DEF DeviceInv
<1>10. CASE ReceiveNotification
  <2>1. UNCHANGED <<serviceVars, flash, link>> /\ notif' = Tail(notif) /\ notif # << >>
    BY <1>10 DEF ReceiveNotification
  <2>2. notif' \in Seq(Notification) BY <1>c, <2>1
  <2>3. cst' = "send" => cst = "send"
    <3>1. CASE Answered(Head(notif)) /\ Head(notif).op = wait
      BY <1>0, <3>1 DEF Answered, PlanInv
    <3>2. CASE UNCHANGED cst BY <3>2
    <3> QED BY <1>10, <3>1, <3>2 DEF ReceiveNotification
  <2> QED BY <1>b, <2>1, <2>2, <2>3
<1> QED BY <1>1, <1>2, <1>3, <1>4, <1>5, <1>6, <1>7, <1>8, <1>9, <1>10 DEF ClientStep

(* The end of a check counts an entry that lies in the flash.              *)
LEMMA EndValidFwTyped ==
  ASSUME TypeInv, EndValidFw, link' = link
  PROVE  DeviceTypeOK' /\ TempInv'
<1>1. DeviceTypeOK /\ TempInv /\ CheckInv /\ RoomInv BY DEF TypeInv, TypeOK
<1>2. PICK c \in checking :
        /\ checking' = {}
        /\ \/ valid_bitmap' = valid_bitmap
           \/ c.img \in Images /\ valid_bitmap' = valid_bitmap \cup {c.img}
        /\ \/ temp_image_num' = temp_image_num
           \/ /\ temp_image_num' = temp_image_num + 1
              /\ c.img \in Images /\ dfu_check_checksum(flash, c.img, c.off)
              /\ ~BankSwitch /\ image_id \notin UserImages
        /\ \E status \in {"SUCCESS", "CRC_ERROR"} : Notify("VALID_FW", status, 0)
        /\ UNCHANGED <<headVars, xferVars, modeVars, temp_image_info, flash>>
  <2> DEFINE pass(c) == c.img \in Images /\ dfu_check_checksum(flash, c.img, c.off)
  <2>1. PICK c \in checking :
          /\ checking' = {}
          /\ valid_bitmap' = IF pass(c) THEN valid_bitmap \cup {c.img} ELSE valid_bitmap
          /\ temp_image_num' = IF pass(c) /\ ~BankSwitch /\ image_id \notin UserImages
                                 THEN temp_image_num + 1 ELSE temp_image_num
          /\ Notify("VALID_FW", IF pass(c) THEN "SUCCESS" ELSE "CRC_ERROR", 0)
          /\ UNCHANGED <<headVars, xferVars, modeVars, temp_image_info, flash>>
    BY DEF EndValidFw
  <2>2. pass(c) => c.img \in Images /\ dfu_check_checksum(flash, c.img, c.off) OBVIOUS
  <2> HIDE DEF pass
  <2>3. CASE pass(c) BY <2>1, <2>2, <2>3
  <2>4. CASE ~pass(c) BY <2>1, <2>4
  <2> QED BY <2>3, <2>4
<1>3. temp_image_num < MaxTemp BY <1>1, <1>2 DEF RoomInv, RoomNeeded, CheckPending
<1>4. notif' \in Seq(Notification)
  <2>1. \A status \in {"SUCCESS", "CRC_ERROR"} :
          [op |-> "VALID_FW", status |-> status, offset |-> 0] \in Notification
    BY DEF Notification
  <2> QED BY <1>1, <1>2, <2>1, NotifyTyped DEF DeviceTypeOK
<1>5. temp_image_num' \in 0 .. MaxTemp
  BY <1>1, <1>2, <1>3, BufferAssumption DEF DeviceTypeOK
<1>6. valid_bitmap' \subseteq Images BY <1>1, <1>2 DEF DeviceTypeOK
<1>7. DeviceTypeOK'
  BY <1>1, <1>2, <1>4, <1>5, <1>6 DEF DeviceTypeOK, headVars, xferVars, modeVars, used
<1>8. TempInv'
  <2>1. CASE UNCHANGED temp_image_num
    BY <1>1, <1>2, <2>1, TempFrame DEF tempVars
  <2>2. CASE temp_image_num' = temp_image_num + 1 /\ ~UNCHANGED temp_image_num
    <3>1. /\ c.img \in Images /\ dfu_check_checksum(flash, c.img, c.off)
          /\ ~BankSwitch /\ image_id \notin UserImages /\ UNCHANGED temp_image_info
      BY <1>2, <2>2
    <3>2. c = [img |-> temp_image_info[temp_image_num].id, off |-> CurrentImageOffset]
      BY <1>1, <1>2, <3>1 DEF CheckInv
    <3>3. c.img = temp_image_info[temp_image_num].id
          /\ c.off = temp_image_info[temp_image_num].offset
      BY <3>2 DEF CurrentImageOffset
    <3>4. c.off \in Nat BY <3>3, <1>1, PlaceTyped DEF CurrentImageOffset
    <3>5. BankBase[c.img] + c.off \in Addr BY <3>1, <3>4, CheckedInFlash
    <3>6. temp_image_info[temp_image_num].id \in Images /\ TempHeader(temp_image_num) \in Addr
      BY <3>1, <3>3, <3>5 DEF TempHeader
    <3>7. \A n \in TempEntries' : n \in TempEntries \/ n = temp_image_num
      BY <1>1, <2>2 DEF TempEntries, DeviceTypeOK
    <3>8. \A n : TempHeader(n)' = TempHeader(n) BY <3>1 DEF TempHeader
    <3> QED BY <1>1, <3>1, <3>6, <3>7, <3>8 DEF TempInv
  <2> QED BY <1>2, <2>1, <2>2
<1> QED BY <1>7, <1>8

LEMMA DeviceStep ==
  ASSUME TypeInv, [Next]_vars
  PROVE  DeviceInv'
<1>0. DeviceTypeOK /\ ImageInv /\ TempInv BY DEF TypeInv, TypeOK
<1>1. notif \in Seq(Notification) /\ flash \in Flash /\ << >> \in Seq(Notification)
      /\ link \in {"down", "up", "closing"}
  BY <1>0 DEF DeviceTypeOK
<1>2. ASSUME UNCHANGED <<serviceVars, flash>>, notif' \in Seq(Notification),
             link' \in {"down", "up", "closing"}, cst' = "send" => cst = "send"
      PROVE  DeviceInv'
  <2>1. DeviceTypeOK' BY <1>0, <1>2, ServiceFrame
  <2>2. ImageInv' BY <1>0, <1>2 DEF ImageInv, serviceVars, headVars, modeVars
  <2>3. TempInv' BY <1>0, <1>2, TempFrame DEF serviceVars
  <2> QED BY <2>1, <2>2, <2>3 DEF DeviceInv
<1>3. CASE Connect BY <1>1, <1>2, <1>3 DEF Connect, LinkUp
<1>4. CASE ClientStep BY <1>4, DeviceClientStep
<1>5. CASE SendConnParaUpdateReq
  <2>1. [op |-> "CONN_PARA", status |-> "FAIL_OPERATION", offset |-> 0] \in Notification
    BY DEF Notification
  <2>2. notif' \in Seq(Notification)
    BY <1>1, <1>5, <2>1, NotifyTyped DEF SendConnParaUpdateReq, WriteConnParaUpdateReq
  <2> QED BY <1>1, <1>2, <1>5, <2>2
          DEF SendConnParaUpdateReq, WriteConnParaUpdateReq, clientVars
<1>6. CASE LoseLink BY <1>1, <1>2, <1>6 DEF LoseLink, LinkDown, ClientGone
<1>7. CASE DeviceTask
  <2>0. UNCHANGED cst BY <1>7 DEF DeviceTask, clientVars
  <2>1. CASE HandleStackReady BY <1>1, <1>2, <2>0, <2>1 DEF HandleStackReady
  <2>2. CASE HandleConnected BY <1>1, <1>2, <2>0, <2>2 DEF HandleConnected, stackVars
  <2>3. CASE HandleDisconnected BY <1>1, <1>2, <2>0, <2>3 DEF HandleDisconnected
  <2>4. ASSUME NEW status \in {"SUCCESS", "FAIL_OPERATION"}, HandleParamUpdate(status)
        PROVE  DeviceInv'
    <3>1. [op |-> "CONN_PARA", status |-> status, offset |-> 0] \in Notification
      BY DEF Notification
    <3>2. notif' \in Seq(Notification)
      BY <1>1, <2>4, <3>1, NotifyTyped DEF HandleParamUpdate
    <3> QED BY <1>1, <1>2, <2>0, <2>4, <3>2 DEF HandleParamUpdate, stackVars
  <2>5. CASE HandleValidFw
    <3>1. /\ UNCHANGED <<headVars, xferVars, modeVars, tempVars, valid_bitmap, flash, notif,
                         link>>
          /\ checking' = {IF BankSwitch \/ image_id \in UserImages
                            THEN [img |-> image_id, off |-> 0]
                            ELSE [img |-> temp_image_info[temp_image_num].id,
                                  off |-> CurrentImageOffset]}
      BY <2>5 DEF HandleValidFw, BeginValidFw, stackVars
    <3>2. temp_image_info[temp_image_num].id \in Images \cup {NoImage}
          /\ CurrentImageOffset \in Nat
      BY <1>0, PlaceTyped DEF TempInfo
    <3>3. checking' \subseteq [img : Images \cup {NoImage}, off : Nat]
      BY <1>0, <3>1, <3>2 DEF DeviceTypeOK
    <3>4. DeviceTypeOK'
      BY <1>0, <3>1, <3>3 DEF DeviceTypeOK, headVars, xferVars, modeVars, tempVars, used
    <3>5. ImageInv' BY <1>0, <2>0, <3>1 DEF ImageInv, headVars, modeVars
    <3>6. TempInv' BY <1>0, <3>1, TempFrame
    <3> QED BY <3>4, <3>5, <3>6 DEF DeviceInv
  <2>6. CASE CompleteValidFw
    <3>1. EndValidFw /\ link' = link BY <2>6 DEF CompleteValidFw
    <3>2. UNCHANGED <<image_id, is_ota_procedure>> BY <3>1 DEF EndValidFw, headVars, modeVars
    <3>3. ImageInv' BY <1>0, <2>0, <3>2 DEF ImageInv
    <3> QED BY <3>1, <3>3, EndValidFwTyped DEF DeviceInv
  <2> QED BY <1>7, <2>1, <2>2, <2>3, <2>4, <2>5, <2>6 DEF DeviceTask, AppTask
<1>8. CASE TimerStep BY <1>1, <1>2, <1>8, TimerMoves DEF stackVars, clientVars
<1>9. CASE ParamProcedure
  BY <1>1, <1>2, <1>9 DEF ParamProcedure, ParamUpdated, clientVars
<1>10. CASE RestartAfterReset
  BY <1>0, <1>1, <1>10, RestartTyped DEF RestartAfterReset, DeviceInv
<1>11. CASE PowerLoss
  <2>1. PICK f \in {flash} \cup WriteUnderWay \cup ActivationUnderWay :
          DeviceRestart(f) /\ ClientGone
    BY <1>11 DEF PowerLoss
  <2>2. f \in Flash BY UnderWayTyped
  <2> QED BY <1>0, <2>1, <2>2, RestartTyped DEF DeviceInv
<1>12. CASE UNCHANGED vars BY <1>1, <1>2, <1>12 DEF vars, deviceVars, clientVars
<1> QED BY <1>3, <1>4, <1>5, <1>6, <1>7, <1>8, <1>9, <1>10, <1>11, <1>12 DEF Next

-----------------------------------------------------------------------------
(* The entry of the image that is sent or checked.                         *)

(* A message other than VALID_FW that is posted or taken starts no check.  *)
LEMMA NoNewCheck ==
  ASSUME OrderInv, checking' = checking \/ checking' = {},
         \/ UNCHANGED ioQueue
         \/ \E m \in AppMessage \ {"VALID_FW"} : Post(m)
         \/ \E m : Take(m)
  PROVE  CheckPending' => CheckPending
<1> USE DEF CheckPending, Queued
<1>1. CASE UNCHANGED ioQueue BY <1>1
<1>2. ASSUME NEW m \in AppMessage \ {"VALID_FW"}, Post(m)
      PROVE  Queued({"VALID_FW"})' => Queued({"VALID_FW"})
  <2>1. /\ Len(ioQueue) \in Nat /\ Len(ioQueue') = Len(ioQueue) + 1
        /\ \A n \in 1 .. Len(ioQueue) : ioQueue'[n] = ioQueue[n]
        /\ ioQueue'[Len(ioQueue) + 1] = m
    BY <1>2, QueueAppend DEF OrderInv
  <2> QED BY <2>1
<1>3. ASSUME NEW m, Take(m) PROVE Queued({"VALID_FW"})' => Queued({"VALID_FW"})
  <2>1. \A n \in 1 .. Len(ioQueue') :
          n + 1 \in 1 .. Len(ioQueue) /\ ioQueue'[n] = ioQueue[n + 1]
    BY <1>3, Taken
  <2> QED BY <2>1
<1> QED BY <1>1, <1>2, <1>3

LEMMA RoomStep ==
  ASSUME TypeInv, [Next]_vars
  PROVE  RoomInv'
<1>0. RoomInv /\ OrderInv /\ PlanInv /\ ClientOff /\ temp_image_num \in 0 .. MaxTemp
      /\ MaxTemp \in Nat \ {0}
  BY BufferAssumption DEF TypeInv, TypeOK, DeviceTypeOK
<1>1. ASSUME UNCHANGED temp_image_num, CheckPending' => CheckPending, UNCHANGED <<cst, wait>>
      PROVE  RoomInv'
  BY <1>0, <1>1 DEF RoomInv, RoomNeeded
<1>2. ASSUME UNCHANGED <<temp_image_num, checking, ioQueue>>, RoomNeeded' => RoomNeeded
      PROVE  RoomInv'
  BY <1>0, <1>2 DEF RoomInv
<1>3. CASE Connect
  <2>1. checking' = checking /\ UNCHANGED temp_image_num /\ Post("CONNECTED")
        /\ cst' = "hello" /\ wait' = wait
    BY <1>3 DEF Connect, LinkUp, serviceVars, checkVars, tempVars
  <2>2. "CONNECTED" \in AppMessage \ {"VALID_FW"} BY DEF AppMessage
  <2>3. CheckPending' => CheckPending BY <1>0, <2>1, <2>2, NoNewCheck
  <2> QED BY <1>0, <2>1, <2>3 DEF RoomInv, RoomNeeded
<1>4. CASE ClientStep
  <2> USE DEF Ready, RoomNeeded
  <2>a. ASSUME UNCHANGED <<serviceVars, ioQueue>>
        PROVE  UNCHANGED <<temp_image_num, checking, ioQueue>>
    BY <2>a DEF serviceVars, tempVars, checkVars
  <2>b. ASSUME UNCHANGED <<temp_image_num, checking, ioQueue>> PROVE CheckPending' = CheckPending
    BY <2>b DEF CheckPending, Queued
  <2>1. CASE SendHello
    <3>1. UNCHANGED <<temp_image_num, checking, ioQueue>>
      BY <2>1 DEF SendHello, WriteBufferCheckEn, BufferCheckEn, deviceVars, serviceVars, appVars,
         tempVars, checkVars
    <3> QED BY <1>2, <2>1, <2>b, <3>1 DEF SendHello
  <2>2. CASE SendTargetInfo
    <3>1. UNCHANGED <<temp_image_num, checking, ioQueue>>
      BY <2>2 DEF SendTargetInfo, WriteReportTargetInfo, ReportTargetInfo, appVars, tempVars,
         checkVars
    <3> QED BY <1>2, <2>2, <2>b, <3>1 DEF SendTargetInfo
  <2>3. CASE SendStart
    <3>1. UNCHANGED temp_image_num BY <2>3 DEF SendStart, WriteStartDfu, StartDfu
    <3>2. temp_image_num < MaxTemp BY <2>3 DEF SendStart
    <3> QED BY <3>1, <3>2 DEF RoomInv
  <2>4. CASE SendImageInfo
    <3>1. UNCHANGED <<temp_image_num, checking, ioQueue>>
      BY <2>4 DEF SendImageInfo, WriteReceiveFwImageInfo, ReceiveFwImageInfo, appVars, tempVars,
         checkVars
    <3> QED BY <1>2, <2>4, <2>b, <3>1 DEF SendImageInfo
  <2>5. CASE SendPacket
    <3>1. UNCHANGED <<temp_image_num, checking, ioQueue>>
      BY <2>5 DEF SendPacket, WritePacket, PacketReq, deviceVars, serviceVars, appVars,
         tempVars, checkVars
    <3> QED BY <1>2, <2>5, <2>b, <3>1 DEF SendPacket
  <2>6. CASE SendBufferCrc
    <3>1. UNCHANGED <<temp_image_num, checking, ioQueue>>
      BY <2>6 DEF SendBufferCrc, WriteReportBufferCrc, BufferCheckProcess, appVars, tempVars,
         checkVars
    <3> QED BY <1>2, <2>6, <2>b, <3>1 DEF SendBufferCrc
  <2>7. CASE SendValidFw
    <3>1. UNCHANGED temp_image_num /\ cst = "send" /\ wait = "none"
      BY <2>7 DEF SendValidFw, WriteValidFw, ValidFw, tempVars
    <3> QED BY <1>0, <3>1 DEF RoomInv
  <2>8. CASE SendActiveImageReset
    <3>1. UNCHANGED <<temp_image_num, checking, ioQueue>>
      BY <2>8, <2>a DEF SendActiveImageReset, WriteActiveImageReset, ActiveImageReset
    <3> QED BY <1>2, <2>8, <2>b, <3>1 DEF SendActiveImageReset
  <2>9. CASE SendSystemReset
    <3>1. UNCHANGED <<temp_image_num, checking, ioQueue>>
      BY <2>9, <2>a DEF SendSystemReset, WriteSystemReset, SystemReset
    <3> QED BY <1>2, <2>9, <2>b, <3>1 DEF SendSystemReset
  <2>10. CASE ReceiveNotification
    <3>1. UNCHANGED <<temp_image_num, checking, ioQueue>>
      BY <2>10, <2>a DEF ReceiveNotification, appVars
    <3>2. RoomNeeded' => RoomNeeded
      BY <1>0, <2>10, <2>b, <3>1 DEF ReceiveNotification, Answered, PlanInv
    <3> QED BY <1>2, <3>1, <3>2
  <2> QED BY <1>4, <2>1, <2>2, <2>3, <2>4, <2>5, <2>6, <2>7, <2>8, <2>9, <2>10 DEF ClientStep
<1>5. CASE SendConnParaUpdateReq
  <2>1. UNCHANGED <<temp_image_num, checking, ioQueue, cst, wait>>
    BY <1>5 DEF SendConnParaUpdateReq, WriteConnParaUpdateReq, serviceVars, tempVars, checkVars,
       clientVars
  <2>2. CheckPending' => CheckPending BY <1>0, <2>1, NoNewCheck
  <2> QED BY <1>1, <2>1, <2>2
<1>6. CASE LoseLink
  <2>1. UNCHANGED <<temp_image_num, checking>> /\ Post("DISCONNECTED")
        /\ cst' = "off" /\ wait' = "none"
    BY <1>6 DEF LoseLink, LinkDown, ClientGone, serviceVars, tempVars, checkVars
  <2>2. "DISCONNECTED" \in AppMessage \ {"VALID_FW"} BY DEF AppMessage
  <2>3. CheckPending' => CheckPending BY <1>0, <2>1, <2>2, NoNewCheck
  <2> QED BY <1>0, <2>1, <2>3 DEF RoomInv, RoomNeeded
<1>7. CASE DeviceTask
  <2>0. UNCHANGED <<cst, wait>> BY <1>7 DEF DeviceTask, clientVars
  <2>1. ASSUME NEW m, Take(m), UNCHANGED <<temp_image_num, checking>> PROVE RoomInv'
    <3>1. CheckPending' => CheckPending BY <1>0, <2>1, NoNewCheck
    <3> QED BY <1>1, <2>0, <2>1, <3>1
  <2>2. CASE HandleStackReady
    BY <2>1, <2>2 DEF HandleStackReady, serviceVars, tempVars, checkVars
  <2>3. CASE HandleConnected
    BY <2>1, <2>3 DEF HandleConnected, serviceVars, tempVars, checkVars
  <2>4. CASE HandleDisconnected
    BY <2>1, <2>4 DEF HandleDisconnected, serviceVars, tempVars, checkVars
  <2>5. ASSUME NEW status, HandleParamUpdate(status) PROVE RoomInv'
    BY <2>1, <2>5 DEF HandleParamUpdate, serviceVars, tempVars, checkVars
  <2>6. CASE HandleValidFw
    <3>1. Take("VALID_FW") /\ UNCHANGED temp_image_num
      BY <2>6 DEF HandleValidFw, BeginValidFw, tempVars
    <3>2. 1 \in 1 .. Len(ioQueue) /\ ioQueue[1] = "VALID_FW" BY <1>0, <3>1, Taken
    <3>3. CheckPending BY <3>2 DEF CheckPending, Queued
    <3> QED BY <1>0, <3>1, <3>3 DEF RoomInv, RoomNeeded
  <2>7. CASE CompleteValidFw
    <3>1. Running /\ checking # {} /\ checking' = {} /\ UNCHANGED <<ioQueue, link>>
      BY <2>7 DEF CompleteValidFw, EndValidFw, appVars
    <3>2. CheckPending /\ ~CheckPending'
      BY <1>0, <3>1 DEF CheckPending, OrderInv, CheckOrder, Queued
    <3>3. CASE link # "down"
      <4>1. cst = "send" /\ wait = "VALID_FW"
        BY <1>0, <3>1, <3>2, <3>3 DEF OrderInv, CheckOrder
      <4> QED BY <2>0, <3>2, <4>1 DEF RoomInv, RoomNeeded
    <3>4. CASE link = "down"
      <4>1. cst = "off" /\ wait = "none" BY <1>0, <3>4 DEF ClientOff, PlanInv
      <4> QED BY <2>0, <3>2, <4>1 DEF RoomInv, RoomNeeded
    <3> QED BY <3>3, <3>4
  <2> QED BY <1>7, <2>2, <2>3, <2>4, <2>5, <2>6, <2>7 DEF DeviceTask, AppTask
<1>8. CASE TimerStep
  <2>1. UNCHANGED <<temp_image_num, checking, ioQueue, cst, wait>>
    BY <1>8, TimerMoves DEF serviceVars, tempVars, checkVars, clientVars
  <2>2. CheckPending' => CheckPending BY <1>0, <2>1, NoNewCheck
  <2> QED BY <1>1, <2>1, <2>2
<1>9. CASE ParamProcedure
  <2>1. UNCHANGED <<temp_image_num, checking, cst, wait>>
        /\ \E m \in {"PARAM_SUCCESS", "PARAM_FAIL"} : Post(m)
    BY <1>9 DEF ParamProcedure, ParamUpdated, serviceVars, tempVars, checkVars, clientVars
  <2>2. {"PARAM_SUCCESS", "PARAM_FAIL"} \subseteq AppMessage \ {"VALID_FW"} BY DEF AppMessage
  <2>3. CheckPending' => CheckPending BY <1>0, <2>1, <2>2, NoNewCheck
  <2> QED BY <1>1, <2>1, <2>3
<1>10. ASSUME NEW f, DeviceRestart(f), ClientGone PROVE RoomInv'
  <2>1. CASE RestartOld(f)
    <3>1. temp_image_num' = 0 BY <2>1 DEF RestartOld, ServiceReset
    <3> QED BY <1>0, <3>1 DEF RoomInv
  <2>2. CASE RestartNew(f)
    <3>1. UNCHANGED <<temp_image_num, checking, ioQueue>> /\ cst' = "off" /\ wait' = "none"
      BY <1>10, <2>2 DEF RestartNew, ClientGone, serviceVars, tempVars, checkVars
    <3>2. CheckPending' => CheckPending BY <1>0, <3>1, NoNewCheck
    <3> QED BY <1>0, <3>1, <3>2 DEF RoomInv, RoomNeeded
  <2> QED BY <1>10, <2>1, <2>2 DEF DeviceRestart
<1>11. CASE UNCHANGED vars
  <2>1. UNCHANGED <<temp_image_num, checking, ioQueue, cst, wait>>
    BY <1>11 DEF vars, deviceVars, serviceVars, tempVars, checkVars, appVars, clientVars
  <2>2. CheckPending' => CheckPending BY <1>0, <2>1, NoNewCheck
  <2> QED BY <1>1, <2>1, <2>2
<1> QED BY <1>3, <1>4, <1>5, <1>6, <1>7, <1>8, <1>9, <1>10, <1>11
        DEF Next, RestartAfterReset, PowerLoss

(* The check reads one entry from its begin to its end.                    *)
LEMMA CheckStep ==
  ASSUME TypeInv, [Next]_vars
  PROVE  CheckInv'
<1>1. CASE checking' = {} BY <1>1 DEF CheckInv
<1>2. CASE checking' = checking /\ checking # {}
  <2>1. UNCHANGED checkedVars BY <1>2, CheckUndisturbedStep DEF TypeInv
  <2>2. CurrentImageOffset' = CurrentImageOffset BY <2>1 DEF checkedVars, CurrentImageOffset
  <2> QED BY <1>2, <2>1, <2>2 DEF checkedVars, TypeInv, CheckInv
<1>3. CASE HandleValidFw
  <2>1. /\ checking' = {IF BankSwitch \/ image_id \in UserImages
                          THEN [img |-> image_id, off |-> 0]
                          ELSE [img |-> temp_image_info[temp_image_num].id,
                                off |-> CurrentImageOffset]}
        /\ UNCHANGED <<headVars, tempVars>>
    BY <1>3 DEF HandleValidFw, BeginValidFw
  <2>2. CurrentImageOffset' = CurrentImageOffset BY <2>1 DEF tempVars, CurrentImageOffset
  <2> QED BY <2>1, <2>2 DEF CheckInv, headVars, tempVars
<1>4. ASSUME UNCHANGED serviceVars PROVE checking' = checking
  BY <1>4 DEF serviceVars, checkVars
<1>5. CASE Connect BY <1>1, <1>2, <1>4, <1>5 DEF Connect, LinkUp
<1>6. CASE ClientStep
  <2>1. ASSUME SendHello PROVE checking' = checking
    BY <1>4, <2>1 DEF SendHello, WriteBufferCheckEn, BufferCheckEn, deviceVars, checkVars
  <2>2. ASSUME SendTargetInfo PROVE checking' = checking
    BY <2>2 DEF SendTargetInfo, WriteReportTargetInfo, ReportTargetInfo, checkVars
  <2>3. ASSUME SendStart PROVE checking' = checking
    BY <2>3 DEF SendStart, WriteStartDfu, StartDfu, checkVars
  <2>4. ASSUME SendImageInfo PROVE checking' = checking
    BY <2>4 DEF SendImageInfo, WriteReceiveFwImageInfo, ReceiveFwImageInfo, checkVars
  <2>5. ASSUME SendPacket PROVE checking' = checking
    BY <1>4, <2>5 DEF SendPacket, WritePacket, PacketReq, deviceVars, checkVars
  <2>6. ASSUME SendBufferCrc PROVE checking' = checking
    BY <2>6 DEF SendBufferCrc, WriteReportBufferCrc, BufferCheckProcess, checkVars
  <2>7. ASSUME SendValidFw PROVE checking' = checking
    BY <2>7 DEF SendValidFw, WriteValidFw, ValidFw, checkVars
  <2>8. ASSUME SendActiveImageReset PROVE checking' = checking
    BY <1>4, <2>8 DEF SendActiveImageReset, WriteActiveImageReset, ActiveImageReset
  <2>9. ASSUME SendSystemReset PROVE checking' = checking
    BY <1>4, <2>9 DEF SendSystemReset, WriteSystemReset, SystemReset
  <2>10. ASSUME ReceiveNotification PROVE checking' = checking
    BY <1>4, <2>10 DEF ReceiveNotification
  <2>11. checking' = checking
    BY <1>6, <2>1, <2>2, <2>3, <2>4, <2>5, <2>6, <2>7, <2>8, <2>9, <2>10 DEF ClientStep
  <2> QED BY <1>1, <1>2, <2>11
<1>7. CASE SendConnParaUpdateReq
  BY <1>1, <1>2, <1>4, <1>7 DEF SendConnParaUpdateReq, WriteConnParaUpdateReq
<1>8. CASE LoseLink BY <1>1, <1>2, <1>4, <1>8 DEF LoseLink, LinkDown
<1>9. CASE DeviceTask
  <2>1. CASE CompleteValidFw BY <1>1, <2>1 DEF CompleteValidFw, EndValidFw
  <2>2. CASE UNCHANGED serviceVars BY <1>1, <1>2, <1>4, <2>2
  <2> QED BY <1>3, <1>9, <2>1, <2>2 DEF DeviceTask, AppTask, HandleStackReady, HandleConnected,
          HandleDisconnected, HandleParamUpdate
<1>10. CASE TimerStep BY <1>1, <1>2, <1>4, <1>10, TimerMoves
<1>11. CASE ParamProcedure BY <1>1, <1>2, <1>4, <1>11 DEF ParamProcedure, ParamUpdated
<1>12. ASSUME NEW f, DeviceRestart(f) PROVE CheckInv'
  BY <1>1, <1>2, <1>4, <1>12 DEF DeviceRestart, RestartOld, RestartNew, ServiceReset
<1>13. CASE UNCHANGED vars BY <1>1, <1>2, <1>4, <1>13 DEF vars, deviceVars
<1> QED BY <1>5, <1>6, <1>7, <1>8, <1>9, <1>10, <1>11, <1>12, <1>13
        DEF Next, RestartAfterReset, PowerLoss

-----------------------------------------------------------------------------
LEMMA TypeInit == Init => TypeInv
<1> SUFFICES ASSUME Init PROVE TypeInv OBVIOUS
<1> USE DEF Init, DeviceInit, ServiceInit
<1>1. DeviceTypeOK
  <2>1. flash \in Flash
    <3>1. BlankFlash \in Flash BY DEF BlankFlash, Flash, Content, BpLevel
    <3>2. OldFlash \in Flash
      <4>1. {BankBase[i] : i \in Images} \subseteq Addr BY LayoutAssumption
      <4> QED BY <4>1 DEF OldFlash, Flash, Content, BpLevel
    <3>3. ASSUME NEW f \in Flash PROVE BootFlash(f) \in Flash
      <4> DEFINE g == [f EXCEPT !.bp = "locked", !.saved = "none"]
      <4>1. g \in Flash BY DEF Flash, BpLevel
      <4>2. BootFlash(f) = unlock_flash_bp_all(g) \/ BootFlash(f) = g BY DEF BootFlash
      <4> QED BY <4>1, <4>2, BpTyped
    <3> QED BY <3>1, <3>2, <3>3
  <2>2. temp_image_info \in [0 .. MaxTemp -> TempInfo] BY DEF NoInfo, TempInfo
  <2>3. tmp_buf \in Seq(Payload) /\ used <= BufSize /\ notif \in Seq(Notification)
    BY BufferAssumption DEF used
  <2>4. 0 \in 0 .. MaxTemp BY BufferAssumption
  <2> QED BY <2>1, <2>2, <2>3, <2>4 DEF DeviceTypeOK
<1>2. OrderInv BY OrderInit
<1>3. AppTypeOK
  <2>1. BootTimers \in [Timer -> TimerState] BY DEF BootTimers, TimerState
  <2> QED BY <1>2, <2>1 DEF AppTypeOK, OrderInv, Queues, Reset
<1>4. ClientTypeOK
  <2>1. plan \in Seq(Images) OBVIOUS
  <2> QED BY <2>1, ClientAssumption DEF ClientTypeOK, ClientState, Awaited
<1>5. PlanInv /\ ImageInv /\ CheckInv /\ ClientOff
  BY DEF PlanInv, ImageInv, CheckInv, ClientOff
<1>6. TempInv BY DEF TempInv, TempEntries
<1>7. RoomInv BY BufferAssumption DEF RoomInv
<1> QED BY <1>1, <1>2, <1>3, <1>4, <1>5, <1>6, <1>7 DEF TypeInv, TypeOK

LEMMA TypeNext == TypeInv /\ [Next]_vars => TypeInv'
<1> SUFFICES ASSUME TypeInv, [Next]_vars PROVE TypeInv' OBVIOUS
<1>1. OrderInv /\ ClientOff BY DEF TypeInv
<1>2. OrderInv' /\ ClientOff' BY <1>1, OrderNext, ClientOffStep
<1>3. DeviceInv' BY DeviceStep
<1> QED BY <1>2, <1>3, AppTypeStep, ClientTypeStep, PlanStep, RoomStep, CheckStep
        DEF TypeInv, TypeOK, DeviceInv

(* Every variable keeps its type, for every layout of the flash and every  *)
(* package: no packet overflows ota_temp_buffer_head, and temp_image_num   *)
(* stays in temp_image_info as long as the client stops at its end.        *)
THEOREM TypeTheorem == Spec => []TypeOK
<1>1. Init => TypeInv BY TypeInit
<1>2. TypeInv /\ [Next]_vars => TypeInv' BY TypeNext
<1>3. TypeInv => TypeOK BY DEF TypeInv
<1> QED BY <1>1, <1>2, <1>3, PTL DEF Spec

(* What dfu_service_handle_active_image would mark ready always lies in    *)
(* the flash: an entry of the temp bank counts only after its check, and   *)
(* the check saw the entry that is counted.                                *)
THEOREM ReadyHeadersTheorem == Spec => [](ReadyHeaders \in SUBSET Addr)
<1>1. TypeInv => ReadyHeaders \in SUBSET Addr
  BY HeadersInFlash DEF TypeInv, TypeOK
<1>2. Spec => []TypeInv BY TypeInit, TypeNext, PTL DEF Spec
<1> QED BY <1>1, <1>2, PTL



-----------------------------------------------------------------------------
(* The invariant.                                                          *)

(* A client that sends with buffer check has switched it on.               *)
ModeKept == sendMode = "check" /\ cst # "off" /\ ~Ready("hello") => buffer_check_en

(* A transfer begins at the start of the image, with nothing sent.         *)
StartsAtZero ==
  /\ cst \in {"start", "info"} => coff = 0 /\ chunk = 0
  /\ wait = "START" => cst = "start"

(* There is one answer at most to a buffer check, it is awaited, and what  *)
(* it reports is still true.                                               *)
AnswersCurrent ==
  /\ \A n \in 1 .. Len(notif) : notif[n].op = "TARGET_INFO" => notif[n].offset = 0
  /\ \A n, k \in 1 .. Len(notif) :
       notif[n].op = "BUFFER_CRC" /\ notif[k].op = "BUFFER_CRC" => n = k
  /\ Running => \A n \in 1 .. Len(notif) :
       notif[n].op = "BUFFER_CRC" => wait = "BUFFER_CRC" /\ notif[n].offset = cur_offset

WindowInv ==
  ModeKept /\ StartsAtZero /\ AnswersCurrent /\ ResendWindow /\ OffsetsAgree

(* The device receives the image the client sends.                         *)
SameImage ==
  /\ cst = "send" => image_id = img
  /\ wait = "START" \/ cst \in {"info", "send"} => image_total_length = Length[img]

(* Cell k of an image as it was sent, or damaged on its way.               *)
Sound(i, k) == {<<i, k>>, <<Noise, k>>}

(* A buffer as long as what was sent holds what was sent, or its damaged   *)
(* likeness; a shorter one has lost a cell.                                *)
BufferSound ==
  cst = "send" /\ sendMode = "check" /\ Running =>
    /\ cur_offset <= Length[img]
    /\ wait = "BUFFER_CRC" => tmp_buf = << >>
    /\ wait = "none" =>
         /\ used <= chunk /\ coff + chunk <= Length[img]
         /\ used = chunk => \A j \in 1 .. used : tmp_buf[j] \in Sound(img, coff + j - 1)

(* Without buffer check nothing may be lost; then the buffer follows the   *)
(* offset.                                                                 *)
StreamSound ==
  /\ wait = "BUFFER_CRC" => sendMode = "check"
  /\ Ready("send") /\ sendMode = "stream" /\ damage = 0 /\ Running /\ is_ota_procedure =>
       /\ coff + chunk = cur_offset + used
       /\ \A j \in 1 .. used : tmp_buf[j] \in Sound(img, cur_offset + j - 1)

(* The first n cells of image i are in the flash from the address a on.    *)
Prefix(fl, a, i, n) ==
  \A k \in 0 .. n - 1 : a + k \in Addr /\ fl.cells[a + k] \in Sound(i, k)
PrefixInFlash == Transferring => Prefix(flash, WriteBase, image_id, cur_offset)

TransferInv == SameImage /\ BufferSound /\ StreamSound /\ PrefixInFlash

(* A write does not fail, or its rollback erases where the image lies.     *)
FlashWrites ==
  used = chunk => \A mayFail \in {FALSE, MayFail} :
    \A u \in dfu_update(flash, image_id, cur_offset, CurrentImageOffset, tmp_buf, mayFail) : u.ok
RollbackInPlace == SendBufferCrc => CurrentImageOffset = 0 \/ FlashWrites

(* With two banks an image lies at the start of its bank.                  *)
NoPlace == \A n \in 0 .. MaxTemp : temp_image_info[n].offset = 0

PrefixInv == TransferInv /\ NoPlace

-----------------------------------------------------------------------------
(* The answers under way.                                                  *)

OtherAnswer ==
  notif' = notif \/ \E r : /\ r.op # "BUFFER_CRC"
                           /\ r.op = "TARGET_INFO" => r.offset = 0
                           /\ notif' = Append(notif, r)

LEMMA NotifyOtherAnswer ==
  ASSUME NEW op, NEW status, NEW offset, op # "BUFFER_CRC", op = "TARGET_INFO" => offset = 0,
         Notify(op, status, offset)
  PROVE  OtherAnswer
<1> DEFINE r == [op |-> op, status |-> status, offset |-> offset]
<1>1. r.op = op /\ r.offset = offset OBVIOUS
<1> QED BY <1>1 DEF Notify, OtherAnswer

LEMMA AnswersStep ==
  ASSUME OrderInv, AnswersCurrent, OtherAnswer, Running' => Running,
         UNCHANGED <<wait, cur_offset>> \/ wait # "BUFFER_CRC"
  PROVE  AnswersCurrent'
<1>1. \E R : notif \in Seq(R) BY DEF OrderInv, Queues
<1>2. CASE notif' = notif BY <1>2 DEF AnswersCurrent
<1>3. ASSUME NEW r, r.op # "BUFFER_CRC", r.op = "TARGET_INFO" => r.offset = 0,
             notif' = Append(notif, r)
      PROVE  AnswersCurrent'
  <2>1. /\ Len(notif) \in Nat /\ Len(notif') = Len(notif) + 1 /\ notif'[Len(notif) + 1] = r
        /\ \A n \in 1 .. Len(notif) : notif'[n] = notif[n]
    BY <1>1, <1>3, NotifAppend
  <2>2. \A n \in 1 .. Len(notif') :
          \/ n \in 1 .. Len(notif) /\ notif'[n] = notif[n]
          \/ notif'[n].op # "BUFFER_CRC" /\ (notif'[n].op = "TARGET_INFO" => notif'[n].offset = 0)
    BY <1>3, <2>1
  <2> QED BY <2>2 DEF AnswersCurrent
<1> QED BY <1>2, <1>3 DEF OtherAnswer

LEMMA BufferAnswered ==
  ASSUME OrderInv, AnswersCurrent, Running, wait = "none", wait' = "BUFFER_CRC",
         NEW r, r.op = "BUFFER_CRC", r.offset = cur_offset', notif' = Append(notif, r)
  PROVE  AnswersCurrent'
<1>1. \E R : notif \in Seq(R) BY DEF OrderInv, Queues
<1>2. /\ Len(notif) \in Nat /\ Len(notif') = Len(notif) + 1 /\ notif'[Len(notif) + 1] = r
      /\ \A n \in 1 .. Len(notif) : notif'[n] = notif[n]
  BY <1>1, NotifAppend
<1>3. \A n \in 1 .. Len(notif) : notif'[n].op # "BUFFER_CRC"
  BY <1>2 DEF AnswersCurrent
<1>4. \A n \in 1 .. Len(notif') : notif'[n].op = "BUFFER_CRC" => n = Len(notif) + 1
  BY <1>2, <1>3
<1>5. \A n \in 1 .. Len(notif') : notif'[n].op = "TARGET_INFO" => notif'[n].offset = 0
  BY <1>2 DEF AnswersCurrent
<1> QED BY <1>2, <1>4, <1>5 DEF AnswersCurrent

(* What the client is told is true when it is told.                        *)
LEMMA AnswerTaken ==
  ASSUME TypeInv, AnswersCurrent, ReceiveNotification
  PROVE  /\ AnswersCurrent'
         /\ Head(notif).op # "none"
         /\ Head(notif).op = "TARGET_INFO" => Head(notif).offset = 0
         /\ Head(notif).op = "BUFFER_CRC" => Head(notif).offset = cur_offset
<1>1. /\ Running /\ notif # << >> /\ notif' = Tail(notif)
      /\ UNCHANGED <<cur_offset, reset>>
      /\ wait' = wait \/ (Head(notif).op = wait /\ wait' = "none")
  BY DEF ReceiveNotification, Answered, serviceVars, xferVars, appVars
<1>2. OrderInv /\ \E R : notif \in Seq(R) BY DEF TypeInv, OrderInv, Queues
<1>3. /\ Len(notif) \in Nat /\ Len(notif) > 0 /\ Head(notif) = notif[1]
      /\ Len(notif') = Len(notif) - 1
      /\ \A n \in 1 .. Len(notif) - 1 : notif'[n] = notif[n + 1]
  BY <1>1, <1>2, QueueTail
<1>4. \A n \in 1 .. Len(notif') : n + 1 \in 1 .. Len(notif) /\ notif'[n] = notif[n + 1]
  BY <1>3
<1>5. 1 \in 1 .. Len(notif) BY <1>3
<1>6. \A n \in 1 .. Len(notif') : notif'[n].op = "TARGET_INFO" => notif'[n].offset = 0
  BY <1>4 DEF AnswersCurrent
<1>7. ASSUME NEW n \in 1 .. Len(notif'), NEW k \in 1 .. Len(notif'),
             notif'[n].op = "BUFFER_CRC", notif'[k].op = "BUFFER_CRC"
      PROVE  n = k
  <2>1. n + 1 = k + 1 BY <1>4, <1>7 DEF AnswersCurrent
  <2> QED BY <1>3, <1>7, <2>1
<1>8. ASSUME NEW n \in 1 .. Len(notif'), notif'[n].op = "BUFFER_CRC"
      PROVE  wait' = "BUFFER_CRC" /\ notif'[n].offset = cur_offset
  <2>1. wait = "BUFFER_CRC" /\ notif'[n].offset = cur_offset
    BY <1>1, <1>4, <1>8 DEF AnswersCurrent
  <2>2. n + 1 # 1 BY <1>3, <1>8
  <2>3. notif[1].op # "BUFFER_CRC" BY <1>4, <1>5, <1>8, <2>2 DEF AnswersCurrent
  <2> QED BY <1>1, <1>3, <2>1, <2>3
<1>9. AnswersCurrent' BY <1>1, <1>6, <1>7, <1>8 DEF AnswersCurrent
<1>10. Head(notif) \in Notification
  BY <1>1, AnswerTyped DEF TypeInv, TypeOK
<1>11. Head(notif).op # "none" BY <1>10 DEF Notification
<1> QED BY <1>1, <1>3, <1>5, <1>9, <1>11 DEF AnswersCurrent

-----------------------------------------------------------------------------
(* Sectors.                                                                *)

LEMMA Remainder ==
  ASSUME NEW a \in Nat
  PROVE  /\ a % SectorSize \in 0 .. SectorSize - 1 /\ a \div SectorSize \in Nat
         /\ a = SectorSize * (a \div SectorSize) + (a % SectorSize)
BY LayoutAssumption

LEMMA QuotientUnique ==
  ASSUME NEW q \in Nat, NEW r \in 0 .. SectorSize - 1
  PROVE  (SectorSize * q + r) % SectorSize = r
BY LayoutAssumption

LEMMA SectorGap ==
  ASSUME NEW a \in Int, NEW b \in Int, a < b
  PROVE  SectorSize * a + SectorSize <= SectorSize * b
<1>1. SectorSize * (b - a) >= SectorSize * 1 BY LayoutAssumption
<1> QED BY <1>1, LayoutAssumption

LEMMA AlignedSum ==
  ASSUME NEW a \in Nat, NEW b \in Nat, a % SectorSize = 0, b % SectorSize = 0
  PROVE  (a + b) % SectorSize = 0
<1> DEFINE q == (a \div SectorSize) + (b \div SectorSize)
<1>1. a = SectorSize * (a \div SectorSize) /\ b = SectorSize * (b \div SectorSize)
  BY Remainder, LayoutAssumption
<1>2. a + b = SectorSize * q + 0 BY <1>1, Remainder, LayoutAssumption
<1>3. q \in Nat /\ 0 \in 0 .. SectorSize - 1 BY Remainder, LayoutAssumption
<1> HIDE DEF q
<1> QED BY <1>2, <1>3, QuotientUnique

LEMMA AlignedNext ==
  ASSUME NEW a \in Nat, a % SectorSize = 0
  PROVE  (a + SectorSize) % SectorSize = 0
<1>1. SectorSize % SectorSize = 0 /\ SectorSize \in Nat BY LayoutAssumption
<1> QED BY <1>1, AlignedSum

(* The sector a write crosses into begins behind the start of the write.   *)
LEMMA CrossedSector ==
  ASSUME NEW a \in Nat, NEW n \in Nat, a \div SectorSize # (a + n) \div SectorSize
  PROVE  SectorFirst(a + n) > a
<1> DEFINE b == a + n
<1>1. /\ a = SectorSize * (a \div SectorSize) + (a % SectorSize)
      /\ a \div SectorSize \in Nat /\ a % SectorSize \in 0 .. SectorSize - 1
  BY Remainder
<1>2. /\ b = SectorSize * (b \div SectorSize) + (b % SectorSize)
      /\ b \div SectorSize \in Nat /\ b % SectorSize \in 0 .. SectorSize - 1
  BY Remainder
<1>3. CASE a \div SectorSize < b \div SectorSize
  <2>1. SectorSize * (a \div SectorSize) + SectorSize <= SectorSize * (b \div SectorSize)
    BY <1>1, <1>2, <1>3, SectorGap
  <2> QED BY <1>1, <1>2, <2>1, LayoutAssumption DEF SectorFirst
<1>4. CASE b \div SectorSize < a \div SectorSize
  <2>1. SectorSize * (b \div SectorSize) + SectorSize <= SectorSize * (a \div SectorSize)
    BY <1>1, <1>2, <1>4, SectorGap
  <2> QED BY <1>1, <1>2, <2>1, LayoutAssumption DEF SectorFirst
<1> QED BY <1>1, <1>2, <1>3, <1>4

-----------------------------------------------------------------------------
(* The window of a transfer, step by step.                                 *)

xferState == <<cur_offset, dfu_resend_offset, buffer_check_en, cst, wait, sendMode, coff, chunk>>

LEMMA WindowFrame ==
  ASSUME OrderInv, WindowInv, UNCHANGED xferState, OtherAnswer, Running' => Running
  PROVE  WindowInv'
<1> USE DEF xferState
<1>1. AnswersCurrent' BY AnswersStep DEF WindowInv
<1>2. ModeKept' /\ StartsAtZero' BY DEF WindowInv, ModeKept, StartsAtZero, Ready
<1>3. ResendWindow' /\ OffsetsAgree' BY DEF WindowInv, ResendWindow, OffsetsAgree
<1> QED BY <1>1, <1>2, <1>3 DEF WindowInv

(* The ways a buffer check ends.                                           *)
Checked(size, mayFail) ==
  \/ UNCHANGED <<cur_offset, dfu_resend_offset, flash>>
  \/ \E u \in dfu_update(flash, image_id, cur_offset, CurrentImageOffset, tmp_buf, mayFail) :
       /\ used = size \/ cur_offset + used = image_total_length
       /\ \/ u.ok /\ BufferWritten(u.fl)
          \/ ~u.ok /\ \E e \in EraseBack(u.fl, mayFail) :
               /\ flash' = e.fl /\ cur_offset' = dfu_resend_offset
               /\ dfu_resend_offset' = dfu_resend_offset

LEMMA BufferCheckEnds ==
  ASSUME NEW size, NEW crcOk, NEW mayFail, link = "up",
         BufferCheckProcess(size, crcOk, mayFail)
  PROVE  /\ tmp_buf' = << >>
         /\ UNCHANGED <<headVars, modeVars, tempVars, checkVars>>
         /\ \E r : r.op = "BUFFER_CRC" /\ r.offset = cur_offset' /\ notif' = Append(notif, r)
         /\ Checked(size, mayFail)
<1> DEFINE Answer == \E r : r.op = "BUFFER_CRC" /\ r.offset = cur_offset' /\ notif' = Append(notif, r)
<1>1. ASSUME NEW status, NEW offset, Notify("BUFFER_CRC", status, offset), offset = cur_offset'
      PROVE  Answer
  <2> DEFINE r == [op |-> "BUFFER_CRC", status |-> status, offset |-> offset]
  <2>1. r.op = "BUFFER_CRC" /\ r.offset = cur_offset' BY <1>1
  <2>2. notif' = Append(notif, r) BY <1>1 DEF Notify
  <2> QED BY <2>1, <2>2
<1>2. ASSUME NEW status, FlushBuffer(status)
      PROVE  tmp_buf' = << >> /\ Answer /\ Checked(size, mayFail)
  BY <1>1, <1>2 DEF FlushBuffer, Checked
<1>3. ASSUME NEW u \in dfu_update(flash, image_id, cur_offset, CurrentImageOffset, tmp_buf, mayFail),
             u.ok, BufferWritten(u.fl), used = size \/ cur_offset + used = image_total_length
      PROVE  tmp_buf' = << >> /\ Answer /\ Checked(size, mayFail)
  <2>1. Checked(size, mayFail) BY <1>3 DEF Checked
  <2>2. tmp_buf' = << >> /\ Answer BY <1>1, <1>3 DEF BufferWritten
  <2> QED BY <2>1, <2>2
<1>4. ASSUME NEW u \in dfu_update(flash, image_id, cur_offset, CurrentImageOffset, tmp_buf, mayFail),
             ~u.ok, used = size \/ cur_offset + used = image_total_length,
             NEW e \in EraseBack(u.fl, mayFail), BufferRolledBack(e.fl, e.ok)
      PROVE  tmp_buf' = << >> /\ Answer /\ Checked(size, mayFail)
  <2>1. Checked(size, mayFail) BY <1>4 DEF Checked, BufferRolledBack
  <2>2. tmp_buf' = << >> /\ Answer BY <1>1, <1>4 DEF BufferRolledBack
  <2> QED BY <2>1, <2>2
<1> HIDE DEF Answer
<1>5. UNCHANGED <<headVars, modeVars, tempVars, checkVars>> BY DEF BufferCheckProcess
<1>6. tmp_buf' = << >> /\ Answer /\ Checked(size, mayFail)
  BY <1>2, <1>3, <1>4 DEF BufferCheckProcess
<1> QED BY <1>5, <1>6 DEF Answer

(* A buffer that is written, or rolled back, leaves the resend point at    *)
(* the start of the sector under way.                                      *)
LEMMA WindowMoves ==
  ASSUME DeviceTypeOK, NEW size, NEW mayFail, Checked(size, mayFail),
         dfu_resend_offset % SectorSize = 0, dfu_resend_offset <= cur_offset,
         cur_offset < dfu_resend_offset + SectorSize
  PROVE  /\ dfu_resend_offset' % SectorSize = 0 /\ dfu_resend_offset' <= cur_offset'
         /\ cur_offset' < dfu_resend_offset' + SectorSize
<1>1. /\ cur_offset \in Nat /\ dfu_resend_offset \in Nat /\ used \in Nat /\ used <= BufSize
      /\ SectorSize \in Nat /\ SectorSize > 0 /\ BufSize \in Nat /\ BufSize <= SectorSize
  BY BufferAssumption, LayoutAssumption DEF DeviceTypeOK, used
<1>2. CASE UNCHANGED <<cur_offset, dfu_resend_offset>> BY <1>2
<1>3. CASE cur_offset' = dfu_resend_offset /\ dfu_resend_offset' = dfu_resend_offset
  BY <1>1, <1>3
<1>4. ASSUME NEW fl, BufferWritten(fl)
      PROVE  /\ dfu_resend_offset' % SectorSize = 0 /\ dfu_resend_offset' <= cur_offset'
             /\ cur_offset' < dfu_resend_offset' + SectorSize
  <2>1. /\ cur_offset' = cur_offset + used
        /\ dfu_resend_offset' = IF BeyondResend(cur_offset + used, SectorSize)
                                  THEN dfu_resend_offset + SectorSize ELSE dfu_resend_offset
    BY <1>4 DEF BufferWritten
  <2> HIDE DEF used
  <2>2. CASE BeyondResend(cur_offset + used, SectorSize)
    <3>1. dfu_resend_offset' % SectorSize = 0 BY <1>1, <2>1, <2>2, AlignedNext
    <3>2. cur_offset + used >= dfu_resend_offset + SectorSize BY <1>1, <2>2 DEF BeyondResend
    <3> QED BY <1>1, <2>1, <2>2, <3>1, <3>2
  <2>3. CASE ~BeyondResend(cur_offset + used, SectorSize)
    BY <1>1, <2>1, <2>3 DEF BeyondResend
  <2> QED BY <2>2, <2>3
<1> QED BY <1>2, <1>3, <1>4 DEF Checked

LEMMA BufferCrcKeepsWindow ==
  ASSUME TypeInv, WindowInv, SendBufferCrc
  PROVE  WindowInv'
<1>1. PICK crcOk, mayFail : WriteReportBufferCrc(chunk, crcOk, mayFail) BY DEF SendBufferCrc
<1>2. /\ Ready("send") /\ sendMode = "check" /\ Running /\ link = "up"
      /\ BufferCheckProcess(chunk, crcOk, mayFail) /\ wait' = "BUFFER_CRC"
      /\ UNCHANGED <<cst, sendMode, coff, chunk, reset>>
  BY <1>1 DEF SendBufferCrc, ChunkFull, WriteReportBufferCrc, appVars
<1>3. /\ UNCHANGED modeVars /\ Checked(chunk, mayFail)
      /\ \E r : r.op = "BUFFER_CRC" /\ r.offset = cur_offset' /\ notif' = Append(notif, r)
  BY <1>2, BufferCheckEnds
<1>4. AnswersCurrent' BY <1>2, <1>3, BufferAnswered DEF WindowInv, Ready, TypeInv
<1>5. ResendWindow'
  BY <1>2, <1>3, WindowMoves DEF WindowInv, ResendWindow, Ready, TypeInv, TypeOK
<1>6. ModeKept' /\ StartsAtZero' /\ OffsetsAgree'
  BY <1>2, <1>3 DEF WindowInv, ModeKept, StartsAtZero, OffsetsAgree, Ready, modeVars
<1> QED BY <1>4, <1>5, <1>6 DEF WindowInv

(* Data packets move nothing the buffer check works with.                  *)
LEMMA PacketKeepsWindow ==
  ASSUME TypeInv, WindowInv, SendPacket
  PROVE  WindowInv'
<1>1. /\ Ready("send") /\ UNCHANGED <<cst, wait, sendMode, coff>>
  BY DEF SendPacket
<1>2. CASE UNCHANGED deviceVars
  <2>1. UNCHANGED <<cur_offset, dfu_resend_offset, buffer_check_en, notif, reset>>
    BY <1>2 DEF deviceVars, serviceVars, xferVars, modeVars, appVars
  <2>2. AnswersCurrent' BY <1>1, <2>1, AnswersStep DEF WindowInv, OtherAnswer, Running, TypeInv
  <2> QED BY <1>1, <2>1, <2>2
          DEF WindowInv, ModeKept, StartsAtZero, ResendWindow, OffsetsAgree, Ready, Running
<1>3. ASSUME NEW cell, NEW mayFail, WritePacket(cell, mayFail) PROVE WindowInv'
  <2>1. PICK reboot \in BOOLEAN : PacketReq(cell, reboot, mayFail) BY <1>3 DEF WritePacket
  <2>2. /\ Running /\ UNCHANGED <<modeVars, notif>> BY <1>3, <2>1 DEF WritePacket, PacketReq
  <2>3. UNCHANGED <<cur_offset, dfu_resend_offset>> \/ ~buffer_check_en
    BY <2>1 DEF PacketReq, PacketIgnored, PacketBuffered, PacketStreamed, xferVars
  <2>4. sendMode = "check" => UNCHANGED <<cur_offset, dfu_resend_offset>>
    BY <1>1, <2>3 DEF WindowInv, ModeKept, Ready
  <2>5. AnswersCurrent'
    BY <1>1, <2>2, AnswersStep DEF WindowInv, OtherAnswer, Ready, TypeInv
  <2> QED BY <1>1, <2>2, <2>4, <2>5
          DEF WindowInv, ModeKept, StartsAtZero, ResendWindow, OffsetsAgree, Ready, Running, modeVars
<1> QED BY <1>2, <1>3 DEF SendPacket

(* An answer moves the client to where the device is.                      *)
LEMMA AnswerKeepsWindow ==
  ASSUME TypeInv, WindowInv, ReceiveNotification
  PROVE  WindowInv'
<1>1. /\ Running /\ UNCHANGED <<cur_offset, dfu_resend_offset, buffer_check_en, sendMode, reset>>
      /\ \/ Head(notif).op = wait /\ Answered(Head(notif))
         \/ UNCHANGED <<cst, wait, coff, chunk>>
  BY DEF ReceiveNotification, serviceVars, xferVars, modeVars, appVars
<1>2. /\ AnswersCurrent' /\ Head(notif).op # "none"
      /\ Head(notif).op = "TARGET_INFO" => Head(notif).offset = 0
      /\ Head(notif).op = "BUFFER_CRC" => Head(notif).offset = cur_offset
  BY AnswerTaken DEF WindowInv
<1>3. CASE UNCHANGED <<cst, wait, coff, chunk>>
  BY <1>1, <1>2, <1>3
     DEF WindowInv, ModeKept, StartsAtZero, ResendWindow, OffsetsAgree, Ready, Running
<1>4. CASE Head(notif).op = wait /\ Answered(Head(notif))
  <2>1. wait # "none" /\ wait' = "none" /\ chunk' = 0 BY <1>2, <1>4 DEF Answered
  <2>2. /\ cst \in {"hello", "pick", "start", "send"} /\ OffsetsAgree
        /\ wait \in {"BUFFER_CRC", "VALID_FW"} => cst = "send"
    BY <2>1 DEF TypeInv, PlanInv, WindowInv
  <2>3. ModeKept' BY <1>1, <2>1, <2>2 DEF WindowInv, ModeKept, Ready
  <2>4. StartsAtZero'
    <3>1. CASE cst' = "start" BY <1>2, <1>4, <2>1, <3>1 DEF Answered, StartsAtZero
    <3>2. CASE cst' = "info"
      <4>1. wait = "START" /\ coff' = coff BY <1>4, <3>2 DEF Answered
      <4>2. cst = "start" /\ coff = 0 BY <4>1 DEF WindowInv, StartsAtZero
      <4> QED BY <2>1, <3>2, <4>1, <4>2 DEF StartsAtZero
    <3> QED BY <2>1, <3>1, <3>2 DEF StartsAtZero
  <2>5. cst' = "send" => wait = "BUFFER_CRC" /\ coff' = cur_offset
    BY <1>2, <1>4 DEF Answered
  <2>6. ResendWindow' BY <1>1, <2>2, <2>5 DEF WindowInv, ResendWindow
  <2>7. OffsetsAgree' BY <1>1, <2>5 DEF OffsetsAgree
  <2> QED BY <1>2, <2>3, <2>4, <2>6, <2>7 DEF WindowInv
<1> QED BY <1>1, <1>3, <1>4

(* The other requests: a transfer starts with the device at the offset 0,  *)
(* where the client is.                                                    *)
LEMMA StartsKeepWindow ==
  ASSUME TypeInv, WindowInv, SendHello \/ SendTargetInfo \/ SendStart \/ SendImageInfo
  PROVE  WindowInv'
<1>1. OrderInv /\ PlanInv BY DEF TypeInv
<1>2. CASE SendHello
  <2>1. UNCHANGED <<cur_offset, dfu_resend_offset, sendMode, coff, chunk, reset>>
    BY <1>2 DEF SendHello, WriteBufferCheckEn, BufferCheckEn, deviceVars, serviceVars, xferVars,
                appVars
  <2>2. /\ wait = "none" /\ cst = "hello" /\ OtherAnswer /\ wait' # "START"
        /\ \/ buffer_check_en' /\ cst' = "hello"
           \/ sendMode = "stream" /\ cst' = "pick"
    BY <1>2, NotifyOtherAnswer
       DEF SendHello, WriteBufferCheckEn, BufferCheckEn, Ready, deviceVars, OtherAnswer
  <2>3. AnswersCurrent' BY <1>1, <2>1, <2>2, AnswersStep DEF WindowInv, Running
  <2> QED BY <2>1, <2>2, <2>3
          DEF WindowInv, ModeKept, StartsAtZero, ResendWindow, OffsetsAgree, Ready
<1>3. CASE SendTargetInfo
  <2>1. UNCHANGED <<buffer_check_en, cst, sendMode, coff, chunk, reset>>
    BY <1>3 DEF SendTargetInfo, WriteReportTargetInfo, ReportTargetInfo, modeVars, appVars
  <2>2. wait = "none" /\ cst = "pick" /\ OtherAnswer /\ wait' = "TARGET_INFO"
    BY <1>3, NotifyOtherAnswer
       DEF SendTargetInfo, WriteReportTargetInfo, ReportTargetInfo, Ready
  <2>3. AnswersCurrent' BY <1>1, <2>1, <2>2, AnswersStep DEF WindowInv, Running
  <2> QED BY <2>1, <2>2, <2>3
          DEF WindowInv, ModeKept, StartsAtZero, ResendWindow, OffsetsAgree, Ready
<1>4. CASE SendStart
  <2>1. /\ UNCHANGED <<cur_offset, buffer_check_en, sendMode, coff, chunk, reset>>
        /\ wait = "none" /\ cst \in {"start", "info"} /\ cst' = "start" /\ wait' = "START"
    BY <1>4 DEF SendStart, WriteStartDfu, StartDfu, Ready, xferVars
  <2>2. OtherAnswer
    BY <1>4, NotifyOtherAnswer DEF SendStart, WriteStartDfu, StartDfu
  <2>3. AnswersCurrent' BY <1>1, <2>1, <2>2, AnswersStep DEF WindowInv, Running
  <2> QED BY <2>1, <2>3
          DEF WindowInv, ModeKept, StartsAtZero, ResendWindow, OffsetsAgree, Ready
<1>5. CASE SendImageInfo
  <2>1. /\ UNCHANGED <<buffer_check_en, notif, wait, sendMode, coff, chunk, reset>>
        /\ wait = "none" /\ cst = "info" /\ cst' = "send"
        /\ cur_offset' = coff /\ (coff = 0 => dfu_resend_offset' = 0)
    BY <1>5 DEF SendImageInfo, WriteReceiveFwImageInfo, ReceiveFwImageInfo, Ready, modeVars,
                appVars
  <2>2. coff = 0 BY <2>1 DEF WindowInv, StartsAtZero
  <2>3. 0 % SectorSize = 0 /\ 0 < 0 + SectorSize BY LayoutAssumption
  <2>4. AnswersCurrent' BY <1>1, <2>1, AnswersStep DEF WindowInv, Running, OtherAnswer
  <2>5. ModeKept' /\ StartsAtZero' BY <2>1 DEF WindowInv, ModeKept, StartsAtZero, Ready
  <2>6. ResendWindow' /\ OffsetsAgree' BY <2>1, <2>2, <2>3 DEF ResendWindow, OffsetsAgree
  <2> QED BY <2>4, <2>5, <2>6 DEF WindowInv
<1> QED BY <1>2, <1>3, <1>4, <1>5

LEMMA EndsKeepWindow ==
  ASSUME TypeInv, WindowInv, SendValidFw \/ SendActiveImageReset \/ SendSystemReset
  PROVE  WindowInv'
<1>1. OrderInv /\ PlanInv BY DEF TypeInv
<1>2. /\ UNCHANGED <<cur_offset, dfu_resend_offset, buffer_check_en, sendMode, coff, chunk, notif>>
      /\ Running' => Running
  BY DEF SendValidFw, WriteValidFw, ValidFw, SendActiveImageReset, WriteActiveImageReset,
         ActiveImageReset, SendSystemReset, WriteSystemReset, SystemReset, serviceVars, xferVars,
         modeVars, Running
<1>3. /\ wait = "none" /\ cst \in {"send", "valid", "abort"}
      /\ (cst' = cst /\ wait' = "VALID_FW") \/ (cst' = "end" /\ wait' = wait)
  BY DEF SendValidFw, SendActiveImageReset, SendSystemReset, Ready
<1>4. AnswersCurrent' BY <1>1, <1>2, <1>3, AnswersStep DEF WindowInv, OtherAnswer
<1> QED BY <1>2, <1>3, <1>4
        DEF WindowInv, ModeKept, StartsAtZero, ResendWindow, OffsetsAgree, Ready

(* What the device does by itself.                                         *)
LEMMA DeviceKeepsWindow ==
  ASSUME TypeInv, WindowInv,
         DeviceTask \/ TimerStep \/ ParamProcedure \/ SendConnParaUpdateReq \/ UNCHANGED vars
  PROVE  WindowInv'
<1>1. OrderInv BY DEF TypeInv
<1>2. CASE DeviceTask
  <2>1. UNCHANGED xferState /\ (Running' => Running)
    BY <1>2 DEF DeviceTask, AppTask, HandleStackReady, HandleConnected, HandleDisconnected,
         HandleParamUpdate, HandleValidFw, CompleteValidFw, BeginValidFw, EndValidFw, Take,
         serviceVars, xferVars, modeVars, appVars, xferState, clientVars, Running
  <2>2. OtherAnswer
    BY <1>2, NotifyOtherAnswer
       DEF DeviceTask, AppTask, HandleStackReady, HandleConnected, HandleDisconnected,
         HandleParamUpdate, HandleValidFw, CompleteValidFw, BeginValidFw, EndValidFw, OtherAnswer
  <2> QED BY <1>1, <2>1, <2>2, WindowFrame
<1>3. CASE TimerStep
  <2>1. UNCHANGED <<xferState, notif>> /\ Running
    BY <1>3, TimerMoves DEF serviceVars, xferVars, modeVars, xferState, clientVars
  <2> QED BY <1>1, <2>1, WindowFrame DEF OtherAnswer
<1>4. CASE ParamProcedure
  <2>1. UNCHANGED <<xferState, notif>> /\ Running
    BY <1>4 DEF ParamProcedure, ParamUpdated, serviceVars, xferVars, modeVars, xferState,
                clientVars
  <2> QED BY <1>1, <2>1, WindowFrame DEF OtherAnswer
<1>5. CASE SendConnParaUpdateReq
  <2>1. UNCHANGED xferState /\ Running
    BY <1>5 DEF SendConnParaUpdateReq, WriteConnParaUpdateReq, serviceVars, xferVars, modeVars,
                xferState, clientVars
  <2>2. OtherAnswer
    BY <1>5, NotifyOtherAnswer DEF SendConnParaUpdateReq, WriteConnParaUpdateReq, OtherAnswer
  <2> QED BY <1>1, <2>1, <2>2, WindowFrame
<1>6. CASE UNCHANGED vars
  <2>1. UNCHANGED <<xferState, notif, reset>>
    BY <1>6 DEF vars, deviceVars, serviceVars, xferVars, modeVars, xferState, clientVars, appVars
  <2> QED BY <1>1, <2>1, WindowFrame DEF OtherAnswer, Running
<1> QED BY <1>2, <1>3, <1>4, <1>5, <1>6

LEMMA ClientGoneKeepsWindow ==
  ASSUME AnswersCurrent, ClientGone, notif' = << >> \/ (notif' = notif /\ ~Running')
  PROVE  WindowInv'
<1>1. AnswersCurrent' BY DEF AnswersCurrent
<1>2. cst' = "off" /\ wait' = "none" BY DEF ClientGone
<1> QED BY <1>1, <1>2 DEF WindowInv, ModeKept, StartsAtZero, ResendWindow, OffsetsAgree

LEMMA LinkKeepsWindow ==
  ASSUME TypeInv, WindowInv, Connect \/ LoseLink \/ RestartAfterReset \/ PowerLoss
  PROVE  WindowInv'
<1>1. OrderInv /\ PlanInv BY DEF TypeInv
<1>2. CASE Connect
  <2>1. /\ UNCHANGED <<cur_offset, wait, notif, reset>> /\ coff' = 0 /\ chunk' = 0
        /\ cst = "off" /\ cst' = "hello"
    BY <1>2 DEF Connect, LinkUp, serviceVars, xferVars
  <2>2. wait = "none" BY <1>1, <2>1 DEF PlanInv
  <2>3. AnswersCurrent' BY <1>1, <2>1, AnswersStep DEF WindowInv, OtherAnswer, Running
  <2> QED BY <2>1, <2>2, <2>3
          DEF WindowInv, ModeKept, StartsAtZero, ResendWindow, OffsetsAgree, Ready
<1>3. CASE LoseLink BY <1>3, ClientGoneKeepsWindow DEF LoseLink, LinkDown, WindowInv
<1>4. ASSUME NEW f, DeviceRestart(f), ClientGone PROVE WindowInv'
  <2>1. notif' = << >> \/ (notif' = notif /\ ~Running')
    BY <1>4 DEF DeviceRestart, RestartNew, RestartOld, Running
  <2> QED BY <1>4, <2>1, ClientGoneKeepsWindow DEF WindowInv
<1> QED BY <1>2, <1>3, <1>4 DEF RestartAfterReset, PowerLoss

LEMMA WindowInit == Init => WindowInv
<1> SUFFICES ASSUME Init PROVE WindowInv OBVIOUS
<1>1. cst = "off" /\ wait = "none" /\ notif = << >> BY DEF Init, DeviceInit
<1> QED BY <1>1
        DEF WindowInv, ModeKept, StartsAtZero, AnswersCurrent, ResendWindow, OffsetsAgree

LEMMA WindowNext == TypeInv /\ WindowInv /\ [Next]_vars => WindowInv'
<1> SUFFICES ASSUME TypeInv, WindowInv, [Next]_vars PROVE WindowInv' OBVIOUS
<1>1. CASE ClientStep
  BY <1>1, BufferCrcKeepsWindow, PacketKeepsWindow, AnswerKeepsWindow, StartsKeepWindow,
     EndsKeepWindow DEF ClientStep
<1> QED BY <1>1, DeviceKeepsWindow, LinkKeepsWindow DEF Next

LEMMA WindowInvariant == Spec => [](TypeInv /\ WindowInv)
<1>1. Init => TypeInv /\ WindowInv BY TypeInit, WindowInit
<1>2. TypeInv /\ WindowInv /\ [Next]_vars => (TypeInv /\ WindowInv)'
  BY TypeNext, WindowNext
<1> QED BY <1>1, <1>2, PTL DEF Spec

(* While a transfer with buffer check goes on, the resend point is the     *)
(* start of the sector that the next cell goes to, whatever was resent,    *)
(* rolled back or begun again: the erase after a failed write reaches      *)
(* nothing that was acknowledged before it.                                *)
THEOREM ResendWindowTheorem == Spec => []ResendWindow
<1>1. TypeInv /\ WindowInv => ResendWindow BY DEF WindowInv
<1> QED BY <1>1, WindowInvariant, PTL

(* Whenever no answer is under way the client of a transfer with buffer    *)
(* check continues at the offset where the device is, whatever was lost,   *)
(* refused or rolled back.                                                 *)
THEOREM OffsetsAgreeTheorem == Spec => []OffsetsAgree
<1>1. TypeInv /\ WindowInv => OffsetsAgree BY DEF WindowInv
<1> QED BY <1>1, WindowInvariant, PTL

-----------------------------------------------------------------------------
(* What an erase, a program and a whole update leave alone.                *)

LEMMA SameCells ==
  ASSUME NEW f \in Flash
  PROVE  unlock_flash_bp_all(f).cells = f.cells /\ lock_flash_bp(f).cells = f.cells
BY DEF unlock_flash_bp_all, lock_flash_bp, Flash

LEMMA AlignedFirst ==
  ASSUME NEW a \in Nat, a % SectorSize = 0
  PROVE  SectorFirst(a) = a
BY DEF SectorFirst

LEMMA FirstTyped ==
  ASSUME NEW a \in Nat
  PROVE  SectorFirst(a) \in Int
BY Remainder DEF SectorFirst

LEMMA EraseBelow ==
  ASSUME NEW f \in Flash, NEW a \in Nat, NEW mayFail, NEW e \in flash_erase_sector(f, a, mayFail),
         NEW b \in Addr, b < SectorFirst(a)
  PROVE  e.fl.cells[b] = f.cells[b]
<1>1. b \notin Sector(a) /\ b \in Int /\ SectorFirst(a) \in Int
  BY Remainder, LayoutAssumption DEF Sector, SectorFirst, Addr
<1>2. ASSUME NEW c PROVE Overwritten(f, a, c).cells[b] = f.cells[b]
  BY <1>1, FlashRecord DEF Overwritten, Flash
<1>3. \/ e.fl = Overwritten(f, a, Blank) \/ e.fl = f \/ e.fl = Overwritten(f, a, Junk)
  BY DEF flash_erase_sector
<1> QED BY <1>2, <1>3

LEMMA ProgramBelow ==
  ASSUME NEW f \in Flash, NEW a \in Nat, NEW d, NEW b \in Addr, b < a
  PROVE  Programmed(f, a, d).cells[b] = f.cells[b]
<1>1. b \notin a .. a + Len(d) - 1 BY DEF Addr
<1> QED BY <1>1 DEF Programmed, Flash

LEMMA WriteBelow ==
  ASSUME NEW f \in Flash, NEW a \in Nat, NEW d \in Seq(Payload), NEW mayFail,
         NEW w \in dfu_write(f, a, d, mayFail)
  PROVE  /\ \A b \in Addr : b < a => w.fl.cells[b] = f.cells[b]
         /\ w.ok => ReadsBack(w.fl, a, d)
<1>1. CASE w = [fl |-> Programmed(f, a, d), ok |-> ReadsBack(Programmed(f, a, d), a, d)]
  BY <1>1, ProgramBelow
<1>2. ASSUME NEW j \in 0 .. Len(d) - 1,
             w = [fl |-> [Programmed(f, a, SubSeq(d, 1, j)) EXCEPT !.cells[a + j] = Junk],
                  ok |-> FALSE]
      PROVE  /\ \A b \in Addr : b < a => w.fl.cells[b] = f.cells[b]
             /\ ~w.ok
  <2> DEFINE g == Programmed(f, a, SubSeq(d, 1, j))
  <2>1. SubSeq(d, 1, j) \in Seq(Payload) /\ a \in Int BY <1>2
  <2>2. g \in Flash BY <2>1, ProgramTyped
  <2>3. \A b \in Addr : b < a => g.cells[b] = f.cells[b] BY ProgramBelow
  <2> HIDE DEF g
  <2>4. \A b \in Addr : b < a => b # a + j BY DEF Addr
  <2>5. \A b \in Addr : b < a => [g EXCEPT !.cells[a + j] = Junk].cells[b] = g.cells[b]
    BY <2>2, <2>4, FlashRecord DEF Flash
  <2>6. w.fl = [g EXCEPT !.cells[a + j] = Junk] /\ ~w.ok BY <1>2 DEF g
  <2> QED BY <2>3, <2>5, <2>6
<1> QED BY <1>1, <1>2 DEF dfu_write

LEMMA CellRead ==
  ASSUME NEW f, NEW a \in Nat, NEW d \in Seq(Payload), ReadsBack(f, a, d), NEW k \in 0 .. Len(d) - 1
  PROVE  f.cells[a + k] = d[k + 1]
<1>1. Len(d) \in Nat OBVIOUS
<1>2. a + k \in a .. a + Len(d) - 1 /\ a + k - a + 1 = k + 1 BY <1>1
<1> QED BY <1>2 DEF ReadsBack

LEMMA CellInBank ==
  ASSUME NEW base \in Nat, NEW size \in Nat, base + size <= FlashSize, NEW offset \in Nat,
         NEW n \in Nat, offset + n <= size, NEW k \in 0 .. n - 1
  PROVE  base + offset + k \in Addr
BY LayoutAssumption DEF Addr

LEMMA BehindTyped ==
  ASSUME NEW a \in Nat, NEW n \in Nat
  PROVE  a + n \in Nat /\ SectorFirst(a + n) \in Int
BY FirstTyped

(* An update that fails or succeeds changes nothing before its place; one  *)
(* that succeeds lies inside the bank and leaves its data there.           *)
LEMMA UpdateBelow ==
  ASSUME NEW f \in Flash, NEW i \in Images, NEW offset \in Nat, NEW total \in Nat,
         NEW d \in Seq(Payload), NEW mayFail,
         NEW u \in dfu_update(f, i, offset, total, d, mayFail),
         NEW start, start = BankBase[i] + offset + total
  PROVE  /\ \A b \in Addr : b < start => u.fl.cells[b] = f.cells[b]
         /\ u.ok => \A k \in 0 .. Len(d) - 1 :
              start + k \in Addr /\ u.fl.cells[start + k] = d[k + 1]
<1> DEFINE open == unlock_flash_bp_all(f)
           erased == IF SectorToErase(start, Len(d)) = {}
                       THEN {[fl |-> open, ok |-> TRUE]}
                       ELSE UNION {flash_erase_sector(open, a, mayFail)
                                     : a \in SectorToErase(start, Len(d))}
           checks == check_dfu_update_image_length(i, offset + total, d)
<1>1. start \in Nat /\ offset + total \in Nat /\ start = BankBase[i] + (offset + total)
  <2>1. BankBase[i] \in Nat BY LayoutAssumption
  <2> QED BY <2>1
<1>2. open \in Flash /\ open.cells = f.cells BY BpTyped, SameCells
<1>3. ASSUME NEW a \in SectorToErase(start, Len(d))
      PROVE  a \in Nat /\ SectorFirst(a) >= start
  <2>1. CASE a = start /\ start % SectorSize = 0 BY <1>1, <2>1, AlignedFirst
  <2>2. CASE a = start + Len(d) /\ start \div SectorSize # (start + Len(d)) \div SectorSize
    <3>1. SectorFirst(start + Len(d)) > start BY <1>1, <2>2, CrossedSector
    <3>2. a \in Nat /\ SectorFirst(a) \in Int
      <4>1. Len(d) \in Nat OBVIOUS
      <4> QED BY <1>1, <2>2, <4>1, BehindTyped
    <3> QED BY <1>1, <2>2, <3>1, <3>2
  <2> QED BY <1>3, <2>1, <2>2 DEF SectorToErase
<1>4. ASSUME NEW e \in erased
      PROVE  e.fl \in Flash /\ \A b \in Addr : b < start => e.fl.cells[b] = f.cells[b]
  <2>1. CASE e = [fl |-> open, ok |-> TRUE] BY <1>2, <2>1
  <2>2. ASSUME NEW a \in SectorToErase(start, Len(d)), e \in flash_erase_sector(open, a, mayFail)
        PROVE  e.fl \in Flash /\ \A b \in Addr : b < start => e.fl.cells[b] = f.cells[b]
    <3> HIDE DEF open
    <3>1. e \in Outcome BY <1>2, <2>2, EraseTyped
    <3>2. a \in Nat /\ SectorFirst(a) \in Int /\ SectorFirst(a) >= start
      BY <1>3, <2>2, FirstTyped
    <3>3. \A b \in Addr : b < start => b < SectorFirst(a) BY <1>1, <3>2 DEF Addr
    <3> QED BY <1>2, <2>2, <3>1, <3>2, <3>3, EraseBelow DEF Outcome
  <2> QED BY <1>4, <2>1, <2>2
<1>5. \/ u = [fl |-> f, ok |-> FALSE]
      \/ u \in erased /\ ~u.ok
      \/ /\ TRUE \in checks
         /\ \E e \in erased : \E w \in dfu_write(e.fl, start, d, mayFail) :
              u = [fl |-> lock_flash_bp(w.fl), ok |-> w.ok]
  BY DEF dfu_update
<1> HIDE DEF erased, checks, open
<1>6. CASE u = [fl |-> f, ok |-> FALSE] BY <1>6
<1>7. CASE u \in erased /\ ~u.ok BY <1>1, <1>4, <1>7
<1>8. ASSUME TRUE \in checks, NEW e \in erased, NEW w \in dfu_write(e.fl, start, d, mayFail),
             u = [fl |-> lock_flash_bp(w.fl), ok |-> w.ok]
      PROVE  /\ \A b \in Addr : b < start => u.fl.cells[b] = f.cells[b]
             /\ u.ok => \A k \in 0 .. Len(d) - 1 :
                  start + k \in Addr /\ u.fl.cells[start + k] = d[k + 1]
  <2>1. e.fl \in Flash /\ w \in Outcome BY <1>1, <1>4, <1>8, WriteTyped
  <2>2. u.fl.cells = w.fl.cells /\ u.ok = w.ok BY <1>8, <2>1, SameCells DEF Outcome
  <2>3. /\ \A b \in Addr : b < start => w.fl.cells[b] = e.fl.cells[b]
        /\ w.ok => ReadsBack(w.fl, start, d)
    BY <1>1, <1>8, <2>1, WriteBelow
  <2>4. /\ (offset + total) + Len(d) <= BankSize[i] /\ Len(d) \in Nat
        /\ BankBase[i] \in Nat /\ BankSize[i] \in Nat /\ FlashSize \in Nat
        /\ BankBase[i] + BankSize[i] <= FlashSize
    <3>1. /\ BankBase[i] \in Nat /\ BankSize[i] \in Nat /\ FlashSize \in Nat
          /\ BankBase[i] + BankSize[i] <= FlashSize
      BY LayoutAssumption
    <3>2. TRUE # FALSE /\ Len(d) \in Nat OBVIOUS
    <3>3. ~((offset + total) + Len(d) > BankSize[i])
      BY <1>8, <3>2 DEF checks, check_dfu_update_image_length
    <3>4. ASSUME NEW x \in Nat, NEW n \in Nat, NEW size \in Nat, ~(x + n > size)
          PROVE  x + n <= size
      BY <3>4
    <3> QED BY <1>1, <3>1, <3>2, <3>3, <3>4
  <2>5. ASSUME u.ok, NEW k \in 0 .. Len(d) - 1
        PROVE  start + k \in Addr /\ u.fl.cells[start + k] = d[k + 1]
    <3>1. w.fl.cells[start + k] = d[k + 1]
      <4>1. ReadsBack(w.fl, start, d) BY <2>2, <2>3, <2>5
      <4> QED BY <1>1, <2>5, <4>1, CellRead
    <3>2. start + k \in Addr
      BY <1>1, <2>4, <2>5, CellInBank
    <3> QED BY <1>1, <2>2, <3>1, <3>2
  <2> QED BY <1>1, <1>4, <1>8, <2>2, <2>3, <2>5
<1> QED BY <1>5, <1>6, <1>7, <1>8

LEMMA EraseRetryBelow ==
  ASSUME NEW f \in Flash, NEW i \in Images, NEW offset \in Nat, offset % SectorSize = 0,
         NEW mayFail, NEW e \in dfu_flash_erase_sector_with_retry(f, i, offset, mayFail)
  PROVE  /\ e.fl \in Flash
         /\ \A b \in Addr : b < BankBase[i] + offset => e.fl.cells[b] = f.cells[b]
<1>1. PICK g \in flash_erase_sector(unlock_flash_bp_all(f), BankBase[i] + offset, mayFail) :
        e = [fl |-> lock_flash_bp(g.fl), ok |-> dfu_flash_check_blank(g.fl, i, offset)]
  BY DEF dfu_flash_erase_sector_with_retry
<1>2. unlock_flash_bp_all(f) \in Flash /\ unlock_flash_bp_all(f).cells = f.cells
  BY BpTyped, SameCells
<1>3. g.fl \in Flash BY <1>2, EraseTyped DEF Outcome
<1>4. e.fl \in Flash /\ e.fl.cells = g.fl.cells BY <1>1, <1>3, BpTyped, SameCells
<1>5. BankBase[i] \in Nat /\ BankBase[i] % SectorSize = 0 BY LayoutAssumption
<1>6. BankBase[i] + offset \in Nat /\ SectorFirst(BankBase[i] + offset) = BankBase[i] + offset
  BY <1>5, AlignedSum, AlignedFirst
<1> QED BY <1>1, <1>2, <1>4, <1>6, EraseBelow

LEMMA EraseBackBelow ==
  ASSUME DeviceTypeOK, image_id \in Images, dfu_resend_offset % SectorSize = 0,
         NEW fl \in Flash, NEW mayFail, NEW e \in EraseBack(fl, mayFail)
  PROVE  \A b \in Addr : b < BankBase[image_id] + dfu_resend_offset => e.fl.cells[b] = fl.cells[b]
<1> DEFINE second == dfu_resend_offset + SectorSize
<1>1. /\ dfu_resend_offset \in Nat /\ SectorSize \in Nat /\ SectorSize > 0
      /\ BankBase[image_id] \in Nat
  BY LayoutAssumption DEF DeviceTypeOK
<1>2. second \in Nat /\ second % SectorSize = 0 BY <1>1, AlignedNext
<1>3. CASE e \in dfu_flash_erase_sector_with_retry(fl, image_id, dfu_resend_offset, mayFail)
  BY <1>1, <1>3, EraseRetryBelow
<1>4. ASSUME NEW x \in dfu_flash_erase_sector_with_retry(fl, image_id, dfu_resend_offset, mayFail),
             e \in dfu_flash_erase_sector_with_retry(x.fl, image_id, second, mayFail)
      PROVE  \A b \in Addr : b < BankBase[image_id] + dfu_resend_offset =>
               e.fl.cells[b] = fl.cells[b]
  <2>1. /\ x.fl \in Flash
        /\ \A b \in Addr : b < BankBase[image_id] + dfu_resend_offset =>
             x.fl.cells[b] = fl.cells[b]
    BY <1>1, <1>4, EraseRetryBelow
  <2>2. \A b \in Addr : b < BankBase[image_id] + second => e.fl.cells[b] = x.fl.cells[b]
    <3> HIDE DEF second
    <3> QED BY <1>2, <1>4, <2>1, EraseRetryBelow
  <2>3. \A b \in Addr : b < BankBase[image_id] + dfu_resend_offset =>
          b < BankBase[image_id] + second
    BY <1>1 DEF Addr
  <2> QED BY <2>1, <2>2, <2>3
<1> QED BY <1>3, <1>4 DEF EraseBack

-----------------------------------------------------------------------------
(* The cells below the offset, step by step.                               *)

LEMMA PrefixBelow ==
  ASSUME NEW f, NEW g, NEW a \in Nat, NEW i, NEW m \in Nat, NEW n \in Nat, n <= m,
         Prefix(f, a, i, m), \A b \in Addr : b < a + n => g.cells[b] = f.cells[b]
  PROVE  Prefix(g, a, i, n)
<1> SUFFICES ASSUME NEW k \in 0 .. n - 1
             PROVE  a + k \in Addr /\ g.cells[a + k] \in Sound(i, k)
  BY DEF Prefix
<1>1. k \in 0 .. m - 1 OBVIOUS
<1>2. a + k \in Addr /\ f.cells[a + k] \in Sound(i, k) BY <1>1 DEF Prefix
<1>3. a + k < a + n OBVIOUS
<1> QED BY <1>2, <1>3

LEMMA PlaceSum ==
  ASSUME NEW i \in Images, NEW total \in Nat, NEW offset \in Nat
  PROVE  /\ BankBase[i] + total \in Nat
         /\ BankBase[i] + offset + total = (BankBase[i] + total) + offset
<1>1. BankBase[i] \in Nat BY LayoutAssumption
<1> QED BY <1>1

LEMMA PrefixGrows ==
  ASSUME NEW f \in Flash, NEW i \in Images, NEW offset \in Nat, NEW total \in Nat,
         NEW d \in Seq(Payload), NEW mayFail,
         NEW u \in dfu_update(f, i, offset, total, d, mayFail),
         NEW a, a = BankBase[i] + total, Prefix(f, a, i, offset)
  PROVE  /\ u.fl \in Flash /\ Prefix(u.fl, a, i, offset)
         /\ u.ok /\ (\A j \in 1 .. Len(d) : d[j] \in Sound(i, offset + j - 1)) =>
              Prefix(u.fl, a, i, offset + Len(d))
<1>1. a \in Nat /\ BankBase[i] + offset + total = a + offset BY PlaceSum
<1>2. /\ \A b \in Addr : b < a + offset => u.fl.cells[b] = f.cells[b]
      /\ u.ok => \A k \in 0 .. Len(d) - 1 :
           a + offset + k \in Addr /\ u.fl.cells[a + offset + k] = d[k + 1]
  BY <1>1, UpdateBelow
<1>3. Prefix(u.fl, a, i, offset)
  <2>1. offset <= offset OBVIOUS
  <2> QED BY <1>1, <1>2, <2>1, PrefixBelow
<1>4. u.fl \in Flash BY UpdateTyped DEF Outcome
<1>5. ASSUME u.ok, \A j \in 1 .. Len(d) : d[j] \in Sound(i, offset + j - 1),
             NEW k \in 0 .. offset + Len(d) - 1
      PROVE  a + k \in Addr /\ u.fl.cells[a + k] \in Sound(i, k)
  <2>1. Len(d) \in Nat OBVIOUS
  <2>2. CASE k < offset
    <3>1. k \in 0 .. offset - 1 BY <2>2
    <3> QED BY <1>3, <3>1 DEF Prefix
  <2>3. CASE k >= offset
    <3> DEFINE j == k - offset
    <3>1. /\ j \in 0 .. Len(d) - 1 /\ j + 1 \in 1 .. Len(d)
          /\ a + offset + j = a + k /\ offset + (j + 1) - 1 = k
      BY <1>1, <2>1, <2>3
    <3> HIDE DEF j
    <3>2. d[j + 1] \in Sound(i, offset + (j + 1) - 1) BY <1>5, <3>1
    <3>3. a + offset + j \in Addr /\ u.fl.cells[a + offset + j] = d[j + 1]
      BY <1>2, <1>5, <3>1
    <3> QED BY <3>1, <3>2, <3>3
  <2> QED BY <2>1, <2>2, <2>3
<1> QED BY <1>3, <1>4, <1>5 DEF Prefix

LEMMA PlaceZero ==
  ASSUME DeviceTypeOK, NoPlace
  PROVE  CurrentImageOffset = 0
BY DEF DeviceTypeOK, NoPlace, CurrentImageOffset

(* A buffer check that succeeds writes the whole chunk; one that fails     *)
(* goes back no further than the resend point.                             *)
LEMMA BufferCrcKeepsPrefix ==
  ASSUME TypeInv, WindowInv, TransferInv, RollbackInPlace, SendBufferCrc
  PROVE  TransferInv'
<1>1. PICK crcOk \in BOOLEAN, mayFail \in {FALSE, MayFail} :
        WriteReportBufferCrc(chunk, crcOk, mayFail)
  BY DEF SendBufferCrc
<1>2. /\ cst = "send" /\ wait = "none" /\ sendMode = "check" /\ Running /\ link = "up"
      /\ BufferCheckProcess(chunk, crcOk, mayFail) /\ wait' = "BUFFER_CRC"
      /\ UNCHANGED <<cst, plan, sendMode, coff, chunk, damage, reset>>
  BY <1>1 DEF SendBufferCrc, Ready, ChunkFull, WriteReportBufferCrc, appVars
<1>3. /\ UNCHANGED <<headVars, modeVars, tempVars>> /\ tmp_buf' = << >>
      /\ Checked(chunk, mayFail)
  BY <1>2, BufferCheckEnds
<1>4. DeviceTypeOK /\ ClientTypeOK /\ PlanInv /\ ImageInv BY DEF TypeInv, TypeOK
<1>5. image_id = img /\ image_total_length = Length[img] /\ img \in Images /\ Length[img] \in Nat
  BY <1>2, <1>4, PlanHead DEF TransferInv, SameImage
<1> DEFINE total == CurrentImageOffset
           place == WriteBase
<1>6. /\ total \in Nat /\ place = BankBase[image_id] + total /\ place \in Nat
      /\ BankBase[image_id] \in Nat
  <2>1. total \in Nat BY <1>4, PlaceTyped
  <2>2. BankBase[image_id] \in Nat BY <1>5, LayoutAssumption
  <2> QED BY <2>1, <2>2 DEF WriteBase
<1>7. /\ coff = cur_offset /\ cur_offset <= Length[img]
      /\ dfu_resend_offset % SectorSize = 0 /\ dfu_resend_offset <= cur_offset
      /\ used <= chunk /\ coff + chunk <= Length[img]
      /\ used = chunk => \A j \in 1 .. used : tmp_buf[j] \in Sound(img, coff + j - 1)
  BY <1>2 DEF WindowInv, OffsetsAgree, ResendWindow, TransferInv, BufferSound
<1>8. /\ cur_offset \in Nat /\ dfu_resend_offset \in Nat /\ coff \in Nat /\ chunk \in Nat
      /\ used \in Nat /\ tmp_buf \in Seq(Payload) /\ flash \in Flash
  BY <1>4 DEF DeviceTypeOK, ClientTypeOK, used
<1>9. Prefix(flash, place, image_id, cur_offset)
  BY <1>2 DEF TransferInv, PrefixInFlash, Transferring
<1>10. total = 0 \/ FlashWrites BY DEF RollbackInPlace
<1> HIDE DEF total, place
<1>11. cur_offset' <= Length[img] /\ Prefix(flash', place, image_id, cur_offset')
  <2>1. CASE UNCHANGED <<cur_offset, dfu_resend_offset, flash>> BY <1>7, <1>9, <2>1
  <2>2. ASSUME NEW u \in dfu_update(flash, image_id, cur_offset, total, tmp_buf, mayFail)
        PROVE  /\ u.fl \in Flash
               /\ \A b \in Addr : b < place + cur_offset => u.fl.cells[b] = flash.cells[b]
               /\ u.ok /\ used = chunk => Prefix(u.fl, place, image_id, cur_offset + used)
    <3>1. /\ u.fl \in Flash
          /\ u.ok /\ (\A j \in 1 .. used : tmp_buf[j] \in Sound(image_id, cur_offset + j - 1)) =>
               Prefix(u.fl, place, image_id, cur_offset + used)
      BY <1>5, <1>6, <1>8, <1>9, <2>2, PrefixGrows DEF used
    <3>2. BankBase[image_id] + cur_offset + total = place + cur_offset
      BY <1>5, <1>6, <1>8, PlaceSum
    <3>3. \A b \in Addr : b < place + cur_offset => u.fl.cells[b] = flash.cells[b]
      BY <1>5, <1>6, <1>8, <2>2, <3>2, UpdateBelow
    <3> QED BY <1>5, <1>7, <3>1, <3>3
  <2>3. ASSUME NEW u \in dfu_update(flash, image_id, cur_offset, total, tmp_buf, mayFail),
               used = chunk \/ cur_offset + used = image_total_length,
               u.ok, BufferWritten(u.fl)
        PROVE  cur_offset' <= Length[img] /\ Prefix(flash', place, image_id, cur_offset')
    <3>1. flash' = u.fl /\ cur_offset' = cur_offset + used BY <2>3 DEF BufferWritten
    <3> HIDE DEF used
    <3>2. used = chunk BY <1>5, <1>7, <1>8, <2>3
    <3>3. Prefix(u.fl, place, image_id, cur_offset + used) BY <2>2, <2>3, <3>2
    <3> QED BY <1>7, <1>8, <3>1, <3>2, <3>3
  <2>4. ASSUME NEW u \in dfu_update(flash, image_id, cur_offset, total, tmp_buf, mayFail),
               used = chunk \/ cur_offset + used = image_total_length,
               ~u.ok, NEW e \in EraseBack(u.fl, mayFail),
               flash' = e.fl, cur_offset' = dfu_resend_offset
        PROVE  cur_offset' <= Length[img] /\ Prefix(flash', place, image_id, cur_offset')
    <3>1. /\ u.fl \in Flash
          /\ \A b \in Addr : b < place + cur_offset => u.fl.cells[b] = flash.cells[b]
      BY <2>2
    <3>2. place = BankBase[image_id]
      <4>1. used = chunk
        <5> HIDE DEF used
        <5> QED BY <1>5, <1>7, <1>8, <2>4
      <4>2. total = 0 BY <1>10, <2>4, <4>1 DEF FlashWrites, total
      <4> QED BY <1>6, <4>2
    <3>3. \A b \in Addr : b < place + dfu_resend_offset => e.fl.cells[b] = u.fl.cells[b]
      BY <1>4, <1>5, <1>7, <2>4, <3>1, <3>2, EraseBackBelow
    <3>4. \A b \in Addr : b < place + dfu_resend_offset => b < place + cur_offset
      <4>1. dfu_resend_offset <= cur_offset /\ place \in Nat BY <1>6, <1>7
      <4> QED BY <1>8, <4>1, LayoutAssumption DEF Addr
    <3>5. Prefix(e.fl, place, image_id, dfu_resend_offset)
      <4>1. \A b \in Addr : b < place + dfu_resend_offset => e.fl.cells[b] = flash.cells[b]
        BY <3>1, <3>3, <3>4
      <4> QED BY <1>6, <1>7, <1>8, <1>9, <4>1, PrefixBelow
    <3>6. dfu_resend_offset <= Length[img] BY <1>5, <1>7, <1>8
    <3> QED BY <2>4, <3>5, <3>6
  <2> QED BY <1>3, <2>1, <2>3, <2>4 DEF Checked, total
<1>12. UNCHANGED <<image_id, image_total_length, is_ota_procedure, temp_image_num, temp_image_info>>
       /\ img' = img
  BY <1>2, <1>3 DEF headVars, modeVars, tempVars, img
<1>13. SameImage' BY <1>2, <1>5, <1>12 DEF SameImage
<1>14. BufferSound' /\ StreamSound' BY <1>2, <1>3, <1>11, <1>12 DEF BufferSound, StreamSound, Ready
<1>15. WriteBase' = place BY <1>12 DEF WriteBase, CurrentImageOffset, place
<1>16. PrefixInFlash' BY <1>11, <1>12, <1>15 DEF PrefixInFlash
<1> QED BY <1>13, <1>14, <1>16 DEF TransferInv

(* A packet that arrives makes the buffer longer by its cell, if it does   *)
(* not restart the device.                                                 *)
LEMMA CheckPacketKeepsPrefix ==
  ASSUME TypeInv, WindowInv, TransferInv, SendPacket, sendMode = "check"
  PROVE  BufferSound' /\ UNCHANGED <<cur_offset, flash>>
<1>1. /\ cst = "send" /\ wait = "none" /\ UNCHANGED <<cst, wait, plan, sendMode, coff>>
      /\ chunk' = chunk + 1 /\ coff + chunk # Length[img]
  BY DEF SendPacket, Ready, AllSent
<1>2. DeviceTypeOK /\ ClientTypeOK /\ PlanInv BY DEF TypeInv, TypeOK
<1>3. img' = img /\ img \in Images /\ Length[img] \in Nat /\ Noise \notin Images
  BY <1>1, <1>2, PlanHead, TagsAssumption DEF img
<1>4. coff \in Nat /\ chunk \in Nat /\ used \in Nat /\ tmp_buf \in Seq(Payload)
  BY <1>2 DEF DeviceTypeOK, ClientTypeOK, used
<1>5. Running =>
        /\ cur_offset <= Length[img] /\ used <= chunk /\ coff + chunk <= Length[img]
        /\ used = chunk => \A j \in 1 .. used : tmp_buf[j] \in Sound(img, coff + j - 1)
  BY <1>1 DEF TransferInv, BufferSound
<1>6. ASSUME UNCHANGED <<cur_offset, tmp_buf>>, Running' => Running PROVE BufferSound'
  <2>1. used' = used BY <1>6 DEF used
  <2> HIDE DEF used
  <2> QED BY <1>1, <1>3, <1>4, <1>5, <1>6, <2>1 DEF BufferSound
<1>7. CASE UNCHANGED deviceVars
  BY <1>6, <1>7 DEF deviceVars, serviceVars, xferVars, appVars, Running
<1>8. ASSUME NEW cell \in Sound(img, coff + chunk), NEW mayFail, WritePacket(cell, mayFail)
      PROVE  BufferSound' /\ UNCHANGED <<cur_offset, flash>>
  <2>1. PICK reboot \in BOOLEAN :
          /\ Running /\ PacketReq(cell, reboot, mayFail) /\ (reboot => ~Running')
    BY <1>8 DEF WritePacket, dfu_fw_reboot, Running
  <2>2. buffer_check_en BY <1>1 DEF WindowInv, ModeKept, Ready
  <2>3. /\ UNCHANGED <<cur_offset, flash>>
        /\ \/ tmp_buf' = tmp_buf
           \/ ~reboot /\ tmp_buf' = Append(tmp_buf, cell)
    BY <2>1, <2>2 DEF PacketReq, PacketIgnored, PacketBuffered, PacketStreamed, xferVars
  <2>4. CASE tmp_buf' = tmp_buf BY <1>6, <2>1, <2>3, <2>4
  <2>5. CASE tmp_buf' = Append(tmp_buf, cell)
    <3>1. /\ used' = used + 1 /\ tmp_buf'[used + 1] = cell
          /\ \A j \in 1 .. used : tmp_buf'[j] = tmp_buf[j]
      BY <1>4, <2>5 DEF used
    <3> HIDE DEF used
    <3>2. ASSUME used' = chunk', NEW j \in 1 .. used'
          PROVE  tmp_buf'[j] \in Sound(img, coff + j - 1)
      <4>1. used = chunk BY <1>1, <1>4, <3>1, <3>2
      <4>2. CASE j \in 1 .. used BY <1>5, <2>1, <3>1, <4>1, <4>2
      <4>3. CASE j = used + 1
        <5>1. coff + j - 1 = coff + chunk BY <1>4, <4>1, <4>3
        <5> QED BY <1>8, <3>1, <4>3, <5>1
      <4> QED BY <1>4, <3>1, <3>2, <4>2, <4>3
    <3>3. used' <= chunk' /\ coff + chunk' <= Length[img]
      BY <1>1, <1>3, <1>4, <1>5, <2>1, <3>1
    <3> QED BY <1>1, <1>3, <1>5, <2>1, <2>3, <3>2, <3>3 DEF BufferSound
  <2> QED BY <2>3, <2>4, <2>5
<1>9. ASSUME UNCHANGED deviceVars PROVE UNCHANGED <<cur_offset, flash>>
  BY <1>9 DEF deviceVars, serviceVars, xferVars
<1> QED BY <1>7, <1>8, <1>9 DEF SendPacket, Sound

LEMMA StreamPacketKeepsPrefix ==
  ASSUME TypeInv, TransferInv, SendPacket, sendMode = "stream", damage' = 0
  PROVE  StreamSound' /\ PrefixInFlash'
<1>1. /\ cst = "send" /\ wait = "none" /\ Ready("send")
      /\ UNCHANGED <<cst, wait, plan, sendMode, coff>> /\ chunk' = chunk + 1
  BY DEF SendPacket, Ready
<1>2. DeviceTypeOK /\ ClientTypeOK /\ PlanInv /\ ImageInv BY DEF TypeInv, TypeOK
<1>3. /\ img' = img /\ img \in Images /\ image_id = img /\ Noise \notin Images
      /\ image_id \in Images
  BY <1>1, <1>2, PlanHead, TagsAssumption DEF img, TransferInv, SameImage
<1>4. /\ coff \in Nat /\ chunk \in Nat /\ used \in Nat /\ tmp_buf \in Seq(Payload)
      /\ cur_offset \in Nat /\ flash \in Flash /\ damage \in Nat
  BY <1>2, ClientAssumption DEF DeviceTypeOK, ClientTypeOK, used
<1>5. PICK mayFail, cell : /\ WritePacket(cell, mayFail) /\ damage = 0
                           /\ cell = <<img, coff + chunk>>
  <2>1. damage + 1 # 0 BY <1>4
  <2>2. \E mayFail : WritePacket(<<img, coff + chunk>>, mayFail) /\ damage = 0
    BY <2>1 DEF SendPacket
  <2> QED BY <2>2
<1>6. PICK reboot \in BOOLEAN :
        /\ Running /\ PacketReq(cell, reboot, mayFail) /\ (reboot => ~Running')
  BY <1>5 DEF WritePacket, dfu_fw_reboot, Running
<1>7. UNCHANGED <<image_id, is_ota_procedure>> /\ WriteBase' = WriteBase
  BY <1>6 DEF PacketReq, headVars, modeVars, tempVars, WriteBase, CurrentImageOffset
<1>8. is_ota_procedure =>
        /\ coff + chunk = cur_offset + used
        /\ \A j \in 1 .. used : tmp_buf[j] \in Sound(img, cur_offset + j - 1)
  BY <1>1, <1>5, <1>6 DEF TransferInv, StreamSound
<1>9. Prefix(flash, WriteBase, image_id, cur_offset)
  BY <1>1, <1>5 DEF TransferInv, PrefixInFlash, Transferring
<1>10. CurrentImageOffset \in Nat /\ WriteBase = BankBase[image_id] + CurrentImageOffset
  BY <1>2, PlaceTyped DEF WriteBase
<1> DEFINE data == Append(tmp_buf, cell)
<1>11. cell \in Payload
  <2>1. coff + chunk \in Nat BY <1>4
  <2> QED BY <1>3, <1>5, <2>1 DEF Payload
<1>12. /\ data \in Seq(Payload) /\ Len(data) = used + 1 /\ data[used + 1] = cell
       /\ \A j \in 1 .. used : data[j] = tmp_buf[j]
  BY <1>4, <1>11 DEF used
<1> HIDE DEF data, used
<1>13. is_ota_procedure =>
         /\ coff + chunk' = cur_offset + Len(data)
         /\ \A j \in 1 .. Len(data) : data[j] \in Sound(img, cur_offset + j - 1)
  <2> SUFFICES ASSUME is_ota_procedure
               PROVE  /\ coff + chunk' = cur_offset + Len(data)
                      /\ \A j \in 1 .. Len(data) : data[j] \in Sound(img, cur_offset + j - 1)
    OBVIOUS
  <2>1. coff + chunk' = cur_offset + Len(data)
    <3>1. coff + chunk = cur_offset + used BY <1>8
    <3>2. coff + (chunk + 1) = cur_offset + (used + 1) BY <1>4, <3>1
    <3> QED BY <1>1, <1>12, <3>2
  <2>2. ASSUME NEW j \in 1 .. Len(data) PROVE data[j] \in Sound(img, cur_offset + j - 1)
    <3>1. CASE j \in 1 .. used BY <1>8, <1>12, <3>1
    <3>2. CASE j = used + 1
      <4>1. cur_offset + j - 1 = coff + chunk BY <1>4, <1>8, <3>2
      <4> QED BY <1>5, <1>12, <3>2, <4>1 DEF Sound
    <3> QED BY <1>4, <1>12, <2>2, <3>1, <3>2
  <2> QED BY <2>1, <2>2
<1>14. ASSUME UNCHANGED <<cur_offset, flash>>, tmp_buf' = data PROVE StreamSound' /\ PrefixInFlash'
  <2>1. used' = Len(data) BY <1>14 DEF used
  <2> QED BY <1>1, <1>3, <1>7, <1>9, <1>13, <1>14, <2>1 DEF StreamSound, PrefixInFlash
<1>15. ASSUME UNCHANGED <<cur_offset, flash>>, ~is_ota_procedure \/ ~Running'
       PROVE  StreamSound' /\ PrefixInFlash'
  BY <1>1, <1>7, <1>9, <1>15 DEF StreamSound, PrefixInFlash
<1>16. ASSUME is_ota_procedure, StreamWritten(data, reboot, mayFail)
       PROVE  StreamSound' /\ PrefixInFlash'
  <2>1. PICK u \in dfu_update(flash, image_id, cur_offset, CurrentImageOffset, data, mayFail) :
          /\ flash' = u.fl /\ reboot = ~u.ok
          /\ cur_offset' = IF u.ok THEN cur_offset + Len(data) ELSE cur_offset
          /\ tmp_buf' = IF u.ok THEN << >> ELSE data
    BY <1>16 DEF StreamWritten
  <2>2. /\ Prefix(u.fl, WriteBase, image_id, cur_offset)
        /\ u.ok => Prefix(u.fl, WriteBase, image_id, cur_offset + Len(data))
    BY <1>3, <1>4, <1>9, <1>10, <1>12, <1>13, <1>16, PrefixGrows
  <2>3. PrefixInFlash' BY <1>7, <2>1, <2>2 DEF PrefixInFlash
  <2>4. CASE ~u.ok BY <1>1, <1>6, <2>1, <2>3, <2>4 DEF StreamSound
  <2>5. CASE u.ok
    <3>1. used' = 0 /\ cur_offset' = cur_offset + Len(data) BY <2>1, <2>5 DEF used
    <3>2. cur_offset' + used' = cur_offset + Len(data) BY <1>4, <1>12, <3>1
    <3>3. coff' + chunk' = cur_offset' + used' BY <1>1, <1>13, <1>16, <3>2
    <3> QED BY <1>1, <2>3, <3>1, <3>3 DEF StreamSound
  <2> QED BY <2>4, <2>5
<1>17. CASE PacketIgnored(reboot) BY <1>15, <1>17 DEF PacketIgnored, xferVars
<1>18. CASE PacketBuffered(cell, reboot)
  <2>1. /\ UNCHANGED <<cur_offset, flash>>
        /\ reboot \/ tmp_buf' = data
    BY <1>18 DEF PacketBuffered, data
  <2> QED BY <1>6, <1>14, <1>15, <2>1
<1>19. CASE PacketStreamed(cell, reboot, mayFail)
  <2>1. /\ is_ota_procedure
        /\ \/ reboot /\ UNCHANGED <<cur_offset, flash>>
           \/ StreamWritten(data, reboot, mayFail)
           \/ tmp_buf' = data /\ UNCHANGED <<cur_offset, flash>>
    BY <1>19 DEF PacketStreamed, data
  <2> QED BY <1>6, <1>14, <1>15, <1>16, <2>1
<1> QED BY <1>6, <1>17, <1>18, <1>19 DEF PacketReq

LEMMA PacketKeepsPrefix ==
  ASSUME TypeInv, WindowInv, TransferInv, SendPacket
  PROVE  TransferInv'
<1>1. /\ cst = "send" /\ wait = "none" /\ UNCHANGED <<cst, wait, plan, sendMode, coff>>
  BY DEF SendPacket, Ready
<1>2. UNCHANGED <<image_id, image_total_length, tempVars>> /\ img' = img
  <2>1. CASE UNCHANGED deviceVars
    BY <1>1, <2>1 DEF deviceVars, serviceVars, headVars, tempVars, img
  <2>2. ASSUME NEW cell, NEW mayFail, WritePacket(cell, mayFail)
        PROVE  UNCHANGED <<image_id, image_total_length, tempVars>> /\ img' = img
    BY <1>1, <2>2 DEF WritePacket, PacketReq, headVars, tempVars, img
  <2> QED BY <2>1, <2>2 DEF SendPacket
<1>3. SameImage' /\ WriteBase' = WriteBase
  BY <1>1, <1>2 DEF TransferInv, SameImage, WriteBase, CurrentImageOffset, tempVars
<1>4. CASE sendMode = "check"
  <2>1. BufferSound' /\ UNCHANGED <<cur_offset, flash>> BY <1>4, CheckPacketKeepsPrefix
  <2>2. StreamSound' BY <1>1, <1>4 DEF StreamSound
  <2>3. PrefixInFlash' BY <1>1, <1>2, <1>3, <1>4, <2>1 DEF TransferInv, PrefixInFlash, Transferring
  <2> QED BY <1>3, <2>1, <2>2, <2>3 DEF TransferInv
<1>5. CASE sendMode = "stream"
  <2>1. BufferSound' BY <1>1, <1>5 DEF BufferSound
  <2>2. CASE damage' = 0
    BY <1>3, <1>5, <2>1, <2>2, StreamPacketKeepsPrefix DEF TransferInv
  <2>3. CASE damage' # 0
    <3>1. StreamSound' BY <1>1, <2>3 DEF StreamSound
    <3>2. PrefixInFlash' BY <1>1, <1>5, <2>3 DEF PrefixInFlash, Transferring
    <3> QED BY <1>3, <2>1, <3>1, <3>2 DEF TransferInv
  <2> QED BY <2>2, <2>3
<1> QED BY <1>4, <1>5 DEF TypeInv, TypeOK, ClientTypeOK

(* Where nothing is transferred there is little to keep.                   *)
LEMMA NoTransferKeepsPrefix ==
  ASSUME cst' # "send", wait' # "BUFFER_CRC",
         wait' = "START" \/ cst' = "info" => image_total_length' = Length[img']
  PROVE  TransferInv'
BY DEF TransferInv, SameImage, BufferSound, StreamSound, PrefixInFlash, Transferring, Ready

LEMMA StartsKeepPrefix ==
  ASSUME TypeInv, WindowInv, TransferInv,
         SendHello \/ SendTargetInfo \/ SendStart \/ SendImageInfo
  PROVE  TransferInv'
<1>1. CASE SendHello
  <2>1. cst' \in {"hello", "pick"} /\ wait' \in {"none", "BUFFER_CHECK_EN"}
    BY <1>1 DEF SendHello, Ready
  <2> QED BY <2>1, NoTransferKeepsPrefix
<1>2. CASE SendTargetInfo
  <2>1. cst' = "pick" /\ wait' = "TARGET_INFO" BY <1>2 DEF SendTargetInfo, Ready
  <2> QED BY <2>1, NoTransferKeepsPrefix
<1>3. CASE SendStart
  <2>1. image_total_length' = Length[img] BY <1>3 DEF SendStart, WriteStartDfu, StartDfu
  <2>2. cst' = "start" /\ wait' = "START" /\ img' = img BY <1>3 DEF SendStart, Ready, img
  <2> QED BY <2>1, <2>2, NoTransferKeepsPrefix
<1>4. CASE SendImageInfo
  <2>1. /\ cst = "info" /\ cst' = "send" /\ wait' = "none" /\ UNCHANGED <<plan, coff, chunk>>
        /\ coff = 0 /\ chunk = 0
    BY <1>4 DEF SendImageInfo, Ready, WindowInv, StartsAtZero
  <2>2. /\ image_id' = img /\ cur_offset' = coff /\ (coff = 0 => tmp_buf' = << >>)
        /\ UNCHANGED image_total_length
    BY <1>4 DEF SendImageInfo, WriteReceiveFwImageInfo, ReceiveFwImageInfo
  <2>3. img' = img /\ Length[img] \in Nat
    BY <2>1, PlanHead DEF img, TypeInv, TypeOK
  <2>4. SameImage' BY <2>1, <2>2, <2>3 DEF TransferInv, SameImage
  <2>5. used' = 0 /\ 1 .. 0 = {} /\ 0 .. 0 - 1 = {} BY <2>1, <2>2 DEF used
  <2>6. BufferSound' /\ StreamSound'
    BY <2>1, <2>2, <2>3, <2>5 DEF BufferSound, StreamSound
  <2>7. PrefixInFlash' BY <2>1, <2>2, <2>5 DEF PrefixInFlash, Prefix
  <2> QED BY <2>4, <2>6, <2>7 DEF TransferInv
<1> QED BY <1>1, <1>2, <1>3, <1>4

LEMMA EndsKeepPrefix ==
  ASSUME TypeInv, TransferInv, SendValidFw \/ SendActiveImageReset \/ SendSystemReset
  PROVE  TransferInv'
<1>1. CASE SendValidFw
  <2>1. /\ cst = "send" /\ cst' = "send" /\ wait' = "VALID_FW"
        /\ UNCHANGED <<plan, sendMode, reset>>
        /\ image_id' = img /\ UNCHANGED <<cur_offset, image_total_length>>
    BY <1>1 DEF SendValidFw, Ready, WriteValidFw, ValidFw, xferVars
  <2>2. img' = img BY <2>1 DEF img
  <2>3. SameImage' BY <2>1, <2>2 DEF TransferInv, SameImage
  <2>4. BufferSound' BY <2>1, <2>2 DEF TransferInv, BufferSound, Running
  <2>5. StreamSound' /\ PrefixInFlash'
    BY <2>1 DEF StreamSound, PrefixInFlash, Transferring, Ready
  <2> QED BY <2>3, <2>4, <2>5 DEF TransferInv
<1>2. CASE SendActiveImageReset \/ SendSystemReset
  <2>1. cst' = "end" /\ wait' = "none" BY <1>2 DEF SendActiveImageReset, SendSystemReset, Ready
  <2> QED BY <2>1, NoTransferKeepsPrefix
<1> QED BY <1>1, <1>2

LEMMA AnswerKeepsPrefix ==
  ASSUME TypeInv, WindowInv, TransferInv, ReceiveNotification
  PROVE  TransferInv'
<1>1. /\ Running /\ UNCHANGED <<sendMode, flash, damage, reset>>
      /\ UNCHANGED <<image_id, image_total_length, cur_offset, tmp_buf, is_ota_procedure, tempVars>>
      /\ \/ Head(notif).op = wait /\ Answered(Head(notif))
         \/ UNCHANGED <<cst, wait, plan, coff, chunk>>
  BY DEF ReceiveNotification, serviceVars, headVars, xferVars, modeVars, appVars, counterVars
<1>2. WriteBase' = WriteBase BY <1>1 DEF WriteBase, CurrentImageOffset, tempVars
<1>3. CASE UNCHANGED <<cst, wait, plan, coff, chunk>>
  <2>1. img' = img /\ used' = used BY <1>1, <1>3 DEF img, used
  <2> HIDE DEF used
  <2>2. SameImage' /\ BufferSound' /\ StreamSound' /\ PrefixInFlash'
    BY <1>1, <1>2, <1>3, <2>1 DEF TransferInv, SameImage, BufferSound, StreamSound,
                                  PrefixInFlash, Transferring, Ready, Running
  <2> QED BY <2>2 DEF TransferInv
<1>4. CASE Head(notif).op = wait /\ Answered(Head(notif))
  <2>1. wait' = "none" /\ chunk' = 0 BY <1>4 DEF Answered
  <2>2. CASE wait = "BUFFER_CRC"
    <3>1. /\ cst = "send" /\ sendMode = "check" /\ UNCHANGED plan
          /\ coff' = cur_offset /\ cst' \in {"send", "abort"}
      BY <1>4, <2>2, AnswerTaken
         DEF Answered, TypeInv, PlanInv, WindowInv, TransferInv, StreamSound
    <3>2. img' = img /\ tmp_buf = << >> /\ cur_offset <= Length[img]
      BY <1>1, <2>2, <3>1 DEF img, TransferInv, BufferSound
    <3>3. SameImage' BY <1>1, <2>1, <3>1, <3>2 DEF TransferInv, SameImage
    <3>4. BufferSound'
      <4>1. used' = 0 /\ 1 .. 0 = {} BY <1>1, <3>2 DEF used
      <4>2. cur_offset \in Nat /\ coff' + chunk' = cur_offset
        BY <2>1, <3>1 DEF TypeInv, TypeOK, DeviceTypeOK
      <4> QED BY <1>1, <2>1, <3>1, <3>2, <4>1, <4>2 DEF BufferSound
    <3>5. StreamSound' BY <1>1, <2>1, <3>1 DEF StreamSound
    <3>6. PrefixInFlash' BY <1>1, <1>2, <2>2, <3>1 DEF TransferInv, PrefixInFlash, Transferring
    <3> QED BY <3>3, <3>4, <3>5, <3>6 DEF TransferInv
  <2>3. CASE wait = "START"
    <3>1. cst' \in {"info", "abort"} /\ UNCHANGED plan BY <1>4, <2>3 DEF Answered
    <3>2. image_total_length' = Length[img']
      BY <1>1, <2>3, <3>1 DEF img, TransferInv, SameImage
    <3> QED BY <2>1, <3>1, <3>2, NoTransferKeepsPrefix
  <2>4. CASE wait \notin {"BUFFER_CRC", "START"}
    <3>1. cst' \in {"pick", "start", "valid", "abort"} BY <1>4, <2>4 DEF Answered
    <3> QED BY <2>1, <3>1, NoTransferKeepsPrefix
  <2> QED BY <2>2, <2>3, <2>4
<1> QED BY <1>1, <1>3, <1>4

prefixState == <<image_id, image_total_length, cur_offset, tmp_buf, is_ota_procedure,
                 flash, cst, wait, plan, sendMode, coff, chunk, damage>>

LEMMA PrefixFrame ==
  ASSUME TransferInv, UNCHANGED prefixState, Running' => Running,
         UNCHANGED tempVars \/ ~Transferring
  PROVE  TransferInv'
<1> USE DEF prefixState
<1>1. img' = img /\ used' = used BY DEF img, used
<1> HIDE DEF used
<1>2. SameImage' BY <1>1 DEF TransferInv, SameImage
<1>3. BufferSound' /\ StreamSound' BY <1>1 DEF TransferInv, BufferSound, StreamSound, Ready
<1>4. UNCHANGED tempVars => WriteBase' = WriteBase
  BY DEF WriteBase, CurrentImageOffset, tempVars
<1>5. PrefixInFlash' BY <1>4 DEF TransferInv, PrefixInFlash, Transferring
<1> QED BY <1>2, <1>3, <1>5 DEF TransferInv

(* The end of a check is not in the middle of a transfer.                  *)
LEMMA CheckedNotTransferring ==
  ASSUME TypeInv, CompleteValidFw
  PROVE  ~Transferring
<1>1. checking # {} /\ Running BY DEF CompleteValidFw, EndValidFw
<1>2. CheckPending BY <1>1 DEF CheckPending
<1> QED BY <1>1, <1>2 DEF TypeInv, OrderInv, CheckOrder, ClientOff, Transferring

LEMMA DeviceKeepsPrefix ==
  ASSUME TypeInv, TransferInv,
         DeviceTask \/ TimerStep \/ ParamProcedure \/ SendConnParaUpdateReq \/ UNCHANGED vars
  PROVE  TransferInv'
<1> USE DEF prefixState, clientVars, counterVars, serviceVars, headVars, xferVars, modeVars
<1>1. CASE DeviceTask
  <2>1. UNCHANGED prefixState /\ (Running' => Running)
    BY <1>1 DEF DeviceTask, AppTask, HandleStackReady, HandleConnected, HandleDisconnected,
         HandleParamUpdate, HandleValidFw, CompleteValidFw, BeginValidFw, EndValidFw, Take, appVars,
         Running
  <2>2. UNCHANGED tempVars \/ ~Transferring
    BY <1>1, CheckedNotTransferring
       DEF DeviceTask, AppTask, HandleStackReady, HandleConnected, HandleDisconnected,
         HandleParamUpdate, HandleValidFw, BeginValidFw
  <2> QED BY <2>1, <2>2, PrefixFrame
<1>2. CASE TimerStep
  <2>1. UNCHANGED <<prefixState, tempVars>> /\ Running BY <1>2, TimerMoves
  <2> QED BY <2>1, PrefixFrame
<1>3. CASE ParamProcedure
  <2>1. UNCHANGED <<prefixState, tempVars>> /\ Running BY <1>3 DEF ParamProcedure, ParamUpdated
  <2> QED BY <2>1, PrefixFrame
<1>4. CASE SendConnParaUpdateReq
  <2>1. UNCHANGED <<prefixState, tempVars>> /\ Running
    BY <1>4 DEF SendConnParaUpdateReq, WriteConnParaUpdateReq
  <2> QED BY <2>1, PrefixFrame
<1>5. CASE UNCHANGED vars
  <2>1. UNCHANGED <<prefixState, tempVars>> /\ (Running' => Running)
    BY <1>5 DEF vars, deviceVars, appVars, Running
  <2> QED BY <2>1, PrefixFrame
<1> QED BY <1>1, <1>2, <1>3, <1>4, <1>5

LEMMA LinkKeepsPrefix ==
  ASSUME TypeInv, Connect \/ LoseLink \/ RestartAfterReset \/ PowerLoss
  PROVE  TransferInv'
<1>1. CASE Connect
  <2>1. UNCHANGED wait /\ cst = "off" /\ cst' = "hello" BY <1>1 DEF Connect
  <2>2. wait' = "none" BY <2>1 DEF TypeInv, PlanInv
  <2> QED BY <2>1, <2>2, NoTransferKeepsPrefix
<1>2. ASSUME ClientGone PROVE TransferInv'
  BY <1>2, NoTransferKeepsPrefix DEF ClientGone
<1> QED BY <1>1, <1>2 DEF LoseLink, RestartAfterReset, PowerLoss

LEMMA TransferInit == Init => TransferInv
<1> SUFFICES ASSUME Init PROVE TransferInv OBVIOUS
<1>1. cst = "off" /\ wait = "none" BY DEF Init
<1> QED BY <1>1
        DEF TransferInv, SameImage, BufferSound, StreamSound, PrefixInFlash, Transferring, Ready

LEMMA TransferNext ==
  TypeInv /\ WindowInv /\ TransferInv /\ RollbackInPlace /\ [Next]_vars => TransferInv'
<1> SUFFICES ASSUME TypeInv, WindowInv, TransferInv, RollbackInPlace, [Next]_vars
             PROVE  TransferInv'
  OBVIOUS
<1>1. CASE ClientStep
  BY <1>1, BufferCrcKeepsPrefix, PacketKeepsPrefix, AnswerKeepsPrefix, StartsKeepPrefix,
     EndsKeepPrefix DEF ClientStep
<1> QED BY <1>1, DeviceKeepsPrefix, LinkKeepsPrefix DEF Next

(* With two banks no image gets a place.                                   *)
LEMMA NoPlaceStep ==
  ASSUME BankSwitch, NoPlace, [Next]_vars
  PROVE  NoPlace'
<1> USE DEF serviceVars, tempVars
<1>1. ASSUME UNCHANGED temp_image_info PROVE NoPlace' BY <1>1 DEF NoPlace
<1>2. ASSUME NEW f, DeviceRestart(f) PROVE NoPlace'
  <2>1. temp_image_info' = temp_image_info \/ temp_image_info' = [n \in 0 .. MaxTemp |-> NoInfo]
    BY <1>2 DEF DeviceRestart, RestartNew, RestartOld, ServiceReset
  <2>2. NoInfo.offset = 0 BY DEF NoInfo
  <2> QED BY <1>1, <2>1, <2>2 DEF NoPlace
<1>3. CASE ClientStep
  <2>1. CASE SendHello BY <1>1, <2>1 DEF SendHello, WriteBufferCheckEn, BufferCheckEn, deviceVars
  <2>2. CASE SendTargetInfo
    BY <1>1, <2>2 DEF SendTargetInfo, WriteReportTargetInfo, ReportTargetInfo
  <2>3. CASE SendStart
    BY <1>1, <2>3 DEF SendStart, WriteStartDfu, StartDfu, RecordTempImage
  <2>4. CASE SendImageInfo
    BY <1>1, <2>4 DEF SendImageInfo, WriteReceiveFwImageInfo, ReceiveFwImageInfo
  <2>5. CASE SendPacket
    BY <1>1, <2>5 DEF SendPacket, WritePacket, PacketReq, deviceVars
  <2>6. CASE SendBufferCrc
    BY <1>1, <2>6 DEF SendBufferCrc, WriteReportBufferCrc, BufferCheckProcess
  <2>7. CASE SendValidFw BY <1>1, <2>7 DEF SendValidFw, WriteValidFw, ValidFw
  <2>8. CASE SendActiveImageReset
    BY <1>1, <2>8 DEF SendActiveImageReset, WriteActiveImageReset, ActiveImageReset
  <2>9. CASE SendSystemReset
    BY <1>1, <2>9 DEF SendSystemReset, WriteSystemReset, SystemReset
  <2>10. CASE ReceiveNotification BY <1>1, <2>10 DEF ReceiveNotification
  <2> QED BY <1>3, <2>1, <2>2, <2>3, <2>4, <2>5, <2>6, <2>7, <2>8, <2>9, <2>10 DEF ClientStep
<1>4. CASE DeviceTask
  BY <1>1, <1>4 DEF DeviceTask, AppTask, HandleStackReady, HandleConnected, HandleDisconnected,
     HandleParamUpdate, HandleValidFw, CompleteValidFw, BeginValidFw, EndValidFw
<1>5. CASE Connect \/ LoseLink BY <1>1, <1>5 DEF Connect, LinkUp, LoseLink, LinkDown
<1>6. CASE TimerStep \/ ParamProcedure \/ SendConnParaUpdateReq
  BY <1>1, <1>6, TimerMoves DEF ParamProcedure, ParamUpdated, SendConnParaUpdateReq,
                    WriteConnParaUpdateReq
<1>7. CASE RestartAfterReset \/ PowerLoss BY <1>2, <1>7 DEF RestartAfterReset, PowerLoss
<1>8. CASE UNCHANGED vars BY <1>1, <1>8 DEF vars, deviceVars
<1> QED BY <1>3, <1>4, <1>5, <1>6, <1>7, <1>8 DEF Next

LEMMA PrefixInit == Init => PrefixInv
<1> SUFFICES ASSUME Init PROVE PrefixInv OBVIOUS
<1>1. NoPlace BY DEF Init, DeviceInit, ServiceInit, NoPlace, NoInfo
<1> QED BY <1>1, TransferInit DEF PrefixInv

LEMMA PrefixNext ==
  BankSwitch /\ TypeInv /\ WindowInv /\ PrefixInv /\ [Next]_vars => PrefixInv'
<1> SUFFICES ASSUME BankSwitch, TypeInv, WindowInv, PrefixInv, [Next]_vars PROVE PrefixInv'
  OBVIOUS
<1>1. RollbackInPlace
  BY PlaceZero DEF RollbackInPlace, PrefixInv, TypeInv, TypeOK
<1> QED BY <1>1, TransferNext, NoPlaceStep DEF PrefixInv

(* What the transfer keeps is what PrefixIntact says.                      *)
LEMMA PrefixSeen ==
  ASSUME TransferInv
  PROVE  PrefixIntact
BY DEF PrefixIntact, TransferInv, PrefixInFlash, Prefix, Sound

(* With two banks every cell below the offset the device reports is in the *)
(* flash at its place, as it was sent or as a damaged packet brought it:   *)
(* failing writes, rollbacks, resends and the erases of the next sector    *)
(* never reach back.  Without a second bank this is false: the erase after *)
(* a failed write leaves out the place of the image in the temp bank.      *)
THEOREM PrefixIntactTheorem == BankSwitch => (Spec => []PrefixIntact)
<1> SUFFICES ASSUME BankSwitch PROVE Spec => []PrefixIntact OBVIOUS
<1> DEFINE IInv == TypeInv /\ WindowInv /\ PrefixInv
<1>1. Init => IInv BY TypeInit, WindowInit, PrefixInit
<1>2. IInv /\ [Next]_vars => IInv' BY TypeNext, WindowNext, PrefixNext
<1>3. IInv => PrefixIntact BY PrefixSeen DEF PrefixInv
<1> QED BY <1>1, <1>2, <1>3, PTL DEF Spec

==============================================================================
