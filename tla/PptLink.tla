------------------------------- MODULE PptLink -------------------------------
(***************************************************************************)
(* Two devices with the 2.4 GHz driver: one runs the transmitting demo     *)
(* (ppt_ptx.c), the other the receiving one (ppt_prx.c), over air that     *)
(* loses and damages packets.  On each device a task, the interrupt        *)
(* handler and the radio take turns.  The radio is external.               *)
(***************************************************************************)
EXTENDS PptDriver

CONSTANTS
  MaxTimes,     \* bound: retransmit_times
  MaxBurst,     \* bound: packets pushed before a transmission; the demo pushes one
  MaxScans      \* bound: psd scans before the receiver listens

ASSUME LinkAssumption ==
  /\ MaxTimes \in Nat /\ MaxScans \in Nat
  /\ MaxBurst \in Nat \ {0}

VARIABLES
  dev,      \* the two devices
  mode,     \* their modes, set once
  pc,       \* where their tasks are
  pushed,   \* packets the transmitting task has pushed
  onAir,    \* transmissions since the last push
  scans,    \* psd scans done
  got       \* what the receiving handler took from the fifo

vars == <<dev, mode, pc, pushed, onAir, scans, got>>

End == {"tx", "rx"}

Init ==
  /\ dev = [e \in End |-> ppt_init]
  /\ \E ta, tp, ra, rc \in BOOLEAN, n \in 0 .. MaxTimes :
       mode = [tx |-> ppt_set_ptx_mode_ext(ta, tp, n), rx |-> ppt_set_prx_mode_ext(ra, rc)]
  /\ pc = [tx |-> "push", rx |-> "scan"]
  /\ pushed = 0 /\ onAir = 0 /\ scans = 0 /\ got = <<>>

Step(e, d, next) == dev' = [dev EXCEPT ![e] = d] /\ pc' = [pc EXCEPT ![e] = next]
Idle(d) == /\ d.radio = "idle" /\ ~d.tx_int /\ d.rx_int = "none" /\ ~d.kill_int /\ ~d.psd_int

-----------------------------------------------------------------------------
(* The tasks.                                                              *)

TxPush ==
  /\ pc.tx = "push" \/ (pc.tx = "ready" /\ Len(dev.tx.ring) < MaxBurst)
  /\ pushed < MaxPayload
  /\ Step("tx", ppt_push_tx_data(dev.tx, pushed + 1), "ready")
  /\ pushed' = pushed + 1 /\ onAir' = 0
  /\ UNCHANGED <<mode, scans, got>>

RxPush ==
  /\ pc.rx = "push"
  /\ Step("rx", ppt_push_tx_data(dev.rx, 1), "ready")
  /\ UNCHANGED <<mode, pushed, onAir, scans, got>>

Scan ==
  /\ pc.rx = "scan"
  /\ IF scans < MaxScans
     THEN /\ dev.rx.fsm = "STANDBY"
          /\ Step("rx", ppt_enable_psd(dev.rx), "psd")
          /\ scans' = scans + 1
     ELSE /\ pc' = [pc EXCEPT !.rx = "push"]
          /\ UNCHANGED <<dev, scans>>
  /\ UNCHANGED <<mode, pushed, onAir, got>>
ScanExecute ==
  /\ pc.rx = "psd"
  /\ Step("rx", ppt_execute_instruction(dev.rx, "psd"), "scanning")
  /\ UNCHANGED <<mode, pushed, onAir, scans, got>>
(* The psd handler sets the state itself.                                  *)
Scanned ==
  /\ pc.rx = "scanning" /\ ~dev.rx.sync_flag
  /\ pc' = [pc EXCEPT !.rx = "scan"]
  /\ UNCHANGED <<dev, mode, pushed, onAir, scans, got>>

Enable(e) ==
  /\ pc[e] = "ready" /\ dev[e].fsm = "STANDBY"
  /\ Step(e, IF e = "tx" THEN ppt_enable_ptx(dev.tx, mode.tx) ELSE ppt_enable_prx(dev.rx), "enabled")
  /\ UNCHANGED <<mode, pushed, onAir, scans, got>>

(* The instruction; the call then waits, unless it has a callback: the     *)
(* receiver listens continuously in this way.                              *)
Execute(e) ==
  /\ pc[e] = "enabled"
  /\ Step(e, ppt_execute_instruction(dev[e], IF e = "tx" THEN "ptx" ELSE "prx"),
          IF e = "rx" /\ ~mode.rx.oneshot THEN "running" ELSE "spin")
  /\ UNCHANGED <<mode, pushed, onAir, scans, got>>

(* ppt_disable_prx without callback: the state is checked, then the flag   *)
(* raised, then the instruction given.                                     *)
DisableCheck ==
  /\ pc.rx = "running"
  /\ pc' = [pc EXCEPT !.rx = IF dev.rx.fsm = "PRX" THEN "checked" ELSE "ready"]
  /\ UNCHANGED <<dev, mode, pushed, onAir, scans, got>>
DisableArm ==
  /\ pc.rx = "checked"
  /\ Step("rx", [dev.rx EXCEPT !.sync_flag = TRUE], "armed")
  /\ UNCHANGED <<mode, pushed, onAir, scans, got>>
DisableExecute ==
  /\ pc.rx = "armed"
  /\ Step("rx", ppt_execute_instruction(dev.rx, "prx_stop"), "spin")
  /\ UNCHANGED <<mode, pushed, onAir, scans, got>>

(* The call without callback returns.                                      *)
Return(e) ==
  /\ pc[e] = "spin" /\ ~dev[e].sync_flag
  /\ Step(e, Returned(dev[e]), IF e = "tx" THEN "push" ELSE "ready")
  /\ UNCHANGED <<mode, pushed, onAir, scans, got>>

Task(e) == Enable(e) \/ Execute(e) \/ Return(e)
TxTask == TxPush \/ Task("tx")
RxTask == Scan \/ ScanExecute \/ Scanned \/ RxPush \/ Task("rx") \/ DisableArm \/ DisableExecute

-----------------------------------------------------------------------------
(* The interrupts, each handled before the radio's next one.               *)

Interrupt(d) == d.tx_int \/ d.rx_int # "none" \/ d.kill_int
TxIsr ==
  /\ Interrupt(dev.tx)
  /\ dev' = [dev EXCEPT !.tx = PtxIsr(dev.tx, mode.tx)]
  /\ UNCHANGED <<mode, pc, pushed, onAir, scans, got>>
RxIsr ==
  /\ Interrupt(dev.rx)
  /\ dev' = [dev EXCEPT !.rx = PrxIsr(dev.rx, mode.rx)]
  /\ got' = got \o Handed(dev.rx)
  /\ UNCHANGED <<mode, pc, pushed, onAir, scans>>
PsdIsr ==
  /\ dev.rx.psd_int
  /\ dev' = [dev EXCEPT !.rx = ppt_psd_isr_handler_imp(dev.rx)]
  /\ UNCHANGED <<mode, pc, pushed, onAir, scans, got>>

-----------------------------------------------------------------------------
(* The radios (external).  turn: a packet was sent or received and the     *)
(* other direction comes next.                                             *)

Listening == dev.rx.radio = "prx" /\ ~dev.rx.turn /\ dev.rx.rx_int = "none"
Heard(d, m, outcome, data) ==
  [d EXCEPT !.rx_int = outcome, !.rx_fifo = data, !.turn = m.ack,
            !.radio = IF m.oneshot /\ ~m.ack THEN "idle" ELSE "prx"]

(* What the buffer holds goes on air, once per round.                      *)
Transmit ==
  /\ dev.tx.radio = "ptx" /\ ~dev.tx.turn /\ ~Interrupt(dev.tx) /\ dev.tx.ring # <<>>
  /\ onAir' = onAir + 1
  /\ LET sent == [dev.tx EXCEPT !.tx_int = TRUE, !.turn = mode.tx.ack,
                    !.radio = IF mode.tx.oneshot /\ ~mode.tx.ack THEN "idle" ELSE "ptx"]
     IN \/ dev' = [dev EXCEPT !.tx = sent]
        \/ /\ Listening
           /\ \E heard \in {Heard(dev.rx, mode.rx, "good", dev.tx.tx_buffer),
                            Heard(dev.rx, mode.rx, "bad", 0)} :
                dev' = [tx |-> sent, rx |-> heard]
  /\ UNCHANGED <<mode, pc, pushed, scans, got>>

(* The response, or the end of the wait for it.                            *)
Responded(outcome) ==
  [dev.tx EXCEPT !.rx_int = outcome, !.turn = FALSE,
                 !.radio = IF mode.tx.oneshot THEN "idle" ELSE "ptx"]
Answer ==
  /\ dev.rx.radio = "prx" /\ dev.rx.turn /\ dev.rx.rx_int = "none"
  /\ LET sent == [dev.rx EXCEPT !.tx_int = TRUE, !.turn = FALSE,
                    !.radio = IF mode.rx.oneshot THEN "idle" ELSE "prx"]
     IN \/ dev' = [dev EXCEPT !.rx = sent]
        \/ /\ dev.tx.radio = "ptx" /\ dev.tx.turn
           /\ \E outcome \in {"good", "bad"} : dev' = [tx |-> Responded(outcome), rx |-> sent]
  /\ UNCHANGED <<mode, pc, pushed, onAir, scans, got>>
NoAnswer ==
  /\ dev.tx.radio = "ptx" /\ dev.tx.turn
  /\ dev' = [dev EXCEPT !.tx = Responded("timeout")]
  /\ UNCHANGED <<mode, pc, pushed, onAir, scans, got>>
NothingHeard ==
  /\ Listening /\ mode.rx.oneshot
  /\ dev' = [dev EXCEPT !.rx = [dev.rx EXCEPT !.rx_int = "timeout", !.radio = "idle"]]
  /\ UNCHANGED <<mode, pc, pushed, onAir, scans, got>>

Stopped(e) ==
  /\ dev[e].radio \in {"ptx_stop", "prx_stop"}
  /\ dev' = [dev EXCEPT ![e] = [dev[e] EXCEPT !.radio = "idle", !.turn = FALSE, !.kill_int = TRUE]]
  /\ UNCHANGED <<mode, pc, pushed, onAir, scans, got>>
ScanEnds ==
  /\ dev.rx.radio = "psd"
  /\ dev' = [dev EXCEPT !.rx = [dev.rx EXCEPT !.radio = "idle", !.psd_int = TRUE]]
  /\ UNCHANGED <<mode, pc, pushed, onAir, scans, got>>

TxRadio == Transmit \/ NoAnswer \/ Stopped("tx")
RxRadio == Answer \/ Stopped("rx") \/ ScanEnds

Next ==
  \/ TxTask \/ TxIsr \/ TxRadio
  \/ RxTask \/ RxIsr \/ PsdIsr \/ RxRadio
  \/ DisableCheck \/ NothingHeard
Spec == Init /\ [][Next]_vars
(* The tasks run, interrupts are handled, and a radio that is switched on  *)
(* does what it was told.  Nothing makes the task stop listening, and      *)
(* nothing is heard for as long as the air pleases.                        *)
FairSpec ==
  /\ Spec
  /\ WF_vars(TxTask) /\ WF_vars(TxIsr) /\ WF_vars(TxRadio)
  /\ WF_vars(RxTask) /\ WF_vars(RxIsr) /\ WF_vars(PsdIsr) /\ WF_vars(RxRadio)

-----------------------------------------------------------------------------
(* The types.                                                              *)
TypeOK ==
  /\ dev \in [End -> Device]
  /\ mode \in [End -> Mode]
  /\ pc \in [End -> {"scan", "psd", "scanning", "push", "ready", "enabled", "running",
                     "checked", "armed", "spin"}]
  /\ pushed \in 0 .. MaxPayload /\ onAir \in Nat /\ scans \in 0 .. MaxScans
  /\ got \in Seq(Payload)

(* A call without callback returns only when the procedure is done: the    *)
(* radio is idle and no interrupt of it is still to come, so that nothing  *)
(* of this procedure can end the next one.                                 *)
SyncMeansIdle == \A e \in End : pc[e] \in {"push", "ready"} => Idle(dev[e])

(* A packet in the fifo is sent from tx_buffer: until it is acknowledged   *)
(* the buffer holds what was pushed.                                       *)
PendingDataValid ==
  \A e \in End : \A i \in DOMAIN dev[e].ring : dev[e].ring[i] = dev[e].tx_buffer

(* The number of free places is what the fifo leaves.                      *)
FreePlaces == \A e \in End : dev[e].free_segs + Len(dev[e].ring) = PPT_TX_FIFO_SIZE

(* When the call that sends a packet has returned, the packet was on air   *)
(* once and retransmit_times more, and has left the fifo.                  *)
SentAsAsked ==
  pc.tx = "push" /\ pushed > 0
    => onAir = mode.tx.retransmit_times + 1 /\ dev.tx.ring = <<>>

(* The receiver hands on packets in the order they were pushed, repeated   *)
(* or lost, none invented.                                                 *)
InOrder ==
  /\ \A i \in DOMAIN got : got[i] \in 1 .. pushed
  /\ \A i \in 2 .. Len(got) : got[i - 1] <= got[i]

(* The state of the driver follows the radio: in STANDBY nothing is on,    *)
(* and while a scan runs the power manager keeps the chip awake.           *)
StandbyIsIdle ==
  \A e \in End : /\ dev[e].fsm = "STANDBY" => dev[e].radio = "idle"
                 /\ dev[e].radio = "psd" => ~dev[e].dlps_mac_idle

(* Every call without callback returns: the task that spins on sync_flag   *)
(* is released by an interrupt, the receiver's once something was heard.   *)
SyncReturns ==
  /\ pc.tx = "spin" ~> pc.tx # "spin"
  /\ pc.rx = "spin" /\ (dev.rx.radio = "prx" => dev.rx.turn) ~> pc.rx # "spin"
  /\ pc.rx = "scanning" ~> pc.rx # "scanning"
=============================================================================
