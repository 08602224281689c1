------------------------------ MODULE PptProofs ------------------------------
(***************************************************************************)
(* Theorems about the two devices, for every size of the fifo, number of   *)
(* packets, rounds and scans.                                              *)
(*                                                                         *)
(* The argument follows a procedure of the transmitter and one of the      *)
(* receiver through their phases: armed, sending or listening, stopping,   *)
(* over.  TxInv and RxInv say which phase goes with which place of the     *)
(* task, and every step keeps them.                                        *)
(***************************************************************************)
EXTENDS PptLink, SequenceTheorems, TLAPS

Quiet(d) == ~d.tx_int /\ d.rx_int = "none" /\ ~d.kill_int

(* A round that is on air or whose end is not handled yet.                 *)
Rounding(d, m) == IF m.ack THEN d.turn \/ d.rx_int # "none" ELSE d.tx_int

Sending(d, m, n) ==
  /\ d.sync_flag /\ d.fsm = "PTX" /\ d.ring # <<>> /\ ~d.kill_int
  /\ d.retransmit_counter <= m.retransmit_times
  /\ n + d.retransmit_counter = m.retransmit_times + (IF Rounding(d, m) THEN 1 ELSE 0)
  /\ d.turn => m.ack
  /\ d.rx_int # "none" => m.ack /\ ~d.turn
  /\ d.tx_int => Rounding(d, m)
  /\ d.radio = IF m.oneshot /\ Rounding(d, m) /\ ~d.turn THEN "idle" ELSE "ptx"
TxStopping(d, m, n) ==
  /\ d.sync_flag /\ d.fsm = "PTX" /\ ~m.oneshot /\ ~d.turn
  /\ ~d.tx_int /\ d.rx_int = "none"
  /\ d.radio = IF d.kill_int THEN "idle" ELSE "ptx_stop"
  /\ n = m.retransmit_times + 1
Over(d) == ~d.sync_flag /\ d.fsm = "STANDBY" /\ d.radio = "idle" /\ Quiet(d) /\ ~d.turn

(* The transmitter: its device d, its mode m, the place p of its task and  *)
(* the number n of transmissions since the last push.                      *)
TxInv(d, m, p, n, k) ==
  /\ d \in Device /\ m \in Mode /\ n \in Nat /\ k \in 0 .. MaxPayload
  /\ m.oneshot => m.retransmit_times = 0
  /\ ~d.psd_int /\ d.dlps_mac_idle
  /\ d.free_segs + Len(d.ring) = PPT_TX_FIFO_SIZE
  /\ p \in {"push", "ready", "enabled", "spin"}
  /\ p \in {"push", "ready"} => Over(d)
  /\ p \in {"ready", "enabled"} => n = 0 /\ d.ring # <<>>
  /\ p = "push" /\ k > 0 => n = m.retransmit_times + 1
  /\ p = "enabled" =>
       /\ d.sync_flag /\ d.fsm = "PTX" /\ d.radio = "idle" /\ Quiet(d) /\ ~d.turn
       /\ d.retransmit_counter = m.retransmit_times
  /\ p = "spin" =>
       Sending(d, m, n) \/ TxStopping(d, m, n) \/ (Over(d) /\ n = m.retransmit_times + 1)

(* The packet has left the fifo.                                           *)
Gone(d, p) ==
  \/ p = "push"
  \/ p = "spin" /\ (~d.sync_flag \/ d.radio = "ptx_stop" \/ d.kill_int)

(* One packet at a time: the fifo holds what the buffer holds.             *)
Single(d, p) ==
  /\ Len(d.ring) <= 1
  /\ \A i \in DOMAIN d.ring : d.ring[i] = d.tx_buffer
  /\ Gone(d, p) => d.ring = <<>>

Listens(d, m) ==
  /\ d.sync_flag /\ d.fsm = "PRX" /\ ~d.psd_int
  /\ m.oneshot =>
       /\ ~d.kill_int
       /\ d.turn => m.ack /\ d.rx_int # "timeout" /\ d.radio = "prx" /\ ~d.tx_int
       /\ d.rx_int # "none" /\ ~d.turn => d.radio = "idle" /\ (m.ack => d.rx_int = "timeout")
       /\ d.tx_int => m.ack /\ d.radio = "idle" /\ d.rx_int = "none"
       /\ d.rx_int = "none" /\ ~d.tx_int => d.radio = "prx"
       /\ d.radio \in {"idle", "prx"}
RxInv(d, m, p, s) ==
  /\ d \in Device /\ m \in Mode /\ s \in 0 .. MaxScans
  /\ d.free_segs + Len(d.ring) = PPT_TX_FIFO_SIZE
  /\ d.radio \in {"idle", "prx", "prx_stop", "psd"}
  /\ p \in {"scan", "psd", "scanning", "push", "ready", "enabled", "running",
            "checked", "armed", "spin"}
  /\ p \in {"scan", "push", "ready"} => Over(d) /\ ~d.psd_int /\ d.dlps_mac_idle
  /\ p \in {"scan", "psd", "scanning", "push"} => d.ring = <<>>
  /\ p = "psd" =>
       /\ d.sync_flag /\ d.fsm = "PSD" /\ d.radio = "idle" /\ Quiet(d) /\ ~d.turn
       /\ ~d.psd_int /\ ~d.dlps_mac_idle
  /\ p = "scanning" =>
       \/ Over(d) /\ ~d.psd_int /\ d.dlps_mac_idle
       \/ /\ d.sync_flag /\ d.fsm = "PSD" /\ Quiet(d) /\ ~d.turn /\ ~d.dlps_mac_idle
          /\ d.radio = IF d.psd_int THEN "idle" ELSE "psd"
  /\ p \notin {"scan", "psd", "scanning", "push"} => ~d.psd_int /\ d.dlps_mac_idle /\ d.radio # "psd"
  /\ p = "enabled" => d.sync_flag /\ d.fsm = "PRX" /\ d.radio = "idle" /\ Quiet(d) /\ ~d.turn
  /\ p \in {"running", "checked", "armed"} =>
       /\ ~m.oneshot /\ d.sync_flag /\ d.fsm = "PRX" /\ d.radio = "prx" /\ ~d.kill_int
  /\ p = "spin" =>
       \/ Over(d)
       \/ m.oneshot /\ Listens(d, m)
       \/ /\ ~m.oneshot /\ d.sync_flag /\ d.fsm = "PRX"
          /\ d.radio = IF d.kill_int THEN "idle" ELSE "prx_stop"
          /\ d.kill_int => ~d.turn

Place == {"scan", "psd", "scanning", "push", "ready", "enabled", "running",
          "checked", "armed", "spin"}
Inv ==
  /\ dev \in [End -> Device] /\ mode \in [End -> Mode] /\ pc \in [End -> Place]
  /\ got \in Seq(Payload)
  /\ TxInv(dev.tx, mode.tx, pc.tx, onAir, pushed)
  /\ RxInv(dev.rx, mode.rx, pc.rx, scans)

-----------------------------------------------------------------------------
(* The transmitter, step by step.                                          *)

(* The values a device's fields have.                                      *)
LEMMA DeviceFields ==
  ASSUME NEW d \in Device
  PROVE /\ d.fsm \in Fsm /\ d.retransmit_counter \in Nat /\ d.sync_flag \in BOOLEAN
        /\ d.dlps_mac_idle \in BOOLEAN /\ d.tx_buffer \in Payload /\ d.free_segs \in Nat
        /\ d.ring \in Seq(Payload) /\ d.radio \in Radio /\ d.turn \in BOOLEAN
        /\ d.rx_fifo \in Payload /\ d.tx_int \in BOOLEAN /\ d.rx_int \in RxOutcome
        /\ d.kill_int \in BOOLEAN /\ d.psd_int \in BOOLEAN
BY DEF Device

LEMMA ModeFields ==
  ASSUME NEW m \in Mode
  PROVE m.ack \in BOOLEAN /\ m.oneshot \in BOOLEAN /\ m.retransmit_times \in Nat
BY DEF Mode

LEMMA TxPushInv ==
  ASSUME NEW d, NEW m, NEW n, NEW k, NEW p \in {"push", "ready"},
         TxInv(d, m, p, n, k), k < MaxPayload
  PROVE TxInv(ppt_push_tx_data(d, k + 1), m, "ready", 0, k + 1)
<1> DEFINE r == ppt_push_tx_data(d, k + 1)
<1>1. d \in Device /\ m \in Mode /\ Over(d) /\ k + 1 \in 0 .. MaxPayload /\ k + 1 \in Payload
  BY PptAssumption DEF TxInv, PptAssumption, Payload
<1>2. CASE d.free_segs = 0
  <2>1. r = [d EXCEPT !.tx_buffer = k + 1]
    BY <1>2 DEF ppt_push_tx_data
  <2>2. d.ring # <<>>
    BY <1>1, <1>2, DeviceFields, PptAssumption DEF TxInv, PptAssumption
  <2> QED
    BY <1>1, <2>1, <2>2 DEF TxInv, Over, Quiet, Device
<1>3. CASE d.free_segs # 0
  <2>1. r = [d EXCEPT !.tx_buffer = k + 1, !.ring = Append(d.ring, k + 1), !.free_segs = d.free_segs - 1]
    BY <1>3 DEF ppt_push_tx_data
  <2>2. /\ Append(d.ring, k + 1) \in Seq(Payload) /\ Len(Append(d.ring, k + 1)) = Len(d.ring) + 1
        /\ Append(d.ring, k + 1) # <<>> /\ d.free_segs - 1 \in Nat
        /\ d.free_segs - 1 + (Len(d.ring) + 1) = PPT_TX_FIFO_SIZE
    BY <1>1, <1>3, DeviceFields DEF TxInv
  <2>3. r \in Device
    BY <1>1, <2>1, <2>2 DEF Device
  <2>4. /\ r.fsm = d.fsm /\ r.retransmit_counter = d.retransmit_counter
        /\ r.sync_flag = d.sync_flag /\ r.dlps_mac_idle = d.dlps_mac_idle
        /\ r.tx_buffer = k + 1 /\ r.free_segs = d.free_segs - 1
        /\ r.ring = Append(d.ring, k + 1) /\ r.radio = d.radio /\ r.turn = d.turn
        /\ r.tx_int = d.tx_int /\ r.rx_int = d.rx_int /\ r.kill_int = d.kill_int
        /\ r.psd_int = d.psd_int
    BY <1>1, <2>1 DEF Device
  <2> QED
    BY <1>1, <2>2, <2>3, <2>4 DEF TxInv, Over, Quiet
<1> QED
  BY <1>2, <1>3

LEMMA TxEnableInv ==
  ASSUME NEW d, NEW m, NEW n, NEW k, TxInv(d, m, "ready", n, k)
  PROVE TxInv(ppt_enable_ptx(d, m), m, "enabled", n, k)
BY ModeFields DEF TxInv, ppt_enable_ptx, Over, Quiet, Device, Fsm

LEMMA TxExecuteInv ==
  ASSUME NEW d, NEW m, NEW n, NEW k, TxInv(d, m, "enabled", n, k)
  PROVE TxInv(ppt_execute_instruction(d, "ptx"), m, "spin", n, k)
BY DEF TxInv, ppt_execute_instruction, Sending, Rounding, Quiet, Device, Radio, Mode

LEMMA TxReturnInv ==
  ASSUME NEW d, NEW m, NEW n, NEW k, TxInv(d, m, "spin", n, k), ~d.sync_flag
  PROVE TxInv(Returned(d), m, "push", n, k)
BY DEF TxInv, Returned, Sending, TxStopping, Over, Quiet, Device, Fsm

(* What a handler that makes r of d does to the fifo: the packet leaves    *)
(* it, or the procedure goes on, or it was being stopped.                  *)
Fifo(d, r) ==
  /\ r.tx_buffer = d.tx_buffer
  /\ \/ r.ring = Tail(d.ring)
     \/ /\ r.ring = d.ring
        /\ d.kill_int \/ (r.sync_flag = d.sync_flag /\ r.radio = d.radio /\ r.kill_int = d.kill_int)

(* The end of a round: d before it, its interrupt taken.                   *)
LEMMA RoundInv ==
  ASSUME NEW d \in Device, NEW m \in Mode, NEW n \in Nat,
         m.oneshot => m.retransmit_times = 0,
         ~d.psd_int, d.dlps_mac_idle, d.free_segs + Len(d.ring) = PPT_TX_FIFO_SIZE,
         d.sync_flag, d.fsm = "PTX", d.ring # <<>>, Quiet(d), ~d.turn,
         d.retransmit_counter <= m.retransmit_times,
         n + d.retransmit_counter = m.retransmit_times + 1,
         d.radio = IF m.oneshot THEN "idle" ELSE "ptx",
         NEW r, r = PacketRound(d, m)
  PROVE /\ r \in Device /\ ~r.psd_int /\ r.dlps_mac_idle /\ Quiet(r)
        /\ r.free_segs + Len(r.ring) = PPT_TX_FIFO_SIZE
        /\ Sending(r, m, n) \/ TxStopping(r, m, n) \/ (Over(r) /\ n = m.retransmit_times + 1)
        /\ Fifo(d, r)
<1> DEFINE a == ppt_trigger_fw_ack(d)
<1>0. /\ d.retransmit_counter \in Nat /\ d.ring \in Seq(Payload) /\ d.free_segs \in Nat
      /\ m.retransmit_times \in Nat /\ m.oneshot \in BOOLEAN
      /\ ~d.tx_int /\ d.rx_int = "none" /\ ~d.kill_int
  BY DeviceFields, ModeFields DEF Quiet
<1>1. /\ Tail(d.ring) \in Seq(Payload) /\ Len(Tail(d.ring)) = Len(d.ring) - 1
      /\ d.free_segs + 1 \in Nat /\ (d.free_segs + 1) + (Len(d.ring) - 1) = PPT_TX_FIFO_SIZE
  BY <1>0
<1>2. /\ a \in Device /\ a.tx_buffer = d.tx_buffer
      /\ a.fsm = d.fsm /\ a.retransmit_counter = d.retransmit_counter
      /\ a.sync_flag = d.sync_flag /\ a.dlps_mac_idle = d.dlps_mac_idle
      /\ a.free_segs = d.free_segs + 1 /\ a.ring = Tail(d.ring)
      /\ a.radio = d.radio /\ a.turn = d.turn /\ a.tx_int = d.tx_int
      /\ a.rx_int = d.rx_int /\ a.kill_int = d.kill_int /\ a.psd_int = d.psd_int
  <2>1. a = [d EXCEPT !.free_segs = d.free_segs + 1, !.ring = Tail(d.ring)]
    BY DEF ppt_trigger_fw_ack
  <2> QED
    BY <1>1, <2>1 DEF Device
<1>3. CASE d.retransmit_counter = 0 /\ m.oneshot
  <2>1. r = [a EXCEPT !.fsm = "STANDBY", !.sync_flag = FALSE]
    BY <1>3 DEF PacketRound, LastRound
  <2> HIDE DEF a
  <2>2. /\ r \in Device /\ r.tx_buffer = a.tx_buffer
        /\ r.fsm = "STANDBY" /\ r.retransmit_counter = a.retransmit_counter
        /\ r.sync_flag = FALSE /\ r.dlps_mac_idle = a.dlps_mac_idle
        /\ r.free_segs = a.free_segs /\ r.ring = a.ring /\ r.radio = a.radio
        /\ r.turn = a.turn /\ r.tx_int = a.tx_int /\ r.rx_int = a.rx_int
        /\ r.kill_int = a.kill_int /\ r.psd_int = a.psd_int
    BY <1>2, <2>1 DEF Device, Fsm
  <2>3. Over(r) /\ n = m.retransmit_times + 1
    BY <1>0, <1>2, <1>3, <2>2 DEF Over, Quiet
  <2> QED
    BY <1>0, <1>1, <1>2, <2>2, <2>3 DEF Quiet, Fifo
<1>4. CASE d.retransmit_counter = 0 /\ ~m.oneshot
  <2>1. r = [a EXCEPT !.radio = "ptx_stop"]
    BY <1>4 DEF PacketRound, LastRound, ppt_execute_instruction
  <2> HIDE DEF a
  <2>2. /\ r \in Device /\ r.tx_buffer = a.tx_buffer
        /\ r.fsm = a.fsm /\ r.retransmit_counter = a.retransmit_counter
        /\ r.sync_flag = a.sync_flag /\ r.dlps_mac_idle = a.dlps_mac_idle
        /\ r.free_segs = a.free_segs /\ r.ring = a.ring /\ r.radio = "ptx_stop"
        /\ r.turn = a.turn /\ r.tx_int = a.tx_int /\ r.rx_int = a.rx_int
        /\ r.kill_int = a.kill_int /\ r.psd_int = a.psd_int
    BY <1>2, <2>1 DEF Device, Radio
  <2>3. TxStopping(r, m, n)
    BY <1>0, <1>2, <1>4, <2>2 DEF TxStopping
  <2> QED
    BY <1>0, <1>1, <1>2, <2>2, <2>3 DEF Quiet, Fifo
<1>5. CASE d.retransmit_counter # 0
  <2>1. r = [d EXCEPT !.retransmit_counter = d.retransmit_counter - 1]
    BY <1>5 DEF PacketRound
  <2>2. ~m.oneshot /\ d.retransmit_counter - 1 \in Nat
    BY <1>0, <1>5
  <2>3. /\ r \in Device /\ r.tx_buffer = d.tx_buffer
        /\ r.fsm = d.fsm /\ r.retransmit_counter = d.retransmit_counter - 1
        /\ r.sync_flag = d.sync_flag /\ r.dlps_mac_idle = d.dlps_mac_idle
        /\ r.free_segs = d.free_segs /\ r.ring = d.ring /\ r.radio = d.radio
        /\ r.turn = d.turn /\ r.tx_int = d.tx_int /\ r.rx_int = d.rx_int
        /\ r.kill_int = d.kill_int /\ r.psd_int = d.psd_int
    BY <2>1, <2>2 DEF Device
  <2>4. ~Rounding(r, m)
    BY <1>0, <2>3 DEF Rounding
  <2>5. Sending(r, m, n)
    <3>1. n + r.retransmit_counter = m.retransmit_times /\ r.retransmit_counter <= m.retransmit_times
      BY <1>0, <2>2, <2>3
    <3> QED
      BY <1>0, <2>2, <2>3, <2>4, <3>1 DEF Sending
  <2> QED
    BY <1>0, <2>3, <2>5 DEF Quiet, Fifo
<1> QED
  BY <1>3, <1>4, <1>5

(* The interrupt handler of the transmitter.                               *)
LEMMA TxIsrInv ==
  ASSUME NEW d, NEW m, NEW p, NEW n, NEW k, TxInv(d, m, p, n, k), Interrupt(d),
         NEW r, r = PtxIsr(d, m)
  PROVE TxInv(r, m, p, n, k) /\ Fifo(d, r)
<1>0. /\ d \in Device /\ m \in Mode /\ n \in Nat /\ ~d.psd_int /\ d.dlps_mac_idle
      /\ m.oneshot => m.retransmit_times = 0
      /\ d.free_segs + Len(d.ring) = PPT_TX_FIFO_SIZE /\ k \in 0 .. MaxPayload
      /\ p = "spin" /\ (Sending(d, m, n) \/ TxStopping(d, m, n))
  BY DEF TxInv, Interrupt, Over, Quiet
<1>1. SUFFICES
        /\ r \in Device /\ ~r.psd_int /\ r.dlps_mac_idle
        /\ r.free_segs + Len(r.ring) = PPT_TX_FIFO_SIZE
        /\ Sending(r, m, n) \/ TxStopping(r, m, n) \/ (Over(r) /\ n = m.retransmit_times + 1)
        /\ Fifo(d, r)
  BY <1>0 DEF TxInv
<1>2. CASE TxStopping(d, m, n)
  <2>1. d.kill_int /\ ~d.tx_int /\ d.rx_int = "none" /\ d.radio = "idle" /\ ~d.turn
    BY <1>2 DEF TxStopping, Interrupt
  <2>2. r = [d EXCEPT !.kill_int = FALSE, !.rx_fifo = 0, !.fsm = "STANDBY", !.sync_flag = FALSE]
    BY <2>1 DEF PtxIsr, PtxSent, PtxReceived, Killed
  <2>3. /\ r \in Device /\ r.tx_buffer = d.tx_buffer
        /\ r.fsm = "STANDBY" /\ r.retransmit_counter = d.retransmit_counter
        /\ r.sync_flag = FALSE /\ r.dlps_mac_idle = d.dlps_mac_idle
        /\ r.free_segs = d.free_segs /\ r.ring = d.ring /\ r.radio = d.radio
        /\ r.turn = d.turn /\ r.rx_fifo = 0 /\ r.tx_int = d.tx_int
        /\ r.rx_int = d.rx_int /\ r.kill_int = FALSE /\ r.psd_int = d.psd_int
    <3>1. 0 \in Payload
      BY PptAssumption DEF PptAssumption, Payload
    <3> QED
      BY <1>0, <2>2, <3>1 DEF Device, Fsm
  <2>4. Over(r) /\ n = m.retransmit_times + 1
    BY <1>2, <2>1, <2>3 DEF Over, Quiet, TxStopping
  <2> QED
    BY <1>0, <2>1, <2>3, <2>4 DEF Fifo
<1>3. CASE Sending(d, m, n)
  <2> DEFINE e == [d EXCEPT !.tx_int = FALSE]
             f == [e EXCEPT !.rx_int = "none"]
  <2>1. /\ e \in Device /\ e.tx_buffer = d.tx_buffer
        /\ e.fsm = d.fsm /\ e.retransmit_counter = d.retransmit_counter
        /\ e.sync_flag = d.sync_flag /\ e.dlps_mac_idle = d.dlps_mac_idle
        /\ e.free_segs = d.free_segs /\ e.ring = d.ring /\ e.radio = d.radio
        /\ e.turn = d.turn /\ e.tx_int = FALSE /\ e.rx_int = d.rx_int
        /\ e.kill_int = d.kill_int /\ e.psd_int = d.psd_int
    BY <1>0 DEF Device
  <2>2. /\ f \in Device /\ f.tx_buffer = e.tx_buffer
        /\ f.fsm = e.fsm /\ f.retransmit_counter = e.retransmit_counter
        /\ f.sync_flag = e.sync_flag /\ f.dlps_mac_idle = e.dlps_mac_idle
        /\ f.free_segs = e.free_segs /\ f.ring = e.ring /\ f.radio = e.radio
        /\ f.turn = e.turn /\ f.tx_int = e.tx_int /\ f.rx_int = "none"
        /\ f.kill_int = e.kill_int /\ f.psd_int = e.psd_int
    BY <2>1 DEF Device, RxOutcome
  <2> HIDE DEF e, f
  <2>3. /\ d.sync_flag /\ d.fsm = "PTX" /\ d.ring # <<>> /\ ~d.kill_int
        /\ d.retransmit_counter <= m.retransmit_times
        /\ n + d.retransmit_counter = m.retransmit_times + (IF Rounding(d, m) THEN 1 ELSE 0)
        /\ d.radio = IF m.oneshot /\ Rounding(d, m) /\ ~d.turn THEN "idle" ELSE "ptx"
        /\ d.turn => m.ack
        /\ d.rx_int # "none" => m.ack /\ ~d.turn
        /\ d.tx_int => Rounding(d, m)
    BY <1>3 DEF Sending
  <2>4. CASE ~m.ack
    <3>1. d.tx_int /\ d.rx_int = "none" /\ ~d.turn /\ Rounding(d, m)
      BY <2>3, <2>4 DEF Interrupt, Rounding
    <3>2. Quiet(e)
      BY <2>1, <2>3, <3>1 DEF Quiet
    <3> DEFINE q == PacketRound(e, m)
    <3>3. /\ q \in Device /\ ~q.psd_int /\ q.dlps_mac_idle /\ Quiet(q)
          /\ q.free_segs + Len(q.ring) = PPT_TX_FIFO_SIZE
          /\ Sending(q, m, n) \/ TxStopping(q, m, n) \/ (Over(q) /\ n = m.retransmit_times + 1)
          /\ Fifo(e, q)
      BY <1>0, <2>1, <2>3, <3>1, <3>2, RoundInv
    <3> HIDE DEF q
    <3>4. r = q
      <4>1. PtxSent(d, m) = q
        BY <2>4, <3>1 DEF PtxSent, q, e
      <4> QED
        BY <3>3, <4>1 DEF PtxIsr, PtxReceived, Killed, Quiet
    <3> QED
      BY <2>1, <3>3, <3>4 DEF Fifo
  <2>5. CASE m.ack /\ d.rx_int = "none"
    <3>1. PtxSent(d, m) = e
      <4>1. CASE d.tx_int
        BY <2>5, <4>1 DEF PtxSent, e
      <4>2. CASE ~d.tx_int
        <5>1. e = d
          BY <1>0, <4>2 DEF Device, e
        <5> QED
          BY <4>2, <5>1 DEF PtxSent
      <4> QED
        BY <4>1, <4>2
    <3>2. r = e
      BY <2>1, <2>3, <2>5, <3>1 DEF PtxIsr, PtxReceived, Killed
    <3>3. Rounding(e, m) <=> Rounding(d, m)
      BY <2>1, <2>5 DEF Rounding
    <3>4. Sending(e, m, n)
      BY <2>1, <2>3, <3>3 DEF Sending
    <3> QED
      BY <1>0, <2>1, <3>2, <3>4 DEF Fifo
  <2>6. CASE m.ack /\ d.rx_int # "none"
    <3>1. ~d.turn /\ Rounding(d, m)
      BY <2>3, <2>6 DEF Rounding
    <3>2. /\ Quiet(f) /\ ~f.psd_int /\ f.dlps_mac_idle
          /\ f.free_segs + Len(f.ring) = PPT_TX_FIFO_SIZE
          /\ f.sync_flag /\ f.fsm = "PTX" /\ f.ring # <<>> /\ ~f.turn
          /\ f.retransmit_counter <= m.retransmit_times
      BY <1>0, <2>1, <2>2, <2>3, <3>1 DEF Quiet
    <3>7. n + f.retransmit_counter = m.retransmit_times + 1
      BY <2>1, <2>2, <2>3, <3>1
    <3>8. f.radio = IF m.oneshot THEN "idle" ELSE "ptx"
      BY <2>1, <2>2, <2>3, <3>1
    <3> DEFINE q == PacketRound(f, m)
    <3>3. /\ q \in Device /\ ~q.psd_int /\ q.dlps_mac_idle /\ Quiet(q)
          /\ q.free_segs + Len(q.ring) = PPT_TX_FIFO_SIZE
          /\ Sending(q, m, n) \/ TxStopping(q, m, n) \/ (Over(q) /\ n = m.retransmit_times + 1)
          /\ Fifo(f, q)
      BY <1>0, <2>2, <3>2, <3>7, <3>8, RoundInv
    <3>4. PtxSent(d, m) = e
      <4>1. CASE d.tx_int
        BY <2>6, <4>1 DEF PtxSent, e
      <4>2. CASE ~d.tx_int
        <5>1. e = d
          BY <1>0, <4>2 DEF Device, e
        <5> QED
          BY <4>2, <5>1 DEF PtxSent
      <4> QED
        BY <4>1, <4>2
    <3> HIDE DEF q
    <3>5. PtxReceived(e, m) = q
      BY <2>1, <2>6 DEF PtxReceived, f, q
    <3>6. r = q
      BY <3>3, <3>4, <3>5 DEF PtxIsr, Killed, Quiet
    <3> QED
      BY <2>1, <2>2, <3>3, <3>6 DEF Fifo
  <2> QED
    BY <2>4, <2>5, <2>6
<1> QED
  BY <1>0, <1>2, <1>3

(* The radio of the transmitter.                                           *)
LEMMA TransmitInv ==
  ASSUME NEW d, NEW m, NEW p, NEW n, NEW k, TxInv(d, m, p, n, k),
         d.radio = "ptx", ~d.turn, ~Interrupt(d),
         NEW r, r = [d EXCEPT !.tx_int = TRUE, !.turn = m.ack,
                              !.radio = IF m.oneshot /\ ~m.ack THEN "idle" ELSE "ptx"]
  PROVE TxInv(r, m, p, n + 1, k)
<1>0. /\ d \in Device /\ m \in Mode /\ n \in Nat /\ p = "spin" /\ Sending(d, m, n)
      /\ ~d.tx_int /\ d.rx_int = "none" /\ ~Rounding(d, m)
  BY DEF TxInv, Over, TxStopping, Interrupt, Rounding
<1>1. /\ r \in Device
      /\ r.fsm = d.fsm /\ r.retransmit_counter = d.retransmit_counter
      /\ r.sync_flag = d.sync_flag /\ r.dlps_mac_idle = d.dlps_mac_idle
      /\ r.free_segs = d.free_segs /\ r.ring = d.ring
      /\ r.radio = (IF m.oneshot /\ ~m.ack THEN "idle" ELSE "ptx")
      /\ r.turn = m.ack /\ r.tx_int = TRUE /\ r.rx_int = d.rx_int
      /\ r.kill_int = d.kill_int /\ r.psd_int = d.psd_int
  BY <1>0, ModeFields DEF Device, Radio
<1>2. Rounding(r, m)
  BY <1>1 DEF Rounding
<1>3. Sending(r, m, n + 1)
  <2>1. (n + 1) + r.retransmit_counter = m.retransmit_times + 1
    <3>1. /\ d.retransmit_counter \in Nat /\ m.retransmit_times \in Nat /\ n \in Nat
          /\ r.retransmit_counter = d.retransmit_counter
      BY <1>0, <1>1, DeviceFields, ModeFields
    <3>2. n + d.retransmit_counter = m.retransmit_times + 0
      BY <1>0 DEF Sending
    <3> QED
      BY <3>1, <3>2
  <2> QED
    BY <1>0, <1>1, <1>2, <2>1, ModeFields DEF Sending, Rounding
<1> QED
  BY <1>0, <1>1, <1>3 DEF TxInv

LEMMA RespondedInv ==
  ASSUME NEW d, NEW m, NEW p, NEW n, NEW k, TxInv(d, m, p, n, k),
         d.radio = "ptx", d.turn, NEW outcome \in {"good", "bad", "timeout"},
         NEW r, r = [d EXCEPT !.rx_int = outcome, !.turn = FALSE,
                              !.radio = IF m.oneshot THEN "idle" ELSE "ptx"]
  PROVE TxInv(r, m, p, n, k)
<1>0. /\ d \in Device /\ m \in Mode /\ n \in Nat /\ p = "spin" /\ Sending(d, m, n)
      /\ m.ack /\ Rounding(d, m)
  BY DEF TxInv, Over, TxStopping, Sending, Rounding
<1>1. /\ r \in Device
      /\ r.fsm = d.fsm /\ r.retransmit_counter = d.retransmit_counter
      /\ r.sync_flag = d.sync_flag /\ r.dlps_mac_idle = d.dlps_mac_idle
      /\ r.free_segs = d.free_segs /\ r.ring = d.ring
      /\ r.radio = (IF m.oneshot THEN "idle" ELSE "ptx") /\ r.turn = FALSE
      /\ r.tx_int = d.tx_int /\ r.rx_int = outcome /\ r.kill_int = d.kill_int
      /\ r.psd_int = d.psd_int
  BY <1>0, ModeFields DEF Device, Radio, RxOutcome
<1>2. Rounding(r, m)
  BY <1>0, <1>1 DEF Rounding
<1>3. Sending(r, m, n)
  BY <1>0, <1>1, <1>2 DEF Sending
<1> QED
  BY <1>0, <1>1, <1>3 DEF TxInv

LEMMA TxStoppedInv ==
  ASSUME NEW d, NEW m, NEW p, NEW n, NEW k, TxInv(d, m, p, n, k),
         d.radio \in {"ptx_stop", "prx_stop"},
         NEW r, r = [d EXCEPT !.radio = "idle", !.turn = FALSE, !.kill_int = TRUE]
  PROVE TxInv(r, m, p, n, k)
<1>0. d \in Device /\ p = "spin" /\ TxStopping(d, m, n)
  BY DEF TxInv, Over, Sending
<1>1. /\ r \in Device
      /\ r.fsm = d.fsm /\ r.retransmit_counter = d.retransmit_counter
      /\ r.sync_flag = d.sync_flag /\ r.dlps_mac_idle = d.dlps_mac_idle
      /\ r.free_segs = d.free_segs /\ r.ring = d.ring /\ r.radio = "idle"
      /\ r.turn = FALSE /\ r.tx_int = d.tx_int /\ r.rx_int = d.rx_int
      /\ r.kill_int = TRUE /\ r.psd_int = d.psd_int
  BY <1>0 DEF Device, Radio
<1>2. TxStopping(r, m, n)
  BY <1>0, <1>1 DEF TxStopping
<1> QED
  BY <1>0, <1>1, <1>2 DEF TxInv

-----------------------------------------------------------------------------
(* The receiver, step by step.                                             *)

LEMMA ScanInv ==
  ASSUME NEW d, NEW m, NEW s, RxInv(d, m, "scan", s), s < MaxScans,
         NEW r, r = ppt_enable_psd(d)
  PROVE RxInv(r, m, "psd", s + 1)
<1>1. d \in Device /\ m \in Mode
  BY DEF RxInv
<1>2. /\ r \in Device /\ r.fsm = "PSD" /\ r.sync_flag = TRUE
      /\ r.dlps_mac_idle = FALSE /\ r.free_segs = d.free_segs
      /\ r.ring = d.ring /\ r.radio = d.radio /\ r.turn = d.turn
      /\ r.tx_int = d.tx_int /\ r.rx_int = d.rx_int
      /\ r.kill_int = d.kill_int /\ r.psd_int = d.psd_int
  BY <1>1, LinkAssumption DEF Device, Fsm, Radio, RxOutcome, ppt_enable_psd
<1> QED
  BY <1>1, <1>2, LinkAssumption DEF RxInv, Over, Quiet, LinkAssumption

LEMMA ScansDoneInv ==
  ASSUME NEW d, NEW m, NEW s, RxInv(d, m, "scan", s)
  PROVE RxInv(d, m, "push", s)
BY DEF RxInv

LEMMA ScanExecuteInv ==
  ASSUME NEW d, NEW m, NEW s, RxInv(d, m, "psd", s),
         NEW r, r = ppt_execute_instruction(d, "psd")
  PROVE RxInv(r, m, "scanning", s)
<1>1. d \in Device /\ m \in Mode
  BY DEF RxInv
<1>2. /\ r \in Device /\ r.fsm = d.fsm /\ r.sync_flag = d.sync_flag
      /\ r.dlps_mac_idle = d.dlps_mac_idle /\ r.free_segs = d.free_segs
      /\ r.ring = d.ring /\ r.radio = "psd" /\ r.turn = d.turn
      /\ r.tx_int = d.tx_int /\ r.rx_int = d.rx_int
      /\ r.kill_int = d.kill_int /\ r.psd_int = d.psd_int
  BY <1>1 DEF Device, Fsm, Radio, RxOutcome, ppt_execute_instruction
<1> QED
  BY <1>1, <1>2 DEF RxInv, Over, Quiet

LEMMA ScannedInv ==
  ASSUME NEW d, NEW m, NEW s, RxInv(d, m, "scanning", s), ~d.sync_flag
  PROVE RxInv(d, m, "scan", s)
BY DEF RxInv

LEMMA RxPushInv ==
  ASSUME NEW d, NEW m, NEW s, RxInv(d, m, "push", s),
         NEW r, r = ppt_push_tx_data(d, 1)
  PROVE RxInv(r, m, "ready", s)
<1>1. /\ d \in Device /\ m \in Mode /\ d.ring = <<>> /\ 1 \in Payload
      /\ d.free_segs \in Nat \ {0} /\ d.free_segs + 0 = PPT_TX_FIFO_SIZE
  BY DeviceFields, PptAssumption DEF RxInv, PptAssumption, Payload
<1>2. r = [d EXCEPT !.tx_buffer = 1, !.ring = Append(d.ring, 1), !.free_segs = d.free_segs - 1]
  BY <1>1 DEF ppt_push_tx_data
<1>3. /\ Append(d.ring, 1) \in Seq(Payload) /\ Len(Append(d.ring, 1)) = 1
      /\ d.free_segs - 1 \in Nat /\ (d.free_segs - 1) + 1 = PPT_TX_FIFO_SIZE
  BY <1>1, DeviceFields
<1>4. /\ r \in Device /\ r.fsm = d.fsm /\ r.sync_flag = d.sync_flag
      /\ r.dlps_mac_idle = d.dlps_mac_idle /\ r.free_segs = d.free_segs - 1
      /\ r.ring = Append(d.ring, 1) /\ r.radio = d.radio /\ r.turn = d.turn
      /\ r.tx_int = d.tx_int /\ r.rx_int = d.rx_int
      /\ r.kill_int = d.kill_int /\ r.psd_int = d.psd_int
  BY <1>1, <1>2, <1>3 DEF Device
<1> QED
  BY <1>1, <1>3, <1>4 DEF RxInv, Over, Quiet

LEMMA RxEnableInv ==
  ASSUME NEW d, NEW m, NEW s, RxInv(d, m, "ready", s),
         NEW r, r = ppt_enable_prx(d)
  PROVE RxInv(r, m, "enabled", s)
<1>1. d \in Device /\ m \in Mode
  BY DEF RxInv
<1>2. /\ r \in Device /\ r.fsm = "PRX" /\ r.sync_flag = TRUE
      /\ r.dlps_mac_idle = d.dlps_mac_idle /\ r.free_segs = d.free_segs
      /\ r.ring = d.ring /\ r.radio = d.radio /\ r.turn = d.turn
      /\ r.tx_int = d.tx_int /\ r.rx_int = d.rx_int
      /\ r.kill_int = d.kill_int /\ r.psd_int = d.psd_int
  BY <1>1 DEF Device, Fsm, Radio, RxOutcome, ppt_enable_prx
<1> QED
  BY <1>1, <1>2 DEF RxInv, Over, Quiet

LEMMA RxExecuteInv ==
  ASSUME NEW d, NEW m, NEW s, RxInv(d, m, "enabled", s),
         NEW r, r = ppt_execute_instruction(d, "prx")
  PROVE RxInv(r, m, (IF ~m.oneshot THEN "running" ELSE "spin"), s)
<1>1. d \in Device /\ m \in Mode
  BY DEF RxInv
<1>2. /\ r \in Device /\ r.fsm = d.fsm /\ r.sync_flag = d.sync_flag
      /\ r.dlps_mac_idle = d.dlps_mac_idle /\ r.free_segs = d.free_segs
      /\ r.ring = d.ring /\ r.radio = "prx" /\ r.turn = d.turn
      /\ r.tx_int = d.tx_int /\ r.rx_int = d.rx_int
      /\ r.kill_int = d.kill_int /\ r.psd_int = d.psd_int
  BY <1>1, ModeFields DEF Device, Fsm, Radio, RxOutcome, ppt_execute_instruction
<1> QED
  BY <1>1, <1>2, ModeFields DEF RxInv, Over, Quiet, Listens

LEMMA DisableCheckInv ==
  ASSUME NEW d, NEW m, NEW s, RxInv(d, m, "running", s)
  PROVE d.fsm = "PRX" /\ RxInv(d, m, "checked", s)
BY DEF RxInv

LEMMA DisableArmInv ==
  ASSUME NEW d, NEW m, NEW s, RxInv(d, m, "checked", s),
         NEW r, r = [d EXCEPT !.sync_flag = TRUE]
  PROVE RxInv(r, m, "armed", s)
<1>1. d \in Device /\ m \in Mode
  BY DEF RxInv
<1>2. /\ r \in Device /\ r.fsm = d.fsm /\ r.sync_flag = TRUE
      /\ r.dlps_mac_idle = d.dlps_mac_idle /\ r.free_segs = d.free_segs
      /\ r.ring = d.ring /\ r.radio = d.radio /\ r.turn = d.turn
      /\ r.tx_int = d.tx_int /\ r.rx_int = d.rx_int
      /\ r.kill_int = d.kill_int /\ r.psd_int = d.psd_int
  BY <1>1 DEF Device, Fsm, Radio, RxOutcome
<1> QED
  BY <1>1, <1>2 DEF RxInv, Over, Quiet

LEMMA DisableExecuteInv ==
  ASSUME NEW d, NEW m, NEW s, RxInv(d, m, "armed", s),
         NEW r, r = ppt_execute_instruction(d, "prx_stop")
  PROVE RxInv(r, m, "spin", s)
<1>1. d \in Device /\ m \in Mode
  BY DEF RxInv
<1>2. /\ r \in Device /\ r.fsm = d.fsm /\ r.sync_flag = d.sync_flag
      /\ r.dlps_mac_idle = d.dlps_mac_idle /\ r.free_segs = d.free_segs
      /\ r.ring = d.ring /\ r.radio = "prx_stop" /\ r.turn = d.turn
      /\ r.tx_int = d.tx_int /\ r.rx_int = d.rx_int
      /\ r.kill_int = d.kill_int /\ r.psd_int = d.psd_int
  BY <1>1 DEF Device, Fsm, Radio, RxOutcome, ppt_execute_instruction
<1> QED
  BY <1>1, <1>2 DEF RxInv, Over, Quiet

LEMMA RxReturnInv ==
  ASSUME NEW d, NEW m, NEW s, RxInv(d, m, "spin", s), ~d.sync_flag,
         NEW r, r = Returned(d)
  PROVE RxInv(r, m, "ready", s)
<1>1. d \in Device /\ m \in Mode
  BY DEF RxInv
<1>2. /\ r \in Device /\ r.fsm = "STANDBY" /\ r.sync_flag = d.sync_flag
      /\ r.dlps_mac_idle = d.dlps_mac_idle /\ r.free_segs = d.free_segs
      /\ r.ring = d.ring /\ r.radio = d.radio /\ r.turn = d.turn
      /\ r.tx_int = d.tx_int /\ r.rx_int = d.rx_int
      /\ r.kill_int = d.kill_int /\ r.psd_int = d.psd_int
  BY <1>1 DEF Device, Fsm, Radio, RxOutcome, Returned
<1> QED
  BY <1>1, <1>2 DEF RxInv, Over, Quiet, Listens

(* The receiving part of the handler ends the procedure.                   *)
Finishes(d, m) == m.oneshot /\ d.rx_int # "none" /\ (~m.ack \/ d.rx_int = "timeout")

(* The three parts of the receiver's interrupt handler.                    *)
LEMMA PrxReceivedFields ==
  ASSUME NEW d \in Device, NEW m \in Mode, NEW r, r = PrxReceived(d, m)
  PROVE /\ r \in Device
        /\ r.fsm = (IF Finishes(d, m) THEN "STANDBY" ELSE d.fsm)
        /\ r.sync_flag = (IF Finishes(d, m) THEN FALSE ELSE d.sync_flag)
        /\ r.dlps_mac_idle = d.dlps_mac_idle /\ r.free_segs = d.free_segs
        /\ r.ring = d.ring /\ r.radio = d.radio /\ r.turn = d.turn
        /\ r.tx_int = d.tx_int /\ r.rx_int = "none"
        /\ r.kill_int = d.kill_int /\ r.psd_int = d.psd_int
<1>0. 0 \in Payload
  BY PptAssumption DEF PptAssumption, Payload
<1>1. CASE d.rx_int = "none"
  BY <1>1 DEF PrxReceived, Finishes
<1>2. CASE d.rx_int # "none"
  <2> DEFINE a == [d EXCEPT !.rx_int = "none", !.rx_fifo = 0]
  <2>1. /\ a \in Device /\ a.fsm = d.fsm /\ a.sync_flag = d.sync_flag
        /\ a.dlps_mac_idle = d.dlps_mac_idle /\ a.free_segs = d.free_segs
        /\ a.ring = d.ring /\ a.radio = d.radio /\ a.turn = d.turn
        /\ a.tx_int = d.tx_int /\ a.rx_int = "none"
        /\ a.kill_int = d.kill_int /\ a.psd_int = d.psd_int
    BY <1>0 DEF Device, RxOutcome
  <2>2. r = IF Finishes(d, m) THEN [a EXCEPT !.fsm = "STANDBY", !.sync_flag = FALSE] ELSE a
    BY <1>2 DEF PrxReceived, Finishes
  <2> HIDE DEF a
  <2>3. CASE Finishes(d, m)
    <3>1. r = [a EXCEPT !.fsm = "STANDBY", !.sync_flag = FALSE]
      BY <2>2, <2>3
    <3> QED
      BY <2>1, <2>3, <3>1 DEF Device, Fsm
  <2>4. CASE ~Finishes(d, m)
    <3>1. r = a
      BY <2>2, <2>4
    <3> QED
      BY <2>1, <2>4, <3>1
  <2> QED
    BY <2>3, <2>4
<1> QED
  BY <1>1, <1>2

LEMMA PrxSentFields ==
  ASSUME NEW d \in Device, NEW m \in Mode, NEW r, r = PrxSent(d, m)
  PROVE /\ r \in Device
        /\ r.fsm = (IF m.oneshot /\ d.tx_int THEN "STANDBY" ELSE d.fsm)
        /\ r.sync_flag = (IF m.oneshot /\ d.tx_int THEN FALSE ELSE d.sync_flag)
        /\ r.dlps_mac_idle = d.dlps_mac_idle /\ r.free_segs = d.free_segs
        /\ r.ring = d.ring /\ r.radio = d.radio /\ r.turn = d.turn
        /\ r.tx_int = FALSE /\ r.rx_int = d.rx_int
        /\ r.kill_int = d.kill_int /\ r.psd_int = d.psd_int
<1>1. CASE ~d.tx_int
  BY <1>1, DeviceFields DEF PrxSent
<1>2. CASE d.tx_int
  <2>1. r = IF m.oneshot THEN [d EXCEPT !.tx_int = FALSE, !.fsm = "STANDBY", !.sync_flag = FALSE]
            ELSE [d EXCEPT !.tx_int = FALSE]
    BY <1>2 DEF PrxSent
  <2> QED
    BY <1>2, <2>1 DEF Device, Fsm
<1> QED
  BY <1>1, <1>2

LEMMA KilledFields ==
  ASSUME NEW d \in Device, NEW r, r = Killed(d)
  PROVE /\ r \in Device /\ r.fsm = (IF d.kill_int THEN "STANDBY" ELSE d.fsm)
        /\ r.sync_flag = (IF d.kill_int THEN FALSE ELSE d.sync_flag)
        /\ r.dlps_mac_idle = d.dlps_mac_idle /\ r.free_segs = d.free_segs
        /\ r.ring = d.ring /\ r.radio = d.radio /\ r.turn = d.turn
        /\ r.tx_int = d.tx_int /\ r.rx_int = d.rx_int /\ r.kill_int = FALSE
        /\ r.psd_int = d.psd_int
<1>0. 0 \in Payload
  BY PptAssumption DEF PptAssumption, Payload
<1>1. CASE ~d.kill_int
  BY <1>1, DeviceFields DEF Killed
<1>2. CASE d.kill_int
  BY <1>0, <1>2 DEF Killed, Device, Fsm
<1> QED
  BY <1>1, <1>2

LEMMA RxIsrInv ==
  ASSUME NEW d, NEW m, NEW p, NEW s, RxInv(d, m, p, s), Interrupt(d),
         NEW r, r = PrxIsr(d, m)
  PROVE RxInv(r, m, p, s)
<1> DEFINE a == PrxReceived(d, m)
           b == PrxSent(a, m)
<1>0. /\ d \in Device /\ m \in Mode /\ m.ack \in BOOLEAN /\ m.oneshot \in BOOLEAN
      /\ p \in {"running", "checked", "armed", "spin"} /\ ~Over(d)
  BY ModeFields DEF RxInv, Interrupt, Over, Quiet
<1>1. /\ a \in Device
      /\ a.fsm = (IF Finishes(d, m) THEN "STANDBY" ELSE d.fsm)
      /\ a.sync_flag = (IF Finishes(d, m) THEN FALSE ELSE d.sync_flag)
      /\ a.dlps_mac_idle = d.dlps_mac_idle /\ a.free_segs = d.free_segs
      /\ a.ring = d.ring /\ a.radio = d.radio /\ a.turn = d.turn
      /\ a.tx_int = d.tx_int /\ a.rx_int = "none" /\ a.kill_int = d.kill_int
      /\ a.psd_int = d.psd_int
  BY <1>0, PrxReceivedFields
<1> HIDE DEF a
<1>2. /\ b \in Device
      /\ b.fsm = (IF m.oneshot /\ a.tx_int THEN "STANDBY" ELSE a.fsm)
      /\ b.sync_flag = (IF m.oneshot /\ a.tx_int THEN FALSE ELSE a.sync_flag)
      /\ b.dlps_mac_idle = a.dlps_mac_idle /\ b.free_segs = a.free_segs
      /\ b.ring = a.ring /\ b.radio = a.radio /\ b.turn = a.turn
      /\ b.tx_int = FALSE /\ b.rx_int = a.rx_int /\ b.kill_int = a.kill_int
      /\ b.psd_int = a.psd_int
  BY <1>0, <1>1, PrxSentFields
<1> HIDE DEF b
<1>3. r = Killed(b)
  BY DEF PrxIsr, a, b
<1>4. /\ r \in Device /\ r.fsm = (IF b.kill_int THEN "STANDBY" ELSE b.fsm)
      /\ r.sync_flag = (IF b.kill_int THEN FALSE ELSE b.sync_flag)
      /\ r.dlps_mac_idle = b.dlps_mac_idle /\ r.free_segs = b.free_segs
      /\ r.ring = b.ring /\ r.radio = b.radio /\ r.turn = b.turn
      /\ r.tx_int = b.tx_int /\ r.rx_int = b.rx_int /\ r.kill_int = FALSE
      /\ r.psd_int = b.psd_int
  BY <1>2, <1>3, KilledFields
<1>5. /\ r \in Device /\ Quiet(r) /\ r.dlps_mac_idle = d.dlps_mac_idle
      /\ r.free_segs = d.free_segs /\ r.ring = d.ring /\ r.radio = d.radio
      /\ r.turn = d.turn /\ r.psd_int = d.psd_int
  BY <1>1, <1>2, <1>4 DEF Quiet
<1>6. CASE Finishes(d, m) \/ (m.oneshot /\ d.tx_int) \/ d.kill_int
  <2>1. r.fsm = "STANDBY" /\ r.sync_flag = FALSE
    BY <1>1, <1>2, <1>4, <1>6
  <2>2. p = "spin" /\ d.radio = "idle" /\ ~d.turn /\ ~d.psd_int
    BY <1>0, <1>6 DEF RxInv, Listens, Finishes
  <2>3. Over(r)
    BY <1>5, <2>1, <2>2 DEF Over
  <2> QED
    BY <1>0, <1>5, <2>2, <2>3 DEF RxInv
<1>7. CASE ~Finishes(d, m) /\ ~(m.oneshot /\ d.tx_int) /\ ~d.kill_int
  <2>1. r.fsm = d.fsm /\ r.sync_flag = d.sync_flag
    BY <1>1, <1>2, <1>4, <1>7
  <2>2. CASE m.oneshot
    <3>1. p = "spin" /\ Listens(d, m) /\ d.rx_int # "none" /\ d.turn
      BY <1>0, <1>7, <2>2 DEF RxInv, Finishes, Interrupt, Listens
    <3>2. Listens(r, m)
      BY <1>5, <2>1, <2>2, <3>1 DEF Listens, Quiet
    <3> QED
      BY <1>0, <1>5, <2>2, <3>1, <3>2 DEF RxInv
  <2>3. CASE ~m.oneshot
    BY <1>0, <1>5, <1>7, <2>1, <2>3 DEF RxInv, Quiet
  <2> QED
    BY <1>0, <2>2, <2>3
<1> QED
  BY <1>6, <1>7

LEMMA PsdIsrInv ==
  ASSUME NEW d, NEW m, NEW p, NEW s, RxInv(d, m, p, s), d.psd_int,
         NEW r, r = ppt_psd_isr_handler_imp(d)
  PROVE RxInv(r, m, p, s)
<1>0. /\ d \in Device /\ p = "scanning" /\ d.radio = "idle" /\ Quiet(d) /\ ~d.turn
  BY DEF RxInv
<1>1. /\ r \in Device /\ r.fsm = "STANDBY" /\ r.sync_flag = FALSE
      /\ r.dlps_mac_idle = TRUE /\ r.free_segs = d.free_segs
      /\ r.ring = d.ring /\ r.radio = d.radio /\ r.turn = d.turn
      /\ r.tx_int = d.tx_int /\ r.rx_int = d.rx_int
      /\ r.kill_int = d.kill_int /\ r.psd_int = FALSE
  BY <1>0 DEF ppt_psd_isr_handler_imp, Device, Fsm
<1> QED
  BY <1>0, <1>1 DEF RxInv, Over, Quiet

(* The radio of the receiver.                                              *)
LEMMA HeardInv ==
  ASSUME NEW d, NEW m, NEW p, NEW s, RxInv(d, m, p, s),
         d.radio = "prx", ~d.turn, d.rx_int = "none",
         NEW outcome \in {"good", "bad"}, NEW data \in Payload,
         NEW r, r = Heard(d, m, outcome, data)
  PROVE RxInv(r, m, p, s)
<1>0. d \in Device /\ m \in Mode /\ m.ack \in BOOLEAN /\ m.oneshot \in BOOLEAN
  BY ModeFields DEF RxInv
<1>1. p \in {"running", "checked", "armed", "spin"} /\ (p = "spin" => m.oneshot)
  BY <1>0 DEF RxInv, Over, Quiet
<1>2. /\ r \in Device /\ r.fsm = d.fsm /\ r.sync_flag = d.sync_flag
      /\ r.dlps_mac_idle = d.dlps_mac_idle /\ r.free_segs = d.free_segs
      /\ r.ring = d.ring
      /\ r.radio = (IF m.oneshot /\ ~m.ack THEN "idle" ELSE "prx")
      /\ r.turn = m.ack /\ r.tx_int = d.tx_int /\ r.rx_int = outcome
      /\ r.kill_int = d.kill_int /\ r.psd_int = d.psd_int
  BY <1>0 DEF Device, Radio, RxOutcome, Heard
<1> QED
  BY <1>0, <1>1, <1>2 DEF RxInv, Over, Quiet, Listens

LEMMA AnsweredInv ==
  ASSUME NEW d, NEW m, NEW p, NEW s, RxInv(d, m, p, s),
         d.radio = "prx", d.turn, d.rx_int = "none",
         NEW r, r = [d EXCEPT !.tx_int = TRUE, !.turn = FALSE,
                              !.radio = IF m.oneshot THEN "idle" ELSE "prx"]
  PROVE RxInv(r, m, p, s)
<1>0. d \in Device /\ m \in Mode /\ m.ack \in BOOLEAN /\ m.oneshot \in BOOLEAN
  BY ModeFields DEF RxInv
<1>1. p \in {"running", "checked", "armed", "spin"} /\ (p = "spin" => m.oneshot)
  BY <1>0 DEF RxInv, Over, Quiet
<1>2. /\ r \in Device /\ r.fsm = d.fsm /\ r.sync_flag = d.sync_flag
      /\ r.dlps_mac_idle = d.dlps_mac_idle /\ r.free_segs = d.free_segs
      /\ r.ring = d.ring /\ r.radio = (IF m.oneshot THEN "idle" ELSE "prx")
      /\ r.turn = FALSE /\ r.tx_int = TRUE /\ r.rx_int = d.rx_int
      /\ r.kill_int = d.kill_int /\ r.psd_int = d.psd_int
  BY <1>0 DEF Device, Radio, RxOutcome
<1> QED
  BY <1>0, <1>1, <1>2 DEF RxInv, Over, Quiet, Listens

LEMMA NothingHeardInv ==
  ASSUME NEW d, NEW m, NEW p, NEW s, RxInv(d, m, p, s),
         d.radio = "prx", ~d.turn, d.rx_int = "none", m.oneshot,
         NEW r, r = [d EXCEPT !.rx_int = "timeout", !.radio = "idle"]
  PROVE RxInv(r, m, p, s)
<1>0. d \in Device /\ m \in Mode /\ m.ack \in BOOLEAN /\ m.oneshot \in BOOLEAN
  BY ModeFields DEF RxInv
<1>1. p = "spin"
  BY <1>0 DEF RxInv, Over, Quiet
<1>2. /\ r \in Device /\ r.fsm = d.fsm /\ r.sync_flag = d.sync_flag
      /\ r.dlps_mac_idle = d.dlps_mac_idle /\ r.free_segs = d.free_segs
      /\ r.ring = d.ring /\ r.radio = "idle" /\ r.turn = d.turn
      /\ r.tx_int = d.tx_int /\ r.rx_int = "timeout"
      /\ r.kill_int = d.kill_int /\ r.psd_int = d.psd_int
  BY <1>0 DEF Device, Radio, RxOutcome
<1> QED
  BY <1>0, <1>1, <1>2 DEF RxInv, Over, Quiet, Listens

LEMMA RxStoppedInv ==
  ASSUME NEW d, NEW m, NEW p, NEW s, RxInv(d, m, p, s),
         d.radio \in {"ptx_stop", "prx_stop"},
         NEW r, r = [d EXCEPT !.radio = "idle", !.turn = FALSE, !.kill_int = TRUE]
  PROVE RxInv(r, m, p, s)
<1>0. d \in Device /\ m \in Mode /\ m.ack \in BOOLEAN /\ m.oneshot \in BOOLEAN
  BY ModeFields DEF RxInv
<1>1. p = "spin" /\ ~m.oneshot
  BY <1>0 DEF RxInv, Over, Quiet, Listens
<1>2. /\ r \in Device /\ r.fsm = d.fsm /\ r.sync_flag = d.sync_flag
      /\ r.dlps_mac_idle = d.dlps_mac_idle /\ r.free_segs = d.free_segs
      /\ r.ring = d.ring /\ r.radio = "idle" /\ r.turn = FALSE
      /\ r.tx_int = d.tx_int /\ r.rx_int = d.rx_int /\ r.kill_int = TRUE
      /\ r.psd_int = d.psd_int
  BY <1>0 DEF Device, Radio, RxOutcome
<1> QED
  BY <1>0, <1>1, <1>2 DEF RxInv, Over, Quiet, Listens

LEMMA ScanEndsInv ==
  ASSUME NEW d, NEW m, NEW p, NEW s, RxInv(d, m, p, s),
         d.radio = "psd",
         NEW r, r = [d EXCEPT !.radio = "idle", !.psd_int = TRUE]
  PROVE RxInv(r, m, p, s)
<1>0. d \in Device /\ m \in Mode /\ m.ack \in BOOLEAN /\ m.oneshot \in BOOLEAN
  BY ModeFields DEF RxInv
<1>1. p = "scanning"
  BY <1>0 DEF RxInv, Over, Quiet
<1>2. /\ r \in Device /\ r.fsm = d.fsm /\ r.sync_flag = d.sync_flag
      /\ r.dlps_mac_idle = d.dlps_mac_idle /\ r.free_segs = d.free_segs
      /\ r.ring = d.ring /\ r.radio = "idle" /\ r.turn = d.turn
      /\ r.tx_int = d.tx_int /\ r.rx_int = d.rx_int
      /\ r.kill_int = d.kill_int /\ r.psd_int = TRUE
  BY <1>0 DEF Device, Radio, RxOutcome
<1> QED
  BY <1>0, <1>1, <1>2 DEF RxInv, Over, Quiet

-----------------------------------------------------------------------------
(* Both devices.                                                           *)

LEMMA InvInit == Init => Inv
<1> SUFFICES ASSUME Init PROVE Inv
  OBVIOUS
<1>0. /\ 0 \in Payload /\ <<>> \in Seq(Payload) /\ PPT_TX_FIFO_SIZE \in Nat
      /\ Len(<<>>) = 0 /\ 0 \in 0 .. MaxPayload /\ 0 \in 0 .. MaxScans
  BY PptAssumption, LinkAssumption DEF PptAssumption, LinkAssumption, Payload
<1>1. ppt_init \in Device
  BY <1>0 DEF ppt_init, Device, Fsm, Radio, RxOutcome
<1>2. PICK ta, tp, ra, rc \in BOOLEAN, n \in 0 .. MaxTimes :
        mode = [tx |-> ppt_set_ptx_mode_ext(ta, tp, n), rx |-> ppt_set_prx_mode_ext(ra, rc)]
  BY DEF Init
<1>3. /\ mode.tx \in Mode /\ mode.rx \in Mode /\ mode \in [End -> Mode]
      /\ mode.tx.oneshot => mode.tx.retransmit_times = 0
  <2>1. /\ ppt_set_ptx_mode_ext(ta, tp, n) \in Mode /\ ppt_set_prx_mode_ext(ra, rc) \in Mode
        /\ ppt_set_ptx_mode_ext(ta, tp, n).oneshot =>
             ppt_set_ptx_mode_ext(ta, tp, n).retransmit_times = 0
    <3>1. n \in Nat /\ 0 \in Nat /\ (IF tp THEN n ELSE 0) \in Nat
      BY LinkAssumption DEF LinkAssumption
    <3>2. ppt_set_ptx_mode_ext(ta, tp, n) \in Mode
      BY <3>1 DEF ppt_set_ptx_mode_ext, Mode
    <3>3. ppt_set_prx_mode_ext(ra, rc) \in Mode
      BY <3>1 DEF ppt_set_prx_mode_ext, Mode
    <3>4. ppt_set_ptx_mode_ext(ta, tp, n).oneshot =>
             ppt_set_ptx_mode_ext(ta, tp, n).retransmit_times = 0
      BY <3>1 DEF ppt_set_ptx_mode_ext
    <3> QED
      BY <3>2, <3>3, <3>4
  <2> QED
    BY <1>2, <2>1 DEF End
<1>4. /\ dev = [e \in End |-> ppt_init] /\ dev.tx = ppt_init /\ dev.rx = ppt_init
      /\ pc = [tx |-> "push", rx |-> "scan"] /\ pc.tx = "push" /\ pc.rx = "scan"
      /\ pushed = 0 /\ onAir = 0 /\ scans = 0 /\ got = <<>>
  BY DEF Init, End
<1>5. /\ Over(ppt_init) /\ ~ppt_init.psd_int /\ ppt_init.dlps_mac_idle
      /\ ppt_init.free_segs + Len(ppt_init.ring) = PPT_TX_FIFO_SIZE
      /\ ppt_init.ring = <<>> /\ ppt_init.radio = "idle"
  BY <1>0 DEF Over, Quiet, ppt_init
<1>6. TxInv(dev.tx, mode.tx, pc.tx, onAir, pushed)
  BY <1>0, <1>1, <1>3, <1>4, <1>5 DEF TxInv
<1>7. RxInv(dev.rx, mode.rx, pc.rx, scans)
  BY <1>0, <1>1, <1>3, <1>4, <1>5 DEF RxInv
<1>8. dev \in [End -> Device] /\ pc \in [End -> Place]
  BY <1>1, <1>4 DEF End, Place
<1> QED
  BY <1>0, <1>3, <1>4, <1>6, <1>7, <1>8 DEF Inv

(* A step of the transmitter alone, of the receiver alone, of both.        *)
LEMMA TxStep ==
  ASSUME Inv, NEW d, NEW q, dev' = [dev EXCEPT !["tx"] = d], pc' = [pc EXCEPT !["tx"] = q],
         mode' = mode, scans' = scans, got' = got, TxInv(d, mode.tx, q, onAir', pushed')
  PROVE Inv'
<1>1. d \in Device /\ q \in Place
  BY DEF TxInv, Place
<1>2. /\ dev' \in [End -> Device] /\ dev'.tx = d /\ dev'.rx = dev.rx
      /\ pc' \in [End -> Place] /\ pc'.tx = q /\ pc'.rx = pc.rx
  BY <1>1 DEF Inv, End
<1> QED
  BY <1>2 DEF Inv
LEMMA RxStep ==
  ASSUME Inv, NEW d, NEW q, dev' = [dev EXCEPT !["rx"] = d], pc' = [pc EXCEPT !["rx"] = q],
         mode' = mode, onAir' = onAir, pushed' = pushed, got' \in Seq(Payload),
         RxInv(d, mode.rx, q, scans')
  PROVE Inv'
<1>1. d \in Device /\ q \in Place
  BY DEF RxInv, Place
<1>2. /\ dev' \in [End -> Device] /\ dev'.rx = d /\ dev'.tx = dev.tx
      /\ pc' \in [End -> Place] /\ pc'.rx = q /\ pc'.tx = pc.tx
  BY <1>1 DEF Inv, End
<1> QED
  BY <1>2 DEF Inv
LEMMA BothStep ==
  ASSUME Inv, NEW d, NEW e, dev' = [tx |-> d, rx |-> e], pc' = pc,
         mode' = mode, scans' = scans, pushed' = pushed, got' = got,
         TxInv(d, mode.tx, pc.tx, onAir', pushed), RxInv(e, mode.rx, pc.rx, scans)
  PROVE Inv'
<1>1. d \in Device /\ e \in Device
  BY DEF TxInv, RxInv
<1>2. dev' \in [End -> Device] /\ dev'.tx = d /\ dev'.rx = e
  BY <1>1 DEF End
<1> QED
  BY <1>2 DEF Inv
(* The task stays where it is.                                             *)
LEMMA PcKept ==
  ASSUME Inv, pc' = pc
  PROVE pc' = [pc EXCEPT !["tx"] = pc.tx] /\ pc' = [pc EXCEPT !["rx"] = pc.rx]
BY DEF Inv, End
LEMMA DevKept ==
  ASSUME Inv, dev' = dev
  PROVE dev' = [dev EXCEPT !["tx"] = dev.tx] /\ dev' = [dev EXCEPT !["rx"] = dev.rx]
BY DEF Inv, End

LEMMA TxTaskInv ==
  ASSUME Inv, TxTask
  PROVE Inv'
<1>0. TxInv(dev.tx, mode.tx, pc.tx, onAir, pushed) /\ RxInv(dev.rx, mode.rx, pc.rx, scans)
  BY DEF Inv
<1>1. CASE TxPush
  <2> DEFINE d == ppt_push_tx_data(dev.tx, pushed + 1)
  <2>1. /\ dev' = [dev EXCEPT !["tx"] = d] /\ pc' = [pc EXCEPT !["tx"] = "ready"]
        /\ pushed < MaxPayload /\ pushed' = pushed + 1 /\ onAir' = 0 /\ pc.tx \in {"push", "ready"}
        /\ mode' = mode /\ scans' = scans /\ got' = got
    BY <1>1 DEF TxPush, Step
  <2>2. TxInv(d, mode.tx, "ready", 0, pushed + 1)
    BY <1>0, <2>1, TxPushInv
  <2> HIDE DEF d
  <2> QED
    BY <2>1, <2>2, TxStep
<1>2. CASE Enable("tx")
  <2> DEFINE d == ppt_enable_ptx(dev.tx, mode.tx)
  <2>1. /\ dev' = [dev EXCEPT !["tx"] = d] /\ pc' = [pc EXCEPT !["tx"] = "enabled"] /\ pc.tx = "ready"
        /\ UNCHANGED <<mode, pushed, onAir, scans, got>>
    BY <1>2 DEF Enable, Step
  <2>2. TxInv(d, mode.tx, "enabled", onAir, pushed)
    BY <1>0, <2>1, TxEnableInv
  <2> HIDE DEF d
  <2> QED
    BY <2>1, <2>2, TxStep
<1>3. CASE Execute("tx")
  <2> DEFINE d == ppt_execute_instruction(dev.tx, "ptx")
  <2>1. /\ dev' = [dev EXCEPT !["tx"] = d] /\ pc' = [pc EXCEPT !["tx"] = "spin"] /\ pc.tx = "enabled"
        /\ UNCHANGED <<mode, pushed, onAir, scans, got>>
    BY <1>3 DEF Execute, Step
  <2>2. TxInv(d, mode.tx, "spin", onAir, pushed)
    BY <1>0, <2>1, TxExecuteInv
  <2> HIDE DEF d
  <2> QED
    BY <2>1, <2>2, TxStep
<1>4. CASE Return("tx")
  <2> DEFINE d == Returned(dev.tx)
  <2>1. /\ dev' = [dev EXCEPT !["tx"] = d] /\ pc' = [pc EXCEPT !["tx"] = "push"] /\ pc.tx = "spin"
        /\ ~dev.tx.sync_flag /\ UNCHANGED <<mode, pushed, onAir, scans, got>>
    BY <1>4 DEF Return, Step
  <2>2. TxInv(d, mode.tx, "push", onAir, pushed)
    BY <1>0, <2>1, TxReturnInv
  <2> HIDE DEF d
  <2> QED
    BY <2>1, <2>2, TxStep
<1> QED
  BY <1>1, <1>2, <1>3, <1>4 DEF TxTask, Task

LEMMA RxTaskInv ==
  ASSUME Inv, RxTask \/ DisableCheck
  PROVE Inv'
<1>0. /\ TxInv(dev.tx, mode.tx, pc.tx, onAir, pushed) /\ RxInv(dev.rx, mode.rx, pc.rx, scans)
      /\ got \in Seq(Payload)
  BY DEF Inv
<1>1. CASE Scan /\ scans < MaxScans
  <2> DEFINE d == ppt_enable_psd(dev.rx)
  <2>1. /\ dev' = [dev EXCEPT !["rx"] = d] /\ pc' = [pc EXCEPT !["rx"] = "psd"] /\ pc.rx = "scan"
        /\ scans' = scans + 1 /\ UNCHANGED <<mode, pushed, onAir, got>>
    BY <1>1 DEF Scan, Step
  <2>2. RxInv(d, mode.rx, "psd", scans + 1)
    BY <1>0, <1>1, <2>1, ScanInv
  <2> HIDE DEF d
  <2> QED
    BY <1>0, <2>1, <2>2, RxStep
<1>2. CASE Scan /\ ~(scans < MaxScans)
  <2>1. /\ dev' = dev /\ pc' = [pc EXCEPT !["rx"] = "push"] /\ pc.rx = "scan"
        /\ UNCHANGED <<mode, pushed, onAir, scans, got>>
    BY <1>2 DEF Scan
  <2>2. RxInv(dev.rx, mode.rx, "push", scans)
    BY <1>0, <2>1, ScansDoneInv
  <2> QED
    BY <1>0, <2>1, <2>2, DevKept, RxStep
<1>3. CASE ScanExecute
  <2> DEFINE d == ppt_execute_instruction(dev.rx, "psd")
  <2>1. /\ dev' = [dev EXCEPT !["rx"] = d] /\ pc' = [pc EXCEPT !["rx"] = "scanning"] /\ pc.rx = "psd"
        /\ UNCHANGED <<mode, pushed, onAir, scans, got>>
    BY <1>3 DEF ScanExecute, Step
  <2>2. RxInv(d, mode.rx, "scanning", scans)
    BY <1>0, <2>1, ScanExecuteInv
  <2> HIDE DEF d
  <2> QED
    BY <1>0, <2>1, <2>2, RxStep
<1>4. CASE Scanned
  <2>1. /\ dev' = dev /\ pc' = [pc EXCEPT !["rx"] = "scan"] /\ pc.rx = "scanning" /\ ~dev.rx.sync_flag
        /\ UNCHANGED <<mode, pushed, onAir, scans, got>>
    BY <1>4 DEF Scanned
  <2>2. RxInv(dev.rx, mode.rx, "scan", scans)
    BY <1>0, <2>1, ScannedInv
  <2> QED
    BY <1>0, <2>1, <2>2, DevKept, RxStep
<1>5. CASE RxPush
  <2> DEFINE d == ppt_push_tx_data(dev.rx, 1)
  <2>1. /\ dev' = [dev EXCEPT !["rx"] = d] /\ pc' = [pc EXCEPT !["rx"] = "ready"] /\ pc.rx = "push"
        /\ UNCHANGED <<mode, pushed, onAir, scans, got>>
    BY <1>5 DEF RxPush, Step
  <2>2. RxInv(d, mode.rx, "ready", scans)
    BY <1>0, <2>1, RxPushInv
  <2> HIDE DEF d
  <2> QED
    BY <1>0, <2>1, <2>2, RxStep
<1>6. CASE Enable("rx")
  <2> DEFINE d == ppt_enable_prx(dev.rx)
  <2>1. /\ dev' = [dev EXCEPT !["rx"] = d] /\ pc' = [pc EXCEPT !["rx"] = "enabled"] /\ pc.rx = "ready"
        /\ UNCHANGED <<mode, pushed, onAir, scans, got>>
    BY <1>6 DEF Enable, Step
  <2>2. RxInv(d, mode.rx, "enabled", scans)
    BY <1>0, <2>1, RxEnableInv
  <2> HIDE DEF d
  <2> QED
    BY <1>0, <2>1, <2>2, RxStep
<1>7. CASE Execute("rx")
  <2> DEFINE d == ppt_execute_instruction(dev.rx, "prx")
  <2>1. /\ dev' = [dev EXCEPT !["rx"] = d] /\ pc' = [pc EXCEPT !["rx"] = (IF ~mode.rx.oneshot THEN "running" ELSE "spin")] /\ pc.rx = "enabled"
        /\ UNCHANGED <<mode, pushed, onAir, scans, got>>
    BY <1>7 DEF Execute, Step
  <2>2. RxInv(d, mode.rx, (IF ~mode.rx.oneshot THEN "running" ELSE "spin"), scans)
    BY <1>0, <2>1, RxExecuteInv
  <2> HIDE DEF d
  <2> QED
    BY <1>0, <2>1, <2>2, RxStep
<1>8. CASE Return("rx")
  <2> DEFINE d == Returned(dev.rx)
  <2>1. /\ dev' = [dev EXCEPT !["rx"] = d] /\ pc' = [pc EXCEPT !["rx"] = "ready"] /\ pc.rx = "spin"
        /\ UNCHANGED <<mode, pushed, onAir, scans, got>> /\ ~dev.rx.sync_flag
    BY <1>8 DEF Return, Step
  <2>2. RxInv(d, mode.rx, "ready", scans)
    BY <1>0, <2>1, RxReturnInv
  <2> HIDE DEF d
  <2> QED
    BY <1>0, <2>1, <2>2, RxStep
<1>9. CASE DisableCheck
  <2>1. dev.rx.fsm = "PRX" /\ RxInv(dev.rx, mode.rx, "checked", scans)
    BY <1>0, <1>9, DisableCheckInv DEF DisableCheck
  <2>2. /\ dev' = dev /\ pc' = [pc EXCEPT !["rx"] = "checked"]
        /\ UNCHANGED <<mode, pushed, onAir, scans, got>>
    BY <1>9, <2>1 DEF DisableCheck
  <2> QED
    BY <1>0, <2>1, <2>2, DevKept, RxStep
<1>10. CASE DisableArm
  <2> DEFINE d == [dev.rx EXCEPT !.sync_flag = TRUE]
  <2>1. /\ dev' = [dev EXCEPT !["rx"] = d] /\ pc' = [pc EXCEPT !["rx"] = "armed"] /\ pc.rx = "checked"
        /\ UNCHANGED <<mode, pushed, onAir, scans, got>>
    BY <1>10 DEF DisableArm, Step
  <2>2. RxInv(d, mode.rx, "armed", scans)
    BY <1>0, <2>1, DisableArmInv
  <2> HIDE DEF d
  <2> QED
    BY <1>0, <2>1, <2>2, RxStep
<1>11. CASE DisableExecute
  <2> DEFINE d == ppt_execute_instruction(dev.rx, "prx_stop")
  <2>1. /\ dev' = [dev EXCEPT !["rx"] = d] /\ pc' = [pc EXCEPT !["rx"] = "spin"] /\ pc.rx = "armed"
        /\ UNCHANGED <<mode, pushed, onAir, scans, got>>
    BY <1>11 DEF DisableExecute, Step
  <2>2. RxInv(d, mode.rx, "spin", scans)
    BY <1>0, <2>1, DisableExecuteInv
  <2> HIDE DEF d
  <2> QED
    BY <1>0, <2>1, <2>2, RxStep
<1> QED
  BY <1>1, <1>2, <1>3, <1>4, <1>5, <1>6, <1>7, <1>8, <1>9, <1>10, <1>11 DEF RxTask, Task

LEMMA HandlersInv ==
  ASSUME Inv, TxIsr \/ RxIsr \/ PsdIsr
  PROVE Inv'
<1>0. /\ TxInv(dev.tx, mode.tx, pc.tx, onAir, pushed) /\ RxInv(dev.rx, mode.rx, pc.rx, scans)
      /\ got \in Seq(Payload) /\ dev.rx \in Device
  BY DEF Inv, End
<1>1. CASE TxIsr
  <2> DEFINE d == PtxIsr(dev.tx, mode.tx)
  <2>1. /\ dev' = [dev EXCEPT !["tx"] = d] /\ pc' = pc /\ Interrupt(dev.tx)
        /\ UNCHANGED <<mode, pushed, onAir, scans, got>>
    BY <1>1 DEF TxIsr
  <2>2. TxInv(d, mode.tx, pc.tx, onAir, pushed)
    BY <1>0, <2>1, TxIsrInv
  <2> HIDE DEF d
  <2> QED
    BY <2>1, <2>2, PcKept, TxStep
<1>2. CASE RxIsr
  <2> DEFINE d == PrxIsr(dev.rx, mode.rx)
  <2>1. /\ dev' = [dev EXCEPT !["rx"] = d] /\ pc' = pc /\ Interrupt(dev.rx)
        /\ UNCHANGED <<mode, pushed, onAir, scans>> /\ got' = got \o Handed(dev.rx)
    BY <1>2 DEF RxIsr
  <2>2. RxInv(d, mode.rx, pc.rx, scans)
    BY <1>0, <2>1, RxIsrInv
  <2>3. got' \in Seq(Payload)
    <3>1. Handed(dev.rx) \in Seq(Payload)
      BY <1>0, DeviceFields DEF Handed
    <3> QED
      BY <1>0, <2>1, <3>1
  <2> HIDE DEF d
  <2> QED
    BY <2>1, <2>2, <2>3, PcKept, RxStep
<1>3. CASE PsdIsr
  <2> DEFINE d == ppt_psd_isr_handler_imp(dev.rx)
  <2>1. /\ dev' = [dev EXCEPT !["rx"] = d] /\ pc' = pc /\ dev.rx.psd_int
        /\ UNCHANGED <<mode, pushed, onAir, scans, got>>
    BY <1>3 DEF PsdIsr
  <2>2. RxInv(d, mode.rx, pc.rx, scans)
    BY <1>0, <2>1, PsdIsrInv
  <2> HIDE DEF d
  <2> QED
    BY <1>0, <2>1, <2>2, PcKept, RxStep
<1> QED
  BY <1>1, <1>2, <1>3

LEMMA RadiosInv ==
  ASSUME Inv, TxRadio \/ RxRadio \/ NothingHeard
  PROVE Inv'
<1>0. /\ TxInv(dev.tx, mode.tx, pc.tx, onAir, pushed) /\ RxInv(dev.rx, mode.rx, pc.rx, scans)
      /\ got \in Seq(Payload) /\ dev.tx \in Device /\ dev.rx \in Device
  BY DEF Inv, End
<1>1. CASE Transmit
  <2> DEFINE sent == [dev.tx EXCEPT !.tx_int = TRUE, !.turn = mode.tx.ack,
                        !.radio = IF mode.tx.oneshot /\ ~mode.tx.ack THEN "idle" ELSE "ptx"]
  <2>1. /\ dev.tx.radio = "ptx" /\ ~dev.tx.turn /\ ~Interrupt(dev.tx) /\ onAir' = onAir + 1
        /\ UNCHANGED <<mode, pc, pushed, scans, got>>
    BY <1>1 DEF Transmit
  <2>2. TxInv(sent, mode.tx, pc.tx, onAir + 1, pushed)
    BY <1>0, <2>1, TransmitInv
  <2>3. \/ dev' = [dev EXCEPT !["tx"] = sent]
        \/ /\ Listening
           /\ \E heard \in {Heard(dev.rx, mode.rx, "good", dev.tx.tx_buffer),
                            Heard(dev.rx, mode.rx, "bad", 0)} : dev' = [tx |-> sent, rx |-> heard]
    BY <1>1 DEF Transmit
  <2> HIDE DEF sent
  <2>4. CASE dev' = [dev EXCEPT !["tx"] = sent]
    BY <2>1, <2>2, <2>4, PcKept, TxStep
  <2>5. ASSUME Listening, NEW outcome \in {"good", "bad"}, NEW data \in Payload,
               dev' = [tx |-> sent, rx |-> Heard(dev.rx, mode.rx, outcome, data)]
        PROVE Inv'
    <3> DEFINE h == Heard(dev.rx, mode.rx, outcome, data)
    <3>1. RxInv(h, mode.rx, pc.rx, scans)
      BY <1>0, <2>5, HeardInv DEF Listening
    <3>2. dev' = [tx |-> sent, rx |-> h]
      BY <2>5
    <3> HIDE DEF h
    <3> QED
      BY <2>1, <2>2, <3>1, <3>2, BothStep
  <2>6. dev.tx.tx_buffer \in Payload /\ 0 \in Payload
    BY <1>0, DeviceFields, PptAssumption DEF PptAssumption, Payload
  <2> QED
    BY <2>3, <2>4, <2>5, <2>6
<1>2. CASE NoAnswer
  <2> DEFINE d == [dev.tx EXCEPT !.rx_int = "timeout", !.turn = FALSE,
                     !.radio = IF mode.tx.oneshot THEN "idle" ELSE "ptx"]
  <2>1. /\ dev' = [dev EXCEPT !["tx"] = d] /\ dev.tx.radio = "ptx" /\ dev.tx.turn
        /\ UNCHANGED <<mode, pc, pushed, onAir, scans, got>>
    BY <1>2 DEF NoAnswer, Responded
  <2>2. TxInv(d, mode.tx, pc.tx, onAir, pushed)
    BY <1>0, <2>1, RespondedInv
  <2> HIDE DEF d
  <2> QED
    BY <2>1, <2>2, PcKept, TxStep
<1>3. CASE Stopped("tx")
  <2> DEFINE d == [dev.tx EXCEPT !.radio = "idle", !.turn = FALSE, !.kill_int = TRUE]
  <2>1. /\ dev' = [dev EXCEPT !["tx"] = d] /\ dev.tx.radio \in {"ptx_stop", "prx_stop"}
        /\ UNCHANGED <<mode, pc, pushed, onAir, scans, got>>
    BY <1>3 DEF Stopped
  <2>2. TxInv(d, mode.tx, pc.tx, onAir, pushed)
    BY <1>0, <2>1, TxStoppedInv
  <2> HIDE DEF d
  <2> QED
    BY <2>1, <2>2, PcKept, TxStep
<1>4. CASE Answer
  <2> DEFINE sent == [dev.rx EXCEPT !.tx_int = TRUE, !.turn = FALSE,
                        !.radio = IF mode.rx.oneshot THEN "idle" ELSE "prx"]
  <2>1. /\ dev.rx.radio = "prx" /\ dev.rx.turn /\ dev.rx.rx_int = "none"
        /\ UNCHANGED <<mode, pc, pushed, onAir, scans, got>>
    BY <1>4 DEF Answer
  <2>2. RxInv(sent, mode.rx, pc.rx, scans)
    BY <1>0, <2>1, AnsweredInv
  <2>3. \/ dev' = [dev EXCEPT !["rx"] = sent]
        \/ /\ dev.tx.radio = "ptx" /\ dev.tx.turn
           /\ \E outcome \in {"good", "bad"} : dev' = [tx |-> Responded(outcome), rx |-> sent]
    BY <1>4 DEF Answer
  <2> HIDE DEF sent
  <2>4. CASE dev' = [dev EXCEPT !["rx"] = sent]
    BY <1>0, <2>1, <2>2, <2>4, PcKept, RxStep
  <2>5. ASSUME NEW outcome \in {"good", "bad"}, dev.tx.radio = "ptx", dev.tx.turn,
               dev' = [tx |-> Responded(outcome), rx |-> sent]
        PROVE Inv'
    <3> DEFINE d == [dev.tx EXCEPT !.rx_int = outcome, !.turn = FALSE,
                       !.radio = IF mode.tx.oneshot THEN "idle" ELSE "ptx"]
    <3>1. TxInv(d, mode.tx, pc.tx, onAir, pushed)
      BY <1>0, <2>5, RespondedInv
    <3>2. dev' = [tx |-> d, rx |-> sent]
      BY <2>5 DEF Responded
    <3> HIDE DEF d
    <3> QED
      BY <2>1, <2>2, <3>1, <3>2, BothStep
  <2> QED
    BY <2>3, <2>4, <2>5
<1>5. CASE NothingHeard
  <2> DEFINE d == [dev.rx EXCEPT !.rx_int = "timeout", !.radio = "idle"]
  <2>1. /\ dev' = [dev EXCEPT !["rx"] = d] /\ dev.rx.radio = "prx" /\ ~dev.rx.turn /\ dev.rx.rx_int = "none" /\ mode.rx.oneshot
        /\ UNCHANGED <<mode, pc, pushed, onAir, scans, got>>
    BY <1>5 DEF NothingHeard, Listening
  <2>2. RxInv(d, mode.rx, pc.rx, scans)
    BY <1>0, <2>1, NothingHeardInv
  <2> HIDE DEF d
  <2> QED
    BY <1>0, <2>1, <2>2, PcKept, RxStep
<1>6. CASE Stopped("rx")
  <2> DEFINE d == [dev.rx EXCEPT !.radio = "idle", !.turn = FALSE, !.kill_int = TRUE]
  <2>1. /\ dev' = [dev EXCEPT !["rx"] = d] /\ dev.rx.radio \in {"ptx_stop", "prx_stop"}
        /\ UNCHANGED <<mode, pc, pushed, onAir, scans, got>>
    BY <1>6 DEF Stopped
  <2>2. RxInv(d, mode.rx, pc.rx, scans)
    BY <1>0, <2>1, RxStoppedInv
  <2> HIDE DEF d
  <2> QED
    BY <1>0, <2>1, <2>2, PcKept, RxStep
<1>7. CASE ScanEnds
  <2> DEFINE d == [dev.rx EXCEPT !.radio = "idle", !.psd_int = TRUE]
  <2>1. /\ dev' = [dev EXCEPT !["rx"] = d] /\ dev.rx.radio = "psd"
        /\ UNCHANGED <<mode, pc, pushed, onAir, scans, got>>
    BY <1>7 DEF ScanEnds
  <2>2. RxInv(d, mode.rx, pc.rx, scans)
    BY <1>0, <2>1, ScanEndsInv
  <2> HIDE DEF d
  <2> QED
    BY <1>0, <2>1, <2>2, PcKept, RxStep
<1> QED
  BY <1>1, <1>2, <1>3, <1>4, <1>5, <1>6, <1>7 DEF TxRadio, RxRadio

LEMMA InvNext == Inv /\ [Next]_vars => Inv'
<1> SUFFICES ASSUME Inv, [Next]_vars PROVE Inv'
  OBVIOUS
<1>1. CASE UNCHANGED vars
  BY <1>1 DEF Inv, vars
<1> QED
  BY <1>1, TxTaskInv, RxTaskInv, HandlersInv, RadiosInv DEF Next

(* The phases hold in every state.                                         *)
THEOREM Phases == Spec => []Inv
<1>1. Init => Inv
  BY InvInit
<1>2. Inv /\ [Next]_vars => Inv'
  BY InvNext
<1> QED
  BY <1>1, <1>2, PTL DEF Spec

(* The types.                                                              *)
THEOREM TypeCorrect == Spec => []TypeOK
<1>1. Inv => TypeOK
  BY DEF Inv, TypeOK, TxInv, RxInv, Place
<1> QED
  BY <1>1, Phases, PTL

(* A call that has returned leaves an idle radio and no interrupt to come. *)
THEOREM ReturnMeansIdle == Spec => []SyncMeansIdle
<1>1. Inv => SyncMeansIdle
  BY DEF Inv, SyncMeansIdle, Idle, TxInv, RxInv, Over, Quiet, End
<1> QED
  BY <1>1, Phases, PTL

(* The free places are what the fifo leaves, whatever the interrupts do.   *)
THEOREM PlacesCounted == Spec => []FreePlaces
<1>1. Inv => FreePlaces
  BY DEF Inv, FreePlaces, TxInv, RxInv, End
<1> QED
  BY <1>1, Phases, PTL

(* In STANDBY the radio is off, and the chip stays awake during a scan.    *)
THEOREM StandbyIdle == Spec => []StandbyIsIdle
<1>1. Inv => StandbyIsIdle
  <2> SUFFICES ASSUME Inv PROVE StandbyIsIdle
    OBVIOUS
  <2>1. /\ dev.tx.fsm = "STANDBY" => dev.tx.radio = "idle"
        /\ dev.tx.radio # "psd"
    BY DEF Inv, TxInv, Sending, TxStopping, Over
  <2>2. dev.rx.fsm = "STANDBY" => dev.rx.radio = "idle"
    BY DEF Inv, RxInv, Listens, Over
  <2>3. dev.rx.radio = "psd" => ~dev.rx.dlps_mac_idle
    BY DEF Inv, RxInv, Listens, Over
  <2> QED
    BY <2>1, <2>2, <2>3 DEF StandbyIsIdle, End
<1> QED
  BY <1>1, Phases, PTL

-----------------------------------------------------------------------------
(* One packet at a time.  The demo pushes a packet and sends it; the       *)
(* buffer is not written again before the packet has left the fifo.        *)

(* The receiver pushes its one response and never takes it out.            *)
Response(d) == \A i \in DOMAIN d.ring : d.ring[i] = d.tx_buffer
OneAtATime == Single(dev.tx, pc.tx) /\ Response(dev.rx)

(* A device whose fifo and buffer stay, and whose call has not ended.      *)
LEMMA SingleKept ==
  ASSUME NEW d, NEW r, NEW p, NEW q, Single(d, p),
         r.ring = d.ring, r.tx_buffer = d.tx_buffer,
         Gone(r, q) => Gone(d, p)
  PROVE Single(r, q)
BY DEF Single

(* A sequence of one element.                                              *)
LEMMA OneLong ==
  ASSUME NEW S, NEW s \in Seq(S), s # <<>>, Len(s) <= 1
  PROVE Tail(s) = <<>>
<1>1. Len(s) \in Nat /\ Len(s) # 0
  BY LenProperties, EmptySeq
<1>2. Len(s) = 1
  BY <1>1
<1>3. Tail(s) \in Seq(S) /\ Len(Tail(s)) = 0
  BY <1>2, HeadTailProperties
<1> QED
  BY <1>3, EmptySeq
LEMMA OnePushed ==
  ASSUME NEW e \in Nat, NEW s, s = Append(<<>>, e)
  PROVE Len(s) <= 1 /\ s # <<>> /\ \A i \in DOMAIN s : s[i] = e
<1>1. s \in Seq(Nat) /\ Len(s) = 1 /\ s[1] = e /\ DOMAIN s = 1 .. 1
  BY EmptySeq, AppendProperties, LenProperties
<1> QED
  BY <1>1, EmptySeq

LEMMA SinglePush ==
  ASSUME NEW d, NEW m, NEW n, NEW k, NEW p \in {"push", "ready"}, TxInv(d, m, p, n, k),
         Single(d, p), p = "push" \/ Len(d.ring) < 1,
         NEW r, r = ppt_push_tx_data(d, k + 1)
  PROVE Single(r, "ready")
<1>1. d \in Device /\ d.ring = <<>> /\ d.free_segs # 0 /\ k + 1 \in Nat
  BY DeviceFields, PptAssumption DEF TxInv, Single, Gone, PptAssumption
<1>2. r = [d EXCEPT !.tx_buffer = k + 1, !.ring = Append(d.ring, k + 1), !.free_segs = d.free_segs - 1]
  BY <1>1 DEF ppt_push_tx_data
<1>3. r.tx_buffer = k + 1 /\ r.ring = Append(<<>>, k + 1)
  BY <1>1, <1>2 DEF Device
<1>4. Len(r.ring) <= 1 /\ \A i \in DOMAIN r.ring : r.ring[i] = k + 1
  BY <1>1, <1>3, OnePushed
<1> QED
  BY <1>3, <1>4 DEF Single, Gone

LEMMA SingleIsr ==
  ASSUME NEW d, NEW m, NEW p, NEW n, NEW k, TxInv(d, m, p, n, k), Single(d, p), Interrupt(d),
         NEW r, r = PtxIsr(d, m)
  PROVE Single(r, p)
<1>1. /\ d \in Device /\ d.ring \in Seq(Payload) /\ p = "spin" /\ Fifo(d, r)
      /\ Sending(d, m, n) \/ TxStopping(d, m, n)
  BY TxIsrInv, DeviceFields DEF TxInv, Interrupt, Over, Quiet
<1>2. CASE TxStopping(d, m, n)
  <2>1. d.ring = <<>> /\ r.tx_buffer = d.tx_buffer /\ (r.ring = <<>> \/ r.ring = Tail(<<>>))
    BY <1>1, <1>2 DEF Single, Gone, TxStopping, Interrupt, Fifo
  <2>2. d.kill_int /\ ~d.tx_int /\ d.rx_int = "none"
    BY <1>2 DEF TxStopping, Interrupt
  <2>3. r = [d EXCEPT !.kill_int = FALSE, !.rx_fifo = 0, !.fsm = "STANDBY", !.sync_flag = FALSE]
    BY <2>2 DEF PtxIsr, PtxSent, PtxReceived, Killed
  <2>4. r.ring = d.ring
    BY <1>1, <2>3 DEF Device
  <2> QED
    BY <1>1, <2>1, <2>4 DEF Single, Gone
<1>3. CASE Sending(d, m, n) /\ r.ring = Tail(d.ring)
  <2>1. d.ring \in Seq(Payload) /\ d.ring # <<>> /\ Len(d.ring) <= 1 /\ r.ring = Tail(d.ring)
    BY <1>1, <1>3 DEF Single, Gone, Sending
  <2>3. r.ring = <<>> /\ Len(r.ring) <= 1
    BY <2>1, OneLong, EmptySeq
  <2> QED
    BY <2>3 DEF Single, Gone
<1>4. CASE Sending(d, m, n) /\ r.ring # Tail(d.ring)
  <2>1. /\ r.ring = d.ring /\ r.tx_buffer = d.tx_buffer
        /\ r.sync_flag /\ r.radio # "ptx_stop" /\ ~r.kill_int
    BY <1>1, <1>4 DEF Fifo, Sending
  <2> QED
    BY <1>1, <2>1, SingleKept DEF Gone
<1> QED
  BY <1>1, <1>2, <1>3, <1>4

(* The order of the packets: the buffer holds the last one pushed, and     *)
(* what the receiver has in its fifo was in the buffer at some time.       *)
Order ==
  /\ dev.tx.tx_buffer = pushed
  /\ pc.tx # "push" => pushed > 0
  /\ dev.rx.rx_int = "good" =>
       dev.rx.rx_fifo \in 1 .. pushed /\ \A i \in DOMAIN got : got[i] <= dev.rx.rx_fifo
  /\ InOrder
Details == Inv /\ Order /\ (MaxBurst = 1 => OneAtATime)

(* A step that leaves the fifos, the buffers and what was got alone.       *)
LEMMA DetailsKept ==
  ASSUME Details, pushed' = pushed, got' = got,
         dev'.tx.tx_buffer = dev.tx.tx_buffer, dev'.tx.ring = dev.tx.ring,
         dev'.rx.tx_buffer = dev.rx.tx_buffer, dev'.rx.ring = dev.rx.ring,
         dev'.rx.rx_int = "good" => dev.rx.rx_int = "good" /\ dev'.rx.rx_fifo = dev.rx.rx_fifo,
         pc'.tx # "push" => pc.tx # "push",
         Gone(dev'.tx, pc'.tx) => Gone(dev.tx, pc.tx)
  PROVE Order' /\ (MaxBurst = 1 => OneAtATime')
<1>1. Order'
  BY DEF Details, Order, InOrder
<1>2. MaxBurst = 1 => OneAtATime'
  BY SingleKept DEF Details, OneAtATime, Response
<1> QED
  BY <1>1, <1>2

LEMMA TxParts ==
  ASSUME Inv, NEW d, dev' = [dev EXCEPT !["tx"] = d]
  PROVE dev'.tx = d /\ dev'.rx = dev.rx /\ dev.tx \in Device
BY DEF Inv, End
LEMMA RxParts ==
  ASSUME Inv, NEW d, dev' = [dev EXCEPT !["rx"] = d]
  PROVE dev'.rx = d /\ dev'.tx = dev.tx /\ dev.rx \in Device
BY DEF Inv, End
LEMMA TxPlaces ==
  ASSUME Inv, NEW q, pc' = [pc EXCEPT !["tx"] = q]
  PROVE pc'.tx = q
BY DEF Inv, End
LEMMA RxPlaces ==
  ASSUME Inv, NEW q, pc' = [pc EXCEPT !["rx"] = q]
  PROVE pc'.tx = pc.tx
BY DEF Inv, End

LEMMA DetailsTxPush ==
  ASSUME Details, TxPush
  PROVE Order' /\ (MaxBurst = 1 => OneAtATime')
<1> DEFINE d == ppt_push_tx_data(dev.tx, pushed + 1)
<1>1. /\ dev' = [dev EXCEPT !["tx"] = d] /\ pc' = [pc EXCEPT !["tx"] = "ready"]
      /\ pushed' = pushed + 1 /\ got' = got /\ pc.tx \in {"push", "ready"}
      /\ pc.tx = "push" \/ Len(dev.tx.ring) < MaxBurst
      /\ TxInv(dev.tx, mode.tx, pc.tx, onAir, pushed) /\ Inv /\ pushed \in Nat
  BY DEF TxPush, Step, Details, Inv, TxInv
<1>2. dev'.tx = d /\ dev'.rx = dev.rx /\ dev.tx \in Device /\ pc'.tx = "ready"
  BY <1>1, TxParts, TxPlaces
<1>3. d.tx_buffer = pushed + 1
  BY <1>2 DEF ppt_push_tx_data, Device
<1>4. MaxBurst = 1 => Single(d, "ready")
  BY <1>1, SinglePush DEF Details, OneAtATime
<1> HIDE DEF d
<1>5. Order'
  BY <1>1, <1>2, <1>3 DEF Details, Order, InOrder
<1>6. MaxBurst = 1 => OneAtATime'
  BY <1>2, <1>4 DEF Details, OneAtATime
<1> QED
  BY <1>5, <1>6

LEMMA DetailsRxPush ==
  ASSUME Details, RxPush
  PROVE Order' /\ (MaxBurst = 1 => OneAtATime')
<1> DEFINE d == ppt_push_tx_data(dev.rx, 1)
<1>1. /\ dev' = [dev EXCEPT !["rx"] = d] /\ pc' = [pc EXCEPT !["rx"] = "ready"]
      /\ pushed' = pushed /\ got' = got /\ Inv /\ pc.rx = "push"
      /\ dev.rx.ring = <<>> /\ dev.rx.free_segs + 0 = PPT_TX_FIFO_SIZE
  BY EmptySeq DEF RxPush, Step, Details, Inv, RxInv
<1>2. dev'.rx = d /\ dev'.tx = dev.tx /\ dev.rx \in Device /\ pc'.tx = pc.tx
  BY <1>1, RxParts, RxPlaces
<1>3. dev.rx.free_segs # 0
  BY <1>1, <1>2, DeviceFields, PptAssumption DEF PptAssumption
<1>4. /\ d.tx_buffer = 1 /\ d.ring = Append(<<>>, 1)
      /\ d.rx_int = dev.rx.rx_int /\ d.rx_fifo = dev.rx.rx_fifo
  BY <1>1, <1>2, <1>3 DEF ppt_push_tx_data, Device
<1> HIDE DEF d
<1>5. Order'
  BY <1>1, <1>2, <1>4 DEF Details, Order, InOrder
<1>6. Response(d)
  BY <1>4, OnePushed DEF Response
<1>7. MaxBurst = 1 => OneAtATime'
  BY <1>2, <1>6 DEF Details, OneAtATime
<1> QED
  BY <1>5, <1>7

LEMMA DetailsTxIsr ==
  ASSUME Details, TxIsr
  PROVE Order' /\ (MaxBurst = 1 => OneAtATime')
<1> DEFINE d == PtxIsr(dev.tx, mode.tx)
<1>1. /\ dev' = [dev EXCEPT !["tx"] = d] /\ pc' = pc /\ pushed' = pushed /\ got' = got
      /\ Interrupt(dev.tx) /\ TxInv(dev.tx, mode.tx, pc.tx, onAir, pushed) /\ Inv
  BY DEF TxIsr, Details, Inv
<1>2. dev'.tx = d /\ dev'.rx = dev.rx
  BY <1>1, TxParts
<1>3. d.tx_buffer = dev.tx.tx_buffer
  BY <1>1, TxIsrInv DEF Fifo
<1>4. MaxBurst = 1 => Single(d, pc.tx)
  BY <1>1, SingleIsr DEF Details, OneAtATime
<1> HIDE DEF d
<1>5. Order'
  BY <1>1, <1>2, <1>3 DEF Details, Order, InOrder
<1>6. MaxBurst = 1 => OneAtATime'
  BY <1>1, <1>2, <1>4 DEF Details, OneAtATime
<1> QED
  BY <1>5, <1>6

(* What the receiver's handler leaves alone, and what it takes.            *)
LEMMA RxIsrLeaves ==
  ASSUME NEW d \in Device, NEW m \in Mode, NEW r, r = PrxIsr(d, m)
  PROVE r.tx_buffer = d.tx_buffer /\ r.ring = d.ring /\ r.rx_int = "none"
<1> DEFINE a == PrxReceived(d, m)
           b == PrxSent(a, m)
<1>1. a \in Device /\ a.tx_buffer = d.tx_buffer /\ a.ring = d.ring /\ a.rx_int = "none"
  <2>1. a.tx_buffer = d.tx_buffer
    BY DEF PrxReceived, Device
  <2> QED
    BY <2>1, PrxReceivedFields
<1> HIDE DEF a
<1>2. b \in Device /\ b.tx_buffer = a.tx_buffer /\ b.ring = a.ring /\ b.rx_int = a.rx_int
  <2>1. b.tx_buffer = a.tx_buffer
    BY <1>1 DEF PrxSent, Device
  <2> QED
    BY <1>1, <2>1, PrxSentFields
<1> HIDE DEF b
<1>3. r = Killed(b)
  BY DEF PrxIsr, a, b
<1>4. r.tx_buffer = b.tx_buffer /\ r.ring = b.ring /\ r.rx_int = b.rx_int
  BY <1>2, <1>3 DEF Killed, Device
<1> QED
  BY <1>1, <1>2, <1>4

LEMMA DetailsRxIsr ==
  ASSUME Details, RxIsr
  PROVE Order' /\ (MaxBurst = 1 => OneAtATime')
<1> DEFINE d == PrxIsr(dev.rx, mode.rx)
           x == dev.rx.rx_fifo
<1>1. /\ dev' = [dev EXCEPT !["rx"] = d] /\ pc' = pc /\ pushed' = pushed
      /\ got' = got \o Handed(dev.rx) /\ Inv /\ got \in Seq(Payload) /\ mode.rx \in Mode
  BY DEF RxIsr, Details, Inv, RxInv
<1>2. dev'.rx = d /\ dev'.tx = dev.tx /\ dev.rx \in Device
  BY <1>1, RxParts
<1>3. d.tx_buffer = dev.rx.tx_buffer /\ d.ring = dev.rx.ring /\ d.rx_int = "none"
  BY <1>1, <1>2, RxIsrLeaves
<1> HIDE DEF d
<1>4. MaxBurst = 1 => OneAtATime'
  BY <1>1, <1>2, <1>3 DEF Details, OneAtATime, Response
<1>5. x \in Payload
  BY <1>2, DeviceFields
<1>6. InOrder'
  <2>1. CASE dev.rx.rx_int # "good"
    <3>1. Handed(dev.rx) = <<>>
      BY <2>1 DEF Handed
    <3>2. got' = got
      BY <1>1, <3>1, ConcatEmptySeq
    <3> QED
      BY <1>1, <3>2 DEF Details, Order, InOrder
  <2>2. CASE dev.rx.rx_int = "good"
    <3>1. x \in 1 .. pushed /\ \A i \in DOMAIN got : got[i] <= x
      BY <2>2 DEF Details, Order
    <3>2. Handed(dev.rx) = <<x>> /\ got' = got \o <<x>>
      BY <1>1, <2>2 DEF Handed
    <3> HIDE DEF x
    <3>3. /\ Len(got) \in Nat /\ DOMAIN got = 1 .. Len(got)
          /\ Len(got') = Len(got) + 1 /\ DOMAIN got' = 1 .. Len(got) + 1
          /\ \A i \in 1 .. Len(got) : got'[i] = got[i]
          /\ got'[Len(got) + 1] = x
      <4>1. got' = Append(got, x)
        BY <1>1, <1>5, <3>2, AppendIsConcat
      <4> QED
        BY <1>1, <1>5, <4>1, AppendProperties, LenProperties
    <3>4. \A i \in DOMAIN got' : got'[i] \in 1 .. pushed
      BY <3>1, <3>3 DEF Details, Order, InOrder
    <3>5. ASSUME NEW i \in 2 .. Len(got') PROVE got'[i - 1] <= got'[i]
      <4>1. CASE i \in 2 .. Len(got)
        BY <3>3, <4>1 DEF Details, Order, InOrder
      <4>2. CASE i = Len(got) + 1
        <5>1. i - 1 \in 1 .. Len(got) /\ i - 1 \in DOMAIN got
          BY <3>3, <4>2
        <5> QED
          BY <3>1, <3>3, <4>2, <5>1
      <4> QED
        BY <3>3, <4>1, <4>2
    <3> QED
      BY <1>1, <3>4, <3>5 DEF InOrder
  <2> QED
    BY <2>1, <2>2
<1>7. Order'
  BY <1>1, <1>2, <1>3, <1>6 DEF Details, Order
<1> QED
  BY <1>4, <1>7

(* The radios: only a packet heard matters, and it is the one pushed last. *)
LEMMA DetailsTransmit ==
  ASSUME Details, Transmit
  PROVE Order' /\ (MaxBurst = 1 => OneAtATime')
<1> DEFINE sent == [dev.tx EXCEPT !.tx_int = TRUE, !.turn = mode.tx.ack,
                      !.radio = IF mode.tx.oneshot /\ ~mode.tx.ack THEN "idle" ELSE "ptx"]
<1>0. /\ Inv /\ dev.tx \in Device /\ dev.rx \in Device
      /\ TxInv(dev.tx, mode.tx, pc.tx, onAir, pushed) /\ pushed \in Nat
  BY DEF Details, Inv, TxInv, RxInv
<1>1. /\ dev.tx.radio = "ptx" /\ ~Interrupt(dev.tx) /\ UNCHANGED <<mode, pc, pushed, scans, got>>
      /\ \/ dev' = [dev EXCEPT !["tx"] = sent]
         \/ /\ Listening
            /\ \E heard \in {Heard(dev.rx, mode.rx, "good", dev.tx.tx_buffer),
                             Heard(dev.rx, mode.rx, "bad", 0)} : dev' = [tx |-> sent, rx |-> heard]
  BY DEF Transmit
<1>2. /\ sent.tx_buffer = dev.tx.tx_buffer /\ sent.ring = dev.tx.ring
      /\ sent.sync_flag = dev.tx.sync_flag /\ sent.kill_int = dev.tx.kill_int
      /\ sent.radio # "ptx_stop"
  BY <1>0 DEF Device
<1> HIDE DEF sent
<1>3. Gone(sent, pc.tx) => Gone(dev.tx, pc.tx)
  BY <1>2 DEF Gone
<1>4. CASE dev' = [dev EXCEPT !["tx"] = sent]
  <2>1. dev'.tx = sent /\ dev'.rx = dev.rx
    BY <1>0, <1>4, TxParts
  <2> QED
    BY <1>1, <1>2, <1>3, <2>1, DetailsKept
<1>5. ASSUME NEW outcome, NEW data, dev' = [tx |-> sent, rx |-> Heard(dev.rx, mode.rx, outcome, data)],
             outcome = "good" => data = dev.tx.tx_buffer
      PROVE Order' /\ (MaxBurst = 1 => OneAtATime')
  <2> DEFINE h == Heard(dev.rx, mode.rx, outcome, data)
  <2>1. h.tx_buffer = dev.rx.tx_buffer /\ h.ring = dev.rx.ring /\ h.rx_int = outcome /\ h.rx_fifo = data
    BY <1>0 DEF Heard, Device
  <2>2. dev'.tx = sent /\ dev'.rx = h
    BY <1>5
  <2> HIDE DEF h
  <2>3. pc.tx = "spin" /\ pushed > 0 /\ dev.tx.tx_buffer = pushed
    BY <1>0, <1>1 DEF TxInv, Over, Details, Order
  <2>4. \A i \in DOMAIN got : got[i] <= pushed
    BY <1>0 DEF Details, Order, InOrder
  <2>5. Order'
    BY <1>0, <1>1, <1>2, <1>5, <2>1, <2>2, <2>3, <2>4 DEF Details, Order, InOrder
  <2>6. MaxBurst = 1 => OneAtATime'
    BY <1>1, <1>2, <1>3, <2>1, <2>2, SingleKept DEF Details, OneAtATime, Response
  <2> QED
    BY <2>5, <2>6
<1> QED
  BY <1>1, <1>4, <1>5

(* Every other step of the transmitter.                                    *)
LEMMA DetailsTx ==
  ASSUME Details, Task("tx") \/ NoAnswer \/ Stopped("tx")
  PROVE Order' /\ (MaxBurst = 1 => OneAtATime')
<1>0. Inv /\ dev.tx \in Device /\ TxInv(dev.tx, mode.tx, pc.tx, onAir, pushed)
  BY DEF Details, Inv, TxInv
<1>1. CASE Enable("tx")
  <2> DEFINE d == ppt_enable_ptx(dev.tx, mode.tx)
  <2>1. /\ dev' = [dev EXCEPT !["tx"] = d] /\ pc' = [pc EXCEPT !["tx"] = "enabled"] /\ pushed' = pushed /\ got' = got
        /\ pc.tx = "ready"
    BY <1>1 DEF Enable, Step
  <2>2. dev'.tx = d /\ dev'.rx = dev.rx /\ pc'.tx = "enabled"
    BY <1>0, <2>1, TxParts, TxPlaces
  <2>3. d.tx_buffer = dev.tx.tx_buffer /\ d.ring = dev.tx.ring
    BY <1>0 DEF Device, ppt_enable_ptx
  <2> HIDE DEF d
  <2>4. Gone(d, "enabled") => Gone(dev.tx, pc.tx)
    BY <1>0, <2>1, <2>3 DEF Gone
  <2> QED
    BY <2>1, <2>2, <2>3, <2>4, DetailsKept
<1>2. CASE Execute("tx")
  <2> DEFINE d == ppt_execute_instruction(dev.tx, "ptx")
  <2>1. /\ dev' = [dev EXCEPT !["tx"] = d] /\ pc' = [pc EXCEPT !["tx"] = "spin"] /\ pushed' = pushed /\ got' = got
        /\ pc.tx = "enabled"
    BY <1>2 DEF Execute, Step
  <2>2. dev'.tx = d /\ dev'.rx = dev.rx /\ pc'.tx = "spin"
    BY <1>0, <2>1, TxParts, TxPlaces
  <2>3. d.tx_buffer = dev.tx.tx_buffer /\ d.ring = dev.tx.ring
        /\ d.sync_flag = dev.tx.sync_flag /\ d.kill_int = dev.tx.kill_int /\ d.radio = "ptx"
    BY <1>0 DEF Device, ppt_execute_instruction
  <2> HIDE DEF d
  <2>4. Gone(d, "spin") => Gone(dev.tx, pc.tx)
    BY <1>0, <2>1, <2>3 DEF Gone, TxInv, Quiet
  <2> QED
    BY <2>1, <2>2, <2>3, <2>4, DetailsKept
<1>3. CASE Return("tx")
  <2> DEFINE d == Returned(dev.tx)
  <2>1. /\ dev' = [dev EXCEPT !["tx"] = d] /\ pc' = [pc EXCEPT !["tx"] = "push"] /\ pushed' = pushed /\ got' = got
        /\ pc.tx = "spin" /\ ~dev.tx.sync_flag
    BY <1>3 DEF Return, Step
  <2>2. dev'.tx = d /\ dev'.rx = dev.rx /\ pc'.tx = "push"
    BY <1>0, <2>1, TxParts, TxPlaces
  <2>3. d.tx_buffer = dev.tx.tx_buffer /\ d.ring = dev.tx.ring
    BY <1>0 DEF Device, Returned
  <2> HIDE DEF d
  <2>4. Gone(d, "push") => Gone(dev.tx, pc.tx)
    BY <1>0, <2>1, <2>3 DEF Gone
  <2> QED
    BY <2>1, <2>2, <2>3, <2>4, DetailsKept
<1>4. CASE NoAnswer
  <2> DEFINE d == Responded("timeout")
  <2>1. /\ dev' = [dev EXCEPT !["tx"] = d] /\ pc' = pc /\ pushed' = pushed /\ got' = got
        /\ dev.tx.radio = "ptx" /\ dev.tx.turn
    BY <1>4 DEF NoAnswer
  <2>2. dev'.tx = d /\ dev'.rx = dev.rx /\ pc'.tx = pc.tx
    BY <1>0, <2>1, TxParts
  <2>3. d.tx_buffer = dev.tx.tx_buffer /\ d.ring = dev.tx.ring
        /\ d.sync_flag = dev.tx.sync_flag /\ d.kill_int = dev.tx.kill_int /\ d.radio # "ptx_stop"
    BY <1>0 DEF Device, Responded
  <2> HIDE DEF d
  <2>4. Gone(d, pc.tx) => Gone(dev.tx, pc.tx)
    BY <1>0, <2>1, <2>3 DEF Gone
  <2> QED
    BY <2>1, <2>2, <2>3, <2>4, DetailsKept
<1>5. CASE Stopped("tx")
  <2> DEFINE d == [dev.tx EXCEPT !.radio = "idle", !.turn = FALSE, !.kill_int = TRUE]
  <2>1. /\ dev' = [dev EXCEPT !["tx"] = d] /\ pc' = pc /\ pushed' = pushed /\ got' = got
        /\ dev.tx.radio \in {"ptx_stop", "prx_stop"}
    BY <1>5 DEF Stopped
  <2>2. dev'.tx = d /\ dev'.rx = dev.rx /\ pc'.tx = pc.tx
    BY <1>0, <2>1, TxParts
  <2>3. d.tx_buffer = dev.tx.tx_buffer /\ d.ring = dev.tx.ring
    BY <1>0 DEF Device
  <2> HIDE DEF d
  <2>4. Gone(d, pc.tx) => Gone(dev.tx, pc.tx)
    BY <1>0, <2>1, <2>3 DEF Gone, TxInv, Over, Sending, TxStopping
  <2> QED
    BY <2>1, <2>2, <2>3, <2>4, DetailsKept
<1> QED
  BY <1>1, <1>2, <1>3, <1>4, <1>5 DEF Task

(* Every other step of the receiver.                                       *)
LEMMA DetailsRx ==
  ASSUME Details,
         RxTask \/ DisableCheck \/ PsdIsr \/ RxRadio \/ NothingHeard, ~RxPush
  PROVE Order' /\ (MaxBurst = 1 => OneAtATime')
<1>0. Inv /\ dev.rx \in Device /\ dev.tx \in Device
  BY DEF Details, Inv, RxInv, TxInv
<1>1. ASSUME NEW d, dev' = [dev EXCEPT !["rx"] = d], pc'.tx = pc.tx,
             pushed' = pushed, got' = got,
             d.tx_buffer = dev.rx.tx_buffer, d.ring = dev.rx.ring,
             d.rx_int = "good" => dev.rx.rx_int = "good" /\ d.rx_fifo = dev.rx.rx_fifo
      PROVE Order' /\ (MaxBurst = 1 => OneAtATime')
  <2>1. dev'.rx = d /\ dev'.tx = dev.tx
    BY <1>0, <1>1, RxParts
  <2> QED
    BY <1>1, <2>1, DetailsKept
<1>2. CASE Scan /\ scans < MaxScans
  <2> DEFINE d == ppt_enable_psd(dev.rx)
  <2>1. dev' = [dev EXCEPT !["rx"] = d] /\ pushed' = pushed /\ got' = got
    BY <1>2 DEF Scan, Step
  <2>2. pc'.tx = pc.tx
    BY <1>0, <1>2, RxPlaces DEF Scan, Step
  <2>3. d.tx_buffer = dev.rx.tx_buffer /\ d.ring = dev.rx.ring /\ d.rx_int = dev.rx.rx_int /\ d.rx_fifo = dev.rx.rx_fifo
    BY <1>0 DEF Device, ppt_enable_psd
  <2> HIDE DEF d
  <2> QED
    BY <1>1, <2>1, <2>2, <2>3
<1>3. CASE ScanExecute
  <2> DEFINE d == ppt_execute_instruction(dev.rx, "psd")
  <2>1. dev' = [dev EXCEPT !["rx"] = d] /\ pushed' = pushed /\ got' = got
    BY <1>3 DEF ScanExecute, Step
  <2>2. pc'.tx = pc.tx
    BY <1>0, <1>3, RxPlaces DEF ScanExecute, Step
  <2>3. d.tx_buffer = dev.rx.tx_buffer /\ d.ring = dev.rx.ring /\ d.rx_int = dev.rx.rx_int /\ d.rx_fifo = dev.rx.rx_fifo
    BY <1>0 DEF Device, ppt_execute_instruction
  <2> HIDE DEF d
  <2> QED
    BY <1>1, <2>1, <2>2, <2>3
<1>4. CASE Enable("rx")
  <2> DEFINE d == ppt_enable_prx(dev.rx)
  <2>1. dev' = [dev EXCEPT !["rx"] = d] /\ pushed' = pushed /\ got' = got
    BY <1>4 DEF Enable, Step
  <2>2. pc'.tx = pc.tx
    BY <1>0, <1>4, RxPlaces DEF Enable, Step
  <2>3. d.tx_buffer = dev.rx.tx_buffer /\ d.ring = dev.rx.ring /\ d.rx_int = dev.rx.rx_int /\ d.rx_fifo = dev.rx.rx_fifo
    BY <1>0 DEF Device, ppt_enable_prx
  <2> HIDE DEF d
  <2> QED
    BY <1>1, <2>1, <2>2, <2>3
<1>5. CASE Execute("rx")
  <2> DEFINE d == ppt_execute_instruction(dev.rx, "prx")
  <2>1. dev' = [dev EXCEPT !["rx"] = d] /\ pushed' = pushed /\ got' = got
    BY <1>5 DEF Execute, Step
  <2>2. pc'.tx = pc.tx
    BY <1>0, <1>5, RxPlaces DEF Execute, Step
  <2>3. d.tx_buffer = dev.rx.tx_buffer /\ d.ring = dev.rx.ring /\ d.rx_int = dev.rx.rx_int /\ d.rx_fifo = dev.rx.rx_fifo
    BY <1>0 DEF Device, ppt_execute_instruction
  <2> HIDE DEF d
  <2> QED
    BY <1>1, <2>1, <2>2, <2>3
<1>6. CASE Return("rx")
  <2> DEFINE d == Returned(dev.rx)
  <2>1. dev' = [dev EXCEPT !["rx"] = d] /\ pushed' = pushed /\ got' = got
    BY <1>6 DEF Return, Step
  <2>2. pc'.tx = pc.tx
    BY <1>0, <1>6, RxPlaces DEF Return, Step
  <2>3. d.tx_buffer = dev.rx.tx_buffer /\ d.ring = dev.rx.ring /\ d.rx_int = dev.rx.rx_int /\ d.rx_fifo = dev.rx.rx_fifo
    BY <1>0 DEF Device, Returned
  <2> HIDE DEF d
  <2> QED
    BY <1>1, <2>1, <2>2, <2>3
<1>7. CASE DisableArm
  <2> DEFINE d == [dev.rx EXCEPT !.sync_flag = TRUE]
  <2>1. dev' = [dev EXCEPT !["rx"] = d] /\ pushed' = pushed /\ got' = got
    BY <1>7 DEF DisableArm, Step
  <2>2. pc'.tx = pc.tx
    BY <1>0, <1>7, RxPlaces DEF DisableArm, Step
  <2>3. d.tx_buffer = dev.rx.tx_buffer /\ d.ring = dev.rx.ring /\ d.rx_int = dev.rx.rx_int /\ d.rx_fifo = dev.rx.rx_fifo
    BY <1>0 DEF Device
  <2> HIDE DEF d
  <2> QED
    BY <1>1, <2>1, <2>2, <2>3
<1>8. CASE DisableExecute
  <2> DEFINE d == ppt_execute_instruction(dev.rx, "prx_stop")
  <2>1. dev' = [dev EXCEPT !["rx"] = d] /\ pushed' = pushed /\ got' = got
    BY <1>8 DEF DisableExecute, Step
  <2>2. pc'.tx = pc.tx
    BY <1>0, <1>8, RxPlaces DEF DisableExecute, Step
  <2>3. d.tx_buffer = dev.rx.tx_buffer /\ d.ring = dev.rx.ring /\ d.rx_int = dev.rx.rx_int /\ d.rx_fifo = dev.rx.rx_fifo
    BY <1>0 DEF Device, ppt_execute_instruction
  <2> HIDE DEF d
  <2> QED
    BY <1>1, <2>1, <2>2, <2>3
<1>9. CASE PsdIsr
  <2> DEFINE d == ppt_psd_isr_handler_imp(dev.rx)
  <2>1. dev' = [dev EXCEPT !["rx"] = d] /\ pushed' = pushed /\ got' = got
    BY <1>9 DEF PsdIsr
  <2>2. pc'.tx = pc.tx
    BY <1>0, <1>9, RxPlaces DEF PsdIsr
  <2>3. d.tx_buffer = dev.rx.tx_buffer /\ d.ring = dev.rx.ring /\ d.rx_int = dev.rx.rx_int /\ d.rx_fifo = dev.rx.rx_fifo
    BY <1>0 DEF Device, ppt_psd_isr_handler_imp
  <2> HIDE DEF d
  <2> QED
    BY <1>1, <2>1, <2>2, <2>3
<1>10. CASE Stopped("rx")
  <2> DEFINE d == [dev.rx EXCEPT !.radio = "idle", !.turn = FALSE, !.kill_int = TRUE]
  <2>1. dev' = [dev EXCEPT !["rx"] = d] /\ pushed' = pushed /\ got' = got
    BY <1>10 DEF Stopped
  <2>2. pc'.tx = pc.tx
    BY <1>0, <1>10, RxPlaces DEF Stopped
  <2>3. d.tx_buffer = dev.rx.tx_buffer /\ d.ring = dev.rx.ring /\ d.rx_int = dev.rx.rx_int /\ d.rx_fifo = dev.rx.rx_fifo
    BY <1>0 DEF Device
  <2> HIDE DEF d
  <2> QED
    BY <1>1, <2>1, <2>2, <2>3
<1>11. CASE ScanEnds
  <2> DEFINE d == [dev.rx EXCEPT !.radio = "idle", !.psd_int = TRUE]
  <2>1. dev' = [dev EXCEPT !["rx"] = d] /\ pushed' = pushed /\ got' = got
    BY <1>11 DEF ScanEnds
  <2>2. pc'.tx = pc.tx
    BY <1>0, <1>11, RxPlaces DEF ScanEnds
  <2>3. d.tx_buffer = dev.rx.tx_buffer /\ d.ring = dev.rx.ring /\ d.rx_int = dev.rx.rx_int /\ d.rx_fifo = dev.rx.rx_fifo
    BY <1>0 DEF Device
  <2> HIDE DEF d
  <2> QED
    BY <1>1, <2>1, <2>2, <2>3
<1>12. CASE NothingHeard
  <2> DEFINE d == [dev.rx EXCEPT !.rx_int = "timeout", !.radio = "idle"]
  <2>1. dev' = [dev EXCEPT !["rx"] = d] /\ pushed' = pushed /\ got' = got
    BY <1>12 DEF NothingHeard
  <2>2. pc'.tx = pc.tx
    BY <1>0, <1>12, RxPlaces DEF NothingHeard
  <2>3. d.tx_buffer = dev.rx.tx_buffer /\ d.ring = dev.rx.ring /\ d.rx_int # "good"
    BY <1>0 DEF Device
  <2> HIDE DEF d
  <2> QED
    BY <1>1, <2>1, <2>2, <2>3
<1>13. CASE (Scan /\ ~(scans < MaxScans)) \/ Scanned \/ DisableCheck
  <2>1. dev' = dev /\ pushed' = pushed /\ got' = got /\ \E q : pc' = [pc EXCEPT !["rx"] = q]
    BY <1>13 DEF Scan, Scanned, DisableCheck
  <2>2. pc'.tx = pc.tx
    BY <1>0, <2>1, RxPlaces
  <2> QED
    BY <2>1, <2>2, DetailsKept
<1>14. CASE Answer
  <2> DEFINE sent == [dev.rx EXCEPT !.tx_int = TRUE, !.turn = FALSE,
                        !.radio = IF mode.rx.oneshot THEN "idle" ELSE "prx"]
  <2>1. /\ pc' = pc /\ pushed' = pushed /\ got' = got
        /\ \/ dev' = [dev EXCEPT !["rx"] = sent]
           \/ /\ dev.tx.radio = "ptx"
              /\ \E outcome \in {"good", "bad"} : dev' = [tx |-> Responded(outcome), rx |-> sent]
    BY <1>14 DEF Answer
  <2>2. /\ sent.tx_buffer = dev.rx.tx_buffer /\ sent.ring = dev.rx.ring
        /\ sent.rx_int = dev.rx.rx_int /\ sent.rx_fifo = dev.rx.rx_fifo
    BY <1>0 DEF Device
  <2> HIDE DEF sent
  <2>3. CASE dev' = [dev EXCEPT !["rx"] = sent]
    BY <1>1, <2>1, <2>2, <2>3
  <2>4. ASSUME NEW outcome \in {"good", "bad"}, dev' = [tx |-> Responded(outcome), rx |-> sent]
        PROVE Order' /\ (MaxBurst = 1 => OneAtATime')
    <3> DEFINE d == Responded(outcome)
    <3>1. /\ d.tx_buffer = dev.tx.tx_buffer /\ d.ring = dev.tx.ring
          /\ d.sync_flag = dev.tx.sync_flag /\ d.kill_int = dev.tx.kill_int /\ d.radio # "ptx_stop"
      BY <1>0 DEF Responded, Device
    <3>2. dev'.tx = d /\ dev'.rx = sent
      BY <2>4
    <3> HIDE DEF d
    <3>3. Gone(dev'.tx, pc'.tx) => Gone(dev.tx, pc.tx)
      BY <2>1, <3>1, <3>2 DEF Gone
    <3> QED
      BY <2>1, <2>2, <3>1, <3>2, <3>3, DetailsKept
  <2> QED
    BY <2>1, <2>3, <2>4
<1> QED
  BY <1>2, <1>3, <1>4, <1>5, <1>6, <1>7, <1>8, <1>9, <1>10, <1>11, <1>12, <1>13, <1>14 DEF RxTask, RxRadio, Task

LEMMA DetailsNext == Details /\ [Next]_vars => Details'
<1> SUFFICES ASSUME Details, [Next]_vars PROVE Details'
  OBVIOUS
<1>1. Inv'
  BY InvNext DEF Details
<1>2. CASE UNCHANGED vars
  BY <1>1, <1>2, DetailsKept DEF vars, Details
<1>3. CASE Next
  <2>1. Order' /\ (MaxBurst = 1 => OneAtATime')
    BY <1>3, DetailsTxPush, DetailsRxPush, DetailsTxIsr, DetailsRxIsr, DetailsTransmit, DetailsTx, DetailsRx
       DEF Next, TxTask, TxRadio, RxTask, RxRadio
  <2> QED
    BY <1>1, <2>1 DEF Details
<1> QED
  BY <1>2, <1>3

LEMMA DetailsInit == Init => Details
<1> SUFFICES ASSUME Init PROVE Details
  OBVIOUS
<1>1. /\ dev.tx = ppt_init /\ dev.rx = ppt_init /\ pc.tx = "push" /\ pushed = 0 /\ got = <<>>
  BY DEF Init, End
<1>2. ppt_init.ring = <<>> /\ ppt_init.tx_buffer = 0 /\ ppt_init.rx_int = "none"
  BY DEF ppt_init
<1>3. DOMAIN <<>> = {} /\ Len(<<>>) = 0
  BY EmptySeq
<1>4. Order
  BY <1>1, <1>2, <1>3 DEF Order, InOrder
<1>5. OneAtATime
  BY <1>1, <1>2, <1>3 DEF OneAtATime, Single, Response
<1> QED
  BY <1>4, <1>5, InvInit DEF Details

LEMMA DetailsHold == Spec => []Details
<1> QED
  BY DetailsInit, DetailsNext, PTL DEF Spec

(* The receiver hands the packets on in the order of the pushes, whatever  *)
(* the air loses or damages and however many packets the sender pushes.    *)
THEOREM PacketsInOrder == Spec => []InOrder
<1>1. Details => InOrder
  BY DEF Details, Order
<1> QED
  BY <1>1, DetailsHold, PTL

(* With one packet at a time, as the demo does it, the buffer holds the    *)
(* data of the packet in the fifo until the packet has left it.            *)
THEOREM OnePacketValid == MaxBurst = 1 => (Spec => []PendingDataValid)
<1> SUFFICES ASSUME MaxBurst = 1 PROVE Spec => []PendingDataValid
  OBVIOUS
<1>1. Details => PendingDataValid
  BY DEF Details, OneAtATime, Single, Response, PendingDataValid, End
<1> QED
  BY <1>1, DetailsHold, PTL

(* And a call that has returned has sent its packet as often as asked.     *)
THEOREM OnePacketSent == MaxBurst = 1 => (Spec => []SentAsAsked)
<1> SUFFICES ASSUME MaxBurst = 1 PROVE Spec => []SentAsAsked
  OBVIOUS
<1>1. Details => SentAsAsked
  BY DEF Details, OneAtATime, Single, Gone, SentAsAsked, Inv, TxInv
<1> QED
  BY <1>1, DetailsHold, PTL

=============================================================================
