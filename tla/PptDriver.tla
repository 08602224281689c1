------------------------------ MODULE PptDriver ------------------------------
(***************************************************************************)
(* The simple wrapper of the 2.4 GHz driver (ppt_simple.c), the transmit   *)
(* fifo it uses (ppt_driver.c) and the interrupt handlers that complete    *)
(* its procedures (ppt_simple_trx).  A device is a record: the context of  *)
(* the wrapper, the fifo of entry 0, and what the radio (external) does.   *)
(* Operators return the device after a step of the code.                   *)
(***************************************************************************)
EXTENDS Naturals, Sequences

CONSTANTS
  PPT_TX_FIFO_SIZE,   \* places of the transmit fifo
  MaxPayload          \* bound: payloads are 1 .. MaxPayload, 0 is garbage

ASSUME PptAssumption == PPT_TX_FIFO_SIZE \in Nat \ {0} /\ MaxPayload \in Nat \ {0}

Payload == 0 .. MaxPayload
Fsm == {"STANDBY", "PTX", "PRX", "PSD"}
Radio == {"idle", "ptx", "ptx_stop", "prx", "prx_stop", "psd"}
RxOutcome == {"none", "good", "bad", "timeout"}

(* The modes a device is configured with, once.                            *)
Mode == [ack : BOOLEAN, oneshot : BOOLEAN, retransmit_times : Nat]

(* ring: the descriptors in the fifo, each with the payload pushed for it; *)
(* all of them point to tx_buffer[0], whose content is tx_buffer.          *)
Device ==
  [fsm : Fsm, retransmit_counter : Nat, sync_flag : BOOLEAN, dlps_mac_idle : BOOLEAN,
   tx_buffer : Payload, free_segs : Nat, ring : Seq(Payload),
   radio : Radio, turn : BOOLEAN, rx_fifo : Payload,
   tx_int : BOOLEAN, rx_int : RxOutcome, kill_int : BOOLEAN, psd_int : BOOLEAN]

ppt_init ==
  [fsm |-> "STANDBY", retransmit_counter |-> 0, sync_flag |-> FALSE, dlps_mac_idle |-> TRUE,
   tx_buffer |-> 0, free_segs |-> PPT_TX_FIFO_SIZE, ring |-> <<>>,
   radio |-> "idle", turn |-> FALSE, rx_fifo |-> 0,
   tx_int |-> FALSE, rx_int |-> "none", kill_int |-> FALSE, psd_int |-> FALSE]

-----------------------------------------------------------------------------
(* Calls of the task.                                                      *)

ppt_set_ptx_mode_ext(ack_mode, periodic_mode, times) ==
  [ack |-> ack_mode, oneshot |-> ~periodic_mode,
   retransmit_times |-> IF periodic_mode THEN times ELSE 0]
ppt_set_prx_mode_ext(ack_mode, continuous_mode) ==
  [ack |-> ack_mode, oneshot |-> ~continuous_mode, retransmit_times |-> 0]

(* Mutant: the place is not counted.                                       *)
ppt_push_tx_data_free(d, data) ==
  IF d.free_segs = 0 THEN [d EXCEPT !.tx_buffer = data]
  ELSE [d EXCEPT !.tx_buffer = data, !.ring = Append(d.ring, data)]

(* The data is copied to the one buffer, then a descriptor is queued; the  *)
(* fifo takes none when it is full, which is not reported.                 *)
ppt_push_tx_data(d, data) ==
  IF d.free_segs = 0 THEN [d EXCEPT !.tx_buffer = data]
  ELSE [d EXCEPT !.tx_buffer = data, !.ring = Append(d.ring, data), !.free_segs = @ - 1]

(* The three enabling calls up to the instruction; each returns at once    *)
(* unless the state is STANDBY.                                            *)
ppt_enable_ptx(d, m) ==
  [d EXCEPT !.fsm = "PTX", !.retransmit_counter = m.retransmit_times, !.sync_flag = TRUE]
ppt_enable_prx(d) == [d EXCEPT !.fsm = "PRX", !.sync_flag = TRUE]
ppt_enable_psd(d) == [d EXCEPT !.fsm = "PSD", !.sync_flag = TRUE, !.dlps_mac_idle = FALSE]

ppt_execute_instruction(d, r) == [d EXCEPT !.radio = r]

(* The end of a call without callback, when sync_flag is down.             *)
Returned(d) == [d EXCEPT !.fsm = "STANDBY"]

-----------------------------------------------------------------------------
(* Interrupt handlers.                                                     *)

(* Mutant: the packet stays in the fifo.                                   *)
ppt_trigger_fw_ack_none(d) == d

(* The read pointer moves on and one place more is free.                   *)
ppt_trigger_fw_ack(d) ==
  [d EXCEPT !.free_segs = @ + 1, !.ring = IF @ = <<>> THEN @ ELSE Tail(@)]

(* Mutant: in periodic mode the call returns before the radio has stopped. *)
LastRoundReturns(d, m) ==
  IF m.oneshot
  THEN [ppt_trigger_fw_ack(d) EXCEPT !.fsm = "STANDBY", !.sync_flag = FALSE]
  ELSE [ppt_execute_instruction(ppt_trigger_fw_ack(d), "ptx_stop") EXCEPT !.sync_flag = FALSE]

(* The last transmission of the packet acknowledges it and ends the        *)
(* procedure, in periodic mode by stopping the radio.                      *)
LastRound(d, m) ==
  IF m.oneshot
  THEN [ppt_trigger_fw_ack(d) EXCEPT !.fsm = "STANDBY", !.sync_flag = FALSE]
  ELSE ppt_execute_instruction(ppt_trigger_fw_ack(d), "ptx_stop")

(* Mutant: one transmission less than retransmit_times asks for.           *)
PacketRoundEarly(d, m) ==
  IF d.retransmit_counter <= 1 THEN LastRound(d, m)
  ELSE [d EXCEPT !.retransmit_counter = @ - 1]

(* Mutant: the counter is decreased before it is compared.                 *)
PacketRoundFirst(d, m) ==
  IF d.retransmit_counter = 1 THEN LastRound(d, m)
  ELSE [d EXCEPT !.retransmit_counter = @ - 1]

(* One transmission of the packet is over.                                 *)
PacketRound(d, m) ==
  IF d.retransmit_counter = 0 THEN LastRound(d, m)
  ELSE [d EXCEPT !.retransmit_counter = @ - 1]

PtxSent(d, m) ==
  IF ~d.tx_int THEN d
  ELSE LET popped == [d EXCEPT !.tx_int = FALSE]
       IN IF m.ack THEN popped ELSE PacketRound(popped, m)

(* What was received, if anything, does not matter for the rounds.         *)
PtxReceived(d, m) ==
  IF d.rx_int = "none" THEN d ELSE PacketRound([d EXCEPT !.rx_int = "none"], m)

Killed(d) ==
  IF ~d.kill_int THEN d
  ELSE [d EXCEPT !.kill_int = FALSE, !.rx_fifo = 0, !.fsm = "STANDBY", !.sync_flag = FALSE]

PtxIsr(d, m) == Killed(PtxReceived(PtxSent(d, m), m))

(* Mutant: the handler waits for a response to be sent although none is.   *)
PrxReceivedWaits(d, m) ==
  IF d.rx_int = "none" THEN d
  ELSE LET popped == [d EXCEPT !.rx_int = "none", !.rx_fifo = 0]
       IN IF m.oneshot /\ d.rx_int = "timeout"
          THEN [popped EXCEPT !.fsm = "STANDBY", !.sync_flag = FALSE]
          ELSE popped

PrxReceived(d, m) ==
  IF d.rx_int = "none" THEN d
  ELSE LET popped == [d EXCEPT !.rx_int = "none", !.rx_fifo = 0]
       IN IF m.oneshot /\ (~m.ack \/ d.rx_int = "timeout")
          THEN [popped EXCEPT !.fsm = "STANDBY", !.sync_flag = FALSE]
          ELSE popped

PrxSent(d, m) ==
  IF ~d.tx_int THEN d
  ELSE IF m.oneshot
       THEN [d EXCEPT !.tx_int = FALSE, !.fsm = "STANDBY", !.sync_flag = FALSE]
       ELSE [d EXCEPT !.tx_int = FALSE]

PrxIsr(d, m) == Killed(PrxSent(PrxReceived(d, m), m))

(* Mutant: the fifo is read after a packet with a crc error too.           *)
HandedAny(d) == IF d.rx_int \in {"good", "bad"} THEN <<d.rx_fifo>> ELSE <<>>

(* The data the handler takes from the receive fifo and hands on.          *)
Handed(d) == IF d.rx_int = "good" THEN <<d.rx_fifo>> ELSE <<>>

ppt_psd_isr_handler_imp(d) ==
  [d EXCEPT !.psd_int = FALSE, !.fsm = "STANDBY", !.sync_flag = FALSE, !.dlps_mac_idle = TRUE]
=============================================================================
