# A verification of the RTL8752H SDK: firmware update, privacy manager, 2.4 GHz link, task queues and glucose service

The repository is an SDK for a Bluetooth LE and 2.4 GHz chip: peripheral drivers, BLE profiles,
sample applications, a firmware update (DFU/OTA) service, a proprietary 2.4 GHz link driver (PPT)
and an IEEE 802.15.4 test system. The radio stack, the ROM and the boot loader are delivered as
binaries. These modules model the parts of the SDK whose behaviour lies in their control: tasks that
interleave, flash that fails, links that are lost, requests and answers that cross.

Paths below are relative to `src/`. One line of the file `x.c` is written `x.c:n`.

## 1. Inventory

### 1.1 DFU flash layer, `src/platform/dfu_flash.c`
- *State*: the flash itself, its block protection level, `g_flash_old_bp_lv` (the level the last
  unlock found), `valid_bitmap` (the images whose check succeeded).
- *Operations*: `dfu_update` (write a buffer: length check, unlock, erase the sector the write
  enters, program and read back, lock), `dfu_flash_erase_sector_with_retry` (the error path),
  `dfu_check_checksum`/`dfu_check_sha256`, `dfu_set_image_ready`, `dfu_fw_reboot`,
  `dfu_switch_to_ota_mode`, `dfu_copy_img`.
- *Hard*: partial failure (a write can fail in the middle of a sector), writes that cross sectors,
  several images in one bank, the protection level on every error path, power loss.
- *Correct when*: what was acknowledged is in the flash; what was validated stays; only complete
  images are marked ready; the chip is protected again after every operation.

### 1.2 DFU GATT service, `src/ble/profile/server/dfu_service.c`
- *State*: `g_dfu_para` (current image, total length, offset), the receive buffer and its fill,
  `dfu_resend_offset`, `buffer_check_en`, `is_ota_procedure`, `temp_image_num` and `temp_image_info`
  (the images that follow one another in the temp bank).
- *Operations*: the write handlers of the data characteristic (`dfu_service_handle_packet_req`) and
  of the control point (`dfu_service_handle_control_point_req`, 14 opcodes), which run in the upper
  stack task; `dfu_service_handle_valid_fw`, which runs in the application's task.
- *Hard*: two tasks share all of this state without a lock; offsets must survive lost packets,
  failed writes and reconnects; state is carried over from one session to the next.
- *Correct when*: client and device agree on the offset, an error never costs acknowledged data, the
  long check sees one image only, every request is answered.

### 1.3 DFU applications, `src/dfu/` and `src/app/silent_ota/`
- *State*: the io queue, the timers of the OTA mode, the pending activation
  (`rtk_dfu_active_reset_pending`), `dfu_conn_para_update_in_progress`, the advertiser.
- *Operations*: the service's callbacks (`dfu_profile_callback`, upper stack task), the handlers of
  GAP events and of the VALID_FW message (`dfu_handle_io_msg`, application task), the timers.
- *Hard*: events of one connection handled behind the first requests of the next; an activation that
  is finished by a DISCONNECTED event; a device in OTA mode that must not stay there.

### 1.4 BLE privacy manager, `src/ble/privacy/privacy_mgnt.c`
- *State*: a table of devices with their pending operation, one command to the controller under way,
  `privacy_clear_pending`, `privacy_state`, the resolution status.
- *Operations*: bond messages add, remove or clear devices; `privacy_handle_resolv_list` sends the
  next command when the controller may be changed; the responses complete it.
- *Hard*: bonds change while a command is under way; commands fail; the controller may be changed
  only while the device is idle.
- *Correct when*: the controller's list follows the table, and the table follows the bonds.

### 1.5 PPT 2.4 GHz driver and link, `src/app/ppt_driver/`, `src/app/ppt_simple_trx/`
- *State*: the context of the wrapper (`ppt_simple.c`): the state machine (standby, PTX, PRX, PSD),
  `sync_flag`, `retransmit_counter`, the one transmit buffer of entry 0; the transmit fifo of the
  common driver (`ppt_driver.c`) with its count of free places; `dlps_mac_idle`.
- *Operations*: push, enable (without callback the caller spins on `sync_flag`), disable, scan; the
  interrupt handlers (`ppt_ptx.c`, `ppt_prx.c`), which repeat a transmission, hand data on, leave
  for standby and release the caller.
- *Hard*: a task, an interrupt handler and a radio on each of two devices; a call that waits for an
  interrupt; stopping a radio that is just finishing; a buffer the hardware does not copy.
- *Correct when*: a call that returned leaves nothing that could end the next procedure; a packet
  goes out as often as asked, with its own data; the receiver hands on in order; nobody spins for
  ever.

### 1.6 Task queues of an application, `src/dfu/dfu_task.c`, `src/app/silent_ota/app_task.c`
- *State*: the io queue and the event queue; every sample has the same task with the same two.
- *Operations*: `app_send_msg_to_apptask` puts a message into the io queue and then an event that
  announces it into the event queue, without waiting; the task takes an event and then a message.
- *Hard*: several senders between their two sends; the task itself sends; either queue full.
- *Correct when*: a message is refused for good or handled once, in order; the event always fits.

### 1.7 Glucose service, `src/ble/profile/server/gls.c`
- *State*: a ring of records with head, tail, count and next number; the record being prepared; the
  control point: the operation under way, the report's position, two abort flags, `send_data_flag`.
- *Operations*: prepare and push a record; requests to report, count or delete the records a filter
  selects; the abort of the client and of the application; `gls_report_records_task`, which sends
  the next packet whenever one has gone out.
- *Hard*: wrap-around; deletion in the middle of the ring from either side; a report that goes on
  while records are made; an abort at any moment; a stack that refuses a packet.
- *Correct when*: reported, counted and deleted is what the filter selects; every request is
  answered and nothing else is; the control point does not stay busy.

### 1.8 Components without a model
- **PPT and 802.15.4 switch demo**, `src/app/ppt_154_switch_demo/`: the handlers of 1.5 with a
  switch of the radio's mode, which is in the ROM.
- **Protothread kernel**, `subsys/zb-mac-test/protothread/`: processes, event queue, timers and a
  ring buffer between interrupt and main loop. The kernel is Contiki's, vendored.
- **OTA service**, `src/ble/profile/server/ota_service.c`: reports versions, and one write that
  enters the OTA mode.
- **Other profiles, servers and clients**, `src/ble/profile/`: attribute tables and copies between
  requests and callbacks; the pulse oximeter (`plxs.c`) has a record procedure like 1.7.
- **Sample applications**, `src/sample/` and `src/app/`; **peripheral drivers**, `src/mcu/`;
  **802.15.4 MAC glue**, `subsys/mac_driver/`; vendored subsystems, `subsys/`.

`PROJECT.json` lists them with their status, and every hazard at its line.

## 2. Modules

| module | models | uses |
|---|---|---|
| `DfuFlash` | `dfu_flash.c` over a NOR flash | |
| `DfuService` | `dfu_service.c`: one operator per handler | `DfuFlash` |
| `DfuApp` | the device: tasks, callbacks, timers, link, restart | `DfuService` |
| `DfuSystem` | the device with an update client and faults; the properties | `DfuApp`, `BankUpdate` |
| `BankUpdate` | what a two-bank update promises | |
| `MCDfu` | instances for TLC | `DfuSystem` |
| `DfuTransferProofs` | theorems: order of messages and answers, types and bounds, offsets, what a transfer has written | `DfuSystem` |
| `DfuReadyProofs` | theorems: what the boot loader accepts is complete, the refinement | `DfuTransferProofs` |
| `DfuTempProofs` | theorems: the images of a package in one temp bank | `DfuReadyProofs` |
| `Privacy` | `privacy_mgnt.c` as `peripheral_privacy_app.c` drives it | |
| `MCPrivacy` | instances for TLC | `Privacy` |
| `PrivacyProofs` | theorems: the manager and its request, the controller's lists | `Privacy` |
| `AppQueue` | the two queues of an application task | `AppChannel` |
| `AppChannel` | what the queues promise | |
| `AppQueueProofs` | theorems: announcements, refusals, the refinement | `AppQueue` |
| `PptDriver` | the 2.4 GHz wrapper, its fifo and its interrupt handlers: one device | |
| `PptLink` | two devices with the demos' tasks over air | `PptDriver` |
| `PptProofs` | theorems: calls, fifo, order of packets | `PptLink` |
| `GlsRecords` | the record ring: search and deletion | |
| `Subsequence` | the elements of a sequence at some positions | |
| `RecordStore` | what the glucose service promises of its records | `Subsequence` |
| `Gls` | the control point with a client and an application | `GlsRecords`, `RecordStore` |
| `MCGls` | an instance for TLC | `Gls` |
| `GlsProofs` | theorems: types, count, answers | `Gls` |
| `GlsReportProofs` | theorems: what a client hears, the refinement of the store | `GlsProofs` |

### 2.1 DfuFlash
The flash is an array of cells. A cell is what one data packet of the client carries and is either
blank, garbage (`Junk`), old firmware, or cell `k` of the file of image `i` (`<<i, k>>`; `<<Noise,
k>>` if the packet was damaged on its way). Erasing blanks a sector; programming can only clear
bits, so a cell that is neither blank nor equal to the data becomes garbage. The `not_ready` bit of
a header is kept apart, in `ready`: clearing it needs no erase. A C function that changes the flash
is an operator that returns the set of its outcomes, with a success flag; `mayFail` lets the chip
fail an erase (the sector stays, or is half erased) or the program of any cell. Every early return,
and whether the path passes `lock_flash_bp`, is kept.

Not modelled: AES decryption, compressed images, the version reports, the OTP fields. The SHA-256 of
an image is modelled by what it tells apart: the cells are exactly those of some image's file. The
16-bit check value of a chunk may accept a damaged chunk.

### 2.2 DfuService
Each variable has the name of the C variable. Each handler is one action: START_DFU,
RECEIVE_FW_IMAGE_INFO, VALID_FW, ACTIVE_IMAGE_RESET, SYSTEM_RESET, REPORT_TARGET_INFO,
CONN_PARA_TO_UPDATE_REQ, BUFFER_CHECK_EN, REPORT_BUFFER_CRC (`dfu_buffer_check_process` with its
write, its rollback and its two erases) and the data packet with and without buffer check.
`dfu_service_handle_valid_fw` is two actions, `BeginValidFw` and `EndValidFw`, because it reads the
flash for seconds in the application's task while the upper stack task goes on; the image id that it
reads a second time at its end is read a second time in the model. `temp_image_info` has one entry
more than the client uses, so that the index never leaves the model's array.

Offsets are in cells. RECEIVE_FW_IMAGE_INFO with the offset 12, which the code treats like 0 for
clients that skip the control header, has no counterpart in cells. Not modelled: COPY_IMG,
RECEIVE_IC_TYPE, CHECK_IMAGE_VER, HANDSHAKE, and requests of a wrong length.

### 2.3 DfuApp
Two tasks. A write of the client is an action of the upper stack task: the service's handler with
what the application's callback does. The application task takes one message of `ioQueue` at a time,
and takes none while its integrity check runs. `NormalOta` selects the OTA mode of `dfu_main.c`
(timers; the flash is unlocked for the whole mode), its negation the silent OTA of a running
application. `LinkLossReset` is the OTP setting of that name. The link, the advertiser and the
parameter procedure belong to the stack: `LinkUp`, `LinkDown` and `ParamUpdated` are external. A
restart (`DeviceRestart`) zeroes the RAM and lets the boot loader choose: new firmware if a header
it looks at is marked ready, or the running bank gave its own OTA header up
(`ENABLE_AUTO_BANK_SWITCH` in `dfu_profile_callback`).

A timer is stopped, running, or due: its period is over and its handler, which restarts the device,
has still to run (`PeriodEnds`, `TimerExpires`). A START of an image that fits its bank restarts the
total and the transfer timer with a new period (`dfu_application.c:640`), whatever they were at.

`AppMessage` lists the messages that change the device's state. The stack posts others to the same
queue (advertising, CONNECTING and DISCONNECTING states, the MTU, pending parameter updates,
authentication and bonding, `dfu_application.c:381-463`), which the application logs or confirms.
They are left out, but not the places they take: with `IoQueueFills` a VALID_FW may find the queue
full, and `app_send_msg_to_dfutask` drops it. What the stack itself does when its own post finds the
queue full is in the binary stack; its messages are assumed to be delivered.

### 2.4 DfuSystem
The client is a phone application and not in the repository. It follows the order the opcodes are
made for: enable the buffer check, ask for the target info, start, announce the image, send chunks
and ask for their check, validate, next image, activate. It waits for the answer of a request that
has one, resumes where the device says, and sends SYSTEM_RESET when it gives up. With `StartsAgain`
it may also start an image again, any number of times, before it announces it. Packets are lost or
damaged; the flash fails; the link is lost at any time; the supply fails at any time, also in the
middle of a write (`WriteUnderWay`) and between two headers of an activation (`ActivationUnderWay`).

### 2.5 BankUpdate
The abstract specification of the update with two banks, in 20 lines: the device runs its old
firmware until all images of one package are staged, and then changes over in one step. The
refinement maps `staged` to the images that are complete, in place and marked ready, and `runs` to
what the boot loader would choose if the device restarted now.

### 2.6 Privacy
The static variables of the manager are one record, `mgr`: the table (`privacy_table`, one slot per
bond), `clear_pending`, `modify_pending` (a request is under way), `idx` (its slot) and `state`
(`privacy_state`). A slot that is not used is all zero, so `is_used` is `addr # NoDevice`.
`privacy_modify_resolving_list` is the three operators `ModifyClear`, `ModifyAdd` and
`ModifyRemove`; `privacy_handle_resolv_list_int` is the operator of its name, which returns the set
of its outcomes: the manager, the request that is sent if any, and whether the stack refused one. A
handler is an action: `BondAdd`, `BondDelete` and `BondClear` are the bond messages with the change
of the key store they report, `HandleRsp` is the response to a request, `HandleDevState` is the
application's call when the device becomes idle. Each of them ends as the code does, in
`privacy_handle_resolv_list`; only the response to a request that failed does not.

The stack and the controller are external: the key store has as many bonds as slots, a device bonds
while it is connected, the controller answers a request once, with the cause that its list calls
for, or does not carry it out for now (`MaxFailures`). The stack may refuse a request when it is
made (`MaxRejects`): for an invalid state, which leaves all as it is, or for another cause, which
drops the entry. A CLEAR fails only by not being carried out: a failure with one of the causes that
drop an entry would index the table with 0xff, and the controller has no reason to give one. The
white list is managed (`privacy_init` with `whitelist` true) and the stack is taken to carry its
changes out in order.

Not modelled: `le_privacy_set_mode` and `privacy_manage_mode`, the reading of resolvable addresses
and the address timeout, which keep no state of the procedures; devices without an identity address,
which `privacy_add_device` turns down; the address type, which is part of the identity here.

### 2.7 AppQueue and AppChannel
`pc` says whether a sender is between its two sends, `task` which statement of the task's loop is
next. The task is a sender too (`App`), while it handles something. A refused event leaves its
message in the io queue, as in the code. The stack is external: it has at most `GapSize` messages of
its own, announces each, and is called when its event is taken. `AppChannel` is a bounded queue that
hands on every accepted message in order; `queue` is mapped to the io queue.

### 2.8 PptDriver and PptLink
A device is one record: the wrapper's context, the fifo of entry 0 as a sequence of what was pushed
(all descriptors point to `tx_buffer`), and the radio's state with its pending interrupts. An
operator returns the device after a call or a handler: `ppt_push_tx_data`, `ppt_enable_ptx` up to
the instruction, `ppt_execute_instruction`, `PtxIsr`, `PrxIsr`, `ppt_psd_isr_handler_imp`. In
`PptLink` each line of a call at which the interrupt can fall is an action of its own: the check of
the state, the raising of `sync_flag`, the instruction, the return of the spinning caller. Modes are
chosen in the initial state: acknowledged or not, one shot or periodic, once or continuous. The
receiver's disabling of a continuous reception is the user's call, which the demo leaves out.

The radio is external, with what the handlers take for granted: one interrupt is handled before the
radio's next event, a stopped radio raises the kill interrupt, a packet with a bad checksum is
answered like a good one. Not modelled: the other entries, `ppt_update_tx_data`, killing the
hardware state machine, disabling a transmission or a scan, calls with a callback (the code never
calls it for PTX and PRX), and registers.

### 2.9 GlsRecords, Gls and RecordStore
`GlsRecords` has the ring as the code keeps it: positions, head, tail, the 8 bit count, the 16 bit
number, the two searches from either end, and the deletion that closes the hole from the shorter
side. Timestamps are numbers. `Gls` has the control point: `WriteRequest` and `WriteAbort` are the
write callback with all it calls, `gls_report_records_task` is the operator of its name, and
`OrClear` is the application that clears a control point it cannot continue. `asked`, `due` and
`heard` are the client's view: what it waits for, what its request selected, what it was sent.
Client, application and stack are external. The application calls the task when a packet has gone
out and clears the control point when the link is lost; handlers do not overlap.

`RecordStore` is a sequence of the last records, with prepare, push and delete.

`Liberties` is what the environment may do besides. Each is legal for all the code checks and breaks
a property, see 6: a push into a full ring during a report (`"overwrite"`), a deletion between
prepare and push (`"undercut"`), an abort when the answer is on its way (`"late"`), a range between
two records (`"gap"`), a deletion whose move leaves the array (`"outside"`).

Not modelled: the fields of a measurement (`gls_set_parameter`), the layout of packets, requests of
a wrong length, the reading of the features.

## 3. Runs

The layouts are in `MCDfu`. One cell stands for 1024 bytes: a sector (4096 bytes) is 4 cells, the
receive buffer is 3, so that chunks start and end inside sectors and cross from one to the next in
every phase (offsets 0, 3, 6). `App` has 7 cells, two sectors, the second not full; `Ota` has 3.
In the temp bank `App` has 3 and the others 2, one behind the other.

| run | instance | question |
|---|---|---|
| `bank_check` | two banks, one package, 2 sessions, 1 damaged packet, 2 flash faults, 1 power loss | Are offsets, resend point and flash consistent after every error; is the long check undisturbed; is the change over all or nothing (refinement of `BankUpdate`)? |
| `session_live` | two banks, 2 sessions, clients with and without buffer check, 1 damaged packet, 1 flash fault, restart on link loss, with fairness | Does every session end; does every accepted activation restart the device; do packets that are written at once keep what is below them? |
| `normal_ota` | OTA mode with timers, one temp bank with two images in a row and a user data image elsewhere, 2 sessions, 2 parameter requests, images started any number of times, an io queue that may be full, no power loss, with fairness | Is the mode left in the end; does a parameter procedure stay in progress for ever; does one image spoil another? |
| `temp_bank_fault` | two images in a row, 1 flash fault | expected violation, see 6 |
| `stale_bitmap` | two packages, 3 sessions, no fault | expected violation, see 6 |
| `erase_fault` | 1 flash fault | expected violation, see 6 |
| `privacy` | 2 slots, 3 devices, a resolving list of 1 or 2, a patient application or not, 3 bond changes, 1 refusal, 1 failure, with fairness | Does each response find its entry; do the lists follow the table and the bonds; is what is pending done in the end? |
| `app_queue` | 3 senders (the task, two others) with 2 messages each, an io queue of 2, 2 messages of the stack, with fairness | Is each message refused for good or handled once, in order (refinement of `AppChannel`)? |
| `ppt` | fifo of 2, 3 packets pushed one at a time, up to 2 retransmissions, 2 scans, all modes, with fairness | Does a call that returned leave an idle radio; is a packet sent as often as asked, with its data; does every call return? |
| `ppt_burst` | the same, 2 packets pushed at a time | expected violation, see 6 |
| `gls` | ring of 5 places, 6 records of 2 times and with or without context, 2 requests, 1 refused packet, lost link or toggled characteristic, no liberty, with fairness | Does the client get what it asked for and nothing else; is it answered; do the records stay what they are (refinement of `RecordStore`)? |
| `gls_gap` | 5 places, 6 records, the liberty `"gap"` | expected violation, see 6 |

*Why these bounds.* Two images are the least for everything that concerns order: which is checked,
activated or erased first. Two sessions let the second meet what the first left behind (offset,
resend point, buffer mode, bitmap, half written sectors); three are needed for `stale_bitmap`, where
the third activates. Two flash faults let the erase of the error path fail after the write did. More
of each repeats cases: every counter only limits how often the environment may interfere. In
`normal_ota` the flash works and the bank has room for all validated images of both sessions:
without these two conditions `TempBankKept` fails (6). In the passing runs the client sends one
package; with two and no restart, see `stale_bitmap`.

The privacy manager needs two slots for an order among entries, and a third device so that a slot
changes hands. Three bond changes let a device be added, removed and added again while one request
is under way. A resolving list of one entry makes the controller run out of memory; its size, and
whether the application is patient (changes bonds only in `PRIVACY_STATE_IDLE`), are chosen in the
initial state. The properties of the lists hold while the stack has refused nothing (`rejects = 0`):
a removal that it refuses drops the entry and leaves the device on the list.

Three senders let two of them be between their sends while the task is a third; a queue of two gets
full with four messages waiting behind it. In `ppt` the fifo has one place more than the demo uses,
three packets let one be late by one, and two retransmissions tell the first, a middle and the last
transmission apart; each device takes any of its modes. In `gls` the ring holds four records, the
least at which a deletion in the middle moves two records at once; the fifth record drops the
oldest, and with the sixth the records lie across the end of the array. Two requests are the least
for an answer that meets the next request, and for a request and its abort.

`CHECK_DEADLOCK FALSE`: in the runs of the update the system really stops when the device has
restarted into the new firmware, where the model ends, or when the client made its last connection;
in the others when the bounds are used up: the transmitting demo stops after its last packet and a
listening receiver may hear nothing for ever, senders and clients have posted and asked all they
may. That none stops earlier is what the liveness properties say.

### 3.1 Safety
- `TypeOK`: the types; among them that the receive buffer never overflows.
- `ResendWindow`: `dfu_resend_offset` is the start of the sector that the next cell goes to.
- `OffsetsAgree`: client and device agree on the offset whenever no answer is under way.
- `PrefixIntact`: every cell below the offset is in the flash at its place.
- `ReadyImagesComplete`: a received header that is marked ready belongs to a complete image.
- `TempBankKept`: a validated image of the temp bank stays there.
- `CheckUndisturbed` (action property): while the check runs, nothing it reads changes.
- `ImplementsBankUpdate`: the refinement.
- `ParamUpdateEnds`: a procedure in progress always has an event on its way that ends it.

- `RequestTracked`: the response to a request finds the entry it was sent for.
- `IdleNothingPending`: `PRIVACY_STATE_IDLE` means that no modification waits or is under way.
- `OneEntryEach`: no device has two entries.
- `ListFollowsTable`: between requests the resolving list holds what the table says was added.
- `WhiteListCovers`: while nothing is pending, a device that is resolved is on the white list.
- `ListFollowsBonds`: while nothing is pending, the resolving list holds the bonded devices. It is
  the conjunction of `BondedAreResolved` and `ResolvedAreBonded`, and holds for a patient
  application and a list with room for all bonds; otherwise neither of the two does (6).

- `RefusedNeverQueued`: a message whose post returned false is never handled.
- `EventFindsMessage`: an io event always finds a message.
- `ImplementsChannel`: the queues implement the channel, its progress included.

- `SyncMeansIdle`: when a call without callback has returned, its radio is idle and no interrupt of
  the procedure is still to come.
- `PendingDataValid`: the buffer holds what was pushed until the packet has left the fifo.
- `FreePlaces`: the count of free places is what the fifo leaves.
- `SentAsAsked`: when the call has returned the packet was on air once and `retransmit_times` more.
- `InOrder`: the receiver hands packets on in order, repeated or lost, none invented.

- `CountFollowsRing`: the number of records is what lies between head and tail.
- `ReportsWhatIsDue`: reported or counted is what the request selected when it was accepted.
- `ResponsesAreAsked`: a response answers something the client waits for.
- `BusyMeansSending`: while nothing was refused, the control point is busy exactly while one packet
  is under way.
- `ImplementsStore`: what the application and the client see of the records is the abstract store; a
  deletion removes what its filter selects, from either side of the ring.

### 3.2 Liveness
- `PendingDone`: if the device becomes idle again and again, a busy manager becomes idle.
- `SessionEnds`: every session ends: activated, given up, or cut off.
- `ActivationRestarts`: after an accepted activation the device restarts.
- `LeavesOtaMode`: the OTA mode is left again and again, unless the client starts an image of the
  bank for ever: each START puts the total timer back. A lost link, a dropped VALID_FW, or a client
  that waits for ever or starts a user data image for ever do not keep the device there.
- `ImplementsChannel`: every accepted message is handled.
- `SyncReturns`: no task spins on `sync_flag` for ever; a listening receiver's returns once it heard
  something.
- `RequestsAnswered`: while the stack refuses nothing, every request and abort is answered.

*Fairness.* Weak fairness of the application task (the scheduler runs a task that has a message), of
the client while it is connected, of the closing of a link after `le_disconnect`, of the restart
after `WDG_SystemReset`, and of the timers: the period of one that stays running ends, and the
handler of one that stays due runs. Of a timer that is restarted in between, again and again, this
says nothing. Nothing is assumed of connections, faults or parameter procedures. `LeavesOtaMode`
does not need the client to go on: it follows from the total timer, which is never stopped, only
restarted. `SessionEnds` is checked with an io queue that never fills: outside the OTA mode, where
no timer runs, a client whose VALID_FW was dropped waits until it, or the link, gives up. For `PendingDone`: the application handles its events
and the controller answers. That the device becomes idle is the premise of the property: an
application that advertises or is connected for ever keeps the manager waiting. For the queues: weak
fairness of the task and of the second send of each sender, nothing of posts. For the link: of each
task, interrupt handler and radio that was switched on; none of the end of a continuous reception or
of a wait in which nothing is heard. For the glucose service: of the stack's sending of what it has
taken, nothing of requests or of the application.

## 4. Proofs

### 4.1 Firmware update

`DfuTransferProofs`, `DfuReadyProofs` and `DfuTempProofs` prove, for every layout of the flash, every
set of packages and every bound, what TLC checks on the instances.

- `CheckUndisturbedTheorem`: `Spec => CheckUndisturbed`. The property is not inductive: it needs to
  know that the client waits while a check is pending. The invariant is `OrderInv`: `LinkOrder`
  (advertising starts only behind a finished check and a handled DISCONNECTED, so that a new
  connection cannot begin while a VALID_FW message is queued) and `CheckOrder` (one check at most,
  and while the link is up the client waits for its answer). Both are statements about positions in
  the queue, and each is needed for the other: without the position of DISCONNECTED behind VALID_FW
  a second connection could write during the check of the first. `OrderInv` needs nothing of the
  flash or the offsets.
- `LinkAndCheckOrder`: the two invariants themselves.
- `TypeTheorem`: `Spec => []TypeOK`. `TypeOK` alone is not inductive: a write to `flash` has its
  type only if the image is one of `Images` (`ImageInv`), the image sent is one of the package's
  (`PlanInv`), the index `temp_image_num` is in the array (`RoomInv`, `CheckInv`: the entry the
  check read is the one its end counts, which rests on the undisturbed check) and the headers of the
  temp bank lie in the flash (`TempInv`).
- `ReadyHeadersTheorem`: what an activation marks ready lies in the flash.
- `ParamUpdateEndsTheorem`: `[]ParamUpdateEnds`, from one more invariant about positions in the
  queue, `EventInv`: CONNECTED is the first message and DISCONNECTED the last; a procedure in
  progress has its end under way in the stack or in the queue; of such ends there are two at most,
  the second only after CONNECTED was taken, which clears the flag.
- `ResendWindowTheorem` and `OffsetsAgreeTheorem`: `[]ResendWindow` and `[]OffsetsAgree`. The
  strengthening, `WindowInv`, follows the answers: one answer to a buffer check at most, it is
  awaited, and the offset in it is still that of the device, so that a client that takes it over
  continues where the device is; a client that sends with buffer check has switched it on; a
  transfer starts at offset 0 with nothing in the buffer. That the resend point is the start of the
  sector of the next cell is arithmetic with the assumptions on sectors and buffers.
- `PrefixIntactTheorem`: `BankSwitch => (Spec => []PrefixIntact)`. The invariant `PrefixInv` adds
  that device and client have the same image, that a receive buffer as full as the chunk sent holds
  the cells sent, that without buffer check the offsets agree as long as nothing was lost, and that
  the cells below the offset are at their place. Without a second bank the theorem is false
  (`temp_bank_fault`).
- `ReadyImagesTheorem`: `BankSwitch /\ BanksApart /\ SessionsClean => (Spec => []ReadyImagesComplete)`.
  `BanksApart` says that each image fits its bank and that banks do not overlap; `SessionsClean` that
  all packages hold the same images, or that a lost link restarts the device. `BankCheck.cfg`
  satisfies them; without the last, `stale_bitmap` refutes the property. What is marked ready is what
  `valid_bitmap` names, so the invariant follows an image from its transfer to the activation.
  `ReadyWhole`: only starts of banks are ready, and each such header heads its whole file; this
  second half, and `CheckedKept`, are claimed under `SessionsClean` only.
  `HeadersPlaced`: a header at the start of a bank is the one of the bank's image. `HeaderOpen`: a
  transfer that left the start of its bank has erased what was marked ready there. `CheckedKept`: an
  image whose bit is set is whole, or is still to be sent and checked. `CheckOfImage` and
  `AnswerWhole`: a check under way is about the image sent, and a good answer is still true when the
  client reads it. `SessionInv`: a session starts with no bit set (`BootFresh`), or nothing is named
  that the package does not replace (`NamedOnly`). Two facts about the flash carry every step: a
  write, whole, failed or interrupted, stays in the bank it goes to and unmarks it (`Rewrites`), and
  marking headers changes no header that is there (`MarkedCells`).
- `BankUpdateTheorem`: `BankSwitch /\ BanksApart /\ ChecksBuffers => (Spec => ImplementsBankUpdate)`,
  for any packages and also where sessions leave bits behind. `ChecksBuffers` says that every client
  uses the buffer check, as in `BankCheck.cfg`: VALID_FW does not ask whether the transfer is
  complete, and a client that streams and loses a packet could have firmware accepted that an
  earlier update left in the bank. The step of the argument that matters is the activation: it must
  stage a whole package at once. So the invariant `BankInv` says that each image of the package is
  kept (its bit set, its file in the bank) or still to be sent (`PackageKept`); that a good answer
  under way is about an image that is kept (`AnswerKept`), which holds because what was sent is in
  place when its check begins (`SentInPlace`: a check of something else in the bank would not pass);
  and that a device whose next restart runs the new firmware starts no further session
  (`NewStays`). Then a write is `Rewrite` or a stutter, an activation is `ChangeOver`, and one that
  the supply interrupts is `Stage`, or `ChangeOver` if it reached the header of OTA, which
  `dfu_service_handle_active_image` marks last of the bank. A restart keeps what the flash holds.
- `TempBankTheorem` and `TempPrefixTheorem`:
  `OneBank /\ PackagesFit /\ LinkLossReset /\ WritesSound => (Spec => []TempBankKept)`, and the same
  for `PrefixIntact`. `OneBank`: all images but the user data share one bank, and each image of user
  data has a place apart from all others. `PackagesFit`: the images of a package, laid out one after
  another, end inside the bank. `LinkLossReset`: each session starts with an empty table
  (`temp_image_num` is reset by a restart only). `WritesSound`: the flash works where buffers are
  checked, and no packet is damaged where they are not. `NormalOta.cfg` satisfies all but
  `LinkLossReset`, and all four with that set to `TRUE`; without the last the first theorem is false
  (`temp_bank_fault`), and without `PackagesFit` or `LinkLossReset` a session may run out of the bank.
  The invariant is `TempInvariant`, five parts on top of one another:
  - `TypeInv` and `WindowInv` from above, and `TransferInv`, the part of `PrefixInv` that does not
    speak of the flash (the receive buffer holds what was sent), which both layouts share.
  - `TableInv`: the table says where images go. Entries end one behind another up to `TempEnd`
    (`Listed`); the entry of the image under way is free until START is answered and then names that
    image at `TempEnd` (`Opened`, `Placed`, `Started`, `Named`); what is left of the package fits
    what is left of the bank, before and after the answer to VALID_FW (`Roomy`); a device that starts
    has an empty table (`FreshTable`).
  - `StoreInv`: the flash follows the table. Each entry heads its whole file (`Held`), the image
    under check is complete (`Sent`), and the header at the start of the bank is not marked ready
    while a package is sent (`BaseOpen`). What makes this inductive is `BlankTail`: from the last
    cell written to the end of its sector the flash is blank. So the next write programs blank cells
    and erases only sectors ahead; hence it succeeds, and the rollback with its erase at the wrong
    place is never taken. A client that streams has no rollback: a write that fails restarts the
    device, and has touched nothing behind its start (`UpdateSpares`); `Mode`, `Plain` and
    `StreamFlushed` say which of the two a session is, and that a streamed image has left the buffer
    when its check is asked for.
- `TempReadyTheorem`: `ReadyImagesComplete` with one bank, from the same hypotheses and the invariant
  `TempInvariant /\ MarkInv`. `BanksApart` is false here, and a header at the start of the bank may
  be of any image of the package, so the argument of two banks (a bank has its image) is replaced by
  one about when marks are set. `SoundMarks`: what is marked ready is either a mark of the firmware
  that runs (`OldMark`: over a user image that is whole where its header says so, or at the start of
  a temp bank that heads no image), or a whole image of the temp bank. `NotActivated`: the second
  kind begins with an activation, also one that the supply interrupts between two headers, and a
  restart that finds one runs the new firmware, where the model ends; so a device that starts or
  serves a client has old marks only. `UserKept`: a user image whose
  bit is set is whole in its own bank or will be sent again, as it is rewritten in place and the bit
  outlives the rewriting. `UserAnswer` and `CheckOfImage`: a good answer is still true when the
  client reads it, and is about the image sent. That an activation marks only whole images is then
  `Held` for the table and `UserKept` for the user data.

*Assumptions*: the named `ASSUME`s of the modules: the tags of cells differ, banks lie in the flash
and start at a sector, the buffer is not larger than a sector, the client's chunk is not larger than
the buffer. TLC evaluates them in every run.

### 4.2 Privacy manager

`PrivacyProofs` proves for every number of slots and every bound `Spec => []TypeOK`,
`[]RequestTracked`, `[]IdleNothingPending` and `[]OneEntryEach` from one inductive invariant,
`Sound(mgr, request)`. It is stated of any manager and request, because a handler passes through
managers that no state holds: the bond message changes the table and then handles it, with one lemma
for each operation. What the four properties lack to be inductive: an entry that waits for its
removal was sent before (`is_added` is not IDLE), otherwise dropping it at once could pull it from
under the request for its removal; and a free slot is all zero, otherwise "no entry is pending"
would not say that every slot is idle.

It also proves `[]ListFollowsTable` and `[]WhiteListCovers` for any number of slots,
bond changes, refusals and failures and any size of the list. The invariant `Listed` says what the
list is in the middle of a request (the table's devices, with or without that of the request, once
the controller has run it), that an addition is under way only for an entry that is not added yet,
so that a failure never drops a device the controller has, and that a device that is resolved but no
longer on the white list is one whose removal, or the clearing, is still pending.

`ListAlwaysFollowsBonds`: `[]ListFollowsBonds`, for a stack that refuses nothing, bonds that change
only while the manager is idle and a list with room for all of them. A count shows that the table
always has a free place for a new bond: every used slot holds a bonded device, no device has two,
and there are at most as many bonds as slots. So nothing is ever dropped, and in IDLE, where no slot
waits for anything, table, list and bonds are the same set.

*Assumption*: `PrivacyAssumption`: the tag of a free slot is no device, the table has 1 to 255
slots.

### 4.3 Task queues

`AppQueueProofs` proves, for every finite set of senders and all sizes,
`Spec => []EventFindsMessage`, `[]RefusedNeverQueued` and the step simulation of the channel
(`ImplementsSafety`). The argument counts: each message in the io queue has exactly one
announcement, an event, a sender about to send it, or the task that has just taken it
(`AnnouncedOnce`). With the bound on the stack's messages it follows that the event queue, whose
size is the sum of both, never refuses (`EventsAlwaysFit`); without that a refused post could leave
its message to be handled later.

### 4.4 2.4 GHz link

`PptProofs` proves `[]SyncMeansIdle`, `[]FreePlaces`, `[]InOrder` and that the radio is off in
STANDBY (`StandbyIdle`) for every size of the fifo, number of packets and retransmissions, any
burst. The invariant lists, for each device, the phases of a call: for each place of the task, what
the state machine, the flag, the radio and the pending interrupts can be (`TxInv`, `RxInv`).
`InOrder` adds that what was received, what the buffer holds and what was pushed are in order.
`OnePacketValid` and `OnePacketSent` prove `[]PendingDataValid` and `[]SentAsAsked` if one packet at
a time is pushed (`MaxBurst = 1`), which is what the demo does; `ppt_burst` shows the need.

### 4.5 Glucose service

`GlsProofs` proves, for every size of the ring, any records, requests and disruptions, `[]TypeOK`,
`[]CountFollowsRing`, `[]ResponsesAreAsked` and `[]BusyMeansSending`, if the environment does not
abort late, does not ask for a range in a gap and makes no deletion that writes outside the array
(`Disciplined`); pushing during a report and deleting between prepare and push are allowed. Two
arguments carry it. The searches: each end of the range is a least element, so that two searches
that both succeed end in order, or meet in a gap, and the number found is the length of the range
and at most the number of records; `Plus` and `Minus` replace `%` by a case distinction, which is
all the arithmetic of a ring needs. The control point: it is idle with nothing on air, or reporting
with one packet on air and more to send, or its answer is on air (`Control`); every outcome of the
report task leads from one of these to one of these.

`GlsReportProofs` proves `[]ReportsWhatIsDue` and that the service implements `RecordStore`
(`StoreTheorem`) in an environment that takes none of the liberties (`Strict`): a push into a full
ring moves the records under a report, a deletion between prepare and push leaves the record
prepared behind. The invariant of the report is `ReportInv`:

- `Chain`: the records of the ring, with the one being prepared, are in the order of their numbers
  and times, and no number is beyond the last one given. Then a scan cuts the records in two
  (`KeysCut`), and what a filter selects lies side by side in the ring, exactly where the search
  says (`SelectedPlaces`). That a deletion keeps the order is shown for each way to close the hole,
  by saying at which offset each record that stays was before (`DeletedRows`).
- `Says`: what was heard is a beginning of what is due; while a report is under way the ring still
  holds the records to come, in their places, and the packet on the air is the one that follows
  what was heard. `Layout` says where the packets of each record selected lie in what is due, one
  packet or two. A response or a number on the air is a true one.

For the refinement each step of the service maps to one of the store: a deletion to `Delete`, a
write that deletes nothing, the answer to a deletion and the loss of the link to `Answer`, a push to
`Push`; aborts and packets stutter. It needs one more invariant, `DraftInv`: the record being
prepared lies behind the records stored and is not blank. `RunAt` and `RecordsOfLayout` evaluate the
store's subsequences: of a run of positions, and of the records that packets report.

### 4.6 Out of the proofs

*Only model-checked*: `TempBankKept` for a device that advertises again after a lost link
(`normal_ota`), where a session starts behind the images of the one before. Liveness, `PendingDone`
to `RequestsAnswered` of 3.2, is out of the prover's reach, as are the
fairness of `AppChannel` and what a recursive definition computes. Where a proof needs the
latter, for `Packets` and `At`, it stays first-order: the sets of positions reached grow by one
(`CountUp`, `LeastOffset`), which the provers can use without an operator as a parameter.

## 5. Plan

1. *Done*: the DFU core with its abstract specification, order and type theorems; the privacy
   manager; the task queues; the 2.4 GHz link; the glucose service.
2. The pulse oximeter service, whose record procedure is like the glucose service's with a spot
   check and a real time measurement; the abstract store can serve both.
3. DFU, the remaining opcodes: COPY_IMG with its use of the receive buffer, RECEIVE_IC_TYPE,
   HANDSHAKE; the OTA service that enters the OTA mode; compressed images.
4. PPT: the other fifo entries and the acknowledgement of a later one (`ppt_trigger_fw_ack`), the
   disabling of a transmission, the switch demo.
5. Protothread kernel glue: event queue and timers of `zb-mac-test`.
6. Privacy: privacy modes and devices without an identity address.
7. Theorems: the refinement of `BankUpdate` for clients that stream and lose nothing.

*Not modelled.* Most of the repository's lines are vendored code (crypto, display, a MAC test
shell), register definitions and drivers, tables the stack reads, a generated jump table into a
binary, or demonstrations of an interface. They have no state of a protocol; what they do depends on
the ROM and the stack, which are not in the repository. The modules cover the files with state
machines of their own, so that the share of all lines stays small.

## 6. Findings

Each is a run that TLC must find violated.

- `temp_bank_fault`: the rollback after a failed write erases at bank base plus `dfu_resend_offset`
  (`dfu_flash.c:755`), without the offset of the image inside the temp bank that `dfu_update` adds
  (`dfu_flash.c:871`). If the second image of a package fails to write, the first one, already
  validated, is erased, and its header is marked ready afterwards all the same. Related: without
  bank switch `temp_image_num` is reset only by a restart, so that a later session continues behind
  the images of the earlier one until the bank is full; the refused write then takes the same path.
- `stale_bitmap`: `valid_bitmap` is cleared only by a restart. An image that was validated in one
  session and partly rewritten in the next is marked ready by the activation of another package.
- `erase_fault`: `dfu_update` skips `lock_flash_bp` when its erase fails; the next
  `unlock_flash_bp_all` takes the unlocked level for the one to restore.
- `ppt_burst`: `ppt_push_tx_data` copies every packet to the one buffer of entry 0
  (`ppt_simple.c:121`) and queues a descriptor to it, although the fifo has several places and the
  driver says that "the data needs to be valid until it is acknowledged" (`ppt_driver.h:845`). With
  two pushes before the transmission the first packet goes out with the data of the second.
- `gls_gap`: a range that lies between two records selects none, but `find1` is then the place
  behind `find2`, and the number of records (`gls.c:1361`, `:1415`) is the size of the ring. The
  number is answered, that many records are reported, and a deletion subtracts it from the count.

Observations without a run in the project, of the update: the CONNECTED event, handled in the
application task, clears `dfu_conn_para_update_in_progress` (`dfu_application.c:251`) although the
upper stack task may have accepted a parameter request on the new connection before;
`buffer_check_en` (`dfu_service.c:784`) and the rest of an incomplete transfer (`:598`) are carried
to the next session; `dfu_copy_img` reads into the receive buffer (`dfu_flash.c:1098`); a compressed
image of another type returns without `lock_flash_bp` (`:991`); without bank switch the number of
validated images grows over sessions; the branch of `dfu_buffer_check_process` that erases a second
sector is never taken while `ResendWindow` holds; the automatic bank switch erases the OTA header of
the running bank even if the package has no OTA image.

Of the privacy manager: a device that bonds while its old entry waits for its removal, or while the
list is being cleared, is turned down (`privacy_mgnt.c:397`, `:415`), and `privacy_add_device`
returns true; a removal that is marked while the addition is under way is overwritten by the
response (`:496`), so that the manager is idle and the device stays on both lists; an addition that
fails because the resolving list is full leaves the device on the white list; a removal that the
stack refuses for good leaves it on both.

Of the 2.4 GHz driver: the disabling calls check the state before they raise the flag
(`ppt_simple.c:214`), so that a caller whose procedure ends in between spins for an interrupt that
has already been handled (a continuous reception, which `PptLink` disables, does not end by itself);
`ppt_kill_hw_fsm` (`:282`) leaves the wrapper's state and `sync_flag` as they were, so that a
spinning caller is not released; the callback of `ppt_simple.h:216` is never called for PTX and PRX;
a receiver in one shot mode with acknowledgement relies on the radio answering a bad packet.

Of the glucose service: setting `Liberties` reproduces the others. `"overwrite"`: a push into the
full ring during a report moves the head, from which the report counts (`gls.c:253`;
`ReportsWhatIsDue`). `"undercut"`: a deletion moves the tail while a record is prepared at the old
one (`:234`; `ImplementsStore`). `"late"`: an abort is answered after the procedure's own response
was handed over (`:1779`; `ResponsesAreAsked`). `"outside"`: a range at the end of the array makes
`find2` -1 and the move of the deletion writes to that index (`:1181`, `:1235`; `ImplementsStore`).
Besides: numbers wrap around at 65536, and then the search no longer finds its order; a refused
response leaves the control point busy until an abort or until the application clears it; the TIME
filter compares the base time only, while the header says base time and offset.
