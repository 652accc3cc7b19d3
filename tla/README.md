# The Quectel M66 lighting controller in TLA+

The program (`src/Quectel/source`) runs on a GSM modem. It reports events of a
SAM D20 board to a monitoring server ("EST tools") over GPRS, and serves a debug
console, a menu, a web page, a transparent channel to the board and firmware
updates. This directory models it in TLA+, checks the models with TLC and proves
most of their safety properties with TLAPS. `PROJECT.json` maps every definition
to the lines it stands for, and lists the hazards the properties are about.

## The system

All application code runs in **one task**: `proc_main_task` takes messages from
a queue, and timers, UART, GPRS, socket and RIL callbacks run in it to
completion. There are no locks and no preemption; what makes the code hard is the
*order* of callbacks, state kept across them in globals, flash rewritten in
several steps, and peers (server, clients, SAM board, modem core) that may be late
or gone. `Ql_Reset` is the universal error exit: RAM and sockets start over, flash
stays.

| Component | Code | State | Correct when | Status |
|---|---|---|---|---|
| Boot, main task | main.c, global.c | `__run`, `__need_reboot`, `__sync_msg_count` | boot ends in the work cycle; resets do not repeat without cause | modelled |
| GPRS and EST link | own_tcp.c, socket_th.c, events.c | `_n_state`, `__socket_est_id`, `__EST_CONNECT__`, `__numPacket`, `__countRepeat`, three timers | one connection; it comes back; confirmations match packets | partly |
| Event journal | own_settings.c | `mdm_events.dat`, `__confirmRecive` | a confirmation removes what was sent, nothing else | modelled |
| SAM board link | incury.c, main.c | `__rs_r_buf`, `__count_r_buf`, pin mirrors | every whole frame is handled once, in order; the mirror follows the board | partly |
| Packet framing | events.c | none | a packet survives stuffing, cuts and the CRC | modelled |
| Client table | tcp_clients.c, socket_th.c | `m_client[]`, `__rem_socket_*` | data is read as what its client sent it for; output goes to who asked | modelled |
| Settings store | own_settings.c, utils.c | RAM, secure data, the board's copy | the copies agree in the end; a boot keeps what is stored | modelled |
| Firmware update | main.c, socket_th.c | update files, `__pos`, `__page`, update flag | every page once, in order; the flag means whole images | modelled |
| Console and menu | utils.c, menu.c | `__buf_command`, `__MENUS__`, `choice` | an answer goes to the question that was asked | partly |
| Web server | websrv.c, utils.c | page buffer | a form does what a command does | partly |
| Time and calendar | rtc.c, calendar.c, incury.c, sunrise.c | none | conversions are inverse to each other | partly |
| RIL, SDK headers | ril/, include/ | vendor code | | not modelled |

Interactions: the boot starts the work cycle, which calls `check` of the SAM link
and then the EST state machine. `extract` of the SAM link writes the journal, the
mirror and the settings. Confirmations call `confirm_events`; the console, menu,
web page and server's text commands change settings, `_n_state` and timers
directly. Clients share the modem's sockets with the EST link.

## Modules

Each module has the code's names for state and handlers; one action is a whole
handler. Variables marked *history* exist for the properties only. Definitions
marked "Broken on purpose" or "Mutant" show that a property notices the error.

| Module | Composed from | Models |
|---|---|---|
| `EventJournal` | | abstract: what the journal promises |
| `EstLink`, `EstLinkMC` | refines `EventJournal` | the EST link and the journal |
| `SamLink`, `SamLinkMC` | | how frames are cut out of the UART |
| `Device` | | boot, network, time setting, sync timer, mirror of the pins |
| `FirmwareUpdate`, `FirmwareUpdateMC` | | receiving, storing and writing the images |
| `SettingsStore` | | the copies of the settings |
| `Console` | | command line, menu and open question |
| `ClientTable`, `ClientsMC` | extends `Console` | sockets, slots and remembered outputs |
| `Crc16`, `Framing` | `Framing` extends `Crc16` | packets byte by byte |
| `Calendar` | | register, day of the week, date arithmetic |
| `CodecsMC` | `Framing`, `Calendar` | both side by side, one run |
| `*_proofs`, `LeastNatural` | extend the modules above | theorems and their lemmas |

Modules are joined where the code shares state: the journal with the link, the
console with the clients. Elsewhere a module takes the other's effect at any
moment: events for the journal (`WriteEvent`), operator commands (`OperatorActs`
of `EstLink`, `WebForm` of `Console`), what the EST link does to the sockets
(`EstConnects`, `EstRefused`, `EstStops` of `ClientTable`). Any order the other module allows is among them. An
update excludes the rest: with its flag set the device boots into it and does
nothing else.

### EstLink and EventJournal

* `EventJournal` is a bounded FIFO. A record leaves it because it was offered in a
  packet and retired, because an overflow pushed it out, or because power failed
  while the file was being rewritten.
* `EstLink` has one action per case of `tcp_main_function` (`Tick...`), per callback,
  per timer (`...Expires`), for `write_events`, for operator commands, and for the
  environment: power failures between handlers and inside the two that rewrite the
  file, connections that die (`Lose`), the server (`Deliver`).
* A packet is its number and the set of events in it; a frame that is refused is
  `ReadGarbled`. The pin-state packet sent on connecting is never confirmed and left out.
* A timer is off, *started* in this work cycle, or *running*: a cycle passes before it
  may expire. All intervals of the code are seconds against 50 ms of a cycle, and
  no other order between timers is assumed. `t_send = 0` is not modelled.
* The event file is a sequence and a flag that it exists. Where it is missing,
  `read_events` computes -41/10 in unsigned 16 bits (`NotFoundCount`); the code
  never creates the file before the first confirmation (`check_event_file` is
  not called), so both values of the flag are initial states.
* A lost connection loses what is in flight in both directions. The
  handle is free again once `socket_th_close` has run.
* `use_esttools` is stored in flash by every command that changes it, so `useEst` is one variable
  that a reset keeps.
* Faults are drawn from `Faults`, at most `MaxFaults` in a behaviour, in this module as in
  the others.

### SamLink

* The buffer is kept byte for byte, with what lies behind the last byte received, because
  `check` looks there; `Ql_memcpy` copies upwards, and `Beyond` is the byte behind
  the array, which `check` can copy in.
* `Dropped` is the result of all the one-byte copies of one call of `check`, and
  `Garbage` their number: the loop's index meets the shrinking count half way.
* What `extract` does with a payload is the history `handled`.
* `paced` and `splits` choose the environment once: whether the board waits until its
  frames fit in the buffer, and whether a read may end inside a start mark.
* `SYNC_SAM_MSG` starts over with every read and takes 30 s, so `SyncPeriod` waits
  until the wire is empty and the work cycle has nothing left to do (`Settled`).

### Device

* A frame is what `extract` makes of it (`State`, `InputEvent`, ...); pins are three sets and
  `power`. Every output event, and an input event with 1, toggles its bit of the mirror
  (`*data = 1` in a condition is an assignment). Frames that come while the device
  boots are lost. The journal entries of the same frames are `WriteEvent` of `EstLink`.
* Only the state 1 of the network counts (`parse_network_state`): a modem that roams
  (5) is reset every two minutes.
* `AT+CTZU?` is answered with 0 or 3, with an error, after which `__need_reboot` keeps its
  initial TRUE and the device resets, or not in time (`get_time_synx_cmd` returns no
  value). The modem is assumed to keep the setting it has taken.
* A period of `SYNC_SAM_MSG` is longer than the board's answer takes, but for the fault `late`;
  registration is quicker than its timer, but for the fault `slow`.
* The frames that only go to a client of the THROUGH port, and `check_time`'s message to
  the board, are left out.

### FirmwareUpdate

* A byte of an image is the attempt that sent it and its place; the files and what the modem's
  image pool got are sequences of them. Marks are bytes of attempt 0.
* A client sends a message, waits for the answer, and then sends the next (the code
  answers each); reads may cut its data anywhere. It may give up at any moment and try
  again, and may leave out either image (a length of 0). The port takes any number of clients,
  and a second one that sends while another does is the fault `second`: they share
  `__updater__` and both files.
* `cut` is the history of the files whose last sender was given up inside the image. The code sets the flag for such a
  part too, if the next attempt does not send that image.
* `update_sam` divides by `__len_sam` to print its progress: 0 for an empty file on every report of the
  network, and for a late OK before the first report. The result of this is undefined, so the program
  goes on as if nothing had happened, or stops and is reset (`DividesByZero`).
* Each iteration of the `while (1)` in `update_sam` is an action: no handler runs in between, but
  power may fail. `update_mdm` at the end of the file returns no value and leaves the file
  open; both readings of the value end in a reset, the second when no handle is left (`FlashRunsOut`).
* `pages`, `waiting` and `oks` are what was sent, what the board has not answered, and the answers in the
  UART. One read may hold several answers; the code takes them for one. An answer to a page sent before a
  reset may come after it (fault `late`).
* `Ql_FOTA_Update` is the end of an update: it starts the new firmware, or returns (fault `fota`).
* File-system errors while receiving are left out.

### SettingsStore

* Three copies: `ram`, secure data (`marker` is block 1, `record` says that block 13 was
  stored, `flash` what it holds) and `board`. Fields are grouped by what the code does
  with them: `Plain` only the modem knows, `Echoed` the board gets and reports back,
  `Given` it only gets. `sport`, `schedulers` and `use_sched` have names because
  `strtok`, a copy of two bytes into one, and the lights commands change them.
* A command is an action up to its last call: `SavesAfter` is `save_all_settings` (write,
  tell the board, which cuts up `sport`, and read back), `Writes` is `write_mdm_settings`
  alone. `SCHED` inside a `CONFIG` form writes flash at once, with what came before it
  in the form.
* The first boot stores the marker and nothing else: `Ql_SecureData_Store` returns 0 and the
  code tests for more. The middle branch of `read_mdm_settings` is therefore never taken.
* One token in a form is enough: tokens touch different fields, and `set_config_form` looks for
  them in an order of its own.
* The messages for lights (5) and schedules (8) carry no setting the board keeps and are left out, as is
  `lights`, which a state frame sets from the outputs. `DELETE` removes files that hold no
  settings any more. The questions of the sync timer are merged into `BoardReports`.

### Console and ClientTable

* A piece of text is a digit, `?`, `MENU$$$`, a `CONFIG` line, or any other word. What a read
  means depends on its shape (`Gathers`, `Enters`, `Line`), as in `fill_command_buffer` and its callers.
  The 512 bytes of the buffer are a bound here.
* Items of the menu that act at once and change only settings are in `SettingsStore`; item 16 is `Reset`.
* `ClientTable` keeps `m_client` slot by slot, because the first match counts, beside the
  identifiers the output goes to. A socket that is closed may be given out again.
  A failed accept is stored like a socket. A failed send frees the slot at an index that
  was never set, which may be any, also outside the table (`wild`).
* Both socket callbacks ask first if the socket is `__socket_est_id` (`estId`), which keeps the number of a
  socket that was closed until the connector runs again, for good once EST is off. A client that is given
  this number (fault `stale`) is taken for the EST server: its data never reaches the table, and when
  it closes, its slot and the remembered output stay. `lost` counts the slots that no client has any more,
  `slotLeft` and `outputLeft` are the identifiers that such a close, or a failed read or send, may leave behind in the table and
  in `__rem_socket_*`. What the client's bytes do as packets of the server is left out.
* `Ql_SOC_Close` is taken to end a socket without a callback. What a send that would
  block leaves is never sent (`socket_th_write` does nothing), so it changes no state.
* Data of THROUGH and UPGRADE clients has no state in this module.

### Framing, Crc16 and Calendar

* `Framing` has both of the device's packets and both of the server's, and `ExtractPakets` as it is:
  all of a read is unstuffed, then marks are looked for, across what cut packets left. What is left may
  make the search use bytes that were not read (`outside`), or end a text behind the mark of its packet (`beyond`, both histories).
  `behind` is the stale byte after the last one of a read.
* `Crc16` has the table of events.c as typed, and `Ccitt`, computed bit by bit, with an exclusive or of
  its own (`Xor`). The server is assumed to compute the CRC the comment names.
* `Calendar` has months and days from 0 in the part of calendar.c and from 1 in that of rtc.c, as
  the code has. The program calls the register, `day_week` and `check_time`; nothing
  calls calendar.c. `CalendarAssumption` keeps the moves of a date in the 6 bits the register has for
  the year, 2000 to 2063. `calendar_add_day_to_date` looks for the leap year in 8 bits, which is right there:
  1992 and 2100, where it is not, are not among these years.
* `CodecsMC` chooses one of the two in its initial state.

## Runs

| Run | Bounds | Shows |
|---|---|---|
| `est_core` | 2 sockets, capacity 2, 3 events, 2 faults of 8 kinds | types, `CountedWereSent`, `ConfirmedWereReceived`, `NoOverrun`, `OneUplink`, and `EstLink` implements `EventJournal` |
| `est_operator` | 2 sockets, capacity 1, 2 events, 1 fault, any number of operator commands | `CountedWereSent` holds with orphan and reused sockets, and no other property of the link is checked with an operator |
| `est_liveness` | 2 sockets, capacity 2, 2 events, 2 faults | `EveryEventLeaves`, `AlwaysReconnects` |
| `sam_frames` | buffer of 14, reads up to 9, 3 frames of 7 or 8 bytes | types, `HandledInOrder`, `NothingSkipped`, `AllHandled` |
| `fw_update` | pages of 2 and 3 bytes, images of 0, 3, 4 and of 0, 3, 7 bytes, 2 attempts, 3 faults of 6 kinds (two clients at once: images up to 3 bytes, and a power failure) | types, `FlagMeansWhole`, `PagesInTurn`, `SamUpdateGood`, `DoneMeansFlashed`, `UpdateEnds` |
| `settings` | 5 fields of 2 values, 3 operations, 2 messages each way, 1 fault of 9 kinds | types, `CutStays`, `LastWord`, `BootKeepsSettings`, `BoardWins` |
| `clients` | 2 sockets, 3 slots, 4 kinds of client and the EST link, 2 faults of 5 kinds; or 1 client without faults, 7 pieces of text of which 3 wait | types, `QuestionsNeedMenu`, `AnswersFollowQuestion`, `DataIsReadAsSent`, `RoomForClients`, `OutputReachesItsClient` |
| `codecs` | 6 addresses, 3 numbers, packets of 0 to 2 events, 2 packets of the server cut at every byte; every day of 2000 and 2023 moved twice | `OwnPacketsReadBack`, `WholePacketsAreHandled`, `DatesAgree`, `MovesExactly`, `RegisterKeepsOrder` |
| `device` | a pin of each kind, 2 changes of pins or network, 2 frames on the way, 2 faults of 7 kinds | types, `MirrorFollows`, `ResetsForTimeOnce`, `StaysUp`, `MirrorRepaired` |
| `est_retired` | 2 events, 1 loss | **violated** `RetiredWereReceived` |
| `fw_written` | an image of exactly one page | **violated** `FinishedWhenWritten` |
| `crc_check` | as `codecs` | **violated** `OwnCrcIsCcitt` |

Why the bounds are enough:

* *EST*: an overflow needs `Capacity + 1` events and a shift during a pending packet one
  more; packet numbers wrap after `NumPackets = 2`; a second socket is what a
  reconnection or an orphan needs; two faults let one hit the recovery from another.
  `RepeatLimit` and `BackoffLimit` are 2 and 3 in the code and scale the same comparison.
* *SAM link*: the buffer holds a frame and part of the next but not a part and a longest
  read (8 - 1 + 9 > 14, as 263 + 256 > 512), so frames are cut anywhere, joined, and
  replaced by an overflow; three frames let one follow the resynchronisation after the
  second. Payload `17 13` and stamp `17` put false marks where the code looks.
* *Update*: no image, one with and one without a partial last page for the board; none, one of just a page and one of
  several and a part for the modem; a second attempt finds what the first one left, and may leave out what that one sent.
  A mark without any data behind it is a client that leaves at once: the empty file. Two clients at once mix short images
  only (`ShortWhenTwo`, the run's constraint), which is enough for every order of the marks; the proofs cover every length.
* *Settings*: a form, a query and a save in any order; one more operation than it takes for a value
  to pass from RAM through flash to the board and for the board to report the old one.
  Two fields of a group behave alike, and the named ones are there.
* *Clients*: three slots for two sockets, so that two faults make the table too small and one does not, and two
  sockets that change places between the EST link and clients of all kinds. The code has 20 slots and the modem 6 sockets, so `RoomForClients`
  says that 15 slots have to be lost, by failed accepts or stale closes, before a client finds no room. The table
  decides no more about the console than who may type, so a behaviour of `ClientsMC` either types, with one client at a time, or
  leaves the console quiet.
* *Codecs*: the bytes are those that look like marks: addresses, numbers, times and
  pins with 17, 05, 12 and 13 in every place; with addresses 94, 140 and 224 some packets are not `Clear`, with
  19 a 17 of the CRC ends a read, and a text with a 02 in it spoils the next packet when it is cut. An address is one
  byte (`num` is an u8). The years are a leap and a common one.
* *Device*: two faults let the board lose a frame and then hang; the count needs five
  periods, which the run has (its graph is 30 deep). A bound of changes is a bound of
  faults of the environment, and what must happen happens after the last.

`est_*`, `fw_*` and the codecs do not check for deadlock: without an operator, client
or event the device has nothing to do, and histories are bounded.

### Fairness

* `EstLink`: work cycles, armed timers, pending callbacks and the
  server are weakly fair: the task never stops serving its message queue, the
  modem reports the result of every connect and activation, and the server
  confirms what it gets. Nothing is assumed of the operator, of new events, or
  of faults, which are finitely many. `Prompt` says that on a live connection the
  server answers before `t_send` (50 s by default) runs out; without it
  three late answers in a row reboot the device again and again. The
  run leaves out the faults `gprs`, `bearer` and `create`: after a failed activation
  and after a `Ql_SOC_Create` that fails the code waits for ever.
* `SamLink`: bytes on the wire are read and the work cycle goes on; both are timers and
  interrupts of the modem.
* `FirmwareUpdate`: the device boots, the network is reported once in a boot, the
  board answers what it gets and the device reads it; `UpdateEnds` says nothing of the time
  after an OK is lost, nor of files that are `Endless`. Nothing is assumed of the client.
* `SettingsStore`: the device boots, the UART is served on both sides, and the board reports
  in each quiet period. Operator and faults are bounded.
* `Device`: callbacks and timers come, the board answers, and does not hang for ever. That the network
  stays is a premise of `StaysUp` and `MirrorRepaired`, not an assumption.

### What the violations are

* `est_retired`: a packet of events dies with its connection before the server
  has it. The next connection is greeted with an empty packet of the *same*
  number; `__confirmRecive` still counts the lost records, and the confirmation of
  the empty packet deletes them. `ConfirmedWereReceived`, which holds, is the part that
  remains true: a confirmation on the connection that carried the packet.
* `fw_written`: the last full page is written, nothing is left for the branch that finishes, and the
  device resets with the flag set. `UpdateEnds` holds for the other lengths: `Endless` names such an image, one that is
  missing, and an empty file for the board.
* `crc_check`: every eighth constant of the CRC table lacks a digit, so the CRC is not the one its comment
  names.

### What the code also does

Met while modelling, and kept in the models; properties that forbid it do not hold, and the
ones that are checked excuse it by name.

* Stopping EST leaves `EST_CONNECTOR_TIMER` armed (utils.c:22): the device connects after the stop.
* A failed activation goes on to `LOCALIP` (own_tcp.c:132): `errCode` is not looked at.
* A read of the UART that ends after the `17` of a start mark loses that frame (incury.c:213): `check`
  compares it with the stale byte behind it and drops it (fault choice `splits` of `SamLink`).
* `ExtractPakets` accepts a packet if the low byte of its CRC is not 0, and mostly refuses it if it is
  (events.c:296): with address 94 the confirmation of packet 1 is never accepted. An address and a number can
  also make the CRC end in the 17 or 05 of a mark: with address 140 the confirmation of packet
  23, with 224 a false start mark. The device repeats such a packet in vain. `WholePacketsAreHandled`
  speaks of the packets that are `Clear` of this.
* A read that begins with the rest of a packet can lose the whole packet behind it (events.c:352): a text whose third byte is
  02, cut after the first byte of its address, looks like another text, as long as the address says. It ends at the next packet's
  end mark and is closed with a 0 in the middle of that packet. And a read that ends in a 17 with a stale 05 behind it in the
  buffer (events.c:294), between the two bytes of an end mark or, with address 19 and number 23, inside the CRC: the search takes it for an
  end mark and tests bytes it has not read. `WholePacketsAreHandled` excuses both, the first as `beyond`, the second as `EndsInBegin`.
* A second before a full hour counts as a drift (incury.c:199): the registers `check_time` subtracts are
  packed, so its "second" are not seconds, and one second over the hour is a difference of 261. `RegisterKeepsOrder` asks the
  other direction, that no drift of a minute is missed.
* `MENU$$$` sent as one line with its CR opens the menu with the log on: main.c:460 undoes
  what utils.c:666 did.
* A text command without `DATE` sets the date 2000-0-0.
* Accepts that fail are never freed, and reads that fail leave `__rem_socket_*` behind, until a reset.
* `__socket_est_id` is stale after its socket has closed (socket_th.c:126, 208), and Ql_SOC_Close and Ql_SOC_Send of the EST link
  go to whoever has that number: see `ClientTable`.
* `_E_N_D` sets the flag for whatever is in the two files (socket_th.c:328): a client that sends the modem's image alone
  flags what an earlier one left of the board's, and main.c:221 sends that part. `FlagMeansWhole` names it (`cut`). Two clients at
  once mix their images; `FlagMeansWhole` excuses that, and the other properties show that the transfer itself goes on.
* An empty file for the board divides by zero in main.c:101 on every boot with the flag set, which nothing clears.

## Proofs

For every value of the constants that satisfies the modules' assumptions. Each proof module
EXTENDS the module it is about; each theorem is `Spec => []P` (or `[][A]_vars`) from an inductive
invariant.

* `EstLink_proofs`: `TypeCorrect` (`TypeOK`), with one lemma per group of actions.
  `CountCorrect` (`CountedWereSent`) is not inductive by itself: `read_events` sets the count to
  that of the whole file, or to 39317 if there is none, on every cycle in `CHECK_EVENTS`. `CountInv`
  adds that no packet of events is pending in that state; `CountWrites` is the heart: the
  records move down by at most the one place the count does.
  For a device without an operator `LinkInv` says what is under way: no socket and no timer in the boot,
  the connector only without a socket, one socket otherwise (`OneUnderWay`), on it at most one packet or
  its confirmation, and that packet is the batch if the socket is its `carrier` (`Carried`); a count without a batch is
  left over from the last confirmation and replaced before anything is sent (`CountsBatch`). From it
  `OneUplinkHolds`, `NoOverrunHolds`, `ConfirmedAreReceived`, and `JournalImplemented`: each step is one of
  `EventJournal` or a stutter (`JournalSteps`). They assume `~Operator`: who starts EST twice holds two sockets.
* `SamLink_proofs`: `SamTypeCorrect` (`TypeOK`), which is inductive: `CheckTypes`
  shows that `check` never takes more bytes than there are, and that the payload of a
  whole frame lies within the array (its length byte is garbage for all `check` knows).
  The bytes of the buffer are then compared with the whole stream the board sent: `IsStream` lays the frames
  `sent` end to end, and `Follows` says that buffer and wire are that stream from byte `a` on.
  `CheckDoes` says what one call of `check` does to such a buffer: it drops bytes that begin no
  frame, then hands on one frame, or waits, or drops a false mark. From it:
  `SamSkipsNothing` (`NothingSkipped`), by `AlignedInv`: with a board that waits and reads that do
  not cut a mark, `a` is always where the next frame that was not handled begins. `SamHandlesInOrder`
  (`HandledInOrder`), by `InTurnInv`: whatever is lost to an overflow, a cut mark or the sync timer, the frames handled
  are frames that were sent, each behind the one before. It assumes `Unmistakable`: in a stream of the board's
  frames nothing but a frame looks like one. Without it the claim is false of the code, which takes a payload that
  holds a frame for that frame once the start before it is lost. TLC evaluates the
  bounded form `MCUnmistakable` for the frames of `SamLinkMC`.
* `Device_proofs`: `DeviceTypeCorrect` (`TypeOK`, with the account of questions lost and on their way,
  which needs that a device that boots counts from 0). `ResetsOnce` (`ResetsForTimeOnce`): `ResetInv` adds that
  while the setting is 0, or a reset is due, one reset is still to be spent. `MirrorFollowsBoard` (`MirrorFollows`):
  `Followed` is a recursive function over the frames on the way; `FollowedAppend` says
  what a frame more does and `FollowedHead` what reading one does, both by comparing
  two paths up to the least place they could differ.
* `SettingsStore_proofs`: `Inv` is types, `Marked` (what is stored after how many boots), `Clean`
  (which faults have to have happened for a cut or torn value to be in RAM, flash, the
  board or on a wire) and `LastWord`. From it `SettingsTypeCorrect`, `CutStaysInRam`, `SaverHasLastWord`
  and `BootKeepsStored`. `ReadsBackKeeps`, `SavesAfterKeeps` and `ConfigKeeps` treat the helpers the commands share.
* `ClientTable_proofs`: `ConsoleInv` (types, both properties of the console, `fresh <= Len(buffer)`) is kept by every
  read and every form, and is part of `Inv`; `Promised` is the rest: types, who may leave orphans and write wild, the
  three properties of the table, that a client under `__socket_est_id` got it when it was stale (`OneLink`), and
  `Counted`: each slot that is taken is a client's or is counted in `lost`. The heart is `FullTable`, a
  pigeonhole argument: if no slot is free and a client has none, there are at least as many other clients
  and lost slots as slots. Theorems `ClientTypeCorrect`, `ConsoleAsksInTurn`
  (`QuestionsNeedMenu`), `AnswersWereAskedFor` (`AnswersFollowQuestion`), `ReadAsSent`, `RoomForEveryClient`,
  `OutputFindsItsClient`.
* `FirmwareUpdate_proofs`: `Inv` is types, `Phases` (what is known of page, position and client in each mode), `PagesInTurn` and
  `InStep` (without a repeated report or a late answer one page at most is under way).
  Theorems `UpdateTypeCorrect`, `PagesGoInTurn`, `LoopAfterTheBoard` (`SamUpdateGood`), also with two clients at once.
  `FlagSaysWhole` (`FlagMeansWhole`), by `FlagInv`, which is `ImageInv` as long as no two clients send at once: what is still to be
  read is the message of this attempt from byte `Done` on (`Expected`), the two files hold what was read of their parts (`Filed`),
  wherever the reads cut it, and a file is all of one image but for one that is being sent or was `cut` (`Kept`); so the
  end mark finds whole images of the attempt that sends it. `DoneSaysFlashed` (`DoneMeansFlashed`), by `DoneInv`: without a late answer
  every OK that is read belongs to a page of this boot (`Answers`), and the pool holds what the loop over the
  modem's image has passed (`Loop`).
* `Codecs_proofs`, for `Framing` and `Calendar`. `OwnPacketsAreRead` (`OwnPacketsReadBack`): every packet of the device,
  with any address, number, events and pins, is read back as it was sent. Stuffing is undone by its
  inverse (`StuffingIsUndone`), the first start and end mark of a stuffed frame are its own (`FrameIsRead`), `CrcIs` gives
  the CRC of what lies between, and `EventBodyIs` and `StateBodyIs` the fields of the bodies.
  `PacketsAreHandled` (`WholePacketsAreHandled`): what the server sends, cut anywhere into reads. Its invariant `ReadInv` says that
  less than the first packet in flight was read. A frame ends in 05, which no pair of stuffing ends in, so
  unstuffing a read splits at the frames' ends (`UnstuffJoins`, `GotIs`). The search is followed byte by byte
  (`Looks`, `Goes`): over a whole clear frame it finds the packet and is as it was before (`FrameScan`), in the
  beginning of a cut frame it finds nothing (`BeginningScan`), and what the rest of a cut frame
  made it find stays in front (`ScanLater`). `ReadFinds` and `ReadFindsJust` are the two halves of the property.
  `FlattenSeq` and the folds are compared with functions on the places of the sequence (`FlattenIs`), so that no
  induction over data is needed beyond `LeastNatural`.
  `DatesStayInCalendar` (`DateInv`): every date is valid and in the register's years, which its years at the start and
  the count of moves bound. `TimestampsMoveExactly` (`MovesExactly`): the loops of calendar.c that take off
  years and months stop at the date they came from (`TakesOffAll`), and a move adds its seconds, whatever
  it carries (`DayAddedIs` to `SecondAddedIs`). `RegistersKeepOrder` (`RegisterKeepsOrder`): `RegisterIs` and `FurtherIs` compare
  the packed fields. `DatesAlwaysAgree` (`DatesAgree`): the way from a date to its timestamp and back (`BackToDate`), and the day
  of the week against the count of days (`DayWeekIs`).
* `LeastNatural`: a set of naturals that is not empty has a least element (`Least`), from the well-founded order of finite
  sets. The library's induction theorems take an operator, which the provers
  cannot instantiate; with `Least` a first match (`Find`) and a recursive function (`Followed`) can be
  reasoned about by a least counterexample. `UpTo` is induction over a set of numbers up to a bound, and
  `Recursion` gives a function that is defined step by step up to a bound.

**Model-checked only**: all liveness (`EveryEventLeaves`,
`AlwaysReconnects`, `AllHandled`, `UpdateEnds`, `BoardWins`, `StaysUp`, `MirrorRepaired`), which is out of the
prover's reach. The three properties that are violated are not theorems.

## Plan

Done, in this order: `EstLink` with `EventJournal`, `SamLink`, `FirmwareUpdate`, `SettingsStore`,
`Console` and `ClientTable`, `Framing` and `Calendar`, `Device`, and the theorems above.

Left: every safety and action property of the passing runs is stated by a theorem. What the code still has and no
property covers are the hazards that `PROJECT.json` lists without one or names in a note: the timer that a stop leaves
armed, a socket that cannot be created, the activation that ignores its error, the listening socket a transfer's timeout
closes, and what a client under the stale `__socket_est_id` does as the EST server.

## Not modelled

* `ril/` and `include/`, 18500 of the 24500 lines: the vendor's SDK, most of which (SMS, Bluetooth, FTP,
  HTTP, multimedia) the program never calls. What it does call is the environment of the modules. This is why the
  map covers a small share of the lines: the application itself has about 6000.
* Of the application: the text of pages, menus and logs, most of `utils.c`, `menu.c` and `websrv.c`
  (each of their commands is an action by what it changes); the header and authorization of web requests; AT commands passed on; the bytes of
  the THROUGH channel; file-system errors outside the journal.
* `calendar_time_between_dates` and the `*_tz` timestamps, which nothing calls; `calendar_date_to_tz` is modelled for
  whole hours only, as its minutes are added to a stale hour. `sunrise.c` computes in floating point.
* The overflow of the 512 bytes of the console's buffer, and `t_send = 0`.
