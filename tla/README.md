# TLA+ models of the Marble MMC firmware

Marble MMC is the module management controller of the Marble and Marble-Mini FPGA boards: a
bare-metal C program with one main loop and a few interrupt handlers. It powers and supervises
the board, resets the FPGA, keeps settings in flash, talks to the FPGA through a mailbox and to
a person through a serial console. This directory holds models of the parts whose correctness
depends on order, interruption and loss of power, the TLC configurations that check them, and
proofs that TLAPS checks. `PROJECT.json` lists components, runs, mutants, hazards, the source
lines of every definition and the findings.

## The system

| component | state | operations | what is hard |
|---|---|---|---|
| flash EEPROM (`eeprom_emu.c`) | two flash banks: header and log of frames; `ee_active` | boot recovery, read, write, migrate, reformat | power lost inside any of several flash operations; failed operations; resource limits |
| parameters (`eeprom.c`) | none of its own | defaults at boot, typed stores, the three-frame key | multi-frame values, padding |
| FPGA watchdog (`watchdog.c`) | `fpga_state`, `poll_counter`, `max_poll_counts`, nonce | poll, answer, DONE edge, reset, callback | DONE interrupt against the main loop; which image runs |
| system services (`system.c`, `main.c`) | pending flags, scheduled reset, Pmod state | `system_service`, DONE and timer handlers | flags set by interrupts and cleared after use; ticks |
| mailbox (`mailbox.c`, `mbox.def`) | enable flag, update count | update, page access, MAC/IP push | stale pages, an FPGA that goes away |
| console (`uart_fifo.c`, `console.c`) | receive and transmit rings, `_msgCount` | receive and transmit interrupts, `console_service`, commands | rings and counters shared without locks; waiting inside an interrupt |
| board (`marble_board.c`) | `_pwr_good`, `_pwr_state`, over-temperature | PWRGD filter, re-initialisation, PROG_B | power events against resets |
| LTM4673, PMBridge (`ltm4673.c`, `i2c_pm.c`) | shadow of the page register | hooks, limits, telemetry | the shadow against the device |
| XRP7724 (`i2c_pm.c`, `hexrec.c`) | registers and flash of the chip | load and start it, program its flash | power lost between transactions, failed transactions, three nested retries |
| PMBus numbers (`pmbus.c`) | - | conversions | boundaries |
| display, Pmod, Si570/QSFP, PHY, SipHash, simulator, Marble-Mini port | - | - | not modelled, see `PROJECT.json` |

The main loop calls `system_service` (mailbox update with the watchdog poll, MAC/IP push,
release of the FPGA reset, `console_service`) and then `board_service`. The DONE pin, the
timer and the USART interrupt it; they share plain variables with it. Console commands and the
DONE handler call into the watchdog; console, mailbox and boot call into the parameter store.

What makes each part correct: a stored value is never torn, never an older one, and survives a
power cut; the FPGA is never left in reset; a user image is watched and one that nobody answers
for is reset, whatever old answers lie in the mailbox; a line typed at the console is
obeyed once, whole, and eventually, and what is printed comes out once and in order; a channel
of the supply gets no voltage meant for another; a board reported good has its clocks set up;
an older supply is started only with all its registers loaded, and its flash is reported
complete only when it is. What stands against each of these in the code is named where the module
is described.

## Modules

| module | models |
|---|---|
| `NvStore` | the promise of the parameter store: one value per tag, one store at a time, or a reformat |
| `EepromEmu` | `eeprom_emu.c`, the default filling of `eeprom.c`, and the flash under them |
| `EepromEmuProofs` | theorems about `EepromEmu`: types, valid banks |
| `EepromStoreProofs` | extends `EepromEmuProofs`: what is stored, the refinement of `NvStore` |
| `FpgaWatchdog` | `watchdog.c` with the parts of `system.c`, `mailbox.c`, `console.c`, `main.c` and `marble_board.c` that drive it, the FPGA and the host |
| `FpgaWatchdogProofs` | theorems about `FpgaWatchdog` |
| `TypedText` | the promise of the console's receive side: a text that grows at its end, of which whole first lines are taken |
| `UartConsole` | receive interrupt, receive ring and `console_service` |
| `UartConsoleProofs` | theorems about `UartConsole` |
| `ByteStream` | the promise of the transmit side: a bounded queue of bytes |
| `UartTx` | transmit ring, `marble_UART_send` in the main loop and in handlers, the transmit interrupt, the data register |
| `UartTxProofs` | theorems about `UartTx` |
| `Ltm4673` | page shadow and bus hooks, telemetry, channel status, limits and PMBridge of the LTM4673, with the device |
| `BoardPower` | extends `Ltm4673`: `board_init`, `board_service`, the check before the clock crosspoint, power, bus and temperature |
| `BoardPowerProofs` | theorems about `BoardPower` |
| `XrpChip` | the XRP7724 as the firmware uses it: registers, flash, power losses |
| `Xrp7724` | extends `XrpChip`: `xrp_boot` with `xrp_go` and the list of records, `xrp_flash` |
| `XrpProofs` | theorems about `Xrp7724`: types, `xrp_boot` |
| `XrpFlashProofs` | extends `XrpProofs`: `xrp_flash` |
| `MC*` | small instances for TLC |

Operators and actions have the names of the functions they stand for where one function is one
action. `Slip...` definitions are wrong variants of the definition after them; no specification
uses them, they are there to show that a property notices the slip.

### EepromEmu

`hdr[b]` is what `ee_page_state` reads from the header of bank `b`, `frames[b][n]` what
`ee_frame_check` makes of a slot: a tag and a value, `Blank` or `Bad`. `ram` is everything a
power cut destroys: program counter, `ee_active` and the locals of the functions under way. A
step performs at most one flash operation. Each ends in one of three ways: done, failed
with an error, or cut by a loss of power, in which case the sector holds any of the
results a half-done operation can leave and `ram` starts over (`Endings`, `After`). So every
place of `eeprom_system_init` and `fmc_ee_write` where the power can go is a place of the model.

Undefined values in the code are choices in the model: the bytes after a short datum
(`Repeats`) and the bit that `ee_is_full` reads beyond its array (`ReclaimableAnswers`).
Assumptions: a torn frame fails its check or reads as blank (the XOR check accepts a frame cut
after its first word if tag and first two values cancel; this is not modelled); a header is
programmed in two words, a half-programmed one reads as invalid; a sector whose erase is cut
has a header that is not erased, or no frames (an erase that leaves frames behind an erased
header is outside the model, the second bank of a cut reformat is the way the model gets there).
`fmc_ee_reset` is not called by the firmware and is left out.

Room is the subject of two invariants. `NoSpaceOnlyIfFull`: a store is refused only when the bank
has no blank slot and no good frame that a later one hides. It does not say that a migration would
have freed nothing: `ee_is_full` takes the slot of a torn frame as used (`eeprom_emu.c:330`), although
`ee_migrate` would leave that frame behind (`:204`), so a bank with a torn frame in it may refuse a
store for which it could make room. `MigrationMakesRoom`: no migration is begun for nothing, given more
slots than tags (the firmware has many more), even one begun because `ee_is_full` read a bit beyond
its array, or because equal settings were stored over and over.

`ImplementsNvStore` is the refinement: `store[t]` is what `fmc_ee_read` returns, or, while no
bank is active, what the next boot would recover from the flash.

### FpgaWatchdog

`pc` walks through the main loop with one access to shared state a step; `ConfigDone` (the
DONE interrupt together with the edge), `MailboxTick`, the passing of delays, the host, the
power rails and a reset of the MMC come between any two. `FPGAWD_Poll` is three steps, as the
compiled decrement is a load and a store. `FPGAWD_SelfReset` is one step because nothing can
raise DONE once PROG_B is low. Configuring an FPGA takes longer than the code between
`enable_fpga` and the end of the callback; the model has this as the guard
`pc # "callback"` of `ConfigDone`. Ticks are abstracted to "the delay has passed"; nonces and
MACs to the current one, a stale one or none, as seen from the FPGA's mailbox. The PWRGD filter
may take any time. The parameters that matter here are a record that may turn out unreadable at
a boot.

Not in the model: the console's PSU command (`B`), which resets as `ConsoleReset` does; boards
up to v1.3, whose PWRGD pin is not read.

The mailbox page with the answer keeps what was written to it. `SilentIsReset` says that this cannot
keep an image alive whose host has fallen silent: an answer is good for one reload, and what an older
image left for none. The other way round is not promised: `AnswerSaves`, which no run checks, does not
hold, as `mbox_update` counts before it reads the mailbox (`mailbox.c:112`); with a period of 4 or 5
seconds, one poll, even a host that answers every nonce at once is too late.

`periods`, `polls` and `hit` are history: they count (up to `Horizon`) since the last reload and
say whether that reload fell into a decrement.

### UartConsole

`USART_RXNE_ISR` is one step per key; `console_service` is a step per access to what it shares
with the interrupt: `UARTQUEUE_Get` tests and reads, advances `pOut`, and clears `full`;
`_msgCount--` loads and stores. `Advance` steps on from the index in a register or from
the one in memory: nothing in the code says which the compiler uses. A byte is known by the line
and the column it was typed at. `clean`, `missed` and `dropped` record the races, deletions and
overflows under which the code loses its way, so that the properties say exactly when lines are safe:
`clean` goes false when a backspace or an escape comes while a line is counted or being shifted
out, or when bytes fill the ring between the update of `pOut` and the clearing of `full`;
`missed` becomes true when an end of line comes between load and store of the decrement, `dropped`
when a byte finds no room (the code's own `_dataLost` is never cleared and never read, and has no
variable of its own). All three are about the time since the last escape at an idle console
(`pc = "idle"`, no line counted): `UARTQUEUE_Clear` then sets everything up as it was at first, so
the properties are claimed again, and in them lies that this escape recovers from every race and
every overflow.

`ImplementsTypedText` is the refinement: the text is what `console_service` has shifted out
(`Taken`, with the byte in hand while `full` is being cleared) followed by the bytes in the ring, as
long as no byte was dropped and `clean` holds; otherwise the abstract text is broken, until it
recovers. A key changes its end in one step, and the step that hands a message to `console_handle_msg` takes its first
line and nothing else; every other step of `console_service` leaves the text alone. `LinesCounted`
ties the counter to it: an idle console has counted exactly the lines entered and not handled.

### UartTx

The main loop's `marble_UART_send` is one step per access to what it shares: `UARTTXQUEUE_Add`
tests, writes, advances `pIn` and compares; `UARTTXQUEUE_Get` tests and reads, advances `pOut`
and clears `full`. `Advance` and `GetAdvance` step on from the index in a register or from the one
in memory. The handlers of the USART, of the DONE pin and the tick have one priority, so a
handler's calls run in one go between two of these steps; only its wait for room is a state of
its own, as the transmitter works on meanwhile. A handler's job is what it prints: an echo (one
message), an erase (three messages, of zero or more bytes), a line of the DONE handler, or nothing
at all (the end of an empty line, after which `USART_RXNE_ISR` returns without an echo).
`CONSOLE_USART_ISR` calls `USART_TXE_ISR` after each of its own, and that one looks at TXE only: it
takes a byte out of the ring also while the transmit interrupt is disabled. `unarmed` records that
this has happened since the interrupt was last enabled. Bytes
are numbered as they are put into the ring, so that `Pipeline` can say that what is under way
is exactly what was added and not sent.

`ImplementsByteStream` is the refinement: the abstract queue is `Pipeline`, of at most
`UARTTX_QUEUE_ITEMS + 1` bytes, a byte is in it when `pIn` has stepped over it, and what the
transmitter takes is its head. It is claimed, like the other properties, while `clean` holds.

`clean` records the moments at which a handler breaks the ring: it adds a byte inside an Add of
the main loop (or fills the ring just before the main loop clears `full`), takes one inside a
Get or between the look at the data register and a Get that finds another byte, or empties the
ring between the update of `pIn` and the test for a full ring. The properties say that nothing
else goes wrong, with one exception that is no race of the ring: the end of an empty line that comes
while the main loop is still filling the ring, its interrupt disabled, sends the first byte; the kick
at the end of `marble_UART_send` then finds TXE clear and does not enable the interrupt
(`uart_fifo.c:446`), and the rest of the message is `Stranded` until something else is printed.
`Draining` and `AllSent` have this case as an exception, tied to `unarmed`; `NothingStranded`, without
it, does not hold.

### Ltm4673 and BoardPower

`page`, `vout`, `latched` are the device; `off` the channels out of regulation; `ltm4673_page` is
the shadow that the hooks of `marble_I2C_*` keep, which are called only when a transaction
succeeded. A person at the PMBridge may select any page, read it back, write a voltage and clear
faults, with telemetry and restarts of the MMC between any two of these. Only PAGE, VOUT_COMMAND
and CLEAR_FAULTS are modelled. `synced` and `unlimited` are history: the shadow starts at 0
whatever the device has selected if `ltm4673_init` fails, and the page for all channels has no
limit on VOUT_COMMAND.

`board_init` is walked through by `pc` (it sleeps for most of a second), with power, bus and
temperature changing at any step; `caller` tells where it returns to. `latched` are bits of
STATUS_WORD that stay set after a fault; the firmware never clears them. Boards up to v1.3
(`rev = "old"`) return before PWRGD is read and come back only through the over-temperature
path, where `_pwr_good = 1` whatever `board_init` found.

The set-up of the crosspoint (`Xpoint`) may fail silently: `adn4600_init` looks at no result of its
writes to the FPGA's I2C bus (`i2c_fpga.c:285-350`), and `mgtclk_xpoint_en` returns 0 as soon as the
check of the supply has passed. So when the rail is there the crosspoint may be set up, left
as it was, or left reset or half set up; `missed` is history and true in the last two cases. Nothing
in the firmware tries such a set-up again until power fails or the MMC restarts. `GoodIsSetUp` and
`Recovers` therefore promise that the crosspoint is set up *or was tried under power and missed*, not
that it is set up: what they exclude is a board reported good whose set-up was skipped, or undone by
an outage, without anybody noticing. The console commands that set up the crosspoint (`console.c:194`
and `:621`) are not modelled.

Assumptions: a failing transaction has not reached the device; an outage lasts longer than the
filter of PWRGD (three rounds of the main loop), which is the guard of `ChannelReturns`.

### XrpChip and Xrp7724

Every step is one bus transaction, which may fail; what follows differs from call to call as in
the code: `xrp_set2` and the write of `xrp_reg_write_check` go on, a failed `xrp_read2` reads
zero, the others return. The chip may lose power at any step, which resets its registers; a
word of flash is `old`, `clear`, `erased`, the word programmed, `spoilt`, or `over` when it was
programmed without having been erased. A weak cell loses its word when it, or another of the
page, is programmed. The chip may stay busy for ever and may refuse any command.

`xrp_boot` can meet a chip in operation: when none of the four statuses can be read it takes the
channels for off. `xrp_flash` is reached from the console of the Marble-Mini build only.

Assumptions: registers power up with values other than the tag and the delay (0x93, 255); the
busy byte is 0 or 1, as the code expects; the static list names no register twice (it was
checked, as was that it contains 0xD022 and 0xFFAD and neither 0x8000 nor 0x8068). `StartsLoaded`
speaks of the moment of the last look at the tag: then the chip holds the list, but for bytes that
are zero (a failed `xrp_read2` reads zero, and verifies) and the two registers that the code does not
verify. A loss of
power between that look and the write that starts the chip is not noticed by the code and not claimed. A word of the image is never one of the marks of the flash
(`ChipConstants`); the marks stand for what a cell holds when it is no word of the image.

## Runs

| run | shows |
|---|---|
| `eeprom` | with cuts in header, frame, migration and erase operations and refused header, frame and erase operations: never two valid banks; what a boot would recover is what is read now; "no space" only when no slot is blank and no good frame is hidden by a later one; a migration always makes room; refinement of `NvStore`; no old value comes back |
| `eeprom_persist` (violation) | a cut after `ee_moving` and before `ee_valid` costs all settings |
| `eeprom_stale` (violation) | with cuts in a reformat too, a bank can hold old frames under an erased header, and a later migration prefers them |
| `watchdog` | resets are released; a running user image is in state USER; no DONE edge in RESET; the watchdog fires only after a full count; an unattended user image does not stay; once the host is silent no answer left in the mailbox keeps an image alive |
| `watchdog_period` (violation) | 2 s, documented as valid, turns the watchdog off |
| `watchdog_key` (violation) | an unreadable key counts as an answer |
| `watchdog_address` (violation) | a DONE edge during the push of MAC and IP is lost |
| `console` | refinement of `TypedText`; ring and count agree, an idle console has counted the lines that wait, lines are handed over whole and eventually, up to the recorded races, from which an escape at an idle console recovers |
| `console_ring` (violation) | an escape inside `UARTQUEUE_Get` makes an empty ring look almost full |
| `uart_tx` | refinement of `ByteStream`: every byte put into the transmit ring goes out, once and in order, up to the recorded moments; nobody leaves bytes behind with the interrupt disabled, and only a handler that waits stops the output, but for bytes stranded behind one sent with the interrupt disabled |
| `power` | the page shadow is the device's page; a voltage is clipped to the limits of the channel that gets it; new boards reported good have had their crosspoint set up, or tried under power and missed, and end up so when power and the supply's bus settle; old boards reboot once after an over-temperature |
| `xrp` | the chip is set to operate only when it was fully loaded at the look at the tag before it; complete means that the flash holds the image; no word is programmed over another; both operations end |

Six definitions at the end of their modules say what a comment of the code says and do not hold;
no run checks them, and adding one to the cfg of its module shows the counterexample:
`AnswerSaves` in `FpgaWatchdog` (see there), `NothingStranded`, `SendsTheString` and `WaitEnds` in
`UartTx` (the end of an empty line takes the byte whose kick would enable the interrupt; the interrupt that `marble_UART_send` enables may
take the byte it is about to take itself, `uart_fifo.c:446-449`; a handler that waits for room
waits for a tick and an interrupt that cannot come, `uart_fifo.c:312`), `RailChecked` in
`BoardPower` (the check of the LTM4673 looks at the first channel that answers, and an LTM4673
that does not answer at all is good, `ltm4673.c:464-474`), `LoadedWhileOff` in `Xrp7724` (the
readback of 0x0E is not looked at, `i2c_pm.c:1005`).

Faults that the passing EEPROM run leaves out, because the code does not survive them: failing
copies in a migration (the result of all but the last copy is dropped), failing or cut erases
of a reformat, an erase that fails half way. The first is a hazard without a property so far; the
effect of the second is the one that `eeprom_stale` shows for cut erases.

### Bounds

- EEPROM: three slots a bank, two tags, two values. The third store of a tag fills a bank, so
  migration, resumed migration, a bank full of unique tags, and a bad slot that
  takes up space all occur, and there are more slots than tags; one tag has a short datum, one lies beyond the array of `ee_is_full`.
- Watchdog: a period that disables it and one of two polls; two polls are enough for a DONE
  edge to fall before, inside and after a decrement. `Horizon = 2` is as far as the properties
  count. The console may set periods and switch the mailbox any number of times.
- Console: a ring of three bytes, two lines of at most two characters. Full ring, lines that do
  not fit, two lines pending and every race occur. The count wraps at 5; as in the
  firmware (256 against 100) the ring is smaller than that.
- Transmit ring: two bytes, messages of one and two, four bytes in all; handlers that echo, erase,
  print a line, or end an empty line and print nothing. Full, wrapped and empty
  rings, a wait in the main loop and in a handler, and every bad moment occur.
- Power: two channels, one of them 3.3 V, whose limits exclude each other's voltage; pages 0, 1,
  255 and one that does not exist; the filter has its real length, 3.
- XRP7724: two pages of two words that begin alike, two records with a byte that its register
  holds at power-up; two power losses or weak cells; each of the three loops has two rounds, so
  that both going on and giving up happen.

`CHECK_DEADLOCK FALSE` in the console runs and in `uart_tx`: the person at the console may stop
typing, the numbers of lines and bytes are bounded, and a handler may wait for ever.

### Fairness

- `FpgaWatchdog`: weak fairness of the main loop (it never waits for an event), of the
  periodic timer, of the passing of the two delays, and of the end of a configuration that has
  begun. None for the host, the rails, the console user or a reset of the MMC. `Recovers`
  allows the counter to be reloaded again and again (`periods` starts over). `SilentIsReset` does not:
  it is about executions in which the host answers, the period is set and the MMC restarts only
  finitely often. Both take it that the main loop does go on: a handler that waits for ever
  (`WaitEnds`) would stop the watchdog too.
- `UartConsole`: weak fairness of `console_service`, which the main loop calls each time round.
- `UartTx`: weak fairness of the transmitter, of the handlers once interrupted or enabled, and of
  the main loop inside `marble_UART_send`. None for who prints.
- `BoardPower`: weak fairness of the main loop and of the passing of the reboot delay. `Recovers`
  assumes that power and bus stay good and that no status bit stays latched.
- `Xrp7724`: weak fairness of the driver's steps only. The chip may hang.
- `EepromEmu` needs none: only safety is claimed.

## Proofs

`EepromEmuProofs` proves `TypeCorrect` and `AtMostOneValidHolds` for every bank size, set of
tags, set of values, and set of cuts and faults, including those the passing run leaves out. The
inductive invariant `IInv` adds to the types and to `AtMostOneValid` what is known at each place
of the code (`RamOK`): while the frames of an active bank are copied, and until the other bank is
marked valid, `src` is the active bank and its header says moving; a reformat runs only when no
bank is active and neither header says valid. Without these the step that marks a bank valid
(`SetValid`) could leave two valid banks.

`EepromStoreProofs` proves `RecoveryAgreesHolds`, `NoSpaceOnlyIfFullHolds`, `MigrationMakesRoomHolds`,
`NoReversionHolds` and `ImplementsNvStoreHolds` for every bank size, set of tags and set of values, under the hypothesis
`CoveredFaults`: no erase of a reformat fails or is cut, no copy of a migration fails, and no
erase reports an error half way. The passing run satisfies it, and each part is necessary: TLC
finds `NoReversion` violated when the erase of a reformat fails or is cut (the latter is the run
`eeprom_stale`), and `RecoveryAgrees` violated when a copy fails or an erase fails half way. A
power cut in a copy is covered. The inductive invariant `SInv` adds to `IInv`

- `LogsOK`: a bank marked valid or erased is filled without a hole, a bank marked erased holds no
  tag twice, and a valid bank beside a moving one has every tag of that one;
- `SpareOK`: a bank marked erased has frames only beside a moving one;
- `ActiveOK`: the active bank is the valid one, or it is full and its migration was given up; in
  that case the other bank says the same if it is valid, and nothing else if it is erased;
- `MigrateOK`: how far the copies have come at each place of a migration, resumed ones included;
- `SpaceOK`: a store that was refused, or is tried again, has nothing to reclaim.

The facts about logs (what is found after an append, in a copy, in a full log without
duplicates) are lemmas about an arbitrary log, stated once for both banks and for before and
after a step. The refinement maps `store` to `Stored`: what `fmc_ee_read` returns, or what the
boot will recover while no bank is active. `StoredStep` says that every step leaves all of it as
it is, forgets all of it, or sets the tag being stored; `NoReversionHolds` and the refinement
follow from it, `RecoveryAgreesHolds` and `NoSpaceOnlyIfFullHolds` from `SInv`.

`MigrationMakesRoomHolds` needs the further assumption that there are more slots than tags, and one
more invariant, `CopiesOK`: the spare bank holds no torn frame while it is marked erased, and the
new bank none when the store is tried on it (copies cut by a loss of power are lost in a reformat,
those of a migration that was given up are good and resumed). Then the new bank holds each tag at most once, by `SpaceOK`, and cannot be full by
counting (`MoreSlotsThanTags`, the pigeonhole theorem of the library).

`FpgaWatchdogProofs` proves `TypeCorrect`, `ResetIsReleasedHolds`, `UserIsWatchedHolds` and
`DoneNotInResetHolds` for every period, every positive constant of `watchdog.c` and every bound on
the history. `ResetInv` adds to `ResetIsReleased` what holds between `enable_fpga` and the
callback (`ReleaseUnderWay`: PROG_B is high, the reset still pending, the image golden) and that
an FPGA with a configuration is not held in reset. `WatchInv` adds to `UserIsWatched` that the
DONE edge of the golden image has been counted before a user image can be asked for
(`GoldenSeen`), unless the reset of a boot or of a return of power is still to come. The type
invariant is proved in four parts, because counters need arithmetic and flags need
first-order reasoning about Booleans. `FullCountHolds` rests on `CountInv`: while the image is the
user's and the last reload did not hit a decrement, the polls made and those to come are a full
count, where those to come are in `reg` between the load and the store of the decrement. Its
hypothesis `HistoryReaches` says that the history counter `polls` is not capped below the count of
a period in use; it holds in the run.

`UartConsoleProofs` proves `TypeCorrect`, `RingAgreesHolds`, `WholeLineHolds`, `LinesCountedHolds`
and `ImplementsTypedTextHolds` for every size of ring, buffer and count and any number of lines. The invariant has three parts that hold under
growing reservations: `CountInv` (the types, and what is known of the length of the message)
always; `RingInv` (the distance between the two indices is the number of bytes kept, or the ring
is full; a slot being taken is the first) as long as `clean` holds; `ChainInv` and
`LineInv` as long as no byte was dropped either. An escape at an idle console establishes all of
them whatever was before (`EscapeRing`, `EscapeLine`, `EscapeCounted`), and no other step can make
`clean` true again (`HistoryBefore`). `ChainInv` says that each byte in the ring is
followed by the next of its line, or by the first of the next one after an end; `LineInv` that the
message, the byte in hand and the ring make up whole lines, and that the count is at most the
number of lines in ring and hand, so that a loop that has begun finds an end. The count wraps;
that the ring is smaller than its range is an assumption on the constants, true of the firmware.

`LinesCountedHolds` needs more, because the bound of `LineInv` would let a line go uncounted:
`CountedInv` says that while no end of line fell into a decrement the count is exactly the number
of lines in ring and hand, and that the lines entered and not handled are those from the oldest
line in ring, hand or message (`Oldest`) up to the one before the line being typed. The
refinement of `TypedText` writes the ring as the sequence `Slots`, with lemmas for a byte put in,
taken out and dropped at either end of it, and shows step by step what becomes of the text
(`KeyText`, `ServiceText`); `LineInv` says that the message handed over is its first line.

`UartTxProofs` proves `TypeCorrect`, `BytesKeptHolds`, `DrainingHolds` and
`ImplementsByteStreamHolds` for every size of ring, any messages of the main loop that fit it and any jobs of the handlers. `IInv` holds `RingInv`,
`BytesInv` and `DrainInv` as long as no recorded moment was hit. `BytesInv` numbers the bytes: the
one in the data register, the one in the main loop's hand and those in the ring follow each other
without a gap from the last one sent to the last one added. `DrainInv` strengthens `Draining`:
with the interrupt off, no byte sent while it was and no handler sending, the ring is empty where
nobody is adding, and
where the main loop is adding, what is in the ring and still to come fits. The refinement follows
from the numbering: a step adds one to `added` or to `last`, or to neither (`NumbersStep`), and the
hand and the data register are never both full (`InTransit`).

`BoardPowerProofs` proves `TypeCorrect`, `ShadowAgreesHolds`, `VoutWithinHolds` and
`GoodIsSetUpHolds` for every number of channels, all limits and every length of the filter. The
first three are inductive with the types: a limit looked up by the shadow is right because of
`ShadowAgrees`. `CrosspointInv` adds to `GoodIsSetUp` that the crosspoint is set up at the end
of `board_init` too, or was tried and missed, when the check was passed and the 3.3 V rail is still
there, that it speaks of that rail alone, and that only old boards come from the reboot path; the guard of
`ChannelReturns` is what keeps power from coming back unnoticed.

`XrpProofs` proves `TypeCorrect` and `StartsLoadedHolds` for every list of records, image, page
size and bound. `StartsLoaded` speaks of one step; what makes it inductive is `ProgressInv`: as
long as the tag is in its register, no power loss has undone a record verified so far. Then a tag
check that succeeds means the whole list is in place. `DriverInv` and `AtRest` say what the locals
are at each place; without them `rec` and `at` could point past the list.

`XrpFlashProofs` proves `NeverOverHolds` and `FlashedIsImageHolds` for every image, page size,
bound of the loops and number of power losses and weak cells. What carries `FlashInv` is the delay
register: as long as it reads the 255 that was preset, the chip has neither lost power nor reported
a failure since. So a clear or erase that was not refused is in progress or has done its work
(`CommandInv`), the erase is over before programming starts, every word still to be programmed is
erased or spoilt and the pointer of a chip in flash mode is at the next one (`ErasedInv`), and
after the second reading the page holds its part of the image (`ImageInv`). A command left over
from a run that was cut short is why `TaskInv` makes an exception of page 0: it may be of any
page, but it has to end before the first command of this run is accepted. A loss of power moves
the pointer but also ends the flash mode, so that nothing is programmed any more; hence
`NeverOver` needs no reservation.

The assumptions are the named `ASSUME`s of the modules (types of the constants, at least one slot,
distinct markers, limits in order, a list that names no register twice, an image without marks);
TLC evaluates them in every run.

Only model-checked: liveness (`Recovers` of both modules, `SilentIsReset`, `LinesHandled`, `AllSent`, `RebootsOnce`,
`Returns`), which is out of reach of the proof system. Every other property of a passing run has
a theorem. The invariants the proofs use were checked by TLC first, on the instances of the
runs and on some larger ones (rings of one to three bytes, three pages, longer periods).

## Plan

1. `EepromEmu`, `NvStore` - done. Multi-frame parameters (the watchdog key) to be added.
2. `FpgaWatchdog` - done.
3. `UartConsole`, `UartTx` - done.
4. `Ltm4673`, `BoardPower` - done. Fans and the MAX6639 to be added.
5. `XrpChip`, `Xrp7724` - done.
6. Operators checked over bounded inputs: L11/L16 conversions, tick comparisons, number
   parsers; Pmod LED counters.
7. Mailbox pages and a composition of `system_service` from the parts.

Theorems to come: how the transmit ring recovers from a race; with the modules of 6 and 7, their
invariants.

Left to TLC for good: liveness, and whatever is defined by recursion over data.

## Not modelled

The vendored HAL, CMSIS, LPCOpen and FatFs sources are most of the repository's lines and are
taken as the hardware they drive. SipHash and the PMBus conversions are arithmetic with tests
of their own; display, Pmod boards, QSFP, Si570 and PHY access are straight-line register
traffic; the Marble-Mini port repeats the services modelled for the Marble; the simulator stands
in for the board. `xrp_hex_in`, `fmc_ee_reset`, `UARTQUEUE_Pop` and `UARTQUEUE_ShiftOut` have no caller.
`PROJECT.json` gives the reason component by component.
