# A TLA+ model of asimple

asimple is a C library for boards built around the Ambiq Apollo3, over the
vendor's hardware abstraction layer (HAL). This directory models its drivers in
TLA+, checks the models with TLC on small instances, and proves the safety
properties with TLAPS for every value of the constants.

The program is single threaded: `main` calls drivers, drivers call each other,
and interrupt handlers run in between. What makes it hard to test is what it
talks to. The flash chip, the SD card, the radio and the timer work on their
own between any two register accesses, fail, and are swapped; the bus, the
peripherals and the file table are shared by callers that take and return them
in any order.

Paths below are relative to the repository: `src/src/spi.c` is the file
`src/spi.c` of the project's own tree.

## 1. Inventory

| component | source | state | operations | correct when |
|---|---|---|---|---|
| SPI layer | spi.c | static tables of buses and devices, reference counts, cached clock per bus, one configuration shared by all buses | get and deinitialize a bus or device, sleep, enable, set clock, transfer, toggle, hold MOSI | counts are exact, nobody holds a cleared entry, every transfer runs at its device's clock, unused hardware is off |
| flash and littlefs glue | flash.c, asimple_littlefs.c | none of its own; the chip has contents, a busy operation and a write-enable latch | the littlefs callbacks read, prog, erase, sync | no operation is dropped; chip and driver are the block device littlefs assumes, across power loss and restart |
| SD card: transfers | sd_card.c | number of blocks; the card has a transfer state | command, read blocks, write blocks | a success means the right blocks, nothing else is written, every call returns |
| SD card: initialization | sd_card.c | number of blocks, SPI clock | sd_card_init | a success means a card that is ready and works at the voltage |
| system timer | systick.c | jiffies (64 bits in two words), burst_counter, the counter | handler, systick_jiffies, systick_time, reset | the time is accurate and does not run backwards |
| LoRa radio | lora.c, gpio.c | registers and FIFO of the radio | send, receive, mode and modem settings | packets received are intact, sends return when sent, waits end, settings do not disturb each other |
| UART, ADC, PDM | uart.c, adc.c, pdm.c | one structure per peripheral, a count, the handle an interrupt handler uses, a queue; the slots and samples of the ADC; the microphone's flag and buffer | get, sleep, enable, deinitialize, write; trigger, get sample; get data, data ready | counts are exact, handlers run only for what is on, pins are released, samples are of one scan, a buffer is whole when it is said to be |
| system calls | syscalls.c, syscalls/ | registered devices, table of open files | open, read, write, lseek, close | a descriptor reaches the file it was opened for |
| command line | cli.c | ring of past lines | cli_read_line | lines fit, are returned, and the past ones survive |
| real time clock | am1815.c, syscalls/rtc.c | registers of the clock | read and write time, alarm, repetition, timer, charger | what is read back is what was set, a restart in the middle leaves no mixture |
| sensors | bme280.c, bmp280.c | calibration constants | set up, sample, compensate | a sample is of one conversion, begun by the call |
| main program | main.c | none | a loop over ADC and radio | samples are reported again and again |
| power control | power_control.c | none | two empty functions | nothing to model |
| loader script | svl.py | none | vendored upload tool | not part of the firmware |

Interactions: flash, SD card, radio, clock and sensors all call the SPI layer;
littlefs calls back into the flash glue; the SD card reads the system timer;
the C library calls the system calls, which call littlefs and the UART; the
radio raises a GPIO interrupt that ends the sleep of `lora.c`.

The hard behaviours, each listed with its line under "hazards" in
PROJECT.json: caches that go stale (clock of a bus, state of a card), reference
counts over a shared entry, operations in flight when the next call or a power
loss comes, statuses that are ignored, 64-bit values read in halves, a pin
looked at before a sleep, loops without a bound, arithmetic at the end of a
range.

## 2. Modules

| module | models | checked by | proofs |
|---|---|---|---|
| `Spi` | spi.c | `MCSpi` | `SpiProofs` |
| `BlockDevice` | what littlefs is promised (abstract) | through `Flash` | |
| `Flash` | flash.c, asimple_littlefs.c, the chip; refines `BlockDevice` | `MCFlash` | `FlashProofs` |
| `SdCard` | commands, reads, writes of sd_card.c, and the card | `MCSd` | `SdProofs` |
| `SdInit` | sd_card_init, and cards that come and go | `MCSd` | `SdProofs` |
| `Systick` | systick.c, the counter | `MCSystick` | `SystickProofs` |
| `Lora` | sending, receiving and sleeping of lora.c, the radio, the GPIO interrupt | `MCRadio` | `LoraProofs` |
| `LoraConfig` | the settings of lora.c and the registers they share | `MCRadio` | `LoraProofs` |
| `Registers` | bit fields of 8-bit registers, for `LoraConfig` and `Rtc` | with those | |
| `Peripheral` | uart.c, adc.c, pdm.c | `MCDevices` | `PeripheralProofs` |
| `Rtc` | am1815.c, the clock, restarts | `MCDevices` | `DeviceProofs` |
| `Sensors` | the set-up and the samples of bme280.c, the chip, restarts | `MCDevices` | `DeviceProofs` |
| `Syscalls` | syscalls.c, syscalls/littlefs.c | `MCCli` | `CliProofs` |
| `Cli` | cli.c and syscalls/uart.c, over `Syscalls` | `MCCli` | `CliProofs` |
| `Main` | main.c over the ADC and the radio | itself | |

Operators whose comment begins with "Mutant" are slips that a property must
catch; no specification uses them.

`MCSd`, `MCRadio` and `MCDevices` each check several modules that share no
state: a variable `part`, chosen at the start, says which of them a behaviour is
one of, and the variables of the others keep their initial values.

**Spi.** Each call is one step, since calls do not interleave within; clients
do. The variables are the fields of the two tables, and behind them the IO
master: powered, its clock register, the state saved for waking up. `Next`
keeps what spi.h asks of clients: devices are returned before their bus, and a
bus is used and put to sleep while it is awake. `NextUnchecked` drops the
latter, as main.c does. A transfer is modelled by the clock it runs at and the
chip select it leaves, not by its bytes. The table that gives the HAL's number
of a chip select (spi.c:87-170) and those of the pins of a bus (spi.c:172-258)
are constants that no property speaks of: a device is its bus and chip select,
and the pins of a bus are connected or not.

**BlockDevice and Flash.** `Flash` has one step per SPI exchange: wait, write
enable, status, command, data. The chip completes its operation at any time
between. The refinement mapping reads the chip's pages as blocks and offsets
(`Disk`), its busy operation as the pending one (`Pending`). Whether the chip
clears the latch when an operation begins or when it ends is left open.

**SdCard.** One step per exchange or loop of reads. The card is described by
what sd_card.c sees of it: it accepts or refuses, answers after some bytes,
sends tokens or silence, and may be pulled out at any moment. A run is under
one set of adverse conditions: the card streams on when it is deselected
(`streams`), its output is stuck low (`low`), it answers later than the driver
listens (`slow`), the uptime is beyond 2^32 ms (`late`). Properties that need a
card without some of these say so.

**SdInit.** One step per command, with cards inserted and removed between any
two. An answer is what the driver tells apart: its R1, and whether the data
with it is as expected.

**Systick.** One step per read of a word of `jiffies` or of the counter, with
interrupts masked where the code masks them. The time unit is half a step of
the counter, so that burst mode is one unit a step and normal mode two. Mode
changes come at any moment. `systick_stop`, which nothing calls, is left out.

**Lora.** Register accesses in standby are one step; waiting is a look at the
pin, then a sleep, with the interrupt possible between. `LoraConfig` has the
registers as numbers, since fields and masks are the point; the arguments are any
bytes, as nothing checks them. A coding rate above 7 is ORed into the
bandwidth, bit by bit as the code does.

**Peripheral.** The three drivers are the same pattern with different details,
one module with a `Kind`. Initialising the ADC may end in three ways, as the
early returns of adc_init_channels do: with slots, without a handle, or with a
handle and no slots. A scan of the ADC puts one sample for each slot into the
queue, one at a time, and loses those there is no room for; `GetSample` takes as
many as it is asked for, from whatever scan they are. The microphone's buffer is
filled by DMA between the call that starts it and the handler that sets the
flag, and the power may be taken at any moment between.

A sleep is two steps, `Sleep` and `SleepEnd`, since interrupts come between:
uart_sleep turns the power off (uart.c:98) before it disables the interrupt
(uart.c:106), adc_sleep and pdm_sleep the other way round. While one is under
way (`sleeping`), or pdm_data_get, the program makes no other call; conversions,
DMA and handlers go on. A client puts to sleep only what is awake (`Call`): that is a promise of
the clients, as with `Spi`, since saving the state of a peripheral that is off
would lose what is saved. Taking, waking and returning disable the interrupt
first or enable it last, and stay one step.

**Rtc.** One step per register or block of registers, since the processor can
be restarted between any two; the clock ticks and the timer counts beside them.
Registers hold binary coded decimals as in the chip. Time and alarm are one
group of registers, the timer and the control registers another, and no call
uses both: a behaviour is about one group. Times are indices into a calendar, a
sequence of instants that follow each other; the module converts them to
registers and back as the code does.

**Sensors.** What a data register holds is told apart by its age: no
conversion, an earlier one, or one that the running call of
bme280_get_sample began. A restart takes the processor longer than a conversion takes the
sensor.

**Main.** Triggering, sampling, sending and sleeping, with the interrupt of the
ADC possible at any moment, if it is enabled. The state of the ADC after
adc_get_instance is that of `Peripheral`.

**Syscalls and Cli.** A slot of the file table holds a littlefs object, of
which the model keeps the name, the access and whether it is open. littlefs
(external) may refuse an open, and may fail in a close while it closes the
object. `Cli` composes with it: while a line is read the program makes no other
call.

## 3. Runs

| run | shows | bounds | states |
|---|---|---|---|
| `spi` | references, clock cache and power agree in every order of calls; transfers run at their device's clock | 2 clients, 1 bus, 2 chip selects, 4 clocks, 2 requests | 1,521 |
| `flash` | no operation is lost; driver and chip are the block device, liveness included | 2 blocks of 2 pages, one datum | 82,543 |
| `sd` | transfers that succeed are right; no stray write; transfers are ended; a success of the initialization means ready, slow until then; calls return | card of 2 blocks, calls of at most 2, 4 for 2^32, 2 ms for 100, 2 bytes for 7; 5 cards, one of each kind | 154,196 |
| `systick` | accurate, monotonic, bounded drift | period of 4 steps, words of 2 values, 3 ticks, 2 changes of mode | 5,597,577 |
| `radio` | intact packets, sends complete, waits end; settings are independent, but for coding rates above 7, and consistent as far as `SettingsConsistent` says | FIFO of 4 bytes, packets of 0 to 3, buffers of 0 to 2; extremes and a middle value of each setting, bandwidths and coding rates beyond their fields among them | 124,717 |
| `devices` | handlers, counts, pins, samples and buffers; the clock keeps what it is given; sensor samples are fresh and are returned | 2 borrowers, 3 peripherals, 2 ADC pins, queues of 2 and 3; 3 times, 7 timer periods, 2 pulses; the sensor in full | 346,295 |
| `console` | descriptors, known assertions, history of lines, lines returned | 2 slots, 2 names, ring of 4 as in the code, lines of 1 character, 1 waiting | 732,732 |
| `spi_asleep` | violation: see 6 | as `spi` | |
| `sd_select` | violation: see 6 | as `sd` | |
| `systick_time` | violation: see 6 | as `systick` | |
| `lora_wake` | violation: see 6 | as `radio` | |
| `main` | violation: see 6 | one client, one pin | |

Why the bounds are enough. Two clients and two devices give a last and a
not-last reference on both levels, and a clock that changes under another
device. The tables of the buses are indexed by bus and their entries share only
`spi_config`, which the second client of the one bus reaches as well; two buses
of two devices pass two million states without an end in five minutes, and are
left to the proofs, which hold for any number. Two blocks of two pages give an erase that covers several pages and an
address whose two parts can be confused. With 4 for 2^32, block numbers beyond
the card and sums that wrap are among the calls. A period of 4 steps with words
of two values brings a tick and a carry between any two steps of a reader. A
FIFO of 4 has a half that a packet can underfill, fill and overfill. A ring of
4 lines is that of the code and all its index values are visited; a line of one
character has an empty, a full and a cut form. A queue of three samples over
two pins holds a scan and a half, so that it fills in the middle of a scan. The
calendar crosses a minute, an hour, a day, a month and a year in one step, and
has a leap day; the periods are none, one for each unit of the timer, one of which no unit
divides, and three above 256 s, which the code programs in three ways.

Deadlock is checked in every passing run.

### Fairness

- `Flash`: the processor runs (`Driver`), and a chip completes what it began.
- `SdCard`: the processor runs, the timer ticks, a card ends its programming.
  `CallsReturn` excludes the line stuck low, on which the code does wait for ever.
- `SdInit` (also under `sd`): the processor runs. CMD41 is repeated while the card says it is
  idle, so that weak fairness of the driver as a whole does not by itself get a
  card out of it; the loop step changes nothing, and fairness of the driver
  then means that a card asked often enough becomes ready or silent.
- `Lora`: the processor runs and takes interrupts, and the radio ends a
  transmission or a single receive. `SpecTimer` adds interrupts of other
  devices again and again: a timer that triggers the ADC gives them. Without it
  a wait can miss its wakeup (`lora_wake`).
- `Cli`: a read of a character that is there returns.
- `Sensors`: the sensor ends a conversion, and the driver polls and reads.
- `Main`: the processor runs, the ADC converts while it is on, and the radio is
  found at last when lora_init is repeated. The run ends with a counterexample
  in spite of that fairness.

`Spi`, `Systick`, `Peripheral` and `Rtc` have no liveness properties and no
fairness.

## 4. What is proved

Every invariant and every action property that a passing run checks is also a
theorem, with a TLC run for a small instance and a proof for every value of the
constants. The proofs rest on the named assumptions of the modules: a non-empty
geometry, a ladder of clocks with a slowest one, a period of more than two
steps, finite sets of borrowers and pins, a FIFO of an even number of bytes and
packets of bytes that fit into it, settings in the ranges of their C types (`enum lora_lna_gain` for the gain), and a calendar of instants of which no two look the same in
the registers. TLC evaluates each of them in a run.

Three run modules hold several specifications side by side (`MCSd`,
`MCRadio`, `MCDevices`); there, type correctness is proved for the run's own
specification from the invariants of its parts (`SdTypesCorrect`,
`DevicesTypeCorrect`), and the rest for the part's specification.

**SpiProofs.** The inductive invariant has two parts. `RefInv` is the type
invariant, `ReferencesExact` (exact counts, no dangling pointer) and
`HoldersHoldBus` (who holds a device holds its bus). The last is needed where
the last reference to a bus goes and all its devices are cleared: that no
client loses a device follows only from it. The other part is `BusCoherent` (the
clock cache is the register's, what nobody holds is off), which needs clients
that use a bus, and put it to sleep, while it is awake. `RefInv` does not, so
`ReferencesSound` is proved without that promise too (`SpecUnchecked`), for
clients such as main.c. Lemmas about cardinalities relate a set of holders to a
count. `TransferClock` follows from coherence before the
step: skipping the configuration is sound because the cache is right, and
configuring an awake bus sets the register.

**FlashProofs.** The invariant says that from the wait to the command the chip
is idle (`QuietAfterWait`) and enabled (`LatchHeld`), and that the program
counter fits the call. From it, `NothingDropped`: the path on which the driver
gives up, and whose 0 the callbacks ignore, is never taken. `DeviceSafety` is
the refinement: each step maps to a step of `BlockDevice` or to none. It rests
on `AddrParts` and `PageParts`: block and offset are recovered from an address
by division. `CommittedKept` says what this means for littlefs, and follows from
the refinement alone: a page changes only by the operation in progress, and a
power loss damages no other; nothing is in progress that littlefs did not ask
for; a read returns what its page holds.

**SystickProofs.** Three arguments. `Clock` ties the elapsed time to jiffies,
the counter and an interrupt not taken; `Reading` says that a reader whose two
readings of jiffies agree has read the counter while jiffies had that value:
together `TimeAccurate` and, as calls do not overlap, `TimeMonotonic`, as long
as the timer has been in normal mode. `Account` is an amortized count of what
mode changes misjudge: each can add half a tick on one side, and one back
cannot add on the same side; so `Drift`.

**SdProofs**, transfers. For a card of any capacity, calls of any length and block
arithmetic that wraps at any width. `Phase` relates the program counter to the
operation and the blocks done. `Aimed` says that a card that receives in the
middle of a call does so for that call, at the block the driver has come to; it
holds under every adversity, also when a card was left receiving by an earlier
call, because that card then answers no command. From these two `NoStrayWrite`.
`InStep` says that an obedient card is ready when a call begins, and sends or
receives what the call is at; `Progress` that the blocks counted are delivered
or stored. So `TransfersAreExact`, and with the flag for several blocks
`TransfersEnd`. No property of `OutOfRange` is used: that a wrapping sum lets a
call through is harmless because the card refuses blocks it does not have.
`DeselectedIfHeard` is how much of the comment at sd_card.c:344 holds (section
6, `sd_select`): a call leaves the card selected only if its command was not
answered in the time the driver listens.

**SdProofs**, initialization. A card that answers in the middle of the sequence is the one
that CMD0 reset, since one put in later is in its native mode and silent. What
the earlier commands found out about it (`VoltsKnown`, `VersionKnown`) therefore
holds of the card in the slot, and a success means it is ready.

**LoraProofs.** `Receiving` says that while the radio may still hear a packet no
flag of an earlier one is up, and that a packet that is announced lies in the
FIFO from `rx_addr` on; `Sending` that the portion of the packet that fits lies
in the upper half, and has gone out once the radio says so. Both need the FIFO
as a ring: `FifoPlace`, `Put` and `Holds` are lemmas about places modulo its
size. So `ReceivesIntact` and `SendsBeforeReturn`, for packets of any bytes and
buffers of any length. For the settings the lemmas say what writing a field of
a register does to that field and to any other; `SettingsInv` adds that the two
detection registers follow the spreading factor, that PA_CONFIG is the value
computed from the power accepted last, which is in the range of its amplifier,
and that the header is explicit. What power the radio then sends with is
arithmetic over that range, with the differences that section 6 tells.
`FieldsAlwaysIndependent` says for any bytes which arguments disturb another
setting: a coding rate above 7, which adds to the bits of the bandwidth
(`BitOr`, `Includes`), and nothing else.

**PeripheralProofs.** For any finite sets of borrowers and pins, any length of
the queues and any outcome of initialising. `LiveHandle`: while the structure has a
handle, the handler of the ADC uses that one, although it is not cleared with
the structure. `OnlyOwn`: what is on has a handle, and only its own pins are
connected, so that a sleep disconnects them all. `SilentAsleep`: once adc_sleep or
pdm_sleep has begun, the interrupt is disabled until it ends; for uart_sleep
the invariant is only what `HandlersServed` states, that an interrupt between
its two halves finds nothing left to send, and it holds because no byte is
accepted or sent while the power is off (`BorrowSend`). The counts follow from a lemma
about cardinalities, as in `SpiProofs`; `BuffersWhole` from one conjunct for
each stage of a transfer.

`SamplesComplete` is about a queue that is appended to and cut while a scan is
under way, by callers that do not know where a scan begins. `ScanInv` says where:
there is a set of places, the first one and the end of the scan under way among
them, that are as far apart as there are slots, such that between two of them
lie samples of one scan and of different pins, and the samples that the last
block still waits for are those not read yet. A sample queued extends the last
block, a trigger appends an empty one, a call takes the first; that a block
holds every pin is then the pigeonhole principle (`BlockWhole`). It also needs
that the slots the driver believes in are those of the converter, or that the
converter has none and queues nothing (after an initialisation that failed).

**DeviceProofs**, clock. `RtcInv` states what the registers show (`ShowsTime`,
`HoldsAlarm`, by digits) and what each call that is under way has left in its
buffer and in the registers so far. Two of its parts carry the argument:
`TimeUnderWay`, since the clock ticks between the read and the write of
am1815_write_time, says that the bits above the digits are still those read;
`TimerUnderWay` says that the timer stays stopped from the first write on, so
that no count between two writes changes the value. A restart at any step keeps
it, as nothing in it speaks of a call that is gone. From it `AlwaysAsAsked`,
`TimerOfOneCall`, and, with a lemma for each call on the bits it writes,
`OtherFieldsKept`. `AlwaysAsAsked` covers every period: it has the timer at
`Held` and the answer at `Answered`, and `AnsweredAsHeld` says that these are the
same exactly up to 256 s and from 256 minutes on. The lemmas about digits (`ToBcd` and `FromBcd` undo each
other below 100) and fields (`With` and `Field`) are stated for all bytes.

**DeviceProofs**, sensor. The humidity setting reached the chip before the control
register is written, so a conversion includes all three quantities; and only a
call that polls has one running. After a restart the setting is written again,
and the conversion of the call that was broken off is over by then, which is
where the assumption about the length of a restart enters.

**CliProofs.** `FilesSound` is nearly inductive; it takes two additions: a slot
lost by a failed close has neither descriptor nor open object, and an object
has the access that its descriptor asked for. `HistoryRight` relates the ring
to the list of lines typed, for a ring of any size of two and more: `RingPlaces`
says that the slot of the next line is none of those in use, `LineInv` that
`start = end` only when no line was stored yet, and that the part of
the slot before the cursor is what was meant so far, backspaces applied.

Model-checked only: all liveness (`ImplementsDevice`, of which the proofs have
the safety part, `DeviceSteps`; `EveryCallReturns`, `DoneNoticed`, `LineReturned`, `SampleReturned`),
which needs fairness and ENABLED and is out of the prover's reach. The five
properties that are violated have counterexamples and nothing to prove.

## 5. Not modelled, and limits

Bytes of SPI transfers, CRC arithmetic, number formats, the frequency formula
of the radio, the compensation formulas of the sensors (floating point),
bmp280.c (which reads its registers one after the other and waits for nothing),
`_stat`, `_fstat` and `_gettimeofday`, output to the console beyond the UART
queue, the set-up of the ADC's timer (which nothing calls), `pdm_flush`,
`pcm_print`. `uart_write` is asked for while the UART is awake; reading from a
UART that sleeps is not modelled. An SD card is a specification of what the
driver expects; its electrical states are not. Each call of the SPI layer is
atomic: no interrupt handler of this repository uses SPI. A client of the ADC
asks for no more pins than there are slots. Two empty functions (power
control), the vendored uploader and the build files have nothing to model.

## 6. Disagreements met

Checked by a run that TLC ends with a counterexample:

- `spi_asleep`. spi.c:302 records the clock before am_hal_iom_configure, whose
  status is ignored. On a sleeping bus (main.c never enables its bus) the
  register is not written, and a later transfer runs faster than its device
  allows.
- `sd_select`. sd_card.c:321: sd_card_command_result returns with chip select
  low when its command gets no answer, which the comment at :344 says cannot be.
  sd_card_command returns so, as the run shows, and sd_card_read_blocks of
  several blocks by its closing CMD12 (:404); other reads, and writes, end in a
  toggle of their own (:409, :508).
- `systick_time`. In burst mode the counter runs through its range twice for
  each tick, and systick_time falls back by half a tick in the middle.
- `lora_wake`. lora.c:242: the pin may rise after it was looked at and before
  the sleep. Nothing wakes the processor then unless something else interrupts.
- `main`. main.c borrows the ADC, which leaves it asleep with its interrupt
  disabled, and never calls adc_enable: it triggers nothing and sleeps for good.

Met while modelling, visible in the models and checked by no run of their own:

- spi.c:286: a device that is already initialised keeps its clock, whatever a
  second borrower asks for.
- flash.c:83: flash_page_program and flash_sector_erase look at the latch and
  not at the busy bit; called without waiting first, they can return 1 for a
  command that the chip ignored. The littlefs callbacks wait.
- sd_card.c:386: a timed out wait returns the last byte; with the line stuck
  low that byte is 0, success, and a block of zeros has a valid CRC.
- sd_card.c:387: a read of several blocks that fails sends no CMD12; a card
  that streams on can then answer the next read with blocks of the old one.
- sd_card.c:315: after the discarded byte 7 bytes are looked at, where the
  comment at :311 has 8 for N_CR.
- sd_card.c:374: the start of a wait keeps 32 bits of a 64-bit time.
- sd_card.c:171 and :242: no size is stored for a card of version 1, a wrong
  one for standard capacity. sd_card.c:288: a card that refuses the voltage but
  echoes the pattern is accepted, the two tests being joined by `&&`.
- lora.c:255: a packet that fills its half of the FIFO is reported as 256
  bytes. lora.c:167: a receive that times out in the radio never returns.
  lora.c:298: lora_rx_amount is 0 after the packet has been read. lora.c:266:
  spreading factor 6 leaves the header explicit, where lora.h:209-211 says the
  driver changes to an implicit one (`HeaderExplicit`). lora.c:134: without the
  amplifier and from 0 dBm on, the largest power 7 is cut to two bits, and the
  radio sends 2.4 dB below what was asked for (`PowerAsAsked`). lora.c:418: a
  coding rate above 7 changes the bandwidth (`FieldsIndependent`).
- uart.c:98: the power is off before the interrupt is disabled (:106); the
  handler can run for a UART that is off, with nothing left to send
  (`HandlersServed`).
- adc.c:208: when initialising fails, the pins stay connected, and the borrower
  is counted; a second borrower's pins are ignored (adc.c:326). adc_get_sample
  with more pins than slots can find the queue empty, and loops for ever.
- main.c: the UART is written to and waited for, and the radio set up, without
  uart_enable or spi_bus_enable. With an ADC that is enabled, an interrupt
  between adc_get_sample and the sleep (main.c:197) would still be lost.
- pdm.c: the flag of the handler survives pdm_disable; pdm.h declares
  pdm_deinitialize, which is not defined, and speaks of 4096 bytes where the
  buffer has 8192.
- am1815.c:200: a period of 0, or too short, leaves the timer as it was, running
  or not, where am1815.h:151-152 has it disabled (`FieldsKept`). am1815.c:226 and
  :231: above 256 s and below 256 minutes the timer does not have the period that the call answers, against
  am1815.h:154-155: below 300 s it has the seconds beyond 256, or 256, and from 300 s on
  256 minutes, since `(1 / 60)` is 0 in integers (`Held`, `Answered`,
  `AnsweredAsHeld`). am1815.c:82-94: the alarm read is one byte longer than its buffer, and an alarm
  on 29 February is read back as 1 March, the year being 1900 (`AlarmBack`). The
  byte beyond the buffer gives a weekday, which mktime ignores; the model leaves it out.
- bmp280.c, bme280.c: a negative value of t_fine is converted to an unsigned
  integer, which is undefined; the sign of dig_H4 is lost. bmp280.c returns
  whatever the last conversion left.
- syscalls/rtc.c: `_gettimeofday` sets errno to the result, success included.
- syscalls/littlefs.c:136: a failed close leaves the slot in use for good, and
  a second close of it runs into an assertion of littlefs. :47: O_RDONLY with
  any other flag is opened without access.

## 7. Plan

Done, in this order: `Spi`, `BlockDevice` and `Flash`, `SdCard`, `SdInit`,
`Systick`, `Lora`, `LoraConfig`, `Peripheral`, `Syscalls` and `Cli`; the samples
of the ADC and the buffers of the microphone; `Rtc`, `Sensors` and `Main`; the
proofs of the safety properties of all of them.

Next, in the order of what matters most:

1. Theorems beyond the properties of the runs: under which use by its clients
   the claims of section 6 that fail do hold. Two are proved: `spi_asleep` with
   a bus that is awake (`TransferClock`), `sd_select` with a card that is heard
   (`DeselectedIfHeard`). `lora_wake` and `main` are not stated yet.
2. The second user of a bus while a card is in the middle of a transfer: `Spi`
   and `SdCard` composed.
3. A receive that times out in the radio (lora.c:167), on which the code waits
   for ever, as a run of its own.
