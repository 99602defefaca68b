# Verification of emu8051

TLA+ models of the 8051 emulator in `src/`: its CPU engine, instruction set,
timers, serial port and loader, the simulation library around them and the
device models of the HC6800-ES board.  They are checked with TLC on small
instances, and the main results about the engine, the instruction set, the
timers, the serial port, the loader, the step loops, the bus registry, the pins, the
plugin host, the board and all its devices are proved with TLAPS for every value of
the constants.  Section 1 is the inventory of the system, 2 the models and what the
checks show, 3 the proofs, 4 what is not modelled, 5 what is left.

## 1. The system

The emulator is a deterministic machine driven by calls.  `core.c` and
`opcodes.c` hold the CPU; one call of `tick()` is one machine cycle.  `sim/`
wraps it into a library: a bus that fans SFR accesses out to subscribers, a
plugin host that hooks the loop, a C interface (`capi.c`) for the host program,
and models of the devices on an HC6800-ES board.  Nothing runs in parallel; what
makes the code hard is *order*: interrupts against instructions, timer flags
against the firmware and the serial port, callbacks that re-enter the code that
called them, host calls that fall between two ticks, and state that outlives a
reset.

| part | state | operations | interacts with | what must hold |
|---|---|---|---|---|
| CPU engine (`core.c`, stack and returns of `opcodes.c`) | `mPC`, SP and RAM, `mTickDelay`, `mInterruptActive`, snapshots `int_a/int_psw/int_sp`, IE, IP, TCON flags, PCON | `tick`, `handle_interrupts`, `reset`, calls, returns, pushes, pops | timers raise its requests; host resets it | two-level nesting; most urgent first; bounded latency; RETI reports and returns right |
| Timers (`timer_tick`) | TL/TH 0 and 1, TMOD, TR and TF bits | one count per cycle, every register write, interrupt entry | set TF0/TF1, clock the serial port | a flag rises on the tick its mode says, no overflow lost or doubled |
| Serial port (`serial_tx`, `capi.c`) | SBUF, bits remaining, P3.1, TI, `serial_out` and its index; host's count, last index, origin | SBUF write, clocked bit, injection, CPU reset, `sim_reset`, read back | clocked by timer 1, counted after each tick | the host reads what was sent, once, in order; transmissions end |
| Instruction set (`opcodes.c`) | ACC, B, PSW, DPTR, RAM, SFRs, PC | 256 opcodes, the handlers `op_setptrs` installs | bus callbacks on SFR access | results and flags agree with arithmetic; latch or pin where each is due; edges of memory |
| Disassembler (`disasm.c`) | none | one decoder per opcode | the curses front end shows it | the listing advances as the CPU does, and tells instructions apart |
| HEX loader (`load_obj`) | code memory | load | host | an accepted file is in memory, whole |
| SFR bus (`bus.c`) | subscription tables, registry of simulations, last one found | subscribe, trampolines, create, destroy | every device and plugin | an access reaches its own simulation's subscribers, in order |
| Pins (`capi.c`, `pin.h`, `plugin.c`) | latches, stimulus, drives, watches with the level each was told | write, drive, release, level, watch, both resets | bus, plugins | a watcher's last report is the level; the CPU reads the level |
| Step loops (`sim_step`, `sim_step_instructions`, `plugin_step`) | mode, instruction, tick, clock and device-clock counters | tick mode, hooked loop, instruction mode, switch in mid-call | tick, hooks, devices | one post-tick per 12 clocks in every mode; jumps charged; calls return |
| Plugin host (`plugin.c`) | slots, names, opcode overrides, MOVX ranges, exception filters, log | attach, init that fails, install, reset, close | all of the above | every call finds its owner; what a failed init left is harmless |
| IAP controller (`iap.c`) | enable, command, address, trigger phase, pending reset | register writes, tick hook | CPU reset, code memory | flash changes only by a whole trigger, as NOR flash does |
| ENC28J60 (`enc28j60.c`) | SPI phase, banked registers, buffer, pointers, packet count | SPI bits, host injection, transmit log, both resets | pins | frames arrive whole and in order; what is sent is captured |
| HD44780 (`hd44780.c`) | nibble phase, address, mode, busy time, both memories | E edges, ticks, reset | pins | phases stay in step; polled writes are neither lost nor doubled |
| DS1302 (`ds1302.c`) | CE, bit count, command, register file, tick count | port writes, ticks | pins | whole writes only; bytes read untorn; the calendar |
| XPT2046 (`xpt2046.c`) | control byte, bits out, channel readings | port writes, readings set by the test | pins | a reading is one reading |
| Fan, servo (`fan.c`, `servo.c`) | last edges, high time, period, tachometer | port writes, ticks | pins | times are those between edges |
| Digit display (`hc573.c`, `hc138.c`, `digit_display.c`) | latch, sampled digits | port writes | pins, bus order | a digit shows what was latched while it was selected |
| Board plugin (`hc6800_es_plugin.c`) | devices enabled, their hooks | enabling methods, tick hooks, reset | host's hook table, devices | a device is stepped once per tick |
| Curses front end, Python bindings | screens; handles | keys; calls of `capi.h` | all of the above | - |

The hazards this gives, each at its line, are in `PROJECT.json` with the
properties that watch them.

## 2. The models

### NestedService, Core, MCCore

`NestedService` is what a two-level interrupt system promises, over one
variable: the stack of the levels in service.  `Core` is the engine.  Its actions
are the paths through `tick()`: `Burn` (a cycle of an instruction in
progress), `PowerDown`, `EnterInterrupt`, `Idle` and the instruction classes;
`Reset` and `InjectRx` are host calls between ticks.  Every action that runs
`timer_tick()` ends in `TimerTick`, which may raise any timer or serial request
and, as a serial bit consumes it, clear TF1.

Firmware is arbitrary.  A class contains every instruction with the same effect
on the engine, with any of the costs its handlers return, and operands are
existentially quantified: `Run` stands for arithmetic, moves and branches;
`Store` and `SetSP` for any instruction that writes RAM or SP (moves, exchanges,
read-modify-write, branches like DJNZ); `WriteIE`, `WriteIP`, `WriteTCON` and
`WritePCON` likewise; `Push`, `Pop`, `Call`, `Ret`, `Reti` are the stack's.
A POP into IE, IP, TCON or PCON is the one combination left out.  ACC and the
PSW bits that RETI compares are one value, `ctx`, and the exceptions for them one,
`IRET_CONTEXT`.  External interrupt flags only change by writes to TCON: no code
connects them to a pin.

History variables (`served`, `executed`, `frames`, `waited`) record what the
properties need and no action reads them, except to update them.

* **core_urgency** - all five requests, every IP value, EA on and off, both sleep
  modes, costs 1, 2 and 4 cycles, a two-byte RAM (the stack's contents do not
  matter here).  `ImplementsNesting`: `Core` implements `NestedService` under
  the mapping `services <- Levels`.  `ServesMostUrgent`: the result of the polling
  chain is the one defined by priority and polling rank.  `BoundedLatency`: a
  request that could be served waits at most three ticks.  That bound is a safety
  property and stronger than "eventually"; it needs no fairness.
* **core_stack** - two requests of different priority on five bytes of RAM, which
  two nested services fill exactly, with SP ranging over ten values: any further
  push runs off the end, and SP wraps.  Four addresses of two one-bit bytes tell a
  swapped address from a right one; `MaxPC` leaves three of them.  At most
  `MaxStackOps` steps other than RETI move the stack, enough for two entries and one
  interference.  `RetiReportsItsOwnImbalance`, `ReturnsWhereInterrupted`: a handler
  that stayed in its part of the stack returns where it interrupted.  A handler
  that popped below its frame, was overwritten or met a stack exception is marked
  `dirty` and exempt.  Handlers return by RETI, by RET, which pops and leaves the
  level active, or not at all; `ActiveEncodesServices`: through all of these
  `mInterruptActive` is exactly the levels in service.

`emu8051.h:104` says `tick()` 'returns "true" if a new operation was executed'; in `Core`, as in the
code, idle and power-down cycles set `ticked` as well.

### Timers, MCTimers

`timer_tick()` after each instruction's effect on the timer registers: `Chain`
is modes 0 and 1, `AutoReload` mode 2, `Split` timer 0's mode 3.  GATE and C/T
stop a timer (counting pins and gating are TODO in the code), so `run0` and `run1`
stand for TR and not GATE and not C/T.  The history variable `left` is set from
what the mode *means*, the number of ticks to overflow, at every write to a timer
register, and counts down; the code's carries are compared with it.

* **timers_overflow** - bytes of four values, two of which mode 0 counts: each mode
  overflows within sixteen ticks, all TL/TH values and every write in mid-count are
  covered.  `PairedModes` is nine pairs of modes: timer 0's mode 3, the only one that
  timer 1's code tests, with every mode of timer 1, and each other mode with its equal
  and with mode 2.
* **timers_bitclock** (violation) - `core.c:297` and `sim/README.md:528` say that an
  overflow of timer 1 clocks a serial bit.  The code tests TF1, which TH0 owns when
  timer 0 is in mode 3: TH0 then clocks bits.

### Serial, MCSerial

One `Step` is one `tick()`: an instruction, then a bit if one is clocked, then the
host's `sim_post_tick()`.  `InjectRx`, `CpuReset` (a software reset) and `SimReset`
come between ticks.  `asked` and `garbled` record the bytes the firmware had sent
since the host's last reset and those that a received byte landed on while they were
being sent (the port has one SBUF).

* **serial_host** - two-bit bytes, a ring of three slots and up to four bytes between
  resets, so that the ring wraps and a slot is reused.  `HostReadsWhatWasSent`:
  count and contents are right across wraps, restarts, injections and both resets,
  which keep the core's ring position.  `SentAfterAllBits`; `EveryByteEnds` under
  `WF_vars(Step(TRUE))`.  That fairness says the host keeps calling `sim_step` and timer 1
  keeps overflowing with SM1 set, which is how firmware sets the port up before
  it sends; without either the code rightly never finishes a byte.
* **serial_pin** (violation) - the comment at `core.c:43` says P3.1 follows the bit
  clocked out; `core.c:42` converts the whole shifted byte to `bool`, so P3.1 stays
  high until the byte's highest 1 bit has gone.

### Isa, Disasm, MCIsa

`Isa` has the handlers that `op_setptrs()` installs, grouped where the code has one
handler per operand kind of the same operation: an action is guarded by its opcodes,
reads its operands where and in the order the handlers do, and leaves flags, registers
and PC.  Bytes are real bytes.  Reads of an SFR as a source go through the bus (the
pins), read-modify-write instructions take the latch: which is which follows the code
handler by handler, and there it differs from the data sheet (INC, DEC, ORL, ANL and
XRL with an immediate, XCH and DJNZ on a direct address read the pins).  Stack
operations repeat what Core has on one-byte values, here with real addresses.
`IsaSpec` runs any program from any memory; the five properties of single instructions
are action properties of it, which the theorems of section 3 prove and the run checks
along its programs.

`Disasm` is the disassembler's listing of every opcode, with numbers and names left
abstract, and `OpLen`, `CondRel` the plugin host's own tables.  `MCIsa` is a set of
programs, each at origins that make it straddle a 2K page or the end of the address
space, on sampled operands (0, 1, 9, 15, 16, 100, 127, 128, 144, 240, 254, 255: both
sides of every carry), run to its end.

* **isa** - `DecimalAddition`: DA A after the addition of two packed decimals;
  `FlagsTellTheSum` for ADD, ADDC, SUBB in every addressing mode; `ProgramsCompute`: whole
  programs reach what they are written for: all sums of two numbers below 100, compare and
  branch, counted loops, Boolean expressions, bits of a driven port, instructions that undo
  one another, calls and returns; `LatchKeepsOtherBits`: a bit instruction keeps the other
  bits of the latch, those of pins that are driven low too, and the port's subscriber
  knows the latch; `HostFollows` and `ListingFollows`: after each step the PC
  is where the host's table and the listing put it, and no two opcodes have the same line.

### Bus, Pins, StepLoop, PluginHost, HexLoad, MCHost

The five share no state that the models keep, so one run has them side by side and its
behaviours run one of them each: `part`, chosen at the start, says which.

* `Bus` - simulations open at addresses that are used again, close in any order; the
  registry grows by doubling from `FirstCap`, look-ups cache the last bus found.
* `Pins` - the host's notification is a loop over watchers that calls plugins, and these
  may drive a pin or install a watch, which starts the loop again inside: its frames are
  the variable `calls`.
* `StepLoop` - `sim_step` and `sim_step_instructions`; begin hooks wait any time including
  zero, any hook may switch to instruction mode inside any loop, conditional jumps with
  offset 0 run with the operand patched.
* `PluginHost` - an init is two steps with installs between; opcode overrides, MOVX
  ranges, exception filters and the log, `sim_reset`, and the reverse-order close during
  which plugins are still called.
* `HexLoad` - files made from two programs, one of which overwrites a byte of its own, whole,
  with one byte altered anywhere, or cut anywhere, loaded one after the other into the same
  memory.

**host_runtime** checks `AccessesFindTheirBus`, `WatchersKnowTheLevel`, `CpuReadsThePin`,
`TicksFollowClocks`, `JumpsAreCharged`, `StepInstructionsEnd`, `CallsFindTheirOwner` (names,
MOVX ranges, opcodes and the order of destruction) and `LoadTellsTheTruth`.  Bounds: three
addresses and five opens (the registry grows past its first two sizes, and addresses are
used twice); three pins on two ports, one stimulus, two watches, three changes (a full
stimulus table, a watcher that changes what another has still to be told); calls that start
below `MaxClocks` and at most two ticks each, so that a switch falls into every loop; three
plugins that ask for one name, for its numbered form outright, or for none; two loads.
`MaxRun` is reached only by a loop that would never end.  Of HEX files, an altered length
or type is exempt: the code leaves on a type of 1 without looking at the checksum, so a
data record altered to that type ends the load with 0.

Fairness: `StepFairness` is `WF` of the loop's own step inside a call.  It says that the
thread which called `sim_step_instructions` keeps running, nothing about hooks or host;
with it `StepInstructionsEnd` holds because of the budget of steps.  `sim_step` has none, and
with a hook that always waits zero clocks it does not return in instruction mode.

**pins_reset** (violation) - `plugin.h:233` promises a call "whenever pin_level() of that
pin changes: by a write to the port, a drive or a reset"; a software reset
(`plugin.c:88`) writes the ports and notifies nobody.  `WatchersKnowTheLevel` exempts just
those pins.

### Devices and board: Hd44780, Ds1302, Iap, Xpt2046, Pwm, DigitDisplay, Enc28j60, Hc6800Es, MCBoard

Each is the device's code on its pins with the firmware a data sheet prescribes, from
any state the firmware may meet: transfers dropped at any bit, resets of both kinds (a
software reset throws the ports high and leaves the device where it was), a host that
injects or sets readings at any moment.  What the firmware or the data sheet means is a
history variable computed apart from the device's registers: an atomic display, a book of
complete writes, a count of days, the frames accepted.  The atomic display and the book
apply a whole byte with the operator the device uses, so that what a byte does is stated
once more and apart from it: `ShowsWhatWasSent` also demands of each byte its own mark
(`LeavesItsMark`), and `CalendarCounts` of each second a second (`ASecondLater`).  The devices share no state;
`device`, chosen at the start, says which one a behaviour runs.

**board_devices** checks

| module | properties | bounds |
|---|---|---|
| `Hd44780` | `NibblesInStep`, `ShowsWhatWasSent` | three bytes from a set with a clear, a return home, an entry mode that shifts the display, a display shift, a cursor move, a CGRAM and a DDRAM address, and data; busy times of 1 and 2 |
| `Ds1302` | `WritesAreWhole`, `ReadsAreWhole`, `CalendarCounts` | two transactions of single, burst and protected commands with a second passing inside; separately, every month of five years, at the ends of minutes, hours, days, weeks and months, and register files that are no date (seconds, minutes and hours beyond their range or with twelve-hour bits, month 0 and 19, date 0 and 99) |
| `Iap` | `FlashObeysTheTrigger` | sectors of two bytes, a region of four, addresses on both sides of each bound |
| `Xpt2046` | `ReadingIsWhole` | both resolutions, three readings, one change in mid-frame, two frames |
| `Pwm` | `PulsesAreTimed` | seven ticks, 3 us each, of which the servo's counter holds 9 |
| `DigitDisplay` | `DigitsShowTheGlass` | two digits, three patterns, the three ports written in any order |
| `Enc28j60` | `ReceivesInOrder`, `TransmitsWhole` | a 24-byte ring that three frames wrap, a one-packet counter, one log entry, one restart |
| `Hc6800Es` | `DevicesTickOnce` | three timed devices, one of which may fail to be created, a table of four hooks shared with other plugins, two ticks |

The driver of `Enc28j60` is a program of SPI transactions (`Setup`, `Poll`, `Receive`,
`Release`, `Transmit`) clocked in bit by bit; `unread` holds the frames accepted and not yet
taken off the count, each with its place in the stream of all bytes laid in the ring
(`wire.laid`).  The two bytes of ERXRDPT are written in two transactions, and a frame may
arrive between them: `InjectRx` then computes the free space from one new byte and one
old one.  `wire.torn` records that a frame was accepted in such a moment, and
`ReceivesInOrder` promises the bytes only while none was.  The space in use is computed as
in C: the remainder of a dividend that a half-written pointer can make negative truncates
towards zero (`CRemainder`), and the result wraps at sixteen bits (`Word`).

**enc_torn** (violation) - `test_enc28j60_net.py:1014` says of the model's overflow that it
"drops the frame and leaves the pointers alone" and so does not corrupt the chain of packets
by itself.  With a ring of more than `LowSize` bytes (`MCEnc`: forty bytes, halves of sixteen
values) a frame injected between the two bytes of ERXRDPT is accepted over one that the
driver has not read, and `ChainIsWhole` fails.

**xpt_reading** (violation) - `xpt2046.h:9` says the reading comes out "MSB first, updated
on CLK falling edges"; the first bit is out on the rising edge before, and gone at the first
falling edge.

Each property of a passing run has a mutant in `PROJECT.json`: an operator next to
the definition it spoils, such as an entry that overwrites `mInterruptActive`, a polling
chain in which a low source displaces an earlier one, a carry from the wrong bits of TL,
a `sim_reset` that assumes slot 0, a destroy that leaves the cached bus, or a fan
that hears falling edges.  The runs that say CHECK_DEADLOCK FALSE end where a program, a
closed simulation or a bound ends them.

## 3. What is proved

All theorems are for every value of the constants that satisfies the module's ASSUME: any
RAM size, byte width, vectors, firmware and costs of the engine, timers of any two byte
sizes, a serial ring of any length and bytes of any width, ticks of any number of clocks,
any set of simulations, pins, watches, plugins and devices, any program, any busy times
and segments, any commands, dates and readings, HEX files of any records, any receive ring,
buffer, frames and filter.  `Numbers` holds the facts about quotients
and remainders that the counters, the ring and the program counter share.

| module | theorem | statement |
|---|---|---|
| `CoreProofs` | `TypeCorrect` | `Spec => []TypeOK` |
| | `ServiceCorrect` | `Spec => [](TypeOK /\ ServiceInv)` |
| | `ActiveFaithful` | `Spec => []ActiveEncodesServices` |
| | `LatencyBounded` | `Spec => []BoundedLatency` |
| | `MostUrgentServed` | `Spec => ServesMostUrgent` |
| | `RetiReports` | `Spec => RetiReportsItsOwnImbalance` |
| | `CoreImplementsNesting` | `Spec => ImplementsNesting` |
| | `AddressesHeld` | `Spec => []FramesHeld` |
| | `ReturnsRight` | `Spec => ReturnsWhereInterrupted` |
| `IsaProofs` | `IsaInvariant` | `IsaSpec => []IsaInv` |
| | `FlagsTold`, `DecimalsAdded` | `IsaSpec => FlagsTellTheSum`, `IsaSpec => DecimalAddition` |
| | `LatchKept`, `FollowedByHost` | `IsaSpec => LatchKeepsOtherBits`, `IsaSpec => HostFollows` |
| | `ListingAgrees` | `IsaSpec => ListingFollows` |
| `TimersProofs` | `TimersInvariant` | `Spec => []TimersInv` |
| | `TimersTypes` | `Spec => []TypeOK` |
| | `Timer0Timely`, `Timer1Timely` | `Spec => Timer0OnTime`, `Spec => Timer1OnTime` |
| `SerialProofs` | `SerialInvariant` | `Spec => []SerialInv` |
| | `SerialTypes`, `HostReads` | `Spec => []TypeOK`, `Spec => []HostReadsWhatWasSent` |
| | `SentOnTime` | `Spec => SentAfterAllBits` |
| `HostProofs` | `BusInvariant` | `BusSpec => []BusInv` |
| | `BusFound` | `BusSpec => []AccessesFindTheirBus` |
| | `PinsInvariant` | `PinsSpec => []PinsInv` |
| | `WatchersTold`, `PinReadAsTold` | `PinsSpec => []WatchersKnowTheLevel`, `PinsSpec => []CpuReadsThePin` |
| | `HostInvariant` | `HostSpec => []HostInv` |
| | `OwnersFound` | `HostSpec => []CallsFindTheirOwner` |
| | `HexInvariant` | `HexSpec => []HexInv` |
| | `LoadTrue` | `HexSpec => []LoadTellsTheTruth` |
| | `StepInvariant` | `StepSpec => []StepInv` |
| | `TicksAgree`, `JumpsCharged` | `StepSpec => []TicksFollowClocks`, `StepSpec => JumpsAreCharged` |
| `DeviceProofs` | `BoardInvariant` | `BoardSpec => []BoardInv` |
| | `TickedOnce` | `BoardSpec => []DevicesTickOnce` |
| | `DisplayInvariant`, `DigitsRight` | `DisplaySpec => []DisplayInv`, `DisplaySpec => []DigitsShowTheGlass` |
| | `IapInvariant`, `FlashGuarded` | `IapSpec => []IapInv`, `IapSpec => FlashObeysTheTrigger` |
| | `PwmInvariant`, `PulsesTimed` | `PwmSpec => []PwmInv`, `PwmSpec => []PulsesAreTimed` |
| | `LcdInvariant` | `LcdSpec => []LcdInv` |
| | `NibblesAgree`, `BytesShown` | `LcdSpec => []NibblesInStep`, `LcdSpec => ShowsWhatWasSent` |
| | `RtcInvariant` | `RtcSpec => []RtcInv` |
| | `WritesWhole`, `ReadsWhole` | `RtcSpec => []WritesAreWhole`, `RtcSpec => ReadsAreWhole` |
| | `CalendarRight` | `RtcSpec => CalendarCounts` |
| | `XptInvariant`, `ReadingsWhole` | `XptSpec => []XptInv`, `XptSpec => ReadingIsWhole` |
| `EncProofs` | `EncInvariant` | `EncSpec => []EncInv` |
| | `ReceivedInOrder` | `EncSpec => []ReceivesInOrder` |
| | `ChainStaysWhole` | `EncSpec => [](Up /\ ~wire.torn => ChainIsWhole)` |
| | `TransmittedWhole` | `EncSpec => []TransmitsWhole` |

**Core.**  `ActiveEncodesServices` alone is not inductive for what RETI needs: `ServiceInv`
adds that each service in progress has its own level's snapshot, `saved[level].sp` being
the SP its frame records.  An entry writes the snapshot of a level that no service in
progress has (`Accepted` says so), and RETI of the innermost service reads the
snapshot of its own level, so the report is about the right handler.  The latency
bound is not inductive either: `LatencyInv` says that whatever time a request has waited
plus the delay left is at most three.  `TakeableIsAccepted` links the definition of a
servable request, which speaks of priorities and services, with what the polling chain accepts;
`ChoiceIsMostUrgent` unrolls the chain once, one lemma (`PollStep`) per poll.  The
refinement is a step per action: `EntryBegins` and `RetiEnds` for those that change
the levels, a stutter for all others.  That a handler returns where it interrupted needs
the stack's contents: `FramesHeld` says that while a service is not `dirty`, its return
address stands in the two cells below the SP of its entry and SP has not gone below them.
A push that meets no fault lies above everything held (`PushedAbove`), a store or a pop
into the frame makes the service dirty in the same step, and RETI of a clean service
without imbalance therefore pops what the entry pushed.

**Instructions.**  A byte is the sum of its bits' weights (`SpeltBits`, `BitsSpell`), so setting
one bit leaves the other seven (`SetBitIs`); everything said of flags rests on that, as
`tick()` sets the parity bit after every instruction.  `IsaInv` keeps bytes bytes, where
the handlers cut or wrap them one by one, and the subscriber informed.  The overflow flag
is computed from two carries; `SignedSum` shows that they differ exactly when the signed
sum is out of range.  `DecimalIs` follows the two adjustments of DA A through every pair of
digit sums and carries.  `Guards` lists the opcodes of each action and `Lengths` those of
the host's table, and `StraightOn` compares them action by action.  The listing is compared with
that same table row by row (`Lines0` to `Lines15`, `Listed`).  That no two opcodes share a line
is shown by going back: `NumberOf` finds the opcode from the words of its line and the register
or page beside them (`OneLineEach`).

**Timers.**  `TimersInv` says that the ticks each counter has to go, counted down since
software last set it up, are those its registers spell out in their present mode
(`left = Spans(reg)`).  Without it nothing relates a carry to a count.  `ChainCounts` is the
heart: splitting TL into its low part and the rest, the two digits roll over together exactly
when one tick is left, which needs that the low part's size divides a byte (`LowPart`).

**Serial.**  `SerialInv` ties three things that change at different moments: the
transmitter's index, the host's count and the bytes sent.  The next byte goes to slot
`(origin + count) mod Ring`, which is the core's index and the host's last one; bits clocked
and bits remaining add up to a byte; and each of the last `Ring` bytes is in its slot.
Completing a byte overwrites the slot of one that is out of reach, because counts
less than a ring apart have different slots (`SlotsDiffer`).

**Bus.**  `BusInv`: the registry holds every allocated bus and no freed one, what is
cached is allocated, and no two allocated buses are of one CPU.  The look-up by address is
right only because of the last part, which `Open` keeps as memory is given out only when
free.

**Pins.**  During a notification a watcher need not know its pin's level yet, and the
call that would tell it may be several frames down.  `WatchesDue`: every watch that does not
know the level of its pin is still ahead of the loop of some frame (`Due`).  A drive from
inside a call adds a frame that looks at all watches of the register it changed; a frame is
popped only when its loop is past the last.  With no frame left nobody is due, so everybody
knows.  `OneEntry` and `EntriesAreRead` say that a pin has one stimulus entry and that its
register is read through it.

**Plugin host.**  `SlotsInv`: a plugin is kept exactly when it has a name, and no two kept
plugins share one, also when a plugin asks for a numbered name outright; a free number always
exists since there are more numbers tried than slots (pigeonhole over `Numbered`, which is
injective).  `NamesInv`: what the host reports as names is the names of the kept plugins with
their slots.  `RangesInv`: the handler of an address is that of the last installed range that
holds it, or the core's own if none does.  `CloseInv`: destroyed so far are the kept
plugins above where the loop stands, in descending order.

**Loader.**  A file's text and its checksums are defined by recursion over its records and
bytes.  `Recursion` and `SameRecursion` (in `Numbers`) show that what such a definition chooses
is the one function with its equations; `Sums` and `Chunks` are those of the checksum and the text,
and from their steps follow where each record lies (`RecordsLie`) and that one byte altered moves the
sum by as much (`OneOff`).  `HexInv`: in a file whose lengths and types are right, the loader
stands at the start of a record, and the records before it are in code memory, where they
overlap the later over the earlier.  From there a record that is whole is stored and passed
(`ReadsRecord`), one with a byte altered is refused, since sums that differ by less than 256 need
different bytes to complete them (`AlteredRecord`), and one cut short finds no record after it
(`EndlessRecord`), whatever zeros the reads past the end of the file deliver (`CutStep`).

**Board.**  `BoardInv`: a timed device that exists has its hook in the table exactly once
(`HookedOnce`), however often its creation failed or was repeated, and within a tick it is one step behind
exactly while its hook is still to run.

**Devices.**  `DisplayInv`: the latch is transparent only while LE is high and holds what an
ideal one would (`LatchInStep`); the digit display hears a port after the latch, so what it
samples is the new output.  `IapInv`: the first trigger byte stands in `last` only if it was
the last byte written to TRIG; a second byte arms the command only then.  `PwmInv`: the
counts since the last rising edge, the high time and the period belong to the edges
recorded.  `LcdInv`: a reset leaves the display in either width and either half, and each
pulse of the initialisation narrows what it can be waiting for until nothing is open
(`Knocking`); after that, `Polling`, `Writing` and `ReadingBack` say for each pulse still to
come which half the display has and that its memories are those of an atomic display.
`LcdAssumption` excludes function sets with DL=1, since the board wires four data lines.

`RtcInv`: after any number of clocks since CE rose, the chip's shift register, bit counter and
burst index are what the bits sent make them (`Low` is the byte's part clocked in so far), and
the registers agree with the book of complete writes.  The bit the chip samples and the
moment it acts on it differ by half a clock; `Late` names the bit in between.  `held` is the
set of values each register has had since CE rose: a byte being read is one of them whatever
the seconds do meanwhile.  From any register file, a date or not, a second adds one to the
time of day or ends the day, and brings a field that is out of range down
(`SecondLater`); it rests on what BCD makes of any number below 160 (`BcdBack`).  From a
date, the calendar is also compared with a count of days that knows no months
(`DayNumber`): `FirstOfMonth` and `NewYear` show for each month and year that the day
after its last one is the next in that count.  `XptInv`: in the control byte the controller holds the bits
clocked, highest first (`First`); after it, the reading it shifts from is the one the channel
had when the control byte ended, and the output bit, the counter and the bits seen so far fit
the number of clocks.  Neither says anything of how the frame before ended: a raised CE or CS
puts back all that the next frame uses, and that is what the proofs show.

**Steps.**  Clocks and ticks agree only between calls: the plain loop counts both when it is
over.  `StepInv` therefore compares them up to `Behind`, the ticks that loop has run and not
counted, and says for each kind of loop how far it is with what was asked (`UnderWay`).
A switch in the middle of a loop keeps both, since the clocks so far are whole ticks.
`JumpsCharged` rests on arithmetic modulo the program counter's range: an offset
smaller than that range and not zero never lands on the next instruction, so where a jump lands tells whether it was taken;
zero is the case the patched operand is for.

**Ethernet controller.**  None of its properties is inductive: what a byte read is depends on
pointers, registers and a protocol dozens of bits long.  `EncInv` has a part for each.
`InStep`: chip and driver agree on the bit and byte under way and on the command.
`Configured`: each register holds what the driver has written so far (`Done` counts the
transactions whose effect has come).  `Counted`: EPKTCNT never exceeds the unread frames, nor
does the value a poll has read and not yet acted on (`Promised`).  `InOrder` is the ring:
`Queued` says that each unread frame begins where the one before ends and is in the buffer
byte for byte, `Roomy` that the chip's write pointer is the place of `wire.laid`, that ERXRDPT is
one behind the bytes not freed, and that less than a ring full is not freed; `Reading` that
the bytes read so far are those of the first frame.  From `Roomy` follows that the subtraction
around the ring's end (`AroundTheEnd`) gives the space in use exactly (`RoomIs`); the bytes an arrival
lays are then at places no unfreed byte has (`PlacesDiffer`, `PlacesFollow`).  With one byte of ERXRDPT
written the pointer is neither the old nor the new one; the hypothesis `~ wire.torn` is there
for that case alone, and enc_torn shows that it is needed.  `Bounded` (no transaction runs past its last
byte) is what tells a half-written pointer from a whole one.  A reset cuts a transaction
off anywhere and leaves the chip as it was; the driver's soft reset command then empties the
ring, so `InOrder` says nothing until `Up`.  `EncAssumption` asks that the ring, the driver's
frames and their terminator fit the buffer, as a driver has to lay them out;
`WordAssumption` that the buffer and one frame together stay below the sixteen bits the room
is computed in, as the chip's 8192 bytes do.  With a whole pointer the dividend is positive
and nothing wraps, so the C arithmetic gives the space in use.
`Sending` and `Captured` are the same for transmission: the frame is in the buffer as far as
it was copied, and the log holds the last `TxLog` frames, each under its index.

Only model-checked: `ProgramsCompute`, which is about whole programs, each run to its end; and
the two liveness properties, `EveryByteEnds` and `StepInstructionsEnd`, which the prover cannot
reach.

## 4. Not modelled

The curses front end (`emu.c`, `mainview.c`, `logicboard.c`, `memeditor.c`, `options.c`,
`popups.c`) and the Python bindings and GUI: input and output over the same calls, with no
state of the machine of their own.  The tests and the build.

In the modelled parts:

* engine: Timer 2 (never compiled: `__8052__` is not defined), POP into IE, IP, TCON or
  PCON; `do_op()` of `opcodes.c`, a second dispatch that nothing calls;
* serial port: the receiver's RI bit and the bulk readers of `capi.h`; `Core` lets SR rise
  at any time instead of composing with `Serial`;
* bus: buses that forward to another, and the limit of sixteen subscribers of a register;
* plugin host: services by name and version, names over 36 characters, the dynamic loader;
* loader: addresses past the end of code memory;
* disassembler: the spelling of numbers and names;
* board: marshalling of the methods' arguments and of what they read back.

## 5. What is left

`Serial` composed with `Core`: the SR request from TI and ES.

Runs are kept few: one per question, twelve in all.
