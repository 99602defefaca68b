------------------------------- MODULE Ds1302 -------------------------------
(***************************************************************************)
(* The clock chip of devices/ds1302.c: its three-wire protocol with real   *)
(* eight-bit commands and data, firmware that clocks transactions through  *)
(* it and may drop CE at any point, and the calendar that goes on by       *)
(* itself meanwhile.  CE and SCLK share a port: every write of it runs     *)
(* on_ce_write, then on_sclk_write.                                        *)
(***************************************************************************)
EXTENDS Integers, Sequences

CONSTANTS
  TicksPerSecond,   \* clock_hz / 12
  Commands,         \* command bytes the firmware sends
  Data,             \* data bytes it writes
  Moments,          \* register files the calendar starts from
  MaxSeconds,       \* bound: seconds that pass
  MaxTransactions   \* bound: times CE is raised

ASSUME RtcAssumption ==
  /\ TicksPerSecond \in Nat \ {0} /\ MaxSeconds \in Nat /\ MaxTransactions \in Nat
  /\ Commands \subseteq 0..255 /\ Data \subseteq 0..255 /\ Moments \subseteq [0..7 -> 0..255]

VARIABLES
  rtc,        \* the fields of ds1302_t
  wires,      \* CE, SCLK and the level the firmware gives IO
  master,     \* the firmware: its command, bits clocked, byte read
  book,       \* the registers as complete writes and seconds leave them (history)
  held,       \* what each register held since CE rose (history)
  seconds     \* seconds passed, and ticks since the last (tick_accum)

rtcvars == <<rtc, wires, master, book, held, seconds>>

Weight(i) == <<1, 2, 4, 8, 16, 32, 64, 128>>[i + 1]

BitOf(x, i) == (x \div Weight(i)) % 2

-----------------------------------------------------------------------------
(* The calendar.                                                           *)

ToBcd(n)   == (16 * (n \div 10) + (n % 10)) % 256
FromBcd(b) == 10 * (b \div 16) + (b % 16)

DaysInMonth(m, y) ==
  IF m = 2 /\ y % 4 = 0 THEN 29
  ELSE IF m \notin 1..12 THEN 31
  ELSE <<31, 28, 31, 30, 31, 30, 31, 31, 30, 31, 30, 31>>[m]

Carry(b) == IF b THEN 1 ELSE 0

\* A field that waits for a carry from the one below it.
RollsOnCarry(n, carry, span) == carry = 1 /\ n + carry >= span

Rolls(n, carry, span) == n + carry >= span

(* A field out of its range rolls whether or not the one below it does.    *)
AdvanceOneSecond(r) ==
  LET n == [i \in 0..6 |-> FromBcd(r[i])]
      minute == Rolls(n[0], 1, 60)
      hour   == Rolls(n[1], Carry(minute), 60)
      day    == Rolls(n[2], Carry(hour), 24)
      month  == day /\ n[3] + 1 > DaysInMonth(n[4], n[6])
      year   == month /\ n[4] + 1 > 12
      next   == [n EXCEPT
        ![0] = @ + 1 - 60 * Carry(minute),
        ![1] = @ + Carry(minute) - 60 * Carry(hour),
        ![2] = @ + Carry(hour) - 24 * Carry(day),
        ![3] = IF month THEN 1 ELSE @ + Carry(day),
        ![4] = IF year THEN 1 ELSE @ + Carry(month),
        ![5] = IF ~day THEN @ ELSE IF @ + 1 > 7 THEN 1 ELSE @ + 1,
        ![6] = IF year THEN (@ + 1) % 100 ELSE @]
  IN  [i \in 0..7 |-> IF i = 7 THEN r[7] ELSE ToBcd(next[i])]

-----------------------------------------------------------------------------
(* The protocol.                                                           *)

BeginCommand(c) == [c EXCEPT !.phase = "CMD", !.bitcount = 0, !.cur = 0]

\* A transaction that goes on counting where the last one was dropped.
OnCeKept(c, w) ==
  LET edge == CASE w.ce = 1 /\ c.lastCe = 0 -> [c EXCEPT !.phase = "CMD"]
                [] w.ce = 0 /\ c.lastCe = 1 -> [c EXCEPT !.phase = "IDLE"]
                [] OTHER -> c
  IN  [edge EXCEPT !.lastCe = w.ce]

OnCe(c, w) ==
  LET edge == CASE w.ce = 1 /\ c.lastCe = 0 -> BeginCommand(c)
                [] w.ce = 0 /\ c.lastCe = 1 -> [c EXCEPT !.phase = "IDLE"]
                [] OTHER -> c
  IN  [edge EXCEPT !.lastCe = w.ce]

\* The falling edge of the command's last bit taken for the first bit read.
DecodeUnskipped(c) ==
  LET field == (c.cur \div 2) % 32
      index == IF field = 31 THEN 0 ELSE field
      byte  == IF index < 8 THEN c.regs[index] ELSE 0
  IN  IF c.cur % 2 = 1
      THEN [c EXCEPT !.phase = "READ", !.addr = field, !.burst = 0, !.bitcount = 0, !.data = byte]
      ELSE [c EXCEPT !.phase = "WRITE", !.addr = field, !.burst = 0, !.bitcount = 0, !.cur = 0]

DecodeCommand(c) ==
  LET field == (c.cur \div 2) % 32
      index == IF field = 31 THEN 0 ELSE field
      byte  == IF index < 8 THEN c.regs[index] ELSE 0
      to(phase) == [c EXCEPT !.phase = phase, !.addr = field, !.burst = 0, !.bitcount = 0]
  IN  IF c.cur % 2 = 1
      THEN [to("READ") EXCEPT !.data = byte, !.skip = TRUE]
      ELSE [to("WRITE") EXCEPT !.cur = 0]

Written(c) ==        \* the eighth bit of a data byte
  LET index == IF c.addr = 31 THEN c.burst ELSE c.addr
      kept  == IF index < 8 THEN [c EXCEPT !.regs[index] = c.cur] ELSE c
  IN  IF c.addr = 31 /\ c.burst < 7
      THEN [kept EXCEPT !.burst = @ + 1, !.bitcount = 0, !.cur = 0]
      ELSE kept

Rising(c, bit) ==
  LET got == [c EXCEPT !.cur = IF c.bitcount < 8 /\ @ < Weight(c.bitcount)
                               THEN @ + bit * Weight(c.bitcount) ELSE @,
                       !.bitcount = @ + 1]
  IN  IF got.bitcount # 8 THEN got
      ELSE IF c.phase = "CMD" THEN DecodeCommand(got) ELSE Written(got)

Falling(c) ==
  CASE c.skip -> [c EXCEPT !.skip = FALSE]
    [] ~c.skip /\ c.bitcount < 7 -> [c EXCEPT !.bitcount = @ + 1]
    [] ~c.skip /\ c.bitcount >= 7 /\ c.addr = 31 /\ c.burst < 7 ->
         [c EXCEPT !.burst = @ + 1, !.data = c.regs[c.burst + 1], !.bitcount = 0]
    [] OTHER -> c

OnSclk(c, w) ==
  LET rises == w.sclk = 1 /\ c.lastSclk = 0
      falls == w.sclk = 0 /\ c.lastSclk = 1
      edge  == IF c.lastCe = 0 THEN c
               ELSE IF rises /\ c.phase \in {"CMD", "WRITE"} THEN Rising(c, w.io)
               ELSE IF falls /\ c.phase = "READ" THEN Falling(c) ELSE c
  IN  [edge EXCEPT !.lastSclk = w.sclk]

ReadBit == IF rtc.phase = "READ" THEN BitOf(rtc.data, rtc.bitcount) ELSE wires.io

WritePort(w) == wires' = w /\ rtc' = OnSclk(OnCe(rtc, w), w)

-----------------------------------------------------------------------------
(* The firmware.  A transaction is a command byte and, while the firmware  *)
(* likes, data bytes; "sent" counts the bits clocked.                      *)

Away == [on |-> FALSE, left |-> MaxTransactions, cmd |-> 0, byte |-> 0, sent |-> 0, got |-> 0]

Reading == master.cmd % 2 = 1 /\ master.sent >= 8

Register ==          \* the register the current data byte is about
  LET field == (master.cmd \div 2) % 32
  IN  IF field = 31 THEN (master.sent - 8) \div 8 ELSE field

Watched(regs, h) == [i \in 0..7 |-> h[i] \cup {regs[i]}]

RaiseCE(cmd) ==
  /\ ~master.on /\ master.left > 0
  /\ WritePort([ce |-> 1, sclk |-> 0, io |-> 0])
  /\ master' = [Away EXCEPT !.on = TRUE, !.left = master.left - 1, !.cmd = cmd]
  /\ held' = [i \in 0..7 |-> {rtc.regs[i]}]
  /\ UNCHANGED <<book, seconds>>

ClockHigh(byte) ==   \* a bit to the chip, or the one it shows sampled
  /\ master.on /\ wires.sclk = 0
  /\ master.sent < IF (master.cmd \div 2) % 32 = 31 THEN 32 ELSE 16
  /\ byte = IF master.sent % 8 = 0 /\ master.sent >= 8 /\ ~Reading THEN byte ELSE master.byte
  /\ LET n == master.sent % 8
         bit == IF master.sent < 8 THEN BitOf(master.cmd, n) ELSE BitOf(byte, n)
     IN  /\ WritePort([wires EXCEPT !.sclk = 1, !.io = IF Reading THEN @ ELSE bit])
         /\ master' = [master EXCEPT !.byte = byte, !.sent = @ + 1,
              !.got = IF ~Reading THEN @ ELSE ReadBit * Weight(n) + IF n = 0 THEN 0 ELSE @]
         /\ book' = IF master.sent >= 8 /\ ~Reading /\ n = 7 /\ Register < 8
                    THEN [book EXCEPT ![Register] = byte] ELSE book
  /\ held' = Watched(rtc'.regs, held)
  /\ UNCHANGED seconds

ClockLow ==
  /\ master.on /\ wires.sclk = 1
  /\ WritePort([wires EXCEPT !.sclk = 0])
  /\ UNCHANGED <<master, book, held, seconds>>

DropCE ==            \* at the end, or in the middle
  /\ master.on
  /\ WritePort([wires EXCEPT !.ce = 0])
  /\ master' = [master EXCEPT !.on = FALSE]
  /\ UNCHANGED <<book, held, seconds>>

(* A software reset: the port goes high unseen; the firmware lowers CE     *)
(* before anything else.                                                   *)
RtcCpuReset ==
  /\ master.on
  /\ WritePort([ce |-> 0, sclk |-> 1, io |-> 1])
  /\ master' = [master EXCEPT !.on = FALSE]
  /\ UNCHANGED <<book, held, seconds>>

RtcStep ==           \* ds1302_step
  /\ seconds.passed < MaxSeconds
  /\ IF seconds.ticks + 1 < TicksPerSecond
     THEN seconds' = [seconds EXCEPT !.ticks = @ + 1] /\ UNCHANGED <<rtc, book, held>>
     ELSE /\ seconds' = [ticks |-> 0, passed |-> seconds.passed + 1]
          /\ rtc' = [rtc EXCEPT !.regs = AdvanceOneSecond(@)]
          /\ book' = AdvanceOneSecond(book)
          /\ held' = Watched(rtc'.regs, held)
  /\ UNCHANGED <<wires, master>>

RtcInit ==
  /\ \E m \in Moments :
       /\ rtc = [regs |-> m, lastCe |-> 0, lastSclk |-> 0, phase |-> "IDLE", bitcount |-> 0,
                 cur |-> 0, addr |-> 0, burst |-> 0, data |-> 0, skip |-> FALSE]
       /\ book = m /\ held = [i \in 0..7 |-> {m[i]}]
  /\ wires = [ce |-> 0, sclk |-> 0, io |-> 0]
  /\ master = Away
  /\ seconds = [ticks |-> 0, passed |-> 0]

RtcNext ==
  \/ \E c \in Commands : RaiseCE(c)
  \/ \E d \in Data \cup {master.byte} : ClockHigh(d)
  \/ ClockLow \/ DropCE \/ RtcCpuReset \/ RtcStep

RtcSpec == RtcInit /\ [][RtcNext]_rtcvars

-----------------------------------------------------------------------------
(***************************************************************************)
(* The register file is what the complete writes and the seconds made it:  *)
(* a transaction dropped or reset at any bit writes nothing, and the next  *)
(* one starts clean.                                                       *)
(***************************************************************************)
WritesAreWhole == rtc.regs = book

(***************************************************************************)
(* A byte read over the wire is one its register held since CE rose: no    *)
(* bit is skipped or repeated, and a second passing in between never mixes *)
(* two values in a byte.                                                   *)
(***************************************************************************)
ReadsAreWhole ==
  [][Reading /\ master'.sent % 8 = 0 /\ master'.sent > master.sent =>
       IF Register < 8 THEN master'.got \in held[Register] ELSE master'.got = 0]_rtcvars

(* Days since 1 March before year 0, as astronomers count them.            *)
DayNumber(r) ==
  LET m == (FromBcd(r[4]) + 9) % 12
      y == FromBcd(r[6]) + (IF FromBcd(r[4]) < 3 THEN 99 ELSE 100)
  IN  (365 * y + y \div 4 + (153 * m + 2) \div 5 + FromBcd(r[3])) % 36525

SecondOfDay(r) == 3600 * FromBcd(r[2]) + 60 * FromBcd(r[1]) + FromBcd(r[0])

IsDate(r) ==
  /\ FromBcd(r[0]) \in 0..59 /\ FromBcd(r[1]) \in 0..59 /\ FromBcd(r[2]) \in 0..23
  /\ FromBcd(r[4]) \in 1..12 /\ FromBcd(r[6]) \in 0..99 /\ r[5] \in 1..7
  /\ FromBcd(r[3]) \in 1..DaysInMonth(FromBcd(r[4]), FromBcd(r[6]))

OneSecondOn(r, s) ==
  LET midnight == SecondOfDay(r) = 86399
  IN  /\ SecondOfDay(s) = (SecondOfDay(r) + 1) % 86400
      /\ DayNumber(s) = (DayNumber(r) + (IF midnight THEN 1 ELSE 0)) % 36525
      /\ s[5] = IF midnight THEN (r[5] % 7) + 1 ELSE r[5]
      /\ IsDate(s)

(* What a second does to any register file: none is gained or lost, a      *)
(* field of the time that is out of range comes down, and the date changes *)
(* at midnight, and only then, by a day or to a first.                     *)
ASecondLater(r, s) ==
  LET midnight == SecondOfDay(s) < SecondOfDay(r)
      n(i) == FromBcd(r[i])
      m(i) == FromBcd(s[i])
  IN  /\ SecondOfDay(s) + (IF midnight THEN 86400 ELSE 0) = SecondOfDay(r) + 1
      /\ \A i \in 0..2 : m(i) < <<60, 60, 24>>[i + 1] \/ m(i) < n(i)
      /\ ~midnight => \A i \in 3..6 : s[i] = ToBcd(n(i))
      /\ midnight => /\ s[5] = IF n(5) < 7 THEN n(5) + 1 ELSE 1
                     /\ m(3) = 1 \/ (m(3) = n(3) + 1 /\ m(3) <= 31)
      /\ s[7] = r[7]

(***************************************************************************)
(* Whatever was written to its registers, the clock counts seconds without *)
(* a gap and comes back into range (advance_one_second); and from a date   *)
(* it counts days too: months, leap years, the century and the weekday     *)
(* roll when they should, and the result is a date.                        *)
(***************************************************************************)
CalendarCounts ==
  [][seconds'.passed > seconds.passed =>
       /\ ASecondLater(rtc.regs, rtc'.regs)
       /\ IsDate(rtc.regs) => OneSecondOn(rtc.regs, rtc'.regs)]_rtcvars

=============================================================================
