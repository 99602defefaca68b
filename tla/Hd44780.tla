------------------------------ MODULE Hd44780 ------------------------------
(***************************************************************************)
(* The character display of devices/hd44780.c on its pins, with firmware   *)
(* that drives it over four data lines the way data sheets prescribe: the  *)
(* initialisation by instruction, then bytes in two nibbles, the busy flag *)
(* polled before each.  Both resets of the simulator are here: sim_reset   *)
(* starts the model over, a software reset only throws the pins high and   *)
(* the firmware back to its start, wherever a transfer was.                *)
(***************************************************************************)
EXTENDS Integers, Sequences

CONSTANTS
  ShortBusy, LongBusy,  \* ticks a byte and a clear keep the display busy
  LcdBytes,             \* <<rs, byte>> the firmware sends
  MaxLcdSent            \* bound: bytes sent and read, and resets

ASSUME LcdAssumption ==
  /\ ShortBusy \in Nat \ {0} /\ LongBusy \in Nat \ {0}
  /\ LcdBytes \subseteq {0, 1} \X (0..255)
  /\ \A b \in LcdBytes : b[1] = 0 => b[2] \notin 48..63   \* only four lines: DL stays 0
  /\ MaxLcdSent \in Nat

VARIABLES
  lcd,       \* the fields of hd44780_t, those a user sees apart in "disp"
  lines,     \* the pins: E, RS, RW and the eight data lines
  driver,    \* the firmware: pulses to do, what they are for, what was read
  want       \* what the display should hold (history)

lcdvars == <<lcd, lines, driver, want>>

-----------------------------------------------------------------------------
(* The controller.                                                         *)

Clear == [ddram |-> [a \in 0..127 |-> 32], cgram |-> [a \in 0..63 |-> 0], cursor |-> 0,
          dir |-> 1, shift |-> 0, shifting |-> FALSE, chargen |-> FALSE]

Advanced(s) ==
  IF s.chargen THEN [s EXCEPT !.cursor = @ + 1]
  ELSE [s EXCEPT !.cursor = @ + s.dir, !.shift = @ + (IF s.shifting THEN s.dir ELSE 0)]

Stored(s, d) ==
  Advanced(IF s.chargen THEN [s EXCEPT !.cgram[s.cursor % 64] = d]
           ELSE [s EXCEPT !.ddram[s.cursor % 128] = d])

Fetched(s) == IF s.chargen THEN s.cgram[s.cursor % 64] ELSE s.ddram[s.cursor % 128]

Move(d) == IF (d \div 4) % 2 = 1 THEN 1 ELSE -1

\* A cursor sent home under a display that stays where it was shifted.
HomedShifted(s) == [s EXCEPT !.cursor = 0]

Homed(s) == [s EXCEPT !.cursor = 0, !.shift = 0]

(* The instructions, by their highest bit; the rest change no more than    *)
(* the interface.  A clear leaves the address counter in CGRAM if it is.   *)
Instructed(s, d) ==
  CASE d = 1 -> [Homed(s) EXCEPT !.ddram = Clear.ddram, !.dir = 1]
    [] d \in 2..3 -> Homed(s)
    [] d \in 4..7 -> [s EXCEPT !.shifting = d % 2 = 1,
                               !.dir = IF (d \div 2) % 2 = 1 THEN 1 ELSE -1]
    [] d \in 16..31 -> IF (d \div 8) % 2 = 1 THEN [s EXCEPT !.cursor = @ + Move(d)]
                       ELSE [s EXCEPT !.shift = @ + Move(d)]
    [] d \in 64..127 -> [s EXCEPT !.chargen = TRUE, !.cursor = d % 64]
    [] d \in 128..255 -> [s EXCEPT !.chargen = FALSE, !.cursor = d % 128]
    [] OTHER -> s

Applied(s, rs, d) == IF rs = 1 THEN Stored(s, d) ELSE Instructed(s, d)

Committed(l, rs) ==
  LET d == l.latched
      shown == [l EXCEPT !.disp = Applied(@, rs, d),
                         !.busy = IF rs = 1 \/ d > 1 THEN ShortBusy
                                  ELSE IF d = 1 THEN LongBusy ELSE @]
  IN  IF l.busy > 0 THEN l
      ELSE IF rs = 0 /\ d \in 32..63
           THEN [shown EXCEPT !.four = (d \div 16) % 2 = 0, !.phase = 0]
           ELSE shown

Assembled(latched, phase, bus) ==
  IF phase = 0 THEN (latched % 16) + bus - (bus % 16)
  ELSE latched - (latched % 16) + bus \div 16

WriteEdge(l, p) ==
  IF ~l.four THEN Committed([l EXCEPT !.latched = p.bus], p.rs)
  ELSE LET got == [l EXCEPT !.latched = Assembled(@, l.phase, p.bus), !.phase = 1 - @]
       IN  IF got.phase = 0 THEN Committed(got, p.rs) ELSE got

\* A status read that takes one pulse over four lines too.
PresentedWhole(l) == [l EXCEPT !.shows = l.latched - (l.latched % 16)]

Presented(l) ==
  IF ~l.four THEN [l EXCEPT !.shows = l.latched]
  ELSE [l EXCEPT !.shows = IF l.phase = 1 THEN 16 * (l.latched % 16)
                           ELSE l.latched - (l.latched % 16),
                 !.phase = 1 - @]

StatusRead(l) ==
  Presented([l EXCEPT !.latched = (l.disp.cursor % 128) + (IF l.busy > 0 THEN 128 ELSE 0)])

DataRead(l) ==
  LET read == [l EXCEPT !.latched = Fetched(l.disp)]
  IN  Presented(IF l.busy > 0 THEN l
                ELSE IF ~l.four \/ l.phase = 1
                     THEN [read EXCEPT !.disp = Advanced(@), !.busy = ShortBusy]
                     ELSE read)

OnEWrite(l, p) ==
  LET edge == IF p.e = 1 /\ l.lastE = 0 /\ p.rw = 1
              THEN IF p.rs = 1 THEN DataRead(l) ELSE StatusRead(l)
              ELSE IF p.e = 0 /\ l.lastE = 1 /\ p.rw = 0 THEN WriteEdge(l, p) ELSE l
  IN  [edge EXCEPT !.lastE = p.e]

LcdReset == [disp |-> Clear, four |-> FALSE, phase |-> 0, busy |-> 0,
             latched |-> 0, shows |-> 0, lastE |-> 0]

-----------------------------------------------------------------------------
(* The firmware.                                                           *)

Pulse(rs, rw, bus) == [e |-> 1, rs |-> rs, rw |-> rw, bus |-> bus]

Startup == [for |-> "init", rs |-> 0, byte |-> 0, left |-> MaxLcdSent, awake |-> FALSE,
            todo |-> <<Pulse(0, 0, 48), Pulse(0, 0, 48), Pulse(0, 0, 48), Pulse(0, 0, 32)>>]

Idle == driver.todo = <<>>

Restarted ==         \* the ports go high with no write the model could see
  /\ lines' = Pulse(1, 1, 255)
  /\ driver.left > 0
  /\ driver' = [Startup EXCEPT !.left = driver.left - 1]

(* The first write to the control port: RW may fall before E does.         *)
LowerFirst(rw) ==
  /\ ~driver.awake
  /\ lines' = [lines EXCEPT !.e = 0, !.rs = 0, !.rw = rw]
  /\ lcd' = OnEWrite(lcd, lines')
  /\ driver' = [driver EXCEPT !.awake = TRUE]
  /\ UNCHANGED want

RaiseE ==            \* while it initialises, the firmware waits long enough
  /\ driver.awake /\ ~Idle /\ lines.e = 0
  /\ driver.for = "init" => lcd.busy = 0
  /\ lines' = Head(driver.todo)
  /\ lcd' = OnEWrite(lcd, lines')
  /\ driver' = [driver EXCEPT
       !.byte = IF lines'.rw = 0 THEN @
                ELSE IF Len(driver.todo) = 2 THEN lcd'.shows
                ELSE @ + lcd'.shows \div 16]
  /\ UNCHANGED want

LowerE ==
  /\ driver.awake /\ ~Idle /\ lines.e = 1
  /\ lines' = [lines EXCEPT !.e = 0]
  /\ lcd' = OnEWrite(lcd, lines')
  /\ driver' = [driver EXCEPT !.todo = Tail(@)]
  /\ want' = CASE Len(driver.todo) > 1 \/ driver.for = "poll" -> want
               [] Len(driver.todo) = 1 /\ driver.for = "init" -> lcd'.disp
               [] Len(driver.todo) = 1 /\ driver.for = "write" ->
                    Applied(want, driver.rs, driver.byte)
               [] Len(driver.todo) = 1 /\ driver.for = "read" -> Advanced(want)

Does(for, rs, rw, byte, left) ==
  /\ driver' = [driver EXCEPT
       !.for = for, !.rs = rs, !.byte = byte, !.left = left,
       !.todo = <<Pulse(rs, rw, byte - (byte % 16)), Pulse(rs, rw, 16 * (byte % 16))>>]
  /\ UNCHANGED <<lcd, lines, want>>

PollBusy == Idle /\ Does("poll", 0, 1, 0, driver.left)

LcdFree == Idle /\ driver.for = "poll" /\ driver.byte < 128 /\ driver.left > 0

SendByte(rs, d) == LcdFree /\ Does("write", rs, 0, d, driver.left - 1)

ReadByte == LcdFree /\ Does("read", 1, 1, 0, driver.left - 1)

LcdStep ==           \* hd44780_step
  /\ lcd.busy > 0
  /\ lcd' = [lcd EXCEPT !.busy = @ - 1]
  /\ UNCHANGED <<lines, driver, want>>

LcdSimReset == Restarted /\ lcd' = LcdReset /\ UNCHANGED want

LcdCpuReset == Restarted /\ UNCHANGED <<lcd, want>>

LcdInit ==
  /\ lcd = LcdReset /\ lines = Pulse(1, 1, 255)
  /\ driver = Startup /\ want = Clear

LcdNext ==
  \/ \E rw \in {0, 1} : LowerFirst(rw)
  \/ RaiseE \/ LowerE \/ PollBusy
  \/ \E b \in LcdBytes : SendByte(b[1], b[2])
  \/ ReadByte \/ LcdStep \/ LcdSimReset \/ LcdCpuReset

LcdSpec == LcdInit /\ [][LcdNext]_lcdvars

-----------------------------------------------------------------------------
(***************************************************************************)
(* Once initialised, from whatever a reset interrupted, display and        *)
(* firmware agree which nibble is next, through writes, reads and polls.   *)
(***************************************************************************)
NibblesInStep ==
  driver.for # "init" /\ lines.e = 0 => lcd.four /\ lcd.phase = Len(driver.todo) % 2

(* What a user sees of a byte, whatever the controller keeps it in: only a *)
(* clear erases, a clear and a return home show address 0 in the first     *)
(* column, an address goes where it says, and a character to one cell.     *)
LeavesItsMark(s, rs, d, t) ==
  /\ rs = 0 /\ d = 1 => \A a \in 0..127 : t.ddram[a] = 32
  /\ rs = 0 /\ d # 1 => t.ddram = s.ddram
  /\ rs = 0 => t.cgram = s.cgram
  /\ rs = 0 /\ d \in 1..3 => t.cursor = 0 /\ t.shift = 0
  /\ rs = 0 /\ d >= 128 => t.cursor = d - 128 /\ t.shift = s.shift /\ ~t.chargen
  /\ rs = 1 /\ ~s.chargen =>
       /\ t.cgram = s.cgram
       /\ \A a \in 0..127 : t.ddram[a] = IF a = s.cursor % 128 THEN d ELSE s.ddram[a]

(***************************************************************************)
(* After each byte the display holds what an atomic one would: firmware    *)
(* that polls the busy flag loses no byte and doubles none, reads back     *)
(* what it wrote, and each byte written has left its mark.                 *)
(***************************************************************************)
ShowsWhatWasSent ==
  [][Len(driver.todo) = 1 /\ driver'.todo = <<>> /\ driver.for # "init" =>
       /\ lcd'.disp = want'
       /\ driver.for = "read" => driver.byte = Fetched(want)
       /\ driver.for = "write" =>
            LeavesItsMark(want, driver.rs, driver.byte, lcd'.disp)]_lcdvars

=============================================================================
