---------------------------- MODULE DigitDisplay ----------------------------
(***************************************************************************)
(* The multiplexed digits of the board: the segment latch devices/hc573.c  *)
(* on P0 with LE on P1.0, the decoder devices/hc138.c on P2.2-4, and       *)
(* devices/digit_display.c, which samples the latch after each write of    *)
(* one of their ports; the latch subscribed first, so it hears first.      *)
(***************************************************************************)
EXTENDS Integers

CONSTANTS
  Segments,     \* bytes the firmware writes to P0, 0 blank
  Digits,       \* digit_count
  Outputs       \* decoder outputs the firmware selects

ASSUME DisplayAssumption ==
  /\ Segments \subseteq 0..255
  /\ Digits \in 0..8 /\ Outputs \subseteq 0..7

VARIABLES
  port,       \* P0, LE, and the selected output
  latch,      \* hc573: output, transparent
  digits,     \* digit_display: digits
  glass       \* what each digit should show, and whether LE was heard (history)

digitvars == <<port, latch, digits, glass>>

\* A latch that captures on the rising edge only.
OnLeRising(l, p) ==
  IF p.le = 1 /\ ~l.transparent THEN [transparent |-> TRUE, output |-> p.data]
  ELSE [l EXCEPT !.transparent = p.le = 1]

OnLe(l, p) ==        \* on_le_write
  IF p.le = 1 \/ l.transparent
  THEN [transparent |-> p.le = 1, output |-> p.data]
  ELSE l

OnData(l, p) == IF l.transparent THEN [l EXCEPT !.output = p.data] ELSE l

Resampled(d, l, p) == IF p.out < Digits /\ l.output # 0 THEN [d EXCEPT ![p.out] = l.output] ELSE d

(* The ideal latch holds what was on P0 when LE was last high.  After a     *)
(* software reset nobody knows until `clear`: then it starts over.         *)
Glass(p, clear, now) ==
  LET held == IF p.le = 1 \/ port.le = 1 THEN p.data ELSE glass.held
  IN  IF ~glass.heard
      THEN IF clear THEN [held |-> p.data, heard |-> TRUE, shown |-> now] ELSE glass
      ELSE [glass EXCEPT
              !.held = held,
              !.shown = IF p.out < Digits /\ held # 0 THEN [@ EXCEPT ![p.out] = held] ELSE @]

Sees(p, l, clear) ==
  /\ port' = p /\ latch' = l
  /\ digits' = Resampled(digits, l, p)
  /\ glass' = Glass(p, clear, digits')

WriteP0(v) ==
  LET p == [port EXCEPT !.data = v] IN Sees(p, OnData(latch, p), latch.transparent)

WriteP1(le) ==
  LET p == [port EXCEPT !.le = le] IN Sees(p, OnLe(latch, p), le = 1 \/ latch.transparent)

WriteP2(o) == Sees([port EXCEPT !.out = o], latch, FALSE)

High == [data |-> 255, le |-> 1, out |-> 7]

Blank == [d \in 0..Digits - 1 |-> 0]

Fresh(p) == [transparent |-> p.le = 1, output |-> p.data]   \* hc573_create, hc573_reset

DisplayInit ==
  /\ port = High /\ latch = Fresh(High) /\ digits = Blank
  /\ glass = [held |-> 255, heard |-> TRUE, shown |-> Blank]

DisplaySimReset ==   \* the ports, then digit_display_reset
  /\ port' = High /\ latch' = Fresh(High) /\ digits' = Blank
  /\ glass' = [held |-> 255, heard |-> TRUE, shown |-> Blank]

DisplayCpuReset ==   \* the ports go high unheard: a closed latch stays closed
  /\ port' = High
  /\ glass' = [glass EXCEPT !.heard = FALSE]
  /\ UNCHANGED <<latch, digits>>

DisplayNext ==
  \/ \E v \in Segments : WriteP0(v)
  \/ \E le \in {0, 1} : WriteP1(le)
  \/ \E o \in Outputs : WriteP2(o)
  \/ DisplaySimReset \/ DisplayCpuReset

DisplaySpec == DisplayInit /\ [][DisplayNext]_digitvars

-----------------------------------------------------------------------------
(***************************************************************************)
(* Every digit shows the last pattern, not blank, that an ideal latch held *)
(* while it was selected, for every order of writes to the three ports.    *)
(* After a software reset, which sets the ports and tells no device, that  *)
(* is so again once LE is written high, or an open latch hears a write.    *)
(***************************************************************************)
DigitsShowTheGlass ==
  glass.heard => digits = glass.shown /\ (port.le = 0 => latch.output = glass.held)

=============================================================================
