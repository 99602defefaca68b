------------------------------ MODULE Xpt2046 ------------------------------
(***************************************************************************)
(* The touch controller of devices/xpt2046.c on CS, CLK, DIN and DOUT:     *)
(* an eight-bit control byte in, a reading of twelve or eight bits out.    *)
(* Firmware may raise CS at any point; the test sets readings meanwhile.   *)
(***************************************************************************)
EXTENDS Integers, Sequences

CONSTANTS
  Controls,       \* control bytes the firmware sends
  Readings,       \* 12-bit readings the test sets
  MaxStimuli,     \* bound: readings set
  MaxFrames       \* bound: times CS falls

ASSUME XptAssumption ==
  Controls \subseteq 0..255 /\ Readings \subseteq 0..4095 /\ MaxStimuli \in Nat /\ MaxFrames \in Nat

VARIABLES
  xpt,        \* the fields of xpt2046_t
  touch,      \* CS and CLK; the frame: control byte, clocks sent, frames left; and
              \* the reading of the channel when the control byte ended (history)
  edges,      \* DOUT after each falling edge of CLK since the control byte (history)
  high        \* DOUT while CLK was high, from the last bit of the control byte on (history)

xptvars == <<xpt, touch, edges, high>>

Power(i) == <<1, 2, 4, 8, 16, 32, 64, 128, 256, 512, 1024, 2048>>[i + 1]

Digit(x, i) == (x \div Power(i)) % 2

OnCs(c, cs) ==
  LET edge == CASE cs = 0 /\ c.lastCs = 1 -> [c EXCEPT !.phase = "CMD", !.bitcount = 0, !.cur = 0]
                [] cs = 1 /\ c.lastCs = 0 -> [c EXCEPT !.phase = "IDLE"]
                [] OTHER -> c
  IN  [edge EXCEPT !.lastCs = cs]

Decoded(c) ==
  LET eight == Digit(c.cur, 3) = 1
      r     == c.readings[(c.cur \div 16) % 8]
      bits  == IF eight THEN 8 ELSE 12
      shift == IF eight THEN r \div 16 ELSE r
  IN  [c EXCEPT !.phase = "RESULT", !.left = bits, !.shift = shift, !.out = Digit(shift, bits - 1)]

\* Bits shifted out of the reading as it is now.
ResultBitLive(c) == Digit(c.readings[(c.cur \div 16) % 8], c.left - 2)

ResultBit(c) == Digit(c.shift, c.left - 2)

OnClk(c, clk, din) ==
  LET rises == clk = 1 /\ c.lastClk = 0
      falls == clk = 0 /\ c.lastClk = 1
      got   == [c EXCEPT !.cur = (2 * @ + din) % 256, !.bitcount = @ + 1]
      edge  == CASE c.lastCs = 0 /\ rises /\ c.phase = "CMD" ->
                      IF got.bitcount = 8 THEN Decoded(got) ELSE got
                 [] c.lastCs = 0 /\ falls /\ c.phase = "RESULT" ->
                      [c EXCEPT !.left = @ - 1, !.out = IF c.left > 1 THEN ResultBit(c) ELSE @]
                 [] OTHER -> c
  IN  [edge EXCEPT !.lastClk = clk]

Channel == (touch.control \div 16) % 8

PenSelect(control) ==
  /\ touch.cs = 1 /\ touch.frames > 0
  /\ xpt' = OnClk(OnCs(xpt, 0), 0, 0)
  /\ touch' = [cs |-> 0, clk |-> 0, control |-> control, sent |-> 0, frames |-> touch.frames - 1,
               wanted |-> 0]
  /\ edges' = <<>> /\ high' = <<>>

ClkHigh ==
  /\ touch.cs = 0 /\ touch.clk = 0 /\ touch.sent < 8 + 14
  /\ xpt' = OnClk(OnCs(xpt, 0), 1,
                  IF touch.sent < 8 THEN Digit(touch.control, 7 - touch.sent) ELSE 0)
  /\ touch' = [touch EXCEPT !.clk = 1, !.sent = @ + 1,
                            !.wanted = IF touch.sent = 7 THEN xpt.readings[Channel] ELSE @]
  /\ high' = IF touch.sent >= 7 THEN Append(high, xpt'.out) ELSE high
  /\ UNCHANGED edges

ClkLow ==
  /\ touch.cs = 0 /\ touch.clk = 1
  /\ xpt' = OnClk(OnCs(xpt, 0), 0, 0)
  /\ touch' = [touch EXCEPT !.clk = 0]
  /\ edges' = IF touch.sent >= 8 THEN Append(edges, xpt'.out) ELSE edges
  /\ UNCHANGED high

PenDeselect ==
  /\ touch.cs = 0
  /\ xpt' = OnClk(OnCs(xpt, 1), touch.clk, 0)
  /\ touch' = [touch EXCEPT !.cs = 1]
  /\ UNCHANGED <<edges, high>>

SetReading(channel, r) ==   \* xpt2046_set_channel_reading
  /\ xpt.stimuli < MaxStimuli
  /\ xpt' = [xpt EXCEPT !.readings[channel] = r, !.stimuli = @ + 1]
  /\ UNCHANGED <<touch, edges, high>>

XptInit ==
  /\ xpt = [lastCs |-> 1, lastClk |-> 0, phase |-> "IDLE", bitcount |-> 0, cur |-> 0, left |-> 0,
            shift |-> 0, out |-> 0, readings |-> [c \in 0..7 |-> 0], stimuli |-> 0]
  /\ touch = [cs |-> 1, clk |-> 0, control |-> 0, sent |-> 0, frames |-> MaxFrames, wanted |-> 0]
  /\ edges = <<>> /\ high = <<>>

XptNext ==
  \/ \E b \in Controls : PenSelect(b)
  \/ ClkHigh \/ ClkLow \/ PenDeselect
  \/ \E r \in Readings, c \in {1, 5} : SetReading(c, r)

XptSpec == XptInit /\ [][XptNext]_xptvars

-----------------------------------------------------------------------------
Spells(bits, x) == \A i \in DOMAIN bits : bits[i] = Digit(x, Len(bits) - i)

Width == IF Digit(touch.control, 3) = 1 THEN 8 ELSE 12

(***************************************************************************)
(* Sampled while CLK is high, from the last bit of the control byte on,    *)
(* DOUT spells the reading the channel had when the control byte ended:    *)
(* setting another in the middle does not tear it, and a frame cut short   *)
(* leaves nothing behind.                                                  *)
(***************************************************************************)
ReadingIsWhole ==
  [][Len(high') = Width /\ Len(high) < Width =>
       Spells(high', IF Width = 8 THEN touch'.wanted \div 16 ELSE touch'.wanted)]_xptvars

(***************************************************************************)
(* xpt2046.h:9, "then the requested channel's reading out on DOUT, MSB     *)
(* first, updated on CLK falling edges": some run of bits that falling     *)
(* edges put on DOUT spells the reading.  The code shows the first bit     *)
(* already on the rising edge before and the next one on the falling edge. *)
(***************************************************************************)
FallingEdgesSpellIt ==
  Len(edges) = 14 /\ Width = 12 =>
    \E k \in 1..3 : Spells(SubSeq(edges, k, k + 11), touch.wanted)

=============================================================================
