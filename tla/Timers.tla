------------------------------- MODULE Timers -------------------------------
(***************************************************************************)
(* timer_tick() of core.c: timers 0 and 1 in their four modes, and the bit *)
(* clock the serial port takes from TF1.                                   *)
(*                                                                         *)
(* Every tick() that is not asleep in power-down ends in one timer_tick(), *)
(* after whatever the instruction of that cycle did to the timer           *)
(* registers; a Step is such a cycle.  A timer runs while its TR bit is    *)
(* set and its GATE and C/T bits are not: counting pins and gating by INT  *)
(* pins are not implemented, so those settings just stop it.               *)
(***************************************************************************)
EXTENDS Integers

CONSTANTS
  ByteBase,   \* number of values of TL and TH (256)
  LowBase,    \* number of values of the part of TL that mode 0 counts (32)
  TmodValues  \* settings software writes to TMOD: two modes, two run states

ASSUME TimersAssumption ==
  /\ ByteBase \in Nat \ {0, 1}
  /\ LowBase \in 2..ByteBase
  /\ ByteBase % LowBase = 0
  /\ TmodValues \subseteq (0..3) \X (0..3) \X BOOLEAN \X BOOLEAN

Byte == 0..ByteBase - 1

VARIABLES
  reg,        \* TL0, TH0, TL1, TH1, TF0, TF1, the modes and run states, SM1
  clocked,    \* serial_tx() was called in the last step
  soft,       \* the flags its instruction left set (history)
  left,       \* ticks each counter has to go until it overflows (history)
  due         \* counters that reached the end of that count (history)

vars == <<reg, clocked, soft, left, due>>

Registers ==
  [tl0 : Byte, th0 : Byte, tl1 : Byte, th1 : Byte, tf0 : BOOLEAN, tf1 : BOOLEAN,
   mode0 : 0..3, mode1 : 0..3, run0 : BOOLEAN, run1 : BOOLEAN, sm1 : BOOLEAN]

-----------------------------------------------------------------------------
(* One count of a pair TL, TH: the new pair and whether it overflowed.     *)

\* A count that is not cut to a byte.
IncWide(x) == x + 1

Inc(x) == (x + 1) % ByteBase

\* A chain that carries into TH when TL's upper bits roll over with the rest.
ChainWholeByte(tl, th, base) ==
  LET carry == Inc(tl) = 0
  IN  [tl |-> tl - (tl % base) + ((tl + 1) % base),
       th |-> IF carry THEN Inc(th) ELSE th, over |-> carry /\ Inc(th) = 0]

Chain(tl, th, base) ==      \* the low base values of TL carry into TH
  LET carry == (tl + 1) % base = 0
  IN  [tl |-> tl - (tl % base) + ((tl + 1) % base),
       th |-> IF carry THEN Inc(th) ELSE th, over |-> carry /\ Inc(th) = 0]

AutoReload(tl, th) ==
  [tl |-> IF Inc(tl) = 0 THEN th ELSE Inc(tl), th |-> th, over |-> Inc(tl) = 0]

Counted(mode, tl, th) ==
  CASE mode = 0 -> Chain(tl, th, LowBase)
    [] mode = 1 -> Chain(tl, th, ByteBase)
    [] mode = 2 -> AutoReload(tl, th)
    [] mode = 3 -> [tl |-> tl, th |-> th, over |-> FALSE]

(* Timer 0: in mode 3 TL0 counts on its own, and TH0 under timer 1's run   *)
(* control, with TF1 for its flag.                                         *)

Split(r) ==
  LET low  == [r EXCEPT !.tl0 = Inc(@), !.tf0 = @ \/ Inc(r.tl0) = 0]
      half == IF r.run0 THEN low ELSE r
  IN  IF r.run1
      THEN [half EXCEPT !.th0 = Inc(@), !.tf1 = @ \/ Inc(r.th0) = 0]
      ELSE half

Timer0(r) ==
  LET c == Counted(r.mode0, r.tl0, r.th0)
  IN  CASE r.mode0 = 3 -> Split(r)
        [] r.mode0 # 3 /\ r.run0 ->
             [r EXCEPT !.tl0 = c.tl, !.th0 = c.th, !.tf0 = @ \/ c.over]
        [] r.mode0 # 3 /\ ~r.run0 -> r

\* Timer 1 sharing TF1 with TH0.
Timer1SharesFlag(r) ==
  LET c == Counted(r.mode1, r.tl1, r.th1)
  IN  IF r.run1
      THEN [r EXCEPT !.tl1 = c.tl, !.th1 = c.th, !.tf1 = @ \/ c.over]
      ELSE r

Timer1(r) ==    \* TF1 belongs to TH0 while timer 0 is in mode 3
  LET c == Counted(r.mode1, r.tl1, r.th1)
  IN  IF r.run1
      THEN [r EXCEPT !.tl1 = c.tl, !.th1 = c.th,
                     !.tf1 = @ \/ (c.over /\ r.mode0 # 3)]
      ELSE r

TimerTick(r) ==
  LET t   == Timer1(Timer0(r))
      bit == t.run1 /\ t.tf1 /\ t.sm1
  IN  [regs |-> [t EXCEPT !.tf1 = @ /\ ~bit], bit |-> bit]

-----------------------------------------------------------------------------
(* History.  The number of ticks a counter needs to overflow, from the     *)
(* meaning of its mode and not from how the code counts: mode 0 joins      *)
(* LowBase values of TL with TH, mode 1 all of TL with TH, and modes 2 and *)
(* 3 count one byte.                                                       *)

Span(mode, tl, th) ==
  CASE mode = 0 -> ByteBase * LowBase - (th * LowBase + (tl % LowBase))
    [] mode = 1 -> ByteBase * ByteBase - (th * ByteBase + tl)
    [] mode \in {2, 3} -> ByteBase - tl

Period(mode, th) ==
  CASE mode = 0 -> ByteBase * LowBase
    [] mode = 1 -> ByteBase * ByteBase
    [] mode = 2 -> ByteBase - th
    [] mode = 3 -> ByteBase

Spans(r) ==
  [T0  |-> Span(r.mode0, r.tl0, r.th0),
   T1  |-> Span(r.mode1, r.tl1, r.th1),
   TH0 |-> IF r.mode0 = 3 THEN ByteBase - r.th0 ELSE 0]

Periods(r) ==
  [T0  |-> Period(r.mode0, r.th0),
   T1  |-> Period(r.mode1, r.th1),
   TH0 |-> ByteBase]

Running(r) ==
  (IF r.run0 THEN {"T0"} ELSE {}) \cup
  (IF r.run1 /\ r.mode1 # 3 THEN {"T1"} ELSE {}) \cup
  (IF r.run1 /\ r.mode0 = 3 THEN {"TH0"} ELSE {})

Flags(r) == (IF r.tf0 THEN {"TF0"} ELSE {}) \cup (IF r.tf1 THEN {"TF1"} ELSE {})

(* The cycle's timer_tick(), its instruction having left r in the          *)
(* registers and the counters togo ticks from their overflow.              *)
Cycle(r, togo) ==
  LET tick == TimerTick(r)
      runs == Running(r)
      over == {c \in runs : togo[c] = 1}
  IN  /\ reg' = tick.regs /\ clocked' = tick.bit
      /\ soft' = Flags(r) /\ due' = over
      /\ left' = [c \in DOMAIN togo |-> IF c \in over THEN Periods(r)[c]
                                        ELSE IF c \in runs THEN togo[c] - 1
                                        ELSE togo[c]]

-----------------------------------------------------------------------------
Count ==       \* any cycle that leaves the timer registers alone
  Cycle(reg, left)

WriteTL0(v)  == LET r == [reg EXCEPT !.tl0 = v] IN Cycle(r, Spans(r))
WriteTH0(v)  == LET r == [reg EXCEPT !.th0 = v] IN Cycle(r, Spans(r))
WriteTL1(v)  == LET r == [reg EXCEPT !.tl1 = v] IN Cycle(r, Spans(r))
WriteTH1(v)  == LET r == [reg EXCEPT !.th1 = v] IN Cycle(r, Spans(r))

WriteTMOD(t) ==                   \* the modes, and GATE and C/T
  LET r == [reg EXCEPT !.mode0 = t[1], !.mode1 = t[2], !.run0 = t[3], !.run1 = t[4]]
  IN  Cycle(r, Spans(r))

WriteTCON(f0, f1, r0, r1) ==      \* the flags, and TR0 and TR1
  Cycle([reg EXCEPT !.tf0 = f0, !.tf1 = f1, !.run0 = r0, !.run1 = r1], left)

EnterInterrupt(f) ==              \* clears the flag it serves
  Cycle([reg EXCEPT ![f] = FALSE], left)

WriteSCON(b) == Cycle([reg EXCEPT !.sm1 = b], left)

Zero == [tl0 |-> 0, th0 |-> 0, tl1 |-> 0, th1 |-> 0, tf0 |-> FALSE, tf1 |-> FALSE,
         mode0 |-> 0, mode1 |-> 0, run0 |-> FALSE, run1 |-> FALSE, sm1 |-> FALSE]

Reset ==       \* of the CPU, between ticks
  /\ reg' = Zero /\ clocked' = FALSE
  /\ soft' = {} /\ left' = Spans(Zero) /\ due' = {}

Init ==
  /\ reg = Zero /\ clocked = FALSE
  /\ soft = {} /\ left = Spans(Zero) /\ due = {}

Step ==
  \/ Count
  \/ \E v \in Byte : WriteTL0(v) \/ WriteTH0(v) \/ WriteTL1(v) \/ WriteTH1(v)
  \/ \E t \in TmodValues : WriteTMOD(t)
  \/ \E f0, f1, r0, r1 \in BOOLEAN : WriteTCON(f0, f1, r0, r1)
  \/ \E f \in {"tf0", "tf1"} : EnterInterrupt(f)
  \/ \E b \in BOOLEAN : WriteSCON(b)

Next == Step \/ Reset

Spec == Init /\ [][Next]_vars

-----------------------------------------------------------------------------
(***************************************************************************)
(* Registers stay bytes and flags, and no count is ever run out or longer  *)
(* than the longest mode.                                                  *)
(***************************************************************************)
TypeOK ==
  /\ reg \in Registers
  /\ clocked \in BOOLEAN
  /\ soft \subseteq {"TF0", "TF1"}
  /\ left \in [{"T0", "T1", "TH0"} -> 0..ByteBase * ByteBase]
  /\ due \subseteq {"T0", "T1", "TH0"}

(***************************************************************************)
(* TF0 rises exactly on the tick timer 0's mode calls for, counted from    *)
(* when software last set it up, through any number of starts, stops and   *)
(* reloads, and falls only to software.                                    *)
(***************************************************************************)
Timer0OnTime ==
  [][reg'.tf0 <=> "TF0" \in soft' \/ "T0" \in due']_vars

(***************************************************************************)
(* TF1 rises exactly on the tick its owner calls for: TH0 while timer 0 is *)
(* in mode 3, timer 1 otherwise.  Where it is not seen to rise, it became  *)
(* the bit clock of the serial port, once.                                 *)
(***************************************************************************)
Tf1Owner(r) == IF r.mode0 = 3 THEN "TH0" ELSE "T1"

Timer1OnTime ==
  [][/\ reg'.tf1 \/ clocked' <=> "TF1" \in soft' \/ Tf1Owner(reg') \in due'
     /\ ~(reg'.tf1 /\ clocked')]_vars

(***************************************************************************)
(* core.c:297, "If Timer1 overflowed, see if we need to send a serial      *)
(* bit", and sim/README.md:528, "only calls serial_tx() when Timer1        *)
(* overflows": a bit is clocked by an overflow of timer 1, in that tick or *)
(* left standing in TF1 by software.  The code tests the flag and not the  *)
(* timer, so TH0, which owns the flag in mode 3, clocks bits as well.      *)
(***************************************************************************)
BitsClockedByTimer1 == [][clocked' => "T1" \in due' \/ "TF1" \in soft']_vars

=============================================================================
