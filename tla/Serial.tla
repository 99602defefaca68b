------------------------------- MODULE Serial -------------------------------
(***************************************************************************)
(* The transmitter of the serial port and the host's view of what it sent: *)
(* serial_tx() and reset() of core.c, and of sim/capi.c the SBUF handler,  *)
(* sim_post_tick(), sim_reset(), sim_uart_tx_byte() and                    *)
(* sim_uart_inject_rx().                                                   *)
(*                                                                         *)
(* A Step is one tick(): an instruction, then a bit if timer_tick() clocks *)
(* one (module Timers says when), then the host's post-tick count.  The    *)
(* interrupt a completed byte requests is the SR request of module Core.   *)
(***************************************************************************)
EXTENDS Integers, Sequences

CONSTANTS
  Bits,       \* bits of a byte (8)
  Ring,       \* slots of serial_out (18)
  Bytes,      \* bytes the firmware sends and the host injects
  MaxAsked    \* bound: bytes the firmware sends between two resets

ASSUME SerialAssumption ==
  /\ Bits \in Nat \ {0}
  /\ Ring \in Nat \ {0, 1}
  /\ Bytes \subseteq 0..2^Bits - 1
  /\ MaxAsked \in Nat

VARIABLES
  cpu,        \* SBUF, bits left to send, P3.1, TI, serial_out and its index
  host,       \* total_tx_count, last_tx_idx, tx_origin
  asked,      \* bytes the firmware had sent since sim_reset (history)
  garbled,    \* which of them a received byte overwrote (history)
  bits,       \* bits clocked since SBUF was written (history)
  wrote       \* the last step wrote SBUF (history)

vars == <<cpu, host, asked, garbled, bits, wrote>>

Slot == 0..Ring - 1
Value == Bytes \cup {0}

-----------------------------------------------------------------------------
\* A ring index that wraps one slot late.
SerialTxLate(c) ==
  LET n == c.remaining - 1
  IN  IF c.remaining = 0 THEN c
      ELSE IF n > 0 THEN [c EXCEPT !.remaining = n]
      ELSE [c EXCEPT !.remaining = 0, !.idx = (@ + 1) % (Ring + 1), !.ti = TRUE]

\* A transmitter that waits for a bit more than it was given.
SerialTxStuck(c) ==
  IF c.remaining = 0 THEN c ELSE [c EXCEPT !.remaining = IF @ > 1 THEN @ - 1 ELSE 1]

SerialTx(c) ==
  LET n == c.remaining - 1
      shifted == [c EXCEPT !.remaining = n, !.p31 = (c.sbuf \div 2^n) # 0]
  IN  IF c.remaining = 0 THEN c
      ELSE IF n > 0 THEN shifted
      ELSE [shifted EXCEPT !.out[c.idx] = c.sbuf, !.idx = (@ + 1) % Ring, !.ti = TRUE]

\* sim_post_tick, after its tick hooks: at most one byte ends in a tick.
Counted(h, idx) ==
  IF idx # h.last THEN [h EXCEPT !.count = @ + 1, !.last = idx] ELSE h

TxByte(i) ==   \* sim_uart_tx_byte, for 0 <= i < total_tx_count
  cpu.out[(host.origin + i) % Ring]

Sending == cpu.remaining > 0

Cycle(c, bit) ==
  /\ cpu' = IF bit THEN SerialTx(c) ELSE c
  /\ host' = Counted(host, cpu'.idx)

\* The count of bits clocked stops at one too many.
Clocked(n, c, bit) == IF bit /\ c.remaining > 0 /\ n <= Bits THEN n + 1 ELSE n

\* A write to SBUF that only a finished transmission accepts.
ArmedWhenIdle(c, b) ==
  [c EXCEPT !.sbuf = b, !.remaining = IF @ = 0 THEN Bits ELSE @]

\* The handler on_sbuf_write runs once the byte is in SBUF.
Armed(c, b) == [c EXCEPT !.sbuf = b, !.remaining = Bits]

Finished == Len(asked) - (IF Sending THEN 1 ELSE 0)

WriteSBUF(b, bit) ==     \* a byte still being sent is never finished
  LET c == Armed(cpu, b)
      kept == SubSeq(asked, 1, Finished)
  IN  /\ Len(kept) < MaxAsked
      /\ Cycle(c, bit)
      /\ asked' = Append(kept, b)
      /\ bits' = Clocked(0, c, bit)
      /\ garbled' = garbled \cap DOMAIN kept
      /\ wrote' = TRUE

Other(c, bit) ==         \* an instruction that leaves c in the registers
  /\ Cycle(c, bit)
  /\ bits' = Clocked(bits, c, bit)
  /\ wrote' = FALSE
  /\ UNCHANGED <<asked, garbled>>

WriteTI(b, bit) == Other([cpu EXCEPT !.ti = b], bit)
WriteP3(b, bit) == Other([cpu EXCEPT !.p31 = b], bit)

Step(bit) ==
  \/ \E b \in Bytes : WriteSBUF(b, bit)
  \/ Other(cpu, bit)
  \/ \E b \in BOOLEAN : WriteTI(b, bit) \/ WriteP3(b, bit)

-----------------------------------------------------------------------------
(* Between ticks.                                                          *)

InjectRx(b) ==           \* the port has one SBUF, for both directions
  /\ cpu' = [cpu EXCEPT !.sbuf = b]
  /\ garbled' = garbled \cup (IF Sending THEN {Len(asked)} ELSE {})
  /\ wrote' = FALSE
  /\ UNCHANGED <<host, asked, bits>>

PowerOn(c) ==            \* reset() keeps serial_out and its index
  [c EXCEPT !.sbuf = 0, !.remaining = 0, !.p31 = TRUE, !.ti = FALSE]

CpuReset ==              \* a software reset: the host's counters go on
  /\ cpu' = PowerOn(cpu)
  /\ asked' = SubSeq(asked, 1, Finished)
  /\ garbled' = garbled \cap DOMAIN asked'
  /\ bits' = 0 /\ wrote' = FALSE
  /\ UNCHANGED host

\* A sim_reset that forgets where the next byte will land.
ReanchoredAtZero(idx) == [count |-> 0, last |-> idx, origin |-> 0]

Reanchored(idx) == [count |-> 0, last |-> idx, origin |-> idx]

SimReset ==
  /\ cpu' = PowerOn(cpu)
  /\ host' = Reanchored(cpu.idx)
  /\ asked' = <<>> /\ garbled' = {} /\ bits' = 0 /\ wrote' = FALSE

Init ==
  /\ \E v \in Value :    \* a cold reset leaves noise in SBUF
       cpu = [sbuf |-> v, remaining |-> 0, p31 |-> TRUE, ti |-> FALSE,
              out |-> [s \in Slot |-> 0], idx |-> 0]
  /\ host = [count |-> 0, last |-> 0, origin |-> 0]
  /\ asked = <<>> /\ garbled = {} /\ bits = 0 /\ wrote = FALSE

Next ==
  \/ \E bit \in BOOLEAN : Step(bit)
  \/ \E b \in Bytes : InjectRx(b)
  \/ CpuReset
  \/ SimReset

Spec == Init /\ [][Next]_vars

(* The host keeps stepping and timer 1 keeps clocking bits.                *)
FairSpec == Spec /\ WF_vars(Step(TRUE))

-----------------------------------------------------------------------------
(***************************************************************************)
(* Registers, ring and counters keep the ranges of the C fields.           *)
(***************************************************************************)
TypeOK ==
  /\ cpu \in [sbuf : Value, remaining : 0..Bits, p31 : BOOLEAN, ti : BOOLEAN,
              out : [Slot -> Value], idx : Slot]
  /\ host \in [count : Nat, last : Slot, origin : Slot]
  /\ asked \in Seq(Bytes)
  /\ garbled \subseteq DOMAIN asked
  /\ bits \in 0..Bits
  /\ wrote \in BOOLEAN

(***************************************************************************)
(* The host reads back exactly the bytes the firmware sent since the last  *)
(* sim_reset, in order, once each, as far back as the ring reaches: across *)
(* wraps, resets of either kind and bytes overwritten in transmission.     *)
(* Only a byte that a received one landed on may differ.                   *)
(***************************************************************************)
HostReadsWhatWasSent ==
  /\ host.count = Finished
  /\ \A i \in 0..host.count - 1 :
       i >= host.count - Ring /\ i + 1 \notin garbled => TxByte(i) = asked[i + 1]

(***************************************************************************)
(* A byte is reported after all its bits were clocked out, counted from    *)
(* the last write to SBUF, and never before or after.                      *)
(***************************************************************************)
SentAfterAllBits ==
  [][host'.count > host.count => bits' = Bits]_vars

(***************************************************************************)
(* While bits are clocked, every transmission ends unless the firmware     *)
(* starts it over: a loop that polls TI does not hang.                     *)
(***************************************************************************)
EveryByteEnds == Sending ~> (~Sending \/ wrote)

(***************************************************************************)
(* core.c:43, "Set P3.1 according to the currently clocked out SERIAL      *)
(* bit".  The code converts the whole shifted SBUF to bool.                *)
(***************************************************************************)
PinShowsTheBit ==
  [][bits' > bits => cpu'.p31 = ((cpu'.sbuf \div 2^cpu'.remaining) % 2 = 1)]_vars

=============================================================================
