------------------------------ MODULE Enc28j60 ------------------------------
(***************************************************************************)
(* The Ethernet controller of devices/enc28j60.c: SPI bytes clocked in bit *)
(* by bit, the banked registers, the circular receive buffer the host      *)
(* injects frames into at any moment, and transmission.  The firmware is a *)
(* driver of the usual kind: it programs the ring, polls EPKTCNT, reads a  *)
(* packet by its header, moves ERXRDPT behind it and decrements the count. *)
(*                                                                         *)
(* A pointer is two register bytes of LowSize values (256 in the chip); a  *)
(* byte of a frame is the frame's number and a place in it.                *)
(***************************************************************************)
EXTENDS Integers, Sequences

CONSTANTS
  LowSize,          \* values of a register byte that is half a pointer
  BufferSize,       \* BUFFER_SIZE
  RingStart, RingEnd,   \* ERXST and ERXND as the driver programs them
  TxStart,          \* where the driver puts its frames
  BitsPerByte,      \* 8 in the chip
  Fcs,              \* bytes of the checksum the MAC appends
  MinLen, MaxLen,   \* 14 and ENC28J60_MAX_FRAME - Fcs
  PadTo,            \* length short frames are padded to
  CountMax,         \* the largest EPKTCNT
  TxLog,            \* ENC28J60_TX_LOG
  Filter,           \* ERXFCON as the driver programs it
  RxFrames, TxFrames, \* frames injected, with "to" and "len", and sent, with "len"
  MaxInjected, MaxSent, MaxRestarts   \* bounds

ASSUME EncAssumption ==
  /\ LowSize \in Nat \ {0} /\ BufferSize \in Nat \ {0} /\ BitsPerByte \in Nat \ {0}
  /\ RingStart \in Nat /\ RingEnd \in Nat /\ TxStart \in Nat /\ Filter \in Nat
  /\ RingStart < RingEnd /\ RingEnd < TxStart /\ TxStart < BufferSize
  /\ Fcs \in Nat /\ MinLen \in Nat /\ MaxLen \in Nat /\ PadTo \in Nat
  /\ CountMax \in Nat /\ TxLog \in Nat \ {0} /\ MaxRestarts \in Nat
  /\ \A f \in RxFrames : f.len \in Nat
  /\ \A f \in TxFrames : f.len \in 1..MaxLen /\ TxStart + f.len < BufferSize

Word == 65536        \* values of a uint16_t

(* A place in the buffer and a frame add up in one.                        *)
ASSUME WordAssumption == BufferSize + MaxLen + Fcs + 8 < Word

VARIABLES
  enc,        \* the fields of struct enc28j60
  spi,        \* the driver: program and step, bits sent, bytes got, next packet
  wire,       \* the host: frames injected, restarts left; what it did (history)
  unread,     \* frames accepted and not yet released by the driver (history)
  sent        \* lengths of the frames the driver sent (history)

encvars == <<enc, spi, wire, unread, sent>>

-----------------------------------------------------------------------------
(* Registers: <<bank, address>>, the five above 1AH in every bank.         *)

Slot(bank, addr) == IF addr >= 27 THEN <<0, addr>> ELSE <<bank, addr>>

ERDPT == 0
EWRPT == 2
ETXST == 4
ETXND == 6
ERXST == 8
ERXND == 10
ERXRDPT == 12
ERXWRPT == 14
ERXFCON == <<1, 24>>
EPKTCNT == <<1, 25>>
MACON3 == <<2, 2>>
EIR == <<0, 28>>
ESTAT == <<0, 29>>
ECON2 == <<0, 30>>
ECON1 == <<0, 31>>
TXRTS == 8
RXEN == 4
PKTDEC == 64

Registers ==
  {<<0, a>> : a \in 0..15} \cup {ERXFCON, EPKTCNT, MACON3, EIR, ESTAT, ECON2, ECON1}

ResetRegs ==         \* AUTOINC, CLKRDY and the default filter
  [r \in Registers |-> CASE r = ECON2 -> 128 [] r = ESTAT -> 1 [] r = ERXFCON -> 161 [] OTHER -> 0]

And(a, b) ==         \* the bits of two bytes both have
  LET both(bit) == bit * (((a \div bit) % 2) * ((b \div bit) % 2))
  IN  both(1) + both(2) + both(4) + both(8) + both(16) + both(32) + both(64) + both(128)

On(regs, r, bit)  == (regs[r] \div bit) % 2 = 1
Set(regs, r, byte) == [regs EXCEPT ![r] = @ + byte - And(@, byte)]
Clr(regs, r, byte) == [regs EXCEPT ![r] = @ - And(@, byte)]

Pair(regs, lo) == (regs[<<0, lo>>] + LowSize * regs[<<0, lo + 1>>]) % BufferSize
WithPair(regs, lo, v) == [regs EXCEPT ![<<0, lo>>] = v % LowSize, ![<<0, lo + 1>>] = v \div LowSize]

Bank(e) == e.regs[ECON1] % 4

NeedsDummy(bank, addr) == bank = 2 \/ (bank = 3 /\ (addr <= 5 \/ addr = 10))

-----------------------------------------------------------------------------
(* Buffer memory.                                                          *)

PeekRead(e) == e.buffer[Pair(e.regs, ERDPT)]

\* A read that runs straight out of the receive ring.
CommitReadStraight(e) ==
  [e EXCEPT !.regs = WithPair(@, ERDPT, (Pair(@, ERDPT) + 1) % BufferSize)]

CommitRead(e) ==
  LET p == Pair(e.regs, ERDPT)
  IN  [e EXCEPT !.regs = WithPair(@, ERDPT, IF p = Pair(@, ERXND) THEN Pair(@, ERXST)
                                            ELSE (p + 1) % BufferSize)]

CommitWrite(e, b) ==
  LET p == Pair(e.regs, EWRPT)
  IN  [e EXCEPT !.buffer[p] = b, !.regs = WithPair(@, EWRPT, (p + 1) % BufferSize)]

\* The control byte taken for the first byte of the frame.
FirstTxByteControl(st) == st

FirstTxByte(st) == (st + 1) % BufferSize

Capture(e) ==        \* the frame as it goes out, padded
  LET st == Pair(e.regs, ETXST)
      nd == Pair(e.regs, ETXND)
      p  == FirstTxByte(st)
      n  == IF nd < st THEN 0
            ELSE LET all == ((nd - p) % BufferSize) + 1
                 IN IF all < MaxLen + Fcs THEN all ELSE MaxLen + Fcs
      bytes == [k \in 1..n |-> e.buffer[(p + k - 1) % BufferSize]]
      pad   == IF e.regs[MACON3] >= 32 /\ n < PadTo THEN [k \in 1..PadTo - n |-> 0] ELSE <<>>
  IN  bytes \o pad

Transmitted(e) ==
  [e EXCEPT !.log[e.count % TxLog] = Capture(e), !.count = @ + 1,
            !.regs = Set(Clr(@, ECON1, TXRTS), EIR, 8)]

AfterRegisterWrite(e, bank, addr) ==
  LET dec  == IF e.regs[EPKTCNT] > 0 THEN e.regs[EPKTCNT] - 1 ELSE 0
      less == [e.regs EXCEPT ![EPKTCNT] = dec]
  IN  CASE addr = 31 /\ On(e.regs, ECON1, TXRTS) -> Transmitted(e)
        [] addr = 30 /\ On(e.regs, ECON2, PKTDEC) ->
             [e EXCEPT !.regs = Clr(IF dec = 0 THEN Clr(less, EIR, 64) ELSE less, ECON2, PKTDEC)]
        [] bank = 0 /\ addr \in {ERXST, ERXST + 1} ->
             [e EXCEPT !.rxWr = Pair(e.regs, ERXST),
                       !.regs = WithPair(@, ERXWRPT, Pair(@, ERXST))]
        [] OTHER -> e

-----------------------------------------------------------------------------
(* The SPI protocol.                                                       *)

SoftReset(e) == [e EXCEPT !.regs = ResetRegs, !.rxWr = 0]

RCR == 0
WCR == 64
BFS == 128
BFC == 160
RBM == 58
WBM == 122
SRC == 255

DecodeOpcode(e, byte) ==
  LET addr  == byte % 32
      dummy == byte - addr = RCR /\ NeedsDummy(Bank(e), addr)
      to    == [e EXCEPT !.op = byte - addr, !.addr = addr, !.dummy = dummy, !.out = 0]
  IN  CASE byte = SRC -> [SoftReset(e) EXCEPT !.op = SRC, !.out = 0]
        [] byte = RBM -> [e EXCEPT !.op = RBM, !.out = PeekRead(e)]
        [] byte = WBM -> [e EXCEPT !.op = WBM, !.out = 0]
        [] byte \notin {SRC, RBM, WBM} /\ byte - addr = RCR /\ ~dummy ->
             [to EXCEPT !.out = e.regs[Slot(Bank(e), addr)]]
        [] OTHER -> to

OnByteComplete(e, byte) ==
  LET slot == Slot(Bank(e), e.addr)
      written(regs) == LET w == [e EXCEPT !.regs = regs] IN AfterRegisterWrite(w, Bank(w), e.addr)
      read == CommitRead(e)
  IN  CASE e.index = 0 -> DecodeOpcode(e, byte)
        [] e.index > 0 /\ e.op = WCR -> written([e.regs EXCEPT ![slot] = byte])
        [] e.index > 0 /\ e.op = BFS -> written(Set(e.regs, slot, byte))
        [] e.index > 0 /\ e.op = BFC -> written(Clr(e.regs, slot, byte))
        [] e.index > 0 /\ e.op = RCR /\ e.dummy -> [e EXCEPT !.out = e.regs[slot], !.dummy = FALSE]
        [] e.index > 0 /\ e.op = RBM -> [read EXCEPT !.out = PeekRead(read)]
        [] e.index > 0 /\ e.op = WBM -> CommitWrite(e, byte)
        [] OTHER -> e

OnCsFalling(e) == [e EXCEPT !.lastCs = 0, !.shift = <<>>, !.index = 0, !.dummy = FALSE]

(* One rising edge of SCK.  The bits shifted in stand for <<byte, place>>; *)
(* bits of two bytes make a byte that is none of the opcodes.              *)
OnSckRising(e, byte, place) ==
  LET got  == Append(e.shift, <<byte, place>>)
      whole == \A k \in 1..BitsPerByte : got[k] = <<byte, k>>
      done == OnByteComplete(e, IF whole THEN byte ELSE 1)
  IN  IF Len(got) < BitsPerByte THEN [e EXCEPT !.shift = got]
      ELSE [done EXCEPT !.shift = <<>>, !.index = @ + 1]

-----------------------------------------------------------------------------
(* The wire.                                                               *)

FrameBytes(id, n) == [k \in 1..n |-> 100 + 10 * id + k]

Accepts(fc, to) ==
  LET want == (IF fc >= 128 THEN {"unicast"} ELSE {})
              \cup (IF fc % 2 = 1 THEN {"broadcast"} ELSE {})
              \cup (IF (fc \div 2) % 2 = 1 THEN {"multicast"} ELSE {})
  IN  \/ fc = 0
      \/ IF (fc \div 64) % 2 = 1 THEN want \subseteq {to} /\ And(fc, 28) = 0 ELSE to \in want

CRemainder(x, m) == IF x >= 0 THEN x % m ELSE -((-x) % m)   \* C's %

EncFree(used, need, size) == (used + need) % Word < size

Need(n) == LET total == 6 + n + Fcs IN total + (total % 2)   \* packets start on even addresses

InjectRx(id, f) ==   \* the buffer and registers afterwards, or "no"
  LET st == Pair(enc.regs, ERXST)
      nd == Pair(enc.regs, ERXND)
      size == nd - st + 1
      used == CRemainder(enc.rxWr + size - Pair(enc.regs, ERXRDPT), size) % Word
      next == st + ((enc.rxWr - st + Need(f.len)) % size)
      n    == f.len + Fcs
      bytes == <<next % LowSize, next \div LowSize, n % LowSize, n \div LowSize, 128,
                 CASE f.to = "broadcast" -> 3 [] f.to = "multicast" -> 1 [] OTHER -> 0>>
               \o FrameBytes(id, f.len) \o [k \in 1..Fcs |-> 0]
      place(k) == st + ((enc.rxWr - st + k - 1) % size)
      kept  == [a \in 0..BufferSize - 1 |->
                  IF \E k \in 1..Len(bytes) : place(k) = a
                  THEN bytes[CHOOSE k \in 1..Len(bytes) : place(k) = a] ELSE enc.buffer[a]]
      count == [enc.regs EXCEPT ![EPKTCNT] = IF @ < CountMax THEN @ + 1 ELSE @]
      ready == /\ f.len \in MinLen..MaxLen /\ On(enc.regs, ECON1, RXEN)
               /\ nd > st /\ Accepts(enc.regs[ERXFCON], f.to)
  IN  CASE ~ready -> [res |-> "no", enc |-> enc]
        [] ready /\ ~EncFree(used, Need(f.len), size) ->
             [res |-> "no", enc |-> [enc EXCEPT !.regs = Set(Set(@, EIR, 1), ESTAT, 64)]]
        [] OTHER ->
             [res |-> "ok",
              enc |-> [enc EXCEPT !.buffer = kept, !.rxWr = next,
                                  !.regs = Set(WithPair(count, ERXWRPT, next), EIR, 64)]]

-----------------------------------------------------------------------------
(* The driver.  A transaction is the bytes to send and how many more to    *)
(* clock in; "for" tells what its end means.  A program is a sequence of   *)
(* them.                                                                   *)

Sends(bytes)    == [for |-> "write", out |-> bytes, in |-> 0]
LowByte(lo, v)  == Sends(<<WCR + lo, v % LowSize>>)
HighByte(lo, v) == Sends(<<WCR + lo + 1, v \div LowSize>>)
LeaveBank       == Sends(<<BFC + 31, 3>>)
EnterBank(b)    == Sends(<<BFS + 31, b>>)

Setup ==
  <<Sends(<<SRC>>), LowByte(ERXST, RingStart), HighByte(ERXST, RingStart), LowByte(ERXND, RingEnd),
    HighByte(ERXND, RingEnd), LowByte(ERXRDPT, RingStart), HighByte(ERXRDPT, RingStart),
    LeaveBank, EnterBank(1), Sends(<<WCR + 24, Filter>>),
    LeaveBank, EnterBank(2), Sends(<<WCR + 2, 32>>),
    [for |-> "check", out |-> <<RCR + 2>>, in |-> 2], Sends(<<BFS + 31, RXEN>>)>>

Poll == <<LeaveBank, EnterBank(1), [for |-> "poll", out |-> <<RCR + 25>>, in |-> 1]>>

Receive(next) ==
  <<LeaveBank, EnterBank(0), LowByte(ERDPT, next), HighByte(ERDPT, next),
    [for |-> "packet", out |-> <<RBM>>, in |-> 6]>>

(* ERXRDPT goes one behind the next packet, so that it is odd.             *)
Behind(next) == IF next = RingStart THEN RingEnd ELSE next - 1

Release(next) ==
  <<LowByte(ERXRDPT, Behind(next)), HighByte(ERXRDPT, Behind(next)),
    [for |-> "release", out |-> <<BFS + 30, PKTDEC>>, in |-> 0]>>

Transmit(id, n) ==
  <<LeaveBank, EnterBank(0), LowByte(EWRPT, TxStart), HighByte(EWRPT, TxStart),
    Sends(<<WBM, 0>> \o FrameBytes(50 + id, n)),
    LowByte(ETXST, TxStart), HighByte(ETXST, TxStart), LowByte(ETXND, TxStart + n), HighByte(ETXND, TxStart + n),
    [for |-> "sent", out |-> <<BFS + 31, TXRTS>>, in |-> 0]>>

Booted == [doing |-> "setup", step |-> 1, bit |-> 0, byte |-> 0, got |-> <<>>,
           next |-> RingStart, selected |-> FALSE, id |-> 0, len |-> 0]

Program ==
  CASE spi.doing = "setup"    -> Setup
    [] spi.doing = "poll"     -> Poll
    [] spi.doing = "receive"  -> Receive(spi.next)
    [] spi.doing = "release"  -> Release(spi.next)
    [] spi.doing = "transmit" -> Transmit(spi.id, spi.len)

Over == spi.step > Len(Program)   \* the program is over
Now  == Program[spi.step]

StartPoll ==
  /\ Over
  /\ spi' = [spi EXCEPT !.doing = "poll", !.step = 1]
  /\ UNCHANGED <<enc, wire, unread, sent>>

StartTransmit(f) ==
  /\ Over /\ Len(sent) < MaxSent
  /\ spi' = [spi EXCEPT !.doing = "transmit", !.step = 1, !.id = Len(sent), !.len = f.len]
  /\ UNCHANGED <<enc, wire, unread, sent>>

Select ==
  /\ ~Over /\ ~spi.selected
  /\ enc' = IF enc.lastCs = 1 THEN OnCsFalling(enc) ELSE enc
  /\ spi' = [spi EXCEPT !.selected = TRUE, !.bit = 0, !.byte = 0, !.got = <<>>]
  /\ UNCHANGED <<wire, unread, sent>>

Wanted ==            \* bytes of the transaction: a packet's count is in its header
  Len(Now.out) + IF Now.for = "packet" /\ Len(spi.got) >= 7
                 THEN 6 + spi.got[4] + LowSize * spi.got[5] ELSE Now.in

ByteNow == IF spi.byte < Len(Now.out) THEN Now.out[spi.byte + 1] ELSE 0

Clock ==
  /\ spi.selected /\ spi.byte < Wanted
  /\ enc' = OnSckRising(enc, ByteNow, spi.bit + 1)
  /\ LET last == spi.bit + 1 = BitsPerByte
         done == last /\ spi.byte + 1 = Len(Now.out)
     IN  /\ spi' = [spi EXCEPT !.bit = (@ + 1) % BitsPerByte,
                               !.byte = IF last THEN @ + 1 ELSE @,
                               !.got = IF last THEN Append(@, enc.out) ELSE @]
         /\ unread' = CASE done /\ Now.out = <<SRC>> -> <<>>
                        [] done /\ Now.for = "release" -> Tail(unread)
                        [] OTHER -> unread
         /\ wire' = IF done /\ Now.out = <<SRC>>
                    THEN [wire EXCEPT !.laid = 0, !.torn = FALSE] ELSE wire
         /\ sent' = IF done /\ Now.for = "sent" THEN Append(sent, spi.len) ELSE sent

Deselect ==
  /\ spi.selected /\ spi.byte = Wanted
  /\ enc' = [enc EXCEPT !.lastCs = 1]
  /\ spi' = LET done == [spi EXCEPT !.selected = FALSE, !.step = @ + 1]
            IN CASE Now.for = "poll" /\ spi.got[2] > 0 ->
                      [done EXCEPT !.doing = "receive", !.step = 1]
                 [] Now.for = "packet" ->
                      [done EXCEPT !.doing = "release", !.step = 1,
                                   !.next = spi.got[2] + LowSize * spi.got[3]]
                 [] OTHER -> done
  /\ UNCHANGED <<wire, unread, sent>>

(* One byte of ERXRDPT is written and the other is not.                    *)
HalfWritten ==
  /\ ~Over
  /\ \/ Now.out[1] = WCR + ERXRDPT /\ spi.selected /\ spi.byte = 2
     \/ Now.out[1] = WCR + ERXRDPT + 1 /\ ~(spi.selected /\ spi.byte = 2)

(* History: "laid" counts the bytes laid in the ring since the last        *)
(* initialisation, an unread frame knows the count before it, and "torn"   *)
(* tells that one was accepted by a half-written ERXRDPT.                  *)
Inject(f) ==
  /\ wire.injected < MaxInjected
  /\ LET id == wire.injected
         r  == InjectRx(id, f)
     IN  /\ enc' = r.enc
         /\ \/ /\ r.res = "ok"
               /\ unread' = Append(unread, [id |-> id, len |-> f.len, at |-> wire.laid])
               /\ wire' = [wire EXCEPT !.injected = @ + 1, !.laid = @ + Need(f.len),
                                       !.torn = @ \/ HalfWritten]
            \/ /\ r.res = "no"
               /\ unread' = unread
               /\ wire' = [wire EXCEPT !.injected = @ + 1]
  /\ UNCHANGED <<spi, sent>>

(* A reset throws CS and SCK high unheard, wherever the transaction was;   *)
(* the firmware starts over by raising CS with the clock low.              *)
EncCpuReset ==
  /\ wire.restarts > 0
  /\ wire' = [wire EXCEPT !.restarts = @ - 1]
  /\ enc' = [enc EXCEPT !.lastCs = 1]
  /\ spi' = Booted
  /\ UNCHANGED <<unread, sent>>

EncInit ==
  /\ enc = [lastCs |-> 1, shift |-> <<>>, index |-> 0, op |-> 0, addr |-> 0, dummy |-> FALSE,
            out |-> 0, regs |-> ResetRegs, buffer |-> [a \in 0..BufferSize - 1 |-> 0],
            rxWr |-> 0, count |-> 0, log |-> [i \in 0..TxLog - 1 |-> <<>>]]
  /\ spi = Booted
  /\ wire = [injected |-> 0, restarts |-> MaxRestarts, laid |-> 0, torn |-> FALSE]
  /\ unread = <<>>
  /\ sent = <<>>

EncNext ==
  \/ StartPoll \/ (\E f \in TxFrames : StartTransmit(f))
  \/ Select \/ Clock \/ Deselect
  \/ (\E f \in RxFrames : Inject(f))
  \/ EncCpuReset

EncSpec == EncInit /\ [][EncNext]_encvars

-----------------------------------------------------------------------------
(***************************************************************************)
(* The driver reads the accepted frames whole and in the order they came,  *)
(* around the end of the ring, with frames refused when there is no room   *)
(* and transactions cut short by a reset, unless a frame was accepted      *)
(* while ERXRDPT was half written; and EPKTCNT never promises a frame that *)
(* is not there.                                                           *)
(***************************************************************************)
ReceivesInOrder ==
  /\ enc.regs[EPKTCNT] <= Len(unread)
  /\ ~wire.torn /\ spi.selected /\ ~Over /\ Now.for = "packet" /\ spi.byte = Wanted
       /\ Len(spi.got) > 7 =>
       SubSeq(spi.got, 8, 7 + unread[1].len) = FrameBytes(unread[1].id, unread[1].len)

(* The place of the byte laid after "n" others.                            *)
RingPlace(n) == RingStart + (n % (RingEnd - RingStart + 1))

(* The driver has read the first packet and not yet decremented the count. *)
Releasing == spi.doing = "release" /\ ~Over /\ ~(spi.step = 3 /\ spi.selected /\ spi.byte = 2)

(***************************************************************************)
(* "The model does not corrupt the chain by itself - its overflow drops    *)
(* the frame and leaves the pointers alone" (test_enc28j60_net.py:1014):   *)
(* every frame accepted and not yet read is in the ring as it came, its    *)
(* header naming the place of the next.                                    *)
(***************************************************************************)
ChainIsWhole ==
  \A i \in (IF Releasing THEN 2 ELSE 1)..Len(unread) :
    LET f == unread[i]
        byte(k) == enc.buffer[RingPlace(f.at + k)]
    IN  /\ byte(0) + LowSize * byte(1) = RingPlace(f.at + Need(f.len))
        /\ \A k \in 1..f.len : byte(5 + k) = FrameBytes(f.id, f.len)[k]

(***************************************************************************)
(* Each frame the driver sends is captured as it wrote it, padded, the     *)
(* latest TxLog of them under their own index.                             *)
(***************************************************************************)
TransmitsWhole ==
  LET n == Len(sent)
  IN  \A i \in (IF n > TxLog THEN n - TxLog ELSE 0)..n - 1 :
        LET len == sent[i + 1]
        IN  /\ enc.count = n
            /\ enc.log[i % TxLog] = FrameBytes(50 + i, len)
                                    \o [k \in 1..(IF len < PadTo THEN PadTo - len ELSE 0) |-> 0]

=============================================================================
