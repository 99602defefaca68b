------------------------------ MODULE EncProofs ------------------------------
(***************************************************************************)
(* The Ethernet controller's receive ring and transmit log, for any sizes, *)
(* frames, filter and order of SPI bits, injections and resets.            *)
(***************************************************************************)
EXTENDS Enc28j60, Numbers, SequenceTheorems, TLAPS

RingSize == RingEnd - RingStart + 1

Doings == {"setup", "poll", "receive", "release", "transmit"}

Chips ==
  [lastCs : {0, 1}, shift : Seq(Int \X Int), index : Nat, op : Int, addr : Int,
   dummy : BOOLEAN, out : Int, regs : [Registers -> Int],
   buffer : [0..BufferSize - 1 -> Int], rxWr : Int, count : Nat,
   log : [0..TxLog - 1 -> Seq(Int)]]

Drivers ==
  [doing : Doings, step : Nat \ {0}, bit : Nat, byte : Nat, got : Seq(Int), next : Int,
   selected : BOOLEAN, id : Nat, len : Nat]

Frames == [id : Nat, len : Nat, at : Nat]

EncTypeOK ==
  /\ enc \in Chips
  /\ spi \in Drivers
  /\ wire \in [injected : Nat, restarts : Nat, laid : Nat, torn : BOOLEAN]
  /\ unread \in Seq(Frames)
  /\ sent \in Seq(Nat)

(* Driver and chip agree on the byte and on the bit of it.                 *)
Opcode == Now.out[1]

InStep ==
  /\ spi.step <= Len(Program) + 1
  /\ Over => ~ spi.selected
  /\ ~ spi.selected => enc.lastCs = 1
  /\ spi.selected =>
       /\ spi.bit < BitsPerByte /\ enc.index = spi.byte
       /\ enc.shift = [k \in 1..spi.bit |-> <<ByteNow, k>>]
       /\ Len(spi.got) = spi.byte
       /\ spi.byte > 0 =>
            IF Opcode \in {SRC, RBM, WBM} THEN enc.op = Opcode
            ELSE enc.op = Opcode - (Opcode % 32) /\ enc.addr = Opcode % 32

(* The steps of the program whose effect has come.                         *)
Done == IF spi.selected /\ spi.byte >= Len(Now.out) THEN spi.step ELSE spi.step - 1

Reg(a) == enc.regs[<<0, a>>]

Holding(a, v) == Reg(a) = v % LowSize /\ Reg(a + 1) = v \div LowSize

(* The registers as far as the driver has written them.                    *)
SettingUp ==
  /\ spi.next = RingStart
  /\ Done \in 1..14 => unread = <<>> /\ ~ wire.torn /\ wire.laid = 0 /\ enc.regs[EPKTCNT] = 0
  /\ Done >= 1 =>
       /\ enc.regs[ECON2] = 128
       /\ enc.regs[ECON1] = IF Done >= 15 THEN 6 ELSE IF Done >= 12 THEN 2
                            ELSE IF Done >= 11 THEN 0 ELSE IF Done >= 9 THEN 1 ELSE 0
  /\ Done >= 2 => Reg(ERXST) = RingStart % LowSize
  /\ Done >= 3 => Reg(ERXST + 1) = RingStart \div LowSize
  /\ Done \in 3..14 => enc.rxWr = RingStart
  /\ Done >= 4 => Reg(ERXND) = RingEnd % LowSize
  /\ Done >= 5 => Reg(ERXND + 1) = RingEnd \div LowSize
  /\ Done >= 6 => Reg(ERXRDPT) = RingStart % LowSize
  /\ Done >= 7 => Reg(ERXRDPT + 1) = RingStart \div LowSize
  /\ Done >= 13 => enc.regs[MACON3] = 32

Running ==
  /\ Holding(ERXST, RingStart) /\ Holding(ERXND, RingEnd)
  /\ enc.regs[MACON3] = 32 /\ enc.regs[ECON2] = 128 /\ enc.regs[ECON1] \in {4, 5, 6}
  /\ spi.doing = "poll" /\ Done >= 1 => enc.regs[ECON1] = IF Done >= 2 THEN 5 ELSE 4
  /\ spi.doing \in {"receive", "transmit"} /\ Done >= 1 => enc.regs[ECON1] = 4
  /\ spi.doing = "release" => enc.regs[ECON1] = 4

Configured == IF spi.doing = "setup" THEN SettingUp ELSE Running

(* A packet has been read and not yet taken off the count.                 *)
Giving == spi.doing = "release" /\ Done < 3

(* What the poll has read is no more than the count.                       *)
Promised ==
  spi.doing = "poll" /\ spi.step = 3 /\ spi.selected =>
    /\ spi.byte = 1 => enc.out <= enc.regs[EPKTCNT]
    /\ spi.byte > 1 => spi.got[2] <= enc.regs[EPKTCNT]

Counted ==
  /\ enc.regs[EPKTCNT] \in 0..Len(unread)
  /\ Promised
  /\ spi.doing = "receive" \/ Giving => enc.regs[EPKTCNT] > 0

-----------------------------------------------------------------------------
(* The ring: bytes are laid from "Freed" up to wire.laid, less than a ring *)
(* full.                                                                   *)

After(f) == f.at + Need(f.len)

First == IF unread = <<>> THEN wire.laid ELSE IF Giving THEN After(unread[1]) ELSE unread[1].at

Freed == IF Giving /\ Done < 2 THEN unread[1].at ELSE First

(* ERXRDPT is one behind the bytes not freed, except at first.             *)
Gap == IF Freed = 0 THEN 0 ELSE 1

(* "v" may be byte "k" of packet "f" in the ring.                          *)
IsByte(f, k, v) ==
  /\ k = 0 => v = RingPlace(After(f)) % LowSize
  /\ k = 1 => v = RingPlace(After(f)) \div LowSize
  /\ k = 2 => v = (f.len + Fcs) % LowSize
  /\ k = 3 => v = (f.len + Fcs) \div LowSize
  /\ k \in 6..5 + f.len => v = FrameBytes(f.id, f.len)[k - 5]

IsWhole(f) == \A k \in 0..5 + f.len : IsByte(f, k, enc.buffer[RingPlace(f.at + k)])

Queued ==
  /\ \A i \in 1..Len(unread) : After(unread[i]) <= wire.laid
  /\ \A i, j \in 1..Len(unread) : i < j => After(unread[i]) <= unread[j].at
  /\ \A i \in 1..Len(unread) :
       After(unread[i]) = IF i < Len(unread) THEN unread[i + 1].at ELSE wire.laid
  /\ \A i \in 1..Len(unread) : ~ (Giving /\ i = 1) => IsWhole(unread[i])

Roomy ==
  /\ enc.rxWr = RingPlace(wire.laid)
  /\ spi.next = RingPlace(First)
  /\ wire.laid - Freed + Gap < RingSize
  /\ IF spi.doing = "release" /\ Done = 1
     THEN Reg(ERXRDPT) = Behind(spi.next) % LowSize
     ELSE Pair(enc.regs, ERXRDPT) = RingPlace(Freed - Gap)

Reading ==
  spi.doing = "receive" =>
    /\ Done = 3 => Reg(ERDPT) = spi.next % LowSize
    /\ Done >= 4 /\ ~ (spi.step = 5 /\ spi.selected /\ spi.byte > 0) =>
         Pair(enc.regs, ERDPT) = spi.next
    /\ spi.step = 5 /\ spi.selected /\ spi.byte > 0 =>
         /\ Pair(enc.regs, ERDPT) = RingPlace(unread[1].at + spi.byte - 1)
         /\ IsByte(unread[1], spi.byte - 1, enc.out)
         /\ \A k \in 2..spi.byte : IsByte(unread[1], k - 2, spi.got[k])

Up == spi.doing = "setup" => Done >= 15

InOrder == Up /\ ~ wire.torn => Queued /\ Roomy /\ Reading

-----------------------------------------------------------------------------
(* Transmission.                                                           *)

(* Bytes of the frame in the chip's memory.                                *)
Copied ==
  IF spi.step < 5 \/ (spi.step = 5 /\ (~ spi.selected \/ spi.byte < 2)) THEN 0
  ELSE IF spi.step = 5 THEN spi.byte - 2 ELSE spi.len

Sending ==
  spi.doing = "transmit" =>
    /\ spi.len \in 1..MaxLen /\ TxStart + spi.len < BufferSize
    /\ Done < 10 => spi.id = Len(sent)
    /\ Done = 3 => Reg(EWRPT) = TxStart % LowSize
    /\ Done >= 4 /\ spi.step <= 5 => Pair(enc.regs, EWRPT) =
         (TxStart + IF spi.step = 5 /\ spi.selected /\ spi.byte > 0 THEN spi.byte - 1 ELSE 0) % BufferSize
    /\ \A j \in 1..Copied : enc.buffer[TxStart + j] = FrameBytes(50 + spi.id, spi.len)[j]
    /\ Done >= 6 => Reg(ETXST) = TxStart % LowSize
    /\ Done >= 7 => Reg(ETXST + 1) = TxStart \div LowSize
    /\ Done >= 8 => Reg(ETXND) = (TxStart + spi.len) % LowSize
    /\ Done >= 9 => Reg(ETXND + 1) = (TxStart + spi.len) \div LowSize

Sent(i) ==
  enc.log[i % TxLog] =
    FrameBytes(50 + i, sent[i + 1])
    \o [k \in 1..(IF sent[i + 1] < PadTo THEN PadTo - sent[i + 1] ELSE 0) |-> 0]

Captured ==
  /\ enc.count = Len(sent)
  /\ \A i \in 0..Len(sent) - 1 : i >= Len(sent) - TxLog => Sent(i)

EncInv == EncTypeOK /\ InStep /\ Configured /\ Counted /\ InOrder /\ Sending /\ Captured

-----------------------------------------------------------------------------
(* Arithmetic.                                                             *)

Half == 0..BufferSize - 1

LEMMA AndInt == \A a, b \in Int : And(a, b) \in Int
BY DEF And

LEMMA ControlBits ==
  /\ And(0, 3) = 0 /\ And(1, 3) = 1 /\ And(4, 3) = 0 /\ And(5, 3) = 1 /\ And(6, 3) = 2
  /\ And(0, 1) = 0 /\ And(0, 2) = 0 /\ And(4, 1) = 0 /\ And(4, 0) = 0 /\ And(2, 4) = 0
  /\ And(4, 8) = 0 /\ And(12, 8) = 8 /\ And(128, 64) = 0 /\ And(192, 64) = 64
BY DEF And

LEMMA RegsInt ==
  ASSUME NEW regs \in [Registers -> Int], NEW r \in Registers, NEW b \in Int
  PROVE  /\ Set(regs, r, b) \in [Registers -> Int] /\ Clr(regs, r, b) \in [Registers -> Int]
         /\ \A s \in Registers : s # r => Set(regs, r, b)[s] = regs[s] /\ Clr(regs, r, b)[s] = regs[s]
         /\ Set(regs, r, b)[r] = regs[r] + b - And(regs[r], b)
         /\ Clr(regs, r, b)[r] = regs[r] - And(regs[r], b)
<1>1. And(regs[r], b) \in Int
  BY AndInt
<1> QED BY <1>1 DEF Set, Clr

LEMMA Names ==
  /\ {<<0, a>> : a \in 0..15} \subseteq Registers
  /\ {ERXFCON, EPKTCNT, MACON3, EIR, ESTAT, ECON2, ECON1} \subseteq Registers
BY DEF Registers

LEMMA PairInRange ==
  ASSUME NEW regs \in [Registers -> Int], NEW lo \in 0..14
  PROVE  Pair(regs, lo) \in Half
<1>1. regs[<<0, lo>>] \in Int /\ regs[<<0, lo + 1>>] \in Int
  <2>1. lo \in 0..15 /\ lo + 1 \in 0..15
    OBVIOUS
  <2> QED BY <2>1, Names
<1>2. regs[<<0, lo>>] + LowSize * regs[<<0, lo + 1>>] \in Int
  BY <1>1, EncAssumption
<1> QED BY <1>2, EncAssumption, DivisionOfInt DEF Pair, Half

LEMMA PairHeld ==
  ASSUME NEW regs, NEW lo, NEW v \in Half,
         regs[<<0, lo>>] = v % LowSize, regs[<<0, lo + 1>>] = v \div LowSize
  PROVE  Pair(regs, lo) = v
<1>1. v \in Nat /\ v = LowSize * (v \div LowSize) + (v % LowSize) /\ v % LowSize \in Int
      /\ v \div LowSize \in Int
  BY EncAssumption, Division DEF Half
<1>2. regs[<<0, lo>>] + LowSize * regs[<<0, lo + 1>>] = v
  BY <1>1, EncAssumption
<1> QED BY <1>2, EncAssumption, WithinTurn DEF Pair, Half

LEMMA HalvesInt ==
  ASSUME NEW v \in Int
  PROVE  v % LowSize \in Int /\ v \div LowSize \in Int
BY EncAssumption, DivisionOfInt

LEMMA WithPairHolds ==
  ASSUME NEW regs \in [Registers -> Int], NEW lo \in 0..14, NEW v \in Half
  PROVE  /\ WithPair(regs, lo, v) \in [Registers -> Int]
         /\ Pair(WithPair(regs, lo, v), lo) = v
         /\ \A r \in Registers : r # <<0, lo>> /\ r # <<0, lo + 1>> => WithPair(regs, lo, v)[r] = regs[r]
<1> DEFINE l == v % LowSize
           h == v \div LowSize
           w == WithPair(regs, lo, v)
<1>1. l \in Int /\ h \in Int
  BY HalvesInt DEF Half
<1>2. w = [regs EXCEPT ![<<0, lo>>] = l, ![<<0, lo + 1>>] = h]
  BY DEF WithPair
<1>3. <<0, lo>> \in Registers /\ <<0, lo + 1>> \in Registers /\ <<0, lo>> # <<0, lo + 1>>
  <2>1. lo \in 0..15 /\ lo + 1 \in 0..15 /\ lo # lo + 1
    OBVIOUS
  <2> QED BY <2>1, Names
<1> HIDE DEF l, h, w
<1>4. w \in [Registers -> Int] /\ w[<<0, lo>>] = l /\ w[<<0, lo + 1>>] = h
      /\ \A r \in Registers : r # <<0, lo>> /\ r # <<0, lo + 1>> => w[r] = regs[r]
  BY <1>1, <1>2, <1>3
<1>5. Pair(w, lo) = v
  BY <1>4, PairHeld DEF l, h
<1> QED BY <1>4, <1>5 DEF w

LEMMA RingInRange ==
  ASSUME NEW n \in Nat
  PROVE  RingPlace(n) \in RingStart..RingEnd /\ RingPlace(n) \in Half
<1> DEFINE s == RingEnd - RingStart + 1
           x == n % s
<1>1. s \in Nat \ {0}
  BY EncAssumption
<1> HIDE DEF s
<1>2. x \in 0..s - 1
  BY <1>1, Division
<1> HIDE DEF x
<1>3. RingPlace(n) = RingStart + x
  BY DEF RingPlace, x, s
<1> QED BY <1>2, <1>3, EncAssumption DEF s, Half

LEMMA NextPlace ==
  ASSUME NEW n \in Nat
  PROVE  RingPlace(n + 1) = IF RingPlace(n) = RingEnd THEN RingStart ELSE RingPlace(n) + 1
<1> DEFINE s == RingEnd - RingStart + 1
           x == n % s
           y == (n + 1) % s
<1>1. s \in Nat \ {0}
  BY EncAssumption
<1> HIDE DEF s
<1>2. x \in 0..s - 1 /\ y = IF x = s - 1 THEN 0 ELSE x + 1
  BY <1>1, Division, NextRemainder
<1> HIDE DEF x, y
<1>3. RingPlace(n) = RingStart + x /\ RingPlace(n + 1) = RingStart + y
  BY DEF RingPlace, x, y, s
<1> QED BY <1>2, <1>3, EncAssumption DEF s

(***************************************************************************)
(* Bytes laid less than a ring apart are in different places.              *)
(***************************************************************************)
LEMMA PlacesDiffer ==
  ASSUME NEW m \in Nat, NEW n \in Nat, m < n, n < m + RingSize
  PROVE  RingPlace(m) # RingPlace(n)
<1> DEFINE s == RingEnd - RingStart + 1
           x == m % s
           y == n % s
           d == n - m
<1>1. s \in Nat \ {0}
  BY EncAssumption
<1>0. d \in 1..s - 1
  BY EncAssumption DEF RingSize
<1> HIDE DEF s, d
<1>2. x \in 0..s - 1 /\ y \in 0..s - 1
  BY <1>1, Division
<1>3. y = (x + d) % s
  <2>1. d \in Int /\ m \in Int /\ m + d = n
    BY DEF d
  <2>2. ((m % s) + d) % s = (m + d) % s
    BY <1>1, <2>1, WholeTurns
  <2> QED BY <2>1, <2>2
<1> HIDE DEF x, y
<1>4. (x + d) % s # x
  <2>1. d \in 1 - s..s - 1 /\ d # 0
    BY <1>0, <1>1
  <2> QED BY <1>1, <1>2, <2>1, PartOfTurn
<1>5. RingPlace(m) = RingStart + x /\ RingPlace(n) = RingStart + y
  BY DEF RingPlace, x, y, s
<1> QED BY <1>2, <1>3, <1>4, <1>5, EncAssumption

LEMMA BehindNext ==
  ASSUME NEW n \in Nat \ {0}
  PROVE  Behind(RingPlace(n)) = RingPlace(n - 1)
<1> DEFINE m == n - 1
<1>1. m \in Nat /\ m + 1 = n
  OBVIOUS
<1> HIDE DEF m
<1>2. RingPlace(n) = IF RingPlace(m) = RingEnd THEN RingStart ELSE RingPlace(m) + 1
  BY <1>1, NextPlace
<1>3. RingPlace(m) \in RingStart..RingEnd
  BY <1>1, RingInRange
<1> QED BY <1>2, <1>3, EncAssumption DEF Behind, m

-----------------------------------------------------------------------------
(* What the chip does with a byte.                                         *)

(* Nothing but the SPI byte's own fields changes.                          *)
SameMemory(e, f) ==
  /\ f.regs = e.regs /\ f.buffer = e.buffer /\ f.rxWr = e.rxWr
  /\ f.count = e.count /\ f.log = e.log

LEMMA ReadInRange ==
  ASSUME NEW e \in Chips
  PROVE  PeekRead(e) \in Int /\ PeekRead(e) = e.buffer[Pair(e.regs, ERDPT)]
<1>1. Pair(e.regs, ERDPT) \in Half
  BY PairInRange DEF ERDPT, Chips
<1> QED BY <1>1 DEF Half, Chips, PeekRead

NextRead(p, regs) ==
  IF p = Pair(regs, ERXND) THEN Pair(regs, ERXST) ELSE (p + 1) % BufferSize

LEMMA NextReadInRange ==
  ASSUME NEW e \in Chips
  PROVE  NextRead(Pair(e.regs, ERDPT), e.regs) \in Half
<1> DEFINE p == Pair(e.regs, ERDPT)
           s == Pair(e.regs, ERXST)
           n == (p + 1) % BufferSize
<1>1. p \in Half /\ s \in Half
  BY PairInRange DEF ERDPT, ERXST, Chips
<1> HIDE DEF p, s
<1>2. n \in Half
  BY <1>1, EncAssumption, DivisionOfInt DEF Half
<1> HIDE DEF n
<1> QED BY <1>1, <1>2 DEF NextRead, p, s, n

LEMMA Reads ==
  ASSUME NEW e \in Chips
  PROVE  LET n == NextRead(Pair(e.regs, ERDPT), e.regs)
         IN  /\ CommitRead(e) = [e EXCEPT !.regs = WithPair(e.regs, ERDPT, n)]
             /\ CommitRead(e) \in Chips
<1> DEFINE n == NextRead(Pair(e.regs, ERDPT), e.regs)
           w == WithPair(e.regs, ERDPT, n)
<1>1. n \in Half /\ e.regs \in [Registers -> Int]
  BY NextReadInRange DEF Chips
<1>2. CommitRead(e) = [e EXCEPT !.regs = w]
  BY DEF CommitRead, NextRead, Chips
<1> HIDE DEF n
<1>3. w \in [Registers -> Int]
  BY <1>1, WithPairHolds DEF ERDPT
<1> HIDE DEF w
<1>4. [e EXCEPT !.regs = w] \in Chips
  BY <1>3 DEF Chips
<1> QED BY <1>2, <1>4 DEF n, w

LEMMA Writes ==
  ASSUME NEW e \in Chips, NEW b \in Int
  PROVE  LET p == Pair(e.regs, EWRPT)
         IN  /\ p \in Half
             /\ CommitWrite(e, b) =
                  [e EXCEPT !.buffer = [e.buffer EXCEPT ![p] = b],
                            !.regs = WithPair(e.regs, EWRPT, (p + 1) % BufferSize)]
             /\ CommitWrite(e, b) \in Chips
<1> DEFINE p == Pair(e.regs, EWRPT)
           n == (p + 1) % BufferSize
           w == WithPair(e.regs, EWRPT, n)
           m == [e.buffer EXCEPT ![p] = b]
<1>1. p \in Half /\ e.regs \in [Registers -> Int] /\ e.buffer \in [Half -> Int]
  BY PairInRange DEF Chips, EWRPT, Half
<1> HIDE DEF p
<1>2. n \in Half
  <2>1. p + 1 \in Int
    BY <1>1 DEF Half
  <2> QED BY <2>1, EncAssumption, DivisionOfInt DEF Half
<1> HIDE DEF n
<1>3. w \in [Registers -> Int]
  BY <1>1, <1>2, WithPairHolds DEF EWRPT
<1>4. m \in [Half -> Int]
  BY <1>1
<1>5. CommitWrite(e, b) = [e EXCEPT !.buffer = m, !.regs = w]
  BY DEF CommitWrite, Chips, p, n
<1> HIDE DEF w, m
<1>6. [e EXCEPT !.buffer = m, !.regs = w] \in Chips
  BY <1>3, <1>4 DEF Chips, Half
<1> QED BY <1>1, <1>5, <1>6 DEF p, n, w, m

LEMMA CaptureIsFrame ==
  ASSUME NEW e \in Chips
  PROVE  Capture(e) \in Seq(Int)
<1> DEFINE st == Pair(e.regs, ETXST)
           nd == Pair(e.regs, ETXND)
           p  == FirstTxByte(st)
           all == ((nd - p) % BufferSize) + 1
           n  == IF nd < st THEN 0 ELSE IF all < MaxLen + Fcs THEN all ELSE MaxLen + Fcs
           bytes == [k \in 1..n |-> e.buffer[(p + k - 1) % BufferSize]]
           pad   == IF e.regs[MACON3] >= 32 /\ n < PadTo THEN [k \in 1..PadTo - n |-> 0] ELSE <<>>
<1>1. st \in Half /\ nd \in Half /\ e.buffer \in [Half -> Int] /\ BufferSize \in Nat \ {0}
  BY PairInRange, EncAssumption DEF Chips, ETXST, ETXND, Half
<1> HIDE DEF st, nd
<1>2. p \in Int
  BY <1>1, DivisionOfInt DEF FirstTxByte, Half
<1> HIDE DEF p
<1>3. nd - p \in Int
  BY <1>1, <1>2 DEF Half
<1>4. all \in Nat
  BY <1>1, <1>3, DivisionOfInt
<1> HIDE DEF all
<1>5. n \in Nat
  BY <1>4, EncAssumption
<1> HIDE DEF n
<1>6. ASSUME NEW k \in 1..n PROVE e.buffer[(p + k - 1) % BufferSize] \in Int
  <2>1. p + k - 1 \in Int
    BY <1>2
  <2>2. (p + k - 1) % BufferSize \in Half
    BY <1>1, <2>1, DivisionOfInt DEF Half
  <2> QED BY <1>1, <2>2
<1>7. bytes \in Seq(Int)
  BY <1>5, <1>6
<1>8. pad \in Seq(Int)
  BY <1>5, EncAssumption
<1> HIDE DEF bytes, pad
<1>9. bytes \o pad \in Seq(Int)
  BY <1>7, <1>8
<1> QED BY <1>9 DEF Capture, bytes, pad, n, all, p, st, nd

LEMMA Transmits ==
  ASSUME NEW e \in Chips
  PROVE  LET r == Set(Clr(e.regs, ECON1, TXRTS), EIR, 8)
         IN  /\ Transmitted(e) = [e EXCEPT !.log = [e.log EXCEPT ![e.count % TxLog] = Capture(e)],
                                           !.count = e.count + 1, !.regs = r]
             /\ Transmitted(e) \in Chips
             /\ r[ECON1] = e.regs[ECON1] - And(e.regs[ECON1], TXRTS)
             /\ \A s \in Registers : s \notin {ECON1, EIR} => r[s] = e.regs[s]
<1> DEFINE c == Clr(e.regs, ECON1, TXRTS)
           r == Set(c, EIR, 8)
           l == [e.log EXCEPT ![e.count % TxLog] = Capture(e)]
           i == e.count % TxLog
<1>1. e.regs \in [Registers -> Int] /\ e.log \in [0..TxLog - 1 -> Seq(Int)] /\ e.count \in Nat
  BY DEF Chips
<1>2. c \in [Registers -> Int] /\ c[ECON1] = e.regs[ECON1] - And(e.regs[ECON1], TXRTS)
      /\ \A s \in Registers : s # ECON1 => c[s] = e.regs[s]
  <2>1. ECON1 \in Registers /\ TXRTS \in Int
    BY Names DEF TXRTS
  <2> QED BY <1>1, <2>1, RegsInt, ZenonT(40)
<1> HIDE DEF c
<1>3. r \in [Registers -> Int] /\ \A s \in Registers : s # EIR => r[s] = c[s]
  <2>1. EIR \in Registers /\ 8 \in Int
    BY Names
  <2> QED BY <1>2, <2>1, RegsInt
<1> HIDE DEF r
<1>4. i \in 0..TxLog - 1
  BY <1>1, EncAssumption, Division
<1> HIDE DEF i
<1>5. l \in [0..TxLog - 1 -> Seq(Int)]
  BY <1>1, <1>4, CaptureIsFrame DEF i
<1> HIDE DEF l
<1>6. Transmitted(e) = [e EXCEPT !.log = l, !.count = e.count + 1, !.regs = r]
  BY DEF Transmitted, l, r, c, i
<1>7. [e EXCEPT !.log = l, !.count = e.count + 1, !.regs = r] \in Chips
  <2> DEFINE n == e.count + 1
  <2>1. n \in Nat
    BY <1>1
  <2> HIDE DEF n
  <2>2. [e EXCEPT !.log = l, !.count = n, !.regs = r] \in Chips
    BY <1>3, <1>5, <2>1 DEF Chips
  <2> QED BY <2>2 DEF n
<1>8. ECON1 \in Registers /\ ECON1 # EIR
  BY Names DEF ECON1, EIR
<1> QED BY <1>2, <1>3, <1>6, <1>7, <1>8 DEF r, c, l, i

(* The fields a byte leaves alone while it is taken.                       *)
SameLine(e, f) == f \in Chips /\ f.lastCs = e.lastCs /\ f.index = e.index

LEMMA LineFields ==
  ASSUME NEW e \in Chips, NEW o \in Int, NEW a \in Int, NEW d \in BOOLEAN, NEW v \in Int
  PROVE  [e EXCEPT !.op = o, !.addr = a, !.dummy = d, !.out = v] \in Chips
BY DEF Chips

LEMMA MemoryFields ==
  ASSUME NEW e \in Chips, NEW regs \in [Registers -> Int], NEW p \in Int
  PROVE  [e EXCEPT !.rxWr = p, !.regs = regs] \in Chips /\ [e EXCEPT !.regs = regs, !.rxWr = p] \in Chips
BY DEF Chips

LEMMA CommandByte ==
  ASSUME NEW e \in Chips, NEW b \in 0..255, b - (b % 32) \in {WCR, BFS, BFC}, b \notin {SRC, WBM}
  PROVE  LET f == DecodeOpcode(e, b)
         IN  SameLine(e, f) /\ SameMemory(e, f) /\ f.op = b - (b % 32) /\ f.addr = b % 32
<1> DEFINE a == b % 32
           o == b - a
           d == o = RCR /\ NeedsDummy(Bank(e), a)
           f == [e EXCEPT !.op = o, !.addr = a, !.dummy = d, !.out = 0]
<1>1. a \in 0..31 /\ o \in {WCR, BFS, BFC} /\ o \in Int /\ b # RBM /\ o # RCR
  BY DEF RBM, WCR, BFS, BFC, RCR
<1>2. DecodeOpcode(e, b) = f
  <2> HIDE DEF a, o, d
  <2>1. DecodeOpcode(e, b) =
          CASE b = SRC -> [SoftReset(e) EXCEPT !.op = SRC, !.out = 0]
            [] b = RBM -> [e EXCEPT !.op = RBM, !.out = PeekRead(e)]
            [] b = WBM -> [e EXCEPT !.op = WBM, !.out = 0]
            [] b \notin {SRC, RBM, WBM} /\ o = RCR /\ ~ d ->
                 [f EXCEPT !.out = e.regs[Slot(Bank(e), a)]]
            [] OTHER -> f
    BY Zenon DEF DecodeOpcode, a, o, d
  <2> HIDE DEF f
  <2> QED BY <1>1, <2>1
<1>5. d \in BOOLEAN
  OBVIOUS
<1> HIDE DEF a, o, d
<1>3. f \in Chips
  <2>1. o \in Int /\ a \in Int /\ 0 \in Int
    BY <1>1
  <2> HIDE DEF f
  <2> QED BY <1>5, <2>1, LineFields DEF f
<1>4. f.lastCs = e.lastCs /\ f.index = e.index /\ SameMemory(e, f) /\ f.op = o /\ f.addr = a
  BY DEF Chips, SameMemory
<1> QED BY <1>2, <1>3, <1>4 DEF SameLine, a, o

LEMMA BufferByte ==
  ASSUME NEW e \in Chips, NEW b \in {RBM, WBM}
  PROVE  LET f == DecodeOpcode(e, b)
         IN  /\ SameLine(e, f) /\ SameMemory(e, f) /\ f.op = b
             /\ b = RBM => f.out = e.buffer[Pair(e.regs, ERDPT)]
<1> DEFINE o == IF b = RBM THEN PeekRead(e) ELSE 0
           f == [e EXCEPT !.op = b, !.out = o]
<1>1. o \in Int /\ b \in Int /\ (b = RBM => o = e.buffer[Pair(e.regs, ERDPT)])
  BY ReadInRange DEF RBM, WBM
<1>2. DecodeOpcode(e, b) = f
  <2>1. CASE b = RBM
    BY <2>1 DEF DecodeOpcode, RCR, SRC, RBM, WBM
  <2>2. CASE b = WBM
    BY <2>2 DEF DecodeOpcode, RCR, SRC, RBM, WBM
  <2> QED BY <2>1, <2>2
<1> HIDE DEF o
<1>3. f \in Chips
  BY <1>1 DEF Chips
<1>4. f.lastCs = e.lastCs /\ f.index = e.index /\ SameMemory(e, f) /\ f.op = b /\ f.out = o
  BY DEF Chips, SameMemory
<1> QED BY <1>1, <1>2, <1>3, <1>4 DEF SameLine

LEMMA RegisterReadByte ==
  ASSUME NEW e \in Chips, NEW b \in {RCR + 2, RCR + 25}, Bank(e) = IF b = RCR + 2 THEN 2 ELSE 1
  PROVE  LET f == DecodeOpcode(e, b)
         IN  /\ SameLine(e, f) /\ SameMemory(e, f) /\ f.op = RCR /\ f.addr = b % 32
             /\ b = RCR + 25 => f.out = e.regs[EPKTCNT]
<1> DEFINE a == b % 32
           o == b - a
           d == o = RCR /\ NeedsDummy(Bank(e), a)
           to == [e EXCEPT !.op = o, !.addr = a, !.dummy = d, !.out = 0]
           v == IF d THEN 0 ELSE e.regs[EPKTCNT]
           f == [e EXCEPT !.op = o, !.addr = a, !.dummy = d, !.out = v]
<1>1. a \in Int /\ o = RCR /\ o \in Int /\ b # SRC /\ b # RBM /\ b # WBM
  BY DEF RCR, SRC, RBM, WBM
<1>2. v \in Int
  BY Names DEF Chips
<1>3. IF d THEN b # RCR + 25 ELSE Slot(Bank(e), a) = EPKTCNT
  <2>1. CASE b = RCR + 2
    <3>1. NeedsDummy(Bank(e), a) /\ b # RCR + 25
      BY <2>1 DEF NeedsDummy, RCR
    <3> QED BY <1>1, <3>1
  <2>2. CASE b = RCR + 25
    <3>1. ~ NeedsDummy(Bank(e), a) /\ Slot(Bank(e), a) = EPKTCNT
      BY <2>2 DEF NeedsDummy, RCR, Slot, EPKTCNT
    <3> QED BY <1>1, <3>1
  <2> QED BY <2>1, <2>2
<1>6. DecodeOpcode(e, b) =
        CASE b = SRC -> [SoftReset(e) EXCEPT !.op = SRC, !.out = 0]
          [] b = RBM -> [e EXCEPT !.op = RBM, !.out = PeekRead(e)]
          [] b = WBM -> [e EXCEPT !.op = WBM, !.out = 0]
          [] b \notin {SRC, RBM, WBM} /\ o = RCR /\ ~ d ->
               [to EXCEPT !.out = e.regs[Slot(Bank(e), a)]]
          [] OTHER -> to
  <2> HIDE DEF a, o, d
  <2> QED BY Zenon DEF DecodeOpcode, a, o, d
<1>7. d \in BOOLEAN
  OBVIOUS
<1> HIDE DEF a, o, d
<1>8. DecodeOpcode(e, b) = f
  <2>1. DecodeOpcode(e, b) = IF d THEN to ELSE [to EXCEPT !.out = e.regs[EPKTCNT]]
    <3> HIDE DEF to
    <3> QED BY <1>1, <1>3, <1>6
  <2> QED BY <2>1 DEF Chips
<1> HIDE DEF v
<1>4. f \in Chips
  BY <1>1, <1>2, <1>7, LineFields
<1>5. f.lastCs = e.lastCs /\ f.index = e.index /\ SameMemory(e, f) /\ f.op = o /\ f.addr = a /\ f.out = v
  BY DEF Chips, SameMemory
<1> QED BY <1>1, <1>3, <1>4, <1>5, <1>8 DEF SameLine, v, a

LEMMA ResetByte ==
  ASSUME NEW e \in Chips
  PROVE  LET f == DecodeOpcode(e, SRC)
         IN  /\ SameLine(e, f) /\ f.op = SRC /\ f.regs = ResetRegs /\ f.rxWr = 0
             /\ f.buffer = e.buffer /\ f.count = e.count /\ f.log = e.log
<1> DEFINE f == [e EXCEPT !.regs = ResetRegs, !.rxWr = 0, !.op = SRC, !.out = 0]
<1>1. DecodeOpcode(e, SRC) = f
  BY DEF DecodeOpcode, SoftReset, SRC, RBM, WBM
<1>2. ResetRegs \in [Registers -> Int]
  BY DEF ResetRegs
<1>3. f \in Chips
  <2> DEFINE g == [e EXCEPT !.regs = ResetRegs, !.rxWr = 0]
  <2>1. g \in Chips
    <3>1. 0 \in Int
      OBVIOUS
    <3> QED BY <1>2, <3>1, MemoryFields
  <2>2. f = [g EXCEPT !.op = SRC, !.out = 0]
    OBVIOUS
  <2>3. SRC \in Int
    BY DEF SRC
  <2> HIDE DEF g
  <2> QED BY <2>1, <2>2, <2>3 DEF Chips
<1>4. f.lastCs = e.lastCs /\ f.index = e.index /\ f.op = SRC /\ f.regs = ResetRegs /\ f.rxWr = 0
      /\ f.buffer = e.buffer /\ f.count = e.count /\ f.log = e.log
  BY DEF Chips
<1> QED BY <1>1, <1>3, <1>4 DEF SameLine

(* A byte after the first, taken as the command says.                      *)
LEMMA DataByte ==
  ASSUME NEW e, NEW b, e.index \in Nat, e.index > 0
  PROVE  LET slot == Slot(Bank(e), e.addr)
             written(regs) ==
               LET w == [e EXCEPT !.regs = regs] IN AfterRegisterWrite(w, Bank(w), e.addr)
         IN  /\ e.op = WCR => OnByteComplete(e, b) = written([e.regs EXCEPT ![slot] = b])
             /\ e.op = BFS => OnByteComplete(e, b) = written(Set(e.regs, slot, b))
             /\ e.op = BFC => OnByteComplete(e, b) = written(Clr(e.regs, slot, b))
             /\ e.op = RCR => OnByteComplete(e, b) =
                                IF e.dummy THEN [e EXCEPT !.out = e.regs[slot], !.dummy = FALSE] ELSE e
             /\ e.op = RBM => OnByteComplete(e, b) =
                                [CommitRead(e) EXCEPT !.out = PeekRead(CommitRead(e))]
             /\ e.op = WBM => OnByteComplete(e, b) = CommitWrite(e, b)
<1> DEFINE slot == Slot(Bank(e), e.addr)
           written(regs) ==
             LET w == [e EXCEPT !.regs = regs] IN AfterRegisterWrite(w, Bank(w), e.addr)
           w1 == written([e.regs EXCEPT ![slot] = b])
           w2 == written(Set(e.regs, slot, b))
           w3 == written(Clr(e.regs, slot, b))
           r1 == [e EXCEPT !.out = e.regs[slot], !.dummy = FALSE]
           r2 == [CommitRead(e) EXCEPT !.out = PeekRead(CommitRead(e))]
           c1 == CommitWrite(e, b)
           d1 == DecodeOpcode(e, b)
<1>1. OnByteComplete(e, b) =
        CASE e.index = 0 -> d1
          [] e.index > 0 /\ e.op = WCR -> w1
          [] e.index > 0 /\ e.op = BFS -> w2
          [] e.index > 0 /\ e.op = BFC -> w3
          [] e.index > 0 /\ e.op = RCR /\ e.dummy -> r1
          [] e.index > 0 /\ e.op = RBM -> r2
          [] e.index > 0 /\ e.op = WBM -> c1
          [] OTHER -> e
  BY Zenon DEF OnByteComplete
<1> HIDE DEF w1, w2, w3, r1, r2, c1, d1
<1>2. /\ e.op = WCR => OnByteComplete(e, b) = w1
      /\ e.op = BFS => OnByteComplete(e, b) = w2
      /\ e.op = BFC => OnByteComplete(e, b) = w3
      /\ e.op = RCR => OnByteComplete(e, b) = IF e.dummy THEN r1 ELSE e
      /\ e.op = RBM => OnByteComplete(e, b) = r2
      /\ e.op = WBM => OnByteComplete(e, b) = c1
  BY <1>1 DEF WCR, BFS, BFC, RCR, RBM, WBM
<1> QED BY <1>2, Zenon DEF w1, w2, w3, r1, r2, c1

LEMMA SlotOfBank0 ==
  \A a \in 0..15 : Slot(0, a) = <<0, a>> /\ <<0, a>> \in Registers /\ <<0, a>> # ECON1
BY Names DEF Slot, ECON1

LEMMA SlotOfAll ==
  \A bank : Slot(bank, 31) = ECON1 /\ Slot(bank, 30) = ECON2
BY DEF Slot, ECON1, ECON2

(***************************************************************************)
(* A register byte written.                                                *)
(***************************************************************************)
Stored(e, a, b) ==
  LET w == [e.regs EXCEPT ![<<0, a>>] = b]
  IN  IF a \in {ERXST, ERXST + 1} THEN WithPair(w, ERXWRPT, Pair(w, ERXST)) ELSE w

LEMMA StoredIs ==
  ASSUME NEW e \in Chips, NEW a \in 0..15, NEW b \in Int
  PROVE  /\ Stored(e, a, b) \in [Registers -> Int]
         /\ a \notin {14, 15} => Stored(e, a, b)[<<0, a>>] = b
         /\ \A r \in Registers : r \notin {<<0, a>>, <<0, 14>>, <<0, 15>>} => Stored(e, a, b)[r] = e.regs[r]
         /\ a \notin {8, 9} => \A r \in Registers : r # <<0, a>> => Stored(e, a, b)[r] = e.regs[r]
<1> DEFINE w == [e.regs EXCEPT ![<<0, a>>] = b]
           p == Pair(w, ERXST)
           x == WithPair(w, ERXWRPT, p)
<1>1. w \in [Registers -> Int] /\ w[<<0, a>>] = b /\ \A r \in Registers : r # <<0, a>> => w[r] = e.regs[r]
  BY Names DEF Chips
<1> HIDE DEF w
<1>2. p \in Half
  BY <1>1, PairInRange DEF ERXST
<1> HIDE DEF p
<1>3. x \in [Registers -> Int] /\ \A r \in Registers : r # <<0, 14>> /\ r # <<0, 15>> => x[r] = w[r]
  BY <1>1, <1>2, WithPairHolds DEF ERXWRPT
<1> HIDE DEF x
<1>4. Stored(e, a, b) = IF a \in {8, 9} THEN x ELSE w
  BY DEF Stored, ERXST, w, x, p
<1>5. a \notin {14, 15} => <<0, a>> \in Registers /\ <<0, a>> # <<0, 14>> /\ <<0, a>> # <<0, 15>>
  BY Names
<1> QED BY <1>1, <1>3, <1>4, <1>5

LEMMA PointerByte ==
  ASSUME NEW e \in Chips, NEW a \in 0..15, NEW b \in Int,
         e.index > 0, e.op = WCR, e.addr = a, Bank(e) = 0
  PROVE  LET f == OnByteComplete(e, b)
         IN  /\ SameLine(e, f) /\ f.op = e.op /\ f.addr = e.addr /\ f.regs = Stored(e, a, b)
             /\ f.buffer = e.buffer /\ f.count = e.count /\ f.log = e.log
             /\ f.rxWr = IF a \in {8, 9} THEN Pair(f.regs, ERXST) ELSE e.rxWr
<1> DEFINE w == [e.regs EXCEPT ![<<0, a>>] = b]
           g == [e EXCEPT !.regs = w]
           p == Pair(w, ERXST)
           x == WithPair(w, ERXWRPT, p)
           f == [e EXCEPT !.rxWr = p, !.regs = x]
<1>1. w \in [Registers -> Int] /\ w[ECON1] = e.regs[ECON1]
  BY SlotOfBank0, Names DEF Chips
<1>2. g.regs = w /\ g.rxWr = e.rxWr /\ Bank(g) = 0
  BY <1>1 DEF Chips, Bank
<1>3. OnByteComplete(e, b) = AfterRegisterWrite(g, 0, a)
  <2>1. Slot(Bank(e), e.addr) = <<0, a>> /\ e.index \in Nat
    BY SlotOfBank0 DEF Chips
  <2> DEFINE u == [e.regs EXCEPT ![Slot(Bank(e), e.addr)] = b]
             h == [e EXCEPT !.regs = u]
  <2>2. OnByteComplete(e, b) = AfterRegisterWrite(h, Bank(h), e.addr)
    BY <2>1, DataByte
  <2>3. h = g
    BY <2>1
  <2> HIDE DEF g, h
  <2> QED BY <1>2, <2>2, <2>3
<1>4. p \in Half
  BY <1>1, PairInRange DEF ERXST
<1>5. x \in [Registers -> Int] /\ Pair(x, ERXST) = p
  <2> HIDE DEF w, p
  <2>1. x \in [Registers -> Int] /\ \A r \in Registers : r # <<0, 14>> /\ r # <<0, 15>> => x[r] = w[r]
    BY <1>1, <1>4, WithPairHolds DEF ERXWRPT
  <2>2. x[<<0, 8>>] = w[<<0, 8>>] /\ x[<<0, 9>>] = w[<<0, 9>>]
    BY <2>1, Names
  <2> QED BY <2>1, <2>2 DEF Pair, ERXST, p
<1>6. CASE a \in {8, 9}
  <2>1. AfterRegisterWrite(g, 0, a) = f
    <3>1. AfterRegisterWrite(g, 0, a) = [g EXCEPT !.rxWr = Pair(g.regs, ERXST),
                                                  !.regs = WithPair(@, ERXWRPT, Pair(@, ERXST))]
      BY <1>6 DEF AfterRegisterWrite, ERXST
    <3> HIDE DEF w
    <3> QED BY <1>2, <3>1 DEF Chips
  <2>2. Stored(e, a, b) = x
    BY <1>6 DEF Stored, ERXST
  <2> HIDE DEF x, p, w
  <2>4. p \in Int
    BY <1>4 DEF Half
  <2>5. f \in Chips
    BY <1>5, <2>4, MemoryFields
  <2>3. f.regs = x /\ f.rxWr = p /\ f.lastCs = e.lastCs /\ f.index = e.index /\ f.op = e.op
        /\ f.addr = e.addr /\ f.buffer = e.buffer /\ f.count = e.count /\ f.log = e.log
    BY DEF Chips
  <2> QED BY <1>3, <1>5, <1>6, <2>1, <2>2, <2>3, <2>5 DEF SameLine
<1>7. CASE a \notin {8, 9}
  <2>1. AfterRegisterWrite(g, 0, a) = g
    BY <1>7 DEF AfterRegisterWrite, ERXST
  <2>2. Stored(e, a, b) = w
    BY <1>7 DEF Stored, ERXST
  <2> HIDE DEF w
  <2>3. g \in Chips /\ g.lastCs = e.lastCs /\ g.index = e.index /\ g.op = e.op
        /\ g.addr = e.addr /\ g.buffer = e.buffer /\ g.count = e.count /\ g.log = e.log
    BY <1>1 DEF Chips
  <2> QED BY <1>2, <1>3, <1>7, <2>1, <2>2, <2>3 DEF SameLine
<1> QED BY <1>6, <1>7

LEMMA SettingByte ==
  ASSUME NEW e \in Chips, NEW b \in Int, e.index > 0, e.op = WCR,
         NEW r \in {ERXFCON, MACON3}, r = Slot(Bank(e), e.addr), e.addr = r[2], Bank(e) = r[1]
  PROVE  LET f == OnByteComplete(e, b)
         IN  /\ SameLine(e, f) /\ f.op = e.op /\ f.addr = e.addr /\ f.regs = [e.regs EXCEPT ![r] = b]
             /\ f.buffer = e.buffer /\ f.count = e.count /\ f.log = e.log /\ f.rxWr = e.rxWr
<1> DEFINE w == [e.regs EXCEPT ![r] = b]
           g == [e EXCEPT !.regs = w]
<1>1. w \in [Registers -> Int] /\ w[ECON1] = e.regs[ECON1]
  <2>1. r \in Registers /\ ECON1 \in Registers /\ r # ECON1
    BY Names DEF ECON1, ERXFCON, MACON3
  <2>2. e.regs \in [Registers -> Int]
    BY DEF Chips
  <2> QED BY <2>1, <2>2
<1>2. g.regs = w /\ Bank(g) = Bank(e)
  BY <1>1 DEF Chips, Bank
<1>3. OnByteComplete(e, b) = AfterRegisterWrite(g, Bank(e), e.addr)
  <2>1. e.index \in Nat
    BY DEF Chips
  <2>2. OnByteComplete(e, b) = AfterRegisterWrite(g, Bank(g), e.addr)
    BY <2>1, DataByte
  <2> QED BY <1>2, <2>2
<1>4. Bank(e) # 0 /\ e.addr # 31 /\ e.addr # 30
  BY DEF ERXFCON, MACON3
<1>5. AfterRegisterWrite(g, Bank(e), e.addr) = g
  BY <1>4 DEF AfterRegisterWrite
<1> HIDE DEF w
<1>6. g \in Chips /\ g.lastCs = e.lastCs /\ g.index = e.index /\ g.op = e.op /\ g.rxWr = e.rxWr
      /\ g.addr = e.addr /\ g.buffer = e.buffer /\ g.count = e.count /\ g.log = e.log
  BY <1>1 DEF Chips
<1> QED BY <1>2, <1>3, <1>5, <1>6 DEF SameLine, w

(***************************************************************************)
(* Bits of ECON1 set or cleared: the bank, or receiving, without sending.  *)
(***************************************************************************)
LEMMA BankByte ==
  ASSUME NEW e \in Chips, NEW b \in Int, NEW c \in 0..7, e.index > 0, e.op \in {BFS, BFC}, e.addr = 31,
         c = IF e.op = BFS THEN e.regs[ECON1] + b - And(e.regs[ECON1], b)
             ELSE e.regs[ECON1] - And(e.regs[ECON1], b)
  PROVE  LET f == OnByteComplete(e, b)
         IN  /\ SameLine(e, f) /\ f.op = e.op /\ f.addr = e.addr /\ f.regs = [e.regs EXCEPT ![ECON1] = c]
             /\ f.buffer = e.buffer /\ f.count = e.count /\ f.log = e.log /\ f.rxWr = e.rxWr
<1> DEFINE w == [e.regs EXCEPT ![ECON1] = c]
           g == [e EXCEPT !.regs = w]
<1>1. w \in [Registers -> Int] /\ w[ECON1] = c
  <2>1. ECON1 \in Registers /\ e.regs \in [Registers -> Int]
    BY Names DEF Chips
  <2> QED BY <2>1
<1>2. e.index \in Nat /\ Slot(Bank(e), e.addr) = ECON1 /\ BFS # BFC
  BY SlotOfAll DEF Chips, BFS, BFC
<1>3. OnByteComplete(e, b) = AfterRegisterWrite(g, Bank(g), 31)
  <2>1. CASE e.op = BFS
    <3> DEFINE u == Set(e.regs, Slot(Bank(e), e.addr), b)
               h == [e EXCEPT !.regs = u]
    <3>1. OnByteComplete(e, b) = AfterRegisterWrite(h, Bank(h), e.addr)
      BY <1>2, <2>1, DataByte
    <3>2. u = w
      BY <1>2, <2>1 DEF Set
    <3> HIDE DEF u, w
    <3> QED BY <3>1, <3>2
  <2>2. CASE e.op = BFC
    <3> DEFINE u == Clr(e.regs, Slot(Bank(e), e.addr), b)
               h == [e EXCEPT !.regs = u]
    <3>1. OnByteComplete(e, b) = AfterRegisterWrite(h, Bank(h), e.addr)
      BY <1>2, <2>2, DataByte
    <3>2. u = w
      BY <1>2, <2>2 DEF Clr
    <3> HIDE DEF u, w
    <3> QED BY <3>1, <3>2
  <2> QED BY <2>1, <2>2
<1> HIDE DEF w
<1>4. g \in Chips /\ g.lastCs = e.lastCs /\ g.index = e.index /\ g.op = e.op /\ g.rxWr = e.rxWr
      /\ g.addr = e.addr /\ g.buffer = e.buffer /\ g.count = e.count /\ g.log = e.log /\ g.regs = w
  BY <1>1 DEF Chips
<1>5. ~ On(g.regs, ECON1, TXRTS)
  <2>1. (c \div 8) % 2 = 0
    OBVIOUS
  <2> QED BY <1>1, <1>4, <2>1 DEF On, TXRTS
<1>6. AfterRegisterWrite(g, Bank(g), 31) = g
  <2> HIDE DEF g
  <2> QED BY <1>5 DEF AfterRegisterWrite, ERXST
<1> QED BY <1>3, <1>4, <1>6 DEF SameLine, w

(***************************************************************************)
(* ECON1.TXRTS set.                                                        *)
(***************************************************************************)
LEMMA CaptureSame ==
  ASSUME NEW e \in Chips, NEW f \in Chips, f.buffer = e.buffer, f.regs[MACON3] = e.regs[MACON3],
         Pair(f.regs, ETXST) = Pair(e.regs, ETXST), Pair(f.regs, ETXND) = Pair(e.regs, ETXND)
  PROVE  Capture(f) = Capture(e)
BY DEF Capture

Decremented(e) ==
  LET dec  == IF e.regs[EPKTCNT] > 0 THEN e.regs[EPKTCNT] - 1 ELSE 0
      less == [e.regs EXCEPT ![EPKTCNT] = dec]
  IN  [e EXCEPT !.regs = Clr(IF dec = 0 THEN Clr(less, EIR, 64) ELSE less, ECON2, PKTDEC)]

LEMMA AfterControl ==
  ASSUME NEW e, NEW bank
  PROVE  /\ On(e.regs, ECON1, TXRTS) => AfterRegisterWrite(e, bank, 31) = Transmitted(e)
         /\ On(e.regs, ECON2, PKTDEC) => AfterRegisterWrite(e, bank, 30) = Decremented(e)
<1> DEFINE t == Transmitted(e)
           d == Decremented(e)
           s == [e EXCEPT !.rxWr = Pair(e.regs, ERXST),
                          !.regs = WithPair(@, ERXWRPT, Pair(@, ERXST))]
           After31(a) == CASE a = 31 /\ On(e.regs, ECON1, TXRTS) -> t
                           [] a = 30 /\ On(e.regs, ECON2, PKTDEC) -> d
                           [] bank = 0 /\ a \in {ERXST, ERXST + 1} -> s
                           [] OTHER -> e
<1>1. ASSUME NEW a PROVE AfterRegisterWrite(e, bank, a) = After31(a)
  BY Zenon DEF AfterRegisterWrite, Decremented
<1> HIDE DEF t, d, s
<1>2. /\ On(e.regs, ECON1, TXRTS) => After31(31) = t
      /\ On(e.regs, ECON2, PKTDEC) => After31(30) = d
  BY DEF ERXST
<1> QED BY <1>1, <1>2 DEF t, d

LEMMA SendByte ==
  ASSUME NEW e \in Chips, e.index > 0, e.op = BFS, e.addr = 31, e.regs[ECON1] = 4
  PROVE  LET f == OnByteComplete(e, TXRTS)
         IN  /\ SameLine(e, f) /\ f.op = e.op /\ f.addr = e.addr /\ f.regs[ECON1] = 4
             /\ \A r \in Registers : r \notin {ECON1, EIR} => f.regs[r] = e.regs[r]
             /\ f.buffer = e.buffer /\ f.rxWr = e.rxWr /\ f.count = e.count + 1
             /\ f.log = [e.log EXCEPT ![e.count % TxLog] = Capture(e)]
<1> DEFINE w == [e.regs EXCEPT ![ECON1] = 12]
           g == [e EXCEPT !.regs = w]
           u == Set(e.regs, Slot(Bank(e), e.addr), TXRTS)
           h == [e EXCEPT !.regs = u]
<1>0. ECON1 \in Registers /\ e.regs \in [Registers -> Int] /\ ECON1 # MACON3
      /\ \A a \in 0..15 : <<0, a>> \in Registers /\ <<0, a>> # ECON1
  BY Names, SlotOfBank0 DEF Chips, ECON1, MACON3
<1>1. w \in [Registers -> Int] /\ w[ECON1] = 12 /\ \A r \in Registers : r # ECON1 => w[r] = e.regs[r]
  BY <1>0
<1>2. e.index \in Nat /\ Slot(Bank(e), e.addr) = ECON1
  BY SlotOfAll DEF Chips
<1>3. OnByteComplete(e, TXRTS) = AfterRegisterWrite(g, Bank(g), 31)
  <2>1. OnByteComplete(e, TXRTS) = AfterRegisterWrite(h, Bank(h), e.addr)
    BY <1>2, DataByte
  <2>2. u = w
    BY <1>2, ControlBits DEF Set, TXRTS
  <2> HIDE DEF u, w
  <2> QED BY <2>1, <2>2
<1> HIDE DEF w
<1>4. g \in Chips /\ g.lastCs = e.lastCs /\ g.index = e.index /\ g.op = e.op /\ g.rxWr = e.rxWr
      /\ g.addr = e.addr /\ g.buffer = e.buffer /\ g.count = e.count /\ g.log = e.log /\ g.regs = w
  BY <1>1 DEF Chips
<1>5. On(g.regs, ECON1, TXRTS)
  BY <1>1, <1>4 DEF On, TXRTS
<1> HIDE DEF g
<1>6. AfterRegisterWrite(g, Bank(g), 31) = Transmitted(g)
  BY <1>5, AfterControl
<1>7. Capture(g) = Capture(e)
  <2>1. w[MACON3] = e.regs[MACON3]
    BY <1>0, <1>1, Names
  <2>2. w[<<0, 4>>] = e.regs[<<0, 4>>] /\ w[<<0, 5>>] = e.regs[<<0, 5>>]
        /\ w[<<0, 6>>] = e.regs[<<0, 6>>] /\ w[<<0, 7>>] = e.regs[<<0, 7>>]
    BY <1>0, <1>1
  <2>3. Pair(w, ETXST) = Pair(e.regs, ETXST) /\ Pair(w, ETXND) = Pair(e.regs, ETXND)
    BY <2>2 DEF Pair, ETXST, ETXND
  <2> QED BY <1>4, <2>1, <2>3, CaptureSame
<1> DEFINE r == Set(Clr(g.regs, ECON1, TXRTS), EIR, 8)
           t == Transmitted(g)
<1>8. /\ t = [g EXCEPT !.log = [g.log EXCEPT ![g.count % TxLog] = Capture(g)],
                       !.count = g.count + 1, !.regs = r]
      /\ t \in Chips
      /\ r[ECON1] = g.regs[ECON1] - And(g.regs[ECON1], TXRTS)
      /\ \A s \in Registers : s \notin {ECON1, EIR} => r[s] = g.regs[s]
  BY <1>4, Transmits
<1> HIDE DEF r
<1>9. r[ECON1] = 4
  BY <1>1, <1>4, <1>8, ControlBits DEF TXRTS
<1>10. /\ t.log = [g.log EXCEPT ![g.count % TxLog] = Capture(g)] /\ t.count = g.count + 1 /\ t.regs = r
       /\ t.lastCs = g.lastCs /\ t.index = g.index /\ t.op = g.op /\ t.rxWr = g.rxWr
       /\ t.addr = g.addr /\ t.buffer = g.buffer
  <2> DEFINE l == [g.log EXCEPT ![g.count % TxLog] = Capture(g)]
             n == g.count + 1
  <2>1. t = [g EXCEPT !.log = l, !.count = n, !.regs = r]
    BY <1>8
  <2> HIDE DEF l, n, t
  <2>2. t.log = l /\ t.count = n /\ t.regs = r
        /\ t.lastCs = g.lastCs /\ t.index = g.index /\ t.op = g.op /\ t.rxWr = g.rxWr
        /\ t.addr = g.addr /\ t.buffer = g.buffer
    BY <1>4, <2>1 DEF Chips
  <2> QED BY <2>2 DEF l, n
<1> HIDE DEF t
<1>11. OnByteComplete(e, TXRTS) = t
  BY <1>3, <1>6 DEF t
<1>12. t.log = [e.log EXCEPT ![e.count % TxLog] = Capture(e)]
  BY <1>4, <1>7, <1>10
<1> QED BY <1>1, <1>4, <1>8, <1>9, <1>10, <1>11, <1>12 DEF SameLine

(***************************************************************************)
(* ECON2.PKTDEC set.                                                       *)
(***************************************************************************)
LEMMA CountByte ==
  ASSUME NEW e \in Chips, e.index > 0, e.op = BFS, e.addr = 30, e.regs[ECON2] = 128
  PROVE  LET f == OnByteComplete(e, PKTDEC)
         IN  /\ SameLine(e, f) /\ f.op = e.op /\ f.addr = e.addr /\ f.regs[ECON2] = 128
             /\ f.regs[EPKTCNT] = IF e.regs[EPKTCNT] > 0 THEN e.regs[EPKTCNT] - 1 ELSE 0
             /\ \A r \in Registers : r \notin {ECON2, EPKTCNT, EIR} => f.regs[r] = e.regs[r]
             /\ f.buffer = e.buffer /\ f.rxWr = e.rxWr /\ f.count = e.count /\ f.log = e.log
<1> DEFINE w == [e.regs EXCEPT ![ECON2] = 192]
           g == [e EXCEPT !.regs = w]
           u == Set(e.regs, Slot(Bank(e), e.addr), PKTDEC)
           h == [e EXCEPT !.regs = u]
           d == IF w[EPKTCNT] > 0 THEN w[EPKTCNT] - 1 ELSE 0
           less == [w EXCEPT ![EPKTCNT] = d]
           c == Clr(less, EIR, 64)
           i == IF d = 0 THEN c ELSE less
           r == Clr(i, ECON2, PKTDEC)
           f == [g EXCEPT !.regs = r]
<1>0. /\ {ECON2, EPKTCNT, EIR} \subseteq Registers /\ e.regs \in [Registers -> Int]
      /\ ECON2 # EPKTCNT /\ ECON2 # EIR /\ EPKTCNT # EIR /\ 64 \in Int /\ PKTDEC \in Int
  BY Names DEF Chips, ECON2, EPKTCNT, EIR, PKTDEC
<1>1. w \in [Registers -> Int] /\ w[ECON2] = 192 /\ \A s \in Registers : s # ECON2 => w[s] = e.regs[s]
  BY <1>0
<1>2. e.index \in Nat /\ Slot(Bank(e), e.addr) = ECON2
  BY SlotOfAll DEF Chips
<1>3. OnByteComplete(e, PKTDEC) = AfterRegisterWrite(g, Bank(g), 30)
  <2>1. OnByteComplete(e, PKTDEC) = AfterRegisterWrite(h, Bank(h), e.addr)
    BY <1>2, DataByte
  <2>2. u = w
    BY <1>2, ControlBits DEF Set, PKTDEC
  <2> HIDE DEF u, w
  <2> QED BY <1>2, <2>1, <2>2
<1> HIDE DEF w
<1>4. g \in Chips /\ g.lastCs = e.lastCs /\ g.index = e.index /\ g.op = e.op /\ g.rxWr = e.rxWr
      /\ g.addr = e.addr /\ g.buffer = e.buffer /\ g.count = e.count /\ g.log = e.log /\ g.regs = w
  BY <1>1 DEF Chips
<1> HIDE DEF g
<1>5. On(g.regs, ECON2, PKTDEC)
  BY <1>1, <1>4 DEF On, PKTDEC
<1>6. AfterRegisterWrite(g, Bank(g), 30) = f
  <2>1. AfterRegisterWrite(g, Bank(g), 30) = Decremented(g)
    BY <1>5, AfterControl
  <2>2. Decremented(g) = f
    BY <1>4 DEF Decremented
  <2> QED BY <2>1, <2>2
<1>7. d \in Int /\ d = IF e.regs[EPKTCNT] > 0 THEN e.regs[EPKTCNT] - 1 ELSE 0
  BY <1>0, <1>1
<1> HIDE DEF d
<1>8. /\ less \in [Registers -> Int] /\ less[EPKTCNT] = d
      /\ \A s \in Registers : s # EPKTCNT => less[s] = w[s]
  BY <1>0, <1>1, <1>7
<1> HIDE DEF less
<1>9. c \in [Registers -> Int] /\ \A s \in Registers : s # EIR => c[s] = less[s]
  <2>1. EIR \in Registers /\ 64 \in Int
    BY <1>0
  <2> QED BY <1>8, <2>1, RegsInt
<1> HIDE DEF c
<1>10. i \in [Registers -> Int] /\ i[EPKTCNT] = d /\ i[ECON2] = 192
       /\ \A s \in Registers : s \notin {EIR, EPKTCNT, ECON2} => i[s] = e.regs[s]
  BY <1>0, <1>1, <1>8, <1>9
<1> HIDE DEF i
<1>11. r \in [Registers -> Int] /\ r[ECON2] = i[ECON2] - And(i[ECON2], PKTDEC)
       /\ \A s \in Registers : s # ECON2 => r[s] = i[s]
  <2>1. ECON2 \in Registers /\ PKTDEC \in Int /\ i \in [Registers -> Int]
    BY <1>0, <1>10
  <2> HIDE DEF d
  <2> QED BY <2>1, RegsInt
<1>12. r[ECON2] = 128
  BY <1>10, <1>11, ControlBits DEF PKTDEC
<1> HIDE DEF r
<1>13. f \in Chips /\ f.lastCs = g.lastCs /\ f.index = g.index /\ f.op = g.op /\ f.rxWr = g.rxWr
      /\ f.addr = g.addr /\ f.buffer = g.buffer /\ f.count = g.count /\ f.log = g.log /\ f.regs = r
  BY <1>4, <1>11 DEF Chips
<1> HIDE DEF f
<1>14. r[EPKTCNT] = d /\ \A s \in Registers : s \notin {EIR, EPKTCNT, ECON2} => r[s] = e.regs[s]
  BY <1>0, <1>10, <1>11
<1> QED BY <1>3, <1>4, <1>6, <1>7, <1>12, <1>13, <1>14 DEF SameLine

LEMMA RegisterDataByte ==
  ASSUME NEW e \in Chips, NEW b, e.index > 0, e.op = RCR, Slot(Bank(e), e.addr) \in Registers
  PROVE  LET f == OnByteComplete(e, b)
         IN  SameLine(e, f) /\ SameMemory(e, f) /\ f.op = e.op /\ f.addr = e.addr
<1> DEFINE v == e.regs[Slot(Bank(e), e.addr)]
           f == IF e.dummy THEN [e EXCEPT !.out = v, !.dummy = FALSE] ELSE e
<1>1. v \in Int /\ e.index \in Nat
  BY DEF Chips
<1>2. OnByteComplete(e, b) = f
  BY <1>1, DataByte
<1> HIDE DEF v
<1>3. f \in Chips /\ f.lastCs = e.lastCs /\ f.index = e.index /\ f.op = e.op /\ f.addr = e.addr
      /\ SameMemory(e, f)
  BY <1>1 DEF Chips, SameMemory
<1> QED BY <1>2, <1>3 DEF SameLine

LEMMA MemoryReadByte ==
  ASSUME NEW e \in Chips, NEW b, e.index > 0, e.op = RBM
  PROVE  LET f == OnByteComplete(e, b)
             n == NextRead(Pair(e.regs, ERDPT), e.regs)
         IN  /\ SameLine(e, f) /\ f.op = e.op /\ f.addr = e.addr /\ n \in Half
             /\ f.regs = WithPair(e.regs, ERDPT, n) /\ f.out = e.buffer[n]
             /\ f.buffer = e.buffer /\ f.rxWr = e.rxWr /\ f.count = e.count /\ f.log = e.log
<1> DEFINE n == NextRead(Pair(e.regs, ERDPT), e.regs)
           g == CommitRead(e)
           v == PeekRead(g)
           f == [g EXCEPT !.out = v]
           w == WithPair(e.regs, ERDPT, n)
<1>1. n \in Half /\ g = [e EXCEPT !.regs = w] /\ g \in Chips
  BY NextReadInRange, Reads
<1> HIDE DEF n
<1>2. e.index \in Nat /\ e.regs \in [Registers -> Int]
  BY DEF Chips
<1>3. OnByteComplete(e, b) = f
  BY <1>2, DataByte
<1>4. Pair(w, ERDPT) = n
  BY <1>1, <1>2, WithPairHolds DEF ERDPT
<1> HIDE DEF w, g
<1>5. g.regs = w /\ g.buffer = e.buffer /\ g.lastCs = e.lastCs /\ g.index = e.index /\ g.op = e.op
      /\ g.addr = e.addr /\ g.rxWr = e.rxWr /\ g.count = e.count /\ g.log = e.log
  BY <1>1 DEF Chips
<1>6. v = e.buffer[n] /\ v \in Int
  BY <1>1, <1>4, <1>5, ReadInRange
<1> HIDE DEF v
<1>7. f \in Chips /\ f.regs = g.regs /\ f.buffer = g.buffer /\ f.lastCs = g.lastCs /\ f.index = g.index
      /\ f.op = g.op /\ f.addr = g.addr /\ f.rxWr = g.rxWr /\ f.count = g.count /\ f.log = g.log
      /\ f.out = v
  BY <1>1, <1>6 DEF Chips
<1> QED BY <1>1, <1>3, <1>5, <1>6, <1>7 DEF SameLine, n, w

LEMMA MemoryWriteByte ==
  ASSUME NEW e \in Chips, NEW b \in Int, e.index > 0, e.op = WBM
  PROVE  LET f == OnByteComplete(e, b)
             p == Pair(e.regs, EWRPT)
         IN  /\ SameLine(e, f) /\ f.op = e.op /\ f.addr = e.addr /\ p \in Half
             /\ f.regs = WithPair(e.regs, EWRPT, (p + 1) % BufferSize)
             /\ f.buffer = [e.buffer EXCEPT ![p] = b]
             /\ f.rxWr = e.rxWr /\ f.count = e.count /\ f.log = e.log
<1> DEFINE p == Pair(e.regs, EWRPT)
           m == [e.buffer EXCEPT ![p] = b]
           w == WithPair(e.regs, EWRPT, (p + 1) % BufferSize)
           f == CommitWrite(e, b)
<1>1. p \in Half /\ f = [e EXCEPT !.buffer = m, !.regs = w] /\ f \in Chips
  BY Writes
<1>2. e.index \in Nat
  BY DEF Chips
<1>3. OnByteComplete(e, b) = f
  BY <1>2, DataByte
<1> HIDE DEF p, m, w, f
<1>4. f.lastCs = e.lastCs /\ f.index = e.index /\ f.op = e.op /\ f.addr = e.addr /\ f.regs = w
      /\ f.buffer = m /\ f.rxWr = e.rxWr /\ f.count = e.count /\ f.log = e.log
  BY <1>1 DEF Chips
<1> QED BY <1>1, <1>3, <1>4 DEF SameLine, p, m, w

-----------------------------------------------------------------------------
(* The driver's programs.                                                  *)

Does(k, a, b) == Program[k].out = <<a, b>> /\ Program[k].in = 0 /\ Program[k].for = "write"

LEMMA SetupTable ==
  ASSUME spi.doing = "setup"
  PROVE  /\ Program = Setup /\ Len(Program) = 15
         /\ Program[1].out = <<SRC>> /\ Program[1].in = 0 /\ Program[1].for = "write"
         /\ Does(2, WCR + 8, RingStart % LowSize) /\ Does(3, WCR + 9, RingStart \div LowSize)
         /\ Does(4, WCR + 10, RingEnd % LowSize) /\ Does(5, WCR + 11, RingEnd \div LowSize)
         /\ Does(6, WCR + 12, RingStart % LowSize) /\ Does(7, WCR + 13, RingStart \div LowSize)
         /\ Does(8, BFC + 31, 3) /\ Does(9, BFS + 31, 1) /\ Does(10, WCR + 24, Filter)
         /\ Does(11, BFC + 31, 3) /\ Does(12, BFS + 31, 2) /\ Does(13, WCR + 2, 32)
         /\ Program[14].out = <<RCR + 2>> /\ Program[14].in = 2 /\ Program[14].for = "check"
         /\ Does(15, BFS + 31, RXEN)
<1>1. Program = Setup
  BY DEF Program
<1>2. Len(Setup) = 15
  BY DEF Setup
<1>3. /\ Setup[1] = Sends(<<SRC>>) /\ Setup[2] = LowByte(ERXST, RingStart) /\ Setup[3] = HighByte(ERXST, RingStart)
      /\ Setup[4] = LowByte(ERXND, RingEnd) /\ Setup[5] = HighByte(ERXND, RingEnd)
      /\ Setup[6] = LowByte(ERXRDPT, RingStart) /\ Setup[7] = HighByte(ERXRDPT, RingStart)
      /\ Setup[8] = LeaveBank /\ Setup[9] = EnterBank(1) /\ Setup[10] = Sends(<<WCR + 24, Filter>>)
      /\ Setup[11] = LeaveBank /\ Setup[12] = EnterBank(2) /\ Setup[13] = Sends(<<WCR + 2, 32>>)
      /\ Setup[14] = [for |-> "check", out |-> <<RCR + 2>>, in |-> 2]
      /\ Setup[15] = Sends(<<BFS + 31, RXEN>>)
  BY DEF Setup
<1> QED BY <1>1, <1>2, <1>3
        DEF Does, Sends, LowByte, HighByte, LeaveBank, EnterBank, ERXST, ERXND, ERXRDPT, WCR

LEMMA PollTable ==
  ASSUME spi.doing = "poll"
  PROVE  /\ Len(Program) = 3 /\ Does(1, BFC + 31, 3) /\ Does(2, BFS + 31, 1)
         /\ Program[3].out = <<RCR + 25>> /\ Program[3].in = 1 /\ Program[3].for = "poll"
BY DEF Program, Poll, Does, Sends, LeaveBank, EnterBank

LEMMA ReceiveTable ==
  ASSUME spi.doing = "receive"
  PROVE  /\ Len(Program) = 5 /\ Does(1, BFC + 31, 3) /\ Does(2, BFS + 31, 0)
         /\ Does(3, WCR + 0, spi.next % LowSize) /\ Does(4, WCR + 1, spi.next \div LowSize)
         /\ Program[5].out = <<RBM>> /\ Program[5].in = 6 /\ Program[5].for = "packet"
BY DEF Program, Receive, Does, Sends, LeaveBank, EnterBank, LowByte, HighByte, ERDPT, WCR

LEMMA ReleaseTable ==
  ASSUME spi.doing = "release"
  PROVE  /\ Len(Program) = 3
         /\ Does(1, WCR + 12, Behind(spi.next) % LowSize)
         /\ Does(2, WCR + 13, Behind(spi.next) \div LowSize)
         /\ Program[3].out = <<BFS + 30, PKTDEC>> /\ Program[3].in = 0 /\ Program[3].for = "release"
BY DEF Program, Release, Does, Sends, LowByte, HighByte, ERXRDPT, WCR

LEMMA FrameOut ==
  ASSUME NEW i \in Nat, NEW n \in Nat
  PROVE  /\ FrameBytes(i, n) \in Seq(Int) /\ Len(FrameBytes(i, n)) = n
         /\ LET out == <<WBM, 0>> \o FrameBytes(i, n)
            IN  /\ Len(out) = 2 + n /\ out[1] = WBM /\ out[2] = 0
                /\ \A j \in 1..n : out[2 + j] = FrameBytes(i, n)[j]
<1> DEFINE f == FrameBytes(i, n)
           h == <<WBM, 0>>
<1>1. f \in Seq(Int) /\ Len(f) = n
  BY DEF FrameBytes
<1>2. h \in Seq(Int) /\ Len(h) = 2 /\ h[1] = WBM /\ h[2] = 0
  BY DEF WBM
<1> HIDE DEF f, h
<1>3. /\ Len(h \o f) = Len(h) + Len(f)
      /\ \A k \in 1..Len(h) + Len(f) : (h \o f)[k] = IF k <= Len(h) THEN h[k] ELSE f[k - Len(h)]
  BY <1>1, <1>2, ConcatProperties
<1>4. \A j \in 1..n : (h \o f)[2 + j] = f[j]
  <2> TAKE j \in 1..n
  <2>1. 2 + j \in 1..Len(h) + Len(f) /\ ~ (2 + j <= Len(h)) /\ 2 + j - Len(h) = j
    BY <1>1, <1>2
  <2> QED BY <1>3, <2>1
<1>5. (h \o f)[1] = WBM /\ (h \o f)[2] = 0
  BY <1>1, <1>2, <1>3
<1> QED BY <1>1, <1>2, <1>3, <1>4, <1>5 DEF f, h

LEMMA TransmitTable ==
  ASSUME spi.doing = "transmit"
  PROVE  /\ Len(Program) = 10 /\ Does(1, BFC + 31, 3) /\ Does(2, BFS + 31, 0)
         /\ Does(3, WCR + 2, TxStart % LowSize) /\ Does(4, WCR + 3, TxStart \div LowSize)
         /\ Program[5].out = <<WBM, 0>> \o FrameBytes(50 + spi.id, spi.len)
         /\ Program[5].in = 0 /\ Program[5].for = "write"
         /\ Does(6, WCR + 4, TxStart % LowSize) /\ Does(7, WCR + 5, TxStart \div LowSize)
         /\ Does(8, WCR + 6, (TxStart + spi.len) % LowSize)
         /\ Does(9, WCR + 7, (TxStart + spi.len) \div LowSize)
         /\ Program[10].out = <<BFS + 31, TXRTS>> /\ Program[10].in = 0 /\ Program[10].for = "sent"
<1> DEFINE T == Transmit(spi.id, spi.len)
           f == <<WBM, 0>> \o FrameBytes(50 + spi.id, spi.len)
<1>1. Program = T
  BY DEF Program
<1>2. /\ Len(T) = 10 /\ T[1] = LeaveBank /\ T[2] = EnterBank(0)
      /\ T[3] = LowByte(EWRPT, TxStart) /\ T[4] = HighByte(EWRPT, TxStart) /\ T[5] = Sends(f)
      /\ T[6] = LowByte(ETXST, TxStart) /\ T[7] = HighByte(ETXST, TxStart)
      /\ T[8] = LowByte(ETXND, TxStart + spi.len) /\ T[9] = HighByte(ETXND, TxStart + spi.len)
      /\ T[10] = [for |-> "sent", out |-> <<BFS + 31, TXRTS>>, in |-> 0]
  <2> HIDE DEF f
  <2> QED BY DEF Transmit, f
<1> HIDE DEF T, f
<1> QED BY <1>1, <1>2 DEF f, Does, Sends, LeaveBank, EnterBank, LowByte, HighByte, EWRPT, ETXST, ETXND, WCR

(* What the driver may be about.                                           *)
Commands == WCR..WCR + 13 \cup {WCR + 24, BFS + 30, BFS + 31, BFC + 31}

IsCommand(k) ==
  LET t == Program[k]
  IN  Len(t.out) = 2 /\ t.out[1] \in Commands /\ t.out[2] \in Int /\ t.in = 0

LEMMA Does2 ==
  ASSUME NEW k, NEW a \in Commands, NEW b \in Int, Program[k].out = <<a, b>>, Program[k].in = 0
  PROVE  IsCommand(k)
BY DEF IsCommand

LEMMA CommandNames ==
  /\ WCR + 0 \in Commands /\ WCR + 1 \in Commands /\ WCR + 2 \in Commands /\ WCR + 3 \in Commands
  /\ WCR + 4 \in Commands /\ WCR + 5 \in Commands /\ WCR + 6 \in Commands
  /\ WCR + 7 \in Commands /\ WCR + 8 \in Commands /\ WCR + 9 \in Commands /\ WCR + 10 \in Commands
  /\ WCR + 11 \in Commands /\ WCR + 12 \in Commands /\ WCR + 13 \in Commands
  /\ WCR + 24 \in Commands /\ BFS + 30 \in Commands /\ BFS + 31 \in Commands /\ BFC + 31 \in Commands
  /\ 0 \in Int /\ 1 \in Int /\ 2 \in Int /\ 3 \in Int /\ 32 \in Int
  /\ RXEN \in Int /\ PKTDEC \in Int /\ TXRTS \in Int
BY DEF Commands, WCR, BFS, BFC, RXEN, PKTDEC, TXRTS

Resetting == spi.doing = "setup" /\ spi.step = 1
Checking  == spi.doing = "setup" /\ spi.step = 14
Polling   == spi.doing = "poll" /\ spi.step = 3
Fetching  == spi.doing = "receive" /\ spi.step = 5
Copying   == spi.doing = "transmit" /\ spi.step = 5
Ordering  == ~ (Resetting \/ Checking \/ Polling \/ Fetching \/ Copying)

LEMMA ProgramsCommand ==
  ASSUME spi \in Drivers
  PROVE  /\ spi.doing = "setup" => \A k \in 1..15 \ {1, 14} : IsCommand(k) /\ Program[k].for = "write"
         /\ spi.doing = "poll" => \A k \in 1..2 : IsCommand(k) /\ Program[k].for = "write"
         /\ spi.doing = "receive" => \A k \in 1..4 : IsCommand(k) /\ Program[k].for = "write"
         /\ spi.doing = "release" => /\ \A k \in 1..2 : IsCommand(k) /\ Program[k].for = "write"
                                     /\ IsCommand(3)
         /\ spi.doing = "transmit" => /\ \A k \in 1..9 \ {5} : IsCommand(k) /\ Program[k].for = "write"
                                      /\ IsCommand(10)
<1> DEFINE D(k) == IsCommand(k) /\ Program[k].for = "write"
<1>1. /\ RingStart \in Int /\ RingEnd \in Int /\ TxStart \in Int /\ Filter \in Int
      /\ TxStart + spi.len \in Int /\ Behind(spi.next) \in Int /\ spi.next \in Int
  BY EncAssumption DEF Behind, Drivers
<1>2. /\ RingStart % LowSize \in Int /\ RingStart \div LowSize \in Int
      /\ RingEnd % LowSize \in Int /\ RingEnd \div LowSize \in Int
      /\ TxStart % LowSize \in Int /\ TxStart \div LowSize \in Int
      /\ (TxStart + spi.len) % LowSize \in Int /\ (TxStart + spi.len) \div LowSize \in Int
      /\ Behind(spi.next) % LowSize \in Int /\ Behind(spi.next) \div LowSize \in Int
      /\ spi.next % LowSize \in Int /\ spi.next \div LowSize \in Int
  BY <1>1, HalvesInt
<1>3. CASE spi.doing = "setup"
  <2>1. D(2) /\ D(3) /\ D(4) /\ D(5) /\ D(6) /\ D(7)
    <3>1. D(2)
      BY <1>1, <1>2, <1>3, SetupTable, Does2, CommandNames DEF Does
    <3>2. D(3)
      BY <1>1, <1>2, <1>3, SetupTable, Does2, CommandNames DEF Does
    <3>3. D(4)
      BY <1>1, <1>2, <1>3, SetupTable, Does2, CommandNames DEF Does
    <3>4. D(5)
      BY <1>1, <1>2, <1>3, SetupTable, Does2, CommandNames DEF Does
    <3>5. D(6)
      BY <1>1, <1>2, <1>3, SetupTable, Does2, CommandNames DEF Does
    <3>6. D(7)
      BY <1>1, <1>2, <1>3, SetupTable, Does2, CommandNames DEF Does
    <3> QED BY <3>1, <3>2, <3>3, <3>4, <3>5, <3>6
  <2>2. D(8) /\ D(9) /\ D(10) /\ D(11) /\ D(12) /\ D(13) /\ D(15)
    <3>1. D(8)
      BY <1>1, <1>2, <1>3, SetupTable, Does2, CommandNames DEF Does
    <3>2. D(9)
      BY <1>1, <1>2, <1>3, SetupTable, Does2, CommandNames DEF Does
    <3>3. D(10)
      BY <1>1, <1>2, <1>3, SetupTable, Does2, CommandNames DEF Does
    <3>4. D(11)
      BY <1>1, <1>2, <1>3, SetupTable, Does2, CommandNames DEF Does
    <3>5. D(12)
      BY <1>1, <1>2, <1>3, SetupTable, Does2, CommandNames DEF Does
    <3>6. D(13)
      BY <1>1, <1>2, <1>3, SetupTable, Does2, CommandNames DEF Does
    <3>7. D(15)
      BY <1>1, <1>2, <1>3, SetupTable, Does2, CommandNames DEF Does
    <3> QED BY <3>1, <3>2, <3>3, <3>4, <3>5, <3>6, <3>7
  <2> HIDE DEF D
  <2>3. \A k \in 1..15 \ {1, 14} : D(k)
    BY <2>1, <2>2
  <2> QED BY <1>3, <2>3 DEF D
<1>4. CASE spi.doing = "poll"
  <2>1. D(1) /\ D(2)
    BY <1>4, PollTable, Does2, CommandNames DEF Does
  <2> QED BY <1>4, <2>1
<1>5. CASE spi.doing = "receive"
  <2>1. D(1) /\ D(2) /\ D(3) /\ D(4)
    <3>1. D(1)
      BY <1>1, <1>2, <1>5, ReceiveTable, Does2, CommandNames DEF Does
    <3>2. D(2)
      BY <1>1, <1>2, <1>5, ReceiveTable, Does2, CommandNames DEF Does
    <3>3. D(3)
      BY <1>1, <1>2, <1>5, ReceiveTable, Does2, CommandNames DEF Does
    <3>4. D(4)
      BY <1>1, <1>2, <1>5, ReceiveTable, Does2, CommandNames DEF Does
    <3> QED BY <3>1, <3>2, <3>3, <3>4
  <2> QED BY <1>5, <2>1
<1>6. CASE spi.doing = "release"
  <2>1. D(1) /\ D(2)
    <3>1. D(1)
      BY <1>1, <1>2, <1>6, ReleaseTable, Does2, CommandNames DEF Does
    <3>2. D(2)
      BY <1>1, <1>2, <1>6, ReleaseTable, Does2, CommandNames DEF Does
    <3> QED BY <3>1, <3>2
  <2>2. IsCommand(3)
    BY <1>6, ReleaseTable, Does2, CommandNames
  <2> QED BY <1>6, <2>1, <2>2
<1>7. CASE spi.doing = "transmit"
  <2>1. D(1) /\ D(2) /\ D(3) /\ D(4) /\ D(6) /\ D(7) /\ D(8) /\ D(9)
    <3>1. D(1)
      BY <1>1, <1>2, <1>7, TransmitTable, Does2, CommandNames DEF Does
    <3>2. D(2)
      BY <1>1, <1>2, <1>7, TransmitTable, Does2, CommandNames DEF Does
    <3>3. D(3)
      BY <1>1, <1>2, <1>7, TransmitTable, Does2, CommandNames DEF Does
    <3>4. D(4)
      BY <1>1, <1>2, <1>7, TransmitTable, Does2, CommandNames DEF Does
    <3>5. D(6)
      BY <1>1, <1>2, <1>7, TransmitTable, Does2, CommandNames DEF Does
    <3>6. D(7)
      BY <1>1, <1>2, <1>7, TransmitTable, Does2, CommandNames DEF Does
    <3>7. D(8)
      BY <1>1, <1>2, <1>7, TransmitTable, Does2, CommandNames DEF Does
    <3>8. D(9)
      BY <1>1, <1>2, <1>7, TransmitTable, Does2, CommandNames DEF Does
    <3> QED BY <3>1, <3>2, <3>3, <3>4, <3>5, <3>6, <3>7, <3>8
  <2>2. IsCommand(10)
    BY <1>7, TransmitTable, Does2, CommandNames
  <2> HIDE DEF D
  <2>3. \A k \in 1..9 \ {5} : D(k)
    BY <2>1
  <2> QED BY <1>7, <2>2, <2>3 DEF D
<1> QED BY <1>3, <1>4, <1>5, <1>6, <1>7

LEMMA Orders ==
  ASSUME spi \in Drivers, ~ Over
  PROVE  /\ Resetting => Now.out = <<SRC>> /\ Now.in = 0 /\ Now.for = "write"
         /\ Checking => Now.out = <<RCR + 2>> /\ Now.in = 2 /\ Now.for = "check"
         /\ Polling => Now.out = <<RCR + 25>> /\ Now.in = 1 /\ Now.for = "poll"
         /\ Fetching => Now.out = <<RBM>> /\ Now.in = 6 /\ Now.for = "packet"
         /\ Copying => /\ Now.out = <<WBM, 0>> \o FrameBytes(50 + spi.id, spi.len)
                       /\ Now.in = 0 /\ Now.for = "write"
         /\ Ordering => /\ IsCommand(spi.step)
                        /\ Now.for \in {"write", "release", "sent"}
                        /\ Now.for = "release" <=> spi.doing = "release" /\ spi.step = 3
                        /\ Now.for = "sent" <=> spi.doing = "transmit" /\ spi.step = 10
<1>1. spi.doing \in Doings /\ spi.step \in Nat \ {0} /\ ~ (spi.step > Len(Program))
  BY DEF Drivers, Over
<1>7. Now = Program[spi.step]
  BY Zenon DEF Now
<1>2. CASE spi.doing = "setup"
  <2>1. spi.step \in 1..15
    <3>1. Len(Program) = 15
      BY <1>2, SetupTable
    <3> QED BY <1>1, <3>1
  <2>2. CASE spi.step = 1
    <3>1. Resetting /\ ~ Ordering /\ ~ Checking /\ ~ Polling /\ ~ Fetching /\ ~ Copying
      BY <1>2, <2>2 DEF Ordering, Resetting, Checking, Polling, Fetching, Copying
    <3> QED BY <1>2, <1>7, <2>1, <2>2, <3>1, SetupTable
  <2>3. CASE spi.step = 14
    <3>1. Checking /\ ~ Ordering /\ ~ Resetting /\ ~ Polling /\ ~ Fetching /\ ~ Copying
      BY <1>2, <2>3 DEF Ordering, Resetting, Checking, Polling, Fetching, Copying
    <3> QED BY <1>2, <1>7, <2>1, <2>3, <3>1, SetupTable
  <2>4. CASE spi.step # 1 /\ spi.step # 14
    <3>1. ~ Resetting /\ ~ Checking /\ ~ Polling /\ ~ Fetching /\ ~ Copying
      BY <1>2, <2>4 DEF Resetting, Checking, Polling, Fetching, Copying
    <3>2. IsCommand(spi.step)
      BY <1>2, <2>4, <2>1, ProgramsCommand
    <3>3. Program[spi.step].for = "write"
      BY <1>2, <2>4, <2>1, ProgramsCommand
    <3> QED BY <1>2, <2>4, <1>7, <2>1, <3>1, <3>2, <3>3
  <2> QED BY <2>2, <2>3, <2>4
<1>3. CASE spi.doing = "poll"
  <2>1. spi.step \in 1..3
    <3>1. Len(Program) = 3
      BY <1>3, PollTable
    <3> QED BY <1>1, <3>1
  <2>2. CASE spi.step = 3
    <3>1. Polling /\ ~ Ordering /\ ~ Resetting /\ ~ Checking /\ ~ Fetching /\ ~ Copying
      BY <1>3, <2>2 DEF Ordering, Resetting, Checking, Polling, Fetching, Copying
    <3> QED BY <1>3, <1>7, <2>1, <2>2, <3>1, PollTable
  <2>3. CASE spi.step # 3
    <3>1. ~ Resetting /\ ~ Checking /\ ~ Polling /\ ~ Fetching /\ ~ Copying
      BY <1>3, <2>3 DEF Resetting, Checking, Polling, Fetching, Copying
    <3>2. IsCommand(spi.step)
      BY <1>3, <2>3, <2>1, ProgramsCommand
    <3>3. Program[spi.step].for = "write"
      BY <1>3, <2>3, <2>1, ProgramsCommand
    <3> QED BY <1>3, <2>3, <1>7, <2>1, <3>1, <3>2, <3>3
  <2> QED BY <2>2, <2>3
<1>4. CASE spi.doing = "receive"
  <2>1. spi.step \in 1..5
    <3>1. Len(Program) = 5
      BY <1>4, ReceiveTable
    <3> QED BY <1>1, <3>1
  <2>2. CASE spi.step = 5
    <3>1. Fetching /\ ~ Ordering /\ ~ Resetting /\ ~ Checking /\ ~ Polling /\ ~ Copying
      BY <1>4, <2>2 DEF Ordering, Resetting, Checking, Polling, Fetching, Copying
    <3> QED BY <1>4, <1>7, <2>1, <2>2, <3>1, ReceiveTable
  <2>3. CASE spi.step # 5
    <3>1. ~ Resetting /\ ~ Checking /\ ~ Polling /\ ~ Fetching /\ ~ Copying
      BY <1>4, <2>3 DEF Resetting, Checking, Polling, Fetching, Copying
    <3>2. IsCommand(spi.step)
      BY <1>4, <2>3, <2>1, ProgramsCommand
    <3>3. Program[spi.step].for = "write"
      BY <1>4, <2>3, <2>1, ProgramsCommand
    <3> QED BY <1>4, <2>3, <1>7, <2>1, <3>1, <3>2, <3>3
  <2> QED BY <2>2, <2>3
<1>5. CASE spi.doing = "release"
  <2>1. spi.step \in 1..3
    <3>1. Len(Program) = 3
      BY <1>5, ReleaseTable
    <3> QED BY <1>1, <3>1
  <2>2. ~ Resetting /\ ~ Checking /\ ~ Polling /\ ~ Fetching /\ ~ Copying
    BY <1>5 DEF Resetting, Checking, Polling, Fetching, Copying
  <2>3. IsCommand(spi.step)
    BY <1>5, <2>1, ProgramsCommand
  <2>4. Program[spi.step].for = IF spi.step = 3 THEN "release" ELSE "write"
    BY <1>5, <2>1, ProgramsCommand, ReleaseTable
  <2> QED BY <1>5, <1>7, <2>1, <2>2, <2>3, <2>4
<1>6. CASE spi.doing = "transmit"
  <2>1. spi.step \in 1..10
    <3>1. Len(Program) = 10
      BY <1>6, TransmitTable
    <3> QED BY <1>1, <3>1
  <2>2. CASE spi.step = 5
    <3>1. Copying /\ ~ Ordering /\ ~ Resetting /\ ~ Checking /\ ~ Polling /\ ~ Fetching
      BY <1>6, <2>2 DEF Ordering, Resetting, Checking, Polling, Fetching, Copying
    <3> QED BY <1>6, <1>7, <2>1, <2>2, <3>1, TransmitTable
  <2>3. CASE spi.step # 5
    <3>1. ~ Resetting /\ ~ Checking /\ ~ Polling /\ ~ Fetching /\ ~ Copying
      BY <1>6, <2>3 DEF Resetting, Checking, Polling, Fetching, Copying
    <3>2. IsCommand(spi.step)
      BY <1>6, <2>3, <2>1, ProgramsCommand
    <3>3. Program[spi.step].for = IF spi.step = 10 THEN "sent" ELSE "write"
      BY <1>6, <2>3, <2>1, ProgramsCommand, TransmitTable
    <3> QED BY <1>6, <2>3, <1>7, <2>1, <3>1, <3>2, <3>3
  <2> QED BY <2>2, <2>3
<1> QED BY <1>1, <1>2, <1>3, <1>4, <1>5, <1>6 DEF Doings

LEMMA Apart ==
  /\ Resetting => ~ Checking /\ ~ Polling /\ ~ Fetching /\ ~ Copying
  /\ Checking => ~ Polling /\ ~ Fetching /\ ~ Copying
  /\ Polling => ~ Fetching /\ ~ Copying
  /\ Fetching => ~ Copying
BY DEF Resetting, Checking, Polling, Fetching, Copying

LEMMA Shape ==
  ASSUME spi \in Drivers, ~ Over
  PROVE  /\ Len(Now.out) = IF Ordering THEN 2 ELSE IF Copying THEN 2 + spi.len ELSE 1
         /\ Opcode \in Int /\ ByteNow \in Int
         /\ (Resetting => Opcode = SRC) /\ (Checking => Opcode = RCR + 2)
         /\ (Polling => Opcode = RCR + 25) /\ (Fetching => Opcode = RBM) /\ (Copying => Opcode = WBM)
         /\ Ordering => Opcode \in Commands
         /\ Wanted = IF Ordering THEN 2 ELSE IF Copying THEN 2 + spi.len
                     ELSE IF Resetting THEN 1 ELSE IF Checking THEN 3 ELSE IF Polling THEN 2
                     ELSE 1 + (IF Len(spi.got) >= 7 THEN 6 + spi.got[4] + LowSize * spi.got[5] ELSE 6)
         /\ Wanted \in Int
         /\ spi.byte = 0 => ByteNow = Opcode
         /\ spi.byte = 1 /\ Ordering => ByteNow = Now.out[2]
         /\ spi.byte > 0 /\ Copying /\ spi.byte < 2 + spi.len =>
              ByteNow = IF spi.byte = 1 THEN 0 ELSE FrameBytes(50 + spi.id, spi.len)[spi.byte - 1]
<1>1. spi.byte \in Nat /\ spi.got \in Seq(Int) /\ spi.len \in Nat /\ 50 + spi.id \in Nat
  BY DEF Drivers
<1> DEFINE o == Now.out
<1>2. Wanted = Len(o) + IF Now.for = "packet" /\ Len(spi.got) >= 7
                        THEN 6 + spi.got[4] + LowSize * spi.got[5] ELSE Now.in
  BY DEF Wanted
<1>3. ByteNow = IF spi.byte < Len(o) THEN o[spi.byte + 1] ELSE 0
  BY DEF ByteNow
<1>4. Opcode = o[1]
  BY DEF Opcode
<1>5. Len(spi.got) >= 7 => spi.got[4] \in Int /\ spi.got[5] \in Int
  BY <1>1
<1>6. Len(spi.got) >= 7 => LowSize * spi.got[5] \in Int
  BY <1>5, EncAssumption
<1>7. CASE Resetting \/ Checking \/ Polling \/ Fetching
  <2> DEFINE c == IF Resetting THEN SRC ELSE IF Checking THEN RCR + 2
                  ELSE IF Polling THEN RCR + 25 ELSE RBM
  <2>1. o = <<c>> /\ ~ Ordering /\ ~ Copying
    BY <1>7, Apart, Orders DEF Ordering
  <2>2. c \in Int
    BY DEF SRC, RCR, RBM
  <2>3. Len(o) = 1 /\ o[1] = c
    BY <2>1
  <2> HIDE DEF o
  <2>4. Opcode = c /\ ByteNow = IF spi.byte = 0 THEN c ELSE 0
    BY <1>1, <1>3, <1>4, <2>3
  <2>5. /\ Now.in = IF Resetting THEN 0 ELSE IF Checking THEN 2 ELSE IF Polling THEN 1 ELSE 6
        /\ Now.for = "packet" <=> Fetching
    BY <1>7, Apart, Orders
  <2>6. Wanted = IF Resetting THEN 1 ELSE IF Checking THEN 3 ELSE IF Polling THEN 2
                 ELSE 1 + (IF Len(spi.got) >= 7 THEN 6 + spi.got[4] + LowSize * spi.got[5] ELSE 6)
    BY <1>2, <1>7, <2>3, <2>5, Apart
  <2>7. Wanted \in Int
    BY <1>1, <1>5, <1>6, <2>6
  <2> HIDE DEF c
  <2>8. ByteNow \in Int /\ (spi.byte = 0 => ByteNow = Opcode)
    BY <2>2, <2>4
  <2>9. /\ (Resetting => Opcode = SRC) /\ (Checking => Opcode = RCR + 2)
        /\ (Polling => Opcode = RCR + 25) /\ (Fetching => Opcode = RBM)
    BY <1>7, <2>4, Apart DEF c
  <2> QED BY <2>1, <2>2, <2>3, <2>4, <2>6, <2>7, <2>8, <2>9 DEF o
<1>8. CASE Copying
  <2> DEFINE f == FrameBytes(50 + spi.id, spi.len)
             h == <<WBM, 0>> \o f
  <2>1. /\ o = h /\ Now.in = 0 /\ Now.for = "write"
        /\ ~ Ordering /\ ~ Resetting /\ ~ Checking /\ ~ Polling /\ ~ Fetching
    BY <1>8, Apart, Orders DEF Ordering
  <2>2. /\ f \in Seq(Int) /\ Len(f) = spi.len /\ Len(h) = 2 + spi.len /\ h[1] = WBM /\ h[2] = 0
        /\ \A j \in 1..spi.len : h[2 + j] = f[j]
    BY <1>1, FrameOut, ZenonT(40)
  <2> HIDE DEF h, f, o
  <2>3. Wanted = 2 + spi.len /\ Wanted \in Int /\ Len(o) = 2 + spi.len
    BY <1>1, <1>2, <2>1, <2>2
  <2>4. Opcode = WBM /\ WBM \in Int
    BY <1>4, <2>1, <2>2 DEF WBM
  <2>5. CASE spi.byte = 0
    <3>1. ByteNow = WBM
      BY <1>1, <1>3, <2>1, <2>2, <2>5
    <3> QED BY <1>8, <2>1, <2>3, <2>4, <2>5, <3>1 DEF o
  <2>6. CASE spi.byte = 1
    <3>1. ByteNow = 0
      BY <1>1, <1>3, <2>1, <2>2, <2>6
    <3> QED BY <1>8, <2>1, <2>3, <2>4, <2>6, <3>1 DEF o
  <2>7. CASE spi.byte > 1 /\ spi.byte < 2 + spi.len
    <3> DEFINE j == spi.byte - 1
    <3>1. j \in 1..spi.len /\ 2 + j = spi.byte + 1
      BY <1>1, <2>7
    <3>2. ByteNow = o[2 + j] /\ o[2 + j] = f[j]
      BY <1>3, <2>1, <2>2, <2>3, <2>7, <3>1
    <3>3. f[j] \in Int
      BY <2>2, <3>1
    <3> QED BY <1>1, <1>8, <2>1, <2>3, <2>4, <2>7, <3>2, <3>3 DEF o, f
  <2>8. CASE spi.byte >= 2 + spi.len
    <3>1. ByteNow = 0
      BY <1>1, <1>3, <2>3, <2>8
    <3> QED BY <1>1, <1>8, <2>1, <2>3, <2>4, <2>8, <3>1 DEF o
  <2> QED BY <1>1, <2>5, <2>6, <2>7, <2>8
<1>9. CASE Ordering
  <2>1. /\ ~ Copying /\ ~ Resetting /\ ~ Checking /\ ~ Polling /\ ~ Fetching
        /\ Len(o) = 2 /\ o[1] \in Commands /\ o[2] \in Int /\ Now.in = 0 /\ Now.for # "packet"
    <3>1. ~ Copying /\ ~ Resetting /\ ~ Checking /\ ~ Polling /\ ~ Fetching
      BY <1>9 DEF Ordering
    <3>2. IsCommand(spi.step) /\ Now.for # "packet"
      BY <1>9, Orders
    <3>3. Now = Program[spi.step]
      BY Zenon DEF Now
    <3> QED BY <3>1, <3>2, <3>3 DEF IsCommand
  <2>2. o[1] \in Int
    BY <2>1 DEF Commands, WCR, BFS, BFC
  <2> HIDE DEF o
  <2>3. Wanted = 2 /\ ByteNow = IF spi.byte < 2 THEN o[spi.byte + 1] ELSE 0
    BY <1>2, <1>3, <2>1
  <2>4. spi.byte = 0 => ByteNow = o[1]
    BY <2>3
  <2>5. spi.byte = 1 => ByteNow = o[2]
    BY <2>3
  <2>6. ByteNow \in Int
    BY <1>1, <2>1, <2>2, <2>3, <2>4, <2>5
  <2> QED BY <1>4, <1>9, <2>1, <2>2, <2>3, <2>4, <2>5, <2>6 DEF o
<1> QED BY <1>7, <1>8, <1>9 DEF Ordering

-----------------------------------------------------------------------------
(* A bit clocked.                                                          *)

LEMMA FirstByte ==
  ASSUME NEW e, NEW b, e.index = 0
  PROVE  OnByteComplete(e, b) = DecodeOpcode(e, b)
<1> DEFINE slot == Slot(Bank(e), e.addr)
           written(regs) ==
             LET w == [e EXCEPT !.regs = regs] IN AfterRegisterWrite(w, Bank(w), e.addr)
           w1 == written([e.regs EXCEPT ![slot] = b])
           w2 == written(Set(e.regs, slot, b))
           w3 == written(Clr(e.regs, slot, b))
           r1 == [e EXCEPT !.out = e.regs[slot], !.dummy = FALSE]
           r2 == [CommitRead(e) EXCEPT !.out = PeekRead(CommitRead(e))]
           c1 == CommitWrite(e, b)
           d1 == DecodeOpcode(e, b)
<1>1. OnByteComplete(e, b) =
        CASE e.index = 0 -> d1
          [] e.index > 0 /\ e.op = WCR -> w1
          [] e.index > 0 /\ e.op = BFS -> w2
          [] e.index > 0 /\ e.op = BFC -> w3
          [] e.index > 0 /\ e.op = RCR /\ e.dummy -> r1
          [] e.index > 0 /\ e.op = RBM -> r2
          [] e.index > 0 /\ e.op = WBM -> c1
          [] OTHER -> e
  BY Zenon DEF OnByteComplete
<1> HIDE DEF w1, w2, w3, r1, r2, c1, d1
<1>2. OnByteComplete(e, b) = d1
  BY <1>1
<1> QED BY <1>2 DEF d1

LEMMA SameProgram ==
  ASSUME spi'.doing = spi.doing, spi'.next = spi.next, spi'.id = spi.id, spi'.len = spi.len
  PROVE  Program' = Program
BY Zenon DEF Program

LEMMA SameNow ==
  ASSUME spi'.doing = spi.doing, spi'.next = spi.next, spi'.id = spi.id, spi'.len = spi.len,
         spi'.step = spi.step
  PROVE  Now' = Now /\ Program' = Program /\ Over' = Over
<1>1. Program' = Program
  BY SameProgram
<1> QED BY <1>1, Zenon DEF Now, Over

(* The shift register and the index are the only fields a bit changes.     *)
LEMMA BitField ==
  ASSUME NEW e \in Chips, NEW s \in Seq(Int \X Int)
  PROVE  LET f == [e EXCEPT !.shift = s]
         IN  /\ f \in Chips /\ SameMemory(e, f) /\ f.lastCs = e.lastCs /\ f.index = e.index
             /\ f.shift = s /\ f.op = e.op /\ f.addr = e.addr /\ f.out = e.out
BY DEF Chips, SameMemory

LEMMA ByteFields ==
  ASSUME NEW e \in Chips, NEW n \in Nat
  PROVE  LET f == [e EXCEPT !.shift = <<>>, !.index = n]
         IN  /\ f \in Chips /\ SameMemory(e, f) /\ f.lastCs = e.lastCs /\ f.index = n
             /\ f.shift = <<>> /\ f.op = e.op /\ f.addr = e.addr /\ f.out = e.out
<1> DEFINE g == [e EXCEPT !.shift = <<>>]
           f == [e EXCEPT !.shift = <<>>, !.index = n]
<1>1. <<>> \in Seq(Int \X Int)
  OBVIOUS
<1>2. /\ g \in Chips /\ SameMemory(e, g) /\ g.lastCs = e.lastCs
      /\ g.shift = <<>> /\ g.op = e.op /\ g.addr = e.addr /\ g.out = e.out
  BY <1>1, BitField
<1>3. f = [g EXCEPT !.index = n]
  OBVIOUS
<1> HIDE DEF g, f
<1>4. /\ f \in Chips /\ SameMemory(g, f) /\ f.lastCs = g.lastCs /\ f.index = n
      /\ f.shift = g.shift /\ f.op = g.op /\ f.addr = g.addr /\ f.out = g.out
  BY <1>2, <1>3 DEF Chips, SameMemory
<1> QED BY <1>2, <1>4 DEF SameMemory, f

(* The driver's transaction goes on with another bit or byte.              *)
Going == spi'.doing = spi.doing /\ spi'.step = spi.step /\ spi'.next = spi.next
         /\ spi'.id = spi.id /\ spi'.len = spi.len /\ spi'.selected /\ spi.selected

BitTaken ==
  /\ spi.bit + 1 < BitsPerByte
  /\ enc' = [enc EXCEPT !.shift = Append(enc.shift, <<ByteNow, spi.bit + 1>>)]
  /\ spi' = [spi EXCEPT !.bit = spi.bit + 1]
  /\ UNCHANGED <<wire, unread, sent>>

ByteTaken ==
  LET f == OnByteComplete(enc, ByteNow)
      done == spi.byte + 1 = Len(Now.out)
  IN  /\ enc' = [f EXCEPT !.shift = <<>>, !.index = f.index + 1]
      /\ spi' = [spi EXCEPT !.bit = 0, !.byte = spi.byte + 1, !.got = Append(spi.got, enc.out)]
      /\ unread' = CASE done /\ Now.out = <<SRC>> -> <<>>
                     [] done /\ Now.for = "release" -> Tail(unread)
                     [] OTHER -> unread
      /\ wire' = IF done /\ Now.out = <<SRC>>
                 THEN [wire EXCEPT !.laid = 0, !.torn = FALSE] ELSE wire
      /\ sent' = IF done /\ Now.for = "sent" THEN Append(sent, spi.len) ELSE sent

LEMMA ClockIs ==
  ASSUME EncTypeOK, InStep, Clock
  PROVE  ~ Over /\ spi.selected /\ spi.byte < Wanted /\ (BitTaken \/ ByteTaken)
<1> DEFINE place == spi.bit + 1
           got == Append(enc.shift, <<ByteNow, place>>)
           whole == \A k \in 1..BitsPerByte : got[k] = <<ByteNow, k>>
           done == OnByteComplete(enc, IF whole THEN ByteNow ELSE 1)
           f == OnByteComplete(enc, ByteNow)
<1>1. /\ spi.selected /\ spi.byte < Wanted /\ ~ Over
      /\ enc' = OnSckRising(enc, ByteNow, spi.bit + 1)
  BY DEF Clock, InStep
<1>2. spi \in Drivers /\ enc \in Chips /\ spi.bit \in Nat /\ spi.byte \in Nat
  BY DEF EncTypeOK, Drivers
<1>3. spi.bit < BitsPerByte /\ enc.shift = [k \in 1..spi.bit |-> <<ByteNow, k>>]
  BY <1>1 DEF InStep
<1>4. ByteNow \in Int
  BY <1>1, <1>2, Shape
<1>5. /\ enc.shift \in Seq(Int \X Int) /\ Len(enc.shift) = spi.bit /\ Len(got) = place
      /\ \A k \in 1..spi.bit : got[k] = <<ByteNow, k>>
      /\ got[place] = <<ByteNow, place>>
  <2>1. enc.shift \in Seq(Int \X Int)
    BY <1>2 DEF Chips
  <2>2. Len(enc.shift) = spi.bit
    BY <1>2, <1>3, <2>1
  <2>3. place \in Int /\ <<ByteNow, place>> \in Int \X Int
    BY <1>2, <1>4
  <2> QED BY <1>2, <1>3, <2>1, <2>2, <2>3
<1>6. /\ enc' = IF Len(got) < BitsPerByte THEN [enc EXCEPT !.shift = got]
                ELSE [done EXCEPT !.shift = <<>>, !.index = @ + 1]
  <2> HIDE DEF done
  <2> QED BY <1>1, Zenon DEF OnSckRising, done
<1>7. /\ spi' = [spi EXCEPT !.bit = (@ + 1) % BitsPerByte,
                            !.byte = IF place = BitsPerByte THEN @ + 1 ELSE @,
                            !.got = IF place = BitsPerByte THEN Append(@, enc.out) ELSE @]
      /\ unread' = CASE (place = BitsPerByte /\ spi.byte + 1 = Len(Now.out)) /\ Now.out = <<SRC>> -> <<>>
                     [] (place = BitsPerByte /\ spi.byte + 1 = Len(Now.out)) /\ Now.for = "release" -> Tail(unread)
                     [] OTHER -> unread
      /\ wire' = IF (place = BitsPerByte /\ spi.byte + 1 = Len(Now.out)) /\ Now.out = <<SRC>>
                 THEN [wire EXCEPT !.laid = 0, !.torn = FALSE] ELSE wire
      /\ sent' = IF (place = BitsPerByte /\ spi.byte + 1 = Len(Now.out)) /\ Now.for = "sent"
                 THEN Append(sent, spi.len) ELSE sent
  BY Zenon DEF Clock
<1>8. CASE place < BitsPerByte
  <2>1. enc' = [enc EXCEPT !.shift = got]
    <3> HIDE DEF got, done
    <3> QED BY <1>5, <1>6, <1>8
  <2>2. (spi.bit + 1) % BitsPerByte = spi.bit + 1 /\ place # BitsPerByte
    BY <1>2, <1>8, EncAssumption, WithinTurn
  <2>3. spi' = [spi EXCEPT !.bit = spi.bit + 1]
    <3>1. spi' = [spi EXCEPT !.bit = spi.bit + 1, !.byte = spi.byte, !.got = spi.got]
      BY <1>7, <2>2
    <3> QED BY <1>2, <3>1 DEF Drivers
  <2>4. UNCHANGED <<wire, unread, sent>>
    BY <1>7, <2>2
  <2>5. BitTaken
    BY <1>8, <2>1, <2>3, <2>4, Zenon DEF BitTaken
  <2> QED BY <1>1, <2>5
<1>9. CASE place = BitsPerByte
  <2>1. whole
    <3> SUFFICES ASSUME NEW k \in 1..BitsPerByte PROVE got[k] = <<ByteNow, k>>
      OBVIOUS
    <3>1. k \in 1..spi.bit \/ k = place
      BY <1>2, <1>9
    <3> HIDE DEF got
    <3> QED BY <1>5, <3>1
  <2>2. enc' = [f EXCEPT !.shift = <<>>, !.index = f.index + 1]
    <3>1. enc' = [done EXCEPT !.shift = <<>>, !.index = @ + 1]
      <4> HIDE DEF got, done
      <4> QED BY <1>5, <1>6, <1>9
    <3>2. done = f
      <4> HIDE DEF whole
      <4> QED BY <2>1
    <3> QED BY <3>1, <3>2
  <2>3. place % BitsPerByte = 0
    <3>1. spi.bit % BitsPerByte = spi.bit
      BY <1>2, <1>3, EncAssumption, WithinTurn
    <3> QED BY <1>2, <1>9, <3>1, EncAssumption, NextRemainder
  <2>4. spi' = [spi EXCEPT !.bit = 0, !.byte = spi.byte + 1, !.got = Append(spi.got, enc.out)]
    BY <1>7, <1>9, <2>3
  <2>5. ByteTaken
    BY <1>7, <1>9, <2>2, <2>4 DEF ByteTaken
  <2> QED BY <1>1, <2>5
<1> QED BY <1>2, <1>3, <1>8, <1>9, EncAssumption

-----------------------------------------------------------------------------
(* What leaves a part of the invariant alone.                              *)

Watched == {ECON1, ECON2, EPKTCNT, MACON3} \cup {<<0, a>> : a \in 8..13}

SameRegs(R) == \A r \in R : enc'.regs[r] = enc.regs[r]

LEMMA WatchedNames ==
  /\ ECON1 \in Watched /\ ECON2 \in Watched /\ EPKTCNT \in Watched /\ MACON3 \in Watched
  /\ <<0, 8>> \in Watched /\ <<0, 9>> \in Watched /\ <<0, 10>> \in Watched
  /\ <<0, 11>> \in Watched /\ <<0, 12>> \in Watched /\ <<0, 13>> \in Watched
  /\ Watched \subseteq Registers
BY Names DEF Watched

LEMMA SameRegsIs ==
  ASSUME SameRegs(Watched)
  PROVE  /\ enc'.regs[ECON1] = enc.regs[ECON1] /\ enc'.regs[ECON2] = enc.regs[ECON2]
         /\ enc'.regs[EPKTCNT] = enc.regs[EPKTCNT] /\ enc'.regs[MACON3] = enc.regs[MACON3]
         /\ enc'.regs[<<0, 8>>] = enc.regs[<<0, 8>>] /\ enc'.regs[<<0, 9>>] = enc.regs[<<0, 9>>]
         /\ enc'.regs[<<0, 10>>] = enc.regs[<<0, 10>>] /\ enc'.regs[<<0, 11>>] = enc.regs[<<0, 11>>]
         /\ enc'.regs[<<0, 12>>] = enc.regs[<<0, 12>>] /\ enc'.regs[<<0, 13>>] = enc.regs[<<0, 13>>]
BY WatchedNames DEF SameRegs

LEMMA KeepSettingUp ==
  ASSUME SettingUp, SameRegs(Watched), enc'.rxWr = enc.rxWr, UNCHANGED <<wire, unread>>,
         Done' = Done, spi'.next = spi.next
  PROVE  SettingUp'
<1>1. SameRegs(Watched) => /\ Reg(8)' = Reg(8) /\ Reg(9)' = Reg(9) /\ Reg(10)' = Reg(10)
                           /\ Reg(11)' = Reg(11) /\ Reg(12)' = Reg(12) /\ Reg(13)' = Reg(13)
  BY SameRegsIs DEF Reg
<1> QED BY <1>1, SameRegsIs, SMTT(20) DEF SettingUp, ERXST, ERXND, ERXRDPT

LEMMA KeepRunning ==
  ASSUME Running, SameRegs(Watched), spi'.doing = spi.doing,
         Done' = Done \/ (spi.doing # "poll" /\ (Done >= 1 <=> Done' >= 1))
  PROVE  Running'
<1>1. SameRegs(Watched) => /\ Reg(8)' = Reg(8) /\ Reg(9)' = Reg(9) /\ Reg(10)' = Reg(10)
                           /\ Reg(11)' = Reg(11)
  BY SameRegsIs DEF Reg
<1> QED BY <1>1, SameRegsIs DEF Running, Holding, ERXST, ERXND

LEMMA KeepQueued ==
  ASSUME Queued, unread' = unread, wire'.laid = wire.laid, Giving' <=> Giving,
         \A a \in RingStart..RingEnd : enc'.buffer[a] = enc.buffer[a],
         unread \in Seq(Frames)
  PROVE  Queued'
<1>1. ASSUME NEW i \in 1..Len(unread), IsWhole(unread[i]) PROVE IsWhole(unread[i])'
  <2> DEFINE f == unread[i]
  <2>1. f \in Frames /\ unread'[i] = f
    BY <1>1
  <2>2. \A k \in 0..5 + f.len : RingPlace(f.at + k) \in RingStart..RingEnd
    <3> TAKE k \in 0..5 + f.len
    <3>1. f.at + k \in Nat
      BY <2>1, SMTT(20) DEF Frames
    <3> QED BY <3>1, RingInRange
  <2>3. \A k \in 0..5 + f.len : IsByte(f, k, enc.buffer[RingPlace(f.at + k)])
    BY <1>1 DEF IsWhole
  <2> HIDE DEF f
  <2>4. \A k \in 0..5 + f.len : IsByte(f, k, enc'.buffer[RingPlace(f.at + k)])
    BY <2>2, <2>3
  <2>5. \A k \in 0..5 + f.len : IsByte(f, k, enc.buffer[RingPlace(f.at + k)])'
    BY <2>4 DEF IsByte, f
  <2> QED BY <2>1, <2>5 DEF IsWhole, f
<1> QED BY <1>1 DEF Queued

LEMMA KeepRoomy ==
  ASSUME Roomy, unread' = unread, wire'.laid = wire.laid, Giving' <=> Giving, spi'.next = spi.next,
         spi'.doing = spi.doing, enc'.rxWr = enc.rxWr, SameRegs(Watched),
         Done' = Done \/ spi.doing # "release"
  PROVE  Roomy'
<1>1. First' = First
  BY DEF First
<1>2. Freed' = Freed
  BY <1>1 DEF Freed, Giving
<1>3. Gap' = Gap
  BY <1>2 DEF Gap
<1>4. Reg(ERXRDPT)' = Reg(ERXRDPT) /\ Pair(enc.regs, ERXRDPT)' = Pair(enc.regs, ERXRDPT)
  BY SameRegsIs DEF Reg, Pair, ERXRDPT
<1> HIDE DEF Gap, Freed, First
<1> QED BY <1>1, <1>2, <1>3, <1>4 DEF Roomy

LEMMA KeepCaptured ==
  ASSUME Captured, enc'.count = enc.count, enc'.log = enc.log, sent' = sent
  PROVE  Captured'
BY DEF Captured, Sent

LEMMA DoneIs ==
  ASSUME EncTypeOK
  PROVE  /\ Done \in Nat
         /\ ~ spi.selected => Done = spi.step - 1
         /\ spi.selected /\ spi.byte >= Len(Now.out) => Done = spi.step
         /\ spi.selected /\ ~ (spi.byte >= Len(Now.out)) => Done = spi.step - 1
         /\ Done <= spi.step
BY DEF EncTypeOK, Drivers, Done

LEMMA KeepSending ==
  ASSUME EncTypeOK, Sending, Going, sent' = sent, Done' = Done, spi'.byte = spi.byte,
         enc'.regs = enc.regs, enc'.buffer = enc.buffer
  PROVE  Sending'
BY DEF Sending, Going, Copied, Reg, Pair

LEMMA BitKeeps ==
  ASSUME EncInv, Clock, BitTaken
  PROVE  EncInv'
<1> DEFINE s == Append(enc.shift, <<ByteNow, spi.bit + 1>>)
           b == spi.bit + 1
<1>1. ~ Over /\ spi.selected /\ spi.byte < Wanted /\ EncTypeOK /\ InStep
  BY ClockIs DEF EncInv
<1>2. enc \in Chips /\ spi \in Drivers /\ ByteNow \in Int /\ spi.bit \in Nat /\ spi.bit + 1 < BitsPerByte
  BY <1>1, Shape DEF EncTypeOK, Drivers, BitTaken
<1>3. /\ s \in Seq(Int \X Int) /\ s = [k \in 1..b |-> <<ByteNow, k>>]
  <2>1. enc.shift \in Seq(Int \X Int) /\ enc.shift = [k \in 1..spi.bit |-> <<ByteNow, k>>]
    BY <1>1, <1>2 DEF Chips, InStep
  <2>2. b \in Nat /\ <<ByteNow, b>> \in Int \X Int
    BY <1>2
  <2>3. s \in Seq(Int \X Int) /\ Len(enc.shift) = spi.bit
    BY <1>2, <2>1, <2>2
  <2>4. Len(s) = b /\ \A k \in 1..b : s[k] = <<ByteNow, k>>
    BY <1>2, <2>1, <2>2, <2>3
  <2> HIDE DEF s, b
  <2>5. DOMAIN s = 1..b /\ s = [k \in DOMAIN s |-> s[k]]
    BY <2>2, <2>3, <2>4
  <2> QED BY <2>3, <2>4, <2>5
<1>4. enc' = [enc EXCEPT !.shift = s] /\ spi' = [spi EXCEPT !.bit = b] /\ UNCHANGED <<wire, unread, sent>>
  BY DEF BitTaken
<1>5. b \in Nat /\ b < BitsPerByte
  BY <1>2
<1> HIDE DEF s, b
<1>6. /\ enc' \in Chips /\ enc'.regs = enc.regs /\ enc'.buffer = enc.buffer /\ enc'.rxWr = enc.rxWr
      /\ enc'.count = enc.count /\ enc'.log = enc.log /\ enc'.lastCs = enc.lastCs
      /\ enc'.index = enc.index /\ enc'.shift = s /\ enc'.op = enc.op /\ enc'.addr = enc.addr
      /\ enc'.out = enc.out
  <2>1. s \in Seq(Int \X Int) /\ enc \in Chips
    BY <1>2, <1>3
  <2> QED BY <1>4, <2>1, BitField DEF SameMemory
<1>7. spi' \in Drivers
  BY <1>2, <1>4, <1>5 DEF Drivers
<1>8. /\ Going /\ spi'.byte = spi.byte /\ spi'.got = spi.got /\ spi'.bit = b /\ spi'.selected = spi.selected
  BY <1>1, <1>2, <1>4 DEF Drivers, Going
<1>9. Now' = Now /\ Program' = Program /\ Over' = Over
  BY <1>8, SameNow DEF Going
<1>10. Done' = Done /\ (Giving' <=> Giving)
  BY <1>8, <1>9 DEF Done, Giving, Going
<1>11. SameRegs(Watched) /\ UNCHANGED <<wire, unread, sent>>
  BY <1>4, <1>6 DEF SameRegs
<1>12. EncTypeOK'
  BY <1>1, <1>6, <1>7, <1>11 DEF EncTypeOK
<1>13. InStep'
  <2>1. ByteNow' = ByteNow /\ Opcode' = Opcode
    BY <1>8, <1>9 DEF ByteNow, Opcode
  <2>2. enc.index = spi.byte /\ Len(spi.got) = spi.byte /\ spi.step <= Len(Program) + 1
        /\ (spi.byte > 0 => IF Opcode \in {SRC, RBM, WBM} THEN enc.op = Opcode
                            ELSE enc.op = Opcode - (Opcode % 32) /\ enc.addr = Opcode % 32)
    BY <1>1 DEF InStep
  <2> QED BY <1>1, <1>3, <1>5, <1>6, <1>8, <1>9, <2>1, <2>2 DEF InStep, Going
<1>14. Configured'
  BY <1>6, <1>8, <1>10, <1>11, KeepSettingUp, KeepRunning DEF EncInv, Configured, Going
<1>15. Counted'
  BY <1>6, <1>8, <1>10, <1>11 DEF EncInv, Counted, Promised, Going
<1>16. InOrder'
  <2>1. Up' <=> Up
    BY <1>8, <1>10 DEF Up, Going
  <2>2. Queued => Queued'
    BY <1>6, <1>10, <1>11, KeepQueued DEF EncInv, EncTypeOK
  <2>3. Roomy => Roomy'
    BY <1>6, <1>8, <1>10, <1>11, KeepRoomy DEF Going
  <2>4. Reading => Reading'
    BY <1>6, <1>8, <1>10, <1>11 DEF Reading, Reg, Pair, Going, IsByte
  <2> QED BY <1>11, <2>1, <2>2, <2>3, <2>4 DEF EncInv, InOrder
<1>17. Sending'
  BY <1>1, <1>6, <1>8, <1>10, <1>11, KeepSending DEF EncInv
<1>18. Captured'
  BY <1>6, <1>11, KeepCaptured DEF EncInv
<1> QED BY <1>12, <1>13, <1>14, <1>15, <1>16, <1>17, <1>18 DEF EncInv

-----------------------------------------------------------------------------
(* A byte clocked.                                                         *)

TakingOff  == spi.doing = "release" /\ spi.step = 3
SendingOff == spi.doing = "transmit" /\ spi.step = 10

(* What the byte is to the driver and to the history.                      *)
LEMMA History ==
  ASSUME EncTypeOK, ~ Over, ByteTaken, spi.byte < Wanted
  PROVE  /\ Resetting => /\ spi.byte = 0 /\ unread' = <<>> /\ sent' = sent
                         /\ wire' = [wire EXCEPT !.laid = 0, !.torn = FALSE]
         /\ TakingOff /\ spi.byte = 1 => unread' = Tail(unread) /\ wire' = wire /\ sent' = sent
         /\ SendingOff /\ spi.byte = 1 => unread' = unread /\ wire' = wire /\ sent' = Append(sent, spi.len)
         /\ ~ Resetting /\ ~ (TakingOff /\ spi.byte = 1) /\ ~ (SendingOff /\ spi.byte = 1) =>
              UNCHANGED <<unread, wire, sent>>
<1> DEFINE done == spi.byte + 1 = Len(Now.out)
<1>1. /\ unread' = CASE done /\ Now.out = <<SRC>> -> <<>>
                     [] done /\ Now.for = "release" -> Tail(unread)
                     [] OTHER -> unread
      /\ wire' = IF done /\ Now.out = <<SRC>>
                 THEN [wire EXCEPT !.laid = 0, !.torn = FALSE] ELSE wire
      /\ sent' = IF done /\ Now.for = "sent" THEN Append(sent, spi.len) ELSE sent
  BY Zenon DEF ByteTaken
<1>2. spi \in Drivers /\ spi.byte \in Nat
  BY DEF EncTypeOK, Drivers
<1>3. Now.out = <<SRC>> <=> Resetting
  <2>1. CASE Resetting
    BY <1>2, <2>1, Orders
  <2>2. CASE ~ Resetting
    <3>1. Opcode \in {RCR + 2, RCR + 25, RBM, WBM} \cup Commands
      BY <1>2, <2>2, Shape DEF Ordering
    <3>2. Opcode # SRC
      BY <3>1 DEF Commands, SRC, WCR, BFS, BFC, RCR, RBM, WBM
    <3> QED BY <2>2, <3>2 DEF Opcode
  <2> QED BY <2>1, <2>2
<1>4. Now.for = "release" <=> TakingOff
  <2>1. CASE Ordering
    BY <1>2, <2>1, Orders DEF TakingOff
  <2>2. CASE ~ Ordering
    <3>1. ~ TakingOff
      BY <2>2 DEF Ordering, TakingOff, Resetting, Checking, Polling, Fetching, Copying
    <3>2. Now.for # "release"
      BY <1>2, <2>2, Orders DEF Ordering
    <3> QED BY <3>1, <3>2
  <2> QED BY <2>1, <2>2
<1>5. Now.for = "sent" <=> SendingOff
  <2>1. CASE Ordering
    BY <1>2, <2>1, Orders DEF SendingOff
  <2>2. CASE ~ Ordering
    <3>1. ~ SendingOff
      BY <2>2 DEF Ordering, SendingOff, Resetting, Checking, Polling, Fetching, Copying
    <3>2. Now.for # "sent"
      BY <1>2, <2>2, Orders DEF Ordering
    <3> QED BY <3>1, <3>2
  <2> QED BY <2>1, <2>2
<1>6. /\ TakingOff \/ SendingOff => Len(Now.out) = 2 /\ ~ Resetting
      /\ TakingOff => ~ SendingOff
      /\ Resetting => Len(Now.out) = 1 /\ Wanted = 1
  <2>1. TakingOff \/ SendingOff => Ordering /\ ~ Resetting
    BY DEF Ordering, TakingOff, SendingOff, Resetting, Checking, Polling, Fetching, Copying
  <2>2. Resetting => ~ Ordering /\ ~ Copying
    BY Apart DEF Ordering
  <2> QED BY <1>2, <2>1, <2>2, Shape DEF TakingOff, SendingOff
<1>7. Resetting => spi.byte = 0
  BY <1>2, <1>6
<1>8. done <=> spi.byte + 1 = Len(Now.out)
  OBVIOUS
<1> HIDE DEF done
<1>9. CASE Resetting
  <2>1. done
    <3>1. spi.byte = 0 /\ Len(Now.out) = 1
      BY <1>6, <1>7, <1>9, Zenon
    <3>2. spi.byte + 1 = Len(Now.out)
      BY <3>1
    <3> QED BY <1>8, <3>2, Zenon
  <2>6. ~ SendingOff
    BY <1>6, <1>9, Zenon
  <2>3. Now.out = <<SRC>> /\ Now.for # "sent"
    BY <1>3, <1>5, <1>9, <2>6, Zenon
  <2>4. unread' = <<>>
    <3> DEFINE one == Now.out = <<SRC>>
    <3>1. unread' = CASE done /\ one -> <<>>
                      [] done /\ Now.for = "release" -> Tail(unread)
                      [] OTHER -> unread
      BY <1>1, Zenon
    <3>2. one /\ Now.for # "release"
      BY <1>4, <1>6, <1>9, <2>3, Zenon
    <3> HIDE DEF one
    <3> QED BY <2>1, <3>1, <3>2
  <2>5. sent' = sent /\ wire' = [wire EXCEPT !.laid = 0, !.torn = FALSE]
    BY <1>1, <2>1, <2>3
  <2>2. unread' = <<>> /\ sent' = sent /\ wire' = [wire EXCEPT !.laid = 0, !.torn = FALSE]
    BY <2>4, <2>5
  <2> QED BY <1>7, <1>9, <2>1, <2>2
<1>10. CASE TakingOff /\ spi.byte = 1
  <2>1. done /\ ~ Resetting /\ ~ SendingOff
    BY <1>6, <1>8, <1>10
  <2>2. unread' = Tail(unread) /\ sent' = sent /\ wire' = wire
    BY <1>1, <1>3, <1>4, <1>5, <1>10, <2>1
  <2> QED BY <1>10, <2>1, <2>2
<1>11. CASE SendingOff /\ spi.byte = 1
  <2>1. done /\ ~ Resetting /\ ~ TakingOff
    BY <1>6, <1>8, <1>11
  <2>2. unread' = unread /\ sent' = Append(sent, spi.len) /\ wire' = wire
    BY <1>1, <1>3, <1>4, <1>5, <1>11, <2>1
  <2> QED BY <1>11, <2>1, <2>2
<1>12. CASE ~ Resetting /\ ~ (TakingOff /\ spi.byte = 1) /\ ~ (SendingOff /\ spi.byte = 1)
  <2>3. ASSUME done, TakingOff \/ SendingOff PROVE FALSE
    <3>1. spi.byte # 1
      BY <1>12, <2>3, Zenon
    <3>2. Len(Now.out) = 2
      BY <1>6, <2>3, Zenon
    <3> QED BY <1>2, <1>8, <2>3, <3>1, <3>2
  <2>1. ~ (done /\ TakingOff) /\ ~ (done /\ SendingOff)
    BY <2>3, Zenon
  <2>5. ~ (done /\ Now.for = "release") /\ ~ (done /\ Now.for = "sent") /\ Now.out # <<SRC>>
    BY <1>3, <1>4, <1>5, <1>12, <2>1, Zenon
  <2>2. unread' = unread /\ sent' = sent /\ wire' = wire
    BY <1>1, <2>5
  <2> QED BY <1>12, <2>2
<1> QED BY <1>9, <1>10, <1>11, <1>12

(* The chip knows what it was told to do.                                  *)
Understood(f) ==
  IF Opcode \in {SRC, RBM, WBM} THEN f.op = Opcode
  ELSE f.op = Opcode - (Opcode % 32) /\ f.addr = Opcode % 32

LEMMA HistoryIs ==
  ASSUME EncTypeOK, ~ Over, ByteTaken, spi.byte < Wanted
  PROVE  /\ wire' = wire \/ wire' = [wire EXCEPT !.laid = 0, !.torn = FALSE]
         /\ unread' = <<>> \/ unread' = unread \/ (TakingOff /\ spi.byte = 1 /\ unread' = Tail(unread))
         /\ sent' = sent \/ sent' = Append(sent, spi.len)
BY History, Zenon

LEMMA ByteIs ==
  ASSUME EncInv, Clock, ByteTaken,
         SameLine(enc, OnByteComplete(enc, ByteNow)), Understood(OnByteComplete(enc, ByteNow))
  PROVE  LET f == OnByteComplete(enc, ByteNow)
         IN  /\ SameMemory(f, enc') /\ enc'.out = f.out
             /\ Going /\ spi'.byte = spi.byte + 1 /\ spi'.got = Append(spi.got, enc.out)
             /\ Now' = Now /\ EncTypeOK' /\ InStep'
             /\ Done' = IF spi.byte + 1 >= Len(Now.out) THEN spi.step ELSE spi.step - 1
<1> DEFINE f == OnByteComplete(enc, ByteNow)
           n == f.index + 1
<1>1. ~ Over /\ spi.selected /\ spi.byte < Wanted /\ EncTypeOK /\ InStep
  BY ClockIs DEF EncInv
<1>2. /\ enc \in Chips /\ spi \in Drivers /\ f \in Chips /\ f.lastCs = enc.lastCs /\ f.index = enc.index
      /\ Understood(f)
  BY <1>1 DEF EncTypeOK, SameLine
<1>3. /\ enc' = [f EXCEPT !.shift = <<>>, !.index = f.index + 1]
      /\ spi' = [spi EXCEPT !.bit = 0, !.byte = spi.byte + 1, !.got = Append(spi.got, enc.out)]
  BY Zenon DEF ByteTaken
<1>4. enc.out \in Int /\ enc.index \in Nat /\ spi.byte \in Nat /\ spi.got \in Seq(Int) /\ spi.step \in Nat
      /\ spi.len \in Nat
  BY <1>2 DEF Chips, Drivers
<1> HIDE DEF f
<1>5. n \in Nat /\ n = spi.byte + 1
  BY <1>1, <1>2, <1>4 DEF InStep
<1>6. /\ enc' \in Chips /\ SameMemory(f, enc') /\ enc'.lastCs = enc.lastCs /\ enc'.index = n
      /\ enc'.shift = <<>> /\ enc'.op = f.op /\ enc'.addr = f.addr /\ enc'.out = f.out
  BY <1>2, <1>3, <1>5, ByteFields
<1> DEFINE g == Append(spi.got, enc.out)
<1>7. g \in Seq(Int) /\ Len(g) = Len(spi.got) + 1
  BY <1>4
<1> HIDE DEF g, n
<1>8. /\ spi' \in Drivers /\ Going /\ spi'.byte = n /\ spi'.got = g /\ spi'.bit = 0 /\ spi'.selected = TRUE
  <2>1. spi' = [spi EXCEPT !.bit = 0, !.byte = n, !.got = g]
    BY <1>3, <1>5 DEF g
  <2> QED BY <1>1, <1>2, <1>5, <1>7, <2>1 DEF Drivers, Going
<1>9. Now' = Now /\ Program' = Program /\ Over' = Over
  BY <1>8, SameNow DEF Going
<1>10. Opcode' = Opcode
  BY <1>9 DEF Opcode
<1>11. Done' = IF spi.byte + 1 >= Len(Now.out) THEN spi.step ELSE spi.step - 1
  BY <1>5, <1>8, <1>9 DEF Done, Going
<1>12. InStep'
  <2>1. enc'.shift = [k \in 1..0 |-> <<ByteNow', k>>]
    BY <1>6
  <2>2. spi.step <= Len(Program) + 1 /\ Len(spi.got) = spi.byte
    BY <1>1 DEF InStep
  <2>3. 0 < BitsPerByte
    BY EncAssumption
  <2>4. spi'.bit < BitsPerByte /\ enc'.index = spi'.byte
        /\ enc'.shift = [k \in 1..spi'.bit |-> <<ByteNow', k>>]
        /\ Len(spi'.got) = spi'.byte
    BY <1>5, <1>6, <1>7, <1>8, <2>1, <2>2, <2>3
  <2>5. IF Opcode' \in {SRC, RBM, WBM} THEN enc'.op = Opcode'
        ELSE enc'.op = Opcode' - (Opcode' % 32) /\ enc'.addr = Opcode' % 32
    BY <1>2, <1>6, <1>10 DEF Understood
  <2> HIDE DEF Understood
  <2> QED BY <1>1, <1>8, <1>9, <2>2, <2>4, <2>5 DEF InStep, Going
<1>13. EncTypeOK'
  <2>1. wire' \in [injected : Nat, restarts : Nat, laid : Nat, torn : BOOLEAN]
    <3>1. wire \in [injected : Nat, restarts : Nat, laid : Nat, torn : BOOLEAN]
      BY <1>1 DEF EncTypeOK
    <3>2. wire' = wire \/ wire' = [wire EXCEPT !.laid = 0, !.torn = FALSE]
      BY <1>1, HistoryIs
    <3>3. [wire EXCEPT !.laid = 0, !.torn = FALSE] \in [injected : Nat, restarts : Nat, laid : Nat, torn : BOOLEAN]
      BY <3>1
    <3> QED BY <3>1, <3>2, <3>3, Zenon
  <2>2. unread' \in Seq(Frames)
    <3>1. unread \in Seq(Frames)
      BY <1>1 DEF EncTypeOK
    <3>2. CASE TakingOff /\ spi.byte = 1
      <4>1. Len(Now.out) = 2
        <5>1. Ordering
          BY <3>2 DEF Ordering, TakingOff, Resetting, Checking, Polling, Fetching, Copying
        <5> QED BY <1>1, <1>2, <5>1, Shape
      <4>2. Done < 3
        BY <1>1, <3>2, <4>1 DEF Done, TakingOff
      <4>3. Giving
        BY <3>2, <4>2 DEF Giving, TakingOff
      <4>4. Len(unread) > 0
        BY <3>1, <4>3 DEF EncInv, Counted
      <4>5. unread' = Tail(unread)
        BY <1>1, <3>2, History
      <4> QED BY <3>1, <4>4, <4>5
    <3>3. CASE ~ (TakingOff /\ spi.byte = 1)
      <4>1. unread' = <<>> \/ unread' = unread
        BY <1>1, <3>3, HistoryIs, Zenon
      <4>2. <<>> \in Seq(Frames)
        OBVIOUS
      <4> QED BY <3>1, <4>1, <4>2, Zenon
    <3> QED BY <3>2, <3>3
  <2>3. sent' \in Seq(Nat)
    <3>1. sent \in Seq(Nat)
      BY <1>1 DEF EncTypeOK
    <3>2. sent' = sent \/ sent' = Append(sent, spi.len)
      BY <1>1, HistoryIs
    <3>3. Append(sent, spi.len) \in Seq(Nat)
      BY <1>4, <3>1
    <3> QED BY <3>1, <3>2, <3>3, Zenon
  <2> QED BY <1>6, <1>8, <2>1, <2>2, <2>3 DEF EncTypeOK
<1> QED BY <1>5, <1>6, <1>8, <1>9, <1>11, <1>12, <1>13 DEF f, g

LEMMA BeforeOut ==
  ASSUME EncTypeOK, ~ Over, spi.selected
  PROVE  /\ Ordering => Done = IF spi.byte >= 2 THEN spi.step ELSE spi.step - 1
         /\ Copying => Done = IF spi.byte >= 2 + spi.len THEN spi.step ELSE spi.step - 1
         /\ ~ Ordering /\ ~ Copying => Done = IF spi.byte >= 1 THEN spi.step ELSE spi.step - 1
<1>1. spi \in Drivers /\ spi.byte \in Nat /\ spi.len \in Nat
  BY DEF EncTypeOK, Drivers
<1>2. Done = IF spi.byte >= Len(Now.out) THEN spi.step ELSE spi.step - 1
  BY DEF Done
<1>3. Len(Now.out) = IF Ordering THEN 2 ELSE IF Copying THEN 2 + spi.len ELSE 1
  BY <1>1, Shape
<1>4. Copying => ~ Ordering
  BY DEF Ordering
<1> QED BY <1>2, <1>3, <1>4

LEMMA OpcodeByte ==
  ASSUME EncInv, ~ Over, spi.selected, spi.byte = 0, ~ Resetting
  PROVE  LET f == OnByteComplete(enc, ByteNow)
         IN  /\ SameLine(enc, f) /\ SameMemory(enc, f) /\ Understood(f)
             /\ Polling => f.out = enc.regs[EPKTCNT]
             /\ Fetching => f.out = enc.buffer[Pair(enc.regs, ERDPT)]
<1> DEFINE b == Opcode
           f == DecodeOpcode(enc, b)
<1>1. /\ EncTypeOK /\ InStep /\ spi \in Drivers /\ enc \in Chips
  BY DEF EncInv, EncTypeOK
<1>2. enc.index = 0
  BY <1>1 DEF InStep
<1>3. OnByteComplete(enc, ByteNow) = f
  <2>1. ByteNow = b
    BY <1>1, Shape
  <2> HIDE DEF f, b
  <2> QED BY <1>2, <2>1, FirstByte DEF f
<1>4. CASE Ordering
  <2>1. b \in Commands /\ ~ Polling /\ ~ Fetching
    BY <1>1, <1>4, Shape DEF Ordering
  <2>2. b \in 0..255 /\ b - (b % 32) \in {WCR, BFS, BFC} /\ b \notin {SRC, WBM} /\ b # RBM
    BY <2>1 DEF Commands, WCR, BFS, BFC, SRC, RBM, WBM
  <2>3. SameLine(enc, f) /\ SameMemory(enc, f) /\ f.op = b - (b % 32) /\ f.addr = b % 32
    <3> HIDE DEF f, b
    <3> QED BY <1>1, <2>2, CommandByte DEF f
  <2>4. Understood(f)
    <3> HIDE DEF f
    <3> QED BY <2>2, <2>3 DEF Understood
  <2> QED BY <1>3, <2>1, <2>3, <2>4
<1>5. CASE Copying \/ Fetching
  <2>1. b \in {RBM, WBM} /\ (Fetching => b = RBM) /\ ~ Polling
    BY <1>1, <1>5, Shape, Apart
  <2>2. SameLine(enc, f) /\ SameMemory(enc, f) /\ f.op = b /\ (b = RBM => f.out = enc.buffer[Pair(enc.regs, ERDPT)])
    <3> HIDE DEF f, b
    <3> QED BY <1>1, <2>1, BufferByte DEF f
  <2>3. Understood(f)
    <3> HIDE DEF f
    <3> QED BY <2>1, <2>2 DEF Understood
  <2> HIDE DEF f
  <2> QED BY <1>3, <2>1, <2>2, <2>3
<1>6. CASE Checking \/ Polling
  <2>1. (Checking => b = RCR + 2) /\ (Polling => b = RCR + 25) /\ ~ Fetching
    BY <1>1, <1>6, Shape, Apart
  <2>2. Bank(enc) = IF b = RCR + 2 THEN 2 ELSE 1
    <3>1. Done = spi.step - 1
      BY <1>1, BeforeOut, Apart, <1>6 DEF Ordering
    <3>2. CASE Checking
      <4>1. enc.regs[ECON1] = 2
        BY <3>1, <3>2 DEF EncInv, Configured, SettingUp, Checking
      <4> QED BY <2>1, <3>2, <4>1 DEF Bank
    <3>3. CASE Polling
      <4>1. enc.regs[ECON1] = 5
        BY <3>1, <3>3 DEF EncInv, Configured, Running, Polling
      <4> QED BY <2>1, <3>3, <4>1 DEF Bank, RCR
    <3> QED BY <1>6, <3>2, <3>3
  <2>3. b \in {RCR + 2, RCR + 25} /\ b \notin {SRC, RBM, WBM} /\ b - (b % 32) = RCR /\ (Polling => b = RCR + 25)
    BY <1>6, <2>1 DEF RCR, SRC, RBM, WBM
  <2>4. /\ SameLine(enc, f) /\ SameMemory(enc, f) /\ f.op = RCR /\ f.addr = b % 32
        /\ b = RCR + 25 => f.out = enc.regs[EPKTCNT]
    <3> HIDE DEF f, b
    <3> QED BY <1>1, <2>2, <2>3, RegisterReadByte DEF f
  <2>5. Understood(f)
    <3> HIDE DEF f
    <3> QED BY <2>3, <2>4 DEF Understood
  <2> HIDE DEF f
  <2> QED BY <1>3, <2>1, <2>3, <2>4, <2>5
<1> QED BY <1>4, <1>5, <1>6 DEF Ordering

(* A byte that changes nothing but the SPI line's own fields.              *)
LEMMA QuietConfigured ==
  ASSUME EncInv, Going, UNCHANGED <<wire, unread>>, SameRegs(Watched), enc'.rxWr = enc.rxWr,
         Done' = Done \/ (Checking /\ Done = 13 /\ Done' = 14) \/ (Polling /\ Done = 2 /\ Done' = 3)
           \/ (Fetching /\ Done = 4 /\ Done' = 5)
  PROVE  Configured'
<1>1. CASE Done' = Done
  BY <1>1, KeepSettingUp, KeepRunning DEF EncInv, Configured, Going
<1>2. CASE Checking /\ Done = 13 /\ Done' = 14
  <2>1. SettingUp
    BY <1>2 DEF EncInv, Configured, Checking
  <2>2. /\ Reg(8)' = Reg(8) /\ Reg(9)' = Reg(9) /\ Reg(10)' = Reg(10)
        /\ Reg(11)' = Reg(11) /\ Reg(12)' = Reg(12) /\ Reg(13)' = Reg(13)
    BY SameRegsIs DEF Reg
  <2>3. SettingUp'
    BY <1>2, <2>1, <2>2, SameRegsIs DEF SettingUp, ERXST, ERXND, ERXRDPT, Going
  <2> QED BY <1>2, <2>3 DEF Configured, Checking, Going
<1>3. CASE Polling /\ Done = 2 /\ Done' = 3
  <2>1. Running
    BY <1>3 DEF EncInv, Configured, Polling
  <2>2. /\ Reg(8)' = Reg(8) /\ Reg(9)' = Reg(9) /\ Reg(10)' = Reg(10)
        /\ Reg(11)' = Reg(11)
    BY SameRegsIs DEF Reg
  <2>3. Running'
    BY <1>3, <2>1, <2>2, SameRegsIs DEF Running, Holding, ERXST, ERXND, Polling, Going
  <2> QED BY <1>3, <2>3 DEF Configured, Polling, Going
<1>4. CASE Fetching /\ Done = 4 /\ Done' = 5
  BY <1>4, KeepRunning DEF EncInv, Configured, Fetching, Going
<1> QED BY <1>1, <1>2, <1>3, <1>4

LEMMA OpcodeKeeps ==
  ASSUME EncInv, Clock, ByteTaken, spi.byte = 0, ~ Resetting
  PROVE  EncInv'
<1> DEFINE f == OnByteComplete(enc, ByteNow)
<1>1. ~ Over /\ spi.selected /\ spi.byte < Wanted /\ EncTypeOK /\ InStep
  BY ClockIs DEF EncInv
<1>2. spi \in Drivers /\ enc \in Chips /\ spi.step \in Nat \ {0}
  BY <1>1 DEF EncTypeOK, Drivers
<1>3. /\ SameLine(enc, f) /\ SameMemory(enc, f) /\ Understood(f)
      /\ Polling => f.out = enc.regs[EPKTCNT]
      /\ Fetching => f.out = enc.buffer[Pair(enc.regs, ERDPT)]
  BY <1>1, OpcodeByte
<1>4. /\ SameMemory(f, enc') /\ enc'.out = f.out
      /\ Going /\ spi'.byte = spi.byte + 1 /\ spi'.got = Append(spi.got, enc.out)
      /\ Now' = Now /\ EncTypeOK' /\ InStep'
      /\ Done' = IF spi.byte + 1 >= Len(Now.out) THEN spi.step ELSE spi.step - 1
  BY <1>3, ByteIs
<1> HIDE DEF f
<1>5. /\ enc'.regs = enc.regs /\ enc'.buffer = enc.buffer /\ enc'.rxWr = enc.rxWr
      /\ enc'.count = enc.count /\ enc'.log = enc.log
  BY <1>3, <1>4 DEF SameMemory
<1>6. UNCHANGED <<wire, unread, sent>>
  <2>1. ~ (TakingOff /\ spi.byte = 1) /\ ~ (SendingOff /\ spi.byte = 1)
    OBVIOUS
  <2> QED BY <1>1, <2>1, History
<1>7. /\ Ordering \/ Copying => Done' = Done
      /\ Done = spi.step - 1
      /\ Checking \/ Polling \/ Fetching => Done' = spi.step
  <2>1. spi.len \in Nat
    BY <1>2 DEF Drivers
  <2>2. /\ Ordering => Len(Now.out) = 2
        /\ Copying => Len(Now.out) = 2 + spi.len
        /\ Checking \/ Polling \/ Fetching => Len(Now.out) = 1
    BY <1>1, <1>2, Shape, Apart DEF Ordering
  <2>3. Len(Now.out) >= 1
    BY <2>1, <2>2 DEF Ordering
  <2>4. Done = spi.step - 1
    BY <1>1, <2>3 DEF Done
  <2>5. ASSUME Ordering \/ Copying PROVE Done' = Done
    <3>1. Len(Now.out) >= 2 /\ Len(Now.out) \in Int
      <4>1. CASE Ordering
        BY <2>2, <4>1, SMTT(20)
      <4>2. CASE Copying
        BY <2>1, <2>2, <4>2
      <4> QED BY <2>5, <4>1, <4>2
    <3> QED BY <1>4, <2>4, <3>1
  <2>6. ASSUME Checking \/ Polling \/ Fetching PROVE Done' = spi.step
    <3>1. Len(Now.out) = 1
      BY <2>2, <2>6
    <3> QED BY <1>4, <3>1
  <2> QED BY <2>4, <2>5, <2>6
<1>8. SameRegs(Watched)
  BY <1>5 DEF SameRegs
<1>9. Done' = Done \/ (Checking /\ Done = 13 /\ Done' = 14) \/ (Polling /\ Done = 2 /\ Done' = 3)
        \/ (Fetching /\ Done = 4 /\ Done' = 5)
  BY <1>7 DEF Ordering, Checking, Polling, Fetching
<1>10. Configured'
  BY <1>4, <1>5, <1>6, <1>8, <1>9, QuietConfigured
<1>11. Giving' <=> Giving
  BY <1>4, <1>9 DEF Giving, Going, Checking, Polling, Fetching
<1>12. Counted'
  <2>1. Promised'
    <3>1. Polling => enc'.out <= enc'.regs[EPKTCNT]
      <4>1. enc.regs[EPKTCNT] \in Int
        BY <1>2, Names DEF Chips
      <4> QED BY <1>3, <1>4, <1>5, <4>1
    <3>2. spi'.byte = 1
      BY <1>4
    <3> QED BY <1>4, <3>1, <3>2 DEF Promised, Polling, Going
  <2> QED BY <1>4, <1>5, <1>6, <1>11, <2>1 DEF EncInv, Counted, Going
<1>13. InOrder'
  <2>1. Up' <=> Up
    BY <1>4, <1>9 DEF Up, Going, Checking, Polling, Fetching
  <2>2. Queued => Queued'
    BY <1>1, <1>5, <1>6, <1>11, KeepQueued DEF EncTypeOK
  <2>3. Roomy => Roomy'
    <3>1. Done' = Done \/ spi.doing # "release"
      BY <1>9 DEF Checking, Polling, Fetching
    <3> QED BY <1>4, <1>5, <1>6, <1>8, <1>11, <3>1, KeepRoomy DEF Going
  <2>4. ASSUME Queued, Roomy, Reading PROVE Reading'
    <3>1. CASE spi.doing # "receive"
      BY <1>4, <3>1 DEF Reading, Going
    <3>2. CASE spi.doing = "receive" /\ ~ Fetching
      <4>1. Done' = Done
        BY <1>9, <3>2 DEF Fetching, Checking, Polling
      <4> QED BY <1>2, <1>4, <1>5, <2>4, <3>2, <4>1 DEF Reading, Reg, Pair, Going, Fetching
    <3>3. CASE Fetching
      <4>1. Pair(enc.regs, ERDPT) = spi.next
        BY <1>7, <2>4, <3>3 DEF Reading, Fetching
      <4>2. ~ Giving /\ Len(unread) > 0 /\ unread \in Seq(Frames)
        BY <1>1, <3>3 DEF EncInv, Counted, Fetching, Giving, EncTypeOK
      <4>3. unread[1] \in Frames /\ First = unread[1].at
        BY <4>2 DEF First
      <4>4. spi.next = RingPlace(unread[1].at + 0)
        BY <2>4, <4>3 DEF Roomy, Frames
      <4>5. IsByte(unread[1], 0, enc.buffer[RingPlace(unread[1].at + 0)])
        <5>1. IsWhole(unread[1])
          BY <2>4, <4>2 DEF Queued
        <5>2. 0 \in 0..5 + unread[1].len
          BY <4>3 DEF Frames
        <5> QED BY <5>1, <5>2 DEF IsWhole
      <4>6. IsByte(unread[1], 0, enc'.out)
        BY <1>3, <1>4, <3>3, <4>1, <4>4, <4>5
      <4>7. Pair(enc'.regs, ERDPT) = RingPlace(unread[1].at + 0)
        BY <1>5, <4>1, <4>4
      <4>8. spi'.byte = 1 /\ unread' = unread /\ Done' = 5 /\ spi'.step = 5 /\ spi'.doing = "receive" /\ spi'.selected
        BY <1>4, <1>6, <1>7, <3>3 DEF Fetching, Going
      <4>9. unread[1].at + 1 - 1 = unread[1].at + 0 /\ 1 - 1 = 0
        BY <4>3 DEF Frames
      <4>10. IsByte(unread[1], 0, enc.out)'
        BY <4>6, <4>8 DEF IsByte
      <4>11. Pair(enc.regs, ERDPT)' = RingPlace(unread[1].at + 0)'
        BY <4>7, <4>8 DEF Pair, RingPlace
      <4> QED BY <4>8, <4>9, <4>10, <4>11 DEF Reading
    <3> QED BY <3>1, <3>2, <3>3 DEF Fetching
  <2> QED BY <1>6, <2>1, <2>2, <2>3, <2>4 DEF EncInv, InOrder
<1>14. Sending'
  <2>1. CASE spi.doing # "transmit"
    BY <1>4, <2>1 DEF Sending, Going
  <2>2. CASE spi.doing = "transmit"
    <3>1. Done' = Done
      BY <1>9, <2>2 DEF Checking, Polling, Fetching
    <3>2. Copied' = Copied
      BY <1>2, <1>4 DEF Copied, Going
    <3>3. spi.doing = "transmit" => Sending
      BY DEF EncInv
    <3>4. TxStart + 0 = TxStart /\ TxStart + (1 - 1) = TxStart
      BY EncAssumption
    <3> QED BY <1>2, <1>4, <1>5, <1>6, <2>2, <3>1, <3>2, <3>3, <3>4
            DEF Sending, Going, Reg, Pair
  <2> QED BY <2>1, <2>2
<1>15. Captured'
  BY <1>5, <1>6, KeepCaptured DEF EncInv
<1> QED BY <1>4, <1>10, <1>12, <1>13, <1>14, <1>15 DEF EncInv

LEMMA ResetKeeps ==
  ASSUME EncInv, Clock, ByteTaken, Resetting
  PROVE  EncInv'
<1> DEFINE f == OnByteComplete(enc, ByteNow)
<1>1. ~ Over /\ spi.selected /\ spi.byte < Wanted /\ EncTypeOK /\ InStep
  BY ClockIs DEF EncInv
<1>2. spi \in Drivers /\ enc \in Chips
  BY <1>1 DEF EncTypeOK
<1>3. spi.byte = 0 /\ unread' = <<>> /\ sent' = sent /\ wire' = [wire EXCEPT !.laid = 0, !.torn = FALSE]
  BY <1>1, History
<1>4. wire'.laid = 0 /\ wire'.torn = FALSE
  BY <1>1, <1>3 DEF EncTypeOK
<1>5. f = DecodeOpcode(enc, SRC) /\ Opcode = SRC
  <2>1. ByteNow = SRC /\ Opcode = SRC
    BY <1>1, <1>2, <1>3, Shape
  <2>2. enc.index = 0
    BY <1>1, <1>3 DEF InStep
  <2> QED BY <2>1, <2>2, FirstByte
<1> HIDE DEF f
<1>6. SameLine(enc, f) /\ f.op = SRC /\ f.regs = ResetRegs /\ f.rxWr = 0
      /\ f.buffer = enc.buffer /\ f.count = enc.count /\ f.log = enc.log
  BY <1>2, <1>5, ResetByte
<1>7. Understood(f)
  BY <1>5, <1>6 DEF Understood
<1>8. /\ SameMemory(f, enc') /\ Going /\ EncTypeOK' /\ InStep'
      /\ spi'.byte = spi.byte + 1
      /\ Done' = IF spi.byte + 1 >= Len(Now.out) THEN spi.step ELSE spi.step - 1
  BY <1>6, <1>7, ByteIs DEF f
<1>9. Done' = 1 /\ spi'.doing = "setup" /\ spi'.next = spi.next
  <2>1. Len(Now.out) = 1
    BY <1>1, <1>2, Shape, Apart DEF Ordering
  <2> QED BY <1>3, <1>8, <2>1 DEF Resetting, Going
<1>10. enc'.regs = ResetRegs /\ enc'.count = enc.count /\ enc'.log = enc.log
  BY <1>6, <1>8 DEF SameMemory
<1>11. ResetRegs[ECON1] = 0 /\ ResetRegs[ECON2] = 128 /\ ResetRegs[EPKTCNT] = 0
  BY Names DEF ResetRegs, ECON1, ECON2, EPKTCNT, ESTAT, ERXFCON
<1>12. Configured'
  <2>1. spi.next = RingStart
    BY DEF EncInv, Configured, SettingUp, Resetting
  <2>2. SettingUp'
    BY <1>3, <1>4, <1>9, <1>10, <1>11, <2>1 DEF SettingUp
  <2> QED BY <1>9, <2>2 DEF Configured
<1>13. Counted'
  BY <1>3, <1>9, <1>10, <1>11 DEF Counted, Promised, Giving
<1>14. InOrder'
  BY <1>9 DEF InOrder, Up
<1>15. Sending'
  BY <1>9 DEF Sending
<1>16. Captured'
  BY <1>3, <1>10, KeepCaptured DEF EncInv
<1> QED BY <1>8, <1>12, <1>13, <1>14, <1>15, <1>16 DEF EncInv

(* Register bytes read after the opcode.                                   *)
LEMMA RegisterKeeps ==
  ASSUME EncInv, Clock, ByteTaken, spi.byte > 0, Checking \/ Polling
  PROVE  EncInv'
<1> DEFINE f == OnByteComplete(enc, ByteNow)
<1>1. ~ Over /\ spi.selected /\ spi.byte < Wanted /\ EncTypeOK /\ InStep
  BY ClockIs DEF EncInv
<1>2. spi \in Drivers /\ enc \in Chips /\ spi.byte \in Nat /\ enc.index = spi.byte /\ Len(spi.got) = spi.byte
      /\ spi.got \in Seq(Int) /\ enc.out \in Int
  BY <1>1 DEF EncTypeOK, Drivers, InStep, Chips
<1>3. ~ Ordering /\ ~ Copying /\ ~ Resetting /\ ~ Fetching
  BY Apart DEF Ordering
<1>4. Done = spi.step
  BY <1>1, <1>2, <1>3, BeforeOut
<1>5. enc.op = RCR /\ enc.addr = IF Checking THEN 2 ELSE 25
  <2>1. Opcode = IF Checking THEN RCR + 2 ELSE RCR + 25
    BY <1>1, <1>2, Shape, Apart
  <2>2. enc.op = Opcode - (Opcode % 32) /\ enc.addr = Opcode % 32
    BY <1>1, <2>1 DEF InStep, SRC, RBM, WBM, RCR
  <2> QED BY <2>1, <2>2 DEF RCR
<1>6. Slot(Bank(enc), enc.addr) \in Registers
  <2>1. CASE Checking
    <3>1. enc.regs[ECON1] = 2
      BY <1>4, <2>1 DEF EncInv, Configured, SettingUp, Checking
    <3>2. Slot(Bank(enc), enc.addr) = MACON3
      BY <1>5, <2>1, <3>1 DEF Slot, Bank, MACON3
    <3> QED BY <3>2, Names
  <2>2. CASE ~ Checking
    <3>1. enc.regs[ECON1] = 5
      BY <1>4, <2>2 DEF EncInv, Configured, Running, Polling
    <3>2. Slot(Bank(enc), enc.addr) = EPKTCNT
      BY <1>5, <2>2, <3>1 DEF Slot, Bank, EPKTCNT
    <3> QED BY <3>2, Names
  <2> QED BY <2>1, <2>2
<1>7. SameLine(enc, f) /\ SameMemory(enc, f) /\ f.op = enc.op /\ f.addr = enc.addr
  BY <1>2, <1>5, <1>6, RegisterDataByte
<1> HIDE DEF f
<1>8. Understood(f)
  BY <1>1, <1>7 DEF Understood, InStep
<1>9. /\ SameMemory(f, enc')
      /\ Going /\ spi'.byte = spi.byte + 1 /\ spi'.got = Append(spi.got, enc.out)
      /\ EncTypeOK' /\ InStep'
      /\ Done' = IF spi.byte + 1 >= Len(Now.out) THEN spi.step ELSE spi.step - 1
  BY <1>7, <1>8, ByteIs DEF f
<1>10. Done' = Done
  <2>1. Len(Now.out) = 1
    BY <1>1, <1>2, <1>3, Shape
  <2> QED BY <1>2, <1>4, <1>9, <2>1
<1>11. /\ enc'.regs = enc.regs /\ enc'.buffer = enc.buffer /\ enc'.rxWr = enc.rxWr
       /\ enc'.count = enc.count /\ enc'.log = enc.log
  BY <1>7, <1>9 DEF SameMemory
<1>12. UNCHANGED <<wire, unread, sent>>
  <2>1. ~ TakingOff /\ ~ SendingOff
    BY DEF Checking, Polling, TakingOff, SendingOff
  <2> QED BY <1>1, <1>3, <2>1, History
<1>13. SameRegs(Watched)
  BY <1>11 DEF SameRegs
<1>14. Configured'
  BY <1>9, <1>10, <1>11, <1>12, <1>13, QuietConfigured
<1>15. Giving' <=> Giving
  BY <1>9, <1>10 DEF Giving, Going
<1>16. Counted'
  <2>1. Promised'
    <3>1. CASE Polling
      <4>1. Wanted = 2
        BY <1>1, <1>2, <1>3, <3>1, Shape, Apart
      <4>2. spi.byte = 1
        BY <1>1, <1>2, <4>1
      <4>3. enc.out <= enc.regs[EPKTCNT]
        BY <1>1, <3>1, <4>2 DEF EncInv, Counted, Promised, Polling
      <4>4. spi'.got[2] = enc.out
        BY <1>2, <1>9, <4>2
      <4> QED BY <1>9, <1>11, <4>2, <4>3, <4>4 DEF Promised
    <3>2. CASE ~ Polling
      BY <1>9, <3>2 DEF Promised, Going, Polling
    <3> QED BY <3>1, <3>2
  <2> QED BY <1>9, <1>11, <1>12, <1>15, <2>1 DEF EncInv, Counted, Going
<1>17. InOrder'
  <2>1. Up' <=> Up
    BY <1>9, <1>10 DEF Up, Going
  <2>2. Queued => Queued'
    BY <1>1, <1>11, <1>12, <1>15, KeepQueued DEF EncTypeOK
  <2>3. Roomy => Roomy'
    BY <1>9, <1>10, <1>11, <1>12, <1>13, <1>15, KeepRoomy DEF Going
  <2>4. Reading'
    BY <1>9 DEF Reading, Going, Checking, Polling
  <2> QED BY <1>12, <2>1, <2>2, <2>3, <2>4 DEF EncInv, InOrder
<1>18. Sending'
  BY <1>9 DEF Sending, Going, Checking, Polling
<1>19. Captured'
  BY <1>11, <1>12, KeepCaptured DEF EncInv
<1> QED BY <1>9, <1>14, <1>16, <1>17, <1>18, <1>19 DEF EncInv

(* Bytes read from the buffer after the opcode.                            *)
LEMMA BeyondFrame ==
  ASSUME NEW f \in Frames, NEW k \in Nat, NEW v, k > 5 + f.len
  PROVE  IsByte(f, k, v)
BY DEF IsByte, Frames

(* The ring's registers hold where it starts and ends.                     *)
LEMMA RingHeld ==
  ASSUME Running
  PROVE  Pair(enc.regs, ERXST) = RingStart /\ Pair(enc.regs, ERXND) = RingEnd
<1>1. RingStart \in Half /\ RingEnd \in Half
  BY EncAssumption DEF Half
<1>2. /\ enc.regs[<<0, ERXST>>] = RingStart % LowSize /\ enc.regs[<<0, ERXST + 1>>] = RingStart \div LowSize
      /\ enc.regs[<<0, ERXND>>] = RingEnd % LowSize /\ enc.regs[<<0, ERXND + 1>>] = RingEnd \div LowSize
  BY DEF Running, Holding, Reg
<1>3. Pair(enc.regs, ERXST) = RingStart
  BY <1>1, <1>2, PairHeld
<1>4. Pair(enc.regs, ERXND) = RingEnd
  BY <1>1, <1>2, PairHeld
<1> QED BY <1>3, <1>4

LEMMA ReadsOn ==
  ASSUME Running, NEW n \in Nat, Pair(enc.regs, ERDPT) = RingPlace(n)
  PROVE  NextRead(Pair(enc.regs, ERDPT), enc.regs) = RingPlace(n + 1)
<1> DEFINE p == RingPlace(n)
<1>1. p \in RingStart..RingEnd
  BY RingInRange
<1>2. Pair(enc.regs, ERXST) = RingStart /\ Pair(enc.regs, ERXND) = RingEnd
  BY RingHeld
<1>3. RingPlace(n + 1) = IF p = RingEnd THEN RingStart ELSE p + 1
  BY NextPlace
<1> HIDE DEF p
<1>4. NextRead(p, enc.regs) = IF p = RingEnd THEN RingStart ELSE (p + 1) % BufferSize
  BY <1>2 DEF NextRead
<1>5. p # RingEnd => (p + 1) % BufferSize = p + 1
  <2>1. p # RingEnd => p + 1 \in Nat /\ p + 1 < BufferSize
    BY <1>1, EncAssumption
  <2> QED BY <2>1, EncAssumption, WithinTurn
<1> QED BY <1>3, <1>4, <1>5 DEF p

LEMMA FetchKeeps ==
  ASSUME EncInv, Clock, ByteTaken, spi.byte > 0, Fetching
  PROVE  EncInv'
<1> DEFINE f == OnByteComplete(enc, ByteNow)
           n == NextRead(Pair(enc.regs, ERDPT), enc.regs)
<1>1. ~ Over /\ spi.selected /\ spi.byte < Wanted /\ EncTypeOK /\ InStep
  BY ClockIs DEF EncInv
<1>2. spi \in Drivers /\ enc \in Chips /\ spi.byte \in Nat /\ enc.index = spi.byte /\ Len(spi.got) = spi.byte
      /\ spi.got \in Seq(Int) /\ enc.out \in Int
  BY <1>1 DEF EncTypeOK, Drivers, InStep, Chips
<1>3. ~ Ordering /\ ~ Copying /\ ~ Resetting /\ ~ Polling /\ ~ Checking
  BY Apart DEF Ordering
<1>4. Done = spi.step
  BY <1>1, <1>2, <1>3, BeforeOut
<1>5. enc.op = RBM /\ Opcode = RBM
  <2>1. Opcode = RBM
    BY <1>1, <1>2, Shape
  <2> QED BY <1>1, <2>1 DEF InStep
<1>6. /\ SameLine(enc, f) /\ f.op = enc.op /\ f.addr = enc.addr /\ n \in Half
      /\ f.regs = WithPair(enc.regs, ERDPT, n) /\ f.out = enc.buffer[n]
      /\ f.buffer = enc.buffer /\ f.rxWr = enc.rxWr /\ f.count = enc.count /\ f.log = enc.log
  BY <1>2, <1>5, MemoryReadByte
<1> HIDE DEF f, n
<1>7. Understood(f)
  BY <1>5, <1>6 DEF Understood
<1>8. /\ SameMemory(f, enc') /\ enc'.out = f.out
      /\ Going /\ spi'.byte = spi.byte + 1 /\ spi'.got = Append(spi.got, enc.out)
      /\ EncTypeOK' /\ InStep'
      /\ Done' = IF spi.byte + 1 >= Len(Now.out) THEN spi.step ELSE spi.step - 1
  BY <1>6, <1>7, ByteIs DEF f
<1>9. Done' = Done /\ Done = 5 /\ spi.step = 5
  <2>1. Len(Now.out) = 1
    BY <1>1, <1>2, <1>3, Shape
  <2> QED BY <1>2, <1>4, <1>8, <2>1 DEF Fetching
<1>10. /\ enc'.regs = WithPair(enc.regs, ERDPT, n) /\ enc'.buffer = enc.buffer /\ enc'.rxWr = enc.rxWr
       /\ enc'.count = enc.count /\ enc'.log = enc.log /\ enc'.out = enc.buffer[n]
  BY <1>6, <1>8 DEF SameMemory
<1>11. UNCHANGED <<wire, unread, sent>>
  <2>1. ~ TakingOff /\ ~ SendingOff
    BY DEF Fetching, TakingOff, SendingOff
  <2> QED BY <1>1, <1>3, <2>1, History
<1>12. Pair(enc'.regs, ERDPT) = n /\ SameRegs(Watched)
  <2>1. enc.regs \in [Registers -> Int] /\ ERDPT \in 0..14 /\ n \in Half
    BY <1>2, <1>6 DEF Chips, ERDPT
  <2>2. Pair(WithPair(enc.regs, ERDPT, n), ERDPT) = n
    BY <2>1, WithPairHolds
  <2>3. \A r \in Registers : r # <<0, ERDPT>> /\ r # <<0, ERDPT + 1>> => WithPair(enc.regs, ERDPT, n)[r] = enc.regs[r]
    BY <2>1, WithPairHolds
  <2>4. \A r \in Watched : r \in Registers /\ r # <<0, ERDPT>> /\ r # <<0, ERDPT + 1>>
    BY WatchedNames DEF Watched, ERDPT, ECON1, ECON2, EPKTCNT, MACON3
  <2> QED BY <1>10, <2>2, <2>3, <2>4 DEF SameRegs
<1>13. Configured'
  BY <1>8, <1>9, <1>10, <1>11, <1>12, QuietConfigured
<1>14. Giving' <=> Giving
  BY <1>8, <1>9 DEF Giving, Going
<1>15. enc'.regs[EPKTCNT] = enc.regs[EPKTCNT]
  BY <1>12, SameRegsIs
<1>16. Counted'
  <2>1. Promised'
    BY <1>8 DEF Promised, Going, Fetching
  <2> QED BY <1>8, <1>11, <1>14, <1>15, <2>1 DEF EncInv, Counted, Going
<1>17. InOrder'
  <2>1. Up' <=> Up
    BY <1>8, <1>9 DEF Up, Going
  <2>2. Queued => Queued'
    BY <1>1, <1>10, <1>11, <1>14, KeepQueued DEF EncTypeOK
  <2>3. Roomy => Roomy'
    BY <1>8, <1>9, <1>10, <1>11, <1>12, <1>14, KeepRoomy DEF Going
  <2>4. ASSUME Queued, Reading PROVE Reading'
    <3> DEFINE u == unread[1]
               m == u.at + spi.byte - 1
    <3>1. ~ Giving /\ Len(unread) > 0 /\ unread \in Seq(Frames)
      <4>1. enc.regs[EPKTCNT] \in 0..Len(unread) /\ enc.regs[EPKTCNT] > 0
        BY DEF EncInv, Counted, Fetching
      <4>2. unread \in Seq(Frames) /\ ~ Giving
        BY <1>1 DEF EncTypeOK, Fetching, Giving
      <4> QED BY <4>1, <4>2
    <3>2. u \in Frames /\ u.at \in Nat /\ u.len \in Nat
      <4>1. u \in Frames
        BY <3>1
      <4> QED BY <4>1 DEF Frames
    <3>3. /\ Pair(enc.regs, ERDPT) = RingPlace(m)
          /\ IsByte(u, spi.byte - 1, enc.out)
          /\ \A k \in 2..spi.byte : IsByte(u, k - 2, spi.got[k])
      BY <1>1, <2>4 DEF Reading, Fetching
    <3>4. m \in Nat /\ m + 1 = u.at + spi.byte
      BY <1>2, <3>2
    <3> HIDE DEF m
    <3>5. n = RingPlace(m + 1)
      <4>1. Running
        BY DEF EncInv, Configured, Fetching
      <4> QED BY <3>3, <3>4, <4>1, ReadsOn DEF n
    <3>6. n = RingPlace(u.at + spi.byte)
      BY <3>4, <3>5
    <3>7. IsByte(u, spi.byte, enc.buffer[n])
      <4>1. CASE spi.byte <= 5 + u.len
        <5>1. IsWhole(u)
          BY <2>4, <3>1 DEF Queued
        <5>2. spi.byte \in 0..5 + u.len
          BY <1>2, <3>2, <4>1
        <5> HIDE DEF u
        <5> QED BY <3>6, <5>1, <5>2 DEF IsWhole
      <4>2. CASE spi.byte > 5 + u.len
        BY <1>2, <3>2, <4>2, BeyondFrame
      <4> HIDE DEF u
      <4> QED BY <1>2, <3>2, <4>1, <4>2
    <3> DEFINE g == Append(spi.got, enc.out)
    <3>8. \A k \in 2..spi.byte + 1 : IsByte(u, k - 2, g[k])
      <4> TAKE k \in 2..spi.byte + 1
      <4>1. CASE k <= spi.byte
        <5>1. g[k] = spi.got[k]
          BY <1>2, <4>1
        <5> HIDE DEF g, u
        <5> QED BY <1>2, <3>3, <4>1, <5>1
      <4>2. CASE k = spi.byte + 1
        <5>1. g[k] = enc.out /\ k - 2 = spi.byte - 1
          BY <1>2, <4>2
        <5> HIDE DEF g, u
        <5> QED BY <3>3, <5>1
      <4> HIDE DEF g, u
      <4> QED BY <1>2, <4>1, <4>2
    <3>9. /\ spi'.byte = spi.byte + 1 /\ spi'.got = g /\ unread' = unread /\ enc'.out = enc.buffer[n]
          /\ spi'.step = 5 /\ spi'.doing = "receive" /\ spi'.selected /\ Done' = 5
      BY <1>8, <1>9, <1>10, <1>11 DEF Going, Fetching
    <3> HIDE DEF g
    <3>10. unread'[1] = u
      BY <3>9
    <3> HIDE DEF u
    <3>11. u.at + spi'.byte - 1 = u.at + spi.byte /\ spi'.byte - 1 = spi.byte
      BY <1>2, <3>2, <3>9
    <3>12. Pair(enc'.regs, ERDPT) = RingPlace(u.at + spi'.byte - 1)
      BY <1>12, <3>6, <3>11
    <3>13. IsByte(u, spi'.byte - 1, enc'.out)
      BY <3>7, <3>9, <3>11
    <3>14. \A k \in 2..spi'.byte : IsByte(u, k - 2, spi'.got[k])
      BY <3>8, <3>9
    <3>15. Pair(enc.regs, ERDPT)' = Pair(enc'.regs, ERDPT)
           /\ RingPlace(unread[1].at + spi.byte - 1)' = RingPlace(u.at + spi'.byte - 1)
      BY <3>10 DEF Pair, RingPlace
    <3>16. IsByte(unread[1], spi.byte - 1, enc.out)'
      BY <3>10, <3>13 DEF IsByte
    <3>17. \A k \in 2..spi'.byte : IsByte(unread[1], k - 2, spi.got[k])'
      BY <3>10, <3>14 DEF IsByte
    <3>18. (Pair(enc.regs, ERDPT) = RingPlace(unread[1].at + spi.byte - 1))'
      BY <3>12, <3>15
    <3>19. spi'.byte > 0
      BY <1>2, <3>9
    <3> QED BY <3>9, <3>16, <3>17, <3>18, <3>19 DEF Reading
  <2> QED BY <1>11, <2>1, <2>2, <2>3, <2>4 DEF EncInv, InOrder
<1>18. Sending'
  BY <1>8 DEF Sending, Going, Fetching
<1>19. Captured'
  BY <1>10, <1>11, KeepCaptured DEF EncInv
<1> QED BY <1>8, <1>13, <1>16, <1>17, <1>18, <1>19 DEF EncInv

(* Bytes written to the buffer after the opcode.                           *)
LEMMA CopyKeeps ==
  ASSUME EncInv, Clock, ByteTaken, spi.byte > 0, Copying
  PROVE  EncInv'
<1> DEFINE b == ByteNow
           f == OnByteComplete(enc, b)
           p == Pair(enc.regs, EWRPT)
           n == (p + 1) % BufferSize
           frame == FrameBytes(50 + spi.id, spi.len)
<1>1. ~ Over /\ spi.selected /\ spi.byte < Wanted /\ EncTypeOK /\ InStep
  BY ClockIs DEF EncInv
<1>2. spi \in Drivers /\ enc \in Chips /\ spi.byte \in Nat /\ enc.index = spi.byte /\ spi.len \in Nat
  BY <1>1 DEF EncTypeOK, Drivers, InStep, Chips
<1>3. ~ Ordering /\ ~ Fetching /\ ~ Resetting /\ ~ Polling /\ ~ Checking
  BY Apart DEF Ordering
<1>4. Opcode = WBM /\ Wanted = 2 + spi.len /\ b \in Int /\ Len(Now.out) = 2 + spi.len
      /\ (spi.byte < 2 + spi.len => b = IF spi.byte = 1 THEN 0 ELSE frame[spi.byte - 1])
  BY <1>1, <1>2, <1>3, Shape
<1>5. spi.byte < 2 + spi.len /\ b = (IF spi.byte = 1 THEN 0 ELSE frame[spi.byte - 1]) /\ enc.op = WBM
  BY <1>1, <1>4 DEF InStep
<1> HIDE DEF b, frame
<1>6. Done = 4 /\ spi.step = 5 /\ spi.doing = "transmit"
  <2>1. spi.step = 5 /\ spi.doing = "transmit"
    BY DEF Copying
  <2> QED BY <1>1, <1>2, <1>5, <2>1, BeforeOut
<1>7. /\ SameLine(enc, f) /\ f.op = enc.op /\ f.addr = enc.addr /\ p \in Half
      /\ f.regs = WithPair(enc.regs, EWRPT, n)
      /\ f.buffer = [enc.buffer EXCEPT ![p] = b]
      /\ f.rxWr = enc.rxWr /\ f.count = enc.count /\ f.log = enc.log
  BY <1>2, <1>4, <1>5, MemoryWriteByte
<1> HIDE DEF f, n, p
<1>8. Understood(f)
  BY <1>4, <1>5, <1>7 DEF Understood
<1>9. /\ SameMemory(f, enc')
      /\ Going /\ spi'.byte = spi.byte + 1
      /\ EncTypeOK' /\ InStep'
      /\ Done' = IF spi.byte + 1 >= Len(Now.out) THEN spi.step ELSE spi.step - 1
  BY <1>7, <1>8, ByteIs DEF f, b
<1>10. Done' \in {4, 5}
  BY <1>2, <1>4, <1>6, <1>9
<1>11. /\ enc'.regs = WithPair(enc.regs, EWRPT, n) /\ enc'.buffer = [enc.buffer EXCEPT ![p] = b]
       /\ enc'.rxWr = enc.rxWr /\ enc'.count = enc.count /\ enc'.log = enc.log
  BY <1>7, <1>9 DEF SameMemory
<1>12. UNCHANGED <<wire, unread, sent>>
  <2>1. ~ TakingOff /\ ~ SendingOff
    BY DEF Copying, TakingOff, SendingOff
  <2> QED BY <1>1, <1>3, <2>1, History
<1>13. Pair(enc'.regs, EWRPT) = n /\ SameRegs(Watched)
  <2>1. enc.regs \in [Registers -> Int] /\ EWRPT \in 0..14
    BY <1>2 DEF Chips, EWRPT
  <2>2. n \in Half
    <3>1. p + 1 \in Int
      BY <1>7 DEF Half
    <3> HIDE DEF Half
    <3> QED BY <3>1, EncAssumption, DivisionOfInt DEF n, Half
  <2>3. Pair(WithPair(enc.regs, EWRPT, n), EWRPT) = n
    BY <2>1, <2>2, WithPairHolds
  <2>4. \A r \in Registers : r # <<0, EWRPT>> /\ r # <<0, EWRPT + 1>> => WithPair(enc.regs, EWRPT, n)[r] = enc.regs[r]
    BY <2>1, <2>2, WithPairHolds
  <2>5. \A r \in Watched : r \in Registers /\ r # <<0, EWRPT>> /\ r # <<0, EWRPT + 1>>
    BY WatchedNames DEF Watched, EWRPT, ECON1, ECON2, EPKTCNT, MACON3
  <2> QED BY <1>11, <2>3, <2>4, <2>5 DEF SameRegs
<1>14. Running' /\ Configured'
  <2>1. Running
    BY <1>6 DEF EncInv, Configured
  <2>2. Running'
    BY <1>6, <1>9, <1>10, <1>13, <2>1, KeepRunning DEF Going
  <2> QED BY <1>6, <1>9, <2>2 DEF Configured, Going
<1>15. ~ Giving' /\ ~ Giving
  BY <1>6, <1>9 DEF Giving, Going
<1>16. enc'.regs[EPKTCNT] = enc.regs[EPKTCNT]
  BY <1>13, SameRegsIs
<1>17. Counted'
  <2>1. Promised' /\ spi'.doing # "receive"
    BY <1>6, <1>9 DEF Promised, Going
  <2> QED BY <1>12, <1>15, <1>16, <2>1 DEF EncInv, Counted
<1>18. /\ spi.len \in 1..MaxLen /\ TxStart + spi.len < BufferSize
       /\ spi.id = Len(sent)
       /\ p = (TxStart + (spi.byte - 1)) % BufferSize
       /\ \A j \in 1..Copied : enc.buffer[TxStart + j] = frame[j]
  <2>1. Sending
    BY DEF EncInv
  <2> QED BY <1>1, <1>6, <2>1 DEF Sending, p, frame
<1>19. p = TxStart + (spi.byte - 1) /\ p > RingEnd
  <2>1. TxStart + (spi.byte - 1) \in Nat /\ TxStart + (spi.byte - 1) < BufferSize /\ TxStart + (spi.byte - 1) > RingEnd
    <3>1. spi.byte - 1 \in Nat /\ spi.byte - 1 <= spi.len /\ spi.len \in Nat
      BY <1>2, <1>5
    <3>2. TxStart \in Nat /\ RingEnd \in Nat /\ BufferSize \in Nat /\ RingEnd < TxStart
      BY EncAssumption
    <3>3. TxStart + spi.len < BufferSize
      BY <1>18
    <3> QED BY <3>1, <3>2, <3>3
  <2>2. (TxStart + (spi.byte - 1)) % BufferSize = TxStart + (spi.byte - 1)
    BY <2>1, EncAssumption, WithinTurn
  <2> QED BY <1>18, <2>1, <2>2
<1>20. InOrder'
  <2>1. Up'
    BY <1>6, <1>9 DEF Up, Going
  <2>2. \A a \in RingStart..RingEnd : enc'.buffer[a] = enc.buffer[a]
    <3>1. \A a \in RingStart..RingEnd : a \in 0..BufferSize - 1 /\ a # p
      BY <1>19, EncAssumption
    <3> QED BY <1>2, <1>11, <3>1 DEF Chips
  <2>3. Queued => Queued'
    BY <1>1, <1>12, <1>15, <2>2, KeepQueued DEF EncTypeOK
  <2>4. Roomy => Roomy'
    BY <1>6, <1>9, <1>11, <1>12, <1>13, <1>15, KeepRoomy DEF Going
  <2>5. Reading'
    BY <1>6, <1>9 DEF Reading, Going
  <2>6. Up
    BY <1>6 DEF Up
  <2> QED BY <1>12, <2>1, <2>3, <2>4, <2>5, <2>6 DEF EncInv, InOrder
<1>21. Sending'
  <2>1. /\ spi'.doing = "transmit" /\ spi'.step = 5 /\ spi'.len = spi.len /\ spi'.id = spi.id
        /\ spi'.byte = spi.byte + 1 /\ spi'.selected /\ sent' = sent
    BY <1>6, <1>9, <1>12 DEF Going
  <2>2. Copied = (IF spi.byte < 2 THEN 0 ELSE spi.byte - 2)
    BY <1>1, <1>2, <1>6 DEF Copied
  <2>3. Copied' = spi.byte - 1
    BY <1>2, <2>1 DEF Copied
  <2>4. \A j \in 1..spi.byte - 1 : enc'.buffer[TxStart + j] = frame[j]
    <3> TAKE j \in 1..spi.byte - 1
    <3>1. TxStart + j \in 0..BufferSize - 1
      <4>1. spi.byte \in Nat /\ spi.byte < 2 + spi.len /\ spi.len \in Nat /\ TxStart + spi.len < BufferSize
        BY <1>2, <1>5, <1>18
      <4>2. TxStart \in Nat /\ BufferSize \in Nat
        BY EncAssumption
      <4> QED BY <4>1, <4>2
    <3>2. CASE j = spi.byte - 1
      <4>1. TxStart + j = p /\ b = frame[j]
        BY <1>2, <1>5, <1>19, <3>2
      <4> QED BY <1>2, <1>11, <3>1, <4>1 DEF Chips
    <3>3. CASE j < spi.byte - 1
      <4>1. j \in 1..Copied /\ TxStart + j # p
        BY <1>2, <1>19, <2>2, <3>3, EncAssumption
      <4>2. enc.buffer[TxStart + j] = frame[j]
        BY <1>18, <4>1
      <4> QED BY <1>2, <1>11, <3>1, <4>1, <4>2 DEF Chips
    <3> QED BY <1>2, <3>2, <3>3
  <2>5. \A j \in 1..Copied' : enc'.buffer[TxStart + j] = frame[j]
    BY <2>3, <2>4
  <2>6. frame = FrameBytes(50 + spi'.id, spi'.len)
    BY <2>1 DEF frame
  <2>7. Pair(enc'.regs, EWRPT) = (TxStart + (spi'.byte - 1)) % BufferSize
    <3>1. p + 1 = TxStart + (spi'.byte - 1)
      BY <1>2, <1>19, <2>1, EncAssumption
    <3> QED BY <1>13, <3>1 DEF n
  <2>8. spi'.byte > 0
    BY <1>2, <2>1
  <2>9. (Pair(enc.regs, EWRPT))' = Pair(enc'.regs, EWRPT)
    BY DEF Pair
  <2>10. \A j \in 1..Copied' : enc'.buffer[TxStart + j] = FrameBytes(50 + spi'.id, spi'.len)[j]
    BY <2>5, <2>6
  <2> HIDE DEF Copied, Pair
  <2> QED BY <1>10, <1>18, <2>1, <2>7, <2>8, <2>9, <2>10 DEF Sending
<1>22. Captured'
  BY <1>11, <1>12, KeepCaptured DEF EncInv
<1> QED BY <1>9, <1>14, <1>17, <1>20, <1>21, <1>22 DEF EncInv

(***************************************************************************)
(* The second byte of a command.                                           *)
(***************************************************************************)
LEMMA CommandParts ==
  /\ \A k \in 0..31 : (WCR + k) % 32 = k /\ (WCR + k) - ((WCR + k) % 32) = WCR
  /\ \A k \in 0..31 : (BFS + k) % 32 = k /\ (BFS + k) - ((BFS + k) % 32) = BFS
  /\ \A k \in 0..31 : (BFC + k) % 32 = k /\ (BFC + k) - ((BFC + k) % 32) = BFC
BY DEF WCR, BFS, BFC

LEMMA OrderIs ==
  ASSUME EncInv, Clock, ByteTaken, spi.byte > 0, Ordering
  PROVE  /\ ~ Over /\ spi.selected /\ EncTypeOK /\ InStep /\ spi \in Drivers /\ enc \in Chips
         /\ spi.byte = 1 /\ enc.index \in Nat /\ enc.index > 0 /\ Done = spi.step - 1
         /\ enc.op = Opcode - (Opcode % 32) /\ enc.addr = Opcode % 32
         /\ ByteNow = Now.out[2] /\ Opcode = Now.out[1] /\ Len(Now.out) = 2
         /\ Opcode \notin {SRC, RBM, WBM}
<1>1. ~ Over /\ spi.selected /\ spi.byte < Wanted /\ EncTypeOK /\ InStep
  BY ClockIs DEF EncInv
<1>2. spi \in Drivers /\ enc \in Chips /\ spi.byte \in Nat
  BY <1>1 DEF EncTypeOK, Drivers
<1>3. Wanted = 2 /\ Len(Now.out) = 2 /\ Opcode \in Commands
  BY <1>1, <1>2, Shape
<1>4. spi.byte = 1
  BY <1>1, <1>2, <1>3
<1>5. ByteNow = Now.out[2]
  BY <1>1, <1>2, <1>4, Shape
<1>6. Done = spi.step - 1
  BY <1>1, <1>4, BeforeOut
<1>7. Opcode \notin {SRC, RBM, WBM}
  BY <1>3 DEF Commands, SRC, RBM, WBM, WCR, BFS, BFC
<1>8. /\ enc.index = spi.byte
      /\ IF Opcode \in {SRC, RBM, WBM} THEN enc.op = Opcode
         ELSE enc.op = Opcode - (Opcode % 32) /\ enc.addr = Opcode % 32
  BY <1>1 DEF InStep
<1>9. enc.op = Opcode - (Opcode % 32) /\ enc.addr = Opcode % 32
  BY <1>7, <1>8, Zenon
<1> QED BY <1>1, <1>2, <1>3, <1>4, <1>5, <1>6, <1>7, <1>8, <1>9 DEF Opcode

LEMMA OrderDone ==
  ASSUME EncInv, Clock, ByteTaken, spi.byte > 0, Ordering,
         SameLine(enc, OnByteComplete(enc, ByteNow)),
         OnByteComplete(enc, ByteNow).op = enc.op, OnByteComplete(enc, ByteNow).addr = enc.addr
  PROVE  /\ SameMemory(OnByteComplete(enc, ByteNow), enc')
         /\ Going /\ spi'.byte = 2 /\ EncTypeOK' /\ InStep' /\ Done' = spi.step
         /\ ~ TakingOff /\ ~ SendingOff => UNCHANGED <<wire, unread, sent>>
         /\ TakingOff => unread' = Tail(unread) /\ UNCHANGED <<wire, sent>>
         /\ SendingOff => sent' = Append(sent, spi.len) /\ UNCHANGED <<wire, unread>>
<1> DEFINE f == OnByteComplete(enc, ByteNow)
<1>1. /\ ~ Over /\ spi.selected /\ EncTypeOK /\ InStep /\ spi \in Drivers /\ enc \in Chips
      /\ spi.byte = 1 /\ Done = spi.step - 1 /\ Len(Now.out) = 2
      /\ enc.op = Opcode - (Opcode % 32) /\ enc.addr = Opcode % 32 /\ Opcode \notin {SRC, RBM, WBM}
  BY OrderIs
<1> HIDE DEF f
<1>2. SameLine(enc, f) /\ f.op = enc.op /\ f.addr = enc.addr
  BY DEF f
<1>3. Understood(f)
  BY <1>1, <1>2 DEF Understood
<1>4. /\ SameMemory(f, enc')
      /\ Going /\ spi'.byte = spi.byte + 1 /\ EncTypeOK' /\ InStep'
      /\ Done' = IF spi.byte + 1 >= Len(Now.out) THEN spi.step ELSE spi.step - 1
  BY <1>2, <1>3, ByteIs DEF f
<1>5. spi'.byte = 2 /\ Done' = spi.step
  BY <1>1, <1>4
<1>6. spi.byte < Wanted /\ ~ Resetting
  BY ClockIs DEF EncInv, Ordering
<1>7. /\ ~ TakingOff /\ ~ SendingOff => UNCHANGED <<wire, unread, sent>>
      /\ TakingOff => unread' = Tail(unread) /\ UNCHANGED <<wire, sent>>
      /\ SendingOff => sent' = Append(sent, spi.len) /\ UNCHANGED <<wire, unread>>
  BY <1>1, <1>6, History
<1> QED BY <1>4, <1>5, <1>7 DEF f

(* A command that is one half of a pointer, while bank 0 is selected.      *)
LEMMA OrderPointer ==
  ASSUME EncInv, Clock, ByteTaken, spi.byte > 0, Ordering, NEW a \in 0..13, NEW b \in Int,
         Does(spi.step, WCR + a, b), Bank(enc) = 0
  PROVE  /\ enc'.regs = Stored(enc, a, b)
         /\ enc'.buffer = enc.buffer /\ enc'.count = enc.count /\ enc'.log = enc.log
         /\ enc'.rxWr = IF a \in {8, 9} THEN Pair(enc'.regs, ERXST) ELSE enc.rxWr
         /\ Going /\ spi'.byte = 2 /\ EncTypeOK' /\ InStep' /\ Done' = spi.step
         /\ ~ TakingOff /\ ~ SendingOff => UNCHANGED <<wire, unread, sent>>
<1> DEFINE f == OnByteComplete(enc, ByteNow)
<1>1. /\ enc \in Chips /\ enc.index > 0 /\ ByteNow = Now.out[2] /\ Opcode = Now.out[1]
      /\ enc.op = Opcode - (Opcode % 32) /\ enc.addr = Opcode % 32
  BY OrderIs
<1>2. Now.out = <<WCR + a, b>>
  BY DEF Does, Now
<1>3. ByteNow = b /\ Opcode = WCR + a
  BY <1>1, <1>2
<1>4. a \in 0..31 /\ a \in 0..15
  OBVIOUS
<1>5. enc.op = WCR /\ enc.addr = a
  BY <1>1, <1>3, <1>4, CommandParts
<1>6. /\ SameLine(enc, f) /\ f.op = enc.op /\ f.addr = enc.addr /\ f.regs = Stored(enc, a, b)
      /\ f.buffer = enc.buffer /\ f.count = enc.count /\ f.log = enc.log
      /\ f.rxWr = IF a \in {8, 9} THEN Pair(f.regs, ERXST) ELSE enc.rxWr
  BY <1>1, <1>3, <1>4, <1>5, PointerByte
<1>7. /\ SameMemory(f, enc')
      /\ Going /\ spi'.byte = 2 /\ EncTypeOK' /\ InStep' /\ Done' = spi.step
      /\ ~ TakingOff /\ ~ SendingOff => UNCHANGED <<wire, unread, sent>>
  BY <1>6, OrderDone
<1> HIDE DEF f
<1> QED BY <1>6, <1>7 DEF SameMemory

(* A command that sets or clears bits of ECON1.                            *)
LEMMA OrderBank ==
  ASSUME EncInv, Clock, ByteTaken, spi.byte > 0, Ordering, NEW o \in {BFS, BFC}, NEW b \in Int,
         NEW c \in 0..7, Does(spi.step, o + 31, b),
         c = IF o = BFS THEN enc.regs[ECON1] + b - And(enc.regs[ECON1], b)
             ELSE enc.regs[ECON1] - And(enc.regs[ECON1], b)
  PROVE  /\ enc'.regs = [enc.regs EXCEPT ![ECON1] = c]
         /\ enc'.buffer = enc.buffer /\ enc'.count = enc.count /\ enc'.log = enc.log
         /\ enc'.rxWr = enc.rxWr
         /\ Going /\ spi'.byte = 2 /\ EncTypeOK' /\ InStep' /\ Done' = spi.step
         /\ ~ TakingOff /\ ~ SendingOff => UNCHANGED <<wire, unread, sent>>
<1> DEFINE f == OnByteComplete(enc, ByteNow)
<1>1. /\ enc \in Chips /\ enc.index > 0 /\ ByteNow = Now.out[2] /\ Opcode = Now.out[1]
      /\ enc.op = Opcode - (Opcode % 32) /\ enc.addr = Opcode % 32
  BY OrderIs
<1>2. Now.out = <<o + 31, b>>
  BY DEF Does, Now
<1>3. ByteNow = b /\ Opcode = o + 31
  BY <1>1, <1>2
<1>4. (o + 31) % 32 = 31 /\ (o + 31) - ((o + 31) % 32) = o
  BY DEF BFS, BFC
<1>5. enc.op = o /\ enc.addr = 31
  BY <1>1, <1>3, <1>4
<1>6. /\ SameLine(enc, f) /\ f.op = enc.op /\ f.addr = enc.addr /\ f.regs = [enc.regs EXCEPT ![ECON1] = c]
      /\ f.buffer = enc.buffer /\ f.count = enc.count /\ f.log = enc.log /\ f.rxWr = enc.rxWr
  <2> DEFINE h == OnByteComplete(enc, b)
  <2>1. enc.op \in {BFS, BFC} /\ enc.addr = 31 /\ enc.index > 0 /\ enc \in Chips
    BY <1>1, <1>5
  <2>2. c = IF enc.op = BFS THEN enc.regs[ECON1] + b - And(enc.regs[ECON1], b)
            ELSE enc.regs[ECON1] - And(enc.regs[ECON1], b)
    BY <1>5
  <2>3. /\ SameLine(enc, h) /\ h.op = enc.op /\ h.addr = enc.addr /\ h.regs = [enc.regs EXCEPT ![ECON1] = c]
        /\ h.buffer = enc.buffer /\ h.count = enc.count /\ h.log = enc.log /\ h.rxWr = enc.rxWr
    BY <2>1, <2>2, BankByte
  <2>4. h = f
    BY <1>3
  <2> HIDE DEF h, f
  <2> QED BY <2>3, <2>4
<1>7. /\ SameMemory(f, enc')
      /\ Going /\ spi'.byte = 2 /\ EncTypeOK' /\ InStep' /\ Done' = spi.step
      /\ ~ TakingOff /\ ~ SendingOff => UNCHANGED <<wire, unread, sent>>
  BY <1>6, OrderDone
<1> HIDE DEF f
<1> QED BY <1>6, <1>7 DEF SameMemory

(***************************************************************************)
(* The driver sets the chip up.                                            *)
(***************************************************************************)
LEMMA SetupRest ==
  ASSUME EncInv, Going, EncTypeOK', InStep', spi.doing = "setup", Done' < 15, SettingUp',
         UNCHANGED <<wire, unread, sent>>, enc'.count = enc.count, enc'.log = enc.log,
         enc'.regs[EPKTCNT] = enc.regs[EPKTCNT]
  PROVE  EncInv'
<1>1. spi'.doing = "setup"
  BY DEF Going
<1>2. Configured' /\ Sending' /\ Promised' /\ ~ Giving'
  BY <1>1 DEF Configured, Sending, Promised, Giving
<1>3. Counted'
  BY <1>1, <1>2 DEF EncInv, Counted
<1>4. InOrder'
  <2>1. Done' \in Nat
    <3>1. EncTypeOK => Done \in Nat
      BY DoneIs
    <3> QED BY DEF EncTypeOK, Drivers, Done
  <2> QED BY <1>1, <2>1 DEF InOrder, Up
<1>5. Captured'
  BY KeepCaptured DEF EncInv
<1> QED BY <1>2, <1>3, <1>4, <1>5 DEF EncInv

LEMMA SetupPointer ==
  ASSUME EncInv, Clock, ByteTaken, spi.byte > 0, spi.doing = "setup", spi.step \in 2..7
  PROVE  EncInv'
<1> DEFINE a == spi.step + 6
           k == spi.step
           b == Program[k].out[2]
           R(j) == enc'.regs[<<0, j>>]
<1>1. Ordering /\ ~ TakingOff /\ ~ SendingOff
  BY DEF Ordering, Resetting, Checking, Polling, Fetching, Copying, TakingOff, SendingOff
<1>2. EncTypeOK /\ InStep /\ enc \in Chips /\ Done = spi.step - 1 /\ SettingUp
  BY <1>1, OrderIs DEF EncInv, Configured
<1>3. Does(k, WCR + a, b) /\ b = (CASE k = 2 -> RingStart % LowSize [] k = 3 -> RingStart \div LowSize
                                   [] k = 4 -> RingEnd % LowSize [] k = 5 -> RingEnd \div LowSize
                                   [] k = 6 -> RingStart % LowSize [] k = 7 -> RingStart \div LowSize)
  <2>1. CASE k = 2
    BY <2>1, SetupTable DEF Does
  <2>2. CASE k = 3
    BY <2>2, SetupTable DEF Does
  <2>3. CASE k = 4
    BY <2>3, SetupTable DEF Does
  <2>4. CASE k = 5
    BY <2>4, SetupTable DEF Does
  <2>5. CASE k = 6
    BY <2>5, SetupTable DEF Does
  <2>6. CASE k = 7
    BY <2>6, SetupTable DEF Does
  <2> QED BY <2>1, <2>2, <2>3, <2>4, <2>5, <2>6
<1>4. a \in 0..13 /\ a \in 0..15 /\ k \in 2..7 /\ a = k + 6
  OBVIOUS
<1>5. b \in Int
  <2>1. /\ RingStart % LowSize \in Int /\ RingStart \div LowSize \in Int
        /\ RingEnd % LowSize \in Int /\ RingEnd \div LowSize \in Int
    BY EncAssumption, HalvesInt
  <2> HIDE DEF b
  <2> QED BY <1>3, <1>4, <2>1
<1>6. enc.regs[ECON1] = 0 /\ enc.regs[ECON2] = 128 /\ Bank(enc) = 0
  BY <1>2 DEF SettingUp, Bank
<1> HIDE DEF a, b
<1>7. /\ enc'.regs = Stored(enc, a, b)
      /\ enc'.buffer = enc.buffer /\ enc'.count = enc.count /\ enc'.log = enc.log
      /\ enc'.rxWr = IF a \in {8, 9} THEN Pair(enc'.regs, ERXST) ELSE enc.rxWr
      /\ Going /\ spi'.byte = 2 /\ EncTypeOK' /\ InStep' /\ Done' = k
      /\ UNCHANGED <<wire, unread, sent>>
  BY <1>1, <1>3, <1>4, <1>5, <1>6, OrderPointer
<1>8. /\ R(a) = b
      /\ \A r \in Registers : r \notin {<<0, a>>, <<0, 14>>, <<0, 15>>} => enc'.regs[r] = enc.regs[r]
  <2>1. a \notin {14, 15}
    BY <1>4
  <2>2. /\ Stored(enc, a, b)[<<0, a>>] = b
        /\ \A r \in Registers : r \notin {<<0, a>>, <<0, 14>>, <<0, 15>>} => Stored(enc, a, b)[r] = enc.regs[r]
    <3>1. enc \in Chips /\ a \in 0..15 /\ b \in Int
      BY <1>2, <1>4, <1>5
    <3> HIDE DEF k
    <3>2. /\ a \notin {14, 15} => Stored(enc, a, b)[<<0, a>>] = b
          /\ \A r \in Registers : r \notin {<<0, a>>, <<0, 14>>, <<0, 15>>} => Stored(enc, a, b)[r] = enc.regs[r]
      BY <3>1, StoredIs, ZenonT(40)
    <3> QED BY <2>1, <3>2
  <2> QED BY <1>7, <2>2
<1>9. /\ enc'.regs[ECON1] = 0 /\ enc'.regs[ECON2] = 128 /\ enc'.regs[EPKTCNT] = enc.regs[EPKTCNT]
      /\ enc'.regs[MACON3] = enc.regs[MACON3]
  <2>1. \A r \in {ECON1, ECON2, EPKTCNT, MACON3} : r \in Registers /\ r \notin {<<0, a>>, <<0, 14>>, <<0, 15>>}
    BY <1>4, Names DEF ECON1, ECON2, EPKTCNT, MACON3
  <2> QED BY <1>6, <1>8, <2>1
<1>10. \A j \in 8..13 : j # a => R(j) = Reg(j)
  <2>1. \A j \in 8..13 : j # a => <<0, j>> \in Registers /\ <<0, j>> \notin {<<0, a>>, <<0, 14>>, <<0, 15>>}
    BY Names
  <2> QED BY <1>8, <2>1 DEF Reg
<1>11. /\ k = 2 => R(8) = RingStart % LowSize
       /\ k = 3 => R(9) = RingStart \div LowSize
       /\ k = 4 => R(10) = RingEnd % LowSize
       /\ k = 5 => R(11) = RingEnd \div LowSize
       /\ k = 6 => R(12) = RingStart % LowSize
       /\ k = 7 => R(13) = RingStart \div LowSize
  BY <1>3, <1>4, <1>8
<1>12. /\ k >= 3 => Reg(8) = RingStart % LowSize
       /\ k >= 4 => Reg(9) = RingStart \div LowSize
       /\ k >= 5 => Reg(10) = RingEnd % LowSize
       /\ k >= 6 => Reg(11) = RingEnd \div LowSize
       /\ k >= 7 => Reg(12) = RingStart % LowSize
       /\ k >= 4 => enc.rxWr = RingStart
  BY <1>2, <1>4 DEF SettingUp, ERXST, ERXND, ERXRDPT
<1>13. /\ k >= 2 => R(8) = RingStart % LowSize
       /\ k >= 3 => R(9) = RingStart \div LowSize
       /\ k >= 4 => R(10) = RingEnd % LowSize
       /\ k >= 5 => R(11) = RingEnd \div LowSize
       /\ k >= 6 => R(12) = RingStart % LowSize
       /\ k >= 7 => R(13) = RingStart \div LowSize
  <2>1. /\ a # 8 => R(8) = Reg(8)
        /\ a # 9 => R(9) = Reg(9)
        /\ a # 10 => R(10) = Reg(10)
        /\ a # 11 => R(11) = Reg(11)
        /\ a # 12 => R(12) = Reg(12)
    BY <1>10
  <2> HIDE DEF R
  <2> QED BY <1>4, <1>11, <1>12, <2>1
<1>14. k >= 3 => enc'.rxWr = RingStart
  <2>1. CASE k = 3
    <3>1. RingStart \in Half /\ enc'.regs[<<0, ERXST>>] = RingStart % LowSize
          /\ enc'.regs[<<0, ERXST + 1>>] = RingStart \div LowSize
      BY <1>13, <2>1, EncAssumption DEF Half, ERXST
    <3>2. Pair(enc'.regs, ERXST) = RingStart
      BY <3>1, PairHeld
    <3> QED BY <1>4, <1>7, <2>1, <3>2
  <2>2. CASE k > 3
    BY <1>4, <1>7, <1>12, <2>2
  <2> QED BY <1>4, <2>1, <2>2
<1>15. SettingUp'
  <2>1. /\ spi'.next = RingStart /\ unread' = <<>> /\ ~ wire'.torn /\ wire'.laid = 0 /\ enc'.regs[EPKTCNT] = 0
    BY <1>2, <1>4, <1>7, <1>9 DEF SettingUp, Going
  <2>2. /\ Reg(8)' = R(8) /\ Reg(9)' = R(9) /\ Reg(10)' = R(10) /\ Reg(11)' = R(11)
        /\ Reg(12)' = R(12) /\ Reg(13)' = R(13)
    BY DEF Reg
  <2> HIDE DEF R
  <2> QED BY <1>4, <1>7, <1>9, <1>13, <1>14, <2>1, <2>2, SMTT(20) DEF SettingUp, ERXST, ERXND, ERXRDPT
<1> QED BY <1>4, <1>7, <1>9, <1>15, SetupRest

(* A register that the rest of the setting up does not look at.            *)
LEMMA SetupRegs ==
  ASSUME EncInv, Going, spi.doing = "setup", Done' = Done + 1, Done \in 7..13, UNCHANGED <<wire, unread>>,
         SameRegs(Watched \ {ECON1, MACON3}), enc'.rxWr = enc.rxWr,
         enc'.regs[ECON1] = IF Done' >= 12 THEN 2 ELSE IF Done' >= 11 THEN 0 ELSE IF Done' >= 9 THEN 1 ELSE 0,
         Done' >= 13 => enc'.regs[MACON3] = 32
  PROVE  SettingUp' /\ enc'.regs[EPKTCNT] = enc.regs[EPKTCNT]
<1>1. SettingUp /\ spi'.next = spi.next
  BY DEF EncInv, Configured, Going
<1>2. \A r \in Watched \ {ECON1, MACON3} : enc'.regs[r] = enc.regs[r]
  BY DEF SameRegs
<1>3. /\ enc'.regs[ECON2] = enc.regs[ECON2] /\ enc'.regs[EPKTCNT] = enc.regs[EPKTCNT]
      /\ Reg(8)' = Reg(8) /\ Reg(9)' = Reg(9) /\ Reg(10)' = Reg(10)
      /\ Reg(11)' = Reg(11) /\ Reg(12)' = Reg(12) /\ Reg(13)' = Reg(13)
  <2>1. \A j \in 8..13 : <<0, j>> \in Watched \ {ECON1, MACON3}
    BY DEF Watched, ECON1, MACON3
  <2>2. ECON2 \in Watched \ {ECON1, MACON3} /\ EPKTCNT \in Watched \ {ECON1, MACON3}
    BY DEF Watched, ECON1, ECON2, EPKTCNT, MACON3
  <2> QED BY <1>2, <2>1, <2>2 DEF Reg
<1> QED BY <1>1, <1>3 DEF SettingUp, ERXST, ERXND, ERXRDPT

LEMMA OrderSetting ==
  ASSUME EncInv, Clock, ByteTaken, spi.byte > 0, Ordering, NEW r \in {ERXFCON, MACON3}, NEW b \in Int,
         Does(spi.step, WCR + r[2], b), Bank(enc) = r[1]
  PROVE  /\ enc'.regs = [enc.regs EXCEPT ![r] = b]
         /\ enc'.buffer = enc.buffer /\ enc'.count = enc.count /\ enc'.log = enc.log
         /\ enc'.rxWr = enc.rxWr
         /\ Going /\ spi'.byte = 2 /\ EncTypeOK' /\ InStep' /\ Done' = spi.step
         /\ ~ TakingOff /\ ~ SendingOff => UNCHANGED <<wire, unread, sent>>
<1> DEFINE f == OnByteComplete(enc, ByteNow)
           h == OnByteComplete(enc, b)
<1>1. /\ enc \in Chips /\ enc.index > 0 /\ ByteNow = Now.out[2] /\ Opcode = Now.out[1]
      /\ enc.op = Opcode - (Opcode % 32) /\ enc.addr = Opcode % 32
  BY OrderIs
<1>2. Now.out = <<WCR + r[2], b>>
  BY DEF Does, Now
<1>3. ByteNow = b /\ Opcode = WCR + r[2]
  BY <1>1, <1>2
<1>4. r[2] \in 0..31 /\ Slot(r[1], r[2]) = r
  BY DEF ERXFCON, MACON3, Slot
<1>5. enc.op = WCR /\ enc.addr = r[2]
  BY <1>1, <1>3, <1>4, CommandParts
<1>6. r = Slot(Bank(enc), enc.addr)
  BY <1>4, <1>5
<1>7. /\ SameLine(enc, h) /\ h.op = enc.op /\ h.addr = enc.addr /\ h.regs = [enc.regs EXCEPT ![r] = b]
      /\ h.buffer = enc.buffer /\ h.count = enc.count /\ h.log = enc.log /\ h.rxWr = enc.rxWr
  BY <1>1, <1>5, <1>6, SettingByte, ZenonT(40)
<1>8. h = f
  BY <1>3
<1> HIDE DEF h
<1>9. /\ SameMemory(f, enc')
      /\ Going /\ spi'.byte = 2 /\ EncTypeOK' /\ InStep' /\ Done' = spi.step
      /\ ~ TakingOff /\ ~ SendingOff => UNCHANGED <<wire, unread, sent>>
  BY <1>7, <1>8, OrderDone
<1> HIDE DEF f
<1> QED BY <1>7, <1>8, <1>9 DEF SameMemory

LEMMA SetupBank ==
  ASSUME EncInv, Clock, ByteTaken, spi.byte > 0, spi.doing = "setup", spi.step \in {8, 9, 11, 12}
  PROVE  EncInv'
<1> DEFINE k == spi.step
           o == IF k \in {8, 11} THEN BFC ELSE BFS
           b == CASE k \in {8, 11} -> 3 [] k = 9 -> 1 [] k = 12 -> 2
           c == IF k = 12 THEN 2 ELSE IF k = 9 THEN 1 ELSE 0
<1>1. Ordering /\ ~ TakingOff /\ ~ SendingOff
  BY DEF Ordering, Resetting, Checking, Polling, Fetching, Copying, TakingOff, SendingOff
<1>2. EncTypeOK /\ InStep /\ enc \in Chips /\ Done = spi.step - 1 /\ SettingUp
  BY <1>1, OrderIs DEF EncInv, Configured
<1>3. Does(k, o + 31, b)
  <2>1. CASE k = 8
    BY <2>1, SetupTable DEF Does
  <2>2. CASE k = 9
    BY <2>2, SetupTable DEF Does
  <2>3. CASE k = 11
    BY <2>3, SetupTable DEF Does
  <2>4. CASE k = 12
    BY <2>4, SetupTable DEF Does
  <2> QED BY <2>1, <2>2, <2>3, <2>4
<1>4. o \in {BFS, BFC} /\ b \in Int /\ c \in 0..7 /\ k \in {8, 9, 11, 12}
  OBVIOUS
<1>5. enc.regs[ECON1] = IF k = 11 THEN 1 ELSE 0
  BY <1>2 DEF SettingUp
<1>6. c = IF o = BFS THEN enc.regs[ECON1] + b - And(enc.regs[ECON1], b)
          ELSE enc.regs[ECON1] - And(enc.regs[ECON1], b)
  BY <1>4, <1>5, ControlBits DEF BFS, BFC
<1>7. /\ enc'.regs = [enc.regs EXCEPT ![ECON1] = c]
      /\ enc'.buffer = enc.buffer /\ enc'.count = enc.count /\ enc'.log = enc.log /\ enc'.rxWr = enc.rxWr
      /\ Going /\ spi'.byte = 2 /\ EncTypeOK' /\ InStep' /\ Done' = k
      /\ UNCHANGED <<wire, unread, sent>>
  <2> HIDE DEF o, b, c
  <2> QED BY <1>1, <1>3, <1>4, <1>6, OrderBank
<1>8. enc'.regs[ECON1] = c
  BY <1>2, <1>7, WatchedNames DEF Chips
<1>9. SameRegs(Watched \ {ECON1, MACON3})
  <2> HIDE DEF c
  <2> QED BY <1>2, <1>7, WatchedNames DEF Chips, SameRegs
<1>10. /\ Done' = Done + 1 /\ Done \in 7..13 /\ Done' < 13
       /\ enc'.regs[ECON1] = IF Done' >= 12 THEN 2 ELSE IF Done' >= 11 THEN 0 ELSE IF Done' >= 9 THEN 1 ELSE 0
  BY <1>2, <1>4, <1>7, <1>8
<1>11. SettingUp' /\ enc'.regs[EPKTCNT] = enc.regs[EPKTCNT]
  BY <1>7, <1>9, <1>10, SetupRegs
<1> QED BY <1>7, <1>10, <1>11, SetupRest

LEMMA SetupSetting ==
  ASSUME EncInv, Clock, ByteTaken, spi.byte > 0, spi.doing = "setup", spi.step \in {10, 13}
  PROVE  EncInv'
<1> DEFINE k == spi.step
           r == IF k = 10 THEN ERXFCON ELSE MACON3
           b == IF k = 10 THEN Filter ELSE 32
<1>1. Ordering /\ ~ TakingOff /\ ~ SendingOff
  BY DEF Ordering, Resetting, Checking, Polling, Fetching, Copying, TakingOff, SendingOff
<1>2. EncTypeOK /\ InStep /\ enc \in Chips /\ Done = spi.step - 1 /\ SettingUp
  BY <1>1, OrderIs DEF EncInv, Configured
<1>3. Does(k, WCR + r[2], b)
  <2>1. CASE k = 10
    BY <2>1, SetupTable DEF Does, ERXFCON
  <2>2. CASE k = 13
    BY <2>2, SetupTable DEF Does, MACON3
  <2> QED BY <2>1, <2>2
<1>4. r \in {ERXFCON, MACON3} /\ b \in Int /\ k \in {10, 13} /\ (k = 13 => r = MACON3 /\ b = 32)
      /\ r # ECON1 /\ r \in Registers
  BY EncAssumption, Names DEF ERXFCON, MACON3, ECON1
<1>5. enc.regs[ECON1] = IF k = 10 THEN 1 ELSE 2
  BY <1>2 DEF SettingUp
<1>6. Bank(enc) = r[1]
  BY <1>5 DEF Bank, ERXFCON, MACON3
<1> HIDE DEF r, b
<1>7. /\ enc'.regs = [enc.regs EXCEPT ![r] = b]
      /\ enc'.buffer = enc.buffer /\ enc'.count = enc.count /\ enc'.log = enc.log /\ enc'.rxWr = enc.rxWr
      /\ Going /\ spi'.byte = 2 /\ EncTypeOK' /\ InStep' /\ Done' = k
      /\ UNCHANGED <<wire, unread, sent>>
  BY <1>1, <1>3, <1>4, <1>6, OrderSetting
<1>8. enc'.regs[ECON1] = enc.regs[ECON1] /\ enc'.regs[r] = b
  BY <1>2, <1>4, <1>7, WatchedNames DEF Chips
<1>9. SameRegs(Watched \ {ECON1, MACON3})
  <2>1. \A s \in Watched \ {ECON1, MACON3} : s \in Registers /\ s # r
    BY <1>4, WatchedNames DEF Watched, ERXFCON, MACON3, ECON2, EPKTCNT
  <2> QED BY <1>2, <1>7, <2>1 DEF Chips, SameRegs
<1>10. /\ Done' = Done + 1 /\ Done \in 7..13 /\ Done' < 15
       /\ enc'.regs[ECON1] = IF Done' >= 12 THEN 2 ELSE IF Done' >= 11 THEN 0 ELSE IF Done' >= 9 THEN 1 ELSE 0
       /\ Done' >= 13 => enc'.regs[MACON3] = 32
  <2>1. Done' = k /\ k \in {10, 13} /\ Done = k - 1
    BY <1>2, <1>4, <1>7
  <2>2. enc'.regs[ECON1] = IF k = 10 THEN 1 ELSE 2
    BY <1>5, <1>8
  <2>3. k = 13 => enc'.regs[MACON3] = 32
    BY <1>4, <1>8
  <2> QED BY <2>1, <2>2, <2>3
<1>11. SettingUp' /\ enc'.regs[EPKTCNT] = enc.regs[EPKTCNT]
  BY <1>7, <1>9, <1>10, SetupRegs
<1> QED BY <1>7, <1>10, <1>11, SetupRest

LEMMA RingFromStart ==
  RingPlace(0) = RingStart
<1>1. 0 % (RingEnd - RingStart + 1) = 0
  BY EncAssumption
<1> QED BY <1>1, EncAssumption DEF RingPlace

LEMMA SetupReceives ==
  ASSUME EncInv, Clock, ByteTaken, spi.byte > 0, spi.doing = "setup", spi.step = 15
  PROVE  EncInv'
<1>1. Ordering /\ ~ TakingOff /\ ~ SendingOff
  BY DEF Ordering, Resetting, Checking, Polling, Fetching, Copying, TakingOff, SendingOff
<1>2. EncTypeOK /\ InStep /\ enc \in Chips /\ Done = 14 /\ SettingUp
  BY <1>1, OrderIs DEF EncInv, Configured
<1>3. Does(15, BFS + 31, RXEN) /\ RXEN \in Int /\ 6 \in 0..7 /\ BFS \in {BFS, BFC}
  BY SetupTable DEF RXEN
<1>4. enc.regs[ECON1] = 2
  BY <1>2 DEF SettingUp
<1>5. 6 = IF BFS = BFS THEN enc.regs[ECON1] + RXEN - And(enc.regs[ECON1], RXEN)
          ELSE enc.regs[ECON1] - And(enc.regs[ECON1], RXEN)
  BY <1>4, ControlBits DEF RXEN
<1>6. /\ enc'.regs = [enc.regs EXCEPT ![ECON1] = 6]
      /\ enc'.buffer = enc.buffer /\ enc'.count = enc.count /\ enc'.log = enc.log /\ enc'.rxWr = enc.rxWr
      /\ Going /\ spi'.byte = 2 /\ EncTypeOK' /\ InStep' /\ Done' = 15
      /\ UNCHANGED <<wire, unread, sent>>
  <2>1. Does(spi.step, BFS + 31, RXEN)
    BY <1>3
  <2>2. /\ enc'.regs = [enc.regs EXCEPT ![ECON1] = 6]
        /\ enc'.buffer = enc.buffer /\ enc'.count = enc.count /\ enc'.log = enc.log /\ enc'.rxWr = enc.rxWr
        /\ Going /\ spi'.byte = 2 /\ EncTypeOK' /\ InStep' /\ Done' = spi.step
        /\ ~ TakingOff /\ ~ SendingOff => UNCHANGED <<wire, unread, sent>>
    BY <1>1, <1>3, <1>5, <2>1, OrderBank
  <2> QED BY <1>1, <2>2
<1>7. /\ unread = <<>> /\ ~ wire.torn /\ wire.laid = 0 /\ enc.regs[EPKTCNT] = 0 /\ spi.next = RingStart
      /\ enc.regs[ECON2] = 128 /\ enc.rxWr = RingStart /\ enc.regs[MACON3] = 32
      /\ Reg(ERXST) = RingStart % LowSize /\ Reg(ERXST + 1) = RingStart \div LowSize
      /\ Reg(ERXND) = RingEnd % LowSize /\ Reg(ERXND + 1) = RingEnd \div LowSize
      /\ Reg(ERXRDPT) = RingStart % LowSize /\ Reg(ERXRDPT + 1) = RingStart \div LowSize
  BY <1>2 DEF SettingUp
<1>8. enc'.regs[ECON1] = 6 /\ \A r \in Watched \ {ECON1} : enc'.regs[r] = enc.regs[r]
  BY <1>2, <1>6, WatchedNames DEF Chips
<1>9. /\ enc'.regs[ECON2] = enc.regs[ECON2] /\ enc'.regs[EPKTCNT] = enc.regs[EPKTCNT]
      /\ enc'.regs[MACON3] = enc.regs[MACON3]
      /\ Reg(8)' = Reg(8) /\ Reg(9)' = Reg(9) /\ Reg(10)' = Reg(10)
      /\ Reg(11)' = Reg(11) /\ Reg(12)' = Reg(12) /\ Reg(13)' = Reg(13)
  <2>1. \A j \in 8..13 : <<0, j>> \in Watched \ {ECON1}
    BY DEF Watched, ECON1
  <2>2. ECON2 \in Watched \ {ECON1} /\ EPKTCNT \in Watched \ {ECON1} /\ MACON3 \in Watched \ {ECON1}
    BY DEF Watched, ECON1, ECON2, EPKTCNT, MACON3
  <2> QED BY <1>8, <2>1, <2>2 DEF Reg
<1>10. spi'.doing = "setup" /\ spi'.next = spi.next
  BY <1>6 DEF Going
<1>11. SettingUp'
  BY <1>6, <1>7, <1>8, <1>9, <1>10 DEF SettingUp, ERXST, ERXND, ERXRDPT
<1>12. Configured' /\ Sending' /\ Promised' /\ ~ Giving'
  BY <1>10, <1>11 DEF Configured, Sending, Promised, Giving
<1>13. Counted'
  BY <1>6, <1>9, <1>10, <1>12 DEF EncInv, Counted
<1>14. Queued'
  BY <1>6, <1>7 DEF Queued
<1>15. First' = 0 /\ Freed' = 0 /\ Gap' = 0
  BY <1>6, <1>7, <1>12 DEF First, Freed, Gap
<1>16. Roomy'
  <2>1. RingStart \in Half /\ enc'.regs[<<0, ERXRDPT>>] = RingStart % LowSize
        /\ enc'.regs[<<0, ERXRDPT + 1>>] = RingStart \div LowSize
    BY <1>7, <1>9, EncAssumption DEF Half, ERXRDPT, Reg
  <2>2. Pair(enc'.regs, ERXRDPT) = RingStart
    BY <2>1, PairHeld
  <2>3. RingSize > 0 /\ RingSize' = RingSize
    BY EncAssumption DEF RingSize
  <2>4. Pair(enc.regs, ERXRDPT)' = Pair(enc'.regs, ERXRDPT)
    BY DEF Pair
  <2>5. RingPlace(wire.laid)' = RingStart /\ RingPlace(First)' = RingStart /\ RingPlace(Freed - Gap)' = RingStart
    <3>1. wire'.laid = 0 /\ 0 - 0 = 0
      BY <1>6, <1>7
    <3> QED BY <1>15, <3>1, RingFromStart DEF RingPlace
  <2>6. enc'.rxWr = RingStart /\ spi'.next = RingStart /\ wire'.laid = 0
    BY <1>6, <1>7, <1>10
  <2> QED BY <1>10, <1>15, <2>2, <2>3, <2>4, <2>5, <2>6 DEF Roomy
<1>17. Reading'
  BY <1>10 DEF Reading
<1>18. InOrder'
  BY <1>14, <1>16, <1>17 DEF InOrder
<1>19. Captured'
  BY <1>6, KeepCaptured DEF EncInv
<1> QED BY <1>6, <1>12, <1>13, <1>18, <1>19 DEF EncInv

(***************************************************************************)
(* A bank selected, a pointer set.                                         *)
(***************************************************************************)
LEMMA KeepPlaces ==
  ASSUME Roomy, unread' = unread, wire'.laid = wire.laid, Giving' <=> Giving, spi'.next = spi.next,
         spi'.doing = spi.doing, enc'.rxWr = enc.rxWr,
         enc'.regs[<<0, 12>>] = enc.regs[<<0, 12>>], enc'.regs[<<0, 13>>] = enc.regs[<<0, 13>>],
         spi.doing # "release"
  PROVE  Roomy'
<1>1. First' = First
  BY DEF First
<1>2. Freed' = Freed
  BY <1>1 DEF Freed, Giving
<1>3. Gap' = Gap
  BY <1>2 DEF Gap
<1>4. Pair(enc.regs, ERXRDPT)' = Pair(enc.regs, ERXRDPT)
  BY DEF Reg, Pair, ERXRDPT
<1> HIDE DEF Gap, Freed, First
<1> QED BY <1>1, <1>2, <1>3, <1>4 DEF Roomy

LEMMA BankKeeps ==
  ASSUME EncInv, Clock, ByteTaken, spi.byte > 0, spi.doing \in {"poll", "receive", "transmit"},
         spi.step \in {1, 2}
  PROVE  EncInv'
<1> DEFINE k == spi.step
           o == IF k = 1 THEN BFC ELSE BFS
           b == IF k = 1 THEN 3 ELSE IF spi.doing = "poll" THEN 1 ELSE 0
           c == IF k = 2 /\ spi.doing = "poll" THEN 5 ELSE 4
<1>1. Ordering /\ ~ TakingOff /\ ~ SendingOff
  BY DEF Ordering, Resetting, Checking, Polling, Fetching, Copying, TakingOff, SendingOff
<1>2. EncTypeOK /\ InStep /\ enc \in Chips /\ Done = spi.step - 1 /\ Running
  BY <1>1, OrderIs DEF EncInv, Configured
<1>3. Does(k, o + 31, b)
  <2>1. CASE spi.doing = "poll"
    BY <2>1, PollTable DEF Does
  <2>2. CASE spi.doing = "receive"
    BY <2>2, ReceiveTable DEF Does
  <2>3. CASE spi.doing = "transmit"
    BY <2>3, TransmitTable DEF Does
  <2> QED BY <2>1, <2>2, <2>3
<1>4. o \in {BFS, BFC} /\ b \in Int /\ c \in 0..7 /\ k \in {1, 2}
  OBVIOUS
<1>5. enc.regs[ECON1] \in {4, 5, 6} /\ (k = 2 => enc.regs[ECON1] = 4)
  BY <1>2 DEF Running
<1>6. c = IF o = BFS THEN enc.regs[ECON1] + b - And(enc.regs[ECON1], b)
          ELSE enc.regs[ECON1] - And(enc.regs[ECON1], b)
  BY <1>4, <1>5, ControlBits DEF BFS, BFC
<1>7. /\ enc'.regs = [enc.regs EXCEPT ![ECON1] = c]
      /\ enc'.buffer = enc.buffer /\ enc'.count = enc.count /\ enc'.log = enc.log /\ enc'.rxWr = enc.rxWr
      /\ Going /\ spi'.byte = 2 /\ EncTypeOK' /\ InStep' /\ Done' = k
      /\ UNCHANGED <<wire, unread, sent>>
  <2> HIDE DEF o, b, c
  <2> QED BY <1>1, <1>3, <1>4, <1>6, OrderBank
<1>8. enc'.regs[ECON1] = c
  BY <1>2, <1>7, WatchedNames DEF Chips
<1> HIDE DEF o, b
<1>9. \A r \in Registers : r # ECON1 => enc'.regs[r] = enc.regs[r]
  <2> HIDE DEF c
  <2> QED BY <1>2, <1>7 DEF Chips
<1>10. /\ enc'.regs[ECON2] = enc.regs[ECON2] /\ enc'.regs[EPKTCNT] = enc.regs[EPKTCNT]
       /\ enc'.regs[MACON3] = enc.regs[MACON3] /\ \A j \in 0..13 : enc'.regs[<<0, j>>] = enc.regs[<<0, j>>]
  <2>1. \A j \in 0..13 : <<0, j>> \in Registers /\ <<0, j>> # ECON1
    BY Names DEF ECON1
  <2>2. \A r \in {ECON2, EPKTCNT, MACON3} : r \in Registers /\ r # ECON1
    BY Names DEF ECON1, ECON2, EPKTCNT, MACON3
  <2> QED BY <1>9, <2>1, <2>2
<1>11. spi'.doing = spi.doing /\ spi'.next = spi.next /\ spi'.step = k /\ spi'.id = spi.id /\ spi'.len = spi.len
  BY <1>7 DEF Going
<1>12. Configured'
  <2>1. /\ Reg(8)' = Reg(8) /\ Reg(9)' = Reg(9) /\ Reg(10)' = Reg(10) /\ Reg(11)' = Reg(11)
    BY <1>10 DEF Reg
  <2>2. Running'
    BY <1>2, <1>4, <1>7, <1>8, <1>10, <1>11, <2>1 DEF Running, Holding, ERXST, ERXND
  <2> QED BY <1>11, <2>2 DEF Configured
<1>13. ~ Giving' /\ ~ Giving
  BY <1>11 DEF Giving
<1>14. Counted'
  <2>1. Promised'
    BY <1>4, <1>11 DEF Promised
  <2> QED BY <1>7, <1>10, <1>11, <1>13, <2>1 DEF EncInv, Counted
<1>15. InOrder'
  <2>1. Up' /\ Up
    BY <1>11 DEF Up
  <2>2. Queued => Queued'
    BY <1>2, <1>7, <1>13, KeepQueued DEF EncTypeOK
  <2>3. Roomy => Roomy'
    <3>1. enc'.regs[<<0, 12>>] = enc.regs[<<0, 12>>] /\ enc'.regs[<<0, 13>>] = enc.regs[<<0, 13>>]
      BY <1>10
    <3>2. spi.doing # "release" /\ (Giving' <=> Giving)
      BY <1>13
    <3> QED BY <1>7, <1>11, <3>1, <3>2, KeepPlaces
  <2>4. Reading'
    BY <1>4, <1>7, <1>11 DEF Reading
  <2> QED BY <1>7, <2>1, <2>2, <2>3, <2>4 DEF EncInv, InOrder
<1>16. Sending'
  <2>1. Copied' = 0
    BY <1>4, <1>11 DEF Copied
  <2>2. Sending
    BY DEF EncInv
  <2> QED BY <1>2, <1>4, <1>7, <1>11, <2>1, <2>2 DEF Sending
<1>17. Captured'
  BY <1>7, KeepCaptured DEF EncInv
<1> QED BY <1>7, <1>12, <1>14, <1>15, <1>16, <1>17 DEF EncInv

(* A pointer that is not the ring's.                                       *)
LEMMA PointerKeeps ==
  ASSUME EncInv, Clock, ByteTaken, spi.byte > 0, Ordering,
         (spi.doing = "receive" /\ spi.step \in {3, 4})
           \/ (spi.doing = "transmit" /\ spi.step \in {3, 4, 6, 7, 8, 9}),
         NEW a \in 0..7, NEW b \in Int, Does(spi.step, WCR + a, b)
  PROVE  /\ enc'.regs[<<0, a>>] = b
         /\ \A j \in 0..13 : j # a => enc'.regs[<<0, j>>] = enc.regs[<<0, j>>]
         /\ enc'.buffer = enc.buffer /\ Going /\ spi'.byte = 2 /\ Done' = spi.step /\ Done = spi.step - 1
         /\ UNCHANGED <<wire, unread, sent>>
         /\ EncTypeOK' /\ InStep' /\ Configured' /\ Counted' /\ Captured'
         /\ Queued => Queued'
         /\ Roomy => Roomy'
<1> DEFINE k == spi.step
<1>1. ~ TakingOff /\ ~ SendingOff
  BY DEF TakingOff, SendingOff
<1>2. EncTypeOK /\ InStep /\ enc \in Chips /\ Done = spi.step - 1 /\ Running
  BY OrderIs DEF EncInv, Configured
<1>3. enc.regs[ECON1] = 4
  BY <1>2 DEF Running
<1>4. Bank(enc) = 0
  BY <1>3 DEF Bank
<1>5. a \in 0..13 /\ a \in 0..15 /\ a \notin {8, 9} /\ a \notin {14, 15}
  OBVIOUS
<1>6. /\ enc'.regs = Stored(enc, a, b)
      /\ enc'.buffer = enc.buffer /\ enc'.count = enc.count /\ enc'.log = enc.log
      /\ enc'.rxWr = enc.rxWr
      /\ Going /\ spi'.byte = 2 /\ EncTypeOK' /\ InStep' /\ Done' = k
      /\ UNCHANGED <<wire, unread, sent>>
  BY <1>1, <1>4, <1>5, OrderPointer
<1>7. /\ enc'.regs[<<0, a>>] = b
      /\ \A r \in Registers : r # <<0, a>> => enc'.regs[r] = enc.regs[r]
  <2>1. /\ a \notin {14, 15} => Stored(enc, a, b)[<<0, a>>] = b
        /\ a \notin {8, 9} => \A r \in Registers : r # <<0, a>> => Stored(enc, a, b)[r] = enc.regs[r]
    BY <1>2, <1>5, StoredIs, Zenon
  <2> QED BY <1>5, <1>6, <2>1
<1>8. SameRegs(Watched)
  <2>1. \A r \in Watched : r \in Registers /\ r # <<0, a>>
    BY WatchedNames DEF Watched, ECON1, ECON2, EPKTCNT, MACON3
  <2> QED BY <1>7, <2>1 DEF SameRegs
<1>9. \A j \in 0..13 : j # a => enc'.regs[<<0, j>>] = enc.regs[<<0, j>>]
  <2>1. \A j \in 0..13 : j # a => <<0, j>> \in Registers /\ <<0, j>> # <<0, a>>
    BY Names
  <2> QED BY <1>7, <2>1
<1>10. spi'.doing = spi.doing /\ spi'.next = spi.next /\ spi'.step = k
  BY <1>6 DEF Going
<1>11. Configured'
  <2>1. Running'
    BY <1>2, <1>6, <1>8, <1>10, KeepRunning
  <2> QED BY <1>10, <2>1 DEF Configured
<1>12. ~ Giving' /\ ~ Giving
  BY <1>10 DEF Giving
<1>13. Counted'
  <2>1. Promised'
    BY <1>10 DEF Promised
  <2> QED BY <1>6, <1>8, <1>10, <1>12, <2>1, SameRegsIs DEF EncInv, Counted
<1>14. Queued => Queued'
  BY <1>2, <1>6, <1>12, KeepQueued DEF EncTypeOK
<1>15. Roomy => Roomy'
  BY <1>6, <1>8, <1>10, <1>12, KeepRoomy
<1>16. Captured'
  BY <1>6, KeepCaptured DEF EncInv
<1> QED BY <1>2, <1>6, <1>7, <1>9, <1>11, <1>13, <1>14, <1>15, <1>16

LEMMA RestHolds ==
  ASSUME EncInv, spi.doing # "setup", EncTypeOK', InStep', Configured', Counted', Captured', Sending', Going,
         UNCHANGED <<wire, unread, sent>>,
         Queued => Queued', Roomy => Roomy', Queued /\ Roomy /\ Reading => Reading'
  PROVE  EncInv'
<1>1. Up' /\ Up
  BY DEF Up, Going
<1> QED BY <1>1 DEF EncInv, InOrder

LEMMA FirstIs ==
  ASSUME EncTypeOK
  PROVE  First \in Nat
<1>1. wire.laid \in Nat /\ unread \in Seq(Frames)
  BY DEF EncTypeOK
<1>2. unread # <<>> => unread[1] \in Frames
  BY <1>1
<1>3. unread # <<>> => unread[1].at \in Nat /\ After(unread[1]) \in Nat
  BY <1>2, EncAssumption DEF After, Need, Frames
<1> QED BY <1>1, <1>3 DEF First

LEMMA ReceivePointer ==
  ASSUME EncInv, Clock, ByteTaken, spi.byte > 0, spi.doing = "receive", spi.step \in {3, 4}
  PROVE  EncInv'
<1> DEFINE k == spi.step
           a == IF k = 3 THEN 0 ELSE 1
           b == IF k = 3 THEN spi.next % LowSize ELSE spi.next \div LowSize
<1>1. Ordering
  BY DEF Ordering, Resetting, Checking, Polling, Fetching, Copying
<1>2. Does(k, WCR + a, b)
  <2>1. CASE k = 3
    BY <2>1, ReceiveTable DEF Does
  <2>2. CASE k = 4
    BY <2>2, ReceiveTable DEF Does
  <2> QED BY <2>1, <2>2
<1>3. a \in 0..7 /\ b \in Int /\ spi.next \in Int
  <2>1. spi.next \in Int
    BY DEF EncInv, EncTypeOK, Drivers
  <2> QED BY <2>1, HalvesInt
<1> HIDE DEF b
<1>4. /\ enc'.regs[<<0, a>>] = b
      /\ \A j \in 0..13 : j # a => enc'.regs[<<0, j>>] = enc.regs[<<0, j>>]
      /\ enc'.buffer = enc.buffer /\ Going /\ spi'.byte = 2 /\ Done' = k /\ Done = k - 1
      /\ UNCHANGED <<wire, unread, sent>>
      /\ EncTypeOK' /\ InStep' /\ Configured' /\ Counted' /\ Captured'
      /\ Queued => Queued'
      /\ Roomy => Roomy'
  BY <1>1, <1>2, <1>3, PointerKeeps
<1>5. spi'.doing = "receive" /\ spi'.step = k /\ spi'.next = spi.next
  BY <1>4 DEF Going
<1>6. Sending'
  BY <1>5 DEF Sending
<1>7. ASSUME Queued, Roomy, Reading PROVE Reading'
  <2>1. CASE k = 3
    BY <1>4, <1>5, <2>1 DEF Reading, Reg, ERDPT, b
  <2>2. CASE k = 4
    <3>1. enc.regs[<<0, 0>>] = spi.next % LowSize
      BY <1>4, <1>7, <2>2 DEF Reading, Reg, ERDPT
    <3>2. enc'.regs[<<0, 0>>] = spi.next % LowSize /\ enc'.regs[<<0, 0 + 1>>] = spi.next \div LowSize
      BY <1>4, <2>2, <3>1 DEF b
    <3>3. spi.next \in Half
      <4>1. First \in Nat
        BY FirstIs DEF EncInv
      <4>2. spi.next = RingPlace(First)
        BY <1>7 DEF Roomy
      <4> QED BY <4>1, <4>2, RingInRange
    <3>4. Pair(enc'.regs, ERDPT) = spi.next
      BY <3>2, <3>3, PairHeld DEF ERDPT
    <3>5. Pair(enc.regs, ERDPT)' = spi'.next
      BY <1>5, <3>4 DEF Pair
    <3> QED BY <1>4, <1>5, <2>2, <3>5 DEF Reading
  <2> QED BY <2>1, <2>2
<1>8. spi.doing # "setup"
  OBVIOUS
<1> QED BY <1>4, <1>6, <1>7, <1>8, RestHolds

LEMMA TransmitPointer ==
  ASSUME EncInv, Clock, ByteTaken, spi.byte > 0, spi.doing = "transmit", spi.step \in {3, 4, 6, 7, 8, 9}
  PROVE  EncInv'
<1> DEFINE k == spi.step
           a == IF k < 5 THEN k - 1 ELSE k - 2
           b == CASE k = 3 -> TxStart % LowSize [] k = 4 -> TxStart \div LowSize
                  [] k = 6 -> TxStart % LowSize [] k = 7 -> TxStart \div LowSize
                  [] k = 8 -> (TxStart + spi.len) % LowSize [] k = 9 -> (TxStart + spi.len) \div LowSize
           R(j) == enc'.regs[<<0, j>>]
<1>1. Ordering
  BY DEF Ordering, Resetting, Checking, Polling, Fetching, Copying
<1>2. Does(k, WCR + a, b)
  <2>1. CASE k = 3
    BY <2>1, TransmitTable DEF Does
  <2>2. CASE k = 4
    BY <2>2, TransmitTable DEF Does
  <2>3. CASE k = 6
    BY <2>3, TransmitTable DEF Does
  <2>4. CASE k = 7
    BY <2>4, TransmitTable DEF Does
  <2>5. CASE k = 8
    BY <2>5, TransmitTable DEF Does
  <2>6. CASE k = 9
    BY <2>6, TransmitTable DEF Does
  <2> QED BY <2>1, <2>2, <2>3, <2>4, <2>5, <2>6
<1>3. a \in 0..7 /\ k \in {3, 4, 6, 7, 8, 9} /\ spi.doing # "setup"
  OBVIOUS
<1>4. b \in Int
  <2>1. spi.len \in Nat /\ TxStart + spi.len \in Int
    BY EncAssumption DEF EncInv, EncTypeOK, Drivers
  <2>2. TxStart % LowSize \in Int /\ TxStart \div LowSize \in Int
        /\ (TxStart + spi.len) % LowSize \in Int /\ (TxStart + spi.len) \div LowSize \in Int
    BY <2>1, EncAssumption, HalvesInt
  <2> QED BY <1>3, <2>2
<1> HIDE DEF b
<1>5. /\ enc'.regs[<<0, a>>] = b
      /\ \A j \in 0..13 : j # a => enc'.regs[<<0, j>>] = enc.regs[<<0, j>>]
      /\ enc'.buffer = enc.buffer /\ Going /\ spi'.byte = 2 /\ Done' = k /\ Done = k - 1
      /\ UNCHANGED <<wire, unread, sent>>
      /\ EncTypeOK' /\ InStep' /\ Configured' /\ Counted' /\ Captured'
      /\ Queued => Queued'
      /\ Roomy => Roomy'
  BY <1>1, <1>2, <1>3, <1>4, PointerKeeps
<1>6. spi'.doing = "transmit" /\ spi'.step = k /\ spi'.id = spi.id /\ spi'.len = spi.len
  BY <1>5 DEF Going
<1>7. Reading'
  BY <1>6 DEF Reading
<1>8. /\ spi.len \in 1..MaxLen /\ TxStart + spi.len < BufferSize
      /\ spi.id = Len(sent)
      /\ k = 4 => Reg(2) = TxStart % LowSize
      /\ k > 6 => Reg(4) = TxStart % LowSize
      /\ k > 7 => Reg(5) = TxStart \div LowSize
      /\ k > 8 => Reg(6) = (TxStart + spi.len) % LowSize
      /\ \A j \in 1..Copied : enc.buffer[TxStart + j] = FrameBytes(50 + spi.id, spi.len)[j]
  <2>1. Sending
    BY DEF EncInv
  <2> QED BY <1>3, <1>5, <2>1, SMTT(20) DEF Sending, EWRPT, ETXST, ETXND
<1>9. Copied' = Copied
  BY <1>3, <1>6 DEF Copied
<1>10. /\ k = 3 => R(2) = TxStart % LowSize
       /\ k = 4 => R(2) = TxStart % LowSize /\ R(3) = TxStart \div LowSize
       /\ k >= 6 => R(4) = TxStart % LowSize
       /\ k >= 7 => R(5) = TxStart \div LowSize
       /\ k >= 8 => R(6) = (TxStart + spi.len) % LowSize
       /\ k >= 9 => R(7) = (TxStart + spi.len) \div LowSize
  <2>1. R(a) = b
    BY <1>5
  <2>2. /\ a # 2 => R(2) = Reg(2)
        /\ a # 4 => R(4) = Reg(4)
        /\ a # 5 => R(5) = Reg(5)
        /\ a # 6 => R(6) = Reg(6)
    BY <1>5 DEF Reg
  <2> HIDE DEF R
  <2>3. /\ k = 3 => a = 2 /\ b = TxStart % LowSize
        /\ k = 4 => a = 3 /\ b = TxStart \div LowSize
        /\ k = 6 => a = 4 /\ b = TxStart % LowSize
        /\ k = 7 => a = 5 /\ b = TxStart \div LowSize
        /\ k = 8 => a = 6 /\ b = (TxStart + spi.len) % LowSize
        /\ k = 9 => a = 7 /\ b = (TxStart + spi.len) \div LowSize
    BY DEF b
  <2> HIDE DEF a
  <2> QED BY <1>3, <1>8, <2>1, <2>2, <2>3
<1>11. k = 4 => Pair(enc'.regs, EWRPT) = (TxStart + 0) % BufferSize
  <2>1. TxStart \in Half /\ TxStart + 0 = TxStart
    BY EncAssumption DEF Half
  <2>2. (TxStart + 0) % BufferSize = TxStart
    BY <2>1, EncAssumption, WithinTurn
  <2>3. k = 4 => Pair(enc'.regs, EWRPT) = TxStart
    <3>1. k = 4 => enc'.regs[<<0, EWRPT>>] = TxStart % LowSize /\ enc'.regs[<<0, EWRPT + 1>>] = TxStart \div LowSize
      BY <1>10 DEF EWRPT
    <3> QED BY <2>1, <3>1, PairHeld
  <2> QED BY <2>2, <2>3
<1>12. Sending'
  <2>1. /\ Reg(2)' = R(2) /\ Reg(4)' = R(4) /\ Reg(5)' = R(5) /\ Reg(6)' = R(6) /\ Reg(7)' = R(7)
        /\ Pair(enc.regs, EWRPT)' = Pair(enc'.regs, EWRPT)
    BY DEF Reg, Pair
  <2> HIDE DEF R, Copied, Pair
  <2> QED BY <1>3, <1>5, <1>6, <1>8, <1>9, <1>10, <1>11, <2>1, SMTT(20) DEF Sending, EWRPT, ETXST, ETXND
<1> QED BY <1>3, <1>5, <1>7, <1>12, RestHolds

(***************************************************************************)
(* ERXRDPT moved behind the packet that has been read.                     *)
(***************************************************************************)
LEMMA NeedIs ==
  ASSUME NEW n \in Nat
  PROVE  Need(n) \in Nat /\ Need(n) >= 6 + n
<1> DEFINE t == 6 + n + Fcs
<1>1. t \in Nat /\ t >= 6 + n
  BY EncAssumption
<1> HIDE DEF t
<1>2. t % 2 \in 0..1
  BY <1>1
<1> QED BY <1>1, <1>2 DEF Need, t

(* A frame that is taken and any place in the buffer add up in a uint16_t. *)
LEMMA NeedFits ==
  ASSUME NEW n \in Nat, n <= MaxLen
  PROVE  BufferSize + Need(n) < Word
<1> DEFINE t == 6 + n + Fcs
<1>1. t \in Nat /\ BufferSize + t + 1 < Word /\ BufferSize \in Nat
  BY EncAssumption, WordAssumption DEF Word
<1> HIDE DEF t
<1>2. t % 2 \in 0..1
  BY <1>1
<1> QED BY <1>1, <1>2 DEF Need, t, Word

LEMMA GivingIs ==
  ASSUME EncTypeOK, Giving, Len(unread) > 0
  PROVE  /\ unread[1] \in Frames /\ unread[1].at \in Nat /\ First = After(unread[1])
         /\ First \in Nat /\ First >= unread[1].at + 6
         /\ Freed = IF Done < 2 THEN unread[1].at ELSE First
<1>1. unread \in Seq(Frames) /\ unread # <<>>
  BY DEF EncTypeOK
<1>2. unread[1] \in Frames
  BY <1>1
<1>3. unread[1].at \in Nat /\ unread[1].len \in Nat
  BY <1>2 DEF Frames
<1>4. First = After(unread[1])
  BY <1>1 DEF First
<1>5. After(unread[1]) \in Nat /\ After(unread[1]) >= unread[1].at + 6
  <2> DEFINE l == unread[1].len
             m == Need(l)
  <2>1. m \in Nat /\ m >= 6
    <3>1. l \in Nat
      BY <1>3
    <3> HIDE DEF l
    <3>2. Need(l) \in Nat /\ Need(l) >= 6 + l
      BY <3>1, NeedIs
    <3> QED BY <3>1, <3>2
  <2>2. After(unread[1]) = unread[1].at + m
    BY DEF After
  <2> HIDE DEF m
  <2> QED BY <1>3, <2>1, <2>2
<1> QED BY <1>2, <1>3, <1>4, <1>5 DEF Freed

LEMMA ReleasePointer ==
  ASSUME EncInv, Clock, ByteTaken, spi.byte > 0, spi.doing = "release", spi.step \in {1, 2}
  PROVE  EncInv'
<1> DEFINE k == spi.step
           a == k + 11
           v == Behind(spi.next)
           b == IF k = 1 THEN v % LowSize ELSE v \div LowSize
<1>1. Ordering /\ ~ TakingOff /\ ~ SendingOff
  BY DEF Ordering, Resetting, Checking, Polling, Fetching, Copying, TakingOff, SendingOff
<1>2. EncTypeOK /\ InStep /\ enc \in Chips /\ spi \in Drivers /\ Done = spi.step - 1 /\ Running
  BY <1>1, OrderIs DEF EncInv, Configured
<1>3. Does(k, WCR + a, b)
  <2>1. CASE k = 1
    BY <2>1, ReleaseTable DEF Does
  <2>2. CASE k = 2
    BY <2>2, ReleaseTable DEF Does
  <2> QED BY <2>1, <2>2
<1>4. a \in 0..13 /\ a \in 0..15 /\ a \notin {8, 9} /\ a \notin {14, 15} /\ k \in {1, 2} /\ spi.doing # "setup"
  OBVIOUS
<1>5. b \in Int
  <2>1. v \in Int
    BY <1>2, EncAssumption DEF Behind, Drivers
  <2>2. v % LowSize \in Int /\ v \div LowSize \in Int
    BY <2>1, HalvesInt
  <2> QED BY <2>2
<1>6. Bank(enc) = 0
  BY <1>2 DEF Running, Bank
<1> HIDE DEF b, v
<1>7. /\ enc'.regs = Stored(enc, a, b)
      /\ enc'.buffer = enc.buffer /\ enc'.count = enc.count /\ enc'.log = enc.log
      /\ enc'.rxWr = enc.rxWr
      /\ Going /\ spi'.byte = 2 /\ EncTypeOK' /\ InStep' /\ Done' = k
      /\ UNCHANGED <<wire, unread, sent>>
  BY <1>1, <1>3, <1>4, <1>5, <1>6, OrderPointer
<1>8. /\ enc'.regs[<<0, a>>] = b
      /\ \A r \in Registers : r # <<0, a>> => enc'.regs[r] = enc.regs[r]
  <2> HIDE DEF a
  <2>1. /\ a \notin {14, 15} => Stored(enc, a, b)[<<0, a>>] = b
        /\ a \notin {8, 9} => \A r \in Registers : r # <<0, a>> => Stored(enc, a, b)[r] = enc.regs[r]
    BY <1>2, <1>4, <1>5, StoredIs, ZenonT(40)
  <2> QED BY <1>4, <1>7, <2>1
<1>9. /\ enc'.regs[ECON1] = enc.regs[ECON1] /\ enc'.regs[ECON2] = enc.regs[ECON2]
      /\ enc'.regs[EPKTCNT] = enc.regs[EPKTCNT] /\ enc'.regs[MACON3] = enc.regs[MACON3]
      /\ \A j \in 8..13 : j # a => enc'.regs[<<0, j>>] = enc.regs[<<0, j>>]
  <2>1. \A r \in {ECON1, ECON2, EPKTCNT, MACON3} : r \in Registers /\ r # <<0, a>>
    BY <1>4, Names DEF ECON1, ECON2, EPKTCNT, MACON3
  <2>2. \A j \in 8..13 : j # a => <<0, j>> \in Registers /\ <<0, j>> # <<0, a>>
    BY Names
  <2> QED BY <1>8, <2>1, <2>2
<1>10. spi'.doing = "release" /\ spi'.next = spi.next /\ spi'.step = k
  BY <1>7 DEF Going
<1>11. Configured'
  <2>1. Reg(8)' = Reg(8) /\ Reg(9)' = Reg(9) /\ Reg(10)' = Reg(10) /\ Reg(11)' = Reg(11)
    BY <1>4, <1>9 DEF Reg
  <2>2. Running'
    BY <1>2, <1>9, <1>10, <2>1 DEF Running, Holding, ERXST, ERXND
  <2> QED BY <1>10, <2>2 DEF Configured
<1>12. Giving' /\ Giving
  BY <1>2, <1>4, <1>7, <1>10 DEF Giving
<1>13. Counted'
  <2>1. Promised'
    BY <1>10 DEF Promised
  <2> QED BY <1>7, <1>9, <1>10, <1>12, <2>1 DEF EncInv, Counted
<1>14. Sending' /\ Reading'
  BY <1>10 DEF Sending, Reading
<1>15. Captured'
  BY <1>7, KeepCaptured DEF EncInv
<1>16. Queued => Queued'
  BY <1>2, <1>7, <1>12, KeepQueued DEF EncTypeOK
<1>17. ASSUME Roomy PROVE Roomy'
  <2>1. Len(unread) > 0 /\ unread \in Seq(Frames)
    BY <1>2, <1>12 DEF EncInv, Counted, EncTypeOK
  <2>2. /\ unread[1].at \in Nat /\ First \in Nat /\ First >= unread[1].at + 6
        /\ Freed = unread[1].at
    BY <1>2, <1>4, <1>12, <2>1, GivingIs
  <2>3. /\ enc.rxWr = RingPlace(wire.laid) /\ spi.next = RingPlace(First)
        /\ wire.laid - Freed + Gap < RingSize
        /\ k = 2 => Reg(ERXRDPT) = v % LowSize
    BY <1>2, <1>17 DEF Roomy, v
  <2>4. First' = First
    BY <1>7, <1>12 DEF First, After
  <2>5. Freed' = IF k = 1 THEN Freed ELSE First
    BY <1>4, <1>7, <1>12, <2>2, <2>4 DEF Freed
  <2>6. /\ RingPlace(wire.laid)' = RingPlace(wire.laid) /\ RingPlace(First)' = RingPlace(First)
        /\ RingSize' = RingSize
    BY <1>7, <2>4 DEF RingPlace, RingSize
  <2>7. CASE k = 1
    <3>1. Gap' = Gap /\ Freed' = Freed
      BY <2>5, <2>7 DEF Gap
    <3>2. Reg(ERXRDPT)' = Behind(spi'.next) % LowSize
      BY <1>8, <1>10, <2>7 DEF Reg, ERXRDPT, b, v
    <3> HIDE DEF First, Freed, Gap
    <3> QED BY <1>7, <1>10, <2>3, <2>4, <2>6, <2>7, <3>1, <3>2 DEF Roomy
  <2>8. CASE k = 2
    <3>1. Freed' = First /\ Gap' = 1
      BY <2>2, <2>5, <2>8 DEF Gap
    <3>2. v = RingPlace(First - 1) /\ v \in Half
      <4>1. First \in Nat \ {0} /\ First - 1 \in Nat
        BY <2>2
      <4>2. v = RingPlace(First - 1)
        BY <2>3, <4>1, BehindNext DEF v
      <4> QED BY <4>1, <4>2, RingInRange
    <3>3. enc'.regs[<<0, ERXRDPT>>] = v % LowSize /\ enc'.regs[<<0, ERXRDPT + 1>>] = v \div LowSize
      BY <1>8, <1>9, <2>3, <2>8 DEF Reg, ERXRDPT, b
    <3>4. Pair(enc'.regs, ERXRDPT) = v
      BY <3>2, <3>3, PairHeld
    <3>5. wire.laid - First + 1 < RingSize
      <4>1. wire.laid \in Nat /\ Gap \in Nat /\ RingSize \in Int
        BY <1>2, EncAssumption DEF EncTypeOK, Gap, RingSize
      <4> HIDE DEF Gap, Freed, First
      <4> QED BY <2>2, <2>3, <4>1
    <3>6. Pair(enc.regs, ERXRDPT)' = Pair(enc'.regs, ERXRDPT)
      BY DEF Pair
    <3>7. RingPlace(Freed - Gap)' = RingPlace(First - 1)
      BY <3>1 DEF RingPlace
    <3> HIDE DEF First, Freed, Gap
    <3> QED BY <1>7, <1>10, <2>3, <2>4, <2>6, <2>8, <3>1, <3>2, <3>4, <3>5, <3>6, <3>7 DEF Roomy
  <2> QED BY <1>4, <2>7, <2>8
<1> QED BY <1>4, <1>7, <1>11, <1>13, <1>14, <1>15, <1>16, <1>17, RestHolds

(***************************************************************************)
(* The packet taken off the count.                                         *)
(***************************************************************************)
LEMMA TakeKeeps ==
  ASSUME EncInv, Clock, ByteTaken, spi.byte > 0, TakingOff
  PROVE  EncInv'
<1> DEFINE f == OnByteComplete(enc, ByteNow)
<1>1. Ordering /\ ~ SendingOff
  BY DEF Ordering, Resetting, Checking, Polling, Fetching, Copying, TakingOff, SendingOff
<1>2. /\ EncTypeOK /\ InStep /\ enc \in Chips /\ spi \in Drivers /\ Done = 2 /\ Running
      /\ enc.index > 0 /\ ByteNow = Now.out[2] /\ Opcode = Now.out[1]
      /\ enc.op = Opcode - (Opcode % 32) /\ enc.addr = Opcode % 32
  BY <1>1, OrderIs DEF EncInv, Configured, TakingOff
<1>3. Now.out = <<BFS + 30, PKTDEC>>
  BY ReleaseTable DEF TakingOff, Now
<1>4. ByteNow = PKTDEC /\ Opcode = BFS + 30
  BY <1>2, <1>3
<1>5. enc.op = BFS /\ enc.addr = 30
  BY <1>2, <1>4, CommandParts
<1>6. enc.regs[ECON2] = 128 /\ enc.regs[ECON1] = 4
  BY <1>2 DEF Running, TakingOff
<1>7. /\ SameLine(enc, f) /\ f.op = enc.op /\ f.addr = enc.addr /\ f.regs[ECON2] = 128
      /\ f.regs[EPKTCNT] = IF enc.regs[EPKTCNT] > 0 THEN enc.regs[EPKTCNT] - 1 ELSE 0
      /\ \A r \in Registers : r \notin {ECON2, EPKTCNT, EIR} => f.regs[r] = enc.regs[r]
      /\ f.buffer = enc.buffer /\ f.rxWr = enc.rxWr /\ f.count = enc.count /\ f.log = enc.log
  <2> DEFINE h == OnByteComplete(enc, PKTDEC)
  <2>1. /\ SameLine(enc, h) /\ h.op = enc.op /\ h.addr = enc.addr /\ h.regs[ECON2] = 128
        /\ h.regs[EPKTCNT] = IF enc.regs[EPKTCNT] > 0 THEN enc.regs[EPKTCNT] - 1 ELSE 0
        /\ \A r \in Registers : r \notin {ECON2, EPKTCNT, EIR} => h.regs[r] = enc.regs[r]
        /\ h.buffer = enc.buffer /\ h.rxWr = enc.rxWr /\ h.count = enc.count /\ h.log = enc.log
    BY <1>2, <1>5, <1>6, CountByte
  <2>2. h = f
    BY <1>4
  <2> HIDE DEF h, f
  <2> QED BY <2>1, <2>2
<1>8. /\ SameMemory(f, enc')
      /\ Going /\ spi'.byte = 2 /\ EncTypeOK' /\ InStep' /\ Done' = spi.step
      /\ unread' = Tail(unread) /\ UNCHANGED <<wire, sent>>
  BY <1>1, <1>7, OrderDone
<1> HIDE DEF f
<1>9. /\ enc'.regs[ECON2] = 128
      /\ enc'.regs[EPKTCNT] = IF enc.regs[EPKTCNT] > 0 THEN enc.regs[EPKTCNT] - 1 ELSE 0
      /\ \A r \in Registers : r \notin {ECON2, EPKTCNT, EIR} => enc'.regs[r] = enc.regs[r]
      /\ enc'.buffer = enc.buffer /\ enc'.rxWr = enc.rxWr /\ enc'.count = enc.count /\ enc'.log = enc.log
  BY <1>7, <1>8 DEF SameMemory
<1>10. /\ enc'.regs[ECON1] = 4 /\ enc'.regs[MACON3] = enc.regs[MACON3]
       /\ \A j \in 8..13 : enc'.regs[<<0, j>>] = enc.regs[<<0, j>>]
  <2>1. \A r \in {ECON1, MACON3} : r \in Registers /\ r \notin {ECON2, EPKTCNT, EIR}
    BY Names DEF ECON1, ECON2, EPKTCNT, MACON3, EIR
  <2>2. \A j \in 8..13 : <<0, j>> \in Registers /\ <<0, j>> \notin {ECON2, EPKTCNT, EIR}
    BY Names DEF ECON2, EPKTCNT, EIR
  <2> QED BY <1>6, <1>9, <2>1, <2>2
<1>11. spi'.doing = "release" /\ spi'.next = spi.next /\ spi'.step = 3 /\ Done' = 3 /\ spi.doing = "release"
  BY <1>8 DEF Going, TakingOff
<1>12. Configured'
  <2>1. Reg(8)' = Reg(8) /\ Reg(9)' = Reg(9) /\ Reg(10)' = Reg(10) /\ Reg(11)' = Reg(11)
    BY <1>10 DEF Reg
  <2>2. Running'
    BY <1>2, <1>9, <1>10, <1>11, <2>1 DEF Running, Holding, ERXST, ERXND
  <2> QED BY <1>11, <2>2 DEF Configured
<1>13. ~ Giving' /\ Giving
  BY <1>2, <1>11 DEF Giving
<1>14. enc.regs[EPKTCNT] \in 0..Len(unread) /\ enc.regs[EPKTCNT] > 0 /\ unread \in Seq(Frames)
       /\ Len(unread) > 0
  <2>1. enc.regs[EPKTCNT] \in 0..Len(unread) /\ enc.regs[EPKTCNT] > 0
    BY <1>13 DEF EncInv, Counted
  <2>2. unread \in Seq(Frames)
    BY <1>2 DEF EncTypeOK
  <2> QED BY <2>1, <2>2
<1>15. Len(unread') = Len(unread) - 1 /\ \A i \in 1..Len(unread) - 1 : unread'[i] = unread[i + 1]
  <2>1. unread # <<>> /\ unread \in Seq(Frames) /\ Len(unread) \in Nat
    BY <1>14
  <2>2. Len(Tail(unread)) = Len(unread) - 1 /\ \A i \in 1..Len(unread) - 1 : Tail(unread)[i] = unread[i + 1]
    BY <2>1
  <2> QED BY <1>8, <2>2
<1>16. Counted'
  <2>1. Promised'
    BY <1>11 DEF Promised
  <2>2. enc'.regs[EPKTCNT] \in 0..Len(unread')
    BY <1>9, <1>14, <1>15
  <2> QED BY <1>11, <1>13, <2>1, <2>2 DEF Counted
<1>17. Sending' /\ Reading' /\ Up' /\ Up
  BY <1>11 DEF Sending, Reading, Up
<1>18. Captured'
  BY <1>8, <1>9, KeepCaptured DEF EncInv
<1>19. ASSUME Queued PROVE First' = First /\ First' = After(unread[1])
  <2>1. First = After(unread[1])
    BY <1>2, <1>13, <1>14, GivingIs
  <2>2. After(unread[1]) = IF 1 < Len(unread) THEN unread[1 + 1].at ELSE wire.laid
    BY <1>14, <1>19 DEF Queued
  <2>3. CASE Len(unread) > 1
    <3>1. unread' # <<>> /\ unread'[1] = unread[1 + 1]
      BY <1>14, <1>15, <2>3
    <3>2. First' = unread'[1].at
      BY <1>13, <3>1 DEF First
    <3> HIDE DEF First, After
    <3> QED BY <2>1, <2>2, <2>3, <3>1, <3>2
  <2>4. CASE Len(unread) = 1
    <3>1. unread' = <<>>
      BY <1>8, <1>14, <1>15, <2>4
    <3>2. First' = wire.laid
      BY <1>8, <3>1 DEF First
    <3> HIDE DEF First, After
    <3> QED BY <2>1, <2>2, <2>4, <3>2
  <2>5. Len(unread) > 1 \/ Len(unread) = 1
    <3> DEFINE n == Len(unread)
    <3>1. n \in Nat /\ n > 0
      BY <1>14
    <3> HIDE DEF n
    <3>2. n > 1 \/ n = 1
      BY <3>1
    <3> QED BY <3>2 DEF n
  <2> HIDE DEF First, After
  <2> QED BY <2>3, <2>4, <2>5, Zenon
<1>20. ASSUME Queued PROVE Queued'
  <2> DEFINE n == Len(unread)
             A(i) == After(unread[i])
  <2>1. /\ \A i \in 1..n : A(i) <= wire.laid
        /\ \A i, j \in 1..n : i < j => A(i) <= unread[j].at
        /\ \A i \in 1..n : A(i) = IF i < n THEN unread[i + 1].at ELSE wire.laid
        /\ \A i \in 1..n : ~ (Giving /\ i = 1) => IsWhole(unread[i])
    BY <1>20 DEF Queued
  <2>2. \A i \in 1..n - 1 : After(unread'[i]) = A(i + 1) /\ unread'[i].at = unread[i + 1].at
    BY <1>15
  <2>3. n \in Nat /\ n > 0 /\ Len(unread') = n - 1 /\ wire'.laid = wire.laid
    BY <1>8, <1>14, <1>15
  <2> HIDE DEF n, A
  <2>4. \A i \in 1..n - 1 : After(unread'[i]) <= wire.laid
    BY <2>1, <2>2, <2>3
  <2>5. \A i, j \in 1..n - 1 : i < j => After(unread'[i]) <= unread'[j].at
    <3> TAKE i, j \in 1..n - 1
    <3> HAVE i < j
    <3>1. i + 1 \in 1..n /\ j + 1 \in 1..n /\ i + 1 < j + 1
      BY <2>3
    <3>2. A(i + 1) <= unread[j + 1].at
      BY <2>1, <3>1
    <3> QED BY <2>2, <3>2
  <2>6. \A i \in 1..n - 1 : After(unread'[i]) = IF i < n - 1 THEN unread'[i + 1].at ELSE wire.laid
    <3> TAKE i \in 1..n - 1
    <3>1. i + 1 \in 1..n
      BY <2>3
    <3>2. After(unread'[i]) = IF i + 1 < n THEN unread[(i + 1) + 1].at ELSE wire.laid
      BY <2>1, <2>2, <3>1
    <3>3. i + 1 < n => i + 1 \in 1..n - 1
      BY <2>3
    <3>4. i + 1 < n => unread'[i + 1].at = unread[(i + 1) + 1].at
      BY <2>2, <3>3
    <3>5. i + 1 < n <=> i < n - 1
      BY <2>3
    <3> QED BY <3>2, <3>4, <3>5
  <2>7. \A i \in 1..n - 1 : IsWhole(unread[i + 1])
    <3> TAKE i \in 1..n - 1
    <3>1. i + 1 \in 1..n /\ i + 1 # 1
      BY <2>3
    <3> QED BY <2>1, <3>1
  <2>8. \A i \in 1..n - 1 : IsWhole(unread[i])'
    <3> TAKE i \in 1..n - 1
    <3> DEFINE u == unread[i + 1]
    <3>1. IsWhole(u)
      BY <2>7
    <3>2. unread'[i] = u
      BY <1>15 DEF n
    <3> HIDE DEF u
    <3>3. \A k \in 0..5 + u.len : IsByte(u, k, enc.buffer[RingPlace(u.at + k)])
      BY <3>1 DEF IsWhole
    <3>4. \A k \in 0..5 + u.len : IsByte(u, k, enc'.buffer[RingPlace(u.at + k)])
      BY <1>9, <3>3
    <3> QED BY <3>2, <3>4 DEF IsWhole, IsByte
  <2>9. /\ \A i \in 1..n - 1 : After(unread[i])' = After(unread'[i])
    BY DEF After
  <2> QED BY <2>3, <2>4, <2>5, <2>6, <2>8, <2>9 DEF Queued
<1>21. ASSUME Queued, Roomy PROVE Roomy'
  <2>1. First' = First
    BY <1>19, <1>21
  <2>2. Freed = First /\ Freed' = First'
    BY <1>2, <1>13 DEF Freed
  <2>3. Gap' = Gap
    BY <2>1, <2>2 DEF Gap
  <2>4. Pair(enc.regs, ERXRDPT)' = Pair(enc.regs, ERXRDPT)
    BY <1>10 DEF Pair, ERXRDPT
  <2> HIDE DEF First, Freed, Gap, Pair
  <2> QED BY <1>2, <1>8, <1>9, <1>11, <1>21, <2>1, <2>2, <2>3, <2>4 DEF Roomy
<1>22. InOrder'
  BY <1>8, <1>17, <1>20, <1>21 DEF EncInv, InOrder
<1> QED BY <1>8, <1>12, <1>16, <1>17, <1>18, <1>22 DEF EncInv

(***************************************************************************)
(* The frame sent.                                                         *)
(***************************************************************************)
LEMMA CaptureOfSent ==
  ASSUME NEW n \in Nat, n \in 1..MaxLen, TxStart + n < BufferSize, NEW i \in Nat,
         enc \in Chips, enc.regs[MACON3] = 32,
         Pair(enc.regs, ETXST) = TxStart, Pair(enc.regs, ETXND) = TxStart + n,
         \A j \in 1..n : enc.buffer[TxStart + j] = FrameBytes(i, n)[j]
  PROVE  Capture(enc) = FrameBytes(i, n) \o [k \in 1..(IF n < PadTo THEN PadTo - n ELSE 0) |-> 0]
<1> DEFINE st == Pair(enc.regs, ETXST)
           nd == Pair(enc.regs, ETXND)
           p  == FirstTxByte(st)
           all == ((nd - p) % BufferSize) + 1
           m  == IF nd < st THEN 0 ELSE IF all < MaxLen + Fcs THEN all ELSE MaxLen + Fcs
           bytes == [k \in 1..m |-> enc.buffer[(p + k - 1) % BufferSize]]
           pad   == IF enc.regs[MACON3] >= 32 /\ m < PadTo THEN [k \in 1..PadTo - m |-> 0] ELSE <<>>
<1>1. Capture(enc) = bytes \o pad
  BY DEF Capture
<1>2. TxStart \in Nat /\ BufferSize \in Nat /\ BufferSize > 0 /\ MaxLen \in Nat /\ Fcs \in Nat /\ PadTo \in Nat
  BY EncAssumption
<1>3. p = TxStart + 1
  <2>1. TxStart + 1 \in Nat /\ TxStart + 1 < BufferSize
    BY <1>2
  <2>2. (TxStart + 1) % BufferSize = TxStart + 1
    BY <1>2, <2>1, WithinTurn
  <2> QED BY <2>2 DEF FirstTxByte
<1> HIDE DEF p
<1>4. all = n
  <2>1. nd - p = n - 1 /\ n - 1 \in Nat /\ n - 1 < BufferSize
    BY <1>2, <1>3
  <2>2. (n - 1) % BufferSize = n - 1
    BY <1>2, <2>1, WithinTurn
  <2> QED BY <2>1, <2>2
<1> HIDE DEF all
<1>5. m = n
  BY <1>2, <1>4
<1> HIDE DEF m
<1>6. bytes = [k \in 1..n |-> enc.buffer[TxStart + k]]
  <2>1. \A k \in 1..n : (p + k - 1) % BufferSize = TxStart + k
    <3> TAKE k \in 1..n
    <3>1. p + k - 1 = TxStart + k /\ TxStart + k \in Nat /\ TxStart + k < BufferSize
      BY <1>2, <1>3
    <3>2. (TxStart + k) % BufferSize = TxStart + k
      BY <1>2, <3>1, WithinTurn
    <3> QED BY <3>1, <3>2
  <2> QED BY <1>5, <2>1
<1>7. bytes = FrameBytes(i, n)
  BY <1>6 DEF FrameBytes
<1>8. pad = [k \in 1..(IF n < PadTo THEN PadTo - n ELSE 0) |-> 0]
  <2>1. CASE n < PadTo
    BY <1>5, <2>1
  <2>2. CASE ~ (n < PadTo)
    BY <1>5, <2>2
  <2> QED BY <2>1, <2>2
<1> HIDE DEF bytes, pad
<1> QED BY <1>1, <1>7, <1>8

LEMMA SendKeeps ==
  ASSUME EncInv, Clock, ByteTaken, spi.byte > 0, SendingOff
  PROVE  EncInv'
<1> DEFINE f == OnByteComplete(enc, ByteNow)
<1>1. Ordering /\ ~ TakingOff
  BY DEF Ordering, Resetting, Checking, Polling, Fetching, Copying, TakingOff, SendingOff
<1>2. /\ EncTypeOK /\ InStep /\ enc \in Chips /\ spi \in Drivers /\ Done = 9 /\ Running
      /\ enc.index > 0 /\ ByteNow = Now.out[2] /\ Opcode = Now.out[1]
      /\ enc.op = Opcode - (Opcode % 32) /\ enc.addr = Opcode % 32
  BY <1>1, OrderIs DEF EncInv, Configured, SendingOff
<1>3. Now.out = <<BFS + 31, TXRTS>>
  BY TransmitTable DEF SendingOff, Now
<1>4. ByteNow = TXRTS /\ Opcode = BFS + 31
  BY <1>2, <1>3
<1>5. enc.op = BFS /\ enc.addr = 31
  BY <1>2, <1>4, CommandParts
<1>6. enc.regs[ECON1] = 4 /\ enc.regs[MACON3] = 32
  BY <1>2 DEF Running, SendingOff
<1>7. /\ SameLine(enc, f) /\ f.op = enc.op /\ f.addr = enc.addr /\ f.regs[ECON1] = 4
      /\ \A r \in Registers : r \notin {ECON1, EIR} => f.regs[r] = enc.regs[r]
      /\ f.buffer = enc.buffer /\ f.rxWr = enc.rxWr /\ f.count = enc.count + 1
      /\ f.log = [enc.log EXCEPT ![enc.count % TxLog] = Capture(enc)]
  <2> DEFINE h == OnByteComplete(enc, TXRTS)
  <2>1. /\ SameLine(enc, h) /\ h.op = enc.op /\ h.addr = enc.addr /\ h.regs[ECON1] = 4
        /\ \A r \in Registers : r \notin {ECON1, EIR} => h.regs[r] = enc.regs[r]
        /\ h.buffer = enc.buffer /\ h.rxWr = enc.rxWr /\ h.count = enc.count + 1
        /\ h.log = [enc.log EXCEPT ![enc.count % TxLog] = Capture(enc)]
    BY <1>2, <1>5, <1>6, SendByte
  <2>2. h = f
    BY <1>4
  <2> HIDE DEF h, f
  <2> QED BY <2>1, <2>2
<1>8. /\ SameMemory(f, enc')
      /\ Going /\ spi'.byte = 2 /\ EncTypeOK' /\ InStep' /\ Done' = spi.step
      /\ sent' = Append(sent, spi.len) /\ UNCHANGED <<wire, unread>>
  BY <1>1, <1>7, OrderDone
<1> HIDE DEF f
<1>9. /\ \A r \in Registers : r \notin {ECON1, EIR} => enc'.regs[r] = enc.regs[r]
      /\ enc'.regs[ECON1] = 4
      /\ enc'.buffer = enc.buffer /\ enc'.rxWr = enc.rxWr /\ enc'.count = enc.count + 1
      /\ enc'.log = [enc.log EXCEPT ![enc.count % TxLog] = Capture(enc)]
  BY <1>7, <1>8 DEF SameMemory
<1>10. SameRegs(Watched)
  <2>1. \A r \in Watched : r = ECON1 \/ (r \in Registers /\ r \notin {ECON1, EIR})
    BY WatchedNames DEF Watched, ECON1, ECON2, EPKTCNT, MACON3, EIR
  <2> QED BY <1>6, <1>9, <2>1 DEF SameRegs
<1>11. /\ spi'.doing = "transmit" /\ spi'.next = spi.next /\ spi'.step = 10 /\ Done' = 10
       /\ spi.doing = "transmit" /\ spi'.len = spi.len /\ spi'.id = spi.id
  BY <1>8 DEF Going, SendingOff
<1>12. Configured'
  <2>1. Running'
    BY <1>2, <1>10, <1>11, KeepRunning
  <2> QED BY <1>11, <2>1 DEF Configured
<1>13. ~ Giving' /\ ~ Giving
  BY <1>11 DEF Giving
<1>14. Counted'
  <2>1. Promised'
    BY <1>11 DEF Promised
  <2> QED BY <1>8, <1>10, <1>11, <1>13, <2>1, SameRegsIs DEF EncInv, Counted
<1>15. InOrder'
  <2>1. Up' /\ Up
    BY <1>11 DEF Up
  <2>2. Queued => Queued'
    BY <1>2, <1>8, <1>9, <1>13, KeepQueued DEF EncTypeOK
  <2>3. Roomy => Roomy'
    BY <1>8, <1>9, <1>10, <1>11, <1>13, KeepRoomy
  <2>4. Reading'
    BY <1>11 DEF Reading
  <2> QED BY <1>8, <2>1, <2>2, <2>3, <2>4 DEF EncInv, InOrder
<1>16. /\ spi.len \in 1..MaxLen /\ TxStart + spi.len < BufferSize /\ spi.id = Len(sent) /\ spi.len \in Nat
       /\ Reg(4) = TxStart % LowSize /\ Reg(5) = TxStart \div LowSize
       /\ Reg(6) = (TxStart + spi.len) % LowSize /\ Reg(7) = (TxStart + spi.len) \div LowSize
       /\ \A j \in 1..spi.len : enc.buffer[TxStart + j] = FrameBytes(50 + spi.id, spi.len)[j]
  <2>1. Sending /\ Copied = spi.len
    BY <1>2 DEF EncInv, SendingOff, Copied
  <2> HIDE DEF Copied
  <2> QED BY <1>2, <1>11, <2>1 DEF Sending, ETXST, ETXND
<1>17. Sending'
  <2>1. /\ Reg(4)' = Reg(4) /\ Reg(5)' = Reg(5) /\ Reg(6)' = Reg(6) /\ Reg(7)' = Reg(7)
    <3>1. \A j \in 4..7 : <<0, j>> \in Registers /\ <<0, j>> \notin {ECON1, EIR}
      BY Names DEF ECON1, EIR
    <3> QED BY <1>9, <3>1 DEF Reg
  <2>2. Copied' = spi.len
    BY <1>11 DEF Copied
  <2> HIDE DEF Copied
  <2> QED BY <1>9, <1>11, <1>16, <2>1, <2>2 DEF Sending, EWRPT, ETXST, ETXND
<1>18. Capture(enc) = FrameBytes(50 + Len(sent), spi.len)
                      \o [k \in 1..(IF spi.len < PadTo THEN PadTo - spi.len ELSE 0) |-> 0]
  <2> DEFINE i == 50 + Len(sent)
             n == spi.len
  <2>1. i \in Nat /\ n \in Nat /\ n \in 1..MaxLen /\ TxStart + n < BufferSize
    <3>1. sent \in Seq(Nat)
      BY <1>2 DEF EncTypeOK
    <3> QED BY <1>16, <3>1
  <2>2. \A j \in 1..n : enc.buffer[TxStart + j] = FrameBytes(i, n)[j]
    BY <1>16
  <2>3. TxStart \in Half /\ TxStart + n \in Half
    BY <2>1, EncAssumption DEF Half
  <2> HIDE DEF n, i
  <2>4. Pair(enc.regs, ETXST) = TxStart
    <3>1. enc.regs[<<0, ETXST>>] = TxStart % LowSize /\ enc.regs[<<0, ETXST + 1>>] = TxStart \div LowSize
      BY <1>16 DEF Reg, ETXST
    <3> QED BY <2>3, <3>1, PairHeld
  <2>5. Pair(enc.regs, ETXND) = TxStart + n
    <3>1. enc.regs[<<0, ETXND>>] = (TxStart + n) % LowSize /\ enc.regs[<<0, ETXND + 1>>] = (TxStart + n) \div LowSize
      BY <1>16 DEF Reg, ETXND, n
    <3> QED BY <2>3, <3>1, PairHeld
  <2>6. Capture(enc) = FrameBytes(i, n) \o [k \in 1..(IF n < PadTo THEN PadTo - n ELSE 0) |-> 0]
    BY <1>2, <1>6, <2>1, <2>2, <2>4, <2>5, CaptureOfSent
  <2> QED BY <2>6 DEF n, i
<1>19. Captured'
  <2> DEFINE c == Capture(enc)
             s == Len(sent)
             P(i, n) == FrameBytes(50 + i, n) \o [k \in 1..(IF n < PadTo THEN PadTo - n ELSE 0) |-> 0]
  <2>1. /\ enc.count = s /\ s \in Nat /\ sent \in Seq(Nat) /\ TxLog \in Nat \ {0}
        /\ \A i \in 0..s - 1 : i >= s - TxLog => enc.log[i % TxLog] = P(i, sent[i + 1])
    <3>1. Captured /\ sent \in Seq(Nat)
      BY <1>2 DEF EncInv, EncTypeOK
    <3>2. enc.count = s /\ \A i \in 0..s - 1 : i >= s - TxLog => Sent(i)
      BY <3>1 DEF Captured
    <3>3. \A i \in 0..s - 1 : i >= s - TxLog => enc.log[i % TxLog] = P(i, sent[i + 1])
      BY <3>2 DEF Sent
    <3> HIDE DEF P
    <3> QED BY <3>1, <3>2, <3>3, EncAssumption
  <2>2. Len(sent') = s + 1 /\ sent'[s + 1] = spi.len /\ \A i \in 0..s - 1 : sent'[i + 1] = sent[i + 1]
    BY <1>8, <1>16, <2>1
  <2>3. c = P(s, spi.len)
    BY <1>18
  <2>4. /\ enc'.count = s + 1
        /\ enc'.log = [enc.log EXCEPT ![s % TxLog] = c]
        /\ DOMAIN enc.log = 0..TxLog - 1
    <3>1. DOMAIN enc.log = 0..TxLog - 1
      BY <1>2 DEF Chips
    <3> HIDE DEF c
    <3> QED BY <1>9, <2>1, <3>1 DEF c
  <2>5. s % TxLog \in 0..TxLog - 1
    BY <2>1
  <2> HIDE DEF c, s, P
  <2>6. \A i \in 0..s : i >= (s + 1) - TxLog => enc'.log[i % TxLog] = P(i, sent'[i + 1])
    <3> TAKE i \in 0..s
    <3> HAVE i >= (s + 1) - TxLog
    <3>1. CASE i = s
      BY <2>2, <2>3, <2>4, <2>5, <3>1
    <3>2. CASE i < s
      <4>1. i \in 0..s - 1 /\ i >= s - TxLog
        BY <2>1, <3>2
      <4>2. i % TxLog # s % TxLog
        <5> DEFINE r == i % TxLog
                   d == s - i
        <5>1. i \in Int /\ d \in Int /\ i + d = s /\ d \in 1 - TxLog..TxLog - 1 /\ d # 0
          BY <2>1, <3>2
        <5>2. r \in 0..TxLog - 1
          BY <2>1, <5>1
        <5>3. (r + d) % TxLog = (i + d) % TxLog
          <6> HIDE DEF d
          <6> QED BY <2>1, <5>1, WholeTurns
        <5> HIDE DEF r, d
        <5>4. (r + d) % TxLog # r
          BY <2>1, <5>1, <5>2, PartOfTurn
        <5> QED BY <5>1, <5>3, <5>4 DEF r
      <4>3. i % TxLog \in 0..TxLog - 1
        BY <2>1, <4>1
      <4>4. enc'.log[i % TxLog] = enc.log[i % TxLog]
        BY <2>4, <4>2, <4>3
      <4> QED BY <2>1, <2>2, <4>1, <4>4
    <3> QED BY <2>1, <3>1, <3>2
  <2>7. \A i \in 0..s : i >= (s + 1) - TxLog => Sent(i)'
    BY <2>6 DEF Sent, P
  <2>8. Len(sent') - 1 = s
    BY <2>1, <2>2
  <2> QED BY <2>2, <2>4, <2>7, <2>8 DEF Captured
<1> QED BY <1>8, <1>12, <1>14, <1>15, <1>17, <1>19 DEF EncInv

LEMMA ClockKeeps ==
  ASSUME EncInv, Clock
  PROVE  EncInv'
<1>1. ~ Over /\ spi.selected /\ EncTypeOK /\ InStep /\ (BitTaken \/ ByteTaken)
  BY ClockIs DEF EncInv
<1>2. spi.byte \in Nat /\ spi.step \in Nat \ {0} /\ spi.doing \in Doings
  BY <1>1 DEF EncTypeOK, Drivers
<1>3. spi.step <= Len(Program)
  BY <1>1, <1>2 DEF Over, InStep
<1>4. CASE BitTaken
  BY <1>4, BitKeeps
<1>5. CASE ByteTaken /\ Resetting
  BY <1>5, ResetKeeps
<1>6. CASE ByteTaken /\ ~ Resetting /\ spi.byte = 0
  BY <1>6, OpcodeKeeps
<1>7. CASE ByteTaken /\ ~ Resetting /\ spi.byte > 0
  <2>1. CASE Checking \/ Polling
    BY <1>7, <2>1, RegisterKeeps
  <2>2. CASE Fetching
    BY <1>7, <2>2, FetchKeeps
  <2>3. CASE Copying
    BY <1>7, <2>3, CopyKeeps
  <2>4. CASE Ordering
    <3>1. CASE spi.doing = "setup"
      <4>1. spi.step \in 2..7 \/ spi.step \in {8, 9, 11, 12} \/ spi.step \in {10, 13} \/ spi.step = 15
        <5>1. Len(Program) = 15
          BY <3>1, SetupTable
        <5>2. spi.step # 1 /\ spi.step # 14
          BY <2>4, <3>1 DEF Ordering, Resetting, Checking
        <5> QED BY <1>2, <1>3, <5>1, <5>2
      <4> QED BY <1>7, <3>1, <4>1, SetupPointer, SetupBank, SetupSetting, SetupReceives
    <3>2. CASE spi.doing = "poll"
      <4>1. spi.step \in {1, 2}
        <5>1. Len(Program) = 3
          BY <3>2, PollTable
        <5>2. spi.step # 3
          BY <2>4, <3>2 DEF Ordering, Polling
        <5> QED BY <1>2, <1>3, <5>1, <5>2
      <4> QED BY <1>7, <3>2, <4>1, BankKeeps
    <3>3. CASE spi.doing = "receive"
      <4>1. spi.step \in {1, 2} \/ spi.step \in {3, 4}
        <5>1. Len(Program) = 5
          BY <3>3, ReceiveTable
        <5>2. spi.step # 5
          BY <2>4, <3>3 DEF Ordering, Fetching
        <5> QED BY <1>2, <1>3, <5>1, <5>2
      <4> QED BY <1>7, <3>3, <4>1, BankKeeps, ReceivePointer
    <3>4. CASE spi.doing = "release"
      <4>1. spi.step \in {1, 2} \/ TakingOff
        <5>1. Len(Program) = 3
          BY <3>4, ReleaseTable
        <5> QED BY <1>2, <1>3, <3>4, <5>1 DEF TakingOff
      <4> QED BY <1>7, <3>4, <4>1, ReleasePointer, TakeKeeps
    <3>5. CASE spi.doing = "transmit"
      <4>1. spi.step \in {1, 2} \/ spi.step \in {3, 4, 6, 7, 8, 9} \/ SendingOff
        <5>1. Len(Program) = 10
          BY <3>5, TransmitTable
        <5>2. spi.step # 5
          BY <2>4, <3>5 DEF Ordering, Copying
        <5>3. spi.step \in {1, 2} \/ spi.step \in {3, 4, 6, 7, 8, 9} \/ spi.step = 10
          BY <1>2, <1>3, <5>1, <5>2
        <5> QED BY <3>5, <5>3 DEF SendingOff
      <4> QED BY <1>7, <3>5, <4>1, BankKeeps, TransmitPointer, SendKeeps
    <3> QED BY <1>2, <3>1, <3>2, <3>3, <3>4, <3>5 DEF Doings
  <2> QED BY <1>7, <2>1, <2>2, <2>3, <2>4 DEF Ordering
<1> QED BY <1>1, <1>2, <1>4, <1>5, <1>6, <1>7

-----------------------------------------------------------------------------
(* Between the transactions.                                               *)

LEMMA BecomesRunning ==
  ASSUME EncInv, spi.doing = "setup" => Done >= 15, enc'.regs = enc.regs,
         spi'.doing \in {"poll", "receive", "transmit"}, Done' = 0
  PROVE  Running' /\ Configured'
<1>1. Reg(8)' = Reg(8) /\ Reg(9)' = Reg(9) /\ Reg(10)' = Reg(10) /\ Reg(11)' = Reg(11)
  BY DEF Reg
<1>2. /\ Holding(ERXST, RingStart) /\ Holding(ERXND, RingEnd)
      /\ enc.regs[MACON3] = 32 /\ enc.regs[ECON2] = 128 /\ enc.regs[ECON1] \in {4, 5, 6}
  <2>1. CASE spi.doing = "setup"
    <3>1. SettingUp /\ Done >= 15 /\ Done \in Nat
      BY <2>1, DoneIs DEF EncInv, Configured
    <3> QED BY <3>1 DEF SettingUp, Holding, ERXST, ERXND
  <2>2. CASE spi.doing # "setup"
    BY <2>2 DEF EncInv, Configured, Running
  <2> QED BY <2>1, <2>2
<1>3. Running'
  BY <1>1, <1>2 DEF Running, Holding, ERXST, ERXND
<1> QED BY <1>3 DEF Configured

LEMMA IdleRoomy ==
  ASSUME Roomy, UNCHANGED <<unread, wire>>, spi'.next = spi.next, enc'.regs = enc.regs, enc'.rxWr = enc.rxWr,
         ~ Giving, ~ Giving', ~ (spi.doing = "release" /\ Done = 1), ~ (spi'.doing = "release" /\ Done' = 1)
  PROVE  Roomy'
<1>1. First' = First
  BY DEF First
<1>2. Freed' = Freed
  BY <1>1 DEF Freed
<1>3. Gap' = Gap
  BY <1>2 DEF Gap
<1>4. Pair(enc.regs, ERXRDPT)' = Pair(enc.regs, ERXRDPT)
  BY DEF Pair
<1> HIDE DEF Gap, Freed, First, Pair
<1> QED BY <1>1, <1>2, <1>3, <1>4 DEF Roomy

LEMMA IdleIs ==
  ASSUME EncTypeOK, InStep, Over
  PROVE  /\ ~ spi.selected /\ enc.lastCs = 1 /\ Done = Len(Program) /\ ~ Giving
         /\ ~ (spi.doing = "release" /\ Done = 1)
         /\ spi.doing = "setup" => Done >= 15
<1>1. ~ spi.selected /\ enc.lastCs = 1
  BY DEF InStep
<1>2. spi.step \in Nat
  BY DEF EncTypeOK, Drivers
<1>3. spi.step = Len(Program) + 1
  <2>1. Len(Program) \in Nat
    <3>1. spi.doing \in Doings
      BY DEF EncTypeOK, Drivers
    <3> QED BY <3>1, SetupTable, PollTable, ReceiveTable, ReleaseTable, TransmitTable DEF Doings
  <2> QED BY <1>2, <2>1 DEF InStep, Over
<1>4. Done = Len(Program)
  <2>1. Done = spi.step - 1
    BY <1>1 DEF Done
  <2>2. Len(Program) \in Int
    <3>1. spi.doing \in Doings
      BY DEF EncTypeOK, Drivers
    <3> QED BY <3>1, SetupTable, PollTable, ReceiveTable, ReleaseTable, TransmitTable DEF Doings
  <2> QED BY <1>3, <2>1, <2>2
<1>5. spi.doing = "release" => Done = 3
  BY <1>4, ReleaseTable
<1>6. spi.doing = "setup" => Done = 15
  BY <1>4, SetupTable
<1>7. ~ Giving
  BY <1>5 DEF Giving
<1>8. ~ (spi.doing = "release" /\ Done = 1)
  BY <1>5
<1>9. spi.doing = "setup" => Done >= 15
  BY <1>6
<1> QED BY <1>1, <1>4, <1>7, <1>8, <1>9

(* The driver, done, begins a poll or a transmission.                      *)
LEMMA StartKeeps ==
  ASSUME EncInv, Over, NEW d \in {"poll", "transmit"}, NEW i \in Nat, NEW n \in Nat,
         spi' = [spi EXCEPT !.doing = d, !.step = 1, !.id = i, !.len = n],
         d = "transmit" => i = Len(sent) /\ n \in 1..MaxLen /\ TxStart + n < BufferSize,
         UNCHANGED <<enc, wire, unread, sent>>
  PROVE  EncInv'
<1>1. EncTypeOK /\ InStep /\ spi \in Drivers
  BY DEF EncInv, EncTypeOK
<1>2. /\ ~ spi.selected /\ enc.lastCs = 1 /\ ~ Giving
      /\ ~ (spi.doing = "release" /\ Done = 1)
      /\ spi.doing = "setup" => Done >= 15
  BY <1>1, IdleIs
<1>3. /\ spi' \in Drivers /\ spi'.doing = d /\ spi'.step = 1 /\ spi'.id = i /\ spi'.len = n
      /\ spi'.next = spi.next /\ ~ spi'.selected
  <2>1. spi' \in Drivers
    <3>1. d \in Doings /\ 1 \in Nat \ {0}
      BY DEF Doings
    <3> QED BY <1>1, <3>1 DEF Drivers
  <2>2. /\ spi'.doing = d /\ spi'.step = 1 /\ spi'.id = i /\ spi'.len = n
        /\ spi'.next = spi.next /\ spi'.selected = spi.selected
    BY <1>1 DEF Drivers
  <2> QED BY <1>2, <2>1, <2>2
<1>4. Done' = 0
  BY <1>3 DEF Done
<1>5. EncTypeOK'
  BY <1>1, <1>3 DEF EncTypeOK
<1>6. Len(Program)' \in Nat
  <2>1. d = "poll" => Program' = Poll
    BY <1>3 DEF Program
  <2>2. d = "transmit" => Program' = Transmit(i, n)
    BY <1>3 DEF Program
  <2>3. Len(Poll) = 3 /\ Len(Transmit(i, n)) = 10
    BY DEF Poll, Transmit
  <2> QED BY <2>1, <2>2, <2>3
<1>7. InStep'
  BY <1>2, <1>3, <1>6 DEF InStep
<1>8. Configured'
  BY <1>2, <1>3, <1>4, BecomesRunning
<1>9. ~ Giving' /\ Promised'
  BY <1>3 DEF Giving, Promised
<1>10. Counted'
  BY <1>3, <1>9 DEF EncInv, Counted
<1>11. Up' /\ Up /\ Reading'
  BY <1>2, <1>3 DEF Up, Reading
<1>12. Queued => Queued'
  BY <1>1, <1>2, <1>9, KeepQueued DEF EncTypeOK
<1>13. Roomy => Roomy'
  BY <1>2, <1>3, <1>4, <1>9, IdleRoomy
<1>14. InOrder'
  BY <1>11, <1>12, <1>13 DEF EncInv, InOrder
<1>15. Sending'
  <2>1. Copied' = 0
    BY <1>3 DEF Copied
  <2> QED BY <1>3, <1>4, <2>1 DEF Sending
<1>16. Captured'
  BY KeepCaptured DEF EncInv
<1> QED BY <1>5, <1>7, <1>8, <1>10, <1>14, <1>15, <1>16 DEF EncInv

LEMMA ResetsKeep ==
  ASSUME EncInv, EncCpuReset
  PROVE  EncInv'
<1>1. EncTypeOK /\ enc \in Chips /\ spi \in Drivers /\ wire.restarts > 0
      /\ wire \in [injected : Nat, restarts : Nat, laid : Nat, torn : BOOLEAN]
  BY DEF EncInv, EncTypeOK, EncCpuReset
<1>2. /\ wire' = [wire EXCEPT !.restarts = @ - 1] /\ enc' = [enc EXCEPT !.lastCs = 1]
      /\ spi' = Booted /\ UNCHANGED <<unread, sent>>
  BY DEF EncCpuReset
<1>3. /\ enc' \in Chips /\ enc'.lastCs = 1 /\ enc'.regs = enc.regs /\ enc'.count = enc.count /\ enc'.log = enc.log
  BY <1>1, <1>2 DEF Chips
<1>4. /\ spi' \in Drivers /\ spi'.doing = "setup" /\ spi'.step = 1 /\ ~ spi'.selected /\ spi'.next = RingStart
  BY <1>2, EncAssumption DEF Booted, Drivers, Doings
<1>5. wire' \in [injected : Nat, restarts : Nat, laid : Nat, torn : BOOLEAN]
  BY <1>1, <1>2
<1>6. EncTypeOK'
  BY <1>1, <1>2, <1>3, <1>4, <1>5 DEF EncTypeOK
<1>7. Done' = 0
  BY <1>4 DEF Done
<1>8. InStep'
  <2>1. Program' = Setup /\ Len(Setup) = 15
    BY <1>4 DEF Program, Setup
  <2> QED BY <1>3, <1>4, <2>1 DEF InStep
<1>9. Configured'
  BY <1>4, <1>7 DEF Configured, SettingUp
<1>10. Counted'
  BY <1>2, <1>3, <1>4 DEF EncInv, Counted, Promised, Giving
<1>11. InOrder'
  BY <1>4, <1>7 DEF InOrder, Up
<1>12. Sending'
  BY <1>4 DEF Sending
<1>13. Captured'
  BY <1>2, <1>3, KeepCaptured DEF EncInv
<1> QED BY <1>6, <1>8, <1>9, <1>10, <1>11, <1>12, <1>13 DEF EncInv

LEMMA SelectKeeps ==
  ASSUME EncInv, Select
  PROVE  EncInv'
<1>1. EncTypeOK /\ InStep /\ enc \in Chips /\ spi \in Drivers /\ ~ Over /\ ~ spi.selected /\ enc.lastCs = 1
  BY DEF EncInv, EncTypeOK, Select, InStep
<1>2. /\ enc' = [enc EXCEPT !.lastCs = 0, !.shift = <<>>, !.index = 0, !.dummy = FALSE]
      /\ spi' = [spi EXCEPT !.selected = TRUE, !.bit = 0, !.byte = 0, !.got = <<>>]
      /\ UNCHANGED <<wire, unread, sent>>
  BY <1>1 DEF Select, OnCsFalling
<1>3. /\ enc' \in Chips /\ enc'.index = 0 /\ enc'.shift = <<>> /\ enc'.out = enc.out
      /\ enc'.regs = enc.regs /\ enc'.buffer = enc.buffer /\ enc'.rxWr = enc.rxWr
      /\ enc'.count = enc.count /\ enc'.log = enc.log
  <2>1. <<>> \in Seq(Int \X Int)
    OBVIOUS
  <2> QED BY <1>1, <1>2, <2>1 DEF Chips
<1>4. /\ spi' \in Drivers /\ spi'.bit = 0 /\ spi'.byte = 0 /\ spi'.got = <<>> /\ spi'.selected
      /\ spi'.doing = spi.doing /\ spi'.step = spi.step /\ spi'.next = spi.next
      /\ spi'.id = spi.id /\ spi'.len = spi.len
  <2>1. <<>> \in Seq(Int)
    OBVIOUS
  <2> QED BY <1>1, <1>2, <2>1 DEF Drivers
<1>5. Now' = Now /\ Program' = Program /\ Over' = Over
  BY <1>4, SameNow
<1>6. Done' = Done /\ Done = spi.step - 1
  <2>1. Len(Now.out) >= 1
    <3>1. spi.len \in Nat
      BY <1>1 DEF Drivers
    <3>2. Len(Now.out) = IF Ordering THEN 2 ELSE IF Copying THEN 2 + spi.len ELSE 1
      BY <1>1, Shape
    <3> QED BY <3>1, <3>2
  <2>2. ~ (spi'.byte >= Len(Now.out))
    <3> DEFINE l == Len(Now.out)
    <3>1. l \in Int
      <4>1. spi.len \in Nat
        BY <1>1 DEF Drivers
      <4>2. Len(Now.out) = IF Ordering THEN 2 ELSE IF Copying THEN 2 + spi.len ELSE 1
        BY <1>1, Shape
      <4> QED BY <4>1, <4>2
    <3> HIDE DEF l
    <3> QED BY <1>4, <2>1, <3>1 DEF l
  <2>3. Done' = spi'.step - 1
    BY <1>4, <1>5, <2>2 DEF Done
  <2> QED BY <1>1, <1>4, <2>3 DEF Done
<1>7. EncTypeOK'
  BY <1>1, <1>2, <1>3, <1>4 DEF EncTypeOK
<1>8. InStep'
  <2>1. enc'.shift = [k \in 1..0 |-> <<ByteNow', k>>]
    BY <1>3
  <2>2. 0 < BitsPerByte /\ Len(<<>>) = 0
    BY EncAssumption
  <2>3. ~ (spi'.byte > 0) /\ spi'.bit < BitsPerByte /\ enc'.index = spi'.byte
        /\ enc'.shift = [k \in 1..spi'.bit |-> <<ByteNow', k>>] /\ Len(spi'.got) = spi'.byte
    BY <1>3, <1>4, <2>1, <2>2
  <2>4. spi'.step <= Len(Program') + 1 /\ ~ Over'
    BY <1>1, <1>4, <1>5 DEF InStep
  <2> QED BY <1>4, <2>3, <2>4 DEF InStep
<1>9. SameRegs(Watched) /\ UNCHANGED <<wire, unread, sent>>
  BY <1>2, <1>3 DEF SameRegs
<1>10. Configured'
  BY <1>3, <1>4, <1>6, <1>9, KeepSettingUp, KeepRunning DEF EncInv, Configured
<1>11. Giving' <=> Giving
  BY <1>4, <1>6 DEF Giving
<1>12. Counted'
  <2>1. Promised'
    BY <1>4 DEF Promised
  <2> QED BY <1>3, <1>4, <1>9, <1>11, <2>1 DEF EncInv, Counted
<1>13. InOrder'
  <2>1. Up' <=> Up
    BY <1>4, <1>6 DEF Up
  <2>2. Queued => Queued'
    BY <1>1, <1>3, <1>9, <1>11, KeepQueued DEF EncTypeOK
  <2>3. Roomy => Roomy'
    BY <1>3, <1>4, <1>6, <1>9, <1>11, KeepRoomy
  <2>4. Reading => Reading'
    BY <1>1, <1>3, <1>4, <1>6, <1>9 DEF Reading, Reg, Pair
  <2> QED BY <1>9, <2>1, <2>2, <2>3, <2>4 DEF EncInv, InOrder
<1>14. Sending'
  <2>1. Copied' = Copied
    BY <1>1, <1>4 DEF Copied
  <2>2. Sending
    BY DEF EncInv
  <2> HIDE DEF Copied
  <2> QED BY <1>1, <1>3, <1>4, <1>6, <1>9, <2>1, <2>2 DEF Sending, Reg, Pair
<1>15. Captured'
  BY <1>3, <1>9, KeepCaptured DEF EncInv
<1> QED BY <1>7, <1>8, <1>10, <1>12, <1>13, <1>14, <1>15 DEF EncInv

(* A transaction ends.                                                     *)
LEMMA EndIs ==
  ASSUME EncInv, Deselect
  PROVE  /\ EncTypeOK /\ InStep /\ enc \in Chips /\ spi \in Drivers /\ ~ Over /\ spi.selected
         /\ spi.byte = Wanted /\ Done = spi.step /\ spi.step <= Len(Program) /\ spi.byte \in Nat
         /\ enc' \in Chips /\ enc'.lastCs = 1 /\ enc'.regs = enc.regs /\ enc'.buffer = enc.buffer
         /\ enc'.rxWr = enc.rxWr /\ enc'.count = enc.count /\ enc'.log = enc.log /\ enc'.out = enc.out
         /\ UNCHANGED <<wire, unread, sent>>
         /\ (Now.for = "poll" <=> Polling) /\ (Now.for = "packet" <=> Fetching)
<1>1. EncTypeOK /\ InStep /\ enc \in Chips /\ spi \in Drivers /\ spi.selected /\ spi.byte = Wanted
  BY DEF EncInv, EncTypeOK, Deselect
<1>2. ~ Over
  BY <1>1 DEF InStep
<1>3. enc' = [enc EXCEPT !.lastCs = 1] /\ UNCHANGED <<wire, unread, sent>>
  BY DEF Deselect
<1>4. /\ enc' \in Chips /\ enc'.lastCs = 1 /\ enc'.regs = enc.regs /\ enc'.buffer = enc.buffer
      /\ enc'.rxWr = enc.rxWr /\ enc'.count = enc.count /\ enc'.log = enc.log /\ enc'.out = enc.out
  BY <1>1, <1>3 DEF Chips
<1>5. spi.byte \in Nat /\ spi.step \in Nat /\ spi.len \in Nat /\ spi.doing \in Doings
  BY <1>1 DEF Drivers
<1>6. spi.step <= Len(Program)
  <2>1. Len(Program) \in Nat
    BY <1>5, SetupTable, PollTable, ReceiveTable, ReleaseTable, TransmitTable DEF Doings
  <2> QED BY <1>2, <1>5, <2>1 DEF Over
<1>7. (Now.for = "poll" <=> Polling) /\ (Now.for = "packet" <=> Fetching)
  <2>1. CASE Ordering
    BY <1>1, <1>2, <2>1, Orders DEF Ordering
  <2>2. CASE ~ Ordering
    BY <1>1, <1>2, <2>2, Orders, Apart DEF Ordering
  <2> QED BY <2>1, <2>2
<1>8. Done = spi.step
  <2> DEFINE l == Len(Now.out)
  <2>1. l = IF Ordering THEN 2 ELSE IF Copying THEN 2 + spi.len ELSE 1
    BY <1>1, <1>2, Shape
  <2>2. Wanted >= l
    <3>1. Wanted = IF Ordering THEN 2 ELSE IF Copying THEN 2 + spi.len
                   ELSE IF Resetting THEN 1 ELSE IF Checking THEN 3 ELSE IF Polling THEN 2
                   ELSE 1 + (IF Len(spi.got) >= 7 THEN 6 + spi.got[4] + LowSize * spi.got[5] ELSE 6)
      BY <1>1, <1>2, Shape
    <3>2. CASE ~ Ordering /\ ~ Copying /\ ~ Resetting /\ ~ Checking /\ ~ Polling
      <4>1. l = 1
        BY <2>1, <3>2
      <4>2. Fetching
        BY <3>2 DEF Ordering
      <4>3. spi.byte > 0
        <5>1. Len(spi.got) = spi.byte
          BY <1>1 DEF InStep
        <5>2. spi.byte # 0
          <6>1. SUFFICES ASSUME spi.byte = 0 PROVE FALSE
            OBVIOUS
          <6> DEFINE w == 6 + spi.got[4] + LowSize * spi.got[5]
                     g == Len(spi.got)
          <6>3. Wanted = 1 + (IF g >= 7 THEN w ELSE 6)
            BY <3>1, <3>2, Zenon
          <6>4. g = 0
            BY <5>1, <6>1
          <6> HIDE DEF w, g
          <6>2. Wanted = 1 + 6
            BY <6>3, <6>4
          <6>5. spi.byte = 1 + 6
            BY <1>1, <6>2, Zenon
          <6> QED BY <6>1, <6>5
        <5> QED BY <1>5, <5>2
      <4> HIDE DEF l
      <4> QED BY <1>1, <1>5, <4>1, <4>3
    <3>3. CASE ~ (~ Ordering /\ ~ Copying /\ ~ Resetting /\ ~ Checking /\ ~ Polling)
      <4> HIDE DEF l
      <4> QED BY <1>5, <2>1, <3>1, <3>3
    <3> QED BY <3>2, <3>3
  <2>3. spi.byte >= l
    BY <1>1, <2>2
  <2> QED BY <1>1, <2>3 DEF Done
<1> QED BY <1>1, <1>2, <1>3, <1>4, <1>5, <1>6, <1>7, <1>8

LEMMA DeselectIs ==
  ASSUME EncInv, Deselect
  PROVE  LET done == [spi EXCEPT !.selected = FALSE, !.step = spi.step + 1]
         IN  /\ Polling /\ spi.got[2] > 0 => spi' = [done EXCEPT !.doing = "receive", !.step = 1]
             /\ Fetching => spi' = [done EXCEPT !.doing = "release", !.step = 1,
                                                !.next = spi.got[2] + LowSize * spi.got[3]]
             /\ ~ Fetching /\ ~ (Polling /\ spi.got[2] > 0) => spi' = done
<1> DEFINE done == [spi EXCEPT !.selected = FALSE, !.step = spi.step + 1]
           one == [done EXCEPT !.doing = "receive", !.step = 1]
           two == [done EXCEPT !.doing = "release", !.step = 1, !.next = spi.got[2] + LowSize * spi.got[3]]
           some == spi.got[2] > 0
<1>1. (Now.for = "poll" <=> Polling) /\ (Now.for = "packet" <=> Fetching)
  BY EndIs
<1>2. spi' = CASE Now.for = "poll" /\ some -> one
               [] Now.for = "packet" -> two
               [] OTHER -> done
  BY DEF Deselect
<1>3. Polling => ~ Fetching
  BY Apart
<1> HIDE DEF done, one, two, some
<1>4. /\ Polling /\ some => spi' = one
      /\ Fetching => spi' = two
      /\ ~ Fetching /\ ~ (Polling /\ some) => spi' = done
  BY <1>1, <1>2, <1>3
<1> QED BY <1>4 DEF done, one, two, some

(* The transaction ends and the next of the same program follows.          *)
LEMMA EndKeeps ==
  ASSUME EncInv, Deselect, ~ Fetching, ~ (Polling /\ spi.got[2] > 0)
  PROVE  EncInv'
<1>1. /\ EncTypeOK /\ InStep /\ enc \in Chips /\ spi \in Drivers /\ ~ Over /\ spi.selected
      /\ spi.byte = Wanted /\ Done = spi.step /\ spi.step <= Len(Program) /\ spi.byte \in Nat
      /\ enc' \in Chips /\ enc'.lastCs = 1 /\ enc'.regs = enc.regs /\ enc'.buffer = enc.buffer
      /\ enc'.rxWr = enc.rxWr /\ enc'.count = enc.count /\ enc'.log = enc.log
      /\ UNCHANGED <<wire, unread, sent>>
  BY EndIs
<1>2. spi' = [spi EXCEPT !.selected = FALSE, !.step = spi.step + 1]
  BY DeselectIs
<1>3. /\ spi' \in Drivers /\ spi'.step = spi.step + 1 /\ spi'.selected = FALSE
      /\ spi'.doing = spi.doing /\ spi'.next = spi.next /\ spi'.id = spi.id /\ spi'.len = spi.len
  <2>1. spi.step + 1 \in Nat \ {0}
    BY <1>1 DEF Drivers
  <2> QED BY <1>1, <1>2, <2>1 DEF Drivers
<1>4. Program' = Program
  BY <1>3, SameProgram
<1>5. spi.step \in Nat \ {0} /\ spi.doing \in Doings /\ spi.len \in Nat
  BY <1>1 DEF Drivers
<1>6. Done' = Done
  <2>1. Done' = spi'.step - 1
    BY <1>3 DEF Done
  <2> QED BY <1>1, <1>3, <1>5, <2>1
<1>7. EncTypeOK'
  BY <1>1, <1>3 DEF EncTypeOK
<1>8. InStep'
  <2>1. Len(Program) \in Int
    BY <1>5, SetupTable, PollTable, ReceiveTable, ReleaseTable, TransmitTable DEF Doings
  <2>2. spi'.step <= Len(Program') + 1
    BY <1>1, <1>3, <1>4, <1>5, <2>1
  <2> QED BY <1>1, <1>3, <2>2 DEF InStep
<1>9. SameRegs(Watched)
  BY <1>1 DEF SameRegs
<1>10. Configured'
  BY <1>1, <1>3, <1>6, <1>9, KeepSettingUp, KeepRunning DEF EncInv, Configured
<1>11. Giving' <=> Giving
  BY <1>3, <1>6 DEF Giving
<1>12. Counted'
  <2>1. Promised'
    BY <1>3 DEF Promised
  <2> QED BY <1>1, <1>3, <1>11, <2>1 DEF EncInv, Counted
<1>13. InOrder'
  <2>1. Up' <=> Up
    BY <1>3, <1>6 DEF Up
  <2>2. Queued => Queued'
    BY <1>1, <1>11, KeepQueued DEF EncTypeOK
  <2>3. Roomy => Roomy'
    BY <1>1, <1>3, <1>6, <1>9, <1>11, KeepRoomy
  <2>4. Reading => Reading'
    <3>1. spi.doing = "receive" => spi.step # 5
      BY DEF Fetching
    <3>2. Pair(enc.regs, ERDPT)' = Pair(enc.regs, ERDPT) /\ Reg(ERDPT)' = Reg(ERDPT)
      BY <1>1 DEF Pair, Reg
    <3> HIDE DEF Pair, Reg, Done
    <3> QED BY <1>3, <1>6, <3>1, <3>2 DEF Reading
  <2> QED BY <1>1, <2>1, <2>2, <2>3, <2>4 DEF EncInv, InOrder
<1>14. Sending'
  <2> SUFFICES ASSUME spi.doing = "transmit" PROVE Sending'
    BY <1>3 DEF Sending
  <2>1. spi.step = 5 => spi.byte = 2 + spi.len
    <3>1. spi.step = 5 => Copying /\ ~ Ordering
      BY DEF Copying, Ordering
    <3> QED BY <1>1, <3>1, Shape
  <2>2. Copied' = Copied
    <3>1. CASE spi.step < 5
      BY <1>3, <1>5, <3>1 DEF Copied
    <3>2. CASE spi.step = 5
      BY <1>1, <1>3, <1>5, <2>1, <3>2 DEF Copied
    <3>3. CASE spi.step > 5
      BY <1>3, <1>5, <3>3 DEF Copied
    <3> QED BY <1>5, <3>1, <3>2, <3>3
  <2>3. Sending
    BY DEF EncInv
  <2>4. Pair(enc.regs, EWRPT)' = Pair(enc.regs, EWRPT) /\ \A a : Reg(a)' = Reg(a)
    BY <1>1 DEF Pair, Reg
  <2>5. Done >= 4 /\ spi'.step <= 5 =>
          Pair(enc.regs, EWRPT) = (TxStart + 0) % BufferSize
    <3>1. SUFFICES ASSUME Done >= 4, spi'.step <= 5 PROVE Pair(enc.regs, EWRPT) = (TxStart + 0) % BufferSize
      OBVIOUS
    <3>2. spi.step <= 5 /\ spi.step # 5
      BY <1>3, <1>5, <3>1
    <3> HIDE DEF Copied, Pair, Reg, Done
    <3> QED BY <2>3, <3>1, <3>2 DEF Sending
  <2> HIDE DEF Copied, Pair, Reg, Done
  <2> QED BY <1>1, <1>3, <1>6, <2>2, <2>3, <2>4, <2>5 DEF Sending
<1>15. Captured'
  BY <1>1, KeepCaptured DEF EncInv
<1> QED BY <1>7, <1>8, <1>10, <1>12, <1>13, <1>14, <1>15 DEF EncInv

(* The poll has found a packet.                                            *)
LEMMA FoundKeeps ==
  ASSUME EncInv, Deselect, Polling, spi.got[2] > 0
  PROVE  EncInv'
<1>1. /\ EncTypeOK /\ InStep /\ enc \in Chips /\ spi \in Drivers /\ ~ Over /\ spi.selected
      /\ spi.byte = Wanted
      /\ enc' \in Chips /\ enc'.lastCs = 1 /\ enc'.regs = enc.regs /\ enc'.buffer = enc.buffer
      /\ enc'.rxWr = enc.rxWr /\ enc'.count = enc.count /\ enc'.log = enc.log
      /\ UNCHANGED <<wire, unread, sent>>
  BY EndIs
<1>2. spi' = [[spi EXCEPT !.selected = FALSE, !.step = spi.step + 1] EXCEPT !.doing = "receive", !.step = 1]
  BY DeselectIs
<1>3. /\ spi' \in Drivers /\ spi'.step = 1 /\ spi'.selected = FALSE
      /\ spi'.doing = "receive" /\ spi'.next = spi.next /\ spi.doing = "poll" /\ spi.step = 3
  <2>1. "receive" \in Doings /\ 1 \in Nat \ {0} /\ spi.step + 1 \in Nat \ {0}
    BY <1>1 DEF Drivers, Doings
  <2> QED BY <1>1, <1>2, <2>1 DEF Drivers, Polling
<1>4. Done' = 0
  BY <1>3 DEF Done
<1>5. EncTypeOK'
  BY <1>1, <1>3 DEF EncTypeOK
<1>6. InStep'
  <2>1. Program' = Receive(spi'.next)
    BY <1>3 DEF Program
  <2>2. Len(Receive(spi'.next)) = 5
    BY DEF Receive
  <2> QED BY <1>1, <1>3, <2>1, <2>2 DEF InStep
<1>7. Configured'
  BY <1>1, <1>3, <1>4, BecomesRunning
<1>8. ~ Giving /\ ~ Giving' /\ Up /\ Up' /\ Promised'
  BY <1>3 DEF Giving, Up, Promised
<1>9. Counted'
  <2>1. spi.byte = 2
    <3>1. ~ Ordering /\ ~ Copying /\ ~ Resetting /\ ~ Checking
      BY Apart DEF Ordering
    <3> QED BY <1>1, <3>1, Shape
  <2>2. enc.regs[EPKTCNT] \in 0..Len(unread) /\ Promised
    BY DEF EncInv, Counted
  <2>3. spi.got[2] <= enc.regs[EPKTCNT]
    BY <1>1, <1>3, <2>1, <2>2 DEF Promised
  <2>4. spi.got[2] \in Int
    <3>1. spi.got \in Seq(Int) /\ Len(spi.got) = spi.byte
      BY <1>1 DEF Drivers, InStep
    <3> QED BY <2>1, <3>1
  <2>5. enc.regs[EPKTCNT] > 0
    <3> DEFINE x == spi.got[2]
               c == enc.regs[EPKTCNT]
               n == Len(unread)
    <3>1. x > 0 /\ x <= c /\ x \in Int /\ c \in 0..n
      BY <2>2, <2>3, <2>4
    <3>2. n \in Nat
      BY <1>1 DEF EncTypeOK
    <3> HIDE DEF x, c, n
    <3>3. c > 0
      BY <3>1, <3>2
    <3> QED BY <3>3 DEF c
  <2> QED BY <1>1, <1>8, <2>2, <2>5 DEF Counted
<1>10. InOrder'
  <2>1. Queued => Queued'
    BY <1>1, <1>8, KeepQueued DEF EncTypeOK
  <2>2. Roomy => Roomy'
    BY <1>1, <1>3, <1>8, IdleRoomy
  <2>3. Reading'
    BY <1>3, <1>4 DEF Reading
  <2> QED BY <1>1, <1>8, <2>1, <2>2, <2>3 DEF EncInv, InOrder
<1>11. Sending'
  BY <1>3 DEF Sending
<1>12. Captured'
  BY <1>1, KeepCaptured DEF EncInv
<1> QED BY <1>5, <1>6, <1>7, <1>9, <1>10, <1>11, <1>12 DEF EncInv

(* The packet has been read: its header tells where the next one starts.   *)
LEMMA FetchedHeader ==
  ASSUME EncInv, Deselect, Fetching
  PROVE  /\ spi.byte >= 7 /\ Len(unread) > 0 /\ unread[1] \in Frames
         /\ spi.got[2] \in Int /\ spi.got[3] \in Int
         /\ Reading => spi.got[2] + LowSize * spi.got[3] = RingPlace(After(unread[1]))
<1>1. /\ EncTypeOK /\ InStep /\ spi \in Drivers /\ ~ Over /\ spi.selected
      /\ spi.byte = Wanted /\ spi.byte \in Nat
  BY EndIs
<1>2. spi.got \in Seq(Int) /\ Len(spi.got) = spi.byte
  BY <1>1 DEF Drivers, InStep
<1>3. spi.byte >= 7
  <2>1. SUFFICES ASSUME ~ (spi.byte >= 7) PROVE FALSE
    OBVIOUS
  <2> DEFINE w == 6 + spi.got[4] + LowSize * spi.got[5]
             g == Len(spi.got)
  <2>2. Wanted = 1 + (IF g >= 7 THEN w ELSE 6)
    <3>1. ~ Ordering /\ ~ Copying /\ ~ Resetting /\ ~ Checking /\ ~ Polling
      BY Apart DEF Ordering
    <3> QED BY <1>1, <3>1, Shape
  <2>3. g = spi.byte
    BY <1>2
  <2> HIDE DEF w, g
  <2>4. Wanted = 1 + 6
    BY <2>1, <2>2, <2>3
  <2> QED BY <1>1, <2>1, <2>4
<1>4. Len(unread) > 0
  <2>1. spi.doing = "receive"
    BY DEF Fetching
  <2>2. enc.regs[EPKTCNT] \in 0..Len(unread) /\ enc.regs[EPKTCNT] > 0
    BY <2>1 DEF EncInv, Counted
  <2> QED BY <2>2
<1>5. unread \in Seq(Frames)
  BY <1>1 DEF EncTypeOK
<1>6. unread[1] \in Frames
  BY <1>4, <1>5
<1>7. spi.got[2] \in Int /\ spi.got[3] \in Int
  <2>1. 2 \in 1..Len(spi.got) /\ 3 \in 1..Len(spi.got)
    <3> DEFINE g == Len(spi.got)
    <3>1. g >= 7 /\ g \in Nat
      BY <1>1, <1>2, <1>3
    <3> HIDE DEF g
    <3> QED BY <3>1 DEF g
  <2> QED BY <1>2, <2>1
<1>8. ASSUME Reading PROVE spi.got[2] + LowSize * spi.got[3] = RingPlace(After(unread[1]))
  <2>1. spi.doing = "receive" /\ spi.step = 5 /\ spi.byte > 0
    BY <1>1, <1>3 DEF Fetching
  <2>2. \A k \in 2..spi.byte : IsByte(unread[1], k - 2, spi.got[k])
    BY <1>1, <1>8, <2>1 DEF Reading
  <2>3. IsByte(unread[1], 2 - 2, spi.got[2]) /\ IsByte(unread[1], 3 - 2, spi.got[3])
    <3>1. 2 \in 2..spi.byte /\ 3 \in 2..spi.byte
      BY <1>1, <1>3
    <3> QED BY <2>2, <3>1
  <2> DEFINE p == RingPlace(After(unread[1]))
  <2>4. spi.got[2] = p % LowSize /\ spi.got[3] = p \div LowSize
    <3>1. IsByte(unread[1], 0, spi.got[2]) /\ IsByte(unread[1], 1, spi.got[3])
      BY <2>3
    <3> QED BY <3>1 DEF IsByte
  <2>5. p \in Nat
    <3>1. unread[1].at \in Nat /\ unread[1].len \in Nat
      BY <1>6 DEF Frames
    <3>2. Need(unread[1].len) \in Nat
      BY <3>1, NeedIs
    <3>3. After(unread[1]) \in Nat
      BY <3>1, <3>2 DEF After
    <3>4. RingPlace(After(unread[1])) \in Half
      BY <3>3, RingInRange
    <3> QED BY <3>4 DEF Half
  <2> HIDE DEF p
  <2>6. p = LowSize * (p \div LowSize) + (p % LowSize)
    BY <2>5, EncAssumption, Division
  <2>7. (p % LowSize) + LowSize * (p \div LowSize) = p
    <3>1. p % LowSize \in Int /\ p \div LowSize \in Int /\ LowSize \in Int
      BY <2>5, EncAssumption, Division
    <3> DEFINE m == LowSize * (p \div LowSize)
               r == p % LowSize
    <3>2. m \in Int
      BY <3>1
    <3>3. p = m + r /\ r \in Int
      BY <2>6, <3>1
    <3> HIDE DEF m, r
    <3>4. r + m = p
      BY <3>2, <3>3
    <3> QED BY <3>4 DEF m, r
  <2> QED BY <2>4, <2>7 DEF p
<1> QED BY <1>3, <1>4, <1>6, <1>7, <1>8

LEMMA FetchedKeeps ==
  ASSUME EncInv, Deselect, Fetching
  PROVE  EncInv'
<1>1. /\ EncTypeOK /\ InStep /\ enc \in Chips /\ spi \in Drivers /\ ~ Over /\ spi.selected
      /\ Done = spi.step
      /\ enc' \in Chips /\ enc'.lastCs = 1 /\ enc'.regs = enc.regs /\ enc'.buffer = enc.buffer
      /\ enc'.rxWr = enc.rxWr /\ enc'.count = enc.count /\ enc'.log = enc.log
      /\ UNCHANGED <<wire, unread, sent>>
  BY EndIs
<1> DEFINE next == spi.got[2] + LowSize * spi.got[3]
<1>2. spi' = [[spi EXCEPT !.selected = FALSE, !.step = spi.step + 1] EXCEPT
                !.doing = "release", !.step = 1, !.next = next]
  BY DeselectIs
<1>3. /\ Len(unread) > 0 /\ unread[1] \in Frames /\ next \in Int
      /\ Reading => next = RingPlace(After(unread[1]))
  <2>1. spi.got[2] \in Int /\ spi.got[3] \in Int /\ LowSize \in Int
    BY FetchedHeader, EncAssumption
  <2>2. next \in Int
    BY <2>1
  <2> QED BY <2>2, FetchedHeader
<1> HIDE DEF next
<1>4. /\ spi' \in Drivers /\ spi'.step = 1 /\ spi'.selected = FALSE
      /\ spi'.doing = "release" /\ spi'.next = next /\ spi.doing = "receive" /\ spi.step = 5
  <2>1. "release" \in Doings /\ 1 \in Nat \ {0} /\ spi.step + 1 \in Nat \ {0}
    BY <1>1 DEF Drivers, Doings
  <2> QED BY <1>1, <1>2, <1>3, <2>1 DEF Drivers, Fetching
<1>5. Done' = 0
  BY <1>4 DEF Done
<1>6. EncTypeOK'
  BY <1>1, <1>4 DEF EncTypeOK
<1>7. InStep'
  <2>1. Program' = Release(spi'.next)
    BY <1>4 DEF Program
  <2>2. Len(Release(spi'.next)) = 3
    BY DEF Release
  <2> QED BY <1>1, <1>4, <2>1, <2>2 DEF InStep
<1>8. Configured'
  <2>1. Running /\ enc.regs[ECON1] = 4
    <3>1. Running
      BY <1>4 DEF EncInv, Configured
    <3> QED BY <1>1, <1>4, <3>1 DEF Running
  <2>2. Reg(8)' = Reg(8) /\ Reg(9)' = Reg(9) /\ Reg(10)' = Reg(10) /\ Reg(11)' = Reg(11)
    BY <1>1 DEF Reg
  <2>3. Running'
    BY <1>1, <1>4, <2>1, <2>2 DEF Running, Holding, ERXST, ERXND
  <2> QED BY <1>4, <2>3 DEF Configured
<1>9. ~ Giving /\ Giving' /\ Up /\ Up' /\ Promised' /\ Reading' /\ Sending'
  BY <1>4, <1>5 DEF Giving, Up, Promised, Reading, Sending
<1>10. Counted'
  BY <1>1, <1>4, <1>9 DEF EncInv, Counted
<1>11. ASSUME Queued PROVE Queued'
  <2>1. \A i \in 1..Len(unread) : IsWhole(unread[i])
    BY <1>9, <1>11 DEF Queued
  <2>2. \A i \in 1..Len(unread) : IsWhole(unread[i])'
    BY <1>1, <2>1 DEF IsWhole, IsByte
  <2>3. \A i \in 1..Len(unread) : After(unread[i])' = After(unread[i])
    BY <1>1 DEF After
  <2> QED BY <1>1, <1>11, <2>2, <2>3 DEF Queued
<1>12. ASSUME Roomy, Reading PROVE Roomy'
  <2>1. unread # <<>> /\ unread'[1] = unread[1] /\ unread' # <<>>
    BY <1>1, <1>3
  <2>2. First = unread[1].at /\ Freed = First
    BY <1>9, <2>1 DEF First, Freed
  <2>3. First' = After(unread[1]) /\ Freed' = unread[1].at
    <3>1. First' = After(unread'[1])
      BY <1>9, <2>1 DEF First
    <3>2. Freed' = unread'[1].at
      BY <1>5, <1>9 DEF Freed
    <3> QED BY <2>1, <3>1, <3>2
  <2>4. Freed' = Freed
    BY <2>2, <2>3
  <2>5. Gap' = Gap
    BY <2>4 DEF Gap
  <2>6. Pair(enc.regs, ERXRDPT)' = Pair(enc.regs, ERXRDPT)
    BY <1>1 DEF Pair
  <2>7. spi'.next = RingPlace(First')
    BY <1>3, <1>4, <1>12, <2>3
  <2> HIDE DEF First, Freed, Gap, Pair
  <2> QED BY <1>1, <1>4, <1>5, <1>12, <2>4, <2>5, <2>6, <2>7 DEF Roomy
<1>13. InOrder'
  BY <1>1, <1>9, <1>11, <1>12 DEF EncInv, InOrder
<1>14. Captured'
  BY <1>1, KeepCaptured DEF EncInv
<1> QED BY <1>6, <1>7, <1>8, <1>9, <1>10, <1>13, <1>14 DEF EncInv

LEMMA DeselectKeeps ==
  ASSUME EncInv, Deselect
  PROVE  EncInv'
<1>1. CASE Fetching
  BY <1>1, FetchedKeeps
<1>2. CASE Polling /\ spi.got[2] > 0
  BY <1>2, FoundKeeps
<1>3. CASE ~ Fetching /\ ~ (Polling /\ spi.got[2] > 0)
  BY <1>3, EndKeeps
<1> QED BY <1>1, <1>2, <1>3, Zenon

(* No more bytes are sent than the transaction has.                        *)
Bounded ==
  spi.selected => /\ spi.doing = "release" => spi.byte <= 2
                  /\ Copying => spi.byte <= 2 + spi.len

LEMMA BoundedKept ==
  ASSUME EncInv, Bounded, Clock
  PROVE  Bounded'
<1>1. EncTypeOK /\ InStep /\ ~ Over /\ spi.selected /\ spi.byte < Wanted /\ (BitTaken \/ ByteTaken)
  BY ClockIs DEF EncInv
<1>2. spi \in Drivers /\ spi.byte \in Nat /\ spi.len \in Nat
  BY <1>1 DEF EncTypeOK, Drivers
<1>3. CASE BitTaken
  <2>1. spi'.byte = spi.byte /\ spi'.doing = spi.doing /\ spi'.step = spi.step /\ spi'.len = spi.len
    BY <1>2, <1>3 DEF BitTaken, Drivers
  <2> QED BY <1>1, <2>1 DEF Bounded, Copying
<1>4. CASE ByteTaken
  <2>1. spi'.byte = spi.byte + 1 /\ spi'.doing = spi.doing /\ spi'.step = spi.step /\ spi'.len = spi.len
    BY <1>2, <1>4 DEF ByteTaken, Drivers
  <2>2. ASSUME spi.doing = "release" PROVE spi.byte + 1 <= 2
    <3>1. Ordering
      BY <2>2 DEF Ordering, Resetting, Checking, Polling, Fetching, Copying
    <3>2. Wanted = 2
      BY <1>1, <1>2, <3>1, Shape
    <3> QED BY <1>1, <1>2, <3>2
  <2>3. ASSUME Copying PROVE spi.byte + 1 <= 2 + spi.len
    <3>1. ~ Ordering
      BY <2>3 DEF Ordering
    <3>2. Wanted = 2 + spi.len
      BY <1>1, <1>2, <2>3, <3>1, Shape
    <3> QED BY <1>1, <1>2, <3>2
  <2> QED BY <2>1, <2>2, <2>3 DEF Bounded, Copying
<1> QED BY <1>1, <1>3, <1>4

LEMMA BoundedElsewhere ==
  ASSUME EncInv, Bounded,
         StartPoll \/ (\E f \in TxFrames : StartTransmit(f)) \/ Select \/ Deselect \/ EncCpuReset
           \/ (\E f \in RxFrames : Inject(f))
  PROVE  Bounded'
<1>1. spi \in Drivers
  BY DEF EncInv, EncTypeOK
<1>2. CASE StartPoll
  <2>1. Over /\ ~ spi.selected
    BY <1>2 DEF StartPoll, EncInv, InStep
  <2>2. spi'.selected = spi.selected
    BY <1>1, <1>2 DEF StartPoll, Drivers
  <2> QED BY <2>1, <2>2 DEF Bounded
<1>7. CASE \E f \in TxFrames : StartTransmit(f)
  <2>1. Over /\ ~ spi.selected
    BY <1>7 DEF StartTransmit, EncInv, InStep
  <2>2. spi'.selected = spi.selected
    BY <1>1, <1>7 DEF StartTransmit, Drivers
  <2> QED BY <2>1, <2>2 DEF Bounded
<1>3. CASE Select
  <2>1. spi'.byte = 0 /\ spi'.len = spi.len /\ spi.len \in Nat
    BY <1>1, <1>3 DEF Select, Drivers
  <2> QED BY <2>1 DEF Bounded
<1>4. CASE Deselect
  <2>1. ~ spi'.selected
    <3>1. spi.step + 1 \in Nat \ {0}
      BY <1>1 DEF Drivers
    <3> DEFINE done == [spi EXCEPT !.selected = FALSE, !.step = spi.step + 1]
               one == [done EXCEPT !.doing = "receive", !.step = 1]
               two == [done EXCEPT !.doing = "release", !.step = 1, !.next = spi.got[2] + LowSize * spi.got[3]]
    <3>2. ~ done.selected /\ ~ one.selected /\ ~ two.selected
      BY <1>1, <3>1 DEF Drivers
    <3>3. spi' = one \/ spi' = two \/ spi' = done
      BY <1>4, DeselectIs, Zenon
    <3> HIDE DEF done, one, two
    <3> QED BY <3>2, <3>3
  <2> QED BY <2>1 DEF Bounded
<1>5. CASE EncCpuReset
  <2>1. ~ spi'.selected
    BY <1>5 DEF EncCpuReset, Booted
  <2> QED BY <2>1 DEF Bounded
<1>6. CASE \E f \in RxFrames : Inject(f)
  <2>1. spi' = spi
    BY <1>6 DEF Inject
  <2> QED BY <2>1 DEF Bounded, Copying
<1> QED BY <1>2, <1>3, <1>4, <1>5, <1>6, <1>7

-----------------------------------------------------------------------------
(***************************************************************************)
(* A frame arrives.                                                        *)
(***************************************************************************)
RingLow  == Pair(enc.regs, ERXST)
RingHigh == Pair(enc.regs, ERXND)
Turn     == RingHigh - RingLow + 1

(* The bytes the ring receives, and where the "k"-th and the next go.      *)
Packet(id, f, next) ==
  <<next % LowSize, next \div LowSize, (f.len + Fcs) % LowSize, (f.len + Fcs) \div LowSize, 128,
    CASE f.to = "broadcast" -> 3 [] f.to = "multicast" -> 1 [] OTHER -> 0>>
  \o FrameBytes(id, f.len) \o [k \in 1..Fcs |-> 0]

PlaceOf(k) == RingLow + ((enc.rxWr - RingLow + k - 1) % Turn)

NextWr(f) == RingLow + ((enc.rxWr - RingLow + Need(f.len)) % Turn)

Laying(bytes) ==
  [a \in 0..BufferSize - 1 |->
     IF \E k \in 1..Len(bytes) : PlaceOf(k) = a
     THEN bytes[CHOOSE k \in 1..Len(bytes) : PlaceOf(k) = a] ELSE enc.buffer[a]]

Taking(f) ==
  /\ f.len \in MinLen..MaxLen /\ On(enc.regs, ECON1, RXEN)
  /\ RingHigh > RingLow /\ Accepts(enc.regs[ERXFCON], f.to)

Room(f) ==
  EncFree(CRemainder(enc.rxWr + Turn - Pair(enc.regs, ERXRDPT), Turn) % Word, Need(f.len), Turn)

OneMore == IF enc.regs[EPKTCNT] < CountMax THEN enc.regs[EPKTCNT] + 1 ELSE enc.regs[EPKTCNT]

Refused(f) ==
  /\ enc' = IF Taking(f) THEN [enc EXCEPT !.regs = Set(Set(enc.regs, EIR, 1), ESTAT, 64)] ELSE enc
  /\ wire' = [wire EXCEPT !.injected = wire.injected + 1] /\ unread' = unread

Accepted(f) ==
  /\ Taking(f) /\ Room(f)
  /\ enc' = [enc EXCEPT !.buffer = Laying(Packet(wire.injected, f, NextWr(f))), !.rxWr = NextWr(f),
                        !.regs = Set(WithPair([enc.regs EXCEPT ![EPKTCNT] = OneMore], ERXWRPT, NextWr(f)), EIR, 64)]
  /\ unread' = Append(unread, [id |-> wire.injected, len |-> f.len, at |-> wire.laid])
  /\ wire' = [wire EXCEPT !.injected = wire.injected + 1, !.laid = wire.laid + Need(f.len),
                          !.torn = wire.torn \/ HalfWritten]

LEMMA InjectIs ==
  ASSUME NEW f, Inject(f)
  PROVE  spi' = spi /\ sent' = sent /\ (Refused(f) \/ Accepted(f))
<1> DEFINE r == InjectRx(wire.injected, f)
           no == [res |-> "no", enc |-> enc]
           full == [res |-> "no", enc |-> [enc EXCEPT !.regs = Set(Set(enc.regs, EIR, 1), ESTAT, 64)]]
           laid == [enc EXCEPT !.buffer = Laying(Packet(wire.injected, f, NextWr(f))), !.rxWr = NextWr(f),
                        !.regs = Set(WithPair([enc.regs EXCEPT ![EPKTCNT] = OneMore], ERXWRPT, NextWr(f)), EIR, 64)]
           ok == [res |-> "ok", enc |-> laid]
<1>1. r = CASE ~ Taking(f) -> no [] Taking(f) /\ ~ Room(f) -> full [] OTHER -> ok
  BY Zenon DEF InjectRx, Taking, Room, RingLow, RingHigh, Turn, Laying, PlaceOf, NextWr, Packet, OneMore
<1>2. /\ enc' = r.enc /\ spi' = spi /\ sent' = sent
      /\ \/ /\ r.res = "ok"
            /\ unread' = Append(unread, [id |-> wire.injected, len |-> f.len, at |-> wire.laid])
            /\ wire' = [wire EXCEPT !.injected = wire.injected + 1, !.laid = wire.laid + Need(f.len),
                                    !.torn = wire.torn \/ HalfWritten]
         \/ /\ r.res = "no" /\ unread' = unread
            /\ wire' = [wire EXCEPT !.injected = wire.injected + 1]
  BY DEF Inject
<1> HIDE DEF r
<1>3. CASE ~ Taking(f)
  <2>1. r = no
    BY <1>1, <1>3
  <2>2. r.res = "no" /\ r.enc = enc
    BY <2>1
  <2> QED BY <1>2, <1>3, <2>2 DEF Refused
<1>4. CASE Taking(f) /\ ~ Room(f)
  <2>1. r = full
    BY <1>1, <1>4
  <2>2. r.res = "no" /\ r.enc = [enc EXCEPT !.regs = Set(Set(enc.regs, EIR, 1), ESTAT, 64)]
    BY <2>1
  <2> QED BY <1>2, <1>4, <2>2 DEF Refused
<1>5. CASE Taking(f) /\ Room(f)
  <2>1. r = ok
    BY <1>1, <1>5
  <2>2. r.res = "ok" /\ r.enc = laid
    BY <2>1
  <2> HIDE DEF laid
  <2>3. enc' = laid /\ spi' = spi /\ sent' = sent
        /\ unread' = Append(unread, [id |-> wire.injected, len |-> f.len, at |-> wire.laid])
        /\ wire' = [wire EXCEPT !.injected = wire.injected + 1, !.laid = wire.laid + Need(f.len),
                                    !.torn = wire.torn \/ HalfWritten]
    BY <1>2, <2>2
  <2> QED BY <1>5, <2>3 DEF Accepted, laid
<1> QED BY <1>3, <1>4, <1>5

IsPacket(p, id, f, next) ==
  /\ p \in Seq(Int) /\ Len(p) = 6 + f.len + Fcs
  /\ p[1] = next % LowSize /\ p[2] = next \div LowSize
  /\ p[3] = (f.len + Fcs) % LowSize /\ p[4] = (f.len + Fcs) \div LowSize
  /\ \A j \in 1..f.len : p[6 + j] = FrameBytes(id, f.len)[j]

LEMMA PacketIs ==
  ASSUME NEW id \in Nat, NEW f, f.len \in Nat, NEW next \in Int
  PROVE  IsPacket(Packet(id, f, next), id, f, next)
<1> DEFINE n == f.len
           kind == CASE f.to = "broadcast" -> 3 [] f.to = "multicast" -> 1 [] OTHER -> 0
           head == <<next % LowSize, next \div LowSize, (n + Fcs) % LowSize, (n + Fcs) \div LowSize, 128, kind>>
           body == FrameBytes(id, n)
           tail == [k \in 1..Fcs |-> 0]
<1>1. kind \in Int
  OBVIOUS
<1>2. n \in Nat /\ Fcs \in Nat /\ LowSize \in Nat \ {0}
  BY EncAssumption
<1>3. /\ next % LowSize \in Int /\ next \div LowSize \in Int
      /\ (n + Fcs) % LowSize \in Int /\ (n + Fcs) \div LowSize \in Int
  <2>1. n + Fcs \in Int
    BY <1>2
  <2> HIDE DEF n
  <2> QED BY <2>1, HalvesInt
<1>4. body \in Seq(Int) /\ Len(body) = n
  BY <1>2, FrameOut
<1>5. tail \in Seq(Int) /\ Len(tail) = Fcs
  BY <1>2
<1> HIDE DEF kind, body, tail, n
<1>6. head \in Seq(Int) /\ Len(head) = 6
  BY <1>1, <1>3
<1>7. /\ head[1] = next % LowSize /\ head[2] = next \div LowSize
      /\ head[3] = (n + Fcs) % LowSize /\ head[4] = (n + Fcs) \div LowSize
  OBVIOUS
<1> HIDE DEF head
<1> DEFINE both == head \o body
           p == both \o tail
<1>8. both \in Seq(Int) /\ Len(both) = 6 + n /\ (\A j \in 1..6 + n : both[j] = IF j <= 6 THEN head[j] ELSE body[j - 6])
  <2>1. /\ both \in Seq(Int) /\ Len(both) = Len(head) + Len(body)
        /\ \A j \in 1..Len(head) + Len(body) :
             both[j] = IF j <= Len(head) THEN head[j] ELSE body[j - Len(head)]
    BY <1>4, <1>6, ConcatProperties, Zenon
  <2> HIDE DEF both
  <2> QED BY <1>2, <1>4, <1>6, <2>1
<1> HIDE DEF both
<1>9. p \in Seq(Int) /\ Len(p) = 6 + n + Fcs
      /\ (\A j \in 1..6 + n + Fcs : p[j] = IF j <= 6 + n THEN both[j] ELSE tail[j - (6 + n)])
  <2>1. /\ p \in Seq(Int) /\ Len(p) = Len(both) + Len(tail)
        /\ \A j \in 1..Len(both) + Len(tail) :
             p[j] = IF j <= Len(both) THEN both[j] ELSE tail[j - Len(both)]
    BY <1>5, <1>8, ConcatProperties, Zenon
  <2> HIDE DEF p
  <2> QED BY <1>2, <1>5, <1>8, <2>1
<1> HIDE DEF p
<1>10. \A j \in 1..6 + n : p[j] = both[j]
  BY <1>2, <1>9
<1>11. \A j \in 1..6 : p[j] = head[j]
  <2> TAKE j \in 1..6
  <2>1. j \in 1..6 + n
    BY <1>2
  <2>2. both[j] = head[j]
    BY <1>8, <2>1
  <2> QED BY <1>10, <2>1, <2>2
<1>12. \A j \in 1..n : p[6 + j] = body[j]
  <2> TAKE j \in 1..n
  <2>1. 6 + j \in 1..6 + n /\ ~ (6 + j <= 6) /\ (6 + j) - 6 = j
    BY <1>2
  <2>2. both[6 + j] = body[(6 + j) - 6]
    BY <1>8, <2>1
  <2> QED BY <1>10, <2>1, <2>2
<1>13. Packet(id, f, next) = p
  BY DEF Packet, head, body, tail, kind, n, both, p
<1>14. p[1] = head[1] /\ p[2] = head[2] /\ p[3] = head[3] /\ p[4] = head[4]
  BY <1>11
<1>15. /\ p \in Seq(Int) /\ Len(p) = 6 + f.len + Fcs
       /\ p[1] = next % LowSize /\ p[2] = next \div LowSize
       /\ p[3] = (f.len + Fcs) % LowSize /\ p[4] = (f.len + Fcs) \div LowSize
       /\ \A j \in 1..f.len : p[6 + j] = FrameBytes(id, f.len)[j]
  BY <1>7, <1>9, <1>12, <1>14 DEF n, body
<1>16. IsPacket(p, id, f, next)
  BY <1>15 DEF IsPacket
<1> QED BY <1>13, <1>16

LEMMA TurnIs ==
  ASSUME enc \in Chips, RingHigh > RingLow
  PROVE  /\ RingLow \in Half /\ RingHigh \in Half /\ Turn \in Nat \ {0}
         /\ \A x \in Int : RingLow + (x % Turn) \in RingLow..RingHigh /\ RingLow + (x % Turn) \in Half
<1>1. RingLow \in Half /\ RingHigh \in Half
  BY PairInRange DEF Chips, RingLow, RingHigh, ERXST, ERXND
<1> HIDE DEF RingLow, RingHigh
<1>2. Turn \in Nat \ {0}
  BY <1>1 DEF Turn, Half
<1>3. ASSUME NEW x \in Int PROVE RingLow + (x % Turn) \in RingLow..RingHigh /\ RingLow + (x % Turn) \in Half
  <2> DEFINE r == x % Turn
  <2>1. r \in 0..Turn - 1
    BY <1>2, DivisionOfInt
  <2> HIDE DEF r
  <2>2. RingLow + r \in RingLow..RingHigh
    BY <1>1, <2>1, EncAssumption DEF Turn, Half
  <2>3. RingLow + r \in Half
    BY <1>1, <2>1, EncAssumption DEF Turn, Half
  <2> QED BY <2>2, <2>3 DEF r
<1> QED BY <1>1, <1>2, <1>3

LEMMA PlacesIn ==
  ASSUME enc \in Chips, RingHigh > RingLow
  PROVE  /\ \A k \in Nat : PlaceOf(k) \in RingLow..RingHigh /\ PlaceOf(k) \in Half
         /\ \A f : f.len \in Nat => NextWr(f) \in RingLow..RingHigh /\ NextWr(f) \in Half
<1>1. enc.rxWr \in Int /\ RingLow \in Int
  BY TurnIs DEF Chips, Half
<1>2. ASSUME NEW k \in Nat PROVE PlaceOf(k) \in RingLow..RingHigh /\ PlaceOf(k) \in Half
  <2> DEFINE x == enc.rxWr - RingLow + k - 1
  <2>1. x \in Int
    BY <1>1
  <2> HIDE DEF x
  <2>2. RingLow + (x % Turn) \in RingLow..RingHigh /\ RingLow + (x % Turn) \in Half
    BY <2>1, TurnIs
  <2> QED BY <2>2 DEF PlaceOf, x
<1>3. ASSUME NEW f, f.len \in Nat PROVE NextWr(f) \in RingLow..RingHigh /\ NextWr(f) \in Half
  <2> DEFINE x == enc.rxWr - RingLow + Need(f.len)
  <2>1. x \in Int
    BY <1>1, <1>3, NeedIs
  <2> HIDE DEF x
  <2>2. RingLow + (x % Turn) \in RingLow..RingHigh /\ RingLow + (x % Turn) \in Half
    BY <2>1, TurnIs
  <2> QED BY <2>2 DEF NextWr, x
<1> QED BY <1>2, <1>3

LEMMA LayingIs ==
  ASSUME enc \in Chips, RingHigh > RingLow, NEW bytes \in Seq(Int)
  PROVE  /\ Laying(bytes) \in [0..BufferSize - 1 -> Int]
         /\ \A a \in Half : (\A k \in 1..Len(bytes) : PlaceOf(k) # a) => Laying(bytes)[a] = enc.buffer[a]
         /\ \A a \in Half : a \notin RingLow..RingHigh => Laying(bytes)[a] = enc.buffer[a]
         /\ \A k \in 1..Len(bytes) :
              (\A j \in 1..Len(bytes) : j # k => PlaceOf(j) # PlaceOf(k)) => Laying(bytes)[PlaceOf(k)] = bytes[k]
<1>1. \A k \in Nat : PlaceOf(k) \in RingLow..RingHigh /\ PlaceOf(k) \in Half
  BY PlacesIn
<1>2. enc.buffer \in [Half -> Int]
  BY DEF Chips, Half
<1> DEFINE n == Len(bytes)
           at(a) == \E k \in 1..n : PlaceOf(k) = a
           c(a) == CHOOSE k \in 1..n : PlaceOf(k) = a
           l == Laying(bytes)
<1>3. \A a : at(a) => c(a) \in 1..n /\ PlaceOf(c(a)) = a
  OBVIOUS
<1>4. l = [a \in Half |-> IF at(a) THEN bytes[c(a)] ELSE enc.buffer[a]]
  BY DEF Laying, Half
<1>5. n \in Nat /\ \A k \in 1..n : bytes[k] \in Int
  OBVIOUS
<1> HIDE DEF at, c, l, n
<1> HIDE DEF PlaceOf
<1>6. \A a \in Half : (IF at(a) THEN bytes[c(a)] ELSE enc.buffer[a]) \in Int
  BY <1>2, <1>3, <1>5
<1>7. l \in [Half -> Int]
  BY <1>4, <1>6
<1>8. \A a \in Half : ~ at(a) => l[a] = enc.buffer[a]
  BY <1>4
<1>9. \A a \in Half : (\A k \in 1..n : PlaceOf(k) # a) => l[a] = enc.buffer[a]
  BY <1>8 DEF at
<1>10. \A a \in Half : a \notin RingLow..RingHigh => l[a] = enc.buffer[a]
  <2> TAKE a \in Half
  <2> HAVE a \notin RingLow..RingHigh
  <2>1. \A k \in 1..n : k \in Nat
    BY <1>5
  <2>2. \A k \in 1..n : PlaceOf(k) # a
    BY <1>1, <2>1, Zenon
  <2> QED BY <1>9, <2>2
<1>11. ASSUME NEW k \in 1..n, \A j \in 1..n : j # k => PlaceOf(j) # PlaceOf(k)
       PROVE  l[PlaceOf(k)] = bytes[k]
  <2> DEFINE a == PlaceOf(k)
  <2>1. at(a)
    BY DEF at
  <2>2. a \in Half
    <3>1. k \in Nat
      BY <1>5
    <3> QED BY <1>1, <3>1
  <2>3. c(a) = k
    <3>1. c(a) \in 1..n /\ PlaceOf(c(a)) = PlaceOf(k)
      BY <1>3, <2>1, Zenon
    <3> QED BY <1>11, <3>1, Zenon
  <2> HIDE DEF a
  <2>4. l[a] = bytes[c(a)]
    BY <1>4, <2>1, <2>2
  <2> QED BY <2>3, <2>4 DEF a
<1> QED BY <1>7, <1>9, <1>10, <1>11 DEF l, n, Half

(* What an arrival leaves alone, wherever it comes.                        *)
LEMMA RefusedIs ==
  ASSUME EncTypeOK, NEW f, Refused(f), spi' = spi, sent' = sent
  PROVE  /\ EncTypeOK' /\ unread' = unread /\ wire'.laid = wire.laid /\ wire'.torn = wire.torn
         /\ \A r \in Registers : r \notin {EIR, ESTAT} => enc'.regs[r] = enc.regs[r]
         /\ enc'.lastCs = enc.lastCs /\ enc'.shift = enc.shift /\ enc'.index = enc.index
         /\ enc'.op = enc.op /\ enc'.addr = enc.addr /\ enc'.out = enc.out
         /\ enc'.buffer = enc.buffer /\ enc'.rxWr = enc.rxWr /\ enc'.count = enc.count /\ enc'.log = enc.log
         /\ ~ Taking(f) => enc' = enc
<1>1. /\ enc \in Chips /\ enc.regs \in [Registers -> Int]
      /\ wire \in [injected : Nat, restarts : Nat, laid : Nat, torn : BOOLEAN]
  BY DEF EncTypeOK, Chips
<1>2. wire' = [wire EXCEPT !.injected = wire.injected + 1] /\ unread' = unread
  BY DEF Refused
<1>3. wire' \in [injected : Nat, restarts : Nat, laid : Nat, torn : BOOLEAN]
      /\ wire'.laid = wire.laid /\ wire'.torn = wire.torn
  BY <1>1, <1>2
<1>4. enc' = IF Taking(f) THEN [enc EXCEPT !.regs = Set(Set(enc.regs, EIR, 1), ESTAT, 64)] ELSE enc
  BY DEF Refused
<1> DEFINE s == Set(enc.regs, EIR, 1)
           t == Set(s, ESTAT, 64)
<1>5. s \in [Registers -> Int] /\ \A r \in Registers : r # EIR => s[r] = enc.regs[r]
  <2>1. EIR \in Registers
    BY Names
  <2> QED BY <1>1, <2>1, RegsInt, SMTT(20)
<1> HIDE DEF s
<1>6. t \in [Registers -> Int] /\ \A r \in Registers : r # ESTAT => t[r] = s[r]
  <2>1. ESTAT \in Registers
    BY Names
  <2> QED BY <1>5, <2>1, RegsInt
<1> HIDE DEF t
<1>7. \A r \in Registers : r \notin {EIR, ESTAT} => t[r] = enc.regs[r]
  BY <1>5, <1>6
<1>8. /\ enc' \in Chips /\ \A r \in Registers : r \notin {EIR, ESTAT} => enc'.regs[r] = enc.regs[r]
      /\ enc'.lastCs = enc.lastCs /\ enc'.shift = enc.shift /\ enc'.index = enc.index
      /\ enc'.op = enc.op /\ enc'.addr = enc.addr /\ enc'.out = enc.out
      /\ enc'.buffer = enc.buffer /\ enc'.rxWr = enc.rxWr /\ enc'.count = enc.count /\ enc'.log = enc.log
  <2>1. CASE Taking(f)
    <3>1. enc' = [enc EXCEPT !.regs = t]
      BY <1>4, <2>1 DEF t, s
    <3> QED BY <1>1, <1>6, <1>7, <3>1 DEF Chips
  <2>2. CASE ~ Taking(f)
    BY <1>1, <1>4, <2>2
  <2> QED BY <2>1, <2>2
<1>9. EncTypeOK'
  BY <1>2, <1>3, <1>8 DEF EncTypeOK
<1> QED BY <1>2, <1>3, <1>4, <1>8, <1>9

Arrived(f) == [id |-> wire.injected, len |-> f.len, at |-> wire.laid]

LEMMA AcceptedIs ==
  ASSUME EncTypeOK, NEW f \in RxFrames, Accepted(f), spi' = spi, sent' = sent
  PROVE  LET p == Packet(wire.injected, f, NextWr(f))
         IN  /\ EncTypeOK' /\ Arrived(f) \in Frames /\ unread' = Append(unread, Arrived(f))
             /\ wire'.laid = wire.laid + Need(f.len) /\ wire'.torn = (wire.torn \/ HalfWritten)
             /\ \A r \in Registers : r \notin {EPKTCNT, EIR, <<0, 14>>, <<0, 15>>} => enc'.regs[r] = enc.regs[r]
             /\ enc'.regs[EPKTCNT] = OneMore
             /\ enc'.lastCs = enc.lastCs /\ enc'.shift = enc.shift /\ enc'.index = enc.index
             /\ enc'.op = enc.op /\ enc'.addr = enc.addr /\ enc'.out = enc.out
             /\ enc'.buffer = Laying(p) /\ enc'.rxWr = NextWr(f) /\ enc'.count = enc.count /\ enc'.log = enc.log
             /\ p \in Seq(Int)
<1>1. /\ enc \in Chips /\ enc.regs \in [Registers -> Int]
      /\ wire \in [injected : Nat, restarts : Nat, laid : Nat, torn : BOOLEAN] /\ unread \in Seq(Frames)
  BY DEF EncTypeOK, Chips
<1>2. f.len \in Nat /\ RingHigh > RingLow
  BY EncAssumption DEF Accepted, Taking
<1>3. Need(f.len) \in Nat
  BY <1>2, NeedIs
<1> DEFINE p == Packet(wire.injected, f, NextWr(f))
           c == [enc.regs EXCEPT ![EPKTCNT] = OneMore]
           w == WithPair(c, ERXWRPT, NextWr(f))
           s == Set(w, EIR, 64)
<1>4. NextWr(f) \in Half /\ NextWr(f) \in Int
  <2>1. NextWr(f) \in Half
    BY <1>1, <1>2, PlacesIn, Zenon
  <2> QED BY <2>1 DEF Half
<1>5. p \in Seq(Int)
  <2>1. IsPacket(p, wire.injected, f, NextWr(f))
    BY <1>1, <1>2, <1>4, PacketIs
  <2> QED BY <2>1 DEF IsPacket
<1>6. Laying(p) \in [0..BufferSize - 1 -> Int]
  BY <1>1, <1>2, <1>5, LayingIs
<1>7. OneMore \in Int /\ EPKTCNT \in Registers /\ EIR \in Registers
  BY <1>1, Names DEF OneMore
<1>8. /\ enc' = [enc EXCEPT !.buffer = Laying(p), !.rxWr = NextWr(f), !.regs = s]
      /\ unread' = Append(unread, Arrived(f))
      /\ wire' = [wire EXCEPT !.injected = wire.injected + 1, !.laid = wire.laid + Need(f.len),
                              !.torn = wire.torn \/ HalfWritten]
  BY DEF Accepted, Arrived
<1> HIDE DEF p
<1>9. c \in [Registers -> Int] /\ c[EPKTCNT] = OneMore /\ \A r \in Registers : r # EPKTCNT => c[r] = enc.regs[r]
  BY <1>1, <1>7
<1> HIDE DEF c
<1>10. w \in [Registers -> Int] /\ \A r \in Registers : r # <<0, 14>> /\ r # <<0, 15>> => w[r] = c[r]
  <2>1. ERXWRPT \in 0..14 /\ <<0, ERXWRPT>> = <<0, 14>> /\ <<0, ERXWRPT + 1>> = <<0, 15>>
    BY DEF ERXWRPT
  <2> QED BY <1>4, <1>9, <2>1, WithPairHolds
<1> HIDE DEF w
<1>11. s \in [Registers -> Int] /\ \A r \in Registers : r # EIR => s[r] = w[r]
  <2>1. EIR \in Registers
    BY Names
  <2> QED BY <1>10, <2>1, RegsInt
<1> HIDE DEF s
<1>12. \A r \in Registers : r \notin {EPKTCNT, EIR, <<0, 14>>, <<0, 15>>} => s[r] = enc.regs[r]
  BY <1>9, <1>10, <1>11
<1>13. s[EPKTCNT] = OneMore
  <2>1. EPKTCNT # EIR /\ EPKTCNT # <<0, 14>> /\ EPKTCNT # <<0, 15>>
    BY DEF EPKTCNT, EIR
  <2> QED BY <1>7, <1>9, <1>10, <1>11, <2>1
<1>14. /\ enc' \in Chips /\ enc'.regs = s
       /\ enc'.lastCs = enc.lastCs /\ enc'.shift = enc.shift /\ enc'.index = enc.index
       /\ enc'.op = enc.op /\ enc'.addr = enc.addr /\ enc'.out = enc.out
       /\ enc'.buffer = Laying(p) /\ enc'.rxWr = NextWr(f) /\ enc'.count = enc.count /\ enc'.log = enc.log
  <2> HIDE DEF Laying, NextWr
  <2> QED BY <1>1, <1>4, <1>6, <1>8, <1>11 DEF Chips
<1>15. Arrived(f) \in Frames /\ unread' \in Seq(Frames)
  <2>1. Arrived(f) \in Frames
    BY <1>1, <1>2 DEF Arrived, Frames
  <2> QED BY <1>1, <1>8, <2>1
<1>16. /\ wire' \in [injected : Nat, restarts : Nat, laid : Nat, torn : BOOLEAN]
       /\ wire'.laid = wire.laid + Need(f.len) /\ wire'.torn = (wire.torn \/ HalfWritten)
  <2> DEFINE t == wire.torn \/ HalfWritten
             l == wire.laid + Need(f.len)
             i == wire.injected + 1
  <2>1. t \in BOOLEAN
    OBVIOUS
  <2>2. l \in Nat /\ i \in Nat
    BY <1>1, <1>3
  <2>3. wire' = [wire EXCEPT !.injected = i, !.laid = l, !.torn = t]
    BY <1>8
  <2> HIDE DEF t, l, i
  <2>4. wire' \in [injected : Nat, restarts : Nat, laid : Nat, torn : BOOLEAN] /\ wire'.laid = l /\ wire'.torn = t
    BY <1>1, <2>1, <2>2, <2>3
  <2> QED BY <2>4 DEF t, l
<1>17. EncTypeOK'
  BY <1>14, <1>15, <1>16 DEF EncTypeOK
<1> QED BY <1>5, <1>8, <1>12, <1>13, <1>14, <1>15, <1>16, <1>17 DEF p

LEMMA StillIs ==
  ASSUME InStep, spi' = spi, enc'.lastCs = enc.lastCs, enc'.shift = enc.shift, enc'.index = enc.index,
         enc'.op = enc.op, enc'.addr = enc.addr
  PROVE  /\ Program' = Program /\ Now' = Now /\ Over' = Over /\ Done' = Done /\ InStep'
         /\ (Up' <=> Up) /\ Copied' = Copied /\ (Giving' <=> Giving)
<1>1. Program' = Program
  BY DEF Program
<1>2. Now' = Now
  BY <1>1 DEF Now
<1>3. Over' = Over
  BY <1>1 DEF Over
<1>4. Done' = Done
  BY <1>2 DEF Done
<1>5. ByteNow' = ByteNow
  BY <1>2 DEF ByteNow
<1>6. Opcode' = Opcode
  BY <1>2 DEF Opcode
<1>7. InStep'
  <2> HIDE DEF Program, Now, Over, Done, ByteNow, Opcode
  <2> QED BY <1>1, <1>3, <1>5, <1>6 DEF InStep
<1>8. (Up' <=> Up) /\ (Giving' <=> Giving)
  BY <1>4 DEF Up, Giving
<1>9. Copied' = Copied
  BY DEF Copied
<1> QED BY <1>1, <1>2, <1>3, <1>4, <1>7, <1>8, <1>9

LEMMA RefusedKeeps ==
  ASSUME EncInv, NEW f, Refused(f), spi' = spi, sent' = sent
  PROVE  EncInv'
<1>1. EncTypeOK /\ InStep
  BY DEF EncInv
<1>2. /\ EncTypeOK' /\ unread' = unread /\ wire'.laid = wire.laid /\ wire'.torn = wire.torn
      /\ \A r \in Registers : r \notin {EIR, ESTAT} => enc'.regs[r] = enc.regs[r]
      /\ enc'.lastCs = enc.lastCs /\ enc'.shift = enc.shift /\ enc'.index = enc.index
      /\ enc'.op = enc.op /\ enc'.addr = enc.addr /\ enc'.out = enc.out
      /\ enc'.buffer = enc.buffer /\ enc'.rxWr = enc.rxWr /\ enc'.count = enc.count /\ enc'.log = enc.log
  BY <1>1, RefusedIs
<1>3. /\ Done' = Done /\ InStep' /\ (Up' <=> Up) /\ Copied' = Copied /\ (Giving' <=> Giving)
  BY <1>1, <1>2, StillIs
<1>4. \A r \in Registers : r \notin {EIR, ESTAT} => enc'.regs[r] = enc.regs[r]
  BY <1>2
<1>5. SameRegs(Watched)
  <2>1. \A r \in Watched : r \in Registers /\ r \notin {EIR, ESTAT}
    BY WatchedNames DEF Watched, EIR, ESTAT, ECON1, ECON2, EPKTCNT, MACON3
  <2> QED BY <1>4, <2>1 DEF SameRegs
<1>6. \A a \in 0..15 : enc'.regs[<<0, a>>] = enc.regs[<<0, a>>]
  <2>1. \A a \in 0..15 : <<0, a>> \in Registers /\ <<0, a>> \notin {EIR, ESTAT}
    BY Names DEF EIR, ESTAT
  <2> QED BY <1>4, <2>1
<1>7. /\ Reg(ERDPT)' = Reg(ERDPT) /\ Pair(enc.regs, ERDPT)' = Pair(enc.regs, ERDPT)
      /\ Pair(enc.regs, EWRPT)' = Pair(enc.regs, EWRPT) /\ Reg(EWRPT)' = Reg(EWRPT)
      /\ Reg(ETXST)' = Reg(ETXST) /\ Reg(ETXST + 1)' = Reg(ETXST + 1)
      /\ Reg(ETXND)' = Reg(ETXND) /\ Reg(ETXND + 1)' = Reg(ETXND + 1)
  BY <1>6 DEF Reg, Pair, ERDPT, EWRPT, ETXST, ETXND
<1>8. Running => Running'
  BY <1>3, <1>5, KeepRunning
<1>9. SettingUp => SettingUp'
  <2>1. SameRegs(Watched)
    BY <1>5
  <2>2. /\ enc'.regs[ECON1] = enc.regs[ECON1] /\ enc'.regs[ECON2] = enc.regs[ECON2]
        /\ enc'.regs[EPKTCNT] = enc.regs[EPKTCNT] /\ enc'.regs[MACON3] = enc.regs[MACON3]
    BY <2>1, SameRegsIs
  <2>3. \A a \in 8..13 : Reg(a)' = Reg(a)
    BY <1>6 DEF Reg
  <2>4. /\ Reg(ERXST)' = Reg(ERXST) /\ Reg(ERXST + 1)' = Reg(ERXST + 1)
        /\ Reg(ERXND)' = Reg(ERXND) /\ Reg(ERXND + 1)' = Reg(ERXND + 1)
        /\ Reg(ERXRDPT)' = Reg(ERXRDPT) /\ Reg(ERXRDPT + 1)' = Reg(ERXRDPT + 1)
    BY <2>3 DEF ERXST, ERXND, ERXRDPT
  <2> HIDE DEF Reg, Done
  <2> QED BY <1>2, <1>3, <2>2, <2>4 DEF SettingUp
<1>10. Configured'
  BY <1>8, <1>9 DEF EncInv, Configured
<1>11. Counted'
  <2>1. enc'.regs[EPKTCNT] = enc.regs[EPKTCNT]
    BY <1>5, SameRegsIs
  <2>2. Counted
    BY DEF EncInv
  <2>3. Promised'
    BY <1>2, <2>1, <2>2 DEF Counted, Promised
  <2> HIDE DEF Giving
  <2> QED BY <1>2, <1>3, <2>1, <2>2, <2>3 DEF Counted
<1>12. InOrder'
  <2>1. Queued => Queued'
    BY <1>1, <1>2, <1>3, KeepQueued DEF EncTypeOK
  <2>2. Roomy => Roomy'
    BY <1>2, <1>3, <1>5, KeepRoomy
  <2>3. Reading => Reading'
    <3> HIDE DEF Reg, Pair, Done
    <3>1. \A g, k, v : IsByte(g, k, v)' <=> IsByte(g, k, v)
      BY DEF IsByte
    <3> QED BY <1>2, <1>3, <1>7, <3>1 DEF Reading, IsByte
  <2> QED BY <1>2, <1>3, <2>1, <2>2, <2>3 DEF EncInv, InOrder
<1>13. Sending'
  <2>1. Sending
    BY DEF EncInv
  <2> HIDE DEF Reg, Pair, Done, Copied
  <2> QED BY <1>2, <1>3, <1>7, <2>1 DEF Sending
<1>14. Captured'
  BY <1>2, KeepCaptured DEF EncInv
<1> QED BY <1>2, <1>3, <1>10, <1>11, <1>12, <1>13, <1>14 DEF EncInv

(* Reception is on only when the ring is set.                              *)
LEMMA ReceivesSet ==
  ASSUME EncInv, NEW f, Taking(f)
  PROVE  ~ (spi.doing = "setup" /\ Done \in 1..14)
<1>1. SUFFICES ASSUME spi.doing = "setup", Done \in 1..14 PROVE FALSE
  OBVIOUS
<1>2. SettingUp
  BY <1>1 DEF EncInv, Configured
<1>3. enc.regs[ECON1] \in {0, 1, 2}
  BY <1>1, <1>2 DEF SettingUp
<1>4. (0 \div 4) % 2 = 0 /\ (1 \div 4) % 2 = 0 /\ (2 \div 4) % 2 = 0
  OBVIOUS
<1>5. (enc.regs[ECON1] \div 4) % 2 = 1
  BY DEF Taking, On, RXEN
<1> QED BY <1>3, <1>4, <1>5

LEMMA RingSet ==
  ASSUME EncInv, Up
  PROVE  RingLow = RingStart /\ RingHigh = RingEnd /\ Turn = RingSize
<1>1. Holding(ERXST, RingStart) /\ Holding(ERXND, RingEnd)
  <2>1. CASE spi.doing = "setup"
    <3>1. SettingUp /\ Done >= 15 /\ Done \in Nat
      BY <2>1, DoneIs DEF EncInv, Configured, Up
    <3> QED BY <3>1 DEF SettingUp, Holding
  <2>2. CASE spi.doing # "setup"
    BY <2>2 DEF EncInv, Configured, Running
  <2> QED BY <2>1, <2>2
<1>2. RingStart \in Half /\ RingEnd \in Half
  BY EncAssumption DEF Half
<1>3. RingLow = RingStart
  <2>1. enc.regs[<<0, ERXST>>] = RingStart % LowSize /\ enc.regs[<<0, ERXST + 1>>] = RingStart \div LowSize
    BY <1>1 DEF Holding, Reg
  <2> QED BY <1>2, <2>1, PairHeld DEF RingLow
<1>4. RingHigh = RingEnd
  <2>1. enc.regs[<<0, ERXND>>] = RingEnd % LowSize /\ enc.regs[<<0, ERXND + 1>>] = RingEnd \div LowSize
    BY <1>1 DEF Holding, Reg
  <2> QED BY <1>2, <2>1, PairHeld DEF RingHigh
<1> QED BY <1>3, <1>4 DEF Turn, RingSize

LEMMA AcceptedRest ==
  ASSUME EncInv, Bounded, NEW f \in RxFrames, Accepted(f), spi' = spi, sent' = sent
  PROVE  Configured' /\ Counted' /\ Sending' /\ Captured'
<1>1. EncTypeOK /\ InStep /\ enc \in Chips /\ spi \in Drivers
      /\ wire \in [injected : Nat, restarts : Nat, laid : Nat, torn : BOOLEAN] /\ unread \in Seq(Frames)
  BY DEF EncInv, EncTypeOK
<1> DEFINE p == Packet(wire.injected, f, NextWr(f))
<1>2. /\ EncTypeOK' /\ Arrived(f) \in Frames /\ unread' = Append(unread, Arrived(f))
      /\ \A r \in Registers : r \notin {EPKTCNT, EIR, <<0, 14>>, <<0, 15>>} => enc'.regs[r] = enc.regs[r]
      /\ enc'.regs[EPKTCNT] = OneMore
      /\ enc'.lastCs = enc.lastCs /\ enc'.shift = enc.shift /\ enc'.index = enc.index
      /\ enc'.op = enc.op /\ enc'.addr = enc.addr /\ enc'.out = enc.out
      /\ enc'.buffer = Laying(p) /\ enc'.count = enc.count /\ enc'.log = enc.log
      /\ p \in Seq(Int)
  BY <1>1, AcceptedIs
<1> HIDE DEF p
<1>3. /\ Program' = Program /\ Now' = Now /\ Over' = Over /\ Done' = Done
      /\ (Up' <=> Up) /\ Copied' = Copied /\ (Giving' <=> Giving)
  BY <1>1, <1>2, StillIs
<1>4. /\ enc'.regs[ECON1] = enc.regs[ECON1] /\ enc'.regs[ECON2] = enc.regs[ECON2]
      /\ enc'.regs[MACON3] = enc.regs[MACON3]
      /\ \A a \in 0..13 : enc'.regs[<<0, a>>] = enc.regs[<<0, a>>]
  <2>1. \A r \in {ECON1, ECON2, MACON3} : r \in Registers /\ r \notin {EPKTCNT, EIR, <<0, 14>>, <<0, 15>>}
    BY Names DEF ECON1, ECON2, MACON3, EPKTCNT, EIR
  <2>2. \A a \in 0..13 : <<0, a>> \in Registers /\ <<0, a>> \notin {EPKTCNT, EIR, <<0, 14>>, <<0, 15>>}
    BY Names DEF EPKTCNT, EIR
  <2> QED BY <1>2, <2>1, <2>2
<1>5. \A a \in 0..13 : Reg(a)' = Reg(a)
  BY <1>4 DEF Reg
<1>6. Running => Running'
  <2>1. /\ Reg(ERXST)' = Reg(ERXST) /\ Reg(ERXST + 1)' = Reg(ERXST + 1)
        /\ Reg(ERXND)' = Reg(ERXND) /\ Reg(ERXND + 1)' = Reg(ERXND + 1)
    BY <1>5 DEF ERXST, ERXND
  <2> HIDE DEF Done, Reg
  <2> QED BY <1>3, <1>4, <2>1 DEF Running, Holding
<1>7. ASSUME spi.doing = "setup", SettingUp PROVE SettingUp'
  <2>1. ~ (Done \in 1..14)
    BY <1>7, ReceivesSet DEF Accepted
  <2>2. Done \in Nat
    BY <1>1, DoneIs
  <2>3. Done = 0 \/ Done >= 15
    BY <2>1, <2>2
  <2>4. /\ Reg(ERXST)' = Reg(ERXST) /\ Reg(ERXST + 1)' = Reg(ERXST + 1)
        /\ Reg(ERXND)' = Reg(ERXND) /\ Reg(ERXND + 1)' = Reg(ERXND + 1)
        /\ Reg(ERXRDPT)' = Reg(ERXRDPT) /\ Reg(ERXRDPT + 1)' = Reg(ERXRDPT + 1)
    BY <1>5 DEF ERXST, ERXND, ERXRDPT
  <2> HIDE DEF Done, Reg
  <2>5. CASE Done = 0
    BY <1>3, <1>7, <2>5 DEF SettingUp
  <2>6. CASE Done >= 15
    <3>1. ~ (Done \in 1..14) /\ ~ (Done \in 3..14)
      BY <2>2, <2>6
    <3> QED BY <1>3, <1>4, <1>7, <2>4, <3>1 DEF SettingUp
  <2> QED BY <2>3, <2>5, <2>6
<1>8. Configured'
  BY <1>6, <1>7 DEF EncInv, Configured
<1>9. Counted'
  <2> DEFINE c == enc.regs[EPKTCNT]
             n == Len(unread)
             d == enc'.regs[EPKTCNT]
  <2>1. c \in 0..n /\ n \in Nat
    BY <1>1 DEF EncInv, Counted
  <2>2. Len(unread') = n + 1
    BY <1>1, <1>2
  <2>3. d = IF c < CountMax THEN c + 1 ELSE c
    BY <1>2 DEF OneMore
  <2> HIDE DEF c, n, d
  <2>4. d \in 0..Len(unread') /\ d >= c /\ c \in Int /\ d \in Int
    BY <2>1, <2>2, <2>3, EncAssumption
  <2>5. Promised /\ (spi.doing = "receive" \/ Giving => c > 0)
    BY DEF EncInv, Counted, c
  <2>6. enc.out \in Int
    BY <1>1 DEF Chips
  <2>7. Promised'
    <3>1. SUFFICES ASSUME spi.doing = "poll", spi.step = 3, spi.selected
                   PROVE  (spi.byte = 1 => enc.out <= d) /\ (spi.byte > 1 => spi.got[2] <= d)
      BY <1>2 DEF Promised, d
    <3>2. spi.byte = 1 => enc.out <= c
      BY <2>5, <3>1 DEF Promised, c
    <3>3. spi.byte > 1 => spi.got[2] <= c
      BY <2>5, <3>1 DEF Promised, c
    <3>4. ASSUME spi.byte > 1 PROVE spi.got[2] \in Int
      <4> DEFINE g == spi.got
      <4>1. g \in Seq(Int) /\ Len(g) = spi.byte /\ spi.byte \in Nat
        BY <1>1, <3>1 DEF Drivers, InStep
      <4>2. 2 \in 1..Len(g)
        BY <3>4, <4>1
      <4> HIDE DEF g
      <4>3. g[2] \in Int
        BY <4>1, <4>2
      <4> QED BY <4>3 DEF g
    <3>5. spi.byte = 1 => enc.out <= d
      BY <2>4, <2>6, <3>2
    <3>6. spi.byte > 1 => spi.got[2] <= d
      <4> DEFINE x == spi.got[2]
      <4>1. spi.byte > 1 => x \in Int /\ x <= c
        BY <3>3, <3>4
      <4> HIDE DEF x
      <4>2. spi.byte > 1 => x <= d
        BY <2>4, <4>1
      <4> QED BY <4>2 DEF x
    <3> QED BY <3>5, <3>6
  <2>8. spi.doing = "receive" \/ Giving => d > 0
    BY <2>4, <2>5
  <2> HIDE DEF Giving
  <2> QED BY <1>3, <2>4, <2>7, <2>8 DEF Counted, d
<1>10. Sending'
  <2> SUFFICES ASSUME spi.doing = "transmit" PROVE Sending'
    BY DEF Sending
  <2>1. Sending /\ spi.len \in 1..MaxLen /\ TxStart + spi.len < BufferSize /\ spi.len \in Nat
    BY <1>1 DEF EncInv, Sending, Drivers
  <2>2. RingLow = RingStart /\ RingHigh = RingEnd
    BY RingSet DEF Up
  <2>3. RingHigh > RingLow
    BY <2>2, EncAssumption
  <2>4. Copied \in 0..spi.len
    <3>1. spi.step \in Nat /\ spi.byte \in Nat
      BY <1>1 DEF Drivers
    <3>2. spi.step = 5 /\ spi.selected => spi.byte <= 2 + spi.len
      BY DEF Bounded, Copying
    <3> QED BY <2>1, <3>1, <3>2 DEF Copied
  <2>5. \A j \in 1..Copied : enc'.buffer[TxStart + j] = enc.buffer[TxStart + j]
    <3> TAKE j \in 1..Copied
    <3>1. TxStart + j \in Half /\ TxStart + j \notin RingLow..RingHigh
      <4> HIDE DEF Copied
      <4> QED BY <2>1, <2>2, <2>4, EncAssumption DEF Half
    <3>2. Laying(p)[TxStart + j] = enc.buffer[TxStart + j]
      BY <1>1, <1>2, <2>3, <3>1, LayingIs
    <3> QED BY <1>2, <3>2
  <2>6. /\ Reg(EWRPT)' = Reg(EWRPT) /\ Pair(enc.regs, EWRPT)' = Pair(enc.regs, EWRPT)
        /\ Reg(ETXST)' = Reg(ETXST) /\ Reg(ETXST + 1)' = Reg(ETXST + 1)
        /\ Reg(ETXND)' = Reg(ETXND) /\ Reg(ETXND + 1)' = Reg(ETXND + 1)
    BY <1>4 DEF Reg, Pair, EWRPT, ETXST, ETXND
  <2>7. \A j \in 1..Copied : enc'.buffer[TxStart + j] = FrameBytes(50 + spi.id, spi.len)[j]
    <3> HIDE DEF Copied
    <3> QED BY <2>1, <2>5 DEF Sending
  <2> HIDE DEF Reg, Pair, Done, Copied
  <2> QED BY <1>2, <1>3, <2>1, <2>6, <2>7 DEF Sending
<1>11. Captured'
  BY <1>2, KeepCaptured DEF EncInv
<1> QED BY <1>8, <1>9, <1>10, <1>11

-----------------------------------------------------------------------------
(* The room in the ring.                                                   *)

LEMMA FreedIs ==
  ASSUME EncInv, Queued
  PROVE  /\ Freed \in Nat /\ Freed <= wire.laid /\ Gap \in {0, 1} /\ Freed - Gap \in Nat
         /\ \A i \in 1..Len(unread) : ~ (Giving /\ i = 1) => Freed <= unread[i].at
<1>1. EncTypeOK /\ unread \in Seq(Frames) /\ wire.laid \in Nat
  BY DEF EncInv, EncTypeOK
<1> DEFINE n == Len(unread)
           A(i) == After(unread[i])
           S(i) == unread[i].at
           l == wire.laid
<1>2. n \in Nat /\ \A i \in 1..n : S(i) \in Nat /\ A(i) \in Nat /\ A(i) >= S(i)
  <2>1. n \in Nat
    BY <1>1
  <2>2. ASSUME NEW i \in 1..n PROVE S(i) \in Nat /\ A(i) \in Nat /\ A(i) >= S(i)
    <3> DEFINE u == unread[i]
    <3>1. u \in Frames
      BY <1>1
    <3> HIDE DEF u
    <3>2. u.at \in Nat /\ u.len \in Nat
      BY <3>1 DEF Frames
    <3>3. Need(u.len) \in Nat
      BY <3>2, NeedIs
    <3>4. u.at \in Nat /\ After(u) \in Nat /\ After(u) >= u.at
      BY <3>2, <3>3 DEF After
    <3> QED BY <3>4 DEF u
  <2> QED BY <2>1, <2>2
<1>3. /\ \A i \in 1..n : A(i) <= l
      /\ \A i, j \in 1..n : i < j => A(i) <= S(j)
  BY DEF Queued
<1>4. Giving => n > 0
  <2>1. Giving => enc.regs[EPKTCNT] \in 0..Len(unread) /\ enc.regs[EPKTCNT] > 0
    BY DEF EncInv, Counted
  <2> QED BY <1>2, <2>1
<1>5. unread = <<>> <=> n = 0
  BY <1>1
<1>6. /\ n = 0 => Freed = l
      /\ n > 0 => Freed = IF Giving /\ Done >= 2 THEN A(1) ELSE S(1)
  <2>1. Done \in Nat
    BY <1>1, DoneIs
  <2>2. n = 0 => Freed = l
    <3> HIDE DEF Giving, Done, n
    <3> QED BY <1>4, <1>5 DEF Freed, First
  <2>3. ASSUME n > 0 PROVE Freed = IF Giving /\ Done >= 2 THEN A(1) ELSE S(1)
    <3>1. unread # <<>>
      BY <1>2, <1>5, <2>3
    <3>2. First = IF Giving THEN A(1) ELSE S(1)
      BY <3>1 DEF First
    <3>3. Freed = IF Giving /\ Done < 2 THEN S(1) ELSE First
      BY DEF Freed
    <3> HIDE DEF First, Giving, Done, A, S, n, Freed
    <3> QED BY <2>1, <3>2, <3>3
  <2> QED BY <2>2, <2>3
<1> HIDE DEF n, A, S, l, Freed, Giving, Done
<1>7. l \in Nat
  BY <1>1 DEF l
<1>8. Freed \in Nat /\ Freed <= l
  <2>1. CASE n = 0
    BY <1>6, <1>7, <2>1
  <2>2. CASE n > 0
    <3>1. 1 \in 1..n
      BY <1>2, <2>2
    <3>2. A(1) \in Nat /\ S(1) \in Nat /\ A(1) >= S(1) /\ A(1) <= l
      BY <1>2, <1>3, <3>1
    <3>3. Freed = A(1) \/ Freed = S(1)
      BY <1>6, <2>2
    <3> QED BY <1>7, <3>2, <3>3
  <2> QED BY <1>2, <2>1, <2>2
<1>9. Gap \in {0, 1} /\ Freed - Gap \in Nat
  BY <1>8 DEF Gap
<1>10. ASSUME NEW i \in 1..n, ~ (Giving /\ i = 1) PROVE Freed <= S(i)
  <2>1. 1 \in 1..n /\ n > 0 /\ i \in Int
    BY <1>2
  <2>2. A(1) \in Nat /\ S(1) \in Nat /\ A(1) >= S(1) /\ S(i) \in Nat
    BY <1>2, <2>1
  <2>3. CASE i = 1
    <3>1. Freed = S(1)
      BY <1>6, <1>10, <2>1, <2>3
    <3> QED BY <2>2, <2>3, <3>1
  <2>4. CASE i > 1
    <3>1. A(1) <= S(i)
      BY <1>3, <2>1, <2>4
    <3>2. Freed = A(1) \/ Freed = S(1)
      BY <1>6, <2>1
    <3> QED BY <2>2, <3>1, <3>2
  <2>5. i = 1 \/ i > 1
    BY <1>2
  <2> QED BY <2>3, <2>4, <2>5
<1> QED BY <1>8, <1>9, <1>10 DEF n, S, l

LEMMA PointerWhole ==
  ASSUME EncInv, Bounded, Up, Roomy, ~ HalfWritten
  PROVE  Pair(enc.regs, ERXRDPT) = RingPlace(Freed - Gap)
<1>1. EncTypeOK /\ InStep /\ spi \in Drivers
  BY DEF EncInv, EncTypeOK
<1>2. spi.step \in Nat \ {0} /\ spi.byte \in Nat
  BY <1>1 DEF Drivers
<1>3. ASSUME spi.doing = "release", Done = 1 PROVE FALSE
  <2>1. Len(Program) = 3
    BY <1>3, ReleaseTable
  <2>2. Done = IF spi.selected /\ spi.byte >= Len(Now.out) THEN spi.step ELSE spi.step - 1
    BY DEF Done
  <2>3. spi.step = 1 \/ spi.step = 2
    <3> HIDE DEF Done
    <3> QED BY <1>2, <1>3, <2>2
  <2>4. ~ Over
    BY <2>1, <2>3 DEF Over
  <2>5. Len(Now.out) = 2
    <3>1. Ordering
      BY <1>3 DEF Ordering, Resetting, Checking, Polling, Fetching, Copying
    <3> QED BY <1>1, <2>4, <3>1, Shape
  <2>6. CASE spi.step = 1
    <3>1. spi.selected /\ spi.byte >= 2
      <4> HIDE DEF Done
      <4> QED BY <1>3, <2>2, <2>5, <2>6
    <3>2. spi.byte = 2
      BY <1>2, <1>3, <3>1 DEF Bounded
    <3>3. Now.out[1] = WCR + ERXRDPT
      BY <1>3, <2>6, ReleaseTable DEF Does, Now, ERXRDPT
    <3> QED BY <2>4, <3>1, <3>2, <3>3 DEF HalfWritten
  <2>7. CASE spi.step = 2
    <3>1. ~ (spi.selected /\ spi.byte >= 2)
      <4> HIDE DEF Done
      <4> QED BY <1>3, <2>2, <2>5, <2>7
    <3>2. ~ (spi.selected /\ spi.byte = 2)
      BY <3>1
    <3>3. Now.out[1] = WCR + ERXRDPT + 1
      BY <1>3, <2>7, ReleaseTable DEF Does, Now, ERXRDPT, WCR
    <3> QED BY <2>4, <3>2, <3>3 DEF HalfWritten
  <2> QED BY <2>3, <2>6, <2>7
<1> HIDE DEF Freed, Gap, Pair, Done
<1> QED BY <1>3 DEF Roomy

(* The subtraction around the ring's end gives the bytes not yet freed.    *)
LEMMA AroundTheEnd ==
  ASSUME NEW b \in Nat \ {0}, NEW y \in Nat, NEW u \in 0..b - 1, NEW s \in Int
  PROVE  ((s + ((y + u) % b)) + b - (s + (y % b))) % b = u
<1> DEFINE r == y % b
           q == y \div b
           x == y + u
           m == x % b
<1>1. r \in 0..b - 1 /\ q \in Nat /\ y = b * q + r
  BY Division
<1>2. m \in 0..b - 1 /\ x \in Nat
  BY Division
<1> HIDE DEF r, q, m
<1>3. (s + m) + b - (s + r) = m + (b - r)
  BY <1>1, <1>2
<1>4. (m + (b - r)) % b = (x + (b - r)) % b
  <2>1. b - r \in Int /\ x \in Int
    BY <1>1, <1>2
  <2> HIDE DEF x
  <2> QED BY <2>1, WholeTurns DEF m
<1>5. (x + (b - r)) % b = u
  <2> DEFINE t == q + 1
             z == x + (b - r)
  <2>1. b * t = b * q + b
    BY <1>1
  <2>2. t \in Int /\ z \in Int
    BY <1>1, <1>2
  <2>3. z = b * t + u
    <3> DEFINE v == b * q
               w == b * t
    <3>1. v \in Int /\ y = v + r /\ w = v + b
      BY <1>1, <2>1
    <3> HIDE DEF v, w
    <3> QED BY <1>1, <3>1 DEF w
  <2> HIDE DEF t, z
  <2>4. z % b = u
    BY <2>2, <2>3, Remainder
  <2> QED BY <2>4 DEF z
<1> QED BY <1>3, <1>4, <1>5 DEF m, r

LEMMA RoomIs ==
  ASSUME EncInv, Bounded, Up, Queued, Roomy, ~ HalfWritten, NEW f \in RxFrames,
         Taking(f), Room(f)
  PROVE  wire.laid + Need(f.len) - Freed + Gap < RingSize
<1>1. RingLow = RingStart /\ RingHigh = RingEnd /\ Turn = RingSize
  BY RingSet
<1>2. Pair(enc.regs, ERXRDPT) = RingPlace(Freed - Gap) /\ enc.rxWr = RingPlace(wire.laid)
  BY PointerWhole DEF Roomy
<1>3. Freed \in Nat /\ Freed <= wire.laid /\ Gap \in {0, 1} /\ Freed - Gap \in Nat
  BY FreedIs
<1>4. wire.laid \in Nat
  BY DEF EncInv, EncTypeOK
<1>5. wire.laid - Freed + Gap < RingSize
  BY DEF Roomy
<1>6. RingSize \in Nat \ {0} /\ RingStart \in Int
  BY EncAssumption DEF RingSize
<1> DEFINE y == Freed - Gap
           u == wire.laid - Freed + Gap
           d == Need(f.len)
           x == enc.rxWr + Turn - Pair(enc.regs, ERXRDPT)
           used == x % Turn
<1>7. y \in Nat /\ u \in 0..RingSize - 1 /\ y + u = wire.laid
  <2> HIDE DEF Freed, Gap
  <2> QED BY <1>3, <1>4, <1>5, <1>6
<1>8. d \in Nat /\ BufferSize + d < Word
  <2>1. f.len \in Nat /\ f.len <= MaxLen
    BY EncAssumption DEF Taking
  <2> QED BY <2>1, NeedIs, NeedFits
<1>9. /\ x = (RingStart + ((y + u) % RingSize)) + RingSize - (RingStart + (y % RingSize))
      /\ used = ((RingStart + ((y + u) % RingSize)) + RingSize - (RingStart + (y % RingSize))) % RingSize
  <2>1. enc.rxWr = RingStart + ((y + u) % RingSize)
    <3> HIDE DEF y, u
    <3> QED BY <1>2, <1>7 DEF RingPlace, RingSize
  <2>2. Pair(enc.regs, ERXRDPT) = RingStart + (y % RingSize)
    BY <1>2 DEF RingPlace, RingSize
  <2> HIDE DEF y, u
  <2> QED BY <1>1, <2>1, <2>2
<1>10. used = u
  <2> HIDE DEF y, u, used
  <2> QED BY <1>6, <1>7, <1>9, AroundTheEnd
<1>11. used + d < RingSize
  <2>1. CRemainder(x, Turn) = used
    <3>1. x >= 0
      <4> DEFINE m == (y + u) % RingSize
                 k == y % RingSize
      <4>1. m \in 0..RingSize - 1 /\ k \in 0..RingSize - 1
        <5> HIDE DEF y, u
        <5> QED BY <1>6, <1>7, Division
      <4>2. x = (RingStart + m) + RingSize - (RingStart + k)
        BY <1>9
      <4> HIDE DEF m, k, x
      <4> QED BY <1>6, <4>1, <4>2
    <3> HIDE DEF x
    <3> QED BY <3>1 DEF CRemainder
  <2>2. RingSize <= BufferSize /\ BufferSize \in Nat /\ RingSize \in Nat
    BY EncAssumption DEF RingSize
  <2>3. Word \in Nat \ {0}
    BY DEF Word
  <2> HIDE DEF used, d, u, x
  <2>4. used \in 0..Word - 1 /\ used + d \in 0..Word - 1
    <3> HIDE DEF Word
    <3> QED BY <1>7, <1>8, <1>10, <2>2, <2>3
  <2>5. used % Word = used /\ (used + d) % Word = used + d
    <3> HIDE DEF Word
    <3> QED BY <2>3, <2>4, WithinTurn
  <2>6. EncFree(used % Word, d, Turn)
    BY <2>1 DEF Room, d, x
  <2> QED BY <1>1, <2>5, <2>6 DEF EncFree
<1> HIDE DEF used, d, Freed, Gap
<1>12. u + d < RingSize
  BY <1>10, <1>11
<1>13. wire.laid + d - Freed + Gap < RingSize
  BY <1>3, <1>4, <1>8, <1>12
<1> QED BY <1>13 DEF d

(* The packet's bytes follow those laid before it.                         *)
LEMMA PlacesFollow ==
  ASSUME EncInv, Up, Roomy
  PROVE  /\ \A j \in Nat : PlaceOf(j + 1) = RingPlace(wire.laid + j)
         /\ \A f : f.len \in Nat => NextWr(f) = RingPlace(wire.laid + Need(f.len))
<1>1. RingLow = RingStart /\ RingHigh = RingEnd /\ Turn = RingSize
  BY RingSet
<1>2. enc.rxWr = RingStart + (wire.laid % RingSize)
  BY DEF Roomy, RingPlace, RingSize
<1>3. wire.laid \in Nat /\ RingSize \in Nat \ {0} /\ RingStart \in Int
  BY EncAssumption DEF EncInv, EncTypeOK, RingSize
<1> DEFINE m == wire.laid % RingSize
<1>4. m \in Int
  BY <1>3, Division
<1>5. ASSUME NEW j \in Nat PROVE PlaceOf(j + 1) = RingPlace(wire.laid + j)
  <2>1. PlaceOf(j + 1) = RingStart + ((enc.rxWr - RingStart + (j + 1) - 1) % RingSize)
    BY <1>1 DEF PlaceOf
  <2>2. enc.rxWr - RingStart + (j + 1) - 1 = m + j
    <3> HIDE DEF m
    <3>1. enc.rxWr = RingStart + m
      BY <1>2 DEF m
    <3> QED BY <1>3, <1>4, <3>1
  <2>3. (m + j) % RingSize = (wire.laid + j) % RingSize
    <3>1. wire.laid \in Int /\ j \in Int
      BY <1>3
    <3> QED BY <1>3, <3>1, WholeTurns, Zenon
  <2> HIDE DEF m
  <2> QED BY <2>1, <2>2, <2>3 DEF RingPlace, RingSize
<1>6. ASSUME NEW f, f.len \in Nat PROVE NextWr(f) = RingPlace(wire.laid + Need(f.len))
  <2> DEFINE d == Need(f.len)
  <2>0. d \in Nat
    BY <1>6, NeedIs
  <2> HIDE DEF d
  <2>1. NextWr(f) = RingStart + ((enc.rxWr - RingStart + d) % RingSize)
    BY <1>1 DEF NextWr, d
  <2>2. enc.rxWr - RingStart + d = m + d
    <3> HIDE DEF m
    <3>1. enc.rxWr = RingStart + m
      BY <1>2 DEF m
    <3> QED BY <1>3, <1>4, <2>0, <3>1
  <2>3. (m + d) % RingSize = (wire.laid + d) % RingSize
    <3>1. wire.laid \in Int /\ d \in Int
      BY <1>3, <2>0
    <3> QED BY <1>3, <3>1, WholeTurns, Zenon
  <2> HIDE DEF m
  <2> QED BY <2>1, <2>2, <2>3 DEF RingPlace, RingSize, d
<1> QED BY <1>5, <1>6

(* What the frame's bytes have become in the ring, and what the others     *)
(* remain.                                                                 *)
LEMMA AcceptedBytes ==
  ASSUME EncInv, Bounded, Up, Queued, Roomy, ~ HalfWritten, NEW f \in RxFrames, Accepted(f),
         spi' = spi, sent' = sent
  PROVE  LET p == Packet(wire.injected, f, RingPlace(wire.laid + Need(f.len)))
         IN  /\ \A k \in 1..6 + f.len : enc'.buffer[RingPlace(wire.laid + k - 1)] = p[k]
             /\ \A m \in Nat : m >= Freed /\ m < wire.laid => enc'.buffer[RingPlace(m)] = enc.buffer[RingPlace(m)]
<1>1. /\ EncTypeOK /\ enc \in Chips /\ wire.laid \in Nat /\ wire.injected \in Nat /\ f.len \in Nat /\ Fcs \in Nat
  BY EncAssumption DEF EncInv, EncTypeOK
<1>2. /\ \A j \in Nat : PlaceOf(j + 1) = RingPlace(wire.laid + j)
      /\ NextWr(f) = RingPlace(wire.laid + Need(f.len))
  BY <1>1, PlacesFollow, Zenon
<1> DEFINE p == Packet(wire.injected, f, NextWr(f))
           n == Len(p)
           l == wire.laid
           d == Need(f.len)
<1>3. p \in Seq(Int) /\ enc'.buffer = Laying(p)
  BY <1>1, AcceptedIs
<1>4. RingHigh > RingLow
  BY DEF Accepted, Taking
<1>5. n = 6 + f.len + Fcs
  <2>1. NextWr(f) \in Int
    <3>1. NextWr(f) \in Half
      BY <1>1, <1>4, PlacesIn, Zenon
    <3> QED BY <3>1 DEF Half
  <2>2. IsPacket(p, wire.injected, f, NextWr(f))
    BY <1>1, <2>1, PacketIs
  <2> QED BY <2>2 DEF IsPacket
<1>6. d \in Nat /\ n <= d
  BY <1>1, <1>5, SMTT(20) DEF Need
<1>7. Freed \in Nat /\ Freed <= l /\ Gap \in {0, 1}
  BY FreedIs
<1>8. l + d - Freed + Gap < RingSize
  BY RoomIs DEF Accepted
<1> HIDE DEF p, n, l, d, Freed, Gap, NextWr, PlaceOf
<1>9. l \in Nat /\ n \in Nat /\ RingSize \in Nat
  BY <1>1, <1>5, EncAssumption DEF l, RingSize
<1>10. \A k \in 1..n : PlaceOf(k) = RingPlace(l + k - 1) /\ l + k - 1 \in Nat
  <2> TAKE k \in 1..n
  <2>1. k - 1 \in Nat /\ (k - 1) + 1 = k /\ l + (k - 1) = l + k - 1 /\ l + k - 1 \in Nat
    BY <1>9
  <2>2. PlaceOf((k - 1) + 1) = RingPlace(l + (k - 1))
    BY <1>2, <2>1 DEF l
  <2> QED BY <2>1, <2>2
<1>11. ASSUME NEW k \in 1..n PROVE enc'.buffer[RingPlace(l + k - 1)] = p[k]
  <2>1. ASSUME NEW j \in 1..n, j # k PROVE PlaceOf(j) # PlaceOf(k)
    <3>1. l + j - 1 \in Nat /\ l + k - 1 \in Nat
      BY <1>10
    <3>2. l + j - 1 < l + k - 1 \/ l + k - 1 < l + j - 1
      BY <1>9, <2>1
    <3>3. l + j - 1 < (l + k - 1) + RingSize /\ l + k - 1 < (l + j - 1) + RingSize
      BY <1>6, <1>7, <1>8, <1>9
    <3>4. RingPlace(l + j - 1) # RingPlace(l + k - 1)
      <4>1. CASE l + j - 1 < l + k - 1
        BY <3>1, <3>3, <4>1, PlacesDiffer
      <4>2. CASE l + k - 1 < l + j - 1
        BY <3>1, <3>3, <4>2, PlacesDiffer
      <4> QED BY <3>2, <4>1, <4>2
    <3> QED BY <1>10, <3>4
  <2>2. Laying(p)[PlaceOf(k)] = p[k]
    <3>1. k \in 1..Len(p) /\ \A j \in 1..Len(p) : j # k => PlaceOf(j) # PlaceOf(k)
      BY <2>1 DEF n
    <3> QED BY <1>1, <1>3, <1>4, <3>1, LayingIs, Zenon
  <2> QED BY <1>3, <1>10, <2>2
<1>12. ASSUME NEW m \in Nat, m >= Freed, m < l PROVE enc'.buffer[RingPlace(m)] = enc.buffer[RingPlace(m)]
  <2>1. ASSUME NEW k \in 1..n PROVE PlaceOf(k) # RingPlace(m)
    <3>1. l + k - 1 \in Nat /\ m < l + k - 1
      BY <1>9, <1>12
    <3>2. l + k - 1 < m + RingSize
      BY <1>6, <1>7, <1>8, <1>9, <1>12
    <3>3. RingPlace(m) # RingPlace(l + k - 1)
      BY <3>1, <3>2, PlacesDiffer
    <3> QED BY <1>10, <3>3
  <2>2. RingPlace(m) \in Half
    BY RingInRange
  <2>3. \A k \in 1..Len(p) : PlaceOf(k) # RingPlace(m)
    BY <2>1 DEF n
  <2> QED BY <1>1, <1>3, <1>4, <2>2, <2>3, LayingIs, Zenon
<1>13. p = Packet(wire.injected, f, RingPlace(wire.laid + Need(f.len)))
  BY <1>2 DEF p
<1>14. \A k \in 1..6 + f.len : k \in 1..n
  BY <1>1, <1>5
<1> QED BY <1>11, <1>12, <1>13, <1>14 DEF l

LEMMA AcceptedOrder ==
  ASSUME EncInv, Bounded, Up, Queued, Roomy, Reading, ~ HalfWritten, NEW f \in RxFrames, Accepted(f),
         spi' = spi, sent' = sent
  PROVE  Queued' /\ Roomy' /\ Reading'
<1> DEFINE u == Arrived(f)
           n == Len(unread)
           l == wire.laid
           d == Need(f.len)
<1>1. /\ EncTypeOK /\ InStep /\ unread \in Seq(Frames) /\ l \in Nat /\ f.len \in Nat
  BY EncAssumption DEF EncInv, EncTypeOK
<1>2. /\ EncTypeOK' /\ u \in Frames /\ unread' = Append(unread, u) /\ wire'.laid = l + d
      /\ \A r \in Registers : r \notin {EPKTCNT, EIR, <<0, 14>>, <<0, 15>>} => enc'.regs[r] = enc.regs[r]
      /\ enc'.lastCs = enc.lastCs /\ enc'.shift = enc.shift /\ enc'.index = enc.index
      /\ enc'.op = enc.op /\ enc'.addr = enc.addr /\ enc'.out = enc.out /\ enc'.rxWr = NextWr(f)
  BY <1>1, AcceptedIs
<1>3. /\ Program' = Program /\ Now' = Now /\ Over' = Over /\ Done' = Done /\ (Giving' <=> Giving)
  BY <1>1, <1>2, StillIs
<1>4. u.id = wire.injected /\ u.len = f.len /\ u.at = l
  BY DEF Arrived
<1>5. d \in Nat /\ After(u) = l + d
  <2>1. d \in Nat
    BY <1>1, NeedIs
  <2> QED BY <1>4, <2>1 DEF After
<1>6. n \in Nat /\ Len(unread') = n + 1 /\ unread'[n + 1] = u /\ \A i \in 1..n : unread'[i] = unread[i]
  BY <1>1, <1>2
<1>7. \A a \in 0..13 : enc'.regs[<<0, a>>] = enc.regs[<<0, a>>]
  <2>1. \A a \in 0..13 : <<0, a>> \in Registers /\ <<0, a>> \notin {EPKTCNT, EIR, <<0, 14>>, <<0, 15>>}
    BY Names DEF EPKTCNT, EIR
  <2> QED BY <1>2, <2>1
<1>8. Giving \/ spi.doing = "receive" => n > 0
  <2>1. Giving \/ spi.doing = "receive" => enc.regs[EPKTCNT] \in 0..Len(unread) /\ enc.regs[EPKTCNT] > 0
    BY DEF EncInv, Counted
  <2> QED BY <1>6, <2>1
<1> DEFINE A(i) == After(unread[i])
           S(i) == unread[i].at
<1>9. /\ \A i \in 1..n : A(i) <= l
      /\ \A i, j \in 1..n : i < j => A(i) <= S(j)
      /\ \A i \in 1..n : A(i) = IF i < n THEN S(i + 1) ELSE l
      /\ \A i \in 1..n : ~ (Giving /\ i = 1) => IsWhole(unread[i])
  BY DEF Queued
<1>10. \A g : After(g)' = After(g)
  BY DEF After
<1>11. \A i \in 1..n : After(unread'[i]) = A(i) /\ unread'[i].at = S(i) /\ A(i) \in Int
  <2> TAKE i \in 1..n
  <2> DEFINE g == unread[i]
  <2>1. g \in Frames
    BY <1>1
  <2>2. unread'[i] = g
    BY <1>6
  <2> HIDE DEF g
  <2>3. g.at \in Nat /\ g.len \in Nat
    BY <2>1 DEF Frames
  <2>4. After(g) \in Int
    <3>1. Need(g.len) \in Nat
      BY <2>3, NeedIs
    <3> QED BY <2>3, <3>1 DEF After
  <2>5. After(unread'[i]) = After(g) /\ unread'[i].at = g.at
    BY <2>2, Zenon
  <2> QED BY <2>4, <2>5 DEF g
<1>12. After(unread'[n + 1]) = l + d /\ unread'[n + 1].at = l
  BY <1>4, <1>5, <1>6
<1>13. Queued'
  <2> DEFINE W(g) == \A k \in 0..5 + g.len : IsByte(g, k, enc'.buffer[RingPlace(g.at + k)])
  <2> HIDE DEF u, n, l, d, A, S, Giving
  <2>1. \A i \in 1..n + 1 : After(unread'[i]) <= l + d
    <3> TAKE i \in 1..n + 1
    <3>1. CASE i = n + 1
      BY <1>1, <1>5, <1>12, <3>1
    <3>2. CASE i \in 1..n
      BY <1>1, <1>5, <1>9, <1>11, <3>2
    <3> QED BY <1>6, <3>1, <3>2
  <2>2. \A i, j \in 1..n + 1 : i < j => After(unread'[i]) <= unread'[j].at
    <3> TAKE i, j \in 1..n + 1
    <3> HAVE i < j
    <3>1. i \in 1..n
      BY <1>6
    <3>2. CASE j = n + 1
      BY <1>9, <1>11, <1>12, <3>1, <3>2
    <3>3. CASE j \in 1..n
      BY <1>9, <1>11, <3>1, <3>3
    <3> QED BY <1>6, <3>2, <3>3
  <2>3. \A i \in 1..n + 1 : After(unread'[i]) = IF i < n + 1 THEN unread'[i + 1].at ELSE l + d
    <3> TAKE i \in 1..n + 1
    <3>1. CASE i = n + 1
      BY <1>12, <1>6, <3>1
    <3>2. CASE i = n /\ n > 0
      <4>1. i \in 1..n /\ ~ (i < n) /\ i < n + 1
        BY <1>6, <3>2
      <4>2. After(unread'[i]) = l
        BY <1>9, <1>11, <4>1
      <4> QED BY <1>12, <3>2, <4>1, <4>2
    <3>3. CASE i \in 1..n /\ i < n
      <4>1. i + 1 \in 1..n /\ i < n + 1
        BY <1>6, <3>3
      <4>2. After(unread'[i]) = S(i + 1)
        BY <1>9, <1>11, <3>3
      <4> QED BY <1>11, <4>1, <4>2
    <3> QED BY <1>6, <3>1, <3>2, <3>3
  <2>4. ASSUME NEW i \in 1..n + 1, ~ (Giving /\ i = 1) PROVE W(unread'[i])
    <3> DEFINE p == Packet(wire.injected, f, RingPlace(wire.laid + Need(f.len)))
    <3>1. /\ \A k \in 1..6 + f.len : enc'.buffer[RingPlace(l + k - 1)] = p[k]
          /\ \A m \in Nat : m >= Freed /\ m < l => enc'.buffer[RingPlace(m)] = enc.buffer[RingPlace(m)]
      BY AcceptedBytes DEF l
    <3>2. CASE i = n + 1
      <4>1. \A k \in 0..5 + f.len : IsByte(u, k, p[k + 1])
        <5> TAKE k \in 0..5 + f.len
        <5> DEFINE next == RingPlace(wire.laid + Need(f.len))
        <5>1. /\ p[1] = next % LowSize /\ p[2] = next \div LowSize
              /\ p[3] = (f.len + Fcs) % LowSize /\ p[4] = (f.len + Fcs) \div LowSize
              /\ \A j \in 1..f.len : p[6 + j] = FrameBytes(wire.injected, f.len)[j]
          <6>1. next \in Int /\ wire.injected \in Nat
            <7>1. wire.laid + Need(f.len) \in Nat
              BY <1>1, <1>5 DEF l, d
            <7>2. next \in Half
              BY <7>1, RingInRange
            <7> HIDE DEF next
            <7> QED BY <1>1, <7>2 DEF Half, EncTypeOK
          <6>2. IsPacket(Packet(wire.injected, f, next), wire.injected, f, next)
            <7> HIDE DEF next, p
            <7> QED BY <1>1, <6>1, PacketIs
          <6>3. IsPacket(p, wire.injected, f, next)
            BY <6>2
          <6> HIDE DEF next, p
          <6> QED BY <6>3 DEF IsPacket
        <5>2. RingPlace(After(u)) = next
          BY <1>5 DEF l, d
        <5> HIDE DEF next, p
        <5>3. k = 0 => p[k + 1] = RingPlace(After(u)) % LowSize
          BY <5>1, <5>2
        <5>4. k = 1 => p[k + 1] = RingPlace(After(u)) \div LowSize
          BY <5>1, <5>2
        <5>5. k = 2 => p[k + 1] = (u.len + Fcs) % LowSize
          BY <1>4, <5>1
        <5>6. k = 3 => p[k + 1] = (u.len + Fcs) \div LowSize
          BY <1>4, <5>1
        <5>7. ASSUME k \in 6..5 + f.len PROVE p[k + 1] = FrameBytes(wire.injected, f.len)[k - 5]
          <6>1. k - 5 \in 1..f.len /\ 6 + (k - 5) = k + 1
            BY <1>1, <5>7
          <6>2. p[6 + (k - 5)] = FrameBytes(wire.injected, f.len)[k - 5]
            BY <5>1, <6>1
          <6> QED BY <6>1, <6>2
        <5> QED BY <1>4, <5>3, <5>4, <5>5, <5>6, <5>7 DEF IsByte
      <4>2. \A k \in 0..5 + f.len : enc'.buffer[RingPlace(l + k)] = p[k + 1]
        <5> TAKE k \in 0..5 + f.len
        <5>1. k + 1 \in 1..6 + f.len /\ l + (k + 1) - 1 = l + k
          BY <1>1
        <5>2. enc'.buffer[RingPlace(l + (k + 1) - 1)] = p[k + 1]
          BY <3>1, <5>1
        <5> QED BY <5>1, <5>2
      <4> HIDE DEF p
      <4>3. \A k \in 0..5 + u.len : IsByte(u, k, enc'.buffer[RingPlace(u.at + k)])
        BY <1>4, <4>1, <4>2
      <4>4. unread'[i] = u
        BY <1>6, <3>2
      <4> QED BY <4>3, <4>4
    <3>3. CASE i \in 1..n
      <4> DEFINE g == unread[i]
      <4>1. IsWhole(g) /\ g \in Frames /\ unread'[i] = g
        BY <1>1, <1>6, <1>9, <2>4, <3>3 DEF n
      <4>2. Freed <= g.at /\ After(g) <= l
        <5>1. Freed <= S(i)
          BY <2>4, <3>3, FreedIs DEF n, S
        <5>2. A(i) <= l
          BY <1>9, <3>3
        <5> QED BY <5>1, <5>2 DEF A, S
      <4> HIDE DEF g
      <4>3. g.at \in Nat /\ g.len \in Nat /\ Need(g.len) \in Nat /\ Need(g.len) >= 6 + g.len
        <5>1. g.at \in Nat /\ g.len \in Nat
          BY <4>1 DEF Frames
        <5> QED BY <5>1, NeedIs
      <4>4. Freed \in Nat
        BY FreedIs
      <4>5. ASSUME NEW k \in 0..5 + g.len
            PROVE  enc'.buffer[RingPlace(g.at + k)] = enc.buffer[RingPlace(g.at + k)]
        <5> HIDE DEF Freed
        <5>1. g.at + k \in Nat /\ g.at + k >= Freed
          BY <4>2, <4>3, <4>4
        <5>2. g.at + k < l
          BY <1>1, <4>2, <4>3 DEF After
        <5> QED BY <3>1, <5>1, <5>2
      <4>6. \A k \in 0..5 + g.len : IsByte(g, k, enc'.buffer[RingPlace(g.at + k)])
        BY <4>1, <4>5 DEF IsWhole
      <4> QED BY <4>1, <4>6
    <3> QED BY <1>6, <3>2, <3>3
  <2>5. \A i \in 1..n + 1 : ~ (Giving' /\ i = 1) => W(unread'[i])
    <3> HIDE DEF W
    <3> QED BY <1>3, <2>4
  <2>6. \A i \in 1..n + 1 : W(unread'[i]) => IsWhole(unread[i])'
    BY DEF IsWhole, IsByte
  <2>7. \A i \in 1..n + 1 : ~ (Giving' /\ i = 1) => IsWhole(unread[i])'
    <3> HIDE DEF W
    <3> QED BY <2>5, <2>6
  <2>8. \A i \in 1..n + 1 : After(unread[i])' = After(unread'[i])
    BY DEF After
  <2> HIDE DEF After, IsWhole, W
  <2>9. Len(unread') = n + 1 /\ wire'.laid = l + d
    BY <1>2, <1>6
  <2> QED BY <2>1, <2>2, <2>3, <2>7, <2>8, <2>9 DEF Queued
<1>14. First' = First
  <2>1. CASE n = 0
    <3>1. unread = <<>> /\ ~ Giving /\ ~ Giving' /\ unread' # <<>> /\ unread'[1] = u
      <4> HIDE DEF u, n, Giving
      <4>1. ~ Giving /\ ~ Giving'
        BY <1>3, <1>8, <2>1
      <4>2. unread = <<>>
        BY <1>1, <2>1 DEF n
      <4>3. Len(unread') = 1 /\ unread'[1] = u
        BY <1>6, <2>1
      <4> QED BY <4>1, <4>2, <4>3
    <3>2. First = l
      BY <3>1 DEF First
    <3>3. First' = unread'[1].at
      BY <3>1 DEF First
    <3> HIDE DEF First, u
    <3> QED BY <1>4, <3>1, <3>2, <3>3
  <2>2. CASE n > 0
    <3>1. unread # <<>> /\ unread' # <<>> /\ unread'[1] = unread[1]
      BY <1>1, <1>6, <2>2
    <3>2. First = IF Giving THEN After(unread[1]) ELSE unread[1].at
      BY <3>1 DEF First
    <3>3. First' = IF Giving' THEN After(unread'[1]) ELSE unread'[1].at
      BY <3>1 DEF First
    <3> HIDE DEF First, Giving
    <3> QED BY <1>3, <3>1, <3>2, <3>3
  <2>3. n = 0 \/ n > 0
    <3> HIDE DEF n
    <3> QED BY <1>6
  <2> QED BY <2>1, <2>2, <2>3
<1>15. Freed' = Freed
  <2>1. CASE Giving /\ Done < 2
    <3>1. n > 0
      BY <1>8, <2>1
    <3>2. unread'[1] = unread[1]
      <4> HIDE DEF n
      <4>1. 1 \in 1..n
        BY <1>6, <3>1
      <4> QED BY <1>6, <4>1
    <3>3. Freed = unread[1].at
      BY <2>1 DEF Freed
    <3>4. Freed' = unread'[1].at
      <4>1. Giving' /\ Done' < 2
        BY <1>3, <2>1
      <4> QED BY <4>1 DEF Freed
    <3> HIDE DEF Freed
    <3> QED BY <3>2, <3>3, <3>4
  <2>2. CASE ~ (Giving /\ Done < 2)
    <3>1. Freed = First
      BY <2>2 DEF Freed
    <3>2. ~ (Giving' /\ Done' < 2)
      BY <1>3, <2>2
    <3>3. Freed' = First'
      BY <3>2 DEF Freed
    <3> HIDE DEF Freed, First
    <3> QED BY <1>14, <3>1, <3>3
  <2> QED BY <2>1, <2>2
<1>16. Gap' = Gap
  BY <1>15 DEF Gap
<1>17. Pair(enc.regs, ERXRDPT)' = Pair(enc.regs, ERXRDPT) /\ Pair(enc.regs, ERDPT)' = Pair(enc.regs, ERDPT)
       /\ Reg(ERDPT)' = Reg(ERDPT) /\ Reg(ERXRDPT)' = Reg(ERXRDPT)
  BY <1>7 DEF Pair, Reg, ERXRDPT, ERDPT
<1>18. Roomy'
  <2>1. NextWr(f) = RingPlace(l + d)
    BY <1>1, PlacesFollow, Zenon
  <2>2. l + d - Freed + Gap < RingSize
    BY RoomIs DEF Accepted
  <2> HIDE DEF First, Freed, Gap, Pair, Reg, Done, l, d
  <2>3. enc'.rxWr = RingPlace(wire'.laid)
    BY <1>2, <2>1
  <2>4. spi'.next = RingPlace(First')
    BY <1>14 DEF Roomy
  <2>5. wire'.laid - Freed' + Gap' < RingSize
    <3>1. wire'.laid = l + d
      BY <1>2
    <3>2. l + d \in Int /\ l \in Int /\ d \in Int /\ Freed \in Int /\ Gap \in Int
      BY <1>1, <1>5, FreedIs
    <3>3. RingSize \in Int
      BY EncAssumption DEF RingSize
    <3>4. l + d - Freed + Gap < RingSize
      BY <2>2
    <3> DEFINE x == wire'.laid
               y == Freed'
               z == Gap'
               v == l + d
    <3>5. x = v /\ y = Freed /\ z = Gap
      BY <1>15, <1>16, <3>1
    <3>6. x - y + z < RingSize
      <4>1. v \in Int /\ Freed \in Int /\ Gap \in Int /\ v - Freed + Gap < RingSize
        BY <3>2, <3>4
      <4> HIDE DEF x, y, z, v
      <4> QED BY <3>5, <4>1
    <3> QED BY <3>6
  <2>6. IF spi'.doing = "release" /\ Done' = 1
        THEN Reg(ERXRDPT)' = Behind(spi'.next) % LowSize
        ELSE Pair(enc.regs, ERXRDPT)' = RingPlace(Freed' - Gap')
    BY <1>3, <1>15, <1>16, <1>17 DEF Roomy
  <2> QED BY <2>3, <2>4, <2>5, <2>6 DEF Roomy
<1>19. Reading'
  <2>1. ASSUME spi.doing = "receive" PROVE unread'[1] = unread[1]
    <3>1. n > 0
      BY <1>8, <2>1
    <3> HIDE DEF n
    <3>2. 1 \in 1..n
      BY <1>6, <3>1
    <3> QED BY <1>6, <3>2
  <2>2. \A g, k, v : IsByte(g, k, v)' <=> IsByte(g, k, v)
    BY DEF IsByte
  <2> HIDE DEF Pair, Reg, Done
  <2> QED BY <1>2, <1>3, <1>17, <2>1, <2>2 DEF Reading, IsByte
<1> QED BY <1>13, <1>18, <1>19

-----------------------------------------------------------------------------
(***************************************************************************)
(* The invariant along every behavior.                                     *)
(***************************************************************************)
LEMMA AcceptedKeeps ==
  ASSUME EncInv, Bounded, NEW f \in RxFrames, Accepted(f), spi' = spi, sent' = sent
  PROVE  EncInv'
<1>1. EncTypeOK /\ InStep
  BY DEF EncInv
<1>2. /\ EncTypeOK' /\ wire'.torn = (wire.torn \/ HalfWritten)
      /\ enc'.lastCs = enc.lastCs /\ enc'.shift = enc.shift /\ enc'.index = enc.index
      /\ enc'.op = enc.op /\ enc'.addr = enc.addr
  BY <1>1, AcceptedIs
<1>3. InStep' /\ (Up' <=> Up)
  BY <1>1, <1>2, StillIs
<1>4. Configured' /\ Counted' /\ Sending' /\ Captured'
  BY AcceptedRest
<1>5. InOrder'
  <2>1. SUFFICES ASSUME Up', ~ wire'.torn PROVE Queued' /\ Roomy' /\ Reading'
    BY Zenon DEF InOrder
  <2>2. Up /\ ~ wire.torn /\ ~ HalfWritten
    BY <1>2, <1>3, <2>1
  <2>3. Queued /\ Roomy /\ Reading
    BY <2>2 DEF EncInv, InOrder
  <2> QED BY <2>2, <2>3, AcceptedOrder
<1> QED BY <1>2, <1>3, <1>4, <1>5 DEF EncInv

LEMMA InjectKeeps ==
  ASSUME EncInv, Bounded, NEW f \in RxFrames, Inject(f)
  PROVE  EncInv'
<1>1. spi' = spi /\ sent' = sent /\ (Refused(f) \/ Accepted(f))
  BY InjectIs
<1>2. ASSUME Refused(f) PROVE EncInv'
  BY <1>1, <1>2, RefusedKeeps
<1>3. ASSUME Accepted(f) PROVE EncInv'
  BY <1>1, <1>3, AcceptedKeeps
<1> QED BY <1>1, <1>2, <1>3

LEMMA StartsKeep ==
  ASSUME EncInv, StartPoll \/ (\E f \in TxFrames : StartTransmit(f))
  PROVE  EncInv'
<1>1. spi \in Drivers /\ sent \in Seq(Nat)
  BY DEF EncInv, EncTypeOK
<1>2. spi.id \in Nat /\ spi.len \in Nat /\ Len(sent) \in Nat
  BY <1>1 DEF Drivers
<1>3. ASSUME StartPoll PROVE EncInv'
  <2>1. spi' = [spi EXCEPT !.doing = "poll", !.step = 1, !.id = spi.id, !.len = spi.len]
    BY <1>1, <1>3 DEF StartPoll, Drivers
  <2>2. Over /\ UNCHANGED <<enc, wire, unread, sent>>
    BY <1>3 DEF StartPoll
  <2> QED BY <1>2, <2>1, <2>2, StartKeeps
<1>4. ASSUME NEW f \in TxFrames, StartTransmit(f) PROVE EncInv'
  <2>1. /\ spi' = [spi EXCEPT !.doing = "transmit", !.step = 1, !.id = Len(sent), !.len = f.len]
        /\ Over /\ UNCHANGED <<enc, wire, unread, sent>>
    BY <1>4 DEF StartTransmit
  <2>2. f.len \in 1..MaxLen /\ TxStart + f.len < BufferSize
    BY EncAssumption
  <2>3. f.len \in Nat
    BY <2>2, EncAssumption
  <2> QED BY <1>2, <2>1, <2>2, <2>3, StartKeeps
<1> QED BY <1>3, <1>4

LEMMA FirstState ==
  ASSUME EncInit
  PROVE  EncInv /\ Bounded
<1> USE DEF EncInit, Booted
<1>1. ResetRegs \in [Registers -> Int] /\ ResetRegs[EPKTCNT] = 0
  <2>1. EPKTCNT \in Registers /\ EPKTCNT # ECON2 /\ EPKTCNT # ESTAT /\ EPKTCNT # ERXFCON
    BY DEF Registers, EPKTCNT, ECON2, ESTAT, ERXFCON
  <2>2. \A r \in Registers : r # ECON2 /\ r # ESTAT /\ r # ERXFCON => ResetRegs[r] = 0
    BY DEF ResetRegs
  <2>3. \A r \in Registers : ResetRegs[r] \in Int
    BY DEF ResetRegs
  <2>4. ResetRegs = [r \in Registers |-> ResetRegs[r]]
    BY DEF ResetRegs
  <2> HIDE DEF ResetRegs
  <2> QED BY <2>1, <2>2, <2>3, <2>4
<1>2. EncTypeOK
  <2>1. [a \in 0..BufferSize - 1 |-> 0] \in [0..BufferSize - 1 -> Int]
    OBVIOUS
  <2>2. [i \in 0..TxLog - 1 |-> <<>>] \in [0..TxLog - 1 -> Seq(Int)]
    OBVIOUS
  <2>3. <<>> \in Seq(Int \X Int) /\ <<>> \in Seq(Int) /\ <<>> \in Seq(Frames) /\ <<>> \in Seq(Nat)
    OBVIOUS
  <2>4. enc \in Chips
    BY <1>1, <2>1, <2>2, <2>3 DEF Chips
  <2>5. spi \in Drivers
    BY <2>3, EncAssumption DEF Drivers, Doings
  <2>6. wire \in [injected : Nat, restarts : Nat, laid : Nat, torn : BOOLEAN]
    BY EncAssumption
  <2> QED BY <2>3, <2>4, <2>5, <2>6 DEF EncTypeOK
<1>3. /\ spi.doing = "setup" /\ spi.step = 1 /\ ~ spi.selected /\ spi.next = RingStart
      /\ enc.lastCs = 1 /\ enc.regs[EPKTCNT] = 0 /\ enc.count = 0
      /\ unread = <<>> /\ sent = <<>> /\ Len(unread) = 0 /\ Len(sent) = 0
  BY <1>1
<1> HIDE DEF EncInit, Booted
<1>4. Done = 0
  BY <1>3 DEF Done
<1>5. InStep
  <2>1. Len(Program) = 15
    BY <1>3, SetupTable
  <2> HIDE DEF Program
  <2> QED BY <1>3, <2>1 DEF InStep, Over
<1> HIDE DEF Done
<1>6. Configured
  BY <1>3, <1>4 DEF Configured, SettingUp
<1>7. Counted
  BY <1>3 DEF Counted, Promised, Giving
<1>8. InOrder
  BY <1>3, <1>4 DEF InOrder, Up
<1>9. Sending
  BY <1>3 DEF Sending
<1>10. Captured
  BY <1>3 DEF Captured
<1> QED BY <1>2, <1>3, <1>5, <1>6, <1>7, <1>8, <1>9, <1>10 DEF EncInv, Bounded

LEMMA StandsStill ==
  ASSUME EncInv, Bounded, UNCHANGED encvars
  PROVE  EncInv' /\ Bounded'
<1>1. enc' = enc /\ spi' = spi /\ wire' = wire /\ unread' = unread /\ sent' = sent
  BY DEF encvars
<1>2. EncTypeOK'
  BY <1>1 DEF EncInv, EncTypeOK
<1>3. /\ Program' = Program /\ Now' = Now /\ Done' = Done /\ InStep'
      /\ (Up' <=> Up) /\ Copied' = Copied /\ (Giving' <=> Giving)
  BY <1>1, StillIs DEF EncInv
<1>4. /\ \A a : Reg(a)' = Reg(a)
      /\ \A a : Pair(enc.regs, a)' = Pair(enc.regs, a)
      /\ First' = First
  BY <1>1, <1>3 DEF Reg, Pair, First
<1>5. Freed' = Freed
  BY <1>1, <1>3, <1>4 DEF Freed
<1> HIDE DEF Reg, Pair, Done, Copied, First, Freed, Giving, Up, Program, Now
<1>6. Configured'
  BY <1>1, <1>3, <1>4 DEF EncInv, Configured, SettingUp, Running, Holding
<1>7. Counted'
  BY <1>1, <1>3 DEF EncInv, Counted, Promised
<1>8. InOrder'
  <2>1. Queued => Queued'
    BY <1>1, <1>3 DEF Queued, IsWhole, IsByte
  <2>2. Roomy => Roomy'
    BY <1>1, <1>3, <1>4, <1>5 DEF Roomy, Gap
  <2>3. Reading => Reading'
    BY <1>1, <1>3, <1>4 DEF Reading, IsByte
  <2> QED BY <1>1, <1>3, <2>1, <2>2, <2>3 DEF EncInv, InOrder
<1>9. Sending'
  BY <1>1, <1>3, <1>4 DEF EncInv, Sending
<1>10. Captured'
  BY <1>1 DEF EncInv, Captured, Sent
<1>11. Bounded'
  BY <1>1 DEF Bounded, Copying
<1> QED BY <1>2, <1>3, <1>6, <1>7, <1>8, <1>9, <1>10, <1>11 DEF EncInv

LEMMA EveryStepKeeps ==
  ASSUME EncInv, Bounded, [EncNext]_encvars
  PROVE  EncInv' /\ Bounded'
<1>1. CASE UNCHANGED encvars
  BY <1>1, StandsStill
<1>2. CASE StartPoll \/ (\E f \in TxFrames : StartTransmit(f))
  BY <1>2, StartsKeep, BoundedElsewhere
<1>3. CASE Select
  BY <1>3, SelectKeeps, BoundedElsewhere
<1>4. CASE Clock
  BY <1>4, ClockKeeps, BoundedKept
<1>5. CASE Deselect
  BY <1>5, DeselectKeeps, BoundedElsewhere
<1>6. CASE EncCpuReset
  BY <1>6, ResetsKeep, BoundedElsewhere
<1>7. CASE \E f \in RxFrames : Inject(f)
  BY <1>7, InjectKeeps, BoundedElsewhere
<1> QED BY <1>1, <1>2, <1>3, <1>4, <1>5, <1>6, <1>7 DEF EncNext

LEMMA Invariantly == EncSpec => [](EncInv /\ Bounded)
<1>1. EncInit => EncInv /\ Bounded
  BY FirstState
<1>2. EncInv /\ Bounded /\ [EncNext]_encvars => EncInv' /\ Bounded'
  BY EveryStepKeeps
<1> QED BY <1>1, <1>2, PTL DEF EncSpec

(***************************************************************************)
(* The chip and the driver agree on the byte and the bit, the registers    *)
(* hold what the driver has written so far, EPKTCNT counts frames that are *)
(* there, the ring's pointers and bytes are those of the frames accepted   *)
(* and not yet freed, and the log is what was sent.                        *)
(***************************************************************************)
THEOREM EncInvariant == EncSpec => []EncInv
BY Invariantly, PTL

LEMMA FirstUnread ==
  ASSUME EncInv, EPKTCNT \in Registers, spi.doing = "receive"
  PROVE  Len(unread) > 0 /\ unread[1] \in Frames
<1>1. unread \in Seq(Frames)
  BY DEF EncInv, EncTypeOK
<1>2. Len(unread) > 0
  BY <1>1 DEF EncInv, Counted
<1> QED BY <1>1, <1>2

LEMMA Halves ==
  ASSUME NEW v \in Nat
  PROVE  (v % LowSize) + LowSize * (v \div LowSize) = v
<1>1. v \div LowSize \in Nat /\ v % LowSize \in Nat /\ v = LowSize * (v \div LowSize) + (v % LowSize)
  BY EncAssumption, Division
<1> DEFINE l == LowSize * (v \div LowSize)
           r == v % LowSize
<1>2. l \in Int /\ r \in Int /\ v = l + r
  BY <1>1, EncAssumption
<1> HIDE DEF l, r
<1>3. r + l = v
  BY <1>2
<1> QED BY <1>3 DEF l, r

LEMMA PacketRead ==
  ASSUME EncInv, ~ wire.torn, spi.selected, ~ Over, Now.for = "packet", spi.byte = Wanted,
         Len(spi.got) > 7
  PROVE  SubSeq(spi.got, 8, 7 + unread[1].len) = FrameBytes(unread[1].id, unread[1].len)
<1> DEFINE f == unread[1]
           n == f.len + Fcs
           got == spi.got
<1>1. EncTypeOK /\ InStep /\ spi \in Drivers /\ spi.byte \in Nat /\ got \in Seq(Int)
  BY DEF EncInv, EncTypeOK, Drivers
<1>2. Len(got) = spi.byte
  BY <1>1 DEF InStep
<1>3. Fetching
  <2>1. CASE Ordering
    BY <1>1, <2>1, Orders DEF Ordering
  <2>2. CASE ~ Ordering
    BY <1>1, <2>2, Orders, Apart DEF Ordering
  <2> QED BY <2>1, <2>2
<1>4. f \in Frames
  BY <1>3, Names, FirstUnread DEF Fetching
<1>5. f.len \in Nat /\ n \in Nat /\ f.id \in Nat
  BY <1>4, EncAssumption DEF Frames
<1>6. \A k \in 2..spi.byte : IsByte(f, k - 2, got[k])
  <2>1. Up
    BY <1>3 DEF Fetching, Up
  <2>2. Reading
    BY <2>1 DEF EncInv, InOrder
  <2>3. spi.doing = "receive" /\ spi.step = 5 /\ spi.byte > 0
    BY <1>1, <1>2, <1>3 DEF Fetching
  <2> QED BY <2>2, <2>3 DEF Reading
<1>7. got[4] + LowSize * got[5] = n
  <2>1. IsByte(f, 2, got[4]) /\ IsByte(f, 3, got[5])
    <3>1. 4 \in 2..spi.byte /\ 5 \in 2..spi.byte
      BY <1>1, <1>2
    <3>2. 4 - 2 = 2 /\ 5 - 2 = 3
      OBVIOUS
    <3> QED BY <1>6, <3>1, <3>2
  <2>2. got[4] = n % LowSize /\ got[5] = n \div LowSize
    BY <2>1 DEF IsByte
  <2> HIDE DEF n, got
  <2> QED BY <1>5, <2>2, Halves
<1>8. spi.byte = 7 + n
  <2>1. Wanted = 1 + (6 + got[4] + LowSize * got[5])
    <3>1. ~ Ordering /\ ~ Copying /\ ~ Resetting /\ ~ Checking /\ ~ Polling
      BY <1>3, Apart DEF Ordering
    <3>2. Len(got) >= 7
      BY <1>1
    <3> QED BY <1>1, <3>1, <3>2, Shape
  <2>2. got[4] \in Int /\ got[5] \in Int
    BY <1>1, <1>2
  <2>3. LowSize * got[5] \in Int
    BY <2>2, EncAssumption
  <2>4. 1 + (6 + got[4] + LowSize * got[5]) = 7 + (got[4] + LowSize * got[5])
    BY <2>2, <2>3
  <2> QED BY <1>7, <2>1, <2>4
<1>9. \A j \in 1..f.len : got[7 + j] = FrameBytes(f.id, f.len)[j]
  <2>1. SUFFICES ASSUME NEW j \in 1..f.len PROVE got[7 + j] = FrameBytes(f.id, f.len)[j]
    OBVIOUS
  <2>2. 7 + j \in 2..spi.byte /\ (7 + j) - 2 = 5 + j /\ 5 + j \in 6..5 + f.len /\ (5 + j) - 5 = j
    BY <1>5, <1>8, EncAssumption, SMTT(20)
  <2>3. IsByte(f, 5 + j, got[7 + j])
    BY <1>6, <2>2
  <2> QED BY <2>2, <2>3 DEF IsByte
<1>10. FrameBytes(f.id, f.len) = [j \in 1..f.len |-> FrameBytes(f.id, f.len)[j]]
  BY DEF FrameBytes
<1>11. SubSeq(got, 8, 7 + f.len) = [j \in 1..f.len |-> got[7 + j]]
  <2>1. 8..7 + f.len \subseteq 1..Len(got)
    BY <1>2, <1>5, <1>8, EncAssumption, SMTT(20)
  <2>2. SubSeq(got, 8, 7 + f.len) = [j \in 1..((7 + f.len) - 8 + 1) |-> got[8 + j - 1]]
    BY <2>1, <1>1, <1>5, SubSeqProperties, SMTT(20)
  <2>3. (7 + f.len) - 8 + 1 = f.len
    BY <1>5
  <2>4. \A j \in 1..f.len : 8 + j - 1 = 7 + j
    BY <1>5
  <2> QED BY <2>2, <2>3, <2>4
<1> QED BY <1>9, <1>10, <1>11

(***************************************************************************)
(* What the driver clocks out of the buffer is the oldest accepted frame,  *)
(* whole, around the end of the ring and whatever arrives, is refused or   *)
(* is reset meanwhile, unless a frame came by a half-written ERXRDPT; and  *)
(* EPKTCNT never promises a frame that is not there (inject_rx, EncFree,   *)
(* commit_read).                                                           *)
(***************************************************************************)
THEOREM ReceivedInOrder == EncSpec => []ReceivesInOrder
<1>1. EncInv => ReceivesInOrder
  <2>1. ASSUME EncInv PROVE enc.regs[EPKTCNT] <= Len(unread)
    BY <2>1 DEF EncInv, Counted
  <2> QED BY <2>1, PacketRead DEF ReceivesInOrder
<1> QED BY <1>1, EncInvariant, PTL

LEMMA ChainHeld ==
  ASSUME EncInv, Up, ~ wire.torn
  PROVE  ChainIsWhole
<1>1. Queued
  BY DEF EncInv, InOrder
<1>2. EncTypeOK /\ InStep /\ unread \in Seq(Frames) /\ spi \in Drivers
  BY DEF EncInv, EncTypeOK
<1>3. Giving => Releasing
  <2>1. SUFFICES ASSUME Giving PROVE Releasing
    OBVIOUS
  <2>2. spi.doing = "release" /\ Done < 3 /\ spi.step \in Nat /\ spi.byte \in Nat
    BY <1>2, <2>1 DEF Giving, Drivers
  <2>3. Done >= spi.step - 1 /\ Done \in Nat
    BY <1>2, <2>2, DoneIs
  <2>4. ~ Over
    <3>1. Len(Program) = 3
      BY <2>2, ReleaseTable
    <3> QED BY <2>2, <2>3, <3>1 DEF Over
  <2>5. ~ (spi.step = 3 /\ spi.selected /\ spi.byte = 2)
    <3>1. SUFFICES ASSUME spi.step = 3, spi.selected, spi.byte = 2 PROVE FALSE
      OBVIOUS
    <3>2. Len(Now.out) = 2
      <4>1. Program[3].out = <<BFS + 30, PKTDEC>>
        BY <2>2, ReleaseTable
      <4>2. Now.out = <<BFS + 30, PKTDEC>>
        BY <3>1, <4>1 DEF Now
      <4> QED BY <4>2
    <3> QED BY <1>2, <2>2, <3>1, <3>2, DoneIs
  <2> QED BY <2>2, <2>4, <2>5 DEF Releasing
<1>4. SUFFICES ASSUME NEW i \in (IF Releasing THEN 2 ELSE 1)..Len(unread)
      PROVE  LET f == unread[i]
                 byte(k) == enc.buffer[RingPlace(f.at + k)]
             IN  /\ byte(0) + LowSize * byte(1) = RingPlace(f.at + Need(f.len))
                 /\ \A k \in 1..f.len : byte(5 + k) = FrameBytes(f.id, f.len)[k]
  BY DEF ChainIsWhole
<1> DEFINE f == unread[i]
           v == RingPlace(f.at + Need(f.len))
<1>5. i \in 1..Len(unread) /\ f \in Frames /\ ~ (Giving /\ i = 1)
  BY <1>2, <1>3
<1>6. f.len \in Nat /\ f.at \in Nat
  BY <1>5 DEF Frames
<1>7. \A k \in 0..5 + f.len : IsByte(f, k, enc.buffer[RingPlace(f.at + k)])
  BY <1>1, <1>5 DEF Queued, IsWhole
<1>8. enc.buffer[RingPlace(f.at + 0)] + LowSize * enc.buffer[RingPlace(f.at + 1)] = v
  <2>1. enc.buffer[RingPlace(f.at + 0)] = v % LowSize /\ enc.buffer[RingPlace(f.at + 1)] = v \div LowSize
    BY <1>6, <1>7 DEF IsByte, After
  <2>2. v \in Nat
    <3>0. Need(f.len) \in Nat
      BY <1>6, NeedIs
    <3>1. f.at + Need(f.len) \in Nat
      BY <1>6, <3>0
    <3>2. v \in RingStart..RingEnd
      BY <3>1, RingInRange
    <3> QED BY <3>2, EncAssumption
  <2> HIDE DEF v
  <2> QED BY <2>1, <2>2, Halves
<1>9. ASSUME NEW k \in 1..f.len
      PROVE  enc.buffer[RingPlace(f.at + (5 + k))] = FrameBytes(f.id, f.len)[k]
  <2>1. 5 + k \in 0..5 + f.len /\ 5 + k \in 6..5 + f.len /\ (5 + k) - 5 = k
    BY <1>6
  <2>2. IsByte(f, 5 + k, enc.buffer[RingPlace(f.at + (5 + k))])
    BY <1>7, <2>1
  <2> QED BY <2>1, <2>2 DEF IsByte
<1> QED BY <1>8, <1>9

(***************************************************************************)
(* Once the chip is initialised, and as long as no frame is accepted by a  *)
(* half-written ERXRDPT, every accepted frame stays in the ring as it came *)
(* until it is read, its header naming the place of the next: an arrival   *)
(* never lays a byte over one that was not freed (inject_rx).              *)
(***************************************************************************)
THEOREM ChainStaysWhole == EncSpec => [](Up /\ ~ wire.torn => ChainIsWhole)
<1>1. EncInv => (Up /\ ~ wire.torn => ChainIsWhole)
  BY ChainHeld
<1> QED BY <1>1, EncInvariant, PTL

(***************************************************************************)
(* Each of the latest TxLog frames is captured as the driver wrote it,     *)
(* padded, under its own index, whatever is received or reset meanwhile    *)
(* (do_transmit).                                                          *)
(***************************************************************************)
THEOREM TransmittedWhole == EncSpec => []TransmitsWhole
<1>1. ASSUME EncInv PROVE TransmitsWhole
  <2>1. enc.count = Len(sent) /\ \A i \in 0..Len(sent) - 1 : i >= Len(sent) - TxLog => Sent(i)
    BY <1>1 DEF EncInv, Captured
  <2>2. Len(sent) \in Nat
    BY <1>1 DEF EncInv, EncTypeOK
  <2>3. SUFFICES ASSUME NEW i \in (IF Len(sent) > TxLog THEN Len(sent) - TxLog ELSE 0)..Len(sent) - 1
        PROVE  LET len == sent[i + 1]
               IN  /\ enc.count = Len(sent)
                   /\ enc.log[i % TxLog] = FrameBytes(50 + i, len)
                                    \o [k \in 1..(IF len < PadTo THEN PadTo - len ELSE 0) |-> 0]
    BY DEF TransmitsWhole
  <2>4. i \in 0..Len(sent) - 1 /\ i >= Len(sent) - TxLog
    BY <2>2, EncAssumption
  <2> QED BY <2>1, <2>4 DEF Sent
<1> QED BY <1>1, EncInvariant, PTL

=============================================================================
