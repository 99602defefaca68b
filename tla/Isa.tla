-------------------------------- MODULE Isa --------------------------------
(***************************************************************************)
(* The instruction set of opcodes.c, one action per group of handlers, on  *)
(* real bytes: an action is guarded by the opcodes op_setptrs() gives it,  *)
(* reads its operands where the handlers do and in their order, and leaves *)
(* the flags, the registers and the PC as they do; tick() adds the parity. *)
(* How many cycles it costs, and what interrupts it, is Core's.            *)
(*                                                                         *)
(* Port 1 has an external drive and a subscriber, so that reading it gives *)
(* the pins while mSFR holds the latch.                                    *)
(***************************************************************************)
EXTENDS Integers, Sequences

CONSTANTS
  CodeSize,   \* bytes of code memory, mCodeMemMaxIdx + 1
  ExtSize,    \* bytes of external data memory
  HasUpper    \* the part has the upper 128 bytes of internal memory

ASSUME IsaAssumption ==
  /\ CodeSize \in Nat \ {0} /\ ExtSize \in Nat \ {0} /\ HasUpper \in BOOLEAN

Byte == 0..255
Address == 0..65536 - 1

VARIABLES
  code,    \* code memory where it was loaded, 0 elsewhere
  pins,    \* the bits of port 1 driven from outside, and their levels
  mem,     \* internal memory in use, by direct address; upper byte a is 256 + a
  ext,     \* external data memory
  pc,
  told,    \* what port 1's subscriber was last told (history)
  faults   \* exceptions of the last instruction

vars == <<code, pins, mem, ext, pc, told, faults>>

P1 == 144
SP == 129
DPL == 130
DPH == 131
PSW == 208
ACC == 224
B == 240
BadValue == 119

-----------------------------------------------------------------------------
(* Bytes and their bits.                                                   *)

Weight(i) == <<1, 2, 4, 8, 16, 32, 64, 128>>[i + 1]

Bit(x, i) == (x \div Weight(i)) % 2

SetBit(x, i, b) == x + (b - Bit(x, i)) * Weight(i)

BitByBit(f(_, _), x, y) ==
  LET v == [i \in 0..7 |-> f(Bit(x, i), Bit(y, i)) * Weight(i)]
  IN  v[0] + v[1] + v[2] + v[3] + v[4] + v[5] + v[6] + v[7]

And(x, y) == BitByBit(LAMBDA p, q : p * q, x, y)
Or(x, y)  == BitByBit(LAMBDA p, q : p + q - p * q, x, y)
Xor(x, y) == BitByBit(LAMBDA p, q : (p + q) % 2, x, y)

Rel(b) == IF b > 127 THEN b - 256 ELSE b      \* (signed char)

Flag(t) == IF t THEN 1 ELSE 0

Parity(x) ==
  (Bit(x, 0) + Bit(x, 1) + Bit(x, 2) + Bit(x, 3)
     + Bit(x, 4) + Bit(x, 5) + Bit(x, 6) + Bit(x, 7)) % 2

-----------------------------------------------------------------------------
(* Fetching and addressing.                                                *)

Code(a) == IF a % CodeSize \in DOMAIN code THEN code[a % CodeSize] ELSE 0
op      == Code(pc)
Arg(i)  == Code(pc + i)
Row     == op \div 16
Column  == op % 16

A      == mem[ACC]
Carry  == Bit(mem[PSW], 7)
DPTR   == 256 * mem[DPH] + mem[DPL]

RxAddress(n) == n + 8 * ((mem[PSW] \div 8) % 4)

(* Where an indirect access goes; without the upper half it goes nowhere.  *)
Indirect(a) == IF a > 127 THEN 256 + a ELSE a
Exists(p)   == p < 256 \/ HasUpper

PinsOf(latch) == Or(And(latch, 255 - pins.mask), And(pins.level, pins.mask))

ReadMem(p) ==
  CASE p = P1               -> PinsOf(mem[P1])
    [] p # P1 /\ Exists(p)  -> mem[p]
    [] p # P1 /\ ~Exists(p) -> BadValue

Written(m, p, v) == IF Exists(p) THEN [m EXCEPT ![p] = v] ELSE m

(* The operand of a column of the table: A or an immediate byte in column  *)
(* 4, a direct byte, @Ri, Rn.                                              *)
IndirRx == mem[RxAddress(op % 2)]

Place ==
  CASE Column = 4      -> ACC
    [] Column = 5      -> Arg(1)
    [] Column \in {6, 7} -> Indirect(IndirRx)
    [] Column > 7      -> RxAddress(op % 8)

PlaceLen == IF Column = 5 THEN 2 ELSE 1

Operand    == IF Column = 4 THEN Arg(1) ELSE ReadMem(Place)
OperandLen == IF Column \in {4, 5} THEN 2 ELSE 1

-----------------------------------------------------------------------------
(* How an instruction ends.  A write to place p tells its subscribers.     *)

EndsAt(next, m, p, f) ==
  /\ mem' = [m EXCEPT ![PSW] = SetBit(@, 0, Parity(m[ACC]))]
  /\ pc' = next % 65536 /\ faults' = f
  /\ told' = IF p = P1 THEN m[P1] ELSE told
  /\ UNCHANGED <<code, pins>>

Ends(m, len) == EndsAt(pc + len, m, ACC, {}) /\ UNCHANGED ext

EndsWriting(p, v, m, len) ==
  EndsAt(pc + len, Written(m, p, v), p, {}) /\ UNCHANGED ext

Jumps(taken, m, len) ==
  /\ EndsAt(pc + len + (IF taken THEN Rel(Arg(len - 1)) ELSE 0), m, ACC, {})
  /\ UNCHANGED ext

GoesTo(target) == EndsAt(target, mem, ACC, {}) /\ UNCHANGED ext

SetC(m, b) == [m EXCEPT ![PSW] = SetBit(@, 7, b)]

SetFlags(m, c, ac, ov) ==
  [m EXCEPT ![PSW] = SetBit(SetBit(SetBit(@, 7, c), 6, ac), 2, ov)]

SetA(m, v) == [m EXCEPT ![ACC] = v % 256]

-----------------------------------------------------------------------------
(* Addition and subtraction.                                               *)

\* The overflow taken to be the carry into bit 7.
AddFlagsNoXor(m, x, y, c) ==
  SetFlags(m, (x + y + c) \div 256, ((x % 16) + (y % 16) + c) \div 16,
           ((x % 128) + (y % 128) + c) \div 128)

AddFlags(m, x, y, c) ==
  LET carry == (x + y + c) \div 256
  IN  SetFlags(m, carry, ((x % 16) + (y % 16) + c) \div 16,
               (((x % 128) + (y % 128) + c) \div 128 + carry) % 2)

SubFlags(m, x, y, c) ==
  LET borrow == Flag(x < y + c)
  IN  SetFlags(m, borrow, Flag((x % 16) < (y % 16) + c),
               (Flag((x % 128) < (y % 128) + c) + borrow) % 2)

Add ==
  /\ Row = 2 /\ Column > 3
  /\ Ends(SetA(AddFlags(mem, A, Operand, 0), A + Operand), OperandLen)

Addc ==
  /\ Row = 3 /\ Column > 3
  /\ Ends(SetA(AddFlags(mem, A, Operand, Carry), A + Operand + Carry), OperandLen)

Subb ==
  /\ Row = 9 /\ Column > 3
  /\ Ends(SetA(SubFlags(mem, A, Operand, Carry), A - Operand - Carry), OperandLen)

\* The high digit adjusted on A as it was, not on the sum with 6.
DecimalTwoSteps(a, ac, c) ==
  LET low  == IF a % 16 > 9 \/ ac = 1 THEN a + 6 ELSE a
      high == IF a \div 16 > 9 \/ c = 1 THEN low + 96 ELSE low
  IN  high

Decimal(a, ac, c) ==
  LET low  == IF a % 16 > 9 \/ ac = 1 THEN a + 6 ELSE a
      high == IF low - (low % 16) > 144 \/ c = 1 THEN low + 96 ELSE low
  IN  high

DaA ==
  /\ op = 212
  /\ LET r == Decimal(A, Bit(mem[PSW], 6), Carry)
     IN  Ends(SetA(IF r > 153 THEN SetC(mem, 1) ELSE mem, r), 1)

MulAb ==
  /\ op = 164
  /\ LET r == A * mem[B]
     IN  Ends([SetA(SetFlags(mem, 0, Bit(mem[PSW], 6), Flag(r > 255)), r)
               EXCEPT ![B] = r \div 256], 1)

DivAb ==
  /\ op = 132
  /\ LET by  == mem[B]
         psw == SetFlags(mem, 0, Bit(mem[PSW], 6), Flag(by = 0))
     IN  Ends(IF by = 0 THEN psw
              ELSE [SetA(psw, A \div by) EXCEPT ![B] = A % by], 1)

-----------------------------------------------------------------------------
(* Counting, logic and rotation.                                           *)

Inc ==
  /\ Row = 0 /\ Column > 3
  /\ EndsWriting(Place, (ReadMem(Place) + 1) % 256, mem, PlaceLen)

Dec ==
  /\ Row = 1 /\ Column > 3
  /\ EndsWriting(Place, (ReadMem(Place) + 255) % 256, mem, PlaceLen)

IncDptr ==
  /\ op = 163
  /\ Ends([mem EXCEPT ![DPL] = (@ + 1) % 256,
                      ![DPH] = IF mem[DPL] = 255 THEN (@ + 1) % 256 ELSE @], 1)

OrlA == Row = 4 /\ Column > 3 /\ Ends(SetA(mem, Or(A, Operand)), OperandLen)
AnlA == Row = 5 /\ Column > 3 /\ Ends(SetA(mem, And(A, Operand)), OperandLen)
XrlA == Row = 6 /\ Column > 3 /\ Ends(SetA(mem, Xor(A, Operand)), OperandLen)

(* With A the latch is modified, with an immediate byte what the pins      *)
(* read; ORL reads the pins in both forms.                                 *)

OrlMem ==
  \/ op = 66 /\ EndsWriting(Arg(1), Or(ReadMem(Arg(1)), A), mem, 2)
  \/ op = 67 /\ EndsWriting(Arg(1), Or(ReadMem(Arg(1)), Arg(2)), mem, 3)

AnlMem ==
  \/ op = 82 /\ EndsWriting(Arg(1), And(mem[Arg(1)], A), mem, 2)
  \/ op = 83 /\ EndsWriting(Arg(1), And(ReadMem(Arg(1)), Arg(2)), mem, 3)

XrlMem ==
  \/ op = 98 /\ EndsWriting(Arg(1), Xor(mem[Arg(1)], A), mem, 2)
  \/ op = 99 /\ EndsWriting(Arg(1), Xor(ReadMem(Arg(1)), Arg(2)), mem, 3)

RrA  == op = 3 /\ Ends(SetA(mem, A \div 2 + 128 * (A % 2)), 1)
RlA  == op = 35 /\ Ends(SetA(mem, 2 * A + A \div 128), 1)
RrcA == op = 19 /\ Ends(SetC(SetA(mem, A \div 2 + 128 * Carry), A % 2), 1)
RlcA == op = 51 /\ Ends(SetC(SetA(mem, 2 * A + Carry), A \div 128), 1)
SwapA == op = 196 /\ Ends(SetA(mem, 16 * A + A \div 16), 1)
ClrA == op = 228 /\ Ends(SetA(mem, 0), 1)
CplA == op = 244 /\ Ends(SetA(mem, 255 - A), 1)

-----------------------------------------------------------------------------
(* Moves.                                                                  *)

MovImm ==            \* to A, direct, @Ri, Rn
  /\ Row = 7 /\ Column > 3
  /\ LET len == PlaceLen + 1
     IN  EndsWriting(Place, Arg(len - 1), mem, len)

MovToDirect ==       \* direct from direct, @Ri, Rn
  /\ Row = 8 /\ Column > 4
  /\ IF Column = 5 THEN EndsWriting(Arg(2), ReadMem(Arg(1)), mem, 3)
     ELSE EndsWriting(Arg(1), ReadMem(Place), mem, 2)

MovFromDirect ==     \* @Ri, Rn from direct
  /\ Row = 10 /\ Column > 5
  /\ EndsWriting(Place, ReadMem(Arg(1)), mem, 2)

MovToA ==
  /\ Row = 14 /\ Column > 4
  /\ EndsAt(pc + PlaceLen, SetA(mem, Operand), ACC,
            IF op = 229 /\ Arg(1) = ACC THEN {"ACC_TO_A"} ELSE {})
  /\ UNCHANGED ext

MovFromA ==
  /\ Row = 15 /\ Column > 4
  /\ EndsWriting(Place, A, mem, PlaceLen)

MovDptr == op = 144 /\ Ends([mem EXCEPT ![DPH] = Arg(1), ![DPL] = Arg(2)], 3)

XchA ==              \* the place is written before A
  /\ Row = 12 /\ Column > 4
  /\ EndsAt(pc + PlaceLen, SetA(Written(mem, Place, A), ReadMem(Place)), Place, {})
  /\ UNCHANGED ext

XchdA ==
  /\ op \in {214, 215}
  /\ LET v == ReadMem(Place)
     IN  Ends(SetA(Written(mem, Place, v - (v % 16) + (A % 16)), A - (A % 16) + (v % 16)), 1)

MovcPc == op = 131 /\ Ends(SetA(mem, Code(pc + 1 + A)), 1)

MovcDptr == op = 147 /\ Ends(SetA(mem, Code(DPTR + A)), 1)

ExtAddress == (IF Column = 0 THEN DPTR ELSE IndirRx) % ExtSize

MovxRead == op \in {224, 226, 227} /\ Ends(SetA(mem, ext[ExtAddress]), 1)

MovxWrite ==
  /\ op \in {240, 242, 243}
  /\ ext' = [ext EXCEPT ![ExtAddress] = A]
  /\ EndsAt(pc + 1, mem, ACC, {})

Pushed(m, v) ==
  LET sp == (m[SP] + 1) % 256 IN Written([m EXCEPT ![SP] = sp], Indirect(sp), v)

PushFaults(m) ==
  IF m[SP] = 255 \/ (m[SP] \in 127..254 /\ ~HasUpper) THEN {"STACK"} ELSE {}

Top(m)     == IF Exists(Indirect(m[SP])) THEN m[Indirect(m[SP])] ELSE BadValue
Popped(m)  == [m EXCEPT ![SP] = (@ + 255) % 256]
PopFaults(m) == IF m[SP] = 0 \/ (m[SP] > 127 /\ ~HasUpper) THEN {"STACK"} ELSE {}

Push ==
  /\ op = 192
  /\ EndsAt(pc + 2, Pushed(mem, ReadMem(Arg(1))), ACC, PushFaults(mem))
  /\ UNCHANGED ext

Pop ==
  /\ op = 208
  /\ EndsAt(pc + 2, Written(Popped(mem), Arg(1), Top(mem)), Arg(1), PopFaults(mem))
  /\ UNCHANGED ext

-----------------------------------------------------------------------------
(* Bits.  Testing a bit of a port reads its pins; changing one reads its   *)
(* latch, and so does the test of JBC.                                     *)

BitPlace == IF Arg(1) > 127 THEN Arg(1) - (Arg(1) % 8) ELSE 32 + Arg(1) \div 8
BitNo    == Arg(1) % 8
Tested   == Bit(ReadMem(BitPlace), BitNo)
\* Bits changed in what the pins read.
LatchedFromPins == ReadMem(BitPlace)
Latched  == mem[BitPlace]

ChangeBit(b) == EndsWriting(BitPlace, SetBit(Latched, BitNo, b), mem, 2)

MovCBit == op = 162 /\ Ends(SetC(mem, Tested), 2)
OrlCBit == op = 114 /\ Ends(SetC(mem, Flag(Tested = 1 \/ Carry = 1)), 2)
AnlCBit == op = 130 /\ Ends(SetC(mem, Tested * Carry), 2)
OrlCNbit == op = 160 /\ Ends(SetC(mem, Flag(Tested = 0 \/ Carry = 1)), 2)
AnlCNbit == op = 176 /\ Ends(SetC(mem, (1 - Tested) * Carry), 2)
MovBitC == op = 146 /\ ChangeBit(Carry)
CplBit == op = 178 /\ ChangeBit(1 - Bit(Latched, BitNo))
ClrBit == op = 194 /\ ChangeBit(0)
SetbBit == op = 210 /\ ChangeBit(1)
CplC == op = 179 /\ Ends(SetC(mem, 1 - Carry), 1)
ClrC == op = 195 /\ Ends(SetC(mem, 0), 1)
SetbC == op = 211 /\ Ends(SetC(mem, 1), 1)

-----------------------------------------------------------------------------
(* Jumps and calls.                                                        *)

Page11 == 2048 * ((pc + 2) \div 2048) + 256 * (op \div 32) + Arg(1)

Ajmp == Column = 1 /\ Row % 2 = 0 /\ GoesTo(Page11)

Calls(target, len) ==
  LET back == (pc + len) % 65536
      once == Pushed(mem, back % 256)
  IN  /\ EndsAt(target, Pushed(once, back \div 256), ACC,
                PushFaults(mem) \cup PushFaults(once))
      /\ UNCHANGED ext

Acall == Column = 1 /\ Row % 2 = 1 /\ Calls(Page11, 2)
Lcall == op = 18 /\ Calls(256 * Arg(1) + Arg(2), 3)

Ret ==               \* RETI too: the rest of it is Core's
  /\ op \in {34, 50}
  /\ LET once == Popped(mem)
     IN  EndsAt(256 * Top(mem) + Top(once), Popped(once), ACC,
                PopFaults(mem) \cup PopFaults(once))
  /\ UNCHANGED ext

Ljmp == op = 2 /\ GoesTo(256 * Arg(1) + Arg(2))
Sjmp == op = 128 /\ Jumps(TRUE, mem, 2)
JmpADptr == op = 115 /\ GoesTo(DPTR + A)

Jc  == (op = 64 /\ Jumps(Carry = 1, mem, 2)) \/ (op = 80 /\ Jumps(Carry = 0, mem, 2))
Jz  == op = 96 /\ Jumps(A = 0, mem, 2)
Jnz == op = 112 /\ Jumps(A # 0, mem, 2)
Jb  == op = 32 /\ Jumps(Tested = 1, mem, 3)
Jnb == op = 48 /\ Jumps(Tested = 0, mem, 3)

Jbc ==
  /\ op = 16
  /\ IF Bit(Latched, BitNo) = 1
     THEN EndsAt(pc + 3 + Rel(Arg(2)), [mem EXCEPT ![BitPlace] = SetBit(@, BitNo, 0)],
                 BitPlace, {})
     ELSE EndsAt(pc + 3, mem, ACC, {})
  /\ UNCHANGED ext

\* A comparison of signed bytes.
BelowSigned(x, y) == Rel(x) < Rel(y)

Below(x, y) == x < y

Cjne ==              \* A with an immediate or direct byte; @Ri, Rn with one
  /\ Row = 11 /\ Column > 3
  /\ LET x == IF Column < 6 THEN A ELSE ReadMem(Place)
         y == IF Column = 5 THEN ReadMem(Arg(1)) ELSE Arg(1)
     IN  Jumps(x # y, SetC(mem, Flag(Below(x, y))), 3)

Djnz ==
  /\ Row = 13 /\ (Column = 5 \/ Column > 7)
  /\ LET v == (ReadMem(Place) + 255) % 256
         len == PlaceLen + 1
     IN  EndsAt(pc + len + (IF v # 0 THEN Rel(Arg(len - 1)) ELSE 0),
                Written(mem, Place, v), Place, {})
  /\ UNCHANGED ext

Nop ==
  /\ op \in {0, 165}
  /\ EndsAt(pc + 1, mem, ACC, IF op # 0 THEN {"ILLEGAL_OPCODE"} ELSE {})
  /\ UNCHANGED ext

-----------------------------------------------------------------------------
Instruction ==
  \/ Add \/ Addc \/ Subb \/ DaA \/ MulAb \/ DivAb \/ Inc \/ Dec \/ IncDptr
  \/ OrlA \/ AnlA \/ XrlA \/ OrlMem \/ AnlMem \/ XrlMem
  \/ RrA \/ RlA \/ RrcA \/ RlcA \/ SwapA \/ ClrA \/ CplA
  \/ MovImm \/ MovToDirect \/ MovFromDirect \/ MovToA \/ MovFromA \/ MovDptr
  \/ XchA \/ XchdA \/ MovcPc \/ MovcDptr \/ MovxRead \/ MovxWrite \/ Push \/ Pop
  \/ MovCBit \/ OrlCBit \/ AnlCBit \/ OrlCNbit \/ AnlCNbit
  \/ MovBitC \/ CplBit \/ ClrBit \/ SetbBit \/ CplC \/ ClrC \/ SetbC
  \/ Ajmp \/ Acall \/ Lcall \/ Ret \/ Ljmp \/ Sjmp \/ JmpADptr
  \/ Jc \/ Jz \/ Jnz \/ Jb \/ Jnb \/ Jbc \/ Cjne \/ Djnz \/ Nop

(* Any memory, and any program loaded into all of code memory.             *)
Places == 0..255 \cup 384..511

IsaInit ==
  /\ code \in [0..CodeSize - 1 -> Byte] /\ ext \in [0..ExtSize - 1 -> Byte]
  /\ mem \in [Places -> Byte] /\ pins \in [mask : Byte, level : Byte]
  /\ pc \in Address /\ told = mem[P1] /\ faults = {}

IsaSpec == IsaInit /\ [][Instruction]_vars

-----------------------------------------------------------------------------
(* What the plugin host knows of an instruction before it runs it: where   *)
(* the next one is, and whether it is a conditional jump.                  *)

OpLen ==
  << <<1, 2, 3, 1, 1, 2, 1, 1, 1, 1, 1, 1, 1, 1, 1, 1>>,
     <<3, 2, 3, 1, 1, 2, 1, 1, 1, 1, 1, 1, 1, 1, 1, 1>>,
     <<3, 2, 1, 1, 2, 2, 1, 1, 1, 1, 1, 1, 1, 1, 1, 1>>,
     <<3, 2, 1, 1, 2, 2, 1, 1, 1, 1, 1, 1, 1, 1, 1, 1>>,
     <<2, 2, 2, 3, 2, 2, 1, 1, 1, 1, 1, 1, 1, 1, 1, 1>>,
     <<2, 2, 2, 3, 2, 2, 1, 1, 1, 1, 1, 1, 1, 1, 1, 1>>,
     <<2, 2, 2, 3, 2, 2, 1, 1, 1, 1, 1, 1, 1, 1, 1, 1>>,
     <<2, 2, 2, 1, 2, 3, 2, 2, 2, 2, 2, 2, 2, 2, 2, 2>>,
     <<2, 2, 2, 1, 1, 3, 2, 2, 2, 2, 2, 2, 2, 2, 2, 2>>,
     <<3, 2, 2, 1, 2, 2, 1, 1, 1, 1, 1, 1, 1, 1, 1, 1>>,
     <<2, 2, 2, 1, 1, 1, 2, 2, 2, 2, 2, 2, 2, 2, 2, 2>>,
     <<2, 2, 2, 1, 3, 3, 3, 3, 3, 3, 3, 3, 3, 3, 3, 3>>,
     <<2, 2, 2, 1, 1, 2, 1, 1, 1, 1, 1, 1, 1, 1, 1, 1>>,
     <<2, 2, 2, 1, 1, 3, 1, 1, 2, 2, 2, 2, 2, 2, 2, 2>>,
     <<1, 2, 1, 1, 1, 2, 1, 1, 1, 1, 1, 1, 1, 1, 1, 1>>,
     <<1, 2, 1, 1, 1, 2, 1, 1, 1, 1, 1, 1, 1, 1, 1, 1>> >>[Row + 1][Column + 1]

\* CJNE with a register forgotten.
CondRelNoCjneRx ==
  \/ Column = 0 /\ Row \in 1..7
  \/ op \in 180..183 \/ op = 213 \/ op \in 216..223

CondRel ==
  \/ Column = 0 /\ Row \in 1..7
  \/ op \in 180..191 \/ op = 213 \/ op \in 216..223

-----------------------------------------------------------------------------
(***************************************************************************)
(* After ADD, ADDC and SUBB in every addressing mode A and the flags say   *)
(* what happened to the operands taken as unsigned numbers (C), as signed  *)
(* ones (OV) and as low digits (AC).                                       *)
(***************************************************************************)
SumTold ==
  LET c == IF Row = 2 THEN 0 ELSE Carry
      Sum(x, y) == IF Row = 9 THEN x - y - c ELSE x + y + c
  IN  /\ mem'[ACC] = Sum(A, Operand) % 256
      /\ Bit(mem'[PSW], 7) = Flag(Sum(A, Operand) \notin 0..255)
      /\ Bit(mem'[PSW], 6) = Flag(Sum(A % 16, Operand % 16) \notin 0..15)
      /\ Bit(mem'[PSW], 2) = Flag(Sum(Rel(A), Rel(Operand)) \notin (-128)..127)

FlagsTellTheSum == [][Column > 3 /\ Row \in {2, 3, 9} => SumTold]_vars

(***************************************************************************)
(* DA A turns a sum of packed decimals into a packed decimal: if A and the *)
(* flags are what adding two of them left, low digits that sum to l and    *)
(* high ones to h, A becomes the last two digits of that number and C the  *)
(* third (opcodes.c:1325 doubts it).                                       *)
(***************************************************************************)
SumAdjusted(l, h) ==
  LET sum == 16 * h + l
      n   == 10 * h + l
  IN  A = sum % 256 /\ Bit(mem[PSW], 6) = l \div 16 /\ Carry = sum \div 256 =>
        /\ mem'[ACC] = 16 * ((n \div 10) % 10) + (n % 10)
        /\ Bit(mem'[PSW], 7) = n \div 100

DecimalAddition == [][op = 212 => \A l \in 0..19, h \in 0..18 : SumAdjusted(l, h)]_vars

(***************************************************************************)
(* An instruction that changes one bit of a byte changes it in the latch   *)
(* and leaves the other bits of the latch alone, those of driven pins too: *)
(* "read from the output data latch, not the input pin" (opcodes.c:232).   *)
(* A port's subscriber knows the latch, whatever instruction wrote it.     *)
(***************************************************************************)
NewBit ==
  CASE op = 146        -> Carry
    [] op = 178        -> 1 - Bit(mem[BitPlace], BitNo)
    [] op = 210        -> 1
    [] op \in {16, 194} -> 0

OneBitChanged ==
  \A i \in 0..7 : Bit(mem'[BitPlace], i) = IF i = BitNo THEN NewBit ELSE Bit(mem[BitPlace], i)

LatchKeepsOtherBits ==
  [][/\ told' = mem'[P1]
     /\ op \in {16, 146, 178, 194, 210} /\ BitPlace # PSW => OneBitChanged]_vars

(***************************************************************************)
(* The plugin host's tables predict where an instruction ends: after its   *)
(* bytes, or for a conditional jump also at the offset in its last one.    *)
(***************************************************************************)
Jumping ==
  Column = 1 \/ op \in {2, 18, 34, 50, 115, 128}

HostFollows ==
  [][Jumping \/ LET next == pc + OpLen
                IN  pc' \in {next % 65536} \cup
                            (IF CondRel THEN {(next + Rel(Code(next - 1))) % 65536} ELSE {})]_vars

=============================================================================
