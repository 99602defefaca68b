---------------------------- MODULE IsaProofs ----------------------------
(***************************************************************************)
(* Proofs about the instruction set, for every program, memory and part.   *)
(*                                                                         *)
(* A byte is the eight bits it is spelt with, so that setting one leaves   *)
(* the others; every instruction keeps bytes bytes and tells a port's      *)
(* subscriber what it left in the latch (IsaInv).  On that rest the sums   *)
(* and their flags, the decimal adjustment, the bits of the latch, what    *)
(* the plugin host predicts of an instruction from its opcode, and what    *)
(* the disassembler lists it as.                                           *)
(***************************************************************************)
EXTENDS Disasm, Numbers, TLAPS

(***************************************************************************)
(* Bytes and their bits.                                                   *)
(***************************************************************************)
Bits == {0, 1}
Nos == 0..7

LEMMA Weights ==
  /\ Weight(0) = 1 /\ Weight(1) = 2 /\ Weight(2) = 4 /\ Weight(3) = 8
  /\ Weight(4) = 16 /\ Weight(5) = 32 /\ Weight(6) = 64 /\ Weight(7) = 128
BY DEF Weight

Vectors == [Nos -> Bits]

Spelt(v) ==
  v[0] + 2 * v[1] + 4 * v[2] + 8 * v[3] + 16 * v[4] + 32 * v[5] + 64 * v[6] + 128 * v[7]

LEMMA HalfOf ==
  ASSUME NEW n \in Nat, NEW b \in {0, 1}, NEW x \in Nat, x = b + 2 * n
  PROVE  x % 2 = b /\ x \div 2 = n
<1>1. x = 2 * n + b /\ n \in Int /\ b \in 0..2 - 1 /\ x \in Int /\ 2 \in Nat \ {0}
  OBVIOUS
<1> QED BY <1>1, Remainder, Quotient

LEMMA DigitOf ==
  ASSUME NEW x \in Nat, NEW w \in Nat \ {0}, NEW k \in Bits, NEW n \in Nat, NEW q \in Nat,
         NEW r \in 0..w - 1, q = k + 2 * n, x = w * q + r
  PROVE  (x \div w) % 2 = k
<1>1. x \in Int /\ q \in Int
  OBVIOUS
<1>2. x \div w = q
  BY <1>1, Quotient, ZenonT(40)
<1>3. q % 2 = k
  BY HalfOf DEF Bits
<1> QED BY <1>2, <1>3

LEMMA SpeltBits ==
  ASSUME NEW v \in Vectors
  PROVE  Spelt(v) \in Byte /\ \A i \in Nos : Bit(Spelt(v), i) = v[i]
<1> DEFINE x == Spelt(v)
           a == v[0]
           b == v[1]
           c == v[2]
           d == v[3]
           e == v[4]
           f == v[5]
           g == v[6]
           h == v[7]
<1>b. /\ a \in Bits /\ b \in Bits /\ c \in Bits /\ d \in Bits
      /\ e \in Bits /\ f \in Bits /\ g \in Bits /\ h \in Bits
  BY DEF Vectors, Nos
<1>x. x = a + 2 * b + 4 * c + 8 * d + 16 * e + 32 * f + 64 * g + 128 * h
  BY DEF Spelt
<1> HIDE DEF x, a, b, c, d, e, f, g, h
<1>0. /\ a \in 0..1 /\ b \in 0..1 /\ c \in 0..1 /\ d \in 0..1
      /\ e \in 0..1 /\ f \in 0..1 /\ g \in 0..1 /\ h \in 0..1
  BY <1>b DEF Bits
<1>1. x \in 0..255
  BY <1>0, <1>x
<1>2. x \in Nat
  BY <1>1
<1>3. (x \div 1) % 2 = a
  <2> DEFINE n == b + 2 * c + 4 * d + 8 * e + 16 * f + 32 * g + 64 * h
             q == a + 2 * n
             r == 0
  <2>1. n \in Nat /\ q \in Nat /\ x = 1 * q + r /\ q = a + 2 * n /\ r \in 0..1 - 1
    BY <1>0, <1>x
  <2> HIDE DEF n, q, r
  <2> QED BY <1>b, <1>2, <2>1, DigitOf
<1>4. (x \div 2) % 2 = b
  <2> DEFINE n == c + 2 * d + 4 * e + 8 * f + 16 * g + 32 * h
             q == b + 2 * n
             r == a
  <2>1. n \in Nat /\ q \in Nat /\ x = 2 * q + r /\ q = b + 2 * n /\ r \in 0..2 - 1
    BY <1>0, <1>x
  <2> HIDE DEF n, q, r
  <2> QED BY <1>b, <1>2, <2>1, DigitOf
<1>5. (x \div 4) % 2 = c
  <2> DEFINE n == d + 2 * e + 4 * f + 8 * g + 16 * h
             q == c + 2 * n
             r == a + 2 * b
  <2>1. n \in Nat /\ q \in Nat /\ x = 4 * q + r /\ q = c + 2 * n /\ r \in 0..4 - 1
    BY <1>0, <1>x
  <2> HIDE DEF n, q, r
  <2> QED BY <1>b, <1>2, <2>1, DigitOf
<1>6. (x \div 8) % 2 = d
  <2> DEFINE n == e + 2 * f + 4 * g + 8 * h
             q == d + 2 * n
             r == a + 2 * b + 4 * c
  <2>1. n \in Nat /\ q \in Nat /\ x = 8 * q + r /\ q = d + 2 * n /\ r \in 0..8 - 1
    BY <1>0, <1>x
  <2> HIDE DEF n, q, r
  <2> QED BY <1>b, <1>2, <2>1, DigitOf
<1>7. (x \div 16) % 2 = e
  <2> DEFINE n == f + 2 * g + 4 * h
             q == e + 2 * n
             r == a + 2 * b + 4 * c + 8 * d
  <2>1. n \in Nat /\ q \in Nat /\ x = 16 * q + r /\ q = e + 2 * n /\ r \in 0..16 - 1
    BY <1>0, <1>x
  <2> HIDE DEF n, q, r
  <2> QED BY <1>b, <1>2, <2>1, DigitOf
<1>8. (x \div 32) % 2 = f
  <2> DEFINE n == g + 2 * h
             q == f + 2 * n
             r == a + 2 * b + 4 * c + 8 * d + 16 * e
  <2>1. n \in Nat /\ q \in Nat /\ x = 32 * q + r /\ q = f + 2 * n /\ r \in 0..32 - 1
    BY <1>0, <1>x
  <2> HIDE DEF n, q, r
  <2> QED BY <1>b, <1>2, <2>1, DigitOf
<1>9. (x \div 64) % 2 = g
  <2> DEFINE n == h
             q == g + 2 * n
             r == a + 2 * b + 4 * c + 8 * d + 16 * e + 32 * f
  <2>1. n \in Nat /\ q \in Nat /\ x = 64 * q + r /\ q = g + 2 * n /\ r \in 0..64 - 1
    BY <1>0, <1>x
  <2> HIDE DEF n, q, r
  <2> QED BY <1>b, <1>2, <2>1, DigitOf
<1>10. (x \div 128) % 2 = h
  <2> DEFINE n == 0
             q == h + 2 * n
             r == a + 2 * b + 4 * c + 8 * d + 16 * e + 32 * f + 64 * g
  <2>1. n \in Nat /\ q \in Nat /\ x = 128 * q + r /\ q = h + 2 * n /\ r \in 0..128 - 1
    BY <1>0, <1>x
  <2> HIDE DEF n, q, r
  <2> QED BY <1>b, <1>2, <2>1, DigitOf
<1>11. /\ Bit(x, 0) = a /\ Bit(x, 1) = b /\ Bit(x, 2) = c /\ Bit(x, 3) = d
       /\ Bit(x, 4) = e /\ Bit(x, 5) = f /\ Bit(x, 6) = g /\ Bit(x, 7) = h
  BY <1>3, <1>4, <1>5, <1>6, <1>7, <1>8, <1>9, <1>10, Weights DEF Bit
<1>12. ASSUME NEW i \in Nos PROVE i \in {0, 1, 2, 3, 4, 5, 6, 7}
  BY DEF Nos
<1>13. \A i \in Nos : Bit(x, i) = v[i]
  BY <1>11, <1>12 DEF a, b, c, d, e, f, g, h
<1> QED BY <1>1, <1>13 DEF x, Byte

(***************************************************************************)
(* A byte is what its bits spell.                                          *)
(***************************************************************************)
LEMMA BitsSpell ==
  ASSUME NEW x \in Byte
  PROVE  \E v \in Vectors : x = Spelt(v)
<1>1. ASSUME NEW n \in Nat PROVE n \div 2 \in Nat /\ n % 2 \in Bits /\ n = (n % 2) + 2 * (n \div 2)
  BY Division DEF Bits
<1> DEFINE q1 == x \div 2
           q2 == q1 \div 2
           q3 == q2 \div 2
           q4 == q3 \div 2
           q5 == q4 \div 2
           q6 == q5 \div 2
           q7 == q6 \div 2
           q8 == q7 \div 2
           a == x % 2
           b == q1 % 2
           c == q2 % 2
           d == q3 % 2
           e == q4 % 2
           f == q5 % 2
           g == q6 % 2
           h == q7 % 2
<1>2. x \in Nat /\ x <= 255
  BY DEF Byte
<1>3. q1 \in Nat /\ a \in Bits /\ x = a + 2 * q1
  BY <1>1, <1>2
<1> HIDE DEF q1, a
<1>4. q2 \in Nat /\ b \in Bits /\ q1 = b + 2 * q2
  BY <1>1, <1>3
<1> HIDE DEF q2, b
<1>5. q3 \in Nat /\ c \in Bits /\ q2 = c + 2 * q3
  BY <1>1, <1>4
<1> HIDE DEF q3, c
<1>6. q4 \in Nat /\ d \in Bits /\ q3 = d + 2 * q4
  BY <1>1, <1>5
<1> HIDE DEF q4, d
<1>7. q5 \in Nat /\ e \in Bits /\ q4 = e + 2 * q5
  BY <1>1, <1>6
<1> HIDE DEF q5, e
<1>8. q6 \in Nat /\ f \in Bits /\ q5 = f + 2 * q6
  BY <1>1, <1>7
<1> HIDE DEF q6, f
<1>9. q7 \in Nat /\ g \in Bits /\ q6 = g + 2 * q7
  BY <1>1, <1>8
<1> HIDE DEF q7, g
<1>10. q8 \in Nat /\ h \in Bits /\ q7 = h + 2 * q8
  BY <1>1, <1>9
<1> HIDE DEF q8, h
<1>11. x = a + 2 * b + 4 * c + 8 * d + 16 * e + 32 * f + 64 * g + 128 * h
  <2>1. /\ a \in 0..1 /\ b \in 0..1 /\ c \in 0..1 /\ d \in 0..1
        /\ e \in 0..1 /\ f \in 0..1 /\ g \in 0..1 /\ h \in 0..1
    BY <1>3, <1>4, <1>5, <1>6, <1>7, <1>8, <1>9, <1>10 DEF Bits
  <2>2. x = a + 2 * b + 4 * c + 8 * d + 16 * q4
    BY <1>3, <1>4, <1>5, <1>6, <2>1
  <2>3. q4 = e + 2 * f + 4 * g + 8 * h + 16 * q8
    BY <1>6, <1>7, <1>8, <1>9, <1>10, <2>1
  <2>4. q8 = 0
    BY <1>2, <1>6, <1>10, <2>1, <2>2, <2>3
  <2> QED BY <2>1, <2>2, <2>3, <2>4
<1> DEFINE v == [i \in Nos |-> IF i = 0 THEN a ELSE IF i = 1 THEN b ELSE IF i = 2 THEN c ELSE
                              IF i = 3 THEN d ELSE IF i = 4 THEN e ELSE IF i = 5 THEN f ELSE
                              IF i = 6 THEN g ELSE h]
<1>12. v \in Vectors
  BY <1>3, <1>4, <1>5, <1>6, <1>7, <1>8, <1>9, <1>10 DEF Vectors
<1>13. /\ v[0] = a /\ v[1] = b /\ v[2] = c /\ v[3] = d
       /\ v[4] = e /\ v[5] = f /\ v[6] = g /\ v[7] = h
  BY DEF Nos
<1> HIDE DEF v
<1>14. x = Spelt(v)
  BY <1>11, <1>13 DEF Spelt
<1> QED BY <1>12, <1>14

(***************************************************************************)
(* A bit that is set leaves the others alone.                              *)
(***************************************************************************)
LEMMA SetBitIs ==
  ASSUME NEW x \in Byte, NEW i \in Nos, NEW n \in Bits
  PROVE  /\ SetBit(x, i, n) \in Byte /\ Bit(x, i) \in Bits
         /\ \A j \in Nos : Bit(SetBit(x, i, n), j) = IF j = i THEN n ELSE Bit(x, j)
<1>1. PICK v \in Vectors : x = Spelt(v)
  BY BitsSpell
<1> DEFINE u == [v EXCEPT ![i] = n]
<1>2. Bit(x, i) = v[i] /\ v[i] \in Bits /\ \A j \in Nos : Bit(x, j) = v[j]
  BY <1>1, SpeltBits DEF Vectors
<1>3. u \in Vectors /\ \A j \in Nos : u[j] = IF j = i THEN n ELSE v[j]
  BY <1>1 DEF Vectors
<1>4. SetBit(x, i, n) = Spelt(u)
  <2>1. i \in {0, 1, 2, 3, 4, 5, 6, 7}
    BY DEF Nos
  <2>2. /\ 0 \in Nos /\ 1 \in Nos /\ 2 \in Nos /\ 3 \in Nos
        /\ 4 \in Nos /\ 5 \in Nos /\ 6 \in Nos /\ 7 \in Nos
    BY DEF Nos
  <2>3. /\ v[0] \in Int /\ v[1] \in Int /\ v[2] \in Int /\ v[3] \in Int
        /\ v[4] \in Int /\ v[5] \in Int /\ v[6] \in Int /\ v[7] \in Int /\ n \in Int
    BY <1>1, <2>2 DEF Vectors, Bits
  <2> HIDE DEF u
  <2>4. SetBit(x, i, n) = x + (n - v[i]) * Weight(i)
    BY <1>2 DEF SetBit
  <2>5. x = v[0] + 2 * v[1] + 4 * v[2] + 8 * v[3] + 16 * v[4] + 32 * v[5] + 64 * v[6] + 128 * v[7]
    BY <1>1 DEF Spelt
  <2>6. Spelt(u) = u[0] + 2 * u[1] + 4 * u[2] + 8 * u[3] + 16 * u[4] + 32 * u[5] + 64 * u[6] + 128 * u[7]
    BY DEF Spelt
  <2>7. CASE i = 0
    <3>1. /\ u[0] = n /\ u[1] = v[1] /\ u[2] = v[2] /\ u[3] = v[3]
          /\ u[4] = v[4] /\ u[5] = v[5] /\ u[6] = v[6] /\ u[7] = v[7]
      BY <1>3, <2>2, <2>7
    <3> QED BY <2>3, <2>4, <2>5, <2>6, <2>7, <3>1, Weights
  <2>8. CASE i = 1
    <3>1. /\ u[0] = v[0] /\ u[1] = n /\ u[2] = v[2] /\ u[3] = v[3]
          /\ u[4] = v[4] /\ u[5] = v[5] /\ u[6] = v[6] /\ u[7] = v[7]
      BY <1>3, <2>2, <2>8
    <3> QED BY <2>3, <2>4, <2>5, <2>6, <2>8, <3>1, Weights
  <2>9. CASE i = 2
    <3>1. /\ u[0] = v[0] /\ u[1] = v[1] /\ u[2] = n /\ u[3] = v[3]
          /\ u[4] = v[4] /\ u[5] = v[5] /\ u[6] = v[6] /\ u[7] = v[7]
      BY <1>3, <2>2, <2>9
    <3> QED BY <2>3, <2>4, <2>5, <2>6, <2>9, <3>1, Weights
  <2>10. CASE i = 3
    <3>1. /\ u[0] = v[0] /\ u[1] = v[1] /\ u[2] = v[2] /\ u[3] = n
          /\ u[4] = v[4] /\ u[5] = v[5] /\ u[6] = v[6] /\ u[7] = v[7]
      BY <1>3, <2>2, <2>10
    <3> QED BY <2>3, <2>4, <2>5, <2>6, <2>10, <3>1, Weights
  <2>11. CASE i = 4
    <3>1. /\ u[0] = v[0] /\ u[1] = v[1] /\ u[2] = v[2] /\ u[3] = v[3]
          /\ u[4] = n /\ u[5] = v[5] /\ u[6] = v[6] /\ u[7] = v[7]
      BY <1>3, <2>2, <2>11
    <3> QED BY <2>3, <2>4, <2>5, <2>6, <2>11, <3>1, Weights
  <2>12. CASE i = 5
    <3>1. /\ u[0] = v[0] /\ u[1] = v[1] /\ u[2] = v[2] /\ u[3] = v[3]
          /\ u[4] = v[4] /\ u[5] = n /\ u[6] = v[6] /\ u[7] = v[7]
      BY <1>3, <2>2, <2>12
    <3> QED BY <2>3, <2>4, <2>5, <2>6, <2>12, <3>1, Weights
  <2>13. CASE i = 6
    <3>1. /\ u[0] = v[0] /\ u[1] = v[1] /\ u[2] = v[2] /\ u[3] = v[3]
          /\ u[4] = v[4] /\ u[5] = v[5] /\ u[6] = n /\ u[7] = v[7]
      BY <1>3, <2>2, <2>13
    <3> QED BY <2>3, <2>4, <2>5, <2>6, <2>13, <3>1, Weights
  <2>14. CASE i = 7
    <3>1. /\ u[0] = v[0] /\ u[1] = v[1] /\ u[2] = v[2] /\ u[3] = v[3]
          /\ u[4] = v[4] /\ u[5] = v[5] /\ u[6] = v[6] /\ u[7] = n
      BY <1>3, <2>2, <2>14
    <3> QED BY <2>3, <2>4, <2>5, <2>6, <2>14, <3>1, Weights
  <2> QED BY <2>1, <2>7, <2>8, <2>9, <2>10, <2>11, <2>12, <2>13, <2>14
<1> HIDE DEF u
<1> QED BY <1>2, <1>3, <1>4, SpeltBits

LEMMA BitTypes ==
  ASSUME NEW x \in Byte, NEW i \in Nos
  PROVE  Bit(x, i) \in Bits
BY SetBitIs DEF Bits

LEMMA FlagTypes ==
  ASSUME NEW t \in BOOLEAN
  PROVE  Flag(t) \in Bits
BY DEF Flag, Bits

(***************************************************************************)
(* The logical operations work bit by bit.                                 *)
(***************************************************************************)
LEMMA BitByBitIs ==
  ASSUME NEW x \in Byte, NEW y \in Byte
  PROVE  /\ And(x, y) = Spelt([i \in Nos |-> Bit(x, i) * Bit(y, i)])
         /\ Or(x, y) = Spelt([i \in Nos |-> Bit(x, i) + Bit(y, i) - Bit(x, i) * Bit(y, i)])
         /\ Xor(x, y) = Spelt([i \in Nos |-> (Bit(x, i) + Bit(y, i)) % 2])
<1> DEFINE a == [i \in Nos |-> Bit(x, i) * Bit(y, i)]
           o == [i \in Nos |-> Bit(x, i) + Bit(y, i) - Bit(x, i) * Bit(y, i)]
           e == [i \in Nos |-> (Bit(x, i) + Bit(y, i)) % 2]
           Times(v) == [i \in 0..7 |-> v[i] * Weight(i)]
           Sum(t) == t[0] + t[1] + t[2] + t[3] + t[4] + t[5] + t[6] + t[7]
<1>1. \A i \in Nos : Bit(x, i) \in Bits /\ Bit(y, i) \in Bits
  BY BitTypes
<1>2. a \in Vectors
  BY <1>1 DEF Vectors, Bits
<1>3. o \in Vectors
  BY <1>1 DEF Vectors, Bits
<1>4. e \in Vectors
  BY <1>1 DEF Vectors, Bits
<1>5. ASSUME NEW v \in Vectors PROVE Sum(Times(v)) = Spelt(v)
  <2>1. /\ 0 \in Nos /\ 1 \in Nos /\ 2 \in Nos /\ 3 \in Nos
        /\ 4 \in Nos /\ 5 \in Nos /\ 6 \in Nos /\ 7 \in Nos
    BY DEF Nos
  <2>2. /\ v[0] \in Int /\ v[1] \in Int /\ v[2] \in Int /\ v[3] \in Int
        /\ v[4] \in Int /\ v[5] \in Int /\ v[6] \in Int /\ v[7] \in Int
    BY <2>1 DEF Vectors, Bits
  <2>3. \A i \in Nos : Times(v)[i] = v[i] * Weight(i)
    BY DEF Nos
  <2> HIDE DEF Times
  <2> QED BY <2>1, <2>2, <2>3, Weights DEF Spelt
<1>6. And(x, y) = Sum([i \in 0..7 |-> (Bit(x, i) * Bit(y, i)) * Weight(i)])
  BY DEF And, BitByBit
<1>7. Or(x, y) = Sum([i \in 0..7 |-> (Bit(x, i) + Bit(y, i) - Bit(x, i) * Bit(y, i)) * Weight(i)])
  BY DEF Or, BitByBit
<1>8. Xor(x, y) = Sum([i \in 0..7 |-> ((Bit(x, i) + Bit(y, i)) % 2) * Weight(i)])
  BY DEF Xor, BitByBit
<1>9. Times(a) = [i \in 0..7 |-> (Bit(x, i) * Bit(y, i)) * Weight(i)]
  BY DEF Nos
<1>10. Times(o) = [i \in 0..7 |-> (Bit(x, i) + Bit(y, i) - Bit(x, i) * Bit(y, i)) * Weight(i)]
  BY DEF Nos
<1>11. Times(e) = [i \in 0..7 |-> ((Bit(x, i) + Bit(y, i)) % 2) * Weight(i)]
  BY DEF Nos
<1> HIDE DEF Times, Sum
<1>12. And(x, y) = Spelt(a)
  BY <1>2, <1>5, <1>6, <1>9
<1>13. Or(x, y) = Spelt(o)
  BY <1>3, <1>5, <1>7, <1>10
<1>14. Xor(x, y) = Spelt(e)
  BY <1>4, <1>5, <1>8, <1>11
<1> QED BY <1>12, <1>13, <1>14

LEMMA LogicTypes ==
  ASSUME NEW x \in Byte, NEW y \in Byte
  PROVE  And(x, y) \in Byte /\ Or(x, y) \in Byte /\ Xor(x, y) \in Byte
<1> DEFINE a == [i \in Nos |-> Bit(x, i) * Bit(y, i)]
           o == [i \in Nos |-> Bit(x, i) + Bit(y, i) - Bit(x, i) * Bit(y, i)]
           e == [i \in Nos |-> (Bit(x, i) + Bit(y, i)) % 2]
<1>1. \A i \in Nos : Bit(x, i) \in Bits /\ Bit(y, i) \in Bits
  BY BitTypes
<1>2. a \in Vectors /\ o \in Vectors /\ e \in Vectors
  BY <1>1 DEF Vectors, Bits
<1>3. Spelt(a) \in Byte /\ Spelt(o) \in Byte /\ Spelt(e) \in Byte
  <2> HIDE DEF a, o, e
  <2> QED BY <1>2, SpeltBits
<1> QED BY <1>3, BitByBitIs

LEMMA ParityTypes ==
  ASSUME NEW x \in Byte
  PROVE  Parity(x) \in Bits
<1>1. \A i \in Nos : Bit(x, i) \in {0, 1}
  BY BitTypes DEF Bits
<1>2. /\ 0 \in Nos /\ 1 \in Nos /\ 2 \in Nos /\ 3 \in Nos
      /\ 4 \in Nos /\ 5 \in Nos /\ 6 \in Nos /\ 7 \in Nos
  BY DEF Nos
<1> DEFINE s == Bit(x, 0) + Bit(x, 1) + Bit(x, 2) + Bit(x, 3)
                  + Bit(x, 4) + Bit(x, 5) + Bit(x, 6) + Bit(x, 7)
<1>3. s \in Nat
  BY <1>1, <1>2
<1>4. Parity(x) = s % 2
  BY DEF Parity
<1> HIDE DEF s
<1>5. s % 2 \in 0..2 - 1
  BY <1>3, Division
<1> QED BY <1>4, <1>5 DEF Bits

(***************************************************************************)
(* What every state is.  Port 1's subscriber knows the latch.              *)
(***************************************************************************)
Memory == [Places -> Byte]

IsaTypes ==
  /\ code \in [0..CodeSize - 1 -> Byte] /\ ext \in [0..ExtSize - 1 -> Byte]
  /\ mem \in Memory /\ pins \in [mask : Byte, level : Byte]
  /\ pc \in Address

Told == told = mem[P1]

IsaInv == IsaTypes /\ Told

LEMMA Divided ==
  ASSUME NEW x \in Byte
  PROVE  /\ x % 2 \in 0..1 /\ x \div 2 \in 0..127
         /\ x % 8 \in 0..7 /\ x \div 8 \in 0..31
         /\ x % 16 \in 0..15 /\ x \div 16 \in 0..15 /\ x = 16 * (x \div 16) + (x % 16)
         /\ x % 128 \in 0..127 /\ x \div 128 \in 0..1
         /\ x \div 32 \in 0..7
<1>1. x \in Nat /\ x <= 255
  BY DEF Byte
<1>2. ASSUME NEW b \in {2, 8, 16, 32, 128}
      PROVE  x \div b \in Nat /\ x % b \in 0..b - 1 /\ x = b * (x \div b) + (x % b)
  BY <1>1, <1>2, Division
<1>3. x \div 2 \in Nat /\ x % 2 \in 0..1 /\ x = 2 * (x \div 2) + (x % 2)
  BY <1>2
<1>4. x \div 8 \in Nat /\ x % 8 \in 0..7 /\ x = 8 * (x \div 8) + (x % 8)
  BY <1>2
<1>5. x \div 16 \in Nat /\ x % 16 \in 0..15 /\ x = 16 * (x \div 16) + (x % 16)
  BY <1>2
<1>6. x \div 32 \in Nat /\ x % 32 \in 0..31 /\ x = 32 * (x \div 32) + (x % 32)
  BY <1>2
<1>7. x \div 128 \in Nat /\ x % 128 \in 0..127 /\ x = 128 * (x \div 128) + (x % 128)
  BY <1>2
<1> QED BY <1>1, <1>3, <1>4, <1>5, <1>6, <1>7

LEMMA Fetched ==
  ASSUME IsaTypes
  PROVE  \A a \in Int : Code(a) \in Byte
<1> SUFFICES ASSUME NEW a \in Int PROVE Code(a) \in Byte
  OBVIOUS
<1>1. a % CodeSize \in 0..CodeSize - 1
  BY IsaAssumption, DivisionOfInt
<1> QED BY <1>1 DEF Code, IsaTypes, Byte

LEMMA Decoded ==
  ASSUME IsaTypes
  PROVE  /\ op \in Byte /\ Row \in 0..15 /\ Column \in 0..15 /\ op = 16 * Row + Column
         /\ op % 8 \in 0..7 /\ op % 2 \in 0..1
         /\ \A i \in Int : Arg(i) \in Byte
<1>1. pc \in Int
  BY SMTT(20) DEF IsaTypes, Address
<1>2. op \in Byte /\ \A i \in Int : Arg(i) \in Byte
  BY <1>1, Fetched DEF op, Arg
<1> QED BY <1>2, Divided DEF Row, Column

LEMMA PlacesAre ==
  /\ Byte \subseteq Places /\ \A a \in Byte : Indirect(a) \in Places /\ Indirect(a) # P1
  /\ P1 \in Places /\ SP \in Places /\ DPL \in Places /\ DPH \in Places
  /\ PSW \in Places /\ ACC \in Places /\ B \in Places
  /\ P1 # SP /\ P1 # DPL /\ P1 # DPH /\ P1 # PSW /\ P1 # ACC /\ P1 # B
  /\ PSW # SP /\ PSW # DPL /\ PSW # DPH /\ PSW # ACC /\ PSW # B
BY DEF Places, Byte, Indirect, P1, SP, DPL, DPH, PSW, ACC, B

LEMMA RegistersKept ==
  ASSUME IsaTypes
  PROVE  /\ A \in Byte /\ Carry \in Bits /\ mem[PSW] \in Byte /\ mem[B] \in Byte /\ mem[SP] \in Byte
         /\ mem[DPL] \in Byte /\ mem[DPH] \in Byte /\ mem[P1] \in Byte /\ DPTR \in Int
         /\ \A p \in Places : mem[p] \in Byte
<1>1. \A p \in Places : mem[p] \in Byte
  BY DEF IsaTypes, Memory
<1>2. Bit(mem[PSW], 7) \in Bits
  BY <1>1, PlacesAre, BitTypes DEF Nos
<1>3. /\ A \in Byte /\ Carry \in Bits /\ mem[PSW] \in Byte /\ mem[B] \in Byte /\ mem[SP] \in Byte
      /\ mem[DPL] \in Byte /\ mem[DPH] \in Byte /\ mem[P1] \in Byte
  BY <1>1, <1>2, PlacesAre DEF A, Carry
<1>4. mem[DPH] \in Int /\ mem[DPL] \in Int
  BY <1>3 DEF Byte
<1>5. DPTR \in Int
  BY <1>4 DEF DPTR
<1> QED BY <1>1, <1>3, <1>5

(***************************************************************************)
(* Changes to memory that keep bytes and port 1's latch.                   *)
(***************************************************************************)
Kept(m) == m \in Memory /\ m[P1] = mem[P1]

LEMMA ByteRemainder ==
  ASSUME NEW v \in Int
  PROVE  v % 256 \in Byte
BY DivisionOfInt DEF Byte

LEMMA SetAKeeps ==
  ASSUME NEW m, Kept(m), NEW v \in Int
  PROVE  Kept(SetA(m, v)) /\ SetA(m, v)[ACC] = v % 256 /\ SetA(m, v)[PSW] = m[PSW]
BY ByteRemainder, PlacesAre DEF Kept, Memory, SetA

LEMMA SetCKeeps ==
  ASSUME NEW m, Kept(m), NEW b \in Bits
  PROVE  Kept(SetC(m, b)) /\ SetC(m, b)[ACC] = m[ACC] /\ SetC(m, b)[PSW] = SetBit(m[PSW], 7, b)
<1>1. m[PSW] \in Byte /\ 7 \in Nos
  BY PlacesAre DEF Kept, Memory, Nos
<1>2. SetBit(m[PSW], 7, b) \in Byte
  BY <1>1, SetBitIs
<1> QED BY <1>2, PlacesAre DEF Kept, Memory, SetC

LEMMA SetFlagsKeeps ==
  ASSUME NEW m, Kept(m), NEW c \in Bits, NEW ac \in Bits, NEW ov \in Bits
  PROVE  /\ Kept(SetFlags(m, c, ac, ov)) /\ SetFlags(m, c, ac, ov)[ACC] = m[ACC]
         /\ SetFlags(m, c, ac, ov)[PSW] = SetBit(SetBit(SetBit(m[PSW], 7, c), 6, ac), 2, ov)
<1>1. m[PSW] \in Byte /\ 7 \in Nos /\ 6 \in Nos /\ 2 \in Nos
  BY PlacesAre DEF Kept, Memory, Nos
<1>2. SetBit(m[PSW], 7, c) \in Byte
  BY <1>1, SetBitIs
<1>3. SetBit(SetBit(m[PSW], 7, c), 6, ac) \in Byte
  BY <1>1, <1>2, SetBitIs
<1>4. SetBit(SetBit(SetBit(m[PSW], 7, c), 6, ac), 2, ov) \in Byte
  BY <1>1, <1>3, SetBitIs
<1> QED BY <1>4, PlacesAre DEF Kept, Memory, SetFlags

LEMMA WrittenKeeps ==
  ASSUME NEW m, Kept(m), NEW p \in Places, NEW v \in Byte
  PROVE  Written(m, p, v) \in Memory /\ (p # P1 => Kept(Written(m, p, v)))
BY PlacesAre DEF Kept, Memory, Written

LEMMA PushedKeeps ==
  ASSUME NEW m, Kept(m), NEW v \in Byte
  PROVE  Kept(Pushed(m, v))
<1> DEFINE sp == (m[SP] + 1) % 256
           n == [m EXCEPT ![SP] = sp]
<1>1. m[SP] \in Byte
  BY PlacesAre DEF Kept, Memory
<1>2. sp \in Byte
  BY <1>1, ByteRemainder DEF Byte
<1>3. Pushed(m, v) = Written(n, Indirect(sp), v)
  BY DEF Pushed
<1> HIDE DEF sp
<1>4. Kept(n)
  BY <1>2, PlacesAre DEF Kept, Memory
<1> HIDE DEF n
<1> QED BY <1>2, <1>3, <1>4, WrittenKeeps, PlacesAre

LEMMA PoppedKeeps ==
  ASSUME NEW m, Kept(m)
  PROVE  Kept(Popped(m)) /\ Top(m) \in Byte
<1>1. m[SP] \in Byte
  BY PlacesAre DEF Kept, Memory
<1>2. (m[SP] + 255) % 256 \in Byte
  BY <1>1, ByteRemainder DEF Byte
<1>3. Kept(Popped(m))
  BY <1>2, PlacesAre DEF Kept, Memory, Popped
<1>4. m[Indirect(m[SP])] \in Byte
  BY <1>1, PlacesAre DEF Kept, Memory
<1> QED BY <1>3, <1>4 DEF Top, BadValue, Byte

LEMMA MemKept == ASSUME IsaTypes PROVE Kept(mem)
BY DEF IsaTypes, Kept

(***************************************************************************)
(* Operands are bytes.                                                     *)
(***************************************************************************)
LEMMA PinsRead ==
  ASSUME IsaTypes, NEW latch \in Byte
  PROVE  PinsOf(latch) \in Byte
<1>1. pins.mask \in Byte /\ pins.level \in Byte
  BY DEF IsaTypes
<1>2. 255 - pins.mask \in Byte
  BY <1>1 DEF Byte
<1>3. And(latch, 255 - pins.mask) \in Byte /\ And(pins.level, pins.mask) \in Byte
  BY <1>1, <1>2, LogicTypes
<1> QED BY <1>3, LogicTypes DEF PinsOf

LEMMA ReadBytes ==
  ASSUME IsaTypes, NEW p \in Places
  PROVE  ReadMem(p) \in Byte
<1>1. mem[p] \in Byte /\ mem[P1] \in Byte
  BY RegistersKept
<1>2. PinsOf(mem[P1]) \in Byte
  BY <1>1, PinsRead
<1>3. BadValue \in Byte
  BY DEF BadValue, Byte
<1> QED BY <1>1, <1>2, <1>3 DEF ReadMem

LEMMA RxPlaces ==
  ASSUME IsaTypes, NEW n \in 0..7
  PROVE  RxAddress(n) \in 0..31
<1> DEFINE q == mem[PSW] \div 8
           r == q % 4
<1>1. q \in Int
  BY RegistersKept, Divided
<1> HIDE DEF q
<1>2. r \in 0..3
  BY <1>1, DivisionOfInt
<1>3. RxAddress(n) = n + 8 * r
  BY DEF RxAddress, q
<1> HIDE DEF r
<1> QED BY <1>2, <1>3

LEMMA PlaceIs ==
  ASSUME IsaTypes, Column > 3
  PROVE  /\ Place \in Places /\ IndirRx \in Byte
         /\ Column # 5 => Place # P1
         /\ Column = 5 => Place = Arg(1) /\ Place \in Byte
         /\ ReadMem(Place) \in Byte /\ Operand \in Byte
         /\ PlaceLen \in {1, 2} /\ OperandLen \in {1, 2}
<1>1. Column \in 4..15 /\ op % 8 \in 0..7 /\ op % 2 \in 0..7 /\ Arg(1) \in Byte
  BY Decoded
<1>2. RxAddress(op % 8) \in 0..31 /\ RxAddress(op % 2) \in 0..31
  BY <1>1, RxPlaces
<1>3. IndirRx \in Byte
  BY <1>2, RegistersKept, PlacesAre DEF IndirRx, Byte
<1>4. /\ Place \in Places
      /\ Column # 5 => Place # P1
      /\ Column = 5 => Place = Arg(1)
  <2>1. CASE Column = 4
    BY <2>1, PlacesAre DEF Place
  <2>2. CASE Column = 5
    BY <1>1, <2>2, PlacesAre DEF Place
  <2>3. CASE Column \in {6, 7}
    BY <1>3, <2>3, PlacesAre DEF Place
  <2>4. CASE Column > 7
    <3>1. Place = RxAddress(op % 8)
      BY <2>4 DEF Place
    <3> QED BY <1>2, <2>4, <3>1 DEF Places, P1
  <2> QED BY <1>1, <2>1, <2>2, <2>3, <2>4
<1>5. ReadMem(Place) \in Byte
  BY <1>4, ReadBytes
<1> QED BY <1>1, <1>3, <1>4, <1>5 DEF Operand, PlaceLen, OperandLen

(***************************************************************************)
(* How instructions end.                                                   *)
(***************************************************************************)
LEMMA AddressIs ==
  ASSUME NEW n \in Int
  PROVE  n % 65536 \in Address
<1> DEFINE w == 65536
<1>1. w \in Nat \ {0}
  OBVIOUS
<1>2. Address = 0..w - 1
  BY DEF Address
<1> HIDE DEF w
<1>3. n % w \in Address
  BY <1>1, <1>2, DivisionOfInt
<1> QED BY <1>3 DEF w

LEMMA EndsIs ==
  ASSUME NEW m \in Memory, NEW next \in Int, NEW p, NEW f, EndsAt(next, m, p, f)
  PROVE  /\ mem' \in Memory /\ pc' = next % 65536 /\ pc' \in Address
         /\ \A q \in Places \ {PSW} : mem'[q] = m[q]
         /\ mem'[PSW] \in Byte /\ \A j \in Nos \ {0} : Bit(mem'[PSW], j) = Bit(m[PSW], j)
         /\ told' = (IF p = P1 THEN m[P1] ELSE told) /\ code' = code /\ pins' = pins
<1>1. m[ACC] \in Byte /\ m[PSW] \in Byte /\ 0 \in Nos
  BY PlacesAre DEF Memory, Nos
<1> DEFINE s == SetBit(m[PSW], 0, Parity(m[ACC]))
<1>2. s \in Byte /\ \A j \in Nos \ {0} : Bit(s, j) = Bit(m[PSW], j)
  <2>1. Parity(m[ACC]) \in Bits
    BY <1>1, ParityTypes
  <2> DEFINE par == Parity(m[ACC])
             w == m[PSW]
             z == 0
  <2>2. par \in Bits /\ w \in Byte /\ z \in Nos /\ s = SetBit(w, z, par)
    BY <1>1, <2>1
  <2> HIDE DEF par, w, s, z
  <2>3. s \in Byte /\ \A j \in Nos : Bit(s, j) = IF j = z THEN par ELSE Bit(w, j)
    BY <2>2, SetBitIs
  <2> QED BY <2>3 DEF w, z
<1>3. mem' = [m EXCEPT ![PSW] = s]
  BY DEF EndsAt
<1> HIDE DEF s
<1>4. mem' \in Memory /\ mem'[PSW] = s /\ \A q \in Places \ {PSW} : mem'[q] = m[q]
  BY <1>2, <1>3, PlacesAre DEF Memory
<1>5. pc' = next % 65536 /\ pc' \in Address
  BY AddressIs DEF EndsAt
<1> QED BY <1>2, <1>4, <1>5 DEF EndsAt

LEMMA AddressInt == \A a \in Address : a \in Int
BY SMTT(20) DEF Address

LEMMA StateIs ==
  ASSUME IsaInv
  PROVE  pc \in Int /\ mem \in Memory /\ ext \in [0..ExtSize - 1 -> Byte]
BY AddressInt DEF IsaInv, IsaTypes

LEMMA EndsKeep ==
  ASSUME IsaInv, NEW m \in Memory, NEW next \in Int, NEW p, NEW f, EndsAt(next, m, p, f),
         p # P1 => m[P1] = mem[P1], ext' \in [0..ExtSize - 1 -> Byte]
  PROVE  IsaInv'
<1>1. mem'[P1] = m[P1]
  BY EndsIs, PlacesAre
<1> QED BY <1>1, EndsIs DEF IsaInv, IsaTypes, Told

LEMMA EndsStay ==
  ASSUME IsaInv, NEW m, Kept(m), NEW len \in Int, Ends(m, len)
  PROVE  IsaInv'
<1>1. pc + len \in Int
  BY StateIs
<1> QED BY <1>1, EndsKeep DEF Ends, Kept, IsaInv, IsaTypes

LEMMA WritingStays ==
  ASSUME IsaInv, NEW p \in Places, NEW v \in Byte, NEW len \in Int, EndsWriting(p, v, mem, len)
  PROVE  IsaInv'
<1>1. pc + len \in Int
  BY StateIs
<1>2. Written(mem, p, v) \in Memory /\ (p # P1 => Written(mem, p, v)[P1] = mem[P1])
  BY MemKept, WrittenKeeps DEF IsaInv, Kept
<1> QED BY <1>1, <1>2, EndsKeep DEF EndsWriting, IsaInv, IsaTypes

LEMMA RelInt ==
  ASSUME NEW b \in Byte
  PROVE  Rel(b) \in -128..127
BY DEF Rel, Byte

LEMMA JumpsStay ==
  ASSUME IsaInv, NEW t, NEW m, Kept(m), NEW len \in Int, Jumps(t, m, len)
  PROVE  IsaInv'
<1>1. Rel(Arg(len - 1)) \in Int
  BY Decoded, RelInt DEF IsaInv
<1>2. pc + len + (IF t THEN Rel(Arg(len - 1)) ELSE 0) \in Int
  BY <1>1, StateIs
<1> QED BY <1>2, EndsKeep DEF Jumps, Kept, IsaInv, IsaTypes

LEMMA EndsAtStays ==
  ASSUME IsaInv, NEW m, Kept(m), NEW next \in Int, NEW f, EndsAt(next, m, ACC, f), UNCHANGED ext
  PROVE  IsaInv'
BY EndsKeep DEF Kept, IsaInv, IsaTypes

(***************************************************************************)
(* Carries.                                                                *)
(***************************************************************************)
LEMMA CarryIs ==
  ASSUME NEW w \in Nat \ {0}, NEW n \in 0..2 * w - 1
  PROVE  n \div w = Flag(n >= w) /\ n \div w \in Bits
<1>1. CASE n >= w
  <2>1. n - w \in 0..w - 1 /\ n = w * 1 + (n - w) /\ n \in Int /\ 1 \in Int
    BY <1>1
  <2>2. n \div w = 1
    BY <2>1, Quotient
  <2> QED BY <1>1, <2>2 DEF Flag, Bits
<1>2. CASE n < w
  <2>1. n \in 0..w - 1 /\ n = w * 0 + n /\ n \in Int /\ 0 \in Int
    BY <1>2
  <2>2. n \div w = 0
    BY <2>1, Quotient
  <2> QED BY <1>2, <2>2 DEF Flag, Bits
<1> QED BY <1>1, <1>2

LEMMA Carries ==
  ASSUME NEW x \in Byte, NEW y \in Byte, NEW c \in Bits
  PROVE  /\ (x + y + c) \div 256 = Flag(x + y + c >= 256)
         /\ ((x % 16) + (y % 16) + c) \div 16 = Flag((x % 16) + (y % 16) + c >= 16)
         /\ ((x % 128) + (y % 128) + c) \div 128 = Flag((x % 128) + (y % 128) + c >= 128)
<1> DEFINE n == x + y + c
           d == (x % 16) + (y % 16) + c
           s == (x % 128) + (y % 128) + c
<1>1. x % 16 \in 0..15 /\ y % 16 \in 0..15 /\ x % 128 \in 0..127 /\ y % 128 \in 0..127 /\ c \in 0..1
  BY Divided DEF Bits
<1>2. n \in 0..2 * 256 - 1
  BY <1>1 DEF Byte
<1>3. d \in 0..2 * 16 - 1
  BY <1>1
<1>4. s \in 0..2 * 128 - 1
  BY <1>1
<1> HIDE DEF n, d, s
<1>5. n \div 256 = Flag(n >= 256)
  BY <1>2, CarryIs
<1>6. d \div 16 = Flag(d >= 16)
  BY <1>3, CarryIs
<1>7. s \div 128 = Flag(s >= 128)
  BY <1>4, CarryIs
<1> QED BY <1>5, <1>6, <1>7 DEF n, d, s

LEMMA OddBits ==
  ASSUME NEW x \in Bits, NEW y \in Bits
  PROVE  (x + y) % 2 \in Bits /\ (x + y) % 2 = Flag(x # y)
BY DEF Bits, Flag

LEMMA AddFlagsKeeps ==
  ASSUME IsaTypes, NEW x \in Byte, NEW y \in Byte, NEW c \in Bits
  PROVE  Kept(AddFlags(mem, x, y, c)) /\ Kept(SubFlags(mem, x, y, c))
<1> DEFINE h == (x + y + c) \div 256
           d == ((x % 16) + (y % 16) + c) \div 16
           s == ((x % 128) + (y % 128) + c) \div 128
           b == Flag(x < y + c)
           e == Flag((x % 16) < (y % 16) + c)
           t == Flag((x % 128) < (y % 128) + c)
<1>1. h \in Bits /\ d \in Bits /\ s \in Bits
  BY Carries DEF Flag, Bits
<1>2. b \in Bits /\ e \in Bits /\ t \in Bits
  BY DEF Flag, Bits
<1>3. AddFlags(mem, x, y, c) = SetFlags(mem, h, d, (s + h) % 2)
  BY DEF AddFlags
<1>4. SubFlags(mem, x, y, c) = SetFlags(mem, b, e, (t + b) % 2)
  BY DEF SubFlags
<1> HIDE DEF h, d, s, b, e, t
<1>5. (s + h) % 2 \in Bits /\ (t + b) % 2 \in Bits
  BY <1>1, <1>2, OddBits
<1>6. Kept(AddFlags(mem, x, y, c))
  BY <1>1, <1>3, <1>5, MemKept, SetFlagsKeeps
<1>7. Kept(SubFlags(mem, x, y, c))
  BY <1>2, <1>4, <1>5, MemKept, SetFlagsKeeps
<1> QED BY <1>6, <1>7

LEMMA SumsStay ==
  ASSUME IsaInv, Add \/ Addc \/ Subb
  PROVE  IsaInv'
<1>1. IsaTypes /\ Column > 3
  BY DEF IsaInv, Add, Addc, Subb
<1>2. A \in Byte /\ Carry \in Bits /\ Operand \in Byte /\ OperandLen \in Int /\ 0 \in Bits
  BY <1>1, RegistersKept, PlaceIs DEF Bits
<1>3. A + Operand \in Int /\ A + Operand + Carry \in Int /\ A - Operand - Carry \in Int
  BY <1>2 DEF Byte, Bits
<1>4. CASE Add
  <2>1. Kept(AddFlags(mem, A, Operand, 0))
    BY <1>1, <1>2, AddFlagsKeeps
  <2> QED BY <1>2, <1>3, <1>4, <2>1, SetAKeeps, EndsStay DEF Add
<1>5. CASE Addc
  <2>1. Kept(AddFlags(mem, A, Operand, Carry))
    BY <1>1, <1>2, AddFlagsKeeps
  <2> QED BY <1>2, <1>3, <1>5, <2>1, SetAKeeps, EndsStay DEF Addc
<1>6. CASE Subb
  <2>1. Kept(SubFlags(mem, A, Operand, Carry))
    BY <1>1, <1>2, AddFlagsKeeps
  <2> QED BY <1>2, <1>3, <1>6, <2>1, SetAKeeps, EndsStay DEF Subb
<1> QED BY <1>4, <1>5, <1>6

LEMMA DecimalInt ==
  ASSUME NEW a \in Byte, NEW ac, NEW c
  PROVE  Decimal(a, ac, c) \in Int
<1> DEFINE low == IF a % 16 > 9 \/ ac = 1 THEN a + 6 ELSE a
<1>1. low \in Int
  BY DEF Byte
<1>2. Decimal(a, ac, c) = IF low - (low % 16) > 144 \/ c = 1 THEN low + 96 ELSE low
  BY DEF Decimal
<1> HIDE DEF low
<1> QED BY <1>1, <1>2

LEMMA CoprocStay ==
  ASSUME IsaInv, DaA \/ MulAb \/ DivAb
  PROVE  IsaInv'
<1>1. IsaTypes /\ Kept(mem)
  BY MemKept DEF IsaInv
<1>2. A \in Byte /\ mem[B] \in Byte /\ Bit(mem[PSW], 6) \in Bits /\ 0 \in Bits /\ 1 \in Bits
  BY <1>1, RegistersKept, BitTypes DEF Bits, Nos
<1>3. CASE DaA
  <2> DEFINE r == Decimal(A, Bit(mem[PSW], 6), Carry)
             m == IF r > 153 THEN SetC(mem, 1) ELSE mem
  <2>1. r \in Int
    BY <1>2, DecimalInt
  <2>2. Ends(SetA(m, r), 1)
    BY <1>3 DEF DaA
  <2> HIDE DEF r
  <2>3. Kept(m)
    BY <1>1, <1>2, SetCKeeps
  <2> HIDE DEF m
  <2> QED BY <2>1, <2>2, <2>3, SetAKeeps, EndsStay
<1>4. CASE MulAb
  <2> DEFINE r == A * mem[B]
             ov == Flag(r > 255)
             m == SetFlags(mem, 0, Bit(mem[PSW], 6), ov)
             n == SetA(m, r)
             hi == r \div 256
  <2>1. r \in Int /\ r >= 0 /\ r <= 65025
    <3>1. ASSUME NEW x \in 0..255, NEW y \in 0..255 PROVE x * y >= 0 /\ x * y <= 65025
      <4>1. x * y <= 255 * y /\ 0 <= x * y
        OBVIOUS
      <4> QED BY <4>1
    <3> QED BY <1>2, <3>1 DEF Byte
  <2>2. Ends([n EXCEPT ![B] = hi], 1)
    BY <1>4 DEF MulAb
  <2>3. ov \in Bits
    BY DEF Flag, Bits
  <2> HIDE DEF r, ov
  <2>4. hi \in Byte
    BY <2>1 DEF Byte
  <2>5. Kept(n)
    BY <1>1, <1>2, <2>1, <2>3, SetFlagsKeeps, SetAKeeps
  <2> HIDE DEF m, n, hi
  <2>6. Kept([n EXCEPT ![B] = hi])
    BY <2>4, <2>5, PlacesAre DEF Kept, Memory
  <2> QED BY <2>2, <2>6, EndsStay
<1>5. CASE DivAb
  <2> DEFINE by == mem[B]
             ov == Flag(by = 0)
             m == SetFlags(mem, 0, Bit(mem[PSW], 6), ov)
             q == A \div by
             r == A % by
             n == [SetA(m, q) EXCEPT ![B] = r]
  <2>1. by \in Byte /\ ov \in Bits
    BY <1>2, FlagTypes
  <2>2. Ends(IF by = 0 THEN m ELSE n, 1)
    BY <1>5 DEF DivAb
  <2>3. by # 0 => q \in Int /\ r \in Byte
    <3> SUFFICES ASSUME by # 0 PROVE q \in Int /\ r \in Byte
      OBVIOUS
    <3>1. by \in Nat \ {0} /\ by <= 255 /\ A \in Int
      BY <1>2, <2>1 DEF Byte
    <3> HIDE DEF by
    <3>2. q \in Int /\ r \in 0..by - 1
      BY <3>1, DivisionOfInt
    <3> HIDE DEF r
    <3> QED BY <3>1, <3>2 DEF Byte
  <2> HIDE DEF ov, q, r, by
  <2>4. Kept(m)
    BY <1>1, <1>2, <2>1, SetFlagsKeeps
  <2> HIDE DEF m
  <2>5. by # 0 => Kept(n)
    <3> SUFFICES ASSUME by # 0 PROVE Kept(n)
      OBVIOUS
    <3>1. Kept(SetA(m, q)) /\ r \in Byte
      BY <2>3, <2>4, SetAKeeps
    <3> QED BY <3>1, PlacesAre DEF Kept, Memory
  <2> HIDE DEF n
  <2>6. Kept(IF by = 0 THEN m ELSE n)
    BY <2>4, <2>5
  <2> QED BY <2>2, <2>6, EndsStay
<1> QED BY <1>3, <1>4, <1>5

LEMMA CountStays ==
  ASSUME IsaInv, Inc \/ Dec \/ IncDptr
  PROVE  IsaInv'
<1>1. IsaTypes /\ Kept(mem)
  BY MemKept DEF IsaInv
<1>2. ASSUME Column > 3
      PROVE  /\ Place \in Places /\ PlaceLen \in Int
             /\ (ReadMem(Place) + 1) % 256 \in Byte /\ (ReadMem(Place) + 255) % 256 \in Byte
  <2>1. Place \in Places /\ PlaceLen \in Int /\ ReadMem(Place) \in Byte
    BY <1>1, <1>2, PlaceIs
  <2>2. ReadMem(Place) + 1 \in Int /\ ReadMem(Place) + 255 \in Int
    BY <2>1 DEF Byte
  <2> QED BY <2>1, <2>2, ByteRemainder
<1>3. CASE Inc
  BY <1>2, <1>3, WritingStays DEF Inc
<1>4. CASE Dec
  BY <1>2, <1>4, WritingStays DEF Dec
<1>5. CASE IncDptr
  <2> DEFINE lo == (mem[DPL] + 1) % 256
             hi == IF mem[DPL] = 255 THEN (mem[DPH] + 1) % 256 ELSE mem[DPH]
             m == [mem EXCEPT ![DPL] = lo, ![DPH] = hi]
  <2>1. mem[DPL] \in Byte /\ mem[DPH] \in Byte
    BY <1>1, RegistersKept
  <2>2. mem[DPL] + 1 \in Int /\ mem[DPH] + 1 \in Int
    BY <2>1 DEF Byte
  <2>3. lo \in Byte /\ hi \in Byte
    BY <2>1, <2>2, ByteRemainder
  <2>4. DPL # DPH
    BY DEF DPL, DPH
  <2>5. Ends(m, 1)
    BY <1>1, <1>5, <2>4, PlacesAre DEF IncDptr, Kept, Memory
  <2> HIDE DEF lo, hi
  <2>6. Kept(m)
    BY <1>1, <2>3, PlacesAre DEF Kept, Memory
  <2> HIDE DEF m
  <2> QED BY <2>5, <2>6, EndsStay
<1> QED BY <1>3, <1>4, <1>5

LEMMA ByteInt == \A b \in Byte : b \in Int
BY DEF Byte

LEMMA OperandsAre ==
  ASSUME IsaInv
  PROVE  /\ IsaTypes /\ Kept(mem) /\ A \in Byte /\ A \in Int /\ Carry \in Bits /\ 0 \in Bits /\ 1 \in Bits
         /\ Arg(1) \in Byte /\ Arg(2) \in Byte /\ Arg(1) \in Places /\ Arg(2) \in Places
         /\ mem[Arg(1)] \in Byte /\ ReadMem(Arg(1)) \in Byte /\ pc \in Int /\ DPTR \in Int
<1>1. IsaTypes /\ Kept(mem)
  BY MemKept DEF IsaInv
<1>2. A \in Byte /\ Carry \in Bits /\ Arg(1) \in Byte /\ Arg(2) \in Byte
  BY <1>1, RegistersKept, Decoded
<1>3. Arg(1) \in Places /\ Arg(2) \in Places
  BY <1>2, PlacesAre
<1>4. ReadMem(Arg(1)) \in Byte /\ mem[Arg(1)] \in Byte
  BY <1>1, <1>3, ReadBytes, RegistersKept
<1>5. pc \in Int
  BY StateIs
<1>6. DPTR \in Int
  BY <1>1, RegistersKept
<1>7. A \in Int /\ 0 \in Bits /\ 1 \in Bits
  BY <1>2, ByteInt DEF Bits
<1> QED BY <1>1, <1>2, <1>3, <1>4, <1>5, <1>6, <1>7

LEMMA LogicStays ==
  ASSUME IsaInv, OrlA \/ AnlA \/ XrlA \/ OrlMem \/ AnlMem \/ XrlMem
  PROVE  IsaInv'
<1>1. CASE OrlA \/ AnlA \/ XrlA
  <2>1. Column > 3 /\ Operand \in Byte /\ OperandLen \in Int
    BY <1>1, OperandsAre, PlaceIs DEF OrlA, AnlA, XrlA
  <2>2. Or(A, Operand) \in Int /\ And(A, Operand) \in Int /\ Xor(A, Operand) \in Int
    BY <2>1, OperandsAre, LogicTypes, ByteInt
  <2>3. /\ Kept(SetA(mem, Or(A, Operand))) /\ Kept(SetA(mem, And(A, Operand)))
        /\ Kept(SetA(mem, Xor(A, Operand)))
    BY <2>2, OperandsAre, SetAKeeps
  <2> QED BY <1>1, <2>1, <2>3, EndsStay DEF OrlA, AnlA, XrlA
<1>2. CASE OrlMem \/ AnlMem \/ XrlMem
  <2> DEFINE p == Arg(1)
             q == Arg(2)
             r == ReadMem(p)
             l == mem[p]
  <2>1. p \in Places /\ q \in Byte /\ r \in Byte /\ l \in Byte /\ A \in Byte
    BY OperandsAre
  <2>2. /\ Or(r, A) \in Byte /\ Or(r, q) \in Byte /\ And(l, A) \in Byte
        /\ And(r, q) \in Byte /\ Xor(l, A) \in Byte /\ Xor(r, q) \in Byte
    BY <2>1, LogicTypes
  <2>3. PICK v \in Byte : EndsWriting(p, v, mem, 2) \/ EndsWriting(p, v, mem, 3)
    BY <1>2, <2>2 DEF OrlMem, AnlMem, XrlMem
  <2> HIDE DEF p
  <2> QED BY <2>1, <2>3, WritingStays
<1> QED BY <1>1, <1>2

LEMMA RotationsStay ==
  ASSUME IsaInv, RrA \/ RlA \/ RrcA \/ RlcA \/ SwapA \/ ClrA \/ CplA
  PROVE  IsaInv'
<1> DEFINE half == A \div 2
           odd == A % 2
           top == A \div 128
           up == A \div 16
<1>1. half \in Int /\ odd \in Bits /\ top \in Bits /\ up \in Int /\ Carry \in Int /\ A \in Int
  BY OperandsAre, Divided DEF Bits
<1> HIDE DEF half, odd, top, up
<1>2. /\ half + 128 * odd \in Int /\ 2 * A + top \in Int /\ half + 128 * Carry \in Int
      /\ 2 * A + Carry \in Int /\ 16 * A + up \in Int /\ 255 - A \in Int
  BY <1>1 DEF Bits
<1>3. CASE RrA \/ RlA \/ SwapA \/ ClrA \/ CplA
  <2>1. PICK v \in Int : Ends(SetA(mem, v), 1)
    BY <1>2, <1>3 DEF RrA, RlA, SwapA, ClrA, CplA, half, odd, top, up
  <2> QED BY <2>1, OperandsAre, SetAKeeps, EndsStay
<1>4. CASE RrcA \/ RlcA
  <2>1. PICK v \in Int, b \in Bits : Ends(SetC(SetA(mem, v), b), 1)
    BY <1>1, <1>2, <1>4 DEF RrcA, RlcA, half, odd, top, up
  <2>2. Kept(SetA(mem, v))
    BY OperandsAre, SetAKeeps
  <2>3. Kept(SetC(SetA(mem, v), b))
    BY <2>2, SetCKeeps
  <2> QED BY <2>1, <2>3, EndsStay
<1> QED BY <1>3, <1>4

LEMMA MovesStay ==
  ASSUME IsaInv, MovImm \/ MovToDirect \/ MovFromDirect \/ MovToA \/ MovFromA \/ MovDptr
  PROVE  IsaInv'
<1>1. CASE MovImm
  <2> DEFINE len == PlaceLen + 1
  <2>1. Column > 3 /\ EndsWriting(Place, Arg(len - 1), mem, len)
    BY <1>1 DEF MovImm
  <2>2. Place \in Places /\ len \in Int
    BY <2>1, OperandsAre, PlaceIs
  <2> HIDE DEF len
  <2>3. Arg(len - 1) \in Byte
    BY <2>2, OperandsAre, Decoded
  <2> QED BY <2>1, <2>2, <2>3, WritingStays
<1>2. CASE MovToDirect
  <2>1. Column > 3 /\ Arg(1) \in Places /\ Arg(2) \in Places /\ ReadMem(Arg(1)) \in Byte
    BY <1>2, OperandsAre, Decoded DEF MovToDirect
  <2>2. ReadMem(Place) \in Byte
    BY <2>1, OperandsAre, PlaceIs
  <2> QED BY <1>2, <2>1, <2>2, WritingStays DEF MovToDirect
<1>3. CASE MovFromDirect
  <2>1. Column > 3 /\ ReadMem(Arg(1)) \in Byte
    BY <1>3, OperandsAre, Decoded DEF MovFromDirect
  <2>2. Place \in Places
    BY <2>1, OperandsAre, PlaceIs
  <2> QED BY <1>3, <2>1, <2>2, WritingStays DEF MovFromDirect
<1>4. CASE MovToA
  <2>1. Column > 3
    BY <1>4, OperandsAre, Decoded DEF MovToA
  <2>2. Operand \in Int /\ pc + PlaceLen \in Int
    <3>1. Operand \in Byte /\ PlaceLen \in Int
      BY <2>1, OperandsAre, PlaceIs
    <3>2. pc \in Int
      BY OperandsAre
    <3> QED BY <3>1, <3>2, ByteInt
  <2>3. Kept(SetA(mem, Operand))
    BY <2>2, OperandsAre, SetAKeeps
  <2> QED BY <1>4, <2>2, <2>3, EndsAtStays DEF MovToA
<1>5. CASE MovFromA
  <2>1. Column > 3
    BY <1>5, OperandsAre, Decoded DEF MovFromA
  <2>2. Place \in Places /\ PlaceLen \in Int
    BY <2>1, OperandsAre, PlaceIs
  <2> QED BY <1>5, <2>2, OperandsAre, WritingStays DEF MovFromA
<1>6. CASE MovDptr
  <2> DEFINE m == [mem EXCEPT ![DPH] = Arg(1), ![DPL] = Arg(2)]
  <2>1. Ends(m, 3)
    BY <1>6 DEF MovDptr
  <2>2. Arg(1) \in Byte /\ Arg(2) \in Byte /\ Kept(mem)
    BY OperandsAre
  <2>3. Kept(m)
    BY <2>2, PlacesAre DEF Kept, Memory
  <2> HIDE DEF m
  <2> QED BY <2>1, <2>3, EndsStay
<1> QED BY <1>1, <1>2, <1>3, <1>4, <1>5, <1>6

LEMMA ExchangesStay ==
  ASSUME IsaInv, XchA \/ XchdA
  PROVE  IsaInv'
<1>1. Column > 3 /\ (XchdA => Column # 5)
  <2>1. CASE XchA
    BY <2>1, OperandsAre, Decoded DEF XchA, XchdA
  <2>2. CASE XchdA
    <3>1. Row \in 0..15 /\ Column \in 0..15 /\ 16 * Row + Column \in {214, 215}
      BY <2>2, OperandsAre, Decoded DEF XchdA
    <3> QED BY <3>1
  <2> QED BY <2>1, <2>2
<1>2. /\ Place \in Places /\ ReadMem(Place) \in Byte /\ PlaceLen \in Int /\ A \in Byte
      /\ Column # 5 => Place # P1
  BY <1>1, OperandsAre, PlaceIs
<1>3. CASE XchA
  <2> DEFINE w == Written(mem, Place, A)
             m == SetA(w, ReadMem(Place))
  <2>1. EndsAt(pc + PlaceLen, m, Place, {}) /\ UNCHANGED ext
    BY <1>3 DEF XchA
  <2>2. w \in Memory /\ (Place # P1 => w[P1] = mem[P1])
    BY <1>2, OperandsAre, WrittenKeeps DEF Kept
  <2> HIDE DEF w
  <2>3. m \in Memory /\ m[P1] = w[P1]
    <3>1. ReadMem(Place) % 256 \in Byte
      BY <1>2, ByteRemainder DEF Byte
    <3> QED BY <2>2, <3>1, PlacesAre DEF SetA, Memory
  <2> HIDE DEF m
  <2>4. pc + PlaceLen \in Int /\ ext' \in [0..ExtSize - 1 -> Byte]
    BY <1>2, <2>1, StateIs
  <2> QED BY <2>1, <2>2, <2>3, <2>4, EndsKeep
<1>4. CASE XchdA
  <2> DEFINE v == ReadMem(Place)
             vl == v % 16
             al == A % 16
             w == Written(mem, Place, v - vl + al)
  <2>1. Ends(SetA(w, A - al + vl), 1)
    BY <1>4 DEF XchdA
  <2>2. v \in Byte /\ vl \in 0..15 /\ al \in 0..15 /\ v - vl \in Int /\ v - vl >= 0 /\ v - vl <= 240
    <3>1. vl \in 0..15 /\ v \div 16 \in 0..15 /\ v = 16 * (v \div 16) + vl /\ al \in 0..15
      BY <1>2, Divided
    <3> DEFINE u == v \div 16
    <3> HIDE DEF u, v, vl, al
    <3>2. u \in 0..15 /\ v = 16 * u + vl
      BY <3>1 DEF u
    <3>3. v - vl \in Int /\ v - vl >= 0 /\ v - vl <= 240
      BY <3>1, <3>2
    <3> QED BY <1>2, <3>1, <3>3 DEF v
  <2> HIDE DEF v, vl, al
  <2>3. v - vl + al \in Byte
    BY <2>2 DEF Byte
  <2>4. A - al + vl \in Int
    BY <1>2, <2>2 DEF Byte
  <2>5. Kept(w)
    BY <1>1, <1>2, <1>4, <2>3, OperandsAre, WrittenKeeps
  <2> HIDE DEF w
  <2> QED BY <2>1, <2>4, <2>5, SetAKeeps, EndsStay
<1> QED BY <1>3, <1>4

LEMMA IndirByte ==
  ASSUME IsaTypes
  PROVE  IndirRx \in Byte
<1>1. op % 2 \in 0..7
  BY Decoded
<1>2. RxAddress(op % 2) \in 0..31
  BY <1>1, RxPlaces
<1> QED BY <1>2, RegistersKept, PlacesAre DEF IndirRx, Byte

LEMMA TablesStay ==
  ASSUME IsaInv, MovcPc \/ MovcDptr \/ MovxRead \/ MovxWrite
  PROVE  IsaInv'
<1> DEFINE x == IF Column = 0 THEN DPTR ELSE IndirRx
           e == x % ExtSize
<1>1. DPTR \in Int /\ IndirRx \in Int /\ A \in Byte /\ A \in Int /\ pc \in Int
  BY OperandsAre, IndirByte, ByteInt
<1>2. ExtAddress = e /\ x \in Int
  BY <1>1 DEF ExtAddress
<1> HIDE DEF x
<1>3. e \in 0..ExtSize - 1
  BY <1>2, IsaAssumption, DivisionOfInt
<1> HIDE DEF e
<1>4. ext \in [0..ExtSize - 1 -> Byte]
  BY StateIs
<1>5. ext[e] \in Int
  BY <1>3, <1>4, ByteInt
<1>6. Code(pc + 1 + A) \in Int /\ Code(DPTR + A) \in Int
  <2> DEFINE i == pc + 1 + A
             j == DPTR + A
  <2>1. i \in Int /\ j \in Int
    BY <1>1
  <2> HIDE DEF i, j
  <2>2. Code(i) \in Int /\ Code(j) \in Int
    BY <2>1, OperandsAre, Fetched, ByteInt
  <2> QED BY <2>2 DEF i, j
<1>7. CASE MovcPc
  BY <1>6, <1>7, OperandsAre, SetAKeeps, EndsStay DEF MovcPc
<1>8. CASE MovcDptr
  BY <1>6, <1>8, OperandsAre, SetAKeeps, EndsStay DEF MovcDptr
<1>9. CASE MovxRead
  <2>1. Ends(SetA(mem, ext[e]), 1)
    BY <1>2, <1>9 DEF MovxRead
  <2>2. Kept(SetA(mem, ext[e]))
    BY <1>5, OperandsAre, SetAKeeps
  <2> QED BY <2>1, <2>2, EndsStay
<1>10. CASE MovxWrite
  <2>1. ext' = [ext EXCEPT ![e] = A] /\ EndsAt(pc + 1, mem, ACC, {})
    BY <1>2, <1>10 DEF MovxWrite
  <2>2. ext' \in [0..ExtSize - 1 -> Byte]
    BY <1>1, <1>4, <2>1
  <2>3. pc + 1 \in Int /\ mem \in Memory
    BY <1>1, StateIs
  <2> QED BY <2>1, <2>2, <2>3, EndsKeep
<1> QED BY <1>7, <1>8, <1>9, <1>10

LEMMA StackStays ==
  ASSUME IsaInv, Push \/ Pop
  PROVE  IsaInv'
<1>1. pc + 2 \in Int
  BY StateIs
<1>2. CASE Push
  <2>1. Kept(Pushed(mem, ReadMem(Arg(1))))
    BY OperandsAre, PushedKeeps
  <2> QED BY <1>1, <1>2, <2>1, EndsAtStays DEF Push
<1>3. CASE Pop
  <2> DEFINE m == Written(Popped(mem), Arg(1), Top(mem))
  <2>1. Kept(Popped(mem)) /\ Top(mem) \in Byte
    BY OperandsAre, PoppedKeeps
  <2>2. m \in Memory /\ (Arg(1) # P1 => m[P1] = mem[P1])
    BY <2>1, OperandsAre, WrittenKeeps DEF Kept
  <2>3. EndsAt(pc + 2, m, Arg(1), PopFaults(mem)) /\ UNCHANGED ext
    BY <1>3 DEF Pop
  <2> HIDE DEF m
  <2>4. ext' \in [0..ExtSize - 1 -> Byte]
    BY <2>3, StateIs
  <2> QED BY <1>1, <2>2, <2>3, <2>4, EndsKeep
<1> QED BY <1>2, <1>3

(***************************************************************************)
(* Bits.                                                                   *)
(***************************************************************************)
LEMMA BitPlaceIs ==
  ASSUME IsaTypes
  PROVE  /\ BitPlace \in Byte /\ BitPlace \in Places /\ BitPlace < 256 /\ BitNo \in Nos
         /\ Latched \in Byte /\ ReadMem(BitPlace) \in Byte /\ Tested \in Bits
<1> DEFINE a == Arg(1)
           r == a % 8
           q == a \div 8
<1>1. a \in Byte /\ r \in 0..7 /\ q \in 0..31
  BY Decoded, Divided
<1>2. BitPlace = (IF a > 127 THEN a - r ELSE 32 + q) /\ BitNo = r
  BY DEF BitPlace, BitNo
<1> HIDE DEF a, r, q
<1>3. BitPlace \in Byte /\ BitPlace < 256 /\ BitNo \in Nos
  BY <1>1, <1>2 DEF Byte, Nos
<1>4. BitPlace \in Places
  BY <1>3, PlacesAre
<1>5. Latched \in Byte /\ ReadMem(BitPlace) \in Byte
  BY <1>4, RegistersKept, ReadBytes DEF Latched
<1> QED BY <1>3, <1>4, <1>5, BitTypes DEF Tested

LEMMA CarryBitsStay ==
  ASSUME IsaInv, MovCBit \/ OrlCBit \/ AnlCBit \/ OrlCNbit \/ AnlCNbit \/ CplC \/ ClrC \/ SetbC
  PROVE  IsaInv'
<1>1. Carry \in Bits /\ Tested \in Bits /\ Kept(mem)
  BY OperandsAre, BitPlaceIs
<1>2. Flag(Tested = 1 \/ Carry = 1) \in Bits /\ Flag(Tested = 0 \/ Carry = 1) \in Bits
  BY DEF Flag, Bits
<1>3. /\ Tested * Carry \in Bits /\ (1 - Tested) * Carry \in Bits /\ 1 - Carry \in Bits
      /\ 0 \in Bits /\ 1 \in Bits
  BY <1>1 DEF Bits
<1>4. PICK b \in Bits : Ends(SetC(mem, b), 1) \/ Ends(SetC(mem, b), 2)
  BY <1>1, <1>2, <1>3 DEF MovCBit, OrlCBit, AnlCBit, OrlCNbit, AnlCNbit, CplC, ClrC, SetbC
<1>5. Kept(SetC(mem, b))
  BY <1>1, SetCKeeps
<1> QED BY <1>4, <1>5, EndsStay

LEMMA LatchBitsStay ==
  ASSUME IsaInv, MovBitC \/ CplBit \/ ClrBit \/ SetbBit
  PROVE  IsaInv'
<1>1. /\ Carry \in Bits /\ BitPlace \in Places /\ BitNo \in Nos /\ Latched \in Byte
      /\ 0 \in Bits /\ 1 \in Bits /\ Bit(Latched, BitNo) \in Bits
  BY OperandsAre, BitPlaceIs, BitTypes
<1>2. 1 - Bit(Latched, BitNo) \in Bits
  BY <1>1 DEF Bits
<1>3. PICK b \in Bits : ChangeBit(b)
  BY <1>1, <1>2 DEF MovBitC, CplBit, ClrBit, SetbBit
<1>4. SetBit(Latched, BitNo, b) \in Byte
  BY <1>1, SetBitIs
<1> QED BY <1>1, <1>3, <1>4, WritingStays DEF ChangeBit

(***************************************************************************)
(* Jumps and calls.                                                        *)
(***************************************************************************)
LEMMA TargetsAre ==
  ASSUME IsaInv
  PROVE  /\ pc \in Int /\ Page11 \in Int /\ 256 * Arg(1) + Arg(2) \in Int /\ DPTR + A \in Int
         /\ \A i \in Int : Rel(Arg(i)) \in Int
<1>1. pc \in Int /\ Arg(1) \in Int /\ Arg(2) \in Int /\ DPTR \in Int /\ A \in Int
  BY OperandsAre, ByteInt
<1>2. \A i \in Int : Rel(Arg(i)) \in Int
  BY OperandsAre, Decoded, RelInt
<1> DEFINE q == (pc + 2) \div 2048
           t == op \div 32
<1>3. q \in Int /\ t \in Int
  <2>1. op \in Byte
    BY OperandsAre, Decoded
  <2> QED BY <1>1, <2>1, Divided
<1>4. Page11 = 2048 * q + 256 * t + Arg(1)
  BY DEF Page11
<1> HIDE DEF q, t
<1>5. Page11 \in Int
  BY <1>1, <1>3, <1>4
<1> QED BY <1>1, <1>2, <1>5

LEMMA CallsStay ==
  ASSUME IsaInv, NEW t \in Int, NEW len \in Int, Calls(t, len)
  PROVE  IsaInv'
<1> DEFINE back == (pc + len) % 65536
           lo == back % 256
           hi == back \div 256
           once == Pushed(mem, lo)
           twice == Pushed(once, hi)
<1>1. /\ EndsAt(t, twice, ACC, PushFaults(mem) \cup PushFaults(once))
      /\ UNCHANGED ext
  BY DEF Calls
<1>2. back \in Address
  BY TargetsAre, AddressIs
<1> HIDE DEF back
<1>3. lo \in Byte /\ hi \in Byte
  <2>1. back \in Nat /\ back < 65536
    BY <1>2, SMTT(20) DEF Address
  <2>2. lo \in Byte
    BY <2>1, ByteRemainder
  <2>3. hi \in Nat /\ back = 256 * hi + lo /\ lo \in 0..255
    BY <2>1, Division
  <2> HIDE DEF hi, lo
  <2>4. hi <= 255
    BY <2>1, <2>3
  <2> QED BY <2>2, <2>3, <2>4 DEF Byte
<1> HIDE DEF lo, hi
<1>4. Kept(once)
  BY <1>3, OperandsAre, PushedKeeps
<1>5. Kept(twice)
  BY <1>3, <1>4, PushedKeeps
<1> HIDE DEF once, twice
<1> QED BY <1>1, <1>5, EndsAtStays

LEMMA ReturnsStay ==
  ASSUME IsaInv, Ret
  PROVE  IsaInv'
<1> DEFINE once == Popped(mem)
           twice == Popped(once)
           t == 256 * Top(mem) + Top(once)
<1>1. EndsAt(t, twice, ACC, PopFaults(mem) \cup PopFaults(once)) /\ UNCHANGED ext
  BY DEF Ret
<1>2. Kept(once) /\ Top(mem) \in Byte
  BY OperandsAre, PoppedKeeps
<1> HIDE DEF once
<1>3. Kept(twice) /\ Top(once) \in Byte
  BY <1>2, PoppedKeeps
<1>4. t \in Int
  BY <1>2, <1>3, ByteInt
<1> HIDE DEF twice, t
<1> QED BY <1>1, <1>3, <1>4, EndsAtStays

LEMMA JumpsStayAll ==
  ASSUME IsaInv, Ajmp \/ Acall \/ Lcall \/ Ljmp \/ Sjmp \/ JmpADptr \/ Jc \/ Jz \/ Jnz \/ Jb \/ Jnb
  PROVE  IsaInv'
<1>1. /\ pc \in Int /\ Page11 \in Int /\ 256 * Arg(1) + Arg(2) \in Int /\ DPTR + A \in Int
      /\ Kept(mem)
  BY TargetsAre, OperandsAre
<1>2. CASE Ajmp \/ Ljmp \/ JmpADptr
  <2>1. PICK t \in Int : GoesTo(t)
    BY <1>1, <1>2 DEF Ajmp, Ljmp, JmpADptr
  <2> QED BY <1>1, <2>1, EndsAtStays DEF GoesTo
<1>3. CASE Acall
  BY <1>1, <1>3, CallsStay DEF Acall
<1>4. CASE Lcall
  BY <1>1, <1>4, CallsStay DEF Lcall
<1>5. CASE Sjmp \/ Jc \/ Jz \/ Jnz \/ Jb \/ Jnb
  <2>1. PICK t \in BOOLEAN : Jumps(t, mem, 2) \/ Jumps(t, mem, 3)
    BY <1>5 DEF Sjmp, Jc, Jz, Jnz, Jb, Jnb
  <2> QED BY <1>1, <2>1, JumpsStay
<1> QED BY <1>2, <1>3, <1>4, <1>5

LEMMA LoopsStay ==
  ASSUME IsaInv, Jbc \/ Cjne \/ Djnz \/ Nop
  PROVE  IsaInv'
<1>1. pc \in Int /\ (\A i \in Int : Rel(Arg(i)) \in Int) /\ Kept(mem)
  BY TargetsAre, OperandsAre
<1>2. CASE Jbc
  <2>1. BitPlace \in Places /\ BitNo \in Nos /\ Latched \in Byte /\ 0 \in Bits
    BY OperandsAre, BitPlaceIs
  <2> DEFINE m == [mem EXCEPT ![BitPlace] = SetBit(mem[BitPlace], BitNo, 0)]
             t == pc + 3 + Rel(Arg(2))
  <2>2. /\ EndsAt(t, m, BitPlace, {}) \/ EndsAt(pc + 3, mem, ACC, {})
        /\ UNCHANGED ext
    BY <1>2 DEF Jbc
  <2>3. SetBit(mem[BitPlace], BitNo, 0) \in Byte
    BY <2>1, SetBitIs DEF Latched
  <2>4. m \in Memory /\ (BitPlace # P1 => m[P1] = mem[P1])
    BY <1>1, <2>1, <2>3, PlacesAre DEF Kept, Memory
  <2>5. t \in Int /\ pc + 3 \in Int /\ ext' \in [0..ExtSize - 1 -> Byte]
    BY <1>1, <2>2, StateIs
  <2> HIDE DEF m, t
  <2> QED BY <1>1, <2>2, <2>4, <2>5, EndsKeep, EndsAtStays
<1>3. CASE Cjne
  <2>1. PICK t, c : c \in Bits /\ Jumps(t, SetC(mem, c), 3)
    BY <1>3 DEF Cjne, Flag, Bits
  <2>2. Kept(SetC(mem, c))
    BY <1>1, <2>1, SetCKeeps
  <2> QED BY <2>1, <2>2, JumpsStay
<1>4. CASE Djnz
  <2> DEFINE v == (ReadMem(Place) + 255) % 256
             len == PlaceLen + 1
             t == pc + len + (IF v # 0 THEN Rel(Arg(len - 1)) ELSE 0)
             m == Written(mem, Place, v)
  <2>1. EndsAt(t, m, Place, {}) /\ UNCHANGED ext /\ Column > 3
    BY <1>4, OperandsAre, Decoded DEF Djnz
  <2>2. Place \in Places /\ ReadMem(Place) \in Byte /\ len \in Int
    BY <2>1, OperandsAre, PlaceIs
  <2>3. v \in Byte
    BY <2>2, ByteInt, ByteRemainder
  <2> HIDE DEF v, len
  <2>4. t \in Int
    BY <1>1, <2>2
  <2>5. m \in Memory /\ (Place # P1 => m[P1] = mem[P1])
    BY <1>1, <2>2, <2>3, WrittenKeeps DEF Kept
  <2>6. ext' \in [0..ExtSize - 1 -> Byte]
    BY <2>1, StateIs
  <2> HIDE DEF m, t
  <2> QED BY <2>1, <2>4, <2>5, <2>6, EndsKeep
<1>5. CASE Nop
  <2>1. PICK f : EndsAt(pc + 1, mem, ACC, f) /\ UNCHANGED ext
    BY <1>5 DEF Nop
  <2> QED BY <1>1, <2>1, EndsAtStays
<1> QED BY <1>2, <1>3, <1>4, <1>5

LEMMA InstructionKeeps ==
  ASSUME IsaInv, [Instruction]_vars
  PROVE  IsaInv'
<1>1. CASE Instruction
  BY <1>1, SumsStay, CoprocStay, CountStays, LogicStays, RotationsStay, MovesStay, ExchangesStay,
     TablesStay, StackStays, CarryBitsStay, LatchBitsStay, ReturnsStay, JumpsStayAll, LoopsStay
     DEF Instruction
<1>2. CASE UNCHANGED vars
  BY <1>2 DEF vars, IsaInv, IsaTypes, Told
<1> QED BY <1>1, <1>2

(***************************************************************************)
(* Whatever program runs, bytes stay bytes, the PC stays in range, and the *)
(* subscriber of a port was told of every change of its latch.             *)
(***************************************************************************)
THEOREM IsaInvariant == IsaSpec => []IsaInv
<1>1. IsaInit => IsaInv
  BY DEF IsaInit, IsaInv, IsaTypes, Told, Memory
<1> QED BY <1>1, InstructionKeeps, PTL DEF IsaSpec

(***************************************************************************)
(* The opcodes of each action, by row and column of the table.             *)
(***************************************************************************)
LEMMA Guards ==
  ASSUME IsaInv
  PROVE  /\ (Add => Row = 2 /\ Column > 3)
         /\ (Addc => Row = 3 /\ Column > 3)
         /\ (Subb => Row = 9 /\ Column > 3)
         /\ (DaA => Row = 13 /\ Column = 4)
         /\ (MulAb => Row = 10 /\ Column = 4)
         /\ (DivAb => Row = 8 /\ Column = 4)
         /\ (Inc => Row = 0 /\ Column > 3)
         /\ (Dec => Row = 1 /\ Column > 3)
         /\ (IncDptr => Row = 10 /\ Column = 3)
         /\ (OrlA => Row = 4 /\ Column > 3)
         /\ (AnlA => Row = 5 /\ Column > 3)
         /\ (XrlA => Row = 6 /\ Column > 3)
         /\ (OrlMem => Row = 4 /\ Column \in {2, 3})
         /\ (AnlMem => Row = 5 /\ Column \in {2, 3})
         /\ (XrlMem => Row = 6 /\ Column \in {2, 3})
         /\ (RrA => Row = 0 /\ Column = 3)
         /\ (RlA => Row = 2 /\ Column = 3)
         /\ (RrcA => Row = 1 /\ Column = 3)
         /\ (RlcA => Row = 3 /\ Column = 3)
         /\ (SwapA => Row = 12 /\ Column = 4)
         /\ (ClrA => Row = 14 /\ Column = 4)
         /\ (CplA => Row = 15 /\ Column = 4)
         /\ (MovImm => Row = 7 /\ Column > 3)
         /\ (MovToDirect => Row = 8 /\ Column > 4)
         /\ (MovFromDirect => Row = 10 /\ Column > 5)
         /\ (MovToA => Row = 14 /\ Column > 4)
         /\ (MovFromA => Row = 15 /\ Column > 4)
         /\ (MovDptr => Row = 9 /\ Column = 0)
         /\ (XchA => Row = 12 /\ Column > 4)
         /\ (XchdA => Row = 13 /\ Column \in {6, 7})
         /\ (MovcPc => Row = 8 /\ Column = 3)
         /\ (MovcDptr => Row = 9 /\ Column = 3)
         /\ (MovxRead => Row = 14 /\ Column \in {0, 2, 3})
         /\ (MovxWrite => Row = 15 /\ Column \in {0, 2, 3})
         /\ (Push => Row = 12 /\ Column = 0)
         /\ (Pop => Row = 13 /\ Column = 0)
         /\ (MovCBit => Row = 10 /\ Column = 2)
         /\ (OrlCBit => Row = 7 /\ Column = 2)
         /\ (AnlCBit => Row = 8 /\ Column = 2)
         /\ (OrlCNbit => Row = 10 /\ Column = 0)
         /\ (AnlCNbit => Row = 11 /\ Column = 0)
         /\ (MovBitC => Row = 9 /\ Column = 2)
         /\ (CplBit => Row = 11 /\ Column = 2)
         /\ (ClrBit => Row = 12 /\ Column = 2)
         /\ (SetbBit => Row = 13 /\ Column = 2)
         /\ (CplC => Row = 11 /\ Column = 3)
         /\ (ClrC => Row = 12 /\ Column = 3)
         /\ (SetbC => Row = 13 /\ Column = 3)
         /\ (Lcall => Row = 1 /\ Column = 2)
         /\ (Ret => Row \in {2, 3} /\ Column = 2)
         /\ (Ljmp => Row = 0 /\ Column = 2)
         /\ (Sjmp => Row = 8 /\ Column = 0)
         /\ (JmpADptr => Row = 7 /\ Column = 3)
         /\ (Jc => Row \in {4, 5} /\ Column = 0)
         /\ (Jz => Row = 6 /\ Column = 0)
         /\ (Jnz => Row = 7 /\ Column = 0)
         /\ (Jb => Row = 2 /\ Column = 0)
         /\ (Jnb => Row = 3 /\ Column = 0)
         /\ (Jbc => Row = 1 /\ Column = 0)
         /\ (Cjne => Row = 11 /\ Column > 3)
         /\ (Djnz => Row = 13 /\ Column \notin {0, 1, 2, 3, 4, 6, 7})
         /\ (Ajmp \/ Acall => Column = 1)
         /\ (Nop => (Row = 0 /\ Column = 0) \/ (Row = 10 /\ Column = 5))
<1>0. Row \in 0..15 /\ Column \in 0..15 /\ op = 16 * Row + Column
  BY OperandsAre, Decoded
<1>1. /\ (Add => Row = 2 /\ Column > 3)
      /\ (Addc => Row = 3 /\ Column > 3)
      /\ (Subb => Row = 9 /\ Column > 3)
      /\ (Inc => Row = 0 /\ Column > 3)
      /\ (Dec => Row = 1 /\ Column > 3)
      /\ (OrlA => Row = 4 /\ Column > 3)
      /\ (AnlA => Row = 5 /\ Column > 3)
      /\ (XrlA => Row = 6 /\ Column > 3)
      /\ (MovImm => Row = 7 /\ Column > 3)
      /\ (MovToDirect => Row = 8 /\ Column > 4)
      /\ (MovFromDirect => Row = 10 /\ Column > 5)
      /\ (MovToA => Row = 14 /\ Column > 4)
      /\ (MovFromA => Row = 15 /\ Column > 4)
      /\ (XchA => Row = 12 /\ Column > 4)
      /\ (Cjne => Row = 11 /\ Column > 3)
  BY <1>0 DEF Add, Addc, Subb, Inc, Dec, OrlA, AnlA, XrlA, MovImm, MovToDirect, MovFromDirect,
     MovToA, MovFromA, XchA, Cjne
<1>2. /\ (DaA => Row = 13 /\ Column = 4)
      /\ (MulAb => Row = 10 /\ Column = 4)
      /\ (DivAb => Row = 8 /\ Column = 4)
      /\ (IncDptr => Row = 10 /\ Column = 3)
      /\ (OrlMem => Row = 4 /\ Column \in {2, 3})
      /\ (AnlMem => Row = 5 /\ Column \in {2, 3})
      /\ (XrlMem => Row = 6 /\ Column \in {2, 3})
      /\ (RrA => Row = 0 /\ Column = 3)
  BY <1>0 DEF DaA, MulAb, DivAb, IncDptr, OrlMem, AnlMem, XrlMem, RrA
<1>3. /\ (RlA => Row = 2 /\ Column = 3)
      /\ (RrcA => Row = 1 /\ Column = 3)
      /\ (RlcA => Row = 3 /\ Column = 3)
      /\ (SwapA => Row = 12 /\ Column = 4)
      /\ (ClrA => Row = 14 /\ Column = 4)
      /\ (CplA => Row = 15 /\ Column = 4)
      /\ (MovDptr => Row = 9 /\ Column = 0)
      /\ (XchdA => Row = 13 /\ Column \in {6, 7})
  BY <1>0 DEF RlA, RrcA, RlcA, SwapA, ClrA, CplA, MovDptr, XchdA
<1>4. /\ (MovcPc => Row = 8 /\ Column = 3)
      /\ (MovcDptr => Row = 9 /\ Column = 3)
      /\ (MovxRead => Row = 14 /\ Column \in {0, 2, 3})
      /\ (MovxWrite => Row = 15 /\ Column \in {0, 2, 3})
      /\ (Push => Row = 12 /\ Column = 0)
      /\ (Pop => Row = 13 /\ Column = 0)
      /\ (MovCBit => Row = 10 /\ Column = 2)
      /\ (OrlCBit => Row = 7 /\ Column = 2)
  BY <1>0 DEF MovcPc, MovcDptr, MovxRead, MovxWrite, Push, Pop, MovCBit, OrlCBit
<1>5. /\ (AnlCBit => Row = 8 /\ Column = 2)
      /\ (OrlCNbit => Row = 10 /\ Column = 0)
      /\ (AnlCNbit => Row = 11 /\ Column = 0)
      /\ (MovBitC => Row = 9 /\ Column = 2)
      /\ (CplBit => Row = 11 /\ Column = 2)
      /\ (ClrBit => Row = 12 /\ Column = 2)
      /\ (SetbBit => Row = 13 /\ Column = 2)
      /\ (CplC => Row = 11 /\ Column = 3)
  BY <1>0 DEF AnlCBit, OrlCNbit, AnlCNbit, MovBitC, CplBit, ClrBit, SetbBit, CplC
<1>6. /\ (ClrC => Row = 12 /\ Column = 3)
      /\ (SetbC => Row = 13 /\ Column = 3)
      /\ (Lcall => Row = 1 /\ Column = 2)
      /\ (Ljmp => Row = 0 /\ Column = 2)
      /\ (Sjmp => Row = 8 /\ Column = 0)
      /\ (JmpADptr => Row = 7 /\ Column = 3)
  <2>1. /\ (op = 195 => Row = 12 /\ Column = 3)
        /\ (op = 211 => Row = 13 /\ Column = 3)
        /\ (op = 18 => Row = 1 /\ Column = 2)
        /\ (op = 2 => Row = 0 /\ Column = 2)
        /\ (op = 128 => Row = 8 /\ Column = 0)
        /\ (op = 115 => Row = 7 /\ Column = 3)
    BY <1>0
  <2> QED BY <2>1 DEF ClrC, SetbC, Lcall, Ljmp, Sjmp, JmpADptr
<1>9. Ret => Row \in {2, 3} /\ Column = 2
  <2>1. (op = 34 => Row = 2 /\ Column = 2) /\ (op = 50 => Row = 3 /\ Column = 2)
    BY <1>0
  <2> QED BY <2>1 DEF Ret
<1>10. Jc => Row \in {4, 5} /\ Column = 0
  <2>1. (op = 64 => Row = 4 /\ Column = 0) /\ (op = 80 => Row = 5 /\ Column = 0)
    BY <1>0
  <2> QED BY <2>1 DEF Jc
<1>7. /\ (Jz => Row = 6 /\ Column = 0)
      /\ (Jnz => Row = 7 /\ Column = 0)
      /\ (Jb => Row = 2 /\ Column = 0)
      /\ (Jnb => Row = 3 /\ Column = 0)
      /\ (Jbc => Row = 1 /\ Column = 0)
      /\ (Djnz => Row = 13 /\ Column \notin {0, 1, 2, 3, 4, 6, 7})
      /\ (Ajmp \/ Acall => Column = 1)
  BY <1>0 DEF Jz, Jnz, Jb, Jnb, Jbc, Djnz, Ajmp, Acall
<1>8. Nop => (Row = 0 /\ Column = 0) \/ (Row = 10 /\ Column = 5)
  <2>1. (op = 0 => Row = 0 /\ Column = 0) /\ (op = 165 => Row = 10 /\ Column = 5)
    BY <1>0
  <2> QED BY <2>1 DEF Nop
<1> QED BY <1>1, <1>2, <1>3, <1>4, <1>5, <1>6, <1>7, <1>8, <1>9, <1>10

(***************************************************************************)
(* Bits of the latch.                                                      *)
(***************************************************************************)
LEMMA BitInstructions ==
  ASSUME IsaInv, Instruction
  PROVE  /\ (op = 16 => Jbc) /\ (op = 146 => MovBitC) /\ (op = 178 => CplBit)
         /\ (op = 194 => ClrBit) /\ (op = 210 => SetbBit)
<1>0. Row \in 0..15 /\ Column \in 0..15 /\ op = 16 * Row + Column
  BY OperandsAre, Decoded
<1>1. op = 16 => Row = 1 /\ Column = 0
  BY <1>0
<1>2. op = 146 => Row = 9 /\ Column = 2
  BY <1>0
<1>3. op = 178 => Row = 11 /\ Column = 2
  BY <1>0
<1>4. op = 194 => Row = 12 /\ Column = 2
  BY <1>0
<1>5. op = 210 => Row = 13 /\ Column = 2
  BY <1>0
<1>6. ASSUME Row = 1, Column = 0 PROVE Jbc
  BY <1>6, Guards DEF Instruction
<1>7. ASSUME Row = 9, Column = 2 PROVE MovBitC
  BY <1>7, Guards DEF Instruction
<1>8. ASSUME Row = 11, Column = 2 PROVE CplBit
  BY <1>8, Guards DEF Instruction
<1>9. ASSUME Row = 12, Column = 2 PROVE ClrBit
  BY <1>9, Guards DEF Instruction
<1>10. ASSUME Row = 13, Column = 2 PROVE SetbBit
  BY <1>10, Guards DEF Instruction
<1> QED BY <1>1, <1>2, <1>3, <1>4, <1>5, <1>6, <1>7, <1>8, <1>9, <1>10

LEMMA NewBits ==
  ASSUME IsaInv
  PROVE  /\ BitPlace \in Places /\ BitPlace < 256 /\ BitNo \in Nos /\ mem[BitPlace] \in Byte
         /\ Latched = mem[BitPlace] /\ mem \in Memory /\ pc \in Int
         /\ 0 \in Bits /\ 1 \in Bits /\ Carry \in Bits /\ 1 - Bit(mem[BitPlace], BitNo) \in Bits
<1>1. /\ BitPlace \in Places /\ BitPlace < 256 /\ BitNo \in Nos /\ Latched \in Byte
      /\ 0 \in Bits /\ 1 \in Bits /\ Carry \in Bits /\ pc \in Int /\ Kept(mem)
  BY OperandsAre, BitPlaceIs
<1>2. Latched = mem[BitPlace]
  BY DEF Latched
<1>3. Bit(mem[BitPlace], BitNo) \in Bits
  BY <1>1, <1>2, BitTypes
<1>4. 1 - Bit(mem[BitPlace], BitNo) \in Bits
  BY <1>3 DEF Bits
<1> QED BY <1>1, <1>2, <1>4 DEF Kept

LEMMA BitChanged ==
  ASSUME IsaInv, BitPlace # PSW, NEW b \in Bits, NEW next \in Int,
         EndsAt(next, [mem EXCEPT ![BitPlace] = SetBit(mem[BitPlace], BitNo, b)], BitPlace, {})
  PROVE  \A i \in Nos : Bit(mem'[BitPlace], i) = IF i = BitNo THEN b ELSE Bit(mem[BitPlace], i)
<1> DEFINE x == mem[BitPlace]
           s == SetBit(x, BitNo, b)
           m == [mem EXCEPT ![BitPlace] = s]
<1>1. x \in Byte /\ BitPlace \in Places /\ BitNo \in Nos /\ mem \in Memory
  BY NewBits
<1>2. s \in Byte /\ \A i \in Nos : Bit(s, i) = IF i = BitNo THEN b ELSE Bit(x, i)
  BY <1>1, SetBitIs
<1> HIDE DEF s
<1>3. m \in Memory /\ m[BitPlace] = s
  BY <1>1, <1>2 DEF Memory
<1>4. EndsAt(next, m, BitPlace, {})
  BY DEF s
<1> HIDE DEF m
<1>5. mem'[BitPlace] = s
  BY <1>1, <1>3, <1>4, EndsIs
<1> QED BY <1>2, <1>5

LEMMA LatchStep ==
  ASSUME IsaInv, Instruction, op \in {16, 146, 178, 194, 210}, BitPlace # PSW
  PROVE  OneBitChanged
<1> DEFINE x == mem[BitPlace]
           After(b) == [mem EXCEPT ![BitPlace] = SetBit(x, BitNo, b)]
<1>1. /\ BitPlace \in Places /\ BitPlace < 256 /\ BitNo \in Nos /\ x \in Byte /\ Latched = x
      /\ mem \in Memory /\ pc \in Int /\ pc + 2 \in Int /\ pc + 3 \in Int
      /\ 0 \in Bits /\ 1 \in Bits /\ Carry \in Bits /\ 1 - Bit(x, BitNo) \in Bits
  BY NewBits
<1>2. ASSUME NEW b \in Bits, NewBit = b, ChangeBit(b) PROVE OneBitChanged
  <2>1. Exists(BitPlace)
    BY <1>1 DEF Exists
  <2>2. EndsAt(pc + 2, After(b), BitPlace, {})
    BY <1>1, <1>2, <2>1 DEF ChangeBit, EndsWriting, Written
  <2>3. \A i \in Nos : Bit(mem'[BitPlace], i) = IF i = BitNo THEN b ELSE Bit(x, i)
    BY <1>1, <2>2, BitChanged
  <2> QED BY <1>2, <2>3 DEF OneBitChanged, Nos
<1>3. CASE op = 16
  <2>1. NewBit = 0 /\ Jbc
    BY <1>3, BitInstructions DEF NewBit
  <2>2. CASE Bit(x, BitNo) = 1
    <3>1. pc + 3 + Rel(Arg(2)) \in Int
      BY <1>1, TargetsAre
    <3>2. EndsAt(pc + 3 + Rel(Arg(2)), After(0), BitPlace, {})
      BY <1>1, <2>1, <2>2 DEF Jbc
    <3>3. \A i \in Nos : Bit(mem'[BitPlace], i) = IF i = BitNo THEN 0 ELSE Bit(x, i)
      BY <1>1, <3>1, <3>2, BitChanged
    <3> QED BY <2>1, <3>3 DEF OneBitChanged, Nos
  <2>3. CASE Bit(x, BitNo) # 1
    <3>1. EndsAt(pc + 3, mem, ACC, {})
      BY <1>1, <2>1, <2>3 DEF Jbc
    <3>2. mem'[BitPlace] = x
      BY <1>1, <3>1, EndsIs
    <3>3. Bit(x, BitNo) = 0
      BY <1>1, <2>3, BitTypes DEF Bits
    <3> QED BY <2>1, <3>2, <3>3 DEF OneBitChanged
  <2> QED BY <2>2, <2>3
<1>4. CASE op = 146
  <2>1. NewBit = Carry /\ ChangeBit(Carry)
    BY <1>4, BitInstructions DEF NewBit, MovBitC
  <2> QED BY <1>1, <1>2, <2>1
<1>5. CASE op = 178
  <2>1. NewBit = 1 - Bit(x, BitNo) /\ ChangeBit(1 - Bit(x, BitNo))
    BY <1>1, <1>5, BitInstructions DEF NewBit, CplBit
  <2> QED BY <1>1, <1>2, <2>1
<1>6. CASE op = 194
  <2>1. NewBit = 0 /\ ChangeBit(0)
    BY <1>6, BitInstructions DEF NewBit, ClrBit
  <2> QED BY <1>1, <1>2, <2>1
<1>7. CASE op = 210
  <2>1. NewBit = 1 /\ ChangeBit(1)
    BY <1>7, BitInstructions DEF NewBit, SetbBit
  <2> QED BY <1>1, <1>2, <2>1
<1> QED BY <1>3, <1>4, <1>5, <1>6, <1>7

(***************************************************************************)
(* LatchKeepsOtherBits for every program, memory and drive of the port:    *)
(* the bit instructions of opcodes.c change one bit of the latch, and the  *)
(* subscriber of the port knows the latch after every instruction.         *)
(***************************************************************************)
THEOREM LatchKept == IsaSpec => LatchKeepsOtherBits
<1>1. IsaInit => IsaInv
  BY DEF IsaInit, IsaInv, IsaTypes, Told, Memory
<1>2. ASSUME IsaInv, [Instruction]_vars
      PROVE  [/\ told' = mem'[P1]
              /\ op \in {16, 146, 178, 194, 210} /\ BitPlace # PSW => OneBitChanged]_vars
  <2>1. CASE Instruction
    <3>1. told' = mem'[P1]
      BY <1>2, InstructionKeeps DEF IsaInv, Told
    <3> QED BY <1>2, <2>1, <3>1, LatchStep
  <2> QED BY <1>2, <2>1
<1> QED BY <1>1, <1>2, InstructionKeeps, PTL DEF IsaSpec, LatchKeepsOtherBits

(***************************************************************************)
(* Flags.                                                                  *)
(***************************************************************************)
LEMMA FlagsAre ==
  ASSUME NEW x \in Byte, NEW c \in Bits, NEW ac \in Bits, NEW ov \in Bits
  PROVE  LET s == SetBit(SetBit(SetBit(x, 7, c), 6, ac), 2, ov)
         IN  s \in Byte /\ Bit(s, 7) = c /\ Bit(s, 6) = ac /\ Bit(s, 2) = ov
<1> DEFINE i == 7
           j == 6
           k == 2
           s1 == SetBit(x, i, c)
           s2 == SetBit(s1, j, ac)
           s3 == SetBit(s2, k, ov)
<1>1. i \in Nos /\ j \in Nos /\ k \in Nos /\ i # j /\ i # k /\ j # k
  BY DEF Nos
<1> HIDE DEF i, j, k
<1>2. s1 \in Byte /\ Bit(s1, i) = c
  BY <1>1, SetBitIs
<1> HIDE DEF s1
<1>3. s2 \in Byte /\ Bit(s2, i) = c /\ Bit(s2, j) = ac
  BY <1>1, <1>2, SetBitIs
<1> HIDE DEF s2
<1>4. s3 \in Byte /\ Bit(s3, i) = c /\ Bit(s3, j) = ac /\ Bit(s3, k) = ov
  BY <1>1, <1>3, SetBitIs
<1> HIDE DEF s3
<1> QED BY <1>4 DEF s3, s2, s1, i, j, k

Become(v, c, ac, ov) ==
  /\ mem'[ACC] = v % 256 /\ Bit(mem'[PSW], 7) = c
  /\ Bit(mem'[PSW], 6) = ac /\ Bit(mem'[PSW], 2) = ov

LEMMA FlagsEnd ==
  ASSUME IsaInv, NEW c \in Bits, NEW ac \in Bits, NEW ov \in Bits, NEW v \in Int, NEW len \in Int,
         Ends(SetA(SetFlags(mem, c, ac, ov), v), len)
  PROVE  Become(v, c, ac, ov)
<1> DEFINE m == SetFlags(mem, c, ac, ov)
           n == SetA(m, v)
           s == SetBit(SetBit(SetBit(mem[PSW], 7, c), 6, ac), 2, ov)
<1>1. Kept(mem) /\ mem[PSW] \in Byte /\ pc + len \in Int
  BY OperandsAre, RegistersKept
<1>2. Kept(m) /\ m[PSW] = s
  BY <1>1, SetFlagsKeeps
<1>3. Bit(s, 7) = c /\ Bit(s, 6) = ac /\ Bit(s, 2) = ov
  BY <1>1, FlagsAre
<1>4. EndsAt(pc + len, n, ACC, {})
  BY DEF Ends
<1> HIDE DEF m, s
<1>5. Kept(n) /\ n[ACC] = v % 256 /\ n[PSW] = s
  BY <1>2, SetAKeeps
<1> HIDE DEF n
<1>6. n \in Memory /\ ACC \in Places /\ ACC # PSW
  BY <1>5, PlacesAre DEF Kept
<1>7. 7 \in Nos \ {0} /\ 6 \in Nos \ {0} /\ 2 \in Nos \ {0}
  BY DEF Nos
<1>8. mem'[ACC] = n[ACC] /\ \A j \in Nos \ {0} : Bit(mem'[PSW], j) = Bit(n[PSW], j)
  BY <1>1, <1>4, <1>6, EndsIs
<1> QED BY <1>3, <1>5, <1>7, <1>8 DEF Become

(***************************************************************************)
(* A signed sum is out of range exactly when the carries into and out of   *)
(* bit 7 differ.                                                           *)
(***************************************************************************)
LEMMA SignIs ==
  ASSUME NEW x \in Byte
  PROVE  \E p \in Bits, l \in 0..127 : x = 128 * p + l /\ x % 128 = l /\ Rel(x) = l - 128 * p
<1> DEFINE p == x \div 128
           l == x % 128
<1>1. x \in Nat /\ 128 \in Nat \ {0}
  BY DEF Byte
<1>2. p \in Nat /\ l \in 0..127 /\ x = 128 * p + l
  BY <1>1, Division
<1>3. p \in 0..1
  BY Divided
<1> HIDE DEF p, l
<1>4. Rel(x) = l - 128 * p
  BY <1>2, <1>3 DEF Rel
<1> QED BY <1>2, <1>3, <1>4 DEF l, Bits

LEMMA SignedSum ==
  ASSUME NEW x \in Byte, NEW y \in Byte, NEW c \in Bits
  PROVE  /\ (Flag((x % 128) + (y % 128) + c >= 128) + Flag(x + y + c >= 256)) % 2
              = Flag(Rel(x) + Rel(y) + c \notin (-128)..127)
         /\ (Flag((x % 128) < (y % 128) + c) + Flag(x < y + c)) % 2
              = Flag(Rel(x) - Rel(y) - c \notin (-128)..127)
<1>1. PICK p \in Bits, l \in 0..127 : x = 128 * p + l /\ x % 128 = l /\ Rel(x) = l - 128 * p
  BY SignIs
<1>2. PICK q \in Bits, k \in 0..127 : y = 128 * q + k /\ y % 128 = k /\ Rel(y) = k - 128 * q
  BY SignIs
<1>3. p \in 0..1 /\ q \in 0..1 /\ c \in 0..1
  BY DEF Bits
<1> DEFINE a1 == Flag(l + k + c >= 128)
           a2 == Flag(x + y + c >= 256)
           b1 == Flag(l < k + c)
           b2 == Flag(x < y + c)
<1>4. a1 \in Bits /\ a2 \in Bits /\ b1 \in Bits /\ b2 \in Bits
  BY DEF Flag, Bits
<1> DEFINE r == Rel(x) + Rel(y) + c
           t == Rel(x) - Rel(y) - c
<1>5. a1 # a2 <=> r \notin (-128)..127
  <2>1. a1 # a2 <=> ((l + k + c >= 128) # (x + y + c >= 256))
    BY DEF Flag
  <2>2. x + y + c = 128 * p + 128 * q + l + k + c /\ r = l + k + c - 128 * p - 128 * q
    BY <1>1, <1>2, <1>3
  <2>3. CASE p = q
    BY <1>1, <1>2, <1>3, <2>1, <2>2, <2>3
  <2>4. CASE p # q
    BY <1>1, <1>2, <1>3, <2>1, <2>2, <2>4, SMTT(20)
  <2> QED BY <2>3, <2>4
<1>6. b1 # b2 <=> t \notin (-128)..127
  <2>1. b1 # b2 <=> ((l < k + c) # (x < y + c))
    BY DEF Flag
  <2>2. x - y - c = 128 * p - 128 * q + l - k - c /\ t = l - k - c - 128 * p + 128 * q
    BY <1>1, <1>2, <1>3
  <2>3. CASE p = q
    BY <1>1, <1>2, <1>3, <2>1, <2>2, <2>3
  <2>4. CASE p # q
    BY <1>1, <1>2, <1>3, <2>1, <2>2, <2>4
  <2> QED BY <2>3, <2>4
<1> HIDE DEF a1, a2, b1, b2
<1>7. (a1 + a2) % 2 = Flag(a1 # a2) /\ (b1 + b2) % 2 = Flag(b1 # b2)
  BY <1>4, OddBits
<1>8. (a1 + a2) % 2 = Flag(Rel(x) + Rel(y) + c \notin (-128)..127)
  BY <1>5, <1>7 DEF Flag
<1>9. (b1 + b2) % 2 = Flag(Rel(x) - Rel(y) - c \notin (-128)..127)
  BY <1>6, <1>7 DEF Flag
<1> QED BY <1>1, <1>2, <1>8, <1>9 DEF a1, a2, b1, b2

LEMMA UnsignedSum ==
  ASSUME NEW x \in Byte, NEW y \in Byte, NEW c \in Bits
  PROVE  /\ Flag(x + y + c >= 256) = Flag(x + y + c \notin 0..255)
         /\ Flag(x < y + c) = Flag(x - y - c \notin 0..255)
         /\ Flag((x % 16) + (y % 16) + c >= 16) = Flag((x % 16) + (y % 16) + c \notin 0..15)
         /\ Flag((x % 16) < (y % 16) + c) = Flag((x % 16) - (y % 16) - c \notin 0..15)
<1>1. c \in 0..1 /\ x \in 0..255 /\ y \in 0..255
  BY DEF Bits, Byte
<1> DEFINE l == x % 16
           k == y % 16
<1>2. l \in 0..15 /\ k \in 0..15
  BY Divided
<1>3. (x + y + c >= 256 <=> x + y + c \notin 0..255) /\ (x < y + c <=> x - y - c \notin 0..255)
  BY <1>1
<1> HIDE DEF l, k
<1>4. (l + k + c >= 16 <=> l + k + c \notin 0..15) /\ (l < k + c <=> l - k - c \notin 0..15)
  BY <1>1, <1>2
<1> QED BY <1>3, <1>4 DEF l, k, Flag

(***************************************************************************)
(* A, C, AC and OV after ADD, ADDC and SUBB.                               *)
(***************************************************************************)
LEMMA Summed ==
  ASSUME IsaInv, Column > 3, NEW c \in Bits,
         Ends(SetA(AddFlags(mem, A, Operand, c), A + Operand + c), OperandLen)
  PROVE  /\ mem'[ACC] = (A + Operand + c) % 256
         /\ Bit(mem'[PSW], 7) = Flag(A + Operand + c \notin 0..255)
         /\ Bit(mem'[PSW], 6) = Flag((A % 16) + (Operand % 16) + c \notin 0..15)
         /\ Bit(mem'[PSW], 2) = Flag(Rel(A) + Rel(Operand) + c \notin (-128)..127)
<1> DEFINE x == A
           y == Operand
           v == x + y + c
           f7 == (x + y + c) \div 256
           f6 == ((x % 16) + (y % 16) + c) \div 16
           f2 == (((x % 128) + (y % 128) + c) \div 128 + f7) % 2
<1>1. x \in Byte /\ y \in Byte /\ OperandLen \in Int
  BY OperandsAre, PlaceIs
<1>2. Ends(SetA(SetFlags(mem, f7, f6, f2), v), OperandLen)
  BY DEF AddFlags
<1> HIDE DEF x, y
<1>3. f7 = Flag(x + y + c >= 256) /\ f6 = Flag((x % 16) + (y % 16) + c >= 16)
  BY <1>1, Carries
<1>4. f2 = (Flag((x % 128) + (y % 128) + c >= 128) + Flag(x + y + c >= 256)) % 2
  BY <1>1, Carries
<1>5. v \in Int
  BY <1>1 DEF Byte, Bits
<1> HIDE DEF v, f7, f6, f2
<1>6. /\ f7 = Flag(x + y + c \notin 0..255) /\ f6 = Flag((x % 16) + (y % 16) + c \notin 0..15)
      /\ f2 = Flag(Rel(x) + Rel(y) + c \notin (-128)..127)
  BY <1>1, <1>3, <1>4, UnsignedSum, SignedSum
<1>7. f7 \in Bits /\ f6 \in Bits /\ f2 \in Bits
  BY <1>6, FlagTypes
<1>8. OperandLen \in Int
  BY <1>1
<1>9. Become(v, f7, f6, f2)
  BY <1>2, <1>5, <1>7, <1>8, FlagsEnd
<1> QED BY <1>6, <1>9 DEF Become, v, x, y

LEMMA Subtracted ==
  ASSUME IsaInv, Column > 3, NEW c \in Bits,
         Ends(SetA(SubFlags(mem, A, Operand, c), A - Operand - c), OperandLen)
  PROVE  /\ mem'[ACC] = (A - Operand - c) % 256
         /\ Bit(mem'[PSW], 7) = Flag(A - Operand - c \notin 0..255)
         /\ Bit(mem'[PSW], 6) = Flag((A % 16) - (Operand % 16) - c \notin 0..15)
         /\ Bit(mem'[PSW], 2) = Flag(Rel(A) - Rel(Operand) - c \notin (-128)..127)
<1> DEFINE x == A
           y == Operand
           v == x - y - c
           f7 == Flag(x < y + c)
           f6 == Flag((x % 16) < (y % 16) + c)
           f2 == (Flag((x % 128) < (y % 128) + c) + f7) % 2
<1>1. x \in Byte /\ y \in Byte /\ OperandLen \in Int
  BY OperandsAre, PlaceIs
<1>2. Ends(SetA(SetFlags(mem, f7, f6, f2), v), OperandLen)
  BY DEF SubFlags
<1> HIDE DEF x, y
<1>3. /\ f7 = Flag(x - y - c \notin 0..255) /\ f6 = Flag((x % 16) - (y % 16) - c \notin 0..15)
      /\ f2 = Flag(Rel(x) - Rel(y) - c \notin (-128)..127)
  BY <1>1, UnsignedSum, SignedSum
<1>4. v \in Int
  BY <1>1 DEF Byte, Bits
<1> HIDE DEF v, f7, f6, f2
<1>5. f7 \in Bits /\ f6 \in Bits /\ f2 \in Bits
  BY <1>3, FlagTypes
<1>7. OperandLen \in Int
  BY <1>1
<1>6. Become(v, f7, f6, f2)
  BY <1>2, <1>4, <1>5, <1>7, FlagsEnd
<1> QED BY <1>3, <1>6 DEF Become, v, x, y

LEMMA SumStep ==
  ASSUME IsaInv, Instruction, Column > 3, Row \in {2, 3, 9}
  PROVE  SumTold
<1>0. Row \in 0..15 /\ Column \in 0..15
  BY OperandsAre, Decoded
<1>1. Carry \in Bits /\ 0 \in Bits /\ A \in Int /\ Operand \in Int
  BY OperandsAre, PlaceIs, ByteInt
<1>2. CASE Row = 2
  <2>1. Add
    BY <1>0, <1>2, Guards DEF Instruction
  <2> DEFINE z == 0
  <2>2. A + Operand = A + Operand + z
    BY <1>1
  <2>3. Ends(SetA(AddFlags(mem, A, Operand, z), A + Operand + z), OperandLen) /\ z \in Bits
    BY <1>1, <2>1, <2>2 DEF Add
  <2> HIDE DEF z
  <2>4. /\ mem'[ACC] = (A + Operand + z) % 256
        /\ Bit(mem'[PSW], 7) = Flag(A + Operand + z \notin 0..255)
        /\ Bit(mem'[PSW], 6) = Flag((A % 16) + (Operand % 16) + z \notin 0..15)
        /\ Bit(mem'[PSW], 2) = Flag(Rel(A) + Rel(Operand) + z \notin (-128)..127)
    BY <2>3, Summed
  <2> QED BY <1>2, <2>4 DEF SumTold, z
<1>3. CASE Row = 3
  <2>1. Addc
    BY <1>0, <1>3, Guards DEF Instruction
  <2> QED BY <1>1, <1>3, <2>1, Summed DEF SumTold, Addc
<1>4. CASE Row = 9
  <2>1. Subb
    BY <1>0, <1>4, Guards DEF Instruction
  <2> QED BY <1>1, <1>4, <2>1, Subtracted DEF SumTold, Subb
<1> QED BY <1>2, <1>3, <1>4

(***************************************************************************)
(* FlagsTellTheSum for every operand and addressing mode: add_solve_flags  *)
(* and sub_solve_flags (opcodes.c:152) work by carries of parts of the     *)
(* bytes, and say what the whole sum, its signed reading and its low       *)
(* digits do.                                                              *)
(***************************************************************************)
THEOREM FlagsTold == IsaSpec => FlagsTellTheSum
<1>1. IsaInit => IsaInv
  BY DEF IsaInit, IsaInv, IsaTypes, Told, Memory
<1>2. ASSUME IsaInv, [Instruction]_vars
      PROVE  [Column > 3 /\ Row \in {2, 3, 9} => SumTold]_vars
  BY <1>2, SumStep
<1> QED BY <1>1, <1>2, InstructionKeeps, PTL DEF IsaSpec, FlagsTellTheSum

(***************************************************************************)
(* Packed decimals.  l and h are the sums of the low and of the high       *)
(* digits, c and ac what adding them left in C and AC.                     *)
(***************************************************************************)
LeftBy(l, h, a, ac, c) ==
  a = (16 * h + l) % 256 /\ ac = l \div 16 /\ c = (16 * h + l) \div 256

Adjusted(l, h, r, c) ==
  LET n == 10 * h + l
  IN  /\ r % 256 = 16 * ((n \div 10) % 10) + (n % 10)
      /\ (IF r > 153 THEN 1 ELSE c) = n \div 100

LEMMA DecimalIs ==
  ASSUME NEW l \in 0..19, NEW h \in 0..18, NEW a \in Byte, NEW ac \in Bits, NEW c \in Bits,
         LeftBy(l, h, a, ac, c)
  PROVE  Adjusted(l, h, Decimal(a, ac, c), c)
<1> DEFINE k  == Flag(l > 9)
           h1 == h + k
           l1 == l - 10 * k
           b == Flag(h1 > 9)
           h2 == h1 - 10 * b
           low == IF a % 16 > 9 \/ ac = 1 THEN a + 6 ELSE a
           r == Decimal(a, ac, c)
           n == 10 * h + l
           sum == 16 * h + l
           d == l % 16
           q == l \div 16
<1>1. k \in 0..1 /\ b \in 0..1 /\ (k = 1 <=> l > 9) /\ (b = 1 <=> h1 > 9)
  BY DEF Flag
<1>2. r = IF low - (low % 16) > 144 \/ c = 1 THEN low + 96 ELSE low
  BY DEF Decimal
<1> HIDE DEF k, b, r, sum
<1>3. h1 \in 0..19 /\ l1 \in 0..9 /\ h2 \in 0..9 /\ n = 100 * b + (10 * h2 + l1)
  BY <1>1
<1>4. sum \in 0..511 /\ sum = 256 * c + a /\ a \in 0..255 /\ c \in 0..1
  <2>1. sum \in Nat /\ sum <= 511 /\ a = sum % 256 /\ c = sum \div 256
    BY DEF sum, LeftBy
  <2>2. sum = 256 * c + a
    BY <2>1, Division
  <2> QED BY <2>1, <2>2 DEF Byte, Bits
<1>5. d \in 0..15 /\ l = 16 * q + d /\ q = ac /\ ac \in 0..1
  BY Division DEF Bits, LeftBy
<1>6. a % 16 = d
  <2> DEFINE e == h + q - 16 * c
  <2>1. a = 16 * e + d /\ e \in Int /\ a \in Int /\ d \in 0..16 - 1
    BY <1>4, <1>5 DEF sum
  <2> HIDE DEF e, d
  <2> QED BY <2>1, Remainder
<1> HIDE DEF d, q
<1>7. low = 16 * h1 + l1 - 256 * c
  <2>1. a = 16 * h + l - 256 * c
    BY <1>4 DEF sum
  <2>2. (d > 9 \/ ac = 1) <=> l > 9
    BY <1>5
  <2>3. CASE l > 9
    <3>1. low = a + 6 /\ k = 1
      BY <1>1, <1>6, <2>2, <2>3
    <3> QED BY <1>4, <2>1, <3>1
  <2>4. CASE ~(l > 9)
    <3>1. low = a /\ k = 0
      BY <1>1, <1>6, <2>2, <2>4
    <3> QED BY <1>4, <2>1, <3>1
  <2> QED BY <2>3, <2>4
<1> HIDE DEF low
<1>8. low % 16 = l1
  <2> DEFINE e == h1 - 16 * c
  <2>1. low = 16 * e + l1 /\ e \in Int /\ low \in Int /\ l1 \in 0..16 - 1
    BY <1>3, <1>4, <1>7
  <2> HIDE DEF e, l1
  <2> QED BY <2>1, Remainder
<1>9. c = 1 => h1 > 9
  <2> SUFFICES ASSUME c = 1 PROVE h1 > 9
    OBVIOUS
  <2>1. 16 * h + l >= 256
    BY <1>4 DEF sum
  <2> QED BY <1>1, <2>1
<1>10. (low - (low % 16) > 144 \/ c = 1) <=> h1 > 9
  <2>1. low - l1 = 16 * h1 - 256 * c
    BY <1>3, <1>4, <1>7
  <2> HIDE DEF h1, l1
  <2> QED BY <1>3, <1>4, <1>8, <1>9, <2>1
<1>11. r = IF b = 1 THEN low + 96 ELSE low
  BY <1>1, <1>2, <1>10
<1> HIDE DEF h1, l1, h2
<1>12. h1 = h2 + 10 * b
  BY <1>1, <1>3 DEF h2
<1>13. r = 256 * (b - c) + (16 * h2 + l1)
  <2>1. CASE b = 1
    BY <1>3, <1>4, <1>7, <1>11, <1>12, <2>1
  <2>2. CASE b = 0
    BY <1>3, <1>4, <1>7, <1>11, <1>12, <2>2
  <2> QED BY <1>1, <2>1, <2>2
<1>14. r % 256 = 16 * h2 + l1
  <2> DEFINE s == 16 * h2 + l1
             t == b - c
  <2>1. r = 256 * t + s /\ t \in Int /\ r \in Int /\ s \in 0..256 - 1
    BY <1>1, <1>3, <1>4, <1>13
  <2> HIDE DEF s, t
  <2>2. r % 256 = s
    BY <2>1, Remainder
  <2> QED BY <2>2 DEF s
<1>15. (IF r > 153 THEN 1 ELSE c) = b
  <2>1. c = 1 => b = 1
    BY <1>1, <1>9 DEF h1
  <2> QED BY <1>1, <1>3, <1>4, <1>13, <2>1
<1> HIDE DEF n
<1>16. n \div 100 = b
  <2> DEFINE s == 10 * h2 + l1
  <2>1. n = 100 * b + s /\ b \in Int /\ n \in Int /\ s \in 0..100 - 1
    BY <1>1, <1>3
  <2> HIDE DEF s
  <2> QED BY <2>1, Quotient
<1>17. n \div 10 = 10 * b + h2 /\ n % 10 = l1
  <2> DEFINE t == 10 * b + h2
  <2>1. n = 10 * t + l1 /\ t \in Int /\ n \in Int /\ l1 \in 0..10 - 1
    BY <1>1, <1>3
  <2> HIDE DEF t
  <2>2. n \div 10 = t /\ n % 10 = l1
    BY <2>1, Quotient, Remainder
  <2> QED BY <2>2 DEF t
<1>18. (n \div 10) % 10 = h2
  <2> DEFINE t == n \div 10
  <2>1. t = 10 * b + h2 /\ t \in Int /\ b \in Int /\ h2 \in 0..10 - 1
    BY <1>1, <1>3, <1>17
  <2> HIDE DEF t
  <2>2. t % 10 = h2
    BY <2>1, Remainder
  <2> QED BY <2>2 DEF t
<1> QED BY <1>14, <1>15, <1>16, <1>17, <1>18 DEF r, n, Adjusted

LEMMA AdjustStep ==
  ASSUME IsaInv, Instruction, op = 212, NEW l \in 0..19, NEW h \in 0..18
  PROVE  SumAdjusted(l, h)
<1> DEFINE ac == Bit(mem[PSW], 6)
           sum == 16 * h + l
           n == 10 * h + l
           r == Decimal(A, ac, Carry)
           m == IF r > 153 THEN SetC(mem, 1) ELSE mem
           w == SetA(m, r)
<1> SUFFICES ASSUME A = sum % 256, ac = l \div 16, Carry = sum \div 256
             PROVE  /\ mem'[ACC] = 16 * ((n \div 10) % 10) + (n % 10)
                    /\ Bit(mem'[PSW], 7) = n \div 100
  BY DEF SumAdjusted
<1>1. DaA
  <2>1. Row \in 0..15 /\ Column \in 0..15 /\ op = 16 * Row + Column
    BY OperandsAre, Decoded
  <2>2. Row = 13 /\ Column = 4
    BY <2>1
  <2> QED BY <2>2, Guards DEF Instruction
<1>2. /\ Kept(mem) /\ A \in Byte /\ Carry \in Bits /\ mem[PSW] \in Byte /\ ac \in Bits
      /\ pc + 1 \in Int /\ 1 \in Bits
  BY OperandsAre, RegistersKept, BitTypes DEF Nos
<1>3. /\ r % 256 = 16 * ((n \div 10) % 10) + (n % 10)
      /\ (IF r > 153 THEN 1 ELSE Carry) = n \div 100
  <2> DEFINE a == A
             c == Carry
             x == ac
  <2>1. /\ a \in Byte /\ c \in Bits /\ x \in Bits
        /\ LeftBy(l, h, a, x, c)
    BY <1>2 DEF LeftBy
  <2>2. r = Decimal(a, x, c)
    OBVIOUS
  <2> HIDE DEF a, c, x, r
  <2>3. Adjusted(l, h, Decimal(a, x, c), c)
    BY <2>1, DecimalIs
  <2> QED BY <2>2, <2>3 DEF c, Adjusted
<1>4. EndsAt(pc + 1, w, ACC, {})
  BY <1>1 DEF DaA, Ends
<1>5. r \in Int
  BY <1>2, DecimalInt
<1> HIDE DEF r, n
<1>6. Kept(m) /\ Bit(m[PSW], 7) = IF r > 153 THEN 1 ELSE Carry
  <2> DEFINE i == 7
             one == 1
             psw == mem[PSW]
             s == SetBit(psw, i, one)
  <2>1. i \in Nos /\ one \in Bits /\ psw \in Byte
    BY <1>2 DEF Nos, Bits
  <2>2. Kept(SetC(mem, one)) /\ SetC(mem, one)[PSW] = s
    BY <1>2, <2>1, SetCKeeps
  <2> HIDE DEF i, one, psw
  <2>3. Bit(s, i) = one
    BY <2>1, SetBitIs
  <2> HIDE DEF s
  <2> QED BY <1>2, <2>2, <2>3 DEF i, one, psw, Carry
<1> HIDE DEF m
<1>7. Kept(w) /\ w[ACC] = r % 256 /\ w[PSW] = m[PSW]
  BY <1>5, <1>6, SetAKeeps
<1> HIDE DEF w
<1>8. w \in Memory /\ ACC \in Places /\ ACC # PSW
  BY <1>7, PlacesAre DEF Kept
<1>9. 7 \in Nos \ {0}
  BY DEF Nos
<1>10. mem'[ACC] = w[ACC] /\ \A j \in Nos \ {0} : Bit(mem'[PSW], j) = Bit(w[PSW], j)
  BY <1>2, <1>4, <1>8, EndsIs
<1> QED BY <1>3, <1>6, <1>7, <1>9, <1>10

(***************************************************************************)
(* DecimalAddition for every pair of packed decimals and carry: da_a       *)
(* (opcodes.c:1323) yields the decimal sum.                                *)
(***************************************************************************)
THEOREM DecimalsAdded == IsaSpec => DecimalAddition
<1>1. IsaInit => IsaInv
  BY DEF IsaInit, IsaInv, IsaTypes, Told, Memory
<1>2. ASSUME IsaInv, [Instruction]_vars
      PROVE  [op = 212 => \A l \in 0..19, h \in 0..18 : SumAdjusted(l, h)]_vars
  BY <1>2, AdjustStep
<1> QED BY <1>1, <1>2, InstructionKeeps, PTL DEF IsaSpec, DecimalAddition

(***************************************************************************)
(* The host's table of lengths against the length each action uses.        *)
(***************************************************************************)
LEMMA RowsAre ==
  /\ (Row = 0 => OpLen = <<1, 2, 3, 1, 1, 2, 1, 1, 1, 1, 1, 1, 1, 1, 1, 1>>[Column + 1])
  /\ (Row = 1 => OpLen = <<3, 2, 3, 1, 1, 2, 1, 1, 1, 1, 1, 1, 1, 1, 1, 1>>[Column + 1])
  /\ (Row = 2 => OpLen = <<3, 2, 1, 1, 2, 2, 1, 1, 1, 1, 1, 1, 1, 1, 1, 1>>[Column + 1])
  /\ (Row = 3 => OpLen = <<3, 2, 1, 1, 2, 2, 1, 1, 1, 1, 1, 1, 1, 1, 1, 1>>[Column + 1])
  /\ (Row = 4 => OpLen = <<2, 2, 2, 3, 2, 2, 1, 1, 1, 1, 1, 1, 1, 1, 1, 1>>[Column + 1])
  /\ (Row = 5 => OpLen = <<2, 2, 2, 3, 2, 2, 1, 1, 1, 1, 1, 1, 1, 1, 1, 1>>[Column + 1])
  /\ (Row = 6 => OpLen = <<2, 2, 2, 3, 2, 2, 1, 1, 1, 1, 1, 1, 1, 1, 1, 1>>[Column + 1])
  /\ (Row = 7 => OpLen = <<2, 2, 2, 1, 2, 3, 2, 2, 2, 2, 2, 2, 2, 2, 2, 2>>[Column + 1])
  /\ (Row = 8 => OpLen = <<2, 2, 2, 1, 1, 3, 2, 2, 2, 2, 2, 2, 2, 2, 2, 2>>[Column + 1])
  /\ (Row = 9 => OpLen = <<3, 2, 2, 1, 2, 2, 1, 1, 1, 1, 1, 1, 1, 1, 1, 1>>[Column + 1])
  /\ (Row = 10 => OpLen = <<2, 2, 2, 1, 1, 1, 2, 2, 2, 2, 2, 2, 2, 2, 2, 2>>[Column + 1])
  /\ (Row = 11 => OpLen = <<2, 2, 2, 1, 3, 3, 3, 3, 3, 3, 3, 3, 3, 3, 3, 3>>[Column + 1])
  /\ (Row = 12 => OpLen = <<2, 2, 2, 1, 1, 2, 1, 1, 1, 1, 1, 1, 1, 1, 1, 1>>[Column + 1])
  /\ (Row = 13 => OpLen = <<2, 2, 2, 1, 1, 3, 1, 1, 2, 2, 2, 2, 2, 2, 2, 2>>[Column + 1])
  /\ (Row = 14 => OpLen = <<1, 2, 1, 1, 1, 2, 1, 1, 1, 1, 1, 1, 1, 1, 1, 1>>[Column + 1])
  /\ (Row = 15 => OpLen = <<1, 2, 1, 1, 1, 2, 1, 1, 1, 1, 1, 1, 1, 1, 1, 1>>[Column + 1])
<1>1. Row = 0 => OpLen = <<1, 2, 3, 1, 1, 2, 1, 1, 1, 1, 1, 1, 1, 1, 1, 1>>[Column + 1]
  BY DEF OpLen
<1>2. Row = 1 => OpLen = <<3, 2, 3, 1, 1, 2, 1, 1, 1, 1, 1, 1, 1, 1, 1, 1>>[Column + 1]
  BY DEF OpLen
<1>3. Row = 2 => OpLen = <<3, 2, 1, 1, 2, 2, 1, 1, 1, 1, 1, 1, 1, 1, 1, 1>>[Column + 1]
  BY DEF OpLen
<1>4. Row = 3 => OpLen = <<3, 2, 1, 1, 2, 2, 1, 1, 1, 1, 1, 1, 1, 1, 1, 1>>[Column + 1]
  BY DEF OpLen
<1>5. Row = 4 => OpLen = <<2, 2, 2, 3, 2, 2, 1, 1, 1, 1, 1, 1, 1, 1, 1, 1>>[Column + 1]
  BY DEF OpLen
<1>6. Row = 5 => OpLen = <<2, 2, 2, 3, 2, 2, 1, 1, 1, 1, 1, 1, 1, 1, 1, 1>>[Column + 1]
  BY DEF OpLen
<1>7. Row = 6 => OpLen = <<2, 2, 2, 3, 2, 2, 1, 1, 1, 1, 1, 1, 1, 1, 1, 1>>[Column + 1]
  BY DEF OpLen
<1>8. Row = 7 => OpLen = <<2, 2, 2, 1, 2, 3, 2, 2, 2, 2, 2, 2, 2, 2, 2, 2>>[Column + 1]
  BY DEF OpLen
<1>9. Row = 8 => OpLen = <<2, 2, 2, 1, 1, 3, 2, 2, 2, 2, 2, 2, 2, 2, 2, 2>>[Column + 1]
  BY DEF OpLen
<1>10. Row = 9 => OpLen = <<3, 2, 2, 1, 2, 2, 1, 1, 1, 1, 1, 1, 1, 1, 1, 1>>[Column + 1]
  BY DEF OpLen
<1>11. Row = 10 => OpLen = <<2, 2, 2, 1, 1, 1, 2, 2, 2, 2, 2, 2, 2, 2, 2, 2>>[Column + 1]
  BY DEF OpLen
<1>12. Row = 11 => OpLen = <<2, 2, 2, 1, 3, 3, 3, 3, 3, 3, 3, 3, 3, 3, 3, 3>>[Column + 1]
  BY DEF OpLen
<1>13. Row = 12 => OpLen = <<2, 2, 2, 1, 1, 2, 1, 1, 1, 1, 1, 1, 1, 1, 1, 1>>[Column + 1]
  BY DEF OpLen
<1>14. Row = 13 => OpLen = <<2, 2, 2, 1, 1, 3, 1, 1, 2, 2, 2, 2, 2, 2, 2, 2>>[Column + 1]
  BY DEF OpLen
<1>15. Row = 14 => OpLen = <<1, 2, 1, 1, 1, 2, 1, 1, 1, 1, 1, 1, 1, 1, 1, 1>>[Column + 1]
  BY DEF OpLen
<1>16. Row = 15 => OpLen = <<1, 2, 1, 1, 1, 2, 1, 1, 1, 1, 1, 1, 1, 1, 1, 1>>[Column + 1]
  BY DEF OpLen
<1> QED BY <1>1, <1>2, <1>3, <1>4, <1>5, <1>6, <1>7, <1>8, <1>9, <1>10, <1>11, <1>12, <1>13, <1>14, <1>15, <1>16

LEMMA Lengths ==
  ASSUME IsaInv
  PROVE  /\ (Row \in {2, 3, 4, 5, 6, 9} /\ Column > 3 => OpLen = OperandLen)
         /\ (Row \in {0, 1, 12, 14, 15} /\ Column > 3 => OpLen = PlaceLen)
         /\ (Row = 7 /\ Column > 3 => OpLen = PlaceLen + 1)
         /\ (Row = 8 /\ Column > 4 => OpLen = IF Column = 5 THEN 3 ELSE 2)
         /\ (Row = 10 /\ Column > 5 => OpLen = 2)
         /\ (Row = 11 /\ Column > 3 => OpLen = 3)
         /\ (Row = 13 /\ Column \in {4, 6, 7} => OpLen = 1)
         /\ (Row = 13 /\ (Column = 5 \/ Column > 7) => OpLen = PlaceLen + 1)
         /\ (Row \in {8, 10} /\ Column = 4 => OpLen = 1)
         /\ (Row = 10 /\ Column = 5 => OpLen = 1)
         /\ (Row \in {4, 5, 6} /\ Column = 2 => OpLen = 2)
         /\ (Row \in {4, 5, 6} /\ Column = 3 => OpLen = 3)
         /\ (Row \notin {4, 5, 6} /\ Column = 3 => OpLen = 1)
         /\ (Row \in 7..13 /\ Column = 2 => OpLen = 2)
         /\ (Row \in {14, 15} /\ Column \in {0, 2} => OpLen = 1)
         /\ (Row = 0 /\ Column = 0 => OpLen = 1)
         /\ (Row \in {1, 2, 3, 9} /\ Column = 0 => OpLen = 3)
         /\ (Row \in {4, 5, 6, 7, 8, 10, 11, 12, 13} /\ Column = 0 => OpLen = 2)
<1>0. Row \in 0..15 /\ Column \in 0..15
  BY OperandsAre, Decoded
<1> DEFINE r == Row
           k == Column
           len == OpLen
<1>1. /\ r \in {0, 1, 2, 3, 4, 5, 6, 7, 8, 9, 10, 11, 12, 13, 14, 15}
      /\ k \in {0, 1, 2, 3, 4, 5, 6, 7, 8, 9, 10, 11, 12, 13, 14, 15}
  BY <1>0
<1>2. r = 0 => len = <<1, 2, 3, 1, 1, 2, 1, 1, 1, 1, 1, 1, 1, 1, 1, 1>>[k + 1]
  BY RowsAre
<1>3. r = 1 => len = <<3, 2, 3, 1, 1, 2, 1, 1, 1, 1, 1, 1, 1, 1, 1, 1>>[k + 1]
  BY RowsAre
<1>4. r = 2 => len = <<3, 2, 1, 1, 2, 2, 1, 1, 1, 1, 1, 1, 1, 1, 1, 1>>[k + 1]
  BY RowsAre
<1>5. r = 3 => len = <<3, 2, 1, 1, 2, 2, 1, 1, 1, 1, 1, 1, 1, 1, 1, 1>>[k + 1]
  BY RowsAre
<1>6. r = 4 => len = <<2, 2, 2, 3, 2, 2, 1, 1, 1, 1, 1, 1, 1, 1, 1, 1>>[k + 1]
  BY RowsAre
<1>7. r = 5 => len = <<2, 2, 2, 3, 2, 2, 1, 1, 1, 1, 1, 1, 1, 1, 1, 1>>[k + 1]
  BY RowsAre
<1>8. r = 6 => len = <<2, 2, 2, 3, 2, 2, 1, 1, 1, 1, 1, 1, 1, 1, 1, 1>>[k + 1]
  BY RowsAre
<1>9. r = 7 => len = <<2, 2, 2, 1, 2, 3, 2, 2, 2, 2, 2, 2, 2, 2, 2, 2>>[k + 1]
  BY RowsAre
<1>10. r = 8 => len = <<2, 2, 2, 1, 1, 3, 2, 2, 2, 2, 2, 2, 2, 2, 2, 2>>[k + 1]
  BY RowsAre
<1>11. r = 9 => len = <<3, 2, 2, 1, 2, 2, 1, 1, 1, 1, 1, 1, 1, 1, 1, 1>>[k + 1]
  BY RowsAre
<1>12. r = 10 => len = <<2, 2, 2, 1, 1, 1, 2, 2, 2, 2, 2, 2, 2, 2, 2, 2>>[k + 1]
  BY RowsAre
<1>13. r = 11 => len = <<2, 2, 2, 1, 3, 3, 3, 3, 3, 3, 3, 3, 3, 3, 3, 3>>[k + 1]
  BY RowsAre
<1>14. r = 12 => len = <<2, 2, 2, 1, 1, 2, 1, 1, 1, 1, 1, 1, 1, 1, 1, 1>>[k + 1]
  BY RowsAre
<1>15. r = 13 => len = <<2, 2, 2, 1, 1, 3, 1, 1, 2, 2, 2, 2, 2, 2, 2, 2>>[k + 1]
  BY RowsAre
<1>16. r = 14 => len = <<1, 2, 1, 1, 1, 2, 1, 1, 1, 1, 1, 1, 1, 1, 1, 1>>[k + 1]
  BY RowsAre
<1>17. r = 15 => len = <<1, 2, 1, 1, 1, 2, 1, 1, 1, 1, 1, 1, 1, 1, 1, 1>>[k + 1]
  BY RowsAre
<1>18. OperandLen = (IF k \in {4, 5} THEN 2 ELSE 1) /\ PlaceLen = IF k = 5 THEN 2 ELSE 1
  BY DEF OperandLen, PlaceLen
<1> HIDE DEF r, k, len
<1>19. r = 0 =>
      /\ (k = 0 => len = 1)
      /\ (k = 2 => len = 3)
      /\ (k \in 3..4 => len = 1)
      /\ (k = 5 => len = 2)
      /\ (k \in 6..15 => len = 1)
  BY <1>1, <1>2
<1>20. r = 1 =>
      /\ (k = 0 => len = 3)
      /\ (k = 2 => len = 3)
      /\ (k \in 3..4 => len = 1)
      /\ (k = 5 => len = 2)
      /\ (k \in 6..15 => len = 1)
  BY <1>1, <1>3
<1>21. r = 2 =>
      /\ (k = 0 => len = 3)
      /\ (k \in 2..3 => len = 1)
      /\ (k \in 4..5 => len = 2)
      /\ (k \in 6..15 => len = 1)
  BY <1>1, <1>4
<1>22. r = 3 =>
      /\ (k = 0 => len = 3)
      /\ (k \in 2..3 => len = 1)
      /\ (k \in 4..5 => len = 2)
      /\ (k \in 6..15 => len = 1)
  BY <1>1, <1>5
<1>23. r = 4 =>
      /\ (k \in 0..2 => len = 2)
      /\ (k = 3 => len = 3)
      /\ (k \in 4..5 => len = 2)
      /\ (k \in 6..15 => len = 1)
  BY <1>1, <1>6
<1>24. r = 5 =>
      /\ (k \in 0..2 => len = 2)
      /\ (k = 3 => len = 3)
      /\ (k \in 4..5 => len = 2)
      /\ (k \in 6..15 => len = 1)
  BY <1>1, <1>7
<1>25. r = 6 =>
      /\ (k \in 0..2 => len = 2)
      /\ (k = 3 => len = 3)
      /\ (k \in 4..5 => len = 2)
      /\ (k \in 6..15 => len = 1)
  BY <1>1, <1>8
<1>26. r = 7 =>
      /\ (k \in 0..2 => len = 2)
      /\ (k = 3 => len = 1)
      /\ (k = 4 => len = 2)
      /\ (k = 5 => len = 3)
      /\ (k \in 6..15 => len = 2)
  BY <1>1, <1>9
<1>27. r = 8 =>
      /\ (k \in 0..2 => len = 2)
      /\ (k \in 3..4 => len = 1)
      /\ (k = 5 => len = 3)
      /\ (k \in 6..15 => len = 2)
  BY <1>1, <1>10
<1>28. r = 9 =>
      /\ (k = 0 => len = 3)
      /\ (k \in 1..2 => len = 2)
      /\ (k = 3 => len = 1)
      /\ (k \in 4..5 => len = 2)
      /\ (k \in 6..15 => len = 1)
  BY <1>1, <1>11
<1>29. r = 10 =>
      /\ (k \in 0..2 => len = 2)
      /\ (k \in 3..5 => len = 1)
      /\ (k \in 6..15 => len = 2)
  BY <1>1, <1>12
<1>30. r = 11 =>
      /\ (k \in 0..2 => len = 2)
      /\ (k = 3 => len = 1)
      /\ (k \in 4..15 => len = 3)
  BY <1>1, <1>13
<1>31. r = 12 =>
      /\ (k \in 0..2 => len = 2)
      /\ (k \in 3..4 => len = 1)
      /\ (k = 5 => len = 2)
      /\ (k \in 6..15 => len = 1)
  BY <1>1, <1>14
<1>32. r = 13 =>
      /\ (k \in 0..2 => len = 2)
      /\ (k \in 3..4 => len = 1)
      /\ (k = 5 => len = 3)
      /\ (k \in 6..7 => len = 1)
      /\ (k \in 8..15 => len = 2)
  BY <1>1, <1>15
<1>33. r = 14 =>
      /\ (k = 0 => len = 1)
      /\ (k \in 2..4 => len = 1)
      /\ (k = 5 => len = 2)
      /\ (k \in 6..15 => len = 1)
  BY <1>1, <1>16
<1>34. r = 15 =>
      /\ (k = 0 => len = 1)
      /\ (k \in 2..4 => len = 1)
      /\ (k = 5 => len = 2)
      /\ (k \in 6..15 => len = 1)
  BY <1>1, <1>17
<1> QED BY <1>0, <1>1, <1>18, <1>19, <1>20, <1>21, <1>22, <1>23, <1>24, <1>25, <1>26, <1>27, <1>28, <1>29, <1>30, <1>31, <1>32, <1>33, <1>34 DEF r, k, len

(***************************************************************************)
(* Where an instruction goes on.                                           *)
(***************************************************************************)
GoesOn(len)   == pc' = (pc + len) % 65536
Branches(len) == pc' = (pc + len + Rel(Code((pc + len) - 1))) % 65536

LEMMA GoingOn ==
  /\ \A m, len : Ends(m, len) => GoesOn(len)
  /\ \A p, v, m, len : EndsWriting(p, v, m, len) => GoesOn(len)
  /\ \A m, p, f, len : EndsAt(pc + len, m, p, f) => GoesOn(len)
BY DEF Ends, EndsWriting, EndsAt, GoesOn

LEMMA Branching ==
  ASSUME IsaInv, NEW t, NEW m, NEW p, NEW f, NEW len \in Nat,
         EndsAt(pc + len + (IF t THEN Rel(Arg(len - 1)) ELSE 0), m, p, f)
  PROVE  GoesOn(len) \/ Branches(len)
<1>1. pc \in Int /\ pc + (len - 1) = (pc + len) - 1 /\ pc + len + 0 = pc + len
  BY OperandsAre
<1>2. CASE t
  <2>1. Arg(len - 1) = Code((pc + len) - 1)
    BY <1>1 DEF Arg
  <2>2. EndsAt(pc + len + Rel(Arg(len - 1)), m, p, f)
    BY <1>2
  <2> QED BY <2>1, <2>2 DEF EndsAt, Branches
<1>3. CASE ~t
  BY <1>1, <1>3, GoingOn
<1> QED BY <1>2, <1>3

LEMMA JumpsBranch ==
  ASSUME IsaInv, NEW t, NEW m, NEW len \in Nat, Jumps(t, m, len)
  PROVE  GoesOn(len) \/ Branches(len)
BY Branching DEF Jumps

LEMMA StraightOn ==
  ASSUME IsaInv, Instruction, ~Jumping
  PROVE  GoesOn(OpLen) \/ (CondRel /\ Branches(OpLen))
<1>0. Row \in 0..15 /\ Column \in 0..15 /\ op = 16 * Row + Column
  BY OperandsAre, Decoded
<1>1. CASE Add \/ Addc \/ Subb \/ DaA \/ MulAb \/ DivAb
  <2>1. CASE Add \/ Addc \/ Subb
    <3>1. OpLen = OperandLen
      BY <2>1, Guards, Lengths
    <3> QED BY <2>1, <3>1, GoingOn DEF Add, Addc, Subb
  <2>2. CASE DaA \/ MulAb \/ DivAb
    <3>1. OpLen = 1
      BY <2>2, Guards, Lengths
    <3> QED BY <2>2, <3>1, GoingOn DEF DaA, MulAb, DivAb
  <2> QED BY <1>1, <2>1, <2>2
<1>2. CASE Inc \/ Dec \/ IncDptr
  <2>1. CASE Inc \/ Dec
    <3>1. OpLen = PlaceLen
      BY <2>1, Guards, Lengths
    <3> QED BY <2>1, <3>1, GoingOn DEF Inc, Dec
  <2>2. CASE IncDptr
    <3>1. OpLen = 1
      BY <2>2, Guards, Lengths
    <3> QED BY <2>2, <3>1, GoingOn DEF IncDptr
  <2> QED BY <1>2, <2>1, <2>2
<1>3. CASE OrlA \/ AnlA \/ XrlA
  <2>1. OpLen = OperandLen
    BY <1>3, Guards, Lengths
  <2> QED BY <1>3, <2>1, GoingOn DEF OrlA, AnlA, XrlA
<1>4. CASE OrlMem \/ AnlMem \/ XrlMem
  <2>1. PICK len : OpLen = len /\ GoesOn(len)
    <3>1. (op \in {66, 82, 98} => OpLen = 2) /\ (op \in {67, 83, 99} => OpLen = 3)
      <4>1. op \in {66, 82, 98} => Row \in {4, 5, 6} /\ Column = 2
        BY <1>0
      <4>2. op \in {67, 83, 99} => Row \in {4, 5, 6} /\ Column = 3
        BY <1>0
      <4> QED BY <4>1, <4>2, Lengths
    <3>2. (op \in {66, 82, 98} /\ GoesOn(2)) \/ (op \in {67, 83, 99} /\ GoesOn(3))
      BY <1>4, GoingOn DEF OrlMem, AnlMem, XrlMem
    <3> QED BY <3>1, <3>2
  <2> QED BY <2>1
<1>5. CASE RrA \/ RlA \/ RrcA \/ RlcA \/ SwapA \/ ClrA \/ CplA
  <2>1. OpLen = 1
    <3>1. CASE RrA \/ RlA \/ RrcA \/ RlcA
      <4>1. Row \notin {4, 5, 6} /\ Column = 3
        BY <3>1, Guards
      <4> QED BY <4>1, Lengths
    <3>2. CASE SwapA \/ ClrA \/ CplA
      <4>1. Row \in {12, 14, 15} /\ Column = 4
        BY <3>2, Guards
      <4>2. OpLen = PlaceLen /\ PlaceLen = 1
        BY <4>1, Lengths DEF PlaceLen
      <4> QED BY <4>2
    <3> QED BY <1>5, <3>1, <3>2
  <2> QED BY <1>5, <2>1, GoingOn DEF RrA, RlA, RrcA, RlcA, SwapA, ClrA, CplA
<1>6. CASE MovImm \/ MovToDirect \/ MovFromDirect
  <2>1. CASE MovImm
    BY <2>1, Guards, Lengths, GoingOn DEF MovImm
  <2>2. CASE MovToDirect
    <3>1. OpLen = IF Column = 5 THEN 3 ELSE 2
      BY <2>2, Guards, Lengths
    <3>2. (Column = 5 /\ GoesOn(3)) \/ (Column # 5 /\ GoesOn(2))
      BY <2>2, GoingOn DEF MovToDirect
    <3> QED BY <3>1, <3>2
  <2>3. CASE MovFromDirect
    BY <2>3, Guards, Lengths, GoingOn DEF MovFromDirect
  <2> QED BY <1>6, <2>1, <2>2, <2>3
<1>7. CASE MovToA \/ MovFromA \/ MovDptr \/ XchA \/ XchdA
  <2>1. CASE MovToA \/ MovFromA \/ XchA
    <3>1. OpLen = PlaceLen
      <4>1. Row \in {12, 14, 15} /\ Column > 4
        BY <2>1, Guards
      <4>2. Column > 3
        BY <1>0, <4>1
      <4> QED BY <4>1, <4>2, Lengths
    <3> QED BY <2>1, <3>1, GoingOn DEF MovToA, MovFromA, XchA
  <2>2. CASE MovDptr
    <3>1. OpLen = 3
      BY <2>2, Guards, Lengths
    <3> QED BY <2>2, <3>1, GoingOn DEF MovDptr
  <2>3. CASE XchdA
    <3>1. OpLen = 1
      BY <2>3, Guards, Lengths
    <3> QED BY <2>3, <3>1, GoingOn DEF XchdA
  <2> QED BY <1>7, <2>1, <2>2, <2>3
<1>8. CASE MovcPc \/ MovcDptr \/ MovxRead \/ MovxWrite
  <2>1. OpLen = 1
    BY <1>8, Guards, Lengths
  <2> QED BY <1>8, <2>1, GoingOn DEF MovcPc, MovcDptr, MovxRead, MovxWrite
<1>9. CASE Push \/ Pop
  <2>1. OpLen = 2
    BY <1>9, Guards, Lengths
  <2> QED BY <1>9, <2>1, GoingOn DEF Push, Pop
<1>10. CASE MovCBit \/ OrlCBit \/ AnlCBit \/ OrlCNbit \/ AnlCNbit
  <2>1. OpLen = 2
    BY <1>10, Guards, Lengths
  <2> QED BY <1>10, <2>1, GoingOn DEF MovCBit, OrlCBit, AnlCBit, OrlCNbit, AnlCNbit
<1>11. CASE MovBitC \/ CplBit \/ ClrBit \/ SetbBit
  <2>1. OpLen = 2
    BY <1>11, Guards, Lengths
  <2> QED BY <1>11, <2>1, GoingOn DEF MovBitC, CplBit, ClrBit, SetbBit, ChangeBit
<1>12. CASE CplC \/ ClrC \/ SetbC
  <2>1. OpLen = 1
    BY <1>12, Guards, Lengths
  <2> QED BY <1>12, <2>1, GoingOn DEF CplC, ClrC, SetbC
<1>13. ~(Ajmp \/ Acall \/ Lcall \/ Ret \/ Ljmp \/ Sjmp \/ JmpADptr)
  BY Guards DEF Jumping, Lcall, Ret, Ljmp, Sjmp, JmpADptr
<1>14. CASE Jc \/ Jz \/ Jnz
  <2>1. OpLen = 2 /\ CondRel
    BY <1>14, Guards, Lengths DEF CondRel
  <2>2. GoesOn(2) \/ Branches(2)
    <3>1. \E t \in BOOLEAN : Jumps(t, mem, 2)
      BY <1>14 DEF Jc, Jz, Jnz
    <3> QED BY <3>1, JumpsBranch
  <2> QED BY <2>1, <2>2
<1>15. CASE Jb \/ Jnb
  <2>1. OpLen = 3 /\ CondRel
    BY <1>15, Guards, Lengths DEF CondRel
  <2>2. GoesOn(3) \/ Branches(3)
    <3>1. \E t \in BOOLEAN : Jumps(t, mem, 3)
      BY <1>15 DEF Jb, Jnb
    <3> QED BY <3>1, JumpsBranch
  <2> QED BY <2>1, <2>2
<1>16. CASE Jbc
  <2>1. OpLen = 3 /\ CondRel
    BY <1>16, Guards, Lengths DEF CondRel
  <2>2. pc \in Int /\ Arg(2) = Code((pc + 3) - 1)
    <3>1. pc \in Int /\ pc + 2 = (pc + 3) - 1
      BY OperandsAre
    <3> QED BY <3>1 DEF Arg
  <2>3. GoesOn(3) \/ Branches(3)
    <3>1. PICK m, p : EndsAt(pc + 3 + Rel(Arg(2)), m, p, {}) \/ EndsAt(pc + 3, m, p, {})
      BY <1>16 DEF Jbc
    <3>2. CASE EndsAt(pc + 3 + Rel(Arg(2)), m, p, {})
      BY <2>2, <3>2 DEF EndsAt, Branches
    <3>3. CASE EndsAt(pc + 3, m, p, {})
      BY <3>3, GoingOn
    <3> QED BY <3>1, <3>2, <3>3
  <2> QED BY <2>1, <2>3
<1>17. CASE Cjne
  <2>1. Row = 11 /\ Column > 3 /\ OpLen = 3
    BY <1>17, Guards, Lengths
  <2>2. CondRel
    <3>1. op \in 180..191
      BY <1>0, <2>1
    <3> QED BY <3>1 DEF CondRel
  <2>3. GoesOn(3) \/ Branches(3)
    <3>1. \E t, m : Jumps(t, m, 3)
      BY <1>17 DEF Cjne
    <3> QED BY <3>1, JumpsBranch
  <2> QED BY <2>1, <2>2, <2>3
<1>18. CASE Djnz
  <2>1. Row = 13 /\ (Column = 5 \/ Column > 7)
    BY <1>18 DEF Djnz
  <2>2. OpLen = PlaceLen + 1
    BY <2>1, Lengths
  <2>3. CondRel
    <3>1. op = 213 \/ op \in 216..223
      BY <1>0, <2>1
    <3> QED BY <3>1 DEF CondRel
  <2> DEFINE len == PlaceLen + 1
             v == (ReadMem(Place) + 255) % 256
  <2>4. len \in Nat
    BY DEF PlaceLen
  <2>5. EndsAt(pc + len + (IF v # 0 THEN Rel(Arg(len - 1)) ELSE 0), Written(mem, Place, v), Place, {})
    BY <1>18 DEF Djnz
  <2> HIDE DEF len, v
  <2>6. GoesOn(len) \/ Branches(len)
    BY <2>4, <2>5, Branching
  <2> QED BY <2>2, <2>3, <2>6 DEF len
<1>19. CASE Nop
  <2>1. OpLen = 1
    BY <1>19, Guards, Lengths
  <2> QED BY <1>19, <2>1, GoingOn DEF Nop
<1> QED BY <1>1, <1>2, <1>3, <1>4, <1>5, <1>6, <1>7, <1>8, <1>9, <1>10, <1>11, <1>12, <1>13,
           <1>14, <1>15, <1>16, <1>17, <1>18, <1>19 DEF Instruction

(***************************************************************************)
(* HostFollows for every opcode and program: the length and the jumps the  *)
(* plugin host's tables give (sim/plugin.c:19) are those of the handler.   *)
(***************************************************************************)
THEOREM FollowedByHost == IsaSpec => HostFollows
<1>1. IsaInit => IsaInv
  BY DEF IsaInit, IsaInv, IsaTypes, Told, Memory
<1> DEFINE next == pc + OpLen
           Followed == pc' \in {next % 65536} \cup
                         (IF CondRel THEN {(next + Rel(Code(next - 1))) % 65536} ELSE {})
<1>2. ASSUME IsaInv, [Instruction]_vars
      PROVE  [Jumping \/ Followed]_vars
  <2>1. CASE Instruction /\ ~Jumping
    <3>1. GoesOn(OpLen) \/ (CondRel /\ Branches(OpLen))
      BY <1>2, <2>1, StraightOn
    <3>2. GoesOn(OpLen) => Followed
      BY DEF GoesOn
    <3>3. ASSUME CondRel, Branches(OpLen) PROVE Followed
      <4> DEFINE y == (next + Rel(Code(next - 1))) % 65536
      <4>1. pc' = y
        BY <3>3 DEF Branches
      <4>2. Followed <=> pc' \in {next % 65536} \cup {y}
        BY <3>3
      <4> QED BY <4>1, <4>2
    <3> QED BY <3>1, <3>2, <3>3
  <2> QED BY <1>2, <2>1
<1> QED BY <1>1, <1>2, InstructionKeeps, PTL DEF IsaSpec, HostFollows

(***************************************************************************)
(* The listing of disasm.c.  LenOf is ListedLen of a text: texts are at    *)
(* most four words long, so the sum unfolds.                               *)
(***************************************************************************)
LenOf(t) ==
  LET sum[i \in 1..Len(t)] == IF i = 1 THEN 1 ELSE sum[i - 1] + BytesOf(t[i])
  IN  sum[Len(t)]

LEMMA LineLengths ==
  /\ \A a : LenOf(<<a>>) = 1
  /\ \A a, b : LenOf(<<a, b>>) = 1 + BytesOf(b)
  /\ \A a, b, c : LenOf(<<a, b, c>>) = 1 + BytesOf(b) + BytesOf(c)
  /\ \A a, b, c, d : LenOf(<<a, b, c, d>>) = 1 + BytesOf(b) + BytesOf(c) + BytesOf(d)
<1>1. ASSUME NEW t, NEW n \in {1, 2, 3, 4}, Len(t) = n
      PROVE  /\ n = 1 => LenOf(t) = 1
             /\ n = 2 => LenOf(t) = 1 + BytesOf(t[2])
             /\ n = 3 => LenOf(t) = 1 + BytesOf(t[2]) + BytesOf(t[3])
             /\ n = 4 => LenOf(t) = 1 + BytesOf(t[2]) + BytesOf(t[3]) + BytesOf(t[4])
  <2> DEFINE S == 1..n
             w(i) == BytesOf(t[i])
             f == [i \in S |-> IF i = 1 THEN 1 ELSE IF i = 2 THEN 1 + w(2)
                               ELSE IF i = 3 THEN 1 + w(2) + w(3) ELSE 1 + w(2) + w(3) + w(4)]
             Runs(g) == g = [i \in S |-> IF i = 1 THEN 1 ELSE g[i - 1] + w(i)]
             sum == CHOOSE g : Runs(g)
  <2>0. \A i : w(i) \in Nat
    BY DEF BytesOf
  <2>1. LenOf(t) = sum[n]
    BY <1>1 DEF LenOf
  <2> HIDE DEF w
  <2>2. Runs(f)
    <3> SUFFICES ASSUME NEW i \in S PROVE f[i] = IF i = 1 THEN 1 ELSE f[i - 1] + w(i)
      OBVIOUS
    <3>1. i \in {1, 2, 3, 4} /\ (i # 1 => i - 1 \in S)
      OBVIOUS
    <3> QED BY <2>0, <3>1
  <2>3. Runs(sum)
    <3> HIDE DEF f, Runs
    <3> QED BY <2>2
  <2> HIDE DEF sum
  <2>4. \A i \in S : sum[i] = IF i = 1 THEN 1 ELSE sum[i - 1] + w(i)
    BY <2>3
  <2>5. sum[1] = 1 /\ (n > 1 => sum[2] = 1 + w(2)) /\ (n > 2 => sum[3] = 1 + w(2) + w(3))
        /\ (n > 3 => sum[4] = 1 + w(2) + w(3) + w(4))
    BY <2>4, <2>0
  <2> QED BY <2>1, <2>5, <2>0 DEF w
<1>2. \A a : Len(<<a>>) = 1
  OBVIOUS
<1>3. \A a, b : Len(<<a, b>>) = 2 /\ <<a, b>>[2] = b
  OBVIOUS
<1>4. \A a, b, c : Len(<<a, b, c>>) = 3 /\ <<a, b, c>>[2] = b /\ <<a, b, c>>[3] = c
  OBVIOUS
<1>5. \A a, b, c, d : /\ Len(<<a, b, c, d>>) = 4 /\ <<a, b, c, d>>[2] = b
                       /\ <<a, b, c, d>>[3] = c /\ <<a, b, c, d>>[4] = d
  OBVIOUS
<1>6. \A a : LenOf(<<a>>) = 1
  BY <1>1, <1>2
<1>7. \A a, b : LenOf(<<a, b>>) = 1 + BytesOf(b)
  BY <1>1, <1>3
<1>8. \A a, b, c : LenOf(<<a, b, c>>) = 1 + BytesOf(b) + BytesOf(c)
  BY <1>1, <1>4
<1>9. \A a, b, c, d : LenOf(<<a, b, c, d>>) = 1 + BytesOf(b) + BytesOf(c) + BytesOf(d)
  BY <1>1, <1>5
<1> QED BY <1>6, <1>7, <1>8, <1>9

(***************************************************************************)
(* The texts of the table, by the halves of its rows.                      *)
(***************************************************************************)
LEMMA TextIs ==
  ASSUME NEW o \in Byte
  PROVE  /\ o % 16 > 7 => Text[o] = Registers[1 + o \div 16]
         /\ o % 16 <= 7 => Text[o] = <<Rows01, Rows23, Rows45, Rows67, Rows89, RowsAB, RowsCD, RowsEF>>
                  [1 + o \div 32][1 + 8 * ((o \div 16) % 2) + (o % 8)]
         /\ ListedLen(o) = LenOf(Text[o])
BY DEF Text, ListedLen, LenOf, Byte

(***************************************************************************)
(* The first opcode that has a text, found from its words alone: with the  *)
(* register or the page that a line adds to it, it gives the opcode back.  *)
(***************************************************************************)
At(k) == CASE k \in {"A", "imm"} -> 4 [] k = "mem" -> 5 [] k = "@Ri" -> 6 [] k = "Rn" -> 8

Alone(v) ==
  CASE v = "NOP" -> 0 [] v = "RET" -> 34 [] v = "RETI" -> 50 [] OTHER -> 165

OfOne(v, k) ==
  CASE v = "AJMP" -> 1 [] v = "LJMP" -> 2 [] v = "RR" -> 3
    [] v = "INC" -> IF k = "DPTR" THEN 163 ELSE At(k)
    [] v = "ACALL" -> 17 [] v = "LCALL" -> 18 [] v = "RRC" -> 19 [] v = "DEC" -> 16 + At(k)
    [] v = "RL" -> 35 [] v = "RLC" -> 51 [] v = "JC" -> 64 [] v = "JNC" -> 80
    [] v = "JZ" -> 96 [] v = "JNZ" -> 112 [] v = "JMP" -> 115 [] v = "SJMP" -> 128
    [] v = "DIV" -> 132 [] v = "MUL" -> 164 [] v = "PUSH" -> 192 [] v = "POP" -> 208
    [] v = "SWAP" -> 196 [] v = "DA" -> 212
    [] v = "CPL" -> IF k = "bit" THEN 178 ELSE IF k = "C" THEN 179 ELSE 244
    [] v = "CLR" -> IF k = "bit" THEN 194 ELSE IF k = "C" THEN 195 ELSE 228
    [] v = "SETB" -> IF k = "bit" THEN 210 ELSE 211

OfTwo(v, k, l) ==
  CASE v = "JB" -> 32 [] v = "JNB" -> 48 [] v = "ADD" -> 32 + At(l) [] v = "ADDC" -> 48 + At(l)
    [] v = "SUBB" -> 144 + At(l)
    [] v = "ORL" -> IF k = "A" THEN 64 + At(l) ELSE IF k = "mem" THEN (IF l = "A" THEN 66 ELSE 67)
                    ELSE IF l = "bit" THEN 114 ELSE 160
    [] v = "ANL" -> IF k = "A" THEN 80 + At(l) ELSE IF k = "mem" THEN (IF l = "A" THEN 82 ELSE 83)
                    ELSE IF l = "bit" THEN 130 ELSE 176
    [] v = "XRL" -> IF k = "A" THEN 96 + At(l) ELSE IF l = "A" THEN 98 ELSE 99
    [] v = "MOV" -> IF l = "imm" THEN 112 + At(k) ELSE IF k = "mem" /\ l # "A" THEN 128 + At(l)
                    ELSE IF k = "DPTR" THEN 144 ELSE IF k = "bit" THEN 146
                    ELSE IF k = "C" THEN 162 ELSE IF l = "mem" /\ k # "A" THEN 160 + At(k)
                    ELSE IF k = "A" THEN 224 + At(l) ELSE 240 + At(k)
    [] v = "JBC" -> 16
    [] v = "MOVC" -> IF l = "@A+PC" THEN 131 ELSE 147
    [] v = "MOVX" -> IF l = "@DPTR" THEN 224 ELSE IF l = "@Ri" THEN 226
                     ELSE IF k = "@DPTR" THEN 240 ELSE 242
    [] v = "XCH" -> 192 + At(l) [] v = "XCHD" -> 214
    [] v = "DJNZ" -> 208 + At(k)

First(t) ==
  CASE Len(t) = 1 -> Alone(t[1]) [] Len(t) = 2 -> OfOne(t[1], t[2])
    [] Len(t) = 3 -> OfTwo(t[1], t[2], t[3])
    [] OTHER -> 176 + (IF t[2] = "A" THEN At(t[3]) ELSE At(t[2]))

HasIn(t, kind) == \E i \in 2..Len(t) : t[i] = kind

TargetIn(t) ==
  LET page == HasIn(t, "page")
      far  == HasIn(t, "addr16")
      rel  == HasIn(t, "rel")
  IN  IF page /\ ~far /\ ~rel THEN "page" ELSE IF far /\ ~page /\ ~rel THEN "addr16"
      ELSE IF rel /\ ~page /\ ~far THEN "rel" ELSE "none"

NumberIn(t, o) == First(t) + (IF HasIn(t, "@Ri") THEN o % 2 ELSE IF HasIn(t, "Rn") THEN o % 8
                              ELSE IF HasIn(t, "page") THEN 32 * (o \div 32) ELSE 0)

LEMMA Words ==
  /\ \A a, k : ~HasIn(<<a>>, k)
  /\ \A a, b, k : HasIn(<<a, b>>, k) <=> k = b
  /\ \A a, b, c, k : HasIn(<<a, b, c>>, k) <=> k \in {b, c}
  /\ \A a, b, c, d, k : HasIn(<<a, b, c, d>>, k) <=> k \in {b, c, d}
<1>1. \A a, k : ~HasIn(<<a>>, k)
  BY DEF HasIn
<1>2. \A a, b, k : HasIn(<<a, b>>, k) <=> k = b
  BY DEF HasIn
<1>3. \A a, b, c, k : HasIn(<<a, b, c>>, k) <=> k \in {b, c}
  BY DEF HasIn
<1>4. \A a, b, c, d, k : HasIn(<<a, b, c, d>>, k) <=> k \in {b, c, d}
  BY DEF HasIn
<1> QED BY <1>1, <1>2, <1>3, <1>4

(***************************************************************************)
(* Every row of the table: what a line shows of opcode o, how long the     *)
(* listing takes it to be, and what kind of target it has.                 *)
(***************************************************************************)
Shows(o, t, len, target) == LenOf(t) = len /\ TargetIn(t) = target /\ NumberIn(t, o) = o

Reads(o, len, target) == Shows(o, Text[o], len, target)

LEMMA Lines0 ==
  ASSUME NEW o \in Byte, NEW k \in 0..15, o = k
  PROVE  Reads(o, <<1, 2, 3, 1, 1, 2, 1, 1, 1, 1, 1, 1, 1, 1, 1, 1>>[k + 1],
               IF k = 1 THEN "page" ELSE IF k = 2 THEN "addr16" ELSE "none")
<1>1. /\ Shows(0, <<"NOP">>, 1, "none")
      /\ Shows(1, <<"AJMP", "page">>, 2, "page")
      /\ Shows(2, <<"LJMP", "addr16">>, 3, "addr16")
      /\ Shows(3, <<"RR", "A">>, 1, "none")
  BY Words, LineLengths DEF Shows, TargetIn, NumberIn, First, Alone, OfOne, OfTwo, At, BytesOf
<1>2. /\ Shows(4, <<"INC", "A">>, 1, "none")
      /\ Shows(5, <<"INC", "mem">>, 2, "none")
      /\ Shows(6, <<"INC", "@Ri">>, 1, "none")
      /\ Shows(7, <<"INC", "@Ri">>, 1, "none")
  BY Words, LineLengths DEF Shows, TargetIn, NumberIn, First, Alone, OfOne, OfTwo, At, BytesOf
<1>3. \A n \in 8..15 : Shows(n, <<"INC", "Rn">>, 1, "none")
  BY Words, LineLengths DEF Shows, TargetIn, NumberIn, First, Alone, OfOne, OfTwo, At, BytesOf
<1>4. k > 7 => Text[o] = <<"INC", "Rn">>
  BY TextIs DEF Registers
<1>5. k <= 7 => Text[o] = Rows01[1 + k]
  BY TextIs
<1>6. CASE k > 7
  BY <1>3, <1>4, <1>6 DEF Reads
<1>7. CASE k \in {0, 1, 2, 3, 4, 5, 6, 7}
  BY <1>1, <1>2, <1>5, <1>7 DEF Reads, Rows01
<1> QED BY <1>6, <1>7

LEMMA Lines1 ==
  ASSUME NEW o \in Byte, NEW k \in 0..15, o = 16 + k
  PROVE  Reads(o, <<3, 2, 3, 1, 1, 2, 1, 1, 1, 1, 1, 1, 1, 1, 1, 1>>[k + 1],
               IF k = 0 THEN "rel" ELSE IF k = 1 THEN "page" ELSE IF k = 2 THEN "addr16" ELSE "none")
<1>1. /\ Shows(16, <<"JBC", "bit", "rel">>, 3, "rel")
      /\ Shows(17, <<"ACALL", "page">>, 2, "page")
      /\ Shows(18, <<"LCALL", "addr16">>, 3, "addr16")
      /\ Shows(19, <<"RRC", "A">>, 1, "none")
  BY Words, LineLengths DEF Shows, TargetIn, NumberIn, First, Alone, OfOne, OfTwo, At, BytesOf
<1>2. /\ Shows(20, <<"DEC", "A">>, 1, "none")
      /\ Shows(21, <<"DEC", "mem">>, 2, "none")
      /\ Shows(22, <<"DEC", "@Ri">>, 1, "none")
      /\ Shows(23, <<"DEC", "@Ri">>, 1, "none")
  BY Words, LineLengths DEF Shows, TargetIn, NumberIn, First, Alone, OfOne, OfTwo, At, BytesOf
<1>3. \A n \in 8..15 : Shows(16 + n, <<"DEC", "Rn">>, 1, "none")
  BY Words, LineLengths DEF Shows, TargetIn, NumberIn, First, Alone, OfOne, OfTwo, At, BytesOf
<1>4. k > 7 => Text[o] = <<"DEC", "Rn">>
  BY TextIs DEF Registers
<1>5. k <= 7 => Text[o] = Rows01[9 + k]
  BY TextIs
<1>6. CASE k > 7
  BY <1>3, <1>4, <1>6 DEF Reads
<1>7. CASE k \in {0, 1, 2, 3, 4, 5, 6, 7}
  BY <1>1, <1>2, <1>5, <1>7 DEF Reads, Rows01
<1> QED BY <1>6, <1>7

LEMMA Lines2 ==
  ASSUME NEW o \in Byte, NEW k \in 0..15, o = 32 + k
  PROVE  Reads(o, <<3, 2, 1, 1, 2, 2, 1, 1, 1, 1, 1, 1, 1, 1, 1, 1>>[k + 1],
               IF k = 0 THEN "rel" ELSE IF k = 1 THEN "page" ELSE "none")
<1>1. /\ Shows(32, <<"JB", "bit", "rel">>, 3, "rel")
      /\ Shows(33, <<"AJMP", "page">>, 2, "page")
      /\ Shows(34, <<"RET">>, 1, "none")
      /\ Shows(35, <<"RL", "A">>, 1, "none")
  BY Words, LineLengths DEF Shows, TargetIn, NumberIn, First, Alone, OfOne, OfTwo, At, BytesOf
<1>2. /\ Shows(36, <<"ADD", "A", "imm">>, 2, "none")
      /\ Shows(37, <<"ADD", "A", "mem">>, 2, "none")
      /\ Shows(38, <<"ADD", "A", "@Ri">>, 1, "none")
      /\ Shows(39, <<"ADD", "A", "@Ri">>, 1, "none")
  BY Words, LineLengths DEF Shows, TargetIn, NumberIn, First, Alone, OfOne, OfTwo, At, BytesOf
<1>3. \A n \in 8..15 : Shows(32 + n, <<"ADD", "A", "Rn">>, 1, "none")
  BY Words, LineLengths DEF Shows, TargetIn, NumberIn, First, Alone, OfOne, OfTwo, At, BytesOf
<1>4. k > 7 => Text[o] = <<"ADD", "A", "Rn">>
  BY TextIs DEF Registers
<1>5. k <= 7 => Text[o] = Rows23[1 + k]
  BY TextIs
<1>6. CASE k > 7
  BY <1>3, <1>4, <1>6 DEF Reads
<1>7. CASE k \in {0, 1, 2, 3, 4, 5, 6, 7}
  BY <1>1, <1>2, <1>5, <1>7 DEF Reads, Rows23
<1> QED BY <1>6, <1>7

LEMMA Lines3 ==
  ASSUME NEW o \in Byte, NEW k \in 0..15, o = 48 + k
  PROVE  Reads(o, <<3, 2, 1, 1, 2, 2, 1, 1, 1, 1, 1, 1, 1, 1, 1, 1>>[k + 1],
               IF k = 0 THEN "rel" ELSE IF k = 1 THEN "page" ELSE "none")
<1>1. /\ Shows(48, <<"JNB", "bit", "rel">>, 3, "rel")
      /\ Shows(49, <<"ACALL", "page">>, 2, "page")
      /\ Shows(50, <<"RETI">>, 1, "none")
      /\ Shows(51, <<"RLC", "A">>, 1, "none")
  BY Words, LineLengths DEF Shows, TargetIn, NumberIn, First, Alone, OfOne, OfTwo, At, BytesOf
<1>2. /\ Shows(52, <<"ADDC", "A", "imm">>, 2, "none")
      /\ Shows(53, <<"ADDC", "A", "mem">>, 2, "none")
      /\ Shows(54, <<"ADDC", "A", "@Ri">>, 1, "none")
      /\ Shows(55, <<"ADDC", "A", "@Ri">>, 1, "none")
  BY Words, LineLengths DEF Shows, TargetIn, NumberIn, First, Alone, OfOne, OfTwo, At, BytesOf
<1>3. \A n \in 8..15 : Shows(48 + n, <<"ADDC", "A", "Rn">>, 1, "none")
  BY Words, LineLengths DEF Shows, TargetIn, NumberIn, First, Alone, OfOne, OfTwo, At, BytesOf
<1>4. k > 7 => Text[o] = <<"ADDC", "A", "Rn">>
  BY TextIs DEF Registers
<1>5. k <= 7 => Text[o] = Rows23[9 + k]
  BY TextIs
<1>6. CASE k > 7
  BY <1>3, <1>4, <1>6 DEF Reads
<1>7. CASE k \in {0, 1, 2, 3, 4, 5, 6, 7}
  BY <1>1, <1>2, <1>5, <1>7 DEF Reads, Rows23
<1> QED BY <1>6, <1>7

LEMMA Lines4 ==
  ASSUME NEW o \in Byte, NEW k \in 0..15, o = 64 + k
  PROVE  Reads(o, <<2, 2, 2, 3, 2, 2, 1, 1, 1, 1, 1, 1, 1, 1, 1, 1>>[k + 1],
               IF k = 0 THEN "rel" ELSE IF k = 1 THEN "page" ELSE "none")
<1>1. /\ Shows(64, <<"JC", "rel">>, 2, "rel")
      /\ Shows(65, <<"AJMP", "page">>, 2, "page")
      /\ Shows(66, <<"ORL", "mem", "A">>, 2, "none")
      /\ Shows(67, <<"ORL", "mem", "imm">>, 3, "none")
  BY Words, LineLengths DEF Shows, TargetIn, NumberIn, First, Alone, OfOne, OfTwo, At, BytesOf
<1>2. /\ Shows(68, <<"ORL", "A", "imm">>, 2, "none")
      /\ Shows(69, <<"ORL", "A", "mem">>, 2, "none")
      /\ Shows(70, <<"ORL", "A", "@Ri">>, 1, "none")
      /\ Shows(71, <<"ORL", "A", "@Ri">>, 1, "none")
  BY Words, LineLengths DEF Shows, TargetIn, NumberIn, First, Alone, OfOne, OfTwo, At, BytesOf
<1>3. \A n \in 8..15 : Shows(64 + n, <<"ORL", "A", "Rn">>, 1, "none")
  BY Words, LineLengths DEF Shows, TargetIn, NumberIn, First, Alone, OfOne, OfTwo, At, BytesOf
<1>4. k > 7 => Text[o] = <<"ORL", "A", "Rn">>
  BY TextIs DEF Registers
<1>5. k <= 7 => Text[o] = Rows45[1 + k]
  BY TextIs
<1>6. CASE k > 7
  BY <1>3, <1>4, <1>6 DEF Reads
<1>7. CASE k \in {0, 1, 2, 3, 4, 5, 6, 7}
  BY <1>1, <1>2, <1>5, <1>7 DEF Reads, Rows45
<1> QED BY <1>6, <1>7

LEMMA Lines5 ==
  ASSUME NEW o \in Byte, NEW k \in 0..15, o = 80 + k
  PROVE  Reads(o, <<2, 2, 2, 3, 2, 2, 1, 1, 1, 1, 1, 1, 1, 1, 1, 1>>[k + 1],
               IF k = 0 THEN "rel" ELSE IF k = 1 THEN "page" ELSE "none")
<1>1. /\ Shows(80, <<"JNC", "rel">>, 2, "rel")
      /\ Shows(81, <<"ACALL", "page">>, 2, "page")
      /\ Shows(82, <<"ANL", "mem", "A">>, 2, "none")
      /\ Shows(83, <<"ANL", "mem", "imm">>, 3, "none")
  BY Words, LineLengths DEF Shows, TargetIn, NumberIn, First, Alone, OfOne, OfTwo, At, BytesOf
<1>2. /\ Shows(84, <<"ANL", "A", "imm">>, 2, "none")
      /\ Shows(85, <<"ANL", "A", "mem">>, 2, "none")
      /\ Shows(86, <<"ANL", "A", "@Ri">>, 1, "none")
      /\ Shows(87, <<"ANL", "A", "@Ri">>, 1, "none")
  BY Words, LineLengths DEF Shows, TargetIn, NumberIn, First, Alone, OfOne, OfTwo, At, BytesOf
<1>3. \A n \in 8..15 : Shows(80 + n, <<"ANL", "A", "Rn">>, 1, "none")
  BY Words, LineLengths DEF Shows, TargetIn, NumberIn, First, Alone, OfOne, OfTwo, At, BytesOf
<1>4. k > 7 => Text[o] = <<"ANL", "A", "Rn">>
  BY TextIs DEF Registers
<1>5. k <= 7 => Text[o] = Rows45[9 + k]
  BY TextIs
<1>6. CASE k > 7
  BY <1>3, <1>4, <1>6 DEF Reads
<1>7. CASE k \in {0, 1, 2, 3, 4, 5, 6, 7}
  BY <1>1, <1>2, <1>5, <1>7 DEF Reads, Rows45
<1> QED BY <1>6, <1>7

LEMMA Lines6 ==
  ASSUME NEW o \in Byte, NEW k \in 0..15, o = 96 + k
  PROVE  Reads(o, <<2, 2, 2, 3, 2, 2, 1, 1, 1, 1, 1, 1, 1, 1, 1, 1>>[k + 1],
               IF k = 0 THEN "rel" ELSE IF k = 1 THEN "page" ELSE "none")
<1>1. /\ Shows(96, <<"JZ", "rel">>, 2, "rel")
      /\ Shows(97, <<"AJMP", "page">>, 2, "page")
      /\ Shows(98, <<"XRL", "mem", "A">>, 2, "none")
      /\ Shows(99, <<"XRL", "mem", "imm">>, 3, "none")
  BY Words, LineLengths DEF Shows, TargetIn, NumberIn, First, Alone, OfOne, OfTwo, At, BytesOf
<1>2. /\ Shows(100, <<"XRL", "A", "imm">>, 2, "none")
      /\ Shows(101, <<"XRL", "A", "mem">>, 2, "none")
      /\ Shows(102, <<"XRL", "A", "@Ri">>, 1, "none")
      /\ Shows(103, <<"XRL", "A", "@Ri">>, 1, "none")
  BY Words, LineLengths DEF Shows, TargetIn, NumberIn, First, Alone, OfOne, OfTwo, At, BytesOf
<1>3. \A n \in 8..15 : Shows(96 + n, <<"XRL", "A", "Rn">>, 1, "none")
  BY Words, LineLengths DEF Shows, TargetIn, NumberIn, First, Alone, OfOne, OfTwo, At, BytesOf
<1>4. k > 7 => Text[o] = <<"XRL", "A", "Rn">>
  BY TextIs DEF Registers
<1>5. k <= 7 => Text[o] = Rows67[1 + k]
  BY TextIs
<1>6. CASE k > 7
  BY <1>3, <1>4, <1>6 DEF Reads
<1>7. CASE k \in {0, 1, 2, 3, 4, 5, 6, 7}
  BY <1>1, <1>2, <1>5, <1>7 DEF Reads, Rows67
<1> QED BY <1>6, <1>7

LEMMA Lines7 ==
  ASSUME NEW o \in Byte, NEW k \in 0..15, o = 112 + k
  PROVE  Reads(o, <<2, 2, 2, 1, 2, 3, 2, 2, 2, 2, 2, 2, 2, 2, 2, 2>>[k + 1],
               IF k = 0 THEN "rel" ELSE IF k = 1 THEN "page" ELSE "none")
<1>1. /\ Shows(112, <<"JNZ", "rel">>, 2, "rel")
      /\ Shows(113, <<"ACALL", "page">>, 2, "page")
      /\ Shows(114, <<"ORL", "C", "bit">>, 2, "none")
      /\ Shows(115, <<"JMP", "@A+DPTR">>, 1, "none")
  BY Words, LineLengths DEF Shows, TargetIn, NumberIn, First, Alone, OfOne, OfTwo, At, BytesOf
<1>2. /\ Shows(116, <<"MOV", "A", "imm">>, 2, "none")
      /\ Shows(117, <<"MOV", "mem", "imm">>, 3, "none")
      /\ Shows(118, <<"MOV", "@Ri", "imm">>, 2, "none")
      /\ Shows(119, <<"MOV", "@Ri", "imm">>, 2, "none")
  BY Words, LineLengths DEF Shows, TargetIn, NumberIn, First, Alone, OfOne, OfTwo, At, BytesOf
<1>3. \A n \in 8..15 : Shows(112 + n, <<"MOV", "Rn", "imm">>, 2, "none")
  BY Words, LineLengths DEF Shows, TargetIn, NumberIn, First, Alone, OfOne, OfTwo, At, BytesOf
<1>4. k > 7 => Text[o] = <<"MOV", "Rn", "imm">>
  BY TextIs DEF Registers
<1>5. k <= 7 => Text[o] = Rows67[9 + k]
  BY TextIs
<1>6. CASE k > 7
  BY <1>3, <1>4, <1>6 DEF Reads
<1>7. CASE k \in {0, 1, 2, 3, 4, 5, 6, 7}
  BY <1>1, <1>2, <1>5, <1>7 DEF Reads, Rows67
<1> QED BY <1>6, <1>7

LEMMA Lines8 ==
  ASSUME NEW o \in Byte, NEW k \in 0..15, o = 128 + k
  PROVE  Reads(o, <<2, 2, 2, 1, 1, 3, 2, 2, 2, 2, 2, 2, 2, 2, 2, 2>>[k + 1],
               IF k = 0 THEN "rel" ELSE IF k = 1 THEN "page" ELSE "none")
<1>1. /\ Shows(128, <<"SJMP", "rel">>, 2, "rel")
      /\ Shows(129, <<"AJMP", "page">>, 2, "page")
      /\ Shows(130, <<"ANL", "C", "bit">>, 2, "none")
      /\ Shows(131, <<"MOVC", "A", "@A+PC">>, 1, "none")
  BY Words, LineLengths DEF Shows, TargetIn, NumberIn, First, Alone, OfOne, OfTwo, At, BytesOf
<1>2. /\ Shows(132, <<"DIV", "AB">>, 1, "none")
      /\ Shows(133, <<"MOV", "mem", "mem">>, 3, "none")
      /\ Shows(134, <<"MOV", "mem", "@Ri">>, 2, "none")
      /\ Shows(135, <<"MOV", "mem", "@Ri">>, 2, "none")
  BY Words, LineLengths DEF Shows, TargetIn, NumberIn, First, Alone, OfOne, OfTwo, At, BytesOf
<1>3. \A n \in 8..15 : Shows(128 + n, <<"MOV", "mem", "Rn">>, 2, "none")
  BY Words, LineLengths DEF Shows, TargetIn, NumberIn, First, Alone, OfOne, OfTwo, At, BytesOf
<1>4. k > 7 => Text[o] = <<"MOV", "mem", "Rn">>
  BY TextIs DEF Registers
<1>5. k <= 7 => Text[o] = Rows89[1 + k]
  BY TextIs
<1>6. CASE k > 7
  BY <1>3, <1>4, <1>6 DEF Reads
<1>7. CASE k \in {0, 1, 2, 3, 4, 5, 6, 7}
  BY <1>1, <1>2, <1>5, <1>7 DEF Reads, Rows89
<1> QED BY <1>6, <1>7

LEMMA Lines9 ==
  ASSUME NEW o \in Byte, NEW k \in 0..15, o = 144 + k
  PROVE  Reads(o, <<3, 2, 2, 1, 2, 2, 1, 1, 1, 1, 1, 1, 1, 1, 1, 1>>[k + 1],
               IF k = 1 THEN "page" ELSE "none")
<1>1. /\ Shows(144, <<"MOV", "DPTR", "imm16">>, 3, "none")
      /\ Shows(145, <<"ACALL", "page">>, 2, "page")
      /\ Shows(146, <<"MOV", "bit", "C">>, 2, "none")
      /\ Shows(147, <<"MOVC", "A", "@A+DPTR">>, 1, "none")
  BY Words, LineLengths DEF Shows, TargetIn, NumberIn, First, Alone, OfOne, OfTwo, At, BytesOf
<1>2. /\ Shows(148, <<"SUBB", "A", "imm">>, 2, "none")
      /\ Shows(149, <<"SUBB", "A", "mem">>, 2, "none")
      /\ Shows(150, <<"SUBB", "A", "@Ri">>, 1, "none")
      /\ Shows(151, <<"SUBB", "A", "@Ri">>, 1, "none")
  BY Words, LineLengths DEF Shows, TargetIn, NumberIn, First, Alone, OfOne, OfTwo, At, BytesOf
<1>3. \A n \in 8..15 : Shows(144 + n, <<"SUBB", "A", "Rn">>, 1, "none")
  BY Words, LineLengths DEF Shows, TargetIn, NumberIn, First, Alone, OfOne, OfTwo, At, BytesOf
<1>4. k > 7 => Text[o] = <<"SUBB", "A", "Rn">>
  BY TextIs DEF Registers
<1>5. k <= 7 => Text[o] = Rows89[9 + k]
  BY TextIs
<1>6. CASE k > 7
  BY <1>3, <1>4, <1>6 DEF Reads
<1>7. CASE k \in {0, 1, 2, 3, 4, 5, 6, 7}
  BY <1>1, <1>2, <1>5, <1>7 DEF Reads, Rows89
<1> QED BY <1>6, <1>7

LEMMA Lines10 ==
  ASSUME NEW o \in Byte, NEW k \in 0..15, o = 160 + k
  PROVE  Reads(o, <<2, 2, 2, 1, 1, 1, 2, 2, 2, 2, 2, 2, 2, 2, 2, 2>>[k + 1],
               IF k = 1 THEN "page" ELSE "none")
<1>1. /\ Shows(160, <<"ORL", "C", "/bit">>, 2, "none")
      /\ Shows(161, <<"AJMP", "page">>, 2, "page")
      /\ Shows(162, <<"MOV", "C", "bit">>, 2, "none")
      /\ Shows(163, <<"INC", "DPTR">>, 1, "none")
  BY Words, LineLengths DEF Shows, TargetIn, NumberIn, First, Alone, OfOne, OfTwo, At, BytesOf
<1>2. /\ Shows(164, <<"MUL", "AB">>, 1, "none")
      /\ Shows(165, <<"??UNKNOWN">>, 1, "none")
      /\ Shows(166, <<"MOV", "@Ri", "mem">>, 2, "none")
      /\ Shows(167, <<"MOV", "@Ri", "mem">>, 2, "none")
  BY Words, LineLengths DEF Shows, TargetIn, NumberIn, First, Alone, OfOne, OfTwo, At, BytesOf
<1>3. \A n \in 8..15 : Shows(160 + n, <<"MOV", "Rn", "mem">>, 2, "none")
  BY Words, LineLengths DEF Shows, TargetIn, NumberIn, First, Alone, OfOne, OfTwo, At, BytesOf
<1>4. k > 7 => Text[o] = <<"MOV", "Rn", "mem">>
  BY TextIs DEF Registers
<1>5. k <= 7 => Text[o] = RowsAB[1 + k]
  BY TextIs
<1>6. CASE k > 7
  BY <1>3, <1>4, <1>6 DEF Reads
<1>7. CASE k \in {0, 1, 2, 3, 4, 5, 6, 7}
  BY <1>1, <1>2, <1>5, <1>7 DEF Reads, RowsAB
<1> QED BY <1>6, <1>7

LEMMA Lines11 ==
  ASSUME NEW o \in Byte, NEW k \in 0..15, o = 176 + k
  PROVE  Reads(o, <<2, 2, 2, 1, 3, 3, 3, 3, 3, 3, 3, 3, 3, 3, 3, 3>>[k + 1],
               IF k = 1 THEN "page" ELSE IF k > 3 THEN "rel" ELSE "none")
<1>1. /\ Shows(176, <<"ANL", "C", "/bit">>, 2, "none")
      /\ Shows(177, <<"ACALL", "page">>, 2, "page")
      /\ Shows(178, <<"CPL", "bit">>, 2, "none")
      /\ Shows(179, <<"CPL", "C">>, 1, "none")
  BY Words, LineLengths DEF Shows, TargetIn, NumberIn, First, Alone, OfOne, OfTwo, At, BytesOf
<1>2. /\ Shows(180, <<"CJNE", "A", "imm", "rel">>, 3, "rel")
      /\ Shows(181, <<"CJNE", "A", "mem", "rel">>, 3, "rel")
      /\ Shows(182, <<"CJNE", "@Ri", "imm", "rel">>, 3, "rel")
      /\ Shows(183, <<"CJNE", "@Ri", "imm", "rel">>, 3, "rel")
  BY Words, LineLengths DEF Shows, TargetIn, NumberIn, First, Alone, OfOne, OfTwo, At, BytesOf
<1>3. \A n \in 8..15 : Shows(176 + n, <<"CJNE", "Rn", "imm", "rel">>, 3, "rel")
  BY Words, LineLengths DEF Shows, TargetIn, NumberIn, First, Alone, OfOne, OfTwo, At, BytesOf
<1>4. k > 7 => Text[o] = <<"CJNE", "Rn", "imm", "rel">>
  BY TextIs DEF Registers
<1>5. k <= 7 => Text[o] = RowsAB[9 + k]
  BY TextIs
<1>6. CASE k > 7
  BY <1>3, <1>4, <1>6 DEF Reads
<1>7. CASE k \in {0, 1, 2, 3, 4, 5, 6, 7}
  BY <1>1, <1>2, <1>5, <1>7 DEF Reads, RowsAB
<1> QED BY <1>6, <1>7

LEMMA Lines12 ==
  ASSUME NEW o \in Byte, NEW k \in 0..15, o = 192 + k
  PROVE  Reads(o, <<2, 2, 2, 1, 1, 2, 1, 1, 1, 1, 1, 1, 1, 1, 1, 1>>[k + 1],
               IF k = 1 THEN "page" ELSE "none")
<1>1. /\ Shows(192, <<"PUSH", "mem">>, 2, "none")
      /\ Shows(193, <<"AJMP", "page">>, 2, "page")
      /\ Shows(194, <<"CLR", "bit">>, 2, "none")
      /\ Shows(195, <<"CLR", "C">>, 1, "none")
  BY Words, LineLengths DEF Shows, TargetIn, NumberIn, First, Alone, OfOne, OfTwo, At, BytesOf
<1>2. /\ Shows(196, <<"SWAP", "A">>, 1, "none")
      /\ Shows(197, <<"XCH", "A", "mem">>, 2, "none")
      /\ Shows(198, <<"XCH", "A", "@Ri">>, 1, "none")
      /\ Shows(199, <<"XCH", "A", "@Ri">>, 1, "none")
  BY Words, LineLengths DEF Shows, TargetIn, NumberIn, First, Alone, OfOne, OfTwo, At, BytesOf
<1>3. \A n \in 8..15 : Shows(192 + n, <<"XCH", "A", "Rn">>, 1, "none")
  BY Words, LineLengths DEF Shows, TargetIn, NumberIn, First, Alone, OfOne, OfTwo, At, BytesOf
<1>4. k > 7 => Text[o] = <<"XCH", "A", "Rn">>
  BY TextIs DEF Registers
<1>5. k <= 7 => Text[o] = RowsCD[1 + k]
  BY TextIs
<1>6. CASE k > 7
  BY <1>3, <1>4, <1>6 DEF Reads
<1>7. CASE k \in {0, 1, 2, 3, 4, 5, 6, 7}
  BY <1>1, <1>2, <1>5, <1>7 DEF Reads, RowsCD
<1> QED BY <1>6, <1>7

LEMMA Lines13 ==
  ASSUME NEW o \in Byte, NEW k \in 0..15, o = 208 + k
  PROVE  Reads(o, <<2, 2, 2, 1, 1, 3, 1, 1, 2, 2, 2, 2, 2, 2, 2, 2>>[k + 1],
               IF k = 1 THEN "page" ELSE IF k = 5 \/ k > 7 THEN "rel" ELSE "none")
<1>1. /\ Shows(208, <<"POP", "mem">>, 2, "none")
      /\ Shows(209, <<"ACALL", "page">>, 2, "page")
      /\ Shows(210, <<"SETB", "bit">>, 2, "none")
      /\ Shows(211, <<"SETB", "C">>, 1, "none")
  BY Words, LineLengths DEF Shows, TargetIn, NumberIn, First, Alone, OfOne, OfTwo, At, BytesOf
<1>2. /\ Shows(212, <<"DA", "A">>, 1, "none")
      /\ Shows(213, <<"DJNZ", "mem", "rel">>, 3, "rel")
      /\ Shows(214, <<"XCHD", "A", "@Ri">>, 1, "none")
      /\ Shows(215, <<"XCHD", "A", "@Ri">>, 1, "none")
  BY Words, LineLengths DEF Shows, TargetIn, NumberIn, First, Alone, OfOne, OfTwo, At, BytesOf
<1>3. \A n \in 8..15 : Shows(208 + n, <<"DJNZ", "Rn", "rel">>, 2, "rel")
  BY Words, LineLengths DEF Shows, TargetIn, NumberIn, First, Alone, OfOne, OfTwo, At, BytesOf
<1>4. k > 7 => Text[o] = <<"DJNZ", "Rn", "rel">>
  BY TextIs DEF Registers
<1>5. k <= 7 => Text[o] = RowsCD[9 + k]
  BY TextIs
<1>6. CASE k > 7
  BY <1>3, <1>4, <1>6 DEF Reads
<1>7. CASE k \in {0, 1, 2, 3, 4, 5, 6, 7}
  BY <1>1, <1>2, <1>5, <1>7 DEF Reads, RowsCD
<1> QED BY <1>6, <1>7

LEMMA Lines14 ==
  ASSUME NEW o \in Byte, NEW k \in 0..15, o = 224 + k
  PROVE  Reads(o, <<1, 2, 1, 1, 1, 2, 1, 1, 1, 1, 1, 1, 1, 1, 1, 1>>[k + 1],
               IF k = 1 THEN "page" ELSE "none")
<1>1. /\ Shows(224, <<"MOVX", "A", "@DPTR">>, 1, "none")
      /\ Shows(225, <<"AJMP", "page">>, 2, "page")
      /\ Shows(226, <<"MOVX", "A", "@Ri">>, 1, "none")
      /\ Shows(227, <<"MOVX", "A", "@Ri">>, 1, "none")
  BY Words, LineLengths DEF Shows, TargetIn, NumberIn, First, Alone, OfOne, OfTwo, At, BytesOf
<1>2. /\ Shows(228, <<"CLR", "A">>, 1, "none")
      /\ Shows(229, <<"MOV", "A", "mem">>, 2, "none")
      /\ Shows(230, <<"MOV", "A", "@Ri">>, 1, "none")
      /\ Shows(231, <<"MOV", "A", "@Ri">>, 1, "none")
  BY Words, LineLengths DEF Shows, TargetIn, NumberIn, First, Alone, OfOne, OfTwo, At, BytesOf
<1>3. \A n \in 8..15 : Shows(224 + n, <<"MOV", "A", "Rn">>, 1, "none")
  BY Words, LineLengths DEF Shows, TargetIn, NumberIn, First, Alone, OfOne, OfTwo, At, BytesOf
<1>4. k > 7 => Text[o] = <<"MOV", "A", "Rn">>
  BY TextIs DEF Registers
<1>5. k <= 7 => Text[o] = RowsEF[1 + k]
  BY TextIs
<1>6. CASE k > 7
  BY <1>3, <1>4, <1>6 DEF Reads
<1>7. CASE k \in {0, 1, 2, 3, 4, 5, 6, 7}
  BY <1>1, <1>2, <1>5, <1>7 DEF Reads, RowsEF
<1> QED BY <1>6, <1>7

LEMMA Lines15 ==
  ASSUME NEW o \in Byte, NEW k \in 0..15, o = 240 + k
  PROVE  Reads(o, <<1, 2, 1, 1, 1, 2, 1, 1, 1, 1, 1, 1, 1, 1, 1, 1>>[k + 1],
               IF k = 1 THEN "page" ELSE "none")
<1>1. /\ Shows(240, <<"MOVX", "@DPTR", "A">>, 1, "none")
      /\ Shows(241, <<"ACALL", "page">>, 2, "page")
      /\ Shows(242, <<"MOVX", "@Ri", "A">>, 1, "none")
      /\ Shows(243, <<"MOVX", "@Ri", "A">>, 1, "none")
  BY Words, LineLengths DEF Shows, TargetIn, NumberIn, First, Alone, OfOne, OfTwo, At, BytesOf
<1>2. /\ Shows(244, <<"CPL", "A">>, 1, "none")
      /\ Shows(245, <<"MOV", "mem", "A">>, 2, "none")
      /\ Shows(246, <<"MOV", "@Ri", "A">>, 1, "none")
      /\ Shows(247, <<"MOV", "@Ri", "A">>, 1, "none")
  BY Words, LineLengths DEF Shows, TargetIn, NumberIn, First, Alone, OfOne, OfTwo, At, BytesOf
<1>3. \A n \in 8..15 : Shows(240 + n, <<"MOV", "Rn", "A">>, 1, "none")
  BY Words, LineLengths DEF Shows, TargetIn, NumberIn, First, Alone, OfOne, OfTwo, At, BytesOf
<1>4. k > 7 => Text[o] = <<"MOV", "Rn", "A">>
  BY TextIs DEF Registers
<1>5. k <= 7 => Text[o] = RowsEF[9 + k]
  BY TextIs
<1>6. CASE k > 7
  BY <1>3, <1>4, <1>6 DEF Reads
<1>7. CASE k \in {0, 1, 2, 3, 4, 5, 6, 7}
  BY <1>1, <1>2, <1>5, <1>7 DEF Reads, RowsEF
<1> QED BY <1>6, <1>7

(***************************************************************************)
(* The lines next to the opcodes they stand for.                           *)
(***************************************************************************)
LEMMA Listed ==
  ASSUME IsaInv
  PROVE  /\ ListedLen(op) = OpLen
         /\ CondRel \/ op = 128 => TargetIn(Text[op]) = "rel"
         /\ Column = 1 => TargetIn(Text[op]) = "page"
         /\ op \in {2, 18} => TargetIn(Text[op]) = "addr16"
<1>0. /\ Row \in 0..15 /\ Column \in 0..15 /\ op = 16 * Row + Column
      /\ op \in Byte /\ ListedLen(op) = LenOf(Text[op])
  BY OperandsAre, Decoded, TextIs
<1> DEFINE r == Row
           k == Column
           o == op
           len == OpLen
           target == TargetIn(Text[o])
           cond == CondRel
<1>1. cond => (k = 0 /\ r \in 1..7) \/ o \in 180..191 \/ o = 213 \/ o \in 216..223
  BY DEF CondRel
<1>2. CASE r = 0
  BY <1>0, <1>1, <1>2, Lines0, RowsAre DEF Reads, Shows
<1>3. CASE r = 1
  BY <1>0, <1>1, <1>3, Lines1, RowsAre DEF Reads, Shows
<1>4. CASE r = 2
  BY <1>0, <1>1, <1>4, Lines2, RowsAre DEF Reads, Shows
<1>5. CASE r = 3
  BY <1>0, <1>1, <1>5, Lines3, RowsAre DEF Reads, Shows
<1>6. CASE r = 4
  BY <1>0, <1>1, <1>6, Lines4, RowsAre DEF Reads, Shows
<1>7. CASE r = 5
  BY <1>0, <1>1, <1>7, Lines5, RowsAre DEF Reads, Shows
<1>8. CASE r = 6
  BY <1>0, <1>1, <1>8, Lines6, RowsAre DEF Reads, Shows
<1>9. CASE r = 7
  BY <1>0, <1>1, <1>9, Lines7, RowsAre DEF Reads, Shows
<1>10. CASE r = 8
  BY <1>0, <1>1, <1>10, Lines8, RowsAre DEF Reads, Shows
<1>11. CASE r = 9
  BY <1>0, <1>1, <1>11, Lines9, RowsAre DEF Reads, Shows
<1>12. CASE r = 10
  BY <1>0, <1>1, <1>12, Lines10, RowsAre DEF Reads, Shows
<1>13. CASE r = 11
  BY <1>0, <1>1, <1>13, Lines11, RowsAre DEF Reads, Shows
<1>14. CASE r = 12
  BY <1>0, <1>1, <1>14, Lines12, RowsAre DEF Reads, Shows
<1>15. CASE r = 13
  BY <1>0, <1>1, <1>15, Lines13, RowsAre DEF Reads, Shows
<1>16. CASE r = 14
  BY <1>0, <1>1, <1>16, Lines14, RowsAre DEF Reads, Shows
<1>17. CASE r = 15
  BY <1>0, <1>1, <1>17, Lines15, RowsAre DEF Reads, Shows
<1>18. r \in {0, 1, 2, 3, 4, 5, 6, 7, 8, 9, 10, 11, 12, 13, 14, 15}
  BY <1>0
<1> QED BY <1>2, <1>3, <1>4, <1>5, <1>6, <1>7, <1>8, <1>9, <1>10, <1>11, <1>12, <1>13, <1>14, <1>15, <1>16, <1>17, <1>18

LEMMA Numbered ==
  ASSUME NEW o \in Byte
  PROVE  NumberIn(Text[o], o) = o
<1>0. o \div 16 \in 0..15 /\ o % 16 \in 0..15 /\ o = 16 * (o \div 16) + (o % 16)
  BY DEF Byte
<1> DEFINE r == o \div 16
           k == o % 16
           right == NumberIn(Text[o], o) = o
<1>1. r = 0 => right
  BY <1>0, Lines0 DEF Reads, Shows
<1>2. r = 1 => right
  BY <1>0, Lines1 DEF Reads, Shows
<1>3. r = 2 => right
  BY <1>0, Lines2 DEF Reads, Shows
<1>4. r = 3 => right
  BY <1>0, Lines3 DEF Reads, Shows
<1>5. r = 4 => right
  BY <1>0, Lines4 DEF Reads, Shows
<1>6. r = 5 => right
  BY <1>0, Lines5 DEF Reads, Shows
<1>7. r = 6 => right
  BY <1>0, Lines6 DEF Reads, Shows
<1>8. r = 7 => right
  BY <1>0, Lines7 DEF Reads, Shows
<1>9. r = 8 => right
  BY <1>0, Lines8 DEF Reads, Shows
<1>10. r = 9 => right
  BY <1>0, Lines9 DEF Reads, Shows
<1>11. r = 10 => right
  BY <1>0, Lines10 DEF Reads, Shows
<1>12. r = 11 => right
  BY <1>0, Lines11 DEF Reads, Shows
<1>13. r = 12 => right
  BY <1>0, Lines12 DEF Reads, Shows
<1>14. r = 13 => right
  BY <1>0, Lines13 DEF Reads, Shows
<1>15. r = 14 => right
  BY <1>0, Lines14 DEF Reads, Shows
<1>16. r = 15 => right
  BY <1>0, Lines15 DEF Reads, Shows
<1>17. r \in {0, 1, 2, 3, 4, 5, 6, 7, 8, 9, 10, 11, 12, 13, 14, 15}
  BY <1>0
<1> QED BY <1>1, <1>2, <1>3, <1>4, <1>5, <1>6, <1>7, <1>8, <1>9, <1>10, <1>11, <1>12, <1>13, <1>14, <1>15, <1>16, <1>17

NumberOf(line) ==
  LET t == line[1]
  IN  First(t) + (IF HasIn(t, "@Ri") \/ HasIn(t, "Rn") THEN line[2]
                  ELSE IF HasIn(t, "page") THEN 32 * line[2] ELSE 0)

(***************************************************************************)
(* No two opcodes have the same line.                                      *)
(***************************************************************************)
LEMMA OneLineEach ==
  ASSUME NEW o \in Byte, NEW p \in Byte, Line(o) = Line(p)
  PROVE  o = p
<1>1. ASSUME NEW q \in Byte PROVE NumberOf(Line(q)) = q
  <2> DEFINE t == Text[q]
             sub == IF HasIn(t, "@Ri") THEN q % 2 ELSE IF HasIn(t, "Rn") THEN q % 8
                    ELSE IF HasIn(t, "page") THEN q \div 32 ELSE 0
  <2>1. Line(q) = <<t, sub>>
    BY DEF Line, Has, HasIn
  <2>2. NumberIn(t, q) = q
    BY Numbered
  <2> HIDE DEF t
  <2> QED BY <2>1, <2>2 DEF NumberOf, NumberIn
<1> QED BY <1>1

LEMMA Targets ==
  ASSUME IsaInv
  PROVE  /\ TargetIn(Text[op]) = "page" => ListedTarget(pc) = {Page11}
         /\ TargetIn(Text[op]) = "addr16" => ListedTarget(pc) = {256 * Arg(1) + Arg(2)}
         /\ TargetIn(Text[op]) = "rel" =>
              ListedTarget(pc) = {pc + ListedLen(op) + Rel(Code((pc + ListedLen(op)) - 1))}
<1>1. \A kind : Has(op, kind) = HasIn(Text[op], kind)
  BY DEF Has, HasIn
<1>2. Page11 = ((pc + 2) \div 2048) * 2048 + 256 * (op \div 32) + Code(pc + 1)
  <2>1. pc \in Int /\ (pc + 2) \div 2048 \in Int
    <3>1. pc \in Int
      BY OperandsAre
    <3> QED BY <3>1
  <2> QED BY <2>1 DEF Page11, Arg
<1> DEFINE page == HasIn(Text[op], "page")
           far  == HasIn(Text[op], "addr16")
           rel  == HasIn(Text[op], "rel")
           here == Page11
           there == 256 * Arg(1) + Arg(2)
           off  == pc + ListedLen(op) + Rel(Code((pc + ListedLen(op)) - 1))
<1>3. ListedTarget(pc) = CASE page -> {here} [] far -> {there} [] rel -> {off} [] OTHER -> {}
  <2>1. ListedTarget(pc) =
          CASE Has(op, "page") -> {((pc + 2) \div 2048) * 2048 + 256 * (op \div 32) + Code(pc + 1)}
            [] Has(op, "addr16") -> {256 * Code(pc + 1) + Code(pc + 2)}
            [] Has(op, "rel") -> {pc + ListedLen(op) + Rel(Code((pc + ListedLen(op)) - 1))}
            [] OTHER -> {}
    BY DEF ListedTarget, op
  <2> QED BY <1>1, <1>2, <2>1 DEF Arg
<1>4. /\ TargetIn(Text[op]) = "page" => page /\ ~far /\ ~rel
      /\ TargetIn(Text[op]) = "addr16" => far /\ ~page /\ ~rel
      /\ TargetIn(Text[op]) = "rel" => rel /\ ~page /\ ~far
  BY DEF TargetIn
<1> HIDE DEF page, far, rel, here, there, off
<1>5. /\ TargetIn(Text[op]) = "page" => ListedTarget(pc) = {here}
      /\ TargetIn(Text[op]) = "addr16" => ListedTarget(pc) = {there}
      /\ TargetIn(Text[op]) = "rel" => ListedTarget(pc) = {off}
  BY <1>3, <1>4
<1> QED BY <1>5 DEF here, there, off

(***************************************************************************)
(* Where an instruction leads is on its line, or it is the next line.      *)
(***************************************************************************)
LEMMA ListedStep ==
  ASSUME IsaInv, Instruction, op \notin {34, 50, 115}
  PROVE  pc' \in {p % 65536 : p \in {pc + ListedLen(op)} \cup ListedTarget(pc)}
<1>0. /\ Row \in 0..15 /\ Column \in 0..15 /\ op = 16 * Row + Column /\ pc \in Int
      /\ \A i \in Int : Arg(i) \in Byte
  BY OperandsAre, Decoded
<1> DEFINE len == ListedLen(op)
           target == ListedTarget(pc)
           next == pc + len
           off == next + Rel(Code(next - 1))
<1>5. len = OpLen
  BY Listed
<1>6. /\ CondRel \/ op = 128 => target = {off}
      /\ Column = 1 => target = {Page11}
      /\ op \in {2, 18} => target = {256 * Arg(1) + Arg(2)}
  <2>1. TargetIn(Text[op]) = "rel" => target = {off}
    BY Targets
  <2>2. TargetIn(Text[op]) = "page" => target = {Page11}
    BY Targets
  <2>3. TargetIn(Text[op]) = "addr16" => target = {256 * Arg(1) + Arg(2)}
    BY Targets
  <2> HIDE DEF off, target
  <2> QED BY <2>1, <2>2, <2>3, Listed
<1> HIDE DEF len, target
<1>7. SUFFICES pc' = next % 65536 \/ \E p \in target : pc' = p % 65536
  <2> DEFINE S == {next} \cup target
  <2>1. next \in S /\ \A p \in target : p \in S
    OBVIOUS
  <2> HIDE DEF next, S
  <2>2. pc' \in {p % 65536 : p \in S}
    BY <1>7, <2>1
  <2> QED BY <2>2 DEF S, next, len, target
<1>1. CASE ~Jumping
  <2>1. GoesOn(len) \/ (CondRel /\ Branches(len))
    BY <1>1, <1>5, StraightOn
  <2>2. CASE GoesOn(len)
    BY <2>2 DEF GoesOn
  <2>3. CASE CondRel /\ Branches(len)
    <3>1. pc' = off % 65536
      BY <2>3 DEF Branches
    <3> HIDE DEF off
    <3>2. target = {off}
      BY <1>6, <2>3
    <3> QED BY <3>1, <3>2
  <2> QED BY <2>1, <2>2, <2>3
<1>2. CASE Column = 1
  <2>1. Ajmp \/ Acall
    BY <1>0, <1>2, Guards DEF Instruction
  <2>2. pc' = Page11 % 65536
    BY <2>1 DEF Ajmp, Acall, GoesTo, Calls, EndsAt
  <2> QED BY <1>2, <1>6, <2>2
<1>3. CASE op \in {2, 18}
  <2>1. Lcall \/ Ljmp
    <3>1. Row \in {0, 1} /\ Column = 2
      BY <1>0, <1>3
    <3> QED BY <3>1, Guards DEF Instruction
  <2>2. pc' = (256 * Arg(1) + Arg(2)) % 65536
    BY <2>1 DEF Lcall, Ljmp, GoesTo, Calls, EndsAt
  <2> QED BY <1>3, <1>6, <2>2
<1>4. CASE op = 128
  <2>1. Row = 8 /\ Column = 0
    BY <1>0, <1>4
  <2>2. Sjmp
    BY <2>1, Guards DEF Instruction
  <2>3. pc' = (pc + 2 + Rel(Arg(1))) % 65536
    BY <2>2 DEF Sjmp, Jumps, EndsAt
  <2>4. len = 2
    BY <1>5, <2>1, Lengths
  <2>5. Arg(1) = Code(next - 1)
    <3>1. pc + 1 = (pc + 2) - 1
      BY <1>0
    <3> QED BY <2>4, <3>1 DEF Arg
  <2>6. pc' = off % 65536
    BY <2>3, <2>4, <2>5
  <2> HIDE DEF off
  <2>7. target = {off}
    BY <1>4, <1>6
  <2> QED BY <2>6, <2>7
<1> QED BY <1>1, <1>2, <1>3, <1>4 DEF Jumping

(***************************************************************************)
(* ListingFollows for every opcode, program and memory: disasm.c takes an  *)
(* instruction to be as long as opcodes.c does, shows the target it jumps  *)
(* to, and gives no two opcodes the same line.                             *)
(***************************************************************************)
THEOREM ListingAgrees == IsaSpec => ListingFollows
<1>1. IsaInit => IsaInv
  BY DEF IsaInit, IsaInv, IsaTypes, Told, Memory
<1> DEFINE Next1 == op \in {34, 50, 115} \/
             pc' \in {p % 65536 : p \in {pc + ListedLen(op)} \cup ListedTarget(pc)}
           Alone1 == \A o \in Byte \ {op} : Line(o) # Line(op)
<1>2. ASSUME IsaInv, [Instruction]_vars
      PROVE  [Next1 /\ Alone1]_vars
  <2>1. CASE Instruction
    <3>1. Next1
      <4>1. CASE op \notin {34, 50, 115}
        BY <1>2, <2>1, <4>1, ListedStep
      <4>2. CASE op \in {34, 50, 115}
        BY <4>2
      <4> QED BY <4>1, <4>2
    <3>2. Alone1
      <4>1. op \in Byte
        BY <1>2, OperandsAre, Decoded
      <4> QED BY <4>1, OneLineEach
    <3> QED BY <3>1, <3>2
  <2>2. CASE UNCHANGED vars
    BY <2>2
  <2> QED BY <1>2, <2>1, <2>2
<1> QED BY <1>1, <1>2, InstructionKeeps, PTL DEF IsaSpec, ListingFollows

=============================================================================
