---------------------------- MODULE SerialProofs ----------------------------
(***************************************************************************)
(* What holds of Serial for bytes of any width, a ring of any size and any *)
(* order of writes, bits, receptions and resets.                           *)
(***************************************************************************)
EXTENDS Serial, Numbers, SequenceTheorems, TLAPS

Cpus == [sbuf : Value, remaining : 0..Bits, p31 : BOOLEAN, ti : BOOLEAN,
         out : [Slot -> Value], idx : Slot]
Hosts == [count : Nat, last : Slot, origin : Slot]

(***************************************************************************)
(* The invariant, of a transmitter c, a host h, the bytes a the firmware   *)
(* had sent, those g that were overwritten, and n bits clocked.            *)
(***************************************************************************)
Shape(c, h, a, g, n) ==
  /\ c \in Cpus /\ h \in Hosts /\ a \in Seq(Bytes)
  /\ g \subseteq DOMAIN a /\ n \in 0..Bits

Anchored(c, h, a) ==     \* the host's count says where the next byte lands
  /\ h.last = c.idx
  /\ (h.origin + h.count) % Ring = c.idx
  /\ h.count = Len(a) - (IF c.remaining > 0 THEN 1 ELSE 0)

Latest(c, a, g, n) ==    \* the byte being sent
  c.remaining > 0 =>
    /\ n + c.remaining = Bits
    /\ Len(a) \notin g => c.sbuf = a[Len(a)]

Logged(c, h, a, g) ==    \* the bytes that were sent
  \A i \in 0..h.count - 1 :
    i >= h.count - Ring /\ i + 1 \notin g => c.out[(h.origin + i) % Ring] = a[i + 1]

Good(c, h, a, g, n) ==
  Shape(c, h, a, g, n) /\ Anchored(c, h, a) /\ Latest(c, a, g, n) /\ Logged(c, h, a, g)

SerialInv == Good(cpu, host, asked, garbled, bits) /\ wrote \in BOOLEAN

-----------------------------------------------------------------------------
(* Slots of the ring.                                                      *)

LEMMA RingDivision ==
  ASSUME NEW a \in Nat
  PROVE  /\ a \div Ring \in Nat /\ a % Ring \in Slot
         /\ a = Ring * (a \div Ring) + (a % Ring)
BY Division, SerialAssumption DEF Slot

(***************************************************************************)
(* Two counts that differ by less than the ring's size have different      *)
(* slots.                                                                  *)
(***************************************************************************)
LEMMA SlotsDiffer ==
  ASSUME NEW a \in Nat, NEW b \in Nat, a < b, b - a < Ring
  PROVE  a % Ring # b % Ring
<1> SUFFICES ASSUME a % Ring = b % Ring PROVE FALSE
  OBVIOUS
<1> DEFINE p == a \div Ring
           q == b \div Ring
           r == a % Ring
<1>1. /\ p \in Nat /\ q \in Nat /\ r \in Nat /\ Ring \in Nat
      /\ a = Ring * p + r /\ b = Ring * q + r
  BY RingDivision, SerialAssumption DEF Slot
<1> HIDE DEF p, q, r
<1>2. b - a = Ring * (q - p)
  BY <1>1
<1>3. CASE q - p >= 1
  <2>1. Ring * (q - p) >= Ring
    BY <1>1, <1>3
  <2> QED BY <1>1, <1>2, <2>1
<1>4. CASE q - p <= 0
  <2>1. Ring * (q - p) <= 0
    BY <1>1, <1>4
  <2> QED BY <1>1, <1>2, <2>1
<1> QED BY <1>1, <1>3, <1>4

LEMMA SlotsDifferFrom ==
  ASSUME NEW o \in Nat, NEW i \in Nat, NEW k \in Nat, i < k, k - i < Ring
  PROVE  (o + i) % Ring # (o + k) % Ring
<1>1. o + i \in Nat /\ o + k \in Nat /\ o + i < o + k
  OBVIOUS
<1>2. (o + k) - (o + i) < Ring
  BY SerialAssumption
<1> QED BY <1>1, <1>2, SlotsDiffer

LEMMA NextSlot ==
  ASSUME NEW a \in Nat
  PROVE  (a + 1) % Ring = ((a % Ring) + 1) % Ring
<1> DEFINE r == a % Ring
<1>1. Ring \in Nat \ {0} /\ r \in Nat /\ r \in 0..Ring - 1
  BY RingDivision, SerialAssumption DEF Slot
<1>2. (a + 1) % Ring = IF r = Ring - 1 THEN 0 ELSE r + 1
  BY <1>1, NextRemainder
<1> HIDE DEF r
<1>3. r % Ring = r
  BY <1>1
<1>4. (r + 1) % Ring = IF r = Ring - 1 THEN 0 ELSE r + 1
  BY <1>1, <1>3, NextRemainder
<1> QED BY <1>2, <1>4 DEF r

LEMMA NextIsAnother ==
  ASSUME NEW x \in Slot
  PROVE  (x + 1) % Ring \in Slot /\ (x + 1) % Ring # x
<1>1. x \in Nat /\ x + 1 \in Nat /\ x < x + 1 /\ (x + 1) - x < Ring
  BY SerialAssumption DEF Slot
<1>2. x % Ring = x
  BY SerialAssumption DEF Slot
<1> QED BY <1>1, <1>2, SlotsDiffer, RingDivision

-----------------------------------------------------------------------------
(* Transmitters stay transmitters.                                         *)

LEMMA Sizes ==
  /\ Bits \in Nat /\ Bits > 0 /\ Ring \in Nat /\ Ring > 1
  /\ 0 \in Value /\ Bytes \subseteq Value
BY SerialAssumption DEF Value

LEMMA BitCpu ==
  ASSUME NEW c \in Cpus, c.remaining > 1
  PROVE  LET d == SerialTx(c)
         IN  /\ d \in Cpus /\ d.remaining = c.remaining - 1 /\ d.remaining > 0
             /\ d.idx = c.idx /\ d.out = c.out /\ d.sbuf = c.sbuf
<1> DEFINE r == c.remaining - 1
           p == (c.sbuf \div 2^r) # 0
<1>1. r \in 0..Bits /\ r > 0 /\ c.remaining # 0
  BY Sizes DEF Cpus
<1>2. p \in BOOLEAN
  OBVIOUS
<1>3. SerialTx(c) = [c EXCEPT !.remaining = r, !.p31 = p]
  BY <1>1, Zenon DEF SerialTx
<1> HIDE DEF p
<1> QED BY <1>1, <1>2, <1>3 DEF Cpus

LEMMA EndCpu ==
  ASSUME NEW c \in Cpus, c.remaining = 1
  PROVE  LET d == SerialTx(c)
         IN  /\ d \in Cpus /\ d.remaining = 0 /\ d.idx = (c.idx + 1) % Ring
             /\ d.out = [c.out EXCEPT ![c.idx] = c.sbuf]
<1> DEFINE p == (c.sbuf \div 2^(c.remaining - 1)) # 0
           s == [c EXCEPT !.remaining = c.remaining - 1, !.p31 = p]
           o == [c.out EXCEPT ![c.idx] = c.sbuf]
           j == (c.idx + 1) % Ring
<1>1. c.remaining # 0 /\ ~(c.remaining - 1 > 0) /\ c.remaining - 1 = 0 /\ 0 \in 0..Bits
  BY Sizes
<1>2. p \in BOOLEAN
  OBVIOUS
<1>3. o \in [Slot -> Value]
  BY DEF Cpus
<1>4. j \in Slot
  BY NextIsAnother DEF Cpus
<1>5. SerialTx(c) = [s EXCEPT !.out[c.idx] = c.sbuf, !.idx = (@ + 1) % Ring, !.ti = TRUE]
  BY <1>1, Zenon DEF SerialTx
<1> HIDE DEF p
<1>6. s \in Cpus /\ s.remaining = 0 /\ s.out = c.out /\ s.idx = c.idx
  BY <1>1, <1>2 DEF Cpus
<1> HIDE DEF s
<1>7. SerialTx(c) = [s EXCEPT !.out = o, !.idx = j, !.ti = TRUE]
  BY <1>5, <1>6 DEF Cpus
<1> HIDE DEF o, j
<1>8. SerialTx(c) \in Cpus
  BY <1>3, <1>4, <1>6, <1>7 DEF Cpus
<1> QED BY <1>3, <1>4, <1>6, <1>7, <1>8 DEF Cpus, o, j

LEMMA CountedHost ==
  ASSUME NEW h \in Hosts, NEW j \in Slot, j # h.last
  PROVE  LET k == Counted(h, j)
         IN  k \in Hosts /\ k.count = h.count + 1 /\ k.last = j /\ k.origin = h.origin
<1>1. Counted(h, j) = [h EXCEPT !.count = @ + 1, !.last = j]
  BY DEF Counted
<1>2. h.count + 1 \in Nat
  BY DEF Hosts
<1> QED BY <1>1, <1>2 DEF Hosts

LEMMA ArmedCpu ==
  ASSUME NEW c \in Cpus, NEW b \in Bytes
  PROVE  LET d == Armed(c, b)
         IN  /\ d \in Cpus /\ d.sbuf = b /\ d.remaining = Bits
             /\ d.out = c.out /\ d.idx = c.idx
<1>1. b \in Value /\ Bits \in 0..Bits
  BY Sizes
<1> QED BY <1>1 DEF Armed, Cpus

-----------------------------------------------------------------------------
(***************************************************************************)
(* A tick's bit, and the count after it, keep everything good: when a byte *)
(* ends it lands where the host's count says.                              *)
(***************************************************************************)
LEMMA ByteEnds ==
  ASSUME NEW c, NEW h, NEW a, NEW g, NEW n, Good(c, h, a, g, n), c.remaining = 1
  PROVE  Good(SerialTx(c), Counted(h, SerialTx(c).idx), a, g, Clocked(n, c, TRUE))
<1> DEFINE d == SerialTx(c)
           k == Counted(h, d.idx)
           m == Clocked(n, c, TRUE)
<1>1. c \in Cpus /\ h \in Hosts /\ a \in Seq(Bytes) /\ n \in 0..Bits /\ n + 1 = Bits
  BY DEF Good, Shape, Latest
<1>2. c.idx \in Slot /\ (c.idx + 1) % Ring \in Slot /\ (c.idx + 1) % Ring # c.idx
  BY <1>1, NextIsAnother DEF Cpus
<1>3. /\ d \in Cpus /\ d.remaining = 0 /\ d.idx = (c.idx + 1) % Ring
      /\ d.out = [c.out EXCEPT ![c.idx] = c.sbuf]
  BY <1>1, EndCpu
<1>4. k \in Hosts /\ k.count = h.count + 1 /\ k.last = d.idx /\ k.origin = h.origin
  <2>1. h.last = c.idx /\ d.idx # h.last /\ d.idx \in Slot
    BY <1>2, <1>3 DEF Good, Anchored
  <2> QED BY <1>1, <2>1, CountedHost
<1>5. m = Bits /\ m \in 0..Bits
  BY <1>1, SerialAssumption DEF Clocked
<1>6. h.count \in Nat /\ h.origin \in Nat /\ Len(a) \in Nat /\ Len(a) = h.count + 1
  BY <1>1, SerialAssumption DEF Good, Anchored, Hosts, Slot
<1>7. (h.origin + h.count) % Ring = c.idx
  BY DEF Good, Anchored
<1> HIDE DEF d, k, m
<1>8. Shape(d, k, a, g, m)
  BY <1>1, <1>3, <1>4, <1>5 DEF Good, Shape
<1>9. Anchored(d, k, a)
  <2>1. (h.origin + (h.count + 1)) % Ring = (c.idx + 1) % Ring
    <3>1. /\ h.origin + h.count \in Nat
          /\ h.origin + (h.count + 1) = (h.origin + h.count) + 1
      BY <1>6, SMTT(20)
    <3> QED BY <1>7, <3>1, NextSlot
  <2> QED BY <1>3, <1>4, <1>6, <2>1 DEF Anchored
<1>10. Latest(d, a, g, m)
  BY <1>3 DEF Latest
<1>11. Logged(d, k, a, g)
  <2> SUFFICES ASSUME NEW i \in 0..h.count, i >= (h.count + 1) - Ring, i + 1 \notin g
               PROVE  d.out[(h.origin + i) % Ring] = a[i + 1]
    BY <1>4, <1>6 DEF Logged
  <2>1. i \in Nat /\ h.origin + i \in Nat /\ Ring \in Nat
    BY <1>6, SerialAssumption
  <2>2. (h.origin + i) % Ring \in Slot
    BY <2>1, RingDivision
  <2>3. CASE i = h.count
    <3>1. c.sbuf = a[Len(a)]
      BY <1>6, <2>3 DEF Good, Latest
    <3>2. d.out[c.idx] = c.sbuf
      BY <1>1, <1>2, <1>3 DEF Cpus
    <3> QED BY <1>6, <1>7, <2>3, <3>1, <3>2
  <2>4. CASE i # h.count
    <3>1. i \in 0..h.count - 1 /\ i >= h.count - Ring
      BY <1>6, <2>1, <2>4
    <3>2. c.out[(h.origin + i) % Ring] = a[i + 1]
      BY <3>1 DEF Good, Logged
    <3>3. (h.origin + i) % Ring # c.idx
      <4>1. i < h.count /\ h.count - i < Ring
        BY <1>6, <2>1, <3>1
      <4> QED BY <1>6, <1>7, <2>1, <4>1, SlotsDifferFrom
    <3> QED BY <1>1, <1>3, <2>2, <3>2, <3>3 DEF Cpus
  <2> QED BY <2>3, <2>4
<1> QED BY <1>8, <1>9, <1>10, <1>11 DEF Good, d, k, m

LEMMA BitGoes ==
  ASSUME NEW c, NEW h, NEW a, NEW g, NEW n, Good(c, h, a, g, n), c.remaining > 1
  PROVE  Good(SerialTx(c), Counted(h, SerialTx(c).idx), a, g, Clocked(n, c, TRUE))
<1> DEFINE d == SerialTx(c)
           m == Clocked(n, c, TRUE)
<1>1. /\ c \in Cpus /\ c.remaining \in 0..Bits /\ n \in 0..Bits /\ n + c.remaining = Bits
      /\ Bits \in Nat
  BY SerialAssumption DEF Good, Shape, Latest, Cpus
<1>2. /\ d \in Cpus /\ d.remaining = c.remaining - 1 /\ d.remaining > 0 /\ d.idx = c.idx
      /\ d.out = c.out /\ d.sbuf = c.sbuf
  BY <1>1, BitCpu
<1>3. Counted(h, d.idx) = h
  BY <1>2 DEF Counted, Good, Anchored
<1>4. m = n + 1 /\ m \in 0..Bits /\ m + d.remaining = Bits
  BY <1>1, <1>2 DEF Clocked
<1> HIDE DEF d, m
<1>5. Shape(c, h, a, g, n) /\ Anchored(c, h, a) /\ Latest(c, a, g, n) /\ Logged(c, h, a, g)
  BY DEF Good
<1>6. Shape(d, h, a, g, m)
  BY <1>2, <1>4, <1>5 DEF Shape
<1>7. Anchored(d, h, a)
  BY <1>1, <1>2, <1>5 DEF Anchored
<1>8. Latest(d, a, g, m)
  BY <1>1, <1>2, <1>4, <1>5 DEF Latest
<1>9. Logged(d, h, a, g)
  BY <1>2, <1>5 DEF Logged
<1> QED BY <1>3, <1>6, <1>7, <1>8, <1>9 DEF Good, d, m

LEMMA TickGood ==
  ASSUME NEW c, NEW h, NEW a, NEW g, NEW n, NEW bit \in BOOLEAN, Good(c, h, a, g, n)
  PROVE  LET d == IF bit THEN SerialTx(c) ELSE c
         IN  Good(d, Counted(h, d.idx), a, g, Clocked(n, c, bit))
<1>1. c.remaining \in 0..Bits /\ Bits \in Nat
  BY SerialAssumption DEF Good, Shape, Cpus
<1>2. Counted(h, c.idx) = h
  BY DEF Counted, Good, Anchored
<1>3. CASE ~bit
  BY <1>2, <1>3 DEF Clocked
<1>4. CASE bit /\ c.remaining = 0
  BY <1>2, <1>4 DEF Clocked, SerialTx
<1>5. CASE bit /\ c.remaining = 1
  BY <1>5, ByteEnds
<1>6. CASE bit /\ c.remaining > 1
  BY <1>6, BitGoes
<1> QED BY <1>1, <1>3, <1>4, <1>5, <1>6

-----------------------------------------------------------------------------
(* The actions.                                                            *)

LEMMA WriteSBUFPreserves ==
  ASSUME SerialInv, NEW b \in Bytes, NEW bit \in BOOLEAN, WriteSBUF(b, bit)
  PROVE  SerialInv'
<1> DEFINE c == Armed(cpu, b)
           kept == SubSeq(asked, 1, Finished)
           a == Append(kept, b)
           g == garbled \cap DOMAIN kept
<1>1. Good(cpu, host, asked, garbled, bits)
  BY DEF SerialInv
<1>2. /\ cpu \in Cpus /\ host \in Hosts /\ asked \in Seq(Bytes)
      /\ Finished = host.count /\ host.count \in Nat /\ host.count <= Len(asked)
  BY <1>1 DEF Good, Shape, Anchored, Finished, Sending, Hosts
<1>3. /\ kept \in Seq(Bytes) /\ Len(kept) = host.count
      /\ \A i \in 1..host.count : kept[i] = asked[i]
  BY <1>2
<1>4. /\ a \in Seq(Bytes) /\ Len(a) = host.count + 1 /\ a[Len(a)] = b
      /\ \A i \in 1..host.count : a[i] = asked[i]
  BY <1>2, <1>3
<1>5. /\ c \in Cpus /\ c.sbuf = b /\ c.remaining = Bits /\ c.out = cpu.out /\ c.idx = cpu.idx
      /\ Bits \in Nat /\ Bits > 0
  BY <1>2, ArmedCpu, Sizes
<1>6. g \subseteq DOMAIN a /\ g = garbled \cap 1..host.count
  BY <1>3, <1>4
<1> HIDE DEF c, kept, a, g
<1>7. Shape(c, host, a, g, 0)
  BY <1>2, <1>4, <1>5, <1>6 DEF Shape
<1>8. Anchored(c, host, a)
  BY <1>1, <1>2, <1>4, <1>5 DEF Good, Anchored
<1>9. Latest(c, a, g, 0)
  BY <1>4, <1>5 DEF Latest
<1>10. Logged(c, host, a, g)
  <2> SUFFICES ASSUME NEW i \in 0..host.count - 1, i >= host.count - Ring, i + 1 \notin g
               PROVE  c.out[(host.origin + i) % Ring] = a[i + 1]
    BY DEF Logged
  <2>1. i + 1 \in 1..host.count
    BY <1>2
  <2>2. cpu.out[(host.origin + i) % Ring] = asked[i + 1]
    BY <1>1, <1>6, <2>1 DEF Good, Logged
  <2> QED BY <1>4, <1>5, <2>1, <2>2
<1>11. Good(c, host, a, g, 0)
  BY <1>7, <1>8, <1>9, <1>10 DEF Good
<1>12. /\ cpu' = (IF bit THEN SerialTx(c) ELSE c) /\ host' = Counted(host, cpu'.idx)
       /\ asked' = a /\ garbled' = g /\ bits' = Clocked(0, c, bit) /\ wrote' \in BOOLEAN
  BY DEF WriteSBUF, Cycle, c, a, g, kept
<1>13. Good(cpu', host', asked', garbled', bits')
  <2>1. LET d == IF bit THEN SerialTx(c) ELSE c
        IN  Good(d, Counted(host, d.idx), a, g, Clocked(0, c, bit))
    BY <1>11, TickGood
  <2> QED BY <1>12, <2>1
<1> QED BY <1>12, <1>13 DEF SerialInv

LEMMA OtherPreserves ==
  ASSUME SerialInv, NEW c, NEW bit \in BOOLEAN, Other(c, bit),
         c \in Cpus, c.sbuf = cpu.sbuf, c.remaining = cpu.remaining, c.out = cpu.out, c.idx = cpu.idx
  PROVE  SerialInv'
<1>1. Good(c, host, asked, garbled, bits)
  BY DEF SerialInv, Good, Shape, Anchored, Latest, Logged
<1>2. /\ cpu' = (IF bit THEN SerialTx(c) ELSE c) /\ host' = Counted(host, cpu'.idx)
      /\ asked' = asked /\ garbled' = garbled /\ bits' = Clocked(bits, c, bit) /\ wrote' \in BOOLEAN
  BY DEF Other, Cycle
<1>3. LET d == IF bit THEN SerialTx(c) ELSE c
      IN  Good(d, Counted(host, d.idx), asked, garbled, Clocked(bits, c, bit))
  BY <1>1, TickGood
<1>4. Good(cpu', host', asked', garbled', bits')
  BY <1>2, <1>3
<1> QED BY <1>2, <1>4 DEF SerialInv

LEMMA InjectRxPreserves ==
  ASSUME SerialInv, NEW b \in Bytes, InjectRx(b)
  PROVE  SerialInv'
<1>1. Good(cpu, host, asked, garbled, bits)
  BY DEF SerialInv
<1>2. /\ cpu' = [cpu EXCEPT !.sbuf = b] /\ host' = host /\ asked' = asked /\ bits' = bits
      /\ garbled' = garbled \cup (IF Sending THEN {Len(asked)} ELSE {}) /\ wrote' \in BOOLEAN
  BY DEF InjectRx
<1>3. /\ cpu \in Cpus /\ cpu' \in Cpus /\ cpu'.remaining = cpu.remaining /\ cpu'.out = cpu.out
      /\ cpu'.idx = cpu.idx
  BY <1>1, <1>2 DEF Good, Shape, Cpus, Value
<1>4. Shape(cpu', host', asked', garbled', bits')
  <2>1. Sending => Len(asked) \in DOMAIN asked
    BY <1>1 DEF Good, Shape, Anchored, Hosts, Sending
  <2> QED BY <1>1, <1>2, <1>3, <2>1 DEF Good, Shape
<1>5. Anchored(cpu', host', asked')
  BY <1>1, <1>2, <1>3 DEF Good, Anchored
<1>6. Latest(cpu', asked', garbled', bits')
  BY <1>1, <1>2, <1>3 DEF Good, Latest, Sending
<1>7. Logged(cpu', host', asked', garbled')
  BY <1>1, <1>2, <1>3 DEF Good, Logged
<1> QED BY <1>2, <1>4, <1>5, <1>6, <1>7 DEF SerialInv, Good

LEMMA PowerOnCpu ==
  ASSUME cpu \in Cpus
  PROVE  /\ PowerOn(cpu) \in Cpus /\ PowerOn(cpu).remaining = 0
         /\ PowerOn(cpu).out = cpu.out /\ PowerOn(cpu).idx = cpu.idx
<1>1. 0 \in Value /\ 0 \in 0..Bits
  BY SerialAssumption DEF Value
<1>2. PowerOn(cpu) = [cpu EXCEPT !.sbuf = 0, !.remaining = 0, !.p31 = TRUE, !.ti = FALSE]
  BY DEF PowerOn
<1>3. PowerOn(cpu) \in Cpus
  BY <1>1, <1>2 DEF Cpus
<1>4. PowerOn(cpu).remaining = 0 /\ PowerOn(cpu).out = cpu.out /\ PowerOn(cpu).idx = cpu.idx
  BY <1>2 DEF Cpus
<1> QED BY <1>3, <1>4

LEMMA CpuResetPreserves ==
  ASSUME SerialInv, CpuReset
  PROVE  SerialInv'
<1> DEFINE a == SubSeq(asked, 1, Finished)
<1>1. Good(cpu, host, asked, garbled, bits)
  BY DEF SerialInv
<1>2. /\ cpu \in Cpus /\ host \in Hosts /\ asked \in Seq(Bytes)
      /\ Finished = host.count /\ host.count \in Nat /\ host.count <= Len(asked)
  BY <1>1 DEF Good, Shape, Anchored, Finished, Sending, Hosts
<1>3. /\ a \in Seq(Bytes) /\ Len(a) = host.count
      /\ \A i \in 1..host.count : a[i] = asked[i]
  BY <1>2
<1>4. /\ cpu' = PowerOn(cpu) /\ host' = host /\ asked' = a /\ garbled' = garbled \cap DOMAIN a
      /\ bits' = 0 /\ wrote' \in BOOLEAN
  BY DEF CpuReset
<1>5. cpu' \in Cpus /\ cpu'.remaining = 0 /\ cpu'.out = cpu.out /\ cpu'.idx = cpu.idx
  BY <1>2, <1>4, PowerOnCpu
<1> HIDE DEF a
<1>6. Shape(cpu', host', asked', garbled', bits')
  BY <1>2, <1>3, <1>4, <1>5, SerialAssumption DEF Shape
<1>7. Anchored(cpu', host', asked')
  BY <1>1, <1>2, <1>3, <1>4, <1>5 DEF Good, Anchored
<1>8. Latest(cpu', asked', garbled', bits')
  BY <1>5 DEF Latest
<1>9. Logged(cpu', host', asked', garbled')
  <2> SUFFICES ASSUME NEW i \in 0..host.count - 1, i >= host.count - Ring, i + 1 \notin garbled'
               PROVE  cpu.out[(host.origin + i) % Ring] = a[i + 1]
    BY <1>4, <1>5 DEF Logged
  <2>1. i + 1 \in 1..host.count /\ i + 1 \notin garbled
    BY <1>2, <1>3, <1>4
  <2> QED BY <1>1, <1>3, <2>1 DEF Good, Logged
<1> QED BY <1>4, <1>6, <1>7, <1>8, <1>9 DEF SerialInv, Good

LEMMA SimResetPreserves ==
  ASSUME SerialInv, SimReset
  PROVE  SerialInv'
<1>1. cpu \in Cpus
  BY DEF SerialInv, Good, Shape
<1>2. /\ cpu' = PowerOn(cpu) /\ host' = [count |-> 0, last |-> cpu.idx, origin |-> cpu.idx]
      /\ asked' = <<>> /\ garbled' = {} /\ bits' = 0 /\ wrote' \in BOOLEAN
  BY DEF SimReset, Reanchored
<1>3. cpu' \in Cpus /\ cpu'.remaining = 0 /\ cpu'.idx = cpu.idx /\ cpu.idx \in Slot
  BY <1>1, <1>2, PowerOnCpu DEF Cpus
<1>4. Shape(cpu', host', asked', garbled', bits')
  BY <1>2, <1>3, SerialAssumption DEF Shape, Hosts
<1>5. Anchored(cpu', host', asked')
  <2>1. (cpu.idx + 0) % Ring = cpu.idx
    BY <1>3, SerialAssumption DEF Slot
  <2> QED BY <1>2, <1>3, <2>1 DEF Anchored
<1>6. Latest(cpu', asked', garbled', bits') /\ Logged(cpu', host', asked', garbled')
  BY <1>2, <1>3 DEF Latest, Logged
<1> QED BY <1>2, <1>4, <1>5, <1>6 DEF SerialInv, Good

LEMMA SerialInvInit == Init => SerialInv
<1> SUFFICES ASSUME Init PROVE SerialInv
  OBVIOUS
<1>1. /\ cpu \in Cpus /\ cpu.remaining = 0 /\ cpu.idx = 0
      /\ host = [count |-> 0, last |-> 0, origin |-> 0] /\ 0 \in Slot
      /\ asked = <<>> /\ garbled = {} /\ bits = 0 /\ wrote = FALSE
  BY SerialAssumption DEF Init, Cpus, Slot, Value
<1>2. Shape(cpu, host, asked, garbled, bits)
  BY <1>1, SerialAssumption DEF Shape, Hosts
<1>3. Anchored(cpu, host, asked)
  <2>1. (0 + 0) % Ring = 0
    BY SerialAssumption
  <2> QED BY <1>1, <2>1 DEF Anchored
<1>4. Latest(cpu, asked, garbled, bits) /\ Logged(cpu, host, asked, garbled)
  BY <1>1 DEF Latest, Logged
<1> QED BY <1>1, <1>2, <1>3, <1>4 DEF SerialInv, Good

LEMMA SerialStep == SerialInv /\ [Next]_vars => SerialInv'
<1> SUFFICES ASSUME SerialInv, [Next]_vars PROVE SerialInv'
  OBVIOUS
<1>1. cpu \in Cpus
  BY DEF SerialInv, Good, Shape
<1>2. ASSUME NEW bit \in BOOLEAN, Step(bit) PROVE SerialInv'
  <2>1. CASE \E b \in Bytes : WriteSBUF(b, bit)
    BY <2>1, WriteSBUFPreserves
  <2>2. CASE Other(cpu, bit)
    BY <1>1, <2>2, OtherPreserves
  <2>3. ASSUME NEW b \in BOOLEAN, WriteTI(b, bit) PROVE SerialInv'
    <3> DEFINE c == [cpu EXCEPT !.ti = b]
    <3>1. /\ c \in Cpus /\ c.sbuf = cpu.sbuf /\ c.remaining = cpu.remaining /\ c.out = cpu.out
          /\ c.idx = cpu.idx
      BY <1>1 DEF Cpus
    <3>2. Other(c, bit)
      BY <2>3 DEF WriteTI
    <3> HIDE DEF c
    <3> QED BY <3>1, <3>2, OtherPreserves
  <2>4. ASSUME NEW b \in BOOLEAN, WriteP3(b, bit) PROVE SerialInv'
    <3> DEFINE c == [cpu EXCEPT !.p31 = b]
    <3>1. /\ c \in Cpus /\ c.sbuf = cpu.sbuf /\ c.remaining = cpu.remaining /\ c.out = cpu.out
          /\ c.idx = cpu.idx
      BY <1>1 DEF Cpus
    <3>2. Other(c, bit)
      BY <2>4 DEF WriteP3
    <3> HIDE DEF c
    <3> QED BY <3>1, <3>2, OtherPreserves
  <2> QED BY <1>2, <2>1, <2>2, <2>3, <2>4 DEF Step
<1>3. CASE \E b \in Bytes : InjectRx(b)
  BY <1>3, InjectRxPreserves
<1>4. CASE CpuReset
  BY <1>4, CpuResetPreserves
<1>5. CASE SimReset
  BY <1>5, SimResetPreserves
<1>6. CASE UNCHANGED vars
  BY <1>6 DEF vars, SerialInv, Good, Shape, Anchored, Latest, Logged
<1> QED BY <1>2, <1>3, <1>4, <1>5, <1>6 DEF Next

-----------------------------------------------------------------------------
(* When the count advances.                                                *)

LEMMA CountedAtTheEnd ==
  ASSUME NEW c \in Cpus, NEW h \in Hosts, NEW n \in 0..Bits, NEW bit \in BOOLEAN,
         h.last = c.idx, c.remaining > 0 => n + c.remaining = Bits,
         LET d == IF bit THEN SerialTx(c) ELSE c IN Counted(h, d.idx).count > h.count
  PROVE  Clocked(n, c, bit) = Bits
<1>1. Counted(h, c.idx).count = h.count /\ h.count \in Nat
  BY DEF Counted, Hosts
<1>2. c.remaining \in Nat /\ Bits \in Nat
  BY Sizes DEF Cpus
<1>3. bit
  BY <1>1
<1>4. CASE c.remaining = 0
  BY <1>1, <1>3, <1>4 DEF SerialTx
<1>5. CASE c.remaining > 1
  <2>1. SerialTx(c).idx = c.idx
    BY <1>5, BitCpu
  <2> QED BY <1>1, <1>3, <2>1
<1>6. CASE c.remaining = 1
  BY <1>2, <1>3, <1>6 DEF Clocked
<1> QED BY <1>2, <1>4, <1>5, <1>6

LEMMA OtherCounts ==
  ASSUME SerialInv, NEW c \in Cpus, NEW bit \in BOOLEAN, Other(c, bit),
         c.remaining = cpu.remaining, c.idx = cpu.idx, host'.count > host.count
  PROVE  bits' = Bits
<1>1. /\ host \in Hosts /\ bits \in 0..Bits /\ host.last = c.idx
      /\ c.remaining > 0 => bits + c.remaining = Bits
  BY DEF SerialInv, Good, Shape, Anchored, Latest
<1>2. /\ bits' = Clocked(bits, c, bit)
      /\ cpu' = (IF bit THEN SerialTx(c) ELSE c) /\ host' = Counted(host, cpu'.idx)
  BY DEF Other, Cycle
<1> QED BY <1>1, <1>2, CountedAtTheEnd

LEMMA CountsAtTheEnd ==
  ASSUME SerialInv, [Next]_vars, host'.count > host.count
  PROVE  bits' = Bits
<1>1. cpu \in Cpus /\ host \in Hosts /\ host.count \in Nat /\ host.last = cpu.idx
  BY DEF SerialInv, Good, Shape, Anchored, Hosts
<1>2. ASSUME NEW bit \in BOOLEAN, NEW b \in Bytes, WriteSBUF(b, bit) PROVE bits' = Bits
  <2> DEFINE c == Armed(cpu, b)
  <2>1. /\ c \in Cpus /\ c.remaining = Bits /\ c.idx = cpu.idx
        /\ Bits \in Nat /\ 0 \in 0..Bits /\ 0 + Bits = Bits
    BY <1>1, ArmedCpu, Sizes
  <2>2. /\ bits' = Clocked(0, c, bit)
        /\ cpu' = (IF bit THEN SerialTx(c) ELSE c) /\ host' = Counted(host, cpu'.idx)
    BY <1>2 DEF WriteSBUF, Cycle
  <2> HIDE DEF c
  <2> QED BY <1>1, <2>1, <2>2, CountedAtTheEnd
<1>3. ASSUME NEW bit \in BOOLEAN, Other(cpu, bit) PROVE bits' = Bits
  BY <1>1, <1>3, OtherCounts
<1>4. ASSUME NEW bit \in BOOLEAN, NEW b \in BOOLEAN, WriteTI(b, bit) PROVE bits' = Bits
  <2> DEFINE c == [cpu EXCEPT !.ti = b]
  <2>1. c \in Cpus /\ c.remaining = cpu.remaining /\ c.idx = cpu.idx
    BY <1>1 DEF Cpus
  <2>2. Other(c, bit)
    BY <1>4 DEF WriteTI
  <2> HIDE DEF c
  <2> QED BY <2>1, <2>2, OtherCounts
<1>5. ASSUME NEW bit \in BOOLEAN, NEW b \in BOOLEAN, WriteP3(b, bit) PROVE bits' = Bits
  <2> DEFINE c == [cpu EXCEPT !.p31 = b]
  <2>1. c \in Cpus /\ c.remaining = cpu.remaining /\ c.idx = cpu.idx
    BY <1>1 DEF Cpus
  <2>2. Other(c, bit)
    BY <1>5 DEF WriteP3
  <2> HIDE DEF c
  <2> QED BY <2>1, <2>2, OtherCounts
<1>6. ASSUME host' = host PROVE FALSE
  BY <1>1, <1>6
<1>7. CASE SimReset
  BY <1>1, <1>7 DEF SimReset, Reanchored
<1>8. CASE CpuReset \/ (\E b \in Bytes : InjectRx(b)) \/ UNCHANGED vars
  BY <1>6, <1>8 DEF CpuReset, InjectRx, vars
<1> QED BY <1>2, <1>3, <1>4, <1>5, <1>7, <1>8 DEF Next, Step

-----------------------------------------------------------------------------
(***************************************************************************)
(* Transmitter, host and ring agree: the slot the host's count points at   *)
(* is the one the next byte will take.                                     *)
(***************************************************************************)
THEOREM SerialInvariant == Spec => []SerialInv
BY SerialInvInit, SerialStep, PTL DEF Spec

(***************************************************************************)
(* Registers, ring and counters keep the ranges of the C fields.           *)
(***************************************************************************)
THEOREM SerialTypes == Spec => []TypeOK
<1>1. SerialInv => TypeOK
  BY DEF SerialInv, Good, Shape, TypeOK, Cpus, Hosts
<1> QED BY <1>1, SerialInvariant, PTL

(***************************************************************************)
(* The host reads back exactly the bytes the firmware sent, as far back as *)
(* the ring reaches, whatever its size and whatever the resets between.    *)
(***************************************************************************)
THEOREM HostReads == Spec => []HostReadsWhatWasSent
<1>1. SerialInv => HostReadsWhatWasSent
  BY DEF SerialInv, Good, Anchored, Logged, HostReadsWhatWasSent, Finished, Sending, TxByte
<1> QED BY <1>1, SerialInvariant, PTL

(***************************************************************************)
(* A byte is reported exactly when as many bits as it has were clocked     *)
(* since the last write to SBUF.                                           *)
(***************************************************************************)
THEOREM SentOnTime == Spec => SentAfterAllBits
<1>1. SerialInv /\ [Next]_vars => (host'.count > host.count => bits' = Bits)
  BY CountsAtTheEnd
<1>2. SerialInv /\ [Next]_vars => [host'.count > host.count => bits' = Bits]_vars
  BY <1>1
<1> QED BY <1>2, SerialInvariant, PTL DEF Spec, SentAfterAllBits


=============================================================================
