---------------------------- MODULE TimersProofs ----------------------------
(***************************************************************************)
(* What holds of Timers for bytes of any size, and any order of counts,    *)
(* writes, interrupts and resets.                                          *)
(***************************************************************************)
EXTENDS Timers, Numbers, TLAPS

-----------------------------------------------------------------------------
(* Digits.                                                                 *)

(***************************************************************************)
(* The low part of a byte counts without leaving the byte.                 *)
(***************************************************************************)
LEMMA LowPart ==
  ASSUME NEW b \in Nat \ {0}, ByteBase % b = 0, NEW tl \in Byte
  PROVE  LET t == tl - (tl % b) + ((tl + 1) % b)
         IN  t \in Byte /\ t % b = (tl + 1) % b
<1> DEFINE q == tl \div b
           r == tl % b
           s == (tl + 1) % b
<1>1. ByteBase \in Nat /\ tl \in Nat /\ tl < ByteBase
  BY TimersAssumption DEF Byte
<1>0. PICK m \in Nat : ByteBase = b * m
  BY <1>1, Multiple
<1>2. /\ q \in Nat /\ r \in 0..b - 1 /\ tl = b * q + r
      /\ s \in 0..b - 1
  <2>1. q \in Nat /\ r \in 0..b - 1 /\ tl = b * q + r
    BY <1>1, Division
  <2>2. s \in 0..b - 1
    BY <1>1, Division
  <2> QED BY <2>1, <2>2
<1> DEFINE t == tl - r + s
<1>3. t = b * q + s
  <2> HIDE DEF q, r, s
  <2> QED BY <1>1, <1>2
<1> SUFFICES t \in Byte /\ t % b = s
  OBVIOUS
<1> HIDE DEF q, r, s, t
<1>4. b * q \in Nat /\ t \in Nat
  BY <1>2, <1>3
<1>5. q < m
  <2>1. b * (q - m) < 0
    BY <1>0, <1>1, <1>2
  <2> QED BY <1>2, <2>1
<1>6. b * q + b <= b * m
  <2>1. b * (m - q - 1) >= 0
    BY <1>2, <1>5
  <2> QED BY <1>2, <2>1
<1>7. t < ByteBase
  BY <1>0, <1>2, <1>3, <1>6
<1>8. t % b = s
  BY <1>2, <1>3, <1>4, Remainder
<1> QED BY <1>1, <1>4, <1>7, <1>8 DEF Byte

(***************************************************************************)
(* How far two digits are from rolling over together.                      *)
(***************************************************************************)
LEMMA Joined ==
  ASSUME NEW A \in Nat \ {0}, NEW b \in Nat \ {0}, NEW h \in 0..A - 1, NEW l \in 0..b - 1
  PROVE  LET j == A * b - (h * b + l)
         IN  /\ j \in Nat /\ j >= 1 /\ j <= A * b
             /\ j = 1 <=> h = A - 1 /\ l = b - 1
<1> DEFINE k == A - 1 - h
           j == A * b - (h * b + l)
<1>1. k \in Nat
  OBVIOUS
<1>2. j = k * b + (b - l) /\ h * b \in Nat /\ A * b \in Nat
  OBVIOUS
<1>3. k * b \in Nat /\ (k >= 1 => k * b >= b) /\ (k = 0 => k * b = 0)
  BY <1>1
<1>4. k = 0 <=> h = A - 1
  OBVIOUS
<1>5. b - l \in Nat /\ b - l >= 1 /\ (b - l = 1 <=> l = b - 1) /\ h * b + l >= 0
  BY <1>2
<1> SUFFICES /\ j \in Nat /\ j >= 1 /\ j <= A * b
             /\ j = 1 <=> h = A - 1 /\ l = b - 1
  OBVIOUS
<1>6. j \in Nat /\ j >= 1 /\ j <= A * b
  <2> HIDE DEF k
  <2>1. j >= 1
    BY <1>2, <1>3, <1>5
  <2> QED BY <1>2, <1>5, <2>1
<1>7. j = 1 <=> k = 0 /\ b - l = 1
  <2> HIDE DEF k, j
  <2> QED BY <1>1, <1>2, <1>3, <1>5
<1> QED BY <1>4, <1>5, <1>6, <1>7

-----------------------------------------------------------------------------
(* One count of a pair.                                                    *)

LEMMA Sizes ==
  /\ ByteBase \in Nat /\ ByteBase > 1 /\ LowBase \in Nat /\ LowBase > 1 /\ LowBase <= ByteBase
  /\ ByteBase % LowBase = 0 /\ ByteBase % ByteBase = 0
<1>1. ByteBase % ByteBase = 0
  <2>1. ByteBase = ByteBase * 1 + 0 /\ ByteBase \in Nat \ {0}
    BY TimersAssumption
  <2> QED BY <2>1, Remainder
<1> QED BY <1>1, TimersAssumption

LEMMA IncCounts ==
  ASSUME NEW x \in Byte
  PROVE  /\ Inc(x) \in Byte
         /\ Inc(x) = 0 <=> ByteBase - x = 1
         /\ Inc(x) # 0 => Inc(x) = x + 1
         /\ ByteBase - x \in 1..ByteBase
<1>1. x \in Nat /\ x < ByteBase /\ ByteBase \in Nat \ {0}
  BY Sizes DEF Byte
<1>2. x % ByteBase = x
  <2>1. x = ByteBase * 0 + x /\ x \in 0..ByteBase - 1
    BY <1>1
  <2> QED BY <1>1, <2>1, Remainder
<1>3. Inc(x) = IF x = ByteBase - 1 THEN 0 ELSE x + 1
  BY <1>1, <1>2, NextRemainder DEF Inc
<1> QED BY <1>1, <1>3 DEF Byte

LEMMA ChainCounts ==
  ASSUME NEW b \in Nat \ {0}, ByteBase % b = 0, NEW tl \in Byte, NEW th \in Byte
  PROVE  LET c == Chain(tl, th, b)
             j == ByteBase * b - (th * b + (tl % b))
         IN  /\ c.tl \in Byte /\ c.th \in Byte
             /\ c.over \in BOOLEAN /\ (c.over <=> j = 1)
             /\ ByteBase * b - (c.th * b + (c.tl % b)) = IF j = 1 THEN ByteBase * b ELSE j - 1
             /\ j \in Nat /\ j >= 1 /\ j <= ByteBase * b
<1> DEFINE carry == (tl + 1) % b = 0
           l == tl % b
           t == tl - l + ((tl + 1) % b)
           n == (tl + 1) % b
           h == IF carry THEN Inc(th) ELSE th
           j == ByteBase * b - (th * b + l)
           k == ByteBase * b - (h * b + n)
<1>1. tl \in Nat /\ th \in 0..ByteBase - 1 /\ ByteBase \in Nat \ {0}
  BY Sizes DEF Byte
<1>2. t \in Byte /\ t % b = n
  BY LowPart
<1>3. l \in 0..b - 1 /\ n = IF l = b - 1 THEN 0 ELSE l + 1
  BY <1>1, Division, NextRemainder
<1>4. h \in Byte
  BY IncCounts
<1>5. /\ j \in Nat /\ j >= 1 /\ j <= ByteBase * b
      /\ j = 1 <=> th = ByteBase - 1 /\ l = b - 1
  BY <1>1, <1>3, Joined
<1>6. Inc(th) = IF th = ByteBase - 1 THEN 0 ELSE th + 1
  BY <1>1, IncCounts
<1>7. k = IF j = 1 THEN ByteBase * b ELSE j - 1
  <2>1. th * b \in Nat /\ ByteBase * b \in Nat /\ 0 * b = 0 /\ (th + 1) * b = th * b + b
    BY <1>1
  <2>2. CASE l # b - 1
    <3>1. n = l + 1 /\ h = th
      BY <1>3, <2>2
    <3> HIDE DEF l, n, h
    <3> QED BY <1>3, <1>5, <2>1, <2>2, <3>1
  <2>3. CASE l = b - 1 /\ th = ByteBase - 1
    <3>1. n = 0 /\ h = 0
      BY <1>3, <1>6, <2>3
    <3> HIDE DEF l, n, h
    <3> QED BY <1>5, <2>1, <2>3, <3>1
  <2>4. CASE l = b - 1 /\ th # ByteBase - 1
    <3>1. n = 0 /\ h = th + 1
      BY <1>3, <1>6, <2>4
    <3> HIDE DEF l, n, h
    <3> QED BY <1>5, <2>1, <2>4, <3>1
  <2> QED BY <2>2, <2>3, <2>4
<1>8. (carry /\ Inc(th) = 0) <=> j = 1
  BY <1>1, <1>3, <1>5, <1>6
<1>9. Chain(tl, th, b) = [tl |-> t, th |-> h, over |-> carry /\ Inc(th) = 0]
  BY DEF Chain
<1> DEFINE o == carry /\ Inc(th) = 0
           c == Chain(tl, th, b)
<1>10. c.tl = t /\ c.th = h /\ c.over = o
  BY <1>9
<1>11. o \in BOOLEAN
  OBVIOUS
<1> SUFFICES /\ c.tl \in Byte /\ c.th \in Byte
             /\ c.over \in BOOLEAN /\ (c.over <=> j = 1)
             /\ ByteBase * b - (c.th * b + (c.tl % b)) = IF j = 1 THEN ByteBase * b ELSE j - 1
             /\ j \in Nat /\ j >= 1 /\ j <= ByteBase * b
  OBVIOUS
<1>12. ByteBase * b - (c.th * b + (c.tl % b)) = k
  BY <1>2, <1>10
<1> HIDE DEF c, t, h, k, l, n, carry
<1>13. c.over <=> j = 1
  BY <1>8, <1>10
<1> HIDE DEF j, o
<1> QED BY <1>2, <1>4, <1>5, <1>7, <1>10, <1>11, <1>12, <1>13

(***************************************************************************)
(* The pair of a mode that counts both is over on the tick its span says.  *)
(***************************************************************************)
LEMMA PairCounts ==
  ASSUME NEW mode \in 0..2, NEW tl \in Byte, NEW th \in Byte
  PROVE  LET c == Counted(mode, tl, th)
             j == Span(mode, tl, th)
         IN  /\ c.tl \in Byte /\ c.th \in Byte
             /\ c.over \in BOOLEAN /\ (c.over <=> j = 1)
             /\ Span(mode, c.tl, c.th) = IF j = 1 THEN Period(mode, th) ELSE j - 1
<1>1. CASE mode = 0
  <2>1. Counted(mode, tl, th) = Chain(tl, th, LowBase)
    BY <1>1 DEF Counted
  <2>2. LowBase \in Nat \ {0} /\ ByteBase % LowBase = 0
    BY Sizes
  <2>3. /\ \A x, y : Span(mode, x, y) = ByteBase * LowBase - (y * LowBase + (x % LowBase))
        /\ Period(mode, th) = ByteBase * LowBase
    BY <1>1 DEF Span, Period
  <2> QED BY <2>1, <2>2, <2>3, ChainCounts
<1>2. CASE mode = 1
  <2>1. Counted(mode, tl, th) = Chain(tl, th, ByteBase)
    BY <1>2 DEF Counted
  <2>2. ByteBase \in Nat \ {0} /\ ByteBase % ByteBase = 0
    BY Sizes
  <2>3. ASSUME NEW x \in Byte PROVE x % ByteBase = x
    <3>1. x = ByteBase * 0 + x /\ x \in 0..ByteBase - 1 /\ 0 \in Int /\ x \in Nat
      BY <2>2 DEF Byte
    <3> QED BY <2>2, <3>1, Remainder
  <2>4. /\ \A x \in Byte, y \in Byte :
             Span(mode, x, y) = ByteBase * ByteBase - (y * ByteBase + (x % ByteBase))
        /\ Period(mode, th) = ByteBase * ByteBase
    BY <1>2, <2>3 DEF Span, Period
  <2> QED BY <2>1, <2>2, <2>4, ChainCounts
<1>3. CASE mode = 2
  <2> DEFINE x == IF Inc(tl) = 0 THEN th ELSE Inc(tl)
             o == Inc(tl) = 0
             c == Counted(mode, tl, th)
  <2>1. c = [tl |-> x, th |-> th, over |-> o]
    BY <1>3 DEF Counted, AutoReload
  <2>2. c.tl = x /\ c.th = th /\ c.over = o
    BY <2>1
  <2>3. /\ Span(mode, tl, th) = ByteBase - tl /\ Span(mode, c.tl, c.th) = ByteBase - c.tl
        /\ Period(mode, th) = ByteBase - th
    BY <1>3 DEF Span, Period
  <2>4. x \in Byte /\ o \in BOOLEAN
    BY IncCounts
  <2>5. o <=> ByteBase - tl = 1
    BY IncCounts
  <2>6. ByteBase - x = IF ByteBase - tl = 1 THEN ByteBase - th ELSE ByteBase - tl - 1
    BY IncCounts, Sizes DEF Byte
  <2> HIDE DEF c, x
  <2>7. c.over \in BOOLEAN /\ (c.over <=> ByteBase - tl = 1)
    BY <2>2, <2>4, <2>5
  <2>8. /\ c.tl \in Byte /\ c.th \in Byte
        /\ ByteBase - c.tl = IF ByteBase - tl = 1 THEN ByteBase - th ELSE ByteBase - tl - 1
    BY <2>2, <2>4, <2>6
  <2> QED BY <2>3, <2>7, <2>8 DEF c
<1> QED BY <1>1, <1>2, <1>3

LEMMA SpanBounds ==
  ASSUME NEW mode \in 0..3, NEW tl \in Byte, NEW th \in Byte
  PROVE  Span(mode, tl, th) \in 0..ByteBase * ByteBase
<1>1. /\ ByteBase \in Nat \ {0} /\ LowBase \in Nat \ {0} /\ tl \in 0..ByteBase - 1
      /\ th \in 0..ByteBase - 1 /\ tl % LowBase \in 0..LowBase - 1
  BY Sizes, Division DEF Byte
<1>2. ByteBase * ByteBase \in Nat /\ ByteBase <= ByteBase * ByteBase
  <2>1. ByteBase * (ByteBase - 1) >= 0
    BY <1>1
  <2> QED BY <1>1, <2>1
<1>3. ByteBase * LowBase <= ByteBase * ByteBase
  <2>1. ByteBase * (ByteBase - LowBase) >= 0
    BY <1>1, Sizes
  <2> QED BY <1>1, <2>1
<1>4. CASE mode = 0
  <2>1. Span(mode, tl, th) = ByteBase * LowBase - (th * LowBase + (tl % LowBase))
    BY <1>4 DEF Span
  <2>2. Span(mode, tl, th) \in Nat /\ Span(mode, tl, th) <= ByteBase * LowBase
    BY <1>1, <2>1, Joined
  <2> QED BY <1>1, <1>2, <1>3, <2>2
<1>5. CASE mode = 1
  <2>1. Span(mode, tl, th) = ByteBase * ByteBase - (th * ByteBase + tl)
    BY <1>5 DEF Span
  <2>2. Span(mode, tl, th) \in Nat /\ Span(mode, tl, th) <= ByteBase * ByteBase
    BY <1>1, <2>1, Joined
  <2> QED BY <1>2, <2>2
<1>6. CASE mode \in {2, 3}
  <2>1. Span(mode, tl, th) = ByteBase - tl
    BY <1>6 DEF Span
  <2> QED BY <1>1, <1>2, <2>1
<1> QED BY <1>4, <1>5, <1>6

-----------------------------------------------------------------------------
(* One tick of each timer.  Next is the span that follows span j, in a     *)
(* mode whose period is p.                                                 *)

Following(j, p) == IF j = 1 THEN p ELSE j - 1

LEMMA SplitCounts ==
  ASSUME NEW r \in Registers, r.mode0 = 3
  PROVE  LET t == Timer0(r)
         IN  /\ t = [r EXCEPT !.tl0 = t.tl0, !.th0 = t.th0, !.tf0 = t.tf0, !.tf1 = t.tf1]
             /\ t.tl0 \in Byte /\ t.th0 \in Byte /\ t.tf0 \in BOOLEAN /\ t.tf1 \in BOOLEAN
             /\ t.tf0 <=> r.tf0 \/ (r.run0 /\ ByteBase - r.tl0 = 1)
             /\ t.tf1 <=> r.tf1 \/ (r.run1 /\ ByteBase - r.th0 = 1)
             /\ ByteBase - t.tl0 = IF r.run0 THEN Following(ByteBase - r.tl0, ByteBase)
                                   ELSE ByteBase - r.tl0
             /\ ByteBase - t.th0 = IF r.run1 THEN Following(ByteBase - r.th0, ByteBase)
                                   ELSE ByteBase - r.th0
<1> DEFINE f0 == IF r.run0 THEN r.tf0 \/ Inc(r.tl0) = 0 ELSE r.tf0
           f1 == IF r.run1 THEN r.tf1 \/ Inc(r.th0) = 0 ELSE r.tf1
           l0 == IF r.run0 THEN Inc(r.tl0) ELSE r.tl0
           h0 == IF r.run1 THEN Inc(r.th0) ELSE r.th0
           t == Timer0(r)
<1>1. /\ r.tl0 \in Byte /\ r.th0 \in Byte /\ r.tf0 \in BOOLEAN /\ r.tf1 \in BOOLEAN
      /\ r.run0 \in BOOLEAN /\ r.run1 \in BOOLEAN
  BY DEF Registers
<1>2. /\ f0 \in BOOLEAN /\ (f0 <=> r.tf0 \/ (r.run0 /\ ByteBase - r.tl0 = 1))
  BY <1>1, IncCounts
<1>3. /\ f1 \in BOOLEAN /\ (f1 <=> r.tf1 \/ (r.run1 /\ ByteBase - r.th0 = 1))
  BY <1>1, IncCounts
<1>4. /\ l0 \in Byte
      /\ ByteBase - l0 = IF r.run0 THEN Following(ByteBase - r.tl0, ByteBase)
                         ELSE ByteBase - r.tl0
  BY <1>1, IncCounts, Sizes DEF Following, Byte
<1>5. /\ h0 \in Byte
      /\ ByteBase - h0 = IF r.run1 THEN Following(ByteBase - r.th0, ByteBase)
                         ELSE ByteBase - r.th0
  BY <1>1, IncCounts, Sizes DEF Following, Byte
<1>6. t = Split(r)
  BY DEF Timer0
<1>7. t = [r EXCEPT !.tl0 = l0, !.th0 = h0, !.tf0 = f0, !.tf1 = f1]
  <2> HIDE DEF t
  <2>1. CASE r.run0 /\ r.run1
    BY <1>6, <2>1 DEF Split, Registers
  <2>2. CASE r.run0 /\ ~r.run1
    BY <1>6, <2>2 DEF Split, Registers
  <2>3. CASE ~r.run0 /\ r.run1
    BY <1>6, <2>3 DEF Split, Registers
  <2>4. CASE ~r.run0 /\ ~r.run1
    BY <1>6, <2>4 DEF Split, Registers
  <2> QED BY <1>1, <2>1, <2>2, <2>3, <2>4
<1> HIDE DEF f0, f1, l0, h0, t
<1>8. t.tl0 = l0 /\ t.th0 = h0 /\ t.tf0 = f0 /\ t.tf1 = f1
  BY <1>7 DEF Registers
<1>9. t = [r EXCEPT !.tl0 = t.tl0, !.th0 = t.th0, !.tf0 = t.tf0, !.tf1 = t.tf1]
  BY <1>7, <1>8
<1>10. t.tf0 \in BOOLEAN /\ (t.tf0 <=> r.tf0 \/ (r.run0 /\ ByteBase - r.tl0 = 1))
  BY <1>2, <1>8
<1>11. t.tf1 \in BOOLEAN /\ (t.tf1 <=> r.tf1 \/ (r.run1 /\ ByteBase - r.th0 = 1))
  BY <1>3, <1>8
<1> QED BY <1>4, <1>5, <1>8, <1>9, <1>10, <1>11 DEF t

LEMMA Timer0Counts ==
  ASSUME NEW r \in Registers
  PROVE  LET t == Timer0(r)
             j == Span(r.mode0, r.tl0, r.th0)
         IN  /\ t = [r EXCEPT !.tl0 = t.tl0, !.th0 = t.th0, !.tf0 = t.tf0, !.tf1 = t.tf1]
             /\ t.tl0 \in Byte /\ t.th0 \in Byte /\ t.tf0 \in BOOLEAN /\ t.tf1 \in BOOLEAN
             /\ t.tf0 <=> r.tf0 \/ (r.run0 /\ j = 1)
             /\ t.tf1 <=> r.tf1 \/ (r.mode0 = 3 /\ r.run1 /\ ByteBase - r.th0 = 1)
             /\ Span(r.mode0, t.tl0, t.th0) =
                  IF r.run0 THEN Following(j, Period(r.mode0, r.th0)) ELSE j
             /\ r.mode0 = 3 =>
                  ByteBase - t.th0 = IF r.run1 THEN Following(ByteBase - r.th0, ByteBase)
                                     ELSE ByteBase - r.th0
<1> DEFINE t == Timer0(r)
           j == Span(r.mode0, r.tl0, r.th0)
<1>1. /\ r.tl0 \in Byte /\ r.th0 \in Byte /\ r.tf0 \in BOOLEAN /\ r.tf1 \in BOOLEAN
      /\ r.mode0 \in 0..3
  BY DEF Registers
<1>2. CASE r.mode0 = 3
  <2>1. /\ j = ByteBase - r.tl0 /\ Span(r.mode0, t.tl0, t.th0) = ByteBase - t.tl0
        /\ Period(r.mode0, r.th0) = ByteBase
    BY <1>2 DEF Span, Period
  <2> HIDE DEF j
  <2> QED BY <1>2, <2>1, SplitCounts DEF j
<1>3. CASE r.mode0 # 3 /\ ~r.run0
  <2>1. t = r
    BY <1>3 DEF Timer0
  <2> HIDE DEF t
  <2>2. t = [r EXCEPT !.tl0 = t.tl0, !.th0 = t.th0, !.tf0 = t.tf0, !.tf1 = t.tf1]
    BY <2>1 DEF Registers
  <2> QED BY <1>1, <1>3, <2>1, <2>2 DEF t
<1>4. CASE r.mode0 # 3 /\ r.run0
  <2> DEFINE c == Counted(r.mode0, r.tl0, r.th0)
             f == r.tf0 \/ c.over
  <2>1. /\ c.tl \in Byte /\ c.th \in Byte /\ c.over \in BOOLEAN /\ (c.over <=> j = 1)
        /\ Span(r.mode0, c.tl, c.th) = Following(j, Period(r.mode0, r.th0))
    BY <1>1, <1>4, PairCounts DEF Following
  <2>2. t = [r EXCEPT !.tl0 = c.tl, !.th0 = c.th, !.tf0 = f]
    BY <1>4 DEF Timer0
  <2>3. f \in BOOLEAN /\ (f <=> r.tf0 \/ j = 1)
    BY <1>1, <2>1
  <2> HIDE DEF t, c, f, j
  <2>4. t.tl0 = c.tl /\ t.th0 = c.th /\ t.tf0 = f /\ t.tf1 = r.tf1
    BY <2>2 DEF Registers
  <2>5. t = [r EXCEPT !.tl0 = t.tl0, !.th0 = t.th0, !.tf0 = t.tf0, !.tf1 = t.tf1]
    BY <2>2, <2>4 DEF Registers
  <2>6. t.tf0 \in BOOLEAN /\ (t.tf0 <=> r.tf0 \/ j = 1)
    BY <2>3, <2>4
  <2> QED BY <1>1, <1>4, <2>1, <2>4, <2>5, <2>6 DEF t, j
<1> QED BY <1>1, <1>2, <1>3, <1>4, Zenon

LEMMA Timer1Counts ==
  ASSUME NEW r \in Registers
  PROVE  LET t == Timer1(r)
             j == Span(r.mode1, r.tl1, r.th1)
             runs == r.run1 /\ r.mode1 # 3
         IN  /\ t = [r EXCEPT !.tl1 = t.tl1, !.th1 = t.th1, !.tf1 = t.tf1]
             /\ t.tl1 \in Byte /\ t.th1 \in Byte /\ t.tf1 \in BOOLEAN
             /\ t.tf1 <=> r.tf1 \/ (r.mode0 # 3 /\ runs /\ j = 1)
             /\ Span(r.mode1, t.tl1, t.th1) =
                  IF runs THEN Following(j, Period(r.mode1, r.th1)) ELSE j
<1> DEFINE t == Timer1(r)
           j == Span(r.mode1, r.tl1, r.th1)
           c == Counted(r.mode1, r.tl1, r.th1)
           f == r.tf1 \/ (c.over /\ r.mode0 # 3)
<1>1. r.tl1 \in Byte /\ r.th1 \in Byte /\ r.tf1 \in BOOLEAN /\ r.mode1 \in 0..3
  BY DEF Registers
<1>2. CASE ~r.run1
  <2>1. t = r
    BY <1>2 DEF Timer1
  <2> HIDE DEF t
  <2>2. t = [r EXCEPT !.tl1 = t.tl1, !.th1 = t.th1, !.tf1 = t.tf1]
    BY <2>1 DEF Registers
  <2> QED BY <1>1, <1>2, <2>1, <2>2 DEF t
<1>3. ASSUME r.run1 PROVE t = [r EXCEPT !.tl1 = c.tl, !.th1 = c.th, !.tf1 = f]
  BY <1>3 DEF Timer1
<1>4. CASE r.run1 /\ r.mode1 = 3
  <2>1. c.tl = r.tl1 /\ c.th = r.th1 /\ c.over = FALSE
    BY <1>4 DEF Counted
  <2>2. f \in BOOLEAN /\ (f <=> r.tf1)
    BY <1>1, <2>1
  <2> HIDE DEF t, c, f
  <2>3. t.tl1 = c.tl /\ t.th1 = c.th /\ t.tf1 = f
    BY <1>3, <1>4 DEF Registers
  <2>4. t = [r EXCEPT !.tl1 = t.tl1, !.th1 = t.th1, !.tf1 = t.tf1]
    BY <1>3, <1>4, <2>3 DEF Registers
  <2>5. t.tf1 \in BOOLEAN /\ (t.tf1 <=> r.tf1)
    BY <2>2, <2>3
  <2> QED BY <1>1, <1>4, <2>1, <2>3, <2>4, <2>5 DEF t
<1>5. CASE r.run1 /\ r.mode1 # 3
  <2>1. /\ c.tl \in Byte /\ c.th \in Byte /\ c.over \in BOOLEAN /\ (c.over <=> j = 1)
        /\ Span(r.mode1, c.tl, c.th) = Following(j, Period(r.mode1, r.th1))
    BY <1>1, <1>5, PairCounts DEF Following
  <2>2. f \in BOOLEAN /\ (f <=> r.tf1 \/ (r.mode0 # 3 /\ j = 1))
    BY <1>1, <2>1
  <2> HIDE DEF t, c, f, j
  <2>3. t.tl1 = c.tl /\ t.th1 = c.th /\ t.tf1 = f
    BY <1>3, <1>5 DEF Registers
  <2>4. t = [r EXCEPT !.tl1 = t.tl1, !.th1 = t.th1, !.tf1 = t.tf1]
    BY <1>3, <1>5, <2>3 DEF Registers
  <2>5. t.tf1 \in BOOLEAN /\ (t.tf1 <=> r.tf1 \/ (r.mode0 # 3 /\ j = 1))
    BY <2>2, <2>3
  <2> QED BY <1>1, <1>5, <2>1, <2>3, <2>4, <2>5 DEF t, j
<1> QED BY <1>2, <1>4, <1>5, Zenon

-----------------------------------------------------------------------------
(* A tick of both.                                                         *)

Counters == {"T0", "T1", "TH0"}

Due(r) == {c \in Running(r) : Spans(r)[c] = 1}

LEMMA SpansOf ==
  ASSUME NEW r
  PROVE  /\ Spans(r) = [c \in Counters |-> Spans(r)[c]]
         /\ Spans(r)["T0"] = Span(r.mode0, r.tl0, r.th0)
         /\ Spans(r)["T1"] = Span(r.mode1, r.tl1, r.th1)
         /\ Spans(r)["TH0"] = IF r.mode0 = 3 THEN ByteBase - r.th0 ELSE 0
         /\ Periods(r)["T0"] = Period(r.mode0, r.th0)
         /\ Periods(r)["T1"] = Period(r.mode1, r.th1)
         /\ Periods(r)["TH0"] = ByteBase
BY DEF Spans, Periods, Counters

LEMMA RunningOf ==
  ASSUME NEW r
  PROVE  /\ Running(r) \subseteq Counters
         /\ "T0" \in Running(r) <=> r.run0
         /\ "T1" \in Running(r) <=> r.run1 /\ r.mode1 # 3
         /\ "TH0" \in Running(r) <=> r.run1 /\ r.mode0 = 3
BY DEF Running, Counters

LEMMA TickKeeps ==
  ASSUME NEW r \in Registers
  PROVE  LET g == TimerTick(r).regs
             b == TimerTick(r).bit
         IN  /\ g \in Registers /\ b \in BOOLEAN
             /\ g.mode0 = r.mode0 /\ ~(g.tf1 /\ b)
             /\ g.tf0 <=> r.tf0 \/ "T0" \in Due(r)
             /\ g.tf1 \/ b <=> r.tf1 \/ Tf1Owner(r) \in Due(r)
             /\ \A c \in Counters :
                  Spans(g)[c] = IF c \in Running(r) THEN Following(Spans(r)[c], Periods(r)[c])
                                ELSE Spans(r)[c]
<1> DEFINE t == Timer0(r)
           u == Timer1(t)
           b == u.run1 /\ u.tf1 /\ u.sm1
           f == u.tf1 /\ ~b
           g == [u EXCEPT !.tf1 = f]
           j == Span(r.mode0, r.tl0, r.th0)
           k == Span(r.mode1, r.tl1, r.th1)
<1>1. TimerTick(r).regs = g /\ TimerTick(r).bit = b
  BY DEF TimerTick
<1>2. /\ t = [r EXCEPT !.tl0 = t.tl0, !.th0 = t.th0, !.tf0 = t.tf0, !.tf1 = t.tf1]
      /\ t.tl0 \in Byte /\ t.th0 \in Byte /\ t.tf0 \in BOOLEAN /\ t.tf1 \in BOOLEAN
      /\ t.tf0 <=> r.tf0 \/ (r.run0 /\ j = 1)
      /\ t.tf1 <=> r.tf1 \/ (r.mode0 = 3 /\ r.run1 /\ ByteBase - r.th0 = 1)
      /\ Span(r.mode0, t.tl0, t.th0) =
           IF r.run0 THEN Following(j, Period(r.mode0, r.th0)) ELSE j
      /\ r.mode0 = 3 =>
           ByteBase - t.th0 = IF r.run1 THEN Following(ByteBase - r.th0, ByteBase)
                              ELSE ByteBase - r.th0
  BY Timer0Counts
<1> HIDE DEF t
<1>3. /\ t \in Registers /\ t.tl1 = r.tl1 /\ t.th1 = r.th1 /\ t.mode0 = r.mode0
      /\ t.mode1 = r.mode1 /\ t.run0 = r.run0 /\ t.run1 = r.run1 /\ t.sm1 = r.sm1
  BY <1>2 DEF Registers
<1>4. /\ u = [t EXCEPT !.tl1 = u.tl1, !.th1 = u.th1, !.tf1 = u.tf1]
      /\ u.tl1 \in Byte /\ u.th1 \in Byte /\ u.tf1 \in BOOLEAN
      /\ u.tf1 <=> t.tf1 \/ (r.mode0 # 3 /\ r.run1 /\ r.mode1 # 3 /\ k = 1)
      /\ Span(r.mode1, u.tl1, u.th1) =
           IF r.run1 /\ r.mode1 # 3 THEN Following(k, Period(r.mode1, r.th1)) ELSE k
  BY <1>3, Timer1Counts, ZenonT(40)
<1> HIDE DEF u
<1>5. /\ u \in Registers /\ u.tl0 = t.tl0 /\ u.th0 = t.th0 /\ u.tf0 = t.tf0
      /\ u.mode0 = r.mode0 /\ u.mode1 = r.mode1
  BY <1>3, <1>4 DEF Registers
<1>6. b \in BOOLEAN /\ f \in BOOLEAN /\ ~(f /\ b) /\ (f \/ b <=> u.tf1)
  BY <1>4
<1> HIDE DEF b, f
<1>7. /\ g \in Registers /\ g.tf1 = f /\ g.tf0 = t.tf0 /\ g.mode0 = r.mode0
      /\ g.mode1 = r.mode1 /\ g.tl0 = t.tl0 /\ g.th0 = t.th0 /\ g.tl1 = u.tl1 /\ g.th1 = u.th1
  BY <1>5, <1>6 DEF Registers
<1> HIDE DEF g
<1>8. /\ "T0" \in Due(r) <=> r.run0 /\ j = 1
      /\ "T1" \in Due(r) <=> r.run1 /\ r.mode1 # 3 /\ k = 1
      /\ "TH0" \in Due(r) <=> r.run1 /\ r.mode0 = 3 /\ ByteBase - r.th0 = 1
  <2> HIDE DEF j, k
  <2> QED BY SpansOf, RunningOf DEF Due, j, k
<1>9. g.tf0 <=> r.tf0 \/ "T0" \in Due(r)
  BY <1>2, <1>7, <1>8
<1>10. g.tf1 \/ b <=> r.tf1 \/ Tf1Owner(r) \in Due(r)
  <2> HIDE DEF j, k
  <2>1. CASE r.mode0 = 3
    <3>1. Tf1Owner(r) = "TH0"
      BY <2>1 DEF Tf1Owner
    <3>2. u.tf1 <=> r.tf1 \/ "TH0" \in Due(r)
      BY <1>2, <1>4, <1>8, <2>1
    <3> QED BY <1>6, <1>7, <3>1, <3>2
  <2>2. CASE r.mode0 # 3
    <3>1. Tf1Owner(r) = "T1"
      BY <2>2 DEF Tf1Owner
    <3>2. u.tf1 <=> r.tf1 \/ "T1" \in Due(r)
      BY <1>2, <1>4, <1>8, <2>2
    <3> QED BY <1>6, <1>7, <3>1, <3>2
  <2> QED BY <2>1, <2>2
<1> HIDE DEF j, k
<1>11. Spans(g)["T0"] = IF "T0" \in Running(r) THEN Following(Spans(r)["T0"], Periods(r)["T0"])
                        ELSE Spans(r)["T0"]
  <2>1. Spans(g)["T0"] = Span(r.mode0, t.tl0, t.th0)
    BY <1>7, SpansOf
  <2>2. Spans(r)["T0"] = j /\ Periods(r)["T0"] = Period(r.mode0, r.th0)
    BY SpansOf DEF j
  <2> QED BY <1>2, <2>1, <2>2, RunningOf
<1>12. Spans(g)["T1"] = IF "T1" \in Running(r) THEN Following(Spans(r)["T1"], Periods(r)["T1"])
                        ELSE Spans(r)["T1"]
  <2>1. Spans(g)["T1"] = Span(r.mode1, u.tl1, u.th1)
    BY <1>7, SpansOf
  <2>2. Spans(r)["T1"] = k /\ Periods(r)["T1"] = Period(r.mode1, r.th1)
    BY SpansOf DEF k
  <2> QED BY <1>4, <2>1, <2>2, RunningOf
<1>13. Spans(g)["TH0"] = IF "TH0" \in Running(r)
                         THEN Following(Spans(r)["TH0"], Periods(r)["TH0"])
                         ELSE Spans(r)["TH0"]
  <2>1. Spans(g)["TH0"] = IF r.mode0 = 3 THEN ByteBase - t.th0 ELSE 0
    BY <1>7, SpansOf
  <2>2. /\ Spans(r)["TH0"] = IF r.mode0 = 3 THEN ByteBase - r.th0 ELSE 0
        /\ Periods(r)["TH0"] = ByteBase
    BY SpansOf
  <2>3. "TH0" \in Running(r) <=> r.run1 /\ r.mode0 = 3
    BY RunningOf
  <2>4. CASE r.mode0 = 3
    BY <1>2, <2>1, <2>2, <2>3, <2>4
  <2>5. CASE r.mode0 # 3
    BY <2>1, <2>2, <2>3, <2>5
  <2> QED BY <2>4, <2>5
<1>14. \A c \in Counters :
         Spans(g)[c] = IF c \in Running(r) THEN Following(Spans(r)[c], Periods(r)[c])
                       ELSE Spans(r)[c]
  BY <1>11, <1>12, <1>13 DEF Counters
<1>15. ~(g.tf1 /\ b)
  BY <1>6, <1>7
<1> QED BY <1>1, <1>6, <1>7, <1>9, <1>10, <1>14, <1>15

-----------------------------------------------------------------------------
(***************************************************************************)
(* The invariant: the ticks each counter has to go are what its registers  *)
(* say, whatever was written, stopped, started or reloaded since.          *)
(***************************************************************************)
TimersInv ==
  /\ reg \in Registers /\ clocked \in BOOLEAN
  /\ soft \subseteq {"TF0", "TF1"} /\ due \subseteq Counters
  /\ left = Spans(reg)

(***************************************************************************)
(* The flags a cycle may raise, and no other, are those its instruction    *)
(* set and those of the counters it brings to their end.                   *)
(***************************************************************************)
FlagsOnTime ==
  /\ reg'.tf0 <=> "TF0" \in soft' \/ "T0" \in due'
  /\ reg'.tf1 \/ clocked' <=> "TF1" \in soft' \/ Tf1Owner(reg') \in due'
  /\ ~(reg'.tf1 /\ clocked')

LEMMA CycleKeeps ==
  ASSUME NEW r \in Registers, Cycle(r, Spans(r))
  PROVE  TimersInv' /\ FlagsOnTime
<1> DEFINE g == TimerTick(r).regs
           b == TimerTick(r).bit
<1>1. /\ reg' = g /\ clocked' = b /\ soft' = Flags(r) /\ due' = Due(r)
      /\ left' = [c \in DOMAIN Spans(r) |-> IF c \in Due(r) THEN Periods(r)[c]
                                            ELSE IF c \in Running(r) THEN Spans(r)[c] - 1
                                            ELSE Spans(r)[c]]
  BY DEF Cycle, Due
<1>2. /\ g \in Registers /\ b \in BOOLEAN
      /\ g.mode0 = r.mode0 /\ ~(g.tf1 /\ b)
      /\ g.tf0 <=> r.tf0 \/ "T0" \in Due(r)
      /\ g.tf1 \/ b <=> r.tf1 \/ Tf1Owner(r) \in Due(r)
      /\ \A c \in Counters :
           Spans(g)[c] = IF c \in Running(r) THEN Following(Spans(r)[c], Periods(r)[c])
                         ELSE Spans(r)[c]
  BY TickKeeps
<1> HIDE DEF g, b
<1>3. DOMAIN Spans(r) = Counters
  BY SpansOf
<1>4. left' = [c \in Counters |-> Spans(g)[c]]
  BY <1>1, <1>2, <1>3 DEF Following, Due
<1>5. left' = Spans(reg')
  BY <1>1, <1>4, SpansOf
<1>6. Due(r) \subseteq Counters
  BY RunningOf DEF Due
<1>7. /\ Flags(r) \subseteq {"TF0", "TF1"}
      /\ "TF0" \in Flags(r) <=> r.tf0
      /\ "TF1" \in Flags(r) <=> r.tf1
  BY DEF Flags
<1>8. Tf1Owner(g) = Tf1Owner(r)
  BY <1>2 DEF Tf1Owner
<1>9. TimersInv'
  BY <1>1, <1>2, <1>5, <1>6, <1>7 DEF TimersInv
<1>10. FlagsOnTime
  BY <1>1, <1>2, <1>7, <1>8 DEF FlagsOnTime
<1> QED BY <1>9, <1>10

LEMMA ZeroRegisters == Zero \in Registers
BY Sizes DEF Zero, Registers, Byte

LEMMA TimersInit == Init => TimersInv
BY ZeroRegisters DEF Init, TimersInv

LEMMA SpansKept ==        \* the flags, run states and SM1 are not counted
  ASSUME NEW r \in Registers, NEW q, r.tl0 = q.tl0, r.th0 = q.th0, r.tl1 = q.tl1,
         r.th1 = q.th1, r.mode0 = q.mode0, r.mode1 = q.mode1
  PROVE  Spans(r) = Spans(q)
BY DEF Spans

LEMMA StepKeeps ==
  ASSUME TimersInv, Step
  PROVE  TimersInv' /\ FlagsOnTime
<1>1. reg \in Registers /\ left = Spans(reg)
  BY DEF TimersInv
<1>2. CASE Count
  BY <1>1, <1>2, CycleKeeps DEF Count
<1>3. ASSUME NEW v \in Byte, WriteTL0(v) PROVE TimersInv' /\ FlagsOnTime
  <2>1. [reg EXCEPT !.tl0 = v] \in Registers
    BY <1>1 DEF Registers
  <2> QED BY <1>3, <2>1, CycleKeeps DEF WriteTL0
<1>4. ASSUME NEW v \in Byte, WriteTH0(v) PROVE TimersInv' /\ FlagsOnTime
  <2>1. [reg EXCEPT !.th0 = v] \in Registers
    BY <1>1 DEF Registers
  <2> QED BY <1>4, <2>1, CycleKeeps DEF WriteTH0
<1>5. ASSUME NEW v \in Byte, WriteTL1(v) PROVE TimersInv' /\ FlagsOnTime
  <2>1. [reg EXCEPT !.tl1 = v] \in Registers
    BY <1>1 DEF Registers
  <2> QED BY <1>5, <2>1, CycleKeeps DEF WriteTL1
<1>6. ASSUME NEW v \in Byte, WriteTH1(v) PROVE TimersInv' /\ FlagsOnTime
  <2>1. [reg EXCEPT !.th1 = v] \in Registers
    BY <1>1 DEF Registers
  <2> QED BY <1>6, <2>1, CycleKeeps DEF WriteTH1
<1>7. ASSUME NEW t \in TmodValues, WriteTMOD(t) PROVE TimersInv' /\ FlagsOnTime
  <2> DEFINE r == [reg EXCEPT !.mode0 = t[1], !.mode1 = t[2], !.run0 = t[3], !.run1 = t[4]]
  <2>1. t[1] \in 0..3 /\ t[2] \in 0..3 /\ t[3] \in BOOLEAN /\ t[4] \in BOOLEAN
    <3>1. t \in (0..3) \X (0..3) \X BOOLEAN \X BOOLEAN
      BY TimersAssumption
    <3> QED BY <3>1
  <2>2. r \in Registers
    BY <1>1, <2>1 DEF Registers
  <2> QED BY <1>7, <2>2, CycleKeeps DEF WriteTMOD
<1>8. ASSUME NEW f0 \in BOOLEAN, NEW f1 \in BOOLEAN, NEW r0 \in BOOLEAN, NEW r1 \in BOOLEAN,
             WriteTCON(f0, f1, r0, r1)
      PROVE  TimersInv' /\ FlagsOnTime
  <2> DEFINE r == [reg EXCEPT !.tf0 = f0, !.tf1 = f1, !.run0 = r0, !.run1 = r1]
  <2>1. r \in Registers /\ Spans(r) = left
    BY <1>1, SpansKept DEF Registers
  <2> QED BY <1>8, <2>1, CycleKeeps DEF WriteTCON
<1>9. ASSUME NEW f \in {"tf0", "tf1"}, EnterInterrupt(f) PROVE TimersInv' /\ FlagsOnTime
  <2> DEFINE r == [reg EXCEPT ![f] = FALSE]
  <2>1. CASE f = "tf0"
    <3>1. r = [reg EXCEPT !.tf0 = FALSE]
      BY <2>1
    <3>2. r \in Registers /\ Spans(r) = left
      BY <1>1, <3>1, SpansKept DEF Registers
    <3> QED BY <1>9, <3>2, CycleKeeps DEF EnterInterrupt
  <2>2. CASE f = "tf1"
    <3>1. r = [reg EXCEPT !.tf1 = FALSE]
      BY <2>2
    <3>2. r \in Registers /\ Spans(r) = left
      BY <1>1, <3>1, SpansKept DEF Registers
    <3> QED BY <1>9, <3>2, CycleKeeps DEF EnterInterrupt
  <2> QED BY <2>1, <2>2
<1>10. ASSUME NEW b \in BOOLEAN, WriteSCON(b) PROVE TimersInv' /\ FlagsOnTime
  <2> DEFINE r == [reg EXCEPT !.sm1 = b]
  <2>1. r \in Registers /\ Spans(r) = left
    BY <1>1, SpansKept DEF Registers
  <2> QED BY <1>10, <2>1, CycleKeeps DEF WriteSCON
<1> QED BY <1>2, <1>3, <1>4, <1>5, <1>6, <1>7, <1>8, <1>9, <1>10 DEF Step

LEMMA ResetKeeps ==
  ASSUME Reset
  PROVE  TimersInv' /\ FlagsOnTime
<1>1. /\ reg' = Zero /\ clocked' = FALSE /\ soft' = {} /\ due' = {} /\ left' = Spans(Zero)
  BY DEF Reset
<1>2. reg'.tf0 = FALSE /\ reg'.tf1 = FALSE
  BY <1>1 DEF Zero
<1>3. FlagsOnTime
  BY <1>1, <1>2 DEF FlagsOnTime
<1> QED BY <1>1, <1>3, ZeroRegisters DEF TimersInv

LEMMA TimersNext ==
  ASSUME TimersInv, [Next]_vars
  PROVE  TimersInv' /\ [FlagsOnTime]_vars
<1>1. CASE Step
  BY <1>1, StepKeeps
<1>2. CASE Reset
  BY <1>2, ResetKeeps
<1>3. CASE UNCHANGED vars
  BY <1>3 DEF vars, TimersInv
<1> QED BY <1>1, <1>2, <1>3 DEF Next

-----------------------------------------------------------------------------
(***************************************************************************)
(* The ticks a counter has to go are always those its registers say.       *)
(***************************************************************************)
THEOREM TimersInvariant == Spec => []TimersInv
<1>1. TimersInv /\ [Next]_vars => TimersInv'
  BY TimersNext
<1> QED BY <1>1, TimersInit, PTL DEF Spec

(***************************************************************************)
(* Registers stay bytes and flags, and no count is ever run out or longer  *)
(* than the longest mode.                                                  *)
(***************************************************************************)
THEOREM TimersTypes == Spec => []TypeOK
<1>1. ASSUME TimersInv PROVE TypeOK
  <2>1. reg.mode0 \in 0..3 /\ reg.mode1 \in 0..3 /\ reg.tl0 \in Byte /\ reg.th0 \in Byte
        /\ reg.tl1 \in Byte /\ reg.th1 \in Byte
    BY <1>1 DEF TimersInv, Registers
  <2>2. /\ left = [c \in Counters |-> Spans(reg)[c]]
        /\ Spans(reg)["T0"] = Span(reg.mode0, reg.tl0, reg.th0)
        /\ Spans(reg)["T1"] = Span(reg.mode1, reg.tl1, reg.th1)
        /\ Spans(reg)["TH0"] = IF reg.mode0 = 3 THEN ByteBase - reg.th0 ELSE 0
    BY <1>1, SpansOf DEF TimersInv
  <2>3. /\ Spans(reg)["T0"] \in 0..ByteBase * ByteBase
        /\ Spans(reg)["T1"] \in 0..ByteBase * ByteBase
    BY <2>1, <2>2, SpanBounds
  <2>4. Spans(reg)["TH0"] \in 0..ByteBase * ByteBase
    <3>1. 3 \in 0..3
      OBVIOUS
    <3>2. Span(3, reg.th0, reg.th0) \in 0..ByteBase * ByteBase
      BY <2>1, <3>1, SpanBounds
    <3>3. Span(3, reg.th0, reg.th0) = ByteBase - reg.th0
      BY DEF Span
    <3>4. ByteBase * ByteBase \in Nat
      BY Sizes
    <3> QED BY <2>2, <3>2, <3>3, <3>4
  <2>5. left \in [Counters -> 0..ByteBase * ByteBase]
    BY <2>2, <2>3, <2>4 DEF Counters
  <2> QED BY <1>1, <2>5 DEF TimersInv, TypeOK, Counters
<1> QED BY <1>1, TimersInvariant, PTL

(***************************************************************************)
(* TF0 rises exactly on the tick timer 0's mode calls for.                 *)
(***************************************************************************)
THEOREM Timer0Timely == Spec => Timer0OnTime
<1>1. TimersInv /\ [Next]_vars => [reg'.tf0 <=> "TF0" \in soft' \/ "T0" \in due']_vars
  BY TimersNext DEF FlagsOnTime
<1> QED BY <1>1, TimersInvariant, PTL DEF Spec, Timer0OnTime

(***************************************************************************)
(* TF1 rises, or becomes a bit of the serial port, exactly on the tick its *)
(* owner calls for.                                                        *)
(***************************************************************************)
THEOREM Timer1Timely == Spec => Timer1OnTime
<1>1. TimersInv /\ [Next]_vars =>
        [/\ reg'.tf1 \/ clocked' <=> "TF1" \in soft' \/ Tf1Owner(reg') \in due'
         /\ ~(reg'.tf1 /\ clocked')]_vars
  BY TimersNext DEF FlagsOnTime
<1> QED BY <1>1, TimersInvariant, PTL DEF Spec, Timer1OnTime

=============================================================================
