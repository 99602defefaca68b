---------------------------- MODULE DeviceProofs ----------------------------
(***************************************************************************)
(* What holds of the board for any devices, any size of the hook table and *)
(* any order of calls, hooks and ticks.                                    *)
(***************************************************************************)
EXTENDS
  Hc6800Es, DigitDisplay, Iap, Pwm, Hd44780, Ds1302, Xpt2046, Numbers, SequenceTheorems, TLAPS

Places == 1..Len(hooks)

TableOK ==
  /\ hooks \in Seq(Devices \cup {Other})
  /\ turn \in 0..(Len(hooks) + 1)
  /\ board \in [there : SUBSET Devices, ticks : SUBSET Timed]
  /\ steps \in [Devices -> Nat] /\ due \in [Devices -> Nat]

(* The hooks of timed devices are in the table once each, and those of     *)
(* every device that exists are there.                                     *)
HookedOnce ==
  /\ board.there \cap Timed \subseteq board.ticks
  /\ \A d \in board.ticks : \E i \in Places : hooks[i] = d
  /\ \A i \in Places : hooks[i] \in board.ticks \cup {Other}
  /\ \A i, j \in Places : hooks[i] = hooks[j] /\ hooks[i] # Other => i = j

(***************************************************************************)
(* Within a tick a device is behind by one exactly while its hook is still *)
(* to run.                                                                 *)
(***************************************************************************)
InTurn ==
  \A d \in board.there \cap Timed : \A i \in Places :
    hooks[i] = d => due[d] = steps[d] + (IF turn > 0 /\ turn <= i THEN 1 ELSE 0)

BoardInv == TableOK /\ HookedOnce /\ InTurn

LEMMA BoardInvInit == BoardInit => BoardInv
BY DEF BoardInit, BoardInv, TableOK, HookedOnce, InTurn, Places, Devices

LEMMA OtherIsNoDevice == Other \notin Devices /\ Timed \subseteq Devices /\ Fallible \subseteq Timed
BY BoardAssumption DEF Devices, Other

(***************************************************************************)
(* need_tick adds a hook that is not there, at the end, and no other.      *)
(***************************************************************************)
LEMMA NeedTickOnce ==
  ASSUME BoardInv, NEW d \in Timed, Hooked(d)
  PROVE  LET h == NeedTick(d)
         IN  /\ h \in Seq(Devices \cup {Other})
             /\ Len(h) >= Len(hooks)
             /\ \A i \in Places : h[i] = hooks[i]
             /\ \E i \in 1..Len(h) : h[i] = d
             /\ \A i \in 1..Len(h) : h[i] \in board.ticks \cup {d, Other}
             /\ \A i, j \in 1..Len(h) : h[i] = h[j] /\ h[i] # Other => i = j
<1> USE DEF BoardInv, TableOK, HookedOnce, Places
<1> d \in Devices /\ d # Other
  BY OtherIsNoDevice
<1>1. CASE d \in board.ticks
  BY <1>1 DEF NeedTick
<1>2. CASE d \notin board.ticks
  <2> DEFINE n == Len(hooks)
             h == Append(hooks, d)
  <2>1. NeedTick(d) = h
    <3>0. n \in Nat
      OBVIOUS
    <3>1. MaxHooks \in Nat
      BY BoardAssumption, Zenon
    <3>2. n < MaxHooks
      BY <1>2, Zenon DEF Hooked
    <3>3. ~ (n >= MaxHooks)
      BY <3>0, <3>1, <3>2
    <3> QED BY <1>2, <3>3 DEF NeedTick
  <2>2. /\ h \in Seq(Devices \cup {Other}) /\ n \in Nat /\ Len(h) = n + 1
        /\ h[n + 1] = d /\ \A i \in 1..n : h[i] = hooks[i]
    OBVIOUS
  <2>3. \A i \in 1..n : hooks[i] # d
    BY <1>2
  <2> HIDE DEF h
  <2>4. 1..(n + 1) = (1..n) \cup {n + 1}
    BY <2>2
  <2>5. \A i, j \in 1..(n + 1) : h[i] = h[j] /\ h[i] # Other => i = j
    BY <2>2, <2>3, <2>4
  <2>6. \A i \in 1..(n + 1) : h[i] \in board.ticks \cup {d, Other}
    BY <2>2, <2>4
  <2>7. n + 1 >= n /\ n + 1 \in 1..(n + 1)
    BY <2>2
  <2> QED BY <2>1, <2>2, <2>5, <2>6, <2>7
<1> QED BY <1>1, <1>2

(***************************************************************************)
(* A device that has just come into being, behind its hook.                *)
(***************************************************************************)
LEMMA EnablePreserves ==
  ASSUME BoardInv, NEW d \in Devices, Enable(d)
  PROVE  BoardInv'
<1> USE DEF BoardInv, TableOK, Places
<1>1. Callable /\ d \notin board.there /\ turn' = turn /\ turn \in 0..Len(hooks)
  BY DEF Enable, Callable
<1>2. /\ steps' = [steps EXCEPT ![d] = 0]
      /\ due' = [due EXCEPT ![d] = IF turn > 0 /\ \E i \in turn..Len(hooks') : hooks'[i] = d
                                   THEN 1 ELSE 0]
      /\ board' \in [there : SUBSET Devices, ticks : SUBSET Timed]
      /\ board'.there = board.there \cup {d}
      /\ board'.ticks = IF d \in Timed THEN board.ticks \cup {d} ELSE board.ticks
  BY DEF Enable, Create
<1>3. steps' \in [Devices -> Nat] /\ due' \in [Devices -> Nat]
  BY <1>2
<1>4. CASE d \in Timed
  <2>1. /\ hooks' \in Seq(Devices \cup {Other})
        /\ Len(hooks') >= Len(hooks)
        /\ \A i \in Places : hooks'[i] = hooks[i]
        /\ \E i \in Places' : hooks'[i] = d
        /\ \A i \in Places' : hooks'[i] \in board.ticks \cup {d, Other}
        /\ \A i, j \in Places' : hooks'[i] = hooks'[j] /\ hooks'[i] # Other => i = j
    BY <1>4, NeedTickOnce, SMTT(20) DEF Enable
  <2> HIDE DEF BoardInv
  <2>2. TableOK'
    BY <1>1, <1>2, <1>3, <2>1
  <2>3. HookedOnce'
    <3>1. board'.there \cap Timed \subseteq board'.ticks
      BY <1>2, <1>4 DEF HookedOnce, BoardInv
    <3>2. ASSUME NEW e \in board'.ticks PROVE \E i \in Places' : hooks'[i] = e
      <4>1. CASE e = d
        BY <2>1, <4>1
      <4>2. CASE e # d
        <5>1. PICK i \in Places : hooks[i] = e
          BY <1>2, <1>4, <4>2 DEF HookedOnce, BoardInv
        <5>2. i \in Places' /\ hooks'[i] = e
          BY <2>1, <5>1
        <5> QED BY <5>2
      <4> QED BY <4>1, <4>2
    <3>3. board'.ticks = board.ticks \cup {d}
      BY <1>2, <1>4
    <3> QED BY <2>1, <3>1, <3>2, <3>3 DEF HookedOnce
  <2>4. InTurn'
    <3> SUFFICES ASSUME NEW e \in board'.there \cap Timed, NEW i \in Places', hooks'[i] = e
                 PROVE  due'[e] = steps'[e] + (IF turn > 0 /\ turn <= i THEN 1 ELSE 0)
      BY <1>1 DEF InTurn
    <3>1. e # Other /\ e \in Devices
      BY OtherIsNoDevice
    <3>2. CASE e = d
      <4>1. \A j \in Places' : hooks'[j] = d => j = i
        BY <2>1, <3>1, <3>2
      <4>2. turn > 0 => ((\E j \in turn..Len(hooks') : hooks'[j] = d) <=> turn <= i)
        BY <1>1, <2>1, <3>2, <4>1
      <4> QED BY <1>2, <3>1, <3>2, <4>2 DEF BoardInv
    <3>3. CASE e # d
      <4>1. e \in board.there /\ due'[e] = due[e] /\ steps'[e] = steps[e]
        BY <1>2, <3>1, <3>3 DEF BoardInv
      <4>2. PICK j \in Places : hooks[j] = e
        BY <4>1 DEF BoardInv, HookedOnce
      <4>3. i = j
        BY <2>1, <3>1, <4>2
      <4> QED BY <4>1, <4>2, <4>3 DEF BoardInv, InTurn
    <3> QED BY <3>2, <3>3
  <2> QED BY <2>2, <2>3, <2>4 DEF BoardInv
<1>5. CASE d \notin Timed
  <2>1. hooks' = hooks
    BY <1>5 DEF Enable
  <2>2. TableOK' /\ HookedOnce'
    BY <1>1, <1>2, <1>3, <1>5, <2>1 DEF HookedOnce
  <2>3. InTurn'
    BY <1>1, <1>2, <1>5, <2>1, OtherIsNoDevice DEF InTurn
  <2> QED BY <2>2, <2>3
<1> QED BY <1>4, <1>5

LEMMA EnableHalfPreserves ==
  ASSUME BoardInv, NEW d \in Devices, EnableHalf(d)
  PROVE  BoardInv'
<1> USE DEF Places
<1>1. /\ d \in Timed /\ d \notin board.there /\ Hooked(d) /\ hooks' = NeedTick(d)
      /\ turn' = turn /\ steps' = steps /\ due' = due
      /\ board'.there = board.there /\ board'.ticks = board.ticks \cup {d}
      /\ board' \in [there : SUBSET Devices, ticks : SUBSET Timed]
  BY OtherIsNoDevice DEF EnableHalf, BoardInv, TableOK
<1>2. /\ hooks' \in Seq(Devices \cup {Other})
      /\ Len(hooks') >= Len(hooks)
      /\ \A i \in Places : hooks'[i] = hooks[i]
      /\ \E i \in Places' : hooks'[i] = d
      /\ \A i \in Places' : hooks'[i] \in board.ticks \cup {d, Other}
      /\ \A i, j \in Places' : hooks'[i] = hooks'[j] /\ hooks'[i] # Other => i = j
  BY <1>1, NeedTickOnce
<1>3. TableOK'
  BY <1>1, <1>2 DEF BoardInv, TableOK
<1>4. HookedOnce'
  <2>1. board'.there \cap Timed \subseteq board'.ticks
    BY <1>1 DEF BoardInv, HookedOnce
  <2>2. \A e \in board'.ticks : \E i \in Places' : hooks'[i] = e
    <3> SUFFICES ASSUME NEW e \in board'.ticks PROVE \E i \in Places' : hooks'[i] = e
      OBVIOUS
    <3>1. CASE e = d
      BY <1>2, <3>1
    <3>2. CASE e # d
      <4>1. PICK i \in Places : hooks[i] = e
        BY <1>1, <3>2 DEF BoardInv, HookedOnce
      <4>2. i \in Places' /\ hooks'[i] = e
        BY <1>2, <4>1 DEF BoardInv, TableOK
      <4> QED BY <4>2
    <3> QED BY <3>1, <3>2
  <2>3. \A i \in Places' : hooks'[i] \in board'.ticks \cup {Other}
    BY <1>1, <1>2
  <2> QED BY <1>2, <2>1, <2>2, <2>3 DEF HookedOnce
<1>5. InTurn'
  <2> SUFFICES ASSUME NEW e \in board.there \cap Timed, NEW i \in Places', hooks'[i] = e
               PROVE  due[e] = steps[e] + (IF turn > 0 /\ turn <= i THEN 1 ELSE 0)
    BY <1>1 DEF InTurn
  <2>1. PICK j \in Places : hooks[j] = e
    BY DEF BoardInv, HookedOnce
  <2>2. i = j
    <3>1. j \in Places' /\ hooks'[j] = e /\ e # Other
      BY <1>2, <2>1, OtherIsNoDevice DEF BoardInv, TableOK
    <3> QED BY <1>2, <3>1
  <2> QED BY <2>1, <2>2 DEF BoardInv, InTurn
<1> QED BY <1>3, <1>4, <1>5 DEF BoardInv

LEMMA OtherHooksPreserves ==
  ASSUME BoardInv, OtherHooks
  PROVE  BoardInv'
<1> DEFINE n == Len(hooks)
<1>1. /\ hooks' = Append(hooks, Other) /\ turn' = 0 /\ turn = 0
      /\ board' = board /\ steps' = steps /\ due' = due
  BY DEF OtherHooks
<1>2. /\ hooks' \in Seq(Devices \cup {Other}) /\ n \in Nat /\ Len(hooks') = n + 1
      /\ hooks'[n + 1] = Other /\ \A i \in 1..n : hooks'[i] = hooks[i]
  BY <1>1 DEF BoardInv, TableOK
<1>3. 1..(n + 1) = (1..n) \cup {n + 1}
  BY <1>2
<1>4. TableOK'
  BY <1>1, <1>2 DEF BoardInv, TableOK
<1>5. HookedOnce'
  <2>1. \A d \in board.ticks : \E i \in Places' : hooks'[i] = d
    BY <1>2, <1>3 DEF BoardInv, HookedOnce, Places
  <2>2. \A i \in Places' : hooks'[i] \in board.ticks \cup {Other}
    BY <1>2, <1>3 DEF BoardInv, HookedOnce, Places
  <2>3. \A i, j \in Places' : hooks'[i] = hooks'[j] /\ hooks'[i] # Other => i = j
    BY <1>2, <1>3 DEF BoardInv, HookedOnce, Places
  <2> QED BY <1>1, <2>1, <2>2, <2>3 DEF BoardInv, HookedOnce
<1>6. InTurn'
  BY <1>1, <1>2, <1>3, OtherIsNoDevice DEF BoardInv, InTurn, Places
<1> QED BY <1>4, <1>5, <1>6 DEF BoardInv

LEMMA RunHookPreserves ==
  ASSUME BoardInv, RunHook
  PROVE  BoardInv'
<1> DEFINE d == hooks[turn]
<1>1. /\ turn \in Places /\ turn' = turn + 1 /\ turn \in Nat /\ Len(hooks) \in Nat
      /\ hooks' = hooks /\ board' = board /\ due' = due
      /\ steps' = IF d \in board.there THEN [steps EXCEPT ![d] = @ + 1] ELSE steps
  BY DEF RunHook, BoardInv, TableOK, Places
<1>2. TableOK'
  BY <1>1 DEF BoardInv, TableOK, Places
<1>3. HookedOnce'
  BY <1>1 DEF BoardInv, HookedOnce, Places
<1>4. InTurn'
  <2> SUFFICES ASSUME NEW e \in board.there \cap Timed, NEW i \in Places, hooks[i] = e
               PROVE  due[e] = steps'[e] + (IF turn + 1 > 0 /\ turn + 1 <= i THEN 1 ELSE 0)
    BY <1>1 DEF InTurn, Places
  <2>1. due[e] = steps[e] + (IF turn > 0 /\ turn <= i THEN 1 ELSE 0)
    BY DEF BoardInv, InTurn
  <2>2. e # Other /\ e \in Devices /\ steps[e] \in Nat /\ i \in Nat
    BY OtherIsNoDevice DEF BoardInv, TableOK, Places
  <2>3. CASE i = turn
    <3>1. steps'[e] = steps[e] + 1
      BY <1>1, <2>2, <2>3 DEF BoardInv, TableOK
    <3> QED BY <1>1, <2>1, <2>2, <2>3, <3>1 DEF Places
  <2>4. CASE i # turn
    <3>1. d # e
      BY <1>1, <2>2, <2>4 DEF BoardInv, HookedOnce
    <3>2. steps'[e] = steps[e]
      BY <1>1, <2>2, <3>1 DEF BoardInv, TableOK
    <3> QED BY <1>1, <2>1, <2>2, <2>4, <3>2 DEF Places
  <2> QED BY <2>3, <2>4
<1> QED BY <1>2, <1>3, <1>4 DEF BoardInv

LEMMA StartTickPreserves ==
  ASSUME BoardInv, StartTick
  PROVE  BoardInv'
<1>1. /\ turn = 0 /\ turn' = 1 /\ hooks' = hooks /\ board' = board /\ steps' = steps
      /\ due' = [d \in Devices |-> IF d \in board.there THEN due[d] + 1 ELSE due[d]]
  BY DEF StartTick
<1>2. TableOK' /\ HookedOnce'
  BY <1>1 DEF BoardInv, TableOK, HookedOnce, Places
<1>3. InTurn'
  <2> SUFFICES ASSUME NEW e \in board.there \cap Timed, NEW i \in Places, hooks[i] = e
               PROVE  due'[e] = steps[e] + 1
    BY <1>1 DEF InTurn, Places
  <2>1. due[e] = steps[e]
    BY <1>1, OtherIsNoDevice DEF BoardInv, InTurn, TableOK
  <2> QED BY <1>1, <2>1, OtherIsNoDevice
<1> QED BY <1>2, <1>3 DEF BoardInv

LEMMA BoardResetPreserves ==
  ASSUME BoardInv, BoardReset
  PROVE  BoardInv'
<1> DEFINE over == StartOver \cap board.there
<1>1. /\ turn = 0 /\ turn' = 0 /\ hooks' = hooks /\ board' = board
      /\ steps' = [d \in Devices |-> IF d \in over THEN 0 ELSE steps[d]]
      /\ due' = [d \in Devices |-> IF d \in over THEN 0 ELSE due[d]]
  BY DEF BoardReset
<1> HIDE DEF over
<1>2. TableOK' /\ HookedOnce'
  BY <1>1 DEF BoardInv, TableOK, HookedOnce, Places
<1>3. InTurn'
  BY <1>1, OtherIsNoDevice DEF BoardInv, InTurn, TableOK, Places
<1> QED BY <1>2, <1>3 DEF BoardInv

(***************************************************************************)
(* The hook table has each timed device's hook once, and within a tick a   *)
(* device is behind exactly while its hook is still to run.                *)
(***************************************************************************)
THEOREM BoardInvariant == BoardSpec => []BoardInv
<1>1. BoardInv /\ [BoardNext]_boardvars => BoardInv'
  <2> SUFFICES ASSUME BoardInv, [BoardNext]_boardvars PROVE BoardInv'
    OBVIOUS
  <2>1. CASE UNCHANGED boardvars
    BY <2>1 DEF boardvars, BoardInv, TableOK, HookedOnce, InTurn, Places
  <2>2. CASE \E d \in Devices : EnableAgain(d) \/ EnableBadPins(d) \/ EnableFull(d)
    BY <2>1, <2>2 DEF EnableAgain, EnableBadPins, EnableFull
  <2>3. CASE \E d \in Devices : Enable(d)
    BY <2>3, EnablePreserves
  <2>4. CASE \E d \in Devices : EnableHalf(d)
    BY <2>4, EnableHalfPreserves
  <2>5. CASE OtherHooks
    BY <2>5, OtherHooksPreserves
  <2>6. CASE StartTick
    BY <2>6, StartTickPreserves
  <2>7. CASE RunHook
    BY <2>7, RunHookPreserves
  <2>8. CASE EndTick
    BY <2>8 DEF EndTick, BoardInv, TableOK, HookedOnce, InTurn, Places
  <2>9. CASE BoardReset
    BY <2>9, BoardResetPreserves
  <2> QED BY <2>1, <2>2, <2>3, <2>4, <2>5, <2>6, <2>7, <2>8, <2>9 DEF BoardNext
<1> QED BY <1>1, BoardInvInit, PTL DEF BoardSpec

(***************************************************************************)
(* However often enabling a device failed or was repeated, between ticks   *)
(* it has been stepped exactly once for each tick it was there.            *)
(***************************************************************************)
THEOREM TickedOnce == BoardSpec => []DevicesTickOnce
<1>1. BoardInv => DevicesTickOnce
  <2> SUFFICES ASSUME BoardInv, turn = 0, NEW d \in Timed \cap board.there
               PROVE  steps[d] = due[d]
    BY DEF DevicesTickOnce
  <2>1. PICK i \in Places : hooks[i] = d
    BY DEF BoardInv, HookedOnce
  <2>2. steps[d] \in Nat
    BY OtherIsNoDevice DEF BoardInv, TableOK
  <2> QED BY <2>1, <2>2 DEF BoardInv, InTurn
<1> QED BY <1>1, BoardInvariant, PTL

-----------------------------------------------------------------------------
(***************************************************************************)
(* The digit display.  The latch agrees with an ideal one because it is    *)
(* open exactly while LE is high and then holds what is on P0; until it    *)
(* heard of LE after a software reset it is at least not open while LE is  *)
(* low.                                                                    *)
(***************************************************************************)
DisplayTypeOK ==
  /\ port \in [data : 0..255, le : {0, 1}, out : 0..7]
  /\ latch \in [transparent : BOOLEAN, output : 0..255]
  /\ digits \in [0..Digits - 1 -> 0..255]
  /\ glass \in [held : 0..255, heard : BOOLEAN, shown : [0..Digits - 1 -> 0..255]]

LatchInStep ==
  /\ latch.transparent => port.le = 1
  /\ glass.heard =>
       /\ port.le = 1 => latch.transparent /\ latch.output = port.data
       /\ latch.output = glass.held
       /\ digits = glass.shown

DisplayInv == DisplayTypeOK /\ LatchInStep

LEMMA ResampledType ==
  ASSUME NEW d \in [0..Digits - 1 -> 0..255], NEW l \in [transparent : BOOLEAN, output : 0..255], NEW p,
         p.out \in 0..7
  PROVE  Resampled(d, l, p) \in [0..Digits - 1 -> 0..255]
BY DEF Resampled

(***************************************************************************)
(* A write that the latch and the display hear, the latch first.           *)
(***************************************************************************)
LEMMA SeesKeeps ==
  ASSUME DisplayInv,
         NEW p \in [data : 0..255, le : {0, 1}, out : 0..7],
         NEW l \in [transparent : BOOLEAN, output : 0..255],
         NEW clear \in BOOLEAN, Sees(p, l, clear),
         l.transparent => p.le = 1,
         glass.heard \/ clear => (p.le = 1 => l.transparent /\ l.output = p.data),
         glass.heard => l.output = IF p.le = 1 \/ port.le = 1 THEN p.data ELSE glass.held,
         ~ glass.heard /\ clear => l.output = p.data
  PROVE  DisplayInv'
<1> DEFINE now == Resampled(digits, l, p)
           kept == IF p.le = 1 \/ port.le = 1 THEN p.data ELSE glass.held
           G == [held : 0..255, heard : BOOLEAN, shown : [0..Digits - 1 -> 0..255]]
<1>1. port' = p /\ latch' = l /\ digits' = now /\ glass' = Glass(p, clear, now)
  BY DEF Sees
<1>2. now \in [0..Digits - 1 -> 0..255]
  BY ResampledType DEF DisplayInv, DisplayTypeOK
<1>3. CASE glass.heard
  <2> DEFINE shown == IF p.out < Digits /\ kept # 0 THEN [glass.shown EXCEPT ![p.out] = kept] ELSE glass.shown
  <2>1. glass' = [glass EXCEPT !.held = kept, !.shown = shown]
    BY <1>1, <1>3 DEF Glass
  <2>2. kept = l.output
    BY <1>3
  <2>3. shown = now
    BY <1>3, <2>2 DEF Resampled, DisplayInv, LatchInStep
  <2>4. kept \in 0..255 /\ shown \in [0..Digits - 1 -> 0..255] /\ glass \in G
    BY <1>2, <2>2, <2>3 DEF DisplayInv, DisplayTypeOK
  <2> HIDE DEF kept, shown, now
  <2>5. glass' = [held |-> kept, heard |-> glass.heard, shown |-> shown]
    BY <2>1, <2>4
  <2>6. glass'.held = kept /\ glass'.heard = glass.heard /\ glass'.shown = shown /\ glass' \in G
    BY <2>4, <2>5
  <2> QED BY <1>1, <1>2, <1>3, <2>2, <2>3, <2>6, ZenonT(40) DEF DisplayInv, DisplayTypeOK, LatchInStep
<1>4. CASE ~ glass.heard /\ clear
  <2>1. glass' = [held |-> p.data, heard |-> TRUE, shown |-> now]
    BY <1>1, <1>4 DEF Glass
  <2> HIDE DEF now
  <2>2. glass' \in G /\ glass'.held = p.data /\ glass'.shown = now
    BY <1>2, <2>1
  <2>3. DisplayTypeOK'
    BY <1>1, <1>2, <2>2 DEF DisplayTypeOK
  <2>4. LatchInStep'
    BY <1>1, <1>4, <2>2 DEF LatchInStep
  <2> QED BY <2>3, <2>4 DEF DisplayInv
<1>5. CASE ~ glass.heard /\ ~ clear
  <2>1. glass' = glass
    BY <1>1, <1>5 DEF Glass
  <2> HIDE DEF now
  <2> QED BY <1>1, <1>2, <1>5, <2>1, ZenonT(40) DEF DisplayInv, DisplayTypeOK, LatchInStep
<1> QED BY <1>3, <1>4, <1>5

LEMMA PortFields ==
  ASSUME NEW D, NEW L, NEW O, NEW q \in [data : D, le : L, out : O], NEW d \in D, NEW e \in L, NEW o \in O
  PROVE  /\ [q EXCEPT !.data = d] = [data |-> d, le |-> q.le, out |-> q.out]
         /\ [q EXCEPT !.le = e] = [data |-> q.data, le |-> e, out |-> q.out]
         /\ [q EXCEPT !.out = o] = [data |-> q.data, le |-> q.le, out |-> o]
         /\ q.data \in D /\ q.le \in L /\ q.out \in O
OBVIOUS

(***************************************************************************)
(* Ports and latch as power and resets leave them.                         *)
(***************************************************************************)
LEMMA FreshFacts ==
  /\ High \in [data : 0..255, le : {0, 1}, out : 0..7] /\ High.le = 1 /\ High.data = 255
  /\ Fresh(High) \in [transparent : BOOLEAN, output : 0..255]
  /\ Fresh(High).transparent /\ Fresh(High).output = 255
  /\ Blank \in [0..Digits - 1 -> 0..255]
<1>1. Fresh(High) = [transparent |-> TRUE, output |-> 255]
  BY DEF Fresh, High
<1>2. Fresh(High) \in [transparent : BOOLEAN, output : 0..255]
  BY <1>1
<1>3. Fresh(High).transparent /\ Fresh(High).output = 255
  BY <1>1
<1> QED BY <1>2, <1>3, DisplayAssumption DEF High, Blank

LEMMA FreshGlass ==
  ASSUME NEW g, g = [held |-> 255, heard |-> TRUE, shown |-> Blank]
  PROVE  /\ g.held = 255 /\ g.shown = Blank
         /\ g \in [held : 0..255, heard : BOOLEAN, shown : [0..Digits - 1 -> 0..255]]
BY FreshFacts

LEMMA DisplayNextKeeps ==
  ASSUME DisplayInv, [DisplayNext]_digitvars
  PROVE  DisplayInv'
<1>0. /\ port \in [data : 0..255, le : {0, 1}, out : 0..7]
      /\ latch \in [transparent : BOOLEAN, output : 0..255]
  BY DEF DisplayInv, DisplayTypeOK
<1>1. ASSUME NEW v \in Segments, WriteP0(v) PROVE DisplayInv'
  <2> DEFINE p == [port EXCEPT !.data = v]
             l == OnData(latch, p)
  <2>1. v \in 0..255 /\ Sees(p, l, latch.transparent)
    BY <1>1, DisplayAssumption DEF WriteP0
  <2>2. p = [data |-> v, le |-> port.le, out |-> port.out]
    BY <1>0, <2>1, PortFields
  <2>3. p.data = v /\ p.le = port.le /\ p \in [data : 0..255, le : {0, 1}, out : 0..7]
    BY <1>0, <2>1, <2>2
  <2> HIDE DEF p
  <2>4. /\ l = [transparent |-> latch.transparent, output |-> IF latch.transparent THEN v ELSE latch.output]
        /\ l \in [transparent : BOOLEAN, output : 0..255]
    BY <1>0, <2>1, <2>3 DEF OnData
  <2>5. l.transparent = latch.transparent /\ l.output = IF latch.transparent THEN v ELSE latch.output
    BY <2>4
  <2> HIDE DEF l
  <2> QED BY <1>0, <2>1, <2>3, <2>4, <2>5, SeesKeeps DEF DisplayInv, LatchInStep
<1>2. ASSUME NEW le \in {0, 1}, WriteP1(le) PROVE DisplayInv'
  <2> DEFINE p == [port EXCEPT !.le = le]
             l == OnLe(latch, p)
             clear == le = 1 \/ latch.transparent
  <2>1. Sees(p, l, clear) /\ clear \in BOOLEAN
    BY <1>2 DEF WriteP1
  <2>2. p = [data |-> port.data, le |-> le, out |-> port.out]
    BY <1>0, PortFields
  <2>3. p.data = port.data /\ p.le = le /\ p \in [data : 0..255, le : {0, 1}, out : 0..7]
    BY <1>0, <2>2
  <2> HIDE DEF p
  <2>4. CASE clear
    <3>1. l = [transparent |-> le = 1, output |-> port.data]
      BY <2>3, <2>4 DEF OnLe
    <3>2. (l.transparent <=> le = 1) /\ l.output = port.data /\ l \in [transparent : BOOLEAN, output : 0..255]
      <4>1. CASE le = 1
        <5>1. l = [transparent |-> TRUE, output |-> port.data]
          BY <3>1, <4>1
        <5> QED BY <1>0, <4>1, <5>1
      <4>2. CASE le = 0
        <5>0. (le = 1) = FALSE
          BY <4>2
        <5>1. l = [transparent |-> FALSE, output |-> port.data]
          BY <3>1, <5>0, Zenon
        <5> QED BY <1>0, <4>2, <5>1
      <4> QED BY <4>1, <4>2
    <3> HIDE DEF l
    <3> QED BY <1>0, <2>1, <2>3, <2>4, <3>2, SeesKeeps DEF DisplayInv, LatchInStep
  <2>5. CASE ~ clear
    <3>1. l = latch
      BY <2>3, <2>5 DEF OnLe
    <3> HIDE DEF l
    <3> QED BY <1>0, <2>1, <2>3, <2>5, <3>1, SeesKeeps DEF DisplayInv, LatchInStep
  <2> QED BY <2>4, <2>5
<1>3. ASSUME NEW o \in Outputs, WriteP2(o) PROVE DisplayInv'
  <2> DEFINE p == [port EXCEPT !.out = o]
  <2>1. Sees(p, latch, FALSE) /\ o \in 0..7
    BY <1>3, DisplayAssumption DEF WriteP2
  <2>2. p = [data |-> port.data, le |-> port.le, out |-> o]
    BY <1>0, <2>1, PortFields
  <2>3. p.data = port.data /\ p.le = port.le /\ p \in [data : 0..255, le : {0, 1}, out : 0..7]
    BY <1>0, <2>1, <2>2
  <2> HIDE DEF p
  <2>4. /\ latch.transparent => p.le = 1
        /\ glass.heard => (p.le = 1 => latch.transparent /\ latch.output = p.data)
        /\ glass.heard => latch.output = IF p.le = 1 \/ port.le = 1 THEN p.data ELSE glass.held
    BY <2>3 DEF DisplayInv, LatchInStep
  <2> QED BY <1>0, <2>1, <2>3, <2>4, SeesKeeps
<1>4. CASE DisplaySimReset
  BY <1>4, FreshFacts, FreshGlass, ZenonT(40) DEF DisplaySimReset, DisplayInv, DisplayTypeOK, LatchInStep
<1>5. CASE DisplayCpuReset
  <2>1. port' = High /\ UNCHANGED <<latch, digits>> /\ glass' = [glass EXCEPT !.heard = FALSE]
    BY <1>5 DEF DisplayCpuReset
  <2> DEFINE G == [0..Digits - 1 -> 0..255]
  <2>2. glass' \in [held : 0..255, heard : BOOLEAN, shown : G] /\ ~ glass'.heard
    BY <2>1, ZenonT(40) DEF DisplayInv, DisplayTypeOK
  <2> QED BY <1>0, <2>1, <2>2, FreshFacts DEF DisplayInv, DisplayTypeOK, LatchInStep
<1>6. CASE UNCHANGED digitvars
  BY <1>6 DEF digitvars, DisplayInv, DisplayTypeOK, LatchInStep
<1> QED BY <1>1, <1>2, <1>3, <1>4, <1>5, <1>6 DEF DisplayNext

(***************************************************************************)
(* The latch is open while LE is high, holds what an ideal one holds, and  *)
(* the digits are what the glass shows.                                    *)
(***************************************************************************)
THEOREM DisplayInvariant == DisplaySpec => []DisplayInv
<1>1. DisplayInit => DisplayInv
  BY FreshFacts, FreshGlass DEF DisplayInit, DisplayInv, DisplayTypeOK, LatchInStep
<1>2. DisplayInv /\ [DisplayNext]_digitvars => DisplayInv'
  BY DisplayNextKeeps
<1> QED BY <1>1, <1>2, PTL DEF DisplaySpec

(***************************************************************************)
(* What the digits show, for any segments, number of digits and order of   *)
(* writes and resets.                                                      *)
(***************************************************************************)
THEOREM DigitsRight == DisplaySpec => []DigitsShowTheGlass
<1>1. DisplayInv => DigitsShowTheGlass
  BY DEF DisplayInv, LatchInStep, DigitsShowTheGlass
<1> QED BY <1>1, DisplayInvariant, PTL

-----------------------------------------------------------------------------
(***************************************************************************)
(* The flash controller.  The first trigger byte stands in last_trig only  *)
(* while it is the last byte written to TRIG since a command or a reset.   *)
(***************************************************************************)
FlashByte == [0..1 -> {0, 1}]

IapInv ==
  /\ flash \in [Lo..Hi - 1 -> FlashByte]
  /\ sfr \in [data : FlashByte, addr : Nat, cmd : 0..3, contr : [en : BOOLEAN, bs : BOOLEAN]]
  /\ iap \in [last : Nat, pending : 0..2, keep : [en : BOOLEAN, bs : BOOLEAN]]
  /\ trigs \in Nat \X Nat
  /\ iap.last = Trig1 => trigs[2] = Trig1

Sfrs == [data : FlashByte, addr : Nat, cmd : 0..3, contr : [en : BOOLEAN, bs : BOOLEAN]]
Iaps == [last : Nat, pending : 0..2, keep : [en : BOOLEAN, bs : BOOLEAN]]

LEMMA ColdSfr == ASSUME NEW c \in [en : BOOLEAN, bs : BOOLEAN]
                 PROVE  [Cold EXCEPT !.contr = c] \in Sfrs /\ Cold \in Sfrs /\ Off \in [en : BOOLEAN, bs : BOOLEAN]
BY DEF Cold, Off, Sfrs, FlashByte

LEMMA IapFields ==
  ASSUME NEW L, NEW P, NEW K, NEW i \in [last : L, pending : P, keep : K]
  PROVE  /\ \A k \in K, n \in P :
              /\ [i EXCEPT !.keep = k, !.pending = n] \in [last : L, pending : P, keep : K]
              /\ [i EXCEPT !.keep = k, !.pending = n].last = i.last
              /\ [i EXCEPT !.keep = k, !.pending = n].pending = n
         /\ \A l \in L, n \in P :
              /\ [i EXCEPT !.pending = n, !.last = l] \in [last : L, pending : P, keep : K]
              /\ [i EXCEPT !.pending = n, !.last = l].last = l
OBVIOUS

(***************************************************************************)
(* After the tick hook a trigger byte stands only if it did before it.     *)
(***************************************************************************)
LEMMA EndsFacts ==
  ASSUME NEW i \in Iaps, NEW s \in Sfrs, Ends(i, s)
  PROVE  iap' \in Iaps /\ sfr' \in Sfrs /\ (i.last = iap'.last \/ iap'.last = 0)
         /\ (i.pending # 0 => iap'.last = 0)
<1>1. CASE i.pending = 0
  <2>1. iap' = i /\ sfr' = s
    BY <1>1 DEF Ends, PostTick
  <2> QED BY <1>1, <2>1
<1>2. CASE i.pending # 0
  <2>1. iap' = [i EXCEPT !.pending = 0, !.last = 0] /\ sfr' = [Cold EXCEPT !.contr = i.keep]
    BY <1>2 DEF Ends, PostTick
  <2>2. i.keep \in [en : BOOLEAN, bs : BOOLEAN]
    BY DEF Iaps
  <2>3. sfr' \in Sfrs
    BY <2>1, <2>2, ColdSfr
  <2> DEFINE K == [en : BOOLEAN, bs : BOOLEAN]
  <2>4. iap' \in Iaps /\ iap'.last = 0
    <3> DEFINE P == 0..2
    <3>1. i \in [last : Nat, pending : P, keep : K] /\ 0 \in P
      BY DEF Iaps
    <3> HIDE DEF K, P
    <3>2. iap' \in [last : Nat, pending : P, keep : K] /\ iap'.last = 0
      BY <2>1, <3>1, IapFields
    <3> QED BY <3>2 DEF Iaps, K, P
  <2> QED BY <2>3, <2>4
<1> QED BY <1>1, <1>2

(***************************************************************************)
(* Programming clears bits of one byte, erasing fills one sector.          *)
(***************************************************************************)
LEMMA FlashChanges ==
  ASSUME IapInv, Accepted
  PROVE  /\ FlashAfter \in [Lo..Hi - 1 -> FlashByte]
         /\ \A a \in Lo..Hi - 1 : FlashAfter[a] # flash[a] =>
              \/ sfr.cmd = 2 /\ a = sfr.addr /\ \A b \in {0, 1} : FlashAfter[a][b] <= flash[a][b]
              \/ sfr.cmd = 3 /\ a \in SectorOf(sfr.addr) /\ FlashAfter[a] = Erased
<1>0. /\ flash \in [Lo..Hi - 1 -> FlashByte] /\ sfr.data \in FlashByte /\ sfr.addr \in Lo..Hi - 1
      /\ Erased \in FlashByte
  BY IapAssumption DEF IapInv, Accepted, Writable, Erased, FlashByte
<1>1. CASE sfr.cmd = 2
  <2> DEFINE x == Programmed(flash[sfr.addr], sfr.data)
  <2>1. FlashAfter = [flash EXCEPT ![sfr.addr] = x]
    BY <1>1 DEF FlashAfter
  <2>2. x \in FlashByte /\ \A b \in {0, 1} : x[b] <= flash[sfr.addr][b]
    <3>1. \A m, n \in {0, 1} : m * n \in {0, 1} /\ m * n <= m
      OBVIOUS
    <3>2. \A b \in 0..1 : flash[sfr.addr][b] \in {0, 1} /\ sfr.data[b] \in {0, 1}
      BY <1>0 DEF FlashByte
    <3> QED BY <3>1, <3>2 DEF Programmed, FlashByte
  <2> HIDE DEF x
  <2> QED BY <1>0, <1>1, <2>1, <2>2
<1>2. CASE sfr.cmd = 3 /\ \A a \in SectorOf(sfr.addr) : Writable(a)
  <2>1. FlashAfter = [a \in Lo..Hi - 1 |-> IF a \in SectorOf(sfr.addr) THEN Erased ELSE flash[a]]
    BY <1>2 DEF FlashAfter
  <2> QED BY <1>0, <1>2, <2>1
<1>3. CASE sfr.cmd # 2 /\ ~ (sfr.cmd = 3 /\ \A a \in SectorOf(sfr.addr) : Writable(a))
  <2>1. FlashAfter = flash
    BY <1>3 DEF FlashAfter
  <2> QED BY <1>0, <2>1
<1> QED BY <1>1, <1>2, <1>3

LEMMA WriteTrigKeeps ==
  ASSUME IapInv, NEW v \in {Trig1, Trig2, 1}, WriteTrig(v)
  PROVE  /\ IapInv'
         /\ flash' # flash =>
              /\ trigs' = <<Trig1, Trig2>> /\ sfr.contr.en
              /\ \A a \in Lo..Hi - 1 : flash'[a] # flash[a] =>
                   \/ sfr.cmd = 2 /\ a = sfr.addr /\ \A b \in {0, 1} : flash'[a][b] <= flash[a][b]
                   \/ sfr.cmd = 3 /\ a \in SectorOf(sfr.addr) /\ flash'[a] = Erased
<1>0. v \in Nat /\ iap \in Iaps /\ sfr \in Sfrs /\ trigs \in Nat \X Nat /\ flash \in [Lo..Hi - 1 -> FlashByte]
  BY DEF IapInv, Trig1, Trig2, Iaps, Sfrs
<1>1. trigs' = <<trigs[2], v>> /\ trigs' \in Nat \X Nat /\ trigs'[2] = v
  BY <1>0 DEF WriteTrig
<1>2. \A n \in Nat : [iap EXCEPT !.last = n] \in Iaps /\ [iap EXCEPT !.last = n].last = n
  BY <1>0 DEF Iaps
<1>3. CASE iap.last = Trig1 /\ v = Trig2
  <2> DEFINE i == [iap EXCEPT !.last = 0]
             s == IF Accepted /\ Reads THEN [sfr EXCEPT !.data = flash[sfr.addr]] ELSE sfr
  <2>1. Ends(i, s) /\ flash' = IF Accepted THEN FlashAfter ELSE flash
    BY <1>3 DEF WriteTrig
  <2>2. s \in Sfrs
    <3>1. CASE Accepted
      <4>1. flash[sfr.addr] \in FlashByte
        BY <1>0, <3>1, IapAssumption DEF Accepted, Writable, Sfrs
      <4> QED BY <1>0, <4>1 DEF Sfrs
    <3>2. CASE ~ Accepted
      BY <1>0, <3>2
    <3> QED BY <3>1, <3>2
  <2>3. iap' \in Iaps /\ sfr' \in Sfrs /\ iap'.last = 0
    <3> HIDE DEF s
    <3>1. i \in Iaps /\ i.last = 0
      BY <1>2
    <3> HIDE DEF i
    <3> QED BY <2>1, <2>2, <3>1, EndsFacts
  <2>4. IapInv'
    BY <1>0, <1>1, <2>1, <2>3, FlashChanges DEF IapInv, Iaps, Sfrs, Trig1
  <2>5. trigs' = <<Trig1, Trig2>>
    BY <1>1, <1>3 DEF IapInv
  <2>6. CASE Accepted
    BY <2>1, <2>4, <2>5, <2>6, FlashChanges DEF Accepted
  <2>7. CASE ~ Accepted
    BY <2>1, <2>4, <2>7
  <2> QED BY <2>6, <2>7
<1>4. CASE ~ (iap.last = Trig1 /\ v = Trig2)
  <2> DEFINE i == [iap EXCEPT !.last = v]
  <2>1. Ends(i, sfr) /\ flash' = flash
    BY <1>4 DEF WriteTrig
  <2>2. i \in Iaps /\ i.last = v
    BY <1>0, <1>2
  <2> HIDE DEF i
  <2>3. iap' \in Iaps /\ sfr' \in Sfrs /\ (iap'.last = v \/ iap'.last = 0)
    BY <1>0, <2>1, <2>2, EndsFacts
  <2> QED BY <1>0, <1>1, <2>1, <2>3 DEF IapInv, Iaps, Sfrs, Trig1
<1> QED BY <1>3, <1>4

LEMMA IapNextKeeps ==
  ASSUME IapInv, [IapNext]_iapvars
  PROVE  /\ IapInv'
         /\ flash' # flash =>
              /\ trigs' = <<Trig1, Trig2>> /\ sfr.contr.en
              /\ \A a \in Lo..Hi - 1 : flash'[a] # flash[a] =>
                   \/ sfr.cmd = 2 /\ a = sfr.addr /\ \A b \in {0, 1} : flash'[a][b] <= flash[a][b]
                   \/ sfr.cmd = 3 /\ a \in SectorOf(sfr.addr) /\ flash'[a] = Erased
<1>0. iap \in Iaps /\ sfr \in Sfrs /\ trigs \in Nat \X Nat /\ flash \in [Lo..Hi - 1 -> FlashByte]
  BY DEF IapInv, Iaps, Sfrs
<1>1. CASE \E v \in {Trig1, Trig2, 1} : WriteTrig(v)
  BY <1>1, WriteTrigKeeps
<1>2. ASSUME NEW en \in BOOLEAN, NEW bs \in BOOLEAN, NEW reset \in BOOLEAN, WriteContr(en, bs, reset)
      PROVE  IapInv' /\ flash' = flash
  <2> DEFINE k == [en |-> en, bs |-> bs]
             n == IF ~ reset THEN iap.pending ELSE IF bs THEN 2 ELSE 1
             i == [iap EXCEPT !.keep = k, !.pending = n]
             s == [sfr EXCEPT !.contr = k]
  <2>1. Ends(i, s) /\ flash' = flash /\ trigs' = IF reset THEN <<0, 0>> ELSE trigs
    BY <1>2 DEF WriteContr
  <2>2. k \in [en : BOOLEAN, bs : BOOLEAN] /\ n \in 0..2 /\ (reset => n # 0)
    BY <1>0 DEF Iaps
  <2> HIDE DEF k, n
  <2>3. s \in Sfrs
    BY <1>0, <2>2 DEF Sfrs
  <2>4. i \in Iaps /\ i.last = iap.last /\ i.pending = n
    <3> DEFINE P == 0..2
               K == [en : BOOLEAN, bs : BOOLEAN]
    <3>1. iap \in [last : Nat, pending : P, keep : K] /\ k \in K /\ n \in P
      BY <1>0, <2>2 DEF Iaps
    <3> HIDE DEF K, P
    <3>2. i \in [last : Nat, pending : P, keep : K] /\ i.last = iap.last /\ i.pending = n
      BY <3>1, IapFields
    <3> QED BY <3>2 DEF Iaps, K, P
  <2> HIDE DEF i, s
  <2>5. iap' \in Iaps /\ sfr' \in Sfrs /\ (iap'.last = iap.last \/ iap'.last = 0) /\ (reset => iap'.last = 0)
    BY <2>1, <2>2, <2>3, <2>4, EndsFacts
  <2>6. trigs' \in Nat \X Nat /\ (~ reset => trigs' = trigs)
    BY <1>0, <2>1
  <2> QED BY <1>0, <2>1, <2>5, <2>6 DEF IapInv, Iaps, Sfrs, Trig1
<1>3. ASSUME NEW s \in Sfrs, WriteOther(s) PROVE IapInv' /\ flash' = flash
  <2>1. Ends(iap, s) /\ UNCHANGED <<flash, trigs>>
    BY <1>3 DEF WriteOther
  <2>2. iap' \in Iaps /\ sfr' \in Sfrs /\ (iap'.last = iap.last \/ iap'.last = 0)
    BY <1>0, <2>1, EndsFacts
  <2> QED BY <2>1, <2>2 DEF IapInv, Iaps, Sfrs, Trig1
<1>4. CASE SetData
  <2>1. PICK v \in FlashBytes : WriteOther([sfr EXCEPT !.data = v])
    BY <1>4 DEF SetData
  <2>2. [sfr EXCEPT !.data = v] \in Sfrs
    BY <1>0, IapAssumption DEF Sfrs, FlashByte
  <2> QED BY <1>3, <2>1, <2>2
<1>5. CASE SetAddr
  <2>1. PICK a \in FlashAddrs : WriteOther([sfr EXCEPT !.addr = a])
    BY <1>5 DEF SetAddr
  <2>2. [sfr EXCEPT !.addr = a] \in Sfrs
    BY <1>0, IapAssumption DEF Sfrs
  <2> QED BY <1>3, <2>1, <2>2
<1>6. CASE SetCmd
  <2>1. PICK c \in 0..3 : WriteOther([sfr EXCEPT !.cmd = c])
    BY <1>6 DEF SetCmd
  <2>2. [sfr EXCEPT !.cmd = c] \in Sfrs
    BY <1>0 DEF Sfrs
  <2> QED BY <1>3, <2>1, <2>2
<1>7. CASE IapSimReset
  <2>1. iap' \in Iaps /\ iap'.last = 0
    BY <1>7, ColdSfr DEF IapSimReset, Iaps, Off
  <2>2. sfr' \in Sfrs /\ trigs' = <<0, 0>> /\ flash' = flash
    BY <1>7, ColdSfr DEF IapSimReset, Cold, Sfrs, Off, FlashByte
  <2> QED BY <1>0, <2>1, <2>2 DEF IapInv, Iaps, Sfrs, Trig1
<1>8. CASE UNCHANGED iapvars
  BY <1>8 DEF iapvars, IapInv
<1> QED BY <1>1, <1>2, <1>4, <1>5, <1>6, <1>7, <1>8 DEF IapNext

(***************************************************************************)
(* A standing trigger byte is the last one written.                        *)
(***************************************************************************)
THEOREM IapInvariant == IapSpec => []IapInv
<1>1. IapInit => IapInv
  BY DEF IapInit, IapInv, Cold, Off, Erased, FlashByte, Trig1
<1>2. IapInv /\ [IapNext]_iapvars => IapInv'
  BY IapNextKeeps
<1> QED BY <1>1, <1>2, PTL DEF IapSpec

(***************************************************************************)
(* Flash changes as NOR flash does and only after the two trigger bytes,   *)
(* for any sector size, writable range and order of register writes.       *)
(***************************************************************************)
THEOREM FlashGuarded == IapSpec => FlashObeysTheTrigger
<1>1. IapInv /\ [IapNext]_iapvars =>
        [flash' # flash =>
           /\ trigs' = <<Trig1, Trig2>> /\ sfr.contr.en
           /\ \A a \in Lo..Hi - 1 : flash'[a] # flash[a] =>
                \/ sfr.cmd = 2 /\ a = sfr.addr /\ \A b \in {0, 1} : flash'[a][b] <= flash[a][b]
                \/ sfr.cmd = 3 /\ a \in SectorOf(sfr.addr) /\ flash'[a] = Erased]_iapvars
  BY IapNextKeeps
<1> QED BY <1>1, IapInvariant, PTL DEF IapSpec, FlashObeysTheTrigger

-----------------------------------------------------------------------------
(***************************************************************************)
(* The pulse meters.  Both hear the same edges; once a rising one was      *)
(* heard, the fan's count is the time since it, and the servo's is too     *)
(* while the pulse lasts.                                                  *)
(***************************************************************************)
Levels == {0, 1}
Ticks == Nat
Fans == [level : Levels, since : Ticks, period : Ticks, high : Ticks, rpm : Ticks, accum : Ticks, tach : Levels]
Servos == [level : Levels, since : Ticks, pulse : Ticks]

Metered == Len(marks.up) = 2 \/ (Len(marks.up) = 1 /\ fan.level = 0)

PwmTypes ==
  /\ fan \in Fans /\ servo \in Servos
  /\ clock \in Nat /\ marks \in [up : Seq(Nat), high : Nat]

(* Since the last rising edge; what was measured; the period.              *)
SinceEdge == marks.up # <<>> =>
              /\ marks.up[1] <= clock /\ fan.since = clock - marks.up[1]
              /\ fan.level = 1 => servo.since = fan.since
Shown    == Metered => fan.high = marks.high /\ servo.pulse = TicksToUs(marks.high)
Spaced   == (Len(marks.up) = 2 /\ marks.up[1] > marks.up[2]) => fan.period = marks.up[1] - marks.up[2]
Together == Len(marks.up) <= 2 /\ servo.level = fan.level

PwmInv == PwmTypes /\ Together /\ SinceEdge /\ Shown /\ Spaced

LEMMA Microseconds ==
  ASSUME NEW n \in Nat
  PROVE  /\ TicksToUs(n) \in Nat
         /\ n * Micros < UsSpan * FanTicks =>
              n * Micros \in TicksToUs(n) * FanTicks..TicksToUs(n) * FanTicks + FanTicks - 1
<1> DEFINE us == n * Micros
           q == us \div FanTicks
           r == us % FanTicks
           p == q \div UsSpan
           s == q % UsSpan
<1>0. us \in Nat /\ FanTicks \in Nat /\ UsSpan \in Nat \ {0}
  BY PwmAssumption
<1>1. CASE FanTicks = 0
  <2>1. TicksToUs(n) = 0
    BY <1>1 DEF TicksToUs
  <2>2. ~ (us < UsSpan * FanTicks)
    BY <1>0, <1>1
  <2> QED BY <2>1, <2>2
<1>2. CASE FanTicks # 0
  <2>0. TicksToUs(n) = s
    BY <1>2 DEF TicksToUs
  <2> HIDE DEF us
  <2>1. q \in Nat /\ r \in 0..FanTicks - 1 /\ us = FanTicks * q + r
    BY <1>0, <1>2, Division
  <2> HIDE DEF q, r
  <2>2. s \in 0..UsSpan - 1 /\ p \in Nat /\ q = UsSpan * p + s
    BY <1>0, <2>1, Division
  <2> HIDE DEF s, p
  <2>3. ASSUME us < UsSpan * FanTicks PROVE us \in s * FanTicks..s * FanTicks + FanTicks - 1
    <3>1. CASE p = 0
      <4>1. q = s
        BY <2>2, <3>1, <1>0
      <4>2. us = FanTicks * s + r /\ FanTicks * s = s * FanTicks /\ s * FanTicks \in Nat
        BY <2>1, <2>2, <4>1, <1>0
      <4> QED BY <2>1, <4>2, <1>0
    <3>2. CASE p >= 1
      <4>1. UsSpan * p >= UsSpan
        BY <1>0, <2>2, <3>2
      <4>2. q >= UsSpan
        BY <1>0, <2>2, <4>1
      <4>3. FanTicks * q >= FanTicks * UsSpan
        BY <1>0, <2>1, <4>2
      <4>4. us >= UsSpan * FanTicks
        BY <1>0, <2>1, <4>3
      <4> QED BY <1>0, <2>3, <4>4
    <3> QED BY <2>2, <3>1, <3>2
  <2> QED BY <1>0, <2>0, <2>2, <2>3 DEF us
<1> QED BY <1>0, <1>1, <1>2

(***************************************************************************)
(* The changes of the two meters' records, named.                          *)
(***************************************************************************)
Risen(f, l, a, b) == [f EXCEPT !.level = l, !.since = a, !.period = b]

LEMMA FanRises ==
  ASSUME NEW f \in Fans, NEW a \in Ticks, NEW b \in Ticks, NEW l \in Levels
  PROVE  /\ Risen(f, l, a, b) \in Fans
         /\ Risen(f, l, a, b).level = l
         /\ Risen(f, l, a, b).since = a
         /\ Risen(f, l, a, b).period = b
         /\ Risen(f, l, a, b).high = f.high
BY DEF Fans, Risen

Fallen(f, l, a) == [f EXCEPT !.level = l, !.high = a]

LEMMA FanFalls ==
  ASSUME NEW f \in Fans, NEW a \in Ticks, NEW l \in Levels
  PROVE  /\ Fallen(f, l, a) \in Fans
         /\ Fallen(f, l, a).level = l
         /\ Fallen(f, l, a).since = f.since
         /\ Fallen(f, l, a).period = f.period
         /\ Fallen(f, l, a).high = a
BY DEF Fans, Fallen

Counting(f, a, b) == [f EXCEPT !.since = a, !.rpm = b]

LEMMA FanTimed ==
  ASSUME NEW f \in Fans, NEW a \in Ticks, NEW b \in Ticks
  PROVE  /\ Counting(f, a, b) \in Fans
         /\ Counting(f, a, b).level = f.level
         /\ Counting(f, a, b).since = a
         /\ Counting(f, a, b).period = f.period
         /\ Counting(f, a, b).high = f.high
BY DEF Fans, Counting

Turned(f, a, l) == [f EXCEPT !.accum = a, !.tach = l]

LEMMA FanTurns ==
  ASSUME NEW f \in Fans, NEW a \in Ticks, NEW l \in Levels
  PROVE  /\ Turned(f, a, l) \in Fans
         /\ Turned(f, a, l).level = f.level
         /\ Turned(f, a, l).since = f.since
         /\ Turned(f, a, l).period = f.period
         /\ Turned(f, a, l).high = f.high
BY DEF Fans, Turned

Counted(f, a) == [f EXCEPT !.accum = a]

LEMMA FanCounts ==
  ASSUME NEW f \in Fans, NEW a \in Ticks
  PROVE  /\ Counted(f, a) \in Fans
         /\ Counted(f, a).level = f.level
         /\ Counted(f, a).since = f.since
         /\ Counted(f, a).period = f.period
         /\ Counted(f, a).high = f.high
BY DEF Fans, Counted

Begun(f, l, a) == [f EXCEPT !.level = l, !.since = a]
Measured(f, l, a) == [f EXCEPT !.level = l, !.pulse = a]

LEMMA ServoFields ==
  ASSUME NEW f \in Servos, NEW a \in Ticks, NEW l \in Levels
  PROVE  /\ Begun(f, l, a) \in Servos /\ Measured(f, l, a) \in Servos
         /\ Begun(f, l, a).level = l /\ Begun(f, l, a).since = a /\ Begun(f, l, a).pulse = f.pulse
         /\ Measured(f, l, a).level = l /\ Measured(f, l, a).since = f.since
         /\ Measured(f, l, a).pulse = a
BY DEF Servos, Begun, Measured

(***************************************************************************)
(* The fan's step adds a tick to its count and leaves what it measured.    *)
(***************************************************************************)
LEMMA TargetIsNat ==
  ASSUME NEW f \in Fans
  PROVE  TargetRpm(f) \in Nat
<1>1. f.high \in Nat /\ f.period \in Nat /\ f.high * 100 \in Nat
  BY DEF Fans, Ticks
<1>2. Duty(f) \in Nat
  <2>1. CASE f.period = 0
    BY <2>1 DEF Duty
  <2>2. CASE f.period # 0
    <3> DEFINE x == f.high * 100
               y == f.period
    <3>1. x \in Nat /\ y \in Nat \ {0} /\ Duty(f) = x \div y
      BY <1>1, <2>2 DEF Duty
    <3> HIDE DEF x, y
    <3> QED BY <3>1, Division
  <2> QED BY <2>1, <2>2
<1>3. CASE Duty(f) < MinDuty
  BY <1>3 DEF TargetRpm
<1>4. CASE ~ (Duty(f) < MinDuty)
  <2> DEFINE u == Duty(f) - MinDuty
             x == MaxRpm * u
             y == 100 - MinDuty
  <2>1. u \in Nat /\ y \in Nat \ {0} /\ MaxRpm \in Nat
    BY <1>2, <1>4, PwmAssumption
  <2>2. TargetRpm(f) = x \div y
    BY <1>4 DEF TargetRpm
  <2> HIDE DEF u, y
  <2>3. x \in Nat
    BY <2>1
  <2> HIDE DEF x
  <2> QED BY <2>1, <2>2, <2>3, Division
<1> QED BY <1>3, <1>4

LEMMA LevelsAre == 0 \in Levels /\ 1 \in Levels /\ 0 \in Ticks
BY DEF Levels, Ticks

LEMMA FanStepFacts ==
  ASSUME fan \in Fans
  PROVE  /\ FanStep \in Fans /\ FanStep.level = fan.level /\ FanStep.since = fan.since + 1
         /\ FanStep.period = fan.period /\ FanStep.high = fan.high
<1> DEFINE later == fan.since + 1
           rpm == TargetRpm(fan)
           t == Counting(fan, later, rpm)
           n == fan.accum + 1
           l == 1 - t.tach
<1>1. later \in Ticks /\ rpm \in Ticks /\ n \in Ticks
  BY TargetIsNat DEF Fans, Ticks
<1>2. FanStep = Counted(t, 0) \/ FanStep = Counted(t, n) \/ FanStep = Turned(t, 0, l)
  BY DEF FanStep, Counted, Turned, Counting
<1> HIDE DEF rpm, n, t
<1>3. t \in Fans /\ t.level = fan.level /\ t.since = later /\ t.period = fan.period /\ t.high = fan.high
  <2> HIDE DEF later
  <2> QED BY <1>1, FanTimed DEF t
<1>4. l \in Levels
  BY <1>3 DEF Fans, Levels
<1> HIDE DEF l, later
<1> DEFINE Same(g) == g \in Fans /\ g.level = t.level /\ g.since = t.since
                      /\ g.period = t.period /\ g.high = t.high
<1>5. Same(Counted(t, 0)) /\ Same(Counted(t, n))
  BY <1>1, <1>3, LevelsAre, FanCounts
<1>6. Same(Turned(t, 0, l))
  BY <1>3, <1>4, LevelsAre, FanTurns
<1> QED BY <1>2, <1>3, <1>5, <1>6 DEF later

LEMMA PwmRises ==
  ASSUME PwmInv, servo.level = 0, WritePwm(1)
  PROVE  PwmInv'
<1> DEFINE p == IF fan.since > 0 THEN fan.since ELSE fan.period
           u == IF marks.up = <<>> THEN <<clock>> ELSE <<clock, marks.up[1]>>
<1>0. /\ fan \in Fans /\ servo \in Servos /\ clock \in Nat /\ marks.up \in Seq(Nat)
      /\ marks \in [up : Seq(Nat), high : Nat] /\ fan.level = 0 /\ Len(marks.up) <= 2
  BY DEF PwmInv, PwmTypes, Together, SinceEdge, Shown, Spaced
<1>1. p \in Ticks /\ p \in Nat /\ fan.since \in Nat
  BY <1>0 DEF Fans, Ticks
<1>2. servo' = Begun(servo, 1, 0) /\ fan' = Risen(fan, 1, 0, p) /\ clock' = clock
      /\ marks' = [marks EXCEPT !.up = u]
  BY <1>0 DEF WritePwm, ServoHears, FanHears, Begun, Risen
<1> HIDE DEF p
<1>3. fan' \in Fans /\ fan'.level = 1 /\ fan'.since = 0 /\ fan'.period = p /\ fan'.high = fan.high
  BY <1>0, <1>1, <1>2, LevelsAre, FanRises
<1>4. servo' \in Servos /\ servo'.level = 1 /\ servo'.since = 0 /\ servo'.pulse = servo.pulse
  BY <1>0, <1>2, LevelsAre, ServoFields
<1>5. marks.up # <<>> => marks.up[1] \in Nat /\ Len(marks.up) \in {1, 2}
  <2> DEFINE v == marks.up
  <2>1. v \in Seq(Nat) /\ Len(v) <= 2
    BY <1>0
  <2> HIDE DEF v
  <2>2. v # <<>> => v[1] \in Nat /\ Len(v) \in {1, 2}
    <3>1. Len(v) \in Nat /\ (v # <<>> => Len(v) # 0)
      BY <2>1, EmptySeq
    <3>2. v # <<>> => 1 \in 1..Len(v)
      BY <3>1
    <3>3. v # <<>> => v[1] \in Nat
      BY <2>1, <3>2, ElementOfSeq
    <3>4. v # <<>> => Len(v) \in {1, 2}
      <4> DEFINE k == Len(v)
      <4>1. k \in Nat /\ k <= 2 /\ (v # <<>> => k # 0)
        BY <2>1, <3>1
      <4> HIDE DEF k
      <4>2. v # <<>> => k \in {1, 2}
        BY <4>1
      <4> QED BY <4>2 DEF k
    <3> QED BY <3>3, <3>4
  <2> QED BY <2>2 DEF v
<1>6. /\ u \in Seq(Nat) /\ u # <<>> /\ u[1] = clock /\ Len(u) <= 2
      /\ marks.up = <<>> => Len(u) = 1
      /\ marks.up # <<>> => Len(u) = 2 /\ u[2] = marks.up[1]
  BY <1>0, <1>5
<1> HIDE DEF u
<1>7. marks' \in [up : Seq(Nat), high : Nat] /\ marks'.up = u /\ marks'.high = marks.high
  BY <1>0, <1>2, <1>6
<1>8. Len(u) = 2 => fan.high = marks.high /\ servo.pulse = TicksToUs(marks.high)
  BY <1>0, <1>5, <1>6 DEF PwmInv, Metered, Together, SinceEdge, Shown, Spaced
<1>9. Len(u) = 2 /\ u[1] > u[2] => p = u[1] - u[2]
  <2>1. ASSUME Len(u) = 2, u[1] > u[2] PROVE p = u[1] - u[2]
    <3>1. marks.up # <<>> /\ u[2] = marks.up[1] /\ fan.since = clock - marks.up[1]
      BY <1>6, <2>1 DEF PwmInv, Together, SinceEdge, Shown, Spaced
    <3> QED BY <1>0, <1>5, <1>6, <2>1, <3>1 DEF p
  <2> QED BY <2>1
<1> DEFINE t == TicksToUs(marks.high)
<1>10. TicksToUs(marks.high)' = t
  BY <1>7 DEF TicksToUs
<1>11. PwmTypes'
  BY <1>0, <1>2, <1>3, <1>4, <1>7 DEF PwmTypes
<1>12. Shown'
  BY <1>3, <1>4, <1>7, <1>8, <1>10 DEF Metered, Shown
<1>13. SinceEdge'
  BY <1>0, <1>2, <1>3, <1>4, <1>6, <1>7 DEF SinceEdge
<1>14. Spaced'
  BY <1>3, <1>7, <1>9 DEF Spaced
<1>15. Together'
  BY <1>3, <1>4, <1>6, <1>7 DEF Together
<1> QED BY <1>11, <1>12, <1>13, <1>14, <1>15 DEF PwmInv

LEMMA PwmFalls ==
  ASSUME PwmInv, servo.level = 1, WritePwm(0)
  PROVE  PwmInv'
<1> DEFINE h == IF marks.up = <<>> THEN marks.high ELSE clock - marks.up[1]
           t == TicksToUs(servo.since)
           since == fan.since
<1>0. /\ fan \in Fans /\ servo \in Servos /\ clock \in Nat /\ marks.up \in Seq(Nat)
      /\ marks \in [up : Seq(Nat), high : Nat] /\ fan.level = 1 /\ Len(marks.up) <= 2
  BY DEF PwmInv, PwmTypes, Together, SinceEdge, Shown, Spaced
<1>1. since \in Ticks /\ since \in Nat /\ servo.since \in Nat
  BY <1>0 DEF Fans, Servos, Ticks
<1>2. servo' = Measured(servo, 0, t) /\ fan' = Fallen(fan, 0, since) /\ clock' = clock
      /\ marks' = [marks EXCEPT !.high = h]
  BY <1>0 DEF WritePwm, ServoHears, FanHears, Measured, Fallen
<1>3. t \in Ticks
  BY <1>1, Microseconds DEF Ticks
<1>4. h \in Nat /\ (marks.up # <<>> => since = h /\ servo.since = h)
  <2>1. CASE marks.up = <<>>
    BY <1>0, <2>1
  <2>2. CASE marks.up # <<>>
    BY <1>0, <1>1, <2>2 DEF PwmInv, Together, SinceEdge, Shown, Spaced
  <2> QED BY <2>1, <2>2
<1>5. marks' \in [up : Seq(Nat), high : Nat] /\ marks'.up = marks.up /\ marks'.high = h
  <2> HIDE DEF h
  <2> QED BY <1>0, <1>2, <1>4
<1>6. marks.up # <<>> => t = TicksToUs(h)
  BY <1>4 DEF TicksToUs
<1> HIDE DEF h, t, since
<1>7. /\ fan' \in Fans /\ fan'.level = 0 /\ fan'.since = fan.since /\ fan'.period = fan.period
      /\ fan'.high = since
  BY <1>0, <1>1, <1>2, LevelsAre, FanFalls
<1>8. servo' \in Servos /\ servo'.level = 0 /\ servo'.since = servo.since /\ servo'.pulse = t
  BY <1>0, <1>2, <1>3, LevelsAre, ServoFields, ZenonT(40)
<1>9. Metered' => marks.up # <<>>
  <2>1. marks.up = <<>> => Len(marks.up) = 0
    OBVIOUS
  <2>2. marks.up = <<>> => Len(marks'.up) = 0
    BY <1>5, <2>1
  <2> QED BY <2>2 DEF Metered
<1>10. TicksToUs(marks.high)' = TicksToUs(h)
  BY <1>5 DEF TicksToUs
<1>11. PwmTypes'
  BY <1>0, <1>2, <1>5, <1>7, <1>8 DEF PwmTypes
<1>12. Shown'
  BY <1>4, <1>5, <1>6, <1>7, <1>8, <1>9, <1>10 DEF Shown
<1>13. SinceEdge'
  BY <1>2, <1>5, <1>7 DEF PwmInv, SinceEdge, Together, Shown, Spaced
<1>14. Spaced'
  BY <1>5, <1>7 DEF PwmInv, Spaced, Together, SinceEdge, Shown
<1>15. Together'
  BY <1>0, <1>5, <1>7, <1>8 DEF Together
<1> QED BY <1>11, <1>12, <1>13, <1>14, <1>15 DEF PwmInv

LEMMA PwmUnheard ==
  ASSUME PwmInv, UNCHANGED <<servo, fan, clock, marks>>
  PROVE  PwmInv'
BY DEF PwmInv, PwmTypes, Together, SinceEdge, Shown, Spaced, Metered, TicksToUs

LEMMA PwmTickKeeps ==
  ASSUME PwmInv, PwmTick
  PROVE  PwmInv'
<1> DEFINE s == servo.since + 1
<1>0. /\ fan \in Fans /\ servo \in Servos /\ clock \in Nat
      /\ marks \in [up : Seq(Nat), high : Nat] /\ servo.since \in Nat /\ fan.since \in Nat
  BY DEF PwmInv, PwmTypes, Servos, Fans, Ticks, Together, SinceEdge, Shown, Spaced
<1>1. fan' = FanStep /\ servo' = [servo EXCEPT !.since = s] /\ clock' = clock + 1 /\ marks' = marks
  BY DEF PwmTick
<1>2. /\ fan' \in Fans /\ fan'.level = fan.level /\ fan'.since = fan.since + 1
      /\ fan'.period = fan.period /\ fan'.high = fan.high
  BY <1>0, <1>1, FanStepFacts
<1>3. servo' \in Servos /\ servo'.level = servo.level /\ servo'.since = servo.since + 1
      /\ servo'.pulse = servo.pulse
  <2>1. s \in Nat /\ s = servo.since + 1
    BY <1>0
  <2> HIDE DEF s
  <2> QED BY <1>0, <1>1, <2>1 DEF Servos, Ticks
<1>4. PwmTypes'
  BY <1>0, <1>1, <1>2, <1>3 DEF PwmTypes
<1>5. marks.up # <<>> => marks.up[1] \in Nat
  BY <1>0
<1>6. SinceEdge'
  BY <1>0, <1>1, <1>2, <1>3, <1>5 DEF PwmInv, SinceEdge, Together, Shown, Spaced
<1>7. TicksToUs(marks.high)' = TicksToUs(marks.high)
  BY <1>1 DEF TicksToUs
<1>8. Shown'
  BY <1>1, <1>2, <1>3, <1>7 DEF PwmInv, Metered, Shown, Together, SinceEdge, Spaced
<1>9. Together'
  BY <1>1, <1>2, <1>3 DEF PwmInv, Together, SinceEdge, Shown, Spaced
<1>10. Spaced'
  BY <1>1, <1>2 DEF PwmInv, Spaced, Together, SinceEdge, Shown
<1> QED BY <1>4, <1>6, <1>8, <1>9, <1>10 DEF PwmInv

(***************************************************************************)
(* Counts, levels and measures belong to the edges heard.                  *)
(***************************************************************************)
THEOREM PwmInvariant == PwmSpec => []PwmInv
<1>1. PwmInit => PwmInv
  <2> SUFFICES ASSUME PwmInit PROVE PwmInv
    OBVIOUS
  <2>1. fan \in Fans /\ servo \in Servos /\ servo.level = fan.level
    BY DEF PwmInit, Fans, Servos, Levels, Ticks
  <2>2. marks.up = <<>> /\ marks.up \in Seq(Nat) /\ Len(marks.up) = 0 /\ clock \in Nat
        /\ marks \in [up : Seq(Nat), high : Nat]
    BY DEF PwmInit
  <2> QED BY <2>1, <2>2 DEF PwmInv, PwmTypes, Together, SinceEdge, Shown, Spaced, Metered
<1>2. PwmInv /\ [PwmNext]_pwmvars => PwmInv'
  <2> SUFFICES ASSUME PwmInv, [PwmNext]_pwmvars PROVE PwmInv'
    OBVIOUS
  <2>1. ASSUME NEW level \in {0, 1}, WritePwm(level) PROVE PwmInv'
    <3>0. servo.level \in {0, 1} /\ fan.level = servo.level
      BY DEF PwmInv, PwmTypes, Servos, Levels, Together, SinceEdge, Shown, Spaced
    <3>1. CASE level = servo.level
      <4>1. UNCHANGED <<servo, fan, clock, marks>>
        BY <2>1, <3>0, <3>1 DEF WritePwm, ServoHears, FanHears
      <4> QED BY <4>1, PwmUnheard
    <3>2. CASE level # servo.level
      BY <2>1, <3>0, <3>2, PwmRises, PwmFalls
    <3> QED BY <3>1, <3>2
  <2>2. CASE PwmTick
    BY <2>2, PwmTickKeeps
  <2>3. CASE PwmCpuReset \/ UNCHANGED pwmvars
    BY <2>3, PwmUnheard DEF PwmCpuReset, pwmvars
  <2> QED BY <2>1, <2>2, <2>3 DEF PwmNext
<1> QED BY <1>1, <1>2, PTL DEF PwmSpec

(***************************************************************************)
(* What the meters show is what the edges were apart, whatever the tick    *)
(* rate, the fan and the writes between.                                   *)
(***************************************************************************)
THEOREM PulsesTimed == PwmSpec => []PulsesAreTimed
<1>1. PwmInv => PulsesAreTimed
  <2> SUFFICES ASSUME PwmInv, Len(marks.up) = 2
               PROVE  /\ fan.high = marks.high
                      /\ LET us == marks.high * Micros
                         IN  us < UsSpan * FanTicks =>
                               us \in servo.pulse * FanTicks..servo.pulse * FanTicks + FanTicks - 1
                      /\ marks.up[1] > marks.up[2] => fan.period = marks.up[1] - marks.up[2]
    BY DEF PulsesAreTimed
  <2>1. marks.high \in Nat /\ fan.high = marks.high /\ servo.pulse = TicksToUs(marks.high)
        /\ (marks.up[1] > marks.up[2] => fan.period = marks.up[1] - marks.up[2])
    BY DEF PwmInv, PwmTypes, Metered, Together, SinceEdge, Shown, Spaced
  <2> QED BY <2>1, Microseconds
<1> QED BY <1>1, PwmInvariant, PTL

-----------------------------------------------------------------------------
(***************************************************************************)
(* The character display.                                                  *)
(***************************************************************************)
Bools == BOOLEAN
Octets == 0..255
Rams == [0..127 -> Octets]
Chars == [0..63 -> Octets]
Whole == Int
Disps == [ddram : Rams, cgram : Chars, cursor : Whole, dir : Whole, shift : Whole,
          shifting : Bools, chargen : Bools]

(* The changes an instruction makes, named.                                *)
AtCursor(s, i)     == [s EXCEPT !.cursor = i]
Scrolled(s, i)     == [s EXCEPT !.shift = i]
MovedOn(s, i, j)   == [s EXCEPT !.cursor = i, !.shift = j]
EntryMode(s, b, i) == [s EXCEPT !.shifting = b, !.dir = i]
Addressed(s, b, i) == [s EXCEPT !.chargen = b, !.cursor = i]
Wiped(s, r, i, j, k) == [s EXCEPT !.cursor = i, !.shift = j, !.ddram = r, !.dir = k]

LEMMA DispFields ==
  ASSUME NEW s \in Disps
  PROVE  /\ \A r \in Rams : [s EXCEPT !.ddram = r] \in Disps
         /\ \A c \in Chars : [s EXCEPT !.cgram = c] \in Disps
         /\ \A i \in Whole : AtCursor(s, i) \in Disps /\ Scrolled(s, i) \in Disps
         /\ \A i, j \in Whole : MovedOn(s, i, j) \in Disps
         /\ \A i \in Whole, b \in Bools : EntryMode(s, b, i) \in Disps /\ Addressed(s, b, i) \in Disps
         /\ \A r \in Rams, i, j, k \in Whole : Wiped(s, r, i, j, k) \in Disps
BY DEF Disps, AtCursor, Scrolled, MovedOn, EntryMode, Addressed, Wiped

LEMMA AdvancedOK ==
  ASSUME NEW s \in Disps
  PROVE  Advanced(s) \in Disps
<1>1. s.cursor \in Int /\ s.dir \in Int /\ s.shift \in Int
  BY DEF Disps, Whole
<1> DEFINE i == s.cursor + 1
           j == s.cursor + s.dir
           k == s.shift + (IF s.shifting THEN s.dir ELSE 0)
<1>2. i \in Whole /\ j \in Whole /\ k \in Whole
  BY <1>1 DEF Whole
<1>3. Advanced(s) = AtCursor(s, i) \/ Advanced(s) = MovedOn(s, j, k)
  BY DEF Advanced, AtCursor, MovedOn
<1> HIDE DEF i, j, k
<1> QED BY <1>2, <1>3, DispFields

LEMMA FetchedOK ==
  ASSUME NEW s \in Disps
  PROVE  Fetched(s) \in Octets
<1>1. s.cursor % 64 \in 0..63 /\ s.cursor % 128 \in 0..127
  <2> DEFINE c == s.cursor
  <2>1. c \in Int
    BY DEF Disps, Whole
  <2> HIDE DEF c
  <2>2. c % 64 \in 0..63 /\ c % 128 \in 0..127
    BY <2>1
  <2> QED BY <2>2 DEF c
<1>2. s.cgram \in [0..63 -> Octets] /\ s.ddram \in [0..127 -> Octets]
  BY DEF Disps, Rams, Chars
<1> QED BY <1>1, <1>2 DEF Fetched

LEMMA AppliedOK ==
  ASSUME NEW s \in Disps, NEW rs \in Levels, NEW d \in Octets
  PROVE  Applied(s, rs, d) \in Disps
<1>1. CASE rs = 1
  <2> DEFINE c == [s.cgram EXCEPT ![s.cursor % 64] = d]
             r == [s.ddram EXCEPT ![s.cursor % 128] = d]
             t == IF s.chargen THEN [s EXCEPT !.cgram = c] ELSE [s EXCEPT !.ddram = r]
  <2>1. s.cgram \in [0..63 -> Octets] /\ s.ddram \in [0..127 -> Octets]
    BY DEF Disps, Rams, Chars
  <2>2. c \in Chars /\ r \in Rams
    BY <2>1 DEF Rams, Chars
  <2>3. Applied(s, rs, d) = Advanced(t)
    BY <1>1 DEF Applied, Stored
  <2> HIDE DEF c, r
  <2>4. t \in Disps
    BY <2>2, DispFields
  <2> QED BY <2>3, <2>4, AdvancedOK
<1>2. CASE rs # 1
  <2> DEFINE m == IF (d \div 2) % 2 = 1 THEN 1 ELSE -1
             b == (d % 2 = 1)
             n == s.cursor + Move(d)
             h == s.shift + Move(d)
             p == d % 64
             q == d % 128
             clear == Clear.ddram
  <2>0. s.cursor \in Int /\ s.shift \in Int /\ Applied(s, rs, d) = Instructed(s, d) /\ d \in Nat
    BY <1>2 DEF Disps, Whole, Applied, Octets
  <2>1. clear \in Rams
    <3>1. Clear.ddram = [a \in 0..127 |-> 32] /\ 32 \in Octets
      BY DEF Clear, Octets
    <3> QED BY <3>1 DEF Rams
  <2>2. n \in Whole /\ h \in Whole /\ p \in Whole /\ q \in Whole /\ 0 \in Whole /\ 1 \in Whole /\ m \in Whole
    BY <2>0, DivisionOfInt DEF Whole, Move
  <2>3. b \in Bools /\ TRUE \in Bools /\ FALSE \in Bools
    BY DEF Bools
  <2>4. \/ Instructed(s, d) = Wiped(s, clear, 0, 0, 1)
        \/ Instructed(s, d) = MovedOn(s, 0, 0)
        \/ Instructed(s, d) = EntryMode(s, b, m)
        \/ Instructed(s, d) = AtCursor(s, n)
        \/ Instructed(s, d) = Scrolled(s, h)
        \/ Instructed(s, d) = Addressed(s, TRUE, p)
        \/ Instructed(s, d) = Addressed(s, FALSE, q)
        \/ Instructed(s, d) = s
    BY DEF Instructed, Homed, MovedOn, AtCursor, Scrolled, EntryMode, Addressed, Wiped
  <2> HIDE DEF m, b, n, h, p, q, clear
  <2>5. MovedOn(s, 0, 0) \in Disps /\ AtCursor(s, n) \in Disps /\ Scrolled(s, h) \in Disps
    BY <2>2, DispFields
  <2>6. EntryMode(s, b, m) \in Disps
    BY <2>2, <2>3, DispFields
  <2>7. Addressed(s, TRUE, p) \in Disps /\ Addressed(s, FALSE, q) \in Disps
    BY <2>2, <2>3, DispFields
  <2>8. Wiped(s, clear, 0, 0, 1) \in Disps
    BY <2>1, <2>2, DispFields
  <2> QED BY <2>0, <2>4, <2>5, <2>6, <2>7, <2>8
<1> QED BY <1>1, <1>2

(* The mark of a byte: what an instruction changes of the display, and     *)
(* the one cell a character goes to.                                       *)
LEMMA MarkLeft ==
  ASSUME NEW s \in Disps, NEW rs \in Levels, NEW d \in Octets
  PROVE  LeavesItsMark(s, rs, d, Applied(s, rs, d))
<1> DEFINE t == Applied(s, rs, d)
<1>1. CASE rs = 0
  <2>1. t = Instructed(s, d) /\ d \in 0..255
    BY <1>1 DEF Applied, Octets
  <2> SUFFICES LeavesItsMark(s, rs, d, t)
    OBVIOUS
  <2> HIDE DEF t
  <2>2. \A n : /\ AtCursor(s, n).ddram = s.ddram /\ AtCursor(s, n).cgram = s.cgram
               /\ Scrolled(s, n).ddram = s.ddram /\ Scrolled(s, n).cgram = s.cgram
               /\ MovedOn(s, n, n).ddram = s.ddram /\ MovedOn(s, n, n).cgram = s.cgram
               /\ MovedOn(s, n, n).cursor = n /\ MovedOn(s, n, n).shift = n
    BY DEF Disps, AtCursor, Scrolled, MovedOn
  <2>3. \A n, b : /\ EntryMode(s, b, n).ddram = s.ddram /\ EntryMode(s, b, n).cgram = s.cgram
                  /\ Addressed(s, b, n).ddram = s.ddram /\ Addressed(s, b, n).cgram = s.cgram
    BY DEF Disps, EntryMode, Addressed
  <2>4. CASE d = 1
    <3> DEFINE r == Clear.ddram
    <3>1. t = Wiped(s, r, 0, 0, 1)
      BY <2>1, <2>4 DEF Instructed, Homed, Wiped
    <3>2. \A a \in 0..127 : r[a] = 32
      BY DEF Clear
    <3> HIDE DEF r
    <3>3. t.ddram = r /\ t.cgram = s.cgram /\ t.cursor = 0 /\ t.shift = 0
      BY <3>1 DEF Disps, Wiped
    <3> QED BY <1>1, <2>4, <3>2, <3>3 DEF LeavesItsMark
  <2>5. CASE d \in 2..3
    <3>1. t = MovedOn(s, 0, 0)
      BY <2>1, <2>5 DEF Instructed, Homed, MovedOn
    <3>2. t.ddram = s.ddram /\ t.cgram = s.cgram /\ t.cursor = 0 /\ t.shift = 0
      BY <2>2, <3>1
    <3>3. d # 1 /\ ~ (d >= 128) /\ rs # 1
      BY <1>1, <2>5
    <3> QED BY <3>2, <3>3 DEF LeavesItsMark
  <2>6. CASE d \in 128..255
    <3> DEFINE q == d % 128
    <3>1. t = Addressed(s, FALSE, q) /\ q = d - 128
      BY <2>1, <2>6 DEF Instructed, Addressed
    <3> HIDE DEF q
    <3>2. /\ t.ddram = s.ddram /\ t.cgram = s.cgram /\ t.cursor = q
          /\ t.shift = s.shift /\ t.chargen = FALSE
      BY <3>1 DEF Addressed, Disps, Bools
    <3>3. d # 1 /\ d \notin 1..3 /\ rs # 1
      BY <1>1, <2>6
    <3> QED BY <3>1, <3>2, <3>3 DEF LeavesItsMark
  <2>7. CASE d = 0 \/ d \in 4..127
    <3>1. \/ \E n : t = AtCursor(s, n) \/ t = Scrolled(s, n)
          \/ \E n, b : t = EntryMode(s, b, n) \/ t = Addressed(s, b, n)
          \/ t = s
      <4>1. CASE d \in 4..7
        <5> DEFINE b == (d % 2 = 1)
                   n == IF (d \div 2) % 2 = 1 THEN 1 ELSE -1
        <5>1. t = EntryMode(s, b, n)
          BY <2>1, <4>1 DEF Instructed, EntryMode
        <5> QED BY <5>1
      <4>2. CASE d \in 16..31
        <5>1. t = AtCursor(s, s.cursor + Move(d)) \/ t = Scrolled(s, s.shift + Move(d))
          BY <2>1, <4>2 DEF Instructed, AtCursor, Scrolled
        <5> QED BY <5>1
      <4>3. CASE d \in 64..127
        <5>1. t = Addressed(s, TRUE, d % 64)
          BY <2>1, <4>3 DEF Instructed, Addressed
        <5> QED BY <5>1
      <4>4. CASE d = 0 \/ d \in 8..15 \/ d \in 32..63
        BY <2>1, <4>4 DEF Instructed
      <4> QED BY <2>7, <4>1, <4>2, <4>3, <4>4
    <3>2. t.ddram = s.ddram /\ t.cgram = s.cgram
      BY <2>2, <2>3, <3>1
    <3> QED BY <1>1, <2>7, <3>2 DEF LeavesItsMark
  <2> QED BY <2>1, <2>4, <2>5, <2>6, <2>7
<1>2. CASE rs = 1 /\ ~ s.chargen
  <2> DEFINE c == s.cursor % 128
             r == [s.ddram EXCEPT ![c] = d]
             u == [s EXCEPT !.ddram = r]
  <2>1. t = Advanced(u)
    BY <1>2 DEF Applied, Stored
  <2>2. s.ddram \in [0..127 -> Octets] /\ \A a \in 0..127 : r[a] = IF a = c THEN d ELSE s.ddram[a]
    BY DEF Disps, Rams
  <2> HIDE DEF r, c
  <2>3. u.ddram = r /\ u.cgram = s.cgram /\ u.chargen = s.chargen
    BY DEF Disps
  <2>4. Advanced(u).ddram = u.ddram /\ Advanced(u).cgram = u.cgram
    BY <1>2, <2>3 DEF Advanced, Disps
  <2> HIDE DEF u, t
  <2>5. LeavesItsMark(s, rs, d, t)
    BY <1>2, <2>1, <2>2, <2>3, <2>4 DEF LeavesItsMark, c
  <2> QED BY <2>5 DEF t
<1>3. CASE rs = 1 /\ s.chargen
  BY <1>3 DEF LeavesItsMark
<1> QED BY <1>1, <1>2, <1>3 DEF Levels

Lcds == [disp : Disps, four : Bools, phase : Levels, busy : Ticks, latched : Octets, shows : Octets,
         lastE : Levels]

(* The changes the controller makes, named.                                *)
Settled(l, e) == [l EXCEPT !.lastE = e]
Latching(l, v) == [l EXCEPT !.latched = v]
Halved(l, v, h) == [l EXCEPT !.latched = v, !.phase = h]
Showing(l, v) == [l EXCEPT !.shows = v]
ShowingHalf(l, v, h) == [l EXCEPT !.shows = v, !.phase = h]
CarriedOut(l, d, n) == [l EXCEPT !.disp = d, !.busy = n]
Interfaced(l, f, h) == [l EXCEPT !.four = f, !.phase = h]
Counted4(l, n) == [l EXCEPT !.busy = n]

LEMMA IsSettled ==
  ASSUME NEW l \in Lcds, NEW e \in Levels
  PROVE  /\ Settled(l, e) \in Lcds /\ Settled(l, e).disp = l.disp
         /\ Settled(l, e).four = l.four /\ Settled(l, e).phase = l.phase
         /\ Settled(l, e).busy = l.busy /\ Settled(l, e).latched = l.latched
         /\ Settled(l, e).shows = l.shows /\ Settled(l, e).lastE = e
BY DEF Lcds, Settled

LEMMA IsLatching ==
  ASSUME NEW l \in Lcds, NEW v \in Octets
  PROVE  /\ Latching(l, v) \in Lcds /\ Latching(l, v).disp = l.disp
         /\ Latching(l, v).four = l.four /\ Latching(l, v).phase = l.phase
         /\ Latching(l, v).busy = l.busy /\ Latching(l, v).latched = v
         /\ Latching(l, v).shows = l.shows /\ Latching(l, v).lastE = l.lastE
BY DEF Lcds, Latching

LEMMA IsHalved ==
  ASSUME NEW l \in Lcds, NEW v \in Octets, NEW h \in Levels
  PROVE  /\ Halved(l, v, h) \in Lcds /\ Halved(l, v, h).disp = l.disp
         /\ Halved(l, v, h).four = l.four /\ Halved(l, v, h).phase = h
         /\ Halved(l, v, h).busy = l.busy /\ Halved(l, v, h).latched = v
         /\ Halved(l, v, h).shows = l.shows /\ Halved(l, v, h).lastE = l.lastE
BY DEF Lcds, Halved

LEMMA IsShowing ==
  ASSUME NEW l \in Lcds, NEW v \in Octets
  PROVE  /\ Showing(l, v) \in Lcds /\ Showing(l, v).disp = l.disp
         /\ Showing(l, v).four = l.four /\ Showing(l, v).phase = l.phase
         /\ Showing(l, v).busy = l.busy /\ Showing(l, v).latched = l.latched
         /\ Showing(l, v).shows = v /\ Showing(l, v).lastE = l.lastE
BY DEF Lcds, Showing

LEMMA IsShowingHalf ==
  ASSUME NEW l \in Lcds, NEW v \in Octets, NEW h \in Levels
  PROVE  /\ ShowingHalf(l, v, h) \in Lcds /\ ShowingHalf(l, v, h).disp = l.disp
         /\ ShowingHalf(l, v, h).four = l.four /\ ShowingHalf(l, v, h).phase = h
         /\ ShowingHalf(l, v, h).busy = l.busy /\ ShowingHalf(l, v, h).latched = l.latched
         /\ ShowingHalf(l, v, h).shows = v /\ ShowingHalf(l, v, h).lastE = l.lastE
BY DEF Lcds, ShowingHalf

LEMMA IsCarriedOut ==
  ASSUME NEW l \in Lcds, NEW d \in Disps, NEW n \in Ticks
  PROVE  /\ CarriedOut(l, d, n) \in Lcds /\ CarriedOut(l, d, n).disp = d
         /\ CarriedOut(l, d, n).four = l.four /\ CarriedOut(l, d, n).phase = l.phase
         /\ CarriedOut(l, d, n).busy = n /\ CarriedOut(l, d, n).latched = l.latched
         /\ CarriedOut(l, d, n).shows = l.shows /\ CarriedOut(l, d, n).lastE = l.lastE
BY DEF Lcds, CarriedOut

LEMMA IsInterfaced ==
  ASSUME NEW l \in Lcds, NEW f \in Bools, NEW h \in Levels
  PROVE  /\ Interfaced(l, f, h) \in Lcds /\ Interfaced(l, f, h).disp = l.disp
         /\ Interfaced(l, f, h).four = f /\ Interfaced(l, f, h).phase = h
         /\ Interfaced(l, f, h).busy = l.busy /\ Interfaced(l, f, h).latched = l.latched
         /\ Interfaced(l, f, h).shows = l.shows /\ Interfaced(l, f, h).lastE = l.lastE
BY DEF Lcds, Interfaced

LEMMA IsCounted4 ==
  ASSUME NEW l \in Lcds, NEW n \in Ticks
  PROVE  /\ Counted4(l, n) \in Lcds /\ Counted4(l, n).disp = l.disp
         /\ Counted4(l, n).four = l.four /\ Counted4(l, n).phase = l.phase
         /\ Counted4(l, n).busy = n /\ Counted4(l, n).latched = l.latched
         /\ Counted4(l, n).shows = l.shows /\ Counted4(l, n).lastE = l.lastE
BY DEF Lcds, Counted4

(***************************************************************************)
(* Half bytes.                                                             *)
(***************************************************************************)
Upper(d) == d - (d % 16)

LEMMA Halves ==
  ASSUME NEW d \in Octets
  PROVE  /\ d % 16 \in 0..15 /\ d \div 16 \in 0..15 /\ d = 16 * (d \div 16) + (d % 16)
         /\ Upper(d) = 16 * (d \div 16) /\ Upper(d) \in Octets /\ 16 * (d % 16) \in Octets
<1>1. d \in Nat /\ d <= 255
  BY DEF Octets
<1> DEFINE q == d \div 16
           r == d % 16
<1>2. q \in Nat /\ r \in 0..15 /\ d = 16 * q + r
  BY <1>1, Division
<1> HIDE DEF q, r
<1>3. q \in 0..15 /\ d - r = 16 * q /\ 16 * q \in 0..255 /\ 16 * r \in 0..255
  BY <1>1, <1>2
<1> QED BY <1>2, <1>3 DEF q, r, Upper, Octets

LEMMA Put ==
  ASSUME NEW q \in 0..15, NEW r \in 0..15
  PROVE  /\ 16 * q + r \in Octets /\ (16 * q + r) % 16 = r /\ (16 * q + r) \div 16 = q
         /\ Upper(16 * q + r) = 16 * q
<1> DEFINE x == 16 * q + r
<1>1. x \in Octets /\ x \in Int /\ q \in Int /\ r \in 0..16 - 1 /\ 16 \in Nat \ {0} /\ x - r = 16 * q
  BY DEF Octets
<1>2. x = 16 * q + r
  OBVIOUS
<1> HIDE DEF x
<1>3. x % 16 = r /\ x \div 16 = q
  BY <1>1, <1>2, Remainder, Quotient
<1>4. x % 16 = r /\ x \div 16 = q /\ Upper(x) = 16 * q
  BY <1>1, <1>3 DEF Upper
<1> QED BY <1>1, <1>4 DEF x

LEMMA AssembledIs ==
  ASSUME NEW x \in Octets, NEW y \in Octets
  PROVE  /\ Assembled(x, 0, y) = 16 * (y \div 16) + (x % 16)
         /\ Assembled(x, 1, y) = 16 * (x \div 16) + (y \div 16)
         /\ Assembled(x, 0, y) \in Octets /\ Assembled(x, 1, y) \in Octets
         /\ Assembled(x, 0, y) \div 16 = y \div 16
<1> DEFINE q == x \div 16
           r == x % 16
           t == y \div 16
           u == y % 16
<1>1. q \in 0..15 /\ r \in 0..15 /\ t \in 0..15 /\ u \in 0..15 /\ x = 16 * q + r /\ y = 16 * t + u
  BY Halves
<1>2. Assembled(x, 0, y) = r + y - u /\ Assembled(x, 1, y) = x - r + t
  BY DEF Assembled
<1> HIDE DEF q, r, t, u
<1>3. r + y - u = 16 * t + r /\ x - r + t = 16 * q + t
  BY <1>1
<1>4. Assembled(x, 0, y) = 16 * t + r /\ Assembled(x, 1, y) = 16 * q + t
  BY <1>2, <1>3
<1> QED BY <1>1, <1>4, Put DEF q, r, t, u

(***************************************************************************)
(* What a byte put together does to the controller.                        *)
(***************************************************************************)
LEMMA CommittedIs ==
  ASSUME NEW l \in Lcds, NEW rs \in Levels, ~ l.four => l.phase = 0
  PROVE  /\ Committed(l, rs) \in Lcds /\ Committed(l, rs).lastE = l.lastE
         /\ ~ Committed(l, rs).four => Committed(l, rs).phase = 0
         /\ l.phase = 0 => Committed(l, rs).phase = 0
         /\ l.busy = 0 => /\ Committed(l, rs).disp = Applied(l.disp, rs, l.latched)
                          /\ rs = 0 /\ l.latched \in 32..63 =>
                               Committed(l, rs).four = ((l.latched \div 16) % 2 = 0)
                          /\ ~ (rs = 0 /\ l.latched \in 32..63) => Committed(l, rs).four = l.four
<1>0. /\ l.disp \in Disps /\ l.four \in Bools /\ l.busy \in Ticks /\ l.latched \in Octets
      /\ l.phase \in Levels
  BY DEF Lcds
<1>1. CASE l.busy > 0
  <2>1. Committed(l, rs) = l /\ l.busy # 0
    BY <1>1, <1>0 DEF Committed, Ticks
  <2> QED BY <2>1
<1>2. CASE ~ (l.busy > 0)
  <2> DEFINE d == l.latched
             n == IF rs = 1 \/ d > 1 THEN ShortBusy ELSE IF d = 1 THEN LongBusy ELSE l.busy
             a == Applied(l.disp, rs, d)
             s == CarriedOut(l, a, n)
             f == ((d \div 16) % 2 = 0)
  <2>1. n \in Ticks /\ a \in Disps /\ f \in Bools /\ 0 \in Levels
    BY <1>0, LcdAssumption, AppliedOK DEF Ticks, Bools, Levels
  <2>2. Committed(l, rs) = IF rs = 0 /\ d \in 32..63 THEN Interfaced(s, f, 0) ELSE s
    BY <1>2 DEF Committed, CarriedOut, Interfaced
  <2> HIDE DEF n, a, s, f
  <2>3. s \in Lcds /\ s.lastE = l.lastE /\ s.four = l.four /\ s.phase = l.phase /\ s.disp = a
    BY <2>1, IsCarriedOut DEF s
  <2>4. /\ Interfaced(s, f, 0) \in Lcds /\ Interfaced(s, f, 0).lastE = l.lastE
        /\ Interfaced(s, f, 0).four = f /\ Interfaced(s, f, 0).phase = 0
        /\ Interfaced(s, f, 0).disp = a
    BY <2>1, <2>3, IsInterfaced
  <2>5. CASE rs = 0 /\ d \in 32..63
    <3>1. Committed(l, rs) = Interfaced(s, f, 0)
      BY <2>2, <2>5
    <3> QED BY <2>4, <2>5, <3>1 DEF a, f
  <2>6. CASE ~ (rs = 0 /\ d \in 32..63)
    <3>1. Committed(l, rs) = s
      BY <2>2, <2>6
    <3> QED BY <2>3, <2>6, <3>1 DEF a
  <2> QED BY <2>5, <2>6
<1> QED BY <1>1, <1>2

Wires == [e : Levels, rs : Levels, rw : Levels, bus : Octets]

(* What is left of the interface once byte v is executed with RS at rs.    *)
Interface(l, rs, v) ==
  IF rs = 0 /\ v \in 32..63 THEN (v \div 16) % 2 = 0 ELSE l.four

LEMMA WriteEdgeIs ==
  ASSUME NEW l \in Lcds, NEW p \in Wires, ~ l.four => l.phase = 0
  PROVE  LET w == WriteEdge(l, p)
             v == 16 * (l.latched \div 16) + (p.bus \div 16)
         IN  /\ w \in Lcds /\ w.lastE = l.lastE /\ (~ w.four => w.phase = 0)
             /\ l.four /\ l.phase = 0 =>
                  /\ w.four = l.four /\ w.phase = 1 /\ w.disp = l.disp /\ w.busy = l.busy
                  /\ w.latched \div 16 = p.bus \div 16
             /\ l.busy = 0 /\ ~ l.four =>
                  w.phase = 0 /\ w.disp = Applied(l.disp, p.rs, p.bus) /\ w.four = Interface(l, p.rs, p.bus)
             /\ l.busy = 0 /\ l.four /\ l.phase = 1 =>
                  w.phase = 0 /\ w.disp = Applied(l.disp, p.rs, v) /\ w.four = Interface(l, p.rs, v)
<1> DEFINE v == 16 * (l.latched \div 16) + (p.bus \div 16)
           x == Assembled(l.latched, 0, p.bus)
           y == Assembled(l.latched, 1, p.bus)
           w == WriteEdge(l, p)
<1>0. /\ p.rs \in Levels /\ p.bus \in Octets /\ l.latched \in Octets /\ l.phase \in Levels
      /\ l.four \in Bools
  BY DEF Lcds, Wires
<1>1. /\ x \in Octets /\ y \in Octets /\ y = v /\ x \div 16 = p.bus \div 16
      /\ 0 \in Levels /\ 1 \in Levels
  BY <1>0, AssembledIs DEF Levels
<1> HIDE DEF v, x, y
<1>2. CASE ~ l.four
  <2> DEFINE m == Latching(l, p.bus)
  <2>1. w = Committed(m, p.rs)
    BY <1>2 DEF WriteEdge, Latching
  <2>2. m \in Lcds /\ m.lastE = l.lastE /\ m.four = l.four /\ m.phase = l.phase /\ m.disp = l.disp
        /\ m.busy = l.busy /\ m.latched = p.bus
    BY <1>0, IsLatching
  <2> HIDE DEF m, w
  <2>3. m \in Lcds /\ (~ m.four => m.phase = 0) /\ m.phase = 0
    BY <1>2, <2>2
  <2>4. /\ w \in Lcds /\ w.lastE = m.lastE /\ (~ w.four => w.phase = 0) /\ w.phase = 0
        /\ m.busy = 0 => /\ w.disp = Applied(m.disp, p.rs, m.latched)
                         /\ p.rs = 0 /\ m.latched \in 32..63 => w.four = ((m.latched \div 16) % 2 = 0)
                         /\ ~ (p.rs = 0 /\ m.latched \in 32..63) => w.four = m.four
    BY <1>0, <2>1, <2>3, CommittedIs
  <2>5. l.busy = 0 => w.disp = Applied(l.disp, p.rs, p.bus) /\ w.four = Interface(l, p.rs, p.bus)
    BY <2>2, <2>4 DEF Interface
  <2> QED BY <1>2, <2>2, <2>4, <2>5 DEF w
<1>3. CASE l.four /\ l.phase = 0
  <2> DEFINE m == Halved(l, x, 1)
  <2>1. w = m
    <3>1. [l EXCEPT !.latched = Assembled(@, l.phase, p.bus), !.phase = 1 - @] = m
      BY <1>3 DEF Halved, x
    <3>2. m.phase = 1
      BY <1>1, IsHalved
    <3> HIDE DEF m
    <3> QED BY <1>3, <3>1, <3>2 DEF WriteEdge
  <2>2. m \in Lcds /\ m.lastE = l.lastE /\ m.four = l.four /\ m.phase = 1 /\ m.disp = l.disp
        /\ m.busy = l.busy /\ m.latched = x
    BY <1>1, IsHalved
  <2> HIDE DEF m, w
  <2> QED BY <1>1, <1>3, <2>1, <2>2 DEF w
<1>4. CASE l.four /\ l.phase = 1
  <2> DEFINE m == Halved(l, y, 0)
  <2>2. m \in Lcds /\ m.lastE = l.lastE /\ m.four = l.four /\ m.phase = 0 /\ m.disp = l.disp
        /\ m.busy = l.busy /\ m.latched = y
    BY <1>1, IsHalved
  <2>1. w = Committed(m, p.rs)
    <3>1. [l EXCEPT !.latched = Assembled(@, l.phase, p.bus), !.phase = 1 - @] = m
      BY <1>4 DEF Halved, y
    <3>2. m.phase = 0
      BY <2>2
    <3> HIDE DEF m
    <3> QED BY <1>4, <3>1, <3>2 DEF WriteEdge
  <2> HIDE DEF m, w
  <2>3. m \in Lcds /\ (~ m.four => m.phase = 0) /\ m.phase = 0
    BY <2>2
  <2>4. /\ w \in Lcds /\ w.lastE = m.lastE /\ (~ w.four => w.phase = 0) /\ w.phase = 0
        /\ m.busy = 0 => /\ w.disp = Applied(m.disp, p.rs, m.latched)
                         /\ p.rs = 0 /\ m.latched \in 32..63 => w.four = ((m.latched \div 16) % 2 = 0)
                         /\ ~ (p.rs = 0 /\ m.latched \in 32..63) => w.four = m.four
    BY <1>0, <2>1, <2>3, CommittedIs
  <2>5. l.busy = 0 => w.disp = Applied(l.disp, p.rs, v) /\ w.four = Interface(l, p.rs, v)
    BY <1>1, <2>2, <2>4 DEF Interface
  <2> QED BY <1>4, <2>2, <2>4, <2>5 DEF w, v
<1>5. l.phase = 0 \/ l.phase = 1
  BY <1>0 DEF Levels
<1> QED BY <1>2, <1>3, <1>4, <1>5

(***************************************************************************)
(* The edges of E.                                                         *)
(***************************************************************************)
LEMMA Quiet ==
  ASSUME NEW l \in Lcds, NEW p \in Wires,
         ~ (p.e = 1 /\ l.lastE = 0 /\ p.rw = 1), ~ (p.e = 0 /\ l.lastE = 1 /\ p.rw = 0)
  PROVE  LET w == OnEWrite(l, p)
         IN  /\ w \in Lcds /\ w.lastE = p.e /\ w.four = l.four /\ w.phase = l.phase
             /\ w.disp = l.disp /\ w.busy = l.busy /\ w.latched = l.latched /\ w.shows = l.shows
<1>1. OnEWrite(l, p) = Settled(l, p.e)
  BY DEF OnEWrite, Settled
<1>2. p.e \in Levels
  BY DEF Wires
<1> QED BY <1>1, <1>2, IsSettled

LEMMA EdgeIs ==
  ASSUME NEW l \in Lcds, NEW p \in Wires, ~ l.four => l.phase = 0, p.e = 0, l.lastE = 1, p.rw = 0
  PROVE  LET w == OnEWrite(l, p)
             v == 16 * (l.latched \div 16) + (p.bus \div 16)
         IN  /\ w \in Lcds /\ w.lastE = 0 /\ (~ w.four => w.phase = 0)
             /\ l.four /\ l.phase = 0 =>
                  /\ w.four = l.four /\ w.phase = 1 /\ w.disp = l.disp /\ w.busy = l.busy
                  /\ w.latched \div 16 = p.bus \div 16
             /\ l.busy = 0 /\ ~ l.four =>
                  w.phase = 0 /\ w.disp = Applied(l.disp, p.rs, p.bus) /\ w.four = Interface(l, p.rs, p.bus)
             /\ l.busy = 0 /\ l.four /\ l.phase = 1 =>
                  w.phase = 0 /\ w.disp = Applied(l.disp, p.rs, v) /\ w.four = Interface(l, p.rs, v)
<1> DEFINE m == WriteEdge(l, p)
<1>1. OnEWrite(l, p) = Settled(m, 0)
  BY DEF OnEWrite, Settled
<1>2. m \in Lcds
  BY WriteEdgeIs
<1>3. 0 \in Levels
  BY DEF Levels
<1> DEFINE w == OnEWrite(l, p)
<1>4. /\ w \in Lcds /\ w.lastE = 0 /\ w.four = m.four /\ w.phase = m.phase
      /\ w.disp = m.disp /\ w.busy = m.busy /\ w.latched = m.latched
  <2> HIDE DEF m
  <2> QED BY <1>1, <1>2, <1>3, IsSettled
<1> HIDE DEF w
<1>5. WriteEdge(l, p) = m
  OBVIOUS
<1> HIDE DEF m
<1> QED BY <1>4, <1>5, WriteEdgeIs DEF w

(***************************************************************************)
(* A reading is shown high half first; the second pulse shows the other.   *)
(***************************************************************************)
LEMMA PresentedIs ==
  ASSUME NEW l \in Lcds
  PROVE  LET w == Presented(l)
         IN  l.four =>
               /\ w \in Lcds /\ w.four = l.four /\ w.lastE = l.lastE /\ w.disp = l.disp /\ w.busy = l.busy
               /\ l.phase = 0 => w.phase = 1 /\ w.shows = Upper(l.latched)
               /\ l.phase = 1 => w.phase = 0 /\ w.shows = 16 * (l.latched % 16)
<1> DEFINE x == Upper(l.latched)
           y == 16 * (l.latched % 16)
           w == Presented(l)
<1>0. l.latched \in Octets /\ l.phase \in Levels
  BY DEF Lcds
<1>1. x \in Octets /\ y \in Octets /\ 0 \in Levels /\ 1 \in Levels
  BY <1>0, Halves DEF Levels
<1>2. l.four /\ l.phase = 0 => w = ShowingHalf(l, x, 1)
  BY DEF Presented, ShowingHalf, Upper
<1>3. l.four /\ l.phase = 1 => w = ShowingHalf(l, y, 0)
  BY DEF Presented, ShowingHalf
<1> HIDE DEF x, y, w
<1>4. l.phase = 0 \/ l.phase = 1
  BY <1>0 DEF Levels
<1>5. ASSUME NEW z \in Octets, NEW h \in Levels, w = ShowingHalf(l, z, h)
      PROVE  /\ w \in Lcds /\ w.four = l.four /\ w.lastE = l.lastE /\ w.disp = l.disp
             /\ w.busy = l.busy /\ w.phase = h /\ w.shows = z
  BY <1>5, IsShowingHalf
<1>6. l.phase # 0 \/ l.phase # 1
  OBVIOUS
<1> QED BY <1>1, <1>2, <1>3, <1>4, <1>5, <1>6 DEF w, x, y

LEMMA StatusEdge ==
  ASSUME NEW l \in Lcds, l.four, NEW p \in Wires, p.e = 1, l.lastE = 0, p.rw = 1, p.rs = 0
  PROVE  LET w == OnEWrite(l, p)
         IN  /\ w \in Lcds /\ w.four /\ w.lastE = 1 /\ w.disp = l.disp /\ w.busy = l.busy
             /\ l.phase = 0 => /\ w.phase = 1 /\ w.shows \in Octets /\ w.shows % 16 = 0
                               /\ w.shows < 128 => l.busy = 0
             /\ l.phase = 1 => w.phase = 0 /\ \E r \in 0..15 : w.shows = 16 * r
<1> DEFINE c == l.disp.cursor % 128
           v == c + (IF l.busy > 0 THEN 128 ELSE 0)
           m == Latching(l, v)
           q == Presented(m)
           w == OnEWrite(l, p)
<1>1. c \in 0..127
  <2> DEFINE i == l.disp.cursor
  <2>1. i \in Int
    BY DEF Lcds, Disps, Whole
  <2> HIDE DEF i
  <2>2. i % 128 \in 0..127
    BY <2>1
  <2> QED BY <2>2 DEF i
<1>2. v \in Octets /\ l.busy \in Nat /\ (v < 128 => l.busy = 0)
  <2>1. l.busy \in Nat
    BY DEF Lcds, Ticks
  <2> HIDE DEF c
  <2> QED BY <1>1, <2>1 DEF Octets
<1>3. w = Settled(q, 1)
  BY DEF OnEWrite, StatusRead, Latching, Settled
<1> HIDE DEF v
<1>4. /\ m \in Lcds /\ m.four = l.four /\ m.lastE = l.lastE /\ m.disp = l.disp /\ m.busy = l.busy
      /\ m.phase = l.phase /\ m.latched = v
  BY <1>2, IsLatching
<1> HIDE DEF m
<1>5. /\ q \in Lcds /\ q.four = m.four /\ q.lastE = m.lastE /\ q.disp = m.disp /\ q.busy = m.busy
      /\ m.phase = 0 => q.phase = 1 /\ q.shows = Upper(m.latched)
      /\ m.phase = 1 => q.phase = 0 /\ q.shows = 16 * (m.latched % 16)
  BY <1>4, PresentedIs
<1> HIDE DEF q, w
<1>6. /\ w \in Lcds /\ w.four = q.four /\ w.lastE = 1 /\ w.disp = q.disp /\ w.busy = q.busy
      /\ w.phase = q.phase /\ w.shows = q.shows
  <2>1. 1 \in Levels
    BY DEF Levels
  <2> QED BY <1>3, <1>5, <2>1, IsSettled
<1>7. /\ Upper(v) \in Octets /\ Upper(v) % 16 = 0 /\ v % 16 \in 0..15
      /\ Upper(v) < 128 => v < 128
  <2> DEFINE a == v \div 16
             b == v % 16
  <2>1. a \in 0..15 /\ b \in 0..15 /\ v = 16 * a + b /\ Upper(v) = 16 * a /\ Upper(v) \in Octets
    BY <1>2, Halves
  <2> HIDE DEF a, b
  <2>2. 16 * a = 16 * a + 0 /\ 0 \in 0..15
    BY <2>1
  <2>3. (16 * a + 0) % 16 = 0
    BY <2>1, <2>2, Put
  <2>4. 16 * a < 128 => 16 * a + b < 128
    BY <2>1
  <2> QED BY <2>1, <2>2, <2>3, <2>4 DEF b
<1> QED BY <1>2, <1>4, <1>5, <1>6, <1>7 DEF w

LEMMA DataEdge ==
  ASSUME NEW l \in Lcds, l.four, NEW p \in Wires, p.e = 1, l.lastE = 0, p.rw = 1, p.rs = 1, l.busy = 0
  PROVE  LET w == OnEWrite(l, p)
             v == Fetched(l.disp)
         IN  /\ w \in Lcds /\ w.four /\ w.lastE = 1
             /\ l.phase = 0 => w.phase = 1 /\ w.shows = Upper(v) /\ w.disp = l.disp /\ w.busy = 0
             /\ l.phase = 1 => w.phase = 0 /\ w.shows = 16 * (v % 16) /\ w.disp = Advanced(l.disp)
<1> DEFINE v == Fetched(l.disp)
           m == Latching(l, v)
           d == Advanced(l.disp)
           n == CarriedOut(m, d, ShortBusy)
           w == OnEWrite(l, p)
<1>0. l.disp \in Disps /\ l.phase \in Levels /\ v \in Octets /\ d \in Disps /\ ShortBusy \in Ticks
      /\ 1 \in Levels
  BY FetchedOK, AdvancedOK, LcdAssumption DEF Lcds, Ticks, Levels
<1>1. w = Settled(Presented(IF l.phase = 1 THEN n ELSE m), 1)
  <2>1. m.disp = l.disp
    BY <1>0, IsLatching
  <2>2. [m EXCEPT !.disp = Advanced(@), !.busy = ShortBusy] = n
    BY <2>1 DEF CarriedOut
  <2>3. DataRead(l) = Presented(IF l.phase = 1 THEN [m EXCEPT !.disp = Advanced(@), !.busy = ShortBusy] ELSE m)
    BY DEF DataRead, Latching
  <2> HIDE DEF m, n
  <2> QED BY <2>2, <2>3 DEF OnEWrite, Settled
<1>2. /\ m \in Lcds /\ m.four = l.four /\ m.lastE = l.lastE /\ m.disp = l.disp /\ m.busy = l.busy
      /\ m.phase = l.phase /\ m.latched = v
  BY <1>0, IsLatching
<1> HIDE DEF m, v, d
<1>3. /\ n \in Lcds /\ n.four = m.four /\ n.lastE = m.lastE /\ n.disp = d
      /\ n.phase = m.phase /\ n.latched = m.latched
  BY <1>0, <1>2, IsCarriedOut, ZenonT(40)
<1> HIDE DEF n, w
<1>4. CASE l.phase = 0
  <2> DEFINE q == Presented(m)
  <2>1. q \in Lcds /\ q.four = m.four /\ q.disp = m.disp /\ q.busy = m.busy /\ q.phase = 1 /\ q.shows = Upper(v)
    BY <1>2, <1>4, PresentedIs
  <2>2. w = Settled(q, 1)
    BY <1>1, <1>4
  <2> HIDE DEF q
  <2>3. /\ w \in Lcds /\ w.four = q.four /\ w.lastE = 1 /\ w.disp = q.disp /\ w.busy = q.busy
        /\ w.phase = q.phase /\ w.shows = q.shows
    BY <1>0, <2>1, <2>2, IsSettled
  <2> QED BY <1>2, <1>4, <2>1, <2>3 DEF w, v
<1>5. CASE l.phase = 1
  <2> DEFINE q == Presented(n)
  <2>1. q \in Lcds /\ q.four = n.four /\ q.disp = n.disp /\ q.phase = 0 /\ q.shows = 16 * (v % 16)
    BY <1>2, <1>3, <1>5, PresentedIs
  <2>2. w = Settled(q, 1)
    BY <1>1, <1>5
  <2> HIDE DEF q
  <2>3. /\ w \in Lcds /\ w.four = q.four /\ w.lastE = 1 /\ w.disp = q.disp
        /\ w.phase = q.phase /\ w.shows = q.shows
    BY <1>0, <2>1, <2>2, IsSettled
  <2> QED BY <1>2, <1>3, <1>5, <2>1, <2>3 DEF w, v, d
<1> QED BY <1>0, <1>4, <1>5 DEF Levels

(***************************************************************************)
(* Display and firmware together.  While the firmware initialises, each    *)
(* pulse narrows what the display can be waiting for, wherever the reset   *)
(* found it; afterwards the phase is that of the pulses still to come, and *)
(* the halves that have been through are those of the byte under way.      *)
(***************************************************************************)
Knock == Pulse(0, 0, 48)
Enter == Pulse(0, 0, 32)
Jobs == {"init", "poll", "write", "read"}
Drivers == [for : Jobs, rs : Levels, byte : Octets, left : Ticks, awake : Bools, todo : Seq(Wires)]

LcdTypes ==
  /\ lcd \in Lcds /\ want \in Disps /\ lines \in Wires /\ driver \in Drivers
  /\ ~ lcd.four => lcd.phase = 0

Follows ==
  IF driver.awake
  THEN lcd.lastE = lines.e /\ (lines.e = 1 => driver.todo # <<>> /\ lines = Head(driver.todo))
  ELSE driver.for = "init" /\ driver.todo = <<Knock, Knock, Knock, Enter>>

Knocking ==
  driver.awake /\ driver.for = "init" =>
    /\ lines.e = 1 => lcd.busy = 0
    /\ \/ driver.todo = <<Knock, Knock, Knock, Enter>>
       \/ driver.todo = <<Knock, Knock, Enter>> /\ (lcd.phase = 1 => lcd.latched \div 16 = 3)
       \/ driver.todo = <<Knock, Enter>> /\ (lcd.four => lcd.phase = 1 /\ lcd.latched \div 16 = 3)
       \/ driver.todo = <<Enter>> /\ ~ lcd.four
       \/ driver.todo = <<>> /\ lcd.four /\ lcd.phase = 0 /\ lcd.disp = want

Polling ==
  driver.for = "poll" =>
    /\ lcd.four /\ lcd.disp = want
    /\ \/ /\ driver.todo = <<Pulse(0, 1, 0), Pulse(0, 1, 0)>> /\ lcd.phase = lines.e
          /\ lines.e = 1 => driver.byte % 16 = 0 /\ (driver.byte < 128 => lcd.busy = 0)
       \/ /\ driver.todo = <<Pulse(0, 1, 0)>> /\ lcd.phase = 1 - lines.e
          /\ driver.byte < 128 => lcd.busy = 0
          /\ lines.e = 0 => driver.byte % 16 = 0
       \/ /\ driver.todo = <<>> /\ lcd.phase = 0
          /\ driver.byte < 128 => lcd.busy = 0

FirstHalf  == Pulse(driver.rs, 0, Upper(driver.byte))
SecondHalf == Pulse(driver.rs, 0, 16 * (driver.byte % 16))

Writing ==
  driver.for = "write" =>
    /\ lcd.four /\ lcd.disp = want /\ (driver.rs = 0 => driver.byte \notin 48..63)
    /\ \/ driver.todo = <<FirstHalf, SecondHalf>> /\ lcd.phase = 0 /\ lcd.busy = 0
       \/ /\ driver.todo = <<SecondHalf>> /\ lcd.phase = 1 /\ lcd.busy = 0
          /\ lcd.latched \div 16 = driver.byte \div 16
       \/ driver.todo = <<>> /\ lcd.phase = 0

ReadingBack ==
  driver.for = "read" =>
    /\ lcd.four
    /\ \/ /\ driver.todo = <<Pulse(1, 1, 0), Pulse(1, 1, 0)>> /\ lcd.phase = lines.e
          /\ lcd.busy = 0 /\ lcd.disp = want
          /\ lines.e = 1 => driver.byte = Upper(Fetched(want))
       \/ /\ driver.todo = <<Pulse(1, 1, 0)>> /\ lines.e = 0 /\ lcd.phase = 1 /\ lcd.disp = want
          /\ lcd.busy = 0 /\ driver.byte = Upper(Fetched(want))
       \/ /\ driver.todo = <<Pulse(1, 1, 0)>> /\ lines.e = 1 /\ lcd.phase = 0
          /\ lcd.disp = Advanced(want) /\ driver.byte = Fetched(want)
       \/ driver.todo = <<>> /\ lcd.phase = 0 /\ lcd.disp = want

LcdInv == LcdTypes /\ Follows /\ Knocking /\ Polling /\ Writing /\ ReadingBack

LEMMA AtRest ==
  ASSUME LcdInv, driver.todo = <<>>
  PROVE  driver.awake /\ lines.e = 0 /\ lcd.four /\ lcd.phase = 0 /\ lcd.disp = want
<1>1. lines.e \in {0, 1} /\ driver.for \in Jobs
  BY DEF LcdInv, LcdTypes, Wires, Levels, Drivers
<1>2. driver.awake
  <2>1. <<>> # <<Knock, Knock, Knock, Enter>>
    OBVIOUS
  <2> QED BY <2>1 DEF LcdInv, Follows
<1>3. lines.e = 0
  BY <1>1, <1>2 DEF LcdInv, Follows
<1>4. CASE driver.for = "init"
  BY <1>2, <1>3, <1>4 DEF LcdInv, Knocking
<1>5. CASE driver.for = "poll"
  BY <1>2, <1>3, <1>5 DEF LcdInv, Polling
<1>6. CASE driver.for = "write"
  BY <1>2, <1>3, <1>6 DEF LcdInv, Writing
<1>7. CASE driver.for = "read"
  BY <1>2, <1>3, <1>7 DEF LcdInv, ReadingBack
<1> QED BY <1>1, <1>4, <1>5, <1>6, <1>7 DEF Jobs

(***************************************************************************)
(* The firmware's changes.                                                 *)
(***************************************************************************)
Woken(d) == [d EXCEPT !.awake = TRUE]
HasRead(d, b) == [d EXCEPT !.byte = b]
Gone(d, t) == [d EXCEPT !.todo = t]
Given(d, f, rs, b, n, t) == [d EXCEPT !.for = f, !.rs = rs, !.byte = b, !.left = n, !.todo = t]

LEMMA DriverFields ==
  ASSUME NEW S, NEW d \in [for : Jobs, rs : Levels, byte : Octets, left : Ticks, awake : Bools, todo : S],
         NEW b \in Octets, NEW t \in S
  PROVE  /\ HasRead(d, b).for = d.for /\ HasRead(d, b).rs = d.rs /\ HasRead(d, b).awake = d.awake
         /\ HasRead(d, b).byte = b /\ HasRead(d, b).todo = d.todo /\ HasRead(d, b).left = d.left
         /\ HasRead(d, b) \in [for : Jobs, rs : Levels, byte : Octets, left : Ticks, awake : Bools, todo : S]
         /\ Gone(d, t).for = d.for /\ Gone(d, t).rs = d.rs /\ Gone(d, t).awake = d.awake
         /\ Gone(d, t).byte = d.byte /\ Gone(d, t).todo = t /\ Gone(d, t).left = d.left
         /\ Gone(d, t) \in [for : Jobs, rs : Levels, byte : Octets, left : Ticks, awake : Bools, todo : S]
BY DEF HasRead, Gone

LEMMA WokenIs ==
  ASSUME NEW S, NEW d \in [for : Jobs, rs : Levels, byte : Octets, left : Ticks, awake : Bools, todo : S],
         TRUE \in Bools
  PROVE  /\ Woken(d).for = d.for /\ Woken(d).awake /\ Woken(d).todo = d.todo
         /\ Woken(d) \in [for : Jobs, rs : Levels, byte : Octets, left : Ticks, awake : Bools, todo : S]
BY DEF Woken

LEMMA GivenIs ==
  ASSUME NEW S, NEW d \in [for : Jobs, rs : Levels, byte : Octets, left : Ticks, awake : Bools, todo : S],
         NEW b \in Octets, NEW t \in S, NEW f \in Jobs, NEW rs \in Levels, NEW n \in Ticks
  PROVE  LET g == Given(d, f, rs, b, n, t)
         IN  /\ g.for = f /\ g.rs = rs /\ g.awake = d.awake /\ g.byte = b /\ g.todo = t /\ g.left = n
             /\ g \in [for : Jobs, rs : Levels, byte : Octets, left : Ticks, awake : Bools, todo : S]
BY DEF Given

-----------------------------------------------------------------------------
(***************************************************************************)
(* Lines and lists of pulses.                                              *)
(***************************************************************************)
LowE(p) == [p EXCEPT !.e = 0]
AllLow(p, rw) == [p EXCEPT !.e = 0, !.rs = 0, !.rw = rw]

LEMMA LinesAre ==
  ASSUME NEW p \in Wires, 0 \in Levels, NEW rw \in Levels
  PROVE  /\ LowE(p) \in Wires /\ LowE(p).e = 0 /\ LowE(p).rs = p.rs /\ LowE(p).rw = p.rw
         /\ LowE(p).bus = p.bus
         /\ AllLow(p, rw) \in Wires /\ AllLow(p, rw).e = 0 /\ AllLow(p, rw).rs = 0
         /\ AllLow(p, rw).rw = rw /\ AllLow(p, rw).bus = p.bus
BY DEF Wires, LowE, AllLow

LEMMA PulseIs ==
  ASSUME NEW rs \in Levels, NEW rw \in Levels, NEW bus \in Octets
  PROVE  /\ Pulse(rs, rw, bus) \in Wires /\ Pulse(rs, rw, bus).e = 1 /\ Pulse(rs, rw, bus).rs = rs
         /\ Pulse(rs, rw, bus).rw = rw /\ Pulse(rs, rw, bus).bus = bus
BY DEF Wires, Pulse, Levels

LEMMA Shorter ==
  ASSUME NEW a, NEW b, NEW c, NEW d
  PROVE  /\ Len(<<a, b, c, d>>) = 4 /\ Head(<<a, b, c, d>>) = a /\ Tail(<<a, b, c, d>>) = <<b, c, d>>
         /\ Len(<<b, c, d>>) = 3 /\ Head(<<b, c, d>>) = b /\ Tail(<<b, c, d>>) = <<c, d>>
         /\ Len(<<c, d>>) = 2 /\ Head(<<c, d>>) = c /\ Tail(<<c, d>>) = <<d>>
         /\ Len(<<d>>) = 1 /\ Head(<<d>>) = d /\ Tail(<<d>>) = <<>>
         /\ <<a, b, c, d>> # <<>> /\ <<b, c, d>> # <<>> /\ <<c, d>> # <<>> /\ <<d>> # <<>>
OBVIOUS

LEMMA HasReadIs ==
  ASSUME NEW d \in Drivers, NEW b \in Octets
  PROVE  /\ HasRead(d, b) \in Drivers /\ HasRead(d, b).for = d.for /\ HasRead(d, b).rs = d.rs
         /\ HasRead(d, b).awake = d.awake /\ HasRead(d, b).byte = b /\ HasRead(d, b).todo = d.todo
<1> DEFINE S == Seq(Wires)
           R == [for : Jobs, rs : Levels, byte : Octets, left : Ticks, awake : Bools, todo : S]
<1>1. d \in R /\ Drivers = R /\ d.todo \in S
  BY DEF Drivers
<1> HIDE DEF S
<1>2. /\ HasRead(d, b) \in R /\ HasRead(d, b).for = d.for /\ HasRead(d, b).rs = d.rs
      /\ HasRead(d, b).awake = d.awake /\ HasRead(d, b).byte = b /\ HasRead(d, b).todo = d.todo
  BY <1>1, DriverFields
<1> HIDE DEF R
<1> QED BY <1>1, <1>2

LEMMA GoneIs ==
  ASSUME NEW d \in Drivers, NEW t \in Seq(Wires)
  PROVE  /\ Gone(d, t) \in Drivers /\ Gone(d, t).for = d.for /\ Gone(d, t).rs = d.rs
         /\ Gone(d, t).awake = d.awake /\ Gone(d, t).byte = d.byte /\ Gone(d, t).todo = t
<1> DEFINE S == Seq(Wires)
           R == [for : Jobs, rs : Levels, byte : Octets, left : Ticks, awake : Bools, todo : S]
<1>1. d \in R /\ Drivers = R /\ t \in S /\ d.byte \in Octets
  BY DEF Drivers
<1> HIDE DEF S
<1>2. /\ Gone(d, t) \in R /\ Gone(d, t).for = d.for /\ Gone(d, t).rs = d.rs
      /\ Gone(d, t).awake = d.awake /\ Gone(d, t).byte = d.byte /\ Gone(d, t).todo = t
  BY <1>1, DriverFields, SMTT(20)
<1> HIDE DEF R
<1> QED BY <1>1, <1>2

LEMMA AwakeIs ==
  ASSUME NEW d \in Drivers
  PROVE  /\ Woken(d) \in Drivers /\ Woken(d).for = d.for /\ Woken(d).awake /\ Woken(d).todo = d.todo
<1> DEFINE S == Seq(Wires)
           R == [for : Jobs, rs : Levels, byte : Octets, left : Ticks, awake : Bools, todo : S]
<1>1. d \in R /\ Drivers = R /\ TRUE \in Bools
  BY DEF Drivers, Bools
<1> HIDE DEF S
<1>2. /\ Woken(d) \in R /\ Woken(d).for = d.for /\ Woken(d).awake /\ Woken(d).todo = d.todo
  BY <1>1, WokenIs
<1> HIDE DEF R
<1> QED BY <1>1, <1>2

LEMMA LowerFirstKeeps ==
  ASSUME LcdInv, NEW rw \in {0, 1}, LowerFirst(rw)
  PROVE  LcdInv'
<1> DEFINE p == AllLow(lines, rw)
           w == OnEWrite(lcd, p)
<1>0. /\ lcd \in Lcds /\ lines \in Wires /\ driver \in Drivers /\ want \in Disps
      /\ (~ lcd.four => lcd.phase = 0) /\ rw \in Levels /\ 0 \in Levels
  BY DEF LcdInv, LcdTypes, Levels
<1>1. driver.for = "init" /\ driver.todo = <<Knock, Knock, Knock, Enter>>
  BY DEF LcdInv, Follows, LowerFirst
<1>2. p \in Wires /\ p.e = 0 /\ p.rs = 0 /\ p.rw = rw
  BY <1>0, LinesAre
<1>3. lines' = p /\ lcd' = w /\ driver' = Woken(driver) /\ want' = want
  BY DEF LowerFirst, AllLow, Woken
<1> HIDE DEF p
<1>4. w \in Lcds /\ w.lastE = 0 /\ (~ w.four => w.phase = 0)
  <2>1. CASE lcd.lastE = 1 /\ rw = 0
    BY <1>0, <1>2, <2>1, EdgeIs
  <2>2. CASE ~ (lcd.lastE = 1 /\ rw = 0)
    BY <1>0, <1>2, <2>2, Quiet
  <2> QED BY <2>1, <2>2
<1> HIDE DEF w
<1>5. /\ driver' \in Drivers /\ driver'.for = "init" /\ driver'.awake
      /\ driver'.todo = <<Knock, Knock, Knock, Enter>>
  <2> DEFINE d == Woken(driver)
  <2>1. d \in Drivers /\ d.for = "init" /\ d.awake /\ d.todo = <<Knock, Knock, Knock, Enter>>
    BY <1>0, <1>1, AwakeIs
  <2> HIDE DEF d
  <2>2. driver' = d
    BY <1>3 DEF d
  <2> QED BY <2>1, <2>2
<1>6. LcdTypes'
  BY <1>0, <1>2, <1>3, <1>4, <1>5 DEF LcdTypes
<1>7. Follows'
  BY <1>2, <1>3, <1>4, <1>5 DEF Follows
<1>8. Knocking'
  BY <1>2, <1>3, <1>5 DEF Knocking
<1>9. Polling' /\ Writing' /\ ReadingBack'
  BY <1>5 DEF Polling, Writing, ReadingBack
<1> QED BY <1>6, <1>7, <1>8, <1>9 DEF LcdInv

LEMMA RaiseEKeeps ==
  ASSUME LcdInv, RaiseE
  PROVE  LcdInv'
<1> DEFINE p == Head(driver.todo)
           w == OnEWrite(lcd, p)
           b == IF p.rw = 0 THEN driver.byte
                ELSE IF Len(driver.todo) = 2 THEN w.shows
                ELSE driver.byte + w.shows \div 16
           next == HasRead(driver, b)
<1>0. /\ lcd \in Lcds /\ lines \in Wires /\ driver \in Drivers /\ want \in Disps
      /\ (~ lcd.four => lcd.phase = 0) /\ driver.awake /\ driver.todo # <<>> /\ lines.e = 0
      /\ driver.todo \in Seq(Wires) /\ driver.byte \in Octets /\ driver.rs \in Levels
      /\ driver.for \in Jobs
  BY DEF LcdInv, LcdTypes, RaiseE, Idle, Drivers
<1>1. lcd.lastE = 0
  BY <1>0 DEF LcdInv, Follows
<1>2. p \in Wires
  BY <1>0
<1>3. lines' = p /\ lcd' = w /\ driver' = next /\ want' = want
  BY DEF RaiseE, HasRead
<1>4. Fetched(want) \in Octets
  BY <1>0, FetchedOK
<1>l. 0 \in Levels /\ 1 \in Levels /\ 0 \in Octets /\ 48 \in Octets /\ 32 \in Octets
  BY DEF Levels, Octets
<1>5. ASSUME p.e = 1, w \in Lcds, w.lastE = 1, ~ w.four => w.phase = 0, b \in Octets
      PROVE  /\ LcdTypes' /\ Follows' /\ driver'.for = driver.for /\ driver'.rs = driver.rs
             /\ driver'.todo = driver.todo /\ driver'.byte = b /\ lines'.e = 1
  <2> HIDE DEF b, w
  <2>1. /\ next \in Drivers /\ next.for = driver.for /\ next.rs = driver.rs
        /\ next.awake = driver.awake /\ next.byte = b /\ next.todo = driver.todo
    BY <1>0, <1>5, HasReadIs
  <2> HIDE DEF next
  <2>2. LcdTypes'
    BY <1>0, <1>2, <1>3, <1>5, <2>1 DEF LcdTypes
  <2>3. Follows'
    BY <1>0, <1>3, <1>5, <2>1 DEF Follows
  <2> QED BY <1>3, <1>5, <2>1, <2>2, <2>3
<1>6. CASE driver.for = "init"
  <2>1. Knocking /\ lcd.busy = 0
    BY <1>6 DEF LcdInv, RaiseE
  <2>2. p = Knock \/ p = Enter
    BY <1>0, <1>6, <2>1, Shorter DEF Knocking
  <2>3. p.e = 1 /\ p.rw = 0
    BY <1>l, <2>2, PulseIs DEF Knock, Enter
  <2>4. /\ w \in Lcds /\ w.lastE = 1 /\ w.four = lcd.four /\ w.phase = lcd.phase
        /\ w.disp = lcd.disp /\ w.busy = lcd.busy /\ w.latched = lcd.latched
    BY <1>0, <1>1, <1>2, <2>3, Quiet
  <2>5. b = driver.byte
    BY <2>3
  <2>6. /\ LcdTypes' /\ Follows' /\ driver'.for = driver.for /\ driver'.rs = driver.rs
        /\ driver'.todo = driver.todo /\ lines'.e = 1
    BY <1>0, <1>5, <2>3, <2>4, <2>5
  <2> HIDE DEF next, b, w, p
  <2>7. Knocking'
    BY <1>0, <1>3, <1>6, <2>1, <2>4, <2>6 DEF Knocking
  <2>8. Polling' /\ Writing' /\ ReadingBack'
    BY <1>6, <2>6 DEF Polling, Writing, ReadingBack
  <2> QED BY <2>6, <2>7, <2>8 DEF LcdInv
<1>7. CASE driver.for = "poll"
  <2>1. Polling
    BY DEF LcdInv
  <2>2. p = Pulse(0, 1, 0)
    BY <1>0, <1>7, <2>1, Shorter DEF Polling
  <2>3. p.e = 1 /\ p.rw = 1 /\ p.rs = 0
    BY <1>l, <2>2, PulseIs
  <2>4. lcd.four /\ lcd.disp = want
    BY <1>7, <2>1 DEF Polling
  <2>5. /\ w \in Lcds /\ w.four /\ w.lastE = 1 /\ w.disp = lcd.disp /\ w.busy = lcd.busy
        /\ lcd.phase = 0 => /\ w.phase = 1 /\ w.shows \in Octets /\ w.shows % 16 = 0
                            /\ w.shows < 128 => lcd.busy = 0
        /\ lcd.phase = 1 => w.phase = 0 /\ \E r \in 0..15 : w.shows = 16 * r
    BY <1>0, <1>1, <1>2, <2>3, <2>4, StatusEdge
  <2>6. CASE driver.todo = <<Pulse(0, 1, 0), Pulse(0, 1, 0)>>
    <3>1. lcd.phase = 0 /\ Len(driver.todo) = 2
      BY <1>0, <1>7, <2>1, <2>6, Shorter DEF Polling
    <3>2. b = w.shows
      BY <2>3, <3>1
    <3>3. /\ LcdTypes' /\ Follows' /\ driver'.for = driver.for
          /\ driver'.todo = driver.todo /\ driver'.byte = b /\ lines'.e = 1
      BY <1>5, <2>3, <2>5, <3>1, <3>2
    <3> HIDE DEF next, b, w, p
    <3>4. Polling'
      BY <1>3, <1>7, <2>4, <2>5, <2>6, <3>1, <3>2, <3>3 DEF Polling
    <3>5. Knocking' /\ Writing' /\ ReadingBack'
      BY <1>7, <3>3 DEF Knocking, Writing, ReadingBack
    <3> QED BY <3>3, <3>4, <3>5 DEF LcdInv
  <2>7. CASE driver.todo = <<Pulse(0, 1, 0)>>
    <3>1. lcd.phase = 1 /\ Len(driver.todo) = 1 /\ driver.byte % 16 = 0
          /\ (driver.byte < 128 => lcd.busy = 0)
      BY <1>0, <1>7, <2>1, <2>7, Shorter DEF Polling
    <3>2. PICK r \in 0..15 : w.shows = 16 * r
      BY <2>5, <3>1
    <3>3. b = driver.byte + r
      <4>1. w.shows \div 16 = r
        <5> DEFINE y == w.shows
        <5>1. y = 16 * r + 0 /\ r \in Int /\ y \in Int /\ 0 \in 0..16 - 1 /\ 16 \in Nat \ {0}
          BY <3>2
        <5> HIDE DEF y
        <5>2. y \div 16 = r
          BY <5>1, Quotient
        <5> QED BY <5>2 DEF y
      <4> QED BY <2>3, <3>1, <4>1
    <3>4. driver.byte + r \in Octets /\ driver.byte <= driver.byte + r
      <4> DEFINE x == driver.byte
                 q == x \div 16
                 s == x % 16
      <4>1. q \in 0..15 /\ s = 0 /\ x = 16 * q + s
        BY <1>0, <3>1, Halves
      <4>2. 16 * q + r \in Octets
        BY <4>1, Put
      <4> HIDE DEF q, s, x
      <4>3. x + r \in Octets /\ x <= x + r
        BY <4>1, <4>2
      <4> QED BY <4>3 DEF x
    <3>5. /\ LcdTypes' /\ Follows' /\ driver'.for = driver.for
          /\ driver'.todo = driver.todo /\ driver'.byte = b /\ lines'.e = 1
      BY <1>5, <2>3, <2>5, <3>3, <3>4
    <3> HIDE DEF next, b, w, p
    <3>6. driver'.byte < 128 => lcd'.busy = 0
      <4> DEFINE x == driver.byte
      <4>1. x \in Int /\ r \in Int
        <5>1. x \in 0..255
          BY <1>0 DEF Octets
        <5> HIDE DEF x
        <5> QED BY <3>2, <5>1
      <4>2. driver'.byte < 128 => driver.byte < 128
        BY <4>1, <3>3, <3>4, <3>5
      <4> QED BY <1>3, <2>5, <3>1, <4>2
    <3>7. Polling'
      <4>1. lcd'.phase = 1 - lines'.e
        BY <1>3, <2>5, <3>1, <3>5
      <4> QED BY <1>3, <1>7, <2>4, <2>5, <2>7, <3>5, <3>6, <4>1 DEF Polling
    <3>8. Knocking' /\ Writing' /\ ReadingBack'
      BY <1>7, <3>5 DEF Knocking, Writing, ReadingBack
    <3> QED BY <3>5, <3>7, <3>8 DEF LcdInv
  <2> QED BY <1>0, <1>7, <2>1, <2>6, <2>7 DEF Polling
<1>8. CASE driver.for = "write"
  <2>1. Writing
    BY DEF LcdInv
  <2>2. p = FirstHalf \/ p = SecondHalf
    BY <1>0, <1>8, <2>1, Shorter DEF Writing
  <2>3. p.e = 1 /\ p.rw = 0
    <3>1. Upper(driver.byte) \in Octets /\ 16 * (driver.byte % 16) \in Octets
      BY <1>0, Halves
    <3> QED BY <1>0, <1>l, <2>2, <3>1, PulseIs DEF FirstHalf, SecondHalf
  <2>4. /\ w \in Lcds /\ w.lastE = 1 /\ w.four = lcd.four /\ w.phase = lcd.phase
        /\ w.disp = lcd.disp /\ w.busy = lcd.busy /\ w.latched = lcd.latched
    BY <1>0, <1>1, <1>2, <2>3, Quiet
  <2>5. b = driver.byte
    BY <2>3
  <2>6. /\ LcdTypes' /\ Follows' /\ driver'.for = driver.for /\ driver'.rs = driver.rs
        /\ driver'.todo = driver.todo /\ driver'.byte = driver.byte
    BY <1>0, <1>5, <2>3, <2>4, <2>5
  <2> HIDE DEF next, b, w, p
  <2>7. Writing'
    <3>1. FirstHalf' = FirstHalf /\ SecondHalf' = SecondHalf
      BY <2>6 DEF FirstHalf, SecondHalf
    <3> QED BY <1>3, <1>8, <2>1, <2>4, <2>6, <3>1 DEF Writing
  <2>8. Knocking' /\ Polling' /\ ReadingBack'
    BY <1>8, <2>6 DEF Knocking, Polling, ReadingBack
  <2> QED BY <2>6, <2>7, <2>8 DEF LcdInv
<1>9. CASE driver.for = "read"
  <2>1. ReadingBack
    BY DEF LcdInv
  <2>2. p = Pulse(1, 1, 0)
    BY <1>0, <1>9, <2>1, Shorter DEF ReadingBack
  <2>3. p.e = 1 /\ p.rw = 1 /\ p.rs = 1
    BY <1>l, <2>2, PulseIs
  <2>4. lcd.four /\ lcd.disp = want /\ lcd.busy = 0
    BY <1>0, <1>9, <2>1, Shorter DEF ReadingBack
  <2> DEFINE v == Fetched(want)
  <2>5. /\ w \in Lcds /\ w.four /\ w.lastE = 1
        /\ lcd.phase = 0 => w.phase = 1 /\ w.shows = Upper(v) /\ w.disp = want /\ w.busy = 0
        /\ lcd.phase = 1 => w.phase = 0 /\ w.shows = 16 * (v % 16) /\ w.disp = Advanced(want)
    BY <1>0, <1>1, <1>2, <2>3, <2>4, DataEdge
  <2> HIDE DEF v
  <2>v. v \in Octets
    BY <1>4 DEF v
  <2>6. CASE driver.todo = <<Pulse(1, 1, 0), Pulse(1, 1, 0)>>
    <3>1. lcd.phase = 0 /\ Len(driver.todo) = 2
      BY <1>0, <1>9, <2>1, <2>6, Shorter DEF ReadingBack
    <3>2. b = Upper(v) /\ Upper(v) \in Octets
      BY <2>3, <2>5, <2>v, <3>1, Halves
    <3>3. /\ LcdTypes' /\ Follows' /\ driver'.for = driver.for
          /\ driver'.todo = driver.todo /\ driver'.byte = b /\ lines'.e = 1
      BY <1>5, <2>3, <2>5, <3>1, <3>2
    <3> HIDE DEF next, b, w, p
    <3>4. ReadingBack'
      <4>1. v' = v
        BY <1>3 DEF v
      <4> QED BY <1>3, <1>9, <2>4, <2>5, <2>6, <3>1, <3>2, <3>3, <4>1 DEF ReadingBack, v
    <3>5. Knocking' /\ Writing' /\ Polling'
      BY <1>9, <3>3 DEF Knocking, Writing, Polling
    <3> QED BY <3>3, <3>4, <3>5 DEF LcdInv
  <2>7. CASE driver.todo = <<Pulse(1, 1, 0)>>
    <3>1. lcd.phase = 1 /\ Len(driver.todo) = 1 /\ driver.byte = Upper(v)
      BY <1>0, <1>9, <2>1, <2>7, Shorter DEF ReadingBack, v
    <3> DEFINE q == v \div 16
               r == v % 16
    <3>2. q \in 0..15 /\ r \in 0..15 /\ v = 16 * q + r /\ Upper(v) = 16 * q
      BY <2>v, Halves
    <3>3. b = Upper(v) + (16 * r) \div 16
      BY <2>3, <2>5, <3>1
    <3> HIDE DEF q, r
    <3>4. (16 * r) \div 16 = r
      <4> DEFINE y == 16 * r
      <4>1. y = 16 * r + 0 /\ r \in Int /\ y \in Int /\ 0 \in 0..16 - 1 /\ 16 \in Nat \ {0}
        BY <3>2
      <4> HIDE DEF y
      <4>2. y \div 16 = r
        BY <4>1, Quotient
      <4> QED BY <4>2 DEF y
    <3>5. b = v
      <4> HIDE DEF b
      <4> QED BY <3>2, <3>3, <3>4
    <3>6. /\ LcdTypes' /\ Follows' /\ driver'.for = driver.for
          /\ driver'.todo = driver.todo /\ driver'.byte = b /\ lines'.e = 1
      BY <1>5, <2>3, <2>5, <2>v, <3>1, <3>5
    <3> HIDE DEF next, b, w, p
    <3>7. ReadingBack'
      <4>1. v' = v
        BY <1>3 DEF v
      <4> QED BY <1>3, <1>9, <2>5, <2>7, <3>1, <3>5, <3>6, <4>1 DEF ReadingBack, v
    <3>8. Knocking' /\ Writing' /\ Polling'
      BY <1>9, <3>6 DEF Knocking, Writing, Polling
    <3> QED BY <3>6, <3>7, <3>8 DEF LcdInv
  <2> QED BY <1>0, <1>9, <2>1, <2>6, <2>7 DEF ReadingBack
<1> QED BY <1>0, <1>6, <1>7, <1>8, <1>9 DEF Jobs

-----------------------------------------------------------------------------
LEMMA LowerEKeeps ==
  ASSUME LcdInv, LowerE
  PROVE  LcdInv'
<1> DEFINE p == LowE(lines)
           w == OnEWrite(lcd, p)
           t == Tail(driver.todo)
           next == Gone(driver, t)
<1>0. /\ lcd \in Lcds /\ lines \in Wires /\ driver \in Drivers /\ want \in Disps
      /\ (~ lcd.four => lcd.phase = 0) /\ driver.awake /\ driver.todo # <<>> /\ lines.e = 1
      /\ driver.todo \in Seq(Wires) /\ driver.byte \in Octets /\ driver.rs \in Levels
      /\ driver.for \in Jobs /\ lcd.phase \in Levels
  BY DEF LcdInv, LcdTypes, LowerE, Idle, Drivers, Lcds
<1>1. lcd.lastE = 1 /\ lines = Head(driver.todo)
  BY <1>0 DEF LcdInv, Follows
<1>l. 0 \in Levels /\ 1 \in Levels /\ 0 \in Octets /\ 48 \in Octets /\ 32 \in Octets
  BY DEF Levels, Octets
<1>2. p \in Wires /\ p.e = 0 /\ p.rs = lines.rs /\ p.rw = lines.rw /\ p.bus = lines.bus
  BY <1>0, <1>l, LinesAre
<1>3. lines' = p /\ lcd' = w /\ driver' = next
  BY DEF LowerE, LowE, Gone
<1>4. t \in Seq(Wires)
  BY <1>0
<1>5. /\ next \in Drivers /\ next.for = driver.for /\ next.rs = driver.rs
      /\ next.awake = driver.awake /\ next.byte = driver.byte /\ next.todo = t
  BY <1>0, <1>4, GoneIs
<1>6. want' = CASE Len(driver.todo) > 1 \/ driver.for = "poll" -> want
                [] Len(driver.todo) = 1 /\ driver.for = "init" -> w.disp
                [] Len(driver.todo) = 1 /\ driver.for = "write" ->
                     Applied(want, driver.rs, driver.byte)
                [] Len(driver.todo) = 1 /\ driver.for = "read" -> Advanced(want)
  BY <1>3 DEF LowerE
<1> DEFINE k == Len(driver.todo)
<1>s. /\ k > 1 => want' = want
      /\ k = 1 /\ driver.for = "init" => want' = w.disp
  <2>1. k \in Nat
    BY <1>0
  <2> HIDE DEF k
  <2>2. want' = CASE k > 1 \/ driver.for = "poll" -> want
                  [] k = 1 /\ driver.for = "init" -> w.disp
                  [] k = 1 /\ driver.for = "write" -> Applied(want, driver.rs, driver.byte)
                  [] k = 1 /\ driver.for = "read" -> Advanced(want)
    BY <1>6 DEF k
  <2>3. k > 1 => ~ (k = 1)
    BY <2>1
  <2> QED BY <2>2, <2>3
<1>7. lcd.phase = 0 \/ lcd.phase = 1
  BY <1>0 DEF Levels
<1>8. p.rw = 0 =>
        /\ w \in Lcds /\ w.lastE = 0 /\ (~ w.four => w.phase = 0)
        /\ lcd.four /\ lcd.phase = 0 =>
             /\ w.four = lcd.four /\ w.phase = 1 /\ w.disp = lcd.disp /\ w.busy = lcd.busy
             /\ w.latched \div 16 = p.bus \div 16
        /\ lcd.busy = 0 /\ ~ lcd.four =>
             /\ w.phase = 0 /\ w.disp = Applied(lcd.disp, p.rs, p.bus)
             /\ w.four = Interface(lcd, p.rs, p.bus)
        /\ lcd.busy = 0 /\ lcd.four /\ lcd.phase = 1 =>
             /\ w.phase = 0
             /\ w.disp = Applied(lcd.disp, p.rs, 16 * (lcd.latched \div 16) + (p.bus \div 16))
             /\ w.four = Interface(lcd, p.rs, 16 * (lcd.latched \div 16) + (p.bus \div 16))
  BY <1>0, <1>1, <1>2, EdgeIs
<1>9. p.rw = 1 =>
        /\ w \in Lcds /\ w.lastE = 0 /\ w.four = lcd.four /\ w.phase = lcd.phase
        /\ w.disp = lcd.disp /\ w.busy = lcd.busy /\ w.latched = lcd.latched
  BY <1>0, <1>1, <1>2, Quiet
<1> HIDE DEF p, w, next
<1>10. ASSUME w \in Lcds, w.lastE = 0, ~ w.four => w.phase = 0, want' \in Disps
       PROVE  LcdTypes' /\ Follows'
  <2>1. LcdTypes'
    BY <1>2, <1>3, <1>5, <1>10 DEF LcdTypes
  <2>2. Follows'
    BY <1>0, <1>2, <1>3, <1>5, <1>10 DEF Follows
  <2> QED BY <2>1, <2>2
<1>11. /\ driver'.for = driver.for /\ driver'.rs = driver.rs /\ driver'.awake
       /\ driver'.byte = driver.byte /\ driver'.todo = t /\ lines'.e = 0
  BY <1>0, <1>2, <1>3, <1>5
<1>12. CASE driver.for = "init"
  <2>1. Knocking /\ lcd.busy = 0
    BY <1>0, <1>12 DEF LcdInv, Knocking
  <2>2. lines = Knock \/ lines = Enter
    BY <1>0, <1>1, <1>12, <2>1, Shorter DEF Knocking
  <2>3. /\ p.rw = 0 /\ p.rs = 0
        /\ lines = Knock => p.bus = 48
        /\ lines = Enter => p.bus = 32
    BY <1>l, <1>2, <2>2, PulseIs DEF Knock, Enter
  <2>4. 48 \div 16 = 3 /\ 32 \div 16 = 2 /\ 3 % 2 = 1 /\ 2 % 2 = 0
    OBVIOUS
  <2>5. Interface(lcd, 0, 48) = FALSE /\ Interface(lcd, 0, 32) = TRUE /\ Interface(lcd, 0, 51) = FALSE
    <3>1. 51 \div 16 = 3
      OBVIOUS
    <3> QED BY <2>4, <3>1 DEF Interface
  <2>6. /\ lines = Knock /\ ~ lcd.four => w.phase = 0 /\ ~ w.four
        /\ lines = Knock /\ lcd.four /\ lcd.phase = 0 => w.phase = 1 /\ w.four /\ w.latched \div 16 = 3
        /\ lines = Knock /\ lcd.four /\ lcd.phase = 1 => w.phase = 0
        /\ lines = Knock /\ lcd.four /\ lcd.phase = 1 /\ lcd.latched \div 16 = 3 => ~ w.four
        /\ lines = Enter /\ ~ lcd.four => w.phase = 0 /\ w.four
    <3>1. lines = Knock /\ lcd.four /\ lcd.phase = 1 /\ lcd.latched \div 16 = 3 => ~ w.four
      <4>1. 16 * 3 + 3 = 51
        OBVIOUS
      <4> QED BY <1>8, <2>1, <2>3, <2>4, <2>5, <4>1
    <3>2. lines = Knock /\ ~ lcd.four => w.phase = 0 /\ ~ w.four
      BY <1>8, <2>1, <2>3, <2>5
    <3>3. lines = Enter /\ ~ lcd.four => w.phase = 0 /\ w.four
      BY <1>8, <2>1, <2>3, <2>5
    <3>4. lines = Knock /\ lcd.four /\ lcd.phase = 0 => w.phase = 1 /\ w.four /\ w.latched \div 16 = 3
      BY <1>8, <2>1, <2>3, <2>4
    <3>5. lines = Knock /\ lcd.four /\ lcd.phase = 1 => w.phase = 0
      BY <1>8, <2>1, <2>3
    <3> QED BY <3>1, <3>2, <3>3, <3>4, <3>5
  <2>w. w \in Lcds /\ w.lastE = 0 /\ (~ w.four => w.phase = 0) /\ w.disp \in Disps
    BY <1>8, <2>3 DEF Lcds
  <2>f. w.four \in BOOLEAN /\ lcd.four \in BOOLEAN
    BY <1>0, <2>w DEF Lcds, Bools
  <2>7. want' \in Disps /\ (t = <<>> => want' = w.disp)
    <3>1. (k = 1 /\ t = <<>>) \/ (k > 1 /\ t # <<>>)
      <4>1. CASE driver.todo = <<Knock, Knock, Knock, Enter>>
        BY <4>1, Shorter
      <4>2. CASE driver.todo = <<Knock, Knock, Enter>>
        BY <4>2, Shorter
      <4>3. CASE driver.todo = <<Knock, Enter>>
        BY <4>3, Shorter
      <4>4. CASE driver.todo = <<Enter>>
        BY <4>4, Shorter
      <4> QED BY <1>0, <1>12, <2>1, <4>1, <4>2, <4>3, <4>4 DEF Knocking
    <3> HIDE DEF k, t
    <3>2. CASE k > 1
      BY <1>0, <1>s, <3>1, <3>2
    <3>3. CASE k = 1
      BY <1>s, <1>12, <2>w, <3>3
    <3> QED BY <3>1, <3>2, <3>3
  <2>8. LcdTypes' /\ Follows'
    BY <1>10, <2>w, <2>7
  <2>9. \/ t = <<Knock, Knock, Enter>> /\ (w.phase = 1 => w.latched \div 16 = 3)
        \/ t = <<Knock, Enter>> /\ (w.four => w.phase = 1 /\ w.latched \div 16 = 3)
        \/ t = <<Enter>> /\ ~ w.four
        \/ t = <<>> /\ w.four /\ w.phase = 0 /\ w.disp = want'
    <3>0. w.phase \in Levels
      BY <2>w DEF Lcds
    <3>1. CASE driver.todo = <<Knock, Knock, Knock, Enter>>
      <4>1. t = <<Knock, Knock, Enter>> /\ lines = Knock
        BY <1>1, <3>1, Shorter
      <4>2. lcd.four \/ ~ lcd.four
        OBVIOUS
      <4> QED BY <1>7, <2>6, <4>1, <4>2
    <3>2. CASE driver.todo = <<Knock, Knock, Enter>> /\ (lcd.phase = 1 => lcd.latched \div 16 = 3)
      <4>1. t = <<Knock, Enter>> /\ lines = Knock
        BY <1>1, <3>2, Shorter
      <4> QED BY <1>7, <2>6, <3>2, <4>1
    <3>3. CASE driver.todo = <<Knock, Enter>> /\ (lcd.four => lcd.phase = 1 /\ lcd.latched \div 16 = 3)
      <4>1. t = <<Enter>> /\ lines = Knock
        BY <1>1, <3>3, Shorter
      <4>2. ~ w.four
        BY <2>6, <3>3, <4>1
      <4> QED BY <4>1, <4>2
    <3>4. CASE driver.todo = <<Enter>> /\ ~ lcd.four
      <4>1. t = <<>> /\ lines = Enter
        BY <1>1, <3>4, Shorter
      <4> QED BY <2>6, <2>7, <3>4, <4>1
    <3> QED BY <1>0, <1>12, <2>1, <3>1, <3>2, <3>3, <3>4 DEF Knocking
  <2>10. Knocking'
    BY <1>3, <1>11, <2>9 DEF Knocking
  <2>11. Polling' /\ Writing' /\ ReadingBack'
    BY <1>11, <1>12 DEF Polling, Writing, ReadingBack
  <2> QED BY <2>8, <2>10, <2>11 DEF LcdInv
<1>13. CASE driver.for = "poll"
  <2>1. Polling
    BY DEF LcdInv
  <2>2. lines = Pulse(0, 1, 0)
    BY <1>0, <1>1, <1>13, <2>1, Shorter DEF Polling
  <2>3. p.rw = 1
    BY <1>l, <1>2, <2>2, PulseIs
  <2>4. /\ w \in Lcds /\ w.lastE = 0 /\ w.four = lcd.four /\ w.phase = lcd.phase
        /\ w.disp = lcd.disp /\ w.busy = lcd.busy
    BY <1>9, <2>3
  <2>5. lcd.four /\ lcd.disp = want /\ want' = want
    BY <1>6, <1>13, <2>1 DEF Polling
  <2>6. LcdTypes' /\ Follows'
    BY <1>0, <1>10, <2>4, <2>5
  <2>7. Polling'
    <3>1. CASE driver.todo = <<Pulse(0, 1, 0), Pulse(0, 1, 0)>>
      <4>1. t = <<Pulse(0, 1, 0)>>
        BY <3>1, Shorter
      <4>2. lcd.phase = 1 /\ driver.byte % 16 = 0 /\ (driver.byte < 128 => lcd.busy = 0)
        BY <1>0, <1>13, <2>1, <3>1, Shorter DEF Polling
      <4>3. lcd'.phase = 1 - lines'.e
        BY <1>3, <1>11, <2>4, <4>2
      <4> QED BY <1>3, <1>11, <2>4, <2>5, <4>1, <4>2, <4>3 DEF Polling
    <3>2. CASE driver.todo = <<Pulse(0, 1, 0)>>
      <4>1. t = <<>>
        BY <3>2, Shorter
      <4>2. lcd.phase = 0 /\ (driver.byte < 128 => lcd.busy = 0)
        BY <1>0, <1>13, <2>1, <3>2, Shorter DEF Polling
      <4> QED BY <1>3, <1>11, <2>4, <2>5, <4>1, <4>2 DEF Polling
    <3> QED BY <1>0, <1>13, <2>1, <3>1, <3>2 DEF Polling
  <2>8. Knocking' /\ Writing' /\ ReadingBack'
    BY <1>11, <1>13 DEF Knocking, Writing, ReadingBack
  <2> QED BY <2>6, <2>7, <2>8 DEF LcdInv
<1>14. CASE driver.for = "write"
  <2>1. Writing
    BY DEF LcdInv
  <2>2. lcd.four /\ lcd.disp = want /\ lcd.busy = 0 /\ (driver.rs = 0 => driver.byte \notin 48..63)
    BY <1>0, <1>14, <2>1 DEF Writing
  <2> DEFINE d == driver.byte
             q == d \div 16
             r == d % 16
  <2>3. q \in 0..15 /\ r \in 0..15 /\ d = 16 * q + r /\ Upper(d) = 16 * q
        /\ Upper(d) \in Octets /\ 16 * r \in Octets
    BY <1>0, Halves
  <2>4. /\ lines = FirstHalf => p.bus = Upper(d)
        /\ lines = SecondHalf => p.bus = 16 * r
        /\ (lines = FirstHalf \/ lines = SecondHalf => p.rw = 0 /\ p.rs = driver.rs)
    BY <1>0, <1>l, <1>2, <2>3, PulseIs DEF FirstHalf, SecondHalf
  <2>5. Upper(d) \div 16 = q /\ (16 * r) \div 16 = r
    <3> HIDE DEF q, r
    <3> DEFINE x == Upper(d)
               y == 16 * r
    <3>1. x = 16 * q + 0 /\ q \in Int /\ x \in Int /\ 0 \in 0..16 - 1 /\ 16 \in Nat \ {0}
          /\ y = 16 * r + 0 /\ r \in Int /\ y \in Int
      BY <2>3
    <3> HIDE DEF x, y
    <3>2. x \div 16 = q /\ y \div 16 = r
      BY <3>1, Quotient
    <3> QED BY <3>2 DEF x, y
  <2>6. CASE driver.todo = <<FirstHalf, SecondHalf>> /\ lcd.phase = 0
    <3>1. lines = FirstHalf /\ t = <<SecondHalf>> /\ Len(driver.todo) = 2
      BY <1>1, <2>6, Shorter
    <3>2. /\ w \in Lcds /\ w.lastE = 0 /\ w.four /\ w.phase = 1 /\ w.disp = lcd.disp /\ w.busy = 0
          /\ w.latched \div 16 = q
      BY <1>8, <2>2, <2>4, <2>5, <2>6, <3>1
    <3>3. want' = want
      BY <1>6, <3>1
    <3>4. LcdTypes' /\ Follows'
      BY <1>0, <1>10, <3>2, <3>3
    <3>5. SecondHalf' = SecondHalf
      BY <1>11 DEF SecondHalf
    <3> HIDE DEF q, r
    <3>6. Writing'
      BY <1>3, <1>11, <2>2, <3>1, <3>2, <3>3, <3>5 DEF Writing, q
    <3>7. Knocking' /\ Polling' /\ ReadingBack'
      BY <1>11, <1>14 DEF Knocking, Polling, ReadingBack
    <3> QED BY <3>4, <3>6, <3>7 DEF LcdInv
  <2>7. CASE driver.todo = <<SecondHalf>> /\ lcd.phase = 1 /\ lcd.latched \div 16 = q
    <3>1. lines = SecondHalf /\ t = <<>> /\ Len(driver.todo) = 1
      BY <1>1, <2>7, Shorter
    <3>2. 16 * (lcd.latched \div 16) + (p.bus \div 16) = d
      BY <2>3, <2>4, <2>5, <2>7, <3>1
    <3>3. /\ w \in Lcds /\ w.lastE = 0 /\ w.phase = 0 /\ w.disp = Applied(want, driver.rs, d)
          /\ w.four = Interface(lcd, driver.rs, d)
      BY <1>8, <2>2, <2>4, <2>7, <3>1, <3>2
    <3>4. Interface(lcd, driver.rs, d) = TRUE
      <4>1. CASE driver.rs = 0 /\ d \in 32..63
        <5>0. d \in 32..63 /\ d \notin 48..63
          BY <2>2, <4>1
        <5> HIDE DEF q, r
        <5>1. d \in 32..47 /\ q \in Int /\ r \in 0..15 /\ d = 16 * q + r
          <6>1. d = 16 * q + r /\ q \in 0..15 /\ r \in 0..15
            BY <2>3
          <6> HIDE DEF d
          <6> QED BY <5>0, <6>1
        <5> HIDE DEF d
        <5>2. q = 2
          BY <5>1
        <5>3. 2 % 2 = 0
          OBVIOUS
        <5> QED BY <4>1, <5>2, <5>3 DEF Interface, q
      <4>2. CASE ~ (driver.rs = 0 /\ d \in 32..63)
        <5>1. lcd.four \in BOOLEAN
          BY <1>0 DEF Lcds, Bools
        <5> HIDE DEF d
        <5> QED BY <2>2, <4>2, <5>1 DEF Interface
      <4> QED BY <4>1, <4>2
    <3>5. want' = w.disp /\ want' \in Disps
      <4>1. w.disp \in Disps
        BY <3>3 DEF Lcds
      <4>2. want' = Applied(want, driver.rs, driver.byte)
        BY <1>6, <1>14, <3>1
      <4> QED BY <3>3, <4>1, <4>2
    <3>6. LcdTypes' /\ Follows'
      BY <1>0, <1>10, <3>3, <3>5
    <3>7. w.four
      BY <3>3, <3>4
    <3>8. Writing'
      BY <1>3, <1>11, <2>2, <3>1, <3>3, <3>5, <3>7 DEF Writing
    <3>9. Knocking' /\ Polling' /\ ReadingBack'
      BY <1>11, <1>14 DEF Knocking, Polling, ReadingBack
    <3> QED BY <3>6, <3>8, <3>9 DEF LcdInv
  <2> HIDE DEF r
  <2> QED BY <1>0, <1>14, <2>1, <2>6, <2>7 DEF Writing
<1>15. CASE driver.for = "read"
  <2>1. ReadingBack
    BY DEF LcdInv
  <2>2. lines = Pulse(1, 1, 0)
    BY <1>0, <1>1, <1>15, <2>1, Shorter DEF ReadingBack
  <2>3. p.rw = 1
    BY <1>l, <1>2, <2>2, PulseIs
  <2>4. /\ w \in Lcds /\ w.lastE = 0 /\ w.four = lcd.four /\ w.phase = lcd.phase
        /\ w.disp = lcd.disp /\ w.busy = lcd.busy
    BY <1>9, <2>3
  <2>5. lcd.four
    BY <1>15, <2>1 DEF ReadingBack
  <2>6. CASE driver.todo = <<Pulse(1, 1, 0), Pulse(1, 1, 0)>>
    <3>1. t = <<Pulse(1, 1, 0)>> /\ Len(driver.todo) = 2
      BY <2>6, Shorter
    <3>2. lcd.phase = 1 /\ lcd.disp = want /\ lcd.busy = 0 /\ driver.byte = Upper(Fetched(want))
      BY <1>0, <1>15, <2>1, <2>6, Shorter DEF ReadingBack
    <3>3. want' = want
      BY <1>6, <3>1
    <3>4. LcdTypes' /\ Follows'
      BY <1>0, <1>10, <2>4, <3>3
    <3>5. Fetched(want)' = Fetched(want)
      BY <3>3
    <3>6. ReadingBack'
      BY <1>3, <1>11, <2>4, <2>5, <3>1, <3>2, <3>3, <3>5 DEF ReadingBack
    <3>7. Knocking' /\ Writing' /\ Polling'
      BY <1>11, <1>15 DEF Knocking, Writing, Polling
    <3> QED BY <3>4, <3>6, <3>7 DEF LcdInv
  <2>7. CASE driver.todo = <<Pulse(1, 1, 0)>>
    <3>1. t = <<>> /\ Len(driver.todo) = 1
      BY <2>7, Shorter
    <3>2. lcd.phase = 0 /\ lcd.disp = Advanced(want)
      BY <1>0, <1>15, <2>1, <2>7, Shorter DEF ReadingBack
    <3>3. want' = Advanced(want) /\ want' \in Disps
      BY <1>0, <1>6, <1>15, <3>1, AdvancedOK
    <3>4. LcdTypes' /\ Follows'
      BY <1>0, <1>10, <2>4, <3>3
    <3>5. ReadingBack'
      BY <1>3, <1>11, <2>4, <2>5, <3>1, <3>2, <3>3 DEF ReadingBack
    <3>6. Knocking' /\ Writing' /\ Polling'
      BY <1>11, <1>15 DEF Knocking, Writing, Polling
    <3> QED BY <3>4, <3>5, <3>6 DEF LcdInv
  <2> QED BY <1>0, <1>15, <2>1, <2>6, <2>7 DEF ReadingBack
<1> QED BY <1>0, <1>12, <1>13, <1>14, <1>15 DEF Jobs

-----------------------------------------------------------------------------
LEMMA DoesKeeps ==
  ASSUME LcdInv, driver.todo = <<>>, NEW f \in {"poll", "write", "read"}, NEW rs \in Levels,
         NEW rw \in Levels, NEW b \in Octets, NEW n \in Ticks, Does(f, rs, rw, b, n),
         f = "poll" => rs = 0 /\ rw = 1 /\ b = 0,
         f = "write" => rw = 0 /\ lcd.busy = 0 /\ (rs = 0 => b \notin 48..63),
         f = "read" => rs = 1 /\ rw = 1 /\ b = 0 /\ lcd.busy = 0
  PROVE  LcdInv'
<1> DEFINE x == Pulse(rs, rw, Upper(b))
           y == Pulse(rs, rw, 16 * (b % 16))
           t == <<x, y>>
           S == Seq(Wires)
           R == [for : Jobs, rs : Levels, byte : Octets, left : Ticks, awake : Bools, todo : S]
           g == Given(driver, f, rs, b, n, t)
<1>0. /\ lcd \in Lcds /\ lines \in Wires /\ driver \in R /\ want \in Disps /\ R = Drivers
      /\ f \in Jobs
  BY DEF LcdInv, LcdTypes, Drivers, Jobs
<1>1. driver.awake /\ lines.e = 0 /\ lcd.four /\ lcd.phase = 0 /\ lcd.disp = want /\ lcd.lastE = 0
  <2>1. driver.awake /\ lines.e = 0 /\ lcd.four /\ lcd.phase = 0 /\ lcd.disp = want
    BY AtRest
  <2> QED BY <2>1 DEF LcdInv, Follows
<1>2. Upper(b) \in Octets /\ 16 * (b % 16) \in Octets
  BY Halves
<1>3. x \in Wires /\ y \in Wires
  BY <1>2, PulseIs
<1>4. t \in S
  BY <1>3
<1>5. driver' = g /\ lcd' = lcd /\ lines' = lines /\ want' = want
  BY DEF Does, Given, Upper
<1> HIDE DEF S, t
<1>6. g \in R /\ g.for = f /\ g.rs = rs /\ g.awake = driver.awake /\ g.byte = b /\ g.todo = t
  BY <1>0, <1>4, GivenIs
<1> HIDE DEF g, R
<1>7. /\ driver' \in Drivers /\ driver'.for = f /\ driver'.rs = rs /\ driver'.awake
      /\ driver'.byte = b /\ driver'.todo = <<x, y>>
  BY <1>0, <1>1, <1>5, <1>6 DEF t
<1>8. LcdTypes'
  BY <1>0, <1>1, <1>5, <1>7 DEF LcdTypes
<1>9. Follows'
  BY <1>1, <1>5, <1>7 DEF Follows
<1>10. Knocking'
  BY <1>7 DEF Knocking
<1>11. Upper(0) = 0 /\ 16 * (0 % 16) = 0
  BY DEF Upper
<1>12. Polling'
  BY <1>1, <1>5, <1>7, <1>11 DEF Polling
<1>13. Writing'
  BY <1>1, <1>5, <1>7 DEF Writing, FirstHalf, SecondHalf
<1>14. ReadingBack'
  BY <1>1, <1>5, <1>7, <1>11 DEF ReadingBack
<1> QED BY <1>8, <1>9, <1>10, <1>12, <1>13, <1>14 DEF LcdInv

LEMMA LcdStepKeeps ==
  ASSUME LcdInv, LcdStep
  PROVE  LcdInv'
<1> DEFINE n == lcd.busy - 1
           l == Counted4(lcd, n)
<1>0. lcd \in Lcds /\ lcd.busy \in Nat /\ n \in Ticks
  <2>1. lcd \in Lcds /\ lcd.busy \in Nat /\ lcd.busy > 0
    BY DEF LcdInv, LcdTypes, Lcds, Ticks, LcdStep
  <2> QED BY <2>1 DEF Ticks
<1>1. lcd' = l
  BY DEF LcdStep, Counted4
<1>2. lines' = lines /\ driver' = driver /\ want' = want /\ lcd.busy # 0
  BY <1>0 DEF LcdStep
<1> HIDE DEF n
<1>3. /\ l \in Lcds /\ l.disp = lcd.disp /\ l.four = lcd.four /\ l.phase = lcd.phase
      /\ l.latched = lcd.latched /\ l.lastE = lcd.lastE
  BY <1>0, IsCounted4
<1> HIDE DEF l
<1>4. LcdTypes'
  BY <1>1, <1>2, <1>3 DEF LcdInv, LcdTypes
<1>5. Follows'
  BY <1>1, <1>2, <1>3 DEF LcdInv, Follows
<1>6. Knocking'
  BY <1>1, <1>2, <1>3 DEF LcdInv, Knocking
<1>7. Polling'
  BY <1>1, <1>2, <1>3 DEF LcdInv, Polling
<1>8. Writing'
  <2>1. FirstHalf' = FirstHalf /\ SecondHalf' = SecondHalf
    BY <1>2 DEF FirstHalf, SecondHalf
  <2> QED BY <1>1, <1>2, <1>3, <2>1 DEF LcdInv, Writing
<1>9. ReadingBack'
  <2>1. Fetched(want)' = Fetched(want)
    BY <1>2
  <2> QED BY <1>1, <1>2, <1>3, <2>1 DEF LcdInv, ReadingBack
<1> QED BY <1>4, <1>5, <1>6, <1>7, <1>8, <1>9 DEF LcdInv

LEMMA ResetIs == LcdReset \in Lcds /\ LcdReset.phase = 0 /\ Clear \in Disps
<1> DEFINE r == [a \in 0..127 |-> 32]
           c == [a \in 0..63 |-> 0]
           d == [ddram |-> r, cgram |-> c, cursor |-> 0, dir |-> 1, shift |-> 0,
                 shifting |-> FALSE, chargen |-> FALSE]
<1>1. r \in Rams /\ c \in Chars
  BY DEF Rams, Chars, Octets
<1>2. Clear = d
  BY DEF Clear
<1> HIDE DEF r, c
<1>3. d \in Disps
  BY <1>1 DEF Disps, Whole, Bools
<1> HIDE DEF d
<1>4. 0 \in Levels /\ 0 \in Octets /\ 0 \in Ticks /\ FALSE \in Bools
  BY DEF Levels, Octets, Ticks, Bools
<1> QED BY <1>2, <1>3, <1>4 DEF LcdReset, Lcds

LEMMA FreshDriver ==
  ASSUME NEW n \in Ticks, NEW t \in Seq(Wires)
  PROVE  [for |-> "init", rs |-> 0, byte |-> 0, left |-> n, awake |-> FALSE, todo |-> t] \in Drivers
<1>1. 0 \in Levels /\ 0 \in Octets /\ FALSE \in Bools /\ "init" \in Jobs
  BY DEF Levels, Octets, Bools, Jobs
<1> QED BY <1>1 DEF Drivers

LEMMA StartsOver ==
  ASSUME lcd' \in Lcds, ~ lcd'.four => lcd'.phase = 0, want' \in Disps,
         lines' = Pulse(1, 1, 255), NEW n \in Ticks, driver' = [Startup EXCEPT !.left = n]
  PROVE  LcdInv'
<1> DEFINE t == <<Knock, Knock, Knock, Enter>>
<1>0. 0 \in Levels /\ 1 \in Levels /\ 0 \in Octets /\ 48 \in Octets /\ 32 \in Octets /\ 255 \in Octets
      /\ FALSE \in Bools /\ "init" \in Jobs
  BY DEF Levels, Octets, Bools, Jobs
<1>1. Knock \in Wires /\ Enter \in Wires /\ lines' \in Wires
  BY <1>0, PulseIs DEF Knock, Enter
<1>2. t \in Seq(Wires)
  BY <1>1
<1>3. driver' = [for |-> "init", rs |-> 0, byte |-> 0, left |-> n, awake |-> FALSE, todo |-> t]
  BY DEF Startup, Knock, Enter
<1> HIDE DEF t
<1>4. driver' \in Drivers
  BY <1>2, <1>3, FreshDriver
<1>5. driver'.for = "init" /\ ~ driver'.awake /\ driver'.todo = <<Knock, Knock, Knock, Enter>>
  BY <1>3 DEF t
<1>6. LcdTypes'
  BY <1>1, <1>4 DEF LcdTypes
<1>7. Follows' /\ Knocking'
  BY <1>5 DEF Follows, Knocking
<1>8. Polling' /\ Writing' /\ ReadingBack'
  BY <1>5 DEF Polling, Writing, ReadingBack
<1> QED BY <1>6, <1>7, <1>8 DEF LcdInv

LEMMA LcdFirst == LcdInit => LcdInv
<1> SUFFICES ASSUME LcdInit PROVE LcdInv
  OBVIOUS
<1> DEFINE t == <<Knock, Knock, Knock, Enter>>
<1>0. 0 \in Levels /\ 1 \in Levels /\ 0 \in Octets /\ 48 \in Octets /\ 32 \in Octets /\ 255 \in Octets
      /\ FALSE \in Bools /\ "init" \in Jobs /\ MaxLcdSent \in Ticks
  BY LcdAssumption DEF Levels, Octets, Bools, Jobs, Ticks
<1>1. Knock \in Wires /\ Enter \in Wires /\ lines \in Wires
  BY <1>0, PulseIs DEF Knock, Enter, LcdInit
<1>2. t \in Seq(Wires)
  BY <1>1
<1>3. driver = [for |-> "init", rs |-> 0, byte |-> 0, left |-> MaxLcdSent, awake |-> FALSE, todo |-> t]
  BY DEF LcdInit, Startup, Knock, Enter
<1> HIDE DEF t
<1>4. driver \in Drivers
  BY <1>0, <1>2, <1>3, FreshDriver
<1>5. driver.for = "init" /\ ~ driver.awake /\ driver.todo = <<Knock, Knock, Knock, Enter>>
  BY <1>3 DEF t
<1>6. LcdTypes
  BY <1>1, <1>4, ResetIs DEF LcdTypes, LcdInit
<1>7. Follows /\ Knocking
  BY <1>5 DEF Follows, Knocking
<1>8. Polling /\ Writing /\ ReadingBack
  BY <1>5 DEF Polling, Writing, ReadingBack
<1> QED BY <1>6, <1>7, <1>8 DEF LcdInv

LEMMA LcdKept == LcdInv /\ [LcdNext]_lcdvars => LcdInv'
<1> SUFFICES ASSUME LcdInv, [LcdNext]_lcdvars PROVE LcdInv'
  OBVIOUS
<1>0. /\ lcd \in Lcds /\ want \in Disps /\ (~ lcd.four => lcd.phase = 0) /\ lcd.busy \in Nat
      /\ driver.left \in Nat
  BY DEF LcdInv, LcdTypes, Lcds, Drivers, Ticks
<1>l. 0 \in Levels /\ 1 \in Levels /\ 0 \in Octets
  BY DEF Levels, Octets
<1>1. ASSUME NEW rw \in {0, 1}, LowerFirst(rw) PROVE LcdInv'
  BY <1>1, LowerFirstKeeps
<1>2. CASE RaiseE
  BY <1>2, RaiseEKeeps
<1>3. CASE LowerE
  BY <1>3, LowerEKeeps
<1>4. CASE PollBusy
  <2>1. driver.todo = <<>> /\ Does("poll", 0, 1, 0, driver.left) /\ driver.left \in Ticks
    BY <1>0, <1>4 DEF PollBusy, Idle, Ticks
  <2> QED BY <1>l, <2>1, DoesKeeps
<1>5. LcdFree => driver.todo = <<>> /\ lcd.busy = 0 /\ driver.left - 1 \in Ticks
  <2> SUFFICES ASSUME LcdFree PROVE driver.todo = <<>> /\ lcd.busy = 0 /\ driver.left - 1 \in Ticks
    OBVIOUS
  <2>1. driver.for = "poll" /\ driver.byte < 128 /\ driver.todo = <<>> /\ driver.left > 0
    BY DEF LcdFree, Idle
  <2>2. lcd.busy = 0
    BY <2>1, Shorter DEF LcdInv, Polling
  <2>3. driver.left - 1 \in Ticks
    BY <1>0, <2>1 DEF Ticks
  <2> QED BY <2>1, <2>2, <2>3
<1>6. ASSUME NEW b \in LcdBytes, SendByte(b[1], b[2]) PROVE LcdInv'
  <2>1. b[1] \in Levels /\ b[2] \in Octets /\ (b[1] = 0 => b[2] \notin 48..63)
    BY LcdAssumption DEF Levels, Octets
  <2>2. LcdFree /\ Does("write", b[1], 0, b[2], driver.left - 1)
    BY <1>6 DEF SendByte
  <2> QED BY <1>5, <1>l, <2>1, <2>2, DoesKeeps
<1>7. CASE ReadByte
  <2>1. LcdFree /\ Does("read", 1, 1, 0, driver.left - 1)
    BY <1>7 DEF ReadByte
  <2> QED BY <1>5, <1>l, <2>1, DoesKeeps
<1>8. CASE LcdStep
  BY <1>8, LcdStepKeeps
<1>9. Restarted => /\ lines' = Pulse(1, 1, 255) /\ driver.left - 1 \in Ticks
                   /\ driver' = [Startup EXCEPT !.left = driver.left - 1]
  BY <1>0 DEF Restarted, Ticks
<1>10. CASE LcdSimReset
  BY <1>0, <1>9, <1>10, ResetIs, StartsOver DEF LcdSimReset
<1>11. CASE LcdCpuReset
  BY <1>0, <1>9, <1>11, StartsOver DEF LcdCpuReset
<1>12. CASE UNCHANGED lcdvars
  BY <1>12 DEF lcdvars, LcdInv, LcdTypes, Follows, Knocking, Polling, Writing, ReadingBack,
               FirstHalf, SecondHalf
<1> QED BY <1>1, <1>2, <1>3, <1>4, <1>6, <1>7, <1>8, <1>10, <1>11, <1>12 DEF LcdNext

(***************************************************************************)
(* Wherever a reset finds the display, and for every byte the firmware     *)
(* sends, display and firmware agree on what is under way.                 *)
(***************************************************************************)
THEOREM LcdInvariant == LcdSpec => []LcdInv
BY LcdFirst, LcdKept, PTL DEF LcdSpec

LEMMA InStep == LcdInv => NibblesInStep
<1> SUFFICES ASSUME LcdInv, driver.for # "init", lines.e = 0
             PROVE  lcd.four /\ lcd.phase = Len(driver.todo) % 2
  BY DEF NibblesInStep
<1>0. driver.for \in Jobs
  BY DEF LcdInv, LcdTypes, Drivers
<1>1. /\ lcd.four
      /\ \/ driver.todo = <<>> /\ lcd.phase = 0
         \/ (\E a : driver.todo = <<a>>) /\ lcd.phase = 1
         \/ (\E a, b : driver.todo = <<a, b>>) /\ lcd.phase = 0
  <2>1. 1 - 0 = 1
    OBVIOUS
  <2>2. CASE driver.for = "poll"
    BY <2>1, <2>2 DEF LcdInv, Polling
  <2>3. CASE driver.for = "write"
    BY <2>3 DEF LcdInv, Writing
  <2>4. CASE driver.for = "read"
    BY <2>4 DEF LcdInv, ReadingBack
  <2> QED BY <1>0, <2>2, <2>3, <2>4 DEF Jobs
<1>2. 2 % 2 = 0 /\ 1 % 2 = 1 /\ 0 % 2 = 0
  OBVIOUS
<1>3. \A a, b : Len(<<a, b>>) = 2 /\ Len(<<b>>) = 1 /\ Len(<<>>) = 0
  OBVIOUS
<1> QED BY <1>1, <1>2, <1>3

(***************************************************************************)
(* Once initialised, from whatever a reset interrupted, display and        *)
(* firmware agree which nibble is next.                                    *)
(***************************************************************************)
THEOREM NibblesAgree == LcdSpec => []NibblesInStep
BY LcdInvariant, InStep, PTL

LEMMA AtRestNext == (LcdInv /\ driver.todo = <<>> => lcd.disp = want)'
<1>1. LcdInv /\ driver.todo = <<>> => lcd.disp = want
  BY AtRest
<1> QED BY <1>1, PTL

LEMMA ByteDone ==
  ASSUME LcdInv, LcdInv', [LcdNext]_lcdvars, Len(driver.todo) = 1, driver'.todo = <<>>,
         driver.for # "init"
  PROVE  /\ lcd'.disp = want'
         /\ driver.for = "read" => driver.byte = Fetched(want)
         /\ driver.for = "write" => LeavesItsMark(want, driver.rs, driver.byte, lcd'.disp)
<1>0. Len(<<>>) = 0 /\ driver.todo # <<>>
  OBVIOUS
<1>1. lcd'.disp = want'
  BY AtRestNext
<1>2. driver \in Drivers /\ want \in Disps
  BY DEF LcdInv, LcdTypes
<1>3. LowerE
  <2>1. driver'.todo # driver.todo
    BY <1>0
  <2>2. ~ LowerFirst(0) /\ ~ LowerFirst(1)
    BY <1>2, <2>1, AwakeIs DEF LowerFirst, Woken
  <2>3. ~ RaiseE
    <3>1. \A b : [driver EXCEPT !.byte = b].todo = driver.todo
      BY <1>2 DEF Drivers
    <3> QED BY <2>1, <3>1 DEF RaiseE
  <2>4. ~ PollBusy /\ ~ ReadByte /\ \A b \in LcdBytes : ~ SendByte(b[1], b[2])
    BY <1>0 DEF PollBusy, ReadByte, SendByte, LcdFree, Idle
  <2>5. ~ LcdStep /\ ~ UNCHANGED lcdvars
    BY <2>1 DEF LcdStep, lcdvars
  <2>6. ~ LcdSimReset /\ ~ LcdCpuReset
    <3>1. \A n : [Startup EXCEPT !.left = n].todo # <<>>
      BY DEF Startup
    <3> QED BY <3>1 DEF LcdSimReset, LcdCpuReset, Restarted
  <2> QED BY <2>2, <2>3, <2>4, <2>5, <2>6 DEF LcdNext
<1>4. ASSUME driver.for = "read" PROVE driver.byte = Fetched(want)
  <2>1. lines.e = 1
    BY <1>3 DEF LowerE
  <2>2. \A a, b : Len(<<a, b>>) = 2
    OBVIOUS
  <2> QED BY <1>0, <1>4, <2>1, <2>2 DEF LcdInv, ReadingBack
<1>5. ASSUME driver.for = "write" PROVE LeavesItsMark(want, driver.rs, driver.byte, lcd'.disp)
  <2>1. want' = Applied(want, driver.rs, driver.byte)
    BY <1>3, <1>5 DEF LowerE
  <2>2. driver.rs \in Levels /\ driver.byte \in Octets
    BY <1>2 DEF Drivers
  <2> QED BY <1>1, <1>2, <2>1, <2>2, MarkLeft
<1> QED BY <1>1, <1>4, <1>5

(***************************************************************************)
(* Every byte leaves the display as an atomic one would, and its own mark: *)
(* only a clear erases, a clear and a return home show address 0 in the    *)
(* first column, an address goes where it says, a character to one cell.   *)
(* A byte read back is the one held there.                                 *)
(***************************************************************************)
THEOREM BytesShown == LcdSpec => ShowsWhatWasSent
<1>1. LcdInv /\ LcdInv' /\ [LcdNext]_lcdvars =>
        [Len(driver.todo) = 1 /\ driver'.todo = <<>> /\ driver.for # "init" =>
           /\ lcd'.disp = want'
           /\ driver.for = "read" => driver.byte = Fetched(want)
           /\ driver.for = "write" =>
                LeavesItsMark(want, driver.rs, driver.byte, lcd'.disp)]_lcdvars
  BY ByteDone
<1> QED BY <1>1, LcdInvariant, PTL DEF LcdSpec, ShowsWhatWasSent

-----------------------------------------------------------------------------
(***************************************************************************)
(* The clock.  Low(x, n) is the n bits of x that come first on the wire.   *)
(***************************************************************************)
Low(x, n) == IF n = 8 THEN x ELSE x % Weight(n)

LEMMA RtcWeights ==
  /\ Weight(0) = 1 /\ Weight(1) = 2 /\ Weight(2) = 4 /\ Weight(3) = 8
  /\ Weight(4) = 16 /\ Weight(5) = 32 /\ Weight(6) = 64 /\ Weight(7) = 128
BY DEF Weight

LEMMA OneBitMore ==
  ASSUME NEW x \in Octets, NEW w \in Nat \ {0}
  PROVE  /\ (x \div w) % 2 \in {0, 1} /\ x % w \in 0..w - 1
         /\ x % (2 * w) = (x % w) + (w * ((x \div w) % 2))
<1> DEFINE q == x \div w
           r == x % w
           h == q \div 2
           e == q % 2
           v == 2 * w
           y == r + w * e
<1>1. x \in Nat /\ v \in Nat \ {0} /\ x \in Int
  BY DEF Octets
<1>2. q \in Nat /\ r \in 0..w - 1 /\ x = w * q + r
  BY <1>1, Division
<1> HIDE DEF q, r
<1>3. h \in Nat /\ e \in 0..1 /\ q = 2 * h + e
  BY <1>2, Division
<1> HIDE DEF h, e
<1>4. w * q = v * h + w * e
  BY <1>2, <1>3
<1>5. y \in 0..v - 1
  <2>1. e = 0 \/ e = 1
    BY <1>3
  <2>2. CASE e = 0
    BY <1>2, <2>2
  <2>3. CASE e = 1
    BY <1>2, <2>3
  <2> QED BY <2>1, <2>2, <2>3
<1>6. x = v * h + y
  <2> DEFINE a == w * q
             b == v * h
             c == w * e
  <2>1. a \in Int /\ b \in Int /\ c \in Int /\ a = b + c /\ x = a + r
    BY <1>1, <1>2, <1>3, <1>4
  <2> HIDE DEF a, b, c
  <2>2. x = b + (r + c)
    BY <1>2, <2>1
  <2> QED BY <2>2 DEF b, c
<1> HIDE DEF v, y
<1>7. x % v = y
  BY <1>1, <1>3, <1>5, <1>6, Remainder
<1> QED BY <1>2, <1>3, <1>7 DEF y, v, r, e, q

LEMMA Clocked ==
  ASSUME NEW x \in Octets, NEW n \in 0..7
  PROVE  /\ Low(x, n) \in Octets /\ Low(x, n) < Weight(n) /\ BitOf(x, n) \in {0, 1}
         /\ Low(x, n) + BitOf(x, n) * Weight(n) = Low(x, n + 1)
         /\ Low(x, 0) = 0 /\ Low(x, 8) = x /\ Low(x, n + 1) \in Octets
<1> DEFINE w == Weight(n)
           b == (x \div w) % 2
           l == x % w
<1>1. w \in Nat \ {0} /\ w <= 128 /\ x \in Nat /\ x < 256
  BY RtcWeights DEF Octets
<1>2. b \in {0, 1} /\ l \in 0..w - 1 /\ x % (2 * w) = l + w * b
  <2> HIDE DEF w
  <2> QED BY <1>1, OneBitMore
<1>3. Low(x, n) = l
  BY DEF Low
<1>4. Low(x, n + 1) = x % (2 * w)
  <2>1. CASE n = 7
    <3>1. x % 256 = x
      <4>1. x = 256 * 0 + x /\ x \in Int /\ x \in 0..256 - 1 /\ 0 \in Int /\ 256 \in Nat \ {0}
        BY <1>1
      <4> QED BY <4>1, Remainder
    <3> QED BY <2>1, <3>1, RtcWeights DEF Low
  <2>2. CASE n < 7
    <3>1. Weight(n + 1) = 2 * w /\ n + 1 # 8
      BY <2>2, RtcWeights
    <3> QED BY <3>1 DEF Low
  <2> QED BY <2>1, <2>2
<1>5. Low(x, 0) = 0
  <2>1. x % 1 \in 0..0
    <3>1. x \in Nat /\ 1 \in Nat \ {0}
      BY <1>1
    <3> QED BY <3>1, Division
  <2> QED BY <2>1, RtcWeights DEF Low
<1>6. BitOf(x, n) = b
  BY DEF BitOf
<1> HIDE DEF b, l, w
<1>7. b * w = w * b
  BY <1>1, <1>2
<1>8. l + b * w \in Octets /\ l \in Octets /\ l < w
  <2>1. b = 0 \/ b = 1
    BY <1>2
  <2>2. CASE b = 0
    BY <1>1, <1>2, <2>2 DEF Octets
  <2>3. CASE b = 1
    BY <1>1, <1>2, <2>3 DEF Octets
  <2> QED BY <2>1, <2>2, <2>3
<1>9. Low(x, n + 1) = l + b * w /\ Low(x, 8) = x
  BY <1>2, <1>4, <1>7 DEF Low
<1> QED BY <1>2, <1>3, <1>5, <1>6, <1>8, <1>9 DEF w

Chips ==
  [regs : [0..7 -> Octets], lastCe : {0, 1}, lastSclk : {0, 1},
   phase : {"IDLE", "CMD", "READ", "WRITE"}, bitcount : 0..8, cur : Octets,
   addr : 0..31, burst : 0..7, data : Octets, skip : BOOLEAN]

Signals == [ce : {0, 1}, sclk : {0, 1}, io : {0, 1}]

Masters ==
  [on : BOOLEAN, left : Int, cmd : Octets, byte : Octets, sent : 0..32, got : Octets]

RtcTypes ==
  /\ rtc \in Chips /\ wires \in Signals /\ master \in Masters
  /\ held \in [0..7 -> SUBSET Octets]

Field == (master.cmd \div 2) % 32

Asks == master.cmd % 2

Limit == IF Field = 31 THEN 32 ELSE 16

(* The register the chip is at.                                            *)
At(c) == IF Field = 31 THEN c.burst ELSE Field

SeesWires ==
  /\ rtc.lastCe = wires.ce /\ rtc.lastSclk = wires.sclk
  /\ wires.ce = IF master.on THEN 1 ELSE 0
  /\ ~master.on => rtc.phase = "IDLE"

InCommand ==
  master.on /\ master.sent < 8 =>
    /\ rtc.phase = "CMD" /\ rtc.bitcount = master.sent
    /\ rtc.cur = Low(master.cmd, master.sent)

InWrite ==
  master.on /\ master.sent >= 8 /\ Asks = 0 =>
    /\ rtc.phase = "WRITE" /\ rtc.addr = Field
    /\ master.sent = 8 + 8 * rtc.burst + rtc.bitcount /\ master.sent <= Limit
    /\ IF Field = 31 THEN rtc.bitcount < 8 ELSE rtc.burst = 0
    /\ rtc.bitcount < 8 => rtc.cur = Low(master.byte, rtc.bitcount)

(* A bit sampled that the chip has not gone past.                          *)
Late == IF wires.sclk = 1 /\ master.sent > 8 THEN 1 ELSE 0

InRead ==
  master.on /\ master.sent >= 8 /\ Asks = 1 =>
    /\ rtc.phase = "READ" /\ rtc.addr = Field
    /\ master.sent <= Limit
    /\ (rtc.skip <=> wires.sclk = 1 /\ master.sent = 8)
    /\ wires.sclk = 1 \/ master.sent < Limit =>
         /\ master.sent = 8 + 8 * rtc.burst + rtc.bitcount + Late
         /\ rtc.bitcount < 8 /\ (Field # 31 => rtc.burst = 0)
         /\ IF At(rtc) < 8 THEN rtc.data \in held[At(rtc)] ELSE rtc.data = 0
         /\ rtc.bitcount + Late > 0 => master.got = Low(rtc.data, rtc.bitcount + Late)

RtcInv ==
  /\ RtcTypes /\ SeesWires /\ InCommand /\ InWrite /\ InRead
  /\ \A i \in 0..7 : rtc.regs[i] \in held[i]
  /\ rtc.regs = book

Shifted(c, x) == [c EXCEPT !.cur = Low(x, c.bitcount + 1), !.bitcount = c.bitcount + 1]

LEMMA FieldIs ==
  ASSUME NEW x \in Octets
  PROVE  x % 2 \in {0, 1} /\ (x \div 2) % 32 \in 0..31
<1> DEFINE q == x \div 2
<1>1. x \in Nat /\ 2 \in Nat \ {0} /\ 32 \in Nat \ {0}
  BY DEF Octets
<1>2. q \in Nat /\ x % 2 \in 0..1
  BY <1>1, Division
<1> HIDE DEF q
<1>3. q % 32 \in 0..31
  BY <1>1, <1>2, Division
<1> QED BY <1>2, <1>3 DEF q

LEMMA ShiftedIs ==
  ASSUME NEW c \in Chips, NEW x \in Octets, c.bitcount < 8
  PROVE  /\ Shifted(c, x) \in Chips
         /\ Shifted(c, x).cur = Low(x, c.bitcount + 1) /\ Shifted(c, x).bitcount = c.bitcount + 1
         /\ Shifted(c, x).regs = c.regs /\ Shifted(c, x).lastCe = c.lastCe
         /\ Shifted(c, x).lastSclk = c.lastSclk /\ Shifted(c, x).phase = c.phase
         /\ Shifted(c, x).addr = c.addr /\ Shifted(c, x).burst = c.burst
         /\ Shifted(c, x).data = c.data /\ Shifted(c, x).skip = c.skip
<1>1. c.bitcount \in 0..7
  BY DEF Chips
<1>2. Low(x, c.bitcount + 1) \in Octets /\ c.bitcount + 1 \in 0..8
  BY <1>1, Clocked
<1> QED BY <1>2 DEF Shifted, Chips

LEMMA RisingIs ==
  ASSUME NEW c \in Chips, NEW x \in Octets, c.bitcount < 8, c.cur = Low(x, c.bitcount)
  PROVE  Rising(c, BitOf(x, c.bitcount)) =
           IF c.bitcount < 7 THEN Shifted(c, x)
           ELSE IF c.phase = "CMD" THEN DecodeCommand(Shifted(c, x)) ELSE Written(Shifted(c, x))
<1> DEFINE n == c.bitcount
           w == Weight(n)
           b == BitOf(x, n)
<1>1. n \in 0..7
  BY DEF Chips
<1>2. /\ c.cur < w /\ c.cur + b * w = Low(x, n + 1)
  BY <1>1, Clocked
<1>3. [c EXCEPT !.cur = IF c.bitcount < 8 /\ @ < w THEN @ + b * w ELSE @, !.bitcount = @ + 1]
        = Shifted(c, x)
  <2> HIDE DEF w, b
  <2>1. [c EXCEPT !.cur = IF c.bitcount < 8 /\ @ < w THEN @ + b * w ELSE @, !.bitcount = @ + 1]
        = [c EXCEPT !.cur = c.cur + b * w, !.bitcount = c.bitcount + 1]
    BY <1>2
  <2> QED BY <1>2, <2>1 DEF Shifted
<1>4. Shifted(c, x).bitcount = n + 1 /\ Shifted(c, x).phase = c.phase
  BY ShiftedIs
<1>5. (n + 1 # 8) = (n < 7)
  BY <1>1
<1> QED BY <1>3, <1>4, <1>5 DEF Rising

ValueAt(c, f) == IF f = 31 THEN c.regs[0] ELSE IF f < 8 THEN c.regs[f] ELSE 0

SameEdges(d, c) ==
  d.lastCe = c.lastCe /\ d.lastSclk = c.lastSclk

LEMMA DecodedIs ==
  ASSUME NEW c \in Chips, NEW f, f = (c.cur \div 2) % 32
  PROVE  /\ DecodeCommand(c) \in Chips /\ SameEdges(DecodeCommand(c), c)
         /\ DecodeCommand(c).regs = c.regs
         /\ DecodeCommand(c).addr = f /\ DecodeCommand(c).burst = 0 /\ DecodeCommand(c).bitcount = 0
         /\ c.cur % 2 = 1 =>
              /\ DecodeCommand(c).phase = "READ" /\ DecodeCommand(c).skip
              /\ DecodeCommand(c).data = ValueAt(c, f)
         /\ c.cur % 2 = 0 => DecodeCommand(c).phase = "WRITE" /\ DecodeCommand(c).cur = 0
<1>1. c.cur \in Octets
  BY DEF Chips
<1>2. f \in 0..31
  BY <1>1, FieldIs
<1> DEFINE index == IF f = 31 THEN 0 ELSE f
           v == IF index < 8 THEN c.regs[index] ELSE 0
           r == [c EXCEPT !.phase = "READ", !.addr = f, !.burst = 0, !.bitcount = 0, !.data = v, !.skip = TRUE]
           w == [c EXCEPT !.phase = "WRITE", !.addr = f, !.burst = 0, !.bitcount = 0, !.cur = 0]
<1>3. v \in Octets /\ v = ValueAt(c, f)
  <2>1. \A i \in 0..7 : c.regs[i] \in Octets
    BY DEF Chips
  <2>2. f # 31 /\ f < 8 => f \in 0..7
    BY <1>2
  <2> QED BY <1>2, <2>1, <2>2, SMTT(40) DEF ValueAt, Octets
<1>4. DecodeCommand(c) = IF c.cur % 2 = 1 THEN r ELSE w
  BY DEF DecodeCommand
<1>5. c.cur % 2 \in {0, 1}
  BY <1>1, FieldIs
<1>6. CASE c.cur % 2 = 1
  <2>1. DecodeCommand(c) = r
    BY <1>4, <1>6
  <2> HIDE DEF v
  <2>2. v \in Octets /\ f \in 0..31 /\ 0 \in 0..7 /\ 0 \in 0..8
    BY <1>2, <1>3
  <2>3. r \in Chips
    BY <2>2 DEF Chips
  <2>4. /\ r.regs = c.regs /\ r.lastCe = c.lastCe /\ r.lastSclk = c.lastSclk
        /\ r.addr = f /\ r.burst = 0 /\ r.bitcount = 0
    BY DEF Chips
  <2>5. r.phase = "READ" /\ r.skip = TRUE /\ r.data = v
    BY DEF Chips
  <2> HIDE DEF r, w
  <2> QED BY <1>3, <1>6, <2>1, <2>3, <2>4, <2>5 DEF SameEdges
<1>7. CASE c.cur % 2 = 0
  <2>1. DecodeCommand(c) = w
    BY <1>4, <1>7
  <2>2. 0 \in Octets /\ f \in 0..31 /\ 0 \in 0..7 /\ 0 \in 0..8
    BY <1>2 DEF Octets
  <2>3. w \in Chips
    BY <2>2 DEF Chips
  <2>4. /\ w.regs = c.regs /\ w.lastCe = c.lastCe /\ w.lastSclk = c.lastSclk
        /\ w.addr = f /\ w.burst = 0 /\ w.bitcount = 0
    BY DEF Chips
  <2>5. w.phase = "WRITE" /\ w.cur = 0
    BY DEF Chips
  <2> HIDE DEF r, w
  <2> QED BY <1>7, <2>1, <2>3, <2>4, <2>5 DEF SameEdges
<1> QED BY <1>5, <1>6, <1>7

(* A data byte is complete.                                                *)
Index(c) == IF c.addr = 31 THEN c.burst ELSE c.addr

LEMMA WrittenIs ==
  ASSUME NEW c \in Chips, c.bitcount = 8, c.addr = 31 => c.burst < 7
  PROVE  /\ Written(c) \in Chips /\ SameEdges(Written(c), c)
         /\ Written(c).regs = IF Index(c) < 8 THEN [c.regs EXCEPT ![Index(c)] = c.cur] ELSE c.regs
         /\ Written(c).phase = c.phase /\ Written(c).addr = c.addr
         /\ c.addr = 31 => /\ Written(c).burst = c.burst + 1 /\ Written(c).bitcount = 0
                           /\ Written(c).cur = 0
         /\ c.addr # 31 => Written(c).burst = c.burst /\ Written(c).bitcount = 8
<1> DEFINE i == Index(c)
           files == IF i < 8 THEN [c.regs EXCEPT ![i] = c.cur] ELSE c.regs
           k == IF i < 8 THEN [c EXCEPT !.regs[i] = c.cur] ELSE c
           l == [c EXCEPT !.regs = files]
<1>1. c.regs \in [0..7 -> Octets] /\ c.cur \in Octets
  BY DEF Chips
<1>2. files \in [0..7 -> Octets]
  BY <1>1
<1>3. k = l
  <2>1. CASE i < 8
    <3> HIDE DEF i
    <3> QED BY <2>1
  <2>2. CASE ~(i < 8)
    <3>1. c = [c EXCEPT !.regs = c.regs]
      BY DEF Chips
    <3> HIDE DEF i
    <3> QED BY <2>2, <3>1
  <2> QED BY <2>1, <2>2
<1>4. Written(c) = IF c.addr = 31 /\ c.burst < 7
                   THEN [k EXCEPT !.burst = @ + 1, !.bitcount = 0, !.cur = 0] ELSE k
  BY DEF Written, Index
<1> HIDE DEF k, files
<1>5. /\ l \in Chips /\ l.regs = files /\ l.lastCe = c.lastCe /\ l.lastSclk = c.lastSclk
      /\ l.phase = c.phase /\ l.addr = c.addr /\ l.burst = c.burst /\ l.bitcount = 8
  BY <1>2 DEF Chips
<1> HIDE DEF l
<1>6. CASE c.addr = 31
  <2> DEFINE m == [l EXCEPT !.burst = @ + 1, !.bitcount = 0, !.cur = 0]
  <2>1. c.burst < 7 /\ Written(c) = m
    BY <1>3, <1>4, <1>6
  <2>2. l.burst + 1 \in 0..7 /\ l.burst + 1 = c.burst + 1
    BY <1>5, <2>1 DEF Chips
  <2>3. 0 \in Octets /\ 0 \in 0..8
    BY DEF Octets
  <2>4. m \in Chips
    BY <1>5, <2>2, <2>3 DEF Chips
  <2>5. /\ m.regs = l.regs /\ m.lastCe = l.lastCe /\ m.lastSclk = l.lastSclk
        /\ m.phase = l.phase /\ m.addr = l.addr
    BY <1>5 DEF Chips
  <2>6. m.burst = l.burst + 1 /\ m.bitcount = 0 /\ m.cur = 0
    BY <1>5 DEF Chips
  <2> HIDE DEF m
  <2> QED BY <1>5, <1>6, <2>1, <2>2, <2>4, <2>5, <2>6 DEF SameEdges, files
<1>7. CASE c.addr # 31
  <2>1. Written(c) = l
    BY <1>3, <1>4, <1>7
  <2> QED BY <1>5, <1>7, <2>1 DEF SameEdges, files
<1> QED BY <1>6, <1>7

LEMMA InTurns ==
  ASSUME NEW b \in Nat, NEW n \in 0..7, NEW s \in Nat
  PROVE  /\ s = 8 + 8 * b + n => s % 8 = n /\ (s - 8) \div 8 = b
         /\ s = n => s % 8 = n
<1>0. 8 \in Nat \ {0} /\ b \in Int /\ b + 1 \in Int /\ 0 \in Int /\ s \in Int /\ s - 8 \in Int /\ n \in 0..8 - 1
  OBVIOUS
<1>1. ASSUME s = 8 + 8 * b + n PROVE s % 8 = n /\ (s - 8) \div 8 = b
  <2>1. s = 8 * (b + 1) + n /\ s - 8 = 8 * b + n
    BY <1>1
  <2>2. s % 8 = n
    BY <1>0, <2>1, Remainder
  <2> DEFINE t == s - 8
  <2>3. t \in Int /\ t = 8 * b + n
    BY <1>0, <2>1
  <2> HIDE DEF t
  <2>4. t \div 8 = b
    BY <1>0, <2>3, Quotient
  <2> QED BY <2>2, <2>4 DEF t
<1>2. ASSUME s = n PROVE s % 8 = n
  <2>1. s = 8 * 0 + n
    BY <1>2
  <2> QED BY <1>0, <2>1, Remainder
<1> QED BY <1>1, <1>2

LEMMA MasterIs ==
  ASSUME RtcTypes
  PROVE  /\ Asks \in {0, 1} /\ Field \in 0..31 /\ Limit \in {16, 32} /\ master.sent \in 0..32
         /\ master.cmd \in Octets /\ master.byte \in Octets
         /\ Reading <=> Asks = 1 /\ master.sent >= 8
<1>1. master.cmd \in Octets /\ master.sent \in 0..32 /\ master.byte \in Octets
  BY DEF RtcTypes, Masters
<1> QED BY <1>1, FieldIs DEF Asks, Field, Limit, Reading

Tells(c, k) == [c EXCEPT !.lastSclk = k]

(* What the chip does when SCLK rises in a transaction.                    *)
LEMMA HighEdge ==
  ASSUME RtcTypes, SeesWires, NEW b, master.on, wires.sclk = 0,
         WritePort([wires EXCEPT !.sclk = 1, !.io = b])
  PROVE  /\ rtc' = Tells(IF rtc.phase \in {"CMD", "WRITE"} THEN Rising(rtc, b) ELSE rtc, 1)
         /\ wires'.ce = 1 /\ wires'.sclk = 1 /\ wires'.io = b
         /\ b \in {0, 1} => wires' \in Signals
<1> DEFINE w == [wires EXCEPT !.sclk = 1, !.io = b]
<1>1. w.ce = 1 /\ w.sclk = 1 /\ w.io = b /\ (b \in {0, 1} => w \in Signals) /\ wires' = w
  BY DEF RtcTypes, Signals, SeesWires, WritePort
<1>2. rtc.lastCe = 1 /\ rtc.lastSclk = 0
  BY DEF SeesWires
<1> HIDE DEF w
<1>3. OnCe(rtc, w) = rtc
  <2>1. OnCe(rtc, w) = [rtc EXCEPT !.lastCe = 1]
    BY <1>1, <1>2 DEF OnCe
  <2>2. [rtc EXCEPT !.lastCe = 1] = rtc
    BY <1>2 DEF RtcTypes, Chips
  <2> QED BY <2>1, <2>2
<1>4. rtc' = OnSclk(rtc, w)
  BY <1>3 DEF WritePort, w
<1>5. OnSclk(rtc, w) = Tells(IF rtc.phase \in {"CMD", "WRITE"} THEN Rising(rtc, b) ELSE rtc, 1)
  BY <1>1, <1>2 DEF OnSclk, Tells
<1> QED BY <1>1, <1>4, <1>5

LEMMA ClockedIs ==
  ASSUME NEW c \in Chips, NEW k \in {0, 1}
  PROVE  /\ Tells(c, k) \in Chips /\ Tells(c, k).lastSclk = k /\ Tells(c, k).lastCe = c.lastCe
         /\ Tells(c, k).regs = c.regs /\ Tells(c, k).phase = c.phase
         /\ Tells(c, k).bitcount = c.bitcount /\ Tells(c, k).cur = c.cur
         /\ Tells(c, k).addr = c.addr /\ Tells(c, k).burst = c.burst
         /\ Tells(c, k).data = c.data /\ Tells(c, k).skip = c.skip
BY DEF Chips, Tells

(* What the firmware notes when it raises SCLK.                            *)
Notes(d, g) == [master EXCEPT !.byte = d, !.sent = @ + 1, !.got = g]

LEMMA SampledIs ==
  ASSUME RtcTypes, NEW d \in Octets, NEW g \in Octets, master.sent < 32
  PROVE  /\ Notes(d, g) \in Masters /\ Notes(d, g).on = master.on /\ Notes(d, g).cmd = master.cmd
         /\ Notes(d, g).byte = d /\ Notes(d, g).sent = master.sent + 1 /\ Notes(d, g).got = g
<1>1. master.sent + 1 \in 0..32
  BY MasterIs
<1> QED BY <1>1 DEF RtcTypes, Masters, Notes

LEMMA WatchedHolds ==
  ASSUME RtcTypes, rtc' \in Chips, held' = Watched(rtc'.regs, held)
  PROVE  /\ held' \in [0..7 -> SUBSET Octets]
         /\ \A i \in 0..7 : rtc'.regs[i] \in held'[i] /\ held[i] \subseteq held'[i]
<1>1. rtc'.regs \in [0..7 -> Octets] /\ held \in [0..7 -> SUBSET Octets]
  BY DEF RtcTypes, Chips
<1>2. held' = [i \in 0..7 |-> held[i] \cup {rtc'.regs[i]}]
  BY DEF Watched
<1> QED BY <1>1, <1>2

LEMMA SameCommand ==
  ASSUME master'.cmd = master.cmd
  PROVE  Field' = Field /\ Asks' = Asks /\ Limit' = Limit
BY DEF Field, Asks, Limit

LEMMA HighInCommand ==
  ASSUME RtcInv, NEW d \in Octets, ClockHigh(d), master.sent < 8
  PROVE  RtcInv'
<1> DEFINE n == master.sent
           x == master.cmd
           b == BitOf(x, n)
           s == Shifted(rtc, x)
           c == IF n < 7 THEN s ELSE DecodeCommand(s)
<1>1. /\ RtcTypes /\ SeesWires /\ master.on /\ wires.sclk = 0 /\ n \in 0..7 /\ x \in Octets /\ rtc \in Chips
      /\ rtc.phase = "CMD" /\ rtc.bitcount = n /\ rtc.cur = Low(x, n)
  <2>1. RtcTypes /\ SeesWires /\ InCommand /\ master.on /\ wires.sclk = 0
    BY DEF RtcInv, ClockHigh
  <2>2. n \in 0..32 /\ x \in Octets
    BY <2>1, MasterIs
  <2> QED BY <2>1, <2>2 DEF InCommand, RtcTypes
<1>2. n % 8 = n
  <2>1. 0 \in Nat /\ n \in Nat
    BY <1>1
  <2> QED BY <1>1, <2>1, InTurns
<1>3. ~Reading /\ master.byte \in Octets
  BY <1>1, MasterIs
<1>4. /\ d = master.byte
      /\ WritePort([wires EXCEPT !.sclk = 1, !.io = b])
      /\ master' = Notes(d, master.got)
      /\ book' = book
      /\ held' = Watched(rtc'.regs, held)
  <2>1. n < 8 /\ ~(n >= 8)
    BY <1>1
  <2>2. d = master.byte
    BY <2>1 DEF ClockHigh
  <2>3. WritePort([wires EXCEPT !.sclk = 1, !.io = b])
    BY <1>2, <1>3, <2>1 DEF ClockHigh
  <2>4. master' = Notes(d, master.got)
    BY <1>3 DEF ClockHigh, Notes
  <2>5. book' = book
    BY <2>1 DEF ClockHigh
  <2>6. held' = Watched(rtc'.regs, held)
    BY DEF ClockHigh
  <2> QED BY <2>2, <2>3, <2>4, <2>5, <2>6
<1>5. b \in {0, 1} /\ Low(x, 8) = x
  BY <1>1, Clocked
<1>6. master.got \in Octets
  BY <1>1 DEF RtcTypes, Masters
<1>7. /\ master' \in Masters /\ master'.on /\ master'.cmd = x /\ master'.sent = n + 1
  <2>1. n < 32 /\ d \in Octets
    BY <1>1
  <2> HIDE DEF n, x
  <2>2. Notes(d, master.got) \in Masters /\ Notes(d, master.got).on = master.on
        /\ Notes(d, master.got).cmd = master.cmd /\ Notes(d, master.got).sent = master.sent + 1
    BY <1>1, <1>6, <2>1, SampledIs DEF n
  <2> QED BY <1>1, <1>4, <2>2 DEF n, x
<1>8. Rising(rtc, b) = c
  BY <1>1, RisingIs
<1>9. /\ s \in Chips /\ s.cur = Low(x, n + 1) /\ s.bitcount = n + 1 /\ s.phase = "CMD"
      /\ s.regs = rtc.regs /\ s.lastCe = rtc.lastCe
  BY <1>1, ShiftedIs
<1> HIDE DEF b, s
<1>10. /\ rtc' = Tells(c, 1) /\ wires'.ce = 1 /\ wires'.sclk = 1 /\ wires' \in Signals
  <2>1. rtc' = Tells(Rising(rtc, b), 1) /\ wires'.ce = 1 /\ wires'.sclk = 1 /\ wires' \in Signals
    BY <1>1, <1>4, <1>5, HighEdge
  <2> QED BY <1>8, <2>1
<1>11. Field' = Field /\ Asks' = Asks /\ Limit' = Limit
  BY <1>7, SameCommand
<1>12. rtc.lastCe = 1
  BY <1>1 DEF SeesWires
<1>13. rtc.regs = book /\ rtc.regs \in [0..7 -> Octets]
  BY <1>1 DEF RtcInv, Chips
<1>14. CASE n < 7
  <2>1. c = s
    BY <1>14
  <2> HIDE DEF c
  <2>2. /\ rtc' \in Chips /\ rtc'.lastSclk = 1 /\ rtc'.lastCe = 1 /\ rtc'.regs = rtc.regs
        /\ rtc'.phase = "CMD" /\ rtc'.bitcount = n + 1 /\ rtc'.cur = Low(x, n + 1)
    BY <1>1, <1>9, <1>10, <1>12, <2>1, ClockedIs
  <2>3. held' \in [0..7 -> SUBSET Octets] /\ \A i \in 0..7 : rtc'.regs[i] \in held'[i]
    BY <1>1, <1>4, <2>2, WatchedHolds
  <2>4. RtcTypes' /\ SeesWires'
    BY <1>7, <1>10, <2>2, <2>3 DEF RtcTypes, SeesWires
  <2>5. InCommand' /\ InWrite' /\ InRead'
    BY <1>1, <1>7, <1>14, <2>2 DEF InCommand, InWrite, InRead
  <2> QED BY <1>4, <1>13, <2>2, <2>3, <2>4, <2>5 DEF RtcInv
<1>15. CASE n = 7
  <2>1. c = DecodeCommand(s) /\ s.cur = x
    BY <1>5, <1>9, <1>15
  <2> HIDE DEF c
  <2>2. /\ c \in Chips /\ SameEdges(c, s) /\ c.regs = rtc.regs /\ c.addr = Field /\ c.burst = 0
        /\ c.bitcount = 0
        /\ Asks = 1 => c.phase = "READ" /\ c.skip /\ c.data = ValueAt(s, Field)
        /\ Asks = 0 => c.phase = "WRITE" /\ c.cur = 0
    BY <1>9, <2>1, DecodedIs DEF Field, Asks
  <2>3. ValueAt(s, Field) = IF Field = 31 THEN rtc.regs[0] ELSE IF Field < 8 THEN rtc.regs[Field] ELSE 0
    BY <1>9 DEF ValueAt
  <2>4. /\ rtc' \in Chips /\ rtc'.lastSclk = 1 /\ rtc'.lastCe = 1 /\ rtc'.regs = rtc.regs
        /\ rtc'.addr = Field /\ rtc'.burst = 0 /\ rtc'.bitcount = 0
        /\ rtc'.phase = c.phase /\ rtc'.skip = c.skip /\ rtc'.data = c.data /\ rtc'.cur = c.cur
    BY <1>1, <1>9, <1>10, <1>12, <2>2, ClockedIs DEF SameEdges
  <2>5. held' \in [0..7 -> SUBSET Octets] /\ \A i \in 0..7 : rtc'.regs[i] \in held'[i]
    BY <1>1, <1>4, <2>4, WatchedHolds
  <2>6. RtcTypes' /\ SeesWires'
    BY <1>7, <1>10, <2>4, <2>5 DEF RtcTypes, SeesWires
  <2>7. /\ master'.sent = 8 /\ Limit \in {16, 32} /\ Field \in 0..31
    BY <1>1, <1>7, <1>15, MasterIs
  <2>8. InCommand'
    BY <2>7 DEF InCommand
  <2>9. InWrite'
    <3>1. master'.byte \in Octets
      BY <1>7 DEF Masters
    <3>2. Low(master'.byte, 0) = 0
      <4>1. 0 \in 0..7
        OBVIOUS
      <4> QED BY <3>1, <4>1, Clocked
    <3> QED BY <1>11, <2>2, <2>4, <2>7, <3>2 DEF InWrite
  <2>10. InRead'
    <3>1. Late' = 0
      BY <2>7 DEF Late
    <3>2. At(rtc)' = IF Field = 31 THEN 0 ELSE Field
      BY <1>11, <2>4 DEF At
    <3>3. ASSUME Asks = 1 PROVE IF At(rtc)' < 8 THEN rtc'.data \in held'[At(rtc)'] ELSE rtc'.data = 0
      <4>1. CASE Field = 31
        BY <2>2, <2>3, <2>4, <2>5, <3>2, <3>3, <4>1
      <4>2. CASE Field # 31
        <5>1. At(rtc)' = Field /\ rtc'.data = IF Field < 8 THEN rtc'.regs[Field] ELSE 0
          BY <2>2, <2>3, <2>4, <3>2, <3>3, <4>2
        <5>2. Field < 8 => Field \in 0..7
          BY <2>7
        <5> QED BY <2>5, <5>1, <5>2
      <4> QED BY <4>1, <4>2
    <3>4. ASSUME Asks = 1
          PROVE  rtc'.phase = "READ" /\ rtc'.skip
      BY <2>2, <2>4, <3>4
    <3>5. 8 <= Limit /\ 8 = 8 + 8 * 0 + 0 + 0 /\ ~(0 + 0 > 0) /\ 0 < 8
      BY <2>7
    <3> QED BY <1>10, <1>11, <2>4, <2>7, <3>1, <3>3, <3>4, <3>5 DEF InRead
  <2> QED BY <1>4, <1>13, <2>4, <2>5, <2>6, <2>8, <2>9, <2>10 DEF RtcInv
<1> QED BY <1>1, <1>14, <1>15

LEMMA HighInWrite ==
  ASSUME RtcInv, NEW d \in Octets, ClockHigh(d), master.sent >= 8, Asks = 0
  PROVE  RtcInv'
<1> DEFINE n == rtc.bitcount
           k == BitOf(d, n)
           s == Shifted(rtc, d)
           c == IF n < 7 THEN s ELSE Written(s)
<1>1. /\ RtcTypes /\ SeesWires /\ master.on /\ wires.sclk = 0 /\ rtc \in Chips
      /\ master.sent \in 0..32 /\ master.sent < Limit /\ Field \in 0..31
      /\ Limit = IF Field = 31 THEN 32 ELSE 16
  <2>1. RtcTypes /\ SeesWires /\ master.on /\ wires.sclk = 0 /\ master.sent < Limit
    BY DEF RtcInv, ClockHigh, Limit, Field
  <2> QED BY <2>1, MasterIs DEF RtcTypes, Limit
<1>2. /\ rtc.phase = "WRITE" /\ rtc.addr = Field
      /\ master.sent = 8 + 8 * rtc.burst + n
      /\ IF Field = 31 THEN n < 8 ELSE rtc.burst = 0
      /\ n < 8 => rtc.cur = Low(master.byte, n)
  BY <1>1 DEF RtcInv, InWrite
<1>3. rtc.burst \in 0..7 /\ n \in 0..8
  BY <1>1 DEF Chips
<1>4. n \in 0..7 /\ rtc.burst < 3
  <2>1. CASE Field = 31
    BY <1>1, <1>2, <1>3, <2>1
  <2>2. CASE Field # 31
    BY <1>1, <1>2, <1>3, <2>2
  <2> QED BY <2>1, <2>2
<1>5. master.sent % 8 = n /\ (master.sent - 8) \div 8 = rtc.burst
  <2>1. rtc.burst \in Nat /\ master.sent \in Nat
    BY <1>1, <1>3
  <2> HIDE DEF n
  <2> QED BY <1>2, <1>4, <2>1, InTurns
<1>6. ~Reading /\ master.cmd \in Octets /\ master.byte \in Octets
  BY <1>1, MasterIs
<1>7. Register = IF Field = 31 THEN rtc.burst ELSE Field
  BY <1>5 DEF Register, Field
<1>8. /\ d = IF n = 0 THEN d ELSE master.byte
      /\ WritePort([wires EXCEPT !.sclk = 1, !.io = k])
      /\ master' = Notes(d, master.got)
      /\ book' = IF n = 7 /\ Register < 8 THEN [book EXCEPT ![Register] = d] ELSE book
      /\ held' = Watched(rtc'.regs, held)
  <2>1. master.sent >= 8 /\ ~(master.sent < 8)
    BY <1>1
  <2>2. d = IF n = 0 THEN d ELSE master.byte
    BY <1>5, <1>6, <2>1 DEF ClockHigh
  <2>3. WritePort([wires EXCEPT !.sclk = 1, !.io = k])
    BY <1>5, <1>6, <2>1 DEF ClockHigh
  <2>4. master' = Notes(d, master.got)
    BY <1>6 DEF ClockHigh, Notes
  <2>5. book' = IF n = 7 /\ Register < 8 THEN [book EXCEPT ![Register] = d] ELSE book
    BY <1>5, <1>6, <2>1 DEF ClockHigh
  <2>6. held' = Watched(rtc'.regs, held)
    BY DEF ClockHigh
  <2> QED BY <2>2, <2>3, <2>4, <2>5, <2>6
<1>9. rtc.cur = Low(d, n)
  <2>1. CASE n = 0
    <3>1. 0 \in 0..7
      OBVIOUS
    <3>2. Low(d, 0) = 0 /\ Low(master.byte, 0) = 0
      BY <1>6, <3>1, Clocked
    <3> QED BY <1>2, <2>1, <3>2
  <2>2. CASE n # 0
    BY <1>2, <1>4, <1>8, <2>2
  <2> QED BY <2>1, <2>2
<1>10. k \in {0, 1} /\ Low(d, 8) = d
  <2> HIDE DEF n
  <2> QED BY <1>4, Clocked
<1>11. /\ master' \in Masters /\ master'.on /\ master'.cmd = master.cmd
       /\ master'.sent = master.sent + 1 /\ master'.byte = d
  <2>1. master.sent < 32 /\ master.got \in Octets
    BY <1>1 DEF RtcTypes, Masters
  <2>2. /\ Notes(d, master.got) \in Masters /\ Notes(d, master.got).on = master.on
        /\ Notes(d, master.got).cmd = master.cmd /\ Notes(d, master.got).sent = master.sent + 1
        /\ Notes(d, master.got).byte = d
    BY <1>1, <2>1, SampledIs, ZenonT(40)
  <2> QED BY <1>1, <1>8, <2>2
<1>12. Rising(rtc, k) = c
  <2>1. n < 8 /\ rtc.phase # "CMD"
    BY <1>2, <1>4
  <2> QED BY <1>1, <1>9, <2>1, RisingIs
<1>13. /\ s \in Chips /\ s.cur = Low(d, n + 1) /\ s.bitcount = n + 1 /\ s.phase = "WRITE"
       /\ s.regs = rtc.regs /\ s.lastCe = rtc.lastCe /\ s.addr = Field /\ s.burst = rtc.burst
  BY <1>1, <1>2, <1>4, ShiftedIs
<1> HIDE DEF k, s
<1>14. rtc' = Tells(c, 1) /\ wires'.ce = 1 /\ wires'.sclk = 1 /\ wires' \in Signals
  <2>1. rtc' = Tells(Rising(rtc, k), 1) /\ wires'.ce = 1 /\ wires'.sclk = 1 /\ wires' \in Signals
    BY <1>1, <1>2, <1>8, <1>10, HighEdge
  <2> QED BY <1>12, <2>1
<1>15. Field' = Field /\ Asks' = Asks /\ Limit' = Limit
  BY <1>11, SameCommand
<1>16. rtc.lastCe = 1 /\ rtc.regs = book /\ rtc.regs \in [0..7 -> Octets]
  BY <1>1 DEF SeesWires, RtcInv, Chips
<1>17. ASSUME /\ c \in Chips /\ c.lastCe = 1 /\ c.phase = "WRITE" /\ c.addr = Field
              /\ c.regs = book'
              /\ master.sent + 1 = 8 + 8 * c.burst + c.bitcount
              /\ IF Field = 31 THEN c.bitcount < 8 ELSE c.burst = 0
              /\ c.bitcount < 8 => c.cur = Low(d, c.bitcount)
       PROVE  RtcInv'
  <2> HIDE DEF c
  <2>2. /\ rtc' \in Chips /\ rtc'.lastSclk = 1 /\ rtc'.lastCe = 1 /\ rtc'.regs = c.regs
        /\ rtc'.phase = "WRITE" /\ rtc'.bitcount = c.bitcount /\ rtc'.cur = c.cur
        /\ rtc'.addr = Field /\ rtc'.burst = c.burst
    BY <1>14, <1>17, ClockedIs
  <2>3. held' \in [0..7 -> SUBSET Octets] /\ \A i \in 0..7 : rtc'.regs[i] \in held'[i]
    BY <1>1, <1>8, <2>2, WatchedHolds
  <2>4. RtcTypes' /\ SeesWires'
    BY <1>11, <1>14, <2>2, <2>3 DEF RtcTypes, SeesWires
  <2>5. master'.sent >= 8 /\ ~(master'.sent < 8) /\ master'.sent <= Limit
    BY <1>1, <1>11
  <2>6. InCommand' /\ InRead'
    BY <1>15, <2>5 DEF InCommand, InRead
  <2>7. InWrite'
    BY <1>11, <1>15, <1>17, <2>2, <2>5 DEF InWrite
  <2> QED BY <1>17, <2>2, <2>3, <2>4, <2>6, <2>7 DEF RtcInv
<1>18. CASE n < 7
  <2>1. c = s /\ n # 7 /\ n + 1 < 8
    BY <1>4, <1>18
  <2>2. book' = book
    BY <1>8, <2>1
  <2>3. master.sent + 1 = 8 + 8 * rtc.burst + (n + 1)
    BY <1>2, <1>3, <1>4
  <2> HIDE DEF c, n
  <2> QED BY <1>2, <1>13, <1>16, <1>17, <2>1, <2>2, <2>3
<1>19. CASE n = 7
  <2>1. c = Written(s) /\ s.cur = d /\ s.bitcount = 8
    BY <1>10, <1>13, <1>19
  <2>2. Index(s) = Register /\ Register \in 0..31
    BY <1>1, <1>3, <1>7, <1>13 DEF Index
  <2> HIDE DEF c
  <2>3. /\ c \in Chips /\ SameEdges(c, s)
        /\ c.regs = IF Register < 8 THEN [rtc.regs EXCEPT ![Register] = d] ELSE rtc.regs
        /\ c.phase = "WRITE" /\ c.addr = Field
        /\ Field = 31 => c.burst = rtc.burst + 1 /\ c.bitcount = 0 /\ c.cur = 0
        /\ Field # 31 => c.burst = rtc.burst /\ c.bitcount = 8
    <3>1. s.addr = 31 => s.burst < 7
      BY <1>3, <1>4, <1>13
    <3> QED BY <1>13, <2>1, <2>2, <3>1, WrittenIs
  <2>4. c.regs = book'
    BY <1>8, <1>16, <1>19, <2>3
  <2>5. c.lastCe = 1
    BY <1>13, <1>16, <2>3 DEF SameEdges
  <2>6. Low(d, 0) = 0
    <3>1. 0 \in 0..7
      OBVIOUS
    <3> QED BY <3>1, Clocked
  <2>7. CASE Field = 31
    <3>1. c.burst = rtc.burst + 1 /\ c.bitcount = 0 /\ c.cur = 0
      BY <2>3, <2>7
    <3>2. master.sent + 1 = 8 + 8 * c.burst + c.bitcount
      BY <1>2, <1>3, <1>19, <3>1
    <3>3. c.bitcount < 8 /\ c.cur = Low(d, c.bitcount)
      BY <2>6, <3>1
    <3> QED BY <1>17, <2>3, <2>4, <2>5, <2>7, <3>2, <3>3
  <2>8. CASE Field # 31
    <3>1. c.burst = 0 /\ c.bitcount = 8 /\ ~(c.bitcount < 8)
      BY <1>2, <2>3, <2>8
    <3>2. master.sent + 1 = 8 + 8 * c.burst + c.bitcount
      BY <1>2, <1>19, <2>8, <3>1
    <3> QED BY <1>17, <2>3, <2>4, <2>5, <2>8, <3>1, <3>2
  <2> QED BY <2>7, <2>8
<1> QED BY <1>4, <1>18, <1>19

LEMMA HighInRead ==
  ASSUME RtcInv, NEW d \in Octets, ClockHigh(d), master.sent >= 8, Asks = 1
  PROVE  /\ RtcInv'
         /\ master.sent % 8 = 7 => master'.got = rtc.data
         /\ rtc.bitcount = master.sent % 8 /\ Register = At(rtc)
<1> DEFINE n == rtc.bitcount
           k == BitOf(rtc.data, n)
           x == rtc.data
           g == k * Weight(n) + IF n = 0 THEN 0 ELSE master.got
<1>1. /\ RtcTypes /\ SeesWires /\ master.on /\ wires.sclk = 0 /\ rtc \in Chips
      /\ master.sent \in 0..32 /\ master.sent < Limit /\ Field \in 0..31
      /\ Limit = IF Field = 31 THEN 32 ELSE 16
  <2>1. RtcTypes /\ SeesWires /\ master.on /\ wires.sclk = 0 /\ master.sent < Limit
    BY DEF RtcInv, ClockHigh, Limit, Field
  <2> QED BY <2>1, MasterIs DEF RtcTypes, Limit
<1>2. Late = 0
  BY <1>1 DEF Late
<1>3. rtc.burst \in 0..7 /\ n \in 0..8 /\ x \in Octets
  BY <1>1 DEF Chips
<1>4. /\ rtc.phase = "READ" /\ rtc.addr = Field /\ ~rtc.skip
      /\ master.sent = 8 + 8 * rtc.burst + n
      /\ n < 8 /\ (Field # 31 => rtc.burst = 0)
      /\ IF At(rtc) < 8 THEN rtc.data \in held[At(rtc)] ELSE rtc.data = 0
      /\ n > 0 => master.got = Low(x, n)
  <2>1. n + Late = n /\ 8 + 8 * rtc.burst + n + Late = 8 + 8 * rtc.burst + n
    BY <1>2, <1>3
  <2> QED BY <1>1, <2>1 DEF RtcInv, InRead
<1>5. n \in 0..7
  BY <1>3, <1>4
<1>6. master.sent % 8 = n /\ (master.sent - 8) \div 8 = rtc.burst
  <2>1. rtc.burst \in Nat /\ master.sent \in Nat
    BY <1>1, <1>3
  <2> HIDE DEF n
  <2> QED BY <1>4, <1>5, <2>1, InTurns
<1>7. Reading /\ ReadBit = k
  BY <1>1, <1>4, MasterIs DEF ReadBit
<1>8. Register = At(rtc)
  BY <1>6 DEF Register, Field, At
<1>9. /\ \E b : b = wires.io /\ WritePort([wires EXCEPT !.sclk = 1, !.io = b])
      /\ master' = Notes(d, g)
      /\ book' = book
      /\ held' = Watched(rtc'.regs, held)
  <2>1. WritePort([wires EXCEPT !.sclk = 1, !.io = wires.io])
    BY <1>7 DEF ClockHigh
  <2>2. master' = Notes(d, g)
    BY <1>6, <1>7 DEF ClockHigh, Notes
  <2>3. book' = book /\ held' = Watched(rtc'.regs, held)
    BY <1>7 DEF ClockHigh
  <2> QED BY <2>1, <2>2, <2>3
<1>10. g = Low(x, n + 1) /\ g \in Octets /\ Low(x, 8) = x
  <2> HIDE DEF x, n
  <2>1. /\ Low(x, n) + BitOf(x, n) * Weight(n) = Low(x, n + 1)
        /\ Low(x, 0) = 0 /\ Low(x, 8) = x /\ Low(x, n + 1) \in Octets /\ Low(x, n) \in Octets
    BY <1>3, <1>5, Clocked
  <2>2. (IF n = 0 THEN 0 ELSE master.got) = Low(x, n)
    BY <1>4, <1>5, <2>1
  <2> DEFINE l == Low(x, n)
             p == BitOf(x, n) * Weight(n)
             u == Low(x, n + 1)
  <2>3. l + p = u /\ g = p + l /\ l \in Octets
    BY <2>1, <2>2 DEF x
  <2>4. p \in Int
    <3>1. BitOf(x, n) \in {0, 1} /\ Weight(n) \in Int
      BY <1>3, <1>5, Clocked, RtcWeights
    <3> QED BY <3>1
  <2> HIDE DEF g, l, p
  <2>5. p + l = l + p
    BY <2>3, <2>4 DEF Octets
  <2> QED BY <2>1, <2>3, <2>5
<1> HIDE DEF g, k
<1>11. /\ master' \in Masters /\ master'.on /\ master'.cmd = master.cmd
       /\ master'.sent = master.sent + 1 /\ master'.got = Low(x, n + 1)
  <2>1. master.sent < 32
    BY <1>1
  <2> HIDE DEF n, x
  <2>2. /\ Notes(d, g) \in Masters /\ Notes(d, g).on = master.on
        /\ Notes(d, g).cmd = master.cmd /\ Notes(d, g).sent = master.sent + 1
        /\ Notes(d, g).got = g
    <3>1. RtcTypes
      BY <1>1
    <3>2. g \in Octets
      BY <1>10
    <3> QED BY <2>1, <3>1, <3>2, SampledIs
  <2> QED BY <1>1, <1>9, <1>10, <2>2
<1>12. rtc' = Tells(rtc, 1) /\ wires'.ce = 1 /\ wires'.sclk = 1 /\ wires' \in Signals
  <2>1. PICK b : b = wires.io /\ WritePort([wires EXCEPT !.sclk = 1, !.io = b])
    BY <1>9
  <2>2. b \in {0, 1}
    BY <1>1, <2>1 DEF RtcTypes, Signals
  <2>3. ~(rtc.phase \in {"CMD", "WRITE"})
    BY <1>4
  <2>4. rtc' = Tells(IF rtc.phase \in {"CMD", "WRITE"} THEN Rising(rtc, b) ELSE rtc, 1)
    BY <1>1, <2>1, HighEdge
  <2>5. wires'.ce = 1 /\ wires'.sclk = 1 /\ wires' \in Signals
    BY <1>1, <2>1, <2>2, HighEdge
  <2> QED BY <2>3, <2>4, <2>5
<1>13. Field' = Field /\ Asks' = Asks /\ Limit' = Limit
  BY <1>11, SameCommand
<1>14. /\ rtc' \in Chips /\ rtc'.lastSclk = 1 /\ rtc'.lastCe = 1 /\ rtc'.regs = rtc.regs
       /\ rtc'.phase = "READ" /\ rtc'.bitcount = n /\ rtc'.addr = Field
       /\ rtc'.burst = rtc.burst /\ rtc'.data = x /\ ~rtc'.skip
  <2>1. rtc.lastCe = 1
    BY <1>1 DEF SeesWires
  <2> QED BY <1>1, <1>4, <1>12, <2>1, ClockedIs
<1>15. /\ held' \in [0..7 -> SUBSET Octets]
       /\ \A i \in 0..7 : rtc'.regs[i] \in held'[i] /\ held[i] \subseteq held'[i]
  BY <1>1, <1>9, <1>14, WatchedHolds
<1>16. RtcTypes' /\ SeesWires'
  BY <1>11, <1>12, <1>14, <1>15 DEF RtcTypes, SeesWires
<1>17. /\ master'.sent > 8 /\ master'.sent >= 8 /\ ~(master'.sent < 8) /\ master'.sent # 8
       /\ master'.sent <= Limit
  BY <1>1, <1>11
<1>18. InCommand' /\ InWrite'
  BY <1>13, <1>17 DEF InCommand, InWrite
<1>19. Late' = 1
  BY <1>12, <1>17 DEF Late
<1>20. At(rtc)' = At(rtc)
  BY <1>13, <1>14 DEF At
<1>21. IF At(rtc)' < 8 THEN rtc'.data \in held'[At(rtc)'] ELSE rtc'.data = 0
  <2>1. At(rtc) \in 0..31
    BY <1>1, <1>3 DEF At
  <2>2. At(rtc) < 8 => At(rtc) \in 0..7
    BY <2>1
  <2> HIDE DEF x
  <2> QED BY <1>4, <1>14, <1>15, <1>20, <2>2 DEF x
<1>22. InRead'
  <2>1. master'.sent = 8 + 8 * rtc.burst + n + 1
    BY <1>3, <1>4, <1>11
  <2>2. rtc'.bitcount + Late' = n + 1
    BY <1>14, <1>19
  <2> HIDE DEF n, x
  <2> QED BY <1>4, <1>11, <1>13, <1>14, <1>17, <1>19, <1>21, <2>1, <2>2 DEF InRead
<1>23. RtcInv'
  BY <1>9, <1>14, <1>15, <1>16, <1>18, <1>22 DEF RtcInv
<1>24. master.sent % 8 = 7 => master'.got = rtc.data
  <2>1. ASSUME n = 7 PROVE master'.got = rtc.data
    BY <1>10, <1>11, <2>1
  <2> QED BY <1>6, <2>1
<1> QED BY <1>6, <1>8, <1>23, <1>24

LEMMA LowEdge ==
  ASSUME RtcTypes, SeesWires, master.on, wires.sclk = 1, WritePort([wires EXCEPT !.sclk = 0])
  PROVE  /\ rtc' = Tells(IF rtc.phase = "READ" THEN Falling(rtc) ELSE rtc, 0)
         /\ wires'.ce = 1 /\ wires'.sclk = 0 /\ wires' \in Signals
<1> DEFINE w == [wires EXCEPT !.sclk = 0]
<1>1. w.ce = 1 /\ w.sclk = 0 /\ w \in Signals /\ wires' = w
  BY DEF RtcTypes, Signals, SeesWires, WritePort
<1>2. rtc.lastCe = 1 /\ rtc.lastSclk = 1
  BY DEF SeesWires
<1> HIDE DEF w
<1>3. OnCe(rtc, w) = rtc
  <2>1. OnCe(rtc, w) = [rtc EXCEPT !.lastCe = 1]
    BY <1>1, <1>2 DEF OnCe
  <2>2. [rtc EXCEPT !.lastCe = 1] = rtc
    BY <1>2 DEF RtcTypes, Chips
  <2> QED BY <2>1, <2>2
<1>4. rtc' = OnSclk(rtc, w)
  BY <1>3 DEF WritePort, w
<1>5. OnSclk(rtc, w) = Tells(IF rtc.phase = "READ" THEN Falling(rtc) ELSE rtc, 0)
  BY <1>1, <1>2 DEF OnSclk, Tells
<1> QED BY <1>1, <1>4, <1>5

SameElsewhere(d, c) ==
  /\ d.lastCe = c.lastCe /\ d.lastSclk = c.lastSclk /\ d.regs = c.regs /\ d.phase = c.phase
  /\ d.addr = c.addr /\ d.cur = c.cur

(* What the chip shows after a falling edge.                               *)
LEMMA FallingIs ==
  ASSUME NEW c \in Chips
  PROVE  /\ Falling(c) \in Chips /\ SameElsewhere(Falling(c), c) /\ ~Falling(c).skip
         /\ c.skip \/ (c.bitcount >= 7 /\ ~(c.addr = 31 /\ c.burst < 7)) =>
              Falling(c).bitcount = c.bitcount /\ Falling(c).burst = c.burst /\ Falling(c).data = c.data
         /\ ~c.skip /\ c.bitcount < 7 =>
              /\ Falling(c).bitcount = c.bitcount + 1 /\ Falling(c).burst = c.burst
              /\ Falling(c).data = c.data
         /\ ~c.skip /\ c.bitcount >= 7 /\ c.addr = 31 /\ c.burst < 7 =>
              /\ Falling(c).bitcount = 0 /\ Falling(c).burst = c.burst + 1
              /\ Falling(c).data = c.regs[c.burst + 1]
<1>1. /\ c.bitcount \in 0..8 /\ c.burst \in 0..7 /\ c.skip \in BOOLEAN
      /\ \A i \in 0..7 : c.regs[i] \in Octets
  BY DEF Chips
<1>2. CASE c.skip
  <2> DEFINE d == [c EXCEPT !.skip = FALSE]
  <2>1. Falling(c) = d
    BY <1>2 DEF Falling
  <2>2. /\ d \in Chips /\ SameElsewhere(d, c) /\ ~d.skip
        /\ d.bitcount = c.bitcount /\ d.burst = c.burst /\ d.data = c.data
    BY DEF Chips, SameElsewhere
  <2> HIDE DEF d
  <2> QED BY <1>2, <2>1, <2>2
<1>3. CASE ~c.skip /\ c.bitcount < 7
  <2> DEFINE d == [c EXCEPT !.bitcount = @ + 1]
  <2>1. Falling(c) = d
    <3>1. ~(c.bitcount >= 7)
      BY <1>1, <1>3
    <3> QED BY <1>3, <3>1 DEF Falling
  <2>2. c.bitcount + 1 \in 0..8 /\ ~(c.bitcount >= 7)
    BY <1>1, <1>3
  <2>3. /\ d \in Chips /\ SameElsewhere(d, c) /\ ~d.skip
        /\ d.bitcount = c.bitcount + 1 /\ d.burst = c.burst /\ d.data = c.data
    BY <1>3, <2>2 DEF Chips, SameElsewhere
  <2> HIDE DEF d
  <2> QED BY <1>3, <2>1, <2>2, <2>3
<1>4. CASE ~c.skip /\ c.bitcount >= 7 /\ c.addr = 31 /\ c.burst < 7
  <2> DEFINE d == [c EXCEPT !.burst = @ + 1, !.data = c.regs[c.burst + 1], !.bitcount = 0]
  <2>1. ~(c.bitcount < 7) /\ c.burst + 1 \in 0..7 /\ 0 \in 0..8
    BY <1>1, <1>4
  <2>2. Falling(c) = d
    BY <1>4, <2>1 DEF Falling
  <2>3. c.regs[c.burst + 1] \in Octets
    BY <1>1, <2>1
  <2>4. d \in Chips
    BY <2>1, <2>3 DEF Chips
  <2>5. /\ SameElsewhere(d, c) /\ ~d.skip
        /\ d.bitcount = 0 /\ d.burst = c.burst + 1 /\ d.data = c.regs[c.burst + 1]
    BY <1>4 DEF Chips, SameElsewhere
  <2> HIDE DEF d
  <2> QED BY <1>4, <2>1, <2>2, <2>4, <2>5
<1>5. CASE ~c.skip /\ c.bitcount >= 7 /\ ~(c.addr = 31 /\ c.burst < 7)
  <2>1. ~(c.bitcount < 7)
    BY <1>1, <1>5
  <2>2. Falling(c) = c
    BY <1>5, <2>1 DEF Falling
  <2> QED BY <1>5, <2>1, <2>2 DEF SameElsewhere
<1>6. c.bitcount < 7 \/ c.bitcount >= 7
  BY <1>1
<1> QED BY <1>2, <1>3, <1>4, <1>5, <1>6

(* Between two samples: the chip shows the bit the firmware is to sample.  *)
Shows(c) ==
  master.sent < Limit =>
    /\ master.sent = 8 + 8 * c.burst + c.bitcount
    /\ c.bitcount < 8 /\ (Field # 31 => c.burst = 0)
    /\ IF At(c) < 8 THEN c.data \in held[At(c)] ELSE c.data = 0
    /\ c.bitcount > 0 => master.got = Low(c.data, c.bitcount)

LEMMA ClockLowKeeps == ASSUME RtcInv, ClockLow PROVE RtcInv'
<1> DEFINE c == IF rtc.phase = "READ" THEN Falling(rtc) ELSE rtc
<1>1. /\ RtcTypes /\ SeesWires /\ master.on /\ wires.sclk = 1 /\ rtc \in Chips
      /\ master.sent \in 0..32 /\ Field \in 0..31 /\ Asks \in {0, 1}
      /\ Limit = IF Field = 31 THEN 32 ELSE 16
  <2>1. RtcTypes /\ SeesWires /\ master.on /\ wires.sclk = 1
    BY DEF RtcInv, ClockLow
  <2> QED BY <2>1, MasterIs DEF RtcTypes, Limit
<1>2. WritePort([wires EXCEPT !.sclk = 0]) /\ UNCHANGED <<master, book, held, seconds>>
  BY DEF ClockLow
<1>3. rtc' = Tells(c, 0) /\ wires'.ce = 1 /\ wires'.sclk = 0 /\ wires' \in Signals
  BY <1>1, <1>2, LowEdge
<1>4. Field' = Field /\ Asks' = Asks /\ Limit' = Limit
  BY <1>2, SameCommand
<1>5. Late' = 0
  BY <1>3 DEF Late
<1>6. c \in Chips /\ SameElsewhere(c, rtc)
  BY <1>1, FallingIs DEF SameElsewhere
<1> HIDE DEF c
<1>7. /\ rtc' \in Chips /\ rtc'.lastSclk = 0 /\ rtc'.lastCe = 1 /\ rtc'.regs = rtc.regs
      /\ rtc'.phase = rtc.phase /\ rtc'.bitcount = c.bitcount /\ rtc'.cur = rtc.cur
      /\ rtc'.addr = rtc.addr /\ rtc'.burst = c.burst /\ rtc'.data = c.data /\ rtc'.skip = c.skip
  <2>1. rtc.lastCe = 1
    BY <1>1 DEF SeesWires
  <2> QED BY <1>1, <1>3, <1>6, <2>1, ClockedIs DEF SameElsewhere
<1>8. RtcTypes' /\ SeesWires' /\ rtc'.regs = book'
      /\ \A i \in 0..7 : rtc'.regs[i] \in held'[i]
  BY <1>1, <1>2, <1>3, <1>7 DEF RtcTypes, SeesWires, RtcInv
<1>9. CASE master.sent < 8 \/ Asks = 0
  <2>1. rtc.phase # "READ"
    BY <1>1, <1>9 DEF RtcInv, InCommand, InWrite
  <2>2. rtc'.bitcount = rtc.bitcount /\ rtc'.burst = rtc.burst
    BY <1>7, <2>1 DEF c
  <2>3. InCommand'
    BY <1>1, <1>2, <1>7, <2>2 DEF InCommand, RtcInv
  <2>4. InWrite'
    BY <1>1, <1>2, <1>4, <1>7, <2>2 DEF InWrite, RtcInv
  <2>5. ~(master'.sent >= 8 /\ Asks' = 1)
    BY <1>1, <1>2, <1>4, <1>9
  <2>6. InRead'
    BY <2>5 DEF InRead
  <2> QED BY <1>8, <2>3, <2>4, <2>6 DEF RtcInv
<1>10. CASE master.sent >= 8 /\ Asks = 1
  <2> DEFINE n == rtc.bitcount
  <2>1. /\ rtc.phase = "READ" /\ rtc.addr = Field /\ master.sent <= Limit
        /\ (rtc.skip <=> master.sent = 8)
        /\ master.sent = 8 + 8 * rtc.burst + n + Late
        /\ n < 8 /\ (Field # 31 => rtc.burst = 0)
        /\ IF At(rtc) < 8 THEN rtc.data \in held[At(rtc)] ELSE rtc.data = 0
        /\ n + Late > 0 => master.got = Low(rtc.data, n + Late)
    BY <1>1, <1>10 DEF RtcInv, InRead
  <2>2. n \in 0..8 /\ rtc.burst \in 0..7
    BY <1>1 DEF Chips
  <2>3. c = Falling(rtc)
    BY <2>1 DEF c
  <2>4. InCommand' /\ InWrite'
    <3>1. ~(master'.sent < 8) /\ Asks' # 0
      BY <1>1, <1>2, <1>4, <1>10
    <3> QED BY <3>1 DEF InCommand, InWrite
  <2>5. ~rtc'.skip /\ rtc'.phase = "READ" /\ rtc'.addr = Field /\ master'.sent <= Limit'
    BY <1>1, <1>2, <1>4, <1>7, <2>1, <2>3, FallingIs
  <2>6. \A a : At(rtc)' = IF Field = 31 THEN c.burst ELSE Field
    BY <1>4, <1>7 DEF At
  <2>7. ASSUME Shows(c)
        PROVE  InRead'
    <3>1. At(rtc)' = At(c)
      BY <2>6 DEF At
    <3>2. c.bitcount + 0 = c.bitcount /\ 8 + 8 * c.burst + c.bitcount + 0 = 8 + 8 * c.burst + c.bitcount
      BY <1>6 DEF Chips
    <3> QED BY <1>2, <1>3, <1>4, <1>5, <1>7, <2>5, <2>7, <3>1, <3>2 DEF InRead, Shows
  <2>8. ASSUME master.sent = 8 PROVE InRead'
    <3>1. Late = 0
      BY <2>8 DEF Late
    <3>2. rtc.skip /\ n = 0 /\ rtc.burst = 0
      BY <2>1, <2>2, <2>8, <3>1
    <3>3. c.bitcount = 0 /\ c.burst = 0 /\ c.data = rtc.data
      BY <1>1, <2>3, <3>2, FallingIs
    <3>4. At(c) = At(rtc)
      BY <3>2, <3>3 DEF At
    <3>5. Shows(c)
      BY <2>1, <2>8, <3>1, <3>2, <3>3, <3>4 DEF Shows
    <3> QED BY <2>7, <3>5
  <2>9. ASSUME master.sent # 8 PROVE InRead'
    <3>1. Late = 1 /\ ~rtc.skip
      BY <1>1, <1>10, <2>1, <2>9 DEF Late
    <3>2. master.sent = 8 + 8 * rtc.burst + n + 1 /\ master.got = Low(rtc.data, n + 1)
      BY <2>1, <2>2, <3>1
    <3>3. CASE n < 7
      <4>1. c.bitcount = n + 1 /\ c.burst = rtc.burst /\ c.data = rtc.data
        BY <1>1, <2>3, <3>1, <3>3, FallingIs
      <4>2. At(c) = At(rtc)
        BY <4>1 DEF At
      <4>3. n + 1 < 8 /\ master.sent = 8 + 8 * rtc.burst + (n + 1)
        BY <2>2, <3>2, <3>3
      <4> HIDE DEF n
      <4>4. Shows(c)
        BY <2>1, <3>2, <4>1, <4>2, <4>3 DEF Shows
      <4> QED BY <2>7, <4>4
    <3>4. CASE n >= 7 /\ Field = 31
      <4>1. n = 7 /\ rtc.burst < 3 /\ rtc.burst + 1 \in 0..7
        BY <1>1, <2>1, <2>2, <3>2, <3>4
      <4>2. c.bitcount = 0 /\ c.burst = rtc.burst + 1 /\ c.data = rtc.regs[rtc.burst + 1]
        <5>1. ~rtc.skip /\ n >= 7 /\ rtc.addr = 31 /\ rtc.burst < 7
          BY <2>1, <2>2, <3>1, <3>4, <4>1
        <5> QED BY <1>1, <2>3, <5>1, FallingIs
      <4>3. At(c) = rtc.burst + 1 /\ rtc.regs[rtc.burst + 1] \in held[rtc.burst + 1]
        BY <3>4, <4>1, <4>2 DEF At, RtcInv
      <4>4. master.sent = 8 + 8 * c.burst + c.bitcount /\ c.bitcount < 8 /\ ~(c.bitcount > 0)
        BY <2>2, <3>2, <4>1, <4>2
      <4>5. At(c) < 8
        BY <2>2, <4>1, <4>3
      <4>6. Shows(c)
        BY <3>4, <4>2, <4>3, <4>4, <4>5 DEF Shows
      <4> QED BY <2>7, <4>6
    <3>5. CASE n >= 7 /\ Field # 31
      <4>1. ~(master.sent < Limit)
        BY <1>1, <2>1, <2>2, <3>2, <3>5
      <4>2. Shows(c)
        BY <4>1 DEF Shows
      <4> QED BY <2>7, <4>2
    <3> QED BY <2>2, <3>3, <3>4, <3>5
  <2> QED BY <1>8, <2>4, <2>8, <2>9 DEF RtcInv
<1> QED BY <1>1, <1>9, <1>10

LEMMA AwayIs == Away \in Masters /\ Away.on = FALSE
<1>1. MaxTransactions \in Int
  BY RtcAssumption
<1> QED BY <1>1 DEF Away, Masters, Octets

LEMMA RaiseKeeps == ASSUME RtcInv, NEW cmd \in Commands, RaiseCE(cmd) PROVE RtcInv'
<1> DEFINE w == [ce |-> 1, sclk |-> 0, io |-> 0]
           b == BeginCommand(rtc)
           c == [b EXCEPT !.lastCe = 1]
           m == [Away EXCEPT !.on = TRUE, !.left = master.left - 1, !.cmd = cmd]
<1>1. /\ RtcTypes /\ SeesWires /\ ~master.on /\ wires' = w /\ rtc' = OnSclk(OnCe(rtc, w), w)
      /\ master' = m /\ held' = [i \in 0..7 |-> {rtc.regs[i]}] /\ book' = book
  BY DEF RtcInv, RaiseCE, WritePort
<1>2. rtc.lastCe = 0 /\ rtc \in Chips /\ rtc.regs = book
  BY <1>1 DEF SeesWires, RtcTypes, RtcInv
<1>3. OnCe(rtc, w) = c
  BY <1>2 DEF OnCe
<1>4. 0 \in Octets /\ 0 \in 0..8
  BY DEF Octets
<1>5. /\ b \in Chips /\ b.regs = rtc.regs /\ b.phase = "CMD" /\ b.bitcount = 0 /\ b.cur = 0
  BY <1>2, <1>4, ZenonT(40) DEF BeginCommand, Chips
<1> HIDE DEF b
<1>6. /\ c \in Chips /\ c.regs = rtc.regs /\ c.phase = "CMD" /\ c.bitcount = 0 /\ c.cur = 0
      /\ c.lastCe = 1
  BY <1>5 DEF Chips
<1> HIDE DEF c
<1>7. OnSclk(c, w) = Tells(c, 0)
  BY <1>6 DEF OnSclk, Tells
<1>8. /\ rtc' \in Chips /\ rtc'.regs = rtc.regs /\ rtc'.phase = "CMD" /\ rtc'.bitcount = 0
      /\ rtc'.cur = 0 /\ rtc'.lastCe = 1 /\ rtc'.lastSclk = 0
  BY <1>1, <1>3, <1>6, <1>7, ClockedIs
<1>9. cmd \in Octets
  BY RtcAssumption DEF Octets
<1>10. master.left - 1 \in Int
  BY <1>1 DEF RtcTypes, Masters
<1>11. m \in Masters /\ m.on = TRUE /\ m.cmd = cmd /\ m.sent = 0
  <2>1. Away.sent = 0
    BY DEF Away
  <2> QED BY <1>9, <1>10, <2>1, AwayIs DEF Masters
<1> HIDE DEF m
<1>12. \A i \in 0..7 : rtc.regs[i] \in Octets
  BY <1>2 DEF Chips
<1>13. held' \in [0..7 -> SUBSET Octets] /\ \A i \in 0..7 : rtc'.regs[i] \in held'[i]
  BY <1>1, <1>8, <1>12
<1>14. wires' \in Signals /\ wires'.ce = 1 /\ wires'.sclk = 0
  BY <1>1 DEF Signals
<1>15. RtcTypes' /\ SeesWires'
  BY <1>1, <1>8, <1>11, <1>13, <1>14 DEF RtcTypes, SeesWires
<1>16. Low(cmd, 0) = 0
  <2>1. 0 \in 0..7
    OBVIOUS
  <2> QED BY <1>9, <2>1, Clocked
<1>17. InCommand' /\ InWrite' /\ InRead'
  <2>1. master'.sent = 0 /\ ~(master'.sent >= 8)
    BY <1>1, <1>11
  <2> QED BY <1>1, <1>8, <1>11, <1>16, <2>1 DEF InCommand, InWrite, InRead
<1> QED BY <1>1, <1>2, <1>8, <1>13, <1>15, <1>17 DEF RtcInv

(* CE falls, whatever SCLK does with it.                                   *)
LEMMA DropKeeps ==
  ASSUME RtcInv, NEW w \in Signals, w.ce = 0, WritePort(w),
         master.on, master' = [master EXCEPT !.on = FALSE], UNCHANGED <<book, held>>
  PROVE  RtcInv'
<1> DEFINE a == [rtc EXCEPT !.phase = "IDLE"]
           c == [a EXCEPT !.lastCe = 0]
<1>1. RtcTypes /\ SeesWires /\ wires' = w /\ rtc' = OnSclk(OnCe(rtc, w), w)
  BY DEF RtcInv, WritePort
<1>2. rtc.lastCe = 1 /\ rtc \in Chips /\ rtc.regs = book
  BY <1>1 DEF SeesWires, RtcTypes, RtcInv
<1>3. OnCe(rtc, w) = c
  BY <1>2 DEF OnCe
<1>4. c \in Chips /\ c.regs = rtc.regs /\ c.phase = "IDLE" /\ c.lastCe = 0
  BY <1>2 DEF Chips
<1> HIDE DEF c
<1>5. OnSclk(c, w) = Tells(c, w.sclk)
  BY <1>4 DEF OnSclk, Tells
<1>6. w.sclk \in {0, 1}
  BY DEF Signals
<1>7. /\ rtc' \in Chips /\ rtc'.regs = rtc.regs /\ rtc'.phase = "IDLE"
      /\ rtc'.lastCe = 0 /\ rtc'.lastSclk = w.sclk
  BY <1>1, <1>3, <1>4, <1>5, <1>6, ClockedIs
<1>8. master' \in Masters /\ master'.on = FALSE
  BY <1>1 DEF RtcTypes, Masters
<1>9. RtcTypes' /\ SeesWires' /\ InCommand' /\ InWrite' /\ InRead'
  BY <1>1, <1>7, <1>8 DEF RtcTypes, SeesWires, InCommand, InWrite, InRead
<1> QED BY <1>2, <1>7, <1>9 DEF RtcInv

(* A second passes for whole bytes.                                        *)
LEMMA DecimalInt ==
  ASSUME NEW b \in Octets
  PROVE  FromBcd(b) \in Int
<1> DEFINE q == b \div 16
           r == b % 16
<1>1. b \in Nat /\ 16 \in Nat \ {0}
  BY DEF Octets
<1>2. q \in Nat /\ r \in 0..15
  BY <1>1, Division
<1> HIDE DEF q, r
<1>3. 10 * q + r \in Int
  BY <1>2
<1> QED BY <1>3 DEF FromBcd, q, r

LEMMA BcdByte ==
  ASSUME NEW n \in Int
  PROVE  ToBcd(n) \in Octets
<1> DEFINE q == n \div 10
           r == n % 10
           v == 16 * q + r
<1>1. 10 \in Nat \ {0} /\ 256 \in Nat \ {0}
  OBVIOUS
<1>2. q \in Int /\ r \in 0..9
  BY <1>1, DivisionOfInt
<1> HIDE DEF q, r
<1>3. v \in Int
  BY <1>2
<1> HIDE DEF v
<1>4. v % 256 \in 0..255
  BY <1>1, <1>3, DivisionOfInt
<1> QED BY <1>4 DEF ToBcd, Octets, v, q, r

LEMMA SecondKeepsBytes ==
  ASSUME NEW r \in [0..7 -> Octets]
  PROVE  AdvanceOneSecond(r) \in [0..7 -> Octets]
<1> DEFINE n == [i \in 0..6 |-> FromBcd(r[i])]
           minute == Rolls(n[0], 1, 60)
           hour   == Rolls(n[1], Carry(minute), 60)
           day    == Rolls(n[2], Carry(hour), 24)
           month  == day /\ n[3] + 1 > DaysInMonth(n[4], n[6])
           year   == month /\ n[4] + 1 > 12
           next   == [n EXCEPT
             ![0] = @ + 1 - 60 * Carry(minute),
             ![1] = @ + Carry(minute) - 60 * Carry(hour),
             ![2] = @ + Carry(hour) - 24 * Carry(day),
             ![3] = IF month THEN 1 ELSE @ + Carry(day),
             ![4] = IF year THEN 1 ELSE @ + Carry(month),
             ![5] = IF ~day THEN @ ELSE IF @ + 1 > 7 THEN 1 ELSE @ + 1,
             ![6] = IF year THEN (@ + 1) % 100 ELSE @]
           s == [i \in 0..7 |-> IF i = 7 THEN r[7] ELSE ToBcd(next[i])]
<1>1. AdvanceOneSecond(r) = s
  BY DEF AdvanceOneSecond
<1>2. n \in [0..6 -> Int]
  BY DecimalInt
<1>3. (n[6] + 1) % 100 \in Int
  <2>1. n[6] + 1 \in Int /\ 100 \in Nat \ {0}
    BY <1>2
  <2>2. (n[6] + 1) % 100 \in 0..100 - 1
    BY <2>1, DivisionOfInt
  <2> QED BY <2>2
<1> HIDE DEF n, minute, hour, day, month, year
<1>4. \A i \in 0..6 : next[i] \in Int
  <2>1. \A b : Carry(b) \in Int /\ 60 * Carry(b) \in Int /\ 24 * Carry(b) \in Int
    BY DEF Carry
  <2> QED BY <1>2, <1>3, <2>1
<1> HIDE DEF next
<1>5. \A i \in 0..6 : ToBcd(next[i]) \in Octets
  BY <1>4, BcdByte
<1>6. \A i \in 0..7 : i = 7 \/ i \in 0..6
  OBVIOUS
<1>7. s \in [0..7 -> Octets]
  BY <1>5, <1>6
<1> QED BY <1>1, <1>7

LEMMA RtcStepKeeps == ASSUME RtcInv, RtcStep PROVE RtcInv'
<1>1. /\ RtcTypes /\ rtc \in Chips /\ rtc.regs = book /\ UNCHANGED <<wires, master>>
  BY DEF RtcInv, RtcTypes, RtcStep
<1>2. CASE UNCHANGED <<rtc, book, held>>
  BY <1>1, <1>2 DEF RtcInv, RtcTypes, SeesWires, InCommand, InWrite, InRead, Late, At, Field, Asks, Limit
<1>3. CASE /\ rtc' = [rtc EXCEPT !.regs = AdvanceOneSecond(@)] /\ book' = AdvanceOneSecond(book)
           /\ held' = Watched(rtc'.regs, held)
  <2> DEFINE f == AdvanceOneSecond(rtc.regs)
  <2>1. f \in [0..7 -> Octets] /\ rtc' = [rtc EXCEPT !.regs = f] /\ book' = f
    BY <1>1, <1>3, SecondKeepsBytes DEF Chips
  <2> HIDE DEF f
  <2>2. /\ rtc' \in Chips /\ rtc'.regs = f /\ rtc'.lastCe = rtc.lastCe /\ rtc'.lastSclk = rtc.lastSclk
        /\ rtc'.phase = rtc.phase /\ rtc'.bitcount = rtc.bitcount /\ rtc'.cur = rtc.cur
        /\ rtc'.addr = rtc.addr /\ rtc'.burst = rtc.burst /\ rtc'.data = rtc.data
        /\ rtc'.skip = rtc.skip
    BY <1>1, <2>1 DEF Chips
  <2>3. /\ held' \in [0..7 -> SUBSET Octets]
        /\ \A i \in 0..7 : rtc'.regs[i] \in held'[i] /\ held[i] \subseteq held'[i]
    BY <1>1, <1>3, <2>2, WatchedHolds
  <2>4. RtcTypes' /\ SeesWires' /\ InCommand' /\ InWrite'
    BY <1>1, <2>2, <2>3 DEF RtcInv, RtcTypes, SeesWires, InCommand, InWrite, Field, Asks, Limit
  <2>5. Field' = Field /\ Asks' = Asks /\ Limit' = Limit /\ Late' = Late /\ At(rtc)' = At(rtc)
    BY <1>1, <2>2 DEF Field, Asks, Limit, Late, At
  <2>6. ASSUME (IF At(rtc) < 8 THEN rtc.data \in held[At(rtc)] ELSE rtc.data = 0)
        PROVE  IF At(rtc)' < 8 THEN rtc'.data \in held'[At(rtc)'] ELSE rtc'.data = 0
    <3>1. At(rtc) \in 0..31
      BY <1>1, MasterIs DEF At, Chips
    <3>2. At(rtc) < 8 => At(rtc) \in 0..7
      BY <3>1
    <3> QED BY <2>2, <2>3, <2>5, <2>6, <3>2
  <2>7. InRead'
    BY <1>1, <2>2, <2>5, <2>6 DEF RtcInv, InRead
  <2> QED BY <2>1, <2>2, <2>3, <2>4, <2>7 DEF RtcInv
<1> QED BY <1>2, <1>3 DEF RtcStep

LEMMA RtcFirst == RtcInit => RtcInv
<1> SUFFICES ASSUME RtcInit PROVE RtcInv
  OBVIOUS
<1>1. PICK m \in Moments :
        /\ rtc = [regs |-> m, lastCe |-> 0, lastSclk |-> 0, phase |-> "IDLE", bitcount |-> 0,
                  cur |-> 0, addr |-> 0, burst |-> 0, data |-> 0, skip |-> FALSE]
        /\ book = m /\ held = [i \in 0..7 |-> {m[i]}]
  BY DEF RtcInit
<1>2. m \in [0..7 -> Octets]
  BY RtcAssumption DEF Octets
<1>3. 0 \in Octets
  BY DEF Octets
<1>4. rtc \in Chips
  BY <1>1, <1>2, <1>3 DEF Chips
<1>5. held \in [0..7 -> SUBSET Octets] /\ \A i \in 0..7 : m[i] \in held[i]
  BY <1>1, <1>2
<1>6. wires \in Signals /\ wires.ce = 0 /\ wires.sclk = 0 /\ master \in Masters /\ ~master.on
  BY AwayIs DEF RtcInit, Signals
<1> QED BY <1>1, <1>4, <1>5, <1>6 DEF RtcInv, RtcTypes, SeesWires, InCommand, InWrite, InRead

LEMMA ClockHighKeeps ==
  ASSUME RtcInv, NEW d \in Data \cup {master.byte}, ClockHigh(d)
  PROVE  RtcInv'
<1>1. d \in Octets
  BY RtcAssumption, ZenonT(40) DEF RtcInv, RtcTypes, Masters, Octets
<1>2. Asks \in {0, 1} /\ master.sent \in 0..32
  BY MasterIs DEF RtcInv
<1>3. CASE master.sent < 8
  BY <1>1, <1>3, HighInCommand
<1>4. CASE master.sent >= 8 /\ Asks = 0
  BY <1>1, <1>4, HighInWrite
<1>5. CASE master.sent >= 8 /\ Asks = 1
  BY <1>1, <1>5, HighInRead
<1> QED BY <1>2, <1>3, <1>4, <1>5

LEMMA RtcKept == RtcInv /\ [RtcNext]_rtcvars => RtcInv'
<1> SUFFICES ASSUME RtcInv, [RtcNext]_rtcvars PROVE RtcInv'
  OBVIOUS
<1>1. ASSUME NEW cmd \in Commands, RaiseCE(cmd) PROVE RtcInv'
  BY <1>1, RaiseKeeps
<1>2. ASSUME NEW d \in Data \cup {master.byte}, ClockHigh(d) PROVE RtcInv'
  BY <1>2, ClockHighKeeps
<1>3. CASE ClockLow
  BY <1>3, ClockLowKeeps
<1>4. CASE DropCE
  <2> DEFINE w == [wires EXCEPT !.ce = 0]
  <2>1. w \in Signals /\ w.ce = 0
    BY DEF RtcInv, RtcTypes, Signals
  <2>2. /\ WritePort(w) /\ master.on /\ master' = [master EXCEPT !.on = FALSE]
        /\ UNCHANGED <<book, held>>
    BY <1>4 DEF DropCE
  <2> HIDE DEF w
  <2> QED BY <2>1, <2>2, DropKeeps
<1>5. CASE RtcCpuReset
  <2> DEFINE w == [ce |-> 0, sclk |-> 1, io |-> 1]
  <2>1. w \in Signals /\ w.ce = 0
    BY DEF Signals
  <2>2. /\ WritePort(w) /\ master.on /\ master' = [master EXCEPT !.on = FALSE]
        /\ UNCHANGED <<book, held>>
    BY <1>5 DEF RtcCpuReset
  <2> HIDE DEF w
  <2> QED BY <2>1, <2>2, DropKeeps
<1>6. CASE RtcStep
  BY <1>6, RtcStepKeeps
<1>7. CASE UNCHANGED rtcvars
  BY <1>7 DEF rtcvars, RtcInv, RtcTypes, SeesWires, InCommand, InWrite, InRead, Late, At, Field,
              Asks, Limit
<1> QED BY <1>1, <1>2, <1>3, <1>4, <1>5, <1>6, <1>7 DEF RtcNext

(***************************************************************************)
(* Through every transaction, whatever it is cut off at, the chip's shift  *)
(* register, bit counter and burst index are what the bits clocked since   *)
(* CE rose make them.                                                      *)
(***************************************************************************)
THEOREM RtcInvariant == RtcSpec => []RtcInv
BY RtcFirst, RtcKept, PTL DEF RtcSpec

(***************************************************************************)
(* A register changes only by a complete write or a second (on_sclk_write, *)
(* advance_one_second): a dropped transaction leaves nothing behind.       *)
(***************************************************************************)
THEOREM WritesWhole == RtcSpec => []WritesAreWhole
<1>1. RtcInv => WritesAreWhole
  BY DEF RtcInv, WritesAreWhole
<1> QED BY <1>1, RtcInvariant, PTL

ByteWasHeld ==
  Reading /\ master'.sent % 8 = 0 /\ master'.sent > master.sent =>
    IF Register < 8 THEN master'.got \in held[Register] ELSE master'.got = 0

LEMMA ByteIsHeld == ASSUME RtcInv, [RtcNext]_rtcvars PROVE ByteWasHeld
<1> SUFFICES ASSUME Reading, master'.sent % 8 = 0, master'.sent > master.sent
             PROVE  IF Register < 8 THEN master'.got \in held[Register] ELSE master'.got = 0
  BY DEF ByteWasHeld
<1>1. RtcTypes /\ master.sent \in 0..32 /\ Asks = 1 /\ master.sent >= 8
  BY MasterIs DEF RtcInv
<1>2. PICK d \in Data \cup {master.byte} : ClockHigh(d)
  <2>1. master'.sent # master.sent
    BY <1>1
  <2>2. ASSUME NEW cmd \in Commands, RaiseCE(cmd) PROVE FALSE
    <3>1. master'.sent = 0
      BY <2>2 DEF RaiseCE, Away
    <3> QED BY <1>1, <3>1
  <2>3. ASSUME DropCE \/ RtcCpuReset PROVE master'.sent = master.sent
    BY <1>1, <2>3 DEF DropCE, RtcCpuReset, RtcTypes, Masters
  <2> QED BY <2>1, <2>2, <2>3 DEF RtcNext, rtcvars, ClockLow, RtcStep
<1>3. d \in Octets
  BY <1>1, RtcAssumption DEF RtcTypes, Masters, Octets
<1>4. /\ master.sent % 8 = 7 => master'.got = rtc.data
      /\ rtc.bitcount = master.sent % 8 /\ Register = At(rtc)
  BY <1>1, <1>2, <1>3, HighInRead
<1>5. master'.sent = master.sent + 1
  BY <1>1, <1>2 DEF ClockHigh, RtcTypes, Masters
<1>6. master.sent % 8 = 7
  <2> DEFINE s == master.sent
  <2>1. (s + 1) % 8 = IF s % 8 = 8 - 1 THEN 0 ELSE (s % 8) + 1
    <3>1. s \in Nat /\ 8 \in Nat \ {0}
      BY <1>1
    <3> HIDE DEF s
    <3> QED BY <3>1, NextRemainder
  <2>2. s % 8 \in Nat
    <3>1. s \in Nat /\ 8 \in Nat \ {0}
      BY <1>1
    <3> HIDE DEF s
    <3>2. s % 8 \in 0..7
      BY <3>1, Division
    <3> QED BY <3>2
  <2>3. (s + 1) % 8 = 0
    BY <1>5
  <2> DEFINE r == s % 8
             t == (s + 1) % 8
  <2>4. r \in Nat /\ t = 0 /\ t = IF r = 7 THEN 0 ELSE r + 1
    BY <2>1, <2>2, <2>3
  <2> HIDE DEF r, t
  <2>5. r = 7
    BY <2>4
  <2> QED BY <2>5 DEF r
<1>7. IF At(rtc) < 8 THEN rtc.data \in held[At(rtc)] ELSE rtc.data = 0
  <2>1. master.on /\ wires.sclk = 0 /\ master.sent < Limit
    BY <1>2 DEF ClockHigh, Limit, Field
  <2> QED BY <1>1, <2>1 DEF RtcInv, InRead
<1> QED BY <1>4, <1>6, <1>7

(***************************************************************************)
(* A byte read over the wire was in its register at one moment since CE    *)
(* rose (decode_command loads the byte, and on_sclk_write shifts it).      *)
(***************************************************************************)
THEOREM ReadsWhole == RtcSpec => ReadsAreWhole
<1>1. RtcInv /\ [RtcNext]_rtcvars => [ByteWasHeld]_rtcvars
  BY ByteIsHeld
<1>2. ReadsAreWhole <=> [][ByteWasHeld]_rtcvars
  BY PTL DEF ReadsAreWhole, ByteWasHeld
<1> QED BY <1>1, <1>2, RtcInvariant, PTL DEF RtcSpec

-----------------------------------------------------------------------------
(***************************************************************************)
(* The calendar.  Two-digit numbers survive being packed, and a second     *)
(* later every field has gone on or rolled over.                           *)
(***************************************************************************)
LEMMA BcdBack ==
  ASSUME NEW n \in 0..159
  PROVE  FromBcd(ToBcd(n)) = n
<1> DEFINE t == n \div 10
           u == n % 10
           b == 16 * t + u
<1>1. n \in Nat /\ n <= 159 /\ 10 \in Nat \ {0} /\ 16 \in Nat \ {0} /\ 256 \in Nat \ {0}
  OBVIOUS
<1>2. t \in Nat /\ u \in 0..9 /\ n = 10 * t + u
  BY <1>1, Division
<1> HIDE DEF t, u
<1>3. b \in Nat /\ b \in 0..255 /\ u \in 0..15
  BY <1>1, <1>2
<1>4. b \div 16 = t /\ b % 16 = u
  BY <1>1, <1>2, <1>3, Quotient, Remainder
<1>5. b % 256 = b
  <2>1. b = 256 * 0 + b
    BY <1>3
  <2> QED BY <1>1, <1>3, <2>1, Remainder
<1> HIDE DEF b
<1>6. ToBcd(n) = b
  BY <1>5 DEF ToBcd, b, t, u
<1> QED BY <1>2, <1>4, <1>6 DEF FromBcd

LEMMA WeekdayBcd ==
  ASSUME NEW w \in 1..7
  PROVE  FromBcd(w) = w /\ ToBcd(w) = w
<1>1. w \in 0..9 /\ w \in 0..15 /\ w \in 0..255 /\ w = 10 * 0 + w /\ w = 16 * 0 + w /\ w = 256 * 0 + w
  OBVIOUS
<1>2. /\ 10 \in Nat \ {0} /\ 16 \in Nat \ {0} /\ 256 \in Nat \ {0}
      /\ w \in Int /\ w \in 0..10 - 1 /\ w \in 0..16 - 1 /\ w \in 0..256 - 1
  OBVIOUS
<1>3. w \div 10 = 0 /\ w % 10 = w /\ w \div 16 = 0 /\ w % 16 = w /\ w % 256 = w
  BY <1>1, <1>2, Quotient, Remainder
<1> QED BY <1>3 DEF FromBcd, ToBcd

(* What the registers say a second later, digit by digit.                  *)
Later(r, s) ==
  LET minute == FromBcd(r[0]) = 59
      hour   == minute /\ FromBcd(r[1]) = 59
      day    == hour /\ FromBcd(r[2]) = 23
      month  == day /\ FromBcd(r[3]) = DaysInMonth(FromBcd(r[4]), FromBcd(r[6]))
      year   == month /\ FromBcd(r[4]) = 12
  IN  /\ FromBcd(s[0]) = IF minute THEN 0 ELSE FromBcd(r[0]) + 1
      /\ FromBcd(s[1]) = IF hour THEN 0 ELSE IF minute THEN FromBcd(r[1]) + 1 ELSE FromBcd(r[1])
      /\ FromBcd(s[2]) = IF day THEN 0 ELSE IF hour THEN FromBcd(r[2]) + 1 ELSE FromBcd(r[2])
      /\ FromBcd(s[3]) = IF month THEN 1 ELSE IF day THEN FromBcd(r[3]) + 1 ELSE FromBcd(r[3])
      /\ FromBcd(s[4]) = IF year THEN 1 ELSE IF month THEN FromBcd(r[4]) + 1 ELSE FromBcd(r[4])
      /\ s[5] = IF ~day THEN r[5] ELSE IF r[5] = 7 THEN 1 ELSE r[5] + 1
      /\ FromBcd(s[6]) = IF ~year THEN FromBcd(r[6])
                         ELSE IF FromBcd(r[6]) = 99 THEN 0 ELSE FromBcd(r[6]) + 1

LEMMA MonthLength ==
  ASSUME NEW m \in 1..12, NEW y
  PROVE  DaysInMonth(m, y) \in 28..31
BY DEF DaysInMonth

LEMMA LongestMonth ==
  ASSUME NEW m, NEW y
  PROVE  DaysInMonth(m, y) \in 28..31 /\ DaysInMonth(m, y) \in 0..31 /\ DaysInMonth(m, y) \in Nat
<1>1. DaysInMonth(m, y) \in 28..31
  BY DEF DaysInMonth
<1> QED BY <1>1

LEMMA SecondLater ==
  ASSUME NEW r, IsDate(r)
  PROVE  Later(r, AdvanceOneSecond(r))
<1> DEFINE n0 == FromBcd(r[0])
           n1 == FromBcd(r[1])
           n2 == FromBcd(r[2])
           n3 == FromBcd(r[3])
           n4 == FromBcd(r[4])
           n5 == FromBcd(r[5])
           n6 == FromBcd(r[6])
           d  == DaysInMonth(n4, n6)
           n == [i \in 0..6 |-> FromBcd(r[i])]
           minute == Rolls(n[0], 1, 60)
           hour   == Rolls(n[1], Carry(minute), 60)
           day    == Rolls(n[2], Carry(hour), 24)
           month  == day /\ n[3] + 1 > DaysInMonth(n[4], n[6])
           year   == month /\ n[4] + 1 > 12
           x0 == n[0] + 1 - 60 * Carry(minute)
           x1 == n[1] + Carry(minute) - 60 * Carry(hour)
           x2 == n[2] + Carry(hour) - 24 * Carry(day)
           x3 == IF month THEN 1 ELSE n[3] + Carry(day)
           x4 == IF year THEN 1 ELSE n[4] + Carry(month)
           x5 == IF ~day THEN n[5] ELSE IF n[5] + 1 > 7 THEN 1 ELSE n[5] + 1
           x6 == IF year THEN (n[6] + 1) % 100 ELSE n[6]
           next == [n EXCEPT ![0] = x0, ![1] = x1, ![2] = x2, ![3] = x3, ![4] = x4,
                             ![5] = x5, ![6] = x6]
           s == AdvanceOneSecond(r)
<1>1. s = [i \in 0..7 |-> IF i = 7 THEN r[7] ELSE ToBcd(next[i])]
  BY DEF AdvanceOneSecond
<1>2. /\ n[0] = n0 /\ n[1] = n1 /\ n[2] = n2 /\ n[3] = n3 /\ n[4] = n4 /\ n[5] = n5 /\ n[6] = n6
      /\ DOMAIN n = 0..6
  OBVIOUS
<1>3. /\ n0 \in 0..59 /\ n1 \in 0..59 /\ n2 \in 0..23 /\ n4 \in 1..12 /\ n6 \in 0..99
      /\ n3 \in 1..d /\ n5 = r[5] /\ r[5] \in 1..7 /\ d \in 28..31
  BY WeekdayBcd, MonthLength DEF IsDate
<1> HIDE DEF n
<1>4. /\ minute <=> n0 = 59
      /\ hour <=> minute /\ n1 = 59
      /\ day <=> hour /\ n2 = 23
      /\ month <=> day /\ n3 = d
      /\ year <=> month /\ n4 = 12
  <2> HIDE DEF n0, n1, n2, n3, n4, n6, d
  <2>1. DaysInMonth(n[4], n[6]) = d
    BY <1>2 DEF d
  <2> QED BY <1>2, <1>3, <2>1 DEF Rolls, Carry
<1> HIDE DEF minute, hour, day, month, year
<1>5. /\ x0 = IF minute THEN 0 ELSE n0 + 1
      /\ x1 = IF hour THEN 0 ELSE IF minute THEN n1 + 1 ELSE n1
      /\ x2 = IF day THEN 0 ELSE IF hour THEN n2 + 1 ELSE n2
  <2> HIDE DEF n0, n1, n2, n3, n4, n5, n6, d
  <2> QED BY <1>2, <1>3, <1>4 DEF Carry
<1>6. /\ x3 = IF month THEN 1 ELSE IF day THEN n3 + 1 ELSE n3
      /\ x4 = IF year THEN 1 ELSE IF month THEN n4 + 1 ELSE n4
      /\ x5 = IF ~day THEN r[5] ELSE IF r[5] = 7 THEN 1 ELSE r[5] + 1
  <2> HIDE DEF n0, n1, n2, n3, n4, n5, n6, d
  <2> QED BY <1>2, <1>3, <1>4 DEF Carry
<1>7. x6 = IF ~year THEN n6 ELSE IF n6 = 99 THEN 0 ELSE n6 + 1
  <2> HIDE DEF n6
  <2>1. n[6] + 1 = n6 + 1 /\ n6 + 1 \in 1..100
    BY <1>2, <1>3
  <2>2. ASSUME n6 # 99 PROVE (n6 + 1) % 100 = n6 + 1
    <3>1. /\ n6 + 1 \in 0..100 - 1 /\ n6 + 1 \in Int /\ 100 \in Nat \ {0} /\ 0 \in Int
          /\ n6 + 1 = 100 * 0 + (n6 + 1)
      BY <1>3, <2>2
    <3> QED BY <3>1, Remainder
  <2>3. ASSUME n6 = 99 PROVE (n6 + 1) % 100 = 0
    BY <2>3
  <2> QED BY <1>2, <2>1, <2>2, <2>3
<1> HIDE DEF x0, x1, x2, x3, x4, x5, x6
<1>8. /\ next[0] = x0 /\ next[1] = x1 /\ next[2] = x2 /\ next[3] = x3 /\ next[4] = x4
      /\ next[5] = x5 /\ next[6] = x6
  BY <1>2
<1> HIDE DEF next
<1>9. /\ s[0] = ToBcd(x0) /\ s[1] = ToBcd(x1) /\ s[2] = ToBcd(x2) /\ s[3] = ToBcd(x3)
      /\ s[4] = ToBcd(x4) /\ s[5] = ToBcd(x5) /\ s[6] = ToBcd(x6)
  BY <1>1, <1>8
<1> HIDE DEF s
<1>10. /\ x0 \in 0..99 /\ x1 \in 0..99 /\ x2 \in 0..99 /\ x3 \in 0..99 /\ x4 \in 0..99
       /\ x6 \in 0..99 /\ x5 \in 1..7
  <2> HIDE DEF n0, n1, n2, n3, n4, n5, n6, d
  <2>1. x0 \in 0..99 /\ x1 \in 0..99 /\ x2 \in 0..99
    BY <1>3, <1>4, <1>5
  <2>2. x3 \in 0..99 /\ x4 \in 0..99 /\ x5 \in 1..7
    BY <1>3, <1>4, <1>6
  <2>3. x6 \in 0..99
    BY <1>3, <1>7
  <2> QED BY <2>1, <2>2, <2>3
<1>11. /\ FromBcd(s[0]) = x0 /\ FromBcd(s[1]) = x1 /\ FromBcd(s[2]) = x2 /\ FromBcd(s[3]) = x3
       /\ FromBcd(s[4]) = x4 /\ s[5] = x5 /\ FromBcd(s[6]) = x6
  BY <1>9, <1>10, BcdBack, WeekdayBcd
<1> QED BY <1>4, <1>5, <1>6, <1>7, <1>11 DEF Later, s

(* The terms of DayNumber: days before month m in a year that begins in    *)
(* March, and the number of days up to day d of month m.                   *)
DaysBefore(m) == (153 * ((m + 9) % 12) + 2) \div 5

MarchYear(m, y) == y + (IF m < 3 THEN 99 ELSE 100)

Days(d, m, y) == (365 * MarchYear(m, y) + (MarchYear(m, y) \div 4) + DaysBefore(m)) + d

LEMMA DaysBeforeMonths ==
  /\ DaysBefore(1) = 306 /\ DaysBefore(2) = 337 /\ DaysBefore(3) = 0 /\ DaysBefore(4) = 31
  /\ DaysBefore(5) = 61 /\ DaysBefore(6) = 92 /\ DaysBefore(7) = 122 /\ DaysBefore(8) = 153
  /\ DaysBefore(9) = 184 /\ DaysBefore(10) = 214 /\ DaysBefore(11) = 245 /\ DaysBefore(12) = 275
BY DEF DaysBefore

LEMMA LeapDay ==
  ASSUME NEW x \in Nat
  PROVE  (x + 1) \div 4 = (x \div 4) + (IF (x + 1) % 4 = 0 THEN 1 ELSE 0)
<1> DEFINE q == x \div 4
           r == x % 4
<1>1. q \in Nat /\ r \in 0..3 /\ x = 4 * q + r
  BY Division
<1> HIDE DEF q, r
<1>2. CASE r = 3
  <2>1. x + 1 = 4 * (q + 1) + 0 /\ q + 1 \in Int /\ 0 \in 0..4 - 1 /\ x + 1 \in Int /\ 4 \in Nat \ {0}
    BY <1>1, <1>2
  <2>2. (x + 1) \div 4 = q + 1 /\ (x + 1) % 4 = 0
    BY <2>1, Quotient, Remainder
  <2> QED BY <1>1, <2>2 DEF q
<1>3. CASE r # 3
  <2>1. /\ x + 1 = 4 * q + (r + 1) /\ q \in Int /\ r + 1 \in 0..4 - 1 /\ x + 1 \in Int
        /\ 4 \in Nat \ {0} /\ r + 1 # 0
    BY <1>1, <1>3
  <2>2. (x + 1) \div 4 = q /\ (x + 1) % 4 = r + 1
    BY <2>1, Quotient, Remainder
  <2> QED BY <1>1, <2>1, <2>2 DEF q
<1> QED BY <1>2, <1>3

LEMMA DaysType ==
  ASSUME NEW d \in Nat, NEW m \in 1..12, NEW y \in 0..99
  PROVE  Days(d, m, y) \in Nat /\ Days(d + 1, m, y) = Days(d, m, y) + 1
<1> DEFINE w == MarchYear(m, y)
           b == DaysBefore(m)
           q == w \div 4
<1>1. w \in Nat /\ b \in Nat
  BY DaysBeforeMonths DEF MarchYear
<1> HIDE DEF w, b
<1>2. q \in Nat
  BY <1>1, Division
<1> HIDE DEF q
<1>3. (365 * w + q + b) + d \in Nat /\ (365 * w + q + b) + (d + 1) = ((365 * w + q + b) + d) + 1
  BY <1>1, <1>2
<1> QED BY <1>3 DEF Days, w, b, q

(* The day after the last one of a month.                                  *)
LEMMA FirstOfMonth ==
  ASSUME NEW m \in 1..11, NEW y \in 0..99
  PROVE  Days(1, m + 1, y) = Days(DaysInMonth(m, y), m, y) + 1
<1> DEFINE d == DaysInMonth(m, y)
           w == MarchYear(m, y)
           q == w \div 4
<1>1. w \in Nat /\ q \in Nat
  BY Division DEF MarchYear
<1>2. CASE m = 2
  <2> DEFINE z == y + 99
             p == z \div 4
  <2>1. w = z /\ MarchYear(3, y) = z + 1 /\ z \in Nat
    BY <1>2 DEF MarchYear
  <2>2. (z + 1) \div 4 = p + (IF (z + 1) % 4 = 0 THEN 1 ELSE 0)
    BY <2>1, LeapDay
  <2>3. (z + 1) % 4 = y % 4
    <3>1. (z + 1) % 4 = (y + 100) % 4
      BY <2>1
    <3> DEFINE a == y \div 4
               r == y % 4
    <3>2. a \in Nat /\ r \in 0..3 /\ y = 4 * a + r
      BY Division
    <3> HIDE DEF a, r
    <3>3. y + 100 = 4 * (a + 25) + r /\ a + 25 \in Int /\ r \in 0..4 - 1 /\ y + 100 \in Int /\ 4 \in Nat \ {0}
      BY <3>2
    <3>4. (y + 100) % 4 = r
      BY <3>3, Remainder
    <3> QED BY <3>1, <3>4 DEF r
  <2>4. d = IF y % 4 = 0 THEN 29 ELSE 28
    BY <1>2 DEF DaysInMonth
  <2>5. p \in Nat
    BY <2>1, Division
  <2>6. Days(1, 3, y) = (365 * (z + 1) + ((z + 1) \div 4) + 0) + 1
    BY <2>1, DaysBeforeMonths DEF Days
  <2>7. Days(d, 2, y) = (365 * z + p + 337) + d
    BY <1>2, <2>1, DaysBeforeMonths DEF Days
  <2> HIDE DEF p, z, d
  <2>8. CASE y % 4 = 0
    <3>1. d = 29 /\ (z + 1) \div 4 = p + 1
      BY <2>2, <2>3, <2>4, <2>8
    <3>2. (365 * (z + 1) + (p + 1) + 0) + 1 = ((365 * z + p + 337) + 29) + 1
      BY <2>1, <2>5
    <3> QED BY <1>2, <2>6, <2>7, <3>1, <3>2 DEF d
  <2>9. CASE y % 4 # 0
    <3>1. d = 28 /\ (z + 1) \div 4 = p
      BY <2>2, <2>3, <2>4, <2>5, <2>9
    <3>2. (365 * (z + 1) + p + 0) + 1 = ((365 * z + p + 337) + 28) + 1
      BY <2>1, <2>5
    <3> QED BY <1>2, <2>6, <2>7, <3>1, <3>2 DEF d
  <2> QED BY <2>8, <2>9
<1>3. CASE m # 2
  <2>1. MarchYear(m + 1, y) = w
    BY <1>3 DEF MarchYear
  <2>2. d \in 30..31 /\ DaysBefore(m) \in Nat /\ DaysBefore(m + 1) = DaysBefore(m) + d
    <3>1. m \in {1, 3, 4, 5, 6, 7, 8, 9, 10, 11}
      BY <1>3
    <3> QED BY <3>1, DaysBeforeMonths DEF DaysInMonth
  <2> DEFINE b == DaysBefore(m)
  <2>3. Days(1, m + 1, y) = (365 * w + q + (b + d)) + 1 /\ Days(d, m, y) = (365 * w + q + b) + d
    BY <2>1, <2>2 DEF Days
  <2> HIDE DEF w, q, b, d
  <2>4. (365 * w + q + (b + d)) + 1 = ((365 * w + q + b) + d) + 1
    BY <1>1, <2>2 DEF b
  <2> QED BY <2>3, <2>4 DEF d
<1> QED BY <1>2, <1>3

(* The day after the last one of a year, and of the century.               *)
LEMMA NewYear ==
  ASSUME NEW y \in 0..99
  PROVE  /\ y # 99 => Days(1, 1, y + 1) = Days(31, 12, y) + 1
         /\ y = 99 => Days(1, 1, 0) + 36525 = Days(31, 12, y) + 1
<1> DEFINE z == y + 100
           q == z \div 4
<1>1. z \in Nat /\ MarchYear(12, y) = z /\ MarchYear(1, y + 1) = z /\ MarchYear(1, 0) = 99
  BY DEF MarchYear
<1>2. q \in Nat
  BY <1>1, Division
<1>3. Days(1, 1, y + 1) = (365 * z + q + 306) + 1 /\ Days(31, 12, y) = (365 * z + q + 275) + 31
  BY <1>1, DaysBeforeMonths DEF Days
<1>4. Days(1, 1, 0) = (365 * 99 + (99 \div 4) + 306) + 1
  BY <1>1, DaysBeforeMonths DEF Days
<1>5. 99 \div 4 = 24 /\ (y = 99 => q = 49 /\ z = 199)
  <2>1. 199 \div 4 = 49
    OBVIOUS
  <2> QED BY <2>1
<1> HIDE DEF z, q
<1>6. (365 * z + q + 306) + 1 = ((365 * z + q + 275) + 31) + 1
  BY <1>1, <1>2
<1>7. (365 * 99 + 24 + 306) + 1 + 36525 = ((365 * 199 + 49 + 275) + 31) + 1
  OBVIOUS
<1> QED BY <1>3, <1>4, <1>5, <1>6, <1>7

LEMMA SecondsOn ==
  ASSUME NEW r, NEW s, IsDate(r), Later(r, s)
  PROVE  /\ SecondOfDay(s) = (SecondOfDay(r) + 1) % 86400
         /\ SecondOfDay(r) = 86399 <=>
              FromBcd(r[0]) = 59 /\ FromBcd(r[1]) = 59 /\ FromBcd(r[2]) = 23
<1> DEFINE a == FromBcd(r[0])
           b == FromBcd(r[1])
           c == FromBcd(r[2])
           x == FromBcd(s[0])
           y == FromBcd(s[1])
           z == FromBcd(s[2])
           t == (3600 * c + 60 * b) + a
           u == (3600 * z + 60 * y) + x
<1>1. a \in 0..59 /\ b \in 0..59 /\ c \in 0..23
  BY DEF IsDate
<1>2. /\ x = IF a = 59 THEN 0 ELSE a + 1
      /\ y = IF a = 59 /\ b = 59 THEN 0 ELSE IF a = 59 THEN b + 1 ELSE b
      /\ z = IF a = 59 /\ b = 59 /\ c = 23 THEN 0 ELSE IF a = 59 /\ b = 59 THEN c + 1 ELSE c
  BY DEF Later
<1>3. SecondOfDay(r) = t /\ SecondOfDay(s) = u
  BY DEF SecondOfDay
<1> HIDE DEF a, b, c, x, y, z
<1>4. t \in Nat /\ t <= 86399 /\ (t = 86399 <=> a = 59 /\ b = 59 /\ c = 23)
  BY <1>1
<1>5. u = IF t = 86399 THEN 0 ELSE t + 1
  <2>1. CASE a # 59
    BY <1>1, <1>2, <1>4, <2>1
  <2>2. CASE a = 59 /\ b # 59
    BY <1>1, <1>2, <1>4, <2>2
  <2>3. CASE a = 59 /\ b = 59 /\ c # 23
    BY <1>1, <1>2, <1>4, <2>3
  <2>4. CASE a = 59 /\ b = 59 /\ c = 23
    BY <1>1, <1>2, <1>4, <2>4
  <2> QED BY <2>1, <2>2, <2>3, <2>4
<1> HIDE DEF t, u
<1> DEFINE k == 86400
<1>k. k \in Nat \ {0}
  OBVIOUS
<1>l. k = 86399 + 1
  OBVIOUS
<1> HIDE DEF k
<1>6. (t + 1) % k = IF t = 86399 THEN 0 ELSE t + 1
  <2>1. CASE t = 86399
    <3>1. t + 1 = k * 1 + 0 /\ 0 \in 0..k - 1 /\ 1 \in Int /\ t + 1 \in Int
      BY <1>k, <1>l, <2>1
    <3> QED BY <1>k, <2>1, <3>1, Remainder
  <2>2. CASE t # 86399
    <3> DEFINE v == t + 1
    <3>1. t \in Nat /\ t < 86399
      BY <1>4, <2>2
    <3>2. v \in Int /\ v >= 0 /\ v < k
      BY <1>l, <3>1
    <3> HIDE DEF v
    <3>3. v \in 0..k - 1
      BY <1>k, <3>2
    <3>4. v % k = v
      BY <1>k, <3>3, WithinTurn
    <3> QED BY <2>2, <3>4 DEF v
  <2> QED BY <2>1, <2>2
<1> QED BY <1>3, <1>4, <1>5, <1>6 DEF a, b, c, k

LEMMA DaysOn ==
  ASSUME NEW r, NEW s, IsDate(r), Later(r, s)
  PROVE  DayNumber(s) =
           (DayNumber(r) + (IF FromBcd(r[0]) = 59 /\ FromBcd(r[1]) = 59 /\ FromBcd(r[2]) = 23
                            THEN 1 ELSE 0)) % 36525
<1> DEFINE d == FromBcd(r[3])
           m == FromBcd(r[4])
           y == FromBcd(r[6])
           e == FromBcd(s[3])
           n == FromBcd(s[4])
           z == FromBcd(s[6])
           midnight == FromBcd(r[0]) = 59 /\ FromBcd(r[1]) = 59 /\ FromBcd(r[2]) = 23
           last == DaysInMonth(m, y)
           t == Days(d, m, y)
           u == Days(e, n, z)
           k == 36525
<1>1. m \in 1..12 /\ y \in 0..99 /\ d \in 1..last /\ last \in 28..31
  BY MonthLength DEF IsDate
<1>2. DayNumber(r) = t % k /\ DayNumber(s) = u % k
  BY DEF DayNumber, Days, DaysBefore, MarchYear
<1>3. /\ e = IF midnight /\ d = last THEN 1 ELSE IF midnight THEN d + 1 ELSE d
      /\ n = IF midnight /\ d = last /\ m = 12 THEN 1 ELSE IF midnight /\ d = last THEN m + 1 ELSE m
      /\ z = IF ~(midnight /\ d = last /\ m = 12) THEN y ELSE IF y = 99 THEN 0 ELSE y + 1
  BY DEF Later
<1> HIDE DEF d, m, y, e, n, z, midnight
<1>4. d \in Nat
  BY <1>1
<1>5. t \in Nat
  BY <1>1, <1>4, DaysType
<1>6. /\ k \in Nat \ {0}
      /\ \A j \in {0, 1} : ((t % k) + j) % k = (t + j) % k
  BY <1>5, WholeTurns
<1>7. u % k = (t + (IF midnight THEN 1 ELSE 0)) % k
  <2>1. CASE ~midnight
    <3>1. u = t /\ t + 0 = t
      BY <1>3, <1>5, <2>1
    <3> QED BY <2>1, <3>1
  <2>2. CASE midnight /\ d # last
    <3>1. e = d + 1 /\ n = m /\ z = y
      BY <1>3, <2>2
    <3>2. u = t + 1
      BY <1>1, <1>4, <3>1, DaysType
    <3> QED BY <2>2, <3>2
  <2>3. CASE midnight /\ d = last /\ m # 12
    <3>1. e = 1 /\ n = m + 1 /\ z = y /\ m \in 1..11
      BY <1>1, <1>3, <2>3
    <3>2. u = t + 1
      BY <1>1, <2>3, <3>1, FirstOfMonth
    <3> QED BY <2>3, <3>2
  <2>4. CASE midnight /\ d = last /\ m = 12
    <3>1. last = 31 /\ e = 1 /\ n = 1 /\ z = IF y = 99 THEN 0 ELSE y + 1
      <4>1. last = 31
        BY <2>4 DEF DaysInMonth
      <4> QED BY <1>3, <2>4, <4>1
    <3>2. CASE y # 99
      <4>1. u = t + 1
        BY <1>1, <2>4, <3>1, <3>2, NewYear
      <4> QED BY <2>4, <4>1
    <3>3. CASE y = 99
      <4>1. u + k = t + 1
        BY <1>1, <2>4, <3>1, <3>3, NewYear
      <4>2. u \in Nat
        <5>1. e \in Nat /\ n \in 1..12 /\ z \in 0..99
          BY <3>1, <3>3
        <5> QED BY <5>1, DaysType
      <4> HIDE DEF u, t
      <4>3. (u + k) % k = u % k
        <5> DEFINE p == u \div k
                   q == u % k
        <5>1. p \in Nat /\ q \in 0..k - 1 /\ u = k * p + q
          BY <1>6, <4>2, Division, SMTT(40)
        <5> HIDE DEF p, q
        <5>2. u + k = k * (p + 1) + q /\ p + 1 \in Int /\ u + k \in Int
          BY <4>2, <5>1, SMTT(40)
        <5>3. (u + k) % k = q
          BY <1>6, <5>1, <5>2, Remainder, SMTT(40)
        <5> QED BY <5>3 DEF q
      <4> QED BY <2>4, <4>1, <4>3
    <3> QED BY <3>2, <3>3
  <2> QED BY <2>1, <2>2, <2>3, <2>4
<1> QED BY <1>2, <1>6, <1>7 DEF midnight

LEMMA DateAgain ==
  ASSUME NEW r, NEW s, IsDate(r), Later(r, s)
  PROVE  /\ IsDate(s)
         /\ s[5] = IF FromBcd(r[0]) = 59 /\ FromBcd(r[1]) = 59 /\ FromBcd(r[2]) = 23
                   THEN (r[5] % 7) + 1 ELSE r[5]
<1> DEFINE a == FromBcd(r[0])
           b == FromBcd(r[1])
           c == FromBcd(r[2])
           d == FromBcd(r[3])
           m == FromBcd(r[4])
           y == FromBcd(r[6])
           w == r[5]
           midnight == a = 59 /\ b = 59 /\ c = 23
           last == DaysInMonth(m, y)
<1>1. /\ a \in 0..59 /\ b \in 0..59 /\ c \in 0..23 /\ m \in 1..12 /\ y \in 0..99
      /\ w \in 1..7 /\ d \in 1..last /\ last \in 28..31
  BY MonthLength DEF IsDate
<1>2. /\ FromBcd(s[0]) = IF a = 59 THEN 0 ELSE a + 1
      /\ FromBcd(s[1]) = IF a = 59 /\ b = 59 THEN 0 ELSE IF a = 59 THEN b + 1 ELSE b
      /\ FromBcd(s[2]) = IF midnight THEN 0 ELSE IF a = 59 /\ b = 59 THEN c + 1 ELSE c
  BY DEF Later
<1>3. /\ FromBcd(s[3]) = IF midnight /\ d = last THEN 1 ELSE IF midnight THEN d + 1 ELSE d
      /\ FromBcd(s[4]) = IF midnight /\ d = last /\ m = 12 THEN 1
                         ELSE IF midnight /\ d = last THEN m + 1 ELSE m
      /\ s[5] = IF ~midnight THEN w ELSE IF w = 7 THEN 1 ELSE w + 1
      /\ FromBcd(s[6]) = IF ~(midnight /\ d = last /\ m = 12) THEN y
                         ELSE IF y = 99 THEN 0 ELSE y + 1
  BY DEF Later
<1> HIDE DEF a, b, c, d, m, y, w, last
<1>4. FromBcd(s[0]) \in 0..59 /\ FromBcd(s[1]) \in 0..59 /\ FromBcd(s[2]) \in 0..23
  BY <1>1, <1>2
<1>5. FromBcd(s[4]) \in 1..12 /\ FromBcd(s[6]) \in 0..99 /\ s[5] \in 1..7
  BY <1>1, <1>3
<1>6. FromBcd(s[3]) \in 1..DaysInMonth(FromBcd(s[4]), FromBcd(s[6]))
  <2>1. CASE midnight /\ d = last
    <3>1. FromBcd(s[3]) = 1 /\ DaysInMonth(FromBcd(s[4]), FromBcd(s[6])) \in 28..31
      BY <1>3, <1>5, <2>1, MonthLength
    <3> DEFINE l == DaysInMonth(FromBcd(s[4]), FromBcd(s[6]))
    <3> HIDE DEF l
    <3>2. 1 \in 1..l
      BY <3>1 DEF l
    <3> QED BY <3>1, <3>2 DEF l
  <2>2. CASE ~(midnight /\ d = last)
    <3>1. /\ FromBcd(s[4]) = m /\ FromBcd(s[6]) = y
          /\ FromBcd(s[3]) = IF midnight THEN d + 1 ELSE d
      BY <1>3, <2>2
    <3>2. (IF midnight THEN d + 1 ELSE d) \in 1..last
      BY <1>1, <2>2
    <3> QED BY <3>1, <3>2 DEF last
  <2> QED BY <2>1, <2>2
<1>7. (w % 7) + 1 = IF w = 7 THEN 1 ELSE w + 1
  <2>1. w \in {1, 2, 3, 4, 5, 6, 7}
    BY <1>1
  <2> QED BY <2>1
<1> QED BY <1>3, <1>4, <1>5, <1>6, <1>7 DEF IsDate, w, a, b, c

LEMMA OnTheSecond ==
  ASSUME NEW r, IsDate(r)
  PROVE  OneSecondOn(r, AdvanceOneSecond(r))
<1> DEFINE s == AdvanceOneSecond(r)
<1>1. Later(r, s)
  BY SecondLater
<1> HIDE DEF s
<1>2. SecondOfDay(s) = (SecondOfDay(r) + 1) % 86400
  BY <1>1, SecondsOn
<1>3. SecondOfDay(r) = 86399 <=> FromBcd(r[0]) = 59 /\ FromBcd(r[1]) = 59 /\ FromBcd(r[2]) = 23
  BY <1>1, SecondsOn
<1>4. DayNumber(s) = (DayNumber(r) + (IF SecondOfDay(r) = 86399 THEN 1 ELSE 0)) % 36525
  BY <1>1, <1>3, DaysOn
<1>5. IsDate(s) /\ s[5] = IF SecondOfDay(r) = 86399 THEN (r[5] % 7) + 1 ELSE r[5]
  BY <1>1, <1>3, DateAgain
<1> QED BY <1>2, <1>4, <1>5 DEF OneSecondOn, s

(* A second later, from any registers.                                     *)
LEMMA DecimalRange ==
  ASSUME NEW b \in Octets
  PROVE  FromBcd(b) \in 0..165
<1> DEFINE q == b \div 16
           r == b % 16
<1>1. b \in Nat /\ b <= 255 /\ 16 \in Nat \ {0}
  BY DEF Octets
<1>2. q \in Nat /\ r \in 0..15 /\ b = 16 * q + r
  BY <1>1, Division
<1> HIDE DEF q, r
<1>3. 10 * q + r \in 0..165
  BY <1>1, <1>2
<1> QED BY <1>3 DEF FromBcd, q, r

LEMMA AnySecond ==
  ASSUME NEW r \in [0..7 -> Octets]
  PROVE  ASecondLater(r, AdvanceOneSecond(r))
<1> DEFINE n0 == FromBcd(r[0])
           n1 == FromBcd(r[1])
           n2 == FromBcd(r[2])
           n3 == FromBcd(r[3])
           n4 == FromBcd(r[4])
           n5 == FromBcd(r[5])
           n6 == FromBcd(r[6])
           n == [i \in 0..6 |-> FromBcd(r[i])]
           minute == Rolls(n[0], 1, 60)
           hour   == Rolls(n[1], Carry(minute), 60)
           day    == Rolls(n[2], Carry(hour), 24)
           month  == day /\ n[3] + 1 > DaysInMonth(n[4], n[6])
           year   == month /\ n[4] + 1 > 12
           x0 == n[0] + 1 - 60 * Carry(minute)
           x1 == n[1] + Carry(minute) - 60 * Carry(hour)
           x2 == n[2] + Carry(hour) - 24 * Carry(day)
           x3 == IF month THEN 1 ELSE n[3] + Carry(day)
           x4 == IF year THEN 1 ELSE n[4] + Carry(month)
           x5 == IF ~day THEN n[5] ELSE IF n[5] + 1 > 7 THEN 1 ELSE n[5] + 1
           x6 == IF year THEN (n[6] + 1) % 100 ELSE n[6]
           next == [n EXCEPT ![0] = x0, ![1] = x1, ![2] = x2, ![3] = x3, ![4] = x4,
                             ![5] = x5, ![6] = x6]
           s == AdvanceOneSecond(r)
           a == Carry(minute)
           b == Carry(hour)
           c == Carry(day)
<1>1. s = [i \in 0..7 |-> IF i = 7 THEN r[7] ELSE ToBcd(next[i])]
  BY DEF AdvanceOneSecond
<1>2. /\ n[0] = n0 /\ n[1] = n1 /\ n[2] = n2 /\ n[3] = n3 /\ n[4] = n4 /\ n[5] = n5 /\ n[6] = n6
      /\ DOMAIN n = 0..6
  OBVIOUS
<1>3. /\ n0 \in 0..165 /\ n1 \in 0..165 /\ n2 \in 0..165 /\ n3 \in 0..165 /\ n5 \in 0..165
  BY DecimalRange
<1> HIDE DEF n
<1>4. /\ next[0] = x0 /\ next[1] = x1 /\ next[2] = x2 /\ next[3] = x3 /\ next[4] = x4
      /\ next[5] = x5 /\ next[6] = x6
  BY <1>2
<1> HIDE DEF next
<1>5. /\ s[0] = ToBcd(x0) /\ s[1] = ToBcd(x1) /\ s[2] = ToBcd(x2) /\ s[3] = ToBcd(x3)
      /\ s[4] = ToBcd(x4) /\ s[5] = ToBcd(x5) /\ s[6] = ToBcd(x6) /\ s[7] = r[7]
  BY <1>1, <1>4
<1> HIDE DEF s
<1>6. /\ a = (IF n0 + 1 >= 60 THEN 1 ELSE 0) /\ b = (IF n1 + a >= 60 THEN 1 ELSE 0)
      /\ c = (IF n2 + b >= 24 THEN 1 ELSE 0) /\ c = (IF day THEN 1 ELSE 0)
  BY <1>2 DEF Rolls, Carry
<1>7. x0 = n0 + 1 - 60 * a /\ x1 = n1 + a - 60 * b /\ x2 = n2 + b - 24 * c
  BY <1>2
<1>8. ~ day => x3 = n3 /\ x4 = n4 /\ x5 = n5 /\ x6 = n6
  <2>1. ~ day => ~ month /\ ~ year
    OBVIOUS
  <2>2. ~ day => Carry(day) = 0 /\ Carry(month) = 0
    BY <2>1 DEF Carry
  <2>3. n3 + 0 = n3 /\ n4 + 0 = n4
    <3>1. n4 \in Int /\ n3 \in Int
      BY DecimalInt
    <3> HIDE DEF n3, n4
    <3> QED BY <3>1
  <2> HIDE DEF day, month, year
  <2> QED BY <1>2, <2>1, <2>2, <2>3
<1>9. day => x5 = (IF n5 < 7 THEN n5 + 1 ELSE 1) /\ (x3 = 1 \/ (x3 = n3 + 1 /\ n3 + 1 <= 31))
  <2> SUFFICES ASSUME day PROVE x5 = (IF n5 < 7 THEN n5 + 1 ELSE 1) /\ (x3 = 1 \/ (x3 = n3 + 1 /\ n3 + 1 <= 31))
    OBVIOUS
  <2>1. Carry(day) = 1
    BY DEF Carry
  <2>2. ~ month => n3 + 1 <= DaysInMonth(n4, n6)
    <3> DEFINE d == DaysInMonth(n4, n6)
    <3>1. d \in Nat
      BY LongestMonth
    <3>2. DaysInMonth(n[4], n[6]) = d
      BY <1>2
    <3> HIDE DEF d, n3, n4, n6, day
    <3> QED BY <1>2, <1>3, <3>1, <3>2 DEF d
  <2>3. DaysInMonth(n4, n6) \in 0..31
    BY LongestMonth
  <2>4. ~ month => n3 + 1 <= 31
    <3> DEFINE d == DaysInMonth(n4, n6)
    <3> HIDE DEF d, n3, month
    <3> QED BY <1>3, <2>2, <2>3 DEF d
  <2>5. x3 = 1 \/ (x3 = n3 + 1 /\ n3 + 1 <= 31)
    <3> HIDE DEF n3, month, day
    <3> QED BY <1>2, <2>1, <2>4
  <2>6. x5 = IF n5 < 7 THEN n5 + 1 ELSE 1
    <3> HIDE DEF n5, day
    <3> QED BY <1>2, <1>3
  <2> QED BY <2>5, <2>6
<1> HIDE DEF n0, n1, n2, n3, n4, n5, n6, a, b, c, day, x0, x1, x2, x3, x4, x5, x6
<1>10. a \in {0, 1} /\ b \in {0, 1} /\ c \in {0, 1} /\ x0 \in 0..159 /\ x1 \in 0..159 /\ x2 \in 0..159
  <2>1. a \in {0, 1} /\ b \in {0, 1} /\ c \in {0, 1}
    BY <1>6
  <2>2. x0 \in 0..159
    BY <1>3, <1>6, <1>7
  <2>3. x1 \in 0..159
    BY <1>3, <1>6, <1>7, <2>1
  <2>4. x2 \in 0..159
    BY <1>3, <1>6, <1>7, <2>1
  <2> QED BY <2>1, <2>2, <2>3, <2>4
<1>11. FromBcd(s[0]) = x0 /\ FromBcd(s[1]) = x1 /\ FromBcd(s[2]) = x2
  BY <1>5, <1>10, BcdBack
<1> DEFINE t == (3600 * n2 + 60 * n1) + n0
           u == (3600 * x2 + 60 * x1) + x0
<1>12. SecondOfDay(r) = t /\ SecondOfDay(s) = u
  BY <1>3, <1>10, <1>11 DEF SecondOfDay, n0, n1, n2
<1>13. u + 86400 * c = t + 1 /\ t \in Nat /\ u \in Nat
  BY <1>3, <1>7, <1>10
<1> HIDE DEF t, u
<1>14. u < t <=> day
  BY <1>6, <1>10, <1>13
<1>15. u + (IF u < t THEN 86400 ELSE 0) = t + 1
  BY <1>6, <1>13, <1>14
<1>16. /\ x0 < 60 \/ x0 < n0
       /\ x1 < 60 \/ x1 < n1
       /\ x2 < 24 \/ x2 < n2
  <2>1. x0 < 60 \/ x0 < n0
    BY <1>3, <1>6, <1>7
  <2>2. x1 < 60 \/ x1 < n1
    BY <1>3, <1>6, <1>7, <1>10
  <2>3. x2 < 24 \/ x2 < n2
    BY <1>3, <1>6, <1>7, <1>10
  <2> QED BY <2>1, <2>2, <2>3
<1>17. \A i \in 0..2 : FromBcd(s[i]) < <<60, 60, 24>>[i + 1] \/ FromBcd(s[i]) < FromBcd(r[i])
  <2> TAKE i \in 0..2
  <2>1. CASE i = 0
    BY <1>11, <1>16, <2>1 DEF n0
  <2>2. CASE i = 1
    BY <1>11, <1>16, <2>2 DEF n1
  <2>3. CASE i = 2
    BY <1>11, <1>16, <2>3 DEF n2
  <2> QED BY <2>1, <2>2, <2>3
<1>18. ~ day => \A i \in 3..6 : s[i] = ToBcd(FromBcd(r[i]))
  <2> SUFFICES ASSUME ~ day PROVE \A i \in 3..6 : s[i] = ToBcd(FromBcd(r[i]))
    OBVIOUS
  <2>1. s[3] = ToBcd(FromBcd(r[3])) /\ s[4] = ToBcd(FromBcd(r[4]))
        /\ s[5] = ToBcd(FromBcd(r[5])) /\ s[6] = ToBcd(FromBcd(r[6]))
    BY <1>5, <1>8 DEF n3, n4, n5, n6
  <2>2. \A i \in 3..6 : i = 3 \/ i = 4 \/ i = 5 \/ i = 6
    OBVIOUS
  <2> QED BY <2>1, <2>2
<1>19. day => s[5] = IF n5 < 7 THEN n5 + 1 ELSE 1
  <2>1. day => x5 \in 1..7
    BY <1>3, <1>9
  <2> QED BY <1>5, <1>9, <2>1, WeekdayBcd
<1>20. day => FromBcd(s[3]) = 1 \/ (FromBcd(s[3]) = n3 + 1 /\ n3 + 1 <= 31)
  <2>1. day => x3 \in 0..159
    BY <1>3, <1>9
  <2> QED BY <1>5, <1>9, <2>1, BcdBack
<1>21. ASecondLater(r, s)
  <2>1. SecondOfDay(s) + (IF SecondOfDay(s) < SecondOfDay(r) THEN 86400 ELSE 0) = SecondOfDay(r) + 1
    BY <1>12, <1>15
  <2>2. SecondOfDay(s) < SecondOfDay(r) <=> day
    BY <1>12, <1>14
  <2>3. day => s[5] = IF FromBcd(r[5]) < 7 THEN FromBcd(r[5]) + 1 ELSE 1
    BY <1>19 DEF n5
  <2>4. day => FromBcd(s[3]) = 1 \/ (FromBcd(s[3]) = FromBcd(r[3]) + 1 /\ FromBcd(s[3]) <= 31)
    <3>1. n3 + 1 <= 31 /\ FromBcd(s[3]) = n3 + 1 => FromBcd(s[3]) <= 31
      OBVIOUS
    <3> QED BY <1>20, <3>1 DEF n3
  <2> QED BY <1>5, <1>17, <1>18, <2>1, <2>2, <2>3, <2>4 DEF ASecondLater
<1> QED BY <1>21 DEF s

SecondsCounted == seconds.passed \in Nat

DateCounted ==
  seconds'.passed > seconds.passed =>
    /\ ASecondLater(rtc.regs, rtc'.regs)
    /\ IsDate(rtc.regs) => OneSecondOn(rtc.regs, rtc'.regs)

LEMMA SecondPasses ==
  ASSUME RtcTypes, SecondsCounted, [RtcNext]_rtcvars
  PROVE  SecondsCounted' /\ DateCounted
<1> DEFINE n == seconds.passed
           m == seconds'.passed
<1>1. CASE RtcStep
  <2>1. CASE seconds.ticks + 1 < TicksPerSecond
    <3>1. seconds' = [seconds EXCEPT !.ticks = @ + 1]
      BY <1>1, <2>1 DEF RtcStep
    <3>2. m = n
      BY <3>1
    <3> QED BY <3>2 DEF SecondsCounted, DateCounted
  <2>2. CASE ~(seconds.ticks + 1 < TicksPerSecond)
    <3>1. m = n + 1 /\ rtc' = [rtc EXCEPT !.regs = AdvanceOneSecond(@)]
      BY <1>1, <2>2 DEF RtcStep
    <3>2. rtc'.regs = AdvanceOneSecond(rtc.regs)
      BY <3>1 DEF RtcTypes, Chips
    <3>3. rtc.regs \in [0..7 -> Octets]
      BY DEF RtcTypes, Chips
    <3> QED BY <3>1, <3>2, <3>3, OnTheSecond, AnySecond DEF SecondsCounted, DateCounted
  <2> QED BY <2>1, <2>2
<1>2. CASE ~RtcStep
  <2>1. seconds' = seconds
    BY <1>2 DEF RtcNext, rtcvars, RaiseCE, ClockHigh, ClockLow, DropCE, RtcCpuReset
  <2> QED BY <2>1 DEF SecondsCounted, DateCounted
<1> QED BY <1>1, <1>2

(***************************************************************************)
(* From any registers, and whatever else goes on at the wires, the clock   *)
(* counts seconds without a gap and comes back into range; from every date *)
(* it counts days too (advance_one_second).                                *)
(***************************************************************************)
THEOREM CalendarRight == RtcSpec => CalendarCounts
<1>1. RtcInit => SecondsCounted
  BY DEF RtcInit, SecondsCounted
<1>2. RtcTypes /\ SecondsCounted /\ [RtcNext]_rtcvars => SecondsCounted' /\ [DateCounted]_rtcvars
  BY SecondPasses
<1>3. RtcInv => RtcTypes
  BY DEF RtcInv
<1>4. CalendarCounts <=> [][DateCounted]_rtcvars
  BY PTL DEF CalendarCounts, DateCounted
<1> QED BY <1>1, <1>2, <1>3, <1>4, RtcInvariant, PTL DEF RtcSpec

-----------------------------------------------------------------------------
(***************************************************************************)
(* The touch controller.  First(x, n) is the n bits of the control byte    *)
(* that come first on the wire, Asked the reading a frame should show.     *)
(***************************************************************************)
Points == 0..4095

Pens ==
  [lastCs : {0, 1}, lastClk : {0, 1}, phase : {"IDLE", "CMD", "RESULT"}, bitcount : 0..8,
   cur : Octets, left : Int, shift : Points, out : {0, 1}, readings : [0..7 -> Points],
   stimuli : Int]

Touches ==
  [cs : {0, 1}, clk : {0, 1}, control : Octets, sent : 0..22, frames : Int, wanted : Points]

XptTypes == xpt \in Pens /\ touch \in Touches /\ high \in Seq({0, 1})

FollowsPins ==
  /\ xpt.lastCs = touch.cs /\ xpt.lastClk = touch.clk
  /\ touch.cs = 1 => xpt.phase = "IDLE"

(* The control byte comes with its highest bit first.                      *)
First(x, n) == IF n = 0 THEN 0 ELSE x \div Power(8 - n)

Asked == IF Width = 8 THEN touch.wanted \div 16 ELSE touch.wanted

InControl ==
  touch.cs = 0 /\ touch.sent < 8 =>
    /\ xpt.phase = "CMD" /\ xpt.bitcount = touch.sent
    /\ xpt.cur = First(touch.control, touch.sent) /\ high = <<>>

InResult ==
  touch.cs = 0 /\ touch.sent >= 8 =>
    /\ xpt.phase = "RESULT" /\ xpt.shift = Asked
    /\ xpt.left = Width - (touch.sent - 8) - (1 - touch.clk)
    /\ xpt.left > 0 => xpt.out = Digit(xpt.shift, xpt.left - 1)
    /\ Len(high) = touch.sent - 7
    /\ \A i \in 1..Len(high) : i <= Width => high[i] = Digit(xpt.shift, Width - i)

XptInv == XptTypes /\ FollowsPins /\ InControl /\ InResult

LEMMA Powers ==
  /\ Power(0) = 1 /\ Power(1) = 2 /\ Power(2) = 4 /\ Power(3) = 8
  /\ Power(4) = 16 /\ Power(5) = 32 /\ Power(6) = 64 /\ Power(7) = 128
  /\ Power(8) = 256 /\ Power(9) = 512 /\ Power(10) = 1024 /\ Power(11) = 2048
BY DEF Power

LEMMA DigitIsBit ==
  ASSUME NEW x \in Points, NEW i \in 0..11
  PROVE  Digit(x, i) \in {0, 1}
<1> DEFINE w == Power(i)
           q == x \div w
<1>1. w \in Nat \ {0} /\ x \in Nat /\ 2 \in Nat \ {0}
  BY Powers DEF Points
<1> HIDE DEF w
<1>2. q \in Nat
  BY <1>1, Division
<1> HIDE DEF q
<1>3. q % 2 \in 0..1
  BY <1>1, <1>2, Division
<1> QED BY <1>3 DEF Digit, q, w

LEMMA HalvesOf ==
  ASSUME NEW x \in Nat, NEW w \in Nat \ {0}
  PROVE  x \div w = 2 * (x \div (2 * w)) + ((x \div w) % 2)
<1> DEFINE v == 2 * w
           q == x \div w
           r == x % w
           h == q \div 2
           e == q % 2
           y == r + w * e
<1>1. v \in Nat \ {0} /\ x \in Int
  OBVIOUS
<1>2. q \in Nat /\ r \in 0..w - 1 /\ x = w * q + r
  BY <1>1, Division
<1> HIDE DEF q, r
<1>3. h \in Nat /\ e \in 0..1 /\ q = 2 * h + e
  BY <1>2, Division
<1> HIDE DEF h, e
<1>4. w * q = v * h + w * e
  BY <1>2, <1>3
<1>5. y \in 0..v - 1
  <2>1. e = 0 \/ e = 1
    BY <1>3
  <2>2. CASE e = 0
    BY <1>2, <2>2
  <2>3. CASE e = 1
    BY <1>2, <2>3
  <2> QED BY <2>1, <2>2, <2>3
<1>6. x = v * h + y
  <2> DEFINE a == w * q
             b == v * h
             c == w * e
  <2>1. a \in Int /\ b \in Int /\ c \in Int /\ a = b + c /\ x = a + r
    BY <1>1, <1>2, <1>3, <1>4
  <2> HIDE DEF a, b, c
  <2>2. x = b + (r + c)
    BY <1>2, <2>1
  <2> QED BY <2>2 DEF b, c
<1> HIDE DEF v, y
<1>7. x \div v = h
  BY <1>1, <1>3, <1>5, <1>6, Quotient
<1> QED BY <1>3, <1>7 DEF v, q, e

LEMMA NextFirst ==
  ASSUME NEW x \in Octets, NEW n \in 0..7
  PROVE  /\ Digit(x, 7 - n) \in {0, 1} /\ First(x, n + 1) \in Octets
         /\ (2 * First(x, n) + Digit(x, 7 - n)) % 256 = First(x, n + 1)
         /\ First(x, 8) = x /\ First(x, 0) = 0
<1> DEFINE w == Power(7 - n)
           q == x \div w
           e == q % 2
           h == x \div (2 * w)
<1>1. w \in Nat \ {0} /\ x \in Nat /\ x < 256 /\ 2 \in Nat \ {0} /\ 2 * w \in Nat \ {0}
  BY Powers DEF Octets
<1>2. First(x, n + 1) = q
  <2>1. 8 - (n + 1) = 7 - n /\ n + 1 # 0
    OBVIOUS
  <2> QED BY <2>1 DEF First
<1>3. Digit(x, 7 - n) = e
  BY DEF Digit
<1>4. First(x, n) = h
  <2>1. CASE n = 0
    <3>1. x = 256 * 0 + x /\ x \in 0..256 - 1 /\ 0 \in Int /\ x \in Int /\ 256 \in Nat \ {0}
      BY <1>1
    <3>2. x \div 256 = 0
      BY <3>1, Quotient
    <3>3. 2 * w = 256
      BY <2>1, Powers
    <3> QED BY <2>1, <3>2, <3>3 DEF First
  <2>2. CASE n # 0
    <3>1. Power(8 - n) = 2 * w
      BY <2>2, Powers
    <3> QED BY <2>2, <3>1 DEF First
  <2> QED BY <2>1, <2>2
<1>5. First(x, 8) = x
  <2>1. x = 1 * x + 0 /\ x \in Int /\ 0 \in 0..1 - 1 /\ 1 \in Nat \ {0}
    BY <1>1
  <2>2. x \div 1 = x
    BY <2>1, Quotient
  <2> QED BY <2>2, Powers DEF First
<1> DEFINE r == x % w
<1> HIDE DEF w
<1>6. q \in Nat /\ r \in 0..w - 1 /\ x = w * q + r
  BY <1>1, Division
<1>7. q = 2 * h + e
  BY <1>1, HalvesOf
<1>8. q <= x
  <2> HIDE DEF q, r
  <2>1. w * q >= q
    BY <1>1, <1>6
  <2> DEFINE p == w * q
  <2>2. p \in Int
    BY <1>1, <1>6
  <2> HIDE DEF p
  <2>3. p >= q /\ x = p + r
    BY <1>6, <2>1 DEF p
  <2> QED BY <1>1, <1>6, <2>2, <2>3
<1>9. e \in {0, 1}
  <2> HIDE DEF q
  <2>1. e \in 0..1
    BY <1>1, <1>6, Division
  <2> QED BY <2>1
<1> HIDE DEF q, e, h, r
<1>10. q \in 0..256 - 1 /\ q = 256 * 0 + q /\ 0 \in Int /\ q \in Int /\ 256 \in Nat \ {0}
  BY <1>1, <1>6, <1>8
<1>11. q % 256 = q
  BY <1>10, Remainder
<1>12. First(x, 0) = 0
  BY DEF First
<1>13. (2 * First(x, n) + Digit(x, 7 - n)) % 256 = First(x, n + 1)
  BY <1>2, <1>3, <1>4, <1>7, <1>11
<1> QED BY <1>2, <1>3, <1>5, <1>9, <1>10, <1>12, <1>13 DEF Octets

LEMMA PointIs == ASSUME NEW p \in Points PROVE p \in Nat /\ p <= 4095
BY DEF Points

LEMMA BytePoint == \A p \in 0..255 : p \in Points
BY DEF Points

LEMMA SixteenthIs == ASSUME NEW p \in Points PROVE p \div 16 \in 0..255
<1> DEFINE q == p \div 16
<1>1. p \in Nat /\ p <= 4095 /\ 16 \in Nat \ {0}
  BY PointIs
<1>2. q \in Nat /\ p % 16 \in 0..15 /\ p = 16 * q + (p % 16)
  BY <1>1, Division
<1> DEFINE r == p % 16
<1> HIDE DEF q, r
<1>3. q \in 0..255
  BY <1>1, <1>2 DEF r
<1> QED BY <1>3 DEF q
(* What on_clk_write remembers last.                                       *)
Marks(c, k) == [c EXCEPT !.lastClk = k]

LEMMA MarksIs ==
  ASSUME NEW c \in Pens, NEW k \in {0, 1}
  PROVE  /\ Marks(c, k) \in Pens /\ Marks(c, k).lastClk = k /\ Marks(c, k).lastCs = c.lastCs
         /\ Marks(c, k).phase = c.phase /\ Marks(c, k).bitcount = c.bitcount
         /\ Marks(c, k).cur = c.cur /\ Marks(c, k).left = c.left /\ Marks(c, k).shift = c.shift
         /\ Marks(c, k).out = c.out /\ Marks(c, k).readings = c.readings
         /\ Marks(c, k).stimuli = c.stimuli
BY DEF Pens, Marks

LEMMA TouchIs ==
  ASSUME XptTypes
  PROVE  /\ touch.control \in Octets /\ touch.sent \in 0..22 /\ touch.wanted \in Points
         /\ touch.cs \in {0, 1} /\ touch.clk \in {0, 1} /\ touch.frames \in Int
         /\ Width \in {8, 12} /\ Channel \in 0..7
         /\ touch.wanted \div 16 \in 0..255 /\ Asked \in Points
<1>1. /\ touch.control \in Octets /\ touch.sent \in 0..22 /\ touch.wanted \in Points
      /\ touch.cs \in {0, 1} /\ touch.clk \in {0, 1} /\ touch.frames \in Int
  BY DEF XptTypes, Touches
<1>2. Width \in {8, 12}
  BY DEF Width
<1> DEFINE q == touch.control \div 16
           w == touch.wanted \div 16
<1>3. q \in Nat /\ 8 \in Nat \ {0}
  <2>1. touch.control \in Nat /\ 16 \in Nat \ {0}
    BY <1>1 DEF Octets
  <2> QED BY <2>1, Division
<1>4. w \in 0..255
  BY <1>1, SixteenthIs
<1> HIDE DEF q, w
<1>5. q % 8 \in 0..7
  BY <1>3, Division
<1>6. Asked \in Points
  BY <1>1, <1>4, BytePoint DEF Asked, w
<1> QED BY <1>1, <1>2, <1>4, <1>5, <1>6 DEF Channel, q, w

(* The control byte is complete.                                           *)
LEMMA DecodedControl ==
  ASSUME NEW c \in Pens, NEW b \in {8, 12}, b = IF Digit(c.cur, 3) = 1 THEN 8 ELSE 12,
         NEW r \in Points, r = c.readings[(c.cur \div 16) % 8],
         NEW v \in Points, v = IF b = 8 THEN r \div 16 ELSE r
  PROVE  /\ Decoded(c) \in Pens
         /\ Decoded(c).lastCs = c.lastCs /\ Decoded(c).readings = c.readings
         /\ Decoded(c).phase = "RESULT" /\ Decoded(c).left = b /\ Decoded(c).shift = v
         /\ Decoded(c).out = Digit(v, b - 1)
<1> DEFINE o == Digit(v, b - 1)
           d == [c EXCEPT !.phase = "RESULT", !.left = b, !.shift = v, !.out = o]
<1>1. Decoded(c) = d
  <2>1. (b = 8) <=> (Digit(c.cur, 3) = 1)
    OBVIOUS
  <2>2. v = IF Digit(c.cur, 3) = 1 THEN r \div 16 ELSE r
    BY <2>1
  <2> QED BY <2>2 DEF Decoded
<1>2. o \in {0, 1}
  <2>1. b - 1 \in 0..11
    OBVIOUS
  <2> QED BY <2>1, DigitIsBit
<1>3. b \in Int
  OBVIOUS
<1> HIDE DEF o
<1>4. d \in Pens
  BY <1>2, <1>3, ZenonT(40) DEF Pens
<1>5. d.lastCs = c.lastCs /\ d.readings = c.readings /\ d.phase = "RESULT"
  BY DEF Pens
<1>6. d.left = b /\ d.shift = v /\ d.out = o
  BY DEF Pens
<1> HIDE DEF d
<1> QED BY <1>1, <1>4, <1>5, <1>6 DEF o

LEMMA SelectedStays ==
  ASSUME XptTypes, FollowsPins, touch.cs = 0
  PROVE  OnCs(xpt, 0) = xpt
<1>1. xpt.lastCs = 0 /\ xpt \in Pens
  BY DEF FollowsPins, XptTypes
<1>2. OnCs(xpt, 0) = [xpt EXCEPT !.lastCs = 0]
  BY <1>1 DEF OnCs
<1>3. [xpt EXCEPT !.lastCs = 0] = xpt
  BY <1>1 DEF Pens
<1> QED BY <1>2, <1>3

LEMMA FrameKept ==
  ASSUME touch'.control = touch.control
  PROVE  /\ Width' = Width
         /\ touch'.wanted = touch.wanted => Asked' = Asked
BY DEF Width, Asked

LEMMA ClkHighInControl ==
  ASSUME XptInv, ClkHigh, touch.sent < 8
  PROVE  XptInv'
<1> DEFINE n == touch.sent
           x == touch.control
           e == Digit(x, 7 - n)
           got == [xpt EXCEPT !.cur = First(x, n + 1), !.bitcount = n + 1]
           c == IF n = 7 THEN Decoded(got) ELSE got
           u == IF n = 7 THEN xpt.readings[Channel] ELSE touch.wanted
           t == [touch EXCEPT !.clk = 1, !.sent = n + 1, !.wanted = u]
<1>1. /\ XptTypes /\ FollowsPins /\ touch.cs = 0 /\ touch.clk = 0 /\ n \in 0..7 /\ x \in Octets
      /\ xpt \in Pens /\ touch \in Touches
      /\ xpt.phase = "CMD" /\ xpt.bitcount = n /\ xpt.cur = First(x, n) /\ high = <<>>
      /\ Channel \in 0..7 /\ Width \in {8, 12} /\ touch.wanted \in Points
  <2>1. XptTypes /\ FollowsPins /\ InControl /\ touch.cs = 0 /\ touch.clk = 0
    BY DEF XptInv, ClkHigh
  <2>2. n \in 0..22 /\ x \in Octets /\ Channel \in 0..7 /\ Width \in {8, 12} /\ touch.wanted \in Points
    BY <2>1, TouchIs
  <2> QED BY <2>1, <2>2 DEF InControl, XptTypes
<1>2. xpt.lastCs = 0 /\ xpt.lastClk = 0
  BY <1>1 DEF FollowsPins
<1>3. /\ e \in {0, 1} /\ First(x, n + 1) \in Octets /\ (2 * xpt.cur + e) % 256 = First(x, n + 1)
      /\ First(x, 8) = x
  BY <1>1, NextFirst
<1>4. /\ xpt' = OnClk(xpt, 1, e) /\ touch' = t
      /\ high' = IF n >= 7 THEN Append(high, xpt'.out) ELSE high
  BY <1>1, SelectedStays DEF ClkHigh
<1>5. OnClk(xpt, 1, e) = Marks(c, 1)
  <2>1. [xpt EXCEPT !.cur = (2 * @ + e) % 256, !.bitcount = @ + 1] = got
    BY <1>1, <1>3
  <2>2. n + 1 \in 0..8
    BY <1>1
  <2>3. got.bitcount = n + 1
    BY <1>1, <2>2 DEF Pens
  <2> HIDE DEF got, e, x
  <2>4. (n + 1 = 8) <=> (n = 7)
    BY <1>1
  <2> HIDE DEF n
  <2>5. OnClk(xpt, 1, e) = Marks(IF got.bitcount = 8 THEN Decoded(got) ELSE got, 1)
    BY <1>1, <1>2, <2>1 DEF OnClk, Marks
  <2> QED BY <2>3, <2>4, <2>5
<1> HIDE DEF e
<1>6. /\ got \in Pens /\ got.cur = First(x, n + 1) /\ got.bitcount = n + 1 /\ got.phase = "CMD"
      /\ got.lastCs = 0 /\ got.readings = xpt.readings
  <2>1. n + 1 \in 0..8
    BY <1>1
  <2> QED BY <1>1, <1>2, <1>3, <2>1 DEF Pens
<1> HIDE DEF got
<1>7. xpt.readings[Channel] \in Points
  BY <1>1 DEF Pens
<1>8. /\ t \in Touches /\ t.cs = 0 /\ t.clk = 1 /\ t.sent = n + 1 /\ t.control = x
      /\ t.wanted = IF n = 7 THEN xpt.readings[Channel] ELSE touch.wanted
  <2>1. n + 1 \in 0..22 /\ u \in Points
    BY <1>1, <1>7
  <2> HIDE DEF u
  <2>2. t \in Touches /\ t.cs = 0 /\ t.clk = 1 /\ t.sent = n + 1 /\ t.control = x /\ t.wanted = u
    BY <1>1, <2>1 DEF Touches
  <2> QED BY <2>2 DEF u
<1> HIDE DEF t
<1>9. Width' = Width
  BY <1>4, <1>8, FrameKept
<1>10. CASE n # 7
  <2>1. c = got /\ ~(n >= 7) /\ n + 1 < 8
    BY <1>1, <1>10
  <2>2. /\ xpt' \in Pens /\ xpt'.lastClk = 1 /\ xpt'.lastCs = 0 /\ xpt'.phase = "CMD"
        /\ xpt'.bitcount = n + 1 /\ xpt'.cur = First(x, n + 1)
    BY <1>4, <1>5, <1>6, <2>1, MarksIs
  <2>3. high' = <<>> /\ high' \in Seq({0, 1})
    BY <1>1, <1>4, <2>1
  <2>4. XptTypes' /\ FollowsPins'
    BY <1>4, <1>8, <2>2, <2>3 DEF XptTypes, FollowsPins
  <2>5. InControl' /\ InResult'
    <3>1. ~(touch'.sent >= 8)
      BY <1>1, <1>4, <1>8, <2>1
    <3> QED BY <1>4, <1>8, <2>2, <2>3, <3>1 DEF InControl, InResult
  <2> QED BY <2>4, <2>5 DEF XptInv
<1>11. CASE n = 7
  <2> DEFINE r == xpt.readings[Channel]
             v == IF Width = 8 THEN r \div 16 ELSE r
  <2>1. c = Decoded(got) /\ got.cur = x /\ high' = Append(high, xpt'.out)
    BY <1>1, <1>3, <1>4, <1>6, <1>11
  <2>2. r \div 16 \in 0..255
    BY <1>7, SixteenthIs
  <2>3. v \in Points
    BY <1>7, <2>2, BytePoint
  <2>4. r = got.readings[(got.cur \div 16) % 8] /\ Width = IF Digit(got.cur, 3) = 1 THEN 8 ELSE 12
    BY <1>6, <2>1 DEF Channel, Width
  <2>5. v = IF Width = 8 THEN r \div 16 ELSE r
    OBVIOUS
  <2>6. r \in Points
    BY <1>7
  <2> HIDE DEF r, v, c
  <2>7. /\ c \in Pens /\ c.lastCs = 0 /\ c.phase = "RESULT" /\ c.left = Width /\ c.shift = v
        /\ c.out = Digit(v, Width - 1)
    BY <1>1, <1>6, <2>1, <2>3, <2>4, <2>5, <2>6, DecodedControl
  <2>8. /\ xpt' \in Pens /\ xpt'.lastClk = 1 /\ xpt'.lastCs = 0 /\ xpt'.phase = "RESULT"
        /\ xpt'.left = Width /\ xpt'.shift = v /\ xpt'.out = Digit(v, Width - 1)
    BY <1>4, <1>5, <2>7, MarksIs
  <2>9. xpt'.out \in {0, 1}
    BY <2>8 DEF Pens
  <2>10. high' \in Seq({0, 1}) /\ Len(high') = 1 /\ high'[1] = xpt'.out
    BY <1>1, <2>1, <2>9
  <2>11. touch'.sent = 8 /\ touch'.clk = 1 /\ touch'.cs = 0
    BY <1>4, <1>8, <1>11
  <2>12. Asked' = v
    BY <1>4, <1>8, <1>9, <1>11 DEF Asked, v, r
  <2>13. XptTypes' /\ FollowsPins'
    BY <1>4, <1>8, <2>8, <2>10, <2>11 DEF XptTypes, FollowsPins
  <2>14. InControl'
    BY <2>11 DEF InControl
  <2>15. InResult'
    <3>1. \A i \in 1..Len(high') : high'[i] = Digit(xpt'.shift, Width' - i)
      BY <1>9, <2>8, <2>10
    <3>2. Width - (8 - 8) - (1 - 1) = Width /\ 8 - 7 = 1
      BY <1>1
    <3> QED BY <1>9, <2>8, <2>10, <2>11, <2>12, <3>1, <3>2 DEF InResult
  <2> QED BY <2>13, <2>14, <2>15 DEF XptInv
<1> QED BY <1>10, <1>11

LEMMA ClkHighInResult ==
  ASSUME XptInv, ClkHigh, touch.sent >= 8
  PROVE  XptInv'
<1> DEFINE n == touch.sent
           t == [touch EXCEPT !.clk = 1, !.sent = n + 1, !.wanted = touch.wanted]
<1>1. /\ XptTypes /\ FollowsPins /\ touch.cs = 0 /\ touch.clk = 0
      /\ xpt \in Pens /\ touch \in Touches /\ high \in Seq({0, 1})
  BY DEF XptInv, XptTypes, ClkHigh
<1>n. n \in 8..21 /\ Width \in {8, 12}
  <2>1. n \in 0..22 /\ Width \in {8, 12} /\ n < 22
    BY <1>1, TouchIs DEF ClkHigh
  <2> QED BY <2>1
<1>p. InResult /\ touch.cs = 0 /\ n >= 8 /\ 1 - touch.clk = 1
  BY <1>1 DEF XptInv
<1>r. xpt.phase = "RESULT" /\ xpt.shift = Asked
  BY <1>p DEF InResult
<1>l. xpt.left = Width - (n - 8) - 1
  BY <1>p DEF InResult
<1>g. Len(high) = n - 7
  BY <1>p DEF InResult
<1>o. xpt.left > 0 => xpt.out = Digit(xpt.shift, xpt.left - 1)
  BY <1>p DEF InResult
<1>h. \A i \in 1..Len(high) : i <= Width => high[i] = Digit(xpt.shift, Width - i)
  BY <1>p DEF InResult
<1>2. xpt.lastCs = 0 /\ xpt.lastClk = 0
  BY <1>1 DEF FollowsPins
<1>3. /\ xpt' = OnClk(xpt, 1, 0) /\ touch' = t /\ high' = Append(high, xpt'.out)
  <2>1. ~(n < 8) /\ n # 7 /\ n >= 7
    BY <1>n
  <2> QED BY <1>1, <2>1, SelectedStays DEF ClkHigh
<1>4. OnClk(xpt, 1, 0) = Marks(xpt, 1)
  BY <1>2, <1>r DEF OnClk, Marks
<1>5. /\ xpt' \in Pens /\ xpt'.lastClk = 1 /\ xpt'.lastCs = 0 /\ xpt'.phase = "RESULT"
      /\ xpt'.left = xpt.left /\ xpt'.shift = xpt.shift /\ xpt'.out = xpt.out /\ xpt.out \in {0, 1}
  <2>1. xpt.out \in {0, 1}
    BY <1>1 DEF Pens
  <2> QED BY <1>1, <1>2, <1>3, <1>4, <1>r, <2>1, MarksIs
<1>6. /\ t \in Touches /\ t.cs = 0 /\ t.clk = 1 /\ t.sent = n + 1 /\ t.control = touch.control
      /\ t.wanted = touch.wanted
  <2>1. n + 1 \in 0..22
    BY <1>n
  <2> QED BY <1>1, <2>1 DEF Touches
<1> HIDE DEF t
<1>7. Width' = Width /\ Asked' = Asked
  BY <1>3, <1>6, FrameKept
<1>8. /\ high' \in Seq({0, 1}) /\ Len(high') = n - 6 /\ high'[n - 6] = xpt.out
      /\ \A i \in 1..n - 7 : high'[i] = high[i]
  <2> DEFINE o == xpt.out
             l == Len(high)
  <2>1. high' = Append(high, o) /\ o \in {0, 1} /\ l = n - 7 /\ l \in Nat
    <3>1. l = n - 7 /\ n \in 8..21
      BY <1>n, <1>g
    <3> HIDE DEF l, n
    <3>2. l \in Nat
      BY <3>1
    <3> QED BY <1>3, <1>5, <3>1, <3>2
  <2> HIDE DEF o
  <2>2. high' \in Seq({0, 1}) /\ Len(high') = l + 1 /\ high'[l + 1] = o
        /\ \A i \in 1..l : high'[i] = high[i]
    BY <1>1, <2>1
  <2>3. l + 1 = n - 6
    <3>1. l = n - 7 /\ n \in 8..21
      BY <1>n, <1>g
    <3> HIDE DEF l, n
    <3> QED BY <3>1
  <2> HIDE DEF l
  <2> QED BY <2>1, <2>2, <2>3 DEF o
<1>9. ASSUME NEW i \in 1..Len(high'), i <= Width
      PROVE  high'[i] = Digit(xpt'.shift, Width - i)
  <2>1. CASE i = n - 6
    <3>1. xpt.left > 0 /\ xpt.left - 1 = Width - i
      <4> DEFINE f == xpt.left
                 w == Width
      <4>1. f = w - (n - 8) - 1 /\ n \in 8..21 /\ w \in {8, 12} /\ i <= w /\ i = n - 6
        BY <1>n, <1>l, <1>9, <2>1
      <4> HIDE DEF f, w, n
      <4>2. f > 0 /\ f - 1 = w - i
        BY <4>1
      <4> QED BY <4>2 DEF f, w
    <3> QED BY <1>5, <1>8, <1>o, <2>1, <3>1
  <2>2. CASE i # n - 6
    <3>1. i \in 1..n - 7 /\ i \in 1..Len(high)
      <4>1. i \in 1..n - 6 /\ i # n - 6 /\ n \in 8..21
        BY <1>8, <1>9, <1>n, <2>2
      <4> HIDE DEF n
      <4>2. i \in 1..n - 7
        BY <4>1
      <4> QED BY <1>g, <4>2 DEF n
    <3> QED BY <1>5, <1>8, <1>9, <1>h, <3>1
  <2> QED BY <2>1, <2>2
<1>10. XptTypes' /\ FollowsPins'
  BY <1>3, <1>5, <1>6, <1>8 DEF XptTypes, FollowsPins
<1>11. InControl'
  <2>1. ~(touch'.sent < 8)
    BY <1>n, <1>3, <1>6
  <2> QED BY <2>1 DEF InControl
<1>12. InResult'
  <2>1. xpt'.left = Width - ((n + 1) - 8) - (1 - 1) /\ Len(high') = (n + 1) - 7
    <3>1. Width - (n - 8) - 1 = Width - ((n + 1) - 8) - (1 - 1) /\ n - 6 = (n + 1) - 7
      <4> DEFINE w == Width
      <4>1. n \in 8..21 /\ w \in {8, 12}
        BY <1>n
      <4> HIDE DEF n, w
      <4>2. w - (n - 8) - 1 = w - ((n + 1) - 8) - (1 - 1) /\ n - 6 = (n + 1) - 7
        BY <4>1
      <4> QED BY <4>2 DEF w
    <3> QED BY <1>l, <1>5, <1>8, <3>1
  <2>2. xpt'.left > 0 => xpt'.out = Digit(xpt'.shift, xpt'.left - 1)
    BY <1>o, <1>5
  <2> QED BY <1>3, <1>r, <1>5, <1>6, <1>7, <1>9, <2>1, <2>2 DEF InResult
<1> QED BY <1>10, <1>11, <1>12 DEF XptInv

LEMMA ClkLowKeeps == ASSUME XptInv, ClkLow PROVE XptInv'
<1> DEFINE n == touch.sent
           l == xpt.left - 1
           o == IF xpt.left > 1 THEN Digit(xpt.shift, xpt.left - 2) ELSE xpt.out
           c == [xpt EXCEPT !.left = l, !.out = o]
           t == [touch EXCEPT !.clk = 0]
<1>1. /\ XptTypes /\ FollowsPins /\ touch.cs = 0 /\ touch.clk = 1 /\ n \in 0..22
      /\ xpt \in Pens /\ touch \in Touches /\ Width \in {8, 12}
  <2>1. XptTypes /\ touch.cs = 0 /\ touch.clk = 1
    BY DEF XptInv, ClkLow
  <2> QED BY <2>1, TouchIs DEF XptInv, XptTypes
<1>2. xpt.lastCs = 0 /\ xpt.lastClk = 1
  BY <1>1 DEF FollowsPins
<1>3. xpt' = OnClk(xpt, 0, 0) /\ touch' = t /\ high' = high
  BY <1>1, SelectedStays DEF ClkLow
<1>4. /\ t \in Touches /\ t.cs = 0 /\ t.clk = 0 /\ t.sent = n /\ t.control = touch.control
      /\ t.wanted = touch.wanted
  BY <1>1 DEF Touches
<1> HIDE DEF t
<1>5. Width' = Width /\ Asked' = Asked
  BY <1>3, <1>4, FrameKept
<1>6. CASE n < 8
  <2>1. xpt.phase = "CMD"
    BY <1>1, <1>6 DEF XptInv, InControl
  <2>2. OnClk(xpt, 0, 0) = Marks(xpt, 0)
    BY <1>2, <2>1 DEF OnClk, Marks
  <2>3. /\ xpt' \in Pens /\ xpt'.lastClk = 0 /\ xpt'.lastCs = 0 /\ xpt'.phase = xpt.phase
        /\ xpt'.bitcount = xpt.bitcount /\ xpt'.cur = xpt.cur
    BY <1>1, <1>2, <1>3, <2>2, MarksIs
  <2>4. XptTypes' /\ FollowsPins'
    BY <1>1, <1>3, <1>4, <2>3 DEF XptTypes, FollowsPins
  <2>5. InControl'
    BY <1>1, <1>3, <1>4, <1>6, <2>3 DEF XptInv, InControl
  <2>6. InResult'
    <3>1. ~(touch'.sent >= 8)
      BY <1>1, <1>3, <1>4, <1>6
    <3> QED BY <3>1 DEF InResult
  <2> QED BY <2>4, <2>5, <2>6 DEF XptInv
<1>7. CASE n >= 8
  <2>1. /\ xpt.phase = "RESULT" /\ xpt.shift = Asked
        /\ Len(high) = n - 7
        /\ \A i \in 1..Len(high) : i <= Width => high[i] = Digit(xpt.shift, Width - i)
    BY <1>1, <1>7 DEF XptInv, InResult
  <2>l. xpt.left = Width - (n - 8) /\ n \in 8..22 /\ Width \in {8, 12}
    <3>1. xpt.left = Width - (n - 8) - (1 - 1)
      BY <1>1, <1>7 DEF XptInv, InResult
    <3>2. n \in 8..22 /\ Width \in {8, 12}
      BY <1>1, <1>7
    <3> QED BY <3>1, <3>2
  <2>2. OnClk(xpt, 0, 0) = Marks(c, 0)
    BY <1>2, <2>1 DEF OnClk, Marks, ResultBit
  <2>3. l \in Int /\ l = Width - (n - 8) - 1 /\ o \in {0, 1}
    <3>1. xpt.shift \in Points /\ xpt.out \in {0, 1}
      BY <1>1 DEF Pens
    <3>2. xpt.left > 1 => xpt.left - 2 \in 0..11
      BY <2>l
    <3>3. xpt.left > 1 => Digit(xpt.shift, xpt.left - 2) \in {0, 1}
      BY <3>1, <3>2, DigitIsBit
    <3>4. l \in Int /\ l = Width - (n - 8) - 1
      BY <2>l
    <3> QED BY <3>1, <3>3, <3>4
  <2>4. l > 0 => o = Digit(xpt.shift, l - 1)
    <3>1. ASSUME l > 0 PROVE xpt.left > 1 /\ l - 1 = xpt.left - 2
      BY <2>l, <3>1
    <3> QED BY <3>1
  <2> HIDE DEF l, o
  <2>5. c \in Pens /\ c.left = l /\ c.out = o /\ c.phase = "RESULT" /\ c.shift = xpt.shift /\ c.lastCs = 0
    BY <1>1, <1>2, <2>1, <2>3 DEF Pens
  <2> HIDE DEF c
  <2>6. /\ xpt' \in Pens /\ xpt'.lastClk = 0 /\ xpt'.lastCs = 0 /\ xpt'.phase = "RESULT"
        /\ xpt'.left = l /\ xpt'.shift = xpt.shift /\ xpt'.out = o
    BY <1>3, <2>2, <2>5, MarksIs
  <2>7. XptTypes' /\ FollowsPins'
    BY <1>1, <1>3, <1>4, <2>6 DEF XptTypes, FollowsPins
  <2>8. InControl'
    <3>1. ~(touch'.sent < 8)
      BY <1>1, <1>3, <1>4, <1>7
    <3> QED BY <3>1 DEF InControl
  <2>9. InResult'
    <3>1. 1 - 0 = 1
      OBVIOUS
    <3> QED BY <1>3, <1>4, <1>5, <2>1, <2>3, <2>4, <2>6, <3>1 DEF InResult
  <2> QED BY <2>7, <2>8, <2>9 DEF XptInv
<1> QED BY <1>1, <1>6, <1>7

LEMMA SelectKeeps == ASSUME XptInv, NEW b \in Controls, PenSelect(b) PROVE XptInv'
<1> DEFINE a == [xpt EXCEPT !.phase = "CMD", !.bitcount = 0, !.cur = 0]
           c == [a EXCEPT !.lastCs = 0]
           t == [cs |-> 0, clk |-> 0, control |-> b, sent |-> 0, frames |-> touch.frames - 1, wanted |-> 0]
<1>1. XptTypes /\ FollowsPins /\ touch.cs = 1 /\ xpt \in Pens
  BY DEF XptInv, XptTypes, PenSelect
<1>2. xpt.lastCs = 1
  BY <1>1 DEF FollowsPins
<1>3. xpt' = OnClk(OnCs(xpt, 0), 0, 0) /\ touch' = t /\ high' = <<>>
  BY DEF PenSelect
<1>4. OnCs(xpt, 0) = c
  BY <1>2 DEF OnCs
<1>5. 0 \in Octets /\ 0 \in 0..8 /\ 0 \in 0..255
  BY DEF Octets
<1>6. /\ c \in Pens /\ c.phase = "CMD" /\ c.bitcount = 0 /\ c.cur = 0 /\ c.lastCs = 0
  BY <1>1, <1>5 DEF Pens
<1> HIDE DEF c
<1>7. OnClk(c, 0, 0) = Marks(c, 0)
  BY <1>6 DEF OnClk, Marks
<1>8. /\ xpt' \in Pens /\ xpt'.lastClk = 0 /\ xpt'.lastCs = 0 /\ xpt'.phase = "CMD"
      /\ xpt'.bitcount = 0 /\ xpt'.cur = 0
  BY <1>3, <1>4, <1>6, <1>7, MarksIs
<1>9. t \in Touches /\ t.cs = 0 /\ t.clk = 0 /\ t.sent = 0
  <2>1. b \in Octets /\ touch.frames - 1 \in Int /\ 0 \in Points
    <3>1. b \in Octets
      BY XptAssumption DEF Octets
    <3>2. touch.frames - 1 \in Int
      BY <1>1, TouchIs
    <3> QED BY <1>5, <3>1, <3>2, BytePoint
  <2> QED BY <2>1 DEF Touches
<1> HIDE DEF t
<1>10. high' \in Seq({0, 1})
  BY <1>3
<1>11. XptTypes' /\ FollowsPins'
  BY <1>3, <1>8, <1>9, <1>10 DEF XptTypes, FollowsPins
<1>12. InControl' /\ InResult'
  <2>1. First(touch'.control, 0) = 0
    BY DEF First
  <2> QED BY <1>3, <1>8, <1>9, <2>1 DEF InControl, InResult
<1> QED BY <1>11, <1>12 DEF XptInv

LEMMA DeselectKeeps == ASSUME XptInv, PenDeselect PROVE XptInv'
<1> DEFINE a == [xpt EXCEPT !.phase = "IDLE"]
           c == [a EXCEPT !.lastCs = 1]
           t == [touch EXCEPT !.cs = 1]
<1>1. XptTypes /\ FollowsPins /\ touch.cs = 0 /\ xpt \in Pens /\ touch \in Touches /\ touch.clk \in {0, 1}
  BY DEF XptInv, XptTypes, PenDeselect, Touches
<1>2. xpt.lastCs = 0
  BY <1>1 DEF FollowsPins
<1>3. xpt' = OnClk(OnCs(xpt, 1), touch.clk, 0) /\ touch' = t /\ high' = high
  BY DEF PenDeselect
<1>4. OnCs(xpt, 1) = c
  BY <1>2 DEF OnCs
<1>5. c \in Pens /\ c.phase = "IDLE" /\ c.lastCs = 1
  BY <1>1 DEF Pens
<1> HIDE DEF c
<1>6. OnClk(c, touch.clk, 0) = Marks(c, touch.clk)
  BY <1>5 DEF OnClk, Marks
<1>7. /\ xpt' \in Pens /\ xpt'.lastClk = touch.clk /\ xpt'.lastCs = 1 /\ xpt'.phase = "IDLE"
  BY <1>1, <1>3, <1>4, <1>5, <1>6, MarksIs
<1>8. t \in Touches /\ t.cs = 1 /\ t.clk = touch.clk
  BY <1>1 DEF Touches
<1> HIDE DEF t
<1> QED BY <1>1, <1>3, <1>7, <1>8 DEF XptInv, XptTypes, FollowsPins, InControl, InResult

LEMMA SetReadingKeeps ==
  ASSUME XptInv, NEW r \in Readings, NEW k \in 0..7, SetReading(k, r)
  PROVE  XptInv'
<1>1. XptTypes /\ xpt \in Pens /\ UNCHANGED <<touch, high>>
  BY DEF XptInv, XptTypes, SetReading
<1>2. xpt' = [xpt EXCEPT !.readings[k] = r, !.stimuli = @ + 1]
  BY DEF SetReading
<1>3. r \in Points
  BY XptAssumption DEF Points
<1> DEFINE f == [xpt.readings EXCEPT ![k] = r]
<1>4. f \in [0..7 -> Points] /\ xpt.stimuli + 1 \in Int
  BY <1>1, <1>3 DEF Pens
<1>5. xpt' = [xpt EXCEPT !.readings = f, !.stimuli = @ + 1]
  BY <1>1, <1>2 DEF Pens
<1> HIDE DEF f
<1>6. /\ xpt' \in Pens /\ xpt'.lastCs = xpt.lastCs /\ xpt'.lastClk = xpt.lastClk
      /\ xpt'.phase = xpt.phase /\ xpt'.bitcount = xpt.bitcount /\ xpt'.cur = xpt.cur
      /\ xpt'.left = xpt.left /\ xpt'.shift = xpt.shift /\ xpt'.out = xpt.out
  BY <1>1, <1>4, <1>5 DEF Pens
<1>7. Width' = Width /\ Asked' = Asked
  BY <1>1, FrameKept
<1> QED BY <1>1, <1>6, <1>7 DEF XptInv, XptTypes, FollowsPins, InControl, InResult

LEMMA XptFirst == XptInit => XptInv
<1> SUFFICES ASSUME XptInit PROVE XptInv
  OBVIOUS
<1>1. 0 \in Octets /\ 0 \in 0..8 /\ 0 \in Points /\ MaxFrames \in Int
  <2>1. 0 \in 0..255
    OBVIOUS
  <2> QED BY <2>1, XptAssumption, BytePoint DEF Octets
<1>2. xpt \in Pens /\ xpt.lastCs = 1 /\ xpt.lastClk = 0 /\ xpt.phase = "IDLE"
  BY <1>1 DEF XptInit, Pens
<1>3. touch \in Touches /\ touch.cs = 1 /\ touch.clk = 0
  BY <1>1 DEF XptInit, Touches
<1>4. high \in Seq({0, 1})
  BY DEF XptInit
<1> QED BY <1>2, <1>3, <1>4 DEF XptInv, XptTypes, FollowsPins, InControl, InResult

LEMMA XptKept == XptInv /\ [XptNext]_xptvars => XptInv'
<1> SUFFICES ASSUME XptInv, [XptNext]_xptvars PROVE XptInv'
  OBVIOUS
<1>1. ASSUME NEW b \in Controls, PenSelect(b) PROVE XptInv'
  BY <1>1, SelectKeeps
<1>2. CASE ClkHigh
  <2>1. touch.sent \in 0..22
    BY TouchIs DEF XptInv
  <2> QED BY <1>2, <2>1, ClkHighInControl, ClkHighInResult
<1>3. CASE ClkLow
  BY <1>3, ClkLowKeeps
<1>4. CASE PenDeselect
  BY <1>4, DeselectKeeps
<1>5. ASSUME NEW r \in Readings, NEW k \in {1, 5}, SetReading(k, r) PROVE XptInv'
  <2>1. k \in 0..7
    OBVIOUS
  <2> QED BY <1>5, <2>1, SetReadingKeeps
<1>6. CASE UNCHANGED xptvars
  BY <1>6 DEF xptvars, XptInv, XptTypes, FollowsPins, InControl, InResult, Width, Asked
<1> QED BY <1>1, <1>2, <1>3, <1>4, <1>5, <1>6 DEF XptNext

(***************************************************************************)
(* Wherever a frame was cut off and whatever readings were set in it, the  *)
(* controller's byte, counter and output bit are those of the clocks since *)
(* CS fell, and the reading it shifts out is the one of the moment the     *)
(* control byte ended.                                                     *)
(***************************************************************************)
THEOREM XptInvariant == XptSpec => []XptInv
BY XptFirst, XptKept, PTL DEF XptSpec

ReadsOut ==
  Len(high') = Width /\ Len(high) < Width =>
    Spells(high', IF Width = 8 THEN touch'.wanted \div 16 ELSE touch'.wanted)

LEMMA ReadsItOut == ASSUME XptInv, XptInv', [XptNext]_xptvars PROVE ReadsOut
<1> SUFFICES ASSUME Len(high') = Width, Len(high) < Width
             PROVE  Spells(high', IF Width = 8 THEN touch'.wanted \div 16 ELSE touch'.wanted)
  BY DEF ReadsOut
<1>1. /\ Width \in {8, 12} /\ XptTypes /\ high \in Seq({0, 1}) /\ high' \in Seq({0, 1})
      /\ touch.sent \in 0..22
  BY TouchIs DEF XptInv, XptTypes
<1>2. Len(high') # Len(high) /\ Len(high') # 0
  BY <1>1
<1>3. ClkHigh
  <2>1. ~ UNCHANGED high /\ high' # <<>>
    BY <1>2
  <2> QED BY <2>1 DEF XptNext, xptvars, PenSelect, ClkLow, PenDeselect, SetReading
<1>4. touch'.control = touch.control /\ touch'.cs = 0 /\ touch'.sent = touch.sent + 1
  BY <1>1, <1>3 DEF ClkHigh, XptTypes, Touches
<1>5. Width' = Width
  BY <1>4, FrameKept
<1>6. touch'.sent >= 8
  <2>1. ~(touch.sent >= 7) => high' = high
    BY <1>3 DEF ClkHigh
  <2>2. touch.sent >= 7
    <3>1. high' # high
      BY <1>2
    <3> QED BY <2>1, <3>1
  <2> DEFINE n == touch.sent
             m == touch'.sent
  <2>3. n \in 0..22 /\ n >= 7 /\ m = n + 1
    BY <1>1, <1>4, <2>2
  <2> HIDE DEF n, m
  <2>4. m >= 8
    BY <2>3
  <2> QED BY <2>4 DEF m
<1>7. /\ xpt'.shift = Asked'
      /\ \A i \in 1..Len(high') : i <= Width' => high'[i] = Digit(xpt'.shift, Width' - i)
  BY <1>4, <1>6 DEF XptInv, InResult
<1>8. Asked' = IF Width = 8 THEN touch'.wanted \div 16 ELSE touch'.wanted
  BY <1>5 DEF Asked
<1>9. \A i \in 1..Len(high') : high'[i] = Digit(Asked', Len(high') - i)
  <2>1. \A i \in 1..Width : i <= Width
    BY <1>1
  <2> QED BY <1>5, <1>7, <2>1
<1>10. DOMAIN high' = 1..Len(high')
  BY <1>1
<1> QED BY <1>8, <1>9, <1>10 DEF Spells

(***************************************************************************)
(* The bits sampled while CLK is high spell the reading of the moment the  *)
(* control byte ended (on_clk_write copies it to shift_reg).               *)
(***************************************************************************)
THEOREM ReadingsWhole == XptSpec => ReadingIsWhole
<1>1. XptInv /\ XptInv' /\ [XptNext]_xptvars => [ReadsOut]_xptvars
  BY ReadsItOut
<1>2. ReadingIsWhole <=> [][ReadsOut]_xptvars
  BY PTL DEF ReadingIsWhole, ReadsOut
<1> QED BY <1>1, <1>2, XptInvariant, PTL DEF XptSpec

=============================================================================
